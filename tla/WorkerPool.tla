------------------------------ MODULE WorkerPool ------------------------------
(****************************************************************************)
(* The scheduler of a self-hosted project's pool (loop/pool.py,             *)
(* loop/pool_handoff.py): it spawns workers, reaps them, stops on some of   *)
(* their exits and re-executes itself onto a newer build of the factory,    *)
(* its children running on, with pool.json as its only memory of them.      *)
(*                                                                          *)
(* A build is its place on the factory's main.  Of the store a build counts *)
(* the breaking changes of its schema (its era: no other era's build reads  *)
(* it) and the additive ones (a build of the era reads a newer one).        *)
(****************************************************************************)
EXTENDS Naturals, FiniteSets, FiniteSetsExt

CONSTANTS
    Workers,        \* [loop] workers, above 1
    Pids,           \* the process ids children get; a reaped one is given again
    MaxBuild,       \* the factory's main grows to this build
    Breaking,       \* the builds that bring a breaking change of the schema
    Additive,       \* the builds that bring an additive one
    StopOnFailure,  \* [loop] stop_on_failure
    LocalMerges     \* mode = local: merges move the checkout's main, unpushed

ASSUME PoolParameters ==
    /\ Workers \in Nat \ {0, 1}
    /\ MaxBuild \in Nat
    /\ Breaking \cup Additive \subseteq 1..MaxBuild
    /\ StopOnFailure \in BOOLEAN
    /\ LocalMerges \in BOOLEAN

Builds == 0..MaxBuild
Era(b) == Cardinality({c \in Breaking : c <= b})
Revision(b) == Cardinality({c \in Additive : c <= b})

\* store.open(): the schema of build b's era and no other is readable.
Reads(b, c) == Era(b) = Era(c)
SameSchema(b, c) == Era(b) = Era(c) /\ Revision(b) = Revision(c)

Codes == {"merged", "failed", "parked", "idle", "stop", "board_down", "handoff", "crash"}

VARIABLES
    sched,     \* the scheduler: where it is in its tick, and its _PoolState
    build,     \* the build it has loaded
    pool,      \* the children it counts against its workers
    file,      \* the children pool.json lists
    child,     \* each child: none, live, landed (live, its merge made), or its exit
    loaded,    \* the build each child has loaded
    witness,   \* the witness child
    orphan,    \* a witness pass of the previous image is still running
    head,      \* the factory checkout's HEAD
    tracking,  \* its origin/main
    origin,    \* main at origin
    store,     \* the build whose schema the store has
    held,      \* admission is off
    stopSeen   \* a worker's exit has stopped the pool (history)

vars == <<sched, build, pool, file, child, loaded, witness, orphan, head,
          tracking, origin, store, held, stopSeen>>
code == <<head, tracking, origin>>
procs == <<child, loaded, witness, orphan>>

Fresh == [at |-> "open", stopped |-> FALSE, broken |-> FALSE, boardDown |-> FALSE,
          paused |-> "no", restart |-> FALSE, why |-> "merge", unfollowable |-> FALSE,
          prepared |-> "no", schemaMoves |-> FALSE, rc |-> 0]

Live(w) == child[w] \in {"live", "landed"}
LiveWorkers == {w \in Pids : Live(w)}
Unreaped == {w \in Pids : child[w] # "none"}

\* The values the scheduler's locals, its children and the hand-off file range
\* over.
TypeOK ==
    /\ sched \in [at : {"open", "top", "restart", "spawn", "probed", "settle",
                        "wait", "gone", "dropped"},
                  stopped : BOOLEAN, broken : BOOLEAN, boardDown : BOOLEAN,
                  paused : {"no", "fresh", "old"}, restart : BOOLEAN,
                  why : {"merge", "readable", "unreadable"}, unfollowable : BOOLEAN,
                  prepared : {"no", "ff", "disk"}, schemaMoves : BOOLEAN, rc : {0, 1}]
    /\ {build, head, tracking, origin, store} \subseteq Builds
    /\ pool \subseteq Pids /\ file \subseteq Pids
    /\ child \in [Pids -> {"none", "live", "landed"} \cup Codes]
    /\ loaded \in [Pids -> Builds]
    /\ witness \in {"none", "live", "exited"}
    /\ orphan \in BOOLEAN /\ held \in BOOLEAN /\ stopSeen \in BOOLEAN

Init == /\ sched = Fresh
        /\ build = 0 /\ store = 0
        /\ head = 0 /\ tracking = 0 /\ origin = 0
        /\ pool = {} /\ file = {}
        /\ child = [w \in Pids |-> "none"]
        /\ loaded = [w \in Pids |-> 0]
        /\ witness = "none" /\ orphan = FALSE
        /\ held = FALSE /\ stopSeen = FALSE

Goes(place) == sched' = [sched EXCEPT !.at = place]
At(place) == sched.at = place

\* Mutant: a wanted restart does not stop the spawning.
DrainingStopped == sched.stopped

Draining == sched.stopped \/ sched.restart
Spawning == ~Draining /\ sched.paused # "fresh"

\* Opening the store migrates it to the opener's schema when that is newer.
Opened(b) == IF b > store THEN b ELSE store

(*************************** starting, and the exec *************************)

\* Mutant: the children handed over are not restored.
OpenForgetting == /\ At("open")
                  /\ Era(build) >= Era(store)
                  /\ store' = Opened(build)
                  /\ pool' = {}
                  /\ Goes("top")
                  /\ UNCHANGED <<build, file, procs, code, held, stopSeen>>

\* scheduler(): the store opened, the pool restored.
Open == /\ At("open")
        /\ Era(build) >= Era(store)
        /\ store' = Opened(build)
        /\ pool' = file
        /\ Goes("top")
        /\ UNCHANGED <<build, file, procs, code, held, stopSeen>>

\* SchemaNewer: main() re-executes whatever the disk holds.
OpenRefused == /\ At("open")
               /\ Era(build) < Era(store)
               /\ build' = head
               /\ UNCHANGED <<sched, pool, file, procs, code, store, held, stopSeen>>

\* main(): a start whose agent routes do not answer returns 1, its handed-over
\* children running on.
StartRefused == /\ At("open")
                /\ sched' = [sched EXCEPT !.at = "dropped", !.rc = 1]
                /\ UNCHANGED <<build, pool, file, procs, code, store, held, stopSeen>>

\* _schema_move: someone's newer build has migrated the store.
CheckSchema ==
    /\ At("top")
    /\ sched' = IF ~Spawning \/ store <= build \/ SameSchema(build, store)
                   \/ (Reads(build, store) /\ sched.unfollowable)
                THEN [sched EXCEPT !.at = "restart"]
                ELSE [sched EXCEPT !.at = "restart", !.restart = TRUE,
                                   !.why = IF Reads(build, store) THEN "readable"
                                           ELSE "unreadable"]
    /\ UNCHANGED <<build, pool, file, procs, code, store, held, stopSeen>>

\* Mutant: a stop does not keep the scheduler from its restart.
MayPrepareStopped == sched.restart /\ sched.why # "unreadable"

MayPrepare == sched.restart /\ ~sched.stopped /\ sched.why # "unreadable"

\* The schema that would arrive is neither this one nor an additive next one.
SchemaMovesTo(b) == ~(SameSchema(build, b) \/ (Reads(build, b) /\ b > build))

\* _prepare_reexec, once: a fetch of origin's main, refused when the checkout
\* is not a clean main or the network fails; what it brings is judged.
Prepare == /\ At("restart")
           /\ MayPrepare
           /\ sched.prepared = "no"
           /\ \/ /\ tracking' = origin
                 /\ sched' = [sched EXCEPT !.prepared = "ff",
                                           !.schemaMoves = SchemaMovesTo(origin)]
              \/ /\ sched' = [sched EXCEPT !.prepared = "disk"]
                 /\ UNCHANGED tracking
           /\ UNCHANGED <<build, pool, file, procs, head, origin, store, held, stopSeen>>

\* _ff_main: git merge --ff-only takes whatever origin/main is by now; nothing
\* to do when HEAD is ahead.
Forwarded(ref) == IF ref > head THEN ref ELSE head

\* execv: the children stay, the memory goes. A witness child runs on as
\* nobody's.
Exec(b) == /\ head' = b
           /\ build' = b
           /\ sched' = Fresh
           /\ pool' = {}
           /\ witness' = "none"
           /\ orphan' = (orphan \/ witness = "live")

\* What arrives: the disk as it is, or as the fast-forward leaves it, if it can.
Arriving == {head} \cup (IF sched.prepared = "ff" THEN {Forwarded(tracking)} ELSE {})

\* Mutant: the handed-over children are not written down.
HandOverUnsaved == /\ At("restart")
                   /\ MayPrepare
                   /\ sched.prepared # "no"
                   /\ ~sched.schemaMoves
                   /\ sched.why = "readable" => sched.prepared = "ff"
                   /\ \E b \in Arriving : Exec(b)
                   /\ UNCHANGED <<child, loaded, tracking, origin, store, held, stopSeen, file>>

\* A readable move of the store is followed only by a fast-forward that worked.
HandOver == /\ At("restart")
            /\ MayPrepare
            /\ sched.prepared # "no"
            /\ ~sched.schemaMoves
            /\ sched.why = "readable" => sched.prepared = "ff"
            /\ file' = pool
            /\ \E b \in Arriving : (sched.why = "readable" => b = Forwarded(tracking)) /\ Exec(b)
            /\ UNCHANGED <<child, loaded, tracking, origin, store, held, stopSeen>>

\* may_reexec: a readable move the disk cannot follow is not followed.
StayBehind == /\ At("restart")
              /\ MayPrepare
              /\ sched.prepared # "no"
              /\ ~sched.schemaMoves
              /\ sched.why = "readable"
              /\ sched' = [sched EXCEPT !.at = "spawn", !.restart = FALSE,
                                        !.why = "merge", !.unfollowable = TRUE,
                                        !.prepared = "no"]
              /\ UNCHANGED <<build, pool, file, procs, code, store, held, stopSeen>>

NoRestart == /\ At("restart")
             /\ ~MayPrepare \/ (sched.prepared # "no" /\ sched.schemaMoves)
             /\ Goes("spawn")
             /\ UNCHANGED <<build, pool, file, procs, code, store, held, stopSeen>>

(************************** spawning and returning **************************)

Return(rc) == sched' = [sched EXCEPT !.at = "gone", !.rc = rc]
\* Mutant: the worker's exit code is handed on.
RcOfWorker == IF sched.broken THEN 2 ELSE 0

RcOfBroken == IF sched.broken THEN 1 ELSE 0

HeldIdle == /\ At("spawn")
            /\ held /\ pool = {} /\ witness = "none"
            /\ Return(RcOfBroken)
            /\ UNCHANGED <<build, pool, file, procs, code, store, held, stopSeen>>

\* The ceiling: min(live + claimable, workers), one more at most after a pause.
Spawn(w) == /\ At("spawn")
            /\ Spawning /\ ~held
            /\ Cardinality(pool) < Workers
            /\ child[w] = "none"
            /\ child' = [child EXCEPT ![w] = "live"]
            /\ loaded' = [loaded EXCEPT ![w] = head]
            /\ store' = Opened(head)
            /\ pool' = pool \cup {w}
            /\ sched' = IF sched.paused = "no" THEN sched ELSE [sched EXCEPT !.at = "probed"]
            /\ UNCHANGED <<build, file, witness, orphan, code, held, stopSeen>>

\* A witness pass is due and main is quiet, or not.
SpawnWitness == /\ At("spawn") \/ At("probed")
                /\ Spawning
                /\ witness = "none"
                /\ witness' = "live"
                /\ Goes("settle")
                /\ UNCHANGED <<build, pool, file, child, loaded, orphan, code, store,
                               held, stopSeen>>

SpawnEnough == /\ At("spawn") \/ At("probed")
               /\ ~(held /\ pool = {} /\ witness = "none")
               /\ Goes("settle")
               /\ UNCHANGED <<build, pool, file, procs, code, store, held, stopSeen>>

\* Mutant: only the workers are waited for.
EmptyOfWorkers == pool = {}

Empty == pool = {} /\ witness = "none"

\* A pass that waits for main to be quiet, or that the previous image's child
\* still runs, keeps the scheduler, through an idle pause too, but not a drain.
MayWaitForWitness == ~Draining

KeepTicking == /\ At("settle")
               /\ ~Empty \/ MayWaitForWitness
               /\ Goes("wait")
               /\ UNCHANGED <<build, pool, file, procs, code, store, held, stopSeen>>

\* The board was down at a claim, or its listing failed.
ReturnBoardDown == /\ At("settle")
                   /\ Empty
                   /\ sched.boardDown \/ Spawning
                   /\ Return(1)
                   /\ UNCHANGED <<build, pool, file, procs, code, store, held, stopSeen>>

\* The drained restart: prepared now if it was not, whatever the schema.
DrainedReexec == /\ At("settle")
                 /\ Empty
                 /\ ~sched.boardDown
                 /\ sched.restart /\ ~sched.stopped
                 /\ \/ \E b \in Arriving : Exec(b) /\ UNCHANGED tracking
                    \/ /\ sched.prepared = "no"
                       /\ tracking' = origin
                       /\ Exec(Forwarded(origin))
                 /\ UNCHANGED <<file, child, loaded, origin, store, held, stopSeen>>

ReturnDone == /\ At("settle")
              /\ Empty
              /\ ~sched.boardDown
              /\ ~(sched.restart /\ ~sched.stopped)
              /\ Return(RcOfBroken)
              /\ UNCHANGED <<build, pool, file, procs, code, store, held, stopSeen>>

(********************************* reaping **********************************)

Stops(c) == c \in {"stop", "board_down"} \/ (StopOnFailure /\ c \in {"failed", "crash"})

Exited(c) ==
    [sched EXCEPT !.at = "top",
                  !.paused = IF c = "idle" THEN "fresh" ELSE "no",
                  !.restart = @ \/ c = "merged",
                  !.broken = @ \/ c \in {"stop", "crash"},
                  !.boardDown = @ \/ c = "board_down",
                  !.stopped = @ \/ Stops(c)]

Reap(w) == /\ At("wait")
           /\ w \in pool
           /\ child[w] \in Codes
           /\ sched' = Exited(child[w])
           /\ stopSeen' = (stopSeen \/ Stops(child[w]))
           /\ child' = [child EXCEPT ![w] = "none"]
           /\ loaded' = [loaded EXCEPT ![w] = 0]
           /\ pool' = pool \ {w}
           /\ file' = pool'
           /\ UNCHANGED <<build, witness, orphan, code, store, held>>

ReapWitness == /\ At("wait")
               /\ witness = "exited"
               /\ witness' = "none"
               /\ Goes("top")
               /\ UNCHANGED <<build, pool, file, child, loaded, orphan, code, store,
                              held, stopSeen>>

\* A tick passes with nobody reaped; a pause is a tick old.
TickPasses == /\ At("wait")
              /\ sched' = [sched EXCEPT !.at = "top",
                                        !.paused = IF @ = "fresh" THEN "old" ELSE @]
              /\ UNCHANGED <<build, pool, file, procs, code, store, held, stopSeen>>

\* The third tick in a row that found the store locked.
StoreLocked == /\ At("wait")
               /\ sched' = [sched EXCEPT !.at = "dropped", !.rc = 1]
               /\ UNCHANGED <<build, pool, file, procs, code, store, held, stopSeen>>

(******************************** the workers *******************************)

\* A fetch before a cut fast-forwards the checkout's main.
RefreshMain(w) == /\ child[w] = "live"
                  /\ tracking' = origin
                  /\ head' = IF origin > head THEN origin ELSE head
                  /\ head # head'
                  /\ UNCHANGED <<sched, build, pool, file, procs, origin, store, held, stopSeen>>

\* A merge into the factory itself: HEAD under mode = local, origin's main
\* under mode = pr.
Merge(w) == /\ child[w] = "live"
            /\ child' = [child EXCEPT ![w] = "landed"]
            /\ IF LocalMerges
               THEN head < MaxBuild /\ head' = head + 1 /\ UNCHANGED origin
               ELSE origin < MaxBuild /\ origin' = origin + 1 /\ UNCHANGED head
            /\ UNCHANGED <<sched, build, pool, file, loaded, witness, orphan, tracking,
                           store, held, stopSeen>>

\* before_gate: a moved HEAD of the same schema is re-executed in place...
GateReexec(w) == /\ child[w] = "live"
                 /\ loaded[w] # head
                 /\ SameSchema(loaded[w], head)
                 /\ loaded' = [loaded EXCEPT ![w] = head]
                 /\ UNCHANGED <<sched, build, pool, file, child, witness, orphan, code,
                                store, held, stopSeen>>

\* ...and another's hands the run to the next build; the other exits.  One that
\* has merged may still fail, at the findings, or be killed.
Exits(w, c) == /\ \/ child[w] = "live" /\ c # "merged"
                  \/ child[w] = "landed" /\ c \in {"merged", "failed", "crash"}
               /\ c = "handoff" => ~SameSchema(loaded[w], head)
               /\ child' = [child EXCEPT ![w] = c]
               /\ UNCHANGED <<sched, build, pool, file, loaded, witness, orphan, code,
                              store, held, stopSeen>>

WitnessEnds == /\ \/ witness = "live" /\ witness' = "exited" /\ UNCHANGED orphan
                  \/ orphan /\ orphan' = FALSE /\ UNCHANGED witness
               /\ UNCHANGED <<sched, build, pool, file, child, loaded, code, store, held,
                              stopSeen>>

\* holo project hold, and its release: a command of the checkout, which opens
\* the store as any does.
SetHold == /\ held' = ~held
           /\ store' = Opened(head)
           /\ UNCHANGED <<sched, build, pool, file, procs, code, stopSeen>>

SchedulerStep ==
    \/ Open \/ OpenRefused \/ CheckSchema \/ Prepare \/ HandOver \/ StayBehind \/ NoRestart
    \/ HeldIdle \/ SpawnWitness \/ SpawnEnough \/ (\E w \in Pids : Spawn(w))
    \/ KeepTicking \/ ReturnBoardDown \/ DrainedReexec \/ ReturnDone
    \/ TickPasses \/ ReapWitness \/ (\E w \in Pids : Reap(w))

WorkerStep(w) == \/ RefreshMain(w) \/ Merge(w) \/ GateReexec(w)
                 \/ \E c \in Codes : Exits(w, c)

Next == \/ SchedulerStep
        \/ StoreLocked \/ StartRefused
        \/ \E w \in Pids : WorkerStep(w)
        \/ WitnessEnds
        \/ SetHold

Spec == Init /\ [][Next]_vars

\* The scheduler goes on, workers and witness passes end; ticks that keep
\* passing with an exit to reap are not what keeps it.
Fairness == /\ WF_vars(SchedulerStep)
            /\ SF_vars(\E w \in Pids : Reap(w))
            /\ SF_vars(ReapWitness)
            /\ WF_vars(WitnessEnds)
            /\ \A w \in Pids : WF_vars(\E c \in Codes : Exits(w, c))

FairSpec == Spec /\ Fairness

(******************************** properties ********************************)

Running == sched.at \notin {"open", "gone", "dropped"}

\* Across any number of re-execs the scheduler counts exactly the children it
\* has: none holds a slot it has left, none runs outside the ceiling.
ChildrenKnown == /\ Running => pool = Unreaped
                 /\ At("open") => file = Unreaped

\* No more workers live at once than the project has slots, over any number of
\* re-execs.
NeverOverstaffed == Cardinality(LiveWorkers) <= Workers

\* docs/loop.md:367-370: a scheduler that returns by itself leaves no child.
WaitsForItsWorkers == At("gone") => Unreaped = {} /\ witness = "none"

\* A stop outlasts a self-merge: no re-exec forgets it and spawns again.
StopIsNotLost == stopSeen => sched.stopped

\* A wanted restart is carried out, given up as one the disk cannot follow, or
\* overtaken by the scheduler's end.
RestartHappens == sched.restart ~> ~sched.restart \/ sched.at \in {"gone", "dropped"}

===============================================================================
