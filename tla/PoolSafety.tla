------------------------------ MODULE PoolSafety ------------------------------
(****************************************************************************)
(* What holds of the worker pool for any number of workers, process ids and *)
(* builds, and whatever the schemas of the builds are.                      *)
(*                                                                          *)
(* The set of children that are not reaped changes by a spawn and a reap    *)
(* alone; the scheduler counts exactly that set, in its memory or, across   *)
(* an exec, in pool.json.                                                   *)
(****************************************************************************)
EXTENDS WorkerPool, FiniteSetTheorems, TLAPS

Scheds == [at : {"open", "top", "restart", "spawn", "probed", "settle",
                 "wait", "gone", "dropped"},
           stopped : BOOLEAN, broken : BOOLEAN, boardDown : BOOLEAN,
           paused : {"no", "fresh", "old"}, restart : BOOLEAN,
           why : {"merge", "readable", "unreadable"}, unfollowable : BOOLEAN,
           prepared : {"no", "ff", "disk"}, schemaMoves : BOOLEAN, rc : {0, 1}]

Staffed == /\ IsFiniteSet(Unreaped)
           /\ Cardinality(Unreaped) <= Workers

\* pool.json misses the children spawned since it was written, and lists no other.
FileLags == Running => file \subseteq pool

PoolInv == /\ TypeOK
           /\ ChildrenKnown
           /\ FileLags
           /\ Staffed
           /\ WaitsForItsWorkers
           /\ StopIsNotLost

\* A scheduler that has not started yet, with no child and no hand-off file, has
\* the invariant.
LEMMA Initial == Init => PoolInv
<1> SUFFICES ASSUME Init PROVE PoolInv
    OBVIOUS
<1>1. Unreaped = {}
    BY DEF Init, Unreaped
<1>2. Staffed
    BY <1>1, FS_EmptySet, PoolParameters DEF Staffed
<1>3. TypeOK
  <2>1. sched \in Scheds
    BY DEF Init, Fresh, Scheds
  <2>2. child \in [Pids -> {"none"}] /\ loaded \in [Pids -> {0}]
    BY DEF Init
  <2>3. child \in [Pids -> {"none", "live", "landed"} \cup Codes] /\ loaded \in [Pids -> Builds]
    BY <2>2, PoolParameters DEF Builds
  <2>4. {build, head, tracking, origin, store} \subseteq Builds
    BY PoolParameters DEF Init, Builds
  <2> QED BY <2>1, <2>3, <2>4 DEF Init, TypeOK, Scheds
<1>4. ChildrenKnown /\ FileLags /\ WaitsForItsWorkers /\ StopIsNotLost
    BY <1>1 DEF Init, Fresh, ChildrenKnown, FileLags, Running, WaitsForItsWorkers, StopIsNotLost, At
<1> QED BY <1>2, <1>3, <1>4 DEF PoolInv

\* The types, step by step.
LEMMA TypeStep == ASSUME TypeOK, [Next]_vars PROVE TypeOK'
<1> USE PoolParameters DEF TypeOK, Builds, Codes, procs, code
<1>1. CASE Open
    BY <1>1 DEF Open, Goes, Opened
<1>2. CASE OpenRefused
    BY <1>2 DEF OpenRefused
<1>3. CASE CheckSchema
    BY <1>3 DEF CheckSchema
<1>4. CASE Prepare
  <2>1. SchemaMovesTo(origin) \in BOOLEAN
    BY DEF SchemaMovesTo, SameSchema, Reads
  <2>2. sched' \in Scheds
    <3>1. sched \in Scheds
      BY DEF Scheds
    <3> DEFINE m == SchemaMovesTo(origin)
    <3> HIDE DEF m, TypeOK
    <3>2. [sched EXCEPT !.prepared = "ff", !.schemaMoves = m] \in Scheds
      BY <2>1, <3>1 DEF Scheds, m
    <3>3. [sched EXCEPT !.prepared = "disk"] \in Scheds
      BY <3>1 DEF Scheds
    <3> QED BY <1>4, <3>2, <3>3 DEF Prepare, m
  <2> QED BY <1>4, <2>2 DEF Prepare, Scheds
<1>5. CASE HandOver
    BY <1>5 DEF HandOver, Arriving, Exec, Forwarded, Fresh
<1>6. CASE StayBehind
    BY <1>6 DEF StayBehind
<1>7. CASE NoRestart
    BY <1>7 DEF NoRestart, Goes
<1>8. CASE HeldIdle
    BY <1>8 DEF HeldIdle, Return, RcOfBroken
<1>9. CASE SpawnWitness
    BY <1>9 DEF SpawnWitness, Goes
<1>10. CASE SpawnEnough
    BY <1>10 DEF SpawnEnough, Goes
<1>11. ASSUME NEW w \in Pids, Spawn(w) PROVE TypeOK'
    BY <1>11 DEF Spawn, Opened
<1>12. CASE KeepTicking
    BY <1>12 DEF KeepTicking, Goes
<1>13. CASE ReturnBoardDown
    BY <1>13 DEF ReturnBoardDown, Return
<1>14. CASE DrainedReexec
  <2>1. PICK b \in Builds : Exec(b) /\ tracking' \in {tracking, origin}
    BY <1>14 DEF DrainedReexec, Arriving, Forwarded
  <2>2. sched' \in Scheds
    BY <2>1 DEF Exec, Fresh, Scheds
  <2> QED BY <1>14, <2>1, <2>2 DEF DrainedReexec, Exec, Scheds
<1>15. CASE ReturnDone
    BY <1>15 DEF ReturnDone, Return, RcOfBroken
<1>16. CASE TickPasses
    BY <1>16 DEF TickPasses
<1>17. CASE ReapWitness
    BY <1>17 DEF ReapWitness, Goes
<1>18. ASSUME NEW w \in Pids, Reap(w) PROVE TypeOK'
  <2> DEFINE c == child[w]
  <2>1. sched' = Exited(c)
    BY <1>18 DEF Reap
  <2>4. Exited(c) \in Scheds
    <3>1. /\ (sched.stopped \/ Stops(c)) \in BOOLEAN
          /\ (sched.restart \/ c = "merged") \in BOOLEAN
          /\ (sched.broken \/ c \in {"stop", "crash"}) \in BOOLEAN
          /\ (sched.boardDown \/ c = "board_down") \in BOOLEAN
      OBVIOUS
    <3>2. sched \in Scheds
      BY DEF Scheds
    <3> DEFINE paused  == IF c = "idle" THEN "fresh" ELSE "no"
               stopped == sched.stopped \/ Stops(c)
               restart == sched.restart \/ c = "merged"
               broken  == sched.broken \/ c \in {"stop", "crash"}
               down    == sched.boardDown \/ c = "board_down"
    <3>3. paused \in {"no", "fresh"}
      OBVIOUS
    <3>4. Exited(c) = [sched EXCEPT !.at = "top", !.paused = paused, !.restart = restart,
                                    !.broken = broken, !.boardDown = down,
                                    !.stopped = stopped]
      BY DEF Exited
    <3> HIDE DEF c, TypeOK, paused, stopped, restart, broken, down
    <3>5. /\ stopped \in BOOLEAN /\ restart \in BOOLEAN
          /\ broken \in BOOLEAN /\ down \in BOOLEAN
      BY <3>1 DEF stopped, restart, broken, down
    <3>6. [sched EXCEPT !.at = "top", !.paused = paused, !.restart = restart,
                        !.broken = broken, !.boardDown = down,
                        !.stopped = stopped] \in Scheds
      BY <3>2, <3>3, <3>5 DEF Scheds
    <3> QED BY <3>4, <3>6
  <2>2. child' \in [Pids -> {"none", "live", "landed"} \cup Codes] /\ loaded' \in [Pids -> Builds]
    BY <1>18 DEF Reap
  <2>3. stopSeen' \in BOOLEAN
    BY <1>18 DEF Reap, Stops
  <2> QED BY <1>18, <2>1, <2>2, <2>3, <2>4 DEF Reap, Scheds
<1>19. CASE StoreLocked
    BY <1>19 DEF StoreLocked
<1>20. CASE StartRefused
    BY <1>20 DEF StartRefused
<1>21. ASSUME NEW w \in Pids, RefreshMain(w) PROVE TypeOK'
    BY <1>21 DEF RefreshMain
<1>22. ASSUME NEW w \in Pids, Merge(w) PROVE TypeOK'
    BY <1>22 DEF Merge
<1>23. ASSUME NEW w \in Pids, GateReexec(w) PROVE TypeOK'
  <2>1. loaded' \in [Pids -> Builds]
    BY <1>23 DEF GateReexec
  <2> QED BY <1>23, <2>1 DEF GateReexec
<1>24. ASSUME NEW w \in Pids, NEW c \in Codes, Exits(w, c) PROVE TypeOK'
    BY <1>24 DEF Exits
<1>25. CASE WitnessEnds
  <2>1. CASE witness = "live" /\ witness' = "exited" /\ UNCHANGED orphan
    BY <1>25, <2>1 DEF WitnessEnds
  <2>2. CASE orphan' = FALSE /\ UNCHANGED witness
    <3>1. orphan' \in BOOLEAN /\ witness' \in {"none", "live", "exited"}
      BY <2>2
    <3> QED BY <1>25, <3>1 DEF WitnessEnds
  <2> QED BY <1>25, <2>1, <2>2 DEF WitnessEnds
<1>26. CASE SetHold
    BY <1>26 DEF SetHold, Opened
<1>27. CASE UNCHANGED vars
    BY <1>27 DEF vars
<1> QED
    BY <1>1, <1>2, <1>3, <1>4, <1>5, <1>6, <1>7, <1>8, <1>9, <1>10, <1>11, <1>12, <1>13,
       <1>14, <1>15, <1>16, <1>17, <1>18, <1>19, <1>20, <1>21, <1>22, <1>23, <1>24, <1>25,
       <1>26, <1>27
    DEF Next, SchedulerStep, WorkerStep

\* What every other part of the invariant keeps through a step of a child, of a
\* witness pass or of the operator: nobody is spawned, reaped or forgotten.
LEMMA Bystanders ==
    ASSUME PoolInv,
           UNCHANGED <<sched, pool, file, stopSeen, Unreaped>>,
           witness' = witness \/ witness # "none"
    PROVE  (ChildrenKnown /\ FileLags /\ Staffed /\ WaitsForItsWorkers /\ StopIsNotLost)'
<1>1. (ChildrenKnown /\ FileLags /\ StopIsNotLost)'
    BY DEF PoolInv, ChildrenKnown, FileLags, StopIsNotLost, Running, At
<1>2. Staffed'
    BY DEF PoolInv, Staffed
<1>3. WaitsForItsWorkers'
    BY DEF PoolInv, WaitsForItsWorkers, At
<1> QED BY <1>1, <1>2, <1>3

\* A child's exit or merge reaps nobody.
LEMMA ChildSteps ==
    ASSUME TypeOK, NEW w \in Pids, Live(w), NEW c \in Codes \cup {"landed"},
           child' = [child EXCEPT ![w] = c]
    PROVE  Unreaped' = Unreaped
BY DEF TypeOK, Live, Unreaped, Codes

\* The steps of the scheduler within its tick.
LEMMA TickSteps ==
    ASSUME PoolInv,
           UNCHANGED <<pool, file, child, stopSeen>>,
           sched.at \notin {"open", "gone", "dropped"},
           sched'.at \notin {"open", "gone"},
           sched'.stopped = sched.stopped
    PROVE  (ChildrenKnown /\ FileLags /\ Staffed /\ WaitsForItsWorkers /\ StopIsNotLost)'
<1>1. Unreaped' = Unreaped
    BY DEF Unreaped
<1>2. (ChildrenKnown /\ FileLags /\ StopIsNotLost /\ WaitsForItsWorkers)'
    BY <1>1 DEF PoolInv, ChildrenKnown, FileLags, StopIsNotLost, WaitsForItsWorkers, Running, At
<1>3. Staffed'
    BY <1>1 DEF PoolInv, Staffed
<1> QED BY <1>2, <1>3

\* A return finds nothing of the scheduler's running.
LEMMA Returns ==
    ASSUME PoolInv,
           UNCHANGED <<pool, file, child, witness, stopSeen>>,
           sched.at \in {"spawn", "settle"}, pool = {}, witness = "none",
           sched'.at = "gone",
           sched'.stopped = sched.stopped
    PROVE  (ChildrenKnown /\ FileLags /\ Staffed /\ WaitsForItsWorkers /\ StopIsNotLost)'
<1>1. Unreaped' = Unreaped /\ Unreaped = {}
    BY DEF PoolInv, ChildrenKnown, Running, Unreaped
<1>2. (ChildrenKnown /\ FileLags /\ StopIsNotLost /\ WaitsForItsWorkers)'
    BY <1>1 DEF PoolInv, ChildrenKnown, FileLags, StopIsNotLost, WaitsForItsWorkers, Running, At
<1>3. Staffed'
    BY <1>1 DEF PoolInv, Staffed
<1> QED BY <1>2, <1>3

\* An exec leaves in pool.json the children it leaves, and no stop behind.
LEMMA Execs ==
    ASSUME PoolInv, Running, ~sched.stopped, NEW b, Exec(b),
           UNCHANGED <<child, stopSeen>>,
           file' = pool
    PROVE  (ChildrenKnown /\ FileLags /\ Staffed /\ WaitsForItsWorkers /\ StopIsNotLost)'
<1>1. Unreaped' = Unreaped
    BY DEF Unreaped
<1>2. (ChildrenKnown /\ FileLags /\ StopIsNotLost /\ WaitsForItsWorkers)'
    BY <1>1 DEF PoolInv, ChildrenKnown, FileLags, StopIsNotLost, WaitsForItsWorkers, Running, At,
                Exec, Fresh
<1>3. Staffed'
    BY <1>1 DEF PoolInv, Staffed
<1> QED BY <1>2, <1>3

\* One case per step.
LEMMA InvStep ==
    ASSUME PoolInv, [Next]_vars
    PROVE  (ChildrenKnown /\ FileLags /\ Staffed /\ WaitsForItsWorkers /\ StopIsNotLost)'
<1> DEFINE Rest == ChildrenKnown /\ FileLags /\ Staffed /\ WaitsForItsWorkers /\ StopIsNotLost
<1> SUFFICES Rest'
    OBVIOUS
<1> HIDE DEF Rest
<1> USE DEF procs, code
<1>1. CASE Open
  <2>1. Unreaped' = Unreaped /\ pool' = Unreaped /\ file' = file
    BY <1>1 DEF Open, Unreaped, PoolInv, ChildrenKnown, At
  <2>2. sched'.at = "top" /\ sched'.stopped = sched.stopped /\ sched.at = "open"
    BY <1>1 DEF Open, Goes, At, PoolInv, TypeOK
  <2> QED BY <1>1, <2>1, <2>2 DEF Rest, PoolInv, ChildrenKnown, FileLags, Staffed, WaitsForItsWorkers,
              StopIsNotLost, Running, At, Open
<1>2. CASE OpenRefused
  <2>1. Unreaped' = Unreaped
    BY <1>2 DEF OpenRefused, Unreaped
  <2> QED BY <1>2, <2>1, Bystanders DEF OpenRefused, Rest
<1>3. CASE CheckSchema \/ NoRestart \/ SpawnEnough \/ KeepTicking \/ Prepare \/ StayBehind
           \/ TickPasses \/ StoreLocked
  <2>1. UNCHANGED <<pool, file, child, stopSeen>>
    BY <1>3 DEF CheckSchema, NoRestart, SpawnEnough, KeepTicking, Prepare, StayBehind,
                TickPasses, StoreLocked
  <2>2. /\ sched.at \notin {"open", "gone", "dropped"}
        /\ sched'.at \notin {"open", "gone"}
        /\ sched'.stopped = sched.stopped
    BY <1>3 DEF CheckSchema, NoRestart, SpawnEnough, KeepTicking, Prepare, StayBehind,
                TickPasses, StoreLocked, At, Goes, PoolInv, TypeOK
  <2> QED BY <2>1, <2>2, TickSteps DEF Rest
<1>4. CASE SpawnWitness \/ ReapWitness
  <2>1. UNCHANGED <<pool, file, child, stopSeen>>
    BY <1>4 DEF SpawnWitness, ReapWitness
  <2>2. /\ sched.at \notin {"open", "gone", "dropped"}
        /\ sched'.at \notin {"open", "gone"}
        /\ sched'.stopped = sched.stopped
    BY <1>4 DEF SpawnWitness, ReapWitness, At, Goes, PoolInv, TypeOK
  <2> QED BY <2>1, <2>2, TickSteps DEF Rest
<1>5. CASE HandOver
  <2>1. PICK b : Exec(b)
    BY <1>5 DEF HandOver
  <2> QED BY <1>5, <2>1, Execs DEF HandOver, MayPrepare, Running, At, Rest
<1>6. CASE DrainedReexec
  <2>1. PICK b : Exec(b)
    BY <1>6 DEF DrainedReexec
  <2>2. Running /\ ~sched.stopped
    BY <1>6 DEF DrainedReexec, Running, At
  <2>3. file' = pool /\ UNCHANGED <<child, stopSeen>>
    BY <1>6, <2>2 DEF DrainedReexec, PoolInv, FileLags, Empty
  <2> QED BY <2>1, <2>2, <2>3, Execs DEF Rest
<1>7. CASE HeldIdle \/ ReturnBoardDown \/ ReturnDone
  <2>1. UNCHANGED <<pool, file, child, witness, stopSeen>>
    BY <1>7 DEF HeldIdle, ReturnBoardDown, ReturnDone
  <2>2. /\ sched.at \in {"spawn", "settle"} /\ pool = {} /\ witness = "none"
        /\ sched'.at = "gone" /\ sched'.stopped = sched.stopped
    BY <1>7 DEF HeldIdle, ReturnBoardDown, ReturnDone, At, Return, Empty, PoolInv, TypeOK
  <2> QED BY <2>1, <2>2, Returns DEF Rest
<1>8. ASSUME NEW w \in Pids, Spawn(w) PROVE Rest'
  <2>1. /\ sched.at = "spawn" /\ sched'.at \in {"spawn", "probed"}
        /\ sched'.stopped = sched.stopped
        /\ UNCHANGED <<file, witness, stopSeen>>
    BY <1>8 DEF Spawn, At, PoolInv, TypeOK
  <2>2. Unreaped' = Unreaped \cup {w} /\ w \notin Unreaped /\ pool' = pool \cup {w}
    BY <1>8 DEF Spawn, Unreaped, PoolInv, TypeOK
  <2>3. pool = Unreaped
    BY <2>1 DEF PoolInv, ChildrenKnown, Running
  <2>4. Staffed'
    <3>1. IsFiniteSet(Unreaped') /\ Cardinality(Unreaped') = Cardinality(Unreaped) + 1
      BY <2>2, FS_AddElement DEF PoolInv, Staffed
    <3>2. Cardinality(Unreaped) < Workers
      BY <1>8, <2>3 DEF Spawn
    <3>3. Cardinality(Unreaped) \in Nat /\ Workers \in Nat
      BY FS_CardinalityType, PoolParameters DEF PoolInv, Staffed
    <3> QED BY <3>1, <3>2, <3>3 DEF Staffed
  <2> QED BY <2>1, <2>2, <2>3, <2>4 DEF Rest, PoolInv, ChildrenKnown, FileLags, WaitsForItsWorkers,
              StopIsNotLost, Running, At
<1>9. ASSUME NEW w \in Pids, Reap(w) PROVE Rest'
  <2>1. /\ sched.at = "wait" /\ sched'.at = "top" /\ child[w] # "none"
        /\ stopSeen' = (stopSeen \/ Stops(child[w]))
        /\ sched'.stopped = (sched.stopped \/ Stops(child[w]))
    BY <1>9 DEF Reap, Exited, At, PoolInv, TypeOK, Codes
  <2>2. Unreaped' = Unreaped \ {w} /\ w \in Unreaped /\ pool' = pool \ {w} /\ file' = pool'
    BY <1>9, <2>1 DEF Reap, Unreaped, PoolInv, TypeOK
  <2>3. pool = Unreaped
    BY <2>1 DEF PoolInv, ChildrenKnown, Running
  <2>4. Staffed'
    <3>1. IsFiniteSet(Unreaped') /\ Cardinality(Unreaped') = Cardinality(Unreaped) - 1
      BY <2>2, FS_RemoveElement DEF PoolInv, Staffed
    <3>2. Cardinality(Unreaped) \in Nat /\ Workers \in Nat
      BY FS_CardinalityType, PoolParameters DEF PoolInv, Staffed
    <3> QED BY <3>1, <3>2 DEF Staffed, PoolInv
  <2>5. (StopIsNotLost)'
    BY <2>1 DEF PoolInv, StopIsNotLost
  <2> QED BY <2>1, <2>2, <2>3, <2>4, <2>5 DEF Rest, PoolInv, ChildrenKnown, FileLags,
              WaitsForItsWorkers, Running, At
<1>10. CASE StartRefused
  <2>1. Unreaped' = Unreaped /\ sched'.at = "dropped" /\ sched'.stopped = sched.stopped
        /\ UNCHANGED stopSeen
    BY <1>10 DEF StartRefused, Unreaped, PoolInv, TypeOK
  <2> QED BY <2>1 DEF Rest, PoolInv, ChildrenKnown, FileLags, Staffed, WaitsForItsWorkers, StopIsNotLost,
              Running, At
<1>11. ASSUME NEW w \in Pids, WorkerStep(w) PROVE Rest'
  <2>1. UNCHANGED <<sched, pool, file, stopSeen, witness>>
    BY <1>11 DEF WorkerStep, RefreshMain, Merge, GateReexec, Exits
  <2>2. Unreaped' = Unreaped
    <3>1. CASE RefreshMain(w) \/ GateReexec(w)
      BY <3>1 DEF RefreshMain, GateReexec, Unreaped
    <3>2. CASE Merge(w)
      BY <3>2, ChildSteps DEF Merge, Live, PoolInv
    <3>3. ASSUME NEW c \in Codes, Exits(w, c) PROVE Unreaped' = Unreaped
      BY <3>3, ChildSteps DEF Exits, Live, PoolInv
    <3> QED BY <1>11, <3>1, <3>2, <3>3 DEF WorkerStep
  <2> QED BY <2>1, <2>2, Bystanders DEF Rest
<1>12. CASE WitnessEnds \/ SetHold \/ UNCHANGED vars
  <2>1. Unreaped' = Unreaped /\ UNCHANGED <<sched, pool, file, stopSeen>>
    BY <1>12 DEF WitnessEnds, SetHold, vars, Unreaped
  <2>2. witness' = witness \/ witness # "none"
    BY <1>12 DEF WitnessEnds, SetHold, vars
  <2> QED BY <2>1, <2>2, Bystanders DEF Rest
<1> QED
    BY <1>1, <1>2, <1>3, <1>4, <1>5, <1>6, <1>7, <1>8, <1>9, <1>10, <1>11, <1>12
    DEF Next, SchedulerStep

\* In every reachable state the pool knows its children, never exceeds its
\* slots, leaves no child behind and loses no stop (pool.py).
THEOREM PoolInvariant == Spec => []PoolInv
<1>1. Init => PoolInv
    BY Initial
<1>2. PoolInv /\ [Next]_vars => PoolInv'
    BY TypeStep, InvStep DEF PoolInv
<1> QED BY <1>1, <1>2, PTL DEF Spec

\* The scheduler's locals, its children and the hand-off file stay in their types.
THEOREM PoolTyped == Spec => []TypeOK
<1>1. PoolInv => TypeOK
    BY DEF PoolInv
<1> QED BY <1>1, PoolInvariant, PTL

\* Whatever merges, fails, parks or moves the schema under it, and however often
\* it re-executes itself, the scheduler counts exactly the children it has.
THEOREM KnowsItsChildren == Spec => []ChildrenKnown
<1>1. PoolInv => ChildrenKnown
    BY DEF PoolInv
<1> QED BY <1>1, PoolInvariant, PTL

\* The scheduler never has more workers alive than [loop] workers: each it has not
\* reaped counts, and it spawns below the ceiling only.
THEOREM NeverAboveCeiling == Spec => []NeverOverstaffed
<1>1. PoolInv => NeverOverstaffed
  <2> SUFFICES ASSUME PoolInv PROVE NeverOverstaffed
    OBVIOUS
  <2>1. LiveWorkers \subseteq Unreaped
    BY DEF LiveWorkers, Unreaped, Live
  <2>2. Cardinality(LiveWorkers) <= Cardinality(Unreaped)
    BY <2>1, FS_Subset DEF PoolInv, Staffed
  <2>3. Cardinality(LiveWorkers) \in Nat /\ Cardinality(Unreaped) \in Nat /\ Workers \in Nat
    BY <2>1, FS_Subset, FS_CardinalityType, PoolParameters DEF PoolInv, Staffed
  <2> QED BY <2>2, <2>3 DEF NeverOverstaffed, PoolInv, Staffed
<1> QED BY <1>1, PoolInvariant, PTL

\* A scheduler that returns by itself has waited for every worker and every
\* witness pass, those handed to it by the build before included.
THEOREM LeavesNoChild == Spec => []WaitsForItsWorkers
<1>1. PoolInv => WaitsForItsWorkers
    BY DEF PoolInv
<1> QED BY <1>1, PoolInvariant, PTL

\* A stop that any worker's exit asked for is still known after any re-exec.
THEOREM StopKept == Spec => []StopIsNotLost
<1>1. PoolInv => StopIsNotLost
    BY DEF PoolInv
<1> QED BY <1>1, PoolInvariant, PTL
===============================================================================
