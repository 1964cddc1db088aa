--------------------------- MODULE TicketLifecycle ---------------------------
(***************************************************************************)
(* One project's tickets and the runs that work them, from the claim to    *)
(* the merge, under [merge] mode = "local".  Four kinds of process write   *)
(* the store, each of them in transactions of its own:                     *)
(*   - the loop's workers, one per run: claim, work, park, land, close out; *)
(*   - the supervisor, which sweeps silent and overlong runs;              *)
(*   - the operator's commands: requeue, approve, pause, abort, resume;    *)
(*   - the board, mirrored into the store.                                 *)
(* An action is one transaction of one of them.  What a process has read   *)
(* and not written yet is in worker, trip, admitted and commanded.         *)
(***************************************************************************)
EXTENDS RunRows

CONSTANTS
  MaxRounds,   \* fix rounds a run may spend ([loop] review_rounds)
  Approve,     \* [merge] approve = "human"
  StoreBoard,  \* the board is mirrored ahead of the claim (provider.store_mode)
  Pool,        \* workers run in a pool, so a moved build hands its run off
  Events       \* what may happen to the workers from outside, of EventKinds

VARIABLES
  ticket,     \* the rows of tickets
  run,        \* the rows of runs
  worker,     \* where each run's worker is in its code, and what it carries
  trip,       \* what the supervisor sampled of each run and has not acted on
  admitted,   \* what loops have read of tickets on their way to a claim
  commanded,  \* runs an abort command found without a worker and will end
  landed      \* runs whose candidate git has merged into main

vars == <<ticket, run, worker, trip, admitted, commanded, landed>>

MaxFailedRuns  == 2
RelaunchLimit  == 2

ParkSteps  == {"park_contradiction", "park_not_reproduced", "park_approval",
               "park_after"}
BusySteps  == WorkPhases \cup GatePhases
                \cup {"start", "approved", "gate_ok", "canceled"}
CloseSteps == {"refused", "barring", "closed", "blocking", "steered", "rerun",
               "triage", "amend"}
Steps      == BusySteps \cup ParkSteps \cup CloseSteps
                \cup {"none", "leased", "gate_failed", "landed", "shipped",
                      "gone", "dead"}
\* Steps a heartbeat runs under: a turn, a verify, a wait for the merge lock.
TurnSteps  == WorkPhases \cup {"start", "approved", "merge_gate"}
LiveSteps  == Steps \ {"none", "gone", "dead"}

\* What an admission reads of a ticket, a transaction each: that no run holds it,
\* that it is struck out, that it may be picked, that it was not parked since.
Reads == {"idle", "struck", "pickable", "unparked"}

NoWorker == [at |-> "none", ask |-> FALSE, round |-> 0]
NoTrip   == [kind |-> "none", phase |-> "claimed"]

\* The bound of a configuration: a worker that dies, a sweep that trips on a
\* live one, each command of the operator, and the board's own changes.
EventKinds == {"crash", "sweep", "pause", "abort", "requeue", "approve",
               "cancel", "respec", "close"}

ASSUME LifecycleAssumption ==
  /\ MaxRounds \in Nat
  /\ {Approve, StoreBoard, Pool} \subseteq BOOLEAN
  /\ Events \subseteq EventKinds

\* The values the rows of both tables, each worker's step and the supervisor's
\* tripwires range over.
TypeOK ==
  /\ ticket \in [Tickets -> TicketRow]
  /\ run \in [RunIds -> RunRow]
  /\ worker \in [RunIds -> [at : Steps, ask : BOOLEAN, round : 0..MaxRounds]]
  /\ trip \in [RunIds -> [kind : {"none", "stale", "box", "closed", "blocking"},
                          phase : RunPhases]]
  /\ admitted \subseteq Tickets \X Reads
  /\ commanded \subseteq RunIds
  /\ landed \subseteq RunIds

Init ==
  /\ ticket = [t \in Tickets |-> NewTicket]
  /\ run = [r \in RunIds |-> NewRun(NoTicket)]
  /\ worker = [r \in RunIds |-> NoWorker]
  /\ trip = [r \in RunIds |-> NoTrip]
  /\ admitted = {}
  /\ commanded = {}
  /\ landed = {}

-----------------------------------------------------------------------------
Claimed(r) == run[r].ticket \in Tickets
Live(r)    == Claimed(r) /\ ~run[r].ended
Parked(r)  == Live(r) /\ run[r].phase \in ParkedPhases
TicketOf(r) == run[r].ticket
Aborted(r) == run[r].stop \in Aborts

\* walk_ticket(): ticket t takes row tk and walks on to status; the other rows of
\* the transaction are rows, less the park kinds the walk clears.
Walk(t, rows, tk, status) ==
  /\ ticket' = [ticket EXCEPT ![t] = Walked(tk, status)]
  /\ run' = IF WalkClearsPark(tk.status, status)
            THEN [i \in RunIds |-> IF rows[i].ticket = t
                                   THEN [rows[i] EXCEPT !.park = "none"] ELSE rows[i]]
            ELSE rows

\* Run r takes row, its ticket takes tk and walks on to status.
Write(r, row, tk, status) == Walk(TicketOf(r), [run EXCEPT ![r] = row], tk, status)

\* release(): end run r and give the lease back, leaving the ticket's status.
Released(r, outcome, resume) == EndRun(run[r], outcome, resume)
Freed(r) == IF Over(run[r]) THEN ticket[TicketOf(r)]
            ELSE GiveBack(ticket[TicketOf(r)], r)

\* Mutant: a failed run keeps its lease.
FailRowLeased(r, class) ==
  /\ MayEnd(run[r], "failed")
  /\ run' = [run EXCEPT ![r] = Released(r, "failed", "none")]
  /\ UNCHANGED ticket

\* A failed ending, a strike against the ticket when its class is work.
FailRow(r, class) ==
  /\ MayEnd(run[r], "failed")
  /\ run' = [run EXCEPT ![r] = Released(r, "failed", "none")]
  /\ ticket' = [ticket EXCEPT ![TicketOf(r)] =
                  IF class = "work" THEN CountStrike(Freed(r), run[r]) ELSE Freed(r)]

At(r, steps) == worker[r].at \in steps
\* What a worker carries is of no use to it past the gate.
Goes(r, step) ==
  worker' = [worker EXCEPT ![r] = IF step \in BusySteps THEN [@ EXCEPT !.at = step]
                                  ELSE [NoWorker EXCEPT !.at = step]]

\* A heartbeat, which every phase write is too: a stale trip no longer holds.
Beaten(r) == trip' = [trip EXCEPT ![r] = IF @.kind = "stale" THEN NoTrip ELSE @]

\* mirror_status(): a single edge of the graph, or a warning and no write.
StatusAfter(t, status) ==
  IF TicketMayMove(ticket[t].status, status) THEN status ELSE ticket[t].status

\* The run a command or a question about the ticket is for.
Latest(t) == IF ticket[t].active # NoRun THEN ticket[t].active ELSE ticket[t].last

\* block_ticket(): the status, then the question on the ticket's present run.
BlockTicket(t, kind) ==
  IF TicketMayMove(ticket[t].status, "blocked_on_operator")
  THEN /\ ticket' = [ticket EXCEPT ![t].status = "blocked_on_operator"]
       /\ run' = [r \in RunIds |-> IF r = Latest(t) THEN [run[r] EXCEPT !.park = kind]
                                   ELSE run[r]]
  ELSE UNCHANGED <<ticket, run>>

-----------------------------------------------------------------------------
(***************************************************************************)
(* The claim.  A loop reads a ticket in several transactions and acts on   *)
(* each answer later.  A read stays in admitted: any number of loops may   *)
(* have made it, and one that never acts on it has died or been refused.   *)
(***************************************************************************)
\* Mutant: one failure more than the cap.
MustEscalateLate(t) == /\ ticket[t].status = "in_flight"
                       /\ ticket[t].strikes > MaxFailedRuns

\* What escalate() reads of a ticket and its failures.
MustEscalate(t) == /\ ticket[t].status = "in_flight"
                   /\ ticket[t].strikes >= MaxFailedRuns

\* _admit_ticket() finds no run on a ticket of the listing, which is one of ready
\* tickets where the board is the store's.  Nothing makes a loop list it.
FindIdle(t) ==
  /\ ticket[t].active = NoRun
  /\ ticket[t].board = "open"
  /\ StoreBoard => ticket[t].status = "ready"
  /\ admitted' = admitted \cup {<<t, "idle">>}
  /\ UNCHANGED <<ticket, run, worker, trip, commanded, landed>>

\* It calls escalate(), which reads the ticket again and asks for no lease ...
FindStruckOut(t) ==
  /\ <<t, "idle">> \in admitted
  /\ MustEscalate(t)
  /\ admitted' = admitted \cup {<<t, "struck">>}
  /\ UNCHANGED <<ticket, run, worker, trip, commanded, landed>>

\* ... and blocks it later, whoever works it by then.
BlockStruckOut(t) ==
  /\ <<t, "struck">> \in admitted
  /\ BlockTicket(t, "question")
  /\ UNCHANGED <<worker, trip, admitted, commanded, landed>>

\* pickable(): the admission's last read.
AdmitTicket(t) ==
  /\ ticket[t].status = "ready" /\ ticket[t].active = NoRun
  /\ ticket[t].board = "open"
  /\ admitted' = admitted \cup {<<t, "pickable">>}
  /\ UNCHANGED <<ticket, run, worker, trip, commanded, landed>>

\* parked_since_admitted(), once the loop has the turn for the lease's label.
FindUnparked(t) ==
  /\ <<t, "pickable">> \in admitted
  /\ ticket[t].status # "needs_spec"
  /\ admitted' = admitted \cup {<<t, "unparked">>}
  /\ UNCHANGED <<ticket, run, worker, trip, commanded, landed>>

\* Mutant: the claim trusts the admission's read of the status.
ClaimUnchecked(t, r) ==
  /\ <<t, "unparked">> \in admitted /\ ticket[t].active = NoRun
  /\ ~Claimed(r) /\ \A i \in RunIds : i < r => Claimed(i)
  /\ run' = [run EXCEPT ![r] = NewRun(t)]
  /\ ticket' = [ticket EXCEPT ![t].active = r]
  /\ Goes(r, "leased")
  /\ UNCHANGED <<trip, admitted, commanded, landed>>

\* store.claim: the next run id, if the ticket's lease is free.  Of the status it
\* asks again only where the board is the store's.
Claim(t, r) ==
  /\ <<t, "unparked">> \in admitted
  /\ ticket[t].active = NoRun
  /\ StoreBoard => ticket[t].status = "ready"
  /\ ~Claimed(r) /\ \A i \in RunIds : i < r => Claimed(i)
  /\ run' = [run EXCEPT ![r] = NewRun(t)]
  /\ ticket' = [ticket EXCEPT ![t].active = r]
  /\ Goes(r, "leased")
  /\ UNCHANGED <<trip, admitted, commanded, landed>>

\* The board refuses the lease label, or shows another host's.
RefuseLease(r) ==
  /\ At(r, {"leased"})
  /\ FailRow(r, "infra")
  /\ Goes(r, "gone")
  /\ UNCHANGED <<trip, admitted, commanded, landed>>

\* mirror_status(in_flight); a ticket that left ready gives the lease back.
StartWork(r) ==
  /\ At(r, {"leased"})
  /\ IF ticket[TicketOf(r)].status = "ready"
     THEN /\ ticket' = [ticket EXCEPT ![TicketOf(r)].status = "in_flight"]
          /\ Goes(r, "start")
          /\ UNCHANGED run
     ELSE /\ FailRow(r, "infra")
          /\ Goes(r, "refused")
  /\ UNCHANGED <<trip, admitted, commanded, landed>>

-----------------------------------------------------------------------------
(***************************************************************************)
(* The worker's phases.                                                    *)
(***************************************************************************)
\* The newest other run of the ticket: what approved_candidate() reads.
Earlier(r) == {i \in RunIds \ {r} : Claimed(i) /\ TicketOf(i) = TicketOf(r)}
Carries(r) == \E p \in Earlier(r) : /\ \A i \in Earlier(r) : i <= p
                                    /\ run[p].resume \in GatePhases
                                    /\ run[p].approved \/ run[p].outcome = "paused"
CarriesPaused(r) == \E p \in Earlier(r) : /\ \A i \in Earlier(r) : i <= p
                                          /\ run[p].outcome = "paused"

\* Mutant: the review rounds are not capped.
NextPhasesUncapped(r) ==
  CASE worker[r].at = "start"      -> {"working"}
    [] worker[r].at = "working"    -> {"verifying"}
    [] worker[r].at = "verifying"  -> {"reviewing"}
    [] worker[r].at = "reviewing"  -> {"addressing"}
    [] worker[r].at = "addressing" -> {"verifying"}
    [] OTHER                       -> {}

\* The steps a worker takes next with set_phase(), each a phase of the run.
NextPhases(r) ==
  CASE worker[r].at = "start"      -> IF Carries(r) THEN {"working", "merge_gate"}
                                      ELSE {"working"}
    [] worker[r].at = "working"    -> {"verifying"}
    [] worker[r].at = "verifying"  -> {"reviewing"}
    [] worker[r].at = "reviewing"  -> IF worker[r].round < MaxRounds
                                      THEN {"addressing", "verifying"} ELSE {}
    [] worker[r].at = "addressing" -> {"verifying"}
    [] worker[r].at = "approved"   -> {"merge_gate"}
    [] worker[r].at = "gate_ok"    -> IF worker[r].ask THEN {} ELSE {"merging"}
    [] OTHER                       -> {}

\* Mutant: a candidate a paused run left is taken for an approved one.
NeedsWordOfNone(r, p) ==
  CASE At(r, {"start"}) -> Approve /\ p # "merge_gate"
    [] OTHER            -> worker[r].ask

\* Whether the candidate waits for a human's word at the gate: an approved
\* one carried by this run does not, one carried by a paused run does.
NeedsWord(r, p) ==
  CASE At(r, {"start"}) /\ p = "merge_gate" -> Approve /\ CarriesPaused(r)
    [] At(r, {"start"})                     -> Approve
    [] OTHER                                -> worker[r].ask

\* set_phase(): no stop is asked for and the run has not ended.
EnterPhase(r, p) ==
  /\ p \in NextPhases(r)
  /\ ~run[r].ended /\ run[r].stop = "none"
  /\ RunMayMove(run[r].phase, p)
  /\ run' = [run EXCEPT ![r].phase = p]
  /\ worker' = [worker EXCEPT ![r] =
       [at |-> p, ask |-> NeedsWord(r, p),
        round |-> CASE p = "merge_gate"       -> 0
                    [] At(r, {"reviewing"})   -> @.round + 1
                    [] OTHER                  -> @.round]]
  /\ Beaten(r)
  /\ UNCHANGED <<ticket, admitted, commanded, landed>>

\* The heartbeat thread, while a turn runs.
Beat(r) ==
  /\ At(r, TurnSteps) /\ ~run[r].ended
  /\ trip[r].kind = "stale"
  /\ Beaten(r)
  /\ UNCHANGED <<ticket, run, worker, admitted, commanded, landed>>

\* The review approves the candidate, seen by no pause or abort.
ReviewApproves(r) ==
  /\ At(r, {"reviewing"})
  /\ ~run[r].ended /\ run[r].stop = "none"
  /\ Goes(r, "approved")
  /\ UNCHANGED <<ticket, run, trip, admitted, commanded, landed>>

\* The gate's verify passes, and no pause or abort was asked for by its end.
GateVerifies(r) ==
  /\ At(r, {"merge_gate"})
  /\ ~run[r].ended /\ run[r].stop = "none"
  /\ Goes(r, "gate_ok")
  /\ UNCHANGED <<ticket, run, trip, admitted, commanded, landed>>

\* _end_paused(): at the next phase, resumed there.
PausePhases(r) == NextPhases(r) \cup
                  (IF At(r, {"reviewing", "merge_gate"}) THEN {"merge_gate"} ELSE {})
EndPaused(r, p) ==
  /\ p \in PausePhases(r)
  /\ ~run[r].ended /\ run[r].stop = "pause"
  /\ MayEnd(run[r], "paused") /\ CanWalk(Freed(r).status, "blocked_on_operator")
  /\ Write(r, Released(r, "paused", p), Freed(r), "blocked_on_operator")
  /\ Goes(r, "gone")
  /\ UNCHANGED <<trip, admitted, commanded, landed>>

\* end_aborted(): by the worker at a heartbeat or phase, or by the command
\* that found the worker gone.  A cancel closes the ticket.
EndAborted(r) ==
  LET status == IF run[r].stop = "cancel" THEN "abandoned" ELSE "blocked_on_operator"
  IN  /\ ~run[r].ended /\ Aborted(r)
      /\ MayEnd(run[r], "abandoned") /\ CanWalk(Freed(r).status, status)
      /\ Write(r, Released(r, "abandoned", "none"), Freed(r), status)

WorkerAborts(r) ==
  /\ At(r, TurnSteps \cup {"canceled"}) \/ NextPhases(r) # {}
  /\ EndAborted(r)
  /\ Goes(r, "gone")
  /\ UNCHANGED <<trip, admitted, commanded, landed>>

\* A worker meets its run's end: a beat stops the turn and writes no more, a
\* phase write that is refused closes the run out again unless it was paused.
MeetsEnd(r) ==
  /\ run[r].ended
  /\ \/ At(r, TurnSteps) /\ Goes(r, "gone")
     \/ /\ At(r, {"canceled"}) \/ NextPhases(r) # {}
        /\ Goes(r, IF run[r].outcome = "paused" THEN "gone" ELSE "refused")
  /\ UNCHANGED <<ticket, run, trip, admitted, commanded, landed>>

\* A RunFailure, an InfraFailure or an exception of the worker's own.
Fail(r, class) ==
  /\ At(r, BusySteps \cup {"gate_failed"})
  /\ FailRow(r, class)
  /\ Goes(r, IF run[r].ended THEN "refused" ELSE "closed")
  /\ UNCHANGED <<trip, admitted, commanded, landed>>

-----------------------------------------------------------------------------
(***************************************************************************)
(* The merge gate, the parks and the landing.                              *)
(***************************************************************************)
\* before_gate(): the checkout moved under a pool worker.  Neither this nor
\* the drift below looks at whether the run has ended meanwhile.
HandOff(r) ==
  /\ Pool
  /\ At(r, {"approved"})
  /\ MayEnd(run[r], "paused") /\ CanWalk(Freed(r).status, "ready")
  /\ Write(r, Released(r, "paused", "merge_gate"), Freed(r), "ready")
  /\ Goes(r, "gone")
  /\ UNCHANGED <<trip, admitted, commanded, landed>>

\* The ticket's body moved under the run; without StoreBoard that is a Fail.
RequeueDrift(r) ==
  /\ StoreBoard
  /\ At(r, {"gate_ok"})
  /\ MayEnd(run[r], "abandoned") /\ CanWalk(Freed(r).status, "ready")
  /\ LET row == Released(r, "abandoned", "none")
     IN  Write(r, row, CountRequeue(Freed(r), row, FALSE), "ready")
  /\ Goes(r, "gone")
  /\ UNCHANGED <<trip, admitted, commanded, landed>>

\* The board answers, at the gate, that the ticket was canceled; the run is
\* ended by WorkerAborts, a transaction later.
EndIfCanceled(r) ==
  /\ StoreBoard
  /\ At(r, {"gate_ok"})
  /\ ticket[TicketOf(r)].board = "Canceled"
  /\ ~run[r].ended
  /\ run' = [run EXCEPT ![r].stop = "cancel"]
  /\ Goes(r, "canceled")
  /\ UNCHANGED <<ticket, trip, admitted, commanded, landed>>

\* The merge lock stays held, main conflicts, or the gate's verify fails: the
\* ticket is blocked first, and the run fails after.
GateRefuses(r) ==
  /\ \/ At(r, {"merge_gate"}) /\ BlockTicket(TicketOf(r), "question")
     \/ /\ At(r, {"approved"}) \/ (At(r, {"start"}) /\ Carries(r))
        /\ BlockTicket(TicketOf(r), "merge_lock")
  /\ Goes(r, "gate_failed")
  /\ UNCHANGED <<trip, admitted, commanded, landed>>

\* What each park is asked from, the phase it parks in and the kind it records.
ParkFrom(step) ==
  CASE step = "park_contradiction"  -> {"working", "addressing"}
    [] step = "park_not_reproduced" -> {"verifying", "reviewing"}
    [] step = "park_approval"       -> {"gate_ok"}
    [] step = "park_after"          -> {"landed"}
ParkPhase(step) == IF step \in {"park_not_reproduced", "park_approval"}
                   THEN "awaiting_merge_approval" ELSE "blocked_on_operator"
ParkKind(step) ==
  CASE step = "park_contradiction"  -> "contradiction"
    [] step = "park_not_reproduced" -> "not_reproduced"
    [] OTHER                        -> "question"

\* A park is two transactions: the ticket is blocked, still leased ...
AskOperator(r, step) ==
  /\ At(r, ParkFrom(step))
  /\ step = "park_approval" => worker[r].ask
  /\ BlockTicket(TicketOf(r), ParkKind(step))
  /\ Goes(r, step)
  /\ UNCHANGED <<trip, admitted, commanded, landed>>

\* ... and store.park() gives the lease back, unless the run ended meanwhile.
Park(r) ==
  /\ At(r, ParkSteps)
  /\ LET step == worker[r].at
     IN  \/ /\ ~run[r].ended /\ RunMayMove(run[r].phase, ParkPhase(step))
            /\ run' = [run EXCEPT ![r].phase = ParkPhase(step),
                                  ![r].park = ParkKind(step)]
            /\ ticket' = [ticket EXCEPT ![TicketOf(r)] = GiveBack(@, r)]
            /\ Goes(r, IF step = "park_contradiction" THEN "amend" ELSE "gone")
         \/ /\ run[r].ended
            /\ Goes(r, IF run[r].outcome = "paused" THEN "gone" ELSE "refused")
            /\ UNCHANGED <<ticket, run>>
  /\ UNCHANGED <<trip, admitted, commanded, landed>>

\* git merge --no-ff: nothing between the phase write and this reads the store.
Merge(r) ==
  /\ At(r, {"merging"})
  /\ landed' = landed \cup {r}
  /\ Goes(r, "landed")
  /\ UNCHANGED <<ticket, run, trip, admitted, commanded>>

\* The after commands pass, and the run is released merged ...
ReleaseMerged(r) ==
  /\ At(r, {"landed"})
  /\ MayEnd(run[r], "merged")
  /\ run' = [run EXCEPT ![r] = Released(r, "merged", "none")]
  /\ ticket' = [ticket EXCEPT ![TicketOf(r)] = Freed(r)]
  /\ Goes(r, "shipped")
  /\ UNCHANGED <<trip, admitted, commanded, landed>>

\* ... then the ticket is, if it is still in flight.
MirrorMerged(r) ==
  /\ At(r, {"shipped"})
  /\ ticket' = [ticket EXCEPT ![TicketOf(r)].status = StatusAfter(TicketOf(r), "merged")]
  /\ Goes(r, "gone")
  /\ UNCHANGED <<run, trip, admitted, commanded, landed>>

-----------------------------------------------------------------------------
(***************************************************************************)
(* The close-out of a failed run: escalate; then, of a run that was not    *)
(* swept, the steered cap, the requeue on the default profile and triage.  *)
(***************************************************************************)
\* escalate() reads the ticket and its failures ...
Escalate(r) ==
  /\ At(r, {"closed", "refused"})
  /\ Goes(r, CASE ~MustEscalate(TicketOf(r)) -> IF At(r, {"closed"}) THEN "steered" ELSE "gone"
               [] At(r, {"closed"})           -> "blocking"
               [] OTHER                       -> "barring")
  /\ UNCHANGED <<ticket, run, trip, admitted, commanded, landed>>

\* ... and blocks the ticket in a transaction of its own.
BlockEscalated(r) ==
  /\ At(r, {"blocking", "barring"})
  /\ BlockTicket(TicketOf(r), "question")
  /\ Goes(r, IF At(r, {"blocking"}) THEN "steered" ELSE "gone")
  /\ UNCHANGED <<trip, admitted, commanded, landed>>

\* park_steered_cap(): a steered run that hit its cap asks the operator.
ParkSteeredCap(r) ==
  /\ At(r, {"steered"})
  /\ \/ UNCHANGED <<ticket, run>>
     \/ ticket[TicketOf(r)].status = "in_flight" /\ BlockTicket(TicketOf(r), "question")
  /\ Goes(r, "rerun")
  /\ UNCHANGED <<trip, admitted, commanded, landed>>

\* Contradiction and not-reproduced parks are ended by the requeue itself.
ReleasesPark(t) ==
  LET r == ticket[t].last
  IN  /\ ticket[t].status = "blocked_on_operator" /\ r # NoRun
      /\ \/ run[r].phase = "blocked_on_operator" /\ run[r].park = "contradiction"
         \/ run[r].phase = "awaiting_merge_approval" /\ run[r].park = "not_reproduced"

\* Mutant: a requeue asks nothing of the last run's outcome.
RequeueAdmitsAny(t) ==
  /\ ticket[t].board = "open" /\ ticket[t].active = NoRun /\ ticket[t].last # NoRun
  /\ ticket[t].status \in {"in_flight", "blocked_on_operator"}

\* _requeue_admits(), with the ticket's board state and lease.
RequeueAdmits(t) ==
  LET r == ticket[t].last
  IN  /\ ticket[t].board = "open" /\ ticket[t].active = NoRun /\ r # NoRun
      /\ \/ ReleasesPark(t)
         \/ /\ ticket[t].status \in {"in_flight", "blocked_on_operator"}
            /\ run[r].outcome \in {"failed", "rejected", "abandoned"}
            /\ run[r].outcome = "abandoned" => Aborted(r)

\* requeue(): by a human, who may force it past the relaunch limit, or by the
\* factory for one of its own reasons.
Requeue(t, who) ==
  LET r   == ticket[t].last
      row == IF ReleasesPark(t) THEN EndRun(run[r], "abandoned", "none") ELSE run[r]
      tk  == CountRequeue(ticket[t], row, who = "human")
  IN  /\ RequeueAdmits(t)
      /\ who # "human" => /\ who \notin ticket[t].helped
                          /\ ticket[t].relaunches < RelaunchLimit
      /\ ReleasesPark(t) => MayEnd(run[r], "abandoned")
      /\ CanWalk(ticket[t].status, "ready")
      /\ Write(r, [row EXCEPT !.approved = FALSE],
               [tk EXCEPT !.helped = @ \cup ({who} \ {"human"})], "ready")

\* requeue_on_default(): a run of an implementer profile failed on its merits.
Rerun(r) ==
  /\ At(r, {"rerun"})
  /\ UNCHANGED <<ticket, run>> \/ Requeue(TicketOf(r), "escalation")
  /\ Goes(r, "triage")
  /\ UNCHANGED <<trip, admitted, commanded, landed>>

\* triage_failure(): the failure is judged to be the infrastructure's.
Triage(r) ==
  /\ At(r, {"triage"})
  /\ \/ UNCHANGED <<ticket, run>>
     \/ ticket[TicketOf(r)].status = "in_flight" /\ Requeue(TicketOf(r), "triage")
  /\ Goes(r, "gone")
  /\ UNCHANGED <<trip, admitted, commanded, landed>>

\* contradiction._amend(): the implementer proposed an amendment.
Amend(r) ==
  /\ At(r, {"amend"})
  /\ UNCHANGED <<ticket, run>> \/ Requeue(TicketOf(r), "amendment")
  /\ Goes(r, "gone")
  /\ UNCHANGED <<trip, admitted, commanded, landed>>

\* The process of a worker dies.
Crash(r) ==
  /\ At(r, LiveSteps)
  /\ Goes(r, "dead")
  /\ UNCHANGED <<ticket, run, trip, admitted, commanded, landed>>

-----------------------------------------------------------------------------
(***************************************************************************)
(* The supervisor.                                                         *)
(***************************************************************************)
\* A pass reads a run whose heartbeat is stale or whose time box is spent ...
SampleTrip(r, kind) ==
  /\ Live(r) /\ run[r].phase \in SweepablePhases
  /\ trip[r] = NoTrip
  /\ "sweep" \in Events \/ (kind = "stale" /\ At(r, {"dead"}))
  /\ trip' = [trip EXCEPT ![r] = [kind |-> kind, phase |-> run[r].phase]]
  /\ UNCHANGED <<ticket, run, worker, admitted, commanded, landed>>

StillTripped(r) == ~run[r].ended /\ run[r].phase = trip[r].phase

\* ... and, if the trip still holds under the write lock, fails it.
ActOnTrip(r) ==
  /\ trip[r].kind \in {"stale", "box"}
  /\ IF StillTripped(r)
     THEN FailRow(r, "work") /\ trip' = [trip EXCEPT ![r] = [NoTrip EXCEPT !.kind = "closed"]]
     ELSE trip' = [trip EXCEPT ![r] = NoTrip] /\ UNCHANGED <<ticket, run>>
  /\ UNCHANGED <<worker, admitted, commanded, landed>>

\* The close-out's escalate(), read and write.
SweepEscalates(r) ==
  /\ trip[r].kind = "closed"
  /\ trip' = [trip EXCEPT ![r] =
       IF MustEscalate(TicketOf(r)) THEN [@ EXCEPT !.kind = "blocking"] ELSE NoTrip]
  /\ UNCHANGED <<ticket, run, worker, admitted, commanded, landed>>

SweepBlocks(r) ==
  /\ trip[r].kind = "blocking"
  /\ BlockTicket(TicketOf(r), "question")
  /\ trip' = [trip EXCEPT ![r] = NoTrip]
  /\ UNCHANGED <<worker, admitted, commanded, landed>>

\* The supervisor dies, and its next start samples everything again.
SupervisorDies ==
  /\ trip' = [r \in RunIds |-> NoTrip]
  /\ UNCHANGED <<ticket, run, worker, admitted, commanded, landed>>

-----------------------------------------------------------------------------
(***************************************************************************)
(* The operator's commands.                                                *)
(***************************************************************************)
RequeueByHuman(t) ==
  /\ Requeue(t, "human")
  /\ UNCHANGED <<worker, trip, admitted, commanded, landed>>

\* _release_parked(): the next claim resumes the candidate at the merge gate.
ApproveParked(t) ==
  LET r == ticket[t].last
  IN  /\ ticket[t].active = NoRun /\ ticket[t].status = "blocked_on_operator"
      /\ r # NoRun /\ run[r].phase = "awaiting_merge_approval"
      /\ MayEnd(run[r], "abandoned") /\ CanWalk(ticket[t].status, "ready")
      /\ Write(r, [EndRun(run[r], "abandoned", "none")
                     EXCEPT !.resume = "merge_gate", !.approved = TRUE],
               HumanActed(ticket[t]), "ready")
      /\ UNCHANGED <<worker, trip, admitted, commanded, landed>>

\* pause(): one request at a time, of any run that has not ended.
Pause(t) ==
  LET r == Latest(t)
  IN  /\ r # NoRun /\ ~run[r].ended /\ run[r].stop = "none"
      /\ run' = [run EXCEPT ![r].stop = "pause"]
      /\ ticket' = [ticket EXCEPT ![t] = HumanActed(@)]
      /\ UNCHANGED <<worker, trip, admitted, commanded, landed>>

\* Mutant: an abort is written over a cancel.
MayAbortCanceled(r, kind) == /\ r # NoRun /\ ~run[r].ended
                             /\ <<run[r].phase, "failed">> \in RunPhaseEdges
                             /\ run[r].stop # kind

\* abort(): any phase with an edge to failed; a cancel is never downgraded.
MayAbort(r, kind) == /\ r # NoRun /\ ~run[r].ended
                     /\ <<run[r].phase, "failed">> \in RunPhaseEdges
                     /\ run[r].stop \notin {kind, "cancel"}

\* abort_run() goes on to end the run itself when no worker is left to.
WorkerGone(r) == run[r].phase \in ParkedPhases \/ At(r, {"dead"})

Abort(t) ==
  LET r == Latest(t)
  IN  /\ MayAbort(r, "abort")
      /\ run' = [run EXCEPT ![r].stop = "abort"]
      /\ ticket' = [ticket EXCEPT ![t] = HumanActed(@)]
      /\ commanded' = IF WorkerGone(r) THEN commanded \cup {r} ELSE commanded
      /\ UNCHANGED <<worker, trip, admitted, landed>>

\* The command ends the run, finds it ended, or dies first.
CommandEnds(r) ==
  /\ r \in commanded
  /\ commanded' = commanded \ {r}
  /\ EndAborted(r) \/ UNCHANGED <<ticket, run>>
  /\ UNCHANGED <<worker, trip, admitted, landed>>

\* Mutant: the run is reopened and not released again.
ResumeLeavesOpen(t) ==
  LET r == Latest(t)
  IN  /\ r # NoRun /\ run[r].outcome = "paused"
      /\ CanWalk(ticket[t].status, "ready")
      /\ Write(r, [run[r] EXCEPT !.phase = run[r].resume, !.ended = FALSE, !.stop = "none"],
               HumanActed(ticket[t]), "ready")
      /\ UNCHANGED <<worker, trip, admitted, commanded, landed>>

\* resume() reopens the paused run at its resume phase and release() ends it
\* again, in one transaction: the next claim continues it.
ResumePaused(t) ==
  LET r == Latest(t)
  IN  /\ r # NoRun /\ run[r].outcome = "paused"
      /\ CanWalk(ticket[t].status, "ready")
      /\ Write(r, [run[r] EXCEPT !.park = "none", !.stop = "none"],
               HumanActed(ticket[t]), "ready")
      /\ UNCHANGED <<worker, trip, admitted, commanded, landed>>

\* cancel_ticket(), on a board of the store's own.
CancelTicket(t) ==
  LET r      == ticket[t].last
      parked == r # NoRun /\ ~run[r].ended
      held   == ticket[t].active
      merged == parked /\ run[r].phase = "blocked_on_operator"
                       /\ run[r].park # "contradiction"
      closed == [HumanActed(ticket[t]) EXCEPT !.board = "Canceled"]
  IN  /\ StoreBoard
      /\ ticket[t].board = "open" /\ ticket[t].status \notin ClosedStatuses
      /\ ~merged
      /\ \/ /\ held # NoRun /\ ~run[held].ended
            /\ run' = [run EXCEPT ![held].stop = "cancel"]
            /\ ticket' = [ticket EXCEPT ![t] = closed]
         \/ /\ held = NoRun /\ CanWalk(ticket[t].status, "abandoned")
            /\ IF parked /\ (run[r].phase = "awaiting_merge_approval"
                              \/ run[r].park = "contradiction")
               THEN Write(r, EndRun(run[r], "abandoned", "none"), closed, "abandoned")
               ELSE Walk(t, run, [ticket[t] EXCEPT !.board = "Canceled"], "abandoned")
      /\ UNCHANGED <<worker, trip, admitted, commanded, landed>>

-----------------------------------------------------------------------------
(***************************************************************************)
(* The board, as the mirror and the reconcile passes write it.             *)
(***************************************************************************)
\* A ticket's row as the board's listing leaves it.
Listed(t, status) ==
  /\ ticket[t].board = "open"
  /\ ticket[t].status # status
  /\ ticket' = [ticket EXCEPT ![t].status = status]
  /\ UNCHANGED <<run, worker, trip, admitted, commanded, landed>>

\* Mutant: the board's listing is written over any status.
MirrorTaskOver(t, specced) == Listed(t, IF specced THEN "ready" ELSE "needs_spec")

\* mirror_ticket(): needs_spec and ready follow the body; mirror_task() also
\* takes an idle specced ticket off the wait for its blockers.
MirrorTask(t, specced) ==
  \/ /\ ticket[t].status \in {"needs_spec", "ready"}
     /\ Listed(t, IF specced THEN "ready" ELSE "needs_spec")
  \/ /\ ticket[t].status = "blocked_on_deps" /\ specced /\ ticket[t].active = NoRun
     /\ Listed(t, "ready")

\* _wait_on_blockers(): a ticket the board shows blocked, claimed or not.
WaitOnBlockers(t) ==
  /\ StoreBoard
  /\ ticket[t].status = "ready"
  /\ Listed(t, "blocked_on_deps")

\* _park_unlisted(): ready in the mirror, gone from the board's ready column.
ParkUnlisted(t) ==
  /\ ~StoreBoard
  /\ ticket[t].status = "ready" /\ ticket[t].active = NoRun
  /\ Listed(t, "blocked_on_deps")

\* Somebody completes or cancels the ticket on the board.
BoardCloses(t, state) ==
  /\ ticket[t].board = "open"
  /\ ticket' = [ticket EXCEPT ![t].board = state]
  /\ UNCHANGED <<run, worker, trip, admitted, commanded, landed>>

\* Mutant: a closed ticket is walked to merged whatever closed it.
ReconcileAsMerged(t) ==
  /\ ticket[t].board # "open" /\ ticket[t].status \notin ClosedStatuses
  /\ ticket[t].active = NoRun /\ CanWalk(ticket[t].status, "merged")
  /\ Walk(t, run, ticket[t], "merged")
  /\ UNCHANGED <<worker, trip, admitted, commanded, landed>>

\* _reconcile_mirror(): an idle ticket the board has closed is walked there.
ReconcileMirror(t) ==
  LET r      == ticket[t].last
      status == IF ticket[t].board = "Done" THEN "merged" ELSE "abandoned"
  IN  /\ ticket[t].board # "open" /\ ticket[t].status \notin ClosedStatuses
      /\ ticket[t].active = NoRun
      /\ CanWalk(ticket[t].status, status)
      /\ IF r # NoRun /\ ~run[r].ended /\ run[r].park = "contradiction"
         THEN Write(r, EndRun(run[r], "abandoned", "none"), ticket[t], status)
         ELSE Walk(t, run, ticket[t], status)
      /\ UNCHANGED <<worker, trip, admitted, commanded, landed>>

\* _abort_canceled(): the board canceled a ticket under its run.
AbortCanceled(t) ==
  LET r == ticket[t].active
  IN  /\ StoreBoard
      /\ ticket[t].board = "Canceled"
      /\ MayAbort(r, "abort") /\ run[r].phase \notin ParkedPhases
      /\ run' = [run EXCEPT ![r].stop = "cancel"]
      /\ commanded' = IF WorkerGone(r) THEN commanded \cup {r} ELSE commanded
      /\ UNCHANGED <<ticket, worker, trip, admitted, landed>>

\* _retire(): the board no longer has the ticket.  Its run is asked to pause.
Retire(t) ==
  LET r == ticket[t].active
  IN  /\ StoreBoard
      /\ ticket[t].status \notin ClosedStatuses \cup {"blocked_on_operator"}
      /\ \/ /\ r # NoRun /\ ~run[r].ended /\ run[r].stop = "none"
            /\ run' = [run EXCEPT ![r].stop = "pause"]
            /\ UNCHANGED ticket
         \/ /\ r = NoRun /\ CanWalk(ticket[t].status, "abandoned")
            /\ Walk(t, run, ticket[t], "abandoned")
      /\ UNCHANGED <<worker, trip, admitted, commanded, landed>>

-----------------------------------------------------------------------------
WorkerStep(r) ==
  \/ RefuseLease(r) \/ StartWork(r)
  \/ \E p \in NextPhases(r) : EnterPhase(r, p)
  \/ \E p \in PausePhases(r) : EndPaused(r, p)
  \/ ReviewApproves(r) \/ GateVerifies(r) \/ WorkerAborts(r) \/ MeetsEnd(r)
  \/ \E class \in {"work", "infra"} : Fail(r, class)
  \/ HandOff(r) \/ RequeueDrift(r) \/ EndIfCanceled(r) \/ GateRefuses(r)
  \/ \E step \in ParkSteps : AskOperator(r, step)
  \/ Park(r) \/ Merge(r) \/ ReleaseMerged(r) \/ MirrorMerged(r)
  \/ Escalate(r) \/ BlockEscalated(r) \/ ParkSteeredCap(r)
  \/ Rerun(r) \/ Triage(r) \/ Amend(r)

SupervisorStep(r) ==
  \/ \E kind \in {"stale", "box"} : SampleTrip(r, kind)
  \/ ActOnTrip(r) \/ SweepEscalates(r) \/ SweepBlocks(r)

LoopStep(t) ==
  \/ FindIdle(t) \/ FindStruckOut(t) \/ BlockStruckOut(t)
  \/ AdmitTicket(t) \/ FindUnparked(t)
  \/ \E r \in RunIds : Claim(t, r)

OperatorStep(t) ==
  \/ "requeue" \in Events /\ RequeueByHuman(t)
  \/ "approve" \in Events /\ ApproveParked(t)
  \/ "pause" \in Events /\ (Pause(t) \/ ResumePaused(t))
  \/ "abort" \in Events /\ Abort(t)
  \/ "cancel" \in Events /\ CancelTicket(t)

BoardStep(t) ==
  \/ MirrorTask(t, TRUE)
  \/ "respec" \in Events /\ (\/ MirrorTask(t, FALSE) \/ WaitOnBlockers(t)
                            \/ ParkUnlisted(t) \/ Retire(t))
  \/ "close" \in Events /\ \E state \in BoardStates \ {"open"} : BoardCloses(t, state)
  \/ ReconcileMirror(t) \/ AbortCanceled(t)

RunStep(r) ==
  \/ WorkerStep(r) \/ Beat(r) \/ SupervisorStep(r) \/ CommandEnds(r)
  \/ "crash" \in Events /\ Crash(r)

Next ==
  \/ \E r \in RunIds : Claimed(r) /\ RunStep(r)
  \/ \E t \in Tickets : LoopStep(t) \/ OperatorStep(t) \/ BoardStep(t)
  \/ "crash" \in Events /\ SupervisorDies

Spec == Init /\ [][Next]_vars

\* A worker that lives goes on; a supervisor samples what is silent, and gets to
\* act on it though it may be restarted again and again.
Fairness ==
  \A r \in RunIds : /\ WF_vars(At(r, LiveSteps) /\ WorkerStep(r))
                    /\ WF_vars(SampleTrip(r, "stale"))
                    /\ SF_vars(ActOnTrip(r))

FairSpec == Spec /\ Fairness

-----------------------------------------------------------------------------
(***************************************************************************)
(* Safety.                                                                 *)
(***************************************************************************)
\* The run a ticket's lease names is the ticket's one run that has neither ended
\* nor parked: no two runs work one ticket, and no lease outlives its run or is
\* lost under it, whoever of the worker, the sweep and the commands ends it.
LeaseAgreement ==
  \A r \in RunIds : Claimed(r) =>
    (ticket[TicketOf(r)].active = r <=> ~run[r].ended /\ run[r].phase \notin ParkedPhases)

\* A run ends once: no late worker, sweep, command or reconcile pass rewrites the
\* outcome, the phase or the ticket of a run that has ended.
EndingsAreFinal ==
  [][\A r \in RunIds : run[r].ended =>
       /\ run'[r].ended
       /\ run'[r].outcome = run[r].outcome
       /\ run'[r].phase = run[r].phase
       /\ run'[r].ticket = run[r].ticket]_vars

\* Every run that has not ended may be failed by a sweep and aborted by its
\* operator: no phase is a trap that release() would refuse to leave.
CloseOutIsLegal ==
  \A r \in RunIds : Live(r) => MayEnd(run[r], "failed") /\ MayEnd(run[r], "abandoned")

\* Under approve = "human", nothing is merged into main that no human approved:
\* an earlier run of the ticket was parked and released by an approval.
LandNeedsApproval ==
  Approve => \A r \in landed : \E p \in Earlier(r) : p < r /\ run[p].approved

\* A ticket is merged because one of its runs landed or the board says it is done.
MergedMeansLanded ==
  \A t \in Tickets : ticket[t].status = "merged" =>
    \/ ticket[t].board = "Done"
    \/ \E r \in landed : TicketOf(r) = t

\* A ticket's work is merged into main a second time only after a run of it before
\* the second merge was failed or aborted: the run that merged first or one after
\* it, unless a worker that lost its run hands it off or requeues it all the same.
LandsOnce ==
  \A r, q \in landed : r < q /\ TicketOf(r) = TicketOf(q) =>
    \E p \in Earlier(q) : /\ p < q
                          /\ p >= r \/ Pool \/ StoreBoard
                          /\ run[p].outcome = "failed" \/ Aborted(p)

Weight == [none |-> 0, pause |-> 1, abort |-> 2, cancel |-> 3]

\* A stop asked of a run that has not ended is never taken back or weakened.
StopsOnlyHarden ==
  [][\A r \in RunIds : Live(r) /\ ~run'[r].ended =>
       Weight[run'[r].stop] >= Weight[run[r].stop]]_vars

\* Two earlier runs of r's ticket failed.
StruckOutBefore(r) == \E p, q \in Earlier(r) : /\ p < q /\ q < r
                                               /\ run[p].outcome = "failed"
                                               /\ run[q].outcome = "failed"

\* While a run works its ticket, the ticket stays in flight but for what the run
\* itself does, or a worker, an abort or a sweep that is not done yet with an earlier
\* run of it that has ended, or a loop that found the ticket struck out by two runs
\* before: their reads and writes are transactions apart.
StatusIsTheHolders ==
  [][\A r \in RunIds :
       (/\ Live(r) /\ At(r, BusySteps) /\ ticket[TicketOf(r)].status = "in_flight"
        /\ ticket'[TicketOf(r)].status # "in_flight")
       => \/ worker'[r] # worker[r]
          \/ \E q \in Earlier(r) : \/ run[q].ended /\ At(q, LiveSteps)
                                   \/ q \in commanded
                                   \/ trip[q].kind = "blocking"
          \/ /\ <<TicketOf(r), "struck">> \in admitted
             /\ ticket'[TicketOf(r)].status = "blocked_on_operator"
             /\ StruckOutBefore(r)]_vars

\* Where only runs of dead workers are swept, triage does not requeue a ticket that has
\* been struck out, but for a worker that comes late with an earlier run: the failure
\* that reaches the cap is escalated first in its own close-out.
TriageBelowCap ==
  [][\A t \in Tickets :
       (/\ "triage" \in ticket'[t].helped \ ticket[t].helped
        /\ ticket[t].strikes >= MaxFailedRuns)
       => \E q \in RunIds : /\ TicketOf(q) = t /\ q < ticket[t].last
                            /\ worker'[q] # worker[q]]_vars

\* A run parked for an approval can be given one: it is its ticket's last run, of
\* which alone approve() asks, and the ticket waits on the operator or is closed.
ParkedCanBeReleased ==
  \A r \in RunIds : (Live(r) /\ run[r].phase = "awaiting_merge_approval") =>
    /\ ticket[TicketOf(r)].last = r
    /\ ticket[TicketOf(r)].status \in {"blocked_on_operator"} \cup ClosedStatuses

\* The lease of TicketLease, as the rows hold it.
Lease == INSTANCE TicketLease WITH
           holder  <- [t \in Tickets |-> ticket[t].active],
           last    <- [t \in Tickets |-> ticket[t].last],
           granted <- [r \in RunIds |-> run[r].ticket]

\* The lifecycle implements the store's promise of the lease.
ImplementsLease == Lease!Spec

-----------------------------------------------------------------------------
(***************************************************************************)
(* Liveness.                                                               *)
(***************************************************************************)
\* Whatever becomes of a run's worker, its ticket's lease is given back.
LeaseIsFreed == Lease!LiveSpec

=============================================================================
