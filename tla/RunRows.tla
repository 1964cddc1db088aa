------------------------------- MODULE RunRows -------------------------------
(***************************************************************************)
(* Rows of the tables tickets and runs, and what one store write does to a *)
(* row: store.claim, store.set_phase, store.park and store.release, each   *)
(* of which is one BEGIN IMMEDIATE transaction.                            *)
(***************************************************************************)
EXTENDS RunTables

CONSTANTS Tickets, NoTicket, MaxRuns

ASSUME RowsAssumption == NoTicket \notin Tickets /\ MaxRuns \in Nat \ {0}

\* Runs are numbered in the order they are claimed; 0 is SQL's NULL.
RunIds == 1..MaxRuns
NoRun  == 0

ParkKinds == {"none", "question", "merge_lock", "not_reproduced", "contradiction"}

\* The action of the intervention runs.stopRequested names; a cancel is an
\* abort whose trigger is linear_cancelled or board_cancelled.
Aborts    == {"abort", "cancel"}
StopKinds == {"none", "pause"} \cup Aborts

BoardStates == {"open", "Done", "Canceled"}

\* The requeues the factory makes of its own, each once in a ticket's lifetime.
FactoryRequeues == {"escalation", "triage", "amendment"}

TicketRow == [status : TicketStatuses, active : {NoRun} \cup RunIds,
              last : {NoRun} \cup RunIds, board : BoardStates,
              strikes : Nat, relaunches : Nat, helped : SUBSET FactoryRequeues]

RunRow == [ticket : Tickets \cup {NoTicket}, phase : RunPhases, ended : BOOLEAN,
           outcome : Outcomes \cup {"none"}, resume : RunPhases \cup {"none"},
           park : ParkKinds, stop : StopKinds, approved : BOOLEAN]

NewTicket == [status |-> "needs_spec", active |-> NoRun, last |-> NoRun,
              board |-> "open", strikes |-> 0, relaunches |-> 0, helped |-> {}]

\* The row store.claim inserts; with NoTicket, a row not inserted yet.
NewRun(t) == [ticket |-> t, phase |-> "claimed", ended |-> FALSE,
              outcome |-> "none", resume |-> "none", park |-> "none",
              stop |-> "none", approved |-> FALSE]

-----------------------------------------------------------------------------
Over(row) == row.ended /\ row.phase \in EndedPhases

\* release() raises when the phase graph refuses the ending; it does nothing to
\* a run that has ended.
MayEnd(row, outcome) ==
  Over(row) \/ (~row.ended /\ RunMayMove(row.phase, TerminalPhase(outcome)))

\* Mutant: a run that has ended is ended again.
EndRunAgain(row, outcome, resume) ==
  [row EXCEPT !.phase = TerminalPhase(outcome), !.ended = TRUE, !.outcome = outcome,
              !.resume = resume]

EndRun(row, outcome, resume) ==
  IF Over(row) THEN row
  ELSE [row EXCEPT !.phase = TerminalPhase(outcome), !.ended = TRUE,
                   !.outcome = outcome,
                   !.resume = IF outcome = "paused" THEN resume
                              ELSE IF /\ TerminalPhase(outcome) = "failed"
                                      /\ row.phase \in WorkPhases
                              THEN row.phase ELSE "none"]

\* Mutant: lastRunId is not written.
GiveBackUnrecorded(tk, r) == IF tk.active = r THEN [tk EXCEPT !.active = NoRun] ELSE tk

\* The lease goes back only if this run holds it.
GiveBack(tk, r) == IF tk.active = r THEN [tk EXCEPT !.active = NoRun, !.last = r]
                   ELSE tk

\* What escalate() counts: failed runs of class work since a human last acted.
CountStrike(tk, row) == IF Over(row) THEN tk ELSE [tk EXCEPT !.strikes = @ + 1]

\* A human's intervention other than a requeue starts both counts again.
HumanActed(tk) == [tk EXCEPT !.strikes = 0, !.relaunches = 0]

\* A requeue counts against the relaunch limit when its run failed or was rejected.
CountRequeue(tk, row, human) ==
  [tk EXCEPT !.strikes = IF human THEN 0 ELSE @,
             !.relaunches = IF row.outcome \in {"failed", "rejected"} THEN @ + 1 ELSE @]

Walked(tk, status) == [tk EXCEPT !.status = status]

=============================================================================
