---------------------------- MODULE LifecycleLease ----------------------------
(***************************************************************************)
(* Types and leases of TicketLifecycle.  The rows are written only through *)
(* the operators of RunRows, so a lemma for each of those, and for each of *)
(* the writes the actions share, leaves one short step per action of the   *)
(* type invariant.  The lease names the one run at work on its ticket,     *)
(* endings are final, and the lifecycle implements the abstract            *)
(* TicketLease: all three follow from what a step may do to the lease      *)
(* columns and to a run's phase and ending, which is one of five effects,  *)
(* nothing, or one run granted, moved on, parked or ended.                 *)
(***************************************************************************)
EXTENDS TicketLifecycle, TLAPS

\* What the lemmas on writes are about: the rows of both tables.
RowsOK == ticket \in [Tickets -> TicketRow] /\ run \in [RunIds -> RunRow]

\* The rest of the type invariant: what the processes carry between writes.
CarriedOK ==
  /\ worker \in [RunIds -> [at : Steps, ask : BOOLEAN, round : 0..MaxRounds]]
  /\ trip \in [RunIds -> [kind : {"none", "stale", "box", "closed", "blocking"},
                          phase : RunPhases]]
  /\ admitted \subseteq Tickets \X Reads
  /\ commanded \subseteq RunIds
  /\ landed \subseteq RunIds

\* The invariant splits into the two.
LEMMA TypeParts == /\ TypeOK <=> RowsOK /\ CarriedOK
                   /\ TypeOK' <=> RowsOK' /\ CarriedOK'
  BY DEF TypeOK, RowsOK, CarriedOK

\* No run is numbered 0, which stands for SQL's NULL.
LEMMA RunIdsAreRuns == NoRun \notin RunIds /\ RunIds \subseteq Nat
  BY DEF NoRun, RunIds

\* Each ending is a phase of the run.
LEMMA TerminalPhaseType ==
  ASSUME NEW outcome \in Outcomes
  PROVE  TerminalPhase(outcome) \in EndedPhases /\ TerminalPhase(outcome) \in RunPhases
  BY DEF Outcomes, TerminalPhase, EndedPhases, RunPhases

\* release() leaves a run row.
LEMMA EndRunType ==
  ASSUME NEW row \in RunRow, NEW outcome \in Outcomes,
         NEW resume \in RunPhases \cup {"none"}
  PROVE  EndRun(row, outcome, resume) \in RunRow
<1>1. CASE Over(row)
  BY <1>1 DEF EndRun
<1>2. CASE ~Over(row)
  <2> DEFINE res == IF outcome = "paused" THEN resume
                    ELSE IF TerminalPhase(outcome) = "failed" /\ row.phase \in WorkPhases
                         THEN row.phase ELSE "none"
  <2>1. res \in RunPhases \cup {"none"}
    BY DEF RunRow
  <2>2. TerminalPhase(outcome) \in RunPhases /\ outcome \in Outcomes \cup {"none"}
    BY TerminalPhaseType
  <2>3. EndRun(row, outcome, resume) =
          [row EXCEPT !.phase = TerminalPhase(outcome), !.ended = TRUE,
                      !.outcome = outcome, !.resume = res]
    BY <1>2 DEF EndRun
  <2> HIDE DEF res
  <2> QED  BY <2>1, <2>2, <2>3 DEF RunRow
<1> QED  BY <1>1, <1>2

\* The writes to a ticket row leave one.
LEMMA TicketRowTypes ==
  ASSUME NEW tk \in TicketRow
  PROVE  /\ \A r \in RunIds : GiveBack(tk, r) \in TicketRow
         /\ \A row : CountStrike(tk, row) \in TicketRow
         /\ HumanActed(tk) \in TicketRow
         /\ \A row : \A human \in BOOLEAN : CountRequeue(tk, row, human) \in TicketRow
         /\ \A status \in TicketStatuses : Walked(tk, status) \in TicketRow
<1>1. \A r \in RunIds : GiveBack(tk, r) \in TicketRow
  BY DEF GiveBack, TicketRow
<1>2. \A row : CountStrike(tk, row) \in TicketRow
  BY DEF CountStrike, TicketRow
<1>3. HumanActed(tk) \in TicketRow
  BY DEF HumanActed, TicketRow
<1>4. ASSUME NEW row, NEW human \in BOOLEAN
      PROVE  CountRequeue(tk, row, human) \in TicketRow
  <2> DEFINE strikes    == IF human THEN 0 ELSE tk.strikes
             relaunches == IF row.outcome \in {"failed", "rejected"}
                           THEN tk.relaunches + 1 ELSE tk.relaunches
  <2>1. strikes \in Nat
    BY DEF TicketRow
  <2>2. tk.relaunches \in Nat
    BY DEF TicketRow
  <2>3. relaunches \in Nat
    BY <2>2
  <2>4. CountRequeue(tk, row, human) =
          [tk EXCEPT !.strikes = strikes, !.relaunches = relaunches]
    BY DEF CountRequeue
  <2> HIDE DEF strikes, relaunches
  <2> QED  BY <2>1, <2>3, <2>4 DEF TicketRow
<1>5. \A status \in TicketStatuses : Walked(tk, status) \in TicketRow
  BY DEF Walked, TicketRow
<1> QED  BY <1>1, <1>2, <1>3, <1>4, <1>5

-----------------------------------------------------------------------------
\* The run a command is for is a run of the store, or none.
LEMMA LatestType ==
  ASSUME RowsOK, NEW t \in Tickets
  PROVE  Latest(t) \in {NoRun} \cup RunIds /\ ticket[t].last \in {NoRun} \cup RunIds
  BY DEF RowsOK, TicketRow, Latest

\* walk_ticket() keeps the rows typed, the park kinds it clears included.
LEMMA WalkType ==
  ASSUME RowsOK, NEW t, NEW rows \in [RunIds -> RunRow],
         NEW tk \in TicketRow, NEW status \in TicketStatuses,
         Walk(t, rows, tk, status)
  PROVE  RowsOK'
<1>1. ticket' \in [Tickets -> TicketRow]
  <2>1. Walked(tk, status) \in TicketRow
    BY TicketRowTypes
  <2> QED  BY <2>1 DEF Walk, RowsOK
<1>2. \A row \in RunRow : [row EXCEPT !.park = "none"] \in RunRow
  BY DEF RunRow, ParkKinds
<1>3. run' \in [RunIds -> RunRow]
  BY <1>2 DEF Walk
<1> QED  BY <1>1, <1>3 DEF RowsOK

\* A write to a run that walks its ticket on keeps the rows typed.
LEMMA WriteType ==
  ASSUME RowsOK, NEW r \in RunIds, NEW row \in RunRow,
         NEW tk \in TicketRow, NEW status \in TicketStatuses,
         Write(r, row, tk, status)
  PROVE  RowsOK'
<1>1. [run EXCEPT ![r] = row] \in [RunIds -> RunRow]
  BY DEF RowsOK
<1> QED  BY <1>1, WalkType DEF Write

\* release(), the run's row and its ticket's.
LEMMA ReleasedType ==
  ASSUME RowsOK, NEW r \in RunIds, NEW outcome \in Outcomes,
         NEW resume \in RunPhases \cup {"none"}
  PROVE  Released(r, outcome, resume) \in RunRow
  BY EndRunType DEF Released, RowsOK

\* A ticket freed of its run is still a row of the tickets table.
LEMMA FreedType ==
  ASSUME RowsOK, NEW r \in RunIds, TicketOf(r) \in Tickets
  PROVE  Freed(r) \in TicketRow
  BY TicketRowTypes DEF Freed, RowsOK

\* A failed ending keeps the rows typed.
LEMMA FailRowType ==
  ASSUME RowsOK, NEW r \in RunIds, TicketOf(r) \in Tickets, NEW class,
         FailRow(r, class)
  PROVE  RowsOK'
<1>1. Released(r, "failed", "none") \in RunRow
  BY ReleasedType DEF Outcomes
<1>2. Freed(r) \in TicketRow /\ CountStrike(Freed(r), run[r]) \in TicketRow
  BY FreedType, TicketRowTypes
<1> QED  BY <1>1, <1>2 DEF RowsOK, FailRow

\* block_ticket() keeps the rows typed.
LEMMA BlockTicketType ==
  ASSUME RowsOK, NEW t \in Tickets, NEW kind \in ParkKinds, BlockTicket(t, kind)
  PROVE  RowsOK'
<1>1. CASE UNCHANGED <<ticket, run>>
  BY <1>1 DEF RowsOK
<1>2. CASE ~UNCHANGED <<ticket, run>>
  <2>1. ticket' = [ticket EXCEPT ![t].status = "blocked_on_operator"]
    BY <1>2 DEF BlockTicket
  <2>2. run' = [r \in RunIds |-> IF r = Latest(t) THEN [run[r] EXCEPT !.park = kind]
                                 ELSE run[r]]
    BY <1>2 DEF BlockTicket
  <2>3. ticket' \in [Tickets -> TicketRow]
    BY <2>1 DEF RowsOK, TicketRow, TicketStatuses
  <2>4. \A row \in RunRow : [row EXCEPT !.park = kind] \in RunRow
    BY DEF RunRow
  <2>5. run' \in [RunIds -> RunRow]
    BY <2>2, <2>4 DEF RowsOK
  <2> QED  BY <2>3, <2>5 DEF RowsOK
<1> QED  BY <1>1, <1>2

\* A run no worker has taken up.
LEMMA NoWorkerType == NoWorker \in [at : Steps, ask : BOOLEAN, round : 0..MaxRounds]
<1>1. 0 \in 0..MaxRounds /\ "none" \in Steps
  BY LifecycleAssumption DEF Steps
<1> QED  BY <1>1 DEF NoWorker

\* A worker's step and a heartbeat keep what the processes carry typed.
LEMMA GoesType ==
  ASSUME CarriedOK, NEW r \in RunIds, NEW step \in Steps, Goes(r, step)
  PROVE  worker' \in [RunIds -> [at : Steps, ask : BOOLEAN, round : 0..MaxRounds]]
<1> DEFINE Row == [at : Steps, ask : BOOLEAN, round : 0..MaxRounds]
<1>1. NoWorker \in Row
  BY NoWorkerType
<1>2. \A row \in Row : [row EXCEPT !.at = step] \in Row
  OBVIOUS
<1>3. worker \in [RunIds -> Row]
  BY DEF CarriedOK
<1>4. worker' = [worker EXCEPT ![r] = IF step \in BusySteps
                                      THEN [worker[r] EXCEPT !.at = step]
                                      ELSE [NoWorker EXCEPT !.at = step]]
  BY Zenon DEF Goes
<1>5. (IF step \in BusySteps THEN [worker[r] EXCEPT !.at = step]
       ELSE [NoWorker EXCEPT !.at = step]) \in Row
  BY <1>1, <1>2, <1>3
<1> QED  BY <1>3, <1>4, <1>5

\* A heartbeat keeps the type of the tripwires.
LEMMA BeatenType ==
  ASSUME CarriedOK, NEW r \in RunIds, Beaten(r)
  PROVE  trip' \in [RunIds -> [kind : {"none", "stale", "box", "closed", "blocking"},
                               phase : RunPhases]]
<1>1. NoTrip \in [kind : {"none", "stale", "box", "closed", "blocking"}, phase : RunPhases]
  BY DEF NoTrip, RunPhases
<1> QED  BY <1>1 DEF Beaten, CarriedOK

-----------------------------------------------------------------------------
\* The first state is typed.
LEMMA TypeInit ==
  ASSUME Init
  PROVE  TypeOK
<1>1. NewTicket \in TicketRow
  BY DEF NewTicket, TicketRow, TicketStatuses, BoardStates
<1>2. NewRun(NoTicket) \in RunRow
  BY DEF NewRun, RunRow, RunPhases, ParkKinds, StopKinds
<1>3. NoWorker \in [at : Steps, ask : BOOLEAN, round : 0..MaxRounds]
  BY NoWorkerType
<1>4. NoTrip \in [kind : {"none", "stale", "box", "closed", "blocking"}, phase : RunPhases]
  BY DEF NoTrip, RunPhases
<1> QED  BY <1>1, <1>2, <1>3, <1>4 DEF Init, TypeOK

\* The phases a worker enters are phases of a run, and of its own code.
LEMMA NextPhasesType ==
  ASSUME NEW r \in RunIds
  PROVE  /\ NextPhases(r) \subseteq RunPhases \cap Steps
         /\ PausePhases(r) \subseteq RunPhases
<1>1. NextPhases(r) \subseteq {"working", "verifying", "reviewing", "addressing",
                               "merge_gate", "merging"}
  BY Zenon DEF NextPhases
<1>2. {"working", "verifying", "reviewing", "addressing", "merge_gate", "merging"}
        \subseteq RunPhases \cap Steps
  BY DEF RunPhases, Steps, BusySteps, WorkPhases, GatePhases
<1>3. PausePhases(r) \subseteq NextPhases(r) \cup {"merge_gate"}
  BY DEF PausePhases
<1> QED  BY <1>1, <1>2, <1>3

-----------------------------------------------------------------------------
\* The claim and the admission.
LEMMA TypeLoopStep ==
  ASSUME RowsOK, CarriedOK, NEW t \in Tickets, LoopStep(t)
  PROVE  RowsOK' /\ CarriedOK'
<1>1. CASE FindIdle(t) \/ FindStruckOut(t) \/ AdmitTicket(t) \/ FindUnparked(t)
  <2>1. admitted' \subseteq Tickets \X Reads
    BY <1>1 DEF FindIdle, FindStruckOut, AdmitTicket, FindUnparked, CarriedOK, Reads
  <2>2. UNCHANGED <<ticket, run, worker, trip, commanded, landed>>
    BY <1>1 DEF FindIdle, FindStruckOut, AdmitTicket, FindUnparked
  <2> QED  BY <2>1, <2>2 DEF RowsOK, CarriedOK
<1>2. CASE BlockStruckOut(t)
  <2>1. RowsOK'
    BY <1>2, BlockTicketType DEF BlockStruckOut, ParkKinds
  <2> QED  BY <1>2, <2>1 DEF BlockStruckOut, CarriedOK
<1>3. ASSUME NEW r \in RunIds, Claim(t, r)
      PROVE  RowsOK' /\ CarriedOK'
  <2>1. NewRun(t) \in RunRow
    BY DEF NewRun, RunRow, RunPhases, ParkKinds, StopKinds
  <2>2. [ticket[t] EXCEPT !.active = r] \in TicketRow
    BY DEF RowsOK, TicketRow
  <2>3. RowsOK'
    BY <1>3, <2>1, <2>2 DEF Claim, RowsOK
  <2>4. worker' \in [RunIds -> [at : Steps, ask : BOOLEAN, round : 0..MaxRounds]]
    BY <1>3, GoesType DEF Claim, Steps
  <2>5. UNCHANGED <<trip, admitted, commanded, landed>>
    BY <1>3 DEF Claim
  <2> QED  BY <2>3, <2>4, <2>5 DEF CarriedOK
<1> QED  BY <1>1, <1>2, <1>3 DEF LoopStep

\* requeue(), by whoever: it touches the rows alone.
LEMMA RequeueType ==
  ASSUME RowsOK, NEW t \in Tickets,
         NEW who \in FactoryRequeues \cup {"human"}, Requeue(t, who)
  PROVE  RowsOK'
<1> DEFINE r   == ticket[t].last
           row == IF ReleasesPark(t) THEN EndRun(run[r], "abandoned", "none") ELSE run[r]
           tk  == CountRequeue(ticket[t], row, who = "human")
           own == {who} \ {"human"}
<1>1. r \in RunIds
  BY LatestType DEF Requeue, RequeueAdmits
<1>2. row \in RunRow
  BY <1>1, EndRunType DEF RowsOK, Outcomes
<1>3. [row EXCEPT !.approved = FALSE] \in RunRow
  BY <1>2 DEF RunRow
<1>4. tk \in TicketRow
  BY TicketRowTypes DEF RowsOK
<1>5. [tk EXCEPT !.helped = tk.helped \cup own] \in TicketRow
  BY <1>4 DEF TicketRow
<1>6. Write(r, [row EXCEPT !.approved = FALSE],
            [tk EXCEPT !.helped = tk.helped \cup own], "ready")
  BY DEF Requeue
<1> HIDE DEF row, tk, own, r
<1> QED  BY <1>1, <1>3, <1>5, <1>6, WriteType DEF TicketStatuses

\* The operator's commands.
LEMMA TypeOperatorStep ==
  ASSUME RowsOK, CarriedOK, NEW t \in Tickets, OperatorStep(t)
  PROVE  RowsOK' /\ CarriedOK'
<1> DEFINE acted == HumanActed(ticket[t])
<1>0. /\ acted \in TicketRow
      /\ Latest(t) \in {NoRun} \cup RunIds /\ ticket[t].last \in {NoRun} \cup RunIds
  BY TicketRowTypes, LatestType DEF RowsOK
<1>1. CASE RequeueByHuman(t)
  <2>1. RowsOK'
    BY <1>1, RequeueType DEF RequeueByHuman
  <2> QED  BY <1>1, <2>1 DEF RequeueByHuman, CarriedOK
<1>2. CASE ApproveParked(t)
  <2> DEFINE r == ticket[t].last
             row == EndRun(run[r], "abandoned", "none")
  <2>1. r \in RunIds
    BY <1>0, <1>2 DEF ApproveParked
  <2>2. row \in RunRow
    BY <2>1, EndRunType DEF RowsOK, Outcomes
  <2>3. [row EXCEPT !.resume = "merge_gate", !.approved = TRUE] \in RunRow
    BY <2>2 DEF RunRow, RunPhases, GatePhases
  <2>4. Write(r, [row EXCEPT !.resume = "merge_gate", !.approved = TRUE], acted, "ready")
    BY <1>2 DEF ApproveParked
  <2> HIDE DEF row, r, acted
  <2>5. RowsOK'
    BY <1>0, <2>1, <2>3, <2>4, WriteType DEF TicketStatuses
  <2> QED  BY <1>2, <2>5 DEF ApproveParked, CarriedOK
<1>3. CASE Pause(t)
  <2> DEFINE r == Latest(t)
  <2>1. r \in RunIds /\ [run[r] EXCEPT !.stop = "pause"] \in RunRow
    BY <1>0, <1>3 DEF Pause, RowsOK, RunRow, StopKinds
  <2>2. run' = [run EXCEPT ![r] = [run[r] EXCEPT !.stop = "pause"]]
    BY <1>3, <2>1 DEF Pause, RowsOK
  <2>3. ticket' = [ticket EXCEPT ![t] = acted]
    BY <1>3 DEF Pause
  <2> QED  BY <1>0, <1>3, <2>1, <2>2, <2>3 DEF Pause, RowsOK, CarriedOK
<1>4. CASE Abort(t)
  <2> DEFINE r == Latest(t)
  <2>1. r \in RunIds /\ [run[r] EXCEPT !.stop = "abort"] \in RunRow
    BY <1>0, <1>4 DEF Abort, MayAbort, RowsOK, RunRow, StopKinds, Aborts
  <2>2. run' = [run EXCEPT ![r] = [run[r] EXCEPT !.stop = "abort"]]
    BY <1>4, <2>1 DEF Abort, RowsOK
  <2>3. ticket' = [ticket EXCEPT ![t] = acted]
    BY <1>4 DEF Abort
  <2>4. RowsOK'
    BY <1>0, <2>1, <2>2, <2>3 DEF RowsOK
  <2>5. commanded' \subseteq RunIds
    BY <1>4, <2>1 DEF Abort, CarriedOK
  <2> QED  BY <1>4, <2>4, <2>5 DEF Abort, CarriedOK
<1>5. CASE ResumePaused(t)
  <2> DEFINE r == Latest(t)
  <2>1. r \in RunIds /\ [run[r] EXCEPT !.park = "none", !.stop = "none"] \in RunRow
    BY <1>0, <1>5 DEF ResumePaused, RowsOK, RunRow, StopKinds, ParkKinds
  <2>2. Write(r, [run[r] EXCEPT !.park = "none", !.stop = "none"], acted, "ready")
    BY <1>5 DEF ResumePaused
  <2> HIDE DEF r, acted
  <2>3. RowsOK'
    BY <1>0, <2>1, <2>2, WriteType DEF TicketStatuses
  <2> QED  BY <1>5, <2>3 DEF ResumePaused, CarriedOK
<1>6. CASE CancelTicket(t)
  <2> DEFINE r      == ticket[t].last
             held   == ticket[t].active
             closed == [acted EXCEPT !.board = "Canceled"]
             idle   == [ticket[t] EXCEPT !.board = "Canceled"]
  <2>1. closed \in TicketRow /\ idle \in TicketRow /\ held \in {NoRun} \cup RunIds
    BY <1>0 DEF RowsOK, TicketRow, BoardStates
  <2>2. ASSUME held # NoRun,
               run' = [run EXCEPT ![held].stop = "cancel"],
               ticket' = [ticket EXCEPT ![t] = closed]
        PROVE  RowsOK'
    <3>1. held \in RunIds /\ [run[held] EXCEPT !.stop = "cancel"] \in RunRow
      BY <2>1, <2>2 DEF RowsOK, RunRow, StopKinds, Aborts
    <3> QED  BY <2>1, <2>2, <3>1 DEF RowsOK
  <2>3. ASSUME r # NoRun,
               Write(r, EndRun(run[r], "abandoned", "none"), closed, "abandoned")
        PROVE  RowsOK'
    <3>1. r \in RunIds /\ EndRun(run[r], "abandoned", "none") \in RunRow
      BY <1>0, <2>3, EndRunType DEF RowsOK, Outcomes
    <3> QED  BY <2>1, <2>3, <3>1, WriteType DEF TicketStatuses
  <2>4. ASSUME Walk(t, run, idle, "abandoned")
        PROVE  RowsOK'
    BY <2>1, <2>4, WalkType DEF RowsOK, TicketStatuses
  <2>5. RowsOK'
    BY <1>6, <2>2, <2>3, <2>4 DEF CancelTicket
  <2> QED  BY <1>6, <2>5 DEF CancelTicket, CarriedOK
<1> QED  BY <1>1, <1>2, <1>3, <1>4, <1>5, <1>6 DEF OperatorStep

\* The board, mirrored and reconciled.
LEMMA TypeBoardStep ==
  ASSUME RowsOK, CarriedOK, NEW t \in Tickets, BoardStep(t)
  PROVE  RowsOK' /\ CarriedOK'
<1>0. ticket[t].last \in {NoRun} \cup RunIds /\ ticket[t].active \in {NoRun} \cup RunIds
  BY DEF RowsOK, TicketRow
<1>1. ASSUME NEW status \in TicketStatuses, Listed(t, status)
      PROVE  RowsOK' /\ CarriedOK'
  BY <1>1 DEF Listed, RowsOK, CarriedOK, TicketRow
<1>2. CASE \/ \E specced \in BOOLEAN : MirrorTask(t, specced)
           \/ WaitOnBlockers(t) \/ ParkUnlisted(t)
  BY <1>1, <1>2 DEF MirrorTask, WaitOnBlockers, ParkUnlisted, TicketStatuses
<1>3. CASE Retire(t)
  <2>1. ASSUME ticket[t].active # NoRun,
               run' = [run EXCEPT ![ticket[t].active].stop = "pause"],
               UNCHANGED ticket
        PROVE  RowsOK'
    BY <1>0, <2>1 DEF RowsOK, RunRow, StopKinds
  <2>2. ASSUME Walk(t, run, ticket[t], "abandoned")
        PROVE  RowsOK'
    BY <2>2, WalkType DEF RowsOK, TicketStatuses
  <2>3. RowsOK'
    BY <1>3, <2>1, <2>2 DEF Retire
  <2> QED  BY <1>3, <2>3 DEF Retire, CarriedOK
<1>4. ASSUME NEW state \in BoardStates, BoardCloses(t, state)
      PROVE  RowsOK' /\ CarriedOK'
  BY <1>4 DEF BoardCloses, RowsOK, CarriedOK, TicketRow
<1>5. CASE ReconcileMirror(t)
  <2> DEFINE r      == ticket[t].last
             status == IF ticket[t].board = "Done" THEN "merged" ELSE "abandoned"
  <2>1. status \in TicketStatuses /\ ticket[t] \in TicketRow
    BY DEF TicketStatuses, RowsOK
  <2>2. ASSUME r # NoRun,
               Write(r, EndRun(run[r], "abandoned", "none"), ticket[t], status)
        PROVE  RowsOK'
    <3>1. r \in RunIds /\ EndRun(run[r], "abandoned", "none") \in RunRow
      BY <1>0, <2>2, EndRunType DEF RowsOK, Outcomes
    <3> HIDE DEF r, status
    <3> QED  BY <2>1, <2>2, <3>1, WriteType
  <2>3. ASSUME Walk(t, run, ticket[t], status)
        PROVE  RowsOK'
    BY <2>1, <2>3, WalkType DEF RowsOK
  <2>4. RowsOK'
    BY <1>5, <2>2, <2>3 DEF ReconcileMirror
  <2> QED  BY <1>5, <2>4 DEF ReconcileMirror, CarriedOK
<1>6. CASE AbortCanceled(t)
  <2> DEFINE r == ticket[t].active
  <2>1. r \in RunIds
    BY <1>0, <1>6 DEF AbortCanceled, MayAbort
  <2>2. RowsOK'
    BY <1>6, <2>1 DEF AbortCanceled, RowsOK, RunRow, StopKinds, Aborts
  <2>3. commanded' \subseteq RunIds
    BY <1>6, <2>1 DEF AbortCanceled, CarriedOK
  <2> QED  BY <1>6, <2>2, <2>3 DEF AbortCanceled, CarriedOK
<1> QED  BY <1>2, <1>3, <1>4, <1>5, <1>6 DEF BoardStep

\* The sweep, and the commands that end an aborted run.
LEMMA EndAbortedType ==
  ASSUME RowsOK, NEW r \in RunIds, TicketOf(r) \in Tickets, EndAborted(r)
  PROVE  RowsOK'
<1>1. Released(r, "abandoned", "none") \in RunRow /\ Freed(r) \in TicketRow
  BY ReleasedType, FreedType DEF Outcomes
<1>2. \E status \in TicketStatuses :
        Write(r, Released(r, "abandoned", "none"), Freed(r), status)
  BY DEF EndAborted, TicketStatuses
<1> QED  BY <1>1, <1>2, WriteType

\* The sweep, the end of a command and a heartbeat keep the types.
LEMMA TypeSupervisorStep ==
  ASSUME RowsOK, CarriedOK, NEW r \in RunIds, TicketOf(r) \in Tickets,
         SupervisorStep(r) \/ CommandEnds(r) \/ Beat(r)
  PROVE  RowsOK' /\ CarriedOK'
<1> DEFINE Trip == [kind : {"none", "stale", "box", "closed", "blocking"},
                    phase : RunPhases]
<1>0. NoTrip \in Trip /\ \A kind \in {"closed"} : [NoTrip EXCEPT !.kind = kind] \in Trip
  BY DEF NoTrip, RunPhases
<1>1. ASSUME NEW kind \in {"stale", "box"}, SampleTrip(r, kind)
      PROVE  RowsOK' /\ CarriedOK'
  <2>1. [kind |-> kind, phase |-> run[r].phase] \in Trip
    BY DEF RowsOK, RunRow
  <2> QED  BY <1>1, <2>1 DEF SampleTrip, RowsOK, CarriedOK
<1>2. CASE ActOnTrip(r)
  <2>1. RowsOK'
    BY <1>2, FailRowType DEF ActOnTrip, RowsOK
  <2>2. trip' \in [RunIds -> Trip]
    BY <1>0, <1>2 DEF ActOnTrip, CarriedOK
  <2> QED  BY <1>2, <2>1, <2>2 DEF ActOnTrip, CarriedOK
<1>3. CASE SweepEscalates(r)
  <2>1. [trip[r] EXCEPT !.kind = "blocking"] \in Trip
    BY DEF CarriedOK
  <2>2. trip' \in [RunIds -> Trip]
    BY <1>0, <1>3, <2>1 DEF SweepEscalates, CarriedOK
  <2> QED  BY <1>3, <2>2 DEF SweepEscalates, RowsOK, CarriedOK
<1>4. CASE SweepBlocks(r)
  <2>1. RowsOK'
    BY <1>4, BlockTicketType DEF SweepBlocks, ParkKinds
  <2>2. trip' \in [RunIds -> Trip]
    BY <1>0, <1>4 DEF SweepBlocks, CarriedOK
  <2> QED  BY <1>4, <2>1, <2>2 DEF SweepBlocks, CarriedOK
<1>5. CASE CommandEnds(r)
  <2>1. RowsOK'
    BY <1>5, EndAbortedType DEF CommandEnds, RowsOK
  <2> QED  BY <1>5, <2>1 DEF CommandEnds, CarriedOK
<1>6. CASE Beat(r)
  BY <1>6, BeatenType DEF Beat, RowsOK, CarriedOK
<1> QED  BY <1>1, <1>2, <1>3, <1>4, <1>5, <1>6 DEF SupervisorStep

\* Most steps of a worker carry it on and leave what the others carry.
LEMMA CarriedOn ==
  ASSUME CarriedOK, NEW r \in RunIds, NEW step \in Steps, Goes(r, step),
         UNCHANGED <<trip, admitted, commanded, landed>>
  PROVE  CarriedOK'
  BY GoesType DEF CarriedOK

\* A run's ending with the walk of its ticket, whatever the outcome.
LEMMA EndAndWalkType ==
  ASSUME RowsOK, NEW r \in RunIds, TicketOf(r) \in Tickets,
         NEW outcome \in Outcomes, NEW resume \in RunPhases \cup {"none"},
         NEW status \in TicketStatuses,
         Write(r, Released(r, outcome, resume), Freed(r), status)
  PROVE  RowsOK'
  BY ReleasedType, FreedType, WriteType

\* The worker, from the claim to the gate.
LEMMA TypeWorkSteps ==
  ASSUME RowsOK, CarriedOK, NEW r \in RunIds, TicketOf(r) \in Tickets,
         \/ RefuseLease(r) \/ StartWork(r) \/ ReviewApproves(r) \/ GateVerifies(r)
         \/ \E p \in NextPhases(r) : EnterPhase(r, p)
         \/ \E p \in PausePhases(r) : EndPaused(r, p)
         \/ WorkerAborts(r) \/ MeetsEnd(r)
         \/ \E class \in {"work", "infra"} : Fail(r, class)
  PROVE  RowsOK' /\ CarriedOK'
<1> USE DEF Steps, BusySteps, CloseSteps
<1>1. CASE RefuseLease(r)
  BY <1>1, FailRowType, CarriedOn DEF RefuseLease
<1>2. CASE StartWork(r)
  <2>1. RowsOK'
    <3>1. CASE ticket' = [ticket EXCEPT ![TicketOf(r)].status = "in_flight"] /\ UNCHANGED run
      BY <3>1 DEF RowsOK, TicketRow, TicketStatuses
    <3>2. CASE FailRow(r, "infra")
      BY <3>2, FailRowType
    <3> QED  BY <1>2, <3>1, <3>2 DEF StartWork
  <2>2. CarriedOK'
    BY <1>2, CarriedOn DEF StartWork
  <2> QED  BY <2>1, <2>2
<1>3. CASE ReviewApproves(r) \/ GateVerifies(r)
  BY <1>3, CarriedOn DEF ReviewApproves, GateVerifies, RowsOK
<1>4. ASSUME NEW p \in NextPhases(r), EnterPhase(r, p)
      PROVE  RowsOK' /\ CarriedOK'
  <2>1. p \in RunPhases /\ p \in Steps
    BY NextPhasesType
  <2>2. RowsOK'
    BY <1>4, <2>1 DEF EnterPhase, RowsOK, RunRow
  <2> DEFINE round == CASE p = "merge_gate"         -> 0
                        [] At(r, {"reviewing"})     -> worker[r].round + 1
                        [] OTHER                    -> worker[r].round
  <2>3. NeedsWord(r, p) \in BOOLEAN
    BY LifecycleAssumption DEF NeedsWord, CarriedOK
  <2>4. round \in 0..MaxRounds
    <3>1. worker[r].round \in 0..MaxRounds /\ MaxRounds \in Nat
      BY LifecycleAssumption DEF CarriedOK
    <3>2. CASE At(r, {"reviewing"})
      <4>1. worker[r].round < MaxRounds
        BY <3>2, Zenon DEF NextPhases, At
      <4> QED  BY <3>1, <3>2, <4>1
    <3>3. CASE ~At(r, {"reviewing"})
      BY <3>1, <3>3
    <3> QED  BY <3>2, <3>3
  <2>5. worker' = [worker EXCEPT ![r] = [at |-> p, ask |-> NeedsWord(r, p), round |-> round]]
    BY <1>4, Zenon DEF EnterPhase
  <2> HIDE DEF round
  <2>6. worker' \in [RunIds -> [at : Steps, ask : BOOLEAN, round : 0..MaxRounds]]
    BY <2>1, <2>3, <2>4, <2>5 DEF CarriedOK
  <2> QED  BY <1>4, <2>2, <2>6, BeatenType DEF EnterPhase, CarriedOK
<1>5. ASSUME NEW p \in PausePhases(r), EndPaused(r, p)
      PROVE  RowsOK' /\ CarriedOK'
  <2>1. RowsOK'
    BY <1>5, NextPhasesType, EndAndWalkType DEF EndPaused, Outcomes, TicketStatuses
  <2> QED  BY <1>5, <2>1, CarriedOn DEF EndPaused
<1>6. CASE WorkerAborts(r)
  BY <1>6, EndAbortedType, CarriedOn DEF WorkerAborts
<1>7. CASE MeetsEnd(r)
  BY <1>7, CarriedOn DEF MeetsEnd, RowsOK
<1>8. ASSUME NEW class, Fail(r, class)
      PROVE  RowsOK' /\ CarriedOK'
  BY <1>8, FailRowType, CarriedOn DEF Fail
<1> QED  BY <1>1, <1>2, <1>3, <1>4, <1>5, <1>6, <1>7, <1>8

\* The worker, from the gate to the landing.
LEMMA TypeGateSteps ==
  ASSUME RowsOK, CarriedOK, NEW r \in RunIds, TicketOf(r) \in Tickets,
         \/ HandOff(r) \/ RequeueDrift(r) \/ EndIfCanceled(r) \/ GateRefuses(r)
         \/ \E step \in ParkSteps : AskOperator(r, step)
         \/ Park(r) \/ Merge(r) \/ ReleaseMerged(r) \/ MirrorMerged(r)
  PROVE  RowsOK' /\ CarriedOK'
<1> USE DEF Steps, BusySteps, CloseSteps
<1>0. "merge_gate" \in RunPhases
  BY DEF RunPhases, GatePhases
<1>1. CASE HandOff(r)
  <2>1. RowsOK'
    BY <1>0, <1>1, EndAndWalkType DEF HandOff, Outcomes, TicketStatuses
  <2> QED  BY <1>1, <2>1, CarriedOn DEF HandOff
<1>2. CASE RequeueDrift(r)
  <2> DEFINE row == Released(r, "abandoned", "none")
             tk  == CountRequeue(Freed(r), row, FALSE)
  <2>1. row \in RunRow /\ tk \in TicketRow
    BY ReleasedType, FreedType, TicketRowTypes DEF Outcomes
  <2>2. Write(r, row, tk, "ready")
    BY <1>2 DEF RequeueDrift
  <2> HIDE DEF row, tk
  <2>3. RowsOK'
    BY <2>1, <2>2, WriteType DEF TicketStatuses
  <2> QED  BY <1>2, <2>3, CarriedOn DEF RequeueDrift
<1>3. CASE EndIfCanceled(r)
  <2>1. RowsOK'
    BY <1>3 DEF EndIfCanceled, RowsOK, RunRow, StopKinds, Aborts
  <2> QED  BY <1>3, <2>1, CarriedOn DEF EndIfCanceled
<1>4. CASE GateRefuses(r)
  <2>1. RowsOK'
    BY <1>4, BlockTicketType DEF GateRefuses, ParkKinds
  <2> QED  BY <1>4, <2>1, CarriedOn DEF GateRefuses
<1>5. ASSUME NEW step \in ParkSteps, AskOperator(r, step)
      PROVE  RowsOK' /\ CarriedOK'
  <2>1. ParkKind(step) \in ParkKinds
    BY DEF ParkKind, ParkKinds
  <2>2. RowsOK'
    BY <1>5, <2>1, BlockTicketType DEF AskOperator
  <2> QED  BY <1>5, <2>2, CarriedOn DEF AskOperator
<1>6. CASE Park(r)
  <2> DEFINE step == worker[r].at
  <2>1. ParkPhase(step) \in RunPhases /\ ParkKind(step) \in ParkKinds
    BY <1>6 DEF Park, At, ParkSteps, ParkPhase, ParkKind, ParkKinds, RunPhases, ParkedPhases
  <2>2. GiveBack(ticket[TicketOf(r)], r) \in TicketRow
    BY TicketRowTypes DEF RowsOK
  <2>3. RowsOK'
    <3>1. CASE UNCHANGED <<ticket, run>>
      BY <3>1 DEF RowsOK
    <3>2. CASE ~UNCHANGED <<ticket, run>>
      <4>1. /\ run' = [run EXCEPT ![r].phase = ParkPhase(step), ![r].park = ParkKind(step)]
            /\ ticket' = [ticket EXCEPT ![TicketOf(r)] = GiveBack(ticket[TicketOf(r)], r)]
        BY <1>6, <3>2, Zenon DEF Park
      <4>2. [run[r] EXCEPT !.phase = ParkPhase(step), !.park = ParkKind(step)] \in RunRow
        BY <2>1 DEF RowsOK, RunRow
      <4>3. run' = [run EXCEPT ![r] =
                      [run[r] EXCEPT !.phase = ParkPhase(step), !.park = ParkKind(step)]]
        BY <4>1 DEF RowsOK, RunRow
      <4> QED  BY <2>2, <4>1, <4>2, <4>3 DEF RowsOK
    <3> QED  BY <3>1, <3>2
  <2>4. \E next \in Steps : Goes(r, next)
    BY <1>6 DEF Park
  <2> QED  BY <1>6, <2>3, <2>4, CarriedOn DEF Park
<1>7. CASE Merge(r)
  BY <1>7, GoesType DEF Merge, RowsOK, CarriedOK
<1>8. CASE ReleaseMerged(r)
  <2>1. RowsOK'
    BY <1>8, ReleasedType, FreedType DEF ReleaseMerged, RowsOK, Outcomes
  <2> QED  BY <1>8, <2>1, CarriedOn DEF ReleaseMerged
<1>9. CASE MirrorMerged(r)
  <2>1. StatusAfter(TicketOf(r), "merged") \in TicketStatuses
    BY DEF StatusAfter, RowsOK, TicketRow, TicketStatuses
  <2>2. RowsOK'
    BY <1>9, <2>1 DEF MirrorMerged, RowsOK, TicketRow
  <2> QED  BY <1>9, <2>2, CarriedOn DEF MirrorMerged
<1> QED  BY <1>1, <1>2, <1>3, <1>4, <1>5, <1>6, <1>7, <1>8, <1>9

\* The close-out of a failed run, and a worker's death.
LEMMA TypeCloseSteps ==
  ASSUME RowsOK, CarriedOK, NEW r \in RunIds, TicketOf(r) \in Tickets,
         \/ Escalate(r) \/ BlockEscalated(r) \/ ParkSteeredCap(r)
         \/ Rerun(r) \/ Triage(r) \/ Amend(r) \/ Crash(r)
  PROVE  RowsOK' /\ CarriedOK'
<1> USE DEF Steps, CloseSteps
<1>1. CASE Escalate(r) \/ Crash(r)
  BY <1>1, CarriedOn DEF Escalate, Crash, RowsOK
<1>2. CASE BlockEscalated(r) \/ ParkSteeredCap(r)
  <2>1. RowsOK'
    BY <1>2, BlockTicketType DEF BlockEscalated, ParkSteeredCap, RowsOK, ParkKinds
  <2> QED  BY <1>2, <2>1, CarriedOn DEF BlockEscalated, ParkSteeredCap
<1>3. CASE Rerun(r) \/ Triage(r) \/ Amend(r)
  <2>1. \/ UNCHANGED <<ticket, run>>
        \/ \E who \in FactoryRequeues : Requeue(TicketOf(r), who)
    BY <1>3 DEF Rerun, Triage, Amend, FactoryRequeues
  <2>2. RowsOK'
    BY <2>1, RequeueType DEF RowsOK
  <2> QED  BY <1>3, <2>2, CarriedOn DEF Rerun, Triage, Amend
<1> QED  BY <1>1, <1>2, <1>3

\* Every step keeps the invariant.
LEMMA TypeStep ==
  ASSUME TypeOK, [Next]_vars
  PROVE  TypeOK'
<1> SUFFICES RowsOK' /\ CarriedOK'
  BY TypeParts
<1>0. RowsOK /\ CarriedOK
  BY TypeParts
<1>1. CASE UNCHANGED vars
  BY <1>0, <1>1 DEF vars, RowsOK, CarriedOK
<1>2. ASSUME NEW r \in RunIds, Claimed(r), RunStep(r)
      PROVE  RowsOK' /\ CarriedOK'
  <2>1. TicketOf(r) \in Tickets
    BY <1>2 DEF Claimed, TicketOf
  <2>2. CASE WorkerStep(r) \/ Crash(r)
    BY <1>0, <2>1, <2>2, TypeWorkSteps, TypeGateSteps, TypeCloseSteps DEF WorkerStep
  <2>3. CASE SupervisorStep(r) \/ CommandEnds(r) \/ Beat(r)
    BY <1>0, <2>1, <2>3, TypeSupervisorStep
  <2> QED  BY <1>2, <2>2, <2>3 DEF RunStep
<1>3. ASSUME NEW t \in Tickets, LoopStep(t) \/ OperatorStep(t) \/ BoardStep(t)
      PROVE  RowsOK' /\ CarriedOK'
  BY <1>0, <1>3, TypeLoopStep, TypeOperatorStep, TypeBoardStep
<1>4. CASE SupervisorDies
  BY <1>0, <1>4 DEF SupervisorDies, NoTrip, RowsOK, CarriedOK, RunPhases
<1> QED  BY <1>1, <1>2, <1>3, <1>4 DEF Next

\* Every reachable state is typed, for any number of tickets, runs and rounds: the
\* rows hold only phases, statuses, parks and stop requests the store's CHECKs admit,
\* and no worker counts past the cap of review rounds.
THEOREM TypeCorrect == Spec => []TypeOK
<1>1. Init => TypeOK
  BY TypeInit
<1>2. TypeOK /\ [Next]_vars => TypeOK'
  BY TypeStep
<1> QED  BY <1>1, <1>2, PTL DEF Spec

-----------------------------------------------------------------------------
\* The runs a ticket's lease columns name are runs of that ticket.
HeldIsClaimed ==
  \A t \in Tickets : \A r \in {ticket[t].active, ticket[t].last} :
    r # NoRun => run[r].ticket = t

\* release() writes endedAt and the terminal phase together.
EndedIsOver ==
  \A r \in RunIds : run[r].ended => Claimed(r) /\ run[r].phase \in EndedPhases

\* No worker goes on with a run that is parked: it would take the run out of its
\* park, and on without a lease.
ParkedIsLeft ==
  \A r \in RunIds : run[r].phase \in ParkedPhases => ~At(r, BusySteps \cup {"leased"})

LeaseInv == TypeOK /\ LeaseAgreement /\ HeldIsClaimed /\ EndedIsOver /\ ParkedIsLeft

-----------------------------------------------------------------------------
\* Rows that agree on what the lease depends on.
SameRun(a, b)   == /\ a.ticket = b.ticket /\ a.phase = b.phase
                   /\ a.ended = b.ended /\ a.outcome = b.outcome
SameLease(a, b) == a.active = b.active /\ a.last = b.last

Others(r) == \A i \in RunIds \ {r} : SameRun(run'[i], run[i])
Leases    == \A t \in Tickets : SameLease(ticket'[t], ticket[t])

\* The lease run r holds, if it does, is given back.
GivesBack(r) ==
  \A t \in Tickets : IF ticket[t].active = r
                     THEN ticket'[t].active = NoRun /\ ticket'[t].last = r
                     ELSE SameLease(ticket'[t], ticket[t])

\* The five effects.
Keeps == Leases /\ \A i \in RunIds : SameRun(run'[i], run[i])

Grants(t, r) ==
  /\ ~Claimed(r) /\ ticket[t].active = NoRun /\ \A i \in RunIds : i < r => Claimed(i)
  /\ run'[r] = NewRun(t) /\ Others(r)
  /\ \A u \in Tickets : IF u = t THEN ticket'[u].active = r /\ ticket'[u].last = ticket[u].last
                        ELSE SameLease(ticket'[u], ticket[u])

Enters(r) ==
  /\ ~run[r].ended /\ ~run'[r].ended
  /\ run'[r].ticket = run[r].ticket
  /\ {run[r].phase, run'[r].phase} \cap ParkedPhases = {}
  /\ Others(r) /\ Leases

Parks(r) ==
  /\ Claimed(r) /\ ~run[r].ended /\ ~run'[r].ended
  /\ run'[r].ticket = run[r].ticket /\ run'[r].phase \in ParkedPhases
  /\ worker'[r].at \notin BusySteps \cup {"leased"}
  /\ Others(r) /\ GivesBack(r)

Ends(r) ==
  /\ Claimed(r) /\ ~run[r].ended /\ run'[r].ended
  /\ run'[r].ticket = run[r].ticket /\ run'[r].phase \in EndedPhases
  /\ Others(r) /\ GivesBack(r)

Effect ==
  \/ Keeps
  \/ \E r \in RunIds : \/ Enters(r) \/ Parks(r) \/ Ends(r)
                       \/ \E t \in Tickets : Grants(t, r)

-----------------------------------------------------------------------------
\* release() of a run that has not ended ends it, and of one that has does nothing.
LEMMA EndRunEffect ==
  ASSUME NEW row \in RunRow, NEW outcome \in Outcomes,
         NEW resume \in RunPhases \cup {"none"},
         row.ended => row.phase \in EndedPhases
  PROVE  /\ row.ended => EndRun(row, outcome, resume) = row
         /\ ~row.ended => LET new == EndRun(row, outcome, resume)
                          IN  /\ new.ended /\ new.ticket = row.ticket
                              /\ new.phase \in EndedPhases
<1>1. CASE row.ended
  BY <1>1 DEF EndRun, Over
<1>2. CASE ~row.ended
  BY <1>2, TerminalPhaseType DEF EndRun, Over, RunRow
<1> QED  BY <1>1, <1>2

\* A walk leaves the lease columns as its ticket row has them, and the park kinds it
\* clears are nothing the lease depends on.
LEMMA WalkEffect ==
  ASSUME RowsOK, NEW t, NEW rows \in [RunIds -> RunRow], NEW tk \in TicketRow,
         NEW status \in TicketStatuses, Walk(t, rows, tk, status)
  PROVE  /\ \A i \in RunIds : SameRun(run'[i], rows[i])
         /\ \A u \in Tickets : SameLease(ticket'[u], IF u = t THEN tk ELSE ticket[u])
<1>1. \A i \in RunIds : SameRun(run'[i], rows[i])
  <2>1. \A row \in RunRow : SameRun([row EXCEPT !.park = "none"], row)
    BY DEF RunRow, SameRun
  <2> QED  BY <2>1 DEF Walk, SameRun
<1>2. SameLease(Walked(tk, status), tk)
  BY DEF Walked, TicketRow, SameLease
<1>3. \A u \in Tickets : SameLease(ticket'[u], IF u = t THEN tk ELSE ticket[u])
  BY <1>2 DEF Walk, RowsOK, SameLease
<1> QED  BY <1>1, <1>3

\* block_ticket() touches nothing the lease depends on.
LEMMA BlockTicketKeeps ==
  ASSUME RowsOK, NEW t \in Tickets, NEW kind, BlockTicket(t, kind)
  PROVE  Keeps
<1>1. CASE UNCHANGED <<ticket, run>>
  BY <1>1 DEF Keeps, Leases, SameRun, SameLease
<1>2. CASE ~UNCHANGED <<ticket, run>>
  <2>1. ticket' = [ticket EXCEPT ![t].status = "blocked_on_operator"]
    BY <1>2 DEF BlockTicket
  <2>2. run' = [r \in RunIds |-> IF r = Latest(t) THEN [run[r] EXCEPT !.park = kind]
                                 ELSE run[r]]
    BY <1>2 DEF BlockTicket
  <2> QED  BY <2>1, <2>2 DEF RowsOK, TicketRow, RunRow, Keeps, Leases, SameRun, SameLease
<1> QED  BY <1>1, <1>2

\* A row released, with the lease it holds given back, in whatever other columns the
\* two rows are changed: the run ends, or had ended and nothing happens.
LEMMA ReleaseEffect ==
  ASSUME LeaseInv, NEW r \in RunIds, Claimed(r), NEW outcome \in Outcomes,
         NEW resume \in RunPhases \cup {"none"},
         SameRun(run'[r], Released(r, outcome, resume)), Others(r),
         \A u \in Tickets :
           SameLease(ticket'[u], IF u = TicketOf(r) THEN Freed(r) ELSE ticket[u])
  PROVE  Keeps \/ Ends(r)
<1> USE DEF LeaseInv
<1>0. /\ run[r] \in RunRow /\ TicketOf(r) \in Tickets
      /\ run[r].ended => run[r].phase \in EndedPhases
      /\ ticket \in [Tickets -> TicketRow]
  BY DEF TypeOK, Claimed, TicketOf, EndedIsOver
<1>1. CASE run[r].ended
  <2>1. Released(r, outcome, resume) = run[r] /\ Freed(r) = ticket[TicketOf(r)]
    BY <1>0, <1>1, EndRunEffect DEF Released, Freed, Over
  <2>2. Keeps
    BY <2>1 DEF Keeps, Leases, Others, SameRun, SameLease
  <2> QED  BY <2>2
<1>2. CASE ~run[r].ended
  <2>1. /\ Released(r, outcome, resume).ended
        /\ Released(r, outcome, resume).ticket = run[r].ticket
        /\ Released(r, outcome, resume).phase \in EndedPhases
    BY <1>0, <1>2, EndRunEffect DEF Released
  <2>2. Freed(r) = GiveBack(ticket[TicketOf(r)], r)
    BY <1>2 DEF Freed, Over
  <2>3. \A u \in Tickets : ticket[u].active = r => u = TicketOf(r)
    BY RunIdsAreRuns DEF HeldIsClaimed, TicketOf
  <2>4. GivesBack(r)
    BY <1>0, <2>2, <2>3 DEF GivesBack, GiveBack, TicketRow, SameLease
  <2> QED  BY <1>2, <2>1, <2>4 DEF Ends, SameRun
<1> QED  BY <1>1, <1>2

\* The same, as the actions write it: with a walk of the run's ticket.
LEMMA WriteEffect ==
  ASSUME LeaseInv, NEW r \in RunIds, Claimed(r), NEW outcome \in Outcomes,
         NEW resume \in RunPhases \cup {"none"}, NEW row \in RunRow,
         NEW tk \in TicketRow, NEW status \in TicketStatuses,
         SameRun(row, Released(r, outcome, resume)), SameLease(tk, Freed(r)),
         Write(r, row, tk, status)
  PROVE  Keeps \/ Ends(r)
<1> DEFINE rows == [run EXCEPT ![r] = row]
<1>0. RowsOK /\ rows \in [RunIds -> RunRow]
  BY TypeParts DEF LeaseInv, RowsOK
<1>1. /\ \A i \in RunIds : SameRun(run'[i], rows[i])
      /\ \A u \in Tickets : SameLease(ticket'[u], IF u = TicketOf(r) THEN tk ELSE ticket[u])
  <2>1. Walk(TicketOf(r), rows, tk, status)
    BY DEF Write
  <2> HIDE DEF rows
  <2> QED  BY <1>0, <2>1, WalkEffect
<1>2. SameRun(run'[r], Released(r, outcome, resume)) /\ Others(r)
  BY <1>0, <1>1 DEF RowsOK, SameRun, Others
<1>3. \A u \in Tickets :
        SameLease(ticket'[u], IF u = TicketOf(r) THEN Freed(r) ELSE ticket[u])
  BY <1>1 DEF SameLease
<1> QED  BY <1>2, <1>3, ReleaseEffect

\* What else is written to a ticket row leaves its lease columns.
LEMMA TicketRowKeeps ==
  ASSUME NEW tk \in TicketRow
  PROVE  /\ SameLease(HumanActed(tk), tk)
         /\ \A row : SameLease(CountStrike(tk, row), tk)
         /\ \A row, human : SameLease(CountRequeue(tk, row, human), tk)
         /\ \A state : SameLease([tk EXCEPT !.board = state], tk)
         /\ \A helped : SameLease([tk EXCEPT !.helped = helped], tk)
  BY DEF HumanActed, CountStrike, CountRequeue, TicketRow, SameLease

\* What else is written to a run row leaves what the lease depends on.
LEMMA RunRowKeeps ==
  ASSUME NEW row \in RunRow
  PROVE  /\ \A stop : SameRun([row EXCEPT !.stop = stop], row)
         /\ \A approved : SameRun([row EXCEPT !.approved = approved], row)
         /\ \A resume, approved :
              SameRun([row EXCEPT !.resume = resume, !.approved = approved], row)
         /\ \A park, stop : SameRun([row EXCEPT !.park = park, !.stop = stop], row)
  BY DEF RunRow, SameRun

\* The run an idle ticket's last claim names: releasing it moves no lease.
LEMMA LastIsIdle ==
  ASSUME LeaseInv, NEW t \in Tickets, ticket[t].active = NoRun,
         NEW r \in RunIds, r = ticket[t].last
  PROVE  Claimed(r) /\ TicketOf(r) = t /\ Freed(r) = ticket[t]
<1>1. run[r].ticket = t
  BY RunIdsAreRuns DEF LeaseInv, HeldIsClaimed
<1>2. Freed(r) = ticket[t]
  BY <1>1, RunIdsAreRuns DEF Freed, GiveBack, TicketOf
<1> QED  BY <1>1, <1>2 DEF Claimed, TicketOf

\* A failed ending.
LEMMA FailRowEffect ==
  ASSUME LeaseInv, NEW r \in RunIds, Claimed(r), NEW class, FailRow(r, class)
  PROVE  Keeps \/ Ends(r)
<1>0. RowsOK /\ TicketOf(r) \in Tickets
  BY TypeParts DEF LeaseInv, Claimed, TicketOf
<1>1. Freed(r) \in TicketRow
  BY <1>0, FreedType
<1>2. SameRun(run'[r], Released(r, "failed", "none")) /\ Others(r)
  BY <1>0 DEF FailRow, RowsOK, SameRun, Others
<1>3. \A u \in Tickets :
        SameLease(ticket'[u], IF u = TicketOf(r) THEN Freed(r) ELSE ticket[u])
  <2>1. SameLease(CountStrike(Freed(r), run[r]), Freed(r))
    BY <1>1, TicketRowKeeps
  <2> QED  BY <1>0, <2>1 DEF FailRow, RowsOK, SameLease
<1> QED  BY <1>2, <1>3, ReleaseEffect DEF Outcomes

\* An aborted ending.
LEMMA EndAbortedEffect ==
  ASSUME LeaseInv, NEW r \in RunIds, Claimed(r), EndAborted(r)
  PROVE  Keeps \/ Ends(r)
<1>0. RowsOK /\ TicketOf(r) \in Tickets
  BY TypeParts DEF LeaseInv, Claimed, TicketOf
<1>1. Released(r, "abandoned", "none") \in RunRow /\ Freed(r) \in TicketRow
  BY <1>0, ReleasedType, FreedType DEF Outcomes
<1>2. PICK status \in TicketStatuses :
        Write(r, Released(r, "abandoned", "none"), Freed(r), status)
  BY DEF EndAborted, TicketStatuses
<1> QED  BY <1>1, <1>2, WriteEffect DEF Outcomes, SameRun, SameLease

-----------------------------------------------------------------------------
\* A step that leaves both tables.
LEMMA UnchangedKeeps ==
  ASSUME UNCHANGED <<ticket, run>>
  PROVE  Keeps
  BY DEF Keeps, Leases, SameRun, SameLease

\* A walk that changes nothing else, and a write of a run row the lease does not see.
LEMMA WalkKeeps ==
  ASSUME RowsOK, NEW t \in Tickets, NEW tk \in TicketRow, SameLease(tk, ticket[t]),
         NEW status \in TicketStatuses, Walk(t, run, tk, status)
  PROVE  Keeps
<1>1. /\ \A i \in RunIds : SameRun(run'[i], run[i])
      /\ \A u \in Tickets : SameLease(ticket'[u], IF u = t THEN tk ELSE ticket[u])
  BY WalkEffect DEF RowsOK
<1> QED  BY <1>1 DEF Keeps, Leases, SameLease

\* A write of a run's row and its ticket's that leaves what the lease is about
\* alone keeps the invariant.
LEMMA WriteKeeps ==
  ASSUME RowsOK, NEW t \in Tickets, NEW r \in RunIds, TicketOf(r) = t,
         NEW row \in RunRow, SameRun(row, run[r]),
         NEW tk \in TicketRow, SameLease(tk, ticket[t]),
         NEW status \in TicketStatuses, Write(r, row, tk, status)
  PROVE  Keeps
<1> DEFINE rows == [run EXCEPT ![r] = row]
<1>1. rows \in [RunIds -> RunRow] /\ Walk(t, rows, tk, status)
  BY DEF RowsOK, Write
<1>2. \A i \in RunIds : SameRun(rows[i], run[i])
  BY DEF RowsOK, SameRun
<1> HIDE DEF rows
<1>3. /\ \A i \in RunIds : SameRun(run'[i], rows[i])
      /\ \A u \in Tickets : SameLease(ticket'[u], IF u = t THEN tk ELSE ticket[u])
  BY <1>1, WalkEffect
<1> QED  BY <1>2, <1>3 DEF Keeps, Leases, SameRun, SameLease

\* requeue(), by whoever, ends the park it releases.
LEMMA RequeueEffect ==
  ASSUME LeaseInv, NEW t \in Tickets,
         NEW who \in FactoryRequeues \cup {"human"}, Requeue(t, who)
  PROVE  Keeps \/ \E r \in RunIds : Ends(r)
<1> DEFINE r   == ticket[t].last
           row == IF ReleasesPark(t) THEN EndRun(run[r], "abandoned", "none") ELSE run[r]
           new == [row EXCEPT !.approved = FALSE]
           cnt == CountRequeue(ticket[t], row, who = "human")
           tk  == [cnt EXCEPT !.helped = cnt.helped \cup ({who} \ {"human"})]
<1>0. RowsOK
  BY TypeParts DEF LeaseInv
<1>1. r \in RunIds /\ ticket[t].active = NoRun /\ ticket[t] \in TicketRow
  BY <1>0, LatestType DEF Requeue, RequeueAdmits, RowsOK
<1>2. Claimed(r) /\ TicketOf(r) = t /\ Freed(r) = ticket[t]
  BY <1>1, LastIsIdle
<1>3. row \in RunRow
  BY <1>0, <1>1, EndRunType DEF RowsOK, Outcomes
<1>4. new \in RunRow /\ SameRun(new, row)
  <2> HIDE DEF row
  <2> QED  BY <1>3, RunRowKeeps DEF RunRow
<1>5. cnt \in TicketRow /\ SameLease(cnt, ticket[t])
  BY <1>1, TicketRowTypes, TicketRowKeeps
<1>6. tk \in TicketRow /\ SameLease(tk, ticket[t])
  <2> HIDE DEF cnt
  <2> QED  BY <1>5, TicketRowKeeps DEF TicketRow, SameLease
<1>7. Write(r, new, tk, "ready")
  BY DEF Requeue
<1>8. CASE ReleasesPark(t)
  <2>1. SameRun(new, Released(r, "abandoned", "none"))
    BY <1>4, <1>8 DEF Released
  <2> HIDE DEF r, row, new, cnt, tk
  <2> QED  BY <1>1, <1>2, <1>4, <1>6, <1>7, <2>1, WriteEffect
             DEF Outcomes, TicketStatuses, SameLease
<1>9. CASE ~ReleasesPark(t)
  <2>1. SameRun(new, run[r])
    BY <1>4, <1>9
  <2> HIDE DEF r, row, new, cnt, tk
  <2> QED  BY <1>0, <1>1, <1>2, <1>4, <1>6, <1>7, <2>1, WriteKeeps DEF TicketStatuses
<1> QED  BY <1>8, <1>9

\* The operator's commands end a parked run, or nothing.
LEMMA OperatorEffect ==
  ASSUME LeaseInv, NEW t \in Tickets, OperatorStep(t)
  PROVE  Keeps \/ \E r \in RunIds : Ends(r)
<1> DEFINE acted == HumanActed(ticket[t])
<1>0. /\ RowsOK /\ ticket[t] \in TicketRow
      /\ acted \in TicketRow /\ SameLease(acted, ticket[t])
      /\ Latest(t) \in {NoRun} \cup RunIds /\ ticket[t].last \in {NoRun} \cup RunIds
  BY TypeParts, TicketRowTypes, TicketRowKeeps, LatestType DEF LeaseInv, RowsOK
<1>1. CASE RequeueByHuman(t)
  BY <1>1, RequeueEffect DEF RequeueByHuman
<1>2. CASE ApproveParked(t)
  <2> DEFINE r == ticket[t].last
             row == EndRun(run[r], "abandoned", "none")
             new == [row EXCEPT !.resume = "merge_gate", !.approved = TRUE]
  <2>1. r \in RunIds /\ ticket[t].active = NoRun
    BY <1>0, <1>2 DEF ApproveParked
  <2>2. Claimed(r) /\ TicketOf(r) = t /\ Freed(r) = ticket[t]
    BY <2>1, LastIsIdle
  <2>3. row \in RunRow /\ row = Released(r, "abandoned", "none")
    BY <1>0, <2>1, EndRunType DEF RowsOK, Outcomes, Released
  <2>4. new \in RunRow /\ SameRun(new, row)
    <3> HIDE DEF row
    <3> QED  BY <2>3, RunRowKeeps DEF RunRow, RunPhases, GatePhases
  <2>5. Write(r, new, acted, "ready")
    BY <1>2 DEF ApproveParked
  <2> HIDE DEF r, row, new, acted
  <2> QED  BY <1>0, <2>1, <2>2, <2>3, <2>4, <2>5, WriteEffect DEF Outcomes, TicketStatuses
<1>3. CASE Pause(t) \/ Abort(t)
  <2> DEFINE r == Latest(t)
  <2>1. PICK stop \in StopKinds : /\ run' = [run EXCEPT ![r].stop = stop]
                                  /\ ticket' = [ticket EXCEPT ![t] = acted]
    BY <1>3 DEF Pause, Abort, StopKinds, Aborts
  <2> HIDE DEF r, acted
  <2> QED  BY <1>0, <2>1 DEF Keeps, Leases, RowsOK, RunRow, SameRun, SameLease
<1>4. CASE ResumePaused(t)
  <2> DEFINE r == Latest(t)
             new == [run[r] EXCEPT !.park = "none", !.stop = "none"]
  <2>1. r \in RunIds
    BY <1>0, <1>4 DEF ResumePaused
  <2>2. Claimed(r) /\ TicketOf(r) = t
    BY <2>1, RunIdsAreRuns DEF Latest, LeaseInv, HeldIsClaimed, Claimed, TicketOf
  <2>3. new \in RunRow /\ SameRun(new, run[r])
    <3> DEFINE row == run[r]
    <3>1. row \in RunRow
      BY <1>0, <2>1 DEF RowsOK
    <3> HIDE DEF row
    <3>2. [row EXCEPT !.park = "none", !.stop = "none"] \in RunRow
      BY <3>1 DEF RunRow, ParkKinds, StopKinds
    <3>3. SameRun([row EXCEPT !.park = "none", !.stop = "none"], row)
      BY <3>1, RunRowKeeps
    <3> QED  BY <3>2, <3>3 DEF row
  <2>4. Write(r, new, acted, "ready")
    BY <1>4 DEF ResumePaused
  <2> HIDE DEF r, new, acted
  <2> QED  BY <1>0, <2>1, <2>2, <2>3, <2>4, WriteKeeps DEF TicketStatuses
<1>5. CASE CancelTicket(t)
  <2> DEFINE r      == ticket[t].last
             held   == ticket[t].active
             closed == [acted EXCEPT !.board = "Canceled"]
             idle   == [ticket[t] EXCEPT !.board = "Canceled"]
  <2>1. /\ closed \in TicketRow /\ SameLease(closed, ticket[t])
        /\ idle \in TicketRow /\ SameLease(idle, ticket[t])
    <3> HIDE DEF acted
    <3> QED  BY <1>0 DEF TicketRow, BoardStates, SameLease
  <2>2. ASSUME run' = [run EXCEPT ![held].stop = "cancel"],
               ticket' = [ticket EXCEPT ![t] = closed]
        PROVE  Keeps
    <3> HIDE DEF held, closed
    <3> QED  BY <1>0, <2>1, <2>2 DEF Keeps, Leases, RowsOK, RunRow, SameRun, SameLease
  <2>3. ASSUME r # NoRun, held = NoRun,
               Write(r, EndRun(run[r], "abandoned", "none"), closed, "abandoned")
        PROVE  \E i \in RunIds : Keeps \/ Ends(i)
    <3>1. r \in RunIds /\ ticket[t].active = NoRun
      BY <1>0, <2>3
    <3>2. Claimed(r) /\ TicketOf(r) = t /\ Freed(r) = ticket[t]
      BY <3>1, LastIsIdle
    <3>3. Released(r, "abandoned", "none") \in RunRow
      BY <1>0, <3>1, ReleasedType DEF Outcomes
    <3>4. Write(r, Released(r, "abandoned", "none"), closed, "abandoned")
      BY <2>3 DEF Released
    <3> HIDE DEF r, held, closed
    <3> QED  BY <2>1, <3>1, <3>2, <3>3, <3>4, WriteEffect
               DEF Outcomes, TicketStatuses, SameRun
  <2>4. ASSUME Walk(t, run, idle, "abandoned")
        PROVE  Keeps
    <3> HIDE DEF idle
    <3> QED  BY <1>0, <2>1, <2>4, WalkKeeps DEF TicketStatuses
  <2> QED  BY <1>5, <2>2, <2>3, <2>4 DEF CancelTicket
<1> QED  BY <1>1, <1>2, <1>3, <1>4, <1>5 DEF OperatorStep

\* The board closes a parked run, or nothing.
LEMMA BoardEffect ==
  ASSUME LeaseInv, NEW t \in Tickets, BoardStep(t)
  PROVE  Keeps \/ \E r \in RunIds : Ends(r)
<1>0. /\ RowsOK /\ ticket[t] \in TicketRow
      /\ ticket[t].last \in {NoRun} \cup RunIds
  BY TypeParts, LatestType DEF LeaseInv, RowsOK
<1>1. ASSUME NEW status, Listed(t, status)
      PROVE  Keeps
  BY <1>0, <1>1 DEF Listed, Keeps, Leases, RowsOK, TicketRow, SameRun, SameLease
<1>2. CASE \/ \E specced \in BOOLEAN : MirrorTask(t, specced)
           \/ WaitOnBlockers(t) \/ ParkUnlisted(t)
  BY <1>1, <1>2 DEF MirrorTask, WaitOnBlockers, ParkUnlisted
<1>3. ASSUME NEW r \in {NoRun} \cup RunIds, NEW stop,
             run' = [run EXCEPT ![r].stop = stop], UNCHANGED ticket
      PROVE  Keeps
  BY <1>0, <1>3 DEF Keeps, Leases, RowsOK, RunRow, SameRun, SameLease
<1>4. ticket[t].active \in {NoRun} \cup RunIds /\ SameLease(ticket[t], ticket[t])
  BY <1>0 DEF TicketRow, SameLease
<1>5. CASE Retire(t)
  <2>1. ASSUME Walk(t, run, ticket[t], "abandoned")
        PROVE  Keeps
    BY <1>0, <1>4, <2>1, WalkKeeps DEF TicketStatuses
  <2> QED  BY <1>3, <1>4, <1>5, <2>1 DEF Retire
<1>6. CASE AbortCanceled(t)
  BY <1>3, <1>4, <1>6 DEF AbortCanceled
<1>7. ASSUME NEW state, BoardCloses(t, state)
      PROVE  Keeps
  BY <1>0, <1>7 DEF BoardCloses, Keeps, Leases, RowsOK, TicketRow, SameRun, SameLease
<1>8. CASE ReconcileMirror(t)
  <2> DEFINE r      == ticket[t].last
             status == IF ticket[t].board = "Done" THEN "merged" ELSE "abandoned"
  <2>1. status \in TicketStatuses
    BY DEF TicketStatuses
  <2>2. ASSUME r # NoRun, ticket[t].active = NoRun,
               Write(r, EndRun(run[r], "abandoned", "none"), ticket[t], status)
        PROVE  Keeps \/ Ends(r)
    <3>1. r \in RunIds
      BY <1>0, <2>2
    <3>2. Claimed(r) /\ TicketOf(r) = t /\ Freed(r) = ticket[t]
      BY <2>2, <3>1, LastIsIdle
    <3>3. Released(r, "abandoned", "none") \in RunRow
      BY <1>0, <3>1, ReleasedType DEF Outcomes
    <3>4. Write(r, Released(r, "abandoned", "none"), ticket[t], status)
      BY <2>2 DEF Released
    <3> HIDE DEF r, status
    <3> QED  BY <1>0, <1>4, <2>1, <3>1, <3>2, <3>3, <3>4, WriteEffect
               DEF Outcomes, SameRun
  <2>3. ASSUME Walk(t, run, ticket[t], status)
        PROVE  Keeps
    <3> HIDE DEF status
    <3> QED  BY <1>0, <1>4, <2>1, <2>3, WalkKeeps
  <2> QED  BY <1>0, <1>8, <2>2, <2>3 DEF ReconcileMirror
<1> QED  BY <1>2, <1>5, <1>6, <1>7, <1>8 DEF BoardStep

\* The loop grants a lease, or nothing.
LEMMA LoopEffect ==
  ASSUME LeaseInv, NEW t \in Tickets, LoopStep(t)
  PROVE  Keeps \/ \E r \in RunIds : Grants(t, r)
<1>0. RowsOK
  BY TypeParts DEF LeaseInv
<1>1. CASE FindIdle(t) \/ FindStruckOut(t) \/ AdmitTicket(t) \/ FindUnparked(t)
  BY <1>1, UnchangedKeeps DEF FindIdle, FindStruckOut, AdmitTicket, FindUnparked
<1>2. CASE BlockStruckOut(t)
  BY <1>0, <1>2, BlockTicketKeeps DEF BlockStruckOut
<1>3. ASSUME NEW r \in RunIds, Claim(t, r)
      PROVE  Grants(t, r)
  BY <1>0, <1>3 DEF Claim, Grants, Others, RowsOK, TicketRow, SameRun, SameLease
<1> QED  BY <1>1, <1>2, <1>3 DEF LoopStep

\* The sweep, and a command that ends an aborted run.
LEMMA SupervisorEffect ==
  ASSUME LeaseInv, NEW r \in RunIds, Claimed(r),
         SupervisorStep(r) \/ CommandEnds(r) \/ Beat(r)
  PROVE  Keeps \/ Ends(r)
<1>0. RowsOK /\ TicketOf(r) \in Tickets
  BY TypeParts DEF LeaseInv, Claimed, TicketOf
<1>1. CASE \/ \E kind \in {"stale", "box"} : SampleTrip(r, kind)
           \/ SweepEscalates(r) \/ Beat(r)
  BY <1>1, UnchangedKeeps DEF SampleTrip, SweepEscalates, Beat
<1>2. CASE ActOnTrip(r)
  BY <1>2, UnchangedKeeps, FailRowEffect DEF ActOnTrip
<1>3. CASE SweepBlocks(r)
  BY <1>0, <1>3, BlockTicketKeeps DEF SweepBlocks
<1>4. CASE CommandEnds(r)
  BY <1>4, UnchangedKeeps, EndAbortedEffect DEF CommandEnds
<1> QED  BY <1>1, <1>2, <1>3, <1>4 DEF SupervisorStep

\* The worker's steps: each of the effects but the grant.
LEMMA WorkerEffect ==
  ASSUME LeaseInv, NEW r \in RunIds, Claimed(r), WorkerStep(r) \/ Crash(r)
  PROVE  Keeps \/ Enters(r) \/ Parks(r) \/ \E i \in RunIds : Ends(i)
<1>0. /\ RowsOK /\ TicketOf(r) \in Tickets /\ Freed(r) \in TicketRow
      /\ SameLease(Freed(r), Freed(r))
  BY TypeParts, FreedType DEF LeaseInv, Claimed, TicketOf, SameLease
<1>1. CASE \/ ReviewApproves(r) \/ GateVerifies(r) \/ MeetsEnd(r) \/ Merge(r)
           \/ Escalate(r) \/ Crash(r)
  BY <1>1, UnchangedKeeps DEF ReviewApproves, GateVerifies, MeetsEnd, Merge, Escalate, Crash
<1>2. CASE RefuseLease(r) \/ \E class : Fail(r, class)
  BY <1>2, FailRowEffect DEF RefuseLease, Fail
<1>3. CASE StartWork(r)
  <2>1. ASSUME ticket' = [ticket EXCEPT ![TicketOf(r)].status = "in_flight"], UNCHANGED run
        PROVE  Keeps
    BY <1>0, <2>1 DEF Keeps, Leases, RowsOK, TicketRow, SameRun, SameLease
  <2> QED  BY <1>3, <2>1, FailRowEffect DEF StartWork
<1>4. ASSUME NEW p \in NextPhases(r), EnterPhase(r, p)
      PROVE  Enters(r)
  <2>1. NextPhases(r) \subseteq {"working", "verifying", "reviewing", "addressing",
                                 "merge_gate", "merging"}
    BY Zenon DEF NextPhases
  <2>2. p \notin ParkedPhases
    BY <2>1 DEF ParkedPhases
  <2>3. At(r, BusySteps)
    BY <1>4 DEF NextPhases, At, BusySteps, WorkPhases, GatePhases
  <2>4. run[r].phase \notin ParkedPhases
    BY <2>3 DEF LeaseInv, ParkedIsLeft, At
  <2> QED  BY <1>0, <1>4, <2>2, <2>4
             DEF EnterPhase, Enters, Others, Leases, RowsOK, RunRow, SameRun, SameLease
<1>5. ASSUME NEW p \in PausePhases(r), EndPaused(r, p)
      PROVE  Keeps \/ Ends(r)
  <2>1. p \in RunPhases /\ Released(r, "paused", p) \in RunRow
    BY <1>0, NextPhasesType, ReleasedType DEF Outcomes
  <2> QED  BY <1>0, <1>5, <2>1, WriteEffect DEF EndPaused, Outcomes, TicketStatuses, SameRun
<1>6. CASE WorkerAborts(r)
  BY <1>6, EndAbortedEffect DEF WorkerAborts
<1>7. CASE HandOff(r)
  <2>1. "merge_gate" \in RunPhases
    BY DEF RunPhases, GatePhases
  <2>2. Released(r, "paused", "merge_gate") \in RunRow
    BY <1>0, <2>1, ReleasedType DEF Outcomes
  <2> QED  BY <1>0, <1>7, <2>1, <2>2, WriteEffect DEF HandOff, Outcomes, TicketStatuses, SameRun
<1>8. CASE RequeueDrift(r)
  <2> DEFINE row == Released(r, "abandoned", "none")
             tk  == CountRequeue(Freed(r), row, FALSE)
  <2>1. row \in RunRow /\ tk \in TicketRow /\ SameLease(tk, Freed(r))
    BY <1>0, ReleasedType, TicketRowTypes, TicketRowKeeps DEF Outcomes
  <2>2. Write(r, row, tk, "ready")
    BY <1>8 DEF RequeueDrift
  <2>3. SameRun(row, Released(r, "abandoned", "none"))
    BY DEF SameRun
  <2> HIDE DEF row, tk
  <2> QED  BY <2>1, <2>2, <2>3, WriteEffect DEF Outcomes, TicketStatuses
<1>9. CASE EndIfCanceled(r)
  BY <1>0, <1>9 DEF EndIfCanceled, Keeps, Leases, RowsOK, RunRow, SameRun, SameLease
<1>10. CASE \/ GateRefuses(r) \/ BlockEscalated(r) \/ ParkSteeredCap(r)
            \/ \E step \in ParkSteps : AskOperator(r, step)
  BY <1>0, <1>10, BlockTicketKeeps, UnchangedKeeps
     DEF GateRefuses, BlockEscalated, ParkSteeredCap, AskOperator
<1>11. CASE Park(r)
  <2> DEFINE step == worker[r].at
  <2>1. CASE UNCHANGED <<ticket, run>>
    BY <2>1, UnchangedKeeps
  <2>2. CASE ~UNCHANGED <<ticket, run>>
    <3>1. /\ ~run[r].ended
          /\ run' = [run EXCEPT ![r].phase = ParkPhase(step), ![r].park = ParkKind(step)]
          /\ ticket' = [ticket EXCEPT ![TicketOf(r)] = GiveBack(ticket[TicketOf(r)], r)]
          /\ Goes(r, IF step = "park_contradiction" THEN "amend" ELSE "gone")
      BY <1>11, <2>2, Zenon DEF Park
    <3>2. ParkPhase(step) \in ParkedPhases
      BY DEF ParkPhase, ParkedPhases
    <3>3. worker'[r].at \notin BusySteps \cup {"leased"}
      BY <3>1 DEF Goes, LeaseInv, TypeOK, NoWorker, BusySteps, WorkPhases, GatePhases
    <3>4. /\ run'[r].ticket = run[r].ticket /\ ~run'[r].ended
          /\ run'[r].phase = ParkPhase(step) /\ Others(r)
      BY <1>0, <3>1 DEF RowsOK, RunRow, Others, SameRun
    <3>5. \A u \in Tickets : ticket[u].active = r => u = TicketOf(r)
      BY RunIdsAreRuns DEF LeaseInv, HeldIsClaimed, TicketOf
    <3>6. GivesBack(r)
      BY <1>0, <3>1, <3>5 DEF GivesBack, GiveBack, RowsOK, TicketRow, SameLease
    <3> QED  BY <3>1, <3>2, <3>3, <3>4, <3>6 DEF Parks
  <2> QED  BY <2>1, <2>2
<1>12. CASE ReleaseMerged(r)
  <2>1. SameRun(run'[r], Released(r, "merged", "none")) /\ Others(r)
    BY <1>0, <1>12 DEF ReleaseMerged, RowsOK, SameRun, Others
  <2>2. \A u \in Tickets :
          SameLease(ticket'[u], IF u = TicketOf(r) THEN Freed(r) ELSE ticket[u])
    BY <1>0, <1>12 DEF ReleaseMerged, RowsOK, SameLease
  <2> QED  BY <2>1, <2>2, ReleaseEffect DEF Outcomes
<1>13. CASE MirrorMerged(r)
  BY <1>0, <1>13 DEF MirrorMerged, Keeps, Leases, RowsOK, TicketRow, SameRun, SameLease
<1>14. CASE Rerun(r) \/ Triage(r) \/ Amend(r)
  <2>1. \/ UNCHANGED <<ticket, run>>
        \/ \E who \in FactoryRequeues : Requeue(TicketOf(r), who)
    BY <1>14 DEF Rerun, Triage, Amend, FactoryRequeues
  <2> QED  BY <1>0, <2>1, UnchangedKeeps, RequeueEffect
<1> QED  BY <1>1, <1>2, <1>3, <1>4, <1>5, <1>6, <1>7, <1>8, <1>9, <1>10, <1>11,
            <1>12, <1>13, <1>14 DEF WorkerStep

\* Every step has one of the five effects.
LEMMA EffectOfStep ==
  ASSUME LeaseInv, [Next]_vars
  PROVE  Effect
<1>1. CASE UNCHANGED vars \/ SupervisorDies
  BY <1>1, UnchangedKeeps DEF vars, SupervisorDies, Effect
<1>2. ASSUME NEW r \in RunIds, Claimed(r), RunStep(r)
      PROVE  Effect
  BY <1>2, WorkerEffect, SupervisorEffect DEF RunStep, Effect
<1>3. ASSUME NEW t \in Tickets, LoopStep(t) \/ OperatorStep(t) \/ BoardStep(t)
      PROVE  Effect
  BY <1>3, LoopEffect, OperatorEffect, BoardEffect DEF Effect
<1> QED  BY <1>1, <1>2, <1>3 DEF Next

-----------------------------------------------------------------------------
\* A worker that works had worked, or has just been given its run.
LEMMA WorkersKeepOn ==
  ASSUME LeaseInv, [Next]_vars, NEW q \in RunIds,
         worker'[q].at \in BusySteps \cup {"leased"}
  PROVE  At(q, BusySteps \cup {"leased"}) \/ run'[q].phase = "claimed"
<1> DEFINE Working == BusySteps \cup {"leased"}
<1>0. worker \in [RunIds -> [at : Steps, ask : BOOLEAN, round : 0..MaxRounds]]
  BY DEF LeaseInv, TypeOK
<1>1. CASE UNCHANGED worker
  BY <1>1 DEF At
<1>2. ASSUME NEW r \in RunIds, NEW step, Goes(r, step), step \in Working => At(r, Working)
      PROVE  At(q, Working)
  <2>1. CASE q = r
    <3>1. worker'[r].at = step
      BY <1>0, <1>2 DEF Goes, NoWorker
    <3> QED  BY <1>2, <2>1, <3>1
  <2>2. CASE q # r
    BY <1>0, <1>2, <2>2 DEF Goes, At
  <2> QED  BY <2>1, <2>2
<1>3. ASSUME NEW r \in RunIds, NEW t \in Tickets, Claim(t, r)
      PROVE  At(q, Working) \/ run'[q].phase = "claimed"
  <2>1. CASE q = r
    BY <1>3, <2>1 DEF Claim, NewRun, LeaseInv, TypeOK
  <2>2. CASE q # r
    BY <1>0, <1>3, <2>2 DEF Claim, Goes, At
  <2> QED  BY <2>1, <2>2
<1>4. ASSUME NEW r \in RunIds, NEW p \in NextPhases(r), EnterPhase(r, p)
      PROVE  At(q, Working)
  <2>1. At(r, Working)
    BY <1>4 DEF NextPhases, At, BusySteps, WorkPhases, GatePhases
  <2>2. CASE q = r
    BY <2>1, <2>2
  <2>3. CASE q # r
    <3>1. worker'[q] = worker[q]
      BY <1>0, <1>4, <2>3 DEF EnterPhase
    <3> QED  BY <3>1 DEF At
  <2> QED  BY <2>2, <2>3
<1>5. ASSUME NEW r \in RunIds, RunStep(r), ~ \E p \in NextPhases(r) : EnterPhase(r, p)
      PROVE  UNCHANGED worker \/ \E step : Goes(r, step) /\ (step \in Working => At(r, Working))
  <2> USE DEF At, BusySteps, WorkPhases, GatePhases, ParkSteps
  <2>1. CASE RefuseLease(r) \/ StartWork(r) \/ ReviewApproves(r) \/ GateVerifies(r)
    BY <2>1 DEF RefuseLease, StartWork, ReviewApproves, GateVerifies
  <2>2. CASE \/ \E p \in PausePhases(r) : EndPaused(r, p)
             \/ WorkerAborts(r) \/ MeetsEnd(r) \/ \E class \in {"work", "infra"} : Fail(r, class)
    BY <2>2 DEF EndPaused, WorkerAborts, MeetsEnd, Fail
  <2>3. CASE HandOff(r) \/ RequeueDrift(r) \/ EndIfCanceled(r) \/ GateRefuses(r)
    BY <2>3 DEF HandOff, RequeueDrift, EndIfCanceled, GateRefuses
  <2>4. CASE \/ \E step \in ParkSteps : AskOperator(r, step)
             \/ Park(r) \/ Merge(r) \/ ReleaseMerged(r) \/ MirrorMerged(r)
    BY <2>4 DEF AskOperator, Park, Merge, ReleaseMerged, MirrorMerged
  <2>5. CASE \/ Escalate(r) \/ BlockEscalated(r) \/ ParkSteeredCap(r)
             \/ Rerun(r) \/ Triage(r) \/ Amend(r) \/ Crash(r)
    BY <2>5 DEF Escalate, BlockEscalated, ParkSteeredCap, Rerun, Triage, Amend, Crash
  <2>6. CASE Beat(r) \/ SupervisorStep(r) \/ CommandEnds(r)
    BY <2>6 DEF Beat, SupervisorStep, SampleTrip, ActOnTrip, SweepEscalates, SweepBlocks,
                CommandEnds
  <2> QED  BY <1>5, <2>1, <2>2, <2>3, <2>4, <2>5, <2>6 DEF RunStep, WorkerStep
<1>6. ASSUME NEW t \in Tickets, LoopStep(t) \/ OperatorStep(t) \/ BoardStep(t)
      PROVE  UNCHANGED worker \/ \E r \in RunIds : Claim(t, r)
  <2>1. CASE LoopStep(t)
    BY <2>1 DEF LoopStep, FindIdle, FindStruckOut, BlockStruckOut, AdmitTicket, FindUnparked
  <2>2. CASE OperatorStep(t)
    BY <2>2 DEF OperatorStep, RequeueByHuman, ApproveParked, Pause, ResumePaused, Abort,
                CancelTicket
  <2>3. CASE BoardStep(t)
    BY <2>3 DEF BoardStep, MirrorTask, Listed, WaitOnBlockers, ParkUnlisted, Retire,
                BoardCloses, ReconcileMirror, AbortCanceled
  <2> QED  BY <1>6, <2>1, <2>2, <2>3
<1> HIDE DEF Working
<1>7. At(q, Working) \/ run'[q].phase = "claimed"
  <2>1. CASE UNCHANGED vars \/ SupervisorDies
    BY <1>1, <2>1 DEF vars, SupervisorDies, Working
  <2>2. CASE \E r \in RunIds : Claimed(r) /\ RunStep(r)
    BY <1>1, <1>2, <1>4, <1>5, <2>2 DEF Working
  <2>3. CASE \E t \in Tickets : LoopStep(t) \/ OperatorStep(t) \/ BoardStep(t)
    BY <1>1, <1>3, <1>6, <2>3 DEF Working
  <2> QED  BY <2>1, <2>2, <2>3 DEF Next
<1> QED  BY <1>7 DEF Working

\* The lease part of the invariant is kept by each of the effects.
LEMMA LeaseKept ==
  ASSUME LeaseInv, TypeOK', Effect
  PROVE  LeaseAgreement' /\ HeldIsClaimed' /\ EndedIsOver'
<1>0. /\ \A t \in Tickets : /\ ticket[t].active \in {NoRun} \cup RunIds
                            /\ ticket[t].last \in {NoRun} \cup RunIds
      /\ NoRun \notin RunIds
  BY RunIdsAreRuns DEF LeaseInv, TypeOK, TicketRow
<1> USE DEF LeaseInv, LeaseAgreement, HeldIsClaimed, EndedIsOver, Claimed, TicketOf,
            SameRun, SameLease
<1>1. CASE Keeps
  BY <1>0, <1>1 DEF Keeps, Leases
<1>2. ASSUME NEW r \in RunIds, NEW t \in Tickets, Grants(t, r)
      PROVE  LeaseAgreement' /\ HeldIsClaimed' /\ EndedIsOver'
  <2>1. /\ run'[r].ticket = t /\ ~run'[r].ended /\ run'[r].phase = "claimed"
        /\ "claimed" \notin ParkedPhases
    BY <1>2 DEF Grants, NewRun, ParkedPhases
  <2>2. HeldIsClaimed'
    BY <1>0, <1>2, <2>1 DEF Grants, Others
  <2>3. EndedIsOver'
    BY <1>2, <2>1 DEF Grants, Others
  <2>4. LeaseAgreement'
    BY <1>0, <1>2, <2>1 DEF Grants, Others
  <2> QED  BY <2>2, <2>3, <2>4
<1>3. ASSUME NEW r \in RunIds, Enters(r)
      PROVE  LeaseAgreement' /\ HeldIsClaimed' /\ EndedIsOver'
  <2>1. HeldIsClaimed' /\ EndedIsOver'
    BY <1>0, <1>3 DEF Enters, Others, Leases
  <2>2. LeaseAgreement'
    BY <1>0, <1>3 DEF Enters, Others, Leases
  <2> QED  BY <2>1, <2>2
<1>4. ASSUME NEW r \in RunIds, Parks(r) \/ Ends(r)
      PROVE  LeaseAgreement' /\ HeldIsClaimed' /\ EndedIsOver'
  <2>1. HeldIsClaimed'
    BY <1>0, <1>4 DEF Parks, Ends, Others, GivesBack
  <2>2. EndedIsOver'
    BY <1>4 DEF Parks, Ends, Others
  <2>3. LeaseAgreement'
    BY <1>0, <1>4 DEF Parks, Ends, Others, GivesBack
  <2> QED  BY <2>1, <2>2, <2>3
<1> QED  BY <1>1, <1>2, <1>3, <1>4 DEF Effect

\* No step lets a worker go on with a parked run.
LEMMA ParkedStep ==
  ASSUME LeaseInv, [Next]_vars, Effect
  PROVE  ParkedIsLeft'
<1> SUFFICES ASSUME NEW q \in RunIds, run'[q].phase \in ParkedPhases,
                    worker'[q].at \in BusySteps \cup {"leased"}
             PROVE  FALSE
  BY DEF ParkedIsLeft, At
<1>1. At(q, BusySteps \cup {"leased"})
  BY WorkersKeepOn DEF ParkedPhases
<1>2. run[q].phase \notin ParkedPhases
  BY <1>1 DEF LeaseInv, ParkedIsLeft
<1>3. run'[q].phase # run[q].phase
  BY <1>2
<1>4. CASE Keeps
  BY <1>3, <1>4 DEF Keeps, SameRun
<1>5. ASSUME NEW r \in RunIds, \/ Enters(r) \/ Parks(r) \/ Ends(r)
                               \/ \E t \in Tickets : Grants(t, r)
      PROVE  FALSE
  <2>1. r = q
    BY <1>3, <1>5 DEF Enters, Parks, Ends, Grants, Others, SameRun
  <2>2. CASE Parks(r)
    BY <2>1, <2>2 DEF Parks
  <2>3. CASE Enters(r)
    BY <2>1, <2>3 DEF Enters
  <2>4. CASE Ends(r)
    BY <2>1, <2>4 DEF Ends, EndedPhases, ParkedPhases
  <2>5. CASE \E t \in Tickets : Grants(t, r)
    BY <2>1, <2>5 DEF Grants, NewRun, ParkedPhases
  <2> QED  BY <1>5, <2>2, <2>3, <2>4, <2>5
<1> QED  BY <1>4, <1>5 DEF Effect

\* The first state: no run is claimed and no lease is held.
LEMMA LeaseInit ==
  ASSUME Init
  PROVE  LeaseInv
<1>1. TypeOK
  BY TypeInit
<1>2. \A r \in RunIds : ~Claimed(r) /\ ~run[r].ended /\ run[r].phase = "claimed"
  BY RowsAssumption DEF Init, NewRun, Claimed
<1>3. \A t \in Tickets : ticket[t].active = NoRun /\ ticket[t].last = NoRun
  BY DEF Init, NewTicket
<1> QED  BY <1>1, <1>2, <1>3
           DEF LeaseInv, LeaseAgreement, HeldIsClaimed, EndedIsOver, ParkedIsLeft, ParkedPhases

\* Every step of the program keeps the lease invariant.
LEMMA LeaseStep ==
  ASSUME LeaseInv, [Next]_vars
  PROVE  LeaseInv'
<1>1. TypeOK'
  BY TypeStep DEF LeaseInv
<1>2. Effect
  BY EffectOfStep
<1>3. LeaseAgreement' /\ HeldIsClaimed' /\ EndedIsOver'
  BY <1>1, <1>2, LeaseKept
<1>4. ParkedIsLeft'
  BY <1>2, ParkedStep
<1> QED  BY <1>1, <1>3, <1>4 DEF LeaseInv

\* The inductive invariant holds of every reachable state.
THEOREM LeaseInvariant == Spec => []LeaseInv
<1>1. Init => LeaseInv
  BY LeaseInit
<1>2. LeaseInv /\ [Next]_vars => LeaseInv'
  BY LeaseStep
<1> QED  BY <1>1, <1>2, PTL DEF Spec

\* A ticket's lease names its one run at work, whoever of workers, sweep, commands and
\* board writes the rows and in whatever order, for any number of tickets and runs.
THEOREM LeaseCorrect == Spec => []LeaseAgreement
<1>1. LeaseInv => LeaseAgreement
  BY DEF LeaseInv
<1> QED  BY <1>1, LeaseInvariant, PTL

-----------------------------------------------------------------------------
\* What each effect does to a run that has ended: nothing.
LEMMA EndedStep ==
  ASSUME LeaseInv, [Next]_vars, NEW r \in RunIds, run[r].ended
  PROVE  SameRun(run'[r], run[r])
<1>1. CASE Keeps
  BY <1>1 DEF Keeps
<1>2. ASSUME NEW q \in RunIds, Enters(q) \/ Parks(q) \/ Ends(q)
      PROVE  SameRun(run'[r], run[r])
  <2>1. q # r
    BY <1>2 DEF Enters, Parks, Ends
  <2> QED  BY <1>2, <2>1 DEF Enters, Parks, Ends, Others
<1>3. ASSUME NEW q \in RunIds, NEW t \in Tickets, Grants(t, q)
      PROVE  SameRun(run'[r], run[r])
  <2>1. q # r
    BY <1>3 DEF Grants, LeaseInv, EndedIsOver
  <2> QED  BY <1>3, <2>1 DEF Grants, Others
<1> QED  BY <1>1, <1>2, <1>3, EffectOfStep DEF Effect

\* A run that has ended keeps its ending for good, under every interleaving of the
\* worker, the sweep, an abort command and the reconcile passes that release() it.
THEOREM EndingsFinal == Spec => EndingsAreFinal
<1> DEFINE Kept == \A r \in RunIds : run[r].ended =>
                     /\ run'[r].ended
                     /\ run'[r].outcome = run[r].outcome
                     /\ run'[r].phase = run[r].phase
                     /\ run'[r].ticket = run[r].ticket
<1>1. LeaseInv /\ [Next]_vars => Kept
  BY EndedStep DEF SameRun
<1>2. LeaseInv /\ [Next]_vars => [Kept]_vars
  BY <1>1
<1> HIDE DEF Kept
<1>3. Spec => [][Kept]_vars
  BY <1>2, LeaseInvariant, PTL DEF Spec
<1> QED  BY <1>3 DEF EndingsAreFinal, Kept

-----------------------------------------------------------------------------
\* A run granted is one that had no ticket.
LEMMA GrantMaps ==
  ASSUME LeaseInv, NEW t \in Tickets, NEW r \in RunIds, Grants(t, r)
  PROVE  Lease!Grant(t, r)
<1> USE DEF SameRun, SameLease
<1>1. run[r].ticket = NoTicket
  BY DEF Grants, Claimed, LeaseInv, TypeOK, RunRow
<1>2. [u \in Tickets |-> ticket'[u].active] = [[u \in Tickets |-> ticket[u].active] EXCEPT ![t] = r]
  BY DEF Grants
<1>3. [u \in Tickets |-> ticket'[u].last] = [u \in Tickets |-> ticket[u].last]
  BY DEF Grants
<1>4. [i \in RunIds |-> run'[i].ticket] = [[i \in RunIds |-> run[i].ticket] EXCEPT ![r] = t]
  <2>1. \A i \in RunIds : run'[i].ticket = IF i = r THEN t ELSE run[i].ticket
    BY DEF Grants, Others, NewRun
  <2> QED  BY <2>1
<1>5. ticket[t].active = NoRun
  BY DEF Grants
<1> QED  BY <1>1, <1>2, <1>3, <1>4, <1>5 DEF Lease!Grant

\* A run that parks or ends gives back the lease it holds; a run that ends out of a
\* park holds none.
LEMMA GiveBackMaps ==
  ASSUME LeaseInv, NEW r \in RunIds, Parks(r) \/ Ends(r)
  PROVE  (\E t \in Tickets : Lease!GiveBack(t)) \/ UNCHANGED Lease!vars
<1> USE DEF SameRun, SameLease
<1>1. GivesBack(r)
  BY DEF Parks, Ends
<1>2. [i \in RunIds |-> run'[i].ticket] = [i \in RunIds |-> run[i].ticket]
  BY DEF Parks, Ends, Others
<1>3. ASSUME NEW t \in Tickets, ticket[t].active = r
      PROVE  Lease!GiveBack(t)
  <2>1. \A u \in Tickets : ticket[u].active = r => u = t
    BY <1>3, RunIdsAreRuns DEF LeaseInv, HeldIsClaimed
  <2>2. [u \in Tickets |-> ticket'[u].active]
          = [[u \in Tickets |-> ticket[u].active] EXCEPT ![t] = NoRun]
    BY <1>1, <1>3, <2>1 DEF GivesBack
  <2>3. [u \in Tickets |-> ticket'[u].last]
          = [[u \in Tickets |-> ticket[u].last] EXCEPT ![t] = r]
    BY <1>1, <1>3, <2>1 DEF GivesBack
  <2>4. r # NoRun
    BY RunIdsAreRuns
  <2> QED  BY <1>2, <1>3, <2>2, <2>3, <2>4 DEF Lease!GiveBack
<1>4. CASE \A t \in Tickets : ticket[t].active # r
  BY <1>1, <1>2, <1>4 DEF GivesBack, Lease!vars
<1> QED  BY <1>3, <1>4

\* The lifecycle implements the abstract lease: what claims, parks, releases, sweeps
\* and commands do to the rows is, of the lease, to grant it to a new run, to give it
\* back, or nothing.
THEOREM LeaseRefined == Spec => ImplementsLease
<1>1. Init => Lease!Init
  BY DEF Init, NewTicket, NewRun, Lease!Init
<1>2. LeaseInv /\ [Next]_vars => [Lease!Next]_(Lease!vars)
  <2> SUFFICES ASSUME LeaseInv, [Next]_vars
               PROVE  Lease!Next \/ UNCHANGED Lease!vars
    OBVIOUS
  <2>1. CASE Keeps
    BY <2>1 DEF Keeps, Leases, SameRun, SameLease, Lease!vars
  <2>2. ASSUME NEW r \in RunIds, Enters(r)
        PROVE  UNCHANGED Lease!vars
    BY <2>2 DEF Enters, Others, Leases, SameRun, SameLease, Lease!vars
  <2>3. ASSUME NEW r \in RunIds, Parks(r) \/ Ends(r)
        PROVE  Lease!Next \/ UNCHANGED Lease!vars
    BY <2>3, GiveBackMaps DEF Lease!Next
  <2>4. ASSUME NEW r \in RunIds, NEW t \in Tickets, Grants(t, r)
        PROVE  Lease!Next
    BY <2>4, GrantMaps DEF Lease!Next
  <2> QED  BY <2>1, <2>2, <2>3, <2>4, EffectOfStep DEF Effect
<1> QED  BY <1>1, <1>2, LeaseInvariant, PTL DEF Spec, ImplementsLease, Lease!Spec

=============================================================================
