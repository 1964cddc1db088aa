--------------------------- MODULE LifecycleLanding ---------------------------
(***************************************************************************)
(* What reaches main, and what the rows say of it.  Every step moves each  *)
(* run in one of fourteen ways (RunMoves) and each ticket's status in one  *)
(* of six (StatusMoves), whoever takes it; the theorems on landings, stops *)
(* and close-outs are proved from those moves and from the lease, those on *)
(* struck-out tickets from the failures that a ticket counts besides.      *)
(***************************************************************************)
EXTENDS LifecycleLease

\* Rows that agree on every column but the park kind, which a walk of the ticket
\* or a question on it writes to runs that take no part in the step.
SameRow(a, b) == /\ SameRun(a, b) /\ a.stop = b.stop
                 /\ a.resume = b.resume /\ a.approved = b.approved
SameCore(a, b) == SameRun(a, b) /\ a.stop = b.stop

\* A worker lets go of its run's code path: it is done or dead, or it has only the
\* close-out of the run left.  After a park only an amendment is.
Quits(i) ==
  \/ At(i, LiveSteps) /\ worker'[i].at \in {"gone", "dead"}
  \/ /\ At(i, LiveSteps \ {"amend"})
     /\ worker'[i].at \in (CloseSteps \ {"amend"}) \cup {"gate_failed"}
StaysOrQuits(i) == worker'[i] = worker[i] \/ Quits(i)

\* release() of a run that has not ended.
EndsAs(i, outcome) ==
  /\ ~run[i].ended /\ run'[i].ended
  /\ run'[i].ticket = run[i].ticket /\ run'[i].stop = run[i].stop
  /\ run'[i].outcome = outcome /\ run'[i].phase = TerminalPhase(outcome)

\* The supervisor has sampled the run as silent or overlong.
Tripped(i) == trip[i].kind \in {"stale", "box"}

\* The moves of one run.
Rests(i)      == SameCore(run'[i], run[i]) /\ StaysOrQuits(i)
StartsOn(i)   == /\ At(i, {"leased"}) /\ worker'[i].at = "start"
                 /\ ticket[TicketOf(i)].status = "ready"
                 /\ ticket'[TicketOf(i)].status = "in_flight"
                 /\ SameCore(run'[i], run[i])
Advances(i)   == /\ ~run[i].ended /\ SameCore(run'[i], run[i])
                 /\ worker'[i].ask = worker[i].ask
                 /\ \/ At(i, {"reviewing"}) /\ worker'[i].at = "approved"
                    \/ At(i, {"merge_gate"}) /\ worker'[i].at = "gate_ok"
EntersNext(i) == \E p \in NextPhases(i) : EnterPhase(i, p)
Asks(i)       == /\ SameCore(run'[i], run[i])
                 /\ ticket'[TicketOf(i)].status # "in_flight"
                 /\ \E step \in ParkSteps :
                      /\ At(i, ParkFrom(step)) /\ worker'[i].at = step
                      /\ step = "park_approval" => worker[i].ask
ParksNow(i)   == /\ At(i, ParkSteps) /\ worker'[i].at \in {"gone", "amend"}
                 /\ ~run[i].ended /\ ~run'[i].ended
                 /\ run'[i].phase = ParkPhase(worker[i].at)
                 /\ run'[i].ticket = run[i].ticket /\ run'[i].stop = run[i].stop
                 /\ run'[i].outcome = run[i].outcome
                 /\ run'[i].park = ParkKind(worker[i].at)
Lands(i)      == /\ Claimed(i) /\ i \in landed'
                 /\ At(i, {"merging"}) /\ worker'[i].at = "landed"
                 /\ SameCore(run'[i], run[i])
Ships(i)      == /\ At(i, {"landed"}) /\ worker'[i].at = "shipped"
                 /\ EndsAs(i, "merged") \/ (run[i].ended /\ SameCore(run'[i], run[i]))
Fails(i)      == /\ EndsAs(i, "failed") /\ StaysOrQuits(i)
                 /\ Quits(i) \/ Tripped(i)
GivesUp(i)    == /\ At(i, BusySteps) /\ Quits(i)
                 /\ \E outcome \in {"paused", "abandoned"} : EndsAs(i, outcome)
IsClosed(i)   == /\ i \in commanded \/ run[i].phase \in ParkedPhases
                 /\ EndsAs(i, "abandoned") /\ StaysOrQuits(i)
IsStopped(i)  == /\ ~run[i].ended /\ SameRun(run'[i], run[i])
                 /\ Weight[run'[i].stop] >= Weight[run[i].stop]
                 /\ \/ worker'[i] = worker[i]
                    \/ /\ At(i, {"gate_ok"}) /\ worker'[i].at = "canceled"
                       /\ worker'[i].ask = worker[i].ask
IsResumed(i)  == /\ run[i].outcome = "paused" /\ SameRun(run'[i], run[i])
                 /\ worker'[i] = worker[i]
IsGranted(i)  == /\ ~Claimed(i) /\ worker'[i].at = "leased"
                 /\ \E t \in Tickets : /\ run'[i] = NewRun(t)
                                       /\ StoreBoard => ticket[t].status = "ready"

RunMoves(i) ==
  \/ Rests(i) \/ StartsOn(i) \/ Advances(i) \/ EntersNext(i) \/ Asks(i)
  \/ ParksNow(i) \/ Lands(i) \/ Ships(i) \/ Fails(i) \/ GivesUp(i) \/ IsClosed(i)
  \/ IsStopped(i) \/ IsResumed(i) \/ IsGranted(i)

-----------------------------------------------------------------------------
\* The ways back to ready: a worker hands its run off or requeues a drifted ticket,
\* the ticket's last run failed, was aborted or is released from its park, or its
\* newest run had paused and is resumed.
HandsBack(u, r) == /\ Claimed(r) /\ TicketOf(r) = u
                   /\ Pool \/ StoreBoard
                   /\ At(r, {"approved", "gate_ok"}) /\ worker'[r].at = "gone"
Reopens(u, r)   == /\ ticket[u].active = NoRun /\ r = ticket[u].last
                   /\ \/ run[r].outcome \in {"failed", "rejected"}
                      \/ run[r].outcome = "abandoned" /\ Aborted(r)
                      \/ run[r].phase = "awaiting_merge_approval" /\ run'[r].ended
                      \/ run[r].phase = "blocked_on_operator" /\ run[r].park = "contradiction"
                         /\ run'[r].ended
Resumes(u, r)   == r = Latest(u) /\ run[r].outcome = "paused"

Unlisted == {"needs_spec", "ready", "blocked_on_deps"}

StatusMoves(u) ==
  LET s == ticket[u].status
      n == ticket'[u].status
  IN  \/ n = s
      \/ n \in {"blocked_on_operator", "abandoned"}
      \/ /\ n = "merged"
         /\ \/ ticket[u].board = "Done"
            \/ \E r \in RunIds : TicketOf(r) = u /\ At(r, {"shipped"})
      \/ s = "ready" /\ n = "in_flight" /\ \E r \in RunIds : TicketOf(r) = u /\ At(r, {"leased"})
      \/ {s, n} \subseteq Unlisted
      \/ n = "ready" /\ \E r \in RunIds : HandsBack(u, r) \/ Reopens(u, r) \/ Resumes(u, r)

\* Whose step changes the status of a ticket that is being worked: nobody's while
\* its lease is held but a worker's of one of its runs, of who ends one of them, or a
\* loop's that found it struck out.
Actor(u) ==
  \/ ticket[u].active = NoRun
  \/ run[Latest(u)].outcome = "paused"
  \/ \E q \in RunIds :
       /\ TicketOf(q) = u
       /\ \/ At(q, LiveSteps \ {"amend"}) /\ worker'[q] # worker[q]
          \/ q \in commanded
          \/ trip[q].kind = "blocking"
  \/ <<u, "struck">> \in admitted /\ ticket'[u].status = "blocked_on_operator"
MovedBy(u) == \/ ticket'[u].status = ticket[u].status
              \/ ticket[u].status \in Unlisted
              \/ Actor(u)

\* A board that shows a ticket done shows it so for good.
BoardMoves(u) == ticket[u].board = "Done" => ticket'[u].board = "Done"

TicketMoves(u) == StatusMoves(u) /\ MovedBy(u) /\ BoardMoves(u)

\* What else changes of a run: an approval is taken back of a ticket's newest run
\* only, a question is recorded on a run that parks or as its ticket is blocked.
RecordMoves(i) ==
  /\ run[i].approved => run'[i].approved \/ ~Claimed(i) \/ i = Latest(TicketOf(i))
  /\ \/ run'[i].park \in {run[i].park, "none"} \/ ParksNow(i) \/ ~Claimed(i)
     \/ ticket[TicketOf(i)].status \in {"in_flight", "blocked_on_deps"}
  /\ i \in landed => i \in landed'
  /\ i \in landed' => i \in landed \/ Lands(i)
  /\ i \in commanded' =>
       i \in commanded \/ (Claimed(i) /\ WorkerGone(i) /\ IsStopped(i) /\ worker'[i] = worker[i])

\* What a step does to the rows of who has no part in it.
RowAside(i) ==
  /\ SameRow(run'[i], run[i])
  /\ \/ run'[i].park \in {run[i].park, "none"} \/ ~Claimed(i)
     \/ ticket[TicketOf(i)].status \in {"in_flight", "blocked_on_deps"}
TicketAside(u) == /\ ticket'[u].status = ticket[u].status
                  /\ ticket'[u].board = ticket[u].board

MindsOwn(i) == /\ worker'[i] = worker[i]
               /\ i \in landed' <=> i \in landed
               /\ i \in commanded' => i \in commanded

Moves == /\ \A i \in RunIds : RunMoves(i) /\ RecordMoves(i)
         /\ \A u \in Tickets : TicketMoves(u)

-----------------------------------------------------------------------------
\* A worker's step moves no other worker; on the way to the merge it keeps what the
\* worker carries.
LEMMA GoesMoves ==
  ASSUME TypeOK, NEW r \in RunIds, NEW step, Goes(r, step)
  PROVE  /\ worker'[r].at = step
         /\ step \in BusySteps => worker'[r].ask = worker[r].ask
         /\ \A i \in RunIds \ {r} : worker'[i] = worker[i]
<1>1. worker' = [worker EXCEPT ![r] = IF step \in BusySteps
                                      THEN [worker[r] EXCEPT !.at = step]
                                      ELSE [NoWorker EXCEPT !.at = step]]
  BY Zenon DEF Goes
<1>2. worker \in [RunIds -> [at : Steps, ask : BOOLEAN, round : 0..MaxRounds]]
  BY DEF TypeOK
<1> QED  BY <1>1, <1>2 DEF NoWorker

\* A worker that quits.
LEMMA GoesQuits ==
  ASSUME TypeOK, NEW r \in RunIds, NEW step, Goes(r, step),
         \/ At(r, LiveSteps) /\ step \in {"gone", "dead"}
         \/ At(r, LiveSteps \ {"amend"})
              /\ step \in {"refused", "barring", "closed", "blocking", "steered", "rerun",
                           "triage", "gate_failed"}
  PROVE  Quits(r)
  BY GoesMoves DEF Quits, CloseSteps

\* release(), column by column.
LEMMA EndRunMoves ==
  ASSUME NEW row \in RunRow, NEW outcome \in Outcomes,
         NEW resume \in RunPhases \cup {"none"},
         row.ended => row.phase \in EndedPhases
  PROVE  LET new == EndRun(row, outcome, resume)
         IN  /\ row.ended => new = row
             /\ ~row.ended => /\ new.ended /\ new.ticket = row.ticket
                              /\ new.stop = row.stop /\ new.outcome = outcome
                              /\ new.phase = TerminalPhase(outcome)
             /\ new.approved = row.approved /\ new.park = row.park
<1>1. CASE row.ended
  BY <1>1 DEF EndRun, Over
<1>2. CASE ~row.ended
  BY <1>2 DEF EndRun, Over, RunRow
<1> QED  BY <1>1, <1>2

\* The rows a walk leaves: as given but for park kinds cleared, and the status.
LEMMA WalkMoves ==
  ASSUME RowsOK, NEW t \in Tickets, NEW rows \in [RunIds -> RunRow],
         NEW tk \in TicketRow, NEW status, Walk(t, rows, tk, status)
  PROVE  /\ \A i \in RunIds : /\ SameRow(run'[i], rows[i])
                               /\ run'[i].park \in {rows[i].park, "none"}
         /\ ticket'[t].status = status /\ ticket'[t].board = tk.board
         /\ \A u \in Tickets \ {t} : ticket'[u] = ticket[u]
<1>1. \A i \in RunIds : /\ SameRow(run'[i], rows[i])
                         /\ run'[i].park \in {rows[i].park, "none"}
  <2>1. \A row \in RunRow : /\ SameRow([row EXCEPT !.park = "none"], row)
                             /\ [row EXCEPT !.park = "none"].park = "none"
    BY DEF RunRow, SameRow, SameRun
  <2> QED  BY <2>1 DEF Walk, SameRow, SameRun
<1>2. Walked(tk, status).status = status /\ Walked(tk, status).board = tk.board
  BY DEF Walked, TicketRow
<1>3. /\ ticket'[t] = Walked(tk, status)
      /\ \A u \in Tickets \ {t} : ticket'[u] = ticket[u]
  BY DEF Walk, RowsOK
<1> QED  BY <1>1, <1>2, <1>3

\* The same of a write of one run's row.
LEMMA WriteMoves ==
  ASSUME RowsOK, NEW r \in RunIds, TicketOf(r) \in Tickets, NEW row \in RunRow,
         NEW tk \in TicketRow, NEW status, Write(r, row, tk, status)
  PROVE  /\ SameRow(run'[r], row) /\ run'[r].park \in {row.park, "none"}
         /\ \A i \in RunIds \ {r} : /\ SameRow(run'[i], run[i])
                                     /\ run'[i].park \in {run[i].park, "none"}
         /\ ticket'[TicketOf(r)].status = status
         /\ ticket'[TicketOf(r)].board = tk.board
         /\ \A u \in Tickets \ {TicketOf(r)} : ticket'[u] = ticket[u]
<1> DEFINE rows == [run EXCEPT ![r] = row]
<1>1. /\ rows \in [RunIds -> RunRow] /\ rows[r] = row
      /\ \A i \in RunIds \ {r} : rows[i] = run[i]
  BY DEF RowsOK
<1>2. Walk(TicketOf(r), rows, tk, status)
  BY DEF Write
<1> HIDE DEF rows
<1> QED  BY <1>1, <1>2, WalkMoves

\* A failed ending.
LEMMA FailRowMoves ==
  ASSUME LeaseInv, NEW r \in RunIds, Claimed(r), NEW class, FailRow(r, class)
  PROVE  /\ run[r].ended => RowAside(r)
         /\ ~run[r].ended => EndsAs(r, "failed")
         /\ run'[r].approved = run[r].approved /\ run'[r].park = run[r].park
         /\ \A i \in RunIds \ {r} : RowAside(i)
         /\ \A u \in Tickets : TicketAside(u)
<1>0. RowsOK /\ TicketOf(r) \in Tickets
  BY TypeParts DEF LeaseInv, Claimed, TicketOf
<1>1. /\ run[r] \in RunRow /\ "none" \in RunPhases \cup {"none"} /\ "failed" \in Outcomes
      /\ run[r].ended => run[r].phase \in EndedPhases
  BY <1>0 DEF RowsOK, LeaseInv, EndedIsOver, Outcomes
<1>2. run'[r] = EndRun(run[r], "failed", "none") /\ \A i \in RunIds \ {r} : run'[i] = run[i]
  BY <1>0 DEF FailRow, Released, RowsOK
<1>3. Freed(r).status = ticket[TicketOf(r)].status /\ Freed(r).board = ticket[TicketOf(r)].board
  BY <1>0 DEF Freed, GiveBack, RowsOK, TicketRow
<1>4. /\ CountStrike(Freed(r), run[r]).status = Freed(r).status
      /\ CountStrike(Freed(r), run[r]).board = Freed(r).board
  BY <1>0, FreedType DEF CountStrike, TicketRow
<1>5. \A u \in Tickets : TicketAside(u)
  BY <1>0, <1>3, <1>4 DEF FailRow, RowsOK, TicketAside
<1>6. /\ run[r].ended => RowAside(r)
      /\ ~run[r].ended => EndsAs(r, "failed")
      /\ run'[r].approved = run[r].approved /\ run'[r].park = run[r].park
  BY <1>1, <1>2, EndRunMoves DEF RowAside, SameRow, SameRun, EndsAs
<1>7. \A i \in RunIds \ {r} : RowAside(i)
  BY <1>2 DEF RowAside, SameRow, SameRun
<1> QED  BY <1>5, <1>6, <1>7

\* block_ticket(): a status, and a park kind on the ticket's present run.
LEMMA BlockMoves ==
  ASSUME LeaseInv, NEW t \in Tickets, NEW kind, BlockTicket(t, kind)
  PROVE  /\ \A i \in RunIds : RowAside(i)
         /\ \A u \in Tickets \ {t} : TicketAside(u)
         /\ ticket'[t].status \in {ticket[t].status, "blocked_on_operator"}
         /\ ticket'[t].board = ticket[t].board
<1>0. RowsOK
  BY TypeParts DEF LeaseInv
<1>1. CASE UNCHANGED <<ticket, run>>
  BY <1>1 DEF RowAside, TicketAside, SameRow, SameRun
<1>2. CASE ~UNCHANGED <<ticket, run>>
  <2>1. ticket' = [ticket EXCEPT ![t].status = "blocked_on_operator"]
    BY <1>2 DEF BlockTicket
  <2>2. run' = [r \in RunIds |-> IF r = Latest(t) THEN [run[r] EXCEPT !.park = kind]
                                 ELSE run[r]]
    BY <1>2 DEF BlockTicket
  <2>3. ticket[t].status \in {"in_flight", "blocked_on_deps"}
    BY <1>2 DEF BlockTicket, TicketMayMove, TicketEdges
  <2>4. \A i \in RunIds : i = Latest(t) => TicketOf(i) = t
    BY RunIdsAreRuns DEF LeaseInv, HeldIsClaimed, Latest, TicketOf
  <2>5. \A i \in RunIds : SameRow(run'[i], run[i]) /\ (i # Latest(t) => run'[i] = run[i])
    BY <1>0, <2>2 DEF RowsOK, RunRow, SameRow, SameRun
  <2>6. \A i \in RunIds : RowAside(i)
    BY <2>3, <2>4, <2>5 DEF RowAside
  <2>7. /\ \A u \in Tickets \ {t} : TicketAside(u)
        /\ ticket'[t].status = "blocked_on_operator" /\ ticket'[t].board = ticket[t].board
    BY <1>0, <2>1 DEF RowsOK, TicketRow, TicketAside
  <2> QED  BY <2>6, <2>7
<1> QED  BY <1>1, <1>2

\* A release written with a walk of the run's ticket.
LEMMA ReleaseMoves ==
  ASSUME LeaseInv, NEW r \in RunIds, Claimed(r), NEW outcome \in Outcomes,
         NEW resume \in RunPhases \cup {"none"}, NEW tk \in TicketRow, NEW status,
         Write(r, Released(r, outcome, resume), tk, status)
  PROVE  /\ run[r].ended => RowAside(r)
         /\ ~run[r].ended => EndsAs(r, outcome)
         /\ run'[r].approved = run[r].approved /\ run'[r].park \in {run[r].park, "none"}
         /\ \A i \in RunIds \ {r} : RowAside(i)
         /\ \A u \in Tickets \ {TicketOf(r)} : TicketAside(u)
         /\ ticket'[TicketOf(r)].status = status
         /\ ticket'[TicketOf(r)].board = tk.board
<1> DEFINE row == Released(r, outcome, resume)
<1>0. RowsOK /\ TicketOf(r) \in Tickets /\ row \in RunRow
  BY TypeParts, ReleasedType DEF LeaseInv, Claimed, TicketOf
<1>1. run[r] \in RunRow /\ (run[r].ended => run[r].phase \in EndedPhases)
  BY <1>0 DEF RowsOK, LeaseInv, EndedIsOver
<1>2. /\ run[r].ended => row = run[r]
      /\ ~run[r].ended => /\ row.ended /\ row.ticket = run[r].ticket
                          /\ row.stop = run[r].stop /\ row.outcome = outcome
                          /\ row.phase = TerminalPhase(outcome)
      /\ row.approved = run[r].approved /\ row.park = run[r].park
  BY <1>1, EndRunMoves DEF Released
<1> HIDE DEF row
<1>3. /\ SameRow(run'[r], row) /\ run'[r].park \in {row.park, "none"}
      /\ \A i \in RunIds \ {r} : /\ SameRow(run'[i], run[i])
                                  /\ run'[i].park \in {run[i].park, "none"}
      /\ ticket'[TicketOf(r)].status = status
      /\ ticket'[TicketOf(r)].board = tk.board
      /\ \A u \in Tickets \ {TicketOf(r)} : ticket'[u] = ticket[u]
  BY <1>0, WriteMoves DEF row
<1>4. /\ run[r].ended => RowAside(r)
      /\ ~run[r].ended => EndsAs(r, outcome)
      /\ run'[r].approved = run[r].approved /\ run'[r].park \in {run[r].park, "none"}
  BY <1>2, <1>3 DEF RowAside, SameRow, SameRun, EndsAs
<1>5. /\ \A i \in RunIds \ {r} : RowAside(i)
      /\ \A u \in Tickets \ {TicketOf(r)} : TicketAside(u)
  BY <1>3 DEF RowAside, TicketAside
<1> QED  BY <1>3, <1>4, <1>5

-----------------------------------------------------------------------------
\* A run that a step leaves alone, but for its worker quitting it.
LEMMA AsideMoves ==
  ASSUME NEW i \in RunIds, RowAside(i), StaysOrQuits(i),
         i \in landed' <=> i \in landed, i \in commanded' => i \in commanded
  PROVE  RunMoves(i) /\ RecordMoves(i)
<1>1. Rests(i)
  BY DEF RowAside, SameRow, SameCore, Rests
<1>2. RecordMoves(i)
  BY DEF RowAside, SameRow, RecordMoves
<1> QED  BY <1>1, <1>2 DEF RunMoves

\* A ticket that a step leaves alone.
LEMMA TicketAsideMoves ==
  ASSUME NEW u \in Tickets, TicketAside(u)
  PROVE  TicketMoves(u)
  BY DEF TicketAside, TicketMoves, StatusMoves, MovedBy, BoardMoves

\* A step of which one run has the whole.
LEMMA OneMoves ==
  ASSUME NEW r \in RunIds, RunMoves(r), RecordMoves(r),
         \A i \in RunIds \ {r} : RowAside(i) /\ MindsOwn(i),
         \A u \in Tickets : TicketMoves(u)
  PROVE  Moves
<1>1. \A i \in RunIds \ {r} : RunMoves(i) /\ RecordMoves(i)
  BY AsideMoves DEF MindsOwn, StaysOrQuits
<1> QED  BY <1>1 DEF Moves

\* A step that moves no run, but for one worker that may quit its own.
LEMMA QuietMoves ==
  ASSUME NEW r \in RunIds, StaysOrQuits(r),
         \A i \in RunIds \ {r} : worker'[i] = worker[i],
         \A i \in RunIds : RowAside(i),
         \A i \in RunIds : i \in landed' <=> i \in landed,
         \A i \in RunIds : i \in commanded' => i \in commanded,
         \A u \in Tickets : TicketMoves(u)
  PROVE  Moves
<1>1. \A i \in RunIds \ {r} : RowAside(i) /\ MindsOwn(i)
  BY DEF MindsOwn
<1>2. RunMoves(r) /\ RecordMoves(r)
  BY AsideMoves
<1> QED  BY <1>1, <1>2, OneMoves

\* Both tables stay as they are.
LEMMA UnchangedAside ==
  ASSUME UNCHANGED <<ticket, run>>
  PROVE  /\ \A i \in RunIds : RowAside(i)
         /\ \A u \in Tickets : TicketAside(u) /\ TicketMoves(u)
<1>1. \A i \in RunIds : RowAside(i)
  BY DEF RowAside, SameRow, SameRun
<1>2. \A u \in Tickets : TicketAside(u)
  BY DEF TicketAside
<1> QED  BY <1>1, <1>2, TicketAsideMoves

\* A ticket blocked by who may change its status.
LEMMA BlockTicketMoves ==
  ASSUME LeaseInv, NEW t \in Tickets, NEW kind, BlockTicket(t, kind), Actor(t)
  PROVE  (\A i \in RunIds : RowAside(i)) /\ \A u \in Tickets : TicketMoves(u)
<1>1. \A u \in Tickets \ {t} : TicketMoves(u)
  BY BlockMoves, TicketAsideMoves
<1>2. TicketMoves(t)
  BY BlockMoves DEF TicketMoves, StatusMoves, MovedBy, BoardMoves
<1> QED  BY <1>1, <1>2, BlockMoves

\* A worker that takes a step, short of an amendment, may change the status.
LEMMA WorkerIsActor ==
  ASSUME NEW r \in RunIds, At(r, LiveSteps \ {"amend"}), worker'[r].at # worker[r].at
  PROVE  Actor(TicketOf(r))
  BY DEF Actor

\* An ended run's ticket is freed of nothing, and of a release none but the lease.
LEMMA FreedKeeps ==
  ASSUME RowsOK, NEW r \in RunIds, TicketOf(r) \in Tickets
  PROVE  /\ Freed(r) \in TicketRow
         /\ Freed(r).status = ticket[TicketOf(r)].status
         /\ Freed(r).board = ticket[TicketOf(r)].board
<1>1. Freed(r) \in TicketRow
  BY FreedType
<1>2. /\ Freed(r).status = ticket[TicketOf(r)].status
      /\ Freed(r).board = ticket[TicketOf(r)].board
  BY DEF Freed, GiveBack, RowsOK, TicketRow
<1> QED  BY <1>1, <1>2

-----------------------------------------------------------------------------
\* What a worker's step leaves alone wherever it goes.
LEMMA WorkerAside ==
  ASSUME LeaseInv, NEW r \in RunIds, NEW step, Goes(r, step),
         UNCHANGED <<landed, commanded>>
  PROVE  /\ worker'[r].at = step
         /\ \A i \in RunIds \ {r} : worker'[i] = worker[i] /\ MindsOwn(i)
         /\ \A i \in RunIds : i \in landed' <=> i \in landed
         /\ \A i \in RunIds : i \in commanded' => i \in commanded
  BY GoesMoves DEF LeaseInv, MindsOwn

\* A worker whose only write to the tables is a question on its ticket, or none.
LEMMA QuitMoves ==
  ASSUME LeaseInv, NEW r \in RunIds, Claimed(r), NEW step, Goes(r, step),
         UNCHANGED <<landed, commanded>>, Quits(r), worker[r].at # step,
         \/ UNCHANGED <<ticket, run>>
         \/ At(r, LiveSteps \ {"amend"}) /\ \E kind : BlockTicket(TicketOf(r), kind)
  PROVE  Moves
<1>1. TicketOf(r) \in Tickets
  BY DEF Claimed, TicketOf
<1>2. (\A i \in RunIds : RowAside(i)) /\ \A u \in Tickets : TicketMoves(u)
  <2>1. CASE UNCHANGED <<ticket, run>>
    BY <2>1, UnchangedAside
  <2>2. CASE At(r, LiveSteps \ {"amend"}) /\ \E kind : BlockTicket(TicketOf(r), kind)
    BY <1>1, <2>2, WorkerAside, WorkerIsActor, BlockTicketMoves
  <2> QED  BY <2>1, <2>2
<1> QED  BY <1>2, WorkerAside, QuietMoves DEF StaysOrQuits

\* The steps on which a worker leaves its run's code path without a release.
LEMMA LeavesMoves ==
  ASSUME LeaseInv, NEW r \in RunIds, Claimed(r),
         \/ MeetsEnd(r) \/ GateRefuses(r) \/ Escalate(r) \/ BlockEscalated(r)
         \/ ParkSteeredCap(r) \/ Crash(r)
  PROVE  Moves
<1> USE DEF At, LiveSteps, Steps, BusySteps, TurnSteps, CloseSteps, WorkPhases, GatePhases,
            ParkSteps
<1>0. TypeOK
  BY DEF LeaseInv
<1>1. CASE MeetsEnd(r)
  <2>1. PICK step \in {"gone", "refused"} : Goes(r, step)
    BY <1>1 DEF MeetsEnd
  <2>2. At(r, BusySteps) /\ worker[r].at # step
    BY <1>1 DEF MeetsEnd, NextPhases
  <2>3. Quits(r)
    BY <1>0, <2>1, <2>2, GoesQuits
  <2> QED  BY <1>1, <2>1, <2>2, <2>3, QuitMoves DEF MeetsEnd
<1>2. CASE GateRefuses(r)
  <2>1. Goes(r, "gate_failed") /\ At(r, {"merge_gate", "approved", "start"})
    BY <1>2 DEF GateRefuses
  <2>2. Quits(r)
    BY <1>0, <2>1, GoesQuits
  <2> QED  BY <1>2, <2>1, <2>2, QuitMoves DEF GateRefuses
<1>3. CASE Escalate(r)
  <2>1. PICK step \in {"steered", "gone", "blocking", "barring"} : Goes(r, step)
    BY <1>3, Zenon DEF Escalate
  <2>2. At(r, {"closed", "refused"})
    BY <1>3 DEF Escalate
  <2>3. Quits(r)
    BY <1>0, <2>1, <2>2, GoesQuits
  <2> QED  BY <1>3, <2>1, <2>2, <2>3, QuitMoves DEF Escalate
<1>4. CASE BlockEscalated(r)
  <2>1. PICK step \in {"steered", "gone"} : Goes(r, step)
    BY <1>4 DEF BlockEscalated
  <2>2. At(r, {"blocking", "barring"})
    BY <1>4 DEF BlockEscalated
  <2>3. Quits(r)
    BY <1>0, <2>1, <2>2, GoesQuits
  <2> QED  BY <1>4, <2>1, <2>2, <2>3, QuitMoves DEF BlockEscalated
<1>5. CASE ParkSteeredCap(r)
  <2>1. Goes(r, "rerun") /\ At(r, {"steered"})
    BY <1>5 DEF ParkSteeredCap
  <2>2. Quits(r)
    BY <1>0, <2>1, GoesQuits
  <2> QED  BY <1>5, <2>1, <2>2, QuitMoves DEF ParkSteeredCap
<1>6. CASE Crash(r)
  <2>1. Goes(r, "dead") /\ At(r, LiveSteps)
    BY <1>6 DEF Crash
  <2>2. Quits(r) /\ worker[r].at # "dead"
    BY <1>0, <2>1, GoesQuits
  <2> QED  BY <1>6, <2>1, <2>2, QuitMoves DEF Crash
<1> QED  BY <1>1, <1>2, <1>3, <1>4, <1>5, <1>6

\* The steps on which a worker, or the sweep for it, fails its run.
LEMMA FailMoves ==
  ASSUME LeaseInv, NEW r \in RunIds, Claimed(r), NEW class, FailRow(r, class),
         StaysOrQuits(r), Quits(r) \/ Tripped(r), \A i \in RunIds \ {r} : MindsOwn(i),
         UNCHANGED <<landed, commanded>>
  PROVE  Moves
<1>1. \A u \in Tickets : TicketMoves(u)
  BY FailRowMoves, TicketAsideMoves
<1>2. \A i \in RunIds \ {r} : RowAside(i) /\ MindsOwn(i)
  BY FailRowMoves
<1>3. RunMoves(r) /\ RecordMoves(r)
  <2>1. CASE run[r].ended
    BY <2>1, FailRowMoves, AsideMoves
  <2>2. CASE ~run[r].ended
    <3>1. Fails(r)
      BY <2>2, FailRowMoves DEF Fails
    <3>2. RecordMoves(r)
      BY FailRowMoves DEF RecordMoves
    <3> QED  BY <3>1, <3>2 DEF RunMoves
  <2> QED  BY <2>1, <2>2
<1> QED  BY <1>1, <1>2, <1>3, OneMoves

\* requeue(), by a worker that closes its run out or by a human.
LEMMA RequeueMoves ==
  ASSUME LeaseInv, NEW t \in Tickets,
         NEW who \in FactoryRequeues \cup {"human"}, Requeue(t, who),
         \A i \in RunIds : StaysOrQuits(i), UNCHANGED <<landed, commanded>>
  PROVE  Moves
<1> DEFINE q   == ticket[t].last
           row == IF ReleasesPark(t) THEN EndRun(run[q], "abandoned", "none") ELSE run[q]
           new == [row EXCEPT !.approved = FALSE]
           cnt == CountRequeue(ticket[t], row, who = "human")
           tk  == [cnt EXCEPT !.helped = cnt.helped \cup ({who} \ {"human"})]
<1>0. RowsOK
  BY TypeParts DEF LeaseInv
<1>1. q \in RunIds /\ ticket[t].active = NoRun /\ ticket[t] \in TicketRow
  BY <1>0, LatestType DEF Requeue, RequeueAdmits, RowsOK
<1>2. Claimed(q) /\ TicketOf(q) = t /\ q = Latest(t)
  BY <1>1, LastIsIdle DEF Latest
<1>3. run[q] \in RunRow /\ row \in RunRow
  BY <1>0, <1>1, EndRunType DEF RowsOK, Outcomes
<1>4. /\ new \in RunRow /\ SameCore(new, row) /\ new.park = row.park
  <2> HIDE DEF row
  <2> QED  BY <1>3 DEF RunRow, SameCore, SameRun
<1>5. cnt \in TicketRow /\ cnt.board = ticket[t].board
  <2>1. cnt \in TicketRow
    BY <1>1, TicketRowTypes
  <2>2. \A tkt \in TicketRow : \A rw, human : CountRequeue(tkt, rw, human).board = tkt.board
    BY DEF CountRequeue, TicketRow
  <2> QED  BY <1>1, <2>1, <2>2
<1>6. tk \in TicketRow /\ tk.board = ticket[t].board
  <2> HIDE DEF cnt
  <2> QED  BY <1>5 DEF TicketRow
<1>7. Write(q, new, tk, "ready")
  BY DEF Requeue
<1> HIDE DEF tk, cnt
<1>8. /\ SameRow(run'[q], new) /\ run'[q].park \in {new.park, "none"}
      /\ \A i \in RunIds \ {q} : RowAside(i)
      /\ ticket'[t].status = "ready" /\ ticket'[t].board = ticket[t].board
      /\ \A u \in Tickets \ {t} : TicketAside(u)
  <2> HIDE DEF new, q
  <2> QED  BY <1>0, <1>1, <1>2, <1>4, <1>6, <1>7, WriteMoves DEF RowAside, TicketAside
<1>9. ReleasesPark(t) => run[q].phase \in ParkedPhases /\ ~run[q].ended
  BY <1>1, <1>2 DEF ReleasesPark, ParkedPhases, LeaseInv, EndedIsOver, EndedPhases
<1>10. /\ Rests(q) \/ IsClosed(q)
       /\ ReleasesPark(t) => run'[q].ended
  <2>1. CASE ReleasesPark(t)
    <3>1. /\ row.ended /\ row.ticket = run[q].ticket /\ row.stop = run[q].stop
          /\ row.outcome = "abandoned" /\ row.phase = TerminalPhase("abandoned")
      BY <1>3, <1>9, <2>1, EndRunMoves DEF Outcomes
    <3> HIDE DEF row
    <3>2. EndsAs(q, "abandoned")
      BY <1>4, <1>8, <1>9, <2>1, <3>1 DEF EndsAs, SameRow, SameCore, SameRun
    <3> HIDE DEF q
    <3> QED  BY <1>1, <1>9, <2>1, <3>2 DEF IsClosed, EndsAs
  <2>2. CASE ~ReleasesPark(t)
    <3>1. SameCore(run'[q], run[q])
      BY <1>4, <1>8, <2>2 DEF SameRow, SameCore, SameRun
    <3> HIDE DEF q, row, new
    <3> QED  BY <1>1, <2>2, <3>1 DEF Rests
  <2> QED  BY <2>1, <2>2
<1>11. row.park = run[q].park
  BY <1>3 DEF EndRun, RunRow
<1>12. RecordMoves(q)
  <2> HIDE DEF q, row, new
  <2> QED  BY <1>1, <1>2, <1>4, <1>8, <1>11 DEF RecordMoves
<1>13. TicketMoves(t)
  <2>1. Reopens(t, q)
    <3>1. ReleasesPark(t) => run'[q].ended
      BY <1>10
    <3> QED  BY <1>1, <3>1 DEF Reopens, Requeue, RequeueAdmits, ReleasesPark
  <2>2. Actor(t)
    BY <1>1 DEF Actor
  <2> HIDE DEF q
  <2> QED  BY <1>1, <1>8, <2>1, <2>2 DEF TicketMoves, StatusMoves, MovedBy, BoardMoves
<1> HIDE DEF q, row, new
<1>14. \A i \in RunIds \ {q} : RunMoves(i) /\ RecordMoves(i)
  BY <1>8, AsideMoves
<1>15. \A u \in Tickets \ {t} : TicketMoves(u)
  BY <1>8, TicketAsideMoves
<1> QED  BY <1>1, <1>10, <1>12, <1>13, <1>14, <1>15 DEF Moves, RunMoves

\* The close-out's own requeues.
LEMMA CloseOutMoves ==
  ASSUME LeaseInv, NEW r \in RunIds, Claimed(r), Rerun(r) \/ Triage(r) \/ Amend(r)
  PROVE  Moves
<1>1. PICK step \in {"triage", "gone"} :
        /\ Goes(r, step) /\ worker[r].at # step
        /\ At(r, LiveSteps) /\ (step = "triage" => At(r, {"rerun"}))
  BY DEF Rerun, Triage, Amend, At, LiveSteps, Steps, CloseSteps
<1>2. Quits(r) /\ UNCHANGED <<landed, commanded>> /\ TicketOf(r) \in Tickets
  BY <1>1, GoesQuits DEF Rerun, Triage, Amend, LeaseInv, At, LiveSteps, Steps, CloseSteps,
                         Claimed, TicketOf
<1>3. CASE UNCHANGED <<ticket, run>>
  BY <1>1, <1>2, <1>3, QuitMoves
<1>4. ASSUME NEW who \in FactoryRequeues, Requeue(TicketOf(r), who)
      PROVE  Moves
  <2>1. \A i \in RunIds : StaysOrQuits(i)
    BY <1>1, <1>2, WorkerAside DEF StaysOrQuits
  <2> QED  BY <1>2, <1>4, <2>1, RequeueMoves
<1> QED  BY <1>3, <1>4 DEF Rerun, Triage, Amend, FactoryRequeues

\* The steps on which a worker keeps its run, short of the park and the landing.
LEMMA WorkMoves ==
  ASSUME LeaseInv, NEW r \in RunIds, Claimed(r),
         \/ RefuseLease(r) \/ StartWork(r) \/ \E p \in NextPhases(r) : EnterPhase(r, p)
         \/ ReviewApproves(r) \/ GateVerifies(r) \/ EndIfCanceled(r)
         \/ \E class \in {"work", "infra"} : Fail(r, class)
  PROVE  Moves
<1>0. /\ TypeOK /\ RowsOK /\ TicketOf(r) \in Tickets
      /\ "leased" \in LiveSteps \ {"amend"}
  BY TypeParts DEF LeaseInv, Claimed, TicketOf, LiveSteps, Steps
<1>1. CASE RefuseLease(r)
  <2>1. Goes(r, "gone") /\ At(r, {"leased"})
    BY <1>1 DEF RefuseLease
  <2>2. Quits(r)
    BY <1>0, <2>1, GoesQuits DEF At
  <2> QED  BY <1>1, <2>1, <2>2, WorkerAside, FailMoves DEF RefuseLease, StaysOrQuits
<1>2. CASE StartWork(r)
  <2>1. At(r, {"leased"}) /\ UNCHANGED <<landed, commanded>>
    BY <1>2 DEF StartWork
  <2>2. ASSUME ticket[TicketOf(r)].status = "ready",
               ticket' = [ticket EXCEPT ![TicketOf(r)].status = "in_flight"],
               Goes(r, "start"), UNCHANGED run
        PROVE  Moves
    <3>1. /\ \A u \in Tickets \ {TicketOf(r)} : TicketAside(u)
          /\ ticket'[TicketOf(r)].status = "in_flight"
          /\ ticket'[TicketOf(r)].board = ticket[TicketOf(r)].board
      BY <1>0, <2>2 DEF RowsOK, TicketRow, TicketAside
    <3>2. \A i \in RunIds : RowAside(i)
      BY <2>2 DEF RowAside, SameRow, SameRun
    <3>3. \A u \in Tickets : TicketMoves(u)
      BY <2>1, <2>2, <3>1, TicketAsideMoves
         DEF TicketMoves, StatusMoves, MovedBy, BoardMoves, Unlisted
    <3>4. StartsOn(r)
      BY <2>1, <2>2, <3>1, <3>2, WorkerAside DEF StartsOn, RowAside, SameRow, SameCore
    <3>5. RecordMoves(r)
      BY <2>1, <3>2 DEF RecordMoves, RowAside, SameRow
    <3> QED  BY <2>1, <2>2, <3>2, <3>3, <3>4, <3>5, WorkerAside, OneMoves DEF RunMoves
  <2>3. ASSUME FailRow(r, "infra"), Goes(r, "refused")
        PROVE  Moves
    <3>1. Quits(r)
      BY <1>0, <2>1, <2>3, GoesQuits DEF At
    <3> QED  BY <2>1, <2>3, <3>1, WorkerAside, FailMoves DEF StaysOrQuits
  <2> QED  BY <1>2, <2>2, <2>3 DEF StartWork
<1>3. ASSUME NEW p \in NextPhases(r), EnterPhase(r, p)
      PROVE  Moves
  <2>1. /\ \A i \in RunIds \ {r} : RowAside(i) /\ MindsOwn(i)
        /\ run'[r].approved = run[r].approved /\ run'[r].park = run[r].park
    BY <1>0, <1>3 DEF EnterPhase, RowsOK, RunRow, RowAside, SameRow, SameRun, MindsOwn, TypeOK
  <2>2. \A u \in Tickets : TicketMoves(u)
    <3>1. \A u \in Tickets : TicketAside(u)
      BY <1>3 DEF EnterPhase, TicketAside
    <3> QED  BY <3>1, TicketAsideMoves
  <2>3. EntersNext(r) /\ RecordMoves(r)
    BY <1>3, <2>1 DEF EntersNext, RecordMoves, EnterPhase
  <2> QED  BY <2>1, <2>2, <2>3, OneMoves DEF RunMoves
<1>4. CASE ReviewApproves(r) \/ GateVerifies(r)
  <2>1. PICK step \in {"approved", "gate_ok"} :
          /\ Goes(r, step)
          /\ step = "approved" => At(r, {"reviewing"})
          /\ step = "gate_ok" => At(r, {"merge_gate"})
    BY <1>4 DEF ReviewApproves, GateVerifies
  <2>2. UNCHANGED <<ticket, run, landed, commanded>> /\ ~run[r].ended
    BY <1>4 DEF ReviewApproves, GateVerifies
  <2>3. /\ worker'[r].at = step /\ worker'[r].ask = worker[r].ask
        /\ \A i \in RunIds \ {r} : MindsOwn(i)
    BY <1>0, <2>1, <2>2, GoesMoves, WorkerAside DEF BusySteps
  <2>4. /\ \A i \in RunIds : RowAside(i)
        /\ \A u \in Tickets : TicketMoves(u)
    BY <2>2, UnchangedAside
  <2>5. Advances(r)
    BY <2>1, <2>2, <2>3 DEF Advances, SameCore, SameRun
  <2>6. RecordMoves(r)
    BY <2>2 DEF RecordMoves
  <2> QED  BY <2>3, <2>4, <2>5, <2>6, OneMoves DEF RunMoves
<1>5. CASE EndIfCanceled(r)
  <2>1. /\ Goes(r, "canceled") /\ At(r, {"gate_ok"}) /\ ~run[r].ended
        /\ run' = [run EXCEPT ![r].stop = "cancel"] /\ UNCHANGED <<ticket, landed, commanded>>
    BY <1>5 DEF EndIfCanceled
  <2>2. /\ worker'[r].at = "canceled" /\ worker'[r].ask = worker[r].ask
        /\ \A i \in RunIds \ {r} : MindsOwn(i)
    BY <1>0, <2>1, GoesMoves, WorkerAside DEF BusySteps
  <2>3. /\ \A i \in RunIds \ {r} : RowAside(i)
        /\ SameRun(run'[r], run[r]) /\ run'[r].stop = "cancel"
        /\ run'[r].approved = run[r].approved /\ run'[r].park = run[r].park
    BY <1>0, <2>1 DEF RowsOK, RunRow, RowAside, SameRow, SameRun
  <2>4. \A u \in Tickets : TicketMoves(u)
    BY <2>1, TicketAsideMoves DEF TicketAside
  <2>5. Weight["cancel"] >= Weight[run[r].stop]
    BY <1>0 DEF RowsOK, RunRow, StopKinds, Aborts, Weight
  <2>6. IsStopped(r)
    BY <2>1, <2>2, <2>3, <2>5 DEF IsStopped
  <2>7. RecordMoves(r)
    BY <2>1, <2>3 DEF RecordMoves
  <2> QED  BY <2>2, <2>3, <2>4, <2>6, <2>7, OneMoves DEF RunMoves
<1>6. ASSUME NEW class \in {"work", "infra"}, Fail(r, class)
      PROVE  Moves
  <2>1. PICK step \in {"refused", "closed"} : Goes(r, step)
    BY <1>6 DEF Fail
  <2>2. At(r, LiveSteps \ {"amend"})
    BY <1>6 DEF Fail, At, LiveSteps, Steps, BusySteps, WorkPhases, GatePhases
  <2>3. Quits(r)
    BY <1>0, <2>1, <2>2, GoesQuits
  <2> QED  BY <1>6, <2>1, <2>3, WorkerAside, FailMoves DEF Fail, StaysOrQuits
<1> QED  BY <1>1, <1>2, <1>3, <1>4, <1>5, <1>6

\* A worker gives its run up: paused, aborted, handed on or requeued as drifted.
LEMMA GiveUpMoves ==
  ASSUME LeaseInv, NEW r \in RunIds, Claimed(r), NEW outcome \in {"paused", "abandoned"},
         NEW resume \in RunPhases \cup {"none"}, NEW status,
         NEW tk \in TicketRow, tk.board = ticket[TicketOf(r)].board,
         Write(r, Released(r, outcome, resume), tk, status),
         \/ status \in {"blocked_on_operator", "abandoned"}
         \/ status = "ready" /\ HandsBack(TicketOf(r), r),
         Goes(r, "gone"), At(r, BusySteps), UNCHANGED <<landed, commanded>>
  PROVE  Moves
<1>1. Quits(r) /\ worker'[r].at # worker[r].at /\ At(r, LiveSteps \ {"amend"})
  <2>1. "gone" \notin BusySteps /\ BusySteps \subseteq LiveSteps \ {"amend"}
    BY DEF BusySteps, LiveSteps, Steps, WorkPhases, GatePhases
  <2> QED  BY <2>1, GoesQuits, WorkerAside DEF At, LeaseInv
<1>2. outcome \in Outcomes /\ TicketOf(r) \in Tickets
  BY DEF Outcomes, Claimed, TicketOf
<1>3. /\ run[r].ended => RowAside(r)
      /\ ~run[r].ended => EndsAs(r, outcome)
      /\ run'[r].approved = run[r].approved /\ run'[r].park \in {run[r].park, "none"}
      /\ \A i \in RunIds \ {r} : RowAside(i)
      /\ \A u \in Tickets \ {TicketOf(r)} : TicketAside(u)
      /\ ticket'[TicketOf(r)].status = status
      /\ ticket'[TicketOf(r)].board = tk.board
  BY <1>2, ReleaseMoves
<1>4. RunMoves(r) /\ RecordMoves(r)
  <2>1. CASE run[r].ended
    BY <1>1, <1>3, <2>1, AsideMoves DEF StaysOrQuits
  <2>2. CASE ~run[r].ended
    BY <1>1, <1>3, <2>2 DEF RunMoves, GivesUp, RecordMoves
  <2> QED  BY <2>1, <2>2
<1>5. TicketMoves(TicketOf(r))
  <2>1. Actor(TicketOf(r))
    BY <1>1, WorkerIsActor
  <2> QED  BY <1>3, <2>1 DEF TicketMoves, StatusMoves, MovedBy, BoardMoves
<1> QED  BY <1>3, <1>4, <1>5, WorkerAside, TicketAsideMoves, OneMoves

\* end_aborted(), by the worker.
LEMMA AbortMoves ==
  ASSUME LeaseInv, NEW r \in RunIds, Claimed(r), EndAborted(r)
  PROVE  \E status \in {"blocked_on_operator", "abandoned"} :
           Write(r, Released(r, "abandoned", "none"), Freed(r), status)
  BY DEF EndAborted

\* A worker that pauses, aborts, hands off or requeues its run moves that run alone.
LEMMA GiveUpSteps ==
  ASSUME LeaseInv, NEW r \in RunIds, Claimed(r),
         \/ \E p \in PausePhases(r) : EndPaused(r, p)
         \/ WorkerAborts(r) \/ HandOff(r) \/ RequeueDrift(r)
  PROVE  Moves
<1> USE DEF At, BusySteps, TurnSteps, WorkPhases, GatePhases
<1>0. /\ RowsOK /\ TicketOf(r) \in Tickets
      /\ Freed(r) \in TicketRow /\ Freed(r).board = ticket[TicketOf(r)].board
  BY TypeParts, FreedKeeps DEF LeaseInv, Claimed, TicketOf
<1>1. ASSUME NEW p \in PausePhases(r), EndPaused(r, p)
      PROVE  Moves
  <2>1. At(r, BusySteps) /\ p \in RunPhases
    BY <1>1, NextPhasesType DEF PausePhases, NextPhases
  <2> QED  BY <1>0, <1>1, <2>1, GiveUpMoves DEF EndPaused
<1>2. CASE WorkerAborts(r)
  <2>1. At(r, BusySteps)
    BY <1>2 DEF WorkerAborts, NextPhases
  <2> QED  BY <1>0, <1>2, <2>1, AbortMoves, GiveUpMoves DEF WorkerAborts
<1>3. CASE HandOff(r)
  <2>1. HandsBack(TicketOf(r), r) /\ At(r, BusySteps) /\ "merge_gate" \in RunPhases
    BY <1>3, WorkerAside DEF HandOff, HandsBack, RunPhases
  <2> QED  BY <1>0, <1>3, <2>1, GiveUpMoves DEF HandOff
<1>4. CASE RequeueDrift(r)
  <2> DEFINE tk == CountRequeue(Freed(r), Released(r, "abandoned", "none"), FALSE)
  <2>1. HandsBack(TicketOf(r), r) /\ At(r, BusySteps)
    BY <1>4, WorkerAside DEF RequeueDrift, HandsBack
  <2>2. tk \in TicketRow /\ tk.board = Freed(r).board
    <3>1. \A tkt \in TicketRow : \A rw : CountRequeue(tkt, rw, FALSE).board = tkt.board
      BY DEF CountRequeue, TicketRow
    <3> QED  BY <1>0, <3>1, TicketRowTypes
  <2>3. Write(r, Released(r, "abandoned", "none"), tk, "ready") /\ Goes(r, "gone")
    BY <1>4 DEF RequeueDrift
  <2> HIDE DEF tk
  <2> QED  BY <1>0, <1>4, <2>1, <2>2, <2>3, GiveUpMoves DEF RequeueDrift
<1> QED  BY <1>1, <1>2, <1>3, <1>4

\* The parks and the landing.
LEMMA GateMoves ==
  ASSUME LeaseInv, NEW r \in RunIds, Claimed(r),
         \/ \E step \in ParkSteps : AskOperator(r, step)
         \/ Park(r) \/ Merge(r) \/ ReleaseMerged(r) \/ MirrorMerged(r)
  PROVE  Moves
<1>0. TypeOK /\ RowsOK /\ TicketOf(r) \in Tickets /\ run[r] \in RunRow
  BY TypeParts DEF LeaseInv, Claimed, TicketOf, RowsOK
<1>1. ASSUME NEW step \in ParkSteps, AskOperator(r, step)
      PROVE  Moves
  <2>1. /\ worker'[r].at = step /\ \A i \in RunIds \ {r} : MindsOwn(i)
        /\ UNCHANGED <<landed, commanded>>
    BY <1>1, WorkerAside DEF AskOperator
  <2>2. At(r, LiveSteps \ {"amend"}) /\ worker[r].at # step
    BY <1>1 DEF AskOperator, At, ParkFrom, ParkSteps, LiveSteps, Steps, BusySteps,
                WorkPhases, GatePhases
  <2>3. (\A i \in RunIds : RowAside(i)) /\ \A u \in Tickets : TicketMoves(u)
    BY <1>0, <1>1, <2>1, <2>2, WorkerIsActor, BlockTicketMoves DEF AskOperator
  <2>4. Asks(r)
    <3>1. ticket'[TicketOf(r)].status # "in_flight"
      BY <1>0, <1>1 DEF AskOperator, BlockTicket, TicketMayMove, TicketEdges, RowsOK, TicketRow
    <3> QED  BY <1>1, <2>1, <2>3, <3>1 DEF Asks, AskOperator, RowAside, SameRow, SameCore
  <2>5. RecordMoves(r)
    BY <2>1, <2>3 DEF RecordMoves, RowAside, SameRow
  <2> QED  BY <2>1, <2>3, <2>4, <2>5, OneMoves DEF RunMoves
<1>2. CASE Park(r)
  <2> DEFINE step == worker[r].at
  <2>0. At(r, ParkSteps) /\ UNCHANGED <<landed, commanded>>
    BY <1>2 DEF Park
  <2>1. CASE run[r].ended
    <3>1. PICK next \in {"gone", "refused"} : Goes(r, next)
      BY <1>2, <2>1 DEF Park
    <3>2. At(r, LiveSteps \ {"amend"}) /\ worker[r].at # next
      BY <2>0 DEF At, ParkSteps, LiveSteps, Steps
    <3>3. Quits(r)
      BY <1>0, <3>1, <3>2, GoesQuits DEF At
    <3>4. UNCHANGED <<ticket, run>>
      BY <1>2, <2>1 DEF Park
    <3> QED  BY <2>0, <3>1, <3>2, <3>3, <3>4, QuitMoves
  <2>2. CASE ~run[r].ended
    <3>1. /\ run' = [run EXCEPT ![r].phase = ParkPhase(step), ![r].park = ParkKind(step)]
          /\ ticket' = [ticket EXCEPT ![TicketOf(r)] = GiveBack(ticket[TicketOf(r)], r)]
          /\ Goes(r, IF step = "park_contradiction" THEN "amend" ELSE "gone")
      BY <1>2, <2>2, Zenon DEF Park
    <3>2. /\ worker'[r].at \in {"gone", "amend"}
          /\ \A i \in RunIds \ {r} : MindsOwn(i)
      BY <2>0, <3>1, WorkerAside
    <3> HIDE DEF step
    <3>3. /\ run'[r].phase = ParkPhase(step) /\ run'[r].park = ParkKind(step)
          /\ run'[r].ticket = run[r].ticket /\ run'[r].stop = run[r].stop
          /\ run'[r].outcome = run[r].outcome /\ run'[r].ended = run[r].ended
          /\ run'[r].approved = run[r].approved
          /\ \A i \in RunIds \ {r} : run'[i] = run[i]
      BY <1>0, <3>1 DEF RowsOK, RunRow
    <3>4. \A u \in Tickets : TicketAside(u)
      BY <1>0, <3>1 DEF RowsOK, TicketRow, TicketAside, GiveBack
    <3>5. ParksNow(r)
      BY <2>0, <2>2, <3>2, <3>3 DEF ParksNow, step
    <3>6. RecordMoves(r) /\ \A i \in RunIds \ {r} : RowAside(i)
      BY <2>0, <3>3, <3>5 DEF RecordMoves, RowAside, SameRow, SameRun
    <3> QED  BY <3>2, <3>4, <3>5, <3>6, TicketAsideMoves, OneMoves DEF RunMoves
  <2> QED  BY <2>1, <2>2
<1>3. CASE Merge(r)
  <2>1. /\ At(r, {"merging"}) /\ Goes(r, "landed") /\ landed' = landed \cup {r}
        /\ UNCHANGED <<ticket, run, commanded>>
    BY <1>3 DEF Merge
  <2>2. /\ worker'[r].at = "landed" /\ \A i \in RunIds \ {r} : MindsOwn(i)
        /\ r \in landed'
    BY <1>0, <2>1, GoesMoves DEF MindsOwn
  <2>3. /\ \A i \in RunIds : RowAside(i)
        /\ \A u \in Tickets : TicketMoves(u)
    BY <2>1, UnchangedAside
  <2>4. Lands(r) /\ RecordMoves(r)
    BY <2>1, <2>2 DEF Lands, RecordMoves, SameCore, SameRun
  <2> QED  BY <2>2, <2>3, <2>4, OneMoves DEF RunMoves
<1>4. CASE ReleaseMerged(r)
  <2>1. /\ At(r, {"landed"}) /\ Goes(r, "shipped")
        /\ run' = [run EXCEPT ![r] = Released(r, "merged", "none")]
        /\ ticket' = [ticket EXCEPT ![TicketOf(r)] = Freed(r)]
        /\ UNCHANGED <<landed, commanded>>
    BY <1>4 DEF ReleaseMerged
  <2>2. worker'[r].at = "shipped" /\ \A i \in RunIds \ {r} : MindsOwn(i)
    BY <2>1, WorkerAside
  <2>3. /\ run'[r] = EndRun(run[r], "merged", "none")
        /\ \A i \in RunIds \ {r} : RowAside(i)
    BY <1>0, <2>1 DEF RowsOK, Released, RowAside, SameRow, SameRun
  <2>4. /\ run[r].ended => run'[r] = run[r]
        /\ ~run[r].ended => EndsAs(r, "merged")
        /\ run'[r].approved = run[r].approved /\ run'[r].park = run[r].park
    BY <1>0, <2>3, EndRunMoves DEF EndsAs, LeaseInv, EndedIsOver, Outcomes
  <2>5. \A u \in Tickets : TicketAside(u)
    BY <1>0, <2>1, FreedKeeps DEF RowsOK, TicketAside
  <2>6. Ships(r) /\ RecordMoves(r)
    BY <2>1, <2>2, <2>4 DEF Ships, RecordMoves, SameCore, SameRun
  <2> QED  BY <2>2, <2>3, <2>5, <2>6, TicketAsideMoves, OneMoves DEF RunMoves
<1>5. CASE MirrorMerged(r)
  <2>1. /\ At(r, {"shipped"}) /\ Goes(r, "gone") /\ UNCHANGED <<run, landed, commanded>>
        /\ ticket' = [ticket EXCEPT ![TicketOf(r)].status = StatusAfter(TicketOf(r), "merged")]
    BY <1>5 DEF MirrorMerged
  <2>2. At(r, LiveSteps \ {"amend"}) /\ Quits(r)
    BY <1>0, <2>1, GoesQuits DEF At, LiveSteps, Steps
  <2>3. /\ \A u \in Tickets \ {TicketOf(r)} : TicketAside(u)
        /\ ticket'[TicketOf(r)].status \in {ticket[TicketOf(r)].status, "merged"}
        /\ ticket'[TicketOf(r)].board = ticket[TicketOf(r)].board
    BY <1>0, <2>1 DEF RowsOK, TicketRow, TicketAside, StatusAfter
  <2>4. Actor(TicketOf(r))
    BY <2>1, <2>2, WorkerAside, WorkerIsActor DEF At
  <2>5. TicketMoves(TicketOf(r))
    BY <2>1, <2>3, <2>4 DEF TicketMoves, StatusMoves, MovedBy, BoardMoves
  <2>6. \A i \in RunIds : RowAside(i)
    BY <2>1 DEF RowAside, SameRow, SameRun
  <2> QED  BY <2>1, <2>2, <2>3, <2>5, <2>6, WorkerAside, TicketAsideMoves, QuietMoves
             DEF StaysOrQuits
<1> QED  BY <1>1, <1>2, <1>3, <1>4, <1>5

\* A worker's step.
LEMMA WorkerMoves ==
  ASSUME LeaseInv, NEW r \in RunIds, Claimed(r), WorkerStep(r) \/ Crash(r)
  PROVE  Moves
  BY LeavesMoves, CloseOutMoves, WorkMoves, GiveUpSteps, GateMoves DEF WorkerStep

-----------------------------------------------------------------------------
\* Nothing moves but what is neither a row, a worker, a landing nor a command.
LEMMA StillMoves ==
  ASSUME UNCHANGED <<worker, landed, commanded>>,
         \A i \in RunIds : RowAside(i), \A u \in Tickets : TicketMoves(u)
  PROVE  Moves
  BY AsideMoves DEF Moves, StaysOrQuits

\* The heartbeat and the supervisor's steps.
LEMMA SupervisorMoves ==
  ASSUME LeaseInv, NEW r \in RunIds, Claimed(r), SupervisorStep(r) \/ Beat(r)
  PROVE  Moves
<1>0. TicketOf(r) \in Tickets /\ UNCHANGED <<worker, landed, commanded>>
  BY DEF Claimed, TicketOf, SupervisorStep, Beat, SampleTrip, ActOnTrip, SweepEscalates,
         SweepBlocks
<1>1. CASE UNCHANGED <<ticket, run>>
  BY <1>0, <1>1, UnchangedAside, StillMoves
<1>2. CASE Tripped(r) /\ \E class : FailRow(r, class)
  BY <1>0, <1>2, FailMoves DEF StaysOrQuits, MindsOwn
<1>3. CASE SweepBlocks(r)
  <2>1. Actor(TicketOf(r))
    BY <1>3 DEF SweepBlocks, Actor
  <2> QED  BY <1>0, <1>3, <2>1, BlockTicketMoves, StillMoves DEF SweepBlocks
<1> QED  BY <1>1, <1>2, <1>3
           DEF SupervisorStep, Beat, SampleTrip, ActOnTrip, SweepEscalates, Tripped

\* A run that a command, a requeue, an approval or the board ends for its worker.
LEMMA ClosedMoves ==
  ASSUME LeaseInv, NEW r \in RunIds, Claimed(r),
         r \in commanded \/ run[r].phase \in ParkedPhases,
         NEW status \in {"blocked_on_operator", "abandoned", "merged"},
         NEW tk \in TicketRow, Actor(TicketOf(r)),
         ticket[TicketOf(r)].board = "Done" => tk.board = "Done",
         status = "merged" => ticket[TicketOf(r)].board = "Done",
         Write(r, Released(r, "abandoned", "none"), tk, status),
         UNCHANGED <<worker, landed>>, commanded' \subseteq commanded
  PROVE  Moves
<1>1. "abandoned" \in Outcomes /\ TicketOf(r) \in Tickets
  BY DEF Outcomes, Claimed, TicketOf
<1>2. /\ run[r].ended => RowAside(r)
      /\ ~run[r].ended => EndsAs(r, "abandoned")
      /\ run'[r].approved = run[r].approved /\ run'[r].park \in {run[r].park, "none"}
      /\ \A i \in RunIds \ {r} : RowAside(i)
      /\ \A u \in Tickets \ {TicketOf(r)} : TicketAside(u)
      /\ ticket'[TicketOf(r)].status = status
      /\ ticket'[TicketOf(r)].board = tk.board
  BY <1>1, ReleaseMoves
<1>3. RunMoves(r) /\ RecordMoves(r)
  <2>1. CASE run[r].ended
    BY <1>2, <2>1, AsideMoves DEF StaysOrQuits
  <2>2. CASE ~run[r].ended
    BY <1>2, <2>2 DEF RunMoves, IsClosed, StaysOrQuits, RecordMoves
  <2> QED  BY <2>1, <2>2
<1>4. TicketMoves(TicketOf(r))
  BY <1>2 DEF TicketMoves, StatusMoves, MovedBy, BoardMoves
<1>5. \A i \in RunIds \ {r} : MindsOwn(i)
  BY DEF MindsOwn
<1> QED  BY <1>2, <1>3, <1>4, <1>5, TicketAsideMoves, OneMoves

\* abort_run() of a run without a worker.
LEMMA CommandMoves ==
  ASSUME LeaseInv, NEW r \in RunIds, Claimed(r), CommandEnds(r)
  PROVE  Moves
<1>0. /\ RowsOK /\ TicketOf(r) \in Tickets
      /\ Freed(r) \in TicketRow /\ Freed(r).board = ticket[TicketOf(r)].board
  BY TypeParts, FreedKeeps DEF LeaseInv, Claimed, TicketOf
<1>1. UNCHANGED <<worker, landed>> /\ commanded' \subseteq commanded /\ r \in commanded
  BY DEF CommandEnds
<1>2. CASE EndAborted(r)
  <2>1. Actor(TicketOf(r))
    BY <1>1 DEF Actor
  <2> QED  BY <1>0, <1>1, <1>2, <2>1, AbortMoves, ClosedMoves
<1>3. CASE UNCHANGED <<ticket, run>>
  BY <1>1, <1>3, UnchangedAside, AsideMoves DEF Moves, StaysOrQuits
<1> QED  BY <1>2, <1>3 DEF CommandEnds

\* A stop asked of a run that has not ended.
LEMMA StopMoves ==
  ASSUME LeaseInv, NEW r \in RunIds, Claimed(r), ~run[r].ended, NEW stop \in StopKinds,
         Weight[stop] >= Weight[run[r].stop], run' = [run EXCEPT ![r].stop = stop],
         UNCHANGED <<worker, landed>>,
         commanded' = commanded \/ (commanded' = commanded \cup {r} /\ WorkerGone(r)),
         \A u \in Tickets : TicketAside(u)
  PROVE  Moves
<1>0. RowsOK
  BY TypeParts DEF LeaseInv
<1>1. /\ \A i \in RunIds \ {r} : RowAside(i) /\ MindsOwn(i)
      /\ SameRun(run'[r], run[r]) /\ run'[r].stop = stop
      /\ run'[r].approved = run[r].approved /\ run'[r].park = run[r].park
  BY <1>0 DEF RowsOK, RunRow, RowAside, SameRow, SameRun, MindsOwn
<1>2. IsStopped(r)
  BY <1>1 DEF IsStopped
<1>3. RecordMoves(r)
  BY <1>1, <1>2 DEF RecordMoves
<1> QED  BY <1>1, <1>2, <1>3, TicketAsideMoves, OneMoves DEF RunMoves

\* The run a command is for.
LEMMA LatestIsClaimed ==
  ASSUME LeaseInv, NEW t \in Tickets
  PROVE  /\ \A r \in {Latest(t), ticket[t].active} :
              r # NoRun => r \in RunIds /\ Claimed(r) /\ TicketOf(r) = t
         /\ ticket[t] \in TicketRow /\ HumanActed(ticket[t]) \in TicketRow
         /\ HumanActed(ticket[t]).status = ticket[t].status
         /\ HumanActed(ticket[t]).board = ticket[t].board
<1>1. /\ RowsOK /\ ticket[t] \in TicketRow /\ HumanActed(ticket[t]) \in TicketRow
      /\ Latest(t) \in {NoRun} \cup RunIds
  BY TypeParts, TicketRowTypes, LatestType DEF LeaseInv, RowsOK
<1>2. \A r \in {Latest(t), ticket[t].active} :
        r # NoRun => r \in RunIds /\ Claimed(r) /\ TicketOf(r) = t
  BY <1>1 DEF TicketRow, Latest, LeaseInv, HeldIsClaimed, Claimed, TicketOf
<1>3. /\ HumanActed(ticket[t]).status = ticket[t].status
      /\ HumanActed(ticket[t]).board = ticket[t].board
  BY <1>1 DEF HumanActed, TicketRow
<1> QED  BY <1>1, <1>2, <1>3

\* The release of a park that a human approved.
LEMMA ApproveMoves ==
  ASSUME LeaseInv, NEW t \in Tickets, ApproveParked(t)
  PROVE  Moves
<1> DEFINE r   == ticket[t].last
           row == EndRun(run[r], "abandoned", "none")
           new == [row EXCEPT !.resume = "merge_gate", !.approved = TRUE]
           tk  == HumanActed(ticket[t])
<1>0. RowsOK /\ tk \in TicketRow /\ tk.board = ticket[t].board
  BY TypeParts, LatestIsClaimed DEF LeaseInv
<1>1. r \in RunIds /\ ticket[t].active = NoRun /\ run[r].phase = "awaiting_merge_approval"
  BY <1>0, LatestType DEF ApproveParked
<1>2. Claimed(r) /\ TicketOf(r) = t
  BY <1>1, LastIsIdle
<1>3. run[r] \in RunRow /\ row \in RunRow /\ ~run[r].ended
  BY <1>0, <1>1, EndRunType DEF RowsOK, Outcomes, LeaseInv, EndedIsOver, EndedPhases
<1>4. /\ row.ended /\ row.ticket = run[r].ticket /\ row.stop = run[r].stop
      /\ row.outcome = "abandoned" /\ row.phase = TerminalPhase("abandoned")
      /\ row.park = run[r].park
  BY <1>3, EndRunMoves DEF Outcomes
<1>5. new \in RunRow /\ SameCore(new, row) /\ new.park = row.park /\ new.approved
  <2> HIDE DEF row
  <2>1. "merge_gate" \in RunPhases
    BY DEF RunPhases, GatePhases
  <2>2. new \in RunRow
    BY <1>3, <2>1 DEF RunRow
  <2>3. SameCore(new, row) /\ new.park = row.park /\ new.approved
    BY <1>3 DEF RunRow, SameCore, SameRun
  <2> QED  BY <2>2, <2>3
<1>6. Write(r, new, tk, "ready") /\ UNCHANGED <<worker, landed, commanded>>
  BY DEF ApproveParked
<1> HIDE DEF r, row, new, tk
<1>7. /\ SameRow(run'[r], new) /\ run'[r].park \in {new.park, "none"}
      /\ \A i \in RunIds \ {r} : RowAside(i)
      /\ ticket'[t].status = "ready" /\ ticket'[t].board = ticket[t].board
      /\ \A u \in Tickets \ {t} : TicketAside(u)
  BY <1>0, <1>1, <1>2, <1>5, <1>6, WriteMoves DEF RowAside, TicketAside
<1>8. EndsAs(r, "abandoned")
  BY <1>3, <1>4, <1>5, <1>7 DEF EndsAs, SameRow, SameCore, SameRun
<1>9. IsClosed(r) /\ RecordMoves(r)
  BY <1>1, <1>4, <1>5, <1>6, <1>7, <1>8
     DEF IsClosed, StaysOrQuits, ParkedPhases, RecordMoves, SameRow
<1>10. TicketMoves(t)
  <2>1. Reopens(t, r) /\ Actor(t)
    BY <1>1, <1>8 DEF Reopens, Actor, EndsAs, r
  <2> QED  BY <1>1, <1>7, <2>1 DEF TicketMoves, StatusMoves, MovedBy, BoardMoves
<1>11. \A i \in RunIds \ {r} : RowAside(i) /\ MindsOwn(i)
  BY <1>6, <1>7 DEF MindsOwn
<1> QED  BY <1>1, <1>7, <1>9, <1>10, <1>11, TicketAsideMoves, OneMoves DEF RunMoves

\* The reopening of a paused run, which the next claim continues.
LEMMA ResumeMoves ==
  ASSUME LeaseInv, NEW t \in Tickets, ResumePaused(t)
  PROVE  Moves
<1> DEFINE r   == Latest(t)
           new == [run[r] EXCEPT !.park = "none", !.stop = "none"]
           tk  == HumanActed(ticket[t])
<1>0. RowsOK /\ tk \in TicketRow /\ tk.board = ticket[t].board
  BY TypeParts, LatestIsClaimed DEF LeaseInv
<1>1. r \in RunIds /\ Claimed(r) /\ TicketOf(r) = t /\ run[r].outcome = "paused"
  BY LatestIsClaimed DEF ResumePaused
<1>2. /\ new \in RunRow /\ SameRun(new, run[r]) /\ new.park = "none"
      /\ new.approved = run[r].approved
  <2> DEFINE row == run[r]
  <2>1. row \in RunRow
    BY <1>0, <1>1 DEF RowsOK
  <2> HIDE DEF row
  <2> QED  BY <2>1 DEF RunRow, SameRun, ParkKinds, StopKinds, row
<1>3. Write(r, new, tk, "ready") /\ UNCHANGED <<worker, landed, commanded>>
  BY DEF ResumePaused
<1> HIDE DEF r, new, tk
<1>4. /\ SameRow(run'[r], new) /\ run'[r].park \in {new.park, "none"}
      /\ \A i \in RunIds \ {r} : RowAside(i)
      /\ ticket'[t].status = "ready" /\ ticket'[t].board = ticket[t].board
      /\ \A u \in Tickets \ {t} : TicketAside(u)
  BY <1>0, <1>1, <1>2, <1>3, WriteMoves DEF RowAside, TicketAside
<1>5. IsResumed(r) /\ RecordMoves(r)
  BY <1>1, <1>2, <1>3, <1>4 DEF IsResumed, RecordMoves, SameRow, SameRun
<1>6. TicketMoves(t)
  <2>1. Resumes(t, r) /\ Actor(t)
    BY <1>1 DEF Resumes, Actor, r
  <2> QED  BY <1>1, <1>4, <2>1 DEF TicketMoves, StatusMoves, MovedBy, BoardMoves
<1>7. \A i \in RunIds \ {r} : RowAside(i) /\ MindsOwn(i)
  BY <1>3, <1>4 DEF MindsOwn
<1> QED  BY <1>1, <1>4, <1>5, <1>6, <1>7, TicketAsideMoves, OneMoves DEF RunMoves

\* cancel_ticket(): the run at work is stopped, a parked one ended, an idle ticket
\* walked to abandoned.
LEMMA CancelMoves ==
  ASSUME LeaseInv, NEW t \in Tickets, CancelTicket(t)
  PROVE  Moves
<1> DEFINE r      == ticket[t].last
           held   == ticket[t].active
           closed == [HumanActed(ticket[t]) EXCEPT !.board = "Canceled"]
           idle   == [ticket[t] EXCEPT !.board = "Canceled"]
<1>0. /\ RowsOK /\ ticket[t] \in TicketRow /\ ticket[t].board = "open"
      /\ UNCHANGED <<worker, commanded, landed>>
  BY TypeParts, LatestIsClaimed DEF LeaseInv, CancelTicket
<1>1. /\ closed \in TicketRow /\ closed.board = "Canceled"
      /\ closed.status = ticket[t].status
      /\ idle \in TicketRow /\ idle.board = "Canceled"
  <2> DEFINE acted == HumanActed(ticket[t])
  <2>1. acted \in TicketRow /\ acted.status = ticket[t].status
    BY LatestIsClaimed
  <2> HIDE DEF acted
  <2>2. /\ [acted EXCEPT !.board = "Canceled"] \in TicketRow
        /\ [acted EXCEPT !.board = "Canceled"].board = "Canceled"
        /\ [acted EXCEPT !.board = "Canceled"].status = acted.status
    BY <2>1 DEF TicketRow, BoardStates
  <2>3. idle \in TicketRow /\ idle.board = "Canceled"
    BY <1>0 DEF TicketRow, BoardStates
  <2> QED  BY <2>1, <2>2, <2>3 DEF acted
<1>2. ASSUME held # NoRun, ~run[held].ended, run' = [run EXCEPT ![held].stop = "cancel"],
             ticket' = [ticket EXCEPT ![t] = closed]
      PROVE  Moves
  <2>1. held \in RunIds /\ Claimed(held)
    BY <1>2, LatestIsClaimed
  <2>2. Weight["cancel"] >= Weight[run[held].stop] /\ "cancel" \in StopKinds
    BY <1>0, <2>1 DEF RowsOK, RunRow, StopKinds, Aborts, Weight
  <2> HIDE DEF held, closed
  <2>3. /\ \A u \in Tickets \ {t} : TicketAside(u)
        /\ ticket'[t].status = ticket[t].status /\ ticket'[t].board = "Canceled"
    BY <1>0, <1>1, <1>2 DEF RowsOK, TicketAside
  <2>4. TicketMoves(t)
    BY <1>0, <2>3 DEF TicketMoves, StatusMoves, MovedBy, BoardMoves
  <2>5. /\ \A i \in RunIds \ {held} : RowAside(i) /\ MindsOwn(i)
        /\ SameRun(run'[held], run[held]) /\ run'[held].stop = "cancel"
        /\ run'[held].approved = run[held].approved /\ run'[held].park = run[held].park
    BY <1>0, <1>2, <2>1 DEF RowsOK, RunRow, RowAside, SameRow, SameRun, MindsOwn
  <2>6. IsStopped(held) /\ RecordMoves(held)
    BY <1>0, <1>2, <2>2, <2>5 DEF IsStopped, RecordMoves
  <2> QED  BY <2>1, <2>3, <2>4, <2>5, <2>6, TicketAsideMoves, OneMoves DEF RunMoves
<1>3. ASSUME held = NoRun, r # NoRun, ~run[r].ended,
             Write(r, EndRun(run[r], "abandoned", "none"), closed, "abandoned")
      PROVE  Moves
  <2>1. r \in RunIds
    BY <1>0, <1>3, LatestType
  <2>2. Claimed(r) /\ TicketOf(r) = t
    BY <1>3, <2>1, LastIsIdle
  <2>3. run[r].phase \in ParkedPhases
    BY <1>3, <2>1, <2>2, RunIdsAreRuns DEF LeaseInv, LeaseAgreement
  <2>4. Actor(TicketOf(r))
    BY <1>3, <2>2 DEF Actor
  <2>5. Write(r, Released(r, "abandoned", "none"), closed, "abandoned")
    BY <1>3 DEF Released
  <2> HIDE DEF r, held, closed
  <2> QED  BY <1>0, <1>1, <2>1, <2>2, <2>3, <2>4, <2>5, ClosedMoves
<1>4. ASSUME held = NoRun, Walk(t, run, idle, "abandoned")
      PROVE  Moves
  <2> HIDE DEF idle
  <2>1. /\ \A i \in RunIds : RowAside(i)
        /\ \A u \in Tickets \ {t} : TicketAside(u)
        /\ ticket'[t].status = "abandoned"
    BY <1>0, <1>1, <1>4, WalkMoves DEF RowsOK, RowAside, TicketAside
  <2>2. TicketMoves(t)
    BY <1>0, <1>4, <2>1 DEF TicketMoves, StatusMoves, MovedBy, BoardMoves, Actor
  <2> QED  BY <1>0, <2>1, <2>2, TicketAsideMoves, StillMoves
<1> QED  BY <1>2, <1>3, <1>4 DEF CancelTicket

\* The operator's commands.
LEMMA OperatorMoves ==
  ASSUME LeaseInv, NEW t \in Tickets, OperatorStep(t)
  PROVE  Moves
<1>0. RowsOK
  BY TypeParts DEF LeaseInv
<1>1. CASE RequeueByHuman(t)
  BY <1>1, RequeueMoves DEF RequeueByHuman, StaysOrQuits
<1>2. CASE Pause(t) \/ Abort(t)
  <2> DEFINE r == Latest(t)
  <2>1. PICK stop \in {"pause", "abort"} :
          /\ r # NoRun /\ ~run[r].ended
          /\ stop = "pause" => run[r].stop = "none"
          /\ stop = "abort" => run[r].stop \notin {"abort", "cancel"}
          /\ run' = [run EXCEPT ![r].stop = stop]
          /\ ticket' = [ticket EXCEPT ![t] = HumanActed(ticket[t])]
    BY <1>2 DEF Pause, Abort, MayAbort
  <2>2. /\ UNCHANGED <<worker, landed>>
        /\ commanded' = commanded \/ (commanded' = commanded \cup {r} /\ WorkerGone(r))
    BY <1>2 DEF Pause, Abort
  <2>3. r \in RunIds /\ Claimed(r)
    BY <2>1, LatestIsClaimed
  <2> HIDE DEF r
  <2>4. stop \in StopKinds /\ Weight[stop] >= Weight[run[r].stop]
    BY <1>0, <2>1, <2>3 DEF RowsOK, RunRow, StopKinds, Aborts, Weight
  <2>5. \A u \in Tickets : TicketAside(u)
    BY <1>0, <2>1, LatestIsClaimed DEF RowsOK, TicketAside
  <2> QED  BY <2>1, <2>2, <2>3, <2>4, <2>5, StopMoves
<1> QED  BY <1>1, <1>2, ApproveMoves, ResumeMoves, CancelMoves DEF OperatorStep

\* A walk of an idle ticket to a closed status.
LEMMA CloseTicketMoves ==
  ASSUME LeaseInv, NEW t \in Tickets, ticket[t].active = NoRun,
         NEW status \in {"abandoned", "merged"},
         status = "merged" => ticket[t].board = "Done",
         Walk(t, run, ticket[t], status), UNCHANGED <<worker, landed, commanded>>
  PROVE  Moves
<1>0. RowsOK /\ ticket[t] \in TicketRow
  BY TypeParts, LatestIsClaimed DEF LeaseInv
<1>1. /\ \A i \in RunIds : RowAside(i)
      /\ \A u \in Tickets \ {t} : TicketAside(u)
      /\ ticket'[t].status = status /\ ticket'[t].board = ticket[t].board
  BY <1>0, WalkMoves DEF RowsOK, RowAside, TicketAside
<1>2. TicketMoves(t)
  BY <1>1 DEF TicketMoves, StatusMoves, MovedBy, BoardMoves, Actor
<1> QED  BY <1>1, <1>2, TicketAsideMoves, StillMoves

\* The board's passes.
LEMMA BoardMovesRuns ==
  ASSUME LeaseInv, NEW t \in Tickets, BoardStep(t)
  PROVE  Moves
<1>0. RowsOK /\ ticket[t] \in TicketRow /\ UNCHANGED <<worker, landed>>
  BY TypeParts, LatestIsClaimed
     DEF LeaseInv, BoardStep, MirrorTask, Listed, WaitOnBlockers, ParkUnlisted, Retire,
         BoardCloses, ReconcileMirror, AbortCanceled
<1>1. ASSUME NEW status \in Unlisted, ticket[t].status \in Unlisted, Listed(t, status)
      PROVE  Moves
  <2>1. /\ \A u \in Tickets \ {t} : TicketAside(u)
        /\ ticket'[t].status = status /\ ticket'[t].board = ticket[t].board
    BY <1>0, <1>1 DEF Listed, RowsOK, TicketRow, TicketAside
  <2>2. TicketMoves(t)
    BY <1>1, <2>1 DEF TicketMoves, StatusMoves, MovedBy, BoardMoves
  <2>3. \A i \in RunIds : RowAside(i)
    BY <1>1 DEF Listed, RowAside, SameRow, SameRun
  <2> QED  BY <1>0, <1>1, <2>1, <2>2, <2>3, TicketAsideMoves, StillMoves DEF Listed
<1>2. CASE \/ \E specced \in BOOLEAN : MirrorTask(t, specced)
           \/ WaitOnBlockers(t) \/ ParkUnlisted(t)
  BY <1>1, <1>2 DEF MirrorTask, WaitOnBlockers, ParkUnlisted, Unlisted
<1>3. ASSUME NEW state, BoardCloses(t, state)
      PROVE  Moves
  <2>1. /\ \A u \in Tickets \ {t} : TicketAside(u)
        /\ ticket'[t].status = ticket[t].status /\ ticket[t].board = "open"
        /\ UNCHANGED <<run, commanded>>
    BY <1>0, <1>3 DEF BoardCloses, RowsOK, TicketRow, TicketAside
  <2>2. TicketMoves(t)
    BY <2>1 DEF TicketMoves, StatusMoves, MovedBy, BoardMoves
  <2>3. \A i \in RunIds : RowAside(i)
    BY <2>1 DEF RowAside, SameRow, SameRun
  <2> QED  BY <1>0, <2>1, <2>2, <2>3, TicketAsideMoves, StillMoves
<1>4. ASSUME NEW r \in RunIds, Claimed(r), ~run[r].ended, NEW stop \in {"pause", "cancel"},
             stop = "pause" => run[r].stop = "none",
             run' = [run EXCEPT ![r].stop = stop], UNCHANGED ticket,
             commanded' = commanded \/ (commanded' = commanded \cup {r} /\ WorkerGone(r))
      PROVE  Moves
  <2>1. stop \in StopKinds /\ Weight[stop] >= Weight[run[r].stop]
    BY <1>0, <1>4 DEF RowsOK, RunRow, StopKinds, Aborts, Weight
  <2> QED  BY <1>0, <1>4, <2>1, StopMoves DEF TicketAside
<1>5. CASE Retire(t)
  <2>1. UNCHANGED commanded
    BY <1>5 DEF Retire
  <2> QED  BY <1>0, <1>4, <1>5, <2>1, LatestIsClaimed, CloseTicketMoves DEF Retire
<1>6. CASE AbortCanceled(t)
  BY <1>4, <1>6, LatestIsClaimed DEF AbortCanceled, MayAbort
<1>7. CASE ReconcileMirror(t)
  <2> DEFINE r      == ticket[t].last
             status == IF ticket[t].board = "Done" THEN "merged" ELSE "abandoned"
  <2>1. /\ status \in {"abandoned", "merged"}
        /\ status = "merged" => ticket[t].board = "Done"
        /\ ticket[t].active = NoRun /\ UNCHANGED commanded
    BY <1>7 DEF ReconcileMirror
  <2>2. ASSUME r # NoRun, ~run[r].ended,
               Write(r, EndRun(run[r], "abandoned", "none"), ticket[t], status)
        PROVE  Moves
    <3>1. r \in RunIds
      BY <1>0, <2>2, LatestType
    <3>2. Claimed(r) /\ TicketOf(r) = t
      BY <2>1, <3>1, LastIsIdle
    <3>3. run[r].phase \in ParkedPhases
      BY <2>1, <2>2, <3>1, <3>2, RunIdsAreRuns DEF LeaseInv, LeaseAgreement
    <3>4. Actor(TicketOf(r))
      BY <2>1, <3>2 DEF Actor
    <3>5. Write(r, Released(r, "abandoned", "none"), ticket[t], status)
      BY <2>2 DEF Released
    <3> HIDE DEF r, status
    <3> QED  BY <1>0, <2>1, <3>1, <3>2, <3>3, <3>4, <3>5, ClosedMoves
  <2>3. ASSUME Walk(t, run, ticket[t], status)
        PROVE  Moves
    <3> HIDE DEF status
    <3> QED  BY <1>0, <2>1, <2>3, CloseTicketMoves
  <2> QED  BY <1>7, <2>2, <2>3 DEF ReconcileMirror
<1> QED  BY <1>2, <1>3, <1>5, <1>6, <1>7 DEF BoardStep

\* The loop's admissions and claims.
LEMMA LoopMoves ==
  ASSUME LeaseInv, NEW t \in Tickets, LoopStep(t)
  PROVE  Moves
<1>0. TypeOK /\ RowsOK
  BY TypeParts DEF LeaseInv
<1>1. CASE FindIdle(t) \/ FindStruckOut(t) \/ AdmitTicket(t) \/ FindUnparked(t)
  BY <1>1, UnchangedAside, StillMoves DEF FindIdle, FindStruckOut, AdmitTicket, FindUnparked
<1>2. CASE BlockStruckOut(t)
  <2>1. CASE UNCHANGED <<ticket, run>>
    BY <1>2, <2>1, UnchangedAside, StillMoves DEF BlockStruckOut
  <2>2. CASE ~UNCHANGED <<ticket, run>>
    <3>1. ticket'[t].status = "blocked_on_operator"
      BY <1>0, <1>2, <2>2 DEF BlockStruckOut, BlockTicket, RowsOK, TicketRow
    <3>2. Actor(t)
      BY <1>2, <3>1 DEF BlockStruckOut, Actor
    <3> QED  BY <1>2, <3>2, BlockTicketMoves, StillMoves DEF BlockStruckOut
  <2> QED  BY <2>1, <2>2
<1>3. ASSUME NEW r \in RunIds, Claim(t, r)
      PROVE  Moves
  <2>1. /\ ~Claimed(r) /\ run' = [run EXCEPT ![r] = NewRun(t)]
        /\ ticket' = [ticket EXCEPT ![t].active = r]
        /\ Goes(r, "leased") /\ UNCHANGED <<landed, commanded>>
    BY <1>3 DEF Claim
  <2>2. /\ worker'[r].at = "leased" /\ \A i \in RunIds \ {r} : MindsOwn(i)
        /\ run'[r] = NewRun(t)
    BY <1>0, <2>1, WorkerAside DEF RowsOK
  <2>3. \A i \in RunIds \ {r} : RowAside(i)
    BY <1>0, <2>1 DEF RowsOK, RowAside, SameRow, SameRun
  <2>4. \A u \in Tickets : TicketAside(u)
    BY <1>0, <2>1 DEF RowsOK, TicketRow, TicketAside
  <2>5. IsGranted(r) /\ RecordMoves(r)
    BY <1>3, <2>1, <2>2 DEF IsGranted, RecordMoves, Claim
  <2> QED  BY <2>2, <2>3, <2>4, <2>5, TicketAsideMoves, OneMoves DEF RunMoves
<1> QED  BY <1>1, <1>2, <1>3 DEF LoopStep

\* Every step of the program is made of these moves.
LEMMA StepMoves ==
  ASSUME LeaseInv, [Next]_vars
  PROVE  Moves
<1>1. CASE UNCHANGED vars \/ SupervisorDies
  BY <1>1, UnchangedAside, StillMoves DEF vars, SupervisorDies
<1>2. ASSUME NEW r \in RunIds, Claimed(r), RunStep(r)
      PROVE  Moves
  BY <1>2, WorkerMoves, SupervisorMoves, CommandMoves DEF RunStep
<1>3. ASSUME NEW t \in Tickets, LoopStep(t) \/ OperatorStep(t) \/ BoardStep(t)
      PROVE  Moves
  BY <1>3, LoopMoves, OperatorMoves, BoardMovesRuns
<1> QED  BY <1>1, <1>2, <1>3 DEF Next

-----------------------------------------------------------------------------
(***************************************************************************)
(* What holds of every run by itself.                                      *)
(***************************************************************************)
LivePhases == {"claimed"} \cup WorkPhases \cup GatePhases \cup ParkedPhases
\* A run that waits for a worker no more, and one whose worker may land it yet.
Attended   == LiveSteps \ {"amend"}
PreLanding == BusySteps \cup {"leased"} \cup (ParkSteps \ {"park_after"})

\* A run that lives has no outcome and is in a phase it can be ended from; one that
\* has ended is in the phase of its outcome.
RowFits(r) ==
  /\ ~run[r].ended => run[r].phase \in LivePhases /\ run[r].outcome = "none"
  /\ run[r].ended => /\ run[r].outcome \in {"merged", "abandoned", "failed", "paused"}
                     /\ run[r].phase = TerminalPhase(run[r].outcome)
\* A run that is parked, or that a command will end, is not at work.
IsLeft(r) ==
  /\ run[r].phase \in ParkedPhases \/ r \in commanded => ~At(r, Attended)
  /\ r \in commanded => Claimed(r)
\* Only a sweep ends a run under a worker that works on.
SweptIsFailed(r) == run[r].ended /\ At(r, PreLanding) => run[r].outcome = "failed"
\* The worker at the merge has the gate's word, and the run's phase says so.
GateFits(r) ==
  /\ At(r, {"merging", "landed"}) /\ ~run[r].ended => run[r].phase = "merging"
  /\ At(r, {"merging"}) => ~worker[r].ask
  /\ At(r, {"shipped"}) => run[r].ended
\* A candidate that landed is out of its worker's hands but for the close-out.
LandedFits(r) ==
  /\ At(r, {"landed", "shipped"}) => r \in landed
  /\ r \in landed => /\ Claimed(r) /\ ~At(r, PreLanding)
                     /\ run[r].outcome # "paused"
                     /\ run[r].phase # "awaiting_merge_approval"

\* A run whose worker has entered a phase has one.
Begun        == (BusySteps \ {"start"}) \cup ParkSteps \cup {"landed"}
BegunFits(r) == At(r, Begun) /\ ~run[r].ended => run[r].phase # "claimed"
\* A worker that works or closes out has a run.
Hired(r)     == At(r, Attended) => Claimed(r)

RunOK(r) == RowFits(r) /\ IsLeft(r) /\ SweptIsFailed(r) /\ GateFits(r) /\ LandedFits(r)
RunInv   == \A r \in RunIds : RunOK(r) /\ BegunFits(r) /\ Hired(r)

-----------------------------------------------------------------------------
\* The steps, as sets: which a worker lands from, attends at, quits to.
LEMMA StepSets ==
  /\ BusySteps \subseteq PreLanding /\ BusySteps \subseteq Attended
  /\ ParkSteps \subseteq Attended /\ {"leased", "landed", "shipped"} \subseteq Attended
  /\ \A step \in {"gone", "dead", "amend"} : step \notin Attended
  /\ \A step \in CloseSteps \cup {"gone", "dead", "gate_failed", "none"} :
       step \notin PreLanding \cup BusySteps \cup ParkSteps \cup {"landed", "shipped"}
  /\ \A step \in {"landed", "shipped", "park_after"} : step \notin PreLanding \cup BusySteps
  /\ ParkSteps \cap (BusySteps \cup {"landed", "shipped", "leased"}) = {}
  /\ "leased" \notin BusySteps
  BY DEF PreLanding, Attended, LiveSteps, Steps, BusySteps, ParkSteps, CloseSteps,
         WorkPhases, GatePhases

\* A worker that quits is at the gate and at a park no more.
LEMMA QuitIsIdle ==
  ASSUME NEW r \in RunIds, Quits(r)
  PROVE  /\ worker'[r].at \notin PreLanding \cup BusySteps \cup ParkSteps \cup {"landed", "shipped"}
         /\ ~At(r, Attended) => worker'[r].at \notin Attended
<1>1. CASE At(r, LiveSteps) /\ worker'[r].at \in {"gone", "dead"}
  BY <1>1, StepSets
<1>2. CASE /\ At(r, LiveSteps \ {"amend"})
           /\ worker'[r].at \in (CloseSteps \ {"amend"}) \cup {"gate_failed"}
  BY <1>2, StepSets DEF Attended, At
<1> QED  BY <1>1, <1>2 DEF Quits

\* What a worker may enter next, and from where.
LEMMA NextFrom ==
  ASSUME NEW r \in RunIds, NEW p \in NextPhases(r)
  PROVE  /\ At(r, BusySteps) /\ p \in WorkPhases \cup GatePhases
         /\ p = "merging" => At(r, {"gate_ok"}) /\ ~worker[r].ask
  BY DEF NextPhases, At, BusySteps, WorkPhases, GatePhases

\* A run whose row stays, its worker staying or quitting.
LEMMA RestKept ==
  ASSUME NEW r \in RunIds, RunOK(r), RecordMoves(r), Rests(r) \/ IsResumed(r) \/ IsStopped(r)
  PROVE  RunOK(r)'
<1> USE DEF RunOK
<1>1. SameRun(run'[r], run[r])
  BY DEF Rests, IsResumed, IsStopped, SameCore
<1>2. /\ worker'[r].at \in PreLanding => At(r, PreLanding)
      /\ worker'[r].at \in BusySteps => At(r, BusySteps)
      /\ \A step \in {"merging", "landed", "shipped"} :
           worker'[r].at = step => At(r, {step})
      /\ ~At(r, Attended) => worker'[r].at \notin Attended
      /\ worker'[r].at = "merging" => worker'[r] = worker[r]
  <2>1. CASE worker'[r] = worker[r]
    BY <2>1 DEF At
  <2>2. CASE Quits(r)
    BY <2>2, QuitIsIdle, StepSets DEF BusySteps, GatePhases
  <2>3. CASE At(r, {"gate_ok"}) /\ worker'[r].at = "canceled"
    BY <2>3, StepSets DEF At, BusySteps
  <2> QED  BY <2>1, <2>2, <2>3 DEF Rests, IsResumed, IsStopped, StaysOrQuits
<1>3. r \in landed' <=> r \in landed
  <2>1. ~Lands(r)
    BY <1>2, StepSets DEF Lands, GateFits, At, BusySteps, GatePhases
  <2> QED  BY <2>1 DEF RecordMoves
<1>4. r \in commanded' => r \in commanded \/ (Claimed(r) /\ WorkerGone(r) /\ worker'[r] = worker[r])
  BY DEF RecordMoves
<1>5. RowFits(r)'
  BY <1>1 DEF RowFits, SameRun
<1>6. IsLeft(r)'
  <2>1. WorkerGone(r) => run[r].phase \in ParkedPhases \/ ~At(r, Attended)
    BY StepSets DEF WorkerGone, At
  <2> QED  BY <1>1, <1>2, <1>4, <2>1 DEF IsLeft, SameRun, Claimed, At
<1>7. SweptIsFailed(r)'
  BY <1>1, <1>2 DEF SweptIsFailed, SameRun, At
<1>8. GateFits(r)'
  BY <1>1, <1>2 DEF GateFits, SameRun, At
<1>9. LandedFits(r)'
  BY <1>1, <1>2, <1>3 DEF LandedFits, SameRun, Claimed, At
<1> QED  BY <1>5, <1>6, <1>7, <1>8, <1>9

\* The worker's steps that leave the row and go on with the run.
LEMMA WorksOnKept ==
  ASSUME NEW r \in RunIds, RunOK(r), RecordMoves(r),
         StartsOn(r) \/ Advances(r) \/ Asks(r) \/ Lands(r)
  PROVE  RunOK(r)'
<1> USE DEF RunOK
<1>1. SameRun(run'[r], run[r])
  BY DEF StartsOn, Advances, Asks, Lands, SameCore
<1>2. At(r, BusySteps \cup {"leased", "landed"}) /\ At(r, Attended)
  <2>1. CASE StartsOn(r) \/ Advances(r) \/ Lands(r)
    BY <2>1, StepSets DEF StartsOn, Advances, Lands, At, BusySteps, WorkPhases, GatePhases
  <2>2. CASE Asks(r)
    <3>1. \A step \in ParkSteps : ParkFrom(step) \subseteq BusySteps \cup {"landed"}
      BY DEF ParkSteps, ParkFrom, BusySteps, WorkPhases
    <3> QED  BY <2>2, <3>1, StepSets DEF Asks, At
  <2> QED  BY <2>1, <2>2
<1>3. run[r].phase \notin ParkedPhases /\ r \notin commanded
  BY <1>2 DEF IsLeft
<1>4. r \notin commanded'
  <2>1. ~IsStopped(r) \/ worker'[r] # worker[r]
    <3>1. worker'[r].at # worker[r].at
      <4>1. CASE StartsOn(r) \/ Advances(r) \/ Lands(r)
        BY <4>1 DEF StartsOn, Advances, Lands, At
      <4>2. CASE Asks(r)
        BY <1>2, <4>2, StepSets DEF Asks, At
      <4> QED  BY <4>1, <4>2
    <3> QED  BY <3>1
  <2> QED  BY <1>3, <2>1 DEF RecordMoves
<1>5. RowFits(r)' /\ IsLeft(r)'
  BY <1>1, <1>3, <1>4 DEF RowFits, IsLeft, SameRun
<1>6. CASE StartsOn(r)
  <2>1. worker'[r].at = "start" /\ At(r, {"leased"}) /\ At(r, PreLanding)
    BY <1>6 DEF StartsOn, At, PreLanding
  <2>2. r \notin landed /\ r \notin landed'
    BY <2>1 DEF LandedFits, RecordMoves, Lands, At
  <2>3. SweptIsFailed(r)' /\ GateFits(r)' /\ LandedFits(r)'
    BY <1>1, <2>1, <2>2 DEF SweptIsFailed, GateFits, LandedFits, SameRun, At
  <2> QED  BY <1>5, <2>3
<1>7. CASE Advances(r)
  <2>1. worker'[r].at \in {"approved", "gate_ok"} /\ At(r, {"reviewing", "merge_gate"})
    BY <1>7 DEF Advances, At
  <2>2. At(r, PreLanding)
    BY <2>1, StepSets DEF At, BusySteps, WorkPhases, GatePhases
  <2>3. r \notin landed /\ r \notin landed'
    BY <2>1, <2>2 DEF LandedFits, RecordMoves, Lands, At
  <2>4. SweptIsFailed(r)' /\ GateFits(r)' /\ LandedFits(r)'
    BY <1>1, <2>1, <2>2, <2>3 DEF SweptIsFailed, GateFits, LandedFits, SameRun, At
  <2> QED  BY <1>5, <2>4
<1>8. CASE Asks(r)
  <2>1. PICK step \in ParkSteps : At(r, ParkFrom(step)) /\ worker'[r].at = step
    BY <1>8 DEF Asks
  <2>2. \/ step = "park_after" /\ At(r, {"landed"})
        \/ step # "park_after" /\ At(r, BusySteps \ {"merging"})
    BY <2>1 DEF ParkSteps, ParkFrom, At, BusySteps, WorkPhases, GatePhases
  <2>3. /\ step = "park_after" => ~(step \in PreLanding)
        /\ step # "park_after" => At(r, PreLanding) /\ r \notin landed
    BY <2>2, StepSets DEF LandedFits, At
  <2>4. ~Lands(r) /\ worker'[r].at \notin {"merging", "landed", "shipped"}
    BY <2>1, StepSets DEF Lands, BusySteps, GatePhases
  <2>5. SweptIsFailed(r)' /\ GateFits(r)'
    BY <1>1, <2>1, <2>3, <2>4 DEF SweptIsFailed, GateFits, SameRun, At
  <2>6. LandedFits(r)'
    BY <1>1, <2>1, <2>3, <2>4 DEF LandedFits, RecordMoves, SameRun, Claimed, At
  <2> QED  BY <1>5, <2>5, <2>6
<1>9. CASE Lands(r)
  <2>1. /\ worker'[r].at = "landed" /\ At(r, {"merging"}) /\ At(r, PreLanding)
        /\ Claimed(r)
    BY <1>9, StepSets DEF Lands, At, BusySteps, GatePhases
  <2>2. r \in landed'
    BY <1>9 DEF Lands
  <2>3. /\ ~run[r].ended => run[r].phase = "merging" /\ run[r].outcome = "none"
        /\ run[r].ended => run[r].phase = "failed" /\ run[r].outcome = "failed"
    BY <2>1 DEF GateFits, RowFits, SweptIsFailed, TerminalPhase, At
  <2>4. SweptIsFailed(r)' /\ GateFits(r)'
    BY <1>1, <2>1, <2>3, StepSets DEF SweptIsFailed, GateFits, SameRun, At
  <2>5. LandedFits(r)'
    BY <1>1, <2>1, <2>2, <2>3, StepSets DEF LandedFits, SameRun, Claimed, At
  <2> QED  BY <1>5, <2>4, <2>5
<1> QED  BY <1>5, <1>6, <1>7, <1>8, <1>9

\* The worker enters its next phase.
LEMMA EntersKept ==
  ASSUME RowsOK, TypeOK, NEW r \in RunIds, RunOK(r), EntersNext(r)
  PROVE  RunOK(r)'
<1> USE DEF RunOK
<1>1. PICK p \in NextPhases(r) : EnterPhase(r, p)
  BY DEF EntersNext
<1>2. /\ ~run[r].ended /\ ~run'[r].ended /\ run'[r].phase = p
      /\ run'[r].outcome = run[r].outcome /\ run'[r].ticket = run[r].ticket
      /\ landed' = landed /\ commanded' = commanded
  BY <1>1 DEF EnterPhase, RowsOK, RunRow
<1>3. worker'[r].at = p /\ worker'[r].ask = NeedsWord(r, p)
  BY <1>1 DEF EnterPhase, TypeOK
<1>4. /\ At(r, BusySteps) /\ p \in WorkPhases \cup GatePhases
      /\ p = "merging" => At(r, {"gate_ok"}) /\ ~worker[r].ask
  BY NextFrom
<1>5. At(r, PreLanding) /\ At(r, Attended)
  BY <1>4, StepSets DEF At
<1>6. r \notin landed /\ r \notin commanded
  BY <1>5 DEF LandedFits, IsLeft
<1>7. p \in BusySteps /\ p \in LivePhases /\ p \notin ParkedPhases
  BY <1>4 DEF BusySteps, LivePhases, ParkedPhases, WorkPhases, GatePhases
<1>8. RowFits(r)' /\ IsLeft(r)' /\ SweptIsFailed(r)'
  BY <1>2, <1>6, <1>7 DEF RowFits, IsLeft, SweptIsFailed
<1>9. p = "merging" => ~worker'[r].ask
  BY <1>3, <1>4 DEF NeedsWord, At
<1>10. GateFits(r)'
  BY <1>2, <1>3, <1>7, <1>9, StepSets DEF GateFits, At
<1>11. LandedFits(r)'
  BY <1>2, <1>3, <1>6, <1>7, StepSets DEF LandedFits, At
<1> QED  BY <1>8, <1>10, <1>11

\* The worker parks the run it asked about.
LEMMA ParksKept ==
  ASSUME NEW r \in RunIds, RunOK(r), RecordMoves(r), ParksNow(r)
  PROVE  RunOK(r)'
<1> USE DEF RunOK
<1>1. /\ At(r, ParkSteps) /\ worker'[r].at \in {"gone", "amend"}
      /\ ~run[r].ended /\ ~run'[r].ended
      /\ run'[r].phase = ParkPhase(worker[r].at)
      /\ run'[r].ticket = run[r].ticket /\ run'[r].outcome = run[r].outcome
  BY DEF ParksNow
<1>2. run'[r].phase \in ParkedPhases /\ ~At(r, {"merging"})
  BY <1>1, StepSets DEF ParkPhase, ParkedPhases, At, BusySteps, GatePhases
<1>3. worker'[r].at \notin Attended \cup PreLanding \cup {"merging", "landed", "shipped"}
  BY <1>1, StepSets DEF CloseSteps
<1>4. RowFits(r)' /\ SweptIsFailed(r)' /\ GateFits(r)'
  BY <1>1, <1>2, <1>3 DEF RowFits, SweptIsFailed, GateFits, LivePhases, At
<1>5. r \in commanded' => Claimed(r)
  BY DEF RecordMoves, IsLeft
<1>6. IsLeft(r)'
  BY <1>1, <1>3, <1>5 DEF IsLeft, Claimed, At
<1>7. r \in landed' => r \in landed
  BY <1>2 DEF RecordMoves, Lands
<1>8. r \in landed => ParkPhase(worker[r].at) = "blocked_on_operator"
  BY <1>1 DEF LandedFits, PreLanding, ParkPhase, ParkSteps, At
<1>9. LandedFits(r)'
  BY <1>1, <1>3, <1>7, <1>8 DEF LandedFits, RowFits, Claimed, At
<1> QED  BY <1>4, <1>6, <1>9

\* The worker releases the run it landed.
LEMMA ShipsKept ==
  ASSUME NEW r \in RunIds, RunOK(r), RecordMoves(r), Ships(r)
  PROVE  RunOK(r)'
<1> USE DEF RunOK
<1>1. /\ At(r, {"landed"}) /\ At(r, Attended) /\ worker'[r].at = "shipped"
      /\ r \in landed /\ r \in landed'
  BY StepSets DEF Ships, At, LandedFits, RecordMoves
<1>2. /\ run'[r].ended /\ run'[r].ticket = run[r].ticket
      /\ run'[r].phase = TerminalPhase(run'[r].outcome)
      /\ run'[r].outcome \in {"merged", "abandoned", "failed"}
  <2>1. CASE EndsAs(r, "merged")
    BY <2>1 DEF EndsAs
  <2>2. CASE run[r].ended /\ SameCore(run'[r], run[r])
    BY <1>1, <2>2 DEF SameCore, SameRun, RowFits, LandedFits
  <2> QED  BY <2>1, <2>2 DEF Ships
<1>3. run'[r].phase \in {"done", "failed"}
  BY <1>2 DEF TerminalPhase
<1>4. r \notin commanded'
  BY <1>1 DEF IsLeft, RecordMoves, At
<1>5. RowFits(r)' /\ IsLeft(r)'
  BY <1>2, <1>3, <1>4 DEF RowFits, IsLeft, ParkedPhases
<1>6. SweptIsFailed(r)' /\ GateFits(r)'
  BY <1>1, <1>2, StepSets DEF SweptIsFailed, GateFits, At
<1>7. LandedFits(r)'
  BY <1>1, <1>2, <1>3, StepSets DEF LandedFits, Claimed, At
<1> QED  BY <1>5, <1>6, <1>7

\* A run that is failed, by its worker or under it.
LEMMA FailsKept ==
  ASSUME NEW r \in RunIds, RunOK(r), RecordMoves(r), Fails(r)
  PROVE  RunOK(r)'
<1> USE DEF RunOK
<1>1. /\ ~run[r].ended /\ run'[r].ended /\ run'[r].ticket = run[r].ticket
      /\ run'[r].outcome = "failed" /\ run'[r].phase = "failed"
  BY DEF Fails, EndsAs, TerminalPhase
<1>2. worker'[r] = worker[r] \/ (/\ worker'[r].at \notin PreLanding \cup {"merging", "landed", "shipped"}
                                 /\ ~At(r, Attended) => worker'[r].at \notin Attended)
  BY QuitIsIdle DEF Fails, StaysOrQuits, PreLanding, BusySteps, GatePhases
<1>3. r \in landed' => r \in landed
  BY <1>2 DEF RecordMoves, Lands, At
<1>4. r \in commanded' => r \in commanded
  BY <1>1 DEF RecordMoves, IsStopped, SameRun
<1>5. RowFits(r)' /\ SweptIsFailed(r)'
  BY <1>1 DEF RowFits, SweptIsFailed, TerminalPhase
<1>6. IsLeft(r)'
  BY <1>1, <1>2, <1>4 DEF IsLeft, ParkedPhases, Claimed, At
<1>7. GateFits(r)'
  BY <1>1, <1>2 DEF GateFits, At
<1>8. LandedFits(r)'
  <2>1. /\ worker'[r].at \in {"landed", "shipped"} => At(r, {"landed", "shipped"})
        /\ worker'[r].at \in PreLanding => At(r, PreLanding)
    BY <1>2 DEF At
  <2>2. r \in landed => r \in landed'
    BY DEF RecordMoves
  <2> QED  BY <1>1, <1>3, <2>1, <2>2 DEF LandedFits, Claimed, At
<1> QED  BY <1>5, <1>6, <1>7, <1>8

\* The worker ends its own run, paused or abandoned.
LEMMA GivesUpKept ==
  ASSUME NEW r \in RunIds, RunOK(r), RecordMoves(r), GivesUp(r)
  PROVE  RunOK(r)'
<1> USE DEF RunOK
<1>1. /\ ~run[r].ended /\ run'[r].ended /\ run'[r].ticket = run[r].ticket
      /\ run'[r].outcome \in {"paused", "abandoned"}
      /\ run'[r].phase = TerminalPhase(run'[r].outcome)
  BY DEF GivesUp, EndsAs
<1>2. /\ At(r, PreLanding) /\ At(r, Attended)
      /\ worker'[r].at \notin PreLanding \cup {"merging", "landed", "shipped"}
  BY StepSets, QuitIsIdle DEF GivesUp, At, PreLanding, BusySteps, GatePhases
<1>3. r \notin landed'
  BY <1>2 DEF LandedFits, RecordMoves, Lands
<1>4. r \notin commanded'
  BY <1>1, <1>2 DEF IsLeft, RecordMoves, IsStopped, SameRun
<1>5. run'[r].phase \notin ParkedPhases
  BY <1>1 DEF TerminalPhase, ParkedPhases
<1>6. RowFits(r)' /\ IsLeft(r)'
  BY <1>1, <1>4, <1>5 DEF RowFits, IsLeft
<1>7. SweptIsFailed(r)' /\ GateFits(r)' /\ LandedFits(r)'
  BY <1>1, <1>2, <1>3 DEF SweptIsFailed, GateFits, LandedFits, At
<1> QED  BY <1>6, <1>7

\* A parked run, or one a command found left, is ended by the operator or the board.
LEMMA IsClosedKept ==
  ASSUME NEW r \in RunIds, RunOK(r), RecordMoves(r), IsClosed(r)
  PROVE  RunOK(r)'
<1> USE DEF RunOK
<1>1. /\ ~run[r].ended /\ run'[r].ended /\ run'[r].ticket = run[r].ticket
      /\ run'[r].outcome = "abandoned" /\ run'[r].phase = "failed"
  BY DEF IsClosed, EndsAs, TerminalPhase
<1>2. ~At(r, Attended)
  BY DEF IsClosed, IsLeft
<1>3. worker'[r].at \notin Attended
  BY <1>2, QuitIsIdle DEF IsClosed, StaysOrQuits, At
<1>4. worker'[r].at \notin PreLanding \cup {"merging", "landed", "shipped"}
  BY <1>3, StepSets DEF PreLanding, BusySteps, GatePhases
<1>5. r \in landed' => r \in landed
  BY <1>4 DEF RecordMoves, Lands
<1>6. r \in commanded' => r \in commanded
  BY <1>1 DEF RecordMoves, IsStopped, SameRun
<1>7. RowFits(r)' /\ IsLeft(r)'
  BY <1>1, <1>3, <1>6 DEF RowFits, IsLeft, TerminalPhase, ParkedPhases, Claimed, At
<1>8. SweptIsFailed(r)' /\ GateFits(r)' /\ LandedFits(r)'
  BY <1>1, <1>4, <1>5 DEF SweptIsFailed, GateFits, LandedFits, Claimed, At
<1> QED  BY <1>7, <1>8

\* What a claim writes.
LEMMA NewRow ==
  ASSUME NEW r \in RunIds, IsGranted(r)
  PROVE  /\ ~Claimed(r) /\ Claimed(r)' /\ worker'[r].at = "leased"
         /\ ~run'[r].ended /\ run'[r].phase = "claimed" /\ run'[r].outcome = "none"
         /\ StoreBoard => ticket[run'[r].ticket].status = "ready"
<1>1. PICK t \in Tickets : run'[r] = NewRun(t) /\ (StoreBoard => ticket[t].status = "ready")
  BY DEF IsGranted
<1>2. ~Claimed(r) /\ worker'[r].at = "leased"
  BY DEF IsGranted
<1>3. /\ run'[r].ticket = t /\ ~run'[r].ended
      /\ run'[r].phase = "claimed" /\ run'[r].outcome = "none"
  BY <1>1 DEF NewRun
<1> QED  BY <1>1, <1>2, <1>3 DEF Claimed

\* A new run.
LEMMA IsGrantedKept ==
  ASSUME NEW r \in RunIds, RunOK(r), RecordMoves(r), IsGranted(r)
  PROVE  RunOK(r)'
<1> USE DEF RunOK
<1>1. /\ ~Claimed(r) /\ worker'[r].at = "leased" /\ ~run'[r].ended
      /\ run'[r].phase = "claimed" /\ run'[r].outcome = "none"
  BY NewRow
<1>2. r \notin landed' /\ r \notin commanded'
  BY <1>1 DEF LandedFits, IsLeft, RecordMoves, Lands
<1>3. RowFits(r)' /\ IsLeft(r)'
  BY <1>1, <1>2 DEF RowFits, IsLeft, LivePhases, ParkedPhases
<1>4. SweptIsFailed(r)' /\ GateFits(r)' /\ LandedFits(r)'
  BY <1>1, <1>2 DEF SweptIsFailed, GateFits, LandedFits, At
<1> QED  BY <1>3, <1>4

\* A worker that goes on with a run has begun it, but for the step into its first phase.
LEMMA BegunKept ==
  ASSUME RowsOK, TypeOK, NEW r \in RunIds, RunOK(r), BegunFits(r), RunMoves(r)
  PROVE  BegunFits(r)'
<1> SUFFICES ASSUME worker'[r].at \in Begun, ~run'[r].ended, run'[r].phase = "claimed"
             PROVE  FALSE
  BY DEF BegunFits, At
<1>1. CASE EntersNext(r)
  <2>1. PICK p \in NextPhases(r) : run'[r].phase = p
    BY <1>1 DEF EntersNext, EnterPhase, RowsOK, RunRow
  <2> QED  BY <2>1, NextFrom DEF WorkPhases, GatePhases
<1>2. CASE ParksNow(r)
  BY <1>2 DEF ParksNow, ParkPhase
<1>3. CASE IsGranted(r) \/ StartsOn(r)
  BY <1>3, StepSets DEF IsGranted, StartsOn, Begun, ParkSteps
<1>4. CASE Fails(r) \/ GivesUp(r) \/ IsClosed(r)
  BY <1>4 DEF Fails, GivesUp, IsClosed, EndsAs
<1>5. CASE Rests(r) \/ IsStopped(r) \/ IsResumed(r)
  <2>1. SameRun(run'[r], run[r])
    BY <1>5 DEF Rests, IsStopped, IsResumed, SameCore
  <2>2. At(r, Begun)
    <3>1. ~Quits(r)
      BY QuitIsIdle DEF Begun
    <3> QED  BY <1>5, <3>1, StepSets
             DEF Rests, StaysOrQuits, IsStopped, IsResumed, Begun, At, BusySteps
  <2> QED  BY <2>1, <2>2 DEF BegunFits, SameRun
<1>6. CASE Advances(r) \/ Asks(r) \/ Lands(r) \/ Ships(r)
  <2>1. At(r, Begun)
    BY <1>6 DEF Advances, Asks, Lands, Ships, Begun, At, ParkSteps, ParkFrom, BusySteps,
                WorkPhases, GatePhases
  <2>2. SameRun(run'[r], run[r])
    BY <1>6 DEF Advances, Asks, Lands, Ships, SameCore, EndsAs
  <2> QED  BY <2>1, <2>2 DEF BegunFits, SameRun
<1> QED  BY <1>1, <1>2, <1>3, <1>4, <1>5, <1>6 DEF RunMoves

\* What a move writes to a run that was claimed: never its ticket, and its stop only
\* to a harder one, unless the run had ended.
LEMMA MovesKeepTicket ==
  ASSUME RowsOK, NEW r \in RunIds, RunOK(r), RunMoves(r)
  PROVE  /\ ~IsGranted(r) => TicketOf(r)' = TicketOf(r)
         /\ Claimed(r) =>
              /\ TicketOf(r)' = TicketOf(r) /\ Claimed(r)'
              /\ ~run[r].ended => run'[r].ended \/ Weight[run'[r].stop] >= Weight[run[r].stop]
<1>0. Weight[run[r].stop] \in Nat
  BY DEF RowsOK, RunRow, StopKinds, Aborts, Weight
<1>1. CASE EntersNext(r)
  <2>1. run'[r].ticket = run[r].ticket /\ run'[r].stop = run[r].stop
    BY <1>1 DEF EntersNext, EnterPhase, RowsOK, RunRow
  <2> QED  BY <1>0, <2>1 DEF TicketOf, Claimed
<1>2. CASE IsStopped(r) \/ IsResumed(r)
  <2>1. IsResumed(r) => run[r].ended
    BY DEF IsResumed, RunOK, RowFits
  <2> QED  BY <1>2, <2>1 DEF IsStopped, IsResumed, SameRun, TicketOf, Claimed
<1>3. CASE Fails(r) \/ GivesUp(r) \/ IsClosed(r)
  BY <1>3 DEF Fails, GivesUp, IsClosed, EndsAs, TicketOf, Claimed
<1>4. CASE ParksNow(r)
  BY <1>0, <1>4 DEF ParksNow, TicketOf, Claimed
<1>5. CASE Rests(r) \/ StartsOn(r) \/ Advances(r) \/ Asks(r) \/ Lands(r) \/ Ships(r)
  BY <1>0, <1>5 DEF Rests, StartsOn, Advances, Asks, Lands, Ships, SameCore, SameRun, EndsAs,
                    TicketOf, Claimed
<1>6. CASE IsGranted(r)
  BY <1>6 DEF IsGranted
<1> QED  BY <1>1, <1>2, <1>3, <1>4, <1>5, <1>6 DEF RunMoves

\* A worker that works or closes out had a run, or is granted one.
LEMMA HiredKept ==
  ASSUME RowsOK, NEW r \in RunIds, RunOK(r), Hired(r), RunMoves(r)
  PROVE  Hired(r)'
<1> SUFFICES ASSUME worker'[r].at \in Attended
             PROVE  Claimed(r)'
  BY DEF Hired, At
<1>1. CASE IsGranted(r)
  BY <1>1, NewRow
<1>2. CASE ~IsGranted(r)
  <2>1. At(r, Attended)
    <3>1. CASE StaysOrQuits(r)
      BY <3>1, QuitIsIdle DEF StaysOrQuits, At
    <3>2. CASE At(r, BusySteps \cup ParkSteps \cup {"leased", "landed"})
      BY <3>2, StepSets DEF At
    <3>3. CASE Asks(r)
      BY <3>3, StepSets DEF Asks, At, ParkSteps, ParkFrom, BusySteps, WorkPhases
    <3> QED  BY <1>2, <3>1, <3>2, <3>3, NextFrom
             DEF RunMoves, Rests, StartsOn, Advances, EntersNext, ParksNow, Lands, Ships, Fails,
                 GivesUp, IsClosed, IsStopped, IsResumed, At, BusySteps, WorkPhases, GatePhases
  <2> QED  BY <2>1, MovesKeepTicket DEF Hired
<1> QED  BY <1>1, <1>2

\* Every move of a run keeps what holds of it.
LEMMA RunKept ==
  ASSUME LeaseInv, RunInv, Moves
  PROVE  RunInv'
<1> SUFFICES ASSUME NEW r \in RunIds
             PROVE  RunOK(r)' /\ BegunFits(r)' /\ Hired(r)'
  BY DEF RunInv
<1>1. RunOK(r) /\ BegunFits(r) /\ Hired(r) /\ RunMoves(r) /\ RecordMoves(r) /\ RowsOK /\ TypeOK
  BY TypeParts DEF RunInv, Moves, LeaseInv
<1>2. RunOK(r)'
  BY <1>1, RestKept, WorksOnKept, EntersKept, ParksKept, ShipsKept, FailsKept,
     GivesUpKept, IsClosedKept, IsGrantedKept DEF RunMoves
<1> QED  BY <1>1, <1>2, BegunKept, HiredKept

\* No run is claimed and no worker works.
LEMMA RunInit == Init => RunInv
<1> SUFFICES ASSUME Init, NEW r \in RunIds
             PROVE  RunOK(r) /\ BegunFits(r) /\ Hired(r)
  BY DEF RunInv
<1>1. /\ worker[r].at = "none" /\ ~run[r].ended /\ run[r].phase = "claimed"
      /\ run[r].outcome = "none" /\ landed = {} /\ commanded = {}
  BY DEF Init, NewRun, NoWorker
<1>2. RowFits(r) /\ IsLeft(r)
  BY <1>1 DEF RowFits, IsLeft, LivePhases, ParkedPhases
<1>3. SweptIsFailed(r) /\ GateFits(r) /\ LandedFits(r)
  BY <1>1, StepSets DEF SweptIsFailed, GateFits, LandedFits, At
<1>4. BegunFits(r) /\ Hired(r)
  BY <1>1, StepSets DEF BegunFits, Hired, Begun, Attended, LiveSteps, At
<1> QED  BY <1>2, <1>3, <1>4 DEF RunOK

\* Each run's row, its worker and its landing agree at every point of every
\* interleaving of workers, sweeps, commands and board passes.
THEOREM RunInvariant == Spec => []RunInv
<1>1. LeaseInv /\ RunInv /\ [Next]_vars => RunInv'
  <2>1. ASSUME LeaseInv, RunInv, [Next]_vars
        PROVE  RunInv'
    BY <2>1, StepMoves, RunKept
  <2> QED  BY <2>1
<1> QED  BY <1>1, RunInit, LeaseInvariant, PTL DEF Spec

-----------------------------------------------------------------------------
(***************************************************************************)
(* Close-outs, stops and merged tickets.                                   *)
(***************************************************************************)
\* Whatever phase the run of a worker, of a park or of a landing is in, a sweep or a
\* supervisor may fail it and an operator abort it.
THEOREM CloseOutLegal == Spec => []CloseOutIsLegal
<1>1. RunInv => CloseOutIsLegal
  <2> SUFFICES ASSUME RunInv, NEW r \in RunIds, Live(r)
               PROVE  MayEnd(run[r], "failed") /\ MayEnd(run[r], "abandoned")
    BY DEF CloseOutIsLegal
  <2>1. ~run[r].ended /\ run[r].phase \in LivePhases
    BY DEF RunInv, RunOK, RowFits, Live
  <2>2. <<run[r].phase, "failed">> \in RunPhaseEdges
    BY <2>1 DEF LivePhases, WorkPhases, GatePhases, ParkedPhases, RunPhaseEdges
  <2> QED  BY <2>1, <2>2 DEF MayEnd, RunMayMove, TerminalPhase
<1> QED  BY <1>1, RunInvariant, PTL

\* No command, board pass or gate answer takes back or weakens a stop that another
\* has asked of a run that has not ended.
THEOREM StopsHarden == Spec => StopsOnlyHarden
<1> DEFINE Hardens == \A r \in RunIds : Live(r) /\ ~run'[r].ended =>
                        Weight[run'[r].stop] >= Weight[run[r].stop]
<1>1. LeaseInv /\ RunInv /\ [Next]_vars => [Hardens]_vars
  <2> SUFFICES ASSUME LeaseInv, RunInv, [Next]_vars, NEW r \in RunIds, Live(r), ~run'[r].ended
               PROVE  Weight[run'[r].stop] >= Weight[run[r].stop]
    OBVIOUS
  <2>1. RowsOK /\ RunOK(r) /\ RunMoves(r) /\ Claimed(r) /\ ~run[r].ended
    BY TypeParts, StepMoves DEF LeaseInv, RunInv, Moves, Live
  <2> QED  BY <2>1, MovesKeepTicket
<1> HIDE DEF Hardens
<1>2. Spec => [][Hardens]_vars
  BY <1>1, LeaseInvariant, RunInvariant, PTL DEF Spec
<1> QED  BY <1>2 DEF StopsOnlyHarden, Hardens

\* A ticket that says merged has a landed run, or a board that says Done, whatever
\* commands, sweeps and board passes came between the landing and the status.
THEOREM MergedLanded == Spec => []MergedMeansLanded
<1>1. Init => MergedMeansLanded
  BY DEF Init, NewTicket, MergedMeansLanded
<1>2. LeaseInv /\ RunInv /\ MergedMeansLanded /\ [Next]_vars => MergedMeansLanded'
  <2> SUFFICES ASSUME LeaseInv, RunInv, MergedMeansLanded, [Next]_vars,
                      NEW t \in Tickets, ticket'[t].status = "merged",
                      ticket'[t].board # "Done"
               PROVE  \E r \in landed' : TicketOf(r)' = t
    BY DEF MergedMeansLanded
  <2>1. Moves
    BY StepMoves
  <2>2. ticket[t].board # "Done"
    BY <2>1 DEF Moves, TicketMoves, BoardMoves
  <2>3. \E r \in landed : TicketOf(r) = t
    <3>1. CASE ticket[t].status = "merged"
      BY <2>2, <3>1 DEF MergedMeansLanded
    <3>2. CASE ticket[t].status # "merged"
      <4>1. \E r \in RunIds : TicketOf(r) = t /\ At(r, {"shipped"})
        BY <2>1, <2>2, <3>2 DEF Moves, TicketMoves, StatusMoves, Unlisted
      <4> QED  BY <4>1 DEF RunInv, RunOK, LandedFits, At
    <3> QED  BY <3>1, <3>2
  <2>4. PICK r \in landed : TicketOf(r) = t
    BY <2>3
  <2>5. r \in RunIds /\ RowsOK
    BY TypeParts DEF LeaseInv, TypeOK
  <2>6. Claimed(r) /\ RunOK(r) /\ RunMoves(r) /\ r \in landed'
    BY <2>1, <2>5 DEF RunInv, RunOK, LandedFits, Moves, RecordMoves
  <2> QED  BY <2>4, <2>5, <2>6, MovesKeepTicket
<1> QED  BY <1>1, <1>2, LeaseInvariant, RunInvariant, PTL DEF Spec

-----------------------------------------------------------------------------
(***************************************************************************)
(* The newest run of a ticket is the one its lease columns name.           *)
(***************************************************************************)
Numbered ==
  /\ \A r, q \in RunIds : q < r /\ Claimed(r) => Claimed(q)
  /\ \A r \in RunIds : Claimed(r) => r <= Latest(TicketOf(r))

\* A claim takes the next number, and a release keeps the number it gives back.
LEMMA NumberedStep ==
  ASSUME LeaseInv, Numbered, [Next]_vars
  PROVE  Numbered'
<1>0. /\ \A t \in Tickets : Latest(t) \in {NoRun} \cup RunIds
      /\ \A r \in RunIds : Claimed(r) => TicketOf(r) \in Tickets
      /\ NoRun \notin RunIds /\ RunIds \subseteq Nat
  BY RunIdsAreRuns DEF LeaseInv, TypeOK, TicketRow, Latest, Claimed, TicketOf, RunIds
<1>1. ASSUME \A i \in RunIds : run'[i].ticket = run[i].ticket,
             \A t \in Tickets : Latest(t)' = Latest(t)
      PROVE  Numbered'
  <2>1. \A i \in RunIds : (Claimed(i)' <=> Claimed(i)) /\ TicketOf(i)' = TicketOf(i)
    BY <1>1 DEF Claimed, TicketOf
  <2> QED  BY <1>0, <1>1, <2>1 DEF Numbered
<1>2. CASE Keeps \/ \E r \in RunIds : Enters(r)
  <2>1. \A i \in RunIds : run'[i].ticket = run[i].ticket
    BY <1>2 DEF Keeps, Enters, Others, SameRun
  <2>2. \A t \in Tickets : Latest(t)' = Latest(t)
    BY <1>2 DEF Keeps, Enters, Leases, SameLease, Latest
  <2> QED  BY <1>1, <2>1, <2>2
<1>3. ASSUME NEW r \in RunIds, Parks(r) \/ Ends(r)
      PROVE  Numbered'
  <2>1. \A i \in RunIds : run'[i].ticket = run[i].ticket
    BY <1>3 DEF Parks, Ends, Others, SameRun
  <2>2. \A t \in Tickets : Latest(t)' = Latest(t)
    BY <1>0, <1>3 DEF Parks, Ends, GivesBack, SameLease, Latest
  <2> QED  BY <1>1, <2>1, <2>2
<1>4. ASSUME NEW t \in Tickets, NEW r \in RunIds, Grants(t, r)
      PROVE  Numbered'
  <2>1. /\ Claimed(r)' /\ TicketOf(r)' = t /\ Latest(t)' = r
        /\ \A i \in RunIds \ {r} : (Claimed(i)' <=> Claimed(i)) /\ TicketOf(i)' = TicketOf(i)
        /\ \A u \in Tickets \ {t} : Latest(u)' = Latest(u)
    BY <1>0, <1>4 DEF Grants, Others, SameRun, SameLease, NewRun, Claimed, TicketOf, Latest
  <2>2. /\ ~Claimed(r) /\ \A i \in RunIds : i < r => Claimed(i)
    BY <1>4 DEF Grants
  <2>3. \A i \in RunIds : Claimed(i) => i < r
    BY <1>0, <2>2 DEF Numbered
  <2>4. \A i, q \in RunIds : q < i /\ Claimed(i)' => Claimed(q)'
    BY <1>0, <2>1, <2>2, <2>3 DEF Numbered
  <2>5. \A i \in RunIds : Claimed(i)' => i <= Latest(TicketOf(i))'
    <3> SUFFICES ASSUME NEW i \in RunIds, Claimed(i)'
                 PROVE  i <= Latest(TicketOf(i))'
      OBVIOUS
    <3>1. CASE i = r
      BY <1>0, <2>1, <3>1
    <3>2. CASE i # r /\ TicketOf(i) = t
      BY <1>0, <2>1, <2>3, <3>2
    <3>3. CASE i # r /\ TicketOf(i) # t
      BY <1>0, <2>1, <3>3 DEF Numbered
    <3> QED  BY <3>1, <3>2, <3>3
  <2> QED  BY <2>4, <2>5 DEF Numbered
<1> QED  BY <1>2, <1>3, <1>4, EffectOfStep DEF Effect

\* Runs are claimed in the order of their numbers, and the newest of a ticket's runs
\* is the one the operator's commands, a requeue and an approval ask about.
THEOREM NewestIsLatest == Spec => []Numbered
<1>1. Init => Numbered
  BY RowsAssumption DEF Init, NewRun, Numbered, Claimed
<1>2. LeaseInv /\ Numbered /\ [Next]_vars => Numbered'
  BY NumberedStep
<1> QED  BY <1>1, <1>2, LeaseInvariant, PTL DEF Spec

\* What every step below is taken from.
Base == LeaseInv /\ RunInv /\ Numbered

\* It holds of every reachable state.
LEMMA BaseInvariant == Spec => []Base
  BY LeaseInvariant, RunInvariant, NewestIsLatest, PTL DEF Base

\* What one run knows before and after a step.
LEMMA RunParts ==
  ASSUME Base, Moves, NEW r \in RunIds
  PROVE  /\ RowsOK /\ RunOK(r) /\ BegunFits(r) /\ RunMoves(r) /\ RecordMoves(r)
         /\ RunOK(r)'
         /\ Claimed(r) => /\ TicketOf(r) \in Tickets
                          /\ TicketOf(r)' = TicketOf(r) /\ Claimed(r)'
<1>1. RowsOK /\ RunOK(r) /\ BegunFits(r) /\ RunMoves(r) /\ RecordMoves(r)
  BY TypeParts DEF Base, LeaseInv, RunInv, Moves
<1>2. RunOK(r)'
  BY RunKept DEF Base, RunInv
<1> QED  BY <1>1, <1>2, MovesKeepTicket DEF Claimed, TicketOf

\* The run at work on a ticket is its newest.
LEMMA WorkingIsNewest ==
  ASSUME Base, NEW r \in RunIds, Claimed(r), ~run[r].ended, run[r].phase \notin ParkedPhases,
         NEW q \in RunIds, Claimed(q), TicketOf(q) = TicketOf(r)
  PROVE  ticket[TicketOf(r)].active = r /\ Latest(TicketOf(r)) = r /\ q <= r
<1>1. ticket[TicketOf(r)].active = r /\ r # NoRun
  BY RunIdsAreRuns DEF Base, LeaseInv, LeaseAgreement
<1> QED  BY <1>1 DEF Base, Numbered, Latest

-----------------------------------------------------------------------------
(***************************************************************************)
(* Approvals.                                                              *)
(***************************************************************************)
\* An earlier run of the ticket was approved.
HasWord(r) == \E p \in Earlier(r) : p < r /\ run[p].approved

\* A worker past its start asks for an approval or has one already.
Cleared(r) == (At(r, BusySteps \ {"start"}) /\ ~worker[r].ask) \/ r \in landed

WordInv == Approve => \A r \in RunIds : Cleared(r) => HasWord(r)

\* The candidate a run carries to the gate is approved unless its run had paused.
LEMMA CarriedHasWord ==
  ASSUME Base, NEW r \in RunIds, Claimed(r), ~run[r].ended, run[r].phase \notin ParkedPhases,
         Carries(r), ~CarriesPaused(r)
  PROVE  HasWord(r)
<1>1. PICK p \in Earlier(r) : /\ \A i \in Earlier(r) : i <= p
                              /\ run[p].approved \/ run[p].outcome = "paused"
  BY DEF Carries
<1>2. run[p].approved
  BY <1>1 DEF CarriesPaused
<1>3. p \in RunIds \ {r} /\ Claimed(p) /\ TicketOf(p) = TicketOf(r)
  BY DEF Earlier
<1>4. p <= r
  BY <1>3, WorkingIsNewest
<1>5. p < r
  BY <1>3, <1>4, RunIdsAreRuns
<1> QED  BY <1>2, <1>5 DEF HasWord

\* A run that may go on without asking could do so before, or carries an approval.
LEMMA ClearedStep ==
  ASSUME Base, Moves, Approve, NEW r \in RunIds, Cleared(r)'
  PROVE  Claimed(r) /\ (Cleared(r) \/ HasWord(r))
<1>0. RowsOK /\ TypeOK /\ RunOK(r) /\ Hired(r) /\ RunMoves(r) /\ RecordMoves(r)
  BY RunParts DEF Base, LeaseInv, RunInv
<1> DEFINE Past == BusySteps \ {"start"}
<1>1. CASE r \in landed'
  <2>1. r \in landed \/ Lands(r)
    BY <1>0, <1>1 DEF RecordMoves
  <2>2. Lands(r) => Claimed(r) /\ At(r, Past) /\ ~worker[r].ask
    BY <1>0 DEF Lands, RunOK, GateFits, At, BusySteps, GatePhases
  <2> QED  BY <1>0, <2>1, <2>2 DEF Cleared, RunOK, LandedFits
<1>2. CASE worker'[r].at \in Past /\ ~worker'[r].ask
  <2>1. CASE EntersNext(r)
    <3>1. PICK p \in NextPhases(r) : EnterPhase(r, p)
      BY <2>1 DEF EntersNext
    <3>2. worker'[r].ask = NeedsWord(r, p) /\ ~run[r].ended /\ At(r, BusySteps)
      BY <1>0, <3>1, NextFrom DEF EnterPhase, TypeOK
    <3>3. Claimed(r) /\ run[r].phase \notin ParkedPhases
      BY <1>0, <3>2, StepSets DEF Hired, RunOK, IsLeft, At
    <3>4. CASE At(r, {"start"})
      <4>1. p = "merge_gate" /\ ~CarriesPaused(r)
        BY <1>2, <3>2, <3>4 DEF NeedsWord
      <4>2. Carries(r)
        BY <3>4, <4>1 DEF NextPhases, At
      <4> QED  BY <3>2, <3>3, <4>1, <4>2, CarriedHasWord
    <3>5. CASE ~At(r, {"start"})
      BY <1>2, <3>2, <3>3, <3>5 DEF NeedsWord, Cleared, At
    <3> QED  BY <3>4, <3>5
  <2>2. CASE ~EntersNext(r)
    <3>1. At(r, Past) /\ worker'[r].ask = worker[r].ask
      <4>1. ~Quits(r)
        BY <1>2, QuitIsIdle
      <4>2. CASE worker'[r] = worker[r]
        BY <1>2, <4>2 DEF At
      <4>3. CASE Advances(r) \/ IsStopped(r)
        BY <1>2, <4>3 DEF Advances, IsStopped, At, BusySteps, WorkPhases, GatePhases
      <4>4. ~(StartsOn(r) \/ Asks(r) \/ ParksNow(r) \/ Lands(r) \/ Ships(r) \/ IsGranted(r))
        BY <1>2, StepSets DEF StartsOn, Asks, ParksNow, Lands, Ships, IsGranted, CloseSteps
      <4> QED  BY <1>0, <2>2, <4>1, <4>2, <4>3, <4>4
               DEF RunMoves, Rests, Fails, GivesUp, IsClosed, IsResumed, StaysOrQuits
    <3> QED  BY <1>0, <1>2, <3>1, StepSets DEF Cleared, Hired, At
  <2> QED  BY <2>1, <2>2
<1> QED  BY <1>1, <1>2 DEF Cleared, At

\* An approval of an earlier run stays: only of its newest run does a ticket's requeue
\* take it back.
LEMMA WordStays ==
  ASSUME Base, Moves, NEW r \in RunIds, Claimed(r), HasWord(r)
  PROVE  HasWord(r)'
<1>1. PICK p \in Earlier(r) : p < r /\ run[p].approved
  BY DEF HasWord
<1>2. p \in RunIds \ {r} /\ Claimed(p) /\ TicketOf(p) = TicketOf(r)
  BY DEF Earlier
<1>3. p \in Earlier(r)'
  BY <1>2, RunParts DEF Earlier
<1>4. p # Latest(TicketOf(p))
  <2>1. r <= Latest(TicketOf(r))
    BY DEF Base, Numbered
  <2>2. RowsOK /\ TicketOf(r) \in Tickets
    BY RunParts
  <2>3. Latest(TicketOf(r)) \in {NoRun} \cup RunIds
    BY <2>2, LatestType
  <2>4. Latest(TicketOf(r)) \in Nat
    <3>1. NoRun \in Nat
      BY DEF NoRun
    <3> QED  BY <2>3, <3>1, RunIdsAreRuns
  <2> QED  BY <1>1, <1>2, <2>1, <2>4, RunIdsAreRuns
<1>5. run'[p].approved
  BY <1>1, <1>2, <1>4, RunParts DEF RecordMoves
<1> QED  BY <1>1, <1>3, <1>5 DEF HasWord

\* With approve = "human" nothing reaches main without an approval of an earlier run
\* of its ticket, whatever pauses, hand-offs, sweeps and requeues lie between them.
THEOREM LandingApproved == Spec => []LandNeedsApproval
<1>1. Init => WordInv
  BY StepSets DEF Init, NoWorker, WordInv, Cleared, At
<1>2. Base /\ WordInv /\ [Next]_vars => WordInv'
  <2> SUFFICES ASSUME Base, WordInv, [Next]_vars, Approve, NEW r \in RunIds, Cleared(r)'
               PROVE  HasWord(r)'
    BY DEF WordInv
  <2>1. Moves
    BY StepMoves DEF Base
  <2>2. Claimed(r) /\ HasWord(r)
    BY <2>1, ClearedStep DEF WordInv
  <2> QED  BY <2>1, <2>2, WordStays
<1>3. Base /\ WordInv => LandNeedsApproval
  BY DEF Base, LeaseInv, TypeOK, WordInv, Cleared, HasWord, LandNeedsApproval
<1> QED  BY <1>1, <1>2, <1>3, BaseInvariant, PTL DEF Spec

-----------------------------------------------------------------------------
(***************************************************************************)
(* Landings.                                                               *)
(***************************************************************************)
\* A run that failed or was aborted allows the ticket of run r to be worked again:
\* one at least as new as r, or any when workers hand off or requeue by themselves.
Spoilt(p)     == /\ run[p].ended
                 /\ run[p].outcome = "failed" \/ (run[p].outcome = "abandoned" /\ Aborted(p))
Allows(p, r)  == TicketOf(p) = TicketOf(r) /\ Spoilt(p) /\ (p >= r \/ Pool \/ StoreBoard)
Allowed(r)    == \E p \in RunIds : Allows(p, r)
AllowedBy(q, r) == \E p \in RunIds : p < q /\ Allows(p, r)

\* A run that has gone beyond its claim otherwise than by failing.
Beyond(q) == \/ At(q, {"start"}) /\ ~run[q].ended
             \/ At(q, BusySteps \ {"start"})
             \/ q \in landed
             \/ run[q].phase \notin {"claimed", "failed"}

Shut == {"blocked_on_operator", "merged", "abandoned"}

\* No later run goes beyond its claim ...
NoSecond(r, q) == r < q /\ Claimed(q) /\ TicketOf(q) = TicketOf(r) /\ Beyond(q) => AllowedBy(q, r)
\* ... because the ticket of a run at work or landed is in flight or shut,
Takes(r)      == (At(r, BusySteps) /\ ~run[r].ended) \/ r \in landed
StaysTaken(r) == Takes(r) =>
                   ticket[TicketOf(r)].status \in {"in_flight"} \cup Shut \/ Allowed(r)
\* shut when the run parks after it landed,
StaysShut(r)  == At(r, {"park_after"}) \/ Parked(r) =>
                   ticket[TicketOf(r)].status \in Shut \/ Allowed(r)
\* and that park is not one a requeue releases.
StaysParked(r) == Parked(r) /\ run[r].park = "contradiction" => Allowed(r)

LandingInv ==
  /\ \A r \in RunIds : StaysTaken(r)
  /\ \A r \in landed : /\ \A q \in RunIds : NoSecond(r, q)
                        /\ StaysShut(r) /\ StaysParked(r)

\* What allows a ticket to be worked again goes on doing so.
LEMMA AllowsStays ==
  ASSUME Base, Moves, NEW p \in RunIds, NEW r \in RunIds, Claimed(r), Allows(p, r)
  PROVE  Allows(p, r)'
<1>1. /\ RunMoves(p) /\ Claimed(p) /\ TicketOf(p)' = TicketOf(p) /\ TicketOf(r)' = TicketOf(r)
  BY RunParts DEF Allows, Spoilt, Base, LeaseInv, EndedIsOver
<1>2. run[p].ended /\ run[p].outcome \in {"failed", "abandoned"}
  BY DEF Allows, Spoilt
<1>3. SameCore(run'[p], run[p])
  BY <1>1, <1>2 DEF RunMoves, Rests, StartsOn, Advances, EntersNext, EnterPhase, Asks, ParksNow,
                    Lands, Ships, Fails, GivesUp, IsClosed, IsStopped, IsResumed, IsGranted, EndsAs
<1> QED  BY <1>1, <1>3 DEF Allows, Spoilt, Aborted, SameCore, SameRun

\* ... of all runs and of those before a given one.
LEMMA AllowedStays ==
  ASSUME Base, Moves, NEW r \in RunIds, Claimed(r)
  PROVE  /\ Allowed(r) => Allowed(r)'
         /\ \A q \in RunIds : AllowedBy(q, r) => AllowedBy(q, r)'
  BY AllowsStays DEF Allowed, AllowedBy

\* A run that takes its ticket is the run at work on it, or has landed.
LEMMA TakesIsClaimed ==
  ASSUME Base, NEW r \in RunIds, Takes(r)
  PROVE  /\ Claimed(r) /\ TicketOf(r) \in Tickets /\ r \in Nat
         /\ r <= Latest(TicketOf(r))
         /\ r \notin landed => /\ ~run[r].ended
                               /\ ticket[TicketOf(r)].active = r /\ Latest(TicketOf(r)) = r
<1>1. RunOK(r) /\ Hired(r)
  BY DEF Base, RunInv
<1>2. Claimed(r)
  BY <1>1, StepSets DEF Takes, Hired, RunOK, LandedFits, At
<1>3. r \notin landed => ~run[r].ended /\ run[r].phase \notin ParkedPhases
  BY <1>1, StepSets DEF Takes, RunOK, IsLeft, At
<1>4. r \notin landed => ticket[TicketOf(r)].active = r /\ Latest(TicketOf(r)) = r
  BY <1>2, <1>3, WorkingIsNewest
<1> QED  BY <1>2, <1>3, <1>4, RunIdsAreRuns DEF Base, Numbered, Claimed, TicketOf

\* A run newer than a landed one and beyond its claim is allowed.
LEMMA SecondIsAllowed ==
  ASSUME LandingInv, NEW r \in landed, NEW q \in RunIds, q # r, r \in Nat, q \in Nat, r <= q,
         Claimed(q), TicketOf(q) = TicketOf(r), Beyond(q)
  PROVE  Allowed(r)
<1>1. r < q
  OBVIOUS
<1> QED  BY <1>1 DEF LandingInv, NoSecond, AllowedBy, Allowed

\* A ticket with a run that takes it is made ready only if that is allowed.
LEMMA HandedBackIsAllowed ==
  ASSUME Base, Moves, LandingInv, NEW r \in RunIds, Takes(r), Takes(r)', NEW q \in RunIds,
         HandsBack(TicketOf(r), q)
  PROVE  Allowed(r)
<1>1. /\ Claimed(q) /\ TicketOf(q) = TicketOf(r) /\ (Pool \/ StoreBoard)
      /\ At(q, {"approved", "gate_ok"}) /\ worker'[q].at = "gone"
  BY DEF HandsBack
<1>2. /\ At(q, BusySteps \ {"start"}) /\ At(q, PreLanding) /\ At(q, Attended)
  BY <1>1, StepSets DEF At, BusySteps
<1>3. RunOK(q) /\ RecordMoves(q)
  BY RunParts
<1>4. CASE run[q].ended
  <2>1. run[q].outcome = "failed"
    BY <1>2, <1>3, <1>4 DEF RunOK, SweptIsFailed
  <2> QED  BY <1>1, <1>4, <2>1 DEF Allowed, Allows, Spoilt
<1>5. CASE ~run[q].ended
  <2>1. run[q].phase \notin ParkedPhases
    BY <1>2, <1>3 DEF RunOK, IsLeft
  <2>2. Claimed(r) /\ r \in Nat /\ (r \notin landed => ticket[TicketOf(r)].active = r)
    BY TakesIsClaimed
  <2>3. ticket[TicketOf(q)].active = q /\ r <= q
    BY <1>1, <1>5, <2>1, <2>2, WorkingIsNewest
  <2>4. r # q
    <3> SUFFICES ASSUME r = q
                 PROVE  FALSE
      OBVIOUS
    <3>1. r \notin landed /\ ~Lands(r)
      BY <1>1, <1>2, <1>3 DEF RunOK, LandedFits, Lands
    <3>2. r \notin landed' /\ worker'[r].at \notin BusySteps
      BY <1>1, <1>3, <3>1, StepSets DEF RecordMoves
    <3> QED  BY <3>2 DEF Takes, At
  <2>5. r \in landed /\ Beyond(q)
    BY <1>1, <1>2, <2>2, <2>3, <2>4 DEF Beyond
  <2> QED  BY <1>1, <2>2, <2>3, <2>4, <2>5, RunIdsAreRuns, SecondIsAllowed
<1> QED  BY <1>4, <1>5

\* A ticket reopened at its last run, which is the landed one or newer.
LEMMA ReopenedIsAllowed ==
  ASSUME Base, LandingInv, NEW r \in RunIds, Takes(r), NEW q \in RunIds,
         Reopens(TicketOf(r), q)
  PROVE  Allowed(r)
<1> DEFINE t == TicketOf(r)
<1>1. /\ ticket[t].active = NoRun /\ q = ticket[t].last
      /\ \/ run[q].outcome \in {"failed", "rejected"}
         \/ run[q].outcome = "abandoned" /\ Aborted(q)
         \/ run[q].phase = "awaiting_merge_approval"
         \/ run[q].phase = "blocked_on_operator" /\ run[q].park = "contradiction"
  BY DEF Reopens
<1>2. Claimed(r) /\ t \in Tickets /\ r \in Nat /\ r <= Latest(t) /\ r \in landed
  BY <1>1, TakesIsClaimed, RunIdsAreRuns
<1>3. Claimed(q) /\ TicketOf(q) = t /\ q \in Nat /\ r <= q
  <2>1. Latest(t) = q
    BY <1>1 DEF Latest
  <2> QED  BY <1>1, <1>2, <2>1, LastIsIdle, RunIdsAreRuns DEF Base
<1> HIDE DEF t
<1>4. RowFits(q) /\ LandedFits(r)
  BY DEF Base, RunInv, RunOK
<1>5. CASE run[q].outcome \in {"failed", "rejected"} \/ (run[q].outcome = "abandoned" /\ Aborted(q))
  <2>1. Spoilt(q)
    BY <1>4, <1>5 DEF RowFits, Spoilt
  <2> QED  BY <1>3, <2>1 DEF Allowed, Allows, t
<1>6. CASE run[q].phase \in ParkedPhases
  <2>1. Beyond(q) /\ ~run[q].ended
    BY <1>4, <1>6 DEF Beyond, ParkedPhases, RowFits, TerminalPhase
  <2>2. CASE q = r
    <3>1. run[r].park = "contradiction" /\ Parked(r)
      BY <1>1, <1>2, <1>4, <1>6, <2>1, <2>2
         DEF LandedFits, RowFits, TerminalPhase, Parked, Live, ParkedPhases
    <3> QED  BY <1>2, <3>1 DEF LandingInv, StaysParked
  <2>3. CASE q # r
    BY <1>2, <1>3, <2>1, <2>3, SecondIsAllowed DEF t
  <2> QED  BY <2>2, <2>3
<1> QED  BY <1>1, <1>5, <1>6 DEF ParkedPhases

\* A ticket whose newest run had paused, which a run that landed never had.
LEMMA ResumedIsAllowed ==
  ASSUME Base, LandingInv, NEW r \in RunIds, Takes(r), NEW q \in RunIds,
         Resumes(TicketOf(r), q)
  PROVE  Allowed(r)
<1>1. q = Latest(TicketOf(r)) /\ run[q].outcome = "paused"
  BY DEF Resumes
<1>2. /\ Claimed(r) /\ TicketOf(r) \in Tickets /\ r \in Nat /\ r <= q
      /\ r \notin landed => ~run[r].ended /\ q = r
  BY <1>1, TakesIsClaimed
<1>3. Claimed(q) /\ TicketOf(q) = TicketOf(r) /\ q \in Nat
  BY <1>1, <1>2, LatestIsClaimed, RunIdsAreRuns DEF Base
<1>4. run[q].ended /\ run[q].phase = "paused"
  BY <1>1 DEF Base, RunInv, RunOK, RowFits, TerminalPhase
<1>5. r \in landed
  BY <1>2, <1>4
<1>6. q # r
  BY <1>1, <1>5 DEF Base, RunInv, RunOK, LandedFits
<1>7. Beyond(q)
  BY <1>4 DEF Beyond
<1> QED  BY <1>2, <1>3, <1>5, <1>6, <1>7, SecondIsAllowed

\* A run comes to take its ticket by starting work on it, or takes it already.
LEMMA TakesStep ==
  ASSUME Base, Moves, NEW r \in RunIds, Takes(r)'
  PROVE  Takes(r) \/ StartsOn(r) \/ (Lands(r) /\ Spoilt(r))
<1>0. RunMoves(r) /\ RecordMoves(r) /\ RunOK(r)
  BY RunParts
<1>1. CASE r \in landed'
  <2>1. CASE Lands(r)
    <3>1. At(r, BusySteps) /\ At(r, PreLanding)
      BY <2>1, StepSets DEF Lands, At, BusySteps, GatePhases
    <3>2. run[r].ended => run[r].outcome = "failed"
      BY <1>0, <3>1 DEF RunOK, SweptIsFailed
    <3> QED  BY <2>1, <3>1, <3>2 DEF Takes, Spoilt
  <2>2. CASE ~Lands(r)
    BY <1>0, <1>1, <2>2 DEF RecordMoves, Takes
  <2> QED  BY <2>1, <2>2
<1>2. CASE worker'[r].at \in BusySteps /\ ~run'[r].ended
  <2>1. CASE EntersNext(r)
    BY <2>1, NextFrom DEF EntersNext, EnterPhase, Takes
  <2>2. CASE Rests(r) \/ Fails(r) \/ GivesUp(r) \/ IsClosed(r) \/ IsStopped(r) \/ IsResumed(r)
    <3>1. ~Quits(r)
      BY <1>2, QuitIsIdle
    <3>2. /\ SameRun(run'[r], run[r])
          /\ worker'[r] = worker[r] \/ At(r, {"gate_ok"})
      BY <1>2, <2>2, <3>1 DEF Rests, Fails, GivesUp, IsClosed, IsStopped, IsResumed, SameCore,
                              EndsAs, StaysOrQuits
    <3> QED  BY <1>2, <3>2 DEF Takes, SameRun, At, BusySteps
  <2>3. CASE Advances(r)
    BY <2>3 DEF Advances, Takes, At, BusySteps, WorkPhases, GatePhases
  <2>4. ~(Asks(r) \/ ParksNow(r) \/ Lands(r) \/ Ships(r) \/ IsGranted(r))
    BY <1>2, StepSets DEF Asks, ParksNow, Lands, Ships, IsGranted, CloseSteps
  <2> QED  BY <1>0, <2>1, <2>2, <2>3, <2>4 DEF RunMoves
<1> QED  BY <1>1, <1>2 DEF Takes, At

\* The ticket of a run at work or landed stays in flight or shut.
LEMMA TakenStep ==
  ASSUME Base, Moves, LandingInv, NEW r \in RunIds
  PROVE  StaysTaken(r)'
<1> SUFFICES ASSUME Takes(r)', ~Allowed(r)'
             PROVE  ticket'[TicketOf(r)'].status \in {"in_flight"} \cup Shut
  BY DEF StaysTaken
<1>1. CASE Takes(r)
  <2> DEFINE t == TicketOf(r)
  <2>1. /\ Claimed(r) /\ t \in Tickets /\ TicketOf(r)' = t /\ ~Allowed(r)
    BY <1>1, TakesIsClaimed, AllowedStays, RunParts
  <2>2. ticket[t].status \in {"in_flight"} \cup Shut
    BY <1>1, <2>1 DEF LandingInv, StaysTaken
  <2>3. ~ \E q \in RunIds : HandsBack(t, q) \/ Reopens(t, q) \/ Resumes(t, q)
    BY <1>1, <2>1, HandedBackIsAllowed, ReopenedIsAllowed, ResumedIsAllowed
  <2>4. StatusMoves(t)
    BY <2>1 DEF Moves, TicketMoves
  <2> HIDE DEF t
  <2> QED  BY <2>1, <2>2, <2>3, <2>4 DEF StatusMoves, Unlisted, Shut
<1>2. CASE StartsOn(r)
  <2>1. At(r, Attended)
    BY <1>2, StepSets DEF StartsOn, At
  <2>2. TicketOf(r)' = TicketOf(r)
    BY <2>1, RunParts DEF Base, RunInv, Hired
  <2> QED  BY <1>2, <2>2 DEF StartsOn
<1>3. CASE Lands(r) /\ Spoilt(r)
  <2>1. Claimed(r) /\ Allowed(r)
    BY <1>3, RunIdsAreRuns DEF Lands, Allowed, Allows
  <2> QED  BY <2>1, AllowedStays
<1> QED  BY <1>1, <1>2, <1>3, TakesStep

\* A run that has landed did so before, or lands now, from the merge.
LEMMA LandedStep ==
  ASSUME Base, Moves, NEW r \in RunIds, r \in landed'
  PROVE  /\ Claimed(r) /\ (r \in landed \/ Lands(r))
         /\ Lands(r) => /\ worker'[r].at = "landed" /\ run'[r].phase \notin ParkedPhases
                        /\ run[r].phase \notin ParkedPhases
                        /\ run[r].ended => Spoilt(r)
<1>1. RecordMoves(r) /\ RunOK(r) /\ RunOK(r)'
  BY RunParts
<1>2. Claimed(r) /\ (r \in landed \/ Lands(r))
  BY <1>1 DEF RecordMoves, RunOK, LandedFits, Lands
<1>3. ASSUME Lands(r)
      PROVE  /\ worker'[r].at = "landed" /\ run'[r].phase \notin ParkedPhases
             /\ run[r].phase \notin ParkedPhases
             /\ run[r].ended => Spoilt(r)
  <2>1. /\ worker'[r].at \in Attended /\ worker'[r].at = "landed"
        /\ At(r, Attended) /\ At(r, PreLanding)
    BY <1>3, StepSets DEF Lands, At, BusySteps, GatePhases
  <2> QED  BY <1>1, <2>1 DEF RunOK, IsLeft, SweptIsFailed, Spoilt, At
<1> QED  BY <1>2, <1>3

\* A landed run is parked by its worker, which asked after the landing.
LEMMA LandedParks ==
  ASSUME Base, Moves, NEW r \in landed, r \in RunIds
  PROVE  /\ Parked(r)' => Parked(r) \/ (ParksNow(r) /\ At(r, {"park_after"}))
         /\ worker'[r].at = "park_after" => At(r, {"park_after"}) \/ Asks(r)
<1>0. RunMoves(r) /\ Claimed(r) /\ ~At(r, PreLanding)
  BY RunParts DEF RunOK, LandedFits
<1>1. ~At(r, BusySteps) /\ ~IsGranted(r)
  BY <1>0, StepSets DEF IsGranted, At
<1>2. CASE Rests(r) \/ StartsOn(r) \/ Advances(r) \/ Asks(r) \/ Lands(r) \/ IsStopped(r) \/ IsResumed(r)
  <2>1. SameRun(run'[r], run[r])
    BY <1>2 DEF Rests, StartsOn, Advances, Asks, Lands, IsStopped, IsResumed, SameCore
  <2>2. worker'[r].at = "park_after" => At(r, {"park_after"}) \/ Asks(r)
    BY <1>2, QuitIsIdle DEF Rests, StaysOrQuits, StartsOn, Advances, Lands, IsStopped, IsResumed, At,
                            ParkSteps
  <2> QED  BY <2>1, <2>2 DEF Parked, Live, Claimed, SameRun
<1>3. CASE Ships(r) \/ Fails(r) \/ GivesUp(r) \/ IsClosed(r)
  <2>1. run'[r].ended
    BY <1>3 DEF Ships, Fails, GivesUp, IsClosed, EndsAs, SameCore, SameRun
  <2>2. worker'[r].at = "park_after" => At(r, {"park_after"})
    BY <1>3, QuitIsIdle DEF Ships, Fails, GivesUp, IsClosed, StaysOrQuits, At, ParkSteps
  <2> QED  BY <2>1, <2>2 DEF Parked, Live
<1>4. CASE ParksNow(r)
  BY <1>0, <1>4 DEF ParksNow, PreLanding, At, ParkSteps
<1>5. ~EntersNext(r)
  BY <1>1, NextFrom DEF EntersNext
<1> QED  BY <1>0, <1>1, <1>2, <1>3, <1>4, <1>5 DEF RunMoves

\* The ticket of a run that parks after it landed is shut.
LEMMA ShutStep ==
  ASSUME Base, Moves, LandingInv, NEW r \in RunIds, r \in landed', StaysTaken(r)'
  PROVE  StaysShut(r)'
<1> SUFFICES ASSUME worker'[r].at = "park_after" \/ Parked(r)', ~Allowed(r)',
                    ticket'[TicketOf(r)'].status = "in_flight"
             PROVE  FALSE
  BY DEF StaysShut, StaysTaken, Takes, At
<1> DEFINE t == TicketOf(r)
<1>1. r \in landed
  BY LandedStep DEF Parked
<1>2. /\ Claimed(r) /\ t \in Tickets /\ TicketOf(r)' = t /\ ~Allowed(r)
  BY LandedStep, RunParts, AllowedStays
<1>3. At(r, {"park_after"}) \/ Parked(r) \/ Asks(r)
  BY <1>1, LandedParks
<1>4. ~Asks(r)
  BY <1>2 DEF Asks
<1>5. ticket[t].status \in Shut
  BY <1>1, <1>2, <1>3, <1>4 DEF LandingInv, StaysShut
<1>6. StatusMoves(t)
  BY <1>2 DEF Moves, TicketMoves
<1> HIDE DEF t
<1> QED  BY <1>2, <1>5, <1>6 DEF StatusMoves, Shut, Unlisted

\* A question recorded on such a run is none that a requeue releases.
LEMMA ParkKindStep ==
  ASSUME Base, Moves, LandingInv, NEW r \in RunIds, r \in landed'
  PROVE  StaysParked(r)'
<1> SUFFICES ASSUME Parked(r)', run'[r].park = "contradiction", ~Allowed(r)'
             PROVE  FALSE
  BY DEF StaysParked
<1>1. r \in landed
  BY LandedStep DEF Parked
<1>2. Claimed(r) /\ ~Allowed(r) /\ RecordMoves(r)
  BY LandedStep, RunParts, AllowedStays
<1>3. CASE ParksNow(r)
  <2>1. At(r, {"park_after"})
    BY <1>1, <1>3, RunParts DEF RunOK, LandedFits, ParksNow, PreLanding, At, ParkSteps
  <2> QED  BY <1>3, <2>1 DEF ParksNow, ParkKind, At
<1>4. CASE ~ParksNow(r)
  <2>1. Parked(r)
    BY <1>1, <1>4, LandedParks
  <2>2. run[r].park = "contradiction" \/ ticket[TicketOf(r)].status \in {"in_flight", "blocked_on_deps"}
    BY <1>2, <1>4 DEF RecordMoves
  <2> QED  BY <1>1, <1>2, <2>1, <2>2 DEF LandingInv, StaysParked, StaysShut, Shut
<1> QED  BY <1>3, <1>4

\* A claimed run goes beyond its claim by starting work.
LEMMA BeyondStep ==
  ASSUME Base, Moves, NEW q \in RunIds, Claimed(q), Beyond(q)'
  PROVE  Beyond(q) \/ (StartsOn(q) /\ ~run[q].ended)
<1>0. RunMoves(q) /\ RunOK(q) /\ BegunFits(q) /\ (q \in landed' => q \in landed \/ Lands(q))
  BY RunParts DEF RecordMoves
<1>1. CASE EntersNext(q) \/ GivesUp(q)
  <2>1. At(q, BusySteps) /\ ~run[q].ended
    BY <1>1, NextFrom DEF EntersNext, EnterPhase, GivesUp, EndsAs
  <2> QED  BY <2>1 DEF Beyond, At
<1>2. CASE Lands(q) \/ Ships(q) \/ Advances(q)
  <2>1. At(q, BusySteps \ {"start"}) \/ At(q, {"landed"})
    BY <1>2 DEF Lands, Ships, Advances, At, BusySteps, GatePhases, WorkPhases
  <2> QED  BY <1>0, <2>1 DEF RunOK, LandedFits, Beyond, At
<1>3. CASE ParksNow(q)
  <2>1. run[q].phase \notin {"claimed", "failed"}
    BY <1>0, <1>3 DEF ParksNow, BegunFits, Begun, RunOK, RowFits, LivePhases, ParkedPhases,
                      WorkPhases, GatePhases, At
  <2> QED  BY <2>1 DEF Beyond
<1>4. CASE StartsOn(q) \/ Asks(q)
  <2>1. SameRun(run'[q], run[q]) /\ worker'[q].at \notin BusySteps \ {"start"}
        /\ (worker'[q].at = "start" => StartsOn(q))
    BY <1>4, StepSets DEF StartsOn, Asks, SameCore, ParkSteps
  <2>2. ~Lands(q)
    BY <1>4, StepSets DEF StartsOn, Asks, Lands, ParkSteps
  <2> QED  BY <1>0, <2>1, <2>2 DEF Beyond, SameRun, At
<1>5. CASE Rests(q) \/ IsStopped(q) \/ IsResumed(q) \/ Fails(q) \/ IsClosed(q)
  <2>1. CASE At(q, {"gate_ok", "merging"})
    BY <2>1 DEF Beyond, At, BusySteps, GatePhases
  <2>2. CASE ~At(q, {"gate_ok", "merging"})
    <3>1. worker'[q] = worker[q] \/ worker'[q].at \notin BusySteps
      BY <1>5, <2>2, QuitIsIdle DEF Rests, IsStopped, IsResumed, Fails, IsClosed, StaysOrQuits, At
    <3>2. SameRun(run'[q], run[q]) \/ (run'[q].ended /\ run'[q].phase = "failed")
      BY <1>5 DEF Rests, IsStopped, IsResumed, Fails, IsClosed, SameCore, EndsAs, TerminalPhase
    <3>3. q \in landed' => q \in landed
      BY <1>0, <2>2 DEF Lands, At
    <3>4. "start" \in BusySteps
      BY DEF BusySteps
    <3> QED  BY <3>1, <3>2, <3>3, <3>4 DEF Beyond, SameRun, At
  <2> QED  BY <2>1, <2>2
<1> QED  BY <1>0, <1>1, <1>2, <1>3, <1>4, <1>5 DEF RunMoves, IsGranted

\* No run newer than a landed one goes beyond its claim but that it is allowed.
LEMMA SecondStep ==
  ASSUME Base, Moves, LandingInv, NEW r \in RunIds, r \in landed', NEW q \in RunIds
  PROVE  NoSecond(r, q)'
<1> SUFFICES ASSUME r < q, Claimed(q)', TicketOf(q)' = TicketOf(r)', Beyond(q)'
             PROVE  AllowedBy(q, r)'
  BY DEF NoSecond
<1>1. Claimed(r) /\ TicketOf(r)' = TicketOf(r) /\ (AllowedBy(q, r) => AllowedBy(q, r)')
  BY LandedStep, RunParts, AllowedStays
<1>2. ~IsGranted(q)
  <2> SUFFICES ASSUME IsGranted(q)
               PROVE  FALSE
    OBVIOUS
  <2>1. q \notin landed'
    BY LandedStep DEF IsGranted
  <2>2. worker'[q].at = "leased" /\ run'[q].phase = "claimed"
    BY NewRow
  <2> QED  BY <2>1, <2>2, StepSets DEF Beyond, At
<1>3. Claimed(q) /\ TicketOf(q) = TicketOf(r)
  <2>1. TicketOf(q)' = TicketOf(q)
    BY <1>2, RunParts, MovesKeepTicket
  <2> QED  BY <1>1, <2>1 DEF Claimed, TicketOf
<1>4. CASE r \in landed /\ Beyond(q)
  BY <1>1, <1>3, <1>4 DEF LandingInv, NoSecond
<1>5. CASE r \in landed /\ StartsOn(q) /\ ~run[q].ended
  <2>1. ticket[TicketOf(r)].status = "ready"
    BY <1>3, <1>5 DEF StartsOn
  <2>2. PICK p \in RunIds : Allows(p, r)
    BY <1>5, <2>1 DEF LandingInv, StaysTaken, Takes, Shut, Allowed
  <2>3. Claimed(p) /\ TicketOf(p) = TicketOf(q) /\ p # q
    BY <1>3, <1>5, <2>2 DEF Allows, Spoilt, Base, LeaseInv, EndedIsOver
  <2>4. run[q].phase \notin ParkedPhases
    BY <1>5, RunParts, StepSets DEF RunOK, IsLeft, StartsOn, At
  <2>5. p <= q
    BY <1>3, <1>5, <2>3, <2>4, WorkingIsNewest
  <2>6. p < q
    BY <2>3, <2>5, RunIdsAreRuns
  <2> QED  BY <1>1, <2>2, <2>6 DEF AllowedBy
<1>6. CASE Lands(r)
  <2>1. CASE run[r].ended
    <3>1. Allows(r, r)
      BY <1>6, <2>1, LandedStep, RunIdsAreRuns DEF Allows
    <3> QED  BY <1>1, <3>1 DEF AllowedBy
  <2>2. CASE ~run[r].ended
    <3>1. q <= r
      BY <1>1, <1>3, <1>6, <2>2, LandedStep, WorkingIsNewest
    <3> QED  BY <3>1, RunIdsAreRuns
  <2> QED  BY <2>1, <2>2
<1> QED  BY <1>3, <1>4, <1>5, <1>6, LandedStep, BeyondStep

\* A ticket's work is merged a second time only after a run of it failed or was
\* aborted, whatever approvals, resumes and requeues its runs went through.
THEOREM LandedOnce == Spec => []LandsOnce
<1>1. Init => LandingInv
  BY StepSets DEF Init, NewRun, NoWorker, LandingInv, StaysTaken, Takes, At
<1>2. Base /\ LandingInv /\ [Next]_vars => LandingInv'
  <2> SUFFICES ASSUME Base, LandingInv, [Next]_vars
               PROVE  LandingInv'
    OBVIOUS
  <2>1. Moves /\ landed' \subseteq RunIds
    BY StepMoves, LeaseStep DEF Base, LeaseInv, TypeOK
  <2>2. \A r \in RunIds : StaysTaken(r)'
    BY <2>1, TakenStep
  <2>3. \A r \in landed' : StaysShut(r)' /\ StaysParked(r)' /\ \A q \in RunIds : NoSecond(r, q)'
    BY <2>1, <2>2, ShutStep, ParkKindStep, SecondStep
  <2> QED  BY <2>2, <2>3 DEF LandingInv
<1>3. Base /\ LandingInv => LandsOnce
  <2> SUFFICES ASSUME Base, LandingInv, NEW r \in landed, NEW q \in landed,
                      r < q, TicketOf(r) = TicketOf(q)
               PROVE  \E p \in Earlier(q) : /\ p < q
                                            /\ p >= r \/ Pool \/ StoreBoard
                                            /\ run[p].outcome = "failed" \/ Aborted(p)
    BY DEF LandsOnce
  <2>1. r \in RunIds /\ q \in RunIds /\ Claimed(q) /\ Beyond(q)
    BY DEF Base, LeaseInv, TypeOK, RunInv, RunOK, LandedFits, Beyond
  <2>2. PICK p \in RunIds : p < q /\ Allows(p, r)
    BY <2>1 DEF LandingInv, NoSecond, AllowedBy
  <2>3. p \in Earlier(q)
    BY <2>1, <2>2, RunIdsAreRuns DEF Earlier, Allows, Spoilt, Base, LeaseInv, EndedIsOver
  <2> QED  BY <2>2, <2>3 DEF Allows, Spoilt
<1> QED  BY <1>1, <1>2, <1>3, BaseInvariant, PTL DEF Spec

-----------------------------------------------------------------------------
(***************************************************************************)
(* What a ticket's failures are counted from.                              *)
(***************************************************************************)
\* A step that fails no run of the ticket and is no requeue of the factory's.
CountsKept(u) == /\ ticket'[u].strikes \in {0, ticket[u].strikes}
                 /\ ticket'[u].helped = ticket[u].helped
\* A strike is the end of a run of the ticket, failed by its worker or by a sweep of
\* the phase it samples; a requeue of triage is a step of the worker's.
FailedBy(r) == At(r, Attended) \/ (Tripped(r) /\ run[r].phase = trip[r].phase)
Counted(u) ==
  \/ ticket'[u].strikes \in {0, ticket[u].strikes}
  \/ /\ ticket'[u].strikes = ticket[u].strikes + 1
     /\ \E r \in RunIds : /\ Claimed(r) /\ TicketOf(r) = u
                          /\ EndsAs(r, "failed") /\ FailedBy(r)
TriagedBy(u, q) == /\ TicketOf(q) = u /\ At(q, {"triage"}) /\ worker'[q] # worker[q]
                   /\ ticket[u].status = "in_flight" /\ ticket[u].active = NoRun
Triaged(u)      == "triage" \in ticket'[u].helped \ ticket[u].helped =>
                     \E q \in RunIds : TriagedBy(u, q)

\* What the helpers on a ticket's row leave of the counts.
LEMMA RowCounts ==
  ASSUME NEW tk \in TicketRow
  PROVE  /\ \A r : GiveBack(tk, r).strikes = tk.strikes /\ GiveBack(tk, r).helped = tk.helped
         /\ HumanActed(tk).strikes = 0 /\ HumanActed(tk).helped = tk.helped
         /\ \A row, human : /\ CountRequeue(tk, row, human).strikes \in {0, tk.strikes}
                            /\ CountRequeue(tk, row, human).helped = tk.helped
         /\ \A status : /\ Walked(tk, status).strikes = tk.strikes
                        /\ Walked(tk, status).helped = tk.helped
<1>1. \A r : GiveBack(tk, r).strikes = tk.strikes /\ GiveBack(tk, r).helped = tk.helped
  BY DEF GiveBack, TicketRow
<1>2. HumanActed(tk).strikes = 0 /\ HumanActed(tk).helped = tk.helped
  BY DEF HumanActed, TicketRow
<1>3. ASSUME NEW row, NEW human
      PROVE  /\ CountRequeue(tk, row, human).strikes \in {0, tk.strikes}
             /\ CountRequeue(tk, row, human).helped = tk.helped
  BY DEF CountRequeue, TicketRow
<1>4. \A status : /\ Walked(tk, status).strikes = tk.strikes
                  /\ Walked(tk, status).helped = tk.helped
  BY DEF Walked, TicketRow
<1> QED  BY <1>1, <1>2, <1>3, <1>4

\* One ticket's row is replaced by one with the same counts, or none.
LEMMA RowIsKept ==
  ASSUME RowsOK, NEW t \in Tickets, NEW tk, ticket' = [ticket EXCEPT ![t] = tk],
         tk.strikes \in {0, ticket[t].strikes}, tk.helped = ticket[t].helped
  PROVE  \A u \in Tickets : CountsKept(u)
  BY DEF RowsOK, CountsKept

\* A walk counts nothing.
LEMMA WalkCounts ==
  ASSUME RowsOK, NEW t \in Tickets, NEW rows, NEW tk \in TicketRow, NEW status,
         Walk(t, rows, tk, status),
         tk.strikes \in {0, ticket[t].strikes}, tk.helped = ticket[t].helped
  PROVE  \A u \in Tickets : CountsKept(u)
<1>1. ticket' = [ticket EXCEPT ![t] = Walked(tk, status)]
  BY DEF Walk
<1>2. Walked(tk, status).strikes = tk.strikes /\ Walked(tk, status).helped = tk.helped
  BY RowCounts
<1> HIDE DEF Walked
<1> QED  BY <1>1, <1>2, RowIsKept

\* Nor does a question.
LEMMA BlockCounts ==
  ASSUME RowsOK, NEW t \in Tickets, NEW kind, BlockTicket(t, kind)
  PROVE  \A u \in Tickets : CountsKept(u)
<1>1. CASE UNCHANGED ticket
  BY <1>1 DEF CountsKept
<1>2. CASE ticket' = [ticket EXCEPT ![t].status = "blocked_on_operator"]
  BY <1>2 DEF RowsOK, TicketRow, CountsKept
<1> QED  BY <1>1, <1>2 DEF BlockTicket

\* A failed ending strikes once, and only as it ends the run.
LEMMA FailCounts ==
  ASSUME LeaseInv, NEW r \in RunIds, Claimed(r), NEW class, FailRow(r, class), FailedBy(r)
  PROVE  \A u \in Tickets : Counted(u) /\ ticket'[u].helped = ticket[u].helped
<1> DEFINE t  == TicketOf(r)
           fr == Freed(r)
           new == IF class = "work" THEN CountStrike(fr, run[r]) ELSE fr
<1>0. RowsOK /\ t \in Tickets /\ ticket[t] \in TicketRow /\ fr \in TicketRow
  BY TypeParts, FreedType DEF LeaseInv, Claimed, TicketOf, RowsOK
<1>1. fr.strikes = ticket[t].strikes /\ fr.helped = ticket[t].helped
  BY <1>0, RowCounts DEF Freed
<1>2. ticket' = [ticket EXCEPT ![t] = new]
  BY DEF FailRow
<1> HIDE DEF fr, t
<1>3. /\ new.helped = fr.helped
      /\ new.strikes = fr.strikes \/ (new.strikes = fr.strikes + 1 /\ ~Over(run[r]))
  BY <1>0 DEF CountStrike, TicketRow
<1>4. ~Over(run[r]) => EndsAs(r, "failed")
  BY FailRowMoves DEF Over, LeaseInv, EndedIsOver
<1> HIDE DEF new
<1>5. /\ ticket'[t] = new /\ \A u \in Tickets \ {t} : ticket'[u] = ticket[u]
  BY <1>0, <1>2 DEF RowsOK
<1>6. Counted(t) /\ ticket'[t].helped = ticket[t].helped
  BY <1>1, <1>3, <1>4, <1>5 DEF Counted, t
<1> QED  BY <1>5, <1>6 DEF Counted

\* requeue() takes no failure but a human's, which takes all, and marks its reason.
LEMMA RequeueCounts ==
  ASSUME LeaseInv, NEW t \in Tickets,
         NEW who \in FactoryRequeues \cup {"human"}, Requeue(t, who)
  PROVE  /\ \A u \in Tickets : ticket'[u].strikes \in {0, ticket[u].strikes}
         /\ \A u \in Tickets \ {t} : ticket'[u] = ticket[u]
         /\ ticket'[t].helped = ticket[t].helped \cup ({who} \ {"human"})
         /\ ticket[t].active = NoRun
<1> DEFINE q   == ticket[t].last
           row == IF ReleasesPark(t) THEN EndRun(run[q], "abandoned", "none") ELSE run[q]
           cnt == CountRequeue(ticket[t], row, who = "human")
           tk  == [cnt EXCEPT !.helped = cnt.helped \cup ({who} \ {"human"})]
<1>0. RowsOK /\ ticket[t] \in TicketRow /\ ticket[t].active = NoRun
  BY TypeParts DEF LeaseInv, RowsOK, Requeue, RequeueAdmits
<1>1. TicketOf(q) = t
  BY <1>0, LastIsIdle, LatestType DEF Requeue, RequeueAdmits
<1>2. ticket' = [ticket EXCEPT ![TicketOf(q)] = Walked(tk, "ready")]
  BY DEF Requeue, Write, Walk
<1> HIDE DEF q, row
<1>3. cnt \in TicketRow /\ cnt.strikes \in {0, ticket[t].strikes} /\ cnt.helped = ticket[t].helped
  <2>1. cnt \in TicketRow
    BY <1>0, TicketRowTypes
  <2>2. cnt.strikes \in {0, ticket[t].strikes} /\ cnt.helped = ticket[t].helped
    BY <1>0, RowCounts
  <2> QED  BY <2>1, <2>2
<1> HIDE DEF cnt
<1>4. /\ tk.strikes = cnt.strikes /\ tk.helped = cnt.helped \cup ({who} \ {"human"})
      /\ tk \in TicketRow
  <2> DEFINE own == {who} \ {"human"}
  <2>1. own \subseteq FactoryRequeues
    OBVIOUS
  <2> HIDE DEF own
  <2>2. LET tkt == [cnt EXCEPT !.helped = cnt.helped \cup own]
        IN  /\ tkt.strikes = cnt.strikes /\ tkt.helped = cnt.helped \cup own
            /\ tkt \in TicketRow
    BY <1>3, <2>1 DEF TicketRow
  <2> QED  BY <2>2 DEF own
<1>5. Walked(tk, "ready").strikes = tk.strikes /\ Walked(tk, "ready").helped = tk.helped
  BY <1>4, RowCounts
<1> HIDE DEF tk
<1>6. ticket'[t] = Walked(tk, "ready") /\ \A u \in Tickets \ {t} : ticket'[u] = ticket[u]
  BY <1>0, <1>1, <1>2 DEF RowsOK
<1> QED  BY <1>0, <1>3, <1>4, <1>5, <1>6

\* The steps of a worker up to its run's end.
LEMMA WorkCounts ==
  ASSUME LeaseInv, NEW r \in RunIds, Claimed(r),
         \/ RefuseLease(r) \/ StartWork(r)
         \/ \E p \in NextPhases(r) : EnterPhase(r, p)
         \/ \E p \in PausePhases(r) : EndPaused(r, p)
         \/ ReviewApproves(r) \/ GateVerifies(r) \/ WorkerAborts(r) \/ MeetsEnd(r)
         \/ \E class \in {"work", "infra"} : Fail(r, class)
  PROVE  \A u \in Tickets : Counted(u) /\ ticket'[u].helped = ticket[u].helped
<1>0. RowsOK /\ TicketOf(r) \in Tickets /\ Freed(r) \in TicketRow
  BY TypeParts, FreedType DEF LeaseInv, Claimed, TicketOf
<1>1. Freed(r).strikes = ticket[TicketOf(r)].strikes /\ Freed(r).helped = ticket[TicketOf(r)].helped
  BY <1>0, RowCounts DEF Freed, RowsOK
<1>2. CASE UNCHANGED ticket
  BY <1>2 DEF Counted
<1>3. ASSUME NEW class, FailRow(r, class), At(r, BusySteps \cup {"leased", "gate_failed"})
      PROVE  \A u \in Tickets : Counted(u) /\ ticket'[u].helped = ticket[u].helped
  <2>1. BusySteps \cup {"leased", "gate_failed"} \subseteq Attended
    BY DEF Attended, LiveSteps, Steps, BusySteps, WorkPhases, GatePhases
  <2>2. FailedBy(r)
    BY <1>3, <2>1 DEF FailedBy, At
  <2> QED  BY <1>3, <2>2, FailCounts
<1>4. CASE ticket' = [ticket EXCEPT ![TicketOf(r)].status = "in_flight"]
  BY <1>0, <1>4 DEF RowsOK, TicketRow, Counted
<1>5. CASE \E row, status : Write(r, row, Freed(r), status)
  BY <1>0, <1>1, <1>5, WalkCounts DEF Write, Counted, CountsKept
<1> QED  BY <1>2, <1>3, <1>4, <1>5
         DEF RefuseLease, StartWork, EnterPhase, EndPaused, ReviewApproves, GateVerifies,
             WorkerAborts, EndAborted, MeetsEnd, Fail, At

\* Its steps at the gate, at a park and past the landing.
LEMMA GateCounts ==
  ASSUME LeaseInv, NEW r \in RunIds, Claimed(r),
         \/ HandOff(r) \/ RequeueDrift(r) \/ EndIfCanceled(r) \/ GateRefuses(r)
         \/ \E step \in ParkSteps : AskOperator(r, step)
         \/ Park(r) \/ Merge(r) \/ ReleaseMerged(r) \/ MirrorMerged(r)
  PROVE  \A u \in Tickets : CountsKept(u)
<1> DEFINE t == TicketOf(r)
<1>0. RowsOK /\ t \in Tickets /\ Freed(r) \in TicketRow /\ ticket[t] \in TicketRow
  BY TypeParts, FreedType DEF LeaseInv, Claimed, TicketOf, RowsOK
<1>1. Freed(r).strikes = ticket[t].strikes /\ Freed(r).helped = ticket[t].helped
  BY <1>0, RowCounts DEF Freed
<1>2. CASE UNCHANGED ticket
  BY <1>2 DEF CountsKept
<1>3. CASE \E kind : BlockTicket(t, kind)
  BY <1>0, <1>3, BlockCounts
<1>4. CASE HandOff(r)
  BY <1>0, <1>1, <1>4, WalkCounts DEF HandOff, Write
<1>5. CASE RequeueDrift(r)
  <2> DEFINE row == Released(r, "abandoned", "none")
             tk  == CountRequeue(Freed(r), row, FALSE)
  <2>1. Write(r, row, tk, "ready")
    BY <1>5 DEF RequeueDrift
  <2>2. tk \in TicketRow /\ tk.strikes \in {0, Freed(r).strikes} /\ tk.helped = Freed(r).helped
    <3>1. tk \in TicketRow
      BY <1>0, TicketRowTypes
    <3>2. ASSUME NEW tkt \in TicketRow
          PROVE  /\ CountRequeue(tkt, row, FALSE).strikes = tkt.strikes
                 /\ CountRequeue(tkt, row, FALSE).helped = tkt.helped
      <4> HIDE DEF row
      <4> QED  BY DEF CountRequeue, TicketRow
    <3> QED  BY <1>0, <3>1, <3>2
  <2> HIDE DEF tk, row
  <2> QED  BY <1>0, <1>1, <2>1, <2>2, WalkCounts DEF Write
<1>6. CASE \E tk : /\ ticket' = [ticket EXCEPT ![t] = tk]
                   /\ tk.strikes = ticket[t].strikes /\ tk.helped = ticket[t].helped
  BY <1>0, <1>6, RowIsKept
<1>7. CASE Park(r)
  <2>1. ticket' = [ticket EXCEPT ![t] = GiveBack(ticket[t], r)] \/ UNCHANGED ticket
    BY <1>7 DEF Park
  <2> QED  BY <1>0, <1>2, <1>6, <2>1, RowCounts
<1>8. CASE MirrorMerged(r)
  BY <1>0, <1>8 DEF MirrorMerged, RowsOK, TicketRow, CountsKept
<1>9. CASE ReleaseMerged(r)
  BY <1>1, <1>6, <1>9 DEF ReleaseMerged
<1> QED  BY <1>2, <1>3, <1>4, <1>5, <1>7, <1>8, <1>9
         DEF EndIfCanceled, GateRefuses, AskOperator, Merge

\* Its close-out.
LEMMA CloseOutCounts ==
  ASSUME LeaseInv, NEW r \in RunIds, Claimed(r),
         \/ Escalate(r) \/ BlockEscalated(r) \/ ParkSteeredCap(r)
         \/ Rerun(r) \/ Triage(r) \/ Amend(r) \/ Crash(r)
  PROVE  \A u \in Tickets : ticket'[u].strikes \in {0, ticket[u].strikes} /\ Triaged(u)
<1> DEFINE t == TicketOf(r)
<1>0. RowsOK /\ t \in Tickets
  BY TypeParts DEF LeaseInv, Claimed, TicketOf
<1>1. CASE UNCHANGED ticket
  BY <1>1 DEF Triaged
<1>2. CASE \E kind : BlockTicket(t, kind)
  BY <1>0, <1>2, BlockCounts DEF CountsKept, Triaged
<1>3. ASSUME NEW who \in FactoryRequeues, Requeue(t, who),
             who = "triage" => Triage(r) /\ ticket[t].status = "in_flight"
      PROVE  \A u \in Tickets : ticket'[u].strikes \in {0, ticket[u].strikes} /\ Triaged(u)
  <2>1. /\ \A u \in Tickets : ticket'[u].strikes \in {0, ticket[u].strikes}
        /\ \A u \in Tickets \ {t} : ticket'[u] = ticket[u]
        /\ ticket'[t].helped = ticket[t].helped \cup ({who} \ {"human"})
        /\ ticket[t].active = NoRun
    BY <1>0, <1>3, RequeueCounts
  <2>2. ASSUME Triage(r)
        PROVE  At(r, {"triage"}) /\ worker'[r] # worker[r]
    BY <2>2, WorkerAside DEF Triage, At
  <2>3. Triaged(t)
    BY <1>3, <2>1, <2>2 DEF Triaged, TriagedBy, t
  <2> QED  BY <2>1, <2>3 DEF Triaged
<1>4. CASE Rerun(r) \/ Amend(r)
  BY <1>1, <1>3, <1>4 DEF Rerun, Amend, FactoryRequeues
<1>5. CASE Triage(r)
  BY <1>1, <1>3, <1>5 DEF Triage, FactoryRequeues
<1> QED  BY <1>1, <1>2, <1>4, <1>5 DEF Escalate, BlockEscalated, ParkSteeredCap, Crash

\* The supervisor's steps, the end of a command and a heartbeat.
LEMMA SupervisorCounts ==
  ASSUME LeaseInv, NEW r \in RunIds, Claimed(r),
         SupervisorStep(r) \/ CommandEnds(r) \/ Beat(r)
  PROVE  \A u \in Tickets : Counted(u) /\ ticket'[u].helped = ticket[u].helped
<1>0. RowsOK /\ TicketOf(r) \in Tickets /\ Freed(r) \in TicketRow
  BY TypeParts, FreedType DEF LeaseInv, Claimed, TicketOf
<1>1. Freed(r).strikes = ticket[TicketOf(r)].strikes /\ Freed(r).helped = ticket[TicketOf(r)].helped
  BY <1>0, RowCounts DEF Freed, RowsOK
<1>2. CASE UNCHANGED ticket
  BY <1>2 DEF Counted
<1>3. CASE ActOnTrip(r)
  <2>1. UNCHANGED ticket \/ (FailRow(r, "work") /\ FailedBy(r))
    BY <1>3 DEF ActOnTrip, StillTripped, FailedBy, Tripped
  <2> QED  BY <1>2, <2>1, FailCounts
<1>4. CASE SweepBlocks(r)
  BY <1>0, <1>4, BlockCounts DEF SweepBlocks, CountsKept, Counted
<1>5. CASE EndAborted(r)
  BY <1>0, <1>1, <1>5, WalkCounts DEF EndAborted, Write, CountsKept, Counted
<1> QED  BY <1>2, <1>3, <1>4, <1>5
         DEF SupervisorStep, SampleTrip, SweepEscalates, CommandEnds, Beat

\* The loops, the operator and the board: a human's word takes every failure.
LEMMA TicketCounts ==
  ASSUME LeaseInv, NEW t \in Tickets, LoopStep(t) \/ OperatorStep(t) \/ BoardStep(t)
  PROVE  \A u \in Tickets : CountsKept(u)
<1>0. RowsOK /\ ticket[t] \in TicketRow /\ HumanActed(ticket[t]) \in TicketRow
  BY TypeParts, TicketRowTypes DEF LeaseInv, RowsOK
<1>1. CASE UNCHANGED ticket
  BY <1>1 DEF CountsKept
<1>2. HumanActed(ticket[t]).strikes = 0 /\ HumanActed(ticket[t]).helped = ticket[t].helped
  BY <1>0, RowCounts
<1>3. ASSUME NEW rows, NEW status, Walk(t, rows, ticket[t], status)
      PROVE  \A u \in Tickets : CountsKept(u)
  BY <1>0, <1>3, WalkCounts
<1>4. ASSUME NEW rows, NEW status, Walk(t, rows, HumanActed(ticket[t]), status)
      PROVE  \A u \in Tickets : CountsKept(u)
  BY <1>0, <1>2, <1>4, WalkCounts
<1>5. CASE LoopStep(t)
  <2>1. CASE BlockStruckOut(t)
    BY <1>0, <2>1, BlockCounts DEF BlockStruckOut
  <2>2. ASSUME NEW r \in RunIds, Claim(t, r)
        PROVE  \A u \in Tickets : CountsKept(u)
    BY <1>0, <2>2 DEF Claim, RowsOK, TicketRow, CountsKept
  <2> QED  BY <1>1, <1>5, <2>1, <2>2
           DEF LoopStep, FindIdle, FindStruckOut, AdmitTicket, FindUnparked
<1>6. CASE BoardStep(t)
  <2>1. ASSUME NEW status, Listed(t, status)
        PROVE  \A u \in Tickets : CountsKept(u)
    BY <1>0, <2>1 DEF Listed, RowsOK, TicketRow, CountsKept
  <2>2. ASSUME NEW state, BoardCloses(t, state)
        PROVE  \A u \in Tickets : CountsKept(u)
    BY <1>0, <2>2 DEF BoardCloses, RowsOK, TicketRow, CountsKept
  <2>3. CASE \/ \E specced \in BOOLEAN : MirrorTask(t, specced)
             \/ WaitOnBlockers(t) \/ ParkUnlisted(t)
    BY <2>1, <2>3 DEF MirrorTask, WaitOnBlockers, ParkUnlisted
  <2>4. CASE ReconcileMirror(t)
    <3> DEFINE q == ticket[t].last
    <3>1. ASSUME NEW row, NEW status, q # NoRun, Write(q, row, ticket[t], status)
          PROVE  \A u \in Tickets : CountsKept(u)
      <4>1. TicketOf(q) = t
        BY <1>0, <2>4, <3>1, LastIsIdle DEF ReconcileMirror, TicketRow
      <4> QED  BY <1>3, <3>1, <4>1 DEF Write
    <3> QED  BY <1>3, <2>4, <3>1 DEF ReconcileMirror
  <2>5. CASE Retire(t) \/ AbortCanceled(t)
    BY <1>1, <1>3, <2>5 DEF Retire, AbortCanceled
  <2> QED  BY <1>6, <2>2, <2>3, <2>4, <2>5 DEF BoardStep
<1>7. CASE OperatorStep(t)
  <2>1. CASE RequeueByHuman(t)
    <3>1. Requeue(t, "human")
      BY <2>1 DEF RequeueByHuman
    <3>2. {"human"} \ {"human"} = {}
      OBVIOUS
    <3> QED  BY <3>1, <3>2, RequeueCounts DEF CountsKept
  <2>2. CASE ticket' = [ticket EXCEPT ![t] = HumanActed(ticket[t])]
    BY <1>0, <1>2, <2>2, RowIsKept
  <2>3. ASSUME NEW q \in {ticket[t].last, Latest(t)}, NEW row, NEW status, q # NoRun,
               Write(q, row, HumanActed(ticket[t]), status),
               q = Latest(t) \/ ticket[t].active = NoRun
        PROVE  \A u \in Tickets : CountsKept(u)
    <3>1. q = Latest(t)
      BY <2>3 DEF Latest
    <3>2. TicketOf(q) = t
      BY <2>3, <3>1, LatestIsClaimed
    <3> QED  BY <1>4, <2>3, <3>2 DEF Write
  <2>4. CASE ApproveParked(t) \/ ResumePaused(t)
    BY <2>3, <2>4 DEF ApproveParked, ResumePaused
  <2>5. CASE CancelTicket(t)
    <3> DEFINE acted  == HumanActed(ticket[t])
               closed == [acted EXCEPT !.board = "Canceled"]
               idle   == [ticket[t] EXCEPT !.board = "Canceled"]
               q      == ticket[t].last
    <3>1. /\ closed \in TicketRow /\ closed.strikes = 0 /\ closed.helped = ticket[t].helped
      <4> HIDE DEF acted
      <4> QED  BY <1>0, <1>2 DEF TicketRow, BoardStates, acted
    <3>2. /\ idle \in TicketRow /\ idle.strikes = ticket[t].strikes
          /\ idle.helped = ticket[t].helped
      BY <1>0 DEF TicketRow, BoardStates
    <3>3. \/ ticket' = [ticket EXCEPT ![t] = closed]
          \/ Walk(t, run, idle, "abandoned")
          \/ /\ q # NoRun /\ ticket[t].active = NoRun
             /\ Write(q, EndRun(run[q], "abandoned", "none"), closed, "abandoned")
      BY <2>5 DEF CancelTicket
    <3> HIDE DEF closed, idle, acted
    <3>4. q # NoRun /\ ticket[t].active = NoRun => TicketOf(q) = t
      BY <1>0, LastIsIdle DEF TicketRow
    <3> HIDE DEF q
    <3>5. CASE ticket' = [ticket EXCEPT ![t] = closed]
      BY <1>0, <3>1, <3>5, RowIsKept
    <3> QED  BY <1>0, <3>1, <3>2, <3>3, <3>4, <3>5, WalkCounts DEF Write
  <2> QED  BY <1>7, <2>1, <2>2, <2>4, <2>5 DEF OperatorStep, Pause, Abort
<1> QED  BY <1>5, <1>6, <1>7

\* Every step counts so.
LEMMA StepCounts ==
  ASSUME LeaseInv, [Next]_vars, NEW u \in Tickets
  PROVE  Counted(u) /\ Triaged(u)
<1>1. CASE UNCHANGED ticket
  BY <1>1 DEF Counted, Triaged
<1>2. ASSUME NEW r \in RunIds, Claimed(r), RunStep(r)
      PROVE  Counted(u) /\ Triaged(u)
  <2>1. CASE \A i \in Tickets : Counted(i) /\ ticket'[i].helped = ticket[i].helped
    BY <2>1 DEF Triaged
  <2>2. CASE \A i \in Tickets : CountsKept(i)
    BY <2>2 DEF CountsKept, Counted, Triaged
  <2>3. CASE \A i \in Tickets : ticket'[i].strikes \in {0, ticket[i].strikes} /\ Triaged(i)
    BY <2>3 DEF Counted
  <2> QED  BY <1>2, <2>1, <2>2, <2>3, WorkCounts, GateCounts, CloseOutCounts, SupervisorCounts
           DEF RunStep, WorkerStep
<1>3. ASSUME NEW t \in Tickets, LoopStep(t) \/ OperatorStep(t) \/ BoardStep(t)
      PROVE  Counted(u) /\ Triaged(u)
  BY <1>3, TicketCounts DEF CountsKept, Counted, Triaged
<1> QED  BY <1>1, <1>2, <1>3 DEF Next, vars, SupervisorDies

\* A run of the ticket that failed, and two of them.
Failed(p, u)   == Claimed(p) /\ TicketOf(p) = u /\ run[p].ended /\ run[p].outcome = "failed"
FailedTwice(u) == \E p, q \in RunIds : p < q /\ Failed(p, u) /\ Failed(q, u)
\* Strikes are of different runs, and a loop finds struck out what two runs failed.
StrikeInv ==
  \A u \in Tickets :
    /\ ticket[u].strikes >= 1 => \E p \in RunIds : Failed(p, u)
    /\ ticket[u].strikes >= MaxFailedRuns \/ <<u, "struck">> \in admitted => FailedTwice(u)

\* Only escalate() makes a loop find a ticket struck out.
LEMMA StruckIsRead ==
  ASSUME LeaseInv, [Next]_vars, NEW u \in Tickets, <<u, "struck">> \in admitted'
  PROVE  <<u, "struck">> \in admitted \/ ticket[u].strikes >= MaxFailedRuns
<1>1. CASE UNCHANGED vars \/ SupervisorDies
  BY <1>1 DEF vars, SupervisorDies
<1>2. ASSUME NEW r \in RunIds, RunStep(r)
      PROVE  UNCHANGED admitted
  BY <1>2 DEF RunStep, WorkerStep, Beat, CommandEnds, Crash, RefuseLease, StartWork, EnterPhase,
              EndPaused, ReviewApproves, GateVerifies, WorkerAborts, MeetsEnd, Fail, HandOff,
              RequeueDrift, EndIfCanceled, GateRefuses, AskOperator, Park, Merge, ReleaseMerged,
              MirrorMerged, Escalate, BlockEscalated, ParkSteeredCap, Rerun, Triage, Amend,
              SupervisorStep, SampleTrip, ActOnTrip, SweepEscalates, SweepBlocks
<1>3. ASSUME NEW t \in Tickets, LoopStep(t)
      PROVE  <<u, "struck">> \in admitted \/ ticket[u].strikes >= MaxFailedRuns
  BY <1>3 DEF LoopStep, FindIdle, FindStruckOut, BlockStruckOut, AdmitTicket, FindUnparked, Claim,
              MustEscalate
<1>4. ASSUME NEW t \in Tickets, OperatorStep(t) \/ BoardStep(t)
      PROVE  UNCHANGED admitted
  BY <1>4 DEF OperatorStep, RequeueByHuman, ApproveParked, Pause, ResumePaused, Abort,
              CancelTicket, BoardStep, MirrorTask, Listed, WaitOnBlockers, ParkUnlisted, Retire,
              BoardCloses, ReconcileMirror, AbortCanceled
<1> QED  BY <1>1, <1>2, <1>3, <1>4 DEF Next

\* A run that failed has failed for good.
LEMMA FailedStays ==
  ASSUME Base, Moves, [Next]_vars, NEW u \in Tickets, NEW p \in RunIds, Failed(p, u)
  PROVE  Failed(p, u)'
<1>1. SameRun(run'[p], run[p])
  BY EndedStep DEF Base, Failed
<1> QED  BY <1>1, RunParts DEF Failed, SameRun, Claimed, TicketOf

\* Whatever strikes, sweeps and admissions interleave, a ticket is struck out by two
\* different runs of it.
LEMMA StrikesAreRuns == Spec => []StrikeInv
<1>1. Init => StrikeInv
  BY DEF Init, NewTicket, StrikeInv, MaxFailedRuns
<1>2. Base /\ StrikeInv /\ [Next]_vars => StrikeInv'
  <2> SUFFICES ASSUME Base, StrikeInv, [Next]_vars, NEW u \in Tickets
               PROVE  /\ ticket'[u].strikes >= 1 => \E p \in RunIds : Failed(p, u)'
                      /\ ticket'[u].strikes >= MaxFailedRuns \/ <<u, "struck">> \in admitted'
                           => FailedTwice(u)'
    BY DEF StrikeInv
  <2>1. Moves /\ Counted(u) /\ ticket[u].strikes \in Nat
    BY StepMoves, StepCounts DEF Base, LeaseInv, TypeOK, TicketRow
  <2>2. (\E p \in RunIds : Failed(p, u)) => \E p \in RunIds : Failed(p, u)'
    BY <2>1, FailedStays
  <2>3. FailedTwice(u) => FailedTwice(u)'
    BY <2>1, FailedStays DEF FailedTwice
  <2>4. ticket[u].strikes >= MaxFailedRuns \/ <<u, "struck">> \in admitted => FailedTwice(u)'
    BY <2>3 DEF StrikeInv
  <2>5. <<u, "struck">> \in admitted' => FailedTwice(u)'
    BY <2>4, StruckIsRead DEF Base
  <2>6. CASE ticket'[u].strikes \in {0, ticket[u].strikes}
    BY <2>1, <2>2, <2>4, <2>5, <2>6 DEF StrikeInv, MaxFailedRuns
  <2>7. ASSUME NEW r \in RunIds, Claimed(r), TicketOf(r) = u, EndsAs(r, "failed"),
               ticket'[u].strikes = ticket[u].strikes + 1
        PROVE  /\ \E p \in RunIds : Failed(p, u)'
               /\ ticket'[u].strikes >= MaxFailedRuns => FailedTwice(u)'
    <3>1. Failed(r, u)'
      BY <2>1, <2>7, RunParts DEF Failed, EndsAs
    <3>2. ASSUME NEW p \in RunIds, Failed(p, u)
          PROVE  FailedTwice(u)'
      <4>1. Failed(p, u)'
        BY <2>1, <3>2, FailedStays
      <4>2. p # r
        BY <2>7, <3>2 DEF Failed, EndsAs
      <4>3. p < r \/ r < p
        BY <4>2, RunIdsAreRuns
      <4> QED  BY <3>1, <4>1, <4>3 DEF FailedTwice
    <3>3. ticket'[u].strikes >= MaxFailedRuns => ticket[u].strikes >= 1
      BY <2>1, <2>7 DEF MaxFailedRuns
    <3> QED  BY <3>1, <3>2, <3>3 DEF StrikeInv
  <2> QED  BY <2>1, <2>5, <2>6, <2>7 DEF Counted
<1> QED  BY <1>1, <1>2, BaseInvariant, PTL DEF Spec

-----------------------------------------------------------------------------
(***************************************************************************)
(* The status of a ticket that is being worked.                            *)
(***************************************************************************)
Closing(kind) == kind \in {"closed", "blocking"}
\* The supervisor closes out only runs it has ended.
TripFits == \A r \in RunIds : Closing(trip[r].kind) => run[r].ended

\* A worker's step, or an abort command's, leaves the supervisor's samples, or drops
\* a stale one.
LEMMA WorkerLeavesTrips ==
  ASSUME TypeOK, NEW r \in RunIds,
         WorkerStep(r) \/ Beat(r) \/ CommandEnds(r) \/ Crash(r),
         NEW i \in RunIds
  PROVE  trip'[i] \in {trip[i], NoTrip} /\ trip'[i].kind \in {trip[i].kind, "none"}
<1>1. CASE Beaten(r)
  BY <1>1 DEF Beaten, NoTrip, TypeOK
<1>2. CASE ~Beaten(r)
  <2>1. UNCHANGED trip
    BY <1>2 DEF WorkerStep, Beat, CommandEnds, Crash, RefuseLease, StartWork, EnterPhase,
                EndPaused, ReviewApproves, GateVerifies, WorkerAborts, MeetsEnd, Fail, HandOff,
                RequeueDrift, EndIfCanceled, GateRefuses, AskOperator, Park, Merge, ReleaseMerged,
                MirrorMerged, Escalate, BlockEscalated, ParkSteeredCap, Rerun, Triage, Amend
  <2> QED  BY <2>1
<1> QED  BY <1>1, <1>2

\* Loops, operators and boards know nothing of the samples.
LEMMA OthersLeaveTrips ==
  ASSUME NEW t \in Tickets, LoopStep(t) \/ OperatorStep(t) \/ BoardStep(t)
  PROVE  UNCHANGED trip
  BY DEF LoopStep, FindIdle, FindStruckOut, BlockStruckOut, AdmitTicket, FindUnparked, Claim,
         OperatorStep, RequeueByHuman,
         ApproveParked, Pause, ResumePaused, Abort, CancelTicket, BoardStep, MirrorTask,
         Listed, WaitOnBlockers, ParkUnlisted, Retire, BoardCloses, ReconcileMirror,
         AbortCanceled

\* The supervisor closes out a run it has just failed, or goes on with a close-out.
LEMMA SupervisorCloses ==
  ASSUME TypeOK, EndedIsOver, NEW r \in RunIds, SupervisorStep(r),
         NEW i \in RunIds, Closing(trip'[i].kind)
  PROVE  Closing(trip[i].kind) \/ run'[i].ended
<1>0. /\ trip \in [RunIds -> [kind : {"none", "stale", "box", "closed", "blocking"},
                              phase : RunPhases]]
      /\ RowsOK
  BY TypeParts DEF TypeOK
<1>1. ASSUME NEW kind \in {"stale", "box"}, SampleTrip(r, kind)
      PROVE  Closing(trip[i].kind)
  BY <1>0, <1>1 DEF SampleTrip, Closing
<1>2. CASE ActOnTrip(r)
  <2>1. CASE StillTripped(r)
    <3>1. CASE i = r
      <4>1. ~run[r].ended /\ run' = [run EXCEPT ![r] = EndRun(run[r], "failed", "none")]
        BY <1>2, <2>1 DEF ActOnTrip, StillTripped, FailRow, Released
      <4>2. run[r] \in RunRow /\ run'[r] = EndRun(run[r], "failed", "none")
        BY <1>0, <4>1 DEF RowsOK
      <4>3. run'[r].ended
        BY <4>1, <4>2, EndRunMoves DEF Outcomes
      <4> QED  BY <3>1, <4>3
    <3>2. CASE i # r
      BY <1>0, <1>2, <2>1, <3>2 DEF ActOnTrip
    <3> QED  BY <3>1, <3>2
  <2>2. CASE ~StillTripped(r)
    BY <1>0, <1>2, <2>2 DEF ActOnTrip, NoTrip, Closing
  <2> QED  BY <2>1, <2>2
<1>3. CASE SweepEscalates(r) \/ SweepBlocks(r)
  BY <1>0, <1>3 DEF SweepEscalates, SweepBlocks, NoTrip, Closing
<1> QED  BY <1>1, <1>2, <1>3 DEF SupervisorStep

\* A run the supervisor closes out has ended.
LEMMA TripsFit == Spec => []TripFits
<1>1. Init => TripFits
  BY DEF Init, NoTrip, TripFits, Closing
<1>2. LeaseInv /\ TripFits /\ [Next]_vars => TripFits'
  <2> SUFFICES ASSUME LeaseInv, TripFits, [Next]_vars, NEW i \in RunIds, Closing(trip'[i].kind)
               PROVE  run'[i].ended
    BY DEF TripFits
  <2>1. Closing(trip[i].kind) \/ run'[i].ended
    <3>1. CASE UNCHANGED vars \/ SupervisorDies
      BY <3>1 DEF vars, SupervisorDies, NoTrip, Closing
    <3>2. ASSUME NEW r \in RunIds, RunStep(r)
          PROVE  Closing(trip[i].kind) \/ run'[i].ended
      BY <3>2, WorkerLeavesTrips, SupervisorCloses DEF RunStep, LeaseInv, Closing
    <3>3. ASSUME NEW t \in Tickets, LoopStep(t) \/ OperatorStep(t) \/ BoardStep(t)
          PROVE  UNCHANGED trip
      BY <3>3, OthersLeaveTrips
    <3> QED  BY <3>1, <3>2, <3>3 DEF Next
  <2> QED  BY <2>1, EndedStep DEF TripFits, SameRun
<1> QED  BY <1>1, <1>2, LeaseInvariant, PTL DEF Spec

\* Who may take a ticket out of flight under the run at work on it.
LEMMA HolderStep ==
  ASSUME Base, TripFits, StrikeInv, Moves, NEW r \in RunIds, Live(r), At(r, BusySteps),
         ticket[TicketOf(r)].status = "in_flight", ticket'[TicketOf(r)].status # "in_flight",
         worker'[r] = worker[r]
  PROVE  \/ \E q \in Earlier(r) : \/ run[q].ended /\ At(q, LiveSteps)
                                  \/ q \in commanded
                                  \/ trip[q].kind = "blocking"
         \/ /\ <<TicketOf(r), "struck">> \in admitted
            /\ ticket'[TicketOf(r)].status = "blocked_on_operator"
            /\ StruckOutBefore(r)
<1> DEFINE t == TicketOf(r)
<1>1. /\ Claimed(r) /\ ~run[r].ended /\ t \in Tickets /\ At(r, Attended)
      /\ run[r].outcome = "none" /\ run[r].phase \notin ParkedPhases /\ r \notin commanded
  BY RunParts, StepSets DEF Live, RunOK, RowFits, IsLeft, At
<1>2. ticket[t].active = r /\ Latest(t) = r /\ r # NoRun
  BY <1>1, WorkingIsNewest, RunIdsAreRuns
<1>3. Actor(t)
  <2>1. MovedBy(t)
    BY <1>1 DEF Moves, TicketMoves
  <2> QED  BY <2>1 DEF MovedBy, Unlisted
<1>4. CASE <<t, "struck">> \in admitted /\ ticket'[t].status = "blocked_on_operator"
  <2>1. PICK p, q \in RunIds : p < q /\ Failed(p, t) /\ Failed(q, t)
    BY <1>1, <1>4 DEF StrikeInv, FailedTwice
  <2>2. p # r /\ q # r /\ q <= r
    BY <1>1, <2>1, WorkingIsNewest DEF Failed
  <2>3. StruckOutBefore(r)
    BY <2>1, <2>2, RunIdsAreRuns DEF StruckOutBefore, Earlier, Failed
  <2> QED  BY <1>4, <2>3
<1> HIDE DEF t
<1>5. ASSUME NEW q \in RunIds, TicketOf(q) = t,
             \/ At(q, LiveSteps \ {"amend"}) /\ worker'[q] # worker[q]
             \/ q \in commanded
             \/ trip[q].kind = "blocking"
      PROVE  /\ q \in Earlier(r)
             /\ \/ run[q].ended /\ At(q, LiveSteps)
                \/ q \in commanded
                \/ trip[q].kind = "blocking"
  <2>1. q # r
    BY <1>1, <1>5 DEF TripFits, Closing
  <2>2. Claimed(q) /\ q \in Earlier(r)
    BY <1>1, <1>5, <2>1 DEF Earlier, Claimed, TicketOf, t
  <2>3. At(q, LiveSteps \ {"amend"}) => run[q].ended /\ At(q, LiveSteps)
    <3> SUFFICES ASSUME At(q, LiveSteps \ {"amend"})
                 PROVE  run[q].ended
      BY DEF At
    <3>1. run[q].phase \notin ParkedPhases
      BY RunParts DEF RunOK, IsLeft, Attended
    <3>2. ticket[t].active # q
      BY <1>2, <2>1
    <3> QED  BY <1>5, <2>2, <3>1, <3>2 DEF Base, LeaseInv, LeaseAgreement
  <2> QED  BY <1>5, <2>2, <2>3
<1>6. CASE \E q \in RunIds :
             /\ TicketOf(q) = t
             /\ \/ At(q, LiveSteps \ {"amend"}) /\ worker'[q] # worker[q]
                \/ q \in commanded
                \/ trip[q].kind = "blocking"
  BY <1>5, <1>6
<1> QED  BY <1>1, <1>2, <1>3, <1>4, <1>6 DEF Actor, t

\* While a run works its ticket nobody takes the ticket out of flight under it but the
\* run's own worker, one who is not done yet with an earlier run of it, or a loop that
\* found it struck out by two runs before and blocks it.
THEOREM StatusHeld == Spec => StatusIsTheHolders
<1> DEFINE Held == \A r \in RunIds :
       (/\ Live(r) /\ At(r, BusySteps) /\ ticket[TicketOf(r)].status = "in_flight"
        /\ ticket'[TicketOf(r)].status # "in_flight")
       => \/ worker'[r] # worker[r]
          \/ \E q \in Earlier(r) : \/ run[q].ended /\ At(q, LiveSteps)
                                   \/ q \in commanded
                                   \/ trip[q].kind = "blocking"
          \/ /\ <<TicketOf(r), "struck">> \in admitted
             /\ ticket'[TicketOf(r)].status = "blocked_on_operator"
             /\ StruckOutBefore(r)
<1>1. Base /\ TripFits /\ StrikeInv /\ [Next]_vars => [Held]_vars
  <2>1. Base /\ [Next]_vars => Moves
    BY StepMoves DEF Base
  <2> QED  BY <2>1, HolderStep
<1> HIDE DEF Held
<1>2. Spec => [][Held]_vars
  BY <1>1, BaseInvariant, TripsFit, StrikesAreRuns, PTL DEF Spec
<1> QED  BY <1>2 DEF StatusIsTheHolders, Held

-----------------------------------------------------------------------------
(***************************************************************************)
(* The parks, where the factory itself mirrors its board ahead of a claim  *)
(* and no run is swept under a worker that lives.  Either would let a      *)
(* claim or a worker that has lost its run take the ticket from the park.  *)
(***************************************************************************)
\* The supervisor samples the runs of the dead only.
SampledIsDead == \A r \in RunIds : Tripped(r) => Claimed(r) /\ At(r, {"dead"})

\* Nobody works on with a run that has ended.
EndedIsLeft == \A r \in RunIds : run[r].ended => ~At(r, PreLanding \cup {"landed"})

\* A run's ticket is in flight while it works, or shut, and shut from when it asks.
WorkedFits(r) ==
  /\ At(r, BusySteps \cup {"landed"}) =>
       run[r].ended \/ ticket[TicketOf(r)].status \in {"in_flight"} \cup Shut
  /\ At(r, ParkSteps) => run[r].ended \/ ticket[TicketOf(r)].status \in Shut

\* A park is the last thing that happened to its ticket.
ParkedFits(r) == Parked(r) => /\ ticket[TicketOf(r)].active = NoRun
                              /\ ticket[TicketOf(r)].last = r
                              /\ ticket[TicketOf(r)].status \in Shut

ParkInv == /\ SampledIsDead /\ EndedIsLeft
           /\ \A r \in RunIds : WorkedFits(r) /\ ParkedFits(r)

\* The dead stay dead, and nobody takes their run off them.
LEMMA DeadStays ==
  ASSUME Base, Moves, NEW r \in RunIds, Claimed(r), At(r, {"dead"})
  PROVE  Claimed(r)' /\ worker'[r].at = "dead"
<1>1. RunMoves(r) /\ Claimed(r)'
  BY RunParts
<1>2. ~At(r, Attended \cup LiveSteps)
  BY DEF At, Attended, LiveSteps
<1>3. ~Quits(r)
  BY <1>2 DEF Quits, At
<1>4. ~At(r, BusySteps \cup ParkSteps \cup {"leased", "landed"})
  BY <1>2, StepSets DEF At
<1>5. ~EntersNext(r)
  BY <1>4, NextFrom DEF EntersNext, At
<1>6. ~Asks(r)
  BY DEF Asks, At, ParkFrom, ParkSteps
<1> QED  BY <1>1, <1>3, <1>4, <1>5, <1>6
         DEF RunMoves, Rests, StartsOn, Advances, ParksNow, Lands, Ships, Fails, GivesUp, IsClosed,
             IsStopped, IsResumed, IsGranted, StaysOrQuits, At, BusySteps, GatePhases, WorkPhases

\* A sample is taken of a run that lives in the store and whose worker does not.
LEMMA SupervisorSamples ==
  ASSUME TypeOK, "sweep" \notin Events, NEW r \in RunIds, SupervisorStep(r),
         NEW i \in RunIds, trip'[i].kind \in {"stale", "box"}
  PROVE  Tripped(i) \/ (Claimed(i) /\ At(i, {"dead"}))
<1>0. trip \in [RunIds -> [kind : {"none", "stale", "box", "closed", "blocking"},
                           phase : RunPhases]]
  BY DEF TypeOK
<1>1. ASSUME NEW kind \in {"stale", "box"}, SampleTrip(r, kind)
      PROVE  Tripped(i) \/ (Claimed(i) /\ At(i, {"dead"}))
  BY <1>0, <1>1 DEF SampleTrip, Live, Tripped
<1>2. CASE ActOnTrip(r)
  BY <1>0, <1>2 DEF ActOnTrip, NoTrip, Tripped
<1>3. CASE SweepEscalates(r) \/ SweepBlocks(r)
  BY <1>0, <1>3 DEF SweepEscalates, SweepBlocks, NoTrip, Tripped
<1> QED  BY <1>1, <1>2, <1>3 DEF SupervisorStep

\* Every sample outlives its run's worker, not the other way round.
LEMMA SampledStep ==
  ASSUME Base, Moves, SampledIsDead, "sweep" \notin Events, [Next]_vars
  PROVE  SampledIsDead'
<1> SUFFICES ASSUME NEW i \in RunIds, trip'[i].kind \in {"stale", "box"}
             PROVE  Claimed(i)' /\ worker'[i].at = "dead"
  BY DEF SampledIsDead, Tripped, At
<1>1. Tripped(i) \/ (Claimed(i) /\ At(i, {"dead"}))
  <2>1. CASE UNCHANGED vars \/ SupervisorDies
    BY <2>1 DEF vars, SupervisorDies, NoTrip, Tripped
  <2>2. ASSUME NEW r \in RunIds, RunStep(r)
        PROVE  Tripped(i) \/ (Claimed(i) /\ At(i, {"dead"}))
    <3>1. CASE SupervisorStep(r)
      BY <3>1, SupervisorSamples DEF Base, LeaseInv
    <3>2. CASE WorkerStep(r) \/ Beat(r) \/ CommandEnds(r) \/ Crash(r)
      BY <3>2, WorkerLeavesTrips DEF Base, LeaseInv, Tripped
    <3> QED  BY <2>2, <3>1, <3>2 DEF RunStep
  <2>3. ASSUME NEW t \in Tickets, LoopStep(t) \/ OperatorStep(t) \/ BoardStep(t)
        PROVE  Tripped(i)
    BY <2>3, OthersLeaveTrips DEF Tripped
  <2> QED  BY <2>1, <2>2, <2>3 DEF Next
<1> QED  BY <1>1, DeadStays DEF SampledIsDead

\* A run ends by its worker's own hand, or when the worker has left it.
LEMMA EndedIsLeftStep ==
  ASSUME Base, Moves, SampledIsDead, EndedIsLeft
  PROVE  EndedIsLeft'
<1> SUFFICES ASSUME NEW r \in RunIds, run'[r].ended,
                    worker'[r].at \in PreLanding \cup {"landed"}
             PROVE  FALSE
  BY DEF EndedIsLeft, At
<1>0. /\ RowsOK /\ RunOK(r) /\ RunMoves(r)
      /\ run[r].ended => ~At(r, PreLanding \cup {"landed"})
  BY RunParts DEF EndedIsLeft
<1>1. ~Quits(r)
  BY QuitIsIdle
<1>2. CASE Rests(r) \/ IsStopped(r) \/ IsResumed(r)
  <2>1. run[r].ended
    BY <1>2 DEF Rests, IsStopped, IsResumed, SameCore, SameRun
  <2>2. worker'[r] = worker[r]
    BY <1>1, <1>2, <2>1 DEF Rests, IsStopped, IsResumed, StaysOrQuits
  <2> QED  BY <1>0, <2>1, <2>2 DEF At
<1>3. CASE StartsOn(r) \/ Advances(r) \/ Asks(r) \/ Lands(r)
  <2>1. run[r].ended
    BY <1>3 DEF StartsOn, Advances, Asks, Lands, SameCore, SameRun
  <2>2. At(r, PreLanding \cup {"landed"})
    BY <1>3, <2>1 DEF StartsOn, Advances, Asks, Lands, At, ParkFrom, ParkSteps, PreLanding, BusySteps,
                WorkPhases, GatePhases
  <2> QED  BY <1>0, <2>1, <2>2
<1>4. CASE EntersNext(r)
  <2>1. ~run'[r].ended
    BY <1>0, <1>4 DEF EntersNext, EnterPhase, RowsOK, RunRow
  <2> QED  BY <2>1
<1>5. CASE ParksNow(r) \/ IsGranted(r)
  BY <1>5, NewRow DEF ParksNow
<1>6. CASE Ships(r) \/ GivesUp(r)
  BY <1>1, <1>6, StepSets DEF Ships, GivesUp
<1>7. CASE Fails(r) \/ IsClosed(r)
  <2>1. worker'[r] = worker[r]
    BY <1>1, <1>7 DEF Fails, IsClosed, StaysOrQuits
  <2>2. ~At(r, Attended)
    <3>1. CASE Fails(r)
      BY <1>1, <3>1, StepSets DEF Fails, SampledIsDead, At
    <3>2. CASE IsClosed(r)
      BY <1>0, <3>2 DEF IsClosed, RunOK, IsLeft
    <3> QED  BY <1>7, <3>1, <3>2
  <2> QED  BY <2>1, <2>2, StepSets DEF PreLanding, At
<1> QED  BY <1>0, <1>2, <1>3, <1>4, <1>5, <1>6, <1>7 DEF RunMoves

\* A run that has not ended had not before, unless it is claimed only now.
LEMMA LivesOn ==
  ASSUME Base, Moves, NEW r \in RunIds, Claimed(r), ~run'[r].ended
  PROVE  ~run[r].ended
<1>0. RowsOK /\ RunMoves(r)
  BY RunParts
<1>1. CASE EntersNext(r)
  BY <1>1 DEF EntersNext, EnterPhase
<1>2. CASE ~EntersNext(r)
  BY <1>0, <1>2
     DEF RunMoves, Rests, StartsOn, Advances, Asks, ParksNow, Lands, Ships, Fails, GivesUp, IsClosed,
         IsStopped, IsResumed, IsGranted, EndsAs, SameCore, SameRun
<1> QED  BY <1>1, <1>2

\* Who a ticket's columns name, at work or parked, keeps it in flight or shut.
LEMMA KeptStatus ==
  ASSUME Base, Moves, EndedIsLeft, NEW r \in RunIds, Claimed(r), ~run[r].ended, ~run'[r].ended,
         ~HandsBack(TicketOf(r), r),
         \/ ticket[TicketOf(r)].active = r
         \/ ticket[TicketOf(r)].active = NoRun /\ ticket[TicketOf(r)].last = r,
         ticket[TicketOf(r)].status \in {"in_flight"} \cup Shut
  PROVE  ticket'[TicketOf(r)].status \in {ticket[TicketOf(r)].status} \cup Shut
<1> DEFINE t == TicketOf(r)
<1>1. /\ t \in Tickets /\ StatusMoves(t) /\ r # NoRun /\ Latest(t) = r
      /\ run[r].outcome = "none"
  BY RunParts, RunIdsAreRuns DEF RunOK, RowFits, Moves, TicketMoves, Latest
<1>2. ASSUME NEW q \in RunIds
      PROVE  ~HandsBack(t, q)
  <2> SUFFICES ASSUME HandsBack(t, q)
               PROVE  FALSE
    OBVIOUS
  <2>1. /\ q # r /\ Claimed(q) /\ TicketOf(q) = t /\ At(q, {"approved", "gate_ok"})
    BY DEF HandsBack
  <2>2. At(q, Attended) /\ At(q, PreLanding)
    BY <2>1 DEF At, Attended, PreLanding, LiveSteps, Steps, BusySteps
  <2>3. ~run[q].ended /\ run[q].phase \notin ParkedPhases
    BY <2>2, RunParts DEF EndedIsLeft, RunOK, IsLeft, At
  <2>4. ticket[t].active = q
    BY <2>1, <2>3, WorkingIsNewest
  <2> QED  BY <1>1, <2>1, <2>4, RunIdsAreRuns
<1>3. ASSUME NEW q \in RunIds
      PROVE  ~Reopens(t, q) /\ ~Resumes(t, q)
  BY <1>1 DEF Reopens, Resumes
<1> HIDE DEF t
<1>4. ticket[t].status \in {"in_flight"} \cup Shut => ticket'[t].status \in {ticket[t].status} \cup Shut
  BY <1>1, <1>2, <1>3 DEF StatusMoves, Shut, Unlisted
<1> QED  BY <1>4 DEF t

\* Where a worker at work, or at a park, has come from.
LEMMA WorkerFrom ==
  ASSUME Base, Moves, NEW r \in RunIds
  PROVE  /\ worker'[r].at \in BusySteps \cup {"landed"} =>
              At(r, BusySteps \cup {"landed"}) \/ StartsOn(r)
         /\ worker'[r].at \in ParkSteps => At(r, ParkSteps) \/ Asks(r)
<1> SUFFICES ASSUME worker'[r].at \in BusySteps \cup ParkSteps \cup {"landed"},
                    ~StartsOn(r), ~Asks(r)
             PROVE  /\ worker'[r].at \in BusySteps \cup {"landed"} =>
                         At(r, BusySteps \cup {"landed"})
                    /\ worker'[r].at \in ParkSteps => At(r, ParkSteps)
  BY StepSets DEF Asks, StartsOn, ParkSteps
<1>1. RunMoves(r) /\ ~Quits(r)
  BY RunParts, QuitIsIdle
<1>2. ~IsGranted(r) /\ ~Ships(r) /\ ~ParksNow(r) /\ ~GivesUp(r)
  BY <1>1, StepSets DEF IsGranted, Ships, ParksNow, GivesUp
<1>3. CASE worker'[r] = worker[r]
  BY <1>3 DEF At
<1>4. CASE Advances(r) \/ Lands(r) \/ (IsStopped(r) /\ worker'[r] # worker[r])
  BY <1>4 DEF Advances, Lands, IsStopped, At, BusySteps, ParkSteps, WorkPhases, GatePhases
<1>5. CASE EntersNext(r)
  <2>1. PICK p \in NextPhases(r) : EnterPhase(r, p)
    BY <1>5 DEF EntersNext
  <2>2. worker'[r].at = p
    BY <2>1 DEF EnterPhase, Base, LeaseInv, TypeOK
  <2> QED  BY <2>1, <2>2, NextFrom, StepSets DEF At, BusySteps
<1> QED  BY <1>1, <1>2, <1>3, <1>4, <1>5
         DEF RunMoves, Rests, Fails, IsClosed, IsStopped, IsResumed, StaysOrQuits

\* The ticket of a run at work stays in flight, and of one that asks, shut.
LEMMA WorkedStep ==
  ASSUME Base, Moves, EndedIsLeft, NEW r \in RunIds, WorkedFits(r)
  PROVE  WorkedFits(r)'
<1> SUFFICES ASSUME worker'[r].at \in BusySteps \cup ParkSteps \cup {"landed"}, ~run'[r].ended
             PROVE  /\ ticket'[TicketOf(r)'].status \in {"in_flight"} \cup Shut
                    /\ worker'[r].at \in ParkSteps => ticket'[TicketOf(r)'].status \in Shut
  BY StepSets DEF WorkedFits, At
<1>1. \/ At(r, BusySteps \cup {"landed"} \cup ParkSteps) \/ Asks(r)
      \/ StartsOn(r)
  BY WorkerFrom DEF At
<1>2. CASE StartsOn(r)
  <2>1. At(r, Attended) /\ Hired(r)
    BY <1>2, StepSets DEF StartsOn, At, Base, RunInv
  <2>2. TicketOf(r)' = TicketOf(r)
    BY <2>1, RunParts DEF Hired
  <2>3. worker'[r].at \notin ParkSteps
    BY <1>2 DEF StartsOn, ParkSteps
  <2> QED  BY <1>2, <2>2, <2>3 DEF StartsOn
<1>3. CASE ~StartsOn(r)
  <2>1. At(r, BusySteps \cup {"landed"} \cup ParkSteps)
    BY <1>1, <1>3 DEF Asks, At, ParkFrom, ParkSteps, BusySteps, WorkPhases, GatePhases
  <2>2. At(r, Attended) /\ Claimed(r) /\ run[r].phase \notin ParkedPhases
    <3>1. At(r, Attended)
      BY <2>1, StepSets DEF At
    <3> QED  BY <3>1, RunParts DEF Base, RunInv, Hired, RunOK, IsLeft
  <2>3. TicketOf(r)' = TicketOf(r) /\ ~run[r].ended
    BY <2>2, RunParts, LivesOn
  <2>4. ticket[TicketOf(r)].active = r
    BY <2>2, <2>3, WorkingIsNewest
  <2>5. ~HandsBack(TicketOf(r), r)
    BY StepSets DEF HandsBack
  <2>6. ticket[TicketOf(r)].status \in {"in_flight"} \cup Shut
    BY <2>1, <2>3 DEF WorkedFits, At
  <2>7. ticket'[TicketOf(r)].status \in {ticket[TicketOf(r)].status} \cup Shut
    BY <2>2, <2>3, <2>4, <2>5, <2>6, KeptStatus
  <2>8. worker'[r].at \in ParkSteps => ticket'[TicketOf(r)].status \in Shut
    <3>1. CASE At(r, ParkSteps)
      BY <2>3, <2>7, <3>1 DEF WorkedFits
    <3>2. CASE Asks(r)
      BY <2>6, <2>7, <3>2 DEF Asks
    <3> QED  BY <3>1, <3>2, WorkerFrom
  <2> QED  BY <2>3, <2>6, <2>7, <2>8
<1> QED  BY <1>2, <1>3

\* A run parks from the step its worker asks at.
LEMMA ParksFrom ==
  ASSUME Base, Moves, NEW r \in RunIds, Parked(r)'
  PROVE  Claimed(r) /\ ~run[r].ended /\ (Parked(r) \/ At(r, ParkSteps))
<1>0. RowsOK /\ RunMoves(r) /\ Claimed(r)' /\ ~run'[r].ended /\ run'[r].phase \in ParkedPhases
  BY RunParts DEF Parked, Live
<1>1. ~IsGranted(r)
  BY <1>0, NewRow DEF ParkedPhases
<1>2. Claimed(r) /\ TicketOf(r)' = TicketOf(r)
  BY <1>0, <1>1, MovesKeepTicket DEF Base, RunInv, Claimed, TicketOf
<1>3. ~run[r].ended
  BY <1>0, <1>2, LivesOn
<1>4. ~EntersNext(r)
  <2> SUFFICES ASSUME EntersNext(r)
               PROVE  FALSE
    OBVIOUS
  <2>1. PICK p \in NextPhases(r) : run'[r].phase = p
    BY <1>0 DEF EntersNext, EnterPhase, RowsOK, RunRow
  <2> QED  BY <1>0, <2>1, NextFrom DEF ParkedPhases, WorkPhases, GatePhases
<1>5. SameRun(run'[r], run[r]) \/ ParksNow(r)
  BY <1>0, <1>1, <1>4
     DEF RunMoves, Rests, StartsOn, Advances, Asks, Lands, Ships, Fails, GivesUp, IsClosed,
         IsStopped, IsResumed, EndsAs, SameCore
<1> QED  BY <1>0, <1>2, <1>3, <1>5 DEF Parked, Live, SameRun, ParksNow

\* A park gives the lease back, and no claim takes the ticket while it is shut.
LEMMA ParkColumns ==
  ASSUME Base, Moves, [Next]_vars, StoreBoard, NEW r \in RunIds, Parked(r)', ParkedFits(r),
         Parked(r) \/ ticket[TicketOf(r)].active = r
  PROVE  ticket'[TicketOf(r)].active = NoRun /\ ticket'[TicketOf(r)].last = r
<1> DEFINE t == TicketOf(r)
<1>1. /\ t \in Tickets /\ Claimed(r) /\ ~run[r].ended /\ r # NoRun
      /\ ~run'[r].ended /\ run'[r].phase \in ParkedPhases
  BY ParksFrom, RunParts, RunIdsAreRuns DEF Parked, Live
<1>2. /\ Parked(r) => ticket[t].active = NoRun /\ ticket[t].last = r
      /\ ~Parked(r) => ticket[t].active = r /\ run[r].phase \notin ParkedPhases
  BY <1>1 DEF ParkedFits, Parked, Live
<1> HIDE DEF t
<1>3. ASSUME Keeps
      PROVE  Parked(r) /\ SameLease(ticket'[t], ticket[t])
  BY <1>1, <1>2, <1>3 DEF Keeps, Leases, SameRun, Parked, Live
<1>4. ASSUME NEW q \in RunIds, Enters(q)
      PROVE  Parked(r) /\ SameLease(ticket'[t], ticket[t])
  BY <1>1, <1>2, <1>4 DEF Enters, Leases, Others, SameRun, Parked, Live
<1>5. ASSUME NEW q \in RunIds, Parks(q) \/ Ends(q)
      PROVE  ticket'[t].active = NoRun /\ ticket'[t].last = r
  <2>1. q = r \/ Parked(r)
    BY <1>1, <1>2, <1>5 DEF Parks, Ends, Others, SameRun, Parked, Live
  <2>2. q # NoRun
    BY RunIdsAreRuns
  <2> QED  BY <1>1, <1>2, <1>5, <2>1, <2>2 DEF Parks, Ends, GivesBack, SameLease
<1>6. ASSUME NEW q \in RunIds, NEW u \in Tickets, Grants(u, q)
      PROVE  Parked(r) /\ SameLease(ticket'[t], ticket[t])
  <2>1. q # r
    BY <1>1, <1>6 DEF Grants
  <2>2. Parked(r)
    BY <1>1, <1>2, <1>6, <2>1 DEF Grants, Others, SameRun, Parked, Live
  <2>3. run'[q].ticket = u /\ ~Claimed(q)
    BY <1>6 DEF Grants, NewRun
  <2>4. IsGranted(q)
    BY <2>3, MovesKeepTicket, RunParts DEF Base, RunInv, Claimed, TicketOf
  <2>5. ticket[u].status = "ready"
    BY <2>3, <2>4, NewRow
  <2>6. u # t
    BY <2>2, <2>5 DEF ParkedFits, Shut, t
  <2> QED  BY <1>1, <1>6, <2>2, <2>6 DEF Grants
<1>7. ticket'[t].active = NoRun /\ ticket'[t].last = r
  <2>1. \/ Parked(r) /\ SameLease(ticket'[t], ticket[t])
        \/ ticket'[t].active = NoRun /\ ticket'[t].last = r
    BY <1>3, <1>4, <1>5, <1>6, EffectOfStep DEF Effect, Base
  <2> QED  BY <1>2, <2>1 DEF SameLease
<1> QED  BY <1>7 DEF t

\* A park stays where approve(), a requeue and the operator look for it.
LEMMA ParkFitsStep ==
  ASSUME Base, Moves, [Next]_vars, StoreBoard, EndedIsLeft, NEW r \in RunIds,
         WorkedFits(r), ParkedFits(r)
  PROVE  ParkedFits(r)'
<1> SUFFICES ASSUME Parked(r)'
             PROVE  /\ ticket'[TicketOf(r)'].active = NoRun
                    /\ ticket'[TicketOf(r)'].last = r
                    /\ ticket'[TicketOf(r)'].status \in Shut
  BY DEF ParkedFits
<1>1. /\ Claimed(r) /\ ~run[r].ended /\ ~run'[r].ended /\ TicketOf(r)' = TicketOf(r)
      /\ Parked(r) \/ At(r, ParkSteps)
  BY ParksFrom, RunParts DEF Parked, Live
<1>2. Parked(r) \/ ticket[TicketOf(r)].active = r
  BY <1>1, WorkingIsNewest DEF Parked, Live
<1>3. ticket[TicketOf(r)].status \in Shut
  BY <1>1 DEF ParkedFits, WorkedFits
<1>4. ~HandsBack(TicketOf(r), r)
  <2>1. "approved" \notin ParkSteps /\ "gate_ok" \notin ParkSteps
        /\ "approved" \in Attended /\ "gate_ok" \in Attended
    BY DEF ParkSteps, Attended, LiveSteps, Steps, BusySteps
  <2> QED  BY <1>1, <2>1, RunParts DEF HandsBack, Parked, RunOK, IsLeft, At
<1>5. ticket'[TicketOf(r)].status \in Shut
  BY <1>1, <1>2, <1>3, <1>4, KeptStatus DEF ParkedFits
<1> QED  BY <1>1, <1>2, <1>5, ParkColumns

\* No run is claimed.
LEMMA ParkInit == Init => ParkInv
<1> SUFFICES ASSUME Init, NEW r \in RunIds
             PROVE  /\ ~Tripped(r) /\ ~run[r].ended /\ worker[r].at = "none" /\ ~Parked(r)
  BY StepSets DEF ParkInv, SampledIsDead, EndedIsLeft, WorkedFits, ParkedFits, At
<1> QED  BY RowsAssumption DEF Init, NoTrip, NewRun, NoWorker, Tripped, Parked, Live, Claimed

\* A run that waits for an approval can be given one: nothing that other runs, sweeps of
\* the dead, commands and the board do takes the ticket's last run or its wait from it.
THEOREM ParkReleasable ==
  ASSUME StoreBoard, "sweep" \notin Events
  PROVE  Spec => []ParkedCanBeReleased
<1>1. Base /\ ParkInv /\ [Next]_vars => ParkInv'
  <2> SUFFICES ASSUME Base, ParkInv, [Next]_vars
               PROVE  ParkInv'
    OBVIOUS
  <2>1. Moves
    BY StepMoves DEF Base
  <2>2. SampledIsDead' /\ EndedIsLeft'
    BY <2>1, SampledStep, EndedIsLeftStep DEF ParkInv
  <2>3. \A r \in RunIds : WorkedFits(r)' /\ ParkedFits(r)'
    BY <2>1, WorkedStep, ParkFitsStep DEF ParkInv
  <2> QED  BY <2>2, <2>3 DEF ParkInv
<1>2. ParkInv => ParkedCanBeReleased
  BY DEF ParkInv, ParkedFits, Parked, ParkedCanBeReleased, ParkedPhases, Shut, ClosedStatuses
<1> QED  BY <1>1, <1>2, ParkInit, BaseInvariant, PTL DEF Spec

-----------------------------------------------------------------------------
(***************************************************************************)
(* The cap on failed runs, where no run is swept under a worker that       *)
(* lives: such a worker could put the ticket back in flight between its    *)
(* newer run's escalation and triage.                                      *)
(***************************************************************************)
\* The close-out of a failed run, and what is left of it past the escalation.
FailSteps == {"refused", "barring", "closed", "blocking", "steered", "rerun", "triage"}
Lingers   == {"steered", "rerun", "triage"}

\* A parked run is never sampled.
SampledFits  == \A r \in RunIds : Tripped(r) => trip[r].phase \in SweepablePhases
\* Only an ended run is closed out.
ClosedIsOver == \A r \in RunIds : At(r, FailSteps) => run[r].ended
\* A ticket in flight whose newest run is past its escalation is not struck out.
CapFits(q) == LET t == TicketOf(q)
              IN  /\ At(q, Lingers)
                  /\ ticket[t].last = q /\ ticket[t].active = NoRun
                  /\ ticket[t].status = "in_flight"
                  => ticket[t].strikes < MaxFailedRuns

CapInv == /\ SampledIsDead /\ EndedIsLeft /\ SampledFits /\ ClosedIsOver
          /\ \A q \in RunIds : CapFits(q)

\* A failed ending ends the run.
LEMMA FailEnds ==
  ASSUME LeaseInv, NEW r \in RunIds, Claimed(r), NEW class, FailRow(r, class)
  PROVE  run'[r].ended
  BY FailRowMoves DEF RowAside, SameRow, SameRun, EndsAs

\* How a worker comes to close its run out, and past the escalation.
LEMMA FailStepsFrom ==
  ASSUME LeaseInv, NEW r \in RunIds, Claimed(r), WorkerStep(r) \/ Crash(r)
  PROVE  /\ worker'[r].at \in FailSteps => At(r, FailSteps) \/ run'[r].ended
         /\ worker'[r].at \in Lingers =>
              At(r, Lingers) \/ (Escalate(r) /\ ~MustEscalate(TicketOf(r))) \/ BlockEscalated(r)
<1> DEFINE Other == worker'[r].at \notin FailSteps
<1>1. ASSUME NEW step, Goes(r, step), UNCHANGED <<landed, commanded>>
      PROVE  worker'[r].at = step
  BY <1>1, WorkerAside
<1>2. ASSUME NEW p \in NextPhases(r), EnterPhase(r, p)
      PROVE  Other
  <2>1. worker'[r].at = p
    BY <1>2 DEF EnterPhase, LeaseInv, TypeOK
  <2> QED  BY <1>2, <2>1, NextFrom DEF FailSteps, WorkPhases, GatePhases
<1>3. CASE Merge(r)
  <2>1. worker'[r].at = "landed"
    BY <1>3, GoesMoves DEF Merge, LeaseInv
  <2> QED  BY <2>1 DEF FailSteps, Lingers
<1>4. CASE \/ \E p \in PausePhases(r) : EndPaused(r, p)
           \/ ReviewApproves(r) \/ GateVerifies(r) \/ WorkerAborts(r)
           \/ HandOff(r) \/ RequeueDrift(r) \/ EndIfCanceled(r) \/ GateRefuses(r)
           \/ \E step \in ParkSteps : AskOperator(r, step)
           \/ ReleaseMerged(r) \/ MirrorMerged(r) \/ Amend(r) \/ Crash(r)
  <2>1. PICK step \in ParkSteps \cup {"gone", "dead", "approved", "gate_ok", "canceled",
                                      "gate_failed", "shipped"} :
          Goes(r, step) /\ UNCHANGED <<landed, commanded>>
    BY <1>4 DEF EndPaused, ReviewApproves, GateVerifies, WorkerAborts, HandOff, RequeueDrift,
                EndIfCanceled, GateRefuses, AskOperator, ReleaseMerged, MirrorMerged, Amend,
                Crash
  <2> QED  BY <1>1, <2>1 DEF FailSteps, Lingers, ParkSteps
<1>5. CASE \/ RefuseLease(r) \/ StartWork(r) \/ MeetsEnd(r) \/ Park(r)
           \/ \E class \in {"work", "infra"} : Fail(r, class)
  <2>1. PICK step \in {"gone", "start", "refused", "amend", "closed"} :
          /\ Goes(r, step) /\ UNCHANGED <<landed, commanded>>
          /\ step \in {"refused", "closed"} =>
               (run[r].ended /\ UNCHANGED run) \/ \E class : FailRow(r, class)
    BY <1>5 DEF RefuseLease, StartWork, MeetsEnd, Park, Fail
  <2>2. step \in {"refused", "closed"} => run'[r].ended
    BY <2>1, FailEnds
  <2> QED  BY <1>1, <2>1, <2>2 DEF FailSteps, Lingers
<1>6. CASE ParkSteeredCap(r) \/ Rerun(r) \/ Triage(r)
  <2>1. At(r, Lingers) /\ At(r, FailSteps)
    BY <1>6 DEF ParkSteeredCap, Rerun, Triage, At, Lingers, FailSteps
  <2> QED  BY <2>1
<1>7. CASE BlockEscalated(r)
  <2>1. At(r, FailSteps)
    BY <1>7 DEF BlockEscalated, At, FailSteps
  <2> QED  BY <1>7, <2>1
<1>8. CASE Escalate(r)
  <2>1. At(r, FailSteps)
    BY <1>8 DEF Escalate, At, FailSteps
  <2>2. CASE MustEscalate(TicketOf(r))
    <3>1. PICK step \in {"blocking", "barring"} : Goes(r, step)
      BY <1>8, <2>2 DEF Escalate
    <3>2. worker'[r].at \in {"blocking", "barring"}
      BY <1>1, <1>8, <3>1 DEF Escalate
    <3> QED  BY <2>1, <3>2 DEF Lingers
  <2> QED  BY <1>8, <2>1, <2>2
<1> QED  BY <1>2, <1>3, <1>4, <1>5, <1>6, <1>7, <1>8 DEF WorkerStep, FailSteps, Lingers

\* A worker's step moves no other worker.
LEMMA WorkerKeeps ==
  ASSUME LeaseInv, NEW i \in RunIds, WorkerStep(i) \/ Crash(i), NEW r \in RunIds \ {i}
  PROVE  worker'[r] = worker[r]
<1>1. (\E step : Goes(i, step)) \/ \E p \in NextPhases(i) : EnterPhase(i, p)
  <2>1. CASE \/ RefuseLease(i) \/ StartWork(i) \/ \E p \in NextPhases(i) : EnterPhase(i, p)
             \/ \E p \in PausePhases(i) : EndPaused(i, p)
             \/ ReviewApproves(i) \/ GateVerifies(i) \/ WorkerAborts(i) \/ MeetsEnd(i)
             \/ \E class \in {"work", "infra"} : Fail(i, class)
    BY <2>1 DEF RefuseLease, StartWork, EndPaused, ReviewApproves, GateVerifies, WorkerAborts,
                MeetsEnd, Fail
  <2>2. CASE \/ HandOff(i) \/ RequeueDrift(i) \/ EndIfCanceled(i) \/ GateRefuses(i)
             \/ \E step \in ParkSteps : AskOperator(i, step)
             \/ Park(i) \/ Merge(i) \/ ReleaseMerged(i) \/ MirrorMerged(i)
    BY <2>2 DEF HandOff, RequeueDrift, EndIfCanceled, GateRefuses, AskOperator, Park, Merge,
                ReleaseMerged, MirrorMerged
  <2>3. CASE \/ Escalate(i) \/ BlockEscalated(i) \/ ParkSteeredCap(i)
             \/ Rerun(i) \/ Triage(i) \/ Amend(i) \/ Crash(i)
    BY <2>3 DEF Escalate, BlockEscalated, ParkSteeredCap, Rerun, Triage, Amend, Crash
  <2> QED  BY <2>1, <2>2, <2>3 DEF WorkerStep
<1>2. ASSUME NEW p \in NextPhases(i), EnterPhase(i, p)
      PROVE  worker'[r] = worker[r]
  BY <1>2 DEF EnterPhase, LeaseInv, TypeOK
<1> QED  BY <1>1, <1>2, GoesMoves DEF LeaseInv

\* The same of any step.
LEMMA FailStepsStep ==
  ASSUME LeaseInv, [Next]_vars, NEW r \in RunIds
  PROVE  /\ worker'[r].at \in FailSteps => At(r, FailSteps) \/ run'[r].ended
         /\ worker'[r].at \in Lingers =>
              At(r, Lingers) \/ (Escalate(r) /\ ~MustEscalate(TicketOf(r))) \/ BlockEscalated(r)
<1>1. CASE UNCHANGED worker
  BY <1>1 DEF At
<1>2. ASSUME NEW i \in RunIds, Claimed(i), WorkerStep(i) \/ Crash(i)
      PROVE  i = r \/ worker'[r] = worker[r]
  BY <1>2, WorkerKeeps
<1>3. ASSUME NEW t \in Tickets, NEW i \in RunIds, Claim(t, i)
      PROVE  worker'[r] = worker[r] \/ worker'[r].at = "leased"
  BY <1>3, GoesMoves DEF Claim, LeaseInv
<1>4. CASE worker'[r].at = "leased"
  BY <1>4 DEF FailSteps, Lingers
<1>5. CASE \E i \in RunIds : Claimed(i) /\ (WorkerStep(i) \/ Crash(i))
  <2>1. CASE Claimed(r) /\ (WorkerStep(r) \/ Crash(r))
    BY <2>1, FailStepsFrom
  <2> QED  BY <1>2, <1>5, <2>1 DEF At
<1>6. CASE \E i \in RunIds : SupervisorStep(i) \/ CommandEnds(i) \/ Beat(i)
  BY <1>1, <1>6 DEF SupervisorStep, SampleTrip, ActOnTrip, SweepEscalates, SweepBlocks,
                    CommandEnds, Beat
<1>7. CASE \E t \in Tickets : LoopStep(t)
  BY <1>1, <1>3, <1>4, <1>7
     DEF LoopStep, FindIdle, FindStruckOut, BlockStruckOut, AdmitTicket, FindUnparked, At
<1>8. CASE \E t \in Tickets : OperatorStep(t) \/ BoardStep(t)
  BY <1>1, <1>8
     DEF OperatorStep, RequeueByHuman, ApproveParked, Pause, ResumePaused, Abort, CancelTicket,
         BoardStep, MirrorTask, Listed, WaitOnBlockers, ParkUnlisted, Retire, BoardCloses,
         ReconcileMirror, AbortCanceled
<1> QED  BY <1>1, <1>5, <1>6, <1>7, <1>8 DEF Next, RunStep, vars, SupervisorDies

\* The supervisor samples what it may sweep.
LEMMA SampledFitsStep ==
  ASSUME Base, SampledFits, [Next]_vars
  PROVE  SampledFits'
<1> SUFFICES ASSUME NEW i \in RunIds, trip'[i].kind \in {"stale", "box"}
             PROVE  trip'[i].phase \in SweepablePhases
  BY DEF SampledFits, Tripped
<1>0. trip \in [RunIds -> [kind : {"none", "stale", "box", "closed", "blocking"},
                           phase : RunPhases]]
  BY DEF Base, LeaseInv, TypeOK
<1>1. CASE trip'[i] = trip[i] \/ trip'[i] = NoTrip
  BY <1>1 DEF SampledFits, Tripped, NoTrip
<1>2. ASSUME NEW r \in RunIds, SupervisorStep(r)
      PROVE  trip'[i] \in {trip[i], NoTrip} \/ trip'[i].phase \in SweepablePhases
  <2>1. ASSUME NEW kind, SampleTrip(r, kind)
        PROVE  trip'[i] = trip[i] \/ trip'[i].phase \in SweepablePhases
    BY <1>0, <2>1 DEF SampleTrip
  <2>2. CASE ActOnTrip(r) \/ SweepEscalates(r) \/ SweepBlocks(r)
    BY <1>0, <2>2 DEF ActOnTrip, SweepEscalates, SweepBlocks, NoTrip
  <2> QED  BY <1>2, <2>1, <2>2 DEF SupervisorStep
<1> QED  BY <1>1, <1>2, WorkerLeavesTrips, OthersLeaveTrips
         DEF Next, RunStep, vars, SupervisorDies, Base, LeaseInv

\* The one run that works a ticket holds its lease.
LEMMA WorkingHolds ==
  ASSUME Base, NEW r \in RunIds, Claimed(r), ~run[r].ended,
         At(r, Attended) \/ run[r].phase \notin ParkedPhases
  PROVE  ticket[TicketOf(r)].active = r /\ r # NoRun
  BY RunIdsAreRuns DEF Base, LeaseInv, LeaseAgreement, RunInv, RunOK, IsLeft

\* No ticket gets struck out between a close-out's escalation and its triage.
LEMMA CapStep ==
  ASSUME Base, CapInv, Moves, [Next]_vars, NEW q \in RunIds
  PROVE  CapFits(q)'
<1> SUFFICES ASSUME worker'[q].at \in Lingers, ticket'[TicketOf(q)'].last = q,
                    ticket'[TicketOf(q)'].active = NoRun,
                    ticket'[TicketOf(q)'].status = "in_flight"
             PROVE  ticket'[TicketOf(q)'].strikes < MaxFailedRuns
  BY DEF CapFits, At
<1> DEFINE t == TicketOf(q)
<1>1. \/ At(q, Lingers)
      \/ Escalate(q) /\ ~MustEscalate(t)
      \/ BlockEscalated(q)
  BY FailStepsStep DEF Base
<1>2. At(q, FailSteps)
  BY <1>1 DEF Escalate, BlockEscalated, At, Lingers, FailSteps
<1>3. Claimed(q) /\ t \in Tickets /\ TicketOf(q)' = t /\ run[q].ended /\ q # NoRun
  <2>1. At(q, Attended)
    BY <1>2 DEF At, FailSteps, Attended, LiveSteps, Steps, CloseSteps
  <2>2. Claimed(q)
    BY <2>1 DEF Base, RunInv, Hired
  <2> QED  BY <1>2, <2>2, RunParts, RunIdsAreRuns DEF CapInv, ClosedIsOver
<1> HIDE DEF t
<1>4. ticket[t].last = q /\ ticket[t].active = NoRun
  <2>1. CASE Leases
    BY <1>3, <2>1 DEF Leases, SameLease
  <2>2. ASSUME NEW r \in RunIds, Parks(r) \/ Ends(r)
        PROVE  SameLease(ticket'[t], ticket[t])
    <3>1. r # q /\ GivesBack(r)
      BY <1>3, <2>2 DEF Parks, Ends
    <3> QED  BY <1>3, <3>1 DEF GivesBack
  <2>3. ASSUME NEW r \in RunIds, NEW u \in Tickets, Grants(u, r)
        PROVE  SameLease(ticket'[t], ticket[t])
    BY <1>3, <2>3, RunIdsAreRuns DEF Grants
  <2> QED  BY <1>3, <2>1, <2>2, <2>3, EffectOfStep DEF Effect, Keeps, Enters, SameLease, Base
<1>5. ASSUME NEW r \in RunIds, Claimed(r), TicketOf(r) = t, ~run[r].ended,
             At(r, Attended) \/ run[r].phase \notin ParkedPhases
      PROVE  FALSE
  BY <1>4, <1>5, WorkingHolds
<1>6. ticket[t].status = "in_flight"
  <2> SUFFICES ASSUME ticket[t].status # "in_flight"
               PROVE  FALSE
    OBVIOUS
  <2>1. PICK r \in RunIds : TicketOf(r) = t /\ At(r, {"leased"})
    BY <1>3 DEF Moves, TicketMoves, StatusMoves, Unlisted
  <2>2. At(r, Attended) /\ At(r, PreLanding)
    BY <2>1, StepSets DEF At, PreLanding
  <2>3. Claimed(r) /\ ~run[r].ended
    BY <2>2 DEF Base, RunInv, Hired, CapInv, EndedIsLeft, At
  <2> QED  BY <1>5, <2>1, <2>2, <2>3
<1>7. ticket[t].strikes \in Nat /\ Counted(t)
  BY <1>3, StepCounts DEF Base, LeaseInv, TypeOK, TicketRow
<1>8. ticket'[t].strikes \in {0, ticket[t].strikes}
  <2>1. ASSUME NEW r \in RunIds, Claimed(r), TicketOf(r) = t, EndsAs(r, "failed"), FailedBy(r)
        PROVE  FALSE
    <3>1. Tripped(r) => trip[r].phase \notin ParkedPhases
      BY DEF CapInv, SampledFits, SweepablePhases
    <3> QED  BY <1>5, <2>1, <3>1 DEF EndsAs, FailedBy
  <2> QED  BY <1>7, <2>1 DEF Counted
<1>9. ticket[t].strikes < MaxFailedRuns
  <2>1. CASE At(q, Lingers)
    BY <1>4, <1>6, <2>1 DEF CapInv, CapFits, t
  <2>2. CASE Escalate(q) /\ ~MustEscalate(t)
    BY <1>6, <1>7, <2>2 DEF MustEscalate, MaxFailedRuns
  <2>3. CASE BlockEscalated(q)
    <3>1. TicketMayMove(ticket[t].status, "blocked_on_operator")
      BY <1>6 DEF TicketMayMove, TicketEdges
    <3>2. ticket' = [ticket EXCEPT ![t].status = "blocked_on_operator"]
      BY <2>3, <3>1 DEF BlockEscalated, BlockTicket, t
    <3>3. ticket'[t].status = "blocked_on_operator"
      BY <1>3, <3>2 DEF Base, LeaseInv, TypeOK, TicketRow
    <3> QED  BY <1>3, <3>3
  <2> QED  BY <1>1, <2>1, <2>2, <2>3
<1> QED  BY <1>3, <1>7, <1>8, <1>9 DEF MaxFailedRuns

\* The invariant of the cap holds of every reachable state.
LEMMA CapInvariant ==
  ASSUME "sweep" \notin Events
  PROVE  Spec => []CapInv
<1>1. Init => CapInv
  <2> SUFFICES ASSUME Init, NEW r \in RunIds
               PROVE  ~Tripped(r) /\ ~run[r].ended /\ worker[r].at = "none"
    BY DEF CapInv, SampledIsDead, EndedIsLeft, SampledFits, ClosedIsOver, CapFits, FailSteps,
           Lingers, At
  <2> QED  BY DEF Init, NoTrip, NewRun, NoWorker, Tripped
<1>2. Base /\ CapInv /\ [Next]_vars => CapInv'
  <2> SUFFICES ASSUME Base, CapInv, [Next]_vars
               PROVE  CapInv'
    OBVIOUS
  <2>1. Moves
    BY StepMoves DEF Base
  <2>2. SampledIsDead' /\ EndedIsLeft' /\ SampledFits'
    BY <2>1, SampledStep, EndedIsLeftStep, SampledFitsStep DEF CapInv
  <2>3. ClosedIsOver'
    <3> SUFFICES ASSUME NEW r \in RunIds, worker'[r].at \in FailSteps
                 PROVE  run'[r].ended
      BY DEF ClosedIsOver, At
    <3>1. At(r, FailSteps) \/ run'[r].ended
      BY FailStepsStep DEF Base
    <3> QED  BY <3>1, EndedStep DEF CapInv, ClosedIsOver, Base, SameRun
  <2> QED  BY <2>1, <2>2, <2>3, CapStep DEF CapInv
<1> QED  BY <1>1, <1>2, BaseInvariant, PTL DEF Spec

\* Triage requeues no ticket that has been struck out but by a worker that comes late
\* with an earlier run: escalate() has looked at the failure before, and none is
\* counted in between.
THEOREM TriageCapped ==
  ASSUME "sweep" \notin Events
  PROVE  Spec => TriageBelowCap
<1> DEFINE Capped == \A t \in Tickets :
       (/\ "triage" \in ticket'[t].helped \ ticket[t].helped
        /\ ticket[t].strikes >= MaxFailedRuns)
       => \E q \in RunIds : /\ TicketOf(q) = t /\ q < ticket[t].last
                            /\ worker'[q] # worker[q]
<1>1. Base /\ CapInv /\ [Next]_vars => Capped
  <2> SUFFICES ASSUME Base, CapInv, [Next]_vars, NEW t \in Tickets,
                      "triage" \in ticket'[t].helped \ ticket[t].helped,
                      ticket[t].strikes >= MaxFailedRuns
               PROVE  \E q \in RunIds : /\ TicketOf(q) = t /\ q < ticket[t].last
                                        /\ worker'[q] # worker[q]
    OBVIOUS
  <2>1. PICK q \in RunIds : TriagedBy(t, q)
    BY StepCounts DEF Base, Triaged
  <2>2. Claimed(q)
    BY <2>1 DEF TriagedBy, Claimed, TicketOf
  <2>3. q <= ticket[t].last
    BY <2>1, <2>2 DEF TriagedBy, Base, Numbered, Latest
  <2>4. ticket[t].strikes \in Nat /\ ticket[t].last \in {NoRun} \cup RunIds
    BY DEF Base, LeaseInv, TypeOK, TicketRow
  <2>5. ticket[t].last # q
    <3>1. ~(ticket[t].strikes < MaxFailedRuns)
      BY <2>4 DEF MaxFailedRuns
    <3>2. At(q, Lingers)
      BY <2>1 DEF TriagedBy, Lingers, At
    <3> QED  BY <2>1, <3>1, <3>2 DEF TriagedBy, CapInv, CapFits
  <2>6. q < ticket[t].last
    <3>1. q \in Nat /\ ticket[t].last \in Nat
      BY <2>4, RunIdsAreRuns DEF NoRun
    <3>2. \A n, m \in Nat : n <= m /\ m # n => n < m
      OBVIOUS
    <3> QED  BY <2>3, <2>5, <3>1, <3>2
  <2> QED  BY <2>1, <2>6 DEF TriagedBy
<1>2. Base /\ CapInv /\ [Next]_vars => [Capped]_vars
  BY <1>1
<1> HIDE DEF Capped
<1>3. Spec => [][Capped]_vars
  BY <1>2, BaseInvariant, CapInvariant, PTL DEF Spec
<1> QED  BY <1>3 DEF TriageBelowCap, Capped

=============================================================================
