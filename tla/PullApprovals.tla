----------------------------- MODULE PullApprovals -----------------------------
(****************************************************************************)
(* What the factory merges was approved: by a review, and under approve =   *)
(* "human" without reviewed fixes by a human.  The approval is followed from *)
(* the row the operator released, through the run that resumes it, over     *)
(* merges of main, to the park that carries it to the next.                 *)
(****************************************************************************)
EXTENDS PullRequestSafety

Vouched(sha) == SameAsOne(sha, judged \cup said)
HumanOnly    == ~AutoApprove /\ ~ReviewFixes

\* An approval stays on a row whose candidate nobody writes any more: its run
\* neither holds the ticket nor waits as its last.
RowVouched(r) ==
  /\ run[r].approvedAt \/ run[r].carried =>
       /\ SameAsOne(run[r].candidate, said)
       /\ Claimed(r) /\ r # ticket.active /\ ~(r = ticket.last /\ Live(r))
  /\ run[r].waits # NoSha => SameAsOne(run[r].waits, said)
  /\ run[r].approvedSha # NoSha => Vouched(run[r].approvedSha)
RowsVouched == \A r \in RunIds : RowVouched(r)

Carried == worker.at \in {"park", "mark", "parking", "dead"}
WorkKept ==
  /\ worker.reviewed # NoSha => Vouched(worker.reviewed)
  /\ worker.covers # NoSha => Vouched(worker.covers)
  /\ worker.at \in {"decide", "merging"} => worker.reviewed = local
  /\ At("meanwhile") => local \in judged
  /\ At("redo") => ~worker.approved
  /\ At("merging") /\ ~AutoApprove => worker.approved
  /\ worker.approved => SameAsOne(worker.release, said)
  /\ worker.approved /\ HumanOnly => SameAsOne(worker.reviewed, said)
  /\ worker.carries => Carried /\ SameAsOne(local, said)

HeadsKept ==
  /\ local # {} /\ pull.head # {}
  /\ pull.ours => /\ pull.state = "merged" /\ Vouched(pull.landed)
                  /\ HumanOnly => SameAsOne(pull.landed, said)

ApprovalInv == PullInv /\ RowsVouched /\ WorkKept /\ HeadsKept

\* A commit with the content of one in a set has it in a larger set too.
LEMMA SameMore ==
  ASSUME NEW sha, NEW S, NEW T, S \subseteq T, SameAsOne(sha, S)
  PROVE  SameAsOne(sha, T)
BY DEF SameAsOne

\* Two commits of one content are alike in any set.
LEMMA SameContent ==
  ASSUME NEW a, NEW b, NEW S, Content(a) = Content(b), SameAsOne(a, S)
  PROVE  SameAsOne(b, S)
BY DEF SameAsOne

\* A commit in a set has the content of one in it.
LEMMA SameSelf == ASSUME NEW S, NEW sha \in S PROVE SameAsOne(sha, S)
BY DEF SameAsOne

\* The invariant of the approvals holds before the first claim.
LEMMA ApprovalStart == Init => ApprovalInv
<1> SUFFICES ASSUME Init PROVE ApprovalInv
    OBVIOUS
<1>1. PullInv
    BY PullStart
<1>2. RowsVouched
  <2>1. \A r \in RunIds : /\ ~run[r].approvedAt /\ ~run[r].carried
                          /\ run[r].waits = NoSha /\ run[r].approvedSha = NoSha
      BY DEF Init, NewRun
  <2> QED BY <2>1 DEF RowsVouched, RowVouched
<1>3. WorkKept
  <2>1. /\ worker.at = "read" /\ worker.reviewed = Candidate /\ worker.covers = NoSha
        /\ ~worker.approved /\ ~worker.carries
      BY DEF Init, Gone
  <2>2. Vouched(Candidate)
      BY SameSelf DEF Init, Vouched
  <2> QED BY <2>1, <2>2 DEF WorkKept, At
<1>4. HeadsKept
    BY First DEF Init, HeadsKept
<1> QED BY <1>1, <1>2, <1>3, <1>4 DEF ApprovalInv

-----------------------------------------------------------------------------
(***************************************************************************)
(* The rows.                                                               *)
(***************************************************************************)
\* A step that gives no approval and writes no candidate.
NoNewApproval ==
  /\ \A r \in RunIds :
       /\ run'[r].approvedAt => run[r].approvedAt
       /\ run'[r].carried => run[r].carried
       /\ run'[r].candidate = run[r].candidate
       /\ run'[r].waits = run[r].waits
       /\ run'[r].approvedSha = run[r].approvedSha
       /\ run'[r].outcome = "none" => run[r].outcome = "none"
       /\ run'[r].outcome = "unclaimed" => run[r].outcome = "unclaimed"
  /\ ticket'.active \in {ticket.active, NoRun}
  /\ ticket'.last \in {ticket.last, ticket.active}
  /\ said \subseteq said' /\ judged \subseteq judged'

\* A step that records no new verdict keeps every row's verdict vouched for.
LEMMA KeptRows == ASSUME RowsVouched, NoNewApproval PROVE RowsVouched'
<1> SUFFICES ASSUME NEW r \in RunIds PROVE RowVouched(r)'
    BY DEF RowsVouched
<1>1. RowVouched(r)
    BY DEF RowsVouched
<1>2. \A sha : SameAsOne(sha, said) => SameAsOne(sha, said')
    BY SameMore DEF NoNewApproval
<1>3. \A sha : Vouched(sha) => SameAsOne(sha, judged' \cup said')
  <2>1. judged \cup said \subseteq judged' \cup said'
      BY DEF NoNewApproval
  <2> QED BY <2>1, SameMore DEF Vouched
<1>4. r # NoRun
    BY PullAssumption DEF RunIds, NoRun
<1> QED BY <1>1, <1>2, <1>3, <1>4 DEF RowVouched, NoNewApproval, Claimed, Live, Vouched

\* The worker's own row, while the worker has it.
LEMMA MyRow ==
  ASSUME ApprovalInv, worker.at \in AtWork \ {"mirror"}
  PROVE  /\ Me \in RunIds /\ ticket.active = Me /\ Live(Me)
         /\ ~run[Me].approvedAt /\ ~run[Me].carried
BY DEF ApprovalInv, PullInv, HoldsOn, Owned, RowsVouched, RowVouched, AtWork

\* A step that writes the worker's row, and gives no approval.
LEMMA MyRowKept ==
  ASSUME ApprovalInv, worker.at \in AtWork \ {"mirror"},
         run' = [run EXCEPT ![Me] = run'[Me]],
         run' \in [RunIds -> RunType], run \in [RunIds -> RunType],
         ~run'[Me].approvedAt, ~run'[Me].carried,
         run'[Me].waits # NoSha => SameAsOne(run'[Me].waits, said),
         run'[Me].approvedSha # NoSha => Vouched(run'[Me].approvedSha),
         ticket'.active \in {ticket.active, NoRun},
         ticket'.last \in {ticket.last, ticket.active},
         said' = said, judged' = judged
  PROVE  RowsVouched'
<1> SUFFICES ASSUME NEW r \in RunIds PROVE RowVouched(r)'
    BY DEF RowsVouched
<1>1. Me \in RunIds /\ ticket.active = Me /\ NoRun \notin RunIds
    BY MyRow, PullAssumption DEF RunIds, NoRun
<1>2. RowVouched(r)
    BY DEF ApprovalInv, RowsVouched
<1>3. CASE r = Me
    BY <1>3 DEF RowVouched, Vouched
<1>4. CASE r # Me
  <2>1. run'[r] = run[r]
      BY <1>4
  <2> QED BY <1>1, <1>2, <1>4, <2>1 DEF RowVouched, Vouched, Claimed, Live
<1> QED BY <1>3, <1>4

\* A step of the worker, or of its death, records a verdict only for a commit it
\* judged or a person approved.
LEMMA RowsWorker ==
  ASSUME ApprovalInv, TypeOK', Claim \/ Working \/ Pause \/ Crash \/ SweepDead
  PROVE  RowsVouched'
<1>0. /\ ticket \in TicketType /\ run \in [RunIds -> RunType] /\ worker \in WorkType
      /\ run' \in [RunIds -> RunType] /\ RowsVouched /\ WorkKept
    BY TypesOfParts DEF ApprovalInv, PullInv, TypeInv, TypeOK
<1> USE <1>0
\* What the step leaves of the columns an approval is about.
<1>a. ASSUME UNCHANGED <<ticket, run>>, said' = said, judged \subseteq judged' PROVE RowsVouched'
    BY <1>a, KeptRows DEF NoNewApproval
<1>b. ASSUME NEW verdict, run' = [run EXCEPT ![Me].verdict = verdict], ticket' = ticket,
             said' = said, judged \subseteq judged'
      PROVE  RowsVouched'
  <2>1. NoNewApproval
      BY <1>b DEF NoNewApproval, RunType
  <2> QED BY <2>1, KeptRows
<1>c. ASSUME NEW outcome \in Outcomes \ {"none"}, NEW status, Ends(Me, outcome, status),
             said' = said, judged' = judged,
             worker.at \in AtWork \ {"mirror"} \/ ticket.active = Me
      PROVE  RowsVouched'
  <2>1. \A r \in RunIds :
          /\ run'[r].approvedAt = run[r].approvedAt /\ run'[r].carried = run[r].carried
          /\ run'[r].candidate = run[r].candidate /\ run'[r].waits = run[r].waits
          /\ run'[r].approvedSha = run[r].approvedSha
          /\ run'[r].outcome \in {run[r].outcome, outcome}
      BY <1>c DEF Ends, EndRun, RunType
  <2>2. ticket'.active = NoRun /\ ticket'.last = Me /\ ticket.active = Me
      BY <1>c, MyRow DEF Ends, Freed, TicketType
  <2>3. outcome # "none" /\ outcome # "unclaimed"
      BY DEF Outcomes
  <2> QED BY <1>c, <2>1, <2>2, <2>3, KeptRows DEF NoNewApproval
<1>1. CASE Claim
  <2> PICK r \in RunIds : /\ ~Claimed(r)
       /\ ticket' = [ticket EXCEPT !.status = "in_flight", !.active = r]
       /\ run' = [run EXCEPT ![r] = NewRun]
      BY <1>1 DEF Claim
  <2>1. ticket'.active = r /\ ticket'.last = ticket.last /\ said' = said /\ judged' = judged
      BY <1>1 DEF Claim, TicketType
  <2> SUFFICES ASSUME NEW i \in RunIds PROVE RowVouched(i)'
      BY DEF RowsVouched
  <2>2. CASE i = r
      BY <2>2 DEF RowVouched, NewRun
  <2>3. CASE i # r
    <3>1. RowVouched(i) /\ run'[i] = run[i]
        BY <2>3 DEF RowsVouched
    <3> QED BY <2>1, <2>3, <3>1 DEF RowVouched, Vouched, Claimed, Live
  <2> QED BY <2>2, <2>3
<1>2. CASE Redo
  <2>1. run' = [run EXCEPT ![Me] = [@ EXCEPT !.url = TRUE, !.verdict = "pass"]]
        /\ ticket' = ticket /\ said' = said /\ judged \subseteq judged'
      BY <1>2 DEF Redo
  <2>2. NoNewApproval
      BY <2>1 DEF NoNewApproval, RunType
  <2> QED BY <2>2, KeptRows
<1>3. CASE Resume
  <2>1. worker.at = "resume" /\ ticket' = ticket /\ said' = said /\ judged' = judged
      BY <1>3 DEF Resume, At
  <2>2. CASE UNCHANGED run
      BY <1>a, <2>1, <2>2
  <2>3. ASSUME NEW candidate,
               run' = [run EXCEPT ![Me] = [@ EXCEPT !.url = TRUE, !.candidate = candidate]]
        PROVE  RowsVouched'
    <3>0. worker.at \in AtWork \ {"mirror"}
        BY <2>1 DEF AtWork
    <3>1. Me \in RunIds /\ ~run[Me].approvedAt /\ ~run[Me].carried
        BY <3>0, MyRow
    <3>2. /\ run'[Me].approvedAt = run[Me].approvedAt /\ run'[Me].carried = run[Me].carried
          /\ run'[Me].waits = run[Me].waits /\ run'[Me].approvedSha = run[Me].approvedSha
        BY <2>3, <3>1 DEF RunType
    <3>3. run' = [run EXCEPT ![Me] = run'[Me]]
        BY <2>3, <3>1
    <3>4. RowVouched(Me)
        BY <3>1 DEF RowsVouched
    <3> QED BY <2>1, <3>0, <3>1, <3>2, <3>3, <3>4, MyRowKept DEF RowVouched
  <2> QED BY <1>3, <2>2, <2>3 DEF Resume
<1>4. CASE Pause
  <2>0. worker.at \in AtWork \ {"mirror"}
      BY <1>4 DEF Pause, At, AtWork
  <2>1. Me \in RunIds /\ ticket.active = Me /\ ~run[Me].approvedAt /\ ~run[Me].carried
      BY <2>0, MyRow
  <2>2. run' = [run EXCEPT ![Me] = [EndRun(@, "paused") EXCEPT !.resume = TRUE,
                                                               !.candidate = local]]
      BY <1>4 DEF Pause
  <2>3. /\ run'[Me].approvedAt = run[Me].approvedAt /\ run'[Me].carried = run[Me].carried
        /\ run'[Me].waits = run[Me].waits /\ run'[Me].approvedSha = run[Me].approvedSha
      BY <2>1, <2>2 DEF RunType, EndRun
  <2>4. run' = [run EXCEPT ![Me] = run'[Me]]
      BY <2>1, <2>2
  <2>5. RowVouched(Me)
      BY <2>1 DEF RowsVouched
  <2>6. /\ ticket'.active = NoRun /\ ticket'.last = ticket.active
        /\ said' = said /\ judged' = judged
      BY <1>4, <2>1 DEF Pause, Freed, TicketType
  <2> QED BY <2>0, <2>1, <2>3, <2>4, <2>5, <2>6, MyRowKept DEF RowVouched
<1>5. CASE Park
  <2>0. worker.at \in AtWork \ {"mirror"}
      BY <1>5 DEF Park, At, AtWork
  <2>1. Me \in RunIds /\ ticket.active = Me /\ ~run[Me].approvedAt /\ ~run[Me].carried
      BY <2>0, MyRow
  <2>2. run' = [run EXCEPT ![Me] = ParkedRow]
      BY <1>5 DEF Park
  <2>3. /\ run'[Me].approvedAt = run[Me].approvedAt /\ run'[Me].carried = run[Me].carried
        /\ run'[Me].waits = IF worker.carries THEN local ELSE NoSha
        /\ run'[Me].approvedSha = IF worker.covers = NoSha THEN run[Me].approvedSha
                                  ELSE worker.covers
      BY <2>1, <2>2 DEF RunType, ParkedRow
  <2>4. run' = [run EXCEPT ![Me] = run'[Me]]
      BY <2>1, <2>2
  <2>5. RowVouched(Me)
      BY <2>1 DEF RowsVouched
  <2>6. /\ ticket'.active = NoRun /\ ticket'.last = ticket.active
        /\ said' = said /\ judged' = judged
      BY <1>5, <2>1 DEF Park, TicketType
  <2>7. /\ run'[Me].waits # NoSha => SameAsOne(run'[Me].waits, said)
        /\ run'[Me].approvedSha # NoSha => Vouched(run'[Me].approvedSha)
      BY <2>3, <2>5 DEF RowVouched, WorkKept
  <2> QED BY <2>0, <2>1, <2>3, <2>4, <2>6, <2>7, MyRowKept
<1>6. CASE Read \/ AtTheCap \/ SawMerged \/ ParkForCI \/ ParkForeign \/ ParkOnThreads
           \/ QuietAndReviewed \/ ParkMoved \/ Decide \/ MergeRefused \/ ReadMark \/ Crash
           \/ AddressThreads \/ DeclineThreads
  BY <1>6, <1>a DEF Read, AtTheCap, SawMerged, ParkForCI, ParkForeign, ParkOnThreads,
     QuietAndReviewed, ParkMoved, Decide, MergeRefused, ReadMark, Crash, AddressThreads,
     DeclineThreads
<1>7. CASE RefreshFromMain
  BY <1>7, <1>a, <1>b DEF RefreshFromMain, BringsMainIn, MainBreaksIt
<1>8. CASE ReviewApproves \/ ReviewRejects \/ ReviewFixesAgain
  BY <1>8, <1>b DEF ReviewApproves, ReviewRejects, ReviewFixesAgain
<1>9. CASE SawClosed \/ Fail
  BY <1>9, <1>c DEF SawClosed, Rejects, Fail, FailRun, At, AtWork, Outcomes
<1>10. CASE Meanwhile
  BY <1>10, <1>a, <1>c DEF Meanwhile, Rejects, At, AtWork, Outcomes
<1>11. CASE CallMerge
  BY <1>11, <1>a, <1>c DEF CallMerge, At, AtWork, Outcomes
<1>12. CASE RecordMerged
  BY <1>12, <1>c DEF RecordMerged, At, AtWork, Outcomes
<1>13. CASE MirrorMerged \/ BlockTicket
  <2>1. NoNewApproval
      BY <1>13 DEF MirrorMerged, BlockTicket, NoNewApproval, TicketType
  <2> QED BY <2>1, KeptRows
<1>14. CASE SweepDead
  BY <1>14, <1>a, <1>c DEF SweepDead, Outcomes
<1> QED
  BY <1>1, <1>2, <1>3, <1>4, <1>5, <1>6, <1>7, <1>8, <1>9, <1>10, <1>11, <1>12, <1>13, <1>14
  DEF Working

\* A release, with what it writes of the approval it gives or carries.
LEMMA RowsReleased ==
  ASSUME ApprovalInv, NEW rows \in [RunIds -> RunType], NEW approved \in BOOLEAN,
         Releases(rows, approved),
         \A r \in RunIds :
           /\ rows[r].candidate = run[r].candidate /\ rows[r].waits = run[r].waits
           /\ rows[r].approvedSha = run[r].approvedSha
           /\ rows[r].approvedAt = run[r].approvedAt /\ rows[r].outcome = run[r].outcome
           /\ rows[r].carried => \/ run[r].carried
                                 \/ Claimed(r) /\ SameAsOne(run[r].candidate, said),
         approved => SameAsOne(run[ticket.last].candidate, said'),
         said \subseteq said', judged \subseteq judged'
  PROVE  RowsVouched'
<1>0. ticket \in TicketType /\ run \in [RunIds -> RunType] /\ RowsVouched
    BY TypesOfParts DEF ApprovalInv, PullInv, TypeInv
<1>1. /\ ticket.last \in RunIds /\ Live(ticket.last) /\ ticket.active = NoRun
      /\ ticket'.active = NoRun /\ ticket'.last = ticket.last
    BY <1>0 DEF Releases, Blocked, Waits, TicketType, RunIds, NoRun
<1>2. \A r \in RunIds :
        /\ run'[r].candidate = run[r].candidate /\ run'[r].waits = run[r].waits
        /\ run'[r].approvedSha = run[r].approvedSha /\ run'[r].carried = rows[r].carried
        /\ run'[r].approvedAt = IF r = ticket.last THEN approved ELSE run[r].approvedAt
        /\ run'[r].outcome = IF r = ticket.last THEN "abandoned" ELSE run[r].outcome
  <2>1. run' = [rows EXCEPT ![ticket.last] =
                  [EndRun(rows[ticket.last], "abandoned") EXCEPT !.resume = TRUE,
                                                                 !.approvedAt = approved]]
      BY DEF Releases
  <2> QED BY <1>1, <2>1 DEF EndRun, RunType
<1> SUFFICES ASSUME NEW r \in RunIds PROVE RowVouched(r)'
    BY DEF RowsVouched
<1>3. RowVouched(r)
    BY <1>0 DEF RowsVouched
<1>4. \A sha : /\ SameAsOne(sha, said) => SameAsOne(sha, said')
               /\ Vouched(sha) => SameAsOne(sha, judged' \cup said')
  <2>1. judged \cup said \subseteq judged' \cup said'
      OBVIOUS
  <2> QED BY <2>1, SameMore DEF Vouched
<1>5. r # NoRun
    BY PullAssumption DEF RunIds, NoRun
<1>6. run'[r].outcome # "unclaimed" \/ run[r].outcome = "unclaimed"
    BY <1>1, <1>2 DEF Live
<1>7. run'[r].approvedAt \/ run'[r].carried =>
        /\ SameAsOne(run'[r].candidate, said') /\ Claimed(r)
        /\ r # ticket'.active /\ ~(r = ticket'.last /\ run'[r].outcome = "none")
  <2>1. CASE r = ticket.last
      BY <1>1, <1>2, <1>3, <1>4, <1>5, <2>1 DEF RowVouched, Claimed, Live
  <2>2. CASE r # ticket.last
      BY <1>1, <1>2, <1>3, <1>4, <1>5, <2>2 DEF RowVouched, Claimed
  <2> QED BY <2>1, <2>2
<1>8. run'[r].waits # NoSha => SameAsOne(run'[r].waits, said')
    BY <1>2, <1>3, <1>4 DEF RowVouched
<1>9. run'[r].approvedSha # NoSha => SameAsOne(run'[r].approvedSha, judged' \cup said')
    BY <1>2, <1>3, <1>4 DEF RowVouched
<1> QED BY <1>6, <1>7, <1>8, <1>9 DEF RowVouched, Vouched, Claimed, Live

\* Reconciling keeps every row's verdict vouched for and judges nothing.
LEMMA RowsReconcile ==
  ASSUME ApprovalInv, NEW s \in Sweepers, Reconcile(s)
  PROVE  RowsVouched' /\ said' = said /\ judged' = judged
<1>0. /\ ticket \in TicketType /\ run \in [RunIds -> RunType]
      /\ sweep \in [Sweepers -> SweepType] /\ RowsVouched /\ Named /\ AsksTrue
    BY TypesOfParts DEF ApprovalInv, PullInv, TypeInv
<1> USE <1>0
<1>s. said' = said /\ judged' = judged
    BY DEF Reconcile, ReadParked, ReadFailed, ReadCanceled, Asks, LandGithubMerge, NoteClosed,
       CloseCanceled, CloseFailed, Rebabysit, Settles
<1> SUFFICES RowsVouched'
    BY <1>s
<1>a. ASSUME run' = run, ticket'.active = ticket.active, ticket'.last = ticket.last
      PROVE  RowsVouched'
    BY <1>a, <1>s, KeptRows DEF NoNewApproval
<1>e. ASSUME NEW q, q = ticket.last, ticket.active = NoRun,
             NEW outcome \in Outcomes \ {"none"}, NEW status, Ends(q, outcome, status)
      PROVE  RowsVouched'
  <2>1. \A r \in RunIds :
          /\ run'[r].approvedAt = run[r].approvedAt /\ run'[r].carried = run[r].carried
          /\ run'[r].candidate = run[r].candidate /\ run'[r].waits = run[r].waits
          /\ run'[r].approvedSha = run[r].approvedSha
          /\ run'[r].outcome \in {run[r].outcome, outcome}
      BY <1>e DEF Ends, EndRun, RunType
  <2>2. ticket'.active = NoRun /\ ticket'.last = ticket.last
      BY <1>e DEF Ends, Freed, TicketType
  <2>3. outcome # "none" /\ outcome # "unclaimed"
      BY DEF Outcomes
  <2> QED BY <1>e, <1>s, <2>1, <2>2, <2>3, KeptRows DEF NoNewApproval
<1>1. CASE ReadParked(s) \/ ReadFailed(s) \/ ReadCanceled(s)
    BY <1>1, <1>a DEF ReadParked, ReadFailed, ReadCanceled, Asks
<1>2. CASE LandGithubMerge(s)
    BY <1>2, <1>a, <1>e DEF LandGithubMerge, StillParked, Blocked, Outcomes
<1>3. CASE NoteClosed(s)
    BY <1>3, <1>a, <1>e DEF NoteClosed, Rejects, StillParked, Blocked, Outcomes
<1>4. CASE CloseCanceled(s)
  <2>1. CASE Blocked /\ Ends(ticket.last, "abandoned", "abandoned")
      BY <2>1, <1>e DEF Blocked, Outcomes
  <2>2. CASE ticket' = [ticket EXCEPT !.status = "abandoned"] /\ UNCHANGED run
      BY <2>2, <1>a DEF TicketType
  <2>3. CASE UNCHANGED <<ticket, run>>
      BY <2>3, <1>a
  <2> QED BY <1>4, <2>1, <2>2, <2>3 DEF CloseCanceled
<1>5. CASE CloseFailed(s)
  <2>1. CASE ticket' = [ticket EXCEPT !.status = "merged"] /\ UNCHANGED run
      BY <2>1, <1>a DEF TicketType
  <2>2. CASE UNCHANGED <<ticket, run>>
      BY <2>2, <1>a
  <2> QED BY <1>5, <2>1, <2>2 DEF CloseFailed
<1>6. CASE Rebabysit(s)
  <2> DEFINE q    == sweep[s].run
             rows == [Marked(s) EXCEPT ![q].carried = @ \/ Carries(s)]
  <2>0. q \in RunIds /\ Claimed(q) /\ RowVouched(q)
      BY <1>6 DEF Rebabysit, Holds, AsksTrue, RowsVouched
  <2>1. /\ Marked(s) \in [RunIds -> RunType]
        /\ \A r \in RunIds : Marked(s)[r] = IF r = q THEN [run[r] EXCEPT !.seen = sweep[s].news]
                                            ELSE run[r]
    <3>1. sweep[s].news \in 0..NoMark
        BY PullAssumption DEF SweepType, NoMark
    <3>2. \A row \in RunType : [row EXCEPT !.seen = sweep[s].news] \in RunType
        BY <3>1 DEF RunType
    <3>3. Marked(s) = [run EXCEPT ![q] = [run[q] EXCEPT !.seen = sweep[s].news]]
        BY DEF Marked
    <3> HIDE DEF q
    <3> QED BY <3>2, <3>3
  <2>2. \A r \in RunIds :
          /\ Marked(s)[r].candidate = run[r].candidate /\ Marked(s)[r].waits = run[r].waits
          /\ Marked(s)[r].approvedSha = run[r].approvedSha /\ Marked(s)[r].carried = run[r].carried
          /\ Marked(s)[r].approvedAt = run[r].approvedAt /\ Marked(s)[r].outcome = run[r].outcome
    <3> HIDE DEF q
    <3> QED BY <2>1 DEF RunType
  <2> DEFINE row == Marked(s)[q]
             new == [row EXCEPT !.carried = row.carried \/ Carries(s)]
  <2>3. rows = [Marked(s) EXCEPT ![q] = new]
      OBVIOUS
  <2>4. row \in RunType
      BY <2>0, <2>1
  <2>5. /\ new \in RunType
        /\ new.candidate = row.candidate /\ new.waits = row.waits
        /\ new.approvedSha = row.approvedSha /\ new.carried = (row.carried \/ Carries(s))
        /\ new.approvedAt = row.approvedAt /\ new.outcome = row.outcome
    <3>1. (row.carried \/ Carries(s)) \in BOOLEAN
        OBVIOUS
    <3> HIDE DEF row
    <3> QED BY <2>4, <3>1 DEF RunType
  <2>6. Carries(s) => SameAsOne(run[q].candidate, said)
      BY <2>0 DEF Carries, RowVouched
  <2> HIDE DEF new
  <2>7. /\ rows \in [RunIds -> RunType]
        /\ \A r \in RunIds :
             /\ rows[r].candidate = run[r].candidate /\ rows[r].waits = run[r].waits
             /\ rows[r].approvedSha = run[r].approvedSha
             /\ rows[r].approvedAt = run[r].approvedAt /\ rows[r].outcome = run[r].outcome
             /\ rows[r].carried => \/ run[r].carried
                                   \/ Claimed(r) /\ SameAsOne(run[r].candidate, said)
    <3>1. rows \in [RunIds -> RunType]
        BY <2>1, <2>3, <2>5
    <3>2. rows[q] = new /\ \A r \in RunIds \ {q} : rows[r] = Marked(s)[r]
        BY <2>0, <2>1, <2>3
    <3>3. row.carried = run[q].carried /\ row.candidate = run[q].candidate
          /\ row.waits = run[q].waits /\ row.approvedSha = run[q].approvedSha
          /\ row.approvedAt = run[q].approvedAt /\ row.outcome = run[q].outcome
        BY <2>0, <2>2
    <3>4. \A r \in RunIds \ {q} :
            /\ rows[r].candidate = run[r].candidate /\ rows[r].waits = run[r].waits
            /\ rows[r].approvedSha = run[r].approvedSha /\ rows[r].carried = run[r].carried
            /\ rows[r].approvedAt = run[r].approvedAt /\ rows[r].outcome = run[r].outcome
      <4> HIDE DEF rows
      <4> QED BY <2>2, <3>2
    <3>5. /\ rows[q].candidate = run[q].candidate /\ rows[q].waits = run[q].waits
          /\ rows[q].approvedSha = run[q].approvedSha
          /\ rows[q].approvedAt = run[q].approvedAt /\ rows[q].outcome = run[q].outcome
          /\ rows[q].carried => run[q].carried \/ SameAsOne(run[q].candidate, said)
      <4> HIDE DEF rows, row
      <4> QED BY <2>5, <2>6, <3>2, <3>3
    <3> HIDE DEF rows, row, q
    <3> QED BY <2>0, <3>1, <3>4, <3>5
  <2> HIDE DEF rows
  <2>8. CASE Releases(rows, FALSE)
      BY <1>s, <2>7, <2>8, RowsReleased
  <2>9. CASE UNCHANGED <<ticket, run>>
      BY <1>a, <2>9
  <2>10. CASE run' = Marked(s) /\ ticket' = ticket
    <3>1. NoNewApproval
        BY <1>s, <2>2, <2>10 DEF NoNewApproval
    <3> QED BY <3>1, KeptRows
  <2> QED BY <1>6, <2>8, <2>9, <2>10 DEF Rebabysit, rows
<1> QED BY <1>s, <1>1, <1>2, <1>3, <1>4, <1>5, <1>6 DEF Reconcile

\* What a person or GitHub does keeps every row's verdict vouched for and moves
\* neither the worker nor its branch.
LEMMA RowsOutside ==
  ASSUME ApprovalInv, Outside
  PROVE  /\ RowsVouched' /\ said \subseteq said' /\ judged' = judged
         /\ worker' = worker /\ local' = local
<1>0. ticket \in TicketType /\ run \in [RunIds -> RunType] /\ RowsVouched
    BY TypesOfParts DEF ApprovalInv, PullInv, TypeInv
<1> USE <1>0
<1>s. said \subseteq said' /\ judged' = judged /\ worker' = worker /\ local' = local
    BY DEF Outside, Approve, Babysit, Repoint, Requeue, ResumePaused, CancelOnBoard, Stays,
       SomeoneComments, SomeonePushes, SomeoneMerges, SomeoneCloses, OnGitHub
<1> SUFFICES RowsVouched'
    BY <1>s
<1>a. ASSUME run' = run, ticket'.active = ticket.active, ticket'.last = ticket.last
      PROVE  RowsVouched'
    BY <1>a, <1>s, KeptRows DEF NoNewApproval
<1>1. CASE Approve
  <2>1. run[ticket.last].candidate \in said'
      BY <1>1 DEF Approve
  <2>2. SameAsOne(run[ticket.last].candidate, said')
      BY <2>1, SameSelf
  <2> QED BY <1>1, <1>s, <2>2, RowsReleased DEF Approve
<1>2. CASE Babysit
    BY <1>2, <1>s, RowsReleased DEF Babysit
<1>3. CASE Repoint
  <2>1. /\ ticket.last \in RunIds /\ Live(ticket.last) /\ ticket' = ticket
        /\ run' = [run EXCEPT ![ticket.last].candidate = pull.head] /\ said' = said
      BY <1>3 DEF Repoint, Waits, TicketType, RunIds, NoRun
  <2> SUFFICES ASSUME NEW r \in RunIds PROVE RowVouched(r)'
      BY DEF RowsVouched
  <2>2. RowVouched(r)
      BY DEF RowsVouched
  <2>3. CASE r = ticket.last
    <3>1. /\ run'[r].approvedAt = run[r].approvedAt /\ run'[r].carried = run[r].carried
          /\ run'[r].waits = run[r].waits /\ run'[r].approvedSha = run[r].approvedSha
        BY <2>1, <2>3 DEF RunType
    <3> QED BY <1>s, <2>1, <2>2, <2>3, <3>1 DEF RowVouched, Vouched
  <2>4. CASE r # ticket.last
    <3>1. run'[r] = run[r]
        BY <2>1, <2>4
    <3> QED BY <1>s, <2>1, <2>2, <3>1 DEF RowVouched, Vouched, Claimed, Live
  <2> QED BY <2>3, <2>4
<1>4. CASE Requeue
  <2>1. /\ run' = [run EXCEPT ![ticket.last].approvedAt = FALSE]
        /\ ticket' = [ticket EXCEPT !.status = "ready"]
      BY <1>4 DEF Requeue
  <2>2. NoNewApproval
      BY <1>s, <2>1 DEF NoNewApproval, RunType, TicketType
  <2> QED BY <2>2, KeptRows
<1>5. CASE ResumePaused
    BY <1>5, <1>a DEF ResumePaused, TicketType
<1>6. CASE CancelOnBoard
    BY <1>6, <1>a DEF CancelOnBoard, TicketType
<1>7. CASE SomeoneComments \/ SomeonePushes \/ SomeoneMerges \/ SomeoneCloses
    BY <1>7, <1>a DEF SomeoneComments, SomeonePushes, SomeoneMerges, SomeoneCloses, OnGitHub
<1> QED BY <1>s, <1>1, <1>2, <1>3, <1>4, <1>5, <1>6, <1>7 DEF Outside

-----------------------------------------------------------------------------
(***************************************************************************)
(* What the worker carries.                                                *)
(***************************************************************************)
Grows == said \subseteq said' /\ judged \subseteq judged'

\* What was vouched for stays so while approvals and verdicts are only added.
LEMMA VouchedMore ==
  ASSUME Grows
  PROVE  \A sha : /\ SameAsOne(sha, said) => SameAsOne(sha, said')
                  /\ Vouched(sha) => Vouched(sha)'
<1>1. judged \cup said \subseteq judged' \cup said'
    BY DEF Grows
<1> QED BY <1>1, SameMore DEF Vouched, Grows, SameAsOne

\* A worker that is gone carries nothing to vouch for.
LEMMA GoneKeeps == worker' = Gone => WorkKept'
BY DEF Gone, WorkKept, At, NoSha

\* The worker goes on with the same shas in hand.
LEMMA WorkGoesOn ==
  ASSUME WorkKept, Grows,
         worker'.reviewed = worker.reviewed, worker'.covers = worker.covers,
         worker'.approved = worker.approved, worker'.release = worker.release,
         worker'.carries = worker.carries,
         worker.carries => local' = local /\ worker'.at \in {"park", "mark", "parking", "dead"},
         worker'.at \in {"decide", "merging"} => worker.reviewed = local',
         worker'.at = "meanwhile" => local' \in judged',
         worker'.at # "redo",
         worker'.at = "merging" /\ ~AutoApprove => worker.approved
  PROVE  WorkKept'
<1>1. \A sha : /\ SameAsOne(sha, said) => SameAsOne(sha, said')
               /\ Vouched(sha) => Vouched(sha)'
    BY VouchedMore
<1>2. worker'.reviewed # NoSha => Vouched(worker.reviewed)'
    BY <1>1 DEF WorkKept
<1>3. worker'.covers # NoSha => Vouched(worker.covers)'
    BY <1>1 DEF WorkKept
<1>4. worker'.approved => SameAsOne(worker'.release, said')
    BY <1>1 DEF WorkKept
<1>5. worker'.approved /\ HumanOnly => SameAsOne(worker'.reviewed, said')
    BY <1>1 DEF WorkKept
<1>6. worker'.carries => Carried' /\ SameAsOne(local', said')
    BY <1>1 DEF WorkKept, Carried
<1> QED BY <1>2, <1>3, <1>4, <1>5, <1>6 DEF WorkKept, At, HumanOnly, Vouched

\* It begins to park.
LEMMA WorkParks ==
  ASSUME WorkKept, Grows, worker \in WorkType,
         NEW covers, NEW carries, NEW ci, ToPark(covers, carries, ci),
         covers # NoSha => Vouched(covers),
         carries => local' = local /\ SameAsOne(local, said)
  PROVE  WorkKept'
<1>1. \A sha : /\ SameAsOne(sha, said) => SameAsOne(sha, said')
               /\ Vouched(sha) => Vouched(sha)'
    BY VouchedMore
<1>2. /\ worker'.reviewed = worker.reviewed /\ worker'.approved = worker.approved
      /\ worker'.release = worker.release /\ worker'.covers = covers
      /\ worker'.carries = carries /\ worker'.at = "park"
    BY DEF ToPark, WorkType
<1>3. worker'.reviewed # NoSha => Vouched(worker.reviewed)'
    BY <1>1, <1>2 DEF WorkKept
<1>4. worker'.covers # NoSha => Vouched(worker.covers)'
    BY <1>1, <1>2 DEF Vouched
<1>5. worker'.approved => SameAsOne(worker'.release, said')
    BY <1>1, <1>2 DEF WorkKept
<1>6. worker'.approved /\ HumanOnly => SameAsOne(worker'.reviewed, said')
    BY <1>1, <1>2 DEF WorkKept
<1>7. worker'.carries => Carried' /\ SameAsOne(local', said')
    BY <1>1, <1>2 DEF Carried
<1> QED BY <1>2, <1>3, <1>4, <1>5, <1>6, <1>7 DEF WorkKept, At, HumanOnly, Vouched

\* A step of the worker, or of its death, keeps what the worker carries vouched
\* for.
LEMMA WorkWorker ==
  ASSUME ApprovalInv, Claim \/ Working \/ Pause \/ Crash \/ SweepDead
  PROVE  WorkKept' /\ Grows
<1>0. /\ worker \in WorkType /\ run \in [RunIds -> RunType] /\ WorkKept /\ RowsVouched
      /\ Begun /\ local # {} /\ pull.head # {}
    BY TypesOfParts DEF ApprovalInv, PullInv, TypeInv, HeadsKept
<1> USE <1>0
<1>g. Grows
    BY DEF Grows, Claim, Working, Pause, Crash, SweepDead, Redo, Resume, Read, AtTheCap,
       SawMerged, SawClosed, ParkForCI, ParkForeign, RefreshFromMain, BringsMainIn, MainBreaksIt,
       AddressThreads, DeclineThreads, ParkOnThreads, QuietAndReviewed, ParkMoved,
       ReviewApproves, ReviewRejects, ReviewFixesAgain, Meanwhile, Decide, CallMerge,
       MergeRefused, RecordMerged, MirrorMerged, BlockTicket, ReadMark, Park, Fail, FailRun
<1> SUFFICES WorkKept'
    BY <1>g
<1>c. worker.at \notin {"park", "mark", "parking", "dead"} => ~worker.carries
    BY DEF WorkKept, Carried
<1>m. \A sha : /\ SameAsOne(sha, said) => SameAsOne(sha, said')
               /\ Vouched(sha) => Vouched(sha)'
    BY <1>g, VouchedMore
\* Steps of a worker that is not parking.
<1>s. ASSUME NEW step, Goes(step), worker.at \notin {"park", "mark", "parking", "dead"},
             step \in {"decide", "merging"} => worker.reviewed = local',
             step = "meanwhile" => local' \in judged', step # "redo",
             step = "merging" /\ ~AutoApprove => worker.approved
      PROVE  WorkKept'
  <2>1. /\ worker'.reviewed = worker.reviewed /\ worker'.covers = worker.covers
        /\ worker'.approved = worker.approved /\ worker'.release = worker.release
        /\ worker'.carries = worker.carries /\ worker'.at = step
      BY <1>s DEF Goes, WorkType
  <2> QED BY <1>c, <1>g, <1>s, <2>1, WorkGoesOn
<1>p. ASSUME NEW covers \in {worker.reviewed, NoSha}, NEW ci, ToPark(covers, FALSE, ci)
      PROVE  WorkKept'
    BY <1>g, <1>p, WorkParks DEF WorkKept
<1>1. CASE Claim
  <2>1. PICK r : worker' = [Gone EXCEPT !.run = r,
                       !.at = IF run[r - 1].resume THEN "resume" ELSE "redo"]
      BY <1>1 DEF Claim
  <2>2. /\ worker'.at \in {"resume", "redo"} /\ worker'.reviewed = NoSha
        /\ worker'.covers = NoSha /\ ~worker'.approved /\ ~worker'.carries
      BY <2>1 DEF Gone
  <2> QED BY <2>2 DEF WorkKept, At
<1>2. CASE Redo
  <2>1. /\ At("redo") /\ judged' = judged \cup {local'}
        /\ worker' = [worker EXCEPT !.at = "read", !.reviewed = local']
      BY <1>2 DEF Redo
  <2>2. ~worker.approved /\ ~worker.carries
      BY <1>c, <2>1 DEF WorkKept, At
  <2>3. /\ worker'.at = "read" /\ worker'.reviewed = local' /\ worker'.covers = worker.covers
        /\ ~worker'.approved /\ ~worker'.carries
      BY <2>1, <2>2 DEF WorkType
  <2>4. Vouched(local)'
      BY <2>1, SameSelf DEF Vouched
  <2>5. worker'.reviewed # NoSha => Vouched(worker.reviewed)'
      BY <2>3, <2>4
  <2>6. worker'.covers # NoSha => Vouched(worker.covers)'
      BY <1>m, <2>3 DEF WorkKept
  <2> QED BY <2>3, <2>5, <2>6 DEF WorkKept, At
<1>3. CASE Resume
  <2> DEFINE was      == run[Me - 1]
             approved == was.approvedAt \/ was.carried
             reviewed == IF approved THEN was.candidate ELSE LastApproved
  <2>1. At("resume") /\ said' = said /\ judged' = judged
      BY <1>3 DEF Resume
  <2>2. /\ worker'.reviewed = reviewed /\ worker'.approved = approved
        /\ worker'.release = IF approved THEN reviewed ELSE NoSha
        /\ worker'.carries = worker.carries /\ worker'.at \in {"read", "park"}
        /\ worker'.covers \in {worker.covers, reviewed}
      BY <1>3 DEF Resume, WorkType
  <2>3. Me - 1 \in RunIds
      BY <2>1, PullAssumption DEF Begun, At, RunIds
  <2>4. approved => SameAsOne(reviewed, said)
      BY <2>3 DEF RowsVouched, RowVouched
  <2>5. reviewed # NoSha => Vouched(reviewed)
    <3>1. CASE approved
      <4>1. said \subseteq judged \cup said
          OBVIOUS
      <4> QED BY <2>4, <3>1, <4>1, SameMore DEF Vouched
    <3>2. CASE ~approved
      <4>1. LastVerdict \in RunIds
          BY LastVerdictIs DEF ApprovalInv, PullInv
      <4>2. RowVouched(LastVerdict)
          BY <4>1 DEF RowsVouched
      <4>3. LastApproved # NoSha => Vouched(LastApproved)
          BY <4>2 DEF LastApproved, RowVouched
      <4> QED BY <3>2, <4>3
    <3> QED BY <3>1, <3>2
  <2>6. ~worker'.carries
      BY <1>c, <2>1, <2>2 DEF At
  <2> HIDE DEF approved, reviewed
  <2>7. worker'.reviewed # NoSha => Vouched(worker.reviewed)'
      BY <1>m, <2>2, <2>5 DEF Vouched
  <2>8. worker'.covers # NoSha => Vouched(worker.covers)'
      BY <1>m, <2>2, <2>5 DEF WorkKept, Vouched
  <2>9. worker'.approved => /\ SameAsOne(worker'.release, said')
                            /\ SameAsOne(worker'.reviewed, said')
      BY <1>m, <2>2, <2>4
  <2> QED BY <2>2, <2>6, <2>7, <2>8, <2>9 DEF WorkKept, At
<1>4. CASE Pause \/ SawClosed \/ Fail \/ SweepDead \/ MirrorMerged \/ Park
    BY <1>4, GoneKeeps DEF Pause, SawClosed, Fail, FailRun, SweepDead, MirrorMerged, Park
<1>5. CASE Crash
  <2>1. /\ worker'.reviewed = worker.reviewed /\ worker'.covers = worker.covers
        /\ worker'.approved = worker.approved /\ worker'.release = worker.release
        /\ worker'.carries = worker.carries /\ worker'.at = "dead" /\ local' = local
      BY <1>5 DEF Crash, WorkType
  <2> QED BY <1>g, <2>1, WorkGoesOn
<1>6. CASE Read
  <2>1. /\ worker'.reviewed = worker.reviewed /\ worker'.covers = worker.covers
        /\ worker'.approved = worker.approved /\ worker'.release = worker.release
        /\ worker'.carries = worker.carries /\ worker'.at = "judge" /\ At("read")
      BY <1>6 DEF Read, WorkType
  <2> QED BY <1>c, <1>g, <2>1, WorkGoesOn DEF At
<1>7. CASE BlockTicket \/ ReadMark
  <2>1. /\ worker'.reviewed = worker.reviewed /\ worker'.covers = worker.covers
        /\ worker'.approved = worker.approved /\ worker'.release = worker.release
        /\ worker'.carries = worker.carries /\ worker'.at \in {"mark", "parking"}
        /\ local' = local
      BY <1>7 DEF BlockTicket, ReadMark, WorkType
  <2> QED BY <1>g, <2>1, WorkGoesOn
<1>8. CASE AtTheCap \/ ParkForeign \/ ParkOnThreads \/ ParkMoved \/ MergeRefused \/ ReviewRejects
    BY <1>8, <1>p DEF AtTheCap, ParkForeign, ParkOnThreads, ParkMoved, MergeRefused, ReviewRejects
<1>9. CASE ParkForCI
  <2>1. ToPark(worker.reviewed, worker.approved /\ worker.release = local, TRUE) /\ local' = local
      BY <1>9 DEF ParkForCI
  <2>2. worker.approved /\ worker.release = local => SameAsOne(local, said)
      BY DEF WorkKept
  <2>3. worker.reviewed # NoSha => Vouched(worker.reviewed)
      BY DEF WorkKept
  <2> QED BY <1>g, <2>1, <2>2, <2>3, WorkParks
<1>10. CASE SawMerged \/ AddressThreads \/ DeclineThreads \/ RecordMerged
  <2>1. /\ worker.at \notin {"park", "mark", "parking", "dead"}
        /\ \E step \in {"landed", "read", "mirror"} : Goes(step)
      BY <1>10 DEF SawMerged, AddressThreads, DeclineThreads, RecordMerged, Threads, Proceeds, At
  <2> QED BY <1>s, <2>1
<1>11. CASE RefreshFromMain
  <2>0. worker.at \in {"judge", "merging"}
      BY <1>11 DEF RefreshFromMain, Proceeds, At
  <2>1. CASE ToPark(worker.reviewed, FALSE, FALSE)
      BY <1>p, <2>1
  <2>2. ASSUME NEW sha, BringsMainIn(sha) PROVE WorkKept'
    <3>1. /\ worker' = [worker EXCEPT !.at = "read", !.saw = Blank,
                !.reviewed = IF @ = local /\ Content(sha) = Content(local) THEN sha ELSE @]
          /\ said' = said /\ judged' = judged
        BY <2>2 DEF BringsMainIn
    <3>2. /\ worker'.at = "read" /\ worker'.covers = worker.covers
          /\ worker'.approved = worker.approved /\ worker'.release = worker.release
          /\ ~worker'.carries
          /\ \/ worker'.reviewed = worker.reviewed
             \/ /\ worker'.reviewed = sha /\ worker.reviewed = local
                /\ Content(sha) = Content(local)
        BY <1>c, <2>0, <3>1 DEF WorkType
    <3>3. worker'.reviewed # NoSha => Vouched(worker.reviewed)'
      <4>1. CASE worker'.reviewed = worker.reviewed
          BY <1>m, <4>1 DEF WorkKept
      <4>2. CASE worker'.reviewed = sha /\ worker.reviewed = local /\ Content(sha) = Content(local)
        <5>1. Vouched(local)
            BY <4>2 DEF WorkKept, NoSha
        <5>2. Vouched(sha)
            BY <4>2, <5>1, SameContent DEF Vouched
        <5> QED BY <3>1, <4>2, <5>2 DEF Vouched
      <4> QED BY <3>2, <4>1, <4>2
    <3>4. worker'.approved /\ HumanOnly => SameAsOne(worker'.reviewed, said')
      <4>1. SUFFICES ASSUME worker'.approved, HumanOnly PROVE SameAsOne(worker'.reviewed, said')
          OBVIOUS
      <4>2. SameAsOne(worker.reviewed, said)
          BY <3>2, <4>1 DEF WorkKept
      <4> QED BY <3>1, <3>2, <4>2, SameContent
    <3>5. worker'.covers # NoSha => Vouched(worker.covers)'
        BY <1>m, <3>2 DEF WorkKept
    <3>6. worker'.approved => SameAsOne(worker'.release, said')
        BY <1>m, <3>2 DEF WorkKept
    <3> QED BY <3>2, <3>3, <3>4, <3>5, <3>6 DEF WorkKept, At, HumanOnly
  <2>3. ASSUME NEW sha, MainBreaksIt(sha) PROVE WorkKept'
    <3>1. CASE ToPark(NoSha, FALSE, FALSE)
        BY <1>p, <3>1
    <3>2. CASE Goes("read")
        BY <1>s, <2>0, <3>2
    <3> QED BY <2>3, <3>1, <3>2 DEF MainBreaksIt
  <2> QED BY <1>11, <2>1, <2>2, <2>3 DEF RefreshFromMain
<1>12. CASE QuietAndReviewed
    BY <1>12, <1>s DEF QuietAndReviewed, Quiet, Proceeds, At
<1>13. CASE ReviewApproves
  <2>1. Goes("meanwhile") /\ local' \in judged' /\ worker.at = "judge"
      BY <1>13 DEF ReviewApproves, Moved, Quiet, Proceeds, At
  <2> QED BY <1>s, <2>1
<1>14. CASE ReviewFixesAgain
  <2>0. worker.at = "judge" /\ ~HumanOnly
      BY <1>14 DEF ReviewFixesAgain, Moved, Quiet, Proceeds, At, FixesReviewed, HumanOnly
  <2>1. CASE ToPark(NoSha, FALSE, FALSE)
      BY <1>p, <2>1
  <2>2. CASE /\ judged' = judged \cup {local'}
             /\ worker' = [worker EXCEPT !.at = "read", !.saw = Blank,
                             !.reviewed = local', !.fixed = TRUE]
    <3>1. /\ worker'.at = "read" /\ worker'.reviewed = local' /\ worker'.covers = worker.covers
          /\ worker'.approved = worker.approved /\ worker'.release = worker.release
          /\ ~worker'.carries
        BY <1>c, <2>0, <2>2 DEF WorkType
    <3>2. Vouched(local)'
        BY <2>2, SameSelf DEF Vouched
    <3>3. worker'.reviewed # NoSha => Vouched(worker.reviewed)'
        BY <3>1, <3>2
    <3>4. worker'.covers # NoSha => Vouched(worker.covers)'
        BY <1>m, <3>1 DEF WorkKept
    <3>5. worker'.approved => SameAsOne(worker'.release, said')
        BY <1>m, <3>1 DEF WorkKept
    <3> QED BY <2>0, <3>1, <3>3, <3>4, <3>5 DEF WorkKept, At, HumanOnly
  <2> QED BY <1>14, <2>1, <2>2 DEF ReviewFixesAgain
<1>15. CASE Meanwhile
  <2>0. At("meanwhile") /\ local' = local /\ said' = said /\ judged' = judged
      BY <1>15 DEF Meanwhile
  <2>1. CASE Goes("landed")
      BY <1>s, <2>0, <2>1 DEF At
  <2>2. CASE worker' = Gone
      BY <2>2, GoneKeeps
  <2>3. CASE ToPark(worker.reviewed, FALSE, FALSE)
      BY <1>p, <2>3
  <2>4. CASE worker' = [worker EXCEPT !.at = "decide", !.reviewed = local, !.approved = FALSE]
    <3>1. /\ worker'.at = "decide" /\ worker'.reviewed = local' /\ worker'.covers = worker.covers
          /\ ~worker'.approved /\ ~worker'.carries
        BY <1>c, <2>0, <2>4 DEF WorkType, At
    <3>2. local' \in judged'
        BY <2>0 DEF WorkKept
    <3>3. Vouched(local)'
        BY <3>2, SameSelf DEF Vouched
    <3>4. worker'.reviewed # NoSha => Vouched(worker.reviewed)'
        BY <3>1, <3>3
    <3>5. worker'.covers # NoSha => Vouched(worker.covers)'
        BY <1>m, <3>1 DEF WorkKept
    <3> QED BY <3>1, <3>4, <3>5 DEF WorkKept, At
  <2> QED BY <1>15, <2>1, <2>2, <2>3, <2>4 DEF Meanwhile
<1>16. CASE Decide
  <2>0. At("decide") /\ worker.reviewed = local /\ local' = local
      BY <1>16 DEF Decide, WorkKept, At
  <2>1. CASE Goes("merging") /\ (AutoApprove \/ worker.approved)
      BY <1>s, <2>0, <2>1 DEF At
  <2>2. CASE ToPark(worker.reviewed, FALSE, FALSE)
      BY <1>p, <2>2
  <2> QED BY <1>16, <2>1, <2>2 DEF Decide
<1>17. CASE CallMerge
  <2>1. CASE Goes("landed")
      BY <1>17, <1>s, <2>1 DEF CallMerge, At
  <2>2. CASE worker' = Gone
      BY <2>2, GoneKeeps
  <2> QED BY <1>17, <2>1, <2>2 DEF CallMerge
<1> QED
  BY <1>1, <1>2, <1>3, <1>4, <1>5, <1>6, <1>7, <1>8, <1>9, <1>10, <1>11, <1>12, <1>13, <1>14,
     <1>15, <1>16, <1>17 DEF Working

-----------------------------------------------------------------------------
(***************************************************************************)
(* The heads, and what was merged.                                         *)
(***************************************************************************)
LEMMA HeadsStay ==
  ASSUME HeadsKept, Grows, local' # {}, pull'.head # {},
         pull'.ours = pull.ours,
         pull.ours => pull'.landed = pull.landed /\ pull'.state = pull.state
  PROVE  HeadsKept'
<1>1. \A sha : /\ SameAsOne(sha, said) => SameAsOne(sha, said')
               /\ Vouched(sha) => Vouched(sha)'
    BY VouchedMore
<1>2. pull'.ours => pull'.state = "merged" /\ Vouched(pull.landed)'
    BY <1>1 DEF HeadsKept, Vouched
<1>3. pull'.ours /\ HumanOnly => SameAsOne(pull'.landed, said')
    BY <1>1 DEF HeadsKept
<1> QED BY <1>2, <1>3 DEF HeadsKept, HumanOnly

\* A step of the worker, or of its death, leaves on the pull request only heads
\* that are vouched for.
LEMMA HeadsWorker ==
  ASSUME ApprovalInv, Grows, Claim \/ Working \/ Pause \/ Crash \/ SweepDead
  PROVE  HeadsKept'
<1>0. /\ pull \in PullType /\ HeadsKept /\ local # {} /\ pull.head # {} /\ WorkKept
    BY TypesOfParts DEF ApprovalInv, PullInv, TypeInv, HeadsKept
<1> USE <1>0
<1>a. ASSUME pull' = pull, local' # {} PROVE HeadsKept'
    BY <1>a, HeadsStay
<1>p. ASSUME NEW sha, Pushes(sha) PROVE HeadsKept'
  <2>1. /\ local' = sha /\ pull.head \subseteq sha /\ pull' = [pull EXCEPT !.head = sha]
      BY <1>p DEF Pushes
  <2>2. sha # {}
      BY <2>1
  <2>3. pull'.head = sha /\ pull'.ours = pull.ours /\ pull'.landed = pull.landed /\ pull'.state = pull.state
      BY <2>1 DEF PullType
  <2> QED BY <2>1, <2>2, <2>3, HeadsStay
<1>1. CASE Redo
  <2>1. /\ pull'.head = local' /\ ~pull'.ours /\ \E sha : local' = sha \cup {NewCommit}
      BY <1>1 DEF Redo
  <2> QED BY <2>1 DEF HeadsKept
<1>2. CASE Resume
  <2>1. pull' = pull /\ (local' = local \/ local' = pull.head)
      BY <1>2 DEF Resume, Synced
  <2> QED BY <1>a, <2>1
<1>3. CASE RefreshFromMain \/ ReviewFixesAgain
    BY <1>3, <1>a, <1>p DEF RefreshFromMain, BringsMainIn, MainBreaksIt, ReviewFixesAgain
<1>4. CASE AddressThreads
  <2>1. /\ local' = local \cup {NewCommit}
        /\ pull' = [pull EXCEPT !.head = local', !.open = @ \ worker.saw.open]
      BY <1>4 DEF AddressThreads
  <2>2. pull'.head = local' /\ pull'.ours = pull.ours /\ pull'.landed = pull.landed /\ pull'.state = pull.state
      BY <2>1 DEF PullType
  <2> QED BY <2>1, <2>2, HeadsStay
<1>5. CASE DeclineThreads
  <2>1. local' = local /\ pull' = [pull EXCEPT !.open = @ \ worker.saw.open]
      BY <1>5 DEF DeclineThreads
  <2>2. pull'.head = pull.head /\ pull'.ours = pull.ours /\ pull'.landed = pull.landed /\ pull'.state = pull.state
      BY <2>1 DEF PullType
  <2> QED BY <2>1, <2>2, HeadsStay
\* The factory's own merge: of what the run holds and was approved as it stands.
<1>6. CASE CallMerge
  <2>1. /\ At("merging") /\ said' = said /\ judged' = judged /\ local' = local
        /\ pull' = [pull EXCEPT !.state = "merged", !.landed = local, !.ours = TRUE]
        /\ pull.head = local
      BY <1>6 DEF CallMerge, Mergeable
  <2>2. pull'.state = "merged" /\ pull'.landed = local /\ pull'.head = local
      BY <2>1 DEF PullType
  <2>3. worker.reviewed = local /\ worker.reviewed # NoSha
      BY <2>1 DEF WorkKept, At, NoSha
  <2>4. Vouched(local)
      BY <2>3 DEF WorkKept
  <2>5. HumanOnly => SameAsOne(local, said)
      BY <2>1, <2>3 DEF WorkKept, HumanOnly, At
  <2> QED BY <2>1, <2>2, <2>4, <2>5 DEF HeadsKept, Vouched, HumanOnly
<1>7. CASE Claim \/ Pause \/ Crash \/ SweepDead \/ Read \/ AtTheCap \/ SawMerged \/ SawClosed
           \/ ParkForCI \/ ParkForeign \/ ParkOnThreads \/ QuietAndReviewed \/ ParkMoved
           \/ ReviewApproves \/ ReviewRejects \/ Meanwhile \/ Decide \/ MergeRefused
           \/ RecordMerged \/ MirrorMerged \/ BlockTicket \/ ReadMark \/ Park \/ Fail
  BY <1>7, <1>a DEF Claim, Pause, Crash, SweepDead, Read, AtTheCap, SawMerged, SawClosed,
     ParkForCI, ParkForeign, ParkOnThreads, QuietAndReviewed, ParkMoved, ReviewApproves,
     ReviewRejects, Meanwhile, Decide, MergeRefused, RecordMerged, MirrorMerged, BlockTicket,
     ReadMark, Park, Fail, FailRun
<1> QED
  BY <1>1, <1>2, <1>3, <1>4, <1>5, <1>6, <1>7 DEF Working

\* What a person or GitHub does leaves on the pull request only heads that are
\* vouched for.
LEMMA HeadsOutside ==
  ASSUME ApprovalInv, Grows, Outside
  PROVE  HeadsKept'
<1>0. pull \in PullType /\ HeadsKept /\ local # {} /\ pull.head # {}
    BY TypesOfParts DEF ApprovalInv, PullInv, TypeInv, HeadsKept
<1> USE <1>0
<1>1. CASE Approve \/ Babysit \/ Repoint \/ Requeue \/ ResumePaused \/ CancelOnBoard
    BY <1>1, HeadsStay DEF Approve, Babysit, Repoint, Requeue, ResumePaused, CancelOnBoard, Stays
<1>2. CASE SomeoneComments
  <2>1. /\ local' = local
        /\ pull' = [pull EXCEPT !.news = @ + 1, !.open = @ \cup {pull.news + 1}]
      BY <1>2 DEF SomeoneComments, OnGitHub
  <2>2. pull'.head = pull.head /\ pull'.ours = pull.ours /\ pull'.landed = pull.landed /\ pull'.state = pull.state
      BY <2>1 DEF PullType
  <2> QED BY <2>1, <2>2, HeadsStay
<1>3. CASE SomeonePushes
  <2>1. /\ local' = local
        /\ pull' = [pull EXCEPT !.news = @ + 1, !.head = @ \cup {NewCommit}]
      BY <1>3 DEF SomeonePushes, OnGitHub
  <2>2. /\ pull'.head = pull.head \cup {NewCommit} /\ pull'.ours = pull.ours
        /\ pull'.landed = pull.landed /\ pull'.state = pull.state
      BY <2>1 DEF PullType
  <2> QED BY <2>1, <2>2, HeadsStay
<1>4. CASE SomeoneMerges
  <2>1. /\ local' = local /\ pull.state = "open"
        /\ pull' = [pull EXCEPT !.state = "merged", !.landed = pull.head]
      BY <1>4 DEF SomeoneMerges, OnGitHub
  <2>2. pull'.head = pull.head /\ pull'.ours = pull.ours /\ ~pull.ours
      BY <2>1 DEF PullType, HeadsKept
  <2> QED BY <2>1, <2>2, HeadsStay
<1>5. CASE SomeoneCloses
  <2>1. /\ local' = local /\ pull.state = "open" /\ pull' = [pull EXCEPT !.state = "closed"]
      BY <1>5 DEF SomeoneCloses, OnGitHub
  <2>2. pull'.head = pull.head /\ pull'.ours = pull.ours /\ ~pull.ours
      BY <2>1 DEF PullType, HeadsKept
  <2> QED BY <2>1, <2>2, HeadsStay
<1> QED BY <1>1, <1>2, <1>3, <1>4, <1>5 DEF Outside

-----------------------------------------------------------------------------
\* A step that moves neither the worker nor its branch keeps what the worker
\* carries vouched for.
LEMMA WorkStands ==
  ASSUME WorkKept, Grows, worker' = worker, local' = local
  PROVE  WorkKept'
<1>1. \A sha : /\ SameAsOne(sha, said) => SameAsOne(sha, said')
               /\ Vouched(sha) => Vouched(sha)'
    BY VouchedMore
<1>2. worker'.reviewed # NoSha => Vouched(worker.reviewed)'
    BY <1>1 DEF WorkKept, Vouched
<1>3. worker'.covers # NoSha => Vouched(worker.covers)'
    BY <1>1 DEF WorkKept, Vouched
<1>4. worker'.approved => SameAsOne(worker'.release, said')
    BY <1>1 DEF WorkKept
<1>5. worker'.approved /\ HumanOnly => SameAsOne(worker'.reviewed, said')
    BY <1>1 DEF WorkKept
<1>6. worker'.carries => Carried' /\ SameAsOne(local', said')
    BY <1>1 DEF WorkKept, Carried
<1>7. At("meanwhile")' => local' \in judged'
    BY DEF WorkKept, At, Grows
<1> QED BY <1>2, <1>3, <1>4, <1>5, <1>6, <1>7 DEF WorkKept, At, HumanOnly

\* Every step keeps the invariant of the approvals.
LEMMA ApprovalStep == ApprovalInv /\ [Next]_vars => ApprovalInv'
<1> SUFFICES ASSUME ApprovalInv, [Next]_vars PROVE ApprovalInv'
    OBVIOUS
<1>1. PullInv' /\ TypeOK'
    BY PullStep DEF ApprovalInv, PullInv, TypeInv
<1>2. CASE Claim \/ Working \/ Pause \/ Crash \/ SweepDead
    BY <1>1, <1>2, RowsWorker, WorkWorker, HeadsWorker DEF ApprovalInv
<1>3. CASE Outside
  <2>1. RowsVouched' /\ Grows /\ worker' = worker /\ local' = local
      BY <1>3, RowsOutside DEF Grows
  <2> QED BY <1>1, <1>3, <2>1, WorkStands, HeadsOutside DEF ApprovalInv
<1>4. ASSUME NEW s \in Sweepers, Reconcile(s) PROVE ApprovalInv'
  <2>1. RowsVouched' /\ Grows
      BY <1>4, RowsReconcile DEF Grows
  <2>2. worker' = worker /\ local' = local /\ pull' = pull
      BY <1>4 DEF Reconcile, ReadParked, ReadFailed, ReadCanceled, Asks, LandGithubMerge,
         NoteClosed, CloseCanceled, CloseFailed, Rebabysit, Settles
  <2> QED BY <1>1, <2>1, <2>2, WorkStands, HeadsStay DEF ApprovalInv, HeadsKept
<1>5. CASE UNCHANGED vars
  <2>1. Grows /\ worker' = worker /\ local' = local /\ pull' = pull
      BY <1>5 DEF vars, Grows
  <2>2. RowsVouched'
      BY <1>5 DEF vars, ApprovalInv, RowsVouched, RowVouched, Vouched, Claimed, Live
  <2> QED BY <1>1, <2>1, <2>2, WorkStands, HeadsStay DEF ApprovalInv, HeadsKept
<1> QED BY <1>2, <1>3, <1>4, <1>5 DEF Next

\* The inductive invariant: an approval on a row is of the sha the row names, or
\* of what main has been merged into since; so is what the worker carries; and so
\* is what the factory merged.
THEOREM ApprovalFollowed == Spec => []ApprovalInv
<1>1. Init => ApprovalInv
    BY ApprovalStart
<1>2. ApprovalInv /\ [Next]_vars => ApprovalInv'
    BY ApprovalStep
<1> QED BY <1>1, <1>2, PTL DEF Spec

\* What the merge API is given was approved by a review or a human, with no more
\* than main brought in since: whatever is pushed, parked, woken and re-pointed.
THEOREM JudgedLands == Spec => []LandsWhatWasJudged
<1>1. ApprovalInv => LandsWhatWasJudged
    BY DEF ApprovalInv, HeadsKept, LandsWhatWasJudged, Vouched
<1> QED BY <1>1, ApprovalFollowed, PTL

\* Under approve = "human" and without review_fixes the factory merges only what
\* a human said merge on.  With review_fixes it does not: see fix_unapproved.
THEOREM HumanSaid == ASSUME ~ReviewFixes PROVE Spec => []HumanSaidMerge
<1>1. ApprovalInv => HumanSaidMerge
    BY DEF ApprovalInv, HeadsKept, HumanSaidMerge, HumanOnly
<1> QED BY <1>1, ApprovalFollowed, PTL
================================================================================
