--------------------------- MODULE PullRequestSafety ---------------------------
(****************************************************************************)
(* PullRequests is typed, a pull request's run is left to its worker,        *)
(* nothing reads merged that is not, and the ticket's lease passes on as     *)
(* TicketLease promises.  The types come first; then each step has one of    *)
(* fifteen effects on leases, endings, the merge and what was read of it,    *)
(* each effect keeps PullInv, and each is a step of the lease or none.       *)
(****************************************************************************)
EXTENDS PullRequests, WellFoundedInduction, TLAPS

(***************************************************************************)
(* Types.  A worker that resumes reads the row of the run before its own,  *)
(* and the newest verdict of any run: Begun says that both exist.          *)
(***************************************************************************)
TicketType == [status : {"ready", "in_flight", "blocked_on_operator", "merged",
                         "abandoned"},
               active : 0..MaxRuns, last : 0..MaxRuns, canceled : BOOLEAN]

\* While there are commits to make, a new commit is one of them and not made
\* yet.
LEMMA Commit == MoreToCommit => NewCommit \in Commits /\ NewCommit \notin Made
BY DEF MoreToCommit, NewCommit

\* The candidate of the first run is a head.
LEMMA First == Candidate \in Shas /\ Candidate # {} /\ Candidate \subseteq Commits
BY PullAssumption DEF Candidate, Shas

\* The type invariant, variable by variable.
LEMMA TypesOfParts ==
  TypeOK <=> /\ pull \in PullType /\ local \in Shas /\ ticket \in TicketType
             /\ run \in [RunIds -> RunType] /\ worker \in WorkType
             /\ sweep \in [Sweepers -> SweepType]
             /\ said \subseteq Shas /\ judged \subseteq Shas
BY DEF TypeOK, TicketType

\* Records the actions build.
LEMMA Rows ==
  /\ NewRun \in RunType
  /\ Gone \in WorkType
  /\ Idle \in SweepType
  /\ Blank \in SightType
BY PullAssumption DEF NewRun, RunType, Gone, WorkType, Idle, SweepType, Blank, SightType,
   Shas, NoSha, NoMark, NoRun, Outcomes, Verdicts, States, AtWork

\* An ended row is a row of the runs table.
LEMMA RowEnds ==
  ASSUME NEW row \in RunType, NEW outcome \in Outcomes
  PROVE  EndRun(row, outcome) \in RunType
BY DEF EndRun, RunType

\* Replacing one row by a row keeps the runs table's type.
LEMMA RowSet ==
  ASSUME run \in [RunIds -> RunType], NEW r, NEW row,
         r \in RunIds => row \in RunType
  PROVE  [run EXCEPT ![r] = row] \in [RunIds -> RunType]
OBVIOUS

\* Writing a verdict into this run's row keeps the runs table's type.
LEMMA VerdictSet ==
  ASSUME run \in [RunIds -> RunType], NEW verdict \in Verdicts
  PROVE  [run EXCEPT ![Me].verdict = verdict] \in [RunIds -> RunType]
BY DEF RunType

\* A freed ticket is a ticket.
LEMMA TicketFreed ==
  ASSUME ticket \in TicketType, NEW r \in 0..MaxRuns,
         NEW status \in {"ready", "in_flight", "blocked_on_operator", "merged", "abandoned"}
  PROVE  Freed(r, status) \in TicketType
<1>1. 0 \in 0..MaxRuns
  BY PullAssumption
<1> QED BY <1>1 DEF Freed, TicketType, NoRun

\* Releasing a parked ticket keeps the types of both tables.
LEMMA ReleasesTyped ==
  ASSUME run \in [RunIds -> RunType], ticket \in TicketType,
         NEW rows \in [RunIds -> RunType], NEW approved \in BOOLEAN,
         Releases(rows, approved)
  PROVE  run' \in [RunIds -> RunType] /\ ticket' \in TicketType
<1> DEFINE row == [EndRun(rows[ticket.last], "abandoned") EXCEPT
                     !.resume = TRUE, !.approvedAt = approved]
<1>1. ticket.last \in RunIds => EndRun(rows[ticket.last], "abandoned") \in RunType
    BY RowEnds DEF Outcomes
<1>2. ticket.last \in RunIds => row \in RunType
    BY <1>1 DEF RunType
<1>3. run' = [rows EXCEPT ![ticket.last] = row]
    BY DEF Releases
<1> HIDE DEF row
<1>4. run' \in [RunIds -> RunType]
    BY <1>2, <1>3
<1> QED BY <1>4 DEF Releases, TicketType

\* What a look at the pull request sees has its type.
LEMMA SightTyped == pull \in PullType => Sight \in SightType
BY DEF PullType, Sight, SightType

\* A worker that goes on to a step keeps its type.
LEMMA WorkerGoes ==
  ASSUME worker \in WorkType, NEW step \in AtWork
  PROVE  Goes(step) => worker' \in WorkType
BY Rows DEF Goes, WorkType

\* What a pass, a fix round or a redo writes into the worker's locals keeps their
\* type.
LEMMA WorkSet ==
  ASSUME NEW w \in WorkType, NEW step \in AtWork, NEW sha \in Shas
  PROVE  /\ [w EXCEPT !.at = step, !.reviewed = sha] \in WorkType
         /\ [w EXCEPT !.at = step, !.saw = Blank, !.reviewed = sha] \in WorkType
         /\ [w EXCEPT !.at = step, !.saw = Blank, !.reviewed = sha, !.fixed = TRUE]
              \in WorkType
BY Rows DEF WorkType

\* A worker on its way to park keeps its type.
LEMMA WorkerParks ==
  ASSUME worker \in WorkType, NEW covers \in Shas, NEW carries \in BOOLEAN,
         NEW ci \in BOOLEAN
  PROVE  ToPark(covers, carries, ci) => worker' \in WorkType
<1>1. "park" \in AtWork
  BY DEF AtWork
<1>2. \A w \in WorkType : [w EXCEPT !.at = "park", !.saw = Blank] \in WorkType
  BY <1>1, Rows DEF WorkType
<1>3. \A w \in WorkType :
        [w EXCEPT !.covers = covers, !.carries = carries, !.ci = ci] \in WorkType
  BY DEF WorkType
<1> DEFINE begun == [worker EXCEPT !.at = "park", !.saw = Blank]
<1>4. ToPark(covers, carries, ci) =>
        worker' = [begun EXCEPT !.covers = covers, !.carries = carries, !.ci = ci]
  BY DEF ToPark
<1> HIDE DEF begun
<1>5. begun \in WorkType
  BY <1>2 DEF begun
<1> QED BY <1>3, <1>4, <1>5

\* Ending a run keeps the types of both tables.
LEMMA RowsEnd ==
  ASSUME run \in [RunIds -> RunType], ticket \in TicketType, NEW r \in 0..MaxRuns,
         NEW outcome \in Outcomes,
         NEW status \in {"ready", "in_flight", "blocked_on_operator", "merged",
                         "abandoned"},
         Ends(r, outcome, status)
  PROVE  run' \in [RunIds -> RunType] /\ ticket' \in TicketType
<1>1. r \in RunIds => EndRun(run[r], outcome) \in RunType
  BY RowEnds
<1>2. run' = [run EXCEPT ![r] = EndRun(run[r], outcome)]
  BY DEF Ends
<1>3. run' \in [RunIds -> RunType]
  BY <1>1, <1>2, RowSet
<1> QED BY <1>3, TicketFreed DEF Ends

\* The first run has been reviewed, so a last verdict there is; and a worker
\* resumes only what an earlier run left.
Begun == /\ Claimed(1)
         /\ run[1].verdict # "none"
         /\ worker.at = "resume" => Me \in 2..MaxRuns
TypeInv == TypeOK /\ Begun

\* A set of naturals has a least element.
LEMMA Least ==
  ASSUME NEW S, S \subseteq Nat, S # {}
  PROVE  \E x \in S : \A y \in S : ~(y < x)
<1> DEFINE R == OpToRel(<, Nat)
<1>1. \A x, y \in Nat : y < x => <<y, x>> \in R
    BY DEF OpToRel
<1>2. IsWellFoundedOn(R, Nat)
    BY NatLessThanWellFounded
<1>3. \E x \in S : \A y \in S : ~(<<y, x>> \in R)
  <2> HIDE DEF R
  <2> QED BY <1>2, WFMin
<1> QED BY <1>1, <1>3

\* The run whose verdict a claim reads is a run.
LEMMA LastVerdictIs == TypeInv => LastVerdict \in RunIds
<1> SUFFICES ASSUME TypeInv PROVE LastVerdict \in RunIds
    OBVIOUS
<1> DEFINE Judged == {r \in RunIds : run[r].verdict # "none"}
           Down   == {n \in Nat : MaxRuns - n \in Judged}
<1>0. MaxRuns \in Nat /\ 1 \in Judged
    BY PullAssumption DEF TypeInv, Begun, RunIds
<1>1. MaxRuns - 1 \in Down
    BY <1>0 DEF RunIds
<1>2. PICK n \in Down : \A k \in Down : ~(k < n)
  <2> HIDE DEF Down
  <2>1. Down \subseteq Nat
      BY DEF Down
  <2> QED BY <1>1, <2>1, Least
<1>3. MaxRuns - n \in Judged
    OBVIOUS
<1>4. \A i \in Judged : i <= MaxRuns - n
  <2> TAKE i \in Judged
  <2>1. MaxRuns - i \in Nat /\ MaxRuns - (MaxRuns - i) = i
      BY <1>0 DEF RunIds
  <2>2. MaxRuns - i \in Down
      BY <2>1
  <2>3. n \in Nat /\ i \in Int
      BY <1>0 DEF RunIds
  <2>4. ~(MaxRuns - i < n)
      BY <1>2, <2>2
  <2> HIDE DEF Judged, Down
  <2> QED BY <1>0, <2>3, <2>4
<1> HIDE DEF Judged
<1>5. \E r \in Judged : \A i \in Judged : i <= r
    BY <1>3, <1>4
<1> QED BY <1>5 DEF LastVerdict, Judged

\* The types hold before the first claim.
LEMMA TypeStart == Init => TypeInv
<1> SUFFICES ASSUME Init PROVE TypeInv
    OBVIOUS
<1> USE PullAssumption, Rows, First DEF RunIds, NoRun, NoSha
<1>0. MaxRuns \in Nat /\ 0 \in 0..MaxRuns /\ 1 \in 1..MaxRuns /\ 1 \in 0..MaxRuns
    OBVIOUS
<1>1. pull \in PullType
    BY <1>0 DEF Init, PullType, States, Shas
<1>2. ticket \in TicketType
    BY <1>0 DEF Init, TicketType
<1>3. /\ [NewRun EXCEPT !.url = TRUE, !.verdict = "pass"] \in RunType
      /\ [NewRun EXCEPT !.outcome = "unclaimed"] \in RunType
    BY DEF RunType, Verdicts
<1>4. run \in [RunIds -> RunType]
    BY <1>3 DEF Init
<1>5. worker \in WorkType
    BY <1>0 DEF Init, WorkType, AtWork
<1>6. sweep \in [Sweepers -> SweepType]
    BY DEF Init
<1>7. TypeOK
    BY <1>1, <1>2, <1>4, <1>5, <1>6, TypesOfParts DEF Init
<1>8. Begun
    BY <1>0 DEF Init, Begun, Claimed, NewRun, Gone
<1> QED BY <1>7, <1>8 DEF TypeInv

\* Every step keeps the types.
LEMMA TypeStep == ASSUME TypeInv, [Next]_vars PROVE TypeOK'
<1> SUFFICES ASSUME Next PROVE TypeOK'
    BY DEF vars, TypeInv, TypeOK
<1>t. TypeOK
    BY DEF TypeInv
<1>0. /\ pull \in PullType /\ local \in Shas /\ ticket \in TicketType
      /\ run \in [RunIds -> RunType] /\ worker \in WorkType
      /\ sweep \in [Sweepers -> SweepType]
      /\ said \subseteq Shas /\ judged \subseteq Shas
    BY <1>t, TypesOfParts
<1> HIDE DEF TypeOK
<1>z. (TypeOK <=> /\ pull \in PullType /\ local \in Shas /\ ticket \in TicketType
             /\ run \in [RunIds -> RunType] /\ worker \in WorkType
             /\ sweep \in [Sweepers -> SweepType]
             /\ said \subseteq Shas /\ judged \subseteq Shas)'
  BY DEF TypeOK, TicketType
<1>m. /\ 0 \in 0..MaxRuns /\ Me \in 0..MaxRuns
      /\ worker.reviewed \in Shas /\ worker.covers \in Shas
      /\ worker.carries \in BOOLEAN /\ worker.ci \in BOOLEAN
      /\ worker.mark \in 0..NoMark
      /\ worker.approved \in BOOLEAN
      /\ ticket.last \in 0..MaxRuns /\ NoSha \in Shas
      /\ ticket.status \in {"ready", "in_flight", "blocked_on_operator", "merged",
                            "abandoned"}
      /\ Sight \in SightType
    BY <1>0, PullAssumption, SightTyped DEF Me, WorkType, TicketType, NoSha, Shas
<1> USE <1>0, PullAssumption, Rows DEF RunIds, NoRun
\* A worker that only goes on, or begins a park.
<1>a. CASE Read \/ AtTheCap \/ SawMerged \/ ParkForCI \/ ParkForeign \/ ParkOnThreads
           \/ QuietAndReviewed \/ ParkMoved \/ Decide \/ MergeRefused \/ ReadMark \/ Crash
  <2>0. pull' = pull /\ local' = local /\ ticket' = ticket /\ run' = run
        /\ sweep' = sweep /\ said' = said /\ judged' = judged
    BY <1>a DEF Read, AtTheCap, SawMerged, ParkForCI, ParkForeign, ParkOnThreads,
       QuietAndReviewed, ParkMoved, Decide, MergeRefused, ReadMark, Crash
  <2>1. CASE Read
    BY <1>z, <1>m, <2>0, <2>1 DEF Read, WorkType, AtWork
  <2>2. CASE AtTheCap \/ ParkForeign \/ ParkMoved \/ MergeRefused
    BY <1>z, <1>m, <2>0, <2>2, WorkerParks DEF AtTheCap, ParkForeign, ParkMoved, MergeRefused
  <2>3. CASE SawMerged \/ QuietAndReviewed
    BY <1>z, <2>0, <2>3, WorkerGoes DEF SawMerged, QuietAndReviewed, AtWork
  <2>4. CASE ParkForCI
    <3>1. (worker.approved /\ worker.release = local) \in BOOLEAN
        OBVIOUS
    <3> QED BY <1>z, <1>m, <2>0, <2>4, <3>1, WorkerParks DEF ParkForCI
  <2>5. CASE ParkOnThreads
    BY <1>z, <1>m, <2>0, <2>5, WorkerParks DEF ParkOnThreads
  <2>6. CASE Decide
    BY <1>z, <1>m, <2>0, <2>6, WorkerParks, WorkerGoes DEF Decide, AtWork
  <2>7. CASE ReadMark
    <3>1. PICK mark \in {pull.news} \cup {NoMark} :
             worker' = [worker EXCEPT !.at = "parking", !.mark = mark]
        BY <2>7 DEF ReadMark
    <3>2. mark \in 0..NoMark
        BY DEF PullType, NoMark
    <3>3. worker' \in WorkType
        BY <3>1, <3>2 DEF WorkType, AtWork
    <3> QED BY <1>z, <2>0, <3>3
  <2>8. CASE Crash
    <3>1. worker' \in WorkType
        BY <2>8 DEF Crash, WorkType
    <3> QED BY <1>z, <2>0, <3>1
  <2> QED BY <1>a, <2>1, <2>2, <2>3, <2>4, <2>5, <2>6, <2>7, <2>8
<1>1. CASE Claim
  <2> PICK r \in RunIds : /\ ~Claimed(r)
       /\ ticket' = [ticket EXCEPT !.status = "in_flight", !.active = r]
       /\ run' = [run EXCEPT ![r] = NewRun]
       /\ worker' = [Gone EXCEPT !.run = r,
                       !.at = IF run[r - 1].resume THEN "resume" ELSE "redo"]
      BY <1>1 DEF Claim
  <2>0. r \in 0..MaxRuns
      OBVIOUS
  <2>1. ticket' \in TicketType
      BY <2>0 DEF TicketType
  <2>2. worker' \in WorkType
      BY <2>0 DEF WorkType, AtWork
  <2> QED BY <1>1, <1>z, <2>1, <2>2, RowSet DEF Claim
<1>2. CASE Redo
  <2>1. pull' \in PullType /\ local' \in Shas
      BY <1>2, Commit DEF Redo, PullType, Shas, States, Synced, NoSha
  <2>2. worker' \in WorkType
    <3>1. worker' = [worker EXCEPT !.at = "read", !.reviewed = local']
        BY <1>2 DEF Redo
    <3>2. "read" \in AtWork
        BY DEF AtWork
    <3> QED BY <1>0, <2>1, <3>1, <3>2, WorkSet
  <2>3. run' \in [RunIds -> RunType]
    <3>1. \A row \in RunType : [row EXCEPT !.url = TRUE, !.verdict = "pass"] \in RunType
        BY DEF RunType, Verdicts
    <3> QED BY <1>0, <1>2, <3>1, RowSet DEF Redo
  <2> QED BY <1>2, <1>z, <2>1, <2>2, <2>3 DEF Redo
<1>3. CASE Resume
  <2>1. local' \in Shas
      BY <1>3 DEF Resume, Synced, PullType
  <2>2. Me \in 2..MaxRuns /\ Me - 1 \in RunIds
      BY <1>3 DEF Resume, At, TypeInv, Begun
  <2> DEFINE was      == run[Me - 1]
             approved == was.approvedAt \/ was.carried
             reviewed == IF approved THEN was.candidate ELSE LastApproved
             release  == IF approved THEN reviewed ELSE NoSha
             resumed  == [worker EXCEPT !.reviewed = reviewed, !.approved = approved,
                                        !.release = release]
  <2>3. was \in RunType /\ approved \in BOOLEAN
      BY <2>2
  <2>4. LastApproved \in Shas
      BY LastVerdictIs, <1>m DEF LastApproved, RunType
  <2>5. reviewed \in Shas /\ release \in Shas
      BY <2>3, <2>4, <1>m DEF RunType
  <2> HIDE DEF reviewed, release, approved
  <2>6. resumed \in WorkType
      BY <2>3, <2>5 DEF WorkType
  <2>7. /\ [resumed EXCEPT !.at = "read"] \in WorkType
        /\ [resumed EXCEPT !.at = "park", !.covers = reviewed] \in WorkType
    <3> HIDE DEF resumed
    <3> QED BY <2>5, <2>6 DEF WorkType, AtWork
  <2>8. worker' \in WorkType
      BY <1>3, <2>7 DEF Resume, reviewed, release, approved
  <2>9. run[Me] \in RunType => [run[Me] EXCEPT !.url = TRUE, !.candidate = was.candidate] \in RunType
      BY <2>3 DEF RunType
  <2>10. run' \in [RunIds -> RunType]
      BY <1>3, <2>9, RowSet DEF Resume
  <2> QED BY <1>3, <1>z, <2>1, <2>8, <2>10 DEF Resume
<1>5. CASE Pause
  <2>1. run' \in [RunIds -> RunType]
    <3>1. \A row \in RunType :
            [row EXCEPT !.resume = TRUE, !.candidate = local] \in RunType
        BY <1>0 DEF RunType
    <3>2. \A row \in RunType : EndRun(row, "paused") \in RunType
        BY RowEnds DEF Outcomes
    <3> QED BY <1>0, <1>5, <3>1, <3>2, RowSet DEF Pause
  <2>2. ticket' \in TicketType
      BY <1>5, <1>m, TicketFreed DEF Pause
  <2> QED BY <1>5, <1>z, <2>1, <2>2 DEF Pause
<1>6. CASE SawClosed
  BY <1>6, <1>z, <1>m, RowsEnd DEF SawClosed, Rejects, Outcomes
<1>7. CASE RefreshFromMain
  <2>1. ASSUME NEW sha \in Shas, BringsMainIn(sha) PROVE TypeOK'
    <3>1. pull' \in PullType /\ local' \in Shas
        BY <2>1 DEF BringsMainIn, Pushes, PullType
    <3>2. run' \in [RunIds -> RunType]
        BY <1>0, <2>1, VerdictSet DEF BringsMainIn, Verdicts
    <3>3. worker' \in WorkType
      <4>1. PICK seen \in Shas :
              worker' = [worker EXCEPT !.at = "read", !.saw = Blank, !.reviewed = seen]
          BY <1>0, <2>1 DEF BringsMainIn, WorkType
      <4>2. "read" \in AtWork
          BY DEF AtWork
      <4> QED BY <1>0, <4>1, <4>2, WorkSet
    <3> QED BY <2>1, <3>1, <3>2, <3>3, <1>z DEF BringsMainIn
  <2>b. ASSUME NEW sha \in Shas, MainBreaksIt(sha) PROVE TypeOK'
    <3>1. run' \in [RunIds -> RunType]
        BY <1>0, <2>b, VerdictSet DEF MainBreaksIt, Verdicts
    <3>2. CASE Pushes(sha) /\ ToPark(NoSha, FALSE, FALSE)
      <4>1. pull' \in PullType /\ local' \in Shas
          BY <3>2 DEF Pushes, PullType
      <4>2. worker' \in WorkType
          BY <1>m, <3>2, WorkerParks
      <4> QED BY <1>z, <2>b, <3>1, <4>1, <4>2 DEF MainBreaksIt
    <3>3. ASSUME NEW c \in Commits, Pushes(sha \cup {c}), Goes("read") PROVE TypeOK'
      <4>1. pull' \in PullType /\ local' \in Shas
          BY <3>3 DEF Pushes, PullType, Shas
      <4>2. worker' \in WorkType
          BY <3>3, WorkerGoes DEF AtWork
      <4> QED BY <1>z, <2>b, <3>1, <4>1, <4>2 DEF MainBreaksIt
    <3> QED BY <2>b, <3>2, <3>3 DEF MainBreaksIt
  <2>2. ASSUME NEW c \in MainCommits,
               BringsMainIn(local \cup {c}) \/ MainBreaksIt(local \cup {c})
        PROVE  TypeOK'
    <3>1. local \cup {c} \in Shas
        BY DEF Shas
    <3> QED BY <2>1, <2>b, <2>2, <3>1
  <2>3. CASE /\ MoreToCommit
             /\ \/ BringsMainIn(local \cup {NewCommit})
                \/ MainBreaksIt(local \cup {NewCommit})
    <3>1. local \cup {NewCommit} \in Shas
        BY <2>3, Commit DEF Shas
    <3> QED BY <2>1, <2>b, <2>3, <3>1
  <2>4. CASE /\ ToPark(worker.reviewed, FALSE, FALSE)
             /\ UNCHANGED <<pull, local, ticket, run, sweep, said, judged>>
    BY <1>m, <1>z, <2>4, WorkerParks
  <2> QED BY <1>7, <2>2, <2>3, <2>4 DEF RefreshFromMain
<1>8. CASE AddressThreads \/ DeclineThreads
  <2>1. pull' \in PullType /\ local' \in Shas
    <3>1. CASE AddressThreads
      <4>1. local' \in Shas
          BY <3>1, Commit DEF AddressThreads, Shas
      <4>2. pull.open \ worker.saw.open \in SUBSET (1..MaxNews)
          BY DEF PullType
      <4> QED BY <3>1, <4>1, <4>2 DEF AddressThreads, PullType
    <3>2. CASE DeclineThreads
      <4>2. pull.open \ worker.saw.open \in SUBSET (1..MaxNews)
          BY DEF PullType
      <4> QED BY <3>2, <4>2 DEF DeclineThreads, PullType
    <3> QED BY <1>8, <3>1, <3>2
  <2>2. worker' \in WorkType
      BY <1>8, WorkerGoes DEF AddressThreads, DeclineThreads, AtWork
  <2> QED BY <1>8, <1>z, <2>1, <2>2 DEF AddressThreads, DeclineThreads
<1>9. CASE ReviewApproves \/ ReviewRejects
  <2>1. run' \in [RunIds -> RunType]
      BY <1>9, VerdictSet DEF ReviewApproves, ReviewRejects, Verdicts
  <2>2. worker' \in WorkType
      BY <1>9, <1>m, WorkerGoes, WorkerParks DEF ReviewApproves, ReviewRejects, AtWork
  <2>3. judged' \subseteq Shas
      BY <1>9 DEF ReviewApproves, ReviewRejects
  <2> QED BY <1>9, <1>z, <2>1, <2>2, <2>3 DEF ReviewApproves, ReviewRejects
<1>10. CASE ReviewFixesAgain
  <2>1. pull' \in PullType /\ local' \in Shas
      BY <1>10, Commit DEF ReviewFixesAgain, Pushes, PullType, Shas
  <2>2. run' \in [RunIds -> RunType]
      BY <1>10, VerdictSet DEF ReviewFixesAgain, Verdicts
  <2>3. worker' \in WorkType
    <3>1. CASE worker' = [worker EXCEPT !.at = "read", !.saw = Blank,
                                        !.reviewed = local', !.fixed = TRUE]
      <4>1. "read" \in AtWork
          BY DEF AtWork
      <4> QED BY <1>0, <2>1, <3>1, <4>1, WorkSet
    <3>2. CASE ToPark(NoSha, FALSE, FALSE)
        BY <1>0, <1>m, <3>2, WorkerParks
    <3> QED BY <1>10, <3>1, <3>2 DEF ReviewFixesAgain
  <2>4. judged' \subseteq Shas
      BY <1>10, <2>1 DEF ReviewFixesAgain
  <2> QED BY <1>10, <1>z, <2>1, <2>2, <2>3, <2>4 DEF ReviewFixesAgain
<1>11. CASE Meanwhile
  <2>1. CASE Rejects(Me) /\ worker' = Gone
    BY <1>11, <1>z, <1>m, <2>1, RowsEnd DEF Meanwhile, Rejects, Outcomes
  <2>2. CASE Goes("landed") /\ UNCHANGED <<ticket, run>>
    BY <1>11, <1>z, <2>2, WorkerGoes DEF Meanwhile, AtWork
  <2>3. CASE ToPark(worker.reviewed, FALSE, FALSE) /\ UNCHANGED <<ticket, run>>
    BY <1>11, <1>z, <1>m, <2>3, WorkerParks DEF Meanwhile
  <2>4. CASE /\ worker' = [worker EXCEPT !.at = "decide", !.reviewed = local,
                                         !.approved = FALSE]
             /\ UNCHANGED <<ticket, run>>
    <3>1. worker' \in WorkType
        BY <2>4 DEF WorkType, AtWork
    <3> QED BY <1>11, <1>z, <2>4, <3>1 DEF Meanwhile
  <2> QED BY <1>11, <2>1, <2>2, <2>3, <2>4 DEF Meanwhile
<1>12. CASE CallMerge
  <2>1. pull' \in PullType
      BY <1>12 DEF CallMerge, PullType, States
  <2>2. CASE Goes("landed") /\ UNCHANGED <<ticket, run>>
    BY <1>12, <1>z, <2>1, <2>2, WorkerGoes DEF CallMerge, AtWork
  <2>3. CASE Ends(Me, "failed", "in_flight") /\ worker' = Gone
    BY <1>12, <1>z, <1>m, <2>1, <2>3, RowsEnd DEF CallMerge, Outcomes
  <2> QED BY <1>12, <2>2, <2>3 DEF CallMerge
<1>13. CASE RecordMerged
  BY <1>13, <1>z, <1>m, RowsEnd, WorkerGoes DEF RecordMerged, Outcomes, AtWork
<1>14. CASE MirrorMerged
  <2>1. ticket' \in TicketType
      BY <1>14 DEF MirrorMerged, TicketType
  <2> QED BY <1>14, <1>z, <2>1 DEF MirrorMerged
<1>15. CASE BlockTicket
  <2>1. ticket' \in TicketType
      BY <1>15 DEF BlockTicket, TicketType
  <2>2. worker' \in WorkType
      BY <1>15 DEF BlockTicket, WorkType, AtWork
  <2> QED BY <1>15, <1>z, <2>1, <2>2 DEF BlockTicket
<1>16. CASE Park
  <2>1. run[Me] \in RunType => ParkedRow \in RunType
      BY <1>m DEF ParkedRow, RunType
  <2>2. run' = [run EXCEPT ![Me] = ParkedRow]
      BY <1>16 DEF Park
  <2>3. run' \in [RunIds -> RunType]
      BY <2>1, <2>2, RowSet
  <2>4. ticket' \in TicketType
      BY <1>16, <1>m DEF Park, TicketType
  <2> QED BY <1>16, <1>z, <2>3, <2>4 DEF Park
<1>17. CASE Fail
  BY <1>17, <1>z, <1>m, RowsEnd DEF Fail, FailRun, Outcomes
<1>18. CASE SweepDead
  BY <1>18, <1>z, <1>m, RowsEnd DEF SweepDead, Outcomes
<1>19. ASSUME NEW s \in Sweepers, Reconcile(s) PROVE TypeOK'
  <2>0. /\ sweep[s].run \in 0..MaxRuns /\ sweep[s].news \in 0..MaxNews
        /\ sweep[s] \in SweepType
      BY DEF SweepType
  <2>1. ASSUME NEW step \in {"parked", "failed", "canceled"}, NEW sight \in SightType,
               Asks(s, step, sight)
        PROVE  TypeOK'
    <3>1. pull.news \in 0..MaxNews
        BY DEF PullType
    <3>2. [at |-> step, run |-> ticket.last, saw |-> sight, news |-> pull.news] \in SweepType
        BY <1>m, <3>1 DEF SweepType
    <3>3. sweep' \in [Sweepers -> SweepType]
        BY <2>1, <3>2 DEF Asks
    <3> QED BY <1>z, <2>1, <3>3 DEF Asks
  <2>2. CASE ReadParked(s) \/ ReadFailed(s) \/ ReadCanceled(s)
    BY <1>m, <2>1, <2>2 DEF ReadParked, ReadFailed, ReadCanceled
  <2>3. Settles(s) /\ run' \in [RunIds -> RunType] /\ ticket' \in TicketType => TypeOK'
    BY <1>z DEF Settles, Drops
  <2>4. CASE LandGithubMerge(s)
    BY <2>0, <2>3, <2>4, RowsEnd DEF LandGithubMerge, Outcomes
  <2>5. CASE NoteClosed(s)
    <3>1. run' \in [RunIds -> RunType] /\ ticket' \in TicketType
        BY <2>0, <2>5, RowsEnd DEF NoteClosed, Rejects, Outcomes
    <3>2. [sweep[s] EXCEPT !.saw = Blank] \in SweepType
        BY <2>0 DEF SweepType
    <3>3. sweep' \in [Sweepers -> SweepType]
        BY <2>5, <3>2 DEF NoteClosed
    <3> QED BY <1>z, <2>5, <3>1, <3>3 DEF NoteClosed
  <2>6. CASE CloseCanceled(s)
    <3>1. [ticket EXCEPT !.status = "abandoned"] \in TicketType
        BY DEF TicketType
    <3> QED BY <1>m, <2>3, <2>6, <3>1, RowsEnd DEF CloseCanceled, Outcomes
  <2>7. CASE CloseFailed(s)
    <3>1. [ticket EXCEPT !.status = "merged"] \in TicketType
        BY DEF TicketType
    <3> QED BY <2>3, <2>7, <3>1 DEF CloseFailed
  <2>8. CASE Rebabysit(s)
    <3> DEFINE rows == [Marked(s) EXCEPT ![sweep[s].run].carried = @ \/ Carries(s)]
    <3>1. Marked(s) \in [RunIds -> RunType]
      <4>1. sweep[s].run \in RunIds => [run[sweep[s].run] EXCEPT !.seen = sweep[s].news] \in RunType
        <5>1. sweep[s].news \in 0..NoMark
            BY <2>0 DEF NoMark
        <5> QED BY <5>1 DEF RunType
      <4>2. Marked(s) = [run EXCEPT ![sweep[s].run] =
                           [run[sweep[s].run] EXCEPT !.seen = sweep[s].news]]
          BY DEF Marked
      <4> QED BY <4>1, <4>2, RowSet
    <3>2. rows \in [RunIds -> RunType]
      <4> DEFINE row == Marked(s)[sweep[s].run]
      <4>1. (row.carried \/ Carries(s)) \in BOOLEAN
          OBVIOUS
      <4>2. sweep[s].run \in RunIds =>
              [row EXCEPT !.carried = row.carried \/ Carries(s)] \in RunType
          BY <3>1, <4>1 DEF RunType
      <4>3. rows = [Marked(s) EXCEPT ![sweep[s].run] =
                      [row EXCEPT !.carried = row.carried \/ Carries(s)]]
          OBVIOUS
      <4> HIDE DEF rows
      <4> QED BY <3>1, <4>2, <4>3
    <3> HIDE DEF rows
    <3>3. CASE Releases(rows, FALSE)
      BY <2>3, <2>8, <3>2, <3>3, ReleasesTyped DEF Rebabysit
    <3>4. CASE UNCHANGED <<ticket, run>>
      BY <2>3, <2>8, <3>4 DEF Rebabysit
    <3>5. CASE run' \in {Marked(s), run} /\ ticket' = ticket
      BY <2>3, <2>8, <3>1, <3>5 DEF Rebabysit
    <3> QED BY <2>8, <3>3, <3>4, <3>5 DEF Rebabysit, rows
  <2> QED BY <1>19, <2>2, <2>4, <2>5, <2>6, <2>7, <2>8 DEF Reconcile
<1>20. CASE Outside
  <2>1. Stays /\ run' \in [RunIds -> RunType] /\ ticket' \in TicketType /\ said' \subseteq Shas
           => TypeOK'
    BY <1>z DEF Stays
  <2>2. \A status \in {"ready", "abandoned"} : [ticket EXCEPT !.status = status] \in TicketType
    BY DEF TicketType
  <2>3. CASE Approve
    <3>1. ticket.last \in RunIds
        BY <2>3 DEF Approve, Releases, Waits, TicketType
    <3>2. run[ticket.last].candidate \in Shas
        BY <3>1 DEF RunType
    <3> QED BY <2>1, <2>3, <3>2, ReleasesTyped DEF Approve
  <2>4. CASE Babysit
    BY <2>1, <2>4, ReleasesTyped DEF Babysit
  <2>5. CASE Repoint
    <3>1. run' \in [RunIds -> RunType]
      <4>1. pull.head \in Shas
          BY DEF PullType
      <4>2. ticket.last \in RunIds =>
              [run[ticket.last] EXCEPT !.candidate = pull.head] \in RunType
          BY <4>1 DEF RunType
      <4>3. run' = [run EXCEPT ![ticket.last] =
                      [run[ticket.last] EXCEPT !.candidate = pull.head]]
          BY <2>5 DEF Repoint
      <4> QED BY <4>2, <4>3, RowSet
    <3> QED BY <2>1, <2>5, <3>1 DEF Repoint
  <2>6. CASE Requeue
    <3>1. run' \in [RunIds -> RunType]
      <4>1. ticket.last \in RunIds =>
              [run[ticket.last] EXCEPT !.approvedAt = FALSE] \in RunType
          BY DEF RunType
      <4>2. run' = [run EXCEPT ![ticket.last] =
                      [run[ticket.last] EXCEPT !.approvedAt = FALSE]]
          BY <2>6 DEF Requeue
      <4> QED BY <4>1, <4>2, RowSet
    <3> QED BY <2>1, <2>2, <2>6, <3>1 DEF Requeue
  <2>7. CASE ResumePaused
    BY <2>1, <2>2, <2>7 DEF ResumePaused
  <2>8. CASE CancelOnBoard
    <3>1. [ticket EXCEPT !.canceled = TRUE] \in TicketType
        BY DEF TicketType
    <3> QED BY <2>1, <2>8, <3>1 DEF CancelOnBoard
  <2>9. CASE SomeoneComments \/ SomeonePushes \/ SomeoneMerges \/ SomeoneCloses
    <3>1. UNCHANGED <<local, ticket, run, worker, sweep, said, judged>>
        BY <2>9 DEF SomeoneComments, SomeonePushes, SomeoneMerges, SomeoneCloses, OnGitHub
    <3>2. CASE SomeoneComments
      <4>1. pull.news + 1 \in 0..MaxNews /\ pull.open \cup {pull.news + 1} \in SUBSET (1..MaxNews)
          BY <3>2 DEF SomeoneComments, PullType
      <4>2. pull' \in PullType
          BY <3>2, <4>1 DEF SomeoneComments, OnGitHub, PullType
      <4> QED BY <1>z, <3>1, <4>2
    <3>3. CASE SomeonePushes
      <4>1. pull.news + 1 \in 0..MaxNews /\ pull.head \cup {NewCommit} \in Shas
          BY <3>3, Commit DEF SomeonePushes, PullType, Shas
      <4>2. pull' \in PullType
          BY <3>3, <4>1 DEF SomeonePushes, OnGitHub, PullType
      <4> QED BY <1>z, <3>1, <4>2
    <3>4. CASE SomeoneMerges \/ SomeoneCloses
      <4>2. pull' \in PullType
          BY <3>4 DEF SomeoneMerges, SomeoneCloses, OnGitHub, PullType, States
      <4> QED BY <1>z, <3>1, <4>2
    <3> QED BY <2>9, <3>2, <3>3, <3>4
  <2> QED BY <1>20, <2>3, <2>4, <2>5, <2>6, <2>7, <2>8, <2>9 DEF Outside
<1> QED
  BY <1>a, <1>1, <1>2, <1>3, <1>5, <1>6, <1>7, <1>8, <1>9, <1>10, <1>11, <1>12, <1>13,
     <1>14, <1>15, <1>16, <1>17, <1>18, <1>19, <1>20 DEF Next, Working

----------------------------------------------------------------------------
(***************************************************************************)
(* What a step does to leases, endings, the pull request's merge and what  *)
(* each process has read of it.                                            *)
(***************************************************************************)
InHand == AtWork \ {"mark", "parking", "mirror"}

KeepsVerdicts == \A r \in RunIds : run[r].verdict # "none" => run'[r].verdict # "none"
SameOutcomes  == \A r \in RunIds : run'[r].outcome = run[r].outcome
SameTicket == /\ ticket'.active = ticket.active /\ ticket'.last = ticket.last
              /\ ticket'.status = ticket.status
SameRows == SameTicket /\ SameOutcomes /\ KeepsVerdicts
OnlyEnds(r, outcome) ==
  /\ run'[r].outcome = outcome
  /\ \A i \in RunIds \ {r} : run'[i].outcome = run[i].outcome
  /\ KeepsVerdicts
MergedStays == pull.state = "merged" => pull'.state = "merged"
SweepsForget == \A s \in Sweepers :
  \/ sweep'[s].at = "none"
  \/ /\ sweep[s].at # "none" /\ sweep'[s].run = sweep[s].run
     /\ sweep'[s].saw.state = "merged" => sweep[s].saw.state = "merged"

Steps(from, to) ==
  /\ worker.at \in from /\ worker'.at \in to /\ worker'.run = worker.run
  /\ sweep' = sweep

Claims == \E r \in RunIds :
  /\ At("none") /\ ~Claimed(r) /\ ticket.active = NoRun /\ ticket.status = "ready"
  /\ ticket'.active = r /\ ticket'.last = ticket.last /\ ticket'.status = "in_flight"
  /\ run'[r].outcome = "none"
  /\ \A i \in RunIds \ {r} : run'[i] = run[i]
  /\ worker'.run = r /\ worker'.at \in {"resume", "redo"}
  /\ pull' = pull /\ sweep' = sweep

Reopens == Steps({"redo"}, {"read"}) /\ SameRows

GoesOn ==
  /\ Steps(InHand, InHand \ {"resume", "redo"})
  /\ SameRows /\ MergedStays
  /\ worker'.at = "landed" =>
       pull'.state = "merged" \/ (At("judge") /\ worker.saw.state = "merged")
  /\ worker'.at = "judge" /\ worker'.saw.state = "merged" => pull'.state = "merged"

Dies == Steps(AtWork, {"dead"}) /\ SameRows /\ pull' = pull

GivesUp ==
  /\ worker.at \in InHand \/ (worker.at = "dead" /\ ticket.active = Me)
  /\ \E outcome \in Outcomes \ {"none", "merged"} : OnlyEnds(Me, outcome)
  /\ ticket'.active = NoRun /\ ticket'.last = Me
  /\ ticket'.status \in {"in_flight", "blocked_on_operator"}
  /\ worker'.at = "none" /\ sweep' = sweep /\ MergedStays

Records ==
  /\ Steps({"landed"}, {"mirror"})
  /\ OnlyEnds(Me, "merged")
  /\ ticket'.active = NoRun /\ ticket'.last = Me /\ ticket'.status = ticket.status
  /\ pull' = pull

Mirrors ==
  /\ At("mirror") /\ worker'.at = "none"
  /\ ticket'.active = ticket.active /\ ticket'.last = ticket.last
  /\ ticket'.status = "merged"
  /\ run' = run /\ pull' = pull /\ sweep' = sweep

Blocks ==
  /\ Steps({"park"}, {"mark"})
  /\ ticket'.active = ticket.active /\ ticket'.last = ticket.last
  /\ ticket'.status = "blocked_on_operator"
  /\ run' = run /\ pull' = pull

Marks == Steps({"mark"}, {"parking"}) /\ SameRows /\ pull' = pull

Parks ==
  /\ At("parking") /\ worker'.at = "none"
  /\ ticket'.active = NoRun /\ ticket'.last = Me /\ ticket'.status = ticket.status
  /\ SameOutcomes /\ KeepsVerdicts
  /\ pull' = pull /\ sweep' = sweep

Buries == /\ At("dead") /\ worker'.at = "none"
          /\ SameRows /\ pull' = pull /\ sweep' = sweep

LooksUp == \E s \in Sweepers :
  /\ SameRows /\ worker' = worker /\ pull' = pull
  /\ ticket.active = NoRun /\ ticket.last # NoRun
  /\ sweep'[s].run = ticket.last
  /\ sweep'[s].saw.state = "merged" => pull.state = "merged"
  /\ \A i \in Sweepers \ {s} : sweep'[i] = sweep[i]

\* Some pass has read that the newest run's pull request is merged.
SawMerge == \E s \in Sweepers :
  sweep[s].at # "none" /\ sweep[s].saw.state = "merged" /\ sweep[s].run = ticket.last

ClosesParked ==
  /\ worker' = worker /\ pull' = pull /\ SweepsForget
  /\ ticket.active = NoRun /\ ticket.status = "blocked_on_operator"
  /\ ticket.last \in RunIds /\ Live(ticket.last)
  /\ \E outcome \in Outcomes \ {"none"} :
       /\ OnlyEnds(ticket.last, outcome)
       /\ outcome = "merged" => ticket'.status = "merged"
  /\ ticket'.active = NoRun /\ ticket'.last = ticket.last
  /\ ticket'.status = "merged" => SawMerge

Restates ==
  /\ worker' = worker /\ pull' = pull /\ SweepsForget
  /\ ticket.active = NoRun
  /\ \/ ticket.status = "blocked_on_operator"
     \/ run[ticket.last].outcome # "merged"
  /\ SameOutcomes /\ KeepsVerdicts
  /\ ticket'.active = NoRun /\ ticket'.last = ticket.last
  /\ ticket'.status = "merged" => SawMerge

StandsBy == worker' = worker /\ SameRows /\ MergedStays /\ SweepsForget

\* A step that writes no row keeps the rows.
LEMMA NothingMoves ==
  ASSUME UNCHANGED <<ticket, run>> PROVE SameRows
BY DEF SameRows, SameTicket, SameOutcomes, KeepsVerdicts

\* Writing this run's verdict alone moves no ticket and no outcome.
LEMMA VerdictOnly ==
  ASSUME run \in [RunIds -> RunType], ticket' = ticket,
         NEW verdict \in {"pass", "fail"}, run' = [run EXCEPT ![Me].verdict = verdict]
  PROVE  SameRows
<1>1. SameOutcomes
  BY DEF SameOutcomes, RunType
<1>2. KeepsVerdicts
  BY DEF KeepsVerdicts, RunType
<1> QED BY <1>1, <1>2 DEF SameRows, SameTicket

\* Ending a run ends that run alone and frees its ticket.
LEMMA EndsOne ==
  ASSUME run \in [RunIds -> RunType], ticket \in TicketType, NEW r \in RunIds,
         NEW outcome, NEW status, Ends(r, outcome, status)
  PROVE  /\ OnlyEnds(r, outcome)
         /\ ticket'.active = NoRun /\ ticket'.last = r /\ ticket'.status = status
<1>1. KeepsVerdicts
  BY DEF KeepsVerdicts, Ends, EndRun, RunType
<1>2. /\ run'[r].outcome = outcome
      /\ \A i \in RunIds \ {r} : run'[i].outcome = run[i].outcome
  BY DEF Ends, EndRun, RunType
<1> QED BY <1>1, <1>2 DEF OnlyEnds, Ends, Freed, TicketType

Owned == worker.at # "none" => Me \in RunIds

\* Every step of the worker, or of its death, has one of the effects named
\* above.
LEMMA WorkerEffects ==
  ASSUME TypeInv, Owned, TypeOK', Claim \/ Working \/ Pause \/ Crash \/ SweepDead
  PROVE  \/ Claims \/ Reopens \/ GoesOn \/ Dies \/ GivesUp \/ Records \/ Mirrors
         \/ Blocks \/ Marks \/ Parks \/ Buries
<1>0. /\ pull \in PullType /\ local \in Shas /\ ticket \in TicketType
      /\ run \in [RunIds -> RunType] /\ worker \in WorkType
      /\ sweep \in [Sweepers -> SweepType]
    BY TypesOfParts DEF TypeInv
<1>p. /\ pull' \in PullType /\ worker' \in WorkType /\ run' \in [RunIds -> RunType]
      /\ ticket' \in TicketType
    BY DEF TypeOK, TicketType
<1> HIDE DEF TypeOK
<1> USE <1>0 DEF NoRun
\* A worker in hand stays in hand, and nothing is written.
<1>g. ASSUME worker.at \in InHand, worker'.at \in InHand \ {"resume", "redo", "landed", "judge"},
             worker'.run = worker.run, sweep' = sweep, SameRows, MergedStays
      PROVE  GoesOn
    BY <1>g DEF GoesOn, Steps, InHand, AtWork
<1>h. ASSUME NEW covers, NEW carries, NEW ci, ToPark(covers, carries, ci)
      PROVE  worker'.at = "park" /\ worker'.run = worker.run
    BY <1>h DEF ToPark, WorkType
<1>k. ASSUME NEW step, Goes(step)
      PROVE  worker'.at = step /\ worker'.run = worker.run
    BY <1>k DEF Goes, WorkType
<1>1. CASE Claim
  <2> PICK r \in RunIds : /\ ~Claimed(r)
       /\ ticket' = [ticket EXCEPT !.status = "in_flight", !.active = r]
       /\ run' = [run EXCEPT ![r] = NewRun]
       /\ worker' = [Gone EXCEPT !.run = r,
                       !.at = IF run[r - 1].resume THEN "resume" ELSE "redo"]
      BY <1>1 DEF Claim
  <2>1. /\ ticket'.active = r /\ ticket'.last = ticket.last /\ ticket'.status = "in_flight"
      BY DEF TicketType
  <2>2. run'[r].outcome = "none" /\ \A i \in RunIds \ {r} : run'[i] = run[i]
      BY DEF NewRun
  <2>3. worker'.run = r /\ worker'.at \in {"resume", "redo"}
      BY DEF Gone
  <2> QED BY <1>1, <2>1, <2>2, <2>3 DEF Claim, Claims
<1>2. CASE Redo
  <2>1. worker'.at = "read" /\ worker'.run = worker.run /\ worker.at = "redo" /\ sweep' = sweep
      BY <1>2 DEF Redo, At, WorkType
  <2>2. SameRows
    <3>1. run' = [run EXCEPT ![Me] = [@ EXCEPT !.url = TRUE, !.verdict = "pass"]] /\ ticket' = ticket
        BY <1>2 DEF Redo
    <3>2. SameOutcomes
        BY <3>1 DEF SameOutcomes, RunType
    <3>3. KeepsVerdicts
        BY <3>1 DEF KeepsVerdicts, RunType
    <3> QED BY <3>1, <3>2, <3>3 DEF SameRows, SameTicket
  <2> QED BY <2>1, <2>2 DEF Reopens, Steps
<1>3. CASE Resume
  <2>1. worker'.at \in {"read", "park"} /\ worker'.run = worker.run /\ worker.at = "resume"
        /\ sweep' = sweep /\ pull' = pull
      BY <1>3 DEF Resume, At, WorkType
  <2>2. SameRows
    <3>0. ticket' = ticket
        BY <1>3 DEF Resume
    <3>1. CASE UNCHANGED run
        BY <3>0, <3>1, NothingMoves
    <3>2. ASSUME NEW candidate, run' = [run EXCEPT ![Me] = [@ EXCEPT !.url = TRUE, !.candidate = candidate]]
          PROVE  SameRows
      <4>2. SameOutcomes
          BY <3>2 DEF SameOutcomes, RunType
      <4>3. KeepsVerdicts
          BY <3>2 DEF KeepsVerdicts, RunType
      <4> QED BY <3>0, <4>2, <4>3 DEF SameRows, SameTicket
    <3> QED BY <1>3, <3>1, <3>2 DEF Resume
  <2> QED BY <2>1, <2>2, <1>g DEF MergedStays, InHand, AtWork
<1>4. CASE Read
  <2>1. SameRows
      BY <1>4, NothingMoves DEF Read
  <2>2. worker'.at = "judge" /\ worker'.run = worker.run /\ worker'.saw = Sight
      BY <1>4 DEF Read, WorkType
  <2>3. worker'.saw.state = "merged" => pull.state = "merged"
      BY <2>2 DEF Sight
  <2> QED BY <1>4, <2>1, <2>2, <2>3 DEF Read, At, GoesOn, Steps, MergedStays, InHand, AtWork
<1>5. CASE SawMerged
  <2>1. SameRows
      BY <1>5, NothingMoves DEF SawMerged
  <2>2. worker'.at = "landed" /\ worker'.run = worker.run
      BY <1>5, <1>k DEF SawMerged
  <2> QED BY <1>5, <2>1, <2>2 DEF SawMerged, At, GoesOn, Steps, MergedStays, InHand, AtWork
<1>6. CASE AtTheCap \/ ParkForCI \/ ParkForeign \/ ParkOnThreads \/ QuietAndReviewed
           \/ ParkMoved \/ Decide \/ MergeRefused
  <2>1. SameRows /\ pull' = pull /\ sweep' = sweep
      BY <1>6, NothingMoves DEF AtTheCap, ParkForCI, ParkForeign, ParkOnThreads,
         QuietAndReviewed, ParkMoved, Decide, MergeRefused
  <2>2. worker.at \in {"judge", "decide", "merging"}
      BY <1>6 DEF AtTheCap, ParkForCI, ParkForeign, ParkOnThreads, Threads, Quiet, Proceeds,
         QuietAndReviewed, ParkMoved, Moved, Decide, MergeRefused, At
  <2>3. worker'.at \in {"park", "decide", "merging"} /\ worker'.run = worker.run
      BY <1>6, <1>h, <1>k DEF AtTheCap, ParkForCI, ParkForeign, ParkOnThreads,
         QuietAndReviewed, ParkMoved, Decide, MergeRefused
  <2> QED BY <2>1, <2>2, <2>3, <1>g DEF MergedStays, InHand, AtWork
<1>7. CASE RefreshFromMain
  <2>1. worker.at \in {"judge", "merging"}
      BY <1>7 DEF RefreshFromMain, Proceeds, At
  <2>2. ASSUME NEW sha, BringsMainIn(sha) PROVE GoesOn
    <3>1. SameRows
        BY <2>2, VerdictOnly DEF BringsMainIn
    <3>2. worker'.at = "read" /\ worker'.run = worker.run
        BY <2>2 DEF BringsMainIn, WorkType
    <3>3. MergedStays
        BY <2>2 DEF BringsMainIn, Pushes, MergedStays, PullType
    <3> QED BY <2>1, <2>2, <3>1, <3>2, <3>3, <1>g DEF BringsMainIn, InHand, AtWork
  <2>b. ASSUME NEW sha, MainBreaksIt(sha) PROVE GoesOn
    <3>1. SameRows
        BY <2>b, VerdictOnly DEF MainBreaksIt
    <3>2. worker'.at \in {"park", "read"} /\ worker'.run = worker.run
        BY <1>h, <1>k, <2>b DEF MainBreaksIt
    <3>3. MergedStays
        BY <2>b DEF MainBreaksIt, Pushes, MergedStays, PullType
    <3> QED BY <2>1, <2>b, <3>1, <3>2, <3>3, <1>g DEF MainBreaksIt, InHand, AtWork
  <2>3. CASE /\ ToPark(worker.reviewed, FALSE, FALSE)
             /\ UNCHANGED <<pull, local, ticket, run, sweep, said, judged>>
    BY <1>g, <1>h, <2>1, <2>3, NothingMoves DEF MergedStays, InHand, AtWork
  <2> QED BY <1>7, <2>2, <2>b, <2>3 DEF RefreshFromMain
<1>8. CASE AddressThreads \/ DeclineThreads
  <2>1. SameRows /\ sweep' = sweep
      BY <1>8, NothingMoves DEF AddressThreads, DeclineThreads
  <2>2. worker'.at = "read" /\ worker'.run = worker.run
      BY <1>8, <1>k DEF AddressThreads, DeclineThreads
  <2>3. MergedStays
      BY <1>8 DEF AddressThreads, DeclineThreads, MergedStays, PullType
  <2> QED BY <1>8, <2>1, <2>2, <2>3, <1>g DEF AddressThreads, DeclineThreads, Threads, Proceeds,
         At, InHand, AtWork
<1>9. CASE ReviewApproves \/ ReviewRejects
  <2>1. SameRows /\ pull' = pull /\ sweep' = sweep
      BY <1>9, VerdictOnly DEF ReviewApproves, ReviewRejects
  <2>2. worker'.at \in {"meanwhile", "park"} /\ worker'.run = worker.run
      BY <1>9, <1>h, <1>k DEF ReviewApproves, ReviewRejects
  <2>3. worker.at = "judge"
      BY <1>9 DEF ReviewApproves, ReviewRejects, Moved, Quiet, Proceeds, At
  <2> QED BY <2>1, <2>2, <2>3, <1>g DEF MergedStays, InHand, AtWork
<1>10. CASE ReviewFixesAgain
  <2>1. SameRows
    <3>1. ticket' = ticket
        BY <1>10 DEF ReviewFixesAgain
    <3> QED BY <1>10, <3>1, VerdictOnly DEF ReviewFixesAgain
  <2>2. worker'.at \in {"read", "park"} /\ worker'.run = worker.run
    <3>1. CASE worker' = [worker EXCEPT !.at = "read", !.saw = Blank,
                        !.reviewed = local', !.fixed = TRUE]
        BY <3>1 DEF WorkType
    <3> QED BY <1>10, <1>h, <3>1 DEF ReviewFixesAgain
  <2>3. MergedStays /\ sweep' = sweep
      BY <1>10 DEF ReviewFixesAgain, Pushes, MergedStays, PullType
  <2>4. worker.at = "judge"
      BY <1>10 DEF ReviewFixesAgain, Moved, Quiet, Proceeds, At
  <2> QED BY <2>1, <2>2, <2>3, <2>4, <1>g DEF InHand, AtWork
<1>e. ASSUME worker.at \in InHand \/ (worker.at = "dead" /\ ticket.active = Me),
             NEW outcome \in Outcomes \ {"none", "merged"},
             NEW status \in {"in_flight", "blocked_on_operator"},
             Ends(Me, outcome, status), worker' = Gone, sweep' = sweep, MergedStays
      PROVE  GivesUp
  <2>1. Me \in RunIds
      BY <1>e DEF Owned, InHand, AtWork
  <2>2. worker'.at = "none"
      BY <1>e DEF Gone
  <2> QED BY <1>e, <2>1, <2>2, EndsOne DEF GivesUp
<1>11. CASE Meanwhile
  <2>0. worker.at = "meanwhile" /\ sweep' = sweep /\ pull' = pull
      BY <1>11 DEF Meanwhile, At
  <2>1. CASE Rejects(Me) /\ worker' = Gone
    BY <1>e, <2>0, <2>1 DEF Rejects, Outcomes, InHand, AtWork, MergedStays
  <2>2. CASE pull.state = "merged" /\ Goes("landed") /\ UNCHANGED <<ticket, run>>
    BY <1>k, <2>0, <2>2, NothingMoves DEF GoesOn, Steps, MergedStays, InHand, AtWork
  <2>3. CASE ToPark(worker.reviewed, FALSE, FALSE) /\ UNCHANGED <<ticket, run>>
    BY <1>g, <1>h, <2>0, <2>3, NothingMoves DEF MergedStays, InHand, AtWork
  <2>4. CASE /\ worker' = [worker EXCEPT !.at = "decide", !.reviewed = local,
                                         !.approved = FALSE]
             /\ UNCHANGED <<ticket, run>>
    <3>1. worker'.at = "decide" /\ worker'.run = worker.run
        BY <2>4 DEF WorkType
    <3> QED BY <1>g, <2>0, <2>4, <3>1, NothingMoves DEF MergedStays, InHand, AtWork
  <2>5. pull.state \in States
      BY DEF PullType
  <2> QED BY <1>11, <2>1, <2>2, <2>3, <2>4, <2>5 DEF Meanwhile, States
<1>12. CASE CallMerge
  <2>0. worker.at = "merging" /\ sweep' = sweep /\ pull'.state = "merged"
      BY <1>12 DEF CallMerge, At, PullType
  <2>1. CASE Goes("landed") /\ UNCHANGED <<ticket, run>>
    BY <1>k, <2>0, <2>1, NothingMoves DEF GoesOn, Steps, MergedStays, InHand, AtWork
  <2>2. CASE Ends(Me, "failed", "in_flight") /\ worker' = Gone
    BY <1>e, <2>0, <2>2 DEF Outcomes, InHand, AtWork, MergedStays
  <2> QED BY <1>12, <2>1, <2>2 DEF CallMerge
<1>13. CASE Pause \/ SawClosed \/ Fail \/ SweepDead
  <2>1. CASE Pause
    <3>1. Me \in RunIds
        BY <2>1 DEF Owned, Pause, At
    <3>2. KeepsVerdicts
        BY <2>1 DEF Pause, KeepsVerdicts, EndRun, RunType
    <3>3. OnlyEnds(Me, "paused")
        BY <2>1, <3>1, <3>2 DEF Pause, OnlyEnds, EndRun, RunType
    <3>4. ticket'.active = NoRun /\ ticket'.last = Me /\ ticket'.status = "blocked_on_operator"
        BY <2>1 DEF Pause, Freed, TicketType
    <3> QED BY <2>1, <3>3, <3>4 DEF Pause, At, GivesUp, Gone, MergedStays, Outcomes, InHand,
       AtWork
  <2>2. CASE SawClosed
    BY <1>e, <2>2 DEF SawClosed, At, Rejects, Outcomes, InHand, AtWork, MergedStays
  <2>3. CASE Fail
    BY <1>e, <2>3 DEF Fail, FailRun, Outcomes, InHand, AtWork, MergedStays
  <2>4. CASE SweepDead
    <3>1. CASE ticket.active = Me
      BY <1>e, <2>4, <3>1 DEF SweepDead, At, Outcomes, InHand, AtWork, MergedStays
    <3>2. CASE ticket.active # Me
      BY <2>4, <3>2, NothingMoves DEF SweepDead, At, Buries, Gone
    <3> QED BY <3>1, <3>2
  <2> QED BY <1>13, <2>1, <2>2, <2>3, <2>4
<1>14. CASE RecordMerged
  <2>1. Me \in RunIds
      BY <1>14 DEF Owned, RecordMerged, At
  <2>2. OnlyEnds(Me, "merged") /\ ticket'.active = NoRun /\ ticket'.last = Me
        /\ ticket'.status = ticket.status
      BY <1>14, <2>1, EndsOne DEF RecordMerged
  <2> QED BY <1>14, <1>k, <2>2 DEF RecordMerged, Records, Steps, At
<1>15. CASE MirrorMerged
  BY <1>15 DEF MirrorMerged, Mirrors, Gone, TicketType
<1>16. CASE BlockTicket
  <2>1. worker'.at = "mark" /\ worker'.run = worker.run
      BY <1>16 DEF BlockTicket, WorkType
  <2> QED BY <1>16, <2>1 DEF BlockTicket, Blocks, Steps, At, TicketType
<1>17. CASE ReadMark
  <2>1. worker'.at = "parking" /\ worker'.run = worker.run
      BY <1>17 DEF ReadMark, WorkType
  <2> QED BY <1>17, <2>1, NothingMoves DEF ReadMark, Marks, Steps, At
<1>18. CASE Park
  <2>1. SameOutcomes
      BY <1>18 DEF Park, ParkedRow, SameOutcomes, RunType
  <2>2. KeepsVerdicts
      BY <1>18 DEF Park, ParkedRow, KeepsVerdicts, RunType
  <2> QED BY <1>18, <2>1, <2>2 DEF Park, Parks, Gone, TicketType
<1>19. CASE Crash
  <2>1. worker'.at = "dead" /\ worker'.run = worker.run
      BY <1>19 DEF Crash, WorkType
  <2> QED BY <1>19, <2>1, NothingMoves DEF Crash, Dies, Steps
<1> QED
  BY <1>1, <1>2, <1>3, <1>4, <1>5, <1>6, <1>7, <1>8, <1>9, <1>10, <1>11, <1>12, <1>13,
     <1>14, <1>15, <1>16, <1>17, <1>18, <1>19 DEF Working

\* A write to one run that keeps its outcome and its verdict keeps the rows.
LEMMA RowsKept ==
  ASSUME run \in [RunIds -> RunType], ticket' = ticket, NEW r,
         run' = [run EXCEPT ![r] = run'[r]],
         r \in RunIds => run'[r].outcome = run[r].outcome /\ run'[r].verdict = run[r].verdict
  PROVE  SameRows
BY DEF SameRows, SameTicket, SameOutcomes, KeepsVerdicts

\* Releasing a parked ticket ends its last run, which was live, as abandoned,
\* and no other.
LEMMA ReleasesOne ==
  ASSUME run \in [RunIds -> RunType], ticket \in TicketType,
         NEW rows \in [RunIds -> RunType], NEW approved, Releases(rows, approved),
         \A r \in RunIds : rows[r].outcome = run[r].outcome /\ rows[r].verdict = run[r].verdict
  PROVE  /\ ticket.last \in RunIds /\ Live(ticket.last)
         /\ ticket.active = NoRun /\ ticket.status = "blocked_on_operator"
         /\ OnlyEnds(ticket.last, "abandoned")
         /\ ticket'.active = NoRun /\ ticket'.last = ticket.last
         /\ ticket'.status = "ready"
<1>1. ticket.last \in RunIds /\ Live(ticket.last)
  BY DEF Releases, Waits, TicketType, RunIds, NoRun
<1>2. KeepsVerdicts
  BY DEF KeepsVerdicts, Releases, EndRun, RunType
<1>3. OnlyEnds(ticket.last, "abandoned")
  BY <1>1, <1>2 DEF OnlyEnds, Releases, EndRun, RunType
<1> QED BY <1>1, <1>3 DEF Releases, Blocked, TicketType

\* A step of a reconcile looks the pull request up, closes the parked run out,
\* restates what was asked or stands by.
LEMMA ReconcileEffects ==
  ASSUME TypeInv, NEW s \in Sweepers, Reconcile(s)
  PROVE  LooksUp \/ ClosesParked \/ Restates \/ StandsBy
<1>0. /\ pull \in PullType /\ ticket \in TicketType
      /\ run \in [RunIds -> RunType] /\ sweep \in [Sweepers -> SweepType]
    BY TypesOfParts DEF TypeInv
<1> USE <1>0
<1>r. ticket.last # NoRun => ticket.last \in RunIds
    BY DEF TicketType, RunIds, NoRun
<1>1. CASE ReadParked(s) \/ ReadFailed(s) \/ ReadCanceled(s)
  <2>1. ticket.active = NoRun /\ ticket.last # NoRun
      BY <1>1 DEF ReadParked, ReadFailed, ReadCanceled, Blocked, Waits
  <2>2. PICK step, sight : Asks(s, step, sight) /\ sight \in {Sight, Blank}
      BY <1>1 DEF ReadParked, ReadFailed, ReadCanceled
  <2>3. /\ sweep'[s].run = ticket.last /\ sweep'[s].saw = sight
        /\ \A i \in Sweepers \ {s} : sweep'[i] = sweep[i]
      BY <2>2 DEF Asks
  <2>4. sight.state = "merged" => pull.state = "merged"
      BY <2>2 DEF Sight, Blank
  <2>5. SameRows /\ worker' = worker /\ pull' = pull
      BY <2>2, NothingMoves DEF Asks
  <2> QED BY <2>1, <2>3, <2>4, <2>5 DEF LooksUp
<1>d. Drops(s) => SweepsForget
    BY DEF Drops, SweepsForget, Idle
<1>s. Settles(s) => SweepsForget /\ worker' = worker /\ pull' = pull
    BY <1>d DEF Settles
<1>q. ASSUME Settles(s), UNCHANGED <<ticket, run>> PROVE StandsBy
    BY <1>q, <1>s, NothingMoves DEF StandsBy, MergedStays
\* A run that still waits as it was read is ended.
<1>e. ASSUME NEW q \in RunIds, Live(q), q = ticket.last, Blocked,
             NEW outcome \in Outcomes \ {"none"}, NEW status, Ends(q, outcome, status),
             outcome = "merged" => status = "merged", status = "merged" => SawMerge,
             worker' = worker, pull' = pull, SweepsForget
      PROVE  ClosesParked
  <2>1. OnlyEnds(q, outcome) /\ ticket'.active = NoRun /\ ticket'.last = q /\ ticket'.status = status
      BY <1>e, EndsOne
  <2> QED BY <1>e, <2>1 DEF ClosesParked, Blocked
<1>2. CASE LandGithubMerge(s)
  <2>1. CASE StillParked(s)
    <3>1. SawMerge /\ sweep[s].run \in RunIds /\ Live(sweep[s].run) /\ sweep[s].run = ticket.last /\ Blocked
        BY <1>2, <1>r, <2>1 DEF LandGithubMerge, Holds, SawMerge, StillParked, Waits
    <3> QED BY <1>2, <1>e, <1>s, <2>1, <3>1 DEF LandGithubMerge, Outcomes
  <2> QED BY <1>2, <1>q, <2>1 DEF LandGithubMerge
<1>3. CASE NoteClosed(s)
  <2>0. /\ sweep' = [sweep EXCEPT ![s] = IF Holds(s, "canceled")
                                   THEN [@ EXCEPT !.saw = Blank] ELSE Idle]
        /\ worker' = worker /\ pull' = pull
      BY <1>3 DEF NoteClosed
  <2>1. SweepsForget
    <3>1. \A i \in Sweepers \ {s} : sweep'[i] = sweep[i]
        BY <2>0
    <3>2. CASE Holds(s, "canceled")
      <4>1. sweep'[s].run = sweep[s].run /\ sweep'[s].saw.state = "open" /\ sweep[s].at # "none"
          BY <2>0, <3>2 DEF Holds, SweepType, Blank
      <4> QED BY <3>1, <4>1 DEF SweepsForget
    <3>3. CASE ~Holds(s, "canceled")
      <4>1. sweep'[s].at = "none"
          BY <2>0, <3>3 DEF Idle
      <4> QED BY <3>1, <4>1 DEF SweepsForget
    <3> QED BY <3>2, <3>3
  <2>2. CASE StillParked(s)
    <3>1. sweep[s].run \in RunIds /\ Live(sweep[s].run) /\ sweep[s].run = ticket.last /\ Blocked
        BY <1>r, <2>2 DEF StillParked, Waits
    <3> QED BY <1>3, <1>e, <2>0, <2>1, <2>2, <3>1 DEF NoteClosed, Rejects, Outcomes
  <2>3. CASE ~StillParked(s)
    BY <1>3, <2>0, <2>1, <2>3, NothingMoves DEF NoteClosed, StandsBy, MergedStays
  <2> QED BY <2>2, <2>3
<1>4. CASE CloseCanceled(s)
  <2>1. CASE ticket.canceled /\ Blocked /\ Waits(ticket.last)
    BY <1>4, <1>e, <1>r, <1>s, <2>1 DEF CloseCanceled, Waits, Outcomes
  <2>2. CASE Blocked /\ ticket' = [ticket EXCEPT !.status = "abandoned"] /\ UNCHANGED run
    BY <1>4, <1>s, <2>2 DEF CloseCanceled, Restates, Blocked, SameOutcomes, KeepsVerdicts,
       TicketType
  <2>4. CASE UNCHANGED <<ticket, run>>
    BY <1>4, <1>q, <2>4 DEF CloseCanceled
  <2> QED BY <1>4, <2>1, <2>2, <2>4 DEF CloseCanceled
<1>5. CASE CloseFailed(s)
  <2>1. CASE sweep[s].saw.state = "merged" /\ StillFailed(s)
    <3>1. /\ ticket' = [ticket EXCEPT !.status = "merged"] /\ run' = run
          /\ ticket.active = NoRun /\ ticket.last = sweep[s].run
          /\ run[ticket.last].outcome # "merged" /\ sweep[s].at # "none"
        BY <1>5, <2>1 DEF CloseFailed, StillFailed, Holds
    <3>2. SawMerge
        BY <2>1, <3>1 DEF SawMerge
    <3> QED BY <1>5, <1>s, <3>1, <3>2 DEF CloseFailed, Restates, SameOutcomes, KeepsVerdicts,
       TicketType
  <2>2. CASE UNCHANGED <<ticket, run>>
    BY <1>5, <1>q, <2>2 DEF CloseFailed
  <2> QED BY <1>5, <2>1, <2>2 DEF CloseFailed
<1>6. CASE Rebabysit(s)
  <2> DEFINE q    == sweep[s].run
             rows == [Marked(s) EXCEPT ![q].carried = @ \/ Carries(s)]
  <2>0. Settles(s)
      BY <1>6 DEF Rebabysit
  <2>1. /\ Marked(s) \in [RunIds -> RunType]
        /\ \A r \in RunIds : /\ Marked(s)[r].outcome = run[r].outcome
                             /\ Marked(s)[r].verdict = run[r].verdict
    <3>1. sweep[s].news \in 0..NoMark
        BY PullAssumption DEF SweepType, NoMark
    <3>2. \A r \in RunIds : [run[r] EXCEPT !.seen = sweep[s].news] \in RunType
        BY <3>1 DEF RunType
    <3>3. Marked(s) = [run EXCEPT ![q] = [run[q] EXCEPT !.seen = sweep[s].news]]
        BY DEF Marked
    <3>4. Marked(s) \in [RunIds -> RunType]
      <4> HIDE DEF q
      <4> QED BY <3>2, <3>3, RowSet
    <3> QED BY <3>3, <3>4 DEF RunType
  <2>2. /\ rows \in [RunIds -> RunType]
        /\ \A r \in RunIds : rows[r].outcome = run[r].outcome /\ rows[r].verdict = run[r].verdict
    <3> DEFINE row == Marked(s)[q]
               new == [row EXCEPT !.carried = row.carried \/ Carries(s)]
    <3>1. (row.carried \/ Carries(s)) \in BOOLEAN
        OBVIOUS
    <3>2. q \in RunIds => new \in RunType /\ new.outcome = row.outcome /\ new.verdict = row.verdict
      <4> HIDE DEF q
      <4>1. row \in RunType \/ q \notin RunIds
          BY <2>1
      <4> HIDE DEF row
      <4> QED BY <4>1, <3>1 DEF RunType
    <3>3. rows = [Marked(s) EXCEPT ![q] = new]
        OBVIOUS
    <3> HIDE DEF rows, new
    <3> QED BY <2>1, <3>2, <3>3
  <2> HIDE DEF rows
  <2>3. CASE Releases(rows, FALSE)
    <3>1. SweepsForget /\ worker' = worker /\ pull' = pull
        BY <1>s, <2>0
    <3>2. /\ ticket.last \in RunIds /\ Live(ticket.last)
          /\ ticket.active = NoRun /\ ticket.status = "blocked_on_operator"
          /\ OnlyEnds(ticket.last, "abandoned")
          /\ ticket'.active = NoRun /\ ticket'.last = ticket.last
          /\ ticket'.status = "ready"
        BY <2>2, <2>3, ReleasesOne
    <3>3. "abandoned" \in Outcomes \ {"none"}
        BY DEF Outcomes
    <3> QED BY <3>1, <3>2, <3>3 DEF ClosesParked
  <2>4. CASE UNCHANGED <<ticket, run>>
    BY <1>q, <2>0, <2>4
  <2>5. CASE run' = Marked(s) /\ ticket' = ticket
    <3>1. SameRows
        BY <2>1, <2>5 DEF SameRows, SameTicket, SameOutcomes, KeepsVerdicts
    <3> QED BY <1>s, <2>0, <3>1 DEF StandsBy, MergedStays
  <2> QED BY <1>6, <2>3, <2>4, <2>5 DEF Rebabysit, rows
<1> QED BY <1>1, <1>2, <1>3, <1>4, <1>5, <1>6 DEF Reconcile

\* What a person or GitHub does closes the parked run out, restates what was
\* asked or stands by.
LEMMA OutsideEffects ==
  ASSUME TypeInv, Outside
  PROVE  ClosesParked \/ Restates \/ StandsBy
<1>0. /\ pull \in PullType /\ ticket \in TicketType /\ run \in [RunIds -> RunType]
    BY TypesOfParts DEF TypeInv
<1> USE <1>0
<1>s. sweep' = sweep => SweepsForget
    BY DEF SweepsForget
<1>t. Stays => SweepsForget /\ worker' = worker /\ pull' = pull
    BY <1>s DEF Stays
<1>1. CASE Approve \/ Babysit
  <2>1. PICK approved : Releases(run, approved)
      BY <1>1 DEF Approve, Babysit
  <2>2. SweepsForget /\ worker' = worker /\ pull' = pull
      BY <1>1, <1>t DEF Approve, Babysit
  <2> QED BY <2>1, <2>2, ReleasesOne DEF ClosesParked, Outcomes
<1>2. CASE Repoint
  <2>1. SameRows
    <3>1. run' = [run EXCEPT ![ticket.last].candidate = pull.head] /\ ticket' = ticket
        BY <1>2 DEF Repoint
    <3>2. SameOutcomes
        BY <3>1 DEF SameOutcomes, RunType
    <3>3. KeepsVerdicts
        BY <3>1 DEF KeepsVerdicts, RunType
    <3> QED BY <3>1, <3>2, <3>3 DEF SameRows, SameTicket
  <2> QED BY <1>2, <1>t, <2>1 DEF Repoint, StandsBy, MergedStays
<1>3. CASE Requeue
  <2>1. /\ run' = [run EXCEPT ![ticket.last].approvedAt = FALSE]
        /\ ticket' = [ticket EXCEPT !.status = "ready"]
        /\ ticket.active = NoRun /\ ticket.last # NoRun
        /\ run[ticket.last].outcome # "merged"
      BY <1>3 DEF Requeue
  <2>2. SameOutcomes
      BY <2>1 DEF SameOutcomes, RunType
  <2>3. KeepsVerdicts
      BY <2>1 DEF KeepsVerdicts, RunType
  <2> QED BY <1>3, <1>t, <2>1, <2>2, <2>3 DEF Requeue, Restates, TicketType
<1>4. CASE ResumePaused
  <2>1. SameOutcomes /\ KeepsVerdicts
      BY <1>4 DEF ResumePaused, SameOutcomes, KeepsVerdicts
  <2> QED BY <1>4, <1>t, <2>1 DEF ResumePaused, Restates, TicketType, Blocked
<1>5. CASE CancelOnBoard
  <2>1. SameRows
      BY <1>5 DEF CancelOnBoard, SameRows, SameTicket, SameOutcomes, KeepsVerdicts, TicketType
  <2> QED BY <1>5, <1>t, <2>1 DEF CancelOnBoard, StandsBy, MergedStays
<1>6. CASE SomeoneComments \/ SomeonePushes \/ SomeoneMerges \/ SomeoneCloses
  <2>1. UNCHANGED <<local, ticket, run, worker, sweep, said, judged>>
      BY <1>6 DEF SomeoneComments, SomeonePushes, SomeoneMerges, SomeoneCloses, OnGitHub
  <2>2. pull.state = "open"
      BY <1>6 DEF SomeoneComments, SomeonePushes, SomeoneMerges, SomeoneCloses, OnGitHub
  <2> QED BY <1>s, <2>1, <2>2, NothingMoves DEF StandsBy, MergedStays
<1> QED BY <1>1, <1>2, <1>3, <1>4, <1>5, <1>6 DEF Outside

-----------------------------------------------------------------------------
(***************************************************************************)
(* The invariant, and each effect on it.                                   *)
(***************************************************************************)
\* A worker's run holds the ticket while the worker acts on it, with the
\* ticket's status the one its place calls for.
HoldsOn ==
  /\ Owned
  /\ worker.at \in AtWork \ {"mirror"} => ticket.active = Me /\ Live(Me)
  /\ worker.at \in InHand => ticket.status = "in_flight"
  /\ worker.at \in {"mark", "parking"} => ticket.status = "blocked_on_operator"
  /\ worker.at = "mirror" => run[Me].outcome = "merged"

\* A lease column names a run that was claimed.
Named == /\ ticket.active # NoRun => ticket.active \in RunIds /\ Claimed(ticket.active)
         /\ ticket.last # NoRun => ticket.last \in RunIds /\ Claimed(ticket.last)

\* A run that ended merged is the ticket's last, and nothing follows it.
MergedLast == \A r \in RunIds : run[r].outcome = "merged" =>
  /\ pull.state = "merged" /\ ticket.active = NoRun /\ ticket.last = r
  /\ ticket.status \in {"in_flight", "merged"}

\* What the worker has seen merged is merged.
SeesTrue ==
  At("landed") \/ (At("judge") /\ worker.saw.state = "merged") => pull.state = "merged"

\* A pass asks after a run that is not at work, and while that run is still the
\* ticket's newest, what the pass has seen merged is merged.
AsksTrue == \A s \in Sweepers : sweep[s].at # "none" =>
  /\ sweep[s].run \in RunIds /\ Claimed(sweep[s].run) /\ sweep[s].run # ticket.active
  /\ sweep[s].saw.state = "merged" /\ ticket.active = NoRun /\ ticket.last = sweep[s].run
       => pull.state = "merged"

PullInv == /\ TypeInv
           /\ HoldsOn /\ Named /\ MergedLast /\ SeesTrue /\ AsksTrue
           /\ ticket.status = "merged" => pull.state = "merged"

\* The invariant holds before the first claim.
LEMMA PullStart == Init => PullInv
<1> SUFFICES ASSUME Init PROVE PullInv
    OBVIOUS
<1>1. TypeInv
    BY TypeStart
<1>2. /\ worker.at = "read" /\ Me = 1 /\ 1 \in RunIds
      /\ ticket.status = "in_flight" /\ ticket.active = 1 /\ ticket.last = NoRun
      /\ \A r \in RunIds : run[r].outcome = IF r = 1 THEN "none" ELSE "unclaimed"
      /\ \A s \in Sweepers : sweep[s].at = "none"
    BY PullAssumption DEF Init, Me, Gone, RunIds, Idle, NewRun
<1>3. HoldsOn /\ Named /\ MergedLast /\ SeesTrue /\ AsksTrue
    BY <1>2 DEF HoldsOn, Owned, Live, Named, Claimed, MergedLast, SeesTrue, AsksTrue, At,
       InHand, AtWork
<1> QED BY <1>1, <1>2, <1>3 DEF PullInv

\* The parts of TypeInv that are no types.
LEMMA BegunKept ==
  ASSUME TypeInv, TypeOK',
         \/ Claims
         \/ KeepsVerdicts /\ (\A r \in RunIds : Claimed(r) => run'[r].outcome # "unclaimed")
            /\ (worker'.at = "resume" => worker.at = "resume" /\ worker'.run = worker.run)
  PROVE  Begun'
<1>0. 1 \in RunIds
    BY PullAssumption DEF RunIds
<1>1. CASE Claims
    BY <1>0, <1>1 DEF Claims, TypeInv, Begun, Claimed, At, Me, RunIds
<1>2. CASE ~Claims
    BY <1>0, <1>2 DEF TypeInv, Begun, Claimed, KeepsVerdicts, Me
<1> QED BY <1>1, <1>2

\* Each of the named effects keeps every conjunct of the invariant.
LEMMA EffectsKeep ==
  ASSUME PullInv,
         \/ Claims \/ Reopens \/ GoesOn \/ Dies \/ GivesUp \/ Records \/ Mirrors
         \/ Blocks \/ Marks \/ Parks \/ Buries
         \/ LooksUp \/ ClosesParked \/ Restates \/ StandsBy
  PROVE  /\ HoldsOn' /\ Named' /\ MergedLast' /\ SeesTrue' /\ AsksTrue'
         /\ (ticket.status = "merged" => pull.state = "merged")'
<1> USE DEF PullInv
<1>0. NoRun \notin RunIds
    BY PullAssumption DEF RunIds, NoRun
<1> USE <1>0
<1>1. CASE Claims
  <2>1. HoldsOn'
      BY <1>1 DEF HoldsOn, Owned, Me, Live, Claims
  <2>2. Named'
      BY <1>1 DEF Named, Claimed, Claims
  <2>3. MergedLast'
      BY <1>1 DEF MergedLast, Claims
  <2>4. SeesTrue'
      BY <1>1 DEF SeesTrue, At, Claims
  <2>5. AsksTrue'
      BY <1>1 DEF AsksTrue, Named, Claimed, Claims
  <2>6. (ticket.status = "merged" => pull.state = "merged")'
      BY <1>1 DEF Claims
  <2> QED BY <2>1, <2>2, <2>3, <2>4, <2>5, <2>6
<1>2. CASE Reopens
  <2>1. HoldsOn'
      BY <1>2 DEF HoldsOn, Owned, Me, Live, InHand, AtWork, Reopens, Steps, SameRows,
         SameTicket, SameOutcomes
  <2>2. Named'
      BY <1>2 DEF Named, Claimed, Reopens, SameRows, SameTicket, SameOutcomes
  <2>3. MergedLast'
      BY <1>2 DEF MergedLast, HoldsOn, Owned, AtWork, Reopens, Steps, SameRows, SameOutcomes
  <2>4. SeesTrue'
      BY <1>2 DEF SeesTrue, At, Reopens, Steps
  <2>5. AsksTrue'
      BY <1>2 DEF AsksTrue, HoldsOn, Owned, Named, Claimed, AtWork, Reopens, Steps, SameRows,
         SameTicket, SameOutcomes
  <2>6. (ticket.status = "merged" => pull.state = "merged")'
      BY <1>2 DEF HoldsOn, InHand, AtWork, Reopens, Steps, SameRows, SameTicket
  <2> QED BY <2>1, <2>2, <2>3, <2>4, <2>5, <2>6
<1>3. CASE GoesOn
  <2>1. HoldsOn'
      BY <1>3 DEF HoldsOn, Owned, Me, Live, InHand, AtWork, GoesOn, Steps, SameRows,
         SameTicket, SameOutcomes
  <2>2. Named'
      BY <1>3 DEF Named, Claimed, GoesOn, SameRows, SameTicket, SameOutcomes
  <2>3. MergedLast'
      BY <1>3 DEF MergedLast, GoesOn, SameRows, SameTicket, SameOutcomes, MergedStays
  <2>4. SeesTrue'
      BY <1>3 DEF SeesTrue, At, GoesOn, MergedStays
  <2>5. AsksTrue'
      BY <1>3 DEF AsksTrue, Named, Claimed, GoesOn, Steps, SameRows, SameTicket,
         SameOutcomes, MergedStays
  <2>6. (ticket.status = "merged" => pull.state = "merged")'
      BY <1>3 DEF GoesOn, SameRows, SameTicket, MergedStays
  <2> QED BY <2>1, <2>2, <2>3, <2>4, <2>5, <2>6
<1>4. CASE Dies
  <2>1. HoldsOn'
      BY <1>4 DEF HoldsOn, Owned, Me, InHand, AtWork, Dies, Steps
  <2>2. Named'
      BY <1>4 DEF Named, Claimed, Dies, SameRows, SameTicket, SameOutcomes
  <2>3. MergedLast'
      BY <1>4 DEF MergedLast, Dies, SameRows, SameTicket, SameOutcomes
  <2>4. SeesTrue'
      BY <1>4 DEF SeesTrue, At, Dies, Steps
  <2>5. AsksTrue'
      BY <1>4 DEF AsksTrue, Named, Claimed, Dies, Steps, SameRows, SameTicket, SameOutcomes
  <2>6. (ticket.status = "merged" => pull.state = "merged")'
      BY <1>4 DEF Dies, SameRows, SameTicket
  <2> QED BY <2>1, <2>2, <2>3, <2>4, <2>5, <2>6
<1>5. CASE GivesUp
  <2>1. HoldsOn'
      BY <1>5 DEF HoldsOn, Owned, InHand, AtWork, GivesUp
  <2>2. Named'
      BY <1>5 DEF Named, HoldsOn, Claimed, InHand, Outcomes, GivesUp, OnlyEnds
  <2>3. MergedLast'
      BY <1>5 DEF MergedLast, HoldsOn, Owned, InHand, AtWork, GivesUp, OnlyEnds
  <2>4. SeesTrue'
      BY <1>5 DEF SeesTrue, At, GivesUp
  <2>5. AsksTrue'
      BY <1>5 DEF AsksTrue, HoldsOn, Named, Claimed, InHand, GivesUp, OnlyEnds
  <2>6. (ticket.status = "merged" => pull.state = "merged")'
      BY <1>5 DEF GivesUp
  <2> QED BY <2>1, <2>2, <2>3, <2>4, <2>5, <2>6
<1>6. CASE Records
  <2>1. HoldsOn'
      BY <1>6 DEF HoldsOn, Owned, Me, InHand, Records, Steps, OnlyEnds
  <2>2. Named'
      BY <1>6 DEF Named, HoldsOn, Claimed, AtWork, Records, Steps, OnlyEnds
  <2>3. MergedLast'
      BY <1>6 DEF MergedLast, HoldsOn, Owned, At, InHand, AtWork, SeesTrue, Records, Steps,
         OnlyEnds
  <2>4. SeesTrue'
      BY <1>6 DEF SeesTrue, At, Records, Steps
  <2>5. AsksTrue'
      BY <1>6 DEF AsksTrue, HoldsOn, Named, Claimed, AtWork, Records, Steps, OnlyEnds
  <2>6. (ticket.status = "merged" => pull.state = "merged")'
      BY <1>6 DEF Records
  <2> QED BY <2>1, <2>2, <2>3, <2>4, <2>5, <2>6
<1>7. CASE Mirrors
  <2>1. HoldsOn'
      BY <1>7 DEF HoldsOn, Owned, InHand, AtWork, Mirrors
  <2>2. Named'
      BY <1>7 DEF Named, Claimed, Mirrors
  <2>3. MergedLast'
      BY <1>7 DEF MergedLast, Mirrors
  <2>4. SeesTrue'
      BY <1>7 DEF SeesTrue, At, Mirrors
  <2>5. AsksTrue'
      BY <1>7 DEF AsksTrue, Named, Claimed, Mirrors
  <2>6. (ticket.status = "merged" => pull.state = "merged")'
      BY <1>7 DEF HoldsOn, Owned, At, MergedLast, Mirrors
  <2> QED BY <2>1, <2>2, <2>3, <2>4, <2>5, <2>6
<1>8. CASE Blocks
  <2>1. HoldsOn'
      BY <1>8 DEF HoldsOn, Owned, Me, Live, InHand, AtWork, Blocks, Steps
  <2>2. Named'
      BY <1>8 DEF Named, Claimed, Blocks
  <2>3. MergedLast'
      BY <1>8 DEF MergedLast, HoldsOn, Owned, AtWork, Blocks, Steps
  <2>4. SeesTrue'
      BY <1>8 DEF SeesTrue, At, Blocks, Steps
  <2>5. AsksTrue'
      BY <1>8 DEF AsksTrue, Named, Claimed, Blocks, Steps
  <2>6. (ticket.status = "merged" => pull.state = "merged")'
      BY <1>8 DEF Blocks
  <2> QED BY <2>1, <2>2, <2>3, <2>4, <2>5, <2>6
<1>9. CASE Marks
  <2>1. HoldsOn'
      BY <1>9 DEF HoldsOn, Owned, Me, Live, InHand, AtWork, Marks, Steps, SameRows,
         SameTicket, SameOutcomes
  <2>2. Named'
      BY <1>9 DEF Named, Claimed, Marks, SameRows, SameTicket, SameOutcomes
  <2>3. MergedLast'
      BY <1>9 DEF MergedLast, Marks, SameRows, SameTicket, SameOutcomes
  <2>4. SeesTrue'
      BY <1>9 DEF SeesTrue, At, Marks, Steps
  <2>5. AsksTrue'
      BY <1>9 DEF AsksTrue, Named, Claimed, Marks, Steps, SameRows, SameTicket, SameOutcomes
  <2>6. (ticket.status = "merged" => pull.state = "merged")'
      BY <1>9 DEF Marks, SameRows, SameTicket
  <2> QED BY <2>1, <2>2, <2>3, <2>4, <2>5, <2>6
<1>10. CASE Parks
  <2>1. HoldsOn'
      BY <1>10 DEF HoldsOn, Owned, InHand, AtWork, Parks
  <2>2. Named'
      BY <1>10 DEF Named, HoldsOn, Claimed, At, AtWork, Parks, SameOutcomes
  <2>3. MergedLast'
      BY <1>10 DEF MergedLast, HoldsOn, At, Parks, SameOutcomes
  <2>4. SeesTrue'
      BY <1>10 DEF SeesTrue, At, Parks
  <2>5. AsksTrue'
      BY <1>10 DEF AsksTrue, HoldsOn, Named, Claimed, At, AtWork, Parks, SameOutcomes
  <2>6. (ticket.status = "merged" => pull.state = "merged")'
      BY <1>10 DEF Parks
  <2> QED BY <2>1, <2>2, <2>3, <2>4, <2>5, <2>6
<1>11. CASE Buries
  <2>1. HoldsOn'
      BY <1>11 DEF HoldsOn, Owned, InHand, AtWork, Buries
  <2>2. Named'
      BY <1>11 DEF Named, Claimed, Buries, SameRows, SameTicket, SameOutcomes
  <2>3. MergedLast'
      BY <1>11 DEF MergedLast, Buries, SameRows, SameTicket, SameOutcomes
  <2>4. SeesTrue'
      BY <1>11 DEF SeesTrue, At, Buries
  <2>5. AsksTrue'
      BY <1>11 DEF AsksTrue, Named, Claimed, Buries, SameRows, SameTicket, SameOutcomes
  <2>6. (ticket.status = "merged" => pull.state = "merged")'
      BY <1>11 DEF Buries, SameRows, SameTicket
  <2> QED BY <2>1, <2>2, <2>3, <2>4, <2>5, <2>6
<1>12. CASE LooksUp
  <2>1. HoldsOn'
      BY <1>12 DEF HoldsOn, Owned, Me, AtWork, LooksUp, SameRows, SameTicket, SameOutcomes
  <2>2. Named'
      BY <1>12 DEF Named, Claimed, LooksUp, SameRows, SameTicket, SameOutcomes
  <2>3. MergedLast'
      BY <1>12 DEF MergedLast, LooksUp, SameRows, SameTicket, SameOutcomes
  <2>4. SeesTrue'
      BY <1>12 DEF SeesTrue, At, LooksUp
  <2>5. AsksTrue'
      BY <1>12 DEF AsksTrue, Named, Claimed, LooksUp, SameRows, SameTicket, SameOutcomes
  <2>6. (ticket.status = "merged" => pull.state = "merged")'
      BY <1>12 DEF LooksUp, SameRows, SameTicket
  <2> QED BY <2>1, <2>2, <2>3, <2>4, <2>5, <2>6
<1>13. CASE ClosesParked
  <2>1. HoldsOn'
      BY <1>13 DEF HoldsOn, Owned, Me, AtWork, MergedLast, ClosesParked
  <2>2. Named'
      BY <1>13 DEF Named, Claimed, Outcomes, ClosesParked, OnlyEnds
  <2>3. MergedLast'
      BY <1>13 DEF MergedLast, AsksTrue, ClosesParked, OnlyEnds, SawMerge
  <2>4. SeesTrue'
      BY <1>13 DEF SeesTrue, At, ClosesParked
  <2>5. AsksTrue'
      BY <1>13 DEF AsksTrue, Named, Claimed, Outcomes, ClosesParked, OnlyEnds, SweepsForget
  <2>6. (ticket.status = "merged" => pull.state = "merged")'
      BY <1>13 DEF AsksTrue, ClosesParked, SawMerge
  <2> QED BY <2>1, <2>2, <2>3, <2>4, <2>5, <2>6
<1>14. CASE Restates
  <2>1. HoldsOn'
      BY <1>14 DEF HoldsOn, Owned, Me, InHand, AtWork, Restates, SameOutcomes
  <2>2. Named'
      BY <1>14 DEF Named, Claimed, Restates, SameOutcomes
  <2>3. MergedLast'
      BY <1>14 DEF MergedLast, Restates, SameOutcomes
  <2>4. SeesTrue'
      BY <1>14 DEF SeesTrue, At, Restates
  <2>5. AsksTrue'
      BY <1>14 DEF AsksTrue, Named, Claimed, Restates, SameOutcomes, SweepsForget
  <2>6. (ticket.status = "merged" => pull.state = "merged")'
      BY <1>14 DEF AsksTrue, Restates, SawMerge
  <2> QED BY <2>1, <2>2, <2>3, <2>4, <2>5, <2>6
<1>15. CASE StandsBy
  <2>1. HoldsOn'
      BY <1>15 DEF HoldsOn, Owned, Me, Live, AtWork, StandsBy, SameRows, SameTicket,
         SameOutcomes
  <2>2. Named'
      BY <1>15 DEF Named, Claimed, StandsBy, SameRows, SameTicket, SameOutcomes
  <2>3. MergedLast'
      BY <1>15 DEF MergedLast, StandsBy, SameRows, SameTicket, SameOutcomes, MergedStays
  <2>4. SeesTrue'
      BY <1>15 DEF SeesTrue, At, StandsBy, MergedStays
  <2>5. AsksTrue'
      BY <1>15 DEF AsksTrue, Named, Claimed, StandsBy, SameRows, SameTicket, SameOutcomes,
         MergedStays, SweepsForget
  <2>6. (ticket.status = "merged" => pull.state = "merged")'
      BY <1>15 DEF StandsBy, SameRows, SameTicket, MergedStays
  <2> QED BY <2>1, <2>2, <2>3, <2>4, <2>5, <2>6
<1> QED BY <1>1, <1>2, <1>3, <1>4, <1>5, <1>6, <1>7, <1>8, <1>9, <1>10, <1>11, <1>12,
           <1>13, <1>14, <1>15

\* Every step has one of the effects.
LEMMA EffectOfStep ==
  ASSUME PullInv, TypeOK', [Next]_vars
  PROVE  \/ Claims \/ Reopens \/ GoesOn \/ Dies \/ GivesUp \/ Records \/ Mirrors
         \/ Blocks \/ Marks \/ Parks \/ Buries
         \/ LooksUp \/ ClosesParked \/ Restates \/ StandsBy
<1>1. TypeInv /\ Owned
    BY DEF PullInv, HoldsOn
<1>2. CASE Claim \/ Working \/ Pause \/ Crash \/ SweepDead
    BY <1>1, <1>2, WorkerEffects
<1>3. CASE Outside
    BY <1>1, <1>3, OutsideEffects
<1>4. CASE \E s \in Sweepers : Reconcile(s)
    BY <1>1, <1>4, ReconcileEffects
<1>5. CASE UNCHANGED vars
    BY <1>5, NothingMoves DEF vars, StandsBy, MergedStays, SweepsForget
<1> QED BY <1>2, <1>3, <1>4, <1>5 DEF Next

\* Every step keeps the invariant.
LEMMA PullStep == PullInv /\ [Next]_vars => PullInv'
<1> SUFFICES ASSUME PullInv, [Next]_vars PROVE PullInv'
    OBVIOUS
<1>1. TypeInv /\ Owned
    BY DEF PullInv, HoldsOn
<1>2. TypeOK'
    BY <1>1, TypeStep
<1>3. \/ Claims \/ Reopens \/ GoesOn \/ Dies \/ GivesUp \/ Records \/ Mirrors
      \/ Blocks \/ Marks \/ Parks \/ Buries
      \/ LooksUp \/ ClosesParked \/ Restates \/ StandsBy
    BY <1>2, EffectOfStep
<1>4. Begun'
  <2>1. CASE Claims
    BY <1>1, <1>2, <2>1, BegunKept
  <2>2. CASE ~Claims
    <3>1. /\ KeepsVerdicts
          /\ \A r \in RunIds : Claimed(r) => run'[r].outcome # "unclaimed"
        BY <1>3, <2>2 DEF Reopens, GoesOn, Dies, GivesUp, Records, Mirrors, Blocks, Marks,
           Parks,
           Buries, LooksUp, ClosesParked, Restates, StandsBy, SameRows, SameOutcomes, OnlyEnds,
           KeepsVerdicts, Claimed, Outcomes
    <3>2. worker'.at = "resume" => worker.at = "resume" /\ worker'.run = worker.run
        BY <1>3, <2>2 DEF Reopens, GoesOn, Dies, GivesUp, Records, Mirrors, Blocks, Marks,
           Parks,
           Buries, LooksUp, ClosesParked, Restates, StandsBy, Steps, InHand, AtWork
    <3> QED BY <1>1, <1>2, <3>1, <3>2, BegunKept
  <2> QED BY <2>1, <2>2
<1>5. TypeInv'
    BY <1>2, <1>4 DEF TypeInv
<1> QED BY <1>3, <1>5, EffectsKeep DEF PullInv

\* Every column, local of a worker and answer of GitHub a pass holds keeps its
\* type, for any commits, runs and passes.
THEOREM PullTyped == Spec => []TypeOK
<1>1. PullInv => TypeOK
    BY DEF PullInv, TypeInv
<1> QED BY <1>1, PullStart, PullStep, PTL DEF Spec

\* The inductive invariant: who holds the ticket, which run ended merged, and
\* what was read of the pull request and is still to be acted on.
THEOREM PullInvariant == Spec => []PullInv
BY PullStart, PullStep, PTL DEF Spec

\* No pass, command or board takes the run of a live worker from it, or closes
\* its ticket.
THEOREM WorkLeftAlone == Spec => []WorkIsLeftAlone
<1>1. PullInv => WorkIsLeftAlone
    BY DEF PullInv, HoldsOn, InHand, AtWork, WorkIsLeftAlone, Closed
<1> QED BY <1>1, PullInvariant, PTL

\* A ticket or run that reads merged has its pull request merged, however
\* stale the answer it was written on.
THEOREM MergedIsLanded == Spec => []MergedMeansLanded
<1>1. PullInv => MergedMeansLanded
    BY DEF PullInv, MergedLast, MergedMeansLanded
<1> QED BY <1>1, PullInvariant, PTL

-----------------------------------------------------------------------------
(***************************************************************************)
(* The ticket's lease: each effect grants it, gives it back or leaves it.  *)
(***************************************************************************)
\* The lease's columns are read off the ticket and off which runs are claimed.
SameLease == /\ ticket'.active = ticket.active /\ ticket'.last = ticket.last
             /\ \A r \in RunIds : Claimed(r)' <=> Claimed(r)

\* A step that leaves those alone is none of the lease's.
LEMMA LeaseStays == ASSUME SameLease PROVE UNCHANGED Lease!vars
<1>1. [r \in RunIds |-> IF Claimed(r) THEN 1 ELSE 0]'
        = [r \in RunIds |-> IF Claimed(r) THEN 1 ELSE 0]
    BY DEF SameLease
<1> QED BY <1>1 DEF SameLease, Lease!vars

\* A claim grants the lease, which nobody holds, to a run that never had it.
LEMMA GrantMaps == ASSUME Claims PROVE Lease!Next
<1>1. PICK r \in RunIds :
        /\ ~Claimed(r) /\ ticket.active = NoRun
        /\ ticket'.active = r /\ ticket'.last = ticket.last
        /\ run'[r].outcome = "none"
        /\ \A i \in RunIds \ {r} : run'[i] = run[i]
    BY DEF Claims
<1>2. \A i \in RunIds : Claimed(i)' <=> i = r \/ Claimed(i)
    BY <1>1 DEF Claimed
<1>3. [i \in RunIds |-> IF Claimed(i) THEN 1 ELSE 0]'
        = [[i \in RunIds |-> IF Claimed(i) THEN 1 ELSE 0] EXCEPT ![r] = 1]
    BY <1>2
<1>4. [t \in {1} |-> ticket.active]' = [[t \in {1} |-> ticket.active] EXCEPT ![1] = r]
    BY <1>1
<1>5. UNCHANGED [t \in {1} |-> ticket.last]
    BY <1>1
<1>6. Lease!Grant(1, r)
    BY <1>1, <1>3, <1>4, <1>5 DEF Lease!Grant
<1> QED BY <1>6 DEF Lease!Next

\* The worker's run gives back the lease it holds, and is the last that held it.
LEMMA GiveBackMaps ==
  ASSUME Me \in RunIds, ticket.active = Me, ticket'.active = NoRun, ticket'.last = Me,
         \A r \in RunIds : Claimed(r)' <=> Claimed(r)
  PROVE  Lease!Next
<1>1. Me # NoRun
    BY PullAssumption DEF RunIds, NoRun
<1>2. [r \in RunIds |-> IF Claimed(r) THEN 1 ELSE 0]'
        = [r \in RunIds |-> IF Claimed(r) THEN 1 ELSE 0]
    OBVIOUS
<1>3. [t \in {1} |-> ticket.active]' = [[t \in {1} |-> ticket.active] EXCEPT ![1] = NoRun]
    OBVIOUS
<1>4. [t \in {1} |-> ticket.last]' = [[t \in {1} |-> ticket.last] EXCEPT ![1] = Me]
    OBVIOUS
<1>5. Lease!GiveBack(1)
    BY <1>1, <1>2, <1>3, <1>4 DEF Lease!GiveBack
<1> QED BY <1>5 DEF Lease!Next

\* A run that was claimed stays claimed, and the others are as they were.
LEMMA EndedStaysClaimed ==
  ASSUME NEW r \in RunIds, Claimed(r),
         NEW outcome \in Outcomes, OnlyEnds(r, outcome)
  PROVE  \A i \in RunIds : Claimed(i)' <=> Claimed(i)
BY DEF OnlyEnds, Claimed, Outcomes

\* Under any commits, events and passes, the pull request's runs hand the ticket on
\* as the store's lease promises: late passes, approvals and sweeps included.
THEOREM LeaseHandedOn == Spec => LeaseIsKept
<1>1. PullInv /\ PullInv' /\ [Next]_vars => [Lease!Next]_(Lease!vars)
  <2> SUFFICES ASSUME PullInv, PullInv', [Next]_vars
               PROVE  Lease!Next \/ UNCHANGED Lease!vars
    OBVIOUS
  <2>1. TypeOK'
    BY DEF PullInv, TypeInv
  <2>2. CASE Claims
    BY <2>2, GrantMaps
  <2>3. CASE GivesUp \/ Records \/ Parks
    <3>1. Me \in RunIds /\ ticket.active = Me
      <4>1. \/ worker.at \in AtWork \ {"mirror"}
            \/ worker.at = "dead" /\ ticket.active = Me
        BY <2>3 DEF GivesUp, Records, Parks, Steps, InHand, AtWork, At
      <4> QED BY <4>1 DEF PullInv, HoldsOn, Owned, AtWork
    <3>2. Claimed(Me)
      BY <3>1, PullAssumption DEF PullInv, Named, RunIds, NoRun
    <3>3. \A r \in RunIds : Claimed(r)' <=> Claimed(r)
      BY <2>3, <3>1, <3>2, EndedStaysClaimed DEF GivesUp, Records, Parks, SameOutcomes, Claimed,
         Outcomes
    <3>4. ticket'.active = NoRun /\ ticket'.last = Me
      BY <2>3 DEF GivesUp, Records, Parks
    <3> QED BY <3>1, <3>3, <3>4, GiveBackMaps
  <2>4. CASE ClosesParked
    <3>1. \A r \in RunIds : Claimed(r)' <=> Claimed(r)
      BY <2>4, EndedStaysClaimed DEF ClosesParked, Claimed, Live
    <3>2. SameLease
      BY <2>4, <3>1 DEF SameLease, ClosesParked
    <3> QED BY <3>2, LeaseStays
  <2>5. CASE Restates \/ Mirrors \/ Blocks
    <3>1. SameLease
      BY <2>5 DEF Restates, Mirrors, Blocks, SameLease, SameOutcomes, Claimed
    <3> QED BY <3>1, LeaseStays
  <2>6. CASE Reopens \/ GoesOn \/ Dies \/ Marks \/ Buries \/ LooksUp \/ StandsBy
    <3>1. SameTicket /\ SameOutcomes
      BY <2>6 DEF Reopens, GoesOn, Dies, Marks, Buries, LooksUp, StandsBy, SameRows
    <3>2. SameLease
      BY <3>1 DEF SameLease, SameTicket, SameOutcomes, Claimed
    <3> QED BY <3>2, LeaseStays
  <2> QED BY <2>1, <2>2, <2>3, <2>4, <2>5, <2>6, EffectOfStep
<1> QED BY <1>1, PullInvariant, PTL DEF Spec, LeaseIsKept
================================================================================
