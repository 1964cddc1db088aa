----------------------------- MODULE PullRequests -----------------------------
(***************************************************************************)
(* [merge] mode = "pr": one ticket's candidate on its pull request.  The    *)
(* run's worker babysits it: it reads GitHub, answers threads, brings main  *)
(* in, has its own fixes reviewed, then merges through the API or parks for *)
(* an operator.  While the run is parked the reconcile passes of the pool   *)
(* and of the host read the same pull request; people push to it, comment,  *)
(* merge it and close it; the operator approves, sends back and re-points.  *)
(* A network read and the transaction that acts on it are two actions.      *)
(*                                                                         *)
(* A sha is the set of the commits its branch holds: it is an ancestor of   *)
(* another when it is a subset.  {} is no sha.                              *)
(***************************************************************************)
EXTENDS Naturals, FiniteSets

CONSTANTS
  Commits,       \* commits with a change in them
  MainCommits,   \* clean merges of main: the diff to main stays what it was
  MaxRuns,       \* runs the ticket may be claimed for
  MaxNews,       \* threads and comments other people write
  Sweepers,      \* processes that run the reconcile pass
  AutoApprove,   \* [merge] approve = "auto"
  ReviewFixes,   \* [merge] review_fixes
  Events         \* what may happen from outside, of EventKinds

VARIABLES
  pull,     \* the pull request, as GitHub has it
  local,    \* the head of the branch in the run's worktree
  ticket,   \* the ticket's row
  run,      \* the rows of runs
  worker,   \* the worker's step, and what it carries in its locals
  sweep,    \* what each reconcile pass has read and not acted on
  said,     \* shas a human said merge on
  judged    \* shas an independent review approved

vars == <<pull, local, ticket, run, worker, sweep, said, judged>>

NoRun   == 0
NoMark  == MaxNews + 1
NoSha   == {}
RunIds  == 1..MaxRuns
Shas    == SUBSET (Commits \cup MainCommits)

EventKinds == {"push", "thread", "merge", "close", "cancel", "pause", "repoint",
               "requeue", "crash", "lost", "conflict", "unread"}

ASSUME PullAssumption ==
  /\ MaxRuns \in Nat \ {0} /\ MaxNews \in Nat
  /\ Commits # {}
  /\ Commits \cap MainCommits = {}
  /\ AutoApprove \in BOOLEAN /\ ReviewFixes \in BOOLEAN
  /\ Events \subseteq EventKinds

\* What an approval or a review is of: _diff_identity() is the same across a
\* clean merge of main.
Content(sha)  == sha \ MainCommits
SameAsOne(sha, shas) == \E s \in shas : Content(s) = Content(sha)

States   == {"open", "closed", "merged"}
Outcomes == {"none", "merged", "abandoned", "failed", "rejected", "paused"}
Verdicts == {"none", "pass", "fail"}
AtWork   == {"resume", "redo", "read", "judge", "meanwhile", "decide", "merging",
             "landed", "mirror", "park", "mark", "parking"}

SightType == [state : States, head : Shas, open : SUBSET (1..MaxNews)]
PullType == [state : States, head : Shas, open : SUBSET (1..MaxNews),
             news : 0..MaxNews, landed : Shas, ours : BOOLEAN]
RunType  == [outcome : Outcomes \cup {"unclaimed"}, parked : BOOLEAN, url : BOOLEAN,
             candidate : Shas, approvedSha : Shas, approvedAt : BOOLEAN,
             waits : Shas, carried : BOOLEAN, resume : BOOLEAN,
             verdict : Verdicts, ci : BOOLEAN, seen : 0..NoMark]
WorkType == [at : AtWork \cup {"none", "dead"}, run : 0..MaxRuns, reviewed : Shas,
             approved : BOOLEAN, release : Shas, fixed : BOOLEAN,
             saw : SightType, covers : Shas, carries : BOOLEAN, ci : BOOLEAN,
             mark : 0..NoMark]
SweepType == [at : {"none", "parked", "failed", "canceled"}, run : 0..MaxRuns,
              saw : SightType, news : 0..MaxNews]

\* The values the pull request, the rows, the worker's locals and each sweep's
\* look range over.
TypeOK ==
  /\ pull \in PullType
  /\ local \in Shas
  /\ ticket \in [status : {"ready", "in_flight", "blocked_on_operator", "merged",
                           "abandoned"},
                 active : 0..MaxRuns, last : 0..MaxRuns, canceled : BOOLEAN]
  /\ run \in [RunIds -> RunType]
  /\ worker \in WorkType
  /\ sweep \in [Sweepers -> SweepType]
  /\ said \subseteq Shas /\ judged \subseteq Shas

NewRun == [outcome |-> "none", parked |-> FALSE, url |-> FALSE, candidate |-> NoSha,
           approvedSha |-> NoSha, approvedAt |-> FALSE, waits |-> NoSha,
           carried |-> FALSE, resume |-> FALSE, verdict |-> "none", ci |-> FALSE,
           seen |-> NoMark]

Sight == [state |-> pull.state, head |-> pull.head, open |-> pull.open]
Blank == [state |-> "open", head |-> NoSha, open |-> {}]
Gone  == [at |-> "none", run |-> NoRun, reviewed |-> NoSha, approved |-> FALSE,
          release |-> NoSha, fixed |-> FALSE, saw |-> Blank, covers |-> NoSha,
          carries |-> FALSE, ci |-> FALSE, mark |-> NoMark]
Idle  == [at |-> "none", run |-> NoRun, saw |-> Blank, news |-> 0]

\* The pipeline has reviewed a candidate, pushed it and opened its pull request.
Candidate == {CHOOSE c \in Commits : TRUE}
Init ==
  /\ pull = [state |-> "open", head |-> Candidate, open |-> {}, news |-> 0,
             landed |-> NoSha, ours |-> FALSE]
  /\ local = Candidate
  /\ ticket = [status |-> "in_flight", active |-> 1, last |-> NoRun,
               canceled |-> FALSE]
  /\ run = [r \in RunIds |-> IF r = 1
              THEN [NewRun EXCEPT !.url = TRUE, !.verdict = "pass"]
              ELSE [NewRun EXCEPT !.outcome = "unclaimed"]]
  /\ worker = [Gone EXCEPT !.at = "read", !.run = 1, !.reviewed = Candidate]
  /\ sweep = [s \in Sweepers |-> Idle]
  /\ said = {} /\ judged = {Candidate}

-----------------------------------------------------------------------------
(***************************************************************************)
(* Rows.                                                                   *)
(***************************************************************************)
Claimed(r) == run[r].outcome # "unclaimed"
Live(r)    == run[r].outcome = "none"

\* _parked_phase(): the run waits in awaiting_merge_approval.
Waits(r)   == r # NoRun /\ Live(r) /\ run[r].parked

\* Mutant: a ticket is blocked whether or not a run still holds it.
BlockedByStatus == ticket.status = "blocked_on_operator"

\* The ticket waits on an operator with no run at work on it.
Blocked    == ticket.status = "blocked_on_operator" /\ ticket.active = NoRun
Closed     == ticket.status \in {"merged", "abandoned"}

\* release(), and the walk of the ticket in the same transaction.
EndRun(row, outcome) == [row EXCEPT !.outcome = outcome, !.parked = FALSE]
Freed(r, status) == [ticket EXCEPT !.status = status, !.active = NoRun, !.last = r]
Ends(r, outcome, status) ==
  /\ run' = [run EXCEPT ![r] = EndRun(@, outcome)]
  /\ ticket' = Freed(r, status)

Me == worker.run
At(step)   == worker.at = step
Goes(step) == worker' = [worker EXCEPT !.at = step, !.saw = Blank]

\* A commit nobody has made yet: which of them is no matter.
Made == pull.head \cup local
MoreToCommit == ~(Commits \subseteq Made)
NewCommit == CHOOSE c \in Commits : c \notin Made

\* git push: refused unless origin's head is an ancestor of what is pushed.
Pushes(sha) ==
  /\ local' = sha
  /\ pull.head \subseteq sha
  /\ pull' = [pull EXCEPT !.head = sha]

\* A run that fails keeps its branch; the ticket is left in flight.
FailRun ==
  /\ Ends(Me, "failed", "in_flight")
  /\ worker' = Gone
  /\ UNCHANGED <<pull, sweep, said, judged>>

\* _park_on_pr() begins: what the park will record.
ToPark(covers, carries, ci) ==
  worker' = [worker EXCEPT !.at = "park", !.saw = Blank, !.covers = covers,
                           !.carries = carries, !.ci = ci]

\* _reject_pr().
Rejects(r) == Ends(r, "rejected", "blocked_on_operator")

-----------------------------------------------------------------------------
(***************************************************************************)
(* A run from its claim to its first look at the pull request.             *)
(***************************************************************************)
Claim ==
  /\ At("none") /\ ticket.status = "ready" /\ ticket.active = NoRun
  /\ \E r \in RunIds :
       /\ ~Claimed(r) /\ \A i \in 1..(r - 1) : Claimed(i)
       /\ ticket' = [ticket EXCEPT !.status = "in_flight", !.active = r]
       /\ run' = [run EXCEPT ![r] = NewRun]
       /\ worker' = [Gone EXCEPT !.run = r,
                       !.at = IF run[r - 1].resume THEN "resume" ELSE "redo"]
  /\ UNCHANGED <<pull, local, sweep, said, judged>>

\* What origin's copy of the branch makes of the local one.
FetchFails == "unread" \in Events
Synced(sha) ==
  \/ pull.head \subseteq local /\ sha = local
  \/ local \subseteq pull.head /\ sha = pull.head
  \/ FetchFails /\ sha = local
Diverged == ~(pull.head \subseteq local) /\ ~(local \subseteq pull.head)

\* A new attempt: more work on the preserved branch, reviewed, pushed, and its
\* pull request opened, or the open one adopted.
Redo ==
  /\ At("redo")
  /\ MoreToCommit
  /\ \E sha \in Shas :
       /\ Synced(sha)
       /\ local' = sha \cup {NewCommit}
       /\ pull.head \subseteq local'
       /\ pull' = [state |-> "open", head |-> local', news |-> pull.news,
                   open |-> IF pull.state = "open" THEN pull.open ELSE {},
                   landed |-> NoSha, ours |-> FALSE]
       /\ judged' = judged \cup {local'}
       /\ worker' = [worker EXCEPT !.at = "read", !.reviewed = local']
  /\ run' = [run EXCEPT ![Me] = [@ EXCEPT !.url = TRUE, !.verdict = "pass"]]
  /\ UNCHANGED <<ticket, sweep, said>>

\* last_independent_verdict(): of the newest run that has one.
LastVerdict == CHOOSE r \in RunIds :
  /\ run[r].verdict # "none"
  /\ \A i \in RunIds : run[i].verdict # "none" => i <= r
LastApproved == IF run[LastVerdict].verdict = "pass"
                THEN run[LastVerdict].approvedSha ELSE NoSha

\* Mutant: an approval is of whatever the branch holds when the run resumes.
ResumeAtHead ==
  LET was      == run[Me - 1]
      approved == was.approvedAt \/ was.carried
  IN /\ At("resume") /\ Synced(local')
     /\ worker' = [worker EXCEPT !.at = "read", !.approved = approved,
                     !.reviewed = IF approved THEN local' ELSE LastApproved,
                     !.release = IF approved THEN local' ELSE NoSha]
     /\ run' = [run EXCEPT ![Me] = [@ EXCEPT !.url = TRUE,
                                             !.candidate = was.candidate]]
     /\ UNCHANGED <<pull, ticket, sweep, said, judged>>

\* _resume_on_pr(): an approval is of the candidate it released; without one the
\* last review's sha stands.
Resume ==
  LET was      == run[Me - 1]
      approved == was.approvedAt \/ was.carried
      reviewed == IF approved THEN was.candidate ELSE LastApproved
      resumed  == [worker EXCEPT !.reviewed = reviewed, !.approved = approved,
                                 !.release = IF approved THEN reviewed ELSE NoSha]
  IN /\ At("resume")
     /\ \/ /\ Synced(local')
           /\ worker' = [resumed EXCEPT !.at = "read"]
           /\ run' = [run EXCEPT ![Me] = [@ EXCEPT !.url = TRUE,
                                                   !.candidate = was.candidate]]
        \/ /\ Diverged /\ local' = local
           /\ worker' = [resumed EXCEPT !.at = "park", !.covers = reviewed]
           /\ UNCHANGED run
     /\ UNCHANGED <<pull, ticket, sweep, said, judged>>

-----------------------------------------------------------------------------
(***************************************************************************)
(* A babysit pass: one read of GitHub, and what is made of it.             *)
(***************************************************************************)
Read ==
  /\ At("read")
  /\ worker' = [worker EXCEPT !.at = "judge", !.saw = Sight]
  /\ UNCHANGED <<pull, local, ticket, run, sweep, said, judged>>

\* The pass limit, or the limit of main refreshes.
AtTheCap ==
  /\ At("judge") /\ worker.saw.state = "open"
  /\ ToPark(worker.reviewed, FALSE, FALSE)
  /\ UNCHANGED <<pull, local, ticket, run, sweep, said, judged>>

\* stop_if_requested(): the operator's pause ends the run before or after a look at
\* GitHub, after a covering review or before the merge call.
Pause ==
  /\ "pause" \in Events /\ worker.at \in {"read", "judge", "meanwhile", "merging"}
  /\ run' = [run EXCEPT ![Me] = [EndRun(@, "paused") EXCEPT !.resume = TRUE,
                                                            !.candidate = local]]
  /\ ticket' = Freed(Me, "blocked_on_operator")
  /\ worker' = Gone
  /\ UNCHANGED <<pull, local, sweep, said, judged>>

SawMerged ==
  /\ At("judge") /\ worker.saw.state = "merged"
  /\ Goes("landed")
  /\ UNCHANGED <<pull, local, ticket, run, sweep, said, judged>>

SawClosed ==
  /\ At("judge") /\ worker.saw.state = "closed"
  /\ Rejects(Me)
  /\ worker' = Gone
  /\ UNCHANGED <<pull, local, sweep, said, judged>>

\* Checks pending, or not quiet yet: the wait is a park the checks wake.
ParkForCI ==
  /\ At("judge") /\ worker.saw.state = "open" /\ worker.saw.open = {}
  /\ ToPark(worker.reviewed, worker.approved /\ worker.release = local, TRUE)
  /\ UNCHANGED <<pull, local, ticket, run, sweep, said, judged>>

\* The head it read is not its own: the remote branch itself is asked.
ParkForeign ==
  /\ At("judge") /\ worker.saw.state = "open"
  /\ worker.saw.head # local /\ ~(pull.head \subseteq local)
  /\ ToPark(worker.reviewed, FALSE, FALSE)
  /\ UNCHANGED <<pull, local, ticket, run, sweep, said, judged>>

\* The candidate's own pull request is open: the pass goes on.
Proceeds ==
  /\ At("judge") /\ worker.saw.state = "open"
  /\ worker.saw.head = local \/ pull.head \subseteq local
Threads == Proceeds /\ worker.saw.open # {}
Quiet   == Proceeds /\ worker.saw.open = {}

\* Mutant: the review follows a resolved conflict too.
BringsMainInCarried(sha) ==
  /\ Pushes(sha)
  /\ run' = [run EXCEPT ![Me].verdict = "pass"]
  /\ worker' = [worker EXCEPT !.at = "read", !.saw = Blank,
                  !.reviewed = IF @ = local THEN sha ELSE @]
  /\ UNCHANGED <<ticket, sweep, said, judged>>

\* _merge_origin_main(): a clean merge carries the review, a resolved conflict
\* does not; the mechanical verify of either is a round of its own, here passed ...
BringsMainIn(sha) ==
  /\ Pushes(sha)
  /\ run' = [run EXCEPT ![Me].verdict = "pass"]
  /\ worker' = [worker EXCEPT !.at = "read", !.saw = Blank,
                  !.reviewed = IF @ = local /\ Content(sha) = Content(local)
                               THEN sha ELSE @]
  /\ UNCHANGED <<ticket, sweep, said, judged>>

\* ... and here failed: main is red too and the run parks, or a fix turn commits on
\* top, which no review covers.
MainBreaksIt(sha) ==
  /\ run' = [run EXCEPT ![Me].verdict = "fail"]
  /\ \/ Pushes(sha) /\ ToPark(NoSha, FALSE, FALSE)
     \/ \E c \in Commits \ (Made \cup sha) : Pushes(sha \cup {c}) /\ Goes("read")
  /\ UNCHANGED <<ticket, sweep, said, judged>>

RefreshFromMain ==
  /\ "conflict" \in Events
  /\ Proceeds \/ (AutoApprove /\ At("merging") /\ pull.state = "open")
  /\ \/ \E c \in MainCommits \ Made :
          LET sha == local \cup {c} IN BringsMainIn(sha) \/ MainBreaksIt(sha)
     \/ /\ MoreToCommit
        /\ LET sha == local \cup {NewCommit} IN BringsMainIn(sha) \/ MainBreaksIt(sha)
     \/ /\ ToPark(worker.reviewed, FALSE, FALSE)
        /\ UNCHANGED <<pull, local, ticket, run, sweep, said, judged>>

\* ADDRESS: one commit, pushed, and the threads it answers resolved.
AddressThreads ==
  /\ Threads /\ MoreToCommit /\ pull.head \subseteq local
  /\ local' = local \cup {NewCommit}
  /\ pull' = [pull EXCEPT !.head = local', !.open = @ \ worker.saw.open]
  /\ Goes("read")
  /\ UNCHANGED <<ticket, run, sweep, said, judged>>

\* DECLINE of a bot's thread: answered and resolved.
DeclineThreads ==
  /\ Threads
  /\ pull' = [pull EXCEPT !.open = @ \ worker.saw.open]
  /\ Goes("read")
  /\ UNCHANGED <<local, ticket, run, sweep, said, judged>>

\* HUMAN, or a person's thread left open for them: the review stands.  A fix
\* turn without a commit: it is withdrawn.
ParkOnThreads ==
  /\ Threads
  /\ \E covers \in {worker.reviewed, NoSha} : ToPark(covers, FALSE, FALSE)
  /\ UNCHANGED <<pull, local, ticket, run, sweep, said, judged>>

\* Green and quiet at the sha the last review covered.
QuietAndReviewed ==
  /\ Quiet /\ local = worker.reviewed
  /\ Goes("decide")
  /\ UNCHANGED <<pull, local, ticket, run, sweep, said, judged>>

Moved == Quiet /\ local # worker.reviewed
FixesReviewed == AutoApprove \/ ReviewFixes

\* Nobody reviews the fixes: a human says merge on the candidate as it stands.
ParkMoved ==
  /\ Moved /\ ~FixesReviewed
  /\ ToPark(worker.reviewed, FALSE, FALSE)
  /\ UNCHANGED <<pull, local, ticket, run, sweep, said, judged>>

\* _review_fix(): the covering review of the candidate as it stands.
ReviewApproves ==
  /\ Moved /\ FixesReviewed
  /\ judged' = judged \cup {local}
  /\ run' = [run EXCEPT ![Me].verdict = "pass"]
  /\ Goes("meanwhile")
  /\ UNCHANGED <<pull, local, ticket, sweep, said>>

ReviewRejects ==
  /\ Moved /\ FixesReviewed
  /\ run' = [run EXCEPT ![Me].verdict = "fail"]
  /\ ToPark(NoSha, FALSE, FALSE)
  /\ UNCHANGED <<pull, local, ticket, sweep, said, judged>>

\* The review asks for changes and one automatic fix round is left: the fix is
\* pushed and reviewed in its turn.
ReviewFixesAgain ==
  /\ Moved /\ FixesReviewed /\ ~worker.fixed /\ MoreToCommit
  /\ Pushes(local \cup {NewCommit})
  /\ \/ /\ judged' = judged \cup {local'}
        /\ run' = [run EXCEPT ![Me].verdict = "pass"]
        /\ worker' = [worker EXCEPT !.at = "read", !.saw = Blank,
                        !.reviewed = local', !.fixed = TRUE]
     \/ /\ run' = [run EXCEPT ![Me].verdict = "fail"]
        /\ ToPark(NoSha, FALSE, FALSE)
        /\ UNCHANGED judged
  /\ UNCHANGED <<ticket, sweep, said>>

\* _merged_meanwhile(): after a review GitHub is asked again.
Meanwhile ==
  /\ At("meanwhile")
  /\ CASE pull.state = "merged" -> Goes("landed") /\ UNCHANGED <<ticket, run>>
       [] pull.state = "closed" -> Rejects(Me) /\ worker' = Gone
       [] pull.state = "open" /\ ~(pull.head \subseteq local) ->
            ToPark(worker.reviewed, FALSE, FALSE) /\ UNCHANGED <<ticket, run>>
       [] OTHER ->
            /\ worker' = [worker EXCEPT !.at = "decide", !.reviewed = local,
                                        !.approved = FALSE]
            /\ UNCHANGED <<ticket, run>>
  /\ UNCHANGED <<pull, local, sweep, said, judged>>

Decide ==
  /\ At("decide")
  /\ IF AutoApprove \/ worker.approved THEN Goes("merging")
     ELSE ToPark(worker.reviewed, FALSE, FALSE)
  /\ UNCHANGED <<pull, local, ticket, run, sweep, said, judged>>

\* The merge API merges the sha it is given and no other; its answer may be lost.
Mergeable == pull.state = "open" /\ pull.head = local
CallMerge ==
  /\ At("merging") /\ Mergeable
  /\ pull' = [pull EXCEPT !.state = "merged", !.landed = local, !.ours = TRUE]
  /\ \/ Goes("landed") /\ UNCHANGED <<ticket, run>>
     \/ "lost" \in Events /\ Ends(Me, "failed", "in_flight") /\ worker' = Gone
  /\ UNCHANGED <<local, sweep, said, judged>>

MergeRefused ==
  /\ At("merging") /\ ~Mergeable
  /\ ToPark(worker.reviewed, FALSE, FALSE)
  /\ UNCHANGED <<pull, local, ticket, run, sweep, said, judged>>

\* release_run() and mirror_status(): two transactions.
RecordMerged ==
  /\ At("landed")
  /\ Ends(Me, "merged", ticket.status)
  /\ Goes("mirror")
  /\ UNCHANGED <<pull, local, sweep, said, judged>>

\* Mutant: the run's closing phase is written as the ticket's status.
MirrorDone ==
  /\ At("mirror")
  /\ ticket' = [ticket EXCEPT !.status = "done"]
  /\ worker' = Gone
  /\ UNCHANGED <<pull, local, run, sweep, said, judged>>

MirrorMerged ==
  /\ At("mirror")
  /\ ticket' = [ticket EXCEPT !.status = "merged"]
  /\ worker' = Gone
  /\ UNCHANGED <<pull, local, run, sweep, said, judged>>

-----------------------------------------------------------------------------
(***************************************************************************)
(* A park: the ticket is blocked, GitHub is read for the mark, and the run  *)
(* gives its lease back.  Or the run fails, or its process dies.           *)
(***************************************************************************)
BlockTicket ==
  /\ At("park")
  /\ ticket' = [ticket EXCEPT !.status = "blocked_on_operator"]
  /\ worker' = [worker EXCEPT !.at = "mark"]
  /\ UNCHANGED <<pull, local, run, sweep, said, judged>>

ReadMark ==
  /\ At("mark")
  /\ \E mark \in {pull.news} \cup (IF FetchFails THEN {NoMark} ELSE {}) :
       worker' = [worker EXCEPT !.at = "parking", !.mark = mark]
  /\ UNCHANGED <<pull, local, ticket, run, sweep, said, judged>>

\* park(), and what park_on_pr() writes of the candidate on the row.
ParkedRow ==
  [run[Me] EXCEPT !.parked = TRUE, !.url = TRUE, !.candidate = local,
                  !.approvedSha = IF worker.covers = NoSha THEN @ ELSE worker.covers,
                  !.waits = IF worker.carries THEN local ELSE NoSha,
                  !.ci = worker.ci, !.seen = worker.mark]
Park ==
  /\ At("parking")
  /\ run' = [run EXCEPT ![Me] = ParkedRow]
  /\ ticket' = [ticket EXCEPT !.active = NoRun, !.last = Me]
  /\ worker' = Gone
  /\ UNCHANGED <<pull, local, sweep, said, judged>>

\* A fix turn, a fetch, a push or a read of GitHub fails the run.
Fail ==
  /\ "crash" \in Events
  /\ worker.at \in {"resume", "redo", "read", "judge", "merging"}
  /\ FailRun /\ UNCHANGED local

Crash ==
  /\ "crash" \in Events /\ worker.at \in AtWork
  /\ worker' = [worker EXCEPT !.at = "dead", !.saw = Blank]
  /\ UNCHANGED <<pull, local, ticket, run, sweep, said, judged>>

\* The host's sweep of a run whose process is gone.
SweepDead ==
  /\ At("dead")
  /\ IF ticket.active = Me THEN Ends(Me, "failed", "in_flight")
     ELSE UNCHANGED <<ticket, run>>
  /\ worker' = Gone
  /\ UNCHANGED <<pull, local, sweep, said, judged>>

-----------------------------------------------------------------------------
(***************************************************************************)
(* The reconcile pass of process s: a row is read, GitHub is asked, and a  *)
(* transaction acts on the answer if the row is still the one it read.     *)
(***************************************************************************)
Holds(s, step) == sweep[s].at = step
Asks(s, step, sight) ==
  /\ Holds(s, "none")
  /\ sweep' = [sweep EXCEPT ![s] = [at |-> step, run |-> ticket.last,
                                    saw |-> sight, news |-> pull.news]]
  /\ UNCHANGED <<pull, local, ticket, run, worker, said, judged>>
Drops(s) == sweep' = [sweep EXCEPT ![s] = Idle]
Settles(s) == Drops(s) /\ UNCHANGED <<pull, local, worker, said, judged>>

ReadParked(s) == Blocked /\ Waits(ticket.last) /\ Asks(s, "parked", Sight)

\* Mutant: a run that failed is not asked after.
ReadFailedAbandoned(s) ==
  /\ ~Closed /\ ticket.active = NoRun /\ ticket.last # NoRun
  /\ run[ticket.last].outcome = "abandoned" /\ run[ticket.last].url
  /\ Asks(s, "failed", Sight)

ReadFailed(s) ==
  /\ ~Closed /\ ticket.active = NoRun /\ ticket.last # NoRun
  /\ run[ticket.last].outcome \in {"failed", "abandoned"} /\ run[ticket.last].url
  /\ Asks(s, "failed", Sight)

ReadCanceled(s) ==
  /\ ticket.canceled /\ Blocked /\ ticket.last # NoRun
  /\ Asks(s, "canceled", IF Waits(ticket.last) THEN Sight ELSE Blank)

\* Mutant: the run is still the one that gave the ticket back last.
StillNewest(s) == ticket.last = sweep[s].run

\* The row has not moved while GitHub was asked.
StillParked(s) == Blocked /\ ticket.last = sweep[s].run /\ Waits(sweep[s].run)

\* _land_github_merge().
LandGithubMerge(s) ==
  /\ Holds(s, "parked") \/ Holds(s, "canceled")
  /\ sweep[s].saw.state = "merged"
  /\ IF StillParked(s) THEN Ends(sweep[s].run, "merged", "merged")
     ELSE UNCHANGED <<ticket, run>>
  /\ Settles(s)

\* _note_closed_pr(): a cancel goes on to its own transaction.
NoteClosed(s) ==
  /\ Holds(s, "parked") \/ Holds(s, "canceled")
  /\ sweep[s].saw.state = "closed"
  /\ IF StillParked(s) THEN Rejects(sweep[s].run) ELSE UNCHANGED <<ticket, run>>
  /\ sweep' = [sweep EXCEPT ![s] = IF Holds(s, "canceled")
                                   THEN [@ EXCEPT !.saw = Blank] ELSE Idle]
  /\ UNCHANGED <<pull, local, worker, said, judged>>

CloseCanceled(s) ==
  /\ Holds(s, "canceled") /\ sweep[s].saw.state = "open"
  /\ IF ticket.canceled /\ Blocked
     THEN IF Waits(ticket.last)
          THEN Ends(ticket.last, "abandoned", "abandoned")
          ELSE ticket' = [ticket EXCEPT !.status = "abandoned"] /\ UNCHANGED run
     ELSE UNCHANGED <<ticket, run>>
  /\ Settles(s)

\* Mutant: a merge read on GitHub closes the ticket out whatever it is by now.
StillFailedAnyway(s) == run[sweep[s].run].outcome \in {"failed", "abandoned"}

\* _close_merged_after_failure(): the run keeps its outcome.
StillFailed(s) ==
  /\ ~Closed /\ ticket.active = NoRun /\ ticket.last = sweep[s].run
  /\ run[sweep[s].run].outcome \in {"failed", "abandoned", "rejected"}
CloseFailed(s) ==
  /\ Holds(s, "failed")
  /\ IF sweep[s].saw.state = "merged" /\ StillFailed(s)
     THEN ticket' = [ticket EXCEPT !.status = "merged"]
     ELSE UNCHANGED ticket
  /\ UNCHANGED run /\ Settles(s)

\* _release_parked() of the ticket's newest run.
Releases(rows, approved) ==
  /\ Blocked /\ Waits(ticket.last)
  /\ run' = [rows EXCEPT ![ticket.last] =
               [EndRun(@, "abandoned") EXCEPT !.resume = TRUE, !.approvedAt = approved]]
  /\ ticket' = [ticket EXCEPT !.status = "ready"]

\* carry_approval(): only at the sha the approval was parked with.
Carries(s) ==
  LET row == run[sweep[s].run]
  IN /\ row.waits # NoSha /\ row.candidate = row.waits
     /\ sweep[s].saw.head = row.waits /\ sweep[s].saw.open = {}

\* _rebabysit(): what has arrived since the mark, the checks it waited for, or a
\* conflict with main GitHub reports, send the ticket's newest run back: the
\* transaction names no run.
Arrived(s) == /\ run[sweep[s].run].seen # NoMark
              /\ sweep[s].news > run[sweep[s].run].seen
Marked(s)  == [run EXCEPT ![sweep[s].run].seen = sweep[s].news]
Rebabysit(s) ==
  /\ Holds(s, "parked") /\ sweep[s].saw.state = "open"
  /\ \E reason \in {FALSE, run[sweep[s].run].ci, "conflict" \in Events} :
       IF Arrived(s) \/ reason
       THEN \/ Releases([Marked(s) EXCEPT ![sweep[s].run].carried = @ \/ Carries(s)],
                        FALSE)
            \/ ~(Blocked /\ Waits(ticket.last)) /\ UNCHANGED <<ticket, run>>
       ELSE /\ run' = IF run[sweep[s].run].seen = NoMark /\ Waits(sweep[s].run)
                      THEN Marked(s) ELSE run
            /\ UNCHANGED ticket
  /\ Settles(s)

-----------------------------------------------------------------------------
(***************************************************************************)
(* The operator, the board, and people on GitHub.                          *)
(***************************************************************************)
Stays == UNCHANGED <<pull, local, worker, sweep, judged>>

Approve ==
  /\ Releases(run, TRUE)
  /\ said' = said \cup {run[ticket.last].candidate}
  /\ Stays

Babysit == Releases(run, FALSE) /\ UNCHANGED said /\ Stays

Repoint ==
  /\ "repoint" \in Events
  /\ ticket.active = NoRun /\ Waits(ticket.last)
  /\ run' = [run EXCEPT ![ticket.last].candidate = pull.head]
  /\ UNCHANGED <<ticket, said>> /\ Stays

Requeue ==
  /\ "requeue" \in Events
  /\ ticket.status \in {"in_flight", "blocked_on_operator"} /\ ~ticket.canceled
  /\ ticket.active = NoRun /\ ticket.last # NoRun
  /\ run[ticket.last].outcome \in {"failed", "rejected"}
  /\ run' = [run EXCEPT ![ticket.last].approvedAt = FALSE]
  /\ ticket' = [ticket EXCEPT !.status = "ready"]
  /\ UNCHANGED said /\ Stays

ResumePaused ==
  /\ Blocked /\ ticket.last # NoRun /\ run[ticket.last].outcome = "paused"
  /\ ticket' = [ticket EXCEPT !.status = "ready"]
  /\ UNCHANGED <<run, said>> /\ Stays

CancelOnBoard ==
  /\ "cancel" \in Events /\ ~ticket.canceled
  /\ ticket' = [ticket EXCEPT !.canceled = TRUE]
  /\ UNCHANGED <<run, said>> /\ Stays

OnGitHub(kind, to) ==
  /\ kind \in Events /\ pull.state = "open"
  /\ pull' = to
  /\ UNCHANGED <<local, ticket, run, worker, sweep, said, judged>>

SomeoneComments ==
  /\ pull.news < MaxNews
  /\ OnGitHub("thread", [pull EXCEPT !.news = @ + 1, !.open = @ \cup {pull.news + 1}])
SomeonePushes ==
  /\ pull.news < MaxNews /\ MoreToCommit
  /\ OnGitHub("push", [pull EXCEPT !.news = @ + 1, !.head = @ \cup {NewCommit}])
SomeoneMerges ==
  OnGitHub("merge", [pull EXCEPT !.state = "merged", !.landed = pull.head])
SomeoneCloses == OnGitHub("close", [pull EXCEPT !.state = "closed"])

-----------------------------------------------------------------------------
Working ==
  \/ Redo \/ Resume \/ Read \/ AtTheCap \/ SawMerged \/ SawClosed
  \/ ParkForCI \/ ParkForeign \/ RefreshFromMain \/ AddressThreads
  \/ DeclineThreads \/ ParkOnThreads \/ QuietAndReviewed \/ ParkMoved
  \/ ReviewApproves \/ ReviewRejects \/ ReviewFixesAgain \/ Meanwhile \/ Decide
  \/ CallMerge \/ MergeRefused \/ RecordMerged \/ MirrorMerged
  \/ BlockTicket \/ ReadMark \/ Park \/ Fail

Reconcile(s) ==
  \/ ReadParked(s) \/ ReadFailed(s) \/ ReadCanceled(s) \/ LandGithubMerge(s)
  \/ NoteClosed(s) \/ CloseCanceled(s) \/ CloseFailed(s) \/ Rebabysit(s)

Outside ==
  \/ Approve \/ Babysit \/ Repoint \/ Requeue \/ ResumePaused \/ CancelOnBoard
  \/ SomeoneComments \/ SomeonePushes \/ SomeoneMerges \/ SomeoneCloses

Next ==
  \/ Claim \/ Working \/ Pause \/ Crash \/ SweepDead \/ Outside
  \/ \E s \in Sweepers : Reconcile(s)

Spec == Init /\ [][Next]_vars

\* The pool claims what is ready, a worker goes on until its run ends or parks,
\* the host sweeps the dead, and a reconcile pass is made at every tick.
FairSpec ==
  /\ Spec
  /\ WF_vars(Claim) /\ WF_vars(Working) /\ WF_vars(SweepDead)
  /\ \A s \in Sweepers : WF_vars(Reconcile(s))

-----------------------------------------------------------------------------
(***************************************************************************)
(* Properties.                                                             *)
(***************************************************************************)
\* The ticket's lease, as the store promises it: here of one ticket, numbered 1.
Lease == INSTANCE TicketLease WITH
           Tickets <- {1}, NoTicket <- 0,
           holder  <- [t \in {1} |-> ticket.active],
           last    <- [t \in {1} |-> ticket.last],
           granted <- [r \in RunIds |-> IF Claimed(r) THEN 1 ELSE 0]

\* A park, a close-out by a pass, an approval or a sweep of the dead moves the
\* lease as the store promises: to a new run from nobody, and to nobody from the
\* run that holds it, recorded as the last.  A pass that acts late takes it from
\* no run claimed since.
LeaseIsKept == [][Lease!Next]_(Lease!vars)

\* Under approve = "human" the factory merges what a human said merge on, or
\* the same work with main brought in, through every fix round, park and wake.
HumanSaidMerge ==
  ~AutoApprove /\ pull.ours => SameAsOne(pull.landed, said)

\* What the factory merges an independent review approved, or a human did.
LandsWhatWasJudged == pull.ours => SameAsOne(pull.landed, judged \cup said)

\* A ticket or a run is written down as merged only when its pull request is,
\* however late the answer of GitHub that says so.
MergedMeansLanded ==
  ticket.status = "merged" \/ (\E r \in RunIds : run[r].outcome = "merged")
    => pull.state = "merged"

\* A pass that acts on what it read leaves a run at work alone: while the
\* worker runs, its run holds the ticket and has not ended.
WorkIsLeftAlone ==
  worker.at \in AtWork \ {"mirror"} =>
    /\ ticket.active = Me /\ Live(Me) /\ ~Closed

\* A pull request that was merged, by the factory or on GitHub, through lost
\* answers, crashes and parks, is written down: unless its run is paused, or a
\* resumed run failed before its own row named the pull request.
MergeIsRecorded ==
  pull.state = "merged" ~>
    \/ Closed
    \/ \E r \in RunIds : run[r].outcome = "merged"
    \/ /\ ticket.last # NoRun
       /\ \/ run[ticket.last].outcome = "paused"
          \/ run[ticket.last].outcome = "failed" /\ ~run[ticket.last].url

=============================================================================
