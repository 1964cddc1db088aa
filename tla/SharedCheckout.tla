---------------------------- MODULE SharedCheckout ----------------------------
(****************************************************************************)
(* The checkout whose main the workers of a project share under mode =      *)
(* local: what is done under the merge lock (the fetch before a cut, the    *)
(* merge gate, the findings commit, the close of a story), and the one move *)
(* of main made without it, the fast-forward of a self-hosted factory.      *)
(*                                                                          *)
(* main is kept as what each reader of it would see of its moves: who moved *)
(* it since the reader read its tip.                                        *)
(****************************************************************************)
EXTENDS MergeLock

CONSTANT SelfHosted  \* the project is the factory's own checkout

VARIABLES
    work,      \* what each process has done with the tip it read
    drift      \* who moved main since

vars == <<lockVars, work, drift>>
checkout == <<work, drift>>

Works == {"none", "seen", "based", "recorded", "landed"}
Movers == Procs \cup {"origin", "factory"}

\* The lock's types, what each process does under it, and who has moved main
\* since it looked.
CheckoutTypeOK == /\ TypeOK
                  /\ work \in [Procs -> Works]
                  /\ drift \in [Procs -> SUBSET Movers]

\* A settler has just recorded a witness pass on main's tip.
Init == /\ LockInit
        /\ work = [p \in Procs |-> IF p \in Settlers THEN "seen" ELSE "none"]
        /\ drift = [p \in Procs |-> {}]

Does(p, w) == work' = [work EXCEPT ![p] = w]

Holds(p, u) == at[p] = "holding" /\ use[p] = u

\* Who has read main's tip and is still to act on what was read.
Relies(p) == \/ work[p] = "seen" /\ at[p] # "dead"
             \/ work[p] \in {"based", "recorded"} /\ (Holds(p, "gate") \/ Holds(p, "settle"))

\* m moves main under everyone who relies on its tip.
MovesMain(m) ==
    drift' = [p \in Procs |-> IF Relies(p) THEN drift[p] \cup {m} ELSE {}]

\* refresh_main: a fetch that finds origin ahead fast-forwards main.
ForwardMain(p) == /\ Holds(p, "fetch")
                  /\ MovesMain("origin")
                  /\ UNCHANGED <<lockVars, work>>

\* _sync_main_into_branch: the branch holds main's tip from here on, and what
\* follows verifies it.
SyncMain(p) == /\ Holds(p, "gate")
               /\ work[p] = "none"
               /\ Does(p, "based")
               /\ drift' = [drift EXCEPT ![p] = {}]
               /\ UNCHANGED lockVars

\* _merge records the review's findings on main first, when they changed.
RecordFindings(p) == /\ Holds(p, "gate")
                     /\ work[p] = "based"
                     /\ Does(p, "recorded")
                     /\ MovesMain(p)
                     /\ UNCHANGED lockVars

Land(p) == /\ Holds(p, "gate")
           /\ work[p] \in {"based", "recorded"}
           /\ Does(p, "landed")
           /\ MovesMain(p)
           /\ UNCHANGED lockVars

\* _render_findings_locked: a merged run's findings are committed.
CommitFindings(p) == /\ Holds(p, "findings")
                     /\ work[p] = "landed"
                     /\ MovesMain(p)
                     /\ UNCHANGED <<lockVars, work>>

\* settle_story: only if main's tip is still the witnessed one.
CheckTip(p) == /\ Holds(p, "settle")
               /\ work[p] = "seen"
               /\ drift[p] = {}
               /\ Does(p, "based")
               /\ UNCHANGED <<lockVars, drift>>

CloseStory(p) == /\ Holds(p, "settle")
                 /\ work[p] = "based"
                 /\ Does(p, "landed")
                 /\ UNCHANGED <<lockVars, drift>>

\* Held to the end of what it was taken for, or left by an exception: a gate
\* that stops, a red verify, a tip that moved.
Leave(p) == /\ ReadBack(p)
            /\ UNCHANGED checkout

\* _ff_main, from the scheduler's re-exec: no lock is taken.
ForwardFactory == /\ SelfHosted
                  /\ MovesMain("factory")
                  /\ UNCHANGED <<lockVars, work>>

UnderTheLock(p) == \/ ForwardMain(p) \/ SyncMain(p) \/ RecordFindings(p)
                   \/ Land(p) \/ CommitFindings(p) \/ CheckTip(p)
                   \/ CloseStory(p)

LockProtocol == \/ \E p \in Procs : LockStep(p) \/ Unlink(p) \/ Close(p)
                \/ \E r \in Runs : EndRow(r)
                \/ \E s \in Sweepers : SweepStep(s)

Next == \/ LockProtocol /\ UNCHANGED checkout
        \/ \E p \in Procs : Leave(p) \/ UnderTheLock(p)
        \/ ForwardFactory

Spec == Init /\ [][Next]_vars

(******************************** properties ********************************)

Acting(p) == work[p] # "seen" /\ Relies(p)

\* From a gate's sync of main to its landing, and from a settle's look at
\* main's tip to the close it records, nobody moves main but the process
\* itself (the findings it commits before the merge) and the scheduler of a
\* self-hosted factory.
LandsOnVerifiedMain == \A p \in Procs : Acting(p) => drift[p] \subseteq {p, "factory"}

\* The turn the lock promises.
Turn == INSTANCE MergeTurn WITH holders <- {p \in Procs : at[p] \in {"holding", "leaving"}},
                                alive <- {p \in Procs : at[p] # "dead"}

\* A file that anyone holds is never removed, replaced or created beside: the lock
\* gives one process at a time the turn (merge_lock.py).
TurnTaken == Turn!TurnSpec

LockStepAnd(A) == A /\ UNCHANGED checkout

\* A process that waits goes on until it dies, the clock runs, flock(2) wakes its
\* waiters, a dead worker's run is failed and the sweep comes round again. Nobody
\* who holds the lock is taken to let it go.
Fairness ==
    /\ \A p \in Procs :
        /\ SF_vars(LockStepAnd(CreateFile(p) \/ FileExists(p)))
        /\ SF_vars(LockStepAnd(Wait(p)))
        /\ WF_vars(LockStepAnd(WriteStamp(p) \/ Nap(p) \/ GiveUp(p)))
    /\ \A r \in Runs : WF_vars(at[r] = "dead" /\ LockStepAnd(EndRow(r)))
    /\ \A s \in Sweepers : /\ WF_vars(LockStepAnd(JudgeDead(s) \/ RemoveDead(s)))
                           /\ SF_vars(LockStepAnd(FlockDead(s)))

FairSpec == Spec /\ Fairness

Waits(p) == at[p] \in {"asking", "refused"}

\* Whoever holds the lock and whatever becomes of it, a wait ends: the
\* process takes the lock or gives up.
EveryWaitEnds == \A p \in Procs : Waits(p) ~> ~Waits(p)

\* The stamped lock of a worker that died is removed once its run has ended.
DeadLockCleared == \A r \in Runs :
    path = r /\ at[r] = "dead" /\ r \in stamped ~> path # r
==============================================================================
