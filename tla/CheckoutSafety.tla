---------------------------- MODULE CheckoutSafety ----------------------------
(****************************************************************************)
(* The merge lock is the turn it promises to be, and main stands still      *)
(* under whoever acts on its tip, for every set of workers, settlers and    *)
(* sweeps.  What carries both: a process between creating its file and      *)
(* unlinking it is the one the path leads to, and a sweep that has flocked  *)
(* a file keeps everyone else from the arbiter.                             *)
(****************************************************************************)
EXTENDS SharedCheckout, TLAPS

Owns(p) == at[p] \in {"created", "holding", "leaving"}

\* The path and its owner know each other; a file without an owner is a dead
\* process's.
PathOK == \A p \in Procs : /\ Owns(p) => path = p
                           /\ path = p => Owns(p) \/ at[p] = "dead"

ArbiterOK == /\ \A p \in Procs : at[p] = "created" => arbiter = p
             /\ \A s \in Sweepers : sweep[s] = "flocked" => /\ arbiter = s
                                                            /\ path # NoFile
                                                            /\ at[path] = "dead"

LockInv == TypeOK /\ PathOK /\ ArbiterOK

\* What a gate or a settle has read is read under the lock it still holds.
WorkOK == \A p \in Procs :
    /\ use[p] = "fetch" => work[p] = "none"
    /\ use[p] = "gate" /\ at[p] \in {"out", "asking", "refused", "created"} => work[p] = "none"
    /\ use[p] = "settle" /\ at[p] \in {"out", "asking", "refused", "created"} => work[p] = "seen"

CheckoutInv == LockInv /\ CheckoutTypeOK /\ WorkOK /\ LandsOnVerifiedMain

-----------------------------------------------------------------------------
\* A process that goes somewhere leaves every other process where it was.
LEMMA PlacesOf == \A p \in Procs, place \in Places :
                     TypeOK /\ Goes(p, place) => /\ at' \in [Procs -> Places]
                                                 /\ at'[p] = place
                                                 /\ \A q \in Procs \ {p} : at'[q] = at[q]
  BY DEF TypeOK, Goes

\* Every step of the lock keeps the types.
LEMMA LockTypes ==
  ASSUME TypeOK, LockNext
  PROVE  TypeOK'
<1> USE DEF TypeOK, Places, Uses
<1>1. ASSUME NEW p \in Procs, LockStep(p)
      PROVE  TypeOK'
  <2>1. CASE Ask(p)         BY <2>1 DEF Ask, Goes
  <2>2. CASE CreateFile(p)  BY <2>2 DEF CreateFile, Goes
  <2>3. CASE WriteStamp(p)  BY <2>3 DEF WriteStamp, Goes
  <2>4. CASE FileExists(p)  BY <2>4 DEF FileExists, Goes
  <2>5. CASE Wait(p)        BY <2>5 DEF Wait
  <2>6. CASE Nap(p)         BY <2>6 DEF Nap, Goes
  <2>7. CASE GiveUp(p)      BY <2>7 DEF GiveUp, Goes, AfterHeld
  <2>8. CASE Crash(p)       BY <2>8 DEF Crash, Goes
  <2> QED  BY <1>1, <2>1, <2>2, <2>3, <2>4, <2>5, <2>6, <2>7, <2>8 DEF LockStep
<1>2. ASSUME NEW p \in Procs, ReadBack(p) \/ Unlink(p) \/ Close(p)
      PROVE  TypeOK'
  <2>1. CASE ReadBack(p)    BY <2>1 DEF ReadBack, Goes
  <2>2. CASE Unlink(p)      BY <2>2 DEF Unlink, Goes
  <2>3. CASE Close(p)       BY <2>3 DEF Close, Goes, AfterUse
  <2> QED  BY <1>2, <2>1, <2>2, <2>3
<1>3. ASSUME NEW r \in Runs, EndRow(r)
      PROVE  TypeOK'
  BY <1>3 DEF EndRow
<1>4. ASSUME NEW s \in Sweepers, SweepStep(s)
      PROVE  TypeOK'
  BY <1>4 DEF SweepStep, JudgeDead, SweepAgain, FlockDead, RemoveDead
<1> QED  BY <1>1, <1>2, <1>3, <1>4 DEF LockNext

\* What PathOK and ArbiterOK say of a process or a sweep survives a step that
\* leaves all they mention alone.
LEMMA LockKept ==
  ASSUME PathOK, ArbiterOK, UNCHANGED <<path, arbiter, at, sweep>>
  PROVE  PathOK' /\ ArbiterOK'
  BY DEF PathOK, ArbiterOK, Owns

\* A process that moves between two places at neither of which it owns a file
\* or holds the arbiter disturbs neither.
LEMMA MoveElsewhere ==
  ASSUME LockInv, NEW p \in Procs, NEW place \in Places,
         ~Owns(p), at[p] # "dead", place \notin {"created", "holding", "leaving"},
         Goes(p, place), UNCHANGED <<path, arbiter, sweep>>
  PROVE  PathOK' /\ ArbiterOK'
<1>1. /\ at'[p] = place
      /\ \A q \in Procs \ {p} : at'[q] = at[q]
  BY PlacesOf DEF LockInv
<1>2. path # p
  BY DEF LockInv, PathOK
<1>3. PathOK'
  BY <1>1, <1>2 DEF LockInv, PathOK, Owns
<1>4. ArbiterOK'
  BY <1>1, <1>2 DEF LockInv, TypeOK, ArbiterOK, Owns
<1> QED  BY <1>3, <1>4

\* Every step of the lock's own actions keeps the lock's invariant.
LEMMA LockInductive ==
  ASSUME LockInv, LockNext
  PROVE  LockInv'
<1> USE DEF LockInv
<1>0. TypeOK'
  BY LockTypes
<1> SUFFICES PathOK' /\ ArbiterOK'
  BY <1>0
<1> USE DEF Places
<1>a. \A p \in Procs : p \notin Sweepers /\ p # NoFile
  BY DisjointActors
<1>b. \A s \in Sweepers : s # NoFile
  BY DisjointActors
<1>1. ASSUME NEW p \in Procs, LockStep(p)
      PROVE  PathOK' /\ ArbiterOK'
  <2>1. CASE Ask(p)
    BY <2>1, MoveElsewhere DEF Ask, Owns
  <2>2. CASE CreateFile(p)
    <3>1. at'[p] = "created" /\ \A q \in Procs \ {p} : at'[q] = at[q]
      BY <2>2, PlacesOf DEF CreateFile
    <3>2. \A q \in Procs \ {p} : ~Owns(q)
      BY <2>2, <1>a DEF CreateFile, PathOK
    <3>3. PathOK'
      BY <2>2, <3>1, <3>2 DEF CreateFile, PathOK, Owns
    <3>4. \A s \in Sweepers : sweep[s] # "flocked"
      BY <2>2, <1>b DEF CreateFile, ArbiterOK
    <3>5. ArbiterOK'
      BY <2>2, <3>1, <3>2, <3>4 DEF CreateFile, ArbiterOK, Owns
    <3> QED  BY <3>3, <3>5
  <2>3. CASE WriteStamp(p)
    <3>1. at'[p] = "holding" /\ \A q \in Procs \ {p} : at'[q] = at[q]
      BY <2>3, PlacesOf DEF WriteStamp
    <3>2. PathOK'
      BY <2>3, <3>1 DEF WriteStamp, PathOK, Owns
    <3>3. arbiter = p
      BY <2>3 DEF WriteStamp, ArbiterOK
    <3>4. /\ \A s \in Sweepers : sweep[s] # "flocked"
          /\ \A q \in Procs \ {p} : at[q] # "created"
      BY <3>3, <1>a DEF ArbiterOK
    <3>5. ArbiterOK'
      BY <2>3, <3>1, <3>4 DEF WriteStamp, ArbiterOK
    <3> QED  BY <3>2, <3>5
  <2>4. CASE FileExists(p)
    BY <2>4, MoveElsewhere DEF FileExists, Owns
  <2>5. CASE Wait(p)
    BY <2>5, LockKept DEF Wait
  <2>6. CASE Nap(p)
    BY <2>6, MoveElsewhere DEF Nap, Owns
  <2>7. CASE GiveUp(p)
    BY <2>7, MoveElsewhere DEF GiveUp, Owns
  <2>8. CASE Crash(p)
    <3>1. at'[p] = "dead" /\ \A q \in Procs \ {p} : at'[q] = at[q]
      BY <2>8, PlacesOf DEF Crash
    <3>2. PathOK'
      BY <2>8, <3>1 DEF Crash, PathOK, Owns
    <3>3. ArbiterOK'
      BY <2>8, <3>1, <1>a DEF Crash, TypeOK, ArbiterOK
    <3> QED  BY <3>2, <3>3
  <2> QED  BY <1>1, <2>1, <2>2, <2>3, <2>4, <2>5, <2>6, <2>7, <2>8 DEF LockStep
<1>2. ASSUME NEW p \in Procs, ReadBack(p)
      PROVE  PathOK' /\ ArbiterOK'
  <2>1. path = p
    BY <1>2 DEF ReadBack, PathOK, Owns
  <2>2. at'[p] = "leaving" /\ \A q \in Procs \ {p} : at'[q] = at[q]
    BY <1>2, <2>1, PlacesOf DEF ReadBack
  <2>3. PathOK'
    BY <1>2, <2>1, <2>2 DEF ReadBack, PathOK, Owns
  <2>4. ArbiterOK'
    BY <1>2, <2>1, <2>2 DEF ReadBack, ArbiterOK
  <2> QED  BY <2>3, <2>4
<1>3. ASSUME NEW p \in Procs, Unlink(p)
      PROVE  PathOK' /\ ArbiterOK'
  <2>1. path = p /\ path' = NoFile
    BY <1>3 DEF Unlink, PathOK, Owns
  <2>2. at'[p] = "closing" /\ \A q \in Procs \ {p} : at'[q] = at[q]
    BY <1>3, PlacesOf DEF Unlink
  <2>3. PathOK'
    BY <1>a, <2>1, <2>2 DEF PathOK, Owns
  <2>4. \A s \in Sweepers : sweep[s] # "flocked"
    BY <1>3, <2>1 DEF Unlink, ArbiterOK
  <2>5. ArbiterOK'
    BY <1>3, <2>2, <2>4 DEF Unlink, ArbiterOK
  <2> QED  BY <2>3, <2>5
<1>4. ASSUME NEW p \in Procs, Close(p)
      PROVE  PathOK' /\ ArbiterOK'
  BY <1>4, MoveElsewhere DEF Close, Owns
<1>5. ASSUME NEW r \in Runs, EndRow(r)
      PROVE  PathOK' /\ ArbiterOK'
  BY <1>5, LockKept DEF EndRow
<1>6. ASSUME NEW s \in Sweepers, SweepStep(s)
      PROVE  PathOK' /\ ArbiterOK'
  <2>1. CASE JudgeDead(s)
    BY <2>1 DEF JudgeDead, TypeOK, PathOK, ArbiterOK, Owns
  <2>2. CASE SweepAgain(s)
    BY <2>2 DEF SweepAgain, TypeOK, PathOK, ArbiterOK, Owns
  <2>3. CASE FlockDead(s)
    <3>1. path \in Procs /\ at[path] = "dead"
      BY <2>3 DEF FlockDead, InUse, Flocked, TypeOK, PathOK, Owns
    <3>2. /\ \A p \in Procs : at[p] # "created"
          /\ \A q \in Sweepers : sweep[q] # "flocked"
      BY <2>3, <1>a, <1>b DEF FlockDead, ArbiterOK
    <3> QED  BY <2>3, <3>1, <3>2 DEF FlockDead, TypeOK, PathOK, ArbiterOK, Owns
  <2>4. CASE RemoveDead(s)
    <3>1. arbiter = s /\ path # NoFile /\ at[path] = "dead"
      BY <2>4 DEF RemoveDead, ArbiterOK
    <3>2. \A p \in Procs : ~Owns(p)
      BY <3>1 DEF PathOK, Owns
    <3>3. \A q \in Sweepers \ {s} : sweep[q] # "flocked"
      BY <3>1 DEF ArbiterOK
    <3> QED  BY <2>4, <3>2, <3>3, <1>a DEF RemoveDead, TypeOK, PathOK, ArbiterOK, Owns
  <2> QED  BY <1>6, <2>1, <2>2, <2>3, <2>4 DEF SweepStep
<1> QED  BY <1>1, <1>2, <1>3, <1>4, <1>5, <1>6 DEF LockNext

\* With no lock file and every process still to ask, the lock's invariant holds.
LEMMA LockInitially == ASSUME LockInit PROVE LockInv
<1>1. NoFile \notin Procs
  BY DisjointActors
<1> QED  BY <1>1 DEF LockInit, LockInv, TypeOK, PathOK, ArbiterOK, Owns, Places, Uses, Procs

-----------------------------------------------------------------------------
\* A step of the protocol and a process leaving the lock are steps of
\* MergeLock; the rest leave the lock alone.
LEMMA StepsOfTheLock ==
  ASSUME [Next]_vars
  PROVE  [LockNext]_lockVars
<1>1. ASSUME LockProtocol PROVE LockNext
  BY <1>1 DEF LockProtocol, LockNext
<1>2. ASSUME NEW p \in Procs, Leave(p) PROVE LockNext
  BY <1>2 DEF Leave, LockNext
<1>3. ASSUME NEW p \in Procs, UnderTheLock(p) PROVE UNCHANGED lockVars
  BY <1>3 DEF UnderTheLock, ForwardMain, SyncMain, RecordFindings, Land,
              CommitFindings, CheckTip, CloseStory
<1>4. ASSUME ForwardFactory PROVE UNCHANGED lockVars
  BY <1>4 DEF ForwardFactory
<1> QED  BY <1>1, <1>2, <1>3, <1>4 DEF Next, vars

\* The lock's invariant in every reachable state, whatever is done under the
\* lock.
LEMMA LockInvariant == Spec => []LockInv
<1>1. Init => LockInv
  BY LockInitially DEF Init
<1>2. LockInv /\ [Next]_vars => LockInv'
  <2>1. ASSUME LockInv, UNCHANGED lockVars PROVE LockInv'
    BY <2>1 DEF LockInv, lockVars, TypeOK, PathOK, ArbiterOK, Owns
  <2> QED  BY <2>1, LockInductive, StepsOfTheLock
<1> QED  BY <1>1, <1>2, PTL DEF Spec

\* Holding the lock is owning the one file the path leads to.
LEMMA OneHolder ==
  ASSUME LockInv, NEW p \in Procs, NEW q \in Procs, Owns(p), Owns(q)
  PROVE  p = q
  BY DEF LockInv, PathOK

\* Who acts on main's tip holds the lock.
LEMMA ActingHolds ==
  ASSUME NEW p \in Procs, Acting(p)
  PROVE  /\ at[p] = "holding" /\ Owns(p)
         /\ work[p] \in {"based", "recorded"}
         /\ use[p] \in {"gate", "settle"}
  BY DEF Acting, Relies, Holds, Owns

\* So a move of main by the holder drifts nobody else.
LEMMA HolderMovesAlone ==
  ASSUME CheckoutInv, NEW p \in Procs, at[p] = "holding", NEW m \in Movers,
         Acting(p) => m = p, MovesMain(m)
  PROVE  /\ drift' \in [Procs -> SUBSET Movers]
         /\ \A q \in Procs : Acting(q) => drift'[q] \subseteq {q, "factory"}
<1>1. drift' \in [Procs -> SUBSET Movers]
  BY DEF MovesMain, CheckoutInv, CheckoutTypeOK
<1>2. ASSUME NEW q \in Procs, Acting(q) PROVE drift'[q] \subseteq {q, "factory"}
  <2>1. q = p
    BY <1>2, ActingHolds, OneHolder DEF CheckoutInv, Owns
  <2>2. drift'[q] \subseteq drift[q] \cup {m}
    BY DEF MovesMain
  <2> QED  BY <1>2, <2>1, <2>2 DEF CheckoutInv, LandsOnVerifiedMain
<1> QED  BY <1>1, <1>2

\* A step of the lock lets nobody act who did not already.
LEMMA LockGrantsNoWork ==
  ASSUME CheckoutInv, LockNext, LockInv', UNCHANGED checkout
  PROVE  CheckoutInv'
<1> USE DEF CheckoutInv, LockInv, TypeOK
<1>1. CheckoutTypeOK'
  BY DEF CheckoutTypeOK, checkout
<1>2. (\A p \in Procs : at'[p] = at[p] /\ use'[p] = use[p])
      => WorkOK' /\ LandsOnVerifiedMain'
  BY DEF WorkOK, LandsOnVerifiedMain, Acting, Relies, Holds, checkout
<1> DEFINE Quiet(p) == \A q \in Procs \ {p} : at'[q] = at[q] /\ use'[q] = use[q]
           Fresh(p) == at'[p] \in {"out", "asking", "refused", "created"}
<1>3. ASSUME NEW p \in Procs, Quiet(p), use'[p] = use[p],
             Fresh(p) => at[p] \in {"out", "asking", "refused", "created"},
             at'[p] = "holding" => at[p] = "created"
      PROVE  WorkOK' /\ LandsOnVerifiedMain'
  <2>1. WorkOK'
    BY <1>3 DEF WorkOK, checkout
  <2>2. ~Acting(p)'
    <3>1. CASE at[p] = "created"
      BY <1>3, <3>1 DEF WorkOK, Acting, Relies, Holds, checkout
    <3>2. CASE at[p] # "created"
      BY <1>3, <3>2 DEF Acting, Relies, Holds
    <3> QED  BY <3>1, <3>2
  <2>3. \A q \in Procs \ {p} : Acting(q)' => Acting(q)
    BY <1>3 DEF Acting, Relies, Holds, checkout
  <2>4. LandsOnVerifiedMain'
    BY <2>2, <2>3 DEF LandsOnVerifiedMain, checkout
  <2> QED  BY <2>1, <2>4
<1>4. ASSUME NEW p \in Procs, Quiet(p), at'[p] # "holding",
             use'[p] \in {"gate", "fetch", "settle"} =>
                 use[p] \notin {"gate", "settle"} /\ use'[p] # "settle" /\ use[p] = "fetch"
      PROVE  WorkOK' /\ LandsOnVerifiedMain'
  <2>1. WorkOK'
    BY <1>4 DEF WorkOK, checkout
  <2>2. \A q \in Procs : Acting(q)' => q # p /\ Acting(q)
    BY <1>4 DEF Acting, Relies, Holds, checkout
  <2>4. LandsOnVerifiedMain'
    BY <2>2 DEF LandsOnVerifiedMain, checkout
  <2> QED  BY <2>1, <2>4
<1> HIDE DEF Quiet, Fresh
<1>5. ASSUME NEW p \in Procs, LockStep(p) \/ ReadBack(p) \/ Unlink(p) \/ Close(p)
      PROVE  WorkOK' /\ LandsOnVerifiedMain'
  <2>1. CASE Ask(p) \/ CreateFile(p) \/ WriteStamp(p) \/ FileExists(p) \/ Nap(p)
    <3>1. /\ Quiet(p) /\ use'[p] = use[p]
          /\ Fresh(p) => at[p] \in {"out", "asking", "refused", "created"}
          /\ at'[p] = "holding" => at[p] = "created"
      BY <2>1 DEF Ask, CreateFile, WriteStamp, FileExists, Nap, Goes, Quiet, Fresh
    <3> QED  BY <3>1, <1>3
  <2>2. CASE ReadBack(p) \/ Unlink(p)
    <3>1. /\ Quiet(p) /\ use'[p] = use[p] /\ ~Fresh(p) /\ at'[p] # "holding"
      BY <2>2 DEF ReadBack, Unlink, Goes, Quiet, Fresh
    <3> QED  BY <3>1, <1>3
  <2>3. CASE Wait(p)
    BY <2>3, <1>2 DEF Wait
  <2>4. CASE GiveUp(p) \/ Crash(p) \/ Close(p)
    <3>1. /\ Quiet(p) /\ at'[p] # "holding"
          /\ use'[p] \in {"gate", "fetch", "settle"} =>
                 use[p] \notin {"gate", "settle"} /\ use'[p] # "settle" /\ use[p] = "fetch"
      BY <2>4 DEF GiveUp, Crash, Close, AfterHeld, AfterUse, Goes, Quiet
    <3> QED  BY <3>1, <1>4
  <2> QED  BY <1>5, <2>1, <2>2, <2>3, <2>4 DEF LockStep
<1>6. ASSUME NEW r \in Runs, EndRow(r) PROVE WorkOK' /\ LandsOnVerifiedMain'
  BY <1>6, <1>2 DEF EndRow
<1>7. ASSUME NEW s \in Sweepers, SweepStep(s) PROVE WorkOK' /\ LandsOnVerifiedMain'
  BY <1>7, <1>2 DEF SweepStep, JudgeDead, SweepAgain, FlockDead, RemoveDead
<1> QED  BY <1>1, <1>5, <1>6, <1>7 DEF LockNext

\* What is done under the lock, and the factory's fast-forward.
LEMMA WorkKeepsInv ==
  ASSUME CheckoutInv, UNCHANGED lockVars,
         (\E p \in Procs : UnderTheLock(p)) \/ ForwardFactory
  PROVE  CheckoutInv'
<1> USE DEF CheckoutInv
<1>1. LockInv' /\ TypeOK'
  BY DEF LockInv, lockVars, TypeOK, PathOK, ArbiterOK, Owns
<1>2. SUFFICES /\ work' \in [Procs -> Works] /\ drift' \in [Procs -> SUBSET Movers]
               /\ WorkOK' /\ LandsOnVerifiedMain'
  BY <1>1 DEF CheckoutTypeOK
<1>w. work \in [Procs -> Works] /\ drift \in [Procs -> SUBSET Movers]
  BY DEF CheckoutTypeOK
<1>s. UNCHANGED <<at, use>>
  BY DEF lockVars
<1>3. ASSUME NEW p \in Procs, NEW m \in Movers, at[p] = "holding", MovesMain(m),
             Acting(p) => m = p, UNCHANGED work
      PROVE  /\ work' \in [Procs -> Works] /\ drift' \in [Procs -> SUBSET Movers]
             /\ WorkOK' /\ LandsOnVerifiedMain'
  <2>1. \A q \in Procs : Acting(q)' => Acting(q)
    BY <1>3, <1>s DEF Acting, Relies, Holds
  <2>2. WorkOK'
    BY <1>3, <1>s DEF WorkOK
  <2> QED  BY <1>3, <1>w, <2>1, <2>2, HolderMovesAlone DEF LandsOnVerifiedMain
<1>4. ASSUME NEW p \in Procs, NEW w \in Works, Does(p, w), at[p] = "holding",
             use[p] # "fetch",
             \A q \in Procs \ {p} : Acting(q) => drift'[q] \subseteq {q, "factory"},
             w \in {"based", "recorded"} => drift'[p] \subseteq {p, "factory"},
             drift' \in [Procs -> SUBSET Movers]
      PROVE  /\ work' \in [Procs -> Works] /\ drift' \in [Procs -> SUBSET Movers]
             /\ WorkOK' /\ LandsOnVerifiedMain'
  <2>1. /\ work' \in [Procs -> Works] /\ work'[p] = w
        /\ \A q \in Procs \ {p} : work'[q] = work[q]
    BY <1>4, <1>w DEF Does
  <2>2. WorkOK'
    BY <1>4, <1>s, <2>1 DEF WorkOK
  <2>3. LandsOnVerifiedMain'
    BY <1>4, <1>s, <2>1 DEF LandsOnVerifiedMain, Acting, Relies, Holds
  <2> QED  BY <1>4, <2>1, <2>2, <2>3
<1>5. ASSUME NEW p \in Procs, UnderTheLock(p)
      PROVE  /\ work' \in [Procs -> Works] /\ drift' \in [Procs -> SUBSET Movers]
             /\ WorkOK' /\ LandsOnVerifiedMain'
  <2>1. CASE ForwardMain(p)
    <3>1. ~Acting(p)
      BY <2>1 DEF ForwardMain, Holds, Acting, Relies
    <3> QED  BY <2>1, <3>1, <1>3 DEF ForwardMain, Holds, Movers
  <2>2. CASE SyncMain(p)
    <3>1. /\ drift' \in [Procs -> SUBSET Movers] /\ drift'[p] = {}
          /\ \A q \in Procs \ {p} : drift'[q] = drift[q]
      BY <2>2, <1>w DEF SyncMain
    <3> QED  BY <2>2, <3>1, <1>4 DEF SyncMain, Holds, Works, LandsOnVerifiedMain
  <2>3. CASE RecordFindings(p) \/ Land(p)
    <3>1. /\ at[p] = "holding" /\ use[p] = "gate" /\ Acting(p) /\ MovesMain(p)
          /\ p \in Movers
      BY <2>3 DEF RecordFindings, Land, Holds, Acting, Relies, Movers
    <3>2. /\ drift' \in [Procs -> SUBSET Movers]
          /\ \A q \in Procs : Acting(q) => drift'[q] \subseteq {q, "factory"}
      BY <3>1, HolderMovesAlone
    <3> QED  BY <2>3, <3>1, <3>2, <1>4 DEF RecordFindings, Land, Works
  <2>4. CASE CommitFindings(p)
    <3>1. ~Acting(p)
      BY <2>4 DEF CommitFindings, Acting, Relies
    <3> QED  BY <2>4, <3>1, <1>3 DEF CommitFindings, Holds, Movers
  <2>5. CASE CheckTip(p)
    BY <2>5, <1>4, <1>w DEF CheckTip, Holds, Works, LandsOnVerifiedMain
  <2>6. CASE CloseStory(p)
    BY <2>6, <1>4, <1>w DEF CloseStory, Holds, Works, LandsOnVerifiedMain
  <2> QED  BY <1>5, <2>1, <2>2, <2>3, <2>4, <2>5, <2>6 DEF UnderTheLock
<1>6. ASSUME ForwardFactory
      PROVE  /\ work' \in [Procs -> Works] /\ drift' \in [Procs -> SUBSET Movers]
             /\ WorkOK' /\ LandsOnVerifiedMain'
  <2>1. /\ drift' \in [Procs -> SUBSET Movers] /\ UNCHANGED work
        /\ \A q \in Procs : drift'[q] \subseteq drift[q] \cup {"factory"}
    BY <1>6, <1>w DEF ForwardFactory, MovesMain, Movers
  <2> QED  BY <2>1, <1>w, <1>s DEF WorkOK, LandsOnVerifiedMain, Acting, Relies, Holds
<1> QED  BY <1>2, <1>5, <1>6

\* In every reachable state the lock has one holder at most, and whoever works on
\* main under it relies on nothing that another has moved.
THEOREM CheckoutInvariant == Spec => []CheckoutInv
<1>1. Init => CheckoutInv
  <2> SUFFICES ASSUME Init PROVE CheckoutInv
    OBVIOUS
  <2>1. LockInv /\ TypeOK
    BY LockInitially DEF Init, LockInv
  <2>2. CheckoutTypeOK
    BY <2>1 DEF Init, CheckoutTypeOK, Works
  <2>3. WorkOK
    BY DEF Init, LockInit, WorkOK, Procs
  <2>4. LandsOnVerifiedMain
    BY DEF Init, LandsOnVerifiedMain, Acting, Relies
  <2> QED  BY <2>1, <2>2, <2>3, <2>4 DEF CheckoutInv
<1>2. CheckoutInv /\ [Next]_vars => CheckoutInv'
  <2> SUFFICES ASSUME CheckoutInv, [Next]_vars PROVE CheckoutInv'
    OBVIOUS
  <2>1. CASE LockProtocol /\ UNCHANGED checkout
    BY <2>1, LockInductive, LockGrantsNoWork DEF CheckoutInv, LockProtocol, LockNext
  <2>2. ASSUME NEW p \in Procs, Leave(p) PROVE CheckoutInv'
    <3>1. LockNext /\ UNCHANGED checkout
      BY <2>2 DEF Leave, LockNext
    <3> QED  BY <3>1, LockInductive, LockGrantsNoWork DEF CheckoutInv
  <2>3. ASSUME NEW p \in Procs, UnderTheLock(p) PROVE CheckoutInv'
    <3>1. UNCHANGED lockVars
      BY <2>3 DEF UnderTheLock, ForwardMain, SyncMain, RecordFindings, Land,
                  CommitFindings, CheckTip, CloseStory
    <3> QED  BY <2>3, <3>1, WorkKeepsInv
  <2>4. CASE ForwardFactory
    BY <2>4, WorkKeepsInv DEF ForwardFactory
  <2>5. CASE UNCHANGED vars
    BY <2>5 DEF vars, lockVars, CheckoutInv, LockInv, TypeOK, PathOK, ArbiterOK, Owns,
                CheckoutTypeOK, WorkOK, LandsOnVerifiedMain, Acting, Relies, Holds
  <2> QED  BY <2>1, <2>2, <2>3, <2>4, <2>5 DEF Next
<1> QED  BY <1>1, <1>2, PTL DEF Spec

\* The lock, the work done under it and the record of who moved main stay in
\* their types.
THEOREM CheckoutTyped == Spec => []CheckoutTypeOK
<1>1. CheckoutInv => CheckoutTypeOK
  BY DEF CheckoutInv
<1> QED  BY <1>1, CheckoutInvariant, PTL

\* main stands still under whoever acts on its tip, the factory's own
\* fast-forward excepted.
THEOREM CheckoutCorrect == Spec => []LandsOnVerifiedMain
<1>1. CheckoutInv => LandsOnVerifiedMain
  BY DEF CheckoutInv
<1> QED  BY <1>1, CheckoutInvariant, PTL

-----------------------------------------------------------------------------
HoldersNow == {p \in Procs : at[p] \in {"holding", "leaving"}}
AliveNow == {p \in Procs : at[p] # "dead"}

\* The lock's steps as steps of the turn: a stamp takes it, an unlink gives it
\* back, and the other steps that move a process move it elsewhere.
LEMMA LockIsTurn ==
  ASSUME LockInv, LockNext
  PROVE  \/ Turn!TurnNext
         \/ UNCHANGED <<HoldersNow, AliveNow>>
<1> USE DEF HoldersNow, AliveNow, Places
<1>1. ASSUME NEW p \in Procs, NEW place \in Places \ {"holding", "leaving", "dead"},
             Goes(p, place), at[p] \notin {"holding", "leaving", "dead"}
      PROVE  UNCHANGED <<HoldersNow, AliveNow>>
  BY <1>1, PlacesOf DEF LockInv
<1>2. ASSUME NEW p \in Procs, WriteStamp(p)
      PROVE  Turn!TurnNext
  <2>1. at'[p] = "holding" /\ \A q \in Procs \ {p} : at'[q] = at[q]
    BY <1>2, PlacesOf DEF WriteStamp, LockInv
  <2>2. HoldersNow = {} /\ p \in AliveNow
    BY <1>2, OneHolder DEF WriteStamp, Owns
  <2>3. HoldersNow' = {p} /\ AliveNow' = AliveNow
    BY <2>1, <2>2
  <2>4. Turn!TakeTurn(p)
    BY <2>2, <2>3 DEF Turn!TakeTurn
  <2> QED  BY <2>4 DEF Turn!TurnNext
<1>3. ASSUME NEW p \in Procs, ReadBack(p)
      PROVE  UNCHANGED <<HoldersNow, AliveNow>>
  <2>1. path = p
    BY <1>3 DEF ReadBack, LockInv, PathOK, Owns
  <2>2. at'[p] = "leaving" /\ \A q \in Procs \ {p} : at'[q] = at[q]
    BY <1>3, <2>1, PlacesOf DEF ReadBack, LockInv
  <2> QED  BY <1>3, <2>2 DEF ReadBack
<1>4. ASSUME NEW p \in Procs, Unlink(p)
      PROVE  Turn!TurnNext
  <2>1. at'[p] = "closing" /\ \A q \in Procs \ {p} : at'[q] = at[q]
    BY <1>4, PlacesOf DEF Unlink, LockInv
  <2>2. p \in HoldersNow \cap AliveNow
    BY <1>4 DEF Unlink
  <2>3. HoldersNow' = HoldersNow \ {p} /\ AliveNow' = AliveNow
    BY <1>4, <2>1, <2>2
  <2>4. Turn!GiveTurn(p)
    BY <2>2, <2>3 DEF Turn!GiveTurn
  <2> QED  BY <2>4 DEF Turn!TurnNext
<1>5. ASSUME NEW p \in Procs, Crash(p)
      PROVE  Turn!TurnNext
  <2>1. at'[p] = "dead" /\ \A q \in Procs \ {p} : at'[q] = at[q]
    BY <1>5, PlacesOf DEF Crash, LockInv
  <2>2. p \in AliveNow
    BY <1>5 DEF Crash
  <2>3. HoldersNow' = HoldersNow \ {p} /\ AliveNow' = AliveNow \ {p}
    BY <2>1, <2>2
  <2>4. Turn!Die(p)
    BY <2>2, <2>3 DEF Turn!Die
  <2> QED  BY <2>4 DEF Turn!TurnNext
<1>6. ASSUME NEW p \in Procs, LockStep(p)
      PROVE  Turn!TurnNext \/ UNCHANGED <<HoldersNow, AliveNow>>
  <2>1. CASE Ask(p) \/ FileExists(p) \/ Nap(p) \/ GiveUp(p) \/ CreateFile(p)
    BY <2>1, <1>1 DEF Ask, FileExists, Nap, GiveUp, CreateFile
  <2>2. CASE Wait(p)
    BY <2>2 DEF Wait
  <2> QED  BY <1>6, <1>2, <1>5, <2>1, <2>2 DEF LockStep
<1>7. ASSUME NEW p \in Procs, Close(p)
      PROVE  UNCHANGED <<HoldersNow, AliveNow>>
  BY <1>7, <1>1 DEF Close
<1>8. ASSUME NEW r \in Runs, EndRow(r)
      PROVE  UNCHANGED <<HoldersNow, AliveNow>>
  BY <1>8 DEF EndRow
<1>9. ASSUME NEW s \in Sweepers, SweepStep(s)
      PROVE  UNCHANGED <<HoldersNow, AliveNow>>
  BY <1>9 DEF SweepStep, JudgeDead, SweepAgain, FlockDead, RemoveDead
<1> QED  BY <1>3, <1>4, <1>6, <1>7, <1>8, <1>9 DEF LockNext

\* The file, the flocks and the arbiter implement the turn: a file somebody
\* holds is never removed, replaced or created beside.
THEOREM TurnImplemented == Spec => TurnTaken
<1>1. Init => Turn!TurnInit
  BY DEF Init, LockInit, Turn!TurnInit
<1>2. LockInv /\ [Next]_vars => [Turn!TurnNext]_(Turn!turnVars)
  <2> SUFFICES ASSUME LockInv, [Next]_vars
               PROVE  [Turn!TurnNext]_(Turn!turnVars)
    OBVIOUS
  <2>1. CASE LockNext
    BY <2>1, LockIsTurn DEF Turn!turnVars, HoldersNow, AliveNow
  <2>2. CASE UNCHANGED lockVars
    BY <2>2 DEF lockVars, Turn!turnVars
  <2> QED  BY <2>1, <2>2, StepsOfTheLock
<1> QED  BY <1>1, <1>2, LockInvariant, PTL DEF Spec, TurnTaken, Turn!TurnSpec
=============================================================================
