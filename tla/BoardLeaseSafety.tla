--------------------------- MODULE BoardLeaseSafety ---------------------------
(****************************************************************************)
(* The board's lease for any number of hosts and claims: a label is taken   *)
(* off under the turn alone, and whoever has the turn finds no other run    *)
(* of its host holding the ticket.                                          *)
(****************************************************************************)
EXTENDS BoardLease, TLAPS

\* Under the turn the store's lease is the run's own or nobody's; a close-out
\* that goes on found nobody's, and is of a run that has ended.
TurnOwns == \A r \in Runs :
    /\ at[r] \in InTurn => lease[Host(r)] \in {NoRun, r}
    /\ closer[r] = "looked" => lease[Host(r)] = NoRun
    /\ closer[r] # "no" => at[r] \notin {"out", "listed"} /\ ~Leased(r)
    /\ at[r] \in {"out", "listed"} => ~Leased(r)

\* From the add of its label on, a leased run's host is labelled.
Labelled == \A r \in Runs :
    Leased(r) /\ at[r] \in {"labelled", "working"} /\ late[Host(r)] # "landed"
        => Host(r) \in labels

LeaseInv == TypeOK /\ TurnOwns /\ Labelled /\ OneRunWorks

\* A run is of a host of the model.
LEMMA HostType == \A r \in Runs : Host(r) \in Hosts
BY DEF Runs, Host

\* The mark of a free lease is no run.
LEMMA NoRunIsNone == NoRun \notin Runs
BY DEF Runs, NoRun

\* With no label on the ticket and every run out, the invariant holds.
LEMMA Initial == Init => LeaseInv
BY HostType, NoRunIsNone DEF Init, LeaseInv, TypeOK, TurnOwns, Labelled, OneRunWorks, Works, Leased,
     InTurn

\* Taking a host's own label off, whether or not the call is answered, touches
\* that host's label alone.
LEMMA UnlabelType ==
    ASSUME TypeOK, NEW h \in Hosts, Unlabel(h)
    PROVE  /\ labels' \subseteq Hosts /\ late' \in [Hosts -> {"no", "pending", "landed"}]
           /\ \A g \in Hosts : g # h => late'[g] = late[g] /\ (g \in labels' <=> g \in labels)
BY DEF Unlabel, TypeOK

\* Every step keeps the types.
LEMMA TypeStep == ASSUME TypeOK, [Next]_vars PROVE TypeOK'
<1> USE HostType, NoRunIsNone DEF TypeOK, InTurn, Goes
<1>1. ASSUME NEW r \in Runs, RunStep(r) PROVE TypeOK'
  <2>1. CASE List(r)
    BY <2>1 DEF List
  <2>2. CASE Claim(r)
    BY <2>2 DEF Claim
  <2>3. CASE ClaimHeld(r)
    BY <2>3 DEF ClaimHeld
  <2>4. CASE DropStale(r)
    BY <2>4, UnlabelType DEF DropStale
  <2>5. CASE Label(r)
    BY <2>5 DEF Label
  <2>6. CASE ReadBack(r)
    BY <2>6 DEF ReadBack
  <2>7. CASE DropOwn(r)
    BY <2>7, UnlabelType DEF DropOwn
  <2>8. CASE GiveBack(r)
    BY <2>8 DEF GiveBack
  <2>9. CASE EndRun(r)
    BY <2>9 DEF EndRun
  <2>10. CASE Crash(r)
    BY <2>10 DEF Crash
  <2>11. CASE Sweep(r)
    BY <2>11 DEF Sweep
  <2>12. CASE FindsOut(r)
    BY <2>12 DEF FindsOut
  <2>13. CASE CloseAgain(r)
    BY <2>13 DEF CloseAgain
  <2>14. CASE Look(r)
    BY <2>14 DEF Look
  <2>15. CASE TakeOff(r)
    BY <2>15, UnlabelType DEF TakeOff
  <2> QED BY <1>1, <2>1, <2>2, <2>3, <2>4, <2>5, <2>6, <2>7, <2>8, <2>9, <2>10, <2>11, <2>12,
             <2>13, <2>14, <2>15 DEF RunStep
<1>2. ASSUME NEW h \in Hosts, LandLate(h) PROVE TypeOK'
  BY <1>2 DEF LandLate
<1>3. CASE UNCHANGED vars
  BY <1>3 DEF vars
<1> QED BY <1>1, <1>2, <1>3 DEF Next

\* A step that takes no lease, enters no turn and closes out nothing.
LEMMA TurnStep == ASSUME LeaseInv, [Next]_vars PROVE TurnOwns'
<1> SUFFICES ASSUME NEW q \in Runs
             PROVE  (/\ at[q] \in InTurn => lease[Host(q)] \in {NoRun, q}
                     /\ closer[q] = "looked" => lease[Host(q)] = NoRun
                     /\ closer[q] # "no" => at[q] \notin {"out", "listed"} /\ ~Leased(q)
                     /\ at[q] \in {"out", "listed"} => ~Leased(q))'
    BY DEF TurnOwns
<1> DEFINE Own == /\ at[q] \in InTurn => lease[Host(q)] \in {NoRun, q}
                  /\ closer[q] = "looked" => lease[Host(q)] = NoRun
                  /\ closer[q] # "no" => at[q] \notin {"out", "listed"} /\ ~Leased(q)
                  /\ at[q] \in {"out", "listed"} => ~Leased(q)
<1> USE HostType, NoRunIsNone DEF LeaseInv, TypeOK, TurnOwns, InTurn, Goes, Leased
<1>1. ASSUME NEW r \in Runs, RunStep(r) PROVE Own'
  <2>1. CASE List(r)
    BY <2>1 DEF List
  <2>2. CASE Claim(r)
    BY <2>2 DEF Claim, TurnFree
  <2>3. CASE ClaimHeld(r)
    BY <2>3 DEF ClaimHeld
  <2>4. CASE DropStale(r)
    BY <2>4 DEF DropStale
  <2>5. CASE Label(r)
    BY <2>5 DEF Label
  <2>6. CASE ReadBack(r)
    BY <2>6 DEF ReadBack
  <2>7. CASE DropOwn(r)
    BY <2>7 DEF DropOwn
  <2>8. CASE GiveBack(r)
    BY <2>8 DEF GiveBack
  <2>9. CASE EndRun(r)
    BY <2>9 DEF EndRun
  <2>10. CASE Crash(r)
    BY <2>10 DEF Crash
  <2>11. CASE Sweep(r)
    BY <2>11 DEF Sweep
  <2>12. CASE FindsOut(r)
    BY <2>12 DEF FindsOut
  <2>13. CASE CloseAgain(r)
    BY <2>13 DEF CloseAgain
  <2>14. CASE Look(r)
    BY <2>14 DEF Look
  <2>15. CASE TakeOff(r)
    BY <2>15 DEF TakeOff
  <2> QED BY <1>1, <2>1, <2>2, <2>3, <2>4, <2>5, <2>6, <2>7, <2>8, <2>9, <2>10, <2>11, <2>12,
             <2>13, <2>14, <2>15 DEF RunStep
<1>2. ASSUME NEW h \in Hosts, LandLate(h) PROVE Own'
  BY <1>2 DEF LandLate
<1>3. CASE UNCHANGED vars
  BY <1>3 DEF vars
<1> QED BY <1>1, <1>2, <1>3 DEF Next

\* A label that comes off is that of a host with no labelled run.
LEMMA UnlabelKeeps ==
    ASSUME LeaseInv, NEW h \in Hosts, Unlabel(h),
           \A q \in Runs : Host(q) = h => ~(Leased(q) /\ at[q] \in {"labelled", "working"}),
           NEW r \in Runs, Leased(r), at[r] \in {"labelled", "working"},
           late'[Host(r)] # "landed"
    PROVE  Host(r) \in labels'
<1>1. Host(r) \in Hosts /\ Host(r) # h
    BY HostType
<1> QED BY <1>1, UnlabelType DEF LeaseInv, Labelled

\* Every step keeps a labelled host's label on the ticket.
LEMMA LabelStep == ASSUME LeaseInv, [Next]_vars PROVE Labelled'
<1> SUFFICES ASSUME NEW q \in Runs,
                    (Leased(q) /\ at[q] \in {"labelled", "working"} /\ late[Host(q)] # "landed")'
             PROVE  (Host(q) \in labels)'
    BY DEF Labelled
<1> USE HostType, NoRunIsNone DEF LeaseInv, TypeOK, TurnOwns, Labelled, InTurn, Goes, Leased
<1>1. ASSUME NEW r \in Runs, RunStep(r) PROVE (Host(q) \in labels)'
  <2>1. CASE List(r) \/ ClaimHeld(r) \/ CloseAgain(r) \/ Look(r)
    BY <2>1 DEF List, ClaimHeld, CloseAgain, Look
  <2>2. CASE Claim(r)
    BY <2>2 DEF Claim
  <2>4. CASE DropStale(r)
    <3>1. Unlabel(Host(r)) /\ at'[q] = at[q] /\ lease' = lease
      BY <2>4 DEF DropStale
    <3>2. \A p \in Runs : Host(p) = Host(r) => ~(Leased(p) /\ at[p] \in {"labelled", "working"})
      BY <2>4 DEF DropStale
    <3> HIDE DEF LeaseInv
    <3> QED BY <3>1, <3>2, UnlabelKeeps
  <2>5. CASE Label(r)
    BY <2>5 DEF Label
  <2>6. CASE ReadBack(r)
    BY <2>6 DEF ReadBack
  <2>7. CASE DropOwn(r)
    <3>1. Unlabel(Host(r)) /\ at'[q] = at[q] /\ lease' = lease
      BY <2>7 DEF DropOwn
    <3>2. \A p \in Runs : Host(p) = Host(r) => ~(Leased(p) /\ at[p] \in {"labelled", "working"})
      BY <2>7 DEF DropOwn
    <3> HIDE DEF LeaseInv
    <3> QED BY <3>1, <3>2, UnlabelKeeps
  <2>8. CASE GiveBack(r)
    BY <2>8 DEF GiveBack
  <2>9. CASE EndRun(r)
    BY <2>9 DEF EndRun
  <2>10. CASE Crash(r)
    BY <2>10 DEF Crash
  <2>11. CASE Sweep(r)
    BY <2>11 DEF Sweep
  <2>12. CASE FindsOut(r)
    BY <2>12 DEF FindsOut
  <2>15. CASE TakeOff(r)
    <3>1. Unlabel(Host(r)) /\ at' = at /\ lease' = lease
      BY <2>15 DEF TakeOff
    <3>2. \A p \in Runs : Host(p) = Host(r) => ~(Leased(p) /\ at[p] \in {"labelled", "working"})
      BY <2>15 DEF TakeOff
    <3> HIDE DEF LeaseInv
    <3> QED BY <3>1, <3>2, UnlabelKeeps
  <2> QED BY <1>1, <2>1, <2>2, <2>4, <2>5, <2>6, <2>7, <2>8, <2>9, <2>10, <2>11, <2>12,
             <2>15 DEF RunStep
<1>2. ASSUME NEW h \in Hosts, LandLate(h) PROVE (Host(q) \in labels)'
  BY <1>2 DEF LandLate
<1>3. CASE UNCHANGED vars
  BY <1>3 DEF vars
<1> QED BY <1>1, <1>2, <1>3 DEF Next

\* No other step makes a run work, and a removal that has landed stays landed
\* or is followed by another.
LEMMA OthersStay ==
    ASSUME TypeOK, TurnOwns, [Next]_vars, NEW q \in Runs, ~ReadBack(q), Works(q)'
    PROVE  Works(q)
<1> USE HostType, NoRunIsNone DEF TypeOK, TurnOwns, InTurn, Goes, Leased, Works
<1>1. ASSUME NEW r \in Runs, RunStep(r) PROVE Works(q)
  BY <1>1 DEF RunStep, List, Claim, ClaimHeld, DropStale, Label, ReadBack, DropOwn, GiveBack, EndRun,
              Crash, Sweep, FindsOut, CloseAgain, Look, TakeOff
<1>2. ASSUME NEW h \in Hosts, LandLate(h) PROVE Works(q)
  BY <1>2 DEF LandLate
<1>3. CASE UNCHANGED vars
  BY <1>3 DEF vars
<1> QED BY <1>1, <1>2, <1>3 DEF Next

\* A label that may come off again is not that of a run that works.
LEMMA LandedStays ==
    ASSUME LeaseInv, [Next]_vars, NEW q \in Runs, Works(q), late[Host(q)] = "landed"
    PROVE  late'[Host(q)] = "landed"
<1> USE HostType, NoRunIsNone DEF LeaseInv, TypeOK, TurnOwns, InTurn, Leased, Works
<1>1. ASSUME NEW r \in Runs, RunStep(r) PROVE late'[Host(q)] = "landed"
  <2>1. CASE DropStale(r) \/ DropOwn(r) \/ TakeOff(r)
    <3>1. Host(r) # Host(q) /\ Unlabel(Host(r))
      BY <2>1 DEF DropStale, DropOwn, TakeOff
    <3> QED BY <3>1, UnlabelType
  <2>2. CASE ~(DropStale(r) \/ DropOwn(r) \/ TakeOff(r))
    BY <1>1, <2>2 DEF RunStep, List, Claim, ClaimHeld, Label, ReadBack, GiveBack, EndRun,
                      Crash, Sweep, FindsOut, CloseAgain, Look
  <2> QED BY <2>1, <2>2
<1>2. ASSUME NEW h \in Hosts, LandLate(h) PROVE late'[Host(q)] = "landed"
  BY <1>2 DEF LandLate
<1>3. CASE UNCHANGED vars
  BY <1>3 DEF vars
<1> QED BY <1>1, <1>2, <1>3 DEF Next

\* The second to read back would have seen the label of the first.
LEMMA SecondSeesFirst ==
    ASSUME LeaseInv, NEW q \in Runs, ReadBack(q), Works(q)',
           NEW r \in Runs, r # q, Works(r)
    PROVE  late'[Host(r)] = "landed"
<1>1. Leased(q) /\ at[q] = "labelled" /\ late' = late
  BY NoRunIsNone DEF ReadBack, Works, Leased, LeaseInv, TypeOK, Goes
<1>2. Host(r) # Host(q)
  BY <1>1 DEF Works, Leased
<1>3. Foreign(Host(q)) = {}
  BY DEF ReadBack, Works, LeaseInv, TypeOK, Goes
<1>4. Host(r) \notin labels
  BY <1>2, <1>3, HostType DEF Foreign
<1> QED BY <1>1, <1>4, HostType DEF LeaseInv, Labelled, Works, TypeOK

\* Every step keeps at most one run of a host at work.
LEMMA OneRunStep == ASSUME LeaseInv, [Next]_vars PROVE OneRunWorks'
<1> SUFFICES ASSUME NEW r \in Runs, NEW q \in Runs, Works(r)', Works(q)', r # q
             PROVE  "landed" \in {late'[Host(r)], late'[Host(q)]}
    BY DEF OneRunWorks
<1>1. CASE ~ReadBack(r) /\ ~ReadBack(q)
  <2>1. Works(r) /\ Works(q)
    BY <1>1, OthersStay DEF LeaseInv
  <2>2. "landed" \in {late[Host(r)], late[Host(q)]}
    BY <2>1 DEF LeaseInv, OneRunWorks
  <2> QED BY <2>1, <2>2, LandedStays
<1>2. CASE ReadBack(r)
  <2>1. ~ReadBack(q)
    BY <1>2, NoRunIsNone DEF ReadBack, Goes, LeaseInv, TypeOK, Works
  <2>2. Works(q)
    BY <2>1, OthersStay DEF LeaseInv
  <2> QED BY <1>2, <2>2, SecondSeesFirst
<1>3. CASE ReadBack(q)
  <2>1. ~ReadBack(r)
    BY <1>3, NoRunIsNone DEF ReadBack, Goes, LeaseInv, TypeOK, Works
  <2>2. Works(r)
    BY <2>1, OthersStay DEF LeaseInv
  <2> QED BY <1>3, <2>2, SecondSeesFirst
<1> QED BY <1>1, <1>2, <1>3

\* In every reachable state at most one run works the ticket, under its host's label.
THEOREM LeaseInvariant == Spec => []LeaseInv
<1>1. Init => LeaseInv
    BY Initial
<1>2. LeaseInv /\ [Next]_vars => LeaseInv'
    BY TypeStep, TurnStep, LabelStep, OneRunStep DEF LeaseInv
<1> QED BY <1>1, <1>2, PTL DEF Spec

\* The labels, the leases and each run's place in the claim stay in their types.
THEOREM LabelsTyped == Spec => []TypeOK
<1>1. LeaseInv => TypeOK
    BY DEF LeaseInv
<1> QED BY <1>1, LeaseInvariant, PTL

\* Two hosts, or two runs of one, never work the ticket at once, unless a removal
\* whose caller gave up on it has reached the board late.
THEOREM LeaseCorrect == Spec => []OneRunWorks
<1>1. LeaseInv => OneRunWorks
    BY DEF LeaseInv
<1> QED BY <1>1, LeaseInvariant, PTL

\* A run that works keeps its host's label: no close-out of another run, stale
\* label or refused claim takes it off.
THEOREM LabelStays == Spec => []LabelKept
<1>1. LeaseInv => LabelKept
    BY DEF LeaseInv, Labelled, LabelKept, Works
<1> QED BY <1>1, LeaseInvariant, PTL
===============================================================================
