------------------------------ MODULE TicketLease ------------------------------
(***************************************************************************)
(* What the store promises of a ticket's lease, with the runs' phases, the *)
(* board and the ticket's status left out: one run at a time holds it, a   *)
(* run is granted it once, and it passes from one run to the next only by  *)
(* being given back, which is recorded.                                    *)
(***************************************************************************)
EXTENDS Naturals

CONSTANTS Tickets, NoTicket, RunIds, NoRun

VARIABLES
  holder,   \* the run that holds each ticket's lease, or NoRun
  last,     \* the run that gave each ticket's lease back last, or NoRun
  granted   \* the ticket each run was granted, or NoTicket

vars == <<holder, last, granted>>

Init ==
  /\ holder = [t \in Tickets |-> NoRun]
  /\ last = [t \in Tickets |-> NoRun]
  /\ granted = [r \in RunIds |-> NoTicket]

Grant(t, r) ==
  /\ holder[t] = NoRun
  /\ granted[r] = NoTicket
  /\ holder' = [holder EXCEPT ![t] = r]
  /\ granted' = [granted EXCEPT ![r] = t]
  /\ UNCHANGED last

GiveBack(t) ==
  /\ holder[t] # NoRun
  /\ holder' = [holder EXCEPT ![t] = NoRun]
  /\ last' = [last EXCEPT ![t] = holder[t]]
  /\ UNCHANGED granted

Next == \E t \in Tickets : GiveBack(t) \/ \E r \in RunIds : Grant(t, r)

Spec == Init /\ [][Next]_vars

\* A lease that is granted is given back in the end.
LiveSpec == Spec /\ \A t \in Tickets : WF_vars(GiveBack(t))

=============================================================================
