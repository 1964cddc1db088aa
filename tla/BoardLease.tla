------------------------------ MODULE BoardLease ------------------------------
(****************************************************************************)
(* The lease of one ticket between writer hosts (loop/claim.py,             *)
(* board/projection.py): each host has a store of its own, whose lease is   *)
(* atomic, and says so to the others by a label on the board's issue, which *)
(* has no compare-and-swap.  A label is added, then the labels are read     *)
(* back; a host that sees another's takes its own off.                      *)
(*                                                                          *)
(* A run is one claim of the ticket by one host.  Whether the ticket is     *)
(* ready for it is left open: any host may list it at any time.             *)
(****************************************************************************)
EXTENDS Naturals

CONSTANTS
    Hosts,      \* the writer hosts, each the name its label carries
    MaxClaims   \* claims of the ticket by each

ASSUME LeaseParameters == MaxClaims \in Nat

Runs == Hosts \X (1..MaxClaims)
Host(r) == r[1]
NoRun == <<>>

VARIABLES
    labels,  \* the hosts whose label the issue has
    late,    \* a removal of each host's label that raised: may it still land?
    lease,   \* each store's activeRunId for the ticket
    at,      \* where each run's process is in its claim
    stale,   \* the listing showed the run's host its own label
    closer   \* where the close-out of each run's label is

vars == <<labels, late, lease, at, stale, closer>>

InTurn == {"claimed", "dropped", "labelled", "refusing", "releasing"}

\* The values the labels, the leases and each run's place in claim.py range
\* over.
TypeOK == /\ labels \subseteq Hosts
          /\ late \in [Hosts -> {"no", "pending", "landed"}]
          /\ lease \in [Hosts -> Runs \cup {NoRun}]
          /\ at \in [Runs -> {"out", "listed", "working", "done", "dead"} \cup InTurn]
          /\ stale \in [Runs -> BOOLEAN]
          /\ closer \in [Runs -> {"no", "owed", "looked"}]

Init == /\ labels = {}
        /\ late = [h \in Hosts |-> "no"]
        /\ lease = [h \in Hosts |-> NoRun]
        /\ at = [r \in Runs |-> "out"]
        /\ stale = [r \in Runs |-> FALSE]
        /\ closer = [r \in Runs |-> "no"]

Goes(r, place) == at' = [at EXCEPT ![r] = place]
Leased(r) == lease[Host(r)] = r
Foreign(h) == labels \ {h}

\* lease_turn(): a flock beside the store, freed with the process that has it.
TurnFree(h) == \A r \in Runs : Host(r) = h => at[r] \notin InTurn /\ closer[r] # "looked"

\* unlabel_issue(), and drop_lease_label(), which goes on when it raises: the
\* label is off, or still there, or comes off later.
Unlabel(h) == \/ labels' = labels \ {h} /\ UNCHANGED late
              \/ UNCHANGED <<labels, late>>
              \/ late' = [late EXCEPT ![h] = "pending"] /\ UNCHANGED labels

(********************************* the claim ********************************)

\* The ready listing, and admission: a ticket another host labelled is skipped.
\* A host's claims are numbered in the order they list it.
List(r) == /\ at[r] = "out"
           /\ \A q \in Runs : Host(q) = Host(r) /\ q[2] < r[2] => at[q] # "out"
           /\ Foreign(Host(r)) = {}
           /\ stale' = [stale EXCEPT ![r] = Host(r) \in labels]
           /\ Goes(r, "listed")
           /\ UNCHANGED <<labels, late, lease, closer>>

\* Mutant: the lease names the host.
ClaimForHost(r) == /\ at[r] = "listed"
                   /\ TurnFree(Host(r))
                   /\ lease[Host(r)] = NoRun
                   /\ lease' = [lease EXCEPT ![Host(r)] = Host(r)]
                   /\ Goes(r, IF stale[r] THEN "claimed" ELSE "dropped")
                   /\ stale' = [stale EXCEPT ![r] = FALSE]
                   /\ UNCHANGED <<labels, late, closer>>

\* store.claim() under the turn...
Claim(r) == /\ at[r] = "listed"
            /\ TurnFree(Host(r))
            /\ lease[Host(r)] = NoRun
            /\ lease' = [lease EXCEPT ![Host(r)] = r]
            /\ Goes(r, IF stale[r] THEN "claimed" ELSE "dropped")
            /\ stale' = [stale EXCEPT ![r] = FALSE]
            /\ UNCHANGED <<labels, late, closer>>

\* ...or its conflict with a sibling's.
ClaimHeld(r) == /\ at[r] = "listed"
                /\ TurnFree(Host(r))
                /\ lease[Host(r)] # NoRun
                /\ Goes(r, "done")
                /\ UNCHANGED <<labels, late, lease, stale, closer>>

\* The host's own label of the listing is a stale one.
DropStale(r) == /\ at[r] = "claimed"
                /\ Unlabel(Host(r))
                /\ Goes(r, "dropped")
                /\ UNCHANGED <<lease, stale, closer>>

\* label_issue(): a raise is no proof that the add did not land.
Label(r) == /\ at[r] = "dropped"
            /\ \/ labels' = labels \cup {Host(r)} /\ Goes(r, "labelled")
               \/ labels' = labels \cup {Host(r)} /\ Goes(r, "refusing")
               \/ UNCHANGED labels /\ Goes(r, "refusing")
            /\ UNCHANGED <<late, lease, stale, closer>>

\* Mutant: the labels are not read back.
ReadBackNothing(r) == /\ at[r] = "labelled"
                      /\ Goes(r, "working")
                      /\ UNCHANGED <<labels, late, lease, stale, closer>>

\* issue_labels(), which may raise: the run goes on if no other host's label is
\* there. Its own is not looked for.
ReadBack(r) == /\ at[r] = "labelled"
               /\ \/ Foreign(Host(r)) = {} /\ Goes(r, "working")
                  \/ Goes(r, "refusing")
               /\ UNCHANGED <<labels, late, lease, stale, closer>>

DropOwn(r) == /\ at[r] = "refusing"
              /\ Unlabel(Host(r))
              /\ Goes(r, "releasing")
              /\ UNCHANGED <<lease, stale, closer>>

\* release(), which a sweep may have come before.
GiveBack(r) == /\ at[r] = "releasing"
               /\ lease' = [lease EXCEPT ![Host(r)] = IF @ = r THEN NoRun ELSE @]
               /\ Goes(r, "done")
               /\ UNCHANGED <<labels, late, stale, closer>>

(***************************** the run's endings ****************************)

\* The run merges, fails, parks, is handed off or stopped, or finds its ticket
\* not ready: release() first, then the label.
EndRun(r) == /\ at[r] = "working"
             /\ Leased(r)
             /\ lease' = [lease EXCEPT ![Host(r)] = NoRun]
             /\ Goes(r, "done")
             /\ closer' = [closer EXCEPT ![r] = "owed"]
             /\ UNCHANGED <<labels, late, stale>>

\* A process that dies before its close-out is done leaves the label.
Crash(r) == /\ \/ /\ at[r] \in InTurn \cup {"working"}
                  /\ Goes(r, "dead")
                  /\ UNCHANGED closer
               \/ /\ closer[r] # "no"
                  /\ closer' = [closer EXCEPT ![r] = "no"]
                  /\ UNCHANGED at
            /\ UNCHANGED <<labels, late, lease, stale>>

\* A sweep fails a silent run, dead or not; a worker that lives finds out and
\* stops without a close-out.
Sweep(r) == /\ Leased(r)
            /\ lease' = [lease EXCEPT ![Host(r)] = NoRun]
            /\ at' = [at EXCEPT ![r] = IF @ = "working" THEN "done" ELSE @]
            /\ closer' = [closer EXCEPT ![r] = "owed"]
            /\ UNCHANGED <<labels, late, stale>>

\* A zombie of the claim that the sweep ended finds out at its first turn.
FindsOut(r) == /\ at[r] = "working"
               /\ ~Leased(r)
               /\ Goes(r, "done")
               /\ UNCHANGED <<labels, late, lease, stale, closer>>

\* --requeue, and the close-outs a reconcile makes of a run that has ended.
CloseAgain(r) == /\ at[r] \in {"done", "dead"}
                 /\ ~Leased(r)
                 /\ closer[r] = "no"
                 /\ closer' = [closer EXCEPT ![r] = "owed"]
                 /\ UNCHANGED <<labels, late, lease, at, stale>>

\* Mutant: a late close-out takes the label off whoever has the ticket.
LookAtNothing(r) == /\ closer[r] = "owed"
                    /\ TurnFree(Host(r))
                    /\ closer' = [closer EXCEPT ![r] = "looked"]
                    /\ UNCHANGED <<labels, late, lease, at, stale>>

\* release_lease_label(): under the turn, unless another run has the ticket.
Look(r) == /\ closer[r] = "owed"
           /\ TurnFree(Host(r))
           /\ closer' = [closer EXCEPT
                 ![r] = IF lease[Host(r)] \in {NoRun, r} THEN "looked" ELSE "no"]
           /\ UNCHANGED <<labels, late, lease, at, stale>>

TakeOff(r) == /\ closer[r] = "looked"
              /\ Unlabel(Host(r))
              /\ closer' = [closer EXCEPT ![r] = "no"]
              /\ UNCHANGED <<lease, at, stale>>

\* The board carries out a removal its caller has given up on.
LandLate(h) == /\ late[h] = "pending"
               /\ late' = [late EXCEPT ![h] = "landed"]
               /\ labels' = labels \ {h}
               /\ UNCHANGED <<lease, at, stale, closer>>

RunStep(r) == \/ List(r) \/ Claim(r) \/ ClaimHeld(r) \/ DropStale(r) \/ Label(r)
              \/ ReadBack(r) \/ DropOwn(r) \/ GiveBack(r)
              \/ EndRun(r) \/ Crash(r) \/ Sweep(r) \/ FindsOut(r)
              \/ CloseAgain(r) \/ Look(r) \/ TakeOff(r)

Next == \/ \E r \in Runs : RunStep(r)
        \/ \E h \in Hosts : LandLate(h)

Spec == Init /\ [][Next]_vars

(******************************** properties ********************************)

Works(r) == at[r] = "working" /\ Leased(r)

\* Before any removal has landed late: no two runs work the ticket at once, on
\* one host or on two, whichever calls fail and whoever dies or is swept.
OneRunWorks == \A r, q \in Runs :
    Works(r) /\ Works(q) /\ r # q => "landed" \in {late[Host(r)], late[Host(q)]}

\* docs/loop.md:31-41: no late close-out, stale label or other claim strips the
\* label of a run that works; only a removal that lands late does.
LabelKept == \A r \in Runs : Works(r) /\ late[Host(r)] # "landed" => Host(r) \in labels
===============================================================================
