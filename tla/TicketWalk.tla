------------------------------ MODULE TicketWalk ------------------------------
(***************************************************************************)
(* walk_ticket() and the breadth-first search under it, _status_path(),    *)
(* from any status to any other (store/tickets.py).  The lifecycle uses    *)
(* what this shows: CanWalk and WalkClearsPark of RunTables are what the   *)
(* search and the transitions along its path come to.                      *)
(***************************************************************************)
EXTENDS RunTables, Sequences, SequencesExt

VARIABLES
  from, to,   \* the ticket's status, and the one it is walked to
  frontier,   \* statuses reached and not expanded, each with its path
  seen,       \* statuses reached
  path,       \* what is left to walk once the search has found the target
  at,         \* the ticket's status on its way
  parkKind,   \* whether the ticket's runs still hold their park kind
  phase

vars == <<from, to, frontier, seen, path, at, parkKind, phase>>

Successors(s) == {q \in TicketStatuses : TicketMayMove(s, q)}

\* sorted() lists the neighbours of a status in alphabetical order.
Alphabetical == <<"abandoned", "blocked_on_deps", "blocked_on_operator",
                  "in_flight", "merged", "needs_spec", "ready">>
Before(p, q) == \E i, j \in DOMAIN Alphabetical :
                  i < j /\ Alphabetical[i] = p /\ Alphabetical[j] = q
Listings(S) == {o \in SetToSeqs(S) : \A i, j \in DOMAIN o : i < j => Before(o[i], o[j])}

\* The frontier's entries for statuses reached from found's, in their order.
Entries(found, fresh) ==
  [i \in DOMAIN fresh |-> [status |-> fresh[i], path |-> Append(found.path, fresh[i])]]

\* The values the search and the walk along its path range over.
TypeOK ==
  /\ from \in TicketStatuses /\ to \in TicketStatuses /\ at \in TicketStatuses
  /\ seen \subseteq TicketStatuses
  /\ frontier \in Seq([status : seen, path : Seq(TicketStatuses)])
  /\ path \in Seq(TicketStatuses)
  /\ parkKind \in BOOLEAN
  /\ phase \in {"search", "walk", "done", "refused"}

Init ==
  /\ from \in TicketStatuses /\ to \in TicketStatuses
  /\ at = from
  /\ frontier = <<[status |-> from, path |-> <<>>]>>
  /\ seen = {from}
  /\ path = <<>>
  /\ parkKind = TRUE
  /\ phase = IF from = to THEN "done" ELSE "search"

\* Mutant: what is reached is not recorded as seen.
ExpandUnseen ==
  LET found == Head(frontier)
  IN  /\ phase = "search" /\ frontier # <<>>
      /\ \E fresh \in Listings(Successors(found.status) \ seen) :
           frontier' = Tail(frontier) \o Entries(found, fresh)
      /\ UNCHANGED <<from, to, seen, path, at, parkKind, phase>>

\* Mutant: a status reached is kept with its last edge instead of its path.
ExpandForgets ==
  LET found == Head(frontier)
  IN  /\ phase = "search" /\ frontier # <<>>
      /\ IF to \in Successors(found.status)
         THEN path' = Append(found.path, to) /\ phase' = "walk" /\ UNCHANGED <<frontier, seen>>
         ELSE \E fresh \in Listings(Successors(found.status) \ seen) :
                /\ frontier' = Tail(frontier) \o
                     [i \in DOMAIN fresh |-> [status |-> fresh[i], path |-> <<fresh[i]>>]]
                /\ seen' = seen \cup Successors(found.status)
                /\ UNCHANGED <<path, phase>>
      /\ UNCHANGED <<from, to, at, parkKind>>

\* One turn of the search's loop: the first of the frontier is expanded.  The
\* target is looked for among all its neighbours, seen or not.
Expand ==
  LET found == Head(frontier)
  IN  /\ phase = "search" /\ frontier # <<>>
      /\ IF to \in Successors(found.status)
         THEN /\ path' = Append(found.path, to)
              /\ phase' = "walk"
              /\ UNCHANGED <<frontier, seen>>
         ELSE \E fresh \in Listings(Successors(found.status) \ seen) :
                /\ frontier' = Tail(frontier) \o Entries(found, fresh)
                /\ seen' = seen \cup Successors(found.status)
                /\ UNCHANGED <<path, phase>>
      /\ UNCHANGED <<from, to, at, parkKind>>

\* No path: IllegalTransition.
Refuse ==
  /\ phase = "search" /\ frontier = <<>>
  /\ phase' = "refused"
  /\ UNCHANGED <<from, to, frontier, seen, path, at, parkKind>>

\* Mutant: a transition that leaves blocked_on_operator keeps the park kind.
TransitionKeepsPark ==
  /\ phase = "walk" /\ TicketMayMove(at, Head(path))
  /\ at' = Head(path)
  /\ path' = Tail(path)
  /\ phase' = IF Tail(path) = <<>> THEN "done" ELSE "walk"
  /\ UNCHANGED <<from, to, frontier, seen, parkKind>>

\* Mutant: the path is walked from its end.
TransitionBackwards ==
  /\ phase = "walk" /\ TicketMayMove(at, Last(path))
  /\ at' = Last(path)
  /\ path' = Front(path)
  /\ parkKind' = (parkKind /\ at # "blocked_on_operator")
  /\ phase' = IF Len(path) = 1 THEN "done" ELSE "walk"
  /\ UNCHANGED <<from, to, frontier, seen>>

\* transition(): one edge, which the table must hold.
Transition ==
  /\ phase = "walk" /\ TicketMayMove(at, Head(path))
  /\ at' = Head(path)
  /\ path' = Tail(path)
  /\ parkKind' = (parkKind /\ at # "blocked_on_operator")
  /\ phase' = IF Tail(path) = <<>> THEN "done" ELSE "walk"
  /\ UNCHANGED <<from, to, frontier, seen>>

Next == Expand \/ Refuse \/ Transition
Spec == Init /\ [][Next]_vars /\ WF_vars(Next)

-----------------------------------------------------------------------------
\* The reference: a walk of n edges of the table leads from s to q.
Joined(s, q, n) ==
  \E w \in [0..n -> TicketStatuses] :
    /\ w[0] = s /\ w[n] = q
    /\ \A i \in 1..n : TicketMayMove(w[i - 1], w[i])

\* What the lifecycle takes a walk to do: a walk raises only when CanWalk fails,
\* ends at its target, and clears the park kinds exactly when WalkClearsPark says.
WalksAsTabled ==
  /\ phase = "refused" => ~CanWalk(from, to)
  /\ phase = "done" => /\ at = to /\ CanWalk(from, to)
                       /\ parkKind = ~WalkClearsPark(from, to)

\* _status_path() finds a shortest path, and what is left of it stays one, so a
\* ticket is never walked through a status it need not visit.
PathIsShortest ==
  phase = "walk" =>
    /\ Joined(at, to, Len(path))
    /\ \A n \in 0..Len(path) - 1 : ~Joined(at, to, n)

\* Every walk is settled: the search ends and no edge of its path is refused.
WalkSettles == <>(phase \in {"done", "refused"})

=============================================================================
