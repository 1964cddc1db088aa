--------------------------- MODULE TicketWalkSafety ---------------------------
(***************************************************************************)
(* walk_ticket() and the search under it: the frontier is kept in the      *)
(* order of the walks' lengths, so that the first walk found is a shortest *)
(* one.  But for what a walk clears, nothing rests on the table itself.    *)
(***************************************************************************)
EXTENDS TicketWalk, FiniteSetTheorems, TLAPS

\* The status a path that starts at s is at after its i-th edge.
Node(s, p, i) == IF i = 0 THEN s ELSE p[i]

\* The path's edges are the table's, and lead from s to q.
Leads(s, p, q) ==
  /\ Node(s, p, Len(p)) = q
  /\ \A i \in 1..Len(p) : TicketMayMove(Node(s, p, i - 1), Node(s, p, i))

\* The path from s leaves blocked_on_operator on its way.
Departs(s, p) == \E i \in 0..Len(p) - 1 : Node(s, p, i) = "blocked_on_operator"

\* The statuses the search has looked at every neighbour of.
Expanded == {s \in seen : \A i \in DOMAIN frontier : frontier[i].status # s}

Pending == /\ \A i \in DOMAIN frontier :
                /\ Leads(from, frontier[i].path, frontier[i].status)
                /\ Departs(from, frontier[i].path) <=> WalkClearsPark(from, frontier[i].status)
                /\ \A n \in 0..Len(frontier[i].path) - 1 : ~Joined(from, frontier[i].status, n)
           /\ \A i, j \in DOMAIN frontier :
                /\ frontier[i].status = frontier[j].status => i = j
                /\ i < j => Len(frontier[i].path) <= Len(frontier[j].path)
                /\ Len(frontier[j].path) <= Len(frontier[i].path) + 1

\* All that a walk no longer than the first of the frontier leads to is seen.
Reached == frontier # <<>> =>
  \A s \in TicketStatuses : \A n \in 0..Len(Head(frontier).path) :
    Joined(from, s, n) => s \in seen

Closed == /\ \A s \in Expanded : Successors(s) \subseteq seen
          /\ \A s \in seen : s = from \/ \E m \in Expanded : TicketMayMove(m, s)

SearchInv == phase = "search" =>
  /\ at = from /\ parkKind /\ from \in seen /\ to \notin seen
  /\ Pending /\ Reached /\ Closed

\* What is left of the path is a shortest walk to the target, and the park kind
\* is cleared by now or on what is left exactly if the lifecycle says so.
WalkInv == phase = "walk" =>
  /\ path # <<>> /\ Leads(at, path, to) /\ CanWalk(from, at)
  /\ \A n \in 0..Len(path) - 1 : ~Joined(at, to, n)
  /\ (parkKind /\ ~Departs(at, path)) <=> ~WalkClearsPark(from, to)

IInv == TypeOK /\ SearchInv /\ WalkInv /\ WalksAsTabled

-----------------------------------------------------------------------------
\* The table has finitely many statuses.
LEMMA StatusesFinite == IsFiniteSet(TicketStatuses)
<1> DEFINE A == {"needs_spec"}
           B == A \cup {"ready"}
           C == B \cup {"in_flight"}
           D == C \cup {"blocked_on_deps"}
           E == D \cup {"blocked_on_operator"}
           F == E \cup {"merged"}
<1>1. IsFiniteSet(A)
  BY FS_Singleton
<1>2. IsFiniteSet(B)
  BY <1>1, FS_AddElement
<1>3. IsFiniteSet(C)
  BY <1>2, FS_AddElement
<1>4. IsFiniteSet(D)
  BY <1>3, FS_AddElement
<1>5. IsFiniteSet(E)
  BY <1>4, FS_AddElement
<1>6. IsFiniteSet(F)
  BY <1>5, FS_AddElement
<1>7. IsFiniteSet(F \cup {"abandoned"})
  BY <1>6, FS_AddElement
<1>8. TicketStatuses = F \cup {"abandoned"}
  BY DEF TicketStatuses
<1> QED BY <1>7, <1>8

\* A listing of a finite set is a sequence with each of its elements once.
LEMMA ListingHasAll ==
    ASSUME NEW S, IsFiniteSet(S), NEW o \in Listings(S)
    PROVE  /\ o \in Seq(S)
           /\ \A i, j \in DOMAIN o : o[i] = o[j] => i = j
           /\ \A x \in S : \E i \in DOMAIN o : o[i] = x
<1> DEFINE D == 1..Cardinality(S)
<1>1. o \in [D -> S] /\ \A i, j \in D : i # j => o[i] # o[j]
  BY DEF Listings, SetToSeqs
<1>2. Cardinality(S) \in Nat
  BY FS_CardinalityType
<1>3. o \in Injection(D, S)
  BY <1>1 DEF Injection, IsInjective
<1>4. Cardinality(D) = Cardinality(S)
  BY <1>2, FS_Interval
<1>5. o \in Surjection(D, S)
  BY <1>3, <1>4, FS_Injection
<1>6. \A x \in S : \E i \in D : o[i] = x
  BY <1>5 DEF Surjection
<1>7. o \in Seq(S)
  BY <1>1, <1>2
<1> QED BY <1>1, <1>6, <1>7

\* A walk of n + 1 edges is one of n edges and an edge.
LEMMA LastEdge ==
    ASSUME NEW s, NEW q, NEW n \in Nat, Joined(s, q, n + 1)
    PROVE  \E m \in TicketStatuses : Joined(s, m, n) /\ TicketMayMove(m, q)
<1> PICK w \in [0..n + 1 -> TicketStatuses] :
      /\ w[0] = s /\ w[n + 1] = q
      /\ \A i \in 1..n + 1 : TicketMayMove(w[i - 1], w[i])
  BY DEF Joined
<1> DEFINE v == [i \in 0..n |-> w[i]]
<1>1. v \in [0..n -> TicketStatuses] /\ v[0] = s /\ v[n] = w[n]
  OBVIOUS
<1>2. \A i \in 1..n : TicketMayMove(v[i - 1], v[i])
  OBVIOUS
<1>3. Joined(s, w[n], n)
  BY <1>1, <1>2 DEF Joined
<1>4. TicketMayMove(w[n], q) /\ w[n] \in TicketStatuses
  OBVIOUS
<1> QED BY <1>3, <1>4

\* An edge before a walk of n edges makes one of n + 1.
LEMMA FirstEdge ==
    ASSUME NEW s \in TicketStatuses, NEW m, NEW q, NEW n \in Nat,
           TicketMayMove(s, m), Joined(m, q, n)
    PROVE  Joined(s, q, n + 1)
<1> PICK w \in [0..n -> TicketStatuses] :
      /\ w[0] = m /\ w[n] = q
      /\ \A i \in 1..n : TicketMayMove(w[i - 1], w[i])
  BY DEF Joined
<1> DEFINE v == [i \in 0..n + 1 |-> IF i = 0 THEN s ELSE w[i - 1]]
<1>1. v \in [0..n + 1 -> TicketStatuses] /\ v[0] = s /\ v[n + 1] = q
  OBVIOUS
<1>2. \A i \in 1..n + 1 : TicketMayMove(v[i - 1], v[i])
  <2> SUFFICES ASSUME NEW i \in 1..n + 1 PROVE TicketMayMove(v[i - 1], v[i])
    OBVIOUS
  <2>1. CASE i = 1
    BY <2>1
  <2>2. CASE i # 1
    BY <2>2
  <2> QED BY <2>1, <2>2
<1> QED BY <1>1, <1>2 DEF Joined

\* A path of the table is a walk of as many edges.
LEMMA LeadsJoins ==
    ASSUME NEW s \in TicketStatuses, NEW q, NEW p \in Seq(TicketStatuses), Leads(s, p, q)
    PROVE  Joined(s, q, Len(p))
<1> DEFINE w == [i \in 0..Len(p) |-> Node(s, p, i)]
<1>1. w \in [0..Len(p) -> TicketStatuses]
  BY DEF Node
<1>2. w[0] = s /\ w[Len(p)] = q
  BY DEF Node, Leads
<1>3. \A i \in 1..Len(p) : TicketMayMove(w[i - 1], w[i])
  BY DEF Leads
<1> QED BY <1>1, <1>2, <1>3 DEF Joined

\* A path that an edge is appended to leads on by it, and leaves what it ended at.
LEMMA AppendLeads ==
    ASSUME NEW s, NEW m, NEW q \in TicketStatuses, NEW p \in Seq(TicketStatuses),
           Leads(s, p, m), TicketMayMove(m, q)
    PROVE  /\ Leads(s, Append(p, q), q)
           /\ Departs(s, Append(p, q)) <=> (Departs(s, p) \/ m = "blocked_on_operator")
<1> DEFINE a == Append(p, q)
<1>1. Len(a) = Len(p) + 1 /\ Len(p) \in Nat
  OBVIOUS
<1>2. \A i \in 0..Len(p) : Node(s, a, i) = Node(s, p, i)
  BY DEF Node
<1>3. Node(s, a, Len(a)) = q
  BY DEF Node
<1>4. Node(s, p, Len(p)) = m
  BY DEF Leads
<1> HIDE DEF a
<1>5. \A i \in 1..Len(a) : TicketMayMove(Node(s, a, i - 1), Node(s, a, i))
  <2> SUFFICES ASSUME NEW i \in 1..Len(a)
               PROVE  TicketMayMove(Node(s, a, i - 1), Node(s, a, i))
    OBVIOUS
  <2>1. CASE i = Len(a)
    BY <2>1, <1>1, <1>2, <1>3, <1>4
  <2>2. CASE i # Len(a)
    <3>1. i \in 1..Len(p) /\ i \in 0..Len(p) /\ i - 1 \in 0..Len(p)
      BY <2>2, <1>1
    <3> QED BY <3>1, <1>2 DEF Leads
  <2> QED BY <2>1, <2>2
<1>6. Leads(s, a, q)
  BY <1>3, <1>5 DEF Leads
<1>7. Departs(s, a) <=> \E i \in 0..Len(p) : Node(s, p, i) = "blocked_on_operator"
  BY <1>1, <1>2 DEF Departs
<1>8. Departs(s, a) <=> (Departs(s, p) \/ m = "blocked_on_operator")
  BY <1>1, <1>4, <1>7 DEF Departs
<1> QED BY <1>6, <1>8 DEF a

\* A path's first edge is the table's, and the rest leads on from its end.
LEMMA TailLeads ==
    ASSUME NEW s, NEW q, NEW p \in Seq(TicketStatuses), p # <<>>, Leads(s, p, q)
    PROVE  /\ TicketMayMove(s, Head(p)) /\ Leads(Head(p), Tail(p), q)
           /\ Departs(s, p) <=> (s = "blocked_on_operator" \/ Departs(Head(p), Tail(p)))
<1> DEFINE b == Tail(p)
           h == Head(p)
<1>1. Len(p) = Len(b) + 1 /\ Len(b) \in Nat /\ h = p[1]
  OBVIOUS
<1>2. \A i \in 0..Len(b) : Node(h, b, i) = Node(s, p, i + 1)
  BY DEF Node
<1>3. Node(s, p, 0) = s /\ Node(s, p, 1) = h
  BY DEF Node
<1> HIDE DEF b, h
<1>4. TicketMayMove(s, h)
  BY <1>1, <1>3 DEF Leads
<1>5. \A i \in 1..Len(b) : TicketMayMove(Node(h, b, i - 1), Node(h, b, i))
  <2> SUFFICES ASSUME NEW i \in 1..Len(b)
               PROVE  TicketMayMove(Node(h, b, i - 1), Node(h, b, i))
    OBVIOUS
  <2>1. i + 1 \in 1..Len(p) /\ i \in 0..Len(b) /\ i - 1 \in 0..Len(b) /\ (i - 1) + 1 = (i + 1) - 1
    BY <1>1
  <2> QED BY <2>1, <1>2 DEF Leads
<1>6. Leads(h, b, q)
  BY <1>1, <1>2, <1>5 DEF Leads
<1>7. Departs(s, p) <=> (s = "blocked_on_operator" \/ Departs(h, b))
  <2>1. ASSUME NEW i \in 0..Len(p) - 1, Node(s, p, i) = "blocked_on_operator", i # 0
        PROVE  Departs(h, b)
    <3>1. i - 1 \in 0..Len(b) - 1 /\ i - 1 \in 0..Len(b) /\ (i - 1) + 1 = i
      BY <2>1, <1>1
    <3> QED BY <2>1, <3>1, <1>2 DEF Departs
  <2>2. ASSUME NEW i \in 0..Len(b) - 1, Node(h, b, i) = "blocked_on_operator"
        PROVE  Departs(s, p)
    <3>1. i + 1 \in 0..Len(p) - 1 /\ i \in 0..Len(b)
      BY <1>1
    <3> QED BY <2>2, <3>1, <1>2 DEF Departs
  <2>3. s = "blocked_on_operator" => Departs(s, p)
    BY <1>1, <1>3 DEF Departs
  <2> QED BY <2>1, <2>2, <2>3, <1>3 DEF Departs
<1> QED BY <1>4, <1>6, <1>7 DEF b, h

-----------------------------------------------------------------------------
\* What a walk along the table's edges may clear of a status reached by it.
LEMMA CanWalkOn ==
    ASSUME NEW s \in TicketStatuses, NEW m \in TicketStatuses, NEW q \in TicketStatuses,
           CanWalk(s, m), TicketMayMove(m, q)
    PROVE  CanWalk(s, q)
BY DEF CanWalk, TicketMayMove, TicketEdges, TicketStatuses, ClosedStatuses

\* A set of statuses that holds all their neighbours has all that can be walked to.
LEMMA ClosedHasAll ==
    ASSUME NEW S, \A s \in S : Successors(s) \subseteq S,
           NEW s \in S, NEW q \in TicketStatuses, s \in TicketStatuses, CanWalk(s, q)
    PROVE  q \in S
<1>1. \A m \in S : \A n \in TicketStatuses : <<m, n>> \in TicketEdges => n \in S
  BY DEF Successors, TicketMayMove
<1>2. CASE s = q
  BY <1>2
<1>3. CASE s # q
  <2>1. s \notin ClosedStatuses /\ q # "needs_spec"
    BY <1>3 DEF CanWalk
  <2>2. "ready" \in S \/ "in_flight" \in S \/ "blocked_on_deps" \in S \/ "blocked_on_operator" \in S
    BY <1>1, <2>1 DEF TicketStatuses, ClosedStatuses, TicketEdges
  <2>3. "blocked_on_operator" \in S => "blocked_on_deps" \in S
    BY <1>1 DEF TicketStatuses, TicketEdges
  <2>4. "blocked_on_deps" \in S => "ready" \in S
    BY <1>1 DEF TicketStatuses, TicketEdges
  <2>5. "in_flight" \in S => {"merged", "abandoned", "blocked_on_operator"} \subseteq S
    BY <1>1 DEF TicketStatuses, TicketEdges
  <2>6. "ready" \in S => "in_flight" \in S
    BY <1>1 DEF TicketStatuses, TicketEdges
  <2> QED BY <2>1, <2>2, <2>3, <2>4, <2>5, <2>6 DEF TicketStatuses
<1> QED BY <1>2, <1>3

\* The first of the frontier, whose neighbours are looked at next.
LEMMA FoundType ==
    ASSUME TypeOK, frontier # <<>>
    PROVE  /\ Head(frontier) = frontier[1] /\ 1 \in DOMAIN frontier
           /\ Head(frontier).status \in seen /\ Head(frontier).status \in TicketStatuses
           /\ Head(frontier).path \in Seq(TicketStatuses)
<1> DEFINE R == [status : seen, path : Seq(TicketStatuses)]
<1>1. frontier \in Seq(R)
  BY DEF TypeOK
<1> HIDE DEF R
<1>2. Head(frontier) \in R /\ Head(frontier) = frontier[1] /\ 1 \in DOMAIN frontier
  BY <1>1
<1> QED BY <1>2 DEF TypeOK, R

\* A walk of the search that goes on to a status not seen yet leaves
\* blocked_on_operator exactly if WalkClearsPark says so: another way there
\* would have been looked at before.
LEMMA FreshDeparts ==
    ASSUME TypeOK, phase = "search", SearchInv, frontier # <<>>,
           NEW q \in Successors(Head(frontier).status) \ seen
    PROVE  LET p == Append(Head(frontier).path, q)
           IN  Leads(from, p, q) /\ (Departs(from, p) <=> WalkClearsPark(from, q))
<1> DEFINE m == Head(frontier).status
           p == Head(frontier).path
<1>1. m \in seen /\ m \in TicketStatuses /\ p \in Seq(TicketStatuses) /\ m \notin Expanded
  BY FoundType DEF Expanded
<1>2. Leads(from, p, m) /\ (Departs(from, p) <=> WalkClearsPark(from, m))
  BY FoundType DEF SearchInv, Pending
<1>3. q \in TicketStatuses /\ TicketMayMove(m, q) /\ q \notin seen /\ q # from
  BY DEF Successors, SearchInv
<1>4. Leads(from, Append(p, q), q)
      /\ (Departs(from, Append(p, q)) <=> (Departs(from, p) \/ m = "blocked_on_operator"))
  BY <1>1, <1>2, <1>3, AppendLeads
<1>5. \A s \in Expanded : \A n \in TicketStatuses : <<s, n>> \in TicketEdges => n \in seen
  BY DEF SearchInv, Closed, Successors, TicketMayMove
<1>6. \A s \in seen : s = from \/ \E n \in Expanded : <<n, s>> \in TicketEdges
  BY DEF SearchInv, Closed, TicketMayMove
<1>7. from \in TicketStatuses /\ from \in seen /\ Expanded \subseteq TicketStatuses
  BY DEF TypeOK, SearchInv, Expanded
<1> HIDE DEF m, p
<1>8. (WalkClearsPark(from, m) \/ m = "blocked_on_operator") <=> WalkClearsPark(from, q)
  <2>1. <<m, q>> \in TicketEdges
    BY <1>3 DEF TicketMayMove
  <2>2. CASE m = "needs_spec" /\ q = "ready"
    BY <2>2, <1>1, <1>3, <1>6 DEF WalkClearsPark, TicketEdges
  <2>3. CASE m = "ready" /\ q \in {"in_flight", "blocked_on_deps"}
    BY <2>3, <1>3, <1>7 DEF WalkClearsPark, TicketStatuses
  <2>4. CASE m = "in_flight"
    BY <2>4, <1>3, <2>1, <1>7 DEF WalkClearsPark, TicketEdges
  <2>5. CASE m = "blocked_on_operator"
    <3>1. q = "blocked_on_deps"
      BY <2>5, <2>1 DEF TicketEdges
    <3>2. "ready" \notin Expanded /\ "blocked_on_deps" \notin Expanded
      BY <3>1, <1>3, <1>5, Expanded \subseteq seen DEF TicketEdges, TicketStatuses, Expanded
    <3>3. m = from \/ "in_flight" \in Expanded
      BY <2>5, <1>1, <1>6, <3>2 DEF TicketEdges
    <3>4. "in_flight" \in Expanded => from = "in_flight"
      BY <1>6, <3>2, <1>7 DEF TicketEdges, Expanded
    <3> QED BY <2>5, <3>1, <3>3, <3>4 DEF WalkClearsPark
  <2>6. CASE m = "blocked_on_deps" /\ q = "ready"
    BY <2>6, <1>3 DEF WalkClearsPark
  <2>7. CASE m = "blocked_on_deps" /\ q = "blocked_on_operator"
    <3>1. "in_flight" \notin Expanded /\ "blocked_on_operator" \notin Expanded
      BY <2>7, <1>3, <1>5 DEF TicketEdges, TicketStatuses, Expanded
    <3>2. m = from \/ "ready" \in Expanded
      BY <2>7, <1>1, <1>6, <3>1 DEF TicketEdges
    <3>3. "ready" \in Expanded => from # "in_flight"
      <4>1. ASSUME "ready" \in Expanded, from = "in_flight" PROVE FALSE
        <5>1. "needs_spec" \in Expanded \/ "blocked_on_deps" \in Expanded
          BY <4>1, <1>6 DEF TicketEdges, Expanded
        <5>2. "needs_spec" \in Expanded
          BY <5>1, <1>1, <2>7
        <5> QED BY <5>2, <4>1, <1>6 DEF TicketEdges, Expanded
      <4> QED BY <4>1
    <3> QED BY <2>7, <3>2, <3>3, <1>3 DEF WalkClearsPark
  <2> QED BY <2>1, <2>2, <2>3, <2>4, <2>5, <2>6, <2>7 DEF TicketEdges
<1> QED BY <1>2, <1>4, <1>8 DEF m, p

-----------------------------------------------------------------------------
\* What a frontier f has after its first entry was expanded to the statuses N: the
\* rest of it, then an entry for each of them, as fresh lists them.
Continues(f, fresh, N) ==
  /\ f \in Seq([status : seen \cup N, path : Seq(TicketStatuses)])
  /\ \A i \in DOMAIN f : i >= Len(frontier) =>
       /\ i - Len(frontier) + 1 \in DOMAIN fresh
       /\ f[i].status = fresh[i - Len(frontier) + 1] /\ f[i].status \in N
       /\ f[i].path = Append(Head(frontier).path, f[i].status)
  /\ \A i \in DOMAIN f : i < Len(frontier) => i + 1 \in DOMAIN frontier /\ f[i] = frontier[i + 1]
  /\ \A j \in DOMAIN frontier : j > 1 => j - 1 \in DOMAIN f /\ f[j - 1] = frontier[j]
  /\ \A x \in N : \E i \in DOMAIN f : f[i].status = x
  /\ \A i, j \in DOMAIN fresh : fresh[i] = fresh[j] => i = j

\* The entries of a frontier, by their places.
LEMMA EntryTypes ==
    ASSUME NEW S, NEW f \in Seq([status : S, path : Seq(TicketStatuses)])
    PROVE  /\ DOMAIN f = 1..Len(f) /\ Len(f) \in Nat /\ (f # <<>> => Len(f) >= 1)
           /\ \A i \in DOMAIN f : /\ f[i].status \in S /\ f[i].path \in Seq(TicketStatuses)
                                 /\ Len(f[i].path) \in Nat
<1> DEFINE R == [status : S, path : Seq(TicketStatuses)]
<1>1. f \in Seq(R)
  OBVIOUS
<1> HIDE DEF R
<1>2. DOMAIN f = 1..Len(f) /\ Len(f) \in Nat /\ (f # <<>> => Len(f) >= 1)
  BY <1>1
<1>3. \A i \in DOMAIN f : f[i] \in R
  BY <1>1
<1>4. \A i \in DOMAIN f : f[i].status \in S /\ f[i].path \in Seq(TicketStatuses)
  BY <1>3 DEF R
<1> QED BY <1>2, <1>4

\* Expanding the first of the frontier continues it so.
LEMMA NewFrontier ==
    ASSUME TypeOK, frontier # <<>>, NEW N, N \subseteq TicketStatuses,
           NEW fresh \in Listings(N),
           NEW f, f = Tail(frontier) \o Entries(Head(frontier), fresh)
    PROVE  Continues(f, fresh, N)
<1> DEFINE R == [status : seen, path : Seq(TicketStatuses)]
           Q == [status : seen \cup N, path : Seq(TicketStatuses)]
           p == Head(frontier).path
           e == Entries(Head(frontier), fresh)
<1>1. frontier \in Seq(R) /\ p \in Seq(TicketStatuses)
  BY FoundType DEF TypeOK
<1>2. IsFiniteSet(N)
  BY StatusesFinite, FS_Subset
<1>3. /\ fresh \in Seq(N)
      /\ \A i, j \in DOMAIN fresh : fresh[i] = fresh[j] => i = j
      /\ \A x \in N : \E i \in DOMAIN fresh : fresh[i] = x
  BY <1>2, ListingHasAll
<1>4. \A i \in DOMAIN fresh : fresh[i] \in N /\ Append(p, fresh[i]) \in Seq(TicketStatuses)
  BY <1>1, <1>3
<1>5. /\ e \in Seq(Q) /\ Len(e) = Len(fresh) /\ DOMAIN fresh = 1..Len(e)
      /\ \A i \in 1..Len(e) : e[i].status = fresh[i] /\ e[i].path = Append(p, fresh[i])
  <2>1. DOMAIN fresh = 1..Len(fresh) /\ Len(fresh) \in Nat
    BY <1>3
  <2>2. \A i \in DOMAIN fresh : [status |-> fresh[i], path |-> Append(p, fresh[i])] \in Q
    BY <1>4
  <2> HIDE DEF Q, p
  <2>3. e = [i \in 1..Len(fresh) |-> [status |-> fresh[i], path |-> Append(p, fresh[i])]]
    BY <2>1 DEF Entries, p
  <2> HIDE DEF e
  <2> DEFINE n == Len(fresh)
  <2> HIDE DEF n
  <2>4. e \in [1..n -> Q] /\ n \in Nat
    BY <2>1, <2>2, <2>3 DEF n
  <2>5. e \in Seq(Q) /\ Len(e) = n
    BY <2>4
  <2>6. \A i \in 1..n : e[i].status = fresh[i] /\ e[i].path = Append(p, fresh[i])
    BY <2>3 DEF n
  <2> QED BY <2>1, <2>5, <2>6 DEF n
<1>6. R \subseteq Q
  OBVIOUS
<1> HIDE DEF R, Q, p, e
<1>7. /\ Tail(frontier) \in Seq(R) /\ Len(Tail(frontier)) = Len(frontier) - 1 /\ Len(frontier) >= 1
      /\ \A i \in 1..Len(frontier) - 1 : Tail(frontier)[i] = frontier[i + 1]
      /\ Len(frontier) \in Nat /\ DOMAIN frontier = 1..Len(frontier)
  BY <1>1
<1>8. Tail(frontier) \in Seq(Q)
  BY <1>6, <1>7
<1>9. /\ f \in Seq(Q) /\ Len(f) = Len(frontier) - 1 + Len(e) /\ DOMAIN f = 1..Len(f)
      /\ \A i \in 1..Len(frontier) - 1 : f[i] = Tail(frontier)[i]
      /\ \A i \in 1..Len(e) : f[Len(frontier) - 1 + i] = e[i]
      /\ Len(e) \in Nat
  BY <1>5, <1>7, <1>8 DEF e
<1>10. ASSUME NEW i \in DOMAIN f, i >= Len(frontier)
       PROVE  /\ i - Len(frontier) + 1 \in DOMAIN fresh
              /\ f[i].status = fresh[i - Len(frontier) + 1] /\ f[i].status \in N
              /\ f[i].path = Append(p, f[i].status)
  <2>1. i - Len(frontier) + 1 \in 1..Len(e) /\ Len(frontier) - 1 + (i - Len(frontier) + 1) = i
    BY <1>7, <1>9, <1>10
  <2>2. f[i] = e[i - Len(frontier) + 1]
    BY <2>1, <1>9
  <2> QED BY <2>1, <2>2, <1>4, <1>5
<1>11. \A i \in DOMAIN f : i < Len(frontier) => i + 1 \in DOMAIN frontier /\ f[i] = frontier[i + 1]
  BY <1>7, <1>9
<1>12. \A j \in DOMAIN frontier : j > 1 => j - 1 \in DOMAIN f /\ f[j - 1] = frontier[j]
  BY <1>7, <1>9
<1>13. ASSUME NEW x \in N PROVE \E i \in DOMAIN f : f[i].status = x
  <2>1. PICK k \in 1..Len(e) : fresh[k] = x
    BY <1>3, <1>5
  <2>2. Len(frontier) - 1 + k \in DOMAIN f /\ f[Len(frontier) - 1 + k].status = x
    BY <2>1, <1>5, <1>7, <1>9
  <2> QED BY <2>2
<1> QED BY <1>3, <1>9, <1>10, <1>11, <1>12, <1>13 DEF Q, p, Continues

\* At first only the status itself is seen, by the empty walk.
LEMMA Initial == Init => IInv
<1> SUFFICES ASSUME Init PROVE IInv
  OBVIOUS
<1> USE DEF Init
<1>1. TypeOK
  <2>1. <<>> \in Seq(TicketStatuses)
    OBVIOUS
  <2>2. [status |-> from, path |-> <<>>] \in [status : seen, path : Seq(TicketStatuses)]
    BY <2>1
  <2>3. frontier \in Seq([status : seen, path : Seq(TicketStatuses)])
    BY <2>2
  <2> QED BY <2>1, <2>3 DEF TypeOK
<1>2. DOMAIN frontier = {1} /\ frontier[1].status = from /\ frontier[1].path = <<>> /\ Len(<<>>) = 0
  OBVIOUS
<1>3. Leads(from, <<>>, from) /\ ~Departs(from, <<>>) /\ ~WalkClearsPark(from, from) /\ CanWalk(from, from)
  BY DEF Leads, Departs, Node, WalkClearsPark, CanWalk
<1>4. Pending
  BY <1>2, <1>3 DEF Pending
<1>5. Head(frontier).path = <<>>
  OBVIOUS
<1>6. Reached
  <2> SUFFICES ASSUME NEW s \in TicketStatuses, NEW n \in 0..0, Joined(from, s, n)
               PROVE  s \in seen
    BY <1>2, <1>5 DEF Reached
  <2> QED BY DEF Joined
<1>7. Closed
  BY <1>2 DEF Closed, Expanded
<1> QED BY <1>1, <1>3, <1>4, <1>6, <1>7 DEF IInv, SearchInv, WalkInv, WalksAsTabled

\* Where no neighbour of the first is the target, the search goes on as it stood.
LEMMA SearchStep ==
    ASSUME TypeOK, phase = "search", SearchInv, Expand, to \notin Successors(Head(frontier).status)
    PROVE  TypeOK' /\ SearchInv' /\ phase' = "search"
<1> DEFINE found == Head(frontier)
           d == Len(found.path)
           N == Successors(found.status) \ seen
           f == frontier'
<1>1. /\ frontier # <<>> /\ seen' = seen \cup N /\ phase' = "search"
      /\ UNCHANGED <<from, to, path, at, parkKind>>
  BY DEF Expand
<1>2. PICK fresh \in Listings(N) : f = Tail(frontier) \o Entries(found, fresh)
  BY DEF Expand
<1>3. N \subseteq TicketStatuses /\ N \cap seen = {} /\ to \notin N
  BY DEF Successors
<1>4. /\ found = frontier[1] /\ 1 \in DOMAIN frontier
      /\ found.status \in seen /\ found.status \in TicketStatuses
      /\ found.path \in Seq(TicketStatuses) /\ d \in Nat
  BY <1>1, FoundType
<1> HIDE DEF N, f
<1>5. Continues(f, fresh, N)
  BY <1>1, <1>2, <1>3, NewFrontier
<1>6. TypeOK'
  BY <1>1, <1>3, <1>5 DEF TypeOK, f, Continues
<1>7. /\ DOMAIN frontier = 1..Len(frontier) /\ Len(frontier) \in Nat /\ Len(frontier) >= 1
      /\ DOMAIN f = 1..Len(f) /\ Len(f) \in Nat
      /\ \A i \in DOMAIN frontier : Len(frontier[i].path) \in Nat /\ frontier[i].status \in seen
      /\ \A i \in DOMAIN f : Len(f[i].path) \in Nat
  BY <1>1, <1>5, EntryTypes DEF TypeOK, Continues
<1>8. /\ at = from /\ parkKind /\ from \in seen /\ to \notin seen
      /\ Pending /\ Reached /\ Closed
  BY DEF SearchInv
<1>9. \A i \in DOMAIN f : i >= Len(frontier) => Len(f[i].path) = d + 1 /\ f[i].status \notin seen
  <2> SUFFICES ASSUME NEW i \in DOMAIN f, i >= Len(frontier)
               PROVE  Len(f[i].path) = d + 1 /\ f[i].status \notin seen
    OBVIOUS
  <2>1. f[i].path = Append(found.path, f[i].status) /\ f[i].status \in N
    BY <1>5 DEF Continues
  <2> QED BY <2>1, <1>3, <1>4
<1>10. \A j \in DOMAIN frontier : d <= Len(frontier[j].path) /\ Len(frontier[j].path) <= d + 1
  BY <1>4, <1>7, <1>8 DEF Pending
<1>11. \A i \in DOMAIN f :
         /\ Leads(from, f[i].path, f[i].status)
         /\ Departs(from, f[i].path) <=> WalkClearsPark(from, f[i].status)
         /\ \A n \in 0..Len(f[i].path) - 1 : ~Joined(from, f[i].status, n)
  <2> SUFFICES ASSUME NEW i \in DOMAIN f
               PROVE  /\ Leads(from, f[i].path, f[i].status)
                      /\ Departs(from, f[i].path) <=> WalkClearsPark(from, f[i].status)
                      /\ \A n \in 0..Len(f[i].path) - 1 : ~Joined(from, f[i].status, n)
    OBVIOUS
  <2>1. CASE i < Len(frontier)
    BY <2>1, <1>5, <1>8 DEF Pending, Continues
  <2>2. CASE i >= Len(frontier)
    <3>1. f[i].status \in N /\ f[i].path = Append(found.path, f[i].status)
      BY <2>2, <1>5 DEF Continues
    <3>2. Leads(from, f[i].path, f[i].status)
          /\ (Departs(from, f[i].path) <=> WalkClearsPark(from, f[i].status))
      BY <3>1, <1>1, FreshDeparts DEF N
    <3>3. \A n \in 0..d : ~Joined(from, f[i].status, n)
      BY <3>1, <1>1, <1>3, <1>8 DEF Reached
    <3> QED BY <3>2, <3>3, <1>9, <2>2
  <2> QED BY <2>1, <2>2, <1>7
<1>12. \A i, j \in DOMAIN f :
         /\ f[i].status = f[j].status => i = j
         /\ i < j => Len(f[i].path) <= Len(f[j].path)
         /\ Len(f[j].path) <= Len(f[i].path) + 1
  <2> SUFFICES ASSUME NEW i \in DOMAIN f, NEW j \in DOMAIN f
               PROVE  /\ f[i].status = f[j].status => i = j
                      /\ i < j => Len(f[i].path) <= Len(f[j].path)
                      /\ Len(f[j].path) <= Len(f[i].path) + 1
    OBVIOUS
  <2>1. CASE i < Len(frontier) /\ j < Len(frontier)
    <3>1. /\ i + 1 \in DOMAIN frontier /\ f[i] = frontier[i + 1]
          /\ j + 1 \in DOMAIN frontier /\ f[j] = frontier[j + 1]
      BY <2>1, <1>5 DEF Continues
    <3>2. /\ frontier[i + 1].status = frontier[j + 1].status => i + 1 = j + 1
          /\ i + 1 < j + 1 => Len(frontier[i + 1].path) <= Len(frontier[j + 1].path)
          /\ Len(frontier[j + 1].path) <= Len(frontier[i + 1].path) + 1
      BY <3>1, <1>8 DEF Pending
    <3> QED BY <3>1, <3>2, <1>7
  <2>2. CASE i < Len(frontier) /\ j >= Len(frontier)
    <3>1. i + 1 \in DOMAIN frontier /\ f[i] = frontier[i + 1]
      BY <2>2, <1>5 DEF Continues
    <3> QED BY <2>2, <3>1, <1>4, <1>7, <1>9, <1>10
  <2>3. CASE i >= Len(frontier) /\ j < Len(frontier)
    <3>1. j + 1 \in DOMAIN frontier /\ f[j] = frontier[j + 1]
      BY <2>3, <1>5 DEF Continues
    <3> QED BY <2>3, <3>1, <1>4, <1>7, <1>9, <1>10
  <2>4. CASE i >= Len(frontier) /\ j >= Len(frontier)
    <3>1. /\ i - Len(frontier) + 1 \in DOMAIN fresh /\ f[i].status = fresh[i - Len(frontier) + 1]
          /\ j - Len(frontier) + 1 \in DOMAIN fresh /\ f[j].status = fresh[j - Len(frontier) + 1]
      BY <2>4, <1>5 DEF Continues
    <3>2. f[i].status = f[j].status => i = j
      <4>1. ASSUME f[i].status = f[j].status PROVE i = j
        <5>1. i - Len(frontier) + 1 = j - Len(frontier) + 1
          BY <3>1, <4>1, <1>5 DEF Continues
        <5> QED BY <5>1, <1>7
      <4> QED BY <4>1
    <3> QED BY <2>4, <3>2, <1>4, <1>7, <1>9
  <2> QED BY <2>1, <2>2, <2>3, <2>4, <1>7
<1>13. Pending'
  <2>1. from' = from /\ frontier' = f
    BY <1>1 DEF f
  <2> HIDE DEF f
  <2>2. \A i \in DOMAIN f :
          /\ Leads(from', f[i].path, f[i].status)
          /\ Departs(from', f[i].path) <=> WalkClearsPark(from', f[i].status)
          /\ \A n \in 0..Len(f[i].path) - 1 : ~Joined(from', f[i].status, n)
    BY <2>1, <1>11
  <2> QED BY <2>1, <2>2, <1>12 DEF Pending
<1>14. /\ \A s \in Expanded' : s \in Expanded \/ s = found.status
       /\ Expanded \subseteq Expanded' /\ found.status \in Expanded'
  <2>1. ASSUME NEW s \in Expanded' PROVE s \in Expanded \/ s = found.status
    <3>1. s \in seen \cup N /\ \A i \in DOMAIN f : f[i].status # s
      BY <2>1, <1>1 DEF Expanded, f
    <3>2. s \in seen
      BY <3>1, <1>5 DEF Continues
    <3>3. \A j \in DOMAIN frontier : j > 1 => frontier[j].status # s
      BY <3>1, <1>5 DEF Continues
    <3> QED BY <3>2, <3>3, <1>4, <1>7 DEF Expanded
  <2>2. ASSUME NEW s \in seen, \A j \in DOMAIN frontier : j > 1 => frontier[j].status # s
        PROVE  s \in Expanded'
    <3>1. ASSUME NEW i \in DOMAIN f PROVE f[i].status # s
      <4>1. CASE i < Len(frontier)
        BY <4>1, <2>2, <1>5, <1>7 DEF Continues
      <4>2. CASE i >= Len(frontier)
        BY <4>2, <1>9
      <4> QED BY <4>1, <4>2, <1>7
    <3> QED BY <3>1, <1>1 DEF Expanded, f
  <2>3. Expanded \subseteq Expanded'
    BY <2>2 DEF Expanded
  <2>4. \A j \in DOMAIN frontier : j > 1 => frontier[j].status # found.status
    BY <1>4, <1>7, <1>8 DEF Pending
  <2>5. found.status \in Expanded'
    BY <2>2, <2>4, <1>4
  <2> QED BY <2>1, <2>3, <2>5
<1>15. Closed'
  <2>1. ASSUME NEW s \in Expanded' PROVE Successors(s) \subseteq seen'
    BY <2>1, <1>1, <1>8, <1>14 DEF Closed, N
  <2>2. ASSUME NEW s \in seen' PROVE s = from' \/ \E m \in Expanded' : TicketMayMove(m, s)
    <3>1. CASE s \in seen
      BY <3>1, <1>1, <1>8, <1>14 DEF Closed
    <3>2. CASE s \in N
      BY <3>2, <1>14 DEF N, Successors
    <3> QED BY <2>2, <3>1, <3>2, <1>1
  <2> QED BY <2>1, <2>2 DEF Closed, Successors
<1>16. Reached'
  <2> SUFFICES ASSUME f # <<>>, NEW s \in TicketStatuses, NEW n \in 0..Len(Head(f).path),
                      Joined(from, s, n)
               PROVE  s \in seen'
    BY <1>1 DEF Reached, f, Joined
  <2>1. /\ Head(f) = f[1] /\ 1 \in DOMAIN f
        /\ d <= Len(f[1].path) /\ Len(f[1].path) <= d + 1
    <3>1. Head(f) = f[1] /\ 1 \in DOMAIN f
      BY <1>5, <1>7 DEF Continues
    <3>2. CASE 1 < Len(frontier)
      BY <3>1, <3>2, <1>5, <1>10 DEF Continues
    <3>3. CASE 1 >= Len(frontier)
      BY <3>1, <3>3, <1>4, <1>9
    <3> QED BY <3>1, <3>2, <3>3, <1>7
  <2>2. CASE n <= d
    BY <2>2, <1>1, <1>4, <1>8 DEF Reached
  <2>3. CASE n = d + 1
    <3>1. PICK m \in TicketStatuses : Joined(from, m, d) /\ TicketMayMove(m, s)
      BY <2>3, <1>4, LastEdge
    <3>2. m \in seen
      BY <3>1, <1>1, <1>4, <1>8 DEF Reached
    <3>3. ASSUME NEW i \in DOMAIN f PROVE Len(f[i].path) >= d + 1
      <4>1. n <= Len(f[1].path) /\ n = d + 1 /\ Len(f[1].path) \in Nat /\ Len(f[i].path) \in Nat
        BY <2>1, <2>3, <1>7
      <4>2. i = 1 \/ 1 < i
        BY <1>7
      <4>3. 1 < i => Len(f[1].path) <= Len(f[i].path)
        BY <2>1, <1>12
      <4> QED BY <4>1, <4>2, <4>3, <1>4
    <3>4. \A i \in DOMAIN f : f[i].status # m
      BY <3>1, <3>3, <1>4, <1>7, <1>11
    <3>5. m \in Expanded'
      BY <3>2, <3>4, <1>1 DEF Expanded, f
    <3> QED BY <3>1, <3>5, <1>15 DEF Closed, Successors
  <2> QED BY <2>1, <2>2, <2>3, <1>4, <1>7
<1>17. SearchInv'
  BY <1>1, <1>3, <1>8, <1>13, <1>15, <1>16 DEF SearchInv
<1> QED BY <1>1, <1>6, <1>17

\* The target found among the neighbours of the first: a walk longer than none.
LEMMA FoundStep ==
    ASSUME TypeOK, phase = "search", SearchInv, Expand, to \in Successors(Head(frontier).status)
    PROVE  TypeOK' /\ WalkInv' /\ phase' = "walk"
<1> DEFINE p == Head(frontier).path
           a == Append(p, to)
<1>1. /\ frontier # <<>> /\ path' = a /\ phase' = "walk"
      /\ UNCHANGED <<from, to, frontier, seen, at, parkKind>>
  BY DEF Expand
<1>2. /\ at = from /\ parkKind /\ to \notin seen /\ Reached /\ p \in Seq(TicketStatuses)
      /\ to \in TicketStatuses
  BY <1>1, FoundType DEF SearchInv, TypeOK
<1>3. Leads(from, a, to) /\ (Departs(from, a) <=> WalkClearsPark(from, to))
  BY <1>1, <1>2, FreshDeparts
<1>4. a # <<>> /\ Len(a) = Len(p) + 1 /\ a \in Seq(TicketStatuses)
  BY <1>2
<1> HIDE DEF p, a
<1>5. \A n \in 0..Len(a) - 1 : ~Joined(from, to, n)
  <2>1. \A n \in 0..Len(p) : Joined(from, to, n) => to \in seen
    BY <1>1, <1>2 DEF Reached, p
  <2> QED BY <2>1, <1>2, <1>4
<1>6. CanWalk(from, from)
  BY DEF CanWalk
<1>7. TypeOK'
  BY <1>1, <1>4 DEF TypeOK
<1> QED BY <1>1, <1>2, <1>3, <1>4, <1>5, <1>6, <1>7 DEF WalkInv, Leads, Departs, Node, Joined, CanWalk,
           WalkClearsPark

\* One edge of the path: what is left of it stays a shortest walk.
LEMMA TransitionStep ==
    ASSUME TypeOK, WalkInv, Transition
    PROVE  TypeOK' /\ WalkInv' /\ (phase' = "done" => WalksAsTabled') /\ phase' \in {"walk", "done"}
<1> DEFINE h == Head(path)
           b == Tail(path)
<1>1. /\ phase = "walk" /\ at' = h /\ path' = b
      /\ parkKind' = (parkKind /\ at # "blocked_on_operator")
      /\ phase' = IF b = <<>> THEN "done" ELSE "walk"
      /\ UNCHANGED <<from, to, frontier, seen>>
  BY DEF Transition
<1>2. /\ path # <<>> /\ Leads(at, path, to) /\ CanWalk(from, at)
      /\ \A n \in 0..Len(path) - 1 : ~Joined(at, to, n)
      /\ (parkKind /\ ~Departs(at, path)) <=> ~WalkClearsPark(from, to)
  BY <1>1 DEF WalkInv
<1>3. path \in Seq(TicketStatuses) /\ at \in TicketStatuses /\ from \in TicketStatuses
      /\ to \in TicketStatuses /\ parkKind \in BOOLEAN
  BY DEF TypeOK
<1>4. /\ h \in TicketStatuses /\ b \in Seq(TicketStatuses) /\ Len(path) = Len(b) + 1
      /\ Len(b) \in Nat
  <2>1. h \in TicketStatuses
    BY <1>2, <1>3
  <2>2. b \in Seq(TicketStatuses) /\ Len(path) = Len(b) + 1 /\ Len(b) \in Nat
    BY <1>2, <1>3
  <2> QED BY <2>1, <2>2
<1>5. /\ TicketMayMove(at, h) /\ Leads(h, b, to)
      /\ Departs(at, path) <=> (at = "blocked_on_operator" \/ Departs(h, b))
  BY <1>2, <1>3, TailLeads
<1> HIDE DEF h, b
<1>6. CanWalk(from, h)
  BY <1>2, <1>3, <1>4, <1>5, CanWalkOn
<1>7. ASSUME NEW n \in 0..Len(b) - 1 PROVE ~Joined(h, to, n)
  <2>1. n \in Nat /\ n + 1 \in 0..Len(path) - 1
    BY <1>4
  <2>2. Joined(h, to, n) => Joined(at, to, n + 1)
    BY <2>1, <1>3, <1>5, FirstEdge
  <2> QED BY <2>1, <2>2, <1>2
<1>8. (parkKind' /\ ~Departs(h, b)) <=> ~WalkClearsPark(from, to)
  BY <1>1, <1>2, <1>5
<1>9. TypeOK'
  BY <1>1, <1>3, <1>4 DEF TypeOK
<1>10. CASE b = <<>>
  <2>1. h = to /\ ~Departs(h, b)
    <3>1. Len(b) = 0
      BY <1>10
    <3> QED BY <3>1, <1>5 DEF Leads, Departs, Node
  <2>2. parkKind' \in BOOLEAN
    BY <1>1, <1>3
  <2>3. parkKind' <=> ~WalkClearsPark(from, to)
    BY <2>1, <1>8
  <2>4. WalksAsTabled'
    BY <2>1, <2>2, <2>3, <1>1, <1>6, <1>10 DEF WalksAsTabled, CanWalk, WalkClearsPark
  <2> QED BY <2>4, <1>1, <1>9, <1>10 DEF WalkInv
<1>11. CASE b # <<>>
  <2>1. WalkInv'
    BY <1>1, <1>5, <1>6, <1>7, <1>8, <1>11 DEF WalkInv, Leads, Departs, Node, Joined, CanWalk,
       WalkClearsPark
  <2> QED BY <2>1, <1>1, <1>9, <1>11
<1> QED BY <1>10, <1>11

\* With the frontier empty, all that the status leads to was seen.
LEMMA RefuseStep ==
    ASSUME TypeOK, SearchInv, Refuse
    PROVE  TypeOK' /\ WalksAsTabled' /\ phase' = "refused"
<1>1. phase = "search" /\ frontier = <<>> /\ phase' = "refused"
      /\ UNCHANGED <<from, to, frontier, seen, path, at, parkKind>>
  BY DEF Refuse
<1>2. Expanded = seen
  BY <1>1 DEF Expanded
<1>3. from \in seen /\ to \notin seen /\ \A s \in seen : Successors(s) \subseteq seen
  BY <1>1, <1>2 DEF SearchInv, Closed
<1>4. ~CanWalk(from, to)
  BY <1>3, ClosedHasAll DEF TypeOK
<1> QED BY <1>1, <1>4 DEF TypeOK, WalksAsTabled, CanWalk

\* Every step keeps the invariant.
LEMMA Step == ASSUME IInv, [Next]_vars PROVE IInv'
<1> USE DEF IInv
<1>1. CASE Expand
  <2>1. phase = "search"
    BY <1>1 DEF Expand
  <2>2. CASE to \in Successors(Head(frontier).status)
    BY <2>1, <2>2, <1>1, FoundStep DEF SearchInv, WalksAsTabled
  <2>3. CASE to \notin Successors(Head(frontier).status)
    BY <2>1, <2>3, <1>1, SearchStep DEF WalkInv, WalksAsTabled
  <2> QED BY <2>2, <2>3
<1>2. CASE Refuse
  BY <1>2, RefuseStep DEF SearchInv, WalkInv
<1>3. CASE Transition
  BY <1>3, TransitionStep DEF SearchInv, WalksAsTabled
<1>4. CASE UNCHANGED vars
  <2>1. UNCHANGED <<from, to, frontier, seen, path, at, parkKind, phase>>
    BY <1>4 DEF vars
  <2>2. TypeOK' /\ WalksAsTabled'
    BY <2>1 DEF TypeOK, WalksAsTabled, CanWalk, WalkClearsPark
  <2>3. Pending' = Pending /\ Reached' = Reached /\ Closed' = Closed
    BY <2>1 DEF Pending, Reached, Closed, Expanded, Leads, Departs, Node, Joined, WalkClearsPark
  <2>4. SearchInv'
    BY <2>1, <2>3 DEF SearchInv
  <2>5. WalkInv'
    BY <2>1 DEF WalkInv, Leads, Departs, Node, Joined, CanWalk, WalkClearsPark
  <2> QED BY <2>2, <2>4, <2>5
<1> QED BY <1>1, <1>2, <1>3, <1>4 DEF Next

\* The search and the walk keep their invariant, for every pair of statuses.
THEOREM WalkInvariant == Spec => []IInv
<1>1. Init => IInv
  BY Initial
<1>2. IInv /\ [Next]_vars => IInv'
  BY Step
<1> QED BY <1>1, <1>2, PTL DEF Spec

\* The search's and the walk's columns stay in their types.
THEOREM WalkTyped == Spec => []TypeOK
<1>1. IInv => TypeOK
  BY DEF IInv
<1> QED BY <1>1, WalkInvariant, PTL

\* What the lifecycle takes a walk to do is what the search and the transitions
\* along its path do.
THEOREM WalkAsTabled == Spec => []WalksAsTabled
<1>1. IInv => WalksAsTabled
  BY DEF IInv
<1> QED BY <1>1, WalkInvariant, PTL

\* The ticket is walked along a shortest path, at every edge of it.
THEOREM ShortestPath == Spec => []PathIsShortest
<1>1. IInv => PathIsShortest
  BY LeadsJoins DEF IInv, TypeOK, WalkInv, PathIsShortest
<1> QED BY <1>1, WalkInvariant, PTL

=============================================================================
