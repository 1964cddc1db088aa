------------------------------ MODULE RunTables ------------------------------
(***************************************************************************)
(* The two state graphs the store holds every write to: the phases of a    *)
(* run (store/enums.py, RUN_PHASE_TRANSITIONS) and the statuses of a       *)
(* ticket (store/tickets.py, TICKET_TRANSITIONS), with the path walk_ticket *)
(* takes through the second.                                               *)
(***************************************************************************)
EXTENDS Naturals, FiniteSets

WorkPhases   == {"working", "verifying", "reviewing", "addressing"}
ParkedPhases == {"blocked_on_operator", "awaiting_merge_approval"}
EndedPhases  == {"paused", "rejected", "done", "killed", "failed"}
GatePhases   == {"merge_gate", "merging"}
RunPhases    == WorkPhases \cup ParkedPhases \cup EndedPhases \cup GatePhases
                  \cup {"claimed", "squashing"}

\* Mutant: the sweep does not look at a run that has not begun its work.
SweepablePhasesAtWork == RunPhases \ (EndedPhases \cup ParkedPhases \cup {"claimed"})

\* Every phase but the ended and the parked ones: a parked run has no heartbeat.
SweepablePhases == RunPhases \ (EndedPhases \cup ParkedPhases)

Outcomes == {"merged", "killed", "abandoned", "failed", "rejected", "paused"}

TerminalPhase(outcome) ==
  CASE outcome = "merged"                  -> "done"
    [] outcome \in {"abandoned", "failed"} -> "failed"
    [] OTHER                               -> outcome

RunPhaseEdges ==
       {"claimed"} \X {"working", "merge_gate", "awaiting_merge_approval",
                       "failed", "killed"}
  \cup {"working", "addressing"} \X {"verifying", "failed",
                                     "blocked_on_operator", "killed"}
  \cup {"verifying"} \X {"reviewing", "failed", "awaiting_merge_approval",
                         "killed"}
  \cup {"reviewing"} \X {"addressing", "merge_gate", "verifying",
                         "awaiting_merge_approval", "failed", "killed"}
  \cup {"merge_gate"} \X {"merging", "done", "verifying",
                          "awaiting_merge_approval", "failed", "killed",
                          "rejected"}
  \cup {"awaiting_merge_approval"} \X {"done", "failed", "killed", "rejected"}
  \cup {"merging"} \X {"done", "failed", "verifying", "merge_gate",
                       "awaiting_merge_approval", "blocked_on_operator",
                       "killed"}
  \cup {"failed"} \X WorkPhases
  \cup {"blocked_on_operator"} \X {"working", "failed"}
  \cup (WorkPhases \cup GatePhases
          \cup {"claimed", "squashing", "awaiting_merge_approval"}) \X {"paused"}
  \cup {"paused"} \X (WorkPhases \cup GatePhases)

\* Mutant: the edge from merging to failed is missing.
MayMoveMergingTrap(p, q) ==
  q = p \/ (<<p, q>> \in RunPhaseEdges /\ <<p, q>> # <<"merging", "failed">>)

\* The check of store.set_phase: a phase may be written over itself.
RunMayMove(p, q) == q = p \/ <<p, q>> \in RunPhaseEdges

-----------------------------------------------------------------------------
TicketStatuses == {"needs_spec", "ready", "in_flight", "blocked_on_deps",
                   "blocked_on_operator", "merged", "abandoned"}
ClosedStatuses == {"merged", "abandoned"}

TicketEdges ==
  {<<"needs_spec", "ready">>,
   <<"ready", "in_flight">>, <<"ready", "blocked_on_deps">>,
   <<"in_flight", "merged">>, <<"in_flight", "abandoned">>,
   <<"in_flight", "blocked_on_operator">>,
   <<"blocked_on_deps", "ready">>, <<"blocked_on_deps", "blocked_on_operator">>,
   <<"blocked_on_operator", "blocked_on_deps">>}

TicketMayMove(s, q) == <<s, q>> \in TicketEdges

\* walk_ticket() goes on to status q by a shortest path, or raises when there is
\* none: the open statuses but needs_spec lie on one cycle.
CanWalk(s, q) == s = q \/ (s \notin ClosedStatuses /\ q # "needs_spec")

\* The walks that leave blocked_on_operator on their way, a step that clears
\* the park kind of every run of the ticket.
WalkClearsPark(s, q) ==
  \/ s = "blocked_on_operator" /\ q # s
  \/ s = "in_flight" /\ q \in {"ready", "blocked_on_deps"}

=============================================================================
