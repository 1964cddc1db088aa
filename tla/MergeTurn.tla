------------------------------ MODULE MergeTurn ------------------------------
(****************************************************************************)
(* What the merge lock promises, without files, flocks or arbiters: one     *)
(* process at a time has the turn to move the checkout's main, and it loses *)
(* the turn only by giving it back or by dying.                             *)
(****************************************************************************)
CONSTANT Procs

VARIABLES holders, alive
turnVars == <<holders, alive>>

TurnInit == holders = {} /\ alive = Procs

TakeTurn(p) == /\ holders = {}
               /\ p \in alive
               /\ holders' = {p}
               /\ UNCHANGED alive

GiveTurn(p) == /\ p \in holders \cap alive
               /\ holders' = holders \ {p}
               /\ UNCHANGED alive

Die(p) == /\ p \in alive
          /\ alive' = alive \ {p}
          /\ holders' = holders \ {p}

TurnNext == \E p \in Procs : TakeTurn(p) \/ GiveTurn(p) \/ Die(p)

TurnSpec == TurnInit /\ [][TurnNext]_turnVars
==============================================================================
