---------------------------- MODULE MC_BoardLease ----------------------------
\* Two hosts that contend for a ticket, interchangeable.
EXTENDS BoardLease, TLC

Interchangeable == Permutations(Hosts)
==============================================================================
