------------------------------- MODULE MC_Pool -------------------------------
\* The pool on a small instance: its process ids are interchangeable.
EXTENDS WorkerPool, TLC

Interchangeable == Permutations(Pids)
==============================================================================
