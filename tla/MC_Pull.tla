-------------------------------- MODULE MC_Pull --------------------------------
\* One ticket's pull request, small enough for TLC.
EXTENDS PullRequests

CONSTANTS x, y, z, m, pool

TwoChanges   == {x, y}
ThreeChanges == {x, y, z}
Mains        == {m}

=============================================================================
