SPECIFICATION Spec
INVARIANT TypeOK WalksAsTabled PathIsShortest
PROPERTY WalkSettles
CHECK_DEADLOCK FALSE
