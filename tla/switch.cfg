\* Two pairs of items, one descriptor fewer than their four sockets need.
CONSTANTS
    MaxPairs = 2
    MaxFd = 3
    Bounded = TRUE
SPECIFICATION Spec
INVARIANTS PairsConserved LocksGivenBack NoHalfOpen AssertionsHold
CHECK_DEADLOCK FALSE
