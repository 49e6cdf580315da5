---------------------------- MODULE MCSmartClient ----------------------------
(* SmartClient with two updates and two pushes of them, and with two pulls *)
(* of a table of three rows: a plain one, one with a stamp of its own and  *)
(* one without a key.  The outbox and the cache share nothing but what the *)
(* engine knows of the network, so a behaviour has one of them at work.    *)
EXTENDS SmartClient, TLC

CONSTANTS w1, w2, s1, s2, p1, p2, stamped, plain, keyless

VARIABLE half

TwoWrites == {w1, w2}
TwoPushes == {s1, s2}
TwoPulls == {p1, p2}
ThreeRows == {stamped, plain, keyless}
StampedRows == {stamped}
KeyedRows == {stamped, plain}

MCInit == Init /\ half \in {"outbox", "cache"}

MCNext ==
    /\ Next
    /\ half' = half
    /\ IF half = "outbox" THEN UNCHANGED cacheVars ELSE UNCHANGED outboxVars

\* The pushes are alike, and so are the pulls.
Symmetry == Permutations(TwoPushes) \cup Permutations(TwoPulls)

MCSpec == MCInit /\ [][MCNext]_<<vars, half>>
=============================================================================
