------------------------- MODULE MCFailoverStrategy -------------------------
(***************************************************************************)
(* Model-checking instance of FailoverStrategy: three pools, so that a     *)
(* cascade has a middle pool and a wrap-around.                            *)
(***************************************************************************)
EXTENDS FailoverStrategy

MCN == 3
MCAllPools == {0, 1, 2}
\* Only the middle pool can log in and it never fails: pool 0 fails, the
\* cascade must move on, and after a drop of pool 1 it must wrap around
\* through pools 2 and 0.
MCMiddleReachable == {1}
MCOuterFailing == {0, 2}
\* The liveness runs use four pools, so a wrap-around passes two failing
\* pools (2 and 3) before it reaches pool 0 and then pool 1.
MCN4 == 4
MCOuterFailing4 == {0, 2, 3}

=============================================================================
