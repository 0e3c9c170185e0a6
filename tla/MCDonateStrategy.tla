-------------------------- MODULE MCDonateStrategy --------------------------
(* DonateStrategy over the three donation pools of a TLS build. *)
EXTENDS DonateStrategy

MCN == 3
MCAllPools == {0, 1, 2}
MCNoPools == {}
MCMiddleReachable == {1}
MCOuterFailing == {0, 2}

=============================================================================
