---------------------------- MODULE MCNetworkCheck ----------------------------
(* Three candidates and one redirect within a deadline of six ticks.     *)
EXTENDS NetworkCheck
===============================================================================
