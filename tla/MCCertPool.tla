------------------------------ MODULE MCCertPool ------------------------------
(* Three targets on two workers.                                            *)
EXTENDS CertPool
===============================================================================
