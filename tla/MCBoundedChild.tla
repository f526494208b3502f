---------------------------- MODULE MCBoundedChild ----------------------------
(* A child with at most two descendants whose output can exceed its bound. *)
EXTENDS BoundedChild
===============================================================================
