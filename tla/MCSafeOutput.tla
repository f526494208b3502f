----------------------------- MODULE MCSafeOutput -----------------------------
(* Commands that write one file, as model values.                          *)
EXTENDS SafeOutput

CONSTANTS w1, w2, w3

Three == {w1, w2, w3}
Two == {w1, w2}
OneForce == {{w2}}
SomeForce == {{w2, w3}, Three}
===============================================================================
