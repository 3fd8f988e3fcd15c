----------------------------- MODULE MCRequests -----------------------------
(* Instances of Requests for TLC; calls are model values.                   *)
EXTENDS Requests

CONSTANTS r1, r2, s1

\* r1 may ask for nothing, r2 asks for a fee, s1 subscribes once.
MCSizes == [r \in Calls |-> CASE r = r1 -> {0, 2} [] r = r2 -> {1} [] r = s1 -> {1}]
=============================================================================
