---------------------------- MODULE MCConnection ----------------------------
(***************************************************************************)
(* Instances of Connection for TLC.  The configuration files give callers  *)
(* and task slots as model values and choose the runtime.  Callers and     *)
(* slots are interchangeable, but the runs check liveness properties, for  *)
(* which a symmetry set is not sound, so none is declared.                 *)
(***************************************************************************)
EXTENDS Connection
=============================================================================
