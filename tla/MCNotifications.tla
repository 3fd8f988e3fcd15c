-------------------------- MODULE MCNotifications --------------------------
(***************************************************************************)
(* Instances of Notifications for TLC.  The streams do not interact, so    *)
(* one stands for all; the callers are model values.                       *)
(***************************************************************************)
EXTENDS Notifications
=============================================================================
