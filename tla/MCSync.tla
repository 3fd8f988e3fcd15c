------------------------------- MODULE MCSync -------------------------------
(***************************************************************************)
(* An instance of Sync for TLC.  The wallet has a keychain of four scripts, *)
(* of which t1 pays the second and the fourth, and one of a single script, *)
(* which t1 pays too.  Another output of t1 pays x, a script of somebody   *)
(* else.  t2 and t3 compete for it: t2 pays x, so that only the outpoint   *)
(* leads to it; t3 pays the wallet, whose script stays in use without it.  *)
(* The wallet starts on a fork that the server has left and has no         *)
(* checkpoint at height 1, where t1 may be anchored.                       *)
(***************************************************************************)
EXTENDS Sync

CONSTANTS t1, t2, t3, a1, a2, a3, a4, b1, x

MCOutputs == t1 :> <<a2, a4, b1, x>> @@ t2 :> <<x>> @@ t3 :> <<b1>>
MCInputs == t1 :> {} @@ t2 :> {<<t1, 4>>} @@ t3 :> {<<t1, 4>>}
MCKeychains == <<<<a1, a2, a3, a4>>, <<b1>>>>
MCRequests ==
  {[kind |-> "sync", txids |-> {t1}, outpoints |-> {<<t1, 4>>}, fetchPrev |-> TRUE]}
MCStartAt == {Absent, 1}
MCWallets == {{<<0, 0>>, <<2, -1>>}}
=============================================================================
