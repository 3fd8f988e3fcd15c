----------------------------- MODULE MCBackoff -----------------------------
(* Instance of Backoff for TLC; the values are in the configuration file.   *)
EXTENDS Backoff
=============================================================================
