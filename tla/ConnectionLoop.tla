--------------------------- MODULE ConnectionLoop ---------------------------
(***************************************************************************)
(* What the connection task promises the application, without its threads, *)
(* locks and flags: a single loop that attempts, serves, decides and waits *)
(* to try again.  It begins only after a connect(), ends only if           *)
(* reconnection is disabled or somebody asked to stop, retries only if     *)
(* reconnection is enabled, and stays only in a session for ever.          *)
(* Connection implements it.                                               *)
(***************************************************************************)

VARIABLES
  phase,      \* what the loop does
  told,       \* what the calls accepted so far ask for, as in Connection
  reconnect   \* Config::reconnect

vars == <<phase, told, reconnect>>

Init ==
  /\ phase = "stopped"
  /\ told = "none"
  /\ reconnect \in BOOLEAN

Moves(from, to) ==
  /\ phase = from
  /\ phase' = to
  /\ UNCHANGED <<told, reconnect>>

\* The application calls.
AskConnect ==
  /\ told' = IF told \in {"none", "connect"} THEN "connect" ELSE "reconnect"
  /\ UNCHANGED <<phase, reconnect>>

AskStop ==
  /\ told' = "stop"
  /\ UNCHANGED <<phase, reconnect>>

Begin == told # "none" /\ Moves("stopped", "attempting")

Connected == Moves("attempting", "serving")

Failed == Moves("attempting", "deciding")

SessionEnds == Moves("serving", "deciding")

WillRetry == reconnect /\ Moves("deciding", "waiting")

Retry == Moves("waiting", "attempting")

\* The loop ends for a reason.
End ==
  /\ ~reconnect \/ told \in {"stop", "reconnect"}
  /\ Moves("deciding", "stopped") \/ Moves("waiting", "stopped")

Next ==
  \/ AskConnect \/ AskStop
  \/ Begin \/ Connected \/ Failed \/ SessionEnds \/ WillRetry \/ Retry \/ End

Spec == Init /\ [][Next]_vars

\* Every phase but the session itself ends.
Progress ==
  \A p \in {"attempting", "deciding", "waiting"} : phase = p ~> phase # p

LiveSpec == Spec /\ Progress

=============================================================================
