------------------------------- MODULE Status -------------------------------
(***************************************************************************)
(* The connection status of an Electrum client (tokio-electrum,            *)
(* status.rs).  The client keeps it in one atomic byte that is loaded and  *)
(* stored with sequentially consistent ordering, so a status is a value    *)
(* and a load or a store is one step of whoever performs it.               *)
(***************************************************************************)

\* Every value the atomic byte can hold.
Statuses ==
  {"Initialized", "Pending", "Connecting", "Connected",
   "Disconnected", "Terminated", "Shutdown"}

IsTerminated(s) == s = "Terminated"

IsShutdown(s) == s = "Shutdown"

\* The three statuses of a client that has nothing to mark as lost.
IsDisconnectedTerminatedOrShutdown(s) ==
  s \in {"Disconnected", "Terminated", "Shutdown"}

\* connect() goes ahead only from these.
CanConnect(s) == s \in {"Initialized", "Terminated"}

\* What ElectrumClient::status() and the notifications show of a status.
PublicStatus(s) ==
  CASE s \in {"Pending", "Connecting"} -> "Connecting"
    [] s = "Connected"                 -> "Connected"
    [] OTHER                           -> "Disconnected"

=============================================================================
