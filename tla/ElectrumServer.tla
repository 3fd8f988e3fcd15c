--------------------------- MODULE ElectrumServer ---------------------------
(***************************************************************************)
(* The Electrum server that the wallet client (bdk-tokio-electrum) queries, *)
(* as its code expects it: a best chain that is extended, rolled back or   *)
(* reorganised, and transactions that enter and leave the mempool and the  *)
(* blocks.  It is external.  A request is answered from one moment; what   *)
(* changes between two requests of the client is up to the server.         *)
(*                                                                         *)
(* A block is a height and the event that mined it, so no block that left  *)
(* the best chain comes back.                                              *)
(***************************************************************************)
EXTENDS Integers, Sequences, FiniteSets

CONSTANTS
  Scripts,    \* scripts, of the wallet and of others
  Txs,        \* transactions
  Outputs,    \* the script of each output of a transaction
  Inputs,     \* the outpoints a transaction spends: <<transaction, output>>
  StartAt,    \* where transactions may be at first
  MaxHeight,  \* bound: height of the chain
  MaxEvents   \* bound: changes of the server

ASSUME TxsAssumption ==
  \A t \in Txs :
    /\ Outputs[t] \in Seq(Scripts) \ {<<>>}
    /\ \A o \in Inputs[t] : o[1] \in Txs \ {t} /\ o[2] \in DOMAIN Outputs[o[1]]
ASSUME ServerBounds ==
  MaxHeight \in Nat \ {0} /\ MaxEvents \in Nat /\ StartAt \subseteq -1..(MaxHeight - 1)

VARIABLES
  chain,   \* the event that mined the block of each height from 1
  place,   \* of each transaction: the height of its block, Mempool or Absent
  mined,   \* history: every transaction and block that contains or contained it
  events   \* number of events

server == <<chain, place, mined, events>>

\* Heights of transactions as in a script history: 0 is unconfirmed.
Mempool == 0
Absent == -1

Block(h) == IF h = 0 THEN <<0, 0>> ELSE <<h, chain[h]>>
Height == Len(chain)
Chain == {Block(h) : h \in 0..Height}

ScriptOf(o) == Outputs[o[1]][o[2]]

\* The scripts whose history a transaction is part of.
Touches(t) ==
  {Outputs[t][i] : i \in DOMAIN Outputs[t]} \cup {ScriptOf(o) : o \in Inputs[t]}

Present == {t \in Txs : place[t] # Absent}

\* The history of a script at this moment.
History(s) == {<<t, place[t]>> : t \in {u \in Present : s \in Touches(u)}}

\* The transactions that spend an output which t spends, too.
Conflicts(t) == {u \in Txs \ {t} : Inputs[t] \cap Inputs[u] # {}}

\* A transaction is no lower than those it spends, and not without them; it
\* excludes those that spend the same output.
Ordered(at) ==
  \A t \in Txs :
    /\ \A o \in Inputs[t] :
         /\ at[t] # Absent => at[o[1]] # Absent
         /\ at[t] > 0 => at[o[1]] \in 1..at[t]
    /\ at[t] # Absent => \A u \in Conflicts(t) : at[u] = Absent

\* The blocks from height h are replaced by n new ones, into which
\* transactions of the old ones and of the mempool may go.
NewBlocks ==
  /\ events < MaxEvents
  /\ events' = events + 1
  /\ \E h \in 1..(Height + 1), n \in 0..MaxHeight :
       /\ n # Height - h + 1 \/ h <= Height
       /\ h + n - 1 <= MaxHeight
       /\ chain' = SubSeq(chain, 1, h - 1) \o [i \in 1..n |-> events + 1]
       /\ \E to \in [Txs -> {Mempool} \cup h..(h + n - 1)] :
            /\ \A t \in Txs : place[t] \in {Absent} \cup 1..(h - 1) => to[t] = Mempool
            /\ place' = [t \in Txs |-> IF place[t] \in {Absent} \cup 1..(h - 1)
                                         THEN place[t] ELSE to[t]]
       /\ Ordered(place')
       /\ mined' = mined \cup {<<t, <<place'[t], events + 1>>>> :
                                 t \in {u \in Txs : place'[u] >= h}}

\* A transaction is broadcast and replaces those of the mempool that it
\* conflicts with, or it leaves the mempool.
MempoolChange ==
  /\ events < MaxEvents
  /\ events' = events + 1
  /\ \E t \in Txs :
       \/ /\ place[t] = Absent /\ \A u \in Conflicts(t) : place[u] <= Mempool
          /\ place' = [u \in Txs |-> IF u = t THEN Mempool
                                     ELSE IF u \in Conflicts(t) THEN Absent ELSE place[u]]
       \/ place[t] = Mempool /\ place' = [place EXCEPT ![t] = Absent]
  /\ Ordered(place')
  /\ UNCHANGED <<chain, mined>>

ServerEvent == NewBlocks \/ MempoolChange

\* The server starts with a chain mined before the first event, on which there
\* is room for one more block.
ServerInit ==
  /\ chain = [i \in 1..(MaxHeight - 1) |-> 0]
  /\ place \in [Txs -> StartAt] /\ Ordered(place)
  /\ mined = {<<t, <<place[t], 0>>>> : t \in {u \in Txs : place[u] > 0}}
  /\ events = 0

=============================================================================
