----------------------------- MODULE TipUpdate -----------------------------
(***************************************************************************)
(* The chain update of a wallet sync (bdk-tokio-electrum, client.rs,       *)
(* fetch_tip_and_latest_blocks and chain_update).  The client asks for the *)
(* tip, for the last headers, and for the header of each checkpoint of the *)
(* wallet from the newest down until one agrees; each of them is a request *)
(* of its own and the server may reorganise between them.  A checkpoint    *)
(* chain is the set of its blocks, at most one for a height.               *)
(***************************************************************************)
EXTENDS ElectrumServer, FiniteSetsExt

CONSTANT SuffixLength  \* CHAIN_SUFFIX_LENGTH

ASSUME SuffixAssumption == SuffixLength \in Nat \ {0}

VARIABLES
  prev,  \* the checkpoints of the wallet, {} if the request has no chain tip
  tip    \* the local variables of fetch_tip_and_latest_blocks

tipVars == <<prev, tip>>

\* Where the function is, the height of the server's tip, latest_blocks, the
\* checkpoints not compared yet and, at the end, the chain it returns.
NewTip == [at |-> "GetTip", height |-> 0, latest |-> {}, left |-> {}, blocks |-> {}]

At(blocks, h) == {b \in blocks : b[1] = h}
Top(blocks) == Max({b[1] : b \in blocks})

\* The tip, and what to do if it is below that of the wallet.
GetTip ==
  /\ tip.at = "GetTip"
  /\ tip' = IF Height < Top(prev)
              THEN [tip EXCEPT !.at = "Done", !.blocks = prev]
              ELSE [tip EXCEPT !.at = "Suffix", !.height = Height]
  /\ UNCHANGED prev

\* Variant of Suffix that starts one header too low.
SuffixTooLow ==
  LET start == IF tip.height < SuffixLength THEN 0 ELSE tip.height - SuffixLength IN
  /\ tip.at = "Suffix"
  /\ tip' = [tip EXCEPT !.at = "Walk", !.left = prev,
       !.latest = {Block(h) : h \in {k \in 0..Height : k >= start /\ k < start + SuffixLength}}]
  /\ UNCHANGED prev

\* The last headers up to that tip, as many as the chain has by now.
Suffix ==
  LET start == IF tip.height < SuffixLength THEN 0 ELSE tip.height - SuffixLength + 1 IN
  /\ tip.at = "Suffix"
  /\ tip' = [tip EXCEPT !.at = "Walk", !.left = prev,
       !.latest = {Block(h) : h \in {k \in 0..Height : k >= start /\ k < start + SuffixLength}}]
  /\ UNCHANGED prev

\* Variant of Connected that keeps the checkpoints above the agreement.
ConnectedToAll(agreement, latest) == prev \cup {b \in latest : b[1] > agreement}

\* The wallet's chain up to the agreement, and the latest blocks above it.
Connected(agreement, latest) ==
  LET new == {p \in prev : p[1] <= agreement} \cup {b \in latest : b[1] > agreement}
  IN  IF new = {} THEN prev ELSE new

\* Variant of Walk that does not keep the headers it asks for.
WalkForgets ==
  /\ tip.at = "Walk"
  /\ LET cp == CHOOSE p \in tip.left : p[1] = Top(tip.left)
         known == At(tip.latest, cp[1])
         block == IF known # {} THEN CHOOSE b \in known : TRUE ELSE Block(cp[1])
     IN /\ known # {} \/ cp[1] <= Height
        /\ tip' = IF block = cp THEN [tip EXCEPT !.at = "Done", !.blocks = Connected(cp[1], tip.latest)]
                  ELSE IF tip.left = {cp} THEN [tip EXCEPT !.at = "Done", !.blocks = Connected(-1, tip.latest)]
                  ELSE [tip EXCEPT !.left = @ \ {cp}]
  /\ UNCHANGED prev

\* Variant of Walk that stays at its checkpoint.
WalkStays ==
  /\ tip.at = "Walk"
  /\ LET cp == CHOOSE p \in tip.left : p[1] = Top(tip.left)
         known == At(tip.latest, cp[1])
         block == IF known # {} THEN CHOOSE b \in known : TRUE ELSE Block(cp[1])
         latest == tip.latest \cup {block}
     IN /\ known # {} \/ cp[1] <= Height
        /\ tip' = IF block # cp THEN [tip EXCEPT !.latest = latest]
                  ELSE [tip EXCEPT !.at = "Done", !.latest = latest,
                                   !.blocks = Connected(cp[1], latest)]
  /\ UNCHANGED prev

\* Compare the next checkpoint with the block of its height, which is among the
\* latest ones or asked for; stop at the first that agrees.
Walk ==
  /\ tip.at = "Walk"
  /\ LET cp == CHOOSE p \in tip.left : p[1] = Top(tip.left)
         known == At(tip.latest, cp[1])
         block == IF known # {} THEN CHOOSE b \in known : TRUE ELSE Block(cp[1])
         latest == tip.latest \cup {block}
         done(agreement) == [tip EXCEPT !.at = "Done", !.latest = latest,
                                        !.blocks = Connected(agreement, latest)]
     IN /\ known # {} \/ cp[1] <= Height
        /\ tip' = IF block = cp THEN done(cp[1])
                  ELSE IF tip.left = {cp} THEN done(-1)
                  ELSE [tip EXCEPT !.latest = latest, !.left = @ \ {cp}]
  /\ UNCHANGED prev

FetchTipAndLatestBlocks == GetTip \/ Suffix \/ Walk

\* Variant of ChainUpdates that ignores the anchors.
ChainUpdatesTipOnly(anchored) == {tip.blocks}

\* chain_update(): the chain with a block at the height of each anchor that is
\* not above it, the anchor's own unless it is among the latest blocks.  Of
\* several anchors of a height one comes first.
ChainUpdates(anchored) ==
  LET missing == {h \in {b[1] : b \in anchored} : h <= Top(tip.blocks) /\ At(tip.blocks, h) = {}}
      picks == {p \in [missing -> anchored] : \A h \in missing : p[h][1] = h}
  IN  {tip.blocks \cup UNION {IF At(tip.latest, h) # {} THEN At(tip.latest, h) ELSE {p[h]} :
                                h \in missing} : p \in picks}

=============================================================================
