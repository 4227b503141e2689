---------------------------- MODULE MCBroadcasts ----------------------------
(* Instances of Broadcasts for TLC.                                         *)
EXTENDS Broadcasts, TLC
CONSTANTS b1, b2, p1, p2
\* The second broadcast has the smaller segment.
MCAudience == [b \in Broadcasts |-> IF b = b1 THEN 1..3 ELSE 1..1]
=============================================================================
