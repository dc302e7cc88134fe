---------------------------- MODULE MCSctpReceiver ---------------------------
(* Up to four chunks, the first two possibly in one packet, in any order    *)
(* and as often as the network likes.                                       *)
EXTENDS SctpReceiver

Singles == {<<t>> : t \in Tsn}
SinglesAndPair == Singles \union {<<1, 2>>}

UnitLength == [t \in Tsn |-> 1]
(* The second chunk counts for more than its length. *)
UnevenCharge == [t \in Tsn |-> IF t = 2 THEN 2 ELSE 1]
=============================================================================
