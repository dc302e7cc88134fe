---------------------------- MODULE MCSctpSender ----------------------------
(* A small sender: an MTU of three bytes, one of them header, messages of   *)
(* one fragment and of two, a peer's window of four bytes.                  *)
EXTENDS SctpSender

SmallMessages == {<<1>>, <<2, 1>>}

Hole(a, b) == [first |-> a, last |-> b]

SmallGapLists == {<<>>, <<Hole(2, 2)>>, <<Hole(2, 3)>>, <<Hole(3, 3)>>,
                  <<Hole(2, 2), Hole(4, 4)>>}
=============================================================================
