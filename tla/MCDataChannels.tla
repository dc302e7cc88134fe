----------------------------- MODULE MCDataChannels -----------------------------
(* Stream 1 for our channels, stream 2 for the peer's; two channels in all,  *)
(* which may come one after the other on the same stream; the request of a   *)
(* close is repeated once, then the close is given up.                       *)
EXTENDS DataChannels
=============================================================================
