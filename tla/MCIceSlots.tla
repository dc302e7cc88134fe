------------------------------- MODULE MCIceSlots -------------------------------
EXTENDS IceSlots
CONSTANTS c1, c2, a1, a2
(* Both connect to the same peer, which has one address for c2. *)
SamePeer == c1 :> <<a1, a2>> @@ c2 :> <<a1>>
=============================================================================
