----------------------------- MODULE MCAsyncSocket -----------------------------
(* Two connections, one after the other, on a client or a server socket; two *)
(* sends of two bytes against a kernel that takes two; a receive buffer of   *)
(* three bytes that has to move its contents or grow, by one byte at a time. *)
EXTENDS AsyncSocket
=============================================================================
