------------------------------- MODULE MCSession -------------------------------
(* Two sessions, one after the other in a slot; consent lasts two ticks, a   *)
(* heartbeat two, probes and retries one; two unanswered heartbeats end it.  *)
EXTENDS Session
=============================================================================
