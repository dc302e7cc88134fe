----------------------------- MODULE MCLifeTime -----------------------------
(* Two objects that ask for timers, three timers at most.  A second is one *)
(* tick: a delay is none or longer than a second.                          *)
EXTENDS LifeTime
=============================================================================
