---------------------------- MODULE OrderedStream ----------------------------
(* What an SCTP association promises to the two applications: chunks come   *)
(* out in the order they went in, each once, none left out between two.     *)
EXTENDS Naturals, Sequences

VARIABLES written, read

Init == written = <<>> /\ read = <<>>

(* A message of one chunk or more, all of them new. *)
Write == /\ \E n \in 1..Len(written') : SubSeq(written', 1, Len(written') - n) = written
         /\ UNCHANGED read

Read == /\ Len(read) < Len(written)
        /\ read' = Append(read, written[Len(read) + 1])
        /\ UNCHANGED written

Spec == Init /\ [][Write \/ Read]_<<written, read>>
=============================================================================
