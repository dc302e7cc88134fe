-------------------------- MODULE MCSctpAssociation --------------------------
(* Messages of one byte, an MTU of one byte and one byte of header, windows *)
(* of two packets.                                                          *)
EXTENDS SctpAssociation

OneByteMessages == {<<1>>}
NoGapLists == {}
=============================================================================
