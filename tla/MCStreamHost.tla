---------------------------- MODULE MCStreamHost ----------------------------
(* StreamHost checked with two streams, one slot and a two byte limit.      *)
EXTENDS StreamHost

CONSTANTS s1, s2

MCStreams == {s1, s2}
MCSizes == 0..2
=============================================================================
