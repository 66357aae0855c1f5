---------------------------- MODULE MCTranscript ----------------------------
(* Transcript on two writers, two keys and two values.                     *)
EXTENDS Transcript

CONSTANTS w1, w2, k1, k2, v1, v2

TwoWriters == {w1, w2}
TwoKeys    == {k1, k2}
TwoValues  == {v1, v2}
OneValue   == {v1}
NoValue    == {}
=============================================================================
