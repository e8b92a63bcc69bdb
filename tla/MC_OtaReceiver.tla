---------------------------- MODULE MC_OtaReceiver ----------------------------
(* Two images: one of a full and a short chunk, one of a single chunk.       *)
EXTENDS OtaReceiver

Sizes == [i \in Images |-> CASE i = "a" -> 7 [] i = "b" -> 4]
===============================================================================
