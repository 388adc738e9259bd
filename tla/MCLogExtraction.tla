-------------------------- MODULE MCLogExtraction --------------------------
(* Constants of LogExtraction that a cfg cannot write: one file of two     *)
(* blocks, the other of one.                                               *)
EXTENDS LogExtraction
MCSize == <<3, 2>>
=============================================================================
