-------------------------- MODULE MCFragReassembly --------------------------
(* A small instance of FragReassembly: two kinds of two and three fragments. *)
EXTENDS FragReassembly, TLC

CONSTANTS fast, slow

MCKinds == {fast, slow}
MCFragTot == (fast :> 2) @@ (slow :> 3)
=============================================================================
