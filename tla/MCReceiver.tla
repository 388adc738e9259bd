----------------------------- MODULE MCReceiver -----------------------------
(* A small instance of Receiver: one kind of two fragments.                *)
EXTENDS Receiver, TLC

CONSTANTS snapshot, none

MCKinds == {snapshot}
MCFragTot == snapshot :> 2
=============================================================================
