---------------------------- MODULE SnapshotLink ----------------------------
(***************************************************************************)
(* What a link promises to the layers above it: what it carries (the       *)
(* snapshots of the telemetry link, the messages of a CAN node) is sent    *)
(* one after the other; each is handed up at most once, and only while it  *)
(* is the one on the air, so what is handed up is in the order of sending. *)
(* Any of them may never be handed up.                                     *)
(***************************************************************************)
EXTENDS Naturals

VARIABLES onair,   \* number of what is being sent, growing; 0 before the first
          handed,  \* how many times that was handed up
          last     \* number of what was handed up last, 0 if nothing was

linkVars == <<onair, handed, last>>

LinkInit == onair = 0 /\ handed = 0 /\ last = 0

Begin ==
    /\ onair' \in Nat /\ onair' > onair
    /\ handed' = 0
    /\ UNCHANGED last

HandUp ==
    /\ handed = 0
    /\ handed' = 1
    /\ last' = onair
    /\ last < onair
    /\ UNCHANGED onair

LinkNext == Begin \/ HandUp

LinkSpec == LinkInit /\ [][LinkNext]_linkVars
=============================================================================
