------------------------------- MODULE CardLog -------------------------------
(***************************************************************************)
(* What the SD card logger promises to whoever reads the card: the card    *)
(* grows at its new end, a log is sealed whole, in the order of capture    *)
(* and for good, and its rows are in no other log.  What is not sealed yet *)
(* may be lost.  Records are numbered in the order of capture.             *)
(***************************************************************************)
EXTENDS Naturals, Sequences, Functions

VARIABLES sealed, \* the finished logs: number of the file -> its rows
          kept    \* the records that are on the card, but in no finished log

cardLogVars == <<sealed, kept>>

Archived == UNION {Range(sealed[i]) : i \in DOMAIN sealed}
Ascending(s) == \A j, k \in DOMAIN s : j < k => s[j] < s[k]

CardInit == DOMAIN sealed = {} /\ kept = {}

(* Records get onto the card, each newer than all that is there.           *)
Keep ==
    /\ kept \subseteq kept'
    /\ \A r \in kept' \ kept : \A q \in kept \cup Archived : q < r
    /\ UNCHANGED sealed

(* An unfinished log is emptied.                                           *)
Forget == kept' \subseteq kept /\ UNCHANGED sealed

(* Records that were kept make up a log of their own, under a new number;  *)
(* the logs sealed before stay as they are.                                *)
Seal ==
    \E i \in DOMAIN sealed' \ DOMAIN sealed :
        /\ DOMAIN sealed' = DOMAIN sealed \cup {i}
        /\ \A j \in DOMAIN sealed : sealed'[j] = sealed[j]
        /\ sealed'[i] \in Seq(kept) /\ Ascending(sealed'[i])
        /\ kept' = kept \ Range(sealed'[i])

CardNext == Keep \/ Forget \/ Seal

CardSpec == CardInit /\ [][CardNext]_cardLogVars
=============================================================================
