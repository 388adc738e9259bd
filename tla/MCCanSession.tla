---------------------------- MODULE MCCanSession ----------------------------
(* CanSession with one caller that enters the bootloader and flashes, and  *)
(* one beside it; and with one caller alone.                               *)
EXTENDS CanSession, TLC

CONSTANTS c1, c2

Pair == {c1, c2}
PairUses == c1 :> {"entering", "retrying", "broadcast", "disconnect"} @@ c2 :> {"gated", "plain"}

Single == {c1}
SingleUses == c1 :> {"connect", "gated"}
=============================================================================
