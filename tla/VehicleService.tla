--------------------------- MODULE VehicleService ---------------------------
(***************************************************************************)
(* What the accumulator remembers of the operator's requests               *)
(* (vehicle_service_temp.cpp): the tick of the last charge request, and    *)
(* the last balancing command with its tick.  A request counts while it is *)
(* fresh.  Ticks wrap, and a tick of 0 stands for "never".                 *)
(***************************************************************************)
EXTENDS Naturals

CONSTANTS Wrap,                  \* the tick counts modulo Wrap (2^32 in the code)
          ChargeReqFreshMs,
          BalanceOverrideFreshMs

ASSUME ServiceAssumption ==
    /\ {Wrap, ChargeReqFreshMs, BalanceOverrideFreshMs} \subseteq Nat \ {0}
    /\ ChargeReqFreshMs < Wrap /\ BalanceOverrideFreshMs < Wrap

Tick == 0 .. Wrap - 1

(* Addition and subtraction of the ticks, for operands below Wrap.         *)
Plus(t, d) == IF t + d < Wrap THEN t + d ELSE t + d - Wrap
Since(now, then) == IF now >= then THEN now - then ELSE now + Wrap - then

BalanceCmd == {"Off", "Auto", "On"}

(* What a frame on the bus is to the service: a DC-bus voltage, a charge   *)
(* request, a balancing command, or anything its magic does not admit.     *)
VehicleFrame == {"dcbus", "charge", "noise"} \cup BalanceCmd

VehicleState == [chargeTick : Tick, balanceTick : Tick, balance : BalanceCmd]
PowerUp == [chargeTick |-> 0, balanceTick |-> 0, balance |-> "Off"]

(* Mutated form of UpdateFromFrame: a frame without the magic also         *)
(* advances the tick of the charge request.                                *)
UpdateUngated(state, kind, at) ==
    CASE kind \in {"charge", "noise"} -> [state EXCEPT !.chargeTick = at]
      [] kind \in BalanceCmd -> [state EXCEPT !.balance = kind, !.balanceTick = at]
      [] OTHER -> state

(* update_from_frame.  The DC-bus voltage goes to the safety task, whose   *)
(* code is not in the repository, and is left out.                         *)
UpdateFromFrame(state, kind, at) ==
    CASE kind = "charge" -> [state EXCEPT !.chargeTick = at]
      [] kind \in BalanceCmd -> [state EXCEPT !.balance = kind, !.balanceTick = at]
      [] OTHER -> state

(* Mutated form of Age: the plain wrapping difference.                     *)
AgeModular(now, last) == Since(now, last)

(* A stamp ahead of now counts as just seen.                               *)
Age(now, last) == IF now >= last THEN now - last ELSE 0

ChargeRequested(now, last) == last # 0 /\ Age(now, last) <= ChargeReqFreshMs

(* The dead man: a command that is stale or was never seen is Off.         *)
EffectiveBalanceCmd(now, last, cmd) ==
    IF last # 0 /\ Age(now, last) <= BalanceOverrideFreshMs THEN cmd ELSE "Off"
=============================================================================
