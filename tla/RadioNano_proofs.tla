-------------------------- MODULE RadioNano_proofs --------------------------
(***************************************************************************)
(* Proofs about the telemetry receiver: its type invariant, that the host  *)
(* is never left without a frame (HostHears) and that it is never told of  *)
(* a missing transmitter too early (NoFalseAlarm), for every value of the  *)
(* constants.                                                              *)
(*                                                                         *)
(* millis wraps, so what the sketch reads of an age, Since(millis, then),  *)
(* falls back to 0 once a round.  Inv says how those readings are related  *)
(* to the true ages that the history keeps, and what the pass under way    *)
(* has already decided from them.                                          *)
(***************************************************************************)
EXTENDS RadioNano, SequenceTheorems, TLAPS

SinceRx == Since(millis, lastRx)
SinceStatus == Since(millis, lastStatus)

(* TypeOK, variable by variable.                                           *)
Typed ==
    /\ millis \in Millis /\ now \in Millis
    /\ lastRx \in Millis /\ lastStatus \in Millis /\ ledOff \in Millis
    /\ pc \in {"begin", "configure", "top", "led", "drain", "forward"}
    /\ busy \in 0 .. FlushMs
    /\ ran \in BOOLEAN /\ radioOk \in BOOLEAN /\ connected \in BOOLEAN /\ led \in BOOLEAN
    /\ status \in {"ok", "no_radio_chip", "no_transmitter"}
    /\ chip \in {"low", "high", "reset", "listening"}
    /\ fifo \in Seq(Payload) /\ Len(fifo) <= FifoDepth
    /\ losses \in 0 .. MaxLosses /\ restarts \in 0 .. MaxRestarts
    /\ heard \in 0 .. HeardCap /\ silent \in 0 .. SilentCap

(* The host has not waited longer than the sketch believes, of both kinds  *)
(* of frames; or one of the two ages has wrapped since, and then the other *)
(* is not much larger.                                                     *)
Timely ==
    \/ heard <= SinceRx /\ heard <= SinceStatus
    \/ /\ SinceRx < heard /\ heard <= SinceStatus
       /\ SinceStatus <= SinceRx + StatusMs \/ SinceStatus <= SinceRx + FlushMs
    \/ /\ SinceStatus < heard /\ heard <= SinceRx
       /\ SinceRx <= SinceStatus + SilentMs + 1 \/ SinceRx <= SinceStatus + FlushMs

(* In a tick that a pass began in, no status frame is due.                 *)
Checked == ran => SinceRx <= SilentMs \/ SinceStatus < StatusMs

(* While the serial port takes a frame, the age of that frame is the time  *)
(* it has taken.                                                           *)
Flushing ==
    /\ pc = "forward" => SinceRx = busy /\ heard = busy
    /\ pc = "led" /\ status # "ok" => SinceStatus = busy /\ heard = busy
    /\ status # "ok" => pc = "led"

(* setup takes no tick.                                                    *)
Starting == pc \in {"begin", "configure"} => heard = 0 /\ ~ ran /\ millis = 0 /\ lastRx = 0

Bound == heard <= SilentMs + StatusMs + FlushMs

(* As long as a payload forwarded is not yet old, last_rx_time says how    *)
(* long ago it was.                                                        *)
Fresh == silent <= SilentMs => SinceRx = silent

Inv == Typed /\ Timely /\ Checked /\ Flushing /\ Starting /\ Bound /\ Fresh /\ NoFalseAlarm

-----------------------------------------------------------------------------
(* The clock.                                                              *)

LEMMA Constants ==
    /\ Wrap \in Nat /\ Wrap > 0 /\ SilentMs \in Nat /\ SilentMs > 0
    /\ StatusMs \in Nat /\ StatusMs > 0 /\ PulseMs \in Nat /\ PulseMs > 0
    /\ FlushMs \in Nat /\ FlushMs > 0 /\ FifoDepth \in Nat /\ FifoDepth > 0
    /\ MaxLosses \in Nat /\ MaxRestarts \in Nat
    /\ SilentMs + StatusMs + FlushMs < Wrap /\ PulseMs < Wrap
<1>1. /\ Wrap \in Nat \ {0} /\ SilentMs \in Nat \ {0} /\ StatusMs \in Nat \ {0}
      /\ PulseMs \in Nat \ {0} /\ FlushMs \in Nat \ {0} /\ FifoDepth \in Nat \ {0}
      /\ MaxLosses \in Nat /\ MaxRestarts \in Nat
  BY NanoAssumption
<1>2. QED
  BY <1>1, NanoAssumption

LEMMA SinceType ==
    ASSUME NEW t \in Millis, NEW u \in Millis
    PROVE  Since(t, u) \in Millis
BY Constants DEF Since, Millis

LEMMA SinceSelf ==
    ASSUME NEW t \in Millis
    PROVE  Since(t, t) = 0
BY Constants DEF Since, Millis

LEMMA PlusType ==
    ASSUME NEW t \in Millis, NEW d \in Nat, d <= Wrap
    PROVE  Plus(t, d) \in Millis
BY Constants DEF Plus, Millis

(* What the sketch reads of an age grows by one in a tick, and falls back  *)
(* to 0 once a round.                                                      *)
LEMMA SinceStep ==
    ASSUME NEW t \in Millis, NEW u \in Millis
    PROVE  Since(Plus(t, 1), u) = IF Since(t, u) = Wrap - 1 THEN 0 ELSE Since(t, u) + 1
BY Constants DEF Since, Plus, Millis

LEMMA Ages ==
    ASSUME Typed
    PROVE  SinceRx \in Millis /\ SinceStatus \in Millis
BY SinceType DEF Typed, SinceRx, SinceStatus

-----------------------------------------------------------------------------
LEMMA InvInit == Init => Inv
<1> SUFFICES ASSUME Init PROVE Inv
  OBVIOUS
<1>1. 0 \in Millis /\ <<>> \in Seq(Payload)
  BY Constants, EmptySeq DEF Millis
<1>2. Typed
  <2>1. Len(fifo) <= FifoDepth /\ fifo \in Seq(Payload)
    BY <1>1, Constants DEF Init
  <2>2. millis \in Millis /\ now \in Millis /\ lastRx \in Millis /\ lastStatus \in Millis
        /\ ledOff \in Millis
    BY <1>1 DEF Init
  <2>3. busy \in 0 .. FlushMs /\ losses \in 0 .. MaxLosses /\ restarts \in 0 .. MaxRestarts
        /\ heard \in 0 .. HeardCap /\ silent \in 0 .. SilentCap
    BY Constants DEF Init, HeardCap, SilentCap
  <2>4. QED
    BY <2>1, <2>2, <2>3 DEF Init, Typed
<1>3. SinceRx = 0 /\ SinceStatus = 0
  BY <1>1, SinceSelf DEF Init, SinceRx, SinceStatus
<1>4. QED
  BY <1>2, <1>3, Constants
     DEF Init, Inv, Timely, Checked, Flushing, Starting, Bound, Fresh, NoFalseAlarm

(* A step that leaves the clock and the sketch's times alone.              *)
Untimed == UNCHANGED <<millis, lastRx, lastStatus, heard, silent>>

LEMMA UntimedAges ==
    ASSUME Untimed
    PROVE  SinceRx' = SinceRx /\ SinceStatus' = SinceStatus /\ (Timely' <=> Timely)
           /\ (Bound' <=> Bound) /\ (Fresh' <=> Fresh)
<1>1. SinceRx' = SinceRx /\ SinceStatus' = SinceStatus
  BY DEF Untimed, SinceRx, SinceStatus
<1>2. QED
  BY <1>1 DEF Untimed, Timely, Bound, Fresh

-----------------------------------------------------------------------------
(* setup.                                                                  *)

LEMMA BeginStep == Inv /\ Begin => Inv'
<1> SUFFICES ASSUME Inv, Begin PROVE Inv'
  OBVIOUS
<1>1. Typed'
  <2>1. fifo' \in Seq(Payload) /\ Len(fifo') <= FifoDepth
    BY Constants, EmptySeq DEF Begin
  <2>2. QED
    BY <2>1 DEF Inv, Typed, Begin, Powered
<1>2. Timely' /\ Bound' /\ Fresh'
  BY UntimedAges DEF Inv, Begin, Untimed
<1>3. Checked' /\ Flushing' /\ Starting' /\ NoFalseAlarm'
  BY DEF Inv, Begin, Checked, Flushing, Starting, NoFalseAlarm
<1>4. QED
  BY <1>1, <1>2, <1>3 DEF Inv

LEMMA ConfigureStep == Inv /\ Configure => Inv'
<1> SUFFICES ASSUME Inv, Configure PROVE Inv'
  OBVIOUS
<1>1. Typed'
  BY Constants DEF Inv, Typed, Configure, SilentCap
<1>2. SinceRx' = 0 /\ SinceStatus' = SinceStatus /\ SinceStatus \in Millis
  BY SinceSelf, Ages DEF Inv, Typed, Configure, SinceRx, SinceStatus
<1>3. heard' = 0 /\ ran' = FALSE /\ status' = "ok" /\ silent' = 0
  BY DEF Inv, Typed, Configure, Starting, Flushing
<1>4. Timely' /\ Bound' /\ Fresh'
  BY <1>2, <1>3, Constants DEF Timely, Bound, Fresh, Millis
<1>5. Checked' /\ Flushing' /\ Starting' /\ NoFalseAlarm'
  BY <1>3 DEF Configure, Checked, Flushing, Starting, NoFalseAlarm
<1>6. QED
  BY <1>1, <1>4, <1>5 DEF Inv

-----------------------------------------------------------------------------
(* loop.                                                                   *)

LEMMA CheckStep == Inv /\ Check => Inv'
<1> SUFFICES ASSUME Inv, Check PROVE Inv'
  OBVIOUS
<1> DEFINE current == StatusOf(connected')
           sends == current # "ok" /\ StatusDue
<1>1. current \in {"ok", "no_radio_chip", "no_transmitter"}
  BY DEF StatusOf
<1>2. connected' \in BOOLEAN
  BY DEF Check
<1>3. IF sends THEN status' = current /\ lastStatus' = millis /\ heard' = 0
      ELSE status' = "ok" /\ lastStatus' = lastStatus /\ heard' = heard
  BY DEF Check
<1>4. UNCHANGED <<millis, radioOk, lastRx, ledOff, led, chip, fifo, losses, restarts, silent>>
      /\ busy' = 0 /\ pc' = "led" /\ now' = millis /\ ran' = TRUE
  BY DEF Check, chipVars
<1>5. current = "ok" => SinceRx <= SilentMs
  <2>1. SinceRx \in Nat
    BY Ages DEF Inv, Millis
  <2>2. QED
    BY <2>1, Constants DEF StatusOf, SinceRx
<1>6. current = "no_transmitter" => SinceRx > SilentMs
  BY DEF StatusOf, SinceRx
<1>7. StatusDue <=> SinceStatus >= StatusMs
  BY DEF StatusDue, SinceStatus
<1>8. SinceRx \in Nat /\ SinceStatus \in Nat /\ SinceRx' = SinceRx
      /\ (sends => SinceStatus' = 0) /\ (~ sends => SinceStatus' = SinceStatus)
  <2>1. SinceRx \in Nat /\ SinceStatus \in Nat
    BY Ages DEF Inv, Millis
  <2>2. Since(millis, millis) = 0
    BY SinceSelf DEF Inv, Typed
  <2>3. QED
    BY <2>1, <2>2, <1>3, <1>4 DEF SinceRx, SinceStatus
<1> HIDE DEF current
<1>9. Typed'
  BY <1>1, <1>2, <1>3, <1>4, Constants DEF Inv, Typed, HeardCap
<1>10. CASE sends
  <2>1. Timely' /\ Checked' /\ Flushing' /\ Starting' /\ Bound' /\ Fresh'
    BY <1>10, <1>3, <1>4, <1>8, Constants
       DEF Inv, Typed, Timely, Checked, Flushing, Starting, Bound, Fresh
  <2>2. NoFalseAlarm'
    BY <1>10, <1>3, <1>4, <1>6, <1>8, Constants DEF Inv, Typed, Fresh, NoFalseAlarm, SilentCap
  <2>3. QED
    BY <1>9, <2>1, <2>2 DEF Inv
<1>11. CASE ~ sends
  <2>1. Timely'
    BY <1>11, <1>3, <1>8 DEF Inv, Timely
  <2>2. Checked'
    BY <1>11, <1>5, <1>7, <1>8, Constants DEF Checked
  <2>3. Flushing' /\ Starting' /\ Bound' /\ Fresh' /\ NoFalseAlarm'
    BY <1>11, <1>3, <1>4, <1>8
       DEF Inv, Flushing, Starting, Bound, Fresh, NoFalseAlarm
  <2>4. QED
    BY <1>9, <2>1, <2>2, <2>3 DEF Inv
<1>12. QED
  BY <1>10, <1>11

LEMMA LedStep == Inv /\ Led => Inv'
<1> SUFFICES ASSUME Inv, Led PROVE Inv'
  OBVIOUS
<1>1. Typed'
  <2>1. 0 \in Millis
    BY Constants DEF Millis
  <2>2. led' \in BOOLEAN /\ ledOff' \in Millis
    BY <2>1 DEF Inv, Typed, Led
  <2>3. pc' \in {"drain", "top"} /\ now' \in Millis
    BY <2>1 DEF Inv, Typed, Led
  <2>4. busy' \in 0 .. FlushMs /\ status' = "ok"
    BY Constants DEF Led
  <2>5. UNCHANGED <<millis, ran, radioOk, connected, lastRx, lastStatus, chip, fifo, losses,
                    restarts, heard, silent>>
    BY DEF Led, chipVars
  <2>6. QED
    BY <2>2, <2>3, <2>4, <2>5 DEF Inv, Typed
<1>2. SinceRx' = SinceRx /\ SinceStatus' = SinceStatus /\ Timely' /\ Bound' /\ Fresh'
  BY UntimedAges DEF Inv, Led, Untimed
<1>3. Checked' /\ Flushing' /\ Starting' /\ NoFalseAlarm'
  BY <1>2 DEF Inv, Led, Checked, Flushing, Starting, NoFalseAlarm
<1>4. QED
  BY <1>1, <1>2, <1>3 DEF Inv

LEMMA ReadStep == Inv /\ Read => Inv'
<1> SUFFICES ASSUME Inv, Read PROVE Inv'
  OBVIOUS
<1>1. fifo' \in Seq(Payload) /\ Len(fifo') <= FifoDepth
  <2>1. fifo \in Seq(Payload) /\ Len(fifo) <= FifoDepth /\ FifoDepth \in Nat
    BY Constants DEF Inv, Typed
  <2>2. fifo # <<>> => Tail(fifo) \in Seq(Payload) /\ Len(Tail(fifo)) = Len(fifo) - 1
    BY <2>1, HeadTailProperties
  <2>3. QED
    BY <2>1, <2>2, LenProperties DEF Read
<1>2. UNCHANGED <<millis, ran, now, radioOk, connected, lastStatus, status, chip, losses, restarts>>
      /\ pc = "drain"
  BY DEF Read
<1>3. CASE Accepted(Received)
  <2>1. /\ lastRx' = millis /\ led' = TRUE /\ ledOff' = Plus(now, PulseMs)
        /\ pc' = "forward" /\ busy' = 0 /\ heard' = 0 /\ silent' = 0
    BY <1>3 DEF Read, Accepted, RxTime
  <2>2. ledOff' \in Millis
    BY <2>1, PlusType, Constants DEF Inv, Typed
  <2>3. Typed'
    BY <1>1, <1>2, <2>1, <2>2, Constants DEF Inv, Typed, HeardCap, SilentCap
  <2>4. SinceRx' = 0 /\ SinceStatus' = SinceStatus /\ SinceStatus \in Nat
    <3>1. Since(millis, millis) = 0
      BY SinceSelf DEF Inv, Typed
    <3>2. QED
      BY <3>1, <1>2, <2>1, Ages DEF Inv, SinceRx, SinceStatus, Millis
  <2>5. Timely' /\ Checked' /\ Bound' /\ Fresh'
    BY <2>1, <2>4, Constants DEF Timely, Checked, Bound, Fresh
  <2>6. status' = "ok"
    BY <1>2 DEF Inv, Flushing
  <2>7. QED
    BY <2>1, <2>3, <2>4, <2>5, <2>6 DEF Inv, Flushing, Starting, NoFalseAlarm
<1>4. CASE ~ Accepted(Received)
  <2>1. UNCHANGED <<lastRx, led, ledOff, pc, busy, heard, silent>>
    BY <1>4 DEF Read
  <2>2. Typed'
    BY <1>1, <1>2, <2>1 DEF Inv, Typed
  <2>3. SinceRx' = SinceRx /\ SinceStatus' = SinceStatus /\ Timely' /\ Bound' /\ Fresh'
    BY <1>2, <2>1, UntimedAges DEF Inv, Untimed
  <2>4. QED
    BY <1>2, <2>1, <2>2, <2>3 DEF Inv, Checked, Flushing, Starting, NoFalseAlarm
<1>5. QED
  BY <1>3, <1>4

LEMMA ForwardedStep == Inv /\ Forwarded => Inv'
<1> SUFFICES ASSUME Inv, Forwarded PROVE Inv'
  OBVIOUS
<1>1. Typed'
  BY Constants DEF Inv, Typed, Forwarded, chipVars
<1>2. SinceRx' = SinceRx /\ SinceStatus' = SinceStatus /\ Timely' /\ Bound' /\ Fresh'
  BY UntimedAges DEF Inv, Forwarded, Untimed
<1>3. QED
  BY <1>1, <1>2 DEF Inv, Forwarded, Checked, Flushing, Starting, NoFalseAlarm

LEMMA DrainedStep == Inv /\ Drained => Inv'
<1> SUFFICES ASSUME Inv, Drained PROVE Inv'
  OBVIOUS
<1>1. Typed'
  BY Constants DEF Inv, Typed, Drained, chipVars, Millis
<1>2. SinceRx' = SinceRx /\ SinceStatus' = SinceStatus /\ Timely' /\ Bound' /\ Fresh'
  BY UntimedAges DEF Inv, Drained, Untimed
<1>3. QED
  BY <1>1, <1>2 DEF Inv, Drained, Checked, Flushing, Starting, NoFalseAlarm

-----------------------------------------------------------------------------
(* The clock, the chip and the air.                                        *)

LEMMA ElapseStep == Inv /\ Elapse => Inv'
<1> SUFFICES ASSUME Inv, Elapse PROVE Inv'
  OBVIOUS
<1>1. /\ UNCHANGED <<pc, now, radioOk, connected, lastRx, lastStatus, ledOff, led, status,
                     chip, fifo, losses, restarts>>
      /\ ran' = FALSE /\ millis' = Plus(millis, 1)
      /\ heard' = (IF Stalls THEN 0 ELSE Until(heard, HeardCap))
      /\ silent' = Until(silent, SilentCap)
  BY DEF Elapse, loopVars, chipVars
<1>2. millis' \in Millis
  BY <1>1, PlusType, Constants DEF Inv, Typed
<1>3. heard \in Nat /\ silent \in Nat /\ busy \in Nat /\ HeardCap \in Nat /\ SilentCap \in Nat
      /\ SinceRx \in Nat /\ SinceStatus \in Nat /\ SinceRx < Wrap /\ SinceStatus < Wrap
  BY Ages, Constants DEF Inv, Typed, HeardCap, SilentCap, Millis
<1>4. heard < HeardCap
  BY <1>3, Constants DEF Inv, Bound, HeardCap
<1>5. heard' = IF Stalls THEN 0 ELSE heard + 1
  BY <1>1, <1>4 DEF Until
<1>6. silent' = IF silent <= SilentMs THEN silent + 1 ELSE SilentMs + 1
  BY <1>1, <1>3, Constants DEF Until, SilentCap
<1>7. /\ SinceRx' = IF SinceRx = Wrap - 1 THEN 0 ELSE SinceRx + 1
      /\ SinceStatus' = IF SinceStatus = Wrap - 1 THEN 0 ELSE SinceStatus + 1
  BY <1>1, SinceStep DEF Inv, Typed, SinceRx, SinceStatus
<1>8. busy' \in 0 .. FlushMs
  BY Constants DEF Elapse, Inv, Typed
<1>9. Typed'
  <2>1. heard' \in 0 .. HeardCap
    BY <1>3, <1>4, <1>5
  <2>2. silent' \in 0 .. SilentCap
    BY <1>3, <1>6, Constants DEF SilentCap
  <2>3. QED
    BY <1>1, <1>2, <1>8, <2>1, <2>2 DEF Inv, Typed
<1>10. Checked' /\ NoFalseAlarm'
  <2>1. silent > SilentMs => silent' > SilentMs
    BY <1>3, <1>6, Constants
  <2>2. QED
    BY <1>1, <2>1, <1>3, Constants DEF Inv, Checked, NoFalseAlarm
<1>11. Fresh'
  BY <1>3, <1>6, <1>7, Constants DEF Inv, Fresh
<1>12. Starting'
  BY <1>1 DEF Inv, Elapse, Starting, Stalls
<1>13. CASE pc = "top" /\ ran /\ busy' = busy
  <2>1. heard' = heard + 1
    BY <1>5, <1>13 DEF Stalls
  <2>2. SinceRx <= SilentMs \/ SinceStatus < StatusMs
    BY <1>13 DEF Inv, Checked
  <2>3. Timely'
    BY <2>1, <2>2, <1>3, <1>7, Constants DEF Inv, Timely
  <2>4. Bound'
    BY <2>1, <2>2, <1>3, Constants DEF Inv, Timely, Bound
  <2>5. Flushing'
    BY <1>1, <1>13 DEF Inv, Flushing
  <2>6. QED
    BY <2>3, <2>4, <2>5, <1>9, <1>10, <1>11, <1>12 DEF Inv
<1>14. CASE /\ pc = "forward" \/ (pc = "led" /\ status # "ok")
            /\ busy < FlushMs /\ busy' = busy + 1
  <2>1. heard' = heard + 1
    BY <1>5, <1>14 DEF Stalls
  <2>2. heard = busy /\ (SinceRx = busy \/ SinceStatus = busy)
    BY <1>14 DEF Inv, Flushing
  <2>3. Timely'
    BY <2>1, <2>2, <1>3, <1>7, <1>14, Constants DEF Inv, Timely
  <2>4. Bound'
    BY <2>1, <2>2, <1>3, <1>14, Constants DEF Bound
  <2>5. Flushing'
    BY <2>1, <1>1, <1>3, <1>7, <1>14, Constants DEF Inv, Flushing
  <2>6. QED
    BY <2>3, <2>4, <2>5, <1>9, <1>10, <1>11, <1>12 DEF Inv
<1>15. CASE Stalls /\ busy' = busy
  <2>1. heard' = 0 /\ pc' = "drain" /\ status' = "ok"
    BY <1>1, <1>5, <1>15 DEF Stalls, Inv, Flushing
  <2>2. Timely' /\ Bound' /\ Flushing'
    BY <2>1, <1>3, <1>7, Constants DEF Timely, Bound, Flushing
  <2>3. QED
    BY <2>2, <1>9, <1>10, <1>11, <1>12 DEF Inv
<1>16. QED
  BY <1>13, <1>14, <1>15 DEF Elapse

(* What the chip and the air do is nothing that Inv speaks of but fifo,    *)
(* chip and losses.                                                        *)
LEMMA ChipMoves ==
    ASSUME Inv, UNCHANGED <<millis, loopVars, busy, ran, restarts, heard, silent>>,
           chip' \in {"low", "high", "reset", "listening"}, losses' \in 0 .. MaxLosses,
           fifo' \in Seq(Payload), Len(fifo') <= FifoDepth
    PROVE  Inv'
<1>1. Typed'
  BY DEF Inv, Typed, loopVars
<1>2. SinceRx' = SinceRx /\ SinceStatus' = SinceStatus /\ Timely' /\ Bound' /\ Fresh'
  BY UntimedAges DEF Inv, Untimed, loopVars
<1>3. QED
  BY <1>1, <1>2 DEF Inv, loopVars, Checked, Flushing, Starting, NoFalseAlarm

LEMMA OnAirStep == Inv /\ OnAir => Inv'
<1> SUFFICES ASSUME Inv, OnAir PROVE Inv'
  OBVIOUS
<1>1. PICK p \in Payload : fifo' = Append(fifo, p)
  BY DEF OnAir
<1>2. fifo \in Seq(Payload) /\ Len(fifo) < FifoDepth
  BY DEF Inv, Typed, OnAir
<1>3. fifo' \in Seq(Payload) /\ Len(fifo') = Len(fifo) + 1
  BY <1>1, <1>2, AppendProperties
<1>4. Len(fifo') <= FifoDepth
  BY <1>2, <1>3, LenProperties, Constants
<1>5. QED
  BY <1>3, <1>4, ChipMoves DEF Inv, Typed, OnAir

LEMMA LosePowerStep == Inv /\ LosePower => Inv'
<1> SUFFICES ASSUME Inv, LosePower PROVE Inv'
  OBVIOUS
<1>1. fifo' \in Seq(Payload) /\ Len(fifo') <= FifoDepth
  BY EmptySeq, Constants DEF LosePower
<1>2. losses' \in 0 .. MaxLosses
  BY Constants DEF Inv, Typed, LosePower
<1>3. QED
  BY <1>1, <1>2, ChipMoves DEF LosePower

LEMMA PowerBackStep == Inv /\ PowerBack => Inv'
BY ChipMoves DEF Inv, Typed, PowerBack

LEMMA RestartStep == Inv /\ Restart => Inv'
<1> SUFFICES ASSUME Inv, Restart PROVE Inv'
  OBVIOUS
<1>1. 0 \in Millis
  BY Constants DEF Millis
<1>2. Typed'
  <2>1. fifo' \in Seq(Payload) /\ Len(fifo') <= FifoDepth /\ losses' \in 0 .. MaxLosses
        /\ chip' \in {"low", "high", "reset", "listening"}
    BY DEF Inv, Typed, Restart, chipVars
  <2>2. millis' \in Millis /\ now' \in Millis /\ lastRx' \in Millis /\ lastStatus' \in Millis
        /\ ledOff' \in Millis
    BY <1>1 DEF Restart
  <2>3. busy' \in 0 .. FlushMs /\ restarts' \in 0 .. MaxRestarts
        /\ heard' \in 0 .. HeardCap /\ silent' \in 0 .. SilentCap
    BY Constants DEF Inv, Typed, Restart, HeardCap, SilentCap
  <2>4. QED
    BY <2>1, <2>2, <2>3 DEF Restart, Typed
<1>3. SinceRx' = 0 /\ SinceStatus' = 0
  BY <1>1, SinceSelf DEF Restart, SinceRx, SinceStatus
<1>4. Timely' /\ Checked' /\ Flushing' /\ Starting' /\ Bound' /\ Fresh' /\ NoFalseAlarm'
  BY <1>3, Constants
     DEF Restart, Timely, Checked, Flushing, Starting, Bound, Fresh, NoFalseAlarm
<1>5. QED
  BY <1>2, <1>4 DEF Inv

LEMMA InvStep == Inv /\ [Next]_vars => Inv'
<1> SUFFICES ASSUME Inv, [Next]_vars PROVE Inv'
  OBVIOUS
<1>1. CASE Sketch
  BY <1>1, BeginStep, ConfigureStep, CheckStep, LedStep, ReadStep, ForwardedStep, DrainedStep
     DEF Sketch
<1>2. CASE Elapse
  BY <1>2, ElapseStep
<1>3. CASE OnAir \/ LosePower \/ PowerBack \/ Restart
  BY <1>3, OnAirStep, LosePowerStep, PowerBackStep, RestartStep
<1>4. CASE UNCHANGED vars
  <2>1. Typed'
    BY <1>4 DEF Inv, Typed, vars
  <2>2. SinceRx' = SinceRx /\ SinceStatus' = SinceStatus /\ Timely' /\ Bound' /\ Fresh'
    BY <1>4, UntimedAges DEF Inv, Untimed, vars
  <2>3. QED
    BY <1>4, <2>1, <2>2 DEF Inv, vars, Checked, Flushing, Starting, NoFalseAlarm
<1>5. QED
  BY <1>1, <1>2, <1>3, <1>4 DEF Next

LEMMA InvHolds == Spec => []Inv
BY InvInit, InvStep, PTL DEF Spec

-----------------------------------------------------------------------------
(* Every variable of the sketch and of the chip keeps its type: what the   *)
(* sketch computes with millis stays within its range.                     *)
THEOREM TypeCorrect == Spec => []TypeOK
<1>1. Inv => TypeOK
  BY DEF Inv, Typed, TypeOK
<1>2. QED
  BY <1>1, InvHolds, PTL

(* The host is never left without a frame of either kind for longer than   *)
(* it takes the sketch to notice, whenever millis wraps: an age that wraps *)
(* makes one of the two kinds late, never both.                            *)
THEOREM HostAlwaysHears == Spec => []HostHears
<1>1. Inv => HostHears
  BY Constants DEF Inv, Typed, Bound, HostHears, HeardCap
<1>2. QED
  BY <1>1, InvHolds, PTL

(* The host is never told that there is no transmitter within SilentMs of  *)
(* a payload that was forwarded to it, whatever became of the clock, the   *)
(* chip and the serial port in between.                                    *)
THEOREM NoFalseAlarmEver == Spec => []NoFalseAlarm
<1>1. Inv => NoFalseAlarm
  BY DEF Inv
<1>2. QED
  BY <1>1, InvHolds, PTL
=============================================================================
