----------------------------- MODULE RadioNano -----------------------------
(***************************************************************************)
(* The telemetry receiver (RTT_nano_26.ino): a sketch that forwards the    *)
(* valid payloads of its radio chip over USB, and sends a status frame     *)
(* when it has not heard any for a while or its chip does not answer.  The *)
(* chip is configured once, in setup.                                      *)
(*                                                                         *)
(* millis wraps.  The chip is external: what it answers when it has lost   *)
(* power is whatever its data line is held at, and what RF24 makes of that *)
(* is modelled.                                                            *)
(***************************************************************************)
EXTENDS Naturals, Sequences

CONSTANTS Wrap,       \* millis counts modulo Wrap (2^32 in the code)
          SilentMs,   \* no valid payload for longer: no transmitter (2000)
          StatusMs,   \* between two status frames (1000)
          PulseMs,    \* pulse of the communication LED (40)
          FlushMs,    \* bound: the serial port takes this long for a frame
          FifoDepth,  \* receive FIFO of the chip
          MaxLosses,  \* bound: the chip loses power
          MaxRestarts \* bound: restarts of the sketch

ASSUME NanoAssumption ==
    /\ {Wrap, SilentMs, StatusMs, PulseMs, FlushMs, FifoDepth} \subseteq Nat \ {0}
    /\ {MaxLosses, MaxRestarts} \subseteq Nat
    /\ SilentMs + StatusMs + FlushMs < Wrap /\ PulseMs < Wrap

Millis == 0 .. Wrap - 1
Since(now, then) == IF now >= then THEN now - then ELSE now + Wrap - then

(* Mutated form of Plus: the sum does not wrap.                            *)
PlusUnbounded(t, d) == t + d

Plus(t, d) == IF t + d < Wrap THEN t + d ELSE t + d - Wrap

Payload == {"valid", "other"}

VARIABLES
    millis,
    pc,        \* where the sketch is in setup or loop
    busy,      \* ticks that the serial port has taken for the frame going out
    ran,       \* a pass of loop began in this tick
    now,       \* the local now
    radioOk,   \* radio_ok
    connected, \* the local chip_connected
    lastRx,    \* last_rx_time
    lastStatus,\* last_status_time
    ledOff,    \* comm_led_off_time
    led,       \* PIN_LED_COMM
    status,    \* the status frame of this pass
    chip,      \* "low", "high": no power, its data line held there;
               \* "reset": powered, as it comes up; "listening": as setup left it
    fifo,      \* payloads in the receive FIFO
    losses, restarts,
    heard,     \* history: ticks since the host heard anything, or a stall
    silent     \* history: ticks since a valid payload was forwarded, or setup

loopVars == <<pc, now, radioOk, connected, lastRx, lastStatus, ledOff, led, status>>
chipVars == <<chip, fifo, losses>>
vars == <<millis, pc, busy, ran, now, radioOk, connected, lastRx, lastStatus, ledOff, led, status,
          chip, fifo, losses, restarts, heard, silent>>

(* Beyond these ages nothing tells two of them apart.                      *)
HeardCap == SilentMs + StatusMs + 2 * FlushMs
SilentCap == SilentMs + 1

Until(n, cap) == IF n < cap THEN n + 1 ELSE cap

TypeOK ==
    /\ {millis, now, lastRx, lastStatus, ledOff} \subseteq Millis
    /\ pc \in {"begin", "configure", "top", "led", "drain", "forward"}
    /\ busy \in 0 .. FlushMs
    /\ {ran, radioOk, connected, led} \subseteq BOOLEAN
    /\ status \in {"ok", "no_radio_chip", "no_transmitter"}
    /\ chip \in {"low", "high", "reset", "listening"}
    /\ fifo \in Seq(Payload) /\ Len(fifo) <= FifoDepth
    /\ losses \in 0 .. MaxLosses /\ restarts \in 0 .. MaxRestarts
    /\ heard \in 0 .. HeardCap /\ silent \in 0 .. SilentCap

Init ==
    /\ pc = "begin" /\ busy = 0 /\ ran = FALSE /\ now = 0
    /\ radioOk = FALSE /\ connected = FALSE
    /\ lastRx = 0 /\ lastStatus = 0 /\ ledOff = 0 /\ led = FALSE
    /\ status = "ok"
    /\ millis = 0 /\ heard = 0 /\ silent = 0
    /\ chip \in {"low", "high", "reset"}
    /\ fifo = <<>> /\ losses = 0 /\ restarts = 0

-----------------------------------------------------------------------------
(* RF24, as the sketch uses it.                                            *)

Powered == chip \in {"reset", "listening"}

(* isChipConnected: SETUP_AW reads 5 bytes, also when the chip comes up.   *)
IsChipConnected == Powered

(* available: the RX_EMPTY bit of FIFO_STATUS reads 0, which is also what  *)
(* a line held low reads.                                                  *)
Available == fifo # <<>> \/ chip = "low"

(* The header of a payload of zeros is not valid.                          *)
Received == IF fifo # <<>> THEN Head(fifo) ELSE "other"

-----------------------------------------------------------------------------
(* setup.                                                                  *)

(* radio.begin.                                                            *)
Begin ==
    /\ pc = "begin"
    /\ radioOk' = Powered
    /\ chip' = IF Powered THEN "reset" ELSE chip
    /\ fifo' = <<>>
    /\ pc' = "configure"
    /\ UNCHANGED <<millis, busy, ran, now, connected, lastRx, lastStatus, ledOff, led, status,
                   losses, restarts, heard, silent>>

(* setAddressWidth to startListening.                                      *)
Configure ==
    /\ pc = "configure"
    /\ chip' = IF radioOk /\ IsChipConnected THEN "listening" ELSE chip
    /\ lastRx' = millis
    /\ silent' = 0
    /\ pc' = "top"
    /\ UNCHANGED <<millis, busy, ran, now, radioOk, connected, lastStatus, ledOff, led, status,
                   fifo, losses, restarts, heard>>

-----------------------------------------------------------------------------
(* loop.                                                                   *)

(* Mutated form of StatusDue: the plain comparison of ticks.               *)
StatusDuePlain == millis >= lastStatus + StatusMs

StatusDue == Since(millis, lastStatus) >= StatusMs

StatusOf(isConnected) ==
    IF ~ isConnected THEN "no_radio_chip"
    ELSE IF Since(millis, lastRx) > SilentMs THEN "no_transmitter" ELSE "ok"

(* From now = millis() to the status frame.                                *)
Check ==
    /\ pc = "top"
    /\ now' = millis /\ ran' = TRUE
    /\ connected' = (radioOk /\ IsChipConnected)
    /\ LET current == StatusOf(connected') IN
         IF current # "ok" /\ StatusDue
         THEN status' = current /\ lastStatus' = millis /\ heard' = 0
         ELSE status' = "ok" /\ UNCHANGED <<lastStatus, heard>>
    /\ busy' = 0
    /\ pc' = "led"
    /\ UNCHANGED <<millis, radioOk, lastRx, ledOff, led, chipVars, restarts, silent>>

PulseOver == ledOff > 0 /\ now >= ledOff

(* The LED, and whether to drain the FIFO: what chip_connected said before *)
(* the status frame went out.                                              *)
Led ==
    /\ pc = "led"
    /\ IF PulseOver THEN led' = FALSE /\ ledOff' = 0 ELSE UNCHANGED <<led, ledOff>>
    /\ status' = "ok"
    /\ IF connected THEN pc' = "drain" /\ UNCHANGED now
       ELSE pc' = "top" /\ now' = 0
    /\ busy' = 0
    /\ UNCHANGED <<millis, ran, radioOk, connected, lastRx, lastStatus, chipVars, restarts, heard,
                   silent>>

(* Mutated form of Accepted: every payload counts.                         *)
AcceptedAny(p) == TRUE

(* validateHeader.                                                         *)
Accepted(p) == p = "valid"

(* Mutated form of RxTime: the now of the pass.                            *)
RxTimeOfPass == now

RxTime == millis

(* A payload is read, and forwarded if its header is valid.                *)
Read ==
    /\ pc = "drain" /\ Available
    /\ fifo' = IF fifo # <<>> THEN Tail(fifo) ELSE fifo
    /\ IF Accepted(Received)
       THEN /\ lastRx' = RxTime
            /\ led' = TRUE
            /\ ledOff' = Plus(now, PulseMs)
            /\ pc' = "forward" /\ busy' = 0
            /\ heard' = IF Received = "valid" THEN 0 ELSE heard
            /\ silent' = IF Received = "valid" THEN 0 ELSE silent
       ELSE UNCHANGED <<lastRx, led, ledOff, pc, busy, heard, silent>>
    /\ UNCHANGED <<millis, ran, now, radioOk, connected, lastStatus, status, chip, losses, restarts>>

(* Serial.flush returns.                                                   *)
Forwarded ==
    /\ pc = "forward"
    /\ pc' = "drain" /\ busy' = 0
    /\ UNCHANGED <<millis, ran, now, radioOk, connected, lastRx, lastStatus, ledOff, led, status,
                   chipVars, restarts, heard, silent>>

Drained ==
    /\ pc = "drain" /\ ~ Available
    /\ pc' = "top" /\ now' = 0
    /\ UNCHANGED <<millis, busy, ran, radioOk, connected, lastRx, lastStatus, ledOff, led, status,
                   chipVars, restarts, heard, silent>>

-----------------------------------------------------------------------------
(* The clock, the chip and the air.                                        *)

Stalls == pc = "drain" /\ chip = "low"

(* A tick passes between two passes, while the serial port takes a frame,  *)
(* or while zeros are read.                                                *)
Elapse ==
    /\ \/ pc = "top" /\ ran /\ UNCHANGED busy
       \/ /\ pc = "forward" \/ (pc = "led" /\ status # "ok")
          /\ busy < FlushMs /\ busy' = busy + 1
       \/ Stalls /\ UNCHANGED busy
    /\ ran' = FALSE
    /\ millis' = Plus(millis, 1)
    /\ heard' = IF Stalls THEN 0 ELSE Until(heard, HeardCap)
    /\ silent' = Until(silent, SilentCap)
    /\ UNCHANGED <<loopVars, chipVars, restarts>>

(* The chip listens and hears a payload; when its FIFO is full it drops it.*)
OnAir ==
    /\ chip = "listening" /\ Len(fifo) < FifoDepth
    /\ \E p \in Payload : fifo' = Append(fifo, p)
    /\ UNCHANGED <<millis, loopVars, busy, ran, chip, losses, restarts, heard, silent>>

LosePower ==
    /\ Powered /\ losses < MaxLosses
    /\ losses' = losses + 1
    /\ chip' \in {"low", "high"} /\ fifo' = <<>>
    /\ UNCHANGED <<millis, loopVars, busy, ran, restarts, heard, silent>>

PowerBack ==
    /\ ~ Powered
    /\ chip' = "reset"
    /\ UNCHANGED <<millis, loopVars, busy, ran, fifo, losses, restarts, heard, silent>>

(* The reset button, or the host opening the port.  The chip keeps what it *)
(* has.                                                                    *)
Restart ==
    /\ restarts < MaxRestarts
    /\ restarts' = restarts + 1
    /\ pc' = "begin" /\ busy' = 0 /\ ran' = FALSE /\ now' = 0
    /\ radioOk' = FALSE /\ connected' = FALSE
    /\ lastRx' = 0 /\ lastStatus' = 0 /\ ledOff' = 0 /\ led' = FALSE
    /\ status' = "ok"
    /\ millis' = 0 /\ heard' = 0 /\ silent' = 0
    /\ UNCHANGED chipVars

Sketch == Begin \/ Configure \/ Check \/ Led \/ Read \/ Forwarded \/ Drained

Next == Sketch \/ Elapse \/ OnAir \/ LosePower \/ PowerBack \/ Restart

Spec == Init /\ [][Next]_vars

-----------------------------------------------------------------------------
(* "Send status frame every 1000ms if not OK": whatever becomes of the     *)
(* chip, of the air and of the clock, the host is never left without a     *)
(* frame of either kind for longer than it takes to notice, counted anew   *)
(* after a stall: a chip that lost power with its data line low in the     *)
(* middle of the drain reads as payloads of zeros, and as long as it does  *)
(* no status frame goes out.                                               *)
HostHears == heard < HeardCap

(* "NO_TRANSMITTER - no packets received in >2s": the host is never told   *)
(* so within that time of a payload that was forwarded to it.              *)
NoFalseAlarm == status = "no_transmitter" => silent > SilentMs
=============================================================================
