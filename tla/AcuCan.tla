------------------------------- MODULE AcuCan -------------------------------
(***************************************************************************)
(* The CAN task of the accumulator (acu_can_task_temp.cpp): one loop that  *)
(* waits for a frame until the next transmission is due, serves the frame, *)
(* polls the peripheral for Bus_Off, and transmits what is due.  The pit   *)
(* scan waits for room in the transmit FIFO, everything else is dropped    *)
(* when there is none.                                                     *)
(*                                                                         *)
(* The tick wraps.  The peripheral and its HAL are external: the FIFO      *)
(* drains with time while the bus is up, Bus_Off may strike at any point,  *)
(* and Stop may time out.                                                  *)
(***************************************************************************)
EXTENDS VehicleService, Sequences

CONSTANTS Period,      \* per cadence: EcuFastTxMs .. FwHealthPeriodMs
          FarAhead,    \* the 0xFFFF that stands for no pit deadline
          BusOffRetryMs,
          TxFrames,    \* per cadence: frames of one transmission
          FifoDepth,   \* depth of the transmit FIFO
          QueueCap,    \* depth of acu_rx_queue
          Latency,     \* bound: ticks the task loses to others in one pass
          MaxSlips,    \* bound: ticks it loses in all
          RxKinds,     \* kinds of frames the other nodes send
          MaxRx,       \* bound: frames received
          MaxFaults    \* bound: Bus_Off events

Ecu == {"fast", "mid", "slow"}
Cadence == Ecu \cup {"scan", "health"}

FrameKind == VehicleFrame \cup {"arm", "disarm", "boot"}

ASSUME CanAssumption ==
    /\ Period \in [Cadence -> Nat \ {0}] /\ TxFrames \in [Cadence -> Nat \ {0}]
    /\ {FarAhead, BusOffRetryMs, FifoDepth, QueueCap} \subseteq Nat \ {0}
    /\ {Latency, MaxSlips, MaxRx, MaxFaults} \subseteq Nat
    /\ \A c \in Cadence : Period[c] < FarAhead
    /\ FarAhead < Wrap
    /\ Period["fast"] + TxFrames["scan"] + Latency < Wrap
    /\ RxKinds \subseteq FrameKind

VARIABLES
    tick,     \* osKernelGetTickCount
    pc,       \* where the task is in its loop
    left,     \* ticks until osMessageQueueGet times out
    late,     \* ticks the pass has lost to other tasks
    slips,    \* ticks lost in all
    now2,     \* the local now2
    last,     \* last_fast_tx .. last_fw_health_tx
    enabled,  \* s_pit_diag_enabled
    scanLeft, \* frames of the scan still to be sent
    queue,    \* acu_rx_queue
    state,    \* state_ of VehicleService
    hal,      \* hfdcan1.State: BUSY is started
    fifo,     \* frames in the transmit FIFO
    bus,      \* "up" or "off" (Bus_Off)
    sinceTry, \* ticks since the last recovery attempt
    rx,       \* frames received so far
    faults,   \* Bus_Off events so far
    overrun,  \* history: the tick wrapped between the poll and the next wait
    deaf,     \* history: ticks since the last fault that left the bus off
    charge,   \* history: age of the last charge request, and whether the tick
    balancing \* has wrapped since; the same for the last balancing command

taskVars == <<pc, left, now2, last, enabled, scanLeft>>
busVars == <<hal, fifo, bus, sinceTry, faults, deaf>>
veh == <<state, charge, balancing>>
vars == <<tick, pc, left, late, slips, now2, last, enabled, scanLeft, queue, state, hal, fifo,
          bus, sinceTry, rx, faults, overrun, deaf, charge, balancing>>

(* Bounds of the histories: beyond them nothing tells two ages apart.      *)
DeafCap == BusOffRetryMs + Period["fast"] + Latency + 1

Until(n, cap) == IF n < cap THEN n + 1 ELSE cap
Least(S) == CHOOSE x \in S : \A y \in S : x <= y

Never(fresh) == [age |-> fresh + 1, wrapped |-> FALSE]

TypeOK ==
    /\ {tick, now2} \subseteq Tick
    /\ pc \in {"top", "wait", "poll", "send", "scan", "health"}
    /\ left \in Tick
    /\ late \in 0 .. Latency /\ slips \in 0 .. MaxSlips
    /\ last \in [Cadence -> Tick]
    /\ enabled \in BOOLEAN
    /\ scanLeft \in 0 .. TxFrames["scan"]
    /\ queue \in Seq([kind : FrameKind, at : Tick]) /\ Len(queue) <= QueueCap
    /\ state \in VehicleState
    /\ hal \in {"busy", "ready", "error"}
    /\ fifo \in 0 .. FifoDepth
    /\ bus \in {"up", "off"}
    /\ sinceTry \in 0 .. BusOffRetryMs
    /\ rx \in 0 .. MaxRx /\ faults \in 0 .. MaxFaults
    /\ overrun \in BOOLEAN
    /\ deaf \in 0 .. DeafCap
    /\ charge \in [age : 0 .. ChargeReqFreshMs + 1, wrapped : BOOLEAN]
    /\ balancing \in [age : 0 .. BalanceOverrideFreshMs + 1, wrapped : BOOLEAN]

Init ==
    /\ tick = 0 /\ now2 = 0
    /\ pc = "top" /\ left = 0 /\ late = 0 /\ slips = 0
    /\ last = [c \in Cadence |-> 0]
    /\ enabled = FALSE /\ scanLeft = 0
    /\ queue = <<>>
    /\ state = PowerUp
    /\ hal = "busy" /\ fifo = 0 /\ bus = "up"
    /\ sinceTry = BusOffRetryMs
    /\ rx = 0 /\ faults = 0
    /\ overrun = FALSE /\ deaf = 0
    /\ charge = Never(ChargeReqFreshMs)
    /\ balancing = Never(BalanceOverrideFreshMs)

-----------------------------------------------------------------------------
(* The loop.                                                               *)

(* Mutated form of NextPit: the deadline also counts when disarmed.        *)
NextPitAlways == Plus(last["scan"], Period["scan"])

NextPit == IF enabled THEN Plus(last["scan"], Period["scan"]) ELSE Plus(tick, FarAhead)

(* The firmware-health frame has no deadline of its own.                   *)
Deadline == Least({Plus(last[c], Period[c]) : c \in Ecu} \cup {NextPit})

Timeout == IF Deadline > tick THEN Deadline - tick ELSE 0

StartWait ==
    /\ pc = "top"
    /\ left' = Timeout
    /\ pc' = "wait"
    /\ UNCHANGED <<tick, late, slips, now2, last, enabled, scanLeft, queue, veh, busVars, rx, overrun>>

(* Mutated form of Sent: nothing looks at the room in the FIFO.            *)
SentUnbounded(n) == IF hal # "busy" THEN fifo ELSE fifo + n

(* send_acu for n frames: what finds no room, or a peripheral that is not  *)
(* started, is counted in g_acu_tx_fail and gone.                          *)
Sent(n) == IF hal # "busy" THEN fifo ELSE Least({fifo + n, FifoDepth})

(* The histories of the requests: only a frame with the magic counts, from *)
(* the tick of its stamp.                                                  *)
Genuine(f, kinds, h, fresh) ==
    IF f.kind \in kinds
    THEN [age |-> Least({Since(tick, f.at), fresh + 1}), wrapped |-> tick < f.at]
    ELSE h

(* A pit-diagnostics command: a change makes the next scan due at once;    *)
(* the acknowledgement does not wait for room.                             *)
Command(f) ==
    /\ enabled' = (f.kind = "arm")
    /\ last' = IF enabled' = enabled THEN last
               ELSE [last EXCEPT !["scan"] = Since(tick, Period["scan"])]
    /\ fifo' = Sent(1)

(* osMessageQueueGet returns a frame.                                      *)
ServeFrame ==
    /\ pc = "wait" /\ queue # <<>> /\ Head(queue).kind # "boot"
    /\ LET f == Head(queue) IN
         /\ queue' = Tail(queue)
         /\ IF f.kind \in {"arm", "disarm"} THEN Command(f)
            ELSE UNCHANGED <<enabled, last, fifo>>
         /\ state' = UpdateFromFrame(state, f.kind, f.at)
         /\ charge' = Genuine(f, {"charge"}, charge, ChargeReqFreshMs)
         /\ balancing' = Genuine(f, BalanceCmd, balancing, BalanceOverrideFreshMs)
    /\ left' = 0
    /\ pc' = "poll"
    /\ UNCHANGED <<tick, late, slips, now2, scanLeft, hal, bus, sinceTry, faults, deaf, rx, overrun>>

(* The boot trigger: request_reboot does not return.  The machine comes    *)
(* back with its tick at 0, disarmed and with no request.                  *)
Reboot ==
    /\ pc = "wait" /\ queue # <<>> /\ Head(queue).kind = "boot"
    /\ tick' = 0 /\ now2' = 0
    /\ pc' = "top" /\ left' = 0 /\ late' = 0
    /\ last' = [c \in Cadence |-> 0]
    /\ enabled' = FALSE /\ scanLeft' = 0
    /\ queue' = <<>>
    /\ state' = PowerUp
    /\ hal' = "busy" /\ fifo' = 0 /\ bus' = "up"
    /\ sinceTry' = BusOffRetryMs
    /\ overrun' = FALSE /\ deaf' = 0
    /\ charge' = Never(ChargeReqFreshMs)
    /\ balancing' = Never(BalanceOverrideFreshMs)
    /\ UNCHANGED <<slips, rx, faults>>

WaitTimesOut ==
    /\ pc = "wait" /\ queue = <<>> /\ left = 0
    /\ pc' = "poll"
    /\ UNCHANGED <<tick, left, late, slips, now2, last, enabled, scanLeft, queue, veh, busVars,
                   rx, overrun>>

(* poll_fdcan1_busoff_recovery.  Stop works on a started peripheral only   *)
(* and empties the FIFO, or it times out and leaves the handle in ERROR.   *)
(* Start works on a READY one only.                                        *)
PollDone ==
    /\ now2' = tick
    /\ pc' = "send"
    /\ UNCHANGED <<tick, left, late, slips, last, enabled, scanLeft, queue, veh, rx, overrun>>

PollSkips ==
    /\ pc = "poll"
    /\ bus = "up" \/ sinceTry < BusOffRetryMs
    /\ PollDone
    /\ UNCHANGED busVars

(* Mutated form of Unlatched: a latched error is left.                     *)
Latched(h) == h

(* What the code makes of a handle that Start refuses: READY, by force.    *)
Unlatched(h) == "ready"

Stopped(h) == IF h = "busy" THEN "ready" ELSE h

Recover ==
    /\ pc = "poll" /\ bus = "off" /\ sinceTry = BusOffRetryMs
    /\ sinceTry' = 0
    /\ IF Stopped(hal) = "ready"
       THEN hal' = "busy" /\ fifo' = IF hal = "busy" THEN 0 ELSE fifo
       ELSE hal' = Unlatched(hal) /\ fifo' = fifo
    /\ bus' = IF hal' = "busy" THEN "up" ELSE "off"
    /\ PollDone
    /\ UNCHANGED <<faults, deaf>>

(* Stop times out.                                                         *)
RecoverFails ==
    /\ pc = "poll" /\ bus = "off" /\ sinceTry = BusOffRetryMs
    /\ hal = "busy"
    /\ sinceTry' = 0
    /\ hal' = Unlatched("error")
    /\ deaf' = 0
    /\ PollDone
    /\ UNCHANGED <<fifo, bus, faults>>

(* Mutated form of Due: the plain comparison of ticks.                     *)
DuePlain(now, c) == now >= last[c] + Period[c]

Due(now, c) == Since(now, last[c]) >= Period[c]

(* The ECU matrix: what is due, in the order fast, mid, slow.              *)
FramesOf(S) ==
    LET frames(c) == IF c \in S THEN TxFrames[c] ELSE 0
    IN  frames("fast") + frames("mid") + frames("slow")

Send ==
    /\ pc = "send"
    /\ LET due == {c \in Ecu : Due(now2, c)} IN
         /\ fifo' = Sent(FramesOf(due))
         /\ last' = [c \in Cadence |-> IF c \in due THEN now2 ELSE last[c]]
    /\ IF enabled /\ Due(now2, "scan")
       THEN pc' = "scan" /\ scanLeft' = TxFrames["scan"]
       ELSE pc' = "health" /\ UNCHANGED scanLeft
    /\ overrun' = FALSE
    /\ UNCHANGED <<tick, left, late, slips, now2, enabled, queue, veh, hal, bus, sinceTry, faults,
                   deaf, rx>>

(* send_or_fail_blocking waits while this is false.                        *)
ScanRoom == fifo < FifoDepth

ScanFrame ==
    /\ pc = "scan" /\ ScanRoom
    /\ fifo' = Sent(1)
    /\ scanLeft' = scanLeft - 1
    /\ IF scanLeft = 1
       THEN pc' = "health" /\ last' = [last EXCEPT !["scan"] = now2]
       ELSE UNCHANGED <<pc, last>>
    /\ UNCHANGED <<tick, left, late, slips, now2, enabled, queue, veh, hal, bus, sinceTry, faults,
                   deaf, rx, overrun>>

Health ==
    /\ pc = "health"
    /\ IF Due(now2, "health")
       THEN fifo' = Sent(TxFrames["health"]) /\ last' = [last EXCEPT !["health"] = now2]
       ELSE UNCHANGED <<fifo, last>>
    /\ pc' = "top"
    /\ late' = 0 /\ now2' = 0
    /\ UNCHANGED <<tick, left, slips, enabled, scanLeft, queue, veh, hal, bus, sinceTry, faults,
                   deaf, rx, overrun>>

-----------------------------------------------------------------------------
(* The tick, the bus and the other nodes.                                  *)

(* The points at which others act: what they do between the poll and the   *)
(* end of the pass commutes with the steps of the task until the top.      *)
Preemptible == pc \in {"top", "wait", "scan"}

Older(h, fresh) ==
    [age |-> Until(h.age, fresh + 1), wrapped |-> h.wrapped \/ tick = Wrap - 1]

(* The loop polls without a timeout and finds nothing to do.               *)
Spins == left = 0 /\ \A c \in Cadence : Due(tick, c) => c = "scan" /\ ~ enabled

(* A tick passes while the task sleeps in its wait or spins, while it      *)
(* waits for room, or, at most Latency times a pass, while others run.     *)
Elapse ==
    /\ \/ pc = "wait" /\ queue = <<>> /\ (left > 0 \/ Spins)
          /\ UNCHANGED <<late, slips>>
       \/ pc = "scan" /\ ~ ScanRoom /\ UNCHANGED <<late, slips>>
       \/ pc \in {"top", "wait"} /\ late < Latency /\ slips < MaxSlips
          /\ late' = late + 1 /\ slips' = slips + 1
    /\ left' = IF left > 0 THEN left - 1 ELSE 0
    /\ tick' = Plus(tick, 1)
    /\ fifo' \in (IF bus = "up" /\ fifo > 0 THEN 0 .. fifo - 1 ELSE {fifo})
    /\ sinceTry' = Until(sinceTry, BusOffRetryMs)
    /\ overrun' = (overrun \/ (tick = Wrap - 1 /\ pc # "wait"))
    /\ deaf' = IF bus = "off" THEN Until(deaf, DeafCap) ELSE 0
    /\ charge' = Older(charge, ChargeReqFreshMs)
    /\ balancing' = Older(balancing, BalanceOverrideFreshMs)
    /\ UNCHANGED <<pc, now2, last, enabled, scanLeft, queue, state, hal, bus, rx, faults>>

(* The receive interrupt stamps the frame and queues it.                   *)
Arrive ==
    /\ Preemptible /\ bus = "up" /\ hal = "busy"
    /\ rx < MaxRx /\ Len(queue) < QueueCap
    /\ \E k \in RxKinds : queue' = Append(queue, [kind |-> k, at |-> tick])
    /\ rx' = rx + 1
    /\ UNCHANGED <<tick, late, slips, taskVars, veh, busVars, overrun>>

BusOff ==
    /\ Preemptible /\ bus = "up" /\ faults < MaxFaults
    /\ bus' = "off"
    /\ faults' = faults + 1
    /\ deaf' = 0
    /\ UNCHANGED <<tick, late, slips, taskVars, queue, veh, hal, fifo, sinceTry, rx, overrun>>

Task == \/ StartWait \/ ServeFrame \/ Reboot \/ WaitTimesOut \/ PollSkips \/ Recover
        \/ RecoverFails \/ Send \/ ScanFrame \/ Health

Next == Task \/ Elapse \/ Arrive \/ BusOff

Spec == Init /\ [][Next]_vars

-----------------------------------------------------------------------------
Elapsed(c) == Since(tick, last[c])

(* "Otherwise wedge it at far future so it doesn't shorten the queue-get   *)
(* timeout in the off path": the task waits without a timeout only if a    *)
(* transmission is due, or in the last FarAhead ticks before the wrap.     *)
SpinsOnlyBeforeWrap ==
    pc = "top" /\ Timeout = 0 /\ tick + FarAhead < Wrap =>
        \E c \in Ecu \cup (IF enabled THEN {"scan"} ELSE {}) : Elapsed(c) >= Period[c]

(* "The rest of the loop still gets all its deadlines": while the bus is   *)
(* up, every cadence is served within its period, the latency of the task  *)
(* and the time of a scan, unless the tick has wrapped after the poll and  *)
(* before the wait.                                                        *)
CadenceKept ==
    LET slip == Latency + TxFrames["scan"]
    IN  bus = "up" /\ ~ overrun =>
            /\ \A c \in Ecu : Elapsed(c) <= Period[c] + slip
            /\ pc \notin {"scan", "health"} =>
                   /\ enabled => Elapsed("scan") <= Period["scan"] + slip
                   /\ Elapsed("health") <= Period["health"] + Period["fast"] + slip

(* A node in Bus_Off recovers within the retry period and one pass of the  *)
(* last fault, whatever Stop does, unless the task is inside a scan.       *)
DeafOnlyInScan == bus = "off" /\ deaf = DeafCap /\ ~ overrun => pc = "scan"

(* "The loop still spins at <= EcuFastTxMs" while Bus_Off has the node     *)
(* deaf, so that the recovery fires: as DeafOnlyInScan, without the scan.  *)
RecoveryRuns == bus = "off" /\ ~ overrun => deaf < DeafCap

(* "Only an actively-asserted request counts", "a dead link never leaves   *)
(* the pack bleeding": whatever else arrives, a charge request or a        *)
(* balancing command older than its limit has no effect until the tick     *)
(* has wrapped.                                                            *)
StaleOnlyAfterWrap ==
    /\ ChargeRequested(tick, state.chargeTick) =>
           charge.age <= ChargeReqFreshMs \/ charge.wrapped
    /\ EffectiveBalanceCmd(tick, state.balanceTick, state.balance) # "Off" =>
           balancing.age <= BalanceOverrideFreshMs \/ balancing.wrapped

(* "Counts as just-seen, never as ancient": a fresh request is honoured,   *)
(* also across the wrap and by a reader whose tick is older than its       *)
(* stamp, unless it was stamped 0.                                         *)
FreshIsHonoured ==
    \A now \in {tick, IF tick > 0 THEN tick - 1 ELSE 0} :
        /\ charge.age <= ChargeReqFreshMs /\ state.chargeTick # 0 =>
               ChargeRequested(now, state.chargeTick)
        /\ balancing.age <= BalanceOverrideFreshMs /\ state.balanceTick # 0 =>
               EffectiveBalanceCmd(now, state.balanceTick, state.balance) = state.balance
=============================================================================
