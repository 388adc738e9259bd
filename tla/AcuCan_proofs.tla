---------------------------- MODULE AcuCan_proofs ----------------------------
(***************************************************************************)
(* Proofs about the CAN task of the accumulator, for every value of the    *)
(* constants: its type invariant, that it keeps its cadences               *)
(* (CadenceKept), recovers from Bus_Off (DeafOnlyInScan) and spins only    *)
(* when it has to (SpinsOnlyBeforeWrap), and that a request of the         *)
(* operator counts exactly while it is fresh (StaleOnlyAfterWrap,          *)
(* FreshIsHonoured).                                                       *)
(*                                                                         *)
(* The invariant follows the pass: after the send every cadence was served *)
(* at now2, a scan takes a tick for each of its frames at most, the wait   *)
(* is no longer than what is left of any period, and the node has been     *)
(* deaf for no longer than the retry period and the time since the poll.   *)
(***************************************************************************)
EXTENDS AcuCan, SequenceTheorems, TLAPS

(* The cadences that have a deadline.                                      *)
Kept == Ecu \cup (IF enabled THEN {"scan"} ELSE {})

Frames == [kind : FrameKind, at : Tick]

(* TypeOK, part by part.                                                   *)
LoopTypes ==
    /\ tick \in Tick /\ now2 \in Tick /\ left \in Tick
    /\ pc \in {"top", "wait", "poll", "send", "scan", "health"}
    /\ late \in 0 .. Latency /\ slips \in 0 .. MaxSlips
    /\ last \in [Cadence -> Tick]
    /\ enabled \in BOOLEAN /\ overrun \in BOOLEAN
    /\ scanLeft \in 0 .. TxFrames["scan"]

BusTypes ==
    /\ hal \in {"busy", "ready"} /\ bus \in {"up", "off"}
    /\ fifo \in 0 .. FifoDepth
    /\ sinceTry \in 0 .. BusOffRetryMs
    /\ faults \in 0 .. MaxFaults
    /\ deaf \in 0 .. DeafCap

RequestTypes ==
    /\ state \in VehicleState
    /\ charge \in [age : 0 .. ChargeReqFreshMs + 1, wrapped : BOOLEAN]
    /\ balancing \in [age : 0 .. BalanceOverrideFreshMs + 1, wrapped : BOOLEAN]

QueueTypes == queue \in Seq(Frames) /\ Len(queue) <= QueueCap /\ rx \in 0 .. MaxRx

Typed == LoopTypes /\ BusTypes /\ RequestTypes /\ QueueTypes

(* A fresh request is as old as its tick says; and until the tick has      *)
(* wrapped, a tick that is not 0 says how old the request is.              *)
Known(h, then, fresh) ==
    /\ h.age <= fresh => Since(tick, then) = h.age
    /\ ~ h.wrapped /\ then # 0 =>
           then <= tick /\ h.age = IF tick - then <= fresh THEN tick - then ELSE fresh + 1

Requests ==
    /\ Known(charge, state.chargeTick, ChargeReqFreshMs)
    /\ Known(balancing, state.balanceTick, BalanceOverrideFreshMs)

Passes == pc \in {"scan", "health"}

Poised ==
    /\ pc = "send" => now2 = tick
    /\ pc = "scan" => scanLeft > 0
    /\ Passes /\ ~ overrun => now2 <= tick

(* The ticks that the scan may have taken so far.                          *)
ScanTime ==
    IF pc = "health" THEN TxFrames["scan"]
    ELSE TxFrames["scan"] - scanLeft + (IF ScanRoom THEN 1 ELSE 0)

(* A scan that waits for room while the bus is off waits for ever, and     *)
(* nothing is said of it.                                                  *)
Moving == pc = "health" \/ bus = "up" \/ ScanRoom

Served ==
    Passes =>
        /\ \A c \in Ecu : Since(now2, last[c]) < Period[c]
        /\ pc = "health" /\ enabled => Since(now2, last["scan"]) < Period["scan"]
        /\ Moving => Since(tick, now2) <= ScanTime

(* Its deadline is not behind by a round.                                  *)
Ahead(c) == last[c] <= tick \/ last[c] + Period[c] >= Wrap

(* The health frame rides on the fast cadence.                             *)
Rides == Elapsed("health") < Period["health"] + Elapsed("fast")

Rested ==
    pc = "top" =>
        /\ \A c \in Kept : Elapsed(c) < Period[c] + TxFrames["scan"] + late
        /\ ~ overrun => \A c \in Kept : Ahead(c)
        /\ Rides

Waits == pc \in {"wait", "poll", "send"} /\ ~ overrun

Waiting ==
    Waits =>
        /\ \A c \in Kept : Elapsed(c) <= Period[c] + TxFrames["scan"] + late
        /\ pc = "wait" /\ left > 0 => \A c \in Kept : Elapsed(c) + left <= Period[c]
        /\ Rides

Recovering ==
    bus = "off" =>
        /\ deaf <= sinceTry \/ sinceTry = BusOffRetryMs
        /\ pc \in {"send", "health"} => deaf < BusOffRetryMs
        /\ pc = "scan" /\ ScanRoom => deaf < BusOffRetryMs
        /\ pc = "top" => deaf < BusOffRetryMs + late
        /\ pc = "top" \/ (pc = "wait" /\ ~ overrun) => deaf < BusOffRetryMs + Elapsed("fast")
        /\ pc = "wait" /\ ~ overrun => deaf + left < BusOffRetryMs + Period["fast"] + late
        /\ pc = "poll" /\ ~ overrun => deaf < BusOffRetryMs + Period["fast"] + late

Inv == Typed /\ Requests /\ Poised /\ Served /\ Rested /\ Waiting /\ Recovering

-----------------------------------------------------------------------------
(* The constants.                                                          *)

LEMMA Constants ==
    /\ Wrap \in Nat /\ Wrap > 0 /\ FarAhead \in Nat /\ FarAhead > 0 /\ FarAhead < Wrap
    /\ ChargeReqFreshMs \in Nat /\ ChargeReqFreshMs < Wrap
    /\ BalanceOverrideFreshMs \in Nat /\ BalanceOverrideFreshMs < Wrap
    /\ BusOffRetryMs \in Nat /\ BusOffRetryMs > 0
    /\ FifoDepth \in Nat /\ FifoDepth > 0 /\ QueueCap \in Nat /\ QueueCap > 0
    /\ Latency \in Nat /\ MaxSlips \in Nat /\ MaxRx \in Nat /\ MaxFaults \in Nat
<1>1. /\ Wrap \in Nat \ {0} /\ FarAhead \in Nat \ {0} /\ FarAhead < Wrap
      /\ ChargeReqFreshMs \in Nat \ {0} /\ BalanceOverrideFreshMs \in Nat \ {0}
      /\ BusOffRetryMs \in Nat \ {0} /\ FifoDepth \in Nat \ {0} /\ QueueCap \in Nat \ {0}
  BY CanAssumption, ServiceAssumption
<1>2. Latency \in Nat /\ MaxSlips \in Nat /\ MaxRx \in Nat /\ MaxFaults \in Nat
  BY CanAssumption
<1>3. QED
  BY <1>1, <1>2, ServiceAssumption

LEMMA Cadences ==
    /\ "fast" \in Ecu /\ "fast" \in Kept /\ "mid" \in Ecu /\ "slow" \in Ecu
    /\ "scan" \in Cadence /\ "health" \in Cadence
    /\ Ecu \subseteq Kept /\ Kept \subseteq Cadence /\ Ecu \subseteq Cadence
    /\ (enabled => "scan" \in Kept)
    /\ \A c \in Kept : c \in Ecu \/ (enabled /\ c = "scan")
    /\ "scan" \notin Ecu /\ "health" \notin Ecu /\ "health" \notin Kept
BY DEF Ecu, Kept, Cadence

LEMMA Periods ==
    ASSUME NEW c \in Cadence
    PROVE  /\ Period[c] \in Nat /\ Period[c] > 0 /\ Period[c] < FarAhead /\ Period[c] < Wrap
           /\ TxFrames[c] \in Nat /\ TxFrames[c] > 0
<1>1. Period[c] \in Nat \ {0} /\ TxFrames[c] \in Nat \ {0} /\ Period[c] < FarAhead
  BY CanAssumption
<1>2. QED
  BY <1>1, Constants

LEMMA FastAndScan ==
    /\ Period["fast"] \in Nat /\ Period["fast"] > 0 /\ Period["fast"] < Wrap
    /\ TxFrames["scan"] \in Nat /\ TxFrames["scan"] > 0
    /\ Period["health"] \in Nat /\ Period["health"] > 0 /\ Period["health"] < Wrap
    /\ Period["scan"] \in Nat /\ Period["scan"] > 0 /\ Period["scan"] < Wrap
    /\ Period["fast"] + TxFrames["scan"] + Latency < Wrap
    /\ DeafCap \in Nat /\ DeafCap = BusOffRetryMs + Period["fast"] + Latency + 1
<1>1. "fast" \in Cadence /\ "scan" \in Cadence /\ "health" \in Cadence
  BY Cadences
<1>2. QED
  BY <1>1, Periods, Constants, CanAssumption DEF DeafCap

-----------------------------------------------------------------------------
(* The clock.                                                              *)

LEMMA SinceType ==
    ASSUME NEW t \in Tick, NEW u \in Tick
    PROVE  Since(t, u) \in Tick /\ Since(t, u) \in Nat /\ Since(t, u) < Wrap
BY Constants DEF Since, Tick

LEMMA SinceSelf ==
    ASSUME NEW t \in Tick
    PROVE  Since(t, t) = 0
BY Constants DEF Since, Tick

LEMMA PlusType ==
    ASSUME NEW t \in Tick, NEW d \in Nat, d <= Wrap
    PROVE  Plus(t, d) \in Tick
BY Constants DEF Plus, Tick

LEMMA SinceStep ==
    ASSUME NEW t \in Tick, NEW u \in Tick
    PROVE  Since(Plus(t, 1), u) = IF Since(t, u) = Wrap - 1 THEN 0 ELSE Since(t, u) + 1
BY Constants DEF Since, Plus, Tick

LEMMA SinceAdds ==
    ASSUME NEW t \in Tick, NEW u \in Tick, NEW v \in Tick
    PROVE  /\ Since(t, v) <= Since(u, v) + Since(t, u)
           /\ Since(u, v) + Since(t, u) < Wrap => Since(t, v) = Since(u, v) + Since(t, u)
BY Constants DEF Since, Tick

LEMMA SinceBack ==
    ASSUME NEW t \in Tick, NEW d \in Nat, d < Wrap
    PROVE  Since(t, d) \in Tick /\ Since(t, Since(t, d)) = d
BY Constants DEF Since, Tick

(* A wait that ends at or before a deadline that is ahead is no longer     *)
(* than what is left of its period.                                        *)
LEMMA WaitWithinPeriod ==
    ASSUME NEW t \in Tick, NEW u \in Tick, NEW p \in Nat, p < Wrap, NEW d \in Nat,
           u <= t \/ u + p >= Wrap, d <= Plus(u, p), d > t
    PROVE  Since(t, u) + (d - t) <= p
BY Constants DEF Since, Plus, Tick

(* A deadline that is not ahead of the tick, and not wrapped, has passed.  *)
LEMMA PassedDeadline ==
    ASSUME NEW t \in Tick, NEW u \in Tick, NEW p \in Nat, p < FarAhead, t + FarAhead < Wrap,
           Plus(u, p) <= t
    PROVE  Since(t, u) >= p
BY Constants DEF Since, Plus, Tick

-----------------------------------------------------------------------------
(* Least.                                                                  *)

LEMMA LeastIs ==
    ASSUME NEW S, NEW x \in S, \A y \in S : x <= y
    PROVE  Least(S) \in S /\ \A y \in S : Least(S) <= y
BY DEF Least

LEMMA LeastOfTwo ==
    ASSUME NEW a \in Nat, NEW b \in Nat
    PROVE  Least({a, b}) = IF a <= b THEN a ELSE b
<1> DEFINE S == {a, b}
<1>1. \E x \in S : \A y \in S : x <= y
  OBVIOUS
<1>2. Least(S) \in S /\ \A y \in S : Least(S) <= y
  BY <1>1, LeastIs
<1>3. QED
  BY <1>2

LEMMA FourHaveLeast ==
    ASSUME NEW a \in Nat, NEW b \in Nat, NEW c \in Nat, NEW d \in Nat
    PROVE  \E x \in {a, b, c, d} : \A y \in {a, b, c, d} : x <= y
<1>1. CASE a <= b /\ a <= c /\ a <= d
  BY <1>1
<1>2. CASE b <= a /\ b <= c /\ b <= d
  BY <1>2
<1>3. CASE c <= a /\ c <= b /\ c <= d
  BY <1>3
<1>4. CASE d <= a /\ d <= b /\ d <= c
  BY <1>4
<1>5. QED
  BY <1>1, <1>2, <1>3, <1>4

(* The deadline is the first of those of the kept cadences, or far ahead.  *)
LEMMA DeadlineIs ==
    ASSUME LoopTypes
    PROVE  /\ Deadline \in Tick
           /\ \A c \in Kept : Deadline <= Plus(last[c], Period[c])
           /\ \/ \E c \in Kept : Deadline = Plus(last[c], Period[c])
              \/ ~ enabled /\ Deadline = Plus(tick, FarAhead)
<1> DEFINE D(c) == Plus(last[c], Period[c])
           S == {D(c) : c \in Ecu} \cup {NextPit}
<1>1. \A c \in Cadence : D(c) \in Tick
  <2>1. \A c \in Cadence : last[c] \in Tick
    BY DEF LoopTypes
  <2>2. \A c \in Cadence : Period[c] \in Nat /\ Period[c] <= Wrap
    BY Periods, Constants
  <2>3. QED
    BY <2>1, <2>2, PlusType
<1>2. NextPit = IF enabled THEN D("scan") ELSE Plus(tick, FarAhead)
  BY DEF NextPit
<1>3. NextPit \in Tick
  BY <1>1, <1>2, PlusType, Constants, Cadences DEF LoopTypes
<1>4. S = {D("fast"), D("mid"), D("slow"), NextPit}
  BY DEF Ecu
<1>5. D("fast") \in Nat /\ D("mid") \in Nat /\ D("slow") \in Nat /\ NextPit \in Nat
  BY <1>1, <1>3, Cadences DEF Tick
<1>6. \E x \in S : \A y \in S : x <= y
  <2> DEFINE a == D("fast")
             b == D("mid")
             c == D("slow")
  <2>1. S = {a, b, c, NextPit} /\ a \in Nat /\ b \in Nat /\ c \in Nat /\ NextPit \in Nat
    BY <1>4, <1>5
  <2> HIDE DEF S, a, b, c
  <2>2. \E x \in {a, b, c, NextPit} : \A y \in {a, b, c, NextPit} : x <= y
    BY <2>1, FourHaveLeast
  <2>3. QED
    BY <2>1, <2>2
<1>7. Deadline \in S /\ \A y \in S : Deadline <= y
  BY <1>6, LeastIs DEF Deadline
<1>8. \A c \in Kept : D(c) \in S
  BY <1>2 DEF Kept
<1>9. \A y \in S : y = NextPit \/ \E c \in Ecu : y = D(c)
  OBVIOUS
<1>10. Deadline \in Tick
  BY <1>1, <1>3, <1>7, <1>9, Cadences
<1>11. \A c \in Kept : Deadline <= D(c)
  BY <1>7, <1>8
<1>12. (\E c \in Kept : Deadline = D(c)) \/ (~ enabled /\ Deadline = Plus(tick, FarAhead))
  BY <1>2, <1>7, <1>9, Cadences DEF Kept
<1>13. QED
  BY <1>10, <1>11, <1>12

LEMMA TimeoutIs ==
    ASSUME LoopTypes
    PROVE  /\ Timeout \in Tick
           /\ Timeout > 0 => Deadline = tick + Timeout
           /\ Timeout = 0 => Deadline <= tick
<1>1. Deadline \in Tick /\ tick \in Tick
  BY DeadlineIs DEF LoopTypes
<1>2. QED
  BY <1>1, Constants DEF Timeout, Tick

LEMMA SentType ==
    ASSUME BusTypes, NEW n \in Nat
    PROVE  Sent(n) \in 0 .. FifoDepth
<1>1. fifo \in Nat /\ fifo <= FifoDepth /\ FifoDepth \in Nat
  BY Constants DEF BusTypes
<1>2. Least({fifo + n, FifoDepth}) = IF fifo + n <= FifoDepth THEN fifo + n ELSE FifoDepth
  BY <1>1, LeastOfTwo
<1>3. QED
  BY <1>1, <1>2 DEF Sent

LEMMA FramesType ==
    ASSUME NEW S
    PROVE  FramesOf(S) \in Nat
<1>1. TxFrames["fast"] \in Nat /\ TxFrames["mid"] \in Nat /\ TxFrames["slow"] \in Nat
  BY Periods, Cadences
<1>2. QED
  BY <1>1 DEF FramesOf

-----------------------------------------------------------------------------
(* Facts that the steps share.                                             *)

LEMMA Ages ==
    ASSUME LoopTypes, NEW c \in Cadence
    PROVE  /\ last[c] \in Tick /\ last[c] \in Nat /\ tick \in Nat /\ now2 \in Nat /\ left \in Nat
           /\ late \in Nat /\ late <= Latency /\ scanLeft \in Nat
           /\ Elapsed(c) \in Nat /\ Elapsed(c) < Wrap
           /\ Since(now2, last[c]) \in Nat /\ Since(tick, now2) \in Nat
<1>1. last[c] \in Tick /\ tick \in Tick /\ now2 \in Tick /\ left \in Tick
  BY DEF LoopTypes
<1>2. late \in 0 .. Latency /\ scanLeft \in 0 .. TxFrames["scan"]
  BY DEF LoopTypes
<1>3. Elapsed(c) \in Nat /\ Elapsed(c) < Wrap
  BY <1>1, SinceType DEF Elapsed
<1>4. Since(now2, last[c]) \in Nat /\ Since(tick, now2) \in Nat
  BY <1>1, SinceType
<1>5. last[c] \in Nat /\ tick \in Nat /\ now2 \in Nat /\ left \in Nat
  BY <1>1 DEF Tick
<1>6. late \in Nat /\ late <= Latency /\ scanLeft \in Nat
  BY <1>2, Constants, FastAndScan
<1>7. QED
  BY <1>1, <1>3, <1>4, <1>5, <1>6

LEMMA ElapsedStays ==
    ASSUME tick' = tick, last' = last
    PROVE  /\ \A c : Elapsed(c)' = Elapsed(c)
           /\ \A c : Ahead(c)' = Ahead(c)
           /\ Rides' = Rides
<1>1. \A c : Elapsed(c)' = Elapsed(c)
  BY DEF Elapsed
<1>2. \A c : Ahead(c)' = Ahead(c)
  BY DEF Ahead
<1>3. QED
  BY <1>1, <1>2 DEF Rides

LEMMA RequestsStay ==
    ASSUME Requests, tick' = tick, veh' = veh
    PROVE  Requests'
BY DEF Requests, Known, veh

(* The state after power-up and after a reboot: the counters of the bounds  *)
(* go on.                                                                  *)
Booted ==
    /\ tick = 0 /\ now2 = 0 /\ pc = "top" /\ left = 0 /\ late = 0
    /\ last = [c \in Cadence |-> 0]
    /\ enabled = FALSE /\ scanLeft = 0 /\ queue = <<>> /\ state = PowerUp
    /\ hal = "busy" /\ fifo = 0 /\ bus = "up" /\ sinceTry = BusOffRetryMs
    /\ overrun = FALSE /\ deaf = 0
    /\ charge = Never(ChargeReqFreshMs) /\ balancing = Never(BalanceOverrideFreshMs)
    /\ slips \in 0 .. MaxSlips /\ rx \in 0 .. MaxRx /\ faults \in 0 .. MaxFaults

LEMMA BootedInv == Booted => Inv
<1> SUFFICES ASSUME Booted PROVE Inv
  OBVIOUS
<1>1. 0 \in Tick
  BY Constants DEF Tick
<1>2. LoopTypes
  <2>1. last \in [Cadence -> Tick]
    BY <1>1 DEF Booted
  <2>2. late \in 0 .. Latency /\ slips \in 0 .. MaxSlips /\ scanLeft \in 0 .. TxFrames["scan"]
    BY Constants, FastAndScan DEF Booted
  <2>3. QED
    BY <1>1, <2>1, <2>2 DEF Booted, LoopTypes
<1>3. BusTypes
  BY Constants, FastAndScan DEF Booted, BusTypes
<1>4. RequestTypes
  <2>1. state \in VehicleState
    BY <1>1 DEF Booted, VehicleState, PowerUp, BalanceCmd
  <2>2. QED
    BY <2>1, Constants DEF Booted, RequestTypes, Never
<1>5. QueueTypes
  BY EmptySeq, Constants DEF Booted, QueueTypes
<1>6. Requests
  BY Constants DEF Booted, Requests, Known, Never, PowerUp
<1>7. \A c \in Cadence : last[c] = 0 /\ Elapsed(c) = 0
  BY <1>1, SinceSelf DEF Booted, Elapsed
<1>8. Rested
  <2>1. \A c \in Kept : Elapsed(c) < Period[c] + TxFrames["scan"] + late /\ Ahead(c)
    <3> SUFFICES ASSUME NEW c \in Kept
                 PROVE  Elapsed(c) < Period[c] + TxFrames["scan"] + late /\ Ahead(c)
      OBVIOUS
    <3>1. last[c] = 0 /\ Elapsed(c) = 0 /\ Period[c] \in Nat /\ Period[c] > 0
      BY <1>7, Cadences, Periods
    <3>2. late = 0 /\ tick = 0
      BY DEF Booted
    <3>3. QED
      BY <3>1, <3>2, FastAndScan DEF Ahead
  <2>2. Rides
    BY <1>7, Cadences, FastAndScan DEF Rides
  <2>3. QED
    BY <2>1, <2>2 DEF Rested
<1>9. Poised /\ Served /\ Waiting /\ Recovering
  BY DEF Booted, Poised, Served, Passes, Waiting, Waits, Recovering
<1>10. QED
  BY <1>2, <1>3, <1>4, <1>5, <1>6, <1>8, <1>9 DEF Inv, Typed

LEMMA InvInit == Init => Inv
<1>1. Init => Booted
  BY Constants DEF Init, Booted
<1>2. QED
  BY <1>1, BootedInv

LEMMA BootedNext == Booted' => Inv'
BY BootedInv, PTL

-----------------------------------------------------------------------------
(* From the top of the pass to the send.                                   *)

LEMMA StartWaitStep == Inv /\ StartWait => Inv'
<1> SUFFICES ASSUME Inv, StartWait PROVE Inv'
  OBVIOUS
<1>1. LoopTypes /\ pc = "top" /\ pc' = "wait" /\ left' = Timeout
      /\ UNCHANGED <<tick, late, slips, now2, last, enabled, scanLeft, queue, state, charge,
                     balancing, hal, fifo, bus, sinceTry, faults, deaf, rx, overrun>>
  BY DEF Inv, Typed, StartWait, veh, busVars
<1>2. Typed'
  <2>1. left' \in Tick
    BY <1>1, TimeoutIs
  <2>2. QED
    BY <1>1, <2>1 DEF Inv, Typed, LoopTypes, BusTypes, RequestTypes, QueueTypes
<1>3. Requests'
  BY <1>1, RequestsStay DEF Inv, veh
<1>4. Poised' /\ Served' /\ Rested'
  BY <1>1 DEF Poised, Served, Rested, Passes
<1>5. Kept' = Kept
  BY <1>1 DEF Kept
<1>6. ASSUME ~ overrun, NEW c \in Kept, left' > 0
      PROVE  Elapsed(c) + left' <= Period[c]
  <2>1. Ahead(c)
    BY <1>1, <1>6 DEF Inv, Rested
  <2>2. Deadline = tick + Timeout /\ Deadline <= Plus(last[c], Period[c]) /\ Timeout \in Nat
    BY <1>1, <1>6, TimeoutIs, DeadlineIs DEF Tick
  <2>3. c \in Cadence /\ tick \in Tick /\ last[c] \in Tick /\ tick \in Nat
    BY <1>1, Cadences, Ages DEF LoopTypes
  <2>4. Deadline \in Nat /\ Deadline > tick
    BY <1>1, <1>6, <2>2, <2>3
  <2>5. Since(tick, last[c]) + (Deadline - tick) <= Period[c]
    BY <2>1, <2>2, <2>3, <2>4, Periods, WaitWithinPeriod DEF Ahead
  <2>6. Deadline - tick = left'
    BY <1>1, <2>2, <2>3
  <2>7. QED
    BY <2>5, <2>6 DEF Elapsed
<1>7. Waiting'
  <2> SUFFICES ASSUME ~ overrun PROVE Waiting'
    BY <1>1 DEF Waiting, Waits
  <2>1. \A c \in Kept : Elapsed(c) <= Period[c] + TxFrames["scan"] + late
    <3> SUFFICES ASSUME NEW c \in Kept
                 PROVE  Elapsed(c) <= Period[c] + TxFrames["scan"] + late
      OBVIOUS
    <3>1. Elapsed(c) < Period[c] + TxFrames["scan"] + late
      BY <1>1 DEF Inv, Rested
    <3>2. Elapsed(c) \in Nat /\ Period[c] \in Nat /\ late \in Nat
      BY <1>1, Cadences, Periods, Ages
    <3>3. QED
      BY <3>1, <3>2, FastAndScan
  <2>2. Rides
    BY <1>1 DEF Inv, Rested
  <2>3. QED
    BY <1>1, <1>5, <1>6, <2>1, <2>2, ElapsedStays DEF Waiting
<1>8. Recovering'
  <2>1. ~ overrun => left' <= Period["fast"]
    <3>1. left' \in Nat /\ Elapsed("fast") \in Nat
      BY <1>1, Cadences, Ages, TimeoutIs DEF Tick
    <3>2. QED
      BY <1>6, <3>1, Cadences, FastAndScan
  <2>2. left' \in Nat /\ late \in Nat /\ deaf \in Nat
    BY <1>1, Cadences, Ages, TimeoutIs, FastAndScan DEF Inv, Typed, BusTypes, Tick
  <2>3. Elapsed("fast")' = Elapsed("fast")
    BY <1>1, ElapsedStays
  <2>4. QED
    BY <1>1, <2>1, <2>2, <2>3, Constants, FastAndScan DEF Inv, Recovering
<1>9. QED
  BY <1>2, <1>3, <1>4, <1>7, <1>8 DEF Inv

(* What a request becomes in the service and in the histories.             *)
LEMMA GenuineIs ==
    ASSUME NEW f \in Frames, NEW K, NEW h, NEW fresh \in Nat, LoopTypes,
           f.kind \in K
    PROVE  /\ Genuine(f, K, h, fresh) \in [age : 0 .. fresh + 1, wrapped : BOOLEAN]
           /\ Known(Genuine(f, K, h, fresh), f.at, fresh)
<1> DEFINE g == Genuine(f, K, h, fresh)
           s == Since(tick, f.at)
<1>1. f.at \in Tick /\ tick \in Tick
  BY DEF Frames, LoopTypes
<1>2. s \in Nat
  BY <1>1, SinceType
<1>3. Least({s, fresh + 1}) = IF s <= fresh + 1 THEN s ELSE fresh + 1
  <2> HIDE DEF s
  <2>1. QED
    BY <1>2, LeastOfTwo
<1>4. g = [age |-> IF s <= fresh + 1 THEN s ELSE fresh + 1, wrapped |-> tick < f.at]
  BY <1>3 DEF Genuine
<1>5. g.age = (IF s <= fresh + 1 THEN s ELSE fresh + 1) /\ g.wrapped = (tick < f.at)
  BY <1>4
<1>6. g \in [age : 0 .. fresh + 1, wrapped : BOOLEAN]
  BY <1>2, <1>4
<1>7. f.at \in Nat /\ tick \in Nat /\ (tick >= f.at => s = tick - f.at)
  BY <1>1 DEF Since, Tick
<1> HIDE DEF g, s
<1>8. Known(g, f.at, fresh)
  <2>1. g.age <= fresh => s = g.age
    BY <1>2, <1>5
  <2>2. ASSUME ~ g.wrapped
        PROVE  f.at <= tick /\ g.age = IF tick - f.at <= fresh THEN tick - f.at ELSE fresh + 1
    <3>1. ~ (tick < f.at)
      BY <2>2, <1>5
    <3>2. f.at <= tick /\ s = tick - f.at
      BY <3>1, <1>7
    <3>3. s <= fresh \/ s = fresh + 1 \/ s > fresh + 1
      BY <1>2
    <3>4. g.age = IF s <= fresh THEN s ELSE fresh + 1
      BY <1>2, <1>5, <3>3
    <3>5. QED
      BY <3>2, <3>4
  <2>3. QED
    BY <2>1, <2>2 DEF Known, s
<1>9. QED
  BY <1>6, <1>8 DEF g

LEMMA ServiceKeeps ==
    ASSUME RequestTypes, Requests, LoopTypes, NEW f \in Frames, tick' = tick,
           state' = UpdateFromFrame(state, f.kind, f.at),
           charge' = Genuine(f, {"charge"}, charge, ChargeReqFreshMs),
           balancing' = Genuine(f, BalanceCmd, balancing, BalanceOverrideFreshMs)
    PROVE  RequestTypes' /\ Requests'
<1>1. f.at \in Tick /\ f.kind \in FrameKind
  BY DEF Frames
<1>2. /\ state \in VehicleState /\ state.chargeTick \in Tick /\ state.balanceTick \in Tick
      /\ state.balance \in BalanceCmd
  BY DEF RequestTypes, VehicleState
<1>3. CASE f.kind = "charge"
  <2>1. f.kind \notin BalanceCmd
    BY <1>3 DEF BalanceCmd
  <2>2. state' = [state EXCEPT !.chargeTick = f.at] /\ balancing' = balancing
    BY <1>3, <2>1 DEF UpdateFromFrame, Genuine
  <2>3. state' \in VehicleState /\ state'.chargeTick = f.at
        /\ state'.balanceTick = state.balanceTick
    BY <1>1, <1>2, <2>2 DEF VehicleState
  <2>4. charge' \in [age : 0 .. ChargeReqFreshMs + 1, wrapped : BOOLEAN]
        /\ Known(charge', f.at, ChargeReqFreshMs)
    BY <1>3, GenuineIs, Constants
  <2>5. QED
    BY <2>2, <2>3, <2>4 DEF RequestTypes, Requests, Known
<1>4. CASE f.kind \in BalanceCmd
  <2>1. f.kind # "charge"
    BY <1>4 DEF BalanceCmd
  <2>2. state' = [state EXCEPT !.balance = f.kind, !.balanceTick = f.at] /\ charge' = charge
    BY <1>4, <2>1 DEF UpdateFromFrame, Genuine
  <2>3. state' \in VehicleState /\ state'.balanceTick = f.at
        /\ state'.chargeTick = state.chargeTick
    BY <1>1, <1>2, <1>4, <2>2 DEF VehicleState
  <2>4. balancing' \in [age : 0 .. BalanceOverrideFreshMs + 1, wrapped : BOOLEAN]
        /\ Known(balancing', f.at, BalanceOverrideFreshMs)
    BY <1>4, GenuineIs, Constants
  <2>5. QED
    BY <2>2, <2>3, <2>4 DEF RequestTypes, Requests, Known
<1>5. CASE f.kind # "charge" /\ f.kind \notin BalanceCmd
  <2>1. state' = state /\ charge' = charge /\ balancing' = balancing
    BY <1>5 DEF UpdateFromFrame, Genuine
  <2>2. QED
    BY <2>1 DEF RequestTypes, Requests, Known
<1>6. QED
  BY <1>3, <1>4, <1>5

LEMMA ServeFrameStep == Inv /\ ServeFrame => Inv'
<1> SUFFICES ASSUME Inv, ServeFrame PROVE Inv'
  OBVIOUS
<1> DEFINE f == Head(queue)
<1>1. /\ pc = "wait" /\ queue # <<>> /\ queue' = Tail(queue) /\ left' = 0 /\ pc' = "poll"
      /\ UNCHANGED <<tick, late, slips, now2, scanLeft, hal, bus, sinceTry, faults, deaf, rx,
                     overrun>>
      /\ IF f.kind \in {"arm", "disarm"} THEN Command(f)
         ELSE UNCHANGED <<enabled, last, fifo>>
      /\ state' = UpdateFromFrame(state, f.kind, f.at)
      /\ charge' = Genuine(f, {"charge"}, charge, ChargeReqFreshMs)
      /\ balancing' = Genuine(f, BalanceCmd, balancing, BalanceOverrideFreshMs)
  BY DEF ServeFrame
<1>2. queue \in Seq(Frames) /\ Len(queue) <= QueueCap /\ LoopTypes /\ BusTypes
      /\ RequestTypes /\ Requests
  BY DEF Inv, Typed, QueueTypes
<1>3. f \in Frames /\ Tail(queue) \in Seq(Frames) /\ Len(Tail(queue)) = Len(queue) - 1
      /\ Len(queue) \in Nat
  BY <1>1, <1>2, HeadTailProperties, LenProperties
<1> HIDE DEF f
<1>4. \/ UNCHANGED <<enabled, last, fifo>>
      \/ /\ enabled' \in BOOLEAN /\ fifo' = Sent(1)
         /\ enabled' = enabled => last' = last
         /\ enabled' # enabled => last' = [last EXCEPT !["scan"] = Since(tick, Period["scan"])]
  BY <1>1 DEF Command
<1>5. tick \in Tick /\ last \in [Cadence -> Tick] /\ enabled \in BOOLEAN
  BY <1>2 DEF LoopTypes
<1>6. Since(tick, Period["scan"]) \in Tick
      /\ Since(tick, Since(tick, Period["scan"])) = Period["scan"]
  BY <1>5, SinceBack, FastAndScan
<1>7. last' \in [Cadence -> Tick] /\ enabled' \in BOOLEAN
  BY <1>4, <1>5, <1>6
<1>8. fifo' \in 0 .. FifoDepth
  <2>1. fifo \in 0 .. FifoDepth
    BY <1>2 DEF BusTypes
  <2>2. QED
    BY <1>2, <1>4, <2>1, SentType
<1>9. RequestTypes' /\ Requests'
  BY <1>1, <1>2, <1>3, ServiceKeeps
<1>10. Typed'
  <2>1. LoopTypes'
    BY <1>1, <1>2, <1>7, Constants DEF LoopTypes, Tick
  <2>2. BusTypes'
    BY <1>1, <1>2, <1>8 DEF BusTypes
  <2>3. QueueTypes'
    BY <1>1, <1>2, <1>3, Constants DEF Inv, Typed, QueueTypes
  <2>4. QED
    BY <1>9, <2>1, <2>2, <2>3 DEF Typed
<1>11. Poised' /\ Served' /\ Rested'
  BY <1>1 DEF Poised, Served, Rested, Passes
<1>12. \A c \in Cadence : c # "scan" => Elapsed(c)' = Elapsed(c)
  BY <1>1, <1>4, <1>5 DEF Elapsed
<1>13. Waiting'
  <2> SUFFICES ASSUME ~ overrun PROVE Waiting'
    BY <1>1 DEF Waiting, Waits
  <2>1. \A c \in Kept : Elapsed(c) <= Period[c] + TxFrames["scan"] + late
    BY <1>1 DEF Inv, Waiting, Waits
  <2>2. ASSUME NEW c \in Kept', c # "scan"
        PROVE  Elapsed(c)' <= Period[c] + TxFrames["scan"] + late
    BY <2>1, <2>2, <1>12 DEF Kept, Ecu, Cadence
  <2>3. ASSUME "scan" \in Kept'
        PROVE  Elapsed("scan")' <= Period["scan"] + TxFrames["scan"] + late
    <3>1. enabled' = TRUE
      BY <2>3, <1>7 DEF Kept, Ecu
    <3>2. CASE enabled' = enabled
      <4>1. last' = last
        BY <3>2, <1>4
      <4>2. "scan" \in Kept
        BY <3>1, <3>2, Cadences
      <4>3. Elapsed("scan")' = Elapsed("scan")
        BY <1>1, <4>1, ElapsedStays
      <4>4. QED
        BY <2>1, <4>2, <4>3
    <3>3. CASE enabled' # enabled
      <4>1. last'["scan"] = Since(tick, Period["scan"])
        BY <3>3, <1>4, <1>5, Cadences
      <4>2. Elapsed("scan")' = Period["scan"]
        BY <1>1, <1>6, <4>1 DEF Elapsed
      <4>3. late \in Nat
        BY <1>2, Cadences, Ages
      <4>4. QED
        BY <4>2, <4>3, FastAndScan
    <3>4. QED
      BY <3>2, <3>3
  <2>4. Rides'
    <3>1. Rides
      BY <1>1 DEF Inv, Waiting, Waits
    <3>2. Elapsed("health")' = Elapsed("health") /\ Elapsed("fast")' = Elapsed("fast")
      BY <1>12 DEF Cadence, Ecu
    <3>3. QED
      BY <3>1, <3>2 DEF Rides
  <2>5. \A c \in Kept' : Elapsed(c)' <= Period[c] + TxFrames["scan"] + late
    BY <2>2, <2>3
  <2>6. QED
    BY <1>1, <2>4, <2>5 DEF Waiting
<1>14. Recovering'
  <2>1. deaf \in Nat /\ left \in Nat /\ late \in Nat
    BY <1>2, Cadences, Ages, FastAndScan DEF BusTypes
  <2>2. QED
    BY <1>1, <2>1, Constants, FastAndScan DEF Inv, Recovering
<1>15. QED
  BY <1>9, <1>10, <1>11, <1>13, <1>14 DEF Inv

LEMMA RebootStep == Inv /\ Reboot => Inv'
<1> SUFFICES ASSUME Inv, Reboot PROVE Inv'
  OBVIOUS
<1>1. Booted'
  BY DEF Reboot, Booted, Inv, Typed, LoopTypes, BusTypes, QueueTypes
<1>2. QED
  BY <1>1, BootedNext

(* A step from the wait to the send, in which no tick passes and nothing   *)
(* is served or sent.                                                      *)
Polls ==
    /\ pc \in {"wait", "poll"} /\ pc' \in {"poll", "send"}
    /\ UNCHANGED <<tick, left, late, slips, last, enabled, scanLeft, queue, state, charge,
                   balancing, rx, overrun>>

LEMMA PollsOn ==
    ASSUME Inv, Polls, now2' \in Tick, pc' = "send" => now2' = tick, BusTypes', Recovering'
    PROVE  Inv'
<1>1. Typed'
  BY DEF Inv, Typed, LoopTypes, RequestTypes, QueueTypes, Polls
<1>2. Requests'
  BY RequestsStay DEF Inv, Polls, veh
<1>3. Poised' /\ Served' /\ Rested'
  BY DEF Polls, Poised, Served, Rested, Passes
<1>4. Waiting'
  <2>1. Kept' = Kept
    BY DEF Polls, Kept
  <2>2. tick' = tick /\ last' = last
    BY DEF Polls
  <2>3. QED
    BY <2>1, <2>2, ElapsedStays DEF Inv, Waiting, Waits, Polls
<1>5. QED
  BY <1>1, <1>2, <1>3, <1>4 DEF Inv

LEMMA WaitTimesOutStep == Inv /\ WaitTimesOut => Inv'
<1> SUFFICES ASSUME Inv, WaitTimesOut PROVE Inv'
  OBVIOUS
<1>1. Polls /\ pc = "wait" /\ pc' = "poll" /\ now2' = now2 /\ left = 0
      /\ UNCHANGED <<hal, fifo, bus, sinceTry, faults, deaf, overrun, late>>
  BY DEF WaitTimesOut, Polls, veh, busVars
<1>2. now2' \in Tick /\ BusTypes'
  BY <1>1 DEF Inv, Typed, LoopTypes, BusTypes
<1>3. Recovering'
  <2>1. deaf \in Nat /\ late \in Nat
    BY Cadences, Ages, FastAndScan DEF Inv, Typed, BusTypes
  <2>2. QED
    BY <1>1, <2>1, Constants, FastAndScan DEF Inv, Recovering
<1>4. QED
  BY <1>1, <1>2, <1>3, PollsOn

LEMMA PollSkipsStep == Inv /\ PollSkips => Inv'
<1> SUFFICES ASSUME Inv, PollSkips PROVE Inv'
  OBVIOUS
<1>1. Polls /\ pc' = "send" /\ now2' = tick /\ (bus = "up" \/ sinceTry < BusOffRetryMs)
      /\ UNCHANGED <<hal, fifo, bus, sinceTry, faults, deaf>>
  BY DEF PollSkips, PollDone, Polls, veh, busVars
<1>2. now2' \in Tick /\ BusTypes'
  BY <1>1 DEF Inv, Typed, LoopTypes, BusTypes
<1>3. Recovering'
  <2>1. deaf \in Nat /\ sinceTry \in Nat
    BY FastAndScan, Constants DEF Inv, Typed, BusTypes
  <2>2. QED
    BY <1>1, <2>1, Constants DEF Inv, Typed, BusTypes, Recovering
<1>4. QED
  BY <1>1, <1>2, <1>3, PollsOn

LEMMA RecoverStep == Inv /\ Recover => Inv'
<1> SUFFICES ASSUME Inv, Recover PROVE Inv'
  OBVIOUS
<1>1. Polls /\ pc' = "send" /\ now2' = tick
  BY DEF Recover, PollDone, Polls, veh
<1>2. hal' = "busy" /\ bus' = "up" /\ sinceTry' = 0 /\ fifo' \in {0, fifo}
      /\ UNCHANGED <<faults, deaf>>
  BY DEF Inv, Typed, BusTypes, Recover, Stopped
<1>3. now2' \in Tick /\ BusTypes'
  BY <1>1, <1>2, Constants DEF Inv, Typed, LoopTypes, BusTypes
<1>4. Recovering'
  BY <1>2 DEF Recovering
<1>5. QED
  BY <1>1, <1>3, <1>4, PollsOn

LEMMA RecoverFailsStep == Inv /\ RecoverFails => Inv'
<1> SUFFICES ASSUME Inv, RecoverFails PROVE Inv'
  OBVIOUS
<1>1. Polls /\ pc' = "send" /\ now2' = tick
  BY DEF RecoverFails, PollDone, Polls, veh
<1>2. hal' = "ready" /\ sinceTry' = 0 /\ deaf' = 0 /\ UNCHANGED <<fifo, bus, faults>>
  BY DEF RecoverFails, Unlatched
<1>3. now2' \in Tick /\ BusTypes'
  BY <1>1, <1>2, Constants, FastAndScan DEF Inv, Typed, LoopTypes, BusTypes
<1>4. Recovering'
  BY <1>1, <1>2, Constants DEF Recovering
<1>5. QED
  BY <1>1, <1>3, <1>4, PollsOn

-----------------------------------------------------------------------------
(* From the send to the top of the pass.                                   *)

LEMMA SendStep == Inv /\ Send => Inv'
<1> SUFFICES ASSUME Inv, Send PROVE Inv'
  OBVIOUS
<1> DEFINE due == {c \in Ecu : Due(now2, c)}
<1>1. /\ pc = "send" /\ fifo' = Sent(FramesOf(due)) /\ overrun' = FALSE
      /\ last' = [c \in Cadence |-> IF c \in due THEN now2 ELSE last[c]]
      /\ UNCHANGED <<tick, left, late, slips, now2, enabled, queue, state, charge, balancing, hal,
                     bus, sinceTry, faults, deaf, rx>>
  BY DEF Send, veh
<1>2. \/ enabled /\ Due(now2, "scan") /\ pc' = "scan" /\ scanLeft' = TxFrames["scan"]
      \/ ~ (enabled /\ Due(now2, "scan")) /\ pc' = "health" /\ scanLeft' = scanLeft
  BY DEF Send
<1>3. LoopTypes /\ BusTypes /\ now2 = tick /\ tick \in Tick /\ tick \in Nat
  BY <1>1 DEF Inv, Typed, LoopTypes, Poised, Tick
<1>4. \A c \in Cadence : last[c] \in Tick
  BY <1>3 DEF LoopTypes
<1>5. fifo' \in 0 .. FifoDepth
  BY <1>1, <1>3, SentType, FramesType
<1>6. \A c \in Cadence : last'[c] = IF c \in due THEN tick ELSE last[c]
  BY <1>1, <1>3
<1>7. \A c \in Cadence : ~ Due(now2, c) => Since(tick, last[c]) < Period[c]
  <2> SUFFICES ASSUME NEW c \in Cadence, ~ Due(now2, c)
               PROVE  Since(tick, last[c]) < Period[c]
    OBVIOUS
  <2>1. Since(tick, last[c]) \in Nat /\ Period[c] \in Nat
    BY <1>3, <1>4, SinceType, Periods
  <2>2. QED
    BY <1>3, <2>1 DEF Due
<1>8. \A c \in Cadence : Period[c] > 0
  BY Periods
<1>9. Since(tick, tick) = 0
  BY <1>3, SinceSelf
<1>10. Typed'
  <2>1. last' \in [Cadence -> Tick]
    BY <1>1, <1>3, <1>4
  <2>2. scanLeft' \in 0 .. TxFrames["scan"] /\ pc' \in {"scan", "health"}
    BY <1>2, <1>3, FastAndScan DEF LoopTypes
  <2>3. LoopTypes'
    BY <1>1, <1>3, <2>1, <2>2 DEF LoopTypes
  <2>4. QED
    BY <1>1, <1>3, <1>5, <2>3 DEF Inv, Typed, BusTypes, RequestTypes, QueueTypes
<1>11. Requests'
  BY <1>1, RequestsStay DEF Inv, veh
<1>12. Poised'
  BY <1>1, <1>2, <1>3, FastAndScan DEF Poised, Passes
<1>13. Served'
  <2>1. \A c \in Ecu : Since(now2', last'[c]) < Period[c]
    <3> SUFFICES ASSUME NEW c \in Ecu PROVE Since(now2', last'[c]) < Period[c]
      OBVIOUS
    <3>1. c \in Cadence
      BY Cadences
    <3>2. CASE c \in due
      BY <3>1, <3>2, <1>1, <1>3, <1>6, <1>8, <1>9
    <3>3. CASE c \notin due
      BY <3>1, <3>3, <1>1, <1>3, <1>6, <1>7
    <3>4. QED
      BY <3>2, <3>3
  <2>2. ASSUME pc' = "health", enabled' PROVE Since(now2', last'["scan"]) < Period["scan"]
    <3>1. ~ Due(now2, "scan") /\ "scan" \in Cadence /\ "scan" \notin due
      BY <2>2, <1>1, <1>2, Cadences
    <3>2. QED
      BY <3>1, <1>1, <1>3, <1>6, <1>7
  <2>3. Since(tick', now2') <= ScanTime'
    <3>1. Since(tick', now2') = 0
      BY <1>1, <1>3, <1>9
    <3>2. ScanTime' >= 0
      BY <1>2, FastAndScan DEF ScanTime
    <3>3. QED
      BY <3>1, <3>2
  <2>4. QED
    BY <2>1, <2>2, <2>3 DEF Served
<1>14. Rested' /\ Waiting'
  BY <1>2 DEF Rested, Waiting, Waits
<1>15. Recovering'
  BY <1>1, <1>2 DEF Inv, Recovering
<1>16. QED
  BY <1>10, <1>11, <1>12, <1>13, <1>14, <1>15 DEF Inv

LEMMA ScanFrameStep == Inv /\ ScanFrame => Inv'
<1> SUFFICES ASSUME Inv, ScanFrame PROVE Inv'
  OBVIOUS
<1>1. /\ pc = "scan" /\ ScanRoom /\ fifo' = Sent(1) /\ scanLeft' = scanLeft - 1
      /\ UNCHANGED <<tick, left, late, slips, now2, enabled, queue, state, charge, balancing, hal,
                     bus, sinceTry, faults, deaf, rx, overrun>>
  BY DEF ScanFrame, veh
<1>2. \/ scanLeft = 1 /\ pc' = "health" /\ last' = [last EXCEPT !["scan"] = now2]
      \/ scanLeft # 1 /\ pc' = "scan" /\ last' = last
  BY DEF ScanFrame
<1>3. LoopTypes /\ BusTypes /\ scanLeft > 0
  BY <1>1 DEF Inv, Typed, Poised
<1>4. scanLeft \in 1 .. TxFrames["scan"] /\ now2 \in Tick /\ last \in [Cadence -> Tick]
      /\ Since(tick, now2) \in Nat
  BY <1>3, FastAndScan, Cadences, Ages DEF LoopTypes
<1>5. fifo' \in 0 .. FifoDepth
  BY <1>1, <1>3, SentType
<1>6. Typed'
  <2>1. last' \in [Cadence -> Tick] /\ scanLeft' \in 0 .. TxFrames["scan"]
    BY <1>1, <1>2, <1>4, FastAndScan
  <2>2. LoopTypes'
    BY <1>1, <1>2, <1>3, <2>1 DEF LoopTypes
  <2>3. QED
    BY <1>1, <1>3, <1>5, <2>2 DEF Inv, Typed, BusTypes, RequestTypes, QueueTypes
<1>7. Requests'
  BY <1>1, RequestsStay DEF Inv, veh
<1>8. Poised'
  BY <1>1, <1>2, <1>4, FastAndScan DEF Inv, Poised, Passes
<1>9. Served'
  <2>1. \A c \in Ecu : last'[c] = last[c]
    BY <1>2, <1>4, Cadences
  <2>2. pc' = "health" => last'["scan"] = now2
    BY <1>2, <1>4, Cadences
  <2>3. Since(now2, now2) = 0
    BY <1>4, SinceSelf
  <2>4. Since(tick, now2) <= TxFrames["scan"] - scanLeft + 1
    BY <1>1 DEF Inv, Served, Passes, Moving, ScanTime
  <2>5. Since(tick, now2) <= ScanTime'
    BY <1>1, <1>2, <1>4, <2>4, FastAndScan DEF ScanTime
  <2>6. QED
    BY <1>1, <1>2, <2>1, <2>2, <2>3, <2>5, FastAndScan DEF Inv, Served, Passes
<1>10. Rested' /\ Waiting'
  BY <1>2 DEF Rested, Waiting, Waits
<1>11. Recovering'
  BY <1>1, <1>2 DEF Inv, Recovering
<1>12. QED
  BY <1>6, <1>7, <1>8, <1>9, <1>10, <1>11 DEF Inv

(* What was served in the period before now2 has a deadline ahead.         *)
LEMMA ServedIsAhead ==
    ASSUME NEW t \in Tick, NEW n \in Tick, NEW u \in Tick, NEW p \in Nat,
           n <= t, Since(n, u) < p
    PROVE  u <= t \/ u + p >= Wrap
BY Constants DEF Since, Tick

LEMMA HealthStep == Inv /\ Health => Inv'
<1> SUFFICES ASSUME Inv, Health PROVE Inv'
  OBVIOUS
<1>1. /\ pc = "health" /\ pc' = "top" /\ late' = 0 /\ now2' = 0
      /\ UNCHANGED <<tick, left, slips, enabled, scanLeft, queue, state, charge, balancing, hal,
                     bus, sinceTry, faults, deaf, rx, overrun>>
  BY DEF Health, veh
<1>2. \/ /\ Due(now2, "health") /\ fifo' = Sent(TxFrames["health"])
         /\ last' = [last EXCEPT !["health"] = now2]
      \/ ~ Due(now2, "health") /\ fifo' = fifo /\ last' = last
  BY DEF Health
<1>3. LoopTypes /\ BusTypes /\ now2 \in Tick /\ tick \in Tick /\ last \in [Cadence -> Tick]
  BY DEF Inv, Typed, LoopTypes
<1>4. TxFrames["health"] \in Nat /\ "health" \in Cadence
  BY Cadences, Periods
<1>5. Typed'
  <2>1. last' \in [Cadence -> Tick] /\ 0 \in Tick /\ 0 \in 0 .. Latency
    BY <1>2, <1>3, Constants DEF Tick
  <2>2. LoopTypes'
    BY <1>1, <1>3, <2>1 DEF LoopTypes
  <2>3. fifo' \in 0 .. FifoDepth
    BY <1>2, <1>3, <1>4, SentType DEF BusTypes
  <2>4. QED
    BY <1>1, <1>3, <2>2, <2>3 DEF Inv, Typed, BusTypes, RequestTypes, QueueTypes
<1>6. Requests'
  BY <1>1, RequestsStay DEF Inv, veh
<1>7. Poised' /\ Served' /\ Waiting'
  BY <1>1 DEF Poised, Served, Passes, Waiting, Waits
<1>8. /\ \A c \in Kept : Since(now2, last[c]) < Period[c]
      /\ Since(tick, now2) <= TxFrames["scan"]
  BY <1>1, Cadences DEF Inv, Served, Passes, Moving, ScanTime
<1>9. \A c \in Cadence : c # "health" => last'[c] = last[c] /\ Elapsed(c)' = Elapsed(c)
  BY <1>1, <1>2, <1>3 DEF Elapsed
<1>10. \A c \in Cadence :
           /\ Since(now2, last[c]) \in Nat /\ Elapsed(c) \in Nat
           /\ Elapsed(c) <= Since(now2, last[c]) + Since(tick, now2)
           /\ Since(now2, last[c]) + Since(tick, now2) < Wrap =>
                  Elapsed(c) = Since(now2, last[c]) + Since(tick, now2)
  <2> SUFFICES ASSUME NEW c \in Cadence
               PROVE  /\ Since(now2, last[c]) \in Nat /\ Elapsed(c) \in Nat
                      /\ Elapsed(c) <= Since(now2, last[c]) + Since(tick, now2)
                      /\ Since(now2, last[c]) + Since(tick, now2) < Wrap =>
                             Elapsed(c) = Since(now2, last[c]) + Since(tick, now2)
    OBVIOUS
  <2>1. last[c] \in Tick
    BY <1>3
  <2>2. QED
    BY <1>3, <2>1, SinceAdds, Ages DEF Elapsed
<1>11. Since(tick, now2) \in Nat
  BY <1>3, SinceType
<1>12. ASSUME NEW c \in Kept
       PROVE  Elapsed(c)' < Period[c] + TxFrames["scan"] /\ (~ overrun => Ahead(c)')
  <2>1. c \in Cadence /\ c # "health"
    BY Cadences
  <2>2. Elapsed(c)' = Elapsed(c) /\ last'[c] = last[c] /\ last[c] \in Tick /\ Period[c] \in Nat
    BY <2>1, <1>3, <1>9, Periods
  <2>3. Elapsed(c) < Period[c] + TxFrames["scan"]
    BY <2>1, <2>2, <1>8, <1>10, <1>11, FastAndScan
  <2>4. ASSUME ~ overrun PROVE Ahead(c)'
    <3>1. now2 <= tick /\ Since(now2, last[c]) < Period[c]
      BY <2>4, <1>1, <1>8 DEF Inv, Poised, Passes
    <3>2. last[c] <= tick \/ last[c] + Period[c] >= Wrap
      BY <3>1, <1>3, <2>2, ServedIsAhead
    <3>3. QED
      BY <3>2, <2>2, <1>1 DEF Ahead
  <2>5. QED
    BY <2>2, <2>3, <2>4
<1>13. Rides'
  <2>1. Elapsed("fast")' >= Since(tick, now2)
    <3>1. Since(now2, last["fast"]) < Period["fast"]
      BY <1>8, Cadences
    <3>2. Elapsed("fast") = Since(now2, last["fast"]) + Since(tick, now2)
      BY <3>1, <1>8, <1>10, <1>11, Cadences, FastAndScan, Constants
    <3>3. QED
      BY <3>2, <1>9, <1>10, <1>11, Cadences
  <2>2. CASE Due(now2, "health")
    <3>1. last'["health"] = now2
      BY <2>2, <1>2, <1>3, <1>4
    <3>2. Elapsed("health")' = Since(tick, now2)
      BY <3>1, <1>1 DEF Elapsed
    <3>3. Elapsed("fast")' \in Nat
      BY <1>9, <1>10, Cadences
    <3>4. QED
      BY <2>1, <3>2, <3>3, <1>11, FastAndScan DEF Rides
  <2>3. CASE ~ Due(now2, "health")
    <3>1. Elapsed("health")' = Elapsed("health")
      BY <2>3, <1>1, <1>2, ElapsedStays
    <3>2. Since(now2, last["health"]) < Period["health"]
      BY <2>3, <1>4, <1>10, FastAndScan DEF Due
    <3>3. Elapsed("fast")' \in Nat
      BY <1>9, <1>10, Cadences
    <3>4. QED
      BY <2>1, <3>1, <3>2, <3>3, <1>4, <1>10, <1>11, FastAndScan DEF Rides
  <2>4. QED
    BY <2>2, <2>3
<1>14. Rested'
  <2>1. Kept' = Kept
    BY <1>1 DEF Kept
  <2>2. \A c \in Kept : Elapsed(c)' < Period[c] + TxFrames["scan"] + late'
    <3> SUFFICES ASSUME NEW c \in Kept
                 PROVE  Elapsed(c)' < Period[c] + TxFrames["scan"] + late'
      OBVIOUS
    <3>1. Period[c] + TxFrames["scan"] + 0 = Period[c] + TxFrames["scan"]
      BY Cadences, Periods, FastAndScan
    <3>2. QED
      BY <3>1, <1>1, <1>12
  <2>3. ~ overrun' => \A c \in Kept : Ahead(c)'
    BY <1>1, <1>12
  <2>4. QED
    BY <2>1, <2>2, <2>3, <1>13 DEF Rested
<1>15. Recovering'
  <2>1. Elapsed("fast")' \in Nat /\ deaf \in Nat
    BY <1>3, <1>9, <1>10, Cadences, FastAndScan DEF BusTypes
  <2>2. QED
    BY <1>1, <2>1, Constants DEF Inv, Recovering
<1>16. QED
  BY <1>5, <1>6, <1>7, <1>14, <1>15 DEF Inv

-----------------------------------------------------------------------------
(* The tick, the bus and the other nodes.                                  *)

(* A request grows older, and the tick may wrap.                           *)
LEMMA OlderKnown ==
    ASSUME NEW fresh \in Nat, fresh < Wrap, NEW then \in Tick, tick \in Tick,
           NEW h \in [age : 0 .. fresh + 1, wrapped : BOOLEAN], Known(h, then, fresh),
           tick' = Plus(tick, 1)
    PROVE  /\ Older(h, fresh) \in [age : 0 .. fresh + 1, wrapped : BOOLEAN]
           /\ LET g == Older(h, fresh)
              IN  /\ g.age <= fresh => Since(tick', then) = g.age
                  /\ ~ g.wrapped /\ then # 0 =>
                         /\ then <= tick'
                         /\ g.age = IF tick' - then <= fresh THEN tick' - then ELSE fresh + 1
<1> DEFINE g == Older(h, fresh)
           s == Since(tick, then)
<1>1. h.age \in 0 .. fresh + 1 /\ h.wrapped \in BOOLEAN
  OBVIOUS
<1>2. g.age = (IF h.age < fresh + 1 THEN h.age + 1 ELSE fresh + 1)
      /\ g.wrapped = (h.wrapped \/ tick = Wrap - 1)
  BY DEF Older, Until
<1>3. g \in [age : 0 .. fresh + 1, wrapped : BOOLEAN]
  <2>1. (IF h.age < fresh + 1 THEN h.age + 1 ELSE fresh + 1) \in 0 .. fresh + 1
    BY <1>1
  <2>2. QED
    BY <2>1, <1>1 DEF Older, Until
<1>4. s \in Nat /\ s < Wrap /\ tick \in Nat /\ then \in Nat /\ tick < Wrap
  BY SinceType, Constants DEF Tick
<1>5. Since(tick', then) = IF s = Wrap - 1 THEN 0 ELSE s + 1
  BY SinceStep
<1>6. ASSUME g.age <= fresh PROVE Since(tick', then) = g.age
  <2>1. h.age < fresh /\ g.age = h.age + 1
    BY <1>6, <1>1, <1>2
  <2>2. s = h.age
    BY <2>1, <1>1 DEF Known
  <2>3. s # Wrap - 1
    BY <2>1, <2>2, <1>1, Constants
  <2>4. QED
    BY <1>5, <2>1, <2>2, <2>3
<1>7. ASSUME ~ g.wrapped, then # 0
      PROVE  then <= tick' /\ g.age = IF tick' - then <= fresh THEN tick' - then ELSE fresh + 1
  <2>1. ~ h.wrapped /\ tick # Wrap - 1
    BY <1>2, <1>7
  <2>2. tick' = tick + 1
    BY <2>1, <1>4, Constants DEF Plus
  <2>3. then <= tick /\ h.age = IF tick - then <= fresh THEN tick - then ELSE fresh + 1
    BY <2>1, <1>7 DEF Known
  <2>4. tick' - then = (tick - then) + 1 /\ then <= tick'
    BY <2>2, <2>3, <1>4
  <2>5. tick - then \in Nat
    BY <2>3, <1>4
  <2>6. CASE tick - then < fresh
    BY <2>3, <2>4, <2>5, <2>6, <1>2
  <2>7. CASE tick - then >= fresh
    BY <2>3, <2>4, <2>5, <2>7, <1>2
  <2>8. QED
    BY <2>5, <2>6, <2>7
<1>8. QED
  BY <1>3, <1>6, <1>7

LEMMA ElapseRequests ==
    ASSUME LoopTypes, RequestTypes, Requests, tick' = Plus(tick, 1), state' = state,
           charge' = Older(charge, ChargeReqFreshMs),
           balancing' = Older(balancing, BalanceOverrideFreshMs)
    PROVE  RequestTypes' /\ Requests'
<1>1. tick \in Tick /\ state.chargeTick \in Tick /\ state.balanceTick \in Tick
  BY DEF LoopTypes, RequestTypes, VehicleState
<1>2. /\ charge \in [age : 0 .. ChargeReqFreshMs + 1, wrapped : BOOLEAN]
      /\ balancing \in [age : 0 .. BalanceOverrideFreshMs + 1, wrapped : BOOLEAN]
      /\ Known(charge, state.chargeTick, ChargeReqFreshMs)
      /\ Known(balancing, state.balanceTick, BalanceOverrideFreshMs)
  BY DEF RequestTypes, Requests
<1>3. charge' \in [age : 0 .. ChargeReqFreshMs + 1, wrapped : BOOLEAN]
      /\ Known(charge, state.chargeTick, ChargeReqFreshMs)'
  BY <1>1, <1>2, OlderKnown, Constants DEF Known
<1>4. balancing' \in [age : 0 .. BalanceOverrideFreshMs + 1, wrapped : BOOLEAN]
      /\ Known(balancing, state.balanceTick, BalanceOverrideFreshMs)'
  BY <1>1, <1>2, OlderKnown, Constants DEF Known
<1>5. QED
  BY <1>3, <1>4 DEF RequestTypes, Requests

LEMMA ElapseStep == Inv /\ Elapse => Inv'
<1> SUFFICES ASSUME Inv, Elapse PROVE Inv'
  OBVIOUS
<1> DEFINE Sleeps == pc = "wait" /\ queue = <<>> /\ (left > 0 \/ Spins) /\ late' = late
                     /\ slips' = slips
           Blocks == pc = "scan" /\ ~ ScanRoom /\ late' = late /\ slips' = slips
           Slips == pc \in {"top", "wait"} /\ late < Latency /\ slips < MaxSlips
                    /\ late' = late + 1 /\ slips' = slips + 1
<1>1. Sleeps \/ Blocks \/ Slips
  BY DEF Elapse
<1>2. /\ left' = (IF left > 0 THEN left - 1 ELSE 0) /\ tick' = Plus(tick, 1)
      /\ fifo' \in (IF bus = "up" /\ fifo > 0 THEN 0 .. fifo - 1 ELSE {fifo})
      /\ sinceTry' = Until(sinceTry, BusOffRetryMs)
      /\ overrun' = (overrun \/ (tick = Wrap - 1 /\ pc # "wait"))
      /\ deaf' = (IF bus = "off" THEN Until(deaf, DeafCap) ELSE 0)
      /\ charge' = Older(charge, ChargeReqFreshMs)
      /\ balancing' = Older(balancing, BalanceOverrideFreshMs)
      /\ UNCHANGED <<pc, now2, last, enabled, scanLeft, queue, state, hal, bus, rx, faults>>
  BY DEF Elapse
<1>3. /\ LoopTypes /\ BusTypes /\ tick \in Tick /\ tick \in Nat /\ left \in Nat /\ left < Wrap
      /\ late \in Nat /\ late <= Latency /\ slips \in 0 .. MaxSlips
      /\ fifo \in Nat /\ fifo <= FifoDepth /\ deaf \in Nat /\ deaf <= DeafCap
      /\ sinceTry \in Nat /\ sinceTry <= BusOffRetryMs /\ scanLeft \in Nat
      /\ overrun \in BOOLEAN /\ now2 \in Tick
  <2>1. LoopTypes /\ BusTypes
    BY DEF Inv, Typed
  <2>2. tick \in Tick /\ left \in Tick /\ slips \in 0 .. MaxSlips /\ overrun \in BOOLEAN
        /\ now2 \in Tick
    BY <2>1 DEF LoopTypes
  <2>3. tick \in Nat /\ left \in Nat /\ left < Wrap
    BY <2>2, Constants DEF Tick
  <2>4. fifo \in Nat /\ fifo <= FifoDepth /\ deaf \in Nat /\ deaf <= DeafCap
        /\ sinceTry \in Nat /\ sinceTry <= BusOffRetryMs
    BY <2>1, Constants, FastAndScan DEF BusTypes
  <2>5. QED
    BY <2>1, <2>2, <2>3, <2>4, Ages, Cadences
<1>4. tick' \in Tick /\ (tick # Wrap - 1 => tick' = tick + 1)
  BY <1>2, <1>3, PlusType, Constants DEF Plus, Tick
<1>5. late' \in Nat /\ late' <= Latency /\ late' >= late /\ slips' \in 0 .. MaxSlips
      /\ (Slips => late' = late + 1)
  BY <1>1, <1>3, Constants
<1>6. fifo' \in 0 .. FifoDepth
  BY <1>2, <1>3, Constants
<1>7. /\ deaf' \in Nat /\ deaf' <= DeafCap /\ deaf' <= deaf + 1
      /\ sinceTry' \in Nat /\ sinceTry' <= BusOffRetryMs
      /\ sinceTry' = sinceTry + 1 \/ sinceTry' = BusOffRetryMs
      /\ left' \in Nat /\ left' < Wrap
  BY <1>2, <1>3, Constants, FastAndScan DEF Until
<1>8. Typed' /\ Requests'
  <2>1. LoopTypes'
    BY <1>2, <1>3, <1>4, <1>5, <1>7, Constants DEF LoopTypes, Tick
  <2>2. BusTypes'
    BY <1>2, <1>3, <1>6, <1>7, Constants, FastAndScan DEF BusTypes
  <2>3. RequestTypes' /\ Requests'
    BY <1>2, ElapseRequests DEF Inv, Typed
  <2>4. QED
    BY <1>2, <2>1, <2>2, <2>3 DEF Inv, Typed, QueueTypes
<1>9. \A c \in Cadence :
          /\ Elapsed(c) \in Nat /\ Elapsed(c)' \in Nat
          /\ Elapsed(c)' = IF Elapsed(c) = Wrap - 1 THEN 0 ELSE Elapsed(c) + 1
          /\ Elapsed(c)' <= Elapsed(c) + 1
  <2> SUFFICES ASSUME NEW c \in Cadence
               PROVE  /\ Elapsed(c) \in Nat /\ Elapsed(c)' \in Nat
                      /\ Elapsed(c)' = IF Elapsed(c) = Wrap - 1 THEN 0 ELSE Elapsed(c) + 1
                      /\ Elapsed(c)' <= Elapsed(c) + 1
    OBVIOUS
  <2>1. Elapsed(c) \in Nat /\ last[c] \in Tick
    BY <1>3, Ages
  <2>2. Elapsed(c)' = IF Elapsed(c) = Wrap - 1 THEN 0 ELSE Elapsed(c) + 1
    BY <1>2, <1>3, <2>1, SinceStep DEF Elapsed
  <2>3. QED
    BY <2>1, <2>2
<1>10. Poised'
  <2> SUFFICES ASSUME pc = "scan" PROVE Poised'
    BY <1>1, <1>2 DEF Poised, Passes
  <2>1. scanLeft' > 0
    BY <1>2 DEF Inv, Poised
  <2>2. ASSUME ~ overrun' PROVE now2' <= tick'
    <3>1. ~ overrun /\ tick' = tick + 1
      BY <2>2, <1>2, <1>4
    <3>2. now2 <= tick /\ now2 \in Nat
      BY <3>1, <1>3 DEF Inv, Poised, Passes, Tick
    <3>3. QED
      BY <3>1, <3>2, <1>2, <1>3
  <2>3. QED
    BY <2>1, <2>2, <1>2 DEF Poised, Passes
<1>11. Kept' = Kept /\ Kept \subseteq Cadence /\ "fast" \in Kept /\ "health" \in Cadence
       /\ "fast" \in Cadence
  <2>1. Kept' = Kept
    BY <1>2 DEF Kept
  <2>2. QED
    BY <2>1, Cadences
<1>12. \A c \in Kept : Period[c] \in Nat /\ Period[c] < Wrap
  BY <1>11, Periods
<1>13. Served'
  <2> SUFFICES ASSUME Passes PROVE Served'
    BY <1>2 DEF Served, Passes
  <2>1. Blocks
    BY <1>1 DEF Passes
  <2>2. \A c \in Ecu : Since(now2', last'[c]) < Period[c]
    BY <1>2 DEF Inv, Served
  <2>3. ASSUME Moving' PROVE Since(tick', now2') <= ScanTime'
    <3>1. bus = "up"
      BY <2>1, <2>3, <1>2, <1>3 DEF Moving, ScanRoom
    <3>2. Since(tick, now2) <= TxFrames["scan"] - scanLeft
      BY <2>1, <3>1, <1>3, FastAndScan DEF Inv, Served, Moving, ScanTime
    <3>3. fifo' < FifoDepth
      BY <2>1, <3>1, <1>2, <1>3, Constants DEF ScanRoom
    <3>4. ScanTime' = TxFrames["scan"] - scanLeft + 1
      BY <2>1, <3>3, <1>2 DEF ScanTime, ScanRoom
    <3>5. Since(tick, now2) \in Nat
          /\ Since(tick', now2) = IF Since(tick, now2) = Wrap - 1 THEN 0 ELSE Since(tick, now2) + 1
      BY <1>2, <1>3, SinceType, SinceStep
    <3>6. Since(tick', now2) <= TxFrames["scan"] - scanLeft + 1
      BY <3>2, <3>5, <1>3, FastAndScan
    <3>7. QED
      BY <3>4, <3>6, <1>2
  <2>4. QED
    BY <2>1, <2>2, <2>3, <1>2 DEF Served
<1>14. ASSUME Elapsed("fast") # Wrap - 1, Rides
       PROVE  Rides'
  BY <1>9, <1>11, <1>14, FastAndScan DEF Rides
<1>15. ASSUME pc = "top"
       PROVE  Slips /\ Elapsed("fast") # Wrap - 1
  <2>1. Slips
    BY <1>1, <1>15
  <2>2. Elapsed("fast") < Period["fast"] + TxFrames["scan"] + late
    BY <1>11, <1>15 DEF Inv, Rested
  <2>3. QED
    BY <2>1, <2>2, <1>3, <1>9, <1>11, FastAndScan, Constants
<1>16. Rested'
  <2> SUFFICES ASSUME pc = "top" PROVE Rested'
    BY <1>2 DEF Rested
  <2>1. ASSUME NEW c \in Kept
        PROVE  Elapsed(c)' < Period[c] + TxFrames["scan"] + late'
    <3>1. Elapsed(c) < Period[c] + TxFrames["scan"] + late
      BY DEF Inv, Rested
    <3>2. QED
      BY <3>1, <1>3, <1>5, <1>9, <1>11, <1>12, <1>15, FastAndScan
  <2>2. ASSUME ~ overrun', NEW c \in Kept
        PROVE  Ahead(c)'
    <3>1. ~ overrun /\ tick' = tick + 1
      BY <2>2, <1>2, <1>4
    <3>2. Ahead(c)
      BY <3>1 DEF Inv, Rested
    <3>3. last[c] \in Nat
      BY <1>3, <1>11, Ages
    <3>4. QED
      BY <3>1, <3>2, <3>3, <1>2, <1>3 DEF Ahead
  <2>3. Rides'
    BY <1>14, <1>15 DEF Inv, Rested
  <2>4. QED
    BY <2>1, <2>2, <2>3, <1>11 DEF Rested
<1>17. ASSUME Sleeps, left = 0, NEW c \in Kept
       PROVE  Elapsed(c) < Period[c]
  <2>1. Spins
    BY <1>17
  <2>2. ~ Due(tick, c)
    <3>1. c \in Cadence /\ (c # "scan" \/ enabled)
      BY <1>11, Cadences
    <3>2. QED
      BY <2>1, <3>1 DEF Spins
  <2>3. Elapsed(c) \in Nat /\ Period[c] \in Nat
    BY <1>9, <1>11, <1>12
  <2>4. QED
    BY <2>2, <2>3 DEF Due, Elapsed
<1>18. ASSUME pc = "wait", ~ overrun, left > 0, NEW c \in Kept
       PROVE  Elapsed(c) + left <= Period[c]
  BY <1>18 DEF Inv, Waiting, Waits
<1>19. ASSUME pc = "wait", ~ overrun
       PROVE  Elapsed("fast") # Wrap - 1
  <2>1. CASE left > 0
    BY <2>1, <1>3, <1>9, <1>11, <1>18, <1>19, FastAndScan, Constants
  <2>2. CASE left = 0 /\ Sleeps
    BY <2>2, <1>9, <1>11, <1>17, FastAndScan, Constants
  <2>3. CASE Slips
    <3>1. Elapsed("fast") <= Period["fast"] + TxFrames["scan"] + late
      BY <1>11, <1>19 DEF Inv, Waiting, Waits
    <3>2. QED
      BY <2>3, <3>1, <1>3, <1>9, <1>11, FastAndScan, Constants
  <2>4. QED
    BY <2>1, <2>2, <2>3, <1>1, <1>3, <1>19
<1>20. Waiting'
  <2> SUFFICES ASSUME pc = "wait", ~ overrun PROVE Waiting'
    <3>1. Waits' => pc = "wait" /\ ~ overrun
      BY <1>1, <1>2 DEF Waits
    <3>2. QED
      BY <3>1 DEF Waiting
  <2>1. ASSUME NEW c \in Kept
        PROVE  Elapsed(c)' <= Period[c] + TxFrames["scan"] + late'
    <3>1. Elapsed(c) <= Period[c] + TxFrames["scan"] + late
      BY DEF Inv, Waiting, Waits
    <3>2. CASE left > 0
      <4>1. Elapsed(c) + left <= Period[c]
        BY <3>2, <1>18
      <4>2. Elapsed(c) \in Nat /\ Elapsed(c)' \in Nat /\ Elapsed(c)' <= Elapsed(c) + 1
            /\ Period[c] \in Nat
        BY <1>9, <1>11, <1>12
      <4>3. Elapsed(c)' <= Period[c]
        BY <4>1, <4>2, <3>2, <1>3
      <4>4. QED
        BY <4>2, <4>3, <1>5, FastAndScan
    <3>3. CASE left = 0 /\ Sleeps
      <4>1. Elapsed(c) < Period[c]
        BY <3>3, <1>17
      <4>2. Elapsed(c) \in Nat /\ Elapsed(c)' \in Nat /\ Elapsed(c)' <= Elapsed(c) + 1
            /\ Period[c] \in Nat
        BY <1>9, <1>11, <1>12
      <4>3. QED
        BY <4>1, <4>2, <1>5, FastAndScan
    <3>4. CASE Slips
      BY <3>1, <3>4, <1>3, <1>5, <1>9, <1>11, <1>12, FastAndScan
    <3>5. QED
      BY <3>2, <3>3, <3>4, <1>1, <1>3
  <2>2. ASSUME left' > 0, NEW c \in Kept
        PROVE  Elapsed(c)' + left' <= Period[c]
    <3>1. left > 0 /\ left' = left - 1
      BY <2>2, <1>2, <1>3
    <3>2. QED
      BY <3>1, <1>3, <1>9, <1>11, <1>12, <1>18
  <2>3. Rides'
    BY <1>14, <1>19 DEF Inv, Waiting, Waits
  <2>4. QED
    BY <2>1, <2>2, <2>3, <1>2, <1>11 DEF Waiting
<1>21. Recovering'
  <2> SUFFICES ASSUME bus = "off" PROVE Recovering'
    BY <1>2 DEF Recovering
  <2>1. deaf' <= sinceTry' \/ sinceTry' = BusOffRetryMs
    BY <1>3, <1>7 DEF Inv, Recovering
  <2>2. pc = "scan" => ~ ScanRoom'
    BY <1>1, <1>2 DEF ScanRoom
  <2>3. ASSUME pc = "top"
        PROVE  deaf' < BusOffRetryMs + late' /\ deaf' < BusOffRetryMs + Elapsed("fast")'
    <3>1. deaf < BusOffRetryMs + late /\ deaf < BusOffRetryMs + Elapsed("fast")
      BY <2>3 DEF Inv, Recovering
    <3>2. QED
      BY <2>3, <3>1, <1>3, <1>5, <1>7, <1>9, <1>11, <1>15, Constants
  <2>4. ASSUME pc = "wait", ~ overrun
        PROVE  /\ deaf' < BusOffRetryMs + Elapsed("fast")'
               /\ deaf' + left' < BusOffRetryMs + Period["fast"] + late'
    <3>1. deaf < BusOffRetryMs + Elapsed("fast")
          /\ deaf + left < BusOffRetryMs + Period["fast"] + late
      BY <2>4 DEF Inv, Recovering
    <3>2. Elapsed("fast")' = Elapsed("fast") + 1
      BY <2>4, <1>9, <1>11, <1>19
    <3>3. CASE left > 0
      BY <3>1, <3>2, <3>3, <1>2, <1>3, <1>5, <1>7, <1>9, <1>11, Constants, FastAndScan
    <3>4. CASE left = 0 /\ Sleeps
      <4>1. Elapsed("fast") < Period["fast"]
        BY <3>4, <1>11, <1>17
      <4>2. left' = 0 /\ Elapsed("fast") \in Nat /\ late' = late
        BY <3>4, <1>2, <1>9, <1>11
      <4>3. deaf' < BusOffRetryMs + Period["fast"]
        BY <3>1, <4>1, <4>2, <1>3, <1>7, Constants, FastAndScan
      <4>4. deaf' < BusOffRetryMs + Elapsed("fast")'
        BY <3>1, <3>2, <4>2, <1>3, <1>7, Constants
      <4>5. QED
        BY <4>2, <4>3, <4>4, <1>3, <1>7, Constants, FastAndScan
    <3>5. CASE left = 0 /\ Slips
      BY <3>1, <3>2, <3>5, <1>2, <1>3, <1>5, <1>7, <1>9, <1>11, Constants, FastAndScan
    <3>6. QED
      BY <2>4, <3>3, <3>4, <3>5, <1>1, <1>3
  <2>5. pc \in {"top", "wait", "scan"}
    BY <1>1
  <2>6. ~ overrun' => ~ overrun
    BY <1>2
  <2>7. QED
    BY <2>1, <2>2, <2>3, <2>4, <2>5, <2>6, <1>2 DEF Recovering
<1>22. QED
  BY <1>8, <1>10, <1>13, <1>16, <1>20, <1>21 DEF Inv

LEMMA ArriveStep == Inv /\ Arrive => Inv'
<1> SUFFICES ASSUME Inv, Arrive PROVE Inv'
  OBVIOUS
<1>1. /\ UNCHANGED <<tick, late, slips, pc, left, now2, last, enabled, scanLeft, state, charge,
                     balancing, hal, fifo, bus, sinceTry, faults, deaf, overrun>>
      /\ rx' = rx + 1 /\ rx < MaxRx /\ Len(queue) < QueueCap
  BY DEF Arrive, taskVars, veh, busVars
<1>2. PICK k \in RxKinds : queue' = Append(queue, [kind |-> k, at |-> tick])
  BY DEF Arrive
<1>3. [kind |-> k, at |-> tick] \in Frames
  BY CanAssumption DEF Frames, Inv, Typed, LoopTypes
<1>4. queue \in Seq(Frames) /\ rx \in 0 .. MaxRx
  BY DEF Inv, Typed, QueueTypes
<1>5. queue' \in Seq(Frames) /\ Len(queue') = Len(queue) + 1 /\ Len(queue) \in Nat
  BY <1>2, <1>3, <1>4, AppendProperties, LenProperties
<1>6. Typed'
  <2>1. QueueTypes'
    BY <1>1, <1>4, <1>5, Constants DEF QueueTypes
  <2>2. QED
    BY <1>1, <2>1 DEF Inv, Typed, LoopTypes, BusTypes, RequestTypes
<1>7. Requests'
  BY <1>1, RequestsStay DEF Inv, veh
<1>8. Kept' = Kept
  BY <1>1 DEF Kept
<1>9. (\A c : Elapsed(c)' = Elapsed(c)) /\ (\A c : Ahead(c)' = Ahead(c)) /\ Rides' = Rides
  BY <1>1, ElapsedStays
<1>10. Poised' /\ Served'
  BY <1>1 DEF Inv, Poised, Served, Passes, Moving, ScanTime, ScanRoom
<1>11. Rested' /\ Waiting'
  BY <1>1, <1>8, <1>9 DEF Inv, Rested, Waiting, Waits
<1>12. Recovering'
  BY <1>1, <1>9 DEF Inv, Recovering, ScanRoom
<1>13. QED
  BY <1>6, <1>7, <1>10, <1>11, <1>12 DEF Inv

LEMMA BusOffStep == Inv /\ BusOff => Inv'
<1> SUFFICES ASSUME Inv, BusOff PROVE Inv'
  OBVIOUS
<1>1. /\ UNCHANGED <<tick, late, slips, pc, left, now2, last, enabled, scanLeft, queue, state,
                     charge, balancing, hal, fifo, sinceTry, rx, overrun>>
      /\ pc \in {"top", "wait", "scan"} /\ bus = "up" /\ bus' = "off"
      /\ faults < MaxFaults /\ faults' = faults + 1 /\ deaf' = 0
  BY DEF BusOff, Preemptible, taskVars, veh
<1>2. LoopTypes /\ BusTypes
  BY DEF Inv, Typed
<1>3. Typed'
  <2>1. BusTypes'
    BY <1>1, <1>2, Constants, FastAndScan DEF BusTypes
  <2>2. QED
    BY <1>1, <2>1 DEF Inv, Typed, LoopTypes, QueueTypes, RequestTypes
<1>4. Requests'
  BY <1>1, RequestsStay DEF Inv, veh
<1>5. Kept' = Kept
  BY <1>1 DEF Kept
<1>6. (\A c : Elapsed(c)' = Elapsed(c)) /\ (\A c : Ahead(c)' = Ahead(c)) /\ Rides' = Rides
  BY <1>1, ElapsedStays
<1>7. Poised' /\ Served'
  <2>1. Poised'
    BY <1>1 DEF Inv, Poised, Passes
  <2>2. Served'
    BY <1>1 DEF Inv, Served, Passes, Moving, ScanTime, ScanRoom
  <2>3. QED
    BY <2>1, <2>2
<1>8. Rested' /\ Waiting'
  BY <1>1, <1>5, <1>6 DEF Inv, Rested, Waiting, Waits
<1>9. Recovering'
  <2>1. left \in Nat /\ late \in Nat /\ Elapsed("fast") \in Nat /\ sinceTry \in Nat
    BY <1>2, Cadences, Ages, Constants DEF BusTypes
  <2>2. ASSUME pc = "wait", ~ overrun PROVE left <= Period["fast"]
    <3>1. left > 0 => Elapsed("fast") + left <= Period["fast"]
      BY <2>2, Cadences DEF Inv, Waiting, Waits
    <3>2. QED
      BY <3>1, <2>1, FastAndScan
  <2>3. QED
    BY <1>1, <1>6, <2>1, <2>2, Constants, FastAndScan DEF Recovering
<1>10. QED
  BY <1>3, <1>4, <1>7, <1>8, <1>9 DEF Inv

LEMMA InvStep == Inv /\ [Next]_vars => Inv'
<1> SUFFICES ASSUME Inv, [Next]_vars PROVE Inv'
  OBVIOUS
<1>1. CASE Task
  BY <1>1, StartWaitStep, ServeFrameStep, RebootStep, WaitTimesOutStep, PollSkipsStep,
     RecoverStep, RecoverFailsStep, SendStep, ScanFrameStep, HealthStep DEF Task
<1>2. CASE Elapse \/ Arrive \/ BusOff
  BY <1>2, ElapseStep, ArriveStep, BusOffStep
<1>3. CASE UNCHANGED vars
  <2>1. UNCHANGED <<tick, pc, left, late, slips, now2, last, enabled, scanLeft, queue, state, hal,
                    fifo, bus, sinceTry, rx, faults, overrun, deaf, charge, balancing>>
    BY <1>3 DEF vars
  <2>2. Typed' /\ Requests'
    BY <2>1, RequestsStay
       DEF Inv, Typed, LoopTypes, BusTypes, QueueTypes, RequestTypes, veh
  <2>3. Kept' = Kept
    BY <2>1 DEF Kept
  <2>4. (\A c : Elapsed(c)' = Elapsed(c)) /\ (\A c : Ahead(c)' = Ahead(c)) /\ Rides' = Rides
    BY <2>1, ElapsedStays
  <2>5. Poised' /\ Served'
    BY <2>1 DEF Inv, Poised, Served, Passes, Moving, ScanTime, ScanRoom
  <2>6. Rested' /\ Waiting'
    BY <2>1, <2>3, <2>4 DEF Inv, Rested, Waiting, Waits
  <2>7. Recovering'
    BY <2>1, <2>4 DEF Inv, Recovering, ScanRoom
  <2>8. QED
    BY <2>2, <2>5, <2>6, <2>7 DEF Inv
<1>4. QED
  BY <1>1, <1>2, <1>3 DEF Next

LEMMA InvHolds == Spec => []Inv
BY InvInit, InvStep, PTL DEF Spec

-----------------------------------------------------------------------------
(* Every variable keeps its type: the tick arithmetic stays below the      *)
(* wrap, the transmit FIFO, the receive queue and the deadlines within     *)
(* their bounds.                                                           *)
THEOREM TypeCorrect == Spec => []TypeOK
<1>1. Inv => TypeOK
  BY DEF Inv, Typed, LoopTypes, BusTypes, RequestTypes, QueueTypes, Frames, TypeOK
<1>2. QED
  BY <1>1, InvHolds, PTL

(* The wait has a timeout of 0 only if a transmission is due, or in the    *)
(* last FarAhead ticks before the wrap.                                    *)
THEOREM SpinsOnlyWhenDue == Spec => []SpinsOnlyBeforeWrap
<1>1. ASSUME Inv, pc = "top", Timeout = 0, tick + FarAhead < Wrap
      PROVE  \E c \in Kept : Elapsed(c) >= Period[c]
  <2>1. LoopTypes /\ tick \in Tick /\ tick \in Nat
    BY <1>1, Constants DEF Inv, Typed, LoopTypes, Tick
  <2>2. Deadline <= tick
    BY <1>1, <2>1, TimeoutIs
  <2>3. Deadline # Plus(tick, FarAhead)
    BY <1>1, <2>1, <2>2, Constants DEF Plus
  <2>4. PICK c \in Kept : Deadline = Plus(last[c], Period[c])
    BY <2>1, <2>3, DeadlineIs
  <2>5. c \in Cadence /\ last[c] \in Tick
    BY <2>1, Cadences, Ages
  <2>6. Since(tick, last[c]) >= Period[c]
    BY <1>1, <2>1, <2>2, <2>4, <2>5, Periods, PassedDeadline
  <2>7. QED
    BY <2>6 DEF Elapsed
<1>2. Inv => SpinsOnlyBeforeWrap
  BY <1>1 DEF SpinsOnlyBeforeWrap, Kept
<1>3. QED
  BY <1>2, InvHolds, PTL

(* While the bus is up, every cadence is served within its period, the     *)
(* latency of the task and the time of a scan, also across the wrap, as    *)
(* long as the wrap does not fall between the poll and the next wait.      *)
THEOREM CadencesKept == Spec => []CadenceKept
<1> DEFINE slip == Latency + TxFrames["scan"]
<1>1. ASSUME Inv, bus = "up", ~ overrun
      PROVE  /\ \A c \in Ecu : Elapsed(c) <= Period[c] + slip
             /\ pc \notin {"scan", "health"} =>
                    /\ enabled => Elapsed("scan") <= Period["scan"] + slip
                    /\ Elapsed("health") <= Period["health"] + Period["fast"] + slip
  <2>1. LoopTypes /\ late \in Nat /\ late <= Latency /\ scanLeft \in Nat
        /\ Since(tick, now2) \in Nat
    BY <1>1, Cadences, Ages DEF Inv, Typed
  <2>2. \A c \in Cadence : Elapsed(c) \in Nat /\ Period[c] \in Nat /\ Period[c] > 0
    BY <2>1, Ages, Periods
  <2>3. CASE ~ Passes
    <3>1. pc = "top" \/ Waits
      BY <2>1, <2>3, <1>1 DEF Passes, Waits, LoopTypes
    <3>2. ASSUME NEW c \in Kept PROVE Elapsed(c) <= Period[c] + slip
      <4>1. c \in Cadence
        BY Cadences
      <4>2. Elapsed(c) <= Period[c] + TxFrames["scan"] + late
        <5>1. CASE pc = "top"
          <6>1. Elapsed(c) < Period[c] + TxFrames["scan"] + late
            BY <5>1, <1>1 DEF Inv, Rested
          <6>2. QED
            BY <6>1, <4>1, <2>1, <2>2, FastAndScan
        <5>2. CASE Waits
          BY <5>2, <1>1 DEF Inv, Waiting
        <5>3. QED
          BY <3>1, <5>1, <5>2
      <4>3. QED
        BY <4>1, <4>2, <2>1, <2>2, FastAndScan, Constants
    <3>3. Elapsed("health") < Period["health"] + Elapsed("fast")
      BY <3>1, <1>1 DEF Inv, Rested, Waiting, Rides
    <3>4. Elapsed("fast") <= Period["fast"] + slip
      BY <3>2, Cadences
    <3>5. Elapsed("health") <= Period["health"] + Period["fast"] + slip
      BY <3>3, <3>4, <2>2, Cadences, FastAndScan, Constants
    <3>6. QED
      BY <3>2, <3>5, Cadences
  <2>4. CASE Passes
    <3>1. \A c \in Ecu : Since(now2, last[c]) < Period[c]
      BY <2>4, <1>1 DEF Inv, Served
    <3>2. Since(tick, now2) <= TxFrames["scan"]
      <4>1. Since(tick, now2) <= ScanTime /\ (pc = "scan" => scanLeft > 0)
        BY <2>4, <1>1 DEF Inv, Served, Moving, Poised
      <4>2. QED
        BY <4>1, <2>1, <2>4, FastAndScan DEF ScanTime, Passes
    <3>3. ASSUME NEW c \in Ecu PROVE Elapsed(c) <= Period[c] + slip
      <4>1. c \in Cadence /\ last[c] \in Tick /\ tick \in Tick /\ now2 \in Tick
        BY <2>1, Cadences, Ages DEF LoopTypes
      <4>2. Elapsed(c) <= Since(now2, last[c]) + Since(tick, now2)
        BY <4>1, SinceAdds DEF Elapsed
      <4>3. Since(now2, last[c]) \in Nat /\ Since(now2, last[c]) < Period[c]
        BY <3>1, <4>1, SinceType
      <4>4. QED
        BY <3>2, <4>1, <4>2, <4>3, <2>1, <2>2, FastAndScan, Constants
    <3>4. QED
      BY <3>3, <2>4 DEF Passes
  <2>5. QED
    BY <2>3, <2>4
<1>2. Inv => CadenceKept
  BY <1>1 DEF CadenceKept
<1>3. QED
  BY <1>2, InvHolds, PTL

(* Outside a scan the poll comes round in time.                            *)
LEMMA InvDeaf == Inv => DeafOnlyInScan
<1>1. ASSUME Inv, bus = "off", ~ overrun, pc # "scan"
      PROVE  deaf < DeafCap
  <2>1. late \in Nat /\ late <= Latency /\ left \in Nat /\ deaf \in Nat
        /\ pc \in {"top", "wait", "poll", "send", "health"}
    BY <1>1, Cadences, Ages, FastAndScan DEF Inv, Typed, LoopTypes, BusTypes
  <2>2. CASE pc \in {"send", "health"}
    <3>1. deaf < BusOffRetryMs
      BY <1>1, <2>2 DEF Inv, Recovering
    <3>2. QED
      BY <3>1, <2>1, Constants, FastAndScan
  <2>3. CASE pc = "top"
    <3>1. deaf < BusOffRetryMs + late
      BY <1>1, <2>3 DEF Inv, Recovering
    <3>2. QED
      BY <3>1, <2>1, Constants, FastAndScan
  <2>4. CASE pc \in {"wait", "poll"}
    <3>1. deaf < BusOffRetryMs + Period["fast"] + late
          \/ deaf + left < BusOffRetryMs + Period["fast"] + late
      BY <1>1, <2>4 DEF Inv, Recovering
    <3>2. QED
      BY <3>1, <2>1, Constants, FastAndScan
  <2>5. QED
    BY <2>1, <2>2, <2>3, <2>4
<1>2. DeafCap \in Nat
  BY FastAndScan
<1>3. QED
  BY <1>1, <1>2 DEF DeafOnlyInScan

(* A node that a fault took off the bus is back within the retry period    *)
(* and one pass, whatever Stop does, unless the task is inside a scan.     *)
THEOREM DeafnessEnds == Spec => []DeafOnlyInScan
BY InvDeaf, InvHolds, PTL

(* A request older than its limit has no effect, until the tick has        *)
(* wrapped.                                                                *)
THEOREM StaleIsIgnored == Spec => []StaleOnlyAfterWrap
<1>1. ASSUME NEW h, NEW then \in Nat, NEW fresh \in Nat, tick \in Nat, Known(h, then, fresh),
             ~ h.wrapped, then # 0, Age(tick, then) <= fresh
      PROVE  h.age <= fresh
  BY <1>1 DEF Known, Age
<1>2. ASSUME Inv PROVE StaleOnlyAfterWrap
  <2>1. tick \in Nat /\ state.chargeTick \in Nat /\ state.balanceTick \in Nat
    BY <1>2, Constants DEF Inv, Typed, LoopTypes, RequestTypes, VehicleState, Tick
  <2>2. /\ Known(charge, state.chargeTick, ChargeReqFreshMs)
        /\ Known(balancing, state.balanceTick, BalanceOverrideFreshMs)
    BY <1>2 DEF Inv, Requests
  <2>3. ASSUME ChargeRequested(tick, state.chargeTick), ~ charge.wrapped
        PROVE  charge.age <= ChargeReqFreshMs
    BY <2>1, <2>2, <2>3, <1>1, Constants DEF ChargeRequested
  <2>4. ASSUME EffectiveBalanceCmd(tick, state.balanceTick, state.balance) # "Off",
               ~ balancing.wrapped
        PROVE  balancing.age <= BalanceOverrideFreshMs
    <3>1. state.balanceTick # 0 /\ Age(tick, state.balanceTick) <= BalanceOverrideFreshMs
      BY <2>4 DEF EffectiveBalanceCmd
    <3>2. QED
      BY <3>1, <2>1, <2>2, <2>4, <1>1, Constants
  <2>5. QED
    BY <2>3, <2>4 DEF StaleOnlyAfterWrap
<1>3. Inv => StaleOnlyAfterWrap
  BY <1>2
<1>4. QED
  BY <1>3, InvHolds, PTL

(* A fresh request is honoured, also across the wrap and by a reader whose *)
(* tick is older than its stamp, unless it was stamped 0.                  *)
THEOREM FreshCounts == Spec => []FreshIsHonoured
<1>1. ASSUME NEW now, NEW then \in Tick, NEW fresh \in Nat, NEW h, tick \in Tick,
             now \in {tick, IF tick > 0 THEN tick - 1 ELSE 0},
             Known(h, then, fresh), h.age <= fresh
      PROVE  Age(now, then) <= fresh
  <2>1. Since(tick, then) <= fresh
    BY <1>1 DEF Known
  <2>2. then \in Nat /\ tick \in Nat
    BY <1>1, Constants DEF Tick
  <2>3. tick >= then => tick - then <= fresh
    BY <2>1 DEF Since
  <2>4. CASE now = tick
    BY <2>2, <2>3, <2>4 DEF Age
  <2>5. CASE now = (IF tick > 0 THEN tick - 1 ELSE 0)
    BY <2>2, <2>3, <2>5 DEF Age
  <2>6. QED
    BY <1>1, <2>4, <2>5
<1>2. ASSUME Inv PROVE FreshIsHonoured
  <2>1. tick \in Tick /\ state.chargeTick \in Tick /\ state.balanceTick \in Tick
    BY <1>2 DEF Inv, Typed, LoopTypes, RequestTypes, VehicleState
  <2>2. /\ Known(charge, state.chargeTick, ChargeReqFreshMs)
        /\ Known(balancing, state.balanceTick, BalanceOverrideFreshMs)
    BY <1>2 DEF Inv, Requests
  <2>3. ASSUME NEW now \in {tick, IF tick > 0 THEN tick - 1 ELSE 0}
        PROVE  /\ charge.age <= ChargeReqFreshMs /\ state.chargeTick # 0 =>
                      ChargeRequested(now, state.chargeTick)
               /\ balancing.age <= BalanceOverrideFreshMs /\ state.balanceTick # 0 =>
                      EffectiveBalanceCmd(now, state.balanceTick, state.balance) = state.balance
    <3>1. charge.age <= ChargeReqFreshMs =>
              Age(now, state.chargeTick) <= ChargeReqFreshMs
      BY <2>1, <2>2, <1>1, Constants
    <3>2. balancing.age <= BalanceOverrideFreshMs =>
              Age(now, state.balanceTick) <= BalanceOverrideFreshMs
      BY <2>1, <2>2, <1>1, Constants
    <3>3. QED
      BY <3>1, <3>2 DEF ChargeRequested, EffectiveBalanceCmd
  <2>4. QED
    BY <2>3 DEF FreshIsHonoured
<1>3. Inv => FreshIsHonoured
  BY <1>2
<1>4. QED
  BY <1>3, InvHolds, PTL

-----------------------------------------------------------------------------
(* The pit scan that waits for room in the FIFO of a node in Bus_Off, which *)
(* send_or_fail_blocking does not leave (RecoveryRuns fails).              *)
Wedged == pc = "scan" /\ ~ ScanRoom /\ bus = "off"

(* A node recovers from Bus_Off within the retry period and one pass, or   *)
(* never: one that is deaf for longer waits for room, and waits for ever.  *)
DeafForEver == [](bus = "off" /\ deaf = DeafCap /\ ~ overrun => []Wedged)

LEMMA WedgedStep == Wedged /\ [Next]_vars => Wedged'
<1> SUFFICES ASSUME Wedged, [Next]_vars PROVE Wedged'
  OBVIOUS
<1>1. CASE Elapse
  BY <1>1 DEF Elapse, Wedged, ScanRoom
<1>2. CASE UNCHANGED vars
  BY <1>2 DEF vars, Wedged, ScanRoom
<1>3. ~ Task /\ ~ Arrive /\ ~ BusOff
  BY DEF Wedged, Task, StartWait, ServeFrame, Reboot, WaitTimesOut, PollSkips, Recover,
     RecoverFails, Send, ScanFrame, Health, Arrive, BusOff
<1> QED
  BY <1>1, <1>2, <1>3 DEF Next

(* poll_fdcan1_busoff_recovery comes in time or not at all: whatever Stop  *)
(* does and whatever else arrives, the scan that the fault caught with a   *)
(* full FIFO is the one way to miss it, and there is no way out of it.     *)
THEOREM DeafnessIsForEver == Spec => DeafForEver
<1>1. Inv => (bus = "off" /\ deaf = DeafCap /\ ~ overrun => Wedged)
  <2> SUFFICES ASSUME Inv, bus = "off", deaf = DeafCap, ~ overrun PROVE Wedged
    OBVIOUS
  <2>1. pc = "scan"
    BY InvDeaf DEF DeafOnlyInScan
  <2>2. ~ ScanRoom
    <3>1. ScanRoom => deaf < BusOffRetryMs
      BY <2>1 DEF Inv, Recovering
    <3>2. Period["fast"] \in Nat /\ Latency \in Nat /\ BusOffRetryMs \in Nat
      BY Constants, Periods DEF Cadence, Ecu
    <3> QED
      BY <3>1, <3>2 DEF DeafCap
  <2> QED
    BY <2>1, <2>2 DEF Wedged
<1>2. Wedged /\ [Next]_vars => Wedged'
  BY WedgedStep
<1> QED
  BY <1>1, <1>2, InvHolds, PTL DEF Spec, DeafForEver
=============================================================================
