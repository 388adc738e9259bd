------------------------------ MODULE Receiver ------------------------------
(***************************************************************************)
(* The receive loop of ISC_RTT_serial.py (receive_data) with its clock:    *)
(* opening and losing the USB port, the LIVE/STALE/BAD badge, the status   *)
(* of the radio receiver, reassembly, and the rows of the session CSV.     *)
(*                                                                         *)
(* A turn of the loop is two actions: _read_frame blocks (ReadBlocks), and *)
(* then the loop does what its outcome calls for.  _read_frame waits for   *)
(* the port up to five times, each time as long as the read timeout, so a  *)
(* turn may take several read timeouts, whatever its outcome.  Time is     *)
(* counted in ticks (0.2 s here: the stale limit is one, like the read     *)
(* timeout) and ages are capped where the code stops telling them apart.   *)
(* The code stamps what it receives with `now', read at the top of the     *)
(* loop: before the port was opened (lag) and before the read blocked      *)
(* (took).                                                                 *)
(*                                                                         *)
(* The bytes on the wire are abstracted to the outcome of _read_frame.     *)
(* The transmitter sends the fragments of consecutive snapshots in order;  *)
(* until the link settles (calm) anything may be lost, damaged or replaced *)
(* by a status frame of the Nano, and the cable may be pulled.             *)
(***************************************************************************)
EXTENDS Fragments

CONSTANTS StaleT,  \* _STALE_T
          ReadT,   \* read timeout of the port
          OpenT,   \* sleep in _open_serial
          RetryT,  \* sleeps of the reconnect path
          LogT,    \* least time between two rows of the CSV
          NoSeq    \* _last_seq before the first fragment

ASSUME TimeAssumption ==
    /\ {StaleT, ReadT, OpenT, RetryT, LogT} \subseteq Nat \ {0}
    /\ NoSeq \notin Seqs

VARIABLES
    running,  \* inside receive_data
    ser,      \* the port is open (ser is not None)
    lag,      \* time between `now' and the start of the read
    back,     \* _read_frame has come back
    took,     \* time it blocked
    badge,    \* _status["badge"]
    lastSeq,  \* _last_seq
    age,      \* now - _last_seq_advance_ts
    hw,       \* _receiver_status["hw_status"]
    buffer,   \* _frag_buffers
    sinceLog, \* now - last_log_t
    logged,   \* the last turn wrote a row
    tx,       \* next fragment of the transmitter: [kind, seq, idx]
    calm,     \* the link has settled
    quiet,    \* history: time spent reading since the sequence number advanced
    echoes    \* history: advances by status frames since the last by a fragment

loopVars == <<running, ser, lag, back, took, badge, lastSeq, age, hw, buffer, sinceLog,
              logged, tx, calm, quiet, echoes>>

(* _read_frame reads SOF1, SOF2, the length, the payload and the checksum. *)
Reads == 5
TurnT == Reads * ReadT

AgeCap == StaleT + 1
QuietLimit == StaleT + 2 * TurnT
AtMost(n, cap) == IF n > cap THEN cap ELSE n

LoopTypeOK ==
    /\ running \in BOOLEAN /\ ser \in BOOLEAN /\ calm \in BOOLEAN
    /\ logged \in BOOLEAN
    /\ lag \in {0, OpenT}
    /\ back \in BOOLEAN /\ took \in 0 .. TurnT
    /\ badge \in {"LIVE", "STALE", "BAD"}
    /\ lastSeq \in Seqs \cup {NoSeq}
    /\ age \in 0 .. AgeCap
    /\ hw \in {"OK", "NO_SIGNAL", "NO_RADIO_HW"}
    /\ buffer \subseteq Fragment
    /\ sinceLog \in 0 .. LogT
    /\ tx.kind \in Kinds /\ tx.seq \in Seqs /\ tx.idx \in 0 .. FragTot[tx.kind] - 1
    /\ quiet \in 0 .. QuietLimit + 1
    /\ echoes \in Nat

LoopInit ==
    /\ running = FALSE
    /\ ser = FALSE
    /\ lag = 0
    /\ back = FALSE
    /\ took = 0
    /\ badge = "STALE"
    /\ lastSeq = NoSeq
    /\ age = AgeCap
    /\ hw = "OK"
    /\ buffer = {}
    /\ sinceLog = 0
    /\ logged = FALSE
    /\ tx \in [kind : Kinds, seq : {0}, idx : {0}]
    /\ calm = FALSE
    /\ quiet = QuietLimit + 1
    /\ echoes = 0

-----------------------------------------------------------------------------
(* What has passed since the top of the loop when the turn ends, a sleep   *)
(* of d included; the read itself counted its time when it blocked.        *)

Passed(d) == lag + took + d

Over == lag' = 0 /\ back' = FALSE /\ took' = 0

Elapse(d) ==
    /\ Over
    /\ age' = AtMost(age + Passed(d), AgeCap)
    /\ sinceLog' = AtMost(sinceLog + Passed(d), LogT)
    /\ quiet' = AtMost(quiet + d, QuietLimit + 1)
    /\ UNCHANGED echoes

Unlogged == logged' = FALSE

(* receive_data is entered: the snapshot, the LQI and the badge are reset; *)
(* _last_seq, its time stamp and _frag_buffers are not.                    *)
StartSession ==
    /\ ~ running
    /\ running' = TRUE
    /\ badge' = "STALE"
    /\ sinceLog' = 0
    /\ Unlogged
    /\ UNCHANGED <<ser, lag, back, took, lastSeq, age, hw, buffer, tx, calm, quiet, echoes>>

(* The loop sees new_data_flag = -1 and leaves; the port is closed.        *)
StopSession ==
    /\ running /\ lag = 0 /\ ~ back /\ ~ calm
    /\ running' = FALSE
    /\ ser' = FALSE
    /\ Unlogged
    /\ UNCHANGED <<lag, back, took, badge, lastSeq, age, hw, buffer, sinceLog, tx, calm,
                   quiet, echoes>>

(* Between sessions only time passes.                                      *)
Idle ==
    /\ ~ running
    /\ age' = AgeCap
    /\ quiet' = QuietLimit + 1
    /\ UNCHANGED <<running, ser, lag, back, took, badge, lastSeq, hw, buffer, sinceLog,
                   logged, tx, calm, echoes>>

(* No port, or opening it fails: STALE, sleep, next turn.                  *)
OpenFails ==
    /\ running /\ ~ ser /\ ~ calm
    /\ badge' = "STALE"
    /\ Elapse(RetryT)
    /\ Unlogged
    /\ UNCHANGED <<running, ser, lastSeq, hw, buffer, tx, calm>>

(* _open_serial returns after its sleep, and the turn goes on to the read. *)
Opens ==
    /\ running /\ ~ ser
    /\ ser' = TRUE
    /\ lag' = OpenT
    /\ badge' = "LIVE"
    /\ Unlogged
    /\ UNCHANGED <<running, back, took, lastSeq, age, hw, buffer, sinceLog, tx, calm,
                   quiet, echoes>>

(* _read_frame blocks, in one read or in all of them.  The fragments of    *)
(* one snapshot come in a burst; once the link is calm there is time       *)
(* between two snapshots.                                                  *)
ReadBlocks ==
    /\ running /\ ser /\ ~ back
    /\ back' = TRUE
    /\ \E d \in 0 .. TurnT :
          /\ calm /\ tx.idx = 0 => d > 0
          /\ took' = d
          /\ quiet' = AtMost(quiet + d, QuietLimit + 1)
    /\ UNCHANGED <<running, ser, lag, badge, lastSeq, age, hw, buffer, sinceLog, logged,
                   tx, calm, echoes>>

(* The read raises: the cable was pulled.                                  *)
ReadError ==
    /\ back /\ ~ calm
    /\ badge' = "STALE"
    /\ ser' = FALSE
    /\ Elapse(RetryT)
    /\ Unlogged
    /\ UNCHANGED <<running, lastSeq, hw, buffer, tx, calm>>

(* Mutated form of TimedOut: the badge is left to the fragment path.       *)
TimedOutSilently ==
    /\ Elapse(0)
    /\ Unlogged
    /\ UNCHANGED <<running, ser, badge, lastSeq, hw, buffer, tx, calm>>

(* err = "timeout".                                                        *)
TimedOut ==
    /\ badge' = IF lastSeq # NoSeq /\ age > StaleT THEN "STALE" ELSE badge
    /\ Elapse(0)
    /\ Unlogged
    /\ UNCHANGED <<running, ser, lastSeq, hw, buffer, tx, calm>>

(* One of the reads runs out of time: the first one, or a later one after  *)
(* the bytes before it were waited for.                                    *)
ReadTimeout ==
    /\ back /\ ~ calm
    /\ took >= ReadT
    /\ TimedOut

(* A byte that is not SOF1, or not SOF2 behind SOF1, is skipped without a  *)
(* look at the clock, so such bytes postpone STALE.                        *)
StrayByte ==
    /\ back /\ ~ calm
    /\ took <= 2 * ReadT
    /\ Over
    /\ age' = AtMost(age + Passed(0), AgeCap)
    /\ sinceLog' = AtMost(sinceLog + Passed(0), LogT)
    /\ quiet' = 0
    /\ Unlogged
    /\ UNCHANGED <<running, ser, badge, lastSeq, hw, buffer, tx, calm, echoes>>

(* err in ("len", "short", "chk"), or a frame _validate_fragment refuses.  *)
BadFrame ==
    /\ back /\ ~ calm
    /\ badge' = "BAD"
    /\ Elapse(0)
    /\ Unlogged
    /\ UNCHANGED <<running, ser, lastSeq, hw, buffer, tx, calm>>

-----------------------------------------------------------------------------
(* What a valid frame with this sequence number does to the badge; echo is *)
(* the count of echoes if it advances.  The time stamp it leaves is `now', *)
(* as old at the next turn as this turn was long.                          *)
SeqSeen(seq, echo) ==
    IF lastSeq = NoSeq \/ ModDiff(seq, lastSeq) > 0
    THEN /\ badge' = "LIVE"
         /\ lastSeq' = seq
         /\ age' = AtMost(Passed(0), AgeCap)
         /\ quiet' = 0
         /\ echoes' = echo
    ELSE /\ badge' = IF age > StaleT THEN "STALE" ELSE badge
         /\ age' = AtMost(age + Passed(0), AgeCap)
         /\ UNCHANGED <<lastSeq, quiet, echoes>>

(* A complete snapshot is decoded and published; a row is written when the *)
(* last one is old enough by `now'.                                        *)
Publish(complete) ==
    IF complete /\ sinceLog >= LogT
    THEN logged' = TRUE /\ sinceLog' = AtMost(Passed(0), LogT)
    ELSE logged' = FALSE /\ sinceLog' = AtMost(sinceLog + Passed(0), LogT)

(* A status frame of the Nano: it carries sequence number 0 and goes       *)
(* through the badge logic like a fragment before it is recognised.        *)
StatusFrame ==
    /\ back /\ ~ calm
    /\ SeqSeen(0, echoes + 1)
    /\ Publish(FALSE)
    /\ Over
    /\ hw' \in {"OK", "NO_SIGNAL", "NO_RADIO_HW"}
    /\ UNCHANGED <<running, ser, buffer, tx, calm>>

(* The transmitter goes on to its next fragment.                           *)
NextTx(t) ==
    IF t.idx + 1 < FragTot[t.kind]
    THEN [t EXCEPT !.idx = @ + 1]
    ELSE [t EXCEPT !.idx = 0, !.seq = NextSeq(@)]

(* What is on the air is lost on the way.                                  *)
LoseFragment ==
    /\ ~ calm
    /\ tx' = NextTx(tx)
    /\ UNCHANGED <<running, ser, lag, back, took, badge, lastSeq, age, hw, buffer,
                   sinceLog, logged, calm, quiet, echoes>>

Arrives == [kind |-> tx.kind, seq |-> tx.seq, idx |-> tx.idx, snap |-> 0]

(* _process_fragment and what the loop does with a complete snapshot.      *)
Reassemble(f) ==
    \E victim \in Evictable(buffer, f) :
        LET buf == Stored(buffer \ victim, f)
        IN  /\ buffer' = IF Complete(buf, f) THEN buf \ Held(buf, Key(f)) ELSE buf
            /\ Publish(Complete(buf, f))

(* A fragment of the car.                                                  *)
DataFrame ==
    /\ back
    /\ SeqSeen(tx.seq, 0)
    /\ Reassemble(Arrives)
    /\ Over
    /\ hw' = "OK"
    /\ tx' = NextTx(tx)
    /\ UNCHANGED <<running, ser, calm>>

(* From here on the cable stays, the car keeps transmitting, nothing is    *)
(* lost and the operator lets the session run.                             *)
Settle ==
    /\ running /\ ~ back /\ ~ calm
    /\ calm' = TRUE
    /\ UNCHANGED <<running, ser, lag, back, took, badge, lastSeq, age, hw, buffer,
                   sinceLog, logged, tx, quiet, echoes>>

Loop == \/ OpenFails \/ Opens \/ ReadBlocks \/ ReadError \/ ReadTimeout \/ StrayByte
        \/ BadFrame \/ StatusFrame \/ DataFrame

LoopNext == \/ StartSession \/ StopSession \/ Idle
        \/ Loop
        \/ LoseFragment \/ Settle

LoopSpec == LoopInit /\ [][LoopNext]_loopVars /\ WF_loopVars(Loop)

-----------------------------------------------------------------------------
(* The badge tells the truth about silence.  Once a first fragment was     *)
(* ever received, LIVE outlasts the last advance of the sequence number by *)
(* at most _STALE_T and two turns of the loop: the turn that began just    *)
(* before the limit passed, and the one that finds it passed (stray bytes  *)
(* apart, which the loop skips before it looks at the clock).  The status  *)
(* frames of the Nano advance the number too, and show LIVE for a car that *)
(* is silent, but only once: after that it takes a fragment of the car.    *)
(* While the loop looks for the port it never shows LIVE.                  *)
StaleWhenQuiet ==
    /\ running /\ badge = "LIVE" =>
        /\ ser
        /\ lag = 0 /\ lastSeq # NoSeq => quiet <= QuietLimit
    /\ echoes <= 1

(* Whatever partials, bad frames, stale badges and unplugging went before, *)
(* once the link settles snapshots are reassembled and logged for ever.    *)
GoodLinkIsLogged == calm ~> logged
=============================================================================
