----------------------------- MODULE CanSession -----------------------------
(***************************************************************************)
(* The host side of the CAN bootloader session (session_temp.rs): callers  *)
(* that share one Session, its keepalive task, its receive task and the    *)
(* reply channel between them, in front of a device that may be slow, lose *)
(* messages, drop the session or leave the bootloader.                     *)
(*                                                                         *)
(* command_lock is tokio's fair mutex: lockQ is the queue of those who     *)
(* asked for it, its head holds it.  A message is the command it carries   *)
(* or answers, what the answer says, and, as history, by: the task whose   *)
(* call sent it and still waits.  The receive task is part of DevAnswers:  *)
(* a message it cannot put into the full reply channel stays on the bus.   *)
(* A timeout may fire whenever no reply is there: the device may always be *)
(* slower.  The sleeps before a probe and before a retry are the time that *)
(* a task stays in "pause" and in "send".                                  *)
(***************************************************************************)
EXTENDS Naturals, Sequences

CONSTANTS Callers,    \* tasks that use the session
          Uses,       \* what each of them calls
          Tries,      \* bound: attempts of a retried command, probes of a window
          Responders, \* nodes that answer a broadcast
          BusRoom,    \* bound: commands on their way to the device
          ReplyRoom   \* capacity of the reply channel

Keepalive == "keepalive"
Nobody == "nobody"

Commands == {"connect", "plain", "gated", "retrying", "broadcast", "disconnect",
             "health", "trigger"}

(* Those that take more than one frame.                                    *)
Long == {"plain", "gated", "retrying"}

ASSUME CanAssumption ==
    /\ Keepalive \notin Callers /\ Nobody \notin Callers
    /\ Uses \in [Callers -> SUBSET {"connect", "entering", "plain", "gated",
                                    "retrying", "broadcast", "disconnect"}]
    /\ Tries \in Nat \ {0} /\ Responders \in Nat
    /\ BusRoom \in Nat \ {0} /\ ReplyRoom \in Nat \ {0}

Proc == Callers \cup {Keepalive}

VARIABLES
    lockQ,      \* command_lock
    pc,         \* where each task is
    op,         \* the method a caller is in; the keepalive is in its tick
    stage,      \* send_session_gated: first try, inline CONNECT, retry
    try,        \* attempts of send_command_retrying, probes of reboot_and_connect
    connected,  \* Session.connected
    handle,     \* Session.keepalive is Some
    cancelled,  \* cancel_tx was sent to the keepalive task, which lives
    closed,     \* disconnect returned, or the session was dropped
    listening,  \* the receive task runs
    requests,   \* commands on their way to the device
    replies,    \* reply_rx
    session,    \* the device has a session open
    booted,     \* the device is in its bootloader, not in the application
    slow,       \* history: a wait of the call that holds the lock timed out,
                \* or a command of it was sent in part
    late,       \* history: a call was over that had been slow
    misread,    \* history: a reply was taken for the answer of another command
    tickFailed  \* history: the keepalive task of the handle gave up

callVars == <<op, stage, try>>
hostVars == <<connected, handle, cancelled, closed, listening>>
busVars == <<requests, replies, session, booted>>
histVars == <<slow, late, misread, tickFailed>>
vars == <<lockQ, pc, callVars, hostVars, busVars, histVars>>

(* A message the host asks with says "ack", or "transport" when only its   *)
(* first frames were sent.                                                 *)
Message == [cmd : Commands, says : {"ack", "bad_session", "transport"},
            by : Proc \cup {Nobody}]

(* The keepalive is in no method but its tick.                             *)
Resting(p) == IF p = Keepalive THEN "health" ELSE "none"

TypeOK ==
    /\ lockQ \in Seq(Proc)
    /\ pc \in [Proc -> {"idle", "trigger", "pause", "queued", "send", "await",
                        "join", "sleep", "dead"}]
    /\ \A p \in Proc : op[p] = Resting(p) \/ (p # Keepalive /\ op[p] \in Uses[p])
    /\ stage \in [Proc -> {"first", "connect", "retry"}]
    /\ try \in [Proc -> 0 .. Tries]
    /\ connected \in BOOLEAN /\ handle \in BOOLEAN /\ cancelled \in BOOLEAN
    /\ closed \in BOOLEAN /\ listening \in BOOLEAN
    /\ requests \in Seq(Message) /\ Len(requests) <= BusRoom
    /\ replies \in Seq(Message) /\ Len(replies) <= ReplyRoom
    /\ session \in BOOLEAN /\ booted \in BOOLEAN
    /\ slow \in BOOLEAN /\ late \in BOOLEAN
    /\ misread \in BOOLEAN /\ tickFailed \in BOOLEAN

Init ==
    /\ lockQ = <<>>
    /\ pc = [p \in Proc |-> IF p = Keepalive THEN "dead" ELSE "idle"]
    /\ op = [p \in Proc |-> Resting(p)]
    /\ stage = [p \in Proc |-> "first"]
    /\ try = [p \in Proc |-> 0]
    /\ connected = FALSE /\ handle = FALSE /\ cancelled = FALSE
    /\ closed = FALSE /\ listening = TRUE
    /\ requests = <<>> /\ replies = <<>>
    /\ session = FALSE /\ booted \in BOOLEAN
    /\ slow = FALSE /\ late = FALSE /\ misread = FALSE /\ tickFailed = FALSE

-----------------------------------------------------------------------------
Holds(p) == lockQ # <<>> /\ Head(lockQ) = p

(* What p sends: the CONNECT of a probe or of a reconnect, or its own.     *)
CommandOf(p) ==
    IF op[p] = "entering" \/ (op[p] = "gated" /\ stage[p] = "connect")
    THEN "connect" ELSE op[p]

(* Nobody waits any more for what is on its way.                           *)
Old(s) == [i \in DOMAIN s |-> [s[i] EXCEPT !.by = Nobody]]

(* A reply that nobody waits for can be taken for the answer to a CONNECT, *)
(* or to any other command.                                                *)
Reply(cmd, says, by) ==
    [cmd |-> IF by = Nobody /\ cmd # "connect" THEN "plain" ELSE cmd,
     says |-> says, by |-> by]

Stray(s) == [i \in DOMAIN s |-> Reply(s[i].cmd, s[i].says, Nobody)]

(* The frames get onto the bus, or are lost.                               *)
Sent(cmd, p) ==
    \/ /\ Len(requests) < BusRoom
       /\ requests' = Append(requests, [cmd |-> cmd, says |-> "ack", by |-> p])
    \/ requests' = requests

Goes(p, at) == pc' = [pc EXCEPT ![p] = at]

(* The task leaves the method it was in, for at.                           *)
Leaves(p, at) ==
    /\ Goes(p, at)
    /\ op' = [op EXCEPT ![p] = Resting(p)]
    /\ stage' = [stage EXCEPT ![p] = "first"]
    /\ try' = [try EXCEPT ![p] = 0]

(* The guard of the lock is dropped; timedOut: a wait had timed out, or a  *)
(* command was sent in part.                                               *)
Unlock(timedOut) ==
    /\ lockQ' = Tail(lockQ)
    /\ slow' = FALSE
    /\ late' = (late \/ timedOut)

(* The command of p returns to its caller, or the tick ends.               *)
Return(p) ==
    /\ Leaves(p, IF p = Keepalive THEN "sleep" ELSE "idle")
    /\ Unlock(slow)

(* The error of a caller is returned, that of a tick ends the keepalive.   *)
Fail(p, timedOut) ==
    /\ Leaves(p, IF p = Keepalive THEN "dead" ELSE "idle")
    /\ tickFailed' = (tickFailed \/ (p = Keepalive /\ handle))
    /\ Unlock(timedOut)

(* A caller enters a method and asks for the lock; with                    *)
(* BootloaderEntry::Always it first reboots the application.  disconnect   *)
(* consumes the session, so nobody else is in a method then.               *)
Call(c, o) ==
    /\ pc[c] = "idle" /\ ~ closed
    /\ o = "disconnect" => \A d \in Callers : pc[d] = "idle"
    /\ \A d \in Callers : op[d] # "disconnect"
    /\ op' = [op EXCEPT ![c] = o]
    /\ \/ Goes(c, "queued") /\ lockQ' = Append(lockQ, c)
       \/ o = "entering" /\ Goes(c, "trigger") /\ UNCHANGED lockQ
    /\ UNCHANGED <<stage, try, hostVars, busVars, histVars>>

-----------------------------------------------------------------------------
(* reboot_and_connect: the frame that reboots the application goes out     *)
(* without the lock and is not answered.                                   *)
Trigger(c) ==
    /\ pc[c] = "trigger"
    /\ Sent("trigger", Nobody)
    /\ Goes(c, "pause")
    /\ UNCHANGED <<lockQ, callVars, hostVars, replies, session, booted, histVars>>

TriggerFails(c) ==
    /\ pc[c] = "trigger"
    /\ Leaves(c, "idle")
    /\ UNCHANGED <<lockQ, hostVars, busVars, histVars>>

Probe(c) ==
    /\ pc[c] = "pause"
    /\ try' = [try EXCEPT ![c] = @ + 1]
    /\ Goes(c, "queued")
    /\ lockQ' = Append(lockQ, c)
    /\ UNCHANGED <<op, stage, hostVars, busVars, histVars>>

(* Where a probe that timed out goes on: the first of BootloaderEntry::Auto *)
(* to the trigger, a later one to the next probe, with or without another  *)
(* trigger, as long as the window lasts.                                   *)
GoesOnAt(c) == IF try[c] = 0 THEN {"trigger"}
               ELSE IF try[c] < Tries THEN {"trigger", "pause"} ELSE {}

-----------------------------------------------------------------------------
(* send_raw up to its wait; broadcast up to its window.                    *)
Ready(p) == Holds(p) /\ pc[p] \in {"queued", "send"}

Send(p) ==
    /\ Ready(p) /\ op[p] # "disconnect"
    /\ Sent(CommandOf(p), p)
    /\ Goes(p, "await")
    /\ try' = [try EXCEPT ![p] = IF op[p] = "retrying" THEN @ + 1 ELSE @]
    /\ UNCHANGED <<lockQ, op, stage, hostVars, replies, session, booted, histVars>>

(* send_command_retrying: a transient outcome, with attempts left.         *)
MayRetry(p) == op[p] = "retrying" /\ try[p] < Tries

(* Mutated form of Retry: the backoff does not hold the lock.              *)
RetryUnlocked(p, timedOut) ==
    /\ Goes(p, "queued")
    /\ lockQ' = Append(Tail(lockQ), p)
    /\ slow' = FALSE
    /\ UNCHANGED <<op, stage, late, tickFailed>>

Retry(p, timedOut) ==
    /\ Goes(p, "send")
    /\ slow' = (slow \/ timedOut)
    /\ UNCHANGED <<lockQ, op, stage, late, tickFailed>>

(* The adapter refuses a frame; this was an attempt as well.  The frames   *)
(* before it, if any, are on the bus (torn): the device will give that     *)
(* message up and answer it, long after the call is over.                  *)
SendFails(p) ==
    /\ Ready(p) /\ op[p] # "disconnect"
    /\ \E torn \in BOOLEAN :
        LET part == [cmd |-> CommandOf(p), says |-> "transport", by |-> p]
            onBus == IF torn THEN Append(requests, part) ELSE requests
        IN  /\ torn => CommandOf(p) \in Long /\ Len(requests) < BusRoom
            /\ IF op[p] = "retrying" /\ try[p] + 1 < Tries
               THEN /\ try' = [try EXCEPT ![p] = @ + 1]
                    /\ Retry(p, torn)
                    /\ requests' = onBus /\ UNCHANGED replies
               ELSE /\ Fail(p, slow \/ torn)
                    /\ requests' = Old(onBus) /\ replies' = Stray(replies)
    /\ UNCHANGED <<hostVars, session, booted, misread>>

(* Mutated form of TimeOut: recv without a timeout.                        *)
NoTimeOut(p) == FALSE /\ UNCHANGED vars /\ pc[p] = "await"

(* A caller's wait is over: the attempt, the probe or the call failed, and *)
(* the window of a broadcast is closed.                                    *)
TimeOut(p) ==
    /\ pc[p] = "await"
    /\ op[p] = "broadcast" \/ (replies = <<>> /\ listening)
    /\ IF MayRetry(p)
       THEN Retry(p, TRUE) /\ UNCHANGED <<try, requests, replies>>
       ELSE /\ requests' = Old(requests) /\ replies' = Stray(replies)
            /\ \/ /\ op[p] = "entering"
                  /\ \E at \in GoesOnAt(p) : Goes(p, at)
                  /\ Unlock(TRUE)
                  /\ UNCHANGED <<callVars, tickFailed>>
               \/ /\ op[p] = "entering" => try[p] > 0
                  /\ Fail(p, TRUE)
    /\ UNCHANGED <<hostVars, session, booted, misread>>

(* recv returns None: the receive task is gone.                            *)
RxClosed(p) ==
    /\ pc[p] = "await" /\ replies = <<>> /\ ~ listening
    /\ Fail(p, slow)
    /\ requests' = Old(requests)
    /\ UNCHANGED <<hostVars, replies, session, booted, misread>>

(* start_keepalive: nothing is started beside a handle that is there, the  *)
(* one of a task that gave up included.                                    *)
StartKeepalive ==
    /\ connected' = TRUE
    /\ handle' = TRUE
    /\ UNCHANGED <<cancelled, tickFailed>>

(* What a running keepalive task is told when its handle is taken.         *)
TakeHandle ==
    /\ handle' = FALSE
    /\ cancelled' = (cancelled \/ (handle /\ pc[Keepalive] # "dead"))
    /\ tickFailed' = FALSE

GoesConnected(p, at) ==
    pc' = [q \in Proc |-> IF q = p THEN at
                          ELSE IF q = Keepalive /\ ~ handle THEN "sleep" ELSE pc[q]]

(* CONNECT was accepted: connect returns.                                  *)
Connected(p) ==
    /\ StartKeepalive
    /\ GoesConnected(p, "idle")
    /\ op' = [op EXCEPT ![p] = "none"]
    /\ try' = [try EXCEPT ![p] = 0]
    /\ Unlock(slow)
    /\ UNCHANGED stage

(* Mutated form of Reconnected: the keepalive is not started again.        *)
ReconnectedOnly(p) ==
    /\ connected' = TRUE
    /\ stage' = [stage EXCEPT ![p] = "retry"]
    /\ Goes(p, "send")
    /\ UNCHANGED <<lockQ, op, try, handle, cancelled, slow, late, tickFailed>>

(* The inline CONNECT was accepted: the command is sent again.             *)
Reconnected(p) ==
    /\ StartKeepalive
    /\ GoesConnected(p, "send")
    /\ stage' = [stage EXCEPT ![p] = "retry"]
    /\ UNCHANGED <<lockQ, op, try, slow, late>>

(* BAD_SESSION: stop_keepalive_locked up to the await of the task.         *)
Reconnect(p) ==
    /\ connected' = FALSE
    /\ TakeHandle
    /\ Goes(p, IF handle THEN "join" ELSE "send")
    /\ stage' = [stage EXCEPT ![p] = "connect"]
    /\ UNCHANGED <<lockQ, op, try, slow, late>>

Accepted(p, r) == CommandOf(p) = "connect" /\ r.cmd = "connect" /\ r.says = "ack"

ReconnectNeeded(p, r) ==
    op[p] = "gated" /\ stage[p] = "first" /\ r.says = "bad_session"

Transient(p, r) == MayRetry(p) /\ r.says = "transport"

(* What a task does with the reply it took for its own.                    *)
Handle(p, r) ==
    \/ Accepted(p, r) /\ op[p] # "gated" /\ Connected(p)
    \/ Accepted(p, r) /\ op[p] = "gated" /\ Reconnected(p)
    \/ ReconnectNeeded(p, r) /\ Reconnect(p)
    \/ Transient(p, r) /\ Retry(p, FALSE) /\ UNCHANGED <<try, connected, handle, cancelled>>
    \/ /\ ~ Accepted(p, r) /\ ~ ReconnectNeeded(p, r) /\ ~ Transient(p, r)
       /\ Return(p)
       /\ UNCHANGED <<connected, handle, cancelled, tickFailed>>

(* A reply is taken from the channel, whatever it answers.                 *)
Receive(p) ==
    /\ pc[p] = "await" /\ op[p] # "broadcast" /\ replies # <<>>
    /\ LET r == Head(replies)
       IN  /\ Handle(p, r)
           /\ misread' = (misread \/ r.by # p \/ r.cmd # CommandOf(p))
           /\ IF Transient(p, r)
              THEN requests' = requests /\ replies' = Tail(replies)
              ELSE requests' = Old(requests) /\ replies' = Stray(Tail(replies))
    /\ UNCHANGED <<closed, listening, session, booted>>

(* broadcast collects whatever comes.                                      *)
Collect(p) ==
    /\ pc[p] = "await" /\ op[p] = "broadcast" /\ replies # <<>>
    /\ replies' = Tail(replies)
    /\ UNCHANGED <<lockQ, pc, callVars, hostVars, requests, session, booted, histVars>>

(* The keepalive task is awaited while the lock is held.                   *)
Join(c) ==
    /\ pc[c] = "join" /\ pc[Keepalive] = "dead"
    /\ IF op[c] = "disconnect"
       THEN Return(c) /\ closed' = TRUE /\ listening' = FALSE /\ replies' = <<>>
       ELSE /\ Goes(c, "send")
            /\ UNCHANGED <<lockQ, callVars, closed, listening, replies, slow, late>>
    /\ UNCHANGED <<connected, handle, cancelled, requests, session, booted, misread, tickFailed>>

(* disconnect: CMD_DISCONNECT is sent without a wait when connected, then  *)
(* the keepalive is stopped.                                               *)
Disconnect(c) ==
    /\ Ready(c) /\ op[c] = "disconnect"
    /\ IF connected THEN Sent("disconnect", Nobody) ELSE UNCHANGED requests
    /\ connected' = FALSE
    /\ TakeHandle
    /\ Goes(c, "join")
    /\ UNCHANGED <<lockQ, callVars, closed, listening, replies, session, booted,
                   slow, late, misread>>

(* Session::drop without a disconnect: the tasks are aborted, wherever     *)
(* they wait, and with the keepalive its place in the queue of the lock.   *)
Drop ==
    /\ ~ closed /\ \A c \in Callers : pc[c] = "idle"
    /\ closed' = TRUE /\ listening' = FALSE
    /\ handle' = FALSE /\ cancelled' = FALSE /\ tickFailed' = FALSE
    /\ Goes(Keepalive, "dead")
    /\ lockQ' = <<>>
    /\ requests' = Old(requests) /\ replies' = <<>>
    /\ UNCHANGED <<callVars, connected, session, booted, slow, late, misread>>

-----------------------------------------------------------------------------
(* The keepalive task.                                                     *)

(* Mutated form of Tick: the tick does not take the lock.                  *)
TickUnlocked ==
    /\ pc[Keepalive] = "sleep" /\ ~ cancelled
    /\ Sent("health", Keepalive)
    /\ UNCHANGED <<lockQ, pc, callVars, hostVars, replies, session, booted, histVars>>

(* The interval is over: the tick asks for the lock, and no longer listens *)
(* to cancel_rx.                                                           *)
Tick ==
    /\ pc[Keepalive] = "sleep" /\ ~ cancelled
    /\ Goes(Keepalive, "queued")
    /\ lockQ' = Append(lockQ, Keepalive)
    /\ UNCHANGED <<callVars, hostVars, busVars, histVars>>

Cancelled ==
    /\ pc[Keepalive] = "sleep" /\ cancelled
    /\ Goes(Keepalive, "dead")
    /\ cancelled' = FALSE
    /\ UNCHANGED <<lockQ, callVars, connected, handle, closed, listening, busVars, histVars>>

-----------------------------------------------------------------------------
(* The receive task, the device and the bus.                               *)

(* recv of the backend fails: the task ends, and with it the channel.      *)
ReceiveTaskEnds ==
    /\ listening
    /\ listening' = FALSE
    /\ UNCHANGED <<lockQ, pc, callVars, connected, handle, cancelled, closed, busVars, histVars>>

SessionAfter(cmd) == cmd = "connect" \/ (session /\ cmd # "disconnect")

(* A message that lost a frame, or was sent in part, is refused unread, a  *)
(* session-gated command without a session after it was read.              *)
Answers(m) ==
    IF m.says = "transport" THEN {"transport"}
    ELSE IF m.cmd = "broadcast" THEN {"ack"}
    ELSE {"transport", IF m.cmd = "gated" /\ ~ session THEN "bad_session" ELSE "ack"}

(* Mutated form of Room: a reply channel without a capacity.               *)
RoomUnbounded == Responders + 1

Room == IF listening THEN ReplyRoom - Len(replies) ELSE 0

(* The bootloader takes a command; its answers reach the channel or are    *)
(* lost.                                                                   *)
DevAnswers ==
    /\ requests # <<>> /\ booted
    /\ LET m == Head(requests)
       IN  \E says \in Answers(m),
              n \in 0 .. IF m.cmd = "broadcast" THEN Responders ELSE 1 :
               /\ m.cmd # "trigger"
               /\ session' = IF says = "transport" THEN session ELSE SessionAfter(m.cmd)
               /\ n <= Room
               /\ replies' = replies \o [i \in 1 .. n |-> Reply(m.cmd, says, m.by)]
    /\ requests' = Tail(requests)
    /\ UNCHANGED <<lockQ, pc, callVars, hostVars, booted, histVars>>

(* The application knows the trigger only, which the bootloader ignores.   *)
DevIgnores ==
    /\ requests # <<>>
    /\ ~ booted \/ Head(requests).cmd = "trigger"
    /\ booted' = (booted \/ Head(requests).cmd = "trigger")
    /\ requests' = Tail(requests)
    /\ UNCHANGED <<lockQ, pc, callVars, hostVars, replies, session, histVars>>

(* The watchdog of the device, its reset, or its jump to the application.  *)
SessionDropped ==
    /\ booted
    /\ session' = FALSE
    /\ booted' \in BOOLEAN
    /\ UNCHANGED <<lockQ, pc, callVars, hostVars, requests, replies, histVars>>

Step(p) == \/ Send(p) \/ SendFails(p) \/ TimeOut(p) \/ RxClosed(p) \/ Receive(p)

CallerStep(c) == \/ Step(c) \/ Join(c) \/ Disconnect(c) \/ Collect(c)
                 \/ Trigger(c) \/ TriggerFails(c) \/ Probe(c)

KeepaliveStep == Step(Keepalive) \/ Tick \/ Cancelled

Next == \/ \E c \in Callers : CallerStep(c) \/ \E o \in Uses[c] : Call(c, o)
        \/ KeepaliveStep \/ Drop \/ ReceiveTaskEnds
        \/ DevAnswers \/ DevIgnores \/ SessionDropped

(* The executor runs every task that is ready; the device owes nothing.    *)
Spec == /\ Init /\ [][Next]_vars
        /\ \A c \in Callers : WF_vars(CallerStep(c))
        /\ WF_vars(KeepaliveStep)

-----------------------------------------------------------------------------
InFlight == [i \in 1 .. Len(replies) + Len(requests) |-> (replies \o requests)[i]]

Awaited == {i \in DOMAIN InFlight : InFlight[i].by # Nobody}

(* "Exactly one command is in flight at a time", keepalive ticks, probes   *)
(* and the commands of a reconnect included: only a retried command and a  *)
(* broadcast have several messages under way, and nobody else has one.     *)
OneInFlight ==
    \A i, j \in Awaited :
        i # j => /\ InFlight[i].by = InFlight[j].by
                 /\ op[InFlight[i].by] \in {"retrying", "broadcast"}

(* The channel carries no command number: a reply is the answer to a       *)
(* command of the call that waits for it, as long as no call before it was *)
(* over with a wait that timed out, or with a command that was sent in     *)
(* part.  The attempts of one retried command may answer for each other.   *)
RepliesMatch == misread => late

(* A connected session has a keepalive task that runs, unless a tick of it *)
(* failed: also after a reconnect.  None outlives its session.             *)
KeepaliveRuns ==
    /\ connected /\ ~ closed /\ ~ tickFailed => pc[Keepalive] # "dead" /\ ~ cancelled
    /\ closed => pc[Keepalive] = "dead"

(* The keepalive waits for the lock of the one who waits for it.           *)
JoinHangs ==
    /\ \E c \in Callers : pc[c] = "join"
    /\ pc[Keepalive] = "queued"

(* Whatever the device does not answer, every call returns, but for the    *)
(* one way to hang: the probes and the retries come to an end as well.     *)
ReturnsUnlessJoinHangs ==
    \A c \in Callers : pc[c] # "idle" ~> pc[c] = "idle" \/ JoinHangs

(* What "Reliability invariant -- no unbounded .await in this module"      *)
(* promises: every call returns.                                           *)
AwaitsBounded == \A c \in Callers : pc[c] # "idle" ~> pc[c] = "idle"
=============================================================================
