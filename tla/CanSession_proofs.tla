-------------------------- MODULE CanSession_proofs --------------------------
(***************************************************************************)
(* Theorems about CanSession, for any number of callers, whatever each of  *)
(* them calls, and any bound on attempts, on the bus and on the channel.   *)
(*                                                                         *)
(* The argument: who sends, waits for an answer or joins the keepalive is  *)
(* at the head of the lock (Queue); a message somebody still waits for was *)
(* sent by a call that awaits, or that backs off between two attempts      *)
(* (Waited); so all such messages belong to the head.  A message nobody    *)
(* waits for is left by a call that timed out, or that could send a        *)
(* command in part only (Strays), unless the session closes.  And the head *)
(* alone starts or takes the keepalive (Kept).  So the head can always go  *)
(* on, but for one deadlock (OnlyJoinHangs).                               *)
(***************************************************************************)
EXTENDS CanSession, SequenceTheorems, TLAPS

InLock(p) == pc[p] \in {"queued", "send", "await", "join"}

Owns(p) == pc[p] \in {"send", "await", "join"}

(* TypeOK in parts, and what it leaves out: the domain of op.              *)
CallTypes ==
    /\ pc \in [Proc -> {"idle", "trigger", "pause", "queued", "send", "await",
                        "join", "sleep", "dead"}]
    /\ \A p \in Proc : op[p] = Resting(p) \/ (p # Keepalive /\ op[p] \in Uses[p])
    /\ op \in [Proc -> Commands \cup {"none", "entering"}]
    /\ stage \in [Proc -> {"first", "connect", "retry"}]
    /\ try \in [Proc -> 0 .. Tries]

BusTypes ==
    /\ requests \in Seq(Message) /\ Len(requests) <= BusRoom
    /\ replies \in Seq(Message) /\ Len(replies) <= ReplyRoom

FlagTypes ==
    /\ connected \in BOOLEAN /\ handle \in BOOLEAN /\ cancelled \in BOOLEAN
    /\ closed \in BOOLEAN /\ listening \in BOOLEAN
    /\ session \in BOOLEAN /\ booted \in BOOLEAN
    /\ slow \in BOOLEAN /\ late \in BOOLEAN
    /\ misread \in BOOLEAN /\ tickFailed \in BOOLEAN

Typed == CallTypes /\ lockQ \in Seq(Proc) /\ BusTypes /\ FlagTypes

(* Nobody asks twice for the lock, and none but its holder goes on.        *)
Queue == /\ \A i, j \in 1 .. Len(lockQ) : lockQ[i] = lockQ[j] => i = j
         /\ \A i \in 1 .. Len(lockQ) : InLock(lockQ[i])
         /\ \A p \in Proc : Owns(p) => Holds(p)

(* The methods: where a task is tells what it may be in, and an attempt is *)
(* left when one is due.                                                   *)
Calls == /\ \A c \in Callers : pc[c] = "idle" <=> op[c] = "none"
         /\ \A c \in Callers : pc[c] \notin {"sleep", "dead"}
         /\ pc[Keepalive] \in {"sleep", "queued", "await", "dead"}
         /\ \A p \in Proc : pc[p] \in {"trigger", "pause"} => op[p] = "entering"
         /\ \A p \in Proc : pc[p] = "join" => op[p] \in {"gated", "disconnect"}
         /\ \A p \in Proc : pc[p] = "idle" => try[p] = 0
         /\ \A p \in Proc : \/ pc[p] \in {"trigger", "pause"}
                            \/ pc[p] \in {"queued", "send"} /\ op[p] = "retrying"
                            => try[p] < Tries

(* disconnect consumes the session, and nobody calls a closed one.         *)
Consumed ==
    /\ \A c, d \in Callers : op[c] = "disconnect" /\ d # c => pc[d] = "idle"
    /\ closed => /\ \A c \in Callers : pc[c] = "idle"
                 /\ pc[Keepalive] = "dead"
                 /\ ~ listening

(* The keepalive task and its handle.                                      *)
Kept ==
    /\ connected => handle \/ closed
    /\ handle => ~ cancelled /\ ~ closed
    /\ handle /\ ~ tickFailed => pc[Keepalive] # "dead"
    /\ cancelled \/ (pc[Keepalive] # "dead" /\ ~ handle)
           => \E c \in Callers : pc[c] = "join"
    /\ cancelled => pc[Keepalive] # "dead"
    /\ \A c \in Callers : pc[c] = "join" => ~ handle /\ ~ connected

(* p waits for a message that is under way, or for two.                    *)
Under(p) == \/ \E i \in 1 .. Len(requests) : requests[i].by = p
            \/ \E i \in 1 .. Len(replies) : replies[i].by = p

Twice(p) == \/ \E i, j \in 1 .. Len(requests) :
                   i # j /\ requests[i].by = p /\ requests[j].by = p
            \/ \E i, j \in 1 .. Len(replies) :
                   i # j /\ replies[i].by = p /\ replies[j].by = p
            \/ \E i \in 1 .. Len(requests), j \in 1 .. Len(replies) :
                   requests[i].by = p /\ replies[j].by = p

Waited ==
    /\ \A p \in Proc : Under(p) => pc[p] = "await" \/ (pc[p] = "send" /\ op[p] = "retrying")
    /\ \A p \in Proc : Twice(p) => op[p] \in {"retrying", "broadcast"}
    /\ \A i \in 1 .. Len(requests) :
           requests[i].by # Nobody => requests[i].cmd = CommandOf(requests[i].by)
    /\ \A i \in 1 .. Len(replies) :
           replies[i].by # Nobody => replies[i].cmd = CommandOf(replies[i].by)

(* As long as no call was slow, an attempt is over when the next is made.  *)
OneAttempt ==
    ~ late /\ ~ slow =>
        \A p \in Proc : /\ Under(p) => pc[p] = "await"
                        /\ Twice(p) => op[p] = "broadcast"

Closing == closed \/ \E c \in Callers : pc[c] = "join" /\ op[c] = "disconnect"

Strays ==
    /\ \A i \in 1 .. Len(replies) : replies[i].by = Nobody => late \/ Closing
    /\ \A i \in 1 .. Len(requests) :
           requests[i].by = Nobody => \/ late \/ ~ listening
                                      \/ requests[i].cmd = "trigger"
                                      \/ requests[i].cmd = "disconnect" /\ Closing

Inv == /\ Typed /\ Queue /\ Calls /\ Consumed /\ Kept
       /\ Waited /\ OneAttempt /\ Strays /\ RepliesMatch

-----------------------------------------------------------------------------
(* Messages.                                                               *)

LEMMA ProcFacts ==
    /\ Keepalive \in Proc /\ Nobody \notin Proc /\ Keepalive # Nobody
    /\ Keepalive \notin Callers /\ Callers \subseteq Proc
    /\ \A p \in Proc : p # Nobody /\ (p \in Callers \/ p = Keepalive)
BY CanAssumption DEF Proc, Keepalive, Nobody

LEMMA SeqOfFcn ==
    ASSUME NEW S, NEW n \in Nat, NEW f \in [1 .. n -> S]
    PROVE  f \in Seq(S) /\ Len(f) = n
<1>1. f \in Seq(S)
    BY SeqDef
<1> QED
    BY <1>1

(* Old forgets who waits, and nothing else.                                *)
LEMMA OldProps ==
    ASSUME NEW s \in Seq(Message)
    PROVE  /\ Old(s) \in Seq(Message) /\ Len(Old(s)) = Len(s)
           /\ \A i \in 1 .. Len(s) : Old(s)[i].by = Nobody /\ Old(s)[i].cmd = s[i].cmd
<1>1. Len(s) \in Nat /\ DOMAIN s = 1 .. Len(s) /\ \A i \in 1 .. Len(s) : s[i] \in Message
    OBVIOUS
<1>2. \A m \in Message : /\ [m EXCEPT !.by = Nobody] \in Message
                         /\ [m EXCEPT !.by = Nobody].by = Nobody
                         /\ [m EXCEPT !.by = Nobody].cmd = m.cmd
    BY DEF Message
<1>3. Old(s) \in [1 .. Len(s) -> Message]
    BY <1>1, <1>2 DEF Old
<1> QED
    BY <1>1, <1>2, <1>3, SeqOfFcn DEF Old

(* Stray forgets who waits, and what is answered.                          *)
LEMMA StrayProps ==
    ASSUME NEW s \in Seq(Message)
    PROVE  /\ Stray(s) \in Seq(Message) /\ Len(Stray(s)) = Len(s)
           /\ \A i \in 1 .. Len(s) : Stray(s)[i].by = Nobody
<1>1. Len(s) \in Nat /\ DOMAIN s = 1 .. Len(s) /\ \A i \in 1 .. Len(s) : s[i] \in Message
    OBVIOUS
<1>2. \A m \in Message : /\ Reply(m.cmd, m.says, Nobody) \in Message
                         /\ Reply(m.cmd, m.says, Nobody).by = Nobody
    BY DEF Message, Reply, Commands
<1>3. Stray(s) \in [1 .. Len(s) -> Message]
    BY <1>1, <1>2 DEF Stray
<1> QED
    BY <1>1, <1>2, <1>3, SeqOfFcn DEF Stray

(* What is sent is the last request, or lost.                              *)
LEMMA SentProps ==
    ASSUME Typed, NEW cmd \in Commands, NEW by \in Proc \cup {Nobody}, Sent(cmd, by)
    PROVE  /\ requests' \in Seq(Message) /\ Len(requests') <= BusRoom
           /\ Len(requests') \in {Len(requests), Len(requests) + 1}
           /\ \A i \in 1 .. Len(requests) : requests'[i] = requests[i]
           /\ Len(requests') = Len(requests) + 1
                  => /\ requests'[Len(requests) + 1].by = by
                     /\ requests'[Len(requests) + 1].cmd = cmd
<1>1. requests \in Seq(Message) /\ Len(requests) <= BusRoom /\ BusRoom \in Nat
    BY CanAssumption DEF Typed, CallTypes, BusTypes
<1>2. [cmd |-> cmd, says |-> "ack", by |-> by] \in Message
    BY DEF Message
<1>3. CASE requests' = requests
    BY <1>1, <1>3
<1>4. CASE /\ Len(requests) < BusRoom
           /\ requests' = Append(requests, [cmd |-> cmd, says |-> "ack", by |-> by])
    BY <1>1, <1>2, <1>4
<1> QED
    BY <1>3, <1>4 DEF Sent

(* What the calls that go on wait for stays what it was.                   *)
LEMMA TailProps ==
    ASSUME NEW s \in Seq(Message), s # <<>>
    PROVE  /\ Tail(s) \in Seq(Message) /\ Len(Tail(s)) = Len(s) - 1 /\ Len(s) \in Nat \ {0}
           /\ Head(s) = s[1] /\ Head(s) \in Message
           /\ \A i \in 1 .. Len(Tail(s)) : Tail(s)[i] = s[i + 1] /\ i + 1 \in 1 .. Len(s)
OBVIOUS

(* The answers of the device to the request at the head.                   *)
Answered(r, n, a) ==
    n \in Nat /\ n <= Room /\ a \in [1 .. n -> {r}] /\ replies' = replies \o a

LEMMA AnswerProps ==
    ASSUME Typed, NEW r \in Message, NEW n, NEW a, Answered(r, n, a)
    PROVE  /\ replies' \in Seq(Message) /\ Len(replies') <= ReplyRoom
           /\ Len(replies') = Len(replies) + n
           /\ \A i \in 1 .. Len(replies) : replies'[i] = replies[i]
           /\ \A i \in Len(replies) + 1 .. Len(replies) + n : replies'[i] = r
<1>1. replies \in Seq(Message) /\ Len(replies) <= ReplyRoom /\ ReplyRoom \in Nat
      /\ Len(replies) \in Nat
    BY CanAssumption DEF Typed, CallTypes, BusTypes
<1>0. n \in Nat /\ n <= Room /\ a \in [1 .. n -> {r}] /\ replies' = replies \o a
    BY DEF Answered
<1>2. a \in [1 .. n -> Message] /\ \A i \in 1 .. n : a[i] = r
    BY <1>0
<1>3. a \in Seq(Message) /\ Len(a) = n
    BY <1>0, <1>2, SeqOfFcn
<1>4. n <= ReplyRoom - Len(replies) \/ n = 0
    BY <1>0 DEF Room
<1>5. /\ replies \o a \in Seq(Message) /\ Len(replies \o a) = Len(replies) + Len(a)
      /\ \A i \in 1 .. Len(replies) + Len(a) :
             (replies \o a)[i] = IF i <= Len(replies) THEN replies[i]
                                ELSE a[i - Len(replies)]
    BY <1>1, <1>3, ConcatProperties
<1>6. \A i \in Len(replies) + 1 .. Len(replies) + n : replies'[i] = r
    BY <1>0, <1>1, <1>2, <1>3, <1>5
<1>7. \A i \in 1 .. Len(replies) : replies'[i] = replies[i]
    BY <1>0, <1>1, <1>3, <1>5
<1> QED
    BY <1>0, <1>1, <1>3, <1>4, <1>5, <1>6, <1>7

-----------------------------------------------------------------------------
(* The lock.                                                               *)

LEMMA OneHolder ==
    ASSUME NEW p \in Proc, Queue, Owns(p) \/ Holds(p)
    PROVE  \A q \in Proc : Owns(q) \/ Holds(q) => q = p
BY DEF Queue, Holds

(* A step that leaves the lock alone.                                      *)
LEMMA QueueStays ==
    ASSUME Typed, Queue, lockQ' = lockQ,
           \A p \in Proc : (InLock(p) => InLock(p)') /\ (Owns(p)' => Holds(p))
    PROVE  Queue'
<1>1. \A i \in 1 .. Len(lockQ) : lockQ[i] \in Proc
    BY DEF Typed, CallTypes, BusTypes
<1>2. \A p : Holds(p)' = Holds(p)
    BY DEF Holds
<1> QED
    BY <1>1, <1>2 DEF Queue

(* p asks for it.                                                          *)
LEMMA QueueEnter ==
    ASSUME Typed, Queue, NEW p \in Proc, ~ InLock(p),
           lockQ' = Append(lockQ, p), pc' = [pc EXCEPT ![p] = "queued"]
    PROVE  Queue' /\ lockQ' \in Seq(Proc)
<1>1. lockQ \in Seq(Proc)
    BY DEF Typed, CallTypes, BusTypes
<1>2. lockQ' \in Seq(Proc) /\ Len(lockQ') = Len(lockQ) + 1 /\ Len(lockQ) \in Nat
      /\ \A i \in 1 .. Len(lockQ) : lockQ'[i] = lockQ[i] /\ lockQ[i] \in Proc
    BY <1>1
<1>3. lockQ'[Len(lockQ) + 1] = p
    BY <1>1
<1>4. \A q \in Proc : /\ InLock(q) => InLock(q)'
                      /\ Owns(q)' => Owns(q) /\ q # p
    BY DEF Typed, CallTypes, BusTypes, InLock, Owns
<1>5. InLock(p)'
    BY DEF Typed, CallTypes, BusTypes, InLock
<1>6. \A q \in Proc : Holds(q) => Holds(q)'
    BY <1>1, <1>2 DEF Holds
<1>7. \A i \in 1 .. Len(lockQ) : lockQ[i] # p
    BY DEF Queue
<1>8. \A i \in 1 .. Len(lockQ') : i \in 1 .. Len(lockQ) \/ i = Len(lockQ) + 1
    BY <1>2
<1>9. \A i, j \in 1 .. Len(lockQ') : lockQ'[i] = lockQ'[j] => i = j
    BY <1>2, <1>3, <1>7, <1>8 DEF Queue
<1>10. \A i \in 1 .. Len(lockQ') : InLock(lockQ[i])'
    BY <1>2, <1>3, <1>4, <1>5, <1>8 DEF Queue, InLock
<1> QED
    BY <1>2, <1>4, <1>6, <1>9, <1>10 DEF Queue

(* Its holder p lets go of it.                                             *)
LEMMA QueueLeave ==
    ASSUME Typed, Queue, NEW p \in Proc, Holds(p), lockQ' = Tail(lockQ),
           \A q \in Proc \ {p} : InLock(q) => InLock(q)',
           \A q \in Proc : ~ Owns(q)'
    PROVE  Queue' /\ lockQ' \in Seq(Proc)
<1>1. lockQ \in Seq(Proc) /\ lockQ # <<>> /\ lockQ[1] = p
    BY DEF Typed, CallTypes, BusTypes, Holds
<1>2. /\ lockQ' \in Seq(Proc) /\ Len(lockQ') = Len(lockQ) - 1 /\ Len(lockQ) \in Nat \ {0}
      /\ \A i \in 1 .. Len(lockQ') : /\ lockQ'[i] = lockQ[i + 1]
                                     /\ i + 1 \in 1 .. Len(lockQ) /\ i + 1 # 1
                                     /\ lockQ[i + 1] \in Proc
    BY <1>1
<1>3. 1 \in 1 .. Len(lockQ)
    BY <1>2
<1>4. \A i \in 1 .. Len(lockQ') : lockQ'[i] # p
    BY <1>1, <1>2, <1>3 DEF Queue
<1>5. \A i \in 1 .. Len(lockQ') : InLock(lockQ[i])'
    BY <1>2, <1>4 DEF Queue, InLock
<1>6. \A i, j \in 1 .. Len(lockQ') : lockQ'[i] = lockQ'[j] => i = j
    <2> TAKE i, j \in 1 .. Len(lockQ')
    <2> HAVE lockQ'[i] = lockQ'[j]
    <2>1. i + 1 = j + 1
        BY <1>2 DEF Queue
    <2> QED
        BY <2>1, <1>2
<1> QED
    BY <1>2, <1>5, <1>6 DEF Queue

-----------------------------------------------------------------------------
(* Who waits for what is under way.                                        *)

Messages == Waited /\ OneAttempt /\ Strays /\ RepliesMatch

(* Only the holder of the lock has messages under way.                     *)
LEMMA UnderOwns ==
    ASSUME Waited, NEW p \in Proc, Under(p)
    PROVE  Owns(p)
BY DEF Waited, Owns

LEMMA MessageProps ==
    ASSUME NEW m \in Message
    PROVE  /\ m.cmd \in Commands /\ m.says \in {"ack", "bad_session", "transport"}
           /\ m.by \in Proc \/ m.by = Nobody
BY DEF Message

LEMMA UnderSent ==
    ASSUME Typed, NEW cmd \in Commands, NEW by \in Proc \cup {Nobody}, Sent(cmd, by),
           replies' = replies
    PROVE  \A q \in Proc : /\ Under(q)' => Under(q) \/ q = by
                           /\ Twice(q)' => Twice(q) \/ (q = by /\ Under(q))
<1>1. /\ Len(requests') \in {Len(requests), Len(requests) + 1} /\ Len(requests) \in Nat
      /\ \A i \in 1 .. Len(requests) : requests'[i] = requests[i]
      /\ Len(requests') = Len(requests) + 1 => requests'[Len(requests) + 1].by = by
    BY SentProps DEF Typed, CallTypes, BusTypes
<1>2. \A i \in 1 .. Len(requests') :
          \/ i \in 1 .. Len(requests) /\ requests'[i] = requests[i]
          \/ i = Len(requests) + 1 /\ requests'[i].by = by
    BY <1>1
<1>3. ASSUME NEW q \in Proc, Under(q)' PROVE Under(q) \/ q = by
    BY <1>2, <1>3 DEF Under
<1>4. ASSUME NEW q \in Proc, Twice(q)' PROVE Twice(q) \/ (q = by /\ Under(q))
    BY <1>2, <1>4 DEF Under, Twice
<1> QED
    BY <1>3, <1>4

(* A reply is taken from the channel.                                      *)
LEMMA UnderTaken ==
    ASSUME Typed, replies # <<>>, replies' = Tail(replies), requests' = requests
    PROVE  \A q \in Proc : /\ Under(q)' => Under(q)
                           /\ Twice(q)' => Twice(q)
                           /\ Under(q)' /\ Head(replies).by = q => Twice(q)
<1>1. /\ Head(replies) = replies[1] /\ 1 \in 1 .. Len(replies)
      /\ \A i \in 1 .. Len(replies') : /\ replies'[i] = replies[i + 1]
                                       /\ i + 1 \in 1 .. Len(replies) /\ i + 1 # 1
      /\ Len(replies) \in Nat /\ Len(replies') = Len(replies) - 1
    BY TailProps DEF Typed, CallTypes, BusTypes
<1>2. ASSUME NEW q \in Proc, Under(q)' PROVE Under(q)
    BY <1>1, <1>2 DEF Under
<1>3. ASSUME NEW q \in Proc, Twice(q)' PROVE Twice(q)
    <2>1. CASE \E i, j \in 1 .. Len(replies') :
                   i # j /\ replies'[i].by = q /\ replies'[j].by = q
        <3>1. PICK i, j \in 1 .. Len(replies') :
                   i # j /\ replies'[i].by = q /\ replies'[j].by = q
            BY <2>1
        <3>2. i + 1 # j + 1 /\ replies[i + 1].by = q /\ replies[j + 1].by = q
            BY <3>1, <1>1
        <3> QED
            BY <3>2, <1>1 DEF Twice
    <2>2. CASE \E i \in 1 .. Len(requests), j \in 1 .. Len(replies') :
                   requests[i].by = q /\ replies'[j].by = q
        BY <2>2, <1>1 DEF Twice
    <2> QED
        BY <1>3, <2>1, <2>2 DEF Twice
<1>4. ASSUME NEW q \in Proc, Under(q)', Head(replies).by = q PROVE Twice(q)
    BY <1>1, <1>4 DEF Under, Twice
<1> QED
    BY <1>2, <1>3, <1>4

(* The request at the head is lost.                                        *)
LEMMA UnderLost ==
    ASSUME Typed, requests # <<>>, requests' = Tail(requests), replies' = replies
    PROVE  \A q \in Proc : (Under(q)' => Under(q)) /\ (Twice(q)' => Twice(q))
<1>1. /\ \A i \in 1 .. Len(requests') : /\ requests'[i] = requests[i + 1]
                                        /\ i + 1 \in 1 .. Len(requests)
      /\ Len(requests) \in Nat /\ Len(requests') = Len(requests) - 1
    BY TailProps DEF Typed, CallTypes, BusTypes
<1>2. ASSUME NEW q \in Proc, Under(q)' PROVE Under(q)
    BY <1>1, <1>2 DEF Under
<1>3. ASSUME NEW q \in Proc, Twice(q)' PROVE Twice(q)
    <2>1. CASE \E i, j \in 1 .. Len(requests') :
                   i # j /\ requests'[i].by = q /\ requests'[j].by = q
        <3>1. PICK i, j \in 1 .. Len(requests') :
                   i # j /\ requests'[i].by = q /\ requests'[j].by = q
            BY <2>1
        <3>2. i + 1 # j + 1 /\ requests[i + 1].by = q /\ requests[j + 1].by = q
            BY <3>1, <1>1
        <3> QED
            BY <3>2, <1>1 DEF Twice
    <2>2. CASE \E i \in 1 .. Len(requests'), j \in 1 .. Len(replies) :
                   requests'[i].by = q /\ replies[j].by = q
        BY <2>2, <1>1 DEF Twice
    <2> QED
        BY <1>3, <2>1, <2>2 DEF Twice
<1> QED
    BY <1>2, <1>3

(* It is answered: only a broadcast by more than one reply.                *)
LEMMA UnderAnswered ==
    ASSUME Typed, requests # <<>>, requests' = Tail(requests),
           NEW r \in Message, r.by = Head(requests).by, NEW n, NEW a, Answered(r, n, a)
    PROVE  \A q \in Proc : /\ Under(q)' => Under(q)
                           /\ Twice(q)' => Twice(q) \/ (r.by = q /\ n > 1)
<1>0. requests \in Seq(Message) /\ replies \in Seq(Message) /\ Head(requests) \in Message
    BY DEF Typed, CallTypes, BusTypes
<1>1. /\ \A i \in 1 .. Len(requests') : /\ requests'[i] = requests[i + 1]
                                        /\ i + 1 \in 1 .. Len(requests) /\ i + 1 # 1
      /\ Head(requests) = requests[1] /\ 1 \in 1 .. Len(requests)
      /\ Len(requests) \in Nat /\ Len(requests') = Len(requests) - 1
    BY <1>0, TailProps
<1>2. /\ Len(replies') = Len(replies) + n /\ Len(replies) \in Nat
      /\ \A i \in 1 .. Len(replies) : replies'[i] = replies[i]
      /\ \A i \in Len(replies) + 1 .. Len(replies) + n : replies'[i] = r
      /\ n \in Nat
    <2>1. n \in Nat
        BY DEF Answered
    <2> QED
        BY <2>1, AnswerProps DEF Typed, CallTypes, BusTypes
<1>3. \A i \in 1 .. Len(replies') :
          \/ i \in 1 .. Len(replies) /\ replies'[i] = replies[i]
          \/ i \in Len(replies) + 1 .. Len(replies) + n /\ replies'[i].by = requests[1].by
    BY <1>1, <1>2
<1>4. ASSUME NEW q \in Proc, Under(q)' PROVE Under(q)
    BY <1>1, <1>3, <1>4 DEF Under
<1>5. ASSUME NEW q \in Proc, Twice(q)', ~ (requests[1].by = q /\ n > 1) PROVE Twice(q)
    <2>1. CASE \E i, j \in 1 .. Len(requests') :
                   i # j /\ requests'[i].by = q /\ requests'[j].by = q
        <3>1. PICK i, j \in 1 .. Len(requests') :
                   i # j /\ requests'[i].by = q /\ requests'[j].by = q
            BY <2>1
        <3>2. i + 1 # j + 1 /\ requests[i + 1].by = q /\ requests[j + 1].by = q
            BY <3>1, <1>1
        <3> QED
            BY <3>2, <1>1 DEF Twice
    <2>2. CASE \E i, j \in 1 .. Len(replies') :
                   i # j /\ replies'[i].by = q /\ replies'[j].by = q
        <3>1. PICK i, j \in 1 .. Len(replies') :
                   i # j /\ replies'[i].by = q /\ replies'[j].by = q
            BY <2>2
        <3>2. CASE i \in 1 .. Len(replies) /\ j \in 1 .. Len(replies)
            BY <3>1, <3>2, <1>2 DEF Twice
        <3>3. CASE i \in 1 .. Len(replies) <=> j \notin 1 .. Len(replies)
            BY <3>1, <3>3, <1>1, <1>3 DEF Twice
        <3>4. CASE i \notin 1 .. Len(replies) /\ j \notin 1 .. Len(replies)
            <4>1. requests[1].by = q
                BY <3>1, <3>4, <1>3
            <4>2. n <= 1
                BY <4>1, <1>2, <1>5
            <4>3. i = j
                BY <4>2, <3>4, <1>2
            <4> QED
                BY <4>3, <3>1
        <3> QED
            BY <3>2, <3>3, <3>4
    <2>3. CASE \E i \in 1 .. Len(requests'), j \in 1 .. Len(replies') :
                   requests'[i].by = q /\ replies'[j].by = q
        <3>1. PICK i \in 1 .. Len(requests'), j \in 1 .. Len(replies') :
                   requests'[i].by = q /\ replies'[j].by = q
            BY <2>3
        <3>2. i + 1 \in 1 .. Len(requests) /\ i + 1 # 1 /\ requests[i + 1].by = q
            BY <3>1, <1>1
        <3>3. CASE j \in 1 .. Len(replies)
            BY <3>1, <3>2, <3>3, <1>2 DEF Twice
        <3>4. CASE j \notin 1 .. Len(replies)
            BY <3>1, <3>2, <3>4, <1>1, <1>3 DEF Twice
        <3> QED
            BY <3>3, <3>4
    <2> QED
        BY <1>5, <2>1, <2>2, <2>3 DEF Twice
<1> QED
    BY <1>1, <1>4, <1>5

(* A step that leaves the messages and those who wait for them alone.      *)
LEMMA MessagesStay ==
    ASSUME Messages, UNCHANGED <<requests, replies, misread>>,
           \A q \in Proc : Under(q) => /\ pc'[q] = pc[q] /\ op'[q] = op[q]
                                       /\ stage'[q] = stage[q],
           late => late', listening' => listening,
           ~ late' /\ ~ slow' => ~ late /\ ~ slow, Closing => Closing',
           requests \in Seq(Message), replies \in Seq(Message)
    PROVE  Messages'
<1>1. \A q : Under(q)' = Under(q) /\ Twice(q)' = Twice(q)
    BY DEF Under, Twice
<1>2. \A q : Twice(q) => Under(q)
    BY DEF Under, Twice
<1>3. \A q \in Proc : Under(q) => CommandOf(q)' = CommandOf(q)
    BY DEF CommandOf
<1>4. /\ \A i \in 1 .. Len(requests) :
             requests[i].by # Nobody => requests[i].by \in Proc /\ Under(requests[i].by)
      /\ \A i \in 1 .. Len(replies) :
             replies[i].by # Nobody => replies[i].by \in Proc /\ Under(replies[i].by)
    <2>1. /\ \A i \in 1 .. Len(requests) : requests[i] \in Message
          /\ \A i \in 1 .. Len(replies) : replies[i] \in Message
        OBVIOUS
    <2> QED
        BY <2>1, MessageProps DEF Under
<1>5. Waited'
    BY <1>1, <1>2, <1>3, <1>4 DEF Messages, Waited, CommandOf
<1>6. OneAttempt'
    BY <1>1, <1>2 DEF Messages, OneAttempt
<1> QED
    BY <1>5, <1>6 DEF Messages, Strays, RepliesMatch

(* A step after which nobody waits for a message.                          *)
LEMMA MessagesOver ==
    ASSUME BusTypes', \A q \in Proc : ~ Under(q)', Strays', RepliesMatch'
    PROVE  Messages'
<1>1. \A q \in Proc : ~ Twice(q)'
    BY DEF Under, Twice
<1>2. /\ \A i \in 1 .. Len(requests') : requests'[i].by = Nobody
      /\ \A i \in 1 .. Len(replies') : replies'[i].by = Nobody
    <2>1. /\ \A i \in 1 .. Len(requests') : requests'[i] \in Message
          /\ \A i \in 1 .. Len(replies') : replies'[i] \in Message
        BY DEF Typed, CallTypes, BusTypes
    <2> QED
        BY <2>1, MessageProps DEF Under
<1> QED
    BY <1>1, <1>2 DEF Messages, Waited, OneAttempt

(* A call that is over forgets its messages: they are strays when it was   *)
(* slow, and there are none when it was not.                               *)
LEMMA StraysOfCall ==
    ASSUME Typed, Messages, late => late', listening' = listening, Closing => Closing',
           NEW s \in Seq(Message), replies' = Stray(s), requests' = Old(requests),
           \A i \in 1 .. Len(s) : \E j \in 1 .. Len(replies) : s[i] = replies[j],
           \/ late'
           \/ (\A i \in 1 .. Len(s) : s[i].by = Nobody)
              /\ ((\A i \in 1 .. Len(requests) : requests[i].by = Nobody) \/ ~ listening)
    PROVE  Strays' /\ \A q \in Proc : ~ Under(q)'
<1>1. /\ Len(replies') = Len(s) /\ \A i \in 1 .. Len(s) : replies'[i].by = Nobody
      /\ Len(requests') = Len(requests)
      /\ \A i \in 1 .. Len(requests) :
             requests'[i].by = Nobody /\ requests'[i].cmd = requests[i].cmd
    BY OldProps, StrayProps DEF Typed, CallTypes, BusTypes
<1>2. Strays'
    <2>1. CASE late'
        BY <2>1 DEF Strays
    <2>2. CASE ~ late'
        BY <1>1, <2>2 DEF Strays, Messages
    <2> QED
        BY <2>1, <2>2
<1> QED
    BY <1>1, <1>2, ProcFacts DEF Under

-----------------------------------------------------------------------------
(* Types.                                                                  *)

LEMMA CommandOfType ==
    ASSUME Typed, Calls, NEW p \in Proc, pc[p] # "idle"
    PROVE  CommandOf(p) \in Commands
<1>1. op[p] # "none"
    BY ProcFacts DEF Calls, Typed, CallTypes, Resting
<1> QED
    BY <1>1, ProcFacts DEF Typed, CallTypes, CommandOf, Commands

(* What the tasks do to op, stage and try.                                 *)
LEMMA LeavesProps ==
    ASSUME Typed, NEW p \in Proc, NEW at, Leaves(p, at)
    PROVE  /\ pc' = [pc EXCEPT ![p] = at]
           /\ op' \in [Proc -> Commands \cup {"none", "entering"}]
           /\ \A q \in Proc : op'[q] = IF q = p THEN Resting(p) ELSE op[q]
           /\ stage' \in [Proc -> {"first", "connect", "retry"}]
           /\ \A q \in Proc : stage'[q] = IF q = p THEN "first" ELSE stage[q]
           /\ try' \in [Proc -> 0 .. Tries]
           /\ \A q \in Proc : try'[q] = IF q = p THEN 0 ELSE try[q]
<1>1. Tries \in Nat
    BY CanAssumption
<1>2. Resting(p) \in Commands \cup {"none", "entering"}
    BY DEF Resting, Commands
<1> QED
    BY <1>1, <1>2 DEF Leaves, Goes, Typed, CallTypes, BusTypes

LEMMA LeavesTypes ==
    ASSUME Typed, NEW p \in Proc, NEW at \in {"idle", "trigger", "pause", "sleep", "dead"},
           Leaves(p, at)
    PROVE  CallTypes'
<1>1. pc' \in [Proc -> {"idle", "trigger", "pause", "queued", "send", "await",
                        "join", "sleep", "dead"}]
    BY LeavesProps DEF Typed, CallTypes
<1>2. \A q \in Proc : op'[q] = Resting(q) \/ (q # Keepalive /\ op'[q] \in Uses[q])
    <2>1. \A q \in Proc : op'[q] = IF q = p THEN Resting(p) ELSE op[q]
        BY LeavesProps
    <2> QED
        BY <2>1 DEF Typed, CallTypes
<1>3. /\ op' \in [Proc -> Commands \cup {"none", "entering"}]
      /\ stage' \in [Proc -> {"first", "connect", "retry"}]
      /\ try' \in [Proc -> 0 .. Tries]
    BY LeavesProps
<1> QED
    BY <1>1, <1>2, <1>3 DEF CallTypes, Resting

-----------------------------------------------------------------------------
(* The end of a call.                                                      *)

(* p returns: its method is over, and it lets go of the lock.              *)
LEMMA CallOver ==
    ASSUME Inv, NEW p \in Proc, Holds(p), pc[p] \in {"queued", "send", "await", "join"},
           NEW at, p # Keepalive => at = "idle",
           p = Keepalive => at \in {"sleep", "dead"},
           Leaves(p, at), lockQ' = Tail(lockQ)
    PROVE  CallTypes' /\ lockQ' \in Seq(Proc) /\ Queue' /\ Calls'
<1>1. CallTypes'
    BY LeavesTypes DEF Inv
<1>2. pc' = [pc EXCEPT ![p] = at] /\ at \in {"idle", "sleep", "dead"}
    BY LeavesProps DEF Inv
<1>3. \A q \in Proc \ {p} : ~ Owns(q)
    BY OneHolder DEF Inv
<1>4. Queue' /\ lockQ' \in Seq(Proc)
    <2>1. \A q \in Proc \ {p} : InLock(q) => InLock(q)'
        BY <1>2 DEF InLock, Inv, Typed, CallTypes
    <2>2. \A q \in Proc : ~ Owns(q)'
        BY <1>2, <1>3 DEF Owns, Inv, Typed, CallTypes
    <2> QED
        BY <2>1, <2>2, QueueLeave DEF Inv
<1>5. Calls'
    <2>1. /\ \A q \in Proc : pc'[q] = IF q = p THEN at ELSE pc[q]
          /\ \A q \in Proc : op'[q] = IF q = p THEN Resting(p) ELSE op[q]
          /\ \A q \in Proc : try'[q] = IF q = p THEN 0 ELSE try[q]
        BY <1>2, LeavesProps DEF Inv, Typed, CallTypes
    <2>2. Resting(p) = IF p = Keepalive THEN "health" ELSE "none"
        BY DEF Resting
    <2> QED
        BY <2>1, <2>2, <1>2, ProcFacts DEF Calls, Inv
<1> QED
    BY <1>1, <1>4, <1>5

(* What concerns the session is left as it was.                            *)
LEMMA CallOverKept ==
    ASSUME Inv, NEW p \in Proc, Holds(p), pc[p] \in {"queued", "send", "await"},
           NEW at, p # Keepalive => at = "idle",
           p = Keepalive => at \in {"sleep", "dead"},
           Leaves(p, at), UNCHANGED <<connected, handle, cancelled, closed, listening>>,
           tickFailed' = (tickFailed \/ (at = "dead" /\ handle))
    PROVE  Consumed' /\ Kept'
<1>1. \A q \in Proc : ~ Owns(q) \/ q = p
    BY OneHolder DEF Inv
<1>2. /\ \A q \in Proc : pc'[q] = IF q = p THEN at ELSE pc[q]
      /\ \A q \in Proc : op'[q] = IF q = p THEN Resting(p) ELSE op[q]
      /\ Resting(p) = IF p = Keepalive THEN "health" ELSE "none"
    BY LeavesProps DEF Inv, Typed, CallTypes, Resting
<1>3. ~ \E c \in Callers : pc[c] = "join"
    BY <1>1, ProcFacts DEF Owns
<1>4. ~ cancelled /\ (pc[Keepalive] # "dead" => handle)
    BY <1>3 DEF Inv, Kept
<1>5. Consumed'
    BY <1>2, ProcFacts DEF Inv, Consumed
<1>6. Kept'
    BY <1>2, <1>3, <1>4, ProcFacts DEF Inv, Kept
<1> QED
    BY <1>5, <1>6

-----------------------------------------------------------------------------
(* Steps outside the lock.                                                 *)

LEMMA UsesProps ==
    ASSUME NEW c \in Callers, NEW o \in Uses[c]
    PROVE  o \in {"connect", "entering", "plain", "gated", "retrying", "broadcast",
                  "disconnect"} /\ o \in Commands \cup {"entering"} /\ o # "none"
BY CanAssumption DEF Commands

LEMMA CallStep ==
    ASSUME Inv, NEW c \in Callers, NEW o \in Uses[c], Call(c, o)
    PROVE  Inv'
<1>1. PICK at \in {"queued", "trigger"} :
          /\ pc' = [pc EXCEPT ![c] = at]
          /\ at = "trigger" => o = "entering" /\ lockQ' = lockQ
          /\ at = "queued" => lockQ' = Append(lockQ, c)
    BY DEF Call, Goes
<1>2. /\ pc[c] = "idle" /\ ~ closed /\ op' = [op EXCEPT ![c] = o]
      /\ o = "disconnect" => \A d \in Callers : pc[d] = "idle"
      /\ \A d \in Callers : op[d] # "disconnect"
      /\ UNCHANGED <<stage, try, connected, handle, cancelled, closed, listening, requests,
                     replies, session, booted, slow, late, misread, tickFailed>>
    BY DEF Call, hostVars, busVars, histVars
<1>3. /\ \A q \in Proc : pc'[q] = IF q = c THEN at ELSE pc[q]
      /\ \A q \in Proc : op'[q] = IF q = c THEN o ELSE op[q]
      /\ op[c] = "none" /\ try[c] = 0
    BY <1>1, <1>2, ProcFacts DEF Inv, Typed, CallTypes, Calls
<1>4. Typed'
    <2>1. CallTypes'
        BY <1>1, <1>2, UsesProps, ProcFacts DEF Inv, Typed, CallTypes, Resting
    <2>2. lockQ' \in Seq(Proc)
        BY <1>1, ProcFacts DEF Inv, Typed
    <2> QED
        BY <1>2, <2>1, <2>2 DEF Inv, Typed, BusTypes, FlagTypes
<1>5. Queue'
    <2>1. CASE at = "queued"
        BY <1>1, <1>2, <2>1, QueueEnter, ProcFacts DEF Inv, InLock
    <2>2. CASE at = "trigger"
        <3>1. \A p \in Proc : (InLock(p) => InLock(p)') /\ (Owns(p)' => Owns(p))
            BY <1>2, <1>3, <2>2 DEF InLock, Owns
        <3> QED
            BY <1>1, <2>2, <3>1, QueueStays DEF Inv, Queue
    <2> QED
        BY <2>1, <2>2
<1>6. Calls'
    <2>1. Tries \in Nat \ {0}
        BY CanAssumption
    <2> QED
        BY <1>1, <1>2, <1>3, <2>1, UsesProps, ProcFacts DEF Inv, Calls
<1>7. Consumed'
    BY <1>2, <1>3, ProcFacts DEF Inv, Consumed, Calls
<1>8. Kept'
    <2>1. \A d \in Callers : (pc'[d] = "join") = (pc[d] = "join")
        BY <1>2, <1>3, ProcFacts
    <2> QED
        BY <1>2, <1>3, <2>1, ProcFacts DEF Inv, Kept
<1>9. Messages'
    <2>1. Closing => Closing'
        BY <1>2, <1>3, ProcFacts DEF Closing
    <2>2. \A q \in Proc : Under(q) => q # c
        BY <1>2, UnderOwns, ProcFacts DEF Owns, Inv
    <2> QED
        BY <1>2, <1>3, <2>1, <2>2, MessagesStay DEF Inv, Messages, Typed, BusTypes
<1> QED
    BY <1>4, <1>5, <1>6, <1>7, <1>8, <1>9 DEF Inv, Messages

(* A frame is sent that nobody waits for.                                  *)
LEMMA MessagesSent ==
    ASSUME Inv, NEW cmd \in Commands, Sent(cmd, Nobody),
           cmd = "trigger" \/ (cmd = "disconnect" /\ Closing'), Closing => Closing',
           UNCHANGED <<op, stage, replies, misread, late, slow, listening>>,
           \A q \in Proc : Owns(q) => pc'[q] = pc[q] \/ ~ Under(q)
    PROVE  Messages'
<1>1. \A q \in Proc : /\ Under(q)' => Under(q)
                      /\ Twice(q)' => Twice(q)
                      /\ Under(q) => pc'[q] = pc[q]
    BY UnderSent, UnderOwns, ProcFacts DEF Inv
<1>2. \A i \in 1 .. Len(requests') :
          \/ i \in 1 .. Len(requests) /\ requests'[i] = requests[i]
          \/ requests'[i].by = Nobody /\ requests'[i].cmd = cmd
    BY SentProps DEF Inv, Typed, BusTypes
<1>3. \A q : CommandOf(q)' = CommandOf(q)
    BY DEF CommandOf
<1>4. \A q : Twice(q) => Under(q)
    BY DEF Under, Twice
<1>5. Waited'
    <2>1. \A i \in 1 .. Len(requests') : requests'[i].by # Nobody
              => requests'[i].cmd = CommandOf(requests'[i].by)
        BY <1>2 DEF Inv, Waited
    <2>2. \A q \in Proc : /\ Under(q)' => pc'[q] = "await" \/ (pc'[q] = "send" /\ op[q] = "retrying")
                          /\ Twice(q)' => op[q] \in {"retrying", "broadcast"}
        BY <1>1 DEF Inv, Waited
    <2> QED
        BY <1>3, <2>1, <2>2 DEF Inv, Waited, CommandOf
<1>6. OneAttempt'
    BY <1>1, <1>4 DEF Inv, OneAttempt
<1>7. Strays'
    BY <1>2 DEF Inv, Strays
<1> QED
    BY <1>5, <1>6, <1>7 DEF Messages, Inv, RepliesMatch

LEMMA TriggerStep ==
    ASSUME Inv, NEW c \in Callers, Trigger(c)
    PROVE  Inv'
<1>1. /\ pc[c] = "trigger" /\ pc' = [pc EXCEPT ![c] = "pause"] /\ Sent("trigger", Nobody)
      /\ UNCHANGED <<lockQ, op, stage, try, connected, handle, cancelled, closed, listening,
                     replies, session, booted, slow, late, misread, tickFailed>>
    BY DEF Trigger, Goes, callVars, hostVars, histVars
<1>2. \A q \in Proc : pc'[q] = IF q = c THEN "pause" ELSE pc[q]
    BY <1>1, ProcFacts DEF Inv, Typed, CallTypes
<1>3. Typed'
    <2>1. CallTypes'
        BY <1>1, ProcFacts DEF Inv, Typed, CallTypes, Resting
    <2>2. BusTypes'
        BY <1>1, SentProps, ProcFacts DEF Inv, Typed, BusTypes, Commands
    <2> QED
        BY <1>1, <2>1, <2>2 DEF Inv, Typed, FlagTypes
<1>4. Queue'
    <2>1. \A p \in Proc : (InLock(p) => InLock(p)') /\ (Owns(p)' => Owns(p))
        BY <1>1, <1>2 DEF InLock, Owns
    <2> QED
        BY <1>1, <2>1, QueueStays DEF Inv, Queue
<1>5. Calls' /\ Consumed'
    BY <1>1, <1>2, ProcFacts DEF Inv, Calls, Consumed
<1>6. Kept'
    BY <1>1, <1>2, ProcFacts DEF Inv, Kept
<1>7. Messages'
    <2>1. Closing => Closing'
        BY <1>1, <1>2, ProcFacts DEF Closing
    <2>2. \A q \in Proc : Owns(q) => pc'[q] = pc[q]
        BY <1>1, <1>2 DEF Owns
    <2>3. "trigger" \in Commands
        BY DEF Commands
    <2> QED
        BY <1>1, <2>1, <2>2, <2>3, MessagesSent
<1> QED
    BY <1>3, <1>4, <1>5, <1>6, <1>7 DEF Inv, Messages

LEMMA TriggerFailsStep ==
    ASSUME Inv, NEW c \in Callers, TriggerFails(c)
    PROVE  Inv'
<1>1. /\ pc[c] = "trigger" /\ Leaves(c, "idle")
      /\ UNCHANGED <<lockQ, connected, handle, cancelled, closed, listening, requests,
                     replies, session, booted, slow, late, misread, tickFailed>>
    BY DEF TriggerFails, hostVars, busVars, histVars
<1>2. \A q \in Proc : /\ pc'[q] = IF q = c THEN "idle" ELSE pc[q]
                      /\ op'[q] = IF q = c THEN "none" ELSE op[q]
                      /\ try'[q] = IF q = c THEN 0 ELSE try[q]
                      /\ stage'[q] = IF q = c THEN "first" ELSE stage[q]
    BY <1>1, LeavesProps, ProcFacts DEF Inv, Typed, CallTypes, Resting
<1>3. Typed'
    BY <1>1, LeavesTypes, ProcFacts DEF Inv, Typed, BusTypes, FlagTypes
<1>4. Queue'
    <2>1. \A p \in Proc : (InLock(p) => InLock(p)') /\ (Owns(p)' => Owns(p))
        BY <1>1, <1>2 DEF InLock, Owns
    <2> QED
        BY <1>1, <2>1, QueueStays DEF Inv, Queue
<1>5. Calls' /\ Consumed'
    BY <1>1, <1>2, ProcFacts DEF Inv, Calls, Consumed
<1>6. Kept'
    BY <1>1, <1>2, ProcFacts DEF Inv, Kept
<1>7. Messages'
    <2>1. Closing => Closing'
        BY <1>1, <1>2, ProcFacts DEF Closing
    <2>2. \A q \in Proc : Under(q) => q # c
        BY <1>1, UnderOwns, ProcFacts DEF Owns, Inv
    <2> QED
        BY <1>1, <1>2, <2>1, <2>2, MessagesStay DEF Inv, Messages, Typed, BusTypes
<1> QED
    BY <1>3, <1>4, <1>5, <1>6, <1>7 DEF Inv, Messages

LEMMA ProbeStep ==
    ASSUME Inv, NEW c \in Callers, Probe(c)
    PROVE  Inv'
<1>1. /\ pc[c] = "pause" /\ pc' = [pc EXCEPT ![c] = "queued"]
      /\ try' = [try EXCEPT ![c] = @ + 1] /\ lockQ' = Append(lockQ, c)
      /\ UNCHANGED <<op, stage, connected, handle, cancelled, closed, listening, requests,
                     replies, session, booted, slow, late, misread, tickFailed>>
    BY DEF Probe, Goes, hostVars, busVars, histVars
<1>2. /\ \A q \in Proc : /\ pc'[q] = IF q = c THEN "queued" ELSE pc[q]
                         /\ q # c => try'[q] = try[q]
      /\ op[c] = "entering" /\ try[c] < Tries
    BY <1>1, ProcFacts DEF Inv, Typed, CallTypes, Calls
<1>3. Queue' /\ lockQ' \in Seq(Proc)
    BY <1>1, QueueEnter, ProcFacts DEF Inv, InLock
<1>4. Typed'
    <2>1. try' \in [Proc -> 0 .. Tries]
        BY <1>1, <1>2, ProcFacts, CanAssumption DEF Inv, Typed, CallTypes
    <2>2. CallTypes'
        BY <1>1, <2>1, ProcFacts DEF Inv, Typed, CallTypes, Resting
    <2> QED
        BY <1>1, <1>3, <2>2 DEF Inv, Typed, BusTypes, FlagTypes
<1>5. Calls' /\ Consumed'
    BY <1>1, <1>2, ProcFacts DEF Inv, Calls, Consumed
<1>6. Kept'
    BY <1>1, <1>2, ProcFacts DEF Inv, Kept
<1>7. Messages'
    <2>1. Closing => Closing'
        BY <1>1, <1>2, ProcFacts DEF Closing
    <2>2. \A q \in Proc : Under(q) => q # c
        BY <1>1, UnderOwns, ProcFacts DEF Owns, Inv
    <2> QED
        BY <1>1, <1>2, <2>1, <2>2, MessagesStay DEF Inv, Messages, Typed, BusTypes
<1> QED
    BY <1>3, <1>4, <1>5, <1>6, <1>7 DEF Inv, Messages

-----------------------------------------------------------------------------
(* Steps of the holder of the lock that send or wait on.                   *)

(* Who holds the lock keeps it, and moves to at.                           *)
LEMMA HolderMoves ==
    ASSUME Inv, NEW p \in Proc, Holds(p), NEW at \in {"send", "await", "join"},
           pc' = [pc EXCEPT ![p] = at], lockQ' = lockQ
    PROVE  /\ Queue' /\ lockQ' \in Seq(Proc)
           /\ \A q \in Proc : pc'[q] = IF q = p THEN at ELSE pc[q]
           /\ \A q \in Proc : (Owns(q) \/ Holds(q) => q = p) /\ (Under(q) => q = p)
<1>1. \A q \in Proc : pc'[q] = IF q = p THEN at ELSE pc[q]
    BY DEF Inv, Typed, CallTypes
<1>2. \A q \in Proc : (InLock(q) => InLock(q)') /\ (Owns(q)' => Holds(q))
    BY <1>1 DEF InLock, Owns, Inv, Queue
<1>3. \A q \in Proc : Owns(q) \/ Holds(q) => q = p
    BY OneHolder DEF Inv
<1>4. \A q \in Proc : Under(q) => Owns(q)
    BY UnderOwns DEF Inv
<1> QED
    BY <1>1, <1>2, <1>3, <1>4, QueueStays DEF Inv, Typed

(* It does so within its call, and nobody joins the keepalive.             *)
LEMMA HolderKept ==
    ASSUME Inv, NEW p \in Proc, Holds(p), pc[p] \in {"queued", "send", "await"},
           NEW at \in {"send", "await"}, pc' = [pc EXCEPT ![p] = at],
           at = "send" => p # Keepalive,
           UNCHANGED <<op, connected, handle, cancelled, closed, listening, tickFailed>>
    PROVE  Consumed' /\ Kept' /\ (Closing => Closing')
<1>1. \A q \in Proc : pc'[q] = IF q = p THEN at ELSE pc[q]
    BY DEF Inv, Typed, CallTypes
<1>2. \A q \in Proc : Owns(q) \/ Holds(q) => q = p
    BY OneHolder DEF Inv
<1>3. \A c \in Callers : pc[c] # "join" /\ pc'[c] # "join"
    BY <1>1, <1>2, ProcFacts DEF Owns
<1>4. p \in Callers => op[p] # "none"
    BY DEF Inv, Calls
<1>5. Consumed'
    BY <1>1, <1>4, ProcFacts DEF Inv, Consumed, Calls
<1>6. Kept'
    BY <1>1, <1>3, ProcFacts DEF Inv, Kept
<1> QED
    BY <1>3, <1>5, <1>6 DEF Closing

LEMMA SendStep ==
    ASSUME Inv, NEW p \in Proc, Send(p)
    PROVE  Inv'
<1>1. /\ Holds(p) /\ pc[p] \in {"queued", "send"} /\ op[p] # "disconnect"
      /\ Sent(CommandOf(p), p) /\ pc' = [pc EXCEPT ![p] = "await"]
      /\ try' = [try EXCEPT ![p] = IF op[p] = "retrying" THEN @ + 1 ELSE @]
      /\ UNCHANGED <<lockQ, op, stage, connected, handle, cancelled, closed, listening,
                     replies, session, booted, slow, late, misread, tickFailed>>
    BY DEF Send, Ready, Goes, hostVars, histVars
<1>2. /\ Queue' /\ lockQ' \in Seq(Proc)
      /\ \A q \in Proc : pc'[q] = IF q = p THEN "await" ELSE pc[q]
      /\ \A q \in Proc : (Owns(q) \/ Holds(q) => q = p) /\ (Under(q) => q = p)
    BY <1>1, HolderMoves
<1>3. Consumed' /\ Kept' /\ (Closing => Closing')
    BY <1>1, HolderKept
<1>4. op[p] = "retrying" => try[p] < Tries
    BY <1>1 DEF Inv, Calls
<1>5. \A q \in Proc : q # p => try'[q] = try[q]
    BY <1>1 DEF Inv, Typed, CallTypes
<1>6. CommandOf(p) \in Commands
    BY <1>1, ProcFacts, CommandOfType DEF Inv, Calls, Typed, CallTypes, Resting
<1>7. Typed'
    <2>1. try' \in [Proc -> 0 .. Tries]
        BY <1>1, <1>4, CanAssumption DEF Inv, Typed, CallTypes
    <2>2. CallTypes'
        BY <1>1, <2>1 DEF Inv, Typed, CallTypes, Resting
    <2>3. BusTypes'
        BY <1>1, <1>6, SentProps DEF Inv, Typed, BusTypes
    <2> QED
        BY <1>1, <1>2, <2>2, <2>3 DEF Inv, Typed, FlagTypes
<1>8. Calls'
    BY <1>1, <1>2, <1>5, ProcFacts DEF Inv, Calls
<1>9. Messages'
    <2>1. \A q \in Proc : /\ Under(q)' => q = p
                          /\ Twice(q)' => q = p /\ Under(p)
        <3>1. \A q \in Proc : Twice(q) => Under(q)
            BY DEF Under, Twice
        <3> QED
            BY <1>1, <1>2, <1>6, <3>1, UnderSent DEF Inv
    <2>2. Under(p) => op[p] = "retrying" /\ (late \/ slow)
        BY <1>1 DEF Inv, Waited, OneAttempt
    <2>3. \A i \in 1 .. Len(requests') :
              \/ i \in 1 .. Len(requests) /\ requests'[i] = requests[i]
              \/ requests'[i].by = p /\ requests'[i].cmd = CommandOf(p)
        BY <1>1, <1>6, SentProps DEF Inv, Typed, BusTypes
    <2>4. \A q : CommandOf(q)' = CommandOf(q)
        BY <1>1 DEF CommandOf
    <2>5. Waited'
        <3>1. \A i \in 1 .. Len(requests') : requests'[i].by # Nobody
                  => requests'[i].cmd = CommandOf(requests'[i].by)
            BY <2>3 DEF Inv, Waited
        <3>2. \A q \in Proc : /\ Under(q)' => pc'[q] = "await"
                              /\ Twice(q)' => op[q] \in {"retrying", "broadcast"}
            BY <1>2, <2>1, <2>2
        <3>3. \A i \in 1 .. Len(replies) : replies[i].by # Nobody
                  => replies[i].cmd = CommandOf(replies[i].by)
            BY DEF Inv, Waited
        <3> QED
            BY <1>1, <2>4, <3>1, <3>2, <3>3 DEF Waited, CommandOf
    <2>6. OneAttempt'
        BY <1>1, <1>2, <2>1, <2>2 DEF OneAttempt
    <2>7. Strays'
        BY <1>1, <1>3, <2>3, ProcFacts DEF Inv, Strays
    <2> QED
        BY <1>1, <2>5, <2>6, <2>7 DEF Messages, Inv, RepliesMatch
<1> QED
    BY <1>1, <1>2, <1>3, <1>7, <1>8, <1>9 DEF Inv, Messages

(* A further attempt.                                                      *)
LEMMA RetryStep ==
    ASSUME Inv, NEW p \in Proc, Holds(p), pc[p] \in {"queued", "send", "await"},
           op[p] = "retrying", pc' = [pc EXCEPT ![p] = "send"],
           try' \in [Proc -> 0 .. Tries], \A q \in Proc : q # p => try'[q] = try[q],
           try'[p] < Tries,
           UNCHANGED <<lockQ, op, stage, connected, handle, cancelled, closed, listening,
                       session, booted, late, tickFailed>>,
           BusTypes', slow' \in BOOLEAN, misread' \in BOOLEAN, Messages'
    PROVE  Inv'
<1>1. /\ Queue' /\ lockQ' \in Seq(Proc)
      /\ \A q \in Proc : pc'[q] = IF q = p THEN "send" ELSE pc[q]
    BY HolderMoves
<1>2. p # Keepalive
    BY DEF Inv, Typed, CallTypes, Resting
<1>3. Consumed' /\ Kept'
    BY <1>2, HolderKept
<1>4. Typed'
    <2>1. CallTypes'
        BY DEF Inv, Typed, CallTypes, Resting
    <2> QED
        BY <1>1, <2>1 DEF Inv, Typed, FlagTypes
<1>5. Calls'
    BY <1>1, <1>2, ProcFacts DEF Inv, Calls
<1> QED
    BY <1>1, <1>3, <1>4, <1>5 DEF Inv, Messages

(* An attempt that timed out leaves its message under way.                 *)
LEMMA MessagesWaitOn ==
    ASSUME Inv, NEW p \in Proc, Holds(p), op[p] = "retrying", pc' = [pc EXCEPT ![p] = "send"],
           UNCHANGED <<requests, replies, op, stage, closed, listening, late, misread>>,
           slow' \/ (slow' = slow /\ pc[p] # "await")
    PROVE  Messages'
<1>1. \A q : /\ Under(q)' = Under(q) /\ Twice(q)' = Twice(q)
             /\ CommandOf(q)' = CommandOf(q)
    BY DEF Under, Twice, CommandOf
<1>2. \A q \in Proc : pc'[q] = IF q = p THEN "send" ELSE pc[q]
    BY DEF Inv, Typed, CallTypes
<1>3. \A q \in Proc : (Owns(q) \/ Holds(q) => q = p) /\ (Under(q) => q = p)
    BY OneHolder, UnderOwns DEF Inv
<1>4. \A q : Twice(q) => Under(q)
    BY DEF Under, Twice
<1>5. Waited'
    BY <1>1, <1>2, <1>3, <1>4 DEF Inv, Waited, CommandOf
<1>6. OneAttempt'
    BY <1>1, <1>2, <1>3, <1>4 DEF Inv, OneAttempt
<1>7. Closing => Closing'
    BY <1>2, <1>3, ProcFacts DEF Closing, Owns
<1> QED
    BY <1>5, <1>6, <1>7 DEF Messages, Inv, Strays, RepliesMatch

(* The call of p ends with its messages forgotten.                         *)
LEMMA CallEnds ==
    ASSUME Inv, NEW p \in Proc, Holds(p), pc[p] \in {"queued", "send", "await"},
           NEW at, p # Keepalive => at = "idle",
           p = Keepalive => at \in {"sleep", "dead"},
           Leaves(p, at), lockQ' = Tail(lockQ),
           UNCHANGED <<connected, handle, cancelled, closed, listening, session, booted>>,
           tickFailed' = (tickFailed \/ (at = "dead" /\ handle)),
           slow' \in BOOLEAN, late' \in BOOLEAN, misread' \in BOOLEAN,
           BusTypes', Messages'
    PROVE  Inv'
<1>1. CallTypes' /\ lockQ' \in Seq(Proc) /\ Queue' /\ Calls'
    BY CallOver
<1>2. Consumed' /\ Kept'
    BY CallOverKept
<1>3. Typed'
    BY <1>1 DEF Inv, Typed, FlagTypes
<1> QED
    BY <1>1, <1>2, <1>3 DEF Inv, Messages

-----------------------------------------------------------------------------
(* Steps that fail or time out.                                            *)

(* The messages of a call that is over without a reply to it.              *)
LEMMA MessagesFail ==
    ASSUME Inv, NEW p \in Proc, Holds(p), requests' = Old(requests), replies' = Stray(replies),
           ~ late' => ~ late /\ ~ slow, pc[p] = "await" => late',
           UNCHANGED <<listening, misread>>, Closing => Closing'
    PROVE  BusTypes' /\ Messages'
<1>1. BusTypes'
    BY OldProps, StrayProps DEF Inv, Typed, BusTypes
<1>2. CASE late'
    <2>1. Strays' /\ \A q \in Proc : ~ Under(q)'
        BY <1>2, StraysOfCall DEF Inv, Messages, Typed, BusTypes
    <2> QED
        BY <1>1, <1>2, <2>1, MessagesOver DEF RepliesMatch
<1>3. CASE ~ late' /\ ~ late /\ ~ slow /\ pc[p] # "await"
    <2>1. \A q \in Proc : ~ Under(q)
        BY <1>3, OneHolder, UnderOwns DEF Inv, OneAttempt
    <2>2. /\ \A i \in 1 .. Len(requests) : requests[i] \in Message
          /\ \A i \in 1 .. Len(replies) : replies[i] \in Message
        BY DEF Inv, Typed, BusTypes
    <2>3. /\ \A i \in 1 .. Len(requests) : requests[i].by = Nobody
          /\ \A i \in 1 .. Len(replies) : replies[i].by = Nobody
        BY <2>1, <2>2, MessageProps DEF Under
    <2>4. Strays' /\ \A q \in Proc : ~ Under(q)'
        BY <1>3, <2>3, StraysOfCall DEF Inv, Messages, Typed, BusTypes
    <2>5. RepliesMatch'
        BY <1>3 DEF Inv, RepliesMatch
    <2> QED
        BY <1>1, <2>4, <2>5, MessagesOver
<1> QED
    BY <1>2, <1>3 DEF Inv, Typed, FlagTypes

(* A call that is over does not close the session.                         *)
LEMMA ClosingKept ==
    ASSUME Inv, NEW p \in Proc, Holds(p), pc[p] \in {"queued", "send", "await"},
           closed' = closed
    PROVE  Closing => Closing'
BY OneHolder, ProcFacts DEF Inv, Closing, Owns

(* A command sent in part is the last request, and its sender's.           *)
Part(p) == [cmd |-> CommandOf(p), says |-> "transport", by |-> p]

LEMMA PartProps ==
    ASSUME Inv, NEW p \in Proc, pc[p] \in {"queued", "send"}, Len(requests) < BusRoom
    PROVE  /\ Append(requests, Part(p)) \in Seq(Message)
           /\ Len(Append(requests, Part(p))) <= BusRoom
           /\ \A i \in 1 .. Len(Append(requests, Part(p))) :
                  \/ i \in 1 .. Len(requests) /\ Append(requests, Part(p))[i] = requests[i]
                  \/ /\ Append(requests, Part(p))[i].by = p
                     /\ Append(requests, Part(p))[i].cmd = CommandOf(p)
<1>1. requests \in Seq(Message) /\ BusRoom \in Nat
    BY CanAssumption DEF Inv, Typed, BusTypes
<1>2. CommandOf(p) \in Commands
    BY CommandOfType DEF Inv
<1>3. Part(p) \in Message /\ Part(p).by = p /\ Part(p).cmd = CommandOf(p)
    BY <1>2 DEF Part, Message
<1> HIDE DEF Part
<1>4. \A i \in 1 .. Len(Append(requests, Part(p))) :
          \/ i \in 1 .. Len(requests) /\ Append(requests, Part(p))[i] = requests[i]
          \/ Append(requests, Part(p))[i] = Part(p)
    BY <1>1
<1> QED
    BY <1>1, <1>3, <1>4

(* An attempt that is sent in part leaves its message under way.           *)
LEMMA PartWaitsOn ==
    ASSUME Inv, NEW p \in Proc, Holds(p), pc[p] \in {"queued", "send"}, op[p] = "retrying",
           Len(requests) < BusRoom, requests' = Append(requests, Part(p)),
           pc' = [pc EXCEPT ![p] = "send"], slow' = TRUE,
           UNCHANGED <<replies, op, stage, closed, listening, late, misread>>
    PROVE  Messages'
<1>1. \A i \in 1 .. Len(requests') :
          \/ i \in 1 .. Len(requests) /\ requests'[i] = requests[i]
          \/ requests'[i].by = p /\ requests'[i].cmd = CommandOf(p)
    BY PartProps
<1>2. \A q \in Proc : pc'[q] = IF q = p THEN "send" ELSE pc[q]
    BY DEF Inv, Typed, CallTypes
<1>3. \A q \in Proc : (Owns(q) \/ Holds(q) => q = p) /\ (Under(q) => q = p)
    BY OneHolder, UnderOwns DEF Inv
<1>4. \A q : CommandOf(q)' = CommandOf(q)
    BY DEF CommandOf
<1>5. \A q \in Proc : Under(q)' => q = p
    BY <1>1, <1>3 DEF Under
<1>6. \A q \in Proc : Twice(q)' => q = p
    BY <1>5 DEF Twice, Under
<1>7. Waited'
    <2>1. \A i \in 1 .. Len(requests') : requests'[i].by # Nobody
              => requests'[i].cmd = CommandOf(requests'[i].by)
        BY <1>1 DEF Inv, Waited
    <2>2. \A q \in Proc : /\ Under(q)' => pc'[q] = "send" /\ op[q] = "retrying"
                          /\ Twice(q)' => op[q] = "retrying"
        BY <1>2, <1>5, <1>6
    <2>3. \A i \in 1 .. Len(replies) : replies[i].by # Nobody
              => replies[i].cmd = CommandOf(replies[i].by)
        BY DEF Inv, Waited
    <2> QED
        BY <1>4, <2>1, <2>2, <2>3 DEF Waited, CommandOf
<1>8. Strays'
    <2>1. Closing => Closing'
        BY <1>2, <1>3, ProcFacts DEF Closing, Owns
    <2> QED
        BY <1>1, <2>1, ProcFacts DEF Inv, Strays
<1> QED
    BY <1>7, <1>8 DEF Messages, OneAttempt, Inv, RepliesMatch

(* A call that ends with one is late.                                      *)
LEMMA PartFails ==
    ASSUME Inv, NEW p \in Proc, pc[p] \in {"queued", "send"}, Len(requests) < BusRoom,
           requests' = Old(Append(requests, Part(p))), replies' = Stray(replies), late'
    PROVE  BusTypes' /\ Messages'
<1>1. Append(requests, Part(p)) \in Seq(Message) /\ Len(Append(requests, Part(p))) <= BusRoom
    BY PartProps
<1>2. BusTypes' /\ \A i \in 1 .. Len(requests') : requests'[i].by = Nobody
    BY <1>1, OldProps, StrayProps DEF Inv, Typed, BusTypes
<1>3. \A i \in 1 .. Len(replies') : replies'[i].by = Nobody
    BY StrayProps DEF Inv, Typed, BusTypes
<1>4. \A q \in Proc : ~ Under(q)'
    BY <1>2, <1>3, ProcFacts DEF Under
<1> QED
    BY <1>2, <1>4, MessagesOver DEF Strays, RepliesMatch

LEMMA SendFailsStep ==
    ASSUME Inv, NEW p \in Proc, SendFails(p)
    PROVE  Inv'
<1>1. /\ Holds(p) /\ pc[p] \in {"queued", "send"}
      /\ UNCHANGED <<connected, handle, cancelled, closed, listening, session, booted, misread>>
    BY DEF SendFails, Ready, hostVars
<1>2. Closing => Closing'
    BY <1>1, ClosingKept
<1>0. PICK torn \in BOOLEAN :
          LET onBus == IF torn THEN Append(requests, Part(p)) ELSE requests
          IN  /\ torn => Len(requests) < BusRoom
              /\ IF op[p] = "retrying" /\ try[p] + 1 < Tries
                 THEN /\ try' = [try EXCEPT ![p] = @ + 1]
                      /\ Retry(p, torn)
                      /\ requests' = onBus /\ UNCHANGED replies
                 ELSE /\ Fail(p, slow \/ torn)
                      /\ requests' = Old(onBus) /\ replies' = Stray(replies)
    BY DEF SendFails, Part
<1>3. CASE op[p] = "retrying" /\ try[p] + 1 < Tries
    <2>1. /\ try' = [try EXCEPT ![p] = @ + 1] /\ pc' = [pc EXCEPT ![p] = "send"]
          /\ slow' = (slow \/ torn)
          /\ UNCHANGED <<lockQ, op, stage, late, tickFailed, replies>>
        BY <1>0, <1>3 DEF Retry, Goes
    <2>2. /\ try' \in [Proc -> 0 .. Tries] /\ \A q \in Proc : q # p => try'[q] = try[q]
          /\ try'[p] < Tries
        BY <1>3, <2>1, CanAssumption DEF Inv, Typed, CallTypes
    <2>3. slow' \in BOOLEAN /\ misread' \in BOOLEAN
        BY <1>1, <2>1 DEF Inv, Typed, FlagTypes
    <2>4. CASE torn
        <3>1. Len(requests) < BusRoom /\ requests' = Append(requests, Part(p)) /\ slow' = TRUE
            BY <1>0, <1>3, <2>1, <2>4
        <3>2. Messages'
            BY <1>1, <1>3, <2>1, <3>1, PartWaitsOn
        <3>3. BusTypes'
            BY <1>1, <2>1, <3>1, PartProps DEF Inv, Typed, BusTypes
        <3> QED
            BY <1>1, <1>3, <2>1, <2>2, <2>3, <3>2, <3>3, RetryStep
    <2>5. CASE ~ torn
        <3>1. requests' = requests /\ slow' = slow
            BY <1>0, <1>3, <2>1, <2>5 DEF Inv, Typed, FlagTypes
        <3>2. Messages'
            BY <1>1, <1>3, <2>1, <3>1, MessagesWaitOn
        <3>3. BusTypes'
            BY <2>1, <3>1 DEF Inv, Typed, BusTypes
        <3> QED
            BY <1>1, <1>3, <2>1, <2>2, <2>3, <3>2, <3>3, RetryStep
    <2> QED
        BY <2>4, <2>5
<1>4. CASE ~ (op[p] = "retrying" /\ try[p] + 1 < Tries)
    <2> DEFINE at == IF p = Keepalive THEN "dead" ELSE "idle"
    <2>1. /\ Leaves(p, at) /\ lockQ' = Tail(lockQ) /\ slow' = FALSE
          /\ tickFailed' = (tickFailed \/ (p = Keepalive /\ handle))
          /\ late' = (late \/ slow \/ torn)
          /\ replies' = Stray(replies)
        BY <1>0, <1>4 DEF Fail, Unlock
    <2>2. BusTypes' /\ Messages'
        <3>1. CASE torn
            <4>1. Len(requests) < BusRoom /\ requests' = Old(Append(requests, Part(p)))
                BY <1>0, <1>4, <3>1
            <4> QED
                BY <1>1, <2>1, <3>1, <4>1, PartFails
        <3>2. CASE ~ torn
            <4>1. requests' = Old(requests)
                BY <1>0, <1>4, <3>2
            <4> QED
                BY <1>1, <1>2, <2>1, <4>1, MessagesFail
        <3> QED
            BY <3>1, <3>2
    <2>3. tickFailed' = (tickFailed \/ (at = "dead" /\ handle))
        BY <2>1
    <2>4. slow' \in BOOLEAN /\ late' \in BOOLEAN /\ misread' \in BOOLEAN
        BY <1>1, <2>1 DEF Inv, Typed, FlagTypes
    <2>5. (p # Keepalive => at = "idle") /\ (p = Keepalive => at \in {"sleep", "dead"})
        OBVIOUS
    <2> HIDE DEF at
    <2> QED
        BY <1>1, <2>1, <2>2, <2>3, <2>4, <2>5, CallEnds
<1> QED
    BY <1>3, <1>4

(* A probe timed out, and the window lasts.                                *)
LEMMA ProbeOver ==
    ASSUME Inv, NEW p \in Proc, pc[p] = "await", op[p] = "entering",
           NEW at \in GoesOnAt(p), pc' = [pc EXCEPT ![p] = at], Unlock(TRUE),
           UNCHANGED <<op, stage, try, connected, handle, cancelled, closed, listening,
                       session, booted, misread, tickFailed>>,
           requests' = Old(requests), replies' = Stray(replies)
    PROVE  Inv'
<1>1. /\ lockQ' = Tail(lockQ) /\ slow' = FALSE /\ late' = TRUE
      /\ at \in {"trigger", "pause"} /\ try[p] < Tries
    <2>1. Tries \in Nat \ {0} /\ try[p] \in Nat
        BY CanAssumption DEF Inv, Typed, CallTypes
    <2>2. at \in {"trigger", "pause"} /\ try[p] < Tries
        BY <2>1 DEF GoesOnAt
    <2> QED
        BY <2>2 DEF Unlock
<1>2. \A q \in Proc : pc'[q] = IF q = p THEN at ELSE pc[q]
    BY DEF Inv, Typed, CallTypes
<1>3. Holds(p) /\ p # Keepalive
    BY DEF Inv, Queue, Owns, Typed, CallTypes, Resting
<1>4. \A q \in Proc \ {p} : ~ Owns(q)
    BY <1>3, OneHolder DEF Inv
<1>5. Queue' /\ lockQ' \in Seq(Proc)
    <2>1. \A q \in Proc \ {p} : InLock(q) => InLock(q)'
        BY <1>2 DEF InLock
    <2>2. \A q \in Proc : ~ Owns(q)'
        BY <1>1, <1>2, <1>4 DEF Owns
    <2> QED
        BY <1>1, <1>3, <2>1, <2>2, QueueLeave DEF Inv
<1>6. Closing => Closing'
    BY <1>3, ClosingKept
<1>7. BusTypes' /\ Messages'
    BY <1>1, <1>3, <1>6, MessagesFail
<1>8. Typed'
    <2>1. CallTypes'
        BY <1>1 DEF Inv, Typed, CallTypes, Resting
    <2> QED
        BY <1>1, <1>5, <1>7, <2>1 DEF Inv, Typed, FlagTypes
<1>9. Calls' /\ Consumed'
    BY <1>1, <1>2, <1>3, ProcFacts DEF Inv, Calls, Consumed
<1>10. Kept'
    BY <1>1, <1>2, <1>3, <1>4, ProcFacts DEF Inv, Kept, Owns
<1> QED
    BY <1>5, <1>7, <1>8, <1>9, <1>10 DEF Inv, Messages

LEMMA TimeOutStep ==
    ASSUME Inv, NEW p \in Proc, TimeOut(p)
    PROVE  Inv'
<1>1. /\ pc[p] = "await"
      /\ UNCHANGED <<connected, handle, cancelled, closed, listening, session, booted, misread>>
    BY DEF TimeOut, hostVars
<1>2. Holds(p)
    BY <1>1 DEF Inv, Queue, Owns
<1>3. CASE MayRetry(p)
    <2>1. /\ op[p] = "retrying" /\ try[p] < Tries /\ pc' = [pc EXCEPT ![p] = "send"]
          /\ slow' = TRUE
          /\ UNCHANGED <<lockQ, op, stage, late, tickFailed, requests, replies, try>>
        BY <1>3 DEF TimeOut, MayRetry, Retry, Goes, Inv, Typed, FlagTypes
    <2>2. Messages'
        BY <1>1, <1>2, <2>1, MessagesWaitOn
    <2>3. /\ BusTypes' /\ slow' \in BOOLEAN /\ misread' \in BOOLEAN
          /\ try' \in [Proc -> 0 .. Tries]
        BY <1>1, <2>1 DEF Inv, Typed, BusTypes, FlagTypes, CallTypes
    <2> QED
        BY <1>1, <1>2, <2>1, <2>2, <2>3, RetryStep
<1>4. CASE ~ MayRetry(p) /\ op[p] = "entering" /\ \E at \in GoesOnAt(p) : pc' = [pc EXCEPT ![p] = at]
                         /\ Unlock(TRUE) /\ UNCHANGED <<op, stage, try, tickFailed>>
    <2>1. requests' = Old(requests) /\ replies' = Stray(replies)
        BY <1>4 DEF TimeOut
    <2> QED
        BY <1>1, <1>4, <2>1, ProbeOver
<1>5. CASE ~ MayRetry(p) /\ Fail(p, TRUE)
    <2> DEFINE at == IF p = Keepalive THEN "dead" ELSE "idle"
    <2>1. /\ Leaves(p, at) /\ lockQ' = Tail(lockQ) /\ slow' = FALSE
          /\ tickFailed' = (tickFailed \/ (p = Keepalive /\ handle))
          /\ late' = TRUE
          /\ requests' = Old(requests) /\ replies' = Stray(replies)
        BY <1>5 DEF TimeOut, Fail, Unlock, Inv, Typed, FlagTypes
    <2>2. BusTypes' /\ Messages'
        BY <1>1, <1>2, <2>1, MessagesFail, ClosingKept
    <2>3. tickFailed' = (tickFailed \/ (at = "dead" /\ handle))
        BY <2>1
    <2>4. slow' \in BOOLEAN /\ late' \in BOOLEAN /\ misread' \in BOOLEAN
        BY <1>1, <2>1 DEF Inv, Typed, FlagTypes
    <2>5. (p # Keepalive => at = "idle") /\ (p = Keepalive => at \in {"sleep", "dead"})
        OBVIOUS
    <2> HIDE DEF at
    <2> QED
        BY <1>1, <1>2, <2>1, <2>2, <2>3, <2>4, <2>5, CallEnds
<1> QED
    BY <1>3, <1>4, <1>5 DEF TimeOut, Goes, callVars

LEMMA RxClosedStep ==
    ASSUME Inv, NEW p \in Proc, RxClosed(p)
    PROVE  Inv'
<1>1. /\ pc[p] = "await" /\ ~ listening /\ replies = <<>>
      /\ requests' = Old(requests) /\ Fail(p, slow)
      /\ UNCHANGED <<connected, handle, cancelled, closed, listening, session, booted,
                     misread, replies>>
    BY DEF RxClosed, hostVars
<1>2. Holds(p)
    BY <1>1 DEF Inv, Queue, Owns
<1> DEFINE at == IF p = Keepalive THEN "dead" ELSE "idle"
<1>3. /\ Leaves(p, at) /\ lockQ' = Tail(lockQ) /\ slow' = FALSE
      /\ tickFailed' = (tickFailed \/ (p = Keepalive /\ handle)) /\ late' = (late \/ slow)
    BY <1>1 DEF Fail, Unlock
<1>4. BusTypes'
    BY <1>1, OldProps DEF Inv, Typed, BusTypes
<1>5. Messages'
    <2>1. /\ Len(replies') = 0 /\ Len(requests') = Len(requests)
          /\ \A i \in 1 .. Len(requests) : requests'[i].by = Nobody
        BY <1>1, OldProps DEF Inv, Typed, BusTypes
    <2>2. \A q \in Proc : ~ Under(q)'
        BY <2>1, ProcFacts DEF Under
    <2>3. Strays'
        BY <1>1, <2>1 DEF Strays
    <2> QED
        BY <1>1, <1>3, <1>4, <2>2, <2>3, MessagesOver DEF Inv, RepliesMatch
<1>6. tickFailed' = (tickFailed \/ (at = "dead" /\ handle))
    BY <1>3
<1>7. slow' \in BOOLEAN /\ late' \in BOOLEAN /\ misread' \in BOOLEAN
    BY <1>1, <1>3 DEF Inv, Typed, FlagTypes
<1>8. (p # Keepalive => at = "idle") /\ (p = Keepalive => at \in {"sleep", "dead"})
    OBVIOUS
<1> HIDE DEF at
<1> QED
    BY <1>1, <1>2, <1>3, <1>4, <1>5, <1>6, <1>7, <1>8, CallEnds

-----------------------------------------------------------------------------
(* A reply is taken.                                                       *)

(* Unless a call before it was slow, the reply is an answer to the task    *)
(* that takes it.                                                          *)
LEMMA ReplyIsAnswer ==
    ASSUME Inv, NEW p \in Proc, pc[p] = "await", replies # <<>>, ~ late
    PROVE  Head(replies).by = p /\ Head(replies).cmd = CommandOf(p) /\ Under(p)
<1>1. /\ Head(replies) = replies[1] /\ 1 \in 1 .. Len(replies) /\ Head(replies) \in Message
    BY TailProps DEF Inv, Typed, BusTypes
<1>2. ~ Closing
    <2>1. ~ closed
        BY ProcFacts DEF Inv, Consumed
    <2>2. \A c \in Callers : pc[c] # "join"
        BY OneHolder, ProcFacts DEF Inv, Owns
    <2> QED
        BY <2>1, <2>2 DEF Closing
<1>3. Head(replies).by \in Proc
    BY <1>1, <1>2, MessageProps DEF Inv, Strays
<1>4. Under(Head(replies).by)
    BY <1>1 DEF Under
<1>5. Head(replies).by = p
    BY <1>3, <1>4, OneHolder, UnderOwns DEF Inv, Owns
<1>6. Head(replies).cmd = CommandOf(p)
    BY <1>1, <1>5, ProcFacts DEF Inv, Waited
<1> QED
    BY <1>4, <1>5, <1>6

(* A reply after which the call is over, or begins again.                  *)
LEMMA MessagesReceived ==
    ASSUME Inv, NEW p \in Proc, pc[p] = "await", op[p] # "broadcast", replies # <<>>,
           misread' = (misread \/ Head(replies).by # p \/ Head(replies).cmd # CommandOf(p)),
           requests' = Old(requests), replies' = Stray(Tail(replies)),
           late => late', (slow => late') \/ op[p] = "gated",
           UNCHANGED listening, Closing => Closing'
    PROVE  BusTypes' /\ Messages'
<1>1. /\ \A i \in 1 .. Len(Tail(replies)) : /\ Tail(replies)[i] = replies[i + 1]
                                           /\ i + 1 \in 1 .. Len(replies) /\ i + 1 # 1
      /\ Head(replies) = replies[1] /\ 1 \in 1 .. Len(replies)
      /\ Tail(replies) \in Seq(Message) /\ Len(Tail(replies)) = Len(replies) - 1
      /\ Len(replies) \in Nat
    BY TailProps DEF Inv, Typed, BusTypes
<1>2. BusTypes'
    <2>1. Len(replies') = Len(replies) - 1 /\ replies' \in Seq(Message)
        BY <1>1, StrayProps
    <2>2. ReplyRoom \in Nat
        BY CanAssumption
    <2> QED
        BY <1>1, <2>1, <2>2, OldProps DEF Inv, Typed, BusTypes
<1>3. CASE ~ late'
    <2>1. Head(replies).by = p /\ Head(replies).cmd = CommandOf(p) /\ Under(p)
        BY <1>3, ReplyIsAnswer
    <2>2. ~ Twice(p)
        BY <1>3 DEF Inv, Waited, OneAttempt
    <2>3. /\ \A i \in 1 .. Len(requests) : requests[i] \in Message
          /\ \A i \in 1 .. Len(replies) : replies[i] \in Message
        BY DEF Inv, Typed, BusTypes
    <2>4. \A q \in Proc : Under(q) => q = p
        BY OneHolder, UnderOwns DEF Inv, Owns
    <2>5. \A i \in 1 .. Len(requests) : requests[i].by = Nobody
        <3> SUFFICES ASSUME NEW i \in 1 .. Len(requests), requests[i].by # Nobody PROVE FALSE
            OBVIOUS
        <3>1. requests[i].by \in Proc
            BY <2>3, MessageProps
        <3>2. requests[i].by = p
            BY <3>1, <2>4 DEF Under
        <3> QED
            BY <3>2, <2>1, <2>2, <1>1 DEF Twice
    <2>6. \A i \in 2 .. Len(replies) : replies[i].by = Nobody
        <3> SUFFICES ASSUME NEW i \in 2 .. Len(replies), replies[i].by # Nobody PROVE FALSE
            OBVIOUS
        <3>1. replies[i].by \in Proc /\ i \in 1 .. Len(replies) /\ i # 1
            BY <1>1, <2>3, MessageProps
        <3>2. replies[i].by = p
            BY <3>1, <2>4 DEF Under
        <3> QED
            BY <3>1, <3>2, <2>1, <2>2, <1>1 DEF Twice
    <2>7. \A i \in 1 .. Len(Tail(replies)) : Tail(replies)[i].by = Nobody
        BY <1>1, <2>6
    <2>8. Strays' /\ \A q \in Proc : ~ Under(q)'
        <3>1. \A i \in 1 .. Len(Tail(replies)) : \E j \in 1 .. Len(replies) :
                  Tail(replies)[i] = replies[j]
            BY <1>1
        <3> QED
            BY <1>1, <1>3, <2>5, <2>7, <3>1, StraysOfCall DEF Inv, Messages
    <2>9. RepliesMatch'
        BY <1>3, <2>1 DEF Inv, RepliesMatch
    <2> QED
        BY <1>2, <2>8, <2>9, MessagesOver
<1>4. CASE late'
    <2>1. Strays' /\ \A q \in Proc : ~ Under(q)'
        BY <1>1, <1>4, StraysOfCall DEF Inv, Messages
    <2> QED
        BY <1>2, <1>4, <2>1, MessagesOver DEF RepliesMatch
<1> QED
    BY <1>3, <1>4

(* A transient reply, after which the command is sent again.               *)
LEMMA MessagesTransient ==
    ASSUME Inv, NEW p \in Proc, pc[p] = "await", op[p] = "retrying", replies # <<>>,
           misread' = (misread \/ Head(replies).by # p \/ Head(replies).cmd # CommandOf(p)),
           requests' = requests, replies' = Tail(replies), pc' = [pc EXCEPT ![p] = "send"],
           UNCHANGED <<op, stage, late, slow, listening>>, Closing => Closing'
    PROVE  BusTypes' /\ Messages'
<1>1. /\ \A i \in 1 .. Len(replies') : /\ replies'[i] = replies[i + 1]
                                      /\ i + 1 \in 1 .. Len(replies) /\ i + 1 # 1
      /\ replies' \in Seq(Message) /\ Len(replies') = Len(replies) - 1
      /\ Len(replies) \in Nat
    BY TailProps DEF Inv, Typed, BusTypes
<1>2. BusTypes'
    BY <1>1, CanAssumption DEF Inv, Typed, BusTypes
<1>3. /\ \A q \in Proc : pc'[q] = IF q = p THEN "send" ELSE pc[q]
      /\ \A q \in Proc : Under(q) => q = p
    BY OneHolder, UnderOwns DEF Inv, Owns, Typed, CallTypes
<1>4. \A q \in Proc : /\ Under(q)' => Under(q)
                      /\ Twice(q)' => Twice(q)
                      /\ Under(q)' /\ Head(replies).by = q => Twice(q)
    BY UnderTaken DEF Inv
<1>5. \A q : Twice(q) => Under(q)
    BY DEF Under, Twice
<1>6. \A q : CommandOf(q)' = CommandOf(q)
    BY DEF CommandOf
<1>7. Waited'
    <2>1. \A i \in 1 .. Len(replies') : replies'[i].by # Nobody
              => replies'[i].cmd = CommandOf(replies'[i].by)
        BY <1>1 DEF Inv, Waited
    <2>2. \A q \in Proc : /\ Under(q)' => pc'[q] = "send" /\ op[q] = "retrying"
                          /\ Twice(q)' => op[q] = "retrying"
        BY <1>3, <1>4, <1>5
    <2>3. \A i \in 1 .. Len(requests) : requests[i].by # Nobody
              => requests[i].cmd = CommandOf(requests[i].by)
        BY DEF Inv, Waited
    <2> QED
        BY <1>6, <2>1, <2>2, <2>3 DEF Waited, CommandOf
<1>8. OneAttempt'
    <2>1. ASSUME ~ late, ~ slow, NEW q \in Proc, Under(q)' PROVE FALSE
        <3>1. q = p /\ Head(replies).by = p
            BY <2>1, <1>3, <1>4, ReplyIsAnswer
        <3>2. Twice(p)
            BY <2>1, <3>1, <1>4
        <3> QED
            BY <2>1, <3>2 DEF Inv, OneAttempt
    <2>2. \A q : Twice(q)' => Under(q)'
        BY DEF Under, Twice
    <2> QED
        BY <2>1, <2>2 DEF OneAttempt
<1>9. Strays'
    BY <1>1 DEF Inv, Strays
<1>10. RepliesMatch'
    BY ReplyIsAnswer DEF Inv, RepliesMatch
<1> QED
    BY <1>2, <1>7, <1>8, <1>9, <1>10 DEF Messages

LEMMA ConnectedStep ==
    ASSUME Inv, NEW p \in Proc, pc[p] = "await", CommandOf(p) = "connect", op[p] # "gated",
           Connected(p), UNCHANGED <<closed, listening, session, booted>>,
           misread' \in BOOLEAN, BusTypes', Messages'
    PROVE  Inv'
<1>1. /\ connected' = TRUE /\ handle' = TRUE /\ lockQ' = Tail(lockQ)
      /\ op' = [op EXCEPT ![p] = "none"] /\ try' = [try EXCEPT ![p] = 0]
      /\ UNCHANGED <<cancelled, tickFailed, stage>>
      /\ slow' = FALSE /\ late' = (late \/ slow)
    BY DEF Connected, StartKeepalive, Unlock
<1>2. p \in Callers /\ p # Keepalive /\ op[p] \in {"connect", "entering"}
    BY ProcFacts DEF CommandOf, Inv, Typed, CallTypes, Resting
<1>3. /\ pc' \in [Proc -> {"idle", "trigger", "pause", "queued", "send", "await",
                          "join", "sleep", "dead"}]
      /\ \A q \in Proc : pc'[q] = IF q = p THEN "idle"
                                 ELSE IF q = Keepalive /\ ~ handle THEN "sleep" ELSE pc[q]
      /\ \A q \in Proc : op'[q] = IF q = p THEN "none" ELSE op[q]
      /\ \A q \in Proc : q # p => try'[q] = try[q]
      /\ try'[p] = 0
    BY <1>1 DEF Connected, GoesConnected, Inv, Typed, CallTypes
<1>4. Holds(p) /\ \A q \in Proc : Owns(q) \/ Holds(q) => q = p
    BY OneHolder DEF Inv, Queue, Owns
<1>5. ~ cancelled /\ ~ closed /\ (~ handle => pc[Keepalive] = "dead")
    BY <1>2, <1>4, ProcFacts DEF Inv, Kept, Consumed, Owns
<1>6. Queue' /\ lockQ' \in Seq(Proc)
    <2>1. \A q \in Proc \ {p} : InLock(q) => InLock(q)'
        BY <1>3, <1>5 DEF InLock
    <2>2. \A q \in Proc : ~ Owns(q)'
        BY <1>3, <1>4 DEF Owns
    <2> QED
        BY <1>1, <1>4, <2>1, <2>2, QueueLeave DEF Inv
<1>7. Typed'
    <2>1. CallTypes'
        <3>1. try' \in [Proc -> 0 .. Tries]
            BY <1>1, CanAssumption DEF Inv, Typed, CallTypes
        <3>2. /\ op' \in [Proc -> Commands \cup {"none", "entering"}]
              /\ \A q \in Proc : op'[q] = Resting(q) \/ (q # Keepalive /\ op'[q] \in Uses[q])
            BY <1>1, <1>2 DEF Inv, Typed, CallTypes, Resting
        <3> QED
            BY <1>1, <1>3, <3>1, <3>2 DEF Inv, Typed, CallTypes, Resting
    <2> QED
        BY <1>1, <1>6, <2>1 DEF Inv, Typed, FlagTypes
<1>8. Calls'
    BY <1>1, <1>2, <1>3, ProcFacts DEF Inv, Calls
<1>9. Consumed'
    BY <1>3, <1>5, ProcFacts DEF Inv, Consumed
<1>10. Kept'
    <2>1. \A c \in Callers : pc[c] # "join"
        BY <1>2, <1>4, ProcFacts DEF Owns
    <2> QED
        BY <1>1, <1>2, <1>3, <1>5, <2>1, ProcFacts DEF Inv, Kept
<1> QED
    BY <1>6, <1>7, <1>8, <1>9, <1>10 DEF Inv, Messages

LEMMA ReconnectedStep ==
    ASSUME Inv, NEW p \in Proc, pc[p] = "await", op[p] = "gated",
           Reconnected(p), UNCHANGED <<closed, listening, session, booted>>,
           misread' \in BOOLEAN, BusTypes', Messages'
    PROVE  Inv'
<1>1. /\ connected' = TRUE /\ handle' = TRUE
      /\ stage' = [stage EXCEPT ![p] = "retry"]
      /\ UNCHANGED <<cancelled, tickFailed, lockQ, op, try, slow, late>>
    BY DEF Reconnected, StartKeepalive
<1>2. p \in Callers /\ p # Keepalive
    BY ProcFacts DEF Inv, Typed, CallTypes, Resting
<1>3. /\ pc' \in [Proc -> {"idle", "trigger", "pause", "queued", "send", "await",
                          "join", "sleep", "dead"}]
      /\ \A q \in Proc : pc'[q] = IF q = p THEN "send"
                                 ELSE IF q = Keepalive /\ ~ handle THEN "sleep" ELSE pc[q]
    BY <1>1 DEF Reconnected, GoesConnected, Inv, Typed, CallTypes
<1>4. Holds(p) /\ \A q \in Proc : Owns(q) \/ Holds(q) => q = p
    BY OneHolder DEF Inv, Queue, Owns
<1>5. ~ cancelled /\ ~ closed /\ (~ handle => pc[Keepalive] = "dead")
    BY <1>2, <1>4, ProcFacts DEF Inv, Kept, Consumed, Owns
<1>6. Queue'
    <2>1. \A q \in Proc : (InLock(q) => InLock(q)') /\ (Owns(q)' => Holds(q))
        BY <1>3, <1>4, <1>5 DEF InLock, Owns
    <2> QED
        BY <1>1, <2>1, QueueStays DEF Inv
<1>7. Typed'
    <2>1. CallTypes'
        BY <1>1, <1>2, <1>3 DEF Inv, Typed, CallTypes, Resting
    <2> QED
        BY <1>1, <2>1 DEF Inv, Typed, FlagTypes
<1>8. Calls'
    BY <1>1, <1>2, <1>3, ProcFacts DEF Inv, Calls
<1>9. Consumed'
    <2>1. op[p] # "none" /\ pc[p] # "idle"
        OBVIOUS
    <2> QED
        BY <1>1, <1>3, <1>5, <2>1, ProcFacts DEF Inv, Consumed
<1>10. Kept'
    <2>1. \A c \in Callers : pc[c] # "join"
        BY <1>2, <1>4, ProcFacts DEF Owns
    <2> QED
        BY <1>1, <1>2, <1>3, <1>5, <2>1, ProcFacts DEF Inv, Kept
<1> QED
    BY <1>6, <1>7, <1>8, <1>9, <1>10 DEF Inv, Messages

LEMMA ReconnectStep ==
    ASSUME Inv, NEW p \in Proc, pc[p] = "await", op[p] = "gated",
           Reconnect(p), UNCHANGED <<closed, listening, session, booted>>,
           misread' \in BOOLEAN, BusTypes', Messages'
    PROVE  Inv'
<1> DEFINE at == IF handle THEN "join" ELSE "send"
<1>1. /\ connected' = FALSE /\ handle' = FALSE /\ tickFailed' = FALSE
      /\ cancelled' = (cancelled \/ (handle /\ pc[Keepalive] # "dead"))
      /\ stage' = [stage EXCEPT ![p] = "connect"] /\ pc' = [pc EXCEPT ![p] = at]
      /\ UNCHANGED <<lockQ, op, try, slow, late>>
    BY DEF Reconnect, TakeHandle, Goes
<1>2. p \in Callers /\ p # Keepalive
    BY ProcFacts DEF Inv, Typed, CallTypes, Resting
<1>3. Holds(p) /\ \A q \in Proc : Owns(q) \/ Holds(q) => q = p
    BY OneHolder DEF Inv, Queue, Owns
<1>4. /\ Queue' /\ lockQ' \in Seq(Proc)
      /\ \A q \in Proc : pc'[q] = IF q = p THEN at ELSE pc[q]
    BY ZenonT(60), <1>1, <1>3, HolderMoves
<1>5. ~ cancelled /\ (~ handle => pc[Keepalive] = "dead")
    BY <1>2, <1>3, ProcFacts DEF Inv, Kept, Owns
<1>6. Typed'
    <2>1. CallTypes'
        BY <1>1 DEF Inv, Typed, CallTypes, Resting
    <2> QED
        BY <1>1, <1>4, <2>1 DEF Inv, Typed, FlagTypes
<1>7. Calls'
    BY <1>1, <1>2, <1>4, ProcFacts DEF Inv, Calls
<1>8. Consumed'
    BY <1>1, <1>2, <1>4, ProcFacts DEF Inv, Consumed
<1>9. Kept'
    BY <1>1, <1>2, <1>4, <1>5, ProcFacts DEF Inv, Kept
<1> QED
    BY <1>4, <1>6, <1>7, <1>8, <1>9 DEF Inv, Messages

LEMMA ReceiveStep ==
    ASSUME Inv, NEW p \in Proc, Receive(p)
    PROVE  Inv'
<1> DEFINE r == Head(replies)
<1>1. /\ pc[p] = "await" /\ op[p] # "broadcast" /\ replies # <<>>
      /\ Handle(p, r)
      /\ misread' = (misread \/ r.by # p \/ r.cmd # CommandOf(p))
      /\ UNCHANGED <<closed, listening, session, booted>>
      /\ Transient(p, r) => requests' = requests /\ replies' = Tail(replies)
      /\ ~ Transient(p, r) => requests' = Old(requests) /\ replies' = Stray(Tail(replies))
    BY DEF Receive
<1>2. /\ Holds(p) /\ misread' \in BOOLEAN
      /\ slow \in BOOLEAN /\ late \in BOOLEAN
    BY <1>1 DEF Inv, Queue, Owns, Typed, FlagTypes
<1>3. Closing => Closing'
    BY <1>1, <1>2, ClosingKept
<1>4. Accepted(p, r) => ~ Transient(p, r) /\ CommandOf(p) = "connect"
    BY DEF Accepted, Transient, MayRetry, CommandOf
<1> HIDE DEF r
<1>5. CASE Accepted(p, r) /\ op[p] # "gated" /\ Connected(p)
    <2>1. late' = (late \/ slow)
        BY <1>5 DEF Connected, Unlock
    <2>2. BusTypes' /\ Messages'
        BY <1>1, <1>2, <1>3, <1>4, <1>5, <2>1, MessagesReceived DEF r
    <2> QED
        BY <1>1, <1>2, <1>4, <1>5, <2>2, ConnectedStep
<1>6. CASE Accepted(p, r) /\ op[p] = "gated" /\ Reconnected(p)
    <2>1. late' = late
        BY <1>6 DEF Reconnected
    <2>2. BusTypes' /\ Messages'
        BY <1>1, <1>2, <1>3, <1>4, <1>6, <2>1, MessagesReceived DEF r
    <2> QED
        BY <1>1, <1>2, <1>6, <2>2, ReconnectedStep
<1>7. CASE ReconnectNeeded(p, r) /\ Reconnect(p)
    <2>1. op[p] = "gated" /\ late' = late /\ ~ Transient(p, r)
        BY <1>7 DEF Reconnect, ReconnectNeeded, Transient, MayRetry
    <2>2. BusTypes' /\ Messages'
        BY <1>1, <1>2, <1>3, <2>1, MessagesReceived DEF r
    <2> QED
        BY <1>1, <1>2, <1>7, <2>1, <2>2, ReconnectStep
<1>8. CASE Transient(p, r) /\ Retry(p, FALSE) /\ UNCHANGED <<try, connected, handle, cancelled>>
    <2>1. /\ op[p] = "retrying" /\ try[p] < Tries /\ pc' = [pc EXCEPT ![p] = "send"]
          /\ slow' = slow
          /\ UNCHANGED <<lockQ, op, stage, late, tickFailed>>
        BY <1>2, <1>8 DEF Transient, MayRetry, Retry, Goes
    <2>2. BusTypes' /\ Messages'
        BY <1>1, <1>3, <1>8, <2>1, MessagesTransient DEF r
    <2>3. try' \in [Proc -> 0 .. Tries] /\ slow' \in BOOLEAN
        BY <1>2, <1>8, <2>1 DEF Inv, Typed, CallTypes
    <2> QED
        BY <1>1, <1>2, <1>8, <2>1, <2>2, <2>3, RetryStep
<1>9. CASE /\ ~ Transient(p, r) /\ Return(p)
           /\ UNCHANGED <<connected, handle, cancelled, tickFailed>>
    <2> DEFINE at == IF p = Keepalive THEN "sleep" ELSE "idle"
    <2>1. /\ Leaves(p, at) /\ lockQ' = Tail(lockQ) /\ slow' = FALSE
          /\ late' = (late \/ slow)
        BY <1>9 DEF Return, Unlock
    <2>2. BusTypes' /\ Messages'
        BY <1>1, <1>2, <1>3, <1>9, <2>1, MessagesReceived DEF r
    <2>3. tickFailed' = (tickFailed \/ (at = "dead" /\ handle))
        BY <1>9 DEF Inv, Typed, FlagTypes
    <2>4. slow' \in BOOLEAN /\ late' \in BOOLEAN
        BY <1>2, <2>1
    <2>5. (p # Keepalive => at = "idle") /\ (p = Keepalive => at \in {"sleep", "dead"})
        OBVIOUS
    <2> HIDE DEF at
    <2> QED
        BY <1>1, <1>2, <1>9, <2>1, <2>2, <2>3, <2>4, <2>5, CallEnds
<1> QED
    BY <1>1, <1>5, <1>6, <1>7, <1>8, <1>9 DEF Handle

(* A broadcast takes one reply after another.                              *)
LEMMA CollectStep ==
    ASSUME Inv, NEW p \in Proc, Collect(p)
    PROVE  Inv'
<1>1. /\ pc[p] = "await" /\ op[p] = "broadcast" /\ replies # <<>> /\ replies' = Tail(replies)
      /\ UNCHANGED <<lockQ, pc, op, stage, try, connected, handle, cancelled, closed,
                     listening, requests, session, booted, slow, late, misread, tickFailed>>
    BY DEF Collect, callVars, hostVars, histVars
<1>2. /\ \A i \in 1 .. Len(replies') : /\ replies'[i] = replies[i + 1]
                                       /\ i + 1 \in 1 .. Len(replies)
      /\ replies' \in Seq(Message) /\ Len(replies') = Len(replies) - 1
      /\ Len(replies) \in Nat
    BY <1>1, TailProps DEF Inv, Typed, BusTypes
<1>3. Typed'
    BY <1>1, <1>2, CanAssumption DEF Inv, Typed, CallTypes, BusTypes, FlagTypes, Resting
<1>4. Queue' /\ Calls' /\ Consumed' /\ Kept'
    BY <1>1 DEF Inv, Queue, Calls, Consumed, Kept, InLock, Owns, Holds
<1>5. \A q \in Proc : (Under(q)' => Under(q)) /\ (Twice(q)' => Twice(q))
    BY <1>1, UnderTaken DEF Inv
<1>6. \A q : CommandOf(q)' = CommandOf(q)
    BY <1>1 DEF CommandOf
<1>7. Waited'
    <2>1. \A i \in 1 .. Len(replies') : replies'[i].by # Nobody
              => replies'[i].cmd = CommandOf(replies'[i].by)
        BY <1>2 DEF Inv, Waited
    <2>2. \A q \in Proc : /\ Under(q)' => pc[q] = "await" \/ (pc[q] = "send" /\ op[q] = "retrying")
                          /\ Twice(q)' => op[q] \in {"retrying", "broadcast"}
        BY <1>5 DEF Inv, Waited
    <2>3. \A i \in 1 .. Len(requests) : requests[i].by # Nobody
              => requests[i].cmd = CommandOf(requests[i].by)
        BY DEF Inv, Waited
    <2> QED
        BY <1>1, <1>6, <2>1, <2>2, <2>3 DEF Waited, CommandOf
<1>8. OneAttempt'
    BY <1>1, <1>5 DEF Inv, OneAttempt
<1>9. Closing' = Closing
    BY <1>1 DEF Closing
<1> QED
    BY <1>1, <1>2, <1>3, <1>4, <1>7, <1>8, <1>9 DEF Inv, Strays, RepliesMatch

-----------------------------------------------------------------------------
(* The end of the session.                                                 *)

LEMMA JoinStep ==
    ASSUME Inv, NEW c \in Callers, Join(c)
    PROVE  Inv'
<1>1. /\ pc[c] = "join" /\ pc[Keepalive] = "dead" /\ c \in Proc /\ c # Keepalive
      /\ UNCHANGED <<connected, handle, cancelled, requests, session, booted, misread,
                     tickFailed>>
    BY ProcFacts DEF Join
<1>2. Holds(c) /\ \A q \in Proc : Owns(q) \/ Holds(q) => q = c
    BY <1>1, OneHolder DEF Inv, Queue, Owns
<1>3. ~ handle /\ ~ connected /\ ~ cancelled /\ ~ closed
    BY <1>1 DEF Inv, Kept, Consumed
<1>4. \A q \in Proc : ~ Under(q)
    BY <1>1, <1>2, UnderOwns DEF Inv, Waited
<1>5. CASE op[c] = "disconnect"
    <2>1. /\ Leaves(c, "idle") /\ lockQ' = Tail(lockQ) /\ slow' = FALSE
          /\ late' = (late \/ slow)
          /\ closed' = TRUE /\ listening' = FALSE /\ replies' = <<>>
        BY <1>1, <1>5 DEF Join, Return, Unlock
    <2>2. CallTypes' /\ lockQ' \in Seq(Proc) /\ Queue' /\ Calls'
        BY <1>1, <1>2, <2>1, CallOver
    <2>3. \A q \in Proc : pc'[q] = IF q = c THEN "idle" ELSE pc[q]
        BY <1>1, <2>1, LeavesProps DEF Inv, Typed, CallTypes
    <2>4. BusTypes'
        BY <1>1, <2>1, CanAssumption DEF Inv, Typed, BusTypes
    <2>5. Typed'
        BY <1>1, <2>1, <2>2, <2>4 DEF Inv, Typed, FlagTypes
    <2>6. \A d \in Callers : pc'[d] = "idle"
        BY <1>5, <2>3, ProcFacts DEF Inv, Consumed
    <2>7. Consumed' /\ Kept'
        BY <1>1, <1>3, <2>1, <2>3, <2>6, ProcFacts DEF Inv, Consumed, Kept
    <2>8. Messages'
        <3>1. \A q \in Proc : ~ Under(q)'
            BY <1>1, <1>4, <2>1 DEF Under
        <3>2. Strays'
            BY <2>1 DEF Strays
        <3>3. RepliesMatch'
            BY <1>1, <2>1 DEF Inv, RepliesMatch
        <3> QED
            BY <2>4, <3>1, <3>2, <3>3, MessagesOver
    <2> QED
        BY <2>2, <2>5, <2>7, <2>8 DEF Inv, Messages
<1>6. CASE op[c] # "disconnect"
    <2>1. /\ pc' = [pc EXCEPT ![c] = "send"]
          /\ UNCHANGED <<lockQ, op, stage, try, closed, listening, replies, slow, late>>
        BY <1>6 DEF Join, Goes, callVars
    <2>2. /\ Queue' /\ lockQ' \in Seq(Proc)
          /\ \A q \in Proc : pc'[q] = IF q = c THEN "send" ELSE pc[q]
        BY <1>1, <1>2, <2>1, HolderMoves
    <2>3. Typed'
        <3>1. CallTypes'
            BY <2>1 DEF Inv, Typed, CallTypes, Resting
        <3> QED
            BY <1>1, <2>1, <2>2, <3>1 DEF Inv, Typed, BusTypes, FlagTypes
    <2>4. op[c] = "gated"
        BY <1>1, <1>6 DEF Inv, Calls
    <2>5. Calls' /\ Consumed'
        BY <1>1, <2>1, <2>2, <2>4, ProcFacts DEF Inv, Calls, Consumed
    <2>6. Kept'
        BY <1>1, <1>3, <2>1, <2>2, ProcFacts DEF Inv, Kept
    <2>7. ~ Closing
        BY <1>2, <1>3, <1>6, ProcFacts DEF Closing, Owns
    <2>8. Messages'
        BY <1>1, <1>4, <2>1, <2>7, MessagesStay DEF Inv, Messages, Typed, BusTypes
    <2> QED
        BY <2>2, <2>3, <2>5, <2>6, <2>8 DEF Inv, Messages
<1> QED
    BY <1>5, <1>6

LEMMA DisconnectStep ==
    ASSUME Inv, NEW c \in Callers, Disconnect(c)
    PROVE  Inv'
<1>1. /\ Holds(c) /\ pc[c] \in {"queued", "send"} /\ op[c] = "disconnect"
      /\ connected' = FALSE /\ handle' = FALSE /\ tickFailed' = FALSE
      /\ cancelled' = (cancelled \/ (handle /\ pc[Keepalive] # "dead"))
      /\ pc' = [pc EXCEPT ![c] = "join"] /\ c \in Proc /\ c # Keepalive
      /\ UNCHANGED <<lockQ, op, stage, try, closed, listening, replies, session, booted,
                     slow, late, misread>>
      /\ Sent("disconnect", Nobody) \/ requests' = requests
    BY ProcFacts DEF Disconnect, Ready, TakeHandle, Goes, callVars
<1>2. /\ Queue' /\ lockQ' \in Seq(Proc)
      /\ \A q \in Proc : pc'[q] = IF q = c THEN "join" ELSE pc[q]
      /\ \A q \in Proc : Owns(q) \/ Holds(q) => q = c
    BY <1>1, HolderMoves
<1>3. ~ Under(c)
    BY <1>1 DEF Inv, Waited
<1>4. Closing'
    BY <1>1, <1>2 DEF Closing
<1>5. "disconnect" \in Commands
    BY DEF Commands
<1>6. Messages'
    <2>1. CASE Sent("disconnect", Nobody)
        BY <1>1, <1>2, <1>3, <1>4, <1>5, <2>1, MessagesSent
    <2>2. CASE requests' = requests
        <3>1. \A q \in Proc : Under(q) => q # c
            BY <1>3
        <3> QED
            BY <1>1, <1>2, <1>4, <2>2, <3>1, MessagesStay DEF Inv, Messages, Typed, BusTypes
    <2> QED
        BY <1>1, <2>1, <2>2
<1>7. Typed'
    <2>1. CallTypes'
        BY <1>1 DEF Inv, Typed, CallTypes, Resting
    <2>2. BusTypes'
        BY <1>1, <1>5, SentProps, ProcFacts DEF Inv, Typed, BusTypes
    <2> QED
        BY <1>1, <1>2, <2>1, <2>2 DEF Inv, Typed, FlagTypes
<1>8. Calls' /\ Consumed'
    BY <1>1, <1>2, ProcFacts DEF Inv, Calls, Consumed
<1>9. Kept'
    BY <1>1, <1>2, ProcFacts DEF Inv, Kept
<1> QED
    BY <1>2, <1>6, <1>7, <1>8, <1>9 DEF Inv, Messages

LEMMA DropStep ==
    ASSUME Inv, Drop
    PROVE  Inv'
<1>1. /\ \A c \in Callers : pc[c] = "idle"
      /\ closed' = TRUE /\ listening' = FALSE /\ handle' = FALSE /\ cancelled' = FALSE
      /\ tickFailed' = FALSE /\ pc' = [pc EXCEPT ![Keepalive] = "dead"] /\ lockQ' = <<>>
      /\ requests' = Old(requests) /\ replies' = <<>>
      /\ UNCHANGED <<op, stage, try, connected, session, booted, slow, late, misread>>
    BY DEF Drop, Goes, callVars
<1>2. \A q \in Proc : pc'[q] = IF q = Keepalive THEN "dead" ELSE pc[q]
    BY <1>1 DEF Inv, Typed, CallTypes
<1>3. \A q \in Proc : ~ Owns(q)'
    BY <1>1, <1>2, ProcFacts DEF Owns
<1>4. /\ Len(replies') = 0 /\ Len(requests') = Len(requests) /\ requests' \in Seq(Message)
      /\ \A i \in 1 .. Len(requests) : requests'[i].by = Nobody
    BY <1>1, OldProps DEF Inv, Typed, BusTypes
<1>5. BusTypes'
    BY <1>1, <1>4, CanAssumption DEF Inv, Typed, BusTypes
<1>6. Typed'
    <2>1. CallTypes'
        BY <1>1 DEF Inv, Typed, CallTypes, Resting
    <2>2. lockQ' \in Seq(Proc)
        BY <1>1, EmptySeq
    <2>3. FlagTypes'
        BY <1>1 DEF Inv, Typed, FlagTypes
    <2> QED
        BY <1>5, <2>1, <2>2, <2>3 DEF Typed
<1>7. Queue'
    BY <1>1, <1>3 DEF Queue
<1>8. Calls' /\ Consumed'
    BY <1>1, <1>2, ProcFacts DEF Inv, Calls, Consumed
<1>9. Kept'
    BY <1>1, <1>2, ProcFacts DEF Inv, Kept
<1>10. Messages'
    <2>1. \A q \in Proc : ~ Under(q)'
        BY <1>4, ProcFacts DEF Under
    <2>2. Strays'
        BY <1>1, <1>4 DEF Strays
    <2> QED
        BY <1>1, <1>5, <2>1, <2>2, MessagesOver DEF Inv, RepliesMatch
<1> QED
    BY <1>6, <1>7, <1>8, <1>9, <1>10 DEF Inv, Messages

-----------------------------------------------------------------------------
(* The keepalive task, the receive task, the device and the bus.           *)

LEMMA TickStep ==
    ASSUME Inv, Tick
    PROVE  Inv'
<1>1. /\ pc[Keepalive] = "sleep" /\ ~ cancelled /\ pc' = [pc EXCEPT ![Keepalive] = "queued"]
      /\ lockQ' = Append(lockQ, Keepalive)
      /\ UNCHANGED <<op, stage, try, connected, handle, cancelled, closed, listening,
                     requests, replies, session, booted, slow, late, misread, tickFailed>>
    BY DEF Tick, Goes, callVars, hostVars, busVars, histVars
<1>2. \A q \in Proc : pc'[q] = IF q = Keepalive THEN "queued" ELSE pc[q]
    BY <1>1 DEF Inv, Typed, CallTypes
<1>3. Queue' /\ lockQ' \in Seq(Proc)
    BY <1>1, QueueEnter, ProcFacts DEF Inv, InLock
<1>4. Typed'
    <2>1. CallTypes'
        BY <1>1 DEF Inv, Typed, CallTypes, Resting
    <2> QED
        BY <1>1, <1>3, <2>1 DEF Inv, Typed, BusTypes, FlagTypes
<1>5. Calls' /\ Consumed'
    BY <1>1, <1>2, ProcFacts DEF Inv, Calls, Consumed, Typed, CallTypes, Resting
<1>6. Kept'
    BY <1>1, <1>2, ProcFacts DEF Inv, Kept
<1>7. Messages'
    <2>1. Closing' = Closing
        BY <1>1, <1>2, ProcFacts DEF Closing
    <2>2. \A q \in Proc : Under(q) => q # Keepalive
        BY <1>1, UnderOwns, ProcFacts DEF Owns, Inv
    <2> QED
        BY <1>1, <1>2, <2>1, <2>2, MessagesStay DEF Inv, Messages, Typed, BusTypes
<1> QED
    BY <1>3, <1>4, <1>5, <1>6, <1>7 DEF Inv, Messages

LEMMA CancelledStep ==
    ASSUME Inv, Cancelled
    PROVE  Inv'
<1>1. /\ pc[Keepalive] = "sleep" /\ cancelled /\ pc' = [pc EXCEPT ![Keepalive] = "dead"]
      /\ cancelled' = FALSE
      /\ UNCHANGED <<lockQ, op, stage, try, connected, handle, closed, listening,
                     requests, replies, session, booted, slow, late, misread, tickFailed>>
    BY DEF Cancelled, Goes, callVars, busVars, histVars
<1>2. \A q \in Proc : pc'[q] = IF q = Keepalive THEN "dead" ELSE pc[q]
    BY <1>1 DEF Inv, Typed, CallTypes
<1>3. Typed'
    <2>1. CallTypes'
        BY <1>1 DEF Inv, Typed, CallTypes, Resting
    <2> QED
        BY <1>1, <2>1 DEF Inv, Typed, BusTypes, FlagTypes
<1>4. Queue'
    <2>1. \A p \in Proc : (InLock(p) => InLock(p)') /\ (Owns(p)' => Owns(p))
        BY <1>1, <1>2 DEF InLock, Owns
    <2> QED
        BY <1>1, <2>1, QueueStays DEF Inv, Queue
<1>5. Calls' /\ Consumed'
    BY <1>1, <1>2, ProcFacts DEF Inv, Calls, Consumed
<1>6. Kept'
    BY <1>1, <1>2, ProcFacts DEF Inv, Kept
<1>7. Messages'
    <2>1. Closing' = Closing
        BY <1>1, <1>2, ProcFacts DEF Closing
    <2>2. \A q \in Proc : Under(q) => q # Keepalive
        BY <1>1, UnderOwns, ProcFacts DEF Owns, Inv
    <2> QED
        BY <1>1, <1>2, <2>1, <2>2, MessagesStay DEF Inv, Messages, Typed, BusTypes
<1> QED
    BY <1>3, <1>4, <1>5, <1>6, <1>7 DEF Inv, Messages

(* The receive task ends, or the device drops the session.                 *)
LEMMA SessionLostStep ==
    ASSUME Inv, ReceiveTaskEnds \/ SessionDropped
    PROVE  Inv'
<1>1. /\ UNCHANGED <<lockQ, pc, op, stage, try, connected, handle, cancelled, closed,
                     requests, replies, slow, late, misread, tickFailed>>
      /\ listening' = listening \/ listening' = FALSE
      /\ session' \in BOOLEAN /\ booted' \in BOOLEAN
    BY DEF ReceiveTaskEnds, SessionDropped, callVars, hostVars, busVars, histVars, Inv, Typed,
       FlagTypes
<1>2. Typed'
    BY <1>1 DEF Inv, Typed, CallTypes, BusTypes, FlagTypes, Resting
<1>3. Queue' /\ Calls' /\ Consumed' /\ Kept'
    BY <1>1 DEF Inv, Queue, Calls, Consumed, Kept, InLock, Owns, Holds
<1>4. Messages'
    <2>1. Closing' = Closing
        BY <1>1 DEF Closing
    <2> QED
        BY <1>1, <2>1, MessagesStay DEF Inv, Messages, Typed, BusTypes
<1> QED
    BY <1>2, <1>3, <1>4 DEF Inv, Messages

(* A request leaves the bus unanswered.                                    *)
LEMMA DevIgnoresStep ==
    ASSUME Inv, DevIgnores
    PROVE  Inv'
<1>1. /\ requests # <<>> /\ requests' = Tail(requests) /\ booted' \in BOOLEAN
      /\ UNCHANGED <<lockQ, pc, op, stage, try, connected, handle, cancelled, closed,
                     listening, replies, session, slow, late, misread, tickFailed>>
    BY DEF DevIgnores, callVars, hostVars, histVars, Inv, Typed, FlagTypes
<1>2. /\ \A i \in 1 .. Len(requests') : /\ requests'[i] = requests[i + 1]
                                        /\ i + 1 \in 1 .. Len(requests)
      /\ requests' \in Seq(Message) /\ Len(requests') = Len(requests) - 1
      /\ Len(requests) \in Nat
    BY <1>1, TailProps DEF Inv, Typed, BusTypes
<1>3. Typed'
    BY <1>1, <1>2, CanAssumption DEF Inv, Typed, CallTypes, BusTypes, FlagTypes, Resting
<1>4. Queue' /\ Calls' /\ Consumed' /\ Kept'
    BY <1>1 DEF Inv, Queue, Calls, Consumed, Kept, InLock, Owns, Holds
<1>5. \A q \in Proc : (Under(q)' => Under(q)) /\ (Twice(q)' => Twice(q))
    BY <1>1, UnderLost DEF Inv
<1>6. Waited'
    <2>1. \A i \in 1 .. Len(requests') : requests'[i].by # Nobody
              => requests'[i].cmd = CommandOf(requests'[i].by)
        BY <1>2 DEF Inv, Waited
    <2>2. \A q \in Proc : /\ Under(q)' => pc[q] = "await" \/ (pc[q] = "send" /\ op[q] = "retrying")
                          /\ Twice(q)' => op[q] \in {"retrying", "broadcast"}
        BY <1>5 DEF Inv, Waited
    <2>3. \A i \in 1 .. Len(replies) : replies[i].by # Nobody
              => replies[i].cmd = CommandOf(replies[i].by)
        BY DEF Inv, Waited
    <2> QED
        BY <1>1, <2>1, <2>2, <2>3 DEF Waited, CommandOf
<1>7. OneAttempt'
    BY <1>1, <1>5 DEF Inv, OneAttempt
<1>8. Closing' = Closing
    BY <1>1 DEF Closing
<1>9. Strays'
    BY <1>1, <1>2, <1>8 DEF Inv, Strays
<1> QED
    BY <1>1, <1>3, <1>4, <1>6, <1>7, <1>9 DEF Inv, RepliesMatch

(* It is answered.                                                         *)
LEMMA DevAnswersStep ==
    ASSUME Inv, DevAnswers
    PROVE  Inv'
<1> DEFINE m == Head(requests)
<1>1. PICK says \in Answers(m), n \in 0 .. (IF m.cmd = "broadcast" THEN Responders ELSE 1) :
          /\ requests # <<>> /\ m.cmd # "trigger"
          /\ session' = IF says = "transport" THEN session ELSE SessionAfter(m.cmd)
          /\ n <= Room
          /\ replies' = replies \o [i \in 1 .. n |-> Reply(m.cmd, says, m.by)]
          /\ requests' = Tail(requests)
          /\ UNCHANGED <<lockQ, pc, op, stage, try, connected, handle, cancelled, closed,
                         listening, booted, slow, late, misread, tickFailed>>
    BY DEF DevAnswers, callVars, hostVars, histVars
<1>2. /\ m \in Message /\ m = requests[1] /\ 1 \in 1 .. Len(requests)
      /\ \A i \in 1 .. Len(requests') : /\ requests'[i] = requests[i + 1]
                                        /\ i + 1 \in 1 .. Len(requests)
      /\ requests' \in Seq(Message) /\ Len(requests') = Len(requests) - 1
      /\ Len(requests) \in Nat
    BY <1>1, TailProps DEF Inv, Typed, BusTypes
<1> DEFINE r == Reply(m.cmd, says, m.by)
           a == [i \in 1 .. n |-> r]
<1>3. /\ r \in Message /\ r.by = m.by
      /\ m.by # Nobody => r.cmd = m.cmd
    <2>1. says \in {"ack", "bad_session", "transport"}
        BY DEF Answers
    <2>2. m.cmd \in Commands /\ m.by \in Proc \cup {Nobody}
        BY <1>2, MessageProps
    <2> HIDE DEF m
    <2> QED
        BY <2>1, <2>2 DEF Reply, Message, Commands
<1>4. n \in Nat /\ (m.cmd # "broadcast" => n <= 1)
    BY CanAssumption
<1> HIDE DEF m
<1>5. Answered(r, n, a)
    BY <1>1, <1>4 DEF Answered
<1> HIDE DEF r, a
<1>6. /\ replies' \in Seq(Message) /\ Len(replies') <= ReplyRoom
      /\ Len(replies') = Len(replies) + n /\ Len(replies) \in Nat
      /\ \A i \in 1 .. Len(replies) : replies'[i] = replies[i]
      /\ \A i \in Len(replies) + 1 .. Len(replies) + n : replies'[i] = r
    BY <1>3, <1>5, AnswerProps DEF Inv, Typed, BusTypes
<1>7. \A i \in 1 .. Len(replies') :
          \/ i \in 1 .. Len(replies) /\ replies'[i] = replies[i]
          \/ n > 0 /\ replies'[i] = r
    BY <1>4, <1>6
<1>8. \A q \in Proc : /\ Under(q)' => Under(q)
                      /\ Twice(q)' => Twice(q) \/ (m.by = q /\ n > 1)
    BY <1>1, <1>3, <1>5, UnderAnswered DEF Inv, m
<1>9. Typed'
    <2>1. BusTypes'
        BY <1>2, <1>6, CanAssumption DEF Inv, Typed, BusTypes
    <2>2. session' \in BOOLEAN
        BY <1>1 DEF SessionAfter, Inv, Typed, FlagTypes
    <2> QED
        BY <1>1, <2>1, <2>2 DEF Inv, Typed, CallTypes, FlagTypes, Resting
<1>10. Queue' /\ Calls' /\ Consumed' /\ Kept'
    BY <1>1 DEF Inv, Queue, Calls, Consumed, Kept, InLock, Owns, Holds
<1>11. m.by # Nobody => m.cmd = CommandOf(m.by)
    BY <1>2 DEF Inv, Waited
<1>12. \A q \in Proc : m.by = q /\ n > 1 => op[q] = "broadcast" /\ Under(q)
    <2> SUFFICES ASSUME NEW q \in Proc, m.by = q, n > 1 PROVE op[q] = "broadcast" /\ Under(q)
        OBVIOUS
    <2>1. m.cmd = "broadcast"
        BY <1>4
    <2>2. CommandOf(q) = "broadcast"
        BY <2>1, <1>11, ProcFacts
    <2> QED
        BY <1>2, <2>2 DEF CommandOf, Under
<1>13. Waited'
    <2>1. \A i \in 1 .. Len(requests') : requests'[i].by # Nobody
              => requests'[i].cmd = CommandOf(requests'[i].by)
        BY <1>2 DEF Inv, Waited
    <2>2. \A q \in Proc : /\ Under(q)' => pc[q] = "await" \/ (pc[q] = "send" /\ op[q] = "retrying")
                          /\ Twice(q)' => op[q] \in {"retrying", "broadcast"}
        BY <1>8, <1>12 DEF Inv, Waited
    <2>3. \A i \in 1 .. Len(replies') : replies'[i].by # Nobody
              => replies'[i].cmd = CommandOf(replies'[i].by)
        BY <1>3, <1>7, <1>11 DEF Inv, Waited
    <2> QED
        BY <1>1, <2>1, <2>2, <2>3 DEF Waited, CommandOf
<1>14. OneAttempt'
    BY <1>1, <1>8, <1>12 DEF Inv, OneAttempt
<1>15. Closing' = Closing
    BY <1>1 DEF Closing
<1>16. Strays'
    <2>1. n > 0 => listening
        BY <1>1, <1>4 DEF Room
    <2>2. n > 0 /\ m.by = Nobody => late \/ Closing
        BY <1>1, <1>2, <2>1 DEF Inv, Strays
    <2> QED
        BY <1>1, <1>2, <1>3, <1>7, <1>15, <2>2 DEF Inv, Strays
<1> QED
    BY <1>1, <1>9, <1>10, <1>13, <1>14, <1>16 DEF Inv, RepliesMatch

-----------------------------------------------------------------------------
(* The invariant, and what it says.                                        *)

LEMMA InitInv == Init => Inv
<1> SUFFICES ASSUME Init PROVE Inv
    OBVIOUS
<1>1. /\ \A c \in Callers : pc[c] = "idle" /\ op[c] = "none" /\ try[c] = 0
      /\ pc[Keepalive] = "dead" /\ op[Keepalive] = "health"
      /\ Tries \in Nat \ {0} /\ BusRoom \in Nat /\ ReplyRoom \in Nat
    BY ProcFacts, CanAssumption DEF Init, Resting
<1>2. CallTypes
    <2>1. \A p \in Proc : Resting(p) \in Commands \cup {"none", "entering"}
        BY DEF Resting, Commands
    <2> QED
        BY <1>1, <2>1 DEF Init, CallTypes
<1>3. Typed
    <2>1. lockQ \in Seq(Proc) /\ requests \in Seq(Message) /\ replies \in Seq(Message)
          /\ Len(requests) = 0 /\ Len(replies) = 0
        BY EmptySeq DEF Init
    <2>2. BusTypes
        BY <1>1, <2>1, CanAssumption DEF BusTypes
    <2>3. FlagTypes
        BY DEF Init, FlagTypes
    <2> QED
        BY <1>2, <2>1, <2>2, <2>3 DEF Typed
<1>4. Len(lockQ) = 0 /\ Len(requests) = 0 /\ Len(replies) = 0
    BY DEF Init
<1>5. \A p \in Proc : ~ Owns(p) /\ ~ Under(p) /\ ~ Twice(p)
    BY <1>1, <1>4, ProcFacts DEF Owns, Under, Twice
<1>6. Queue /\ Waited /\ OneAttempt /\ Strays
    BY <1>4, <1>5 DEF Queue, Waited, OneAttempt, Strays
<1>7. Calls /\ Consumed /\ Kept /\ RepliesMatch
    BY <1>1, ProcFacts DEF Calls, Consumed, Kept, RepliesMatch, Init
<1> QED
    BY <1>3, <1>6, <1>7 DEF Inv

LEMMA NextInv == Inv /\ [Next]_vars => Inv'
<1> SUFFICES ASSUME Inv, [Next]_vars PROVE Inv'
    OBVIOUS
<1>1. CASE UNCHANGED vars
    <2>1. UNCHANGED <<lockQ, pc, op, stage, try, connected, handle, cancelled, closed,
                      listening, requests, replies, session, booted, slow, late, misread,
                      tickFailed>>
        BY <1>1 DEF vars, callVars, hostVars, busVars, histVars
    <2>2. Typed'
        BY <2>1 DEF Inv, Typed, CallTypes, BusTypes, FlagTypes, Resting
    <2>3. Queue' /\ Calls' /\ Consumed' /\ Kept'
        BY <2>1 DEF Inv, Queue, Calls, Consumed, Kept, InLock, Owns, Holds
    <2>4. Messages'
        BY <2>1, MessagesStay DEF Inv, Messages, Closing, Typed, BusTypes
    <2> QED
        BY <2>2, <2>3, <2>4 DEF Inv, Messages
<1>2. ASSUME NEW p \in Proc, Step(p) PROVE Inv'
    BY <1>2, SendStep, SendFailsStep, TimeOutStep, RxClosedStep, ReceiveStep DEF Step
<1>3. ASSUME NEW c \in Callers, CallerStep(c) PROVE Inv'
    BY <1>2, <1>3, ProcFacts, JoinStep, DisconnectStep, CollectStep, TriggerStep,
       TriggerFailsStep, ProbeStep DEF CallerStep
<1>4. ASSUME NEW c \in Callers, NEW o \in Uses[c], Call(c, o) PROVE Inv'
    BY <1>4, CallStep
<1>5. CASE KeepaliveStep
    BY <1>2, <1>5, ProcFacts, TickStep, CancelledStep DEF KeepaliveStep
<1> QED
    BY <1>1, <1>3, <1>4, <1>5, DropStep, SessionLostStep, DevAnswersStep, DevIgnoresStep
       DEF Next

LEMMA SpecInv == Spec => []Inv
BY InitInv, NextInv, PTL DEF Spec

(* Type correctness of the callers, the lock, the bus and the channel: the *)
(* attempts stay below their bound, the bus and the channel in their room. *)
THEOREM TypeCorrect == Spec => []TypeOK
<1>1. Inv => TypeOK
    BY DEF Inv, Typed, CallTypes, BusTypes, FlagTypes, TypeOK
<1> QED
    BY <1>1, SpecInv, PTL

(* Of two messages on the bus that somebody waits for, both were sent by   *)
(* one call, and that one retries or broadcasts: the lock keeps callers    *)
(* and keepalive apart, whatever is lost, late or refused.                 *)
THEOREM OneCommandInFlight == Spec => []OneInFlight
<1>1. Inv => OneInFlight
    <2> SUFFICES ASSUME Inv, NEW i \in Awaited, NEW j \in Awaited, i # j
                 PROVE  /\ InFlight[i].by = InFlight[j].by
                        /\ op[InFlight[i].by] \in {"retrying", "broadcast"}
        BY DEF OneInFlight
    <2>1. /\ requests \in Seq(Message) /\ replies \in Seq(Message)
          /\ Len(requests) \in Nat /\ Len(replies) \in Nat
        BY DEF Inv, Typed, BusTypes
    <2>2. \A k \in 1 .. Len(replies) + Len(requests) :
              InFlight[k] = IF k <= Len(replies) THEN replies[k] ELSE requests[k - Len(replies)]
        BY <2>1, ConcatProperties DEF InFlight
    <2>3. /\ i \in 1 .. Len(replies) + Len(requests) /\ j \in 1 .. Len(replies) + Len(requests)
          /\ InFlight[i].by # Nobody /\ InFlight[j].by # Nobody
        BY DEF Awaited, InFlight
    <2>4. \A k \in 1 .. Len(replies) + Len(requests) :
              InFlight[k].by # Nobody => InFlight[k].by \in Proc /\ Under(InFlight[k].by)
        <3> SUFFICES ASSUME NEW k \in 1 .. Len(replies) + Len(requests), InFlight[k].by # Nobody
                     PROVE  InFlight[k].by \in Proc /\ Under(InFlight[k].by)
            OBVIOUS
        <3>1. \/ k \in 1 .. Len(replies) /\ InFlight[k] = replies[k]
              \/ k - Len(replies) \in 1 .. Len(requests) /\ InFlight[k] = requests[k - Len(replies)]
            BY <2>1, <2>2
        <3>2. InFlight[k] \in Message
            BY <2>1, <3>1
        <3> QED
            BY <3>1, <3>2, MessageProps DEF Under
    <2>5. InFlight[i].by = InFlight[j].by
        BY <2>3, <2>4, OneHolder, UnderOwns DEF Inv
    <2>6. Twice(InFlight[i].by)
        <3>1. CASE i <= Len(replies) /\ j <= Len(replies)
            BY <2>1, <2>2, <2>3, <2>5, <3>1 DEF Twice
        <3>2. CASE i <= Len(replies) /\ j > Len(replies)
            BY <2>1, <2>2, <2>3, <2>5, <3>2 DEF Twice
        <3>3. CASE i > Len(replies) /\ j <= Len(replies)
            BY SMTT(30), <2>1, <2>2, <2>3, <2>5, <3>3 DEF Twice
        <3>4. CASE i > Len(replies) /\ j > Len(replies)
            <4>1. /\ i - Len(replies) \in 1 .. Len(requests)
                  /\ j - Len(replies) \in 1 .. Len(requests)
                  /\ i - Len(replies) # j - Len(replies)
                BY <2>1, <2>3, <3>4
            <4>2. /\ requests[i - Len(replies)].by = InFlight[i].by
                  /\ requests[j - Len(replies)].by = InFlight[i].by
                BY <2>1, <2>2, <2>3, <2>5, <3>4
            <4> QED
                BY <4>1, <4>2 DEF Twice
        <3> QED
            BY <2>1, <2>3, <3>1, <3>2, <3>3, <3>4
    <2> QED
        BY <2>3, <2>4, <2>5, <2>6 DEF Inv, Waited
<1> QED
    BY <1>1, SpecInv, PTL

(* No reply is taken for the answer to another command before a call was   *)
(* over of which a wait had timed out or a command was sent in part.       *)
THEOREM RepliesMatchCommands == Spec => []RepliesMatch
<1>1. Inv => RepliesMatch
    BY DEF Inv
<1> QED
    BY <1>1, SpecInv, PTL

(* A session that says it is connected is kept alive until a tick of it    *)
(* failed, through every reconnect, and no task outlives its session.      *)
THEOREM KeepaliveStays == Spec => []KeepaliveRuns
<1>1. Inv => KeepaliveRuns
    BY DEF Inv, Kept, Consumed, KeepaliveRuns
<1> QED
    BY <1>1, SpecInv, PTL

-----------------------------------------------------------------------------
(* The one way to hang.  AwaitsBounded fails: a call may wait for ever     *)
(* (JoinHangs).  What follows says that this is a deadlock, and the only   *)
(* one.                                                                    *)

(* Whoever asked for command_lock is in its queue, and whoever holds it    *)
(* goes on by itself: it sends, gives up waiting, or joins a keepalive     *)
(* task that is over or about to hear that it is cancelled.  The exception *)
(* is a keepalive that waits for the lock of the one who joins it.         *)
OnlyJoinHangs ==
    /\ \A p \in Proc : InLock(p) <=> \E i \in 1 .. Len(lockQ) : lockQ[i] = p
    /\ lockQ # <<>> =>
          \/ pc[Head(lockQ)] \in {"queued", "send", "await"}
          \/ /\ pc[Head(lockQ)] = "join"
             /\ pc[Keepalive] = "dead" \/ (pc[Keepalive] = "sleep" /\ cancelled)
          \/ JoinHangs

(* Who left the hang would need the lock, which the one who joins holds.   *)
HangIsForEver == [](JoinHangs => []JoinHangs)

(* Nobody waits for the lock outside its queue.                            *)
Lined == \A p \in Proc : InLock(p) => \E i \in 1 .. Len(lockQ) : lockQ[i] = p

(* A keepalive that is joined was told to stop.                            *)
Told == \A c \in Callers : pc[c] = "join" => pc[Keepalive] = "dead" \/ cancelled

LEMMA LinedStays ==
    ASSUME Lined, lockQ' = lockQ, \A q \in Proc : InLock(q)' => InLock(q)
    PROVE  Lined'
BY DEF Lined

LEMMA LinedEnters ==
    ASSUME Lined, lockQ \in Seq(Proc), NEW p \in Proc, lockQ' = Append(lockQ, p),
           \A q \in Proc \ {p} : InLock(q)' => InLock(q)
    PROVE  Lined'
<1>1. /\ Len(lockQ) \in Nat /\ Len(lockQ') = Len(lockQ) + 1
      /\ \A i \in 1 .. Len(lockQ) : lockQ'[i] = lockQ[i]
      /\ lockQ'[Len(lockQ) + 1] = p
    OBVIOUS
<1>2. \A i \in 1 .. Len(lockQ) : i \in 1 .. Len(lockQ')
    BY <1>1
<1>3. Len(lockQ) + 1 \in 1 .. Len(lockQ')
    BY <1>1
<1> QED
    BY <1>1, <1>2, <1>3 DEF Lined

LEMMA LinedLeaves ==
    ASSUME Lined, lockQ \in Seq(Proc), NEW p \in Proc, Holds(p), lockQ' = Tail(lockQ),
           ~ InLock(p)', \A q \in Proc : InLock(q)' => InLock(q)
    PROVE  Lined'
<1>1. lockQ # <<>> /\ lockQ[1] = p
    BY DEF Holds
<1>2. /\ Len(lockQ) \in Nat \ {0} /\ Len(lockQ') = Len(lockQ) - 1
      /\ \A i \in 1 .. Len(lockQ') : lockQ'[i] = lockQ[i + 1]
    BY <1>1
<1> SUFFICES ASSUME NEW q \in Proc, InLock(q)'
             PROVE  \E i \in 1 .. Len(lockQ') : lockQ'[i] = q
    BY DEF Lined
<1>3. PICK i \in 1 .. Len(lockQ) : lockQ[i] = q
    BY DEF Lined
<1>4. i # 1
    BY <1>1, <1>3
<1>5. i - 1 \in 1 .. Len(lockQ') /\ lockQ'[i - 1] = q
    BY <1>2, <1>3, <1>4
<1> QED
    BY <1>5

(* A step of a call is one of the holder of the lock, who joins nobody.    *)
LEMMA StepHolds ==
    ASSUME Inv, NEW p \in Proc, Step(p)
    PROVE  Holds(p) /\ pc[p] \in {"queued", "send", "await"}
BY DEF Step, Send, SendFails, TimeOut, RxClosed, Receive, Ready, Inv, Queue, Owns

LEMMA NobodyJoins ==
    ASSUME Inv, NEW p \in Proc, Holds(p), pc[p] # "join"
    PROVE  /\ \A c \in Callers : pc[c] # "join"
           /\ pc[Keepalive] # "dead" => handle
<1>1. \A q \in Proc : Owns(q) => q = p
    BY OneHolder DEF Inv
<1>2. \A c \in Callers : pc[c] # "join"
    BY <1>1, ProcFacts DEF Owns
<1> QED
    BY <1>2 DEF Inv, Kept

(* What a step of the holder p does to the lock: p goes on, lets go of it, *)
(* is connected and starts a keepalive, or joins the one that runs.        *)
GoesOn(p) == \E at \in {"send", "await"} : Goes(p, at) /\ lockQ' = lockQ
LetsGo(p) == /\ \E at \in {"idle", "trigger", "pause", "sleep", "dead"} : Goes(p, at)
             /\ lockQ' = Tail(lockQ)
Starts(p) == \/ GoesConnected(p, "idle") /\ lockQ' = Tail(lockQ)
             \/ GoesConnected(p, "send") /\ lockQ' = lockQ
Joins(p) == /\ handle /\ Goes(p, "join") /\ lockQ' = lockQ
            /\ cancelled' = (cancelled \/ pc[Keepalive] # "dead")

LEMMA FailMoves ==
    ASSUME NEW p \in Proc, NEW timedOut, Fail(p, timedOut)
    PROVE  LetsGo(p)
BY DEF Fail, Leaves, Unlock, LetsGo

LEMMA StepMoves ==
    ASSUME Inv, NEW p \in Proc, Step(p)
    PROVE  GoesOn(p) \/ LetsGo(p) \/ Joins(p) \/ (p # Keepalive /\ Starts(p))
<1>1. CASE Send(p)
    BY <1>1 DEF Send, GoesOn
<1>2. CASE SendFails(p)
    BY <1>2, FailMoves DEF SendFails, Retry, GoesOn
<1>3. CASE TimeOut(p)
    <2>1. CASE Retry(p, TRUE)
        BY <2>1 DEF Retry, GoesOn
    <2>2. CASE Fail(p, TRUE)
        BY <2>2, FailMoves
    <2>3. CASE (\E at \in GoesOnAt(p) : Goes(p, at)) /\ Unlock(TRUE)
        BY <2>3 DEF GoesOnAt, Unlock, LetsGo
    <2> QED
        BY <1>3, <2>1, <2>2, <2>3 DEF TimeOut
<1>4. CASE RxClosed(p)
    BY <1>4, FailMoves DEF RxClosed
<1>5. CASE Receive(p)
    <2> DEFINE r == Head(replies)
    <2>1. Handle(p, r)
        BY <1>5 DEF Receive
    <2> HIDE DEF r
    <2>2. CASE Accepted(p, r) /\ op[p] # "gated" /\ Connected(p)
        <3>1. p # Keepalive
            BY <2>2, ProcFacts DEF Accepted, CommandOf, Inv, Typed, CallTypes, Resting
        <3> QED
            BY <2>2, <3>1 DEF Connected, Unlock, Starts
    <2>3. CASE Accepted(p, r) /\ op[p] = "gated" /\ Reconnected(p)
        <3>1. p # Keepalive
            BY <2>3, ProcFacts DEF Inv, Typed, CallTypes, Resting
        <3> QED
            BY <2>3, <3>1 DEF Reconnected, Starts
    <2>4. CASE Reconnect(p)
        BY <2>4 DEF Reconnect, TakeHandle, Joins, GoesOn
    <2>5. CASE Retry(p, FALSE)
        BY <2>5 DEF Retry, GoesOn
    <2>6. CASE Return(p)
        BY <2>6 DEF Return, Leaves, Unlock, LetsGo
    <2> QED
        BY <2>1, <2>2, <2>3, <2>4, <2>5, <2>6 DEF Handle
<1> QED
    BY <1>1, <1>2, <1>3, <1>4, <1>5 DEF Step

(* In any of these ways the others keep their place in the queue.          *)
LEMMA HolderLined ==
    ASSUME Inv, Lined, Told, NEW p \in Proc, Holds(p), pc[p] \in {"queued", "send", "await"},
           GoesOn(p) \/ LetsGo(p) \/ Joins(p) \/ (p # Keepalive /\ Starts(p))
    PROVE  Lined' /\ Told'
<1>1. (\A c \in Callers : pc[c] # "join") /\ (pc[Keepalive] # "dead" => handle)
    BY NobodyJoins
<1>2. pc \in [Proc -> {"idle", "trigger", "pause", "queued", "send", "await",
                       "join", "sleep", "dead"}] /\ lockQ \in Seq(Proc)
    BY DEF Inv, Typed, CallTypes
<1>3. InLock(p)
    BY DEF InLock
<1>4. CASE GoesOn(p)
    <2>1. PICK at \in {"send", "await"} : Goes(p, at) /\ lockQ' = lockQ
        BY <1>4 DEF GoesOn
    <2>2. \A q \in Proc : pc'[q] = IF q = p THEN at ELSE pc[q]
        BY <1>2, <2>1 DEF Goes
    <2>3. \A q \in Proc : InLock(q)' => InLock(q)
        BY <1>3, <2>2 DEF InLock
    <2>4. Told'
        BY <1>1, <2>2, ProcFacts DEF Told
    <2> QED
        BY <2>1, <2>3, <2>4, LinedStays
<1>5. CASE LetsGo(p)
    <2>1. PICK at \in {"idle", "trigger", "pause", "sleep", "dead"} :
              Goes(p, at) /\ lockQ' = Tail(lockQ)
        BY <1>5 DEF LetsGo
    <2>2. \A q \in Proc : pc'[q] = IF q = p THEN at ELSE pc[q]
        BY <1>2, <2>1 DEF Goes
    <2>3. ~ InLock(p)' /\ \A q \in Proc : InLock(q)' => InLock(q)
        BY <2>2 DEF InLock
    <2>4. Told'
        BY <1>1, <2>2, ProcFacts DEF Told
    <2> QED
        BY <1>2, <2>1, <2>3, <2>4, LinedLeaves
<1>6. CASE Joins(p)
    <2>1. \A q \in Proc : pc'[q] = IF q = p THEN "join" ELSE pc[q]
        BY <1>2, <1>6 DEF Joins, Goes
    <2>2. \A q \in Proc : InLock(q)' => InLock(q)
        BY <1>3, <2>1 DEF InLock
    <2>3. pc'[Keepalive] = "dead" \/ cancelled'
        <3>1. CASE p = Keepalive
            BY <1>6, <3>1 DEF Joins
        <3>2. CASE p # Keepalive
            BY <1>6, <2>1, <3>2, ProcFacts DEF Joins
        <3> QED
            BY <3>1, <3>2
    <2> QED
        BY <1>6, <2>2, <2>3, LinedStays DEF Joins, Told
<1>7. CASE p # Keepalive /\ Starts(p)
    <2>1. PICK at \in {"idle", "send"} :
              /\ GoesConnected(p, at)
              /\ at = "idle" => lockQ' = Tail(lockQ)
              /\ at = "send" => lockQ' = lockQ
        BY <1>7 DEF Starts
    <2>2. \A q \in Proc : pc'[q] = IF q = p THEN at
                                   ELSE IF q = Keepalive /\ ~ handle THEN "sleep" ELSE pc[q]
        BY <2>1 DEF GoesConnected
    <2>3. \A q \in Proc \ {p} : InLock(q)' => InLock(q)
        BY <2>2 DEF InLock
    <2>4. Told'
        BY <1>1, <2>2, ProcFacts DEF Told
    <2>5. CASE at = "idle"
        <3>1. ~ InLock(p)'
            BY <2>2, <2>5 DEF InLock
        <3> QED
            BY <1>2, <1>3, <2>1, <2>3, <2>4, <2>5, <3>1, LinedLeaves
    <2>6. CASE at = "send"
        BY <1>3, <2>1, <2>3, <2>4, <2>6, LinedStays
    <2> QED
        BY <2>5, <2>6
<1> QED
    BY <1>4, <1>5, <1>6, <1>7

(* Outside the lock a task only asks for it.                               *)
LEMMA CallerLined ==
    ASSUME Inv, Lined, Told, NEW c \in Callers, pc[c] \in {"idle", "trigger", "pause"},
           \/ Goes(c, "queued") /\ lockQ' = Append(lockQ, c)
           \/ (Goes(c, "idle") \/ Goes(c, "trigger") \/ Goes(c, "pause")) /\ lockQ' = lockQ,
           cancelled' = cancelled
    PROVE  Lined' /\ Told'
<1>1. PICK at \in {"idle", "trigger", "pause", "queued"} :
          /\ Goes(c, at)
          /\ at = "queued" => lockQ' = Append(lockQ, c)
          /\ at # "queued" => lockQ' = lockQ
    OBVIOUS
<1>2. \A q \in Proc : pc'[q] = IF q = c THEN at ELSE pc[q]
    BY <1>1 DEF Goes, Inv, Typed, CallTypes
<1>3. \A q \in Proc \ {c} : InLock(q)' => InLock(q)
    BY <1>2 DEF InLock
<1>4. Told'
    BY <1>2, ProcFacts DEF Told
<1>5. CASE at = "queued"
    BY <1>1, <1>3, <1>4, <1>5, LinedEnters, ProcFacts DEF Inv, Typed
<1>6. CASE at # "queued"
    <2>1. ~ InLock(c)'
        BY <1>2, <1>6, ProcFacts DEF InLock
    <2> QED
        BY <1>1, <1>3, <1>4, <1>6, <2>1, LinedStays
<1> QED
    BY <1>5, <1>6

LEMMA JoinLined ==
    ASSUME Inv, Lined, Told, NEW c \in Callers, Join(c)
    PROVE  Lined' /\ Told'
<1>1. /\ pc[c] = "join" /\ c \in Proc /\ InLock(c)
      /\ \/ Goes(c, "idle") /\ lockQ' = Tail(lockQ)
         \/ Goes(c, "send") /\ lockQ' = lockQ
    BY ProcFacts DEF Join, Return, Leaves, Unlock, InLock
<1>2. PICK at \in {"idle", "send"} :
          /\ Goes(c, at)
          /\ at = "idle" => lockQ' = Tail(lockQ)
          /\ at = "send" => lockQ' = lockQ
    BY <1>1
<1>3. \A q \in Proc : pc'[q] = IF q = c THEN at ELSE pc[q]
    BY <1>2 DEF Goes, Inv, Typed, CallTypes
<1>4. Holds(c) /\ \A q \in Proc : Owns(q) => q = c
    BY <1>1, OneHolder DEF Inv, Queue, Owns
<1>5. Told'
    BY <1>3, <1>4, ProcFacts DEF Told, Owns
<1>6. \A q \in Proc : InLock(q)' => InLock(q)
    BY <1>1, <1>3 DEF InLock
<1>7. CASE at = "idle"
    <2>1. ~ InLock(c)'
        BY <1>1, <1>3, <1>7 DEF InLock
    <2> QED
        BY <1>1, <1>2, <1>4, <1>5, <1>6, <1>7, <2>1, LinedLeaves DEF Inv, Typed
<1>8. CASE at = "send"
    BY <1>2, <1>5, <1>6, <1>8, LinedStays
<1> QED
    BY <1>7, <1>8

LEMMA DisconnectLined ==
    ASSUME Inv, Lined, Told, NEW c \in Callers, Disconnect(c)
    PROVE  Lined' /\ Told'
<1>1. /\ Holds(c) /\ pc[c] \in {"queued", "send"} /\ c \in Proc /\ c # Keepalive
      /\ Goes(c, "join") /\ lockQ' = lockQ
      /\ cancelled' = (cancelled \/ (handle /\ pc[Keepalive] # "dead"))
    BY ProcFacts DEF Disconnect, Ready, TakeHandle
<1>2. \A q \in Proc : pc'[q] = IF q = c THEN "join" ELSE pc[q]
    BY <1>1 DEF Goes, Inv, Typed, CallTypes
<1>3. pc[Keepalive] # "dead" => handle
    BY <1>1, NobodyJoins
<1>4. Told'
    BY <1>1, <1>2, <1>3, ProcFacts DEF Told
<1>5. \A q \in Proc : InLock(q)' => InLock(q)
    BY <1>1, <1>2 DEF InLock
<1> QED
    BY <1>1, <1>4, <1>5, LinedStays

LEMMA KeepaliveLined ==
    ASSUME Inv, Lined, Told, Tick \/ Cancelled
    PROVE  Lined' /\ Told'
<1>1. PICK at \in {"queued", "dead"} :
          /\ pc[Keepalive] = "sleep" /\ Goes(Keepalive, at)
          /\ at = "queued" => ~ cancelled /\ lockQ' = Append(lockQ, Keepalive)
          /\ at = "dead" => lockQ' = lockQ
    BY DEF Tick, Cancelled
<1>2. \A q \in Proc : pc'[q] = IF q = Keepalive THEN at ELSE pc[q]
    BY <1>1 DEF Goes, Inv, Typed, CallTypes
<1>3. Told'
    BY <1>1, <1>2, ProcFacts DEF Told
<1>4. \A q \in Proc \ {Keepalive} : InLock(q)' => InLock(q)
    BY <1>2 DEF InLock
<1>5. CASE at = "queued"
    BY <1>1, <1>3, <1>4, <1>5, LinedEnters, ProcFacts DEF Inv, Typed
<1>6. CASE at = "dead"
    <2>1. ~ InLock(Keepalive)'
        BY <1>2, <1>6, ProcFacts DEF InLock
    <2> QED
        BY <1>1, <1>3, <1>4, <1>6, <2>1, LinedStays
<1> QED
    BY <1>5, <1>6

LEMMA DropLined ==
    ASSUME Inv, Drop
    PROVE  Lined' /\ Told'
<1>1. /\ \A c \in Callers : pc[c] = "idle"
      /\ Goes(Keepalive, "dead")
    BY DEF Drop
<1>2. \A q \in Proc : pc'[q] \in {"idle", "dead"}
    BY <1>1, ProcFacts DEF Goes, Inv, Typed, CallTypes
<1> QED
    BY <1>2, ProcFacts DEF Lined, Told, InLock

LEMMA NextLined == Inv /\ Lined /\ Told /\ [Next]_vars => Lined' /\ Told'
<1> SUFFICES ASSUME Inv, Lined, Told, [Next]_vars PROVE Lined' /\ Told'
    OBVIOUS
<1>1. CASE UNCHANGED <<lockQ, pc, cancelled>>
    BY <1>1 DEF Lined, Told, InLock
<1>2. ASSUME NEW p \in Proc, Step(p) PROVE Lined' /\ Told'
    BY <1>2, StepHolds, StepMoves, HolderLined
<1>3. ASSUME NEW c \in Callers, CallerStep(c), ~ UNCHANGED <<lockQ, pc, cancelled>>
      PROVE  Lined' /\ Told'
    <2>1. CASE Trigger(c) \/ TriggerFails(c) \/ Probe(c)
        <3>1. /\ pc[c] \in {"idle", "trigger", "pause"} /\ cancelled' = cancelled
              /\ \/ Goes(c, "queued") /\ lockQ' = Append(lockQ, c)
                 \/ (Goes(c, "idle") \/ Goes(c, "trigger") \/ Goes(c, "pause"))
                        /\ lockQ' = lockQ
            BY <2>1 DEF Trigger, TriggerFails, Probe, Leaves, hostVars
        <3> QED
            BY <3>1, CallerLined
    <2>2. CASE Collect(c)
        BY <1>3, <2>2 DEF Collect, hostVars
    <2> QED
        BY <1>2, <1>3, <2>1, <2>2, JoinLined, DisconnectLined, ProcFacts DEF CallerStep
<1>4. ASSUME NEW c \in Callers, NEW o \in Uses[c], Call(c, o) PROVE Lined' /\ Told'
    <2>1. /\ pc[c] \in {"idle", "trigger", "pause"} /\ cancelled' = cancelled
          /\ \/ Goes(c, "queued") /\ lockQ' = Append(lockQ, c)
             \/ (Goes(c, "idle") \/ Goes(c, "trigger") \/ Goes(c, "pause")) /\ lockQ' = lockQ
        BY <1>4 DEF Call, hostVars
    <2> QED
        BY <2>1, CallerLined
<1>5. CASE KeepaliveStep
    BY <1>2, <1>5, ProcFacts, KeepaliveLined DEF KeepaliveStep
<1>6. CASE ReceiveTaskEnds \/ DevAnswers \/ DevIgnores \/ SessionDropped
    BY <1>1, <1>6 DEF ReceiveTaskEnds, DevAnswers, DevIgnores, SessionDropped, hostVars
<1>7. CASE UNCHANGED vars
    BY <1>1, <1>7 DEF vars, hostVars
<1> QED
    BY <1>1, <1>3, <1>4, <1>5, <1>6, <1>7, DropLined DEF Next

LEMMA SpecLined == Spec => [](Inv /\ Lined /\ Told)
<1>1. Init => Lined /\ Told
    BY ProcFacts DEF Init, Lined, Told, InLock
<1> QED
    BY <1>1, InitInv, NextInv, NextLined, PTL DEF Spec

(* Nothing but a keepalive that waits for the lock of the one who joins it *)
(* stops the queue of command_lock: whatever the device does not answer,   *)
(* whoever fails, and whenever the receive task ends.                      *)
THEOREM LockGoesOn == Spec => []OnlyJoinHangs
<1>1. Inv /\ Lined /\ Told => OnlyJoinHangs
    <2> SUFFICES ASSUME Inv, Lined, Told PROVE OnlyJoinHangs
        OBVIOUS
    <2>1. \A p \in Proc : InLock(p) <=> \E i \in 1 .. Len(lockQ) : lockQ[i] = p
        BY DEF Inv, Queue, Lined
    <2>2. ASSUME lockQ # <<>>
          PROVE  \/ pc[Head(lockQ)] \in {"queued", "send", "await"}
                 \/ /\ pc[Head(lockQ)] = "join"
                    /\ pc[Keepalive] = "dead" \/ (pc[Keepalive] = "sleep" /\ cancelled)
                 \/ JoinHangs
        <3> DEFINE h == Head(lockQ)
        <3>1. h \in Proc /\ 1 \in 1 .. Len(lockQ) /\ h = lockQ[1]
            BY <2>2 DEF Inv, Typed
        <3>2. InLock(h)
            BY <3>1 DEF Inv, Queue
        <3>3. CASE pc[h] = "join"
            <4>1. h \in Callers /\ Holds(h)
                BY <2>2, <3>1, <3>3, ProcFacts DEF Inv, Calls, Holds
            <4>2. pc[Keepalive] \in {"sleep", "queued", "dead"}
                <5>1. ~ Owns(Keepalive)
                    BY <4>1, OneHolder, ProcFacts DEF Inv
                <5> QED
                    BY <5>1 DEF Inv, Calls, Owns
            <4> QED
                BY <3>3, <4>1, <4>2 DEF Told, JoinHangs
        <3> QED
            BY <3>2, <3>3 DEF InLock
    <2> QED
        BY <2>1, <2>2 DEF OnlyJoinHangs
<1> QED
    BY <1>1, SpecLined, PTL

(* And that stop is for good: reconnect or disconnect never returns, and   *)
(* nobody after it gets the lock.                                          *)
THEOREM HangStays == Spec => HangIsForEver
<1>1. Inv /\ JoinHangs /\ [Next]_vars => JoinHangs'
    <2> SUFFICES ASSUME Inv, JoinHangs, [Next]_vars PROVE JoinHangs'
        OBVIOUS
    <2>1. PICK c \in Callers : pc[c] = "join"
        BY DEF JoinHangs
    <2>2. pc[Keepalive] = "queued" /\ c \in Proc
        BY ProcFacts DEF JoinHangs
    <2>3. \A q \in Proc : Owns(q) \/ Holds(q) => q = c
        BY <2>1, <2>2, OneHolder DEF Owns, Inv
    <2>4. \A p \in Proc : ~ Step(p)
        BY <2>1, <2>3, StepHolds
    <2>5. ASSUME pc'[c] = "join", pc'[Keepalive] = "queued" PROVE JoinHangs'
        BY <2>5 DEF JoinHangs
    <2>6. ASSUME NEW d \in Callers, NEW at, d # c, Goes(d, at) PROVE JoinHangs'
        <3>1. pc'[c] = pc[c] /\ pc'[Keepalive] = pc[Keepalive]
            BY <2>2, <2>6, ProcFacts DEF Goes, Inv, Typed, CallTypes
        <3> QED
            BY <2>1, <2>2, <2>5, <3>1
    <2>7. ASSUME NEW d \in Callers, CallerStep(d) PROVE JoinHangs'
        <3>1. ~ Join(d) /\ ~ Disconnect(d)
            BY <2>1, <2>2, <2>3, ProcFacts DEF Join, Disconnect, Ready
        <3>2. CASE Collect(d)
            BY <2>1, <2>2, <2>5, <3>2 DEF Collect
        <3>3. CASE Trigger(d) \/ TriggerFails(d) \/ Probe(d)
            <4>1. d # c /\ \E at \in {"pause", "idle", "queued"} : Goes(d, at)
                BY <2>1, <3>3 DEF Trigger, TriggerFails, Probe, Leaves
            <4> QED
                BY <2>6, <4>1
        <3> QED
            BY <2>4, <2>7, <3>1, <3>2, <3>3, ProcFacts DEF CallerStep
    <2>8. ASSUME NEW d \in Callers, NEW o \in Uses[d], Call(d, o) PROVE JoinHangs'
        <3>1. d # c /\ \E at \in {"queued", "trigger"} : Goes(d, at)
            BY <2>1, <2>8 DEF Call
        <3> QED
            BY <2>6, <3>1
    <2>9. ~ KeepaliveStep /\ ~ Drop
        BY <2>1, <2>2, <2>4, ProcFacts DEF KeepaliveStep, Tick, Cancelled, Drop
    <2>10. CASE \/ ReceiveTaskEnds \/ DevAnswers \/ DevIgnores \/ SessionDropped
                \/ UNCHANGED vars
        BY <2>1, <2>2, <2>5, <2>10 DEF ReceiveTaskEnds, DevAnswers, DevIgnores,
           SessionDropped, vars
    <2> QED
        BY <2>7, <2>8, <2>9, <2>10 DEF Next
<1> QED
    BY <1>1, SpecInv, PTL DEF Spec, HangIsForEver
=============================================================================
