------------------------------- MODULE IsoTp -------------------------------
(***************************************************************************)
(* The ISO-TP transport of isotp_temp.rs, and how rx_task of               *)
(* session_temp.rs uses it: every node that answers the host segments its  *)
(* messages with the rules of IsoTpSegmenter, and the host has one         *)
(* Reassembler for each node.                                              *)
(*                                                                         *)
(* A byte is the message it was cut from and its place in it, so that a    *)
(* message put together from two others shows; Zero is padding.  A frame   *)
(* may be lost, or arrive cut to its PCI byte; a sender may give up in the *)
(* middle of a message (send_frames returns at the first frame that the    *)
(* adapter refuses).  A node may send a frame that belongs to no message,  *)
(* flow control in answer to the host, at any point of its own message.    *)
(* tick has no clock: a message in progress may always be too old.         *)
(***************************************************************************)
EXTENDS Naturals, Sequences

CONSTANTS Peers,    \* nodes that send to the host
          Lengths,  \* lengths of their messages
          MaxLen,   \* MAX_MSG_LEN
          SfMax,    \* SF_MAX_PAYLOAD
          FfData,   \* FF_INITIAL_PAYLOAD
          CfData,   \* CF_PAYLOAD
          SeqMod,   \* sequence numbers of consecutive frames, 16
          MaxMsgs   \* bound: messages sent

ASSUME IsoTpAssumption ==
    /\ Lengths \subseteq 0 .. MaxLen
    /\ {MaxLen, SfMax, FfData, CfData} \subseteq Nat \ {0}
    /\ FfData <= SfMax
    /\ SeqMod \in Nat /\ SeqMod >= 2
    /\ MaxMsgs \in Nat

VARIABLES
    begun,    \* messages begun by all peers
    tx,       \* IsoTpSegmenter of each peer, with the message it sends
    rx,       \* reassemblers
    out,      \* the last message completed: its bytes and what was being sent
    returned, \* history: completions since the message of the peer began
    clean,    \* history: nothing of that message was lost or interrupted
    lost,     \* history: frames lost in a row, up to 2
    burst     \* history: two frames in a row were lost since the last FF

vars == <<begun, tx, rx, out, returned, clean, lost, burst>>

Byte == [msg : Nat, pos : Nat]
Zero == [msg |-> 0, pos |-> 0]

(* Bytes from + 1 .. to of message m.                                      *)
Bytes(m, from, to) == [i \in 1 .. to - from |-> [msg |-> m, pos |-> from + i]]

Smaller(a, b) == IF a <= b THEN a ELSE b

Segmenters == [msg : Nat, len : 0 .. MaxLen, offset : 0 .. MaxLen,
               seq : 0 .. SeqMod - 1, started : BOOLEAN]
Reassemblers == [wait : BOOLEAN, buffer : Seq(Byte), total : 0 .. MaxLen,
                 expected : 0 .. SeqMod - 1]

TypeOK ==
    /\ begun \in 0 .. MaxMsgs
    /\ tx \in [Peers -> Segmenters]
    /\ rx \in [Peers -> Reassemblers]
    /\ \A p \in Peers : tx[p].offset <= tx[p].len
    /\ \A p \in Peers : rx[p].wait => Len(rx[p].buffer) < rx[p].total
    /\ out \in [Peers -> [bytes : Seq(Byte), msg : Nat, len : 0 .. MaxLen, burst : BOOLEAN]]
    /\ returned \in [Peers -> Nat]
    /\ clean \in [Peers -> BOOLEAN] /\ burst \in [Peers -> BOOLEAN]
    /\ lost \in [Peers -> 0 .. 2]

Idle == [wait |-> FALSE, buffer |-> <<>>, total |-> 0, expected |-> 0]

(* IsoTpSegmenter::new                                                     *)
Segmenter(m, n) == [msg |-> m, len |-> n, offset |-> 0, seq |-> 1, started |-> FALSE]

Sent(t) == t.started /\ t.offset = t.len

Init ==
    /\ begun = 0
    /\ tx = [p \in Peers |-> [Segmenter(0, 0) EXCEPT !.started = TRUE]]
    /\ rx = [p \in Peers |-> Idle]
    /\ out = [p \in Peers |-> [bytes |-> <<>>, msg |-> 0, len |-> 0, burst |-> FALSE]]
    /\ returned = [p \in Peers |-> 0]
    /\ clean = [p \in Peers |-> FALSE] /\ burst = [p \in Peers |-> FALSE]
    /\ lost = [p \in Peers |-> 0]

-----------------------------------------------------------------------------
(* The segmenter.                                                          *)

IsShort(t) == t.len <= SfMax

(* The bytes of the next frame end here.                                   *)
End(t) == IF t.started THEN Smaller(t.len, t.offset + CfData)
          ELSE IF IsShort(t) THEN t.len ELSE FfData

Padded(s, n) == s \o [i \in 1 .. n - Len(s) |-> Zero]

NextFrame(t) ==
    LET data == Bytes(t.msg, t.offset, End(t))
    IN  IF t.started THEN [pci |-> "CF", n |-> t.seq, data |-> Padded(data, CfData)]
        ELSE IF IsShort(t) THEN [pci |-> "SF", n |-> t.len, data |-> Padded(data, SfMax)]
        ELSE [pci |-> "FF", n |-> t.len, data |-> data]

(* Mutated form of NextSeq: the mask is forgotten.                         *)
NextSeqUnmasked(n) == n + 1

NextSeq(n) == (n + 1) % SeqMod

Advance(t) ==
    [t EXCEPT !.offset = End(t), !.started = TRUE,
              !.seq = IF t.started THEN NextSeq(@) ELSE @]

-----------------------------------------------------------------------------
(* The reassembler: what is left of r, and what is completed ({} if        *)
(* nothing) when frame f arrives.  A frame cut to its PCI byte is too      *)
(* short for what it carries.                                              *)

FeedSf(f, cut) ==
    [rx |-> Idle, done |-> IF cut THEN {} ELSE {SubSeq(f.data, 1, f.n)}]

(* Mutated form of FeedFf: a message in progress is not given up.          *)
FeedFfContinues(r, f, cut) ==
    [rx |-> IF cut \/ f.n <= SfMax \/ f.n > MaxLen THEN Idle
            ELSE IF r.wait THEN r
            ELSE [wait |-> TRUE, buffer |-> f.data, total |-> f.n, expected |-> 1],
     done |-> {}]

(* SF and FF give up a message in progress before they are looked at.      *)
FeedFf(r, f, cut) ==
    [rx |-> IF cut \/ f.n <= SfMax \/ f.n > MaxLen THEN Idle
            ELSE [wait |-> TRUE, buffer |-> f.data, total |-> f.n, expected |-> 1],
     done |-> {}]

(* A cut consecutive frame leaves the message in progress.                 *)
FeedCf(r, f, cut) ==
    LET buffer == r.buffer \o SubSeq(f.data, 1, Smaller(r.total - Len(r.buffer), CfData))
    IN  IF ~ r.wait THEN [rx |-> r, done |-> {}]
        ELSE IF f.n # r.expected THEN [rx |-> Idle, done |-> {}]
        ELSE IF cut THEN [rx |-> r, done |-> {}]
        ELSE IF Len(buffer) >= r.total THEN [rx |-> Idle, done |-> {buffer}]
        ELSE [rx |-> [r EXCEPT !.buffer = buffer, !.expected = NextSeq(@)], done |-> {}]

(* Flow control, a PCI without a meaning, or no byte at all.               *)
Loose == {"FC", "reserved", "empty"}

(* Only a consecutive frame continues a message in progress.  Every other  *)
(* one gives it up first, also one that carries no message.                *)
Feed(r, f, cut) == CASE f.pci = "SF" -> FeedSf(f, cut)
                     [] f.pci = "FF" -> FeedFf(r, f, cut)
                     [] f.pci = "CF" -> FeedCf(r, f, cut)
                     [] f.pci \in Loose -> [rx |-> Idle, done |-> {}]

(* Mutated form of ReassemblerOf: one for all nodes.                       *)
SharedReassembler(p) == CHOOSE q \in Peers : TRUE

(* One reassembler per source node.                                        *)
ReassemblerOf(p) == p

-----------------------------------------------------------------------------
NewMessage(p, n) ==
    /\ Sent(tx[p]) /\ begun < MaxMsgs
    /\ begun' = begun + 1
    /\ tx' = [tx EXCEPT ![p] = Segmenter(begun', n)]
    /\ returned' = [returned EXCEPT ![p] = 0]
    /\ clean' = [clean EXCEPT ![p] = TRUE]
    /\ UNCHANGED <<rx, out, lost, burst>>

(* The next frame of p does not get to the buffer of the host.             *)
Missing(p) ==
    /\ lost' = [lost EXCEPT ![p] = Smaller(@ + 1, 2)]
    /\ clean' = [clean EXCEPT ![p] = FALSE]

LoseFrame(p) ==
    /\ ~ Sent(tx[p])
    /\ tx' = [tx EXCEPT ![p] = Advance(@)]
    /\ Missing(p)
    /\ burst' = [burst EXCEPT ![p] = @ \/ lost'[p] = 2]
    /\ UNCHANGED <<begun, rx, out, returned>>

(* The rest of the message is not sent.                                    *)
Abandon(p) ==
    /\ ~ Sent(tx[p])
    /\ tx' = [tx EXCEPT ![p].started = TRUE, ![p].offset = tx[p].len]
    /\ Missing(p)
    /\ burst' = [burst EXCEPT ![p] = @ \/ lost'[p] = 2]
    /\ UNCHANGED <<begun, rx, out, returned>>

(* rx_task feeds a frame of p.                                             *)
Receive(p, cut) ==
    /\ ~ Sent(tx[p])
    /\ cut => tx[p].len > 0
    /\ LET t == tx[p]
           f == NextFrame(t)
           fed == Feed(rx[ReassemblerOf(p)], f, cut)
       IN  /\ tx' = [tx EXCEPT ![p] = Advance(t)]
           /\ rx' = [rx EXCEPT ![ReassemblerOf(p)] = fed.rx]
           /\ IF fed.done = {} THEN UNCHANGED <<out, returned>>
              ELSE /\ \E b \in fed.done :
                        out' = [out EXCEPT ![p] =
                                  [bytes |-> b, msg |-> t.msg, len |-> t.len,
                                   burst |-> f.pci = "CF" /\ burst[p]]]
                   /\ returned' = [returned EXCEPT ![p] = @ + 1]
           /\ IF cut THEN Missing(p)
              ELSE lost' = [lost EXCEPT ![p] = 0] /\ UNCHANGED clean
           /\ burst' = [burst EXCEPT ![p] = f.pci = "CF" /\ (@ \/ lost'[p] = 2)]
    /\ UNCHANGED begun

(* A loose frame of p: it may come between two frames of a message.        *)
Interrupt(p) ==
    /\ \E pci \in Loose :
          rx' = [rx EXCEPT ![ReassemblerOf(p)] = Feed(@, [pci |-> pci], FALSE).rx]
    /\ clean' = [clean EXCEPT ![p] = @ /\ (tx[p].started => Sent(tx[p]))]
    /\ UNCHANGED <<begun, tx, out, returned, lost, burst>>

(* tick finds the message in progress too old.                             *)
Tick(p) ==
    /\ rx[p].wait
    /\ rx' = [rx EXCEPT ![p] = Idle]
    /\ clean' = [clean EXCEPT ![p] = FALSE]
    /\ UNCHANGED <<begun, tx, out, returned, lost, burst>>

Next == \E p \in Peers :
          \/ \E n \in Lengths : NewMessage(p, n)
          \/ LoseFrame(p) \/ Abandon(p) \/ Interrupt(p) \/ Tick(p)
          \/ \E cut \in BOOLEAN : Receive(p, cut)

Spec == Init /\ [][Next]_vars

-----------------------------------------------------------------------------
(* A message that is handed up is, byte for byte, the one its sender is    *)
(* sending, unless two frames in a row went missing while it was put       *)
(* together: one lost frame never goes unnoticed, whatever was lost        *)
(* before, given up or sent by other nodes in between.                     *)
WholeUnlessBurst ==
    \A p \in Peers : out[p].burst \/ out[p].bytes = Bytes(out[p].msg, 0, out[p].len)

(* A message is handed up once, whatever remains of messages before it, if *)
(* none of its frames is lost, cut or late and no loose frame of its node  *)
(* comes between two of them: one flow control frame there is enough for   *)
(* the reassembler to give the message up.  Before the first frame and     *)
(* after the last one a loose frame does no harm.                          *)
CleanIsReturned ==
    \A p \in Peers : /\ returned[p] <= 1
                     /\ Sent(tx[p]) /\ clean[p] => returned[p] = 1

(* For the host, every node is a link of its own: none of its messages is  *)
(* handed up twice, late or after a newer one, bursts or not.              *)
Link(p) == INSTANCE SnapshotLink WITH onair <- tx[p].msg, handed <- returned[p],
                                      last <- out[p].msg
ImplementsLinks == \A p \in Peers : Link(p)!LinkSpec
=============================================================================
