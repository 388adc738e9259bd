--------------------------- MODULE FragReassembly ---------------------------
(***************************************************************************)
(* _process_fragment of ISC_RTT_serial.py behind the radio link.           *)
(*                                                                         *)
(* The transmitter (the ECU, outside this repository) sends the fragments  *)
(* of one snapshot in index order before it starts the next.  The link --  *)
(* nRF24 with auto-acknowledge off, Nano, USB serial -- keeps the order,   *)
(* never duplicates, and may lose any fragment; a loss stands for every    *)
(* way a frame dies before _process_fragment, a bad checksum included.     *)
(* The transmitter may reboot and count from 0 again.                      *)
(***************************************************************************)
EXTENDS Fragments

CONSTANT MaxSnaps  \* bound on the number of transmissions

ASSUME MaxSnapsAssumption == MaxSnaps \in Nat

VARIABLES
    pending,  \* _frag_buffers
    txseq,    \* next sequence number of the transmitter, by kind
    onair,    \* the snapshot being transmitted (snap = 0: none yet)
    idx,      \* index of its next fragment
    sent,     \* history: every transmission started
    clean,    \* history: every fragment of onair so far was received
    haunted,  \* history: when onair began, the last fragment of an earlier use of
              \* its kind and sequence number was pending
    pubs,     \* history: complete snapshots returned while onair was transmitted
    out       \* the fragments of the last snapshot returned, {} before the first

vars == <<pending, txseq, onair, idx, sent, clean, haunted, pubs, out>>

Snapshot == [kind : Kinds, seq : Seqs, snap : Nat]

TypeOK ==
    /\ pending \subseteq Fragment
    /\ txseq \in [Kinds -> Seqs]
    /\ onair \in Snapshot
    /\ idx \in 0 .. FragTot[onair.kind]
    /\ sent \subseteq Snapshot
    /\ clean \in BOOLEAN
    /\ haunted \in BOOLEAN
    /\ pubs \in Nat
    /\ out \subseteq Fragment

Init ==
    /\ pending = {}
    /\ txseq = [k \in Kinds |-> 0]
    /\ onair \in [kind : Kinds, seq : {0}, snap : {0}]
    /\ idx = FragTot[onair.kind]
    /\ sent = {}
    /\ clean = FALSE
    /\ haunted = FALSE
    /\ pubs = 0
    /\ out = {}

(* The transmitter takes the next snapshot of kind k. *)
StartSnapshot(k) ==
    /\ idx = FragTot[onair.kind]
    /\ onair.snap < MaxSnaps
    /\ onair' = [kind |-> k, seq |-> txseq[k], snap |-> onair.snap + 1]
    /\ txseq' = [txseq EXCEPT ![k] = NextSeq(@)]
    /\ idx' = 0
    /\ sent' = sent \cup {onair'}
    /\ clean' = TRUE
    /\ haunted' = \E g \in Held(pending, <<k, txseq[k]>>) : g.idx = FragTot[k] - 1
    /\ pubs' = 0
    /\ UNCHANGED <<pending, out>>

(* The transmitter reboots: the snapshot on the air is abandoned. *)
TxRestart ==
    /\ txseq' = [k \in Kinds |-> 0]
    /\ idx' = FragTot[onair.kind]
    /\ clean' = FALSE
    /\ UNCHANGED <<pending, onair, sent, haunted, pubs, out>>

Lose ==
    /\ idx < FragTot[onair.kind]
    /\ idx' = idx + 1
    /\ clean' = FALSE
    /\ UNCHANGED <<pending, txseq, onair, sent, haunted, pubs, out>>

Arriving == [kind |-> onair.kind, seq |-> onair.seq, idx |-> idx, snap |-> onair.snap]

(* Mutated form of Return: the partial is read with get() and stays.       *)
ReturnByGet(buf, f) ==
    IF Complete(buf, f)
    THEN pending' = buf /\ out' = Held(buf, Key(f)) /\ pubs' = pubs + 1
    ELSE pending' = buf /\ UNCHANGED <<out, pubs>>

(* The end of _process_fragment: a complete partial is popped and returned. *)
Return(buf, f) ==
    IF Complete(buf, f)
    THEN /\ pending' = buf \ Held(buf, Key(f))
         /\ out' = Held(buf, Key(f))
         /\ pubs' = pubs + 1
    ELSE pending' = buf /\ UNCHANGED <<out, pubs>>

ProcessFragment(f) ==
    \E victim \in Evictable(pending, f) : Return(Stored(pending \ victim, f), f)

Deliver ==
    /\ idx < FragTot[onair.kind]
    /\ idx' = idx + 1
    /\ ProcessFragment(Arriving)
    /\ UNCHANGED <<txseq, onair, sent, clean, haunted>>

Next ==
    \/ \E k \in Kinds : StartSnapshot(k)
    \/ TxRestart
    \/ Lose
    \/ Deliver

Spec == Init /\ [][Next]_vars

-----------------------------------------------------------------------------
(* Memory stays bounded however many fragments are lost: never more than   *)
(* _MAX_PENDING_SEQS partial snapshots are kept, and none of them is       *)
(* already complete (it would never be returned).                          *)
PendingBounded ==
    /\ Cardinality({<<f.kind, f.seq>> : f \in pending}) <= MaxPending
    /\ \A f \in pending : \E i \in 0 .. FragTot[f.kind] - 1 :
          \A g \in pending : g.kind = f.kind /\ g.seq = f.seq => g.idx # i

(* A returned snapshot never mixes two transmissions, unless the sequence  *)
(* number it carries was used twice (a wrap of the counter or a reboot of  *)
(* the transmitter): partials outlive both, because nothing clears         *)
(* _frag_buffers.                                                          *)
WholeUnlessSeqReused ==
    \A f, g \in out :
        f.snap # g.snap =>
            \E s, t \in sent : /\ s.snap # t.snap
                               /\ s.kind = t.kind /\ s.seq = t.seq
                               /\ s.kind = f.kind /\ s.seq = f.seq

(* A snapshot of which every fragment arrives is returned, once, and with  *)
(* exactly its own fragments, whatever partials of lost snapshots fill the *)
(* buffer.  One leftover spoils it: the last fragment of an earlier use of *)
(* its kind and sequence number.  If that one is pending, and only then,   *)
(* the reassembler completes too early: what it returns is torn, and the   *)
(* snapshot that was received is not handed up.                            *)
Whole(s) == {[kind |-> s.kind, seq |-> s.seq, idx |-> i, snap |-> s.snap] :
                i \in 0 .. FragTot[s.kind] - 1}
FullReceptionReturned ==
    idx = FragTot[onair.kind] /\ clean =>
        /\ pubs = 1
        /\ out = Whole(onair) <=> ~ haunted

(* The layers above may rely on SnapshotLink. *)
Newest(fs) == IF fs = {} THEN 0 ELSE CHOOSE n \in {f.snap : f \in fs} :
                                       \A f \in fs : f.snap <= n
Link == INSTANCE SnapshotLink WITH onair <- onair.snap, handed <- pubs,
                                   last <- Newest(out)
ImplementsLink == Link!LinkSpec
=============================================================================
