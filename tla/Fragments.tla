----------------------------- MODULE Fragments -----------------------------
(***************************************************************************)
(* The on-air fragment format of the telemetry link and the reassembly     *)
(* buffer of ISC_RTT_serial.py.                                            *)
(*                                                                         *)
(* A snapshot is cut into FragTot[kind] fragments that share a kind and a  *)
(* sequence number.  The 24 data bytes of a fragment are abstracted to the *)
(* snapshot they were cut from, a number `snap' that no two transmissions  *)
(* share: that is all the properties tell apart.                           *)
(*                                                                         *)
(* The dict of dicts _frag_buffers is the set of the fragments it holds.   *)
(* An inner dict is never empty (setdefault is followed by the store), so  *)
(* the set says everything the dict does, but for the insertion order that *)
(* breaks a tie of min().                                                  *)
(***************************************************************************)
EXTENDS Integers, FiniteSets

CONSTANTS Kinds,      \* snapshot kinds on the air (KIND_FAST, KIND_SLOW, KIND_SNAPSHOT)
          FragTot,    \* fragments of a snapshot, by kind (FRAG_FAST, FRAG_SLOW, ...)
          SeqMod,     \* sequence numbers are taken modulo SeqMod (2^16 in the code)
          MaxPending  \* _MAX_PENDING_SEQS

ASSUME FragmentsAssumption ==
    /\ FragTot \in [Kinds -> Nat \ {0}]
    /\ SeqMod \in Nat \ {0}
    /\ MaxPending \in Nat \ {0}

Seqs == 0 .. SeqMod - 1

Fragment == {f \in [kind : Kinds, seq : Seqs, idx : Nat, snap : Nat] :
                f.idx < FragTot[f.kind]}

(* The distance from prev forward to curr on the circle of sequence numbers. *)
ModDiff(curr, prev) == (curr - prev) % SeqMod

-----------------------------------------------------------------------------
(* Mutated forms of the definitions below, used to test the properties.    *)

KeyBySeq(f) == <<"any", f.seq>>
NoEviction(buf, f) == {{}}
EvictWhenFull(buf, f) ==
    LET keys == {<<g.kind, g.seq>> : g \in buf}
    IN  IF Cardinality(keys) >= MaxPending
        THEN {{g \in buf : <<g.kind, g.seq>> = k} : k \in
                {k \in keys : \A j \in keys : ModDiff(f.seq, k[2]) <= ModDiff(f.seq, j[2])}}
        ELSE {{}}
-----------------------------------------------------------------------------

(* The transmitter's uint16 sequence counter.                              *)
NextSeq(n) == (n + 1) % SeqMod

(* The key of a fragment in _frag_buffers. *)
Key(f) == <<f.kind, f.seq>>

PendingKeys(buf) == {Key(g) : g \in buf}

(* The inner dict of a key. *)
Held(buf, k) == {g \in buf : Key(g) = k}

(* What is thrown out before f is stored: nothing, unless f opens a new    *)
(* partial and the buffer is full; then the partial whose sequence number  *)
(* is the least distance behind that of f.                                 *)
Evictable(buf, f) ==
    IF Key(f) \notin PendingKeys(buf) /\ Cardinality(PendingKeys(buf)) >= MaxPending
    THEN {Held(buf, k) : k \in
            {k \in PendingKeys(buf) : \A j \in PendingKeys(buf) :
                ModDiff(f.seq, k[2]) <= ModDiff(f.seq, j[2])}}
    ELSE {{}}

(* Mutated form of Stored: fragments are numbered from 1.                  *)
StoredFromOne(buf, f) ==
    {g \in buf : ~ (Key(g) = Key(f) /\ g.idx = f.idx + 1)} \cup {[f EXCEPT !.idx = @ + 1]}

(* The buffer with f stored over a fragment of the same key and index. *)
Stored(buf, f) == {g \in buf : ~ (Key(g) = Key(f) /\ g.idx = f.idx)} \cup {f}

(* len(_frag_buffers[key]) == frag_tot: indices are distinct and below     *)
(* frag_tot, so the partial is complete when it holds every one of them.   *)
Complete(buf, f) == \A i \in 0 .. FragTot[f.kind] - 1 :
                        \E g \in Held(buf, Key(f)) : g.idx = i
=============================================================================
