------------------------ MODULE FragReassembly_proofs ------------------------
(* Proofs about FragReassembly, for every set of kinds, fragment count,     *)
(* sequence modulus and buffer size; and, in its second half, about the    *)
(* receive loop that calls it (Receiver), for every choice of its times.    *)
EXTENDS FragReassembly, Receiver, FiniteSetTheorems, TLAPS

OnAirKey == <<onair.kind, onair.seq>>

(* Every fragment kept or returned was cut from a transmission of its key. *)
Provenance ==
    /\ \A f \in pending \cup out :
          [kind |-> f.kind, seq |-> f.seq, snap |-> f.snap] \in sent
    /\ \A f, g \in out : Key(f) = Key(g)
    /\ idx < FragTot[onair.kind] => onair \in sent /\ onair.snap > 0

(* Nothing is newer than the snapshot on the air, and what was returned    *)
(* before it began is older.                                               *)
Order ==
    /\ \A f \in pending \cup out : f.snap <= onair.snap
    /\ pubs = 0 => \A f \in out : f.snap < onair.snap
    /\ out # {} => \E m \in out : \A f \in out : f.snap <= m.snap

(* What was received of the snapshot on the air is in the buffer, until it *)
(* is returned; then its first fragment is missing until the next one.     *)
Reception ==
    /\ pubs \in {0, 1}
    /\ pubs = 1 => /\ idx > 0
                   /\ \A f \in pending : Key(f) = OnAirKey => f.idx # 0
    /\ clean /\ pubs = 0 =>
          \A i \in 0 .. idx - 1 : \E f \in pending : Key(f) = OnAirKey /\ f.idx = i

(* An earlier use of the number tears a snapshot that is received in full  *)
(* exactly by its last fragment: every other one is overwritten in time.   *)
Last == FragTot[onair.kind] - 1

Tearing ==
    clean =>
        /\ pubs = 0 =>
              /\ \A f \in pending : Key(f) = OnAirKey /\ f.idx < idx => f.snap = onair.snap
              /\ haunted => \E f \in pending : /\ Key(f) = OnAirKey /\ f.idx = Last
                                              /\ f.snap < onair.snap
              /\ ~ haunted => \A f \in pending : Key(f) = OnAirKey => f.idx # Last
        /\ pubs = 1 => (out = Whole(onair) <=> ~ haunted)

Inv == /\ TypeOK
       /\ IsFiniteSet(PendingKeys(pending))
       /\ PendingBounded
       /\ Provenance
       /\ Order
       /\ Reception
       /\ Tearing

-----------------------------------------------------------------------------
(* Type correctness, by itself.                                            *)

LEMMA SeqFacts == 0 \in Seqs /\ \A n \in Int : n % SeqMod \in Seqs
  BY FragmentsAssumption DEF Seqs

LEMMA TotFacts == \A k \in Kinds : FragTot[k] \in Nat /\ FragTot[k] > 0
  BY FragmentsAssumption

LEMMA ArrivingType ==
    ASSUME TypeOK, idx < FragTot[onair.kind]
    PROVE  Arriving \in Fragment
  BY FragmentsAssumption DEF TypeOK, Arriving, Fragment, Snapshot

(* What one received fragment does to the buffer, stated once.             *)
LEMMA DeliverCases ==
    ASSUME Deliver
    PROVE  \E victim \in Evictable(pending, Arriving) :
             \/ /\ Complete(Stored(pending \ victim, Arriving), Arriving)
                /\ pending' = Stored(pending \ victim, Arriving)
                                 \ Held(Stored(pending \ victim, Arriving), Key(Arriving))
                /\ out' = Held(Stored(pending \ victim, Arriving), Key(Arriving))
                /\ pubs' = pubs + 1
             \/ /\ ~ Complete(Stored(pending \ victim, Arriving), Arriving)
                /\ pending' = Stored(pending \ victim, Arriving)
                /\ out' = out
                /\ pubs' = pubs
  BY DEF Deliver, ProcessFragment, Return

LEMMA TypeInit == Init => TypeOK
<1> SUFFICES ASSUME Init PROVE TypeOK
  OBVIOUS
<1>1. onair \in Snapshot
  BY SeqFacts DEF Init, Snapshot
<1>2. idx \in 0 .. FragTot[onair.kind]
  BY <1>1, TotFacts DEF Init, Snapshot
<1> QED
  BY <1>1, <1>2, SeqFacts DEF Init, TypeOK

LEMMA TypeStep == TypeOK /\ [Next]_vars => TypeOK'
<1> SUFFICES ASSUME TypeOK, [Next]_vars
             PROVE  TypeOK'
  OBVIOUS
<1>1. ASSUME NEW k \in Kinds, StartSnapshot(k)
      PROVE  TypeOK'
  <2>1. onair' \in Snapshot
    BY <1>1, FragmentsAssumption DEF TypeOK, StartSnapshot, Snapshot
  <2>2. txseq' \in [Kinds -> Seqs]
    <3>1. \A n \in Seqs : NextSeq(n) \in Seqs
      BY SeqFacts DEF Seqs, NextSeq
    <3> QED
      BY <1>1, <3>1 DEF TypeOK, StartSnapshot
  <2>3. idx' \in 0 .. FragTot[onair'.kind]
    BY <1>1, <2>1, FragmentsAssumption DEF StartSnapshot, Snapshot
  <2>4. sent' \subseteq Snapshot
    BY <1>1, <2>1 DEF StartSnapshot, TypeOK
  <2> QED
    BY <1>1, <2>1, <2>2, <2>3, <2>4 DEF TypeOK, StartSnapshot
<1>2. CASE TxRestart
  <2>1. onair' \in Snapshot /\ idx' \in 0 .. FragTot[onair'.kind]
    BY <1>2, TotFacts DEF TypeOK, TxRestart, Snapshot
  <2> QED
    BY <1>2, <2>1, SeqFacts DEF TypeOK, TxRestart
<1>3. CASE Lose
  <2>1. idx' \in 0 .. FragTot[onair.kind]
    BY <1>3, TotFacts DEF TypeOK, Lose, Snapshot
  <2> QED
    BY <1>3, <2>1 DEF TypeOK, Lose
<1>4. CASE Deliver
  <2>1. Arriving \in Fragment
    BY <1>4, ArrivingType DEF Deliver
  <2>2. PICK victim : \/ /\ pending' \subseteq Stored(pending \ victim, Arriving)
                         /\ out' \subseteq Stored(pending \ victim, Arriving)
                         /\ pubs' = pubs + 1
                      \/ /\ pending' = Stored(pending \ victim, Arriving)
                         /\ out' = out
                         /\ pubs' = pubs
    BY <1>4, DeliverCases DEF Held
  <2>3. /\ pending' \subseteq Fragment
        /\ out' \subseteq Fragment
        /\ pubs' \in Nat
    BY <2>1, <2>2 DEF TypeOK, Stored
  <2>4. idx' \in 0 .. FragTot[onair.kind]
    BY <1>4, TotFacts DEF TypeOK, Deliver, Snapshot
  <2> QED
    BY <1>4, <2>3, <2>4 DEF TypeOK, Deliver
<1>5. CASE UNCHANGED vars
  BY <1>5 DEF TypeOK, vars
<1> QED
  BY <1>1, <1>2, <1>3, <1>4, <1>5 DEF Next

(* The variables keep their types.                                         *)
THEOREM TypeCorrect == Spec => []TypeOK
  BY TypeInit, TypeStep, PTL DEF Spec

-----------------------------------------------------------------------------
(* The bound on the buffer, for any buffer and any fragment that is stored  *)
(* in it: both processors below keep one.                                  *)

(* No complete partial is kept: its fragments would never be returned.     *)
Partials(buf) ==
    \A f \in buf : \E i \in 0 .. FragTot[f.kind] - 1 :
        \A g \in buf : g.kind = f.kind /\ g.seq = f.seq => g.idx # i

Within(buf) == IsFiniteSet(PendingKeys(buf)) /\ Cardinality(PendingKeys(buf)) <= MaxPending

(* _process_fragment once it has chosen what to throw out.                 *)
Filled(buf, victim, f) == Stored(buf \ victim, f)
Processed(buf, victim, f) ==
    IF Complete(Filled(buf, victim, f), f)
    THEN Filled(buf, victim, f) \ Held(Filled(buf, victim, f), Key(f))
    ELSE Filled(buf, victim, f)

LEMMA FewerWithin ==
    ASSUME NEW STATE buf, NEW STATE rest, Within(buf),
           PendingKeys(rest) \subseteq PendingKeys(buf)
    PROVE  Within(rest)
<1>1. /\ IsFiniteSet(PendingKeys(rest))
      /\ Cardinality(PendingKeys(rest)) <= Cardinality(PendingKeys(buf))
      /\ Cardinality(PendingKeys(rest)) \in Nat /\ Cardinality(PendingKeys(buf)) \in Nat
  BY FS_Subset, FS_CardinalityType DEF Within
<1> QED
  BY <1>1, FragmentsAssumption DEF Within

(* Eviction makes room before the fragment is stored.                      *)
LEMMA BoundStep ==
    ASSUME NEW STATE buf, NEW STATE f, Within(buf),
           NEW STATE victim, victim \in Evictable(buf, f)
    PROVE  Within(Filled(buf, victim, f))
<1> DEFINE K == PendingKeys(buf)
           a == Key(f)
           F == PendingKeys(Filled(buf, victim, f))
<1>1. IsFiniteSet(K) /\ Cardinality(K) \in Nat /\ Cardinality(K) <= MaxPending
  BY FS_CardinalityType DEF Within
<1>2. ASSUME IsFiniteSet(F), Cardinality(F) <= MaxPending
      PROVE  Within(Filled(buf, victim, f))
  BY <1>2 DEF Within
<1>3. CASE a \in K
  <2>1. victim = {}
    BY <1>3 DEF Evictable
  <2>2. F \subseteq K
    BY <1>3, <2>1 DEF Filled, Stored, PendingKeys
  <2>3. IsFiniteSet(F) /\ Cardinality(F) <= Cardinality(K) /\ Cardinality(F) \in Nat
    BY <1>1, <2>2, FS_Subset, FS_CardinalityType
  <2> QED
    BY <1>1, <1>2, <2>3, FragmentsAssumption
<1>4. CASE a \notin K /\ Cardinality(K) < MaxPending
  <2>1. F \subseteq K \cup {a}
    BY DEF Filled, Stored, PendingKeys
  <2>2. IsFiniteSet(K \cup {a}) /\ Cardinality(K \cup {a}) = Cardinality(K) + 1
    BY <1>1, <1>4, FS_AddElement
  <2>3. IsFiniteSet(F) /\ Cardinality(F) <= Cardinality(K) + 1 /\ Cardinality(F) \in Nat
    BY <2>1, <2>2, FS_Subset, FS_CardinalityType
  <2> QED
    BY <1>1, <1>2, <1>4, <2>3, FragmentsAssumption
<1>5. CASE a \notin K /\ Cardinality(K) >= MaxPending
  <2>1. PICK k \in K : victim = Held(buf, k)
    BY <1>5 DEF Evictable
  <2>2. F \subseteq (K \ {k}) \cup {a}
    BY <2>1 DEF Filled, Stored, PendingKeys, Held
  <2>3. IsFiniteSet(K \ {k}) /\ Cardinality(K \ {k}) = Cardinality(K) - 1
    BY <1>1, <2>1, FS_RemoveElement
  <2>4. /\ IsFiniteSet((K \ {k}) \cup {a})
        /\ Cardinality((K \ {k}) \cup {a}) = Cardinality(K \ {k}) + 1
    BY <1>5, <2>3, FS_AddElement
  <2>5. IsFiniteSet(F) /\ Cardinality(F) <= Cardinality(K) /\ Cardinality(F) \in Nat
    BY <1>1, <2>2, <2>3, <2>4, FS_Subset, FS_CardinalityType
  <2> QED
    BY <1>1, <1>2, <2>5, FragmentsAssumption
<1> QED
  BY <1>1, <1>3, <1>4, <1>5, FragmentsAssumption

(* What a stored fragment leaves of the others.                            *)
LEMMA EvictableCases ==
    ASSUME NEW STATE buf, NEW STATE f, NEW STATE victim, victim \in Evictable(buf, f)
    PROVE  /\ Filled(buf, victim, f) \subseteq buf \cup {f}
           /\ f \in Filled(buf, victim, f)
           /\ Key(f) \in PendingKeys(buf) => victim = {}
           /\ Key(f) \notin PendingKeys(buf) => \A g \in buf : Key(g) # Key(f)
           /\ \A g \in Filled(buf, victim, f) : Key(g) = Key(f) /\ g.idx = f.idx => g = f
  BY DEF Filled, Stored, Evictable, PendingKeys

(* A received fragment leaves the buffer within its bound and without a    *)
(* complete partial.                                                       *)
LEMMA ProcessedSound ==
    ASSUME NEW STATE buf, NEW STATE f, Within(buf), Partials(buf),
           NEW STATE victim, victim \in Evictable(buf, f)
    PROVE  Within(Processed(buf, victim, f)) /\ Partials(Processed(buf, victim, f))
<1> DEFINE all == Filled(buf, victim, f)
           after == Processed(buf, victim, f)
<1>1. /\ Complete(all, f) => after = all \ Held(all, Key(f))
      /\ ~ Complete(all, f) => after = all
      /\ after \subseteq all
  BY DEF Processed
<1>2. Within(after)
  <2>1. PendingKeys(after) \subseteq PendingKeys(all)
    BY <1>1 DEF PendingKeys
  <2> QED
    BY <2>1, BoundStep, FewerWithin
<1>3. all \subseteq buf \cup {f}
  BY EvictableCases
<1> HIDE DEF all, after
<1>4. Partials(after)
  <2> SUFFICES ASSUME NEW h \in after
               PROVE  \E i \in 0 .. FragTot[h.kind] - 1 :
                        \A g \in after : g.kind = h.kind /\ g.seq = h.seq => g.idx # i
    BY DEF Partials
  <2>1. CASE Key(h) = Key(f)
    <3>1. ~ Complete(all, f) /\ after = all
      BY <1>1, <2>1 DEF Held
    <3>2. PICK i \in 0 .. FragTot[f.kind] - 1 : \A g \in all : Key(g) = Key(f) => g.idx # i
      BY <3>1 DEF Complete, Held
    <3>3. h.kind = f.kind /\ h.seq = f.seq
      BY <2>1 DEF Key
    <3> QED
      BY <3>1, <3>2, <3>3 DEF Key
  <2>2. CASE Key(h) # Key(f)
    <3>1. h \in buf
      BY <1>1, <1>3, <2>2
    <3>2. PICK i \in 0 .. FragTot[h.kind] - 1 :
            \A g \in buf : g.kind = h.kind /\ g.seq = h.seq => g.idx # i
      BY <3>1 DEF Partials
    <3>3. \A g \in after : g.kind = h.kind /\ g.seq = h.seq => g \in buf
      BY <1>1, <1>3, <2>2 DEF Key
    <3> QED
      BY <3>2, <3>3
  <2> QED
    BY <2>1, <2>2
<1> QED
  BY <1>2, <1>4 DEF after

Buf(victim) == Filled(pending, victim, Arriving)

LEMMA InvInit == Init => Inv
<1> SUFFICES ASSUME Init PROVE Inv
  OBVIOUS
<1>1. TypeOK
  BY TypeInit
<1>2. PendingKeys(pending) = {} /\ {<<f.kind, f.seq>> : f \in pending} = {}
  BY DEF Init, PendingKeys
<1>3. IsFiniteSet(PendingKeys(pending)) /\ PendingBounded
  BY <1>2, FS_EmptySet, FragmentsAssumption DEF Init, PendingBounded
<1>4. onair.kind \in Kinds /\ onair.snap = 0
  BY DEF Init
<1>5. Provenance /\ Order /\ Reception /\ Tearing
  BY <1>4, TotFacts DEF Init, Provenance, Order, Reception, Tearing
<1> QED
  BY <1>1, <1>3, <1>5 DEF Inv

LEMMA InvStart ==
    ASSUME Inv, TypeOK', NEW k \in Kinds, StartSnapshot(k)
    PROVE  Inv'
<1>1. onair.snap \in Nat /\ onair'.snap = onair.snap + 1 /\ idx' = 0
  BY DEF Inv, TypeOK, Snapshot, StartSnapshot
<1>2. PendingBounded' /\ IsFiniteSet(PendingKeys(pending))'
  BY DEF Inv, StartSnapshot, PendingBounded, PendingKeys, Key
<1>3. Provenance'
  BY <1>1 DEF Inv, StartSnapshot, Provenance, Key
<1>4. \A f \in pending \cup out : f.snap \in Nat
  BY DEF Inv, TypeOK, Fragment
<1>5. Order'
  BY <1>1, <1>4 DEF Inv, StartSnapshot, Order
<1>6. Reception'
  BY <1>1 DEF Inv, StartSnapshot, Reception
<1>7. \A f \in pending : f.snap < onair'.snap /\ f.idx \in Nat
  BY <1>1, <1>4 DEF Inv, Order, TypeOK, Fragment
<1>8. /\ Held(pending, <<k, txseq[k]>>) = {f \in pending : Key(f) = OnAirKey'}
      /\ FragTot[k] - 1 = Last'
  BY DEF StartSnapshot, Held, OnAirKey, Last
<1>9. Tearing'
  BY <1>1, <1>7, <1>8 DEF StartSnapshot, Tearing, Key
<1> QED
  BY <1>2, <1>3, <1>5, <1>6, <1>9 DEF Inv

LEMMA InvRestart ==
    ASSUME Inv, TypeOK', TxRestart
    PROVE  Inv'
<1>1. FragTot[onair.kind] \in Nat /\ FragTot[onair.kind] > 0
  BY TotFacts DEF Inv, TypeOK, Snapshot
<1>2. PendingBounded' /\ IsFiniteSet(PendingKeys(pending))'
  BY DEF Inv, TxRestart, PendingBounded, PendingKeys, Key
<1>3. Provenance' /\ Order' /\ Reception' /\ Tearing'
  BY <1>1 DEF Inv, TxRestart, Provenance, Order, Reception, Tearing, OnAirKey, Key
<1> QED
  BY <1>2, <1>3 DEF Inv

LEMMA InvLose ==
    ASSUME Inv, TypeOK', Lose
    PROVE  Inv'
<1>1. idx \in Nat /\ FragTot[onair.kind] \in Nat
  BY TotFacts DEF Inv, TypeOK, Snapshot
<1>2. PendingBounded' /\ IsFiniteSet(PendingKeys(pending))'
  BY DEF Inv, Lose, PendingBounded, PendingKeys, Key
<1>3. Provenance' /\ Order' /\ Reception' /\ Tearing'
  BY <1>1 DEF Inv, Lose, Provenance, Order, Reception, Tearing, OnAirKey, Key
<1> QED
  BY <1>2, <1>3 DEF Inv

(* The fragment that completes a snapshot is the only step that needs work. *)
LEMMA InvDeliver ==
    ASSUME Inv, TypeOK', Deliver
    PROVE  Inv'
<1> DEFINE a == Arriving
<1>1. /\ idx \in Nat /\ FragTot[onair.kind] \in Nat
      /\ idx < FragTot[onair.kind] /\ idx' = idx + 1
      /\ onair' = onair /\ sent' = sent /\ clean' = clean /\ haunted' = haunted
  BY TotFacts DEF Inv, TypeOK, Snapshot, Deliver
<1>2. /\ a \in Fragment
      /\ a.kind = onair.kind /\ a.seq = onair.seq
      /\ a.snap = onair.snap /\ a.idx = idx
      /\ Key(a) = OnAirKey
  BY <1>1, ArrivingType DEF Inv, Arriving, Key, OnAirKey
<1>3. PICK victim \in Evictable(pending, a) :
        \/ /\ Complete(Buf(victim), a)
           /\ pending' = Buf(victim) \ Held(Buf(victim), Key(a))
           /\ out' = Held(Buf(victim), Key(a))
           /\ pubs' = pubs + 1
        \/ /\ ~ Complete(Buf(victim), a)
           /\ pending' = Buf(victim)
           /\ out' = out
           /\ pubs' = pubs
  BY DeliverCases DEF Buf, Filled
<1>4. /\ Buf(victim) \subseteq pending \cup {a}
      /\ a \in Buf(victim)
      /\ Key(a) \in PendingKeys(pending) => victim = {}
      /\ \A f \in Buf(victim) : Key(f) = Key(a) /\ f.idx = a.idx => f = a
  BY EvictableCases DEF Buf
<1>5. Within(pending) /\ Partials(pending)
  BY DEF Inv, PendingBounded, Within, Partials, PendingKeys, Key
<1>6. pending' = Processed(pending, victim, a)
  BY <1>3 DEF Buf, Processed
<1>7. Within(pending') /\ Partials(pending')
  BY <1>5, <1>6, ProcessedSound
<1>8. IsFiniteSet(PendingKeys(pending)')
  BY <1>7 DEF Within, PendingKeys, Key
<1>9. PendingBounded'
  BY <1>7 DEF PendingBounded, Within, Partials, PendingKeys, Key
<1>10. /\ pending' \subseteq pending \cup {a}
       /\ out' = out \/ out' \subseteq pending \cup {a}
  BY <1>3, <1>4 DEF Held
<1>11. Provenance'
  <2>1. [kind |-> a.kind, seq |-> a.seq, snap |-> a.snap] \in sent
    BY <1>1, <1>2 DEF Inv, TypeOK, Snapshot, Provenance
  <2>2. \A f, g \in out' : Key(f) = Key(g)
    BY <1>3 DEF Held, Inv, Provenance
  <2> QED
    BY <1>1, <1>10, <2>1, <2>2 DEF Inv, Provenance, Key
<1>12. onair.snap \in Nat /\ \A f \in pending \cup out : f.snap \in Nat
  BY DEF Inv, TypeOK, Snapshot, Fragment
<1>13. a \in Held(Buf(victim), Key(a))
  BY <1>4 DEF Held
<1>14. pubs \in Nat
  BY DEF Inv, TypeOK
<1>15. Order'
  <2>1. \A f \in pending' \cup out' : f.snap <= onair.snap
    BY <1>2, <1>10, <1>12 DEF Inv, Order
  <2>2. pubs' = 0 => out' = out /\ pubs = 0
    BY <1>3, <1>14
  <2>3. out' # {} => \E m \in out' : \A f \in out' : f.snap <= m.snap
    BY <1>2, <1>3, <1>13, <2>1 DEF Inv, Order
  <2> QED
    BY <1>1, <2>1, <2>2, <2>3 DEF Inv, Order
<1>16. pubs = 1 => idx > 0 /\ \A f \in Buf(victim) : Key(f) = OnAirKey => f.idx # 0
  BY <1>1, <1>2, <1>4 DEF Inv, Reception
<1>17. pubs = 1 => ~ Complete(Buf(victim), a)
  <2>1. 0 \in 0 .. FragTot[a.kind] - 1
    BY <1>1, <1>2
  <2>2. pubs = 1 => ~ \E g \in Held(Buf(victim), Key(a)) : g.idx = 0
    BY <1>2, <1>16 DEF Held
  <2> QED
    BY <2>1, <2>2 DEF Complete
<1>18. clean /\ pubs = 0 =>
         \A i \in 0 .. idx : \E f \in Buf(victim) : Key(f) = OnAirKey /\ f.idx = i
  <2> SUFFICES ASSUME clean, pubs = 0, NEW i \in 0 .. idx
               PROVE  \E f \in Buf(victim) : Key(f) = OnAirKey /\ f.idx = i
    OBVIOUS
  <2>1. CASE i = idx
    BY <1>2, <1>4, <2>1
  <2>2. CASE i < idx
    <3>1. PICK f \in pending : Key(f) = OnAirKey /\ f.idx = i
      BY <1>1, <2>2 DEF Inv, Reception
    <3>2. victim = {}
      BY <1>2, <1>4, <3>1 DEF PendingKeys
    <3>3. f \in Buf(victim)
      BY <1>1, <1>2, <2>2, <3>1, <3>2 DEF Buf, Filled, Stored
    <3> QED
      BY <3>1, <3>3
  <2> QED
    BY <1>1, <2>1, <2>2
<1>19. Reception'
  <2>1. OnAirKey' = OnAirKey
    BY <1>1 DEF OnAirKey
  <2>2. CASE pubs' = pubs + 1
    <3>1. /\ pubs = 0
          /\ pending' = Buf(victim) \ Held(Buf(victim), Key(a))
      BY <1>3, <1>14, <1>17, <2>2 DEF Inv, Reception
    <3>2. \A f \in pending' : Key(f) # OnAirKey
      BY <1>2, <3>1 DEF Held
    <3> QED
      BY <1>1, <2>1, <2>2, <3>1, <3>2 DEF Reception
  <2>3. CASE pubs' = pubs /\ pending' = Buf(victim)
    <3>1. \A i \in 0 .. idx' - 1 : i \in 0 .. idx
      BY <1>1
    <3>2. clean' /\ pubs' = 0 =>
            \A i \in 0 .. idx' - 1 : \E f \in pending' : Key(f) = OnAirKey /\ f.idx = i
      BY <1>1, <1>18, <2>3, <3>1
    <3>3. pubs' = 1 => idx' > 0 /\ \A f \in pending' : Key(f) = OnAirKey => f.idx # 0
      BY <1>1, <1>16, <2>3
    <3> QED
      BY <2>1, <2>3, <3>2, <3>3 DEF Inv, Reception, Key
  <2> QED
    BY <1>3, <2>2, <2>3
<1>20. /\ OnAirKey' = OnAirKey /\ Last' = Last /\ Last \in Nat
       /\ \A f \in pending \cup Buf(victim) : f \in Fragment
  BY <1>1, <1>2, <1>4 DEF OnAirKey, Last, Inv, TypeOK
(* What is held of the snapshot, with the fragment that has just come.     *)
<1>21. ASSUME clean, pubs = 0
       PROVE  /\ \A f \in Buf(victim) : Key(f) = OnAirKey /\ f.idx < idx + 1
                                            => f.snap = onair.snap
              /\ haunted /\ idx # Last => \E f \in Buf(victim) :
                     Key(f) = OnAirKey /\ f.idx = Last /\ f.snap < onair.snap
              /\ ~ haunted /\ idx # Last => \A f \in Buf(victim) :
                     Key(f) = OnAirKey => f.idx # Last
  <2>1. ASSUME NEW f \in Buf(victim), Key(f) = OnAirKey, f.idx < idx + 1
        PROVE  f.snap = onair.snap
    <3>1. CASE f.idx = idx
      BY <1>2, <1>4, <2>1, <3>1
    <3>2. CASE f.idx < idx
      BY <1>2, <1>4, <1>21, <2>1, <3>2 DEF Inv, Tearing
    <3> QED
      BY <1>1, <1>20, <2>1, <3>1, <3>2 DEF Fragment
  <2>2. ASSUME haunted, idx # Last
        PROVE  \E f \in Buf(victim) :
                 Key(f) = OnAirKey /\ f.idx = Last /\ f.snap < onair.snap
    <3>1. PICK f \in pending : Key(f) = OnAirKey /\ f.idx = Last /\ f.snap < onair.snap
      BY <1>21, <2>2 DEF Inv, Tearing
    <3>2. victim = {}
      BY <1>2, <1>4, <3>1 DEF PendingKeys
    <3>3. f \in Buf(victim)
      BY <1>2, <2>2, <3>1, <3>2 DEF Buf, Filled, Stored
    <3> QED
      BY <3>1, <3>3
  <2>3. ASSUME ~ haunted, idx # Last, NEW f \in Buf(victim), Key(f) = OnAirKey
        PROVE  f.idx # Last
    BY <1>2, <1>4, <1>21, <2>3 DEF Inv, Tearing
  <2> QED
    BY <2>1, <2>2, <2>3
<1>22. ASSUME clean, pubs = 0, Complete(Buf(victim), a)
       PROVE  Held(Buf(victim), Key(a)) = Whole(onair) <=> ~ haunted
  <2> DEFINE H == Held(Buf(victim), Key(a))
  <2>1. \A i \in 0 .. Last : \E f \in H : f.idx = i
    BY <1>2, <1>22 DEF Complete, Last
  <2>2. \A f \in H : f \in Buf(victim) /\ Key(f) = OnAirKey
    BY <1>2 DEF Held
  <2> HIDE DEF H
  <2>3. CASE haunted
    <3>1. idx # Last
      <4> SUFFICES ASSUME idx = Last
                   PROVE  FALSE
        OBVIOUS
      <4>1. PICK f \in pending : Key(f) = OnAirKey /\ f.idx = Last
        BY <1>22, <2>3 DEF Inv, Tearing
      <4>2. PICK i \in 0 .. FragTot[f.kind] - 1 :
              \A g \in pending : g.kind = f.kind /\ g.seq = f.seq => g.idx # i
        BY <1>5 DEF Partials
      <4>3. f.kind = onair.kind /\ f.seq = onair.seq
        BY <4>1 DEF Key, OnAirKey
      <4>4. i \in 0 .. idx - 1 \/ i = idx
        BY <1>1, <4>2, <4>3 DEF Last
      <4>5. \E g \in pending : Key(g) = OnAirKey /\ g.idx = i
        BY <1>1, <1>22, <4>1, <4>4 DEF Inv, Reception
      <4> QED
        BY <4>2, <4>3, <4>5 DEF Key, OnAirKey
    <3>2. PICK f \in Buf(victim) :
            Key(f) = OnAirKey /\ f.idx = Last /\ f.snap < onair.snap
      BY <1>21, <1>22, <2>3, <3>1
    <3>3. f \in H
      BY <1>2, <3>2 DEF H, Held
    <3>4. \A g \in Whole(onair) : g.snap = onair.snap
      BY DEF Whole
    <3>5. f \notin Whole(onair)
      BY <1>12, <3>2, <3>4
    <3> QED
      BY <2>3, <3>3, <3>5 DEF H
  <2>4. CASE ~ haunted
    <3>1. idx = Last
      <4>1. \E f \in H : f.idx = Last
        BY <1>20, <2>1
      <4> QED
        BY <1>21, <1>22, <2>2, <2>4, <4>1
    <3>2. \A f \in H : /\ f = [kind |-> onair.kind, seq |-> onair.seq,
                              idx |-> f.idx, snap |-> onair.snap]
                       /\ f.idx \in 0 .. Last
      <4> SUFFICES ASSUME NEW f \in H
                   PROVE  /\ f = [kind |-> onair.kind, seq |-> onair.seq,
                                   idx |-> f.idx, snap |-> onair.snap]
                          /\ f.idx \in 0 .. Last
        OBVIOUS
      <4>1. f \in Fragment /\ f \in Buf(victim)
        BY <1>20, <2>2
      <4>2. f.kind = onair.kind /\ f.seq = onair.seq
        BY <2>2 DEF Key, OnAirKey
      <4>3. f.idx \in 0 .. Last
        BY <1>1, <4>1, <4>2 DEF Fragment, Last
      <4>4. f.snap = onair.snap
        BY <1>1, <1>21, <1>22, <2>2, <3>1, <4>1, <4>3
      <4>5. f = [kind |-> f.kind, seq |-> f.seq, idx |-> f.idx, snap |-> f.snap]
        BY <4>1 DEF Fragment
      <4> QED
        BY <4>2, <4>3, <4>4, <4>5
    <3>3. Whole(onair) = {[kind |-> onair.kind, seq |-> onair.seq, idx |-> i,
                           snap |-> onair.snap] : i \in 0 .. Last}
      BY DEF Whole, Last
    <3>4. H \subseteq Whole(onair)
      BY <3>2, <3>3
    <3>5. Whole(onair) \subseteq H
      <4> SUFFICES ASSUME NEW i \in 0 .. Last
                   PROVE  [kind |-> onair.kind, seq |-> onair.seq, idx |-> i,
                           snap |-> onair.snap] \in H
        BY <3>3
      <4>1. PICK f \in H : f.idx = i
        BY <2>1
      <4> QED
        BY <3>2, <4>1
    <3> QED
      BY <2>4, <3>4, <3>5 DEF H
  <2> QED
    BY <2>3, <2>4
<1>23. Tearing'
  <2> SUFFICES ASSUME clean
               PROVE  Tearing'
    BY <1>1 DEF Tearing
  <2>1. CASE pubs' = pubs + 1 /\ Complete(Buf(victim), a)
    <3>1. pubs = 0 /\ pubs' = 1 /\ out' = Held(Buf(victim), Key(a))
      BY <1>3, <1>14, <1>17, <2>1 DEF Inv, Reception
    <3>2. (out' = Whole(onair)) <=> ~ haunted
      BY <1>22, <2>1, <3>1
    <3> QED
      BY <1>1, <3>1, <3>2 DEF Tearing, Whole
  <2>2. CASE /\ ~ Complete(Buf(victim), a)
             /\ pending' = Buf(victim) /\ out' = out /\ pubs' = pubs
    <3>1. CASE pubs = 0
      <4>1. idx # Last
        <5> SUFFICES ASSUME idx = Last
                     PROVE  FALSE
          OBVIOUS
        <5>1. \A i \in 0 .. FragTot[a.kind] - 1 :
                \E f \in Buf(victim) : Key(f) = OnAirKey /\ f.idx = i
          BY <1>2, <1>18, <3>1 DEF Last
        <5> QED
          BY <1>2, <2>2, <5>1 DEF Complete, Held
      <4> QED
        BY <1>1, <1>20, <1>21, <2>2, <3>1, <4>1 DEF Tearing, Key
    <3>2. CASE pubs = 1
      BY <1>1, <2>2, <3>2 DEF Inv, Tearing, Whole
    <3> QED
      BY <3>1, <3>2 DEF Inv, Reception
  <2> QED
    BY <1>3, <2>1, <2>2
<1> QED
  BY <1>8, <1>9, <1>11, <1>15, <1>19, <1>23 DEF Inv

LEMMA InvStep == Inv /\ [Next]_vars => Inv'
<1> SUFFICES ASSUME Inv, [Next]_vars
             PROVE  Inv'
  OBVIOUS
<1>1. TypeOK'
  BY TypeStep DEF Inv
<1>2. ASSUME NEW k \in Kinds, StartSnapshot(k)
      PROVE  Inv'
  BY <1>1, <1>2, InvStart
<1>3. CASE TxRestart
  BY <1>1, <1>3, InvRestart
<1>4. CASE Lose
  BY <1>1, <1>4, InvLose
<1>5. CASE Deliver
  BY <1>1, <1>5, InvDeliver
<1>6. CASE UNCHANGED vars
  <2>1. PendingBounded' /\ IsFiniteSet(PendingKeys(pending))'
    BY <1>6 DEF vars, Inv, PendingBounded, PendingKeys, Key
  <2>2. Provenance' /\ Order' /\ Reception' /\ Tearing'
    BY <1>6 DEF vars, Inv, Provenance, Order, Reception, Tearing, OnAirKey, Key, Last
  <2> QED
    BY <1>1, <2>1, <2>2 DEF Inv
<1> QED
  BY <1>2, <1>3, <1>4, <1>5, <1>6 DEF Next

LEMMA Invariant == Spec => []Inv
  BY InvInit, InvStep, PTL DEF Spec

-----------------------------------------------------------------------------
(* The reassembly buffer never holds more than _MAX_PENDING_SEQS partials, *)
(* and no complete one.                                                    *)
THEOREM BufferBounded == Spec => []PendingBounded
<1>1. Inv => PendingBounded
  BY DEF Inv
<1> QED
  BY <1>1, Invariant, PTL

(* What _process_fragment returns comes from one transmission, unless its  *)
(* sequence number was transmitted twice.                                  *)
THEOREM WholeSnapshots == Spec => []WholeUnlessSeqReused
<1>1. Inv => WholeUnlessSeqReused
  <2> SUFFICES ASSUME Inv, NEW f \in out, NEW g \in out, f.snap # g.snap
               PROVE  \E s, t \in sent : /\ s.snap # t.snap
                                         /\ s.kind = t.kind /\ s.seq = t.seq
                                         /\ s.kind = f.kind /\ s.seq = f.seq
    BY DEF WholeUnlessSeqReused
  <2> DEFINE s == [kind |-> f.kind, seq |-> f.seq, snap |-> f.snap]
             t == [kind |-> g.kind, seq |-> g.seq, snap |-> g.snap]
  <2>1. s \in sent /\ t \in sent
    BY DEF Inv, Provenance
  <2>2. f.kind = g.kind /\ f.seq = g.seq
    BY DEF Inv, Provenance, Key
  <2>3. /\ s.snap # t.snap
        /\ s.kind = t.kind /\ s.seq = t.seq
        /\ s.kind = f.kind /\ s.seq = f.seq
    BY <2>2
  <2> QED
    BY <2>1, <2>3
<1> QED
  BY <1>1, Invariant, PTL

(* A snapshot received in full is returned exactly once, however full of   *)
(* other partials the buffer is; and what is returned is the snapshot, all *)
(* of it and nothing else, exactly if the last fragment of an earlier use  *)
(* of its number was not left in the buffer when it began.                 *)
THEOREM FullReception == Spec => []FullReceptionReturned
<1>1. Inv => FullReceptionReturned
  <2> SUFFICES ASSUME Inv, idx = FragTot[onair.kind], clean, pubs # 1
               PROVE  FALSE
    BY DEF FullReceptionReturned, Inv, Tearing
  <2>1. 0 \in 0 .. FragTot[onair.kind] - 1
    BY TotFacts DEF Inv, TypeOK, Snapshot
  <2>2. \A i \in 0 .. FragTot[onair.kind] - 1 :
          \E f \in pending : Key(f) = OnAirKey /\ f.idx = i
    BY TotFacts DEF Inv, TypeOK, Snapshot, Reception
  <2>3. PICK f \in pending : Key(f) = OnAirKey
    BY <2>1, <2>2
  <2>4. PICK i \in 0 .. FragTot[f.kind] - 1 :
          \A g \in pending : g.kind = f.kind /\ g.seq = f.seq => g.idx # i
    BY DEF Inv, PendingBounded
  <2>5. f.kind = onair.kind /\ f.seq = onair.seq
    BY <2>3 DEF Key, OnAirKey
  <2> QED
    BY <2>2, <2>4, <2>5 DEF Key, OnAirKey
<1> QED
  BY <1>1, Invariant, PTL

-----------------------------------------------------------------------------
(* Refinement of SnapshotLink.                                             *)

LEMMA NewestIs ==
    ASSUME NEW STATE fs, NEW STATE m, m \in fs, fs \subseteq Fragment,
           \A f \in fs : f.snap <= m.snap
    PROVE  Newest(fs) = m.snap
<1>1. \A f \in fs : f.snap \in Nat
  BY DEF Fragment
<1>2. \A n \in {f.snap : f \in fs} : (\A f \in fs : f.snap <= n) => n = m.snap
  BY <1>1
<1> QED
  BY <1>2 DEF Newest

(* The reassembler implements the link: it returns each transmission at    *)
(* most once, while it is on the air, hence in the order of transmission.  *)
THEOREM LinkRefinement == Spec => ImplementsLink
<1>1. Init => Link!LinkInit
  BY DEF Init, Link!LinkInit, Newest
<1>2. Inv /\ TypeOK' /\ [Next]_vars => [Link!LinkNext]_(Link!linkVars)
  <2> SUFFICES ASSUME Inv, TypeOK', [Next]_vars
               PROVE  [Link!LinkNext]_(Link!linkVars)
    OBVIOUS
  <2>1. ASSUME NEW k \in Kinds, StartSnapshot(k)
        PROVE  Link!Begin
    <3>1. onair'.snap = onair.snap + 1 /\ pubs' = 0 /\ out' = out
      BY <2>1 DEF StartSnapshot
    <3>2. onair.snap \in Nat
      BY DEF Inv, TypeOK, Snapshot
    <3>3. Newest(out)' = Newest(out)
      BY <3>1 DEF Newest
    <3> QED
      BY <3>1, <3>2, <3>3 DEF Link!Begin
  <2>2. CASE TxRestart \/ Lose \/ UNCHANGED vars
    <3>1. onair' = onair /\ pubs' = pubs /\ out' = out
      BY <2>2 DEF TxRestart, Lose, vars
    <3>2. Newest(out)' = Newest(out)
      BY <3>1 DEF Newest
    <3> QED
      BY <3>1, <3>2 DEF Link!linkVars
  <2>3. CASE Deliver
    <3>1. onair' = onair /\ idx < FragTot[onair.kind]
      BY <2>3 DEF Deliver
    <3>2. CASE out' = out /\ pubs' = pubs
      BY <3>1, <3>2 DEF Link!linkVars, Newest
    <3>3. CASE pubs' = pubs + 1 /\ Arriving \in out'
      <4>1. Inv'
        BY <2>3, InvDeliver
      <4>2. pubs = 0 /\ pubs' = 1
        BY <3>3, <4>1 DEF Inv, Reception, TypeOK
      <4>3. Arriving.snap = onair.snap
        BY DEF Arriving
      <4>4. /\ Arriving \in out' /\ out' \subseteq Fragment
            /\ \A f \in out' : f.snap <= Arriving.snap
        BY <3>1, <3>3, <4>1, <4>3 DEF Inv, Order, TypeOK
      <4>5. Newest(out') = onair.snap
        <5>1. \A f \in out' : f.snap \in Nat
          BY <4>4 DEF Fragment
        <5>2. \A n \in {f.snap : f \in out'} :
                (\A f \in out' : f.snap <= n) => n = Arriving.snap
          BY <4>4, <5>1
        <5> QED
          BY <4>3, <4>4, <5>2 DEF Newest
      <4>6. Newest(out) < onair.snap
        <5>1. CASE out = {}
          BY <3>1, <5>1 DEF Inv, Provenance, Newest
        <5>2. CASE out # {}
          <6>1. PICK m \in out : \A f \in out : f.snap <= m.snap
            BY <5>2 DEF Inv, Order
          <6>2. Newest(out) = m.snap
            BY <6>1, NewestIs DEF Inv, TypeOK
          <6>3. m.snap < onair.snap
            BY <4>2, <6>1 DEF Inv, Order
          <6> QED
            BY <6>2, <6>3
        <5> QED
          BY <5>1, <5>2
      <4>7. Link!HandUp
        BY <3>1, <4>2, <4>5, <4>6 DEF Link!HandUp, Newest
      <4> QED
        BY <4>7 DEF Link!LinkNext
    <3>4. \/ out' = out /\ pubs' = pubs
          \/ pubs' = pubs + 1 /\ Arriving \in out'
      <4>1. PICK victim \in Evictable(pending, Arriving) :
              \/ out' = Held(Buf(victim), Key(Arriving)) /\ pubs' = pubs + 1
              \/ out' = out /\ pubs' = pubs
        BY <2>3, DeliverCases DEF Buf, Filled
      <4>2. Arriving \in Held(Buf(victim), Key(Arriving))
        BY DEF Held, Buf, Filled, Stored
      <4> QED
        BY <4>1, <4>2
    <3> QED
      BY <3>2, <3>3, <3>4
  <2> QED
    BY <2>1, <2>2, <2>3 DEF Next, Link!LinkNext
<1> QED
  BY <1>1, <1>2, Invariant, TypeCorrect, PTL
    DEF Spec, ImplementsLink, Link!LinkSpec, Inv

-----------------------------------------------------------------------------
(* The receive loop around the reassembly (Receiver), with a buffer and a  *)
(* clock of its own.                                                       *)

Clocks ==
    /\ lag \in {0, OpenT}
    /\ took \in 0 .. TurnT
    /\ age \in 0 .. AgeCap
    /\ sinceLog \in 0 .. LogT
    /\ quiet \in 0 .. QuietLimit + 1

Air == /\ lastSeq \in Seqs \cup {NoSeq}
       /\ buffer \subseteq Fragment
       /\ tx \in [kind : Kinds, seq : Seqs, idx : Nat] /\ tx.idx < FragTot[tx.kind]

Flags ==
    /\ running \in BOOLEAN /\ ser \in BOOLEAN /\ calm \in BOOLEAN /\ logged \in BOOLEAN
    /\ badge \in {"LIVE", "STALE", "BAD"}
    /\ hw \in {"OK", "NO_SIGNAL", "NO_RADIO_HW"}

(* A read blocks inside a turn, with the port open.                        *)
Turns ==
    /\ back \in BOOLEAN
    /\ back => running /\ ser
    /\ ~ back => took = 0

(* The clock of the badge is never behind the time spent reading.          *)
Honest == quiet <= age + took \/ age = AgeCap

(* LIVE outlasts the limit by one turn, and by the read of the next one.   *)
Live == running /\ badge = "LIVE" =>
            /\ ser
            /\ lag = 0 /\ lastSeq # NoSeq => quiet <= StaleT + TurnT + took

(* A status frame that advanced the number left it at 0.                   *)
Echoes == echoes \in {0, 1} /\ (echoes = 1 => lastSeq = 0)

LoopInv == Clocks /\ Air /\ Flags /\ Turns /\ Honest /\ Live /\ Echoes

LEMMA LoopTimeFacts ==
    /\ StaleT \in Nat /\ StaleT > 0 /\ ReadT \in Nat /\ ReadT > 0 /\ OpenT \in Nat /\ OpenT > 0
    /\ RetryT \in Nat /\ RetryT > 0 /\ LogT \in Nat /\ LogT > 0
    /\ TurnT \in Nat /\ TurnT > 0
    /\ AgeCap = StaleT + 1 /\ QuietLimit = StaleT + 2 * TurnT
<1>1. TurnT = 5 * ReadT
  BY DEF TurnT, Reads
<1> QED
  BY <1>1, TimeAssumption DEF AgeCap, QuietLimit

LEMMA LoopInvTypes == ASSUME LoopInv PROVE LoopTypeOK /\ StaleWhenQuiet
<1>1. tx.kind \in Kinds /\ tx.seq \in Seqs /\ tx.idx \in 0 .. FragTot[tx.kind] - 1
  BY TotFacts DEF LoopInv, Air
<1>2. LoopTypeOK
  BY <1>1 DEF LoopInv, Clocks, Air, Flags, Turns, Echoes, LoopTypeOK
<1>3. quiet \in Nat /\ took \in Nat /\ took <= TurnT
  BY LoopTimeFacts DEF LoopInv, Clocks
<1>4. quiet <= StaleT + TurnT + took => quiet <= QuietLimit
  BY <1>3, LoopTimeFacts
<1>5. StaleWhenQuiet
  BY <1>4 DEF LoopInv, Live, Echoes, StaleWhenQuiet
<1> QED
  BY <1>2, <1>5

(* The numbers that the clocks are.                                        *)
LEMMA ClockNumbers ==
    ASSUME Clocks, Honest
    PROVE  /\ lag \in Nat /\ took \in Nat /\ took <= TurnT
           /\ age \in Nat /\ age <= StaleT + 1 /\ sinceLog \in Nat /\ sinceLog <= LogT
           /\ quiet \in Nat /\ quiet <= StaleT + 2 * TurnT + 1
           /\ quiet <= age + took \/ age = StaleT + 1
  BY LoopTimeFacts DEF Clocks, Honest

(* A turn of the loop that ends after a sleep of d.                        *)
LEMMA ClocksElapse ==
    ASSUME Clocks, Honest, NEW d \in Nat, Elapse(d)
    PROVE  /\ Clocks' /\ Honest' /\ lag' = 0 /\ back' = FALSE /\ took' = 0
           /\ echoes' = echoes
           /\ d = 0 /\ age <= StaleT => quiet' <= StaleT + TurnT
<1> USE ClockNumbers
<1>1. /\ lag' = 0 /\ back' = FALSE /\ took' = 0 /\ echoes' = echoes
      /\ age' = IF age + (lag + took + d) > StaleT + 1
                THEN StaleT + 1 ELSE age + (lag + took + d)
      /\ sinceLog' = IF sinceLog + (lag + took + d) > LogT
                     THEN LogT ELSE sinceLog + (lag + took + d)
      /\ quiet' = IF quiet + d > StaleT + 2 * TurnT + 1
                  THEN StaleT + 2 * TurnT + 1 ELSE quiet + d
  BY LoopTimeFacts DEF Elapse, Over, Passed, AtMost
<1>2. age' \in 0 .. StaleT + 1 /\ sinceLog' \in 0 .. LogT
  BY <1>1, LoopTimeFacts
<1>3. quiet' \in 0 .. (StaleT + 2 * TurnT) + 1
  BY <1>1, LoopTimeFacts
<1>4. quiet' <= age' \/ age' = StaleT + 1
  BY <1>1, LoopTimeFacts
<1>5. d = 0 /\ age <= StaleT => quiet' <= StaleT + TurnT
  BY <1>1, LoopTimeFacts
<1>6. AgeCap' = StaleT + 1 /\ QuietLimit' = StaleT + 2 * TurnT /\ TurnT' = TurnT
  BY LoopTimeFacts DEF AgeCap, QuietLimit, TurnT
<1>7. Clocks'
  BY <1>1, <1>2, <1>3, <1>6, LoopTimeFacts DEF Clocks
<1>8. Honest'
  BY <1>1, <1>2, <1>4, <1>6 DEF Honest
<1> QED
  BY <1>1, <1>5, <1>7, <1>8

(* What a valid frame does to the clocks and the badge.                    *)
LEMMA SeqSeenStep ==
    ASSUME Clocks, Honest, NEW echo, NEW seq \in Seqs,
           lastSeq \in Seqs \cup {NoSeq}, badge \in {"LIVE", "STALE", "BAD"},
           Live, running, ser, SeqSeen(seq, echo), Over,
           sinceLog' \in 0 .. LogT, UNCHANGED <<running, ser>>
    PROVE  Clocks' /\ Honest' /\ lastSeq' \in Seqs \cup {NoSeq}
           /\ badge' \in {"LIVE", "STALE", "BAD"} /\ Live'
<1> USE ClockNumbers
<1>1. AgeCap' = StaleT + 1 /\ QuietLimit' = StaleT + 2 * TurnT /\ TurnT' = TurnT
  BY LoopTimeFacts DEF AgeCap, QuietLimit, TurnT
<1>2. lag' = 0 /\ took' = 0
  BY DEF Over
<1>3. CASE lastSeq = NoSeq \/ ModDiff(seq, lastSeq) > 0
  <2>1. /\ badge' = "LIVE" /\ lastSeq' = seq /\ quiet' = 0
        /\ age' = IF lag + took + 0 > StaleT + 1 THEN StaleT + 1 ELSE lag + took + 0
    BY <1>3, LoopTimeFacts DEF SeqSeen, AtMost, Passed
  <2>2. /\ age' \in 0 .. StaleT + 1 /\ quiet' \in 0 .. (StaleT + 2 * TurnT) + 1
        /\ quiet' <= age' /\ quiet' <= StaleT + TurnT
    BY <2>1, LoopTimeFacts
  <2> QED
    BY <1>1, <1>2, <2>1, <2>2, LoopTimeFacts DEF Clocks, Honest, Live
<1>4. CASE ~ (lastSeq = NoSeq \/ ModDiff(seq, lastSeq) > 0)
  <2>1. /\ badge' = IF age > StaleT THEN "STALE" ELSE badge
        /\ lastSeq' = lastSeq /\ quiet' = quiet
        /\ age' = IF age + (lag + took + 0) > StaleT + 1
                  THEN StaleT + 1 ELSE age + (lag + took + 0)
    BY <1>4, LoopTimeFacts DEF SeqSeen, AtMost, Passed
  <2>2. /\ age' \in 0 .. StaleT + 1 /\ quiet' \in 0 .. (StaleT + 2 * TurnT) + 1
        /\ quiet' <= age' \/ age' = StaleT + 1
    BY <2>1, LoopTimeFacts
  <2>3. badge' = "LIVE" => quiet' <= StaleT + TurnT
    BY <2>1, LoopTimeFacts
  <2> QED
    BY <1>1, <1>2, <2>1, <2>2, <2>3, LoopTimeFacts DEF Clocks, Honest, Live
<1> QED
  BY <1>3, <1>4

(* A status frame brings LIVE back only when the last advance was not its  *)
(* own; a fragment of the car starts the count again.                      *)
LEMMA EchoesStep ==
    ASSUME Echoes, lastSeq \in Seqs \cup {NoSeq},
           SeqSeen(0, echoes + 1) \/ \E seq \in Seqs : SeqSeen(seq, 0)
    PROVE  Echoes'
<1>1. 0 % SeqMod = 0
  BY FragmentsAssumption
<1>2. CASE SeqSeen(0, echoes + 1)
  <2>1. CASE lastSeq = NoSeq \/ ModDiff(0, lastSeq) > 0
    <3>1. lastSeq' = 0 /\ echoes' = echoes + 1
      BY <1>2, <2>1 DEF SeqSeen
    <3>2. lastSeq # 0
      <4>1. ModDiff(0, 0) = 0
        BY <1>1 DEF ModDiff
      <4>2. NoSeq # 0
        BY TimeAssumption, SeqFacts
      <4> QED
        BY <2>1, <4>1, <4>2
    <3>3. echoes = 0
      BY <3>2 DEF Echoes
    <3> QED
      BY <3>1, <3>3 DEF Echoes
  <2>2. CASE ~ (lastSeq = NoSeq \/ ModDiff(0, lastSeq) > 0)
    BY <1>2, <2>2 DEF SeqSeen, Echoes
  <2> QED
    BY <2>1, <2>2
<1>3. CASE \E seq \in Seqs : SeqSeen(seq, 0)
  BY <1>3 DEF SeqSeen, Echoes
<1> QED
  BY <1>2, <1>3

LEMMA LoopBegins == ASSUME LoopInit PROVE LoopInv
<1>1. Clocks
  BY LoopTimeFacts DEF LoopInit, Clocks
<1>2. tx \in [kind : Kinds, seq : {0}, idx : {0}]
  BY DEF LoopInit
<1>3. Air
  BY <1>2, SeqFacts, TotFacts DEF LoopInit, Air
<1>4. Flags /\ Turns
  BY DEF LoopInit, Flags, Turns
<1>5. Honest /\ Live /\ Echoes
  BY DEF LoopInit, Honest, Live, Echoes
<1> QED
  BY <1>1, <1>3, <1>4, <1>5 DEF LoopInv

(* The operator starts and stops the loop; between sessions time passes.   *)
LEMMA LoopStands ==
    ASSUME LoopInv, StartSession \/ StopSession \/ Idle
    PROVE  LoopInv'
<1>1. CASE StartSession
  <2>1. sinceLog' \in 0 .. LogT
    BY <1>1, LoopTimeFacts DEF StartSession
  <2>2. Clocks' /\ Honest' /\ Echoes' /\ Turns'
    BY <1>1, <2>1 DEF StartSession, LoopInv, Clocks, Honest, Echoes, Turns, AgeCap,
                      QuietLimit, TurnT
  <2> QED
    BY <1>1, <2>2 DEF StartSession, Unlogged, LoopInv, Air, Flags, Live
<1>2. CASE StopSession
  <2>1. Clocks' /\ Honest' /\ Echoes' /\ Turns'
    BY <1>2 DEF StopSession, LoopInv, Clocks, Honest, Echoes, Turns, AgeCap, QuietLimit, TurnT
  <2> QED
    BY <1>2, <2>1 DEF StopSession, Unlogged, LoopInv, Air, Flags, Live
<1>3. CASE Idle
  <2>1. age' \in 0 .. AgeCap /\ quiet' \in 0 .. QuietLimit + 1
    BY <1>3, LoopTimeFacts DEF Idle
  <2>2. Clocks' /\ Honest' /\ Echoes' /\ Turns'
    BY <1>3, <2>1 DEF Idle, LoopInv, Clocks, Honest, Echoes, Turns, AgeCap, QuietLimit, TurnT
  <2> QED
    BY <1>3, <2>2 DEF Idle, LoopInv, Air, Flags, Live
<1> QED
  BY <1>1, <1>2, <1>3

(* The port opens: the badge is LIVE, but the read has not begun.          *)
LEMMA LoopOpens ==
    ASSUME LoopInv, Opens
    PROVE  LoopInv'
<1>1. Clocks' /\ Honest' /\ Echoes' /\ Turns'
  BY DEF Opens, LoopInv, Clocks, Honest, Echoes, Turns, AgeCap, QuietLimit, TurnT
<1>2. OpenT # 0
  BY LoopTimeFacts
<1>3. Live'
  BY <1>2 DEF Opens, Live
<1> QED
  BY <1>1, <1>3 DEF Opens, Unlogged, LoopInv, Air, Flags

(* While _read_frame blocks, time is spent reading.                        *)
LEMMA LoopBlocks ==
    ASSUME LoopInv, ReadBlocks
    PROVE  LoopInv'
<1> USE ClockNumbers DEF LoopInv
<1>1. PICK d \in 0 .. TurnT : took' = d /\ quiet' = AtMost(quiet + d, QuietLimit + 1)
  BY DEF ReadBlocks
<1>2. /\ running /\ ser /\ back' = TRUE /\ took = 0
      /\ UNCHANGED <<running, ser, lag, badge, lastSeq, age, hw, buffer, sinceLog, logged,
                     tx, calm, echoes>>
  BY DEF ReadBlocks, Turns
<1>3. /\ quiet' = IF quiet + d > StaleT + 2 * TurnT + 1
                  THEN StaleT + 2 * TurnT + 1 ELSE quiet + d
      /\ d \in Nat /\ d <= TurnT
  BY <1>1, LoopTimeFacts DEF AtMost
<1>4. quiet' \in 0 .. (StaleT + 2 * TurnT) + 1
  BY <1>3, LoopTimeFacts
<1>5. quiet' <= age + took' \/ age = StaleT + 1
  BY <1>1, <1>2, <1>3, LoopTimeFacts
<1>6. quiet <= StaleT + TurnT => quiet' <= StaleT + TurnT + took'
  BY <1>1, <1>3, LoopTimeFacts
<1>7. AgeCap' = StaleT + 1 /\ QuietLimit' = StaleT + 2 * TurnT /\ TurnT' = TurnT
  BY LoopTimeFacts DEF AgeCap, QuietLimit, TurnT
<1>8. Clocks'
  BY <1>1, <1>2, <1>4, <1>7, LoopTimeFacts DEF Clocks
<1>9. Honest'
  BY <1>2, <1>5, <1>7 DEF Honest
<1>10. Live'
  BY <1>2, <1>6, <1>7, LoopTimeFacts DEF Live
<1> QED
  BY <1>2, <1>8, <1>9, <1>10 DEF Air, Flags, Turns, Echoes

(* No port, or the read raises.                                            *)
LEMMA LoopUnplugged ==
    ASSUME LoopInv, OpenFails \/ ReadError
    PROVE  LoopInv'
<1>1. RetryT \in Nat
  BY LoopTimeFacts
<1>2. Elapse(RetryT)
  BY DEF OpenFails, ReadError
<1>3. /\ Clocks' /\ Honest' /\ back' = FALSE /\ took' = 0 /\ echoes' = echoes
  BY <1>1, <1>2, ClocksElapse DEF LoopInv
<1>4. /\ badge' = "STALE" /\ logged' = FALSE /\ ser' \in BOOLEAN
      /\ UNCHANGED <<running, lastSeq, hw, buffer, tx, calm>>
  BY DEF OpenFails, ReadError, Unlogged, LoopInv, Flags
<1> QED
  BY <1>3, <1>4 DEF LoopInv, Air, Flags, Live, Turns, Echoes

(* A read timeout is where the loop looks at the clock.                    *)
LEMMA LoopTimesOut ==
    ASSUME LoopInv, ReadTimeout
    PROVE  LoopInv'
<1>1. /\ running /\ ser /\ Elapse(0) /\ logged' = FALSE
      /\ badge' = IF lastSeq # NoSeq /\ age > StaleT THEN "STALE" ELSE badge
      /\ UNCHANGED <<running, ser, lastSeq, hw, buffer, tx, calm>>
  BY DEF ReadTimeout, TimedOut, Unlogged, LoopInv, Turns
<1>2. /\ Clocks' /\ Honest' /\ back' = FALSE /\ took' = 0 /\ echoes' = echoes
      /\ age <= StaleT => quiet' <= StaleT + TurnT
  BY <1>1, ClocksElapse DEF LoopInv
<1>3. ~ (age > StaleT) => age <= StaleT
  BY LoopTimeFacts DEF LoopInv, Clocks
<1>4. StaleT + TurnT' + took' = StaleT + TurnT
  BY <1>2, LoopTimeFacts DEF TurnT
<1>5. Live'
  BY <1>1, <1>2, <1>3, <1>4 DEF Live
<1> QED
  BY <1>1, <1>2, <1>5 DEF LoopInv, Air, Flags, Turns, Echoes

(* Bytes that are no frame.                                                *)
LEMMA LoopStray ==
    ASSUME LoopInv, StrayByte
    PROVE  LoopInv'
<1> USE ClockNumbers DEF LoopInv
<1>1. /\ lag' = 0 /\ back' = FALSE /\ took' = 0
      /\ age' = IF age + (lag + took + 0) > StaleT + 1
                THEN StaleT + 1 ELSE age + (lag + took + 0)
      /\ sinceLog' = IF sinceLog + (lag + took + 0) > LogT
                     THEN LogT ELSE sinceLog + (lag + took + 0)
  BY LoopTimeFacts DEF StrayByte, Over, Passed, AtMost
<1>2. /\ quiet' = 0 /\ logged' = FALSE
      /\ UNCHANGED <<running, ser, badge, lastSeq, hw, buffer, tx, calm, echoes>>
  BY DEF StrayByte, Unlogged
<1>3. /\ age' \in 0 .. StaleT + 1 /\ sinceLog' \in 0 .. LogT
      /\ quiet' \in 0 .. (StaleT + 2 * TurnT) + 1
      /\ quiet' <= age' + 0 /\ quiet' <= StaleT + TurnT + 0
  BY <1>1, <1>2, LoopTimeFacts
<1>4. AgeCap' = StaleT + 1 /\ QuietLimit' = StaleT + 2 * TurnT /\ TurnT' = TurnT
  BY LoopTimeFacts DEF AgeCap, QuietLimit, TurnT
<1>5. Clocks' /\ Honest'
  BY <1>1, <1>3, <1>4, LoopTimeFacts DEF Clocks, Honest
<1>6. Live'
  BY <1>1, <1>2, <1>3, <1>4 DEF Live
<1> QED
  BY <1>1, <1>2, <1>5, <1>6 DEF Air, Flags, Turns, Echoes

LEMMA LoopBadFrame ==
    ASSUME LoopInv, BadFrame
    PROVE  LoopInv'
<1>1. Elapse(0)
  BY DEF BadFrame
<1>2. /\ Clocks' /\ Honest' /\ back' = FALSE /\ took' = 0 /\ echoes' = echoes
  BY <1>1, ClocksElapse DEF LoopInv
<1>3. badge' = "BAD" /\ logged' = FALSE /\ UNCHANGED <<running, ser, lastSeq, hw, buffer, tx, calm>>
  BY DEF BadFrame, Unlogged
<1> QED
  BY <1>2, <1>3 DEF LoopInv, Air, Flags, Live, Turns, Echoes

LEMMA PublishStep ==
    ASSUME Clocks, Honest, NEW whole \in BOOLEAN, Publish(whole)
    PROVE  logged' \in BOOLEAN /\ sinceLog' \in 0 .. LogT
<1> DEFINE d == lag + took + 0
<1>1. sinceLog \in Nat /\ d \in Nat
  BY ClockNumbers
<1>2. \/ logged' = TRUE /\ sinceLog' = IF d > LogT THEN LogT ELSE d
      \/ logged' = FALSE /\ sinceLog' = IF sinceLog + d > LogT THEN LogT ELSE sinceLog + d
  BY DEF Publish, AtMost, Passed
<1> HIDE DEF d
<1>3. /\ (IF d > LogT THEN LogT ELSE d) \in 0 .. LogT
      /\ (IF sinceLog + d > LogT THEN LogT ELSE sinceLog + d) \in 0 .. LogT
  BY <1>1, LoopTimeFacts
<1>4. CASE logged' = TRUE /\ sinceLog' = IF d > LogT THEN LogT ELSE d
  BY <1>4, <1>3
<1>5. CASE logged' = FALSE /\ sinceLog' = IF sinceLog + d > LogT THEN LogT ELSE sinceLog + d
  BY <1>5, <1>3
<1> QED
  BY <1>2, <1>4, <1>5

(* A status frame goes through the badge with sequence number 0.           *)
LEMMA LoopStatus ==
    ASSUME LoopInv, StatusFrame
    PROVE  LoopInv'
<1>1. SeqSeen(0, echoes + 1) /\ Publish(FALSE) /\ Over
  BY DEF StatusFrame
<1>2. logged' \in BOOLEAN /\ sinceLog' \in 0 .. LogT
  BY <1>1, PublishStep DEF LoopInv
<1>3. /\ running /\ ser /\ back' = FALSE /\ took' = 0
      /\ hw' \in {"OK", "NO_SIGNAL", "NO_RADIO_HW"}
      /\ UNCHANGED <<running, ser, buffer, tx, calm>>
  BY DEF StatusFrame, Over, LoopInv, Turns
<1>4. /\ Clocks' /\ Honest' /\ lastSeq' \in Seqs \cup {NoSeq}
      /\ badge' \in {"LIVE", "STALE", "BAD"} /\ Live'
  BY <1>1, <1>2, <1>3, SeqFacts, SeqSeenStep DEF LoopInv, Air, Flags
<1>5. Echoes'
  BY <1>1, EchoesStep DEF LoopInv, Air
<1> QED
  BY <1>2, <1>3, <1>4, <1>5 DEF LoopInv, Air, Flags, Turns

LEMMA NextTxType ==
    ASSUME Air
    PROVE  NextTx(tx) \in [kind : Kinds, seq : Seqs, idx : Nat]
           /\ NextTx(tx).idx < FragTot[NextTx(tx).kind]
<1>1. tx \in [kind : Kinds, seq : Seqs, idx : Nat] /\ tx.kind \in Kinds /\ tx.seq \in Seqs /\ tx.idx \in Nat
  BY DEF Air
<1>2. FragTot[tx.kind] \in Nat /\ FragTot[tx.kind] > 0
  BY <1>1, TotFacts
<1>3. (tx.seq + 1) % SeqMod \in Seqs
  BY <1>1, SeqFacts DEF Seqs
<1>4. CASE tx.idx + 1 < FragTot[tx.kind]
  <2>1. NextTx(tx) = [tx EXCEPT !.idx = tx.idx + 1]
    BY <1>4 DEF NextTx
  <2> QED
    BY <2>1, <1>1, <1>4
<1>5. CASE ~ (tx.idx + 1 < FragTot[tx.kind])
  <2>1. NextTx(tx) = [tx EXCEPT !.idx = 0, !.seq = (tx.seq + 1) % SeqMod]
    BY <1>5 DEF NextTx, NextSeq
  <2>2. PICK next \in Seqs : next = (tx.seq + 1) % SeqMod
    BY <1>3
  <2>3. NextTx(tx) = [tx EXCEPT !.idx = 0, !.seq = next]
    BY <2>1, <2>2
  <2> DEFINE start == [tx EXCEPT !.idx = 0]
  <2>4. start \in [kind : Kinds, seq : Seqs, idx : Nat] /\ start.idx = 0 /\ start.kind = tx.kind
    BY <1>1
  <2>5. NextTx(tx) = [start EXCEPT !.seq = next]
    BY <2>3
  <2> HIDE DEF start
  <2> QED
    BY <2>4, <2>5, <1>2
<1> QED
  BY <1>4, <1>5

(* A fragment of the car: the badge, the reassembly, the row.              *)
LEMMA LoopData ==
    ASSUME LoopInv, DataFrame
    PROVE  LoopInv'
<1>1. SeqSeen(tx.seq, 0) /\ Reassemble(Arrives) /\ Over
  BY DEF DataFrame
<1>2. PICK victim \in Evictable(buffer, Arrives) :
         LET buf == Stored(buffer \ victim, Arrives)
         IN  /\ buffer' = IF Complete(buf, Arrives)
                          THEN buf \ Held(buf, Key(Arrives)) ELSE buf
             /\ Publish(Complete(buf, Arrives))
  BY <1>1 DEF Reassemble
<1> DEFINE whole == Complete(Stored(buffer \ victim, Arrives), Arrives)
<1>3. Publish(whole) /\ whole \in BOOLEAN
  BY <1>2 DEF Complete
<1> HIDE DEF whole
<1>4. logged' \in BOOLEAN /\ sinceLog' \in 0 .. LogT
  BY <1>3, PublishStep DEF LoopInv
<1>5. /\ running /\ ser /\ back' = FALSE /\ took' = 0 /\ hw' = "OK" /\ tx' = NextTx(tx)
      /\ UNCHANGED <<running, ser, calm>>
  BY DEF DataFrame, Over, LoopInv, Turns
<1>6. tx.kind \in Kinds /\ tx.seq \in Seqs /\ tx.idx \in 0 .. FragTot[tx.kind] - 1
  BY TotFacts DEF LoopInv, Air
<1>7. Arrives \in Fragment
  BY <1>6, TotFacts DEF Arrives, Fragment
<1>8. buffer' \subseteq Fragment
  BY <1>2, <1>7 DEF Stored, LoopInv, Air
<1>9. /\ Clocks' /\ Honest' /\ lastSeq' \in Seqs \cup {NoSeq}
      /\ badge' \in {"LIVE", "STALE", "BAD"} /\ Live'
  BY <1>1, <1>4, <1>5, <1>6, SeqSeenStep DEF LoopInv, Air, Flags
<1>10. Echoes'
  BY <1>1, <1>6, EchoesStep DEF LoopInv, Air
<1>11. Air'
  BY <1>5, <1>8, <1>9, NextTxType DEF LoopInv, Air
<1> QED
  BY <1>4, <1>5, <1>9, <1>10, <1>11 DEF LoopInv, Flags, Turns

(* A fragment is lost on the air, the link settles, or nothing happens.    *)
LEMMA LoopElsewhere ==
    ASSUME LoopInv, LoseFragment \/ Settle \/ UNCHANGED loopVars
    PROVE  LoopInv'
<1>1. UNCHANGED <<running, ser, lag, back, took, badge, lastSeq, age, hw, buffer, sinceLog,
                  logged, quiet, echoes>>
  BY DEF LoseFragment, Settle, loopVars
<1>2. calm' \in BOOLEAN /\ tx' \in {tx, NextTx(tx)}
  BY DEF LoseFragment, Settle, loopVars, LoopInv, Flags
<1>3. Clocks' /\ Honest' /\ Live' /\ Turns' /\ Echoes'
  BY <1>1 DEF LoopInv, Clocks, Honest, Live, Turns, Echoes, AgeCap, QuietLimit, TurnT
<1>4. Air'
  BY <1>1, <1>2, NextTxType DEF LoopInv, Air
<1> QED
  BY <1>1, <1>2, <1>3, <1>4 DEF LoopInv, Flags

LEMMA LoopStep == ASSUME LoopInv, [LoopNext]_loopVars PROVE LoopInv'
  BY LoopStands, LoopOpens, LoopBlocks, LoopUnplugged, LoopTimesOut, LoopStray, LoopBadFrame,
     LoopStatus, LoopData, LoopElsewhere DEF LoopNext, Loop

LEMMA LoopInvariant == LoopSpec => []LoopInv
<1>1. LoopInit => LoopInv
  BY LoopBegins
<1>2. LoopInv /\ [LoopNext]_loopVars => LoopInv'
  BY LoopStep
<1> QED
  BY <1>1, <1>2, PTL DEF LoopSpec

(* receive_data: its clocks stay within their caps, everything buffered is *)
(* a fragment, and the badge has one of its three values.                  *)
THEOREM LoopTypeCorrect == LoopSpec => []LoopTypeOK
<1>1. LoopInv => LoopTypeOK
  BY LoopInvTypes
<1> QED
  BY <1>1, LoopInvariant, PTL

(* LIVE outlasts the last advance of the sequence number by at most        *)
(* _STALE_T and two turns of the loop, ten read timeouts, whatever the     *)
(* times, the fragments and the frames in between; and the status frames   *)
(* of the Nano show it at most once for a car that has fallen silent.      *)
THEOREM LiveIsFresh == LoopSpec => []StaleWhenQuiet
<1>1. LoopInv => StaleWhenQuiet
  BY LoopInvTypes
<1> QED
  BY <1>1, LoopInvariant, PTL

(* _frag_buffers outlives a session: however often receive_data is left    *)
(* and entered again, whatever was lost, damaged or unplugged in between,  *)
(* never more than _MAX_PENDING_SEQS partials are kept and none of them is *)
(* complete.                                                               *)
LoopPendingBounded ==
    Cardinality(PendingKeys(buffer)) <= MaxPending /\ Partials(buffer)

LEMMA LoopBufferStep ==
    ASSUME Within(buffer), Partials(buffer), [LoopNext]_loopVars
    PROVE  Within(buffer') /\ Partials(buffer')
<1>1. CASE DataFrame
  <2>1. Reassemble(Arrives)
    BY <1>1 DEF DataFrame
  <2>2. PICK victim \in Evictable(buffer, Arrives) :
           buffer' = Processed(buffer, victim, Arrives)
    BY <2>1 DEF Reassemble, Processed, Filled
  <2> QED
    BY <2>2, ProcessedSound
<1>2. CASE UNCHANGED buffer
  BY <1>2
<1> QED
  BY <1>1, <1>2 DEF LoopNext, Loop, loopVars, StartSession, StopSession, Idle, OpenFails, Opens,
     ReadBlocks, ReadError, ReadTimeout, TimedOut, StrayByte, BadFrame, StatusFrame, LoseFragment, Settle

(* receive_data: the reassembly buffer stays within its bound over any     *)
(* number of sessions, for every limit and every set of kinds.             *)
THEOREM LoopBufferBounded == LoopSpec => []LoopPendingBounded
<1> DEFINE Sound == Within(buffer) /\ Partials(buffer)
<1>1. LoopInit => Sound
  <2> SUFFICES ASSUME LoopInit PROVE Sound
    OBVIOUS
  <2>1. PendingKeys(buffer) = {} /\ buffer = {}
    BY DEF LoopInit, PendingKeys
  <2> QED
    BY <2>1, FS_EmptySet, FragmentsAssumption DEF Within, Partials
<1>2. Sound /\ [LoopNext]_loopVars => Sound'
  BY LoopBufferStep DEF Within, Partials, PendingKeys, Key
<1>3. Sound => LoopPendingBounded
  BY DEF Within, LoopPendingBounded
<1> QED
  BY <1>1, <1>2, <1>3, PTL DEF LoopSpec
=============================================================================
