---------------------------- MODULE IsoTp_proofs ----------------------------
(***************************************************************************)
(* Theorems about IsoTp, for any nodes, message lengths, frame sizes and   *)
(* modulus of the sequence number (at least 2).                            *)
(***************************************************************************)
EXTENDS IsoTp, SequenceTheorems, TLAPS

-----------------------------------------------------------------------------
(* Sequences of bytes.                                                     *)

LEMMA BytesProperties ==
    ASSUME NEW m \in Nat, NEW a \in Nat, NEW b \in Nat, a <= b
    PROVE  /\ Bytes(m, a, b) \in Seq(Byte)
           /\ Len(Bytes(m, a, b)) = b - a
           /\ \A i \in 1 .. b - a : Bytes(m, a, b)[i] = [msg |-> m, pos |-> a + i]
<1> DEFINE s == Bytes(m, a, b)
<1>1. b - a \in Nat
    OBVIOUS
<1>2. s \in [1 .. b - a -> Byte] /\ DOMAIN s = 1 .. b - a
    BY <1>1 DEF Bytes, Byte
<1>3. s \in Seq(Byte)
    BY <1>1, <1>2, SeqDef
<1>4. Len(s) = b - a
    BY <1>1, <1>2, <1>3, LenProperties
<1> QED
    BY <1>3, <1>4 DEF Bytes

LEMMA PaddedProperties ==
    ASSUME NEW s \in Seq(Byte), NEW n \in Nat, Len(s) <= n
    PROVE  /\ Padded(s, n) \in Seq(Byte)
           /\ Len(Padded(s, n)) = n
           /\ \A i \in 1 .. Len(s) : Padded(s, n)[i] = s[i]
<1> DEFINE pad == [i \in 1 .. n - Len(s) |-> Zero]
<1>1. Len(s) \in Nat /\ n - Len(s) \in Nat
    BY LenProperties
<1>2. pad \in [1 .. n - Len(s) -> Byte] /\ DOMAIN pad = 1 .. n - Len(s)
    BY DEF Zero, Byte
<1>3. pad \in Seq(Byte)
    BY <1>1, <1>2, SeqDef
<1>4. Len(pad) = n - Len(s)
    BY <1>1, <1>2, <1>3, LenProperties
<1>5. Padded(s, n) = s \o pad
    BY DEF Padded
<1> HIDE DEF pad
<1>6. /\ s \o pad \in Seq(Byte)
      /\ Len(s \o pad) = Len(s) + Len(pad)
      /\ \A i \in 1 .. Len(s) + Len(pad) :
            (s \o pad)[i] = IF i <= Len(s) THEN s[i] ELSE pad[i - Len(s)]
    BY <1>3, ConcatProperties
<1> QED
    BY <1>1, <1>4, <1>5, <1>6

(* What is put before the padding comes out of it.                         *)
LEMMA Unpadded ==
    ASSUME NEW s \in Seq(Byte), NEW n \in Nat, Len(s) <= n
    PROVE  SubSeq(Padded(s, n), 1, Len(s)) = s
<1> DEFINE t == Padded(s, n)
           u == SubSeq(t, 1, Len(s))
<1>1. t \in Seq(Byte) /\ Len(t) = n /\ \A i \in 1 .. Len(s) : t[i] = s[i]
    BY PaddedProperties
<1>2. Len(s) \in Nat
    BY LenProperties
<1>3. \A i \in 1 .. Len(s) : t[i] \in Byte
    BY <1>1, ElementOfSeq
<1> HIDE DEF t
<1>4. /\ u \in Seq(Byte)
      /\ Len(u) = IF 1 <= Len(s) THEN Len(s) - 1 + 1 ELSE 0
      /\ \A i \in 1 .. Len(s) - 1 + 1 : u[i] = t[1 + i - 1]
    BY <1>2, <1>3, SubSeqProperties
<1> HIDE DEF u
<1>5. Len(u) = Len(s)
    BY <1>2, <1>4
<1>6. \A i \in 1 .. Len(u) : u[i] = s[i]
    BY <1>1, <1>2, <1>4, <1>5
<1>7. u = s
    BY <1>4, <1>5, <1>6, SeqEqual
<1> QED
    BY <1>7 DEF u, t

(* Two runs of bytes that meet are one.                                    *)
LEMMA BytesJoin ==
    ASSUME NEW m \in Nat, NEW a \in Nat, NEW b \in Nat, NEW c \in Nat, a <= b, b <= c
    PROVE  Bytes(m, a, b) \o Bytes(m, b, c) = Bytes(m, a, c)
<1> DEFINE s == Bytes(m, a, b)
           t == Bytes(m, b, c)
           u == Bytes(m, a, c)
<1>1. /\ s \in Seq(Byte) /\ Len(s) = b - a
      /\ \A i \in 1 .. b - a : s[i] = [msg |-> m, pos |-> a + i]
    BY BytesProperties
<1>2. /\ t \in Seq(Byte) /\ Len(t) = c - b
      /\ \A i \in 1 .. c - b : t[i] = [msg |-> m, pos |-> b + i]
    BY BytesProperties
<1>3. /\ u \in Seq(Byte) /\ Len(u) = c - a
      /\ \A i \in 1 .. c - a : u[i] = [msg |-> m, pos |-> a + i]
  <2>1. a <= c
      OBVIOUS
  <2> QED
      BY <2>1, BytesProperties
<1> HIDE DEF s, t, u
<1>4. /\ s \o t \in Seq(Byte)
      /\ Len(s \o t) = Len(s) + Len(t)
      /\ \A i \in 1 .. Len(s) + Len(t) :
            (s \o t)[i] = IF i <= Len(s) THEN s[i] ELSE t[i - Len(s)]
    BY <1>1, <1>2, ConcatProperties
<1>5. Len(s \o t) = c - a /\ Len(s) + Len(t) = c - a
    BY <1>1, <1>2, <1>4
<1>6. \A i \in 1 .. c - a : (s \o t)[i] = u[i]
  <2> SUFFICES ASSUME NEW i \in 1 .. c - a PROVE (s \o t)[i] = u[i]
      OBVIOUS
  <2>1. (s \o t)[i] = IF i <= b - a THEN s[i] ELSE t[i - (b - a)]
      BY <1>1, <1>4, <1>5
  <2>2. CASE i <= b - a
    <3>1. i \in 1 .. b - a
        BY <2>2
    <3> QED
        BY <3>1, <2>1, <2>2, <1>1, <1>3
  <2>3. CASE ~ (i <= b - a)
    <3>1. i - (b - a) \in 1 .. c - b /\ b + (i - (b - a)) = a + i
        BY <2>3
    <3> QED
        BY <3>1, <2>1, <2>3, <1>2, <1>3
  <2> QED
      BY <2>2, <2>3
<1>7. s \o t = u
  <2> DEFINE v == s \o t
  <2>1. v \in Seq(Byte) /\ Len(v) = Len(u) /\ \A i \in 1 .. Len(v) : v[i] = u[i]
      BY <1>3, <1>4, <1>5, <1>6
  <2> HIDE DEF v
  <2>2. v = u
      BY <2>1, <1>3, SeqEqual
  <2> QED
      BY <2>2 DEF v
<1> QED
    BY <1>7 DEF s, t, u

(* The first b bytes of a message.                                         *)
LEMMA FirstBytes ==
    ASSUME NEW m \in Nat, NEW b \in Nat
    PROVE  Bytes(m, 0, b) \in Seq(Byte) /\ Len(Bytes(m, 0, b)) = b
<1>1. \A a \in Nat : a <= b => /\ Bytes(m, a, b) \in Seq(Byte)
                              /\ Len(Bytes(m, a, b)) = b - a
    BY BytesProperties
<1>2. 0 \in Nat /\ 0 <= b /\ b - 0 = b
    OBVIOUS
<1> QED
    BY <1>1, <1>2

LEMMA FirstBytesJoin ==
    ASSUME NEW m \in Nat, NEW b \in Nat, NEW c \in Nat, b <= c
    PROVE  Bytes(m, 0, b) \o Bytes(m, b, c) = Bytes(m, 0, c)
<1>1. \A a \in Nat : a <= b => Bytes(m, a, b) \o Bytes(m, b, c) = Bytes(m, a, c)
    BY BytesJoin
<1>2. 0 \in Nat /\ 0 <= b
    OBVIOUS
<1> QED
    BY <1>1, <1>2

-----------------------------------------------------------------------------
(* What a segmenter sends, and what a reassembler makes of it.             *)

Fits(t) == t.offset <= t.len /\ (~ t.started => t.offset = 0 /\ t.seq = 1)

LEMMA Sizes ==
    /\ MaxLen \in Nat /\ SfMax \in Nat /\ FfData \in Nat /\ CfData \in Nat
    /\ 1 <= FfData /\ FfData <= SfMax /\ 1 <= CfData
    /\ SeqMod \in Nat /\ 2 <= SeqMod
BY IsoTpAssumption

LEMMA NextSeqMoves ==
    ASSUME NEW n \in 0 .. SeqMod - 1
    PROVE  NextSeq(n) \in 0 .. SeqMod - 1 /\ NextSeq(n) # n
<1>1. CASE n + 1 < SeqMod
    BY <1>1, Sizes DEF NextSeq
<1>2. CASE n + 1 = SeqMod
  <2>1. (n + 1) % SeqMod = 0
      BY <1>2, Sizes
  <2> QED
      BY <2>1, <1>2, Sizes DEF NextSeq
<1> QED
    BY <1>1, <1>2, Sizes

(* Every frame of a message carries at least one byte more of it.          *)
LEMMA AdvanceFits ==
    ASSUME NEW t \in Segmenters, Fits(t), ~ Sent(t)
    PROVE  /\ End(t) \in 0 .. MaxLen /\ t.offset <= End(t) /\ End(t) <= t.len
           /\ Advance(t) \in Segmenters /\ Fits(Advance(t))
           /\ Advance(t).started /\ Advance(t).msg = t.msg /\ Advance(t).len = t.len
           /\ Advance(t).offset = End(t)
           /\ Advance(t).seq = IF t.started THEN NextSeq(t.seq) ELSE t.seq
<1>1. /\ t.msg \in Nat /\ t.len \in 0 .. MaxLen /\ t.offset \in 0 .. MaxLen
      /\ t.seq \in 0 .. SeqMod - 1 /\ t.started \in BOOLEAN
    BY DEF Segmenters
<1>2. End(t) \in 0 .. MaxLen /\ t.offset <= End(t) /\ End(t) <= t.len
    BY <1>1, Sizes DEF End, IsShort, Smaller, Fits
<1>3. NextSeq(t.seq) \in 0 .. SeqMod - 1
    BY <1>1, NextSeqMoves
<1>4. /\ Advance(t).started /\ Advance(t).msg = t.msg /\ Advance(t).len = t.len
      /\ Advance(t).offset = End(t)
      /\ Advance(t).seq = IF t.started THEN NextSeq(t.seq) ELSE t.seq
    BY DEF Advance, Segmenters
<1>5. Advance(t) \in Segmenters
    BY <1>1, <1>2, <1>3 DEF Advance, Segmenters
<1> QED
    BY <1>2, <1>4, <1>5 DEF Fits

(* A single frame replaces what was in progress by its whole message.      *)
LEMMA SfFed ==
    ASSUME NEW t \in Segmenters, Fits(t), ~ t.started, IsShort(t),
           NEW r \in Reassemblers, NEW cut \in BOOLEAN
    PROVE  Feed(r, NextFrame(t), cut) =
             [rx |-> Idle, done |-> IF cut THEN {} ELSE {Bytes(t.msg, 0, t.len)}]
<1> DEFINE data == Bytes(t.msg, 0, t.len)
<1>1. t.msg \in Nat /\ t.len \in Nat /\ t.len <= SfMax /\ t.offset = 0
    BY Sizes DEF Segmenters, Fits, IsShort
<1>2. data \in Seq(Byte) /\ Len(data) = t.len
    BY <1>1, BytesProperties
<1>3. End(t) = t.len
    BY DEF End
<1>4. NextFrame(t) = [pci |-> "SF", n |-> t.len, data |-> Padded(data, SfMax)]
    BY <1>1, <1>3 DEF NextFrame
<1> HIDE DEF data
<1>5. SubSeq(Padded(data, SfMax), 1, t.len) = data
    BY <1>1, <1>2, Sizes, Unpadded
<1> DEFINE f == NextFrame(t)
<1>6. f.pci = "SF" /\ f.n = t.len /\ f.data = Padded(data, SfMax)
    BY <1>4
<1> HIDE DEF f
<1>7. Feed(r, f, cut) = FeedSf(f, cut)
    BY <1>6 DEF Feed, Loose
<1>8. FeedSf(f, cut) = [rx |-> Idle, done |-> IF cut THEN {} ELSE {data}]
    BY <1>5, <1>6 DEF FeedSf
<1> QED
    BY <1>7, <1>8 DEF data, f

(* A first frame starts its message, whatever was in progress.             *)
LEMMA FfFed ==
    ASSUME NEW t \in Segmenters, Fits(t), ~ t.started, ~ IsShort(t),
           NEW r \in Reassemblers, NEW cut \in BOOLEAN
    PROVE  Feed(r, NextFrame(t), cut) =
             [rx |-> IF cut THEN Idle
                     ELSE [wait |-> TRUE, buffer |-> Bytes(t.msg, 0, FfData),
                           total |-> t.len, expected |-> 1],
              done |-> {}]
<1>1. t.len \in 0 .. MaxLen /\ t.len > SfMax /\ t.offset = 0
    BY Sizes DEF Segmenters, Fits, IsShort
<1>2. NextFrame(t) = [pci |-> "FF", n |-> t.len, data |-> Bytes(t.msg, 0, FfData)]
    BY <1>1 DEF NextFrame, End
<1> DEFINE f == NextFrame(t)
           data == Bytes(t.msg, 0, FfData)
<1>3. f.pci = "FF" /\ f.n = t.len /\ f.data = data
    BY <1>2
<1> HIDE DEF f, data
<1>4. Feed(r, f, cut) = FeedFf(r, f, cut)
    BY <1>3 DEF Feed, Loose
<1>5. ~ (f.n <= SfMax) /\ ~ (f.n > MaxLen)
    BY <1>1, <1>3, Sizes
<1>6. FeedFf(r, f, cut) =
        [rx |-> IF cut THEN Idle
                ELSE [wait |-> TRUE, buffer |-> data, total |-> t.len, expected |-> 1],
         done |-> {}]
    BY <1>3, <1>5 DEF FeedFf
<1> QED
    BY <1>4, <1>6 DEF data, f

Partial(r) == r.wait => Len(r.buffer) < r.total

(* The message in progress is the one t sends, up to where t is.           *)
InStep(r, t) ==
    /\ t.started /\ t.offset < t.len
    /\ r.total = t.len /\ r.expected = t.seq
    /\ r.buffer = Bytes(t.msg, 0, t.offset)

(* A consecutive frame of the wrong number ends the message in progress;   *)
(* one of the right number continues what it finds.                        *)
LEMMA CfFed ==
    ASSUME NEW t \in Segmenters, Fits(t), t.started, ~ Sent(t),
           NEW r \in Reassemblers, Partial(r), NEW cut \in BOOLEAN
    PROVE  LET fed == Feed(r, NextFrame(t), cut)
           IN  /\ fed.rx \in Reassemblers /\ Partial(fed.rx)
               /\ fed.done \in SUBSET Seq(Byte)
               /\ ~ r.wait => fed.rx = r /\ fed.done = {}
               /\ r.wait /\ t.seq # r.expected => fed.rx = Idle /\ fed.done = {}
               /\ r.wait /\ t.seq = r.expected /\ cut => fed.rx = r /\ fed.done = {}
               /\ fed.done # {} => /\ fed.rx = Idle /\ r.wait /\ ~ cut
                                   /\ t.seq = r.expected
               /\ r.wait /\ InStep(r, t) /\ ~ cut =>
                     \/ /\ fed.rx = Idle /\ fed.done = {Bytes(t.msg, 0, t.len)}
                        /\ Sent(Advance(t))
                     \/ /\ fed.done = {} /\ fed.rx.wait
                        /\ InStep(fed.rx, Advance(t))
<1> DEFINE part == Bytes(t.msg, t.offset, End(t))
           f == NextFrame(t)
           take == Smaller(r.total - Len(r.buffer), CfData)
           buffer == r.buffer \o SubSeq(f.data, 1, take)
           fed == Feed(r, f, cut)
<1>1. /\ t.msg \in Nat /\ t.len \in Nat /\ t.offset \in Nat
      /\ r.buffer \in Seq(Byte) /\ r.total \in 0 .. MaxLen /\ r.wait \in BOOLEAN
      /\ r.expected \in 0 .. SeqMod - 1 /\ Len(r.buffer) \in Nat
    BY Sizes, LenProperties DEF Segmenters, Reassemblers
<1>2. /\ End(t) = Smaller(t.len, t.offset + CfData) /\ End(t) \in Nat
      /\ t.offset <= End(t) /\ End(t) <= t.len /\ End(t) - t.offset <= CfData
    BY <1>1, Sizes DEF End, Smaller, Fits
<1>3. part \in Seq(Byte) /\ Len(part) = End(t) - t.offset
  <2>1. \A m, a, b \in Nat :
           a <= b => Bytes(m, a, b) \in Seq(Byte) /\ Len(Bytes(m, a, b)) = b - a
      BY BytesProperties
  <2> QED
      BY <1>1, <1>2, <2>1
<1>4. NextFrame(t) = [pci |-> "CF", n |-> t.seq, data |-> Padded(part, CfData)]
    BY DEF NextFrame
<1>5. f.pci = "CF" /\ f.n = t.seq /\ f.data = Padded(part, CfData)
    BY <1>4
<1> HIDE DEF part, f
<1>6. f.data \in Seq(Byte) /\ Len(f.data) = CfData
    BY <1>2, <1>3, <1>5, Sizes, PaddedProperties
<1>7. ASSUME r.wait
      PROVE  take \in Nat /\ 1 <= take /\ take <= CfData /\ take <= r.total - Len(r.buffer)
    BY <1>1, <1>7, Sizes DEF Partial, Smaller
<1>8. ASSUME r.wait
      PROVE  buffer \in Seq(Byte) /\ Len(buffer) = Len(r.buffer) + take
  <2>1. \A i \in 1 .. take : f.data[i] \in Byte
      BY <1>6, <1>7, <1>8, Sizes, ElementOfSeq
  <2> DEFINE head == SubSeq(f.data, 1, take)
  <2>2. head \in Seq(Byte) /\ Len(head) = take
      BY <1>7, <1>8, <2>1, SubSeqProperties
  <2> HIDE DEF head
  <2>3. r.buffer \o head \in Seq(Byte) /\ Len(r.buffer \o head) = Len(r.buffer) + Len(head)
      BY <1>1, <2>2, ConcatProperties
  <2> QED
      BY <2>2, <2>3 DEF head
<1>9. fed = FeedCf(r, f, cut)
    BY <1>5 DEF Feed, Loose
<1> DEFINE next == [r EXCEPT !.buffer = buffer, !.expected = NextSeq(@)]
<1>10. fed = IF ~ r.wait THEN [rx |-> r, done |-> {}]
             ELSE IF f.n # r.expected THEN [rx |-> Idle, done |-> {}]
             ELSE IF cut THEN [rx |-> r, done |-> {}]
             ELSE IF Len(buffer) >= r.total THEN [rx |-> Idle, done |-> {buffer}]
             ELSE [rx |-> next, done |-> {}]
    BY <1>9 DEF FeedCf
<1> HIDE DEF fed, buffer, take
<1>11. Idle \in Reassemblers /\ Partial(Idle)
    BY Sizes, EmptySeq DEF Idle, Reassemblers, Partial
<1>12. ASSUME r.wait
       PROVE  next \in Reassemblers /\ next.buffer = buffer /\ next.total = r.total
              /\ next.wait /\ next.expected = NextSeq(r.expected)
  <2>1. NextSeq(r.expected) \in 0 .. SeqMod - 1
      BY <1>1, NextSeqMoves
  <2> QED
      BY <1>8, <1>12, <2>1 DEF Reassemblers
<1> HIDE DEF next
<1>13. fed.rx \in Reassemblers /\ Partial(fed.rx) /\ fed.done \in SUBSET Seq(Byte)
  <2>1. CASE r.wait /\ ~ (f.n # r.expected) /\ ~ cut
    <3>1. CASE Len(buffer) >= r.total
        BY <2>1, <3>1, <1>8, <1>10, <1>11
    <3>2. CASE ~ (Len(buffer) >= r.total)
        BY <2>1, <3>2, <1>1, <1>7, <1>8, <1>10, <1>12 DEF Partial
    <3> QED
        BY <3>1, <3>2
  <2>2. CASE ~ (r.wait /\ ~ (f.n # r.expected) /\ ~ cut)
      BY <2>2, <1>10, <1>11
  <2> QED
      BY <2>1, <2>2
<1>14. ASSUME r.wait, InStep(r, t), ~ cut
       PROVE  \/ /\ fed.rx = Idle /\ fed.done = {Bytes(t.msg, 0, t.len)}
                 /\ Sent(Advance(t))
              \/ /\ fed.done = {} /\ fed.rx.wait
                 /\ InStep(fed.rx, Advance(t))
  <2>1. r.total = t.len /\ r.expected = t.seq /\ r.buffer = Bytes(t.msg, 0, t.offset)
      BY <1>14 DEF InStep
  <2>2. Len(r.buffer) = t.offset
      BY <2>1, <1>1, FirstBytes
  <2>3. take = End(t) - t.offset
      BY <2>1, <2>2, <1>1, <1>2, Sizes DEF take, Smaller
  <2>4. SubSeq(f.data, 1, take) = part
      BY <2>3, <1>2, <1>3, <1>5, Sizes, Unpadded
  <2>5. buffer = Bytes(t.msg, 0, End(t))
    <3>1. buffer = Bytes(t.msg, 0, t.offset) \o Bytes(t.msg, t.offset, End(t))
        BY <2>1, <2>4 DEF buffer, part
    <3> QED
        BY <3>1, <1>1, <1>2, FirstBytesJoin
  <2>6. Len(buffer) = End(t)
      BY <2>5, <1>1, <1>2, FirstBytes
  <2>7. CASE End(t) = t.len
    <3>1. fed.rx = Idle /\ fed.done = {buffer}
        BY <2>1, <2>6, <2>7, <1>1, <1>5, <1>10, <1>14
    <3>2. Sent(Advance(t))
        BY <2>7, AdvanceFits DEF Sent
    <3> QED
        BY <2>5, <2>7, <3>1, <3>2
  <2>8. CASE End(t) # t.len
    <3>1. fed.rx = next /\ fed.done = {}
        BY <2>1, <2>6, <2>8, <1>1, <1>2, <1>5, <1>10, <1>14
    <3>2. /\ Advance(t).started /\ Advance(t).msg = t.msg /\ Advance(t).len = t.len
          /\ Advance(t).offset = End(t) /\ Advance(t).seq = NextSeq(t.seq)
        BY AdvanceFits
    <3>3. End(t) < t.len
        BY <2>8, <1>1, <1>2
    <3> QED
        BY <3>1, <3>2, <3>3, <2>1, <2>5, <1>12, <1>14 DEF InStep
  <2> QED
      BY <2>7, <2>8
<1>15. /\ ~ r.wait => fed.rx = r /\ fed.done = {}
       /\ r.wait /\ t.seq # r.expected => fed.rx = Idle /\ fed.done = {}
       /\ r.wait /\ t.seq = r.expected /\ cut => fed.rx = r /\ fed.done = {}
       /\ fed.done # {} => fed.rx = Idle /\ r.wait /\ ~ cut /\ t.seq = r.expected
    BY <1>5, <1>10
<1> QED
    BY <1>13, <1>14, <1>15 DEF fed, f

-----------------------------------------------------------------------------
(* The inductive invariant.  While no two frames in a row went missing, a  *)
(* message in progress is in step with its sender; after one missing frame *)
(* what comes next cannot continue it: the sender begins a message, has    *)
(* none to send, or is at another sequence number.                         *)
Linked(t, r, l, b) ==
    r.wait /\ ~ b => /\ l = 0 => InStep(r, t)
                     /\ l = 1 => ~ t.started \/ Sent(t) \/ t.seq # r.expected
                     /\ l # 2

Once(t, r, n) == n \in {0, 1} /\ (n = 1 => t.started /\ ~ r.wait)

Received(t, r, n, c) ==
    c /\ t.started => IF Sent(t) THEN n = 1 ELSE r.wait /\ InStep(r, t)

Local(t, r, n, c, l, b) ==
    Fits(t) /\ Linked(t, r, l, b) /\ Once(t, r, n) /\ Received(t, r, n, c)

Here(p) == Local(tx[p], rx[p], returned[p], clean[p], lost[p], burst[p])

Inv == TypeOK /\ WholeUnlessBurst /\ \A p \in Peers : Here(p)

LEMMA IdleType == Idle \in Reassemblers /\ ~ Idle.wait
BY Sizes, EmptySeq DEF Idle, Reassemblers

LEMMA InitInv == Init => Inv
<1> SUFFICES ASSUME Init PROVE Inv
    OBVIOUS
<1> DEFINE t0 == [Segmenter(0, 0) EXCEPT !.started = TRUE]
<1>1. Segmenter(0, 0) \in Segmenters /\ Segmenter(0, 0).offset = 0
      /\ Segmenter(0, 0).len = 0
    BY Sizes DEF Segmenters, Segmenter
<1>2. t0 \in Segmenters /\ t0.started /\ t0.offset = 0 /\ t0.len = 0
  <2> DEFINE s0 == Segmenter(0, 0)
  <2>1. s0 \in Segmenters /\ s0.offset = 0 /\ s0.len = 0
      BY <1>1
  <2> HIDE DEF s0
  <2>2. [s0 EXCEPT !.started = TRUE] \in Segmenters
      BY <2>1 DEF Segmenters
  <2>3. /\ [s0 EXCEPT !.started = TRUE].started /\ [s0 EXCEPT !.started = TRUE].offset = 0
        /\ [s0 EXCEPT !.started = TRUE].len = 0
      BY <2>1 DEF Segmenters
  <2> QED
      BY <2>2, <2>3 DEF s0
<1>3. \A p \in Peers : tx[p] = t0 /\ rx[p] = Idle /\ returned[p] = 0 /\ ~ clean[p]
    BY DEF Init
<1> HIDE DEF t0
<1>4. TypeOK
  <2>1. begun \in 0 .. MaxMsgs
      BY IsoTpAssumption DEF Init
  <2>2. tx \in [Peers -> Segmenters] /\ rx \in [Peers -> Reassemblers]
      BY <1>2, IdleType DEF Init, t0
  <2>3. out \in [Peers -> [bytes : Seq(Byte), msg : Nat, len : 0 .. MaxLen, burst : BOOLEAN]]
      BY Sizes, EmptySeq DEF Init
  <2>4. /\ returned \in [Peers -> Nat] /\ clean \in [Peers -> BOOLEAN]
        /\ burst \in [Peers -> BOOLEAN] /\ lost \in [Peers -> 0 .. 2]
      BY DEF Init
  <2> QED
      BY <1>2, <1>3, <2>1, <2>2, <2>3, <2>4, IdleType DEF TypeOK
<1>5. WholeUnlessBurst
  <2>1. Bytes(0, 0, 0) \in Seq(Byte) /\ Len(Bytes(0, 0, 0)) = 0
      BY BytesProperties
  <2>2. Bytes(0, 0, 0) = <<>>
      BY <2>1, EmptySeq, SeqEqual
  <2> QED
      BY <2>2 DEF Init, WholeUnlessBurst
<1>6. ASSUME NEW p \in Peers PROVE Here(p)
    BY <1>2, <1>3, IdleType DEF Here, Local, Fits, Linked, Once, Received
<1> QED
    BY <1>4, <1>5, <1>6 DEF Inv

(* A peer the step is not about keeps everything that is its own.          *)
LEMMA Elsewhere ==
    ASSUME Inv, NEW q \in Peers,
           tx'[q] = tx[q], rx'[q] = rx[q], returned'[q] = returned[q],
           clean'[q] = clean[q], lost'[q] = lost[q], burst'[q] = burst[q]
    PROVE  Here(q)'
BY DEF Inv, Here

LEMMA PeerTypes ==
    ASSUME Inv, NEW p \in Peers
    PROVE  /\ tx[p] \in Segmenters /\ rx[p] \in Reassemblers
           /\ Partial(rx[p]) /\ Here(p) /\ Fits(tx[p])
           /\ clean[p] \in BOOLEAN /\ burst[p] \in BOOLEAN /\ lost[p] \in 0 .. 2
           /\ tx[p].msg \in Nat /\ tx[p].len \in 0 .. MaxLen /\ tx[p].offset \in 0 .. MaxLen
           /\ tx[p].seq \in 0 .. SeqMod - 1 /\ tx[p].started \in BOOLEAN
           /\ rx[p].wait \in BOOLEAN /\ rx[p].expected \in 0 .. SeqMod - 1
BY DEF Inv, TypeOK, Partial, Here, Local, Segmenters, Reassemblers

LEMMA NewMessageInv ==
    ASSUME Inv, NEW p \in Peers, NEW n \in Lengths, NewMessage(p, n)
    PROVE  Inv'
<1>1. /\ tx[p] \in Segmenters /\ rx[p] \in Reassemblers
      /\ Here(p) /\ lost[p] \in 0 .. 2
    BY PeerTypes
<1>2. TypeOK
    BY DEF Inv
<1> DEFINE t == [msg |-> begun', len |-> n, offset |-> 0, seq |-> 1, started |-> FALSE]
<1>3. begun' \in 0 .. MaxMsgs /\ n \in 0 .. MaxLen
    BY <1>2, IsoTpAssumption DEF NewMessage, TypeOK
<1>4. t \in Segmenters /\ t.offset <= t.len
    BY <1>3, Sizes, IsoTpAssumption DEF Segmenters
<1>5. tx' = [tx EXCEPT ![p] = t] /\ rx' = rx /\ out' = out /\ lost' = lost /\ burst' = burst
      /\ returned' = [returned EXCEPT ![p] = 0] /\ clean' = [clean EXCEPT ![p] = TRUE]
    BY DEF NewMessage, Segmenter
<1>6. tx'[p] = t /\ returned'[p] = 0
    BY <1>2, <1>5 DEF TypeOK
<1>7. TypeOK'
  <2>1. tx' \in [Peers -> Segmenters] /\ \A q \in Peers : tx'[q].offset <= tx'[q].len
      BY <1>2, <1>4, <1>5 DEF TypeOK
  <2>2. returned' \in [Peers -> Nat] /\ clean' \in [Peers -> BOOLEAN]
      BY <1>2, <1>5 DEF TypeOK
  <2> QED
      BY <1>2, <1>3, <1>5, <2>1, <2>2 DEF TypeOK
<1>8. Here(p)'
  <2>1. Fits(t)
      BY <1>4 DEF Fits
  <2>2. Linked(t, rx[p], lost[p], burst[p])
    <3>1. Linked(tx[p], rx[p], lost[p], burst[p]) /\ Sent(tx[p])
        BY <1>1 DEF Here, Local, NewMessage
    <3>2. ~ InStep(rx[p], tx[p])
        BY <3>1, <1>1, Sizes DEF InStep, Sent, Segmenters
    <3> QED
        BY <3>1, <3>2 DEF Linked
  <2>3. Once(t, rx[p], 0) /\ Received(t, rx[p], 0, clean'[p])
      BY DEF Once, Received
  <2> QED
      BY <1>5, <1>6, <2>1, <2>2, <2>3 DEF Here, Local
<1>9. ASSUME NEW q \in Peers, q # p PROVE Here(q)'
    BY <1>2, <1>5, <1>9, Elsewhere DEF TypeOK
<1>10. WholeUnlessBurst'
    BY <1>5 DEF Inv, WholeUnlessBurst
<1> QED
    BY <1>7, <1>8, <1>9, <1>10 DEF Inv

LEMMA TickInv ==
    ASSUME Inv, NEW p \in Peers, Tick(p)
    PROVE  Inv'
<1>1. TypeOK
    BY DEF Inv
<1>2. rx' = [rx EXCEPT ![p] = Idle] /\ clean' = [clean EXCEPT ![p] = FALSE]
      /\ UNCHANGED <<begun, tx, out, returned, lost, burst>>
    BY DEF Tick
<1>3. rx'[p] = Idle /\ ~ clean'[p]
    BY <1>1, <1>2 DEF TypeOK
<1>4. TypeOK'
  <2>1. rx' \in [Peers -> Reassemblers] /\ clean' \in [Peers -> BOOLEAN]
      BY <1>1, <1>2, IdleType DEF TypeOK
  <2>2. \A q \in Peers : rx'[q].wait => Len(rx'[q].buffer) < rx'[q].total
      BY <1>1, <1>2, <1>3, IdleType DEF TypeOK
  <2> QED
      BY <1>1, <1>2, <2>1, <2>2 DEF TypeOK
<1>5. Here(p)'
  <2>1. Here(p)
      BY PeerTypes
  <2> QED
      BY <1>2, <1>3, <2>1, IdleType DEF Here, Local, Linked, Once, Received
<1>6. ASSUME NEW q \in Peers, q # p PROVE Here(q)'
    BY <1>1, <1>2, <1>6, Elsewhere DEF TypeOK
<1>7. WholeUnlessBurst'
    BY <1>2 DEF Inv, WholeUnlessBurst
<1> QED
    BY <1>4, <1>5, <1>6, <1>7 DEF Inv

(* A loose frame leaves nothing in progress, like a tick that is too late, *)
(* and takes the message from whoever was in the middle of sending it.     *)
LEMMA InterruptInv ==
    ASSUME Inv, NEW p \in Peers, Interrupt(p)
    PROVE  Inv'
<1>1. TypeOK
    BY DEF Inv
<1>2. Here(p) /\ clean[p] \in BOOLEAN
    BY PeerTypes
<1>3. /\ rx' = [rx EXCEPT ![p] = Idle]
      /\ UNCHANGED <<begun, tx, out, returned, lost, burst>>
  <2>1. PICK pci \in Loose :
           rx' = [rx EXCEPT ![p] = Feed(rx[p], [pci |-> pci], FALSE).rx]
      BY DEF Interrupt, ReassemblerOf
  <2> DEFINE f == [pci |-> pci]
  <2>2. /\ f.pci \in Loose
        /\ f.pci # "SF" /\ f.pci # "FF" /\ f.pci # "CF"
      BY DEF Loose
  <2> HIDE DEF f
  <2>3. Feed(rx[p], f, FALSE) = [rx |-> Idle, done |-> {}]
      BY <2>2 DEF Feed
  <2> DEFINE fed == Feed(rx[p], f, FALSE)
  <2>4. rx' = [rx EXCEPT ![p] = fed.rx]
      BY <2>1 DEF f
  <2>5. fed = [rx |-> Idle, done |-> {}]
      BY <2>3
  <2> HIDE DEF fed
  <2>6. fed.rx = Idle
      BY <2>5
  <2> QED
      BY <2>4, <2>6 DEF Interrupt
<1>4. clean' = [clean EXCEPT ![p] = clean[p] /\ (tx[p].started => Sent(tx[p]))]
    BY <1>1 DEF Interrupt, TypeOK
<1>5. rx'[p] = Idle /\ (clean'[p] => clean[p] /\ (tx[p].started => Sent(tx[p])))
    BY <1>1, <1>3, <1>4 DEF TypeOK
<1>6. TypeOK'
  <2>1. rx' \in [Peers -> Reassemblers]
      BY <1>1, <1>3, IdleType DEF TypeOK
  <2>2. clean' \in [Peers -> BOOLEAN]
    <3> DEFINE c == clean[p] /\ (tx[p].started => Sent(tx[p]))
    <3>1. c \in BOOLEAN
        OBVIOUS
    <3>2. clean' = [clean EXCEPT ![p] = c]
        BY <1>4
    <3> HIDE DEF c
    <3> QED
        BY <1>1, <3>1, <3>2 DEF TypeOK
  <2>3. \A q \in Peers : rx'[q].wait => Len(rx'[q].buffer) < rx'[q].total
      BY <1>1, <1>3, <1>5, IdleType DEF TypeOK
  <2> QED
      BY <1>1, <1>3, <2>1, <2>2, <2>3 DEF TypeOK
<1>7. Here(p)'
  <2>1. Local(tx[p], rx[p], returned[p], clean[p], lost[p], burst[p])
      BY <1>2 DEF Here
  <2>2. Local(tx[p], Idle, returned[p], clean'[p], lost[p], burst[p])
      BY <1>5, <2>1, IdleType DEF Local, Linked, Once, Received
  <2> QED
      BY <1>3, <1>5, <2>2 DEF Here
<1>8. ASSUME NEW q \in Peers, q # p PROVE Here(q)'
  <2>1. rx'[q] = rx[q] /\ clean'[q] = clean[q]
      BY <1>1, <1>3, <1>4, <1>8 DEF TypeOK
  <2> QED
      BY <1>3, <1>8, <2>1, Elsewhere
<1>9. WholeUnlessBurst'
    BY <1>3 DEF Inv, WholeUnlessBurst
<1> QED
    BY <1>6, <1>7, <1>8, <1>9 DEF Inv

(* The sender goes on to t without the host noticing.                      *)
LEMMA MissedInv ==
    ASSUME Inv, NEW p \in Peers, NEW t \in Segmenters, Fits(t), t.started,
           InStep(rx[p], tx[p]) => Sent(t) \/ t.seq # rx[p].expected,
           tx' = [tx EXCEPT ![p] = t], Missing(p),
           burst' = [burst EXCEPT ![p] = @ \/ lost'[p] = 2],
           UNCHANGED <<begun, rx, out, returned>>
    PROVE  Inv'
<1>1. TypeOK
    BY DEF Inv
<1>2. Here(p) /\ lost[p] \in 0 .. 2 /\ burst[p] \in BOOLEAN
    BY PeerTypes
<1>3. lost' = [lost EXCEPT ![p] = Smaller(@ + 1, 2)] /\ clean' = [clean EXCEPT ![p] = FALSE]
    BY DEF Missing
<1>4. lost'[p] = (IF lost[p] = 0 THEN 1 ELSE 2) /\ ~ clean'[p] /\ tx'[p] = t
    BY <1>1, <1>2, <1>3 DEF TypeOK, Smaller
<1>5. burst'[p] = (burst[p] \/ lost'[p] = 2)
    BY <1>1 DEF TypeOK
<1>6. TypeOK'
  <2>1. tx' \in [Peers -> Segmenters] /\ \A q \in Peers : tx'[q].offset <= tx'[q].len
      BY <1>1 DEF TypeOK, Fits
  <2>2. lost' \in [Peers -> 0 .. 2]
      BY <1>1, <1>3, <1>4 DEF TypeOK
  <2>3. clean' \in [Peers -> BOOLEAN]
      BY <1>1, <1>3 DEF TypeOK
  <2>4. burst' \in [Peers -> BOOLEAN]
      BY <1>1 DEF TypeOK
  <2> QED
      BY <1>1, <2>1, <2>2, <2>3, <2>4 DEF TypeOK
<1>7. Here(p)'
  <2>1. Linked(tx[p], rx[p], lost[p], burst[p]) /\ Once(tx[p], rx[p], returned[p])
      BY <1>2 DEF Here, Local
  <2>2. CASE lost[p] = 0
    <3>1. Linked(t, rx[p], lost'[p], burst'[p])
        BY <2>1, <2>2, <1>4, <1>5 DEF Linked
    <3> QED
        BY <3>1, <2>1, <1>4 DEF Here, Local, Once, Received
  <2>3. CASE lost[p] # 0
    <3>1. burst'[p]
        BY <2>3, <1>4, <1>5
    <3> QED
        BY <3>1, <2>1, <1>4 DEF Here, Local, Linked, Once, Received
  <2> QED
      BY <2>2, <2>3
<1>8. ASSUME NEW q \in Peers, q # p PROVE Here(q)'
    BY <1>1, <1>3, <1>8, Elsewhere DEF TypeOK
<1>9. WholeUnlessBurst'
    BY DEF Inv, WholeUnlessBurst
<1> QED
    BY <1>6, <1>7, <1>8, <1>9 DEF Inv

LEMMA LoseFrameInv ==
    ASSUME Inv, NEW p \in Peers, LoseFrame(p)
    PROVE  Inv'
<1>1. tx[p] \in Segmenters /\ Fits(tx[p]) /\ ~ Sent(tx[p]) /\ tx[p].seq \in 0 .. SeqMod - 1
    BY PeerTypes DEF LoseFrame
<1> DEFINE t == Advance(tx[p])
<1>2. t \in Segmenters /\ Fits(t) /\ t.started
      /\ t.seq = IF tx[p].started THEN NextSeq(tx[p].seq) ELSE tx[p].seq
    BY <1>1, AdvanceFits
<1>3. InStep(rx[p], tx[p]) => t.seq # rx[p].expected
    BY <1>1, <1>2, NextSeqMoves DEF InStep
<1>4. tx' = [tx EXCEPT ![p] = t]
    BY DEF LoseFrame
<1> HIDE DEF t
<1> QED
    BY <1>2, <1>3, <1>4, MissedInv DEF LoseFrame

LEMMA AbandonInv ==
    ASSUME Inv, NEW p \in Peers, Abandon(p)
    PROVE  Inv'
<1>1. /\ tx[p] \in Segmenters /\ tx[p].len \in 0 .. MaxLen /\ tx[p].msg \in Nat
      /\ tx[p].seq \in 0 .. SeqMod - 1
    BY PeerTypes
<1> DEFINE t == [tx[p] EXCEPT !.started = TRUE, !.offset = tx[p].len]
<1>2. t \in Segmenters /\ t.started /\ t.offset = t.len
    BY <1>1 DEF Segmenters
<1>3. Fits(t) /\ Sent(t)
    BY <1>1, <1>2, Sizes DEF Fits, Sent, Segmenters
<1>4. tx' = [tx EXCEPT ![p] = t]
    BY <1>1 DEF Abandon, Inv, TypeOK
<1> HIDE DEF t
<1> QED
    BY <1>2, <1>3, <1>4, MissedInv DEF Abandon

LEMMA ReceiveInv ==
    ASSUME Inv, NEW p \in Peers, NEW cut \in BOOLEAN, Receive(p, cut)
    PROVE  Inv'
<1> DEFINE t == tx[p]
           r == rx[p]
           a == Advance(t)
           f == NextFrame(t)
           fed == Feed(r, f, cut)
<1>1. TypeOK
    BY DEF Inv
<1>2. /\ t \in Segmenters /\ r \in Reassemblers /\ Partial(r) /\ Fits(t) /\ ~ Sent(t)
      /\ clean[p] \in BOOLEAN /\ burst[p] \in BOOLEAN /\ lost[p] \in 0 .. 2
      /\ t.msg \in Nat /\ t.len \in 0 .. MaxLen /\ t.seq \in 0 .. SeqMod - 1
      /\ t.started \in BOOLEAN /\ r.wait \in BOOLEAN /\ r.expected \in 0 .. SeqMod - 1
    BY PeerTypes DEF Receive
<1>3. /\ Linked(t, r, lost[p], burst[p]) /\ Once(t, r, returned[p])
      /\ Received(t, r, returned[p], clean[p])
    BY PeerTypes DEF Here, Local
<1>4. /\ End(t) \in 0 .. MaxLen /\ End(t) <= t.len
      /\ a \in Segmenters /\ Fits(a) /\ a.started /\ a.msg = t.msg /\ a.len = t.len
      /\ a.offset = End(t) /\ a.seq = IF t.started THEN NextSeq(t.seq) ELSE t.seq
    BY <1>2, AdvanceFits
<1>5. f.pci = IF t.started THEN "CF" ELSE IF IsShort(t) THEN "SF" ELSE "FF"
    BY DEF NextFrame
<1>6. /\ tx' = [tx EXCEPT ![p] = a] /\ rx' = [rx EXCEPT ![p] = fed.rx] /\ begun' = begun
      /\ IF fed.done = {} THEN UNCHANGED <<out, returned>>
         ELSE /\ \E b \in fed.done :
                    out' = [out EXCEPT ![p] = [bytes |-> b, msg |-> t.msg, len |-> t.len,
                                               burst |-> f.pci = "CF" /\ burst[p]]]
              /\ returned' = [returned EXCEPT ![p] = @ + 1]
      /\ IF cut THEN Missing(p) ELSE lost' = [lost EXCEPT ![p] = 0] /\ UNCHANGED clean
      /\ burst' = [burst EXCEPT ![p] = f.pci = "CF" /\ (@ \/ lost'[p] = 2)]
    BY DEF Receive, ReassemblerOf
<1>7. ASSUME ~ t.started, IsShort(t)
      PROVE  /\ fed.rx = Idle /\ fed.done = (IF cut THEN {} ELSE {Bytes(t.msg, 0, t.len)})
             /\ Bytes(t.msg, 0, t.len) \in Seq(Byte)
             /\ Sent(a)
  <2>1. fed.rx = Idle /\ fed.done = (IF cut THEN {} ELSE {Bytes(t.msg, 0, t.len)})
    <3>1. fed = [rx |-> Idle, done |-> IF cut THEN {} ELSE {Bytes(t.msg, 0, t.len)}]
        BY <1>2, <1>7, SfFed
    <3> HIDE DEF fed
    <3> QED
        BY <3>1
  <2>2. t.len \in Nat
      BY <1>2, Sizes
  <2>3. Bytes(t.msg, 0, t.len) \in Seq(Byte)
      BY <2>2, <1>2, FirstBytes
  <2>4. Sent(a)
      BY <1>4, <1>7 DEF Sent, End
  <2> QED
      BY <2>1, <2>3, <2>4
<1>8. ASSUME ~ t.started, ~ IsShort(t)
      PROVE  /\ fed.done = {}
             /\ cut => fed.rx = Idle
             /\ ~ cut => /\ fed.rx \in Reassemblers /\ Partial(fed.rx)
                         /\ fed.rx.wait /\ InStep(fed.rx, a)
             /\ ~ Sent(a)
  <2> DEFINE new == [wait |-> TRUE, buffer |-> Bytes(t.msg, 0, FfData),
                     total |-> t.len, expected |-> 1]
  <2>1. fed = [rx |-> IF cut THEN Idle ELSE new, done |-> {}]
      BY <1>2, <1>8, FfFed
  <2>2. Bytes(t.msg, 0, FfData) \in Seq(Byte) /\ Len(Bytes(t.msg, 0, FfData)) = FfData
      BY <1>2, Sizes, FirstBytes
  <2>3. FfData < t.len /\ End(t) = FfData
      BY <1>2, <1>8, Sizes DEF IsShort, End
  <2>4. new \in Reassemblers /\ Partial(new) /\ new.wait
      BY <1>2, <2>2, <2>3, Sizes DEF Reassemblers, Partial
  <2>5. t.seq = 1
      BY <1>2, <1>8 DEF Fits
  <2>6. InStep(new, a)
      BY <1>4, <1>8, <2>3, <2>5 DEF InStep
  <2>7. ~ Sent(a)
      BY <1>2, <1>4, <2>3, Sizes DEF Sent
  <2> HIDE DEF new
  <2> QED
      BY <2>1, <2>4, <2>6, <2>7
<1>9. ASSUME t.started
      PROVE  /\ fed.rx \in Reassemblers /\ Partial(fed.rx) /\ fed.done \in SUBSET Seq(Byte)
             /\ ~ r.wait => fed.rx = r /\ fed.done = {}
             /\ r.wait /\ t.seq # r.expected => fed.rx = Idle /\ fed.done = {}
             /\ r.wait /\ t.seq = r.expected /\ cut => fed.rx = r /\ fed.done = {}
             /\ fed.done # {} => fed.rx = Idle /\ r.wait /\ ~ cut /\ t.seq = r.expected
             /\ r.wait /\ InStep(r, t) /\ ~ cut =>
                  \/ fed.rx = Idle /\ fed.done = {Bytes(t.msg, 0, t.len)} /\ Sent(a)
                  \/ fed.done = {} /\ fed.rx.wait /\ InStep(fed.rx, a)
    BY <1>2, <1>9, CfFed
<1> HIDE DEF a, f, fed
<1>10. fed.rx \in Reassemblers /\ Partial(fed.rx) /\ fed.done \in SUBSET Seq(Byte)
    BY <1>2, <1>7, <1>8, <1>9, IdleType DEF Partial
<1>11. /\ tx'[p] = a /\ rx'[p] = fed.rx
       /\ returned'[p] = IF fed.done = {} THEN returned[p] ELSE returned[p] + 1
       /\ burst'[p] = (f.pci = "CF" /\ (burst[p] \/ lost'[p] = 2))
    BY <1>1, <1>6 DEF TypeOK
<1>12. lost'[p] = (IF cut THEN IF lost[p] = 0 THEN 1 ELSE 2 ELSE 0)
       /\ clean'[p] = (IF cut THEN FALSE ELSE clean[p])
  <2>1. CASE cut
    <3>1. lost' = [lost EXCEPT ![p] = Smaller(@ + 1, 2)] /\ clean' = [clean EXCEPT ![p] = FALSE]
        BY <2>1, <1>6 DEF Missing
    <3>2. lost'[p] = Smaller(lost[p] + 1, 2) /\ clean'[p] = FALSE
        BY <3>1, <1>1 DEF TypeOK
    <3>3. Smaller(lost[p] + 1, 2) = IF lost[p] = 0 THEN 1 ELSE 2
        BY <1>2 DEF Smaller
    <3> QED
        BY <2>1, <3>2, <3>3
  <2>2. CASE ~ cut
    <3>1. lost' = [lost EXCEPT ![p] = 0] /\ clean' = clean
        BY <2>2, <1>6
    <3>2. lost'[p] = 0
        BY <3>1, <1>1 DEF TypeOK
    <3> QED
        BY <2>2, <3>1, <3>2
  <2> QED
      BY <2>1, <2>2
<1>13. /\ \A q \in Peers : q # p => /\ lost'[q] = lost[q] /\ clean'[q] = clean[q]
                                    /\ returned'[q] = returned[q] /\ out'[q] = out[q]
    BY <1>1, <1>6 DEF TypeOK, Missing
<1>14. ASSUME NEW b \in fed.done
       PROVE  (f.pci = "CF" /\ burst[p]) \/ b = Bytes(t.msg, 0, t.len)
  <2>1. CASE ~ t.started
      BY <2>1, <1>7, <1>8, <1>14
  <2>2. CASE t.started /\ ~ burst[p]
    <3>1. r.wait /\ ~ cut /\ t.seq = r.expected
        BY <2>2, <1>9, <1>14
    <3>2. InStep(r, t)
        BY <3>1, <2>2, <1>2, <1>3 DEF Linked
    <3> QED
        BY <3>1, <3>2, <2>2, <1>9, <1>14
  <2>3. CASE t.started /\ burst[p]
      BY <2>3, <1>5
  <2> QED
      BY <2>1, <2>2, <2>3, <1>2
<1>15. WholeUnlessBurst'
  <2>1. CASE fed.done = {}
      BY <2>1, <1>6 DEF Inv, WholeUnlessBurst
  <2>2. CASE fed.done # {}
    <3>1. PICK b \in fed.done :
             out' = [out EXCEPT ![p] = [bytes |-> b, msg |-> t.msg, len |-> t.len,
                                        burst |-> f.pci = "CF" /\ burst[p]]]
        BY <2>2, <1>6
    <3>2. out'[p].burst \/ out'[p].bytes = Bytes(out'[p].msg, 0, out'[p].len)
        BY <3>1, <1>1, <1>14 DEF TypeOK
    <3> QED
        BY <3>2, <1>13 DEF Inv, WholeUnlessBurst
  <2> QED
      BY <2>1, <2>2
<1>16. TypeOK'
  <2>1. tx' \in [Peers -> Segmenters] /\ rx' \in [Peers -> Reassemblers]
      BY <1>1, <1>4, <1>6, <1>10 DEF TypeOK
  <2>2. \A q \in Peers : tx'[q].offset <= tx'[q].len
      BY <1>1, <1>4, <1>6, <1>11 DEF TypeOK, Fits
  <2>3. \A q \in Peers : rx'[q].wait => Len(rx'[q].buffer) < rx'[q].total
      BY <1>1, <1>6, <1>10, <1>11 DEF TypeOK, Partial
  <2>4. out' \in [Peers -> [bytes : Seq(Byte), msg : Nat, len : 0 .. MaxLen, burst : BOOLEAN]]
    <3>1. CASE fed.done = {}
        BY <3>1, <1>1, <1>6 DEF TypeOK
    <3>2. CASE fed.done # {}
      <4>1. PICK b \in fed.done :
               out' = [out EXCEPT ![p] = [bytes |-> b, msg |-> t.msg, len |-> t.len,
                                          burst |-> f.pci = "CF" /\ burst[p]]]
          BY <3>2, <1>6
      <4>2. b \in Seq(Byte)
          BY <1>10
      <4> QED
          BY <4>1, <4>2, <1>1, <1>2 DEF TypeOK
    <3> QED
        BY <3>1, <3>2
  <2>5. returned' \in [Peers -> Nat]
    <3>1. CASE fed.done = {}
        BY <3>1, <1>1, <1>6 DEF TypeOK
    <3>2. CASE fed.done # {}
      <4>1. returned' = [returned EXCEPT ![p] = @ + 1]
          BY <3>2, <1>6
      <4>2. returned[p] + 1 \in Nat
          BY <1>1 DEF TypeOK
      <4> QED
          BY <4>1, <4>2, <1>1 DEF TypeOK
    <3> QED
        BY <3>1, <3>2
  <2>6. lost' \in [Peers -> 0 .. 2] /\ clean' \in [Peers -> BOOLEAN]
    <3>1. CASE cut
      <4>1. Smaller(lost[p] + 1, 2) \in 0 .. 2
          BY <1>2 DEF Smaller
      <4> QED
          BY <3>1, <4>1, <1>1, <1>6 DEF TypeOK, Missing
    <3>2. CASE ~ cut
      <4>1. lost' = [lost EXCEPT ![p] = 0] /\ clean' = clean
          BY <3>2, <1>6
      <4>2. clean' \in [Peers -> BOOLEAN]
          BY <4>1, <1>1 DEF TypeOK
      <4>3. lost' \in [Peers -> 0 .. 2]
          BY <4>1, <1>1 DEF TypeOK
      <4> QED
          BY <4>2, <4>3
    <3> QED
        BY <3>1, <3>2
  <2>7. burst' \in [Peers -> BOOLEAN]
      BY <1>1, <1>6 DEF TypeOK
  <2> QED
      BY <1>1, <1>6, <2>1, <2>2, <2>3, <2>4, <2>5, <2>6, <2>7 DEF TypeOK
<1>17. Linked(a, fed.rx, lost'[p], burst'[p])
  <2>1. CASE ~ t.started
      BY <2>1, <1>7, <1>8, <1>12, IdleType DEF Linked
  <2>2. CASE t.started
    <3> SUFFICES ASSUME fed.rx.wait, ~ burst'[p]
                 PROVE  /\ lost'[p] = 0 => InStep(fed.rx, a)
                        /\ lost'[p] = 1 => a.seq # fed.rx.expected
                        /\ lost'[p] # 2
        BY DEF Linked
    <3>1. r.wait /\ t.seq = r.expected
        BY <2>2, <1>9, IdleType
    <3>2. ~ burst[p] /\ lost'[p] # 2
        BY <2>2, <1>5, <1>11
    <3>3. InStep(r, t) /\ lost[p] = 0
        BY <3>1, <3>2, <2>2, <1>2, <1>3 DEF Linked
    <3>4. CASE cut
        BY <3>1, <3>2, <3>4, <2>2, <1>2, <1>4, <1>9, <1>12, NextSeqMoves
    <3>5. CASE ~ cut
        BY <3>1, <3>3, <3>5, <2>2, <1>9, <1>12, IdleType
    <3> QED
        BY <3>4, <3>5
  <2> QED
      BY <2>1, <2>2
<1>18. Once(a, fed.rx, returned'[p])
  <2>1. CASE ~ t.started
    <3>1. returned[p] = 0
        BY <2>1, <1>3 DEF Once
    <3> QED
        BY <3>1, <2>1, <1>4, <1>7, <1>8, <1>11, IdleType DEF Once
  <2>2. CASE t.started /\ fed.done = {}
      BY <2>2, <1>3, <1>4, <1>9, <1>11 DEF Once
  <2>3. CASE t.started /\ fed.done # {}
    <3>1. r.wait /\ fed.rx = Idle
        BY <2>3, <1>9
    <3>2. returned[p] = 0
        BY <3>1, <1>3 DEF Once
    <3> QED
        BY <3>1, <3>2, <2>3, <1>4, <1>11, IdleType DEF Once
  <2> QED
      BY <2>1, <2>2, <2>3, <1>2
<1>19. Received(a, fed.rx, returned'[p], clean'[p])
  <2> SUFFICES ASSUME clean'[p]
               PROVE  IF Sent(a) THEN returned'[p] = 1 ELSE fed.rx.wait /\ InStep(fed.rx, a)
      BY DEF Received
  <2>1. ~ cut /\ clean[p]
      BY <1>12
  <2>2. CASE ~ t.started
    <3>1. returned[p] = 0
        BY <2>2, <1>3 DEF Once
    <3> QED
        BY <3>1, <2>1, <2>2, <1>7, <1>8, <1>11
  <2>3. CASE t.started
    <3>1. r.wait /\ InStep(r, t)
        BY <2>1, <2>3, <1>2, <1>3 DEF Received
    <3>2. returned[p] = 0
        BY <3>1, <1>3 DEF Once
    <3>3. InStep(fed.rx, a) => ~ Sent(a)
        BY <1>2, <1>4, Sizes DEF InStep, Sent
    <3>4. \/ fed.rx = Idle /\ fed.done = {Bytes(t.msg, 0, t.len)} /\ Sent(a)
          \/ fed.done = {} /\ fed.rx.wait /\ InStep(fed.rx, a)
        BY <3>1, <2>1, <2>3, <1>9
    <3>5. CASE fed.rx = Idle /\ fed.done = {Bytes(t.msg, 0, t.len)} /\ Sent(a)
      <4>1. fed.done # {}
          BY <3>5
      <4> QED
          BY <4>1, <3>2, <3>5, <1>11
    <3>6. CASE fed.done = {} /\ fed.rx.wait /\ InStep(fed.rx, a)
        BY <3>6, <3>3
    <3> QED
        BY <3>4, <3>5, <3>6
  <2> QED
      BY <2>2, <2>3
<1>20. Here(p)'
    BY <1>4, <1>11, <1>17, <1>18, <1>19 DEF Here, Local
<1>21. ASSUME NEW q \in Peers, q # p PROVE Here(q)'
  <2>1. tx'[q] = tx[q] /\ rx'[q] = rx[q] /\ burst'[q] = burst[q]
      BY <1>1, <1>6, <1>21 DEF TypeOK
  <2> QED
      BY <2>1, <1>13, <1>21, Elsewhere
<1> QED
    BY <1>15, <1>16, <1>20, <1>21 DEF Inv

-----------------------------------------------------------------------------
LEMMA NextInv == Inv /\ [Next]_vars => Inv'
<1> SUFFICES ASSUME Inv, [Next]_vars PROVE Inv'
    OBVIOUS
<1>1. ASSUME NEW p \in Peers, NEW n \in Lengths, NewMessage(p, n) PROVE Inv'
    BY <1>1, NewMessageInv
<1>2. ASSUME NEW p \in Peers, LoseFrame(p) PROVE Inv'
    BY <1>2, LoseFrameInv
<1>3. ASSUME NEW p \in Peers, Abandon(p) PROVE Inv'
    BY <1>3, AbandonInv
<1>4. ASSUME NEW p \in Peers, Tick(p) PROVE Inv'
    BY <1>4, TickInv
<1>5. ASSUME NEW p \in Peers, NEW cut \in BOOLEAN, Receive(p, cut) PROVE Inv'
    BY <1>5, ReceiveInv
<1>6. ASSUME NEW p \in Peers, Interrupt(p) PROVE Inv'
    BY <1>6, InterruptInv
<1>7. CASE UNCHANGED vars
    BY <1>7 DEF Inv, TypeOK, WholeUnlessBurst, Here, vars
<1> QED
    BY <1>1, <1>2, <1>3, <1>4, <1>5, <1>6, <1>7 DEF Next

LEMMA SpecInv == Spec => []Inv
BY InitInv, NextInv, PTL DEF Spec

(* Types: what is in progress never exceeds what its first frame announced. *)
THEOREM TypeCorrect == Spec => []TypeOK
<1>1. Inv => TypeOK
    BY DEF Inv
<1> QED
    BY <1>1, SpecInv, PTL

(* For any frame sizes and any modulus of at least 2, a single missing     *)
(* frame never leads to a message that was not sent.                       *)
THEOREM WholeMessages == Spec => []WholeUnlessBurst
<1>1. Inv => WholeUnlessBurst
    BY DEF Inv
<1> QED
    BY <1>1, SpecInv, PTL

(* A message of which every frame arrives, with none of another kind of    *)
(* its node in between, is handed up once, of any length and whatever was  *)
(* in progress before it.                                                  *)
THEOREM CleanReception == Spec => []CleanIsReturned
<1>1. Inv => CleanIsReturned
  <2> SUFFICES ASSUME Inv, NEW p \in Peers
               PROVE  returned[p] <= 1 /\ (Sent(tx[p]) /\ clean[p] => returned[p] = 1)
      BY DEF CleanIsReturned
  <2>1. Once(tx[p], rx[p], returned[p]) /\ Received(tx[p], rx[p], returned[p], clean[p])
      BY DEF Inv, Here, Local
  <2>2. returned[p] <= 1
      BY <2>1 DEF Once
  <2>3. ASSUME Sent(tx[p]), clean[p] PROVE returned[p] = 1
    <3>1. tx[p].started
        BY <2>3 DEF Sent
    <3> QED
        BY <2>1, <2>3, <3>1 DEF Received
  <2> QED
      BY <2>2, <2>3
<1> QED
    BY <1>1, SpecInv, PTL

-----------------------------------------------------------------------------
(* A link for each node.  Messages are numbered in the order they begin,   *)
(* so what was handed up last is never newer than what is being sent, and  *)
(* older as long as that may still be handed up.                           *)
Ordered(p) ==
    /\ tx[p].msg <= begun
    /\ out[p].msg <= tx[p].msg
    /\ returned[p] = 0 /\ ~ Sent(tx[p]) => out[p].msg < tx[p].msg

LinkInv == Inv /\ \A p \in Peers : Ordered(p)

LEMMA LinkTypes ==
    ASSUME Inv, NEW p \in Peers
    PROVE  /\ begun \in Nat /\ tx[p].msg \in Nat /\ out[p].msg \in Nat
           /\ returned[p] \in {0, 1}
<1>1. begun \in Nat
    BY IsoTpAssumption DEF Inv, TypeOK
<1>2. tx[p].msg \in Nat /\ out[p].msg \in Nat
    BY DEF Inv, TypeOK, Segmenters
<1>3. returned[p] \in {0, 1}
    BY DEF Inv, Here, Local, Once
<1> QED
    BY <1>1, <1>2, <1>3

LEMMA InitLink == Init => LinkInv
<1> SUFFICES ASSUME Init, NEW p \in Peers PROVE Ordered(p)
    BY InitInv DEF LinkInv
<1> DEFINE s0 == Segmenter(0, 0)
           t0 == [s0 EXCEPT !.started = TRUE]
<1>1. s0.msg = 0 /\ s0.offset = 0 /\ s0.len = 0 /\ s0 \in Segmenters
    BY Sizes DEF Segmenter, Segmenters
<1> HIDE DEF s0
<1>2. t0.msg = 0 /\ Sent(t0)
    BY <1>1 DEF Sent, Segmenters
<1>3. tx[p] = t0 /\ begun = 0 /\ out[p].msg = 0
    BY DEF Init, s0
<1> HIDE DEF t0
<1> QED
    BY <1>2, <1>3 DEF Ordered

(* What a step does to a link: it begins a message, hands one up, or       *)
(* leaves the link alone.                                                  *)
LinkBegins(p) ==
    /\ begun' = begun + 1 /\ tx'[p].msg = begun'
    /\ returned'[p] = 0 /\ out'[p] = out[p]

LinkHandsUp(p) ==
    /\ begun' = begun /\ tx'[p].msg = tx[p].msg /\ ~ Sent(tx[p])
    /\ returned'[p] = returned[p] + 1 /\ out'[p].msg = tx[p].msg

LinkRests(p) ==
    /\ begun' \in {begun, begun + 1}
    /\ tx'[p].msg = tx[p].msg /\ (Sent(tx[p]) => Sent(tx'[p]))
    /\ returned'[p] = returned[p] /\ out'[p] = out[p]

LEMMA LinkStep ==
    ASSUME Inv, [Next]_vars, NEW p \in Peers
    PROVE  LinkBegins(p) \/ LinkHandsUp(p) \/ LinkRests(p)
<1>1. TypeOK
    BY DEF Inv
<1>2. ASSUME NEW q \in Peers, NEW n \in Lengths, NewMessage(q, n)
      PROVE  LinkBegins(p) \/ LinkRests(p)
  <2>1. /\ begun' = begun + 1 /\ out' = out /\ tx' = [tx EXCEPT ![q] = Segmenter(begun', n)]
        /\ returned' = [returned EXCEPT ![q] = 0]
      BY <1>2 DEF NewMessage
  <2>2. CASE p = q
    <3>1. tx'[p] = Segmenter(begun', n) /\ returned'[p] = 0
        BY <2>1, <2>2, <1>1 DEF TypeOK
    <3>2. Segmenter(begun', n).msg = begun'
        BY DEF Segmenter
    <3> QED
        BY <2>1, <3>1, <3>2 DEF LinkBegins
  <2>3. CASE p # q
    <3>1. tx'[p] = tx[p] /\ returned'[p] = returned[p]
        BY <2>1, <2>3, <1>1 DEF TypeOK
    <3> QED
        BY <2>1, <3>1 DEF LinkRests
  <2> QED
      BY <2>2, <2>3
<1>3. ASSUME NEW q \in Peers, LoseFrame(q) \/ Abandon(q)
      PROVE  LinkRests(p)
  <2>1. tx[q] \in Segmenters /\ ~ Sent(tx[q]) /\ UNCHANGED <<begun, out, returned>>
      BY <1>1, <1>3 DEF LoseFrame, Abandon, TypeOK
  <2>2. PICK t : tx' = [tx EXCEPT ![q] = t] /\ t.msg = tx[q].msg
    <3>1. CASE LoseFrame(q)
      <4>1. tx' = [tx EXCEPT ![q] = Advance(tx[q])]
          BY <3>1, <1>1 DEF LoseFrame, TypeOK
      <4>2. Advance(tx[q]).msg = tx[q].msg
          BY <2>1 DEF Advance, Segmenters
      <4> QED
          BY <4>1, <4>2
    <3>2. CASE Abandon(q)
      <4> DEFINE t1 == [tx[q] EXCEPT !.started = TRUE, !.offset = tx[q].len]
      <4>1. tx' = [tx EXCEPT ![q] = t1]
          BY <3>2, <1>1 DEF Abandon, TypeOK
      <4>2. t1.msg = tx[q].msg
          BY <2>1 DEF Segmenters
      <4> HIDE DEF t1
      <4> QED
          BY <4>1, <4>2
    <3> QED
        BY <1>3, <3>1, <3>2
  <2>3. CASE p = q
    <3>1. tx'[p].msg = tx[p].msg
        BY <2>2, <2>3, <1>1 DEF TypeOK
    <3> QED
        BY <2>1, <2>3, <3>1 DEF LinkRests
  <2>4. CASE p # q
    <3>1. tx'[p] = tx[p]
        BY <2>2, <2>4, <1>1 DEF TypeOK
    <3> QED
        BY <2>1, <3>1 DEF LinkRests
  <2> QED
      BY <2>3, <2>4
<1>4. ASSUME NEW q \in Peers, NEW cut \in BOOLEAN, Receive(q, cut)
      PROVE  LinkHandsUp(p) \/ LinkRests(p)
  <2> DEFINE t == tx[q]
             f == NextFrame(t)
             fed == Feed(rx[ReassemblerOf(q)], f, cut)
  <2>1. /\ begun' = begun /\ ~ Sent(t) /\ tx' = [tx EXCEPT ![q] = Advance(t)]
        /\ \/ UNCHANGED <<out, returned>>
           \/ /\ \E b \in fed.done :
                     out' = [out EXCEPT ![q] = [bytes |-> b, msg |-> t.msg, len |-> t.len,
                                                burst |-> f.pci = "CF" /\ burst[q]]]
              /\ returned' = [returned EXCEPT ![q] = @ + 1]
      BY <1>4 DEF Receive
  <2>2. t \in Segmenters
      BY <1>1 DEF TypeOK
  <2>3. Advance(t).msg = t.msg
      BY <2>2 DEF Advance, Segmenters
  <2> HIDE DEF f, fed
  <2>4. CASE p # q
    <3>1. tx'[p] = tx[p] /\ out'[p] = out[p] /\ returned'[p] = returned[p]
        BY <2>1, <2>4, <1>1 DEF TypeOK
    <3> QED
        BY <2>1, <3>1 DEF LinkRests
  <2>5. CASE p = q
    <3>1. tx'[p].msg = tx[p].msg /\ ~ Sent(tx[p])
        BY <2>1, <2>3, <2>5, <1>1 DEF TypeOK
    <3>2. \/ out'[p] = out[p] /\ returned'[p] = returned[p]
          \/ out'[p].msg = tx[p].msg /\ returned'[p] = returned[p] + 1
        BY <2>1, <2>5, <1>1 DEF TypeOK
    <3> QED
        BY <2>1, <3>1, <3>2 DEF LinkHandsUp, LinkRests
  <2> QED
      BY <2>4, <2>5
<1>5. ASSUME NEW q \in Peers, Tick(q) \/ Interrupt(q) PROVE LinkRests(p)
    BY <1>5 DEF Tick, Interrupt, LinkRests
<1>6. CASE UNCHANGED vars
    BY <1>6 DEF vars, LinkRests
<1> QED
    BY <1>2, <1>3, <1>4, <1>5, <1>6 DEF Next

LEMMA NextLink == LinkInv /\ [Next]_vars => LinkInv'
<1> SUFFICES ASSUME LinkInv, [Next]_vars PROVE LinkInv'
    OBVIOUS
<1>1. Inv /\ Inv'
    BY NextInv DEF LinkInv
<1>2. ASSUME NEW p \in Peers PROVE Ordered(p)'
  <2>1. /\ begun \in Nat /\ tx[p].msg \in Nat /\ out[p].msg \in Nat /\ returned[p] \in {0, 1}
        /\ Ordered(p)
      BY <1>1, LinkTypes DEF LinkInv
  <2>2. begun' \in Nat /\ tx'[p].msg \in Nat /\ out'[p].msg \in Nat
    <3>1. TypeOK'
        BY <1>1 DEF Inv
    <3>2. begun' \in Nat
        BY <3>1, IsoTpAssumption DEF TypeOK
    <3>3. tx'[p] \in Segmenters /\ out'[p].msg \in Nat
        BY <3>1 DEF TypeOK
    <3> QED
        BY <3>2, <3>3 DEF Segmenters
  <2>3. CASE LinkBegins(p)
      BY <2>1, <2>2, <2>3 DEF LinkBegins, Ordered
  <2>4. CASE LinkHandsUp(p)
      BY <2>1, <2>2, <2>4 DEF LinkHandsUp, Ordered
  <2>5. CASE LinkRests(p)
      BY <2>1, <2>2, <2>5 DEF LinkRests, Ordered
  <2> QED
      BY <1>1, <2>3, <2>4, <2>5, LinkStep
<1> QED
    BY <1>1, <1>2 DEF LinkInv

(* rx_task of the session: whatever is lost, abandoned, cut or timed out,  *)
(* every node is a link that hands up each message at most once, before    *)
(* the next one begins, hence in the order in which they were sent.        *)
THEOREM LinksRefinement == Spec => ImplementsLinks
<1> SUFFICES ASSUME NEW p \in Peers
             PROVE  Spec => Link(p)!LinkSpec
    BY DEF ImplementsLinks
<1>1. LinkInv /\ LinkInv' /\ [Next]_vars => [Link(p)!LinkNext]_(Link(p)!linkVars)
  <2> SUFFICES ASSUME LinkInv, LinkInv', [Next]_vars
               PROVE  [Link(p)!LinkNext]_(Link(p)!linkVars)
      OBVIOUS
  <2>1. /\ begun \in Nat /\ tx[p].msg \in Nat /\ out[p].msg \in Nat /\ returned[p] \in {0, 1}
        /\ Ordered(p)
      BY LinkTypes DEF LinkInv
  <2>2. returned'[p] \in {0, 1}
      BY DEF LinkInv, Inv, Here, Local, Once
  <2>3. CASE LinkBegins(p)
    <3>1. tx'[p].msg \in Nat /\ tx'[p].msg > tx[p].msg
        BY <2>1, <2>3 DEF LinkBegins, Ordered
    <3> QED
        BY <2>3, <3>1 DEF LinkBegins, Link!LinkNext, Link!Begin
  <2>4. CASE LinkHandsUp(p)
    <3>1. returned[p] = 0 /\ returned'[p] = 1
        BY <2>1, <2>2, <2>4 DEF LinkHandsUp
    <3>2. out[p].msg < tx[p].msg
        BY <3>1, <2>1, <2>4 DEF LinkHandsUp, Ordered
    <3> QED
        BY <2>4, <3>1, <3>2 DEF LinkHandsUp, Link!LinkNext, Link!HandUp
  <2>5. CASE LinkRests(p)
      BY <2>5 DEF LinkRests, Link!linkVars
  <2> QED
      BY <2>3, <2>4, <2>5, LinkStep DEF LinkInv
<1>2. Init => Link(p)!LinkInit
  <2> SUFFICES ASSUME Init PROVE Link(p)!LinkInit
      OBVIOUS
  <2>1. LinkInv /\ begun = 0 /\ returned[p] = 0
      BY InitLink DEF Init
  <2>2. tx[p].msg \in Nat /\ out[p].msg \in Nat /\ tx[p].msg <= 0 /\ out[p].msg <= tx[p].msg
      BY <2>1, LinkTypes DEF LinkInv, Ordered
  <2> QED
      BY <2>1, <2>2 DEF Link!LinkInit
<1> QED
    BY <1>1, <1>2, InitLink, NextLink, PTL DEF Spec, Link!LinkSpec
=============================================================================
