------------------------ MODULE LogExtraction_proofs ------------------------
(***************************************************************************)
(* Theorems about LogExtraction, for any files, blocks, number of          *)
(* extractions and lost frames.  First the shape of the frames and the     *)
(* types; then, with an invariant of its own, what an extraction saves     *)
(* that is alone.                                                          *)
(***************************************************************************)
EXTENDS LogExtraction, SequenceTheorems, TLAPS

-----------------------------------------------------------------------------
(* Sequences.                                                              *)

LEMMA FirstOfSeq ==
    ASSUME NEW S, NEW s \in Seq(S), s # <<>>
    PROVE  /\ Len(s) \in Nat /\ Len(s) >= 1 /\ Head(s) = s[1] /\ Head(s) \in S
           /\ Tail(s) \in Seq(S) /\ Len(Tail(s)) = Len(s) - 1
           /\ \A i \in 1 .. Len(s) - 1 : Tail(s)[i] = s[i + 1]
<1>1. /\ Head(s) \in S /\ Tail(s) \in Seq(S) /\ Len(Tail(s)) = Len(s) - 1
      /\ \A i \in 1 .. Len(Tail(s)) : Tail(s)[i] = s[i + 1]
    BY HeadTailProperties
<1>2. Len(s) \in Nat /\ Len(s) # 0 /\ Head(s) = s[1]
    BY LenProperties, EmptySeq
<1> QED
    BY <1>1, <1>2

LEMMA SingleSeq ==
    ASSUME NEW S, NEW x \in S
    PROVE  <<x>> \in Seq(S) /\ Len(<<x>>) = 1 /\ <<x>>[1] = x /\ <<x>> # <<>>
OBVIOUS

(* A prefix is extended by what comes next.                                *)
LEMMA PrefixGrows ==
    ASSUME NEW S, NEW s \in Seq(S), NEW a \in Nat, NEW b \in Nat, a <= b, b <= Len(s),
           NEW u \in Seq(S), Len(u) = b - a, \A i \in 1 .. b - a : u[i] = s[a + i]
    PROVE  SubSeq(s, 1, a) \o u = SubSeq(s, 1, b)
<1>0. Len(s) \in Nat /\ \A i \in 1 .. Len(s) : s[i] \in S
    BY LenProperties, ElementOfSeq
<1> DEFINE p == SubSeq(s, 1, a)
           q == SubSeq(s, 1, b)
<1>1. p \in Seq(S) /\ Len(p) = a /\ \A i \in 1 .. a : p[i] = s[i]
    <2>1. \A i \in 1 .. a : s[i] \in S
        BY <1>0
    <2>2. /\ p \in Seq(S) /\ Len(p) = IF 1 <= a THEN a - 1 + 1 ELSE 0
          /\ \A i \in 1 .. a - 1 + 1 : p[i] = s[1 + i - 1]
        BY <2>1, SubSeqProperties
    <2> HIDE DEF p
    <2> QED
        BY <2>2
<1>2. q \in Seq(S) /\ Len(q) = b /\ \A i \in 1 .. b : q[i] = s[i]
    <2>1. \A i \in 1 .. b : s[i] \in S
        BY <1>0
    <2>2. /\ q \in Seq(S) /\ Len(q) = IF 1 <= b THEN b - 1 + 1 ELSE 0
          /\ \A i \in 1 .. b - 1 + 1 : q[i] = s[1 + i - 1]
        BY <2>1, SubSeqProperties
    <2> HIDE DEF q
    <2> QED
        BY <2>2
<1> HIDE DEF p, q
<1> DEFINE v == p \o u
<1>3. /\ v \in Seq(S) /\ Len(v) = Len(p) + Len(u)
      /\ \A i \in 1 .. Len(p) + Len(u) : v[i] = IF i <= Len(p) THEN p[i] ELSE u[i - Len(p)]
    BY ZenonT(60), <1>1, ConcatProperties
<1> HIDE DEF v
<1>4. /\ Len(v) = Len(q) /\ Len(v) = b
      /\ \A i \in 1 .. b : v[i] = IF i <= a THEN p[i] ELSE u[i - a]
    BY <1>1, <1>2, <1>3
<1>5. \A i \in 1 .. Len(v) : v[i] = q[i]
    <2> SUFFICES ASSUME NEW i \in 1 .. b PROVE v[i] = q[i]
        BY <1>4
    <2>1. CASE i <= a
        <3>1. i \in 1 .. a
            BY <2>1
        <3>2. v[i] = p[i] /\ p[i] = s[i] /\ q[i] = s[i]
            BY <3>1, <2>1, <1>1, <1>2, <1>4
        <3> QED
            BY <3>2
    <2>2. CASE ~ (i <= a)
        <3>1. i - a \in 1 .. b - a /\ a + (i - a) = i
            BY <2>2
        <3>2. u[i - a] = s[i]
            BY <3>1
        <3>3. v[i] = u[i - a] /\ q[i] = s[i]
            BY <2>2, <1>2, <1>4
        <3> QED
            BY <3>2, <3>3
    <2> QED
        BY <2>1, <2>2
<1>6. v = q
    BY <1>2, <1>3, <1>4, <1>5, SeqEqual
<1> QED
    BY <1>6 DEF v, p, q

LEMMA PrefixProperties ==
    ASSUME NEW S, NEW s \in Seq(S), NEW a \in Nat, a <= Len(s)
    PROVE  /\ SubSeq(s, 1, a) \in Seq(S) /\ Len(SubSeq(s, 1, a)) = a
           /\ \A i \in 1 .. a : SubSeq(s, 1, a)[i] = s[i]
<1>0. Len(s) \in Nat /\ \A i \in 1 .. Len(s) : s[i] \in S
    BY LenProperties, ElementOfSeq
<1>1. \A i \in 1 .. a : s[i] \in S
    BY <1>0
<1> DEFINE p == SubSeq(s, 1, a)
<1>2. /\ p \in Seq(S) /\ Len(p) = IF 1 <= a THEN a - 1 + 1 ELSE 0
      /\ \A i \in 1 .. a - 1 + 1 : p[i] = s[1 + i - 1]
    BY <1>1, SubSeqProperties
<1> HIDE DEF p
<1>3. p \in Seq(S) /\ Len(p) = a /\ \A i \in 1 .. a : p[i] = s[i]
    BY <1>2
<1> QED
    BY <1>3 DEF p

-----------------------------------------------------------------------------
(* The frames of a reply.  A reply that takes several frames answers LIST, *)
(* OPEN or READ; one that takes a single frame neither LIST nor OPEN.      *)

Heads == {"LIST", "OPEN", "READ"}

Wire == {f \in Frame :
           /\ f.kind = "SF" => Len(f.cells) >= 1 /\ f.cells[1][1] \notin {"OPEN", "LIST"}
           /\ f.kind = "FF" => f.total >= 3 /\ Len(f.cells) = 2 /\ f.cells[1][1] \in Heads
           /\ f.kind = "CF" => Len(f.cells) = 2}

Answer == {cells \in Seq(Cell) :
             /\ Len(cells) >= 1
             /\ Len(cells) <= 2 => cells[1][1] \notin {"OPEN", "LIST"}
             /\ Len(cells) > 2 => cells[1][1] \in Heads}

Later(cells, i) ==
    [kind |-> "CF", total |-> 0,
     cells |-> Padded(SubSeq(cells, 2 * i + 1,
                             IF 2 * i + 2 < Len(cells) THEN 2 * i + 2 ELSE Len(cells)))]

LEMMA CellParts ==
    ASSUME NEW c \in Cell
    PROVE  c[1] \in Command \cup {"byte", "size", "crc", "entry", "pad", "nack"}
           /\ c[2] \in Nat /\ c[3] \in Nat
BY DEF Cell

LEMMA PadCell == <<"pad", 0, 0>> \in Cell
BY DEF Cell

(* Half of a length: the number of consecutive frames.                     *)
LEMMA Halves ==
    ASSUME NEW n \in Nat, n >= 1
    PROVE  /\ (n - 1) \div 2 \in Nat
           /\ 2 * ((n - 1) \div 2) + 1 <= n /\ n <= 2 * ((n - 1) \div 2) + 2
OBVIOUS

LEMMA LaterFrame ==
    ASSUME NEW cells \in Seq(Cell), NEW i \in Nat, i >= 1, 2 * i + 1 <= Len(cells)
    PROVE  LET f == Later(cells, i) IN
           /\ f \in Wire /\ f.kind = "CF" /\ f.cells \in Seq(Cell) /\ Len(f.cells) = 2
           /\ f.cells[1] = cells[2 * i + 1]
           /\ 2 * i + 2 <= Len(cells) => f.cells[2] = cells[2 * i + 2]
<1> DEFINE last == IF 2 * i + 2 < Len(cells) THEN 2 * i + 2 ELSE Len(cells)
           part == SubSeq(cells, 2 * i + 1, last)
<1>1. Len(cells) \in Nat /\ \A j \in 1 .. Len(cells) : cells[j] \in Cell
    BY LenProperties, ElementOfSeq
<1>2. last \in Int /\ 2 * i + 1 \in Int /\ 2 * i + 1 <= last /\ last <= Len(cells)
      /\ last = IF 2 * i + 2 <= Len(cells) THEN 2 * i + 2 ELSE 2 * i + 1
    BY <1>1
<1> HIDE DEF last
<1>3. \A j \in 2 * i + 1 .. last : cells[j] \in Cell
    BY <1>1, <1>2
<1>4. /\ part \in Seq(Cell)
      /\ Len(part) = IF 2 * i + 1 <= last THEN last - (2 * i + 1) + 1 ELSE 0
      /\ \A j \in 1 .. last - (2 * i + 1) + 1 : part[j] = cells[2 * i + 1 + j - 1]
    BY <1>2, <1>3, SubSeqProperties
<1> HIDE DEF part
<1>5. /\ part[1] = cells[2 * i + 1]
      /\ Len(part) = IF 2 * i + 2 <= Len(cells) THEN 2 ELSE 1
    BY <1>1, <1>2, <1>4
<1>6. 2 * i + 2 <= Len(cells) => part[2] = cells[2 * i + 2]
    BY <1>1, <1>2, <1>4
<1>7. /\ Padded(part) \in Seq(Cell) /\ Len(Padded(part)) = 2
      /\ Padded(part)[1] = cells[2 * i + 1]
      /\ 2 * i + 2 <= Len(cells) => Padded(part)[2] = cells[2 * i + 2]
    <2>1. CASE 2 * i + 2 <= Len(cells)
        <3>1. Len(part) = 2 /\ Padded(part) = part
            BY <2>1, <1>5 DEF Padded
        <3> QED
            BY <2>1, <3>1, <1>4, <1>5, <1>6
    <2>2. CASE ~ (2 * i + 2 <= Len(cells))
        <3>1. Len(part) = 1 /\ Padded(part) = Append(part, <<"pad", 0, 0>>)
            BY <2>2, <1>5 DEF Padded
        <3> DEFINE w == Append(part, <<"pad", 0, 0>>)
        <3>2. w \in Seq(Cell) /\ Len(w) = Len(part) + 1 /\ \A j \in 1 .. Len(part) : w[j] = part[j]
            BY <1>4, PadCell, AppendProperties
        <3> HIDE DEF w
        <3>3. w \in Seq(Cell) /\ Len(w) = 2 /\ w[1] = part[1]
            BY <3>1, <3>2
        <3> QED
            BY <2>2, <3>1, <3>3, <1>5 DEF w
    <2> QED
        BY <2>1, <2>2
<1>8. Later(cells, i) = [kind |-> "CF", total |-> 0, cells |-> Padded(part)]
    BY DEF Later, part, last
<1>9. [kind |-> "CF", total |-> 0, cells |-> Padded(part)] \in Wire
    BY <1>7 DEF Wire, Frame
<1> QED
    BY <1>7, <1>8, <1>9

(* send_isotp: one frame, or a first frame and a consecutive frame for     *)
(* every two cells that follow.                                            *)
LEMMA FramesShape ==
    ASSUME NEW cells \in Answer
    PROVE  LET F == FramesOf(cells)
               n == Len(cells)
               m == (n - 1) \div 2
           IN  /\ F \in Seq(Wire)
               /\ n <= 2 => F = <<[kind |-> "SF", total |-> 0, cells |-> cells]>>
               /\ n > 2 => /\ Len(F) = m + 1
                           /\ F[1] = [kind |-> "FF", total |-> n, cells |-> SubSeq(cells, 1, 2)]
                           /\ \A i \in 1 .. m : F[i + 1] = Later(cells, i)
<1> DEFINE n == Len(cells)
           m == (n - 1) \div 2
<1>1. cells \in Seq(Cell) /\ n \in Nat /\ n >= 1
    BY LenProperties DEF Answer
<1>2. m \in Nat /\ 2 * m + 1 <= n /\ n <= 2 * m + 2
    BY <1>1, Halves
<1>3. ASSUME n <= 2
      PROVE  FramesOf(cells) \in Seq(Wire)
             /\ FramesOf(cells) = <<[kind |-> "SF", total |-> 0, cells |-> cells]>>
    <2> DEFINE f == [kind |-> "SF", total |-> 0, cells |-> cells]
    <2>1. FramesOf(cells) = <<f>>
        BY <1>3 DEF FramesOf
    <2>2. f \in Wire
        BY <1>1, <1>3 DEF Wire, Frame, Answer
    <2> HIDE DEF f
    <2>3. <<f>> \in Seq(Wire)
        BY <2>2
    <2> QED
        BY <2>1, <2>3 DEF f
<1>4. ASSUME n > 2
      PROVE  /\ FramesOf(cells) \in Seq(Wire) /\ Len(FramesOf(cells)) = m + 1
             /\ FramesOf(cells)[1] = [kind |-> "FF", total |-> n, cells |-> SubSeq(cells, 1, 2)]
             /\ \A i \in 1 .. m : FramesOf(cells)[i + 1] = Later(cells, i)
    <2> DEFINE first == [kind |-> "FF", total |-> n, cells |-> SubSeq(cells, 1, 2)]
               later == [i \in 1 .. m |-> Later(cells, i)]
    <2>1. FramesOf(cells) = <<first>> \o later
        BY <1>4 DEF FramesOf, Later
    <2>2. /\ SubSeq(cells, 1, 2) \in Seq(Cell) /\ Len(SubSeq(cells, 1, 2)) = 2
          /\ \A i \in 1 .. 2 : SubSeq(cells, 1, 2)[i] = cells[i]
        <3>1. 2 \in Nat /\ 2 <= Len(cells)
            BY <1>1, <1>4
        <3> QED
            BY <3>1, <1>1, PrefixProperties
    <2>3. first \in Wire
        <3>1. SubSeq(cells, 1, 2)[1] = cells[1] /\ cells[1][1] \in Heads
            BY <2>2, <1>4 DEF Answer
        <3>2. n >= 3
            BY <1>1, <1>4
        <3> HIDE DEF n
        <3> QED
            BY <2>2, <3>1, <3>2, <1>1 DEF Wire, Frame
    <2>4. \A i \in 1 .. m : Later(cells, i) \in Wire
        <3> SUFFICES ASSUME NEW i \in 1 .. m PROVE Later(cells, i) \in Wire
            OBVIOUS
        <3>1. i \in Nat /\ i >= 1 /\ 2 * i + 1 <= Len(cells)
            BY <1>1, <1>2
        <3> QED
            BY <3>1, <1>1, LaterFrame
    <2> HIDE DEF m, n
    <2>5. later \in [1 .. m -> Wire] /\ DOMAIN later = 1 .. m
        BY <2>4
    <2>6. later \in Seq(Wire)
        BY <2>5, <1>2, SeqDef
    <2>7. Len(later) = m /\ \A i \in 1 .. m : later[i] = Later(cells, i)
        BY <2>5, <2>6, <1>2, LenProperties
    <2> HIDE DEF first, later
    <2>8. <<first>> \in Seq(Wire) /\ Len(<<first>>) = 1 /\ <<first>>[1] = first
        BY <2>3, SingleSeq
    <2>9. /\ <<first>> \o later \in Seq(Wire)
          /\ Len(<<first>> \o later) = 1 + m
          /\ \A i \in 1 .. 1 + m :
                 (<<first>> \o later)[i] = IF i <= 1 THEN <<first>>[i] ELSE later[i - 1]
        BY <2>6, <2>7, <2>8, ConcatProperties
    <2> DEFINE v == <<first>> \o later
    <2>10. /\ v \in Seq(Wire) /\ Len(v) = 1 + m
           /\ \A i \in 1 .. 1 + m : v[i] = IF i <= 1 THEN <<first>>[i] ELSE later[i - 1]
        BY <2>9
    <2> HIDE DEF v
    <2>11. v[1] = first /\ Len(v) = m + 1
        BY <2>8, <2>10, <1>2
    <2>12. ASSUME NEW i \in 1 .. m PROVE v[i + 1] = Later(cells, i)
        <3>1. i + 1 \in 1 .. 1 + m /\ ~ (i + 1 <= 1) /\ i + 1 - 1 = i
            BY <1>2
        <3> QED
            BY <3>1, <2>10, <2>7
    <2> QED
        BY <2>1, <2>10, <2>11, <2>12 DEF v, first
<1> QED
    BY <1>1, <1>3, <1>4 DEF n, m

-----------------------------------------------------------------------------
(* Types.  A frame that a thread finds in its inbox is one of a reply, the *)
(* buffer of isotp_recv begins with a first frame, and what the CRC field  *)
(* is taken for is never the CRC of no file.                               *)

Asked == ({"SF"} \X (Command \ {"READ", "OPEN"}) \X {0}) \cup ({"SF"} \X {"OPEN"} \X File)
         \cup ({"FF"} \X {"READ"} \X Nat) \cup ({"CF"} \X {"READ"} \X {0})

Gathered == {r \in [buf : Seq(Cell), total : Nat] :
               r = NoMessage \/ (r.total >= 3 /\ Len(r.buf) >= 1 /\ r.buf[1][1] \in Heads)}

Copied == [size : Nat, crc : Nat \cup {-2}, bytes : Seq(Cell)]

Quiet == \A t \in Thread \ Running : inbox[t] = <<>>

ThreadTypes ==
    /\ connected \in BOOLEAN
    /\ op \in [Thread -> Command \cup Outcome \cup {"none"}]
    /\ phase \in [Thread -> {"flow", "recv"}]
    /\ rcv \in [Thread -> Gathered]
    /\ file \in [Thread -> Copied]
    /\ inbox \in [Thread -> Seq(Wire)] /\ Quiet
    /\ toCard \in Seq(Asked)

CardTypes ==
    /\ session \in BOOLEAN
    /\ open \in File \cup {0}
    /\ reading \in Nat \cup {-1}

Typed ==
    /\ ThreadTypes /\ CardTypes
    /\ wanted \in [Thread -> File \cup {0}]
    /\ losses \in 0 .. MaxLosses
    /\ alone \subseteq Thread

LEMMA NoMessageGathered == NoMessage \in Gathered
<1>1. NoMessage.buf \in Seq(Cell)
    BY DEF NoMessage
<1> QED
    BY <1>1 DEF Gathered, NoMessage

LEMMA TypedIsTypeOK == Typed => TypeOK
<1> SUFFICES ASSUME Typed PROVE TypeOK
    OBVIOUS
<1>1. Seq(Wire) \subseteq Seq(Frame)
    <2>1. Wire \subseteq Frame
        BY DEF Wire
    <2> QED
        BY <2>1
<1>2. Seq(Asked) \subseteq Seq(Request)
    <2>1. Asked \subseteq Request
        BY ExtractionAssumption DEF Asked, Request, Command
    <2> QED
        BY <2>1
<1>3. rcv \in [Thread -> [buf : Seq(Cell), total : Nat]]
    BY DEF Typed, ThreadTypes, Gathered
<1>4. file \in [Thread -> [size : Nat, crc : Int, bytes : Seq(Cell)]]
    BY DEF Typed, ThreadTypes, Copied
<1>5. inbox \in [Thread -> Seq(Frame)] /\ toCard \in Seq(Request)
    BY <1>1, <1>2 DEF Typed, ThreadTypes
<1> QED
    BY <1>3, <1>4, <1>5 DEF Typed, ThreadTypes, CardTypes, Quiet, TypeOK

LEMMA GotoTyped ==
    ASSUME Typed, NEW t \in Thread, NEW command \in Command, NEW offset \in Nat,
           NEW frames \in Seq(Wire), command = "OPEN" => wanted[t] \in File,
           Goto(t, command, offset, frames)
    PROVE  /\ op' \in [Thread -> Command \cup Outcome \cup {"none"}]
           /\ phase' \in [Thread -> {"flow", "recv"}]
           /\ rcv' \in [Thread -> Gathered]
           /\ inbox' \in [Thread -> Seq(Wire)] /\ Quiet'
           /\ toCard' \in Seq(Asked)
           /\ op'[t] = command /\ \A u \in Thread \ {t} : op'[u] = op[u]
<1> USE DEF Goto, Typed, ThreadTypes
<1>1. FirstFrame(t, command, offset) \in Asked
    BY DEF FirstFrame, Asked
<1>2. toCard' \in Seq(Asked)
    BY <1>1, AppendProperties
<1>3. op' \in [Thread -> Command \cup Outcome \cup {"none"}]
      /\ op'[t] = command /\ \A u \in Thread \ {t} : op'[u] = op[u]
    OBVIOUS
<1>4. inbox' \in [Thread -> Seq(Wire)] /\ \A u \in Thread \ {t} : inbox'[u] = inbox[u]
    OBVIOUS
<1>5. Quiet'
    BY <1>3, <1>4 DEF Quiet, Running
<1>6. rcv' \in [Thread -> Gathered]
    BY NoMessageGathered
<1>7. phase' \in [Thread -> {"flow", "recv"}]
    OBVIOUS
<1> QED
    BY <1>2, <1>3, <1>4, <1>5, <1>6, <1>7

LEMMA EndTyped ==
    ASSUME Typed, NEW t \in Thread, NEW outcome \in Outcome, End(t, outcome)
    PROVE  /\ op' \in [Thread -> Command \cup Outcome \cup {"none"}]
           /\ phase' \in [Thread -> {"flow", "recv"}]
           /\ rcv' \in [Thread -> Gathered]
           /\ inbox' \in [Thread -> Seq(Wire)] /\ Quiet'
           /\ toCard' \in Seq(Asked)
           /\ op'[t] = outcome /\ \A u \in Thread \ {t} : op'[u] = op[u]
<1> USE DEF End, Typed, ThreadTypes
<1>1. op' \in [Thread -> Command \cup Outcome \cup {"none"}]
      /\ op'[t] = outcome /\ \A u \in Thread \ {t} : op'[u] = op[u]
    OBVIOUS
<1>2. inbox' \in [Thread -> Seq(Wire)] /\ inbox'[t] = <<>>
      /\ \A u \in Thread \ {t} : inbox'[u] = inbox[u]
    <2>1. <<>> \in Seq(Wire)
        OBVIOUS
    <2> QED
        BY <2>1
<1>3. Quiet'
    BY <1>1, <1>2 DEF Quiet, Running
<1>4. rcv' \in [Thread -> Gathered]
    BY NoMessageGathered
<1>5. phase' \in [Thread -> {"flow", "recv"}]
    OBVIOUS
<1> QED
    BY <1>1, <1>2, <1>3, <1>4, <1>5

-----------------------------------------------------------------------------
(* What isotp_recv makes of the next frame.                                *)

LEMMA CutCells ==
    ASSUME NEW cells \in Seq(Cell), NEW rem \in Int
    PROVE  Cut(cells, rem) \in Seq(Cell)
<1>1. Len(cells) \in Nat /\ \A i \in 1 .. Len(cells) : cells[i] \in Cell
    BY LenProperties, ElementOfSeq
<1> DEFINE k == IF rem > Len(cells) THEN Len(cells) ELSE IF rem >= 0 THEN rem ELSE Len(cells) + rem
<1>2. k \in Int /\ k <= Len(cells)
    BY <1>1
<1>3. Cut(cells, rem) = SubSeq(cells, 1, k)
    BY DEF Cut
<1> HIDE DEF k
<1>4. \A i \in 1 .. k : cells[i] \in Cell
    BY <1>1, <1>2
<1> QED
    BY <1>2, <1>3, <1>4, SubSeqProperties

Extended(t) ==
    rcv[t].buf \o Cut(Head(inbox[t]).cells, rcv[t].total - Len(rcv[t].buf))

(* A reply as run sees it: it has an opcode, and one that opens with that  *)
(* of OPEN was put together from several frames.                           *)
Sound(reply) == /\ reply \in Seq(Cell) /\ Len(reply) >= 1
                /\ reply[1][1] \in {"OPEN", "LIST"} => Len(reply) >= 3

LEMMA Heard ==
    ASSUME Typed, NEW t \in Thread, inbox[t] # <<>>
    PROVE  LET f == Head(inbox[t]) IN
           /\ f \in Wire /\ Tail(inbox[t]) \in Seq(Wire)
           /\ f.kind \in {"SF", "FF", "CF", "FC"} /\ f.cells \in Seq(Cell)
           /\ f.kind = "SF" => Sound(f.cells)
           /\ rcv[t].buf \in Seq(Cell) /\ rcv[t].total \in Nat
           /\ Extended(t) \in Seq(Cell)
           /\ rcv[t].total > 0 => /\ rcv[t].total >= 3 /\ Len(Extended(t)) >= 1
                                  /\ Extended(t)[1][1] \in Heads
           /\ rcv[t].total > 0 /\ Len(Extended(t)) >= rcv[t].total => Sound(Extended(t))
           /\ f.kind = "FF" => [buf |-> rcv[t].buf \o f.cells, total |-> f.total] \in Gathered
           /\ f.kind = "CF" /\ rcv[t].total > 0 =>
                 [buf |-> Extended(t), total |-> rcv[t].total] \in Gathered
<1> DEFINE f == Head(inbox[t])
           r == rcv[t]
<1>1. f \in Wire /\ Tail(inbox[t]) \in Seq(Wire)
    BY FirstOfSeq DEF Typed, ThreadTypes
<1>2. f.kind \in {"SF", "FF", "CF", "FC"} /\ f.cells \in Seq(Cell) /\ f.total \in Nat
    BY <1>1 DEF Wire, Frame
<1>3. f.kind = "SF" => Sound(f.cells)
    BY <1>1, <1>2 DEF Wire, Sound
<1>4. /\ r.buf \in Seq(Cell) /\ r.total \in Nat
      /\ r = NoMessage \/ (r.total >= 3 /\ Len(r.buf) >= 1 /\ r.buf[1][1] \in Heads)
    BY DEF Typed, ThreadTypes, Gathered
<1>5. Len(r.buf) \in Nat /\ r.total - Len(r.buf) \in Int
    BY <1>4, LenProperties
<1> HIDE DEF f, r
<1> DEFINE c == Cut(f.cells, r.total - Len(r.buf))
<1>6. c \in Seq(Cell) /\ Len(c) \in Nat
    BY <1>2, <1>5, CutCells, LenProperties
<1> HIDE DEF c
<1>7. Extended(t) = r.buf \o c
    BY DEF Extended, f, r, c
<1>8. /\ r.buf \o c \in Seq(Cell) /\ Len(r.buf \o c) = Len(r.buf) + Len(c)
      /\ \A i \in 1 .. Len(r.buf) + Len(c) :
             (r.buf \o c)[i] = IF i <= Len(r.buf) THEN r.buf[i] ELSE c[i - Len(r.buf)]
    BY <1>4, <1>6, ConcatProperties
<1> DEFINE e == Extended(t)
<1>9. /\ e \in Seq(Cell) /\ Len(e) = Len(r.buf) + Len(c)
      /\ Len(r.buf) >= 1 => e[1] = r.buf[1]
    BY <1>5, <1>6, <1>7, <1>8
<1> HIDE DEF e
<1>10. r.total > 0 => r.total >= 3 /\ Len(r.buf) >= 1 /\ Len(e) >= 1 /\ e[1][1] \in Heads
    BY <1>4, <1>5, <1>6, <1>9 DEF NoMessage
<1>11. r.total > 0 /\ Len(e) >= r.total => Sound(e)
    BY <1>4, <1>5, <1>6, <1>9, <1>10 DEF Sound
<1>12. ASSUME f.kind = "FF"
       PROVE  [buf |-> r.buf \o f.cells, total |-> f.total] \in Gathered
    <2>1. f.total >= 3 /\ Len(f.cells) = 2 /\ f.cells[1][1] \in Heads
        BY <1>1, <1>12 DEF Wire
    <2> DEFINE w == r.buf \o f.cells
    <2>2. /\ w \in Seq(Cell) /\ Len(w) = Len(r.buf) + Len(f.cells)
          /\ \A i \in 1 .. Len(r.buf) + Len(f.cells) :
                 w[i] = IF i <= Len(r.buf) THEN r.buf[i] ELSE f.cells[i - Len(r.buf)]
        BY <1>2, <1>4, ConcatProperties
    <2> HIDE DEF w
    <2>3. Len(w) >= 1 /\ w[1] = IF Len(r.buf) >= 1 THEN r.buf[1] ELSE f.cells[1]
        BY <2>1, <2>2, <1>5
    <2>4. w[1][1] \in Heads
        BY <2>1, <2>3, <1>4 DEF NoMessage
    <2>5. [buf |-> w, total |-> f.total] \in Gathered
        BY <2>1, <2>2, <2>3, <2>4, <1>2 DEF Gathered
    <2> QED
        BY <2>5 DEF w
<1>13. r.total > 0 => [buf |-> e, total |-> r.total] \in Gathered
    BY <1>4, <1>9, <1>10 DEF Gathered
<1> QED
    BY <1>1, <1>2, <1>3, <1>4, <1>9, <1>10, <1>11, <1>12, <1>13 DEF f, r, e

(* Every case of what run does with a reply.                               *)
LEMMA ReplyTyped ==
    ASSUME Typed, NEW t \in Running, NEW reply, Sound(reply), NEW frames \in Seq(Wire),
           Reply(t, reply, frames)
    PROVE  /\ ThreadTypes'
           /\ op'[t] # "none" /\ \A u \in Thread \ {t} : op'[u] = op[u] /\ file'[u] = file[u]
<1>0. t \in Thread /\ op[t] \in Command
    BY DEF Running
<1>1. CASE Refused(t, reply)
    <2>1. End(t, "failed") /\ "failed" \in Outcome /\ UNCHANGED <<connected, file>>
        BY <1>1 DEF Refused, Outcome
    <2> QED
        BY <2>1, <1>0, EndTyped DEF ThreadTypes, Typed
<1>2. CASE Connected(t, reply, frames)
    <2> DEFINE c == IF wanted[t] = 0 THEN "LIST" ELSE "OPEN"
    <2>1. Goto(t, c, 0, frames) /\ c \in Command /\ UNCHANGED <<connected, file>>
        BY <1>2 DEF Connected, Command
    <2>2. (c = "OPEN" => wanted[t] \in File) /\ c # "saved" /\ c # "none"
        BY <1>0 DEF Typed
    <2> HIDE DEF c
    <2> QED
        BY <2>1, <2>2, <1>0, GotoTyped DEF ThreadTypes, Typed
<1>3. CASE Opened(t, reply, frames)
    <2> DEFINE c == IF reply[2][2] = 0 THEN "CLOSE" ELSE "READ"
               fl == [size |-> reply[2][2], crc |-> CrcField(reply[3]), bytes |-> <<>>]
    <2>1. /\ Goto(t, c, 0, frames) /\ c \in Command /\ c # "OPEN" /\ connected' = connected
          /\ file' = [file EXCEPT ![t] = fl]
        BY <1>3 DEF Opened, Command
    <2>2. reply[2] \in Cell /\ reply[3] \in Cell
        <3>1. Len(reply) >= 3 /\ reply \in Seq(Cell)
            BY <1>3 DEF Opened, Answers, Sound
        <3>2. 2 \in 1 .. Len(reply) /\ 3 \in 1 .. Len(reply)
            BY <3>1, LenProperties
        <3> QED
            BY <3>1, <3>2, ElementOfSeq
    <2>3. fl \in Copied
        <3>1. reply[2][2] \in Nat /\ CrcField(reply[3]) \in Nat \cup {-2}
            BY <2>2, CellParts DEF CrcField
        <3> QED
            BY <3>1 DEF Copied
    <2>4. c # "saved" /\ c # "none"
        OBVIOUS
    <2> HIDE DEF c, fl
    <2>5. file' \in [Thread -> Copied] /\ \A u \in Thread \ {t} : file'[u] = file[u]
        BY <2>1, <2>3, <1>0 DEF Typed, ThreadTypes
    <2> QED
        BY <2>1, <2>4, <2>5, <1>0, GotoTyped DEF ThreadTypes, Typed
<1>4. CASE ReadChunk(t, reply, frames)
    <2> DEFINE c == IF AtEnd(file[t], Tail(reply)) THEN "CLOSE" ELSE "READ"
               offset == Len(file'[t].bytes)
    <2>1. /\ Goto(t, c, offset, frames) /\ c \in Command /\ c # "OPEN" /\ connected' = connected
          /\ file' = [file EXCEPT ![t].bytes = @ \o Tail(reply)]
        BY <1>4 DEF ReadChunk, Command
    <2>2. Tail(reply) \in Seq(Cell)
        BY EmptySeq, FirstOfSeq DEF Sound
    <2>3. file[t].bytes \in Seq(Cell)
        BY <1>0 DEF Typed, ThreadTypes, Copied
    <2>4. file[t].bytes \o Tail(reply) \in Seq(Cell)
        BY <2>2, <2>3, ConcatProperties
    <2>5. file' \in [Thread -> Copied] /\ \A u \in Thread \ {t} : file'[u] = file[u]
        <3>1. [file[t] EXCEPT !.bytes = file[t].bytes \o Tail(reply)] \in Copied
            BY <2>4, <1>0 DEF Typed, ThreadTypes, Copied
        <3>2. file' = [file EXCEPT ![t] = [file[t] EXCEPT !.bytes = file[t].bytes \o Tail(reply)]]
            BY <2>1, <1>0 DEF Typed, ThreadTypes
        <3> QED
            BY <3>1, <3>2, <1>0 DEF Typed, ThreadTypes
    <2>6. offset \in Nat
        <3>1. file'[t].bytes \in Seq(Cell)
            BY <2>5, <1>0 DEF Copied
        <3> QED
            BY <3>1, LenProperties
    <2>7. c # "saved" /\ c # "none"
        OBVIOUS
    <2> HIDE DEF c, offset
    <2> QED
        BY <2>1, <2>5, <2>6, <2>7, <1>0, GotoTyped DEF ThreadTypes, Typed
<1>5. CASE Closing(t, reply, frames)
    <2>1. Goto(t, "DISCONNECT", 0, frames) /\ "DISCONNECT" \in Command
          /\ UNCHANGED <<connected, file>>
        BY <1>5 DEF Closing, Command
    <2> QED
        BY <2>1, <1>0, GotoTyped DEF ThreadTypes, Typed
<1>6. CASE Listed(t)
    <2>1. End(t, "listed") /\ "listed" \in Outcome /\ connected' = TRUE /\ UNCHANGED file
        BY <1>6 DEF Listed, Outcome
    <2> QED
        BY <2>1, <1>0, EndTyped DEF ThreadTypes, Typed
<1>7. CASE Verified(t)
    <2> DEFINE o == IF Intact(file[t]) THEN "saved" ELSE "failed"
    <2>1. End(t, o) /\ o \in Outcome /\ UNCHANGED <<connected, file>>
        BY <1>7 DEF Verified, Outcome
    <2>2. o # "none"
        OBVIOUS
    <2> HIDE DEF o
    <2> QED
        BY <2>1, <2>2, <1>0, EndTyped DEF ThreadTypes, Typed
<1> QED
    BY <1>1, <1>2, <1>3, <1>4, <1>5, <1>6, <1>7 DEF Reply

-----------------------------------------------------------------------------
(* One step at a time.                                                     *)

LEMMA InitTyped == Init => Typed
<1> SUFFICES ASSUME Init PROVE Typed
    OBVIOUS
<1> USE DEF Init
<1>1. NoFile \in Copied /\ <<>> \in Seq(Wire) /\ <<>> \in Seq(Asked)
    BY DEF NoFile, Copied
<1>2. ThreadTypes
    BY <1>1, NoMessageGathered DEF ThreadTypes, Quiet
<1>3. 0 \in 0 .. MaxLosses
    BY ExtractionAssumption
<1> QED
    BY <1>2, <1>3 DEF Typed, CardTypes

LEMMA TypedStart ==
    ASSUME Typed, NEW t \in Thread, NEW f \in File \cup {0}, Start(t, f)
    PROVE  Typed'
<1> USE DEF Start
<1>1. <<>> \in Seq(Wire) /\ "CONNECT" \in Command /\ 0 \in Nat
    BY DEF Command
<1>2. Goto(t, "CONNECT", 0, <<>>) /\ UNCHANGED <<connected, file>>
    OBVIOUS
<1>3. ThreadTypes' /\ op'[t] = "CONNECT" /\ \A u \in Thread \ {t} : op'[u] = op[u]
    BY <1>1, <1>2, GotoTyped DEF Typed, ThreadTypes
<1>4. wanted' \in [Thread -> File \cup {0}] /\ alone' \subseteq Thread
    BY DEF Typed
<1> QED
    BY <1>3, <1>4 DEF Typed, CardTypes, cardVars

LEMMA TypedAwaitFlow ==
    ASSUME Typed, NEW t \in Thread, AwaitFlow(t)
    PROVE  Typed'
<1> USE DEF AwaitFlow
<1>1. Tail(inbox[t]) \in Seq(Wire)
    BY FirstOfSeq DEF Typed, ThreadTypes
<1>2. inbox' \in [Thread -> Seq(Wire)] /\ \A u \in Thread \ {t} : inbox'[u] = inbox[u]
    BY <1>1 DEF Typed, ThreadTypes
<1>3. t \in Running
    BY DEF Typed, ThreadTypes, Quiet
<1>4. Quiet'
    BY <1>2, <1>3 DEF Typed, ThreadTypes, Quiet, Running
<1>5. toCard' \in Seq(Asked) /\ phase' \in [Thread -> {"flow", "recv"}]
    <2>1. <<"CF", "READ", 0>> \in Asked
        BY DEF Asked
    <2>2. Append(toCard, <<"CF", "READ", 0>>) \in Seq(Asked)
        BY <2>1, AppendProperties DEF Typed, ThreadTypes
    <2> QED
        BY <2>2 DEF Typed, ThreadTypes
<1> QED
    BY <1>2, <1>4, <1>5 DEF Typed, ThreadTypes, CardTypes, cardVars

LEMMA TypedTimeOut ==
    ASSUME Typed, NEW t \in Thread, TimeOut(t)
    PROVE  Typed'
<1>1. End(t, "failed") /\ "failed" \in Outcome /\ UNCHANGED <<connected, file>>
    BY DEF TimeOut, Outcome
<1>2. ThreadTypes' /\ op'[t] = "failed" /\ \A u \in Thread \ {t} : op'[u] = op[u]
    BY <1>1, EndTyped DEF Typed, ThreadTypes
<1> QED
    BY <1>2 DEF TimeOut, Typed, CardTypes, cardVars

(* The three things isotp_recv does: hand over a reply of one frame, hand  *)
(* over one put together, or go on.                                        *)
GoesOn(t) ==
    LET f == Head(inbox[t]) IN
    /\ \/ f.kind = "FF" /\ rcv' = [rcv EXCEPT ![t] = [buf |-> @.buf \o f.cells, total |-> f.total]]
       \/ /\ f.kind = "CF" /\ rcv[t].total > 0 /\ Len(Extended(t)) < rcv[t].total
          /\ rcv' = [rcv EXCEPT ![t].buf = Extended(t)]
       \/ (f.kind = "FC" \/ (f.kind = "CF" /\ rcv[t].total = 0)) /\ UNCHANGED rcv
    /\ inbox' = [inbox EXCEPT ![t] = Tail(inbox[t])]
    /\ UNCHANGED <<connected, op, phase, file, toCard>>

LEMMA ReceiveCases ==
    ASSUME NEW t \in Thread, Receive(t)
    PROVE  /\ t \in Running /\ phase[t] = "recv" /\ inbox[t] # <<>>
           /\ \/ Head(inbox[t]).kind = "SF" /\ Reply(t, Head(inbox[t]).cells, Tail(inbox[t]))
              \/ /\ Head(inbox[t]).kind = "CF"
                 /\ rcv[t].total > 0 /\ Len(Extended(t)) >= rcv[t].total
                 /\ Reply(t, Extended(t), Tail(inbox[t]))
              \/ GoesOn(t)
           /\ UNCHANGED <<wanted, cardVars, losses, alone>>
BY DEF Receive, GoesOn, Extended

LEMMA TypedReceive ==
    ASSUME Typed, NEW t \in Thread, Receive(t)
    PROVE  Typed'
<1>0. t \in Running /\ inbox[t] # <<>> /\ UNCHANGED <<wanted, cardVars, losses, alone>>
    BY ReceiveCases
<1>1. ASSUME NEW reply, Sound(reply), Reply(t, reply, Tail(inbox[t]))
      PROVE  ThreadTypes'
    <2>1. Tail(inbox[t]) \in Seq(Wire)
        BY <1>0, Heard
    <2> QED
        BY <2>1, <1>0, <1>1, ReplyTyped
<1>2. CASE Head(inbox[t]).kind = "SF" /\ Reply(t, Head(inbox[t]).cells, Tail(inbox[t]))
    <2>1. Sound(Head(inbox[t]).cells)
        BY <1>0, <1>2, Heard
    <2> QED
        BY <2>1, <1>0, <1>1, <1>2 DEF Typed, CardTypes, cardVars
<1>3. CASE /\ rcv[t].total > 0 /\ Len(Extended(t)) >= rcv[t].total
           /\ Reply(t, Extended(t), Tail(inbox[t]))
    <2>1. Sound(Extended(t))
        BY <1>0, <1>3, Heard
    <2> QED
        BY <2>1, <1>0, <1>1, <1>3 DEF Typed, CardTypes, cardVars
<1>4. CASE GoesOn(t)
    <2> USE DEF GoesOn
    <2>1. rcv' \in [Thread -> Gathered]
        <3>1. rcv \in [Thread -> Gathered]
            BY DEF Typed, ThreadTypes
        <3>2. CASE UNCHANGED rcv
            BY <3>1, <3>2
        <3>3. CASE /\ Head(inbox[t]).kind = "FF"
                   /\ rcv' = [rcv EXCEPT ![t] = [buf |-> @.buf \o Head(inbox[t]).cells,
                                                 total |-> Head(inbox[t]).total]]
            BY <3>1, <3>3, <1>0, Heard
        <3>4. CASE /\ Head(inbox[t]).kind = "CF" /\ rcv[t].total > 0
                   /\ rcv' = [rcv EXCEPT ![t].buf = Extended(t)]
            <4>1. [rcv[t] EXCEPT !.buf = Extended(t)] = [buf |-> Extended(t), total |-> rcv[t].total]
                BY <3>1 DEF Gathered
            <4>2. rcv' = [rcv EXCEPT ![t] = [rcv[t] EXCEPT !.buf = Extended(t)]]
                BY <3>1, <3>4
            <4> QED
                BY <3>1, <3>4, <4>1, <4>2, <1>0, Heard
        <3> QED
            BY <3>2, <3>3, <3>4, <1>4
    <2>2. inbox' \in [Thread -> Seq(Wire)] /\ \A u \in Thread \ {t} : inbox'[u] = inbox[u]
        BY <1>0, <1>4, Heard DEF Typed, ThreadTypes
    <2>3. Quiet'
        BY <2>2, <1>0, <1>4 DEF Typed, ThreadTypes, Quiet, Running
    <2> QED
        BY <2>1, <2>2, <2>3, <1>0, <1>4 DEF Typed, ThreadTypes, CardTypes, cardVars
<1> QED
    BY <1>2, <1>3, <1>4, ReceiveCases

LEMMA ContentBytes ==
    ASSUME NEW f \in File
    PROVE  /\ Content(f) \in Seq(Cell) /\ Len(Content(f)) = Size[f] /\ Size[f] \in Nat
           /\ \A i \in 1 .. Size[f] : Content(f)[i] = <<"byte", f, i>>
<1>1. Size[f] \in Nat /\ f \in Nat
    BY ExtractionAssumption
<1>2. \A i \in 1 .. Size[f] : <<"byte", f, i>> \in Cell
    BY <1>1 DEF Cell
<1> DEFINE s == Content(f)
<1>3. s \in [1 .. Size[f] -> Cell] /\ DOMAIN s = 1 .. Size[f]
    BY <1>2 DEF Content
<1>4. s \in Seq(Cell)
    BY <1>1, <1>3, SeqDef
<1>5. Len(s) = Size[f]
    BY <1>1, <1>3, <1>4, LenProperties
<1> QED
    BY <1>1, <1>4, <1>5 DEF Content

(* A block begins at the offset asked for, and ends with the file.         *)
LEMMA ChunkBytes ==
    ASSUME NEW f \in File, NEW offset \in Nat
    PROVE  LET c == Chunk(f, offset)
               last == IF offset + BlockSize < Size[f] THEN offset + BlockSize ELSE Size[f]
           IN  /\ c \in Seq(Cell) /\ last \in Nat /\ last <= Size[f]
               /\ Len(c) = IF offset < last THEN last - offset ELSE 0
               /\ \A i \in 1 .. last - offset : c[i] = Content(f)[offset + i]
<1> DEFINE last == IF offset + BlockSize < Size[f] THEN offset + BlockSize ELSE Size[f]
           s == Content(f)
           c == SubSeq(s, offset + 1, last)
<1>1. s \in Seq(Cell) /\ Len(s) = Size[f] /\ Size[f] \in Nat
    BY ContentBytes
<1>2. last \in Nat /\ last <= Size[f]
    BY <1>1, ExtractionAssumption
<1>3. Chunk(f, offset) = c
    BY DEF Chunk
<1> HIDE DEF last, s
<1>4. \A i \in offset + 1 .. last : s[i] \in Cell
    BY <1>1, <1>2, ElementOfSeq
<1>5. /\ c \in Seq(Cell)
      /\ Len(c) = IF offset + 1 <= last THEN last - (offset + 1) + 1 ELSE 0
      /\ \A i \in 1 .. last - (offset + 1) + 1 : c[i] = s[offset + 1 + i - 1]
    BY <1>2, <1>4, SubSeqProperties
<1> HIDE DEF c
<1>6. /\ c \in Seq(Cell) /\ Len(c) = IF offset < last THEN last - offset ELSE 0
      /\ \A i \in 1 .. last - offset : c[i] = s[offset + i]
    BY <1>2, <1>5
<1> QED
    BY <1>2, <1>3, <1>6 DEF last, s

LEMMA ServedIsAnswer ==
    ASSUME Typed, NEW r \in Asked, r[2] = "READ" => reading # -1
    PROVE  Served(r[2], r[3]) \in Answer
<1>1. \A command \in Command : Ack(command) \in Cell
    BY DEF Ack, Cell
<1>2. CASE r[2] = "LIST"
    BY <1>2, <1>1 DEF Served, Answer, Ack, Heads, Cell, Command
<1>3. CASE r[2] = "OPEN"
    <2>1. r[3] \in File /\ Size[r[3]] \in Nat /\ r[3] \in Nat
        BY <1>3, ExtractionAssumption DEF Asked
    <2>2. /\ <<"size", Size[r[3]], 0>> \in Cell
          /\ <<"crc", IF r[3] \in NoCrc THEN 0 ELSE r[3], 0>> \in Cell
        BY <2>1 DEF Cell
    <2> QED
        BY <1>3, <1>1, <2>2 DEF Served, Answer, Ack, Heads, Command
<1>4. CASE r[2] = "READ" /\ open = 0
    BY <1>4 DEF Served, Answer, Cell
<1>5. CASE r[2] = "READ" /\ open # 0
    <2>1. open \in File /\ reading \in Nat
        BY <1>5 DEF Typed, CardTypes
    <2> DEFINE c == Chunk(open, reading)
               a == <<Ack("READ")>>
    <2>2. c \in Seq(Cell) /\ Len(c) \in Nat
        BY <2>1, ChunkBytes, LenProperties
    <2>3. a \in Seq(Cell) /\ Len(a) = 1 /\ a[1] = Ack("READ")
        BY <1>1 DEF Command
    <2>4. Served(r[2], r[3]) = a \o c
        BY <1>5 DEF Served
    <2> HIDE DEF a, c
    <2> DEFINE w == a \o c
    <2>5. /\ w \in Seq(Cell) /\ Len(w) = Len(a) + Len(c)
          /\ \A i \in 1 .. Len(a) + Len(c) : w[i] = IF i <= Len(a) THEN a[i] ELSE c[i - Len(a)]
        BY <2>2, <2>3, ConcatProperties
    <2> HIDE DEF w
    <2>6. w \in Seq(Cell) /\ Len(w) >= 1 /\ w[1][1] = "READ"
        BY <2>2, <2>3, <2>5 DEF Ack
    <2>7. w \in Answer
        BY <2>6 DEF Answer, Heads
    <2> QED
        BY <2>4, <2>7 DEF w
<1>6. CASE r[2] \notin {"LIST", "OPEN", "READ"}
    <2>1. r[2] \in Command
        BY DEF Asked, Command
    <2> QED
        BY <1>6, <1>1, <2>1 DEF Served, Answer, Ack
<1> QED
    BY <1>2, <1>3, <1>4, <1>5, <1>6

(* The threads on the bus get the same frames.                             *)
LEMMA HearTyped ==
    ASSUME Typed, NEW frames \in Seq(Wire), Hear(frames), op' = op
    PROVE  inbox' \in [Thread -> Seq(Wire)] /\ Quiet'
<1>1. \A t \in Thread : inbox[t] \o frames \in Seq(Wire)
    BY ConcatProperties DEF Typed, ThreadTypes
<1>2. <<>> \in Seq(Wire)
    OBVIOUS
<1>3. inbox' \in [Thread -> Seq(Wire)]
    BY <1>1, <1>2 DEF Hear
<1>4. Quiet'
    BY DEF Hear, Quiet, Running
<1> QED
    BY <1>3, <1>4

LEMMA TypedServe ==
    ASSUME Typed, Serve
    PROVE  Typed'
<1> DEFINE r == Head(toCard)
<1>1. r \in Asked /\ toCard' \in Seq(Asked)
    BY FirstOfSeq DEF Serve, Typed, ThreadTypes
<1>2. UNCHANGED <<connected, wanted, op, phase, rcv, file, losses, alone>>
    BY DEF Serve, threadVars
<1>3. /\ reading' = CASE r[1] = "FF" -> r[3] [] r[1] = "CF" -> -1 [] OTHER -> reading
      /\ session' = IF r[2] = "CONNECT" THEN TRUE ELSE session /\ r[2] # "DISCONNECT"
      /\ open' = CASE session /\ r[2] = "OPEN" -> r[3]
                   [] session /\ r[2] = "CLOSE" -> 0
                   [] OTHER -> open
      /\ \/ r[1] = "FF" /\ Hear(<<Flow>>)
         \/ Executes(r) /\ Hear(FramesOf(Served(r[2], r[3])))
         \/ UNCHANGED inbox
    BY DEF Serve
<1> HIDE DEF r
<1>4. reading' \in Nat \cup {-1}
    <2>1. r[1] = "FF" => r[3] \in Nat
        BY <1>1 DEF Asked
    <2> QED
        BY <1>3, <2>1 DEF Typed, CardTypes
<1>5. open' \in File \cup {0}
    <2>1. r[2] = "OPEN" => r[3] \in File
        BY <1>1 DEF Asked
    <2> QED
        BY <1>3, <2>1 DEF Typed, CardTypes
<1>6. session' \in BOOLEAN
    BY <1>3 DEF Typed, CardTypes
<1>7. inbox' \in [Thread -> Seq(Wire)] /\ Quiet'
    <2>1. CASE Hear(<<Flow>>)
        <3>1. Flow \in Wire /\ <<Flow>> \in Seq(Wire)
            BY DEF Flow, Wire, Frame
        <3> QED
            BY <2>1, <3>1, <1>2, HearTyped
    <2>2. CASE Executes(r) /\ Hear(FramesOf(Served(r[2], r[3])))
        <3>1. r[2] = "READ" => reading # -1
            BY <2>2, <1>1 DEF Executes, Asked
        <3>2. Served(r[2], r[3]) \in Answer
            BY <3>1, <1>1, ServedIsAnswer
        <3>3. FramesOf(Served(r[2], r[3])) \in Seq(Wire)
            BY <3>2, FramesShape
        <3> QED
            BY <2>2, <3>3, <1>2, HearTyped
    <2>3. CASE UNCHANGED inbox
        BY <2>3, <1>2 DEF Typed, ThreadTypes, Quiet, Running
    <2> QED
        BY <2>1, <2>2, <2>3, <1>3
<1> QED
    BY <1>1, <1>2, <1>4, <1>5, <1>6, <1>7 DEF Typed, ThreadTypes, CardTypes

LEMMA TypedLose ==
    ASSUME Typed, Lose
    PROVE  Typed'
<1>1. UNCHANGED <<connected, wanted, op, phase, rcv, file, session, open, reading, alone>>
      /\ losses < MaxLosses /\ losses' = losses + 1
    BY DEF Lose, threadVars, cardVars
<1>2. losses' \in 0 .. MaxLosses
    BY <1>1, ExtractionAssumption DEF Typed
<1>3. toCard' \in Seq(Asked) /\ inbox' \in [Thread -> Seq(Wire)] /\ Quiet'
    <2>1. CASE toCard # <<>> /\ toCard' = Tail(toCard) /\ UNCHANGED inbox
        BY <2>1, <1>1, FirstOfSeq DEF Typed, ThreadTypes, Quiet, Running
    <2>2. CASE /\ \E t \in Thread : inbox[t] # <<>> /\ inbox' = [inbox EXCEPT ![t] = Tail(@)]
               /\ UNCHANGED toCard
        <3>1. PICK t \in Thread : inbox[t] # <<>> /\ inbox' = [inbox EXCEPT ![t] = Tail(@)]
            BY <2>2
        <3>2. t \in Running /\ Tail(inbox[t]) \in Seq(Wire)
            BY <3>1, FirstOfSeq DEF Typed, ThreadTypes, Quiet
        <3>3. inbox' \in [Thread -> Seq(Wire)] /\ \A u \in Thread \ {t} : inbox'[u] = inbox[u]
            BY <3>1, <3>2 DEF Typed, ThreadTypes
        <3> QED
            BY <2>2, <3>2, <3>3, <1>1 DEF Typed, ThreadTypes, Quiet, Running
    <2> QED
        BY <2>1, <2>2 DEF Lose
<1> QED
    BY <1>1, <1>2, <1>3 DEF Typed, ThreadTypes, CardTypes

LEMMA NextTyped == Typed /\ [Next]_vars => Typed'
<1> SUFFICES ASSUME Typed, [Next]_vars PROVE Typed'
    OBVIOUS
<1>1. CASE UNCHANGED vars
    BY <1>1 DEF vars, Typed, ThreadTypes, CardTypes, Quiet, Running
<1>2. ASSUME NEW t \in Thread, List(t) \/ Download(t) \/ Step(t)
      PROVE  Typed'
    BY <1>2, TypedStart, TypedAwaitFlow, TypedReceive, TypedTimeOut DEF List, Download, Step
<1>3. CASE Serve
    BY <1>3, TypedServe
<1>4. CASE Lose
    BY <1>4, TypedLose
<1> QED
    BY <1>1, <1>2, <1>3, <1>4 DEF Next

(* Every variable keeps its type: no reply, however the frames of several  *)
(* were mixed up or lost, makes run or isotp_recv index what is not there. *)
THEOREM TypeCorrect == Spec => []TypeOK
BY InitTyped, NextTyped, TypedIsTypeOK, PTL DEF Spec

-----------------------------------------------------------------------------
(* An extraction that is alone.  It has one command under way at a time;   *)
(* of a command of before, which the card answers first, no reply passes   *)
(* for one of its own but that to a CONNECT.                               *)

Greets(f) == f.kind = "SF" /\ f.cells[1][1] = "CONNECT"
Knock == <<"SF", "CONNECT", 0>>
Ask(t) == <<"SF", "OPEN", wanted[t]>>

OpenReply(f) == <<Ack("OPEN"), <<"size", Size[f], 0>>, <<"crc", IF f \in NoCrc THEN 0 ELSE f, 0>>>>
ReadReply(f, offset) == <<Ack("READ")>> \o Chunk(f, offset)

(* What isotp_recv has of a reply, and what the inbox holds of it.         *)
Coming(r, frames, reply) ==
    LET F == FramesOf(reply)
        n == Len(reply)
    IN  \/ r = NoMessage /\ frames = F
        \/ /\ n > 2 /\ r.total = n
           /\ \E j \in 1 .. (n - 1) \div 2 :
                 /\ r.buf = SubSeq(reply, 1, 2 * j)
                 /\ Len(frames) = Len(F) - j /\ \A i \in 1 .. Len(frames) : frames[i] = F[i + j]

(* A frame of it was lost: what is left does not make up for it.           *)
Broken(r, frames) ==
    /\ \A i \in 1 .. Len(frames) : frames[i].kind = "CF"
    /\ r.total > 0 => Len(r.buf) + 2 * Len(frames) < r.total

(* CONNECT: what the card has yet to answer, or has answered, before it    *)
(* is at most one command; if that is a CONNECT too, nothing else comes.   *)
Knocking(t) ==
    /\ phase[t] = "recv"
    /\ \/ /\ \A i \in 1 .. Len(inbox[t]) : Greets(inbox[t][i])
          /\ \A i \in 1 .. Len(toCard) : toCard[i] = Knock
          /\ Len(inbox[t]) + Len(toCard) <= 2
       \/ /\ \A i \in 1 .. Len(inbox[t]) :
                Greets(inbox[t][i]) => i = Len(inbox[t]) /\ toCard = <<>>
          /\ Len(toCard) <= 2
          /\ \A i \in 1 .. Len(toCard) : toCard[i] = Knock <=> i = Len(toCard)

(* OPEN: not answered yet, or never.                                       *)
Asking(t) ==
    /\ rcv[t] = NoMessage
    /\ \A i \in 1 .. Len(inbox[t]) : Greets(inbox[t][i])
    /\ toCard # <<>> =>
          /\ Len(inbox[t]) + Len(toCard) <= 2 /\ toCard[Len(toCard)] = Ask(t)
          /\ \A i \in 1 .. Len(toCard) - 1 : toCard[i] = Knock

(* OPEN: answered.                                                         *)
Told(t) ==
    /\ toCard = <<>> /\ open = wanted[t]
    /\ \/ Coming(rcv[t], inbox[t], OpenReply(wanted[t]))
       \/ Broken(rcv[t], inbox[t])
       \/ /\ rcv[t] = NoMessage /\ inbox[t] # <<>> /\ Greets(Head(inbox[t]))
          /\ Tail(inbox[t]) = FramesOf(OpenReply(wanted[t]))

Opening(t) ==
    /\ wanted[t] # 0 /\ phase[t] = "recv"
    /\ Asking(t) \/ Told(t)

(* READ: the file is open, and what is there of it is right so far.        *)
Halfway(t) ==
    /\ wanted[t] # 0 /\ open = wanted[t] /\ file[t].size = Size[wanted[t]]
    /\ Len(file[t].bytes) < Size[wanted[t]]
    /\ file[t].bytes = SubSeq(Content(wanted[t]), 1, Len(file[t].bytes))

Fetching(t) ==
    LET offset == Len(file[t].bytes) IN
    \/ toCard = <<>> /\ inbox[t] = <<>>
    \/ /\ phase[t] = "flow" /\ rcv[t] = NoMessage
       /\ \/ toCard = <<<<"FF", "READ", offset>>>> /\ inbox[t] = <<>>
          \/ toCard = <<>> /\ reading = offset /\ inbox[t] = <<Flow>>
    \/ /\ phase[t] = "recv" /\ rcv[t] = NoMessage
       /\ toCard = <<<<"CF", "READ", 0>>>> /\ reading = offset /\ inbox[t] = <<>>
    \/ /\ phase[t] = "recv" /\ toCard = <<>>
       /\ Coming(rcv[t], inbox[t], ReadReply(wanted[t], offset)) \/ Broken(rcv[t], inbox[t])

Reading(t) == Halfway(t) /\ Fetching(t)

Solo(t) ==
    /\ Running = {t}
    /\ op[t] = "CONNECT" => Knocking(t)
    /\ op[t] = "LIST" => wanted[t] = 0
    /\ op[t] = "OPEN" => Opening(t)
    /\ op[t] = "READ" => Reading(t)
    /\ op[t] \in {"CLOSE", "DISCONNECT"} /\ wanted[t] # 0 => file[t].bytes = Content(wanted[t])

Faithful ==
    \A t \in alone : /\ op[t] # "none"
                     /\ op[t] \in Command => Solo(t)
                     /\ op[t] = "saved" => file[t].bytes = Content(wanted[t])

LEMMA TailProperties ==
    ASSUME NEW S, NEW s \in Seq(S), s # <<>>
    PROVE  /\ Len(s) \in Nat /\ Len(Tail(s)) = Len(s) - 1 /\ Head(s) = s[1]
           /\ \A i \in 1 .. Len(Tail(s)) : i + 1 \in 1 .. Len(s) /\ Tail(s)[i] = s[i + 1]
           /\ 1 \in 1 .. Len(s)
           /\ Len(s) = 1 => Tail(s) = <<>>
<1>1. /\ Len(s) \in Nat /\ Len(s) >= 1 /\ Head(s) = s[1]
      /\ Tail(s) \in Seq(S) /\ Len(Tail(s)) = Len(s) - 1
      /\ \A i \in 1 .. Len(s) - 1 : Tail(s)[i] = s[i + 1]
    BY FirstOfSeq
<1> DEFINE w == Tail(s)
<1>2. w \in Seq(S) /\ (Len(s) = 1 => Len(w) = 0)
    BY <1>1
<1> HIDE DEF w
<1>3. Len(s) = 1 => w = <<>>
    BY <1>2, EmptySeq
<1> QED
    BY <1>1, <1>3 DEF w

(* chunk[:min(7, rem)] with something left to come.                        *)
LEMMA CutProperties ==
    ASSUME NEW cells \in Seq(Cell), Len(cells) = 2, NEW rem \in Int
    PROVE  /\ Cut(cells, rem) \in Seq(Cell) /\ Len(Cut(cells, rem)) <= 2
           /\ Len(Cut(cells, rem)) \in Nat
           /\ rem >= 2 => Len(Cut(cells, rem)) = 2
           /\ rem = 1 => Len(Cut(cells, rem)) = 1
           /\ \A i \in 1 .. Len(Cut(cells, rem)) : Cut(cells, rem)[i] = cells[i]
<1> DEFINE k == IF rem > Len(cells) THEN Len(cells) ELSE IF rem >= 0 THEN rem ELSE Len(cells) + rem
           c == SubSeq(cells, 1, k)
<1>1. k \in Int /\ k <= 2 /\ (rem >= 2 => k = 2) /\ (rem = 1 => k = 1)
    OBVIOUS
<1>2. Cut(cells, rem) = c
    BY DEF Cut
<1> HIDE DEF k
<1>3. \A i \in 1 .. k : cells[i] \in Cell
    BY <1>1, ElementOfSeq
<1>4. /\ c \in Seq(Cell) /\ Len(c) = IF 1 <= k THEN k - 1 + 1 ELSE 0
      /\ \A i \in 1 .. k - 1 + 1 : c[i] = cells[1 + i - 1]
    BY <1>1, <1>3, SubSeqProperties
<1> HIDE DEF c
<1>5. Len(c) <= 2 /\ Len(c) \in Nat /\ (rem >= 2 => Len(c) = 2) /\ (rem = 1 => Len(c) = 1)
    BY <1>1, <1>4
<1>6. \A i \in 1 .. Len(c) : c[i] = cells[i]
    BY <1>1, <1>4
<1> QED
    BY <1>2, <1>4, <1>5, <1>6

Joined(r, f) == r.buf \o Cut(f.cells, r.total - Len(r.buf))

LEMMA ComingStep ==
    ASSUME NEW reply \in Answer, NEW r \in Gathered, NEW frames \in Seq(Wire), frames # <<>>,
           Coming(r, frames, reply)
    PROVE  LET f == Head(frames)
               e == Joined(r, f)
           IN  \/ f.kind = "SF" /\ f.cells = reply /\ Tail(frames) = <<>>
               \/ /\ f.kind = "FF"
                  /\ Coming([buf |-> r.buf \o f.cells, total |-> f.total], Tail(frames), reply)
               \/ /\ f.kind = "CF" /\ r.total > 0 /\ Len(e) < r.total
                  /\ Coming([buf |-> e, total |-> r.total], Tail(frames), reply)
               \/ /\ f.kind = "CF" /\ r.total > 0 /\ Len(e) >= r.total
                  /\ e = reply /\ Tail(frames) = <<>>
<1> DEFINE F == FramesOf(reply)
           n == Len(reply)
           m == (n - 1) \div 2
           f == Head(frames)
           e == Joined(r, f)
<1>1. reply \in Seq(Cell) /\ n \in Nat /\ n >= 1
    BY LenProperties DEF Answer
<1>2. m \in Nat /\ 2 * m + 1 <= n /\ n <= 2 * m + 2
    BY <1>1, Halves
<1>3. /\ F \in Seq(Wire)
      /\ n <= 2 => F = <<[kind |-> "SF", total |-> 0, cells |-> reply]>>
      /\ n > 2 => /\ Len(F) = m + 1
                  /\ F[1] = [kind |-> "FF", total |-> n, cells |-> SubSeq(reply, 1, 2)]
                  /\ \A i \in 1 .. m : F[i + 1] = Later(reply, i)
    BY FramesShape
<1>4. /\ Len(frames) \in Nat /\ Len(Tail(frames)) = Len(frames) - 1 /\ f = frames[1]
      /\ \A i \in 1 .. Len(Tail(frames)) :
            i + 1 \in 1 .. Len(frames) /\ Tail(frames)[i] = frames[i + 1]
      /\ 1 \in 1 .. Len(frames)
      /\ Len(frames) = 1 => Tail(frames) = <<>>
    BY TailProperties
<1>5. ASSUME r = NoMessage, frames = F, n <= 2
      PROVE  f.kind = "SF" /\ f.cells = reply /\ Tail(frames) = <<>>
    <2> DEFINE sf == [kind |-> "SF", total |-> 0, cells |-> reply]
    <2>1. frames = <<sf>>
        BY <1>3, <1>5
    <2> HIDE DEF F, f
    <2>2. f = sf /\ Len(frames) = 1
        BY <2>1, <1>4
    <2> QED
        BY <2>2, <1>4
<1>6. ASSUME r = NoMessage, frames = F, n > 2
      PROVE  /\ f.kind = "FF"
             /\ Coming([buf |-> r.buf \o f.cells, total |-> f.total], Tail(frames), reply)
    <2>1. f = [kind |-> "FF", total |-> n, cells |-> SubSeq(reply, 1, 2)]
        BY <1>3, <1>4, <1>6
    <2>2. r.buf \o f.cells = SubSeq(reply, 1, 2)
        <3>1. 2 \in Nat /\ 2 <= Len(reply)
            BY <1>1, <1>6
        <3>2. SubSeq(reply, 1, 2) \in Seq(Cell)
            BY <3>1, <1>1, PrefixProperties
        <3> QED
            BY <3>2, <2>1, <1>6, ConcatEmptySeq DEF NoMessage
    <2>3. 1 \in 1 .. m /\ 2 * 1 = 2
        BY <1>1, <1>2, <1>6
    <2>4. Len(Tail(frames)) = Len(F) - 1
          /\ \A i \in 1 .. Len(Tail(frames)) : Tail(frames)[i] = F[i + 1]
        BY <1>4, <1>6
    <2> HIDE DEF F, n, m, f
    <2>5. [buf |-> r.buf \o f.cells, total |-> f.total] = [buf |-> SubSeq(reply, 1, 2), total |-> n]
        BY <2>1, <2>2
    <2>6. Coming([buf |-> SubSeq(reply, 1, 2), total |-> n], Tail(frames), reply)
        BY <2>3, <2>4, <1>6 DEF Coming, F, n, m
    <2> QED
        BY <2>1, <2>5, <2>6
<1>7. ASSUME n > 2, r.total = n, NEW j \in 1 .. m, r.buf = SubSeq(reply, 1, 2 * j),
             Len(frames) = Len(F) - j, \A i \in 1 .. Len(frames) : frames[i] = F[i + j]
      PROVE  \/ /\ f.kind = "CF" /\ r.total > 0 /\ Len(e) < r.total
                /\ Coming([buf |-> e, total |-> r.total], Tail(frames), reply)
             \/ /\ f.kind = "CF" /\ r.total > 0 /\ Len(e) >= r.total
                /\ e = reply /\ Tail(frames) = <<>>
    <2> DEFINE rem == n - 2 * j
               c == Cut(f.cells, rem)
               b == IF 2 * j + 2 <= n THEN 2 * j + 2 ELSE 2 * j + 1
    <2>0. j \in Nat /\ j >= 1 /\ 2 * j + 1 <= n /\ 2 * j \in Nat /\ rem \in Int /\ rem >= 1
        BY <1>1, <1>2
    <2>1. f = Later(reply, j)
        <3>1. f = F[1 + j] /\ 1 + j = j + 1
            BY <1>4, <1>7
        <3> QED
            BY <3>1, <1>3, <1>7
    <2>2. /\ f.kind = "CF" /\ f.cells \in Seq(Cell) /\ Len(f.cells) = 2
          /\ f.cells[1] = reply[2 * j + 1]
          /\ 2 * j + 2 <= n => f.cells[2] = reply[2 * j + 2]
        <3> HIDE DEF f, m
        <3>1. LET g == Later(reply, j) IN
              /\ g.kind = "CF" /\ g.cells \in Seq(Cell) /\ Len(g.cells) = 2
              /\ g.cells[1] = reply[2 * j + 1]
              /\ 2 * j + 2 <= n => g.cells[2] = reply[2 * j + 2]
            BY <2>0, <1>1, LaterFrame
        <3> QED
            BY <3>1, <2>1
    <2> HIDE DEF F, n, m, f
    <2>3. Len(r.buf) = 2 * j /\ r.buf \in Seq(Cell)
        <3>1. 2 * j <= Len(reply)
            BY <2>0, <1>1 DEF n
        <3> QED
            BY <3>1, <2>0, <1>1, <1>7, PrefixProperties
    <2>4. e = r.buf \o c
        BY <2>3, <1>7 DEF e, Joined
    <2> HIDE DEF e
    <2>5. /\ c \in Seq(Cell) /\ Len(c) \in Nat
          /\ rem >= 2 => Len(c) = 2
          /\ rem = 1 => Len(c) = 1
          /\ \A i \in 1 .. Len(c) : c[i] = f.cells[i]
        BY <2>0, <2>2, CutProperties
    <2> HIDE DEF c
    <2>6. b \in Nat /\ 2 * j <= b /\ b <= n /\ Len(c) = b - 2 * j
        <3>1. CASE 2 * j + 2 <= n
            <4>1. rem >= 2 /\ b = 2 * j + 2
                BY <3>1, <2>0, <1>1
            <4> HIDE DEF rem, b
            <4>2. Len(c) = 2
                BY <4>1, <2>5
            <4> QED
                BY <3>1, <4>1, <4>2, <2>0
        <3>2. CASE ~ (2 * j + 2 <= n)
            <4>1. rem = 1 /\ b = 2 * j + 1
                BY <3>2, <2>0, <1>1
            <4> HIDE DEF rem, b
            <4>2. Len(c) = 1
                BY <4>1, <2>5
            <4> QED
                BY <4>1, <4>2, <2>0
        <3> QED
            BY <3>1, <3>2
    <2>7. \A i \in 1 .. b - 2 * j : c[i] = reply[2 * j + i]
        <3> SUFFICES ASSUME NEW i \in 1 .. b - 2 * j PROVE c[i] = reply[2 * j + i]
            OBVIOUS
        <3>1. c[i] = f.cells[i]
            BY <2>5, <2>6
        <3>2. CASE i = 1
            BY <3>1, <3>2, <2>2
        <3>3. CASE i # 1
            <4>1. i = 2 /\ 2 * j + 2 <= n
                BY <3>3, <2>0, <1>1
            <4> QED
                BY <3>1, <4>1, <2>2
        <3> QED
            BY <3>2, <3>3
    <2>8. e = SubSeq(reply, 1, b)
        BY <2>0, <2>4, <2>5, <2>6, <2>7, <1>1, <1>7, PrefixGrows DEF n
    <2>9. Len(e) = b
        BY <2>6, <2>8, <1>1, PrefixProperties DEF n
    <2>10. CASE b < n
        <3>1. b = 2 * (j + 1) /\ j + 1 \in 1 .. m
            BY <2>0, <2>10, <1>1, <1>2
        <3>2. Len(Tail(frames)) = Len(F) - (j + 1)
            <4>1. Len(F) \in Nat
                BY <1>3, LenProperties
            <4> QED
                BY <4>1, <2>0, <1>4, <1>7
        <3>3. \A i \in 1 .. Len(Tail(frames)) : Tail(frames)[i] = F[i + (j + 1)]
            <4> SUFFICES ASSUME NEW i \in 1 .. Len(Tail(frames))
                         PROVE  Tail(frames)[i] = F[i + (j + 1)]
                OBVIOUS
            <4>1. i + 1 \in 1 .. Len(frames) /\ Tail(frames)[i] = frames[i + 1]
                BY <1>4
            <4>2. frames[i + 1] = F[i + 1 + j] /\ i + 1 + j = i + (j + 1)
                BY <4>1, <2>0, <1>7
            <4> QED
                BY <4>1, <4>2
        <3>4. Coming([buf |-> e, total |-> n], Tail(frames), reply)
            BY <3>1, <3>2, <3>3, <2>8, <1>7 DEF Coming, F, n, m
        <3> QED
            BY <3>4, <2>2, <2>9, <2>10, <1>1, <1>7
    <2>11. CASE ~ (b < n)
        <3>1. b = n /\ j = m
            BY <2>0, <2>6, <2>11, <1>1, <1>2
        <3>2. e = reply
            BY <3>1, <2>8, <1>1, SubSeqFull DEF n
        <3>3. Len(frames) = 1
            BY <3>1, <1>2, <1>3, <1>7
        <3> QED
            BY <3>1, <3>2, <3>3, <2>2, <2>9, <1>1, <1>4, <1>7
    <2> QED
        BY <2>10, <2>11
<1>8. \/ r = NoMessage /\ frames = F
      \/ /\ n > 2 /\ r.total = n
         /\ \E j \in 1 .. m :
               /\ r.buf = SubSeq(reply, 1, 2 * j)
               /\ Len(frames) = Len(F) - j /\ \A i \in 1 .. Len(frames) : frames[i] = F[i + j]
    BY DEF Coming
<1> HIDE DEF F, n, m, f, e
<1>9. n <= 2 \/ n > 2
    BY <1>1
<1>10. \/ f.kind = "SF" /\ f.cells = reply /\ Tail(frames) = <<>>
       \/ /\ f.kind = "FF"
          /\ Coming([buf |-> r.buf \o f.cells, total |-> f.total], Tail(frames), reply)
       \/ /\ f.kind = "CF" /\ r.total > 0 /\ Len(e) < r.total
          /\ Coming([buf |-> e, total |-> r.total], Tail(frames), reply)
       \/ /\ f.kind = "CF" /\ r.total > 0 /\ Len(e) >= r.total
          /\ e = reply /\ Tail(frames) = <<>>
    BY <1>5, <1>6, <1>7, <1>8, <1>9
<1> QED
    BY <1>10 DEF f, e

(* A frame that is lost is not made up for.                                *)
LEMMA ComingLost ==
    ASSUME NEW reply \in Answer, NEW r \in Gathered, NEW frames \in Seq(Wire), frames # <<>>,
           Coming(r, frames, reply)
    PROVE  Broken(r, Tail(frames))
<1> DEFINE F == FramesOf(reply)
           n == Len(reply)
           m == (n - 1) \div 2
           w == Tail(frames)
<1>1. reply \in Seq(Cell) /\ n \in Nat /\ n >= 1
    BY LenProperties DEF Answer
<1>2. m \in Nat /\ 2 * m + 1 <= n /\ n <= 2 * m + 2
    BY <1>1, Halves
<1>3. /\ F \in Seq(Wire)
      /\ n <= 2 => F = <<[kind |-> "SF", total |-> 0, cells |-> reply]>>
      /\ n > 2 => Len(F) = m + 1 /\ \A i \in 1 .. m : F[i + 1] = Later(reply, i)
    BY FramesShape
<1>4. \A i \in 1 .. m : Later(reply, i).kind = "CF"
    BY DEF Later
<1>5. /\ Len(frames) \in Nat /\ Len(w) = Len(frames) - 1
      /\ \A i \in 1 .. Len(w) : i + 1 \in 1 .. Len(frames) /\ w[i] = frames[i + 1]
      /\ Len(frames) = 1 => w = <<>>
    BY TailProperties
<1>6. CASE r = NoMessage /\ frames = F /\ n <= 2
    <2> DEFINE sf == [kind |-> "SF", total |-> 0, cells |-> reply]
    <2>1. frames = <<sf>>
        BY <1>3, <1>6
    <2> HIDE DEF F, w, sf
    <2>2. Len(frames) = 1
        BY <2>1
    <2>3. w = <<>>
        BY <2>2, <1>5
    <2> QED
        BY <2>3, <1>6 DEF Broken, NoMessage, w
<1>7. CASE r = NoMessage /\ frames = F /\ n > 2
    <2> HIDE DEF F, w, m
    <2>1. Len(w) = m
        BY <1>2, <1>3, <1>5, <1>7
    <2>2. \A i \in 1 .. Len(w) : w[i].kind = "CF"
        BY <2>1, <1>3, <1>4, <1>5, <1>7
    <2> QED
        BY <2>2, <1>7 DEF Broken, NoMessage, w
<1>8. ASSUME n > 2, r.total = n, NEW j \in 1 .. m, r.buf = SubSeq(reply, 1, 2 * j),
             Len(frames) = Len(F) - j, \A i \in 1 .. Len(frames) : frames[i] = F[i + j]
      PROVE  Broken(r, w)
    <2> HIDE DEF F, w, m, n
    <2>1. j \in Nat /\ 2 * j \in Nat /\ 2 * j <= n
        BY <1>1, <1>2
    <2>2. Len(r.buf) = 2 * j
        BY <2>1, <1>1, <1>8, PrefixProperties DEF n
    <2>3. Len(w) = m - j /\ Len(frames) = m - j + 1
        BY <2>1, <1>2, <1>3, <1>5, <1>8
    <2>4. Len(r.buf) + 2 * Len(w) < r.total
        BY <2>1, <2>2, <2>3, <1>1, <1>2, <1>8
    <2>5. ASSUME NEW i \in 1 .. Len(w) PROVE w[i].kind = "CF"
        <3>1. w[i] = frames[i + 1] /\ i + 1 \in 1 .. Len(frames)
            BY <1>5
        <3>2. frames[i + 1] = F[i + 1 + j]
            BY <3>1, <1>8
        <3>3. i + j \in 1 .. m /\ i + 1 + j = (i + j) + 1
            BY <2>1, <2>3, <1>2
        <3>4. F[(i + j) + 1] = Later(reply, i + j)
            BY <3>3, <1>3, <1>8
        <3> QED
            BY <3>1, <3>2, <3>3, <3>4, <1>4
    <2> QED
        BY <2>4, <2>5 DEF Broken, w
<1>9. \/ r = NoMessage /\ frames = F
      \/ /\ n > 2 /\ r.total = n
         /\ \E j \in 1 .. m :
               /\ r.buf = SubSeq(reply, 1, 2 * j)
               /\ Len(frames) = Len(F) - j /\ \A i \in 1 .. Len(frames) : frames[i] = F[i + j]
    BY DEF Coming
<1> HIDE DEF F, w, m, n
<1>10. n <= 2 \/ n > 2
    BY <1>1
<1>11. Broken(r, w)
    BY <1>6, <1>7, <1>8, <1>9, <1>10 DEF w
<1> QED
    BY <1>11 DEF w

LEMMA BrokenStep ==
    ASSUME NEW r \in Gathered, NEW frames \in Seq(Wire), frames # <<>>, Broken(r, frames)
    PROVE  LET f == Head(frames)
               e == Joined(r, f)
           IN  /\ f.kind = "CF" /\ Broken(r, Tail(frames))
               /\ r.total > 0 => /\ Len(e) < r.total
                                 /\ Broken([buf |-> e, total |-> r.total], Tail(frames))
<1> DEFINE w == Tail(frames)
           f == Head(frames)
           e == Joined(r, f)
           c == Cut(f.cells, r.total - Len(r.buf))
<1>1. /\ Len(frames) \in Nat /\ Len(w) = Len(frames) - 1 /\ f = frames[1]
      /\ \A i \in 1 .. Len(w) : i + 1 \in 1 .. Len(frames) /\ w[i] = frames[i + 1]
      /\ 1 \in 1 .. Len(frames)
    BY TailProperties
<1>2. r.buf \in Seq(Cell) /\ r.total \in Nat /\ Len(r.buf) \in Nat
    BY LenProperties DEF Gathered
<1>3. f.kind = "CF" /\ f \in Wire /\ \A i \in 1 .. Len(w) : w[i].kind = "CF"
    BY <1>1, ElementOfSeq DEF Broken
<1>4. f.cells \in Seq(Cell) /\ Len(f.cells) = 2
    BY <1>3 DEF Wire, Frame
<1>5. r.total > 0 => Len(r.buf) + 2 * Len(frames) < r.total
    BY DEF Broken
<1> HIDE DEF w, f
<1>6. c \in Seq(Cell) /\ Len(c) \in Nat /\ Len(c) <= 2
    <2>1. r.total - Len(r.buf) \in Int
        BY <1>2
    <2> QED
        BY <2>1, <1>4, CutProperties
<1>7. e = r.buf \o c
    BY DEF e, Joined
<1> HIDE DEF c, e
<1>8. Len(e) = Len(r.buf) + Len(c)
    BY <1>2, <1>6, <1>7, ConcatProperties
<1> DEFINE a == Len(r.buf)
           b == Len(c)
           l == Len(frames)
           k == Len(w)
<1>9. a \in Nat /\ b \in Nat /\ b <= 2 /\ l \in Nat /\ l # 0 /\ k = l - 1 /\ r.total \in Nat
    BY <1>1, <1>2, <1>6, EmptySeq
<1>10. (r.total > 0 => a + 2 * l < r.total) /\ Len(e) = a + b
    BY <1>5, <1>8
<1> HIDE DEF a, b, l, k
<1>11. r.total > 0 => a + 2 * k < r.total /\ a + b < r.total /\ a + b + 2 * k < r.total
    BY <1>9, <1>10
<1>12. Broken(r, w)
    BY <1>3, <1>11 DEF Broken, a, k
<1>13. ASSUME r.total > 0
       PROVE  Len(e) < r.total /\ Len(e) + 2 * Len(w) < r.total
    BY <1>10, <1>11, <1>13 DEF k
<1>14. r.total > 0 => Broken([buf |-> e, total |-> r.total], w)
    BY <1>3, <1>13 DEF Broken
<1>15. /\ f.kind = "CF" /\ Broken(r, w)
       /\ r.total > 0 => Len(e) < r.total /\ Broken([buf |-> e, total |-> r.total], w)
    BY <1>3, <1>12, <1>13, <1>14
<1> QED
    BY <1>15 DEF w, f, e

(* isotp_recv hands over that reply, or goes on with it.                   *)
LEMMA Reassembles ==
    ASSUME Typed, NEW t \in Thread, Receive(t), NEW reply \in Answer,
           Coming(rcv[t], inbox[t], reply) \/ Broken(rcv[t], inbox[t])
    PROVE  \/ Reply(t, reply, <<>>)
           \/ /\ UNCHANGED <<op, phase, file, toCard>>
              /\ Coming(rcv'[t], inbox'[t], reply) \/ Broken(rcv'[t], inbox'[t])
<1> DEFINE f == Head(inbox[t])
           w == Tail(inbox[t])
           e == Extended(t)
<1>1. inbox[t] # <<>>
    BY ReceiveCases
<1>2. \/ f.kind = "SF" /\ Reply(t, f.cells, w)
      \/ f.kind = "CF" /\ rcv[t].total > 0 /\ Len(e) >= rcv[t].total /\ Reply(t, e, w)
      \/ GoesOn(t)
    BY ReceiveCases
<1>3. rcv[t] \in Gathered /\ inbox[t] \in Seq(Wire) /\ rcv[t].total \in Nat
    BY DEF Typed, ThreadTypes, Gathered
<1>4. e \in Seq(Cell) /\ Len(e) \in Nat /\ e = Joined(rcv[t], f)
    BY <1>1, Heard, LenProperties DEF Extended, Joined
<1>5. CASE GoesOn(t)
    <2>1. /\ inbox'[t] = w /\ UNCHANGED <<op, phase, file, toCard>>
          /\ f.kind = "FF" => rcv'[t] = [buf |-> rcv[t].buf \o f.cells, total |-> f.total]
          /\ f.kind = "CF" /\ rcv[t].total > 0 => rcv'[t] = [buf |-> e, total |-> rcv[t].total]
                                                 /\ Len(e) < rcv[t].total
          /\ f.kind = "CF" /\ rcv[t].total = 0 => rcv' = rcv
          /\ f.kind # "SF"
        <3>1. /\ inbox'[t] = w /\ UNCHANGED <<op, phase, file, toCard>>
              /\ f.kind # "SF"
              /\ f.kind = "CF" /\ rcv[t].total = 0 => rcv' = rcv
            <4>1. inbox'[t] = w
                BY <1>5 DEF GoesOn, Typed, ThreadTypes
            <4>2. UNCHANGED <<op, phase, file, toCard>> /\ f.kind # "SF"
                BY <1>5 DEF GoesOn
            <4>3. ASSUME f.kind = "CF", rcv[t].total = 0 PROVE rcv' = rcv
                <5>1. f.kind # "FF" /\ ~ (rcv[t].total > 0)
                    BY <4>3
                <5> QED
                    BY <5>1, <1>5 DEF GoesOn
            <4> QED
                BY <4>1, <4>2, <4>3
        <3>2. ASSUME f.kind = "FF"
              PROVE  rcv'[t] = [buf |-> rcv[t].buf \o f.cells, total |-> f.total]
            BY <3>2, <1>5 DEF GoesOn, Typed, ThreadTypes
        <3>3. ASSUME f.kind = "CF", rcv[t].total > 0
              PROVE  rcv'[t] = [buf |-> e, total |-> rcv[t].total] /\ Len(e) < rcv[t].total
            <4>1. Len(e) < rcv[t].total /\ rcv' = [rcv EXCEPT ![t].buf = e]
                <5>1. f.kind # "FF" /\ f.kind # "FC" /\ rcv[t].total # 0
                    BY <3>3, <1>3
                <5> QED
                    BY <5>1, <1>5 DEF GoesOn
            <4>2. [rcv[t] EXCEPT !.buf = e] = [buf |-> e, total |-> rcv[t].total]
                BY <1>3 DEF Gathered
            <4> QED
                BY <4>1, <4>2 DEF Typed, ThreadTypes
        <3> QED
            BY <3>1, <3>2, <3>3
    <2>2. CASE Coming(rcv[t], inbox[t], reply)
        <3>1. \/ f.kind = "SF"
              \/ /\ f.kind = "FF"
                 /\ Coming([buf |-> rcv[t].buf \o f.cells, total |-> f.total], w, reply)
              \/ /\ f.kind = "CF" /\ rcv[t].total > 0 /\ Len(e) < rcv[t].total
                 /\ Coming([buf |-> e, total |-> rcv[t].total], w, reply)
              \/ f.kind = "CF" /\ rcv[t].total > 0 /\ Len(e) >= rcv[t].total
            BY <2>2, <1>1, <1>3, <1>4, ComingStep
        <3> QED
            BY <3>1, <2>1, <1>3, <1>4
    <2>3. CASE Broken(rcv[t], inbox[t])
        <3>1. /\ f.kind = "CF" /\ Broken(rcv[t], w)
              /\ rcv[t].total > 0 => Broken([buf |-> e, total |-> rcv[t].total], w)
            BY <2>3, <1>1, <1>3, <1>4, BrokenStep
        <3>2. rcv[t].total > 0 \/ rcv[t].total = 0
            BY <1>3
        <3> QED
            BY <3>1, <3>2, <2>1
    <2> QED
        BY <2>1, <2>2, <2>3
<1>6. CASE ~ GoesOn(t)
    <2>1. ~ Broken(rcv[t], inbox[t])
        <3>1. SUFFICES ASSUME Broken(rcv[t], inbox[t]) PROVE FALSE
            OBVIOUS
        <3>2. f.kind = "CF" /\ (rcv[t].total > 0 => Len(e) < rcv[t].total)
            BY <3>1, <1>1, <1>3, <1>4, BrokenStep
        <3> QED
            BY <3>2, <1>2, <1>3, <1>4, <1>6
    <2>2. \/ f.kind = "SF" /\ f.cells = reply /\ w = <<>>
          \/ f.kind = "FF"
          \/ f.kind = "CF" /\ Len(e) < rcv[t].total
          \/ f.kind = "CF" /\ e = reply /\ w = <<>>
        BY <2>1, <1>1, <1>3, <1>4, ComingStep
    <2> HIDE DEF f, w, e
    <2>3. \/ f.kind = "SF" /\ Reply(t, f.cells, w)
          \/ f.kind = "CF" /\ Len(e) >= rcv[t].total /\ Reply(t, e, w)
        BY <1>2, <1>6
    <2>4. ~ (Len(e) < rcv[t].total /\ Len(e) >= rcv[t].total)
        BY <1>3, <1>4
    <2>5. Reply(t, reply, <<>>)
        BY <2>2, <2>3, <2>4
    <2> QED
        BY <2>5
<1> QED
    BY <1>5, <1>6

(* What the card answers to an extraction that is alone.                   *)
LEMMA OpenReplyCells ==
    ASSUME NEW f \in File
    PROVE  /\ OpenReply(f) \in Answer /\ OpenReply(f)[1][1] = "OPEN"
           /\ OpenReply(f)[2][2] = Size[f]
<1>1. f \in Nat /\ Size[f] \in Nat
    BY ExtractionAssumption
<1>2. /\ Ack("OPEN") \in Cell /\ <<"size", Size[f], 0>> \in Cell
      /\ <<"crc", IF f \in NoCrc THEN 0 ELSE f, 0>> \in Cell
    BY <1>1 DEF Ack, Cell, Command
<1> QED
    BY <1>2 DEF OpenReply, Answer, Ack, Heads

LEMMA ReadReplyCells ==
    ASSUME NEW f \in File, NEW offset \in Nat
    PROVE  /\ ReadReply(f, offset) \in Answer /\ ReadReply(f, offset)[1][1] = "READ"
           /\ Tail(ReadReply(f, offset)) = Chunk(f, offset)
<1> DEFINE c == Chunk(f, offset)
           a == <<Ack("READ")>>
           w == a \o c
           v == Tail(w)
<1>1. c \in Seq(Cell) /\ Len(c) \in Nat
    BY ChunkBytes, LenProperties
<1>2. a \in Seq(Cell) /\ Len(a) = 1 /\ a[1] = Ack("READ")
    <2>1. Ack("READ") \in Cell
        BY DEF Ack, Cell, Command
    <2> QED
        BY <2>1
<1> HIDE DEF a, c
<1>3. /\ w \in Seq(Cell) /\ Len(w) = Len(a) + Len(c)
      /\ \A i \in 1 .. Len(a) + Len(c) : w[i] = IF i <= Len(a) THEN a[i] ELSE c[i - Len(a)]
    BY <1>1, <1>2, ConcatProperties
<1> HIDE DEF w
<1>4. w \in Seq(Cell) /\ Len(w) = Len(c) + 1 /\ Len(w) >= 1 /\ w # <<>> /\ w[1][1] = "READ"
    BY <1>1, <1>2, <1>3 DEF Ack
<1>5. w \in Answer
    BY <1>4 DEF Answer, Heads
<1>6. v \in Seq(Cell) /\ Len(v) = Len(c) /\ \A i \in 1 .. Len(c) : v[i] = w[i + 1]
    <2>1. Tail(w) \in Seq(Cell) /\ Len(Tail(w)) = Len(w) - 1
          /\ \A i \in 1 .. Len(w) - 1 : Tail(w)[i] = w[i + 1]
        BY <1>4, FirstOfSeq
    <2> QED
        BY <2>1, <1>1, <1>4
<1> HIDE DEF v
<1>7. \A i \in 1 .. Len(v) : v[i] = c[i]
    <2> SUFFICES ASSUME NEW i \in 1 .. Len(c) PROVE v[i] = c[i]
        BY <1>6
    <2>1. i + 1 \in 1 .. Len(a) + Len(c) /\ ~ (i + 1 <= Len(a)) /\ i + 1 - Len(a) = i
        BY <1>1, <1>2
    <2>2. w[i + 1] = c[i + 1 - Len(a)]
        BY <2>1, <1>3
    <2> QED
        BY <2>1, <2>2, <1>6
<1>8. v = c
    BY <1>1, <1>6, <1>7, SeqEqual
<1>9. w \in Answer /\ w[1][1] = "READ" /\ v = c
    BY <1>4, <1>5, <1>8
<1>10. ReadReply(f, offset) = w
    BY DEF ReadReply, w, a, c
<1> QED
    BY <1>9, <1>10 DEF v, c

(* CONNECT is answered by one frame, and no other command by such a one.   *)
LEMMA Greeting ==
    LET g == [kind |-> "SF", total |-> 0, cells |-> <<Ack("CONNECT")>>] IN
    /\ FramesOf(Served("CONNECT", 0)) = <<g>> /\ g \in Wire /\ Greets(g)
<1> DEFINE cells == <<Ack("CONNECT")>>
           g == [kind |-> "SF", total |-> 0, cells |-> cells]
<1>1. Ack("CONNECT") \in Cell /\ Ack("CONNECT")[1] = "CONNECT"
    BY DEF Ack, Cell, Command
<1>2. cells \in Seq(Cell) /\ Len(cells) = 1 /\ cells[1] = Ack("CONNECT")
    BY <1>1
<1>3. Served("CONNECT", 0) = cells
    BY DEF Served
<1> HIDE DEF cells
<1>4. FramesOf(cells) = <<g>>
    BY <1>2 DEF FramesOf
<1>5. g \in Wire
    BY <1>1, <1>2 DEF Wire, Frame
<1>6. Greets(g)
    BY <1>1, <1>2 DEF Greets
<1> QED
    BY <1>3, <1>4, <1>5, <1>6 DEF cells

LEMMA NoGreeting ==
    ASSUME Typed, NEW r \in Asked, r # Knock, r[2] = "READ" => reading # -1
    PROVE  LET F == FramesOf(Served(r[2], r[3])) IN
           F \in Seq(Wire) /\ \A i \in 1 .. Len(F) : ~ Greets(F[i])
<1> DEFINE cells == Served(r[2], r[3])
           F == FramesOf(cells)
           n == Len(cells)
           m == (n - 1) \div 2
<1>1. cells \in Answer
    BY ServedIsAnswer
<1>2. cells \in Seq(Cell) /\ n \in Nat /\ n >= 1
    BY <1>1, LenProperties DEF Answer
<1>3. r[2] \in Command \ {"CONNECT"}
    BY DEF Asked, Knock, Command
<1>4. cells[1][1] # "CONNECT"
    <2>1. CASE r[2] = "READ" /\ open # 0
        <3>1. open \in File /\ reading \in Nat
            BY <2>1 DEF Typed, CardTypes
        <3>2. cells = ReadReply(open, reading)
            BY <2>1 DEF Served, ReadReply
        <3>3. ReadReply(open, reading)[1][1] = "READ"
            BY <3>1, ReadReplyCells
        <3> QED
            BY <3>2, <3>3
    <2>2. CASE ~ (r[2] = "READ" /\ open # 0)
        BY <2>2, <1>3 DEF Served, Ack
    <2> QED
        BY <2>1, <2>2
<1>5. m \in Nat
    BY <1>2, Halves
<1>6. /\ F \in Seq(Wire)
      /\ n <= 2 => F = <<[kind |-> "SF", total |-> 0, cells |-> cells]>>
      /\ n > 2 => /\ Len(F) = m + 1
                  /\ F[1] = [kind |-> "FF", total |-> n, cells |-> SubSeq(cells, 1, 2)]
                  /\ \A i \in 1 .. m : F[i + 1] = Later(cells, i)
    BY <1>1, FramesShape
<1> HIDE DEF cells, F, n, m
<1>7. ASSUME n <= 2, NEW i \in 1 .. Len(F) PROVE ~ Greets(F[i])
    <2> DEFINE sf == [kind |-> "SF", total |-> 0, cells |-> cells]
    <2>1. F = <<sf>> /\ ~ Greets(sf)
        BY <1>4, <1>6, <1>7 DEF Greets
    <2> HIDE DEF sf
    <2>2. i = 1 /\ F[1] = sf
        BY <2>1
    <2> QED
        BY <2>1, <2>2
<1>8. ASSUME n > 2, NEW i \in 1 .. Len(F) PROVE ~ Greets(F[i])
    <2>1. CASE i = 1
        BY <2>1, <1>6, <1>8 DEF Greets
    <2>2. CASE i # 1
        <3>1. i - 1 \in 1 .. m /\ i - 1 + 1 = i
            BY <2>2, <1>5, <1>6, <1>8
        <3>2. F[i] = Later(cells, i - 1)
            BY <3>1, <1>6, <1>8
        <3> QED
            BY <3>2 DEF Greets, Later
    <2> QED
        BY <2>1, <2>2
<1>9. n <= 2 \/ n > 2
    BY <1>2
<1>10. F \in Seq(Wire) /\ \A i \in 1 .. Len(F) : ~ Greets(F[i])
    BY <1>6, <1>7, <1>8, <1>9
<1> QED
    BY <1>10 DEF F, cells

(* No thread but the one that moves is at a command, if either is alone.   *)
LEMMA StepFaithful ==
    ASSUME Typed, Faithful, NEW t \in Thread, t \in Running, wanted' = wanted, alone' = alone,
           \A u \in Thread \ {t} : op'[u] = op[u] /\ file'[u] = file[u],
           op'[t] # "none",
           Solo(t) => /\ op'[t] \in Command => Solo(t)'
                      /\ op'[t] = "saved" => file'[t].bytes = Content(wanted[t])
    PROVE  Faithful'
<1> SUFFICES ASSUME NEW u \in alone
             PROVE  /\ op'[u] # "none"
                    /\ op'[u] \in Command => Solo(u)'
                    /\ op'[u] = "saved" => file'[u].bytes = Content(wanted'[u])
    BY DEF Faithful, Content
<1>1. CASE u = t
    BY <1>1 DEF Faithful, Running
<1>2. CASE u # t
    <2>1. u \in Thread /\ op'[u] = op[u] /\ file'[u] = file[u]
        BY <1>2 DEF Typed
    <2>2. op[u] \notin Command
        BY <1>2 DEF Faithful, Solo
    <2> QED
        BY <2>1, <2>2 DEF Faithful
<1> QED
    BY <1>1, <1>2

LEMMA StillAlone ==
    ASSUME NEW t \in Thread, Running = {t}, \A u \in Thread \ {t} : op'[u] = op[u],
           op'[t] \in Command
    PROVE  Running' = {t}
BY DEF Running

LEMMA GotoThere ==
    ASSUME Typed, NEW t \in Thread, NEW command, NEW offset, NEW frames,
           Goto(t, command, offset, frames)
    PROVE  /\ op'[t] = command /\ rcv'[t] = NoMessage /\ inbox'[t] = frames
           /\ phase'[t] = IF command = "READ" THEN "flow" ELSE "recv"
           /\ toCard' = Append(toCard, FirstFrame(t, command, offset))
BY DEF Goto, Typed, ThreadTypes

LEMMA ReceiveOthers ==
    ASSUME Typed, NEW t \in Thread, Receive(t)
    PROVE  /\ t \in Running /\ op'[t] # "none" /\ wanted' = wanted /\ alone' = alone
           /\ \A u \in Thread \ {t} : op'[u] = op[u] /\ file'[u] = file[u]
<1>1. t \in Running /\ inbox[t] # <<>> /\ UNCHANGED <<wanted, alone>>
    BY ReceiveCases
<1>2. ASSUME NEW reply, Sound(reply), Reply(t, reply, Tail(inbox[t]))
      PROVE  op'[t] # "none" /\ \A u \in Thread \ {t} : op'[u] = op[u] /\ file'[u] = file[u]
    <2>1. Tail(inbox[t]) \in Seq(Wire)
        BY <1>1, Heard
    <2> QED
        BY <2>1, <1>1, <1>2, ReplyTyped
<1>3. CASE Head(inbox[t]).kind = "SF" /\ Reply(t, Head(inbox[t]).cells, Tail(inbox[t]))
    <2>1. Sound(Head(inbox[t]).cells)
        BY <1>1, <1>3, Heard
    <2> QED
        BY <2>1, <1>1, <1>2, <1>3
<1>4. CASE /\ rcv[t].total > 0 /\ Len(Extended(t)) >= rcv[t].total
           /\ Reply(t, Extended(t), Tail(inbox[t]))
    <2>1. Sound(Extended(t))
        BY <1>1, <1>4, Heard
    <2> QED
        BY <2>1, <1>1, <1>2, <1>4
<1>5. CASE GoesOn(t)
    BY <1>1, <1>5 DEF GoesOn, Running, Command
<1> QED
    BY <1>1, <1>3, <1>4, <1>5, ReceiveCases

(* A command that is sent is the last on its way.                          *)
LEMMA Sent ==
    ASSUME Typed, NEW x \in Asked, toCard' = Append(toCard, x)
    PROVE  /\ Len(toCard) \in Nat /\ Len(toCard') = Len(toCard) + 1 /\ toCard' # <<>>
           /\ toCard'[Len(toCard) + 1] = x
           /\ \A i \in 1 .. Len(toCard) : toCard'[i] = toCard[i]
<1>1. toCard \in Seq(Asked)
    BY DEF Typed, ThreadTypes
<1>2. Len(toCard) \in Nat
    BY <1>1, LenProperties
<1> DEFINE w == Append(toCard, x)
<1>3. /\ w \in Seq(Asked) /\ Len(w) = Len(toCard) + 1 /\ w[Len(toCard) + 1] = x
      /\ \A i \in 1 .. Len(toCard) : w[i] = toCard[i]
    BY <1>1, AppendProperties
<1> HIDE DEF w
<1>4. w # <<>>
    BY <1>2, <1>3, EmptySeq
<1> QED
    BY <1>2, <1>3, <1>4 DEF w

LEMMA Requests ==
    ASSUME Typed, NEW t \in Thread
    PROVE  /\ Knock \in Asked
           /\ wanted[t] # 0 => Ask(t) \in Asked
           /\ \A n \in Nat : <<"FF", "READ", n>> \in Asked
           /\ <<"CF", "READ", 0>> \in Asked
BY DEF Typed, Asked, Knock, Ask, Command

LEMMA ReceiveConnect ==
    ASSUME Typed, NEW t \in Thread, Solo(t), op[t] = "CONNECT", Receive(t)
    PROVE  \/ op'[t] = "failed"
           \/ op'[t] = "CONNECT" /\ Knocking(t)'
           \/ op'[t] = "LIST" /\ wanted[t] = 0
           \/ op'[t] = "OPEN" /\ Opening(t)'
<1> DEFINE f == Head(inbox[t])
           w == Tail(inbox[t])
<1>1. /\ inbox[t] # <<>> /\ wanted' = wanted /\ phase[t] = "recv"
      /\ \/ f.kind = "SF" /\ Reply(t, f.cells, w)
         \/ /\ f.kind = "CF" /\ rcv[t].total > 0 /\ Len(Extended(t)) >= rcv[t].total
            /\ Reply(t, Extended(t), w)
         \/ GoesOn(t)
    BY ReceiveCases
<1>2. /\ Len(inbox[t]) \in Nat /\ Len(w) = Len(inbox[t]) - 1 /\ f = inbox[t][1]
      /\ \A i \in 1 .. Len(w) : i + 1 \in 1 .. Len(inbox[t]) /\ w[i] = inbox[t][i + 1]
      /\ 1 \in 1 .. Len(inbox[t])
      /\ Len(inbox[t]) = 1 => w = <<>>
    BY <1>1, TailProperties DEF Typed, ThreadTypes
<1>3. /\ \/ /\ \A i \in 1 .. Len(inbox[t]) : Greets(inbox[t][i])
            /\ \A i \in 1 .. Len(toCard) : toCard[i] = Knock
            /\ Len(inbox[t]) + Len(toCard) <= 2
         \/ /\ \A i \in 1 .. Len(inbox[t]) :
                  Greets(inbox[t][i]) => i = Len(inbox[t]) /\ toCard = <<>>
            /\ Len(toCard) <= 2
            /\ \A i \in 1 .. Len(toCard) : toCard[i] = Knock <=> i = Len(toCard)
    BY DEF Solo, Knocking
<1>4. toCard \in Seq(Asked) /\ Len(toCard) \in Nat
    BY LenProperties DEF Typed, ThreadTypes
<1>5. ASSUME NEW reply, Reply(t, reply, w), ~ Answers(t, reply) PROVE op'[t] = "failed"
    BY <1>5 DEF Reply, Refused, Connected, Opened, ReadChunk, Closing, Listed, Verified, End,
                Typed, ThreadTypes
<1>6. CASE GoesOn(t)
    <2>1. inbox'[t] = w /\ UNCHANGED <<op, phase, toCard>>
        BY <1>6 DEF GoesOn, Typed, ThreadTypes
    <2> HIDE DEF f, w
    <2>2. Knocking(t)'
        <3>1. CASE /\ \A i \in 1 .. Len(inbox[t]) : Greets(inbox[t][i])
                   /\ \A i \in 1 .. Len(toCard) : toCard[i] = Knock
                   /\ Len(inbox[t]) + Len(toCard) <= 2
            <4>1. \A i \in 1 .. Len(w) : Greets(w[i])
                BY <3>1, <1>2
            <4>2. Len(w) + Len(toCard) <= 2
                BY <3>1, <1>2, <1>4
            <4> QED
                BY <3>1, <4>1, <4>2, <2>1, <1>1 DEF Knocking
        <3>2. CASE /\ \A i \in 1 .. Len(inbox[t]) :
                         Greets(inbox[t][i]) => i = Len(inbox[t]) /\ toCard = <<>>
                   /\ Len(toCard) <= 2
                   /\ \A i \in 1 .. Len(toCard) : toCard[i] = Knock <=> i = Len(toCard)
            <4>1. ASSUME NEW i \in 1 .. Len(w), Greets(w[i])
                  PROVE  i = Len(w) /\ toCard = <<>>
                <5>1. i + 1 = Len(inbox[t]) /\ toCard = <<>>
                    BY <3>2, <4>1, <1>2
                <5> QED
                    BY <5>1, <1>2
            <4> QED
                BY <3>2, <4>1, <2>1, <1>1 DEF Knocking
        <3> QED
            BY <3>1, <3>2, <1>3
    <2> QED
        BY <2>1, <2>2
<1>7. CASE f.kind = "CF" /\ rcv[t].total > 0 /\ Reply(t, Extended(t), w)
    <2>1. Extended(t)[1][1] \in Heads
        BY <1>1, <1>7, Heard
    <2>2. ~ Answers(t, Extended(t))
        BY <2>1 DEF Answers, Heads
    <2> QED
        BY <2>2, <1>5, <1>7
<1>8. CASE f.kind = "SF" /\ Reply(t, f.cells, w) /\ ~ Answers(t, f.cells)
    BY <1>5, <1>8
<1>9. CASE f.kind = "SF" /\ Reply(t, f.cells, w) /\ Answers(t, f.cells)
    <2>1. Greets(inbox[t][1])
        BY <1>2, <1>9 DEF Answers, Greets
    <2>2. Goto(t, IF wanted[t] = 0 THEN "LIST" ELSE "OPEN", 0, w)
        BY <1>9 DEF Reply, Refused, Connected, Opened, ReadChunk, Closing, Listed, Verified
    <2>3. CASE wanted[t] = 0
        BY <2>2, <2>3, GotoThere
    <2>4. CASE wanted[t] # 0
        <3>1. Goto(t, "OPEN", 0, w)
            BY <2>2, <2>4
        <3>2. /\ op'[t] = "OPEN" /\ rcv'[t] = NoMessage /\ inbox'[t] = w /\ phase'[t] = "recv"
              /\ toCard' = Append(toCard, FirstFrame(t, "OPEN", 0))
            BY <3>1, GotoThere
        <3>3. toCard' = Append(toCard, Ask(t)) /\ Ask(t) \in Asked
            BY <3>2, <2>4, Requests DEF FirstFrame, Ask
        <3>4. /\ Len(toCard') = Len(toCard) + 1 /\ toCard' # <<>>
              /\ toCard'[Len(toCard) + 1] = Ask(t)
              /\ \A i \in 1 .. Len(toCard) : toCard'[i] = toCard[i]
            BY <3>3, Sent
        <3> HIDE DEF f, w
        <3>5. /\ \A i \in 1 .. Len(w) : Greets(w[i])
              /\ \A i \in 1 .. Len(toCard) : toCard[i] = Knock
              /\ Len(w) + 1 + Len(toCard) <= 2
            <4>1. CASE /\ \A i \in 1 .. Len(inbox[t]) : Greets(inbox[t][i])
                       /\ \A i \in 1 .. Len(toCard) : toCard[i] = Knock
                       /\ Len(inbox[t]) + Len(toCard) <= 2
                <5>1. \A i \in 1 .. Len(w) : Greets(w[i])
                    BY <4>1, <1>2
                <5>2. Len(w) + 1 + Len(toCard) <= 2
                    BY <4>1, <1>2, <1>4
                <5> QED
                    BY <4>1, <5>1, <5>2
            <4>2. CASE /\ \A i \in 1 .. Len(inbox[t]) :
                             Greets(inbox[t][i]) => i = Len(inbox[t]) /\ toCard = <<>>
                <5>1. Len(inbox[t]) = 1 /\ toCard = <<>>
                    BY <4>2, <2>1, <1>2
                <5>2. Len(w) = 0 /\ Len(toCard) = 0
                    BY <5>1, <1>2, EmptySeq
                <5> QED
                    BY <5>2
            <4> QED
                BY <4>1, <4>2, <1>3
        <3> DEFINE a == Len(w)
                   b == Len(toCard)
                   c == Len(toCard')
        <3>6. a \in Int /\ b \in Nat /\ c = b + 1 /\ a + 1 + b <= 2
            BY <3>4, <3>5, <1>2, <1>4
        <3> HIDE DEF a, b, c
        <3>7. c - 1 = b /\ a + c <= 2
            BY <3>6
        <3>8. Len(toCard') - 1 = Len(toCard) /\ Len(w) + Len(toCard') <= 2
            BY <3>7 DEF a, b, c
        <3>9. Ask(t)' = Ask(t)
            BY <1>1 DEF Ask
        <3>10. Asking(t)'
            BY <3>2, <3>4, <3>5, <3>8, <3>9 DEF Asking, NoMessage
        <3> QED
            BY <3>2, <3>10, <2>4, <1>1 DEF Opening
    <2> QED
        BY <2>3, <2>4
<1> QED
    BY <1>1, <1>6, <1>7, <1>8, <1>9

(* What is there of a file, and one block more.                            *)
LEMMA Grows ==
    ASSUME NEW f \in File, NEW k \in Nat, k < Size[f]
    PROVE  LET c == Chunk(f, k)
               bytes == SubSeq(Content(f), 1, k)
               last == k + Len(c)
           IN  /\ bytes \o c = SubSeq(Content(f), 1, last) /\ Len(bytes \o c) = last
               /\ last \in Nat /\ last <= Size[f] /\ c # <<>> /\ Len(bytes) = k
<1> DEFINE c == Chunk(f, k)
           s == Content(f)
           bytes == SubSeq(s, 1, k)
           last == IF k + BlockSize < Size[f] THEN k + BlockSize ELSE Size[f]
<1>1. s \in Seq(Cell) /\ Len(s) = Size[f] /\ Size[f] \in Nat
    BY ContentBytes
<1>2. /\ c \in Seq(Cell) /\ last \in Nat /\ last <= Size[f]
      /\ Len(c) = IF k < last THEN last - k ELSE 0
      /\ \A i \in 1 .. last - k : c[i] = s[k + i]
    BY ChunkBytes
<1>3. k < last
    BY <1>1, ExtractionAssumption
<1> HIDE DEF c, s, last
<1>4. Len(c) = last - k /\ Len(c) # 0 /\ k + Len(c) = last
    BY <1>2, <1>3
<1>5. c # <<>>
    BY <1>4
<1>6. bytes \o c = SubSeq(s, 1, last)
    <2>1. k <= last /\ last <= Len(s)
        BY <1>1, <1>2, <1>3
    <2> QED
        BY <2>1, <1>1, <1>2, <1>4, PrefixGrows
<1>7. Len(SubSeq(s, 1, last)) = last /\ Len(bytes) = k
    <2>1. last <= Len(s) /\ k <= Len(s)
        BY <1>1, <1>2
    <2> QED
        BY <2>1, <1>1, <1>2, PrefixProperties
<1>8. /\ bytes \o c = SubSeq(s, 1, k + Len(c)) /\ Len(bytes \o c) = k + Len(c)
      /\ k + Len(c) \in Nat /\ k + Len(c) <= Size[f] /\ c # <<>> /\ Len(bytes) = k
    BY <1>2, <1>4, <1>5, <1>6, <1>7
<1> QED
    BY <1>8 DEF c, s

LEMMA WholeContent ==
    ASSUME NEW f \in File
    PROVE  /\ SubSeq(Content(f), 1, Size[f]) = Content(f)
           /\ SubSeq(Content(f), 1, 0) = <<>>
           /\ Size[f] = 0 => Content(f) = <<>>
<1>1. Content(f) \in Seq(Cell) /\ Len(Content(f)) = Size[f] /\ Size[f] \in Nat
    BY ContentBytes
<1> DEFINE s == Content(f)
           p == SubSeq(s, 1, 0)
<1> HIDE DEF s
<1>2. SubSeq(s, 1, Len(s)) = s
    BY <1>1, SubSeqFull DEF s
<1>3. p \in Seq(Cell) /\ Len(p) = 0
    BY <1>1, PrefixProperties DEF s
<1> HIDE DEF p
<1>4. p = <<>> /\ (Len(s) = 0 => s = <<>>)
    BY <1>1, <1>3, EmptySeq DEF s
<1> QED
    BY <1>1, <1>2, <1>4 DEF s, p

(* The first READ, and the next one.                                       *)
LEMMA NextRead ==
    ASSUME Typed, NEW t \in Thread, wanted' = wanted, wanted[t] # 0, open' = wanted[t],
           toCard = <<>>, Goto(t, "READ", Len(file'[t].bytes), <<>>),
           file'[t] \in Copied, file'[t].size = Size[wanted[t]],
           Len(file'[t].bytes) < Size[wanted[t]],
           file'[t].bytes = SubSeq(Content(wanted[t]), 1, Len(file'[t].bytes))
    PROVE  op'[t] = "READ" /\ Reading(t)'
<1> DEFINE k == Len(file'[t].bytes)
<1>1. k \in Nat
    BY LenProperties DEF Copied
<1>2. /\ op'[t] = "READ" /\ rcv'[t] = NoMessage /\ inbox'[t] = <<>> /\ phase'[t] = "flow"
      /\ toCard' = Append(toCard, FirstFrame(t, "READ", k))
    BY GotoThere
<1>3. toCard' = <<<<"FF", "READ", k>>>>
    BY <1>2 DEF FirstFrame
<1>4. Halfway(t)'
    BY DEF Halfway, Content
<1>5. Fetching(t)'
    BY <1>2, <1>3 DEF Fetching, NoMessage
<1> QED
    BY <1>2, <1>4, <1>5 DEF Reading

LEMMA ReceiveOpen ==
    ASSUME Typed, Typed', NEW t \in Thread, Solo(t), op[t] = "OPEN", Receive(t)
    PROVE  \/ op'[t] = "failed"
           \/ op'[t] = "OPEN" /\ Opening(t)'
           \/ op'[t] = "READ" /\ Reading(t)'
           \/ op'[t] = "CLOSE" /\ file'[t].bytes = Content(wanted[t])
<1> DEFINE f == wanted[t]
           reply == OpenReply(f)
<1>1. /\ inbox[t] # <<>> /\ phase[t] = "recv" /\ UNCHANGED <<wanted, open>>
      /\ \/ Head(inbox[t]).kind = "SF" /\ Reply(t, Head(inbox[t]).cells, Tail(inbox[t]))
         \/ Head(inbox[t]).kind = "CF" \/ GoesOn(t)
    BY ReceiveCases DEF cardVars
<1>2. f \in File /\ (Asking(t) \/ Told(t))
    BY DEF Solo, Opening, Typed
<1>3. reply \in Answer /\ reply[1][1] = "OPEN" /\ reply[2][2] = Size[f]
    BY <1>2, OpenReplyCells
<1>4. ASSUME Greets(Head(inbox[t])) PROVE op'[t] = "failed"
    <2>1. Reply(t, Head(inbox[t]).cells, Tail(inbox[t])) /\ ~ Answers(t, Head(inbox[t]).cells)
        BY <1>1, <1>4 DEF Greets, GoesOn, Answers
    <2> QED
        BY <2>1 DEF Reply, Refused, Connected, Opened, ReadChunk, Closing, Listed, Verified, End,
                    Typed, ThreadTypes
<1>5. CASE Asking(t)
    <2>1. Head(inbox[t]) = inbox[t][1] /\ 1 \in 1 .. Len(inbox[t])
        BY <1>1, TailProperties DEF Typed, ThreadTypes
    <2>2. Greets(Head(inbox[t]))
        BY <2>1, <1>5 DEF Asking
    <2> QED
        BY <2>2, <1>4
<1>6. CASE Told(t) /\ Greets(Head(inbox[t]))
    BY <1>4, <1>6
<1>7. CASE Told(t) /\ ~ Greets(Head(inbox[t]))
    <2> HIDE DEF reply
    <2>1. /\ toCard = <<>> /\ open = f
          /\ Coming(rcv[t], inbox[t], reply) \/ Broken(rcv[t], inbox[t])
        BY <1>7 DEF Told, reply
    <2>2. \/ Reply(t, reply, <<>>)
          \/ /\ UNCHANGED <<op, phase, file, toCard>>
             /\ Coming(rcv'[t], inbox'[t], reply) \/ Broken(rcv'[t], inbox'[t])
        BY <2>1, <1>3, Reassembles
    <2>3. CASE /\ UNCHANGED <<op, phase, file, toCard>>
               /\ Coming(rcv'[t], inbox'[t], reply) \/ Broken(rcv'[t], inbox'[t])
        <3>1. Coming(rcv'[t], inbox'[t], OpenReply(wanted'[t])) \/ Broken(rcv'[t], inbox'[t])
            BY <2>3, <1>1 DEF reply
        <3>2. Told(t)'
            BY <3>1, <2>1, <2>3, <1>1
               DEF Told, Broken, Coming, FramesOf, Padded, OpenReply, Ack, NoMessage, Greets
        <3> QED
            BY <3>2, <2>3, <1>1, <1>2, ExtractionAssumption DEF Opening
    <2>4. CASE Reply(t, reply, <<>>)
        <3>1. Opened(t, reply, <<>>)
            BY <2>4, <1>3 DEF Reply, Refused, Connected, ReadChunk, Closing, Listed, Verified, Answers
        <3> DEFINE fl == [size |-> reply[2][2], crc |-> CrcField(reply[3]), bytes |-> <<>>]
        <3>2. file'[t] = fl /\ Goto(t, IF reply[2][2] = 0 THEN "CLOSE" ELSE "READ", 0, <<>>)
            BY <3>1 DEF Opened, Typed, ThreadTypes
        <3>3. file'[t].size = Size[f] /\ file'[t].bytes = <<>> /\ Len(file'[t].bytes) = 0
            BY <3>2, <1>3
        <3>4. Size[f] \in Nat /\ f # 0
            BY <1>2, ExtractionAssumption
        <3>5. CASE Size[f] = 0
            BY <3>2, <3>3, <3>5, <1>2, <1>3, GotoThere, WholeContent
        <3>6. CASE Size[f] # 0
            <4>1. Goto(t, "READ", Len(file'[t].bytes), <<>>)
                BY <3>2, <3>3, <3>6, <1>3
            <4>2. file'[t] \in Copied
                BY DEF Typed, ThreadTypes
            <4>3. file'[t].bytes = SubSeq(Content(f), 1, Len(file'[t].bytes))
                BY <3>3, <1>2, WholeContent
            <4>4. wanted' = wanted /\ open' = f /\ toCard = <<>>
                BY <2>1, <1>1
            <4>5. Len(file'[t].bytes) < Size[f] /\ file'[t].size = Size[f] /\ f # 0
                BY <3>3, <3>4, <3>6
            <4> QED
                BY <4>1, <4>2, <4>3, <4>4, <4>5, NextRead
        <3> QED
            BY <3>5, <3>6
    <2> QED
        BY <2>2, <2>3, <2>4
<1> QED
    BY <1>2, <1>5, <1>6, <1>7

LEMMA ReceiveRead ==
    ASSUME Typed, Typed', NEW t \in Thread, Solo(t), op[t] = "READ", Receive(t)
    PROVE  \/ op'[t] = "failed"
           \/ op'[t] = "READ" /\ Reading(t)'
           \/ op'[t] = "CLOSE" /\ file'[t].bytes = Content(wanted[t])
<1> DEFINE f == wanted[t]
           k == Len(file[t].bytes)
           reply == ReadReply(f, k)
           c == Chunk(f, k)
<1>1. inbox[t] # <<>> /\ phase[t] = "recv" /\ UNCHANGED <<wanted, open, reading>>
    BY ReceiveCases DEF cardVars
<1>2. /\ f \in File /\ f # 0 /\ open = f /\ file[t].size = Size[f] /\ k < Size[f]
      /\ file[t].bytes = SubSeq(Content(f), 1, k)
    BY ExtractionAssumption DEF Solo, Reading, Halfway, Typed
<1>3. file[t].bytes \in Seq(Cell) /\ k \in Nat
    BY LenProperties DEF Typed, ThreadTypes, Copied
<1>4. /\ toCard = <<>>
      /\ Coming(rcv[t], inbox[t], reply) \/ Broken(rcv[t], inbox[t])
    BY <1>1, EmptySeq DEF Solo, Reading, Fetching
<1>5. reply \in Answer /\ reply[1][1] = "READ" /\ Tail(reply) = c
    BY <1>2, <1>3, ReadReplyCells
<1>6. /\ file[t].bytes \o c = SubSeq(Content(f), 1, k + Len(c))
      /\ Len(file[t].bytes \o c) = k + Len(c)
      /\ k + Len(c) \in Nat /\ k + Len(c) <= Size[f] /\ c # <<>>
    <2> HIDE DEF k, c
    <2>1. LET d == Chunk(f, k)
              bytes == SubSeq(Content(f), 1, k)
              last == k + Len(d)
          IN  /\ bytes \o d = SubSeq(Content(f), 1, last) /\ Len(bytes \o d) = last
              /\ last \in Nat /\ last <= Size[f] /\ d # <<>>
        BY <1>2, <1>3, Grows
    <2> QED
        BY <2>1, <1>2 DEF c
<1>7. \/ Reply(t, reply, <<>>)
      \/ /\ UNCHANGED <<op, phase, file, toCard>>
         /\ Coming(rcv'[t], inbox'[t], reply) \/ Broken(rcv'[t], inbox'[t])
    BY <1>4, <1>5, Reassembles
<1>8. CASE /\ UNCHANGED <<op, phase, file, toCard>>
           /\ Coming(rcv'[t], inbox'[t], reply) \/ Broken(rcv'[t], inbox'[t])
    <2>1. Halfway(t)'
        BY <1>1, <1>2, <1>8 DEF Halfway, Content
    <2>2. /\ phase'[t] = "recv" /\ toCard' = <<>>
          /\ \/ Coming(rcv'[t], inbox'[t], ReadReply(wanted'[t], Len(file'[t].bytes)))
             \/ Broken(rcv'[t], inbox'[t])
        BY <1>1, <1>4, <1>8
    <2>3. Fetching(t)'
        BY <2>2 DEF Fetching, Broken, Coming, FramesOf, Padded, ReadReply, Chunk, Content, Ack,
                    NoMessage, Flow
    <2> QED
        BY <2>1, <2>3, <1>8 DEF Reading
<1>9. CASE Reply(t, reply, <<>>)
    <2> HIDE DEF reply
    <2>1. ReadChunk(t, reply, <<>>)
        BY <1>5, <1>9 DEF Reply, Refused, Connected, Opened, Closing, Listed, Verified, Answers
    <2>2. /\ file'[t].bytes = file[t].bytes \o c /\ file'[t].size = file[t].size
          /\ Goto(t, IF AtEnd(file[t], c) THEN "CLOSE" ELSE "READ", Len(file'[t].bytes), <<>>)
        BY ZenonT(60), <2>1, <1>5 DEF ReadChunk, Typed, ThreadTypes, Copied
    <2>3. AtEnd(file[t], c) <=> Len(file'[t].bytes) >= Size[f]
        BY <2>2, <1>2, <1>6 DEF AtEnd
    <2> HIDE DEF c, k
    <2>4. /\ Len(file'[t].bytes) \in Nat /\ Len(file'[t].bytes) <= Size[f]
          /\ file'[t].bytes = SubSeq(Content(f), 1, Len(file'[t].bytes))
        BY <2>2, <1>6
    <2>5. Size[f] \in Nat
        BY <1>2, ExtractionAssumption
    <2>6. CASE AtEnd(file[t], c)
        <3>1. Len(file'[t].bytes) = Size[f]
            BY <2>3, <2>4, <2>5, <2>6
        <3>2. file'[t].bytes = Content(f)
            BY <3>1, <2>4, <1>2, WholeContent
        <3> QED
            BY <3>2, <2>2, <2>6, GotoThere
    <2>7. CASE ~ AtEnd(file[t], c)
        <3>1. Goto(t, "READ", Len(file'[t].bytes), <<>>)
            BY <2>2, <2>7
        <3>2. Len(file'[t].bytes) < Size[f]
            BY <2>3, <2>4, <2>5, <2>7
        <3>3. file'[t] \in Copied
            BY DEF Typed, ThreadTypes
        <3>4. wanted' = wanted /\ open' = f /\ toCard = <<>> /\ file'[t].size = Size[f]
            BY <2>2, <1>1, <1>2, <1>4
        <3> QED
            BY <3>1, <3>2, <3>3, <3>4, <2>4, <1>2, NextRead
    <2> QED
        BY <2>6, <2>7
<1> QED
    BY <1>7, <1>8, <1>9

(* The replies to LIST, CLOSE and DISCONNECT.                              *)
LEMMA ReceiveRest ==
    ASSUME Typed, NEW t \in Thread, op[t] \in {"LIST", "CLOSE", "DISCONNECT"}, Receive(t)
    PROVE  /\ op'[t] \in {"LIST", "CLOSE", "DISCONNECT", "listed", "saved", "failed"}
           /\ op'[t] = "LIST" => op[t] = "LIST"
           /\ op'[t] = "saved" => wanted[t] # 0
           /\ op[t] = "LIST" => op'[t] # "CLOSE" /\ op'[t] # "saved"
           /\ file' = file
<1>1. ASSUME NEW reply, NEW frames, Reply(t, reply, frames)
      PROVE  /\ op'[t] \in {"LIST", "CLOSE", "DISCONNECT", "listed", "saved", "failed"}
             /\ op'[t] = "LIST" => op[t] = "LIST"
             /\ op'[t] = "saved" => wanted[t] # 0
             /\ op[t] = "LIST" => op'[t] # "CLOSE" /\ op'[t] # "saved"
             /\ file' = file
    BY <1>1 DEF Reply, Refused, Connected, Opened, ReadChunk, Closing, Listed, Verified, End, Goto,
                Typed, ThreadTypes
<1>2. CASE GoesOn(t)
    BY <1>2 DEF GoesOn
<1> QED
    BY <1>1, <1>2, ReceiveCases

LEMMA FaithfulReceive ==
    ASSUME Typed, Typed', Faithful, NEW t \in Thread, Receive(t)
    PROVE  Faithful'
<1>1. /\ t \in Running /\ op'[t] # "none" /\ wanted' = wanted /\ alone' = alone
      /\ \A u \in Thread \ {t} : op'[u] = op[u] /\ file'[u] = file[u]
    BY ReceiveOthers
<1>2. ASSUME Solo(t), op'[t] \in Command
      PROVE  Solo(t)'
    <2>1. Running = {t} /\ Running' = {t}
        BY <1>1, <1>2, StillAlone DEF Solo
    <2>2. CASE op[t] = "CONNECT"
        <3>1. \/ op'[t] = "CONNECT" /\ Knocking(t)'
              \/ op'[t] = "LIST" /\ wanted[t] = 0
              \/ op'[t] = "OPEN" /\ Opening(t)'
            BY <2>2, <1>2, ReceiveConnect DEF Command
        <3> QED
            BY <3>1, <2>1, <1>1 DEF Solo
    <2>3. CASE op[t] = "OPEN"
        <3>1. \/ op'[t] = "OPEN" /\ Opening(t)'
              \/ op'[t] = "READ" /\ Reading(t)'
              \/ op'[t] = "CLOSE" /\ file'[t].bytes = Content(wanted[t])
            BY <2>3, <1>2, ReceiveOpen DEF Command
        <3> QED
            BY <3>1, <2>1, <1>1 DEF Solo, Content
    <2>4. CASE op[t] = "READ"
        <3>1. \/ op'[t] = "READ" /\ Reading(t)'
              \/ op'[t] = "CLOSE" /\ file'[t].bytes = Content(wanted[t])
            BY <2>4, <1>2, ReceiveRead DEF Command
        <3> QED
            BY <3>1, <2>1, <1>1 DEF Solo, Content
    <2>5. CASE op[t] \in {"LIST", "CLOSE", "DISCONNECT"}
        <3>1. /\ op'[t] \in {"LIST", "CLOSE", "DISCONNECT"} /\ file' = file
              /\ op'[t] = "LIST" => op[t] = "LIST"
            BY <2>5, <1>2, ReceiveRest DEF Command
        <3>2. wanted[t] # 0 => op'[t] # "LIST" /\ file[t].bytes = Content(wanted[t])
            BY <3>1, <2>5, <1>2 DEF Solo
        <3> QED
            BY <3>1, <3>2, <2>1, <1>1 DEF Solo, Content
    <2> QED
        BY <2>2, <2>3, <2>4, <2>5, <1>1 DEF Running, Command
<1>3. ASSUME Solo(t), op'[t] = "saved"
      PROVE  file'[t].bytes = Content(wanted[t])
    <2>1. op[t] \notin {"CONNECT", "OPEN", "READ"}
        BY <1>3, ReceiveConnect, ReceiveOpen, ReceiveRead
    <2>2. op[t] \in {"LIST", "CLOSE", "DISCONNECT"}
        BY <2>1, <1>1 DEF Running, Command
    <2>3. op[t] # "LIST" /\ wanted[t] # 0 /\ file' = file
        BY <2>2, <1>3, ReceiveRest
    <2> QED
        BY <2>2, <2>3, <1>3 DEF Solo
<1> QED
    BY <1>1, <1>2, <1>3, StepFaithful

LEMMA FaithfulAwaitFlow ==
    ASSUME Typed, Faithful, NEW t \in Thread, AwaitFlow(t)
    PROVE  Faithful'
<1>1. /\ t \in Running /\ phase[t] = "flow" /\ inbox[t] # <<>> /\ op[t] \in Command
      /\ UNCHANGED <<wanted, alone, op, rcv, file, open, reading>>
    BY DEF AwaitFlow, cardVars, Typed, ThreadTypes, Quiet, Running
<1>2. Running' = Running /\ op[t] # "none"
    BY <1>1 DEF Running, Command
<1>3. ASSUME Solo(t) PROVE Solo(t)'
    <2>1. op[t] # "CONNECT" /\ op[t] # "OPEN"
        BY <1>1, <1>3 DEF Solo, Knocking, Opening
    <2>2. CASE op[t] # "READ"
        BY <2>1, <2>2, <1>1, <1>2, <1>3 DEF Solo, Content
    <2>3. CASE op[t] = "READ"
        <3> DEFINE k == Len(file[t].bytes)
        <3>1. toCard = <<>> /\ reading = k /\ inbox[t] = <<Flow>> /\ rcv[t] = NoMessage
            BY <2>3, <1>1, <1>3, EmptySeq DEF Solo, Reading, Fetching
        <3>2. Head(inbox[t]).kind = "FC" /\ Tail(inbox[t]) = <<>>
            BY <3>1 DEF Flow
        <3>3. /\ toCard' = <<<<"CF", "READ", 0>>>> /\ phase'[t] = "recv" /\ inbox'[t] = <<>>
            BY <3>1, <3>2 DEF AwaitFlow, Typed, ThreadTypes
        <3>4. Fetching(t)'
            BY <3>1, <3>3, <1>1 DEF Fetching, NoMessage
        <3>5. Halfway(t)'
            BY <2>3, <1>1, <1>3 DEF Solo, Reading, Halfway, Content
        <3> QED
            BY <3>4, <3>5, <2>3, <1>1, <1>2, <1>3 DEF Solo, Reading
    <2> QED
        BY <2>2, <2>3
<1>4. op[t] # "saved"
    BY <1>1 DEF Command
<1> QED
    BY <1>1, <1>2, <1>3, <1>4, StepFaithful

LEMMA FaithfulTimeOut ==
    ASSUME Typed, Faithful, NEW t \in Thread, TimeOut(t)
    PROVE  Faithful'
<1>1. /\ t \in Running /\ op'[t] = "failed" /\ UNCHANGED <<wanted, alone, file>>
      /\ \A u \in Thread \ {t} : op'[u] = op[u]
    BY DEF TimeOut, End, Typed, ThreadTypes
<1>2. op'[t] \notin Command
    BY <1>1 DEF Command
<1> QED
    BY <1>1, <1>2, StepFaithful

(* Nothing runs when an extraction that is alone starts.                   *)
LEMMA FaithfulStart ==
    ASSUME Typed, Faithful, NEW t \in Thread, NEW f \in File \cup {0}, Start(t, f)
    PROVE  Faithful'
<1>1. /\ op[t] = "none" /\ Goto(t, "CONNECT", 0, <<>>) /\ file' = file
      /\ wanted' = [wanted EXCEPT ![t] = f]
      /\ alone' = IF Running = {} /\ Len(toCard) <= 1 THEN alone \cup {t} ELSE alone \ Running
    BY DEF Start
<1>2. /\ op'[t] = "CONNECT" /\ inbox'[t] = <<>> /\ phase'[t] = "recv"
      /\ toCard' = Append(toCard, Knock)
      /\ \A u \in Thread \ {t} : op'[u] = op[u] /\ wanted'[u] = wanted[u]
    <2>1. /\ op'[t] = "CONNECT" /\ inbox'[t] = <<>> /\ phase'[t] = "recv"
          /\ toCard' = Append(toCard, FirstFrame(t, "CONNECT", 0))
        BY <1>1, GotoThere
    <2>2. \A u \in Thread \ {t} : op'[u] = op[u] /\ wanted'[u] = wanted[u]
        BY <1>1 DEF Goto, Typed, ThreadTypes
    <2> QED
        BY <2>1, <2>2 DEF FirstFrame, Knock
<1>3. t \notin alone
    BY <1>1 DEF Faithful
<1>4. ASSUME NEW u \in alone', u # t
      PROVE  /\ op'[u] # "none" /\ op'[u] \notin Command
             /\ op'[u] = "saved" => file'[u].bytes = Content(wanted'[u])
    <2>1. u \in alone /\ u \in Thread /\ u \notin Running
        BY <1>1, <1>4 DEF Typed
    <2> QED
        BY <2>1, <1>1, <1>2, <1>4 DEF Faithful, Running
<1>5. ASSUME t \in alone' PROVE Solo(t)'
    <2>1. Running = {} /\ Len(toCard) <= 1
        BY <1>1, <1>3, <1>5
    <2>2. Running' = {t}
        BY <2>1, <1>2 DEF Running, Command
    <2>3. /\ Len(toCard) \in Nat /\ Len(toCard') = Len(toCard) + 1
          /\ toCard'[Len(toCard) + 1] = Knock
          /\ \A i \in 1 .. Len(toCard) : toCard'[i] = toCard[i]
        BY <1>2, Requests, Sent
    <2>4. Len(toCard') <= 2 /\ (Len(toCard') = 1 \/ Len(toCard') = 2) /\ toCard'[Len(toCard')] = Knock
        BY <2>1, <2>3
    <2>5. Knocking(t)'
        <3>1. CASE \A i \in 1 .. Len(toCard') : toCard'[i] = Knock
            BY <3>1, <2>4, <1>2 DEF Knocking
        <3>2. CASE ~ \A i \in 1 .. Len(toCard') : toCard'[i] = Knock
            <4>1. Len(toCard') = 2 /\ toCard'[1] # Knock
                BY <3>2, <2>4
            <4>2. \A i \in 1 .. Len(toCard') : toCard'[i] = Knock <=> i = Len(toCard')
                BY <4>1, <2>4
            <4> QED
                BY <4>2, <2>4, <1>2 DEF Knocking
        <3> QED
            BY <3>1, <3>2
    <2> QED
        BY <2>2, <2>5, <1>2 DEF Solo
<1>6. ASSUME NEW u \in alone'
      PROVE  /\ op'[u] # "none"
             /\ op'[u] \in Command => Solo(u)'
             /\ op'[u] = "saved" => file'[u].bytes = Content(wanted'[u])
    <2>1. CASE u = t
        BY <2>1, <1>2, <1>5, <1>6
    <2>2. CASE u # t
        BY <2>2, <1>4, <1>6
    <2> QED
        BY <2>1, <2>2
<1> QED
    BY <1>6 DEF Faithful, Content

(* What the card does when one thread is on the bus.                       *)
LEMMA ServeAlone ==
    ASSUME Typed, NEW t \in Thread, Running = {t}, Serve
    PROVE  LET r == Head(toCard)
               heeds == Executes(r) /\ (session \/ r[2] \in {"CONNECT", "DISCONNECT"})
           IN  /\ toCard # <<>> /\ toCard' = Tail(toCard) /\ r \in Asked
               /\ UNCHANGED <<wanted, op, phase, rcv, file, alone>> /\ Running' = {t}
               /\ r[1] = "FF" => inbox'[t] = inbox[t] \o <<Flow>> /\ reading' = r[3]
               /\ r[1] # "FF" /\ heeds => inbox'[t] = inbox[t] \o FramesOf(Served(r[2], r[3]))
               /\ r[1] # "FF" /\ ~ heeds => inbox'[t] = inbox[t]
               /\ session /\ r[2] = "OPEN" => open' = r[3]
               /\ r[2] \notin {"OPEN", "CLOSE"} => open' = open
<1> DEFINE r == Head(toCard)
           heeds == Executes(r) /\ (session \/ r[2] \in {"CONNECT", "DISCONNECT"})
<1>1. /\ toCard # <<>> /\ toCard' = Tail(toCard)
      /\ UNCHANGED <<wanted, op, phase, rcv, file, alone>>
      /\ reading' = CASE r[1] = "FF" -> r[3] [] r[1] = "CF" -> -1 [] OTHER -> reading
      /\ open' = CASE session /\ r[2] = "OPEN" -> r[3]
                   [] session /\ r[2] = "CLOSE" -> 0
                   [] OTHER -> open
      /\ IF r[1] = "FF" THEN Hear(<<Flow>>)
         ELSE IF heeds THEN Hear(FramesOf(Served(r[2], r[3])))
         ELSE UNCHANGED inbox
    BY DEF Serve, threadVars
<1>2. r \in Asked
    BY <1>1, FirstOfSeq DEF Typed, ThreadTypes
<1>3. Running' = {t}
    BY <1>1 DEF Running
<1> HIDE DEF r, heeds
<1>4. \A frames : Hear(frames) => inbox'[t] = inbox[t] \o frames
    BY DEF Hear
<1>5. /\ r[1] = "FF" => inbox'[t] = inbox[t] \o <<Flow>> /\ reading' = r[3]
      /\ r[1] # "FF" /\ heeds => inbox'[t] = inbox[t] \o FramesOf(Served(r[2], r[3]))
      /\ r[1] # "FF" /\ ~ heeds => inbox'[t] = inbox[t]
    BY <1>1, <1>4
<1>6. /\ session /\ r[2] = "OPEN" => open' = r[3]
      /\ r[2] \notin {"OPEN", "CLOSE"} => open' = open
    BY <1>1
<1> QED
    BY <1>1, <1>2, <1>3, <1>5, <1>6 DEF r, heeds

LEMMA OneMore ==
    ASSUME NEW S, NEW s \in Seq(S), NEW x \in S
    PROVE  LET w == s \o <<x>> IN
           /\ Len(s) \in Nat /\ Len(w) = Len(s) + 1 /\ w[Len(s) + 1] = x /\ w # <<>>
           /\ \A i \in 1 .. Len(s) : w[i] = s[i]
<1> DEFINE w == s \o <<x>>
<1>1. <<x>> \in Seq(S) /\ Len(<<x>>) = 1 /\ <<x>>[1] = x
    BY SingleSeq
<1>2. Len(s) \in Nat
    BY LenProperties
<1> DEFINE v == <<x>>
<1>3. /\ w \in Seq(S) /\ Len(w) = Len(s) + Len(v)
      /\ \A i \in 1 .. Len(s) + Len(v) : w[i] = IF i <= Len(s) THEN s[i] ELSE v[i - Len(s)]
    BY <1>1, ConcatProperties
<1> HIDE DEF w, v
<1>4. Len(v) = 1 /\ v[1] = x
    BY <1>1 DEF v
<1>5. Len(w) = Len(s) + 1 /\ Len(w) # 0
    BY <1>2, <1>3, <1>4
<1>6. \A i \in 1 .. Len(s) : w[i] = s[i]
    BY <1>2, <1>3, <1>4
<1>7. w[Len(s) + 1] = x
    <2>1. Len(s) + 1 \in 1 .. Len(s) + Len(v) /\ ~ (Len(s) + 1 <= Len(s))
          /\ Len(s) + 1 - Len(s) = 1
        BY <1>2, <1>4
    <2>2. w[Len(s) + 1] = v[Len(s) + 1 - Len(s)]
        BY <2>1, <1>3
    <2> QED
        BY <2>1, <2>2, <1>4
<1>8. w # <<>>
    BY <1>3, <1>5, EmptySeq
<1> QED
    BY <1>2, <1>5, <1>6, <1>7, <1>8 DEF w

LEMMA ServeKnocking ==
    ASSUME Typed, NEW t \in Thread, Running = {t}, Serve, Knocking(t)
    PROVE  Knocking(t)'
<1> DEFINE r == Head(toCard)
           g == [kind |-> "SF", total |-> 0, cells |-> <<Ack("CONNECT")>>]
           s == inbox[t]
           q == Tail(toCard)
<1>1. /\ toCard # <<>> /\ toCard' = q /\ r \in Asked /\ phase' = phase
      /\ LET heeds == Executes(r) /\ (session \/ r[2] \in {"CONNECT", "DISCONNECT"}) IN
         /\ r[1] = "FF" => inbox'[t] = s \o <<Flow>>
         /\ r[1] # "FF" /\ heeds => inbox'[t] = s \o FramesOf(Served(r[2], r[3]))
         /\ r[1] # "FF" /\ ~ heeds => inbox'[t] = s
    BY ServeAlone
<1>2. /\ Len(toCard) \in Nat /\ Len(q) = Len(toCard) - 1 /\ r = toCard[1]
      /\ \A i \in 1 .. Len(q) : i + 1 \in 1 .. Len(toCard) /\ q[i] = toCard[i + 1]
      /\ 1 \in 1 .. Len(toCard)
      /\ Len(toCard) = 1 => q = <<>>
    BY <1>1, TailProperties DEF Typed, ThreadTypes
<1>3. s \in Seq(Wire) /\ Len(s) \in Nat
    BY LenProperties DEF Typed, ThreadTypes
<1>4. g \in Wire /\ Greets(g)
    BY Greeting
<1>5. ASSUME r = Knock PROVE inbox'[t] = s \o <<g>>
    <2>1. r[1] = "SF" /\ r[2] = "CONNECT" /\ r[3] = 0 /\ Executes(r)
        BY <1>5 DEF Knock, Executes
    <2> QED
        BY <2>1, <1>1, Greeting
<1> HIDE DEF r, g, s, q
<1>6. /\ Len(s \o <<g>>) = Len(s) + 1 /\ (s \o <<g>>)[Len(s) + 1] = g
      /\ \A i \in 1 .. Len(s) : (s \o <<g>>)[i] = s[i]
    BY <1>3, <1>4, OneMore
<1> DEFINE w == s \o <<g>>
<1>7. Len(w) = Len(s) + 1 /\ w[Len(s) + 1] = g /\ \A i \in 1 .. Len(s) : w[i] = s[i]
    BY <1>6
<1> HIDE DEF w
<1>8. phase'[t] = "recv"
    BY <1>1 DEF Knocking
<1>9. CASE /\ \A i \in 1 .. Len(s) : Greets(s[i])
           /\ \A i \in 1 .. Len(toCard) : toCard[i] = Knock
           /\ Len(s) + Len(toCard) <= 2
    <2>1. inbox'[t] = w
        BY <1>2, <1>5, <1>9 DEF w
    <2>2. \A i \in 1 .. Len(w) : Greets(w[i])
        <3> SUFFICES ASSUME NEW i \in 1 .. Len(w) PROVE Greets(w[i])
            OBVIOUS
        <3>1. i \in 1 .. Len(s) \/ i = Len(s) + 1
            BY <1>3, <1>7
        <3> QED
            BY <3>1, <1>4, <1>7, <1>9
    <2>3. \A i \in 1 .. Len(q) : q[i] = Knock
        BY <1>2, <1>9
    <2>4. Len(w) + Len(q) <= 2
        <3> DEFINE a == Len(s)
                   b == Len(toCard)
        <3>1. Len(w) = a + 1 /\ Len(q) = b - 1 /\ a \in Nat /\ b \in Nat /\ a + b <= 2
            BY <1>2, <1>3, <1>7, <1>9
        <3> HIDE DEF a, b
        <3> QED
            BY <3>1
    <2> QED
        BY <2>1, <2>2, <2>3, <2>4, <1>1, <1>8 DEF Knocking
<1>10. CASE /\ \A i \in 1 .. Len(s) : Greets(s[i]) => i = Len(s) /\ toCard = <<>>
            /\ Len(toCard) <= 2
            /\ \A i \in 1 .. Len(toCard) : toCard[i] = Knock <=> i = Len(toCard)
    <2>1. \A i \in 1 .. Len(s) : ~ Greets(s[i])
        BY <1>1, <1>10
    <2>2. CASE Len(toCard) = 1
        <3>1. inbox'[t] = w /\ toCard' = <<>>
            BY <2>2, <1>1, <1>2, <1>5, <1>10 DEF w
        <3>2. ASSUME NEW i \in 1 .. Len(w), Greets(w[i]) PROVE i = Len(w)
            BY <3>2, <2>1, <1>3, <1>7
        <3>3. Len(toCard') = 0
            BY <3>1
        <3> QED
            BY <3>1, <3>2, <3>3, <1>8 DEF Knocking
    <2>3. CASE Len(toCard) # 1
        <3>1. Len(toCard) = 2 /\ Len(q) = 1 /\ r # Knock
            <4>1. Len(toCard) = 2
                BY <2>3, <1>2, <1>10
            <4> QED
                BY <4>1, <1>2, <1>10
        <3>2. q[1] = Knock
            BY <3>1, <1>2, <1>10
        <3>3. \A i \in 1 .. Len(inbox'[t]) : ~ Greets(inbox'[t][i])
            <4>1. ASSUME NEW F \in Seq(Wire), \A i \in 1 .. Len(F) : ~ Greets(F[i])
                  PROVE  \A i \in 1 .. Len(s \o F) : ~ Greets((s \o F)[i])
                <5> DEFINE v == s \o F
                <5>1. /\ Len(F) \in Nat /\ Len(v) = Len(s) + Len(F)
                      /\ \A i \in 1 .. Len(s) + Len(F) :
                             v[i] = IF i <= Len(s) THEN s[i] ELSE F[i - Len(s)]
                    BY <1>3, ConcatProperties, LenProperties
                <5> HIDE DEF v
                <5>2. ASSUME NEW i \in 1 .. Len(v) PROVE ~ Greets(v[i])
                    <6>1. i \in 1 .. Len(s) \/ (~ (i <= Len(s)) /\ i - Len(s) \in 1 .. Len(F))
                        BY <5>1, <1>3
                    <6> QED
                        BY <6>1, <5>1, <4>1, <2>1, <1>3
                <5> QED
                    BY <5>2 DEF v
            <4>2. CASE r[1] = "FF"
                <5>1. <<Flow>> \in Seq(Wire) /\ \A i \in 1 .. Len(<<Flow>>) : ~ Greets(<<Flow>>[i])
                    <6>1. Flow \in Wire /\ ~ Greets(Flow)
                        BY DEF Flow, Wire, Frame, Greets
                    <6> QED
                        BY <6>1, SingleSeq
                <5> QED
                    BY <5>1, <4>1, <4>2, <1>1
            <4>3. CASE r[1] # "FF" /\ Executes(r) /\ inbox'[t] = s \o FramesOf(Served(r[2], r[3]))
                <5>1. r[2] = "READ" => reading # -1
                    BY <4>3, <1>1 DEF Executes, Asked
                <5>2. /\ FramesOf(Served(r[2], r[3])) \in Seq(Wire)
                      /\ \A i \in 1 .. Len(FramesOf(Served(r[2], r[3]))) :
                             ~ Greets(FramesOf(Served(r[2], r[3]))[i])
                    BY <5>1, <3>1, <1>1, NoGreeting
                <5> QED
                    BY <5>2, <4>1, <4>3
            <4>4. CASE inbox'[t] = s
                BY <4>4, <2>1
            <4> QED
                BY <4>2, <4>3, <4>4, <1>1
        <3>4. toCard' = q /\ Len(toCard') = 1 /\ toCard'[1] = Knock
            BY <3>1, <3>2, <1>1
        <3> QED
            BY <3>3, <3>4, <1>8 DEF Knocking
    <2> QED
        BY <2>2, <2>3
<1> QED
    BY <1>9, <1>10 DEF Knocking, s

LEMMA ServeAsking ==
    ASSUME Typed, NEW t \in Thread, Running = {t}, Serve, wanted[t] # 0, Asking(t)
    PROVE  Asking(t)' \/ Told(t)'
<1> DEFINE r == Head(toCard)
           g == [kind |-> "SF", total |-> 0, cells |-> <<Ack("CONNECT")>>]
           s == inbox[t]
           q == Tail(toCard)
           n == Len(toCard)
           F == FramesOf(OpenReply(wanted[t]))
<1>1. /\ toCard # <<>> /\ toCard' = q /\ r \in Asked /\ rcv' = rcv /\ wanted' = wanted
      /\ LET heeds == Executes(r) /\ (session \/ r[2] \in {"CONNECT", "DISCONNECT"}) IN
         /\ r[1] = "FF" => inbox'[t] = s \o <<Flow>>
         /\ r[1] # "FF" /\ heeds => inbox'[t] = s \o FramesOf(Served(r[2], r[3]))
         /\ r[1] # "FF" /\ ~ heeds => inbox'[t] = s
      /\ session /\ r[2] = "OPEN" => open' = r[3]
    BY ServeAlone
<1>2. /\ n \in Nat /\ Len(q) = n - 1 /\ r = toCard[1]
      /\ \A i \in 1 .. Len(q) : i + 1 \in 1 .. n /\ q[i] = toCard[i + 1]
      /\ 1 \in 1 .. n
      /\ n = 1 => q = <<>>
    BY <1>1, TailProperties DEF Typed, ThreadTypes
<1>3. s \in Seq(Wire) /\ Len(s) \in Nat
    BY LenProperties DEF Typed, ThreadTypes
<1>4. /\ rcv[t] = NoMessage /\ \A i \in 1 .. Len(s) : Greets(s[i])
      /\ Len(s) + n <= 2 /\ toCard[n] = Ask(t) /\ \A i \in 1 .. n - 1 : toCard[i] = Knock
    BY <1>1 DEF Asking
<1>5. n = 1 \/ (n = 2 /\ Len(s) = 0)
    <2> DEFINE a == Len(s)
    <2>1. a \in Nat /\ n \in Nat /\ n # 0 /\ a + n <= 2
        BY <1>2, <1>3, <1>4
    <2> HIDE DEF a, n
    <2>2. n = 1 \/ (n = 2 /\ a = 0)
        BY <2>1
    <2> QED
        BY <2>2 DEF a
<1>6. Ask(t)' = Ask(t)
    BY <1>1 DEF Ask
<1>7. CASE n = 1
    <2>1. r[1] = "SF" /\ r[2] = "OPEN" /\ r[3] = wanted[t] /\ Executes(r)
        BY <1>2, <1>4, <1>7 DEF Ask, Executes
    <2>2. Served(r[2], r[3]) = OpenReply(wanted[t])
        BY <2>1 DEF Served, OpenReply
    <2> HIDE DEF r, s, n, F
    <2>3. CASE session
        <3>1. inbox'[t] = s \o F /\ open' = wanted'[t] /\ toCard' = <<>> /\ rcv'[t] = NoMessage
            BY <2>1, <2>2, <2>3, <1>1, <1>2, <1>4, <1>7 DEF F
        <3>2. F \in Seq(Wire)
            <4>1. OpenReply(wanted[t]) \in Answer
                BY OpenReplyCells DEF Typed
            <4> QED
                BY <4>1, FramesShape DEF F
        <3>3. \/ inbox'[t] = F
              \/ inbox'[t] # <<>> /\ Greets(Head(inbox'[t])) /\ Tail(inbox'[t]) = F
            <4>1. CASE s = <<>>
                BY <4>1, <3>1, <3>2, ConcatEmptySeq
            <4>2. CASE s # <<>>
                <5>1. Len(s) = 1
                    <6>1. Len(s) # 0
                        BY <4>2, <1>3, EmptySeq
                    <6> QED
                        <7> DEFINE a == Len(s)
                        <7>1. a \in Nat /\ a # 0 /\ a + 1 <= 2
                            BY <6>1, <1>3, <1>4, <1>7 DEF n
                        <7> HIDE DEF a
                        <7>2. a = 1
                            BY <7>1
                        <7> QED
                            BY <7>2 DEF a
                <5> DEFINE v == s \o F
                           z == Tail(v)
                <5>2. /\ v \in Seq(Wire) /\ Len(F) \in Nat /\ Len(v) = Len(s) + Len(F)
                      /\ \A i \in 1 .. Len(s) + Len(F) :
                             v[i] = IF i <= Len(s) THEN s[i] ELSE F[i - Len(s)]
                    BY <3>2, <1>3, ConcatProperties, LenProperties
                <5> HIDE DEF v
                <5>3. v # <<>> /\ v[1] = s[1] /\ Len(v) = Len(F) + 1
                      /\ \A i \in 1 .. Len(F) : v[i + 1] = F[i]
                    <6>1. Len(v) = Len(F) + 1 /\ Len(v) # 0
                        BY <5>1, <5>2
                    <6>2. v # <<>> /\ v[1] = s[1]
                        BY <6>1, <5>1, <5>2, EmptySeq
                    <6>3. ASSUME NEW i \in 1 .. Len(F) PROVE v[i + 1] = F[i]
                        <7>1. i + 1 \in 1 .. Len(s) + Len(F) /\ ~ (i + 1 <= Len(s))
                              /\ i + 1 - Len(s) = i
                            BY <5>1, <5>2
                        <7>2. v[i + 1] = F[i + 1 - Len(s)]
                            BY <7>1, <5>2
                        <7> QED
                            BY <7>1, <7>2
                    <6> QED
                        BY <6>1, <6>2, <6>3
                <5>4. /\ Head(v) = v[1] /\ z \in Seq(Wire) /\ Len(z) = Len(v) - 1
                      /\ \A i \in 1 .. Len(v) - 1 : z[i] = v[i + 1]
                    BY <5>2, <5>3, FirstOfSeq
                <5> HIDE DEF z
                <5>5. Len(z) = Len(F) /\ \A i \in 1 .. Len(z) : z[i] = F[i]
                    <6>1. Len(v) - 1 = Len(F)
                        BY <5>2, <5>3
                    <6> QED
                        BY <6>1, <5>3, <5>4
                <5>6. z = F
                    BY <5>4, <5>5, <3>2, SeqEqual
                <5>7. Greets(Head(v))
                    BY <5>1, <5>3, <5>4, <1>4
                <5> QED
                    BY <5>3, <5>6, <5>7, <3>1 DEF v, z
            <4> QED
                BY <4>1, <4>2
        <3>4. \/ rcv'[t] = NoMessage /\ inbox'[t] = FramesOf(OpenReply(wanted'[t]))
              \/ /\ rcv'[t] = NoMessage /\ inbox'[t] # <<>> /\ Greets(Head(inbox'[t]))
                 /\ Tail(inbox'[t]) = FramesOf(OpenReply(wanted'[t]))
            BY <3>1, <3>3, <1>1 DEF F
        <3>5. Told(t)'
            BY <3>1, <3>4 DEF Told, Broken, Coming, FramesOf, Padded, OpenReply, Ack, NoMessage, Greets
        <3> QED
            BY <3>5
    <2>4. CASE ~ session
        <3>1. inbox'[t] = s /\ toCard' = <<>>
            BY <2>1, <2>4, <1>1, <1>2, <1>7
        <3>2. Asking(t)'
            BY <3>1, <1>1, <1>4 DEF Asking, NoMessage
        <3> QED
            BY <3>2
    <2> QED
        BY <2>3, <2>4
<1>8. CASE n = 2 /\ Len(s) = 0
    <2>1. r = Knock
        BY <1>2, <1>4, <1>8
    <2>2. inbox'[t] = s \o <<g>>
        <3>1. r[1] = "SF" /\ r[2] = "CONNECT" /\ r[3] = 0 /\ Executes(r)
            BY <2>1 DEF Knock, Executes
        <3> QED
            BY <3>1, <1>1, Greeting
    <2>3. g \in Wire /\ Greets(g)
        BY Greeting
    <2> HIDE DEF r, g, s, q, n
    <2>4. Len(s \o <<g>>) = Len(s) + 1 /\ (s \o <<g>>)[Len(s) + 1] = g
        BY <2>3, <1>3, OneMore
    <2>5. Len(inbox'[t]) = 1 /\ inbox'[t][1] = g
        BY <2>2, <2>4, <1>8
    <2>6. Len(q) = 1 /\ q[1] = Ask(t)
        BY <1>2, <1>4, <1>8
    <2>7. toCard' = q /\ Len(toCard') = 1 /\ toCard'[1] = Ask(t)'
        BY <2>6, <1>1, <1>6
    <2>8. rcv'[t] = NoMessage
        BY <1>1, <1>4
    <2>9. \A i \in 1 .. Len(inbox'[t]) : Greets(inbox'[t][i])
        BY <2>3, <2>5
    <2>10. Asking(t)'
        BY <2>5, <2>7, <2>8, <2>9 DEF Asking, NoMessage
    <2> QED
        BY <2>10
<1> QED
    BY <1>5, <1>7, <1>8

LEMMA ServeFetching ==
    ASSUME Typed, NEW t \in Thread, Running = {t}, Serve, Halfway(t), Fetching(t)
    PROVE  Reading(t)'
<1> DEFINE r == Head(toCard)
           k == Len(file[t].bytes)
           f == wanted[t]
<1>1. /\ toCard # <<>> /\ toCard' = Tail(toCard) /\ r \in Asked
      /\ UNCHANGED <<wanted, phase, rcv, file>>
      /\ LET heeds == Executes(r) /\ (session \/ r[2] \in {"CONNECT", "DISCONNECT"}) IN
         /\ r[1] = "FF" => inbox'[t] = inbox[t] \o <<Flow>> /\ reading' = r[3]
         /\ r[1] # "FF" /\ heeds => inbox'[t] = inbox[t] \o FramesOf(Served(r[2], r[3]))
         /\ r[1] # "FF" /\ ~ heeds => inbox'[t] = inbox[t]
      /\ r[2] \notin {"OPEN", "CLOSE"} => open' = open
    BY ServeAlone
<1>2. f # 0 /\ open = f /\ k \in Nat /\ f \in File
    BY LenProperties DEF Halfway, Typed, ThreadTypes, Copied
<1>3. rcv[t] = NoMessage /\ inbox[t] = <<>>
      /\ \/ phase[t] = "flow" /\ toCard = <<<<"FF", "READ", k>>>>
         \/ phase[t] = "recv" /\ toCard = <<<<"CF", "READ", 0>>>> /\ reading = k
    BY <1>1 DEF Fetching
<1>4. toCard' = <<>> /\ r[2] = "READ"
    <2>1. PICK c \in {<<"FF", "READ", k>>, <<"CF", "READ", 0>>} : toCard = <<c>>
        BY <1>3
    <2>2. Head(toCard) = c /\ Tail(toCard) = <<>>
        BY <2>1
    <2>3. c[2] = "READ"
        BY <2>1
    <2> QED
        BY <1>1, <2>2, <2>3
<1>5. Halfway(t)'
    BY <1>1, <1>4 DEF Halfway, Content
<1>6. CASE phase[t] = "flow" /\ toCard = <<<<"FF", "READ", k>>>>
    <2>1. r[1] = "FF" /\ r[3] = k
        BY <1>6
    <2>2. reading' = k /\ inbox'[t] = <<>> \o <<Flow>>
        BY <2>1, <1>1, <1>3
    <2>3. inbox'[t] = <<Flow>>
        <3>1. <<Flow>> \in Seq(Wire)
            BY DEF Flow, Wire, Frame
        <3> QED
            BY <2>2, <3>1, ConcatEmptySeq
    <2>4. Fetching(t)'
        BY <2>2, <2>3, <1>1, <1>3, <1>4, <1>6 DEF Fetching, NoMessage, Flow
    <2> QED
        BY <2>4, <1>5 DEF Reading
<1>7. CASE phase[t] = "recv" /\ toCard = <<<<"CF", "READ", 0>>>> /\ reading = k
    <2>1. r[1] = "CF" /\ r[3] = 0 /\ Executes(r)
        BY <1>2, <1>7 DEF Executes
    <2>2. Served(r[2], r[3]) = ReadReply(f, k)
        BY <1>2, <1>4, <1>7 DEF Served, ReadReply
    <2>3. phase'[t] = "recv" /\ rcv'[t] = NoMessage
        BY <1>1, <1>3, <1>7
    <2>4. CASE session
        <3> DEFINE F == FramesOf(ReadReply(f, k))
        <3>1. inbox'[t] = <<>> \o F
            BY <2>1, <2>2, <2>4, <1>1, <1>3
        <3>2. F \in Seq(Wire)
            <4>1. ReadReply(f, k) \in Answer
                BY <1>2, ReadReplyCells
            <4> QED
                BY <4>1, FramesShape
        <3> HIDE DEF F
        <3>3. inbox'[t] = F
            BY <3>1, <3>2, ConcatEmptySeq
        <3>4. inbox'[t] = FramesOf(ReadReply(wanted'[t], Len(file'[t].bytes)))
            BY <3>3, <1>1 DEF F
        <3>5. Fetching(t)'
            BY <3>4, <2>3, <1>4 DEF Fetching, Coming, Broken, FramesOf, Padded, ReadReply, Chunk,
                                    Content, Ack, NoMessage, Flow
        <3> QED
            BY <3>5, <1>5 DEF Reading
    <2>5. CASE ~ session
        <3>1. inbox'[t] = <<>>
            BY <2>1, <2>5, <1>1, <1>3, <1>4
        <3>2. Fetching(t)'
            BY <3>1, <1>4 DEF Fetching
        <3> QED
            BY <3>2, <1>5 DEF Reading
    <2> QED
        BY <2>4, <2>5
<1> QED
    BY <1>3, <1>6, <1>7

LEMMA FaithfulServe ==
    ASSUME Typed, Faithful, Serve
    PROVE  Faithful'
<1>1. toCard # <<>> /\ UNCHANGED <<wanted, op, phase, rcv, file, alone>>
    BY DEF Serve, threadVars
<1>2. ASSUME NEW t \in alone, op[t] \in Command PROVE Solo(t)'
    <2>1. t \in Thread /\ Solo(t) /\ Running = {t}
        BY <1>2 DEF Typed, Faithful, Solo
    <2>2. Running' = {t}
        BY <2>1, <1>1 DEF Running
    <2>3. op[t] = "CONNECT" => Knocking(t)'
        BY <2>1, ServeKnocking DEF Solo
    <2>4. op[t] = "OPEN" => Opening(t)'
        <3> SUFFICES ASSUME op[t] = "OPEN" PROVE Opening(t)'
            OBVIOUS
        <3>1. wanted[t] # 0 /\ phase[t] = "recv" /\ Asking(t)
            BY <2>1, <1>1 DEF Solo, Opening, Told
        <3>2. Asking(t)' \/ Told(t)'
            BY <3>1, <2>1, ServeAsking
        <3> QED
            BY <3>1, <3>2, <1>1 DEF Opening
    <2>5. op[t] = "READ" => Reading(t)'
        BY <2>1, ServeFetching DEF Solo, Reading
    <2> QED
        BY <2>1, <2>2, <2>3, <2>4, <2>5, <1>1 DEF Solo, Content
<1> QED
    BY <1>1, <1>2 DEF Faithful, Content

(* A frame to the card is lost, or one to the thread.                      *)
LEMMA LoseAlone ==
    ASSUME Typed, NEW t \in Thread, Running = {t}, Lose
    PROVE  /\ UNCHANGED <<wanted, op, phase, rcv, file, open, reading, alone>> /\ Running' = {t}
           /\ \/ toCard # <<>> /\ toCard' = Tail(toCard) /\ inbox'[t] = inbox[t]
              \/ inbox[t] # <<>> /\ inbox'[t] = Tail(inbox[t]) /\ toCard' = toCard
<1>1. UNCHANGED <<wanted, op, phase, rcv, file, open, reading, alone>>
    BY DEF Lose, threadVars, cardVars
<1>2. Running' = {t}
    BY <1>1 DEF Running
<1>3. CASE toCard # <<>> /\ toCard' = Tail(toCard) /\ UNCHANGED inbox
    BY <1>1, <1>2, <1>3
<1>4. CASE /\ \E u \in Thread : inbox[u] # <<>> /\ inbox' = [inbox EXCEPT ![u] = Tail(@)]
           /\ UNCHANGED toCard
    <2>1. PICK u \in Thread : inbox[u] # <<>> /\ inbox' = [inbox EXCEPT ![u] = Tail(@)]
        BY <1>4
    <2>2. u = t
        BY <2>1 DEF Typed, ThreadTypes, Quiet
    <2> QED
        BY <2>1, <2>2, <1>1, <1>2, <1>4 DEF Typed, ThreadTypes
<1> QED
    BY <1>3, <1>4 DEF Lose

LEMMA LoseKnocking ==
    ASSUME Typed, NEW t \in Thread, Running = {t}, Lose, Knocking(t)
    PROVE  Knocking(t)'
<1> DEFINE s == inbox[t]
           w == Tail(s)
           q == Tail(toCard)
           a == Len(s)
           b == Len(toCard)
<1>1. /\ phase'[t] = "recv"
      /\ \/ toCard # <<>> /\ toCard' = q /\ inbox'[t] = s
         \/ s # <<>> /\ inbox'[t] = w /\ toCard' = toCard
    BY LoseAlone DEF Knocking
<1>2. a \in Nat /\ b \in Nat
    BY LenProperties DEF Typed, ThreadTypes
<1>3. toCard # <<>> => /\ Len(q) = b - 1 /\ (b = 1 => q = <<>>)
                       /\ \A i \in 1 .. Len(q) : i + 1 \in 1 .. b /\ q[i] = toCard[i + 1]
    BY TailProperties DEF Typed, ThreadTypes
<1>4. s # <<>> => /\ Len(w) = a - 1
                  /\ \A i \in 1 .. Len(w) : i + 1 \in 1 .. a /\ w[i] = s[i + 1]
    BY TailProperties DEF Typed, ThreadTypes
<1>5. CASE /\ \A i \in 1 .. a : Greets(s[i])
           /\ \A i \in 1 .. b : toCard[i] = Knock
           /\ a + b <= 2
    <2> HIDE DEF s, w, q, a, b
    <2>1. CASE toCard # <<>> /\ toCard' = q /\ inbox'[t] = s
        <3>1. Len(q) = b - 1 /\ a + Len(q) <= 2
            BY <2>1, <1>2, <1>3, <1>5
        <3>2. \A i \in 1 .. Len(q) : q[i] = Knock
            BY <2>1, <1>3, <1>5
        <3> QED
            BY <3>1, <3>2, <2>1, <1>1, <1>5 DEF Knocking, a
    <2>2. CASE s # <<>> /\ inbox'[t] = w /\ toCard' = toCard
        <3>1. Len(w) = a - 1 /\ Len(w) + b <= 2
            BY <2>2, <1>2, <1>4, <1>5
        <3>2. \A i \in 1 .. Len(w) : Greets(w[i])
            BY <2>2, <1>4, <1>5
        <3> QED
            BY <3>1, <3>2, <2>2, <1>1, <1>5 DEF Knocking, b
    <2> QED
        BY <2>1, <2>2, <1>1
<1>6. CASE /\ \A i \in 1 .. a : Greets(s[i]) => i = a /\ toCard = <<>>
           /\ b <= 2
           /\ \A i \in 1 .. b : toCard[i] = Knock <=> i = b
    <2> HIDE DEF s, w, q, a, b
    <2>1. CASE toCard # <<>> /\ toCard' = q /\ inbox'[t] = s
        <3>1. Len(q) = b - 1 /\ Len(q) <= 2
            BY <2>1, <1>2, <1>3, <1>6
        <3>2. ASSUME NEW i \in 1 .. Len(q) PROVE q[i] = Knock <=> i = Len(q)
            <4>1. i + 1 \in 1 .. b /\ q[i] = toCard[i + 1]
                BY <2>1, <1>3
            <4>2. toCard[i + 1] = Knock <=> i + 1 = b
                BY <4>1, <1>6
            <4> QED
                BY <4>1, <4>2, <3>1, <1>2
        <3>3. \A i \in 1 .. a : ~ Greets(s[i])
            BY <2>1, <1>6
        <3> QED
            BY <3>1, <3>2, <3>3, <2>1, <1>1 DEF Knocking, a
    <2>2. CASE s # <<>> /\ inbox'[t] = w /\ toCard' = toCard
        <3>1. ASSUME NEW i \in 1 .. Len(w), Greets(w[i]) PROVE i = Len(w) /\ toCard = <<>>
            <4>1. i + 1 = a /\ toCard = <<>>
                BY <3>1, <2>2, <1>4, <1>6
            <4> QED
                BY <4>1, <2>2, <1>2, <1>4
        <3> QED
            BY <3>1, <2>2, <1>1, <1>6 DEF Knocking, b
    <2> QED
        BY <2>1, <2>2, <1>1
<1> QED
    BY <1>5, <1>6 DEF Knocking

LEMMA LoseAsking ==
    ASSUME Typed, NEW t \in Thread, Running = {t}, Lose, Asking(t)
    PROVE  Asking(t)'
<1> DEFINE s == inbox[t]
           w == Tail(s)
           q == Tail(toCard)
           a == Len(s)
           b == Len(toCard)
<1>1. /\ rcv' = rcv /\ wanted' = wanted
      /\ \/ toCard # <<>> /\ toCard' = q /\ inbox'[t] = s
         \/ s # <<>> /\ inbox'[t] = w /\ toCard' = toCard
    BY LoseAlone
<1>2. a \in Nat /\ b \in Nat
    BY LenProperties DEF Typed, ThreadTypes
<1>3. toCard # <<>> => /\ Len(q) = b - 1 /\ (b = 1 => q = <<>>) /\ b # 0
                       /\ \A i \in 1 .. Len(q) : i + 1 \in 1 .. b /\ q[i] = toCard[i + 1]
    BY TailProperties, EmptySeq DEF Typed, ThreadTypes
<1>4. s # <<>> => /\ Len(w) = a - 1
                  /\ \A i \in 1 .. Len(w) : i + 1 \in 1 .. a /\ w[i] = s[i + 1]
    BY TailProperties DEF Typed, ThreadTypes
<1>5. /\ rcv'[t] = NoMessage /\ \A i \in 1 .. a : Greets(s[i])
      /\ toCard # <<>> => /\ a + b <= 2 /\ toCard[b] = Ask(t)
                          /\ \A i \in 1 .. b - 1 : toCard[i] = Knock
    BY <1>1 DEF Asking
<1>6. Ask(t)' = Ask(t)
    BY <1>1 DEF Ask
<1> HIDE DEF s, w, q, a, b
<1>7. CASE toCard # <<>> /\ toCard' = q /\ inbox'[t] = s
    <2>1. CASE b = 1
        <3>1. toCard' = <<>>
            BY <2>1, <1>3, <1>7
        <3> QED
            BY <3>1, <1>5, <1>7 DEF Asking, NoMessage, a
    <2>2. CASE b # 1
        <3>1. a + b <= 2 /\ b # 0 /\ Len(q) = b - 1
            BY <1>3, <1>5, <1>7
        <3>2. b = 2 /\ a = 0 /\ Len(q) = 1
            BY <3>1, <2>2, <1>2
        <3>3. q[1] = Ask(t)
            BY <3>2, <1>3, <1>5, <1>7
        <3>4. toCard' = q /\ Len(toCard') = 1 /\ toCard'[1] = Ask(t)'
              /\ Len(inbox'[t]) = 0
            BY <3>2, <3>3, <1>6, <1>7 DEF a
        <3> QED
            BY <3>4, <1>5 DEF Asking, NoMessage
    <2> QED
        BY <2>1, <2>2
<1>8. CASE s # <<>> /\ inbox'[t] = w /\ toCard' = toCard
    <2>1. \A i \in 1 .. Len(w) : Greets(w[i])
        BY <1>4, <1>5, <1>8
    <2>2. toCard # <<>> => Len(w) + b <= 2
        <3>1. Len(w) = a - 1
            BY <1>4, <1>8
        <3> QED
            BY <3>1, <1>2, <1>5
    <2> QED
        BY <2>1, <2>2, <1>5, <1>6, <1>8 DEF Asking, NoMessage, b
<1> QED
    BY <1>1, <1>7, <1>8

LEMMA LoseTold ==
    ASSUME Typed, NEW t \in Thread, Running = {t}, Lose, wanted[t] # 0, Told(t)
    PROVE  Told(t)'
<1> DEFINE reply == OpenReply(wanted[t])
           s == inbox[t]
<1>1. /\ UNCHANGED <<wanted, rcv, open>> /\ toCard' = <<>> /\ open = wanted[t]
      /\ s # <<>> /\ inbox'[t] = Tail(s)
    BY LoseAlone DEF Told
<1>2. reply \in Answer
    BY OpenReplyCells DEF Typed
<1>3. rcv[t] \in Gathered /\ s \in Seq(Wire)
    BY DEF Typed, ThreadTypes
<1>4. \/ Coming(rcv[t], s, reply) \/ Broken(rcv[t], s)
      \/ rcv[t] = NoMessage /\ Tail(s) = FramesOf(reply)
    BY DEF Told
<1> HIDE DEF reply, s
<1>5. \/ Broken(rcv[t], Tail(s))
      \/ rcv[t] = NoMessage /\ Tail(s) = FramesOf(reply)
    BY <1>1, <1>2, <1>3, <1>4, ComingLost, BrokenStep
<1>6. \/ Broken(rcv'[t], inbox'[t])
      \/ rcv'[t] = NoMessage /\ inbox'[t] = FramesOf(OpenReply(wanted'[t]))
    BY <1>1, <1>5 DEF reply
<1>7. Told(t)'
    BY <1>1, <1>6 DEF Told, Broken, Coming, FramesOf, Padded, OpenReply, Ack, NoMessage, Greets
<1> QED
    BY <1>7

LEMMA LoseReading ==
    ASSUME Typed, NEW t \in Thread, Running = {t}, Lose, Reading(t)
    PROVE  Reading(t)'
<1> DEFINE k == Len(file[t].bytes)
           reply == ReadReply(wanted[t], k)
           s == inbox[t]
<1>1. /\ UNCHANGED <<wanted, phase, rcv, file, open, reading>>
      /\ \/ toCard # <<>> /\ toCard' = Tail(toCard) /\ inbox'[t] = s
         \/ s # <<>> /\ inbox'[t] = Tail(s) /\ toCard' = toCard
    BY LoseAlone
<1>2. Halfway(t)'
    BY <1>1 DEF Reading, Halfway, Content
<1>3. reply \in Answer
    <2>1. wanted[t] \in File /\ k \in Nat
        BY LenProperties DEF Reading, Halfway, Typed, ThreadTypes, Copied
    <2> QED
        BY <2>1, ReadReplyCells
<1>4. rcv[t] \in Gathered /\ s \in Seq(Wire)
    BY DEF Typed, ThreadTypes
<1>5. CASE /\ phase[t] = "recv" /\ toCard = <<>>
           /\ Coming(rcv[t], s, reply) \/ Broken(rcv[t], s)
    <2> HIDE DEF k, reply, s
    <2>1. s # <<>> /\ inbox'[t] = Tail(s) /\ toCard' = <<>> /\ phase'[t] = "recv" /\ rcv' = rcv
        BY <1>1, <1>5
    <2>2. Broken(rcv[t], Tail(s))
        BY <2>1, <1>3, <1>4, <1>5, ComingLost, BrokenStep
    <2>3. Broken(rcv'[t], inbox'[t])
        BY <2>1, <2>2
    <2>4. Fetching(t)'
        BY <2>1, <2>3 DEF Fetching, Coming, Broken, FramesOf, Padded, ReadReply, Chunk,
                          Content, Ack, NoMessage, Flow
    <2> QED
        BY <2>4, <1>2 DEF Reading
<1>6. CASE \/ toCard = <<<<"FF", "READ", k>>>> /\ s = <<>>
           \/ toCard = <<>> /\ s = <<Flow>>
           \/ toCard = <<<<"CF", "READ", 0>>>> /\ s = <<>>
           \/ toCard = <<>> /\ s = <<>>
    <2>1. toCard' = <<>> /\ inbox'[t] = <<>>
        <3> HIDE DEF k, s
        <3>1. /\ Tail(<<<<"FF", "READ", k>>>>) = <<>> /\ Tail(<<<<"CF", "READ", 0>>>>) = <<>>
              /\ Tail(<<Flow>>) = <<>>
            OBVIOUS
        <3>2. /\ toCard # <<>> => s = <<>> /\ Tail(toCard) = <<>>
              /\ s # <<>> => toCard = <<>> /\ Tail(s) = <<>>
            BY <3>1, <1>6
        <3>3. CASE toCard # <<>> /\ toCard' = Tail(toCard) /\ inbox'[t] = s
            BY <3>2, <3>3
        <3>4. CASE s # <<>> /\ inbox'[t] = Tail(s) /\ toCard' = toCard
            BY <3>2, <3>4
        <3> QED
            BY <3>3, <3>4, <1>1
    <2>2. Fetching(t)'
        BY <2>1 DEF Fetching
    <2> QED
        BY <2>2, <1>2 DEF Reading
<1> QED
    BY <1>5, <1>6 DEF Reading, Fetching

LEMMA FaithfulLose ==
    ASSUME Typed, Faithful, Lose
    PROVE  Faithful'
<1>1. UNCHANGED <<wanted, op, phase, rcv, file, alone>>
    BY DEF Lose, threadVars
<1>2. ASSUME NEW t \in alone, op[t] \in Command PROVE Solo(t)'
    <2>1. t \in Thread /\ Solo(t) /\ Running = {t}
        BY <1>2 DEF Typed, Faithful, Solo
    <2>2. Running' = {t}
        BY <2>1, <1>1 DEF Running
    <2>3. op[t] = "CONNECT" => Knocking(t)'
        BY <2>1, LoseKnocking DEF Solo
    <2>4. op[t] = "OPEN" => Opening(t)'
        <3> SUFFICES ASSUME op[t] = "OPEN" PROVE Opening(t)'
            OBVIOUS
        <3>1. wanted[t] # 0 /\ phase[t] = "recv" /\ (Asking(t) \/ Told(t))
            BY <2>1 DEF Solo, Opening
        <3>2. Asking(t)' \/ Told(t)'
            BY <3>1, <2>1, LoseAsking, LoseTold
        <3> QED
            BY <3>1, <3>2, <1>1 DEF Opening
    <2>5. op[t] = "READ" => Reading(t)'
        BY <2>1, LoseReading DEF Solo
    <2> QED
        BY <2>1, <2>2, <2>3, <2>4, <2>5, <1>1 DEF Solo, Content
<1> QED
    BY <1>1, <1>2 DEF Faithful, Content

LEMMA NextFaithful == Typed /\ Faithful /\ [Next]_vars => Faithful'
<1> SUFFICES ASSUME Typed, Faithful, [Next]_vars PROVE Faithful'
    OBVIOUS
<1>1. Typed'
    BY NextTyped
<1>2. CASE UNCHANGED vars
    <2> USE <1>2 DEF vars
    <2>1. Running' = Running
        BY DEF Running
    <2>2. ASSUME NEW t \in Thread PROVE Knocking(t)' <=> Knocking(t)
        BY DEF Knocking
    <2>3. ASSUME NEW t \in Thread PROVE Asking(t)' <=> Asking(t)
        BY DEF Asking, Ask, NoMessage
    <2>4. ASSUME NEW t \in Thread PROVE Told(t)' <=> Told(t)
        BY DEF Told, Broken, Coming, FramesOf, Padded, OpenReply, Ack, NoMessage, Greets
    <2>5. ASSUME NEW t \in Thread PROVE Halfway(t)' <=> Halfway(t)
        BY DEF Halfway, Content
    <2>6. ASSUME NEW t \in Thread PROVE Fetching(t)' <=> Fetching(t)
        BY DEF Fetching, Coming, Broken, FramesOf, Padded, ReadReply, Chunk, Content, Ack,
               NoMessage, Flow
    <2>7. \A t \in Thread : Solo(t)' <=> Solo(t)
        BY <2>1, <2>2, <2>3, <2>4, <2>5, <2>6 DEF Solo, Opening, Reading, Content
    <2> QED
        BY <2>7 DEF Faithful, Typed, Content
<1>3. ASSUME NEW t \in Thread, List(t) \/ Download(t) \/ Step(t)
      PROVE  Faithful'
    BY <1>1, <1>3, FaithfulStart, FaithfulAwaitFlow, FaithfulReceive, FaithfulTimeOut
       DEF List, Download, Step
<1>4. CASE Serve
    BY <1>4, FaithfulServe
<1>5. CASE Lose
    BY <1>5, FaithfulLose
<1> QED
    BY <1>2, <1>3, <1>4, <1>5 DEF Next

(* A download saves the file that was selected, with or without a CRC,     *)
(* whatever is lost, if no other ran during it and at most one command of  *)
(* earlier ones was under way when it started.                             *)
THEOREM AloneIsRight == Spec => []AloneSavesItsFile
<1>1. Init => Faithful
    BY DEF Init, Faithful
<1>2. Typed /\ Faithful => AloneSavesItsFile
    BY DEF Faithful, AloneSavesItsFile, Saved
<1> QED
    BY <1>1, <1>2, InitTyped, NextTyped, NextFaithful, PTL DEF Spec
=============================================================================
