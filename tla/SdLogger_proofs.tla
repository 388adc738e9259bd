-------------------------- MODULE SdLogger_proofs --------------------------
(***************************************************************************)
(* Theorems about SdLogger, for any ring, file size, sync period and       *)
(* number of records, with every failure the model allows: the sync        *)
(* window, the sealed files, the order of the rows on the card, what can   *)
(* lose a row, and that the card is a CardLog, with the type invariant.    *)
(***************************************************************************)
EXTENDS SdLogger, SequenceTheorems, TLAPS

(* The inductive argument for the sync window.  A row is written after the *)
(* clock of its tick moved (Awake), so what waits in buf is younger than   *)
(* the last attempt to sync (Young); and the task only goes to sleep with  *)
(* rows in buf when that attempt is less than a window ago (Asleep).       *)
Typed == /\ captured \in 0 .. MaxRecords
         /\ buf \in Seq(Record) /\ ring \in Seq(Record)
         /\ sinceSync \in Nat /\ age \in Nat

Young == /\ buf = <<>> => age = 0
         /\ buf # <<>> => age + 1 <= sinceSync /\ age < SyncTicks

Open == /\ buf # <<>> => mounted /\ fileOpen
        /\ phase \in {"drain", "seal"} => mounted /\ fileOpen
        /\ phase = "open" => mounted
        /\ phase \in {"mount", "open", "rename"} => buf = <<>>

Awake == phase # "wait" => sinceSync >= 1

Asleep == phase = "wait" /\ buf # <<>> => sinceSync < SyncTicks

Window == Typed /\ Young /\ Open /\ Awake /\ Asleep

LEMMA InitWindow == Init => Window
<1> SUFFICES ASSUME Init PROVE Window
    OBVIOUS
<1>1. buf = <<>> /\ ring = <<>> /\ sinceSync = 0 /\ age = 0 /\ phase = "wait"
      /\ captured \in 0 .. MaxRecords
    BY LoggerAssumption DEF Init
<1> QED
    BY <1>1 DEF Window, Typed, Young, Open, Awake, Asleep

(* teardown leaves no row behind that would wait.                          *)
LEMMA TeardownWindow ==
    ASSUME Window, Teardown, ring' \in Seq(Record), sinceSync' \in Nat,
           UNCHANGED captured
    PROVE  Window'
BY DEF Window, Typed, Young, Open, Awake, Asleep, Teardown

LEMMA NextWindow == Window /\ [Next]_vars => Window'
<1> SUFFICES ASSUME Window, [Next]_vars PROVE Window'
    OBVIOUS
<1>0. SyncTicks \in Nat \ {0}
    BY LoggerAssumption
<1> USE DEF taskVars, cardVars
<1>1. CASE UNCHANGED vars
    BY <1>1 DEF vars, Window, Typed, Young, Open, Awake, Asleep
<1>2. CASE Push
    <2>0. MaxRecords \in Nat
        BY LoggerAssumption
    <2>1. captured + 1 \in Record /\ captured' \in 0 .. MaxRecords
        BY <1>2, <2>0 DEF Push, Record, Window, Typed
    <2>2. ring' \in Seq(Record)
        BY <1>2, <2>1 DEF Push, Window, Typed
    <2> QED
        BY <1>2, <2>1, <2>2 DEF Push, Window, Typed, Young, Open, Awake, Asleep
<1>3. CASE Wake
    BY <1>3, <1>0 DEF Wake, AtMost, Window, Typed, Young, Open, Awake, Asleep
<1>4. CASE Mount
    BY <1>4 DEF Mount, Window, Typed, Young, Open, Awake, Asleep
<1>5. CASE MountFails
    BY <1>5 DEF MountFails, Window, Typed, Young, Open, Awake, Asleep
<1>6. CASE OpenNewFile
    BY <1>6 DEF OpenNewFile, Window, Typed, Young, Open, Awake, Asleep
<1>7. CASE OpenFails
    BY <1>7 DEF OpenFails, Window, Typed, Young, Open, Awake, Asleep
<1>8. CASE WriteRow
    <2>1. buf' \in Seq(Record) /\ buf' # <<>> /\ ring' \in Seq(Record)
        BY <1>8 DEF WriteRow, Window, Typed
    <2> QED
        BY <1>8, <1>0, <2>1 DEF WriteRow, Window, Typed, Young, Open, Awake, Asleep
<1>9. CASE WriteFails
    <2>1. ring' \in Seq(Record) /\ sinceSync' \in Nat
        BY <1>9 DEF WriteFails, Window, Typed
    <2> QED
        BY <1>9, <2>1, TeardownWindow DEF WriteFails
<1>10. CASE Drained
    BY <1>10 DEF Drained, Window, Typed, Young, Open, Awake, Asleep
<1>11. CASE SealClose
    BY <1>11 DEF SealClose, Window, Typed, Young, Open, Awake, Asleep
<1>12. CASE SealRename
    BY <1>12 DEF SealRename, Window, Typed, Young, Open, Awake, Asleep
<1>13. CASE Sync
    BY <1>13 DEF Sync, Window, Typed, Young, Open, Awake, Asleep
<1>14. CASE SyncFails
    <2>1. ring' \in Seq(Record) /\ sinceSync' \in Nat
        BY <1>14 DEF SyncFails, Window, Typed
    <2> QED
        BY <1>14, <2>1, TeardownWindow DEF SyncFails
<1>15. CASE SyncNotDue
    BY <1>15, <1>0 DEF SyncNotDue, SyncDue, Window, Typed, Young, Open, Awake, Asleep
<1>16. CASE PullOrInsertCard
    BY <1>16 DEF PullOrInsertCard, Window, Typed, Young, Open, Awake, Asleep
<1>17. CASE PowerCut
    BY <1>17 DEF PowerCut, Window, Typed, Young, Open, Awake, Asleep
<1>18. CASE Settle
    BY <1>18 DEF Settle, Window, Typed, Young, Open, Awake, Asleep
<1> QED
    BY <1>1, <1>2, <1>3, <1>4, <1>5, <1>6, <1>7, <1>8, <1>9, <1>10, <1>11, <1>12,
       <1>13, <1>14, <1>15, <1>16, <1>17, <1>18 DEF Next, Logger

(* The periodic flush: no row of the open file waits longer than one       *)
(* window for its sync, whatever fails and whenever the file was opened.   *)
THEOREM SyncWindow == Spec => []UnsyncedIsYoung
<1>1. Window => UnsyncedIsYoung
    BY LoggerAssumption DEF Window, Typed, Young, UnsyncedIsYoung
<1> QED
    BY <1>1, InitWindow, NextWindow, PTL DEF Spec

(* Only a rename touches the sealed files, and only to add one.            *)
LEMMA SealedStep ==
    [Next]_vars => \A i \in DOMAIN csv : i \in DOMAIN csv' /\ csv'[i] = csv[i]
<1> SUFFICES ASSUME [Next]_vars, NEW i \in DOMAIN csv
             PROVE  i \in DOMAIN csv' /\ csv'[i] = csv[i]
    OBVIOUS
<1>1. CASE SealRename
    <2>1. CASE Renamed /\ ~ Sealed(fileIdx)
        BY <2>1 DEF Renamed, Sealed, Put
    <2>2. CASE UNCHANGED <<csv, tmp>>
        BY <2>2
    <2> QED
        BY <1>1, <2>1, <2>2 DEF SealRename
<1>2. CASE UNCHANGED csv
    BY <1>2
<1> QED
    BY <1>1, <1>2 DEF Next, Logger, vars, taskVars, cardVars, Push, Wake, Mount, MountFails,
       OpenNewFile, OpenFails, WriteRow, WriteFails, Drained, SealClose, Sync, SyncFails,
       SyncNotDue, PullOrInsertCard, PowerCut, Settle

(* The extractor only ever sees finished logs: a sealed file is never      *)
(* changed or removed, also when the numbers wrap.                         *)
THEOREM SealedFilesFinal == Spec => SealedIsFinal
BY SealedStep, PTL DEF Spec, SealedIsFinal

-----------------------------------------------------------------------------
(* The files.  Records leave the ring in the order they entered it, so     *)
(* what is safe on the card is older than what waits in buf, which is      *)
(* older than what is in the ring; a file that is emptied, flushed or      *)
(* renamed keeps that.                                                     *)

Before(S, T) == \A r \in S : \A q \in T : r < q

Sequenced ==
    /\ InOrder(buf) /\ InOrder(ring)
    /\ Before(SafeRows, Rows(buf)) /\ Before(SafeRows, Rows(ring))
    /\ Before(Rows(buf), Rows(ring))
    /\ \A r \in SafeRows \cup Rows(buf) \cup Rows(ring) : r <= captured

(* Where the logger task is, and the file it has in hand.                  *)
Handled ==
    /\ fileOpen => mounted /\ fileIdx \in DOMAIN tmp
    /\ phase \in {"drain", "seal", "sync"} => fileOpen
    /\ phase \in {"mount", "open", "rename"} => ~ fileOpen
    /\ phase = "open" => mounted
    /\ phase = "rename" => fileIdx \in DOMAIN tmp
    /\ fileOpen /\ phase # "seal" => fileSize < FileRows
    /\ ~ fileOpen => buf = <<>>

(* Every file that was sealed since the mount took a record out of the     *)
(* ring, so the file numbers stay within FileNo.                           *)
Numbered ==
    fileIdx + Len(ring) + (IF phase \in {"seal", "rename"} THEN 1 ELSE 0) <= Indices + captured

Sized ==
    /\ captured \in 0 .. MaxRecords
    /\ ring \in Seq(Record) /\ Len(ring) <= RingCapacity /\ Len(ring) <= captured
    /\ phase \in Phases
    /\ mounted \in BOOLEAN /\ fileOpen \in BOOLEAN
    /\ present \in BOOLEAN /\ settled \in BOOLEAN
    /\ fileIdx \in Nat /\ fileSize \in 0 .. FileRows
    /\ sinceSync \in 0 .. SyncTicks + 1 /\ age \in 0 .. SyncTicks + 2
    /\ buf \in Seq(Record)

CardTypes ==
    /\ DOMAIN tmp \subseteq FileNo /\ \A i \in DOMAIN tmp : tmp[i] \in Seq(Record)
    /\ DOMAIN csv \subseteq FileNo /\ \A i \in DOMAIN csv : csv[i] \in Seq(Record)

Card == CardTypes /\ RowsOnceInOrder

Ledger == Sized /\ Handled /\ Numbered /\ Sequenced /\ Card

LEMMA Parameters ==
    /\ MaxRecords \in Nat /\ MaxRecords > 0 /\ RingCapacity \in Nat /\ RingCapacity > 0
    /\ FileRows \in Nat /\ FileRows > 0 /\ Indices \in Nat /\ Indices > 0
    /\ SyncTicks \in Nat /\ SyncTicks > 0
<1>1. /\ MaxRecords \in Nat \ {0} /\ RingCapacity \in Nat \ {0} /\ FileRows \in Nat \ {0}
      /\ Indices \in Nat \ {0} /\ SyncTicks \in Nat \ {0}
    BY LoggerAssumption
<1> QED
    BY <1>1

LEMMA FileNumber ==
    ASSUME Sized, Numbered
    PROVE  fileIdx \in FileNo
<1>1. Len(ring) \in Nat /\ captured \in Nat /\ captured <= MaxRecords /\ fileIdx \in Nat
    BY LenProperties, Parameters DEF Sized
<1>2. fileIdx <= Indices + captured
    BY <1>1, Parameters DEF Numbered
<1> QED
    BY <1>1, <1>2, Parameters DEF FileNo

-----------------------------------------------------------------------------
(* The rows of a sequence of records.                                      *)

LEMMA RowsAreRecords ==
    ASSUME NEW s \in Seq(Record)
    PROVE  Rows(s) \subseteq Record /\ Rows(s) \subseteq Nat
BY LenProperties, Parameters DEF Rows, Record

LEMMA RowsOfEmpty == Rows(<<>>) = {} /\ InOrder(<<>>) /\ <<>> \in Seq(Record)
BY EmptySeq DEF Rows, InOrder

LEMMA RowsOfConcat ==
    ASSUME NEW s \in Seq(Record), NEW t \in Seq(Record)
    PROVE  /\ s \o t \in Seq(Record) /\ Rows(s \o t) = Rows(s) \cup Rows(t)
           /\ InOrder(s) /\ InOrder(t) /\ Before(Rows(s), Rows(t)) => InOrder(s \o t)
<1>1. /\ s \o t \in Seq(Record) /\ Len(s \o t) = Len(s) + Len(t)
      /\ \A i \in 1 .. Len(s) + Len(t) :
             (s \o t)[i] = IF i <= Len(s) THEN s[i] ELSE t[i - Len(s)]
    BY ConcatProperties
<1>2. Len(s) \in Nat /\ Len(t) \in Nat /\ DOMAIN s = 1 .. Len(s) /\ DOMAIN t = 1 .. Len(t)
      /\ DOMAIN (s \o t) = 1 .. Len(s) + Len(t)
    BY <1>1, LenProperties
<1>3. Rows(s \o t) \subseteq Rows(s) \cup Rows(t)
    <2> SUFFICES ASSUME NEW i \in 1 .. Len(s) + Len(t)
                 PROVE  (s \o t)[i] \in Rows(s) \cup Rows(t)
        BY <1>2 DEF Rows
    <2>1. CASE i <= Len(s)
        BY <2>1, <1>1, <1>2 DEF Rows
    <2>2. CASE ~ (i <= Len(s))
        <3>1. i - Len(s) \in 1 .. Len(t)
            BY <2>2, <1>2
        <3> QED
            BY <2>2, <3>1, <1>1, <1>2 DEF Rows
    <2> QED
        BY <2>1, <2>2
<1>4. Rows(s) \subseteq Rows(s \o t)
    <2> SUFFICES ASSUME NEW i \in 1 .. Len(s)
                 PROVE  s[i] \in Rows(s \o t)
        BY <1>2 DEF Rows
    <2>1. i \in 1 .. Len(s) + Len(t) /\ (s \o t)[i] = s[i]
        BY <1>1, <1>2
    <2> QED
        BY <2>1, <1>2 DEF Rows
<1>5. Rows(t) \subseteq Rows(s \o t)
    <2> SUFFICES ASSUME NEW i \in 1 .. Len(t)
                 PROVE  t[i] \in Rows(s \o t)
        BY <1>2 DEF Rows
    <2>1. i + Len(s) \in 1 .. Len(s) + Len(t) /\ (s \o t)[i + Len(s)] = t[i]
        BY <1>1, <1>2
    <2> QED
        BY <2>1, <1>2 DEF Rows
<1>6. ASSUME InOrder(s), InOrder(t), Before(Rows(s), Rows(t))
      PROVE  InOrder(s \o t)
    <2> SUFFICES ASSUME NEW j \in 1 .. Len(s) + Len(t), NEW k \in 1 .. Len(s) + Len(t), j < k
                 PROVE  (s \o t)[j] < (s \o t)[k]
        BY <1>2 DEF InOrder
    <2>1. CASE k <= Len(s)
        <3>1. (s \o t)[j] = s[j] /\ (s \o t)[k] = s[k] /\ j \in DOMAIN s /\ k \in DOMAIN s
            BY <2>1, <1>1, <1>2
        <3> QED
            BY <3>1, <1>6 DEF InOrder
    <2>2. CASE ~ (k <= Len(s)) /\ j <= Len(s)
        <3>1. k - Len(s) \in DOMAIN t /\ j \in DOMAIN s
            BY <2>2, <1>2
        <3>2. (s \o t)[j] = s[j] /\ (s \o t)[k] = t[k - Len(s)]
            BY <2>2, <1>1
        <3>3. s[j] \in Rows(s) /\ t[k - Len(s)] \in Rows(t)
            BY <3>1 DEF Rows
        <3> QED
            BY <3>2, <3>3, <1>6 DEF Before
    <2>3. CASE ~ (k <= Len(s)) /\ ~ (j <= Len(s))
        <3>1. k - Len(s) \in DOMAIN t /\ j - Len(s) \in DOMAIN t /\ j - Len(s) < k - Len(s)
            BY <2>3, <1>2
        <3>2. (s \o t)[j] = t[j - Len(s)] /\ (s \o t)[k] = t[k - Len(s)]
            BY <2>3, <1>1
        <3> QED
            BY <3>1, <3>2, <1>6 DEF InOrder
    <2> QED
        BY <2>1, <2>2, <2>3, <1>2
<1> QED
    BY <1>1, <1>3, <1>4, <1>5, <1>6

LEMMA RowsOfAppend ==
    ASSUME NEW s \in Seq(Record), NEW r \in Record
    PROVE  /\ Append(s, r) \in Seq(Record) /\ Len(Append(s, r)) = Len(s) + 1
           /\ Rows(Append(s, r)) = Rows(s) \cup {r}
           /\ InOrder(s) /\ (\A q \in Rows(s) : q < r) => InOrder(Append(s, r))
<1>1. /\ Append(s, r) \in Seq(Record) /\ Len(Append(s, r)) = Len(s) + 1
      /\ \A i \in 1 .. Len(s) : Append(s, r)[i] = s[i]
      /\ Append(s, r)[Len(s) + 1] = r
    BY AppendProperties
<1>2. Len(s) \in Nat /\ DOMAIN s = 1 .. Len(s) /\ DOMAIN Append(s, r) = 1 .. Len(s) + 1
    BY <1>1, LenProperties
<1>3. Rows(Append(s, r)) = Rows(s) \cup {r}
    <2>1. \A i \in 1 .. Len(s) + 1 : i \in 1 .. Len(s) \/ i = Len(s) + 1
        BY <1>2
    <2>2. Rows(Append(s, r)) \subseteq Rows(s) \cup {r}
        BY <1>1, <1>2, <2>1 DEF Rows
    <2>3. 1 .. Len(s) \subseteq 1 .. Len(s) + 1 /\ Len(s) + 1 \in 1 .. Len(s) + 1
        BY <1>2
    <2>4. Rows(s) \subseteq Rows(Append(s, r))
        <3> SUFFICES ASSUME NEW i \in 1 .. Len(s) PROVE s[i] \in Rows(Append(s, r))
            BY <1>2 DEF Rows
        <3>1. Append(s, r)[i] = s[i] /\ i \in DOMAIN Append(s, r)
            BY <1>1, <1>2, <2>3
        <3> QED
            BY <3>1 DEF Rows
    <2>5. r \in Rows(Append(s, r))
        BY <1>1, <1>2, <2>3 DEF Rows
    <2> QED
        BY <2>2, <2>4, <2>5
<1>4. ASSUME InOrder(s), \A q \in Rows(s) : q < r
      PROVE  InOrder(Append(s, r))
    <2> SUFFICES ASSUME NEW j \in 1 .. Len(s) + 1, NEW k \in 1 .. Len(s) + 1, j < k
                 PROVE  Append(s, r)[j] < Append(s, r)[k]
        BY <1>2 DEF InOrder
    <2>1. j \in 1 .. Len(s) /\ Append(s, r)[j] = s[j]
        BY <1>1, <1>2
    <2>2. CASE k = Len(s) + 1
        <3>1. s[j] \in Rows(s)
            BY <2>1, <1>2 DEF Rows
        <3> QED
            BY <2>1, <2>2, <3>1, <1>1, <1>4
    <2>3. CASE k # Len(s) + 1
        <3>1. k \in 1 .. Len(s) /\ Append(s, r)[k] = s[k]
            BY <2>3, <1>1, <1>2
        <3> QED
            BY <2>1, <3>1, <1>2, <1>4 DEF InOrder
    <2> QED
        BY <2>2, <2>3
<1> QED
    BY <1>1, <1>3, <1>4

LEMMA RowsOfTail ==
    ASSUME NEW s \in Seq(Record), s # <<>>
    PROVE  /\ Head(s) \in Record /\ Tail(s) \in Seq(Record) /\ Len(Tail(s)) = Len(s) - 1
           /\ Len(s) \in Nat /\ Len(s) > 0
           /\ Head(s) \in Rows(s) /\ Rows(Tail(s)) \subseteq Rows(s)
           /\ InOrder(s) => InOrder(Tail(s)) /\ \A q \in Rows(Tail(s)) : Head(s) < q
<1>1. /\ Head(s) = s[1] /\ Head(s) \in Record
      /\ Tail(s) \in Seq(Record) /\ Len(Tail(s)) = Len(s) - 1
      /\ \A i \in 1 .. Len(Tail(s)) : Tail(s)[i] = s[i + 1]
    BY HeadTailProperties
<1>2. Len(s) \in Nat /\ Len(s) > 0 /\ DOMAIN s = 1 .. Len(s)
      /\ DOMAIN Tail(s) = 1 .. Len(s) - 1
    BY <1>1, LenProperties, EmptySeq
<1>3. 1 \in DOMAIN s /\ \A i \in DOMAIN Tail(s) : i + 1 \in DOMAIN s /\ Tail(s)[i] = s[i + 1]
    BY <1>1, <1>2
<1>4. Head(s) \in Rows(s) /\ Rows(Tail(s)) \subseteq Rows(s)
    BY <1>1, <1>3 DEF Rows
<1>5. ASSUME InOrder(s)
      PROVE  InOrder(Tail(s)) /\ \A q \in Rows(Tail(s)) : Head(s) < q
    <2>1. ASSUME NEW j \in DOMAIN Tail(s), NEW k \in DOMAIN Tail(s), j < k
          PROVE  Tail(s)[j] < Tail(s)[k]
        <3>1. j + 1 < k + 1
            BY <2>1, <1>2
        <3> QED
            BY <3>1, <1>3, <1>5 DEF InOrder
    <2>2. ASSUME NEW i \in DOMAIN Tail(s)
          PROVE  Head(s) < Tail(s)[i]
        <3>1. 1 < i + 1
            BY <1>2
        <3> QED
            BY <3>1, <1>1, <1>3, <1>5 DEF InOrder
    <2> QED
        BY <2>1, <2>2 DEF InOrder, Rows
<1> QED
    BY <1>1, <1>2, <1>4, <1>5

-----------------------------------------------------------------------------
(* What an action does to the card.                                        *)

LEMMA CardStill ==
    ASSUME Card, UNCHANGED <<tmp, csv>>
    PROVE  Card' /\ SafeRows' = SafeRows
<1>1. CardTypes'
    BY DEF Card, CardTypes
<1>2. RowsOnceInOrder'
    BY DEF Card, RowsOnceInOrder, InOrder, Rows
<1>3. SafeRows' = SafeRows
    BY DEF SafeRows, Rows
<1> QED
    BY <1>1, <1>2, <1>3 DEF Card

(* A file may be given rows that no other file has.                        *)
LEMMA PutCard ==
    ASSUME Card, fileIdx \in FileNo, NEW rows \in Seq(Record), InOrder(rows),
           \A i \in DOMAIN tmp \ {fileIdx} : Rows(rows) \cap Rows(tmp[i]) = {},
           \A i \in DOMAIN csv : Rows(rows) \cap Rows(csv[i]) = {},
           tmp' = Put(tmp, fileIdx, rows), csv' = csv
    PROVE  /\ Card' /\ DOMAIN tmp' = DOMAIN tmp \cup {fileIdx}
           /\ SafeRows' \subseteq SafeRows \cup Rows(rows)
<1>1. /\ DOMAIN tmp' = DOMAIN tmp \cup {fileIdx}
      /\ tmp'[fileIdx] = rows
      /\ \A i \in DOMAIN tmp \ {fileIdx} : tmp'[i] = tmp[i]
    BY DEF Put
<1>2. CardTypes'
    BY <1>1 DEF Card, CardTypes
<1>3. /\ \A i \in DOMAIN tmp' : InOrder(tmp'[i])
      /\ \A i \in DOMAIN csv' : InOrder(csv'[i])
    BY <1>1 DEF Card, RowsOnceInOrder
<1>4. \A i \in DOMAIN csv' : \A j \in DOMAIN csv' \ {i} : Rows(csv'[i]) \cap Rows(csv'[j]) = {}
    BY DEF Card, RowsOnceInOrder
<1>5. ASSUME NEW i \in DOMAIN csv', NEW j \in DOMAIN tmp'
      PROVE  Rows(csv'[i]) \cap Rows(tmp'[j]) = {}
    <2>1. CASE j = fileIdx
        BY <2>1, <1>1, <1>5
    <2>2. CASE j # fileIdx
        BY <2>2, <1>1, <1>5 DEF Card, RowsOnceInOrder
    <2> QED
        BY <2>1, <2>2
<1>6. ASSUME NEW i \in DOMAIN tmp', NEW j \in DOMAIN tmp' \ {i}
      PROVE  Rows(tmp'[i]) \cap Rows(tmp'[j]) = {}
    <2>1. CASE i = fileIdx
        BY <2>1, <1>1, <1>6
    <2>2. CASE j = fileIdx
        BY <2>2, <1>1, <1>6
    <2>3. CASE i # fileIdx /\ j # fileIdx
        BY <2>3, <1>1, <1>6 DEF Card, RowsOnceInOrder
    <2> QED
        BY <2>1, <2>2, <2>3
<1>7. RowsOnceInOrder'
    BY <1>3, <1>4, <1>5, <1>6 DEF RowsOnceInOrder, InOrder, Rows
<1>8. SafeRows' \subseteq SafeRows \cup Rows(rows)
    <2> SUFFICES ASSUME NEW r \in SafeRows', r \notin Rows(rows)
                 PROVE  r \in SafeRows
        OBVIOUS
    <2>1. CASE \E i \in DOMAIN tmp' : r \in Rows(tmp'[i])
        BY <2>1, <1>1 DEF SafeRows
    <2>2. CASE \E i \in DOMAIN csv' : r \in Rows(csv'[i])
        BY <2>2 DEF SafeRows
    <2> QED
        BY <2>1, <2>2 DEF SafeRows, Rows
<1> QED
    BY <1>1, <1>2, <1>7, <1>8 DEF Card

LEMMA EmptiedCard ==
    ASSUME Card, fileIdx \in FileNo, tmp' = Put(tmp, fileIdx, <<>>), csv' = csv
    PROVE  Card' /\ DOMAIN tmp' = DOMAIN tmp \cup {fileIdx} /\ SafeRows' \subseteq SafeRows
<1>1. Rows(<<>>) = {} /\ InOrder(<<>>) /\ <<>> \in Seq(Record)
    BY RowsOfEmpty
<1> QED
    BY <1>1, PutCard

(* The rows that wait for a sync are newer than every row on the card.     *)
LEMMA FlushedCard ==
    ASSUME Card, fileIdx \in DOMAIN tmp, buf \in Seq(Record), InOrder(buf),
           Before(SafeRows, Rows(buf)), tmp' = Flushed, csv' = csv
    PROVE  /\ Card' /\ DOMAIN tmp' = DOMAIN tmp
           /\ SafeRows' \subseteq SafeRows \cup Rows(buf)
<1> DEFINE rows == tmp[fileIdx] \o buf
<1>1. tmp[fileIdx] \in Seq(Record) /\ fileIdx \in FileNo /\ InOrder(tmp[fileIdx])
    BY DEF Card, CardTypes, RowsOnceInOrder
<1>2. Rows(tmp[fileIdx]) \subseteq SafeRows
    BY DEF SafeRows
<1>3. /\ rows \in Seq(Record) /\ Rows(rows) = Rows(tmp[fileIdx]) \cup Rows(buf)
      /\ InOrder(rows)
    BY <1>1, <1>2, RowsOfConcat DEF Before
<1>4. Rows(buf) \cap SafeRows = {}
    <2> SUFFICES ASSUME NEW r \in Rows(buf), r \in SafeRows PROVE FALSE
        OBVIOUS
    <2>1. r \in Nat /\ r < r
        BY RowsAreRecords DEF Before
    <2> QED
        BY <2>1
<1>5. ASSUME NEW i \in DOMAIN tmp \ {fileIdx}
      PROVE  Rows(rows) \cap Rows(tmp[i]) = {}
    <2>1. Rows(tmp[i]) \subseteq SafeRows
        BY DEF SafeRows
    <2>2. Rows(tmp[fileIdx]) \cap Rows(tmp[i]) = {}
        BY DEF Card, RowsOnceInOrder
    <2> QED
        BY <2>1, <2>2, <1>3, <1>4
<1>6. ASSUME NEW i \in DOMAIN csv
      PROVE  Rows(rows) \cap Rows(csv[i]) = {}
    <2>1. Rows(csv[i]) \subseteq SafeRows
        BY DEF SafeRows
    <2>2. Rows(tmp[fileIdx]) \cap Rows(csv[i]) = {}
        BY DEF Card, RowsOnceInOrder
    <2> QED
        BY <2>1, <2>2, <1>3, <1>4
<1>7. tmp' = Put(tmp, fileIdx, rows)
    BY DEF Flushed
<1> HIDE DEF rows
<1>8. /\ Card' /\ DOMAIN tmp' = DOMAIN tmp \cup {fileIdx}
      /\ SafeRows' \subseteq SafeRows \cup Rows(rows)
    BY <1>1, <1>3, <1>5, <1>6, <1>7, PutCard
<1> QED
    BY <1>2, <1>3, <1>8

LEMMA ClosedCard ==
    ASSUME Card, fileIdx \in DOMAIN tmp, buf \in Seq(Record), InOrder(buf),
           Before(SafeRows, Rows(buf)), tmp' \in Closed, csv' = csv
    PROVE  /\ Card' /\ DOMAIN tmp' = DOMAIN tmp
           /\ SafeRows' \subseteq SafeRows \cup Rows(buf)
<1>1. tmp' = tmp \/ tmp' = Flushed
    BY DEF Closed
<1> QED
    BY <1>1, CardStill, FlushedCard

(* A file is sealed under a number that no sealed file has.                *)
LEMMA RenamedCard ==
    ASSUME Card, fileIdx \in DOMAIN tmp, ~ Sealed(fileIdx), Renamed
    PROVE  Card' /\ SafeRows' \subseteq SafeRows
<1>1. /\ DOMAIN tmp' = DOMAIN tmp \ {fileIdx}
      /\ \A i \in DOMAIN tmp' : tmp'[i] = tmp[i]
    BY DEF Renamed
<1>2. /\ DOMAIN csv' = DOMAIN csv \cup {fileIdx} /\ csv'[fileIdx] = tmp[fileIdx]
      /\ \A i \in DOMAIN csv : csv'[i] = csv[i]
    BY DEF Renamed, Put, Sealed
<1>3. CardTypes'
    BY <1>1, <1>2 DEF Card, CardTypes
<1>4. /\ \A i \in DOMAIN tmp' : InOrder(tmp'[i])
      /\ \A i \in DOMAIN csv' : InOrder(csv'[i])
    BY <1>1, <1>2 DEF Card, RowsOnceInOrder
<1>5. ASSUME NEW i \in DOMAIN csv', NEW j \in DOMAIN csv' \ {i}
      PROVE  Rows(csv'[i]) \cap Rows(csv'[j]) = {}
    <2>1. CASE i = fileIdx
        <3>1. j \in DOMAIN csv /\ Rows(csv[j]) \cap Rows(tmp[fileIdx]) = {}
            BY <2>1, <1>2, <1>5 DEF Card, RowsOnceInOrder
        <3> QED
            BY <2>1, <3>1, <1>2
    <2>2. CASE j = fileIdx
        BY <2>2, <1>2, <1>5 DEF Card, RowsOnceInOrder
    <2>3. CASE i # fileIdx /\ j # fileIdx
        BY <2>3, <1>2, <1>5 DEF Card, RowsOnceInOrder
    <2> QED
        BY <2>1, <2>2, <2>3
<1>6. ASSUME NEW i \in DOMAIN csv', NEW j \in DOMAIN tmp'
      PROVE  Rows(csv'[i]) \cap Rows(tmp'[j]) = {}
    <2>1. CASE i = fileIdx
        BY <2>1, <1>1, <1>2, <1>6 DEF Card, RowsOnceInOrder
    <2>2. CASE i # fileIdx
        BY <2>2, <1>1, <1>2, <1>6 DEF Card, RowsOnceInOrder
    <2> QED
        BY <2>1, <2>2
<1>7. \A i \in DOMAIN tmp' : \A j \in DOMAIN tmp' \ {i} : Rows(tmp'[i]) \cap Rows(tmp'[j]) = {}
    BY <1>1 DEF Card, RowsOnceInOrder
<1>8. RowsOnceInOrder'
    BY <1>4, <1>5, <1>6, <1>7 DEF RowsOnceInOrder, InOrder, Rows
<1>9. SafeRows' \subseteq SafeRows
    <2> SUFFICES ASSUME NEW r \in SafeRows' PROVE r \in SafeRows
        OBVIOUS
    <2>1. CASE \E i \in DOMAIN tmp' : r \in Rows(tmp'[i])
        BY <2>1, <1>1 DEF SafeRows
    <2>2. CASE \E i \in DOMAIN csv' : r \in Rows(csv'[i])
        BY <2>2, <1>2 DEF SafeRows
    <2> QED
        BY <2>1, <2>2 DEF SafeRows, Rows
<1> QED
    BY <1>3, <1>8, <1>9 DEF Card

-----------------------------------------------------------------------------
(* One step at a time.                                                     *)

LEMMA InitLedger == Init => Ledger
<1> SUFFICES ASSUME Init PROVE Ledger
    OBVIOUS
<1> USE DEF Init
<1>1. ring = <<>> /\ buf = <<>> /\ ring \in Seq(Record) /\ Len(ring) = 0
    BY RowsOfEmpty, EmptySeq
<1>2. Sized
    <2>1. present \in BOOLEAN
        BY LoggerAssumption
    <2>2. 0 \in Nat /\ 0 \in 0 .. MaxRecords /\ 0 \in 0 .. FileRows /\ 0 <= RingCapacity
          /\ 0 \in 0 .. SyncTicks + 1 /\ 0 \in 0 .. SyncTicks + 2
        BY Parameters
    <2>3. /\ captured = 0 /\ fileIdx = 0 /\ fileSize = 0 /\ sinceSync = 0 /\ age = 0
          /\ phase \in Phases /\ mounted = FALSE /\ fileOpen = FALSE /\ settled = FALSE
        BY DEF Phases
    <2>4. buf \in Seq(Record) /\ Len(ring) <= RingCapacity /\ Len(ring) <= captured
        BY <1>1, <2>2, <2>3
    <2> HIDE DEF Init
    <2> QED
        BY <1>1, <2>1, <2>2, <2>3, <2>4 DEF Sized
<1>3. DOMAIN tmp = {} /\ DOMAIN csv = {}
    BY DEF Empty
<1>4. Card /\ SafeRows = {}
    BY <1>3 DEF Card, CardTypes, RowsOnceInOrder, SafeRows
<1>5. Handled /\ Numbered
    BY <1>1, Parameters DEF Handled, Numbered
<1>6. Sequenced
    BY <1>1, <1>4, RowsOfEmpty DEF Sequenced, Before
<1> QED
    BY <1>2, <1>4, <1>5, <1>6 DEF Ledger

(* Rows move from buf onto the card, or are lost, in the order they had.   *)
LEMMA SequencedKept ==
    ASSUME Sequenced, captured' = captured, InOrder(ring'), Rows(ring') \subseteq Rows(ring),
           \/ SafeRows' \subseteq SafeRows /\ buf' = buf
           \/ SafeRows' \subseteq SafeRows \cup Rows(buf) /\ buf' = <<>>
    PROVE  Sequenced'
<1>1. InOrder(buf') /\ Rows(buf') \subseteq Rows(buf)
    BY RowsOfEmpty DEF Sequenced
<1>2. Before(SafeRows', Rows(buf'))
    BY RowsOfEmpty DEF Sequenced, Before
<1>3. Before(SafeRows', Rows(ring')) /\ Before(Rows(buf'), Rows(ring'))
    BY <1>1 DEF Sequenced, Before
<1>4. \A r \in SafeRows' \cup Rows(buf') \cup Rows(ring') : r <= captured'
    BY <1>1 DEF Sequenced
<1>5. \A S, T : Before(S, T) <=> \A r \in S : \A q \in T : r < q
    BY DEF Before
<1> QED
    BY <1>1, <1>2, <1>3, <1>4, <1>5 DEF Sequenced, InOrder, Rows, Before

LEMMA FilesStill ==
    ASSUME Ledger, UNCHANGED <<captured, ring, buf, tmp, csv>>
    PROVE  Sequenced' /\ Card' /\ DOMAIN tmp' = DOMAIN tmp
<1>1. Card' /\ SafeRows' = SafeRows
    BY CardStill DEF Ledger
<1>2. InOrder(ring') /\ Rows(ring') = Rows(ring)
    BY DEF Ledger, Sequenced
<1> QED
    BY <1>1, <1>2, SequencedKept DEF Ledger

LEMMA LedgerPush == Ledger /\ Push => Ledger'
<1> SUFFICES ASSUME Ledger, Push PROVE Ledger'
    OBVIOUS
<1> USE DEF Push, taskVars, cardVars
<1>1. captured \in Nat /\ captured' = captured + 1 /\ captured' \in 0 .. MaxRecords
      /\ captured + 1 \in Record
    BY Parameters DEF Ledger, Sized, Record
<1>2. Card' /\ SafeRows' = SafeRows
    BY CardStill DEF Ledger
<1>3. ring \in Seq(Record) /\ Len(ring) \in Nat /\ Len(ring) <= RingCapacity
      /\ Len(ring) <= captured
    BY LenProperties DEF Ledger, Sized
<1>4. /\ ring' \in Seq(Record)
      /\ ring' = ring \/ (Len(ring') = Len(ring) + 1 /\ Len(ring) < RingCapacity)
    BY <1>1, <1>3, RowsOfAppend
<1>5. SafeRows \cup Rows(buf) \cup Rows(ring) \subseteq Nat
    <2>1. \A i \in DOMAIN tmp : Rows(tmp[i]) \subseteq Nat
        BY RowsAreRecords DEF Ledger, Card, CardTypes
    <2>2. \A i \in DOMAIN csv : Rows(csv[i]) \subseteq Nat
        BY RowsAreRecords DEF Ledger, Card, CardTypes
    <2>3. SafeRows \subseteq Nat
        BY <2>1, <2>2 DEF SafeRows
    <2> QED
        BY <2>3, <1>3, RowsAreRecords DEF Ledger, Sized
<1>6. \A r \in SafeRows \cup Rows(buf) \cup Rows(ring) : r < captured + 1 /\ r <= captured + 1
    BY <1>1, <1>5 DEF Ledger, Sequenced
<1>7. /\ InOrder(ring')
      /\ Rows(ring') \subseteq Rows(ring) \cup {captured + 1}
    BY <1>1, <1>3, <1>6, RowsOfAppend DEF Ledger, Sequenced
<1>8. Sequenced'
    <2>1. Before(SafeRows, Rows(ring')) /\ Before(Rows(buf), Rows(ring'))
        BY <1>6, <1>7 DEF Ledger, Sequenced, Before
    <2>2. \A r \in SafeRows \cup Rows(buf) \cup Rows(ring') : r <= captured + 1
        BY <1>1, <1>6, <1>7
    <2> QED
        BY <1>1, <1>2, <1>7, <2>1, <2>2 DEF Ledger, Sequenced, Before, InOrder, Rows
<1>9. Sized'
    BY <1>1, <1>3, <1>4, Parameters DEF Ledger, Sized
<1>10. Numbered'
    <2>1. fileIdx \in Nat /\ fileIdx' = fileIdx /\ phase' = phase
        BY DEF Ledger, Sized
    <2>2. Len(ring') \in Nat /\ Len(ring') <= Len(ring) + 1
        BY <1>3, <1>4
    <2> HIDE DEF Push
    <2> QED
        BY <2>1, <2>2, <1>1, <1>3, Parameters DEF Ledger, Numbered
<1>11. Handled'
    BY DEF Ledger, Handled
<1> QED
    BY <1>2, <1>8, <1>9, <1>10, <1>11 DEF Ledger

LEMMA LedgerWake == Ledger /\ Wake => Ledger'
<1> SUFFICES ASSUME Ledger, Wake PROVE Ledger'
    OBVIOUS
<1> USE DEF Wake, cardVars
<1>1. Sequenced' /\ Card'
    BY FilesStill
<1>2. sinceSync' \in 0 .. SyncTicks + 1 /\ age' \in 0 .. SyncTicks + 2
    BY Parameters DEF Ledger, Sized, AtMost
<1>3. Sized'
    BY <1>2 DEF Ledger, Sized, Phases
<1>4. Handled' /\ Numbered'
    BY DEF Ledger, Handled, Numbered, Sized
<1> QED
    BY <1>1, <1>3, <1>4 DEF Ledger

(* The number of a new file is one that next_free_index looked at.         *)
LEMMA LedgerMount == Ledger /\ Mount => Ledger'
<1> SUFFICES ASSUME Ledger, Mount PROVE Ledger'
    OBVIOUS
<1> USE DEF Mount, cardVars
<1>1. Sequenced' /\ Card'
    BY FilesStill
<1>2. fileIdx' \in Nat /\ fileIdx' <= Indices
    BY Parameters DEF NextFreeIndex
<1>3. Sized'
    BY <1>2 DEF Ledger, Sized, Phases
<1>4. Handled'
    BY DEF Ledger, Handled
<1>5. Numbered'
    <2>1. Len(ring) \in Nat /\ captured \in Nat /\ Len(ring) <= captured
        BY LenProperties, Parameters DEF Ledger, Sized
    <2> QED
        BY <2>1, <1>2, Parameters DEF Numbered
<1> QED
    BY <1>1, <1>3, <1>4, <1>5 DEF Ledger

(* What is in the ring may be thrown away: the order of the rest stays.    *)
LEMMA Discarded ==
    ASSUME Ledger, ring' = <<>>, captured' = captured
    PROVE  /\ ring' \in Seq(Record) /\ Len(ring') = 0 /\ 0 <= RingCapacity /\ 0 <= captured
           /\ InOrder(ring') /\ Rows(ring') \subseteq Rows(ring)
           /\ captured \in Nat /\ Len(ring) \in Nat
<1>1. captured \in Nat /\ Len(ring) \in Nat
    BY LenProperties, Parameters DEF Ledger, Sized
<1> QED
    BY <1>1, RowsOfEmpty, EmptySeq, Parameters

LEMMA LedgerMountFails == Ledger /\ MountFails => Ledger'
<1> SUFFICES ASSUME Ledger, MountFails PROVE Ledger'
    OBVIOUS
<1> USE DEF MountFails, cardVars
<1>1. Card' /\ SafeRows' = SafeRows
    BY CardStill DEF Ledger
<1>2. Sequenced'
    BY <1>1, Discarded, SequencedKept DEF Ledger
<1>3. Sized'
    BY Discarded DEF Ledger, Sized, Phases
<1>4. Handled'
    BY DEF Ledger, Handled
<1>5. Numbered'
    <2>1. fileIdx \in Nat
        BY DEF Ledger, Sized
    <2> QED
        BY <2>1, Discarded, Parameters DEF Ledger, Numbered
<1> QED
    BY <1>1, <1>2, <1>3, <1>4, <1>5 DEF Ledger

(* The header spans sectors, so creating a file empties what was there.    *)
LEMMA LedgerOpenNewFile == Ledger /\ OpenNewFile => Ledger'
<1> SUFFICES ASSUME Ledger, OpenNewFile PROVE Ledger'
    OBVIOUS
<1> USE DEF OpenNewFile
<1>1. Card' /\ DOMAIN tmp' = DOMAIN tmp \cup {fileIdx} /\ SafeRows' \subseteq SafeRows
    BY FileNumber, EmptiedCard DEF Ledger
<1>2. InOrder(ring') /\ Rows(ring') \subseteq Rows(ring)
    BY DEF Ledger, Sequenced
<1>3. Sequenced'
    BY <1>1, <1>2, SequencedKept DEF Ledger
<1>4. fileSize' \in 0 .. FileRows /\ fileSize' < FileRows
    BY Parameters
<1>5. Sized'
    BY <1>4 DEF Ledger, Sized, Phases
<1>6. Handled' /\ Numbered'
    BY <1>1, <1>4 DEF Ledger, Handled, Numbered
<1> QED
    BY <1>1, <1>3, <1>5, <1>6 DEF Ledger

LEMMA LedgerOpenFails == Ledger /\ OpenFails => Ledger'
<1> SUFFICES ASSUME Ledger, OpenFails PROVE Ledger'
    OBVIOUS
<1> USE DEF OpenFails
<1>1. Card' /\ SafeRows' \subseteq SafeRows
    <2>1. tmp' = tmp \/ tmp' = Put(tmp, fileIdx, <<>>)
        OBVIOUS
    <2> QED
        BY <2>1, FileNumber, CardStill, EmptiedCard DEF Ledger
<1>2. InOrder(ring') /\ Rows(ring') \subseteq Rows(ring)
    BY DEF Ledger, Sequenced
<1>3. Sequenced'
    BY <1>1, <1>2, SequencedKept DEF Ledger
<1>4. Sized'
    BY DEF Ledger, Sized, Phases
<1>5. Handled' /\ Numbered'
    BY DEF Ledger, Handled, Numbered
<1> QED
    BY <1>1, <1>3, <1>4, <1>5 DEF Ledger

LEMMA LedgerWriteRow == Ledger /\ WriteRow => Ledger'
<1> SUFFICES ASSUME Ledger, WriteRow PROVE Ledger'
    OBVIOUS
<1> USE DEF WriteRow, cardVars
<1>1. Card' /\ SafeRows' = SafeRows
    BY CardStill DEF Ledger
<1>2. ring \in Seq(Record) /\ ring # <<>> /\ buf \in Seq(Record)
    BY DEF Ledger, Sized
<1>3. /\ Head(ring) \in Record /\ ring' \in Seq(Record) /\ Len(ring') = Len(ring) - 1
      /\ Len(ring) \in Nat /\ Len(ring) > 0
      /\ Head(ring) \in Rows(ring) /\ Rows(ring') \subseteq Rows(ring)
      /\ InOrder(ring') /\ \A q \in Rows(ring') : Head(ring) < q
    BY <1>2, RowsOfTail DEF Ledger, Sequenced
<1>4. /\ buf' \in Seq(Record) /\ Rows(buf') = Rows(buf) \cup {Head(ring)}
      /\ InOrder(buf')
    BY <1>2, <1>3, RowsOfAppend DEF Ledger, Sequenced, Before
<1>5. Sequenced'
    <2>1. Before(SafeRows, Rows(buf')) /\ Before(SafeRows, Rows(ring'))
        BY <1>3, <1>4 DEF Ledger, Sequenced, Before
    <2>2. Before(Rows(buf'), Rows(ring'))
        BY <1>3, <1>4 DEF Ledger, Sequenced, Before
    <2>3. \A r \in SafeRows \cup Rows(buf') \cup Rows(ring') : r <= captured
        BY <1>3, <1>4 DEF Ledger, Sequenced
    <2> QED
        BY <1>1, <1>3, <1>4, <2>1, <2>2, <2>3 DEF Sequenced, Before, InOrder, Rows
<1>6. /\ fileSize' \in 0 .. FileRows
      /\ phase' # "seal" => fileSize' < FileRows
      /\ phase' \in {"drain", "seal"}
    <2>1. fileSize \in Nat /\ fileSize < FileRows
        BY Parameters DEF Ledger, Sized, Handled
    <2> QED
        BY <2>1, Parameters
<1>7. captured \in Nat /\ Len(ring) <= captured /\ Len(ring) <= RingCapacity /\ fileIdx \in Nat
    BY Parameters DEF Ledger, Sized
<1>8. Sized'
    BY <1>3, <1>4, <1>6, <1>7, Parameters DEF Ledger, Sized, Phases
<1>9. Handled'
    BY <1>6 DEF Ledger, Handled
<1>10. Numbered'
    <2>1. fileIdx' = fileIdx /\ captured' = captured /\ phase' # "rename"
        BY <1>6
    <2>2. fileIdx + Len(ring) <= Indices + captured
        BY <1>3, <1>7, Parameters DEF Ledger, Numbered
    <2> HIDE DEF WriteRow
    <2> QED
        BY <2>1, <2>2, <1>3, <1>7, Parameters DEF Numbered
<1> QED
    BY <1>1, <1>5, <1>8, <1>9, <1>10 DEF Ledger

LEMMA TeardownCard ==
    ASSUME Ledger, Teardown, csv' = csv
    PROVE  Card' /\ SafeRows' \subseteq SafeRows \cup Rows(buf)
<1>1. CASE fileOpen
    <2>1. fileIdx \in DOMAIN tmp /\ tmp' \in Closed
        BY <1>1 DEF Ledger, Handled, Teardown
    <2> QED
        BY <2>1, ClosedCard DEF Ledger, Sized, Sequenced
<1>2. CASE ~ fileOpen
    <2>1. tmp' = tmp
        BY <1>2 DEF Teardown
    <2> QED
        BY <2>1, CardStill DEF Ledger
<1> QED
    BY <1>1, <1>2

(* Whatever is left of the ring, a torn-down volume keeps the ledger.      *)
LEMMA TeardownLedger ==
    ASSUME Ledger, Teardown, ring' \in Seq(Record), Len(ring') \in Nat, Len(ring') <= Len(ring),
           InOrder(ring'), Rows(ring') \subseteq Rows(ring), sinceSync' \in 0 .. SyncTicks + 1,
           UNCHANGED <<captured, fileIdx, fileSize, csv, present, settled>>
    PROVE  Ledger'
<1>1. Card' /\ SafeRows' \subseteq SafeRows \cup Rows(buf)
    BY TeardownCard
<1>2. /\ buf' = <<>> /\ age' = 0 /\ fileOpen' = FALSE /\ mounted' = FALSE /\ phase' = "wait"
    BY DEF Teardown
<1>3. Sequenced'
    BY <1>1, <1>2, SequencedKept DEF Ledger
<1>4. Len(ring) \in Nat /\ Len(ring) <= captured /\ Len(ring) <= RingCapacity
      /\ captured \in Nat /\ fileIdx \in Nat
    BY LenProperties, Parameters DEF Ledger, Sized
<1>5. Len(ring') <= captured /\ Len(ring') <= RingCapacity /\ age' \in 0 .. SyncTicks + 2
    BY <1>2, <1>4, Parameters
<1>6. Sized'
    BY <1>2, <1>5, RowsOfEmpty DEF Ledger, Sized, Phases
<1>7. Handled'
    BY <1>2 DEF Ledger, Handled
<1>8. Numbered'
    BY <1>2, <1>4, Parameters DEF Ledger, Numbered
<1> QED
    BY <1>1, <1>3, <1>6, <1>7, <1>8 DEF Ledger

LEMMA LedgerWriteFails == Ledger /\ WriteFails => Ledger'
<1> SUFFICES ASSUME Ledger, WriteFails PROVE Ledger'
    OBVIOUS
<1>1. ring \in Seq(Record) /\ ring # <<>> /\ ring' = Tail(ring)
    BY DEF WriteFails, Ledger, Sized
<1>2. /\ ring' \in Seq(Record) /\ Len(ring') = Len(ring) - 1
      /\ Len(ring) \in Nat /\ Len(ring) > 0
      /\ Rows(ring') \subseteq Rows(ring) /\ InOrder(ring')
    BY <1>1, RowsOfTail DEF Ledger, Sequenced
<1>3. Len(ring') \in Nat /\ Len(ring') <= Len(ring)
    BY <1>2
<1>4. sinceSync' \in 0 .. SyncTicks + 1
    BY DEF WriteFails, Ledger, Sized
<1> QED
    BY <1>2, <1>3, <1>4, TeardownLedger DEF WriteFails

LEMMA LedgerSyncFails == Ledger /\ SyncFails => Ledger'
<1> SUFFICES ASSUME Ledger, SyncFails PROVE Ledger'
    OBVIOUS
<1>1. /\ ring' \in Seq(Record) /\ Len(ring') \in Nat /\ Len(ring') <= Len(ring)
      /\ Rows(ring') \subseteq Rows(ring) /\ InOrder(ring')
    BY LenProperties DEF SyncFails, Ledger, Sized, Sequenced
<1>2. sinceSync' \in 0 .. SyncTicks + 1
    BY Parameters DEF SyncFails
<1> QED
    BY <1>1, <1>2, TeardownLedger DEF SyncFails

LEMMA LedgerDrained == Ledger /\ Drained => Ledger'
<1> SUFFICES ASSUME Ledger, Drained PROVE Ledger'
    OBVIOUS
<1>1. Sequenced' /\ Card'
    BY FilesStill DEF Drained, cardVars
<1>2. Sized' /\ Handled' /\ Numbered'
    BY DEF Drained, cardVars, Ledger, Sized, Phases, Handled, Numbered
<1> QED
    BY <1>1, <1>2 DEF Ledger

(* The result of f_close is ignored: the rows may be on the card or lost.  *)
LEMMA LedgerSealClose == Ledger /\ SealClose => Ledger'
<1> SUFFICES ASSUME Ledger, SealClose PROVE Ledger'
    OBVIOUS
<1> USE DEF SealClose
<1>1. fileIdx \in DOMAIN tmp
    BY DEF Ledger, Handled
<1>2. Card' /\ DOMAIN tmp' = DOMAIN tmp /\ SafeRows' \subseteq SafeRows \cup Rows(buf)
    BY <1>1, ClosedCard DEF Ledger, Sized, Sequenced
<1>3. InOrder(ring') /\ Rows(ring') \subseteq Rows(ring)
    BY DEF Ledger, Sequenced
<1>4. Sequenced'
    BY <1>2, <1>3, SequencedKept DEF Ledger
<1>5. age' \in 0 .. SyncTicks + 2
    BY Parameters
<1>6. Sized'
    BY <1>5, RowsOfEmpty DEF Ledger, Sized, Phases
<1>7. Handled' /\ Numbered'
    BY <1>1, <1>2 DEF Ledger, Handled, Numbered
<1> QED
    BY <1>2, <1>4, <1>6, <1>7 DEF Ledger

(* The number moves on whether the rename worked or not.                   *)
LEMMA LedgerSealRename == Ledger /\ SealRename => Ledger'
<1> SUFFICES ASSUME Ledger, SealRename PROVE Ledger'
    OBVIOUS
<1> USE DEF SealRename
<1>1. Card' /\ SafeRows' \subseteq SafeRows
    <2>1. fileIdx \in DOMAIN tmp
        BY DEF Ledger, Handled
    <2>2. (~ Sealed(fileIdx) /\ Renamed) \/ UNCHANGED <<csv, tmp>>
        OBVIOUS
    <2> QED
        BY <2>1, <2>2, RenamedCard, CardStill DEF Ledger
<1>2. InOrder(ring') /\ Rows(ring') \subseteq Rows(ring)
    BY DEF Ledger, Sequenced
<1>3. Sequenced'
    BY <1>1, <1>2, SequencedKept DEF Ledger
<1>4. fileIdx \in Nat /\ fileIdx' = fileIdx + 1 /\ fileIdx' \in Nat
    BY DEF Ledger, Sized
<1>5. Sized'
    BY <1>4 DEF Ledger, Sized, Phases
<1>6. Handled'
    BY DEF Ledger, Handled
<1>7. Numbered'
    <2>1. Len(ring) \in Nat /\ captured \in Nat
        BY LenProperties, Parameters DEF Ledger, Sized
    <2>2. fileIdx + Len(ring) + 1 <= Indices + captured
        BY DEF Ledger, Numbered
    <2>3. phase' = "wait" /\ ring' = ring /\ captured' = captured
        OBVIOUS
    <2> HIDE DEF SealRename
    <2> QED
        BY <2>1, <2>2, <2>3, <1>4, Parameters DEF Numbered
<1> QED
    BY <1>1, <1>3, <1>5, <1>6, <1>7 DEF Ledger

LEMMA LedgerSync == Ledger /\ Sync => Ledger'
<1> SUFFICES ASSUME Ledger, Sync PROVE Ledger'
    OBVIOUS
<1> USE DEF Sync
<1>1. fileIdx \in DOMAIN tmp
    BY DEF Ledger, Handled
<1>2. Card' /\ DOMAIN tmp' = DOMAIN tmp /\ SafeRows' \subseteq SafeRows \cup Rows(buf)
    BY <1>1, FlushedCard DEF Ledger, Sized, Sequenced
<1>3. InOrder(ring') /\ Rows(ring') \subseteq Rows(ring)
    BY DEF Ledger, Sequenced
<1>4. Sequenced'
    BY <1>2, <1>3, SequencedKept DEF Ledger
<1>5. age' \in 0 .. SyncTicks + 2 /\ sinceSync' \in 0 .. SyncTicks + 1
    BY Parameters
<1>6. Sized'
    BY <1>5, RowsOfEmpty DEF Ledger, Sized, Phases
<1>7. Handled' /\ Numbered'
    BY <1>1, <1>2 DEF Ledger, Handled, Numbered, Sized
<1> QED
    BY <1>2, <1>4, <1>6, <1>7 DEF Ledger

LEMMA LedgerSyncNotDue == Ledger /\ SyncNotDue => Ledger'
<1> SUFFICES ASSUME Ledger, SyncNotDue PROVE Ledger'
    OBVIOUS
<1>1. Sequenced' /\ Card'
    BY FilesStill DEF SyncNotDue, cardVars
<1>2. Sized' /\ Handled' /\ Numbered'
    BY DEF SyncNotDue, cardVars, Ledger, Sized, Phases, Handled, Numbered
<1> QED
    BY <1>1, <1>2 DEF Ledger

LEMMA LedgerOutside == Ledger /\ (PullOrInsertCard \/ Settle) => Ledger'
<1> SUFFICES ASSUME Ledger, PullOrInsertCard \/ Settle PROVE Ledger'
    OBVIOUS
<1>1. Sequenced' /\ Card'
    BY FilesStill DEF PullOrInsertCard, Settle, taskVars
<1>2. /\ UNCHANGED <<captured, ring, phase, mounted, fileOpen, fileIdx, fileSize, sinceSync,
                      buf, tmp, age>>
      /\ present' \in BOOLEAN /\ settled' \in BOOLEAN
    BY DEF PullOrInsertCard, Settle, taskVars, Ledger, Sized
<1>3. Sized' /\ Handled' /\ Numbered'
    BY <1>2 DEF Ledger, Sized, Handled, Numbered
<1> QED
    BY <1>1, <1>3 DEF Ledger

(* A power cut takes the ring and the unsynced rows, and nothing else.     *)
LEMMA LedgerPowerCut == Ledger /\ PowerCut => Ledger'
<1> SUFFICES ASSUME Ledger, PowerCut PROVE Ledger'
    OBVIOUS
<1> USE DEF PowerCut, cardVars
<1>1. Card' /\ SafeRows' = SafeRows
    BY CardStill DEF Ledger
<1>2. Sequenced'
    BY <1>1, Discarded, SequencedKept DEF Ledger
<1>3. /\ fileIdx' \in Nat /\ fileSize' \in 0 .. FileRows /\ sinceSync' \in 0 .. SyncTicks + 1
      /\ age' \in 0 .. SyncTicks + 2
    BY Parameters
<1>4. Sized'
    BY <1>3, Discarded, RowsOfEmpty DEF Ledger, Sized, Phases
<1>5. Handled'
    BY DEF Handled
<1>6. Numbered'
    <2>1. fileIdx' = 0 /\ Len(ring') = 0 /\ phase' = "wait" /\ captured' = captured
        BY Discarded
    <2>2. 0 + 0 + 0 <= Indices + captured
        BY Discarded, Parameters
    <2> HIDE DEF PowerCut
    <2> QED
        BY <2>1, <2>2 DEF Numbered
<1> QED
    BY <1>1, <1>2, <1>4, <1>5, <1>6 DEF Ledger

LEMMA NextLedger == Ledger /\ [Next]_vars => Ledger'
<1> SUFFICES ASSUME Ledger, [Next]_vars PROVE Ledger'
    OBVIOUS
<1>1. CASE UNCHANGED vars
    <2>1. Sequenced' /\ Card'
        BY <1>1, FilesStill DEF vars
    <2>2. Sized' /\ Handled' /\ Numbered'
        BY <1>1 DEF vars, Ledger, Sized, Handled, Numbered
    <2> QED
        BY <2>1, <2>2 DEF Ledger
<1>2. CASE Next
    BY <1>2, LedgerPush, LedgerWake, LedgerMount, LedgerMountFails, LedgerOpenNewFile,
       LedgerOpenFails, LedgerWriteRow, LedgerWriteFails, LedgerDrained, LedgerSealClose,
       LedgerSealRename, LedgerSync, LedgerSyncFails, LedgerSyncNotDue, LedgerOutside,
       LedgerPowerCut DEF Next, Logger
<1> QED
    BY <1>1, <1>2

(* Every variable keeps its type; the file numbers stay within FileNo,     *)
(* since a number is only used up by a file that took a record.            *)
THEOREM TypeCorrect == Spec => []TypeOK
<1>1. Ledger => TypeOK
    <2> SUFFICES ASSUME Ledger PROVE TypeOK
        OBVIOUS
    <2>1. fileIdx \in FileNo
        BY FileNumber DEF Ledger
    <2> QED
        BY <2>1 DEF Ledger, Sized, Card, CardTypes, TypeOK
<1> QED
    BY <1>1, InitLedger, NextLedger, PTL DEF Spec

(* Through failed calls, pulled cards, remounts and power cuts, every file *)
(* of seal_file and open_new_file lists its records in the order of        *)
(* capture, and no record is in two files.                                 *)
THEOREM RowsInOrder == Spec => []RowsOnceInOrder
<1>1. Ledger => RowsOnceInOrder
    BY DEF Ledger, Card
<1> QED
    BY <1>1, InitLedger, NextLedger, PTL DEF Spec

-----------------------------------------------------------------------------
(* The card as its reader knows it (CardLog): the rows of the unfinished   *)
(* files are what it keeps, the sealed files are its logs.                 *)

LEMMA LogRows ==
    /\ \A s : Log!Range(s) = Rows(s)
    /\ SafeRows = DraftRows \cup Log!Archived
<1>1. \A s : Log!Range(s) = Rows(s)
    BY DEF Log!Range, Rows
<1>2. Log!Archived = UNION {Rows(csv[i]) : i \in DOMAIN csv}
    BY <1>1 DEF Log!Archived
<1> QED
    BY <1>1, <1>2 DEF SafeRows, DraftRows

LEMMA LogStill ==
    ASSUME UNCHANGED <<tmp, csv>>
    PROVE  UNCHANGED Log!cardLogVars
BY DEF Log!cardLogVars, DraftRows, Rows

(* f_sync, or an f_close that worked: what waited in buf is kept.          *)
LEMMA LogKeeps ==
    ASSUME Ledger, fileIdx \in DOMAIN tmp, tmp' = Flushed, csv' = csv
    PROVE  Log!Keep
<1>1. /\ DOMAIN tmp' = DOMAIN tmp /\ tmp'[fileIdx] = tmp[fileIdx] \o buf
      /\ \A i \in DOMAIN tmp \ {fileIdx} : tmp'[i] = tmp[i]
    BY DEF Flushed, Put
<1>2. Rows(tmp'[fileIdx]) = Rows(tmp[fileIdx]) \cup Rows(buf)
    BY <1>1, RowsOfConcat DEF Ledger, Sized, Card, CardTypes
<1>3. DraftRows' = UNION {Rows(tmp'[i]) : i \in DOMAIN tmp}
    BY <1>1 DEF DraftRows, Rows
<1>4. DraftRows' = DraftRows \cup Rows(buf)
    <2>1. ASSUME NEW r \in DraftRows'
          PROVE  r \in DraftRows \cup Rows(buf)
        <3>1. PICK i \in DOMAIN tmp : r \in Rows(tmp'[i])
            BY <2>1, <1>3
        <3> QED
            BY <3>1, <1>1, <1>2 DEF DraftRows
    <2>2. ASSUME NEW r \in DraftRows
          PROVE  r \in DraftRows'
        <3>1. PICK i \in DOMAIN tmp : r \in Rows(tmp[i])
            BY <2>2 DEF DraftRows
        <3>2. r \in Rows(tmp'[i])
            BY <3>1, <1>1, <1>2
        <3> QED
            BY <3>2, <1>3
    <2>3. Rows(buf) \subseteq DraftRows'
        BY <1>2, <1>3
    <2> QED
        BY <2>1, <2>2, <2>3
<1>5. \A r \in Rows(buf) : \A q \in DraftRows \cup Log!Archived : q < r
    BY LogRows DEF Ledger, Sequenced, Before
<1> QED
    BY <1>4, <1>5 DEF Log!Keep

(* Creating a file over an unfinished one empties that.                    *)
LEMMA LogForgets ==
    ASSUME tmp' = Put(tmp, fileIdx, <<>>), csv' = csv
    PROVE  Log!Forget
<1>1. /\ DOMAIN tmp' = DOMAIN tmp \cup {fileIdx} /\ Rows(tmp'[fileIdx]) = {}
      /\ \A i \in DOMAIN tmp \ {fileIdx} : tmp'[i] = tmp[i]
    BY RowsOfEmpty DEF Put
<1>2. DraftRows' = UNION {Rows(tmp'[i]) : i \in DOMAIN tmp \cup {fileIdx}}
    BY <1>1 DEF DraftRows, Rows
<1>3. ASSUME NEW r \in DraftRows'
      PROVE  r \in DraftRows
    <2>1. PICK i \in DOMAIN tmp \cup {fileIdx} : r \in Rows(tmp'[i])
        BY <1>3, <1>2
    <2> QED
        BY <2>1, <1>1 DEF DraftRows
<1> QED
    BY <1>3 DEF Log!Forget

(* f_rename: the rows leave the unfinished files as one log.               *)
LEMMA LogSeals ==
    ASSUME Ledger, fileIdx \in DOMAIN tmp, ~ Sealed(fileIdx), Renamed
    PROVE  Log!Seal
<1>1. /\ DOMAIN tmp' = DOMAIN tmp \ {fileIdx}
      /\ \A i \in DOMAIN tmp' : tmp'[i] = tmp[i]
    BY DEF Renamed
<1>2. /\ DOMAIN csv' = DOMAIN csv \cup {fileIdx} /\ csv'[fileIdx] = tmp[fileIdx]
      /\ \A i \in DOMAIN csv : csv'[i] = csv[i]
      /\ fileIdx \notin DOMAIN csv
    BY DEF Renamed, Put, Sealed
<1>3. tmp[fileIdx] \in Seq(Record) /\ InOrder(tmp[fileIdx])
    BY DEF Ledger, Card, CardTypes, RowsOnceInOrder
<1>4. tmp[fileIdx] \in Seq(DraftRows)
    <2>1. \A k \in 1 .. Len(tmp[fileIdx]) : tmp[fileIdx][k] \in DraftRows
        BY <1>3, LenProperties DEF DraftRows, Rows
    <2> QED
        BY <1>3, <2>1, SeqDef, LenProperties
<1>5. DraftRows' = UNION {Rows(tmp[i]) : i \in DOMAIN tmp \ {fileIdx}}
    BY <1>1 DEF DraftRows, Rows
<1>6. DraftRows' = DraftRows \ Rows(tmp[fileIdx])
    <2>1. \A i \in DOMAIN tmp \ {fileIdx} : Rows(tmp[i]) \cap Rows(tmp[fileIdx]) = {}
        BY DEF Ledger, Card, RowsOnceInOrder
    <2> QED
        BY <1>5, <2>1 DEF DraftRows
<1>7. Log!Ascending(csv'[fileIdx]) /\ DraftRows' = DraftRows \ Log!Range(csv'[fileIdx])
    BY <1>2, <1>3, <1>6, LogRows DEF Log!Ascending, InOrder
<1> QED
    BY <1>2, <1>4, <1>7 DEF Log!Seal

LEMMA LogClosed ==
    ASSUME Ledger, fileIdx \in DOMAIN tmp, tmp' \in Closed, csv' = csv
    PROVE  Log!Keep \/ UNCHANGED Log!cardLogVars
<1>1. tmp' = tmp \/ tmp' = Flushed
    BY DEF Closed
<1> QED
    BY <1>1, LogStill, LogKeeps

LEMMA LogTornDown ==
    ASSUME Ledger, Teardown, csv' = csv
    PROVE  Log!Keep \/ UNCHANGED Log!cardLogVars
<1>1. CASE fileOpen
    <2>1. fileIdx \in DOMAIN tmp /\ tmp' \in Closed
        BY <1>1 DEF Ledger, Handled, Teardown
    <2> QED
        BY <2>1, LogClosed
<1>2. CASE ~ fileOpen
    <2>1. tmp' = tmp
        BY <1>2 DEF Teardown
    <2> QED
        BY <2>1, LogStill
<1> QED
    BY <1>1, <1>2

(* f_open, or what is left of it when the header cannot be written.        *)
LEMMA LogCreates ==
    ASSUME OpenNewFile \/ OpenFails
    PROVE  csv' = csv /\ (tmp' = tmp \/ tmp' = Put(tmp, fileIdx, <<>>)) /\ phase = "open"
BY DEF OpenNewFile, OpenFails

(* Whatever else the logger does, the card loses nothing.                  *)
LEMMA LogGrows ==
    ASSUME Ledger, [Next]_vars, ~ (OpenNewFile \/ OpenFails)
    PROVE  Log!Keep \/ Log!Seal \/ UNCHANGED Log!cardLogVars
<1>1. CASE UNCHANGED <<tmp, csv>>
    BY <1>1, LogStill
<1>2. CASE WriteFails \/ SyncFails
    <2>1. Teardown /\ csv' = csv
        BY <1>2 DEF WriteFails, SyncFails
    <2> QED
        BY <2>1, LogTornDown
<1>3. CASE SealClose
    <2>1. fileIdx \in DOMAIN tmp /\ tmp' \in Closed /\ csv' = csv
        BY <1>3 DEF SealClose, Ledger, Handled
    <2> QED
        BY <2>1, LogClosed
<1>4. CASE SealRename
    <2>1. fileIdx \in DOMAIN tmp
        BY <1>4 DEF SealRename, Ledger, Handled
    <2>2. (~ Sealed(fileIdx) /\ Renamed) \/ UNCHANGED <<csv, tmp>>
        BY <1>4 DEF SealRename
    <2> QED
        BY <2>1, <2>2, LogSeals, LogStill
<1>5. CASE Sync
    <2>1. fileIdx \in DOMAIN tmp /\ tmp' = Flushed /\ csv' = csv
        BY <1>5 DEF Sync, Ledger, Handled
    <2> QED
        BY <2>1, LogKeeps
<1> QED
    BY <1>1, <1>2, <1>3, <1>4, <1>5 DEF Next, Logger, vars, cardVars, Push, Wake,
       Mount, MountFails, WriteRow, Drained, SyncNotDue, PullOrInsertCard, PowerCut, Settle

(* Every step of the logger is a step of the card, or none.                *)
LEMMA LogStep == Ledger /\ [Next]_vars => [Log!CardNext]_Log!cardLogVars
BY LogCreates, LogGrows, LogStill, LogForgets DEF Log!CardNext

(* What an extractor relies on: the card that sd_logger_task writes grows  *)
(* at its new end, seals each log whole, in order and for good, and loses  *)
(* only what is not sealed.                                                *)
THEOREM CardRefinement == Spec => ImplementsCardLog
<1>1. Init => Log!CardInit
    BY DEF Init, Empty, Log!CardInit, DraftRows
<1>2. Ledger /\ [Next]_vars => [Log!CardNext]_Log!cardLogVars
    BY LogStep
<1> QED
    BY <1>1, <1>2, InitLedger, NextLedger, PTL DEF Spec, ImplementsCardLog, Log!CardSpec

(* The card keeps what it keeps, and a seal only moves rows.               *)
LEMMA GrowthKeepsRows ==
    ASSUME Log!Keep \/ Log!Seal \/ UNCHANGED Log!cardLogVars
    PROVE  SafeRows \subseteq SafeRows'
<1>1. SafeRows = DraftRows \cup Log!Archived /\ SafeRows' = DraftRows' \cup Log!Archived'
    <2>1. Log!Archived' = UNION {Rows(csv'[i]) : i \in DOMAIN csv'}
        BY DEF Log!Archived, Log!Range, Rows
    <2> QED
        BY <2>1, LogRows DEF SafeRows, DraftRows
<1>2. CASE Log!Keep
    BY <1>1, <1>2 DEF Log!Keep, Log!Archived, Log!Range
<1>3. CASE UNCHANGED Log!cardLogVars
    BY <1>1, <1>3 DEF Log!cardLogVars, Log!Archived, Log!Range
<1>4. CASE Log!Seal
    <2>1. PICK i \in DOMAIN csv' \ DOMAIN csv :
            /\ DOMAIN csv' = DOMAIN csv \cup {i}
            /\ \A j \in DOMAIN csv : csv'[j] = csv[j]
            /\ DraftRows' = DraftRows \ Log!Range(csv'[i])
        BY <1>4 DEF Log!Seal
    <2>2. Log!Archived' = UNION {Log!Range(csv'[j]) : j \in DOMAIN csv'}
        BY DEF Log!Archived, Log!Range
    <2>3. Log!Archived \subseteq Log!Archived'
        <3> SUFFICES ASSUME NEW r \in Log!Archived PROVE r \in Log!Archived'
            OBVIOUS
        <3>1. PICK j \in DOMAIN csv : r \in Log!Range(csv[j])
            BY DEF Log!Archived
        <3>2. j \in DOMAIN csv' /\ r \in Log!Range(csv'[j])
            BY <3>1, <2>1
        <3> QED
            BY <2>2, <3>2
    <2>4. Log!Range(csv'[i]) \subseteq Log!Archived'
        BY <2>1, <2>2
    <2> QED
        BY <1>1, <2>1, <2>3, <2>4
<1> QED
    BY <1>2, <1>3, <1>4

(* A row that open_new_file takes off the card was in the file it emptied. *)
LEMMA CreateLosesItsFile ==
    ASSUME tmp' = Put(tmp, fileIdx, <<>>), csv' = csv,
           NEW r \in SafeRows, r \notin SafeRows'
    PROVE  fileIdx \in DOMAIN tmp /\ r \in Rows(tmp[fileIdx])
<1>1. /\ DOMAIN tmp' = DOMAIN tmp \cup {fileIdx}
      /\ \A i \in DOMAIN tmp \ {fileIdx} : tmp'[i] = tmp[i]
    BY DEF Put
<1>2. SafeRows' = (UNION {Rows(tmp'[i]) : i \in DOMAIN tmp'})
                  \cup (UNION {Rows(csv[i]) : i \in DOMAIN csv})
    BY DEF SafeRows, Rows
<1>3. PICK i \in DOMAIN tmp : r \in Rows(tmp[i])
    BY <1>2 DEF SafeRows
<1>4. i = fileIdx
    BY <1>1, <1>2, <1>3
<1> QED
    BY <1>3, <1>4

(* A synced row is only ever lost to open_new_file, in the file it         *)
(* creates anew: through every failed call, unmount, rename and power cut. *)
THEOREM OnlyCreateLosesRows == Spec => RowsLostByCreateOnly
<1>1. ASSUME Ledger, [Next]_vars, NEW r \in SafeRows, r \notin SafeRows'
      PROVE  phase = "open" /\ fileIdx \in DOMAIN tmp /\ r \in Rows(tmp[fileIdx])
    <2>1. OpenNewFile \/ OpenFails
        BY <1>1, LogGrows, GrowthKeepsRows
    <2>2. csv' = csv /\ (tmp' = tmp \/ tmp' = Put(tmp, fileIdx, <<>>)) /\ phase = "open"
        BY <2>1, LogCreates
    <2>3. tmp' # tmp
        BY <1>1, <2>2 DEF SafeRows, Rows
    <2> QED
        BY <1>1, <2>2, <2>3, CreateLosesItsFile
<1>2. Ledger /\ [Next]_vars =>
        [\A r \in SafeRows \ SafeRows' :
            phase = "open" /\ fileIdx \in DOMAIN tmp /\ r \in Rows(tmp[fileIdx])]_vars
    BY <1>1
<1> QED
    BY <1>2, InitLedger, NextLedger, PTL DEF Spec, RowsLostByCreateOnly
=============================================================================
