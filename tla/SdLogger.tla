------------------------------ MODULE SdLogger ------------------------------
(***************************************************************************)
(* The SD card logger of the accumulator (sd_logger_task_temp.cpp): the    *)
(* safety task pushes records into a ring, the logger task drains it every *)
(* tick into LOGnnnn.TMP, syncs that file periodically and seals it as     *)
(* LOGnnnn.CSV when it is full.  Any FatFs call may fail, the card may be  *)
(* pulled, and the supply may be cut between two calls; no call fails once *)
(* the card is settled.                                                    *)
(*                                                                         *)
(* A file is the sequence of its rows that are safe on the card.  Rows     *)
(* written but not synced are in buf: they are lost with the power, since  *)
(* the size in the directory entry is only written by f_sync and f_close.  *)
(* Creating a file over an existing one empties that at once, since the    *)
(* header spans sectors.  A record is its number in the order of capture,  *)
(* the size of a file is its number of rows.                               *)
(***************************************************************************)
EXTENDS Naturals, Sequences, FiniteSets

CONSTANTS MaxRecords, \* bound: records captured
          RingCapacity,
          FileRows,   \* rows of a full file (LogFileMaxBytes)
          Indices,    \* file numbers next_free_index looks at
          SyncTicks,  \* LogSyncPeriodMs in ticks of the task
          IoErrors    \* the card may fail or be pulled

ASSUME LoggerAssumption ==
    /\ {MaxRecords, RingCapacity, FileRows, Indices, SyncTicks} \subseteq Nat \ {0}
    /\ IoErrors \in BOOLEAN

Record == 1 .. MaxRecords
FileNo == 0 .. Indices + MaxRecords

VARIABLES
    captured,  \* records captured so far
    ring,      \* g_ring
    phase,     \* where the logger task is
    mounted,   \* g_mounted
    fileOpen,  \* g_file_open
    fileIdx,   \* g_file_idx
    fileSize,  \* g_file_bytes, in rows
    sinceSync, \* now - last_sync
    buf,       \* rows of the open file that are not synced
    tmp,       \* LOGnnnn.TMP on the card
    csv,       \* LOGnnnn.CSV on the card
    present,   \* the card is in the slot
    settled,   \* from here on nothing fails
    age        \* history: ticks since the oldest row of buf was written

taskVars == <<phase, mounted, fileOpen, fileIdx, fileSize, sinceSync>>
cardVars == <<tmp, csv, present, settled>>
vars == <<captured, ring, phase, mounted, fileOpen, fileIdx, fileSize,
          sinceSync, buf, tmp, csv, present, settled, age>>

Files == UNION {[D -> Seq(Record)] : D \in SUBSET FileNo}
Phases == {"wait", "mount", "open", "drain", "seal", "rename", "sync"}

TypeOK ==
    /\ captured \in 0 .. MaxRecords
    /\ ring \in Seq(Record) /\ Len(ring) <= RingCapacity
    /\ phase \in Phases
    /\ mounted \in BOOLEAN /\ fileOpen \in BOOLEAN
    /\ present \in BOOLEAN /\ settled \in BOOLEAN
    /\ fileIdx \in FileNo
    /\ fileSize \in 0 .. FileRows
    /\ sinceSync \in 0 .. SyncTicks + 1
    /\ age \in 0 .. SyncTicks + 2
    /\ buf \in Seq(Record)
    /\ DOMAIN tmp \subseteq FileNo /\ \A i \in DOMAIN tmp : tmp[i] \in Seq(Record)
    /\ DOMAIN csv \subseteq FileNo /\ \A i \in DOMAIN csv : csv[i] \in Seq(Record)

Empty == [i \in {} |-> <<>>]

Init ==
    /\ captured = 0
    /\ ring = <<>>
    /\ phase = "wait"
    /\ mounted = FALSE
    /\ fileOpen = FALSE
    /\ fileIdx = 0
    /\ fileSize = 0
    /\ sinceSync = 0
    /\ buf = <<>>
    /\ tmp = Empty
    /\ csv = Empty
    /\ present \in (IF IoErrors THEN BOOLEAN ELSE {TRUE})
    /\ settled = FALSE
    /\ age = 0

AtMost(n, cap) == IF n > cap THEN cap ELSE n
Put(files, i, rows) ==
    [j \in DOMAIN files \cup {i} |-> IF j = i THEN rows ELSE files[j]]
Rows(s) == {s[k] : k \in DOMAIN s}

(* The open file with the rows that wait for a sync.                       *)
Flushed == Put(tmp, fileIdx, tmp[fileIdx] \o buf)

MayFail == IoErrors /\ ~ settled

(* What closing the open file leaves on the card when the result of        *)
(* f_close is ignored.                                                     *)
Closed == {t \in {tmp, Flushed} : t = tmp => MayFail \/ buf = <<>>}
          \cap (IF present THEN {tmp, Flushed} ELSE {tmp})

-----------------------------------------------------------------------------
(* The safety task.                                                        *)

(* Mutated form of Push: the ring is not tested for being full.            *)
PushUnchecked ==
    /\ captured < MaxRecords
    /\ captured' = captured + 1
    /\ ring' = Append(ring, captured + 1)
    /\ UNCHANGED <<taskVars, buf, cardVars, age>>

(* sd_log_push: a full ring drops the new record.                          *)
Push ==
    /\ captured < MaxRecords
    /\ captured' = captured + 1
    /\ ring' = IF Len(ring) < RingCapacity THEN Append(ring, captured + 1) ELSE ring
    /\ UNCHANGED <<taskVars, buf, cardVars, age>>

-----------------------------------------------------------------------------
(* The logger task.                                                        *)

(* teardown: the file is closed and the volume unmounted, whatever fails.  *)
Teardown ==
    /\ IF fileOpen THEN tmp' \in Closed ELSE tmp' = tmp
    /\ buf' = <<>> /\ age' = 0
    /\ fileOpen' = FALSE
    /\ mounted' = FALSE
    /\ phase' = "wait"

(* osDelayUntil returns; the task goes on where its state lets it.         *)
Wake ==
    /\ phase = "wait"
    /\ phase' = IF ~ mounted THEN "mount" ELSE IF fileOpen THEN "drain" ELSE "open"
    /\ sinceSync' = AtMost(sinceSync + 1, SyncTicks + 1)
    /\ age' = IF buf = <<>> THEN 0 ELSE AtMost(age + 1, SyncTicks + 2)
    /\ UNCHANGED <<captured, ring, mounted, fileOpen, fileIdx, fileSize, buf, cardVars>>

(* next_free_index: the first number with no sealed file, or one f_stat    *)
(* failed for; 0 when there is none.                                       *)
Sealed(i) == i \in DOMAIN csv
NextFreeIndex ==
    LET free == {i \in 0 .. Indices - 1 : ~ Sealed(i)}
        first(i) == \A j \in 0 .. i - 1 : Sealed(j)
    IN  {i \in 0 .. Indices - 1 : first(i) /\ (MayFail \/ ~ Sealed(i))}
        \cup (IF free = {} THEN {0} ELSE {})

(* Mutated form of Mount: the ring is emptied first.                       *)
MountDiscards ==
    /\ phase = "mount" /\ present
    /\ mounted' = TRUE
    /\ fileIdx' \in NextFreeIndex
    /\ phase' = "open"
    /\ ring' = <<>>
    /\ UNCHANGED <<captured, fileOpen, fileSize, sinceSync, buf, cardVars, age>>

Mount ==
    /\ phase = "mount" /\ present
    /\ mounted' = TRUE
    /\ fileIdx' \in NextFreeIndex
    /\ phase' = "open"
    /\ UNCHANGED <<captured, ring, fileOpen, fileSize, sinceSync, buf, cardVars, age>>

(* No card: what is in the ring is discarded.                              *)
MountFails ==
    /\ phase = "mount" /\ (~ present \/ MayFail)
    /\ ring' = <<>>
    /\ phase' = "wait"
    /\ UNCHANGED <<captured, mounted, fileOpen, fileIdx, fileSize, sinceSync, buf,
                   cardVars, age>>

(* open_new_file: LOGnnnn.TMP is created empty, over one that exists.      *)
OpenNewFile ==
    /\ phase = "open" /\ present
    /\ tmp' = Put(tmp, fileIdx, <<>>)
    /\ fileOpen' = TRUE
    /\ fileSize' = 0
    /\ phase' = "drain"
    /\ UNCHANGED <<captured, ring, mounted, fileIdx, sinceSync, buf, csv, present,
                   settled, age>>

(* f_open fails, or the write of the header does and the file is left.     *)
OpenFails ==
    /\ phase = "open" /\ (~ present \/ MayFail)
    /\ tmp' \in (IF present THEN {tmp, Put(tmp, fileIdx, <<>>)} ELSE {tmp})
    /\ mounted' = FALSE
    /\ phase' = "wait"
    /\ UNCHANGED <<captured, ring, fileOpen, fileIdx, fileSize, sinceSync, buf, csv,
                   present, settled, age>>

WriteRow ==
    /\ phase = "drain" /\ ring # <<>> /\ present
    /\ ring' = Tail(ring)
    /\ buf' = Append(buf, Head(ring))
    /\ fileSize' = fileSize + 1
    /\ phase' = IF fileSize' >= FileRows THEN "seal" ELSE "drain"
    /\ UNCHANGED <<captured, mounted, fileOpen, fileIdx, sinceSync, cardVars, age>>

(* Mutated form of WriteFails: the record goes back into the ring.         *)
WriteFailsRequeues ==
    /\ phase = "drain" /\ ring # <<>> /\ (~ present \/ MayFail)
    /\ ring' = Append(Tail(ring), Head(ring))
    /\ Teardown
    /\ UNCHANGED <<captured, fileIdx, fileSize, sinceSync, csv, present, settled>>

(* The record that could not be written is gone from the ring.             *)
WriteFails ==
    /\ phase = "drain" /\ ring # <<>> /\ (~ present \/ MayFail)
    /\ ring' = Tail(ring)
    /\ Teardown
    /\ UNCHANGED <<captured, fileIdx, fileSize, sinceSync, csv, present, settled>>

Drained ==
    /\ phase = "drain" /\ ring = <<>>
    /\ phase' = "sync"
    /\ UNCHANGED <<captured, ring, mounted, fileOpen, fileIdx, fileSize, sinceSync, buf,
                   cardVars, age>>

(* seal_file, first call: f_close, whose result is ignored.                *)
SealClose ==
    /\ phase = "seal"
    /\ tmp' \in Closed
    /\ buf' = <<>> /\ age' = 0
    /\ fileOpen' = FALSE
    /\ phase' = "rename"
    /\ UNCHANGED <<captured, ring, mounted, fileIdx, fileSize, sinceSync, csv, present,
                   settled>>

Renamed ==
    /\ csv' = Put(csv, fileIdx, tmp[fileIdx])
    /\ tmp' = [i \in DOMAIN tmp \ {fileIdx} |-> tmp[i]]

(* Mutated form of SealRename: a sealed file in the way is removed.        *)
SealReplaces ==
    /\ phase = "rename"
    /\ IF present THEN Renamed ELSE UNCHANGED <<csv, tmp>>
    /\ fileIdx' = fileIdx + 1
    /\ phase' = "wait"
    /\ UNCHANGED <<captured, ring, mounted, fileOpen, fileSize, sinceSync, buf,
                   present, settled, age>>

(* seal_file, second call: f_rename, which fails over an existing file.    *)
(* Its result is ignored too.                                              *)
SealRename ==
    /\ phase = "rename"
    /\ \/ present /\ ~ Sealed(fileIdx) /\ Renamed
       \/ (~ present \/ Sealed(fileIdx) \/ MayFail) /\ UNCHANGED <<csv, tmp>>
    /\ fileIdx' = fileIdx + 1
    /\ phase' = "wait"
    /\ UNCHANGED <<captured, ring, mounted, fileOpen, fileSize, sinceSync, buf,
                   present, settled, age>>

(* Mutated form of SyncDue: one tick late.                                 *)
SyncOverdue == sinceSync > SyncTicks

SyncDue == sinceSync >= SyncTicks

Sync ==
    /\ phase = "sync" /\ SyncDue /\ present
    /\ sinceSync' = 0
    /\ tmp' = Flushed
    /\ buf' = <<>> /\ age' = 0
    /\ phase' = "wait"
    /\ UNCHANGED <<captured, ring, mounted, fileOpen, fileIdx, fileSize, csv, present,
                   settled>>

SyncFails ==
    /\ phase = "sync" /\ SyncDue /\ (~ present \/ MayFail)
    /\ sinceSync' = 0
    /\ Teardown
    /\ UNCHANGED <<captured, ring, fileIdx, fileSize, csv, present, settled>>

SyncNotDue ==
    /\ phase = "sync" /\ ~ SyncDue
    /\ phase' = "wait"
    /\ UNCHANGED <<captured, ring, mounted, fileOpen, fileIdx, fileSize, sinceSync, buf,
                   cardVars, age>>

-----------------------------------------------------------------------------
(* The outside.                                                            *)

PullOrInsertCard ==
    /\ MayFail
    /\ present' = ~ present
    /\ UNCHANGED <<captured, ring, taskVars, buf, tmp, csv, settled, age>>

(* The supply is cut and comes back: what is in RAM is gone.               *)
PowerCut ==
    /\ ~ settled
    /\ ring' = <<>>
    /\ phase' = "wait"
    /\ mounted' = FALSE /\ fileOpen' = FALSE
    /\ fileIdx' = 0 /\ fileSize' = 0
    /\ sinceSync' = 0
    /\ buf' = <<>> /\ age' = 0
    /\ UNCHANGED <<captured, cardVars>>

Settle ==
    /\ ~ settled /\ present
    /\ settled' = TRUE
    /\ UNCHANGED <<captured, ring, taskVars, buf, tmp, csv, present, age>>

Logger == \/ Wake \/ Mount \/ MountFails \/ OpenNewFile \/ OpenFails
          \/ WriteRow \/ WriteFails \/ Drained \/ SealClose \/ SealRename
          \/ Sync \/ SyncFails \/ SyncNotDue

Next == Push \/ Logger \/ PullOrInsertCard \/ PowerCut \/ Settle

(* The scheduler runs the logger task; records and faults come as they do. *)
Spec == Init /\ [][Next]_vars /\ WF_vars(Logger)

-----------------------------------------------------------------------------
InOrder(s) == \A j, k \in DOMAIN s : j < k => s[j] < s[k]

(* The rows of the card that a power cut cannot take.                      *)
SafeRows == (UNION {Rows(tmp[i]) : i \in DOMAIN tmp})
            \cup (UNION {Rows(csv[i]) : i \in DOMAIN csv})

(* Through failures, remounts and restarts, every file lists its records   *)
(* in the order of capture, and no record is in two files.                 *)
RowsOnceInOrder ==
    /\ \A i \in DOMAIN tmp : InOrder(tmp[i])
    /\ \A i \in DOMAIN csv : InOrder(csv[i])
    /\ \A i \in DOMAIN csv : \A j \in DOMAIN csv \ {i} : Rows(csv[i]) \cap Rows(csv[j]) = {}
    /\ \A i \in DOMAIN csv : \A j \in DOMAIN tmp : Rows(csv[i]) \cap Rows(tmp[j]) = {}
    /\ \A i \in DOMAIN tmp : \A j \in DOMAIN tmp \ {i} : Rows(tmp[i]) \cap Rows(tmp[j]) = {}

(* No row of the open file waits for its sync longer than one window.      *)
UnsyncedIsYoung == age < SyncTicks

(* "The extractor only ever sees finished logs": no step changes or        *)
(* removes a sealed file, also when numbers wrap or f_stat lied.           *)
SealedIsFinal ==
    [][\A i \in DOMAIN csv : i \in DOMAIN csv' /\ csv'[i] = csv[i]]_vars

(* What the card is to its reader, whatever fails in the logger task: see  *)
(* CardLog.  "The extractor only ever sees finished logs" is the part of   *)
(* it that sd_logger_task_temp.cpp states.                                 *)
DraftRows == UNION {Rows(tmp[i]) : i \in DOMAIN tmp}
Log == INSTANCE CardLog WITH sealed <- csv, kept <- DraftRows
ImplementsCardLog == Log!CardSpec

(* Whatever failed before, once the card is settled what is in the ring    *)
(* gets onto it.                                                           *)
SettledCardIsLogged ==
    \A r \in Record : settled /\ r \in Rows(ring) ~> r \in SafeRows

(* The only way to lose a synced row: open_new_file creates its file over  *)
(* the one that holds it, because next_free_index took its number again.   *)
(* No failed call, no pulled card, no seal over a taken name and no power  *)
(* cut by itself does.                                                     *)
RowsLostByCreateOnly ==
    [][\A r \in SafeRows \ SafeRows' :
          phase = "open" /\ fileIdx \in DOMAIN tmp /\ r \in Rows(tmp[fileIdx])]_vars

(* What "Periodic flush -- bounds data lost on a power-cut to one window"  *)
(* promises: a row that was synced stays on the card.                      *)
SyncedRowsSurvive == [][SafeRows \subseteq SafeRows']_vars
=============================================================================
