--------------------------- MODULE LogExtraction ---------------------------
(***************************************************************************)
(* Reading log files off the accumulator's card over CAN (ui.py): the      *)
(* window starts a thread per listing or download (AMSExtractionThread),   *)
(* the card (AMSSimulatorThread) answers.  Every thread hears every reply, *)
(* the card has one session and one open file, and a reply says which      *)
(* command it answers, not whose, nor at which offset.                     *)
(*                                                                         *)
(* A payload is a sequence of cells: a head, then what the head announces. *)
(* A single, a first and a consecutive frame take two cells each, so that  *)
(* replies split between the frames where those of the code do.  The CRC   *)
(* of a file is its number: CRCs are assumed not to collide.               *)
(***************************************************************************)
EXTENDS Integers, Sequences

CONSTANTS File,      \* files on the card, numbers from 1
          Size,      \* per file: bytes
          NoCrc,     \* files for which OPEN returns a CRC of 0
          BlockSize,
          Thread,    \* bound: the extractions, in the order they are started
          MaxLosses  \* bound: frames lost

ASSUME ExtractionAssumption ==
    /\ File \subseteq Nat \ {0} /\ NoCrc \subseteq File
    /\ Size \in [File -> Nat]
    /\ BlockSize \in Nat \ {0}
    /\ Thread \subseteq Nat
    /\ MaxLosses \in Nat

VARIABLES
    connected, \* _pr_is_connected
    wanted,    \* per thread: the file to download, 0 to list
    op,        \* per thread: the command it is at, or how it ended
    phase,     \* per thread: awaiting flow control or a reply
    rcv,       \* per thread: buffer and total_len of isotp_recv
    file,      \* per thread: file_size, expected_crc, file_bytes
    inbox,     \* per thread: frames on its bus, not yet read
    toCard,    \* frames on their way to the card
    session,   \* session_connected
    open,      \* open_file_idx, 0 for none
    reading,   \* the READ of which the card has the first frame: its offset, or -1
    losses,    \* frames lost so far
    alone      \* history: threads during which no other ran, and before which
               \* at most one command was under way to the card

threadVars == <<wanted, op, phase, rcv, file>>
cardVars == <<session, open, reading>>
vars == <<connected, wanted, op, phase, rcv, file, inbox, toCard, session, open, reading,
          losses, alone>>

Command == {"CONNECT", "LIST", "OPEN", "READ", "CLOSE", "DISCONNECT"}
Outcome == {"saved", "listed", "failed"}

Running == {t \in Thread : op[t] \in Command}
Content(f) == [i \in 1 .. Size[f] |-> <<"byte", f, i>>]

Cell == (Command \cup {"byte", "size", "crc", "entry", "pad", "nack"}) \X Nat \X Nat
Frame == [kind : {"SF", "FF", "CF", "FC"}, total : Nat, cells : Seq(Cell)]
Request == {"SF", "FF", "CF"} \X Command \X Nat

TypeOK ==
    /\ connected \in BOOLEAN
    /\ wanted \in [Thread -> File \cup {0}]
    /\ op \in [Thread -> Command \cup Outcome \cup {"none"}]
    /\ phase \in [Thread -> {"flow", "recv"}]
    /\ rcv \in [Thread -> [buf : Seq(Cell), total : Nat]]
    /\ file \in [Thread -> [size : Nat, crc : Int, bytes : Seq(Cell)]]
    /\ inbox \in [Thread -> Seq(Frame)] /\ \A t \in Thread \ Running : inbox[t] = <<>>
    /\ toCard \in Seq(Request)
    /\ session \in BOOLEAN
    /\ open \in File \cup {0}
    /\ reading \in Nat \cup {-1}
    /\ losses \in 0 .. MaxLosses
    /\ alone \subseteq Thread

NoMessage == [buf |-> <<>>, total |-> 0]
NoFile == [size |-> 0, crc |-> 0, bytes |-> <<>>]

Init ==
    /\ connected = FALSE
    /\ wanted = [t \in Thread |-> 0]
    /\ op = [t \in Thread |-> "none"]
    /\ phase = [t \in Thread |-> "recv"]
    /\ rcv = [t \in Thread |-> NoMessage]
    /\ file = [t \in Thread |-> NoFile]
    /\ inbox = [t \in Thread |-> <<>>]
    /\ toCard = <<>>
    /\ session = FALSE /\ open = 0 /\ reading = -1
    /\ losses = 0
    /\ alone = {}

-----------------------------------------------------------------------------
(* isotp_send: a READ takes two frames, the offset is in the first.        *)
FirstFrame(t, command, offset) ==
    CASE command = "READ" -> <<"FF", "READ", offset>>
      [] command = "OPEN" -> <<"SF", "OPEN", wanted[t]>>
      [] OTHER -> <<"SF", command, 0>>

(* A thread sends its next command as soon as it is through with a reply.  *)
Goto(t, command, offset, frames) ==
    /\ op' = [op EXCEPT ![t] = command]
    /\ toCard' = Append(toCard, FirstFrame(t, command, offset))
    /\ phase' = [phase EXCEPT ![t] = IF command = "READ" THEN "flow" ELSE "recv"]
    /\ rcv' = [rcv EXCEPT ![t] = NoMessage]
    /\ inbox' = [inbox EXCEPT ![t] = frames]

(* finished.emit, and bus.shutdown.                                        *)
End(t, outcome) ==
    /\ op' = [op EXCEPT ![t] = outcome]
    /\ phase' = [phase EXCEPT ![t] = "recv"]
    /\ rcv' = [rcv EXCEPT ![t] = NoMessage]
    /\ inbox' = [inbox EXCEPT ![t] = <<>>]
    /\ UNCHANGED toCard

-----------------------------------------------------------------------------
(* The window.  Neither button looks at what still runs.                   *)

Start(t, f) ==
    /\ op[t] = "none" /\ \A u \in Thread : u < t => op[u] # "none"
    /\ wanted' = [wanted EXCEPT ![t] = f]
    /\ Goto(t, "CONNECT", 0, <<>>)
    /\ alone' = IF Running = {} /\ Len(toCard) <= 1 THEN alone \cup {t} ELSE alone \ Running
    /\ UNCHANGED <<connected, file, cardVars, losses>>

(* Connect, or Refresh.                                                    *)
List(t) == Start(t, 0)

Download(t) == connected /\ \E f \in File : Start(t, f)

-----------------------------------------------------------------------------
(* An extraction.                                                          *)

(* The wait for flow control discards every other frame.                   *)
AwaitFlow(t) ==
    /\ phase[t] = "flow" /\ inbox[t] # <<>>
    /\ IF Head(inbox[t]).kind = "FC"
       THEN /\ toCard' = Append(toCard, <<"CF", "READ", 0>>)
            /\ phase' = [phase EXCEPT ![t] = "recv"]
       ELSE UNCHANGED <<toCard, phase>>
    /\ inbox' = [inbox EXCEPT ![t] = Tail(@)]
    /\ UNCHANGED <<connected, wanted, op, rcv, file, cardVars, losses, alone>>

(* 2.5 s for a reply, 2 s for flow control.                                *)
TimeOut(t) ==
    /\ t \in Running /\ inbox[t] = <<>>
    /\ End(t, "failed")
    /\ UNCHANGED <<connected, wanted, file, cardVars, losses, alone>>

(* The CRC of bytes: that of a file, or one of no file.                    *)
Crc(bytes) ==
    LET same == {f \in File : Content(f) = bytes}
    IN  IF same = {} THEN -1 ELSE CHOOSE f \in same : \A g \in same : f <= g

(* A CRC of 0 bypasses the check.                                          *)
Intact(fl) == fl.crc = 0 \/ Crc(fl.bytes) = fl.crc

(* Mutated form of AtEnd: an empty chunk does not end the download.        *)
AtEndNoBreak(fl, chunk) == Len(fl.bytes \o chunk) >= fl.size

AtEnd(fl, chunk) == chunk = <<>> \/ Len(fl.bytes \o chunk) >= fl.size

(* A reply is checked for its opcode.                                      *)
Answers(t, reply) == reply[1][1] = op[t]

(* What the code makes of the CRC field: the frame that carries it may     *)
(* have come from another reply, and is then no CRC of anything.           *)
CrcField(cell) == IF cell[1] = "crc" THEN cell[2] ELSE -2

(* What run does with a reply, which leaves frames in the inbox.           *)
Refused(t, reply) ==
    /\ op[t] \in {"CONNECT", "LIST", "OPEN", "READ"} /\ ~ Answers(t, reply)
    /\ End(t, "failed")
    /\ UNCHANGED <<connected, file>>

Connected(t, reply, frames) ==
    /\ op[t] = "CONNECT" /\ Answers(t, reply)
    /\ Goto(t, IF wanted[t] = 0 THEN "LIST" ELSE "OPEN", 0, frames)
    /\ UNCHANGED <<connected, file>>

Opened(t, reply, frames) ==
    /\ op[t] = "OPEN" /\ Answers(t, reply)
    /\ file' = [file EXCEPT ![t] = [size |-> reply[2][2], crc |-> CrcField(reply[3]), bytes |-> <<>>]]
    /\ Goto(t, IF reply[2][2] = 0 THEN "CLOSE" ELSE "READ", 0, frames)
    /\ UNCHANGED connected

ReadChunk(t, reply, frames) ==
    /\ op[t] = "READ" /\ Answers(t, reply)
    /\ file' = [file EXCEPT ![t].bytes = @ \o Tail(reply)]
    /\ Goto(t, IF AtEnd(file[t], Tail(reply)) THEN "CLOSE" ELSE "READ", Len(file'[t].bytes), frames)
    /\ UNCHANGED connected

(* The replies to CLOSE and DISCONNECT are not looked at.                  *)
Closing(t, reply, frames) ==
    /\ op[t] = "CLOSE" \/ (op[t] = "LIST" /\ Answers(t, reply))
    /\ Goto(t, "DISCONNECT", 0, frames)
    /\ UNCHANGED <<connected, file>>

Listed(t) ==
    /\ op[t] = "DISCONNECT" /\ wanted[t] = 0
    /\ End(t, "listed")
    /\ connected' = TRUE
    /\ UNCHANGED file

Verified(t) ==
    /\ op[t] = "DISCONNECT" /\ wanted[t] # 0
    /\ End(t, IF Intact(file[t]) THEN "saved" ELSE "failed")
    /\ UNCHANGED <<connected, file>>

Reply(t, reply, frames) ==
    \/ Refused(t, reply) \/ Connected(t, reply, frames) \/ Opened(t, reply, frames)
    \/ ReadChunk(t, reply, frames) \/ Closing(t, reply, frames) \/ Listed(t) \/ Verified(t)

(* Mutated form of Cut: the padding of the last frame is kept.             *)
CutNothing(cells, rem) == cells

(* chunk[:min(7, rem)]: a rem below zero cuts cells off the end.           *)
Cut(cells, rem) ==
    SubSeq(cells, 1, IF rem > Len(cells) THEN Len(cells)
                     ELSE IF rem >= 0 THEN rem ELSE Len(cells) + rem)

(* isotp_recv: a first frame extends the buffer, whatever it holds; the    *)
(* sequence number of a consecutive frame is not looked at.                *)
Receive(t) ==
    /\ t \in Running /\ phase[t] = "recv" /\ inbox[t] # <<>>
    /\ LET f == Head(inbox[t])
           frames == Tail(inbox[t])
           buf == rcv[t].buf \o Cut(f.cells, rcv[t].total - Len(rcv[t].buf))
       IN  \/ /\ f.kind = "SF"
              /\ Reply(t, f.cells, frames)
           \/ /\ f.kind = "CF" /\ rcv[t].total > 0 /\ Len(buf) >= rcv[t].total
              /\ Reply(t, buf, frames)
           \/ /\ \/ /\ f.kind = "FF"
                    /\ rcv' = [rcv EXCEPT ![t] = [buf |-> @.buf \o f.cells, total |-> f.total]]
                 \/ /\ f.kind = "CF" /\ rcv[t].total > 0 /\ Len(buf) < rcv[t].total
                    /\ rcv' = [rcv EXCEPT ![t].buf = buf]
                 \/ /\ f.kind = "FC" \/ (f.kind = "CF" /\ rcv[t].total = 0)
                    /\ UNCHANGED rcv
              /\ inbox' = [inbox EXCEPT ![t] = frames]
              /\ UNCHANGED <<connected, op, phase, file, toCard>>
    /\ UNCHANGED <<wanted, cardVars, losses, alone>>

-----------------------------------------------------------------------------
(* The card.  It takes the frames one by one and answers before the next.  *)

Padded(cells) == IF Len(cells) = 1 THEN Append(cells, <<"pad", 0, 0>>) ELSE cells

(* send_isotp.                                                             *)
FramesOf(cells) ==
    LET n == Len(cells)
        cf(i) == [kind |-> "CF", total |-> 0, cells |-> Padded(SubSeq(cells, 2 * i + 1,
                                                     IF 2 * i + 2 < n THEN 2 * i + 2 ELSE n))]
    IN  IF n <= 2
        THEN <<[kind |-> "SF", total |-> 0, cells |-> cells]>>
        ELSE <<[kind |-> "FF", total |-> n, cells |-> SubSeq(cells, 1, 2)]>>
                 \o [i \in 1 .. (n - 1) \div 2 |-> cf(i)]

(* Mutated form of Hear: the bus of a thread that ended is still open.     *)
HearAll(frames) == inbox' = [t \in Thread |-> inbox[t] \o frames]

(* Every thread on the bus hears what the card sends.                      *)
Hear(frames) == inbox' = [t \in Thread |-> IF t \in Running THEN inbox[t] \o frames ELSE <<>>]

Flow == [kind |-> "FC", total |-> 0, cells |-> <<>>]
Ack(command) == <<command, 0, 0>>

Chunk(f, offset) ==
    SubSeq(Content(f), offset + 1, IF offset + BlockSize < Size[f] THEN offset + BlockSize ELSE Size[f])

(* Whether the card takes the head of toCard for a command, and which.     *)
Executes(r) == r[1] = "SF" \/ (r[1] = "CF" /\ reading # -1)

(* The commands of a connected session.                                    *)
Served(command, arg) ==
    CASE command = "LIST" -> <<Ack("LIST"), <<"entry", 1, 0>>, <<"entry", 2, 0>>>>
      [] command = "OPEN" -> <<Ack("OPEN"), <<"size", Size[arg], 0>>,
                               <<"crc", IF arg \in NoCrc THEN 0 ELSE arg, 0>>>>
      [] command = "READ" -> IF open = 0 THEN <<<<"nack", 0, 0>>>>
                             ELSE <<Ack("READ")>> \o Chunk(open, reading)
      [] OTHER -> <<Ack(command)>>

Serve ==
    /\ toCard # <<>>
    /\ toCard' = Tail(toCard)
    /\ LET r == Head(toCard) IN
         /\ reading' = CASE r[1] = "FF" -> r[3] [] r[1] = "CF" -> -1 [] OTHER -> reading
         /\ session' = IF r[2] = "CONNECT" THEN TRUE ELSE session /\ r[2] # "DISCONNECT"
         /\ open' = CASE session /\ r[2] = "OPEN" -> r[3]
                      [] session /\ r[2] = "CLOSE" -> 0
                      [] OTHER -> open
         /\ IF r[1] = "FF" THEN Hear(<<Flow>>)
            ELSE IF Executes(r) /\ (session \/ r[2] \in {"CONNECT", "DISCONNECT"})
            THEN Hear(FramesOf(Served(r[2], r[3])))
            ELSE UNCHANGED inbox
    /\ UNCHANGED <<connected, threadVars, losses, alone>>

(* A receive queue overflows: the frame is gone when its turn comes.       *)
Lose ==
    /\ losses < MaxLosses
    /\ losses' = losses + 1
    /\ \/ toCard # <<>> /\ toCard' = Tail(toCard) /\ UNCHANGED inbox
       \/ /\ \E t \in Thread : inbox[t] # <<>> /\ inbox' = [inbox EXCEPT ![t] = Tail(@)]
          /\ UNCHANGED toCard
    /\ UNCHANGED <<connected, threadVars, cardVars, alone>>

Step(t) == AwaitFlow(t) \/ Receive(t) \/ TimeOut(t)

Next == (\E t \in Thread : List(t) \/ Download(t) \/ Step(t)) \/ Serve \/ Lose

(* Threads are scheduled and have clocks; the card and the bus owe nothing.*)
Spec == Init /\ [][Next]_vars /\ \A t \in Thread : WF_vars(Step(t))

-----------------------------------------------------------------------------
Saved(t, f) == op[t] = "saved" /\ file[t].bytes = Content(f)

(* A download that no other extraction overlaps saves the selected file,   *)
(* with or without a CRC, whatever is lost and whatever one command of an  *)
(* extraction that was broken off is still under way.  Two are too many:   *)
(* an OPEN of before may be answered after a CONNECT of before was taken   *)
(* for the answer to this one's.                                           *)
AloneSavesItsFile ==
    \A t \in alone : op[t] = "saved" => Saved(t, wanted[t])

(* Every extraction emits finished, whatever the card does.                *)
ExtractionEnds == \A t \in Thread : t \in Running ~> t \notin Running
=============================================================================
