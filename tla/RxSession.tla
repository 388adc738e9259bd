------------------------------ MODULE RxSession ------------------------------
(***************************************************************************)
(* Sessions of the receiver: the UI thread of ui.py (_start, _stop, the    *)
(* 400 ms timer _update, the brake calibration wizard, _submit_note) and   *)
(* the receive threads it starts, each a worker around receive_data.       *)
(*                                                                         *)
(* The threads share three globals of two modules and no lock:             *)
(* new_data_flag (-1 asks the loop to end, 1 announces a snapshot),        *)
(* _excel_logger (the CSV of the session) and is_receiving.  Every access  *)
(* to one of them is a step of its own, so that the threads interleave     *)
(* where the interpreter may switch between them.                          *)
(*                                                                         *)
(* Sessions are numbered in the order they are started; number 0 is None.  *)
(* What a turn of the loop receives is abstracted to whether it completes  *)
(* a snapshot (Receiver.tla models the turn).                              *)
(***************************************************************************)
EXTENDS Integers

CONSTANTS MaxSessions, \* bound: sessions started
          MaxNotes     \* bound: notes submitted

ASSUME SessionAssumption == MaxSessions \in Nat \ {0} /\ MaxNotes \in Nat

Session == 1 .. MaxSessions

VARIABLES
    ui,           \* where the UI thread is
    receiving,    \* MainWindow.is_receiving
    startEnabled, \* Start and Settings are enabled, Stop is disabled
    rxThread,     \* MainWindow.rx_thread
    flag,         \* new_data_flag
    excelLogger,  \* _excel_logger: whose CSV it is
    open,         \* sessions whose CSV file is open
    pc,           \* where each receive thread is
    claimed,      \* notes the UI reported as written
    lost,         \* history: of those, how many were not, with a session running
    gaveUp        \* history: a join has timed out

uiVars == <<ui, receiving, startEnabled, rxThread>>
logVars == <<excelLogger, open>>
noteVars == <<claimed, lost>>
vars == <<ui, receiving, startEnabled, rxThread, flag, excelLogger, open, pc,
          claimed, lost, gaveUp>>

UiStates == {"idle", "starting", "joining", "wizStarting", "wizard", "wizJoining"}
ThreadStates == {"none", "new", "resetting", "check", "turn", "publish",
                 "closing", "leaving", "ending", "dead"}

Alive == {t \in Session : pc[t] \notin {"none", "dead"}}
IsAlive(t) == t \in Alive

(* The states between the creation of the CSV and its closing.             *)
InLoop(t) == pc[t] \in {"check", "turn", "publish", "closing"}

TypeOK ==
    /\ ui \in UiStates
    /\ receiving \in BOOLEAN /\ startEnabled \in BOOLEAN /\ gaveUp \in BOOLEAN
    /\ rxThread \in Session \cup {0}
    /\ flag \in {-1, 0, 1}
    /\ excelLogger \in Session \cup {0}
    /\ open \subseteq Session
    /\ pc \in [Session -> ThreadStates]
    /\ claimed \in 0 .. MaxNotes /\ lost \in 0 .. claimed

Init ==
    /\ ui = "idle"
    /\ receiving = FALSE
    /\ startEnabled = TRUE
    /\ rxThread = 0
    /\ flag = 0
    /\ excelLogger = 0
    /\ open = {}
    /\ pc = [t \in Session |-> "none"]
    /\ claimed = 0 /\ lost = 0
    /\ gaveUp = FALSE

-----------------------------------------------------------------------------
(* The UI thread.                                                          *)

StartThread(t) ==
    /\ pc[t] = "none"
    /\ \A s \in Session : s < t => pc[s] # "none"
    /\ pc' = [pc EXCEPT ![t] = "new"]
    /\ rxThread' = t

(* _start: the thread runs before is_receiving is set.                     *)
Start ==
    /\ ui = "idle" /\ startEnabled /\ ~ receiving
    /\ \E t \in Session : StartThread(t)
    /\ ui' = "starting"
    /\ UNCHANGED <<receiving, startEnabled, flag, logVars, noteVars, gaveUp>>

Started ==
    /\ ui = "starting"
    /\ receiving' = TRUE
    /\ startEnabled' = FALSE
    /\ ui' = "idle"
    /\ UNCHANGED <<rxThread, flag, logVars, pc, noteVars, gaveUp>>

(* _stop up to the join.                                                   *)
PressStop ==
    /\ ui = "idle" /\ ~ startEnabled /\ receiving
    /\ flag' = -1
    /\ ui' = "joining"
    /\ UNCHANGED <<receiving, startEnabled, rxThread, logVars, pc, noteVars, gaveUp>>

(* The end of _stop, and of the wizard: the wizard leaves the buttons.     *)
EndOfStop ==
    /\ receiving' = FALSE
    /\ startEnabled' = (ui = "joining" \/ startEnabled)
    /\ ui' = "idle"

(* Mutated form of JoinReturns: the thread is not joined.                  *)
JoinSkipped ==
    /\ ui \in {"joining", "wizJoining"}
    /\ EndOfStop
    /\ UNCHANGED <<rxThread, flag, logVars, pc, noteVars, gaveUp>>

(* join comes back because the thread ended.                               *)
JoinReturns ==
    /\ ui \in {"joining", "wizJoining"} /\ ~ IsAlive(rxThread)
    /\ EndOfStop
    /\ UNCHANGED <<rxThread, flag, logVars, pc, noteVars, gaveUp>>

(* Mutated form of JoinTimesOut: join() without a timeout.                 *)
JoinNeverTimesOut ==
    /\ FALSE
    /\ UNCHANGED vars

(* join(timeout=1.5) comes back while the thread runs: it may be in one of *)
(* the sleeps of the reconnect path, which last up to 2 s, or it may have  *)
(* missed the request.                                                     *)
JoinTimesOut ==
    /\ ui \in {"joining", "wizJoining"} /\ IsAlive(rxThread)
    /\ gaveUp' = TRUE
    /\ EndOfStop
    /\ UNCHANGED <<rxThread, flag, logVars, pc, noteVars>>

(* _update, which also runs while the wizard is open: it consumes the      *)
(* announcement and stops a session whose thread is dead.                  *)
Update ==
    /\ ui \in {"idle", "wizard"}
    /\ IF receiving /\ rxThread # 0 /\ ~ IsAlive(rxThread)
       THEN flag' = -1 /\ receiving' = FALSE /\ startEnabled' = TRUE
       ELSE /\ flag' = IF flag = 1 THEN 0 ELSE flag
            /\ UNCHANGED <<receiving, startEnabled>>
    /\ UNCHANGED <<ui, rxThread, logVars, pc, noteVars, gaveUp>>

(* _sd_open_cal_wizard starts a session of its own.                        *)
OpenWizard ==
    /\ ui = "idle" /\ startEnabled /\ ~ receiving
    /\ flag' = 0
    /\ \E t \in Session : StartThread(t)
    /\ ui' = "wizStarting"
    /\ UNCHANGED <<receiving, startEnabled, logVars, noteVars, gaveUp>>

WizardStarted ==
    /\ ui = "wizStarting"
    /\ receiving' = TRUE
    /\ ui' = "wizard"
    /\ UNCHANGED <<startEnabled, rxThread, flag, logVars, pc, noteVars, gaveUp>>

CloseWizard ==
    /\ ui = "wizard"
    /\ flag' = -1
    /\ ui' = "wizJoining"
    /\ UNCHANGED <<receiving, startEnabled, rxThread, logVars, pc, noteVars, gaveUp>>

(* _submit_note with a logger: write_note swallows the error of a closed   *)
(* file, and the note is reported as written.                              *)
SubmitNote ==
    /\ ui = "idle" /\ excelLogger # 0 /\ claimed < MaxNotes
    /\ claimed' = claimed + 1
    /\ lost' = IF excelLogger \in open \/ \A t \in Session : ~ InLoop(t)
               THEN lost ELSE lost + 1
    /\ UNCHANGED <<uiVars, flag, logVars, pc, gaveUp>>

-----------------------------------------------------------------------------
(* A receive thread.                                                       *)

Goto(t, from, to) == pc[t] = from /\ pc' = [pc EXCEPT ![t] = to]

(* receive_data is entered: new_data_flag = 0.                             *)
EnterReceive(t) ==
    /\ Goto(t, "new", "resetting")
    /\ flag' = 0
    /\ UNCHANGED <<uiVars, logVars, noteVars, gaveUp>>

(* Mutated form of OpenLog: a CSV is created for the first session only.   *)
OpenLogOnce(t) ==
    /\ Goto(t, "resetting", "check")
    /\ IF excelLogger = 0 THEN excelLogger' = t /\ open' = {t}
       ELSE UNCHANGED logVars
    /\ UNCHANGED <<uiVars, flag, noteVars, gaveUp>>

(* _excel_logger = SerialCSVLogger(...).  The logger it replaces loses its *)
(* last reference, which closes its file.                                  *)
OpenLog(t) ==
    /\ Goto(t, "resetting", "check")
    /\ excelLogger' = t
    /\ open' = (open \ {excelLogger}) \cup {t}
    /\ UNCHANGED <<uiVars, flag, noteVars, gaveUp>>

(* The CSV cannot be created: the exception leaves receive_data before its *)
(* try block.                                                              *)
OpenLogFails(t) ==
    /\ Goto(t, "resetting", "leaving")
    /\ UNCHANGED <<uiVars, flag, logVars, noteVars, gaveUp>>

(* Mutated form of CheckFlag: while True.                                  *)
CheckSkipped(t) ==
    /\ Goto(t, "check", "turn")
    /\ UNCHANGED <<uiVars, flag, logVars, noteVars, gaveUp>>

(* while new_data_flag != -1.                                              *)
CheckFlag(t) ==
    /\ Goto(t, "check", IF flag = -1 THEN "closing" ELSE "turn")
    /\ UNCHANGED <<uiVars, flag, logVars, noteVars, gaveUp>>

(* A turn that completes no snapshot: reconnecting, timeout, bad frame...  *)
QuietTurn(t) ==
    /\ Goto(t, "turn", "check")
    /\ UNCHANGED <<uiVars, flag, logVars, noteVars, gaveUp>>

(* Mutated form of Announce: the announcements are counted.                *)
AnnounceCounts(t) ==
    /\ Goto(t, "turn", "publish")
    /\ flag' = flag + 1
    /\ UNCHANGED <<uiVars, logVars, noteVars, gaveUp>>

(* new_data_flag = 1, whatever it was.                                     *)
Announce(t) ==
    /\ Goto(t, "turn", "publish")
    /\ flag' = 1
    /\ UNCHANGED <<uiVars, logVars, noteVars, gaveUp>>

(* The row is written, or it is not due.                                   *)
LogRow(t) ==
    /\ excelLogger \in open
    /\ Goto(t, "publish", "check")
    /\ UNCHANGED <<uiVars, flag, logVars, noteVars, gaveUp>>

NoRowDue(t) ==
    /\ Goto(t, "publish", "check")
    /\ UNCHANGED <<uiVars, flag, logVars, noteVars, gaveUp>>

(* log_snapshot raises: the file is closed, or the disk is full.           *)
LogRaises(t) ==
    /\ Goto(t, "publish", "closing")
    /\ UNCHANGED <<uiVars, flag, logVars, noteVars, gaveUp>>

(* The finally of receive_data closes whatever _excel_logger is by now.    *)
CloseLog(t) ==
    /\ Goto(t, "closing", "leaving")
    /\ open' = open \ {excelLogger}
    /\ UNCHANGED <<uiVars, flag, excelLogger, noteVars, gaveUp>>

(* The finally of the worker.                                              *)
ClearReceiving(t) ==
    /\ Goto(t, "leaving", "ending")
    /\ receiving' = FALSE
    /\ UNCHANGED <<ui, startEnabled, rxThread, flag, logVars, noteVars, gaveUp>>

EndThread(t) ==
    /\ Goto(t, "ending", "dead")
    /\ UNCHANGED <<uiVars, flag, logVars, noteVars, gaveUp>>

-----------------------------------------------------------------------------
UiProceeds == Started \/ JoinReturns \/ JoinTimesOut \/ WizardStarted

UiNext == \/ Start \/ PressStop \/ Update
          \/ OpenWizard \/ CloseWizard \/ SubmitNote
          \/ UiProceeds

ThreadNext(t) ==
    \/ EnterReceive(t) \/ OpenLog(t) \/ OpenLogFails(t) \/ CheckFlag(t)
    \/ QuietTurn(t) \/ Announce(t) \/ LogRow(t) \/ NoRowDue(t) \/ LogRaises(t)
    \/ CloseLog(t) \/ ClearReceiving(t) \/ EndThread(t)

Next == UiNext \/ \E t \in Session : ThreadNext(t)

(* The operating system runs every thread; the operator owes nothing.      *)
Fairness ==
    /\ WF_vars(UiProceeds)
    /\ WF_vars(Update)
    /\ \A t \in Session : WF_vars(ThreadNext(t))

Spec == Init /\ [][Next]_vars /\ Fairness

-----------------------------------------------------------------------------
(* Two receive threads never share the port, the flag and the CSV, unless  *)
(* a stop gave up waiting for the first one.                               *)
OneReceiver == ~ gaveUp => \A s, t \in Alive : s = t

(* Until then a session in its loop logs to its own CSV, and that is open, *)
(* so that a note reported as written meanwhile is.                        *)
OwnOpenLog ==
    ~ gaveUp => /\ \A t \in Session : InLoop(t) => excelLogger = t /\ t \in open
                /\ lost = 0

(* Until then no session that runs is out of reach of the Stop button: the *)
(* window knows that it is receiving.                                      *)
RunningIsStoppable ==
    ~ gaveUp /\ ui = "idle" => \A t \in Session : InLoop(t) => receiving

(* Pressing Stop always gives the Start button back, also when the thread  *)
(* overwrote the request.                                                  *)
StopReenablesStart == ui = "joining" ~> startEnabled

(* A request to stop that nothing overwrites ends every receive thread,    *)
(* those of earlier sessions that outlived their own stop included.        *)
KeptStopEndsAll == <>[](flag = -1) => <>[](Alive = {})
=============================================================================
