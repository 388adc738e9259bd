-------------------------- MODULE RxSession_proofs --------------------------
(***************************************************************************)
(* Theorems about RxSession, for any number of sessions and notes.         *)
(*                                                                         *)
(* The argument: as long as no join timed out, a thread that is alive is   *)
(* the one the window remembers (Latest), and the Start button is a claim  *)
(* that none is (StartMeansNone).  Start and the wizard need the button    *)
(* enabled, so a second thread is never added to a first one; and with one *)
(* thread at a time the globals belong to it.                              *)
(***************************************************************************)
EXTENDS RxSession, TLAPS

LiveThread(t) == pc[t] \notin {"none", "dead"}

(* What a thread does before it reports its end to the window.             *)
Working(t) == LiveThread(t) /\ pc[t] # "ending"

Latest == \A t \in Session : LiveThread(t) => t = rxThread

StartMeansNone ==
    ui = "idle" /\ startEnabled => \A t \in Session : ~ LiveThread(t)

OwnsLog == \A t \in Session : InLoop(t) => excelLogger = t /\ t \in open

WindowKnows == ui = "idle" => \A t \in Session : Working(t) => receiving

NoneLost == lost = 0

Solo == Latest /\ StartMeansNone /\ OwnsLog /\ WindowKnows /\ NoneLost

Inv == TypeOK /\ (~ gaveUp => Solo)

LEMMA SoloDef == \A t \in Session : InLoop(t) => LiveThread(t) /\ Working(t)
BY DEF InLoop, LiveThread, Working

(* The initial states satisfy the invariant.                               *)
LEMMA InitInv == Init => Inv
<1> SUFFICES ASSUME Init PROVE Inv
    OBVIOUS
<1>1. TypeOK
    <2>1. pc \in [Session -> ThreadStates]
        BY DEF Init, ThreadStates
    <2>2. claimed \in 0 .. MaxNotes /\ lost \in 0 .. claimed
        BY SessionAssumption DEF Init
    <2> QED
        BY <2>1, <2>2 DEF Init, TypeOK, UiStates
<1>2. \A t \in Session : ~ LiveThread(t) /\ ~ InLoop(t)
    BY DEF Init, LiveThread, InLoop
<1>3. Solo
    BY <1>2 DEF Solo, Latest, StartMeansNone, OwnsLog, WindowKnows, NoneLost, Working, Init
<1> QED
    BY <1>1, <1>3 DEF Inv

(* Type correctness is inductive on its own.                               *)
LEMMA TypeStep == TypeOK /\ [Next]_vars => TypeOK'
<1> SUFFICES ASSUME TypeOK, [Next]_vars PROVE TypeOK'
    OBVIOUS
<1> USE SessionAssumption
        DEF TypeOK, UiStates, ThreadStates, uiVars, logVars, noteVars
<1>1. CASE UNCHANGED vars
    BY <1>1 DEF vars
<1>2. CASE Start
    BY <1>2 DEF Start, StartThread
<1>3. CASE Started
    BY <1>3 DEF Started
<1>4. CASE PressStop
    BY <1>4 DEF PressStop
<1>5. CASE JoinReturns
    BY <1>5 DEF JoinReturns, EndOfStop
<1>6. CASE JoinTimesOut
    BY <1>6 DEF JoinTimesOut, EndOfStop
<1>7. CASE Update
    BY <1>7 DEF Update
<1>8. CASE OpenWizard
    BY <1>8 DEF OpenWizard, StartThread
<1>9. CASE WizardStarted
    BY <1>9 DEF WizardStarted
<1>10. CASE CloseWizard
    BY <1>10 DEF CloseWizard
<1>11. CASE SubmitNote
    BY <1>11 DEF SubmitNote
<1>12. ASSUME NEW t \in Session, ThreadNext(t) PROVE TypeOK'
    BY <1>12 DEF ThreadNext, Goto, EnterReceive, OpenLog, OpenLogFails, CheckFlag,
       QuietTurn, Announce, LogRow, NoRowDue, LogRaises, CloseLog,
       ClearReceiving, EndThread
<1> QED
    BY <1>1, <1>2, <1>3, <1>4, <1>5, <1>6, <1>7, <1>8, <1>9, <1>10, <1>11, <1>12
       DEF Next, UiNext, UiProceeds

(* A step that moves thread t within its life, and leaves the window as it *)
(* is, keeps what concerns the threads and the window.                     *)
LEMMA MoveStep ==
    ASSUME TypeOK, Latest, StartMeansNone, WindowKnows,
           NEW t \in Session, NEW to \in ThreadStates \ {"none", "dead"},
           Working(t), pc' = [pc EXCEPT ![t] = to], UNCHANGED uiVars
    PROVE  Latest' /\ StartMeansNone' /\ WindowKnows'
<1>1. \A s \in Session : LiveThread(s)' => LiveThread(s)
    BY DEF TypeOK, LiveThread, Working
<1>2. \A s \in Session : Working(s)' => Working(s)
    BY DEF TypeOK, LiveThread, Working
<1> QED
    BY <1>1, <1>2 DEF Latest, StartMeansNone, WindowKnows, uiVars

(* Every step of the window keeps the invariant.                           *)
LEMMA UiStep ==
    ASSUME TypeOK, TypeOK', Solo, ~ gaveUp', UiNext
    PROVE  Solo'
<1> USE DEF Solo, Latest, StartMeansNone, OwnsLog, WindowKnows, NoneLost, LiveThread,
            Working, InLoop, logVars, noteVars, uiVars
<1>1. CASE Start
    BY <1>1 DEF Start, StartThread, TypeOK
<1>2. CASE Started
    BY <1>2 DEF Started
<1>3. CASE PressStop
    BY <1>3 DEF PressStop
<1>4. CASE JoinReturns
    <2>1. \A t \in Session : ~ LiveThread(t)
        BY <1>4 DEF JoinReturns, IsAlive, Alive
    <2> QED
        BY <1>4, <2>1 DEF JoinReturns
<1>5. CASE JoinTimesOut
    BY <1>5 DEF JoinTimesOut
<1>6. CASE Update
    <2>1. CASE receiving /\ rxThread # 0 /\ ~ IsAlive(rxThread)
        <3>1. \A t \in Session : ~ LiveThread(t)
            BY <2>1 DEF IsAlive, Alive
        <3> QED
            BY <1>6, <3>1 DEF Update
    <2>2. CASE ~ (receiving /\ rxThread # 0 /\ ~ IsAlive(rxThread))
        BY <1>6, <2>2 DEF Update
    <2> QED
        BY <2>1, <2>2
<1>7. CASE OpenWizard
    BY <1>7 DEF OpenWizard, StartThread, TypeOK
<1>8. CASE WizardStarted
    BY <1>8 DEF WizardStarted
<1>9. CASE CloseWizard
    BY <1>9 DEF CloseWizard
<1>10. CASE SubmitNote
    BY <1>10 DEF SubmitNote
<1> QED
    BY <1>1, <1>2, <1>3, <1>4, <1>5, <1>6, <1>7, <1>8, <1>9, <1>10
       DEF UiNext, UiProceeds

(* Every step of a receive thread keeps the invariant.                     *)
LEMMA ThreadStep ==
    ASSUME TypeOK, Solo, NEW t \in Session, ThreadNext(t)
    PROVE  Solo'
<1> USE DEF Solo, Goto, ThreadStates
<1>7. NoneLost'
    BY DEF ThreadNext, EnterReceive, OpenLog, OpenLogFails, CheckFlag, QuietTurn, Announce,
       LogRow, NoRowDue, LogRaises, CloseLog, ClearReceiving, EndThread, NoneLost, noteVars
<1>0. \A s \in Session \ {t} : ~ LiveThread(s) /\ ~ InLoop(s)
    <2>1. LiveThread(t)
        BY DEF ThreadNext, EnterReceive, OpenLog, OpenLogFails, CheckFlag, QuietTurn,
           Announce, LogRow, NoRowDue, LogRaises, CloseLog, ClearReceiving,
           EndThread, LiveThread
    <2> QED
        BY <2>1, SoloDef DEF Latest
<1>1. CASE EnterReceive(t) \/ OpenLogFails(t)
    <2>1. Working(t) /\ UNCHANGED <<uiVars, logVars>>
        BY <1>1 DEF EnterReceive, OpenLogFails, Working, LiveThread
    <2>2. PICK to \in {"resetting", "leaving"} : pc' = [pc EXCEPT ![t] = to]
        BY <1>1 DEF EnterReceive, OpenLogFails
    <2>3. OwnsLog'
        BY <2>1, <2>2, <1>0 DEF OwnsLog, InLoop, TypeOK, logVars
    <2> QED
        BY <1>7, <2>1, <2>2, <2>3, MoveStep
<1>2. CASE OpenLog(t)
    <2>1. Working(t) /\ UNCHANGED uiVars /\ pc' = [pc EXCEPT ![t] = "check"]
        BY <1>2 DEF OpenLog, Working, LiveThread
    <2>2. OwnsLog'
        BY <1>2, <1>0 DEF OpenLog, OwnsLog, InLoop, TypeOK
    <2> QED
        BY <1>7, <2>1, <2>2, MoveStep
<1>3. CASE CheckFlag(t) \/ QuietTurn(t) \/ Announce(t) \/ LogRow(t) \/ NoRowDue(t)
           \/ LogRaises(t)
    <2>1. Working(t) /\ InLoop(t) /\ UNCHANGED <<uiVars, logVars>>
        BY <1>3 DEF CheckFlag, QuietTurn, Announce, LogRow, NoRowDue, LogRaises,
           Working, LiveThread, InLoop
    <2>2. PICK to \in {"check", "turn", "publish", "closing"} : pc' = [pc EXCEPT ![t] = to]
        BY <1>3 DEF CheckFlag, QuietTurn, Announce, LogRow, NoRowDue, LogRaises
    <2>3. OwnsLog'
        BY <2>1, <2>2, <1>0 DEF OwnsLog, InLoop, TypeOK, logVars
    <2> QED
        BY <1>7, <2>1, <2>2, <2>3, MoveStep
<1>4. CASE CloseLog(t)
    <2>1. Working(t) /\ UNCHANGED uiVars /\ pc' = [pc EXCEPT ![t] = "leaving"]
        BY <1>4 DEF CloseLog, Working, LiveThread
    <2>2. OwnsLog'
        BY <1>4, <1>0 DEF CloseLog, OwnsLog, InLoop, TypeOK
    <2> QED
        BY <1>7, <2>1, <2>2, MoveStep
<1>5. CASE ClearReceiving(t)
    BY <1>5, <1>0, <1>7 DEF ClearReceiving, Latest, StartMeansNone, OwnsLog, WindowKnows,
       LiveThread, Working, InLoop, TypeOK, logVars
<1>6. CASE EndThread(t)
    BY <1>6, <1>0, <1>7 DEF EndThread, Latest, StartMeansNone, OwnsLog, WindowKnows,
       LiveThread, Working, InLoop, TypeOK, logVars, uiVars
<1> QED
    BY <1>1, <1>2, <1>3, <1>4, <1>5, <1>6, <1>7 DEF ThreadNext

(* gaveUp is never taken back.                                             *)
LEMMA GaveUpStays == [Next]_vars /\ gaveUp => gaveUp'
BY DEF Next, UiNext, UiProceeds, ThreadNext, vars, Start, Started, PressStop,
   JoinReturns, JoinTimesOut, Update, OpenWizard, WizardStarted, CloseWizard,
   SubmitNote, EnterReceive, OpenLog, OpenLogFails, CheckFlag, QuietTurn, Announce,
   LogRow, NoRowDue, LogRaises, CloseLog, ClearReceiving, EndThread

LEMMA NextInv == Inv /\ [Next]_vars => Inv'
<1> SUFFICES ASSUME Inv, [Next]_vars PROVE Inv'
    OBVIOUS
<1>1. TypeOK /\ TypeOK'
    BY TypeStep DEF Inv
<1>2. ASSUME ~ gaveUp' PROVE Solo'
    <2>1. Solo
        BY <1>1, <1>2, GaveUpStays DEF Inv
    <2>2. CASE UNCHANGED vars
        BY <2>1, <2>2 DEF vars, Solo, Latest, StartMeansNone, OwnsLog, WindowKnows, NoneLost,
           LiveThread, Working, InLoop
    <2>3. CASE UiNext
        BY <1>1, <1>2, <2>1, <2>3, UiStep
    <2>4. CASE \E t \in Session : ThreadNext(t)
        BY <1>1, <2>1, <2>4, ThreadStep
    <2> QED
        BY <2>2, <2>3, <2>4 DEF Next
<1> QED
    BY <1>1, <1>2 DEF Inv

LEMMA SpecInv == Spec => []Inv
BY InitInv, NextInv, PTL DEF Spec

(* Type correctness of the window, the threads and the globals they share. *)
THEOREM TypeCorrect == Spec => []TypeOK
<1>1. Inv => TypeOK
    BY DEF Inv
<1> QED
    BY <1>1, SpecInv, PTL

(* However often the operator starts, stops and calibrates: two threads    *)
(* receive at a time only after a stop gave up waiting.                    *)
THEOREM NoSecondReceiver == Spec => []OneReceiver
<1>1. Inv => OneReceiver
    BY DEF Inv, Solo, Latest, OneReceiver, Alive, LiveThread
<1> QED
    BY <1>1, SpecInv, PTL

(* Until then every session logs to its own CSV, which is open.            *)
THEOREM SessionOwnsLog == Spec => []OwnOpenLog
<1>1. Inv => OwnOpenLog
    BY DEF Inv, Solo, OwnsLog, NoneLost, OwnOpenLog
<1> QED
    BY <1>1, SpecInv, PTL

(* Until then a session that runs can be stopped.                          *)
THEOREM StopWithinReach == Spec => []RunningIsStoppable
<1>1. Inv => RunningIsStoppable
    BY SoloDef DEF Inv, Solo, WindowKnows, RunningIsStoppable
<1> QED
    BY <1>1, SpecInv, PTL

-----------------------------------------------------------------------------
(* What holds also after a stop gave up, when sessions overlap: the finally *)
(* of receive_data closes whatever _excel_logger is by then, maybe the CSV  *)
(* of a younger session, but none is forgotten.  A CSV that is open is the  *)
(* one _excel_logger names, and its session is still in its loop.           *)
NoLogForgotten ==
    \A t \in open : t = excelLogger /\ InLoop(t)

LEMMA ForgottenStep == TypeOK /\ NoLogForgotten /\ [Next]_vars => NoLogForgotten'
<1> SUFFICES ASSUME TypeOK, NoLogForgotten, [Next]_vars PROVE NoLogForgotten'
    OBVIOUS
<1>1. CASE UNCHANGED vars
    BY <1>1 DEF vars, NoLogForgotten, InLoop
<1>2. CASE UiNext
    <2>1. UNCHANGED logVars
        BY <1>2 DEF UiNext, UiProceeds, Start, Started, PressStop, JoinReturns, JoinTimesOut,
           Update, OpenWizard, WizardStarted, CloseWizard, SubmitNote
    <2>2. \A t \in Session : pc[t] # "none" => pc'[t] = pc[t]
        BY <1>2 DEF UiNext, UiProceeds, Start, StartThread, Started, PressStop, JoinReturns,
           JoinTimesOut, Update, OpenWizard, WizardStarted, CloseWizard, SubmitNote, TypeOK
    <2> QED
        BY <2>1, <2>2 DEF logVars, NoLogForgotten, InLoop, TypeOK
<1>3. ASSUME NEW t \in Session, ThreadNext(t) PROVE NoLogForgotten'
    <2>1. CASE EnterReceive(t) \/ OpenLogFails(t) \/ ClearReceiving(t) \/ EndThread(t)
        <3>1. /\ UNCHANGED logVars /\ ~ InLoop(t)
              /\ \A s \in Session \ {t} : pc'[s] = pc[s]
            BY <2>1 DEF EnterReceive, OpenLogFails, ClearReceiving, EndThread, Goto, InLoop,
               TypeOK
        <3> QED
            BY <3>1 DEF logVars, NoLogForgotten, InLoop, TypeOK
    <2>2. CASE CheckFlag(t) \/ QuietTurn(t) \/ Announce(t) \/ LogRow(t) \/ NoRowDue(t)
               \/ LogRaises(t)
        <3>1. /\ UNCHANGED logVars /\ InLoop(t)'
              /\ \A s \in Session \ {t} : pc'[s] = pc[s]
            BY <2>2 DEF CheckFlag, QuietTurn, Announce, LogRow, NoRowDue, LogRaises, Goto,
               InLoop, TypeOK
        <3> QED
            BY <3>1 DEF logVars, NoLogForgotten, InLoop, TypeOK
    <2>3. CASE OpenLog(t)
        <3>1. open' = {t} /\ excelLogger' = t /\ InLoop(t)'
            BY <2>3 DEF OpenLog, Goto, NoLogForgotten, InLoop, TypeOK
        <3> QED
            BY <3>1 DEF NoLogForgotten, InLoop
    <2>4. CASE CloseLog(t)
        BY <2>4 DEF CloseLog, NoLogForgotten
    <2> QED
        BY <1>3, <2>1, <2>2, <2>3, <2>4 DEF ThreadNext
<1> QED
    BY <1>1, <1>2, <1>3 DEF Next

(* However the sessions overlap, no CSV stays open once its session has    *)
(* left its loop, and never are two of them open.                          *)
THEOREM LogsAreClosed == Spec => []NoLogForgotten
<1>1. Init => NoLogForgotten
    BY DEF Init, NoLogForgotten
<1>2. Inv => TypeOK
    BY DEF Inv
<1> QED
    BY <1>1, <1>2, SpecInv, ForgottenStep, PTL DEF Spec
=============================================================================
