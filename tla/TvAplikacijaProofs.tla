------------------------- MODULE TvAplikacijaProofs -------------------------
(***************************************************************************)
(* Theorems about TvAplikacija, for any overlays in any order: what main   *)
(* releases has had its last use, what fails closes what it opened, and    *)
(* the beginning of the task implements StreamController's BringUp.        *)
(***************************************************************************)
EXTENDS TvAplikacija, TLAPS

(* The task is created when main comes to that.                            *)
NotYet == main \in {"initRc", "register", "initSc"} => task = "none"

(* What bring-up has opened when it is at each of its steps.               *)
Opened ==
  /\ task \in {"none", "malloc", "tuner"} => ~tuner
  /\ task \in {"none", "malloc", "tuner", "lock", "enterStatus", "waitStatus", "player"}
       => ~player
  /\ task \in InBringUp \cup {"none"} => ~filter
  /\ task \in (InBringUp \cup {"none"}) \ {"filter"} => ~source
  /\ task \in (InBringUp \ {"malloc"}) \cup Streaming \cup {"callback"} => tables = "eit"
  /\ task = "ended" /\ threadExit /\ main # "returned" => tables = "eit"

(* If a wait returns only on a signal or its timeout, the task goes past   *)
(* its wait only when the tuner has reported.                              *)
Reported ==
  ~Spurious =>
    /\ task \in {"player", "source", "filter", "callback"} \cup Streaming => report = "done"
    /\ PlaysOnLockedTuner

(* Only a task whose first startChannel has returned is told to end.       *)
Initialized ==
  /\ isInitialized => task \in Streaming \/ (task = "ended" /\ threadExit)
  /\ threadExit => task \in Streaming \cup {"ended"}
  /\ main = "joinSc" => threadExit

IInv == /\ TypeOK /\ NotYet /\ Opened /\ Reported /\ Initialized
        /\ LastUseBeforeRelease /\ DeviceClosed

-----------------------------------------------------------------------------
LEMMA InitIInv == Init => IInv
<1> SUFFICES ASSUME Init PROVE IInv
  OBVIOUS
<1> USE DEF Init, RenderInit, BringUpInit
<1>1. TypeOK
  <2>1. Len(Elementi) \in Nat
    BY ElementiAssumption
  <2>2. RenderTypeOK
    <3>1. ispis \in [Shown -> BOOLEAN]
      OBVIOUS
    <3>2. red \in 0..Len(Elementi)
      BY <2>1
    <3>3. crtajGrafiku \in BOOLEAN /\ nit \in {"none", "check", "draw", "ended"}
      OBVIOUS
    <3>4. slika \subseteq Shown /\ ekran \subseteq Shown
      OBVIOUS
    <3> QED
      BY <3>1, <3>2, <3>3, <3>4 DEF RenderTypeOK
  <2> QED
    BY <2>2 DEF TypeOK, BringUpTypeOK, MainPoints
<1>2. NotYet /\ Opened /\ Reported /\ Initialized
  BY DEF NotYet, Opened, InBringUp, Streaming, SectionWaits, Reported, PlaysOnLockedTuner,
         Initialized
<1>3. LastUseBeforeRelease /\ DeviceClosed
  BY DEF LastUseBeforeRelease, DeviceClosed
<1> QED
  BY <1>1, <1>2, <1>3 DEF IInv

(* The remote controller's thread touches main only to wake it or to       *)
(* crash.                                                                  *)
LEMMA RcStepIInv == ASSUME IInv, Alive, RcStep \/ User PROVE IInv'
<1> USE DEF IInv, Alive, RcStep, User, RcRuns, RcFrame, OpenDevice, CheckRcExit, ReadPress,
       ReadRelease, ReadFails, TestCallback, CallCallback, ExitPressed, ChannelKey,
       graphicsVars, flags, frame, bringUpVars, device, demux, rcVars, scFlags
<1>a. main' \in {main, "crashed"} \/ (main = "waitExit" /\ main' = "unregister")
  OBVIOUS
<1>b. UNCHANGED <<bringUpVars, scFlags>>
  OBVIOUS
<1>c. UNCHANGED graphicsVars
  OBVIOUS
<1>1. TypeOK'
  <2>1. RenderTypeOK' /\ BringUpTypeOK'
    <3> HIDE DEF RcStep, User, RcRuns, RcFrame
    <3>1. RenderTypeOK'
      BY <1>c DEF TypeOK, RenderTypeOK
    <3>2. BringUpTypeOK'
      BY <1>b DEF TypeOK, BringUpTypeOK
    <3> QED
      BY <3>1, <3>2
  <2>2. main' \in MainPoints
    BY DEF TypeOK, MainPoints
  <2>3. /\ rc' \in {"none", "open", "check", "read", "test", "call", "exit", "channel", "ended"}
        /\ released' \in BOOLEAN /\ changeChannel' \in BOOLEAN
    BY DEF TypeOK
  <2> QED
    BY <2>1, <2>2, <2>3 DEF TypeOK
<1>2. NotYet'
  BY DEF NotYet
<1>3. Opened'
  <2> HIDE DEF RcStep, User, RcRuns, RcFrame
  <2> QED
    BY <1>a, <1>b DEF Opened
<1>4. Reported'
  <2> HIDE DEF RcStep, User, RcRuns, RcFrame
  <2> QED
    BY <1>b DEF Reported, PlaysOnLockedTuner
<1>5. Initialized'
  <2> HIDE DEF RcStep, User, RcRuns, RcFrame
  <2> QED
    BY <1>a, <1>b DEF Initialized
<1>6. LastUseBeforeRelease'
  BY DEF LastUseBeforeRelease, NotYet
<1>7. DeviceClosed'
  <2> HIDE DEF RcStep, User, RcRuns, RcFrame
  <2> QED
    BY <1>a, <1>b DEF DeviceClosed
<1> QED
  BY <1>1, <1>2, <1>3, <1>4, <1>5, <1>6, <1>7

(* Parts are started before main waits, and released after joins.          *)
LEMMA MainStepIInv == ASSUME IInv, Alive, MainStep PROVE IInv'
<1> USE DEF IInv, Alive, MainStep, InitRc, Start, RegisterCallback, InitSc, EnterExitWait,
       UnregisterCallback, StopRc, JoinRc, DeinitSc, JoinAndRelease, FreeTables, DeviceCloses,
       GraphicsMainStep, StartDrawing, StopDrawing, EnterRenderWait, JoinRender,
       graphicsVars, flags, frame, bringUpVars, device, demux, rcVars, scFlags
<1>1. TypeOK'
  <2>1. RenderTypeOK'
    BY DEF TypeOK, RenderTypeOK
  <2>2. BringUpTypeOK'
    <3>1. CASE InitSc
      BY <3>1 DEF TypeOK, BringUpTypeOK, InBringUp
    <3>2. CASE JoinAndRelease
      BY <3>2 DEF TypeOK, BringUpTypeOK, Opened, Initialized
    <3>3. CASE UNCHANGED bringUpVars
      BY <3>3 DEF TypeOK, BringUpTypeOK
    <3>4. InitSc \/ JoinAndRelease \/ UNCHANGED bringUpVars
      OBVIOUS
    <3> QED
      BY <3>1, <3>2, <3>3, <3>4
  <2>3. main' \in MainPoints /\ rc' \in {rc, "open"}
    BY DEF TypeOK, MainPoints
  <2>4. {released, callback, rcExit, threadExit, isInitialized, changeChannel}' \subseteq BOOLEAN
    BY DEF TypeOK
  <2> QED
    BY <2>1, <2>2, <2>3, <2>4 DEF TypeOK
<1>2. NotYet'
  BY DEF NotYet
<1>3. Opened'
  BY DEF Opened, InBringUp, Streaming, SectionWaits, BringUpTypeOK, TypeOK, NotYet, Initialized
<1>4. Reported'
  BY DEF Reported, PlaysOnLockedTuner, NotYet, Streaming, SectionWaits
<1>5. Initialized'
  <2>1. CASE InitSc
    <3>1. task = "none" /\ ~isInitialized /\ ~threadExit
      BY <2>1 DEF Initialized, NotYet, Streaming, SectionWaits, TypeOK
    <3>2. ~isInitialized' /\ ~threadExit' /\ main' # "joinSc"
      BY <2>1, <3>1
    <3> QED
      BY <3>2 DEF Initialized
  <2>2. CASE DeinitSc
    BY <2>2 DEF Initialized, TypeOK
  <2>3. CASE JoinAndRelease
    BY <2>3 DEF Initialized
  <2>4. CASE ~DeinitSc /\ UNCHANGED <<task, threadExit, isInitialized>>
    BY <2>4 DEF Initialized
  <2> QED
    BY <2>1, <2>2, <2>3, <2>4
<1>6. LastUseBeforeRelease'
  BY DEF LastUseBeforeRelease, NotYet
<1>7. DeviceClosed'
  BY DEF DeviceClosed, Opened, InBringUp, Streaming, SectionWaits, Initialized, NotYet
<1> QED
  BY <1>1, <1>2, <1>3, <1>4, <1>5, <1>6, <1>7

(* Drawing.                                                                *)
LEMMA NitStepIInv == ASSUME IInv, Alive, NitStep PROVE IInv'
<1> USE DEF IInv, Alive, NitStep, RenderStep, CheckDrawing, Draw, Over, FlipAndSignal, Shown,
       graphicsVars, flags, frame, bringUpVars, device, demux, rcVars, scFlags
<1>1. TypeOK'
  BY ElementiAssumption DEF TypeOK, RenderTypeOK, BringUpTypeOK, MainPoints, InBringUp
<1>2. NotYet'
  BY DEF NotYet
<1>3. Opened'
  BY DEF Opened, InBringUp, Streaming, SectionWaits, BringUpTypeOK, TypeOK, NotYet, Initialized
<1>4. Reported'
  BY DEF Reported, PlaysOnLockedTuner, NotYet, Streaming, SectionWaits
<1>5. Initialized'
  BY DEF Initialized, NotYet, Opened, InBringUp, Streaming, SectionWaits, TypeOK
<1>6. LastUseBeforeRelease'
  BY DEF LastUseBeforeRelease, NotYet
<1>7. DeviceClosed'
  BY DEF DeviceClosed, Opened, InBringUp, Streaming, SectionWaits, Initialized, NotYet
<1> QED
  BY <1>1, <1>2, <1>3, <1>4, <1>5, <1>6, <1>7

(* Each step of bring-up opens one thing or takes back all before it.      *)
LEMMA BringUpIInv == ASSUME IInv, Alive, BringUpStep, BringUpFrame, TaskFrame PROVE IInv'
<1> USE DEF IInv, Alive, BringUpStep, BringUpFrame, TaskFrame, Allocate, FreeTables, GiveUp,
       InitTuner, LockToFrequency, EnterStatusWait, StatusTimeout, InitPlayer, OpenSource,
       SetPatFilter, RegisterSectionCallback, Await, graphicsVars, flags, frame, bringUpVars,
       device, demux, rcVars, scFlags
<1>1. TypeOK'
  <2>1. RenderTypeOK'
    BY DEF TypeOK, RenderTypeOK
  <2>2. BringUpTypeOK'
    <3> USE DEF TypeOK, BringUpTypeOK, InBringUp, Streaming, SectionWaits, Opened
    <3>1. CASE Allocate \/ InitTuner \/ LockToFrequency
      BY <3>1
    <3>2. CASE EnterStatusWait \/ StatusTimeout
      BY <3>2
    <3>3. CASE InitPlayer \/ OpenSource
      BY <3>3
    <3>4. CASE SetPatFilter
      BY <3>4
    <3>5. CASE RegisterSectionCallback
      BY <3>5
    <3> QED
      BY <3>1, <3>2, <3>3, <3>4, <3>5
  <2>3. main' \in MainPoints /\ {threadExit, isInitialized, changeChannel}' \subseteq BOOLEAN
    BY DEF TypeOK, MainPoints
  <2> QED
    BY <2>1, <2>2, <2>3 DEF TypeOK
<1>2. NotYet'
  BY DEF NotYet
<1>3. Opened'
  <2>1. ~threadExit'
    BY DEF Initialized, InBringUp, Streaming, SectionWaits
  <2>2. CASE Allocate \/ InitTuner
    BY <2>1, <2>2 DEF Opened, InBringUp, Streaming, SectionWaits
  <2>3. CASE LockToFrequency \/ EnterStatusWait \/ StatusTimeout
    BY <2>1, <2>3 DEF Opened, InBringUp, Streaming, SectionWaits
  <2>4. CASE InitPlayer \/ OpenSource
    BY <2>1, <2>4 DEF Opened, InBringUp, Streaming, SectionWaits
  <2>5. CASE SetPatFilter \/ RegisterSectionCallback
    BY <2>1, <2>5 DEF Opened, InBringUp, Streaming, SectionWaits
  <2> QED
    BY <2>2, <2>3, <2>4, <2>5
<1>4. Reported'
  BY DEF Reported, PlaysOnLockedTuner, NotYet, Streaming, SectionWaits
<1>5. Initialized'
  BY DEF Initialized, NotYet, Opened, InBringUp, Streaming, SectionWaits, TypeOK
<1>6. LastUseBeforeRelease'
  BY DEF LastUseBeforeRelease, NotYet
<1>7. DeviceClosed'
  BY DEF DeviceClosed, Opened, InBringUp, Streaming, SectionWaits, Initialized, NotYet
<1> QED
  BY <1>1, <1>2, <1>3, <1>4, <1>5, <1>6, <1>7

(* startChannel and the polling loop leave the device open.                *)
LEMMA StreamingIInv ==
  ASSUME IInv, Alive, StreamingStep \/ WaitEnds, StreamingFrame, TaskFrame PROVE IInv'
<1> USE DEF IInv, Alive, StreamingStep, StreamingFrame, TaskFrame, WaitEnds, Returns,
       SectionSignalled, SetSectionFilter, Await, SetStreams, ChangeChannel, EndTask,
       graphicsVars, flags, frame, bringUpVars, device, demux, rcVars, scFlags
<1>1. TypeOK'
  <2>1. RenderTypeOK'
    BY DEF TypeOK, RenderTypeOK
  <2>2. BringUpTypeOK'
    BY DEF TypeOK, BringUpTypeOK, InBringUp, Streaming, SectionWaits, Opened, Initialized
  <2>3. main' \in MainPoints /\ {threadExit, isInitialized, changeChannel}' \subseteq BOOLEAN
    BY DEF TypeOK, MainPoints
  <2> QED
    BY <2>1, <2>2, <2>3 DEF TypeOK
<1>2. NotYet'
  BY DEF NotYet
<1>3. Opened'
  BY DEF Opened, InBringUp, Streaming, SectionWaits, BringUpTypeOK, TypeOK, NotYet, Initialized
<1>4. Reported'
  BY DEF Reported, PlaysOnLockedTuner, NotYet, Streaming, SectionWaits
<1>5. Initialized'
  BY DEF Initialized, NotYet, Opened, InBringUp, Streaming, SectionWaits, TypeOK
<1>6. LastUseBeforeRelease'
  BY DEF LastUseBeforeRelease, NotYet
<1>7. DeviceClosed'
  BY DEF DeviceClosed, Opened, InBringUp, Streaming, SectionWaits, Initialized, NotYet
<1> QED
  BY <1>1, <1>2, <1>3, <1>4, <1>5, <1>6, <1>7

LEMMA TaskStepIInv == ASSUME IInv, Alive, TaskStep PROVE IInv'
BY BringUpIInv, StreamingIInv DEF TaskStep

(* A wait that returns unsignalled, the task's or main's.                  *)
LEMMA SpuriousIInv == ASSUME IInv, Alive, SpuriousReturn PROVE IInv'
<1>1. CASE WaitEnds /\ StreamingFrame /\ TaskFrame
  BY <1>1, StreamingIInv
<1>2. CASE ~(WaitEnds /\ StreamingFrame /\ TaskFrame)
  <2> USE <1>2 DEF IInv, Alive, SpuriousReturn, StatusUnsignalled, BringUpFrame, TaskFrame,
          graphicsVars, flags, frame, bringUpVars, device, demux, rcVars, scFlags
  <2>1. TypeOK'
    <3>1. RenderTypeOK'
      BY DEF TypeOK, RenderTypeOK
    <3>2. BringUpTypeOK'
      BY DEF TypeOK, BringUpTypeOK, InBringUp
    <3>3. main' \in MainPoints
      BY DEF TypeOK, MainPoints
    <3> QED
      BY <3>1, <3>2, <3>3 DEF TypeOK
  <2>2. NotYet'
    BY DEF NotYet
  <2>3. Opened'
    BY DEF Opened, InBringUp, Streaming, SectionWaits
  <2>4. Reported'
    BY DEF Reported
  <2>5. Initialized'
    BY DEF Initialized, Streaming, SectionWaits
  <2>6. LastUseBeforeRelease'
    BY DEF LastUseBeforeRelease
  <2>7. DeviceClosed'
    BY DEF DeviceClosed
  <2> QED
    BY <2>1, <2>2, <2>3, <2>4, <2>5, <2>6, <2>7
<1> QED
  BY <1>1, <1>2

(* The tuner reports, and the overlays go up and down.                     *)
LEMMA EnvironmentIInv == ASSUME IInv, Alive, Tuner \/ TunerStep \/ \E e \in Shown : Flag(e) PROVE IInv'
<1> USE DEF IInv, Alive, Tuner, TunerStep, TunerFrame, TunerLocks, SignalStatus, Flag,
       graphicsVars, flags, frame, bringUpVars, device, demux, rcVars, scFlags
<1>1. TypeOK'
  <2>1. RenderTypeOK'
    BY DEF TypeOK, RenderTypeOK
  <2>2. BringUpTypeOK'
    BY DEF TypeOK, BringUpTypeOK, InBringUp, Streaming, SectionWaits, Opened, Initialized
  <2> QED
    BY <2>1, <2>2 DEF TypeOK
<1>2. NotYet'
  BY DEF NotYet
<1>3. Opened'
  BY DEF Opened, InBringUp, Streaming, SectionWaits, BringUpTypeOK, TypeOK, NotYet, Initialized
<1>4. Reported'
  BY DEF Reported, PlaysOnLockedTuner, NotYet, Streaming, SectionWaits
<1>5. Initialized'
  BY DEF Initialized, NotYet, Opened, InBringUp, Streaming, SectionWaits, TypeOK
<1>6. LastUseBeforeRelease'
  BY DEF LastUseBeforeRelease, NotYet
<1>7. DeviceClosed'
  BY DEF DeviceClosed, Opened, InBringUp, Streaming, SectionWaits, Initialized, NotYet
<1> QED
  BY <1>1, <1>2, <1>3, <1>4, <1>5, <1>6, <1>7

LEMMA StutterIInv == ASSUME IInv, UNCHANGED vars PROVE IInv'
BY DEF vars, graphicsVars, flags, frame, bringUpVars, device, demux, rcVars, scFlags, IInv, TypeOK,
       RenderTypeOK, BringUpTypeOK, NotYet, Opened, Reported, PlaysOnLockedTuner,
       Initialized, LastUseBeforeRelease, DeviceClosed

LEMMA NextIInv == IInv /\ [Next]_vars => IInv'
<1> SUFFICES ASSUME IInv, [Next]_vars PROVE IInv'
  OBVIOUS
<1>1. CASE Alive /\ (RcStep \/ User)
  BY <1>1, RcStepIInv
<1>2. CASE Alive /\ MainStep
  BY <1>2, MainStepIInv
<1>3. CASE Alive /\ NitStep
  BY <1>3, NitStepIInv
<1>4. CASE Alive /\ TaskStep
  BY <1>4, TaskStepIInv
<1>5. CASE Alive /\ SpuriousReturn
  BY <1>5, SpuriousIInv
<1>6. CASE Alive /\ (Tuner \/ TunerStep \/ \E e \in Shown : Flag(e))
  BY <1>6, EnvironmentIInv
<1>7. CASE UNCHANGED vars
  BY <1>7, StutterIInv
<1> QED
  BY <1>1, <1>2, <1>3, <1>4, <1>5, <1>6, <1>7 DEF Next, Ended

LEMMA Invariant == Spec => []IInv
<1>1. Init => IInv
  BY InitIInv
<1>2. IInv /\ [Next]_vars => IInv'
  BY NextIInv
<1> QED
  BY <1>1, <1>2, PTL DEF Spec


-----------------------------------------------------------------------------
(* Every variable keeps its type.                                          *)
THEOREM TypeCorrect == Spec => []TypeOK
<1>1. IInv => TypeOK
  BY DEF IInv
<1> QED
  BY <1>1, Invariant, PTL

(* In any order of keys, frames, failures and shutdown, the surface, the   *)
(* device and the tables are released when the threads that use them have  *)
(* ended.                                                                  *)
THEOREM ReleasedAfterLastUse == Spec => []LastUseBeforeRelease
<1>1. IInv => LastUseBeforeRelease
  BY DEF IInv
<1> QED
  BY <1>1, Invariant, PTL

(* On every return path of the task, and when main has returned, nothing   *)
(* of the device stays open.                                               *)
THEOREM ClosesDevice == Spec => []DeviceClosed
<1>1. IInv => DeviceClosed
  BY DEF IInv
<1> QED
  BY <1>1, Invariant, PTL

(* If condition waits return only when signalled or at their timeout, the  *)
(* player is never opened on a tuner that has not reported its lock: not   *)
(* by a timeout, nor by a signal that was lost.                            *)
THEOREM LockedBeforePlayer == ASSUME ~Spurious PROVE Spec => []PlaysOnLockedTuner
<1>1. IInv => PlaysOnLockedTuner
  BY DEF IInv, Reported
<1> QED
  BY <1>1, Invariant, PTL

-----------------------------------------------------------------------------
(* What StreamController sees of bring-up changes in two kinds of step: a  *)
(* failure, on whichever path, and the setting of the PAT filter.          *)
View == <<ScView, TablesView>>

LEMMA OthersStutter ==
  ASSUME IInv, main' # "returned", UNCHANGED <<task, tables>>,
         \/ UNCHANGED threadExit
         \/ DeinitSc
  PROVE  UNCHANGED View
<1>1. GaveUp' <=> GaveUp
  <2>1. CASE UNCHANGED threadExit
    BY <2>1 DEF GaveUp
  <2>2. CASE DeinitSc
    BY <2>2 DEF DeinitSc, GaveUp, IInv, Initialized, Streaming, SectionWaits
  <2> QED
    BY <2>1, <2>2
<1>2. Begun' <=> Begun
  BY DEF Begun
<1> QED
  BY <1>1, <1>2 DEF View, ScView, TablesView

LEMMA GivesUp ==
  ASSUME IInv, task \in InBringUp, task' = "ended", tables' \in {"null", "pat", "pmt", "freed"},
         UNCHANGED <<filter, threadExit>>
  PROVE  Core!BringUp
<1>1. ScView = "start" /\ ScView' = "ended"
  BY DEF IInv, Initialized, ScView, Begun, GaveUp, InBringUp, Streaming, SectionWaits
<1>2. TablesView' \in {"null", "allocated", "freed"}
  BY DEF TablesView, Begun, InBringUp
<1> QED
  BY <1>1, <1>2 DEF Core!BringUp, Core!localVars, Core!deviceVars, Core!flagVars

LEMMA FilterSet == ASSUME IInv, Alive, SetPatFilter, UNCHANGED threadExit PROVE Core!BringUp
<1>1. ScView = "start" /\ ScView' = "enterPat"
  BY DEF SetPatFilter, ScView, Begun, GaveUp, InBringUp
<1>2. TablesView' = "allocated"
  BY DEF SetPatFilter, IInv, Opened, TablesView, Begun, InBringUp
<1> QED
  BY <1>1, <1>2 DEF SetPatFilter, Core!BringUp, Core!PatFilter, Core!NoFilter, Core!NoPid,
                    Core!localVars, Core!deviceVars, Core!flagVars

(* The other steps of bring-up stay inside StreamController's "start".     *)
LEMMA InsideStart ==
  ASSUME task \in InBringUp, task' \in InBringUp
  PROVE  UNCHANGED View
BY DEF View, ScView, TablesView, Begun, InBringUp

(* What the task does after bring-up stays inside its "enterPat".          *)
LEMMA AfterBringUp ==
  ASSUME task \in Streaming \cup {"callback"},
         task' \in Streaming \/ (task' = "ended" /\ threadExit'), UNCHANGED tables
  PROVE  UNCHANGED View
BY DEF View, ScView, TablesView, Begun, GaveUp, InBringUp, Streaming, SectionWaits

LEMMA StreamingStutters ==
  ASSUME StreamingStep \/ WaitEnds, StreamingFrame PROVE UNCHANGED View
<1>1. UNCHANGED tables
  BY DEF StreamingFrame
<1>2. CASE WaitEnds \/ SectionSignalled
  BY <1>1, <1>2, AfterBringUp DEF WaitEnds, SectionSignalled, Returns, Streaming, SectionWaits
<1>3. CASE SetSectionFilter("setPmt", "waitPmt")
  BY <1>1, <1>3, AfterBringUp DEF SetSectionFilter, Await, Returns, Streaming, SectionWaits
<1>4. CASE SetSectionFilter("setEit", "waitEit")
  BY <1>1, <1>4, AfterBringUp DEF SetSectionFilter, Await, Returns, Streaming, SectionWaits
<1>5. CASE SetStreams \/ ChangeChannel
  BY <1>1, <1>5, AfterBringUp DEF SetStreams, ChangeChannel, Streaming
<1>6. CASE EndTask
  BY <1>1, <1>6, AfterBringUp DEF EndTask, scFlags, Streaming
<1> QED
  BY <1>2, <1>3, <1>4, <1>5, <1>6 DEF StreamingStep

LEMMA BringUpSimulates ==
  ASSUME IInv, Alive, BringUpStep, UNCHANGED threadExit
  PROVE  Core!BringUp \/ UNCHANGED View
<1> DEFINE Fails == /\ task' = "ended"
                    /\ tables' \in {"null", "pat", "pmt", "freed"}
                    /\ UNCHANGED filter
<1>0. CASE RegisterSectionCallback
  BY <1>0, AfterBringUp DEF RegisterSectionCallback, Await, Streaming, SectionWaits
<1>1. ~RegisterSectionCallback => task \in InBringUp
  BY DEF BringUpStep, Allocate, InitTuner, LockToFrequency, EnterStatusWait, StatusTimeout,
         InitPlayer, OpenSource, SetPatFilter, InBringUp
<1>2. CASE SetPatFilter
  BY <1>2, FilterSet
<1>3. CASE ~SetPatFilter /\ ~RegisterSectionCallback
  <2>1. task' \in InBringUp \/ Fails
    <3>1. task \in InBringUp \ {"malloc"} => tables = "eit"
      BY DEF IInv, Opened
    <3> QED
      BY <1>3, <3>1 DEF BringUpStep, Allocate, FreeTables, GiveUp, InitTuner, LockToFrequency,
                        EnterStatusWait, StatusTimeout, InitPlayer, OpenSource, InBringUp,
                        device, demux
  <2> QED
    BY <1>3, <2>1, <1>1, GivesUp, InsideStart
<1> QED
  BY <1>0, <1>2, <1>3

LEMMA NextSimulates ==
  ASSUME IInv, [Next]_vars, main' # "returned"
  PROVE  Core!BringUp \/ UNCHANGED View
<1>1. CASE Alive /\ (RcStep \/ User \/ NitStep \/ Tuner \/ \E e \in Shown : Flag(e))
  <2>1. UNCHANGED <<task, tables, threadExit>>
    BY <1>1 DEF RcStep, User, RcFrame, NitStep, Tuner, TunerFrame, TunerLocks, Flag,
                bringUpVars, scFlags
  <2> QED
    BY <2>1, OthersStutter
<1>2. CASE Alive /\ TunerStep
  <2>1. CASE UNCHANGED task
    BY <1>2, <2>1, OthersStutter DEF TunerStep, SignalStatus, TunerFrame, scFlags
  <2>2. CASE task = "waitStatus" /\ task' = "player"
    BY <2>2, InsideStart DEF InBringUp
  <2> QED
    BY <1>2, <2>1, <2>2 DEF TunerStep, SignalStatus
<1>3. CASE Alive /\ TaskStep
  <2>1. CASE BringUpStep /\ BringUpFrame
    BY <1>3, <2>1, BringUpSimulates DEF BringUpFrame, scFlags
  <2>2. CASE StreamingStep /\ StreamingFrame
    BY <2>2, StreamingStutters
  <2> QED
    BY <1>3, <2>1, <2>2 DEF TaskStep
<1>4. CASE Alive /\ MainStep
  <2>1. CASE InitSc
    BY <2>1 DEF InitSc, Start, IInv, NotYet, View, ScView, TablesView, Begun, InBringUp
  <2>2. CASE DeinitSc
    BY <2>2, OthersStutter DEF DeinitSc, bringUpVars
  <2>3. CASE ~InitSc /\ ~DeinitSc
    <3>1. UNCHANGED <<task, tables, threadExit>>
      BY <1>4, <2>3 DEF MainStep, InitRc, RegisterCallback, EnterExitWait, UnregisterCallback,
                        StopRc, JoinRc, JoinAndRelease, bringUpVars, scFlags
    <3> QED
      BY <3>1, OthersStutter
  <2> QED
    BY <2>1, <2>2, <2>3
<1>5. CASE Alive /\ SpuriousReturn
  <2>1. CASE StatusUnsignalled /\ BringUpFrame
    BY <2>1, InsideStart DEF StatusUnsignalled, InBringUp
  <2>2. CASE WaitEnds /\ StreamingFrame
    BY <2>2, StreamingStutters
  <2>3. CASE UNCHANGED <<bringUpVars, scFlags>>
    BY <2>3, OthersStutter DEF bringUpVars, scFlags
  <2> QED
    BY <1>5, <2>1, <2>2, <2>3 DEF SpuriousReturn
<1>6. CASE UNCHANGED vars
  BY <1>6, OthersStutter DEF vars, bringUpVars, scFlags
<1> QED
  BY <1>1, <1>2, <1>3, <1>4, <1>5, <1>6 DEF Next, Ended

(* The beginning of the task, with the tuner's thread and each failure of  *)
(* its own, does what the one step BringUp of StreamController says.       *)
THEOREM BringUpImplemented == Spec => ImplementsBringUp
<1>1. IInv /\ [Next]_vars => [main' # "returned" => Core!BringUp]_<<ScView, TablesView>>
  BY NextSimulates DEF View
<1> QED
  BY <1>1, Invariant, PTL DEF Spec, ImplementsBringUp
=============================================================================
