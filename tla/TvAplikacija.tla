---------------------------- MODULE TvAplikacija ----------------------------
(***************************************************************************)
(* vezba_5.c and remote_controller.c: how main starts the parts of the     *)
(* application, waits for EXIT and stops them again, composed with the     *)
(* parts that this order concerns: the remote controller's thread, the     *)
(* render thread (Render) and the stream controller's task: its beginning  *)
(* (StreamBringUp), and then the points at which startChannel and the      *)
(* polling loop wait, return or end.  What is tuned is left to             *)
(* StreamController.                                                       *)
(*                                                                         *)
(* The parts share plain variables: callback, crtajGrafiku, two flags      *)
(* called threadExit, isInitialized, changeChannel.  main waits for EXIT   *)
(* and for the last frame on conditions, without testing a predicate.      *)
(***************************************************************************)
EXTENDS Render, StreamBringUp

VARIABLES
  rc,             \* control point of inputEventTask and of the callback it calls
  released,       \* a key was pressed and its release has yet to be read
  callback,       \* remoteControllerCallback is registered
  rcExit,         \* threadExit of remote_controller.c
  threadExit,     \* threadExit of stream_controller.c
  isInitialized,
  changeChannel   \* a channel key asks for startChannel

rcVars  == <<rc, released>>
scFlags == <<threadExit, isInitialized>>
graphicsVars == <<flags, nit, frame>>

vars == <<main, graphicsVars, bringUpVars, rcVars, callback, rcExit, scFlags, changeChannel>>

(* The process runs until main returns or a thread crashes.                *)
Alive == main \notin {"returned", "failed", "crashed"}

-----------------------------------------------------------------------------
(* inputEventTask                                                          *)

OpenDevice ==
  /\ rc = "open"
  /\ rc' \in {"check", "ended"}
  /\ UNCHANGED <<main, released, changeChannel>>

CheckRcExit ==
  /\ rc = "check"
  /\ rc' = IF rcExit THEN "ended" ELSE "read"
  /\ UNCHANGED <<main, released, changeChannel>>

(* getKey blocks until there is an event.  A press, or a repetition, that  *)
(* the user may or may not make; it will be followed by a release, which   *)
(* the thread reads and ignores.                                           *)
ReadPress ==
  /\ rc = "read"
  /\ ~released
  /\ rc' = "test"
  /\ released' = TRUE
  /\ UNCHANGED <<main, changeChannel>>

ReadRelease ==
  /\ rc = "read"
  /\ released
  /\ rc' = "check"
  /\ released' = FALSE
  /\ UNCHANGED <<main, changeChannel>>

ReadFails == rc = "read" /\ rc' = "ended" /\ UNCHANGED <<main, released, changeChannel>>

(* if (callback != NULL)                                                   *)
TestCallback ==
  /\ rc = "test"
  /\ rc' = IF callback THEN "call" ELSE "check"
  /\ UNCHANGED <<main, released, changeChannel>>

(* callback(...): the pointer is read again, and may be NULL by now.  The  *)
(* key is EXIT or a channel key.                                           *)
CallCallback ==
  /\ rc = "call"
  /\ IF callback THEN rc' \in {"exit", "channel"} /\ UNCHANGED main
                 ELSE main' = "crashed" /\ UNCHANGED rc
  /\ UNCHANGED <<released, changeChannel>>

ExitUnsignalled ==  \* mutant
  /\ rc = "exit"
  /\ rc' = "check"
  /\ UNCHANGED <<main, released, changeChannel>>

(* EXIT: pthread_cond_signal(&deinitCond); nobody hears it unless main     *)
(* waits already.                                                          *)
ExitPressed ==
  /\ rc = "exit"
  /\ rc' = "check"
  /\ main' = IF main = "waitExit" THEN "unregister" ELSE main
  /\ UNCHANGED <<released, changeChannel>>

(* A channel key reads *patTable and asks for a channel, unless it is a    *)
(* digit too large.  Before the table is allocated that crashes, and it    *)
(* may once a failed bring-up has freed it.                                *)
ChannelKey ==
  /\ rc = "channel"
  /\ \/ /\ tables # "null"
        /\ rc' = "check"
        /\ changeChannel' \in {changeChannel, TRUE}
        /\ UNCHANGED main
     \/ /\ tables \in {"null", "freed"}
        /\ main' = "crashed"
        /\ UNCHANGED <<rc, changeChannel>>
  /\ UNCHANGED released

RcRuns == \/ OpenDevice \/ CheckRcExit \/ ReadRelease \/ TestCallback \/ CallCallback
          \/ ExitPressed \/ ChannelKey

-----------------------------------------------------------------------------
(* The stream controller's task after bring-up: startChannel and the loop   *)

(* A wait without a timeout ends, and the task goes on behind it.  At the  *)
(* end of the wait for the EIT the filter is freed and startChannel        *)
(* returns.                                                                *)
Returns == task' = "looping" /\ isInitialized' = TRUE

WaitEnds ==
  /\ task \in SectionWaits
  /\ sent' = FALSE
  /\ \/ task = "waitPat" /\ task' = "setPmt" /\ UNCHANGED <<filter, isInitialized>>
     \/ task = "waitPmt" /\ task' = "streams" /\ UNCHANGED <<filter, isInitialized>>
     \/ task = "waitEit" /\ filter' = FALSE /\ Returns
  /\ UNCHANGED <<registered, threadExit, changeChannel>>

(* sectionReceivedCallback parses the table and signals.                   *)
SectionSignalled == sent /\ WaitEnds

(* The last filter is freed and the next one set; if that fails            *)
(* startChannel returns.                                                   *)
SetSectionFilter(point, wait) ==
  /\ task = point
  /\ \/ filter' = TRUE /\ Await(wait, registered) /\ UNCHANGED isInitialized
     \/ filter' = FALSE /\ Returns /\ UNCHANGED sent
  /\ UNCHANGED <<registered, threadExit, changeChannel>>

(* A stream that cannot be created makes the task call                     *)
(* streamControllerDeinit: refused unless isInitialized, and otherwise it  *)
(* fails to join the calling thread, after it has set threadExit.          *)
SetStreams ==
  /\ task = "streams"
  /\ task' = "setEit"
  /\ threadExit' \in {threadExit, threadExit \/ isInitialized}
  /\ UNCHANGED <<demux, isInitialized, changeChannel>>

(* One turn of the polling loop; StreamController has each access.         *)
ChangeChannel ==
  /\ task = "looping"
  /\ ~threadExit
  /\ changeChannel
  /\ task' = "setPmt"
  /\ changeChannel' = FALSE
  /\ UNCHANGED <<demux, scFlags>>

EndTask ==
  /\ task = "looping"
  /\ threadExit
  /\ task' = "ended"
  /\ UNCHANGED <<demux, scFlags, changeChannel>>

StreamingStep == \/ SectionSignalled \/ SetSectionFilter("setPmt", "waitPmt") \/ SetStreams
                 \/ SetSectionFilter("setEit", "waitEit") \/ ChangeChannel \/ EndTask

-----------------------------------------------------------------------------
(* main                                                                    *)

Start(at, next) == main = at /\ main' \in {next, "failed"}

InitRc ==
  /\ Start("initRc", "register")
  /\ rc' = IF main' = "failed" THEN rc ELSE "open"
  /\ UNCHANGED <<released, callback, rcExit, scFlags, bringUpVars>>

RegisterCallback ==
  /\ main = "register"
  /\ main' = "initSc"
  /\ callback' = TRUE
  /\ UNCHANGED <<rcVars, rcExit, scFlags, bringUpVars>>

InitSc ==
  /\ Start("initSc", "initGrafike")
  /\ task' = IF main' = "failed" THEN task ELSE "malloc"
  /\ UNCHANGED <<rcVars, callback, rcExit, scFlags, tables, device, statusMutex, report>>

(* The initial volume is set, deinitMutex is taken and the wait begins.    *)
EnterExitWait ==
  /\ main = "enterExit"
  /\ main' = "waitExit"
  /\ UNCHANGED <<rcVars, callback, rcExit, scFlags, bringUpVars>>

UnregisterCallback ==
  /\ main = "unregister"
  /\ main' = "stopRender"
  /\ callback' = FALSE
  /\ UNCHANGED <<rcVars, rcExit, scFlags, bringUpVars>>

StopRc ==
  /\ main = "stopRc"
  /\ main' = "joinRc"
  /\ rcExit' = TRUE
  /\ UNCHANGED <<rcVars, callback, scFlags, bringUpVars>>

(* pthread_join(remote, NULL)                                              *)
JoinRc ==
  /\ main = "joinRc"
  /\ rc = "ended"
  /\ main' = "deinitSc"
  /\ UNCHANGED <<rcVars, callback, rcExit, scFlags, bringUpVars>>

DeinitScUnchecked ==  \* mutant: isInitialized is not tested
  /\ main = "deinitSc"
  /\ main' = "joinSc"
  /\ threadExit' = TRUE
  /\ UNCHANGED <<rcVars, callback, rcExit, isInitialized, bringUpVars>>

DeinitScSilently ==  \* mutant: the task is not told to end
  /\ main = "deinitSc"
  /\ main' = IF isInitialized THEN "joinSc" ELSE "failed"
  /\ UNCHANGED <<rcVars, callback, rcExit, scFlags, bringUpVars>>

(* streamControllerDeinit is refused, and main returns -1, if the first    *)
(* channel was never tuned.                                                *)
DeinitSc ==
  /\ main = "deinitSc"
  /\ main' = IF isInitialized THEN "joinSc" ELSE "failed"
  /\ threadExit' = (threadExit \/ isInitialized)
  /\ UNCHANGED <<rcVars, callback, rcExit, isInitialized, bringUpVars>>

DeviceCloses == tuner' = FALSE /\ player' = FALSE /\ source' = FALSE /\ filter' = FALSE

(* The join, then filter, streams, source, player, tuner and tables are    *)
(* released; StreamController has these steps one by one.                  *)
JoinAndRelease ==
  /\ main = "joinSc"
  /\ task = "ended"
  /\ main' = "returned"
  /\ FreeTables
  /\ DeviceCloses
  /\ isInitialized' = FALSE
  /\ UNCHANGED <<rcVars, callback, rcExit, threadExit, task, registered, sent, statusMutex, report>>

-----------------------------------------------------------------------------
Init ==
  /\ main = "initRc"
  /\ RenderInit
  /\ BringUpInit
  /\ rc = "none"
  /\ released = FALSE
  /\ callback = FALSE
  /\ rcExit = FALSE
  /\ threadExit = FALSE
  /\ isInitialized = FALSE
  /\ changeChannel = FALSE

(* Each thread's steps, and what they leave to the others.                 *)
RcFrame == UNCHANGED <<graphicsVars, bringUpVars, callback, rcExit, scFlags>>

RcStep == RcRuns /\ RcFrame

User == (ReadPress \/ ReadFails) /\ RcFrame

MainStep ==
  \/ /\ \/ InitRc \/ RegisterCallback \/ InitSc \/ EnterExitWait \/ UnregisterCallback
        \/ StopRc \/ JoinRc \/ DeinitSc \/ JoinAndRelease
     /\ UNCHANGED <<graphicsVars, changeChannel>>
  \/ /\ GraphicsMainStep
     /\ UNCHANGED <<bringUpVars, rcVars, callback, rcExit, scFlags, changeChannel>>

NitStep ==
  RenderStep /\ UNCHANGED <<bringUpVars, rcVars, callback, rcExit, scFlags, changeChannel>>

BringUpFrame == UNCHANGED <<scFlags, changeChannel>>

StreamingFrame == UNCHANGED <<tables, tuner, player, source, statusMutex, report>>

TaskFrame == UNCHANGED <<main, graphicsVars, rcVars, callback, rcExit>>

TaskStep ==
  /\ \/ BringUpStep /\ BringUpFrame
     \/ StreamingStep /\ StreamingFrame
  /\ TaskFrame

(* A condition wait returns although nobody signalled it (or, the task's,  *)
(* although only a section of another table did).                          *)
SpuriousReturn ==
  /\ Spurious
  /\ \/ StatusUnsignalled /\ BringUpFrame /\ TaskFrame
     \/ WaitEnds /\ StreamingFrame /\ TaskFrame
     \/ /\ \/ main = "waitExit" /\ main' = "unregister"
           \/ main = "waitRender" /\ main' = "joinRender"
        /\ UNCHANGED <<graphicsVars, bringUpVars, rcVars, callback, rcExit, scFlags, changeChannel>>

TunerFrame == UNCHANGED <<main, graphicsVars, rcVars, callback, rcExit, scFlags, changeChannel>>

Tuner == TunerLocks /\ TunerFrame

TunerStep == SignalStatus /\ TunerFrame

(* prikazi*, the timers, upaliRadio and ugasiRadio, in whatever order,     *)
(* while there is a thread that reads the flags.                           *)
Flag(e) ==
  /\ nit \in {"check", "draw"}
  /\ ispis' = [ispis EXCEPT ![e] = ~@]
  /\ UNCHANGED <<main, crtajGrafiku, nit, frame, bringUpVars, rcVars, callback, rcExit, scFlags,
                 changeChannel>>

(* The process has ended.                                                  *)
Ended == ~Alive /\ UNCHANGED vars

Next ==
  \/ Alive /\ (RcStep \/ User \/ MainStep \/ NitStep \/ TaskStep \/ SpuriousReturn \/ Tuner
              \/ TunerStep)
  \/ Alive /\ \E e \in Shown : Flag(e)
  \/ Ended

(* Every thread keeps running.  The user owes no key and the tuner no      *)
(* lock; a key that was pressed is released.                               *)
Fairness ==
  /\ WF_vars(Alive /\ RcStep)
  /\ WF_vars(Alive /\ MainStep)
  /\ WF_vars(Alive /\ NitStep)
  /\ WF_vars(Alive /\ TaskStep)
  /\ WF_vars(Alive /\ TunerStep)

Spec == Init /\ [][Next]_vars

FairSpec == Spec /\ Fairness

-----------------------------------------------------------------------------
(* Properties                                                              *)

MainPoints == {"initRc", "register", "initSc", "initGrafike", "enterExit", "waitExit",
               "unregister", "stopRender", "enterRender", "waitRender", "joinRender", "stopRc",
               "joinRc", "deinitSc", "joinSc", "returned", "failed", "crashed"}

(* Types of all variables.  main's streamControllerDeinit never frees the  *)
(* tables again that a failed bring-up has freed.                          *)
TypeOK ==
  /\ main \in MainPoints
  /\ RenderTypeOK
  /\ BringUpTypeOK
  /\ rc \in {"none", "open", "check", "read", "test", "call", "exit", "channel", "ended"}
  /\ {released, callback, rcExit, threadExit, isInitialized, changeChannel} \subseteq BOOLEAN

(* main releases what a thread uses only when that thread has ended: the   *)
(* surface after the render thread, the device and the tables after the    *)
(* remote controller's and the task, so that no key is handled while or    *)
(* after streamControllerDeinit runs.  (The timers, which main deletes     *)
(* before the last two have ended, are not part of this.)                  *)
LastUseBeforeRelease ==
  /\ main \in {"stopRc", "joinRc", "deinitSc", "joinSc", "returned"} => nit = "ended"
  /\ main \in {"deinitSc", "joinSc", "returned"} => rc = "ended"
  /\ main = "returned" => task = "ended"

(* Whatever fails, nothing of the device stays open: not when the task     *)
(* gives up, on any of its return paths, and not when main has returned.   *)
DeviceClosed ==
  main = "returned" \/ (task = "ended" /\ ~threadExit)
    => ~tuner /\ ~player /\ ~source /\ ~filter

(* The player is opened only on a tuner that reported its lock, although a *)
(* report may come before the task waits for it and a timeout may race it: *)
(* stream_controller.c:360, "wait for tuner to lock".  It takes that the   *)
(* wait returns on a signal or a timeout only.                             *)
PlaysOnLockedTuner == player => report = "done"

(* The beginning of the task, step by step, is StreamController's BringUp: *)
(* tables allocated and PAT filter set or not, or the task at its end with *)
(* the tables null, allocated or freed.                                    *)
GaveUp  == task = "ended" /\ ~threadExit
Begun   == task \notin InBringUp \cup {"none"}
ScView  == IF ~Begun THEN "start" ELSE IF GaveUp THEN "ended" ELSE "enterPat"
TablesView == IF ~Begun \/ tables = "null" THEN "null"
              ELSE IF tables = "freed" THEN "freed" ELSE "allocated"

Core == INSTANCE StreamController WITH
  NumPrograms <- 1, Pmt <- << <<>> >>, EitEvents <- 0, MaxPat <- 2, MaxPmt <- 1,
  Digits <- {}, InfoKey <- FALSE, Faults <- {"bringUp"},
  sc <- ScView,
  tables <- TablesView,
  filter <- IF filter THEN [table |-> "PAT", pid |-> 0] ELSE [table |-> "none", pid |-> 0],
  channelNumber <- 0, scan <- 0, programNumber <- 0, changeChannel <- FALSE,
  currentChannel <- 0, patTable <- 0, pmtTable <- 0, cb <- "idle", section <- 0, parsed <- 0,
  streamHandleV <- 0, streamHandleA <- 0, player <- 0, ispisRadio <- FALSE, rc <- "idle",
  channelInfo <- 0, main <- "running", threadExit <- FALSE, isInitialized <- FALSE

ImplementsBringUp == [][main' # "returned" => Core!BringUp]_<<ScView, TablesView>>

(* The task always comes back to its polling loop or ends, although the    *)
(* tuner may never lock, its report may be lost and calls may fail, unless *)
(* it waits, without a timeout, for a section that will not be signalled:  *)
(* the filter is not set, the callback is not registered, or the table is  *)
(* not broadcast (no such pid) or refused (it does not fit).               *)
WaitsInVain == task \in SectionWaits /\ ~sent

BringUpEnds == task # "none" ~> task \in {"looping", "ended"} \/ WaitsInVain \/ ~Alive

(* Once EXIT is heard, main returns.  What can stand in the way: the       *)
(* render thread's last signal came before main waited for it; the remote  *)
(* controller's thread is in read and the user presses nothing; the task   *)
(* that main joins waits in vain; or the key that was being handled meets  *)
(* a callback already unregistered or a table freed by a failed bring-up,  *)
(* and crashes.                                                            *)
ShuttingDown == main \in {"unregister", "stopRender", "enterRender", "waitRender", "joinRender",
                          "stopRc", "joinRc", "deinitSc", "joinSc"}
LastFrameMissed == main = "waitRender" /\ nit = "ended"
WaitsForKey == main = "joinRc" /\ rc = "read" /\ ~released
JoinsInVain == main = "joinSc" /\ WaitsInVain

ShutdownEnds ==
  ShuttingDown ~> \/ main \in {"returned", "failed"}
                  \/ LastFrameMissed \/ WaitsForKey \/ JoinsInVain
                  \/ main = "crashed"

(* An EXIT pressed while the parts still start is not heard, but a user    *)
(* who keeps pressing it is.                                               *)
ExitHeard == []<>(rc = "exit") => <>(main = "unregister" \/ ~Alive)

(* When the flags stay as they are, the screen comes to show exactly the   *)
(* overlays whose flags are up, although the thread reads the flags one by *)
(* one while they change: none is forgotten on the screen, and the radio   *)
(* screen hides none.                                                      *)
ScreenFollowsFlags ==
  <>[](crtajGrafiku /\ nit # "none" /\ Alive) /\ <>[][FALSE]_ispis
    => <>[](ekran = {e \in Shown : ispis[e]})

(* deinicijalizacijaGrafike joins the render thread ("Spajanje niti",      *)
(* iscrtavanjeGrafike.c:135) and returns.                                  *)
RenderJoined == main = "stopRender" ~> main = "stopRc" \/ ~Alive
=============================================================================
