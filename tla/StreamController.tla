-------------------------- MODULE StreamController --------------------------
(***************************************************************************)
(* stream_controller.c: the module that tunes the receiver to a channel.   *)
(*                                                                         *)
(* Four threads share its static variables:                                *)
(*   sc    streamControllerTask: starts the first channel, then polls      *)
(*         changeChannel and calls startChannel                            *)
(*   cb    the demultiplexer's thread, running sectionReceivedCallback     *)
(*   rc    the remote controller's thread, running channelUp, channelDown, *)
(*         promenaKanala and getChannelInfo                                *)
(*   main  streamControllerDeinit, after EXIT                              *)
(* Only demuxMutex/demuxCond synchronise them, and only around the signal  *)
(* and the wait: every other shared variable is read and written bare, so  *)
(* each such access is a step of its own.  A section of code that holds    *)
(* demuxMutex touches no other shared variable and is one step.            *)
(*                                                                         *)
(* Tuner bring-up (before the PAT filter) is the single step BringUp.      *)
(***************************************************************************)
EXTENDS Integers, Sequences

CONSTANTS
  NumPrograms,   \* programs of the transport stream: PAT entries after the NIT entry
  Pmt,           \* Pmt[p]: the elementary streams listed by the PMT of program p
  EitEvents,     \* events in the EIT section that is broadcast
  MaxPat,        \* TABLES_MAX_NUMBER_OF_PIDS_IN_PAT
  MaxPmt,        \* TABLES_MAX_NUMBER_OF_ELEMENTARY_PID
  Digits,        \* digit keys the user may press
  InfoKey,       \* TRUE iff the user may press INFO
  Faults         \* what the environment may do, see FaultKinds

Programs == 1..NumPrograms
Kinds    == {"video", "audio", "teletext", "other"}
Streams  == [kind : Kinds, pid : Nat \ {0}]

MaxEit   == 3    \* numEventsInSection > 3 - 1 is an error in parseEitTable

(* Behaviours of the environment that a run may switch off:                *)
(*   bringUp       tuner or player bring-up fails, or the PAT filter does  *)
(*   earlyKey      a key arrives before isInitialized                      *)
(*   filterError   Demux_Set_Filter returns an error                       *)
(*   streamError   Player_Stream_Create returns an error                   *)
(*   spurious      pthread_cond_wait returns without a signal              *)
(*   lateCallback  Demux_Free_Filter returns while a callback still runs   *)
(*   slowScan      a section repeats before its table was used             *)
FaultKinds == {"bringUp", "earlyKey", "filterError", "streamError",
               "spurious", "lateCallback", "slowScan"}

ASSUME ConstAssumption ==
  /\ NumPrograms \in Nat \ {0}
  /\ Pmt \in [Programs -> Seq(Streams)]
  /\ EitEvents \in Nat
  /\ MaxPat \in Nat \ {0}
  /\ MaxPmt \in Nat \ {0}
  /\ Digits \subseteq 0..9
  /\ InfoKey \in BOOLEAN
  /\ Faults \subseteq FaultKinds

VARIABLES
  sc,             \* control point of streamControllerTask and startChannel
  channelNumber,  \* parameter of startChannel
  scan,           \* its locals i, audioPid, videoPid and teletekst_dostupan
  programNumber, changeChannel, threadExit, isInitialized, currentChannel,
  tables,         \* patTable, pmtTable, eitTable: "null", "allocated" or "freed"
  patTable,       \* serviceInfoCount, and how many entries were ever written
  pmtTable,       \* elementaryInfoCount and pmtElementaryInfoArray
  filter,         \* the section filter that is live in the demultiplexer
  cb,             \* control point of sectionReceivedCallback
  section,        \* the section it handles
  parsed,         \* entries of that section parsed so far
  streamHandleV, streamHandleA,
  player,         \* number of streams the player plays, by kind
  ispisRadio,     \* set by upaliRadio, reset by ugasiRadio
  rc,             \* control point of the remote controller's thread
  channelInfo,    \* out parameter of getChannelInfo
  main            \* control point of the main thread

(* Grouped by the thread that writes them.                                 *)
localVars  == <<channelNumber, scan>>
deviceVars == <<streamHandleV, streamHandleA, player, ispisRadio>>
cbVars     == <<cb, section, parsed, patTable, pmtTable>>
rcVars     == <<rc, programNumber, channelInfo>>
flagVars   == <<changeChannel, threadExit, isInitialized>>

vars == <<sc, localVars, currentChannel, deviceVars, flagVars, filter, tables,
          cbVars, rcVars, main>>

-----------------------------------------------------------------------------
NoPid       == 0
NoStream    == -1                       \* audioPid and videoPid before the scan
NoFilter    == [table |-> "none", pid |-> NoPid]
PatFilter   == [table |-> "PAT",  pid |-> NoPid]
EitFilter   == [table |-> "EIT",  pid |-> NoPid]
PmtFilter(p) == [table |-> "PMT", pid |-> p]
ZeroStream  == [kind |-> "other", pid |-> 0]
ScanStart   == [i |-> 0, audioPid |-> NoStream, videoPid |-> NoStream, teletekst |-> FALSE]
ZeroInfo    == [programNumber |-> 0, audioPid |-> 0, videoPid |-> 0, teletekst |-> FALSE]

(* What startChannel reads as patServiceInfoArray[i].pid: program p's PMT  *)
(* pid is p; an entry never written is zeroed memory, entry 0 is the NIT,  *)
(* and neither pid carries a PMT.                                          *)
ServicePid(i) == IF i \in 1..(patTable.filled - 1) THEN i ELSE NoPid

(* The process runs until main returns, gives up, or a thread crashes.     *)
Alive == main \notin {"returned", "failed", "crashed"}

-----------------------------------------------------------------------------
(* The demultiplexer and sectionReceivedCallback                           *)

EntriesOf(s)  == CASE s.table = "PAT" -> NumPrograms + 1
                   [] s.table = "PMT" -> Len(Pmt[s.pid])
                   [] OTHER           -> EitEvents

CapacityOf(s) == CASE s.table = "PAT" -> MaxPat
                   [] s.table = "PMT" -> MaxPmt
                   [] OTHER           -> MaxEit

(* Control points between a wake-up and the end of the reads it allows.    *)
UsingTable == {"call", "freePrev", "setPmt", "scan", "video", "audio", "storeNumber",
               "storeAudio", "storeVideo", "storeTeletekst", "freePmt"}

(* A section that matches the live filter arrives; parse*Table reads the   *)
(* header and zeroes the table's count.  Only programs of the PAT send a   *)
(* PMT.                                                                    *)
SectionArrives ==
  /\ cb = "idle"
  /\ filter # NoFilter
  /\ filter.table = "PMT" => filter.pid \in Programs
  /\ "slowScan" \in Faults \/ sc \notin UsingTable
  /\ cb' = "parsing"
  /\ section' = filter
  /\ parsed' = 0
  /\ patTable' = IF filter.table = "PAT" THEN [patTable EXCEPT !.count = 0] ELSE patTable
  /\ pmtTable' = IF filter.table = "PMT" THEN [pmtTable EXCEPT !.count = 0] ELSE pmtTable
  /\ UNCHANGED sc

(* One turn of the parser's loop: an entry is written and counted.         *)
ParseEntry ==
  /\ cb = "parsing"
  /\ parsed < EntriesOf(section)
  /\ parsed < CapacityOf(section)
  /\ parsed' = parsed + 1
  /\ patTable' = IF section.table = "PAT"
                 THEN [count |-> parsed + 1,
                       filled |-> IF parsed < patTable.filled THEN patTable.filled
                                                              ELSE parsed + 1]
                 ELSE patTable
  /\ pmtTable' = IF section.table = "PMT"
                 THEN [count |-> parsed + 1,
                       array |-> [pmtTable.array EXCEPT
                                    ![parsed + 1] = Pmt[section.pid][parsed + 1]]]
                 ELSE pmtTable
  /\ UNCHANGED <<sc, cb, section>>

(* Mutant: the callback never signals.                                     *)
ParseReturnsMute ==
  /\ cb = "parsing"
  /\ parsed >= EntriesOf(section) \/ parsed >= CapacityOf(section)
  /\ cb' = "idle"
  /\ UNCHANGED <<sc, section, parsed, patTable, pmtTable>>

(* The parser returns: TABLES_PARSE_ERROR when the table is full, and then *)
(* nobody is signalled.                                                    *)
ParseReturns ==
  /\ cb = "parsing"
  /\ \/ parsed >= EntriesOf(section) /\ cb' = "signal"
     \/ parsed < EntriesOf(section) /\ parsed >= CapacityOf(section) /\ cb' = "idle"
  /\ UNCHANGED <<sc, section, parsed, patTable, pmtTable>>

(* Where each pthread_cond_wait of the task resumes.                       *)
Waits == {"waitPat", "waitPmt", "waitEit"}
ResumeKeepingFilter(w) == CASE w = "waitPat" -> "setPmt"  \* mutant: filter not freed
                            [] w = "waitPmt" -> "scan"
                            [] OTHER         -> "freeEit"
Resume(w) == CASE w = "waitPat" -> "call"
               [] w = "waitPmt" -> "scan"
               [] OTHER         -> "freeEit"

(* pthread_mutex_lock, pthread_cond_signal, pthread_mutex_unlock: without  *)
(* a waiter the signal is lost.                                            *)
Signal ==
  /\ cb = "signal"
  /\ cb' = "idle"
  /\ sc' = IF sc \in Waits THEN Resume(sc) ELSE sc
  /\ UNCHANGED <<section, parsed, patTable, pmtTable>>

-----------------------------------------------------------------------------
(* streamControllerTask                                                    *)

(* Tables allocated and zeroed, tuner locked, player and source open; the  *)
(* PAT filter may fail to be set, which is only logged.  Any other failure *)
(* ends the thread with SC_ERROR: the tables were not allocated, or not    *)
(* all of them, or they are freed.  A callback that could not be           *)
(* registered, also only logged, is a behaviour without Broadcast.         *)
BringUp ==
  /\ sc = "start"
  /\ \/ tables' = "allocated" /\ filter' = PatFilter /\ sc' = "enterPat"
     \/ /\ "bringUp" \in Faults
        /\ tables' = "allocated" /\ filter' = NoFilter /\ sc' = "enterPat"
     \/ /\ "bringUp" \in Faults
        /\ tables' \in {"null", "allocated", "freed"} /\ UNCHANGED filter /\ sc' = "ended"
  /\ UNCHANGED <<localVars, currentChannel, deviceVars, flagVars>>

(* pthread_mutex_lock(&demuxMutex) and the start of pthread_cond_wait: no  *)
(* predicate is tested.                                                    *)
EnterWait ==
  \/ sc = "enterPat" /\ sc' = "waitPat"
  \/ sc = "enterPmt" /\ sc' = "waitPmt"
  \/ sc = "enterEit" /\ sc' = "waitEit"

SpuriousWakeup == "spurious" \in Faults /\ sc \in Waits /\ sc' = Resume(sc)

CheckExitNever == sc = "loop" /\ sc' = "poll"  \* mutant

(* while (!threadExit)                                                     *)
CheckExit == sc = "loop" /\ sc' = IF threadExit THEN "ended" ELSE "poll"

(* if (changeChannel)                                                      *)
PollRequest == sc = "poll" /\ sc' = IF changeChannel THEN "clear" ELSE "loop"

ClearRequest ==
  /\ sc = "clear"
  /\ sc' = "call"
  /\ changeChannel' = FALSE
  /\ UNCHANGED <<localVars, currentChannel, deviceVars, threadExit, isInitialized, filter, tables>>

SetInitialized ==
  /\ sc = "initialized"
  /\ sc' = "loop"
  /\ isInitialized' = TRUE
  /\ UNCHANGED <<localVars, currentChannel, deviceVars, changeChannel, threadExit, filter, tables>>

-----------------------------------------------------------------------------
(* startChannel                                                            *)

(* The call reads programNumber, after changeChannel was cleared.          *)
CallStartNext ==  \* mutant: the parameter is the one-based program number
  /\ sc = "call"
  /\ sc' = "freePrev"
  /\ channelNumber' = (IF programNumber < NumPrograms THEN programNumber + 1 ELSE 0)
  /\ scan' = ScanStart
  /\ UNCHANGED <<currentChannel, deviceVars, flagVars, filter, tables>>

CallStartChannel ==
  /\ sc = "call"
  /\ sc' = "freePrev"
  /\ channelNumber' = programNumber
  /\ scan' = ScanStart
  /\ UNCHANGED <<currentChannel, deviceVars, flagVars, filter, tables>>

(* startChannel returns to the task, from its end or after a filter error. *)
AfterStart == IF isInitialized THEN "loop" ELSE "initialized"

FreeSites == {"freePrev", "freePmt", "freeEit"}
AfterFree == CASE sc = "freePrev" -> "setPmt"
               [] sc = "freePmt"  -> "setEit"
               [] OTHER           -> AfterStart

(* Demux_Free_Filter: delivery stops, and the call returns when a callback *)
(* that is running has returned.  filterHandle keeps its value, so the     *)
(* handle may be one that was freed before: then nothing happens.          *)
CallbackReturned == "lateCallback" \in Faults \/ cb = "idle"

FreeFilterAndRequest ==  \* mutant: the request is cleared when startChannel ends, too
  /\ sc \in FreeSites
  /\ filter # NoFilter
  /\ filter' = NoFilter
  /\ changeChannel' = (sc # "freeEit" /\ changeChannel)
  /\ UNCHANGED <<sc, localVars, currentChannel, deviceVars, threadExit, isInitialized, tables>>

FreeFilter ==
  /\ sc \in FreeSites
  /\ filter # NoFilter
  /\ filter' = NoFilter
  /\ UNCHANGED <<sc, localVars, currentChannel, deviceVars, flagVars, tables>>

FilterFreed == sc \in FreeSites /\ filter = NoFilter /\ CallbackReturned /\ sc' = AfterFree

SetFilterNoWait ==  \* mutant: the PMT that was parsed last is used
  /\ \/ /\ sc = "setPmt"
        /\ sc' = "scan"
        /\ filter' = PmtFilter(ServicePid(channelNumber + 1))
     \/ /\ sc = "setEit"
        /\ sc' = "enterEit"
        /\ filter' = EitFilter
  /\ UNCHANGED <<localVars, currentChannel, deviceVars, flagVars, tables>>

SetFilter ==
  /\ \/ /\ sc = "setPmt"
        /\ sc' = "enterPmt"
        /\ filter' = PmtFilter(ServicePid(channelNumber + 1))
     \/ /\ sc = "setEit"
        /\ sc' = "enterEit"
        /\ filter' = EitFilter
  /\ UNCHANGED <<localVars, currentChannel, deviceVars, flagVars, tables>>

(* Demux_Set_Filter fails: startChannel returns at once.                   *)
SetFilterFails == "filterError" \in Faults /\ sc \in {"setPmt", "setEit"} /\ sc' = AfterStart

(* One turn of the loop over pmtElementaryInfoArray: the count is read     *)
(* again on every turn.                                                    *)
ScanEntry ==
  /\ sc = "scan"
  /\ scan.i < pmtTable.count
  /\ LET e == pmtTable.array[scan.i + 1]
         First(kind, pid) == IF e.kind = kind /\ pid = NoStream THEN e.pid ELSE pid
     IN  scan' = [i |-> scan.i + 1,
                  audioPid |-> First("audio", scan.audioPid),
                  videoPid |-> First("video", scan.videoPid),
                  teletekst |-> scan.teletekst \/ e.kind = "teletext"]
  /\ UNCHANGED <<sc, channelNumber, currentChannel, deviceVars, flagVars, filter, tables>>

ScanDone == sc = "scan" /\ scan.i >= pmtTable.count /\ sc' = "video"

(* Player_Stream_Remove of a stream that was created, and what is left.    *)
AfterNoRemove(live, handle) == live  \* mutant
AfterRemove(live, handle) == IF handle # NoPid THEN live - 1 ELSE live

Count(created) == IF created THEN 1 ELSE 0

CreateResults == IF "streamError" \in Faults THEN BOOLEAN ELSE {TRUE}

(* After a failed Player_Stream_Create the task calls                      *)
(* streamControllerDeinit: refused unless isInitialized, else its join of  *)
(* the calling thread fails, and only threadExit has been set.             *)
DeinitFromTask(created) == threadExit' = (threadExit \/ (~created /\ isInitialized))

(* A channel with video: the radio screen goes, the old stream is replaced.*)
SwitchVideo ==
  /\ sc = "video"
  /\ scan.videoPid # NoStream
  /\ sc' = "audio"
  /\ ispisRadio' = FALSE
  /\ \E created \in CreateResults :
       /\ streamHandleV' = IF created THEN scan.videoPid ELSE NoPid
       /\ player' = [player EXCEPT !.video = AfterRemove(@, streamHandleV) + Count(created)]
       /\ DeinitFromTask(created)
  /\ UNCHANGED <<localVars, currentChannel, streamHandleA, changeChannel, isInitialized,
                 filter, tables>>

(* Mutant: the picture of the previous channel stays.                      *)
SwitchToRadioKeepsVideo ==
  /\ sc = "video"
  /\ scan.videoPid = NoStream
  /\ sc' = "audio"
  /\ ispisRadio' = TRUE
  /\ UNCHANGED <<localVars, currentChannel, streamHandleV, streamHandleA, player, flagVars,
                 filter, tables>>

(* A channel without video: the old stream goes, the radio screen is shown.*)
SwitchToRadio ==
  /\ sc = "video"
  /\ scan.videoPid = NoStream
  /\ sc' = "audio"
  /\ ispisRadio' = TRUE
  /\ streamHandleV' = NoPid
  /\ player' = [player EXCEPT !.video = AfterRemove(@, streamHandleV)]
  /\ UNCHANGED <<localVars, currentChannel, streamHandleA, flagVars, filter, tables>>

SwitchAudio ==
  /\ sc = "audio"
  /\ scan.audioPid # NoStream
  /\ sc' = "storeNumber"
  /\ \E created \in CreateResults :
       /\ streamHandleA' = IF created THEN scan.audioPid ELSE NoPid
       /\ player' = [player EXCEPT !.audio = AfterRemove(@, streamHandleA) + Count(created)]
       /\ DeinitFromTask(created)
  /\ UNCHANGED <<localVars, currentChannel, streamHandleV, ispisRadio, changeChannel,
                 isInitialized, filter, tables>>

(* A channel without audio leaves the old audio stream as it is.           *)
KeepAudio == sc = "audio" /\ scan.audioPid = NoStream /\ sc' = "storeNumber"

(* The four assignments to currentChannel.                                 *)
StoreChannel ==
  /\ \/ /\ sc = "storeNumber" /\ sc' = "storeAudio"
        /\ currentChannel' = [currentChannel EXCEPT !.programNumber = channelNumber + 1]
     \/ /\ sc = "storeAudio" /\ sc' = "storeVideo"
        /\ currentChannel' = [currentChannel EXCEPT !.audioPid = scan.audioPid]
     \/ /\ sc = "storeVideo" /\ sc' = "storeTeletekst"
        /\ currentChannel' = [currentChannel EXCEPT !.videoPid = scan.videoPid]
     \/ /\ sc = "storeTeletekst" /\ sc' = "freePmt"
        /\ currentChannel' = [currentChannel EXCEPT !.teletekst = scan.teletekst]
  /\ UNCHANGED <<localVars, deviceVars, flagVars, filter, tables>>

-----------------------------------------------------------------------------
(* The remote controller's thread                                          *)

(* The callback is free and the user may press a key.                      *)
KeyPressed ==
  /\ main = "running"
  /\ rc = "idle"
  /\ "earlyKey" \in Faults \/ isInitialized

(* channelUp, channelDown, promenaKanala: programNumber is written first;  *)
(* serviceInfoCount is read once.                                          *)
Select(number) ==
  /\ KeyPressed
  /\ tables # "null"
  /\ programNumber' = number
  /\ rc' = "raise"
  /\ UNCHANGED <<changeChannel, channelInfo, main>>

ChannelUpTooFar ==  \* mutant
  Select(IF programNumber >= patTable.count - 1 THEN 0 ELSE programNumber + 1)
ChannelUp == Select(IF programNumber >= patTable.count - 2 THEN 0 ELSE programNumber + 1)

ChannelDownNoWrap == Select(programNumber - 1)  \* mutant
ChannelDown == Select(IF programNumber <= 0 THEN patTable.count - 2 ELSE programNumber - 1)

PromenaKanala(brojKanala) == brojKanala < patTable.count /\ Select(brojKanala)

(* changeChannel = true                                                    *)
RaiseRequest ==
  /\ rc = "raise"
  /\ rc' = "idle"
  /\ changeChannel' = TRUE
  /\ UNCHANGED <<programNumber, channelInfo, main>>

(* A channel key before the tables exist, or after a failed bring-up freed *)
(* them, dereferences patTable all the same: a null pointer crashes, freed *)
(* memory crashes or still holds its old count.                            *)
KeyCrashes ==
  /\ KeyPressed
  /\ tables # "allocated"
  /\ main' = "crashed"
  /\ UNCHANGED <<rcVars, changeChannel>>

(* getChannelInfo copies currentChannel field by field.                    *)
GetChannelInfo ==
  /\ \/ /\ InfoKey /\ KeyPressed /\ rc' = "infoAudio"
        /\ channelInfo' = [channelInfo EXCEPT !.programNumber = currentChannel.programNumber]
     \/ /\ rc = "infoAudio" /\ rc' = "infoVideo"
        /\ channelInfo' = [channelInfo EXCEPT !.audioPid = currentChannel.audioPid]
     \/ /\ rc = "infoVideo" /\ rc' = "infoTeletekst"
        /\ channelInfo' = [channelInfo EXCEPT !.videoPid = currentChannel.videoPid]
     \/ /\ rc = "infoTeletekst" /\ rc' = "idle"
        /\ channelInfo' = [channelInfo EXCEPT !.teletekst = currentChannel.teletekst]
  /\ UNCHANGED <<programNumber, changeChannel, main>>

-----------------------------------------------------------------------------
(* streamControllerDeinit, called by main when the remote thread is joined *)

Deinit ==
  /\ main = "running"
  /\ rc = "idle"
  /\ main' = IF isInitialized THEN "joining" ELSE "failed"
  /\ threadExit' = (threadExit \/ isInitialized)
  /\ UNCHANGED <<isInitialized, filter, player, tables>>

JoinNobody ==  \* mutant
  /\ main = "joining"
  /\ main' = "freeFilter"
  /\ UNCHANGED <<threadExit, isInitialized, filter, player, tables>>

JoinTask ==
  /\ main = "joining"
  /\ sc = "ended"
  /\ main' = "freeFilter"
  /\ UNCHANGED <<threadExit, isInitialized, filter, player, tables>>

(* Demux_Free_Filter, then the two streams, the source, the player and the *)
(* tuner are released; the stream handles keep their values.               *)
ReleaseDevices ==
  /\ main = "freeFilter"
  /\ \/ /\ filter # NoFilter
        /\ filter' = NoFilter
        /\ UNCHANGED <<player, main>>
     \/ /\ filter = NoFilter /\ CallbackReturned
        /\ player' = [video |-> AfterRemove(player.video, streamHandleV),
                      audio |-> AfterRemove(player.audio, streamHandleA)]
        /\ main' = "freeTables"
        /\ UNCHANGED filter
  /\ UNCHANGED <<threadExit, isInitialized, tables>>

FreeTables ==
  /\ main = "freeTables"
  /\ main' = "returned"
  /\ tables' = "freed"
  /\ isInitialized' = FALSE
  /\ UNCHANGED <<threadExit, filter, player>>

-----------------------------------------------------------------------------
Init ==
  /\ sc = "start"
  /\ channelNumber = 0
  /\ scan = ScanStart
  /\ programNumber = 0
  /\ changeChannel = FALSE
  /\ threadExit = FALSE
  /\ isInitialized = FALSE
  /\ currentChannel = ZeroInfo
  /\ tables = "null"
  /\ patTable = [count |-> 0, filled |-> 0]
  /\ pmtTable = [count |-> 0, array |-> [i \in 1..MaxPmt |-> ZeroStream]]
  /\ filter = NoFilter
  /\ cb = "idle"
  /\ section = NoFilter
  /\ parsed = 0
  /\ streamHandleV = NoPid
  /\ streamHandleA = NoPid
  /\ player = [video |-> 0, audio |-> 0]
  /\ ispisRadio = FALSE
  /\ rc = "idle"
  /\ channelInfo = ZeroInfo
  /\ main = "running"

(* One step of a thread that changes nothing but its control point.        *)
ControlStep ==
  /\ \/ EnterWait \/ CheckExit \/ PollRequest
     \/ FilterFreed \/ SetFilterFails \/ ScanDone \/ KeepAudio
  /\ UNCHANGED <<localVars, currentChannel, deviceVars, flagVars, filter, tables>>

(* Each thread's steps, and what they leave to the other threads.          *)
ScStep ==
  /\ \/ ControlStep \/ BringUp \/ SetInitialized \/ ClearRequest
     \/ CallStartChannel \/ FreeFilter \/ SetFilter \/ ScanEntry
     \/ SwitchVideo \/ SwitchToRadio \/ SwitchAudio \/ StoreChannel
  /\ UNCHANGED <<cbVars, rcVars, main>>

Wakeup ==
  /\ SpuriousWakeup
  /\ UNCHANGED <<localVars, currentChannel, deviceVars, flagVars, filter, tables, cbVars,
                 rcVars, main>>

CbFrame == UNCHANGED <<localVars, currentChannel, deviceVars, flagVars, filter, tables,
                       rcVars, main>>

Broadcast == SectionArrives /\ CbFrame

CbStep == (ParseEntry \/ ParseReturns \/ Signal) /\ CbFrame

RcFrame == UNCHANGED <<sc, localVars, currentChannel, deviceVars, threadExit, isInitialized,
                       filter, tables, cbVars>>

Key ==
  /\ \/ ChannelUp \/ ChannelDown \/ KeyCrashes
     \/ \E d \in Digits : PromenaKanala(d)
  /\ RcFrame

RcStep == (RaiseRequest \/ GetChannelInfo) /\ RcFrame

MainFrame == UNCHANGED <<sc, localVars, currentChannel, streamHandleV, streamHandleA,
                         ispisRadio, changeChannel, cbVars, rcVars>>

Exit == Deinit /\ MainFrame

MainStep == (JoinTask \/ ReleaseDevices \/ FreeTables) /\ MainFrame

(* The process has ended.                                                  *)
Ended == ~Alive /\ UNCHANGED vars

Next == \/ Alive /\ (Broadcast \/ CbStep \/ Wakeup \/ ScStep \/ Key \/ RcStep \/ Exit \/ MainStep)
        \/ Ended

(* Every thread keeps running and, to the callback that was registered, a  *)
(* broadcast table keeps being repeated; the user is under no obligation   *)
(* to press anything.                                                      *)
Fairness ==
  /\ WF_vars(Alive /\ Broadcast)
  /\ WF_vars(Alive /\ CbStep)
  /\ WF_vars(Alive /\ ScStep)
  /\ WF_vars(Alive /\ rc # "idle" /\ RcStep)
  /\ WF_vars(Alive /\ MainStep)

Spec == Init /\ [][Next]_vars

FairSpec == Spec /\ Fairness

-----------------------------------------------------------------------------
(* Properties                                                              *)

ScPoints == {"start", "enterPat", "waitPat", "call", "freePrev", "setPmt", "enterPmt",
             "waitPmt", "scan", "video", "audio", "storeNumber", "storeAudio", "storeVideo",
             "storeTeletekst", "freePmt", "setEit", "enterEit", "waitEit", "freeEit",
             "initialized", "loop", "poll", "clear", "ended"}

Pids == Nat \cup {NoStream}

Info == [programNumber : Int, audioPid : Pids, videoPid : Pids, teletekst : BOOLEAN]

(* Types of all variables.  programNumber stays between -2 (channelDown    *)
(* before a PAT was parsed) and NumPrograms (the highest digit that        *)
(* promenaKanala accepts), so the int16_t never overflows; counts never    *)
(* exceed the arrays.                                                      *)
TypeOK ==
  /\ sc \in ScPoints
  /\ channelNumber \in -2..NumPrograms
  /\ scan \in [i : 0..MaxPmt, audioPid : Pids, videoPid : Pids, teletekst : BOOLEAN]
  /\ programNumber \in -2..NumPrograms
  /\ changeChannel \in BOOLEAN
  /\ threadExit \in BOOLEAN
  /\ isInitialized \in BOOLEAN
  /\ currentChannel \in Info
  /\ tables \in {"null", "allocated", "freed"}
  /\ patTable \in [count : 0..(NumPrograms + 1), filled : 0..(NumPrograms + 1)]
  /\ patTable.count <= MaxPat
  /\ pmtTable \in [count : 0..MaxPmt, array : [1..MaxPmt -> Streams \cup {ZeroStream}]]
  /\ filter \in [table : {"none", "PAT", "PMT", "EIT"}, pid : Nat]
  /\ cb \in {"idle", "parsing", "signal"}
  /\ section \in [table : {"none", "PAT", "PMT", "EIT"}, pid : Nat]
  /\ parsed \in Nat
  /\ streamHandleV \in Nat
  /\ streamHandleA \in Nat
  /\ player \in [video : Nat, audio : Nat]
  /\ ispisRadio \in BOOLEAN
  /\ rc \in {"idle", "raise", "infoAudio", "infoVideo", "infoTeletekst"}
  /\ channelInfo \in Info
  /\ main \in {"running", "joining", "freeFilter", "freeTables", "returned", "failed", "crashed"}

(* A request is on its way from the remote controller to the task.         *)
RequestPending == changeChannel \/ rc = "raise"

(* No channel request is lost: when the polling loop sees no request and   *)
(* none is being written, the channel it tuned last is the one the         *)
(* remote controller selected last, whatever the interleaving of           *)
(* channelUp / promenaKanala with the loop and with startChannel.          *)
LastRequestWins ==
  sc \in {"initialized", "loop", "poll"} /\ ~RequestPending
    => currentChannel.programNumber = programNumber + 1

(* What the PMT of program p says of the channel: its first audio and its  *)
(* first video stream, and whether it carries teletext.                    *)
FirstPid(streams, kind) ==
  LET found == {k \in DOMAIN streams : streams[k].kind = kind}
  IN  IF found = {} THEN NoStream
      ELSE streams[CHOOSE k \in found : \A j \in found : k <= j].pid

InfoOf(p) == [programNumber |-> p,
              audioPid  |-> FirstPid(Pmt[p], "audio"),
              videoPid  |-> FirstPid(Pmt[p], "video"),
              teletekst |-> \E k \in DOMAIN Pmt[p] : Pmt[p][k].kind = "teletext"]

(* The pids and the teletext flag published for a channel come from that   *)
(* channel's own PMT, completely parsed, although the task waits without   *)
(* testing a predicate and PMTs of the previous channel, PATs and EITs     *)
(* signal the same condition.                                              *)
PidsOfTunedChannel ==
  sc \in {"freePmt", "setEit", "enterEit", "waitEit", "freeEit", "initialized", "loop", "poll"}
    /\ currentChannel.programNumber \in Programs
    => currentChannel = InfoOf(currentChannel.programNumber)

Playing(pid) == IF pid = NoStream THEN NoPid ELSE pid

(* The player plays the streams of the channel that is announced, and      *)
(* nothing else; the radio screen is up exactly for a channel without      *)
(* video ("Creates streams with current channel audio and video pids").    *)
PlaysTunedChannel ==
  sc \in {"initialized", "loop", "poll"}
    => /\ streamHandleV = Playing(currentChannel.videoPid)
       /\ streamHandleA = Playing(currentChannel.audioPid)
       /\ ispisRadio = (currentChannel.videoPid = NoStream)

(* The PMT filter is always set for a service of the PAT: any run of P+    *)
(* and P-, wrapping at both ends, stays inside the table.                  *)
PmtFilterOfService == filter.table = "PMT" => filter.pid \in Programs

(* The task never waits in vain: the filter of the table it waits for is   *)
(* live, the table is one that is sent, and it fits, so that its callback  *)
(* signals if it is registered.  pthread_cond_wait has no timeout, and     *)
(* streamControllerDeinit joins the task before it frees the filter.       *)
TableAwaited == CASE sc = "waitPat" -> "PAT"
                  [] sc = "waitPmt" -> "PMT"
                  [] OTHER          -> "EIT"

NeverWaitsInVain ==
  sc \in Waits => /\ filter.table = TableAwaited
                  /\ filter.table = "PMT" => filter.pid \in Programs
                  /\ EntriesOf(filter) <= CapacityOf(filter)

(* Every stream created in the player is the one a handle names: changing  *)
(* channels, failing to create a stream and switching to radio never leave *)
(* a stream that nobody can remove.                                        *)
StreamsAccounted ==
  main \in {"running", "joining", "freeFilter"}
    => /\ player.video = (IF streamHandleV = NoPid THEN 0 ELSE 1)
       /\ player.audio = (IF streamHandleA = NoPid THEN 0 ELSE 1)

(* sectionReceivedCallback never writes into a table that                  *)
(* streamControllerDeinit has freed.                                       *)
NoParseIntoFreedTables == cb = "parsing" => tables # "freed"

(* When streamControllerDeinit has returned, the task is gone and nothing  *)
(* is left behind: no filter, no stream, no table.                         *)
TearDownComplete ==
  main = "returned" => /\ sc = "ended"
                       /\ filter = NoFilter
                       /\ player = [video |-> 0, audio |-> 0]
                       /\ tables = "freed"
                       /\ ~isInitialized

(* Demux_Set_Filter is called only when no filter is live: overwriting     *)
(* filterHandle would lose a filter that nobody can free any more.         *)
NoFilterLost == [][filter # NoFilter => filter' \in {filter, NoFilter}]_filter

(* If the selection stays at k, the receiver is tuned to it for good, even *)
(* though a signal sent before the task waits is lost: the broadcaster     *)
(* repeats the table.                                                      *)
SettlesOnRequest ==
  \A k \in 0..(NumPrograms - 1) :
    <>[](programNumber = k /\ main = "running") => <>[](currentChannel.programNumber = k + 1)

(* Once streamControllerDeinit has asked the task to stop, it returns.     *)
ExitCompletes == main = "joining" ~> main = "returned"

(* StreamController implements ChannelSelector: startChannel tunes from the*)
(* moment it has read programNumber until it stores the channel.           *)
StartingChannel == sc \in {"freePrev", "setPmt", "enterPmt", "waitPmt", "scan", "video",
                           "audio", "storeNumber"}

Selector == INSTANCE ChannelSelector WITH
  Channels     <- 0..(NumPrograms - 1),
  FirstChannel <- 0,
  NoChannel    <- -1,
  wanted       <- programNumber,
  tuning       <- IF StartingChannel THEN channelNumber ELSE -1,
  tuned        <- currentChannel.programNumber - 1,
  on           <- main = "running"

(* What the task, the callback and the keys do is what ChannelSelector     *)
(* allows, with its fairness: only a key changes what is wanted, only      *)
(* between the channels there are, each tuning is of the channel wanted    *)
(* when it began and announces that channel, one at a time, and a channel  *)
(* that is wanted is tuned in the end.                                     *)
SelectorRefinement == Selector!Spec
=============================================================================
