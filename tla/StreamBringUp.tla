--------------------------- MODULE StreamBringUp ---------------------------
(***************************************************************************)
(* stream_controller.c: how streamControllerTask begins.  It allocates the *)
(* three tables, locks the tuner, opens player and source, sets the PAT    *)
(* filter and registers the section callback; any of these may fail.  Up   *)
(* to the source every failure takes back what was acquired before, in its *)
(* own return path; the last two are only logged.                          *)
(*                                                                         *)
(* The tuner reports its lock in a thread of its own (tunerStatusCallback) *)
(* by signalling statusCondition.  The task waits for that signal, for no  *)
(* longer than until 10 s after it began: a signal sent before it waits is *)
(* lost, and the wait tests no predicate.                                  *)
(***************************************************************************)
EXTENDS Integers

CONSTANT Spurious   \* may a condition wait return although nobody signalled?

ASSUME SpuriousAssumption == Spurious \in BOOLEAN

VARIABLES
  task,         \* control point of streamControllerTask
  tables,       \* "null", the last one allocated ("pat", "pmt", "eit"), "freed"
  tuner, player, source,   \* open?
  filter,       \* is a section filter set?
  registered,   \* is sectionReceivedCallback registered?
  sent,         \* is the table that the task waits for one that will be signalled?
  statusMutex,  \* "free", or held by "task"
  report        \* tunerStatusCallback: "none", "locked" (it runs), "done"

demux  == <<filter, registered, sent>>
device == <<tuner, player, source, demux>>

bringUpVars == <<task, tables, device, statusMutex, report>>

BringUpInit ==
  /\ task = "none"
  /\ tables = "null"
  /\ tuner = FALSE
  /\ player = FALSE
  /\ source = FALSE
  /\ filter = FALSE
  /\ registered = FALSE
  /\ sent = FALSE
  /\ statusMutex = "free"
  /\ report = "none"

-----------------------------------------------------------------------------
(* malloc of patTable, pmtTable and eitTable; when one fails the task      *)
(* returns and those it has stay allocated.                                *)
Allocate ==
  /\ task = "malloc"
  /\ \/ tables' = "eit" /\ task' = "tuner"
     \/ tables' \in {"null", "pat", "pmt"} /\ task' = "ended"
  /\ UNCHANGED <<device, statusMutex, report>>

FreeTables == tables' = IF tables = "freed" THEN "freedTwice" ELSE "freed"

(* The return path of every later failure: the tables are freed and the    *)
(* task ends.                                                              *)
GiveUp == task' = "ended" /\ FreeTables

InitTuner ==
  /\ task = "tuner"
  /\ \/ task' = "lock" /\ tuner' = TRUE /\ UNCHANGED tables
     \/ GiveUp /\ UNCHANGED tuner
  /\ UNCHANGED <<player, source, demux, statusMutex, report>>

(* Tuner_Lock_To_Frequency: from now on the tuner may report.              *)
LockToFrequency ==
  /\ task = "lock"
  /\ \/ task' = "enterStatus" /\ UNCHANGED <<tuner, tables>>
     \/ GiveUp /\ tuner' = FALSE
  /\ UNCHANGED <<player, source, demux, statusMutex, report>>

EnterStatusWait ==
  /\ task = "enterStatus"
  /\ task' = "waitStatus"
  /\ UNCHANGED <<tables, device, statusMutex, report>>

StatusTimeoutNever ==  \* mutant: a wait without a timeout
  FALSE /\ UNCHANGED bringUpVars

StatusTimeoutIgnored ==  \* mutant: the timeout is not an error
  /\ task = "waitStatus"
  /\ task' = "player"
  /\ UNCHANGED <<tables, device, statusMutex, report>>

(* pthread_cond_timedwait returns without a signal and before its time:    *)
(* nothing tells that from the tuner's report.                             *)
StatusUnsignalled ==
  /\ task = "waitStatus"
  /\ task' = "player"
  /\ UNCHANGED <<tables, device, statusMutex, report>>

(* ETIMEDOUT: everything is taken back, and statusMutex stays locked.      *)
StatusTimeout ==
  /\ task = "waitStatus"
  /\ GiveUp
  /\ tuner' = FALSE
  /\ statusMutex' = "task"
  /\ UNCHANGED <<player, source, demux, report>>

InitPlayer ==
  /\ task = "player"
  /\ \/ task' = "source" /\ player' = TRUE /\ UNCHANGED <<tuner, tables>>
     \/ GiveUp /\ tuner' = FALSE /\ UNCHANGED player
  /\ UNCHANGED <<source, demux, statusMutex, report>>

OpenSourceKeepsPlayer ==  \* mutant: Player_Deinit is forgotten on failure
  /\ task = "source"
  /\ \/ task' = "filter" /\ source' = TRUE /\ UNCHANGED <<tuner, player, tables>>
     \/ GiveUp /\ tuner' = FALSE /\ UNCHANGED <<player, source>>
  /\ UNCHANGED <<demux, statusMutex, report>>

OpenSourceGoesOn ==  \* mutant: the failure path does not return
  /\ task = "source"
  /\ task' = "filter"
  /\ \/ source' = TRUE /\ UNCHANGED <<tuner, player, tables>>
     \/ tables' = "freed" /\ tuner' = FALSE /\ player' = FALSE /\ UNCHANGED source
  /\ UNCHANGED <<demux, statusMutex, report>>

OpenSource ==
  /\ task = "source"
  /\ \/ task' = "filter" /\ source' = TRUE /\ UNCHANGED <<tuner, player, tables>>
     \/ GiveUp /\ tuner' = FALSE /\ player' = FALSE /\ UNCHANGED source
  /\ UNCHANGED <<demux, statusMutex, report>>

(* A failure to set the PAT filter is only logged.                         *)
SetPatFilter ==
  /\ task = "filter"
  /\ task' = "callback"
  /\ filter' \in BOOLEAN
  /\ UNCHANGED <<tables, tuner, player, source, registered, sent, statusMutex, report>>

(* A wait for a section begins.  The callback will signal for it if it is  *)
(* registered, a filter for the table is set, and the table is broadcast   *)
(* and fits; the last two may be so or not.                                *)
Await(point, signalled) == task' = point /\ sent' \in {FALSE, signalled}

(* A failure to register sectionReceivedCallback is only logged too, and   *)
(* the wait for the PAT begins all the same.                               *)
RegisterSectionCallback ==
  /\ task = "callback"
  /\ registered' \in BOOLEAN
  /\ Await("waitPat", filter /\ registered')
  /\ UNCHANGED <<tables, tuner, player, source, filter, statusMutex, report>>

BringUpStep == \/ Allocate \/ InitTuner \/ LockToFrequency \/ EnterStatusWait \/ StatusTimeout
               \/ InitPlayer \/ OpenSource \/ SetPatFilter \/ RegisterSectionCallback

-----------------------------------------------------------------------------
(* tunerStatusCallback                                                     *)

(* The tuner has locked and calls back, once, at any moment from the call  *)
(* of Tuner_Lock_To_Frequency on; it may never.                            *)
TunerLocks ==
  /\ tuner
  /\ task \notin {"tuner", "lock"}
  /\ report = "none"
  /\ report' = "locked"
  /\ UNCHANGED <<task, tables, device, statusMutex>>

(* The callback needs statusMutex, which the task holds for ever once its  *)
(* wait has timed out.                                                     *)
SignalStatus ==
  /\ report = "locked"
  /\ statusMutex = "free"
  /\ report' = "done"
  /\ task' = IF task = "waitStatus" THEN "player" ELSE task
  /\ UNCHANGED <<tables, device, statusMutex>>

-----------------------------------------------------------------------------
(* Up to the PAT filter.                                                   *)
InBringUp == {"malloc", "tuner", "lock", "enterStatus", "waitStatus", "player",
              "source", "filter"}

(* From then on: the callback is registered and the first channel started, *)
(* and then the polling loop starts the others.                            *)
SectionWaits == {"waitPat", "waitPmt", "waitEit"}
Streaming == SectionWaits \cup {"setPmt", "streams", "setEit", "looping"}

(* Types of the variables of bring-up; no table is ever freed twice.       *)
BringUpTypeOK ==
  /\ task \in InBringUp \cup Streaming \cup {"none", "callback", "ended"}
  /\ tables \in {"null", "pat", "pmt", "eit", "freed"}
  /\ {tuner, player, source, filter, registered, sent} \subseteq BOOLEAN
  /\ statusMutex \in {"free", "task"}
  /\ report \in {"none", "locked", "done"}
=============================================================================
