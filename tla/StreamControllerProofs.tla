----------------------- MODULE StreamControllerProofs -----------------------
(* Theorems about StreamController, for every transport stream, every set  *)
(* of keys and every set of faults (a theorem that needs a fault to be     *)
(* absent says so).                                                        *)
EXTENDS StreamController, TLAPS

(* The scan never yields pid 0, which the handles use for "no stream".     *)
ScanPids == scan.audioPid # NoPid /\ scan.videoPid # NoPid

(* The parser works on a PMT only if a program sends it.                   *)
SectionSent == cb = "parsing" /\ section.table = "PMT" => section.pid \in Programs

(* streamControllerDeinit releases nothing before the task has ended.      *)
TaskJoined == main \in {"freeFilter", "freeTables", "returned"} => sc = "ended"

(* Until the streams are released, the player's streams are the handles'.  *)
Accounted ==
  main \notin {"freeTables", "returned"}
    => /\ player.video = (IF streamHandleV = NoPid THEN 0 ELSE 1)
       /\ player.audio = (IF streamHandleA = NoPid THEN 0 ELSE 1)

(* TypeOK is not inductive: that a removed stream was there to be removed  *)
(* (player stays in Nat) needs Accounted, which needs ScanPids and         *)
(* TaskJoined; that a parsed entry is a stream needs SectionSent.          *)
IInv == TypeOK /\ ScanPids /\ SectionSent /\ TaskJoined /\ Accounted

LEMMA InitIInv == Init => IInv
  <1> SUFFICES ASSUME Init PROVE IInv
    OBVIOUS
  <1> USE ConstAssumption DEF Init
  <1>1. TypeOK
    <2>1. channelNumber \in -2..NumPrograms /\ programNumber \in -2..NumPrograms
      OBVIOUS
    <2>2. scan \in [i : 0..MaxPmt, audioPid : Pids, videoPid : Pids, teletekst : BOOLEAN]
      BY DEF ScanStart, Pids
    <2>3. currentChannel \in Info /\ channelInfo \in Info
      BY DEF ZeroInfo, Info, Pids
    <2>4. pmtTable \in [count : 0..MaxPmt, array : [1..MaxPmt -> Streams \cup {ZeroStream}]]
      OBVIOUS
    <2>5. /\ patTable \in [count : 0..(NumPrograms + 1), filled : 0..(NumPrograms + 1)]
          /\ patTable.count <= MaxPat
      OBVIOUS
    <2>6. filter \in [table : {"none", "PAT", "PMT", "EIT"}, pid : Nat] /\ section = filter
      BY DEF NoFilter, NoPid
    <2>7. player \in [video : Nat, audio : Nat] /\ streamHandleV \in Nat /\ streamHandleA \in Nat
      BY DEF NoPid
    <2> QED
      BY <2>1, <2>2, <2>3, <2>4, <2>5, <2>6, <2>7 DEF TypeOK, ScPoints
  <1>2. ScanPids /\ SectionSent /\ TaskJoined /\ Accounted
    BY DEF ScanPids, SectionSent, TaskJoined, Accounted, ScanStart, NoPid, NoStream
  <1> QED
    BY <1>1, <1>2 DEF IInv

LEMMA ControlKeepsIInv ==
  ASSUME IInv, Alive, ScStep, ControlStep
  PROVE  IInv'
  <1> USE DEF IInv, ScStep, ControlStep, localVars, deviceVars, flagVars, cbVars, rcVars
  <1>1. sc' \in ScPoints /\ sc # "ended"
    BY DEF EnterWait, CheckExit, PollRequest, FilterFreed, SetFilterFails, ScanDone,
           KeepAudio, FreeSites, AfterFree, AfterStart, ScPoints
  <1>2. TypeOK'
    BY <1>1 DEF TypeOK
  <1>3. (ScanPids /\ SectionSent /\ TaskJoined /\ Accounted)'
    BY <1>1 DEF ScanPids, SectionSent, TaskJoined, Accounted
  <1> QED
    BY <1>2, <1>3

LEMMA TaskKeepsIInv ==
  ASSUME IInv, Alive, ScStep
  PROVE  IInv'
  <1> USE ConstAssumption
      DEF IInv, localVars, deviceVars, flagVars, cbVars, rcVars
  <1> UNCHANGED <<cbVars, rcVars, main>>
    BY DEF ScStep
  <1> DEFINE Others == ScanPids /\ SectionSent /\ TaskJoined /\ Accounted
  <1>1. CASE ControlStep
    BY <1>1, ControlKeepsIInv
  <1>2. CASE BringUp
    <2>1. TypeOK'
      BY <1>2 DEF TypeOK, BringUp, ScPoints, PatFilter, NoFilter, NoPid
    <2>2. Others'
      BY <1>2 DEF BringUp, ScanPids, SectionSent, TaskJoined, Accounted
    <2> QED
      BY <2>1, <2>2
  <1>3. CASE SetInitialized \/ ClearRequest \/ FreeFilter
    <2>1. filter' \in [table : {"none", "PAT", "PMT", "EIT"}, pid : Nat]
      <3>1. filter' \in {filter, NoFilter}
        BY <1>3 DEF SetInitialized, ClearRequest, FreeFilter
      <3>2. filter \in [table : {"none", "PAT", "PMT", "EIT"}, pid : Nat]
        BY DEF TypeOK
      <3> QED
        BY <3>1, <3>2 DEF NoFilter, NoPid
    <2>2. changeChannel' \in BOOLEAN /\ isInitialized' \in BOOLEAN
      BY <1>3 DEF SetInitialized, ClearRequest, FreeFilter, TypeOK
    <2>3. TypeOK'
      <3>1. sc' \in ScPoints
        BY <1>3 DEF SetInitialized, ClearRequest, FreeFilter, TypeOK, ScPoints
      <3>2. UNCHANGED <<localVars, currentChannel, deviceVars, threadExit, tables>>
        BY <1>3 DEF SetInitialized, ClearRequest, FreeFilter
      <3> QED
        BY <2>1, <2>2, <3>1, <3>2 DEF TypeOK
    <2>4. Others'
      BY <1>3 DEF SetInitialized, ClearRequest, FreeFilter, FreeSites,
                  ScanPids, SectionSent, TaskJoined, Accounted
    <2> QED
      BY <2>3, <2>4
  <1>4. CASE CallStartChannel
    <2>1. scan' \in [i : 0..MaxPmt, audioPid : Pids, videoPid : Pids, teletekst : BOOLEAN]
      BY <1>4 DEF CallStartChannel, ScanStart, Pids
    <2>2. TypeOK'
      BY <1>4, <2>1 DEF TypeOK, CallStartChannel, ScPoints
    <2>3. Others'
      BY <1>4 DEF CallStartChannel, ScanStart, NoStream, NoPid,
                  ScanPids, SectionSent, TaskJoined, Accounted
    <2> QED
      BY <2>2, <2>3
  <1>5. CASE SetFilter
    <2>1. filter' \in [table : {"none", "PAT", "PMT", "EIT"}, pid : Nat]
      BY <1>5 DEF SetFilter, PmtFilter, EitFilter, ServicePid, NoPid, TypeOK
    <2>2. TypeOK'
      BY <1>5, <2>1 DEF TypeOK, SetFilter, ScPoints
    <2>3. Others'
      BY <1>5 DEF SetFilter, ScanPids, SectionSent, TaskJoined, Accounted
    <2> QED
      BY <2>2, <2>3
  <1>6. CASE ScanEntry
    <2> DEFINE e == pmtTable.array[scan.i + 1]
               First(kind, pid) == IF e.kind = kind /\ pid = NoStream THEN e.pid ELSE pid
    <2>1. scan.i \in Nat /\ scan.i + 1 \in 1..MaxPmt
      BY <1>6 DEF ScanEntry, TypeOK
    <2>2. e \in Streams \cup {ZeroStream}
      BY <2>1 DEF TypeOK
    <2>3. ASSUME NEW kind \in {"audio", "video"}, NEW pid \in Pids, pid # NoPid
          PROVE  First(kind, pid) \in Pids /\ First(kind, pid) # NoPid
      BY <2>2, <2>3 DEF Streams, ZeroStream, Pids, NoPid
    <2>4. /\ scan'.i = scan.i + 1
          /\ scan'.audioPid = First("audio", scan.audioPid)
          /\ scan'.videoPid = First("video", scan.videoPid)
          /\ scan' \in [i : {scan.i + 1}, audioPid : {First("audio", scan.audioPid)},
                        videoPid : {First("video", scan.videoPid)}, teletekst : BOOLEAN]
      BY <1>6 DEF ScanEntry, TypeOK
    <2>5. scan.audioPid \in Pids /\ scan.videoPid \in Pids
      BY DEF TypeOK
    <2>6. /\ scan'.audioPid \in Pids /\ scan'.audioPid # NoPid
          /\ scan'.videoPid \in Pids /\ scan'.videoPid # NoPid
      BY <2>3, <2>4, <2>5 DEF ScanPids
    <2>7. scan' \in [i : 0..MaxPmt, audioPid : Pids, videoPid : Pids, teletekst : BOOLEAN]
      BY <2>1, <2>4, <2>6
    <2>8. TypeOK'
      BY <1>6, <2>7 DEF TypeOK, ScanEntry
    <2>9. Others'
      BY <1>6, <2>6 DEF ScanEntry, ScanPids, SectionSent, TaskJoined, Accounted
    <2> QED
      BY <2>8, <2>9
  <1>7. CASE SwitchVideo
    <2>1. main \notin {"freeTables", "returned"}
      BY <1>7 DEF SwitchVideo, TaskJoined
    <2>2. PICK created \in BOOLEAN :
            /\ streamHandleV' = IF created THEN scan.videoPid ELSE NoPid
            /\ player' = [player EXCEPT !.video = AfterRemove(@, streamHandleV) + Count(created)]
            /\ DeinitFromTask(created)
      BY <1>7 DEF SwitchVideo, CreateResults
    <2>3. scan.videoPid \in Nat \ {NoPid}
      BY <1>7 DEF SwitchVideo, ScanPids, TypeOK, Pids
    <2>4. /\ player' \in [video : Nat, audio : Nat]
          /\ player'.audio = player.audio
          /\ player'.video = (IF streamHandleV' = NoPid THEN 0 ELSE 1)
      <3>1. AfterRemove(player.video, streamHandleV) = 0
        BY <2>1 DEF AfterRemove, Accounted
      <3>2. player' = [player EXCEPT !.video = Count(created)]
        BY <2>2, <3>1 DEF Count
      <3>3. Count(created) \in Nat /\ Count(created) = (IF streamHandleV' = NoPid THEN 0 ELSE 1)
        BY <2>2, <2>3 DEF Count
      <3> QED
        BY <3>2, <3>3 DEF TypeOK
    <2>5. streamHandleV' \in Nat
      BY <2>2, <2>3 DEF NoPid
    <2>6. threadExit' \in BOOLEAN
      BY <2>2 DEF DeinitFromTask
    <2>7. TypeOK'
      <3>1. ispisRadio' \in BOOLEAN /\ sc' \in ScPoints
        BY <1>7 DEF SwitchVideo, ScPoints
      <3>2. UNCHANGED <<localVars, currentChannel, streamHandleA, changeChannel,
                        isInitialized, filter, tables>>
        BY <1>7 DEF SwitchVideo
      <3> QED
        BY <2>4, <2>5, <2>6, <3>1, <3>2 DEF TypeOK
    <2>8. Others'
      BY <1>7, <2>1, <2>4 DEF SwitchVideo, ScanPids, SectionSent, TaskJoined, Accounted
    <2> QED
      BY <2>7, <2>8
  <1>8. CASE SwitchToRadio
    <2>1. main \notin {"freeTables", "returned"}
      BY <1>8 DEF SwitchToRadio, TaskJoined
    <2>2. /\ player' \in [video : Nat, audio : Nat]
          /\ player'.audio = player.audio
          /\ player'.video = 0
      <3>1. AfterRemove(player.video, streamHandleV) = 0
        BY <2>1 DEF AfterRemove, Accounted
      <3>2. player' = [player EXCEPT !.video = 0]
        BY <1>8, <3>1 DEF SwitchToRadio
      <3> QED
        BY <3>2 DEF TypeOK
    <2>3. TypeOK'
      BY <1>8, <2>2 DEF TypeOK, SwitchToRadio, ScPoints, NoPid
    <2>4. Others'
      BY <1>8, <2>1, <2>2 DEF SwitchToRadio, ScanPids, SectionSent, TaskJoined, Accounted
    <2> QED
      BY <2>3, <2>4
  <1>9. CASE SwitchAudio
    <2>1. main \notin {"freeTables", "returned"}
      BY <1>9 DEF SwitchAudio, TaskJoined
    <2>2. PICK created \in BOOLEAN :
            /\ streamHandleA' = IF created THEN scan.audioPid ELSE NoPid
            /\ player' = [player EXCEPT !.audio = AfterRemove(@, streamHandleA) + Count(created)]
            /\ DeinitFromTask(created)
      BY <1>9 DEF SwitchAudio, CreateResults
    <2>3. scan.audioPid \in Nat \ {NoPid}
      BY <1>9 DEF SwitchAudio, ScanPids, TypeOK, Pids
    <2>4. /\ player' \in [video : Nat, audio : Nat]
          /\ player'.video = player.video
          /\ player'.audio = (IF streamHandleA' = NoPid THEN 0 ELSE 1)
      <3>1. AfterRemove(player.audio, streamHandleA) = 0
        BY <2>1 DEF AfterRemove, Accounted
      <3>2. player' = [player EXCEPT !.audio = Count(created)]
        BY <2>2, <3>1 DEF Count
      <3>3. Count(created) \in Nat /\ Count(created) = (IF streamHandleA' = NoPid THEN 0 ELSE 1)
        BY <2>2, <2>3 DEF Count
      <3> QED
        BY <3>2, <3>3 DEF TypeOK
    <2>5. streamHandleA' \in Nat
      BY <2>2, <2>3 DEF NoPid
    <2>6. threadExit' \in BOOLEAN
      BY <2>2 DEF DeinitFromTask
    <2>7. TypeOK'
      BY <1>9, <2>4, <2>5, <2>6 DEF TypeOK, SwitchAudio, ScPoints
    <2>8. Others'
      BY <1>9, <2>1, <2>4 DEF SwitchAudio, ScanPids, SectionSent, TaskJoined, Accounted
    <2> QED
      BY <2>7, <2>8
  <1>10. CASE StoreChannel
    <2>1. currentChannel' \in Info
      <3>1. /\ currentChannel \in Info /\ channelNumber + 1 \in Int
            /\ scan.audioPid \in Pids /\ scan.videoPid \in Pids /\ scan.teletekst \in BOOLEAN
        BY DEF TypeOK
      <3>2. CASE sc = "storeNumber"
        BY <1>10, <3>1, <3>2 DEF StoreChannel, Info
      <3>3. CASE sc = "storeAudio"
        BY <1>10, <3>1, <3>3 DEF StoreChannel, Info
      <3>4. CASE sc = "storeVideo"
        BY <1>10, <3>1, <3>4 DEF StoreChannel, Info
      <3>5. CASE sc = "storeTeletekst"
        BY <1>10, <3>1, <3>5 DEF StoreChannel, Info
      <3> QED
        BY <1>10, <3>2, <3>3, <3>4, <3>5 DEF StoreChannel
    <2>2. TypeOK'
      <3>1. sc' \in ScPoints
        BY <1>10 DEF StoreChannel, ScPoints
      <3>2. UNCHANGED <<localVars, deviceVars, flagVars, filter, tables, cbVars, rcVars, main>>
        BY <1>10 DEF StoreChannel
      <3> QED
        BY <2>1, <3>1, <3>2 DEF TypeOK
    <2>3. Others'
      BY <1>10 DEF StoreChannel, ScanPids, SectionSent, TaskJoined, Accounted
    <2> QED
      BY <2>2, <2>3
  <1> QED
    BY <1>1, <1>2, <1>3, <1>4, <1>5, <1>6, <1>7, <1>8, <1>9, <1>10 DEF ScStep

(* A parser's first act, emptying its table, keeps the table's type.       *)
LEMMA EmptiedTable ==
  ASSUME NEW C, NEW F, NEW t \in [count : C, filled : F], 0 \in C
  PROVE  [t EXCEPT !.count = 0] \in [count : C, filled : F] /\ [t EXCEPT !.count = 0].count = 0
  OBVIOUS

LEMMA EmptiedPmt ==
  ASSUME NEW C, NEW A, NEW t \in [count : C, array : A], 0 \in C
  PROVE  [t EXCEPT !.count = 0] \in [count : C, array : A]
  OBVIOUS

LEMMA CallbackKeepsIInv ==
  ASSUME IInv, Broadcast \/ CbStep
  PROVE  IInv'
  <1> USE ConstAssumption
      DEF IInv, localVars, deviceVars, flagVars, rcVars, CbFrame
  <1> DEFINE Others == ScanPids /\ SectionSent /\ TaskJoined /\ Accounted
             Filters == [table : {"none", "PAT", "PMT", "EIT"}, pid : Nat]
             Pats == [count : 0..(NumPrograms + 1), filled : 0..(NumPrograms + 1)]
             Arrays == [1..MaxPmt -> Streams \cup {ZeroStream}]
             Pmts == [count : 0..MaxPmt, array : Arrays]
  <1>1. CbFrame
    BY DEF Broadcast, CbStep
  <1>2. CASE SectionArrives
    <2>1. patTable' \in Pats /\ patTable'.count <= MaxPat /\ pmtTable' \in Pmts
      <3>1. patTable' \in {patTable, [patTable EXCEPT !.count = 0]}
        BY <1>2 DEF SectionArrives
      <3>2. pmtTable' \in {pmtTable, [pmtTable EXCEPT !.count = 0]}
        BY <1>2 DEF SectionArrives
      <3>3. pmtTable \in Pmts /\ patTable \in Pats /\ patTable.count <= MaxPat
        BY DEF TypeOK
      <3>4. 0 \in 0..(NumPrograms + 1) /\ 0 \in 0..MaxPmt /\ 0 <= MaxPat
        OBVIOUS
      <3>5. patTable' \in Pats /\ patTable'.count <= MaxPat
        <4> HIDE ConstAssumption
        <4>1. [patTable EXCEPT !.count = 0] \in Pats /\ [patTable EXCEPT !.count = 0].count = 0
          BY <3>3, <3>4, EmptiedTable
        <4> HIDE DEF Pats
        <4> QED
          BY <3>1, <3>3, <3>4, <4>1
      <3>6. [pmtTable EXCEPT !.count = 0] \in Pmts
        <4> HIDE ConstAssumption
        <4> HIDE DEF Arrays
        <4> QED
          BY <3>3, <3>4, EmptiedPmt
      <3> QED
        <4> HIDE ConstAssumption
        <4> HIDE DEF Pmts
        <4> QED
          BY <3>2, <3>3, <3>5, <3>6
    <2>2. section' \in Filters /\ parsed' \in Nat /\ cb' \in {"idle", "parsing", "signal"}
      BY <1>2 DEF SectionArrives, TypeOK
    <2>3. TypeOK'
      <3>1. UNCHANGED <<sc, localVars, currentChannel, deviceVars, flagVars, filter, tables,
                        rcVars, main>>
        BY <1>1, <1>2 DEF SectionArrives
      <3> QED
        BY <2>1, <2>2, <3>1 DEF TypeOK
    <2>4. Others'
      BY <1>1, <1>2 DEF SectionArrives, ScanPids, SectionSent, TaskJoined, Accounted
    <2> QED
      BY <2>3, <2>4
  <1>3. CASE ParseEntry
    <2>1. section.table \in {"none", "PAT", "PMT", "EIT"} /\ parsed \in Nat
      BY DEF TypeOK
    <2>2. patTable' \in Pats /\ patTable'.count <= MaxPat
      <3>1. patTable \in Pats /\ patTable.count <= MaxPat
        BY DEF TypeOK
      <3>2. CASE section.table # "PAT"
        BY <1>3, <3>1, <3>2 DEF ParseEntry
      <3>3. CASE section.table = "PAT"
        <4>1. parsed < NumPrograms + 1 /\ parsed < MaxPat
          BY <1>3, <3>3 DEF ParseEntry, EntriesOf, CapacityOf
        <4>2. PICK filled \in {patTable.filled, parsed + 1} :
                     patTable' = [count |-> parsed + 1, filled |-> filled]
          BY <1>3, <3>3 DEF ParseEntry
        <4>3. parsed + 1 \in 0..(NumPrograms + 1) /\ patTable.filled \in 0..(NumPrograms + 1)
          BY <2>1, <3>1, <4>1
        <4> QED
          BY <2>1, <4>1, <4>2, <4>3
      <3> QED
        BY <3>2, <3>3
    <2>3. pmtTable' \in Pmts
      <3>1. CASE section.table # "PMT"
        BY <1>3, <3>1 DEF ParseEntry, TypeOK
      <3>2. CASE section.table = "PMT"
        <4>1. section.pid \in Programs
          BY <1>3, <3>2 DEF ParseEntry, SectionSent
        <4>2. parsed < Len(Pmt[section.pid]) /\ parsed < MaxPmt
          BY <1>3, <3>2 DEF ParseEntry, EntriesOf, CapacityOf
        <4>3. Pmt[section.pid] \in Seq(Streams)
          BY <4>1
        <4>4. Pmt[section.pid][parsed + 1] \in Streams
          BY <2>1, <4>2, <4>3
        <4>5. pmtTable' = [count |-> parsed + 1,
                           array |-> [pmtTable.array EXCEPT
                                        ![parsed + 1] = Pmt[section.pid][parsed + 1]]]
          BY <1>3, <3>2 DEF ParseEntry
        <4>6. pmtTable.array \in Arrays
          BY DEF TypeOK
        <4>7. [pmtTable.array EXCEPT ![parsed + 1] = Pmt[section.pid][parsed + 1]] \in Arrays
          BY <4>4, <4>6
        <4>8. parsed + 1 \in 0..MaxPmt
          BY <2>1, <4>2
        <4> QED
          <5> HIDE ConstAssumption
          <5> HIDE DEF Arrays
          <5> QED
            BY <4>5, <4>7, <4>8
      <3> QED
        BY <3>1, <3>2
    <2>4. TypeOK'
      BY <1>1, <1>3, <2>1, <2>2, <2>3 DEF TypeOK, ParseEntry
    <2>5. Others'
      BY <1>1, <1>3 DEF ParseEntry, ScanPids, SectionSent, TaskJoined, Accounted
    <2> QED
      BY <2>4, <2>5
  <1>4. CASE ParseReturns
    <2>1. TypeOK'
      BY <1>1, <1>4 DEF TypeOK, ParseReturns
    <2>2. Others'
      BY <1>1, <1>4 DEF ParseReturns, ScanPids, SectionSent, TaskJoined, Accounted
    <2> QED
      BY <2>1, <2>2
  <1>5. CASE Signal
    <2>1. TypeOK'
      <3>1. sc' \in ScPoints
        BY <1>5 DEF TypeOK, Signal, Waits, Resume, ScPoints
      <3>2. cb' = "idle"
        BY <1>5 DEF Signal
      <3>3. UNCHANGED <<localVars, currentChannel, deviceVars, flagVars, filter, tables,
                        section, parsed, patTable, pmtTable, rcVars, main>>
        BY <1>1, <1>5 DEF Signal
      <3> QED
        BY <3>1, <3>2, <3>3 DEF TypeOK
    <2>2. Others'
      BY <1>1, <1>5 DEF Signal, Waits, ScanPids, SectionSent, TaskJoined, Accounted
    <2> QED
      BY <2>1, <2>2
  <1> QED
    BY <1>2, <1>3, <1>4, <1>5 DEF Broadcast, CbStep

LEMMA RemoteKeepsIInv ==
  ASSUME IInv, Key \/ RcStep
  PROVE  IInv'
  <1> USE ConstAssumption
      DEF IInv, localVars, deviceVars, cbVars, rcVars, RcFrame
  <1> UNCHANGED <<sc, localVars, currentChannel, deviceVars, threadExit, isInitialized,
                  filter, tables, cbVars>>
    BY DEF Key, RcStep
  <1>1. ASSUME NEW number \in -2..NumPrograms, Select(number)
        PROVE  IInv'
    <2>1. TypeOK'
      BY <1>1 DEF Select, TypeOK
    <2>2. (ScanPids /\ SectionSent /\ TaskJoined /\ Accounted)'
      BY <1>1 DEF Select, ScanPids, SectionSent, TaskJoined, Accounted
    <2> QED
      BY <2>1, <2>2
  <1>2. patTable.count \in 0..(NumPrograms + 1) /\ programNumber \in -2..NumPrograms
    BY DEF TypeOK
  <1>3. CASE ChannelUp
    BY <1>1, <1>2, <1>3 DEF ChannelUp
  <1>4. CASE ChannelDown
    BY <1>1, <1>2, <1>4 DEF ChannelDown
  <1>5. ASSUME NEW d \in Digits, PromenaKanala(d)
        PROVE  IInv'
    BY <1>1, <1>2, <1>5 DEF PromenaKanala
  <1>6. CASE KeyCrashes
    <2>1. TypeOK'
      BY <1>6 DEF KeyCrashes, TypeOK
    <2>2. (ScanPids /\ SectionSent /\ TaskJoined /\ Accounted)'
      BY <1>6 DEF KeyCrashes, KeyPressed, ScanPids, SectionSent, TaskJoined, Accounted
    <2> QED
      BY <2>1, <2>2
  <1>7. CASE RaiseRequest
    <2>1. TypeOK'
      BY <1>7 DEF RaiseRequest, TypeOK
    <2>2. (ScanPids /\ SectionSent /\ TaskJoined /\ Accounted)'
      BY <1>7 DEF RaiseRequest, ScanPids, SectionSent, TaskJoined, Accounted
    <2> QED
      BY <2>1, <2>2
  <1>8. CASE GetChannelInfo
    <2>1. channelInfo \in Info /\ currentChannel \in Info
      BY DEF TypeOK
    <2>2. \/ channelInfo' = [channelInfo EXCEPT !.programNumber = currentChannel.programNumber]
          \/ channelInfo' = [channelInfo EXCEPT !.audioPid = currentChannel.audioPid]
          \/ channelInfo' = [channelInfo EXCEPT !.videoPid = currentChannel.videoPid]
          \/ channelInfo' = [channelInfo EXCEPT !.teletekst = currentChannel.teletekst]
      BY <1>8 DEF GetChannelInfo
    <2>3. channelInfo' \in Info
      <3>1. [channelInfo EXCEPT !.programNumber = currentChannel.programNumber] \in Info
        BY <2>1 DEF Info
      <3>2. [channelInfo EXCEPT !.audioPid = currentChannel.audioPid] \in Info
        BY <2>1 DEF Info
      <3>3. [channelInfo EXCEPT !.videoPid = currentChannel.videoPid] \in Info
        BY <2>1 DEF Info
      <3>4. [channelInfo EXCEPT !.teletekst = currentChannel.teletekst] \in Info
        BY <2>1 DEF Info
      <3> QED
        BY <2>2, <3>1, <3>2, <3>3, <3>4
    <2>4. /\ rc' \in {"idle", "raise", "infoAudio", "infoVideo", "infoTeletekst"}
          /\ UNCHANGED <<programNumber, changeChannel, main>>
      BY <1>8 DEF GetChannelInfo
    <2>5. TypeOK'
      BY <2>3, <2>4 DEF TypeOK
    <2>6. (ScanPids /\ SectionSent /\ TaskJoined /\ Accounted)'
      BY <2>4 DEF ScanPids, SectionSent, TaskJoined, Accounted
    <2> QED
      BY <2>5, <2>6
  <1> QED
    BY <1>3, <1>4, <1>5, <1>6, <1>7, <1>8 DEF Key, RcStep

LEMMA MainKeepsIInv ==
  ASSUME IInv, Alive, Exit \/ MainStep
  PROVE  IInv'
  <1> USE DEF IInv, localVars, cbVars, rcVars, MainFrame
  <1> UNCHANGED <<sc, localVars, currentChannel, streamHandleV, streamHandleA, ispisRadio,
                  changeChannel, cbVars, rcVars>>
    BY DEF Exit, MainStep
  <1>1. CASE Deinit
    <2>1. threadExit' \in BOOLEAN /\ main' \in {"joining", "failed"}
      BY <1>1 DEF Deinit
    <2>2. UNCHANGED <<isInitialized, filter, player, tables>> /\ main = "running"
      BY <1>1 DEF Deinit
    <2>3. TypeOK'
      BY <2>1, <2>2 DEF TypeOK
    <2>4. (ScanPids /\ SectionSent /\ TaskJoined /\ Accounted)'
      BY <2>1, <2>2 DEF ScanPids, SectionSent, TaskJoined, Accounted
    <2> QED
      BY <2>3, <2>4
  <1>2. CASE JoinTask
    <2>1. TypeOK'
      BY <1>2 DEF JoinTask, TypeOK
    <2>2. (ScanPids /\ SectionSent /\ TaskJoined /\ Accounted)'
      BY <1>2 DEF JoinTask, ScanPids, SectionSent, TaskJoined, Accounted
    <2> QED
      BY <2>1, <2>2
  <1>3. CASE ReleaseDevices
    <2>1. /\ AfterRemove(player.video, streamHandleV) = 0
          /\ AfterRemove(player.audio, streamHandleA) = 0
      BY <1>3 DEF ReleaseDevices, AfterRemove, Accounted
    <2>2. player' = player \/ player' = [video |-> 0, audio |-> 0]
      BY <1>3, <2>1 DEF ReleaseDevices
    <2>3. player' \in [video : Nat, audio : Nat]
      BY <2>2 DEF TypeOK
    <2>4. filter' \in [table : {"none", "PAT", "PMT", "EIT"}, pid : Nat]
      BY <1>3 DEF ReleaseDevices, TypeOK, NoFilter, NoPid
    <2>5. main' \in {"freeFilter", "freeTables"} /\ UNCHANGED <<threadExit, isInitialized, tables>>
      BY <1>3 DEF ReleaseDevices
    <2>6. TypeOK'
      BY <2>3, <2>4, <2>5 DEF TypeOK
    <2>7. (ScanPids /\ SectionSent /\ TaskJoined)'
      BY <1>3, <2>5 DEF ReleaseDevices, ScanPids, SectionSent, TaskJoined
    <2>8. Accounted'
      BY <1>3, <2>5 DEF ReleaseDevices, Accounted
    <2> QED
      BY <2>6, <2>7, <2>8
  <1>4. CASE FreeTables
    <2>1. TypeOK'
      <3>1. isInitialized' \in BOOLEAN /\ tables' = "freed" /\ main' = "returned"
        BY <1>4 DEF FreeTables
      <3>2. UNCHANGED <<threadExit, filter, player>>
        BY <1>4 DEF FreeTables
      <3> QED
        BY <3>1, <3>2 DEF TypeOK
    <2>2. (ScanPids /\ SectionSent /\ TaskJoined /\ Accounted)'
      BY <1>4 DEF FreeTables, ScanPids, SectionSent, TaskJoined, Accounted
    <2> QED
      BY <2>1, <2>2
  <1> QED
    BY <1>1, <1>2, <1>3, <1>4 DEF Exit, MainStep

LEMMA StutterKeepsIInv ==
  ASSUME IInv, UNCHANGED vars
  PROVE  IInv'
  <1> USE DEF vars, localVars, deviceVars, flagVars, cbVars, rcVars
  <1>1. TypeOK'
    BY DEF IInv, TypeOK
  <1>2. (ScanPids /\ SectionSent /\ TaskJoined /\ Accounted)'
    BY DEF IInv, ScanPids, SectionSent, TaskJoined, Accounted
  <1> QED
    BY <1>1, <1>2 DEF IInv

LEMMA WakeupKeepsIInv ==
  ASSUME IInv, Wakeup
  PROVE  IInv'
  <1> USE DEF IInv, Wakeup, localVars, deviceVars, flagVars, cbVars, rcVars
  <1>1. sc' \in ScPoints /\ sc # "ended"
    BY DEF SpuriousWakeup, Waits, Resume, ScPoints
  <1>2. TypeOK'
    BY <1>1 DEF TypeOK
  <1>3. (ScanPids /\ SectionSent /\ TaskJoined /\ Accounted)'
    BY <1>1 DEF ScanPids, SectionSent, TaskJoined, Accounted
  <1> QED
    BY <1>2, <1>3

LEMMA NextKeepsIInv ==
  ASSUME IInv, [Next]_vars
  PROVE  IInv'
  <1>1. CASE Alive /\ (Broadcast \/ CbStep)
    BY <1>1, CallbackKeepsIInv
  <1>2. CASE Alive /\ Wakeup
    BY <1>2, WakeupKeepsIInv
  <1>3. CASE Alive /\ ScStep
    BY <1>3, TaskKeepsIInv
  <1>4. CASE Alive /\ (Key \/ RcStep)
    BY <1>4, RemoteKeepsIInv
  <1>5. CASE Alive /\ (Exit \/ MainStep)
    BY <1>5, MainKeepsIInv
  <1>6. CASE Ended \/ UNCHANGED vars
    BY <1>6, StutterKeepsIInv DEF Ended
  <1> QED
    BY <1>1, <1>2, <1>3, <1>4, <1>5, <1>6 DEF Next

LEMMA IInvInvariant == Spec => []IInv
  BY InitIInv, NextKeepsIInv, PTL DEF Spec

(* All variables keep their types: programNumber never leaves              *)
(* -2..NumPrograms whatever keys are pressed and whenever, no count passes *)
(* the size of its array, and no stream is removed that was not created.   *)
THEOREM TypeCorrect == Spec => []TypeOK
  BY IInvInvariant, PTL DEF IInv

(* The player's streams are exactly those the handles name, also when      *)
(* Player_Stream_Create fails and the task asks itself to stop.            *)
THEOREM StreamsNeverLost == Spec => []StreamsAccounted
  <1>1. IInv => StreamsAccounted
    BY DEF IInv, Accounted, StreamsAccounted
  <1> QED
    BY <1>1, IInvInvariant, PTL

-----------------------------------------------------------------------------
(* No request is lost.                                                     *)

Started == {"freePrev", "setPmt", "enterPmt", "waitPmt", "scan", "video", "audio",
            "storeNumber"}
Stored == {"storeAudio", "storeVideo", "storeTeletekst", "freePmt", "setEit", "enterEit",
           "waitEit", "freeEit", "initialized", "loop", "poll"}

(* From the read of programNumber on, the channel being tuned is the       *)
(* selected one unless a request is outstanding; once stored, it is the    *)
(* channel announced.                                                      *)
RequestInv ==
  /\ sc \in Started \cup Stored /\ ~RequestPending => channelNumber = programNumber
  /\ sc \in Stored => currentChannel.programNumber = channelNumber + 1

LEMMA NextKeepsRequestInv ==
  ASSUME IInv, RequestInv, [Next]_vars, "filterError" \notin Faults
  PROVE  RequestInv'
  <1> USE DEF RequestInv, RequestPending, Started, Stored,
              localVars, deviceVars, flagVars, cbVars, rcVars
  <1>1. CASE Broadcast \/ CbStep
    BY <1>1 DEF Broadcast, CbStep, CbFrame, SectionArrives, ParseEntry, ParseReturns, Signal,
                Waits, Resume
  <1>2. CASE Wakeup
    BY <1>2 DEF Wakeup, SpuriousWakeup, Waits, Resume
  <1>3. CASE ScStep
    <2> UNCHANGED <<rc, programNumber>>
      BY <1>3 DEF ScStep
    <2>1. CASE ControlStep
      BY <2>1 DEF ControlStep, EnterWait, CheckExit, PollRequest, FilterFreed, FreeSites,
                  AfterFree, AfterStart, SetFilterFails, ScanDone, KeepAudio
    <2>2. CASE BringUp \/ SetInitialized \/ ClearRequest \/ CallStartChannel \/ FreeFilter
      BY <2>2 DEF BringUp, SetInitialized, ClearRequest, CallStartChannel, FreeFilter
    <2>3. CASE SetFilter \/ ScanEntry
      BY <2>3 DEF SetFilter, ScanEntry
    <2>4. CASE SwitchVideo \/ SwitchToRadio \/ SwitchAudio
      BY <2>4 DEF SwitchVideo, SwitchToRadio, SwitchAudio
    <2>5. CASE StoreChannel
      BY <2>5 DEF StoreChannel, IInv, TypeOK, Info
    <2> QED
      BY <1>3, <2>1, <2>2, <2>3, <2>4, <2>5 DEF ScStep
  <1>4. CASE Key
    BY <1>4 DEF Key, RcFrame, ChannelUp, ChannelDown, PromenaKanala, Select, KeyCrashes
  <1>5. CASE RcStep
    <2> UNCHANGED <<sc, channelNumber, currentChannel>>
      BY <1>5 DEF RcStep, RcFrame
    <2>1. CASE RaiseRequest
      BY <2>1 DEF RaiseRequest
    <2>2. CASE GetChannelInfo
      <3>1. UNCHANGED <<programNumber, changeChannel>>
        BY <2>2 DEF GetChannelInfo
      <3>2. rc # "raise" /\ rc' # "raise"
        BY <2>2 DEF GetChannelInfo, KeyPressed
      <3> QED
        BY <3>1, <3>2
    <2> QED
      BY <1>5, <2>1, <2>2 DEF RcStep
  <1>6. CASE Exit \/ MainStep
    BY <1>6 DEF Exit, MainStep, MainFrame
  <1>7. CASE UNCHANGED vars
    BY <1>7 DEF vars
  <1> QED
    BY <1>1, <1>2, <1>3, <1>4, <1>5, <1>6, <1>7 DEF Next, Ended

(* No channel request is lost, provided that filters can be set: with any  *)
(* other fault, any number of programs and any keys at any moment, a task  *)
(* that sees no request has tuned the channel selected last.               *)
THEOREM NoRequestLost ==
  ASSUME "filterError" \notin Faults
  PROVE  Spec => []LastRequestWins
  <1>1. Init => RequestInv
    BY DEF Init, RequestInv, Started, Stored
  <1>2. IInv /\ RequestInv /\ [Next]_vars => RequestInv'
    BY NextKeepsRequestInv
  <1>3. RequestInv => LastRequestWins
    BY DEF RequestInv, LastRequestWins, Started, Stored
  <1> QED
    BY <1>1, <1>2, <1>3, IInvInvariant, PTL DEF Spec

-----------------------------------------------------------------------------
(* Nothing is released while it is in use, and everything is released.     *)

(* What is released at each stage of streamControllerDeinit.               *)
ReleaseInv ==
  /\ main \in {"freeTables", "returned"}
       => filter = NoFilter /\ player = [video |-> 0, audio |-> 0]
  /\ main = "returned" => tables = "freed" /\ ~isInitialized

LEMMA NextKeepsReleaseInv ==
  ASSUME IInv, ReleaseInv, [Next]_vars
  PROVE  ReleaseInv'
  <1> USE DEF ReleaseInv, IInv, TaskJoined, Alive,
              localVars, deviceVars, flagVars, cbVars, rcVars
  <1>1. CASE Alive /\ (Broadcast \/ CbStep \/ Wakeup)
    BY <1>1 DEF Broadcast, CbStep, CbFrame, Wakeup
  <1>2. CASE Alive /\ ScStep
    <2>1. sc # "ended"
      BY <1>2 DEF ScStep, ControlStep, EnterWait, CheckExit, PollRequest, FilterFreed,
                  FreeSites, SetFilterFails, ScanDone, KeepAudio, BringUp, SetInitialized,
                  ClearRequest, CallStartChannel, FreeFilter, SetFilter, ScanEntry,
                  SwitchVideo, SwitchToRadio, SwitchAudio, StoreChannel
    <2> QED
      BY <1>2, <2>1 DEF ScStep
  <1>3. CASE Alive /\ Key
    BY <1>3 DEF Key, RcFrame, ChannelUp, ChannelDown, PromenaKanala, Select, KeyCrashes,
                KeyPressed
  <1>4. CASE Alive /\ RcStep
    BY <1>4 DEF RcStep, RcFrame, RaiseRequest, GetChannelInfo
  <1>5. CASE Exit
    BY <1>5 DEF Exit, Deinit
  <1>6. CASE MainStep
    <2>1. CASE JoinTask
      BY <2>1 DEF JoinTask
    <2>2. CASE ReleaseDevices
      <3>1. /\ AfterRemove(player.video, streamHandleV) = 0
            /\ AfterRemove(player.audio, streamHandleA) = 0
        BY <2>2 DEF ReleaseDevices, AfterRemove, Accounted
      <3> QED
        BY <2>2, <3>1 DEF ReleaseDevices
    <2>3. CASE FreeTables
      BY <2>3 DEF FreeTables
    <2> QED
      BY <1>6, <2>1, <2>2, <2>3 DEF MainStep
  <1>7. CASE UNCHANGED vars
    BY <1>7 DEF vars
  <1> QED
    BY <1>1, <1>2, <1>3, <1>4, <1>5, <1>6, <1>7 DEF Next, Ended

(* When streamControllerDeinit returns, the task has ended and no filter,  *)
(* stream or table is left, whatever faults occurred before.               *)
THEOREM TearsDown == Spec => []TearDownComplete
  <1>1. Init => ReleaseInv
    BY DEF Init, ReleaseInv
  <1>2. IInv /\ ReleaseInv /\ [Next]_vars => ReleaseInv'
    BY NextKeepsReleaseInv
  <1>3. IInv /\ ReleaseInv => TearDownComplete
    BY DEF IInv, TaskJoined, ReleaseInv, TearDownComplete
  <1> QED
    BY <1>1, <1>2, <1>3, IInvInvariant, PTL DEF Spec

(* Tables are freed only when no section can arrive and none is parsed.    *)
QuietInv ==
  /\ sc = "start" \/ tables = "freed" \/ main \in {"freeTables", "returned"}
       => filter = NoFilter /\ cb = "idle"
  /\ tables = "freed" => sc = "ended"

LEMMA NextKeepsQuietInv ==
  ASSUME IInv, QuietInv, [Next]_vars, "lateCallback" \notin Faults
  PROVE  QuietInv'
  <1> USE DEF QuietInv, IInv, TaskJoined, CallbackReturned,
              localVars, deviceVars, flagVars, cbVars, rcVars
  <1>1. CASE Broadcast \/ CbStep
    BY <1>1 DEF Broadcast, CbStep, CbFrame, SectionArrives, ParseEntry, ParseReturns, Signal,
                Waits, Resume
  <1>2. CASE Wakeup
    BY <1>2 DEF Wakeup, SpuriousWakeup, Waits, Resume
  <1>3. CASE ScStep
    <2> UNCHANGED <<cb, main>>
      BY <1>3 DEF ScStep
    <2>1. CASE ControlStep
      BY <2>1 DEF ControlStep, EnterWait, CheckExit, PollRequest, FilterFreed, FreeSites,
                  AfterFree, AfterStart, SetFilterFails, ScanDone, KeepAudio
    <2>2. CASE BringUp
      BY <2>2 DEF BringUp
    <2>3. CASE SetInitialized \/ ClearRequest \/ CallStartChannel \/ FreeFilter
      BY <2>3 DEF SetInitialized, ClearRequest, CallStartChannel, FreeFilter, FreeSites
    <2>4. CASE SetFilter \/ ScanEntry
      BY <2>4 DEF SetFilter, ScanEntry
    <2>5. CASE SwitchVideo \/ SwitchToRadio \/ SwitchAudio \/ StoreChannel
      BY <2>5 DEF SwitchVideo, SwitchToRadio, SwitchAudio, StoreChannel
    <2> QED
      BY <1>3, <2>1, <2>2, <2>3, <2>4, <2>5 DEF ScStep
  <1>4. CASE Key
    BY <1>4 DEF Key, RcFrame, ChannelUp, ChannelDown, PromenaKanala, Select, KeyCrashes
  <1>5. CASE RcStep
    BY <1>5 DEF RcStep, RcFrame, RaiseRequest, GetChannelInfo
  <1>6. CASE Exit
    BY <1>6 DEF Exit, MainFrame, Deinit
  <1>7. CASE MainStep
    BY <1>7 DEF MainStep, MainFrame, JoinTask, ReleaseDevices, FreeTables
  <1>8. CASE UNCHANGED vars
    BY <1>8 DEF vars
  <1> QED
    BY <1>1, <1>2, <1>3, <1>4, <1>5, <1>6, <1>7, <1>8 DEF Next, Ended

(* The callback never parses into freed tables, provided Demux_Free_Filter *)
(* returns only when a running callback has returned.                      *)
THEOREM NeverParsesIntoFreedTables ==
  ASSUME "lateCallback" \notin Faults
  PROVE  Spec => []NoParseIntoFreedTables
  <1>1. Init => QuietInv
    BY DEF Init, QuietInv
  <1>2. IInv /\ QuietInv /\ [Next]_vars => QuietInv'
    BY NextKeepsQuietInv
  <1>3. QuietInv => NoParseIntoFreedTables
    BY DEF QuietInv, NoParseIntoFreedTables
  <1> QED
    BY <1>1, <1>2, <1>3, IInvInvariant, PTL DEF Spec

-----------------------------------------------------------------------------
(* No filter is lost.                                                      *)

(* Every Demux_Set_Filter comes after a Demux_Free_Filter of the live one. *)
FilterInv == sc \in {"start", "setPmt", "setEit"} => filter = NoFilter

LEMMA NextKeepsFilterInv ==
  ASSUME FilterInv, [Next]_vars
  PROVE  FilterInv'
  <1> USE DEF FilterInv, localVars, deviceVars, flagVars, cbVars, rcVars
  <1>1. CASE Broadcast \/ CbStep
    BY <1>1 DEF Broadcast, CbStep, CbFrame, SectionArrives, ParseEntry, ParseReturns, Signal,
                Waits, Resume
  <1>2. CASE Wakeup
    BY <1>2 DEF Wakeup, SpuriousWakeup, Waits, Resume
  <1>3. CASE ScStep
    <2>1. CASE ControlStep
      BY <2>1 DEF ControlStep, EnterWait, CheckExit, PollRequest, FilterFreed, FreeSites,
                  AfterFree, AfterStart, SetFilterFails, ScanDone, KeepAudio
    <2>2. CASE ~ControlStep
      BY <1>3, <2>2 DEF ScStep, BringUp, SetInitialized, ClearRequest, CallStartChannel,
                        FreeFilter, SetFilter, ScanEntry, SwitchVideo, SwitchToRadio,
                        SwitchAudio, StoreChannel
    <2> QED
      BY <2>1, <2>2
  <1>4. CASE Key \/ RcStep
    BY <1>4 DEF Key, RcStep, RcFrame
  <1>5. CASE Exit \/ MainStep
    BY <1>5 DEF Exit, MainStep, MainFrame, Deinit, JoinTask, ReleaseDevices, FreeTables
  <1>6. CASE UNCHANGED vars
    BY <1>6 DEF vars
  <1> QED
    BY <1>1, <1>2, <1>3, <1>4, <1>5, <1>6 DEF Next, Ended

(* A step that sets a filter finds none live: only SetFilter and BringUp   *)
(* set one, at control points where FilterInv says there is none.          *)
LEMMA SetsFilterOnlyWhenFree ==
  ASSUME FilterInv, [Next]_vars, filter # NoFilter
  PROVE  filter' \in {filter, NoFilter}
  <1> USE DEF FilterInv, localVars, deviceVars, flagVars, cbVars, rcVars
  <1>1. CASE ScStep
    <2>1. CASE ControlStep \/ ScanEntry \/ StoreChannel
      BY <2>1 DEF ControlStep, ScanEntry, StoreChannel
    <2>2. CASE SwitchVideo \/ SwitchToRadio \/ SwitchAudio
      BY <2>2 DEF SwitchVideo, SwitchToRadio, SwitchAudio
    <2>3. CASE BringUp \/ SetInitialized \/ ClearRequest \/ CallStartChannel
      BY <2>3 DEF BringUp, SetInitialized, ClearRequest, CallStartChannel
    <2>4. CASE FreeFilter \/ SetFilter
      BY <2>4 DEF FreeFilter, SetFilter
    <2> QED
      BY <1>1, <2>1, <2>2, <2>3, <2>4 DEF ScStep
  <1>2. CASE Broadcast \/ CbStep \/ Wakeup
    BY <1>2 DEF Broadcast, CbStep, CbFrame, Wakeup
  <1>3. CASE Key \/ RcStep
    BY <1>3 DEF Key, RcStep, RcFrame
  <1>4. CASE Exit \/ MainStep
    BY <1>4 DEF Exit, MainStep, Deinit, JoinTask, ReleaseDevices, FreeTables
  <1>5. CASE UNCHANGED vars
    BY <1>5 DEF vars
  <1> QED
    BY <1>1, <1>2, <1>3, <1>4, <1>5 DEF Next, Ended

(* filterHandle is never overwritten while the filter it names is live,    *)
(* whatever faults occur.                                                  *)
THEOREM FiltersNeverLost == Spec => NoFilterLost
  <1>1. Init => FilterInv
    BY DEF Init, FilterInv
  <1>2. FilterInv /\ [Next]_vars => FilterInv'
    BY NextKeepsFilterInv
  <1>3. FilterInv /\ [Next]_vars
          => [filter # NoFilter => filter' \in {filter, NoFilter}]_filter
    BY SetsFilterOnlyWhenFree
  <1> QED
    BY <1>1, <1>2, <1>3, PTL DEF Spec, NoFilterLost

-----------------------------------------------------------------------------
(* A filter is only set for a program of the PAT.                          *)

(* The task has not been woken by a PAT yet.                               *)
BeforePat == {"start", "enterPat", "waitPat"}

PatInParsing == cb = "parsing" /\ section.table = "PAT"

(* While a PAT is parsed, the count follows it; it signals when it is      *)
(* complete, and until then nothing else signals.                          *)
PatCounted ==
  /\ sc \in BeforePat => /\ cb # "idle" => section.table = "PAT"
                         /\ filter \in {NoFilter, PatFilter}
  /\ cb # "idle" /\ section.table = "PAT"
       => patTable.count = parsed /\ patTable.filled >= parsed /\ parsed <= NumPrograms + 1
  /\ cb = "signal" /\ section.table = "PAT" => parsed = NumPrograms + 1

(* Where a repetition of the PAT may still be parsed after the first wait: *)
(* until its filter is freed, and if the free does not wait for the        *)
(* callback, until the callback lets the next wait end.                    *)
Repeating == IF "slowScan" \notin Faults THEN {}
             ELSE IF "lateCallback" \notin Faults THEN {"call", "freePrev"}
             ELSE {"call", "freePrev", "setPmt", "enterPmt", "waitPmt"}

(* A free that does not wait, for a repetition just begun, and a failure   *)
(* that skips the next wait: only together they let a key meet a PAT that  *)
(* is half stored.                                                         *)
PatMayLinger == {"slowScan", "lateCallback", "filterError"} \subseteq Faults

(* Past the first wait a whole PAT has been stored, and only a repetition  *)
(* makes the count less.                                                   *)
PatStored ==
  /\ isInitialized => sc \notin BeforePat
  /\ isInitialized \/ sc \notin BeforePat \cup {"ended"}
       => /\ patTable.filled = NumPrograms + 1
          /\ MaxPat >= NumPrograms + 1
          /\ PatInParsing \/ patTable.count = NumPrograms + 1
  /\ isInitialized \/ sc \notin BeforePat \cup {"call", "freePrev", "ended"}
       => filter.table # "PAT"
  /\ isInitialized \/ sc \notin BeforePat \cup Repeating \cup {"ended"}
       => ~PatInParsing

PatInv == PatCounted /\ PatStored

LEMMA WhereRepeating ==
  /\ Repeating \subseteq {"call", "freePrev", "setPmt", "enterPmt", "waitPmt"}
  /\ "call" \in Repeating <=> "slowScan" \in Faults
  /\ "freePrev" \in Repeating <=> "slowScan" \in Faults
  /\ \A w \in {"setPmt", "enterPmt", "waitPmt"} :
       w \in Repeating <=> "slowScan" \in Faults /\ "lateCallback" \in Faults
  <1>1. CASE "slowScan" \notin Faults
    <2>1. Repeating = {}
      BY <1>1 DEF Repeating
    <2> QED
      BY <1>1, <2>1
  <1>2. CASE "slowScan" \in Faults /\ "lateCallback" \notin Faults
    <2>1. Repeating = {"call", "freePrev"}
      BY <1>2 DEF Repeating
    <2> QED
      BY <1>2, <2>1
  <1>3. CASE "slowScan" \in Faults /\ "lateCallback" \in Faults
    <2>1. Repeating = {"call", "freePrev", "setPmt", "enterPmt", "waitPmt"}
      BY <1>3 DEF Repeating
    <2> QED
      BY <1>3, <2>1
  <1> QED
    BY <1>1, <1>2, <1>3

LEMMA CallbackKeepsPatInv ==
  ASSUME IInv, PatInv, Broadcast \/ CbStep
  PROVE  PatInv'
  <1> USE ConstAssumption DEF PatInv, PatInParsing, BeforePat, localVars, deviceVars, flagVars,
                              rcVars
  <1> UNCHANGED <<isInitialized, filter>>
    BY DEF Broadcast, CbStep, CbFrame
  <1> DEFINE Pats == [count : 0..(NumPrograms + 1), filled : 0..(NumPrograms + 1)]
  <1>a. patTable \in Pats /\ patTable.count <= MaxPat /\ parsed \in Nat
    BY DEF IInv, TypeOK
  <1>b. section.table = "PAT" => EntriesOf(section) = NumPrograms + 1 /\ CapacityOf(section) = MaxPat
    BY DEF EntriesOf, CapacityOf
  <1>2. PatCounted'
    <2>1. CASE SectionArrives
      <3>1. cb' = "parsing" /\ section' = filter /\ parsed' = 0 /\ filter # NoFilter /\ sc' = sc
        BY <2>1 DEF SectionArrives
      <3>2. filter.table = "PAT" => patTable'.count = 0 /\ patTable'.filled = patTable.filled
        BY <2>1, <1>a DEF SectionArrives
      <3> QED
        BY <2>1, <1>a, <3>1, <3>2 DEF SectionArrives, PatCounted, NoFilter, PatFilter
    <2>2. CASE ParseEntry
      <3>1. section.table = "PAT"
              => /\ patTable'.count = parsed + 1
                 /\ patTable'.filled >= parsed + 1
                 /\ parsed < NumPrograms + 1
        BY <2>2, <1>a, <1>b DEF ParseEntry
      <3> QED
        BY <2>2, <1>a, <3>1 DEF ParseEntry, PatCounted
    <2>3. CASE ParseReturns
      BY <2>3, <1>a, <1>b DEF ParseReturns, PatCounted
    <2>4. CASE Signal
      BY <2>4 DEF Signal, PatCounted, Waits, Resume
    <2> QED
      BY <2>1, <2>2, <2>3, <2>4 DEF Broadcast, CbStep
  <1>3. PatStored'
    <2>1. CASE SectionArrives
      <3>1. /\ cb = "idle" /\ cb' = "parsing" /\ section' = filter /\ UNCHANGED sc
            /\ "slowScan" \in Faults \/ sc \notin UsingTable
        BY <2>1 DEF SectionArrives
      <3>2. patTable'.filled = patTable.filled
        BY <2>1, <1>a DEF SectionArrives
      <3>3. filter.table # "PAT" => patTable' = patTable
        BY <2>1 DEF SectionArrives
      <3>4. CASE filter.table # "PAT"
        BY <1>a, <3>1, <3>3, <3>4 DEF PatStored
      <3>5. CASE filter.table = "PAT"
        <4>1. isInitialized \/ sc \in BeforePat \cup Repeating \cup {"ended"}
          BY <3>1, <3>5, WhereRepeating DEF UsingTable, PatStored
        <4>2. PatInParsing'
          BY <3>1, <3>5
        <4> QED
          BY <1>a, <3>1, <3>2, <3>5, <4>1, <4>2 DEF PatStored
      <3> QED
        BY <3>4, <3>5
    <2>2. CASE ParseEntry
      BY <2>2 DEF ParseEntry, PatStored, PatCounted, IInv, TypeOK, EntriesOf
    <2>3. CASE ParseReturns
      BY <2>3, <1>a, <1>b DEF ParseReturns, PatStored, PatCounted
    <2>4. CASE Signal
      <3>1. sc \in BeforePat => /\ patTable.count = NumPrograms + 1
                                /\ patTable.filled = NumPrograms + 1
                                /\ MaxPat >= NumPrograms + 1
        BY <2>4, <1>a DEF Signal, PatCounted
      <3>2. UNCHANGED <<section, parsed, patTable>> /\ cb = "signal" /\ cb' = "idle"
        BY <2>4 DEF Signal
      <3>3. CASE sc = "waitPat" /\ sc' = "call"
        BY <3>1, <3>2, <3>3 DEF PatStored
      <3>4. CASE sc \in {"waitPmt", "waitEit"} /\ sc' \in {"scan", "freeEit"}
        BY <3>2, <3>4 DEF PatStored
      <3>5. CASE sc' = sc
        BY <3>2, <3>5 DEF PatStored
      <3> QED
        BY <2>4, <3>3, <3>4, <3>5 DEF Signal, Waits, Resume
    <2> QED
      BY <2>1, <2>2, <2>3, <2>4 DEF Broadcast, CbStep
  <1> QED
    BY <1>2, <1>3

LEMMA TaskKeepsPatInv ==
  ASSUME IInv, PatInv, ScStep, ~PatMayLinger
  PROVE  PatInv'
  <1> USE ConstAssumption DEF PatInv, PatInParsing, BeforePat, localVars, deviceVars, flagVars,
                              cbVars, rcVars
  <1> UNCHANGED <<cb, section, parsed, patTable>>
    BY DEF ScStep
  <1>r. PatMayLinger <=> {"slowScan", "lateCallback", "filterError"} \subseteq Faults
    BY DEF PatMayLinger
  <1>1. CASE ControlStep
    BY <1>1, <1>r, WhereRepeating DEF ControlStep, EnterWait, CheckExit, PollRequest, FilterFreed, CallbackReturned,
                FreeSites, AfterFree, AfterStart, SetFilterFails, ScanDone, KeepAudio,
                PatCounted, PatStored, NoFilter, PatFilter
  <1>2. CASE BringUp
    BY <1>2, WhereRepeating DEF BringUp, PatFilter, NoFilter, PatCounted, PatStored
  <1>3. CASE SetInitialized \/ ClearRequest \/ CallStartChannel
    BY <1>3, WhereRepeating DEF SetInitialized, ClearRequest, CallStartChannel, PatCounted, PatStored
  <1>4. CASE FreeFilter
    BY <1>4, WhereRepeating DEF FreeFilter, FreeSites, NoFilter, PatCounted, PatStored
  <1>5. CASE SetFilter
    BY <1>5, WhereRepeating DEF SetFilter, PmtFilter, EitFilter, PatCounted, PatStored
  <1>6. CASE ScanEntry \/ StoreChannel
    BY <1>6, WhereRepeating DEF ScanEntry, StoreChannel, PatCounted, PatStored
  <1>7. CASE SwitchVideo \/ SwitchToRadio \/ SwitchAudio
    BY <1>7, WhereRepeating DEF SwitchVideo, SwitchToRadio, SwitchAudio, PatCounted, PatStored
  <1> QED
    BY <1>1, <1>2, <1>3, <1>4, <1>5, <1>6, <1>7 DEF ScStep

LEMMA OthersKeepPatInv ==
  ASSUME IInv, PatInv, Key \/ RcStep \/ Exit \/ MainStep
  PROVE  PatInv'
  <1> USE DEF PatInv, PatInParsing, BeforePat, localVars, deviceVars, flagVars, cbVars, rcVars
  <1>1. UNCHANGED <<sc, cb, section, parsed, patTable>>
    BY DEF Key, RcStep, RcFrame, Exit, MainStep, MainFrame
  <1>2. filter' \in {filter, NoFilter}
    BY DEF Key, RcStep, RcFrame, Exit, MainStep, Deinit, JoinTask, ReleaseDevices, FreeTables
  <1>3. isInitialized' => isInitialized
    BY DEF Key, RcStep, RcFrame, Exit, MainStep, Deinit, JoinTask, ReleaseDevices, FreeTables
  <1> QED
    BY <1>1, <1>2, <1>3 DEF PatCounted, PatStored, NoFilter, PatFilter

LEMMA NextKeepsPatInv ==
  ASSUME IInv, PatInv, [Next]_vars, "spurious" \notin Faults, ~PatMayLinger
  PROVE  PatInv'
  <1>1. CASE Broadcast \/ CbStep
    BY <1>1, CallbackKeepsPatInv
  <1>2. CASE ScStep
    BY <1>2, TaskKeepsPatInv
  <1>3. CASE Key \/ RcStep \/ Exit \/ MainStep
    BY <1>3, OthersKeepPatInv
  <1>4. CASE UNCHANGED vars
    BY <1>4 DEF vars, localVars, deviceVars, flagVars, cbVars, rcVars, PatInv, PatInParsing,
                PatCounted, PatStored
  <1>5. ~Wakeup
    BY DEF Wakeup, SpuriousWakeup
  <1> QED
    BY <1>1, <1>2, <1>3, <1>4, <1>5 DEF Next, Ended

LEMMA PatInvariant ==
  ASSUME "spurious" \notin Faults, ~PatMayLinger
  PROVE  Spec => []PatInv
  <1>1. Init => PatInv
    BY ConstAssumption DEF Init, PatInv, BeforePat, PatInParsing, PatCounted, PatStored,
                           NoFilter, PatFilter
  <1>2. IInv /\ PatInv /\ [Next]_vars => PatInv'
    BY NextKeepsPatInv
  <1> QED
    BY <1>1, <1>2, IInvInvariant, PTL DEF Spec

(* What is selected is a program of the PAT.  It needs digits below the    *)
(* number of programs: promenaKanala lets a digit select NumPrograms.      *)
Selected == /\ programNumber \in 0..(NumPrograms - 1)
            /\ channelNumber \in 0..(NumPrograms - 1)

LEMMA NextKeepsSelected ==
  ASSUME PatInv, Selected, [Next]_vars, "earlyKey" \notin Faults,
         Digits \subseteq 0..(NumPrograms - 1)
  PROVE  Selected'
  <1> USE ConstAssumption DEF Selected, localVars, deviceVars, flagVars, cbVars, rcVars
  <1>1. CASE Key
    <2>1. channelNumber' = channelNumber
      BY <1>1 DEF Key, RcFrame
    <2>2. CASE KeyPressed
      <3>1. patTable.count = NumPrograms + 1 \/ PatInParsing
        BY <2>2 DEF KeyPressed, PatInv, PatStored
      <3>2. ~PatInParsing
        BY <2>2 DEF KeyPressed, PatInv, PatStored, BeforePat
      <3>3. CASE ChannelUp \/ ChannelDown
        BY <2>1, <3>1, <3>2, <3>3 DEF ChannelUp, ChannelDown, Select
      <3>4. ASSUME NEW d \in Digits, PromenaKanala(d) PROVE Selected'
        <4>1. d \in 0..(NumPrograms - 1)
          BY <3>4
        <4>2. programNumber' = d
          BY <3>4 DEF PromenaKanala, Select
        <4> QED
          BY <2>1, <4>1, <4>2
      <3>5. CASE KeyCrashes
        BY <2>1, <3>5 DEF KeyCrashes
      <3> QED
        BY <1>1, <3>3, <3>4, <3>5 DEF Key
    <2> QED
      BY <1>1, <2>2 DEF Key, ChannelUp, ChannelDown, PromenaKanala, Select, KeyCrashes
  <1>2. CASE CallStartChannel /\ UNCHANGED rcVars
    BY <1>2 DEF CallStartChannel
  <1>3. CASE UNCHANGED <<programNumber, channelNumber>>
    BY <1>3
  <1>4. CASE Broadcast \/ CbStep \/ Wakeup
    BY <1>3, <1>4 DEF Broadcast, CbStep, CbFrame, Wakeup
  <1>5. CASE ScStep
    BY <1>2, <1>3, <1>5 DEF ScStep, ControlStep, BringUp, SetInitialized, ClearRequest, FreeFilter,
                            SetFilter, ScanEntry, SwitchVideo, SwitchToRadio, SwitchAudio,
                            StoreChannel
  <1>6. CASE RcStep \/ Exit \/ MainStep
    BY <1>3, <1>6 DEF RcStep, RcFrame, RaiseRequest, GetChannelInfo, Exit, MainStep, MainFrame
  <1>7. CASE UNCHANGED vars
    BY <1>3, <1>7 DEF vars
  <1> QED
    BY <1>1, <1>4, <1>5, <1>6, <1>7 DEF Next, Ended

(* With digits below the number of programs the index is a program's, and  *)
(* so is the pid found there.                                              *)
ServiceInv == Selected /\ PmtFilterOfService

LEMMA NextKeepsServiceInv ==
  ASSUME PatInv, ServiceInv, [Next]_vars, "earlyKey" \notin Faults,
         Digits \subseteq 0..(NumPrograms - 1)
  PROVE  ServiceInv'
  <1> USE ConstAssumption DEF ServiceInv
  <1>1. Selected'
    BY NextKeepsSelected
  <1>2. filter' \in {filter, NoFilter, PatFilter, EitFilter} \/ SetFilter
    <2> USE DEF localVars, deviceVars, flagVars, cbVars, rcVars
    <2>1. CASE ScStep
      BY <2>1 DEF ScStep, ControlStep, BringUp, SetInitialized, ClearRequest, CallStartChannel,
                  FreeFilter, ScanEntry, SwitchVideo, SwitchToRadio, SwitchAudio, StoreChannel
    <2>2. CASE Broadcast \/ CbStep \/ Wakeup
      BY <2>2 DEF Broadcast, CbStep, CbFrame, Wakeup
    <2>3. CASE Key \/ RcStep
      BY <2>3 DEF Key, RcStep, RcFrame
    <2>4. CASE Exit \/ MainStep
      BY <2>4 DEF Exit, MainStep, Deinit, JoinTask, ReleaseDevices, FreeTables
    <2>5. CASE UNCHANGED vars
      BY <2>5 DEF vars
    <2> QED
      BY <2>1, <2>2, <2>3, <2>4, <2>5 DEF Next, Ended
  <1>3. CASE SetFilter
    <2>1. sc = "setPmt" => ServicePid(channelNumber + 1) \in Programs
      BY DEF PatInv, PatStored, BeforePat, Selected, ServicePid, Programs
    <2> QED
      BY <1>1, <1>3, <2>1 DEF SetFilter, PmtFilter, EitFilter, PmtFilterOfService
  <1> QED
    BY <1>1, <1>2, <1>3 DEF PmtFilterOfService, NoFilter, PatFilter, EitFilter

(* Every PMT filter is set for a program of the PAT, if the digit keys     *)
(* stay below the number of programs (the run sc_digit shows what the next *)
(* digit does), no key comes before the first channel, waits end only by a *)
(* signal, and the PAT does not linger: P+ and P- wrap inside the table,   *)
(* and no key meets a PAT that is half stored.                             *)
THEOREM FiltersNameServices ==
  ASSUME {"earlyKey", "spurious"} \cap Faults = {}, ~PatMayLinger,
         Digits \subseteq 0..(NumPrograms - 1)
  PROVE  Spec => []PmtFilterOfService
  <1>1. Init => ServiceInv
    BY ConstAssumption DEF Init, ServiceInv, Selected, PmtFilterOfService, NoFilter
  <1>2. PatInv /\ ServiceInv /\ [Next]_vars => ServiceInv'
    BY NextKeepsServiceInv
  <1>3. ServiceInv => PmtFilterOfService
    BY DEF ServiceInv
  <1>4. Spec => []PatInv
    BY PatInvariant
  <1> QED
    BY <1>1, <1>2, <1>3, <1>4, PTL DEF Spec
=============================================================================
