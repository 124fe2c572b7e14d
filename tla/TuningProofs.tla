---------------------------- MODULE TuningProofs ----------------------------
(* Theorems about what startChannel tunes to: the pids it publishes, the   *)
(* streams it plays, and that the controller implements ChannelSelector.   *)
(* Each names the faults it excludes; the others may occur.                *)
EXTENDS StreamControllerProofs

-----------------------------------------------------------------------------
(* The PMT scan                                                            *)

(* What a scan of the first n streams finds of a kind: NoStream, or the    *)
(* pid of the first of them.                                               *)
FoundIn(streams, n, kind, pid) ==
  \/ pid = NoStream /\ \A k \in 1..n : streams[k].kind # kind
  \/ \E k \in 1..n : /\ streams[k].kind = kind
                     /\ streams[k].pid = pid
                     /\ \A j \in 1..(k - 1) : streams[j].kind # kind

TeletextIn(streams, n) == \E k \in 1..n : streams[k].kind = "teletext"

(* The locals of startChannel after n turns of its loop over those streams.*)
Scanned(streams, n) ==
  /\ scan.i = n
  /\ FoundIn(streams, n, "audio", scan.audioPid)
  /\ FoundIn(streams, n, "video", scan.videoPid)
  /\ scan.teletekst = TeletextIn(streams, n)

(* The first n entries of pmtTable are those streams', and it counts no    *)
(* more.                                                                   *)
Holds(streams, n) ==
  /\ n <= Len(streams)
  /\ pmtTable.count = n
  /\ \A k \in 1..n : pmtTable.array[k] = streams[k]

(* One more stream: the loop keeps the pid it has, or takes the stream's.  *)
LEMMA FoundOneMore ==
  ASSUME NEW streams \in Seq(Streams), NEW n \in Nat, n < Len(streams),
         NEW kind, NEW pid, FoundIn(streams, n, kind, pid)
  PROVE  LET e == streams[n + 1]
         IN  FoundIn(streams, n + 1, kind, IF e.kind = kind /\ pid = NoStream THEN e.pid ELSE pid)
  <1> DEFINE e == streams[n + 1]
  <1>1. CASE pid = NoStream /\ \A k \in 1..n : streams[k].kind # kind
    <2>1. CASE e.kind = kind
      BY <1>1, <2>1 DEF FoundIn
    <2>2. CASE e.kind # kind
      BY <1>1, <2>2 DEF FoundIn
    <2> QED
      BY <2>1, <2>2
  <1>2. ASSUME NEW k \in 1..n, streams[k].kind = kind, streams[k].pid = pid,
               \A j \in 1..(k - 1) : streams[j].kind # kind
        PROVE  FoundIn(streams, n + 1, kind, IF e.kind = kind /\ pid = NoStream THEN e.pid ELSE pid)
    <2>1. k \in 1..Len(streams) /\ k \in 1..(n + 1)
      OBVIOUS
    <2>2. streams[k] \in Streams
      BY <2>1
    <2>3. pid # NoStream
      BY <1>2, <2>2 DEF Streams, NoStream
    <2> QED
      BY <1>2, <2>1, <2>3 DEF FoundIn
  <1> QED
    BY <1>1, <1>2 DEF FoundIn

LEMMA TeletextOneMore ==
  ASSUME NEW streams, NEW n \in Nat
  PROVE  TeletextIn(streams, n + 1) <=> (TeletextIn(streams, n) \/ streams[n + 1].kind = "teletext")
  BY DEF TeletextIn

(* After the last turn the locals are what the PMT says of the channel.    *)
LEMMA FoundIsFirst ==
  ASSUME NEW streams \in Seq(Streams), NEW kind, NEW pid,
         FoundIn(streams, Len(streams), kind, pid)
  PROVE  pid = FirstPid(streams, kind)
  <1> DEFINE found == {k \in DOMAIN streams : streams[k].kind = kind}
  <1>1. DOMAIN streams = 1..Len(streams) /\ Len(streams) \in Nat
    OBVIOUS
  <1>2. CASE pid = NoStream /\ \A k \in 1..Len(streams) : streams[k].kind # kind
    <2>1. found = {}
      BY <1>1, <1>2
    <2> QED
      BY <1>2, <2>1 DEF FirstPid
  <1>3. ASSUME NEW k \in 1..Len(streams), streams[k].kind = kind, streams[k].pid = pid,
               \A j \in 1..(k - 1) : streams[j].kind # kind
        PROVE  pid = FirstPid(streams, kind)
    <2> DEFINE Least(l) == l \in found /\ \A j \in found : l <= j
    <2>1. Least(k)
      BY <1>1, <1>3
    <2>2. ASSUME NEW l, Least(l) PROVE l = k
      BY <1>1, <2>1, <2>2
    <2>3. (CHOOSE l \in found : \A j \in found : l <= j) = k
      BY <2>1, <2>2
    <2> QED
      BY <1>3, <2>1, <2>3 DEF FirstPid
  <1> QED
    BY <1>2, <1>3 DEF FoundIn

Waiting   == {"enterPmt", "waitPmt"}
Storing   == {"storeAudio", "storeVideo", "storeTeletekst"}
Switching == {"video", "audio", "storeNumber"} \cup Storing

(* The PMT of the channel that is being tuned.                             *)
Listed == Pmt[channelNumber + 1]

(* Before a filter is set nothing can be delivered; from then until the    *)
(* task wakes only sections of the channel's PMT are handled.              *)
OnlyChannelsPmt ==
  /\ sc \in {"setPmt", "setEit"} => filter = NoFilter /\ cb = "idle"
  /\ sc \in Waiting => /\ filter.table = "PMT"
                       /\ filter.pid \in {NoPid, channelNumber + 1}
                       /\ cb # "idle" => section = filter

(* A PMT is parsed entry by entry over the last one, and signalled when it *)
(* is complete.                                                            *)
PmtParsed ==
  cb # "idle" /\ section.table = "PMT"
    => /\ section.pid \in Programs
       /\ Holds(Pmt[section.pid], parsed)
       /\ cb = "signal" => parsed = Len(Pmt[section.pid])

(* The scan reads the complete table, which nothing changes meanwhile.     *)
PmtScanned ==
  /\ sc \in {"freePrev", "setPmt"} \cup Waiting => scan = ScanStart
  /\ sc \in {"scan"} \cup Switching => cb = "idle" /\ channelNumber + 1 \in Programs
  /\ sc = "scan" => /\ Holds(Listed, Len(Listed))
                    /\ scan.i <= Len(Listed)
                    /\ Scanned(Listed, scan.i)
  /\ sc \in Switching => Scanned(Listed, Len(Listed))

(* currentChannel is torn only between the first and the last of the four  *)
(* assignments, and then it agrees with the scan as far as they went.      *)
Published ==
  /\ sc \in Storing => currentChannel.programNumber = channelNumber + 1
  /\ sc \in {"storeVideo", "storeTeletekst"} => currentChannel.audioPid = scan.audioPid
  /\ sc = "storeTeletekst" => currentChannel.videoPid = scan.videoPid
  /\ sc \notin Storing /\ currentChannel.programNumber \in Programs
       => currentChannel = InfoOf(currentChannel.programNumber)

TuningInv == OnlyChannelsPmt /\ PmtParsed /\ PmtScanned /\ Published

(* The player follows the scan while startChannel switches, and the        *)
(* published channel otherwise.                                            *)
VideoFollows(pid) == streamHandleV = Playing(pid) /\ ispisRadio = (pid = NoStream)

PlayInv ==
  /\ IF sc \in Switching \ {"video"} THEN VideoFollows(scan.videoPid)
                                     ELSE VideoFollows(currentChannel.videoPid)
  /\ streamHandleA = IF sc \in Switching \ {"video", "audio"} THEN Playing(scan.audioPid)
                                                              ELSE Playing(currentChannel.audioPid)

-----------------------------------------------------------------------------
(* The pids of the tuned channel                                           *)

LEMMA CallbackKeepsTuning ==
  ASSUME IInv, TuningInv, Broadcast \/ CbStep, "slowScan" \notin Faults
  PROVE  TuningInv'
  <1> USE ConstAssumption DEF TuningInv, localVars
  <1> UNCHANGED <<channelNumber, scan, currentChannel, filter>>
    BY DEF Broadcast, CbStep, CbFrame
  <1> DEFINE streams == Pmt[section.pid]
  <1>1. parsed \in Nat /\ pmtTable \in [count : 0..MaxPmt, array : [1..MaxPmt -> Streams \cup {ZeroStream}]]
    BY DEF IInv, TypeOK
  <1>2. CASE SectionArrives
    <2>1. cb' = "parsing" /\ section' = filter /\ parsed' = 0 /\ sc' = sc /\ cb = "idle"
      BY <1>2 DEF SectionArrives
    <2>2. sc \notin UsingTable
      BY <1>2 DEF SectionArrives
    <2>3. filter.table = "PMT" => filter.pid \in Programs /\ Holds(Pmt[filter.pid], 0)'
      <3>1. ASSUME filter.table = "PMT" PROVE pmtTable'.count = 0
        BY <1>1, <1>2, <3>1 DEF SectionArrives
      <3>2. ASSUME filter.table = "PMT" PROVE filter.pid \in Programs
        BY <1>2, <3>2 DEF SectionArrives
      <3>3. ASSUME filter.table = "PMT" PROVE Len(Pmt[filter.pid]) \in Nat
        BY <3>2, <3>3
      <3> QED
        BY <3>1, <3>2, <3>3 DEF Holds
    <2>4. OnlyChannelsPmt'
      BY <1>2, <2>1 DEF OnlyChannelsPmt, SectionArrives
    <2>5. PmtParsed'
      BY <2>1, <2>3 DEF PmtParsed
    <2>6. PmtScanned' /\ Published'
      BY <2>1, <2>2 DEF PmtScanned, Published, UsingTable, Waiting, Switching, Storing
    <2> QED
      BY <2>4, <2>5, <2>6
  <1>3. CASE ParseEntry
    <2>1. UNCHANGED <<sc, cb, section>> /\ cb = "parsing"
      BY <1>3 DEF ParseEntry
    <2>2. section.table = "PMT" => Holds(streams, parsed)' /\ parsed' = parsed + 1
      <3> SUFFICES ASSUME section.table = "PMT" PROVE Holds(streams, parsed)' /\ parsed' = parsed + 1
        OBVIOUS
      <3>1. parsed < Len(streams) /\ parsed < MaxPmt /\ parsed' = parsed + 1
        BY <1>3 DEF ParseEntry, EntriesOf, CapacityOf
      <3>2. pmtTable' = [count |-> parsed + 1,
                         array |-> [pmtTable.array EXCEPT ![parsed + 1] = streams[parsed + 1]]]
        BY <1>3 DEF ParseEntry
      <3>3. Holds(streams, parsed) /\ Len(streams) \in Nat
        BY <2>1 DEF PmtParsed
      <3>4. \A k \in 1..(parsed + 1) : pmtTable'.array[k] = streams[k]
        BY <1>1, <3>1, <3>2, <3>3 DEF Holds
      <3> QED
        BY <1>1, <2>1, <3>1, <3>2, <3>3, <3>4 DEF Holds
    <2>3. OnlyChannelsPmt' /\ Published'
      BY <2>1 DEF OnlyChannelsPmt, Published
    <2>4. PmtParsed'
      BY <2>1, <2>2 DEF PmtParsed
    <2>5. PmtScanned'
      BY <2>1 DEF PmtScanned, Scanned, Switching
    <2> QED
      BY <2>3, <2>4, <2>5
  <1>4. CASE ParseReturns
    <2>1. UNCHANGED <<sc, section, parsed, pmtTable>> /\ cb = "parsing"
      BY <1>4 DEF ParseReturns
    <2>2. PmtParsed'
      <3>1. cb' = "signal" /\ section.table = "PMT" => parsed >= Len(streams)
        BY <1>4 DEF ParseReturns, EntriesOf
      <3> QED
        BY <1>1, <2>1, <3>1 DEF PmtParsed, Holds
    <2>3. OnlyChannelsPmt' /\ Published'
      BY <2>1 DEF OnlyChannelsPmt, Published
    <2>4. PmtScanned'
      BY <2>1 DEF PmtScanned, Switching
    <2> QED
      BY <2>2, <2>3, <2>4
  <1>5. CASE Signal
    <2>1. UNCHANGED <<section, parsed, pmtTable>> /\ cb = "signal" /\ cb' = "idle"
      BY <1>5 DEF Signal
    <2>2. PmtParsed'
      BY <2>1 DEF PmtParsed
    <2>3. OnlyChannelsPmt' /\ Published'
      BY <1>5, <2>1 DEF Signal, Waits, Resume, OnlyChannelsPmt, Published, Waiting, Storing
    <2>4. CASE sc # "waitPmt"
      BY <1>5, <2>1, <2>2, <2>3, <2>4 DEF Signal, Waits, Resume, PmtScanned, Waiting, Switching, Storing
    <2>5. CASE sc = "waitPmt"
      <3>1. sc' = "scan"
        BY <1>5, <2>5 DEF Signal, Waits, Resume
      <3>2. section.table = "PMT" /\ section.pid \in {NoPid, channelNumber + 1}
        BY <2>1, <2>5 DEF OnlyChannelsPmt, Waiting
      <3>3. channelNumber + 1 \in Programs /\ Holds(Listed, Len(Listed))
        BY <2>1, <3>2 DEF PmtParsed, Programs, NoPid, Listed
      <3>4. scan = ScanStart
        BY <2>5 DEF PmtScanned, Waiting
      <3>5. Scanned(Listed, 0)
        BY <3>4 DEF Scanned, ScanStart, FoundIn, TeletextIn
      <3>6. Len(Listed) \in Nat
        BY <3>3 DEF Listed
      <3>7. scan.i = 0
        BY <3>4 DEF ScanStart
      <3> QED
        BY <2>1, <2>2, <2>3, <3>1, <3>3, <3>5, <3>6, <3>7
        DEF PmtScanned, Waiting, Switching, Storing, Holds, Scanned, Listed
    <2> QED
      BY <2>2, <2>3, <2>4, <2>5
  <1> QED
    BY <1>2, <1>3, <1>4, <1>5 DEF Broadcast, CbStep

LEMMA TaskKeepsTuning ==
  ASSUME IInv, TuningInv, ScStep, "lateCallback" \notin Faults
  PROVE  TuningInv'
  <1> USE ConstAssumption DEF TuningInv, localVars, deviceVars, flagVars, cbVars, rcVars,
                              Waiting, Switching, Storing
  <1> UNCHANGED <<cb, section, parsed, patTable, pmtTable>>
    BY DEF ScStep
  <1>p. PmtParsed'
    BY DEF PmtParsed, Holds
  <1>1. CASE ControlStep
    <2> UNCHANGED <<channelNumber, scan, currentChannel, filter>>
      BY <1>1 DEF ControlStep
    <2>1. CASE EnterWait \/ CheckExit \/ PollRequest \/ SetFilterFails \/ KeepAudio
      BY <1>p, <2>1 DEF EnterWait, CheckExit, PollRequest, SetFilterFails, AfterStart, KeepAudio,
                        OnlyChannelsPmt, PmtScanned, Scanned, Listed, Published
    <2>2. CASE FilterFreed
      BY <1>p, <2>2 DEF FilterFreed, FreeSites, AfterFree, AfterStart, CallbackReturned,
                        OnlyChannelsPmt, PmtScanned, Published
    <2>3. CASE ScanDone
      <3>1. scan.i \in Nat /\ scan.i >= pmtTable.count /\ sc = "scan" /\ sc' = "video"
        BY <2>3 DEF ScanDone, IInv, TypeOK
      <3>2. /\ Holds(Listed, Len(Listed)) /\ scan.i <= Len(Listed) /\ Scanned(Listed, scan.i)
            /\ channelNumber + 1 \in Programs
        BY <3>1 DEF PmtScanned
      <3>3. Len(Listed) \in Nat
        BY <3>2 DEF Listed
      <3>4. scan.i = Len(Listed)
        BY <3>1, <3>2, <3>3 DEF Holds
      <3>5. Scanned(Listed, Len(Listed))
        BY <3>2, <3>4
      <3>6. Scanned(Listed, Len(Listed))'
        BY <3>5 DEF Scanned, Listed
      <3> QED
        BY <1>p, <3>1, <3>6 DEF OnlyChannelsPmt, PmtScanned, Published
    <2> QED
      BY <1>1, <2>1, <2>2, <2>3 DEF ControlStep
  <1>2. CASE BringUp \/ SetInitialized \/ ClearRequest \/ FreeFilter
    <2>1. UNCHANGED <<channelNumber, scan, currentChannel>>
      BY <1>2 DEF BringUp, SetInitialized, ClearRequest, FreeFilter
    <2>2. /\ sc \notin {"setPmt", "setEit"} \cup Waiting
          /\ sc' \notin {"setPmt", "setEit"} \cup Waiting
      BY <1>2 DEF BringUp, SetInitialized, ClearRequest, FreeFilter, FreeSites
    <2>3. /\ sc' \notin {"scan"} \cup Switching
          /\ sc \notin Storing
          /\ sc' \in {"freePrev"} => sc' = sc
      BY <1>2 DEF BringUp, SetInitialized, ClearRequest, FreeFilter, FreeSites
    <2> QED
      BY <1>p, <2>1, <2>2, <2>3 DEF OnlyChannelsPmt, PmtScanned, Published
  <1>3. CASE CallStartChannel
    BY <1>p, <1>3 DEF CallStartChannel, OnlyChannelsPmt, PmtScanned, Published
  <1>4. CASE SetFilter
    <2>1. ServicePid(channelNumber + 1) \in {NoPid, channelNumber + 1}
      BY DEF ServicePid
    <2> QED
      BY <1>p, <1>4, <2>1 DEF SetFilter, PmtFilter, OnlyChannelsPmt, PmtScanned, Published
  <1>5. CASE ScanEntry
    <2> DEFINE n == scan.i
               e == Listed[n + 1]
               First(kind, pid) == IF e.kind = kind /\ pid = NoStream THEN e.pid ELSE pid
    <2>1. /\ sc = "scan" /\ n < pmtTable.count /\ n \in Nat
          /\ UNCHANGED <<sc, channelNumber, currentChannel, filter>>
      BY <1>5 DEF ScanEntry, IInv, TypeOK
    <2>2. /\ channelNumber + 1 \in Programs
          /\ Holds(Listed, Len(Listed))
          /\ Scanned(Listed, n)
      BY <2>1 DEF PmtScanned
    <2>3. Listed \in Seq(Streams) /\ Len(Listed) \in Nat
      BY <2>2 DEF Listed
    <2>4. n < Len(Listed) /\ pmtTable.array[n + 1] = e
      <3>1. pmtTable.count = Len(Listed)
        BY <2>2 DEF Holds
      <3>2. n < Len(Listed) /\ n + 1 \in 1..Len(Listed)
        BY <2>1, <2>3, <3>1
      <3> QED
        BY <2>2, <3>2 DEF Holds
    <2>5. scan' = [i |-> n + 1, audioPid |-> First("audio", scan.audioPid),
                   videoPid |-> First("video", scan.videoPid),
                   teletekst |-> scan.teletekst \/ e.kind = "teletext"]
      BY <1>5, <2>4 DEF ScanEntry
    <2>6. /\ FoundIn(Listed, n + 1, "audio", First("audio", scan.audioPid))
          /\ FoundIn(Listed, n + 1, "video", First("video", scan.videoPid))
      BY <2>1, <2>2, <2>3, <2>4, FoundOneMore DEF Scanned
    <2>7. (scan.teletekst \/ e.kind = "teletext") = TeletextIn(Listed, n + 1)
      BY <2>1, <2>2, TeletextOneMore DEF Scanned, TeletextIn
    <2>8. Listed' = Listed
      BY <2>1 DEF Listed
    <2>9. Scanned(Listed, scan.i)' /\ scan'.i <= Len(Listed)
      BY <2>1, <2>3, <2>4, <2>5, <2>6, <2>7, <2>8 DEF Scanned
    <2>10. PmtScanned'
      BY <2>1, <2>2, <2>8, <2>9 DEF PmtScanned, Holds
    <2> QED
      BY <1>p, <2>1, <2>10 DEF OnlyChannelsPmt, Published
  <1>6. CASE SwitchVideo \/ SwitchToRadio \/ SwitchAudio
    <2>1. UNCHANGED <<channelNumber, scan, currentChannel, filter>>
      BY <1>6 DEF SwitchVideo, SwitchToRadio, SwitchAudio
    <2>2. sc \in {"video", "audio"} /\ sc' \in {"audio", "storeNumber"}
      BY <1>6 DEF SwitchVideo, SwitchToRadio, SwitchAudio
    <2> QED
      BY <1>p, <2>1, <2>2 DEF OnlyChannelsPmt, PmtScanned, Scanned, Listed, Published
  <1>7. CASE StoreChannel
    <2>1. UNCHANGED <<channelNumber, scan, filter>>
      BY <1>7 DEF StoreChannel
    <2>2. currentChannel \in Info
      BY DEF IInv, TypeOK
    <2>3. sc \in {"storeNumber"} \cup Storing /\ sc' \in Storing \cup {"freePmt"}
      BY <1>7 DEF StoreChannel
    <2>4. OnlyChannelsPmt' /\ PmtScanned'
      BY <2>1, <2>3 DEF OnlyChannelsPmt, PmtScanned, Scanned, Listed
    <2>5. Published'
      <3>1. CASE sc = "storeNumber"
        BY <1>7, <2>1, <2>2, <3>1 DEF StoreChannel, Published, Info
      <3>2. CASE sc = "storeAudio"
        BY <1>7, <2>1, <2>2, <3>2 DEF StoreChannel, Published, Info
      <3>3. CASE sc = "storeVideo"
        BY <1>7, <2>1, <2>2, <3>3 DEF StoreChannel, Published, Info
      <3>4. CASE sc = "storeTeletekst"
        <4> DEFINE p == channelNumber + 1
        <4>1. /\ currentChannel.programNumber = p
              /\ currentChannel.audioPid = scan.audioPid
              /\ currentChannel.videoPid = scan.videoPid
          BY <3>4 DEF Published
        <4>2. sc' = "freePmt" /\ currentChannel' = [currentChannel EXCEPT !.teletekst = scan.teletekst]
          BY <1>7, <3>4 DEF StoreChannel
        <4>3. Scanned(Pmt[p], Len(Pmt[p])) /\ p \in Programs
          BY <3>4 DEF PmtScanned, Listed
        <4>4. Pmt[p] \in Seq(Streams)
          BY <4>3
        <4>5. /\ scan.audioPid = FirstPid(Pmt[p], "audio")
              /\ scan.videoPid = FirstPid(Pmt[p], "video")
          BY <4>3, <4>4, FoundIsFirst DEF Scanned
        <4>6. scan.teletekst = (\E k \in DOMAIN Pmt[p] : Pmt[p][k].kind = "teletext")
          BY <4>3, <4>4 DEF Scanned, TeletextIn
        <4>7. currentChannel' = InfoOf(p)
          BY <2>2, <4>1, <4>2, <4>5, <4>6 DEF InfoOf, Info
        <4>8. currentChannel'.programNumber = p
          BY <4>7 DEF InfoOf
        <4> QED
          BY <4>2, <4>7, <4>8 DEF Published
      <3> QED
        BY <2>3, <3>1, <3>2, <3>3, <3>4
    <2> QED
      BY <1>p, <2>4, <2>5
  <1> QED
    BY <1>1, <1>2, <1>3, <1>4, <1>5, <1>6, <1>7 DEF ScStep

LEMMA OthersKeepTuning ==
  ASSUME IInv, TuningInv, Key \/ RcStep \/ Exit \/ MainStep
  PROVE  TuningInv'
  <1>1. UNCHANGED <<sc, channelNumber, scan, currentChannel, cb, section, parsed, pmtTable>>
    BY DEF Key, RcStep, RcFrame, Exit, MainStep, MainFrame, localVars, cbVars
  <1>2. filter' = filter \/ sc = "ended"
    BY DEF Key, RcStep, RcFrame, Exit, MainStep, Deinit, JoinTask, ReleaseDevices, FreeTables,
           IInv, TaskJoined
  <1>3. (PmtParsed /\ PmtScanned /\ Published)'
    BY <1>1 DEF TuningInv, PmtParsed, PmtScanned, Published, Holds, Scanned, Listed
  <1>4. OnlyChannelsPmt'
    BY <1>1, <1>2 DEF TuningInv, OnlyChannelsPmt, Waiting
  <1> QED
    BY <1>3, <1>4 DEF TuningInv

LEMMA NextKeepsTuning ==
  ASSUME IInv, TuningInv, [Next]_vars,
         {"slowScan", "spurious", "lateCallback"} \cap Faults = {}
  PROVE  TuningInv'
  <1>1. CASE Broadcast \/ CbStep
    BY <1>1, CallbackKeepsTuning
  <1>2. CASE ScStep
    BY <1>2, TaskKeepsTuning
  <1>3. CASE Key \/ RcStep \/ Exit \/ MainStep
    BY <1>3, OthersKeepTuning
  <1>4. CASE UNCHANGED vars
    BY <1>4 DEF vars, localVars, cbVars, TuningInv, OnlyChannelsPmt, PmtParsed, PmtScanned,
                Published, Holds, Scanned, Listed
  <1>5. ~Wakeup
    BY DEF Wakeup, SpuriousWakeup
  <1> QED
    BY <1>1, <1>2, <1>3, <1>4, <1>5 DEF Next, Ended

LEMMA TuningInvariant ==
  ASSUME {"slowScan", "spurious", "lateCallback"} \cap Faults = {}
  PROVE  Spec => []TuningInv
  <1>1. Init => TuningInv
    BY DEF Init, TuningInv, OnlyChannelsPmt, PmtParsed, PmtScanned, Published, Waiting,
           Switching, Storing, ZeroInfo, Programs
  <1>2. IInv /\ TuningInv /\ [Next]_vars => TuningInv'
    BY NextKeepsTuning
  <1> QED
    BY <1>1, <1>2, IInvInvariant, PTL DEF Spec

(* Every channel is published with the pids and the teletext flag of its   *)
(* own PMT, completely parsed, whatever was in pmtTable before and however *)
(* often the task is woken by other tables: provided that no section       *)
(* repeats while its table is scanned (sc_scan shows what it does then),   *)
(* and that waits and frees return when they should.                       *)
THEOREM PublishesOwnPmt ==
  ASSUME {"slowScan", "spurious", "lateCallback"} \cap Faults = {}
  PROVE  Spec => []PidsOfTunedChannel
  <1>1. TuningInv => PidsOfTunedChannel
    BY DEF TuningInv, Published, PidsOfTunedChannel, Storing
  <1> QED
    BY <1>1, TuningInvariant, PTL

-----------------------------------------------------------------------------
(* The streams of the tuned channel                                        *)

HasAudio(p) == \E k \in DOMAIN Pmt[p] : Pmt[p][k].kind = "audio"

LEMMA AudioFound ==
  ASSUME NEW streams \in Seq(Streams), NEW pid, FoundIn(streams, Len(streams), "audio", pid),
         \E k \in DOMAIN streams : streams[k].kind = "audio"
  PROVE  pid # NoStream
  <1>1. ASSUME NEW k \in 1..Len(streams) PROVE streams[k].pid # NoStream
    <2>1. streams[k] \in Streams
      OBVIOUS
    <2> QED
      BY <2>1 DEF Streams, NoStream
  <1>2. DOMAIN streams = 1..Len(streams)
    OBVIOUS
  <1> QED
    BY <1>1, <1>2 DEF FoundIn

LEMMA TaskKeepsPlaying ==
  ASSUME IInv, TuningInv, PlayInv, ScStep, "streamError" \notin Faults,
         \A p \in Programs : HasAudio(p)
  PROVE  PlayInv'
  <1> USE DEF PlayInv, VideoFollows, localVars, deviceVars, flagVars, Switching, Storing
  <1>1. CASE ControlStep
    <2> UNCHANGED <<scan, currentChannel, streamHandleV, streamHandleA, ispisRadio>>
      BY <1>1 DEF ControlStep
    <2>1. CASE KeepAudio
      <3>1. /\ channelNumber + 1 \in Programs
            /\ FoundIn(Listed, Len(Listed), "audio", NoStream)
        BY <2>1 DEF KeepAudio, TuningInv, PmtScanned, Scanned
      <3>2. HasAudio(channelNumber + 1)
        BY <3>1
      <3>3. Listed \in Seq(Streams)
        BY <3>1, ConstAssumption DEF Listed
      <3> QED
        BY <3>1, <3>2, <3>3, AudioFound DEF HasAudio, Listed
    <2>2. CASE EnterWait \/ CheckExit \/ PollRequest \/ FilterFreed \/ SetFilterFails \/ ScanDone
      <3>1. sc \notin Switching \ {"video"} /\ sc' \notin Switching \ {"video"}
        BY <2>2 DEF EnterWait, CheckExit, PollRequest, FilterFreed, FreeSites, AfterFree,
                    AfterStart, SetFilterFails, ScanDone
      <3> QED
        BY <3>1
    <2> QED
      BY <1>1, <2>1, <2>2 DEF ControlStep
  <1>2. CASE BringUp \/ SetInitialized \/ ClearRequest \/ FreeFilter
    <2>1. UNCHANGED <<scan, currentChannel, streamHandleV, streamHandleA, ispisRadio>>
      BY <1>2 DEF BringUp, SetInitialized, ClearRequest, FreeFilter
    <2>2. sc \notin Switching /\ sc' \notin Switching
      BY <1>2 DEF BringUp, SetInitialized, ClearRequest, FreeFilter, FreeSites
    <2> QED
      BY <2>1, <2>2
  <1>3. CASE CallStartChannel \/ SetFilter \/ ScanEntry
    <2>1. UNCHANGED <<currentChannel, streamHandleV, streamHandleA, ispisRadio>>
      BY <1>3 DEF CallStartChannel, SetFilter, ScanEntry
    <2>2. sc \notin Switching /\ sc' \notin Switching
      BY <1>3 DEF CallStartChannel, SetFilter, ScanEntry
    <2> QED
      BY <2>1, <2>2
  <1>4. CASE SwitchVideo
    <2>1. /\ sc = "video" /\ sc' = "audio" /\ ispisRadio' = FALSE /\ scan.videoPid # NoStream
          /\ streamHandleV' = scan.videoPid
          /\ UNCHANGED <<scan, currentChannel, streamHandleA>>
      BY <1>4 DEF SwitchVideo, CreateResults
    <2> QED
      BY <2>1 DEF Playing
  <1>5. CASE SwitchToRadio
    BY <1>5 DEF SwitchToRadio, Playing
  <1>6. CASE SwitchAudio
    <2>1. /\ sc = "audio" /\ sc' = "storeNumber" /\ scan.audioPid # NoStream
          /\ streamHandleA' = scan.audioPid
          /\ UNCHANGED <<scan, currentChannel, streamHandleV, ispisRadio>>
      BY <1>6 DEF SwitchAudio, CreateResults
    <2> QED
      BY <2>1 DEF Playing
  <1>7. CASE StoreChannel
    <2>1. /\ UNCHANGED <<scan, streamHandleV, streamHandleA, ispisRadio>>
          /\ sc \in {"storeNumber"} \cup Storing /\ sc' \in Storing \cup {"freePmt"}
      BY <1>7 DEF StoreChannel
    <2>2. CASE sc' \in Storing
      BY <2>1, <2>2
    <2>3. CASE sc' = "freePmt"
      <3>1. /\ currentChannel.audioPid = scan.audioPid
            /\ currentChannel.videoPid = scan.videoPid
            /\ currentChannel' = [currentChannel EXCEPT !.teletekst = scan.teletekst]
            /\ sc = "storeTeletekst"
        BY <1>7, <2>3 DEF StoreChannel, TuningInv, Published
      <3>2. currentChannel'.audioPid = scan.audioPid /\ currentChannel'.videoPid = scan.videoPid
        BY <3>1 DEF IInv, TypeOK, Info
      <3> QED
        BY <2>1, <2>3, <3>1, <3>2
    <2> QED
      BY <2>1, <2>2, <2>3
  <1> QED
    BY <1>1, <1>2, <1>3, <1>4, <1>5, <1>6, <1>7 DEF ScStep

LEMMA NextKeepsPlaying ==
  ASSUME IInv, TuningInv, PlayInv, [Next]_vars,
         {"slowScan", "spurious", "lateCallback", "streamError"} \cap Faults = {},
         \A p \in Programs : HasAudio(p)
  PROVE  PlayInv'
  <1>1. CASE ScStep
    BY <1>1, TaskKeepsPlaying
  <1>2. CASE Signal /\ CbFrame
    BY <1>2 DEF Signal, CbFrame, localVars, deviceVars, Waits, Resume, PlayInv, VideoFollows,
                Switching, Storing
  <1>3. ASSUME UNCHANGED <<sc, scan, currentChannel, streamHandleV, streamHandleA, ispisRadio>>
        PROVE  PlayInv'
    BY <1>3 DEF PlayInv, VideoFollows
  <1>4. CASE Broadcast \/ (CbStep /\ ~Signal)
    BY <1>3, <1>4 DEF Broadcast, CbStep, SectionArrives, ParseEntry, ParseReturns, CbFrame,
                      localVars, deviceVars
  <1>5. CASE Key \/ RcStep
    BY <1>3, <1>5 DEF Key, RcStep, RcFrame, localVars, deviceVars
  <1>6. CASE Exit \/ MainStep
    BY <1>3, <1>6 DEF Exit, MainStep, MainFrame, localVars
  <1>7. CASE UNCHANGED vars
    BY <1>3, <1>7 DEF vars, localVars, deviceVars
  <1>8. ~Wakeup
    BY DEF Wakeup, SpuriousWakeup
  <1> QED
    BY <1>1, <1>2, <1>4, <1>5, <1>6, <1>7, <1>8 DEF Next, Ended, CbStep

(* When the task polls, the player plays the video and the audio of the    *)
(* channel that is announced, and the radio screen is up exactly if it has *)
(* no video: for every transport stream whose programs all have audio (the *)
(* run sc_silent shows a program without), if streams can be created and   *)
(* the faults that disturb the scan do not occur.                          *)
THEOREM PlaysWhatItPublishes ==
  ASSUME {"slowScan", "spurious", "lateCallback", "streamError"} \cap Faults = {},
         \A p \in Programs : HasAudio(p)
  PROVE  Spec => []PlaysTunedChannel
  <1>1. Init => PlayInv
    <2> SUFFICES ASSUME Init PROVE PlayInv
      OBVIOUS
    <2>1. sc \notin Switching
      BY DEF Init, Switching, Storing
    <2>2. streamHandleV = 0 /\ streamHandleA = 0 /\ ispisRadio = FALSE
      BY DEF Init, NoPid
    <2>3. currentChannel.videoPid = 0 /\ currentChannel.audioPid = 0
      BY DEF Init, ZeroInfo
    <2>4. Playing(0) = 0 /\ (0 = NoStream) = FALSE
      BY DEF Playing, NoStream
    <2> QED
      BY <2>1, <2>2, <2>3, <2>4 DEF PlayInv, VideoFollows
  <1>2. IInv /\ TuningInv /\ PlayInv /\ [Next]_vars => PlayInv'
    BY NextKeepsPlaying
  <1>3. PlayInv => PlaysTunedChannel
    BY DEF PlayInv, VideoFollows, PlaysTunedChannel, Switching, Storing
  <1>4. Spec => []TuningInv
    BY TuningInvariant
  <1> QED
    BY <1>1, <1>2, <1>3, <1>4, IInvInvariant, PTL DEF Spec

-----------------------------------------------------------------------------
(* Channel selection: StreamController implements ChannelSelector.         *)

SelectorView == <<programNumber, IF StartingChannel THEN channelNumber ELSE -1,
                  currentChannel.programNumber - 1, main = "running">>

(* A step that neither calls startChannel nor stores a channel is a stutter*)
(* of the task.                                                            *)
LEMMA TaskSimulates ==
  ASSUME IInv, Selected, ScStep, "filterError" \notin Faults
  PROVE  Selector!Begin \/ Selector!Finish \/ UNCHANGED SelectorView
  <1> USE DEF SelectorView, StartingChannel, localVars, deviceVars, flagVars, rcVars
  <1> UNCHANGED <<programNumber, main>>
    BY DEF ScStep
  <1> DEFINE Stutters == /\ StartingChannel' <=> StartingChannel
                         /\ StartingChannel => channelNumber' = channelNumber
                         /\ UNCHANGED currentChannel
  <1>1. Stutters => UNCHANGED SelectorView
    OBVIOUS
  <1>2. CASE ControlStep
    <2>1. UNCHANGED <<channelNumber, currentChannel>>
      BY <1>2 DEF ControlStep
    <2>2. CASE EnterWait \/ CheckExit \/ PollRequest \/ ScanDone \/ KeepAudio
      BY <1>1, <2>1, <2>2 DEF EnterWait, CheckExit, PollRequest, ScanDone, KeepAudio
    <2>3. CASE FilterFreed
      BY <1>1, <2>1, <2>3 DEF FilterFreed, FreeSites, AfterFree, AfterStart
    <2> QED
      BY <1>2, <2>2, <2>3 DEF ControlStep, SetFilterFails
  <1>3. CASE BringUp \/ SetInitialized \/ ClearRequest \/ FreeFilter
    BY <1>1, <1>3 DEF BringUp, SetInitialized, ClearRequest, FreeFilter
  <1>4. CASE SetFilter \/ ScanEntry
    BY <1>1, <1>4 DEF SetFilter, ScanEntry
  <1>5. CASE SwitchVideo \/ SwitchToRadio \/ SwitchAudio
    BY <1>1, <1>5 DEF SwitchVideo, SwitchToRadio, SwitchAudio
  <1>6. CASE CallStartChannel
    BY <1>6 DEF CallStartChannel, Selector!Begin
  <1>7. CASE StoreChannel
    <2>1. /\ currentChannel \in Info /\ channelNumber \in Int /\ channelNumber # -1
          /\ channelNumber' = channelNumber
      BY <1>7, ConstAssumption DEF IInv, TypeOK, Selected, StoreChannel
    <2>2. CASE sc = "storeNumber"
      <3>1. currentChannel'.programNumber = channelNumber + 1 /\ ~StartingChannel'
        BY <1>7, <2>1, <2>2 DEF StoreChannel, Info
      <3>2. currentChannel'.programNumber - 1 = channelNumber
        BY <2>1, <3>1
      <3> QED
        BY <2>1, <2>2, <3>1, <3>2 DEF Selector!Finish
    <2>3. CASE sc \in {"storeAudio", "storeVideo", "storeTeletekst"}
      <3>1. currentChannel'.programNumber = currentChannel.programNumber
        BY <1>7, <2>1, <2>3 DEF StoreChannel, Info
      <3>2. ~StartingChannel /\ ~StartingChannel'
        BY <1>7, <2>3 DEF StoreChannel
      <3> QED
        BY <3>1, <3>2
    <2> QED
      BY <1>7, <2>2, <2>3 DEF StoreChannel
  <1> QED
    BY <1>2, <1>3, <1>4, <1>5, <1>6, <1>7 DEF ScStep

LEMMA KeySimulates ==
  ASSUME Key, Selected'
  PROVE  (\E c \in 0..(NumPrograms - 1) : Selector!Want(c)) \/ Selector!Stop
  <1> USE DEF Key, RcFrame, StartingChannel, localVars, KeyPressed
  <1>1. CASE ChannelUp \/ ChannelDown \/ \E d \in Digits : PromenaKanala(d)
    <2>1. main = "running" /\ main' = main
      BY <1>1 DEF ChannelUp, ChannelDown, PromenaKanala, Select
    <2>2. Selector!Want(programNumber')
      BY <2>1 DEF Selector!Want
    <2> QED
      BY <2>2 DEF Selected
  <1>2. CASE KeyCrashes
    BY <1>2 DEF KeyCrashes, rcVars, Selector!Stop
  <1> QED
    BY <1>1, <1>2

LEMMA StepSimulates ==
  ASSUME IInv, Selected, Selected', [Next]_vars,
         {"filterError", "spurious"} \cap Faults = {}
  PROVE  Selector!Next \/ UNCHANGED SelectorView
  <1> USE DEF Selector!Next
  <1>1. CASE ScStep
    BY <1>1, TaskSimulates
  <1>2. CASE Key
    BY <1>2, KeySimulates
  <1>3. CASE Exit
    BY <1>3 DEF Exit, MainFrame, Deinit, StartingChannel, localVars, rcVars, Selector!Stop
  <1>4. CASE Broadcast \/ CbStep
    <2>1. UNCHANGED <<programNumber, channelNumber, currentChannel, main>>
      BY <1>4 DEF Broadcast, CbStep, CbFrame, localVars, rcVars
    <2>2. StartingChannel' <=> StartingChannel
      BY <1>4 DEF Broadcast, CbStep, SectionArrives, ParseEntry, ParseReturns, Signal, Waits,
                  Resume, StartingChannel
    <2> QED
      BY <2>1, <2>2 DEF SelectorView
  <1>5. CASE RcStep
    BY <1>5 DEF RcStep, RcFrame, RaiseRequest, GetChannelInfo, StartingChannel, localVars,
                SelectorView
  <1>6. CASE MainStep
    <2>1. UNCHANGED <<sc, programNumber, channelNumber, currentChannel>>
      BY <1>6 DEF MainStep, MainFrame, localVars, rcVars
    <2>2. main # "running" /\ main' # "running"
      BY <1>6 DEF MainStep, JoinTask, ReleaseDevices, FreeTables
    <2> QED
      BY <2>1, <2>2 DEF SelectorView, StartingChannel
  <1>7. CASE UNCHANGED vars
    BY <1>7 DEF vars, localVars, rcVars, SelectorView, StartingChannel
  <1>8. ~Wakeup
    BY DEF Wakeup, SpuriousWakeup
  <1> QED
    BY <1>1, <1>2, <1>3, <1>4, <1>5, <1>6, <1>7, <1>8 DEF Next, Ended

(* What the stream controller does is what ChannelSelector allows, the     *)
(* safety half of SelectorRefinement, for any number of programs: provided *)
(* that digits stay below it, filters can be set (a tuning that gives up   *)
(* tunes nothing), no key comes before the first channel, and waits end    *)
(* only by a signal.                                                       *)
THEOREM SelectionImplemented ==
  ASSUME {"filterError", "earlyKey", "spurious"} \cap Faults = {},
         Digits \subseteq 0..(NumPrograms - 1)
  PROVE  Spec => Selector!SafeSpec
  <1>1. Init => Selected
    BY ConstAssumption DEF Init, Selected
  <1>2. PatInv /\ Selected /\ [Next]_vars => Selected'
    BY NextKeepsSelected
  <1>3. Init => Selector!Init
    BY DEF Init, Selector!Init, StartingChannel, ZeroInfo
  <1>4. IInv /\ Selected /\ Selected' /\ [Next]_vars => [Selector!Next]_(Selector!vars)
    BY StepSimulates DEF SelectorView, Selector!vars
  <1>5. Spec => []PatInv
    BY PatInvariant DEF PatMayLinger
  <1> QED
    BY <1>1, <1>2, <1>3, <1>4, <1>5, IInvInvariant, PTL
    DEF Spec, Selector!SafeSpec

-----------------------------------------------------------------------------
(* The waits                                                               *)

(* From the moment a filter is set until its table has been handled it     *)
(* stays live: only the task frees it, and main when the task has ended.   *)
AwaitedLive ==
  /\ sc \in {"enterPat", "waitPat"} => filter = PatFilter
  /\ sc \in Waiting => filter.table = "PMT"
  /\ sc \in {"enterEit", "waitEit"} => filter = EitFilter

LEMMA NextKeepsAwaited ==
  ASSUME IInv, AwaitedLive, [Next]_vars, "bringUp" \notin Faults
  PROVE  AwaitedLive'
  <1> USE DEF AwaitedLive, Waiting, localVars, deviceVars, flagVars, cbVars, rcVars
  <1>1. CASE ScStep
    <2>1. CASE ControlStep
      BY <2>1 DEF ControlStep, EnterWait, CheckExit, PollRequest, FilterFreed, FreeSites, AfterFree,
                  AfterStart, SetFilterFails, ScanDone, KeepAudio
    <2>2. CASE BringUp \/ SetInitialized \/ ClearRequest \/ CallStartChannel \/ FreeFilter
      BY <2>2 DEF BringUp, SetInitialized, ClearRequest, CallStartChannel, FreeFilter, FreeSites
    <2>3. CASE SetFilter \/ ScanEntry
      BY <2>3 DEF SetFilter, PmtFilter, ScanEntry
    <2>4. CASE SwitchVideo \/ SwitchToRadio \/ SwitchAudio \/ StoreChannel
      BY <2>4 DEF SwitchVideo, SwitchToRadio, SwitchAudio, StoreChannel
    <2> QED
      BY <1>1, <2>1, <2>2, <2>3, <2>4 DEF ScStep
  <1>2. CASE Broadcast \/ CbStep \/ Wakeup
    BY <1>2 DEF Broadcast, CbStep, CbFrame, SectionArrives, ParseEntry, ParseReturns, Signal,
                Wakeup, SpuriousWakeup, Waits, Resume
  <1>3. CASE Key \/ RcStep
    BY <1>3 DEF Key, RcStep, RcFrame
  <1>4. CASE Exit \/ MainStep
    BY <1>4 DEF Exit, MainStep, MainFrame, Deinit, JoinTask, ReleaseDevices, FreeTables,
                IInv, TaskJoined
  <1>5. CASE UNCHANGED vars
    BY <1>5 DEF vars
  <1> QED
    BY <1>1, <1>2, <1>3, <1>4, <1>5 DEF Next, Ended

(* Whatever the task waits for is sent, complete and small enough, so that *)
(* its callback signals: for every transport stream whose tables fit, any  *)
(* run of keys and a shutdown at any moment.  Excluded are the PAT filter  *)
(* that is not set, and what FiltersNameServices excludes.                 *)
THEOREM WaitsAreMet ==
  ASSUME {"bringUp", "earlyKey", "spurious"} \cap Faults = {}, ~PatMayLinger,
         Digits \subseteq 0..(NumPrograms - 1),
         MaxPat >= NumPrograms + 1,
         \A p \in Programs : Len(Pmt[p]) <= MaxPmt,
         EitEvents <= MaxEit
  PROVE  Spec => []NeverWaitsInVain
  <1>1. Init => AwaitedLive
    BY DEF Init, AwaitedLive, Waiting
  <1>2. IInv /\ AwaitedLive /\ [Next]_vars => AwaitedLive'
    BY NextKeepsAwaited
  <1>3. AwaitedLive /\ PmtFilterOfService => NeverWaitsInVain
    BY DEF AwaitedLive, Waiting, PmtFilterOfService, NeverWaitsInVain, TableAwaited, Waits,
           EntriesOf, CapacityOf, PatFilter, EitFilter
  <1>4. Spec => []PmtFilterOfService
    BY FiltersNameServices
  <1> QED
    BY <1>1, <1>2, <1>3, <1>4, IInvInvariant, PTL DEF Spec
=============================================================================
