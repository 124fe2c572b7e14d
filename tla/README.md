# A TLA+ model of the DVB television application

This directory holds a TLA+ model of the set-top-box application in `src/`
(a DVB-T receiver in C on the TDP API and DirectFB), the TLC configurations that
check it on small instances, and proofs, checked by TLAPS, of what holds for
every transport stream, every key sequence and every fault.

Contents: [parts of the system](#parts-of-the-system) ·
[modules](#modules) · [from code to model](#from-code-to-model) ·
[environment](#environment-and-faults) · [fairness](#fairness) ·
[runs](#runs-and-bounds) · [proofs](#proofs) · [findings](#findings) ·
[not modelled](#not-modelled) · [plan](#plan)

To check: `tlc -config sc_core.cfg MCStreamController.tla` (and so on for each run in
`PROJECT.json`), and `tlapm M.tla` for each module M of theorems: `StreamControllerProofs`, `TuningProofs`,
`TablesParserProofs`, `PrikazProofs`, `TvAplikacijaProofs`.

## Parts of the system

| part | files | state | operations |
|---|---|---|---|
| Stream controller | `stream_controller.c` | `programNumber`, `changeChannel`, `threadExit`, `isInitialized`, `currentChannel`, `filterHandle`, `streamHandleV/A`, the three tables, two mutex/condition pairs | `streamControllerInit/Deinit`, `channelUp/Down`, `promenaKanala`, `getChannelInfo`, `promenaJacineZvuka`; internally `streamControllerTask`, `startChannel`, `sectionReceivedCallback`, `tunerStatusCallback` |
| Table parser | `tables_parser.c`, `tables.h` | the PAT, PMT and EIT table it is handed | `parsePatTable`, `parsePmtTable`, `parseEitTable`, print functions |
| Graphics | `iscrtavanjeGrafike.c` | overlay flags, `brojKanala`, volume, three POSIX timers, `crtajGrafiku`, a mutex/condition pair | `prikaziInfo`, `prikaziBrojKanala`, `pojacaj`, `smanji`, `postaviJacinuZvuka`, `upaliRadio`, `ugasiRadio`, the timer callbacks, the render thread, `inicijalizacijaGrafike`, `deinicijalizacijaGrafike` |
| Remote controller | `remote_controller.c` | `callback`, `threadExit`, the input device | `remoteControllerInit/Deinit`, `register/unregisterRemoteControllerCallback`, the event task |
| Application | `vezba_5.c` | `deinitMutex`, `deinitCond` | `main`: start, wait for EXIT, stop; `remoteControllerCallback`: one call per key |
| Configuration | `parsiranjeUlaznogFajla.c` | eight values read from `ulazniFajl.config` | read and print |

How they interact. `main` starts the remote controller, registers
`remoteControllerCallback`, starts the stream controller (which creates
`streamControllerTask`), starts graphics, and waits on a condition for EXIT. Keys
run in the remote controller's thread and call straight into the stream controller and
graphics. The task calls graphics (`prikaziInfo`, `upaliRadio`, `ugasiRadio`) when it
has tuned a channel. Sections arrive in the demultiplexer's thread, timers expire in
threads of their own, and a render thread draws. There is almost no locking: a
condition variable tells the task that *some* section was parsed, another that the tuner
has locked, one tells `main` of EXIT, one tells graphics that rendering stopped; everything else is
plain shared memory.

What is hard:

* **Stream controller.** Four threads share a dozen bare variables. Requests are two
  writes (`programNumber`, then `changeChannel`) against three accesses (test, clear,
  read). The wait for a section tests no predicate, so a signal may be lost, or
  may come from the wrong table. The table is scanned after the lock is
  released. One handle names three filters in turn. The array of services is indexed
  with three different bounds. Streams are replaced one at a time, each may fail.
  Shutdown joins a task that may be waiting. *Correct when:* the channel wanted last is tuned in the end,
  with its own pids, and is what plays; no filter or stream is lost; shutdown ends and
  frees everything, after its last use.
* **Parser.** Two cursors, with different origins, advance by lengths read from the
  data; fields are cut out of bytes by shift and mask; tables are reused without being
  cleared; each table has its own limit. *Correct when:* what was sent is what is stored,
  a section is refused only when it does not fit, and nothing is read past its entries.
* **Graphics.** Timers expire while the overlay they will hide is shown again;
  `prikaziInfo` is called from two threads and arms its timer through one static
  struct; flags are read one by one while others change them; the shutdown waits for a signal
  that may have been sent already.
  *Correct when:* an overlay is up exactly while its timer runs, shows what is tuned and
  heard, the screen follows the flags, and shutdown ends.
* **Remote controller, application.** A callback is tested and then called while it may
  be unregistered; EXIT may come before `main` waits for it. *Correct when:* no key
  reaches a part that is not there, and EXIT ends the program.
* **Tuner bring-up.** The lock may be reported before the task waits for it; each failure releases
  a different part of what was acquired. *Correct when:* it ends, on every path with the device
  closed or in use, and the player only ever runs on a locked tuner.

`PROJECT.json` lists every such hazard at its line, with the properties that address it.

## Modules

| module | what it is |
|---|---|
| `StreamController` | the task, the section callback, the keys and the shutdown: one action per access to shared state |
| `ChannelSelector` | the promise to callers in five actions; `StreamController` implements it |
| `StreamControllerProofs` | theorems about `StreamController` and their TLAPS proofs: types, requests, filters, streams, shutdown |
| `TuningProofs` | EXTENDS it with the theorems about what is tuned: pids, streams, `ChannelSelector`, the waits |
| `TablesParser` | the three parsers, over bytes, with tables that persist between calls; what a well-formed section is |
| `TablesParserProofs` | theorems about `TablesParser`, for every well-formed section |
| `Sections` | an encoder: the bytes of PAT, PMT and EIT sections from what they mean (external: the broadcaster) |
| `Prikaz` | the three overlays with a timer: the calls that raise them, from two threads, the timers that lower them, and the volume |
| `PrikazProofs` | theorems about `Prikaz` |
| `Render` | the render thread, and how main starts and stops it |
| `StreamBringUp` | the beginning of the task, lines 297-406, with `tunerStatusCallback` |
| `TvAplikacija` | `main` and the remote controller's thread; EXTENDS `Render` and `StreamBringUp` and composes all of them; refines the step `BringUp` of `StreamController` |
| `TvAplikacijaProofs` | theorems about `TvAplikacija`, the refinement among them |
| `MCStreamController`, `MCTablesParser`, `MCPrikaz`, `MCTvAplikacija` | the transport streams, sections, channels and overlays of the runs |

`StreamController` and `TablesParser` meet at `sectionReceivedCallback`. The first needs
only *when* the count is reset, an entry becomes visible and the signal is sent, so there a
PMT is a sequence of (kind, pid); the second shows that the bytes of a section
become exactly those entries. `StreamController` and `TvAplikacija` meet at the step `BringUp`, which
the second implements, and at the shutdown, which is one step (`JoinAndRelease`) there and four in the first.
`StreamController` and `Prikaz` meet at `prikaziInfo`, which the task calls when it has stored `currentChannel`
(`Tune`); `Prikaz` and `Render` at the flags, which `Render` lets change in any way (`Flag`).

Definitions that carry the word *mutant* in their comment are not part of the model:
each is a plausible mistake in the definition that follows it, and `PROJECT.json` names the
property that must fail when it takes that definition's place.

## From code to model

**Threads.** `sc`, `cb`, `rc` and `main` are the control points of the task, the demultiplexer's
thread, the remote controller's thread and `main`. `ScStep`, `CbStep`/`Broadcast`,
`Key`/`RcStep` and `Exit`/`MainStep` are their steps.

**Atomicity.** Every read or write of a variable that another thread writes is a step:
`CheckExit`, `PollRequest`, `ClearRequest` and `CallStartChannel` are the four accesses of the polling loop
(lines 427, 429, 431, 432), `Select` and `RaiseRequest` the two of a channel key,
`StoreChannel` and `GetChannelInfo` four each, `ScanEntry` one turn of the scan with the count read
again, `SectionArrives` and `ParseEntry` the count reset and each entry. Steps that only
touch the thread's own state are folded into the next shared access. The code that
holds `demuxMutex` does nothing but signal or wait, so `Signal`, and `EnterWait` (lock and
start of the wait), are one step each; a `Signal` without a waiter changes nothing but `cb`.
The makefile builds with `-O0`, so the bare flags really are read on every turn.

**startChannel** is `CallStartChannel`, `FreeFilter`/`FilterFreed`, `SetFilter`/`SetFilterFails`,
`EnterWait`, `ScanEntry`/`ScanDone`, then `SwitchVideo` or `SwitchToRadio`, `SwitchAudio` or
`KeepAudio`, `StoreChannel`, and the filters again for the EIT. Its early returns are
`SetFilterFails`. The branch `ETIMEDOUT == pthread_cond_wait(...)` cannot be taken:
the function has no timeout. When `Player_Stream_Create` fails the task calls `streamControllerDeinit` on
itself: that is refused before `isInitialized`, and afterwards sets `threadExit`, fails to
join the calling thread and returns, which is what `DeinitFromTask` does.

**Tables.** A `filled` count beside `patTable.count` tells entries that were ever written from zeroed
memory, because `startChannel` indexes the array without looking at the count.
`ServicePid` is that read. Index 0 is the network's entry; index -1 (channel -2, selected by
`channelDown` before a PAT was parsed) lies over `sectionNumber` and
`lastSectionNumber` of the PAT header, both 0 in a PAT of one section; both give `NoPid`, a pid that carries no PMT.
`pmtTable.array` keeps the entries of earlier sections, as the memory does.

**Handles.** A stream handle is the pid of its stream, 0 for none, and `player` counts the streams that
are really there. `filter` is what is live in the demultiplexer; `filterHandle`
keeps its value after a free, and freeing it again does nothing. (The last is an
assumption about `Demux_Free_Filter`, as is that it returns only after a running
callback has returned, unless `lateCallback` says otherwise.)

**Parser.** `parseHeader` is the dispatch on table_id, the header and the emptied count;
`PatEntry`, `PmtEntry`, `EitEntry` are one turn of each loop; `Return` ends it. `position` is
`currentBufferPosition`, `parsedLength` the code's variable of that name, which counts the CRC and
not the first three bytes. `WellFormed` is the standards' side: a section is its bytes, with the content they carry and the
offsets (`starts`) of its entries and of its CRC, which the parser never looks at. What it does with bytes that no
broadcaster sends is not modelled.

**Overlays** (`Prikaz`). `ispis[o]` is the flag of overlay *o*, `timer[o]` the seconds its POSIX timer
has left, `expired[o]` that the thread which the timer starts (`SIGEV_THREAD`) has yet to lower the flag.
`prikaziInfo` has two callers and is split at every access to its static `itimerspec`: the data (lines 197-205, one
step: only the pids and the number are looked at), the `memset`, the assignment of `tv_sec`, `timer_settime` reading the
struct, the same call writing the old value back into it, the flag. `prikaziBrojKanala` and
`prikaziJacineZvuka` are called by one thread only and have their structs for themselves: data, struct and
`timer_settime` are one step each or less. A key is `PressInfo`, `PressDigit` or `PressVolume`;
`SetVolume` is `promenaJacineZvuka`: the player takes the level or not (`volumen` is then `NoLevel`), and the screen shows it in either case.
`disturbed` is a history variable, written and never tested by the program's
steps: it tells calls that had the overlay to themselves from those that overlapped another.
P+ and P- call nothing here. The digit's change of channel is some later `Tune`.

**Drawing** (`Render`). One `Draw` per overlay tests its flag; what is drawn goes to the back buffer (`slika`) and
`FlipAndSignal` shows it (`ekran`) and signals `grafikaUslov` (the mutex around it protects nothing else). `obrisiEkran`
at the beginning of the next frame is folded in. The radio screen fills the whole picture.

**Bring-up** (`StreamBringUp`). One action per resource, in the code's order, each with the disjunct in which it fails.
`GiveUp` is the common part of the return paths; what each of them closes is written in the action. A failure to set the PAT filter or to
register the section callback is only logged, and the task goes on to wait (`Await`). A tuner callback that could not be
registered is a tuner that never reports. `StatusTimeout` may come as soon as the wait has begun, because the 10 s begin
before the allocation and not at the wait; `StatusUnsignalled` is the return that nobody caused. `SignalStatus` needs `statusMutex`, which stays with the task after a timeout.
`tables` names the last table that was allocated.

**Application** (`TvAplikacija`). `main` is the line of `main` (or of a deinit function it is in), `rc` that of
`inputEventTask` or of `remoteControllerCallback`. `callback` is read twice, by `TestCallback` and `CallCallback`.
`Start` is a call under `ERRORCHECK`, which returns from `main` and so ends the process. The keys are EXIT and a channel key; the others
touch nothing that start and stop concern. After bring-up the task is followed from wait to wait: `SetSectionFilter` frees the last filter
and sets the next or returns, `SectionSignalled` ends a wait, `SetStreams` is all between the PMT and the EIT, `ChangeChannel` and `EndTask` are the
polling loop. `sent` tells whether the wait that began will be signalled: the callback is registered, the filter is set, and (free to be so or
not) the section is broadcast and fits its table. What is tuned, and which section signals, is left to `StreamController`, as is the release in
`streamControllerDeinit`, one step here.
`registerRemoteControllerCallback` cannot fail here, since `main` calls it once.

## Environment and faults

The constant `Faults` switches on what the environment may do beyond the normal:

| fault | meaning | where it bites |
|---|---|---|
| `bringUp` | tuner or player fails, or the PAT filter is not set | `streamControllerTask` gives up, or waits for a PAT that cannot come |
| `earlyKey` | a key arrives before `isInitialized` | no key handler tests it |
| `filterError` | `Demux_Set_Filter` fails | the early returns of `startChannel` |
| `streamError` | `Player_Stream_Create` fails | the calls of `streamControllerDeinit` |
| `spurious` | `pthread_cond_wait` returns unsignalled | no predicate is tested |
| `lateCallback` | `Demux_Free_Filter` returns while a callback runs | tables are freed after it |
| `slowScan` | a section repeats before its table was used | the scan holds no lock |

A section callback that could not be registered is a behaviour in which `Broadcast` is never taken: the safety properties hold of it too,
`FairSpec` excludes it, and `TvAplikacija` has it as a state (`registered`).

In `TvAplikacija` and `StreamBringUp` every call that can fail may fail: thread creation, `open`, `read`, `malloc`, tuner,
player, source, filters and the registration of the section callback; a section may not be broadcast or not fit; the tuner locks once, at any
time, or never; a channel key may crash on tables that are null or
freed. The constant `Spurious` says whether `pthread_cond_wait` and `pthread_cond_timedwait` may return unsignalled (`SpuriousReturn`),
as POSIX allows: no wait in this code tests a predicate. In `Prikaz` the player may refuse any volume, as it does when it is not open. `Prikaz` assumes that a call takes less than a second (time passes only while no thread is in one), that the
thread of an expired timer has run before the same timer expires again (three seconds later), and that graphics
is up: keys pressed before `inicijalizacijaGrafike` has created the timers are not in it.

Without `slowScan` a table is not repeated between a wake-up and the end of the reads that
it allows, which takes microseconds against the half second between PMTs (`src/README.md:29`).
Without `earlyKey` the user waits for the first channel. The theorems hold with every
fault that they do not name.

The user may press P+, P-, the digits in `Digits`, INFO if `InfoKey`, and EXIT, at any moment and any number of times. Nothing is
unbounded: `programNumber` wraps, tables have their limits, and so no counter needs a cap.

## Fairness

`FairSpec` assumes weak fairness of `ScStep`, `CbStep`, `RcStep` (when a key is being handled),
`MainStep`, and `Broadcast`. The first four are threads that the scheduler keeps running: each
step is a few instructions, none waits for a lock that someone holds for long, and what really waits (`waitPmt`, the join) is not
enabled. `Broadcast` says that a table is repeated as long as its filter is live, which is how
transport streams work; without it a signal lost before the wait would never be made
good. Weak fairness is enough because `Broadcast` stays enabled while the filter is live and no callback runs. Keys and
EXIT have no fairness: the user owes nothing. `Wakeup` has none either.

`ChannelSelector` has weak fairness of `Begin` and `Finish` while the receiver is on, and `SelectorRefinement`
checks that the threads' fairness provides it.

`Prikaz` has weak fairness of the steps of a call, of `SetVolume` and of the timers' threads, and strong fairness of `Tick`:
time passes, but only between calls, so keys may disable it again and again. Callers owe nothing, and
`OverlaysEnd` has as its premise that the threads are out of every call again and again.

`TvAplikacija` has weak fairness of each thread while the process lives: `RcStep` (not `User`, which holds what needs a key or an error),
`MainStep`, `NitStep`, `TaskStep`, and `TunerStep`, the callback that has begun. The tuner need not lock, and `SpuriousReturn` has no fairness. `RcStep` holds the reading of the
release that follows a press. What waits (joins, condition waits, `read`, a mutex) is not enabled.
`ScreenFollowsFlags` takes as its premise that the flags stop changing.

## Runs and bounds

| run | question | instance | distinct states |
|---|---|---|---|
| `sc_core` | do the safety properties hold under every interleaving, is the last selection tuned, does shutdown end, is `ChannelSelector` implemented? | 3 programs (television, radio, teletext with a second video stream), digits 0 and 2, INFO, no faults, fair | 422 835 |
| `sc_faults` | what survives when everything may fail? | 2 programs, a PMT larger than its table, all seven faults | 259 504 |
| `tp_core` | are sections decoded to what was sent? | 15 sections (4 PAT, 6 PMT, 5 EIT), one after another into the same tables | 41 460 |
| `pr_core` | do the overlays keep to their timers, the tuned channel and the volume, and go down in the end? | one channel (before it, none is tuned), one digit, volume 0..1, overlays last one second, fair | 1 008 000 |
| `tv_core` | is everything released after its last use, does bring-up end, is EXIT heard, does shutdown end, is `BringUp` implemented? | no overlay; every failure, and waits that return unsignalled; fair | 71 635 |
| `tv_signalled` | does the player open on a locked tuner, does the screen follow the flags? | the radio screen and one overlay; every failure, waits return on a signal or a timeout; fair | 842 979 |

What each property says:

* `LastRequestWins`: a loop that sees no request, while none is being written, has tuned what was selected
  last. The order of the two writes and of the test, clear and read all matter.
* `PidsOfTunedChannel`: the pids announced for a channel are from its own, complete PMT, although the
  condition is shared by three tables and no predicate is tested.
* `PlaysTunedChannel`: the player and the radio screen agree with what is announced.
* `PmtFilterOfService`: the filter is only ever set for a program of the PAT.
* `NeverWaitsInVain`: whenever the task is in a wait without a timeout, the filter for that very table is live, the table is sent
  and fits, so its callback will signal; with a shutdown at any moment.
* `StreamsAccounted`, `NoFilterLost`: nothing is created in the device that no handle names.
* `NoParseIntoFreedTables`, `TearDownComplete`: shutdown frees tables after their last use, and everything.
* `SettlesOnRequest`, `ExitCompletes`, `SelectorRefinement`: a selection that stays is tuned for good; the
  shutdown returns; only channels there are are wanted, and nothing is ever tuned that was not wanted when the tuning began.
* `PatDecoded`, `PmtDecoded`, `RefusedOnlyWhenFull`, `StopsAtCrc`: the parser against the encoder.
* `ShownWhileTimed`: an overlay is up exactly while its timer runs or its expiry is being handled, unless its call overlapped another.
  If the last expiry was still to be handled when the overlay was raised again, it may go down at once, but it never stays without an end.
* `OverlaysEnd`: an overlay nobody asks for again goes down for good, with the same exception.
* `InfoIsCurrent`, `VolumeIsHeard`: what is shown is what is tuned, although INFO shows a copy, and what the player plays at,
  unless it refused the last level.
* `LastUseBeforeRelease`, `DeviceClosed`: over threads and failures, surface, device and tables are released after their last use, and
  nothing stays open. The timers, which are deleted while other threads may still arm them, are not covered.
* `PlaysOnLockedTuner`: the player opens only on a tuner that has reported its lock, if the wait returns on a signal or a timeout.
* `ImplementsBringUp`: a refinement: whatever step of bring-up changes what `StreamController` can see of it, is its step `BringUp`.
* `BringUpEnds`: the task comes back to its polling loop or ends, unless it waits for a section that will not be signalled (`WaitsInVain`): the
  filter is not set, the callback is not registered, or the section is not broadcast (also: a pid there is not, `sc_digit`) or refused.
* `ShutdownEnds`, `ExitHeard`: EXIT ends the program, and a user who keeps pressing it is heard. What can stand in the way is named in
  the property: `LastFrameMissed` (`tv_hang`), `WaitsForKey`, `JoinsInVain` (the task that is joined waits in vain), and the crash of a key
  that meets an unregistered callback or a freed table.
* `ScreenFollowsFlags`: once the flags rest, the screen shows exactly the overlays that are up.

Bounds. Three programs are the fewest for which P+, P- and a digit lead to three
different places and both ends wrap; a channel with video, one without and one
with a stream to be ignored are every case of `startChannel` except no audio, which `sc_silent` has. The PMTs have up to four
entries, so that a shorter PMT is parsed over a longer one. `sc_faults` uses two programs
because every fault multiplies the interleavings; a PMT with two entries and a table with
room for one makes the refused table happen. `sc_faults` leaves out the properties that a fault
really breaks: `PidsOfTunedChannel` with repeated sections is the violation run `sc_scan`, and *Proofs* says which fault each of the others excludes. The parser's limits are 3 and 2
instead of the real ones so that sections below, at and above them fit; pids and programs use
both bytes, descriptor loops are empty and not, and event names have up to three bytes or none.
`TypeOK` of `StreamController` bounds `programNumber` by -2 and `NumPrograms`, so its 16 bits never overflow.

`pr_core`. With one channel, 0 ("none tuned") is the older channel that an INFO may have copied. One second is enough for an
overlay to expire, be raised while its expiry is handled, and be raised again. Volume 0..1 has both ends.

`tv_*` need no bound but the overlays, which nothing but `ScreenFollowsFlags` looks at: the radio screen, which covers what came before,
and one other in `tv_signalled`; the radio screen alone in `tv_hang`, none in `tv_core`, where the render thread only shows empty frames. The theorems are for any overlays.

Deadlock is checked in every other run: a step of the broadcaster, the user or main is always possible or the process has `Ended`.
A task that waits for ever is therefore not a deadlock for TLC; `ExitCompletes` is what excludes it.
The runs `tv_*` do not check it, since the program really can stop: after the missed signal (`LastFrameMissed`), or with the task waiting in vain, and the remote
controller's thread ended by a read error, no thread has a step; `ShutdownEnds` and `BringUpEnds` name those states.

## Proofs

For every value of the constants:

| theorem | module | property | fault excluded |
|---|---|---|---|
| `TypeCorrect` | `StreamControllerProofs` | `TypeOK` | none |
| `StreamsNeverLost` | | `StreamsAccounted` | none |
| `FiltersNeverLost` | | `NoFilterLost` | none |
| `TearsDown` | | `TearDownComplete` | none |
| `NoRequestLost` | | `LastRequestWins` | `filterError` |
| `NeverParsesIntoFreedTables` | | `NoParseIntoFreedTables` | `lateCallback` |
| `FiltersNameServices` | | `PmtFilterOfService` | `earlyKey`, `spurious`, and `slowScan`, `lateCallback`, `filterError` all together; digits below the number of programs |
| `PublishesOwnPmt` | `TuningProofs` | `PidsOfTunedChannel` | `slowScan`, `spurious`, `lateCallback` |
| `PlaysWhatItPublishes` | | `PlaysTunedChannel` | the same and `streamError`; every program has audio |
| `SelectionImplemented` | | (`ChannelSelector`'s `SafeSpec`, the safety half of `SelectorRefinement`) | `filterError`, `earlyKey`, `spurious`; digits below the number of programs |
| `WaitsAreMet` | | `NeverWaitsInVain` | `bringUp`, and as `FiltersNameServices`; the tables fit |
| `TypeCorrect`, `CursorsAgree`, `RefusesOnlyWhenFull` | `TablesParserProofs` | `TypeOK`, `StopsAtCrc`, `RefusedOnlyWhenFull` | |
| `DecodesPat`, `DecodesPmt` | | `PatDecoded`, `PmtDecoded` | |
| `NamesNeverParsed` | | (`Unnamed`: no event ever has a name) | |
| `DurationsAreDigits` | | (`SecondsOnlyBelowTen`: a duration is in seconds only below ten of them) | |
| `TypeCorrect`, `OverlayTimed`, `InfoCurrent`, `VolumeHeard` | `PrikazProofs` | `TypeOK`, `ShownWhileTimed`, `InfoIsCurrent`, `VolumeIsHeard` | |
| `TypeCorrect`, `ReleasedAfterLastUse`, `ClosesDevice` | `TvAplikacijaProofs` | `TypeOK`, `LastUseBeforeRelease`, `DeviceClosed` | none |
| `LockedBeforePlayer` | | `PlaysOnLockedTuner` | `Spurious` |
| `BringUpImplemented` | | `ImplementsBringUp` | none |

The only assumptions are `ConstAssumption` of `StreamController`, `ParserAssumption` of `TablesParser` (every section received is
well-formed), `PrikazAssumption` of `Prikaz`, `ElementiAssumption` of `Render` and `SpuriousAssumption` of `StreamBringUp`,
which TLC evaluates on the runs. Each fault that a theorem about `StreamController` excludes breaks the property, as TLC shows within a minute on the instance of
`sc_core` with that fault switched on (`Spurious` breaks its own on the instance of `tv_signalled`); the one exception is `lateCallback` in `PlaysWhatItPublishes`, where what is announced and played may then be
the previous channel's, but the two still agree.

*The argument for `StreamController`.* `TypeOK` is not inductive: `Player_Stream_Remove` decrements a count, and that it was
positive is known only because the player's streams are those the handles name
(`Accounted`). That holds because a created stream has a pid other than 0 (`ScanPids`: the scan yields none) and because
`main` and the task never release at the same time (`TaskJoined`: `main` goes past the join only when the task has
ended). That an entry parsed from a PMT is a stream needs that the section comes from a program (`SectionSent`).
`IInv`, the conjunction of these, is inductive; one lemma per thread shows it, one step per action.

On top of it: `RequestInv` (from the moment `programNumber` was read, the channel being tuned is the
selected one or a request is outstanding, and once it is stored it is the one announced) is
inductive and gives `NoRequestLost`. It fails when `Demux_Set_Filter` fails: the request has been cleared already (line 431), and `startChannel` returns without a retry.
`ReleaseInv` (what is released at each stage of the shutdown) gives `TearsDown`. `QuietInv` (tables are
freed only when no filter is live and no callback runs) gives
`NeverParsesIntoFreedTables`. `FilterInv` (before each `Demux_Set_Filter` the live filter was freed)
gives `FiltersNeverLost`. `PatInv` says that the first wait can only be ended by a PAT that was parsed
whole (`PatCounted`), and that from then on the table holds every program and, once the last repetition has been handled, its count no longer
changes (`PatStored`, `Repeating`). So `channelUp` and `channelDown` wrap at the right place (`Selected`), and `ServiceInv` gives
`FiltersNameServices`. The digit equal to the number of programs is the finding `sc_digit`.

*The argument for `TuningProofs`.* The wait tests no predicate, so that the table scanned is the channel's must come from the filters:
when a filter is set none is live and no callback runs, hence between `setPmt` and the end of the wait every section that is handled is the
one the filter names (`OnlyChannelsPmt`). A PMT overwrites the last one entry by entry and signals only when it is whole (`PmtParsed`), and
nobody writes to the table while it is scanned (`PmtScanned`). After n turns the locals of `startChannel` describe the first n streams
(`Scanned`); that they end as `InfoOf` says rests on three lemmas about the scan (`FoundOneMore`, `TeletextOneMore`, `FoundIsFirst`).
`currentChannel` is torn only between its four assignments (`Published`). Their conjunction `TuningInv` is inductive over `IInv`
and gives `PublishesOwnPmt`. `PlayInv` adds that the handles follow the scan while
`startChannel` switches and the published channel otherwise; the case in which it needs audio is `KeepAudio`. For `SelectionImplemented` each step of each thread is
shown to be `Want`, `Begin`, `Finish`, `Stop` or a stutter (`TaskSimulates`, `KeySimulates`, `StepSimulates`), with `Selected` to say that a
key wants a channel there is. `WaitsAreMet` joins `FiltersNameServices` with `AwaitedLive`: from the setting of a filter to the end of its
wait only `main` could free it, and `main` first joins the task.

*The argument for `TablesParser`.* `Cursors` puts `position` at the start of the first entry that is not parsed yet and `parsedLength` one past
it: both advance by the size that the entry's own bytes give (`Ahead`, `PmtEntryRead`), so there is more to parse exactly while an
entry is missing (`MoreIffMissing`). `Decoded` says that the entries stored so far are those that were sent; the lemmas `PatEntryRead`,
`PmtEntryRead` and `EitEntryRead` show that shift and mask give back what was put there (`MaskedField`, `MaskedLength`, `MaskedStatus`,
`DecimalNat`). `Outcome` ties the result to the number of entries. `DurationsAreDigits` adds that six decimal digits, taken
for a number of seconds, are too many unless only the last of them counts (`DigitsAsSeconds`). `Unnamed` holds because a status masked with 3 is
never 4; it also keeps the descriptor loop, whose result for every input would be an induction over data, out of all proofs.

*The argument for `Prikaz`.* `ShownWhileTimed` speaks of an overlay that no thread is working on, so its invariant must say what holds
inside a call. Only one thread is in an undisturbed call (`Alone`), so the struct still holds the full time when that thread arms the timer and
the timer keeps it until the flag is raised (`Armed`): time does not pass meanwhile. From the arming on no earlier expiry is
outstanding (`OneExpiry`), so the next expiry is the overlay's own. `Current` and `Heard` do the same for what is shown. `IInv` is inductive:
one lemma per action, one step per conjunct.

*The argument for `TvAplikacija`.* `Opened` says what is open at each step of bring-up, `Reported` that going past the wait needs the report,
`Initialized` that only a task whose first `startChannel` has returned is told to end, `NotYet` that the task does not exist before `streamControllerInit`.
Their conjunction with the properties is inductive. For the refinement, a step of bring-up either stays inside `StreamController`'s
`"start"` (`InsideStart`), or is a failure (`GivesUp`), or sets the filter (`FilterSet`); no other thread's step, and no later step of the task,
changes the view (`OthersStutter`).

*Only model-checked:* the liveness properties (`SettlesOnRequest`, `ExitCompletes`, `OverlaysEnd`, `BringUpEnds`, `ShutdownEnds`,
`ExitHeard`, `ScreenFollowsFlags`) and the fairness in `SelectorRefinement`, which are beyond the prover. That the encoder in `Sections` yields
well-formed sections for every content would be an induction over data; TLC evaluates it for the sections of the runs.
Every invariant and action property of a passing run is a theorem.

## Findings

Each is a run that violates one property which states what a comment or document says.

* `sc_digit`: a digit equal to the number of programs selects an entry the PAT does not have
  (`stream_controller.c:503`; entry 0 is the network's, so the bound is one too large). The task waits for ever on
  pid 0, and so does the shutdown.
* `sc_silent`: after a change to a channel without audio, the sound of the previous channel goes on.
* `sc_scan`: the PMT is scanned without the lock while the filter is live; a repetition at that moment makes pids disappear.
* `pr_number`: a digit key overwrites the number that the info overlay shows; digits count programs from 0, the overlay from 1.
* `tp_duration`: the duration of an event is stored as six decimal digits of four bits each; the comment says seconds, and `prikaziInfo` divides by
  3600 (`DurationsAreDigits`: only events shorter than ten seconds come out right).
* `tv_hang`: `deinicijalizacijaGrafike` waits for a signal of the render thread without testing whether it was sent; if the last frame ended first, EXIT hangs.

Met while modelling, and listed among the hazards instead of having a run: the mask on `running_status`
(`tables_parser.c:392`) drops its highest bit, so the comparison with 4 never succeeds and no event ever has a name, which `NamesNeverParsed` proves
for every section; `promenaJacineZvuka` ignores that the player refused a volume, or that there is no player yet, and shows the level all the
same; the wait for the tuner's lock (`stream_controller.c:362`) tests no predicate, and when it returns unsignalled the player is opened on a tuner
that has not locked (`PlaysOnLockedTuner` with `Spurious = TRUE`); `getChannelInfo` copies `currentChannel` without a lock and may
return fields of two channels; a request is cleared before it is served, and is lost when `Demux_Set_Filter` fails; a section
callback that could not be registered leaves the task waiting for ever; two overlapping calls of
`prikaziInfo` may leave the overlay up for ever; timers are deleted while threads that arm them still run.

## Not modelled

* **Configuration file** (`parsiranjeUlaznogFajla.c`): read once, before any thread exists; `main` ignores the result, and the values are printed and
  used nowhere else: there is no state for a property to relate.
* **Printing** of tables and **what an overlay looks like** (text, colours, images, the string of the current event): output only.
* **Tuner, player, demultiplexer, DirectFB, POSIX timers**: external, modelled as `src/` uses them. Deleted timers, surfaces that are created in each
  frame and never released, and memory that a failed `malloc` leaves behind are listed as hazards.
* **`ispisRadio`** is set by the task in `StreamController` and is one of the flags in `Render`; `Prikaz` has no timer for it.

## Plan

Done: `StreamController` with `ChannelSelector`, `TablesParser` with `Sections`, `Prikaz`, `Render`, `StreamBringUp`, `TvAplikacija`, and proofs
of all their safety properties. Left:

1. Proofs: `PlaysWhatItPublishes` with `lateCallback`; what a torn `getChannelInfo` may and may not return, stated and proved.
2. `Render` composed with `Prikaz` instead of free flags: from a key to the picture and back. The product of the two is
   large; the interface (`Flag`) already covers every order in which `Prikaz` changes its flags.
3. The waits and the polling loop of the task in `TvAplikacija` shown to implement those of `StreamController`, as bring-up is.
