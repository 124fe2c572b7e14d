------------------------------- MODULE Prikaz -------------------------------
(***************************************************************************)
(* iscrtavanjeGrafike.c: the overlays that a key or a new channel puts on  *)
(* the screen, and the timers that take them off again.                    *)
(*                                                                         *)
(*   info   prikaziInfo, called by the stream controller's task when it    *)
(*          has tuned a channel and by the remote controller's thread      *)
(*   broj   prikaziBrojKanala, called by the remote controller's thread    *)
(*   zvuk   prikaziJacineZvuka, called by the remote controller's thread   *)
(*                                                                         *)
(* Each call stores what is to be shown, arms the overlay's POSIX timer    *)
(* and raises the overlay's flag; a timer that expires starts a thread     *)
(* that lowers the flag (SIGEV_THREAD).  Nothing is locked.  The struct    *)
(* itimerspec handed to timer_settime is static, and timer_settime writes  *)
(* the timer's previous value back into it: prikaziInfo, with two callers, *)
(* is split at each access to it; the other two have it for themselves.    *)
(*                                                                         *)
(* The model starts when main has set the initial volume.  Whole seconds   *)
(* pass only while no thread is inside a call, which takes microseconds.   *)
(***************************************************************************)
EXTENDS Integers

CONSTANTS
  Channels,      \* numbers of the programs the task may tune
  Digits,        \* digit keys the user may press
  MaxVolume,     \* MAX_VOLUME
  InitialVolume, \* what main sets at start
  Seconds        \* how long an overlay stays

ASSUME PrikazAssumption ==
  /\ Channels \subseteq Nat \ {0}
  /\ Digits \subseteq 0..9
  /\ MaxVolume \in Nat
  /\ InitialVolume \in 0..MaxVolume
  /\ Seconds \in Nat \ {0}

VARIABLES
  ispis,        \* ispisInformacija, ispisBrojaKanala, ispisJacineZvuka
  brojKanala,   \* the number that both the info and the broj overlay show
  opis,         \* the channel whose pids the info overlay shows, 0 for none
  jacinaZvuka,  \* the volume that the zvuk overlay shows
  volumen,      \* the level the player was set to last; NoLevel if it refused,
                \* or was not told any
  trenutni,     \* currentChannel.programNumber
  timerSpec,    \* ispisInformacijaTimerSpec.it_value.tv_sec
  timer,        \* seconds each timer has left, 0 when it is not armed
  expired,      \* the timer's thread is about to lower the flag
  call,         \* where each thread is in a call for an overlay
  disturbed     \* history: what interfered with the last call for an overlay

vars == <<ispis, brojKanala, opis, jacinaZvuka, volumen, trenutni, timerSpec, timer,
          expired, call, disturbed>>

data == <<brojKanala, opis, jacinaZvuka, volumen, trenutni>>

-----------------------------------------------------------------------------
NoLevel  == -1

Overlays == {"info", "broj", "zvuk"}
Threads  == {"task", "rc"}
Steps    == {"idle", "volume", "data", "memset", "seconds", "arm", "writeBack", "flag"}

(* A thread inside a call for overlay o: v is what to show, old the value  *)
(* that timer_settime has yet to write back.                               *)
Frame(at, o, v, old) == [at |-> at, o |-> o, v |-> v, old |-> old]
Idle == Frame("idle", "info", 0, 0)

At(t, o, step) == call[t].at = step /\ call[t].o = o
Inside(t, o)   == call[t].at # "idle" /\ call[t].o = o
Busy(o)        == \E t \in Threads : Inside(t, o)
Quiet          == \A t \in Threads : call[t] = Idle

(* A thread enters a call.  disturbed tells calls that had the overlay for *)
(* themselves ("no") from those that met another call ("overlap").         *)
Open(t, at, o, v) ==
  /\ call[t] = Idle
  /\ call' = [call EXCEPT ![t] = Frame(at, o, v, 0)]
  /\ disturbed' = [disturbed EXCEPT ![o] = IF Busy(o) THEN "overlap" ELSE "no"]

Goto(t, step) == call' = [call EXCEPT ![t].at = step]

-----------------------------------------------------------------------------
(* The callers                                                             *)

(* Mutant: the call is made before currentChannel is stored.               *)
TuneShowsPrevious(c) ==
  /\ trenutni' = c
  /\ Open("task", "data", "info", trenutni)
  /\ UNCHANGED <<ispis, brojKanala, opis, jacinaZvuka, volumen, timerSpec, timer, expired>>

(* startChannel stores currentChannel and calls prikaziInfo with it.       *)
Tune(c) ==
  /\ trenutni' = c
  /\ Open("task", "data", "info", c)
  /\ UNCHANGED <<ispis, brojKanala, opis, jacinaZvuka, volumen, timerSpec, timer, expired>>

(* INFO: getChannelInfo copies currentChannel, prikaziInfo shows the copy. *)
PressInfo ==
  /\ Open("rc", "data", "info", trenutni)
  /\ UNCHANGED <<ispis, data, timerSpec, timer, expired>>

(* A digit key: prikaziBrojKanala(d), before promenaKanala(d), stores d.   *)
PressDigit(d) ==
  /\ Open("rc", "arm", "broj", d)
  /\ brojKanala' = d
  /\ UNCHANGED <<ispis, opis, jacinaZvuka, volumen, trenutni, timerSpec, timer, expired>>

PojacajUnbounded == jacinaZvuka + 1  \* mutant

Pojacaj == IF jacinaZvuka < MaxVolume THEN jacinaZvuka + 1 ELSE jacinaZvuka

Smanji == IF jacinaZvuka > 0 THEN jacinaZvuka - 1 ELSE jacinaZvuka

(* V+, V- and MUTE: pojacaj, smanji or postaviJacinuZvuka(0) changes the   *)
(* volume that is shown; promenaJacineZvuka gets the result.               *)
PressVolume ==
  /\ jacinaZvuka' \in {Pojacaj, Smanji, 0}
  /\ Open("rc", "volume", "zvuk", jacinaZvuka')
  /\ UNCHANGED <<ispis, brojKanala, opis, volumen, trenutni, timerSpec, timer, expired>>

SetVolumeButMute ==  \* mutant: level 0 is not sent to the player
  /\ At("rc", "zvuk", "volume")
  /\ Goto("rc", "arm")
  /\ volumen' \in {IF call["rc"].v = 0 THEN volumen ELSE call["rc"].v, NoLevel}
  /\ jacinaZvuka' = call["rc"].v
  /\ UNCHANGED <<ispis, brojKanala, opis, trenutni, timerSpec, timer, expired, disturbed>>

(* Player_Volume_Set, which may fail, as it does before the player is open *)
(* and after bring-up has failed; the result is ignored, and               *)
(* prikaziJacineZvuka stores the value all the same.  The factor           *)
(* VOLUME_KONSTANTA_POJACAVANJA, which keeps 0..9 within 32 bits, is left  *)
(* out.                                                                    *)
SetVolume ==
  /\ At("rc", "zvuk", "volume")
  /\ Goto("rc", "arm")
  /\ volumen' \in {call["rc"].v, NoLevel}
  /\ jacinaZvuka' = call["rc"].v
  /\ UNCHANGED <<ispis, brojKanala, opis, trenutni, timerSpec, timer, expired, disturbed>>

-----------------------------------------------------------------------------
(* The steps of a call                                                     *)

(* prikaziInfo stores what is to be shown.                                 *)
StoreInfo(t) ==
  /\ At(t, "info", "data")
  /\ Goto(t, "memset")
  /\ brojKanala' = call[t].v
  /\ opis' = call[t].v
  /\ UNCHANGED <<ispis, jacinaZvuka, volumen, trenutni, timerSpec, timer, expired, disturbed>>

ClearSpec(t) ==
  /\ At(t, "info", "memset")
  /\ Goto(t, "seconds")
  /\ timerSpec' = 0
  /\ UNCHANGED <<ispis, data, timer, expired, disturbed>>

FillSpecWithNothing(t) ==  \* mutant: tv_nsec is assigned and tv_sec is not
  /\ At(t, "info", "seconds")
  /\ Goto(t, "arm")
  /\ UNCHANGED <<ispis, data, timerSpec, timer, expired, disturbed>>

FillSpec(t) ==
  /\ At(t, "info", "seconds")
  /\ Goto(t, "arm")
  /\ timerSpec' = Seconds
  /\ UNCHANGED <<ispis, data, timer, expired, disturbed>>

(* timer_settime arms the timer with what the struct holds at that moment, *)
(* 0 disarms it.  A timer thread that is still to run will lower the flag  *)
(* too early.                                                              *)
Arm(t) ==
  /\ call[t].at = "arm"
  /\ LET o == call[t].o
     IN  /\ timer' = [timer EXCEPT ![o] = IF o = "info" THEN timerSpec ELSE Seconds]
         /\ call' = [call EXCEPT ![t].at  = IF o = "info" THEN "writeBack" ELSE "flag",
                                 ![t].old = IF o = "info" THEN timer[o] ELSE 0]
         /\ disturbed' = [disturbed EXCEPT ![o] = IF @ = "no" /\ expired[o] THEN "late" ELSE @]
  /\ UNCHANGED <<ispis, data, timerSpec, expired>>

(* timer_settime stores the previous value where the new one was.          *)
WriteBack(t) ==
  /\ At(t, "info", "writeBack")
  /\ call' = [call EXCEPT ![t].at = "flag", ![t].old = 0]
  /\ timerSpec' = call[t].old
  /\ UNCHANGED <<ispis, data, timer, expired, disturbed>>

(* The flag is raised and the call returns.                                *)
RaiseFlag(t) ==
  /\ call[t].at = "flag"
  /\ ispis' = [ispis EXCEPT ![call[t].o] = TRUE]
  /\ call' = [call EXCEPT ![t] = Idle]
  /\ UNCHANGED <<data, timerSpec, timer, expired, disturbed>>

-----------------------------------------------------------------------------
(* Time                                                                    *)

(* A second passes.  An expired timer's thread has run before that timer   *)
(* expires again.                                                          *)
Tick ==
  /\ Quiet
  /\ \E o \in Overlays : timer[o] > 0
  /\ \A o \in Overlays : timer[o] = 1 => ~expired[o]
  /\ timer' = [o \in Overlays |-> IF timer[o] > 0 THEN timer[o] - 1 ELSE 0]
  /\ expired' = [o \in Overlays |-> expired[o] \/ timer[o] = 1]
  /\ UNCHANGED <<ispis, data, timerSpec, call, disturbed>>

ExpireWrongFlag(o) ==  \* mutant: every timer is given ugasiIspisBrojKanala
  /\ expired[o]
  /\ expired' = [expired EXCEPT ![o] = FALSE]
  /\ ispis' = [ispis EXCEPT !["broj"] = FALSE]
  /\ UNCHANGED <<data, timerSpec, timer, call, disturbed>>

(* ugasiIspisBrojKanala, ugasiIspisJacinaZvuka, ugasiIspsiInformacija.  An *)
(* overlay that is down and not timed has no history.                      *)
Expire(o) ==
  /\ expired[o]
  /\ expired' = [expired EXCEPT ![o] = FALSE]
  /\ ispis' = [ispis EXCEPT ![o] = FALSE]
  /\ disturbed' = [disturbed EXCEPT ![o] = IF timer[o] = 0 /\ ~Busy(o) THEN "no" ELSE @]
  /\ UNCHANGED <<data, timerSpec, timer, call>>

-----------------------------------------------------------------------------
Init ==
  /\ ispis = [o \in Overlays |-> FALSE]
  /\ brojKanala = 0
  /\ opis = 0
  /\ jacinaZvuka = InitialVolume
  /\ volumen = NoLevel
  /\ trenutni = 0
  /\ timerSpec = 0
  /\ timer = [o \in Overlays |-> 0]
  /\ expired = [o \in Overlays |-> FALSE]
  /\ call = [t \in Threads |-> Idle]
  /\ disturbed = [o \in Overlays |-> "no"]

Key == PressInfo \/ PressVolume \/ \E d \in Digits : PressDigit(d)

CallStep(t) == \/ StoreInfo(t) \/ ClearSpec(t) \/ FillSpec(t) \/ Arm(t) \/ WriteBack(t)
               \/ RaiseFlag(t)

Next ==
  \/ Key
  \/ \E c \in Channels : Tune(c)
  \/ SetVolume
  \/ \E t \in Threads : CallStep(t)
  \/ Tick
  \/ \E o \in Overlays : Expire(o)

(* Threads inside a call keep running and a timer's thread runs.  Time     *)
(* does not stop while it may pass.                                        *)
Fairness ==
  /\ WF_vars(SetVolume)
  /\ \A t \in Threads : WF_vars(CallStep(t))
  /\ \A o \in Overlays : WF_vars(Expire(o))
  /\ SF_vars(Tick)

Spec == Init /\ [][Next]_vars

FairSpec == Spec /\ Fairness

-----------------------------------------------------------------------------
(* Properties                                                              *)

(* Types of all variables.  The volume stays in 0..MaxVolume, the only     *)
(* values for which the render thread has a picture.                       *)
TypeOK ==
  /\ ispis \in [Overlays -> BOOLEAN]
  /\ brojKanala \in Channels \cup Digits \cup {0}
  /\ opis \in Channels \cup {0}
  /\ jacinaZvuka \in 0..MaxVolume
  /\ volumen \in 0..MaxVolume \cup {NoLevel}
  /\ trenutni \in Channels \cup {0}
  /\ timerSpec \in 0..Seconds
  /\ timer \in [Overlays -> 0..Seconds]
  /\ expired \in [Overlays -> BOOLEAN]
  /\ call \in [Threads -> [at : Steps, o : Overlays, v : Nat, old : 0..Seconds]]
  /\ disturbed \in [Overlays -> {"no", "late", "overlap"}]

(* An end of the overlay is on its way.                                    *)
Timed(o) == timer[o] > 0 \/ expired[o]

(* "A timer counts three seconds from when the indicator was set", then    *)
(* "a function removes the indicator" (README.md:45).  An overlay is up    *)
(* exactly while its timer runs or its expiry is being handled.  One whose *)
(* previous expiry was still to be handled when it was raised again may go *)
(* down early, but even that one never stays for ever.                     *)
ShownWhileTimed ==
  \A o \in Overlays : ~Busy(o) =>
    /\ disturbed[o] = "no" => (ispis[o] <=> Timed(o))
    /\ disturbed[o] = "late" /\ ispis[o] => Timed(o)

(* The pids on the screen are those of the channel that is tuned, although *)
(* INFO copies currentChannel before it shows it: only an INFO that meets  *)
(* the task's own call may leave the pids of an earlier channel.           *)
InfoIsCurrent ==
  ispis["info"] /\ ~Busy("info") /\ disturbed["info"] # "overlap" => opis = trenutni

(* The volume overlay shows the level the player plays at, whatever run of *)
(* V+, V- and MUTE, some of them refused by the player, led there, unless  *)
(* the last one was refused: then nothing tells the user.                  *)
VolumeIsHeard == ispis["zvuk"] /\ ~Busy("zvuk") => volumen \in {jacinaZvuka, NoLevel}

(* If the threads are outside every call now and then, so that time can    *)
(* pass, an overlay that nobody asks for again goes down for good, unless  *)
(* two calls for it overlapped: one may have disarmed the timer that the   *)
(* other armed.                                                            *)
OverlaysEnd ==
  \A o \in Overlays :
    []<>Quiet /\ <>[](~Busy(o)) => <>[](~ispis[o] \/ disturbed[o] = "overlap")

(* "Broj programa" on the info overlay is the number of the channel that   *)
(* is tuned.                                                               *)
NumberIsCurrent == ispis["info"] /\ ~Busy("info") => brojKanala = trenutni
=============================================================================
