---------------------------- MODULE PrikazProofs ----------------------------
(***************************************************************************)
(* Theorems about Prikaz, for all channels, digits, volumes and durations: *)
(* its four invariants, from one inductive invariant.                      *)
(***************************************************************************)
EXTENDS Prikaz, TLAPS

(* What a call for overlay o may have to show.                             *)
Values(o) == IF o = "info" THEN Channels \cup {0}
             ELSE IF o = "broj" THEN Digits ELSE 0..MaxVolume

(* Where a thread can be: the task calls nothing but prikaziInfo, and only *)
(* prikaziInfo is split at the accesses to its struct.                     *)
Frames ==
  \A t \in Threads :
    /\ call[t].at # "idle" => call[t].v \in Values(call[t].o)
    /\ call[t].at \in {"data", "memset", "seconds", "writeBack"} => call[t].o = "info"
    /\ call[t].at = "volume" => call[t].o = "zvuk"
    /\ call[t].at # "idle" /\ call[t].o # "info" => t = "rc"

(* Two threads are inside one overlay only if that was recorded.           *)
Alone ==
  \A o \in Overlays : disturbed[o] # "overlap" => ~Inside("task", o) \/ ~Inside("rc", o)

(* A call that has the overlay for itself arms the timer with the full     *)
(* time, and nothing takes it away before the flag is raised.              *)
Armed ==
  /\ disturbed["info"] # "overlap"
       => \A t \in Threads : At(t, "info", "arm") => timerSpec = Seconds
  /\ \A o \in Overlays, t \in Threads :
       disturbed[o] # "overlap" /\ (At(t, o, "writeBack") \/ At(t, o, "flag"))
         => timer[o] = Seconds

(* From the moment an undisturbed call has armed the timer, no earlier     *)
(* expiry is still to be handled.                                          *)
OneExpiry ==
  \A o \in Overlays :
    /\ disturbed[o] = "no"
    /\ \A t \in Threads : Inside(t, o) => At(t, o, "writeBack") \/ At(t, o, "flag")
    => ~(timer[o] > 0 /\ expired[o])

(* An undisturbed call for info shows the channel that is tuned.           *)
Current ==
  disturbed["info"] # "overlap" =>
    /\ \A t \in Threads :
         /\ At(t, "info", "data") => call[t].v = trenutni
         /\ Inside(t, "info") /\ call[t].at # "data" => opis = trenutni
    /\ ispis["info"] /\ ~Busy("info") => opis = trenutni

(* After the player has been told, and unless it refused, the volume shown *)
(* is the one it has.                                                      *)
Heard ==
  /\ Inside("rc", "zvuk") /\ call["rc"].at # "volume" => volumen \in {jacinaZvuka, NoLevel}
  /\ VolumeIsHeard

IInv == TypeOK /\ Frames /\ Alone /\ Armed /\ OneExpiry /\ ShownWhileTimed /\ Current /\ Heard

-----------------------------------------------------------------------------
(* No call is under way, no overlay is up, no timer runs.                  *)
LEMMA InitIInv == Init => IInv
<1> SUFFICES ASSUME Init PROVE IInv
  OBVIOUS
<1> USE PrikazAssumption DEF Init, Idle, Frame, Overlays, Threads, Steps
<1>1. TypeOK
  <2>2. /\ call \in [Threads -> [at : Steps, o : Overlays, v : Nat, old : 0..Seconds]]
        /\ disturbed \in [Overlays -> {"no", "late", "overlap"}]
    OBVIOUS
  <2>3. /\ jacinaZvuka \in 0..MaxVolume /\ volumen = NoLevel /\ timerSpec \in 0..Seconds
        /\ timer \in [Overlays -> 0..Seconds]
    OBVIOUS
  <2>4. ispis \in [Overlays -> BOOLEAN] /\ expired \in [Overlays -> BOOLEAN]
    OBVIOUS
  <2> QED
    BY <2>2, <2>3, <2>4 DEF TypeOK
<1>2. Frames /\ Alone /\ Armed
  BY DEF Frames, Alone, Armed, At, Inside
<1>3. OneExpiry /\ ShownWhileTimed
  BY DEF OneExpiry, ShownWhileTimed, Timed
<1>4. Current /\ Heard
  BY DEF Current, Heard, VolumeIsHeard, At, Inside, Busy
<1> QED
  BY <1>1, <1>2, <1>3, <1>4 DEF IInv

(* The four ways to enter a call.  A call that finds the overlay to itself *)
(* makes a new promise; one that does not is recorded as an overlap.       *)
LEMMA TuneStep == ASSUME IInv, NEW c \in Channels, Tune(c) PROVE IInv'
<1> USE PrikazAssumption DEF IInv, TypeOK, Overlays, Threads, Tune, Open, Idle, Frame
<1>1. TypeOK'
  BY DEF Steps
<1>2. Frames'
  BY DEF Frames, Values
<1>3. Alone'
  BY DEF Alone, Inside, Busy
<1>4. Armed'
  BY DEF Armed, At, Inside, Alone, Frames, Busy
<1>5. OneExpiry'
  BY DEF OneExpiry, At, Inside, Alone, Frames, Armed
<1>6. ShownWhileTimed'
  BY DEF ShownWhileTimed, Timed, Busy, Inside, Alone, Armed, At, OneExpiry, Frames
<1>7. Current'
  BY DEF Current, Alone, Inside, Busy, At, Frames
<1>8. Heard'
  BY DEF Heard, VolumeIsHeard, Inside, Busy, At, Frames
<1> QED
  BY <1>1, <1>2, <1>3, <1>4, <1>5, <1>6, <1>7, <1>8 DEF IInv

LEMMA PressInfoStep == ASSUME IInv, PressInfo PROVE IInv'
<1> USE PrikazAssumption DEF IInv, TypeOK, Overlays, Threads, PressInfo, Open, Idle, Frame, data
<1>1. TypeOK'
  BY DEF Steps
<1>2. Frames'
  BY DEF Frames, Values
<1>3. Alone'
  BY DEF Alone, Inside, Busy
<1>4. Armed'
  BY DEF Armed, At, Inside, Alone, Frames, Busy
<1>5. OneExpiry'
  BY DEF OneExpiry, At, Inside, Alone, Frames, Armed
<1>6. ShownWhileTimed'
  BY DEF ShownWhileTimed, Timed, Busy, Inside, Alone, Armed, At, OneExpiry, Frames
<1>7. Current'
  BY DEF Current, Alone, Inside, Busy, At, Frames
<1>8. Heard'
  BY DEF Heard, VolumeIsHeard, Inside, Busy, At, Frames
<1> QED
  BY <1>1, <1>2, <1>3, <1>4, <1>5, <1>6, <1>7, <1>8 DEF IInv

LEMMA PressDigitStep == ASSUME IInv, NEW d \in Digits, PressDigit(d) PROVE IInv'
<1> USE PrikazAssumption DEF IInv, TypeOK, Overlays, Threads, PressDigit, Open, Idle, Frame
<1>1. TypeOK'
  BY DEF Steps
<1>2. Frames'
  BY DEF Frames, Values
<1>3. Alone'
  BY DEF Alone, Inside, Busy
<1>4. Armed'
  BY DEF Armed, At, Inside, Alone, Frames, Busy
<1>5. OneExpiry'
  BY DEF OneExpiry, At, Inside, Alone, Frames, Armed
<1>6. ShownWhileTimed'
  BY DEF ShownWhileTimed, Timed, Busy, Inside, Alone, Armed, At, OneExpiry, Frames
<1>7. Current'
  BY DEF Current, Alone, Inside, Busy, At, Frames
<1>8. Heard'
  BY DEF Heard, VolumeIsHeard, Inside, Busy, At, Frames
<1> QED
  BY <1>1, <1>2, <1>3, <1>4, <1>5, <1>6, <1>7, <1>8 DEF IInv

LEMMA PressVolumeStep == ASSUME IInv, PressVolume PROVE IInv'
<1> USE PrikazAssumption DEF IInv, TypeOK, Overlays, Threads, PressVolume, Open, Idle, Frame, Pojacaj,
       Smanji
<1>1. TypeOK'
  BY DEF Steps
<1>2. Frames'
  BY DEF Frames, Values
<1>3. Alone'
  BY DEF Alone, Inside, Busy
<1>4. Armed'
  BY DEF Armed, At, Inside, Alone, Frames, Busy
<1>5. OneExpiry'
  BY DEF OneExpiry, At, Inside, Alone, Frames, Armed
<1>6. ShownWhileTimed'
  BY DEF ShownWhileTimed, Timed, Busy, Inside, Alone, Armed, At, OneExpiry, Frames
<1>7. Current'
  BY DEF Current, Alone, Inside, Busy, At, Frames
<1>8. Heard'
  BY DEF Heard, VolumeIsHeard, Inside, Busy, At, Frames
<1> QED
  BY <1>1, <1>2, <1>3, <1>4, <1>5, <1>6, <1>7, <1>8 DEF IInv

(* The steps of a call.  Only the thread's own frame moves.                *)
LEMMA SetVolumeStep == ASSUME IInv, SetVolume PROVE IInv'
<1> USE PrikazAssumption DEF IInv, TypeOK, Overlays, Threads, SetVolume, Goto, At
<1>1. TypeOK'
  <2>1. volumen' \in 0..MaxVolume \cup {NoLevel} /\ jacinaZvuka' \in 0..MaxVolume
    BY DEF Frames, Values
  <2>2. call' \in [Threads -> [at : Steps, o : Overlays, v : Nat, old : 0..Seconds]]
    BY DEF Steps
  <2> QED
    BY <2>1, <2>2
<1>2. Frames'
  BY DEF Frames, Values
<1>3. Alone'
  BY DEF Alone, Inside
<1>4. Armed'
  BY DEF Armed, At, Inside, Alone, Frames
<1>5. OneExpiry'
  BY DEF OneExpiry, At, Inside, Alone, Frames, Armed
<1>6. ShownWhileTimed'
  BY DEF ShownWhileTimed, Timed, Busy, Inside, Alone, Armed, At, OneExpiry, Frames
<1>7. Current'
  BY DEF Current, Alone, Inside, Busy, At, Frames
<1>8. Heard'
  BY DEF Heard, VolumeIsHeard, Inside, Busy, At, Frames
<1> QED
  BY <1>1, <1>2, <1>3, <1>4, <1>5, <1>6, <1>7, <1>8 DEF IInv

LEMMA StoreInfoStep == ASSUME IInv, NEW t \in Threads, StoreInfo(t) PROVE IInv'
<1> USE PrikazAssumption DEF IInv, TypeOK, Overlays, Threads, StoreInfo, Goto, At
<1>1. TypeOK'
  <2>1. brojKanala' \in Channels \cup {0} /\ opis' \in Channels \cup {0}
    BY DEF Frames, Values
  <2>2. call' \in [Threads -> [at : Steps, o : Overlays, v : Nat, old : 0..Seconds]]
    BY DEF Steps
  <2> QED
    BY <2>1, <2>2
<1>2. Frames'
  BY DEF Frames, Values
<1>3. Alone'
  BY DEF Alone, Inside
<1>4. Armed'
  BY DEF Armed, At, Inside, Alone, Frames
<1>5. OneExpiry'
  BY DEF OneExpiry, At, Inside, Alone, Frames, Armed
<1>6. ShownWhileTimed'
  BY DEF ShownWhileTimed, Timed, Busy, Inside, Alone, Armed, At, OneExpiry, Frames
<1>7. Current'
  BY DEF Current, Alone, Inside, Busy, At, Frames
<1>8. Heard'
  BY DEF Heard, VolumeIsHeard, Inside, Busy, At, Frames
<1> QED
  BY <1>1, <1>2, <1>3, <1>4, <1>5, <1>6, <1>7, <1>8 DEF IInv

LEMMA ClearSpecStep == ASSUME IInv, NEW t \in Threads, ClearSpec(t) PROVE IInv'
<1> USE PrikazAssumption DEF IInv, TypeOK, Overlays, Threads, ClearSpec, Goto, At, data
<1>1. TypeOK'
  BY DEF Steps
<1>2. Frames'
  BY DEF Frames, Values
<1>3. Alone'
  BY DEF Alone, Inside
<1>4. Armed'
  BY DEF Armed, At, Inside, Alone, Frames
<1>5. OneExpiry'
  BY DEF OneExpiry, At, Inside, Alone, Frames, Armed
<1>6. ShownWhileTimed'
  BY DEF ShownWhileTimed, Timed, Busy, Inside, Alone, Armed, At, OneExpiry, Frames
<1>7. Current'
  BY DEF Current, Alone, Inside, Busy, At, Frames
<1>8. Heard'
  BY DEF Heard, VolumeIsHeard, Inside, Busy, At, Frames
<1> QED
  BY <1>1, <1>2, <1>3, <1>4, <1>5, <1>6, <1>7, <1>8 DEF IInv

LEMMA FillSpecStep == ASSUME IInv, NEW t \in Threads, FillSpec(t) PROVE IInv'
<1> USE PrikazAssumption DEF IInv, TypeOK, Overlays, Threads, FillSpec, Goto, At, data
<1>1. TypeOK'
  BY DEF Steps
<1>2. Frames'
  BY DEF Frames, Values
<1>3. Alone'
  BY DEF Alone, Inside
<1>4. Armed'
  BY DEF Armed, At, Inside, Alone, Frames
<1>5. OneExpiry'
  BY DEF OneExpiry, At, Inside, Alone, Frames, Armed
<1>6. ShownWhileTimed'
  BY DEF ShownWhileTimed, Timed, Busy, Inside, Alone, Armed, At, OneExpiry, Frames
<1>7. Current'
  BY DEF Current, Alone, Inside, Busy, At, Frames
<1>8. Heard'
  BY DEF Heard, VolumeIsHeard, Inside, Busy, At, Frames
<1> QED
  BY <1>1, <1>2, <1>3, <1>4, <1>5, <1>6, <1>7, <1>8 DEF IInv

(* The timer gets its full time; an expiry not handled yet is recorded.    *)
LEMMA ArmStep == ASSUME IInv, NEW t \in Threads, Arm(t) PROVE IInv'
<1> USE PrikazAssumption DEF IInv, TypeOK, Overlays, Threads
<1> DEFINE p == call[t].o
<1>1. TypeOK'
  BY DEF Arm, data, Steps
<1>2. UNCHANGED <<ispis, brojKanala, opis, jacinaZvuka, volumen, trenutni, timerSpec, expired>>
  BY DEF Arm, data
<1>3. /\ call[t].at = "arm" /\ p \in Overlays
      /\ call'[t].o = p /\ call'[t].v = call[t].v
      /\ call'[t].at = IF p = "info" THEN "writeBack" ELSE "flag"
  BY DEF Arm, Steps
<1>4. \A u \in Threads \ {t} : call'[u] = call[u]
  BY DEF Arm, Steps
<1>5. /\ timer'[p] = IF p = "info" THEN timerSpec ELSE Seconds
      /\ disturbed'[p] = IF disturbed[p] = "no" /\ expired[p] THEN "late" ELSE disturbed[p]
  BY <1>3 DEF Arm
<1>6. \A o \in Overlays \ {p} : timer'[o] = timer[o] /\ disturbed'[o] = disturbed[o]
  BY <1>3 DEF Arm
<1> HIDE DEF p
<1>7. Frames'
  BY <1>3, <1>4 DEF Frames, Values, p
<1>8. Alone'
  <2>1. \A u \in Threads, o \in Overlays : Inside(u, o)' <=> Inside(u, o)
    BY <1>3, <1>4 DEF Inside, p
  <2>2. \A o \in Overlays : disturbed'[o] = "overlap" <=> disturbed[o] = "overlap"
    BY <1>3, <1>5, <1>6
  <2> QED
    BY <2>1, <2>2 DEF Alone
<1>9. Armed'
  BY <1>2, <1>3, <1>4, <1>5, <1>6 DEF Armed, At, Inside, Alone, Frames, p
<1>10. OneExpiry'
  BY <1>2, <1>3, <1>4, <1>5, <1>6 DEF OneExpiry, At, Inside, Alone, Frames, Armed, p
<1>11. ShownWhileTimed'
  <2>1. \A o \in Overlays : ~Busy(o)' => o # p /\ ~Busy(o)
    BY <1>3, <1>4 DEF Busy, Inside, p
  <2> SUFFICES ASSUME NEW o \in Overlays, ~Busy(o)'
               PROVE  /\ disturbed'[o] = "no" => (ispis'[o] <=> Timed(o)')
                      /\ disturbed'[o] = "late" /\ ispis'[o] => Timed(o)'
    BY DEF ShownWhileTimed
  <2>2. o \in Overlays \ {p} /\ ~Busy(o)
    BY <2>1
  <2>3. disturbed'[o] = disturbed[o] /\ ispis'[o] = ispis[o] /\ (Timed(o)' <=> Timed(o))
    BY <1>2, <1>6, <2>2 DEF Timed
  <2> QED
    BY <2>2, <2>3 DEF ShownWhileTimed
<1>12. Current'
  BY <1>2, <1>3, <1>4, <1>5, <1>6 DEF Current, Alone, Inside, Busy, At, Frames, p
<1>13. Heard'
  <2>1. Inside("rc", "zvuk")' /\ call'["rc"].at # "volume"
          => Inside("rc", "zvuk") /\ call["rc"].at # "volume"
    BY <1>2, <1>3, <1>4 DEF Inside, p
  <2>2. ~Busy("zvuk")' => ~Busy("zvuk")
    BY <1>3, <1>4 DEF Busy, Inside, p
  <2>3. UNCHANGED <<volumen, jacinaZvuka, ispis>>
    BY <1>2
  <2> QED
    BY <2>1, <2>2, <2>3 DEF Heard, VolumeIsHeard
<1> QED
  BY <1>1, <1>7, <1>8, <1>9, <1>10, <1>11, <1>12, <1>13 DEF IInv

LEMMA WriteBackStep == ASSUME IInv, NEW t \in Threads, WriteBack(t) PROVE IInv'
<1> USE PrikazAssumption DEF IInv, TypeOK, Overlays, Threads, WriteBack, At, data
<1>1. TypeOK'
  BY DEF Steps
<1>2. Frames'
  <2>1. call'[t].o = "info" /\ call'[t].v = call[t].v /\ call'[t].at = "flag"
    BY DEF Steps
  <2>2. \A u \in Threads \ {t} : call'[u] = call[u]
    BY DEF Steps
  <2> QED
    BY SMTT(30), <2>1, <2>2 DEF Frames, Values
<1>3. Alone'
  BY DEF Alone, Inside
<1>4. Armed'
  BY DEF Armed, At, Inside, Alone, Frames
<1>5. OneExpiry'
  BY DEF OneExpiry, At, Inside, Alone, Frames, Armed
<1>6. ShownWhileTimed'
  BY DEF ShownWhileTimed, Timed, Busy, Inside, Alone, Armed, At, OneExpiry, Frames
<1>7. Current'
  BY DEF Current, Alone, Inside, Busy, At, Frames
<1>8. Heard'
  BY DEF Heard, VolumeIsHeard, Inside, Busy, At, Frames
<1> QED
  BY <1>1, <1>2, <1>3, <1>4, <1>5, <1>6, <1>7, <1>8 DEF IInv

(* The call ends: Armed becomes Timed of the overlay that is up.           *)
LEMMA RaiseFlagStep == ASSUME IInv, NEW t \in Threads, RaiseFlag(t) PROVE IInv'
<1> USE PrikazAssumption DEF IInv, TypeOK, Overlays, Threads, RaiseFlag, Idle, Frame, data
<1>1. TypeOK'
  BY DEF Steps
<1>2. Frames'
  BY DEF Frames, Values
<1>3. Alone'
  BY DEF Alone, Inside
<1>4. Armed'
  BY DEF Armed, At, Inside, Alone, Frames
<1>5. OneExpiry'
  BY DEF OneExpiry, At, Inside, Alone, Frames, Armed
<1>6. ShownWhileTimed'
  BY DEF ShownWhileTimed, Timed, Busy, Inside, Alone, Armed, At, OneExpiry, Frames
<1>7. Current'
  BY DEF Current, Alone, Inside, Busy, At, Frames
<1>8. Heard'
  BY DEF Heard, VolumeIsHeard, Inside, Busy, At, Frames
<1> QED
  BY <1>1, <1>2, <1>3, <1>4, <1>5, <1>6, <1>7, <1>8 DEF IInv

(* No thread is in a call.  A timer that ends leaves its expiry behind.    *)
LEMMA TickStep == ASSUME IInv, Tick PROVE IInv'
<1> USE PrikazAssumption DEF IInv, TypeOK, Overlays, Threads, Tick, Quiet, Idle, Frame, data
<1>1. TypeOK'
  BY DEF Steps
<1>2. Frames'
  BY DEF Frames, Values
<1>3. Alone'
  BY DEF Alone, Inside
<1>4. Armed'
  BY DEF Armed, At, Inside, Alone, Frames
<1>5. OneExpiry'
  BY DEF OneExpiry, At, Inside, Alone, Frames, Armed
<1>6. ShownWhileTimed'
  BY DEF ShownWhileTimed, Timed, Busy, Inside, Alone, Armed, At, OneExpiry, Frames
<1>7. Current'
  BY DEF Current, Alone, Inside, Busy, At, Frames
<1>8. Heard'
  BY DEF Heard, VolumeIsHeard, Inside, Busy, At, Frames
<1> QED
  BY <1>1, <1>2, <1>3, <1>4, <1>5, <1>6, <1>7, <1>8 DEF IInv

(* By OneExpiry the timer of an undisturbed overlay does not run any more. *)
LEMMA ExpireStep == ASSUME IInv, NEW o \in Overlays, Expire(o) PROVE IInv'
<1> USE PrikazAssumption DEF IInv, TypeOK, Overlays, Threads, Expire, data
<1>1. TypeOK'
  BY DEF Steps
<1>2. Frames'
  BY DEF Frames, Values
<1>3. Alone'
  BY DEF Alone, Inside, Busy
<1>4. Armed'
  BY DEF Armed, At, Inside, Alone, Frames, Busy
<1>5. OneExpiry'
  BY DEF OneExpiry, At, Inside, Alone, Frames, Armed
<1>6. ShownWhileTimed'
  BY DEF ShownWhileTimed, Timed, Busy, Inside, Alone, Armed, At, OneExpiry, Frames
<1>7. Current'
  BY DEF Current, Alone, Inside, Busy, At, Frames
<1>8. Heard'
  BY DEF Heard, VolumeIsHeard, Inside, Busy, At, Frames
<1> QED
  BY <1>1, <1>2, <1>3, <1>4, <1>5, <1>6, <1>7, <1>8 DEF IInv


LEMMA StutterStep == ASSUME IInv, UNCHANGED vars PROVE IInv'
BY DEF vars, IInv, TypeOK, Frames, Alone, Armed, OneExpiry, ShownWhileTimed, Timed, Current,
       Heard, VolumeIsHeard, At, Inside, Busy

LEMMA NextIInv == IInv /\ [Next]_vars => IInv'
<1> SUFFICES ASSUME IInv, [Next]_vars PROVE IInv'
  OBVIOUS
<1>1. CASE Key
  BY <1>1, PressInfoStep, PressVolumeStep, PressDigitStep DEF Key
<1>2. CASE \E c \in Channels : Tune(c)
  BY <1>2, TuneStep
<1>3. CASE SetVolume
  BY <1>3, SetVolumeStep
<1>4. CASE \E t \in Threads : CallStep(t)
  BY <1>4, StoreInfoStep, ClearSpecStep, FillSpecStep, ArmStep, WriteBackStep, RaiseFlagStep
     DEF CallStep
<1>5. CASE Tick
  BY <1>5, TickStep
<1>6. CASE \E o \in Overlays : Expire(o)
  BY <1>6, ExpireStep
<1>7. CASE UNCHANGED vars
  BY <1>7, StutterStep
<1> QED
  BY <1>1, <1>2, <1>3, <1>4, <1>5, <1>6, <1>7 DEF Next

LEMMA Invariant == Spec => []IInv
<1>1. Init => IInv
  BY InitIInv
<1>2. IInv /\ [Next]_vars => IInv'
  BY NextIInv
<1> QED
  BY <1>1, <1>2, PTL DEF Spec

-----------------------------------------------------------------------------
(* Every variable keeps its type; no run of V+, V- and MUTE leads to a     *)
(* volume for which render has no picture.                                 *)
THEOREM TypeCorrect == Spec => []TypeOK
<1>1. IInv => TypeOK
  BY DEF IInv
<1> QED
  BY <1>1, Invariant, PTL

(* An overlay whose calls did not overlap is up exactly while its timer    *)
(* runs or its expiry is being handled: the struct that prikaziInfo's two  *)
(* callers share, and timer_settime overwrites, does no harm to it.        *)
THEOREM OverlayTimed == Spec => []ShownWhileTimed
<1>1. IInv => ShownWhileTimed
  BY DEF IInv
<1> QED
  BY <1>1, Invariant, PTL

(* The info overlay shows the pids of the channel that is tuned, unless    *)
(* an INFO met the task's own call.                                        *)
THEOREM InfoCurrent == Spec => []InfoIsCurrent
<1>1. IInv => InfoIsCurrent
  BY DEF IInv, Current, InfoIsCurrent
<1> QED
  BY <1>1, Invariant, PTL

(* Unless the player refused the last level it was given, the volume on    *)
(* the screen is the one it plays at, although V+ and V- compute the next  *)
(* level from the screen's, also after one that was refused.               *)
THEOREM VolumeHeard == Spec => []VolumeIsHeard
<1>1. IInv => VolumeIsHeard
  BY DEF IInv, Heard
<1> QED
  BY <1>1, Invariant, PTL
=============================================================================
