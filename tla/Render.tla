------------------------------- MODULE Render -------------------------------
(***************************************************************************)
(* iscrtavanjeGrafike.c: the thread that draws, frame after frame, every   *)
(* overlay whose flag is up, and the two functions with which main starts  *)
(* and stops it.                                                           *)
(*                                                                         *)
(* The flags are read bare, one by one, while the other threads raise and  *)
(* lower them.  Drawing goes to a back buffer that is shown at the end of  *)
(* the frame.  Then the thread signals grafikaUslov, on which              *)
(* deinicijalizacijaGrafike waits once it has cleared crtajGrafiku; the    *)
(* wait tests no predicate, and without a waiter the signal is lost.       *)
(*                                                                         *)
(* main is the control point of the main thread: TvAplikacija has its      *)
(* other steps.                                                            *)
(***************************************************************************)
EXTENDS Integers, Sequences

CONSTANT Elementi   \* the overlays, in the order in which they are drawn

ASSUME ElementiAssumption == Elementi \in Seq({"radio", "info", "broj", "zvuk"})

VARIABLES
  main,
  crtajGrafiku,
  ispis,        \* the flags: ispisRadio, ispisInformacija, ...
  nit,          \* control point of the render thread
  red,          \* how many elements of this frame have been looked at
  slika,        \* what is in the back buffer
  ekran         \* what is on the screen

Shown == {Elementi[i] : i \in 1..Len(Elementi)}

flags  == <<crtajGrafiku, ispis>>
frame  == <<red, slika, ekran>>

RenderInit ==
  /\ crtajGrafiku = FALSE
  /\ ispis = [e \in Shown |-> FALSE]
  /\ nit = "none"
  /\ red = 0
  /\ slika = {}
  /\ ekran = {}

-----------------------------------------------------------------------------
(* The thread render                                                       *)

(* while (grafikaInfo.crtajGrafiku == true)                                *)
CheckDrawing ==
  /\ nit = "check"
  /\ nit' = IF crtajGrafiku THEN "draw" ELSE "ended"
  /\ UNCHANGED <<main, flags, frame>>

(* The radio screen is a black rectangle over everything drawn before.     *)
Over(e) == IF e = "radio" THEN {e} ELSE slika \cup {e}

DrawAlways ==  \* mutant: a flag that was lowered is not noticed
  /\ nit = "draw"
  /\ red < Len(Elementi)
  /\ red' = red + 1
  /\ slika' = IF ispis[Elementi[red + 1]] \/ Elementi[red + 1] \in ekran
              THEN Over(Elementi[red + 1]) ELSE slika
  /\ UNCHANGED <<main, flags, nit, ekran>>

(* The next element is drawn if its flag is up at this moment.             *)
Draw ==
  /\ nit = "draw"
  /\ red < Len(Elementi)
  /\ red' = red + 1
  /\ slika' = IF ispis[Elementi[red + 1]] THEN Over(Elementi[red + 1]) ELSE slika
  /\ UNCHANGED <<main, flags, nit, ekran>>

(* Flip and pthread_cond_signal(&grafikaUslov); what the next frame begins *)
(* with, obrisiEkran, only concerns this thread.                           *)
FlipAndSignal ==
  /\ nit = "draw"
  /\ red = Len(Elementi)
  /\ nit' = "check"
  /\ ekran' = slika
  /\ slika' = {}
  /\ red' = 0
  /\ main' = IF main = "waitRender" THEN "joinRender" ELSE main
  /\ UNCHANGED flags

RenderStep == CheckDrawing \/ Draw \/ FlipAndSignal

-----------------------------------------------------------------------------
(* inicijalizacijaGrafike and deinicijalizacijaGrafike, run by main        *)

(* Timers, DirectFB and the surface are created, drawing is switched on,   *)
(* and the thread is created unless that fails.                            *)
StartDrawing ==
  /\ main = "initGrafike"
  /\ crtajGrafiku' = TRUE
  /\ \/ main' = "enterExit" /\ nit' = "check"
     \/ main' = "failed" /\ UNCHANGED nit
  /\ UNCHANGED <<ispis, frame>>

StopDrawing ==
  /\ main = "stopRender"
  /\ main' = "enterRender"
  /\ crtajGrafiku' = FALSE
  /\ UNCHANGED <<ispis, nit, frame>>

(* The mutex is taken and the wait begins, whatever the thread does.       *)
EnterRenderWait ==
  /\ main = "enterRender"
  /\ main' = "waitRender"
  /\ UNCHANGED <<flags, nit, frame>>

JoinRenderEarly ==  \* mutant: the signal is taken for the end of the thread
  /\ main = "joinRender"
  /\ main' = "stopRc"
  /\ UNCHANGED <<flags, nit, frame>>

(* The join, then the timers are deleted and the surface is released.      *)
JoinRender ==
  /\ main = "joinRender"
  /\ nit = "ended"
  /\ main' = "stopRc"
  /\ UNCHANGED <<flags, nit, frame>>

GraphicsMainStep == StartDrawing \/ StopDrawing \/ EnterRenderWait \/ JoinRender

-----------------------------------------------------------------------------
(* Types of the variables of graphics.                                     *)
RenderTypeOK ==
  /\ crtajGrafiku \in BOOLEAN
  /\ ispis \in [Shown -> BOOLEAN]
  /\ nit \in {"none", "check", "draw", "ended"}
  /\ red \in 0..Len(Elementi)
  /\ slika \subseteq Shown
  /\ ekran \subseteq Shown
=============================================================================
