-------------------------- MODULE ChannelSelector --------------------------
(***************************************************************************)
(* What the stream controller promises its callers: the channel wanted     *)
(* last is tuned in the end, one channel at a time, and every channel that *)
(* is tuned was wanted when its tuning began.                              *)
(*                                                                         *)
(* An abstraction of channelUp, channelDown, promenaKanala and             *)
(* startChannel in stream_controller.c; StreamController implements it.    *)
(***************************************************************************)
EXTENDS Integers

CONSTANTS Channels, FirstChannel, NoChannel

VARIABLES
  wanted,   \* programNumber
  tuning,   \* the channel startChannel is switching to, or NoChannel
  tuned,    \* currentChannel, NoChannel before the first
  on        \* FALSE from the moment the receiver is told to stop

vars == <<wanted, tuning, tuned, on>>

Init ==
  /\ wanted = FirstChannel
  /\ tuning = NoChannel
  /\ tuned = NoChannel
  /\ on = TRUE

(* A key selects a channel, at any moment.                                 *)
Want(c) == on /\ wanted' = c /\ UNCHANGED <<tuning, tuned, on>>

(* startChannel(programNumber) is called.                                  *)
Begin == tuning = NoChannel /\ tuning' = wanted /\ UNCHANGED <<wanted, tuned, on>>

(* currentChannel is stored.                                               *)
Finish ==
  /\ tuning # NoChannel
  /\ tuned' = tuning
  /\ tuning' = NoChannel
  /\ UNCHANGED <<wanted, on>>

Stop == on /\ on' = FALSE /\ UNCHANGED <<wanted, tuning, tuned>>

Next == (\E c \in Channels : Want(c)) \/ Begin \/ Finish \/ Stop

(* While the receiver is on, a channel that is wanted and not tuned does   *)
(* not wait forever, and a tuning that began ends.                         *)
Fairness == /\ WF_vars(on /\ wanted # tuned /\ Begin)
            /\ WF_vars(on /\ Finish)

SafeSpec == Init /\ [][Next]_vars

Spec == SafeSpec /\ Fairness

=============================================================================
