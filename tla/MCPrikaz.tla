------------------------------ MODULE MCPrikaz ------------------------------
(* Instances of Prikaz for TLC.  Before the first channel is tuned, 0 is   *)
(* current, so one channel is enough for what is shown to be out of date.  *)
EXTENDS Prikaz

OneChannel == {1}
=============================================================================
