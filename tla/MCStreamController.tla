------------------------- MODULE MCStreamController -------------------------
(* Instances of StreamController for TLC.                                  *)
EXTENDS StreamController

S(kind, pid) == [kind |-> kind, pid |-> pid]

(* A television channel, a radio and a channel with teletext whose second  *)
(* video stream must be ignored.                                           *)
ThreeChannels == <<
  << S("video", 11), S("audio", 12) >>,
  << S("audio", 22) >>,
  << S("teletext", 31), S("video", 33), S("video", 34), S("audio", 32) >> >>

(* Two television channels.                                                *)
TwoChannels == <<
  << S("video", 11), S("audio", 12) >>,
  << S("audio", 22), S("video", 21), S("teletext", 23) >> >>

(* A radio and a television channel whose PMT has one entry too many for   *)
(* MaxPmt = 1.                                                             *)
CrowdedChannels == <<
  << S("audio", 22) >>,
  << S("video", 11), S("audio", 12) >> >>

(* A television channel and one without audio.                             *)
SilentChannel == <<
  << S("video", 11), S("audio", 12) >>,
  << S("video", 21) >> >>
=============================================================================
