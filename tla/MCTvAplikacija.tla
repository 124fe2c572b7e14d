--------------------------- MODULE MCTvAplikacija ---------------------------
(* Instances of TvAplikacija for TLC: the radio screen, which covers what  *)
(* was drawn before it, and one overlay; the radio screen alone; or none.  *)
EXTENDS TvAplikacija

RadioAndInfo == <<"radio", "info">>
RadioOnly == <<"radio">>
NoOverlay == <<>>
=============================================================================
