-------------------------- MODULE MCBreakerControl --------------------------
(***************************************************************************)
(* Two requests at a time, enough for one to be overtaken by another, and  *)
(* two limits, so that an automatic reason can turn into another one.      *)
(***************************************************************************)
EXTENDS BreakerControl
=============================================================================
