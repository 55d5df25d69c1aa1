--------------------------- MODULE MCEngineCycle ---------------------------
(***************************************************************************)
(* Small instances of EngineCycle: three names, a sweep after every        *)
(* second, so that a cycle has a leading, an interleaved and a final sweep *)
(* and a tail the stride does not divide; two slots for them, so that the  *)
(* third signal meets a full book; a cooldown of one minute.               *)
(***************************************************************************)
EXTENDS EngineCycle
=============================================================================
