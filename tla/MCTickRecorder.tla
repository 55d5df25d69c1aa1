--------------------------- MODULE MCTickRecorder ---------------------------
(* An instance of TickRecorder: ticks enough for the two flushing tasks to *)
(* hold one each while a third arrives, waits of one, two and four.        *)
EXTENDS TickRecorder
=============================================================================
