----------------------------- MODULE MCLogging ------------------------------
(* Levels around the minimum; threads that log records of any of them.       *)
EXTENDS Logging

CONSTANTS t1, t2, main, EmptyString, None

MCThread == {t1, t2}
MCSender == {t1, t2, main}
MCLevel == 0..2
MCMessage == MCLevel \cup {EmptyString}
=============================================================================
