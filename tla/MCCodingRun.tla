---------------------------- MODULE MCCodingRun ----------------------------
(* A small instance of CodingRun.                                          *)
EXTENDS CodingRun

CONSTANTS t1, t2

MCThreads == {t1, t2}
OneThread == {t1}
MCActive == <<"Todo", "In Progress">>

=============================================================================
