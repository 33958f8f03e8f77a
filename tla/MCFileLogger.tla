---------------------------- MODULE MCFileLogger ----------------------------
(* Small instances of FileLogger for TLC. *)
EXTENDS FileLogger, TLC

CONSTANTS w1, n1, n2

\* Debug messages and errors of a worker, the fatal ones of main().
Types == [t \in Thread |-> IF t = Main THEN {3} ELSE {0, 2}]

\* Another file, and the buffer disabled.
Buffered == [fileName |-> n1, bufferSize |-> 2]
Direct == [fileName |-> n2, bufferSize |-> 0]
BothSettings == {Buffered, Direct}
OneSetting == {Buffered}
=============================================================================
