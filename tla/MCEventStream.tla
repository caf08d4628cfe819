---------------------------- MODULE MCEventStream ----------------------------
(* Small instances of EventStream for TLC.                                   *)
EXTENDS EventStream, TLC

\* Connections are interchangeable, and so are the tasks a client may read.
Symmetry == Permutations(Conn) \cup Permutations(Readable)
================================================================================
