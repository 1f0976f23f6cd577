------------------------------ MODULE MCStartup ------------------------------
(* Instances of Startup for TLC.                                           *)
EXTENDS Startup

\* Nothing given; everything too small; everything too large; a file name
\* that is given and empty.
SomeFiles == { File(0, 0, 0, NULL, NULL, NULL),
               File(-1, -1, -1, "x", "x", NULL),
               File(70000, 7, MaxThreads + 1, NoName, NULL, "x") }

\* Every table of up to three rows.
SmallTables == UNION {[1..n -> BOOLEAN] : n \in 0..3}
=============================================================================
