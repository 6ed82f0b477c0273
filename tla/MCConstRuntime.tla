--------------------------- MODULE MCConstRuntime ---------------------------
(* Two threads over four addresses, so that freed memory is soon used again. *)
EXTENDS ConstRuntime

CONSTANTS t1, t2, vector, string, foo, bar

MCThreads  == {t1, t2}
MCSites    == {vector, string}
MCSymbols  == {foo, bar}
MCAddrs    == 1 .. 4
MCKeys     == {1, 2}

MCDistinct(s) == IF s = vector THEN 1 ELSE 2

\* The vector has no elements: its blob is empty and the next one starts
\* where it starts.
MCShared(s) == 1
=============================================================================
