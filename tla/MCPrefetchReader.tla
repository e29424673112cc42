-------------------------- MODULE MCPrefetchReader --------------------------
(* Small instances of PrefetchReader for TLC.                              *)
EXTENDS PrefetchReader

\* Every range of the object, empty ones included, aligned or not.
MCRanges == {r \in [start : 0..ObjectSize, end : 0..ObjectSize] : r.start <= r.end}

\* The whole object.
MCWhole == {[start |-> 0, end |-> ObjectSize]}
=============================================================================
