--------------------------- MODULE MCListObjects ---------------------------
(* A small bucket for TLC: 0 is a letter, 1 the delimiter "/", 2 is 0xff.  *)
EXTENDS ListObjects

\* a, a/a, a/\xff, \xff
MCKeys == {<<0>>, <<0, 1, 0>>, <<0, 1, 2>>, <<2>>}

\* No prefix, one up to the delimiter, one whose bound needs the carry, one
\* without upper bound.
MCPrefixes == {<<>>, <<0, 1>>, <<0, 1, 2>>, <<2>>}

MCDelimiters == {<<>>, <<1>>}

MCStartKeys == {<<>>, <<0>>}
=============================================================================
