--------------------------- MODULE MCObjectBytes ---------------------------
(* Small bodies for TLC.  A document holds 3 bytes, a Telegram read 2, a   *)
(* prefetch window 4: none of the boundaries but the first coincide.       *)
EXTENDS ObjectBytes

MCFirstBody == <<8, 9, 8>>

\* An empty body, one that fills a document and declares its length, one in two
\* aws-chunked frames, and one that declares a wrong length.
MCSources ==
  LET S(k, f, d) == [kind |-> k, frames |-> f, declared |-> d]
  IN  {S("plain", <<<<>>>>, -1), S("plain", <<<<1, 2, 3>>>>, 3),
       S("chunked", <<<<4, 5>>, <<6, 7>>>>, -1), S("chunked", <<<<1>>>>, 2)}

\* Offsets within and at the ends of documents, reads, windows and objects (the
\* longest has 8 bytes).
MCRanges ==
  LET Offs == {0, 1, 2, 4, 7, 8}
      H(k, n, a, b) == [kind |-> k, n |-> n, first |-> a, last |-> b]
  IN  {NoHeader} \cup {H("suffix", n, 0, 0) : n \in Offs} \cup {H("from", 0, a, 0) : a \in Offs}
        \cup {H("between", 0, a, b) : a, b \in Offs}

\* A part copy of a range that begins and ends within a document.
MCCopyRanges == {[NoHeader EXCEPT !.kind = "between", !.first = 1, !.last = 3]}
=============================================================================
