----------------------------- MODULE ByteStream -----------------------------
(***************************************************************************)
(* What the reader package promises its consumer (reader.go:9-16): the     *)
(* bytes of one range, each delivered once and strictly in order, then one *)
(* end that sticks.  The byte at offset o is modelled by o itself.         *)
(***************************************************************************)
EXTENDS Integers, Sequences

CONSTANT Ranges   \* the ranges a stream may be opened for, [start, end)

VARIABLES
  range,      \* the range of this stream
  delivered,  \* the bytes the consumer has read
  end,        \* "open", or how the stream ended
  cancelled   \* the context was cancelled

streamVars == <<range, delivered, end, cancelled>>

Init ==
  /\ range \in Ranges
  /\ delivered = <<>>
  /\ end = "open"
  /\ cancelled = FALSE

\* The next byte to deliver.
Position == range.start + Len(delivered)

\* Some of the bytes that come next, at least one.
Deliver ==
  /\ end = "open"
  /\ \E n \in 1..range.end - Position :
       delivered' = delivered \o [i \in 1..n |-> Position + i - 1]
  /\ UNCHANGED <<range, end, cancelled>>

\* io.EOF: all bytes were delivered, or the context was cancelled.
EOF ==
  /\ end = "open"
  /\ Position = range.end \/ cancelled
  /\ end' = "eof"
  /\ UNCHANGED <<range, delivered, cancelled>>

\* A chunk that could not be fetched.
Fail ==
  /\ end = "open"
  /\ end' = "error"
  /\ UNCHANGED <<range, delivered, cancelled>>

Cancel ==
  /\ cancelled' = TRUE
  /\ UNCHANGED <<range, delivered, end>>

Next == Deliver \/ EOF \/ Fail \/ Cancel

Spec == Init /\ [][Next]_streamVars
=============================================================================
