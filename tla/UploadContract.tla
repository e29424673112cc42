--------------------------- MODULE UploadContract ---------------------------
(***************************************************************************)
(* What storing a body promises, however its bytes arrive and whatever     *)
(* fails on the way: the request either ends with the whole body stored,   *)
(* cut into documents of ChunkSize bytes of which only the last may be     *)
(* shorter, each row naming its offset; or it ends with nothing stored.    *)
(* ObjectGateway takes Upload and the commit after it for this.            *)
(***************************************************************************)
EXTENDS Integers, Sequences, FiniteSetsExt

CONSTANTS
  ChunkSize,  \* bytes of a full document
  Bodies      \* the bodies clients mean to store

VARIABLES
  state,  \* "none", "running", "stored" or "failed"
  body,   \* the body the client means to store
  rows    \* the rows stored, each with the bytes its message holds

vars == <<state, body, rows>>

\* The number of documents a body of n bytes is cut into.
Pieces(n) == (n + ChunkSize - 1) \div ChunkSize

Cut(b) ==
  [i \in 1..Pieces(Len(b)) |->
     LET lo == (i - 1) * ChunkSize
         hi == Min({lo + ChunkSize, Len(b)})
     IN  [offset |-> lo, size |-> hi - lo, data |-> SubSeq(b, lo + 1, hi)]]

Init == state = "none" /\ body = <<>> /\ rows = <<>>

Begin ==
  /\ state = "none"
  /\ state' = "running"
  /\ body' \in Bodies
  /\ rows' = <<>>

Store ==
  /\ state = "running"
  /\ state' = "stored"
  /\ rows' = Cut(body)
  /\ UNCHANGED body

Fail ==
  /\ state = "running"
  /\ state' = "failed"
  /\ UNCHANGED <<body, rows>>

Forget ==
  /\ state \in {"stored", "failed"}
  /\ state' = "none"
  /\ body' = <<>>
  /\ rows' = <<>>

Next == Begin \/ Store \/ Fail \/ Forget

\* What a request may do; and every request ends.
SafeSpec == Init /\ [][Next]_vars

Spec == SafeSpec /\ WF_vars(Store \/ Fail)
=============================================================================
