-------------------------- MODULE MCObjectGateway --------------------------
(* Small instances of ObjectGateway for TLC.                               *)
EXTENDS ObjectGateway, TLC, FiniteSets

CONSTANTS w1, w2, b1, k1, k2, x, y, z

\* A body of one message and one of two.
MCBodies == {<<x>>, <<y, z>>}

MCNames == {b1} \X {k1, k2}

\* Single deletes of each key, the bulk deletes of both and an empty one.
MCDeleteLists ==
  {<<>>} \cup {<<n>> : n \in MCNames} \cup {l \in MCNames \X MCNames : l[1] # l[2]}

MCSymmetry == Permutations({w1, w2}) \cup Permutations({k1, k2})
=============================================================================
