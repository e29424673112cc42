------------------------- MODULE MCMultipartGateway -------------------------
(* Small instances of MultipartGateway for TLC.                            *)
EXTENDS MultipartGateway

CONSTANTS w1, w2, b1, k1, k2, u1, x, y, z

\* One body below the minimum part size and one that reaches it.
MCBodies == {<<x>>, <<y, z>>}

\* Single deletes of each key.
MCDeleteLists == {<<<<b1, k>>>> : k \in Keys}

MCEntries == [num : PartNumbers, etag : Bodies]

\* Completions that list one part.
MCSingleLists == {<<e>> : e \in MCEntries}

\* Completions that list two parts, in any order and with any ETags.
MCPairLists == {<<d, e>> : d, e \in MCEntries}

\* One body, for the races: message ids tell the versions apart.
MCOneBody == {<<x>>}

MCRaceSymmetry == Permutations({w1, w2}) \cup Permutations({k1, k2})

MCSymmetry == Permutations({w1, w2})
=============================================================================
