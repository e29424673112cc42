-------------------------- MODULE MCChunkDownload --------------------------
(* Small instances of ChunkDownload for TLC.                               *)
EXTENDS ChunkDownload, TLC

CONSTANTS r1, r2

MCSymmetry == Permutations({r1, r2})
=============================================================================
