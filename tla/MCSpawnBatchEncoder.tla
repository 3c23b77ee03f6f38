------------------------- MODULE MCSpawnBatchEncoder -------------------------
(* Small instance of SpawnBatchEncoder for TLC. *)
EXTENDS SpawnBatchEncoder

MCPartSizes == {1, 3, 6, 7, 8}
MCSummarySizes == {4, 20}
==============================================================================
