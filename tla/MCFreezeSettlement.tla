------------------------- MODULE MCFreezeSettlement -------------------------
(* Small instances of FreezeSettlement. *)
EXTENDS FreezeSettlement, TLC

CONSTANTS alice, guest, w1, w2

WorkerSymmetry == Permutations(Workers)
=============================================================================
