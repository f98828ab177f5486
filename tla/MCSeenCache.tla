----------------------------- MODULE MCSeenCache -----------------------------
(* Constants of the de-duplication cache runs. *)
EXTENDS SeenCache

CONSTANTS k1, k2, k3

Symm == Permutations(Callers)

MCKeys == {k1, k2, k3}

(* <<protoID, msgID>>: redelivery of one message under another protocol id, *)
(* a message without a protocol id, and a message of its own.               *)
MCKeySeqs == {<<k1, k2>>, <<NoKey, k2>>, <<k3>>}
=============================================================================
