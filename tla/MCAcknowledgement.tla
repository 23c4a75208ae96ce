------------------------- MODULE MCAcknowledgement -------------------------
(* Small instances of Acknowledgement. *)
EXTENDS Acknowledgement, TLC

CONSTANTS h1, h2, k1, k2, c1

(* Handlers are alike, and so are keys. *)
Alike == Permutations(Handler) \cup Permutations(Key)
=============================================================================
