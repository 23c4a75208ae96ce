------------------------- MODULE MCExternalExecutor -------------------------
(* Small instances of ExternalExecutor. *)
EXTENDS ExternalExecutor, TLC

CONSTANTS r1, r2, w1, h1, h2, x1, sweep, hostA, hostB

(* Every run works on a target of its own. *)
OwnTarget == [r \in Run |-> [i \in Steps |-> IF r = r1 THEN hostA ELSE hostB]]

AllIdempotent == [r \in Run |-> [i \in Steps |-> TRUE]]

Handlers == Permutations(Handler \ {Sweeper})
=============================================================================
