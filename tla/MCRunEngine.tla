---------------------------- MODULE MCRunEngine ----------------------------
(* Small instances of RunEngine. *)
EXTENDS RunEngine, TLC

CONSTANTS r1, r2, w1, w2, hostA, hostB

(* Two runs that meet on one target. *)
SharedTarget == [r \in Run |-> [i \in Steps |-> IF i = 1 THEN hostA ELSE IF r = r1 THEN hostA ELSE hostB]]

AllIdempotent == [r \in Run |-> [i \in Steps |-> TRUE]]

(* The second step of each plan is not declared idempotent. *)
FirstIdempotent == [r \in Run |-> [i \in Steps |-> i = 1]]

Workers == Permutations(Holder)
=============================================================================
