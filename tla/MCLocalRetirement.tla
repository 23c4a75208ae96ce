------------------------- MODULE MCLocalRetirement -------------------------
(***************************************************************************)
(* A repository for TLC: two points share a pack, so that retiring the     *)
(* older one asks restic to repack what the younger one still needs.       *)
(***************************************************************************)
EXTENDS LocalRetirement, TLC

CONSTANTS p1, p2, w1, r1, t1, t2, c1, c2, k1, k2

TwoPoints == <<p1, p2>>

OnePack == <<k1, k1>>

(* p1 needs c1, p2 and every new backup need c2; c2 was first written with *)
(* p1, in k1. *)
HoldsOf == [k \in Packs |-> IF k = k1 THEN {c1, c2} ELSE {c2}]

NeedsOf == [p \in Points |-> IF p = p1 THEN {c1} ELSE {c2}]

(* A verification or a backup beside the first retirement; both beside the *)
(* second one, which can only remove p2 once a newer point is last-good.   *)
Beginnings ==
    {[gone |-> {}, cast |-> {r1, t1}], [gone |-> {}, cast |-> {w1, t1}],
     [gone |-> {p1}, cast |-> {w1, r1, t1}]}
=============================================================================
