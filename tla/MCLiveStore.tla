---------------------------- MODULE MCLiveStore -----------------------------
(* Two aircraft, one subscriber whose queue holds two events. *)
EXTENDS LiveStore, TLC

CONSTANTS a1, a2, c1
MCAircraft  == {a1, a2}
MCConsumers == {c1}
Symmetric   == Permutations(MCAircraft)
=============================================================================
