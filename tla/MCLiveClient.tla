---------------------------- MODULE MCLiveClient ----------------------------
(* One aircraft, one tab, one subscription. *)
EXTENDS LiveClient

CONSTANTS a1, ws, t1
OneAircraft == {a1}
OneClient   == {t1}
OnlySocket  == {ws}
=============================================================================
