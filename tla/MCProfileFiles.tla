---------------------------- MODULE MCProfileFiles ----------------------------
(* Instance of ProfileFiles for TLC, by itself: two devices, two files. *)
EXTENDS ProfileFiles, TLC
===============================================================================
