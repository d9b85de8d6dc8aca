-------------------------- MODULE MCBrowserSession --------------------------
(* Instance of BrowserSession for TLC: callers are interchangeable. *)
EXTENDS BrowserSession, TLC

Symmetry == Permutations(Callers)
=============================================================================
