------------------------------- MODULE MCWebSub -------------------------------
(* Two fetches at a time; leases of one day. *)
EXTENDS WebSub, TLC

Symmetry == Permutations(Fetch) \cup Permutations(Token)
==============================================================================
