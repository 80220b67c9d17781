---------------------------- MODULE MCSessions ----------------------------
(* One account with two requests at a time: enough for every pair of      *)
(* operations to overlap on its tokens and links.                          *)
EXTENDS Sessions, TLC

Symmetry == Permutations(Token) \cup Permutations(Link) \cup Permutations(Request)
===========================================================================
