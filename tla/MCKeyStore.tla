---------------------------- MODULE MCKeyStore ----------------------------
(* Two addresses, three keys (the one stored, the one on the box, a wrong  *)
(* one) and two runs at a time.                                            *)
EXTENDS KeyStore, TLC

CONSTANTS r1, r2, u1, u2, k1, k2, k3

Symmetry == Permutations(Runs) \union Permutations(Urls) \union Permutations(Keys)
=============================================================================
