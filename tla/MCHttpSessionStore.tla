------------------------- MODULE MCHttpSessionStore -------------------------
(* Small instances of HttpSessionStore for TLC. *)
EXTENDS HttpSessionStore

CONSTANTS w1, w2, k1, k2, s1, s2, s3

Symmetry == Permutations(Worker) \cup Permutations(Client) \cup Permutations(Session)
=============================================================================
