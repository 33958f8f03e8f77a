--------------------------- MODULE MCHttpListener ---------------------------
(* Small instances of HttpListener for TLC. *)
EXTENDS HttpListener

CONSTANTS c1, c2, c3, h1, h2, h3

\* c3 may be the unusable descriptor, so it is not symmetric to the others.
Symmetry == Permutations({c1, c2}) \cup Permutations(Handler)
=============================================================================
