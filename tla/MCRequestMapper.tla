-------------------------- MODULE MCRequestMapper --------------------------
EXTENDS RequestMapper, TLC

CONSTANTS t1, t2, c1, c2, u1, u2, o1, o2, s1, s2

\* Threads, clients, users, objects and shifts are interchangeable.
Symmetry ==
    Permutations(Thread) \cup Permutations(Client) \cup Permutations(User)
        \cup Permutations(Object) \cup Permutations(Shift)
=============================================================================
