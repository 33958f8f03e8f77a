----------------------------- MODULE Admission -----------------------------
(***************************************************************************)
(* What the listener promises its clients: up to Capacity connections are  *)
(* admitted at a time, one is refused only while Capacity others are       *)
(* admitted, and an admitted connection comes to an end, which makes room  *)
(* for the next.  Threads, handlers and events do not appear.              *)
(***************************************************************************)
EXTENDS Naturals, FiniteSets

CONSTANTS Conn, Capacity

VARIABLE phase

Active == {c \in Conn : phase[c] = "admitted"}

Init == phase = [c \in Conn |-> "outside"]

Admit(c) ==
    /\ phase[c] = "outside" /\ Cardinality(Active) < Capacity
    /\ phase' = [phase EXCEPT ![c] = "admitted"]

Refuse(c) ==
    /\ phase[c] = "outside" /\ Cardinality(Active) = Capacity
    /\ phase' = [phase EXCEPT ![c] = "refused"]

End(c) ==
    /\ phase[c] = "admitted"
    /\ phase' = [phase EXCEPT ![c] = "ended"]

Next == \E c \in Conn : Admit(c) \/ Refuse(c) \/ End(c)

Spec ==
    /\ Init /\ [][Next]_phase
    /\ \A c \in Conn : WF_phase(End(c))
=============================================================================
