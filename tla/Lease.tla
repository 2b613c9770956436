-------------------------------- MODULE Lease --------------------------------
(***************************************************************************)
(* What the shard promises a connection about its slot                     *)
(* (crates/mlatd/src/state.rs: add_receiver, live, remove_receiver).       *)
(*                                                                         *)
(* A connection asks once.  It is refused only when somebody holds a slot, *)
(* or it holds one, and then at most one other loses its own.  A slot lost *)
(* is never regained: the connection's only way on is to end.              *)
(***************************************************************************)
CONSTANT Conns

VARIABLE lease

Holders == {c \in Conns : lease[c] = "held"}

Init == lease = [c \in Conns |-> "none"]

Refuse(c) ==
    /\ lease[c] = "none"
    /\ Holders # {}
    /\ lease' = [lease EXCEPT ![c] = "refused"]

\* victims: the holder whose name the newcomer takes, if any.
Grant(c, victims) ==
    /\ lease[c] = "none"
    /\ \A d, e \in victims : d = e
    /\ lease' = [d \in Conns |-> IF d = c THEN "held"
                                 ELSE IF d \in victims THEN "lost" ELSE lease[d]]

End(c) ==
    /\ lease[c] \in {"held", "lost"}
    /\ lease' = [lease EXCEPT ![c] = "over"]

Next ==
    \E c \in Conns :
        \/ Refuse(c)
        \/ \E victims \in SUBSET Holders : Grant(c, victims)
        \/ End(c)

Spec == Init /\ [][Next]_lease
===============================================================================
