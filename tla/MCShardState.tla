---------------------------- MODULE MCShardState ----------------------------
(* Constants of the ShardState runs. *)
EXTENDS ShardState, TLC

CONSTANTS u1, u2, u3, m1, m2, p1, stA, stB

\* Registry runs: a default name, and a feeder that calls itself by what is
\* another feeder's alias.  u2 and u3 share their head; u1's has no
\* alphanumeric in it, so it names no alias.
NamePartsRegistry == {"Home", "b"}
UsersRegistry == {<<"Home">>, <<"Home", "b">>}
TagsRegistry == (u1 :> NoTag) @@ (u2 :> "b") @@ (u3 :> "b")

\* One default name that every feeder asks for.
UsersHome == {<<"Home">>}

\* Clock runs: two stations, whose handshakes carry no uuid.
NamePartsClock == {stA, stB}
UsersClock == {<<stA>>, <<stB>>}
Stations == Permutations({stA, stB})
TagsClock == [u \in {} |-> NoTag]

NoEven == [p \in {} |-> m1]
EvenFrames == p1 :> m1
=============================================================================
