---------------------------- MODULE MCFriendship ----------------------------
(* Instances of Friendship for TLC. *)
EXTENDS Friendship, TLC

CONSTANTS a, b

\* Every operation between two users, in both directions.
PairCalls == {<<code, u, f>> \in Codes \X Users \X Users : u # f}

\* The same and a user who names himself.
SelfCalls == PairCalls \union {<<Requesting, a, a>>, <<Agreed, a, a>>}

\* What an administrator types in or imports.
TypedRows == [user : Users, friend : Users, status : {Requested, Agreed}]

\* Threads are interchangeable; keys are not, FreshKeys picks among them.
Symmetry == Permutations(Threads)
=============================================================================
