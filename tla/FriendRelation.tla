--------------------------- MODULE FriendRelation ---------------------------
(***************************************************************************)
(* What the friend table promises: a relation between users, one status    *)
(* per direction, that each operation changes in one step.  Friendship     *)
(* implements it when the requests for a pair do not overlap.              *)
(***************************************************************************)
EXTENDS Naturals

CONSTANT Users

VARIABLE rel    \* rel[<<u, f>>]: how u stands to f

NoRelation == 0
Standing == {NoRelation, 10, 11, 20, 21, 30}

TypeOK == rel \in [Users \X Users -> Standing]

Related(u, f) == rel[<<u, f>>] # NoRelation

SetBoth(u, f, s1, s2) == rel' = [rel EXCEPT ![<<u, f>>] = s1, ![<<f, u>>] = s2]

Init == rel = [p \in Users \X Users |-> NoRelation]

\* A pair is asked once in its life: a request to a related user is refused.
Ask(u, f) == /\ ~Related(u, f) /\ ~Related(f, u)
             /\ SetBoth(u, f, 10, 11)

\* Both sides at once, whatever they were.
Accept(u, f) == Related(u, f) /\ Related(f, u) /\ SetBoth(u, f, 20, 20)
Delete(u, f) == Related(u, f) /\ Related(f, u) /\ SetBoth(u, f, 30, 30)

\* The ignoring side only.
Ignore(u, f) == Related(u, f) /\ rel' = [rel EXCEPT ![<<u, f>>] = 21]

Next == \E u, f \in Users :
            /\ u # f
            /\ Ask(u, f) \/ Accept(u, f) \/ Ignore(u, f) \/ Delete(u, f)

Spec == Init /\ [][Next]_rel
=============================================================================
