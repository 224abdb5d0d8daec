------------------------- MODULE MCRobotFriendship --------------------------
(* Instances of RobotFriendship for TLC. *)
EXTENDS RobotFriendship, TLC

\* The user asks, through either handler; the robot asks, answers and leaves;
\* the user leaves.
RobotCalls == {<<10, u, r>> : u \in Humans, r \in Robots}
              \union {<<10, r, u>> : u \in Humans, r \in Robots}
              \union {<<20, r, u>> : u \in Humans, r \in Robots}
              \union {<<30, u, r>> : u \in Humans, r \in Robots}

\* The friend console's row names a robot.
TypedRows == {[user |-> u, friend |-> r, status |-> 20] : u \in Humans, r \in Robots}

Symmetry == Permutations(Threads) \union Permutations(Humans)
=============================================================================
