-------------------------- MODULE RobotFriendship ---------------------------
(***************************************************************************)
(* Adding a robot as a friend: RongFriendshipController.robotFriendship,   *)
(* the robot console LelianRobotController with saveRobot, and the two     *)
(* tables lelian_robot and rong_user, composed with the friend table.      *)
(*                                                                         *)
(* A request (code 10) first makes sure that the robot is in lelian_robot  *)
(* and, when it had to add it, that RongCloud knows it; then it goes on as *)
(* a request between users.  No transaction spans these steps, and         *)
(* RongCloud is a remote service: it may register the robot, answer with   *)
(* another code, or fail.  Everything else is operateFriendship, which     *)
(* takes any two ids: it never looks whether one of them is a robot.       *)
(***************************************************************************)
EXTENDS Naturals, FiniteSets

CONSTANTS
    Humans, Robots,     \* user ids and robot ids
    Threads, Ids, Calls, SerialAsk, None,   \* as in Friendship
    RobotKeys,          \* primary keys of lelian_robot: bounds its rows
    RongKeys,           \* primary keys of rong_user: bounds its rows
    ConsoleOps,         \* operations of the robot console in use
    AdminOps, AdminRows,    \* operations and rows of the friend console
    MaxAdmin            \* bounds the calls of the friend console

Users == Humans \union Robots

VARIABLES
    rows, call,         \* the friend table and its calls
    robots,             \* robots[k]: row of lelian_robot with key k, or None
    rongs,              \* rongs[k]: the robot of the rong_user row k, or None
    adding,             \* adding[t]: the request thread t is preparing, or None
    forgotten,          \* robots whose row the console overwrote or removed
                        \* (history)
    typed,              \* robots the console saved or edited a row into (history)
    direct,             \* robots that operateFriendship's request or the
                        \* friend console named (history)
    admin               \* calls of the friend console so far

vars == <<rows, call, robots, rongs, adding, forgotten, typed, direct, admin>>
friendVars == <<rows, call, direct, admin>>

F == INSTANCE Friendship

\* Those of Friendship.
ASSUME FriendAssumptions == /\ None \notin F!Row \union Ids \union F!Call
                            /\ Calls \subseteq F!Codes \X Users \X Users
                            /\ AdminRows \subseteq F!Row

RobotRow == [robotid : Robots, manager : Humans]
Adding   == [stage : {"saveRobot", "lookupRong", "register", "saveRong", "ask"},
             user : Humans, robot : Robots]

ASSUME RobotNoneAssumption == None \notin RobotRow \union Robots \union Adding
ASSUME RobotsAssumption == Humans \intersect Robots = {}
ASSUME FiniteAssumption == /\ IsFiniteSet(Threads) /\ IsFiniteSet(RobotKeys)
                           /\ IsFiniteSet(RongKeys)
ASSUME MaxAdminAssumption == MaxAdmin \in Nat
ASSUME ConsoleOpsAssumption == ConsoleOps \subseteq {"saveRobot", "edit", "remove"}

TypeOK ==
    /\ F!TypeOK
    /\ robots \in [RobotKeys -> RobotRow \union {None}]
    /\ rongs \in [RongKeys -> Robots \union {None}]
    /\ adding \in [Threads -> Adding \union {None}]
    /\ forgotten \in SUBSET Robots
    /\ typed \in SUBSET Robots
    /\ direct \in SUBSET Robots
    /\ admin \in 0 .. MaxAdmin

RobotRows(r) == {k \in RobotKeys : robots[k] # None /\ robots[k].robotid = r}
RongRows(r)  == {k \in RongKeys : rongs[k] = r}
FreeRobotKeys == {k \in RobotKeys : robots[k] = None}
FreeRongKeys  == {k \in RongKeys : rongs[k] = None}

\* getOne throws on two rows.
Several(S) == \E i, j \in S : i # j

Init ==
    /\ F!Init
    /\ robots = [k \in RobotKeys |-> None]
    /\ rongs = [k \in RongKeys |-> None]
    /\ adding = [t \in Threads |-> None]
    /\ forgotten = {}
    /\ typed = {}
    /\ direct = {}
    /\ admin = 0

Idle(t) == call[t] = None /\ adding[t] = None
At(t, stage) == adding[t] # None /\ adding[t].stage = stage
Goto(t, stage) == adding' = [adding EXCEPT ![t].stage = stage]
Drop(t) == adding' = [adding EXCEPT ![t] = None]

-----------------------------------------------------------------------------
(* robotFriendship, code 10: up to the request itself. *)

ReadRobot_AskFirst(t, u, r) ==
    /\ Idle(t)
    /\ ~Several(RobotRows(r))
    /\ adding' = [adding EXCEPT ![t] = [stage |-> "ask",
                                        user |-> u, robot |-> r]]
    /\ UNCHANGED <<friendVars, robots, rongs, forgotten, typed>>

\* A robot that is in the table is not registered again; one that is there
\* twice makes getOne throw, and the call changes nothing.
ReadRobot(t, u, r) ==
    /\ Idle(t)
    /\ ~Several(RobotRows(r))
    /\ adding' = [adding EXCEPT ![t] =
                    [stage |-> IF RobotRows(r) = {} THEN "saveRobot" ELSE "ask",
                     user |-> u, robot |-> r]]
    /\ UNCHANGED <<friendVars, robots, rongs, forgotten, typed>>

SaveRobot_NoManager(t) ==
    /\ At(t, "saveRobot")
    /\ FreeRobotKeys # {}
    /\ robots' = [robots EXCEPT ![CHOOSE k \in FreeRobotKeys : TRUE] =
                    [robotid |-> adding[t].robot, manager |-> None]]
    /\ Goto(t, "lookupRong")
    /\ UNCHANGED <<friendVars, rongs, forgotten, typed>>

\* The first user who adds the robot becomes its manager.
SaveRobot(t) ==
    /\ At(t, "saveRobot")
    /\ FreeRobotKeys # {}
    /\ robots' = [robots EXCEPT ![CHOOSE k \in FreeRobotKeys : TRUE] =
                    [robotid |-> adding[t].robot, manager |-> adding[t].user]]
    /\ Goto(t, "lookupRong")
    /\ UNCHANGED <<friendVars, rongs, forgotten, typed>>

LookupRong_Always(t) ==
    /\ At(t, "lookupRong")
    /\ Goto(t, "register")
    /\ UNCHANGED <<friendVars, robots, rongs, forgotten, typed>>

LookupRong(t) ==
    /\ At(t, "lookupRong")
    /\ LET found == RongRows(adding[t].robot)
       IN  IF Several(found) THEN Drop(t)
           ELSE Goto(t, IF found = {} THEN "register" ELSE "ask")
    /\ UNCHANGED <<friendVars, robots, rongs, forgotten, typed>>

\* RongCloud: 200 and a token, another code, or an exception, which ends the
\* call and leaves the robot's row behind.
Register(t) ==
    /\ At(t, "register")
    /\ \/ Goto(t, "saveRong")
       \/ Goto(t, "ask")
       \/ Drop(t)
    /\ UNCHANGED <<friendVars, robots, rongs, forgotten, typed>>

SaveRong(t) ==
    /\ At(t, "saveRong")
    /\ FreeRongKeys # {}
    /\ rongs' = [rongs EXCEPT ![CHOOSE k \in FreeRongKeys : TRUE] =
                    adding[t].robot]
    /\ Goto(t, "ask")
    /\ UNCHANGED <<friendVars, robots, forgotten, typed>>

\* The rest of the request is that of operateFriendship.
AskRobot(t) ==
    /\ At(t, "ask")
    /\ F!ReadOwn(t, F!Requesting, adding[t].user, adding[t].robot)
    /\ Drop(t)
    /\ UNCHANGED <<robots, rongs, forgotten, typed, direct, admin>>

\* operateFriendship with any code; its request may name a robot too, and looks
\* at no lelian_robot.
Operate(t, code, u, f) ==
    /\ adding[t] = None
    /\ F!ReadOwn(t, code, u, f)
    /\ direct' = IF code = F!Requesting
                 THEN direct \union ({u, f} \intersect Robots) ELSE direct
    /\ UNCHANGED <<robots, rongs, adding, forgotten, typed, admin>>

\* The later steps of every call.
FriendStep(t) ==
    /\ F!ReadPeer(t) \/ F!WriteAsk(t) \/ F!WriteStatus(t)
    /\ UNCHANGED <<robots, rongs, adding, forgotten, typed, direct, admin>>

-----------------------------------------------------------------------------
(***************************************************************************)
(* The robot console.  saveRobot is one transaction: a checked exception   *)
(* of the registration commits it (only unchecked ones roll back), so the  *)
(* robot's row is there with or without the rong_user row.  importExcel    *)
(* saves rows and registers nothing: the same outcome.                     *)
(***************************************************************************)
ConsoleSave ==
    /\ "saveRobot" \in ConsoleOps
    /\ FreeRobotKeys # {}
    /\ \E row \in RobotRow :
          /\ robots' = [robots EXCEPT ![CHOOSE k \in FreeRobotKeys : TRUE] = row]
          /\ \/ UNCHANGED rongs
             \/ /\ FreeRongKeys # {}
                /\ rongs' = [rongs EXCEPT ![CHOOSE k \in FreeRongKeys : TRUE] =
                                row.robotid]
          /\ typed' = typed \union {row.robotid}
    /\ UNCHANGED <<friendVars, adding, forgotten>>

ConsoleEdit ==
    /\ "edit" \in ConsoleOps
    /\ \E k \in RobotKeys \ FreeRobotKeys, row \in RobotRow :
          /\ robots' = [robots EXCEPT ![k] = row]
          /\ forgotten' = forgotten \union {robots[k].robotid}
          /\ typed' = typed \union {row.robotid}
    /\ UNCHANGED <<friendVars, rongs, adding>>

\* delete and deleteBatch remove the robot only.
ConsoleRemove ==
    /\ "remove" \in ConsoleOps
    /\ \E S \in SUBSET (RobotKeys \ FreeRobotKeys) :
          /\ robots' = [k \in RobotKeys |-> IF k \in S THEN None ELSE robots[k]]
          /\ forgotten' = forgotten \union {robots[k].robotid : k \in S}
    /\ UNCHANGED <<friendVars, rongs, adding, typed>>

\* The friend console works beside all this.
FriendAdmin ==
    /\ admin < MaxAdmin
    /\ admin' = admin + 1
    /\ F!AdminSave \/ F!AdminEdit \/ F!AdminRemove
    /\ direct' = direct \union
          {r \in Robots : \E i \in Ids : /\ rows'[i] \notin {None, rows[i]}
                                       /\ r \in {rows'[i].user, rows'[i].friend}}
    /\ UNCHANGED <<robots, rongs, adding, forgotten, typed>>

-----------------------------------------------------------------------------
Next ==
    \/ \E t \in Threads :
          \/ \E u \in Humans, r \in Robots : ReadRobot(t, u, r)
          \/ SaveRobot(t) \/ LookupRong(t) \/ Register(t) \/ SaveRong(t)
          \/ AskRobot(t) \/ FriendStep(t)
          \/ \E code \in F!Codes, u, f \in Users : Operate(t, code, u, f)
    \/ ConsoleSave \/ ConsoleEdit \/ ConsoleRemove \/ FriendAdmin

Spec == Init /\ [][Next]_vars

-----------------------------------------------------------------------------
(* Properties *)

\* No friend row names a robot that lelian_robot does not know, unless the
\* robot console took the robot away, or somebody named it past robotFriendship
\* (operateFriendship's request, the friend console): its row is committed
\* before the request begins, by this addition or by the one that raced it.
FriendRobotsKnown ==
    \A i \in F!Live, r \in Robots \ (forgotten \union direct) :
        r \in {rows[i].user, rows[i].friend} => RobotRows(r) # {}

\* Additions that overlap each insert a row for the robot and register it, but
\* no history of additions, failed registrations and removals leaves more
\* copies than there are threads, unless the robot console saved some itself: an
\* addition inserts into a table only after it saw no row there.
RobotCopiesBounded ==
    \A r \in Robots \ typed :
        /\ Cardinality(RobotRows(r)) <= Cardinality(Threads)
        /\ Cardinality(RongRows(r)) <= Cardinality(Threads)
=============================================================================
