----------------------- MODULE RobotFriendshipProofs ------------------------
(***************************************************************************)
(* Theorems about RobotFriendship, for any sets of users, robots, threads, *)
(* row keys and calls, and any of the consoles' operations.                *)
(***************************************************************************)
EXTENDS RobotFriendship, FiniteSetTheorems, TLAPS

LEMMA GetOneType ==
    ASSUME NEW u \in Users, NEW f \in Users
    PROVE  /\ F!GetOne(u, f) \in Ids \union {None}
           /\ F!GetOne(u, f) # None =>
                 F!GetOne(u, f) \in F!Live /\ F!Match(u, f) # {}
<1>1. CASE F!Match(u, f) = {}
  BY <1>1 DEF F!GetOne
<1>2. CASE F!Match(u, f) # {}
  <2>1. F!GetOne(u, f) \in F!Match(u, f)
    BY <1>2 DEF F!GetOne
  <2>. QED BY <1>2, <2>1 DEF F!Match, F!Live
<1>. QED BY <1>1, <1>2

LEMMA FreshKeysAreFree ==
    ASSUME \E i, j \in F!Free : i # j
    PROVE  /\ F!FreshKeys[1] \in F!Free /\ F!FreshKeys[2] \in F!Free
           /\ F!FreshKeys[1] # F!FreshKeys[2]
<1>1. \E k \in F!Free \X F!Free : k[1] # k[2]
  <2>1. PICK i, j \in F!Free : i # j
    OBVIOUS
  <2>2. <<i, j>> \in F!Free \X F!Free /\ <<i, j>>[1] # <<i, j>>[2]
    BY <2>1
  <2>. QED BY <2>2
<1>2. F!FreshKeys \in F!Free \X F!Free /\ F!FreshKeys[1] # F!FreshKeys[2]
  BY <1>1 DEF F!FreshKeys
<1>. QED BY <1>2

\* Everyone the table and the calls name is in S.
Named(x, S) == x.user \in S /\ x.friend \in S
RowsNamedIn(S)  == \A i \in F!Live : Named(rows[i], S)
CallsNamedIn(S) == \A t \in Threads : call[t] # None => Named(call[t], S)

-----------------------------------------------------------------------------
(***************************************************************************)
(* The steps on the friend table: types, and where names come from.        *)
(***************************************************************************)
\* Only a request brings names the table did not have.
LEMMA ReadOwnStep ==
    ASSUME F!TypeOK, NEW t \in Threads, NEW code \in F!Codes,
           NEW u \in Users, NEW f \in Users, F!ReadOwn(t, code, u, f),
           NEW S, RowsNamedIn(S), CallsNamedIn(S),
           code = F!Requesting => {u, f} \subseteq S
    PROVE  F!TypeOK' /\ RowsNamedIn(S)' /\ CallsNamedIn(S)'
<1> USE FriendAssumptions DEF F!TypeOK
<1>. DEFINE new == [stage |-> IF code = F!Ignored THEN "write" ELSE "readPeer",
                    code |-> code, user |-> u, friend |-> f,
                    own |-> F!GetOne(u, f), peer |-> None]
<1>1. new \in F!Call
  BY GetOneType DEF F!Call
<1>2. /\ rows' = rows
      /\ \/ call' = [call EXCEPT ![t] = None]
         \/ /\ call' = [call EXCEPT ![t] = new]
            /\ code # F!Requesting => F!GetOne(u, f) # None
  BY DEF F!ReadOwn
<1>3. F!GetOne(u, f) # None => u \in S /\ f \in S
  <2> SUFFICES ASSUME F!GetOne(u, f) # None
               PROVE  u \in S /\ f \in S
    OBVIOUS
  <2>. PICK i : i \in F!Match(u, f)
    BY GetOneType
  <2>. QED BY DEF F!Match, RowsNamedIn, Named
<1>4. F!TypeOK'
  BY <1>1, <1>2
<1>5. RowsNamedIn(S)'
  BY <1>2 DEF RowsNamedIn, F!Live, Named
<1>6. CASE call' = [call EXCEPT ![t] = None]
  BY <1>4, <1>5, <1>6 DEF CallsNamedIn, Named
<1>7. CASE /\ call' = [call EXCEPT ![t] = new]
           /\ code # F!Requesting => F!GetOne(u, f) # None
  <2>1. Named(new, S)
    BY <1>3, <1>7 DEF Named
  <2>2. \A s \in Threads : call'[s] = IF s = t THEN new ELSE call[s]
    BY <1>7
  <2>3. CallsNamedIn(S)'
    BY <2>1, <2>2 DEF CallsNamedIn, Named
  <2>. QED BY <1>4, <1>5, <2>3
<1>. QED BY <1>2, <1>6, <1>7

LEMMA ReadPeerStep ==
    ASSUME F!TypeOK, NEW t \in Threads, F!ReadPeer(t),
           NEW S, RowsNamedIn(S), CallsNamedIn(S)
    PROVE  F!TypeOK' /\ RowsNamedIn(S)' /\ CallsNamedIn(S)'
<1> USE FriendAssumptions DEF F!TypeOK
<1>. PICK c : c = call[t]
  OBVIOUS
<1>1. c \in F!Call /\ c # None
  BY DEF F!ReadPeer
<1>. PICK new : new = [c EXCEPT !.stage = "write", !.peer = F!GetOne(c.friend, c.user)]
  OBVIOUS
<1>2. new \in F!Call /\ new.user = c.user /\ new.friend = c.friend
  BY <1>1, GetOneType DEF F!Call
<1>3. rows' = rows /\ \E w \in {None, new} : call' = [call EXCEPT ![t] = w]
  BY DEF F!ReadPeer
<1>4. F!TypeOK' /\ RowsNamedIn(S)'
  BY <1>2, <1>3 DEF F!Live, RowsNamedIn, Named
<1>5. Named(c, S)
  BY <1>1 DEF CallsNamedIn
<1>6. Named(new, S)
  BY <1>2, <1>5 DEF Named
<1>7. \A s \in Threads : call'[s] \in {None, new, call[s]}
  BY <1>3
<1>. QED BY <1>4, <1>6, <1>7 DEF CallsNamedIn, Named

\* Rows are written with the names of the call.
LEMMA WriteStep ==
    ASSUME F!TypeOK, NEW t \in Threads,
           F!WriteAsk(t) \/ F!WriteStatus(t),
           NEW S, RowsNamedIn(S), CallsNamedIn(S)
    PROVE  F!TypeOK' /\ RowsNamedIn(S)' /\ CallsNamedIn(S)'
<1> USE FriendAssumptions DEF F!TypeOK
<1>. PICK c : c = call[t]
  OBVIOUS
<1>1. c \in F!Call /\ c # None /\ call' = [call EXCEPT ![t] = None]
  BY DEF F!WriteAsk, F!WriteStatus
<1>2. c.user \in S /\ c.friend \in S
  BY <1>1 DEF CallsNamedIn, Named
<1>. DEFINE W == {r \in F!Row : Named(r, S)}
<1>3. /\ \A s \in F!Status :
            /\ [user |-> c.user, friend |-> c.friend, status |-> s] \in W
            /\ [user |-> c.friend, friend |-> c.user, status |-> s] \in W
      /\ c.code \in F!Status /\ {F!Requesting, F!Requested} \subseteq F!Status
  BY <1>1, <1>2 DEF F!Call, F!Row, F!Status, F!Codes, Named
<1>. HIDE DEF W
<1>4. rows' = rows \/ /\ DOMAIN rows' = Ids /\ rows' = [i \in Ids |-> rows'[i]]
                      /\ \A i \in Ids : rows'[i] = rows[i] \/ rows'[i] \in W
  <2>1. CASE F!WriteAsk(t)
    <3>1. CASE c.own = None /\ c.peer = None
      <4>1. /\ F!FreshKeys[1] \in Ids /\ F!FreshKeys[2] \in Ids
            /\ F!FreshKeys[1] # F!FreshKeys[2]
        BY <2>1, <3>1, FreshKeysAreFree DEF F!WriteAsk, F!SaveBoth, F!Free
      <4>2. rows' = [rows EXCEPT
              ![F!FreshKeys[1]] = [user |-> c.user, friend |-> c.friend,
                                   status |-> F!Requesting],
              ![F!FreshKeys[2]] = [user |-> c.friend, friend |-> c.user,
                                   status |-> F!Requested]]
        BY <2>1, <3>1 DEF F!WriteAsk, F!SaveBoth
      <4>. QED BY <1>3, <4>1, <4>2
    <3>2. CASE ~(c.own = None /\ c.peer = None)
      BY <2>1, <3>2 DEF F!WriteAsk
    <3>. QED BY <3>1, <3>2
  <2>2. CASE F!WriteStatus(t)
    <3>1. rows' = [i \in Ids |->
             IF rows[i] = None THEN None
             ELSE IF i = c.own
                  THEN [user |-> c.user, friend |-> c.friend, status |-> c.code]
             ELSE IF i = c.peer
                  THEN [user |-> c.friend, friend |-> c.user, status |-> c.code]
             ELSE rows[i]]
      BY <2>2 DEF F!WriteStatus
    <3>. QED BY <1>3, <3>1
  <2>. QED BY <2>1, <2>2
<1>5. W \subseteq F!Row /\ \A r \in W : Named(r, S)
  BY DEF W
<1>6. F!TypeOK'
  BY <1>1, <1>4, <1>5
<1>7. RowsNamedIn(S)'
  BY <1>4, <1>5 DEF RowsNamedIn, F!Live, Named
<1>8. CallsNamedIn(S)'
  BY <1>1 DEF CallsNamedIn, Named
<1>. QED BY <1>6, <1>7, <1>8

LEMMA AdminStep ==
    ASSUME F!TypeOK, F!AdminSave \/ F!AdminEdit \/ F!AdminRemove,
           NEW S, RowsNamedIn(S), CallsNamedIn(S)
    PROVE  /\ F!TypeOK' /\ CallsNamedIn(S)'
           /\ (\A i \in Ids : rows'[i] \notin {None, rows[i]} => Named(rows'[i], S))
                 => RowsNamedIn(S)'
<1> USE FriendAssumptions DEF F!TypeOK
<1>1. /\ call' = call /\ rows' \in [Ids -> F!Row \union {None}]
      /\ \A i \in Ids : rows'[i] \in AdminRows \union {None, rows[i]}
  <2>1. CASE F!AdminSave
    BY <2>1 DEF F!AdminSave
  <2>2. CASE F!AdminEdit
    BY <2>2 DEF F!AdminEdit, F!Live
  <2>3. CASE F!AdminRemove
    BY <2>3 DEF F!AdminRemove, F!Live
  <2>. QED BY <2>1, <2>2, <2>3
<1>2. F!TypeOK'
  BY <1>1
<1>3. (\A i \in Ids : rows'[i] \notin {None, rows[i]} => Named(rows'[i], S))
        => RowsNamedIn(S)'
  BY <1>1 DEF RowsNamedIn, F!Live, Named
<1>4. CallsNamedIn(S)'
  BY <1>1 DEF CallsNamedIn, Named
<1>. QED BY <1>2, <1>3, <1>4

-----------------------------------------------------------------------------
(* Types of the robots' tables and of the requests being prepared. *)

RobotTypeOK ==
    /\ robots \in [RobotKeys -> RobotRow \union {None}]
    /\ rongs \in [RongKeys -> Robots \union {None}]
    /\ adding \in [Threads -> Adding \union {None}]
    /\ forgotten \in SUBSET Robots
    /\ typed \in SUBSET Robots
    /\ direct \in SUBSET Robots
    /\ admin \in 0 .. MaxAdmin

LEMMA TypeParts == TypeOK <=> F!TypeOK /\ RobotTypeOK
BY DEF TypeOK, RobotTypeOK

\* The preparation of a request.
Prepare(t) ==
    \/ \E u \in Humans, r \in Robots : ReadRobot(t, u, r)
    \/ SaveRobot(t) \/ LookupRong(t) \/ Register(t) \/ SaveRong(t)

Console == ConsoleSave \/ ConsoleEdit \/ ConsoleRemove

LEMMA Stays ==
    ASSUME UNCHANGED friendVars
    PROVE  /\ F!TypeOK => F!TypeOK'
           /\ \A S : RowsNamedIn(S) /\ CallsNamedIn(S)
                        => RowsNamedIn(S)' /\ CallsNamedIn(S)'
BY DEF friendVars, F!TypeOK, RowsNamedIn, CallsNamedIn, F!Live, Named

LEMMA PrepareType ==
    ASSUME RobotTypeOK, NEW t \in Threads, Prepare(t)
    PROVE  RobotTypeOK' /\ UNCHANGED friendVars
<1> USE RobotNoneAssumption DEF RobotTypeOK, At, Goto, Drop, friendVars
<1>1. ASSUME NEW u \in Humans, NEW r \in Robots, ReadRobot(t, u, r)
      PROVE  RobotTypeOK' /\ UNCHANGED friendVars
  <2>1. [stage |-> IF RobotRows(r) = {} THEN "saveRobot" ELSE "ask",
         user |-> u, robot |-> r] \in Adding
    BY DEF Adding
  <2>. QED BY <1>1, <2>1 DEF ReadRobot
<1>2. ASSUME At(t, "saveRobot") \/ At(t, "lookupRong") \/ At(t, "register")
             \/ At(t, "saveRong"),
             NEW stage \in {"lookupRong", "register", "saveRong", "ask"}
      PROVE  [adding[t] EXCEPT !.stage = stage] \in Adding
  <2>1. adding[t] \in Adding
    BY <1>2
  <2>. QED BY <2>1 DEF Adding
<1>3. CASE SaveRobot(t)
  <2>1. adding[t] \in Adding
    BY <1>3 DEF SaveRobot
  <2>2. [robotid |-> adding[t].robot, manager |-> adding[t].user] \in RobotRow
    BY <2>1 DEF Adding, RobotRow
  <2>. QED BY <1>2, <1>3, <2>2 DEF SaveRobot
<1>4. CASE LookupRong(t)
  BY <1>2, <1>4 DEF LookupRong
<1>5. CASE Register(t)
  BY <1>2, <1>5 DEF Register
<1>6. CASE SaveRong(t)
  <2>1. adding[t] \in Adding
    BY <1>6 DEF SaveRong
  <2>2. adding[t].robot \in Robots
    BY <2>1 DEF Adding
  <2>. QED BY <1>2, <1>6, <2>2 DEF SaveRong
<1>. QED BY <1>1, <1>3, <1>4, <1>5, <1>6 DEF Prepare

LEMMA ConsoleType ==
    ASSUME RobotTypeOK, Console
    PROVE  RobotTypeOK' /\ UNCHANGED friendVars
<1> USE RobotNoneAssumption DEF RobotTypeOK, friendVars
<1>0. \A row \in RobotRow : row # None
  OBVIOUS
<1>1. \A row \in RobotRow : row # None /\ row.robotid \in Robots
  BY <1>0 DEF RobotRow
<1>2. CASE ConsoleSave
  <2>. PICK row \in RobotRow :
          /\ robots' = [robots EXCEPT ![CHOOSE k \in FreeRobotKeys : TRUE] = row]
          /\ \/ UNCHANGED rongs
             \/ rongs' = [rongs EXCEPT ![CHOOSE k \in FreeRongKeys : TRUE] = row.robotid]
          /\ typed' = typed \union {row.robotid}
    BY <1>2 DEF ConsoleSave
  <2>1. UNCHANGED <<rows, call, direct, admin, adding, forgotten>>
    BY <1>2 DEF ConsoleSave
  <2>. QED BY <1>1, <2>1
<1>3. CASE ConsoleEdit
  <2>1. \A k \in RobotKeys \ FreeRobotKeys : robots[k] \in RobotRow
    BY DEF FreeRobotKeys
  <2>. QED BY <1>1, <1>3, <2>1 DEF ConsoleEdit
<1>4. CASE ConsoleRemove
  <2>1. \A k \in RobotKeys \ FreeRobotKeys : robots[k] \in RobotRow
    BY DEF FreeRobotKeys
  <2>. QED BY <1>1, <1>4, <2>1 DEF ConsoleRemove
<1>. QED BY <1>2, <1>3, <1>4 DEF Console

-----------------------------------------------------------------------------
(***************************************************************************)
(* Names.  A robot is known from the moment its row is there; the request  *)
(* begins after that, and only a request brings names to the table: this   *)
(* one, or one of those in direct.                                         *)
(***************************************************************************)
Known(r) == RobotRows(r) # {} \/ r \in forgotten \union direct

KnownUsers == {u \in Users : u \in Robots => Known(u)}

Prepared == \A t \in Threads :
    adding[t] # None /\ adding[t].stage # "saveRobot" => Known(adding[t].robot)

NamesInv == RowsNamedIn(KnownUsers) /\ CallsNamedIn(KnownUsers) /\ Prepared

\* The console overwrites and removes robots' rows only by forgetting them.
LEMMA KnownStays ==
    ASSUME RobotTypeOK, NEW r \in Robots, Known(r),
           (\E t \in Threads : Prepare(t)) \/ Console
    PROVE  Known(r)'
<1> USE RobotNoneAssumption DEF RobotTypeOK, Known
<1>1. ASSUME NEW k \in RobotRows(r)
      PROVE  robots'[k] = robots[k] \/ r \in forgotten'
  <2>1. k \in RobotKeys /\ k \notin FreeRobotKeys /\ robots[k].robotid = r
    BY <1>1 DEF RobotRows, FreeRobotKeys
  <2>2. ASSUME NEW t \in Threads, SaveRobot(t)
        PROVE  robots'[k] = robots[k]
    BY <2>1, <2>2 DEF SaveRobot
  <2>3. ASSUME NEW t \in Threads, Prepare(t), ~SaveRobot(t)
        PROVE  robots'[k] = robots[k]
    BY <2>3 DEF Prepare, ReadRobot, LookupRong, Register, SaveRong
  <2>4. CASE ConsoleSave
    BY <2>1, <2>4 DEF ConsoleSave
  <2>5. CASE ConsoleEdit
    BY <2>1, <2>5 DEF ConsoleEdit
  <2>6. CASE ConsoleRemove
    BY <2>1, <2>6 DEF ConsoleRemove
  <2>. QED BY <2>2, <2>3, <2>4, <2>5, <2>6 DEF Console
<1>2. r \in forgotten \union direct => r \in forgotten' \union direct'
  BY DEF Prepare, ReadRobot, SaveRobot, LookupRong, Register, SaveRong, Console,
     ConsoleSave, ConsoleEdit, ConsoleRemove, friendVars
<1>3. CASE RobotRows(r) # {}
  <2>. PICK k : k \in RobotRows(r)
    BY <1>3
  <2>. QED BY <1>1 DEF RobotRows
<1>. QED BY <1>2, <1>3

\* A request goes on when its robot's row is there.
LEMMA PrepareKeeps ==
    ASSUME RobotTypeOK, Prepared, NEW t \in Threads, Prepare(t)
    PROVE  Prepared'
<1> USE RobotNoneAssumption DEF RobotTypeOK, At, Goto, Drop
<1>1. \A r \in Robots : Known(r) => Known(r)'
  BY KnownStays
<1>2. \A s \in Threads : adding[s] # None => adding[s].robot \in Robots
  BY DEF Adding
<1>3. \A s \in Threads \ {t} : adding'[s] = adding[s]
  BY DEF Prepare, ReadRobot, SaveRobot, LookupRong, Register, SaveRong
<1>. DEFINE Ready(s) == adding[s] # None /\ adding[s].stage # "saveRobot"
                           => Known(adding[s].robot)
<1>4. Ready(t)'
  <2>1. ASSUME NEW u \in Humans, NEW r \in Robots, ReadRobot(t, u, r)
        PROVE  Ready(t)'
    <3>1. adding'[t] = [stage |-> IF RobotRows(r) = {} THEN "saveRobot" ELSE "ask",
                        user |-> u, robot |-> r]
      BY <2>1 DEF ReadRobot
    <3>2. robots' = robots
      BY <2>1 DEF ReadRobot
    <3>. QED BY <3>1, <3>2 DEF Known, RobotRows
  <2>2. CASE SaveRobot(t)
    <3>. DEFINE k == CHOOSE k \in FreeRobotKeys : TRUE
                row == [robotid |-> adding[t].robot, manager |-> adding[t].user]
    <3>1. k \in RobotKeys /\ robots' = [robots EXCEPT ![k] = row]
      BY <2>2 DEF SaveRobot, FreeRobotKeys
    <3>2. adding'[t].robot = adding[t].robot
      <4>1. adding[t] \in Adding
        BY <2>2 DEF SaveRobot
      <4>2. adding'[t] = [adding[t] EXCEPT !.stage = "lookupRong"]
        BY <2>2 DEF SaveRobot
      <4>. QED BY <4>1, <4>2 DEF Adding
    <3>3. row # None
      <4>1. adding[t] \in Adding
        BY <2>2 DEF SaveRobot
      <4>2. row \in RobotRow
        BY <4>1 DEF Adding, RobotRow
      <4>. QED BY <4>2
    <3>4. k \in RobotRows(adding[t].robot)'
      BY <3>1, <3>2, <3>3 DEF RobotRows
    <3>. QED BY <3>2, <3>4 DEF Known, RobotRows
  <2>3. CASE LookupRong(t) \/ Register(t) \/ SaveRong(t)
    <3>1. adding[t] \in Adding /\ adding[t] # None /\ adding[t].stage # "saveRobot"
      BY <2>3 DEF LookupRong, Register, SaveRong
    <3>2. adding'[t] = None \/ adding'[t].robot = adding[t].robot
      BY <2>3, <3>1 DEF LookupRong, Register, SaveRong, Adding
    <3>. QED BY <1>1, <1>2, <3>1, <3>2 DEF Prepared
  <2>. QED BY <2>1, <2>2, <2>3 DEF Prepare
<1>5. ASSUME NEW s \in Threads \ {t}
      PROVE  Ready(s)'
  <2>1. Ready(s) /\ adding'[s] = adding[s]
    BY <1>3 DEF Prepared
  <2>. QED BY <1>1, <1>2, <2>1
<1>. QED BY <1>4, <1>5 DEF Prepared

LEMMA NextKeeps ==
    ASSUME TypeOK, [Next]_vars
    PROVE  TypeOK' /\ (NamesInv => NamesInv')
<1>0. F!TypeOK /\ RobotTypeOK
  BY TypeParts
<1>. DEFINE Keeps == NamesInv => NamesInv'
\* The steps that leave the friend table alone.
<1>1. ASSUME RobotTypeOK', UNCHANGED friendVars,
             \A r \in Robots : Known(r) => Known(r)', Prepared => Prepared'
      PROVE  TypeOK' /\ Keeps
  <2>1. TypeOK'
    BY <1>0, <1>1, Stays DEF TypeOK, RobotTypeOK
  <2>2. KnownUsers \subseteq KnownUsers'
    BY <1>1 DEF KnownUsers
  <2>3. NamesInv => RowsNamedIn(KnownUsers)' /\ CallsNamedIn(KnownUsers)'
    BY <1>1, <2>2 DEF NamesInv, friendVars, RowsNamedIn, CallsNamedIn, F!Live, Named
  <2>. QED BY <1>1, <2>1, <2>3 DEF NamesInv
\* The steps on the friend table: they bring no name but those known after
\* them.
<1>2. ASSUME UNCHANGED <<robots, forgotten>>, direct \subseteq direct',
             F!TypeOK', RobotTypeOK',
             \A t \in Threads : adding'[t] = None \/ adding'[t] = adding[t],
             NamesInv => \A S : RowsNamedIn(S) /\ CallsNamedIn(S) /\ KnownUsers' \subseteq S
                                  => RowsNamedIn(S)' /\ CallsNamedIn(S)'
      PROVE  TypeOK' /\ Keeps
  <2>. PICK S : S = KnownUsers'
    OBVIOUS
  <2>1. KnownUsers \subseteq S
    BY <1>2 DEF KnownUsers, Known, RobotRows
  <2>2. Prepared => Prepared'
    BY <1>2 DEF Prepared, Known, RobotRows
  <2>3. TypeOK'
    BY <1>2 DEF TypeOK, RobotTypeOK
  <2>4. NamesInv => RowsNamedIn(S) /\ CallsNamedIn(S)
    BY <2>1 DEF NamesInv, RowsNamedIn, CallsNamedIn, Named
  <2>5. NamesInv => RowsNamedIn(S)' /\ CallsNamedIn(S)'
    BY <1>2, <2>4
  <2>6. NamesInv => RowsNamedIn(KnownUsers)' /\ CallsNamedIn(KnownUsers)'
    BY <2>5 DEF RowsNamedIn, CallsNamedIn
  <2>. QED BY <2>2, <2>3, <2>6 DEF NamesInv
<1>3. ASSUME NEW t \in Threads, Prepare(t)
      PROVE  TypeOK' /\ Keeps
  BY <1>0, <1>1, <1>3, PrepareType, PrepareKeeps, KnownStays
<1>4. CASE Console
  <2>1. adding' = adding
    BY <1>4 DEF Console, ConsoleSave, ConsoleEdit, ConsoleRemove
  <2>2. \A r \in Robots : Known(r) => Known(r)'
    BY <1>0, <1>4, KnownStays
  <2>3. \A t \in Threads : adding[t] # None => adding[t].robot \in Robots
    BY <1>0 DEF RobotTypeOK, Adding
  <2>4. Prepared => Prepared'
    BY <2>1, <2>2, <2>3 DEF Prepared
  <2>. QED BY <1>0, <1>1, <1>4, <2>2, <2>4, ConsoleType
<1>. PICK all : all = Users
  OBVIOUS
<1>5. RowsNamedIn(all) /\ CallsNamedIn(all)
  BY <1>0, FriendAssumptions
  DEF F!TypeOK, F!Row, F!Call, RowsNamedIn, CallsNamedIn, F!Live, Named
<1>6. ASSUME NEW t \in Threads, AskRobot(t)
      PROVE  TypeOK' /\ Keeps
  <2>. PICK u, r : u = adding[t].user /\ r = adding[t].robot
    OBVIOUS
  <2>1. /\ u \in Humans /\ r \in Robots
        /\ adding[t] # None /\ adding[t].stage = "ask"
    BY <1>0, <1>6 DEF AskRobot, At, RobotTypeOK, Adding
  <2>2. UNCHANGED <<robots, rongs, forgotten, typed, direct, admin>>
        /\ adding' = [adding EXCEPT ![t] = None]
    BY <1>6 DEF AskRobot, Drop
  <2>3. NamesInv => u \in KnownUsers' /\ r \in KnownUsers'
    BY <2>1, <2>2, RobotsAssumption
    DEF NamesInv, Prepared, KnownUsers, Known, RobotRows, Users
  <2>4. F!Requesting \in F!Codes
    BY DEF F!Codes
  <2>5. F!ReadOwn(t, F!Requesting, u, r)
    BY <1>6 DEF AskRobot
  <2>6. F!TypeOK'
    BY <1>0, <1>5, <2>1, <2>4, <2>5, ReadOwnStep DEF Users
  <2>7. ASSUME NamesInv, NEW S, RowsNamedIn(S), CallsNamedIn(S), KnownUsers' \subseteq S
        PROVE  RowsNamedIn(S)' /\ CallsNamedIn(S)'
    BY <1>0, <2>1, <2>3, <2>4, <2>5, <2>7, ReadOwnStep DEF Users
  <2>8. RobotTypeOK'
    BY <1>0, <2>2 DEF RobotTypeOK
  <2>9. \A s \in Threads : adding'[s] = None \/ adding'[s] = adding[s]
    BY <1>0, <2>2 DEF RobotTypeOK
  <2>. QED BY <1>2, <2>2, <2>6, <2>7, <2>8, <2>9
<1>7. ASSUME NEW t \in Threads, NEW code \in F!Codes, NEW u \in Users, NEW f \in Users,
             Operate(t, code, u, f)
      PROVE  TypeOK' /\ Keeps
  <2>1. F!ReadOwn(t, code, u, f) /\ UNCHANGED <<robots, rongs, adding, forgotten, typed, admin>>
        /\ direct' = IF code = F!Requesting
                     THEN direct \union ({u, f} \intersect Robots) ELSE direct
    BY <1>7 DEF Operate
  <2>2. code = F!Requesting => {u, f} \subseteq KnownUsers'
    BY <2>1 DEF KnownUsers, Known
  <2>3. F!TypeOK'
    BY <1>0, <1>5, <2>1, ReadOwnStep
  <2>4. ASSUME NEW S, RowsNamedIn(S), CallsNamedIn(S), KnownUsers' \subseteq S
        PROVE  RowsNamedIn(S)' /\ CallsNamedIn(S)'
    <3>1. code = F!Requesting => {u, f} \subseteq S
      BY <2>2, <2>4
    <3>. QED BY <1>0, <2>1, <2>4, <3>1, ReadOwnStep
  <2>5. direct \subseteq direct' /\ RobotTypeOK'
    BY <1>0, <2>1 DEF RobotTypeOK
  <2>. QED BY <1>2, <2>1, <2>3, <2>4, <2>5
<1>8. ASSUME NEW t \in Threads, FriendStep(t)
      PROVE  TypeOK' /\ Keeps
  <2>1. F!ReadPeer(t) \/ F!WriteAsk(t) \/ F!WriteStatus(t)
    BY <1>8 DEF FriendStep
  <2>2. UNCHANGED <<robots, rongs, adding, forgotten, typed, direct, admin>>
    BY <1>8 DEF FriendStep
  <2>3. F!TypeOK'
    BY <1>0, <1>5, <2>1, ReadPeerStep, WriteStep
  <2>4. ASSUME NEW S, RowsNamedIn(S), CallsNamedIn(S)
        PROVE  RowsNamedIn(S)' /\ CallsNamedIn(S)'
    BY <1>0, <2>1, <2>4, ReadPeerStep, WriteStep
  <2>5. RobotTypeOK'
    BY <1>0, <2>2 DEF RobotTypeOK
  <2>. QED BY <1>2, <2>2, <2>3, <2>4, <2>5
<1>9. CASE FriendAdmin
  <2>1. F!AdminSave \/ F!AdminEdit \/ F!AdminRemove
    BY <1>9 DEF FriendAdmin
  <2>2. /\ UNCHANGED <<robots, rongs, adding, forgotten, typed>> /\ admin' \in 0 .. MaxAdmin
        /\ direct' = direct \union
             {r \in Robots : \E i \in Ids : /\ rows'[i] \notin {None, rows[i]}
                                          /\ r \in {rows'[i].user, rows'[i].friend}}
    BY <1>0, <1>9, MaxAdminAssumption DEF FriendAdmin, RobotTypeOK
  <2>3. F!TypeOK'
    BY <1>0, <1>5, <2>1, AdminStep
  <2>4. direct \subseteq direct' /\ RobotTypeOK'
    BY <1>0, <2>2 DEF RobotTypeOK
  <2>5. ASSUME NEW S, RowsNamedIn(S), CallsNamedIn(S), KnownUsers' \subseteq S
        PROVE  RowsNamedIn(S)' /\ CallsNamedIn(S)'
    <3>1. ASSUME NEW i \in Ids, rows'[i] \notin {None, rows[i]}
          PROVE  Named(rows'[i], S)
      <4>1. rows'[i].user \in Users /\ rows'[i].friend \in Users
        BY <2>3, <3>1 DEF F!TypeOK, F!Row
      <4>2. \A r \in {rows'[i].user, rows'[i].friend} : r \in Robots => r \in direct'
        BY <2>2, <3>1
      <4>3. rows'[i].user \in KnownUsers' /\ rows'[i].friend \in KnownUsers'
        BY <4>1, <4>2 DEF KnownUsers, Known
      <4>. QED BY <2>5, <4>3 DEF Named
    <3>. QED BY <1>0, <2>1, <2>5, <3>1, AdminStep
  <2>. QED BY <1>2, <2>2, <2>3, <2>4, <2>5
<1>10. CASE UNCHANGED vars
  <2>1. UNCHANGED <<rows, call, robots, rongs, adding, forgotten, typed, direct, admin>>
    BY <1>10 DEF vars
  <2>2. TypeOK'
    BY <2>1 DEF TypeOK, F!TypeOK
  <2>3. NamesInv => NamesInv'
    BY <2>1 DEF NamesInv, RowsNamedIn, CallsNamedIn, F!Live, Named, Prepared, Known,
       RobotRows, KnownUsers
  <2>. QED BY <2>2, <2>3
<1>. QED
  BY <1>3, <1>4, <1>6, <1>7, <1>8, <1>9, <1>10 DEF Next, Prepare, Console

LEMMA InitHolds == Init => TypeOK /\ NamesInv
BY MaxAdminAssumption
DEF Init, F!Init, TypeOK, F!TypeOK, NamesInv, RowsNamedIn,
    CallsNamedIn, F!Live, Prepared

-----------------------------------------------------------------------------
(* Theorems *)

\* The tables, the calls and the requests being prepared keep their types,
\* whatever the two consoles do meanwhile.
THEOREM TypeCorrect == Spec => []TypeOK
<1>1. TypeOK /\ [Next]_vars => TypeOK'
  BY NextKeeps
<1>. QED BY <1>1, InitHolds, PTL DEF Spec

\* However additions of robots, calls and the two consoles interleave, no friend
\* row names a robot that lelian_robot does not know, unless the robot console
\* took it away, or operateFriendship's request or the friend console named it.
THEOREM FriendRobotsKnownCorrect == Spec => []FriendRobotsKnown
<1>1. TypeOK /\ NamesInv /\ [Next]_vars
         => (TypeOK /\ NamesInv)'
  BY NextKeeps
<1>2. NamesInv => FriendRobotsKnown
  BY DEF NamesInv, RowsNamedIn, Named, KnownUsers, Known, FriendRobotsKnown
<1>. QED BY <1>1, <1>2, InitHolds, PTL DEF Spec

-----------------------------------------------------------------------------
(***************************************************************************)
(* Copies.  The rows of a robot and the additions that will insert another *)
(* are never more than the threads: an addition becomes one of these when  *)
(* it saw no row, and then there are at most as many as there are threads. *)
(***************************************************************************)
Saving(r) == {t \in Threads : At(t, "saveRobot") /\ adding[t].robot = r}
Registering(r) == {t \in Threads : /\ At(t, "register") \/ At(t, "saveRong")
                                   /\ adding[t].robot = r}

Fits(C, S) == Cardinality(C) + Cardinality(S) <= Cardinality(Threads)

\* What a step may do to the copies C and to the additions S.
Change(C, D, S, T) ==
    \/ D = {}
    \/ D \subseteq C /\ T \subseteq S
    \/ \E k, t : k \notin C /\ t \in S /\ D = C \union {k} /\ T = S \ {t}

LEMMA ChangeFits ==
    ASSUME NEW C, NEW D, NEW S \in SUBSET Threads, NEW T \in SUBSET Threads,
           IsFiniteSet(C), Fits(C, S), Change(C, D, S, T)
    PROVE  Fits(D, T)
<1>1. IsFiniteSet(S) /\ IsFiniteSet(T) /\ IsFiniteSet(Threads)
  BY FiniteAssumption, FS_Subset
<1>2. /\ Cardinality(S) \in Nat /\ Cardinality(T) \in Nat /\ Cardinality(C) \in Nat
      /\ Cardinality(T) <= Cardinality(Threads) /\ Cardinality(Threads) \in Nat
  BY <1>1, FS_CardinalityType, FS_Subset
<1>3. CASE D = {}
  <2>1. Cardinality(D) = 0
    BY <1>3, FS_EmptySet
  <2>. QED BY <1>2, <2>1 DEF Fits
<1>4. CASE D \subseteq C /\ T \subseteq S
  <2>1. Cardinality(D) <= Cardinality(C) /\ Cardinality(T) <= Cardinality(S)
        /\ Cardinality(D) \in Nat
    BY <1>1, <1>4, FS_Subset, FS_CardinalityType
  <2>. QED BY <1>2, <2>1 DEF Fits
<1>5. ASSUME NEW k, NEW t, k \notin C, t \in S, D = C \union {k}, T = S \ {t}
      PROVE  Fits(D, T)
  <2>1. Cardinality(D) = Cardinality(C) + 1
    BY <1>5, FS_AddElement
  <2>2. Cardinality(T) = Cardinality(S) - 1
    BY <1>1, <1>5, FS_RemoveElement
  <2>. QED BY <1>2, <2>1, <2>2 DEF Fits
<1>. QED BY <1>3, <1>4, <1>5 DEF Change

CopiesInv ==
    \A r \in Robots \ typed :
        Fits(RobotRows(r), Saving(r)) /\ Fits(RongRows(r), Registering(r))

LEMMA NextChange ==
    ASSUME TypeOK, [Next]_vars, NEW r \in Robots, r \notin typed'
    PROVE  /\ Change(RobotRows(r), RobotRows(r)', Saving(r), Saving(r)')
           /\ Change(RongRows(r), RongRows(r)', Registering(r), Registering(r)')
<1> USE RobotNoneAssumption
<1>. DEFINE Changes == /\ Change(RobotRows(r), RobotRows(r)', Saving(r), Saving(r)')
                       /\ Change(RongRows(r), RongRows(r)', Registering(r), Registering(r)')
<1>0. /\ adding \in [Threads -> Adding \union {None}]
      /\ robots \in [RobotKeys -> RobotRow \union {None}]
      /\ rongs \in [RongKeys -> Robots \union {None}]
  BY DEF TypeOK
\* Steps that add no row, by which an addition comes to insert one only after
\* it saw none.
<1>1. ASSUME UNCHANGED rongs, RobotRows(r)' \subseteq RobotRows(r),
             Saving(r)' \subseteq Saving(r)
                 \/ RobotRows(r) = {},
             Registering(r)' \subseteq Registering(r)
                 \/ RongRows(r) = {}
      PROVE  Changes
  BY <1>1 DEF Change, RongRows
<1>2. ASSUME NEW t \in Threads, NEW u \in Humans, NEW q \in Robots, ReadRobot(t, u, q)
      PROVE  Changes
  <2>. DEFINE w == [stage |-> IF RobotRows(q) = {} THEN "saveRobot" ELSE "ask",
                    user |-> u, robot |-> q]
  <2>1. adding' = [adding EXCEPT ![t] = w] /\ UNCHANGED <<robots, rongs>>
    BY <1>2 DEF ReadRobot
  <2>2. w.robot = q /\ w.stage \in {"saveRobot", "ask"}
        /\ (w.stage = "saveRobot" => RobotRows(q) = {})
    OBVIOUS
  <2>. HIDE DEF w
  <2>3. RobotRows(r)' = RobotRows(r)
    BY <2>1 DEF RobotRows
  <2>4. Saving(r)' \subseteq Saving(r) \/ RobotRows(r) = {}
    BY <1>0, <2>1, <2>2 DEF Saving, At
  <2>5. Registering(r)' \subseteq Registering(r)
    BY <1>0, <2>1, <2>2 DEF Registering, At
  <2>. QED BY <1>1, <2>1, <2>3, <2>4, <2>5
\* The steps of an addition.
<1>3. ASSUME NEW t \in Threads, adding[t] # None,
             NEW stage, Goto(t, stage)
      PROVE  /\ adding[t] \in Adding /\ adding'[t].stage = stage
             /\ adding'[t].robot = adding[t].robot
             /\ \A s \in Threads \ {t} : adding'[s] = adding[s]
  <2>1. adding[t] \in Adding
    BY <1>0, <1>3
  <2>2. adding' = [adding EXCEPT ![t] = [adding[t] EXCEPT !.stage = stage]]
    BY <1>3 DEF Goto
  <2>3. adding'[t] = [adding[t] EXCEPT !.stage = stage]
    BY <1>0, <2>2
  <2>4. \A s \in Threads \ {t} : adding'[s] = adding[s]
    BY <1>0, <2>2
  <2>. QED BY <2>1, <2>3, <2>4 DEF Adding
<1>4. ASSUME NEW t \in Threads, Drop(t)
      PROVE  Saving(r)' \subseteq Saving(r) /\ Registering(r)' \subseteq Registering(r)
  BY <1>0, <1>4 DEF Drop, Saving, Registering, At
<1>5. ASSUME NEW t \in Threads, SaveRobot(t)
      PROVE  Changes
  <2>. DEFINE k == CHOOSE k \in FreeRobotKeys : TRUE
              row == [robotid |-> adding[t].robot, manager |-> adding[t].user]
  <2>1. /\ k \in FreeRobotKeys /\ robots' = [robots EXCEPT ![k] = row] /\ rongs' = rongs
        /\ adding[t] # None /\ adding[t].stage = "saveRobot" /\ Goto(t, "lookupRong")
    BY <1>5 DEF SaveRobot, At
  <2>2. /\ adding[t] \in Adding /\ adding'[t].stage = "lookupRong"
        /\ adding'[t].robot = adding[t].robot
        /\ \A s \in Threads \ {t} : adding'[s] = adding[s]
    BY <1>3, <2>1
  <2>3. row \in RobotRow /\ row.robotid = adding[t].robot
    BY <2>2 DEF Adding, RobotRow
  <2>4. k \in RobotKeys /\ robots[k] = None
    BY <2>1 DEF FreeRobotKeys
  <2>. HIDE DEF k, row
  <2>5. Registering(r)' \subseteq Registering(r)
    BY <2>2 DEF Registering, At
  <2>6. CASE adding[t].robot = r
    <3>1. RobotRows(r)' = RobotRows(r) \union {k} /\ k \notin RobotRows(r)
      BY <1>0, <2>1, <2>3, <2>4, <2>6 DEF RobotRows
    <3>2. Saving(r)' = Saving(r) \ {t} /\ t \in Saving(r)
      BY <2>1, <2>2, <2>6 DEF Saving, At
    <3>. QED BY <2>1, <2>5, <3>1, <3>2 DEF Change, RongRows
  <2>7. CASE adding[t].robot # r
    <3>1. RobotRows(r)' = RobotRows(r)
      BY <1>0, <2>1, <2>3, <2>4, <2>7 DEF RobotRows
    <3>2. Saving(r)' \subseteq Saving(r)
      BY <2>2 DEF Saving, At
    <3>. QED BY <1>1, <2>1, <2>5, <3>1, <3>2
  <2>. QED BY <2>6, <2>7
<1>6. ASSUME NEW t \in Threads, LookupRong(t)
      PROVE  Changes
  <2>1. /\ UNCHANGED <<robots, rongs>> /\ adding[t] # None
        /\ \/ Drop(t)
           \/ Goto(t, "register") /\ RongRows(adding[t].robot) = {}
           \/ Goto(t, "ask")
    BY <1>6 DEF LookupRong, At
  <2>2. RobotRows(r)' = RobotRows(r)
    BY <2>1 DEF RobotRows
  <2>3. /\ Saving(r)' \subseteq Saving(r)
        /\ Registering(r)' \subseteq Registering(r) \/ RongRows(r) = {}
    <3>1. CASE Drop(t)
      BY <1>4, <3>1
    <3>2. CASE Goto(t, "register") /\ RongRows(adding[t].robot) = {}
      <4>1. /\ adding'[t].stage = "register" /\ adding'[t].robot = adding[t].robot
            /\ \A s \in Threads \ {t} : adding'[s] = adding[s]
        BY <1>3, <2>1, <3>2
      <4>. QED BY <3>2, <4>1 DEF Saving, Registering, At
    <3>3. CASE Goto(t, "ask")
      <4>1. /\ adding'[t].stage = "ask"
            /\ \A s \in Threads \ {t} : adding'[s] = adding[s]
        BY <1>3, <2>1, <3>3
      <4>. QED BY <4>1 DEF Saving, Registering, At
    <3>. QED BY <2>1, <3>1, <3>2, <3>3
  <2>. QED BY <1>1, <2>1, <2>2, <2>3
<1>7. ASSUME NEW t \in Threads, Register(t)
      PROVE  Changes
  <2>1. /\ UNCHANGED <<robots, rongs>> /\ adding[t] # None
        /\ adding[t].stage = "register"
        /\ Drop(t) \/ Goto(t, "saveRong") \/ Goto(t, "ask")
    BY <1>7 DEF Register, At
  <2>2. RobotRows(r)' = RobotRows(r)
    BY <2>1 DEF RobotRows
  <2>3. Saving(r)' \subseteq Saving(r) /\ Registering(r)' \subseteq Registering(r)
    <3>1. ASSUME NEW stage \in {"saveRong", "ask"}, Goto(t, stage)
          PROVE  Saving(r)' \subseteq Saving(r) /\ Registering(r)' \subseteq Registering(r)
      <4>1. /\ adding'[t].stage = stage /\ adding'[t].robot = adding[t].robot
            /\ \A s \in Threads \ {t} : adding'[s] = adding[s]
        BY <1>3, <2>1, <3>1
      <4>. QED BY <2>1, <4>1 DEF Saving, Registering, At
    <3>. QED BY <1>4, <2>1, <3>1
  <2>. QED BY <1>1, <2>1, <2>2, <2>3
<1>8. ASSUME NEW t \in Threads, SaveRong(t)
      PROVE  Changes
  <2>. DEFINE k == CHOOSE k \in FreeRongKeys : TRUE
  <2>1. /\ k \in FreeRongKeys /\ rongs' = [rongs EXCEPT ![k] = adding[t].robot]
        /\ robots' = robots
        /\ adding[t] # None /\ adding[t].stage = "saveRong" /\ Goto(t, "ask")
    BY <1>8 DEF SaveRong, At
  <2>2. /\ adding[t] \in Adding /\ adding'[t].stage = "ask"
        /\ \A s \in Threads \ {t} : adding'[s] = adding[s]
    BY <1>3, <2>1
  <2>3. k \in RongKeys /\ rongs[k] = None
    BY <2>1 DEF FreeRongKeys
  <2>. HIDE DEF k
  <2>4. RobotRows(r)' = RobotRows(r) /\ Saving(r)' \subseteq Saving(r)
    BY <2>1, <2>2 DEF RobotRows, Saving, At
  <2>5. CASE adding[t].robot = r
    <3>1. RongRows(r)' = RongRows(r) \union {k} /\ k \notin RongRows(r)
      BY <1>0, <2>1, <2>3, <2>5 DEF RongRows
    <3>2. Registering(r)' = Registering(r) \ {t} /\ t \in Registering(r)
      BY <2>1, <2>2, <2>5 DEF Registering, At
    <3>. QED BY <2>4, <3>1, <3>2 DEF Change
  <2>6. CASE adding[t].robot # r
    <3>1. RongRows(r)' = RongRows(r)
      BY <1>0, <2>1, <2>3, <2>6 DEF RongRows
    <3>2. Registering(r)' \subseteq Registering(r)
      BY <2>2 DEF Registering, At
    <3>. QED BY <2>4, <3>1, <3>2 DEF Change
  <2>. QED BY <2>5, <2>6
<1>9. ASSUME NEW t \in Threads, AskRobot(t)
      PROVE  Changes
  <2>1. UNCHANGED <<robots, rongs>> /\ Drop(t)
    BY <1>9 DEF AskRobot
  <2>2. RobotRows(r)' = RobotRows(r)
    BY <2>1 DEF RobotRows
  <2>. QED BY <1>1, <1>4, <2>1, <2>2
<1>10. CASE ConsoleRemove
  <2>1. /\ UNCHANGED <<rongs, adding>>
        /\ \A k \in RobotKeys : robots'[k] \in {None, robots[k]}
    BY <1>10 DEF ConsoleRemove
  <2>2. RobotRows(r)' \subseteq RobotRows(r)
    BY <2>1 DEF RobotRows
  <2>. QED BY <1>1, <2>1, <2>2 DEF Saving, Registering, At
<1>11. CASE UNCHANGED <<robots, rongs, adding>>
  BY <1>1, <1>11 DEF RobotRows, Saving, Registering, At
\* What the console saves is of another robot.
<1>12. CASE ConsoleSave \/ ConsoleEdit
  <2>1. PICK row \in RobotRow :
          /\ row.robotid # r /\ adding' = adding
          /\ \E k \in RobotKeys : robots' = [robots EXCEPT ![k] = row]
          /\ \/ rongs' = rongs
             \/ \E k \in FreeRongKeys : rongs' = [rongs EXCEPT ![k] = row.robotid]
    BY <1>12 DEF ConsoleSave, ConsoleEdit, FreeRobotKeys
  <2>2. RobotRows(r)' \subseteq RobotRows(r)
    BY <1>0, <2>1 DEF RobotRows
  <2>3. RongRows(r)' \subseteq RongRows(r)
    BY <1>0, <2>1 DEF RongRows
  <2>4. Saving(r)' = Saving(r) /\ Registering(r)' = Registering(r)
    BY <2>1 DEF Saving, Registering, At
  <2>. QED BY <2>2, <2>3, <2>4 DEF Change
<1>13. ASSUME \/ \E t \in Threads : FriendStep(t)
              \/ \E t \in Threads, code \in F!Codes, u, f \in Users : Operate(t, code, u, f)
              \/ FriendAdmin \/ UNCHANGED vars
       PROVE  UNCHANGED <<robots, rongs, adding>>
  BY <1>13 DEF FriendStep, Operate, FriendAdmin, vars
<1>. QED
  BY <1>2, <1>5, <1>6, <1>7, <1>8, <1>9, <1>10, <1>11, <1>12, <1>13 DEF Next

\* However additions of a robot overlap, fail half way and are repeated after the
\* console removed the robot, neither lelian_robot nor rong_user ever has more
\* copies of it than there are threads, unless the console saved one itself.
THEOREM RobotCopiesBoundedCorrect == Spec => []RobotCopiesBounded
<1>1. Init => CopiesInv
  <2> SUFFICES ASSUME Init, NEW r \in Robots \ typed
               PROVE  Fits(RobotRows(r), Saving(r)) /\ Fits(RongRows(r), Registering(r))
    BY DEF CopiesInv
  <2>1. RobotRows(r) = {} /\ Saving(r) = {} /\ RongRows(r) = {} /\ Registering(r) = {}
    BY RobotNoneAssumption DEF Init, RobotRows, Saving, RongRows, Registering, At
  <2>2. Cardinality({}) = 0 /\ Cardinality(Threads) \in Nat
    BY FiniteAssumption, FS_EmptySet, FS_CardinalityType
  <2>. QED BY <2>1, <2>2 DEF Fits
<1>2. \A r \in Robots : IsFiniteSet(RobotRows(r)) /\ IsFiniteSet(RongRows(r))
  <2>1. \A r \in Robots : RobotRows(r) \subseteq RobotKeys /\ RongRows(r) \subseteq RongKeys
    BY DEF RobotRows, RongRows
  <2>. QED BY <2>1, FiniteAssumption, FS_Subset
<1>3. TypeOK /\ CopiesInv /\ [Next]_vars => CopiesInv'
  <2> SUFFICES ASSUME TypeOK, CopiesInv, [Next]_vars, NEW r \in Robots, r \notin typed'
               PROVE  Fits(RobotRows(r)', Saving(r)') /\ Fits(RongRows(r)', Registering(r)')
    BY DEF CopiesInv, Fits
  <2>0. r \notin typed
    BY DEF Next, vars, ReadRobot, SaveRobot, LookupRong, Register, SaveRong, AskRobot,
       FriendStep, Operate, FriendAdmin, ConsoleSave, ConsoleEdit, ConsoleRemove
  <2>1. /\ Saving(r) \in SUBSET Threads /\ Saving(r)' \in SUBSET Threads
        /\ Registering(r) \in SUBSET Threads /\ Registering(r)' \in SUBSET Threads
    BY DEF Saving, Registering
  <2>2. Fits(RobotRows(r), Saving(r)) /\ Fits(RongRows(r), Registering(r))
    BY <2>0 DEF CopiesInv
  <2>. QED BY <1>2, <2>1, <2>2, NextChange, ChangeFits
<1>4. CopiesInv => RobotCopiesBounded
  <2> SUFFICES ASSUME CopiesInv, NEW r \in Robots \ typed
               PROVE  /\ Cardinality(RobotRows(r)) <= Cardinality(Threads)
                      /\ Cardinality(RongRows(r)) <= Cardinality(Threads)
    BY DEF RobotCopiesBounded
  <2>1. Fits(RobotRows(r), Saving(r)) /\ Fits(RongRows(r), Registering(r))
    BY DEF CopiesInv
  <2>2. Saving(r) \subseteq Threads /\ Registering(r) \subseteq Threads
    BY DEF Saving, Registering
  <2>3. IsFiniteSet(Saving(r)) /\ IsFiniteSet(Registering(r))
    BY <2>2, FiniteAssumption, FS_Subset
  <2>4. /\ Cardinality(Saving(r)) \in Nat /\ Cardinality(Registering(r)) \in Nat
        /\ Cardinality(RobotRows(r)) \in Nat /\ Cardinality(RongRows(r)) \in Nat
        /\ Cardinality(Threads) \in Nat
    BY <1>2, <2>3, FiniteAssumption, FS_CardinalityType
  <2>. QED BY <2>1, <2>4 DEF Fits
<1>. QED BY <1>1, <1>3, <1>4, TypeCorrect, PTL DEF Spec
=============================================================================
