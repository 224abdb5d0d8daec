----------------------------- MODULE Friendship -----------------------------
(***************************************************************************)
(* The friend table rong_friendship and the handler that changes it,       *)
(* RongFriendshipController.operateFriendship.  A friendship of a and b is *)
(* two rows, one owned by each side: "a asks b" is a -> b 10 and b -> a 11.*)
(*                                                                         *)
(* A call runs on a server thread outside any transaction: it reads the    *)
(* caller's row, then the friend's row, then writes, each a statement (or  *)
(* one batch transaction) of its own.  The three steps of concurrent calls *)
(* interleave.  display_name, message and the dates are left out.          *)
(***************************************************************************)
EXTENDS Naturals, FiniteSets

CONSTANTS
    Users,      \* user ids
    Threads,    \* server threads; each serves one call at a time
    Ids,        \* primary keys: bounds the number of rows
    Calls,      \* the calls clients make: <<code, userId, friendId>>
    AdminOps,   \* operations of the admin console in use
    AdminRows,  \* rows the administrators write
    SerialAsk,  \* TRUE: the requests for one pair arrive one after the other
    None        \* SQL NULL, Java null

\* Values of the status column and of the code parameter.
Requesting == 10
Requested  == 11
Agreed     == 20
Ignored    == 21
Deleted    == 30

Codes  == {Requesting, Agreed, Ignored, Deleted}
Status == Codes \union {Requested}

Row  == [user : Users, friend : Users, status : Status]
Call == [stage : {"readPeer", "write"}, code : Codes, user : Users,
         friend : Users, own : Ids \union {None}, peer : Ids \union {None}]

ASSUME NoneAssumption == None \notin Row \union Ids \union Call
ASSUME IdsAssumption == IsFiniteSet(Ids)
ASSUME CallsAssumption == Calls \subseteq Codes \X Users \X Users
ASSUME SerialAskAssumption == SerialAsk \in BOOLEAN
ASSUME AdminOpsAssumption == /\ AdminOps \subseteq {"save", "edit", "remove"}
                             /\ AdminRows \subseteq Row

VARIABLES
    rows,       \* the table: rows[id] is the row with that key or None
    call        \* call[t] is the call thread t is serving or None

vars == <<rows, call>>

TypeOK ==
    /\ rows \in [Ids -> Row \union {None}]
    /\ call \in [Threads -> Call \union {None}]

Live == {i \in Ids : rows[i] # None}

\* Keys a new row can get: UUIDs are not used twice, so a key some call still
\* remembers is not one of them.
Free == {i \in Ids \ Live : \A t \in Threads :
            call[t] # None => i # call[t].own /\ i # call[t].peer}

\* The rows "WHERE user_id = u AND friend_id = f" selects.
Match(u, f) == {i \in Live : rows[i].user = u /\ rows[i].friend = f}

\* getOne(wrapper) throws on more than one row and returns null on none.
TooManyResults_FirstWins(u, f) == FALSE
TooManyResults(u, f) == \E i, j \in Match(u, f) : i # j
GetOne_Unchecked(u, f) == None
GetOne(u, f) == IF Match(u, f) = {} THEN None
                ELSE CHOOSE i \in Match(u, f) : TRUE

SamePair(c, u, f) == {c.user, c.friend} = {u, f}

AskPending(u, f) ==
    \E t \in Threads : /\ call[t] # None
                       /\ call[t].code = Requesting
                       /\ SamePair(call[t], u, f)

Init ==
    /\ rows = [i \in Ids |-> None]
    /\ call = [t \in Threads |-> None]

-----------------------------------------------------------------------------
(***************************************************************************)
(* operateFriendship.  A call whose getOne throws, or that dereferences    *)
(* the null it got, ends with an error and changes nothing.                *)
(***************************************************************************)

\* A call arrives and reads the caller's row; an error ends it at once.
ReadOwn(t, code, u, f) ==
    /\ call[t] = None
    /\ <<code, u, f>> \in Calls
    /\ SerialAsk /\ code = Requesting => ~AskPending(u, f)
    /\ LET fails == \/ TooManyResults(u, f)
                    \/ code # Requesting /\ GetOne(u, f) = None
       IN  call' = [call EXCEPT ![t] =
             IF fails THEN None
             ELSE [stage |-> IF code = Ignored THEN "write" ELSE "readPeer",
                   code |-> code, user |-> u, friend |-> f,
                   own |-> GetOne(u, f), peer |-> None]]
    /\ UNCHANGED rows

\* The call reads the friend's row; an error drops the call.
ReadPeer(t) ==
    /\ call[t] # None
    /\ call[t].stage = "readPeer"
    /\ LET c == call[t]
           fails == \/ TooManyResults(c.friend, c.user)
                    \/ c.code # Requesting /\ GetOne(c.friend, c.user) = None
       IN  call' = [call EXCEPT ![t] =
                      IF fails THEN None
                      ELSE [c EXCEPT !.stage = "write",
                                     !.peer = GetOne(c.friend, c.user)]]
    /\ UNCHANGED rows

\* saveBatch: both new rows in one transaction, under two fresh keys (which
\* ones does not matter: they are UUIDs).
FreshKeys == CHOOSE k \in Free \X Free : k[1] # k[2]

SaveBoth_NoStatus(u, f) ==
    /\ \E i, j \in Free : i # j
    /\ rows' = [rows EXCEPT
          ![FreshKeys[1]] = [user |-> u, friend |-> f, status |-> Requesting],
          ![FreshKeys[2]] = [user |-> f, friend |-> u, status |-> None]]

SaveBoth(u, f) ==
    /\ \E i, j \in Free : i # j
    /\ rows' = [rows EXCEPT
          ![FreshKeys[1]] = [user |-> u, friend |-> f, status |-> Requesting],
          ![FreshKeys[2]] = [user |-> f, friend |-> u, status |-> Requested]]

\* Code 10.  Only rows that were missing are in entityList: with two of them
\* they are saved; with none the "update" is of an empty list, with one there
\* is neither, and the answer is an error.
WriteAsk_AnyMissing(t) ==
    /\ call[t] # None
    /\ call[t].stage = "write"
    /\ call[t].code = Requesting
    /\ LET c == call[t] IN
       CASE c.own = None /\ c.peer = None -> SaveBoth(c.user, c.friend)
         [] c.own = None /\ c.peer # None ->
              /\ Free # {}
              /\ rows' = [rows EXCEPT ![CHOOSE i \in Free : TRUE] =
                   [user |-> c.user, friend |-> c.friend, status |-> Requesting]]
         [] OTHER -> UNCHANGED rows
    /\ call' = [call EXCEPT ![t] = None]

WriteAsk(t) ==
    /\ call[t] # None
    /\ call[t].stage = "write"
    /\ call[t].code = Requesting
    /\ IF call[t].own = None /\ call[t].peer = None
       THEN SaveBoth(call[t].user, call[t].friend)
       ELSE UNCHANGED rows
    /\ call' = [call EXCEPT ![t] = None]

\* updateBatchById writes the rows as they were read, with the new status; a
\* row that is gone is not inserted again.
WriteStatus_OwnOnly(t) ==
    /\ call[t] # None
    /\ call[t].stage = "write"
    /\ call[t].code # Requesting
    /\ LET c == call[t]
       IN  rows' = [i \in Ids |->
             IF rows[i] = None THEN None
             ELSE IF i = c.own
                  THEN [user |-> c.user, friend |-> c.friend, status |-> c.code]
             ELSE rows[i]]
    /\ call' = [call EXCEPT ![t] = None]

WriteStatus(t) ==
    /\ call[t] # None
    /\ call[t].stage = "write"
    /\ call[t].code # Requesting
    /\ LET c == call[t]
       IN  rows' = [i \in Ids |->
             IF rows[i] = None THEN None
             ELSE IF i = c.own
                  THEN [user |-> c.user, friend |-> c.friend, status |-> c.code]
             ELSE IF i = c.peer
                  THEN [user |-> c.friend, friend |-> c.user, status |-> c.code]
             ELSE rows[i]]
    /\ call' = [call EXCEPT ![t] = None]

-----------------------------------------------------------------------------
(***************************************************************************)
(* The admin console: add and importExcel save rows, edit overwrites one,  *)
(* delete and deleteBatch remove rows.                                     *)
(***************************************************************************)

AdminSave ==
    /\ "save" \in AdminOps
    /\ Free # {}
    /\ \E r \in AdminRows : rows' = [rows EXCEPT ![CHOOSE i \in Free : TRUE] = r]
    /\ UNCHANGED call

AdminEdit ==
    /\ "edit" \in AdminOps
    /\ \E i \in Live, r \in AdminRows : rows' = [rows EXCEPT ![i] = r]
    /\ UNCHANGED call

AdminRemove ==
    /\ "remove" \in AdminOps
    /\ \E S \in SUBSET Live : rows' = [i \in Ids |-> IF i \in S THEN None
                                                     ELSE rows[i]]
    /\ UNCHANGED call

-----------------------------------------------------------------------------
Client(t) ==
    \/ \E code \in Codes, u, f \in Users : ReadOwn(t, code, u, f)
    \/ ReadPeer(t)
    \/ WriteAsk(t)
    \/ WriteStatus(t)

Next == \E t \in Threads : Client(t)

Spec == Init /\ [][Next]_vars

\* With the admin console at work too, beside the clients; RobotFriendship
\* composes it with the rest of the system.
Admin == AdminSave \/ AdminEdit \/ AdminRemove

ConsoleSpec == Init /\ [][Next \/ Admin]_vars

-----------------------------------------------------------------------------
(* Properties of Spec: clients at work, whose calls overlap. *)

Copies(u, f) == Cardinality(Match(u, f))

\* Every row has its mirror: the table never keeps one side of a friendship
\* only, although the two reads of a request can straddle another request's
\* insert (the size() == 2 test decides).
MirroredRows == \A u, f \in Users : Copies(u, f) = Copies(f, u)

\* Requests that overlap can each insert the pair; when the requests of a pair
\* are serial it has one row in one direction at most.
UniquePairs ==
    SerialAsk => \A i, j \in Live :
        (/\ rows[i].user # rows[i].friend
         /\ rows[i].user = rows[j].user
         /\ rows[i].friend = rows[j].friend) => i = j

\* The statuses two mirrored rows may have together: asked and asking, both
\* agreed, both deleted, or one side ignoring.
Consistent(s1, s2) ==
    \/ {s1, s2} = {Requesting, Requested}
    \/ s1 = s2 /\ s1 \in {Agreed, Deleted}
    \/ Ignored \in {s1, s2}

Mirror(i, j) == /\ i # j
                /\ rows[j].user = rows[i].friend
                /\ rows[j].friend = rows[i].user

\* Whatever calls interleave, accepting or deleting never takes effect on one
\* side only: every row has a mirror whose status goes with its own.
ConsistentPairs ==
    \A i \in Live : \E j \in Live :
        Mirror(i, j) /\ Consistent(rows[i].status, rows[j].status)

\* Two overlapping requests poison a pair: a row that is there twice, and that
\* no call had read before, is out of reach of every client call from then on
\* (none changes it, none gets to hold it), until an administrator repairs it.
Held(i) == \E t \in Threads : call[t] # None /\ i \in {call[t].own, call[t].peer}

DuplicatedRowsFrozen ==
    [][\A i, j \in Live :
          (/\ call' # call /\ i # j /\ ~Held(i)
           /\ rows[i].user = rows[j].user /\ rows[i].friend = rows[j].friend)
            => rows'[i] = rows[i] /\ ~Held(i)']_vars

\* The relation the table stands for; with serial requests between different
\* users, every write is one step of it.
StandingTo(u, f) == IF Match(u, f) = {} THEN 0 ELSE rows[GetOne(u, f)].status

Relation == INSTANCE FriendRelation WITH
    rel <- [p \in Users \X Users |-> StandingTo(p[1], p[2])]

\* The steps of overlapping calls amount to whole operations, one at a time.
ImplementsRelation == Relation!Spec

\* "If the two users already have a relation, just modify the status": after a
\* request that found both rows, they are 10 and 11.
ReRequestUpdatesStatus ==
    [][\A t \in Threads :
          (/\ call[t] # None /\ call'[t] = None
           /\ call[t].stage = "write" /\ call[t].code = Requesting
           /\ call[t].own # None /\ call[t].peer # None)
            => /\ rows'[call[t].own].status = Requesting
               /\ rows'[call[t].peer].status = Requested]_vars
=============================================================================
