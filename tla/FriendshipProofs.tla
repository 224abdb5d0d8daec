-------------------------- MODULE FriendshipProofs --------------------------
(***************************************************************************)
(* Theorems about Friendship, for any sets of users, threads, row keys and *)
(* calls.                                                                  *)
(***************************************************************************)
EXTENDS Friendship, FunctionTheorems, FiniteSetTheorems, TLAPS

\* What getOne answers when it does not throw.
LEMMA GetOneAnswers ==
    ASSUME NEW u \in Users, NEW f \in Users, ~TooManyResults(u, f)
    PROVE  \/ Match(u, f) = {} /\ GetOne(u, f) = None
           \/ GetOne(u, f) \in Ids /\ Match(u, f) = {GetOne(u, f)}
<1>1. CASE Match(u, f) = {}
  BY <1>1 DEF GetOne
<1>2. CASE Match(u, f) # {}
  <2>1. GetOne(u, f) \in Match(u, f)
    BY <1>2 DEF GetOne
  <2>. QED BY <2>1 DEF TooManyResults, Match, Live
<1>. QED BY <1>1, <1>2

LEMMA GetOneType ==
    ASSUME NEW u \in Users, NEW f \in Users
    PROVE  GetOne(u, f) \in Ids \union {None}
<1>1. CASE Match(u, f) = {}
  BY <1>1 DEF GetOne
<1>2. CASE Match(u, f) # {}
  <2>1. GetOne(u, f) \in Match(u, f)
    BY <1>2 DEF GetOne
  <2>. QED BY <2>1 DEF Match, Live
<1>. QED BY <1>1, <1>2

\* The two keys a new pair of rows gets.
LEMMA FreshKeysAreFree ==
    ASSUME \E i, j \in Free : i # j
    PROVE  /\ FreshKeys[1] \in Free /\ FreshKeys[2] \in Free
           /\ FreshKeys[1] # FreshKeys[2]
<1>1. \E k \in Free \X Free : k[1] # k[2]
  <2>1. PICK i, j \in Free : i # j
    OBVIOUS
  <2>2. <<i, j>> \in Free \X Free /\ <<i, j>>[1] # <<i, j>>[2]
    BY <2>1
  <2>. QED BY <2>2
<1>2. FreshKeys \in Free \X Free /\ FreshKeys[1] # FreshKeys[2]
  BY <1>1 DEF FreshKeys
<1>. QED BY <1>2

-----------------------------------------------------------------------------
(* Types *)

LEMMA ClientType ==
    ASSUME TypeOK, NEW t \in Threads, Client(t)
    PROVE  TypeOK'
<1> USE NoneAssumption, CallsAssumption DEF TypeOK
<1>1. ASSUME NEW code \in Codes, NEW u \in Users, NEW f \in Users,
             ReadOwn(t, code, u, f)
      PROVE  TypeOK'
  <2>1. [stage |-> IF code = Ignored THEN "write" ELSE "readPeer",
         code |-> code, user |-> u, friend |-> f,
         own |-> GetOne(u, f), peer |-> None] \in Call
    BY GetOneType DEF Call
  <2>. QED BY <1>1, <2>1 DEF ReadOwn
<1>2. ASSUME ReadPeer(t)
      PROVE  TypeOK'
  <2>1. call[t] \in Call
    BY <1>2 DEF ReadPeer
  <2>2. [call[t] EXCEPT !.stage = "write",
             !.peer = GetOne(call[t].friend, call[t].user)] \in Call
    BY <2>1, GetOneType DEF Call
  <2>. QED BY <1>2, <2>2 DEF ReadPeer
<1>3. ASSUME WriteAsk(t)
      PROVE  TypeOK'
  <2>1. call[t] \in Call
    BY <1>3 DEF WriteAsk
  <2>2. /\ [user |-> call[t].user, friend |-> call[t].friend,
            status |-> Requesting] \in Row
        /\ [user |-> call[t].friend, friend |-> call[t].user,
            status |-> Requested] \in Row
    BY <2>1 DEF Call, Row, Status, Codes
  <2>. QED BY <1>3, <2>2 DEF WriteAsk, SaveBoth
<1>4. ASSUME WriteStatus(t)
      PROVE  TypeOK'
  <2>1. call[t] \in Call
    BY <1>4 DEF WriteStatus
  <2>2. /\ [user |-> call[t].user, friend |-> call[t].friend,
            status |-> call[t].code] \in Row
        /\ [user |-> call[t].friend, friend |-> call[t].user,
            status |-> call[t].code] \in Row
    BY <2>1 DEF Call, Row, Status
  <2>. QED BY <1>4, <2>2 DEF WriteStatus
<1>. QED BY <1>1, <1>2, <1>3, <1>4 DEF Client

LEMMA NextType == TypeOK /\ [Next \/ Admin]_vars => TypeOK'
<1> SUFFICES ASSUME TypeOK, [Next \/ Admin]_vars
             PROVE  TypeOK'
  OBVIOUS
<1>1. CASE Admin
  BY <1>1, AdminOpsAssumption
  DEF Admin, AdminSave, AdminEdit, AdminRemove, TypeOK, Live
<1>2. CASE UNCHANGED vars
  BY <1>2 DEF vars, TypeOK
<1>. QED BY <1>1, <1>2, ClientType DEF Next

\* Rows and calls keep their types, whatever clients do.
THEOREM TypeCorrect == Spec => []TypeOK
<1>1. Init => TypeOK
  BY DEF Init, TypeOK
<1>2. TypeOK /\ [Next]_vars => TypeOK'
  BY NextType
<1>. QED BY <1>1, <1>2, PTL DEF Spec

\* ... and whatever administrators do to the rows meanwhile.
THEOREM ConsoleTypeCorrect == ConsoleSpec => []TypeOK
<1>1. Init => TypeOK
  BY DEF Init, TypeOK
<1>. QED BY <1>1, NextType, PTL DEF ConsoleSpec

-----------------------------------------------------------------------------
(***************************************************************************)
(* A client never moves or removes a row: the rows a call has read are     *)
(* rows of its pair for as long as it holds them.                          *)
(***************************************************************************)
HoldsRows(c) ==
    /\ c.own # None => c.own \in Match(c.user, c.friend)
    /\ c.peer # None => c.peer \in Match(c.friend, c.user)

\* What the reads of a call found by the time it writes.
ReadBoth(c) ==
    /\ c.stage = "readPeer" => c.peer = None
    /\ c.code # Requesting => c.own # None
    /\ c.code = Ignored => c.stage = "write" /\ c.peer = None
    /\ c.stage = "write" /\ c.code \in {Agreed, Deleted} => c.peer # None

CallsHoldRows ==
    \A t \in Threads : call[t] # None => HoldsRows(call[t]) /\ ReadBoth(call[t])

HoldInv == TypeOK /\ CallsHoldRows

\* An insertion adds the two rows of the caller's pair and nothing else.
LEMMA WriteAskRows ==
    ASSUME HoldInv, NEW t \in Threads, WriteAsk(t),
           call[t].own = None, call[t].peer = None
    PROVE  LET c == call[t]
               i == FreshKeys[1]
               j == FreshKeys[2]
           IN  /\ i \in Free /\ j \in Free /\ i # j
               /\ Live' = Live \union {i, j}
               /\ \A k \in Live : rows'[k] = rows[k]
               /\ rows'[i] = [user |-> c.user, friend |-> c.friend,
                              status |-> Requesting]
               /\ rows'[j] = [user |-> c.friend, friend |-> c.user,
                              status |-> Requested]
<1> USE NoneAssumption DEF HoldInv, TypeOK
<1>. DEFINE c == call[t]
            i == FreshKeys[1]
            j == FreshKeys[2]
            ri == [user |-> c.user, friend |-> c.friend, status |-> Requesting]
            rj == [user |-> c.friend, friend |-> c.user, status |-> Requested]
<1>1. c \in Call
  BY DEF WriteAsk
<1>2. ri # None /\ rj # None
  BY <1>1 DEF Call, Row, Status, Codes
<1>3. (\E k, l \in Free : k # l) /\ rows' = [rows EXCEPT ![i] = ri, ![j] = rj]
  BY DEF WriteAsk, SaveBoth
<1>4. i \in Free /\ j \in Free /\ i # j
  BY <1>3, FreshKeysAreFree
<1>5. i \in Ids \ Live /\ j \in Ids \ Live
  BY <1>4 DEF Free
<1>6. /\ rows'[i] = ri /\ rows'[j] = rj
      /\ \A k \in Ids \ {i, j} : rows'[k] = rows[k]
  BY <1>3, <1>4, <1>5
<1>7. Live' = Live \union {i, j}
  BY <1>2, <1>5, <1>6 DEF Live
<1>8. Live \subseteq Ids
  BY DEF Live
<1>. QED BY <1>4, <1>5, <1>6, <1>7, <1>8

\* A status update leaves every row where it is.
LEMMA WriteStatusRows ==
    ASSUME HoldInv, NEW t \in Threads, WriteStatus(t)
    PROVE  LET c == call[t]
           IN  /\ Live' = Live
               /\ c.own \in Live
               /\ c.code = Ignored => c.peer = None
               /\ c.code # Ignored => c.peer \in Live
               /\ \A k \in Live :
                     /\ rows'[k].user = rows[k].user
                     /\ rows'[k].friend = rows[k].friend
                     /\ rows'[k].status = IF k \in {c.own, c.peer} THEN c.code
                                          ELSE rows[k].status
<1> USE NoneAssumption DEF HoldInv, TypeOK
<1>. DEFINE c == call[t]
            ro == [user |-> c.user, friend |-> c.friend, status |-> c.code]
            rp == [user |-> c.friend, friend |-> c.user, status |-> c.code]
<1>1. /\ c \in Call /\ c.code # Requesting /\ c.stage = "write"
      /\ HoldsRows(c) /\ ReadBoth(c)
  BY DEF WriteStatus, CallsHoldRows
<1>2. ro # None /\ rp # None
  BY <1>1 DEF Call, Row, Status
<1>3. /\ c.own \in Match(c.user, c.friend)
      /\ c.code = Ignored => c.peer = None
      /\ c.code # Ignored => c.peer \in Match(c.friend, c.user)
  BY <1>1 DEF HoldsRows, ReadBoth, Call, Codes
<1>4. rows' = [k \in Ids |-> IF rows[k] = None THEN None
                             ELSE IF k = c.own THEN ro
                             ELSE IF k = c.peer THEN rp
                             ELSE rows[k]]
  BY DEF WriteStatus
<1>5. Live' = Live
  BY <1>2, <1>4 DEF Live
<1>6. ASSUME NEW k \in Live
      PROVE  /\ rows'[k].user = rows[k].user
             /\ rows'[k].friend = rows[k].friend
             /\ rows'[k].status = IF k \in {c.own, c.peer} THEN c.code
                                  ELSE rows[k].status
  <2>1. CASE k = c.own
    BY <1>3, <1>4, <2>1 DEF Match, Live
  <2>2. CASE k # c.own /\ k = c.peer
    <3>1. k \in Match(c.friend, c.user)
      BY <1>3, <2>2 DEF Live
    <3>. QED BY <1>4, <2>2, <3>1 DEF Match, Live
  <2>3. CASE k \notin {c.own, c.peer}
    BY <1>4, <2>3 DEF Live
  <2>. QED BY <2>1, <2>2, <2>3
<1>. QED BY <1>3, <1>5, <1>6 DEF Match

LEMMA MatchStays ==
    ASSUME HoldInv, NEW t \in Threads, Client(t)
    PROVE  \A u, f \in Users : Match(u, f) \subseteq Match(u, f)'
<1>1. CASE rows' = rows
  BY <1>1 DEF Match, Live
<1>2. ASSUME WriteAsk(t), rows' # rows
      PROVE  \A u, f \in Users : Match(u, f) \subseteq Match(u, f)'
  <2>1. call[t].own = None /\ call[t].peer = None
    BY <1>2 DEF WriteAsk
  <2>. QED BY <1>2, <2>1, WriteAskRows DEF Match
<1>3. ASSUME WriteStatus(t)
      PROVE  \A u, f \in Users : Match(u, f) \subseteq Match(u, f)'
  BY <1>3, WriteStatusRows DEF Match
<1>. QED BY <1>1, <1>2, <1>3 DEF Client, ReadOwn, ReadPeer

LEMMA NextHoldInv ==
    ASSUME HoldInv, [Next]_vars
    PROVE  HoldInv'
<1> USE NoneAssumption DEF HoldInv
<1>1. TypeOK'
  BY NextType
<1>2. ASSUME NEW t \in Threads, Client(t), NEW s \in Threads, call'[s] # None
      PROVE  HoldsRows(call[s])' /\ ReadBoth(call[s])'
  <2>. DEFINE c == call'[s]
  <2>1. /\ c \in Call
        /\ \A u, f \in Users : Match(u, f) \subseteq Match(u, f)'
    BY <1>1, <1>2, MatchStays DEF TypeOK
  <2>2. CASE call'[s] = call[s]
    <3>1. HoldsRows(call[s]) /\ ReadBoth(call[s])
      BY <1>2, <2>2 DEF CallsHoldRows
    <3>. QED BY <2>1, <2>2, <3>1 DEF HoldsRows, ReadBoth, Call
  <2>3. CASE call'[s] # call[s]
    <3>1. s = t
      BY <1>2, <2>3 DEF Client, ReadOwn, ReadPeer, WriteAsk, WriteStatus, TypeOK
    <3>2. ASSUME NEW code \in Codes, NEW u \in Users, NEW f \in Users,
                 ReadOwn(t, code, u, f)
          PROVE  HoldsRows(call[s])' /\ ReadBoth(call[s])'
      <4>1. c = [stage |-> IF code = Ignored THEN "write" ELSE "readPeer",
                 code |-> code, user |-> u, friend |-> f,
                 own |-> GetOne(u, f), peer |-> None]
            /\ ~TooManyResults(u, f)
            /\ (code # Requesting => GetOne(u, f) # None)
            /\ rows' = rows
        BY <1>2, <3>1, <3>2 DEF ReadOwn, TypeOK
      <4>2. GetOne(u, f) # None => GetOne(u, f) \in Match(u, f)
        BY <4>1, GetOneAnswers
      <4>3. HoldsRows(call[s])'
        BY <2>1, <4>1, <4>2 DEF HoldsRows
      <4>4. ReadBoth(call[s])'
        BY <4>1 DEF ReadBoth, Requesting, Agreed, Ignored, Deleted
      <4>. QED BY <4>3, <4>4
    <3>3. ASSUME ReadPeer(t)
          PROVE  HoldsRows(call[s])' /\ ReadBoth(call[s])'
      <4>. DEFINE d == call[t]
      <4>1. /\ d \in Call /\ d.stage = "readPeer"
            /\ HoldsRows(d) /\ ReadBoth(d)
        BY <3>3 DEF ReadPeer, TypeOK, CallsHoldRows
      <4>2. /\ c = [d EXCEPT !.stage = "write", !.peer = GetOne(d.friend, d.user)]
            /\ ~TooManyResults(d.friend, d.user)
            /\ (d.code # Requesting => GetOne(d.friend, d.user) # None)
        BY <1>2, <3>1, <3>3 DEF ReadPeer, TypeOK
      <4>3. GetOne(d.friend, d.user) # None =>
              GetOne(d.friend, d.user) \in Match(d.friend, d.user)
        BY <4>1, <4>2, GetOneAnswers DEF Call
      <4>4. /\ c.user = d.user /\ c.friend = d.friend /\ c.code = d.code
            /\ c.own = d.own /\ c.stage = "write"
            /\ c.peer = GetOne(d.friend, d.user)
        BY <4>1, <4>2 DEF Call
      <4>5. HoldsRows(call[s])'
        BY <2>1, <4>1, <4>3, <4>4 DEF HoldsRows, Call
      <4>6. d.code # Ignored
        BY <4>1 DEF ReadBoth
      <4>. QED BY <4>1, <4>2, <4>4, <4>5, <4>6
               DEF ReadBoth, Requesting, Agreed, Ignored, Deleted
    <3>. QED BY <1>2, <3>1, <3>2, <3>3 DEF Client, WriteAsk, WriteStatus, TypeOK
  <2>. QED BY <2>2, <2>3
<1>3. CallsHoldRows'
  <2>1. ASSUME UNCHANGED vars
        PROVE  CallsHoldRows'
    BY <2>1 DEF vars, CallsHoldRows, HoldsRows, ReadBoth, Match, Live
  <2>. QED BY <1>2, <2>1 DEF Next, CallsHoldRows
<1>. QED BY <1>1, <1>3

LEMMA HoldInvariant == Spec => []HoldInv
<1>1. Init => HoldInv
  BY DEF Init, HoldInv, TypeOK, CallsHoldRows
<1>2. HoldInv /\ [Next]_vars => HoldInv'
  BY NextHoldInv
<1>. QED BY <1>1, <1>2, PTL DEF Spec

-----------------------------------------------------------------------------
(***************************************************************************)
(* Serial requests: what a request read stays true until it writes,        *)
(* because it is the only request for its pair.                            *)
(***************************************************************************)
Asking(t) == call[t] # None /\ call[t].code = Requesting

AsksAreCurrent ==
    \A t \in Threads : Asking(t) =>
        LET c == call[t]
        IN  /\ c.own = None => Match(c.user, c.friend) = {}
            /\ c.stage = "write" /\ c.peer = None => Match(c.friend, c.user) = {}

OneAskPerPair ==
    \A s, t \in Threads :
        (Asking(s) /\ Asking(t) /\ SamePair(call[s], call[t].user, call[t].friend))
            => s = t

SerialInv == HoldInv /\ AsksAreCurrent /\ OneAskPerPair /\ UniquePairs

\* Only an insertion changes which rows a pair has, and only for its pair.
LEMMA MatchChanges ==
    ASSUME HoldInv, NEW t \in Threads, Client(t),
           NEW u \in Users, NEW f \in Users, Match(u, f)' # Match(u, f)
    PROVE  /\ WriteAsk(t) /\ call'[t] = None
           /\ call[t].own = None /\ call[t].peer = None
           /\ SamePair(call[t], u, f)
<1> USE DEF HoldInv
<1>1. ASSUME WriteStatus(t)
      PROVE  FALSE
  BY <1>1, WriteStatusRows DEF Match
<1>2. ~(\E code \in Codes, v, g \in Users : ReadOwn(t, code, v, g)) /\ ~ReadPeer(t)
  BY DEF ReadOwn, ReadPeer, Match, Live
<1>3. WriteAsk(t) /\ call'[t] = None
  BY <1>1, <1>2 DEF Client, WriteAsk, TypeOK
<1>4. call[t].own = None /\ call[t].peer = None
  BY <1>3 DEF WriteAsk, Match, Live
<1>5. SamePair(call[t], u, f)
  <2>1. PICK k \in Match(u, f)' : k \notin Match(u, f)
    BY MatchStays
  <2>2. k \in {FreshKeys[1], FreshKeys[2]}
    BY <1>3, <1>4, <2>1, WriteAskRows DEF Match
  <2>3. \/ rows'[k].user = call[t].user /\ rows'[k].friend = call[t].friend
        \/ rows'[k].user = call[t].friend /\ rows'[k].friend = call[t].user
    <3>1. rows'[FreshKeys[1]] = [user |-> call[t].user, friend |-> call[t].friend,
                                 status |-> Requesting]
      BY <1>3, <1>4, WriteAskRows
    <3>2. rows'[FreshKeys[2]] = [user |-> call[t].friend, friend |-> call[t].user,
                                 status |-> Requested]
      BY <1>3, <1>4, WriteAskRows
    <3>. QED BY <2>2, <3>1, <3>2
  <2>. QED BY <2>1, <2>3 DEF Match, SamePair
<1>. QED BY <1>3, <1>4, <1>5

\* A step by one call leaves the others alone.
LEMMA OthersStay ==
    ASSUME TypeOK, NEW t \in Threads, Client(t), NEW s \in Threads, s # t
    PROVE  call'[s] = call[s]
BY DEF Client, ReadOwn, ReadPeer, WriteAsk, WriteStatus, TypeOK

LEMMA ClientAsksCurrent ==
    ASSUME SerialInv, NEW t \in Threads, Client(t)
    PROVE  AsksAreCurrent'
<1> USE NoneAssumption DEF SerialInv, HoldInv
<1> SUFFICES ASSUME NEW s \in Threads, Asking(s)',
                    NEW u \in Users, NEW f \in Users,
                    u = call'[s].user, f = call'[s].friend
             PROVE  /\ call'[s].own = None => Match(u, f)' = {}
                    /\ call'[s].stage = "write" /\ call'[s].peer = None
                          => Match(f, u)' = {}
  <2>1. \A s \in Threads : Asking(s)' => call'[s] \in Call
    BY NextType DEF Next, Asking, TypeOK
  <2>2. \A s \in Threads : Asking(s)' =>
          call'[s].user \in Users /\ call'[s].friend \in Users
    BY <2>1 DEF Call
  <2>. QED BY <2>2 DEF AsksAreCurrent
<1>. DEFINE c == call'[s]
<1>1. c \in Call
  BY NextType DEF Next, Asking, TypeOK
<1>2. CASE s # t
  <2>1. c = call[s] /\ Asking(s)
    BY <1>2, OthersStay DEF Asking
  <2>2. \A v, g \in Users :
          Match(v, g)' # Match(v, g) => Asking(t) /\ SamePair(call[t], v, g)
    BY MatchChanges DEF WriteAsk, Asking
  <2>3. ~(Asking(t) /\ SamePair(call[t], u, f))
    BY <1>2, <2>1 DEF OneAskPerPair
  <2>4. Match(u, f)' = Match(u, f) /\ Match(f, u)' = Match(f, u)
    BY <2>2, <2>3 DEF SamePair
  <2>. QED BY <2>1, <2>4 DEF AsksAreCurrent
<1>3. CASE s = t
  <2>1. ~WriteAsk(t) /\ ~WriteStatus(t)
    BY <1>3 DEF WriteAsk, WriteStatus, Asking, TypeOK
  <2>2. Match(u, f)' = Match(u, f) /\ Match(f, u)' = Match(f, u)
    BY <2>1, MatchChanges
  <2>3. ASSUME NEW code \in Codes, NEW v \in Users, NEW g \in Users,
               ReadOwn(t, code, v, g)
        PROVE  /\ c.own = None => Match(u, f) = {}
               /\ c.stage # "write"
    <3>1. c = [stage |-> IF code = Ignored THEN "write" ELSE "readPeer",
               code |-> code, user |-> v, friend |-> g,
               own |-> GetOne(v, g), peer |-> None]
          /\ ~TooManyResults(v, g)
      BY <1>3, <2>3 DEF ReadOwn, TypeOK, Asking
    <3>2. /\ u = v /\ f = g /\ c.own = GetOne(u, f)
          /\ c.stage = "readPeer"
      BY <3>1 DEF Asking, Requesting, Ignored
    <3>. QED BY <3>1, <3>2, GetOneAnswers
  <2>4. ASSUME ReadPeer(t)
        PROVE  /\ c.own = None => Match(u, f) = {}
               /\ c.peer = None => Match(f, u) = {}
    <3>. DEFINE d == call[t]
    <3>1. /\ d \in Call
          /\ c = [d EXCEPT !.stage = "write", !.peer = GetOne(d.friend, d.user)]
          /\ ~TooManyResults(d.friend, d.user)
      BY <1>3, <2>4 DEF ReadPeer, TypeOK, Asking
    <3>2. /\ u = d.user /\ f = d.friend /\ c.own = d.own
          /\ c.peer = GetOne(f, u) /\ c.code = d.code
      BY <3>1 DEF Call
    <3>3. Asking(t)
      BY <1>3, <2>4, <3>2 DEF ReadPeer, Asking
    <3>4. c.own = None => Match(u, f) = {}
      BY <3>2, <3>3 DEF AsksAreCurrent
    <3>. QED BY <3>1, <3>2, <3>4, GetOneAnswers
  <2>. QED
    BY <2>1, <2>2, <2>3, <2>4 DEF Client
<1>. QED BY <1>2, <1>3

LEMMA ClientOneAsk ==
    ASSUME SerialAsk, SerialInv, NEW t \in Threads, Client(t)
    PROVE  OneAskPerPair'
<1> USE NoneAssumption DEF SerialInv, HoldInv
<1>1. ASSUME NEW s \in Threads, Asking(s)'
      PROVE  \/ /\ Asking(s)
                /\ call'[s].user = call[s].user
                /\ call'[s].friend = call[s].friend
             \/ /\ s = t
                /\ ~AskPending(call'[s].user, call'[s].friend)
  <2>1. CASE s # t
    BY <1>1, <2>1, OthersStay DEF Asking
  <2>2. ASSUME s = t, NEW code \in Codes, NEW u \in Users, NEW f \in Users,
               ReadOwn(t, code, u, f)
        PROVE  ~AskPending(call'[s].user, call'[s].friend)
    BY <1>1, <2>2 DEF ReadOwn, TypeOK, Asking
  <2>3. ASSUME s = t, ReadPeer(t)
        PROVE  /\ Asking(s)
               /\ call'[s].user = call[s].user
               /\ call'[s].friend = call[s].friend
    BY <1>1, <2>3 DEF ReadPeer, TypeOK, Asking, Call
  <2>. QED
    BY <1>1, <2>1, <2>2, <2>3 DEF Client, WriteAsk, WriteStatus, Asking, TypeOK
<1>2. ASSUME NEW r \in Threads, NEW s \in Threads, Asking(r)', Asking(s)',
             SamePair(call[r], call[s].user, call[s].friend)', r # s
      PROVE  FALSE
  <2>1. CASE r = t
    <3>1. Asking(s) /\ call'[s] = call[s]
      BY <1>2, <2>1, OthersStay DEF Asking
    <3>2. ~AskPending(call'[r].user, call'[r].friend)
      BY <1>1, <1>2, <2>1, <3>1 DEF OneAskPerPair, SamePair
    <3>. QED BY <1>2, <3>1, <3>2 DEF AskPending, SamePair, Asking
  <2>2. CASE r # t
    <3>1. Asking(r) /\ call'[r] = call[r]
      BY <1>2, <2>2, OthersStay DEF Asking
    <3>2. ~AskPending(call'[s].user, call'[s].friend)
      BY <1>1, <1>2, <2>2, <3>1 DEF OneAskPerPair, SamePair
    <3>. QED BY <1>2, <3>1, <3>2 DEF AskPending, SamePair, Asking
  <2>. QED BY <2>1, <2>2
<1>. QED BY <1>2 DEF OneAskPerPair

LEMMA ClientUniquePairs ==
    ASSUME SerialInv, NEW t \in Threads, Client(t)
    PROVE  UniquePairs'
<1> USE DEF SerialInv
<1> SUFFICES ASSUME SerialAsk, NEW i \in Live', NEW j \in Live',
                    rows'[i].user # rows'[i].friend,
                    rows'[i].user = rows'[j].user,
                    rows'[i].friend = rows'[j].friend
             PROVE  i = j
  BY DEF UniquePairs
<1>1. CASE rows' = rows
  BY <1>1 DEF UniquePairs, Live
<1>2. ASSUME WriteAsk(t), rows' # rows
      PROVE  i = j
  <2>. DEFINE c == call[t]
  <2>1. c.own = None /\ c.peer = None /\ Asking(t) /\ c.stage = "write"
    BY <1>2 DEF WriteAsk, Asking
  <2>2. Match(c.user, c.friend) = {} /\ Match(c.friend, c.user) = {}
    BY <2>1 DEF AsksAreCurrent
  <2>3. \A k \in Live : /\ rows'[k] = rows[k]
                        /\ ~(rows[k].user = c.user /\ rows[k].friend = c.friend)
                        /\ ~(rows[k].user = c.friend /\ rows[k].friend = c.user)
    BY <1>2, <2>1, <2>2, WriteAskRows DEF Match
  <2>4. /\ Live' = Live \union {FreshKeys[1], FreshKeys[2]}
        /\ rows'[FreshKeys[1]] = [user |-> c.user, friend |-> c.friend,
                                  status |-> Requesting]
        /\ rows'[FreshKeys[2]] = [user |-> c.friend, friend |-> c.user,
                                  status |-> Requested]
    BY <1>2, <2>1, WriteAskRows
  <2>5. CASE i \in Live /\ j \in Live
    BY <2>3, <2>5 DEF UniquePairs
  <2>6. CASE i \notin Live \/ j \notin Live
    BY <2>3, <2>4, <2>6
  <2>. QED BY <2>5, <2>6
<1>3. ASSUME WriteStatus(t)
      PROVE  i = j
  BY <1>3, WriteStatusRows DEF UniquePairs
<1>. QED BY <1>1, <1>2, <1>3 DEF Client, ReadOwn, ReadPeer

LEMMA InitSerial == Init => SerialInv
BY NoneAssumption DEF Init, SerialInv, HoldInv, TypeOK, CallsHoldRows, Asking,
   AsksAreCurrent, OneAskPerPair, UniquePairs, Live

LEMMA NextSerial == SerialAsk /\ SerialInv /\ [Next]_vars => SerialInv'
<1> SUFFICES ASSUME SerialAsk, SerialInv, [Next]_vars
             PROVE  SerialInv'
  OBVIOUS
<1>1. HoldInv'
  BY NextHoldInv DEF SerialInv
<1>2. ASSUME NEW t \in Threads, Client(t)
      PROVE  SerialInv'
  BY <1>1, <1>2, ClientAsksCurrent, ClientOneAsk, ClientUniquePairs
  DEF SerialInv
<1>3. CASE UNCHANGED vars
  BY <1>1, <1>3 DEF vars, SerialInv, AsksAreCurrent, OneAskPerPair, UniquePairs,
     Asking, SamePair, Match, Live
<1>. QED BY <1>2, <1>3 DEF Next

\* While the requests for a pair arrive one after the other, a user has one
\* row at most for another, so getOne never throws: the lookup before the
\* insertion in operateFriendship is enough for requests that do not overlap.
THEOREM UniquePairsCorrect ==
    ASSUME SerialAsk
    PROVE  Spec => []UniquePairs
<1>1. SerialInv => UniquePairs
  BY DEF SerialInv
<1>. QED BY <1>1, InitSerial, NextSerial, PTL DEF Spec

-----------------------------------------------------------------------------
(***************************************************************************)
(* Overlapping requests: every row keeps the partner it was inserted with, *)
(* and a call that holds two rows holds partners, because it found each    *)
(* alone.  Updates then go to both partners, or set one to Ignored.        *)
(***************************************************************************)
Partners(p) ==
    /\ p \in [Live -> Live]
    /\ \A i \in Live : /\ p[i] # i /\ p[p[i]] = i
                       /\ rows[p[i]].user = rows[i].friend
                       /\ rows[p[i]].friend = rows[i].user
                       /\ Consistent(rows[i].status, rows[p[i]].status)
    /\ \A t \in Threads :
          (call[t] # None /\ call[t].own # None /\ call[t].peer # None)
             => p[call[t].own] = call[t].peer

PartnerInv == HoldInv /\ \E p : Partners(p)

LEMMA ConsistentPairsFollows == PartnerInv => ConsistentPairs
BY DEF PartnerInv, Partners, ConsistentPairs, Mirror

\* Calls that do not write keep the partners; the second read finds the
\* partner of the first.
LEMMA ReadPartners ==
    ASSUME HoldInv, NEW t \in Threads, Client(t), rows' = rows, HoldInv',
           NEW p, Partners(p)
    PROVE  Partners(p)'
<1> USE NoneAssumption DEF HoldInv
<1>1. Live' = Live
  BY DEF Live
<1>2. ASSUME NEW s \in Threads, call'[s] # None, call'[s].own # None,
             call'[s].peer # None
      PROVE  p[call'[s].own] = call'[s].peer
  <2>1. CASE call'[s] = call[s]
    BY <1>2, <2>1 DEF Partners
  <2>2. CASE call'[s] # call[s]
    <3>1. s = t
      BY <2>2, OthersStay
    <3>2. ReadPeer(t)
      <4>1. ASSUME NEW code \in Codes, NEW u \in Users, NEW f \in Users,
                   ReadOwn(t, code, u, f)
            PROVE  call'[t].peer = None
        BY <1>2, <3>1, <4>1 DEF ReadOwn, TypeOK
      <4>2. ~WriteAsk(t) /\ ~WriteStatus(t)
        BY <1>2, <3>1 DEF WriteAsk, WriteStatus, TypeOK
      <4>. QED BY <1>2, <3>1, <4>1, <4>2 DEF Client
    <3>. DEFINE d == call[t]
    <3>3. /\ d \in Call /\ HoldsRows(d)
          /\ call'[t] = [d EXCEPT !.stage = "write",
                                  !.peer = GetOne(d.friend, d.user)]
          /\ ~TooManyResults(d.friend, d.user)
      BY <1>2, <3>1, <3>2 DEF ReadPeer, TypeOK, CallsHoldRows
    <3>4. /\ call'[t].own = d.own /\ call'[t].peer = GetOne(d.friend, d.user)
          /\ d.user \in Users /\ d.friend \in Users
      BY <3>3 DEF Call
    <3>5. Match(d.friend, d.user) = {call'[t].peer}
      BY <1>2, <3>1, <3>3, <3>4, GetOneAnswers
    <3>6. d.own \in Match(d.user, d.friend)
      BY <1>2, <3>1, <3>3, <3>4 DEF HoldsRows
    <3>7. p[d.own] \in Match(d.friend, d.user)
      BY <3>6 DEF Partners, Match
    <3>. QED BY <3>1, <3>4, <3>5, <3>7
  <2>. QED BY <2>1, <2>2
<1>. QED BY <1>1, <1>2 DEF Partners

\* An insertion makes the two new rows partners.
LEMMA InsertPartners ==
    ASSUME HoldInv, NEW t \in Threads, WriteAsk(t), rows' # rows,
           NEW p, Partners(p)
    PROVE  \E q : Partners(q)'
<1> USE NoneAssumption DEF HoldInv
<1>. DEFINE c == call[t]
            i == FreshKeys[1]
            j == FreshKeys[2]
<1>. PICK q :
       q = [k \in Live' |-> IF k = i THEN j ELSE IF k = j THEN i ELSE p[k]]
  OBVIOUS
<1>1. c.own = None /\ c.peer = None
  BY DEF WriteAsk
<1>2. /\ i \in Free /\ j \in Free /\ i # j
      /\ Live' = Live \union {i, j}
      /\ \A k \in Live : rows'[k] = rows[k]
      /\ rows'[i] = [user |-> c.user, friend |-> c.friend, status |-> Requesting]
      /\ rows'[j] = [user |-> c.friend, friend |-> c.user, status |-> Requested]
  BY <1>1, WriteAskRows
<1>3. i \notin Live /\ j \notin Live
  BY <1>2 DEF Free
<1>4. /\ q[i] = j /\ q[j] = i
      /\ \A k \in Live : q[k] = p[k] /\ p[k] \in Live
  BY <1>2, <1>3 DEF Partners
<1>5. q \in [Live' -> Live']
  BY <1>2, <1>4
<1>6. ASSUME NEW k \in Live'
      PROVE  /\ q[k] # k /\ q[q[k]] = k
             /\ rows'[q[k]].user = rows'[k].friend
             /\ rows'[q[k]].friend = rows'[k].user
             /\ Consistent(rows'[k].status, rows'[q[k]].status)
  <2>1. CASE k \in Live
    BY <1>2, <1>4, <2>1 DEF Partners
  <2>2. CASE k \in {i, j}
    <3>1. Consistent(Requesting, Requested) /\ Consistent(Requested, Requesting)
      BY DEF Consistent
    <3>. QED BY <1>2, <1>4, <2>2, <3>1
  <2>. QED BY <1>2, <2>1, <2>2
<1>7. ASSUME NEW s \in Threads, call'[s] # None, call'[s].own # None,
             call'[s].peer # None
      PROVE  q[call'[s].own] = call'[s].peer
  <2>1. call'[s] = call[s] /\ call[s].own \in Live
    BY <1>7 DEF WriteAsk, TypeOK, CallsHoldRows, HoldsRows, Match
  <2>2. p[call[s].own] = call[s].peer
    BY <1>7, <2>1 DEF Partners
  <2>3. q[call[s].own] = p[call[s].own]
    BY <1>4, <2>1
  <2>. QED BY <2>1, <2>2, <2>3
<1>8. Partners(q)'
  BY <1>5, <1>6, <1>7 DEF Partners
<1>. QED BY <1>8

\* An update reaches both partners, or ignores one.
LEMMA UpdatePartners ==
    ASSUME HoldInv, NEW t \in Threads, WriteStatus(t), NEW p, Partners(p)
    PROVE  Partners(p)'
<1> USE NoneAssumption DEF HoldInv
<1>. DEFINE c == call[t]
<1>1. /\ Live' = Live
      /\ c.own \in Live
      /\ c.code = Ignored => c.peer = None
      /\ c.code # Ignored => c.peer \in Live
      /\ \A k \in Live :
            /\ rows'[k].user = rows[k].user
            /\ rows'[k].friend = rows[k].friend
            /\ rows'[k].status = IF k \in {c.own, c.peer} THEN c.code
                                 ELSE rows[k].status
  BY WriteStatusRows
<1>2. c \in Call /\ c.code \in {Agreed, Ignored, Deleted}
  BY DEF WriteStatus, TypeOK, Call, Codes
<1>3. ASSUME NEW k \in Live
      PROVE  Consistent(rows'[k].status, rows'[p[k]].status)
  <2>1. p[k] \in Live /\ p[p[k]] = k /\ Consistent(rows[k].status, rows[p[k]].status)
    BY DEF Partners
  <2>2. CASE c.code = Ignored
    <3>1. None \notin Live
      BY DEF Live
    <3>. QED BY <1>1, <2>1, <2>2, <3>1 DEF Consistent
  <2>3. CASE c.code # Ignored
    <3>1. p[c.own] = c.peer /\ p[c.peer] = c.own
      BY <1>1, <2>3 DEF Partners, WriteStatus, Live
    <3>2. k \in {c.own, c.peer} <=> p[k] \in {c.own, c.peer}
      BY <1>1, <2>1, <2>3, <3>1 DEF Partners
    <3>3. Consistent(c.code, c.code)
      BY <1>2, <2>3 DEF Consistent
    <3>. QED BY <1>1, <2>1, <3>2, <3>3
  <2>. QED BY <2>2, <2>3
<1>4. ASSUME NEW s \in Threads, call'[s] # None
      PROVE  call'[s] = call[s]
  BY <1>4 DEF WriteStatus, TypeOK
<1>5. /\ p \in [Live' -> Live']
      /\ \A k \in Live' : /\ p[k] # k /\ p[p[k]] = k
                          /\ rows'[p[k]].user = rows'[k].friend
                          /\ rows'[p[k]].friend = rows'[k].user
  BY <1>1 DEF Partners
<1>. QED BY <1>1, <1>3, <1>4, <1>5 DEF Partners

\* The partners of a user's rows for another are that one's rows for the user,
\* so there are as many of them.
LEMMA MirroredRowsFollow == PartnerInv => MirroredRows
<1> SUFFICES ASSUME PartnerInv, NEW u \in Users, NEW f \in Users
             PROVE  Copies(u, f) = Copies(f, u)
  BY DEF MirroredRows
<1>. PICK p : Partners(p)
  BY DEF PartnerInv
<1>. DEFINE S == Match(u, f)
            T == Match(f, u)
            q == [i \in S |-> p[i]]
<1>1. \A i \in S : p[i] \in T
  BY DEF Partners, Match
<1>2. \A j \in T : p[j] \in S
  BY DEF Partners, Match
<1>3. \A i \in S \union T : p[p[i]] = i
  BY DEF Partners, Match
<1>4. IsFiniteSet(S)
  BY IdsAssumption, FS_Subset DEF Match, Live
<1>5. q \in Bijection(S, T)
  <2>1. q \in [S -> T]
    BY <1>1
  <2>2. \A i, j \in S : q[i] = q[j] => i = j
    BY <1>3
  <2>3. \A j \in T : \E i \in S : q[i] = j
    BY <1>2, <1>3
  <2>. QED BY <2>1, <2>2, <2>3, Fun_IsBij
<1>6. ExistsBijection(S, T)
  BY <1>5 DEF ExistsBijection
<1>. QED BY <1>4, <1>6, FS_Bijection DEF Copies

LEMMA PartnerInvariant == Spec => []PartnerInv
<1>1. Init => PartnerInv
  <2> SUFFICES ASSUME Init PROVE PartnerInv
    OBVIOUS
  <2>1. HoldInv
    BY DEF Init, HoldInv, TypeOK, CallsHoldRows
  <2>2. Live = {}
    BY DEF Init, Live
  <2>3. Partners([k \in {} |-> k])
    BY <2>2 DEF Init, Partners
  <2>. QED BY <2>1, <2>3 DEF PartnerInv
<1>2. PartnerInv /\ [Next]_vars => PartnerInv'
  <2> SUFFICES ASSUME PartnerInv, [Next]_vars
               PROVE  PartnerInv'
    OBVIOUS
  <2>1. HoldInv /\ HoldInv'
    BY NextHoldInv DEF PartnerInv
  <2>2. PICK p : Partners(p)
    BY DEF PartnerInv
  <2>3. ASSUME NEW t \in Threads, Client(t)
        PROVE  \E q : Partners(q)'
    <3>1. CASE rows' = rows
      BY <2>1, <2>2, <2>3, <3>1, ReadPartners
    <3>2. CASE rows' # rows
      BY <2>1, <2>2, <2>3, <3>2, InsertPartners, UpdatePartners
      DEF Client, ReadOwn, ReadPeer
    <3>. QED BY <3>1, <3>2
  <2>4. CASE UNCHANGED vars
    <3>1. Partners(p)'
      BY <2>2, <2>4 DEF vars, Partners, Live
    <3>. QED BY <2>1, <3>1 DEF PartnerInv
  <2>. QED BY <2>1, <2>3, <2>4 DEF Next, PartnerInv
<1>. QED BY <1>1, <1>2, PTL DEF Spec

\* However calls overlap, every row has a mirror whose status goes with its
\* own: operateFriendship never accepts or deletes on one side only, because
\* it inserts pairs in one batch and updates the two rows in one batch.
THEOREM ConsistentPairsCorrect == Spec => []ConsistentPairs
BY PartnerInvariant, ConsistentPairsFollows, PTL

\* However calls overlap, a user has as many rows for another as the other
\* for the user: a request that finds one of the two rows inserts nothing.
THEOREM MirroredRowsCorrect == Spec => []MirroredRows
BY PartnerInvariant, MirroredRowsFollow, PTL

-----------------------------------------------------------------------------
\* A call neither writes a row no call holds nor gets to hold one that is
\* there twice: getOne throws on it.
LEMMA ClientFrozen ==
    ASSUME HoldInv, NEW t \in Threads, Client(t), HoldInv',
           NEW i \in Live, NEW j \in Live, i # j, ~Held(i),
           rows[i].user = rows[j].user, rows[i].friend = rows[j].friend
    PROVE  rows'[i] = rows[i] /\ ~Held(i)'
<1> USE NoneAssumption DEF HoldInv, TypeOK
<1>1. ASSUME NEW u \in Users, NEW f \in Users, i \in Match(u, f)
      PROVE  TooManyResults(u, f)
  BY <1>1 DEF TooManyResults, Match
<1>2. ASSUME NEW s \in Threads, call'[s] # None, call'[s] = call[s]
      PROVE  i \notin {call'[s].own, call'[s].peer}
  BY <1>2 DEF Held
<1>3. ASSUME NEW code \in Codes, NEW u \in Users, NEW f \in Users,
             ReadOwn(t, code, u, f)
      PROVE  rows'[i] = rows[i] /\ ~Held(i)'
  <2>1. call'[t] # None => /\ call'[t].own = GetOne(u, f) /\ call'[t].peer = None
                           /\ ~TooManyResults(u, f)
    BY <1>3 DEF ReadOwn
  <2>2. call'[t] # None => i # call'[t].own /\ i # call'[t].peer
    BY <1>1, <2>1, GetOneAnswers DEF Live
  <2>3. rows' = rows /\ \A s \in Threads \ {t} : call'[s] = call[s]
    BY <1>3 DEF ReadOwn
  <2>. QED BY <1>2, <2>2, <2>3 DEF Held
<1>4. CASE ReadPeer(t)
  <2>. DEFINE d == call[t]
  <2>1. d \in Call /\ i # d.own
    BY <1>4 DEF ReadPeer, Held
  <2>2. call'[t] # None =>
          /\ call'[t].own = d.own /\ call'[t].peer = GetOne(d.friend, d.user)
          /\ ~TooManyResults(d.friend, d.user)
    BY <1>4, <2>1 DEF ReadPeer, Call
  <2>3. call'[t] # None => i # call'[t].own /\ i # call'[t].peer
    BY <1>1, <2>1, <2>2, GetOneAnswers DEF Live, Call
  <2>4. rows' = rows /\ \A s \in Threads \ {t} : call'[s] = call[s]
    BY <1>4 DEF ReadPeer
  <2>. QED BY <1>2, <2>3, <2>4 DEF Held
<1>5. CASE WriteAsk(t)
  <2>1. call'[t] = None /\ \A s \in Threads \ {t} : call'[s] = call[s]
    BY <1>5 DEF WriteAsk
  <2>2. rows'[i] = rows[i]
    BY <1>5, WriteAskRows DEF WriteAsk
  <2>. QED BY <1>2, <2>1, <2>2 DEF Held
<1>6. CASE WriteStatus(t)
  <2>1. call'[t] = None /\ \A s \in Threads \ {t} : call'[s] = call[s]
    BY <1>6 DEF WriteStatus
  <2>2. i # call[t].own /\ i # call[t].peer
    BY <1>6 DEF WriteStatus, Held
  <2>3. rows'[i] = rows[i]
    BY <1>6, <2>2 DEF WriteStatus, Live
  <2>. QED BY <1>2, <2>1, <2>3 DEF Held
<1>. QED BY <1>3, <1>4, <1>5, <1>6 DEF Client

\* A row that is there twice, after two overlapping requests, is out of reach
\* of every operateFriendship call that did not read it before.
THEOREM DuplicatedRowsFrozenCorrect == Spec => DuplicatedRowsFrozen
<1>1. HoldInv /\ HoldInv' /\ [Next]_vars =>
        [\A i, j \in Live :
           (/\ call' # call /\ i # j /\ ~Held(i)
            /\ rows[i].user = rows[j].user /\ rows[i].friend = rows[j].friend)
             => rows'[i] = rows[i] /\ ~Held(i)']_vars
  BY ClientFrozen DEF Next, vars
<1>. QED BY <1>1, HoldInvariant, PTL DEF Spec, DuplicatedRowsFrozen

-----------------------------------------------------------------------------
(***************************************************************************)
(* The refinement of FriendRelation.  Serial requests keep one row per     *)
(* direction, so that the row getOne finds is the relation, and what a     *)
(* request found missing is missing when it inserts.                       *)
(***************************************************************************)
BetweenOthers == \A c \in Calls : c[2] # c[3]

NoSelf ==
    /\ \A i \in Live : rows[i].user # rows[i].friend
    /\ \A t \in Threads : call[t] # None => call[t].user # call[t].friend

RelationInv == SerialInv /\ NoSelf

\* The relation between x and y is not one between u and f.
Apart(x, y, u, f) == ~(x = u /\ y = f) /\ ~(x = f /\ y = u)

LEMMA ClientNoSelf ==
    ASSUME BetweenOthers, SerialInv, NoSelf, NEW t \in Threads, Client(t)
    PROVE  NoSelf'
<1> USE NoneAssumption DEF NoSelf, SerialInv
<1>1. ASSUME NEW code \in Codes, NEW u \in Users, NEW f \in Users,
             ReadOwn(t, code, u, f)
      PROVE  NoSelf'
  <2>1. u # f
    BY <1>1 DEF ReadOwn, BetweenOthers
  <2>2. \A s \in Threads : call'[s] # None =>
            \/ call'[s] = call[s]
            \/ call'[s].user = u /\ call'[s].friend = f
    BY <1>1 DEF ReadOwn, HoldInv, TypeOK
  <2>. QED BY <1>1, <2>1, <2>2 DEF ReadOwn, Live
<1>2. CASE ReadPeer(t)
  <2>1. \A s \in Threads : call'[s] # None =>
            call'[s].user = call[s].user /\ call'[s].friend = call[s].friend
    BY <1>2 DEF ReadPeer, HoldInv, TypeOK, Call
  <2>2. \A s \in Threads : call'[s] # None => call[s] # None
    BY <1>2 DEF ReadPeer, HoldInv, TypeOK
  <2>. QED BY <1>2, <2>1, <2>2 DEF ReadPeer, Live
<1>3. ASSUME \A s \in Threads : call'[s] # None => call'[s] = call[s],
             \A i \in Live' : rows'[i].user # rows'[i].friend
      PROVE  NoSelf'
  BY <1>3
<1>4. CASE WriteAsk(t)
  <2>1. CASE rows' = rows
    BY <1>3, <1>4, <2>1 DEF WriteAsk, HoldInv, TypeOK, Live
  <2>2. CASE rows' # rows
    <3>1. call[t].own = None /\ call[t].peer = None /\ call[t] # None
      BY <1>4, <2>2 DEF WriteAsk
    <3>2. /\ Live' = Live \union {FreshKeys[1], FreshKeys[2]}
          /\ \A k \in Live : rows'[k] = rows[k]
          /\ rows'[FreshKeys[1]] = [user |-> call[t].user,
                           friend |-> call[t].friend, status |-> Requesting]
          /\ rows'[FreshKeys[2]] = [user |-> call[t].friend,
                           friend |-> call[t].user, status |-> Requested]
      BY <1>4, <3>1, WriteAskRows
    <3>3. \A i \in Live' : rows'[i].user # rows'[i].friend
      BY <3>1, <3>2
    <3>. QED BY <1>3, <1>4, <3>3 DEF WriteAsk, HoldInv, TypeOK
  <2>. QED BY <2>1, <2>2
<1>5. CASE WriteStatus(t)
  <2>1. \A i \in Live' : rows'[i].user # rows'[i].friend
    BY <1>5, WriteStatusRows
  <2>. QED BY <1>3, <1>5, <2>1 DEF WriteStatus, HoldInv, TypeOK
<1>. QED BY <1>1, <1>2, <1>4, <1>5 DEF Client

\* The one row of a pair is what its user stands to the other.
LEMMA RowIsStanding ==
    SerialAsk /\ UniquePairs /\ NoSelf =>
        \A u, f : \A i \in Match(u, f) : StandingTo(u, f) = rows[i].status
<1> SUFFICES ASSUME SerialAsk, UniquePairs, NoSelf, NEW u, NEW f,
                    NEW i \in Match(u, f)
             PROVE  StandingTo(u, f) = rows[i].status
  OBVIOUS
<1>1. GetOne(u, f) \in Match(u, f)
  BY DEF GetOne
<1>2. GetOne(u, f) = i
  BY <1>1 DEF UniquePairs, NoSelf, Match
<1>. QED BY <1>2 DEF StandingTo

LEMMA RowIsStandingNext ==
    (SerialAsk /\ UniquePairs /\ NoSelf =>
        \A u, f : \A i \in Match(u, f) : StandingTo(u, f) = rows[i].status)'
BY RowIsStanding, PTL

LEMMA StandingType ==
    RelationInv /\ RelationInv' =>
        \A u, f : StandingTo(u, f) \in Nat /\ StandingTo(u, f)' \in Nat
<1>1. RelationInv => \A u, f : StandingTo(u, f) \in Nat
  <2> SUFFICES ASSUME TypeOK, NEW u, NEW f
               PROVE  StandingTo(u, f) \in Nat
    BY DEF RelationInv, SerialInv, HoldInv
  <2>1. Match(u, f) # {} => GetOne(u, f) \in Match(u, f)
    BY DEF GetOne
  <2>2. \A i \in Match(u, f) : rows[i].status \in Nat
    BY DEF TypeOK, Match, Live, Row, Status, Codes, Requesting, Requested, Agreed,
       Ignored, Deleted
  <2>. QED BY <2>1, <2>2 DEF StandingTo
<1>2. (RelationInv => \A u, f : StandingTo(u, f) \in Nat)'
  BY <1>1, PTL
<1>. QED BY <1>1, <1>2

\* What the writes of a call do to the relation.
LEMMA InsertStanding ==
    ASSUME SerialAsk, RelationInv, RelationInv', NEW t \in Threads, WriteAsk(t),
           rows' # rows, NEW u, NEW f, u = call[t].user, f = call[t].friend
    PROVE  /\ StandingTo(u, f) = 0 /\ StandingTo(f, u) = 0
           /\ StandingTo(u, f)' = Requesting /\ StandingTo(f, u)' = Requested
           /\ \A x, y : Apart(x, y, u, f) => StandingTo(x, y)' = StandingTo(x, y)
<1> USE DEF RelationInv, SerialInv
<1>. DEFINE i == FreshKeys[1]
            j == FreshKeys[2]
<1>1. /\ call[t] # None /\ call[t].own = None /\ call[t].peer = None
      /\ Asking(t) /\ call[t].stage = "write"
  BY DEF WriteAsk, Asking
<1>2. Match(u, f) = {} /\ Match(f, u) = {}
  BY <1>1 DEF AsksAreCurrent
<1>3. /\ Live' = Live \union {i, j}
      /\ \A k \in Live : rows'[k] = rows[k]
      /\ rows'[i] = [user |-> u, friend |-> f, status |-> Requesting]
      /\ rows'[j] = [user |-> f, friend |-> u, status |-> Requested]
  BY <1>1, WriteAskRows
<1>4. \A x, y : Match(x, y)' = {k \in Live \union {i, j} :
                                    rows'[k].user = x /\ rows'[k].friend = y}
  BY <1>3 DEF Match
<1>5. /\ StandingTo(u, f)' = Requesting /\ StandingTo(f, u)' = Requested
  <2>1. \A x, y : \A k \in Match(x, y)' : StandingTo(x, y)' = rows'[k].status
    BY RowIsStandingNext
  <2>. HIDE DEF i, j
  <2>2. i \in Match(u, f)' /\ j \in Match(f, u)'
    BY <1>3, <1>4
  <2>. QED BY <1>3, <2>1, <2>2
<1>6. ASSUME NEW x, NEW y, Apart(x, y, u, f)
      PROVE  StandingTo(x, y)' = StandingTo(x, y)
  <2>. HIDE DEF i, j
  <2>1. Match(x, y)' = Match(x, y)
    BY <1>3, <1>4, <1>6 DEF Match, Apart
  <2>2. \A k \in Match(x, y) : rows'[k] = rows[k]
    BY <1>3 DEF Match
  <2>3. CASE Match(x, y) = {}
    BY <2>1, <2>3 DEF StandingTo
  <2>4. CASE Match(x, y) # {}
    BY <2>1, <2>2, <2>4, RowIsStanding, RowIsStandingNext
  <2>. QED BY <2>3, <2>4
<1>. QED BY <1>2, <1>5, <1>6 DEF StandingTo

LEMMA UpdateStanding ==
    ASSUME SerialAsk, RelationInv, RelationInv', NEW t \in Threads, WriteStatus(t),
           NEW u, NEW f, u = call[t].user, f = call[t].friend,
           NEW code, code = call[t].code
    PROVE  /\ code \in {Agreed, Ignored, Deleted}
           /\ u \in Users /\ f \in Users /\ u # f
           /\ StandingTo(u, f) # 0 /\ StandingTo(u, f)' = code
           /\ code # Ignored => StandingTo(f, u) # 0 /\ StandingTo(f, u)' = code
           /\ code = Ignored => StandingTo(f, u)' = StandingTo(f, u)
           /\ \A x, y : Apart(x, y, u, f) => StandingTo(x, y)' = StandingTo(x, y)
<1> USE NoneAssumption DEF RelationInv, SerialInv, HoldInv
<1>. DEFINE i == call[t].own
            j == call[t].peer
<1>1. /\ call[t] \in Call /\ call[t] # None /\ code # Requesting
      /\ call[t].stage = "write" /\ HoldsRows(call[t]) /\ ReadBoth(call[t])
  BY DEF WriteStatus, TypeOK, CallsHoldRows
<1>2. code \in {Agreed, Ignored, Deleted} /\ u \in Users /\ f \in Users /\ u # f
  BY <1>1 DEF Call, Codes, NoSelf
<1>3. /\ i \in Match(u, f)
      /\ code = Ignored => j = None
      /\ code # Ignored => j \in Match(f, u)
  BY <1>1, <1>2 DEF HoldsRows, ReadBoth
<1>4. /\ Live' = Live
      /\ \A k \in Live :
            /\ rows'[k].user = rows[k].user
            /\ rows'[k].friend = rows[k].friend
            /\ rows'[k].status = IF k \in {i, j} THEN code ELSE rows[k].status
  BY WriteStatusRows
<1>5. \A x, y : Match(x, y)' = Match(x, y)
  BY <1>4 DEF Match
<1>6. \A x, y : \A k \in Match(x, y) : /\ StandingTo(x, y) = rows[k].status
                                       /\ StandingTo(x, y)' = rows'[k].status
  BY <1>5, RowIsStanding, RowIsStandingNext
<1>7. \A k \in Live : rows[k].status # 0
  BY DEF Live, TypeOK, Row, Status, Codes, Requesting, Requested, Agreed, Ignored,
     Deleted
<1>8. /\ StandingTo(u, f) # 0 /\ StandingTo(u, f)' = code
      /\ code # Ignored => StandingTo(f, u) # 0 /\ StandingTo(f, u)' = code
  BY <1>3, <1>4, <1>6, <1>7 DEF Match
<1>9. ASSUME NEW x, NEW y, \A k \in Match(x, y) : k \notin {i, j}
      PROVE  StandingTo(x, y)' = StandingTo(x, y)
  <2>1. CASE Match(x, y) = {}
    BY <1>5, <2>1 DEF StandingTo
  <2>2. CASE Match(x, y) # {}
    <3>. PICK k \in Match(x, y) : TRUE
      BY <2>2
    <3>. QED BY <1>4, <1>6, <1>9 DEF Match
  <2>. QED BY <2>1, <2>2
<1>10. ASSUME code = Ignored
       PROVE  StandingTo(f, u)' = StandingTo(f, u)
  BY <1>2, <1>3, <1>9, <1>10 DEF Match, Live
<1>11. ASSUME NEW x, NEW y, Apart(x, y, u, f)
       PROVE  StandingTo(x, y)' = StandingTo(x, y)
  <2>1. \A k \in Match(x, y) : k # i
    BY <1>3, <1>11 DEF Match, Apart
  <2>2. \A k \in Match(x, y) : k # j
    BY <1>3, <1>11 DEF Match, Live, Apart
  <2>. QED BY <1>9, <2>1, <2>2
<1>. QED BY <1>2, <1>8, <1>10, <1>11

\* Serial requests between different users: every statement operateFriendship
\* executes is one operation of the abstract relation, or changes nothing of it.
THEOREM ImplementsRelationCorrect ==
    ASSUME SerialAsk, BetweenOthers
    PROVE  Spec => ImplementsRelation
<1>. DEFINE rel == [p \in Users \X Users |-> StandingTo(p[1], p[2])]
<1>1. Init => RelationInv
  BY InitSerial DEF RelationInv, NoSelf, Init, Live
<1>2. RelationInv /\ [Next]_vars => RelationInv'
  <2> SUFFICES ASSUME RelationInv, [Next]_vars
               PROVE  RelationInv'
    OBVIOUS
  <2>1. SerialInv'
    BY NextSerial DEF RelationInv
  <2>2. CASE UNCHANGED vars
    BY <2>1, <2>2 DEF RelationInv, NoSelf, vars, Live
  <2>. QED BY <2>1, <2>2, ClientNoSelf DEF Next, RelationInv
<1>3. Init => Relation!Init
  BY DEF Init, Relation!Init, Relation!NoRelation, StandingTo, Match, Live
<1>4. RelationInv /\ RelationInv' /\ [Next]_vars => [Relation!Next]_rel
  <2> SUFFICES ASSUME RelationInv, RelationInv', [Next]_vars, rel' # rel
               PROVE  Relation!Next
    OBVIOUS
  <2>1. rows' # rows
    <3>1. rows' = rows => rel' = rel
      BY DEF StandingTo, GetOne, Match, Live
    <3>. QED BY <3>1
  <2>2. PICK t \in Threads : WriteAsk(t) \/ WriteStatus(t)
    BY <2>1 DEF Next, Client, ReadOwn, ReadPeer, vars
  <2>. PICK u, f, code : u = call[t].user /\ f = call[t].friend /\ code = call[t].code
    OBVIOUS
  <2>. PICK R, S : R = rel /\ S = rel'
    OBVIOUS
  <2>3. /\ \A x, y \in Users : /\ R[<<x, y>>] = StandingTo(x, y)
                               /\ S[<<x, y>>] = StandingTo(x, y)'
    OBVIOUS
  <2>3a. R \in [Users \X Users -> Nat] /\ S \in [Users \X Users -> Nat]
    BY StandingType
  <2>. HIDE DEF rel
  <2>4. CASE WriteAsk(t)
    <3>1. u \in Users /\ f \in Users /\ u # f
      BY <2>4 DEF WriteAsk, RelationInv, SerialInv, HoldInv, TypeOK, Call, NoSelf
    <3>2. /\ StandingTo(u, f) = 0 /\ StandingTo(f, u) = 0
          /\ StandingTo(u, f)' = 10 /\ StandingTo(f, u)' = 11
          /\ \A x, y : Apart(x, y, u, f) => StandingTo(x, y)' = StandingTo(x, y)
      <4>1. /\ StandingTo(u, f) = 0 /\ StandingTo(f, u) = 0
            /\ StandingTo(u, f)' = Requesting /\ StandingTo(f, u)' = Requested
            /\ \A x, y : Apart(x, y, u, f) => StandingTo(x, y)' = StandingTo(x, y)
        BY <2>1, <2>4, InsertStanding
      <4>. QED BY <4>1 DEF Requesting, Requested
    <3>3. S = [R EXCEPT ![<<u, f>>] = 10, ![<<f, u>>] = 11]
      <4>1. /\ S[<<u, f>>] = 10 /\ S[<<f, u>>] = 11
            /\ \A p \in Users \X Users : p # <<u, f>> /\ p # <<f, u>> => S[p] = R[p]
        BY <2>3, <3>1, <3>2 DEF Apart
      <4>. QED BY <2>3a, <3>1, <4>1
    <3>4. Relation!Ask(u, f)
      BY <2>3, <3>1, <3>2, <3>3
      DEF rel, Relation!Ask, Relation!Related, Relation!SetBoth, Relation!NoRelation
    <3>. QED BY <3>1, <3>4 DEF Relation!Next
  <2>5. CASE WriteStatus(t)
    <3>1. /\ code \in {20, 21, 30}
          /\ u \in Users /\ f \in Users /\ u # f
          /\ StandingTo(u, f) # 0 /\ StandingTo(u, f)' = code
          /\ code # 21 => StandingTo(f, u) # 0 /\ StandingTo(f, u)' = code
          /\ code = 21 => StandingTo(f, u)' = StandingTo(f, u)
          /\ \A x, y : Apart(x, y, u, f) => StandingTo(x, y)' = StandingTo(x, y)
      <4>1. /\ code \in {Agreed, Ignored, Deleted}
            /\ u \in Users /\ f \in Users /\ u # f
            /\ StandingTo(u, f) # 0 /\ StandingTo(u, f)' = code
            /\ code # Ignored => StandingTo(f, u) # 0 /\ StandingTo(f, u)' = code
            /\ code = Ignored => StandingTo(f, u)' = StandingTo(f, u)
            /\ \A x, y : Apart(x, y, u, f) => StandingTo(x, y)' = StandingTo(x, y)
        BY <2>5, UpdateStanding
      <4>. QED BY <4>1 DEF Agreed, Ignored, Deleted
    <3>2. CASE code = 21
      <4>1. S = [R EXCEPT ![<<u, f>>] = 21]
        <5>1. /\ S[<<u, f>>] = 21 /\ S[<<f, u>>] = R[<<f, u>>]
              /\ \A p \in Users \X Users : p # <<u, f>> /\ p # <<f, u>> => S[p] = R[p]
          BY <2>3, <3>1, <3>2 DEF Apart
        <5>. QED BY <2>3a, <3>1, <5>1
      <4>2. Relation!Ignore(u, f)
        BY <2>3, <3>1, <4>1 DEF rel, Relation!Ignore, Relation!Related, Relation!NoRelation
      <4>. QED BY <3>1, <4>2 DEF Relation!Next
    <3>3. CASE code # 21
      <4>1. S = [R EXCEPT ![<<u, f>>] = code, ![<<f, u>>] = code]
        <5>1. /\ S[<<u, f>>] = code /\ S[<<f, u>>] = code
              /\ \A p \in Users \X Users : p # <<u, f>> /\ p # <<f, u>> => S[p] = R[p]
          BY <2>3, <3>1, <3>3 DEF Apart
        <5>. QED BY <2>3a, <3>1, <5>1
      <4>2. Relation!Accept(u, f) \/ Relation!Delete(u, f)
        BY <2>3, <3>1, <3>3, <4>1 DEF rel, Relation!Accept, Relation!Delete,
           Relation!Related, Relation!SetBoth, Relation!NoRelation
      <4>. QED BY <3>1, <4>2 DEF Relation!Next
    <3>. QED BY <3>2, <3>3
  <2>. QED BY <2>2, <2>4, <2>5
<1>. QED BY <1>1, <1>2, <1>3, <1>4, PTL
     DEF Spec, ImplementsRelation, Relation!Spec
=============================================================================
