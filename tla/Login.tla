------------------------------- MODULE Login -------------------------------
(***************************************************************************)
(* Sessions and SMS codes: LoginController, the token check of ShiroRealm  *)
(* that every request passes, and register and phoneVerification of        *)
(* SysUserController.  Their state is in redis (a key per token, a key per *)
(* phone), in sys_user and in rong_user; a call makes several accesses to  *)
(* them, and calls interleave between any two.                             *)
(*                                                                         *)
(* A user is named by the phone number.  Of a token's entry only the time  *)
(* to live is kept: its value never decides anything but the value written *)
(* back.  Passwords, departments and logging are left out; a call that is  *)
(* refused at its first look changes nothing and is no step.               *)
(***************************************************************************)
EXTENDS Integers, FiniteSets

CONSTANTS
    Phones,     \* phone numbers, each of one user
    Codes,      \* SMS codes
    Tokens,     \* tokens: bounds the logins
    Threads,    \* server threads
    TokenLife,  \* JwtUtil.EXPIRE_TIME in ticks
    CodeLife,   \* the 600 s of a code in ticks
    Ops,        \* the operations in use
    MaxCrashes, \* bounds the crashes of the server
    None        \* Java null

\* The times to live that redis gives a key without expiry and a missing key.
NoExpiry == -1
Absent   == -2

Op == {"login", "phoneLogin", "request", "refreshJwtToken", "logout", "sms",
       "register", "phoneVerification", "removeRongUser"}
Stage == {"sendSms", "setCode", "keepCode", "checkUser", "saveUser", "findUser",
          "rongLookup", "rongRegister", "rongSave",
          "setToken", "expireToken", "renew", "delToken"}
Code == [val : Codes, ttl : (1 .. CodeLife) \union {NoExpiry}]
Work == [op : Op, stage : Stage, phone : Phones, code : Codes \union {None},
         token : Tokens \union {None}, arg : Tokens \union {None}]

ASSUME LivesAssumption == TokenLife \in Nat \ {0} /\ CodeLife \in Nat \ {0}
ASSUME NoneAssumption == None \notin Codes \union Tokens \union Phones
                                     \union Code \union Work
ASSUME ThreadsAssumption == IsFiniteSet(Threads)
ASSUME OpsAssumption == Ops \subseteq Op /\ MaxCrashes \in Nat

VARIABLES
    redis,      \* redis[k]: the time to live of token k's entry
    code,       \* code[p]: the code redis holds for phone p, or None
    users,      \* users[p]: rows of sys_user with that name and phone
    rongs,      \* rongs[p]: rows of rong_user of that user
    work,       \* work[t]: the call thread t is serving, or None
    crashes,    \* crashes so far
    owner,      \* owner[k]: the user token k was signed for, or None (history)
    sent,       \* sent[p]: the codes handed to the SMS gateway (history)
    gone,       \* tokens logged out while no other call held them and not
                \* renewed since (history)
    orphans     \* tokens whose call a crash cut off between set and expire,
                \* and that no call expired since (history)

tables == <<users, rongs>>
history == <<sent, gone, orphans>>
vars == <<redis, code, users, rongs, work, crashes, owner, history>>

TypeOK ==
    /\ redis \in [Tokens -> (1 .. TokenLife) \union {NoExpiry, Absent}]
    /\ code \in [Phones -> Code \union {None}]
    /\ users \in [Phones -> Nat] /\ rongs \in [Phones -> Nat]
    /\ work \in [Threads -> Work \union {None}]
    /\ crashes \in 0 .. MaxCrashes
    /\ owner \in [Tokens -> Phones \union {None}]
    /\ sent \in [Phones -> SUBSET Codes]
    /\ gone \subseteq Tokens /\ orphans \subseteq Tokens

Init ==
    /\ redis = [k \in Tokens |-> Absent]
    /\ code = [p \in Phones |-> None]
    /\ users \in [Phones -> {0, 1}]
    /\ rongs = [p \in Phones |-> 0]
    /\ work = [t \in Threads |-> None]
    /\ crashes = 0
    /\ owner = [k \in Tokens |-> None]
    /\ sent = [p \in Phones |-> {}]
    /\ gone = {} /\ orphans = {}

\* getUserByName and getUserByPhone throw on two rows.
Known(p) == users[p] = 1

Idle(t, op) == work[t] = None /\ op \in Ops
At(t, stage) == work[t] # None /\ work[t].stage = stage
Begin(t, op, stage, p, c, k, arg) ==
    work' = [work EXCEPT ![t] = [op |-> op, stage |-> stage, phone |-> p,
                                 code |-> c, token |-> k, arg |-> arg]]
Goto(t, stage) == work' = [work EXCEPT ![t].stage = stage]
End(t) == work' = [work EXCEPT ![t] = None]

-----------------------------------------------------------------------------
(* SMS codes. *)

\* sms: refused while redis holds a code for the phone.
Sms(t, p) ==
    /\ Idle(t, "sms")
    /\ code[p] = None
    /\ Begin(t, "sms", "sendSms", p, None, None, None)
    /\ UNCHANGED <<redis, code, tables, crashes, owner, history>>

\* The user must exist, or for the template of a registration must not: one of
\* the two modes takes whatever number of users there is but several.  The
\* gateway accepts the code or does not.
SendSms(t) ==
    /\ At(t, "sendSms")
    /\ LET p == work[t].phone IN
       \/ /\ End(t)
          /\ UNCHANGED sent
       \/ /\ users[p] <= 1
          /\ \E c \in Codes :
                /\ sent' = [sent EXCEPT ![p] = @ \union {c}]
                /\ work' = [work EXCEPT ![t].stage = "setCode", ![t].code = c]
    /\ UNCHANGED <<redis, code, tables, crashes, owner, gone, orphans>>

\* One command sets the code and its time to live.
SetCode(t) ==
    /\ At(t, "setCode")
    /\ code' = [code EXCEPT ![work[t].phone] = [val |-> work[t].code,
                                                ttl |-> CodeLife]]
    /\ End(t)
    /\ UNCHANGED <<redis, tables, crashes, owner, history>>

\* The code a form carries is the one redis holds.
Accepted(p, c) == code[p] # None /\ code[p].val = c

PhoneVerification(t, p, c) ==
    /\ Idle(t, "phoneVerification")
    /\ Accepted(p, c)
    /\ Begin(t, "phoneVerification", "keepCode", p, c, None, None)
    /\ UNCHANGED <<redis, code, tables, crashes, owner, history>>

\* The code is written again, without a time to live.
KeepCode(t) ==
    /\ At(t, "keepCode")
    /\ code' = [code EXCEPT ![work[t].phone] = [val |-> work[t].code,
                                                ttl |-> NoExpiry]]
    /\ End(t)
    /\ UNCHANGED <<redis, tables, crashes, owner, history>>

-----------------------------------------------------------------------------
(* register *)

Register(t, p, c) ==
    /\ Idle(t, "register")
    /\ Accepted(p, c)
    /\ Begin(t, "register", "checkUser", p, None, None, None)
    /\ UNCHANGED <<redis, code, tables, crashes, owner, history>>

CheckUser(t) ==
    /\ At(t, "checkUser")
    /\ IF users[work[t].phone] = 0 THEN Goto(t, "saveUser") ELSE End(t)
    /\ UNCHANGED <<redis, code, tables, crashes, owner, history>>

SaveUser(t) ==
    /\ At(t, "saveUser")
    /\ users' = [users EXCEPT ![work[t].phone] = @ + 1]
    /\ Goto(t, "findUser")
    /\ UNCHANGED <<redis, code, rongs, crashes, owner, history>>

\* The id of the new user is read back by its name.
FindUser(t) ==
    /\ At(t, "findUser")
    /\ IF Known(work[t].phone) THEN Goto(t, "rongRegister") ELSE End(t)
    /\ UNCHANGED <<redis, code, tables, crashes, owner, history>>

-----------------------------------------------------------------------------
(* userInfo: what the two logins share. *)

Fresh(k) == owner[k] = None

Login(t, p, k) ==
    /\ Idle(t, "login")
    /\ Known(p) /\ Fresh(k)
    /\ owner' = [owner EXCEPT ![k] = p]
    /\ Begin(t, "login", "setToken", p, None, k, None)
    /\ UNCHANGED <<redis, code, tables, crashes, history>>

PhoneLogin(t, p, c, k) ==
    /\ Idle(t, "phoneLogin")
    /\ Known(p) /\ Fresh(k) /\ Accepted(p, c)
    /\ owner' = [owner EXCEPT ![k] = p]
    /\ Begin(t, "phoneLogin", "setToken", p, None, k, None)
    /\ UNCHANGED <<redis, code, tables, crashes, history>>

\* getOne of the rong_user row: two rows throw, which is caught, and the user
\* logs in without a RongCloud token.
RongLookup_Always(t) ==
    /\ At(t, "rongLookup")
    /\ Goto(t, "rongRegister")
    /\ UNCHANGED <<redis, code, tables, crashes, owner, history>>

RongLookup(t) ==
    /\ At(t, "rongLookup")
    /\ IF rongs[work[t].phone] = 0 THEN Goto(t, "rongRegister") ELSE End(t)
    /\ UNCHANGED <<redis, code, tables, crashes, owner, history>>

\* RongCloud answers 200, another code, or fails.
RongRegister(t) ==
    /\ At(t, "rongRegister")
    /\ Goto(t, "rongSave") \/ End(t)
    /\ UNCHANGED <<redis, code, tables, crashes, owner, history>>

RongSave(t) ==
    /\ At(t, "rongSave")
    /\ rongs' = [rongs EXCEPT ![work[t].phone] = @ + 1]
    /\ End(t)
    /\ UNCHANGED <<redis, code, users, crashes, owner, history>>

\* RongUserController.delete and deleteBatch.
RemoveRongUser(p) ==
    /\ "removeRongUser" \in Ops
    /\ rongs[p] > 0
    /\ \E n \in 0 .. rongs[p] - 1 : rongs' = [rongs EXCEPT ![p] = n]
    /\ UNCHANGED <<redis, code, users, work, crashes, owner, history>>

-----------------------------------------------------------------------------
(***************************************************************************)
(* Tokens.  JwtFilter and ShiroRealm.jwtTokenRefresh before every request: *)
(* get, then set, then expire.  A token whose signature has run out is     *)
(* signed again, but under the old key.                                    *)
(***************************************************************************)

Request_Unchecked(t, op, k) ==
    /\ Idle(t, op)
    /\ owner[k] # None
    /\ Begin(t, op, "setToken", owner[k], None, k, None)
    /\ UNCHANGED <<redis, code, tables, crashes, owner, history>>

\* The request is answered by logout or by a handler that has nothing to do
\* with tokens.
Request(t, op, k) ==
    /\ Idle(t, op)
    /\ owner[k] # None /\ Known(owner[k])
    /\ redis[k] # Absent
    /\ Begin(t, op, "setToken", owner[k], None, k, None)
    /\ UNCHANGED <<redis, code, tables, crashes, owner, history>>

\* refreshJwtToken, a request itself, names a token and a user; with an empty
\* token it signs a new one.
Refresh(t, k, arg, p) ==
    /\ Idle(t, "refreshJwtToken")
    /\ owner[k] # None /\ Known(owner[k])
    /\ redis[k] # Absent
    /\ owner' = [owner EXCEPT ![arg] = IF Fresh(arg) THEN p ELSE @]
    /\ Begin(t, "refreshJwtToken", "setToken", p, None, k, arg)
    /\ UNCHANGED <<redis, code, tables, crashes, history>>

SetToken(t) ==
    /\ At(t, "setToken")
    /\ LET k == work[t].token
       IN  /\ redis' = [redis EXCEPT ![k] = NoExpiry]
           /\ gone' = IF work[t].op = "refreshJwtToken" /\ work[t].arg = None
                      THEN gone \ {k} ELSE gone
    /\ Goto(t, "expireToken")
    /\ UNCHANGED <<code, tables, crashes, owner, sent, orphans>>

\* What follows the two commands of a token.
AfterExpire(op) == CASE op \in {"login", "phoneLogin"} -> "rongLookup"
                     [] op = "logout" -> "delToken"
                     [] op = "refreshJwtToken" -> "renew"

ExpireToken_Skipped(t) ==
    /\ At(t, "expireToken")
    /\ IF work[t].op = "request" THEN End(t) ELSE Goto(t, AfterExpire(work[t].op))
    /\ UNCHANGED <<redis, code, tables, crashes, owner, history>>

\* expire does nothing to a key that is gone.
ExpireToken(t) ==
    /\ At(t, "expireToken")
    /\ LET k == work[t].token
       IN  /\ redis' = [redis EXCEPT ![k] = IF @ = Absent THEN @ ELSE TokenLife]
           /\ orphans' = orphans \ {k}
    /\ IF work[t].op = "request" THEN End(t) ELSE Goto(t, AfterExpire(work[t].op))
    /\ UNCHANGED <<code, tables, crashes, owner, sent, gone>>

\* refreshJwtToken for a user who exists: with or without an entry the token
\* it was given gets one.
Renew(t) ==
    /\ At(t, "renew")
    /\ IF work[t].arg = None \/ ~Known(work[t].phone) THEN End(t)
       ELSE work' = [work EXCEPT ![t].stage = "setToken", ![t].arg = None,
                                 ![t].token = work[t].arg]
    /\ UNCHANGED <<redis, code, tables, crashes, owner, history>>

Holding(t, k) == /\ work[t] # None
                 /\ k \in {work[t].token, work[t].arg}
InUse(k) == \E t \in Threads : Holding(t, k)

DelToken(t) ==
    /\ At(t, "delToken")
    /\ LET k == work[t].token
       IN  /\ redis' = [redis EXCEPT ![k] = Absent]
           /\ gone' = IF \E s \in Threads \ {t} : Holding(s, k) THEN gone
                      ELSE gone \union {k}
    /\ End(t)
    /\ UNCHANGED <<code, tables, crashes, owner, sent, orphans>>

-----------------------------------------------------------------------------
Older_Zero(ttl) == IF ttl = NoExpiry \/ ttl = Absent THEN ttl ELSE ttl - 1

Older(ttl) == IF ttl = NoExpiry \/ ttl = Absent THEN ttl
              ELSE IF ttl = 1 THEN Absent ELSE ttl - 1

\* Time passes.
Tick ==
    /\ redis' = [k \in Tokens |-> Older(redis[k])]
    /\ code' = [p \in Phones |->
          IF code[p] = None \/ Older(code[p].ttl) = Absent THEN None
          ELSE [code[p] EXCEPT !.ttl = Older(@)]]
    /\ UNCHANGED <<tables, work, crashes, owner, history>>

\* The server goes down; redis and the database stay.
Crash ==
    /\ crashes < MaxCrashes
    /\ crashes' = crashes + 1
    /\ orphans' = orphans \union {work[t].token : t \in
                        {s \in Threads : At(s, "expireToken")}}
    /\ work' = [t \in Threads |-> None]
    /\ UNCHANGED <<redis, code, tables, owner, sent, gone>>

-----------------------------------------------------------------------------
Arrive(t) ==
    \/ \E p \in Phones : Sms(t, p)
    \/ \E p \in Phones, c \in Codes : PhoneVerification(t, p, c) \/ Register(t, p, c)
    \/ \E p \in Phones, k \in Tokens :
          Login(t, p, k) \/ \E c \in Codes : PhoneLogin(t, p, c, k)
    \/ \E k \in Tokens, op \in {"request", "logout"} : Request(t, op, k)
    \/ \E k, arg \in Tokens, p \in Phones : Refresh(t, k, arg, p)

Step(t) ==
    \/ SendSms(t) \/ SetCode(t) \/ KeepCode(t)
    \/ CheckUser(t) \/ SaveUser(t) \/ FindUser(t)
    \/ RongLookup(t) \/ RongRegister(t) \/ RongSave(t)
    \/ SetToken(t) \/ ExpireToken(t) \/ Renew(t) \/ DelToken(t)

Next ==
    \/ \E t \in Threads : Arrive(t) \/ Step(t)
    \/ \E p \in Phones : RemoveRongUser(p)
    \/ Tick
    \/ Crash

Spec == Init /\ [][Next]_vars

\* Time does not stop; nothing else has to happen.
FairSpec == Spec /\ WF_vars(Tick)

-----------------------------------------------------------------------------
(* Properties *)

\* An entry without a time to live is about to get one from the call that
\* wrote it, unless a crash cut that call off.
SessionsHaveDeadline ==
    \A k \in Tokens : redis[k] = NoExpiry =>
        k \in orphans \/ \E t \in Threads : At(t, "expireToken") /\ work[t].token = k

\* "An account that was idle too long has to log in again": the entry of a
\* token that is never used again runs out, and stays away.
IdleSessionsEnd ==
    \A k \in Tokens :
        <>[](~InUse(k) /\ k \notin orphans) => <>[](redis[k] = Absent)

\* A token that was logged out while no other call held it is out for good,
\* unless refreshJwtToken is given it.
LogoutIsFinal == \A k \in gone : redis[k] = Absent

\* Overlapping logins and registrations can each insert the user's rong_user
\* row, but no more of them than there are threads.
RongRowsBounded == \A p \in Phones : rongs[p] <= Cardinality(Threads)

\* Whatever overlaps or fails, redis holds only codes that went to the phone.
HeldCodeWasSent == \A p \in Phones : code[p] # None => code[p].val \in sent[p]

\* "The code is valid for ten minutes."
CodesHaveDeadline == \A p \in Phones : code[p] # None => code[p].ttl # NoExpiry
=============================================================================
