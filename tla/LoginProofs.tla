----------------------------- MODULE LoginProofs -----------------------------
(***************************************************************************)
(* Theorems about Login, for any number of phones, codes, tokens, threads  *)
(* and crashes and any times to live.                                      *)
(***************************************************************************)
EXTENDS Login, FiniteSetTheorems, TLAPS

\* What the step a call is at says of its locals.
Sound(w) ==
    w # None =>
        /\ w.stage \in {"setCode", "keepCode"} => w.code \in Codes
        /\ w.stage \in {"setToken", "expireToken", "delToken"} => w.token \in Tokens
        /\ w.stage \in {"setToken", "expireToken"} =>
              w.op \in {"login", "phoneLogin", "request", "logout", "refreshJwtToken"}
        /\ w.stage = "renew" => w.op = "refreshJwtToken"

TypeInv == TypeOK /\ \A t \in Threads : Sound(work[t])

LEMMA InitTypeInv == Init => TypeInv
BY OpsAssumption DEF Init, TypeInv, TypeOK, Sound

\* The record a new call starts with.
LEMMA BeginTypes ==
    ASSUME NEW p \in Phones, NEW c \in Codes \union {None},
           NEW k \in Tokens \union {None}, NEW arg \in Tokens \union {None},
           NEW op \in Op, NEW stage \in Stage
    PROVE  [op |-> op, stage |-> stage, phone |-> p, code |-> c, token |-> k,
            arg |-> arg] \in Work
BY DEF Work

\* A call's arrival gives its thread a sound record and, at most, the token's
\* owner.
LEMMA ArriveTypeInv ==
    ASSUME TypeInv, NEW t \in Threads, Arrive(t)
    PROVE  TypeInv'
<1> USE NoneAssumption DEF TypeInv, TypeOK
<1>. DEFINE Started(w) == work' = [work EXCEPT ![t] = w] /\ w \in Work /\ Sound(w)
<1>1. SUFFICES /\ \E w : Started(w)
               /\ owner' \in [Tokens -> Phones \union {None}]
               /\ UNCHANGED <<redis, code, users, rongs, crashes, sent, gone, orphans>>
  BY DEF Sound
<1>2. ASSUME NEW p \in Phones, Sms(t, p)
      PROVE  /\ \E w : Started(w)
             /\ UNCHANGED <<redis, code, tables, crashes, owner, history>>
  <2>1. Started([op |-> "sms", stage |-> "sendSms", phone |-> p, code |-> None,
                 token |-> None, arg |-> None])
    BY <1>2 DEF Sms, Begin, Work, Op, Stage, Sound
  <2>. QED BY <1>2, <2>1 DEF Sms
<1>3. ASSUME NEW p \in Phones, NEW c \in Codes, PhoneVerification(t, p, c)
      PROVE  /\ \E w : Started(w)
             /\ UNCHANGED <<redis, code, tables, crashes, owner, history>>
  <2>1. Started([op |-> "phoneVerification", stage |-> "keepCode", phone |-> p,
                 code |-> c, token |-> None, arg |-> None])
    BY <1>3 DEF PhoneVerification, Begin, Work, Op, Stage, Sound
  <2>. QED BY <1>3, <2>1 DEF PhoneVerification
<1>4. ASSUME NEW p \in Phones, NEW c \in Codes, Register(t, p, c)
      PROVE  /\ \E w : Started(w)
             /\ UNCHANGED <<redis, code, tables, crashes, owner, history>>
  <2>1. Started([op |-> "register", stage |-> "checkUser", phone |-> p,
                 code |-> None, token |-> None, arg |-> None])
    BY <1>4 DEF Register, Begin, Work, Op, Stage, Sound
  <2>. QED BY <1>4, <2>1 DEF Register
<1>5. ASSUME NEW p \in Phones, NEW k \in Tokens,
             Login(t, p, k) \/ \E c \in Codes : PhoneLogin(t, p, c, k)
      PROVE  /\ \E w : Started(w)
             /\ owner' = [owner EXCEPT ![k] = p]
             /\ UNCHANGED <<redis, code, tables, crashes, history>>
  <2>1. PICK op \in {"login", "phoneLogin"} :
            Begin(t, op, "setToken", p, None, k, None)
    BY <1>5 DEF Login, PhoneLogin
  <2>2. Started([op |-> op, stage |-> "setToken", phone |-> p, code |-> None,
                 token |-> k, arg |-> None])
    BY <2>1 DEF Begin, Work, Op, Stage, Sound
  <2>. QED BY <1>5, <2>2 DEF Login, PhoneLogin
<1>6. ASSUME NEW k \in Tokens, NEW op \in {"request", "logout"}, Request(t, op, k)
      PROVE  /\ \E w : Started(w)
             /\ UNCHANGED <<redis, code, tables, crashes, owner, history>>
  <2>1. Started([op |-> op, stage |-> "setToken", phone |-> owner[k],
                 code |-> None, token |-> k, arg |-> None])
    BY <1>6 DEF Request, Begin, Work, Op, Stage, Sound
  <2>. QED BY <1>6, <2>1 DEF Request
<1>7. ASSUME NEW k \in Tokens, NEW arg \in Tokens, NEW p \in Phones,
             Refresh(t, k, arg, p)
      PROVE  /\ \E w : Started(w)
             /\ owner' \in [Tokens -> Phones \union {None}]
             /\ UNCHANGED <<redis, code, tables, crashes, history>>
  <2>1. Started([op |-> "refreshJwtToken", stage |-> "setToken", phone |-> p,
                 code |-> None, token |-> k, arg |-> arg])
    BY <1>7 DEF Refresh, Begin, Work, Op, Stage, Sound
  <2>. QED BY <1>7, <2>1 DEF Refresh
<1>. QED BY <1>2, <1>3, <1>4, <1>5, <1>6, <1>7 DEF Arrive, tables, history

\* The steps of a call that leave redis alone keep its record sound.
LEMMA CallTypeInv ==
    ASSUME TypeInv, NEW t \in Threads,
           \/ SendSms(t) \/ SetCode(t) \/ KeepCode(t)
           \/ CheckUser(t) \/ SaveUser(t) \/ FindUser(t)
           \/ RongLookup(t) \/ RongRegister(t) \/ RongSave(t)
    PROVE  TypeInv'
<1> USE NoneAssumption DEF TypeInv, TypeOK, tables, history, Goto, End, At
<1>0. work[t] # None => work[t] \in Work
  OBVIOUS
<1>1. CASE SendSms(t)
  BY <1>0, <1>1 DEF SendSms, Work, Stage, Sound
<1>2. ASSUME SetCode(t) \/ KeepCode(t)
      PROVE  TypeInv'
  <2>1. PICK ttl \in {CodeLife, NoExpiry} :
          code' = [code EXCEPT ![work[t].phone] = [val |-> work[t].code, ttl |-> ttl]]
    BY <1>2 DEF SetCode, KeepCode
  <2>2. work[t].code \in Codes
    BY <1>2 DEF SetCode, KeepCode, Sound
  <2>3. [val |-> work[t].code, ttl |-> ttl] \in Code
    BY <2>2, LivesAssumption DEF Code
  <2>4. /\ work' = [work EXCEPT ![t] = None]
        /\ UNCHANGED <<redis, users, rongs, crashes, owner, sent, gone, orphans>>
    BY <1>2 DEF SetCode, KeepCode
  <2>5. \A s \in Threads : Sound(work[s])'
    BY <2>4 DEF Sound
  <2>. QED BY <2>1, <2>3, <2>4, <2>5
<1>3. CASE CheckUser(t) \/ FindUser(t)
  BY <1>0, <1>3 DEF CheckUser, FindUser, Work, Stage, Sound
<1>4. CASE SaveUser(t)
  BY <1>0, <1>4 DEF SaveUser, Work, Stage, Sound
<1>5. CASE RongLookup(t) \/ RongRegister(t)
  BY <1>0, <1>5 DEF RongLookup, RongRegister, Work, Stage, Sound
<1>6. CASE RongSave(t)
  BY <1>0, <1>6 DEF RongSave, Work, Sound
<1>. QED BY <1>1, <1>2, <1>3, <1>4, <1>5, <1>6

\* The steps of a call that write, prolong or delete a token's entry.
LEMMA TokenTypeInv ==
    ASSUME TypeInv, NEW t \in Threads,
           SetToken(t) \/ ExpireToken(t) \/ Renew(t) \/ DelToken(t)
    PROVE  TypeInv'
<1> USE NoneAssumption, LivesAssumption
    DEF TypeInv, TypeOK, tables, history, Goto, End, At, NoExpiry, Absent
<1>0. work[t] # None => work[t] \in Work
  OBVIOUS
<1>1. CASE SetToken(t)
  BY <1>0, <1>1 DEF SetToken, Work, Stage, Sound
<1>2. CASE ExpireToken(t)
  <2>1. \/ work' = [work EXCEPT ![t] = None]
        \/ /\ work[t].op # "request"
           /\ work' = [work EXCEPT ![t].stage = AfterExpire(work[t].op)]
    BY <1>2 DEF ExpireToken
  <2>2. work[t].op # "request" =>
          /\ AfterExpire(work[t].op) \in {"rongLookup", "delToken", "renew"}
          /\ AfterExpire(work[t].op) = "renew" => work[t].op = "refreshJwtToken"
    BY <1>2 DEF ExpireToken, Sound, AfterExpire
  <2>3. /\ work' \in [Threads -> Work \union {None}]
        /\ \A s \in Threads : Sound(work'[s])
    BY <1>0, <1>2, <2>1, <2>2 DEF ExpireToken, Work, Stage, Sound
  <2>4. redis' \in [Tokens -> (1 .. TokenLife) \union {NoExpiry, Absent}]
    BY <1>2 DEF ExpireToken, Sound
  <2>5. orphans' \subseteq Tokens /\ UNCHANGED <<code, users, rongs, crashes, owner, sent, gone>>
    BY <1>2 DEF ExpireToken
  <2>. QED BY <2>3, <2>4, <2>5 DEF Sound
<1>3. CASE Renew(t)
  <2>1. \/ work' = [work EXCEPT ![t] = None]
        \/ /\ work[t].arg \in Tokens
           /\ work' = [work EXCEPT ![t].stage = "setToken", ![t].arg = None,
                                   ![t].token = work[t].arg]
    BY <1>0, <1>3 DEF Renew, Work
  <2>. QED BY <1>0, <1>3, <2>1 DEF Renew, Work, Stage, Sound
<1>4. CASE DelToken(t)
  BY <1>0, <1>4 DEF DelToken, Sound
<1>. QED BY <1>1, <1>2, <1>3, <1>4

LEMMA NextTypeInv == TypeInv /\ [Next]_vars => TypeInv'
<1> SUFFICES ASSUME TypeInv, [Next]_vars
             PROVE  TypeInv'
  OBVIOUS
<1> USE NoneAssumption DEF TypeInv, TypeOK, tables, history
<1>1. ASSUME NEW t \in Threads, Arrive(t)
      PROVE  TypeInv'
  BY <1>1, ArriveTypeInv
<1>2. ASSUME NEW t \in Threads, Step(t)
      PROVE  TypeInv'
  BY <1>2, CallTypeInv, TokenTypeInv DEF Step
<1>3. ASSUME NEW p \in Phones, RemoveRongUser(p)
      PROVE  TypeInv'
  BY <1>3 DEF RemoveRongUser
<1>4. CASE Tick
  <2>1. redis' \in [Tokens -> (1 .. TokenLife) \union {NoExpiry, Absent}]
    BY <1>4, LivesAssumption DEF Tick, Older, NoExpiry, Absent
  <2>2. ASSUME NEW p \in Phones, code[p] # None, Older(code[p].ttl) # Absent
        PROVE  [code[p] EXCEPT !.ttl = Older(@)] \in Code
    BY <2>2, LivesAssumption DEF Code, Older, NoExpiry, Absent
  <2>3. code' \in [Phones -> Code \union {None}]
    BY <1>4, <2>2 DEF Tick
  <2>. QED BY <1>4, <2>1, <2>3 DEF Tick
<1>5. CASE Crash
  <2>1. crashes' \in 0 .. MaxCrashes
    BY <1>5, OpsAssumption DEF Crash
  <2>2. orphans' \subseteq Tokens
    BY <1>5 DEF Crash, At, Sound
  <2>. QED BY <1>5, <2>1, <2>2 DEF Crash, Sound
<1>6. CASE UNCHANGED vars
  BY <1>6 DEF vars
<1>. QED
  BY <1>1, <1>2, <1>3, <1>4, <1>5, <1>6 DEF Next

\* The inductive invariant of types: a step of a call finds the locals it uses.
THEOREM TypeInvariant == Spec => []TypeInv
BY InitTypeInv, NextTypeInv, PTL DEF Spec

\* Type correctness of every variable, locals of interrupted calls included.
THEOREM TypeCorrect == Spec => []TypeOK
<1>1. TypeInv => TypeOK
  BY DEF TypeInv
<1>. QED BY <1>1, TypeInvariant, PTL

-----------------------------------------------------------------------------
(* SMS codes *)

\* A code that a call is about to write went to the phone.
CarriedCodeWasSent ==
    \A t \in Threads : At(t, "setCode") \/ At(t, "keepCode") =>
        work[t].code \in sent[work[t].phone]

CodeInv == HeldCodeWasSent /\ CarriedCodeWasSent

LEMMA InitCodeInv == Init => CodeInv
BY DEF Init, CodeInv, HeldCodeWasSent, CarriedCodeWasSent, At

\* The calls and steps that do not touch a code leave their thread at none of
\* the steps that write one.
LEMMA CodeFrame ==
    ASSUME TypeInv, CodeInv, NEW t \in Threads, UNCHANGED <<code, sent>>,
           ~At(t, "setCode")', ~At(t, "keepCode")',
           \A s \in Threads \ {t} : work'[s] = work[s]
    PROVE  CodeInv'
BY DEF TypeInv, TypeOK, CodeInv, HeldCodeWasSent, CarriedCodeWasSent, At

LEMMA NextCodeInv == TypeInv /\ CodeInv /\ [Next]_vars => CodeInv'
<1> SUFFICES ASSUME TypeInv, CodeInv, [Next]_vars
             PROVE  CodeInv'
  OBVIOUS
<1> USE NoneAssumption DEF history
<1>1. ASSUME NEW t \in Threads, NEW p \in Phones, NEW c \in Codes,
             PhoneVerification(t, p, c)
      PROVE  CodeInv'
  BY <1>1 DEF PhoneVerification, Accepted, Begin, TypeInv, TypeOK, CodeInv,
              HeldCodeWasSent, CarriedCodeWasSent, At
<1>2. ASSUME NEW t \in Threads, Arrive(t),
             ~ \E p \in Phones, c \in Codes : PhoneVerification(t, p, c)
      PROVE  CodeInv'
  <2>1. /\ UNCHANGED <<code, sent>>
        /\ \E p, c, k, arg, op :
             \E stage \in {"sendSms", "checkUser", "setToken"} :
                Begin(t, op, stage, p, c, k, arg)
    BY <1>2, SMTT(30) DEF Arrive, Sms, Register, Login, PhoneLogin, Request, Refresh
  <2>2. ~At(t, "setCode")' /\ ~At(t, "keepCode")'
    BY <2>1 DEF Begin, At, TypeInv, TypeOK
  <2>3. \A s \in Threads \ {t} : work'[s] = work[s]
    BY <2>1 DEF Begin, TypeInv, TypeOK
  <2>. QED BY <2>1, <2>2, <2>3, CodeFrame
<1>3. ASSUME NEW t \in Threads, SendSms(t)
      PROVE  CodeInv'
  <2>1. work[t] \in Work
    BY <1>3 DEF SendSms, At, TypeInv, TypeOK
  <2>. QED
    BY <1>3, <2>1 DEF SendSms, End, Work, TypeInv, TypeOK, CodeInv, HeldCodeWasSent,
                      CarriedCodeWasSent, At
<1>4. ASSUME NEW t \in Threads, SetCode(t) \/ KeepCode(t)
      PROVE  CodeInv'
  <2>1. work[t] \in Work
    BY <1>4 DEF SetCode, KeepCode, At, TypeInv, TypeOK
  <2>2. PICK ttl \in {CodeLife, NoExpiry} :
          code' = [code EXCEPT ![work[t].phone] = [val |-> work[t].code, ttl |-> ttl]]
    BY <1>4 DEF SetCode, KeepCode
  <2>3. work[t].code \in sent[work[t].phone]
    BY <1>4 DEF SetCode, KeepCode, CodeInv, CarriedCodeWasSent
  <2>. QED
    BY <1>4, <2>1, <2>2, <2>3 DEF SetCode, KeepCode, End, Work, TypeInv, TypeOK,
       CodeInv, HeldCodeWasSent, CarriedCodeWasSent, At
<1>5. ASSUME NEW t \in Threads, Step(t), ~SendSms(t), ~SetCode(t), ~KeepCode(t)
      PROVE  CodeInv'
  <2>1. /\ UNCHANGED <<code, sent>>
        /\ \/ End(t)
           \/ \E stage \in Stage \ {"setCode", "keepCode"} : Goto(t, stage)
           \/ work' = [work EXCEPT ![t].stage = "setToken", ![t].arg = None,
                                   ![t].token = work[t].arg]
    <3>1. ExpireToken(t) /\ work[t].op # "request" =>
            AfterExpire(work[t].op) \in Stage \ {"setCode", "keepCode"}
      BY DEF ExpireToken, At, TypeInv, Sound, AfterExpire, Stage
    <3>. QED
      BY <1>5, <3>1, SMTT(30) DEF Step, CheckUser, SaveUser, FindUser, RongLookup, RongRegister,
         RongSave, SetToken, ExpireToken, Renew, DelToken, Stage
  <2>2. work[t] \in Work
    BY <1>5 DEF Step, CheckUser, SaveUser, FindUser, RongLookup, RongRegister,
       RongSave, SetToken, ExpireToken, Renew, DelToken, At, TypeInv, TypeOK
  <2>3. ~At(t, "setCode")' /\ ~At(t, "keepCode")'
    BY <2>1, <2>2 DEF End, Goto, Work, At, TypeInv, TypeOK
  <2>4. \A s \in Threads \ {t} : work'[s] = work[s]
    BY <2>1 DEF End, Goto, TypeInv, TypeOK
  <2>. QED BY <2>1, <2>3, <2>4, CodeFrame
<1>6. ASSUME NEW p \in Phones, RemoveRongUser(p)
      PROVE  CodeInv'
  BY <1>6 DEF RemoveRongUser, CodeInv, HeldCodeWasSent, CarriedCodeWasSent, At
<1>7. CASE Tick
  <2>1. \A p \in Phones : code'[p] # None => code[p] # None /\ code'[p].val = code[p].val
    BY <1>7 DEF Tick, TypeInv, TypeOK, Code
  <2>. QED
    BY <1>7, <2>1 DEF Tick, CodeInv, HeldCodeWasSent, CarriedCodeWasSent, At
<1>8. CASE Crash
  BY <1>8 DEF Crash, CodeInv, HeldCodeWasSent, CarriedCodeWasSent, At
<1>9. CASE UNCHANGED vars
  BY <1>9 DEF vars, CodeInv, HeldCodeWasSent, CarriedCodeWasSent, At
<1>. QED
  BY <1>1, <1>2, <1>3, <1>4, <1>5, <1>6, <1>7, <1>8, <1>9 DEF Next

\* However the calls of any number of threads overlap, and wherever a crash
\* cuts them off, redis holds for a phone only codes that went to that phone.
THEOREM HeldCodes == Spec => []HeldCodeWasSent
<1>1. CodeInv => HeldCodeWasSent
  BY DEF CodeInv
<1>. QED BY <1>1, InitCodeInv, NextCodeInv, TypeInvariant, PTL DEF Spec

-----------------------------------------------------------------------------
(* Sessions *)

\* A call that is not between set and expire can change without leaving an
\* entry behind that has no time to live.
LEMMA DeadlineFrame ==
    ASSUME TypeInv, SessionsHaveDeadline, NEW t \in Threads, ~At(t, "expireToken"),
           UNCHANGED <<redis, orphans>>, \A s \in Threads \ {t} : work'[s] = work[s]
    PROVE  SessionsHaveDeadline'
BY DEF TypeInv, TypeOK, SessionsHaveDeadline, At

LEMMA NextDeadline == TypeInv /\ SessionsHaveDeadline /\ [Next]_vars
                        => SessionsHaveDeadline'
<1> SUFFICES ASSUME TypeInv, SessionsHaveDeadline, [Next]_vars
             PROVE  SessionsHaveDeadline'
  OBVIOUS
<1> USE NoneAssumption, LivesAssumption DEF history
<1>1. ASSUME NEW t \in Threads, Arrive(t)
      PROVE  SessionsHaveDeadline'
  <2>1. /\ UNCHANGED <<redis, orphans>> /\ ~At(t, "expireToken")
        /\ \E p, c, k, arg, op, stage : Begin(t, op, stage, p, c, k, arg)
    BY <1>1, SMTT(30) DEF Arrive, Sms, PhoneVerification, Register, Login,
                          PhoneLogin, Request, Refresh, Idle, At
  <2>2. \A s \in Threads \ {t} : work'[s] = work[s]
    BY <2>1 DEF Begin, TypeInv, TypeOK
  <2>. QED BY <2>1, <2>2, DeadlineFrame
<1>2. ASSUME NEW t \in Threads, SetToken(t)
      PROVE  SessionsHaveDeadline'
  <2>1. work[t] \in Work /\ work[t].token \in Tokens
    BY <1>2 DEF SetToken, At, TypeInv, TypeOK, Sound
  <2>2. At(t, "expireToken")' /\ work'[t].token = work[t].token
    BY <1>2, <2>1 DEF SetToken, Goto, At, TypeInv, TypeOK, Work, Stage
  <2>. QED
    BY <1>2, <2>1, <2>2 DEF SetToken, Goto, At, TypeInv, TypeOK, SessionsHaveDeadline
<1>3. ASSUME NEW t \in Threads, ExpireToken(t)
      PROVE  SessionsHaveDeadline'
  <2>1. work[t].token \in Tokens
    BY <1>3 DEF ExpireToken, At, TypeInv, Sound
  <2>2. redis'[work[t].token] # NoExpiry
    BY <1>3, <2>1 DEF ExpireToken, TypeInv, TypeOK, NoExpiry, Absent
  <2>3. \A k \in Tokens \ {work[t].token} :
          redis'[k] = redis[k] /\ (k \in orphans => k \in orphans')
    BY <1>3, <2>1 DEF ExpireToken, TypeInv, TypeOK
  <2>4. \A s \in Threads \ {t} : work'[s] = work[s]
    BY <1>3 DEF ExpireToken, End, Goto, TypeInv, TypeOK
  <2>. QED BY <2>2, <2>3, <2>4 DEF At, SessionsHaveDeadline
<1>4. ASSUME NEW t \in Threads, DelToken(t)
      PROVE  SessionsHaveDeadline'
  <2>1. ~At(t, "expireToken") /\ \A s \in Threads \ {t} : work'[s] = work[s]
    BY <1>4 DEF DelToken, At, End, TypeInv, TypeOK
  <2>2. \A k \in Tokens : redis'[k] = NoExpiry => redis[k] = NoExpiry
    BY <1>4 DEF DelToken, TypeInv, TypeOK, NoExpiry, Absent
  <2>. QED BY <1>4, <2>1, <2>2 DEF DelToken, At, SessionsHaveDeadline
<1>5. ASSUME NEW t \in Threads, Step(t), ~SetToken(t), ~ExpireToken(t), ~DelToken(t)
      PROVE  SessionsHaveDeadline'
  <2>1. UNCHANGED <<redis, orphans>> /\ ~At(t, "expireToken")
    BY <1>5 DEF Step, SendSms, SetCode, KeepCode, CheckUser, SaveUser, FindUser,
                RongLookup, RongRegister, RongSave, Renew, At, tables
  <2>2. \E w : work' = [work EXCEPT ![t] = w]
    BY <1>5, SMTT(30) DEF Step, SendSms, SetCode, KeepCode, CheckUser, SaveUser, FindUser,
                RongLookup, RongRegister, RongSave, Renew, End, Goto
  <2>3. \A s \in Threads \ {t} : work'[s] = work[s]
    BY <2>2 DEF TypeInv, TypeOK
  <2>. QED BY <2>1, <2>3, DeadlineFrame
<1>6. ASSUME NEW p \in Phones, RemoveRongUser(p)
      PROVE  SessionsHaveDeadline'
  BY <1>6 DEF RemoveRongUser, SessionsHaveDeadline, At
<1>7. CASE Tick
  <2>1. \A k \in Tokens : redis'[k] = NoExpiry => redis[k] = NoExpiry
    BY <1>7 DEF Tick, Older, TypeInv, TypeOK, NoExpiry, Absent
  <2>. QED BY <1>7, <2>1 DEF Tick, SessionsHaveDeadline, At
<1>8. CASE Crash
  BY <1>8 DEF Crash, SessionsHaveDeadline, At
<1>9. CASE UNCHANGED vars
  BY <1>9 DEF vars, SessionsHaveDeadline, At
<1>. QED
  BY <1>1, <1>2, <1>3, <1>4, <1>5, <1>6, <1>7, <1>8, <1>9 DEF Next, Step

\* However calls overlap, a token's entry has no time to live only while the
\* call that wrote it is about to set one, or after a crash between the two.
THEOREM SessionDeadlines == Spec => []SessionsHaveDeadline
<1>1. Init => SessionsHaveDeadline
  BY DEF Init, SessionsHaveDeadline, NoExpiry, Absent
<1>. QED BY <1>1, NextDeadline, TypeInvariant, PTL DEF Spec

-----------------------------------------------------------------------------
(* Logout *)

\* A call whose token is logged out under it is refreshJwtToken about to renew
\* the token it was given.
GoneUnheld ==
    \A t \in Threads : work[t] # None /\ work[t].token \in gone =>
        work[t].op = "refreshJwtToken" /\ work[t].arg = None

\* No login gets a token that is held or that was logged out.
HeldOwned ==
    /\ \A k \in gone : owner[k] # None
    /\ \A t \in Threads : work[t] # None =>
          \A k \in Tokens : k \in {work[t].token, work[t].arg} => owner[k] # None

LogoutInv == LogoutIsFinal /\ GoneUnheld /\ HeldOwned

\* A call that leaves the entries alone ends, or keeps its tokens.
LEMMA LogoutFrame ==
    ASSUME TypeInv, LogoutInv, NEW t \in Threads, UNCHANGED <<redis, owner, gone>>,
           \/ End(t)
           \/ \E stage : Goto(t, stage) /\ work[t] # None
    PROVE  LogoutInv'
<1>1. \A s \in Threads : work'[s] # None =>
        /\ work[s] # None
        /\ work'[s].token = work[s].token /\ work'[s].arg = work[s].arg
        /\ work'[s].op = work[s].op
  BY DEF End, Goto, TypeInv, TypeOK, Work
<1>. QED BY <1>1 DEF LogoutInv, LogoutIsFinal, GoneUnheld, HeldOwned

\* A call starts with a token that is not logged out, and owned from then on.
LEMMA LogoutBegin ==
    ASSUME TypeInv, LogoutInv, NEW t \in Threads, UNCHANGED <<redis, gone>>,
           NEW op, NEW stage, NEW p, NEW c, NEW k, NEW arg,
           Begin(t, op, stage, p, c, k, arg),
           k \notin gone, \A j \in Tokens \intersect {k, arg} : owner'[j] # None,
           \A j \in Tokens : owner[j] # None => owner'[j] # None
    PROVE  LogoutInv'
<1>1. /\ work'[t].token = k /\ work'[t].arg = arg
      /\ \A s \in Threads \ {t} : work'[s] = work[s]
  BY DEF Begin, TypeInv, TypeOK
<1>. QED BY <1>1 DEF LogoutInv, LogoutIsFinal, GoneUnheld, HeldOwned, TypeInv, TypeOK

LEMMA NextLogoutInv == TypeInv /\ LogoutInv /\ [Next]_vars => LogoutInv'
<1> SUFFICES ASSUME TypeInv, LogoutInv, [Next]_vars
             PROVE  LogoutInv'
  OBVIOUS
<1> USE NoneAssumption, LivesAssumption DEF history
<1>0. None \notin Tokens /\ None \notin gone
  BY DEF TypeInv, TypeOK
<1>1. ASSUME NEW t \in Threads, Arrive(t)
      PROVE  LogoutInv'
  <2>1. ASSUME NEW p \in Phones,
               Sms(t, p) \/ \E c \in Codes : PhoneVerification(t, p, c) \/ Register(t, p, c)
        PROVE  LogoutInv'
    <3>1. /\ UNCHANGED <<redis, owner, gone>>
          /\ \E op, stage, c : Begin(t, op, stage, p, c, None, None)
      BY <2>1 DEF Sms, PhoneVerification, Register
    <3>. QED BY <1>0, <3>1, LogoutBegin
  <2>2. ASSUME NEW p \in Phones, NEW k \in Tokens,
               Login(t, p, k) \/ \E c \in Codes : PhoneLogin(t, p, c, k)
        PROVE  LogoutInv'
    <3>1. /\ UNCHANGED <<redis, gone>> /\ owner' = [owner EXCEPT ![k] = p]
          /\ owner[k] = None
          /\ \E op : Begin(t, op, "setToken", p, None, k, None)
      BY <2>2 DEF Login, PhoneLogin, Fresh
    <3>2. k \notin gone
      BY <3>1 DEF LogoutInv, HeldOwned
    <3>3. owner'[k] # None /\ \A j \in Tokens : owner[j] # None => owner'[j] # None
      BY <3>1 DEF TypeInv, TypeOK
    <3>. QED BY <1>0, <3>1, <3>2, <3>3, LogoutBegin
  <2>3. ASSUME NEW k \in Tokens, NEW op \in {"request", "logout"}, Request(t, op, k)
        PROVE  LogoutInv'
    <3>1. k \notin gone
      BY <2>3 DEF Request, LogoutInv, LogoutIsFinal
    <3>. QED BY <1>0, <2>3, <3>1, LogoutBegin DEF Request
  <2>4. ASSUME NEW k \in Tokens, NEW arg \in Tokens, NEW p \in Phones,
               Refresh(t, k, arg, p)
        PROVE  LogoutInv'
    <3>1. k \notin gone
      BY <2>4 DEF Refresh, LogoutInv, LogoutIsFinal
    <3>2. /\ owner'[arg] # None /\ owner[k] # None
          /\ \A j \in Tokens : owner[j] # None => owner'[j] # None
      BY <2>4 DEF Refresh, Fresh, TypeInv, TypeOK
    <3>. QED BY <2>4, <3>1, <3>2, LogoutBegin DEF Refresh
  <2>. QED BY <1>1, <2>1, <2>2, <2>3, <2>4 DEF Arrive
<1>2. ASSUME NEW t \in Threads, SetToken(t)
      PROVE  LogoutInv'
  <2>. DEFINE k == work[t].token
  <2>1. work[t] \in Work /\ k \in Tokens
    BY <1>2 DEF SetToken, At, TypeInv, TypeOK, Sound
  <2>2. k \notin gone' /\ gone' \subseteq gone
    BY <1>2, <2>1 DEF SetToken, At, LogoutInv, GoneUnheld
  <2>3. \A j \in Tokens \ {k} : redis'[j] = redis[j]
    BY <1>2, <2>1 DEF SetToken, TypeInv, TypeOK
  <2>4. \A s \in Threads : work'[s] # None =>
          /\ work[s] # None
          /\ work'[s].token = work[s].token /\ work'[s].arg = work[s].arg
          /\ work'[s].op = work[s].op
    BY <1>2, <2>1 DEF SetToken, At, Goto, TypeInv, TypeOK, Work
  <2>5. owner' = owner /\ gone \subseteq Tokens
    BY <1>2 DEF SetToken, TypeInv, TypeOK
  <2>. QED
    BY <2>2, <2>3, <2>4, <2>5 DEF LogoutInv, LogoutIsFinal, GoneUnheld, HeldOwned
<1>3. ASSUME NEW t \in Threads, ExpireToken(t)
      PROVE  LogoutInv'
  <2>1. work[t] \in Work /\ work[t].token \in Tokens
    BY <1>3 DEF ExpireToken, At, TypeInv, TypeOK, Sound
  <2>2. \A k \in Tokens : redis[k] = Absent => redis'[k] = Absent
    BY <1>3, <2>1 DEF ExpireToken, TypeInv, TypeOK
  <2>3. \A s \in Threads : work'[s] # None =>
          /\ work[s] # None
          /\ work'[s].token = work[s].token /\ work'[s].arg = work[s].arg
          /\ work'[s].op = work[s].op
    BY <1>3, <2>1 DEF ExpireToken, At, End, Goto, TypeInv, TypeOK, Work
  <2>4. owner' = owner /\ gone' = gone /\ gone \subseteq Tokens
    BY <1>3 DEF ExpireToken, TypeInv, TypeOK
  <2>. QED
    BY <2>2, <2>3, <2>4 DEF LogoutInv, LogoutIsFinal, GoneUnheld, HeldOwned
<1>4. ASSUME NEW t \in Threads, Renew(t)
      PROVE  LogoutInv'
  <2>1. work[t] \in Work /\ work[t].op = "refreshJwtToken"
    BY <1>4 DEF Renew, At, TypeInv, TypeOK, Sound
  <2>2. UNCHANGED <<redis, owner, gone>>
    BY <1>4 DEF Renew
  <2>3. CASE End(t)
    BY <2>2, <2>3, LogoutFrame
  <2>4. CASE ~End(t)
    <3>1. work[t].arg # None
          /\ work' = [work EXCEPT ![t].stage = "setToken", ![t].arg = None,
                                  ![t].token = work[t].arg]
      BY <1>4, <2>4 DEF Renew
    <3>2. /\ work'[t].token = work[t].arg /\ work'[t].arg = None
          /\ work'[t].op = "refreshJwtToken"
          /\ \A s \in Threads \ {t} : work'[s] = work[s]
      BY <2>1, <3>1 DEF TypeInv, TypeOK, Work
    <3>. QED
      BY <1>0, <1>4, <2>2, <3>2 DEF Renew, At, LogoutInv, LogoutIsFinal, GoneUnheld, HeldOwned
  <2>. QED BY <2>3, <2>4
<1>5. ASSUME NEW t \in Threads, DelToken(t)
      PROVE  LogoutInv'
  <2>. DEFINE k == work[t].token
  <2>1. work[t] # None /\ k \in Tokens /\ owner[k] # None
    BY <1>5 DEF DelToken, At, TypeInv, Sound, LogoutInv, HeldOwned
  <2>2. redis'[k] = Absent /\ \A j \in Tokens \ {k} : redis'[j] = redis[j]
    BY <1>5, <2>1 DEF DelToken, TypeInv, TypeOK
  <2>3. /\ gone' \subseteq gone \union {k} /\ gone \subseteq Tokens
        /\ k \in gone' \ gone => \A s \in Threads \ {t} : work[s] # None => work[s].token # k
    BY <1>5 DEF DelToken, Holding, TypeInv, TypeOK
  <2>4. work'[t] = None /\ \A s \in Threads \ {t} : work'[s] = work[s]
    BY <1>5 DEF DelToken, End, TypeInv, TypeOK
  <2>5. owner' = owner
    BY <1>5 DEF DelToken
  <2>. QED
    BY <2>1, <2>2, <2>3, <2>4, <2>5 DEF LogoutInv, LogoutIsFinal, GoneUnheld, HeldOwned
<1>6. ASSUME NEW t \in Threads, Step(t),
             ~SetToken(t), ~ExpireToken(t), ~Renew(t), ~DelToken(t)
      PROVE  LogoutInv'
  <2>1. UNCHANGED <<redis, owner, gone>>
    BY <1>6 DEF Step, SendSms, SetCode, KeepCode, CheckUser, SaveUser, FindUser,
                RongLookup, RongRegister, RongSave, tables
  <2>2. CASE SendSms(t)
    <3>1. work[t] \in Work
      BY <2>2 DEF SendSms, At, TypeInv, TypeOK
    <3>2. \A s \in Threads : work'[s] # None =>
            /\ work[s] # None
            /\ work'[s].token = work[s].token /\ work'[s].arg = work[s].arg
            /\ work'[s].op = work[s].op
      BY <2>2, <3>1 DEF SendSms, At, End, TypeInv, TypeOK, Work
    <3>. QED BY <2>1, <3>2 DEF LogoutInv, LogoutIsFinal, GoneUnheld, HeldOwned
  <2>3. CASE ~SendSms(t)
    <3>1. End(t) \/ \E stage : Goto(t, stage) /\ work[t] # None
      BY <1>6, <2>3, SMTT(30) DEF Step, SetCode, KeepCode, CheckUser, SaveUser, FindUser,
                  RongLookup, RongRegister, RongSave, At
    <3>. QED BY <2>1, <3>1, LogoutFrame
  <2>. QED BY <2>2, <2>3
<1>7. ASSUME NEW p \in Phones, RemoveRongUser(p)
      PROVE  LogoutInv'
  BY <1>7 DEF RemoveRongUser, LogoutInv, LogoutIsFinal, GoneUnheld, HeldOwned
<1>8. CASE Tick
  <2>1. \A k \in Tokens : redis[k] = Absent => redis'[k] = Absent
    BY <1>8 DEF Tick, Older
  <2>. QED
    BY <1>8, <2>1 DEF Tick, LogoutInv, LogoutIsFinal, GoneUnheld, HeldOwned, TypeInv, TypeOK
<1>9. CASE Crash
  BY <1>9 DEF Crash, LogoutInv, LogoutIsFinal, GoneUnheld, HeldOwned
<1>10. CASE UNCHANGED vars
  BY <1>10 DEF vars, LogoutInv, LogoutIsFinal, GoneUnheld, HeldOwned
<1>. QED
  BY <1>1, <1>2, <1>3, <1>4, <1>5, <1>6, <1>7, <1>8, <1>9, <1>10 DEF Next

\* A token that was logged out while no other call held it has no entry again,
\* whatever any number of calls does, unless refreshJwtToken is given it.
THEOREM LogoutHolds == Spec => []LogoutIsFinal
<1>1. Init => LogoutInv
  BY DEF Init, LogoutInv, LogoutIsFinal, GoneUnheld, HeldOwned
<1>2. LogoutInv => LogoutIsFinal
  BY DEF LogoutInv
<1>. QED BY <1>1, <1>2, NextLogoutInv, TypeInvariant, PTL DEF Spec

-----------------------------------------------------------------------------
(***************************************************************************)
(* rong_user rows.  A call that will insert one counts as one already; a   *)
(* registration inserts without a lookup, but it passed a check that found *)
(* no user, and there is no row before there is a user.                    *)
(***************************************************************************)
InsertStage == {"saveUser", "findUser", "rongRegister", "rongSave"}
Inserts(w, p) == w # None /\ w.phone = p /\ w.stage \in InsertStage
Inserting(p) == {t \in Threads : Inserts(work[t], p)}

\* The calls that found the user.
NeedsUser(w) == \/ w.op \in {"login", "phoneLogin"}
                \/ w.stage \in {"findUser", "rongLookup", "rongRegister", "rongSave"}

UserFirst ==
    /\ \A p \in Phones : rongs[p] > 0 => users[p] > 0
    /\ \A t \in Threads :
          work[t] # None /\ NeedsUser(work[t]) => users[work[t].phone] > 0

Bounded == \A p \in Phones :
    rongs[p] + Cardinality(Inserting(p)) <= Cardinality(Threads)

LEMMA Insertings ==
    ASSUME NEW p
    PROVE  /\ IsFiniteSet(Inserting(p)) /\ Inserting(p) \subseteq Threads
           /\ Cardinality(Inserting(p)) \in Nat /\ Cardinality(Threads) \in Nat
           /\ Cardinality(Inserting(p)) <= Cardinality(Threads)
BY ThreadsAssumption, FS_Subset, FS_CardinalityType DEF Inserting

\* An arriving call inserts nothing yet, and knows the user if it has to.
Starts(t, w) == /\ work' = [work EXCEPT ![t] = w] /\ w.stage \notin InsertStage
                /\ NeedsUser(w) => users[w.phone] > 0

\* Who was not inserting begins to only where no row is there, and only one who
\* found the user goes on as one who did.
Continues(t, w) ==
    /\ work' = [work EXCEPT ![t] = w]
    /\ w # None => /\ w.phone = work[t].phone
                   /\ NeedsUser(w) => users'[w.phone] > 0
                   /\ w.stage \in InsertStage =>
                         work[t].stage \in InsertStage \/ rongs[w.phone] = 0

LEMMA ArriveNeeds ==
    ASSUME TypeInv, NEW t \in Threads, Arrive(t)
    PROVE  /\ UNCHANGED <<users, rongs>>
           /\ \E w : Starts(t, w)
<1> USE DEF tables
<1>0. ASSUME NEW op, NEW stage, NEW p, NEW c, NEW k, NEW arg,
             Begin(t, op, stage, p, c, k, arg), stage \in Stage \ InsertStage,
             stage # "rongLookup", op \in {"login", "phoneLogin"} => users[p] > 0
      PROVE  \E w : Starts(t, w)
  <2>. PICK w : w = [op |-> op, stage |-> stage, phone |-> p, code |-> c,
                     token |-> k, arg |-> arg]
    OBVIOUS
  <2>1. w.op = op /\ w.stage = stage /\ w.phone = p /\ work' = [work EXCEPT ![t] = w]
    BY <1>0 DEF Begin
  <2>. QED BY <1>0, <2>1 DEF Starts, NeedsUser, InsertStage
<1>. USE DEF Stage, InsertStage
<1>1. ASSUME NEW p \in Phones, Sms(t, p)
      PROVE  UNCHANGED <<users, rongs>> /\ \E w : Starts(t, w)
  BY <1>0, <1>1 DEF Sms
<1>2. ASSUME NEW p \in Phones, NEW c \in Codes,
             PhoneVerification(t, p, c) \/ Register(t, p, c)
      PROVE  UNCHANGED <<users, rongs>> /\ \E w : Starts(t, w)
  BY <1>0, <1>2 DEF PhoneVerification, Register
<1>3. ASSUME NEW p \in Phones, NEW k \in Tokens,
             Login(t, p, k) \/ \E c \in Codes : PhoneLogin(t, p, c, k)
      PROVE  UNCHANGED <<users, rongs>> /\ \E w : Starts(t, w)
  BY <1>0, <1>3 DEF Login, PhoneLogin, Known
<1>4. ASSUME NEW k \in Tokens, NEW op \in {"request", "logout"}, Request(t, op, k)
      PROVE  UNCHANGED <<users, rongs>> /\ \E w : Starts(t, w)
  BY <1>0, <1>4 DEF Request
<1>5. ASSUME NEW k \in Tokens, NEW arg \in Tokens, NEW p \in Phones,
             Refresh(t, k, arg, p)
      PROVE  UNCHANGED <<users, rongs>> /\ \E w : Starts(t, w)
  BY <1>0, <1>5 DEF Refresh
<1>. QED BY <1>1, <1>2, <1>3, <1>4, <1>5 DEF Arrive

LEMMA StepNeeds ==
    ASSUME TypeInv, TypeInv', UserFirst, NEW t \in Threads, Step(t), ~RongSave(t)
    PROVE  /\ rongs' = rongs
           /\ \A p \in Phones : users'[p] >= users[p]
           /\ \E w : Continues(t, w)
<1> USE DEF tables, history, At
<1>. PICK v : v = work[t]
  OBVIOUS
<1>1. v \in Work /\ v # None /\ Sound(v)
  BY NoneAssumption DEF TypeInv, TypeOK, Step, SendSms, SetCode, KeepCode, CheckUser,
     SaveUser, FindUser, RongLookup, RongRegister, RongSave, SetToken, ExpireToken,
     Renew, DelToken
<1>2. v.phone \in Phones /\ (NeedsUser(v) => users[v.phone] > 0)
      /\ users \in [Phones -> Nat] /\ users' \in [Phones -> Nat]
      /\ rongs \in [Phones -> Nat]
  BY <1>1 DEF Work, UserFirst, TypeInv, TypeOK
\* A step that goes on to a stage, or ends the call.
<1>3. ASSUME NEW stage, Goto(t, stage), rongs' = rongs,
             \A p \in Phones : users'[p] >= users[p],
             stage \in {"findUser", "rongLookup", "rongRegister", "rongSave"}
                => users'[v.phone] > 0,
             stage \in InsertStage => v.stage \in InsertStage \/ rongs[v.phone] = 0
      PROVE  \E w : Continues(t, w)
  <2>. PICK w : w = [v EXCEPT !.stage = stage]
    OBVIOUS
  <2>1. w.phone = v.phone /\ w.op = v.op /\ w.stage = stage
    BY <1>1 DEF Work
  <2>2. work' = [work EXCEPT ![t] = [work[t] EXCEPT !.stage = stage]]
    BY <1>3 DEF Goto
  <2>3. NeedsUser(w) => users'[w.phone] > 0
    BY <1>2, <1>3, <2>1 DEF NeedsUser
  <2>. QED BY <1>3, <2>1, <2>2, <2>3 DEF Continues
<1>4. ASSUME End(t)
      PROVE  \E w : Continues(t, w)
  BY <1>4 DEF End, Continues
<1>. USE DEF InsertStage
<1>5. CASE SendSms(t)
  <2>1. rongs' = rongs /\ users' = users /\ v.stage = "sendSms"
    BY <1>5 DEF SendSms
  <2>2. ASSUME NEW c \in Codes,
               work' = [work EXCEPT ![t].stage = "setCode", ![t].code = c]
        PROVE  \E w : Continues(t, w)
    <3>. PICK w : w = [v EXCEPT !.stage = "setCode", !.code = c]
      OBVIOUS
    <3>1. w.phone = v.phone /\ w.op = v.op /\ w.stage = "setCode"
      BY <1>1 DEF Work
    <3>2. work' = [work EXCEPT ![t] = w]
      BY <2>2
    <3>. QED BY <1>2, <2>1, <3>1, <3>2 DEF Continues, NeedsUser
  <2>. QED BY <1>2, <1>4, <1>5, <2>1, <2>2 DEF SendSms
<1>6. CASE SetCode(t) \/ KeepCode(t)
  BY <1>2, <1>4, <1>6 DEF SetCode, KeepCode
<1>7. CASE CheckUser(t)
  BY <1>2, <1>3, <1>4, <1>7 DEF CheckUser, UserFirst
<1>8. CASE SaveUser(t)
  <2>1. users'[v.phone] > 0 /\ \A p \in Phones : users'[p] >= users[p]
    BY <1>2, <1>8 DEF SaveUser
  <2>2. Goto(t, "findUser") /\ rongs' = rongs /\ v.stage = "saveUser"
    BY <1>8 DEF SaveUser
  <2>. QED BY <1>3, <2>1, <2>2
<1>9. CASE FindUser(t)
  BY <1>2, <1>3, <1>4, <1>9 DEF FindUser, Known
<1>10. CASE RongLookup(t)
  <2>1. /\ rongs' = rongs /\ users' = users /\ users[v.phone] > 0
        /\ IF rongs[v.phone] = 0 THEN Goto(t, "rongRegister") ELSE End(t)
    BY <1>2, <1>10 DEF RongLookup, NeedsUser
  <2>. QED BY <1>2, <1>3, <1>4, <2>1
<1>11. CASE RongRegister(t)
  <2>1. /\ rongs' = rongs /\ users' = users /\ v.stage = "rongRegister"
        /\ Goto(t, "rongSave") \/ End(t)
    BY <1>11 DEF RongRegister
  <2>2. users[v.phone] > 0
    BY <1>2, <2>1 DEF NeedsUser
  <2>3. \A p \in Phones : users'[p] >= users[p]
    BY <1>2, <2>1
  <2>. QED BY <1>3, <1>4, <2>1, <2>2, <2>3
<1>12. CASE SetToken(t)
  BY <1>2, <1>3, <1>12 DEF SetToken
<1>13. CASE ExpireToken(t)
  <2>1. CASE v.op = "request"
    BY <1>2, <1>4, <1>13, <2>1 DEF ExpireToken
  <2>2. CASE v.op # "request"
    <3>1. Goto(t, AfterExpire(v.op)) /\ UNCHANGED <<users, rongs>>
      BY <1>13, <2>2 DEF ExpireToken
    <3>2. AfterExpire(v.op) \in {"rongLookup", "delToken", "renew"}
          /\ (AfterExpire(v.op) = "rongLookup" => v.op \in {"login", "phoneLogin"})
      BY <1>1, <1>13, <2>2 DEF ExpireToken, Sound, AfterExpire
    <3>. QED BY <1>2, <1>3, <3>1, <3>2 DEF NeedsUser
  <2>. QED BY <2>1, <2>2
<1>14. CASE Renew(t)
  <2>1. rongs' = rongs /\ users' = users
    BY <1>14 DEF Renew
  <2>2. CASE work[t].arg = None \/ ~Known(work[t].phone)
    BY <1>2, <1>4, <1>14, <2>1, <2>2 DEF Renew
  <2>3. CASE ~(work[t].arg = None \/ ~Known(work[t].phone))
    <3>. PICK w : w = [v EXCEPT !.stage = "setToken", !.arg = None, !.token = v.arg]
      OBVIOUS
    <3>1. w.phone = v.phone /\ w.op = v.op /\ w.stage = "setToken"
      BY <1>1 DEF Work
    <3>2. work' = [work EXCEPT ![t] = w]
      BY <1>14, <2>3 DEF Renew
    <3>3. Continues(t, w)
      BY <1>2, <2>1, <3>1, <3>2 DEF Continues, NeedsUser
    <3>. QED BY <1>2, <2>1, <3>3
  <2>. QED BY <2>2, <2>3
<1>15. CASE DelToken(t)
  BY <1>2, <1>4, <1>15 DEF DelToken
<1>. QED
  BY <1>5, <1>6, <1>7, <1>8, <1>9, <1>10, <1>11, <1>12, <1>13, <1>14, <1>15 DEF Step

RongInv == UserFirst /\ Bounded

\* Fewer rows, or none of a new inserter's: the bound stays.
LEMMA BoundFrame ==
    ASSUME TypeInv, Bounded, NEW t \in Threads, NEW w,
           work' = [work EXCEPT ![t] = w], rongs' = rongs,
           \A p \in Phones : Inserts(w, p) => Inserts(work[t], p) \/ rongs[p] = 0
    PROVE  Bounded'
<1> SUFFICES ASSUME NEW p \in Phones
             PROVE  rongs'[p] + Cardinality(Inserting(p)') <= Cardinality(Threads)
  BY DEF Bounded
<1>1. /\ work \in [Threads -> Work \union {None}] /\ rongs[p] \in Nat
      /\ rongs[p] + Cardinality(Inserting(p)) <= Cardinality(Threads)
  BY DEF TypeInv, TypeOK, Bounded
<1>2. /\ Inserting(p)' \subseteq Threads
      /\ IsFiniteSet(Inserting(p)') /\ Cardinality(Inserting(p)') \in Nat
      /\ Cardinality(Inserting(p)') <= Cardinality(Threads)
  BY ThreadsAssumption, FS_Subset, FS_CardinalityType DEF Inserting
<1>3. rongs[p] = 0 \/ Inserting(p)' \subseteq Inserting(p)
  BY <1>1 DEF Inserting
<1>4. CASE rongs[p] = 0
  BY <1>2, <1>4, Insertings
<1>5. CASE Inserting(p)' \subseteq Inserting(p)
  <2>1. Cardinality(Inserting(p)') <= Cardinality(Inserting(p))
    BY <1>5, Insertings, FS_Subset
  <2>. QED BY <1>1, <1>2, <2>1, Insertings
<1>. QED BY <1>3, <1>4, <1>5

LEMMA NextRongInv == TypeInv /\ RongInv /\ [Next]_vars => RongInv'
<1> SUFFICES ASSUME TypeInv, RongInv, [Next]_vars
             PROVE  RongInv'
  OBVIOUS
<1> USE DEF RongInv
<1>0. /\ work \in [Threads -> Work \union {None}]
      /\ users \in [Phones -> Nat] /\ rongs \in [Phones -> Nat]
      /\ \A t \in Threads : work[t] # None => work[t].phone \in Phones
  BY NoneAssumption DEF TypeInv, TypeOK, Work
<1>1. ASSUME NEW t \in Threads, Arrive(t)
      PROVE  RongInv'
  <2>. PICK w : Starts(t, w)
    BY <1>1, ArriveNeeds
  <2>1. UNCHANGED <<users, rongs>>
    BY <1>1, ArriveNeeds
  <2>2. UserFirst'
    BY <1>0, <2>1 DEF UserFirst, NeedsUser, Starts
  <2>3. \A p \in Phones : ~Inserts(w, p)
    BY DEF Starts, Inserts
  <2>4. Bounded'
    BY <2>1, <2>3, BoundFrame DEF Starts
  <2>. QED BY <2>2, <2>4
<1>2. ASSUME NEW t \in Threads, Step(t), ~RongSave(t)
      PROVE  RongInv'
  <2>. PICK w : Continues(t, w)
    BY <1>2, NextTypeInv, StepNeeds
  <2>1. rongs' = rongs /\ \A p \in Phones : users'[p] >= users[p]
    BY <1>2, NextTypeInv, StepNeeds
  <2>2. work[t] # None
    BY <1>2 DEF Step, At, SendSms, SetCode, KeepCode, CheckUser, SaveUser, FindUser,
       RongLookup, RongRegister, SetToken, ExpireToken, Renew, DelToken
  <2>3. users' \in [Phones -> Nat]
    BY NextTypeInv DEF TypeInv, TypeOK
  <2>4. UserFirst'
    BY <1>0, <2>1, <2>3 DEF UserFirst, NeedsUser, Continues
  <2>5. \A p \in Phones : Inserts(w, p) => Inserts(work[t], p) \/ rongs[p] = 0
    BY <2>2 DEF Inserts, Continues
  <2>6. Bounded'
    BY <2>1, <2>5, BoundFrame DEF Continues
  <2>. QED BY <2>4, <2>6
<1>3. ASSUME NEW t \in Threads, RongSave(t)
      PROVE  RongInv'
  <2>. PICK q : q = work[t].phone
    OBVIOUS
  <2>1. /\ q \in Phones /\ t \in Inserting(q) /\ users[q] > 0 /\ users' = users
        /\ rongs' = [rongs EXCEPT ![q] = rongs[q] + 1]
        /\ work' = [work EXCEPT ![t] = None]
    BY <1>0, <1>3 DEF RongSave, At, End, Inserting, Inserts, InsertStage, UserFirst,
       NeedsUser
  <2>2. UserFirst'
    BY <1>0, <2>1 DEF UserFirst, NeedsUser
  <2>3. Inserting(q)' = Inserting(q) \ {t}
    BY <1>0, <2>1 DEF Inserting, Inserts
  <2>4. Cardinality(Inserting(q)') = Cardinality(Inserting(q)) - 1
    BY <2>1, <2>3, Insertings, FS_RemoveElement
  <2>5. \A p \in Phones : p # q => Inserting(p)' = Inserting(p) /\ rongs'[p] = rongs[p]
    BY <1>0, <2>1 DEF Inserting, Inserts
  <2>6. Bounded'
    BY <1>0, <2>1, <2>4, <2>5, Insertings DEF Bounded
  <2>. QED BY <2>2, <2>6
<1>4. ASSUME NEW p \in Phones, RemoveRongUser(p)
      PROVE  RongInv'
  <2>1. /\ work' = work /\ users' = users /\ rongs' \in [Phones -> Nat]
        /\ \A q \in Phones : rongs'[q] <= rongs[q]
    BY <1>0, <1>4 DEF RemoveRongUser
  <2>2. \A q \in Phones : Inserting(q)' = Inserting(q)
    BY <2>1 DEF Inserting
  <2>3. UserFirst'
    BY <1>0, <2>1 DEF UserFirst
  <2>. QED BY <1>0, <2>1, <2>2, <2>3, Insertings DEF Bounded
<1>5. CASE Crash
  <2>1. /\ \A t \in Threads : work'[t] = None
        /\ users' = users /\ rongs' = rongs
    BY <1>5 DEF Crash, tables
  <2>2. \A q \in Phones : Inserting(q)' = {}
    BY <2>1 DEF Inserting, Inserts
  <2>3. Cardinality({}) = 0
    BY ThreadsAssumption, FS_Subset, FS_EmptySet
  <2>4. UserFirst'
    BY <1>0, <2>1 DEF UserFirst, NeedsUser
  <2>5. Bounded'
    <3> SUFFICES ASSUME NEW p \in Phones
                 PROVE  rongs'[p] + Cardinality(Inserting(p)') <= Cardinality(Threads)
      BY DEF Bounded
    <3>1. Cardinality(Inserting(p)') = 0
      BY <2>2, <2>3
    <3>2. rongs[p] \in Nat /\ rongs[p] + Cardinality(Inserting(p)) <= Cardinality(Threads)
      BY <1>0 DEF Bounded
    <3>. QED BY <2>1, <3>1, <3>2, Insertings
  <2>. QED BY <2>4, <2>5
<1>6. CASE Tick \/ UNCHANGED vars
  BY <1>6 DEF Tick, vars, tables, UserFirst, Bounded, Inserting
<1>. QED BY <1>1, <1>2, <1>3, <1>4, <1>5, <1>6 DEF Next, Step

\* However logins and registrations overlap, crash and have their rows removed,
\* a user never has more rong_user rows than there are threads.
THEOREM RongRowsBoundedCorrect == Spec => []RongRowsBounded
<1>1. Init => RongInv
  <2>1. ASSUME Init, NEW p \in Phones
        PROVE  Inserting(p) = {}
    BY <2>1 DEF Init, Inserting, Inserts
  <2>2. Cardinality({}) = 0
    BY ThreadsAssumption, FS_Subset, FS_EmptySet
  <2>3. Cardinality(Threads) \in Nat
    BY ThreadsAssumption, FS_CardinalityType
  <2>4. Init => UserFirst
    BY DEF Init, UserFirst
  <2>5. Init => Bounded
    BY <2>1, <2>2, <2>3 DEF Init, Bounded
  <2>. QED BY <2>4, <2>5 DEF RongInv
<1>2. TypeInv /\ RongInv => RongRowsBounded
  BY Insertings DEF RongInv, Bounded, RongRowsBounded, TypeInv, TypeOK
<1>. QED BY <1>1, <1>2, NextRongInv, TypeInvariant, PTL DEF Spec
=============================================================================
