---------------------------- MODULE SendMsgProofs ----------------------------
(***************************************************************************)
(* Theorems about SendMsg, for any number of messages, executions and      *)
(* crashes and any retry limit.                                            *)
(***************************************************************************)
EXTENDS SendMsg, FiniteSetTheorems, TLAPS

Busy(e) == exec[e] # None /\ exec[e].at # None

\* What a write back relies on: the count it increments is a number, because
\* an execution that meets a null count ends before it writes.
AtCounted ==
    \A e \in Executions : Busy(e) =>
        /\ exec[e].copy[exec[e].at] # None
        /\ exec[e].copy[exec[e].at].num # None

TodoCopied ==
    \A e \in Executions : exec[e] # None =>
        \A m \in exec[e].todo : exec[e].copy[m] # None

TypeInv == TypeOK /\ AtCounted /\ TodoCopied

LEMMA InitTypeInv == Init => TypeInv
BY BoundsAssumption DEF Init, TypeInv, TypeOK, AtCounted, TodoCopied, Busy

\* An attempt replaces the execution's record by one of the same type, whose
\* message is counted.
LEMMA AttemptTypeInv ==
    ASSUME TypeInv, NEW e \in Executions, NEW m \in Messages, Attempt(e, m)
    PROVE  TypeInv'
<1> USE NoneAssumption DEF TypeInv, TypeOK
<1>. DEFINE x == exec[e]
<1>1. /\ x \in Execution /\ x.at = None /\ m \in x.todo
      /\ x.copy[m] \in Row
  BY DEF Attempt, TodoCopied, Execution
<1>2. attempts' \in [Messages -> Nat] /\ sent' \in [Messages -> Nat]
  BY DEF Attempt
<1>3. PICK ok \in BOOLEAN :
        exec' = IF x.copy[m].num = None
                THEN [exec EXCEPT ![e] = None]
                ELSE [exec EXCEPT ![e].todo = @ \ {m}, ![e].at = m,
                                  ![e].result = IF ok THEN SUCCESS ELSE FAIL]
  BY DEF Attempt
<1>4. CASE x.copy[m].num = None
  <2>1. exec' = [exec EXCEPT ![e] = None]
    BY <1>3, <1>4
  <2>2. TypeOK'
    BY <1>2, <2>1 DEF Attempt
  <2>3. AtCounted' /\ TodoCopied'
    BY <2>1 DEF AtCounted, TodoCopied, Busy
  <2>. QED BY <2>2, <2>3
<1>5. CASE x.copy[m].num # None
  <2>. DEFINE y == [x EXCEPT !.todo = @ \ {m}, !.at = m,
                             !.result = IF ok THEN SUCCESS ELSE FAIL]
  <2>1. exec' = [exec EXCEPT ![e] = y]
    BY <1>1, <1>3, <1>5
  <2>2. /\ y \in Execution /\ y.at = m /\ y.copy = x.copy
        /\ y.todo \subseteq x.todo
    BY <1>1 DEF Execution
  <2>3. TypeOK'
    BY <1>2, <2>1, <2>2 DEF Attempt
  <2>4. AtCounted' /\ TodoCopied'
    BY <1>1, <1>5, <2>1, <2>2 DEF AtCounted, TodoCopied, Busy
  <2>. QED BY <2>3, <2>4
<1>. QED BY <1>4, <1>5

LEMMA WriteBackTypeInv ==
    ASSUME TypeInv, NEW e \in Executions, WriteBack(e)
    PROVE  TypeInv'
<1> USE NoneAssumption DEF TypeInv, TypeOK
<1>. DEFINE x == exec[e]
            m == x.at
            row == [status |-> x.result, num |-> x.copy[m].num + 1]
<1>1. x \in Execution /\ m \in Messages /\ x.copy[m] \in Row
  BY DEF WriteBack, AtCounted, Busy, Execution
<1>2. row \in Row
  BY <1>1 DEF WriteBack, AtCounted, Busy, Execution, Row
<1>3. table' \in [Messages -> Row \union {None}]
  BY <1>1, <1>2 DEF WriteBack
<1>4. /\ exec' = [exec EXCEPT ![e] = Advance(e, x)]
      /\ Advance(e, x) \in Execution \union {None}
      /\ Advance(e, x) # None => /\ Advance(e, x).at = None
                                 /\ Advance(e, x).todo = x.todo
                                 /\ Advance(e, x).copy = x.copy
  BY <1>1 DEF WriteBack, Advance, Execution
<1>5. TypeOK'
  BY <1>3, <1>4 DEF WriteBack, history
<1>6. AtCounted' /\ TodoCopied'
  BY <1>1, <1>4 DEF AtCounted, TodoCopied, Busy
<1>. QED BY <1>5, <1>6

LEMMA NextTypeInv == TypeInv /\ [Next]_vars => TypeInv'
<1> SUFFICES ASSUME TypeInv, [Next]_vars
             PROVE  TypeInv'
  OBVIOUS
<1> USE NoneAssumption, BoundsAssumption DEF TypeInv, TypeOK, history
<1>1. ASSUME NEW m \in Messages, Push(m)
      PROVE  TypeInv'
  BY <1>1 DEF Push, AtCounted, TodoCopied, Busy, Row
<1>2. ASSUME NEW m \in Messages, Console(m)
      PROVE  TypeInv'
  <2>1. table' \in [Messages -> Row \union {None}]
    BY <1>2 DEF Console, ConsoleAdd, ConsoleEdit, ConsoleRemove, Row
  <2>. QED
    BY <1>2, <2>1 DEF Console, ConsoleAdd, ConsoleEdit, ConsoleRemove,
                      AtCounted, TodoCopied, Busy
<1>3. ASSUME NEW e \in Executions, Start(e)
      PROVE  TypeInv'
  BY <1>3 DEF Start, Present, Execution, AtCounted, TodoCopied, Busy
<1>4. ASSUME NEW e \in Executions, NEW m \in Messages, Attempt(e, m)
      PROVE  TypeInv'
  BY <1>4, AttemptTypeInv
<1>5. ASSUME NEW e \in Executions, WriteBack(e)
      PROVE  TypeInv'
  BY <1>5, WriteBackTypeInv
<1>6. CASE Crash
  BY <1>6 DEF Crash, AtCounted, TodoCopied, Busy
<1>7. CASE UNCHANGED vars
  BY <1>7 DEF vars, AtCounted, TodoCopied, Busy
<1>. QED
  BY <1>1, <1>2, <1>3, <1>4, <1>5, <1>6, <1>7 DEF Next, Job

\* The inductive invariant of types: an execution holds the rows it will write.
THEOREM TypeInvariant == Spec => []TypeInv
<1>. QED BY InitTypeInv, NextTypeInv, PTL DEF Spec

\* Every variable keeps its type, the console's null counts, overlapping
\* executions and crashes included (SendMsgJob.execute).
THEOREM TypeCorrect == Spec => []TypeOK
<1>1. TypeInv => TypeOK
  BY DEF TypeInv
<1>. QED BY <1>1, TypeInvariant, PTL

-----------------------------------------------------------------------------
(***************************************************************************)
(* A success the job writes is a success of the handler: executions may    *)
(* overlap, the server may go down, the console may do what it likes.      *)
(***************************************************************************)
ResultWasSent ==
    \A e \in Executions :
        (Busy(e) /\ exec[e].result = SUCCESS) => sent[exec[e].at] > 0

SentInv == TypeInv /\ ResultWasSent

LEMMA NextSentInv ==
    ASSUME SentInv, [Next]_vars
    PROVE  SentInv'
<1> USE NoneAssumption DEF SentInv, ResultWasSent, Busy, history
<1>1. TypeInv /\ TypeInv' /\ TypeOK
  BY NextTypeInv DEF TypeInv
<1>2. ASSUME NEW m \in Messages, Push(m)
      PROVE  SentInv'
  BY <1>1, <1>2 DEF Push
<1>3. ASSUME NEW m \in Messages, Console(m)
      PROVE  SentInv'
  BY <1>1, <1>3 DEF Console, ConsoleAdd, ConsoleEdit, ConsoleRemove
<1>4. ASSUME NEW e \in Executions, Start(e)
      PROVE  SentInv'
  BY <1>1, <1>4 DEF Start, TypeOK
<1>5. ASSUME NEW e \in Executions, NEW m \in Messages, Attempt(e, m)
      PROVE  SentInv'
  <2>1. \A n \in Messages : sent[n] > 0 => sent'[n] > 0
    BY <1>1, <1>5 DEF Attempt, TypeOK
  <2>2. \A d \in Executions \ {e} : exec'[d] = exec[d]
    BY <1>1, <1>5 DEF Attempt, TypeOK
  <2>3. Busy(e)' /\ exec'[e].result = SUCCESS => sent'[exec'[e].at] > 0
    BY <1>1, <1>5 DEF Attempt, TypeOK, Execution, SUCCESS, FAIL
  <2>4. \A d \in Executions : Busy(d) => exec[d].at \in Messages
    BY <1>1 DEF TypeOK, Execution
  <2>. QED BY <1>1, <2>1, <2>2, <2>3, <2>4
<1>6. ASSUME NEW e \in Executions, WriteBack(e)
      PROVE  SentInv'
  <2>1. sent' = sent /\ exec' = [exec EXCEPT ![e] = Advance(e, exec[e])]
    BY <1>6 DEF WriteBack
  <2>2. Advance(e, exec[e]) # None => Advance(e, exec[e]).at = None
    BY <1>1, <1>6 DEF Advance, TypeOK, Execution
  <2>. QED BY <1>1, <2>1, <2>2 DEF TypeOK
<1>7. CASE Crash
  BY <1>1, <1>7 DEF Crash, TypeOK
<1>8. CASE UNCHANGED vars
  BY <1>1, <1>8 DEF vars
<1>. QED
  BY <1>2, <1>3, <1>4, <1>5, <1>6, <1>7, <1>8 DEF Next, Job

\* Only a write-back changes both a row and an execution.
LEMMA NextSuccessWasSent ==
    ASSUME SentInv, [Next]_vars, NEW m \in Present,
           exec' # exec, table'[m] # table[m], table'[m].status = SUCCESS
    PROVE  sent[m] > 0
<1>1. ASSUME NEW n \in Messages, Push(n) \/ Console(n)
      PROVE  FALSE
  BY <1>1 DEF Push, Console, ConsoleAdd, ConsoleEdit, ConsoleRemove
<1>2. ASSUME NEW e \in Executions, Start(e) \/ \E n \in Messages : Attempt(e, n)
      PROVE  FALSE
  BY <1>2 DEF Start, Attempt
<1>3. ASSUME Crash \/ UNCHANGED vars
      PROVE  FALSE
  BY <1>3 DEF Crash, vars
<1>4. PICK e \in Executions : WriteBack(e)
  BY <1>1, <1>2, <1>3 DEF Next, Job
<1>5. m = exec[e].at /\ exec[e].result = SUCCESS
  BY <1>4 DEF WriteBack, SentInv, TypeInv, TypeOK, Present
<1>. QED BY <1>4, <1>5 DEF WriteBack, SentInv, ResultWasSent, Busy

\* The job never writes a success that no call of the handler had, however
\* executions overlap and crash (SendMsgJob.execute writes back the result of
\* the attempt it made itself).
THEOREM SuccessWasSentCorrect == Spec => SuccessWasSent
<1>1. Init => SentInv
  BY InitTypeInv DEF Init, SentInv, ResultWasSent, Busy
<1>2. SentInv /\ [Next]_vars => SentInv'
  BY NextSentInv
<1>3. SentInv /\ [Next]_vars =>
        [\A m \in Present :
           (exec' # exec /\ table'[m] # table[m] /\ table'[m].status = SUCCESS)
             => sent[m] > 0]_vars
  BY NextSuccessWasSent
<1>. QED BY <1>1, <1>2, <1>3, PTL DEF Spec, SuccessWasSent

-----------------------------------------------------------------------------
(***************************************************************************)
(* Executions that overlap, for a message the console neither added nor    *)
(* edited.  While no handling of it has failed its row is as it was pushed *)
(* or a success.  Until it is a success, the hand-overs since the last     *)
(* crash are of executions that are still to write theirs back; an         *)
(* execution that is yet to try the message has not handed it over.        *)
(***************************************************************************)
Trying(m) == {e \in Executions : exec[e] # None /\ m \in exec[e].todo}
Tried(m) == {e \in Executions : exec[e] # None /\ exec[e].at = m}
Unfailing(m) == m \notin touched /\ attempts[m] = sent[m]

\* An execution tries a message once, and all it holds has a count.
CopiesCounted ==
    /\ \A m \in Present \ touched : table[m].num # None
    /\ \A e \in Executions : exec[e] # None =>
          /\ exec[e].at \notin exec[e].todo
          /\ \A m \in Messages \ touched :
                exec[e].copy[m] # None => exec[e].copy[m].num # None

UnfailingRows ==
    /\ \A m \in Messages : sent[m] <= attempts[m]
    /\ \A m \in Present : Unfailing(m) => table[m].status \in {WAIT, SUCCESS}
    /\ \A e \in Executions : (Busy(e) /\ Unfailing(exec[e].at))
                                => exec[e].result = SUCCESS

\* The bound of one message, by the crashes and the executions holding it.
HandOversFit(m) ==
    Unfailing(m) =>
        /\ (m \in Present /\ table[m].status # SUCCESS)
              => sent[m] <= Cardinality(Executions) * crashes
                              + Cardinality(Tried(m))
        /\ sent[m] + Cardinality(Trying(m))
              <= Cardinality(Executions) * (1 + crashes)

OverlapInv ==
    /\ TypeInv
    /\ CopiesCounted
    /\ UnfailingRows
    /\ \A m \in Messages : HandOversFit(m)

LEMMA Counts ==
    /\ Cardinality(Executions) \in Nat
    /\ \A c \in Nat : /\ Cardinality(Executions) * c \in Nat
                      /\ Cardinality(Executions) * (1 + c)
                            = Cardinality(Executions) * c + Cardinality(Executions)
<1>1. Cardinality(Executions) \in Nat
  BY ExecutionsAssumption, FS_CardinalityType
<1>2. ASSUME NEW n \in Nat, NEW c \in Nat
      PROVE  n * c \in Nat /\ n * (1 + c) = n * c + n
  BY SMT
<1>. QED BY <1>1, <1>2

LEMMA DisjointCount ==
    ASSUME NEW A \in SUBSET Executions, NEW B \in SUBSET Executions,
           A \cap B = {}
    PROVE  /\ IsFiniteSet(A) /\ IsFiniteSet(B)
           /\ Cardinality(A) \in Nat /\ Cardinality(B) \in Nat
           /\ Cardinality(A) + Cardinality(B) <= Cardinality(Executions)
<1>1. IsFiniteSet(A) /\ IsFiniteSet(B)
  BY ExecutionsAssumption, FS_Subset
<1>2. Cardinality(A \cup B) <= Cardinality(Executions)
  <2>1. A \cup B \in SUBSET Executions
    OBVIOUS
  <2>. QED BY <2>1, ExecutionsAssumption, FS_Subset
<1>3. Cardinality(A \cap B) = 0
  BY FS_EmptySet
<1>4. Cardinality(A \cup B) = Cardinality(A) + Cardinality(B) - 0
  BY <1>1, <1>3, FS_Union
<1>5. Cardinality(A) \in Nat /\ Cardinality(B) \in Nat
  BY <1>1, FS_CardinalityType
<1>. QED BY <1>1, <1>2, <1>4, <1>5

\* An execution either is to try a message or has tried it.
LEMMA HoldersCount ==
    ASSUME CopiesCounted, NEW m \in Messages
    PROVE  /\ IsFiniteSet(Trying(m)) /\ IsFiniteSet(Tried(m))
           /\ Cardinality(Trying(m)) \in Nat /\ Cardinality(Tried(m)) \in Nat
           /\ Cardinality(Trying(m)) + Cardinality(Tried(m))
                 <= Cardinality(Executions)
<1>1. /\ Trying(m) \in SUBSET Executions /\ Tried(m) \in SUBSET Executions
      /\ Trying(m) \cap Tried(m) = {}
  BY DEF Trying, Tried, CopiesCounted
<1>. QED BY <1>1, DisjointCount

LEMMA StartOverlap ==
    ASSUME OverlapInv, NEW e \in Executions, Start(e)
    PROVE  OverlapInv'
<1> USE NoneAssumption DEF history
<1>1. TypeInv /\ TypeOK /\ TypeInv'
  BY NextTypeInv DEF OverlapInv, TypeInv, Next, Job
<1>2. /\ exec[e] = None /\ \A d \in Executions \ {e} : exec'[d] = exec[d]
      /\ exec'[e] = [copy |-> table, todo |-> {m \in Present : Eligible(table[m])},
                     at |-> None, result |-> FAIL]
      /\ exec'[e] # None
      /\ UNCHANGED <<table, crashes, attempts, sent, touched>>
  <2>1. [copy |-> table, todo |-> {m \in Present : Eligible(table[m])},
         at |-> None, result |-> FAIL] \in Execution
    BY <1>1 DEF TypeOK, Execution, Present
  <2>. QED BY <1>1, <2>1 DEF Start, TypeOK
<1>3. CopiesCounted'
  BY <1>1, <1>2 DEF OverlapInv, CopiesCounted, Present
<1>4. UnfailingRows'
  BY <1>1, <1>2 DEF OverlapInv, UnfailingRows, Unfailing, Busy, Present
<1>5. ASSUME NEW m \in Messages
      PROVE  HandOversFit(m)'
  <2>1. Tried(m)' = Tried(m)
    BY <1>2 DEF Tried
  <2>2. CASE m \in Present /\ Eligible(table[m])
    <3>. SUFFICES ASSUME Unfailing(m)
                  PROVE  HandOversFit(m)'
      BY <1>2 DEF HandOversFit, Unfailing
    <3>1. table[m].status # SUCCESS
      BY <2>2 DEF Eligible, WAIT, SUCCESS, FAIL
    <3>2. sent[m] <= Cardinality(Executions) * crashes + Cardinality(Tried(m))
      BY <2>2, <3>1 DEF OverlapInv, HandOversFit
    <3>3. /\ Cardinality(Trying(m)') \in Nat /\ Cardinality(Tried(m)) \in Nat
          /\ Cardinality(Trying(m)') + Cardinality(Tried(m))
                <= Cardinality(Executions)
      <4>1. /\ Trying(m)' \in SUBSET Executions /\ Tried(m) \in SUBSET Executions
            /\ Trying(m)' \cap Tried(m) = {}
        BY <1>3, <2>1 DEF Trying, Tried, CopiesCounted
      <4>. QED BY <4>1, DisjointCount
    <3>4. crashes \in Nat /\ sent[m] \in Nat
      BY <1>1, BoundsAssumption DEF TypeOK
    <3>5. sent[m] + Cardinality(Trying(m)')
            <= Cardinality(Executions) * (1 + crashes)
      <4>1. /\ Cardinality(Executions) \in Nat
            /\ Cardinality(Executions) * crashes \in Nat
            /\ Cardinality(Executions) * (1 + crashes)
                 = Cardinality(Executions) * crashes + Cardinality(Executions)
        BY <3>4, Counts
      <4>. QED BY <3>2, <3>3, <3>4, <4>1
    <3>. QED BY <1>2, <2>1, <3>2, <3>5 DEF HandOversFit
  <2>3. CASE ~(m \in Present /\ Eligible(table[m]))
    <3>1. Trying(m)' = Trying(m)
      BY <1>2, <2>3 DEF Trying
    <3>. QED BY <1>2, <2>1, <3>1 DEF OverlapInv, HandOversFit, Unfailing, Present
  <2>. QED BY <2>2, <2>3
<1>. QED BY <1>1, <1>3, <1>4, <1>5 DEF OverlapInv

LEMMA AttemptOverlap ==
    ASSUME OverlapInv, NEW e \in Executions, NEW m \in Messages, Attempt(e, m),
           exec[e].copy[m].num # None
    PROVE  OverlapInv'
<1> USE NoneAssumption
<1>1. TypeInv /\ TypeOK /\ TypeInv'
  BY NextTypeInv DEF OverlapInv, TypeInv, Next, Job
<1>2. /\ exec[e] # None /\ exec[e] \in Execution /\ exec[e].at = None
      /\ m \in exec[e].todo /\ exec[e].copy[m].num # None
  BY <1>1 DEF Attempt, TypeOK
<1>3. PICK ok \in BOOLEAN :
        /\ sent' = IF ok THEN [sent EXCEPT ![m] = @ + 1] ELSE sent
        /\ exec' = [exec EXCEPT ![e].todo = @ \ {m}, ![e].at = m,
                                ![e].result = IF ok THEN SUCCESS ELSE FAIL]
  BY <1>2 DEF Attempt
<1>4. /\ attempts' = [attempts EXCEPT ![m] = @ + 1]
      /\ UNCHANGED <<table, crashes, touched>>
  BY DEF Attempt
<1>5. /\ \A d \in Executions \ {e} : exec'[d] = exec[d]
      /\ exec'[e] # None /\ exec'[e].todo = exec[e].todo \ {m}
      /\ exec'[e].at = m /\ exec'[e].copy = exec[e].copy
      /\ exec'[e].result = IF ok THEN SUCCESS ELSE FAIL
  <2>. DEFINE y == [exec[e] EXCEPT !.todo = @ \ {m}, !.at = m,
                                   !.result = IF ok THEN SUCCESS ELSE FAIL]
  <2>1. exec' = [exec EXCEPT ![e] = y]
    BY <1>1, <1>3 DEF TypeOK
  <2>2. y \in Execution /\ y.todo = exec[e].todo \ {m} /\ y.at = m
        /\ y.copy = exec[e].copy /\ y.result = IF ok THEN SUCCESS ELSE FAIL
    BY <1>2 DEF Execution
  <2>. QED BY <1>1, <2>1, <2>2 DEF TypeOK
<1>6. CopiesCounted'
  BY <1>2, <1>4, <1>5 DEF OverlapInv, CopiesCounted, Present
<1>7. /\ \A n \in Messages \ {m} : attempts'[n] = attempts[n] /\ sent'[n] = sent[n]
      /\ attempts'[m] = attempts[m] + 1
      /\ sent'[m] = IF ok THEN sent[m] + 1 ELSE sent[m]
      /\ attempts[m] \in Nat /\ sent[m] \in Nat /\ sent[m] <= attempts[m]
  BY <1>1, <1>3, <1>4 DEF TypeOK, OverlapInv, UnfailingRows
<1>8. Unfailing(m)' => ok /\ Unfailing(m)
  BY <1>4, <1>7 DEF Unfailing
<1>9. UnfailingRows'
  <2>1. \A n \in Messages : sent'[n] <= attempts'[n]
    BY <1>7 DEF OverlapInv, UnfailingRows
  <2>2. \A n \in Present' : Unfailing(n)' => table'[n].status \in {WAIT, SUCCESS}
    BY <1>4, <1>7, <1>8 DEF OverlapInv, UnfailingRows, Unfailing, Present
  <2>3. ASSUME NEW d \in Executions, Busy(d)', Unfailing(exec[d].at)'
        PROVE  exec'[d].result = SUCCESS
    <3>1. CASE d = e
      BY <1>5, <1>8, <2>3, <3>1 DEF Unfailing
    <3>2. CASE d # e
      <4>1. exec[d].at \in Messages
        BY <1>1, <1>5, <2>3, <3>2 DEF TypeOK, Execution, Busy
      <4>2. Unfailing(exec[d].at)
        BY <1>4, <1>5, <1>7, <1>8, <2>3, <3>2, <4>1 DEF Unfailing
      <4>. QED BY <1>5, <2>3, <3>2, <4>2 DEF OverlapInv, UnfailingRows, Busy
    <3>. QED BY <3>1, <3>2
  <2>. QED BY <2>1, <2>2, <2>3 DEF UnfailingRows
<1>10. ASSUME NEW n \in Messages \ {m}
       PROVE  HandOversFit(n)'
  <2>1. Trying(n)' = Trying(n) /\ Tried(n)' = Tried(n)
    BY <1>2, <1>5 DEF Trying, Tried
  <2>2. HandOversFit(n)
    BY DEF OverlapInv
  <2>3. n \in Messages /\ attempts'[n] = attempts[n] /\ sent'[n] = sent[n]
    BY <1>7
  <2>. QED BY <1>4, <2>1, <2>2, <2>3 DEF HandOversFit, Unfailing, Present
<1>11. HandOversFit(m)'
  <2>. SUFFICES ASSUME ok, Unfailing(m)
                PROVE  HandOversFit(m)'
    BY <1>8 DEF HandOversFit
  <2>1. /\ IsFiniteSet(Trying(m)) /\ IsFiniteSet(Tried(m))
        /\ Cardinality(Trying(m)) \in Nat /\ Cardinality(Tried(m)) \in Nat
    BY HoldersCount DEF OverlapInv
  <2>2. Trying(m)' = Trying(m) \ {e} /\ e \in Trying(m)
    BY <1>2, <1>5 DEF Trying
  <2>3. Tried(m)' = Tried(m) \cup {e} /\ e \notin Tried(m)
    BY <1>2, <1>5 DEF Tried
  <2>4. Cardinality(Trying(m)') = Cardinality(Trying(m)) - 1
    BY <2>1, <2>2, FS_RemoveElement
  <2>5. Cardinality(Tried(m)') = Cardinality(Tried(m)) + 1
    BY <2>1, <2>3, FS_AddElement
  <2>6. HandOversFit(m) /\ sent'[m] = sent[m] + 1
    BY <1>7 DEF OverlapInv
  <2>7. /\ Cardinality(Executions) \in Nat /\ crashes \in Nat
        /\ Cardinality(Executions) * crashes \in Nat
        /\ Cardinality(Executions) * (1 + crashes) \in Nat
    <3>1. crashes \in Nat
      BY <1>1, BoundsAssumption DEF TypeOK
    <3>2. /\ Cardinality(Executions) \in Nat
          /\ Cardinality(Executions) * crashes \in Nat
          /\ Cardinality(Executions) * (1 + crashes)
               = Cardinality(Executions) * crashes + Cardinality(Executions)
      BY <3>1, Counts
    <3>. QED BY <3>1, <3>2
  <2>8. sent[m] + 1 + (Cardinality(Trying(m)) - 1)
          <= Cardinality(Executions) * (1 + crashes)
    BY <1>7, <2>1, <2>6, <2>7 DEF HandOversFit
  <2>9. (m \in Present /\ table[m].status # SUCCESS)
          => sent[m] + 1 <= Cardinality(Executions) * crashes
                              + (Cardinality(Tried(m)) + 1)
    BY <1>7, <2>1, <2>6, <2>7 DEF HandOversFit
  <2>. QED BY <1>4, <2>4, <2>5, <2>6, <2>8, <2>9 DEF HandOversFit, Present
<1>. QED BY <1>1, <1>6, <1>9, <1>10, <1>11 DEF OverlapInv

\* An execution that meets a null count is gone; the message is one the console
\* touched, and no other was handed over.
LEMMA AttemptUncounted ==
    ASSUME OverlapInv, NEW e \in Executions, NEW m \in Messages, Attempt(e, m),
           exec[e].copy[m].num = None
    PROVE  OverlapInv'
<1> USE NoneAssumption
<1>1. TypeInv /\ TypeOK /\ TypeInv'
  BY NextTypeInv DEF OverlapInv, TypeInv, Next, Job
<1>2. /\ exec[e] # None /\ exec[e].at = None /\ m \in exec[e].todo
      /\ exec' = [exec EXCEPT ![e] = None]
      /\ attempts' = [attempts EXCEPT ![m] = @ + 1]
      /\ sent' \in {sent, [sent EXCEPT ![m] = @ + 1]}
      /\ UNCHANGED <<table, crashes, touched>>
  BY DEF Attempt
<1>3. m \in touched
  BY <1>1, <1>2 DEF OverlapInv, CopiesCounted, TypeInv, TodoCopied
<1>4. /\ \A n \in Messages \ {m} : attempts'[n] = attempts[n] /\ sent'[n] = sent[n]
      /\ sent'[m] <= attempts'[m]
      /\ exec'[e] = None /\ \A d \in Executions \ {e} : exec'[d] = exec[d]
  BY <1>1, <1>2 DEF TypeOK, OverlapInv, UnfailingRows
<1>5. CopiesCounted'
  BY <1>2, <1>4 DEF OverlapInv, CopiesCounted, Present
<1>6. UnfailingRows'
  <2>1. \A n \in Messages : Unfailing(n)' => Unfailing(n)
    BY <1>2, <1>3, <1>4 DEF Unfailing
  <2>2. \A d \in Executions : Busy(d) => exec[d].at \in Messages
    BY <1>1 DEF TypeOK, Execution, Busy
  <2>. QED
    BY <1>2, <1>4, <2>1, <2>2 DEF OverlapInv, UnfailingRows, Busy, Present
<1>7. ASSUME NEW n \in Messages
      PROVE  HandOversFit(n)'
  <2>. SUFFICES ASSUME Unfailing(n)'
                PROVE  HandOversFit(n)'
    BY DEF HandOversFit
  <2>1. n # m /\ Unfailing(n) /\ HandOversFit(n) /\ sent'[n] = sent[n]
    BY <1>2, <1>3, <1>4 DEF Unfailing, OverlapInv
  <2>2. Tried(n)' = Tried(n) /\ Trying(n)' \subseteq Trying(n)
    BY <1>2, <1>4 DEF Tried, Trying
  <2>3. IsFiniteSet(Trying(n)) /\ Cardinality(Trying(n)) \in Nat
    BY HoldersCount DEF OverlapInv
  <2>4. /\ Cardinality(Trying(n)') \in Nat
        /\ Cardinality(Trying(n)') <= Cardinality(Trying(n))
    BY <2>2, <2>3, FS_Subset, FS_CardinalityType
  <2>5. sent[n] \in Nat /\ Cardinality(Executions) * (1 + crashes) \in Nat
    <3>1. crashes \in Nat /\ sent[n] \in Nat
      BY <1>1, BoundsAssumption DEF TypeOK
    <3>2. /\ Cardinality(Executions) \in Nat
          /\ Cardinality(Executions) * crashes \in Nat
          /\ Cardinality(Executions) * (1 + crashes)
               = Cardinality(Executions) * crashes + Cardinality(Executions)
      BY <3>1, Counts
    <3>. QED BY <3>1, <3>2
  <2>6. sent[n] + Cardinality(Trying(n)')
          <= Cardinality(Executions) * (1 + crashes)
    BY <2>1, <2>3, <2>4, <2>5 DEF HandOversFit
  <2>. QED BY <1>2, <2>1, <2>2, <2>6 DEF HandOversFit, Present
<1>. QED BY <1>1, <1>5, <1>6, <1>7 DEF OverlapInv

\* What the console adds or edits leaves the bound; what it removes has no row.
LEMMA ConsoleOverlap ==
    ASSUME OverlapInv, NEW m \in Messages, Console(m)
    PROVE  OverlapInv'
<1> USE NoneAssumption DEF history
<1>1. TypeInv /\ TypeOK /\ TypeInv'
  BY NextTypeInv DEF OverlapInv, TypeInv, Next
<1>2. /\ UNCHANGED <<exec, crashes, attempts, sent>>
      /\ \A n \in Messages \ {m} : table'[n] = table[n]
      /\ \/ touched' = touched \union {m}
         \/ touched' = touched /\ table'[m] = None
  BY <1>1 DEF Console, ConsoleAdd, ConsoleEdit, ConsoleRemove, TypeOK
<1>3. CopiesCounted' /\ UnfailingRows'
  BY <1>2 DEF OverlapInv, CopiesCounted, UnfailingRows, Unfailing, Busy, Present
<1>4. ASSUME NEW n \in Messages
      PROVE  HandOversFit(n)'
  <2>1. Trying(n)' = Trying(n) /\ Tried(n)' = Tried(n) /\ HandOversFit(n)
    BY <1>2 DEF Trying, Tried, OverlapInv
  <2>2. Unfailing(n)' => Unfailing(n) /\ (n \in Present' => table'[n] = table[n])
    BY <1>2 DEF Unfailing, Present
  <2>. QED BY <1>2, <2>1, <2>2 DEF HandOversFit, Present
<1>. QED BY <1>1, <1>3, <1>4 DEF OverlapInv

LEMMA WriteBackOverlap ==
    ASSUME OverlapInv, NEW e \in Executions, WriteBack(e)
    PROVE  OverlapInv'
<1> USE NoneAssumption DEF history
<1>. DEFINE m == exec[e].at
            row == [status |-> exec[e].result, num |-> exec[e].copy[m].num + 1]
<1>1. TypeInv /\ TypeOK /\ TypeInv'
  BY NextTypeInv DEF OverlapInv, TypeInv, Next, Job
<1>2. /\ exec[e] # None /\ m # None /\ exec[e] \in Execution /\ m \in Messages
      /\ exec[e].copy[m].num \in Nat
  BY <1>1 DEF WriteBack, TypeOK, TypeInv, AtCounted, Busy, Execution, Row
<1>3. /\ table' = IF table[m] = None THEN table ELSE [table EXCEPT ![m] = row]
      /\ exec' = [exec EXCEPT ![e] = Advance(e, exec[e])]
      /\ UNCHANGED <<crashes, attempts, sent, touched>>
  BY DEF WriteBack
<1>4. /\ \A d \in Executions \ {e} : exec'[d] = exec[d]
      /\ exec'[e] # None => /\ exec'[e].at = None
                            /\ exec'[e].todo = exec[e].todo
                            /\ exec'[e].copy = exec[e].copy
      /\ exec'[e] = None => exec[e].todo = {}
  <2>1. exec'[e] = Advance(e, exec[e])
    BY <1>1, <1>3 DEF TypeOK
  <2>2. /\ [exec[e] EXCEPT !.at = None] \in Execution
        /\ [exec[e] EXCEPT !.at = None].at = None
        /\ [exec[e] EXCEPT !.at = None].todo = exec[e].todo
        /\ [exec[e] EXCEPT !.at = None].copy = exec[e].copy
    BY <1>2 DEF Execution
  <2>. QED BY <1>1, <1>3, <2>1, <2>2 DEF TypeOK, Advance
<1>5. /\ Present' = Present
      /\ \A n \in Messages \ {m} : table'[n] = table[n]
      /\ m \in Present => table'[m] = row
  <2>1. row \in Row
    BY <1>2 DEF Row, Execution
  <2>. HIDE DEF row, m
  <2>2. row # None
    BY <2>1
  <2>. QED BY <1>1, <1>2, <1>3, <2>2 DEF Present, TypeOK
<1>6. row.num # None /\ row.status = exec[e].result
  BY <1>2
<1>7. CopiesCounted'
  <2>1. \A n \in (Present \ touched)' : table'[n].num # None
    BY <1>3, <1>5, <1>6 DEF OverlapInv, CopiesCounted, Present
  <2>2. None \notin Messages
    OBVIOUS
  <2>3. \A d \in Executions : exec'[d] # None =>
          /\ exec'[d].at \notin exec'[d].todo
          /\ \A n \in Messages \ touched' :
                exec'[d].copy[n] # None => exec'[d].copy[n].num # None
    BY <1>2, <1>3, <1>4, <2>2 DEF OverlapInv, CopiesCounted, Execution
  <2>. QED BY <2>1, <2>3 DEF CopiesCounted
<1>8. Unfailing(m) => exec[e].result = SUCCESS
  BY <1>2 DEF OverlapInv, UnfailingRows, Busy
<1>9. UnfailingRows'
  BY <1>3, <1>4, <1>5, <1>6, <1>8
  DEF OverlapInv, UnfailingRows, Unfailing, Busy, Present
<1>10. ASSUME NEW n \in Messages
       PROVE  HandOversFit(n)'
  <2>1. Trying(n)' = Trying(n)
    BY <1>2, <1>4 DEF Trying
  <2>2. HandOversFit(n)
    BY DEF OverlapInv
  <2>3. CASE n = m
    BY <1>3, <1>5, <1>6, <1>8, <2>1, <2>2, <2>3 DEF HandOversFit, Unfailing
  <2>4. CASE n # m
    <3>1. Tried(n)' = Tried(n)
      BY <1>4, <2>4 DEF Tried
    <3>. QED BY <1>3, <1>5, <2>1, <2>2, <2>4, <3>1 DEF HandOversFit, Unfailing
  <2>. QED BY <2>3, <2>4
<1>. QED BY <1>1, <1>7, <1>9, <1>10 DEF OverlapInv

LEMMA CrashOverlap ==
    ASSUME OverlapInv, Crash
    PROVE  OverlapInv'
<1> USE NoneAssumption DEF history
<1>1. TypeInv /\ TypeOK /\ TypeInv'
  BY NextTypeInv DEF OverlapInv, TypeInv, Next
<1>2. /\ \A e \in Executions : exec'[e] = None
      /\ crashes \in Nat /\ crashes' = crashes + 1
      /\ UNCHANGED <<table, attempts, sent, touched>>
  BY <1>1, BoundsAssumption DEF Crash, TypeOK
<1>3. CopiesCounted' /\ UnfailingRows'
  BY <1>2 DEF OverlapInv, CopiesCounted, UnfailingRows, Unfailing, Busy, Present
<1>4. ASSUME NEW m \in Messages
      PROVE  HandOversFit(m)'
  <2>1. Trying(m)' = {} /\ Tried(m)' = {}
    BY <1>2 DEF Trying, Tried
  <2>2. Cardinality(Trying(m)') = 0 /\ Cardinality(Tried(m)') = 0
    BY <2>1, FS_EmptySet
  <2>3. /\ Cardinality(Trying(m)) \in Nat /\ Cardinality(Tried(m)) \in Nat
        /\ Cardinality(Trying(m)) + Cardinality(Tried(m))
              <= Cardinality(Executions)
    BY HoldersCount DEF OverlapInv
  <2>. DEFINE N == Cardinality(Executions)
  <2>4. /\ N \in Nat /\ N * crashes \in Nat
        /\ N * (1 + crashes) = N * crashes + N
        /\ N * crashes' = N * crashes + N
        /\ N * (1 + crashes') = N * crashes + N + N
    <3>1. /\ N \in Nat
          /\ \A c \in Nat : N * c \in Nat /\ N * (1 + c) = N * c + N
      BY Counts
    <3>2. N * crashes \in Nat /\ N * (1 + crashes) = N * crashes + N
      BY <1>2, <3>1
    <3>3. N * (1 + (1 + crashes)) = N * (1 + crashes) + N
      BY <1>2, <3>1
    <3>4. crashes' = 1 + crashes
      BY <1>2
    <3>. QED BY <3>1, <3>2, <3>3, <3>4
  <2>5. HandOversFit(m) /\ sent[m] \in Nat
    BY <1>1 DEF OverlapInv, TypeOK
  <2>. HIDE DEF N
  <2>. SUFFICES ASSUME Unfailing(m)
                PROVE  /\ (m \in Present /\ table[m].status # SUCCESS)
                             => sent[m] <= N * crashes' + 0
                       /\ sent[m] + 0 <= N * (1 + crashes')
    BY <1>2, <2>2 DEF HandOversFit, Unfailing, Present, N
  <2>6. (m \in Present /\ table[m].status # SUCCESS)
           => sent[m] <= N * crashes + Cardinality(Tried(m))
    BY <2>5 DEF HandOversFit, N
  <2>7. sent[m] + Cardinality(Trying(m)) <= N * (1 + crashes)
    BY <2>5 DEF HandOversFit, N
  <2>8. Cardinality(Tried(m)) <= N
    BY <2>3, <2>4 DEF N
  <2>9. (m \in Present /\ table[m].status # SUCCESS)
           => sent[m] <= N * crashes' + 0
    BY <2>3, <2>4, <2>5, <2>6, <2>8
  <2>10. sent[m] + 0 <= N * (1 + crashes')
    BY <2>3, <2>4, <2>5, <2>7
  <2>. QED BY <2>9, <2>10
<1>. QED BY <1>1, <1>3, <1>4 DEF OverlapInv

LEMMA NextOverlap ==
    ASSUME OverlapInv, [Next]_vars
    PROVE  OverlapInv'
<1>1. TypeInv /\ TypeOK /\ TypeInv'
  BY NextTypeInv DEF OverlapInv, TypeInv
<1>2. ASSUME NEW m \in Messages, Push(m)
      PROVE  OverlapInv'
  <2> USE NoneAssumption DEF history
  <2>1. /\ table' = [table EXCEPT ![m] = [status |-> WAIT, num |-> 0]]
        /\ UNCHANGED <<exec, crashes, attempts, sent, touched>>
        /\ attempts[m] = 0
    BY <1>2 DEF Push, Fresh
  <2>2. /\ \A n \in Messages \ {m} : table'[n] = table[n]
        /\ table'[m] = [status |-> WAIT, num |-> 0]
        /\ Present' \ {m} = Present \ {m}
    BY <1>1, <2>1 DEF TypeOK, Present
  <2>3. CopiesCounted' /\ UnfailingRows'
    BY <2>1, <2>2
    DEF OverlapInv, CopiesCounted, UnfailingRows, Unfailing, Busy, Present
  <2>4. \A n \in Messages : Trying(n)' = Trying(n) /\ Tried(n)' = Tried(n)
    BY <2>1 DEF Trying, Tried
  <2>5. \A n \in Messages \ {m} : HandOversFit(n)'
    BY <2>1, <2>2, <2>4 DEF OverlapInv, HandOversFit, Unfailing, Present
  <2>6. HandOversFit(m)'
    <3>1. sent[m] = 0
      BY <1>1, <2>1 DEF OverlapInv, UnfailingRows, TypeOK
    <3>2. Cardinality(Tried(m)) \in Nat
      BY HoldersCount DEF OverlapInv
    <3>3. Cardinality(Executions) * crashes \in Nat
      <4>1. crashes \in Nat
        BY <1>1, BoundsAssumption DEF TypeOK
      <4>. QED BY <4>1, Counts
    <3>4. 0 <= Cardinality(Executions) * crashes + Cardinality(Tried(m))
      BY <3>2, <3>3
    <3>5. HandOversFit(m)
      BY DEF OverlapInv
    <3>. QED BY <2>1, <2>4, <3>1, <3>4, <3>5 DEF HandOversFit, Unfailing
  <2>. QED BY <1>1, <2>3, <2>5, <2>6 DEF OverlapInv
<1>3. ASSUME NEW m \in Messages, Console(m)
      PROVE  OverlapInv'
  BY <1>3, ConsoleOverlap
<1>4. ASSUME UNCHANGED vars
      PROVE  OverlapInv'
  <2>1. /\ CopiesCounted' /\ UnfailingRows'
        /\ \A m \in Messages : Trying(m)' = Trying(m) /\ Tried(m)' = Tried(m)
    BY <1>4 DEF vars, OverlapInv, CopiesCounted, UnfailingRows, Unfailing, Busy,
                Present, Trying, Tried
  <2>2. \A m \in Messages : HandOversFit(m)'
    BY <1>4, <2>1 DEF vars, OverlapInv, HandOversFit, Unfailing, Present
  <2>. QED BY <1>1, <2>1, <2>2 DEF OverlapInv
<1>. QED
  BY <1>2, <1>3, <1>4, StartOverlap, AttemptOverlap, AttemptUncounted,
     WriteBackOverlap, CrashOverlap
  DEF Next, Job

\* However many executions overlap, and whatever the console does to others: a
\* message that was pushed, that the console never edits and whose handler never
\* fails is handed over at most once by each execution, and once more by each
\* after every crash (SendMsgJob.execute: the list is read once, the rows are
\* written back one by one).
THEOREM HandOversBoundedCorrect == Spec => []HandOversBounded
<1>1. Init => OverlapInv
  <2>. SUFFICES ASSUME Init PROVE OverlapInv
    OBVIOUS
  <2>1. TypeInv /\ CopiesCounted /\ UnfailingRows
    BY InitTypeInv, NoneAssumption
    DEF Init, CopiesCounted, UnfailingRows, Busy, Present
  <2>2. ASSUME NEW m \in Messages
        PROVE  HandOversFit(m)
    <3>1. sent[m] = 0 /\ crashes = 0 /\ m \notin Present
      BY DEF Init, Present
    <3>2. Trying(m) = {}
      BY DEF Init, Trying
    <3>3. Cardinality(Trying(m)) = 0
      BY <3>2, FS_EmptySet
    <3>4. 0 <= Cardinality(Executions) * (1 + 0)
      BY Counts
    <3>. QED BY <3>1, <3>3, <3>4 DEF HandOversFit
  <2>. QED BY <2>1, <2>2 DEF OverlapInv
<1>2. OverlapInv /\ [Next]_vars => OverlapInv'
  BY NextOverlap
<1>3. OverlapInv => HandOversBounded
  <2>. SUFFICES ASSUME OverlapInv, NEW m \in Messages, Unfailing(m)
                PROVE  sent[m] <= Cardinality(Executions) * (1 + crashes)
    BY DEF HandOversBounded, Unfailing
  <2>1. Cardinality(Trying(m)) \in Nat /\ sent[m] \in Nat /\ crashes \in Nat
    BY HoldersCount, BoundsAssumption DEF OverlapInv, TypeInv, TypeOK
  <2>2. sent[m] + Cardinality(Trying(m))
          <= Cardinality(Executions) * (1 + crashes)
    BY DEF OverlapInv, HandOversFit
  <2>3. Cardinality(Executions) * (1 + crashes) \in Nat
    <3>1. 1 + crashes \in Nat
      BY <2>1
    <3>. QED BY <3>1, Counts
  <2>. QED BY <2>1, <2>2, <2>3
<1>. QED BY <1>1, <1>2, <1>3, PTL DEF Spec

-----------------------------------------------------------------------------
(***************************************************************************)
(* One execution at a time.  While it holds a message nobody else touches  *)
(* the row, so the row is the execution's copy: what the copy's count says *)
(* bounds the attempts so far, and a row with a success is never held.     *)
(***************************************************************************)
Serial == (\A d, e \in Executions : d = e) /\ ConsoleOps = {}

HeldBy(e) == IF exec[e] = None THEN {}
             ELSE exec[e].todo \union ({exec[e].at} \ {None})
At(m) == \E e \in Executions : exec[e] # None /\ exec[e].at = m

\* A row is WAIT only as it was pushed, and its count stays within the limit.
RowsCounted ==
    \A m \in Present : /\ table[m].num \in 0 .. RetryLimit
                       /\ table[m].status = WAIT => table[m].num = 0

\* What an execution holds is as it is in the table, and may be tried.
HeldIsCurrent ==
    \A e \in Executions : exec[e] # None =>
        /\ exec[e].at \notin exec[e].todo
        /\ \A m \in HeldBy(e) : /\ table[m] # None
                                /\ table[m] = exec[e].copy[m]
                                /\ table[m].num < RetryLimit
                                /\ table[m].status # SUCCESS

\* The count of a row lags behind the attempts by the crashes, and by the one
\* attempt whose result is still to be written.
CountLags ==
    \A m \in Present :
        attempts[m] <= table[m].num + crashes + IF At(m) THEN 1 ELSE 0

\* A message that is not yet a success was handed over only when a crash kept
\* it from being written, or just now.
SentLags ==
    /\ \A m \in Messages : sent[m] <= attempts[m]
    /\ \A m \in Present :
          (table[m].status # SUCCESS /\ ~At(m)) => sent[m] <= crashes
    /\ \A e \in Executions : Busy(e) =>
          sent[exec[e].at] <= crashes + IF exec[e].result = SUCCESS THEN 1 ELSE 0

SerialInv ==
    /\ TypeInv
    /\ RowsCounted
    /\ HeldIsCurrent
    /\ CountLags
    /\ SentLags
    /\ AttemptsBounded
    /\ HandedOverOnce

LEMMA PushSerial ==
    ASSUME Serial, SerialInv, NEW m \in Messages, Push(m)
    PROVE  SerialInv'
<1> USE NoneAssumption, RetryLimitAssumption DEF SerialInv, TypeInv, history
<1>1. TypeInv'
  BY NextTypeInv DEF Next
<1>2. /\ table' = [table EXCEPT ![m] = [status |-> WAIT, num |-> 0]]
      /\ exec' = exec /\ crashes' = crashes /\ crashes \in Nat
      /\ attempts' = attempts /\ sent' = sent
      /\ attempts[m] = 0 /\ sent[m] = 0 /\ table[m] = None
  BY BoundsAssumption DEF Push, Fresh, TypeOK, SentLags
<1>3. \A e \in Executions : m \notin HeldBy(e)
  BY <1>2 DEF HeldIsCurrent, HeldBy
<1>4. ~At(m)
  BY <1>3 DEF At, HeldBy, TypeOK
<1>5. RowsCounted'
  BY <1>2 DEF RowsCounted, Present, TypeOK
<1>6. HeldIsCurrent'
  BY <1>2, <1>3 DEF HeldIsCurrent, HeldBy, TypeOK
<1>7. CountLags'
  BY <1>2, <1>4 DEF CountLags, Present, At, TypeOK
<1>8. SentLags'
  BY <1>2, <1>4 DEF SentLags, Present, At, Busy, TypeOK
<1>. QED
  BY <1>1, <1>2, <1>5, <1>6, <1>7, <1>8 DEF AttemptsBounded, HandedOverOnce

LEMMA StartSerial ==
    ASSUME Serial, SerialInv, NEW e \in Executions, Start(e)
    PROVE  SerialInv'
<1> USE NoneAssumption, RetryLimitAssumption DEF SerialInv, TypeInv, history
<1>1. TypeInv'
  BY NextTypeInv DEF Next, Job
<1>2. PICK list \in SUBSET Present :
        /\ list = {m \in Present : Eligible(table[m])}
        /\ exec' = [exec EXCEPT ![e] = [copy |-> table, todo |-> list,
                                        at |-> None, result |-> FAIL]]
  BY DEF Start
<1>3. /\ exec[e] = None
      /\ table' = table /\ crashes' = crashes
      /\ attempts' = attempts /\ sent' = sent
  BY DEF Start
<1>4. \A m \in list : /\ table[m].num < RetryLimit
                      /\ table[m].status # SUCCESS
  <2>1. ASSUME NEW m \in list
        PROVE  /\ table[m].num < RetryLimit
               /\ table[m].status # SUCCESS
    <3>1. /\ Eligible(table[m]) /\ table[m].num \in 0 .. RetryLimit
          /\ table[m].status = WAIT => table[m].num = 0
      BY <1>2, <2>1 DEF RowsCounted
    <3>. QED BY <3>1 DEF Eligible, WAIT, SUCCESS, FAIL
  <2>. QED BY <2>1
<1>5. HeldBy(e)' = list /\ exec'[e] # None /\ exec'[e].copy = table
      /\ exec'[e].at = None /\ exec'[e].todo = list
  <2>. DEFINE y == [copy |-> table, todo |-> list, at |-> None, result |-> FAIL]
  <2>1. exec'[e] = y
    BY <1>2 DEF TypeOK
  <2>2. y \in Execution
    BY DEF Execution, TypeOK, Present
  <2>3. y # None /\ y.copy = table /\ y.at = None /\ y.todo = list
    BY <2>2
  <2>. QED BY <2>1, <2>3 DEF HeldBy
<1>6. None \notin list
  BY DEF Present
<1>7. HeldIsCurrent'
  BY <1>3, <1>4, <1>5, <1>6 DEF HeldIsCurrent, Present, Serial
<1>8. \A m \in Messages : ~At(m) /\ ~At(m)'
  BY <1>3, <1>5 DEF At, Serial
<1>9. RowsCounted' /\ CountLags' /\ SentLags'
  <2>1. RowsCounted' /\ CountLags'
    BY <1>3, <1>8 DEF RowsCounted, CountLags, Present
  <2>2. SentLags'
    BY <1>3, <1>5, <1>8 DEF SentLags, Present, Busy, Serial
  <2>. QED BY <2>1, <2>2
<1>. QED
  BY <1>1, <1>3, <1>7, <1>9 DEF AttemptsBounded, HandedOverOnce

LEMMA AttemptSerial ==
    ASSUME Serial, SerialInv, NEW e \in Executions, NEW m \in Messages,
           Attempt(e, m)
    PROVE  SerialInv'
<1> USE NoneAssumption, RetryLimitAssumption DEF SerialInv, TypeInv, history
<1>. DEFINE x == exec[e]
<1>1. TypeInv'
  BY NextTypeInv DEF Next, Job
<1>2. /\ x \in Execution /\ x # None /\ x.at = None /\ m \in x.todo
      /\ m \in HeldBy(e) /\ m \in Present /\ table[m] = x.copy[m]
      /\ table[m].num \in 0 .. RetryLimit /\ table[m].num < RetryLimit
      /\ table[m].status # SUCCESS /\ x.copy[m].num # None
  <2>1. x \in Execution /\ x # None /\ x.at = None /\ m \in x.todo
    BY DEF Attempt, TypeOK
  <2>2. m \in HeldBy(e)
    BY <2>1 DEF HeldBy
  <2>3. /\ table[m] # None /\ table[m] = x.copy[m]
        /\ table[m].num < RetryLimit /\ table[m].status # SUCCESS
    BY <2>1, <2>2 DEF HeldIsCurrent
  <2>4. m \in Present /\ table[m].num \in 0 .. RetryLimit
    BY <2>3 DEF Present, RowsCounted
  <2>. QED BY <2>1, <2>2, <2>3, <2>4
<1>3. /\ table' = table /\ crashes' = crashes /\ crashes \in Nat
      /\ attempts' = [attempts EXCEPT ![m] = @ + 1]
  BY BoundsAssumption DEF Attempt, TypeOK
<1>4. PICK ok \in BOOLEAN :
        /\ sent' = IF ok THEN [sent EXCEPT ![m] = @ + 1] ELSE sent
        /\ exec' = [exec EXCEPT ![e].todo = @ \ {m}, ![e].at = m,
                                ![e].result = IF ok THEN SUCCESS ELSE FAIL]
  BY <1>2 DEF Attempt
<1>5. /\ exec'[e] # None /\ exec'[e].at = m /\ exec'[e].copy = x.copy
      /\ exec'[e].todo = x.todo \ {m}
      /\ exec'[e].result = IF ok THEN SUCCESS ELSE FAIL
  <2>. DEFINE y == [x EXCEPT !.todo = @ \ {m}, !.at = m,
                             !.result = IF ok THEN SUCCESS ELSE FAIL]
  <2>1. exec'[e] = y
    BY <1>4 DEF TypeOK
  <2>2. y \in Execution /\ y.at = m /\ y.copy = x.copy /\ y.todo = x.todo \ {m}
        /\ y.result = IF ok THEN SUCCESS ELSE FAIL
    BY <1>2 DEF Execution
  <2>. QED BY <2>1, <2>2
<1>6. HeldBy(e)' \subseteq HeldBy(e)
  BY <1>2, <1>5 DEF HeldBy
<1>7. HeldIsCurrent'
  BY <1>2, <1>3, <1>5, <1>6 DEF HeldIsCurrent, Serial
<1>8. /\ \A n \in Messages : ~At(n)
      /\ \A n \in Messages : At(n)' <=> n = m
  BY <1>2, <1>5 DEF At, Serial
<1>9. attempts[m] <= table[m].num + crashes /\ sent[m] <= crashes
  BY <1>2, <1>3, <1>8 DEF CountLags, SentLags, TypeOK
<1>10. CountLags'
  BY <1>2, <1>3, <1>8, <1>9 DEF CountLags, Present, TypeOK, Row
<1>11. SentLags'
  <2>1. \A n \in Messages : sent'[n] <= attempts'[n]
    BY <1>3, <1>4 DEF SentLags, TypeOK
  <2>2. \A n \in Present' :
           (table'[n].status # SUCCESS /\ ~At(n)') => sent'[n] <= crashes'
    BY <1>3, <1>4, <1>8 DEF SentLags, Present, TypeOK
  <2>3. sent'[m] <= crashes + IF ok THEN 1 ELSE 0
    BY <1>3, <1>4, <1>9 DEF TypeOK
  <2>4. sent'[m] <= crashes' + IF exec'[e].result = SUCCESS THEN 1 ELSE 0
    BY <1>3, <1>5, <2>3 DEF SUCCESS, FAIL
  <2>. QED BY <1>5, <2>1, <2>2, <2>4 DEF SentLags, Busy, Serial
<1>12. AttemptsBounded'
  BY <1>2, <1>3, <1>9 DEF AttemptsBounded, TypeOK
<1>13. HandedOverOnce'
  BY <1>3, <1>4, <1>9 DEF HandedOverOnce, TypeOK
<1>. QED
  BY <1>1, <1>3, <1>7, <1>10, <1>11, <1>12, <1>13 DEF RowsCounted, Present

LEMMA WriteBackSerial ==
    ASSUME Serial, SerialInv, NEW e \in Executions, WriteBack(e)
    PROVE  SerialInv'
<1> USE NoneAssumption, RetryLimitAssumption DEF SerialInv, TypeInv, history
<1>. DEFINE x == exec[e]
            m == x.at
            row == [status |-> x.result, num |-> x.copy[m].num + 1]
<1>1. TypeInv'
  BY NextTypeInv DEF Next, Job
<1>2. /\ x \in Execution /\ x # None /\ m # None /\ m \in Messages
      /\ m \notin x.todo
  BY DEF WriteBack, TypeOK, Execution, HeldIsCurrent
<1>3. /\ table[m] # None /\ table[m] = x.copy[m]
      /\ table[m].num < RetryLimit /\ table[m].num \in 0 .. RetryLimit
  <2>1. m \in HeldBy(e)
    BY <1>2 DEF HeldBy
  <2>. QED
    BY <1>2, <2>1 DEF HeldIsCurrent, RowsCounted, Present
<1>4. /\ table' = [table EXCEPT ![m] = row]
      /\ crashes' = crashes /\ crashes \in Nat
      /\ attempts' = attempts /\ sent' = sent
  BY <1>3, BoundsAssumption DEF WriteBack, TypeOK
<1>5. row # None /\ row.num \in 0 .. RetryLimit /\ row.num = table[m].num + 1
      /\ row.status = x.result /\ row.status # WAIT
  BY <1>2, <1>3 DEF Execution, Row, WAIT, SUCCESS, FAIL
<1>6. /\ exec'[e] # None => exec'[e].at = None
      /\ exec'[e] # None => exec'[e].todo = x.todo /\ exec'[e].copy = x.copy
  <2>1. exec'[e] = Advance(e, x)
    BY DEF WriteBack, TypeOK
  <2>2. x.todo # {} => Advance(e, x) = [x EXCEPT !.at = None]
    BY DEF Advance
  <2>3. [x EXCEPT !.at = None].at = None
        /\ [x EXCEPT !.at = None].todo = x.todo
        /\ [x EXCEPT !.at = None].copy = x.copy
    BY <1>2 DEF Execution
  <2>. QED BY <2>1, <2>2, <2>3 DEF Advance
<1>7. RowsCounted'
  BY <1>4, <1>5 DEF RowsCounted, Present, TypeOK
<1>8. HeldIsCurrent'
  <2>1. ASSUME exec'[e] # None
        PROVE  HeldBy(e)' = x.todo
    BY <1>6, <2>1 DEF HeldBy
  <2>2. ASSUME NEW n \in x.todo
        PROVE  /\ table'[n] # None /\ table'[n] = x.copy[n]
               /\ table'[n].num < RetryLimit /\ table'[n].status # SUCCESS
    <3>1. n \in HeldBy(e) /\ n # m
      BY <1>2, <2>2 DEF HeldBy
    <3>2. table'[n] = table[n]
      BY <1>4, <3>1
    <3>. QED BY <1>2, <3>1, <3>2 DEF HeldIsCurrent
  <2>3. None \notin x.todo
    BY <1>2 DEF Execution
  <2>. QED BY <1>6, <2>1, <2>2, <2>3 DEF HeldIsCurrent, Serial
<1>9. /\ \A n \in Messages : ~At(n)'
      /\ \A n \in Messages : At(n) <=> n = m
  BY <1>2, <1>6 DEF At, Serial
<1>10. CountLags'
  <2>1. ASSUME NEW n \in Present'
        PROVE  attempts[n] <= table'[n].num + crashes
    <3>1. CASE n = m
      <4>1. attempts[m] <= table[m].num + crashes + 1
        BY <1>2, <1>3, <1>9 DEF CountLags, Present
      <4>2. table'[m].num = table[m].num + 1
        BY <1>2, <1>4, <1>5 DEF TypeOK
      <4>. QED BY <1>3, <1>4, <3>1, <4>1, <4>2 DEF TypeOK
    <3>2. CASE n # m
      <4>1. table'[n] = table[n] /\ n \in Present /\ ~At(n)
        BY <1>4, <1>9, <3>2 DEF Present
      <4>2. table[n].num \in Nat /\ attempts[n] \in Nat
        BY <4>1 DEF RowsCounted, Present, TypeOK
      <4>. QED BY <1>4, <4>1, <4>2 DEF CountLags
    <3>. QED BY <3>1, <3>2
  <2>2. \A n \in Present' : table'[n].num \in Nat
    BY <1>7 DEF RowsCounted
  <2>. QED BY <1>4, <1>9, <2>1, <2>2 DEF CountLags, Present
<1>11. SentLags'
  <2>1. ASSUME NEW n \in Present', table'[n].status # SUCCESS
        PROVE  sent[n] <= crashes
    <3>1. CASE n = m
      <4>1. x.result # SUCCESS
        BY <1>2, <1>4, <1>5, <2>1, <3>1 DEF TypeOK
      <4>2. Busy(e) /\ sent[m] \in Nat
        BY <1>2 DEF Busy, TypeOK
      <4>. QED BY <1>4, <3>1, <4>1, <4>2 DEF SentLags
    <3>2. CASE n # m
      BY <1>4, <1>9, <2>1, <3>2 DEF SentLags, Present
    <3>. QED BY <3>1, <3>2
  <2>2. \A d \in Executions : ~Busy(d)'
    BY <1>6 DEF Busy, Serial
  <2>. QED BY <1>4, <2>1, <2>2 DEF SentLags
<1>. QED
  BY <1>1, <1>4, <1>7, <1>8, <1>10, <1>11 DEF AttemptsBounded, HandedOverOnce

LEMMA CrashSerial ==
    ASSUME Serial, SerialInv, Crash
    PROVE  SerialInv'
<1> USE NoneAssumption, RetryLimitAssumption DEF SerialInv, TypeInv, history
<1>1. TypeInv'
  BY NextTypeInv DEF Next
<1>2. /\ table' = table /\ attempts' = attempts /\ sent' = sent
      /\ crashes' = crashes + 1 /\ crashes \in Nat
      /\ \A e \in Executions : exec'[e] = None
  BY BoundsAssumption DEF Crash, TypeOK
<1>3. RowsCounted' /\ HeldIsCurrent'
  BY <1>2 DEF RowsCounted, HeldIsCurrent, Present
<1>4. CountLags'
  <2>1. ASSUME NEW m \in Present
        PROVE  attempts[m] <= table[m].num + crashes + 1
    <3>1. table[m].num \in Nat /\ attempts[m] \in Nat
      BY DEF RowsCounted, Present, TypeOK
    <3>. QED BY <1>2, <3>1 DEF CountLags
  <2>2. \A m \in Present : table[m].num \in Nat /\ ~At(m)'
    BY <1>2 DEF RowsCounted, At
  <2>. QED BY <1>2, <2>1, <2>2 DEF CountLags, Present
<1>5. SentLags'
  <2>1. ASSUME NEW m \in Present, table[m].status # SUCCESS
        PROVE  sent[m] <= crashes + 1
    <3>1. CASE At(m)
      <4>1. PICK e \in Executions : exec[e] # None /\ exec[e].at = m
        BY <3>1 DEF At
      <4>2. Busy(e) /\ sent[m] \in Nat
        BY <4>1 DEF Busy, Present, TypeOK
      <4>. QED BY <1>2, <4>1, <4>2 DEF SentLags
    <3>2. CASE ~At(m)
      <4>1. sent[m] <= crashes /\ sent[m] \in Nat
        BY <2>1, <3>2 DEF SentLags, Present, TypeOK
      <4>. QED BY <1>2, <4>1
    <3>. QED BY <3>1, <3>2
  <2>2. \A e \in Executions : ~Busy(e)'
    BY <1>2 DEF Busy
  <2>. QED BY <1>2, <2>1, <2>2 DEF SentLags, Present
<1>6. AttemptsBounded' /\ HandedOverOnce'
  BY <1>2 DEF AttemptsBounded, HandedOverOnce, TypeOK
<1>. QED
  BY <1>1, <1>3, <1>4, <1>5, <1>6

LEMMA StutterSerial ==
    ASSUME SerialInv, UNCHANGED vars
    PROVE  SerialInv'
BY DEF vars, SerialInv, TypeInv, TypeOK, AtCounted, TodoCopied, Busy, RowsCounted,
       HeldIsCurrent, HeldBy, CountLags, SentLags, At, Present, AttemptsBounded,
       HandedOverOnce

LEMMA NextSerialInv ==
    ASSUME Serial, SerialInv, [Next]_vars
    PROVE  SerialInv'
<1>1. ASSUME NEW m \in Messages
      PROVE  ~Console(m)
  BY DEF Serial, Console, ConsoleAdd, ConsoleEdit, ConsoleRemove
<1>. QED
  BY <1>1, PushSerial, StartSerial, AttemptSerial, WriteBackSerial, CrashSerial,
     StutterSerial DEF Next, Job

LEMMA SerialInvariant ==
    ASSUME Serial
    PROVE  Spec => []SerialInv
<1>1. Init => SerialInv
  <2> SUFFICES ASSUME Init PROVE SerialInv
    OBVIOUS
  <2>1. TypeInv
    BY InitTypeInv
  <2>2. RowsCounted /\ HeldIsCurrent /\ CountLags /\ SentLags
    BY DEF Init, RowsCounted, HeldIsCurrent, CountLags, SentLags, Present, Busy
  <2>3. AttemptsBounded /\ HandedOverOnce
    BY RetryLimitAssumption DEF Init, AttemptsBounded, HandedOverOnce
  <2>. QED BY <2>1, <2>2, <2>3 DEF SerialInv
<1>2. SerialInv /\ [Next]_vars => SerialInv'
  BY NextSerialInv
<1>. QED BY <1>1, <1>2, PTL DEF Spec

\* While no two executions of the job overlap, a message is tried no more than
\* the retry limit allows, and once more for each crash ("es_send_num < 6" in
\* SendMsgJob.execute, for every limit).
THEOREM AttemptsBoundedCorrect ==
    ASSUME Serial
    PROVE  Spec => []AttemptsBounded
<1>1. SerialInv => AttemptsBounded
  BY DEF SerialInv
<1>. QED BY <1>1, SerialInvariant, PTL

\* While no two executions of the job overlap, a message is handed over once,
\* and once more at most for each crash.
THEOREM HandedOverOnceCorrect ==
    ASSUME Serial
    PROVE  Spec => []HandedOverOnce
<1>1. SerialInv => HandedOverOnce
  BY DEF SerialInv
<1>. QED BY <1>1, SerialInvariant, PTL

\* While no two executions of the job overlap, no step turns a success in the
\* table into anything else: the write back of SendMsgJob.execute only meets
\* the row it read.
THEOREM SuccessIsFinalCorrect ==
    ASSUME Serial
    PROVE  Spec => SuccessIsFinal
<1>1. SerialInv /\ [Next]_vars =>
        [\A m \in Present : table[m].status = SUCCESS => table'[m].status = SUCCESS]_vars
  <2> SUFFICES ASSUME SerialInv, [Next]_vars, NEW m \in Present,
                      table[m].status = SUCCESS
               PROVE  table'[m] = table[m]
    OBVIOUS
  <2>1. ASSUME NEW e \in Executions, WriteBack(e)
        PROVE  table'[m] = table[m]
    <3>1. exec[e].at \in HeldBy(e)
      BY <2>1 DEF WriteBack, HeldBy
    <3>2. exec[e].at # m
      BY <2>1, <3>1 DEF WriteBack, SerialInv, HeldIsCurrent
    <3>. QED BY <2>1, <3>2 DEF WriteBack
  <2>2. ASSUME NEW n \in Messages, Push(n) \/ Console(n)
        PROVE  table'[m] = table[m]
    BY <2>2 DEF Push, Fresh, Present, Serial, Console, ConsoleAdd, ConsoleEdit,
                ConsoleRemove, SerialInv, TypeInv, TypeOK
  <2>. QED
    BY <2>1, <2>2 DEF Next, Job, Start, Attempt, Crash, vars
<1>. QED BY <1>1, SerialInvariant, PTL DEF Spec, SuccessIsFinal

-----------------------------------------------------------------------------
(***************************************************************************)
(* A message saved with a null count.  Nobody ever takes a count away from *)
(* a row, so a copy that has one stands for a row that has one.            *)
(***************************************************************************)
CountKept ==
    \A e \in Executions, m \in Messages :
        (/\ exec[e] # None /\ exec[e].copy[m] # None
         /\ exec[e].copy[m].num # None /\ table[m] # None)
            => table[m].num # None

CountInv == TypeInv /\ CountKept

LEMMA NextCountInv ==
    ASSUME CountInv, [Next]_vars
    PROVE  CountInv'
<1> USE NoneAssumption DEF CountInv, CountKept, history
<1>1. TypeInv /\ TypeInv' /\ TypeOK
  BY NextTypeInv DEF TypeInv
<1>2. ASSUME NEW m \in Messages, Push(m)
      PROVE  CountKept'
  BY <1>1, <1>2 DEF Push, Fresh, TypeOK
<1>3. ASSUME NEW m \in Messages, Console(m)
      PROVE  CountKept'
  <2>1. exec' = exec /\ \A n \in Messages : n # m => table'[n] = table[n]
    BY <1>1, <1>3 DEF Console, ConsoleAdd, ConsoleEdit, ConsoleRemove, TypeOK
  <2>2. CASE ConsoleAdd(m)
    BY <1>1, <2>1, <2>2 DEF ConsoleAdd, Fresh
  <2>3. CASE ConsoleEdit(m)
    <3>1. table[m] # None /\ table'[m].num \in {0, table[m].num}
      BY <1>1, <2>3 DEF ConsoleEdit, TypeOK
    <3>. QED BY <1>1, <2>1, <3>1
  <2>4. CASE ConsoleRemove(m)
    <3>1. table'[m] = None
      BY <1>1, <2>4 DEF ConsoleRemove, TypeOK
    <3>. QED BY <1>1, <2>1, <3>1
  <2>. QED BY <1>3, <2>2, <2>3, <2>4 DEF Console
<1>4. ASSUME NEW e \in Executions, Start(e)
      PROVE  CountKept'
  <2>1. /\ table' = table /\ exec'[e].copy = table
        /\ \A d \in Executions \ {e} : exec'[d] = exec[d]
    BY <1>1, <1>4 DEF Start, TypeOK
  <2>. QED BY <2>1
<1>5. ASSUME NEW e \in Executions, NEW m \in Messages, Attempt(e, m)
      PROVE  CountKept'
  <2>1. /\ table' = table
        /\ \A d \in Executions \ {e} : exec'[d] = exec[d]
        /\ exec'[e] # None => exec'[e].copy = exec[e].copy
    BY <1>1, <1>5 DEF Attempt, TypeOK, Execution
  <2>2. exec[e] # None
    BY <1>5 DEF Attempt
  <2>. QED BY <2>1, <2>2
<1>6. ASSUME NEW e \in Executions, WriteBack(e)
      PROVE  CountKept'
  <2>1. /\ exec[e] # None /\ exec[e].at \in Messages /\ exec[e] \in Execution
        /\ exec[e].copy[exec[e].at].num \in Nat
    BY <1>1, <1>6 DEF WriteBack, TypeInv, TypeOK, AtCounted, Busy, Execution, Row
  <2>2. exec[e].copy[exec[e].at].num + 1 # None
    BY <2>1
  <2>3. \A m \in Messages :
           \/ table'[m] = table[m]
           \/ table'[m].num = exec[e].copy[exec[e].at].num + 1
    BY <1>1, <1>6, <2>1 DEF WriteBack, TypeOK
  <2>4. exec'[e] # None => exec'[e].copy = exec[e].copy
    <3>1. exec'[e] = Advance(e, exec[e])
      BY <1>1, <1>6 DEF WriteBack, TypeOK
    <3>. QED BY <2>1, <3>1 DEF Advance, Execution
  <2>5. \A d \in Executions \ {e} : exec'[d] = exec[d]
    BY <1>1, <1>6 DEF WriteBack, TypeOK
  <2>. QED BY <2>1, <2>2, <2>3, <2>4, <2>5
<1>7. CASE Crash
  BY <1>1, <1>7 DEF Crash
<1>8. CASE UNCHANGED vars
  BY <1>1, <1>8 DEF vars
<1>. QED
  BY <1>1, <1>2, <1>3, <1>4, <1>5, <1>6, <1>7, <1>8 DEF Next, Job

\* However executions overlap and crash and whatever the console does, the job
\* never writes to a message whose count is null: the increment in
\* SendMsgJob.execute ends the execution before its update.
THEOREM UncountedNeverMovesCorrect == Spec => UncountedNeverMoves
<1>1. Init => CountInv
  BY InitTypeInv DEF Init, CountInv, CountKept
<1>2. CountInv /\ [Next]_vars => CountInv'
  BY NextCountInv
<1>3. CountInv /\ [Next]_vars =>
        [\A m \in Present :
           (table[m].num = None /\ exec' # exec) => table'[m] = table[m]]_vars
  <2>. SUFFICES ASSUME CountInv, [Next]_vars, NEW m \in Present,
                       table[m].num = None, exec' # exec
                PROVE  table'[m] = table[m]
    OBVIOUS
  <2>1. ASSUME NEW e \in Executions, WriteBack(e)
        PROVE  table'[m] = table[m]
    <3>1. /\ exec[e] # None /\ exec[e].at # None
          /\ exec[e].copy[exec[e].at] # None
          /\ exec[e].copy[exec[e].at].num # None
      BY <2>1 DEF WriteBack, CountInv, TypeInv, AtCounted, Busy
    <3>2. exec[e].at # m
      BY <3>1 DEF CountInv, CountKept, Present
    <3>. QED BY <2>1, <3>2 DEF WriteBack, CountInv, TypeInv, TypeOK, Present
  <2>2. ASSUME NEW n \in Messages, Push(n) \/ Console(n)
        PROVE  FALSE
    BY <2>2 DEF Push, Console, ConsoleAdd, ConsoleEdit, ConsoleRemove
  <2>. QED BY <2>1, <2>2 DEF Next, Job, Start, Attempt, Crash, vars
<1>. QED BY <1>1, <1>2, <1>3, PTL DEF Spec, UncountedNeverMoves

-----------------------------------------------------------------------------
(***************************************************************************)
(* The outbox.  The count of a row that is no success are the tries that   *)
(* failed, except those whose count a crash lost, so a message is not      *)
(* given up before it has failed as often as that.                         *)
(***************************************************************************)
Failing(m) == \E e \in Executions : /\ exec[e] # None /\ exec[e].at = m
                                    /\ exec[e].result = FAIL

FailuresCounted ==
    \A m \in Present : table[m].status # SUCCESS =>
        table[m].num + (IF Failing(m) THEN 1 ELSE 0) <= attempts[m] - sent[m]

OutboxInv == SerialInv /\ FailuresCounted

\* What an attempt finds and leaves while no two executions overlap.
LEMMA AttemptShape ==
    ASSUME Serial, SerialInv, NEW e \in Executions, NEW m \in Messages,
           Attempt(e, m)
    PROVE  /\ exec[e] # None /\ exec[e].at = None /\ m \in Present
           /\ table[m].num \in Nat /\ table[m].num < RetryLimit
           /\ table[m].status # SUCCESS
           /\ UNCHANGED <<table, crashes>>
           /\ attempts' = [attempts EXCEPT ![m] = @ + 1]
           /\ exec'[e] # None /\ exec'[e].at = m
           /\ \/ /\ exec'[e].result = SUCCESS
                 /\ sent' = [sent EXCEPT ![m] = @ + 1]
              \/ exec'[e].result = FAIL /\ sent' = sent
<1> USE NoneAssumption DEF SerialInv, TypeInv
<1>1. exec[e] \in Execution /\ exec[e] # None /\ exec[e].at = None
  BY DEF Attempt, TypeOK
<1>2. m \in HeldBy(e)
  BY DEF Attempt, HeldBy
<1>3. /\ table[m] # None /\ table[m] = exec[e].copy[m]
      /\ table[m].num < RetryLimit /\ table[m].status # SUCCESS
  BY <1>1, <1>2 DEF HeldIsCurrent
<1>4. m \in Present /\ table[m].num \in Nat
  BY <1>3 DEF Present, RowsCounted
<1>5. PICK ok \in BOOLEAN :
        /\ sent' = IF ok THEN [sent EXCEPT ![m] = @ + 1] ELSE sent
        /\ exec' = [exec EXCEPT ![e].todo = @ \ {m}, ![e].at = m,
                                ![e].result = IF ok THEN SUCCESS ELSE FAIL]
  <2>1. exec[e].copy[m].num # None
    BY <1>3, <1>4
  <2>. QED BY <2>1 DEF Attempt
<1>6. exec'[e] # None /\ exec'[e].at = m
      /\ exec'[e].result = IF ok THEN SUCCESS ELSE FAIL
  <2>. DEFINE y == [exec[e] EXCEPT !.todo = @ \ {m}, !.at = m,
                                   !.result = IF ok THEN SUCCESS ELSE FAIL]
  <2>1. exec'[e] = y
    BY <1>5 DEF TypeOK
  <2>2. y \in Execution /\ y.at = m /\ y.result = IF ok THEN SUCCESS ELSE FAIL
    BY <1>1 DEF Execution
  <2>. QED BY <2>1, <2>2
<1>7. UNCHANGED <<table, crashes>> /\ attempts' = [attempts EXCEPT ![m] = @ + 1]
  BY DEF Attempt
<1>. QED BY <1>1, <1>3, <1>4, <1>5, <1>6, <1>7

\* The same of a write back.
LEMMA WriteBackShape ==
    ASSUME Serial, SerialInv, NEW e \in Executions, WriteBack(e)
    PROVE  /\ exec[e] # None /\ exec[e].at \in Present /\ exec[e].at # None
           /\ exec[e].result \in {SUCCESS, FAIL}
           /\ table[exec[e].at].num \in Nat /\ table[exec[e].at].num < RetryLimit
           /\ table[exec[e].at].status \in {WAIT, FAIL}
           /\ table' = [table EXCEPT ![exec[e].at] =
                          [status |-> exec[e].result, num |-> table[exec[e].at].num + 1]]
           /\ exec'[e] = None \/ exec'[e].at = None
           /\ UNCHANGED <<crashes, attempts, sent>>
<1> USE NoneAssumption DEF SerialInv, TypeInv
<1>1. /\ exec[e] \in Execution /\ exec[e] # None /\ exec[e].at # None
      /\ exec[e].at \in Messages /\ exec[e].result \in {SUCCESS, FAIL}
  BY DEF WriteBack, TypeOK, Execution
<1>2. exec[e].at \in HeldBy(e)
  BY <1>1 DEF HeldBy
<1>3. /\ table[exec[e].at] # None
      /\ table[exec[e].at] = exec[e].copy[exec[e].at]
      /\ table[exec[e].at].num < RetryLimit
      /\ table[exec[e].at].status # SUCCESS
  BY <1>1, <1>2 DEF HeldIsCurrent
<1>4. exec[e].at \in Present /\ table[exec[e].at].num \in Nat
  BY <1>1, <1>3 DEF Present, RowsCounted
<1>5. table[exec[e].at] \in Row
  BY <1>1, <1>3 DEF TypeOK
<1>6. exec'[e] = None \/ exec'[e].at = None
  <2>1. exec'[e] = Advance(e, exec[e])
    BY DEF WriteBack, TypeOK
  <2>. QED BY <1>1, <2>1 DEF Advance, Execution
<1>7. /\ UNCHANGED <<crashes, attempts, sent>>
      /\ table' = [table EXCEPT ![exec[e].at] =
                     [status |-> exec[e].result, num |-> table[exec[e].at].num + 1]]
  BY <1>3 DEF WriteBack, history
<1>8. table[exec[e].at].status \in {WAIT, FAIL}
  BY <1>3, <1>5 DEF Row
<1>. QED BY <1>1, <1>3, <1>4, <1>6, <1>7, <1>8

LEMMA NextFailuresCounted ==
    ASSUME Serial, OutboxInv, [Next]_vars
    PROVE  FailuresCounted'
<1>1. /\ TypeOK /\ table \in [Messages -> Row \union {None}]
      /\ attempts \in [Messages -> Nat] /\ sent \in [Messages -> Nat]
      /\ \A m \in Messages : sent[m] <= attempts[m]
      /\ \A m \in Present : table[m].num \in Nat
  BY DEF OutboxInv, SerialInv, TypeInv, TypeOK, SentLags, RowsCounted
<1>2. \A m \in Present : table[m].status # SUCCESS =>
         /\ table[m].num <= attempts[m] - sent[m]
         /\ Failing(m) => table[m].num + 1 <= attempts[m] - sent[m]
  BY <1>1 DEF OutboxInv, FailuresCounted, Present
<1>3. ASSUME NEW m \in Messages, Push(m)
      PROVE  FailuresCounted'
  <2>1. /\ UNCHANGED <<exec, attempts, sent>> /\ attempts[m] = 0 /\ sent[m] = 0
        /\ table' = [table EXCEPT ![m] = [status |-> WAIT, num |-> 0]]
        /\ table[m] = None
    BY <1>1, <1>3 DEF Push, Fresh, history
  <2>2. \A e \in Executions : exec[e] # None => exec[e].at # m
    BY <2>1, NoneAssumption DEF OutboxInv, SerialInv, HeldIsCurrent, HeldBy
  <2>3. ~Failing(m)' /\ \A n \in Messages : Failing(n)' <=> Failing(n)
    BY <2>1, <2>2 DEF Failing
  <2>. QED BY <1>1, <1>2, <2>1, <2>3 DEF FailuresCounted, Present
<1>4. ASSUME NEW e \in Executions, Start(e)
      PROVE  FailuresCounted'
  <2>1. /\ UNCHANGED <<table, attempts, sent>> /\ exec'[e].at = None
    BY <1>1, <1>4 DEF Start, history, TypeOK
  <2>2. \A n \in Messages : ~Failing(n)'
    BY <2>1, NoneAssumption DEF Failing, Serial
  <2>. QED BY <1>1, <1>2, <2>1, <2>2 DEF FailuresCounted, Present
<1>5. ASSUME NEW e \in Executions, NEW m \in Messages, Attempt(e, m)
      PROVE  FailuresCounted'
  <2>1. /\ UNCHANGED table /\ attempts' = [attempts EXCEPT ![m] = @ + 1]
        /\ exec'[e].at = m /\ m \in Present
        /\ \/ exec'[e].result = SUCCESS /\ sent' = [sent EXCEPT ![m] = @ + 1]
           \/ exec'[e].result = FAIL /\ sent' = sent
    BY <1>5, AttemptShape DEF OutboxInv
  <2>2. \A n \in Messages : n # m => ~Failing(n)'
    BY <2>1 DEF Failing, Serial
  <2>3. \A n \in Messages : n # m => attempts'[n] = attempts[n] /\ sent'[n] = sent[n]
    BY <1>1, <2>1
  <2>4. CASE exec'[e].result = SUCCESS /\ sent' = [sent EXCEPT ![m] = @ + 1]
    <3>1. ~Failing(m)'
      BY <2>4 DEF Failing, Serial, SUCCESS, FAIL
    <3>2. attempts'[m] - sent'[m] = attempts[m] - sent[m]
      BY <1>1, <2>1, <2>4
    <3>. QED BY <1>1, <1>2, <2>1, <2>2, <2>3, <3>1, <3>2 DEF FailuresCounted, Present
  <2>5. CASE sent' = sent
    <3>1. attempts'[m] - sent'[m] = attempts[m] - sent[m] + 1
      BY <1>1, <2>1, <2>5
    <3>2. table[m].status # SUCCESS => table[m].num + 1 <= attempts'[m] - sent'[m]
      BY <1>1, <1>2, <2>1, <3>1
    <3>. QED BY <1>1, <1>2, <2>1, <2>2, <2>3, <3>1, <3>2 DEF FailuresCounted, Present
  <2>. QED BY <2>1, <2>4, <2>5
<1>6. ASSUME NEW e \in Executions, WriteBack(e)
      PROVE  FailuresCounted'
  <2>1. PICK m \in Present : m = exec[e].at
    BY <1>6, WriteBackShape DEF OutboxInv
  <2>2. /\ UNCHANGED <<attempts, sent>>
        /\ table' = [table EXCEPT ![m] = [status |-> exec[e].result,
                                          num |-> table[m].num + 1]]
        /\ table[m].status # SUCCESS /\ exec[e].result \in {SUCCESS, FAIL}
        /\ exec[e] # None /\ (exec'[e] = None \/ exec'[e].at = None)
    BY <1>6, <2>1, WriteBackShape DEF OutboxInv, WAIT, SUCCESS, FAIL
  <2>3. \A n \in Messages : ~Failing(n)'
    BY <2>2, NoneAssumption DEF Failing, Serial
  <2>4. exec[e].result = FAIL => Failing(m)
    BY <2>1, <2>2 DEF Failing
  <2>5. ASSUME NEW n \in Present', table'[n].status # SUCCESS
        PROVE  table'[n].num <= attempts[n] - sent[n]
    <3>1. CASE n = m
      <4>1. table'[m].status = exec[e].result /\ table'[m].num = table[m].num + 1
        BY <1>1, <2>2 DEF Present
      <4>. QED BY <1>2, <2>2, <2>4, <2>5, <3>1, <4>1
    <3>2. CASE n # m
      BY <1>1, <1>2, <2>2, <2>5, <3>2 DEF Present
    <3>. QED BY <3>1, <3>2
  <2>6. \A n \in Present' : table'[n].num \in Nat
    BY <1>1, <2>2 DEF Present
  <2>. QED BY <1>1, <2>2, <2>3, <2>5, <2>6 DEF FailuresCounted, Present
<1>7. CASE Crash
  <2>1. UNCHANGED <<table, attempts, sent>> /\ \A n \in Messages : ~Failing(n)'
    BY <1>7 DEF Crash, history, Failing
  <2>. QED BY <1>1, <1>2, <2>1 DEF FailuresCounted, Present
<1>8. CASE UNCHANGED vars
  BY <1>8 DEF vars, OutboxInv, FailuresCounted, Present, Failing
<1>9. ASSUME NEW m \in Messages
      PROVE  ~Console(m)
  BY DEF Serial, Console, ConsoleAdd, ConsoleEdit, ConsoleRemove
<1>. QED BY <1>3, <1>4, <1>5, <1>6, <1>7, <1>8, <1>9 DEF OutboxInv, Next, Job

LEMMA StandingOfRow ==
    ASSUME NEW row \in Row \union {None}
    PROVE  /\ row = None => Standing(row) = "new"
           /\ row # None /\ Eligible(row) => Standing(row) = "waiting"
           /\ row # None /\ row.status = SUCCESS => Standing(row) = "sent"
           /\ row # None /\ ~Eligible(row) /\ row.status # SUCCESS
                 => Standing(row) = "given up"
BY DEF Standing, Eligible, WAIT, SUCCESS, FAIL

LEMMA UnrecordedIs ==
    ASSUME Serial, NEW e \in Executions
    PROVE  /\ e \in HandedOver => Unrecorded = exec[e].at
           /\ e \notin HandedOver => Unrecorded = None
<1>1. HandedOver = {} \/ HandedOver = {e}
  BY DEF Serial, HandedOver
<1>. QED BY <1>1 DEF Unrecorded

LEMMA UnrecordedNext ==
    ASSUME Serial, NEW e \in Executions
    PROVE  /\ e \in HandedOver' => Unrecorded' = exec'[e].at
           /\ e \notin HandedOver' => Unrecorded' = None
<1>1. HandedOver' = {} \/ HandedOver' = {e}
  BY DEF Serial, HandedOver
<1>. QED BY <1>1 DEF Unrecorded

\* While no two executions overlap and nobody edits the table, it behaves like
\* the outbox: whatever the order of the attempts and wherever a crash comes, a
\* message is given up only when it failed RetryLimit times, and tried again
\* only if the record of the last try is a failure or lost (SendMsgJob.execute).
THEOREM ImplementsOutboxCorrect ==
    ASSUME Serial
    PROVE  Spec => ImplementsOutbox
<1>. DEFINE box == [m \in Messages |-> Standing(table[m])]
            failed == [m \in Messages |-> attempts[m] - sent[m]]
            abs == <<box, sent, failed, Unrecorded, crashes>>
<1>1. Spec => []SerialInv
  BY SerialInvariant
<1>2. Init => FailuresCounted
  BY DEF Init, FailuresCounted, Present
<1>3. SerialInv /\ FailuresCounted /\ [Next]_vars => FailuresCounted'
  BY NextFailuresCounted DEF OutboxInv
<1>4. Init => Outbox!Init
  <2>. SUFFICES ASSUME Init PROVE Outbox!Init
    OBVIOUS
  <2>1. HandedOver = {}
    BY DEF Init, HandedOver
  <2>2. \A m \in Messages : Standing(table[m]) = "new"
    BY StandingOfRow DEF Init
  <2>. QED BY <2>1, <2>2 DEF Init, Outbox!Init, Unrecorded
<1>5. OutboxInv /\ [Next]_vars => [Outbox!Next]_abs
  <2>. SUFFICES ASSUME OutboxInv, [Next]_vars
                PROVE  Outbox!Next \/ UNCHANGED abs
    OBVIOUS
  <2>1. /\ SerialInv /\ table \in [Messages -> Row \union {None}]
        /\ attempts \in [Messages -> Nat] /\ sent \in [Messages -> Nat]
        /\ crashes \in Nat /\ \A m \in Messages : sent[m] <= attempts[m]
        /\ RetryLimit \in Nat \ {0}
    BY RetryLimitAssumption, BoundsAssumption
       DEF OutboxInv, SerialInv, TypeInv, TypeOK, SentLags
  <2>2. ASSUME UNCHANGED <<table, exec, attempts, sent>>
        PROVE  UNCHANGED <<box, sent, failed, Unrecorded>>
    BY <2>2 DEF Unrecorded, HandedOver
  <2>3. ASSUME NEW m \in Messages, Push(m)
        PROVE  Outbox!Accept(m)
    <3>1. /\ UNCHANGED <<exec, crashes, attempts, sent>>
          /\ table' = [table EXCEPT ![m] = [status |-> WAIT, num |-> 0]]
          /\ table[m] = None /\ attempts[m] = 0
      BY <2>3 DEF Push, Fresh, history
    <3>2. PICK r \in Row : r = [status |-> WAIT, num |-> 0]
      BY DEF Row
    <3>3. Standing(r) = "waiting" /\ Standing(table[m]) = "new"
      <4>1. r # None /\ Eligible(r)
        BY <3>2, NoneAssumption DEF Eligible
      <4>. QED BY <2>1, <3>1, <4>1, StandingOfRow
    <3>4. box' = [box EXCEPT ![m] = "waiting"]
      BY <2>1, <3>1, <3>2, <3>3
    <3>5. Unrecorded' = Unrecorded
      BY <3>1 DEF Unrecorded, HandedOver
    <3>6. sent[m] = 0 /\ attempts[m] - sent[m] = 0
      BY <2>1, <3>1
    <3>. QED BY <3>1, <3>3, <3>4, <3>5, <3>6 DEF Outbox!Accept
  <2>4. ASSUME NEW e \in Executions, Start(e)
        PROVE  UNCHANGED abs
    <3>1. UNCHANGED <<table, crashes, attempts, sent>>
      BY <2>4 DEF Start, history
    <3>2. exec[e] = None /\ exec'[e].at = None
      BY <2>1, <2>4 DEF Start, SerialInv, TypeInv, TypeOK
    <3>3. Unrecorded = None /\ Unrecorded' = None
      BY <3>2, UnrecordedIs, UnrecordedNext DEF HandedOver
    <3>. QED BY <3>1, <3>3
  <2>5. ASSUME NEW e \in Executions, NEW m \in Messages, Attempt(e, m)
        PROVE  Outbox!HandOver(m) \/ Outbox!Fail(m)
    <3>1. /\ exec[e] # None /\ exec[e].at = None /\ m \in Present
          /\ table[m].num \in Nat /\ table[m].num < RetryLimit
          /\ table[m].status # SUCCESS /\ UNCHANGED <<table, crashes>>
          /\ attempts' = [attempts EXCEPT ![m] = @ + 1]
          /\ exec'[e] # None /\ exec'[e].at = m
          /\ \/ /\ exec'[e].result = SUCCESS
                /\ sent' = [sent EXCEPT ![m] = @ + 1]
             \/ exec'[e].result = FAIL /\ sent' = sent
      BY <2>1, <2>5, AttemptShape
    <3>2. Unrecorded = None /\ ~At(m)
      BY <3>1, NoneAssumption, UnrecordedIs DEF HandedOver, At, Serial, Present
    <3>3. Standing(table[m]) = "waiting"
      <4>1. table[m] \in Row /\ table[m] # None
        BY <2>1, <3>1 DEF Present
      <4>2. Eligible(table[m])
        BY <3>1, <4>1, NoneAssumption DEF Eligible, Row
      <4>. QED BY <4>1, <4>2, StandingOfRow
    <3>4. attempts[m] < RetryLimit + crashes /\ sent[m] <= crashes
      <4>1. attempts[m] <= table[m].num + crashes /\ sent[m] <= crashes
        BY <2>1, <3>1, <3>2 DEF SerialInv, CountLags, SentLags
      <4>. QED BY <2>1, <3>1, <4>1
    <3>5. Outbox!MayTry(m)
      <4>1. sent[m] + (attempts[m] - sent[m]) = attempts[m]
        BY <2>1
      <4>. QED BY <3>2, <3>3, <3>4, <4>1 DEF Outbox!MayTry
    <3>6. UNCHANGED <<box, crashes>>
      BY <3>1
    <3>7. CASE exec'[e].result = SUCCESS /\ sent' = [sent EXCEPT ![m] = @ + 1]
      <4>1. Unrecorded' = m
        BY <3>1, <3>7, UnrecordedNext, NoneAssumption DEF HandedOver, Present
      <4>2. \A n \in Messages : attempts'[n] - sent'[n] = attempts[n] - sent[n]
        BY <2>1, <3>1, <3>7
      <4>3. failed' = failed
        BY <4>2
      <4>. QED BY <3>4, <3>5, <3>6, <3>7, <4>1, <4>3 DEF Outbox!HandOver
    <3>8. CASE exec'[e].result = FAIL /\ sent' = sent
      <4>1. Unrecorded' = Unrecorded
        BY <3>1, <3>2, <3>8, UnrecordedNext DEF HandedOver, SUCCESS, FAIL
      <4>2. attempts'[m] - sent'[m] = attempts[m] - sent[m] + 1
        BY <2>1, <3>1, <3>8
      <4>3. \A n \in Messages : n # m => attempts'[n] - sent'[n] = attempts[n] - sent[n]
        BY <2>1, <3>1, <3>8
      <4>4. failed' = [failed EXCEPT ![m] = @ + 1]
        BY <4>2, <4>3
      <4>. QED BY <3>5, <3>6, <3>8, <4>1, <4>4 DEF Outbox!Fail
    <3>. QED BY <3>1, <3>7, <3>8
  <2>6. ASSUME NEW e \in Executions, WriteBack(e)
        PROVE  (\E m \in Messages : Outbox!Record(m) \/ Outbox!GiveUp(m))
                  \/ UNCHANGED abs
    <3>1. /\ exec[e] # None /\ exec[e].at \in Present /\ exec[e].at # None
          /\ exec[e].result \in {SUCCESS, FAIL}
          /\ table[exec[e].at].num \in Nat /\ table[exec[e].at].num < RetryLimit
          /\ table[exec[e].at].status \in {WAIT, FAIL}
          /\ table' = [table EXCEPT ![exec[e].at] =
                [status |-> exec[e].result, num |-> table[exec[e].at].num + 1]]
          /\ exec'[e] = None \/ exec'[e].at = None
          /\ UNCHANGED <<crashes, attempts, sent>>
      BY <2>1, <2>6, WriteBackShape
    <3>2. PICK m \in Present : m = exec[e].at
      BY <3>1
    <3>3. PICK r \in Row : r = [status |-> exec[e].result, num |-> table[m].num + 1]
      BY <3>1, <3>2 DEF Row
    <3>4. /\ table' = [table EXCEPT ![m] = r] /\ table[m] \in Row
          /\ r # None /\ table[m] # None /\ m \in Messages
      BY <2>1, <3>1, <3>2, <3>3, NoneAssumption DEF Present
    <3>5. Standing(table[m]) = "waiting"
      <4>1. Eligible(table[m])
        BY <3>1, <3>2, NoneAssumption DEF Eligible
      <4>. QED BY <3>4, <4>1, StandingOfRow
    <3>6. box' = [box EXCEPT ![m] = Standing(r)]
      BY <2>1, <3>4
    <3>7. Unrecorded' = None /\ UNCHANGED <<sent, failed, crashes>>
      <4>1. e \notin HandedOver'
        BY <3>1 DEF HandedOver
      <4>. QED BY <3>1, <4>1, UnrecordedNext
    <3>8. CASE exec[e].result = SUCCESS
      <4>1. Unrecorded = m
        BY <3>1, <3>2, <3>8, UnrecordedIs DEF HandedOver
      <4>2. Standing(r) = "sent"
        BY <3>3, <3>4, <3>8, StandingOfRow
      <4>. QED BY <3>4, <3>5, <3>6, <3>7, <4>1, <4>2 DEF Outbox!Record
    <3>9. CASE exec[e].result = FAIL
      <4>1. Unrecorded = None
        BY <3>9, UnrecordedIs DEF HandedOver, SUCCESS, FAIL
      <4>2. CASE Eligible(r)
        <5>1. Standing(r) = "waiting"
          BY <3>4, <4>2, StandingOfRow
        <5>2. box' = box
          BY <3>5, <3>6, <5>1
        <5>. QED BY <3>7, <4>1, <5>2
      <4>3. CASE ~Eligible(r)
        <5>1. Standing(r) = "given up"
          BY <3>3, <3>4, <3>9, <4>3, StandingOfRow DEF SUCCESS, FAIL
        <5>2. table[m].num + 1 >= RetryLimit
          BY <2>1, <3>1, <3>2, <3>3, <3>9, <4>3, NoneAssumption DEF Eligible
        <5>3. Failing(m) /\ table[m].status # SUCCESS
          BY <3>1, <3>2, <3>9 DEF Failing, WAIT, SUCCESS, FAIL
        <5>4. attempts[m] - sent[m] >= RetryLimit
          <6>1. table[m].num + 1 <= attempts[m] - sent[m]
            BY <5>3 DEF OutboxInv, FailuresCounted
          <6>. QED BY <2>1, <3>1, <3>2, <3>4, <5>2, <6>1
        <5>5. Outbox!GiveUp(m)
          BY <3>4, <3>5, <3>6, <3>7, <4>1, <5>1, <5>4 DEF Outbox!GiveUp
        <5>. QED BY <3>4, <5>5
      <4>. QED BY <4>2, <4>3
    <3>. QED BY <3>1, <3>8, <3>9
  <2>7. CASE Crash
    <3>1. /\ UNCHANGED <<table, attempts, sent>> /\ crashes' = crashes + 1
          /\ HandedOver' = {}
      BY <2>7 DEF Crash, history, HandedOver
    <3>2. Unrecorded' = None
      BY <3>1 DEF Unrecorded
    <3>. QED BY <3>1, <3>2 DEF Outbox!Crash, Outbox!Next
  <2>8. CASE UNCHANGED vars
    BY <2>2, <2>8 DEF vars
  <2>9. ASSUME NEW m \in Messages
        PROVE  ~Console(m)
    BY DEF Serial, Console, ConsoleAdd, ConsoleEdit, ConsoleRemove
  <2>. QED BY <2>3, <2>4, <2>5, <2>6, <2>7, <2>8, <2>9 DEF Next, Job, Outbox!Next
<1>. QED
  BY <1>1, <1>2, <1>3, <1>4, <1>5, PTL
  DEF Spec, OutboxInv, ImplementsOutbox, Outbox!Spec, Outbox!vars
=============================================================================
