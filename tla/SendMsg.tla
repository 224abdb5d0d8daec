------------------------------ MODULE SendMsg -------------------------------
(***************************************************************************)
(* The message queue in the table sys_sms.  PushMsgUtil.sendMessage        *)
(* inserts a message, the Quartz job SendMsgJob sends what is waiting or   *)
(* failed and writes the result back, and the message console              *)
(* (SysMessageController) edits the table.                                 *)
(*                                                                         *)
(* An execution of the job reads the messages once and works through that  *)
(* copy.  Nothing keeps two executions apart (the class does not disallow  *)
(* concurrent execution), and the server can go down between the sending   *)
(* and the write.  Receiver, title and content are left out; a message of  *)
(* an unknown type or without content fails like any other.                *)
(***************************************************************************)
EXTENDS Naturals, FiniteSets

CONSTANTS
    Messages,       \* keys of sys_sms
    Executions,     \* executions of the job that can overlap
    RetryLimit,     \* 6 in the code
    MaxAttempts,    \* bounds the history of attempts at one message
    MaxCrashes,     \* bounds the crashes of the server
    ConsoleOps,     \* operations of the message console in use
    None            \* Java null, SQL NULL

WAIT == "wait"
SUCCESS == "success"
FAIL == "fail"

Row == [status : {WAIT, SUCCESS, FAIL}, num : Nat \union {None}]
Execution == [copy : [Messages -> Row \union {None}], todo : SUBSET Messages,
              at : Messages \union {None}, result : {SUCCESS, FAIL}]

ASSUME RetryLimitAssumption == RetryLimit \in Nat \ {0}
ASSUME BoundsAssumption == MaxCrashes \in Nat /\ MaxAttempts \in Nat
ASSUME NoneAssumption == None \notin Messages \union Row \union Execution \union Nat
ASSUME ExecutionsAssumption == IsFiniteSet(Executions)
ASSUME ConsoleOpsAssumption == ConsoleOps \subseteq {"add", "edit", "remove"}

VARIABLES
    table,      \* table[m]: the row of message m, or None
    exec,       \* exec[e]: what execution e of the job holds, or None
    crashes,    \* crashes so far
    attempts,   \* attempts[m]: calls of the handler (history)
    sent,       \* sent[m]: calls of the handler that returned (history)
    touched     \* messages the console added or edited (history)

vars == <<table, exec, crashes, attempts, sent, touched>>
history == <<attempts, sent, touched>>

TypeOK ==
    /\ table \in [Messages -> Row \union {None}]
    /\ exec \in [Executions -> Execution \union {None}]
    /\ crashes \in 0 .. MaxCrashes
    /\ attempts \in [Messages -> Nat]
    /\ sent \in [Messages -> Nat]
    /\ touched \in SUBSET Messages

Present == {m \in Messages : table[m] # None}

Eligible_AnyStatus(row) == row.num # None /\ row.num < RetryLimit
Eligible_AtLimit(row) ==
    \/ row.status = WAIT
    \/ row.status = FAIL /\ row.num # None /\ row.num <= RetryLimit

Eligible_OneTryLess(row) ==
    \/ row.status = WAIT
    \/ row.status = FAIL /\ row.num # None /\ row.num + 1 < RetryLimit

\* "es_send_status = WAIT OR (es_send_status = FAIL AND es_send_num < 6)";
\* NULL < 6 does not hold.
Eligible(row) ==
    \/ row.status = WAIT
    \/ row.status = FAIL /\ row.num # None /\ row.num < RetryLimit

Init ==
    /\ table = [m \in Messages |-> None]
    /\ exec = [e \in Executions |-> None]
    /\ crashes = 0
    /\ attempts = [m \in Messages |-> 0]
    /\ sent = [m \in Messages |-> 0]
    /\ touched = {}

-----------------------------------------------------------------------------
\* Keys are UUIDs: one that was ever read or tried does not come again.
Fresh(m) == /\ table[m] = None
            /\ attempts[m] = 0
            /\ \A e \in Executions : exec[e] # None => exec[e].copy[m] = None

\* PushMsgUtil.sendMessage, when the template exists.
Push(m) ==
    /\ Fresh(m)
    /\ table' = [table EXCEPT ![m] = [status |-> WAIT, num |-> 0]]
    /\ UNCHANGED <<exec, crashes, history>>

\* An execution starts: it lists the eligible messages.
Start(e) ==
    /\ exec[e] = None
    /\ LET list == {m \in Present : Eligible(table[m])}
       IN  /\ list # {}
           /\ exec' = [exec EXCEPT ![e] = [copy |-> table, todo |-> list,
                                           at |-> None, result |-> FAIL]]
    /\ UNCHANGED <<table, crashes, history>>

Attempt_NullIsZero(e, m) ==
    /\ exec[e] # None /\ exec[e].at = None /\ m \in exec[e].todo
    /\ attempts[m] < MaxAttempts
    /\ attempts' = [attempts EXCEPT ![m] = @ + 1]
    /\ \E ok \in BOOLEAN :
          /\ sent' = IF ok THEN [sent EXCEPT ![m] = @ + 1] ELSE sent
          /\ exec' = [exec EXCEPT ![e].todo = @ \ {m}, ![e].at = m,
                         ![e].copy[m].num = IF @ = None THEN 0 ELSE @,
                         ![e].result = IF ok THEN SUCCESS ELSE FAIL]
    /\ UNCHANGED <<table, crashes, touched>>

Attempt_NoFail(e, m) ==
    /\ exec[e] # None /\ exec[e].at = None /\ m \in exec[e].todo
    /\ exec[e].copy[m].num # None
    /\ attempts[m] < MaxAttempts
    /\ attempts' = [attempts EXCEPT ![m] = @ + 1]
    /\ \E ok \in BOOLEAN :
          /\ sent' = IF ok THEN [sent EXCEPT ![m] = @ + 1] ELSE sent
          /\ exec' = [exec EXCEPT ![e].todo = @ \ {m}, ![e].at = m,
                                  ![e].result = IF ok THEN SUCCESS ELSE None]
    /\ UNCHANGED <<table, crashes, touched>>

\* The handler is called and returns or throws.  The count of the copy is
\* then incremented: on a null count that throws out of the job, and the
\* execution is over with nothing written.
Attempt(e, m) ==
    /\ exec[e] # None /\ exec[e].at = None /\ m \in exec[e].todo
    /\ attempts[m] < MaxAttempts
    /\ attempts' = [attempts EXCEPT ![m] = @ + 1]
    /\ \E ok \in BOOLEAN :
          /\ sent' = IF ok THEN [sent EXCEPT ![m] = @ + 1] ELSE sent
          /\ exec' = IF exec[e].copy[m].num = None
                     THEN [exec EXCEPT ![e] = None]
                     ELSE [exec EXCEPT ![e].todo = @ \ {m}, ![e].at = m,
                              ![e].result = IF ok THEN SUCCESS ELSE FAIL]
    /\ UNCHANGED <<table, crashes, touched>>

\* An execution with nothing left to do is over.
Advance(e, x) == IF x.todo = {} THEN None ELSE [x EXCEPT !.at = None]

WriteBack_Uncounted(e) ==
    /\ exec[e] # None /\ exec[e].at # None
    /\ LET m == exec[e].at
           row == [status |-> exec[e].result, num |-> exec[e].copy[m].num]
       IN  table' = IF table[m] = None THEN table
                    ELSE [table EXCEPT ![m] = row]
    /\ exec' = [exec EXCEPT ![e] = Advance(e, exec[e])]
    /\ UNCHANGED <<crashes, history>>

\* updateById writes the copy with the result and its count plus one over
\* whatever the row has become; a removed row stays removed.
WriteBack(e) ==
    /\ exec[e] # None /\ exec[e].at # None
    /\ LET m == exec[e].at
           row == [status |-> exec[e].result, num |-> exec[e].copy[m].num + 1]
       IN  table' = IF table[m] = None THEN table
                    ELSE [table EXCEPT ![m] = row]
    /\ exec' = [exec EXCEPT ![e] = Advance(e, exec[e])]
    /\ UNCHANGED <<crashes, history>>

\* The server goes down: every execution is gone, the table is not.
Crash ==
    /\ crashes < MaxCrashes
    /\ crashes' = crashes + 1
    /\ exec' = [e \in Executions |-> None]
    /\ UNCHANGED <<table, history>>

-----------------------------------------------------------------------------
(* The console: add saves the form as it is, a null count included. *)

ConsoleAdd(m) ==
    /\ "add" \in ConsoleOps
    /\ Fresh(m)
    /\ \E s \in {WAIT, SUCCESS, FAIL}, n \in {0, None} :
          table' = [table EXCEPT ![m] = [status |-> s, num |-> n]]
    /\ touched' = touched \union {m}
    /\ UNCHANGED <<exec, crashes, attempts, sent>>

\* updateById: null fields of the form leave the column alone.
ConsoleEdit(m) ==
    /\ "edit" \in ConsoleOps
    /\ table[m] # None
    /\ \E s \in {WAIT, SUCCESS, FAIL}, n \in {0, table[m].num} :
          table' = [table EXCEPT ![m] = [status |-> s, num |-> n]]
    /\ touched' = touched \union {m}
    /\ UNCHANGED <<exec, crashes, attempts, sent>>

\* delete and deleteBatch.
ConsoleRemove(m) ==
    /\ "remove" \in ConsoleOps
    /\ table[m] # None
    /\ table' = [table EXCEPT ![m] = None]
    /\ UNCHANGED <<exec, crashes, history>>

-----------------------------------------------------------------------------
Job(e) == Start(e) \/ (\E m \in Messages : Attempt(e, m)) \/ WriteBack(e)

Console(m) == ConsoleAdd(m) \/ ConsoleEdit(m) \/ ConsoleRemove(m)

Next ==
    \/ \E m \in Messages : Push(m) \/ Console(m)
    \/ \E e \in Executions : Job(e)
    \/ Crash

Spec == Init /\ [][Next]_vars

\* The cron trigger keeps firing and an execution keeps running; nobody has
\* to push, crash or edit.
FairSpec == Spec /\ \A e \in Executions : WF_vars(Job(e))

-----------------------------------------------------------------------------
(* Properties *)

\* "Only what was not sent or failed no more than the limit": with one
\* execution at a time a message is tried RetryLimit times, and once more for
\* each crash, which can lose the count of one attempt.
AttemptsBounded == \A m \in Messages : attempts[m] <= RetryLimit + crashes

\* Without overlap a message is handed over once, and once more at most for
\* each crash between the sending and the write.
HandedOverOnce == \A m \in Messages : sent[m] <= 1 + crashes

\* Executions that overlap may each hand a message over that none of them has
\* written back yet, and again after each crash, but no more: a message
\* whose handler never fails, and that the console does not add or edit, is
\* handed over once per execution and crash.
HandOversBounded ==
    \A m \in Messages \ touched :
        attempts[m] = sent[m]
            => sent[m] <= Cardinality(Executions) * (1 + crashes)

\* The job never writes a success nobody had: overlapping executions, crashes
\* and whatever the console wrote meanwhile included.
SuccessWasSent ==
    [][\A m \in Present :
          (exec' # exec /\ table'[m] # table[m] /\ table'[m].status = SUCCESS)
            => sent[m] > 0]_vars

\* With one execution at a time a success is final: no stale copy turns it
\* back into a failure that would be sent again.
SuccessIsFinal ==
    [][\A m \in Present :
          table[m].status = SUCCESS => table'[m].status = SUCCESS]_vars

\* Every message with a count is eventually sent or given up, and stays so.
Settled(m) == /\ table[m] # None
              /\ ~Eligible(table[m])
EveryMessageSettles ==
    \A m \in Messages : table[m] # None ~> [](Settled(m))

\* A message saved with a null count is tried by execution after execution,
\* but no execution ever moves it.
UncountedNeverMoves ==
    [][\A m \in Present :
          (table[m].num = None /\ exec' # exec) => table'[m] = table[m]]_vars

\* Where a message stands, for the outbox, by its row in the table.
Standing(row) ==
    CASE row = None -> "new"
      [] row # None /\ Eligible(row) -> "waiting"
      [] row # None /\ row.status = SUCCESS -> "sent"
      [] OTHER -> "given up"

\* The executions whose success is not written yet.
HandedOver == {e \in Executions : /\ exec[e] # None /\ exec[e].at # None
                                 /\ exec[e].result = SUCCESS}
Unrecorded == IF HandedOver = {} THEN None
              ELSE exec[CHOOSE e \in HandedOver : TRUE].at

Outbox == INSTANCE MessageOutbox WITH
    box <- [m \in Messages |-> Standing(table[m])],
    handed <- sent,
    failed <- [m \in Messages |-> attempts[m] - sent[m]],
    unrecorded <- Unrecorded,
    lost <- crashes

\* With one execution at a time every step of the job, in whatever order it
\* goes through its copies and wherever it crashes, is one step of the outbox:
\* no message is given up early, handed over again without a crash, or tried
\* after its success is recorded.
ImplementsOutbox == Outbox!Spec
=============================================================================
