--------------------------- MODULE MessageOutbox ----------------------------
(***************************************************************************)
(* What the message queue promises: a message accepted is tried until it   *)
(* was handed over and that is recorded, or it has failed RetryLimit       *)
(* times.  A crash can lose the record of the last try, and then the try   *)
(* is repeated.  SendMsg implements it when executions of the job do not   *)
(* overlap and nobody edits the table.                                     *)
(***************************************************************************)
EXTENDS Naturals

CONSTANTS Messages, RetryLimit, None

VARIABLES
    box,        \* box[m]: where message m stands
    handed,     \* handed[m]: how often m was handed over
    failed,     \* failed[m]: how often handing m over failed
    unrecorded, \* the message just handed over, until that is recorded, or None
    lost        \* crashes so far

vars == <<box, handed, failed, unrecorded, lost>>

TypeOK ==
    /\ box \in [Messages -> {"new", "waiting", "sent", "given up"}]
    /\ handed \in [Messages -> Nat]
    /\ failed \in [Messages -> Nat]
    /\ unrecorded \in Messages \union {None}
    /\ lost \in Nat

Init ==
    /\ box = [m \in Messages |-> "new"]
    /\ handed = [m \in Messages |-> 0]
    /\ failed = [m \in Messages |-> 0]
    /\ unrecorded = None
    /\ lost = 0

Accept(m) ==
    /\ box[m] = "new" /\ handed[m] = 0 /\ failed[m] = 0
    /\ box' = [box EXCEPT ![m] = "waiting"]
    /\ UNCHANGED <<handed, failed, unrecorded, lost>>

\* There are RetryLimit tries, and one more for each crash.
MayTry(m) ==
    /\ box[m] = "waiting"
    /\ unrecorded = None
    /\ handed[m] + failed[m] < RetryLimit + lost

\* Twice a message is handed over only if a crash came after the first time.
HandOver(m) ==
    /\ MayTry(m)
    /\ handed[m] <= lost
    /\ handed' = [handed EXCEPT ![m] = @ + 1]
    /\ unrecorded' = m
    /\ UNCHANGED <<box, failed, lost>>

Fail(m) ==
    /\ MayTry(m)
    /\ failed' = [failed EXCEPT ![m] = @ + 1]
    /\ UNCHANGED <<box, handed, unrecorded, lost>>

Record(m) ==
    /\ unrecorded = m
    /\ box[m] = "waiting"
    /\ box' = [box EXCEPT ![m] = "sent"]
    /\ unrecorded' = None
    /\ UNCHANGED <<handed, failed, lost>>

\* Nothing is given up that failed less often, or that was just handed over.
GiveUp(m) ==
    /\ box[m] = "waiting"
    /\ unrecorded = None
    /\ failed[m] >= RetryLimit
    /\ box' = [box EXCEPT ![m] = "given up"]
    /\ UNCHANGED <<handed, failed, unrecorded, lost>>

Crash ==
    /\ unrecorded' = None
    /\ lost' = lost + 1
    /\ UNCHANGED <<box, handed, failed>>

Next ==
    \/ \E m \in Messages :
          Accept(m) \/ HandOver(m) \/ Fail(m) \/ Record(m) \/ GiveUp(m)
    \/ Crash

Spec == Init /\ [][Next]_vars
=============================================================================
