----------------------------- MODULE QuartzJobs -----------------------------
(***************************************************************************)
(* The scheduled jobs.  A job is a row of sys_quartz_job and, while it is  *)
(* to run, a trigger of the Quartz scheduler under the name of its class;  *)
(* QuartzJobController and QuartzJobServiceImpl keep the two in step, the  *)
(* scheduler first and the row after it, with no transaction around both.  *)
(* The scheduler stores its triggers in the database, so both survive a    *)
(* restart; nothing compares them when the server comes up.                *)
(*                                                                         *)
(* schedulerDelete is one step here (its three calls act on one trigger).  *)
(* Of the cron expression and the class only matters whether the scheduler *)
(* can use them: "good".                                                   *)
(***************************************************************************)
EXTENDS Naturals, FiniteSets

CONSTANTS
    Classes,    \* job class names
    Keys,       \* primary keys: bounds the rows
    Threads,    \* server threads
    Setups,     \* the installations looked at, see Setup
    None        \* Java null

Normal == "normal"      \* status 0
Disable == "disable"    \* status -1

\* A status that is null, in a form or in a row, is None.
Row == [cls : Classes, status : {Normal, Disable, None}, good : BOOLEAN]
Op == {"add", "edit", "pause", "resume", "delete"}
Stage == {"scheduleDelete", "scheduleAdd", "schedulePause", "save", "update",
          "remove", "read"}

\* What a thread holds: the operation, the row it read or was sent, its key,
\* and for deleteBatch the keys still to do.
Work == [op : Op, stage : Stage, key : Keys \union {None},
         row : Row \union {None}, todo : SUBSET Keys]

\* What the administrators do ("rename": an edit carries another class, "bad":
\* they send jobs the scheduler refuses, "unset": jobs with a null status), on
\* which threads, how many rows there may be and how many crashes.
Setup == [ops : SUBSET (Op \union {"rename", "bad", "unset", "import"}),
          threads : SUBSET Threads, keys : SUBSET Keys, crashes : 0 .. 2]

ASSUME NoneAssumption ==
    None \notin Row \union Keys \union Work \union {Normal, Disable}
ASSUME SetupsAssumption == Setups \subseteq Setup
ASSUME FiniteAssumption == IsFiniteSet(Keys) /\ IsFiniteSet(Threads)

VARIABLES
    setup,      \* one of Setups; never changes
    table,      \* table[k]: the row with key k, or None
    sched,      \* sched[c]: the trigger of class c
    work,       \* work[t]: what thread t is doing, or None
    crashes     \* crashes so far

vars == <<setup, table, sched, work, crashes>>

Ops == setup.ops

TypeOK ==
    /\ table \in [Keys -> Row \union {None}]
    /\ sched \in [Classes -> {"absent", "running", "paused"}]
    /\ work \in [Threads -> Work \union {None}]
    /\ crashes \in 0 .. setup.crashes
    /\ setup \in Setups

Rows(c) == {k \in Keys : table[k] # None /\ table[k].cls = c}
FreeKeys == {k \in setup.keys : table[k] = None}

Init ==
    /\ setup \in Setups
    /\ table = [k \in Keys |-> None]
    /\ sched = [c \in Classes |-> "absent"]
    /\ work = [t \in Threads |-> None]
    /\ crashes = 0

\* What add and edit are sent; bad rows and null statuses only where the
\* setup has them.
Sent == {r \in Row : /\ ~r.good => "bad" \in Ops
                     /\ r.status = None => "unset" \in Ops}

Begin(t, op, stage, key, row) ==
    work' = [work EXCEPT ![t] = [op |-> op, stage |-> stage, key |-> key,
                                 row |-> row, todo |-> {}]]
At(t, stage) == work[t] # None /\ work[t].stage = stage
Goto(t, stage) == work' = [work EXCEPT ![t].stage = stage]
End(t) == work' = [work EXCEPT ![t] = None]

-----------------------------------------------------------------------------
(* The calls arrive and read the table. *)

Add_NoLookup(t, r) ==
    /\ work[t] = None
    /\ "add" \in Ops
    /\ r \in Sent
    /\ Begin(t, "add", IF r.status = Normal THEN "scheduleAdd" ELSE "save", None, r)
    /\ UNCHANGED <<setup, table, sched, crashes>>

\* add: refused when findByJobClassName finds a row.
Add(t, r) ==
    /\ work[t] = None
    /\ "add" \in Ops
    /\ r \in Sent
    /\ Rows(r.cls) = {}
    /\ Begin(t, "add", IF r.status = Normal THEN "scheduleAdd" ELSE "save", None, r)
    /\ UNCHANGED <<setup, table, sched, crashes>>

\* edit: the row exists; the form may carry another class name.  Every status
\* but the normal one, null too, pauses the job.
Edit(t, k, r) ==
    /\ work[t] = None
    /\ "edit" \in Ops
    /\ table[k] # None
    /\ r \in Sent
    /\ r.cls # table[k].cls => "rename" \in Ops
    /\ Begin(t, "edit",
             IF r.status = Normal THEN "scheduleDelete" ELSE "schedulePause", k, r)
    /\ UNCHANGED <<setup, table, sched, crashes>>

\* pause and resume take a class name; getOne throws on two rows.
Pause(t, c) ==
    /\ work[t] = None
    /\ "pause" \in Ops
    /\ \E k \in Keys :
          /\ Rows(c) = {k}
          /\ Begin(t, "pause", "schedulePause", k,
                   [table[k] EXCEPT !.status = Disable])
    /\ UNCHANGED <<setup, table, sched, crashes>>

Resume(t, c) ==
    /\ work[t] = None
    /\ "resume" \in Ops
    /\ \E k \in Keys :
          /\ Rows(c) = {k}
          /\ Begin(t, "resume", "scheduleDelete", k,
                   [table[k] EXCEPT !.status = Normal])
    /\ UNCHANGED <<setup, table, sched, crashes>>

\* delete and deleteBatch: one key after the other.
Delete(t, S) ==
    /\ work[t] = None
    /\ "delete" \in Ops
    /\ S # {}
    /\ work' = [work EXCEPT ![t] = [op |-> "delete", stage |-> "read",
                                    key |-> None, row |-> None, todo |-> S]]
    /\ UNCHANGED <<setup, table, sched, crashes>>

\* getById for the next key; a row that is not there stops the call.
DeleteRead(t) ==
    /\ At(t, "read")
    /\ \E k \in work[t].todo :
          work' = [work EXCEPT ![t] =
                     IF table[k] = None THEN None
                     ELSE [work[t] EXCEPT !.stage = "scheduleDelete", !.key = k,
                                          !.row = table[k], !.todo = @ \ {k}]]
    /\ UNCHANGED <<setup, table, sched, crashes>>

-----------------------------------------------------------------------------
(* The scheduler, then the row. *)

ScheduleDelete_PauseOnly(t) ==
    /\ At(t, "scheduleDelete")
    /\ LET c == work[t].row.cls
       IN  sched' = [sched EXCEPT ![c] = IF @ = "absent" THEN @ ELSE "paused"]
    /\ Goto(t, IF work[t].op = "delete" THEN "remove" ELSE "scheduleAdd")
    /\ UNCHANGED <<setup, table, crashes>>

ScheduleDelete(t) ==
    /\ At(t, "scheduleDelete")
    /\ sched' = [sched EXCEPT ![work[t].row.cls] = "absent"]
    /\ Goto(t, IF work[t].op = "delete" THEN "remove" ELSE "scheduleAdd")
    /\ UNCHANGED <<setup, table, crashes>>

ScheduleAdd_Replaces(t) ==
    /\ At(t, "scheduleAdd")
    /\ sched' = [sched EXCEPT ![work[t].row.cls] = "running"]
    /\ Goto(t, IF work[t].op = "add" THEN "save" ELSE "update")
    /\ UNCHANGED <<setup, table, crashes>>

\* scheduleJob throws when the trigger is there already; an unknown class or
\* a bad cron expression throws before it.  The call ends without the row.
ScheduleAdd(t) ==
    /\ At(t, "scheduleAdd")
    /\ LET c == work[t].row.cls
       IN  IF work[t].row.good /\ sched[c] = "absent"
           THEN /\ sched' = [sched EXCEPT ![c] = "running"]
                /\ Goto(t, IF work[t].op = "add" THEN "save" ELSE "update")
           ELSE /\ UNCHANGED sched
                /\ End(t)
    /\ UNCHANGED <<setup, table, crashes>>

SchedulePause_Skipped(t) ==
    /\ At(t, "schedulePause")
    /\ Goto(t, "update")
    /\ UNCHANGED <<setup, table, sched, crashes>>

\* pauseJob does nothing to a job the scheduler does not have.
SchedulePause(t) ==
    /\ At(t, "schedulePause")
    /\ LET c == work[t].row.cls
       IN  sched' = [sched EXCEPT ![c] = IF @ = "absent" THEN @ ELSE "paused"]
    /\ Goto(t, "update")
    /\ UNCHANGED <<setup, table, crashes>>

Save_NoClass(t) ==
    /\ At(t, "save")
    /\ FreeKeys # {}
    /\ table' = [table EXCEPT ![CHOOSE k \in FreeKeys : TRUE] =
                    [work[t].row EXCEPT !.cls = None]]
    /\ End(t)
    /\ UNCHANGED <<setup, sched, crashes>>

Save(t) ==
    /\ At(t, "save")
    /\ FreeKeys # {}
    /\ table' = [table EXCEPT ![CHOOSE k \in FreeKeys : TRUE] = work[t].row]
    /\ End(t)
    /\ UNCHANGED <<setup, sched, crashes>>

\* updateById overwrites the row with the form or the copy that was read, but
\* leaves a column alone whose new value is null.
Update(t) ==
    /\ At(t, "update")
    /\ LET k == work[t].key
           row == work[t].row
       IN  table' = IF table[k] = None THEN table
                    ELSE [table EXCEPT ![k] =
                            [row EXCEPT !.status =
                               IF @ = None THEN table[k].status ELSE @]]
    /\ End(t)
    /\ UNCHANGED <<setup, sched, crashes>>

Remove(t) ==
    /\ At(t, "remove")
    /\ table' = [table EXCEPT ![work[t].key] = None]
    /\ IF work[t].todo = {} THEN End(t) ELSE Goto(t, "read")
    /\ UNCHANGED <<setup, sched, crashes>>

-----------------------------------------------------------------------------
\* importExcel saves rows as they are: no trigger, no look at the class name.
Import ==
    /\ "import" \in Ops
    /\ FreeKeys # {}
    /\ \E r \in Sent : table' = [table EXCEPT ![CHOOSE k \in FreeKeys : TRUE] = r]
    /\ UNCHANGED <<setup, sched, work, crashes>>

\* The server goes down and comes back: the calls under way are lost.
Crash ==
    /\ crashes < setup.crashes
    /\ crashes' = crashes + 1
    /\ work' = [t \in Threads |-> None]
    /\ UNCHANGED <<setup, table, sched>>

-----------------------------------------------------------------------------
Arrive(t) ==
    \/ \E r \in Row : Add(t, r) \/ \E k \in Keys : Edit(t, k, r)
    \/ \E c \in Classes : Pause(t, c) \/ Resume(t, c)
    \/ \E S \in SUBSET Keys : Delete(t, S)

Step(t) ==
    \/ DeleteRead(t) \/ ScheduleDelete(t) \/ ScheduleAdd(t)
    \/ SchedulePause(t) \/ Save(t) \/ Update(t) \/ Remove(t)

Next == (\E t \in setup.threads : Arrive(t) \/ Step(t)) \/ Import \/ Crash

Spec == Init /\ [][Next]_vars

-----------------------------------------------------------------------------
(* Properties *)

\* The table and the scheduler agree about a class: it runs if and only if a
\* row says so.
Agree(c) == sched[c] = "running" <=> \E k \in Rows(c) : table[k].status = Normal

\* A crash between the two halves, a job the scheduler refuses, an imported row
\* or an edit that renames leaves table and scheduler apart; but with one
\* administrator at a time every call on a class that completes brings them
\* together again, unless the class is in the table twice.  Two calls do not:
\* the addition of a job that is not normal looks at no trigger, and an edit
\* with a null status pauses the trigger of a row that stays normal.
CompletedCallsAgree ==
    [][Cardinality(setup.threads) = 1 => \A t \in Threads :
          (/\ work[t] # None /\ work'[t] # work[t] /\ crashes' = crashes
           /\ work[t].stage \in {"save", "update", "remove"}
           /\ work[t].op = "add" => work[t].row.status = Normal
           /\ work[t].op = "edit" => work[t].row.status # None)
            => \A c \in Classes :
                  c = work[t].row.cls /\ Cardinality(Rows(c) \union Rows(c)') <= 1
                      => Agree(c)']_vars

\* With one administrator, no crash and no edit that renames, the scheduler
\* keeps no trigger that the table knows nothing of: a class it has is the
\* class of a row, or of the addition about to save one, whatever the scheduler
\* refuses, the statuses are and the imports bring.
TriggersHaveRows ==
    Cardinality(setup.threads) = 1 /\ setup.crashes = 0 /\ "rename" \notin Ops
        => \A c \in Classes : sched[c] # "absent" =>
              \/ Rows(c) # {}
              \/ \E t \in Threads : At(t, "save") /\ work[t].row.cls = c

\* While jobs are only added and paused, the scheduler's own check keeps the
\* table unique where addition's look at the table does not: of overlapping
\* additions of a normal job, which all found no row, one leaves a row.
OneNormalRow ==
    Ops \subseteq {"add", "pause"} => \A c \in Classes :
        Cardinality({k \in Rows(c) : table[k].status = Normal}) <= 1
=============================================================================
