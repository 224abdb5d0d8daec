--------------------------- MODULE Announcements ---------------------------
(***************************************************************************)
(* Announcements and the marks that say which user has read which one:     *)
(* SysAnnouncementController, SysAnnouncementServiceImpl and               *)
(* SysAnnouncementSendController on the tables sys_announcement and        *)
(* sys_announcement_send.                                                  *)
(*                                                                         *)
(* An announcement is for all users, who get their marks when they list    *)
(* their announcements, or for some, who get them when it is saved.  Adding*)
(* and editing are transactions (an edit updates the announcement's row    *)
(* first, which locks it); the other calls make their accesses one by one. *)
(* Titles, contents, categories and dates are left out.                    *)
(***************************************************************************)
EXTENDS Integers, FiniteSets

CONSTANTS
    Annts,      \* ids of announcements: bounds their number
    Users,      \* user ids
    Threads,    \* server threads
    Ops,        \* the operations in use
    MaxMarks,   \* an administrator adds marks by hand up to this number
    None        \* Java null

\* send_status
Unpublished == "0"
Published   == "1"
Revoked     == "2"

Status == {Unpublished, Published, Revoked}
\* users is empty in an announcement for all.
Annt == [users : SUBSET Users, status : Status, deleted : BOOLEAN]
Marks == [unread : Nat, read : Nat]
Op == {"add", "edit", "release", "revoke", "delete", "import",
       "list", "read", "marks"}

Work == [op : {"release", "revoke", "delete"}, annt : Annts, copy : Annt]
        \union [op : {"edit"}, annt : Annts]
        \union [op : {"list"}, stage : {"select", "insert"}, user : Users,
                todo : SUBSET Annts]

ASSUME NoneAssumption == None \notin Annt \union Work
ASSUME OpsAssumption == Ops \subseteq Op /\ MaxMarks \in Nat \ {0}
ASSUME ThreadsAssumption == IsFiniteSet(Threads)

VARIABLES
    annt,       \* annt[a]: the row of announcement a, or None
    marks,      \* marks[a][u]: the rows of the read table, by read_flag
    work,       \* work[t]: the call thread t is serving, or None
    told,       \* told[a]: the users the last add or edit of a named, less
                \* those whose marks were taken away since (history)
    seen        \* pairs <<a, u>>: u has marked a as read while u was listing
                \* nothing, and nobody took the mark away since (history)

history == <<told, seen>>
vars == <<annt, marks, work, history>>

TypeOK ==
    /\ annt \in [Annts -> Annt \union {None}]
    /\ marks \in [Annts -> [Users -> Marks]]
    /\ work \in [Threads -> Work \union {None}]
    /\ told \in [Annts -> SUBSET Users]
    /\ seen \subseteq Annts \X Users

NoMarks == [unread |-> 0, read |-> 0]
Unread(m) == [m EXCEPT !.unread = @ + 1]
Count(a, u) == marks[a][u].unread + marks[a][u].read

Init ==
    /\ annt = [a \in Annts |-> None]
    /\ marks = [a \in Annts |-> [u \in Users |-> NoMarks]]
    /\ work = [t \in Threads |-> None]
    /\ told = [a \in Annts |-> {}]
    /\ seen = {}

Idle(t, op) == work[t] = None /\ op \in Ops
At(t, op) == work[t] # None /\ work[t].op = op
End(t) == work' = [work EXCEPT ![t] = None]

-----------------------------------------------------------------------------
(* Administrators *)

\* saveAnnouncement: the row, and a mark for each user it names.
Add(a, users) ==
    /\ "add" \in Ops
    /\ annt[a] = None
    /\ annt' = [annt EXCEPT ![a] = [users |-> users, status |-> Unpublished,
                                    deleted |-> FALSE]]
    /\ marks' = [marks EXCEPT ![a] =
                    [u \in Users |-> IF u \in users THEN Unread(@[u]) ELSE @[u]]]
    /\ told' = [told EXCEPT ![a] = users]
    /\ UNCHANGED <<work, seen>>

\* importExcel saves rows as they are, without marks.
Import(a) ==
    /\ "import" \in Ops
    /\ annt[a] = None
    /\ \E row \in Annt : annt' = [annt EXCEPT ![a] = row]
    /\ UNCHANGED <<marks, work, history>>

\* edit looks whether the announcement is there, before the transaction.
ReadForEdit(t, a) ==
    /\ Idle(t, "edit")
    /\ annt[a] # None
    /\ work' = [work EXCEPT ![t] = [op |-> "edit", annt |-> a]]
    /\ UNCHANGED <<annt, marks, history>>

EditMarks_Renewed(old, users) ==
    [u \in Users |-> IF u \in users THEN Unread(NoMarks) ELSE NoMarks]
EditMarks_Kept(old, users) ==
    [u \in Users |-> IF u \in users THEN old[u] ELSE NoMarks]

\* Named users without a mark get one; the marks of the others are deleted.
EditMarks(old, users) ==
    [u \in Users |-> IF u \notin users THEN NoMarks
                     ELSE IF old[u] = NoMarks THEN Unread(NoMarks)
                     ELSE old[u]]

\* updateById leaves a column alone whose field in the form is null.
Column_Null(form, column) == form
Column(form, column) == IF form = None THEN column ELSE form

\* upDateAnnouncement.  The form's status and deletion flag may be null; the
\* marks of an announcement that is now for all stay as they are.
Edit(t, users, status, deleted) ==
    /\ At(t, "edit")
    /\ LET a == work[t].annt
           kept == IF users = {} THEN {u \in Users : Count(a, u) > 0} ELSE users
       IN  /\ annt' = [annt EXCEPT ![a] =
                 [users |-> users,
                  status |-> Column(status, @.status),
                  deleted |-> Column(deleted, @.deleted)]]
           /\ marks' = [marks EXCEPT ![a] =
                 IF users = {} THEN @ ELSE EditMarks(@, users)]
           /\ told' = [told EXCEPT ![a] = users]
           /\ seen' = seen \ {<<a, u>> : u \in Users \ kept}
    /\ End(t)

\* doReleaseData, doReovkeData and delete: getById, ...
ReadForUpdate(t, op, a) ==
    /\ Idle(t, op)
    /\ annt[a] # None
    /\ work' = [work EXCEPT ![t] = [op |-> op, annt |-> a, copy |-> annt[a]]]
    /\ UNCHANGED <<annt, marks, history>>

Updated(op, row) ==
    CASE op = "release" -> [row EXCEPT !.status = Published]
      [] op = "revoke"  -> [row EXCEPT !.status = Revoked]
      [] op = "delete"  -> [row EXCEPT !.deleted = TRUE]

\* ... then updateById with the whole copy.  deleteBatch is one delete after
\* the other.
Update(t) ==
    /\ work[t] # None /\ work[t].op \in {"release", "revoke", "delete"}
    /\ annt' = [annt EXCEPT ![work[t].annt] = Updated(work[t].op, work[t].copy)]
    /\ End(t)
    /\ UNCHANGED <<marks, history>>

\* The console of the read table: add, ...
AddMark(a, u) ==
    /\ "marks" \in Ops
    /\ annt[a] # None
    /\ Count(a, u) < MaxMarks
    /\ \/ marks' = [marks EXCEPT ![a][u] = Unread(@)]
       \/ marks' = [marks EXCEPT ![a][u].read = @ + 1]
    /\ seen' = seen \ {<<a, u>>}
    /\ UNCHANGED <<annt, work, told>>

\* ... and edit, delete and, one after the other, deleteBatch: a flag changes
\* or a mark goes away.
Rewritten(m) == {[m EXCEPT !.unread = @ - 1], [m EXCEPT !.read = @ - 1],
               [unread |-> m.unread - 1, read |-> m.read + 1],
               [unread |-> m.unread + 1, read |-> m.read - 1]} \intersect
              [unread : 0 .. m.unread + 1, read : 0 .. m.read + 1]

WriteMark(a, u) ==
    /\ "marks" \in Ops
    /\ \E m \in Rewritten(marks[a][u]) : marks' = [marks EXCEPT ![a][u] = m]
    /\ told' = [told EXCEPT ![a] = @ \ {u}]
    /\ seen' = seen \ {<<a, u>>}
    /\ UNCHANGED <<annt, work>>

-----------------------------------------------------------------------------
(* Users *)

\* listByUser: the announcements the user has marks of, ...
List(t, u) ==
    /\ Idle(t, "list")
    /\ work' = [work EXCEPT ![t] = [op |-> "list", stage |-> "select", user |-> u,
                    todo |-> {a \in Annts : Count(a, u) = 0}]]
    /\ UNCHANGED <<annt, marks, history>>

Public(a) == /\ annt[a] # None
             /\ annt[a].users = {}
             /\ annt[a].status = Published
             /\ ~annt[a].deleted

Select_All(t) ==
    /\ At(t, "list") /\ work[t].stage = "select"
    /\ LET new == {a \in Annts : Public(a)}
       IN  work' = [work EXCEPT ![t] =
               IF new = {} THEN None
               ELSE [@ EXCEPT !.stage = "insert", !.todo = new]]
    /\ UNCHANGED <<annt, marks, history>>

\* ... the published ones for all that are not among them, ...
Select(t) ==
    /\ At(t, "list") /\ work[t].stage = "select"
    /\ LET new == {a \in work[t].todo : Public(a)}
       IN  work' = [work EXCEPT ![t] =
               IF new = {} THEN None
               ELSE [@ EXCEPT !.stage = "insert", !.todo = new]]
    /\ UNCHANGED <<annt, marks, history>>

\* ... and a mark for each of these, one by one.
InsertMark(t, a) ==
    /\ At(t, "list") /\ work[t].stage = "insert"
    /\ a \in work[t].todo
    /\ marks' = [marks EXCEPT ![a][work[t].user] = Unread(@)]
    /\ LET left == work[t].todo \ {a}
       IN  work' = [work EXCEPT ![t] =
               IF left = {} THEN None ELSE [@ EXCEPT !.todo = left]]
    /\ UNCHANGED <<annt, history>>

Listing(u) == \E t \in Threads : At(t, "list") /\ work[t].user = u

MarkRead(S, u) ==
    /\ marks' = [a \in Annts |-> IF a \in S
                    THEN [marks[a] EXCEPT ![u] = [unread |-> 0, read |-> Count(a, u)]]
                    ELSE marks[a]]
    /\ seen' = IF Listing(u) THEN seen
               ELSE seen \union {<<a, u>> : a \in {b \in S : Count(b, u) > 0}}
    /\ UNCHANGED <<annt, work, told>>

\* editByAnntIdAndUserId; readAll.
ReadOne(a, u) == "read" \in Ops /\ MarkRead({a}, u)
ReadAll(u) == "read" \in Ops /\ MarkRead(Annts, u)

-----------------------------------------------------------------------------
Next ==
    \/ \E a \in Annts :
          \/ \E users \in SUBSET Users : Add(a, users)
          \/ Import(a)
          \/ \E u \in Users : AddMark(a, u) \/ WriteMark(a, u) \/ ReadOne(a, u)
    \/ \E t \in Threads :
          \/ \E a \in Annts : ReadForEdit(t, a) \/ InsertMark(t, a)
          \/ \E users \in SUBSET Users : \/ Edit(t, users, None, None)
                                         \/ Edit(t, users, Published, FALSE)
          \/ \E op \in {"release", "revoke", "delete"}, a \in Annts :
                ReadForUpdate(t, op, a)
          \/ Update(t)
          \/ \E u \in Users : List(t, u)
          \/ Select(t)
    \/ \E u \in Users : ReadAll(u)

Spec == Init /\ [][Next]_vars

-----------------------------------------------------------------------------
(* Properties *)

\* What a user has marked as read stays read: neither a later listing nor an
\* edit that keeps the user makes it unread again.
ReadStaysRead == \A p \in seen : marks[p[1]][p[2]].unread = 0

\* Overlapping listings can give a user several marks of an announcement, but
\* no more of them than there are threads (and were added by hand).
MarksBounded ==
    \A a \in Annts, u \in Users : Count(a, u) <= Cardinality(Threads) + MaxMarks

\* Whoever an add or an edit names has a mark, whatever releases, withdrawals,
\* listings and other edits overlap with it.
NamedAreMarked == \A a \in Annts : \A u \in told[a] : Count(a, u) > 0
=============================================================================
