------------------------- MODULE AnnouncementsProofs -------------------------
(***************************************************************************)
(* Theorems about Announcements, for any number of announcements, users    *)
(* and threads and any set of operations.                                  *)
(***************************************************************************)
EXTENDS Announcements, FiniteSetTheorems, TLAPS

LEMMA InitTypeOK == Init => TypeOK
BY DEF Init, TypeOK, Marks, NoMarks

\* The operators on marks stay within their type.
LEMMA MarkTypes ==
    /\ NoMarks \in Marks
    /\ \A m \in Marks : Unread(m) \in Marks /\ Rewritten(m) \subseteq Marks
    /\ \A old \in [Users -> Marks], S \in SUBSET Users :
          EditMarks(old, S) \in [Users -> Marks]
BY DEF Marks, NoMarks, Unread, Rewritten, EditMarks

\* Marking as read keeps the types.
LEMMA MarkReadTypeOK ==
    ASSUME TypeOK, NEW S \in SUBSET Annts, NEW u \in Users, MarkRead(S, u)
    PROVE  TypeOK'
<1> USE DEF TypeOK
<1>1. marks' \in [Annts -> [Users -> Marks]]
  <2>1. \A a \in Annts : [unread |-> 0, read |-> Count(a, u)] \in Marks
    BY DEF Count, Marks
  <2>. QED BY <2>1 DEF MarkRead
<1>2. seen' \subseteq Annts \X Users
  BY DEF MarkRead
<1>. QED BY <1>1, <1>2 DEF MarkRead

\* What administrators do to the tables.
LEMMA TablesTypeOK ==
    ASSUME TypeOK, NEW a \in Annts,
           \/ \E users \in SUBSET Users : Add(a, users)
           \/ Import(a)
           \/ \E u \in Users : AddMark(a, u) \/ WriteMark(a, u) \/ ReadOne(a, u)
    PROVE  TypeOK'
<1> USE DEF TypeOK, history
<1>1. ASSUME NEW users \in SUBSET Users, Add(a, users)
      PROVE  TypeOK'
  <2>1. [users |-> users, status |-> Unpublished, deleted |-> FALSE] \in Annt
    BY DEF Annt, Status
  <2>2. marks' \in [Annts -> [Users -> Marks]]
    BY <1>1, MarkTypes DEF Add
  <2>. QED BY <1>1, <2>1, <2>2 DEF Add
<1>2. CASE Import(a)
  BY <1>2 DEF Import
<1>3. ASSUME NEW u \in Users, AddMark(a, u)
      PROVE  TypeOK'
  <2>1. \/ marks' = [marks EXCEPT ![a][u] = Unread(marks[a][u])]
        \/ marks' = [marks EXCEPT ![a][u] = [marks[a][u] EXCEPT !.read = @ + 1]]
    BY <1>3 DEF AddMark
  <2>2. marks[a][u] \in Marks
    OBVIOUS
  <2>3. [marks[a][u] EXCEPT !.read = @ + 1] \in Marks
    BY <2>2 DEF Marks
  <2>4. \A m \in Marks : [marks EXCEPT ![a][u] = m] \in [Annts -> [Users -> Marks]]
    OBVIOUS
  <2>5. Unread(marks[a][u]) \in Marks
    BY <2>2, MarkTypes
  <2>6. marks' \in [Annts -> [Users -> Marks]]
    BY <2>1, <2>3, <2>4, <2>5
  <2>. QED BY <1>3, <2>6 DEF AddMark
<1>4. ASSUME NEW u \in Users, WriteMark(a, u)
      PROVE  TypeOK'
  <2>1. marks' \in [Annts -> [Users -> Marks]]
    BY <1>4, MarkTypes DEF WriteMark
  <2>. QED BY <1>4, <2>1 DEF WriteMark
<1>5. ASSUME NEW u \in Users, ReadOne(a, u)
      PROVE  TypeOK'
  BY <1>5, MarkReadTypeOK DEF ReadOne
<1>. QED BY <1>1, <1>2, <1>3, <1>4, <1>5

\* What the calls with several steps do.
LEMMA CallsTypeOK ==
    ASSUME TypeOK, NEW t \in Threads,
           \/ \E a \in Annts : ReadForEdit(t, a) \/ InsertMark(t, a)
           \/ \E op \in {"release", "revoke", "delete"}, a \in Annts :
                ReadForUpdate(t, op, a)
           \/ Update(t)
           \/ \E u \in Users : List(t, u)
           \/ Select(t)
    PROVE  TypeOK'
<1> USE NoneAssumption DEF TypeOK, history, End, At
<1>1. ASSUME NEW a \in Annts, ReadForEdit(t, a)
      PROVE  TypeOK'
  <2>1. [op |-> "edit", annt |-> a] \in Work
    BY DEF Work
  <2>. QED BY <1>1, <2>1 DEF ReadForEdit
<1>2. ASSUME NEW a \in Annts, InsertMark(t, a)
      PROVE  TypeOK'
  <2>1. work[t] \in [op : {"list"}, stage : {"select", "insert"}, user : Users,
                     todo : SUBSET Annts]
    BY <1>2 DEF InsertMark, Work
  <2>2. [work[t] EXCEPT !.todo = work[t].todo \ {a}] \in Work
    BY <2>1 DEF Work
  <2>3. marks' \in [Annts -> [Users -> Marks]]
    BY <1>2, <2>1, MarkTypes DEF InsertMark
  <2>4. work' \in [Threads -> Work \union {None}]
    <3>1. \A w \in Work \union {None} :
              [work EXCEPT ![t] = w] \in [Threads -> Work \union {None}]
      OBVIOUS
    <3>2. \/ work' = [work EXCEPT ![t] = None]
          \/ work' = [work EXCEPT ![t] = [work[t] EXCEPT !.todo = work[t].todo \ {a}]]
      BY <1>2 DEF InsertMark
    <3>. QED BY <2>2, <3>1, <3>2
  <2>. QED BY <1>2, <2>3, <2>4 DEF InsertMark
<1>3. ASSUME NEW op \in {"release", "revoke", "delete"}, NEW a \in Annts,
             ReadForUpdate(t, op, a)
      PROVE  TypeOK'
  <2>1. [op |-> op, annt |-> a, copy |-> annt[a]] \in Work
    BY <1>3 DEF ReadForUpdate, Work
  <2>. QED BY <1>3, <2>1 DEF ReadForUpdate
<1>4. CASE Update(t)
  <2>1. work[t] \in [op : {"release", "revoke", "delete"}, annt : Annts, copy : Annt]
    BY <1>4 DEF Update, Work
  <2>2. Updated(work[t].op, work[t].copy) \in Annt
    BY <2>1 DEF Updated, Annt, Status
  <2>. QED BY <1>4, <2>1, <2>2 DEF Update
<1>5. ASSUME NEW u \in Users, List(t, u)
      PROVE  TypeOK'
  <2>1. [op |-> "list", stage |-> "select", user |-> u,
         todo |-> {a \in Annts : Count(a, u) = 0}] \in Work
    BY DEF Work
  <2>. QED BY <1>5, <2>1 DEF List
<1>6. CASE Select(t)
  <2>1. work[t] \in [op : {"list"}, stage : {"select", "insert"}, user : Users,
                     todo : SUBSET Annts]
    BY <1>6 DEF Select, Work
  <2>2. \A new \in SUBSET Annts :
            [work[t] EXCEPT !.stage = "insert", !.todo = new] \in Work
    BY <2>1 DEF Work
  <2>. QED BY <1>6, <2>1, <2>2 DEF Select
<1>. QED BY <1>1, <1>2, <1>3, <1>4, <1>5, <1>6

\* An announcement that an edit has looked up is there, whatever is deleted:
\* deletion sets a flag.
EditFinds == \A t \in Threads : At(t, "edit") => annt[work[t].annt] # None

TypeInv == TypeOK /\ EditFinds

\* An edit.
LEMMA EditTypeOK ==
    ASSUME TypeInv, NEW t \in Threads, NEW users \in SUBSET Users,
           Edit(t, users, None, None) \/ Edit(t, users, Published, FALSE)
    PROVE  /\ TypeOK'
           /\ \A b \in Annts : annt[b] # None => annt'[b] # None
<1> USE NoneAssumption DEF TypeInv, TypeOK, At
<1>. PICK status \in {None, Published}, deleted \in {None, FALSE} :
         Edit(t, users, status, deleted)
  OBVIOUS
<1>. DEFINE a == work[t].annt
            row == [users |-> users, status |-> Column(status, annt[a].status),
                    deleted |-> Column(deleted, annt[a].deleted)]
<1>1. a \in Annts /\ annt[a] \in Annt
  BY DEF Edit, EditFinds, Work
<1>2. marks' \in [Annts -> [Users -> Marks]]
  BY <1>1, MarkTypes DEF Edit
<1>3. row \in Annt
  BY <1>1 DEF Annt, Status, Column
<1>4. annt' = [annt EXCEPT ![a] = row]
  BY DEF Edit
<1>5. told' \in [Annts -> SUBSET Users] /\ seen' \subseteq Annts \X Users
  BY <1>1 DEF Edit
<1>. QED BY <1>1, <1>2, <1>3, <1>4, <1>5 DEF Edit, End

LEMMA NextTypeOK == TypeInv /\ [Next]_vars => TypeOK'
<1> SUFFICES ASSUME TypeInv, [Next]_vars
             PROVE  TypeOK'
  OBVIOUS
<1>. TypeOK
  BY DEF TypeInv
<1>1. CASE UNCHANGED vars
  BY <1>1 DEF TypeOK, vars, history
<1>2. CASE \E u \in Users : ReadAll(u)
  BY <1>2, MarkReadTypeOK DEF ReadAll
<1>. QED BY <1>1, <1>2, TablesTypeOK, CallsTypeOK, EditTypeOK DEF Next

\* No row of the announcement table disappears.
LEMMA RowsStay ==
    ASSUME TypeInv, TypeOK', [Next]_vars, NEW a \in Annts, annt[a] # None
    PROVE  annt'[a] # None
<1> USE NoneAssumption DEF TypeInv, TypeOK, history
<1>1. CASE annt' = annt
  BY <1>1
<1>2. ASSUME NEW b \in Annts, (\E users \in SUBSET Users : Add(b, users)) \/ Import(b)
      PROVE  annt'[a] # None
  BY <1>2 DEF Add, Import
<1>3. ASSUME NEW t \in Threads, Update(t)
      PROVE  annt'[a] # None
  <2>1. work[t] \in [op : {"release", "revoke", "delete"}, annt : Annts, copy : Annt]
    BY <1>3 DEF Update, Work
  <2>2. Updated(work[t].op, work[t].copy) \in Annt
    BY <2>1 DEF Updated, Annt, Status
  <2>. QED BY <1>3, <2>1, <2>2 DEF Update
<1>4. ASSUME NEW t \in Threads, NEW users \in SUBSET Users,
             Edit(t, users, None, None) \/ Edit(t, users, Published, FALSE)
      PROVE  annt'[a] # None
  BY <1>4, EditTypeOK
<1>. QED BY <1>1, <1>2, <1>3, <1>4
     DEF Next, vars, AddMark, WriteMark, ReadOne, ReadAll, MarkRead, ReadForEdit,
         InsertMark, ReadForUpdate, List, Select

LEMMA NextTypeInv == TypeInv /\ [Next]_vars => TypeInv'
<1> SUFFICES ASSUME TypeInv, [Next]_vars
             PROVE  TypeInv'
  OBVIOUS
<1> USE NoneAssumption DEF history, At
<1>1. TypeOK' /\ TypeOK /\ work \in [Threads -> Work \union {None}]
  BY NextTypeOK DEF TypeInv, TypeOK
<1>2. ASSUME \A t \in Threads :
                work'[t] = work[t] \/ work'[t] = None \/ work'[t].op # "edit"
      PROVE  EditFinds'
  <2> SUFFICES ASSUME NEW t \in Threads, work'[t] # None, work'[t].op = "edit"
               PROVE  annt'[work'[t].annt] # None
    BY DEF EditFinds
  <2>1. work'[t] = work[t]
    BY <1>2
  <2>2. work[t].annt \in Annts /\ annt[work[t].annt] # None
    BY <1>1, <2>1 DEF Work, TypeInv, EditFinds
  <2>. QED BY <1>1, <2>1, <2>2, RowsStay
<1>3. ASSUME NEW t \in Threads, NEW a \in Annts, ReadForEdit(t, a)
      PROVE  EditFinds'
  <2>1. \A s \in Threads \ {t} : work'[s] = work[s]
    BY <1>1, <1>3 DEF ReadForEdit
  <2>2. work'[t] = [op |-> "edit", annt |-> a] /\ annt' = annt /\ annt[a] # None
    BY <1>1, <1>3 DEF ReadForEdit
  <2>. QED BY <2>1, <2>2 DEF TypeInv, EditFinds
<1>4. ASSUME NEW t \in Threads, NEW w, work' = [work EXCEPT ![t] = w],
             w = None \/ w.op # "edit"
      PROVE  EditFinds'
  BY <1>1, <1>2, <1>4
<1>5. ASSUME NEW t \in Threads, NEW a \in Annts, InsertMark(t, a)
      PROVE  EditFinds'
  <2>. DEFINE w == [work[t] EXCEPT !.todo = work[t].todo \ {a}]
  <2>1. work' = [work EXCEPT ![t] = None] \/ work' = [work EXCEPT ![t] = w]
    BY <1>5 DEF InsertMark
  <2>2. w.op # "edit"
    BY <1>1, <1>5 DEF InsertMark, Work
  <2>. HIDE DEF w
  <2>. QED BY <1>4, <2>1, <2>2
<1>6. ASSUME NEW t \in Threads, Select(t)
      PROVE  EditFinds'
  <2>. DEFINE new == {a \in work[t].todo : Public(a)}
              w == [work[t] EXCEPT !.stage = "insert", !.todo = new]
  <2>1. work' = [work EXCEPT ![t] = None] \/ work' = [work EXCEPT ![t] = w]
    BY <1>6 DEF Select
  <2>2. w.op # "edit"
    BY <1>1, <1>6 DEF Select, Work
  <2>. HIDE DEF w
  <2>. QED BY <1>4, <2>1, <2>2
<1>7. ASSUME NEW t \in Threads,
             \/ Update(t)
             \/ \E users \in SUBSET Users : \/ Edit(t, users, None, None)
                                            \/ Edit(t, users, Published, FALSE)
      PROVE  EditFinds'
  BY <1>4, <1>7 DEF Update, Edit, End
<1>8. ASSUME NEW t \in Threads, NEW u \in Users, List(t, u)
      PROVE  EditFinds'
  BY <1>4, <1>8 DEF List
<1>9. ASSUME NEW t \in Threads, NEW op \in {"release", "revoke", "delete"},
             NEW a \in Annts, ReadForUpdate(t, op, a)
      PROVE  EditFinds'
  <2>. DEFINE w == [op |-> op, annt |-> a, copy |-> annt[a]]
  <2>1. work' = [work EXCEPT ![t] = w] /\ w.op # "edit"
    BY <1>9 DEF ReadForUpdate
  <2>. HIDE DEF w
  <2>. QED BY <1>4, <2>1
<1>10. ASSUME work' = work
       PROVE  EditFinds'
  BY <1>2, <1>10
<1>11. EditFinds'
  BY <1>3, <1>5, <1>6, <1>7, <1>8, <1>9, <1>10
  DEF Next, vars, Add, Import, AddMark, WriteMark, ReadOne, ReadAll, MarkRead
<1>. QED BY <1>1, <1>11 DEF TypeInv

LEMMA TypeInvariant == Spec => []TypeInv
<1>1. Init => TypeInv
  BY InitTypeOK DEF Init, TypeInv, EditFinds, At
<1>. QED BY <1>1, NextTypeInv, PTL DEF Spec

\* The tables and the calls keep their types.
THEOREM TypeCorrect == Spec => []TypeOK
<1>1. TypeInv => TypeOK
  BY DEF TypeInv
<1>. QED BY <1>1, TypeInvariant, PTL

-----------------------------------------------------------------------------
(***************************************************************************)
(* The three safety properties, for one announcement and one user, from an *)
(* invariant about the marks and the listings that have them to insert.    *)
(***************************************************************************)

\* The listings that may still insert a mark of a for u.
Pending(a, u) == {t \in Threads : /\ At(t, "list")
                                 /\ work[t].user = u
                                 /\ a \in work[t].todo}

InsertsFind == \A t \in Threads :
    (At(t, "list") /\ work[t].stage = "insert")
        => \A a \in work[t].todo : annt[a] # None

MarksFind(a, u) == Count(a, u) > 0 => annt[a] # None
NamedIsMarked(a, u) == u \in told[a] => Count(a, u) > 0
SeenIsRead(a, u) == <<a, u>> \in seen => /\ marks[a][u].unread = 0
                                        /\ marks[a][u].read > 0
                                        /\ Pending(a, u) = {}
PairBounded(a, u) == Count(a, u) + Cardinality(Pending(a, u))
                        <= Cardinality(Threads) + MaxMarks

PairInv(a, u) == /\ MarksFind(a, u) /\ NamedIsMarked(a, u)
                 /\ SeenIsRead(a, u) /\ PairBounded(a, u)

MarksInv == /\ TypeInv /\ InsertsFind
            /\ \A a \in Annts, u \in Users : PairInv(a, u)

LEMMA PendingFinite ==
    \A a, u : /\ IsFiniteSet(Pending(a, u))
              /\ Cardinality(Pending(a, u)) \in Nat
              /\ Cardinality(Threads) \in Nat
              /\ Cardinality(Pending(a, u)) <= Cardinality(Threads)
<1>. TAKE a, u
<1>1. Pending(a, u) \subseteq Threads
  BY DEF Pending
<1>. QED BY <1>1, ThreadsAssumption, FS_Subset, FS_CardinalityType

LEMMA PendingFiniteNext ==
    (\A a, u : /\ IsFiniteSet(Pending(a, u))
               /\ Cardinality(Pending(a, u)) \in Nat
               /\ Cardinality(Threads) \in Nat
               /\ Cardinality(Pending(a, u)) <= Cardinality(Threads))'
BY PendingFinite, PTL

\* The bound survives when the marks get no more and no listing starts, and
\* whenever there are at most MaxMarks of them.
LEMMA BoundSteps ==
    ASSUME TypeOK, TypeOK', NEW a \in Annts, NEW u \in Users, PairBounded(a, u),
           \/ /\ Count(a, u)' <= Count(a, u)
              /\ Pending(a, u)' \subseteq Pending(a, u)
           \/ Count(a, u)' <= MaxMarks
           \/ \E t \in Pending(a, u) : /\ Count(a, u)' = Count(a, u) + 1
                                       /\ Pending(a, u)' = Pending(a, u) \ {t}
    PROVE  PairBounded(a, u)'
<1>. DEFINE P == Pending(a, u)
<1>1. Count(a, u) \in Nat /\ Count(a, u)' \in Nat
  BY DEF TypeOK, Count, Marks
<1>2. /\ IsFiniteSet(P) /\ IsFiniteSet(P')
      /\ Cardinality(P) \in Nat /\ Cardinality(P') \in Nat
      /\ Cardinality(Threads) \in Nat /\ Cardinality(P') <= Cardinality(Threads)
  BY PendingFinite, PendingFiniteNext
<1>3. CASE Count(a, u)' <= Count(a, u) /\ P' \subseteq P
  <2>1. Cardinality(P') <= Cardinality(P)
    BY <1>2, <1>3, FS_Subset
  <2>. QED BY <1>1, <1>2, <1>3, <2>1, OpsAssumption DEF PairBounded
<1>4. CASE Count(a, u)' <= MaxMarks
  BY <1>1, <1>2, <1>4, OpsAssumption DEF PairBounded
<1>5. ASSUME NEW t \in P, Count(a, u)' = Count(a, u) + 1, P' = P \ {t}
      PROVE  PairBounded(a, u)'
  <2>1. Cardinality(P') = Cardinality(P) - 1
    BY <1>2, <1>5, FS_RemoveElement
  <2>. QED BY <1>1, <1>2, <1>5, <2>1, OpsAssumption DEF PairBounded
<1>. QED BY <1>3, <1>4, <1>5

\* A step that leaves the marks of a pair alone, starts no listing that could
\* add one and records nothing about it.
LEMMA PairStays ==
    ASSUME MarksInv, TypeInv', [Next]_vars, NEW a \in Annts, NEW u \in Users,
           marks'[a][u] = marks[a][u], Pending(a, u)' \subseteq Pending(a, u),
           <<a, u>> \in seen' => <<a, u>> \in seen,
           u \in told'[a] => u \in told[a]
    PROVE  PairInv(a, u)'
<1>1. Count(a, u)' = Count(a, u)
  BY DEF Count
<1>2. PairInv(a, u) /\ TypeOK /\ TypeOK' /\ Count(a, u) \in Nat
  BY DEF MarksInv, TypeInv, TypeOK, Count, Marks
<1>3. PairBounded(a, u)'
  BY <1>1, <1>2, BoundSteps DEF PairInv
<1>4. MarksFind(a, u)'
  BY <1>1, <1>2, RowsStay DEF PairInv, MarksFind, MarksInv
<1>5. NamedIsMarked(a, u)' /\ SeenIsRead(a, u)'
  BY <1>1, <1>2 DEF PairInv, NamedIsMarked, SeenIsRead
<1>. QED BY <1>3, <1>4, <1>5 DEF PairInv

\* A call that is not a listing has nothing to insert.
LEMMA PendingStays ==
    ASSUME TypeOK, NEW t \in Threads, NEW w, work' = [work EXCEPT ![t] = w],
           w = None \/ w.op # "list", NEW a, NEW u
    PROVE  Pending(a, u)' \subseteq Pending(a, u)
BY DEF Pending, At, TypeOK

LEMMA AddPair ==
    ASSUME MarksInv, TypeInv', [Next]_vars, NEW a \in Annts, NEW u \in Users,
           NEW b \in Annts, NEW users \in SUBSET Users, Add(b, users)
    PROVE  PairInv(a, u)'
<1> USE NoneAssumption DEF history
<1>1. /\ TypeOK /\ TypeOK' /\ PairInv(a, u) /\ marks[a][u] \in Marks
      /\ Pending(a, u)' = Pending(a, u)
  BY DEF MarksInv, TypeInv, TypeOK, Add, Pending, At
<1>2. CASE a # b
  <2>1. marks'[a] = marks[a] /\ told'[a] = told[a] /\ seen' = seen
    BY <1>1, <1>2 DEF Add, TypeOK
  <2>. QED BY <1>1, <2>1, PairStays
<1>3. CASE a = b
  <2>1. Count(a, u) = 0 /\ <<a, u>> \notin seen
    BY <1>1, <1>3 DEF Add, PairInv, MarksFind, SeenIsRead, Count, Marks
  <2>2. marks'[a][u] = IF u \in users THEN Unread(marks[a][u]) ELSE marks[a][u]
    BY <1>1, <1>3 DEF Add, TypeOK
  <2>3. Count(a, u)' = IF u \in users THEN 1 ELSE 0
    BY <1>1, <2>1, <2>2 DEF Count, Unread, Marks
  <2>4. told'[a] = users /\ seen' = seen /\ annt'[a] # None
    <3>1. [users |-> users, status |-> Unpublished, deleted |-> FALSE] \in Annt
      BY DEF Annt, Status
    <3>. QED BY <1>1, <1>3, <3>1 DEF Add, TypeOK
  <2>5. PairBounded(a, u)'
    BY <1>1, <2>3, BoundSteps, OpsAssumption DEF PairInv
  <2>. QED BY <2>1, <2>3, <2>4, <2>5
           DEF PairInv, MarksFind, NamedIsMarked, SeenIsRead
<1>. QED BY <1>2, <1>3

\* The console of the read table.
LEMMA ConsolePair ==
    ASSUME MarksInv, TypeInv', [Next]_vars, NEW a \in Annts, NEW u \in Users,
           NEW b \in Annts, NEW v \in Users, AddMark(b, v) \/ WriteMark(b, v)
    PROVE  PairInv(a, u)'
<1>1. /\ TypeOK /\ TypeOK' /\ PairInv(a, u) /\ marks[a][u] \in Marks
      /\ Pending(a, u)' = Pending(a, u) /\ annt' = annt
  BY DEF MarksInv, TypeInv, TypeOK, AddMark, WriteMark, Pending, At
<1>2. PICK m : marks' = [marks EXCEPT ![b][v] = m]
  BY DEF AddMark, WriteMark
<1>3. CASE a # b \/ u # v
  <2>1. marks'[a][u] = marks[a][u]
    BY <1>1, <1>2, <1>3 DEF TypeOK
  <2>2. seen' \subseteq seen /\ told'[a] \subseteq told[a]
    BY <1>1 DEF AddMark, WriteMark, TypeOK
  <2>. QED BY <1>1, <2>1, <2>2, PairStays
<1>4. CASE a = b /\ u = v
  <2>1. <<a, u>> \notin seen'
    BY <1>4 DEF AddMark, WriteMark
  <2>2. CASE AddMark(a, u)
    <3>1. /\ Count(a, u) < MaxMarks /\ annt[a] # None /\ told' = told
          /\ \/ marks' = [marks EXCEPT ![a][u] = Unread(marks[a][u])]
             \/ marks' = [marks EXCEPT ![a][u] = [marks[a][u] EXCEPT !.read = @ + 1]]
      BY <2>2 DEF AddMark
    <3>2. marks'[a][u] \in {Unread(marks[a][u]), [marks[a][u] EXCEPT !.read = @ + 1]}
      BY <1>1, <3>1 DEF TypeOK
    <3>3. Count(a, u)' = Count(a, u) + 1 /\ Count(a, u) \in Nat
      BY <1>1, <3>2 DEF Count, Unread, Marks
    <3>4. PairBounded(a, u)'
      BY <1>1, <3>1, <3>3, BoundSteps, OpsAssumption DEF PairInv
    <3>. QED BY <1>1, <2>1, <3>1, <3>3, <3>4
             DEF PairInv, MarksFind, NamedIsMarked, SeenIsRead
  <2>3. CASE WriteMark(a, u)
    <3>1. marks'[a][u] \in Rewritten(marks[a][u]) /\ u \notin told'[a]
      BY <1>1, <2>3 DEF WriteMark, TypeOK
    <3>2. Count(a, u)' <= Count(a, u) /\ Count(a, u) \in Nat /\ Count(a, u)' \in Nat
      BY <1>1, <3>1 DEF Count, Rewritten, Marks
    <3>3. PairBounded(a, u)'
      BY <1>1, <3>2, BoundSteps DEF PairInv
    <3>. QED BY <1>1, <2>1, <3>1, <3>2, <3>3
             DEF PairInv, MarksFind, NamedIsMarked, SeenIsRead
  <2>. QED BY <1>4, <2>2, <2>3
<1>. QED BY <1>3, <1>4

LEMMA ReadPair ==
    ASSUME MarksInv, TypeInv', [Next]_vars, NEW a \in Annts, NEW u \in Users,
           NEW S \in SUBSET Annts, NEW v \in Users, MarkRead(S, v)
    PROVE  PairInv(a, u)'
<1>1. /\ TypeOK /\ TypeOK' /\ PairInv(a, u) /\ marks[a][u] \in Marks
      /\ Pending(a, u)' = Pending(a, u) /\ annt' = annt /\ told' = told
  BY DEF MarksInv, TypeInv, TypeOK, MarkRead, Pending, At
<1>2. CASE a \notin S \/ u # v
  <2>1. marks'[a][u] = marks[a][u] /\ (<<a, u>> \in seen' => <<a, u>> \in seen)
    BY <1>1, <1>2 DEF MarkRead, TypeOK
  <2>. QED BY <1>1, <2>1, PairStays
<1>3. CASE a \in S /\ u = v
  <2>1. marks'[a][u] = [unread |-> 0, read |-> Count(a, u)] /\ Count(a, u) \in Nat
    BY <1>1, <1>3 DEF MarkRead, TypeOK, Count, Marks
  <2>2. Count(a, u)' = Count(a, u)
    BY <2>1 DEF Count
  <2>3. <<a, u>> \in seen' => Count(a, u) > 0 /\ Pending(a, u) = {}
    <3>1. <<a, u>> \in seen => Count(a, u) > 0 /\ Pending(a, u) = {}
      BY <1>1 DEF PairInv, SeenIsRead, Count, Marks
    <3>2. ~Listing(u) => Pending(a, u) = {}
      BY DEF Listing, Pending
    <3>. QED BY <1>3, <3>1, <3>2 DEF MarkRead
  <2>4. PairBounded(a, u)'
    BY <1>1, <2>1, <2>2, BoundSteps DEF PairInv
  <2>. QED BY <1>1, <2>1, <2>2, <2>3, <2>4
           DEF PairInv, MarksFind, NamedIsMarked, SeenIsRead
<1>. QED BY <1>2, <1>3

LEMMA EditPair ==
    ASSUME MarksInv, TypeInv', [Next]_vars, NEW a \in Annts, NEW u \in Users,
           NEW t \in Threads, NEW users \in SUBSET Users,
           Edit(t, users, None, None) \/ Edit(t, users, Published, FALSE)
    PROVE  PairInv(a, u)'
<1> USE NoneAssumption
<1>. DEFINE b == work[t].annt
<1>1. /\ TypeOK /\ TypeOK' /\ PairInv(a, u) /\ marks[a][u] \in Marks
      /\ b \in Annts /\ annt[b] # None
  BY DEF MarksInv, TypeInv, TypeOK, EditFinds, Edit, At, Work
<1>2. Pending(a, u)' \subseteq Pending(a, u)
  BY <1>1, PendingStays DEF Edit, End
<1>3. seen' \subseteq seen
  BY DEF Edit
<1>4. CASE a # b
  <2>1. marks'[a] = marks[a] /\ told'[a] = told[a]
    BY <1>1, <1>4 DEF Edit, TypeOK
  <2>. QED BY <1>1, <1>2, <1>3, <2>1, PairStays
<1>5. CASE a = b
  <2>1. annt'[a] # None /\ told'[a] = users
    BY <1>1, <1>5, RowsStay DEF MarksInv, Edit, TypeOK
  <2>2. CASE users = {}
    <3>1. marks'[a][u] = marks[a][u] /\ u \notin told'[a]
      BY <1>1, <1>5, <2>1, <2>2 DEF Edit, TypeOK
    <3>. QED BY <1>1, <1>2, <1>3, <3>1, PairStays
  <2>3. CASE users # {}
    <3>1. marks'[a][u] = EditMarks(marks[a], users)[u]
      BY <1>1, <1>5, <2>3 DEF Edit, TypeOK
    <3>2. CASE u \notin users
      <4>1. marks'[a][u] = NoMarks /\ <<a, u>> \notin seen'
        BY <1>1, <1>5, <2>3, <3>1, <3>2 DEF EditMarks, Edit
      <4>2. Count(a, u)' = 0
        BY <4>1 DEF Count, NoMarks
      <4>3. PairBounded(a, u)'
        BY <1>1, <4>2, BoundSteps, OpsAssumption DEF PairInv
      <4>. QED BY <2>1, <3>2, <4>1, <4>2, <4>3
               DEF PairInv, MarksFind, NamedIsMarked, SeenIsRead
    <3>3. CASE u \in users /\ marks[a][u] = NoMarks
      <4>1. marks'[a][u] = Unread(NoMarks)
        BY <3>1, <3>3 DEF EditMarks
      <4>2. Count(a, u)' = 1
        BY <4>1 DEF Count, NoMarks, Unread
      <4>3. <<a, u>> \notin seen'
        BY <1>1, <1>3, <3>3 DEF PairInv, SeenIsRead, NoMarks
      <4>4. PairBounded(a, u)'
        BY <1>1, <4>2, BoundSteps, OpsAssumption DEF PairInv
      <4>. QED BY <2>1, <4>2, <4>3, <4>4
               DEF PairInv, MarksFind, NamedIsMarked, SeenIsRead
    <3>4. CASE u \in users /\ marks[a][u] # NoMarks
      <4>1. marks'[a][u] = marks[a][u]
        BY <3>1, <3>4 DEF EditMarks
      <4>2. /\ Count(a, u) > 0 /\ Count(a, u)' = Count(a, u)
            /\ Count(a, u)' <= Count(a, u)
        BY <1>1, <3>4, <4>1 DEF Count, NoMarks, Marks
      <4>3. PairBounded(a, u)'
        BY <1>1, <1>2, <4>2, BoundSteps DEF PairInv
      <4>. QED BY <1>1, <1>2, <1>3, <2>1, <4>1, <4>2, <4>3
               DEF PairInv, MarksFind, NamedIsMarked, SeenIsRead
    <3>. QED BY <3>2, <3>3, <3>4
  <2>. QED BY <2>2, <2>3
<1>. QED BY <1>4, <1>5

\* Listing: what it finds unmarked has no marks.
LEMMA ListPair ==
    ASSUME MarksInv, TypeInv', [Next]_vars, NEW a \in Annts, NEW u \in Users,
           NEW t \in Threads, NEW v \in Users, List(t, v)
    PROVE  PairInv(a, u)'
<1> USE NoneAssumption DEF history
<1>1. /\ TypeOK /\ TypeOK' /\ PairInv(a, u) /\ marks[a][u] \in Marks
      /\ marks' = marks /\ seen' = seen /\ told' = told /\ annt' = annt
      /\ work[t] = None
  BY DEF MarksInv, TypeInv, TypeOK, List, Idle
<1>2. Count(a, u)' = Count(a, u) /\ Count(a, u) \in Nat
  BY <1>1 DEF Count, Marks
<1>3. CASE u # v \/ Count(a, u) # 0
  <2>1. Pending(a, u)' \subseteq Pending(a, u)
    BY <1>1, <1>3 DEF Pending, At, List, TypeOK
  <2>. QED BY <1>1, <2>1, PairStays
<1>4. CASE Count(a, u) = 0
  <2>1. <<a, u>> \notin seen
    BY <1>1, <1>4 DEF PairInv, SeenIsRead, Count, Marks
  <2>2. PairBounded(a, u)'
    BY <1>1, <1>2, <1>4, BoundSteps, OpsAssumption DEF PairInv
  <2>. QED BY <1>1, <1>2, <2>1, <2>2
           DEF PairInv, MarksFind, NamedIsMarked, SeenIsRead
<1>. QED BY <1>3, <1>4

LEMMA SelectPair ==
    ASSUME MarksInv, TypeInv', [Next]_vars, NEW a \in Annts, NEW u \in Users,
           NEW t \in Threads, Select(t)
    PROVE  PairInv(a, u)'
<1> USE NoneAssumption DEF history
<1>. DEFINE new == {b \in work[t].todo : Public(b)}
            w == [work[t] EXCEPT !.stage = "insert", !.todo = new]
<1>1. /\ TypeOK /\ At(t, "list")
      /\ marks' = marks /\ seen' = seen /\ told' = told
      /\ work' = [work EXCEPT ![t] = None] \/ work' = [work EXCEPT ![t] = w]
  BY DEF MarksInv, TypeInv, Select
<1>2. /\ work[t] \in [op : {"list"}, stage : {"select", "insert"}, user : Users,
                      todo : SUBSET Annts]
      /\ work \in [Threads -> Work \union {None}]
  BY <1>1 DEF TypeOK, At, Work
<1>3. w.user = work[t].user /\ w.todo = new /\ new \subseteq work[t].todo
  BY <1>2
<1>. HIDE DEF w, new
<1>4. Pending(a, u)' \subseteq Pending(a, u)
  BY <1>1, <1>2, <1>3 DEF Pending, At
<1>. QED BY <1>1, <1>4, PairStays

LEMMA InsertPair ==
    ASSUME MarksInv, TypeInv', [Next]_vars, NEW a \in Annts, NEW u \in Users,
           NEW t \in Threads, NEW b \in Annts, InsertMark(t, b)
    PROVE  PairInv(a, u)'
<1> USE NoneAssumption DEF history
<1>. DEFINE v == work[t].user
            w == [work[t] EXCEPT !.todo = work[t].todo \ {b}]
<1>1. /\ TypeOK /\ TypeOK' /\ PairInv(a, u) /\ marks[a][u] \in Marks /\ InsertsFind
      /\ At(t, "list") /\ work[t].stage = "insert" /\ b \in work[t].todo
      /\ seen' = seen /\ told' = told /\ annt' = annt
  BY DEF MarksInv, TypeInv, TypeOK, InsertMark
<1>1a. /\ marks' = [marks EXCEPT ![b][v] = Unread(marks[b][v])]
       /\ \/ work' = [work EXCEPT ![t] = None] /\ work[t].todo \ {b} = {}
          \/ work' = [work EXCEPT ![t] = w]
  BY DEF InsertMark
<1>2. /\ work[t] \in [op : {"list"}, stage : {"select", "insert"}, user : Users,
                      todo : SUBSET Annts]
      /\ work \in [Threads -> Work \union {None}]
  BY <1>1 DEF TypeOK, At, Work
<1>3. w.user = v /\ w.todo = work[t].todo \ {b} /\ w # None /\ w.op = "list"
  <2>1. w \in Work
    BY <1>2 DEF Work
  <2>. QED BY <1>2, <2>1
<1>. HIDE DEF w
<1>4. CASE a # b \/ u # v
  <2>1. marks'[a][u] = marks[a][u]
    BY <1>1, <1>1a, <1>4 DEF TypeOK
  <2>2. Pending(a, u)' \subseteq Pending(a, u)
    BY <1>1, <1>1a, <1>2, <1>3 DEF Pending, At
  <2>. QED BY <1>1, <2>1, <2>2, PairStays
<1>5. CASE a = b /\ u = v
  <2>1. t \in Pending(a, u)
    BY <1>1, <1>5 DEF Pending
  <2>2. Pending(a, u)' = Pending(a, u) \ {t}
    BY <1>1, <1>1a, <1>2, <1>3, <1>5 DEF Pending, At
  <2>3. marks'[a][u] = Unread(marks[a][u])
    BY <1>1, <1>1a, <1>5 DEF TypeOK
  <2>4. Count(a, u)' = Count(a, u) + 1 /\ Count(a, u) \in Nat
    BY <1>1, <2>3 DEF Count, Unread, Marks
  <2>5. annt[a] # None /\ <<a, u>> \notin seen
    BY <1>1, <1>5, <2>1 DEF InsertsFind, PairInv, SeenIsRead
  <2>6. PairBounded(a, u)'
    BY <1>1, <2>1, <2>2, <2>4, BoundSteps DEF PairInv
  <2>. QED BY <1>1, <2>4, <2>5, <2>6
           DEF PairInv, MarksFind, NamedIsMarked, SeenIsRead
<1>. QED BY <1>4, <1>5

\* Every step, for one pair.
LEMMA NextPair ==
    ASSUME MarksInv, TypeInv', [Next]_vars, NEW a \in Annts, NEW u \in Users
    PROVE  PairInv(a, u)'
<1> USE DEF history
<1>1. ASSUME work' = work, marks' = marks, UNCHANGED history
      PROVE  PairInv(a, u)'
  BY <1>1, PairStays DEF Pending, At
<1>2. ASSUME NEW t \in Threads, NEW w, work' = [work EXCEPT ![t] = w],
             w = None \/ w.op # "list", marks' = marks, UNCHANGED history
      PROVE  PairInv(a, u)'
  BY <1>2, PendingStays, PairStays DEF MarksInv, TypeInv
<1>3. ASSUME NEW t \in Threads, NEW b \in Annts, ReadForEdit(t, b)
      PROVE  PairInv(a, u)'
  BY <1>2, <1>3 DEF ReadForEdit
<1>4. ASSUME NEW t \in Threads, NEW op \in {"release", "revoke", "delete"},
             NEW b \in Annts, ReadForUpdate(t, op, b)
      PROVE  PairInv(a, u)'
  <2>. DEFINE w == [op |-> op, annt |-> b, copy |-> annt[b]]
  <2>1. work' = [work EXCEPT ![t] = w] /\ w.op # "list"
    BY <1>4 DEF ReadForUpdate
  <2>. HIDE DEF w
  <2>. QED BY <1>2, <1>4, <2>1 DEF ReadForUpdate
<1>5. ASSUME NEW t \in Threads, Update(t)
      PROVE  PairInv(a, u)'
  BY <1>2, <1>5 DEF Update, End
<1>6. CASE UNCHANGED vars
  BY <1>1, <1>6 DEF vars
<1>7. ASSUME NEW b \in Annts, Import(b)
      PROVE  PairInv(a, u)'
  BY <1>1, <1>7 DEF Import
<1>8. ASSUME NEW S \in SUBSET Annts, NEW v \in Users, MarkRead(S, v)
      PROVE  PairInv(a, u)'
  BY <1>8, ReadPair
<1>9. ASSUME NEW b \in Annts,
             \/ \E users \in SUBSET Users : Add(b, users)
             \/ \E v \in Users : AddMark(b, v) \/ WriteMark(b, v)
      PROVE  PairInv(a, u)'
  BY <1>9, AddPair, ConsolePair
<1>10. ASSUME NEW t \in Threads,
              \/ \E b \in Annts : InsertMark(t, b)
              \/ \E users \in SUBSET Users : \/ Edit(t, users, None, None)
                                             \/ Edit(t, users, Published, FALSE)
              \/ \E v \in Users : List(t, v)
              \/ Select(t)
       PROVE  PairInv(a, u)'
  BY <1>10, InsertPair, EditPair, ListPair, SelectPair
<1>11. CASE \E v \in Users : ReadAll(v) \/ \E b \in Annts : ReadOne(b, v)
  BY <1>8, <1>11 DEF ReadAll, ReadOne
<1>. QED BY <1>3, <1>4, <1>5, <1>6, <1>7, <1>9, <1>10, <1>11 DEF Next

LEMMA NextInsertsFind ==
    ASSUME TypeInv, InsertsFind, TypeInv', [Next]_vars
    PROVE  InsertsFind'
<1> USE NoneAssumption DEF history
<1>1. TypeOK /\ TypeOK' /\ work \in [Threads -> Work \union {None}]
  BY DEF TypeInv, TypeOK
<1>2. ASSUME \A t \in Threads : \A b \in Annts :
                 (work'[t] # None /\ work'[t].op = "list" /\ work'[t].stage = "insert"
                    /\ b \in work'[t].todo)
                   => \/ annt[b] # None
                      \/ /\ work[t] # None /\ work[t].op = "list"
                         /\ work[t].stage = "insert" /\ b \in work[t].todo
      PROVE  InsertsFind'
  <2> SUFFICES ASSUME NEW t \in Threads, work'[t] # None, work'[t].op = "list",
                      work'[t].stage = "insert", NEW b \in work'[t].todo
               PROVE  annt'[b] # None
    BY DEF InsertsFind, At
  <2>1. b \in Annts
    BY <1>1 DEF TypeOK, Work
  <2>2. annt[b] # None
    BY <1>2, <2>1 DEF InsertsFind, At
  <2>. QED BY <1>1, <2>1, <2>2, RowsStay
<1>3. ASSUME NEW t \in Threads, NEW w, work' = [work EXCEPT ![t] = w],
             w = None \/ w.op # "list" \/ w.stage # "insert"
      PROVE  InsertsFind'
  BY <1>1, <1>2, <1>3
<1>4. ASSUME NEW t \in Threads, NEW a \in Annts, InsertMark(t, a)
      PROVE  InsertsFind'
  <2>. DEFINE w == [work[t] EXCEPT !.todo = work[t].todo \ {a}]
  <2>1. work' = [work EXCEPT ![t] = None] \/ work' = [work EXCEPT ![t] = w]
    BY <1>4 DEF InsertMark
  <2>2. /\ work[t] # None /\ work[t].op = "list" /\ work[t].stage = "insert"
        /\ w.todo \subseteq work[t].todo
    BY <1>1, <1>4 DEF InsertMark, At, Work
  <2>. HIDE DEF w
  <2>3. CASE work' = [work EXCEPT ![t] = w]
    BY <1>1, <1>2, <2>2, <2>3
  <2>. QED BY <1>3, <2>1, <2>3
<1>5. ASSUME NEW t \in Threads, Select(t)
      PROVE  InsertsFind'
  <2>. DEFINE new == {a \in work[t].todo : Public(a)}
              w == [work[t] EXCEPT !.stage = "insert", !.todo = new]
  <2>1. work' = [work EXCEPT ![t] = None] \/ work' = [work EXCEPT ![t] = w]
    BY <1>5 DEF Select
  <2>2. \A b \in w.todo : annt[b] # None
    BY <1>1, <1>5 DEF Select, At, Work, Public
  <2>. HIDE DEF w
  <2>3. CASE work' = [work EXCEPT ![t] = w]
    BY <1>1, <1>2, <2>2, <2>3
  <2>. QED BY <1>3, <2>1, <2>3
<1>6. ASSUME NEW t \in Threads,
             \/ Update(t)
             \/ \E users \in SUBSET Users : \/ Edit(t, users, None, None)
                                            \/ Edit(t, users, Published, FALSE)
      PROVE  InsertsFind'
  BY <1>3, <1>6 DEF Update, Edit, End
<1>7. ASSUME NEW t \in Threads, NEW u \in Users, List(t, u)
      PROVE  InsertsFind'
  BY <1>3, <1>7 DEF List
<1>8. ASSUME NEW t \in Threads, NEW a \in Annts, ReadForEdit(t, a)
      PROVE  InsertsFind'
  BY <1>3, <1>8 DEF ReadForEdit
<1>9. ASSUME NEW t \in Threads, NEW op \in {"release", "revoke", "delete"},
             NEW a \in Annts, ReadForUpdate(t, op, a)
      PROVE  InsertsFind'
  <2>. DEFINE w == [op |-> op, annt |-> a, copy |-> annt[a]]
  <2>1. work' = [work EXCEPT ![t] = w] /\ w.op # "list"
    BY <1>9 DEF ReadForUpdate
  <2>. HIDE DEF w
  <2>. QED BY <1>3, <2>1
<1>10. ASSUME work' = work
       PROVE  InsertsFind'
  BY <1>2, <1>10
<1>. QED BY <1>4, <1>5, <1>6, <1>7, <1>8, <1>9, <1>10
     DEF Next, vars, Add, Import, AddMark, WriteMark, ReadOne, ReadAll, MarkRead

LEMMA MarksInvariant == Spec => []MarksInv
<1>1. Init => MarksInv
  <2> SUFFICES ASSUME Init PROVE MarksInv
    OBVIOUS
  <2>1. TypeInv /\ InsertsFind
    BY InitTypeOK DEF Init, TypeInv, EditFinds, InsertsFind, At
  <2>2. ASSUME NEW a \in Annts, NEW u \in Users
        PROVE  PairInv(a, u)
    <3>1. Count(a, u) = 0 /\ u \notin told[a] /\ <<a, u>> \notin seen
      BY DEF Init, Count, NoMarks
    <3>2. PairBounded(a, u)
      BY <3>1, PendingFinite, OpsAssumption DEF PairBounded
    <3>. QED BY <3>1, <3>2 DEF PairInv, MarksFind, NamedIsMarked, SeenIsRead
  <2>. QED BY <2>1, <2>2 DEF MarksInv
<1>2. MarksInv /\ [Next]_vars => MarksInv'
  <2> SUFFICES ASSUME MarksInv, [Next]_vars
               PROVE  MarksInv'
    OBVIOUS
  <2>1. TypeInv'
    BY NextTypeInv DEF MarksInv
  <2>2. InsertsFind'
    BY <2>1, NextInsertsFind DEF MarksInv
  <2>. QED BY <2>1, <2>2, NextPair DEF MarksInv
<1>. QED BY <1>1, <1>2, PTL DEF Spec

\* Whatever listings, edits and console writes overlap, what a user marked as
\* read stays read: no listing under way still has a mark of it to insert.
THEOREM ReadStaysReadCorrect == Spec => []ReadStaysRead
<1>1. MarksInv => ReadStaysRead
  BY DEF MarksInv, TypeInv, TypeOK, PairInv, SeenIsRead, ReadStaysRead
<1>. QED BY <1>1, MarksInvariant, PTL

\* However many listings of a user overlap, listByUser inserts no more marks of
\* an announcement than there are threads.
THEOREM MarksBoundedCorrect == Spec => []MarksBounded
<1>1. ASSUME MarksInv, NEW a \in Annts, NEW u \in Users
      PROVE  Count(a, u) <= Cardinality(Threads) + MaxMarks
  <2>1. PairBounded(a, u) /\ Count(a, u) \in Nat
    BY <1>1 DEF MarksInv, PairInv, TypeInv, TypeOK, Count, Marks
  <2>. QED BY <2>1, PendingFinite, OpsAssumption DEF PairBounded
<1>2. MarksInv => MarksBounded
  BY <1>1 DEF MarksBounded
<1>. QED BY <1>2, MarksInvariant, PTL

\* Whom saveAnnouncement or upDateAnnouncement names has a mark from then on,
\* whatever calls overlap with it.
THEOREM NamedAreMarkedCorrect == Spec => []NamedAreMarked
<1>1. MarksInv => NamedAreMarked
  BY DEF MarksInv, TypeInv, TypeOK, PairInv, NamedIsMarked, NamedAreMarked
<1>. QED BY <1>1, MarksInvariant, PTL
=============================================================================
