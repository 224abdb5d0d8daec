-------------------------- MODULE QuartzJobsProofs --------------------------
(***************************************************************************)
(* Theorems about QuartzJobs, for any classes, keys, threads and setups.   *)
(***************************************************************************)
EXTENDS QuartzJobs, FiniteSetTheorems, TLAPS

-----------------------------------------------------------------------------
(***************************************************************************)
(* What a thread holds at each stage of its call.                          *)
(***************************************************************************)
HeldOK(w) ==
    /\ w.stage # "read" => w.row # None
    /\ w.stage \in {"scheduleDelete", "schedulePause", "update", "remove"}
          => w.key # None
    /\ w.op = "add" => /\ w.stage \in {"scheduleAdd", "save"}
                       /\ w.stage = "scheduleAdd" => w.row.status = Normal
    /\ w.op = "pause" => /\ w.stage \in {"schedulePause", "update"}
                         /\ w.row.status = Disable
    /\ w.op = "resume" => /\ w.stage \in {"scheduleDelete", "scheduleAdd", "update"}
                          /\ w.row.status = Normal
    /\ w.op = "edit" =>
          \/ /\ w.stage \in {"scheduleDelete", "scheduleAdd", "update"}
             /\ w.row.status = Normal
          \/ w.stage \in {"schedulePause", "update"} /\ w.row.status # Normal
    /\ w.op = "delete" => w.stage \in {"read", "scheduleDelete", "remove"}
    /\ w.op # "add" /\ w.stage = "scheduleAdd" => w.key # None

HeldInv == \A t \in Threads :
              work[t] # None => work[t] \in Work /\ HeldOK(work[t])

TypeInv == TypeOK /\ HeldInv

\* What a step of thread t may do to the state, as far as types go.
Moves(t, w) ==
    /\ work' = [work EXCEPT ![t] = w]
    /\ w # None => w \in Work /\ HeldOK(w)
    /\ table' \in [Keys -> Row \union {None}]
    /\ sched' \in [Classes -> {"absent", "running", "paused"}]
    /\ setup' = setup /\ crashes' = crashes

LEMMA ArriveMoves ==
    ASSUME TypeInv, NEW t \in Threads, Arrive(t)
    PROVE  \E w : Moves(t, w)
<1> USE NoneAssumption DEF TypeInv, TypeOK
<1>. DEFINE New(op, stage, key, row) ==
       [op |-> op, stage |-> stage, key |-> key, row |-> row, todo |-> {}]
<1>1. ASSUME NEW op \in Op, NEW stage \in Stage, NEW key \in Keys \union {None},
             NEW row \in Row \union {None},
             HeldOK(New(op, stage, key, row)), Begin(t, op, stage, key, row),
             UNCHANGED <<setup, table, sched, crashes>>
      PROVE  \E w : Moves(t, w)
  <2>1. New(op, stage, key, row) \in Work
    BY DEF Work
  <2>. QED BY <1>1, <2>1 DEF Moves, Begin
<1>2. ASSUME NEW r \in Row, Add(t, r)
      PROVE  \E w : Moves(t, w)
  <2>. DEFINE stage == IF r.status = Normal THEN "scheduleAdd" ELSE "save"
  <2>1. HeldOK(New("add", stage, None, r)) /\ stage \in Stage /\ "add" \in Op
    BY DEF HeldOK, Stage, Op
  <2>. QED BY <1>1, <1>2, <2>1 DEF Add
<1>3. ASSUME NEW r \in Row, NEW k \in Keys, Edit(t, k, r)
      PROVE  \E w : Moves(t, w)
  <2>. DEFINE stage == IF r.status = Normal THEN "scheduleDelete" ELSE "schedulePause"
  <2>1. HeldOK(New("edit", stage, k, r)) /\ stage \in Stage /\ "edit" \in Op
    BY DEF HeldOK, Stage, Op, Row
  <2>. QED BY <1>1, <1>3, <2>1 DEF Edit
<1>4. ASSUME NEW c \in Classes, Pause(t, c)
      PROVE  \E w : Moves(t, w)
  <2>. PICK k \in Keys : /\ Rows(c) = {k}
                         /\ Begin(t, "pause", "schedulePause", k,
                                  [table[k] EXCEPT !.status = Disable])
    BY <1>4 DEF Pause
  <2>. DEFINE r == [table[k] EXCEPT !.status = Disable]
  <2>1. r \in Row /\ r.status = Disable
    BY DEF Rows, Row
  <2>. HIDE DEF r
  <2>2. HeldOK(New("pause", "schedulePause", k, r))
        /\ "schedulePause" \in Stage /\ "pause" \in Op
    BY <2>1 DEF HeldOK, Stage, Op
  <2>3. Begin(t, "pause", "schedulePause", k, r)
    BY DEF r
  <2>. QED BY <1>1, <1>4, <2>1, <2>2, <2>3 DEF Pause
<1>5. ASSUME NEW c \in Classes, Resume(t, c)
      PROVE  \E w : Moves(t, w)
  <2>. PICK k \in Keys : /\ Rows(c) = {k}
                         /\ Begin(t, "resume", "scheduleDelete", k,
                                  [table[k] EXCEPT !.status = Normal])
    BY <1>5 DEF Resume
  <2>. DEFINE r == [table[k] EXCEPT !.status = Normal]
  <2>1. r \in Row /\ r.status = Normal
    BY DEF Rows, Row
  <2>. HIDE DEF r
  <2>2. HeldOK(New("resume", "scheduleDelete", k, r))
        /\ "scheduleDelete" \in Stage /\ "resume" \in Op
    BY <2>1 DEF HeldOK, Stage, Op
  <2>3. Begin(t, "resume", "scheduleDelete", k, r)
    BY DEF r
  <2>. QED BY <1>1, <1>5, <2>1, <2>2, <2>3 DEF Resume
<1>6. ASSUME NEW S \in SUBSET Keys, Delete(t, S)
      PROVE  \E w : Moves(t, w)
  <2>. DEFINE w == [op |-> "delete", stage |-> "read", key |-> None, row |-> None,
                    todo |-> S]
  <2>1. w \in Work /\ HeldOK(w)
    BY DEF Work, HeldOK, Op, Stage
  <2>. QED BY <1>6, <2>1 DEF Delete, Moves
<1>. QED BY <1>2, <1>3, <1>4, <1>5, <1>6 DEF Arrive

\* What updateById writes is a row, of the class of the form; its status is the
\* form's unless that is null.
LEMMA Written ==
    ASSUME NEW old \in Row, NEW row \in Row
    PROVE  LET new == [row EXCEPT !.status =
                         IF row.status = None THEN old.status ELSE row.status]
           IN  /\ new \in Row /\ new.cls = row.cls
               /\ row.status # None => new = row
BY DEF Row

LEMMA StepMoves ==
    ASSUME TypeInv, NEW t \in Threads, Step(t)
    PROVE  \E w : Moves(t, w)
<1> USE NoneAssumption DEF TypeInv, TypeOK, At
<1>1. work[t] \in Work /\ HeldOK(work[t])
  BY DEF HeldInv, Step, DeleteRead, ScheduleDelete, ScheduleAdd, SchedulePause,
     Save, Update, Remove
<1>2. /\ work[t].op \in Op /\ work[t].stage \in Stage
      /\ work[t].key \in Keys \union {None} /\ work[t].row \in Row \union {None}
      /\ work[t].todo \in SUBSET Keys
  BY <1>1 DEF Work
<1>3. ASSUME End(t), table' \in [Keys -> Row \union {None}],
             UNCHANGED <<setup, sched, crashes>>
      PROVE  \E w : Moves(t, w)
  BY <1>3 DEF Moves, End
<1>4. ASSUME NEW stage \in Stage, Goto(t, stage),
             HeldOK([work[t] EXCEPT !.stage = stage]),
             table' \in [Keys -> Row \union {None}],
             sched' \in [Classes -> {"absent", "running", "paused"}],
             UNCHANGED <<setup, crashes>>
      PROVE  \E w : Moves(t, w)
  <2>1. [work[t] EXCEPT !.stage = stage] \in Work
    BY <1>1 DEF Work
  <2>2. work' = [work EXCEPT ![t] = [work[t] EXCEPT !.stage = stage]]
    BY <1>4 DEF Goto
  <2>. QED BY <1>4, <2>1, <2>2 DEF Moves
<1>5. CASE DeleteRead(t)
  <2>. PICK k \in work[t].todo :
          work' = [work EXCEPT ![t] =
                     IF table[k] = None THEN None
                     ELSE [work[t] EXCEPT !.stage = "scheduleDelete", !.key = k,
                              !.row = table[k], !.todo = work[t].todo \ {k}]]
    BY <1>5 DEF DeleteRead
  <2>. DEFINE w == [work[t] EXCEPT !.stage = "scheduleDelete", !.key = k,
                              !.row = table[k], !.todo = work[t].todo \ {k}]
  <2>1. k \in Keys /\ work[t].op = "delete"
    BY <1>1, <1>2, <1>5 DEF DeleteRead, HeldOK, Op
  <2>2. CASE table[k] = None
    BY <1>3, <1>5, <2>2 DEF DeleteRead, End
  <2>3. CASE table[k] # None
    <3>1. w \in Work
      BY <1>1, <2>1, <2>3 DEF Work, Stage
    <3>2. HeldOK(w)
      BY <1>1, <2>1, <2>3 DEF HeldOK, Work
    <3>3. work' = [work EXCEPT ![t] = w]
      BY <2>3
    <3>. HIDE DEF w
    <3>. QED BY <1>5, <3>1, <3>2, <3>3 DEF DeleteRead, Moves
  <2>. QED BY <2>2, <2>3
<1>6. CASE ScheduleDelete(t)
  <2>. DEFINE stage == IF work[t].op = "delete" THEN "remove" ELSE "scheduleAdd"
  <2>1. HeldOK([work[t] EXCEPT !.stage = stage])
    BY <1>1, <1>6 DEF ScheduleDelete, HeldOK, Work, Op
  <2>2. stage \in Stage
    BY DEF Stage
  <2>. QED BY <1>4, <1>6, <2>1, <2>2 DEF ScheduleDelete
<1>7. CASE ScheduleAdd(t)
  <2>. DEFINE stage == IF work[t].op = "add" THEN "save" ELSE "update"
  <2>1. HeldOK([work[t] EXCEPT !.stage = stage])
    BY <1>1, <1>7 DEF ScheduleAdd, HeldOK, Work, Op
  <2>2. stage \in Stage
    BY DEF Stage
  <2>. QED BY <1>3, <1>4, <1>7, <2>1, <2>2 DEF ScheduleAdd
<1>8. CASE SchedulePause(t)
  <2>1. HeldOK([work[t] EXCEPT !.stage = "update"])
    BY <1>1, <1>8 DEF SchedulePause, HeldOK, Work, Op
  <2>2. "update" \in Stage
    BY DEF Stage
  <2>. QED BY <1>4, <1>8, <2>1, <2>2 DEF SchedulePause
<1>9. CASE Save(t)
  <2>1. work[t].row \in Row
    BY <1>1, <1>2, <1>9 DEF Save, HeldOK
  <2>. QED BY <1>3, <1>9, <2>1 DEF Save
<1>10. CASE Update(t)
  <2>1. work[t].row \in Row
    BY <1>1, <1>2, <1>10 DEF Update, HeldOK
  <2>2. table' \in [Keys -> Row \union {None}]
    BY <1>10, <2>1, Written DEF Update
  <2>. QED BY <1>3, <1>10, <2>2 DEF Update
<1>11. CASE Remove(t)
  <2>1. HeldOK([work[t] EXCEPT !.stage = "read"]) /\ "read" \in Stage
    BY <1>1, <1>11 DEF Remove, HeldOK, Work, Op, Stage
  <2>2. table' \in [Keys -> Row \union {None}]
    BY <1>11 DEF Remove
  <2>. QED BY <1>3, <1>4, <1>11, <2>1, <2>2 DEF Remove
<1>. QED BY <1>5, <1>6, <1>7, <1>8, <1>9, <1>10, <1>11 DEF Step

LEMMA NextTypeInv == TypeInv /\ [Next]_vars => TypeInv'
<1> SUFFICES ASSUME TypeInv, [Next]_vars
             PROVE  TypeInv'
  OBVIOUS
<1>1. ASSUME NEW t \in Threads, NEW w, Moves(t, w)
      PROVE  TypeInv'
  BY <1>1 DEF TypeInv, TypeOK, HeldInv, Moves
<1>2. setup.threads \subseteq Threads
  BY SetupsAssumption DEF TypeInv, TypeOK, Setup
<1>3. CASE Import
  BY <1>3 DEF Import, TypeInv, TypeOK, HeldInv, Sent
<1>4. CASE Crash
  BY <1>4, SetupsAssumption DEF Crash, TypeInv, TypeOK, HeldInv, Setup
<1>5. CASE UNCHANGED vars
  BY <1>5 DEF vars, TypeInv, TypeOK, HeldInv
<1>. QED BY <1>1, <1>2, <1>3, <1>4, <1>5, ArriveMoves, StepMoves DEF Next

LEMMA TypeInvariant == Spec => []TypeInv
<1>1. Init => TypeInv
  BY SetupsAssumption DEF Init, TypeInv, TypeOK, HeldInv, Setup
<1>. QED BY <1>1, NextTypeInv, PTL DEF Spec

\* Table, scheduler and calls keep their types, whatever the administrators do
\* and whenever the server crashes.
THEOREM TypeCorrect == Spec => []TypeOK
<1>1. TypeInv => TypeOK
  BY DEF TypeInv
<1>. QED BY <1>1, TypeInvariant, PTL

-----------------------------------------------------------------------------
(***************************************************************************)
(* While jobs are only added and paused, a trigger that is there stays     *)
(* there, and the scheduler takes one of the additions of a class: there is*)
(* one normal row or one call about to save it.                            *)
(***************************************************************************)
AddsAndPauses == Ops \subseteq {"add", "pause"}

NormalRows(c) == {k \in Rows(c) : table[k].status = Normal}
Saving(c) == {t \in Threads : /\ At(t, "save")
                             /\ work[t].row.cls = c
                             /\ work[t].row.status = Normal}

OneTaken(c) ==
    /\ \A k, l \in NormalRows(c) : k = l
    /\ \A s, t \in Saving(c) : s = t
    /\ NormalRows(c) = {} \/ Saving(c) = {}
    /\ sched[c] = "absent" => NormalRows(c) = {} /\ Saving(c) = {}

OnlyThese == \A t \in Threads : work[t] # None => work[t].op \in {"add", "pause"}

TakenInv == TypeInv /\ (AddsAndPauses => OnlyThese /\ \A c \in Classes : OneTaken(c))

LEMMA StepTaken ==
    ASSUME TakenInv, AddsAndPauses, TypeInv', NEW t \in setup.threads,
           t \in Threads, Arrive(t) \/ Step(t), NEW c \in Classes
    PROVE  OnlyThese' /\ OneTaken(c)'
<1> USE NoneAssumption DEF TakenInv, AddsAndPauses, Ops
<1>1. /\ OnlyThese /\ OneTaken(c)
      /\ table \in [Keys -> Row \union {None}]
      /\ work \in [Threads -> Work \union {None}]
      /\ sched \in [Classes -> {"absent", "running", "paused"}]
      /\ work[t] # None => /\ work[t] \in Work /\ HeldOK(work[t])
                          /\ work[t].op \in {"add", "pause"}
  BY DEF TypeInv, TypeOK, HeldInv, OnlyThese
\* Steps that take a call in or forward and leave the rows alone.
<1>2. ASSUME NEW w, work' = [work EXCEPT ![t] = w], table' = table,
             w = None \/ w.op \in {"add", "pause"},
             w = None \/ w.stage # "save" \/ w.row.status # Normal,
             sched[c] # "absent" => sched'[c] # "absent"
      PROVE  OnlyThese' /\ OneTaken(c)'
  <2>1. OnlyThese'
    BY <1>1, <1>2 DEF OnlyThese
  <2>2. Saving(c)' \subseteq Saving(c)
    BY <1>1, <1>2 DEF Saving, At
  <2>3. NormalRows(c)' = NormalRows(c)
    BY <1>2 DEF NormalRows, Rows
  <2>. QED BY <1>1, <1>2, <2>1, <2>2, <2>3 DEF OneTaken
<1>3. CASE Arrive(t)
  <2>1. ASSUME NEW r \in Row, Add(t, r)
        PROVE  OnlyThese' /\ OneTaken(c)'
    <3>. DEFINE w == [op |-> "add", key |-> None, row |-> r, todo |-> {},
                      stage |-> IF r.status = Normal THEN "scheduleAdd" ELSE "save"]
    <3>1. work' = [work EXCEPT ![t] = w] /\ table' = table /\ sched' = sched
      BY <2>1 DEF Add, Begin
    <3>2. w.op = "add" /\ (w.stage # "save" \/ w.row.status # Normal)
      OBVIOUS
    <3>. HIDE DEF w
    <3>. QED BY <1>2, <3>1, <3>2
  <2>2. ASSUME NEW d \in Classes, Pause(t, d)
        PROVE  OnlyThese' /\ OneTaken(c)'
    <3>. PICK k \in Keys : Begin(t, "pause", "schedulePause", k,
                                 [table[k] EXCEPT !.status = Disable])
      BY <2>2 DEF Pause
    <3>. DEFINE w == [op |-> "pause", stage |-> "schedulePause", key |-> k,
                      row |-> [table[k] EXCEPT !.status = Disable], todo |-> {}]
    <3>1. work' = [work EXCEPT ![t] = w] /\ table' = table /\ sched' = sched
      BY <2>2 DEF Pause, Begin
    <3>2. w.op = "pause" /\ w.stage # "save"
      OBVIOUS
    <3>. HIDE DEF w
    <3>. QED BY <1>2, <3>1, <3>2
  <2>. QED BY <1>3, <2>1, <2>2 DEF Arrive, Edit, Resume, Delete
<1>4. CASE SchedulePause(t)
  <2>. DEFINE w == [work[t] EXCEPT !.stage = "update"]
  <2>1. work' = [work EXCEPT ![t] = w] /\ table' = table
    BY <1>4 DEF SchedulePause, Goto
  <2>2. w.op \in {"add", "pause"} /\ w.stage # "save"
    BY <1>1, <1>4 DEF SchedulePause, At, Work
  <2>3. sched[c] # "absent" => sched'[c] # "absent"
    BY <1>1, <1>4 DEF SchedulePause
  <2>. HIDE DEF w
  <2>. QED BY <1>2, <2>1, <2>2, <2>3
<1>5. CASE ScheduleAdd(t)
  <2>. DEFINE d == work[t].row.cls
              w == [work[t] EXCEPT !.stage = "save"]
  <2>1. work[t].op = "add" /\ d \in Classes /\ work[t] # None
    BY <1>1, <1>5 DEF ScheduleAdd, At, HeldOK, Work, Row
  <2>2. CASE ~(work[t].row.good /\ sched[d] = "absent")
    BY <1>2, <1>5, <2>2 DEF ScheduleAdd, End
  <2>3. CASE work[t].row.good /\ sched[d] = "absent"
    <3>1. /\ work' = [work EXCEPT ![t] = w] /\ table' = table
          /\ sched' = [sched EXCEPT ![d] = "running"]
      BY <1>5, <2>1, <2>3 DEF ScheduleAdd, Goto
    <3>2. w.row = work[t].row /\ w.op = "add" /\ w.stage = "save" /\ w # None
      <4>1. w \in Work
        BY <1>1, <2>1 DEF Work, Stage
      <4>. QED BY <1>1, <2>1, <4>1 DEF Work
    <3>. HIDE DEF w
    <3>3. OnlyThese'
      BY <1>1, <3>1, <3>2 DEF OnlyThese
    <3>4. NormalRows(c)' = NormalRows(c)
      BY <3>1 DEF NormalRows, Rows
    <3>5. CASE c # d
      <4>1. Saving(c)' \subseteq Saving(c)
        BY <1>1, <3>1, <3>2, <3>5 DEF Saving, At
      <4>2. sched'[c] = sched[c]
        BY <1>1, <3>1, <3>5
      <4>. QED BY <1>1, <3>3, <3>4, <4>1, <4>2 DEF OneTaken
    <3>6. CASE c = d
      <4>1. NormalRows(c) = {} /\ Saving(c) = {}
        BY <1>1, <2>3, <3>6 DEF OneTaken
      <4>2. Saving(c)' \subseteq {t}
        BY <1>1, <3>1, <4>1 DEF Saving, At
      <4>3. sched'[c] = "running"
        BY <1>1, <3>1, <3>6
      <4>. QED BY <3>3, <3>4, <4>1, <4>2, <4>3 DEF OneTaken
    <3>. QED BY <3>5, <3>6
  <2>. QED BY <2>2, <2>3
<1>6. CASE Save(t)
  <2>. DEFINE r == work[t].row
              k == CHOOSE l \in FreeKeys : TRUE
  <2>1. /\ At(t, "save") /\ r \in Row /\ k \in Keys /\ table[k] = None
        /\ table' = [table EXCEPT ![k] = r] /\ sched' = sched
        /\ work' = [work EXCEPT ![t] = None]
    <3>1. k \in FreeKeys
      BY <1>6 DEF Save
    <3>2. k \in Keys /\ table[k] = None
      BY <3>1, SetupsAssumption DEF FreeKeys, TypeInv, TypeOK, Setup
    <3>. QED BY <1>1, <1>6, <3>2 DEF Save, End, At, HeldOK, Work
  <2>. HIDE DEF k
  <2>2. OnlyThese' /\ Saving(c)' = Saving(c) \ {t}
    BY <1>1, <2>1 DEF OnlyThese, Saving, At
  <2>3. CASE t \in Saving(c)
    <3>1. NormalRows(c) = {} /\ Saving(c) = {t} /\ sched[c] # "absent"
      BY <1>1, <2>3 DEF OneTaken
    <3>2. NormalRows(c)' \subseteq {k}
      BY <1>1, <2>1, <3>1 DEF NormalRows, Rows
    <3>. QED BY <2>1, <2>2, <3>1, <3>2 DEF OneTaken
  <2>4. CASE t \notin Saving(c)
    <3>1. r.cls # c \/ r.status # Normal
      BY <2>1, <2>4 DEF Saving
    <3>2. NormalRows(c)' = NormalRows(c)
      BY <1>1, <2>1, <3>1 DEF NormalRows, Rows
    <3>. QED BY <1>1, <2>1, <2>2, <3>2 DEF OneTaken
  <2>. QED BY <2>3, <2>4
<1>7. CASE Update(t)
  <2>. DEFINE r == work[t].row
              k == work[t].key
  <2>1. /\ At(t, "update") /\ r \in Row /\ r.status = Disable /\ sched' = sched
        /\ work' = [work EXCEPT ![t] = None]
        /\ table' = IF table[k] = None THEN table ELSE [table EXCEPT ![k] = r]
    <3>1. /\ At(t, "update") /\ r \in Row /\ r.status = Disable /\ sched' = sched
          /\ work' = [work EXCEPT ![t] = None] /\ k \in Keys
      BY <1>1, <1>7 DEF Update, End, At, HeldOK, Work
    <3>2. table[k] # None => [r EXCEPT !.status =
                       IF r.status = None THEN table[k].status ELSE r.status] = r
      BY <1>1, <3>1, Written
    <3>. QED BY <1>7, <3>1, <3>2 DEF Update
  <2>2. OnlyThese' /\ Saving(c)' \subseteq Saving(c)
    BY <1>1, <2>1 DEF OnlyThese, Saving, At
  <2>3. NormalRows(c)' \subseteq NormalRows(c)
    BY <1>1, <2>1 DEF NormalRows, Rows, Normal, Disable
  <2>. QED BY <1>1, <2>1, <2>2, <2>3 DEF OneTaken
<1>8. ~DeleteRead(t) /\ ~ScheduleDelete(t) /\ ~Remove(t)
  BY <1>1 DEF DeleteRead, ScheduleDelete, Remove, At, HeldOK
<1>. QED BY <1>3, <1>4, <1>5, <1>6, <1>7, <1>8 DEF Step

LEMMA TakenInvariant == Spec => []TakenInv
<1> USE NoneAssumption DEF TakenInv
<1>1. Init => TakenInv
  <2> SUFFICES ASSUME Init PROVE TakenInv
    OBVIOUS
  <2>1. TypeInv
    BY SetupsAssumption DEF Init, TypeInv, TypeOK, HeldInv, Setup
  <2>2. OnlyThese /\ \A c \in Classes : NormalRows(c) = {} /\ Saving(c) = {}
    BY DEF Init, OnlyThese, NormalRows, Rows, Saving, At
  <2>. QED BY <2>1, <2>2 DEF OneTaken
<1>2. TakenInv /\ [Next]_vars => TakenInv'
  <2> SUFFICES ASSUME TakenInv, [Next]_vars, AddsAndPauses'
               PROVE  OnlyThese' /\ \A c \in Classes : OneTaken(c)'
    BY NextTypeInv
  <2>1. TypeInv' /\ setup.threads \subseteq Threads
    BY NextTypeInv, SetupsAssumption DEF TypeInv, TypeOK, Setup
  <2>2. setup' = setup
    BY DEF Next, vars, Arrive, Step, Add, Edit, Pause, Resume, Delete, DeleteRead,
       ScheduleDelete, ScheduleAdd, SchedulePause, Save, Update, Remove, Import, Crash
  <2>3. AddsAndPauses
    BY <2>2 DEF AddsAndPauses, Ops
  <2>4. ASSUME NEW t \in setup.threads, Arrive(t) \/ Step(t), NEW c \in Classes
        PROVE  OnlyThese' /\ OneTaken(c)'
    BY <2>1, <2>3, <2>4, StepTaken
  <2>5. ~Import
    BY <2>3 DEF AddsAndPauses, Import
  <2>6. ASSUME table' = table, sched' = sched, \A t \in Threads :
                  work'[t] = None \/ work'[t] = work[t]
        PROVE  OnlyThese' /\ \A c \in Classes : OneTaken(c)'
    <3>1. OnlyThese'
      BY <2>3, <2>6 DEF OnlyThese
    <3>2. ASSUME NEW c \in Classes
          PROVE  OneTaken(c)'
      <4>1. NormalRows(c)' = NormalRows(c) /\ Saving(c)' \subseteq Saving(c)
        BY <2>6 DEF NormalRows, Rows, Saving, At
      <4>. QED BY <2>3, <2>6, <4>1 DEF OneTaken
    <3>. QED BY <3>1, <3>2
  <2>7. CASE Crash
    BY <2>6, <2>7 DEF Crash
  <2>8. CASE UNCHANGED vars
    BY <2>6, <2>8 DEF vars
  <2>9. CASE \E t \in setup.threads : Arrive(t) \/ Step(t)
    <3>1. \A c \in Classes : OneTaken(c)'
      BY <2>4, <2>9
    <3>2. Classes # {} => OnlyThese'
      BY <2>4, <2>9
    <3>3. Classes # {}
      <4> SUFFICES ASSUME Classes = {} PROVE FALSE
        OBVIOUS
      <4>. PICK t \in setup.threads : Arrive(t) \/ Step(t)
        BY <2>9
      <4>1. \A r : r \notin Row
        BY DEF Row
      <4>2. work[t] # None => /\ work[t] \in Work /\ HeldOK(work[t])
                             /\ work[t].op \in {"add", "pause"}
        BY <2>1, <2>3 DEF TypeInv, HeldInv, OnlyThese
      <4>3. work[t] # None => FALSE
        BY <4>1, <4>2 DEF HeldOK, Work
      <4>4. ~Step(t)
        BY <4>3 DEF Step, At, DeleteRead, ScheduleDelete, ScheduleAdd, SchedulePause,
           Save, Update, Remove
      <4>5. ~Arrive(t)
        BY <2>3, <4>1 DEF Arrive, AddsAndPauses, Ops, Edit, Resume, Delete
      <4>. QED BY <4>4, <4>5
    <3>. QED BY <3>1, <3>2, <3>3
  <2>. QED BY <2>5, <2>7, <2>8, <2>9 DEF Next
<1>. QED BY <1>1, <1>2, PTL DEF Spec

\* Of overlapping additions of a class that all found no row, one at most leaves
\* a normal row: scheduleJob throws on the others before they save.
THEOREM OneNormalRowCorrect == Spec => []OneNormalRow
<1>1. ASSUME TakenInv, AddsAndPauses, NEW c \in Classes
      PROVE  Cardinality(NormalRows(c)) <= 1
  <2>1. \A k, l \in NormalRows(c) : k = l
    BY <1>1 DEF TakenInv, OneTaken
  <2>2. CASE NormalRows(c) = {}
    BY <2>2, FS_EmptySet
  <2>3. ASSUME NEW k \in NormalRows(c)
        PROVE  Cardinality(NormalRows(c)) <= 1
    <3>1. NormalRows(c) = {k}
      BY <2>1, <2>3
    <3>. QED BY <3>1, FS_Singleton
  <2>. QED BY <2>2, <2>3
<1>2. TakenInv => OneNormalRow
  BY <1>1 DEF OneNormalRow, NormalRows, AddsAndPauses
<1>. QED BY <1>2, TakenInvariant, PTL

-----------------------------------------------------------------------------
(***************************************************************************)
(* One administrator at a time: nobody else touches the trigger between the*)
(* two halves of a call, and imports and crashes never do.                 *)
(***************************************************************************)
Alone == Cardinality(setup.threads) = 1

InStep(w, rows, trig) ==
    /\ w.stage = "save" /\ w.row.status = Normal => trig[w.row.cls] = "running"
    /\ w.stage = "update" =>
          (w.row.status = Normal <=> trig[w.row.cls] = "running")
    /\ w.stage = "remove" => trig[w.row.cls] = "absent"
    /\ w.stage \in {"scheduleDelete", "schedulePause", "update", "remove"}
          => rows[w.key] # None
    /\ w.stage = "scheduleAdd" /\ w.op # "add" => rows[w.key] # None
    /\ w.op = "delete" /\ w.stage # "read" => rows[w.key] = w.row

AloneInv ==
    /\ TypeInv
    /\ Alone => \A t \in Threads :
           work[t] # None => t \in setup.threads /\ InStep(work[t], table, sched)

\* A set of one element, or none, has no two.
LEMMA AtMostOne ==
    ASSUME NEW S, IsFiniteSet(S), Cardinality(S) <= 1, NEW x \in S, NEW y \in S
    PROVE  x = y
<1> SUFFICES ASSUME x # y PROVE FALSE
  OBVIOUS
<1>1. Cardinality({x}) = 1 /\ IsFiniteSet({x})
  BY FS_Singleton
<1>2. Cardinality({x} \union {y}) = 2 /\ IsFiniteSet({x} \union {y})
  BY <1>1, FS_AddElement
<1>3. Cardinality({x} \union {y}) <= Cardinality(S)
  BY FS_Subset
<1>4. Cardinality(S) \in Nat
  BY FS_CardinalityType
<1>. QED BY <1>2, <1>3, <1>4

LEMMA AloneThread ==
    ASSUME TypeInv, Alone, NEW s \in setup.threads, NEW t \in setup.threads
    PROVE  s = t
<1>1. setup.threads \subseteq Threads
  BY SetupsAssumption DEF TypeInv, TypeOK, Setup
<1>2. IsFiniteSet(setup.threads)
  BY <1>1, FiniteAssumption, FS_Subset
<1>. QED BY <1>2, AtMostOne DEF Alone

LEMMA StepAlone ==
    ASSUME AloneInv, Alone, TypeInv', NEW t \in setup.threads, t \in Threads,
           Arrive(t) \/ Step(t), NEW s \in Threads, work'[s] # None
    PROVE  s \in setup.threads /\ InStep(work'[s], table', sched')
<1> USE NoneAssumption DEF AloneInv
<1>1. /\ table \in [Keys -> Row \union {None}]
      /\ work \in [Threads -> Work \union {None}]
      /\ sched \in [Classes -> {"absent", "running", "paused"}]
      /\ work[t] # None => /\ work[t] \in Work /\ HeldOK(work[t])
                          /\ InStep(work[t], table, sched)
  BY DEF TypeInv, TypeOK, HeldInv
<1>2. \E w : work' = [work EXCEPT ![t] = w]
  BY ArriveMoves, StepMoves DEF Moves
<1>3. s = t
  <2>1. s # t => work'[s] = work[s]
    BY <1>1, <1>2
  <2>. QED BY <2>1, AloneThread
<1>. SUFFICES InStep(work'[s], table', sched')
  BY <1>3
<1>4. ASSUME NEW w, work' = [work EXCEPT ![t] = w],
             w # None => InStep(w, table', sched')
      PROVE  InStep(work'[s], table', sched')
  <2>1. work'[s] = w
    BY <1>1, <1>3, <1>4
  <2>. QED BY <1>4, <2>1 DEF InStep
<1>5. CASE Arrive(t)
  <2>1. ASSUME NEW op \in Op, NEW stage \in Stage, NEW key, NEW row,
               Begin(t, op, stage, key, row), UNCHANGED <<table, sched>>,
               \/ op = "add" /\ stage = "scheduleAdd"
               \/ op = "add" /\ stage = "save" /\ row.status # Normal
               \/ op # "add" /\ stage \in {"scheduleDelete", "schedulePause"}
                  /\ table[key] # None /\ op # "delete"
        PROVE  InStep(work'[s], table', sched')
    <3>. DEFINE w == [op |-> op, stage |-> stage, key |-> key, row |-> row,
                      todo |-> {}]
    <3>1. InStep(w, table', sched')
      BY <2>1 DEF InStep
    <3>. QED BY <1>4, <2>1, <3>1 DEF Begin
  <2>2. ASSUME NEW r \in Row, Add(t, r)
        PROVE  InStep(work'[s], table', sched')
    BY <2>1, <2>2 DEF Add, Op, Stage
  <2>3. ASSUME NEW r \in Row, NEW k \in Keys, Edit(t, k, r)
        PROVE  InStep(work'[s], table', sched')
    BY <2>1, <2>3 DEF Edit, Op, Stage
  <2>4. ASSUME NEW c \in Classes, Pause(t, c) \/ Resume(t, c)
        PROVE  InStep(work'[s], table', sched')
    <3>1. \A k \in Keys : Rows(c) = {k} => table[k] # None
      BY DEF Rows
    <3>. QED BY <2>1, <2>4, <3>1 DEF Pause, Resume, Op, Stage
  <2>5. ASSUME NEW S \in SUBSET Keys, Delete(t, S)
        PROVE  InStep(work'[s], table', sched')
    <3>. PICK w : w = [op |-> "delete", stage |-> "read", key |-> None,
                      row |-> None, todo |-> S]
      OBVIOUS
    <3>1. InStep(w, table', sched')
      BY DEF InStep
    <3>2. work' = [work EXCEPT ![t] = w]
      BY <2>5 DEF Delete
    <3>. QED BY <1>4, <3>1, <3>2
  <2>. QED BY <1>5, <2>2, <2>3, <2>4, <2>5 DEF Arrive
<1>6. CASE DeleteRead(t)
  <2>. PICK k \in work[t].todo :
          work' = [work EXCEPT ![t] =
                     IF table[k] = None THEN None
                     ELSE [work[t] EXCEPT !.stage = "scheduleDelete", !.key = k,
                              !.row = table[k], !.todo = @ \ {k}]]
    BY <1>6 DEF DeleteRead
  <2>. PICK w : w = [work[t] EXCEPT !.stage = "scheduleDelete", !.key = k,
                              !.row = table[k], !.todo = @ \ {k}]
    OBVIOUS
  <2>1. work[t] \in Work
    BY <1>1, <1>6 DEF DeleteRead, At
  <2>2. /\ w.stage = "scheduleDelete" /\ w.key = k /\ w.row = table[k]
        /\ w.op = work[t].op /\ table' = table
    BY <1>6, <2>1 DEF Work, DeleteRead
  <2>3. CASE table[k] = None
    <3>1. work'[s] = None
      BY <1>1, <1>3, <2>3
    <3>. QED BY <3>1
  <2>4. CASE table[k] # None
    <3>1. InStep(w, table', sched')
      BY <2>2, <2>4 DEF InStep
    <3>2. work' = [work EXCEPT ![t] = w]
      BY <2>4
    <3>. QED BY <1>4, <3>1, <3>2
  <2>. QED BY <2>3, <2>4
\* The stages that go on to another.
<1>7. ASSUME NEW v, v = work[t], NEW stage, Goto(t, stage), work[t] # None,
             InStep([v EXCEPT !.stage = stage], table', sched')
      PROVE  InStep(work'[s], table', sched')
  <2>. PICK w : w = [v EXCEPT !.stage = stage]
    OBVIOUS
  <2>1. work' = [work EXCEPT ![t] = w] /\ InStep(w, table', sched')
    BY <1>7 DEF Goto
  <2>. QED BY <1>4, <2>1
<1>. PICK v : v = work[t]
  OBVIOUS
<1>8. Step(t) => v \in Work /\ HeldOK(v) /\ InStep(v, table, sched) /\ v # None
  BY <1>1 DEF Step, At, DeleteRead, ScheduleDelete, ScheduleAdd, SchedulePause,
     Save, Update, Remove
<1>9. ASSUME NEW stage, v \in Work
      PROVE  LET w == [v EXCEPT !.stage = stage]
             IN  /\ w.op = v.op /\ w.key = v.key /\ w.row = v.row /\ w.stage = stage
                 /\ w.todo = v.todo
  BY <1>9 DEF Work
<1>10. Step(t) /\ v.stage # "read" => v.row \in Row /\ v.row.cls \in Classes
  BY <1>8 DEF HeldOK, Work, Row
<1>11. CASE ScheduleDelete(t)
  <2>. PICK stage : stage = IF v.op = "delete" THEN "remove" ELSE "scheduleAdd"
    OBVIOUS
  <2>1. /\ v.stage = "scheduleDelete" /\ Goto(t, stage) /\ table' = table
        /\ sched' = [sched EXCEPT ![v.row.cls] = "absent"] /\ Step(t)
    BY <1>11 DEF ScheduleDelete, At, Step
  <2>2. InStep([v EXCEPT !.stage = stage], table', sched')
    BY <1>1, <1>8, <1>9, <1>10, <2>1 DEF InStep
  <2>. QED BY <1>7, <1>8, <2>1, <2>2
<1>12. CASE ScheduleAdd(t)
  <2>. PICK stage : stage = IF v.op = "add" THEN "save" ELSE "update"
    OBVIOUS
  <2>1. v.stage = "scheduleAdd" /\ table' = table /\ Step(t)
    BY <1>12 DEF ScheduleAdd, At, Step
  <2>2. CASE v.row.good /\ sched[v.row.cls] = "absent"
    <3>1. Goto(t, stage) /\ sched' = [sched EXCEPT ![v.row.cls] = "running"]
      BY <1>12, <2>2 DEF ScheduleAdd
    <3>2. v.op # "delete" /\ (v.row.status = Normal)
      BY <1>8, <2>1 DEF HeldOK, Work, Op
    <3>3. InStep([v EXCEPT !.stage = stage], table', sched')
      BY <1>1, <1>8, <1>9, <1>10, <2>1, <3>1, <3>2 DEF InStep
    <3>. QED BY <1>7, <1>8, <2>1, <3>1, <3>3
  <2>3. CASE ~(v.row.good /\ sched[v.row.cls] = "absent")
    <3>1. work'[s] = None
      BY <1>1, <1>3, <1>12, <2>3 DEF ScheduleAdd, End
    <3>. QED BY <3>1
  <2>. QED BY <2>2, <2>3
<1>13. CASE SchedulePause(t)
  <2>1. /\ v.stage = "schedulePause" /\ Goto(t, "update") /\ table' = table
        /\ sched' = [sched EXCEPT ![v.row.cls] =
                        IF sched[v.row.cls] = "absent" THEN "absent" ELSE "paused"]
        /\ Step(t)
    BY <1>1, <1>13 DEF SchedulePause, At, Step
  <2>2. v.op # "delete" /\ v.row.status # Normal
    BY <1>8, <2>1 DEF HeldOK, Work, Op, Normal, Disable
  <2>3. InStep([v EXCEPT !.stage = "update"], table', sched')
    BY <1>1, <1>8, <1>9, <1>10, <2>1, <2>2 DEF InStep
  <2>. QED BY <1>7, <1>8, <2>1, <2>3
<1>14. CASE Save(t) \/ Update(t)
  <2>1. work'[s] = None
    BY <1>1, <1>3, <1>14 DEF Save, Update, End
  <2>. QED BY <2>1
<1>15. CASE Remove(t)
  <2>1. Goto(t, "read") /\ Step(t) /\ v.stage = "remove"
    <3>1. work[t].todo = {} => work'[s] = None
      BY <1>1, <1>3, <1>15 DEF Remove, End
    <3>. QED BY <1>15, <3>1 DEF Remove, Step, At
  <2>2. v.op = "delete"
    BY <1>8, <2>1 DEF HeldOK, Work, Op
  <2>3. InStep([v EXCEPT !.stage = "read"], table', sched')
    BY <1>8, <1>9, <2>1, <2>2 DEF InStep
  <2>. QED BY <1>7, <1>8, <2>1, <2>3
<1>. QED BY <1>5, <1>6, <1>11, <1>12, <1>13, <1>14, <1>15 DEF Step

LEMMA NextAlone == AloneInv /\ [Next]_vars => AloneInv'
<1> SUFFICES ASSUME AloneInv, [Next]_vars
             PROVE  AloneInv'
  OBVIOUS
<1> USE NoneAssumption
<1>1. TypeInv /\ TypeInv'
  BY NextTypeInv DEF AloneInv
<1>2. setup.threads \subseteq Threads
  BY <1>1, SetupsAssumption DEF TypeInv, TypeOK, Setup
<1>3. setup' = setup
  BY DEF Next, Arrive, Step, Add, Edit, Pause, Resume, Delete, DeleteRead,
     ScheduleDelete, ScheduleAdd, SchedulePause, Save, Update, Remove, Import,
     Crash, vars
<1>4. SUFFICES ASSUME Alone, NEW s \in Threads, work'[s] # None
               PROVE  s \in setup.threads /\ InStep(work'[s], table', sched')
  BY <1>1, <1>3 DEF AloneInv, Alone, InStep
<1>5. CASE \E t \in setup.threads : Arrive(t) \/ Step(t)
  BY <1>1, <1>2, <1>4, <1>5, StepAlone
<1>6. CASE Import
  <2>1. work' = work /\ sched' = sched
    BY <1>6 DEF Import
  <2>2. \A k \in Keys : table[k] # None => table'[k] = table[k]
    BY <1>1, <1>6 DEF Import, FreeKeys, TypeInv, TypeOK
  <2>. PICK v : v = work[s]
    OBVIOUS
  <2>3. /\ v \in Work /\ HeldOK(v) /\ InStep(v, table, sched)
        /\ s \in setup.threads
    BY <1>1, <1>4, <2>1 DEF AloneInv, TypeInv, HeldInv
  <2>4. v.key \in Keys \union {None} /\ (v.stage # "read" => v.row \in Row)
    BY <2>3 DEF Work, HeldOK
  <2>5. InStep(v, table', sched')
    BY <2>1, <2>2, <2>3, <2>4 DEF InStep, HeldOK, Work, Op
  <2>. QED BY <2>1, <2>3, <2>5
<1>7. CASE Crash
  BY <1>4, <1>7 DEF Crash
<1>8. CASE UNCHANGED vars
  BY <1>4, <1>8 DEF vars, AloneInv, InStep
<1>. QED BY <1>5, <1>6, <1>7, <1>8 DEF Next

LEMMA AloneInvariant == Spec => []AloneInv
<1>1. Init => AloneInv
  <2>1. Init => TypeInv
    BY SetupsAssumption DEF Init, TypeInv, TypeOK, HeldInv, Setup
  <2>. QED BY <2>1 DEF Init, AloneInv
<1>. QED BY <1>1, NextAlone, PTL DEF Spec

\* The step that completes a call.
LEMMA CompletionAgrees ==
    ASSUME AloneInv, Alone, [Next]_vars, NEW s \in Threads, NEW c \in Classes,
           work[s] # None, work'[s] # work[s], crashes' = crashes,
           work[s].stage \in {"save", "update", "remove"},
           work[s].op = "add" => work[s].row.status = Normal,
           work[s].op = "edit" => work[s].row.status # None,
           c = work[s].row.cls, Cardinality(Rows(c) \union Rows(c)') <= 1
    PROVE  Agree(c)'
<1> USE NoneAssumption
<1>1. TypeInv /\ setup.threads \subseteq Threads
  BY SetupsAssumption DEF AloneInv, TypeInv, TypeOK, Setup
<1>2. /\ table \in [Keys -> Row \union {None}]
      /\ work \in [Threads -> Work \union {None}]
      /\ crashes \in Nat
  BY <1>1, SetupsAssumption DEF TypeInv, TypeOK, Setup
<1>. PICK v : v = work[s]
  OBVIOUS
<1>3. v \in Work /\ HeldOK(v) /\ InStep(v, table, sched)
  BY <1>1 DEF AloneInv, TypeInv, HeldInv
<1>4. v.row \in Row /\ (v.stage \in {"update", "remove"} => v.key \in Keys)
  BY <1>3 DEF Work, HeldOK
<1>5. Save(s) \/ Update(s) \/ Remove(s)
  <2>1. ~Crash /\ ~Import /\ ~UNCHANGED vars
    BY <1>2 DEF Crash, Import, vars
  <2>. PICK t \in setup.threads : Arrive(t) \/ Step(t)
    BY <2>1 DEF Next
  <2>2. \E w : work' = [work EXCEPT ![t] = w]
    BY <1>1, ArriveMoves, StepMoves DEF Moves
  <2>3. s = t
    BY <1>1, <1>2, <2>2
  <2>4. ~Arrive(t)
    BY <2>3 DEF Arrive, Add, Edit, Pause, Resume, Delete
  <2>. QED
    BY <2>3, <2>4 DEF Step, DeleteRead, ScheduleDelete, ScheduleAdd,
       SchedulePause, At
<1>6. \A k, l \in Rows(c) \union Rows(c)' : k = l
  <2>1. Rows(c) \union Rows(c)' \subseteq Keys
    BY DEF Rows
  <2>2. IsFiniteSet(Rows(c) \union Rows(c)')
    BY <2>1, FiniteAssumption, FS_Subset
  <2>. QED BY <2>2, AtMostOne
<1>7. CASE Save(s)
  <2>1. v.stage = "save" /\ v.row.status = Normal /\ sched' = sched
    BY <1>3, <1>7 DEF Save, At, HeldOK, Work, Op
  <2>2. \E k \in Keys : table'[k] = v.row
    <3>. PICK k : k = CHOOSE l \in FreeKeys : TRUE
      OBVIOUS
    <3>1. FreeKeys # {} /\ table' = [table EXCEPT ![k] = v.row]
      BY <1>7 DEF Save
    <3>2. k \in Keys
      BY <1>1, <3>1, SetupsAssumption DEF FreeKeys, TypeInv, TypeOK, Setup
    <3>. QED BY <1>2, <3>1, <3>2
  <2>3. sched'[c] = "running"
    BY <1>3, <2>1 DEF InStep
  <2>4. \E k \in Rows(c)' : table'[k].status = Normal
    BY <1>4, <2>1, <2>2 DEF Rows
  <2>. QED BY <2>3, <2>4 DEF Agree
<1>8. CASE Update(s)
  <2>. PICK k : k = v.key
    OBVIOUS
  <2>1. /\ v.stage = "update" /\ sched' = sched /\ k \in Keys
        /\ table[k] # None
    BY <1>3, <1>4, <1>8 DEF Update, At, InStep
  <2>2. v.row.status # None
    BY <1>3, <2>1 DEF HeldOK, Work, Op
  <2>3. [v.row EXCEPT !.status =
           IF v.row.status = None THEN table[k].status ELSE v.row.status] = v.row
    BY <1>2, <1>4, <2>1, <2>2, Written
  <2>4. table'[k] = v.row
    BY <1>2, <1>8, <2>1, <2>3 DEF Update
  <2>5. k \in Rows(c)'
    BY <1>4, <2>1, <2>4 DEF Rows
  <2>6. \A l \in Rows(c)' : l = k
    BY <1>6, <2>5
  <2>7. v.row.status = Normal <=> sched'[c] = "running"
    BY <1>3, <2>1 DEF InStep
  <2>. QED BY <2>4, <2>5, <2>6, <2>7 DEF Agree
<1>9. CASE Remove(s)
  <2>. PICK k : k = v.key
    OBVIOUS
  <2>1. v.stage = "remove" /\ sched' = sched /\ v.op = "delete" /\ k \in Keys
    BY <1>3, <1>4, <1>9 DEF Remove, At, HeldOK, Work, Op
  <2>2. table[k] = v.row /\ table'[k] = None /\ sched'[c] = "absent"
    BY <1>2, <1>3, <1>9, <2>1 DEF InStep, Remove
  <2>3. k \in Rows(c)
    BY <1>4, <2>1, <2>2 DEF Rows
  <2>4. \A l \in Rows(c)' : l = k
    BY <1>6, <2>3
  <2>5. Rows(c)' = {}
    BY <2>2, <2>4 DEF Rows
  <2>. QED BY <2>2, <2>5 DEF Agree
<1>. QED BY <1>5, <1>7, <1>8, <1>9

\* With one administrator, every call on a class that completes, but an edit
\* with a null status, leaves table and scheduler in agreement about it,
\* whatever crashes, imports and edits with a null status did before.
THEOREM CompletedCallsAgreeCorrect == Spec => CompletedCallsAgree
<1>1. AloneInv /\ [Next]_vars =>
        [Cardinality(setup.threads) = 1 => \A t \in Threads :
          (/\ work[t] # None /\ work'[t] # work[t] /\ crashes' = crashes
           /\ work[t].stage \in {"save", "update", "remove"}
           /\ work[t].op = "add" => work[t].row.status = Normal
           /\ work[t].op = "edit" => work[t].row.status # None)
            => \A c \in Classes :
                  c = work[t].row.cls /\ Cardinality(Rows(c) \union Rows(c)') <= 1
                      => Agree(c)']_vars
  BY CompletionAgrees DEF Alone
<1>. QED BY <1>1, AloneInvariant, PTL DEF Spec, CompletedCallsAgree

-----------------------------------------------------------------------------
(***************************************************************************)
(* One administrator who never renames, and no crash: a call under way     *)
(* holds the class of the row it is about, and so removes no other trigger *)
(* than that row's, and that one before the row.                           *)
(***************************************************************************)
NoRename == Alone /\ setup.crashes = 0 /\ "rename" \notin Ops

SameClass(w, rows) ==
    w.op # "add" /\ w.stage # "read" => rows[w.key].cls = w.row.cls

Known(c) == sched[c] # "absent" =>
                \/ Rows(c) # {}
                \/ \E t \in Threads : At(t, "save") /\ work[t].row.cls = c

KnownInv ==
    /\ AloneInv
    /\ NoRename => /\ \A t \in Threads : work[t] # None => SameClass(work[t], table)
                   /\ \A c \in Classes : Known(c)

LEMMA StepSameClass ==
    ASSUME KnownInv, NoRename, NEW t \in Threads, Arrive(t) \/ Step(t),
           work'[t] # None
    PROVE  SameClass(work'[t], table')
<1> USE NoneAssumption
<1>1. /\ table \in [Keys -> Row \union {None}]
      /\ work \in [Threads -> Work \union {None}]
      /\ work[t] # None => /\ work[t] \in Work /\ HeldOK(work[t])
                          /\ InStep(work[t], table, sched)
                          /\ SameClass(work[t], table)
  BY DEF KnownInv, AloneInv, TypeInv, TypeOK, HeldInv, NoRename
<1>2. CASE Arrive(t)
  <2>1. ASSUME NEW r \in Row, Add(t, r)
        PROVE  SameClass(work'[t], table')
    BY <1>1, <2>1 DEF Add, Begin, SameClass
  <2>2. ASSUME NEW r \in Row, NEW k \in Keys, Edit(t, k, r)
        PROVE  SameClass(work'[t], table')
    <3>1. r.cls = table[k].cls /\ table' = table
      BY <2>2 DEF Edit, NoRename
    <3>2. work'[t].key = k /\ work'[t].row = r
      BY <1>1, <2>2 DEF Edit, Begin
    <3>. QED BY <3>1, <3>2 DEF SameClass
  <2>3. ASSUME NEW c \in Classes, Pause(t, c) \/ Resume(t, c)
        PROVE  SameClass(work'[t], table')
    <3>. PICK k \in Keys, status \in {Normal, Disable} :
            /\ Rows(c) = {k}
            /\ \E op, stage : Begin(t, op, stage, k, [table[k] EXCEPT !.status = status])
      BY <2>3 DEF Pause, Resume
    <3>. DEFINE r == [table[k] EXCEPT !.status = status]
    <3>1. table[k] \in Row
      BY <1>1 DEF Rows
    <3>2. r.cls = table[k].cls /\ table' = table
      BY <2>3, <3>1 DEF Row, Pause, Resume
    <3>. HIDE DEF r
    <3>3. work'[t].key = k /\ work'[t].row = r
      BY <1>1 DEF Begin, r
    <3>. QED BY <3>2, <3>3 DEF SameClass
  <2>4. ASSUME NEW S \in SUBSET Keys, Delete(t, S)
        PROVE  SameClass(work'[t], table')
    BY <1>1, <2>4 DEF Delete, SameClass
  <2>. QED BY <1>2, <2>1, <2>2, <2>3, <2>4 DEF Arrive
<1>3. CASE DeleteRead(t)
  <2>. PICK k \in work[t].todo :
          work' = [work EXCEPT ![t] =
                     IF table[k] = None THEN None
                     ELSE [work[t] EXCEPT !.stage = "scheduleDelete", !.key = k,
                              !.row = table[k], !.todo = @ \ {k}]]
    BY <1>3 DEF DeleteRead
  <2>. DEFINE w == [work[t] EXCEPT !.stage = "scheduleDelete", !.key = k,
                              !.row = table[k], !.todo = @ \ {k}]
  <2>1. w.key = k /\ w.row = table[k] /\ table' = table
    BY <1>1, <1>3 DEF Work, DeleteRead, At
  <2>2. work'[t] = IF table[k] = None THEN None ELSE w
    BY <1>1
  <2>. HIDE DEF w
  <2>. QED BY <2>1, <2>2 DEF SameClass
\* The other steps that do not end the call keep its row and its key.
<1>4. ASSUME NEW v, v = work[t], v \in Work, NEW stage, Goto(t, stage)
      PROVE  LET w == work'[t]
             IN  w.op = v.op /\ w.key = v.key /\ w.row = v.row /\ w.stage = stage
  BY <1>1, <1>4 DEF Goto, Work
<1>5. CASE ScheduleDelete(t) \/ ScheduleAdd(t) \/ SchedulePause(t)
  <2>1. /\ table' = table /\ work[t] # None /\ work[t].stage # "read"
        /\ \E stage : Goto(t, stage)
    BY <1>1, <1>5 DEF ScheduleDelete, ScheduleAdd, SchedulePause, At, End
  <2>. QED BY <1>1, <1>4, <2>1 DEF SameClass
<1>6. CASE Remove(t)
  <2>1. work[t] # None /\ Goto(t, "read")
    BY <1>1, <1>6 DEF Remove, At, End
  <2>. QED BY <1>1, <1>4, <2>1 DEF SameClass
<1>7. ~Save(t) /\ ~Update(t)
  BY <1>1 DEF Save, Update, End
<1>. QED BY <1>2, <1>3, <1>5, <1>6, <1>7 DEF Step

LEMMA StepKnown ==
    ASSUME KnownInv, NoRename, NEW t \in Threads, Arrive(t) \/ Step(t),
           NEW c \in Classes
    PROVE  Known(c)'
<1> USE NoneAssumption
<1>. DEFINE Saves(s) == At(s, "save") /\ work[s].row.cls = c
<1>1. /\ table \in [Keys -> Row \union {None}]
      /\ work \in [Threads -> Work \union {None}]
      /\ sched \in [Classes -> {"absent", "running", "paused"}]
      /\ work[t] # None => /\ work[t] \in Work /\ HeldOK(work[t])
                          /\ InStep(work[t], table, sched)
                          /\ SameClass(work[t], table)
      /\ Known(c)
  BY DEF KnownInv, AloneInv, TypeInv, TypeOK, HeldInv, NoRename
<1>2. \E w : work' = [work EXCEPT ![t] = w]
  BY ArriveMoves, StepMoves DEF Moves, KnownInv, AloneInv
<1>3. \A s \in Threads : s # t => work'[s] = work[s]
  BY <1>1, <1>2
\* A step that neither saves a row nor brings a trigger.
<1>4. ASSUME ~At(t, "save"), sched'[c] # "absent" => sched[c] # "absent",
             Rows(c) # {} => Rows(c)' # {} \/ sched'[c] = "absent"
      PROVE  Known(c)'
  <2>1. \A s \in Threads : Saves(s) => Saves(s)'
    BY <1>3, <1>4 DEF At
  <2>. QED BY <1>1, <1>4, <2>1 DEF Known
<1>5. table' = table => Rows(c)' = Rows(c)
  BY DEF Rows
<1>6. CASE Arrive(t) \/ DeleteRead(t)
  <2>1. ~At(t, "save") /\ sched' = sched /\ table' = table
    BY <1>6 DEF Arrive, Add, Edit, Pause, Resume, Delete, DeleteRead, At
  <2>. QED BY <1>4, <1>5, <2>1
<1>7. CASE ScheduleDelete(t) \/ SchedulePause(t)
  <2>1. /\ ~At(t, "save") /\ table' = table
        /\ sched'[c] # "absent" => sched[c] # "absent"
    BY <1>1, <1>7 DEF ScheduleDelete, SchedulePause, At
  <2>. QED BY <1>4, <1>5, <2>1
<1>8. CASE ScheduleAdd(t)
  <2>. DEFINE v == work[t]
  <2>1. /\ v # None /\ v.stage = "scheduleAdd" /\ table' = table
        /\ v \in Work /\ HeldOK(v) /\ v.row \in Row /\ ~At(t, "save")
    BY <1>1, <1>8 DEF ScheduleAdd, At, HeldOK, Work
  <2>2. CASE sched'[c] = sched[c]
    BY <1>4, <1>5, <2>1, <2>2
  <2>3. CASE sched'[c] # sched[c]
    <3>1. /\ c = v.row.cls
          /\ Goto(t, IF v.op = "add" THEN "save" ELSE "update")
      BY <1>1, <1>8, <2>1, <2>3 DEF ScheduleAdd
    <3>2. CASE v.op = "add"
      <4>1. work'[t] = [v EXCEPT !.stage = "save"]
        BY <1>1, <3>1, <3>2 DEF Goto
      <4>2. work'[t].stage = "save" /\ work'[t].row = v.row /\ work'[t] # None
        <5>1. [v EXCEPT !.stage = "save"] \in Work
          BY <2>1 DEF Work, Stage
        <5>. QED BY <2>1, <4>1, <5>1 DEF Work
      <4>. QED BY <3>1, <4>2 DEF Known, At
    <3>3. CASE v.op # "add"
      <4>1. v.key \in Keys /\ table[v.key] # None /\ table[v.key].cls = c
        BY <1>1, <2>1, <3>1, <3>3 DEF HeldOK, Work, InStep, SameClass
      <4>2. v.key \in Rows(c)'
        BY <2>1, <4>1 DEF Rows
      <4>. QED BY <4>2 DEF Known
    <3>. QED BY <3>2, <3>3
  <2>. QED BY <2>2, <2>3
<1>9. CASE Save(t)
  <2>. DEFINE r == work[t].row
              k == CHOOSE l \in FreeKeys : TRUE
  <2>1. /\ r \in Row /\ k \in Keys /\ table[k] = None /\ sched' = sched
        /\ table' = [table EXCEPT ![k] = r]
        /\ work' = [work EXCEPT ![t] = None]
    <3>1. k \in FreeKeys
      BY <1>9 DEF Save
    <3>2. k \in Keys /\ table[k] = None
      BY <3>1, SetupsAssumption DEF FreeKeys, KnownInv, AloneInv, TypeInv, TypeOK, Setup
    <3>. QED BY <1>1, <1>9, <3>2 DEF Save, End, At, HeldOK, Work
  <2>. HIDE DEF k
  <2>2. CASE r.cls = c
    <3>1. k \in Rows(c)'
      BY <1>1, <2>1, <2>2 DEF Rows
    <3>. QED BY <3>1 DEF Known
  <2>3. CASE r.cls # c
    <3>1. Rows(c) \subseteq Rows(c)'
      BY <1>1, <2>1 DEF Rows
    <3>2. \A s \in Threads : Saves(s) => Saves(s)'
      BY <1>3, <2>3 DEF At
    <3>. QED BY <1>1, <2>1, <3>1, <3>2 DEF Known
  <2>. QED BY <2>2, <2>3
<1>10. CASE Update(t)
  <2>. DEFINE k == work[t].key
              row == work[t].row
              new == [row EXCEPT !.status =
                        IF row.status = None THEN table[k].status ELSE row.status]
  <2>1. /\ k \in Keys /\ row \in Row /\ table[k] \in Row /\ ~At(t, "save")
        /\ row.cls = table[k].cls /\ sched' = sched
        /\ table' = [table EXCEPT ![k] = new]
    <3>1. /\ work[t] \in Work /\ HeldOK(work[t]) /\ SameClass(work[t], table)
          /\ InStep(work[t], table, sched) /\ work[t].stage = "update"
      BY <1>1, <1>10 DEF Update, At
    <3>2. /\ k \in Keys /\ row \in Row /\ table[k] \in Row
          /\ row.cls = table[k].cls
      BY <1>1, <3>1 DEF Work, HeldOK, SameClass, InStep
    <3>. QED BY <1>10, <3>1, <3>2 DEF Update, At
  <2>2. new \in Row /\ new.cls = row.cls
    BY <2>1, Written
  <2>. HIDE DEF new, row, k
  <2>3. Rows(c)' = Rows(c)
    BY <1>1, <2>1, <2>2 DEF Rows
  <2>. QED BY <1>4, <2>1, <2>3
<1>11. CASE Remove(t)
  <2>. DEFINE k == work[t].key
  <2>1. /\ ~At(t, "save") /\ sched' = sched /\ k \in Keys
        /\ table' = [table EXCEPT ![k] = None]
        /\ sched[table[k].cls] = "absent"
    <3>1. /\ work[t] \in Work /\ HeldOK(work[t]) /\ SameClass(work[t], table)
          /\ InStep(work[t], table, sched) /\ work[t].stage = "remove"
      BY <1>1, <1>11 DEF Remove, At
    <3>2. work[t].op = "delete"
      BY <3>1 DEF HeldOK, Work, Op
    <3>3. k \in Keys /\ sched[table[k].cls] = "absent"
      BY <3>1, <3>2 DEF Work, HeldOK, InStep
    <3>. QED BY <1>11, <3>1, <3>3 DEF Remove, At
  <2>2. sched[c] # "absent" => Rows(c)' = Rows(c)
    BY <1>1, <2>1 DEF Rows
  <2>. QED BY <1>4, <2>1, <2>2
<1>. QED BY <1>6, <1>7, <1>8, <1>9, <1>10, <1>11 DEF Step

LEMMA NextKnown == KnownInv /\ [Next]_vars => KnownInv'
<1> SUFFICES ASSUME KnownInv, [Next]_vars, NoRename'
             PROVE  /\ \A t \in Threads : work'[t] # None => SameClass(work'[t], table')
                    /\ \A c \in Classes : Known(c)'
  BY NextAlone DEF KnownInv, SameClass
<1> USE NoneAssumption
<1>1. setup' = setup
  BY DEF Next, Arrive, Step, Add, Edit, Pause, Resume, Delete, DeleteRead,
     ScheduleDelete, ScheduleAdd, SchedulePause, Save, Update, Remove, Import,
     Crash, vars
<1>2. NoRename
  BY <1>1 DEF NoRename, Alone, Ops
<1>3. /\ TypeInv /\ setup.threads \subseteq Threads
      /\ \A t \in Threads : work[t] # None => SameClass(work[t], table)
      /\ \A c \in Classes : Known(c)
  BY <1>2, SetupsAssumption DEF KnownInv, AloneInv, TypeInv, TypeOK, Setup
<1>4. CASE \E t \in setup.threads : Arrive(t) \/ Step(t)
  <2>. PICK t \in setup.threads : Arrive(t) \/ Step(t)
    BY <1>4
  <2>1. t \in Threads /\ \E w : work' = [work EXCEPT ![t] = w]
    BY <1>3, ArriveMoves, StepMoves DEF Moves
  <2>2. ASSUME NEW s \in Threads, work'[s] # None
        PROVE  s = t
    <3>1. work' \in [Threads -> Work \union {None}] /\ Alone /\ AloneInv'
      BY <1>2, NextTypeInv, NextAlone DEF TypeInv, TypeOK, KnownInv, AloneInv, NoRename
    <3>2. s \in setup.threads
      BY <1>1, <2>2, <3>1 DEF AloneInv, Alone
    <3>. QED BY <1>3, <3>1, <3>2, AloneThread
  <2>. QED BY <1>2, <2>1, <2>2, StepSameClass, StepKnown
<1>5. CASE Import
  <2>1. /\ work' = work /\ sched' = sched
        /\ \A k \in Keys : table[k] # None => table'[k] = table[k]
    BY <1>3, <1>5 DEF Import, FreeKeys, TypeInv, TypeOK
  <2>2. ASSUME NEW t \in Threads, work'[t] # None
        PROVE  SameClass(work'[t], table')
    <3>1. /\ work[t] \in Work /\ HeldOK(work[t]) /\ SameClass(work[t], table)
          /\ InStep(work[t], table, sched)
      BY <1>2, <1>3, <2>1, <2>2 DEF TypeInv, HeldInv, KnownInv, AloneInv, NoRename
    <3>2. work[t].op # "add" /\ work[t].stage # "read" =>
             work[t].key \in Keys /\ table[work[t].key] # None
      BY <3>1 DEF Work, HeldOK, InStep, Stage, Op
    <3>. QED BY <2>1, <3>1, <3>2 DEF SameClass
  <2>3. ASSUME NEW c \in Classes
        PROVE  Known(c)'
    <3>1. Rows(c) \subseteq Rows(c)'
      BY <2>1 DEF Rows
    <3>. QED BY <1>3, <2>1, <3>1 DEF Known, At
  <2>. QED BY <2>2, <2>3
<1>6. ~Crash
  BY <1>2, <1>3, SetupsAssumption DEF Crash, NoRename, TypeInv, TypeOK, Setup
<1>7. CASE UNCHANGED vars
  BY <1>3, <1>7 DEF vars, SameClass, Known, Rows, At
<1>. QED BY <1>4, <1>5, <1>6, <1>7 DEF Next

\* With one administrator, no crash and no edit that renames, a trigger of the
\* scheduler always has a row of its class in the table, or one about to be
\* saved: whatever the scheduler refuses and the imports bring, no trigger is
\* left that the console does not show.
THEOREM TriggersHaveRowsCorrect == Spec => []TriggersHaveRows
<1>1. Init => KnownInv
  <2>1. Init => TypeInv
    BY SetupsAssumption DEF Init, TypeInv, TypeOK, HeldInv, Setup
  <2>. QED BY <2>1 DEF Init, KnownInv, AloneInv, Known
<1>2. KnownInv => TriggersHaveRows
  BY DEF KnownInv, TriggersHaveRows, NoRename, Alone, Known
<1>. QED BY <1>1, <1>2, NextKnown, PTL DEF Spec
=============================================================================
