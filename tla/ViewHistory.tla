----------------------------- MODULE ViewHistory ------------------------------
(***************************************************************************)
(* The view history of the viewer (static/generic/web/viewer.js): the last *)
(* position in each of the documents looked at, in localStorage, which all *)
(* tabs of the browser share.  A tab reads it when it loads a document and *)
(* writes its whole copy back whenever its view moves.                     *)
(*                                                                         *)
(* Reading and writing are promises that are resolved at once, so each is  *)
(* one step with the handler that asks for it.                             *)
(***************************************************************************)
EXTENDS Integers, Sequences, FiniteSets, FiniteSetsExt, SequencesExt

CONSTANTS
    Fingerprints,
    Memory,     \* VIEW_HISTORY_MEMORY, 20 in the code
    Tabs,
    MaxViews    \* bound on documents loaded and views moved

ASSUME MemoryAssumption == Memory \in Nat \ {0}
ASSUME MaxViewsAssumption == MaxViews \in Nat

NoPosition == 0
Entry == [fingerprint : Fingerprints, position : 0 .. MaxViews]

VARIABLES
    database,  \* in localStorage
    copy,      \* database of each tab
    current,   \* index of its file in it; 0: no document is loaded
    stale,     \* tabs whose copy is older than the database
    last,      \* the last position the reader had in each document
    clashed,   \* a tab wrote a copy that was stale
    views      \* number of loads and moves; positions are numbered by it

viewHistoryVars == <<database, copy, current, stale, last, clashed, views>>

FingerprintsOf(db) == {db[i].fingerprint : i \in DOMAIN db}

ViewHistoryTypeOK ==
    /\ database \in Seq(Entry)
    /\ copy \in [Tabs -> Seq(Entry)]
    /\ current \in [Tabs -> Nat]
    /\ \A t \in Tabs : current[t] \in 0 .. Len(copy[t])
    /\ stale \subseteq Tabs
    /\ last \in [Fingerprints -> 0 .. MaxViews]
    /\ clashed \in BOOLEAN
    /\ views \in 0 .. MaxViews

ViewHistoryInit ==
    /\ database = <<>>
    /\ copy = [t \in Tabs |-> <<>>]
    /\ current = [t \in Tabs |-> 0]
    /\ stale = {}
    /\ last = [f \in Fingerprints |-> NoPosition]
    /\ clashed = FALSE
    /\ views = 0

Looks == /\ views < MaxViews
         /\ views' = views + 1

Shifted_Early(db) == IF Len(db) >= Memory - 1 THEN Tail(db) ELSE db
Shifted_Late(db) == IF Len(db) > Memory THEN Tail(db) ELSE db

\* When the history is full the oldest document is forgotten, even if it is the
\* one that is loaded.
Shifted(db) == IF Len(db) >= Memory THEN Tail(db) ELSE db

\* The document's entry is found, or pushed at the end.
WithFile(db, f) ==
    IF f \in FingerprintsOf(db) THEN db
    ELSE Append(db, [fingerprint |-> f, position |-> NoPosition])

\* The constructor: tab t loads document f.
LoadFile(t, f) ==
    /\ Looks
    /\ LET db == WithFile(Shifted(database), f)
       IN  /\ copy' = [copy EXCEPT ![t] = db]
           /\ current' = [current EXCEPT
                 ![t] = CHOOSE i \in DOMAIN db : db[i].fingerprint = f]
    /\ stale' = stale \ {t}
    /\ UNCHANGED <<database, last, clashed>>

\* setMultiple and _writeToStorage: the view of tab t moves.
SetMultiple(t) ==
    /\ Looks
    /\ current[t] # 0
    /\ LET db == [copy[t] EXCEPT ![current[t]].position = views']
       IN  /\ copy' = [copy EXCEPT ![t] = db]
           /\ database' = db
           /\ last' = [last EXCEPT ![db[current[t]].fingerprint] = views']
    /\ stale' = {u \in Tabs \ {t} : current[u] # 0}
    /\ clashed' = (clashed \/ t \in stale)
    /\ UNCHANGED current

ViewHistoryNext ==
    \E t \in Tabs : SetMultiple(t) \/ \E f \in Fingerprints : LoadFile(t, f)

-----------------------------------------------------------------------------
(* Properties *)

\* However many tabs write their copies over each other's, the history stays
\* within its limit and knows each document once.
HistoryBounded ==
    /\ Len(database) <= Memory
    /\ Cardinality(FingerprintsOf(database)) = Len(database)

\* As long as no tab writes back an old copy, the history has the position the
\* reader had last in every document it knows, and it knows all documents he
\* looked at until they are as many as it can hold.
LastPositionKept ==
    LET seen == {f \in Fingerprints : last[f] # NoPosition}
    IN  ~clashed =>
            /\ \A i \in DOMAIN database : database[i].position = last[database[i].fingerprint]
            /\ Cardinality(seen) < Memory => seen = FingerprintsOf(database)
=============================================================================
