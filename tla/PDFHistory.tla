------------------------------ MODULE PDFHistory -------------------------------
(***************************************************************************)
(* PDFHistory of the viewer (static/generic/web/viewer.js): the entries it *)
(* writes to the browser's session history, so that back and forward       *)
(* return to destinations and to the positions left for them.              *)
(*                                                                         *)
(* history.back and forward are carried out by the browser later, with the *)
(* popstate event; pushState and replaceState at once.  A destination is   *)
(* looked up by promises, perhaps by pdf.js, and the viewer says where it  *)
(* is when it has scrolled: both come later, with other events in between. *)
(* One document, whose reader does not edit the address, not in            *)
(* presentation mode; its links are explicit destinations, whose hash the  *)
(* link service computes (getDestinationHash).                             *)
(***************************************************************************)
EXTENDS Integers, Sequences

CONSTANTS
    Places,     \* positions, as in a bookmark: [page, top]
    Leads,      \* Leads[d]: the place destination d leads to
    MaxTrips    \* bound on links followed, moves, traversals and reloads

Dests == DOMAIN Leads
NoDest == "no destination"
NoPlace == [page |-> 0, top |-> 0]

ASSUME PlacesAssumption == Places \subseteq [page : Nat \ {0}, top : Nat]
ASSUME LeadsAssumption == Leads \in [Dests -> Places] /\ NoDest \notin Dests
ASSUME MaxTripsAssumption == MaxTrips \in Nat

\* What is written of an entry: a destination with its hash and page, or a
\* bookmark (its hash is the place).  The bookmark of the address has no page.
Target == [dest : Dests \union {NoDest}, place : Places, paged : BOOLEAN]
NoTarget == [dest |-> NoDest, place |-> NoPlace, paged |-> FALSE]

VARIABLES
    h,          \* the entries of the document in the session history and the
                \* one shown; uid, currentUid, current; bookmark: where the
                \* viewer said it is; previous: previousBookmark; renew:
                \* updatePreviousBookmark
    initial,    \* bookmark of the address, or NoPlace
    place,      \* where the viewer is
    moved,      \* an event will say so
    links,      \* destinations being looked up
    going,      \* traversals the browser has still to do
    reloaded,
    trips

histVars == <<h, initial, place, moved, links, going, reloaded, trips>>

PDFHistoryTypeOK ==
    /\ h \in [entries : Seq([uid : Nat \union {-1}, target : Target \union {NoTarget}]),
              at : Nat, uid : Nat, currentUid : Nat, current : Target \union {NoTarget},
              bookmark : Places \union {NoPlace}, previous : Places \union {NoPlace},
              renew : BOOLEAN]
    /\ h.at \in DOMAIN h.entries
    /\ {initial, place} \subseteq Places \union {NoPlace}
    /\ {moved, reloaded} \subseteq BOOLEAN
    /\ links \in Seq(Dests)
    /\ going \in Seq({-1, 1})
    /\ trips \in 0 .. MaxTrips

Bookmark(p) == [dest |-> NoDest, place |-> p, paged |-> TRUE]
Destination(d) == [dest |-> d, place |-> Leads[d], paged |-> TRUE]

\* The hash of a target: a destination's is not the one of a bookmark.
Hash(t) == <<t.dest, IF t.dest = NoDest THEN t.place ELSE NoPlace>>

-----------------------------------------------------------------------------
(* Writing entries. *)

\* _pushToHistory without a previous position: the first entry replaces the one
\* the document was loaded with.
Written(s, target, overwrite) ==
    LET entry == [uid |-> s.uid, target |-> target]
        replace == overwrite \/ s.uid = 0
    IN  [s EXCEPT !.entries = IF replace THEN [s.entries EXCEPT ![s.at] = entry]
                              ELSE Append(SubSeq(s.entries, 1, s.at), entry),
                  !.at = IF replace THEN s.at ELSE s.at + 1,
                  !.currentUid = s.uid,
                  !.uid = s.uid + 1,
                  !.current = target,
                  !.renew = TRUE]

\* _getPreviousParams: is the position worth an entry of its own?
IsWorth(s, onlyCheckPage, beforeUnload) ==
    /\ s.bookmark # NoPlace
    /\ s.uid > 0 => s.previous # NoPlace
    /\ IF (s.current.dest = NoDest /\ ~onlyCheckPage) \/ beforeUnload
       THEN s.previous # s.bookmark
       ELSE /\ s.current.paged \/ onlyCheckPage
            /\ s.previous.page # s.bookmark.page

\* It takes the flag back in any case.
Looked(s) == IF s.bookmark # NoPlace THEN [s EXCEPT !.renew = FALSE] ELSE s

\* A bookmark entry is replaced by the previous position, unless it is the one
\* the address has.
Replaces(s) ==
    s.current.dest = NoDest /\ (s.current = NoTarget \/ s.current.place # initial)

WithPrevious(s) ==
    IF IsWorth(s, FALSE, FALSE)
    THEN Written(Looked(s), Bookmark(s.bookmark), Replaces(s)) ELSE Looked(s)

Pushed(s, target) ==
    IF s.current # NoTarget /\ Hash(s.current) = Hash(target)
    THEN [s EXCEPT !.renew = TRUE]
    ELSE Written(WithPrevious(s), target, FALSE)

\* _updatePreviousBookmark
Renewed(s) == IF s.renew /\ s.bookmark # NoPlace
              THEN [s EXCEPT !.previous = s.bookmark, !.renew = FALSE] ELSE s

-----------------------------------------------------------------------------
\* A document is loaded at a page whose entry s.entries[s.at] PDFHistory wrote
\* (another page was left for this one, or it is reloaded) or did not write.
Initialized(s, bookmark) ==
    LET entry == s.entries[s.at]
        fresh == [s EXCEPT !.bookmark = NoPlace, !.previous = NoPlace, !.renew = FALSE,
                           !.uid = 0, !.currentUid = 0, !.current = NoTarget]
    IN  IF entry.target # NoTarget
        THEN [fresh EXCEPT !.uid = entry.uid + 1, !.currentUid = entry.uid,
                           !.current = entry.target, !.renew = entry.target.dest = NoDest]
        ELSE IF bookmark # NoPlace
        THEN Written(fresh, [Bookmark(bookmark) EXCEPT !.paged = FALSE], FALSE)
        ELSE fresh

Empty_ == [entries |-> <<[uid |-> -1, target |-> NoTarget]>>, at |-> 1, uid |-> 0,
           currentUid |-> 0, current |-> NoTarget, bookmark |-> NoPlace,
           previous |-> NoPlace, renew |-> FALSE]

\* Without a bookmark the document opens anywhere (view history).
PDFHistoryInit ==
    /\ initial \in Places \union {NoPlace}
    /\ place \in IF initial # NoPlace THEN {initial} ELSE Places
    /\ h = Initialized(Empty_, initial)
    /\ moved = TRUE
    /\ links = <<>> /\ going = <<>>
    /\ reloaded = FALSE
    /\ trips = 0

Trip == /\ trips < MaxTrips
        /\ trips' = trips + 1

MovesTo(p) == /\ place' = p
              /\ moved' = (moved \/ p # place)

\* The reader follows a link: its destination is looked up.
FollowLink(d) ==
    /\ Trip
    /\ links' = Append(links, d)
    /\ UNCHANGED <<h, initial, place, moved, going, reloaded>>

\* navigateTo goes there and pushes an entry.
Arrive ==
    /\ links # <<>>
    /\ links' = Tail(links)
    /\ MovesTo(Leads[Head(links)])
    /\ h' = Pushed(h, Destination(Head(links)))
    /\ UNCHANGED <<initial, going, reloaded, trips>>

ReadOn ==
    /\ Trip
    /\ \E p \in Places \ {place} : MovesTo(p)
    /\ UNCHANGED <<h, initial, links, going, reloaded>>

\* updateCurrentBookmark
UpdateCurrentBookmark ==
    /\ moved
    /\ moved' = FALSE
    /\ h' = Renewed([h EXCEPT !.bookmark = place])
    /\ UNCHANGED <<initial, place, links, going, reloaded, trips>>

\* go: the viewer's own back and forward; the browser's go where they can.
HasNext(s, n) ==
    \/ n = -1 /\ s.entries[s.at].uid > 0
    \/ n = 1 /\ s.entries[s.at].target # NoTarget /\ s.entries[s.at].uid < s.uid - 1

Go(n) ==
    /\ Trip
    /\ HasNext(h, n) \/ h.at + n \in DOMAIN h.entries
    /\ going' = Append(going, n)
    /\ UNCHANGED <<h, initial, place, moved, links, reloaded>>

\* _goTo, back from where the reader has read on: the current entry and the
\* position are written behind the entry gone to, and the browser goes back
\* once more to show it.
GoToPosition(s, state) ==
    LET written == Written(Written(Looked(s), s.current, FALSE), Bookmark(s.bookmark), FALSE)
    IN  /\ h' = [written EXCEPT !.currentUid = state.uid]
        /\ going' = Append(Tail(going), -1)
        /\ UNCHANGED <<place, moved, links>>

GoToState_Forgets(s, state) ==
    /\ h' = [s EXCEPT !.currentUid = state.uid, !.renew = TRUE]
    /\ going' = Tail(going)
    /\ MovesTo(state.target.place)
    /\ UNCHANGED links

\* _goTo: a destination is looked up, a bookmark shown at once.
GoToState(s, state) ==
    /\ h' = [s EXCEPT !.currentUid = state.uid,
                      !.uid = IF state.uid > s.uid THEN state.uid ELSE s.uid,
                      !.current = state.target,
                      !.renew = TRUE]
    /\ going' = Tail(going)
    /\ IF state.target.dest # NoDest
       THEN /\ links' = Append(links, state.target.dest)
            /\ UNCHANGED <<place, moved>>
       ELSE MovesTo(state.target.place) /\ UNCHANGED links

\* The browser traverses the history: popstate.
PopState ==
    /\ going # <<>>
    /\ UNCHANGED <<initial, reloaded, trips>>
    /\ LET to == h.at + Head(going)
       IN  IF to \notin DOMAIN h.entries
           THEN going' = Tail(going) /\ UNCHANGED <<h, place, moved, links>>
           ELSE LET s == [h EXCEPT !.at = to]
                    state == h.entries[to]
                IN  IF state.target = NoTarget
                    THEN /\ h' = s
                         /\ going' = Tail(going)
                         /\ UNCHANGED <<place, moved, links>>
                    ELSE IF state.uid < s.currentUid /\ IsWorth(s, TRUE, FALSE)
                    THEN GoToPosition(s, state)
                    ELSE GoToState(IF state.uid < s.currentUid THEN Looked(s) ELSE s, state)

\* beforeunload writes the position; the page is loaded again, which forgets
\* what was being looked up.
Unloaded(s) ==
    IF IsWorth(s, FALSE, TRUE) THEN Written(Looked(s), Bookmark(s.bookmark), Replaces(s))
    ELSE Looked(s)

Reload ==
    /\ Trip
    /\ going = <<>>
    /\ reloaded' = TRUE
    /\ h' = Initialized(Unloaded(h), initial)
    /\ moved' = TRUE
    /\ IF h'.current.dest # NoDest
       THEN /\ links' = <<h'.current.dest>>
            /\ place' \in Places
       ELSE /\ links' = <<>>
            /\ place' \in IF h'.current = NoTarget THEN Places ELSE {h'.current.place}
    /\ UNCHANGED <<initial, going>>

HistWork == Arrive \/ UpdateCurrentBookmark \/ PopState

PDFHistoryNext ==
    \/ HistWork
    \/ \E d \in Dests : FollowLink(d)
    \/ ReadOn
    \/ \E n \in {-1, 1} : Go(n)
    \/ Reload

-----------------------------------------------------------------------------
(* Properties *)

\* The entries are numbered in the order in which they lie in the session
\* history, which _goTo and go rely on to tell back from forward.  (Not after a
\* reload: beforeunload gives the entry a new number, higher than those of the
\* entries ahead of it.)
UidsOrdered ==
    ~reloaded => \A i, j \in DOMAIN h.entries : i < j =>
        h.entries[i].uid < h.entries[j].uid

\* When nothing is under way PDFHistory knows which entry the browser shows.
CurrentIsShown ==
    going = <<>> /\ h.entries[h.at].target # NoTarget =>
        /\ h.current = h.entries[h.at].target
        /\ h.currentUid = h.entries[h.at].uid

\* The viewer's forward is offered only where there is an entry ahead, which it
\* tells by the numbers alone, until a reload.  (Its back is not as careful: an
\* entry that is replaced gets a new number, so the first one need not have the
\* 0 go looks for, and back leaves the document.)
ForwardHasEntry == ~reloaded /\ HasNext(h, 1) => h.at < Len(h.entries)
=============================================================================
