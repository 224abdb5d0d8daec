--------------------------- MODULE FindController ---------------------------
(***************************************************************************)
(* Searching a document in the viewer (static/generic/web/viewer.js):      *)
(* PDFFindBar, PDFFindController and the highlights of the text layers,    *)
(* TextLayerBuilder.  The document is open and its first page there; other *)
(* documents are opened in DocumentLoad.                                   *)
(*                                                                         *)
(* The text of the pages is extracted page by page; searching goes on      *)
(* meanwhile and waits for the text it needs.  A page's matches are their  *)
(* number, which the query determines.                                     *)
(***************************************************************************)
EXTENDS Integers, FiniteSets

CONSTANTS
    NumPages,
    Hits,          \* queries looked at: Hits[q][p] matches of q on page p
    MaxSearches    \* bound on the user's find events

PageIdxs == 0 .. NumPages - 1

\* The empty text of the find field.
Empty == "empty"
Texts == DOMAIN Hits \union {Empty}
None == -1
NoMatches == "none"

ASSUME NumPagesAssumption == NumPages \in Nat \ {0}
ASSUME HitsAssumption ==
    /\ {Empty, NoMatches} \intersect DOMAIN Hits = {}
    /\ \A q \in DOMAIN Hits : Hits[q] \in [PageIdxs -> Nat]
ASSUME MaxSearchesAssumption == MaxSearches \in Nat

VARIABLES
    query,        \* state: query (with its case flag), findPrevious and
                  \* highlightAll of the last event; asked: there was one
    active, dirty,
    timer,        \* findTimeout runs
    ui,           \* what the find bar says
    extracted,    \* pages whose text is there are those below it
    extracting,   \* startedTextExtraction
    waits,        \* pendingFindMatches: pages matched when their text is there
    matches,      \* pageMatches: the query they are of, or none
    selected,     \* page and match
    offset,       \* page, match, wrapped, and pagesToSearch
    resume,       \* resumePageIdx
    layer,        \* text layer of a page: rendered, query highlighted in it
    turned,       \* the direction changed while the search waited
    searches

findVars == <<query, active, dirty, timer, ui, extracted, extracting, waits,
              matches, selected, offset, resume, layer, turned, searches>>

FindTypeOK ==
    /\ query \in [asked : BOOLEAN, text : Texts, previous : BOOLEAN, all : BOOLEAN]
    /\ {active, dirty, timer, extracting, turned} \subseteq BOOLEAN
    /\ ui \in {"idle", "pending", "found", "notfound", "wrapped"}
    /\ extracted \in 0 .. NumPages
    /\ waits \subseteq PageIdxs
    /\ matches \in [PageIdxs -> Texts \union {NoMatches}]
    /\ selected \in [page : PageIdxs \union {None}, match : Int]
    /\ offset \in [page : PageIdxs, match : Int, wrapped : BOOLEAN, left : Int]
    /\ resume \in PageIdxs \union {None}
    /\ layer \in [PageIdxs -> [rendered : BOOLEAN, shows : Texts \union {NoMatches}]]
    /\ searches \in 0 .. MaxSearches

FindInit ==
    /\ query = [asked |-> FALSE, text |-> Empty, previous |-> FALSE, all |-> FALSE]
    /\ active = FALSE /\ dirty = FALSE /\ timer = FALSE
    /\ ui = "idle"
    /\ extracted = 0 /\ extracting = FALSE
    /\ waits = {}
    /\ matches = [p \in PageIdxs |-> NoMatches]
    /\ selected = [page |-> None, match |-> None]
    /\ offset = [page |-> 0, match |-> None, wrapped |-> FALSE, left |-> 0]
    /\ resume = None
    /\ layer = [p \in PageIdxs |-> [rendered |-> FALSE, shows |-> NoMatches]]
    /\ turned = FALSE
    /\ searches = 0

-----------------------------------------------------------------------------
(* Text layers. *)

Count(m, p) == IF m[p] \in DOMAIN Hits THEN Hits[m[p]][p] ELSE 0

\* updateMatches of the layer of page p: old highlights go; if the find bar is
\* active, all matches of the page, or the selected one, are highlighted.
UpdatedLayer(l, p, m, sel, all, isActive) ==
    IF ~l.rendered THEN l
    ELSE [l EXCEPT !.shows =
             IF isActive /\ Count(m, p) > 0 /\ (all \/ sel.page = p)
             THEN m[p] ELSE NoMatches]

\* updatePage of the pages P.  (Scrolling to the selected page is the user's
\* scrolling too.)
UpdatePages(P, m, sel) ==
    layer' = [p \in PageIdxs |->
                 IF p \in P THEN UpdatedLayer(layer[p], p, m, sel, query'.all, active')
                 ELSE layer[p]]

-----------------------------------------------------------------------------
(* The search from an offset. *)

\* advanceOffsetPage, k times.
Ahead(o, back, k) ==
    LET to == IF back THEN o.page - k ELSE o.page + k
    IN  [page |-> to % NumPages,
         match |-> IF k = 0 THEN o.match ELSE None,
         wrapped |-> o.wrapped \/ to \notin PageIdxs,
         left |-> o.left - k]

\* matchesReady gives up when it has wrapped and no page is left.
GivesUp_Early(o) == o.wrapped /\ o.left <= 1
GivesUp(o) == o.wrapped /\ o.left < 0

\* nextPageMatch stops after k pages: at the end of the search, at a page whose
\* matches are not there yet or at one that has matches.
Stops(o, back, m, k) ==
    LET at == Ahead(o, back, k)
    IN  \/ k > 0 /\ GivesUp(at)
        \/ m[at.page] = NoMatches
        \/ Count(m, at.page) > 0

\* nextPageMatch with its calls of matchesReady and updateMatch, given the
\* matches m, the selection sel and what the find bar says; the pages P are
\* updated as well.
NextPageMatch(o, back, m, sel, says, P) ==
    \E k \in 0 .. 3 * NumPages :
      /\ Stops(o, back, m, k)
      /\ \A j \in 0 .. k - 1 : ~Stops(o, back, m, j)
      /\ LET at == Ahead(o, back, k)
             n == Count(m, at.page)
             chosen == [page |-> at.page, match |-> IF back THEN n - 1 ELSE 0]
         IN  IF k > 0 /\ GivesUp(at)
             THEN /\ offset' = [at EXCEPT !.wrapped = FALSE]
                  /\ ui' = "notfound"
                  /\ selected' = sel
                  /\ resume' = None
                  /\ UpdatePages(P \union {sel.page}, m, sel)
             ELSE IF n > 0
             THEN /\ offset' = [at EXCEPT !.match = chosen.match, !.wrapped = FALSE]
                  /\ ui' = IF at.wrapped THEN "wrapped" ELSE "found"
                  /\ selected' = chosen
                  /\ resume' = None
                  /\ UpdatePages(P \union {sel.page, at.page}, m, chosen)
             ELSE /\ offset' = at
                  /\ ui' = says
                  /\ selected' = sel
                  /\ resume' = at.page
                  /\ UpdatePages(P, m, sel)

\* The next match of the same page.
SamePage(o, back) ==
    LET next == IF back THEN o.match - 1 ELSE o.match + 1
    IN  /\ offset' = [o EXCEPT !.match = next, !.wrapped = FALSE]
        /\ selected' = [page |-> o.page, match |-> next]
        /\ ui' = IF o.wrapped THEN "wrapped" ELSE "found"
        /\ resume' = resume
        /\ UpdatePages({selected.page, o.page}, matches, selected')

OnSamePage(o, back) ==
    /\ o.match # None
    /\ IF back THEN o.match > 0 ELSE o.match + 1 < Count(matches, o.page)

\* The part of nextMatch after the reset: the search starts at offset o.
Advance(o, back, m, sel, says, P) ==
    LET from == [o EXCEPT !.left = NumPages]
    IN  IF OnSamePage(from, back) THEN SamePage(from, back)
        ELSE NextPageMatch(IF from.match # None THEN Ahead(from, back, 1) ELSE from,
                           back, m, sel, says, P)

\* The matches after the reset of a dirty search.
Wiped_Kept == matches
Wiped == [p \in PageIdxs |-> NoMatches]

\* nextMatch of a dirty search: everything is forgotten, the pages are matched
\* once their text is there, and the search starts at the current page, any.
FreshMatch(says) ==
    LET nothing == [page |-> None, match |-> None]
    IN  /\ matches' = Wiped
        /\ waits' = PageIdxs
        /\ turned' = FALSE
        /\ \E current \in PageIdxs :
             LET start == [offset EXCEPT !.page = current, !.match = None]
             IN  IF query'.text = Empty
                 THEN /\ ui' = "found"
                      /\ selected' = nothing
                      /\ offset' = start
                      /\ resume' = None
                      /\ UpdatePages(PageIdxs, Wiped, nothing)
                 ELSE Advance(start, query'.previous, Wiped, nothing, says, PageIdxs)

\* nextMatch of a search that is not dirty.  One that waits for a page goes on
\* waiting, except that page 0 is taken for none (!this.resumePageIdx).
AgainMatch(says) ==
    /\ UNCHANGED <<matches, waits>>
    /\ IF query'.text = Empty \/ resume > 0
       THEN /\ ui' = IF query'.text = Empty THEN "found" ELSE says
            /\ turned' = (turned \/ (resume > 0 /\ query'.previous # query.previous))
            /\ UNCHANGED <<selected, offset, resume, layer>>
       ELSE /\ turned' = FALSE
            /\ Advance(offset, query'.previous, matches, selected, says, {})

NextMatch(isDirty, says) ==
    /\ active' = TRUE
    /\ dirty' = FALSE
    /\ timer' = FALSE
    /\ IF isDirty THEN FreshMatch(says) ELSE AgainMatch(says)

-----------------------------------------------------------------------------
(* Steps. *)

\* Promise callbacks run before the next event: matches of pages whose text is
\* there, in the order of the pages.
Ready == {p \in waits : p < extracted}
Quiet == Ready = {}

\* calcFindMatch of page p with the query of that moment.
CalcFindMatch(p) ==
    /\ p \in Ready /\ \A q \in Ready : p <= q
    /\ waits' = waits \ {p}
    /\ IF query.text = Empty
       THEN UNCHANGED <<active, matches, selected, offset, resume, ui, layer, query>>
       ELSE /\ matches' = [matches EXCEPT ![p] = query.text]
            /\ UNCHANGED <<query, active>>
            /\ IF resume = p
               THEN NextPageMatch(offset, query.previous, matches', selected, ui, {p})
               ELSE /\ UNCHANGED <<selected, offset, resume, ui>>
                    /\ UpdatePages({p}, matches', selected)
    /\ UNCHANGED <<dirty, timer, extracted, extracting, turned, searches>>

\* The text of the next page is there.  A page whose text pdf.js refuses is one
\* whose text never comes: extractPageText has no handler for it.
ExtractPageText ==
    /\ Quiet
    /\ extracting
    /\ extracted < NumPages
    /\ extracted' = extracted + 1
    /\ UNCHANGED <<query, active, dirty, timer, ui, extracting, waits, matches,
                   selected, offset, resume, layer, turned, searches>>

\* handleEvent: typing starts the search after a moment of silence, the other
\* events at once.
HandleEvent(type, text, previous, all) ==
    /\ Quiet
    /\ searches < MaxSearches
    /\ searches' = searches + 1
    /\ query' = [asked |-> TRUE, text |-> text, previous |-> previous, all |-> all]
    /\ extracting' = TRUE
    /\ UNCHANGED extracted
    /\ LET isDirty == dirty \/ ~query.asked \/ type # "findagain"
       IN  IF type = "find"
           THEN /\ ui' = "pending"
                /\ dirty' = isDirty
                /\ timer' = TRUE
                /\ turned' = (turned \/ (resume # None /\ query.previous))
                /\ UNCHANGED <<active, waits, matches, selected, offset, resume, layer>>
           ELSE NextMatch(isDirty, "pending")

FindTimeout ==
    /\ Quiet
    /\ timer
    /\ UNCHANGED query
    /\ NextMatch(dirty, ui)
    /\ UNCHANGED <<extracted, extracting, searches>>

\* The find bar's events: typing, Enter or the buttons, and the two boxes.  A
\* change of case is another query unless the field is empty.
FindBarEvent ==
    \/ \E text \in Texts : HandleEvent("find", text, FALSE, query.all)
    \/ \E back \in BOOLEAN : HandleEvent("findagain", query.text, back, query.all)
    \/ HandleEvent("findhighlightallchange", query.text, FALSE, ~query.all)
    \/ \E text \in Texts :
          /\ text = Empty <=> query.text = Empty
          /\ HandleEvent("findcasesensitivitychange", text, FALSE, query.all)

\* PDFFindBar.close
CloseFindBar ==
    /\ Quiet
    /\ active
    /\ active' = FALSE
    /\ UNCHANGED <<query, dirty, timer, ui, extracted, extracting, waits, matches,
                   selected, offset, resume, layer, turned, searches>>

\* A page's text layer is rendered, which shows its matches, or goes when the
\* page is reset.
RenderLayer(p) ==
    /\ Quiet
    /\ ~layer[p].rendered
    /\ layer' = [layer EXCEPT ![p] =
          UpdatedLayer([rendered |-> TRUE, shows |-> NoMatches], p, matches, selected,
                       query.all, active)]
    /\ UNCHANGED <<query, active, dirty, timer, ui, extracted, extracting, waits,
                   matches, selected, offset, resume, turned, searches>>

DropLayer(p) ==
    /\ Quiet
    /\ layer[p].rendered
    /\ layer' = [layer EXCEPT ![p] = [rendered |-> FALSE, shows |-> NoMatches]]
    /\ UNCHANGED <<query, active, dirty, timer, ui, extracted, extracting, waits,
                   matches, selected, offset, resume, turned, searches>>

\* What runs without the user and without pdf.js, which owes no text.
FindWork ==
    \/ \E p \in PageIdxs : CalcFindMatch(p)
    \/ FindTimeout

FindNext ==
    \/ FindWork
    \/ ExtractPageText
    \/ FindBarEvent
    \/ CloseFindBar
    \/ \E p \in PageIdxs : RenderLayer(p) \/ DropLayer(p)

-----------------------------------------------------------------------------
(* Properties *)

\* What is selected exists: the search never stands on a match that a later
\* query or a page matched again does not have (renderMatches and nextMatch
\* would read beyond the matches of the page).
SelectionExists ==
    /\ selected.page # None => selected.match \in 0 .. Count(matches, selected.page) - 1
    /\ offset.match # None => offset.match \in 0 .. Count(matches, offset.page) - 1

\* Typing, cancelling and extracting in any order leave no match and no
\* highlight of an earlier query behind once the search for the new one runs.
MatchesOfQuery ==
    ~dirty => \A p \in PageIdxs :
        /\ matches[p] \in {NoMatches, query.text}
        /\ layer[p].shows \in {NoMatches, query.text}

\* A finished search says the truth: found with a match selected, and not found
\* only if no page has one (unless the user turned round while it waited).
AnswersAreTrue ==
    query.text # Empty /\ ~dirty /\ resume = None =>
        /\ ui \in {"found", "wrapped"} =>
              selected.page # None /\ Hits[query.text][selected.page] > 0
        /\ ui = "notfound" /\ ~turned =>
              \A p \in PageIdxs : Hits[query.text][p] = 0

\* Every search ends or waits for the text of a page that is not there (and may
\* never be): with the text that has come it gets as far as it can.
SearchSettles ==
    <>[](query.asked => IF resume = None THEN ui # "pending" ELSE resume >= extracted)
=============================================================================
