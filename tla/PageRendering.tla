--------------------------- MODULE PageRendering ----------------------------
(***************************************************************************)
(* Drawing pages and thumbnails in the PDF viewer that the server hosts    *)
(* (static/generic/web/viewer.js): PDFRenderingQueue, PDFPageView,         *)
(* PDFThumbnailView, PDFViewer with its buffer of drawn pages,             *)
(* PDFThumbnailViewer, and the handlers of the application that reset or   *)
(* redraw them.  One document is open; opening others is DocumentLoad.     *)
(*                                                                         *)
(* The browser runs one event handler at a time and then the promise       *)
(* callbacks it left (jobs), in order, before the next event.  A view is   *)
(* drawn in slices by pdf.js; before each slice it asks whether it is      *)
(* still the one to draw (highest) and pauses if not.                      *)
(*                                                                         *)
(* A page is its number, the thumbnail of page p is Thumb(p).  Positions   *)
(* in pixels are abstracted to the pages on the screen.                    *)
(***************************************************************************)
EXTENDS Integers, Sequences, FiniteSets, SequencesExt, FiniteSetsExt

CONSTANTS
    MaxPages,   \* bounds the pages of a document
    CacheSize,  \* DEFAULT_CACHE_SIZE, 10 in the code
    Setups      \* the documents and users looked at, see Setup

Pages  == 1 .. MaxPages
Views  == 1 .. 2 * MaxPages
Thumb(p)  == MaxPages + p
Thumbs == Views \ Pages
PageOf(v) == IF v \in Pages THEN v ELSE v - MaxPages

\* What the user does: how many pages the document has, how many at most are
\* on the screen, and how often he acts.
Setup == [pages : Pages, screen : Pages, moves : Nat,
          ops : SUBSET {"scroll", "zoom", "rotate", "sidebar", "print"}]

ASSUME MaxPagesAssumption == MaxPages \in Nat \ {0}
ASSUME CacheSizeAssumption == CacheSize \in Nat \ {0}
ASSUME SetupsAssumption == Setups \subseteq Setup

\* Promise callbacks: draw a view (its number), renderHighestPriority, or the
\* rejection of a cancelled drawing, which leads to renderHighestPriority.
NextJob == 0
RejectedJob == -1
NoView == 0

VARIABLES
    setup,      \* one of Setups; never changes
    state,      \* renderingState of each view
    highest,    \* highestPriorityPage
    buffer,     \* PDFPageViewBuffer: its pages, oldest first
    size,       \* its size
    fetched,    \* pages whose getPage has been answered
    want,       \* views to be drawn once their page is there
    fetching,   \* one page was drawn: all the others are being fetched
    visible,    \* pages on the screen, the most visible first
    down,       \* the last scroll went down
    scrolled,   \* the handler of a scroll waits for the next frame
    sidebar,    \* the thumbnails are shown
    printing,
    idle,       \* the timer that starts the cleanup runs
    jobs,       \* promise callbacks to run
    moves       \* what the user did so far

vars == <<setup, state, highest, buffer, size, fetched, want, fetching, visible,
          down, scrolled, sidebar, printing, idle, jobs, moves>>

DocPages == 1 .. setup.pages

\* What can be on the screen of a document of n pages: up to k consecutive
\* pages, one of them the most visible, the rest in order.
ScreensOf == [n \in Pages |-> [k \in Pages |->
    {s \in UNION {[1 .. m -> 1 .. n] : m \in 1 .. k} :
        \A i, j \in DOMAIN s : /\ i # j => s[i] # s[j]
                               /\ s[i] - s[j] < Len(s)
                               /\ 1 < i /\ i < j => s[i] < s[j]}]]
Screens == ScreensOf[setup.pages][setup.screen]

TypeOK ==
    /\ setup \in Setups
    /\ state \in [Views -> {"initial", "running", "paused", "finished"}]
    /\ highest \in Views \union {NoView}
    /\ buffer \in Seq(Pages)
    /\ size \in Nat
    /\ fetched \in SUBSET Pages
    /\ want \in SUBSET Views
    /\ \A v \in want : PageOf(v) \in DocPages \ fetched
    /\ visible \in Screens
    /\ {fetching, down, scrolled, sidebar, printing, idle} \subseteq BOOLEAN
    /\ jobs \in Seq(Views \union {NextJob, RejectedJob})
    /\ moves \in 0 .. setup.moves

\* setDocument has created the views from the first page.
Init ==
    /\ setup \in Setups
    /\ state = [v \in Views |-> "initial"]
    /\ highest = NoView
    /\ buffer = <<>>
    /\ size = CacheSize
    /\ fetched = {1}
    /\ want = {}
    /\ fetching = FALSE
    /\ visible \in {s \in Screens : 1 \in ToSet(s)}
    /\ down = TRUE
    /\ scrolled = TRUE
    /\ sidebar = FALSE
    /\ printing = FALSE
    /\ idle = FALSE
    /\ jobs = <<>>
    /\ moves = 0

-----------------------------------------------------------------------------
(* The queue. *)

Unfinished(st, v) == st[v] # "finished"

GetHighestPriority_PastTheEnd(st, shown, views, goesDown) ==
    LET next == IF goesDown THEN Max(ToSet(shown)) + 1 ELSE Min(ToSet(shown)) - 1
        Wanted(v) == v \in views => Unfinished(st, v)
        order == Append(shown, next)
    IN  IF \E i \in DOMAIN order : Wanted(order[i])
        THEN order[Min({i \in DOMAIN order : Wanted(order[i])})]
        ELSE NoView

\* Of the views shown: the first unfinished one; else, unless it is finished,
\* the view after them, or before them when the last scroll went up.
GetHighestPriority(st, shown, views, goesDown) ==
    LET next == IF goesDown THEN Max(ToSet(shown)) + 1 ELSE Min(ToSet(shown)) - 1
        Wanted(v) == v \in views /\ Unfinished(st, v)
        order == Append(shown, next)
    IN  IF \E i \in DOMAIN order : Wanted(order[i])
        THEN order[Min({i \in DOMAIN order : Wanted(order[i])})]
        ELSE NoView

\* The sidebar is high enough for all thumbnails.
ShownThumbs == [p \in DocPages |-> Thumb(p)]

PageToDraw(st, shown, goesDown) == GetHighestPriority(st, shown, DocPages, goesDown)
ThumbToDraw(st) == GetHighestPriority(st, ShownThumbs, ToSet(ShownThumbs), TRUE)

\* Thumbnails are drawn when there is no page to draw and they are shown.
ToDraw(st, shown, goesDown, thumbs) ==
    LET page == PageToDraw(st, shown, goesDown)
    IN  IF page # NoView \/ ~thumbs THEN page ELSE ThumbToDraw(st)

\* _ensurePdfPageLoaded: the view is drawn by a promise callback, now or when its
\* page is there.
DrawNow(v)   == IF v # NoView /\ PageOf(v) \in fetched THEN <<v>> ELSE <<>>
DrawLater(v) == IF v # NoView /\ PageOf(v) \notin fetched THEN {v} ELSE {}

\* renderHighestPriority, after the callbacks q and the wishes w: with nothing to
\* draw the idle timer is set.
RenderHighestPriority(st, shown, goesDown, thumbs, print, q, w) ==
    LET v == ToDraw(st, shown, goesDown, thumbs)
    IN  /\ idle' = (v = NoView /\ ~print)
        /\ jobs' = q \o DrawNow(v)
        /\ want' = w \union DrawLater(v)

\* PDFPageView.reset and PDFThumbnailView.reset of the views S: drawings under
\* way are cancelled, and the rejections are callbacks to come.
Reset(st, S) == [v \in Views |-> IF v \in S THEN "initial" ELSE st[v]]
UnderWay(st) == {v \in Views : st[v] \in {"running", "paused"}}
Rejections_Dropped(st, S) == <<>>
Rejections(st, S) ==
    [i \in 1 .. Cardinality(S \intersect UnderWay(st)) |-> RejectedJob]

-----------------------------------------------------------------------------
(* The buffer. *)

Resized_ToScreen(shown) == Len(shown)

\* update: room for what is visible and as much before and after it.
Resized(shown) == Max({CacheSize, 2 * Len(shown) + 1})

\* The pages beyond the size, oldest first, are destroyed.
Kept(b, n) == IF Len(b) <= n THEN b ELSE SubSeq(b, Len(b) - n + 1, Len(b))
Evicted(b, n) == ToSet(b) \ ToSet(Kept(b, n))

\* push moves a page to the end.
Pushed(b, p) == Append(RemoveFirst(b, p), p)

-----------------------------------------------------------------------------
(* Promise callbacks. *)

\* renderView of a view in its initial state: a thumbnail is drawn.
DrawThumb(v) ==
    /\ state' = [state EXCEPT ![v] = "running"]
    /\ jobs' = Tail(jobs)
    /\ UNCHANGED buffer

DrawPage_Unbuffered(v) == DrawThumb(v)

\* A page is pushed to the buffer at the start of drawing, which may destroy
\* another.
DrawPage(v) ==
    LET pushed == Pushed(buffer, v)
        gone == Evicted(pushed, size)
        drawn == [state EXCEPT ![v] = "running"]
    IN  /\ buffer' = Kept(pushed, size)
        /\ state' = Reset(drawn, gone)
        /\ jobs' = Tail(jobs) \o Rejections(drawn, gone)

RenderView(v) ==
    /\ jobs # <<>> /\ Head(jobs) = v
    /\ CASE state[v] = "finished" ->
              jobs' = Tail(jobs) /\ UNCHANGED <<state, highest, buffer>>
         [] state[v] = "paused" ->
              /\ highest' = v
              /\ state' = [state EXCEPT ![v] = "running"]
              /\ jobs' = Tail(jobs)
              /\ UNCHANGED buffer
         [] state[v] = "running" ->
              /\ highest' = v
              /\ jobs' = Tail(jobs)
              /\ UNCHANGED <<state, buffer>>
         [] state[v] = "initial" ->
              /\ highest' = v
              /\ IF v \in Pages THEN DrawPage(v) ELSE DrawThumb(v)
    /\ UNCHANGED <<setup, size, fetched, want, fetching, visible, down, scrolled,
                   sidebar, printing, idle, moves>>

\* draw().then(continueRendering, continueRendering)
ContinueRendering ==
    /\ jobs # <<>> /\ Head(jobs) = NextJob
    /\ RenderHighestPriority(state, visible, down, sidebar, printing, Tail(jobs), want)
    /\ UNCHANGED <<setup, state, highest, buffer, size, fetched, fetching, visible,
                   down, scrolled, sidebar, printing, moves>>

\* The callback of a cancelled drawing leaves the view alone.
Rejected ==
    /\ jobs # <<>> /\ Head(jobs) = RejectedJob
    /\ jobs' = Append(Tail(jobs), NextJob)
    /\ UNCHANGED <<setup, state, highest, buffer, size, fetched, want, fetching,
                   visible, down, scrolled, sidebar, printing, idle, moves>>

-----------------------------------------------------------------------------
(* pdf.js. *)

\* The images of drawn pages serve as thumbnails.
WithImages(st, P) ==
    [v \in Views |-> IF v \in Thumbs /\ PageOf(v) \in P /\ st[v] = "initial"
                     THEN "finished" ELSE st[v]]

\* The last slice of a drawing; an error ends it the same way.
Finish(v) ==
    /\ jobs = <<>>
    /\ state[v] = "running"
    /\ state' = LET done == [state EXCEPT ![v] = "finished"]
                IN  IF v \in Pages /\ sidebar THEN WithImages(done, {v}) ELSE done
    /\ fetching' = (fetching \/ v \in Pages)
    /\ jobs' = <<NextJob>>
    /\ UNCHANGED <<setup, highest, buffer, size, fetched, want, visible, down,
                   scrolled, sidebar, printing, idle, moves>>

\* renderContinueCallback: the view is not the one to draw any more.
Pause(v) ==
    /\ jobs = <<>>
    /\ state[v] = "running"
    /\ highest # v
    /\ state' = [state EXCEPT ![v] = "paused"]
    /\ UNCHANGED <<setup, highest, buffer, size, fetched, want, fetching, visible,
                   down, scrolled, sidebar, printing, idle, jobs, moves>>

\* getPage delivers a page: setPdfPage resets views that were never drawn, and
\* the callbacks of forceRendering draw what they chose when they asked.  It owes
\* no page, and one it refuses is one that never comes: the promise has no
\* handler for it, and _pagesRequests keeps the promise for whoever asks again.
Answer(p) ==
    /\ jobs = <<>>
    /\ p \in DocPages \ fetched
    /\ fetching \/ \E v \in want : PageOf(v) = p
    /\ LET waiting == {v \in want : PageOf(v) = p}
       IN  /\ fetched' = fetched \union {p}
           /\ want' = want \ waiting
           /\ jobs' \in SetToSeqs(waiting)
    /\ UNCHANGED <<setup, state, highest, buffer, size, fetching, visible, down,
                   scrolled, sidebar, printing, idle, moves>>

-----------------------------------------------------------------------------
(* Events. *)

Moves(op) == /\ jobs = <<>>
             /\ op \in setup.ops
             /\ moves < setup.moves
             /\ moves' = moves + 1

Scroll ==
    /\ Moves("scroll")
    /\ visible' \in Screens
    /\ scrolled' = TRUE
    /\ UNCHANGED <<setup, state, highest, buffer, size, fetched, want, fetching,
                   down, sidebar, printing, idle, jobs>>

\* PDFViewer.update: the buffer is resized, then the queue decides.
Update(st, shown, goesDown) ==
    LET gone == Evicted(buffer, Resized(shown))
    IN  /\ size' = Resized(shown)
        /\ buffer' = Kept(buffer, Resized(shown))
        /\ state' = Reset(st, gone)
        /\ RenderHighestPriority(Reset(st, gone), shown, goesDown, sidebar, printing,
                                 Rejections(state, gone \union
                                     {v \in Views : st[v] # state[v]}), want)

\* The frame after a scroll: either direction, the screen may show the same
\* pages as before.
ScrollUpdate ==
    /\ jobs = <<>>
    /\ scrolled
    /\ scrolled' = FALSE
    /\ down' \in BOOLEAN
    /\ Update(state, visible, down')
    /\ UNCHANGED <<setup, highest, fetched, fetching, visible, sidebar, printing,
                   moves>>

\* PDFPageView.update of every page: it is reset, or only scaled by CSS when it
\* has a canvas and useOnlyCssZoom is set.
Scaled(st, cssOnly) == IF cssOnly THEN st ELSE Reset(st, Pages)

\* _setScale; the scalechange event updates the view.
Zoom ==
    /\ Moves("zoom")
    /\ visible' \in Screens
    /\ scrolled' \in {scrolled, TRUE}
    /\ \E cssOnly \in BOOLEAN :
          Update(Scaled(state, cssOnly), visible', down)
    /\ UNCHANGED <<setup, highest, fetched, fetching, down, sidebar, printing>>

\* PDFThumbnailView.update of every thumbnail.
RotatedThumbs(st) == Reset(st, Thumbs)

\* The pages are scaled, which updates the view at once when the zoom is a
\* preset one, then the thumbnails; the queue runs (again) on what is shown then.
Turn(cssOnly, preset, shown) ==
    LET scaled == Scaled(state, cssOnly)
        room == IF preset THEN Resized(shown) ELSE size
        gone == Evicted(buffer, room)
        turned == Reset(scaled, gone)
        first == IF preset THEN ToDraw(turned, shown, down, sidebar) ELSE NoView
        cancelled == gone \union {v \in Views : scaled[v] # state[v]}
    IN  /\ size' = room
        /\ buffer' = Kept(buffer, room)
        /\ state' = RotatedThumbs(turned)
        /\ RenderHighestPriority(RotatedThumbs(turned), shown, down, sidebar, printing,
               Rejections(state, cancelled) \o DrawNow(first)
                   \o Rejections(turned, Thumbs),
               want \union DrawLater(first))

\* rotatePages; the current page is scrolled into view at the end.
Rotate ==
    /\ Moves("rotate")
    /\ visible' \in Screens
    /\ \E cssOnly, preset \in BOOLEAN, shown \in Screens :
          /\ Turn(cssOnly, preset, shown)
          /\ scrolled' \in {scrolled \/ visible' # shown, TRUE}
    /\ UNCHANGED <<setup, highest, fetched, fetching, down, sidebar, printing>>

\* refreshThumbnailViewer: the images of the drawn pages are taken over.
Refreshed(st) == WithImages(st, {p \in Pages : ~Unfinished(st, p)})

\* The sidebar's button.
ToggleSidebar ==
    /\ Moves("sidebar")
    /\ sidebar' = ~sidebar
    /\ state' = IF sidebar' THEN Refreshed(state) ELSE state
    /\ RenderHighestPriority(state', visible, down, sidebar', printing, <<>>, want)
    /\ UNCHANGED <<setup, highest, buffer, size, fetched, fetching, visible, down,
                   scrolled, printing>>

BeforePrint_KeepsTimer ==
    /\ Moves("print")
    /\ ~printing
    /\ fetching /\ fetched = DocPages
    /\ printing' = TRUE
    /\ UNCHANGED <<setup, state, highest, buffer, size, fetched, want, fetching,
                   visible, down, scrolled, sidebar, idle, jobs>>

\* beforePrint is refused until every page is there (all are fetched once one
\* has been drawn); it runs the queue, which takes the timer away.
BeforePrint ==
    /\ Moves("print")
    /\ ~printing
    /\ fetching /\ fetched = DocPages
    /\ printing' = TRUE
    /\ RenderHighestPriority(state, visible, down, sidebar, TRUE, <<>>, want)
    /\ UNCHANGED <<setup, state, highest, buffer, size, fetched, fetching, visible,
                   down, scrolled, sidebar>>

AfterPrint ==
    /\ jobs = <<>>
    /\ printing
    /\ printing' = FALSE
    /\ RenderHighestPriority(state, visible, down, sidebar, FALSE, <<>>, want)
    /\ UNCHANGED <<setup, state, highest, buffer, size, fetched, fetching, visible,
                   down, scrolled, sidebar, moves>>

\* The idle timer fires: cleanup resets the pages that are not finished.
Cleanup ==
    /\ jobs = <<>>
    /\ idle
    /\ idle' = FALSE
    /\ LET S == {p \in Pages : Unfinished(state, p)}
       IN  /\ state' = Reset(state, S)
           /\ jobs' = Rejections(state, S)
    /\ UNCHANGED <<setup, highest, buffer, size, fetched, want, fetching, visible,
                   down, scrolled, sidebar, printing, moves>>

-----------------------------------------------------------------------------
\* What the browser does without the user, and what pdf.js does of its own: it
\* draws what it was given.
Work ==
    \/ \E v \in Views : RenderView(v) \/ Finish(v) \/ Pause(v)
    \/ ContinueRendering \/ Rejected \/ ScrollUpdate

User == Scroll \/ Zoom \/ Rotate \/ ToggleSidebar \/ BeforePrint \/ AfterPrint

Next == Work \/ (\E p \in Pages : Answer(p)) \/ User \/ Cleanup

\* The browser and pdf.js do not stop as long as one of them has something to
\* do, whichever of it they do first; the user need not do anything, and no page
\* need come.
Spec == Init /\ [][Next]_vars /\ WF_vars(Work)

-----------------------------------------------------------------------------
(* Properties *)

\* Memory is bounded: a page that has a canvas, finished or only begun, is in
\* the buffer, and the buffer never exceeds its size (the comment above the
\* push, viewer.js:4468, gives this as its reason).
CanvasesBuffered ==
    /\ \A p \in Pages : state[p] # "initial" => p \in ToSet(buffer)
    /\ Len(buffer) <= size

AllDrawn ==
    /\ \A p \in ToSet(visible) : state[p] = "finished"
    /\ sidebar => \A p \in DocPages : state[Thumb(p)] = "finished"

\* What the queue would draw now is a view whose page pdf.js has not delivered,
\* and perhaps never will.
WaitsForPage == ToDraw(state, visible, down, sidebar) \in want

\* Rendering never stalls but for a page that does not come: unless there is
\* nothing to draw, or the very view to draw waits for its page, a view is being
\* drawn, or a callback or a frame that will look for the view is still to come,
\* whatever was cancelled, evicted or asked for and scrolled away in between.
NoLostWakeup ==
    \/ ToDraw(state, visible, down, sidebar) = NoView \/ WaitsForPage
    \/ jobs # <<>> \/ scrolled
    \/ highest # NoView /\ state[highest] = "running"

\* The cleanup that drops the resources of the pages never runs into printing,
\* although its timer may have been set before.
NoCleanupWhilePrinting == printing => ~idle

\* When the user leaves the viewer alone, all that is visible gets drawn and
\* stays drawn, or drawing stands at a view whose page does not come: drawing one
\* page never keeps evicting another that is visible.
EventuallyDrawn == <>[](AllDrawn \/ WaitsForPage)
=============================================================================
