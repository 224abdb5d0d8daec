---------------------------- MODULE DocumentLoad -----------------------------
(***************************************************************************)
(* Opening documents in the viewer (static/generic/web/viewer.js): open,   *)
(* close, load and setInitialView of the application, setDocument of the   *)
(* two viewers, the address and its bookmark, the positions kept in the    *)
(* view history, and the overlays (OverlayManager, PasswordPrompt, the     *)
(* document's properties).                                                 *)
(*                                                                         *)
(* pdf.js answers when it likes; what a closed document had been asked may *)
(* still be answered or not, and a first page may be refused.  A call of   *)
(* open is its number.  A position is a page.  The history of one tab is   *)
(* used here, ViewHistory has several.                                     *)
(***************************************************************************)
EXTENDS Integers, Sequences, SequencesExt

CONSTANTS
    Files,
    PageCount,  \* of a file
    Locked,     \* files with a password
    Hashes,     \* what the address may say: a page, perhaps with its zoom
    MaxOpens    \* bound on the calls of open

NoFile == "no file"
NoHash == [page |-> 0, zoom |-> FALSE]
NoOverlay == "none"

ASSUME FilesAssumption == NoFile \notin Files /\ Locked \subseteq Files
ASSUME PageCountAssumption == PageCount \in [Files -> Nat \ {0}]
ASSUME HashesAssumption == Hashes \subseteq [page : Nat \ {0}, zoom : BOOLEAN]
ASSUME MaxOpensAssumption == MaxOpens \in Nat

Opens == 1 .. MaxOpens

VARIABLES
    file,      \* file of each call of open
    phase,     \* how far it is
    opens,
    open,      \* pdfDocument: of which call; 0: none
    firstAsked,    \* documents whose first page is not answered
    pages,     \* documents whose pages are in PDFViewer, in order
    thumbs,    \* the same for PDFThumbnailViewer
    store,     \* the document whose view history is in use
    stored,    \* position of each file in the view history; 0: none
    page,      \* currentPageNumber
    scaled,    \* the scale is known, so the pages are drawn
    viewSet,   \* isInitialViewSet
    bookmark,  \* initialBookmark
    overlay,   \* the active overlay
    prompt,    \* whose updatePassword the prompt will call
    hasty      \* a file was opened before an earlier one was settled

loadVars == <<file, phase, opens, open, firstAsked, pages, thumbs, store, stored, page,
              scaled, viewSet, bookmark, overlay, prompt, hasty>>
docVars == <<file, phase, opens, open, firstAsked, pages, thumbs, store, hasty>>
viewVars == <<stored, page, scaled, viewSet, bookmark>>
overlayVars == <<overlay, prompt>>

LoadTypeOK ==
    /\ file \in [Opens -> Files \union {NoFile}]
    /\ phase \in [Opens -> {"none", "loading", "locked", "unlocked", "cancelled",
                            "failed", "ready", "closed"}]
    /\ opens \in 0 .. MaxOpens
    /\ {open, store, prompt} \subseteq 0 .. opens
    /\ firstAsked \subseteq 1 .. opens
    /\ {pages, thumbs} \subseteq Seq(1 .. opens)
    /\ stored \in [Files -> Nat]
    /\ hasty \/ \A f \in Files : stored[f] <= PageCount[f]
    /\ page \in Nat
    /\ {scaled, viewSet, hasty} \subseteq BOOLEAN
    /\ bookmark \in Hashes \union {NoHash}
    /\ overlay \in {NoOverlay, "password", "properties"}

LoadInit ==
    /\ file = [k \in Opens |-> NoFile]
    /\ phase = [k \in Opens |-> "none"]
    /\ opens = 0 /\ open = 0 /\ store = 0 /\ prompt = 0
    /\ firstAsked = {}
    /\ pages = <<>> /\ thumbs = <<>>
    /\ stored = [f \in Files |-> 0]
    /\ page = 1
    /\ scaled = FALSE /\ viewSet = FALSE
    /\ bookmark \in Hashes \union {NoHash}
    /\ overlay = NoOverlay
    /\ hasty = FALSE

-----------------------------------------------------------------------------
(* Documents. *)

\* setDocument of the viewers removes the old document's views, if there is one.
ResetViews == /\ pages' = <<>>
              /\ thumbs' = <<>>
              /\ page' = 1
              /\ scaled' = FALSE

Close_KeepsPages ==
    IF open = 0 THEN UNCHANGED <<open, pages, thumbs, page, scaled>>
    ELSE open' = 0 /\ UNCHANGED <<pages, thumbs, page, scaled>>

\* close does nothing when no document is there yet.
Close ==
    IF open = 0 THEN UNCHANGED <<open, pages, thumbs, page, scaled>>
    ELSE open' = 0 /\ ResetViews

\* open: by the address, by the file chooser.  Overlays keep the user from it.
Open(f) ==
    /\ overlay = NoOverlay
    /\ opens < MaxOpens
    /\ opens' = opens + 1
    /\ file' = [file EXCEPT ![opens'] = f]
    /\ phase' = [k \in Opens |-> IF k = opens' THEN "loading"
                                 ELSE IF k = open THEN "closed" ELSE phase[k]]
    /\ hasty' = (hasty \/ firstAsked # {}
                       \/ \E k \in Opens : phase[k] \in {"loading", "unlocked"})
    /\ Close
    /\ UNCHANGED <<firstAsked, store, stored, viewSet, bookmark, overlay, prompt>>

\* load: the document is there, its first page is asked for.  An older document
\* that close did not know is dropped, not destroyed.
Load_KeepsStore(k) == store' = IF store = 0 THEN k ELSE store
Load(k) == store' = k

Loaded(k) ==
    /\ \/ phase[k] = "unlocked"
       \/ phase[k] = "loading" /\ file[k] \notin Locked
    /\ phase' = [phase EXCEPT ![k] = "ready"]
    /\ open' = k
    /\ Load(k)
    /\ firstAsked' = firstAsked \union {k}
    /\ viewSet' = FALSE
    /\ IF open = 0 THEN UNCHANGED <<pages, thumbs, page, scaled>> ELSE ResetViews
    /\ UNCHANGED <<file, opens, stored, bookmark, overlay, prompt, hasty>>

\* getDocument fails: the error is shown.
Fails(k) ==
    /\ phase[k] \in {"loading", "unlocked"}
    /\ phase' = [phase EXCEPT ![k] = "failed"]
    /\ UNCHANGED <<file, opens, open, firstAsked, pages, thumbs, store, hasty>>
    /\ UNCHANGED viewVars
    /\ UNCHANGED overlayVars

\* The first page is refused, or the document was closed and its answers are
\* lost.  Nothing handles the refusal: the document is open, without a page and
\* without an error.
Dropped(k) ==
    /\ k \in firstAsked
    /\ firstAsked' = firstAsked \ {k}
    /\ UNCHANGED <<file, phase, opens, open, pages, thumbs, store, hasty>>
    /\ UNCHANGED viewVars
    /\ UNCHANGED overlayVars

\* pagesCount of the viewer with the views of the documents s.
ViewCount(s) == FoldLeft(LAMBDA sum, k : sum + PageCount[file[k]], 0, s)

-----------------------------------------------------------------------------
(* The view. *)

\* The updateviewarea event writes the position to the history in use.
Stores(p) == stored' = [stored EXCEPT ![file[store]] = p]

SetInitialView_Unchecked(k, views) ==
    /\ viewSet' = TRUE
    /\ page' = IF bookmark # NoHash THEN bookmark.page ELSE 1
    /\ scaled' = TRUE
    /\ bookmark' = NoHash
    /\ Stores(page')

\* The initial view of document k: the bookmark, or else what the history has,
\* or the first page.  A bookmark with a zoom and a page the document does not
\* have throws: neither is the scale set nor the bookmark forgotten.
SetInitialView(k, views) ==
    LET wanted == IF bookmark # NoHash THEN bookmark.page
                  ELSE IF stored[file[k]] # 0 THEN stored[file[k]] ELSE 1
        exists == wanted <= views
        throws == ~exists /\ (bookmark = NoHash \/ bookmark.zoom)
    IN  /\ viewSet' = TRUE
        /\ page' = IF exists THEN wanted ELSE 1
        /\ IF throws THEN UNCHANGED <<scaled, bookmark, stored>>
           ELSE /\ scaled' = TRUE
                /\ bookmark' = NoHash
                /\ Stores(page')

\* The first page is there: setDocument of the viewers create the views, load
\* sets the initial view.
FirstPage(k) ==
    /\ k \in firstAsked
    /\ firstAsked' = firstAsked \ {k}
    /\ pages' = Append(pages, k)
    /\ thumbs' = Append(thumbs, k)
    /\ SetInitialView(k, ViewCount(pages'))
    /\ UNCHANGED <<file, phase, opens, open, store, hasty>>
    /\ UNCHANGED overlayVars

\* The user changes the address (setHash): kept for a document that is being
\* loaded; lost when there is no document or no such page.
HashChange(h) ==
    /\ IF ~viewSet THEN bookmark' = h /\ UNCHANGED <<page, scaled, stored>>
       ELSE IF h.page <= ViewCount(pages)
            THEN /\ page' = h.page
                 /\ scaled' = (scaled \/ h.zoom)
                 /\ Stores(h.page)
                 /\ UNCHANGED bookmark
            ELSE UNCHANGED <<bookmark, page, scaled, stored>>
    /\ UNCHANGED viewSet
    /\ UNCHANGED docVars
    /\ UNCHANGED overlayVars

\* Scrolling and the links and buttons that do (update, scrollPageIntoView).
Scroll ==
    /\ pages # <<>>
    /\ overlay = NoOverlay
    /\ page' \in 1 .. ViewCount(pages)
    /\ Stores(page')
    /\ UNCHANGED <<scaled, viewSet, bookmark>>
    /\ UNCHANGED docVars
    /\ UNCHANGED overlayVars

-----------------------------------------------------------------------------
(* Overlays. *)

\* OverlayManager.open: the prompt closes what is open, the properties do not.
OpenOverlay(name) ==
    overlay' = IF overlay = NoOverlay \/ name = "password" THEN name ELSE overlay

NeedsPassword_KeepsPrompt(k) == UNCHANGED prompt

\* passwordNeeded: the first time or after a wrong password.
NeedsPassword(k) == prompt' = k

PasswordNeeded(k) ==
    /\ phase[k] = "loading" /\ file[k] \in Locked
    /\ phase' = [phase EXCEPT ![k] = "locked"]
    /\ NeedsPassword(k)
    /\ OpenOverlay("password")
    /\ UNCHANGED <<file, opens, open, firstAsked, pages, thumbs, store, hasty>>
    /\ UNCHANGED viewVars

\* verifyPassword closes the prompt and hands the password to the document that
\* asked last.
VerifyPassword ==
    /\ overlay = "password"
    /\ overlay' = NoOverlay
    /\ \E correct \in BOOLEAN :
          phase' = [phase EXCEPT ![prompt] = IF correct THEN "unlocked" ELSE "loading"]
    /\ UNCHANGED <<file, opens, open, firstAsked, pages, thumbs, store, hasty, prompt>>
    /\ UNCHANGED viewVars

\* Cancel, close or Escape (_closeThroughCaller).  A document without its
\* password is never heard of again.
CloseOverlay ==
    /\ overlay # NoOverlay
    /\ overlay' = NoOverlay
    /\ phase' = IF overlay = "password" THEN [phase EXCEPT ![prompt] = "cancelled"]
                ELSE phase
    /\ UNCHANGED <<file, opens, open, firstAsked, pages, thumbs, store, hasty, prompt>>
    /\ UNCHANGED viewVars

\* PDFDocumentProperties.open
OpenProperties ==
    /\ OpenOverlay("properties")
    /\ UNCHANGED prompt
    /\ UNCHANGED docVars
    /\ UNCHANGED viewVars

-----------------------------------------------------------------------------
\* What pdf.js owes: getDocument ends in one of the ways that are handled.  It
\* owes no page.
LoadWork == \E k \in Opens : Loaded(k) \/ Fails(k) \/ PasswordNeeded(k)

LoadNext ==
    \/ LoadWork
    \/ \E k \in Opens : FirstPage(k) \/ Dropped(k)
    \/ \E f \in Files : Open(f)
    \/ \E h \in Hashes : HashChange(h)
    \/ Scroll
    \/ VerifyPassword \/ CloseOverlay \/ OpenProperties

-----------------------------------------------------------------------------
(* Properties *)

\* The viewer shows the pages of the open document and of no other, its
\* thumbnails are theirs (refreshThumbnailViewer indexes one by the other), and
\* no document but the open one is left undestroyed (unless a file was opened
\* before an earlier one was settled).
PagesAreOpen ==
    /\ thumbs = pages
    /\ ~hasty => /\ pages \in {<<>>, <<open>>}
                 /\ \A k \in Opens : phase[k] = "ready" => k = open

\* The position kept for a file is where its reader is, however often documents
\* are changed (stored of another one is left alone), and its pages are drawn
\* (unless the bookmark names a page it does not have).
PositionIsKept ==
    ~hasty /\ open # 0 /\ pages # <<>> =>
        /\ scaled \/ bookmark # NoHash
        /\ scaled => stored[file[open]] = page

\* The password that is typed goes to a document that waits for one, and none
\* waits without its prompt.
PromptAsksWaiting ==
    /\ overlay = "password" => prompt # 0 /\ phase[prompt] = "locked"
    /\ ~hasty => \A k \in Opens : phase[k] = "locked" => overlay = "password" /\ prompt = k

\* The document opened last is open in the end, showing its pages or none while
\* its first page has not come (and may never do), or its failure is shown, or
\* it waits for its password (again and again when the user mistypes it).
OpeningSettles ==
    []<>(opens > 0 /\ ~hasty =>
            \/ phase[opens] = "ready" /\ open = opens /\ pages \in {<<>>, <<opens>>}
            \/ phase[opens] \in {"failed", "locked", "cancelled"})
=============================================================================
