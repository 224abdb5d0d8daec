------------------------------ MODULE Printing ------------------------------
(***************************************************************************)
(* Printing in browsers without mozPrintCallback: the polyfill of          *)
(* window.print in the viewer (static/generic/web/viewer.js), which draws  *)
(* a canvas per page, one after the other, with beforePrint and afterPrint *)
(* of the application and of PDFPageView.                                  *)
(*                                                                         *)
(* The canvases of the screen are skipped by the polyfill; the model has   *)
(* the ones for printing only.  What printing does to the screen's pages   *)
(* is in PageRendering.                                                    *)
(***************************************************************************)
EXTENDS Integers, FiniteSets

CONSTANTS
    PrintPages,  \* pages of the document
    MaxPrints    \* bound on the user's uses of print

ASSUME PrintPagesAssumption == PrintPages \in Nat \ {0}
ASSUME MaxPrintsAssumption == MaxPrints \in Nat

Canvases == 0 .. PrintPages - 1

VARIABLES
    loaded,     \* all pages are there
    job,        \* number of the print job, canvases are set; 0: none
    index,
    ready,      \* beforePrint made canvases, it was not refused
    printing,   \* PDFViewerApplication.printing
    container,  \* printContainer and the style sheet are in the page
    drawing,    \* drawings of pdf.js under way: job and canvas
    drawn,      \* canvases drawn in this job
    tidy,       \* timers that will call abort, a set of jobs
    paper,      \* canvases drawn when the browser printed this job, or NoPaper
    restarted,  \* a job began while a drawing or a timer of another was left
    prints

printVars == <<loaded, job, index, ready, printing, container, drawing, drawn, tidy,
               paper, restarted, prints>>

NoPaper == {-1}

PrintTypeOK ==
    /\ {loaded, ready, printing, container, restarted} \subseteq BOOLEAN
    /\ job \in 0 .. MaxPrints
    /\ index \in Nat \union {-1}
    /\ drawing \subseteq (1 .. MaxPrints) \X Canvases
    /\ drawn \subseteq Canvases
    /\ tidy \subseteq 1 .. MaxPrints
    /\ paper \in (SUBSET Canvases) \union {NoPaper}
    /\ prints \in 0 .. MaxPrints

PrintInit ==
    /\ loaded \in BOOLEAN
    /\ job = 0 /\ index = -1
    /\ ready = FALSE /\ printing = FALSE /\ container = FALSE
    /\ drawing = {} /\ drawn = {}
    /\ tidy = {}
    /\ paper = NoPaper
    /\ restarted = FALSE
    /\ prints = 0

\* The canvases a job has to draw: none when beforePrint was refused.
Total(isReady) == IF isReady THEN PrintPages ELSE 0

NextCanvas_NoTimer(j, i, isReady, left, done) ==
    /\ index' = i + 1
    /\ drawing' = IF i + 1 < Total(isReady) THEN left \union {<<j, i + 1>>} ELSE left
    /\ paper' = IF i + 1 < Total(isReady) THEN paper ELSE done
    /\ UNCHANGED tidy

\* next: the following canvas is drawn by its mozPrintCallback; after the last
\* one the browser prints, and abort tidies up 20 ms later.
NextCanvas(j, i, isReady, left, done) ==
    /\ index' = i + 1
    /\ IF i + 1 < Total(isReady)
       THEN /\ drawing' = left \union {<<j, i + 1>>}
            /\ UNCHANGED <<tidy, paper>>
       ELSE /\ drawing' = left
            /\ tidy' = tidy \union {j}
            /\ paper' = done

\* beforePrint: refused, with an alert, until all pages are there.
BeforePrint ==
    /\ ready' = loaded
    /\ printing' = (printing \/ loaded)
    /\ container' = (container \/ loaded)

\* window.print: ignored while a job is pending; canvases set and next called
\* whatever beforePrint says.
WindowPrint ==
    /\ prints < MaxPrints
    /\ prints' = prints + 1
    /\ job = 0
    /\ job' = prints'
    /\ restarted' = (restarted \/ drawing # {} \/ tidy # {})
    /\ BeforePrint
    /\ drawn' = {}
    /\ NextCanvas(job', -1, ready', drawing, {})
    /\ UNCHANGED loaded

\* A page is drawn: done() is next of whatever job there is now.
Drawn_Early(d) ==
    /\ d \in drawing
    /\ UNCHANGED drawn
    /\ IF job = 0
       THEN drawing' = drawing \ {d} /\ UNCHANGED <<index, tidy, paper>>
       ELSE NextCanvas(job, index, ready, drawing \ {d}, drawn)
    /\ UNCHANGED <<loaded, job, ready, printing, container, restarted, prints>>

Drawn(d) ==
    /\ d \in drawing
    /\ drawn' = IF d[1] = job THEN drawn \union {d[2]} ELSE drawn
    /\ IF job = 0
       THEN drawing' = drawing \ {d} /\ UNCHANGED <<index, tidy, paper>>
       ELSE NextCanvas(job, index, ready, drawing \ {d}, drawn')
    /\ UNCHANGED <<loaded, job, ready, printing, container, restarted, prints>>

\* afterPrint
AfterPrint ==
    /\ printing' = FALSE
    /\ container' = FALSE

\* abort ends the job, if there is one.
Abort ==
    /\ job' = 0
    /\ IF job # 0 THEN AfterPrint ELSE UNCHANGED <<printing, container>>

\* Escape, a click on the progress bar, or a page that cannot be drawn.
Cancel ==
    /\ job # 0
    /\ Abort
    /\ UNCHANGED <<loaded, index, ready, drawing, drawn, tidy, paper, restarted, prints>>

DrawError(d) ==
    /\ d \in drawing
    /\ drawing' = drawing \ {d}
    /\ Abort
    /\ UNCHANGED <<loaded, index, ready, drawn, tidy, paper, restarted, prints>>

TidyUp(j) ==
    /\ j \in tidy
    /\ tidy' = tidy \ {j}
    /\ Abort
    /\ UNCHANGED <<loaded, index, ready, drawing, drawn, paper, restarted, prints>>

PagesLoaded ==
    /\ ~loaded
    /\ loaded' = TRUE
    /\ UNCHANGED <<job, index, ready, printing, container, drawing, drawn, tidy, paper,
                   restarted, prints>>

PrintWork ==
    \/ \E d \in drawing : Drawn(d) \/ DrawError(d)
    \/ \E j \in tidy : TidyUp(j)
    \/ PagesLoaded

PrintNext == PrintWork \/ WindowPrint \/ Cancel

-----------------------------------------------------------------------------
(* Properties *)

\* What the browser prints is complete: every canvas of the job was drawn
\* (unless a job was begun over the remains of a cancelled one, whose done()
\* and timer act on the new job).
PaperComplete ==
    ~restarted /\ job # 0 /\ paper # NoPaper /\ job \in tidy =>
        paper = 0 .. Total(ready) - 1

\* The application is in the printing state only during a job, with the canvases
\* in the page, however the job ends.
PrintingIsJob ==
    /\ printing => job # 0 /\ ready
    /\ container <=> printing

\* Every job ends.
PrintEnds == <>[](job = 0 /\ ~printing)
=============================================================================
