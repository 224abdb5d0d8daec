----------------------------- MODULE ViewerParts ------------------------------
(***************************************************************************)
(* The parts of the viewer that share no state worth interleaving, side by *)
(* side.  Each behaviour is one of one part: the other parts keep their    *)
(* initial state, so the states add up and do not multiply.                *)
(***************************************************************************)
EXTENDS FindController, PresentationMode, Printing, DocumentLoad,
        ViewHistory, PDFHistory

VARIABLE part

OneOf(S) == CHOOSE x \in S : TRUE

allVars == <<part, findVars, presVars, printVars, loadVars, viewHistoryVars,
             histVars>>

\* A part that is not looked at has one initial state.
Init ==
    /\ part \in {"find", "presentation", "print", "load", "history", "session"}
    /\ FindInit /\ PresInit /\ PrintInit /\ LoadInit /\ ViewHistoryInit
    /\ PDFHistoryInit
    /\ part # "presentation" => scale = "auto"
    /\ part # "print" => loaded
    /\ part # "load" => bookmark = NoHash
    /\ part # "session" => initial = OneOf(Places)

\* A step of one part leaves the others alone.
Find(step) == /\ part = "find" /\ step
              /\ UNCHANGED <<part, presVars, printVars, loadVars, viewHistoryVars,
                             histVars>>
Presentation(step) == /\ part = "presentation" /\ step
                      /\ UNCHANGED <<part, findVars, printVars, loadVars, viewHistoryVars,
                             histVars>>
PrintPart(step) == /\ part = "print" /\ step
                /\ UNCHANGED <<part, findVars, presVars, loadVars, viewHistoryVars,
                             histVars>>
LoadPart(step) == /\ part = "load" /\ step
               /\ UNCHANGED <<part, findVars, presVars, printVars, viewHistoryVars,
                             histVars>>
History(step) == /\ part = "history" /\ step
                 /\ UNCHANGED <<part, findVars, presVars, printVars, loadVars,
                             histVars>>
Session(step) == /\ part = "session" /\ step
                 /\ UNCHANGED <<part, findVars, presVars, printVars, loadVars,
                             viewHistoryVars>>

Next ==
    \/ Find(FindNext)
    \/ Presentation(PresNext)
    \/ PrintPart(PrintNext)
    \/ LoadPart(LoadNext)
    \/ History(ViewHistoryNext)
    \/ Session(PDFHistoryNext)

\* What the browser and pdf.js do without the user, of the part looked at.
Work ==
    \/ Find(FindWork)
    \/ Presentation(PresWork)
    \/ PrintPart(PrintWork)
    \/ LoadPart(LoadWork)
    \/ Session(HistWork)

Spec == Init /\ [][Next]_allVars /\ WF_allVars(Work)

-----------------------------------------------------------------------------
(* Properties: the parts' own, stated where the parts are. *)

\* Every part keeps its types.
PartsTypeOK ==
    /\ FindTypeOK /\ PresTypeOK /\ PrintTypeOK /\ LoadTypeOK
    /\ ViewHistoryTypeOK /\ PDFHistoryTypeOK

\* Searching: nothing of an earlier query remains, the answers are true.
SearchIsRight == SelectionExists /\ MatchesOfQuery /\ AnswersAreTrue

\* Presentation mode and printing end as they began, printing is complete.
ModesAreLeft == PresentationEnds /\ ViewRestored /\ PrintingIsJob /\ PaperComplete

\* The viewer shows the open document, at the position kept for it.
DocumentIsOpen == PagesAreOpen /\ PositionIsKept /\ PromptAsksWaiting

\* The positions of all documents are kept within bounds, and back and forward
\* go where the session history has them go.
HistoryIsRight ==
    /\ HistoryBounded /\ LastPositionKept
    /\ UidsOrdered /\ CurrentIsShown /\ ForwardHasEntry

\* Searches, print jobs and the opening of documents come to their end.
PartsSettle == SearchSettles /\ PrintEnds /\ OpeningSettles
=============================================================================
