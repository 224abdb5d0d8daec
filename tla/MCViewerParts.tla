---------------------------- MODULE MCViewerParts -----------------------------
(***************************************************************************)
(* Small documents, histories and places for TLC.                          *)
(***************************************************************************)
EXTENDS ViewerParts

\* Two matches of one query on one page, none of the other.
TwoQueries == [a |-> [p \in PageIdxs |-> IF p = NumPages - 1 THEN 2 ELSE 0],
               b |-> [p \in PageIdxs |-> 0]]

LongAndShort == [long |-> 2, short |-> 1]

\* The second page, which the short file does not have.
SecondPage == [page : {2}, zoom : BOOLEAN]

\* Two positions on the first page and one on the second, with a link to the
\* start of each page.
ThreePlaces == [page : {1}, top : {1, 2}] \union [page : {2}, top : {1}]
Starts == [d |-> [page |-> 1, top |-> 1], e |-> [page |-> 2, top |-> 1]]
=============================================================================
