--------------------------- MODULE MCPageRendering --------------------------
(* Instances of PageRendering for TLC. *)
EXTENDS PageRendering

\* A document too long for the buffer, read to and fro.
Long == [pages |-> 4, screen |-> 1, moves |-> 3, ops |-> {"scroll"}]

\* Two pages at a time on the screen, zoomed.
Wide == [pages |-> 3, screen |-> 2, moves |-> 2, ops |-> {"scroll", "zoom"}]

\* A short document with its thumbnails, rotated and printed.
Short == [pages |-> 2, screen |-> 1, moves |-> 2,
          ops |-> {"scroll", "rotate", "sidebar", "print"}]

LongWideAndShort == {Long, Wide, Short}
=============================================================================
