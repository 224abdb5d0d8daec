-------------------------- MODULE ViewerPartsProofs ---------------------------
(***************************************************************************)
(* Proofs about the parts of the viewer, for documents of any length, any  *)
(* number of files, opens, prints, searches and trips.  Each part has its  *)
(* inductive invariant; the last section puts them together, as every step *)
(* of ViewerParts is one of one part or leaves the part alone.             *)
(***************************************************************************)
EXTENDS ViewerParts, SequenceTheorems, FiniteSetTheorems, TLAPS

-----------------------------------------------------------------------------
(* Presentation mode. *)

\* All timers of one moment are of one kind: the browser changes nothing while
\* they run.
TimerNow == IF fullscreen THEN "enter" ELSE "exit"

\* The mode: it is told as it is; it is on only while it listens and the event
\* or timer that ends it is to come.
ModeInv ==
    /\ mode.told = IF mode.switching THEN "changing"
                   ELSE IF mode.active THEN "fullscreen" ELSE "normal"
    /\ mode.active => mode.listening /\ ~mode.switching
    /\ mode.listening => (mode.switching \/ mode.active) /\ args # NoScale
    /\ \A i \in 1 .. Len(timers) : timers[i] = TimerNow
    /\ timers # <<>> /\ fullscreen => mode.active
    /\ mode.active => fullscreen \/ changes > 0 \/ timers # <<>>

\* The zoom and the hand tool: as chosen, or kept for the end of the mode.
ViewInv ==
    /\ ~mode.active => /\ scale \in Scales
                       /\ chosen.scale \in {scale, NoScale}
                       /\ hand.active = chosen.hand /\ ~hand.was
    /\ mode.active => ~hand.active /\ hand.was = chosen.hand
    /\ args # NoScale /\ (mode.listening \/ timers # <<>>) =>
          chosen.scale \in {args, NoScale}

PresInv == PresTypeOK /\ ModeInv /\ ViewInv

LEMMA PresInvHolds == PresInv => PresTypeOK /\ PresentationEnds /\ ViewRestored
BY DEF PresInv, ModeInv, ViewInv, PresTypeOK, PresentationEnds, ViewRestored

LEMMA PresInvInit == PresInit => PresInv
<1>. SUFFICES ASSUME PresInit PROVE PresInv
  OBVIOUS
<1>1. NoScale \notin Scales
  BY ScalesAssumption
<1>2. timers \in Seq({"enter", "exit"}) /\ Len(timers) = 0
  BY DEF PresInit
<1>3. PresTypeOK
  <2>0. {asked, changes, requests} \subseteq Nat
    BY DEF PresInit
  <2>3. fullscreen \in BOOLEAN
    BY Zenon DEF PresInit
  <2>1. /\ mode \in [active : BOOLEAN, listening : BOOLEAN, switching : BOOLEAN,
                     told : {"normal", "changing", "fullscreen"}]
        /\ args \in Scales \union {NoScale}
        /\ scale \in Scales \union {PageFit}
    BY DEF PresInit
  <2>2. /\ hand \in [active : BOOLEAN, was : BOOLEAN]
        /\ chosen \in [scale : Scales \union {NoScale}, hand : BOOLEAN]
    BY DEF PresInit
  <2>. QED BY <1>2, <2>0, <2>1, <2>2, <2>3 DEF PresTypeOK
<1>4. ModeInv
  BY <1>2 DEF PresInit, ModeInv
<1>5. ViewInv
  BY <1>1, <1>2 DEF PresInit, ViewInv
<1>. QED BY <1>3, <1>4, <1>5 DEF PresInv

\* One more timer, of the kind of the moment.
LEMMA MoreTimers ==
    ASSUME timers \in Seq({"enter", "exit"}), NEW k \in {"enter", "exit"},
           timers' = Append(timers, k),
           \A i \in 1 .. Len(timers) : timers[i] = k
    PROVE  /\ timers' \in Seq({"enter", "exit"})
           /\ timers' # <<>>
           /\ \A i \in 1 .. Len(timers') : timers'[i] = k
BY AppendProperties

LEMMA FewerTimers ==
    ASSUME timers \in Seq({"enter", "exit"}), NEW k,
           timers # <<>>, timers' = Tail(timers),
           \A i \in 1 .. Len(timers) : timers[i] = k
    PROVE  /\ Head(timers) = k
           /\ timers' \in Seq({"enter", "exit"})
           /\ \A i \in 1 .. Len(timers') : timers'[i] = k
BY HeadTailProperties

LEMMA PresStep == PresInv /\ [PresNext]_presVars => PresInv'
<1>. SUFFICES ASSUME PresInv, [PresNext]_presVars PROVE PresInv'
  OBVIOUS
<1>0. /\ fullscreen \in BOOLEAN /\ asked \in Nat /\ changes \in Nat /\ requests \in Nat
      /\ mode \in [active : BOOLEAN, listening : BOOLEAN, switching : BOOLEAN,
                   told : {"normal", "changing", "fullscreen"}]
      /\ args \in Scales \union {NoScale}
      /\ timers \in Seq({"enter", "exit"})
      /\ scale \in Scales \union {PageFit}
      /\ hand \in [active : BOOLEAN, was : BOOLEAN]
      /\ chosen \in [scale : Scales \union {NoScale}, hand : BOOLEAN]
      /\ PageFit \notin Scales /\ NoScale \notin Scales
  BY ScalesAssumption DEF PresInv, PresTypeOK
<1>. USE DEF PresInv, PresTypeOK
<1>1. CASE Request
  <2>1. timers = <<>> /\ timers' = timers /\ Len(timers) = 0
    BY <1>0, <1>1 DEF Request, Act, NoTimer
  <2>0. /\ asked' \in Nat /\ requests' \in Nat /\ args' \in Scales
        /\ mode' = [mode EXCEPT !.listening = TRUE, !.switching = TRUE,
                                !.told = "changing"]
        /\ UNCHANGED <<fullscreen, changes, scale, hand, chosen>>
    BY <1>0, <1>1 DEF Request, Act, Notify, ModeInv, ViewInv
  <2>5. timers' = timers
    BY <2>1
  <2>2. PresTypeOK'
    BY <1>0, <2>0, <2>5
  <2>3. ModeInv'
    BY <1>0, <1>1, <2>1 DEF Request, Act, NoTimer, Notify, ModeInv, ViewInv
  <2>4. ViewInv'
    BY <1>0, <1>1, <2>1 DEF Request, Act, NoTimer, Notify, ModeInv, ViewInv
  <2>. QED BY <2>2, <2>3, <2>4
<1>2. CASE Answer
  <2>1. timers = <<>> /\ timers' = timers /\ Len(timers) = 0
    BY <1>0, <1>2 DEF Answer, Act, NoTimer
  <2>0. /\ asked' \in Nat /\ changes' \in Nat /\ fullscreen' \in BOOLEAN
        /\ UNCHANGED <<mode, args, scale, hand, chosen, requests>>
    <3>1. fullscreen' \in BOOLEAN
      BY <1>0, <1>2, Zenon DEF Answer
    <3>2. asked' \in Nat /\ changes' \in Nat
      BY <1>0, <1>2 DEF Answer
    <3>. QED BY <1>2, <3>1, <3>2 DEF Answer
  <2>5. timers' = timers
    BY <2>1
  <2>2. PresTypeOK'
    BY <1>0, <2>0, <2>5
  <2>3. ModeInv'
    BY <1>0, <1>2, <2>1 DEF Answer, NoTimer, ModeInv, ViewInv
  <2>4. ViewInv'
    BY <1>0, <1>2, <2>1 DEF Answer, NoTimer, ModeInv, ViewInv
  <2>. QED BY <2>2, <2>3, <2>4
<1>3. CASE Leave
  <2>1. timers = <<>> /\ timers' = timers /\ Len(timers) = 0
    BY <1>0, <1>3 DEF Leave, Act, NoTimer
  <2>0. /\ fullscreen' \in BOOLEAN /\ changes' \in Nat
        /\ UNCHANGED <<asked, mode, args, scale, hand, chosen, requests>>
    <3>1. fullscreen' \in BOOLEAN
      BY <1>0, <1>3, Zenon DEF Leave
    <3>2. changes' \in Nat
      BY <1>0, <1>3 DEF Leave
    <3>. QED BY <1>3, <3>1, <3>2 DEF Leave
  <2>5. timers' = timers
    BY <2>1
  <2>2. PresTypeOK'
    BY <1>0, <2>0, <2>5
  <2>3. ModeInv'
    BY <1>0, <1>3, <2>1 DEF Leave, NoTimer, ModeInv, ViewInv
  <2>4. ViewInv'
    BY <1>0, <1>3, <2>1 DEF Leave, NoTimer, ModeInv, ViewInv
  <2>. QED BY <2>2, <2>3, <2>4
<1>4. CASE FullscreenChange
  <2>1. CASE ~mode.listening
    BY <1>0, <1>4, <2>1 DEF FullscreenChange, ModeInv, ViewInv, TimerNow
  <2>2. CASE mode.listening /\ fullscreen
    <3>1. timers' = Append(timers, "enter") /\ fullscreen' = fullscreen
      BY <1>4, <2>2 DEF FullscreenChange, Enter
    <3>2. /\ timers' \in Seq({"enter", "exit"}) /\ timers' # <<>>
          /\ \A i \in 1 .. Len(timers') : timers'[i] = "enter"
      BY <1>0, <2>2, <3>1, MoreTimers DEF ModeInv, TimerNow
    <3>3. /\ mode' = [mode EXCEPT !.active = TRUE, !.switching = FALSE,
                                  !.told = "fullscreen"]
          /\ hand' = IF hand.active THEN [active |-> FALSE, was |-> TRUE] ELSE hand
          /\ changes' = changes - 1 /\ changes' \in Nat
          /\ UNCHANGED <<fullscreen, asked, args, scale, chosen, requests>>
      BY <1>0, <1>4, <2>2 DEF FullscreenChange, Enter, Notify, HandTold
    <3>4. PresTypeOK'
      BY <1>0, <3>2, <3>3
    <3>5. ModeInv'
      BY <1>0, <2>2, <3>2, <3>3 DEF ModeInv, TimerNow
    <3>6. ViewInv'
      BY <1>0, <2>2, <3>2, <3>3 DEF ModeInv, ViewInv
    <3>. QED BY <3>4, <3>5, <3>6
  <2>3. CASE mode.listening /\ ~fullscreen
    <3>1. timers' = Append(timers, "exit") /\ fullscreen' = fullscreen
      BY <1>4, <2>3 DEF FullscreenChange, Exit
    <3>2. /\ timers' \in Seq({"enter", "exit"}) /\ timers' # <<>>
          /\ \A i \in 1 .. Len(timers') : timers'[i] = "exit"
      BY <1>0, <2>3, <3>1, MoreTimers DEF ModeInv, TimerNow
    <3>. QED BY <1>0, <1>4, <2>3, <3>1, <3>2
         DEF FullscreenChange, Exit, ModeInv, ViewInv, TimerNow
  <2>. QED BY <2>1, <2>2, <2>3
<1>5. CASE SwitchTimeout
  BY <1>0, <1>5 DEF SwitchTimeout, Notify, HandTold, ModeInv, ViewInv, TimerNow
<1>6. CASE EnterTimeout
  <2>1. /\ Head(timers) = TimerNow /\ timers' \in Seq({"enter", "exit"})
        /\ \A i \in 1 .. Len(timers') : timers'[i] = TimerNow
    BY <1>0, <1>6, FewerTimers DEF EnterTimeout, ModeInv
  <2>. QED BY <1>0, <1>6, <2>1 DEF EnterTimeout, ModeInv, ViewInv, TimerNow
<1>7. CASE ExitTimeout
  <2>1. /\ Head(timers) = TimerNow /\ timers' \in Seq({"enter", "exit"})
        /\ \A i \in 1 .. Len(timers') : timers'[i] = TimerNow
    BY <1>0, <1>7, FewerTimers DEF ExitTimeout, ModeInv
  <2>. QED BY <1>0, <1>7, <2>1
       DEF ExitTimeout, Notify, HandTold, ModeInv, ViewInv, TimerNow
<1>8. CASE Zoom
  BY <1>0, <1>8 DEF Zoom, Act, NoTimer, ModeInv, ViewInv, TimerNow
<1>9. CASE ToggleHand
  <2>1. timers = <<>> /\ timers' = timers /\ Len(timers) = 0
    BY <1>0, <1>9 DEF ToggleHand, Act, NoTimer
  <2>0. /\ requests' \in Nat
        /\ hand' = [hand EXCEPT !.active = ~hand.active]
        /\ chosen' = [chosen EXCEPT !.hand = ~hand.active]
        /\ UNCHANGED <<fullscreen, asked, changes, mode, args, scale>>
    BY <1>0, <1>9 DEF ToggleHand, Act
  <2>5. timers' = timers
    BY <2>1
  <2>2. PresTypeOK'
    BY <1>0, <2>0, <2>5
  <2>3. ModeInv'
    BY <1>0, <1>9, <2>1 DEF ToggleHand, Act, NoTimer, ModeInv, ViewInv
  <2>4. ViewInv'
    BY <1>0, <1>9, <2>1 DEF ToggleHand, Act, NoTimer, ModeInv, ViewInv
  <2>. QED BY <2>2, <2>3, <2>4
<1>10. CASE UNCHANGED presVars
  BY <1>0, <1>10 DEF presVars, ModeInv, ViewInv, TimerNow
<1>. QED BY <1>1, <1>2, <1>3, <1>4, <1>5, <1>6, <1>7, <1>8, <1>9, <1>10
     DEF PresNext, PresWork

-----------------------------------------------------------------------------
(* Printing. *)

\* A job begun when nothing of another was left has one drawing under way, that
\* of its canvas index, and has drawn the canvases before it; after the last one
\* nothing is left but the timer, and the paper has them all.
JobInOrder ==
    IF index < Total(ready)
    THEN /\ index \in Nat
         /\ drawing = {<<job, index>>}
         /\ drawn = 0 .. index - 1
         /\ tidy = {}
    ELSE /\ drawing = {}
         /\ drawn = 0 .. Total(ready) - 1
         /\ paper = drawn

PrintInv ==
    /\ PrintTypeOK
    /\ job <= prints
    /\ PrintingIsJob
    /\ ~restarted /\ job # 0 => JobInOrder

LEMMA PrintInvInit == PrintInit => PrintInv
<1>. SUFFICES ASSUME PrintInit PROVE PrintInv
  OBVIOUS
<1>1. {loaded, ready, printing, container, restarted} \subseteq BOOLEAN
  BY DEF PrintInit
<1>2. job \in 0 .. MaxPrints /\ prints \in 0 .. MaxPrints /\ index \in Nat \union {-1}
  BY MaxPrintsAssumption DEF PrintInit
<1>3. PrintTypeOK
  BY <1>1, <1>2 DEF PrintInit, PrintTypeOK
<1>. QED BY <1>3, MaxPrintsAssumption DEF PrintInit, PrintInv, PrintingIsJob

LEMMA TotalType == PrintTypeOK => /\ Total(ready) \in Nat
                                  /\ Total(ready) <= PrintPages
BY PrintPagesAssumption DEF PrintTypeOK, Total

\* next keeps the types, for any job and what it has drawn.
LEMMA NextCanvasType ==
    ASSUME PrintTypeOK,
           NEW j \in 1 .. MaxPrints, NEW i \in Nat \union {-1}, NEW isReady \in BOOLEAN,
           NEW left \in SUBSET ((1 .. MaxPrints) \X Canvases),
           NEW done \in SUBSET Canvases,
           NextCanvas(j, i, isReady, left, done)
    PROVE  /\ index' \in Nat
           /\ drawing' \subseteq (1 .. MaxPrints) \X Canvases
           /\ tidy' \subseteq 1 .. MaxPrints
           /\ paper' \in (SUBSET Canvases) \union {NoPaper}
<1>1. index' = i + 1 /\ index' \in Nat
  BY DEF NextCanvas
<1>2. CASE i + 1 < Total(isReady)
  <2>1. i + 1 \in Canvases
    BY <1>1, <1>2, PrintPagesAssumption DEF Total, Canvases
  <2>2. /\ drawing' = left \union {<<j, i + 1>>}
        /\ tidy' = tidy /\ paper' = paper
    BY <1>2 DEF NextCanvas
  <2>. QED BY <1>1, <2>1, <2>2 DEF PrintTypeOK
<1>3. CASE ~(i + 1 < Total(isReady))
  BY <1>1, <1>3 DEF NextCanvas, PrintTypeOK
<1>. QED BY <1>2, <1>3

\* abort leaves no job, whatever was left of one.
LEMMA AbortStep ==
    ASSUME PrintInv, Abort,
           UNCHANGED <<loaded, index, ready, drawn, paper, restarted, prints>>,
           drawing' \subseteq drawing, tidy' \subseteq tidy
    PROVE  PrintInv'
<1>1. PrintTypeOK /\ PrintingIsJob /\ MaxPrints \in Nat /\ prints \in Nat
  BY MaxPrintsAssumption DEF PrintInv, PrintTypeOK
<1>2. /\ job' = 0
      /\ \/ printing' = FALSE /\ container' = FALSE
         \/ job = 0 /\ printing' = printing /\ container' = container
  BY DEF Abort, AfterPrint
<1>3. {loaded', ready', printing', container', restarted'} \subseteq BOOLEAN
  BY <1>1, <1>2 DEF PrintTypeOK
<1>4. PrintTypeOK'
  <2>1. job' \in 0 .. MaxPrints
    BY <1>1, <1>2
  <2>. QED BY <1>1, <1>3, <2>1 DEF PrintTypeOK
<1>5. PrintingIsJob'
  BY <1>1, <1>2 DEF PrintingIsJob
<1>. QED BY <1>1, <1>2, <1>4, <1>5 DEF PrintInv

LEMMA PrintStep == PrintInv /\ [PrintNext]_printVars => PrintInv'
<1>. SUFFICES ASSUME PrintInv, [PrintNext]_printVars PROVE PrintInv'
  OBVIOUS
<1>0. /\ PrintTypeOK /\ job <= prints /\ PrintingIsJob
      /\ prints \in Nat /\ job \in Nat /\ MaxPrints \in Nat /\ prints <= MaxPrints
      /\ ~restarted /\ job # 0 => JobInOrder
  BY MaxPrintsAssumption DEF PrintInv, PrintTypeOK
<1>1. ASSUME NEW d \in drawing, Drawn(d) PROVE PrintInv'
  <2>0. /\ d[1] \in 1 .. MaxPrints /\ d[2] \in Canvases
        /\ drawn' \in SUBSET Canvases
        /\ drawing \ {d} \in SUBSET ((1 .. MaxPrints) \X Canvases)
    BY <1>0, <1>1 DEF Drawn, PrintTypeOK
  <2>1. /\ index' \in Nat \union {-1}
        /\ drawing' \subseteq (1 .. MaxPrints) \X Canvases
        /\ tidy' \subseteq 1 .. MaxPrints
        /\ paper' \in (SUBSET Canvases) \union {NoPaper}
    <3>1. CASE job = 0
      BY <1>0, <1>1, <2>0, <3>1 DEF Drawn, PrintTypeOK
    <3>2. CASE job # 0
      <4>1. /\ job \in 1 .. MaxPrints /\ index \in Nat \union {-1} /\ ready \in BOOLEAN
            /\ NextCanvas(job, index, ready, drawing \ {d}, drawn')
        BY <1>0, <1>1, <3>2 DEF Drawn, PrintTypeOK
      <4>. QED BY <1>0, <2>0, <4>1, NextCanvasType
    <3>. QED BY <3>1, <3>2
  <2>2. PrintTypeOK'
    BY <1>0, <1>1, <2>0, <2>1 DEF Drawn, PrintTypeOK
  <2>3. ASSUME ~restarted, job # 0 PROVE JobInOrder'
    <3>1. /\ index < Total(ready) /\ index \in Nat /\ drawing = {<<job, index>>}
          /\ drawn = 0 .. index - 1 /\ tidy = {} /\ d = <<job, index>>
      BY <1>0, <1>1, <2>3 DEF JobInOrder
    <3>2. drawn' = 0 .. index
      <4>1. drawn' = drawn \union {index}
        BY <1>1, <3>1 DEF Drawn
      <4>. QED BY <3>1, <4>1
    <3>3. /\ index' = index + 1 /\ ready' = ready /\ job' = job
          /\ IF index + 1 < Total(ready)
             THEN drawing' = {<<job, index + 1>>} /\ tidy' = {} 
             ELSE drawing' = {} /\ paper' = drawn'
      BY <1>1, <2>3, <3>1 DEF Drawn, NextCanvas
    <3>4. Total(ready') = Total(ready) /\ Total(ready) \in Nat
      BY <1>0, <3>3, TotalType
    <3>5. CASE index + 1 < Total(ready)
      BY <3>1, <3>2, <3>3, <3>4, <3>5 DEF JobInOrder
    <3>6. CASE ~(index + 1 < Total(ready))
      <4>1. Total(ready) - 1 = index
        BY <3>1, <3>4, <3>6
      <4>. QED BY <3>1, <3>2, <3>3, <3>4, <3>6, <4>1 DEF JobInOrder
    <3>. QED BY <3>5, <3>6
  <2>. QED BY <1>0, <1>1, <2>2, <2>3 DEF PrintInv, Drawn, PrintingIsJob
<1>2. ASSUME NEW d \in drawing, DrawError(d) PROVE PrintInv'
  BY <1>2, AbortStep DEF DrawError
<1>3. ASSUME NEW j \in tidy, TidyUp(j) PROVE PrintInv'
  BY <1>3, AbortStep DEF TidyUp
<1>4. CASE PagesLoaded
  BY <1>0, <1>4 DEF PagesLoaded, PrintInv, PrintTypeOK, PrintingIsJob, JobInOrder
<1>5. CASE WindowPrint
  <2>1. /\ job = 0 /\ job' = prints + 1 /\ prints' = prints + 1 /\ job' \in 1 .. MaxPrints
        /\ ready' = loaded /\ ready' \in BOOLEAN /\ drawn' = {}
        /\ NextCanvas(job', -1, ready', drawing, {})
    BY <1>0, <1>5 DEF WindowPrint, BeforePrint, PrintTypeOK
  <2>2. /\ index' \in Nat
        /\ drawing' \subseteq (1 .. MaxPrints) \X Canvases
        /\ tidy' \subseteq 1 .. MaxPrints
        /\ paper' \in (SUBSET Canvases) \union {NoPaper}
    <3>1. drawing \in SUBSET ((1 .. MaxPrints) \X Canvases) /\ -1 \in Nat \union {-1}
      BY <1>0 DEF PrintTypeOK
    <3>2. {} \in SUBSET Canvases
      OBVIOUS
    <3>. QED BY <1>0, <2>1, <3>1, <3>2, NextCanvasType
  <2>3. PrintTypeOK'
    BY <1>0, <1>5, <2>1, <2>2 DEF WindowPrint, BeforePrint, PrintTypeOK
  <2>4. PrintingIsJob'
    BY <1>0, <1>5, <2>1 DEF WindowPrint, BeforePrint, PrintingIsJob, PrintTypeOK
  <2>5. ASSUME ~restarted' PROVE JobInOrder'
    <3>1. drawing = {} /\ tidy = {} /\ index' = 0
      <4>1. ~(drawing # {} \/ tidy # {})
        BY <1>5, <2>5 DEF WindowPrint
      <4>. QED BY <2>1, <4>1 DEF NextCanvas
    <3>2. Total(ready') \in Nat
      BY <2>3, PrintPagesAssumption DEF PrintTypeOK, Total
    <3>3. CASE 0 < Total(ready')
      BY <2>1, <3>1, <3>2, <3>3 DEF JobInOrder, NextCanvas
    <3>4. CASE ~(0 < Total(ready'))
      BY <2>1, <3>1, <3>2, <3>4 DEF JobInOrder, NextCanvas
    <3>. QED BY <3>3, <3>4
  <2>. QED BY <1>0, <2>1, <2>3, <2>4, <2>5 DEF PrintInv
<1>6. CASE Cancel
  BY <1>6, AbortStep DEF Cancel
<1>7. CASE UNCHANGED printVars
  BY <1>0, <1>7 DEF printVars, PrintInv, PrintTypeOK, PrintingIsJob, JobInOrder
<1>. QED BY <1>1, <1>2, <1>3, <1>4, <1>5, <1>6, <1>7 DEF PrintNext, PrintWork

LEMMA PrintInvHolds == PrintInv => PrintTypeOK /\ PrintingIsJob /\ PaperComplete
<1>. SUFFICES ASSUME PrintInv, ~restarted, job # 0, job \in tidy
              PROVE  paper = 0 .. Total(ready) - 1
  BY DEF PrintInv, PaperComplete
<1>. QED BY DEF PrintInv, JobInOrder

-----------------------------------------------------------------------------
(* View history. *)

\* A history within its limit that knows each document once.
Distinct(db) ==
    \A i, j \in 1 .. Len(db) : db[i].fingerprint = db[j].fingerprint => i = j
Bounded(db) == db \in Seq(Entry) /\ Len(db) <= Memory /\ Distinct(db)

LEMMA DistinctCardinality ==
    ASSUME NEW db, Bounded(db)
    PROVE  Cardinality(FingerprintsOf(db)) = Len(db)
<1>. DEFINE n == Len(db)
            F == FingerprintsOf(db)
<1>1. /\ n \in Nat /\ DOMAIN db = 1 .. n
      /\ F = {db[i].fingerprint : i \in 1 .. n}
  BY DEF Bounded, FingerprintsOf
<1>2. PICK f : f = [i \in 1 .. n |-> db[i].fingerprint]
  OBVIOUS
<1>3. f \in Bijection(1 .. n, F)
  <2>1. f \in [1 .. n -> F]
    BY <1>1, <1>2
  <2>2. \A i, j \in 1 .. n : f[i] = f[j] => i = j
    BY <1>2 DEF Bounded, Distinct
  <2>3. \A x \in F : \E i \in 1 .. n : f[i] = x
    BY <1>1, <1>2
  <2>. QED BY <2>1, <2>2, <2>3 DEF Bijection, Injection, Surjection, IsInjective
<1>. QED BY <1>1, <1>3, FS_CountingElements DEF ExistsBijection

LEMMA BoundedShifted ==
    ASSUME NEW db, Bounded(db)
    PROVE  /\ Bounded(Shifted(db)) /\ Len(Shifted(db)) < Memory
           /\ Len(db) < Memory => Shifted(db) = db
           /\ \A i \in 1 .. Len(Shifted(db)) : \E j \in 1 .. Len(db) :
                 Shifted(db)[i] = db[j]
<1>0. db \in Seq(Entry) /\ Len(db) \in Nat /\ Memory \in Nat \ {0} /\ Len(db) <= Memory
  BY MemoryAssumption DEF Bounded
<1>1. CASE Len(db) < Memory
  BY <1>0, <1>1 DEF Shifted
<1>2. CASE ~(Len(db) < Memory)
  <2>1. db # <<>> /\ Shifted(db) = Tail(db)
    BY <1>0, <1>2 DEF Shifted
  <2>2. PICK t : t = Tail(db)
    OBVIOUS
  <2>3. /\ t \in Seq(Entry) /\ Len(t) = Len(db) - 1
        /\ \A i \in 1 .. Len(t) : t[i] = db[i + 1]
    BY <1>0, <2>1, <2>2, HeadTailProperties
  <2>4. Distinct(t)
    BY <1>0, <2>3 DEF Bounded, Distinct
  <2>5. \A i \in 1 .. Len(t) : \E j \in 1 .. Len(db) : t[i] = db[j]
    <3> TAKE i \in 1 .. Len(t)
    <3>1. i + 1 \in 1 .. Len(db) /\ t[i] = db[i + 1]
      BY <1>0, <2>3
    <3>. QED BY <3>1
  <2>6. Bounded(t) /\ Len(t) < Memory
    BY <1>0, <2>3, <2>4 DEF Bounded
  <2>. QED BY <1>2, <2>1, <2>2, <2>5, <2>6
<1>. QED BY <1>1, <1>2

LEMMA BoundedWithFile ==
    ASSUME NEW db, Bounded(db), Len(db) < Memory, NEW f \in Fingerprints
    PROVE  /\ Bounded(WithFile(db, f))
           /\ FingerprintsOf(WithFile(db, f)) = FingerprintsOf(db) \union {f}
           /\ \A i \in 1 .. Len(WithFile(db, f)) :
                 \/ WithFile(db, f)[i].fingerprint = f
                 \/ i \in 1 .. Len(db) /\ WithFile(db, f)[i] = db[i]
<1>0. /\ db \in Seq(Entry) /\ Len(db) \in Nat /\ DOMAIN db = 1 .. Len(db)
      /\ Memory \in Nat
  BY MemoryAssumption DEF Bounded
<1>1. CASE f \in FingerprintsOf(db)
  BY <1>0, <1>1 DEF WithFile
<1>2. CASE f \notin FingerprintsOf(db)
  <2>. DEFINE e == [fingerprint |-> f, position |-> NoPosition]
  <2>1. PICK d : d = Append(db, e)
    OBVIOUS
  <2>2. e \in Entry
    BY MaxViewsAssumption DEF Entry, NoPosition
  <2>3. /\ d \in Seq(Entry) /\ Len(d) = Len(db) + 1
        /\ \A i \in 1 .. Len(db) : d[i] = db[i]
        /\ d[Len(db) + 1] = e
    BY <1>0, <2>1, <2>2, AppendProperties
  <2>4. \A i \in 1 .. Len(db) : db[i].fingerprint # f
    BY <1>0, <1>2 DEF FingerprintsOf
  <2>5. \A i \in 1 .. Len(d) :
           \/ i = Len(db) + 1 /\ d[i].fingerprint = f
           \/ i \in 1 .. Len(db) /\ d[i] = db[i]
    BY <1>0, <2>3
  <2>6. Distinct(d)
    BY <1>0, <2>4, <2>5 DEF Bounded, Distinct
  <2>7. FingerprintsOf(d) = FingerprintsOf(db) \union {f}
    <3>1. DOMAIN d = 1 .. Len(d)
      BY <2>3
    <3>2. \A i \in 1 .. Len(db) : i \in 1 .. Len(d) /\ d[i].fingerprint = db[i].fingerprint
      BY <1>0, <2>3
    <3>3. Len(db) + 1 \in 1 .. Len(d) /\ d[Len(db) + 1].fingerprint = f
      BY <1>0, <2>3
    <3>. QED BY <1>0, <2>5, <3>1, <3>2, <3>3 DEF FingerprintsOf
  <2>8. WithFile(db, f) = d
    BY <1>2, <2>1 DEF WithFile
  <2>. QED BY <1>0, <2>3, <2>5, <2>6, <2>7, <2>8 DEF Bounded
<1>. QED BY <1>1, <1>2

\* A position is written: the documents stay.
LEMMA BoundedMoved ==
    ASSUME NEW db, Bounded(db), NEW k \in 1 .. Len(db),
           NEW e \in Entry, e.fingerprint = db[k].fingerprint
    PROVE  LET d == [db EXCEPT ![k] = e]
           IN  /\ Bounded(d) /\ Len(d) = Len(db)
               /\ FingerprintsOf(d) = FingerprintsOf(db)
               /\ \A i \in 1 .. Len(db) :
                     /\ d[i].fingerprint = db[i].fingerprint
                     /\ d[i].position = IF i = k THEN e.position ELSE db[i].position
<1>. DEFINE d == [db EXCEPT ![k] = e]
<1>0. /\ db \in Seq(Entry) /\ Len(db) \in Nat /\ DOMAIN db = 1 .. Len(db)
      /\ \A i \in 1 .. Len(db) : db[i] \in Entry
  BY DEF Bounded
<1>4. /\ d \in Seq(Entry) /\ Len(d) = Len(db)
      /\ \A i \in 1 .. Len(db) : d[i] = IF i = k THEN e ELSE db[i]
  BY <1>0, ExceptSeq
<1>5. \A i \in 1 .. Len(db) : /\ d[i].fingerprint = db[i].fingerprint
                              /\ d[i].position = IF i = k THEN e.position
                                                 ELSE db[i].position
  BY <1>4
<1>6. FingerprintsOf(d) = FingerprintsOf(db)
  <2>1. DOMAIN d = 1 .. Len(db)
    BY <1>4
  <2>. QED BY <1>0, <1>5, <2>1 DEF FingerprintsOf
<1>. QED BY <1>4, <1>5, <1>6 DEF Bounded, Distinct

Seen == {f \in Fingerprints : last[f] # NoPosition}

\* A tab whose copy is not stale has read what the database has now, but for its
\* own document.
CopyFits(t) ==
    /\ \A i \in 1 .. Len(copy[t]) :
          i # current[t] => copy[t][i].position = last[copy[t][i].fingerprint]
    /\ Cardinality(Seen) < Memory =>
          FingerprintsOf(copy[t]) = Seen \union {copy[t][current[t]].fingerprint}

ViewHistoryInv ==
    /\ ViewHistoryTypeOK
    /\ Bounded(database)
    /\ \A t \in Tabs : Bounded(copy[t])
    /\ IsFiniteSet(Seen)
    /\ LastPositionKept
    /\ ~clashed => \A t \in Tabs : t \notin stale /\ current[t] # 0 => CopyFits(t)

LEMMA ViewHistoryInvHolds ==
    ViewHistoryInv => ViewHistoryTypeOK /\ HistoryBounded /\ LastPositionKept
BY DistinctCardinality DEF ViewHistoryInv, HistoryBounded, Bounded

LEMMA ViewHistoryInvInit == ViewHistoryInit => ViewHistoryInv
<1>. SUFFICES ASSUME ViewHistoryInit PROVE ViewHistoryInv
  OBVIOUS
<1>1. <<>> \in Seq(Entry) /\ Len(<<>>) = 0 /\ DOMAIN <<>> = {}
  BY EmptySeq
<1>2. Bounded(<<>>)
  BY <1>1, MemoryAssumption DEF Bounded, Distinct
<1>3. Seen = {} /\ IsFiniteSet(Seen)
  BY FS_EmptySet DEF ViewHistoryInit, Seen
<1>4. FingerprintsOf(<<>>) = {}
  BY <1>1 DEF FingerprintsOf
<1>5. LastPositionKept
  BY <1>1, <1>3, <1>4 DEF LastPositionKept, ViewHistoryInit, Seen
<1>6. ViewHistoryTypeOK
  <2>0. clashed \in BOOLEAN
    BY Zenon DEF ViewHistoryInit
  <2>1. /\ current \in [Tabs -> Nat] /\ views \in 0 .. MaxViews
        /\ last \in [Fingerprints -> 0 .. MaxViews]
        /\ \A t \in Tabs : current[t] = 0
    BY MaxViewsAssumption DEF ViewHistoryInit, NoPosition
  <2>2. /\ database \in Seq(Entry) /\ copy \in [Tabs -> Seq(Entry)] /\ stale \subseteq Tabs
        /\ \A t \in Tabs : Len(copy[t]) = 0
    BY <1>1 DEF ViewHistoryInit
  <2>. QED BY <2>0, <2>1, <2>2 DEF ViewHistoryTypeOK
<1>. QED BY <1>2, <1>3, <1>5, <1>6 DEF ViewHistoryInit, ViewHistoryInv

LEMMA ViewHistoryStep == ViewHistoryInv /\ [ViewHistoryNext]_viewHistoryVars => ViewHistoryInv'
<1>. SUFFICES ASSUME ViewHistoryInv, [ViewHistoryNext]_viewHistoryVars
              PROVE  ViewHistoryInv'
  OBVIOUS
<1>0. /\ database \in Seq(Entry) /\ copy \in [Tabs -> Seq(Entry)]
      /\ current \in [Tabs -> Nat]
      /\ \A t \in Tabs : current[t] \in 0 .. Len(copy[t])
      /\ stale \subseteq Tabs /\ last \in [Fingerprints -> 0 .. MaxViews]
      /\ clashed \in BOOLEAN /\ views \in 0 .. MaxViews
      /\ Bounded(database) /\ IsFiniteSet(Seen) /\ LastPositionKept
      /\ \A t \in Tabs : Bounded(copy[t])
      /\ MaxViews \in Nat /\ Memory \in Nat
  BY MaxViewsAssumption, MemoryAssumption DEF ViewHistoryInv, ViewHistoryTypeOK
<1>1. ASSUME NEW t \in Tabs, NEW f \in Fingerprints, LoadFile(t, f)
      PROVE  ViewHistoryInv'
  <2>1. PICK old : old = Shifted(database)
    OBVIOUS
  <2>2. PICK db : db = WithFile(old, f)
    OBVIOUS
  <2>3. /\ Bounded(old) /\ Len(old) < Memory
        /\ Len(database) < Memory => old = database
        /\ \A i \in 1 .. Len(old) : \E j \in 1 .. Len(database) : old[i] = database[j]
    BY <1>0, <2>1, BoundedShifted
  <2>4. /\ Bounded(db) /\ FingerprintsOf(db) = FingerprintsOf(old) \union {f}
        /\ \A i \in 1 .. Len(db) : \/ db[i].fingerprint = f
                                   \/ i \in 1 .. Len(old) /\ db[i] = old[i]
    BY <2>2, <2>3, BoundedWithFile
  <2>5. PICK k : k = CHOOSE i \in DOMAIN db : db[i].fingerprint = f
    OBVIOUS
  <2>6. k \in 1 .. Len(db) /\ db[k].fingerprint = f /\ DOMAIN db = 1 .. Len(db)
    <3>1. DOMAIN db = 1 .. Len(db)
      BY <2>4 DEF Bounded
    <3>2. \E i \in DOMAIN db : db[i].fingerprint = f
      BY <2>4 DEF FingerprintsOf
    <3>. QED BY <2>5, <3>1, <3>2
  <2>7. /\ copy' = [copy EXCEPT ![t] = db] /\ current' = [current EXCEPT ![t] = k]
        /\ stale' = stale \ {t} /\ views' \in 0 .. MaxViews
        /\ UNCHANGED <<database, last, clashed>>
    BY <1>0, <1>1, <2>1, <2>2, <2>5 DEF LoadFile, Looks
  <2>8. ViewHistoryTypeOK'
    BY <1>0, <2>4, <2>6, <2>7 DEF ViewHistoryTypeOK, Bounded
  <2>9. LastPositionKept' /\ IsFiniteSet(Seen')
    BY <1>0, <2>7 DEF LastPositionKept, Seen
  <2>10. ASSUME ~clashed PROVE CopyFits(t)'
    <3>1. \A j \in 1 .. Len(database) :
             database[j].position = last[database[j].fingerprint]
      BY <1>0, <2>10 DEF LastPositionKept
    <3>2. \A i \in 1 .. Len(db) : i # k => db[i].position = last[db[i].fingerprint]
      <4>1. ASSUME NEW i \in 1 .. Len(db), i # k PROVE db[i].fingerprint # f
        BY <2>4, <2>6, <4>1 DEF Bounded, Distinct
      <4>. QED BY <2>3, <2>4, <3>1, <4>1
    <3>3. ASSUME Cardinality(Seen) < Memory PROVE FingerprintsOf(db) = Seen \union {f}
      <4>1. Seen = FingerprintsOf(database)
        BY <1>0, <2>10, <3>3 DEF LastPositionKept, Seen
      <4>2. Len(database) < Memory
        BY <1>0, <3>3, <4>1, DistinctCardinality
      <4>. QED BY <2>3, <2>4, <4>1, <4>2
    <3>4. Seen' = Seen /\ copy'[t] = db /\ current'[t] = k /\ last' = last
      BY <1>0, <2>7 DEF Seen
    <3>. QED BY <2>6, <3>2, <3>3, <3>4 DEF CopyFits
  <2>11. ASSUME ~clashed, NEW u \in Tabs, u # t, u \notin stale', current'[u] # 0
         PROVE  CopyFits(u)'
    <3>1. CopyFits(u)
      BY <1>0, <2>7, <2>11 DEF ViewHistoryInv
    <3>2. Seen' = Seen /\ copy'[u] = copy[u] /\ current'[u] = current[u] /\ last' = last
      BY <1>0, <2>7, <2>11 DEF Seen
    <3>. QED BY <3>1, <3>2 DEF CopyFits
  <2>. QED BY <1>0, <2>4, <2>7, <2>8, <2>9, <2>10, <2>11 DEF ViewHistoryInv
<1>2. ASSUME NEW t \in Tabs, SetMultiple(t) PROVE ViewHistoryInv'
  <2>. DEFINE k == current[t]
              f == copy[t][k].fingerprint
  <2>1. PICK db : db = [copy[t] EXCEPT ![k].position = views']
    OBVIOUS
  <2>2. /\ k \in 1 .. Len(copy[t]) /\ views' \in 0 .. MaxViews /\ views' # 0
        /\ f \in Fingerprints
    <3>1. k \in 1 .. Len(copy[t])
      BY <1>0, <1>2 DEF SetMultiple
    <3>2. copy[t][k] \in Entry
      BY <1>0, <3>1
    <3>. QED BY <1>0, <1>2, <3>1, <3>2 DEF SetMultiple, Looks, Entry
  <2>3. /\ Bounded(db) /\ Len(db) = Len(copy[t])
        /\ FingerprintsOf(db) = FingerprintsOf(copy[t])
        /\ \A i \in 1 .. Len(copy[t]) :
              /\ db[i].fingerprint = copy[t][i].fingerprint
              /\ db[i].position = IF i = k THEN views' ELSE copy[t][i].position
    <3>1. PICK c : c = copy[t]
      OBVIOUS
    <3>2. PICK e : e = [c[k] EXCEPT !.position = views']
      OBVIOUS
    <3>3. Bounded(c) /\ k \in 1 .. Len(c) /\ c[k] \in Entry
      BY <1>0, <2>2, <3>1 DEF Bounded
    <3>4. /\ e \in Entry /\ e.fingerprint = c[k].fingerprint /\ e.position = views'
          /\ db = [c EXCEPT ![k] = e]
      BY <2>1, <2>2, <3>1, <3>2, <3>3 DEF Entry
    <3>. HIDE DEF k
    <3>5. /\ Bounded(db) /\ Len(db) = Len(c)
          /\ FingerprintsOf(db) = FingerprintsOf(c)
          /\ \A i \in 1 .. Len(c) :
                /\ db[i].fingerprint = c[i].fingerprint
                /\ db[i].position = IF i = k THEN e.position ELSE c[i].position
      <4>. DEFINE d == [c EXCEPT ![k] = e]
      <4>1. /\ Bounded(d) /\ Len(d) = Len(c)
            /\ FingerprintsOf(d) = FingerprintsOf(c)
            /\ \A i \in 1 .. Len(c) :
                /\ d[i].fingerprint = c[i].fingerprint
                /\ d[i].position = IF i = k THEN e.position ELSE c[i].position
        BY <3>3, <3>4, BoundedMoved
      <4>. QED BY <3>4, <4>1
    <3>. QED BY <3>1, <3>4, <3>5
  <2>4. /\ copy' = [copy EXCEPT ![t] = db] /\ database' = db
        /\ last' = [last EXCEPT ![f] = views']
        /\ stale' = {u \in Tabs \ {t} : current[u] # 0}
        /\ clashed' = (clashed \/ t \in stale)
        /\ current' = current
    BY <2>1, <2>2, <2>3, <1>2 DEF SetMultiple
  <2>5. ViewHistoryTypeOK'
    <3>1. clashed' \in BOOLEAN
      BY <2>4
    <3>. QED BY <1>0, <2>2, <2>3, <2>4, <3>1 DEF ViewHistoryTypeOK, Bounded
  <2>6. /\ Seen' = Seen \union {f} /\ IsFiniteSet(Seen')
        /\ Cardinality(Seen') \in Nat /\ Cardinality(Seen) \in Nat
        /\ Cardinality(Seen) <= Cardinality(Seen')
    <3>1. Seen' = Seen \union {f}
      BY <1>0, <2>2, <2>4 DEF Seen, NoPosition
    <3>2. /\ IsFiniteSet(Seen \union {f})
          /\ Cardinality(Seen \union {f}) = IF f \in Seen THEN Cardinality(Seen)
                                            ELSE Cardinality(Seen) + 1
      BY <1>0, FS_AddElement
    <3>3. Cardinality(Seen) \in Nat
      BY <1>0, FS_CardinalityType
    <3>. QED BY <3>1, <3>2, <3>3
  <2>7. ASSUME ~clashed' PROVE CopyFits(t)
    BY <1>0, <1>2, <2>4, <2>7 DEF ViewHistoryInv, SetMultiple
  <2>8. ASSUME ~clashed', NEW i \in 1 .. Len(db)
        PROVE  db[i].position = last'[db[i].fingerprint]
    <3>1. CASE i = k
      BY <1>0, <2>2, <2>3, <2>4, <3>1
    <3>2. CASE i # k
      <4>1. db[i].fingerprint # f /\ db[i].position = last[db[i].fingerprint]
        <5>1. copy[t][i].position = last[copy[t][i].fingerprint]
          BY <2>3, <2>7, <2>8, <3>2 DEF CopyFits
        <5>2. copy[t][i].fingerprint # f
          BY <1>0, <2>2, <2>3, <3>2 DEF Bounded, Distinct
        <5>. QED BY <2>3, <3>2, <5>1, <5>2
      <4>2. db[i].fingerprint \in Fingerprints
        <5>1. db[i] \in Entry
          BY <2>3 DEF Bounded
        <5>. QED BY <5>1 DEF Entry
      <4>. QED BY <1>0, <2>4, <4>1, <4>2
    <3>. QED BY <3>1, <3>2
  <2>9. ASSUME ~clashed', Cardinality(Seen') < Memory PROVE FingerprintsOf(db) = Seen'
    <3>1. Cardinality(Seen) < Memory
      BY <1>0, <2>6, <2>9
    <3>. QED BY <2>3, <2>6, <2>7, <2>9, <3>1 DEF CopyFits
  <2>10. LastPositionKept'
    <3>1. DOMAIN db = 1 .. Len(db)
      BY <2>3 DEF Bounded
    <3>2. clashed' => LastPositionKept'
      BY DEF LastPositionKept
    <3>3. ASSUME ~clashed' PROVE LastPositionKept'
      <4>1. \A i \in DOMAIN database' :
               database'[i].position = last'[database'[i].fingerprint]
        BY <2>4, <2>8, <3>1, <3>3
      <4>2. Cardinality(Seen') < Memory => Seen' = FingerprintsOf(database')
        BY <2>4, <2>9, <3>3
      <4>. QED BY <4>1, <4>2 DEF LastPositionKept, Seen, FingerprintsOf
    <3>. QED BY <3>2, <3>3
  <2>11. ASSUME ~clashed' PROVE CopyFits(t)'
    <3>1. copy'[t] = db /\ current'[t] = k
      BY <1>0, <2>4
    <3>2. f \in Seen'
      BY <2>6
    <3>3. db[k].fingerprint = f
      BY <2>2, <2>3
    <3>4. Cardinality(Seen') < Memory => FingerprintsOf(db) = Seen' \union {f}
      BY <2>9, <2>11, <3>2
    <3>. QED BY <2>8, <2>11, <3>1, <3>3, <3>4 DEF CopyFits
  <2>. QED BY <1>0, <2>3, <2>4, <2>5, <2>6, <2>10, <2>11 DEF ViewHistoryInv
<1>3. CASE UNCHANGED viewHistoryVars
  <2>1. UNCHANGED <<database, copy, current, stale, last, clashed, views>>
    BY <1>3 DEF viewHistoryVars
  <2>2. ViewHistoryTypeOK'
    BY <1>0, <2>1 DEF ViewHistoryTypeOK
  <2>3. Seen' = Seen /\ LastPositionKept'
    BY <1>0, <2>1 DEF Seen, LastPositionKept, FingerprintsOf
  <2>4. \A t \in Tabs : CopyFits(t) => CopyFits(t)'
    BY <2>1, <2>3 DEF CopyFits, FingerprintsOf
  <2>. QED BY <1>0, <2>1, <2>2, <2>3, <2>4 DEF ViewHistoryInv
<1>. QED BY <1>1, <1>2, <1>3 DEF ViewHistoryNext

-----------------------------------------------------------------------------
(* Opening documents. *)

LEMMA OneView ==
    ASSUME NEW k, PageCount[file[k]] \in Nat
    PROVE  ViewCount(<<k>>) = PageCount[file[k]]
<1>. DEFINE D == {1}
            n == PageCount[file[k]]
            Step(g, s) == g[s \ {Max(s)}] + PageCount[file[<<k>>[Max(s)]]]
            G(g) == g = [s \in SUBSET D |-> IF s = {} THEN 0 ELSE Step(g, s)]
            zero == [s \in SUBSET D |-> IF s = {} THEN 0 ELSE n]
<1>1. ViewCount(<<k>>) = (CHOOSE g : G(g))[D]
  <2>1. DOMAIN <<k>> = D
    OBVIOUS
  <2>2. ViewCount(<<k>>) =
          (CHOOSE g : g = [s \in SUBSET DOMAIN <<k>> |->
                             IF s = {} THEN 0 ELSE Step(g, s)])[DOMAIN <<k>>]
    BY DEF ViewCount, FoldLeft, MapThenFoldSet
  <2>. QED BY <2>1, <2>2
<1>2. Max(D) = 1 /\ <<k>>[1] = k /\ D \ {1} = {}
  BY DEF Max
<1>3. \A s \in SUBSET D : s = {} \/ s = D
  OBVIOUS
<1>4. Step(zero, D) = n
  <2>1. zero[{}] = 0
    OBVIOUS
  <2>2. D \ {Max(D)} = {} /\ <<k>>[Max(D)] = k
    BY <1>2
  <2>. HIDE DEF zero
  <2>. QED BY <2>1, <2>2
<1>5. G(zero)
  <2>1. PICK f : f = zero
    OBVIOUS
  <2>2. \A s \in SUBSET D : (IF s = {} THEN 0 ELSE n) = (IF s = {} THEN 0 ELSE Step(f, s))
    <3>. HIDE DEF Step, zero
    <3>. QED BY <1>3, <1>4, <2>1
  <2>3. G(f)
    <3>. HIDE DEF Step, n
    <3>. QED BY <2>1, <2>2
  <2>. HIDE DEF zero, G
  <2>. QED BY <2>1, <2>3
<1>6. PICK g : g = CHOOSE f : G(f)
  OBVIOUS
<1>7. G(g)
  <2>. HIDE DEF G, zero
  <2>. QED BY <1>5, <1>6, Zenon
<1>8. g[{}] = 0 /\ g[D] = Step(g, D)
  <2>. HIDE DEF Step
  <2>1. {} \in SUBSET D /\ D \in SUBSET D /\ D # {}
    OBVIOUS
  <2>. HIDE DEF D
  <2>. QED BY <1>7, <2>1
<1>9. Step(g, D) = n
  <2>1. D \ {Max(D)} = {} /\ <<k>>[Max(D)] = k
    BY <1>2
  <2>. HIDE DEF D, G
  <2>. QED BY <1>8, <2>1
<1>10. ViewCount(<<k>>) = g[D]
  BY <1>1, <1>6
<1>. QED BY <1>8, <1>9, <1>10

LEMMA NoView == ViewCount(<<>>) = 0
<1>. DEFINE D == {}
            Step(g, s) == g[s \ {Max(s)}] + PageCount[file[<<>>[Max(s)]]]
            G(g) == g = [s \in SUBSET D |-> IF s = {} THEN 0 ELSE Step(g, s)]
            zero == [s \in SUBSET D |-> 0]
<1>1. ViewCount(<<>>) = (CHOOSE g : G(g))[D]
  <2>1. DOMAIN <<>> = D
    OBVIOUS
  <2>2. ViewCount(<<>>) =
          (CHOOSE g : g = [s \in SUBSET DOMAIN <<>> |->
                             IF s = {} THEN 0 ELSE Step(g, s)])[DOMAIN <<>>]
    BY DEF ViewCount, FoldLeft, MapThenFoldSet
  <2>. QED BY <2>1, <2>2
<1>2. \A s \in SUBSET D : s = {}
  OBVIOUS
<1>3. G(zero)
  <2>. HIDE DEF Step
  <2>. QED BY <1>2
<1>4. PICK g : g = CHOOSE f : G(f)
  OBVIOUS
<1>5. G(g)
  <2>. HIDE DEF G, zero
  <2>. QED BY <1>3, <1>4, Zenon
<1>6. g[D] = 0
  <2>1. D \in SUBSET D /\ D = {}
    OBVIOUS
  <2>. HIDE DEF Step, D
  <2>. QED BY <1>5, <2>1
<1>. QED BY <1>1, <1>4, <1>6

\* Calls of open that pdf.js has still to answer, or the user with a password.
Pending == {"loading", "unlocked", "locked"}

\* As long as no file is opened before the earlier one is settled there is one
\* document at a time: pending, or open with its first page to come, or shown.
Settled ==
    /\ \A k \in Opens : phase[k] = "ready" => k = open
    /\ \A k \in Opens : phase[k] \in Pending => k = opens /\ open = 0
    /\ \A k \in Opens : phase[k] = "locked" => overlay = "password" /\ prompt = k
    /\ open = 0 => pages = <<>>
    /\ open # 0 => store = open
    /\ firstAsked # {} => firstAsked = {open} /\ open # 0 /\ pages = <<>>
    /\ pages \in {<<>>, <<open>>}
    /\ pages = <<>> => ~scaled
    /\ pages # <<>> => /\ scaled \/ bookmark # NoHash
                       /\ scaled => stored[file[open]] = page

LoadInv ==
    /\ LoadTypeOK
    /\ \A k \in Opens : k > opens => phase[k] = "none"
    /\ \A k \in 1 .. opens : file[k] \in Files
    /\ pages # <<>> \/ firstAsked # {} => store # 0
    /\ thumbs = pages
    /\ overlay = "password" => prompt # 0 /\ phase[prompt] = "locked"
    /\ ~hasty => Settled

LEMMA LoadInvHolds ==
    LoadInv => LoadTypeOK /\ PagesAreOpen /\ PositionIsKept /\ PromptAsksWaiting
<1>. SUFFICES ASSUME LoadInv
              PROVE  LoadTypeOK /\ PagesAreOpen /\ PositionIsKept /\ PromptAsksWaiting
  OBVIOUS
<1>1. LoadTypeOK
  BY DEF LoadInv
<1>2. PagesAreOpen
  BY DEF LoadInv, Settled, PagesAreOpen
<1>3. PositionIsKept
  BY DEF LoadInv, Settled, PositionIsKept
<1>4. PromptAsksWaiting
  BY DEF LoadInv, Settled, PromptAsksWaiting
<1>. QED BY <1>1, <1>2, <1>3, <1>4

LEMMA LoadInvInit == LoadInit => LoadInv
<1>. SUFFICES ASSUME LoadInit PROVE LoadInv
  OBVIOUS
<1>1. PageCount \in [Files -> Nat \ {0}] /\ MaxOpens \in Nat
  BY PageCountAssumption, MaxOpensAssumption
<1>2. {scaled, viewSet, hasty} \subseteq BOOLEAN
  BY Zenon DEF LoadInit
<1>3. {pages, thumbs} \subseteq Seq(1 .. opens)
  BY EmptySeq DEF LoadInit
<1>4. LoadTypeOK
  BY <1>1, <1>2, <1>3 DEF LoadInit, LoadTypeOK, Opens
<1>5. Settled
  BY DEF LoadInit, Settled, Pending
<1>6. 1 .. opens = {}
  BY DEF LoadInit
<1>7. /\ \A k \in Opens : phase[k] = "none"
      /\ pages = <<>> /\ thumbs = pages /\ firstAsked = {} /\ overlay # "password"
  BY DEF LoadInit, NoOverlay
<1>. QED BY <1>4, <1>5, <1>6, <1>7 DEF LoadInv

LEMMA LoadStep == LoadInv /\ [LoadNext]_loadVars => LoadInv'
<1>. SUFFICES ASSUME LoadInv, [LoadNext]_loadVars PROVE LoadInv'
  OBVIOUS
<1>0. /\ file \in [Opens -> Files \union {NoFile}]
      /\ phase \in [Opens -> {"none", "loading", "locked", "unlocked", "cancelled",
                              "failed", "ready", "closed"}]
      /\ opens \in Nat /\ opens <= MaxOpens /\ MaxOpens \in Nat
      /\ open \in 0 .. opens /\ store \in 0 .. opens /\ prompt \in 0 .. opens
      /\ firstAsked \subseteq 1 .. opens
      /\ pages \in Seq(1 .. opens) /\ thumbs \in Seq(1 .. opens)
      /\ stored \in [Files -> Nat] /\ page \in Nat
      /\ hasty \/ \A f \in Files : stored[f] <= PageCount[f]
      /\ scaled \in BOOLEAN /\ viewSet \in BOOLEAN /\ hasty \in BOOLEAN
      /\ bookmark \in Hashes \union {NoHash}
      /\ overlay \in {NoOverlay, "password", "properties"}
      /\ \A k \in Opens : k > opens => phase[k] = "none"
      /\ \A k \in 1 .. opens : file[k] \in Files /\ k \in Opens
      /\ thumbs = pages
      /\ pages # <<>> \/ firstAsked # {} => store # 0
      /\ overlay = "password" => prompt # 0 /\ phase[prompt] = "locked"
      /\ ~hasty => Settled
  BY MaxOpensAssumption DEF LoadInv, LoadTypeOK, Opens
<1>00. /\ PageCount \in [Files -> Nat \ {0}]
       /\ Hashes \subseteq [page : Nat \ {0}, zoom : BOOLEAN]
       /\ NoHash \notin Hashes /\ NoHash.page = 0
  BY PageCountAssumption, HashesAssumption DEF NoHash
<1>1. ASSUME NEW f \in Files, Open(f) PROVE LoadInv'
  <2>. USE <1>1 DEF Open
  <2>1. /\ opens' = opens + 1 /\ opens' \in Opens
        /\ firstAsked' = firstAsked /\ store' = store /\ prompt' = prompt
        /\ stored' = stored /\ bookmark' = bookmark /\ viewSet' = viewSet
        /\ overlay' = overlay /\ overlay = NoOverlay
    BY <1>0 DEF Opens
  <2>2. /\ open' = 0
        /\ open = 0 => pages' = pages /\ thumbs' = thumbs /\ page' = page /\ scaled' = scaled
        /\ open # 0 => pages' = <<>> /\ thumbs' = <<>> /\ page' = 1 /\ scaled' = FALSE
    BY DEF Close, ResetViews
  <2>3. /\ DOMAIN phase' = Opens
        /\ \A k \in Opens : phase'[k] = IF k = opens' THEN "loading"
                                        ELSE IF k = open THEN "closed" ELSE phase[k]
        /\ phase' \in [Opens -> {"none", "loading", "locked", "unlocked", "cancelled",
                                 "failed", "ready", "closed"}]
    BY <1>0
  <2>4. /\ file' \in [Opens -> Files \union {NoFile}]
        /\ \A k \in 1 .. opens' : file'[k] \in Files
    BY <1>0, <2>1 DEF Opens
  <2>5. hasty' \in BOOLEAN
    BY Zenon
  <2>6. ~hasty' => /\ ~hasty /\ firstAsked = {}
                   /\ \A k \in Opens : phase[k] \notin {"loading", "unlocked"}
    OBVIOUS
  <2>7. pages' \in Seq(1 .. opens') /\ thumbs' \in Seq(1 .. opens')
    <3>1. 1 .. opens \subseteq 1 .. opens'
      BY <1>0, <2>1
    <3>2. pages \in Seq(1 .. opens') /\ thumbs \in Seq(1 .. opens')
      BY <1>0, <3>1, SeqMonotonic
    <3>3. <<>> \in Seq(1 .. opens')
      OBVIOUS
    <3>. QED BY <2>2, <3>2, <3>3
  <2>8. scaled' \in BOOLEAN
    BY <1>0, <2>2, Zenon
  <2>9. LoadTypeOK'
    <3>1. /\ opens' \in 0 .. MaxOpens /\ open' \in 0 .. opens'
          /\ store' \in 0 .. opens' /\ prompt' \in 0 .. opens'
          /\ firstAsked' \subseteq 1 .. opens' /\ page' \in Nat
      BY <1>0, <2>1, <2>2 DEF Opens
    <3>2. hasty' \/ \A g \in Files : stored'[g] <= PageCount[g]
      BY <1>0, <2>1, <2>6
    <3>. HIDE <1>1 DEF Open
    <3>. QED BY <1>0, <2>1, <2>3, <2>4, <2>5, <2>7, <2>8, <3>1, <3>2 DEF LoadTypeOK
  <2>10. ~hasty' => Settled'
    <3>. SUFFICES ASSUME ~hasty' PROVE Settled'
      OBVIOUS
    <3>1. Settled /\ overlay # "password"
      BY <1>0, <2>1, <2>6 DEF NoOverlay
    <3>2. \A k \in Opens : phase[k] \notin Pending
      BY <2>6, <3>1 DEF Settled, Pending
    <3>3. pages' = <<>> /\ ~scaled' /\ firstAsked' = {}
      BY <2>1, <2>2, <2>6, <3>1 DEF Settled
    <3>4. \A k \in Opens : phase'[k] # "ready" /\ phase'[k] # "locked"
                           /\ (phase'[k] \in Pending => k = opens')
      BY <2>3, <3>1, <3>2 DEF Settled, Pending
    <3>. HIDE <1>1 DEF Open
    <3>. QED BY <2>1, <2>2, <3>3, <3>4 DEF Settled, Pending
  <2>11. \A k \in Opens : k > opens' => phase'[k] = "none"
    BY <1>0, <2>1, <2>3 DEF Opens
  <2>12. /\ pages' # <<>> \/ firstAsked' # {} => store' # 0
         /\ thumbs' = pages' /\ overlay' # "password"
    BY <1>0, <2>1, <2>2 DEF NoOverlay
  <2>. HIDE <1>1 DEF Open
  <2>. QED BY <2>4, <2>9, <2>10, <2>11, <2>12 DEF LoadInv
<1>2. ASSUME NEW k \in Opens, Loaded(k) PROVE LoadInv'
  <2>. USE <1>2 DEF Loaded, Load
  <2>1. /\ open' = k /\ store' = k /\ firstAsked' = firstAsked \union {k}
        /\ viewSet' = FALSE
        /\ UNCHANGED <<file, opens, stored, bookmark, overlay, prompt, hasty>>
    OBVIOUS
  <2>2. k \in 1 .. opens /\ k # 0
    BY <1>0 DEF Opens
  <2>3. /\ open = 0 => pages' = pages /\ thumbs' = thumbs /\ page' = page /\ scaled' = scaled
        /\ open # 0 => pages' = <<>> /\ thumbs' = <<>> /\ page' = 1 /\ scaled' = FALSE
    BY DEF ResetViews
  <2>4. /\ phase' \in [Opens -> {"none", "loading", "locked", "unlocked", "cancelled",
                                 "failed", "ready", "closed"}]
        /\ \A i \in Opens : phase'[i] = IF i = k THEN "ready" ELSE phase[i]
        /\ phase[k] \in {"loading", "unlocked"}
    BY <1>0
  <2>5. pages' \in Seq(1 .. opens') /\ thumbs' \in Seq(1 .. opens') /\ thumbs' = pages'
    <3>1. <<>> \in Seq(1 .. opens')
      OBVIOUS
    <3>. QED BY <1>0, <2>1, <2>3, <3>1
  <2>6. scaled' \in BOOLEAN /\ viewSet' \in BOOLEAN
    BY <1>0, <2>3, Zenon
  <2>7. LoadTypeOK'
    <3>1. page' \in Nat /\ firstAsked' \subseteq 1 .. opens'
      BY <1>0, <2>1, <2>2, <2>3
    <3>2. open' \in 0 .. opens' /\ store' \in 0 .. opens'
      BY <1>0, <2>1, <2>2
    <3>. HIDE <1>2 DEF Loaded
    <3>. QED BY <1>0, <2>1, <2>4, <2>5, <2>6, <3>1, <3>2 DEF LoadTypeOK
  <2>8. ~hasty => Settled'
    <3>. SUFFICES ASSUME ~hasty PROVE Settled'
      OBVIOUS
    <3>1. Settled
      BY <1>0
    <3>2. k = opens /\ open = 0 /\ firstAsked = {} /\ pages = <<>> /\ ~scaled
      BY <2>4, <3>1 DEF Settled, Pending
    <3>3. \A i \in Opens : i # k => phase'[i] # "ready" /\ phase'[i] \notin Pending
      BY <2>4, <3>1, <3>2, <2>2 DEF Settled, Pending, Opens
    <3>4. pages' = <<>> /\ ~scaled' /\ firstAsked' = {k} /\ phase'[k] = "ready"
      BY <2>1, <2>3, <2>4, <3>2
    <3>. HIDE <1>2 DEF Loaded
    <3>. QED BY <2>1, <2>2, <3>3, <3>4 DEF Settled, Pending
  <2>9. /\ \A i \in Opens : i > opens' => phase'[i] = "none"
        /\ overlay' = "password" => prompt' # 0 /\ phase'[prompt'] = "locked"
    BY <1>0, <2>1, <2>2, <2>4 DEF Opens
  <2>. HIDE <1>2 DEF Loaded
  <2>. QED BY <1>0, <2>1, <2>2, <2>5, <2>7, <2>8, <2>9 DEF LoadInv
<1>3. ASSUME NEW k \in Opens, Fails(k) PROVE LoadInv'
  <2>. USE <1>3 DEF Fails, viewVars, overlayVars
  <2>1. LoadTypeOK'
    BY <1>0 DEF LoadTypeOK
  <2>2. \A i \in Opens : phase'[i] = IF i = k THEN "failed" ELSE phase[i]
    BY <1>0
  <2>3. ~hasty => Settled'
    BY <1>0, <2>2 DEF Settled, Pending
  <2>. QED BY <1>0, <2>1, <2>2, <2>3 DEF LoadInv, Opens
<1>4. ASSUME NEW k \in Opens, FirstPage(k) PROVE LoadInv'
  <2>. DEFINE count == ViewCount(pages')
              wanted == IF bookmark # NoHash THEN bookmark.page
                        ELSE IF stored[file[k]] # 0 THEN stored[file[k]] ELSE 1
              exists == wanted <= count
              throws == ~exists /\ (bookmark = NoHash \/ bookmark.zoom)
  <2>1. /\ k \in firstAsked /\ firstAsked' = firstAsked \ {k}
        /\ pages' = Append(pages, k) /\ thumbs' = Append(thumbs, k)
        /\ viewSet' = TRUE /\ page' = IF exists THEN wanted ELSE 1
        /\ throws => UNCHANGED <<scaled, bookmark, stored>>
        /\ ~throws => /\ scaled' = TRUE /\ bookmark' = NoHash
                      /\ stored' = [stored EXCEPT ![file[store]] = page']
        /\ UNCHANGED <<file, phase, opens, open, store, hasty, overlay, prompt>>
    BY <1>4 DEF FirstPage, SetInitialView, Stores, overlayVars
  <2>2. k \in 1 .. opens /\ file[k] \in Files
    BY <1>0, <2>1
  <2>3. store \in 1 .. opens /\ file[store] \in Files
    BY <1>0, <2>1
  <2>4. wanted \in Nat \ {0}
    BY <1>0, <1>00, <2>2
  <2>. HIDE DEF wanted
  <2>5. page' \in Nat \ {0}
    BY <2>1, <2>4
  <2>6. pages' \in Seq(1 .. opens) /\ thumbs' \in Seq(1 .. opens)
        /\ pages' # <<>> /\ thumbs' = pages'
    <3>1. Append(pages, k) \in Seq(1 .. opens) /\ Append(thumbs, k) \in Seq(1 .. opens)
      BY <1>0, <2>2
    <3>2. Append(pages, k) # <<>>
      <4>1. pages \in Seq(1 .. opens) /\ k \in 1 .. opens
        BY <1>0, <2>2
      <4>2. Append(pages, k) # <<>>
        BY <4>1, AppendProperties
      <4>. QED BY <4>2
    <3>. QED BY <1>0, <2>1, <3>1, <3>2
  <2>7. scaled' \in BOOLEAN /\ viewSet' \in BOOLEAN
    BY <1>0, <2>1, Zenon
  <2>8. bookmark' \in Hashes \union {NoHash}
    BY <1>0, <2>1
  <2>9. /\ stored' \in [Files -> Nat]
        /\ ~throws => \A f \in Files : stored'[f] = IF f = file[store] THEN page' ELSE stored[f]
    <3>. HIDE DEF throws
    <3>1. page' \in Nat
      BY <2>5
    <3>. QED BY <1>0, <2>1, <2>3, <3>1
  <2>10. ~hasty => /\ store = open /\ k = open /\ open # 0 /\ firstAsked = {k}
                   /\ pages' = <<k>> /\ count = PageCount[file[k]] /\ Settled
    <3>. SUFFICES ASSUME ~hasty
                  PROVE  /\ store = open /\ k = open /\ open # 0 /\ firstAsked = {k}
                         /\ pages' = <<k>> /\ count = PageCount[file[k]] /\ Settled
      OBVIOUS
    <3>1. Settled
      BY <1>0
    <3>2. store = open /\ k = open /\ open # 0 /\ pages = <<>> /\ firstAsked = {k}
      BY <2>1, <3>1 DEF Settled
    <3>3. pages' = <<k>>
      BY <2>1, <3>2
    <3>4. PageCount[file[k]] \in Nat
      BY <1>00, <2>2
    <3>5. ViewCount(<<k>>) = PageCount[file[k]]
      BY <3>4, OneView
    <3>. QED BY <3>1, <3>2, <3>3, <3>5
  <2>11. LoadTypeOK'
    <3>1. hasty' \/ \A f \in Files : stored'[f] <= PageCount'[f]
      <4>. SUFFICES ASSUME ~hasty, NEW f \in Files PROVE stored'[f] <= PageCount[f]
        BY <2>1
      <4>1. CASE throws
        BY <1>0, <2>1, <4>1
      <4>2. CASE ~throws
        <5>1. page' <= PageCount[file[k]]
          BY <1>00, <2>1, <2>2, <2>4, <2>10
        <5>. QED BY <1>0, <2>3, <2>9, <2>10, <4>2, <5>1
      <4>. QED BY <4>1, <4>2
    <3>. HIDE DEF throws, exists, count
    <3>. QED BY <1>0, <2>1, <2>5, <2>6, <2>7, <2>8, <2>9, <3>1 DEF LoadTypeOK
  <2>12. ~hasty => Settled'
    <3>. SUFFICES ASSUME ~hasty PROVE Settled'
      OBVIOUS
    <3>1. scaled' \/ bookmark' # NoHash
      <4>. SUFFICES ASSUME throws PROVE bookmark # NoHash
        BY <2>1
      <4>. QED BY <1>0, <1>00, <2>2, <2>10 DEF wanted
    <3>2. scaled' => stored'[file[open]] = page'
      <4>1. CASE throws
        BY <2>1, <2>10, <4>1 DEF Settled
      <4>2. CASE ~throws
        BY <2>3, <2>9, <2>10, <4>2
      <4>. QED BY <4>1, <4>2
    <3>. HIDE DEF throws, exists, count
    <3>. QED BY <2>1, <2>10, <3>1, <3>2 DEF Settled
  <2>. HIDE DEF throws, exists, count
  <2>. QED BY <1>0, <2>1, <2>3, <2>6, <2>11, <2>12 DEF LoadInv
<1>5. ASSUME NEW k \in Opens, PasswordNeeded(k) PROVE LoadInv'
  <2>. USE <1>5 DEF PasswordNeeded, NeedsPassword, OpenOverlay, viewVars
  <2>0. k \in 1 .. opens /\ overlay' = "password"
    BY <1>0 DEF Opens
  <2>1. LoadTypeOK'
    BY <1>0, <2>0 DEF LoadTypeOK
  <2>2. \A i \in Opens : phase'[i] = IF i = k THEN "locked" ELSE phase[i]
    BY <1>0
  <2>3. ~hasty => Settled'
    BY <1>0, <2>0, <2>2 DEF Settled, Pending
  <2>. QED BY <1>0, <2>0, <2>1, <2>2, <2>3 DEF LoadInv, Opens
<1>6. ASSUME NEW k \in Opens, Dropped(k) PROVE LoadInv'
  <2>. USE <1>6 DEF Dropped, viewVars, overlayVars
  <2>1. LoadTypeOK'
    BY <1>0 DEF LoadTypeOK
  <2>2. ~hasty => Settled'
    BY <1>0 DEF Settled, Pending
  <2>. QED BY <1>0, <2>1, <2>2 DEF LoadInv
<1>7. ASSUME NEW b \in Hashes, HashChange(b) PROVE LoadInv'
  <2>1. UNCHANGED <<file, phase, opens, open, firstAsked, pages, thumbs, store, hasty,
                    viewSet, overlay, prompt>>
    BY <1>7 DEF HashChange, docVars, overlayVars
  <2>2. b.page \in Nat \ {0} /\ b.zoom \in BOOLEAN /\ b # NoHash
    BY <1>00
  <2>3. CASE UNCHANGED <<page, scaled, stored>> /\ bookmark' \in {b, bookmark}
    <3>1. LoadTypeOK'
      BY <1>0, <2>1, <2>3 DEF LoadTypeOK
    <3>2. ~hasty => Settled'
      BY <1>0, <2>1, <2>2, <2>3 DEF Settled
    <3>. QED BY <1>0, <2>1, <3>1, <3>2 DEF LoadInv
  <2>4. CASE /\ b.page <= ViewCount(pages) /\ page' = b.page
             /\ scaled' = (scaled \/ b.zoom)
             /\ stored' = [stored EXCEPT ![file[store]] = b.page]
             /\ bookmark' = bookmark
    <3>1. pages # <<>>
      BY <2>2, <2>4, NoView
    <3>2. file[store] \in Files
      <4>1. store \in 1 .. opens
        BY <1>0, <3>1
      <4>. QED BY <1>0, <4>1
    <3>3. stored' \in [Files -> Nat]
          /\ \A f \in Files : stored'[f] = IF f = file[store] THEN page' ELSE stored[f]
      BY <1>0, <2>2, <2>4, <3>2
    <3>4. ~hasty => /\ file[store] = file[open]
                    /\ page' <= PageCount[file[open]]
      <4>. SUFFICES ASSUME ~hasty
                    PROVE  file[store] = file[open] /\ page' <= PageCount[file[open]]
        OBVIOUS
      <4>1. open \in 1 .. opens /\ store = open /\ pages = <<open>>
        BY <1>0, <3>1 DEF Settled
      <4>2. ViewCount(pages) = PageCount[file[open]]
        BY <1>0, <1>00, <4>1, OneView
      <4>. QED BY <2>4, <4>1, <4>2
    <3>5. scaled' \in BOOLEAN /\ (scaled => scaled')
      BY <2>4, Zenon
    <3>6. LoadTypeOK'
      <4>1. hasty' \/ \A f \in Files : stored'[f] <= PageCount'[f]
        BY <1>0, <2>1, <3>2, <3>3, <3>4
      <4>2. page' \in Nat
        BY <2>2, <2>4
      <4>. HIDE <2>4
      <4>3. bookmark' = bookmark
        BY <2>4
      <4>. QED BY <1>0, <2>1, <3>3, <3>5, <4>1, <4>2, <4>3 DEF LoadTypeOK
    <3>7. ~hasty => Settled'
      <4>. SUFFICES ASSUME ~hasty PROVE Settled'
        OBVIOUS
      <4>1. Settled
        BY <1>0
      <4>2. stored'[file[open]] = page' /\ (scaled' \/ bookmark' # NoHash)
        BY <3>1, <3>2, <3>3, <3>4, <3>5, <2>4, <4>1 DEF Settled
      <4>. QED BY <2>1, <3>1, <4>1, <4>2 DEF Settled
    <3>. QED BY <1>0, <2>1, <3>6, <3>7 DEF LoadInv
  <2>. QED BY <1>7, <2>1, <2>3, <2>4 DEF HashChange, Stores
<1>8. CASE Scroll
  <2>. USE <1>8 DEF Scroll, Stores, docVars, overlayVars
  <2>1. /\ pages # <<>> /\ page' \in 1 .. ViewCount(pages)
        /\ stored' = [stored EXCEPT ![file[store]] = page']
        /\ UNCHANGED <<file, phase, opens, open, firstAsked, pages, thumbs, store, hasty,
                       scaled, viewSet, bookmark, overlay, prompt>>
    OBVIOUS
  <2>. HIDE <1>8 DEF Scroll, Stores
  <2>2. file[store] \in Files /\ page' \in Nat
    <3>1. store \in 1 .. opens
      BY <1>0, <2>1
    <3>. QED BY <1>0, <2>1, <3>1
  <2>3. stored' \in [Files -> Nat]
        /\ \A f \in Files : stored'[f] = IF f = file[store] THEN page' ELSE stored[f]
    BY <1>0, <2>1, <2>2
  <2>4. ~hasty => /\ file[store] = file[open]
                  /\ page' <= PageCount[file[open]]
    <3>. SUFFICES ASSUME ~hasty
                  PROVE  file[store] = file[open] /\ page' <= PageCount[file[open]]
      OBVIOUS
    <3>1. open \in 1 .. opens /\ store = open /\ pages = <<open>>
      BY <1>0, <2>1 DEF Settled
    <3>2. ViewCount(pages) = PageCount[file[open]] /\ PageCount[file[open]] \in Nat
      BY <1>0, <1>00, <3>1, OneView
    <3>. QED BY <2>1, <3>1, <3>2
  <2>5. LoadTypeOK'
    <3>1. hasty' \/ \A f \in Files : stored'[f] <= PageCount'[f]
      BY <1>0, <2>1, <2>2, <2>3, <2>4
    <3>. QED BY <1>0, <2>1, <2>2, <2>3, <3>1 DEF LoadTypeOK
  <2>6. ~hasty => Settled'
    BY <1>0, <2>1, <2>2, <2>3, <2>4 DEF Settled
  <2>. QED BY <1>0, <2>1, <2>5, <2>6 DEF LoadInv
<1>9. CASE VerifyPassword
  <2>. USE <1>9 DEF VerifyPassword, viewVars
  <2>1. PICK correct \in BOOLEAN :
           phase' = [phase EXCEPT ![prompt] = IF correct THEN "unlocked" ELSE "loading"]
    OBVIOUS
  <2>2. prompt \in Opens /\ phase[prompt] = "locked" /\ overlay' = NoOverlay
    BY <1>0 DEF Opens
  <2>3. \A i \in Opens : phase'[i] = IF i = prompt
                                     THEN IF correct THEN "unlocked" ELSE "loading"
                                     ELSE phase[i]
    BY <1>0, <2>1
  <2>4. LoadTypeOK'
    BY <1>0, <2>1 DEF LoadTypeOK
  <2>5. ~hasty => Settled'
    BY <1>0, <2>2, <2>3 DEF Settled, Pending
  <2>. QED BY <1>0, <2>2, <2>3, <2>4, <2>5 DEF LoadInv, NoOverlay
<1>10. CASE CloseOverlay
  <2>. USE <1>10 DEF CloseOverlay, viewVars
  <2>1. overlay = "password" => prompt \in Opens /\ phase[prompt] = "locked"
    BY <1>0 DEF Opens
  <2>2. \A i \in Opens : phase'[i] = IF overlay = "password" /\ i = prompt
                                     THEN "cancelled" ELSE phase[i]
    BY <1>0
  <2>3. LoadTypeOK'
    BY <1>0 DEF LoadTypeOK
  <2>4. ~hasty => Settled'
    BY <1>0, <2>1, <2>2 DEF Settled, Pending
  <2>. QED BY <1>0, <2>1, <2>2, <2>3, <2>4 DEF LoadInv, NoOverlay
<1>11. CASE OpenProperties
  <2>. USE <1>11 DEF OpenProperties, OpenOverlay, docVars, viewVars
  <2>1. LoadTypeOK'
    BY <1>0 DEF LoadTypeOK
  <2>2. overlay' = "password" <=> overlay = "password"
    BY DEF NoOverlay
  <2>3. ~hasty => Settled'
    BY <1>0, <2>2 DEF Settled, Pending
  <2>. QED BY <1>0, <2>1, <2>2, <2>3 DEF LoadInv
<1>12. CASE UNCHANGED loadVars
  <2>1. Settled => Settled'
    BY <1>12 DEF loadVars, Settled
  <2>. QED BY <1>12, <2>1 DEF loadVars, LoadInv, LoadTypeOK
<1>. QED BY <1>1, <1>2, <1>3, <1>4, <1>5, <1>6, <1>7, <1>8, <1>9, <1>10, <1>11, <1>12
     DEF LoadNext, LoadWork

-----------------------------------------------------------------------------
(* Session history. *)

\* What PDFHistory and the browser know of the session history.
StateEntry == [uid : Nat \union {-1}, target : Target \union {NoTarget}]
SessionState ==
    [entries : Seq(StateEntry), at : Nat, uid : Nat, currentUid : Nat,
     current : Target \union {NoTarget}, bookmark : Places \union {NoPlace},
     previous : Places \union {NoPlace}, renew : BOOLEAN]

\* An entry PDFHistory wrote has a number, and the current number was given.
Numbered(s) ==
    /\ s \in SessionState
    /\ s.at \in 1 .. Len(s.entries)
    /\ \A i \in 1 .. Len(s.entries) : s.entries[i].uid = -1 => s.entries[i].target = NoTarget
    /\ s.currentUid <= s.uid

\* The last entry has the last number, the others lower ones, in order.
Ordered(s) ==
    /\ \A i, j \in 1 .. Len(s.entries) : i < j => s.entries[i].uid < s.entries[j].uid
    /\ s.entries[Len(s.entries)].uid = s.uid - 1

\* The same of the entries up to the one shown, those that are kept when an
\* entry is pushed.
OrderedBehind(s) ==
    /\ \A i, j \in 1 .. s.at : i < j => s.entries[i].uid < s.entries[j].uid
    /\ s.entries[s.at].uid < s.uid
    /\ s.uid = 0 => s.at = Len(s.entries)

\* PDFHistory knows the entry the browser shows, unless it did not write it.
InStep(s) ==
    s.entries[s.at].target # NoTarget =>
        /\ s.current = s.entries[s.at].target
        /\ s.currentUid = s.entries[s.at].uid

\* Out of step it is only after _goTo has written the position left, and until
\* the browser has gone back to the entry meant.
HistInv ==
    /\ PDFHistoryTypeOK
    /\ place \in Places
    /\ Numbered(h)
    /\ InStep(h) \/ \E i \in DOMAIN going : going[i] = -1 /\ h.at >= 2
    /\ ~reloaded => Ordered(h)

LEMMA NumberedTypes ==
    ASSUME NEW s, Numbered(s)
    PROVE  /\ s \in SessionState /\ s.entries \in Seq(StateEntry)
           /\ Len(s.entries) \in Nat /\ s.at \in 1 .. Len(s.entries)
           /\ s.uid \in Nat /\ s.currentUid \in Nat
           /\ \A i \in 1 .. Len(s.entries) :
                 /\ s.entries[i] \in StateEntry
                 /\ s.entries[i].uid \in Nat \union {-1}
<1>1. /\ s \in SessionState /\ s.entries \in Seq(StateEntry)
      /\ s.at \in 1 .. Len(s.entries) /\ s.uid \in Nat /\ s.currentUid \in Nat
  BY DEF Numbered, SessionState
<1>2. \A i \in 1 .. Len(s.entries) : s.entries[i] \in StateEntry
  BY <1>1
<1>3. \A i \in 1 .. Len(s.entries) : s.entries[i].uid \in Nat \union {-1}
  BY <1>2 DEF StateEntry
<1>. QED BY <1>1, <1>2, <1>3

LEMMA OrderedIsBehind ==
    ASSUME NEW s, Numbered(s), Ordered(s)
    PROVE  OrderedBehind(s)
<1>1. /\ Len(s.entries) \in Nat /\ s.at \in 1 .. Len(s.entries) /\ s.uid \in Nat
      /\ \A i \in 1 .. Len(s.entries) : s.entries[i].uid \in Nat \union {-1}
  BY NumberedTypes
<1>2. PICK n \in Nat : n = Len(s.entries)
  BY <1>1
<1>3. PICK u : u = [i \in 1 .. n |-> s.entries[i].uid]
  OBVIOUS
<1>4. /\ \A i \in 1 .. n : u[i] = s.entries[i].uid /\ u[i] \in Int
      /\ s.at \in 1 .. n
  BY <1>1, <1>2, <1>3
<1>5. /\ \A i, j \in 1 .. n : i < j => u[i] < u[j]
      /\ u[n] = s.uid - 1
  <2>1. /\ \A i, j \in 1 .. n : i < j => s.entries[i].uid < s.entries[j].uid
        /\ s.entries[n].uid = s.uid - 1
    BY <1>2, Zenon DEF Ordered
  <2>2. \A i, j \in 1 .. n : i < j => u[i] < u[j]
    <3>. TAKE i, j \in 1 .. n
    <3>. HAVE i < j
    <3>1. s.entries[i].uid < s.entries[j].uid
      BY <2>1
    <3>2. u[i] = s.entries[i].uid /\ u[j] = s.entries[j].uid
      BY <1>4, Zenon
    <3>. QED BY <3>1, <3>2, Zenon
  <2>3. u[n] = s.entries[n].uid
    <3>1. n \in 1 .. n
      BY <1>2, <1>4
    <3>. QED BY <1>4, <3>1, Zenon
  <2>. QED BY <2>1, <2>2, <2>3, Zenon
<1>6. u[s.at] < s.uid
  <2>1. CASE s.at = n
    BY <1>1, <1>4, <1>5, <2>1
  <2>2. CASE s.at # n
    <3>1. s.at < n /\ n \in 1 .. n
      BY <1>2, <1>4, <2>2
    <3>2. u[s.at] < u[n]
      BY <1>4, <1>5, <3>1
    <3>. QED BY <1>1, <1>4, <1>5, <3>1, <3>2
  <2>. QED BY <2>1, <2>2
<1>7. s.uid = 0 => s.at = n
  <2>. SUFFICES ASSUME s.uid = 0, s.at # n PROVE FALSE
    OBVIOUS
  <2>1. s.at < n /\ n \in 1 .. n
    BY <1>2, <1>4
  <2>2. u[s.at] < -1
    BY <1>4, <1>5, <2>1
  <2>3. u[s.at] \in Nat \union {-1}
    BY <1>1, <1>2, <1>4
  <2>. QED BY <2>2, <2>3
<1>8. \A i, j \in 1 .. s.at : i < j => s.entries[i].uid < s.entries[j].uid
  <2>. TAKE i, j \in 1 .. s.at
  <2>1. i \in 1 .. n /\ j \in 1 .. n
    BY <1>2, <1>4
  <2>. QED BY <1>4, <1>5, <2>1
<1>. QED BY <1>2, <1>4, <1>6, <1>7, <1>8 DEF OrderedBehind

LEMMA HistInvHolds ==
    HistInv => PDFHistoryTypeOK /\ UidsOrdered /\ CurrentIsShown /\ ForwardHasEntry
<1>. SUFFICES ASSUME HistInv
              PROVE  PDFHistoryTypeOK /\ UidsOrdered /\ CurrentIsShown /\ ForwardHasEntry
  OBVIOUS
<1>1. /\ PDFHistoryTypeOK
      /\ h.entries \in Seq(StateEntry) /\ h.at \in 1 .. Len(h.entries)
  BY DEF HistInv, Numbered, SessionState
<1>2. UidsOrdered
  BY <1>1 DEF HistInv, Ordered, UidsOrdered
<1>3. CurrentIsShown
  BY DEF HistInv, InStep, CurrentIsShown
<1>4. ForwardHasEntry
  <2>. SUFFICES ASSUME ~reloaded, HasNext(h, 1) PROVE h.at < Len(h.entries)
    BY DEF ForwardHasEntry
  <2>1. h.entries[h.at].uid < h.uid - 1
    BY DEF HasNext
  <2>2. h.entries[Len(h.entries)].uid = h.uid - 1
    BY DEF HistInv, Ordered
  <2>3. h.at # Len(h.entries)
    <3>1. h.uid \in Nat
      BY DEF HistInv, Numbered, SessionState
    <3>. QED BY <2>1, <2>2, <3>1
  <2>. QED BY <1>1, <2>3
<1>. QED BY <1>1, <1>2, <1>3, <1>4

\* What _pushToHistory writes is what is shown then, and the entries before stay.
LEMMA WrittenShape ==
    ASSUME NEW s, Numbered(s), NEW target \in Target \union {NoTarget},
           NEW overwrite \in BOOLEAN
    PROVE  LET w == Written(s, target, overwrite)
           IN  /\ w \in SessionState
               /\ w.uid = s.uid + 1 /\ w.currentUid = s.uid /\ w.current = target
               /\ w.bookmark = s.bookmark /\ w.previous = s.previous
               /\ w.at \in 1 .. Len(w.entries)
               /\ w.entries[w.at] = [uid |-> s.uid, target |-> target]
               /\ \A i \in 1 .. w.at - 1 : w.entries[i] = s.entries[i]
               /\ IF overwrite \/ s.uid = 0
                  THEN /\ w.at = s.at /\ Len(w.entries) = Len(s.entries)
                       /\ \A i \in 1 .. Len(s.entries) :
                             i # s.at => w.entries[i] = s.entries[i]
                  ELSE w.at = s.at + 1 /\ Len(w.entries) = w.at
<1>0. /\ s \in SessionState /\ s.entries \in Seq(StateEntry) /\ Len(s.entries) \in Nat
      /\ s.at \in 1 .. Len(s.entries) /\ s.uid \in Nat
  BY DEF Numbered, SessionState
<1>. DEFINE entry == [uid |-> s.uid, target |-> target]
            replace == overwrite \/ s.uid = 0
<1>1. PICK es : es = IF replace THEN [s.entries EXCEPT ![s.at] = entry]
                     ELSE Append(SubSeq(s.entries, 1, s.at), entry)
  OBVIOUS
<1>2. PICK to : to = IF replace THEN s.at ELSE s.at + 1
  OBVIOUS
<1>3. entry \in StateEntry
  BY <1>0 DEF StateEntry
<1>4. /\ es \in Seq(StateEntry) /\ to \in 1 .. Len(es) /\ es[to] = entry
      /\ \A i \in 1 .. to - 1 : es[i] = s.entries[i]
      /\ IF replace THEN /\ Len(es) = Len(s.entries)
                         /\ \A i \in 1 .. Len(s.entries) : i # s.at => es[i] = s.entries[i]
         ELSE Len(es) = to
  <2>1. CASE replace
    <3>. HIDE DEF entry, replace
    <3>1. es = [s.entries EXCEPT ![s.at] = entry] /\ to = s.at
      BY <1>1, <1>2, <2>1
    <3>2. es \in Seq(StateEntry) /\ Len(es) = Len(s.entries)
      BY <1>0, <1>3, <3>1, ExceptSeq
    <3>3. \A i \in 1 .. Len(s.entries) : es[i] = IF i = s.at THEN entry ELSE s.entries[i]
      BY <1>0, <3>1, ExceptSeq
    <3>. QED BY <1>0, <2>1, <3>1, <3>2, <3>3
  <2>2. CASE ~replace
    <3>. HIDE DEF entry, replace
    <3>1. PICK b : b = SubSeq(s.entries, 1, s.at)
      OBVIOUS
    <3>2. /\ b \in Seq(StateEntry) /\ Len(b) = s.at
          /\ \A i \in 1 .. s.at : b[i] = s.entries[i]
      BY <1>0, <3>1, SubSeqProperties
    <3>3. es = Append(b, entry) /\ to = s.at + 1
      BY <1>1, <1>2, <2>2, <3>1
    <3>4. /\ es \in Seq(StateEntry) /\ Len(es) = s.at + 1 /\ es[s.at + 1] = entry
          /\ \A i \in 1 .. s.at : es[i] = b[i]
      BY <1>3, <3>2, <3>3, AppendProperties
    <3>. QED BY <1>0, <2>2, <3>2, <3>3, <3>4
  <2>. QED BY <2>1, <2>2
<1>5. Written(s, target, overwrite) =
         [s EXCEPT !.entries = es, !.at = to, !.currentUid = s.uid, !.uid = s.uid + 1,
                   !.current = target, !.renew = TRUE]
  BY <1>1, <1>2 DEF Written
<1>6. PICK w : w = Written(s, target, overwrite)
  OBVIOUS
<1>7. /\ w \in SessionState /\ w.entries = es /\ w.at = to /\ w.uid = s.uid + 1
      /\ w.currentUid = s.uid /\ w.current = target
      /\ w.bookmark = s.bookmark /\ w.previous = s.previous
  <2>1. to \in Nat
    BY <1>0, <1>2
  <2>2. s.uid + 1 \in Nat /\ s.uid \in Nat /\ es \in Seq(StateEntry)
    BY <1>0, <1>4
  <2>3. PICK u : u = s.uid + 1
    OBVIOUS
  <2>4. PICK c : c = s.uid
    OBVIOUS
  <2>5. w = [s EXCEPT !.entries = es, !.at = to, !.currentUid = c, !.uid = u,
                      !.current = target, !.renew = TRUE]
    BY <1>5, <1>6, <2>3, <2>4
  <2>6. w = [entries |-> es, at |-> to, uid |-> u, currentUid |-> c, current |-> target,
             bookmark |-> s.bookmark, previous |-> s.previous, renew |-> TRUE]
    BY <1>0, <2>5 DEF SessionState
  <2>7. s.bookmark \in Places \union {NoPlace} /\ s.previous \in Places \union {NoPlace}
    BY <1>0 DEF SessionState
  <2>8. w \in SessionState
    BY <2>1, <2>2, <2>3, <2>4, <2>6, <2>7 DEF SessionState
  <2>. QED BY <2>3, <2>4, <2>6, <2>8
<1>. QED BY <1>0, <1>2, <1>4, <1>6, <1>7

LEMMA WrittenKeeps ==
    ASSUME NEW s, Numbered(s), NEW target \in Target \union {NoTarget},
           NEW overwrite \in BOOLEAN
    PROVE  LET w == Written(s, target, overwrite)
           IN  /\ Numbered(w) /\ InStep(w)
               /\ OrderedBehind(s) => OrderedBehind(w) /\ (~overwrite => Ordered(w))
<1>. PICK w : w = Written(s, target, overwrite)
  OBVIOUS
<1>1. /\ w \in SessionState
      /\ w.uid = s.uid + 1 /\ w.currentUid = s.uid /\ w.current = target
      /\ w.at \in 1 .. Len(w.entries)
      /\ w.entries[w.at] = [uid |-> s.uid, target |-> target]
      /\ \A i \in 1 .. w.at - 1 : w.entries[i] = s.entries[i]
      /\ IF overwrite \/ s.uid = 0
         THEN /\ w.at = s.at /\ Len(w.entries) = Len(s.entries)
              /\ \A i \in 1 .. Len(s.entries) : i # s.at => w.entries[i] = s.entries[i]
         ELSE w.at = s.at + 1 /\ Len(w.entries) = w.at
  BY WrittenShape
<1>2. /\ Len(s.entries) \in Nat /\ s.at \in 1 .. Len(s.entries) /\ s.uid \in Nat
      /\ \A i \in 1 .. Len(s.entries) : s.entries[i].uid \in Nat \union {-1}
      /\ \A i \in 1 .. Len(s.entries) :
            s.entries[i].uid = -1 => s.entries[i].target = NoTarget
  BY NumberedTypes DEF Numbered
<1>3. /\ w.entries[w.at].uid = s.uid /\ w.entries[w.at].target = target
      /\ Len(w.entries) \in Nat
      /\ \A i \in 1 .. Len(w.entries) :
            i = w.at \/ (i \in 1 .. Len(s.entries) /\ w.entries[i] = s.entries[i])
  <2>1. w.entries[w.at].uid = s.uid /\ w.entries[w.at].target = target
    BY <1>1
  <2>2. Len(w.entries) \in Nat
    BY <1>1, <1>2
  <2>3. \A i \in 1 .. Len(w.entries) :
           i = w.at \/ (i \in 1 .. Len(s.entries) /\ w.entries[i] = s.entries[i])
    <3>1. CASE overwrite \/ s.uid = 0
      BY <1>1, <3>1
    <3>2. CASE ~(overwrite \/ s.uid = 0)
      <4> SUFFICES ASSUME NEW i \in 1 .. Len(w.entries), i # w.at
                   PROVE  i \in 1 .. Len(s.entries) /\ w.entries[i] = s.entries[i]
        OBVIOUS
      <4>1. w.at = s.at + 1 /\ Len(w.entries) = w.at
        BY <1>1, <3>2
      <4>2. i \in 1 .. w.at - 1 /\ i \in 1 .. Len(s.entries)
        BY <1>2, <4>1
      <4>. QED BY <1>1, <4>2
    <3>. QED BY <3>1, <3>2
  <2>. QED BY <2>1, <2>2, <2>3
<1>4. Numbered(w)
  <2>1. w.currentUid <= w.uid
    BY <1>1, <1>2
  <2>2. \A i \in 1 .. Len(w.entries) : w.entries[i].uid = -1 => w.entries[i].target = NoTarget
    <3> TAKE i \in 1 .. Len(w.entries)
    <3>1. CASE i = w.at
      <4>1. w.entries[i].uid # -1
        BY <1>2, <1>3, <3>1
      <4>. QED BY <4>1
    <3>2. CASE i \in 1 .. Len(s.entries) /\ w.entries[i] = s.entries[i]
      BY <1>2, <3>2
    <3>. QED BY <1>3, <3>1, <3>2
  <2>. QED BY <1>1, <2>1, <2>2 DEF Numbered
<1>5. InStep(w)
  BY <1>1 DEF InStep
<1>6. ASSUME OrderedBehind(s)
      PROVE  OrderedBehind(w) /\ (~overwrite => Ordered(w))
  <2>0. \A i \in 1 .. Len(s.entries) : s.entries[i].uid \in Int
    BY <1>2
  <2>1. \A i \in 1 .. s.at : s.entries[i].uid < s.uid
    <3> TAKE i \in 1 .. s.at
    <3>1. i \in 1 .. Len(s.entries) /\ (i = s.at \/ i < s.at)
      BY <1>2
    <3>2. s.entries[i].uid \in Int /\ s.entries[s.at].uid \in Int
      BY <1>2, <2>0, <3>1
    <3>3. s.entries[s.at].uid < s.uid /\ (i < s.at => s.entries[i].uid < s.entries[s.at].uid)
      BY <1>2, <1>6 DEF OrderedBehind
    <3>. QED BY <1>2, <3>1, <3>2, <3>3
  <2>2. w.at \in Nat /\ w.at <= s.at + 1
    BY <1>1, <1>2, <1>3
  <2>3. \A i, j \in 1 .. w.at : i < j => w.entries[i].uid < w.entries[j].uid
    <3> SUFFICES ASSUME NEW i \in 1 .. w.at, NEW j \in 1 .. w.at, i < j
                 PROVE  w.entries[i].uid < w.entries[j].uid
      OBVIOUS
    <3>1. i \in 1 .. w.at - 1 /\ i \in 1 .. s.at
      BY <1>2, <2>2
    <3>2. w.entries[i].uid = s.entries[i].uid
      BY <1>1, <3>1
    <3>3. CASE j = w.at
      BY <1>3, <2>1, <3>1, <3>2, <3>3
    <3>4. CASE j # w.at
      <4>1. j \in 1 .. w.at - 1 /\ j \in 1 .. s.at
        BY <1>2, <2>2, <3>4
      <4>2. w.entries[j].uid = s.entries[j].uid
        BY <1>1, <4>1
      <4>. QED BY <1>6, <3>1, <3>2, <4>1, <4>2 DEF OrderedBehind
    <3>. QED BY <3>3, <3>4
  <2>4. OrderedBehind(w)
    <3>1. w.entries[w.at].uid < w.uid /\ w.uid # 0
      BY <1>1, <1>2, <1>3
    <3>. QED BY <2>3, <3>1 DEF OrderedBehind
  <2>5. ~overwrite => w.at = Len(w.entries)
    BY <1>1, <1>2, <1>6 DEF OrderedBehind
  <2>6. w.entries[w.at].uid = w.uid - 1
    BY <1>1, <1>2, <1>3
  <2>7. ~overwrite => Ordered(w)
    BY <2>3, <2>5, <2>6 DEF Ordered
  <2>. QED BY <2>4, <2>7
<1>. QED BY <1>4, <1>5, <1>6

\* Looking for a position worth an entry, and renewing it, write nothing.
Untouched(s, u) ==
    /\ u \in SessionState /\ u.entries = s.entries /\ u.at = s.at /\ u.uid = s.uid
    /\ u.currentUid = s.currentUid /\ u.current = s.current

LEMMA UntouchedKeeps ==
    ASSUME NEW s, NEW u, Untouched(s, u), Numbered(s)
    PROVE  /\ Numbered(u)
           /\ InStep(s) => InStep(u)
           /\ Ordered(s) => Ordered(u)
           /\ OrderedBehind(s) => OrderedBehind(u)
BY DEF Untouched, Numbered, InStep, Ordered, OrderedBehind

LEMMA LookedUntouched ==
    ASSUME NEW s \in SessionState
    PROVE  Untouched(s, Looked(s)) /\ Looked(s).bookmark = s.bookmark
<1>1. CASE s.bookmark # NoPlace
  <2>1. PICK u : u = [s EXCEPT !.renew = FALSE]
    OBVIOUS
  <2>2. u \in SessionState
    BY <2>1 DEF SessionState
  <2>3. Untouched(s, u) /\ u.bookmark = s.bookmark
    BY <2>1, <2>2 DEF Untouched, SessionState
  <2>. QED BY <1>1, <2>1, <2>3 DEF Looked
<1>2. CASE s.bookmark = NoPlace
  BY <1>2 DEF Looked, Untouched
<1>. QED BY <1>1, <1>2

LEMMA BookmarkTarget ==
    /\ \A p \in Places : Bookmark(p) \in Target /\ [Bookmark(p) EXCEPT !.paged = FALSE] \in Target
    /\ \A d \in Dests : Destination(d) \in Target
    /\ NoTarget \notin Target
    /\ NoPlace \notin Places
<1>1. NoPlace \notin Places
  BY PlacesAssumption DEF NoPlace
<1>2. \A p \in Places : /\ Bookmark(p) \in Target
                        /\ [Bookmark(p) EXCEPT !.paged = FALSE] \in Target
  BY DEF Bookmark, Target
<1>3. \A d \in Dests : Destination(d) \in Target
  BY LeadsAssumption DEF Destination, Target
<1>4. NoTarget \notin Target
  BY <1>1 DEF NoTarget, Target
<1>. QED BY <1>1, <1>2, <1>3, <1>4

LEMMA WithPreviousKeeps ==
    ASSUME NEW s, Numbered(s)
    PROVE  LET w == WithPrevious(s)
           IN  /\ Numbered(w)
               /\ OrderedBehind(s) => OrderedBehind(w)
<1>1. /\ s \in SessionState /\ Untouched(s, Looked(s)) /\ Numbered(Looked(s))
      /\ OrderedBehind(s) => OrderedBehind(Looked(s))
  BY NumberedTypes, LookedUntouched, UntouchedKeeps
<1>2. CASE IsWorth(s, FALSE, FALSE)
  <2>1. Bookmark(s.bookmark) \in Target \union {NoTarget}
    <3>1. s.bookmark \in Places
      BY <1>1, <1>2 DEF IsWorth, SessionState
    <3>. QED BY <3>1, BookmarkTarget
  <2>2. Replaces(s) \in BOOLEAN
    BY DEF Replaces
  <2>3. PICK r \in BOOLEAN : r = Replaces(s)
    BY <2>2
  <2>4. PICK u : u = Looked(s)
    OBVIOUS
  <2>5. PICK t \in Target \union {NoTarget} : t = Bookmark(s.bookmark)
    BY <2>1
  <2>6. Numbered(Written(u, t, r)) /\ (OrderedBehind(u) => OrderedBehind(Written(u, t, r)))
    BY <1>1, <2>4, WrittenKeeps
  <2>. QED BY <1>1, <1>2, <2>3, <2>4, <2>5, <2>6 DEF WithPrevious
<1>3. CASE ~IsWorth(s, FALSE, FALSE)
  BY <1>1, <1>3 DEF WithPrevious
<1>. QED BY <1>2, <1>3

LEMMA PushedKeeps ==
    ASSUME NEW s, Numbered(s), NEW target \in Target
    PROVE  LET w == Pushed(s, target)
           IN  /\ Numbered(w)
               /\ InStep(w) \/ (w.entries = s.entries /\ w.at = s.at)
               /\ InStep(s) => InStep(w)
               /\ Ordered(s) => Ordered(w)
<1>1. CASE s.current # NoTarget /\ Hash(s.current) = Hash(target)
  <2>1. PICK u : u = [s EXCEPT !.renew = TRUE]
    OBVIOUS
  <2>2. u \in SessionState /\ s \in SessionState
    <3>1. s \in SessionState
      BY NumberedTypes
    <3>. QED BY <2>1, <3>1 DEF SessionState
  <2>3. Untouched(s, u)
    BY <2>1, <2>2 DEF Untouched, SessionState
  <2>4. /\ Numbered(u) /\ (InStep(s) => InStep(u)) /\ (Ordered(s) => Ordered(u))
        /\ u.entries = s.entries /\ u.at = s.at
    BY <2>3, UntouchedKeeps DEF Untouched
  <2>. QED BY <1>1, <2>1, <2>4 DEF Pushed
<1>2. CASE ~(s.current # NoTarget /\ Hash(s.current) = Hash(target))
  <2>1. PICK p : p = WithPrevious(s)
    OBVIOUS
  <2>2. Numbered(p) /\ (OrderedBehind(s) => OrderedBehind(p))
    BY <2>1, WithPreviousKeeps
  <2>3. /\ Numbered(Written(p, target, FALSE)) /\ InStep(Written(p, target, FALSE))
        /\ OrderedBehind(p) => Ordered(Written(p, target, FALSE))
    BY <2>2, WrittenKeeps
  <2>4. Ordered(s) => OrderedBehind(s)
    BY OrderedIsBehind
  <2>. QED BY <1>2, <2>1, <2>2, <2>3, <2>4 DEF Pushed
<1>. QED BY <1>1, <1>2

LEMMA UnloadedKeeps ==
    ASSUME NEW s, Numbered(s)
    PROVE  Numbered(Unloaded(s))
<1>1. s \in SessionState /\ Numbered(Looked(s))
  BY NumberedTypes, LookedUntouched, UntouchedKeeps
<1>2. CASE IsWorth(s, FALSE, TRUE)
  <2>1. Bookmark(s.bookmark) \in Target \union {NoTarget}
    <3>1. s.bookmark \in Places
      BY <1>1, <1>2 DEF IsWorth, SessionState
    <3>. QED BY <3>1, BookmarkTarget
  <2>2. PICK r \in BOOLEAN : r = Replaces(s)
    BY DEF Replaces
  <2>3. PICK u : u = Looked(s)
    OBVIOUS
  <2>4. PICK t \in Target \union {NoTarget} : t = Bookmark(s.bookmark)
    BY <2>1
  <2>5. Numbered(Written(u, t, r))
    BY <1>1, <2>3, WrittenKeeps
  <2>. QED BY <1>2, <2>2, <2>3, <2>4, <2>5 DEF Unloaded
<1>3. CASE ~IsWorth(s, FALSE, TRUE)
  BY <1>1, <1>3 DEF Unloaded
<1>. QED BY <1>2, <1>3

LEMMA InitializedKeeps ==
    ASSUME NEW s, Numbered(s), NEW mark \in Places \union {NoPlace}
    PROVE  LET w == Initialized(s, mark)
           IN  /\ Numbered(w) /\ InStep(w)
               /\ w.current # NoTarget => w.current.place \in Places
               /\ /\ Len(s.entries) = 1 /\ s.at = 1
                  /\ s.entries[1] = [uid |-> -1, target |-> NoTarget]
                  => Ordered(w)
<1>0. /\ s \in SessionState /\ s.entries \in Seq(StateEntry) /\ s.at \in 1 .. Len(s.entries)
      /\ s.entries[s.at] \in StateEntry
      /\ s.at \in Nat
  BY NumberedTypes DEF SessionState
<1>. DEFINE entry == s.entries[s.at]
<1>1. PICK fresh : fresh = [s EXCEPT !.bookmark = NoPlace, !.previous = NoPlace,
                                     !.renew = FALSE, !.uid = 0, !.currentUid = 0,
                                     !.current = NoTarget]
  OBVIOUS
<1>2. fresh = [entries |-> s.entries, at |-> s.at, uid |-> 0, currentUid |-> 0,
               current |-> NoTarget, bookmark |-> NoPlace, previous |-> NoPlace,
               renew |-> FALSE]
  BY <1>0, <1>1 DEF SessionState
<1>3. fresh \in SessionState
  BY <1>0, <1>2 DEF SessionState
<1>4. Numbered(fresh)
  BY <1>2, <1>3 DEF Numbered
<1>5. CASE entry.target # NoTarget
  <2>1. PICK c \in Nat : c = entry.uid
    BY <1>0, <1>5 DEF Numbered, StateEntry
  <2>2. PICK t \in Target : t = entry.target
    BY <1>0, <1>5 DEF StateEntry
  <2>3. PICK r \in BOOLEAN : r = (t.dest = NoDest)
    OBVIOUS
  <2>4. PICK w : w = [fresh EXCEPT !.uid = c + 1, !.currentUid = c, !.current = t,
                                   !.renew = r]
    OBVIOUS
  <2>5. w = Initialized(s, mark)
    <3>1. Initialized(s, mark) =
             [fresh EXCEPT !.uid = entry.uid + 1, !.currentUid = entry.uid,
                           !.current = entry.target,
                           !.renew = entry.target.dest = NoDest]
      BY <1>1, <1>5 DEF Initialized
    <3>. QED BY <2>1, <2>2, <2>3, <2>4, <3>1
  <2>6. w = [entries |-> s.entries, at |-> s.at, uid |-> c + 1, currentUid |-> c,
             current |-> t, bookmark |-> NoPlace, previous |-> NoPlace, renew |-> r]
    BY <1>2, <2>4
  <2>7. w \in SessionState
    BY <1>0, <2>6 DEF SessionState
  <2>8. Numbered(w)
    BY <2>6, <2>7 DEF Numbered
  <2>9. InStep(w)
    BY <2>1, <2>2, <2>6 DEF InStep
  <2>10. w.current.place \in Places
    BY <2>2, <2>6 DEF Target
  <2>. QED BY <1>5, <2>5, <2>8, <2>9, <2>10
<1>6. /\ Len(s.entries) = 1 /\ s.at = 1
      /\ s.entries[1] = [uid |-> -1, target |-> NoTarget]
      => Ordered(fresh)
  BY <1>2 DEF Ordered
<1>7. CASE entry.target = NoTarget /\ mark # NoPlace
  <2>1. PICK t \in Target : t = [Bookmark(mark) EXCEPT !.paged = FALSE]
    BY <1>7, BookmarkTarget
  <2>2. Initialized(s, mark) = Written(fresh, t, FALSE)
    BY <1>1, <1>7, <2>1 DEF Initialized
  <2>3. PICK w : w = Written(fresh, t, FALSE)
    OBVIOUS
  <2>4. /\ Numbered(w) /\ InStep(w)
        /\ OrderedBehind(fresh) => Ordered(w)
    BY <1>4, <2>3, WrittenKeeps
  <2>5. Ordered(fresh) => OrderedBehind(fresh)
    BY <1>4, OrderedIsBehind
  <2>6. w.current = t
    <3>1. t \in Target \union {NoTarget} /\ FALSE \in BOOLEAN
      OBVIOUS
    <3>2. Written(fresh, t, FALSE).current = t
      BY <1>4, <3>1, WrittenShape
    <3>. QED BY <2>3, <3>2
  <2>7. w.current.place \in Places
    BY <2>6 DEF Target
  <2>. QED BY <1>6, <2>2, <2>3, <2>4, <2>5, <2>7
<1>8. CASE entry.target = NoTarget /\ mark = NoPlace
  <2>1. Initialized(s, mark) = fresh
    BY <1>1, <1>8 DEF Initialized
  <2>2. InStep(fresh) /\ fresh.current = NoTarget
    BY <1>2, <1>8 DEF InStep
  <2>. QED BY <1>4, <1>6, <2>1, <2>2
<1>. QED BY <1>5, <1>7, <1>8

LEMMA HistInvInit == PDFHistoryInit => HistInv
<1>. SUFFICES ASSUME PDFHistoryInit PROVE HistInv
  OBVIOUS
<1>1. Numbered(Empty_)
  <2>1. Empty_ \in SessionState
    <3>1. [uid |-> -1, target |-> NoTarget] \in StateEntry
      BY DEF StateEntry
    <3>2. <<[uid |-> -1, target |-> NoTarget]>> \in Seq(StateEntry)
      BY <3>1
    <3>. QED BY <3>2 DEF Empty_, SessionState
  <2>. QED BY <2>1 DEF Numbered, Empty_
<1>2. initial \in Places \union {NoPlace} /\ h = Initialized(Empty_, initial)
  BY DEF PDFHistoryInit
<1>3. PICK e : e = Empty_
  OBVIOUS
<1>4. /\ Len(e.entries) = 1 /\ e.at = 1
      /\ e.entries[1] = [uid |-> -1, target |-> NoTarget]
  BY <1>3 DEF Empty_
<1>5. Numbered(h) /\ InStep(h) /\ Ordered(h)
  BY <1>1, <1>2, <1>3, <1>4, InitializedKeeps
<1>6. place \in Places
  BY DEF PDFHistoryInit
<1>7. PDFHistoryTypeOK
  <2>1. h \in SessionState /\ h.entries \in Seq(StateEntry) /\ h.at \in 1 .. Len(h.entries)
    BY <1>5, NumberedTypes
  <2>2. moved = TRUE /\ reloaded = FALSE /\ links = <<>> /\ going = <<>> /\ trips = 0
    BY DEF PDFHistoryInit
  <2>3. {moved, reloaded} \subseteq BOOLEAN
    BY <2>2, Zenon
  <2>4. links \in Seq(Dests) /\ going \in Seq({-1, 1}) /\ trips \in 0 .. MaxTrips
    BY <2>2, MaxTripsAssumption, EmptySeq
  <2>5. h.at \in DOMAIN h.entries
    BY <2>1
  <2>. QED BY <1>2, <1>6, <2>1, <2>3, <2>4, <2>5
       DEF PDFHistoryTypeOK, SessionState, StateEntry
<1>. QED BY <1>5, <1>6, <1>7 DEF HistInv

LEMMA TailKeepsBack ==
    ASSUME NEW g \in Seq({-1, 1}), g # <<>>, NEW i \in DOMAIN g, g[i] = -1, Head(g) # -1
    PROVE  \E j \in DOMAIN Tail(g) : Tail(g)[j] = -1
<1>1. PICK t : t = Tail(g)
  OBVIOUS
<1>2. /\ Len(t) = Len(g) - 1 /\ Len(g) \in Nat
      /\ t \in Seq({-1, 1}) /\ \A k \in 1 .. Len(t) : t[k] = g[k + 1]
  BY <1>1, HeadTailProperties
<1>3. i \in 1 .. Len(g) /\ i # 1
  OBVIOUS
<1>4. i - 1 \in DOMAIN t /\ t[i - 1] = g[i]
  BY <1>2, <1>3
<1>. QED BY <1>1, <1>4

LEMMA HistStep == HistInv /\ [PDFHistoryNext]_histVars => HistInv'
<1>. SUFFICES ASSUME HistInv, [PDFHistoryNext]_histVars PROVE HistInv'
  OBVIOUS
<1>0. /\ h \in SessionState /\ Numbered(h)
      /\ h.entries \in Seq(StateEntry) /\ Len(h.entries) \in Nat
      /\ h.at \in 1 .. Len(h.entries)
      /\ initial \in Places \union {NoPlace} /\ place \in Places
      /\ moved \in BOOLEAN /\ reloaded \in BOOLEAN
      /\ links \in Seq(Dests) /\ going \in Seq({-1, 1}) /\ trips \in 0 .. MaxTrips
      /\ InStep(h) \/ \E i \in DOMAIN going : going[i] = -1 /\ h.at >= 2
      /\ ~reloaded => Ordered(h)
      /\ MaxTrips \in Nat
  BY MaxTripsAssumption, NumberedTypes DEF HistInv, PDFHistoryTypeOK
<1>00. \A d \in Dests : Leads[d] \in Places
  BY LeadsAssumption
\* It is enough to look at each part of the state.
<1>a. ASSUME Numbered(h'), place' \in Places, initial' \in Places \union {NoPlace},
             moved' \in BOOLEAN, reloaded' \in BOOLEAN, links' \in Seq(Dests),
             going' \in Seq({-1, 1}), trips' \in 0 .. MaxTrips,
             InStep(h') \/ \E i \in DOMAIN going' : going'[i] = -1 /\ h'.at >= 2,
             ~reloaded' => Ordered(h')
      PROVE  HistInv'
  <2>1. h' \in SessionState /\ h'.at \in 1 .. Len(h'.entries)
        /\ h'.entries \in Seq(StateEntry)
    BY <1>a, NumberedTypes
  <2>2. h'.at \in DOMAIN h'.entries
    BY <2>1
  <2>3. {moved, reloaded}' \subseteq BOOLEAN
    BY <1>a
  <2>4. {initial, place}' \subseteq Places \union {NoPlace}
    BY <1>a
  <2>5. PDFHistoryTypeOK'
    <3>1. h' \in SessionState /\ links' \in Seq(Dests) /\ going' \in Seq({-1, 1})
          /\ trips' \in 0 .. MaxTrips
      BY <1>a, <2>1
    <3>. QED BY <2>2, <2>3, <2>4, <3>1 DEF PDFHistoryTypeOK, SessionState, StateEntry
  <2>. QED BY <1>a, <2>5 DEF HistInv
<1>1. ASSUME NEW d \in Dests, FollowLink(d) PROVE HistInv'
  <2>1. links' \in Seq(Dests) /\ trips' \in 0 .. MaxTrips
        /\ UNCHANGED <<h, initial, place, moved, going, reloaded>>
    BY <1>0, <1>1 DEF FollowLink, Trip
  <2>. QED BY <1>0, <1>a, <2>1
<1>2. CASE Arrive
  <2>1. PICK d \in Dests : d = Head(links)
    BY <1>0, <1>2 DEF Arrive
  <2>2. /\ h' = Pushed(h, Destination(d)) /\ place' = Leads[d]
        /\ moved' = (moved \/ Leads[d] # place) /\ links' = Tail(links)
        /\ UNCHANGED <<initial, going, reloaded, trips>>
    BY <1>2, <2>1 DEF Arrive, MovesTo
  <2>3. links' \in Seq(Dests)
    BY <1>0, <1>2, <2>2 DEF Arrive
  <2>4. PICK t \in Target : t = Destination(d)
    BY BookmarkTarget
  <2>5. /\ Numbered(h') /\ (InStep(h') \/ (h'.entries = h.entries /\ h'.at = h.at))
        /\ InStep(h) => InStep(h')
        /\ Ordered(h) => Ordered(h')
    BY <1>0, <2>2, <2>4, PushedKeeps
  <2>6. moved' \in BOOLEAN
    BY <2>2
  <2>7. InStep(h') \/ \E i \in DOMAIN going' : going'[i] = -1 /\ h'.at >= 2
    BY <1>0, <2>2, <2>5
  <2>8. place' \in Places /\ (~reloaded' => Ordered(h'))
    BY <1>0, <1>00, <2>2, <2>5
  <2>. QED BY <1>0, <1>a, <2>2, <2>3, <2>5, <2>6, <2>7, <2>8
<1>3. CASE UpdateCurrentBookmark
  <2>1. /\ moved' = FALSE /\ h' = Renewed([h EXCEPT !.bookmark = place])
        /\ UNCHANGED <<initial, place, links, going, reloaded, trips>>
    BY <1>3 DEF UpdateCurrentBookmark
  <2>2. PICK b : b = [h EXCEPT !.bookmark = place]
    OBVIOUS
  <2>3. b \in SessionState
    BY <1>0, <2>2 DEF SessionState
  <2>4. Untouched(h, b)
    BY <1>0, <2>2, <2>3 DEF Untouched, SessionState
  <2>5. Untouched(h, h')
    <3>1. CASE b.renew /\ b.bookmark # NoPlace
      <4>1. PICK p : p = b.bookmark
        OBVIOUS
      <4>2. h' = [b EXCEPT !.previous = p, !.renew = FALSE]
        BY <2>1, <2>2, <3>1, <4>1 DEF Renewed
      <4>3. p \in Places
        BY <2>3, <3>1, <4>1 DEF SessionState
      <4>4. h' \in SessionState
        BY <2>3, <4>2, <4>3 DEF SessionState
      <4>. QED BY <2>3, <2>4, <4>2, <4>4 DEF Untouched, SessionState
    <3>2. CASE ~(b.renew /\ b.bookmark # NoPlace)
      BY <2>1, <2>2, <2>4, <3>2 DEF Renewed
    <3>. QED BY <3>1, <3>2
  <2>6. /\ Numbered(h') /\ (InStep(h) => InStep(h')) /\ (Ordered(h) => Ordered(h'))
        /\ h'.at = h.at
    BY <1>0, <2>5, UntouchedKeeps DEF Untouched
  <2>7. InStep(h') \/ \E i \in DOMAIN going' : going'[i] = -1 /\ h'.at >= 2
    BY <1>0, <2>1, <2>6
  <2>8. moved' \in BOOLEAN
    BY <2>1, Zenon
  <2>. QED BY <1>0, <1>a, <2>1, <2>6, <2>7, <2>8
<1>4. CASE PopState
  <2>1. /\ going # <<>> /\ UNCHANGED <<initial, reloaded, trips>>
        /\ Head(going) \in {-1, 1} /\ Tail(going) \in Seq({-1, 1})
    BY <1>0, <1>4 DEF PopState
  <2>2. PICK to : to = h.at + Head(going)
    OBVIOUS
  <2>3. CASE to \notin DOMAIN h.entries
    <3>1. going' = Tail(going) /\ UNCHANGED <<h, place, moved, links>>
      BY <1>4, <2>2, <2>3 DEF PopState
    <3>2. InStep(h) \/ \E i \in DOMAIN going' : going'[i] = -1 /\ h.at >= 2
      <4>. SUFFICES ASSUME NEW i \in DOMAIN going, going[i] = -1, h.at >= 2
                    PROVE  \E j \in DOMAIN going' : going'[j] = -1
        BY <1>0
      <4>1. Head(going) # -1
        BY <1>0, <2>2, <2>3
      <4>. QED BY <1>0, <2>1, <3>1, <4>1, TailKeepsBack
    <3>. QED BY <1>0, <1>a, <2>1, <3>1, <3>2
  <2>4. CASE to \in DOMAIN h.entries
    <3>1. PICK s : s = [h EXCEPT !.at = to]
      OBVIOUS
    <3>2. to \in 1 .. Len(h.entries) /\ to \in Nat
      BY <1>0, <2>4
    <3>3. /\ s \in SessionState /\ s.entries = h.entries /\ s.at = to
          /\ s.uid = h.uid /\ s.currentUid = h.currentUid
      BY <1>0, <3>1, <3>2 DEF SessionState
    <3>4. Numbered(s) /\ (Ordered(h) => Ordered(s))
      BY <1>0, <3>2, <3>3 DEF Numbered, Ordered
    <3>5. PICK state \in StateEntry : state = h.entries[to]
      BY <1>0, <3>2
    <3>6. /\ s.entries[s.at] = state
          /\ state.target # NoTarget => state.uid \in Nat
      BY <1>0, <3>2, <3>3, <3>5 DEF Numbered, StateEntry
    <3>7. CASE state.target = NoTarget
      <4>1. h' = s /\ going' = Tail(going) /\ UNCHANGED <<place, moved, links>>
        BY <1>4, <2>2, <2>4, <3>1, <3>5, <3>7 DEF PopState
      <4>2. InStep(s)
        BY <3>6, <3>7 DEF InStep
      <4>. QED BY <1>0, <1>a, <2>1, <3>4, <4>1, <4>2
    <3>8. CASE /\ state.target # NoTarget
               /\ state.uid < s.currentUid /\ IsWorth(s, TRUE, FALSE)
      <4>1. GoToPosition(s, state)
        BY <1>4, <2>2, <2>4, <3>1, <3>5, <3>8 DEF PopState
      <4>2. PICK l : l = Looked(s)
        OBVIOUS
      <4>3. Numbered(l) /\ Untouched(s, l) /\ l.bookmark = s.bookmark
        BY <3>3, <3>4, <4>2, LookedUntouched, UntouchedKeeps
      <4>4. PICK c \in Target \union {NoTarget} : c = s.current
        BY <3>3 DEF SessionState
      <4>5. PICK b \in Target \union {NoTarget} : b = Bookmark(s.bookmark)
        <5>1. s.bookmark \in Places
          BY <3>3, <3>8 DEF IsWorth, SessionState
        <5>. QED BY <5>1, BookmarkTarget
      <4>6. l.uid \in Nat \ {0} /\ l.at \in Nat \ {0} /\ state.uid < l.uid
        <5>1. s.currentUid <= s.uid /\ s.uid \in Nat /\ s.currentUid \in Nat
          BY <3>4, NumberedTypes DEF Numbered
        <5>2. state.uid \in Nat
          BY <3>6, <3>8
        <5>3. state.uid < s.uid /\ s.uid # 0
          BY <3>8, <5>1, <5>2
        <5>. QED BY <3>2, <3>3, <4>3, <5>1, <5>3 DEF Untouched
      <4>7. PICK v : v = Written(l, c, FALSE)
        OBVIOUS
      <4>8. Numbered(v) /\ v.uid = l.uid + 1 /\ v.at = l.at + 1
            /\ (OrderedBehind(l) => Ordered(v))
        <5>1. v.uid = l.uid + 1 /\ v.at = l.at + 1
          BY <4>3, <4>6, <4>7, WrittenShape
        <5>2. Numbered(v) /\ (OrderedBehind(l) => Ordered(v))
          BY <4>3, <4>7, WrittenKeeps
        <5>. QED BY <5>1, <5>2
      <4>9. PICK w : w = Written(v, b, FALSE)
        OBVIOUS
      <4>10. Numbered(w) /\ w.uid = v.uid + 1 /\ w.at = v.at + 1
             /\ (OrderedBehind(v) => Ordered(w))
        <5>1. v.uid # 0
          BY <4>6, <4>8
        <5>2. w.uid = v.uid + 1 /\ w.at = v.at + 1
          BY <4>8, <4>9, <5>1, WrittenShape
        <5>3. Numbered(w) /\ (OrderedBehind(v) => Ordered(w))
          BY <4>8, <4>9, WrittenKeeps
        <5>. QED BY <5>2, <5>3
      <4>11. PICK u \in Nat : u = state.uid
        BY <3>6, <3>8
      <4>12. /\ h' = [w EXCEPT !.currentUid = u]
             /\ going' = Append(Tail(going), -1) /\ UNCHANGED <<place, moved, links>>
        BY <4>1, <4>2, <4>4, <4>5, <4>7, <4>9, <4>11 DEF GoToPosition
      <4>13. /\ h' \in SessionState /\ h'.entries = w.entries /\ h'.at = w.at
             /\ h'.uid = w.uid /\ h'.currentUid = u
        <5>1. w \in SessionState
          BY <4>10 DEF Numbered
        <5>. QED BY <4>12, <5>1 DEF SessionState
      <4>14. Numbered(h')
        <5>1. u <= w.uid
          BY <4>6, <4>8, <4>10, <4>11
        <5>. QED BY <4>10, <4>13, <5>1 DEF Numbered
      <4>15. Ordered(h) => Ordered(h')
        <5>1. Ordered(h) => Ordered(l)
          BY <3>4, <4>3, UntouchedKeeps
        <5>2. Ordered(l) => Ordered(v)
          BY <4>3, <4>8, OrderedIsBehind
        <5>3. Ordered(v) => Ordered(w)
          BY <4>8, <4>10, OrderedIsBehind
        <5>4. Ordered(w) => Ordered(h')
          BY <4>13 DEF Ordered
        <5>. QED BY <5>1, <5>2, <5>3, <5>4
      <4>16. going' \in Seq({-1, 1}) /\ \E i \in DOMAIN going' : going'[i] = -1
        <5>1. PICK t \in Seq({-1, 1}) : t = Tail(going)
          BY <2>1
        <5>2. going' = Append(t, -1)
          BY <4>12, <5>1
        <5>3. Len(t) + 1 \in DOMAIN going' /\ going'[Len(t) + 1] = -1
          BY <5>2
        <5>4. going' \in Seq({-1, 1})
          BY <5>2
        <5>. QED BY <5>3, <5>4
      <4>17. h'.at >= 2
        BY <4>6, <4>8, <4>10, <4>13
      <4>. QED BY <1>0, <1>a, <2>1, <4>12, <4>14, <4>15, <4>16, <4>17
    <3>9. CASE /\ state.target # NoTarget
               /\ ~(state.uid < s.currentUid /\ IsWorth(s, TRUE, FALSE))
      <4>1. PICK l : l = IF state.uid < s.currentUid THEN Looked(s) ELSE s
        OBVIOUS
      <4>2. GoToState(l, state)
        BY <1>4, <2>2, <2>4, <3>1, <3>5, <3>9, <4>1 DEF PopState
      <4>3. Numbered(l) /\ Untouched(s, l)
        <5>1. Untouched(s, s)
          BY <3>3 DEF Untouched
        <5>. QED BY <3>3, <3>4, <4>1, <5>1, LookedUntouched, UntouchedKeeps
      <4>4. PICK u \in Nat : u = state.uid
        BY <3>6, <3>9
      <4>5. PICK t \in Target : t = state.target
        BY <3>9 DEF StateEntry
      <4>6. PICK m \in Nat : m = IF u > l.uid THEN u ELSE l.uid
        BY <4>3, NumberedTypes
      <4>7. h' = [l EXCEPT !.currentUid = u, !.uid = m, !.current = t, !.renew = TRUE]
        BY <4>2, <4>4, <4>5, <4>6 DEF GoToState
      <4>8. /\ h' \in SessionState /\ h'.entries = l.entries /\ h'.at = l.at
            /\ h'.uid = m /\ h'.currentUid = u /\ h'.current = t
        <5>1. l \in SessionState
          BY <4>3 DEF Numbered
        <5>. QED BY <4>7, <5>1 DEF SessionState
      <4>9. Numbered(h')
        <5>1. u <= m
          BY <4>3, <4>6, NumberedTypes
        <5>. QED BY <4>3, <4>8, <5>1 DEF Numbered
      <4>10. InStep(h')
        <5>1. h'.entries[h'.at] = state
          BY <3>6, <4>3, <4>8 DEF Untouched
        <5>. QED BY <4>4, <4>5, <4>8, <5>1 DEF InStep
      <4>11. Ordered(h) => Ordered(h')
        <5>. SUFFICES ASSUME Ordered(h) PROVE Ordered(h')
          OBVIOUS
        <5>1. Ordered(s) /\ Ordered(l)
          BY <3>4, <4>3, UntouchedKeeps
        <5>2. OrderedBehind(s)
          BY <3>4, <5>1, OrderedIsBehind
        <5>3. u < l.uid
          BY <3>6, <4>3, <4>4, <5>2 DEF OrderedBehind, Untouched
        <5>4. m = l.uid
          BY <4>3, <4>6, <5>3, NumberedTypes
        <5>. QED BY <4>8, <5>1, <5>4 DEF Ordered
      <4>12. /\ going' = Tail(going) /\ links' \in Seq(Dests)
             /\ place' \in Places /\ moved' \in BOOLEAN
        <5>1. CASE t.dest # NoDest
          <6>1. PICK d \in Dests : d = t.dest
            BY <5>1 DEF Target
          <6>2. going' = Tail(going) /\ links' = Append(links, d)
                /\ UNCHANGED <<place, moved>>
            BY <4>2, <4>5, <5>1, <6>1 DEF GoToState
          <6>. QED BY <1>0, <6>2
        <5>2. CASE t.dest = NoDest
          <6>1. /\ going' = Tail(going) /\ UNCHANGED links
                /\ place' = t.place /\ moved' = (moved \/ t.place # place)
            BY <4>2, <4>5, <5>2 DEF GoToState, MovesTo
          <6>2. t.place \in Places
            BY DEF Target
          <6>3. moved' \in BOOLEAN
            BY <6>1
          <6>. QED BY <1>0, <6>1, <6>2, <6>3
        <5>. QED BY <5>1, <5>2
      <4>. QED BY <1>0, <1>a, <2>1, <4>9, <4>10, <4>11, <4>12
    <3>. QED BY <3>7, <3>8, <3>9
  <2>. QED BY <2>3, <2>4
<1>5. CASE ReadOn
  <2>1. PICK p \in Places : /\ place' = p /\ moved' = (moved \/ p # place)
                            /\ trips' = trips + 1 /\ trips < MaxTrips
                            /\ UNCHANGED <<h, initial, links, going, reloaded>>
    BY <1>5 DEF ReadOn, Trip, MovesTo
  <2>2. moved' \in BOOLEAN
    BY <2>1
  <2>3. trips' \in 0 .. MaxTrips
    BY <1>0, <2>1
  <2>. QED BY <1>0, <1>a, <2>1, <2>2, <2>3
<1>6. ASSUME NEW n \in {-1, 1}, Go(n) PROVE HistInv'
  <2>1. /\ going' = Append(going, n) /\ trips' = trips + 1 /\ trips < MaxTrips
        /\ UNCHANGED <<h, initial, place, moved, links, reloaded>>
    BY <1>6 DEF Go, Trip
  <2>2. going' \in Seq({-1, 1}) /\ trips' \in 0 .. MaxTrips
    BY <1>0, <2>1
  <2>3. \A i \in DOMAIN going : i \in DOMAIN going' /\ going'[i] = going[i]
    BY <1>0, <2>1, AppendProperties
  <2>4. InStep(h') \/ \E i \in DOMAIN going' : going'[i] = -1 /\ h'.at >= 2
    BY <1>0, <2>1, <2>3
  <2>. QED BY <1>0, <1>a, <2>1, <2>2, <2>4
<1>7. CASE Reload
  <2>1. PICK u : u = Unloaded(h)
    OBVIOUS
  <2>2. Numbered(u)
    BY <1>0, <2>1, UnloadedKeeps
  <2>3. /\ h' = Initialized(u, initial) /\ reloaded' = TRUE /\ moved' = TRUE
        /\ trips' = trips + 1 /\ trips < MaxTrips /\ UNCHANGED <<initial, going>>
    BY <1>7, <2>1 DEF Reload, Trip
  <2>4. /\ Numbered(h') /\ InStep(h')
        /\ h'.current # NoTarget => h'.current.place \in Places
    BY <1>0, <2>2, <2>3, InitializedKeeps
  <2>5. h'.current \in Target \union {NoTarget}
    BY <2>4 DEF Numbered, SessionState
  <2>6. links' \in Seq(Dests) /\ place' \in Places
    <3>1. CASE h'.current.dest # NoDest
      <4>1. PICK d \in Dests : d = h'.current.dest
        BY <2>5, <3>1 DEF Target, NoTarget
      <4>2. links' = <<d>> /\ place' \in Places
        BY <1>7, <3>1, <4>1 DEF Reload
      <4>. QED BY <4>2
    <3>2. CASE h'.current.dest = NoDest
      <4>1. /\ links' = <<>>
            /\ place' \in IF h'.current = NoTarget THEN Places ELSE {h'.current.place}
        BY <1>7, <3>2 DEF Reload
      <4>2. <<>> \in Seq(Dests)
        OBVIOUS
      <4>. QED BY <2>4, <4>1, <4>2
    <3>. QED BY <3>1, <3>2
  <2>7. moved' \in BOOLEAN /\ reloaded' \in BOOLEAN
    BY <2>3, Zenon
  <2>8. trips' \in 0 .. MaxTrips
    BY <1>0, <2>3
  <2>. QED BY <1>0, <1>a, <2>3, <2>4, <2>6, <2>7, <2>8
<1>8. CASE UNCHANGED histVars
  <2>1. UNCHANGED <<h, initial, place, moved, links, going, reloaded, trips>>
    BY <1>8 DEF histVars
  <2>. QED BY <1>0, <1>a, <2>1
<1>. QED BY <1>1, <1>2, <1>3, <1>4, <1>5, <1>6, <1>7, <1>8 DEF PDFHistoryNext, HistWork

-----------------------------------------------------------------------------
(* Searching. *)

LEMMA ModRange ==
    ASSUME NEW n \in Nat \ {0}, NEW a \in Int
    PROVE  a % n \in 0 .. n - 1
OBVIOUS

LEMMA ModDef ==
    ASSUME NEW n \in Nat \ {0}, NEW a \in Int
    PROVE  \E d \in Int : a = d * n + (a % n)
<1>1. a = (a \div n) * n + (a % n)
  OBVIOUS
<1>2. a \div n \in Int
  OBVIOUS
<1>. QED BY <1>1, <1>2

LEMMA ModUnique ==
    ASSUME NEW n \in Nat \ {0}, NEW d \in Int, NEW r \in 0 .. n - 1
    PROVE  (d * n + r) % n = r
OBVIOUS

LEMMA ModSame ==
    ASSUME NEW n \in Nat \ {0}, NEW a \in Int, NEW d \in Int
    PROVE  (a + d * n) % n = a % n
<1>1. PICK e \in Int : a = e * n + (a % n)
  BY ModDef
<1>2. PICK r \in 0 .. n - 1 : r = a % n
  BY ModRange
<1>3. a + d * n = (e + d) * n + r
  BY <1>1, <1>2
<1>4. ((e + d) * n + r) % n = r
  BY ModUnique
<1>. QED BY <1>2, <1>3, <1>4

LEMMA ModAdd ==
    ASSUME NEW n \in Nat \ {0}, NEW a \in Int, NEW b \in Int
    PROVE  ((a % n) + b) % n = (a + b) % n
<1>1. PICK e \in Int : a = e * n + (a % n)
  BY ModDef
<1>2. PICK r \in 0 .. n - 1 : r = a % n
  BY ModRange
<1>3. PICK c \in Int : c = r + b
  OBVIOUS
<1>4. a + b = c + e * n
  BY <1>1, <1>2, <1>3
<1>5. (c + e * n) % n = c % n
  BY ModSame
<1>. QED BY <1>2, <1>3, <1>4, <1>5

LEMMA ModAll ==
    ASSUME NEW n \in Nat \ {0}, NEW a \in Int, NEW p \in 0 .. n - 1
    PROVE  /\ \E j \in 1 .. n : (a - j) % n = p
           /\ \E j \in 1 .. n : (a + j) % n = p
<1>1. \E j \in 1 .. n : (a - j) % n = p
  <2>0. PICK c \in Int : c = a - 1 - p
    OBVIOUS
  <2>1. PICK q \in 0 .. n - 1 : q = c % n
    BY ModRange
  <2>2. PICK e \in Int : c = e * n + q
    BY <2>1, ModDef
  <2>3. a - (q + 1) = e * n + p
    BY <2>0, <2>2
  <2>4. (e * n + p) % n = p
    BY ModUnique
  <2>5. q + 1 \in 1 .. n
    OBVIOUS
  <2>. QED BY <2>3, <2>4, <2>5
<1>2. \E j \in 1 .. n : (a + j) % n = p
  <2>0. PICK c \in Int : c = p - a - 1
    OBVIOUS
  <2>1. PICK q \in 0 .. n - 1 : q = c % n
    BY ModRange
  <2>2. PICK e \in Int : c = e * n + q
    BY <2>1, ModDef
  <2>3. PICK d \in Int : d = -e
    OBVIOUS
  <2>4. a + (q + 1) = d * n + p
    BY <2>0, <2>2, <2>3
  <2>5. (d * n + p) % n = p
    BY ModUnique
  <2>6. q + 1 \in 1 .. n
    OBVIOUS
  <2>. QED BY <2>4, <2>5, <2>6
<1>. QED BY <1>1, <1>2

Offsets == [page : PageIdxs, match : Int, wrapped : BOOLEAN, left : Int]
Selections == [page : PageIdxs \union {None}, match : Int]
Says == {"idle", "pending", "found", "notfound", "wrapped"}
Layers == [PageIdxs -> [rendered : BOOLEAN, shows : Texts \union {NoMatches}]]
PageMatches == [PageIdxs -> Texts \union {NoMatches}]

\* The page j pages before offset o, in the direction of the search.
PageBehind(o, back, j) == (IF back THEN o.page + j ELSE o.page - j) % NumPages

\* No page the search has left since nextMatch has a match.
Passed(o, back, text) ==
    \A j \in 1 .. NumPages - o.left - 1 : Hits[text][PageBehind(o, back, j)] = 0

LEMMA PageFacts ==
    /\ NumPages \in Nat \ {0} /\ PageIdxs = 0 .. NumPages - 1
    /\ \A p \in PageIdxs : p \in Nat /\ p # None
    /\ None \in Int /\ None \notin PageIdxs /\ 0 \in PageIdxs
BY NumPagesAssumption DEF PageIdxs, None

LEMMA CountType ==
    ASSUME NEW m \in PageMatches, NEW p \in PageIdxs
    PROVE  /\ Count(m, p) \in Nat
           /\ m[p] = NoMatches => Count(m, p) = 0
           /\ Count(m, p) > 0 => m[p] \in DOMAIN Hits /\ Count(m, p) = Hits[m[p]][p]
BY HitsAssumption DEF Count, PageMatches

LEMMA HitsType ==
    ASSUME NEW text \in DOMAIN Hits, NEW p \in PageIdxs
    PROVE  Hits[text][p] \in Nat /\ text \notin {Empty, NoMatches}
BY HitsAssumption

LEMMA AheadType ==
    ASSUME NEW o \in Offsets, NEW back \in BOOLEAN, NEW k \in Nat, k > 0 \/ o.match = None
    PROVE  /\ Ahead(o, back, k) \in Offsets
           /\ Ahead(o, back, k).match = None
           /\ Ahead(o, back, k).left = o.left - k
           /\ Ahead(o, back, k).page = (IF back THEN o.page - k ELSE o.page + k) % NumPages
<1>0. o.page \in PageIdxs /\ o.left \in Int /\ o.wrapped \in BOOLEAN
  BY DEF Offsets
<1>1. PICK to \in Int : to = IF back THEN o.page - k ELSE o.page + k
  BY <1>0, PageFacts
<1>2. PICK pg \in PageIdxs : pg = to % NumPages
  BY PageFacts, ModRange
<1>3. PICK w \in BOOLEAN : w = (o.wrapped \/ to \notin PageIdxs)
  OBVIOUS
<1>4. Ahead(o, back, k) = [page |-> pg, match |-> None, wrapped |-> w, left |-> o.left - k]
  <2>1. Ahead(o, back, k) = [page |-> to % NumPages,
                             match |-> IF k = 0 THEN o.match ELSE None,
                             wrapped |-> o.wrapped \/ to \notin PageIdxs,
                             left |-> o.left - k]
    BY <1>1 DEF Ahead
  <2>2. (IF k = 0 THEN o.match ELSE None) = None
    OBVIOUS
  <2>. QED BY <1>2, <1>3, <2>1, <2>2
<1>5. [page |-> pg, match |-> None, wrapped |-> w, left |-> o.left - k] \in Offsets
  BY <1>0, PageFacts DEF Offsets
<1>. QED BY <1>1, <1>2, <1>4, <1>5

\* Going k pages ahead past pages without a match leaves no match behind.
LEMMA PassedAhead ==
    ASSUME NEW o \in Offsets, o.match = None, NEW back \in BOOLEAN, NEW k \in Nat,
           NEW text, Passed(o, back, text),
           \A j \in 0 .. k - 1 : Hits[text][Ahead(o, back, j).page] = 0
    PROVE  Passed(Ahead(o, back, k), back, text)
<1>0. o.page \in Int /\ o.left \in Int /\ NumPages \in Nat \ {0}
  BY PageFacts DEF Offsets
<1>1. PICK at \in Offsets : at = Ahead(o, back, k)
  BY AheadType
<1>2. /\ at.left = o.left - k
      /\ at.page = (IF back THEN o.page - k ELSE o.page + k) % NumPages
  BY <1>1, AheadType
<1>3. SUFFICES ASSUME NEW i \in 1 .. NumPages - at.left - 1
               PROVE  Hits[text][PageBehind(at, back, i)] = 0
  BY <1>1 DEF Passed
<1>4. PICK to \in Int : to = IF back THEN (o.page - k) + i ELSE (o.page + k) - i
  BY <1>0
<1>5. PageBehind(at, back, i) = to % NumPages
  <2>1. CASE back
    <3>1. PICK a \in Int : a = o.page - k
      BY <1>0
    <3>2. PICK b \in Int : b = i
      OBVIOUS
    <3>3. ((a % NumPages) + b) % NumPages = (a + b) % NumPages
      BY <1>0, ModAdd
    <3>. QED BY <1>2, <1>4, <2>1, <3>1, <3>2, <3>3 DEF PageBehind
  <2>2. CASE ~back
    <3>1. PICK a \in Int : a = o.page + k
      BY <1>0
    <3>2. PICK b \in Int : b = -i
      OBVIOUS
    <3>3. ((a % NumPages) + b) % NumPages = (a + b) % NumPages
      BY <1>0, ModAdd
    <3>4. a + b = to /\ a % NumPages \in Int
      <4>1. a % NumPages \in Int
        BY <1>0, ModRange
      <4>. QED BY <1>4, <2>2, <3>1, <3>2, <4>1
    <3>5. (a % NumPages) + b = (a % NumPages) - i
      BY <3>2, <3>4
    <3>6. PageBehind(at, back, i) = ((a % NumPages) - i) % NumPages
      BY <1>2, <2>2, <3>1 DEF PageBehind
    <3>. QED BY <3>3, <3>4, <3>5, <3>6
  <2>. QED BY <2>1, <2>2
<1>6. CASE i <= k
  <2>1. PICK j \in 0 .. k - 1 : j = k - i
    BY <1>6
  <2>2. Ahead(o, back, j).page = to % NumPages
    <3>1. (IF back THEN o.page - j ELSE o.page + j) = to
      BY <1>0, <1>4, <2>1
    <3>2. j \in Nat
      OBVIOUS
    <3>. QED BY <3>1, <3>2, AheadType
  <2>. QED BY <1>5, <2>2
<1>7. CASE i > k
  <2>1. PICK j \in 1 .. NumPages - o.left - 1 : j = i - k
    BY <1>0, <1>2, <1>7
  <2>2. PageBehind(o, back, j) = to % NumPages
    <3>1. (IF back THEN o.page + j ELSE o.page - j) = to
      BY <1>0, <1>4, <2>1
    <3>. QED BY <3>1 DEF PageBehind
  <2>. QED BY <1>5, <2>2 DEF Passed
<1>. QED BY <1>6, <1>7

\* Giving up, the search has left every page.
LEMMA PassedAll ==
    ASSUME NEW o \in Offsets, NEW back \in BOOLEAN, NEW text, Passed(o, back, text),
           GivesUp(o), NEW p \in PageIdxs
    PROVE  Hits[text][p] = 0
<1>0. o.page \in Int /\ o.left \in Int /\ NumPages \in Nat \ {0} /\ o.left < 0
  BY PageFacts DEF Offsets, GivesUp
<1>1. PICK j \in 1 .. NumPages : PageBehind(o, back, j) = p
  <2>1. p \in 0 .. NumPages - 1
    BY PageFacts
  <2>2. PICK a \in Int : a = o.page
    BY <1>0
  <2>3. /\ \E j \in 1 .. NumPages : (a - j) % NumPages = p
        /\ \E j \in 1 .. NumPages : (a + j) % NumPages = p
    BY <1>0, <2>1, ModAll
  <2>4. CASE back
    BY <2>2, <2>3, <2>4 DEF PageBehind
  <2>5. CASE ~back
    BY <2>2, <2>3, <2>5 DEF PageBehind
  <2>. QED BY <2>4, <2>5
<1>2. j \in 1 .. NumPages - o.left - 1
  BY <1>0
<1>. QED BY <1>1, <1>2 DEF Passed

\* A selection or an offset is within the matches m, or none.
Exists(m, s) == s.match # None => s.match \in 0 .. Count(m, s.page) - 1
SelectedExists(m, s) == s.page # None => s.match \in 0 .. Count(m, s.page) - 1

\* What updatePage does to the layers: highlights of m, or none, or as before.
LayersUpdated(P, m) ==
    /\ layer' \in Layers
    /\ \A p \in PageIdxs :
          /\ layer'[p].rendered = layer[p].rendered
          /\ ~layer[p].rendered => layer'[p] = layer[p]
          /\ layer'[p].shows \in {layer[p].shows, m[p], NoMatches}
          /\ p \in P /\ layer[p].rendered => layer'[p].shows \in {m[p], NoMatches}

LEMMA UpdatePagesUpdates ==
    ASSUME NEW P, NEW Q, Q \subseteq P, NEW m \in PageMatches, NEW sel,
           layer \in Layers, UpdatePages(P, m, sel)
    PROVE  LayersUpdated(Q, m)
<1>1. \A p \in PageIdxs : layer'[p] = IF p \in P
                                      THEN UpdatedLayer(layer[p], p, m, sel, query'.all, active')
                                      ELSE layer[p]
  BY DEF UpdatePages
<1>2. DOMAIN layer' = PageIdxs /\ layer' = [p \in PageIdxs |-> layer'[p]]
  BY DEF UpdatePages
<1>3. ASSUME NEW p \in PageIdxs
      PROVE  LET l == UpdatedLayer(layer[p], p, m, sel, query'.all, active')
             IN  /\ l \in [rendered : BOOLEAN, shows : Texts \union {NoMatches}]
                 /\ l.rendered = layer[p].rendered
                 /\ ~layer[p].rendered => l = layer[p]
                 /\ layer[p].rendered => l.shows \in {m[p], NoMatches}
  <2>1. PICK a \in [rendered : BOOLEAN, shows : Texts \union {NoMatches}] : a = layer[p]
    BY <1>3 DEF Layers
  <2>2. PICK t \in Texts \union {NoMatches} :
           t = IF active' /\ Count(m, p) > 0 /\ (query'.all \/ sel.page = p)
               THEN m[p] ELSE NoMatches
    BY <1>3 DEF PageMatches
  <2>3. t \in {m[p], NoMatches}
    BY <2>2
  <2>4. UpdatedLayer(a, p, m, sel, query'.all, active') =
           IF ~a.rendered THEN a ELSE [a EXCEPT !.shows = t]
    BY <2>2 DEF UpdatedLayer
  <2>. QED BY <2>1, <2>3, <2>4
<1>4. layer' \in Layers
  BY <1>1, <1>2, <1>3 DEF Layers
<1>. QED BY <1>1, <1>3, <1>4 DEF LayersUpdated

\* What a search for the matches m leaves behind.
Searched(m, sel, says, P) ==
    /\ offset' \in Offsets /\ selected' \in Selections /\ ui' \in Says
    /\ resume' \in PageIdxs \union {None}
    /\ resume' # None => /\ offset'.match = None /\ offset'.page = resume'
                         /\ m[resume'] = NoMatches
    /\ Exists(m, offset')
    /\ SelectedExists(m, sel) => SelectedExists(m, selected')
    /\ LayersUpdated(P, m)

\* If it says found, something is selected.
Found(m) ==
    resume' = None /\ ui' \in {"found", "wrapped"} =>
        selected'.page \in PageIdxs /\ Count(m, selected'.page) > 0

\* What it has seen, if m has matches of one text.
Answers(m, back, text) ==
    /\ resume' # None => Passed(offset', back, text)
    /\ resume' = None /\ ui' = "notfound" => \A p \in PageIdxs : Hits[text][p] = 0

LEMMA NextPageMatchSearches ==
    ASSUME NEW o \in Offsets, o.match = None, NEW back \in BOOLEAN,
           NEW m \in PageMatches, NEW sel \in Selections, NEW says \in Says, NEW P,
           layer \in Layers,
           NextPageMatch(o, back, m, sel, says, P)
    PROVE  /\ Searched(m, sel, says, P) /\ Found(m)
           /\ \A text \in DOMAIN Hits :
                 Passed(o, back, text) /\ (\A p \in PageIdxs : m[p] \in {NoMatches, text})
                    => Answers(m, back, text)
<1>1. PICK k \in 0 .. 3 * NumPages :
         /\ Stops(o, back, m, k)
         /\ \A j \in 0 .. k - 1 : ~Stops(o, back, m, j)
         /\ LET at == Ahead(o, back, k)
                n == Count(m, at.page)
                choice == [page |-> at.page, match |-> IF back THEN n - 1 ELSE 0]
            IN  IF k > 0 /\ GivesUp(at)
                THEN /\ offset' = [at EXCEPT !.wrapped = FALSE]
                     /\ ui' = "notfound"
                     /\ selected' = sel
                     /\ resume' = None
                     /\ UpdatePages(P \union {sel.page}, m, sel)
                ELSE IF n > 0
                THEN /\ offset' = [at EXCEPT !.match = choice.match, !.wrapped = FALSE]
                     /\ ui' = IF at.wrapped THEN "wrapped" ELSE "found"
                     /\ selected' = choice
                     /\ resume' = None
                     /\ UpdatePages(P \union {sel.page, at.page}, m, choice)
                ELSE /\ offset' = at
                     /\ ui' = says
                     /\ selected' = sel
                     /\ resume' = at.page
                     /\ UpdatePages(P, m, sel)
  BY DEF NextPageMatch
<1>2. k \in Nat
  BY PageFacts
<1>3. PICK at \in Offsets : at = Ahead(o, back, k) /\ at.match = None
  BY <1>2, AheadType
<1>4. at.page \in PageIdxs
  BY DEF Offsets
<1>5. PICK n \in Nat : /\ n = Count(m, at.page)
                       /\ m[at.page] = NoMatches => n = 0
                       /\ n > 0 => m[at.page] \in DOMAIN Hits /\ n = Hits[m[at.page]][at.page]
  BY <1>4, CountType
<1>6. ASSUME NEW text \in DOMAIN Hits, Passed(o, back, text),
             \A p \in PageIdxs : m[p] \in {NoMatches, text}
      PROVE  Passed(at, back, text)
  <2>1. ASSUME NEW j \in 0 .. k - 1
        PROVE  Hits[text][Ahead(o, back, j).page] = 0
    <3>1. j \in Nat
      OBVIOUS
    <3>2. PICK q \in PageIdxs : q = Ahead(o, back, j).page
      BY <3>1, AheadType DEF Offsets
    <3>3. m[q] # NoMatches /\ ~(Count(m, q) > 0)
      BY <1>1, <3>2 DEF Stops
    <3>4. m[q] = text
      BY <1>6, <3>3
    <3>5. Count(m, q) = Hits[text][q]
      BY <3>4 DEF Count
    <3>. QED BY <3>2, <3>3, <3>5, HitsType
  <2>. QED BY <1>2, <1>3, <1>6, <2>1, PassedAhead
<1>7. CASE k > 0 /\ GivesUp(at)
  <2>1. /\ offset' = [at EXCEPT !.wrapped = FALSE] /\ ui' = "notfound"
        /\ selected' = sel /\ resume' = None /\ UpdatePages(P \union {sel.page}, m, sel)
    BY <1>1, <1>3, <1>7
  <2>2. offset' \in Offsets /\ offset'.match = None
    BY <1>3, <2>1 DEF Offsets
  <2>3. LayersUpdated(P, m)
    BY <2>1, UpdatePagesUpdates
  <2>4. Searched(m, sel, says, P) /\ Found(m)
    BY <2>1, <2>2, <2>3 DEF Searched, Found, Exists, Says
  <2>5. ASSUME NEW text \in DOMAIN Hits, Passed(o, back, text),
               \A p \in PageIdxs : m[p] \in {NoMatches, text}
        PROVE  Answers(m, back, text)
    <3>1. Passed(at, back, text)
      BY <1>6, <2>5
    <3>2. \A p \in PageIdxs : Hits[text][p] = 0
      BY <1>7, <3>1, PassedAll
    <3>. QED BY <2>1, <3>2 DEF Answers
  <2>. QED BY <2>4, <2>5
<1>8. CASE ~(k > 0 /\ GivesUp(at)) /\ n > 0
  <2>1. PICK c \in 0 .. n - 1 : c = IF back THEN n - 1 ELSE 0
    BY <1>8
  <2>2. /\ offset' = [at EXCEPT !.match = c, !.wrapped = FALSE]
        /\ ui' = IF at.wrapped THEN "wrapped" ELSE "found"
        /\ selected' = [page |-> at.page, match |-> c]
        /\ resume' = None
        /\ UpdatePages(P \union {sel.page, at.page}, m, selected')
    BY <1>1, <1>3, <1>5, <1>8, <2>1
  <2>3. offset' \in Offsets /\ offset'.match = c /\ offset'.page = at.page
    <3>1. c \in Int
      OBVIOUS
    <3>. QED BY <1>3, <2>2, <3>1 DEF Offsets
  <2>4. selected' \in Selections /\ ui' \in Says
    BY <1>4, <2>2 DEF Selections, Says
  <2>5. LayersUpdated(P, m)
    BY <2>2, UpdatePagesUpdates
  <2>6. Exists(m, offset') /\ SelectedExists(m, selected')
    BY <1>5, <2>1, <2>2, <2>3 DEF Exists, SelectedExists
  <2>7. Searched(m, sel, says, P) /\ Found(m)
    <3>1. selected'.page \in PageIdxs /\ Count(m, selected'.page) > 0
      BY <1>4, <1>5, <1>8, <2>2
    <3>. QED BY <2>2, <2>3, <2>4, <2>5, <2>6, <3>1 DEF Searched, Found
  <2>8. ui' # "notfound"
    BY <2>2
  <2>. QED BY <2>2, <2>7, <2>8 DEF Answers
<1>9. CASE ~(k > 0 /\ GivesUp(at)) /\ ~(n > 0)
  <2>1. /\ offset' = at /\ ui' = says /\ selected' = sel /\ resume' = at.page
        /\ UpdatePages(P, m, sel)
    BY <1>1, <1>3, <1>5, <1>9
  <2>2. LayersUpdated(P, m)
    BY <2>1, UpdatePagesUpdates
  <2>3. m[at.page] = NoMatches
    BY <1>1, <1>3, <1>5, <1>9 DEF Stops
  <2>4. at.page # None
    BY <1>4, PageFacts
  <2>5. Searched(m, sel, says, P) /\ Found(m)
    BY <1>3, <1>4, <2>1, <2>2, <2>3, <2>4 DEF Searched, Found, Exists
  <2>6. ASSUME NEW text \in DOMAIN Hits, Passed(o, back, text),
               \A p \in PageIdxs : m[p] \in {NoMatches, text}
        PROVE  Answers(m, back, text)
    <3>1. Passed(offset', back, text)
      BY <1>6, <2>1, <2>6
    <3>. QED BY <2>1, <2>4, <3>1 DEF Answers
  <2>. QED BY <2>5, <2>6
<1>. QED BY <1>7, <1>8, <1>9

\* An offset the search may start from: at a match only if none is awaited.
Startable(o, m, P) ==
    o.match # None => /\ o.match \in 0 .. Count(matches, o.page) - 1
                      /\ m = matches /\ P = {} /\ resume = None

LEMMA AdvanceSearches ==
    ASSUME NEW o \in Offsets, NEW back \in BOOLEAN, NEW m \in PageMatches,
           NEW sel \in Selections, NEW says \in Says, NEW P,
           layer \in Layers, Startable(o, m, P),
           Advance(o, back, m, sel, says, P)
    PROVE  /\ Searched(m, sel, says, P) /\ Found(m)
           /\ \A text \in DOMAIN Hits :
                 (\A p \in PageIdxs : m[p] \in {NoMatches, text}) => Answers(m, back, text)
<1>0. /\ NumPages \in Nat \ {0} /\ o.page \in PageIdxs /\ o.match \in Int
      /\ o.wrapped \in BOOLEAN
  BY PageFacts DEF Offsets
<1>1. PICK from \in Offsets : /\ from = [o EXCEPT !.left = NumPages]
                              /\ from.left = NumPages /\ from.page = o.page
                              /\ from.match = o.match /\ from.wrapped = o.wrapped
  <2>1. PICK n \in Int : n = NumPages
    BY <1>0
  <2>2. PICK f : f = [o EXCEPT !.left = n]
    OBVIOUS
  <2>3. /\ f \in Offsets /\ f.left = n /\ f.page = o.page
        /\ f.match = o.match /\ f.wrapped = o.wrapped
    BY <2>2 DEF Offsets
  <2>. QED BY <2>1, <2>2, <2>3
<1>2. IF OnSamePage(from, back) THEN SamePage(from, back)
      ELSE NextPageMatch(IF from.match # None THEN Ahead(from, back, 1) ELSE from,
                         back, m, sel, says, P)
  BY <1>1 DEF Advance
<1>3. CASE OnSamePage(from, back)
  <2>1. /\ from.match # None /\ from.match \in 0 .. Count(matches, from.page) - 1
        /\ m = matches /\ P = {} /\ resume = None
    BY <1>1, <1>3 DEF OnSamePage, Startable
  <2>2. PICK next : next = IF back THEN from.match - 1 ELSE from.match + 1
    OBVIOUS
  <2>3. Count(m, from.page) \in Nat
    BY <1>0, <1>1, CountType
  <2>4. next \in 0 .. Count(m, from.page) - 1 /\ next \in Int
    BY <1>0, <1>1, <1>3, <2>1, <2>2, <2>3 DEF OnSamePage
  <2>5. /\ offset' = [from EXCEPT !.match = next, !.wrapped = FALSE]
        /\ selected' = [page |-> from.page, match |-> next]
        /\ ui' = IF from.wrapped THEN "wrapped" ELSE "found"
        /\ resume' = resume
        /\ UpdatePages({selected.page, from.page}, m, selected')
    BY <1>2, <1>3, <2>1, <2>2 DEF SamePage
  <2>6. offset' \in Offsets /\ offset'.match = next /\ offset'.page = from.page
    BY <2>4, <2>5 DEF Offsets
  <2>7. selected' \in Selections /\ ui' \in Says
    BY <1>0, <1>1, <2>4, <2>5 DEF Selections, Says
  <2>8. LayersUpdated(P, m)
    BY <2>1, <2>5, UpdatePagesUpdates
  <2>9. Exists(m, offset') /\ SelectedExists(m, selected')
    BY <2>4, <2>5, <2>6 DEF Exists, SelectedExists
  <2>10. Searched(m, sel, says, P) /\ Found(m)
    <3>1. selected'.page \in PageIdxs /\ Count(m, selected'.page) > 0
      BY <1>0, <1>1, <2>3, <2>4, <2>5
    <3>. QED BY <2>1, <2>5, <2>6, <2>7, <2>8, <2>9, <3>1 DEF Searched, Found
  <2>11. ui' # "notfound"
    BY <2>5
  <2>. QED BY <2>1, <2>5, <2>10, <2>11 DEF Answers
<1>4. CASE ~OnSamePage(from, back) /\ from.match = None
  <2>1. NextPageMatch(from, back, m, sel, says, P)
    BY <1>2, <1>4
  <2>2. ASSUME NEW text \in DOMAIN Hits PROVE Passed(from, back, text)
    BY <1>0, <1>1 DEF Passed
  <2>. QED BY <1>4, <2>1, <2>2, NextPageMatchSearches
<1>5. CASE ~OnSamePage(from, back) /\ from.match # None
  <2>1. PICK a \in Offsets : /\ a = Ahead(from, back, 1)
                             /\ a.match = None /\ a.left = NumPages - 1
    <3>1. PICK k \in Nat : k = 1
      OBVIOUS
    <3>2. /\ Ahead(from, back, k) \in Offsets /\ Ahead(from, back, k).match = None
          /\ Ahead(from, back, k).left = from.left - k
      BY <3>1, AheadType
    <3>. QED BY <1>1, <3>1, <3>2
  <2>2. NextPageMatch(a, back, m, sel, says, P)
    BY <1>2, <1>5, <2>1
  <2>3. ASSUME NEW text \in DOMAIN Hits PROVE Passed(a, back, text)
    BY <1>0, <2>1 DEF Passed
  <2>. QED BY <2>1, <2>2, <2>3, NextPageMatchSearches
<1>. QED BY <1>3, <1>4, <1>5

\* A search that waits stands at a page without matches, and the pages it has
\* passed for its query have none.
Waiting ==
    resume # None =>
        /\ offset.match = None /\ offset.page = resume
        /\ matches[resume] = NoMatches
        /\ ~dirty => query.text \in DOMAIN Hits
        /\ ~dirty /\ ~turned => Passed(offset, query.previous, query.text)

\* A search that has found something selects it.
FoundIsSelected ==
    query.text # Empty /\ ~dirty /\ resume = None /\ ui \in {"found", "wrapped"} =>
        selected.page \in PageIdxs /\ Count(matches, selected.page) > 0
NotFoundIsTrue ==
    query.text # Empty /\ ~dirty /\ resume = None /\ ui = "notfound" /\ ~turned =>
        \A p \in PageIdxs : Hits[query.text][p] = 0

FindInv ==
    /\ FindTypeOK
    /\ timer => dirty
    /\ query.asked \/ (query.text = Empty /\ ~dirty)
    /\ \A p \in waits : matches[p] = NoMatches
    /\ \A p \in PageIdxs : layer[p].rendered \/ layer[p].shows = NoMatches
    /\ SelectionExists
    /\ MatchesOfQuery
    /\ Waiting
    /\ FoundIsSelected
    /\ NotFoundIsTrue

LEMMA FindTypes ==
    FindTypeOK <=>
        /\ query \in [asked : BOOLEAN, text : Texts, previous : BOOLEAN, all : BOOLEAN]
        /\ active \in BOOLEAN /\ dirty \in BOOLEAN /\ timer \in BOOLEAN
        /\ extracting \in BOOLEAN /\ turned \in BOOLEAN
        /\ ui \in Says
        /\ extracted \in 0 .. NumPages
        /\ waits \subseteq PageIdxs
        /\ matches \in PageMatches
        /\ selected \in Selections /\ offset \in Offsets
        /\ resume \in PageIdxs \union {None}
        /\ layer \in Layers
        /\ searches \in 0 .. MaxSearches
<1>1. {active, dirty, timer, extracting, turned} \subseteq BOOLEAN <=>
         /\ active \in BOOLEAN /\ dirty \in BOOLEAN /\ timer \in BOOLEAN
         /\ extracting \in BOOLEAN /\ turned \in BOOLEAN
  OBVIOUS
<1>. QED BY <1>1 DEF FindTypeOK, Says, PageMatches, Selections, Offsets, Layers

LEMMA FindTypesNext ==
    ASSUME query' \in [asked : BOOLEAN, text : Texts, previous : BOOLEAN, all : BOOLEAN],
           active' \in BOOLEAN, dirty' \in BOOLEAN, timer' \in BOOLEAN,
           extracting' \in BOOLEAN, turned' \in BOOLEAN,
           ui' \in Says,
           extracted' \in 0 .. NumPages,
           waits' \subseteq PageIdxs,
           matches' \in PageMatches,
           selected' \in Selections, offset' \in Offsets,
           resume' \in PageIdxs \union {None},
           layer' \in Layers,
           searches' \in 0 .. MaxSearches
    PROVE  FindTypeOK'
<1>1. {active, dirty, timer, extracting, turned}' \subseteq BOOLEAN
  OBVIOUS
<1>. QED BY <1>1 DEF FindTypeOK, Says, PageMatches, Selections, Offsets, Layers

LEMMA FindInvHolds ==
    FindInv => FindTypeOK /\ SelectionExists /\ MatchesOfQuery /\ AnswersAreTrue
<1>. SUFFICES ASSUME FindInv PROVE AnswersAreTrue
  BY DEF FindInv
<1>1. SUFFICES ASSUME query.text # Empty, ~dirty, resume = None
               PROVE  /\ ui \in {"found", "wrapped"} =>
                            selected.page # None /\ Hits[query.text][selected.page] > 0
                      /\ ui = "notfound" /\ ~turned =>
                            \A p \in PageIdxs : Hits[query.text][p] = 0
  BY DEF AnswersAreTrue
<1>2. ASSUME ui \in {"found", "wrapped"}
      PROVE  selected.page # None /\ Hits[query.text][selected.page] > 0
  <2>1. PICK p \in PageIdxs : p = selected.page /\ Count(matches, p) > 0
    BY <1>1, <1>2 DEF FindInv, FoundIsSelected
  <2>2. matches \in PageMatches /\ p # None
    BY FindTypes, PageFacts DEF FindInv
  <2>3. /\ matches[p] \in DOMAIN Hits /\ Count(matches, p) = Hits[matches[p]][p]
        /\ matches[p] \in {NoMatches, query.text}
    BY <1>1, <2>1, <2>2, CountType DEF FindInv, MatchesOfQuery
  <2>4. matches[p] = query.text
    BY <2>3, HitsAssumption
  <2>. QED BY <2>1, <2>2, <2>3, <2>4
<1>3. ASSUME ui = "notfound" /\ ~turned
      PROVE  \A p \in PageIdxs : Hits[query.text][p] = 0
  BY <1>1, <1>3 DEF FindInv, NotFoundIsTrue
<1>. QED BY <1>2, <1>3

LEMMA FindInvInit == FindInit => FindInv
<1>. SUFFICES ASSUME FindInit PROVE FindInv
  OBVIOUS
<1>1. /\ active \in BOOLEAN /\ dirty \in BOOLEAN /\ timer \in BOOLEAN
      /\ extracting \in BOOLEAN /\ turned \in BOOLEAN /\ ~dirty
  BY Zenon DEF FindInit
<1>2. /\ query \in [asked : BOOLEAN, text : Texts, previous : BOOLEAN, all : BOOLEAN]
      /\ query.text = Empty
  BY DEF FindInit, Texts
<1>3. /\ extracted \in 0 .. NumPages /\ searches \in 0 .. MaxSearches
      /\ waits = {} /\ resume = None /\ ui = "idle"
  BY PageFacts, MaxSearchesAssumption DEF FindInit
<1>4. selected \in Selections /\ selected.page = None
  BY PageFacts DEF FindInit, Selections
<1>5. offset \in Offsets /\ offset.match = None
  BY PageFacts DEF FindInit, Offsets
<1>6. matches \in PageMatches /\ \A p \in PageIdxs : matches[p] = NoMatches
  BY DEF FindInit, PageMatches
<1>7. layer \in Layers /\ \A p \in PageIdxs : layer[p].shows = NoMatches
  BY DEF FindInit, Layers
<1>8. FindTypeOK
  BY <1>1, <1>2, <1>3, <1>4, <1>5, <1>6, <1>7, FindTypes DEF Says
<1>9. timer => dirty
  BY DEF FindInit
<1>10. SelectionExists /\ MatchesOfQuery /\ Waiting /\ FoundIsSelected /\ NotFoundIsTrue
  BY <1>2, <1>3, <1>4, <1>5, <1>6, <1>7
     DEF SelectionExists, MatchesOfQuery, Waiting, FoundIsSelected, NotFoundIsTrue
<1>. QED BY <1>1, <1>2, <1>3, <1>6, <1>7, <1>8, <1>9, <1>10 DEF FindInv

LEMMA FreshMatchKeeps ==
    ASSUME FindInv, NEW says \in Says,
           query' \in [asked : BOOLEAN, text : Texts, previous : BOOLEAN, all : BOOLEAN],
           query'.asked, extracting' \in BOOLEAN, extracted' \in 0 .. NumPages,
           searches' \in 0 .. MaxSearches,
           active' = TRUE, dirty' = FALSE, timer' = FALSE, FreshMatch(says)
    PROVE  FindInv'
<1>0. /\ layer \in Layers /\ offset \in Offsets
      /\ \A p \in PageIdxs : layer[p].rendered \/ layer[p].shows = NoMatches
      /\ query'.text \in Texts /\ query'.previous \in BOOLEAN
  BY FindTypes DEF FindInv
<1>1. active' \in BOOLEAN /\ dirty' \in BOOLEAN /\ timer' \in BOOLEAN
  BY Zenon
<1>2. PICK nothing \in Selections : nothing = [page |-> None, match |-> None]
  <2>1. [page |-> None, match |-> None] \in Selections
    BY PageFacts DEF Selections
  <2>. QED BY <2>1
<1>3. /\ matches' = Wiped /\ waits' = PageIdxs /\ turned' = FALSE
      /\ \E now \in PageIdxs :
           LET start == [offset EXCEPT !.page = now, !.match = None]
           IN  IF query'.text = Empty
               THEN /\ ui' = "found"
                    /\ selected' = nothing
                    /\ offset' = start
                    /\ resume' = None
                    /\ UpdatePages(PageIdxs, Wiped, nothing)
               ELSE Advance(start, query'.previous, Wiped, nothing, says, PageIdxs)
  BY <1>2 DEF FreshMatch
<1>4. turned' \in BOOLEAN
  BY <1>3, Zenon
<1>5. PICK m \in PageMatches : m = Wiped /\ \A p \in PageIdxs : m[p] = NoMatches
  <2>1. Wiped \in PageMatches /\ \A p \in PageIdxs : Wiped[p] = NoMatches
    BY DEF Wiped, PageMatches
  <2>. QED BY <2>1
<1>6. PICK now \in PageIdxs :
         LET start == [offset EXCEPT !.page = now, !.match = None]
         IN  IF query'.text = Empty
             THEN /\ ui' = "found"
                  /\ selected' = nothing
                  /\ offset' = start
                  /\ resume' = None
                  /\ UpdatePages(PageIdxs, m, nothing)
             ELSE Advance(start, query'.previous, m, nothing, says, PageIdxs)
  BY <1>3, <1>5
<1>7. PICK start \in Offsets : /\ start = [offset EXCEPT !.page = now, !.match = None]
                               /\ start.match = None
  <2>1. PICK o : o = [offset EXCEPT !.page = now, !.match = None]
    OBVIOUS
  <2>2. o \in Offsets /\ o.match = None
    BY <1>0, <2>1, PageFacts DEF Offsets
  <2>. QED BY <2>1, <2>2
<1>8. CASE query'.text = Empty
  <2>1. /\ ui' = "found" /\ selected' = nothing /\ offset' = start /\ resume' = None
        /\ UpdatePages(PageIdxs, m, nothing)
    BY <1>6, <1>7, <1>8
  <2>2. LayersUpdated(PageIdxs, m)
    BY <1>0, <2>1, UpdatePagesUpdates
  <2>3. /\ layer' \in Layers
        /\ \A p \in PageIdxs : layer'[p].shows = NoMatches
    BY <1>0, <1>5, <2>2 DEF LayersUpdated
  <2>4. FindTypeOK'
    BY <1>1, <1>2, <1>3, <1>4, <1>5, <1>7, <2>1, <2>3, FindTypesNext DEF Says
  <2>5. SelectionExists' /\ MatchesOfQuery' /\ Waiting' /\ FoundIsSelected' /\ NotFoundIsTrue'
    BY <1>2, <1>3, <1>5, <1>7, <1>8, <2>1, <2>3
       DEF SelectionExists, MatchesOfQuery, Waiting, FoundIsSelected, NotFoundIsTrue
  <2>6. \A p \in waits' : matches'[p] = NoMatches
    BY <1>3, <1>5
  <2>. QED BY <2>3, <2>4, <2>5, <2>6 DEF FindInv
<1>9. CASE query'.text # Empty
  <2>1. PICK text \in DOMAIN Hits : text = query'.text
    BY <1>0, <1>9 DEF Texts
  <2>2. PICK back \in BOOLEAN : back = query'.previous
    BY <1>0
  <2>3. Advance(start, back, m, nothing, says, PageIdxs)
    BY <1>6, <1>7, <1>9, <2>2
  <2>4. Startable(start, m, PageIdxs)
    BY <1>7 DEF Startable
  <2>5. Searched(m, nothing, says, PageIdxs) /\ Found(m) /\ Answers(m, back, text)
    BY <1>0, <1>5, <2>3, <2>4, AdvanceSearches
  <2>6. /\ layer' \in Layers
        /\ \A p \in PageIdxs : layer'[p].shows = NoMatches
    BY <1>0, <1>5, <2>5 DEF Searched, LayersUpdated
  <2>7. FindTypeOK'
    BY <1>1, <1>3, <1>4, <1>5, <2>5, <2>6, FindTypesNext DEF Searched
  <2>8. SelectionExists'
    BY <1>2, <1>3, <1>5, <2>5
       DEF Searched, Exists, SelectedExists, SelectionExists
  <2>9. MatchesOfQuery'
    BY <1>3, <1>5, <2>6 DEF MatchesOfQuery
  <2>10. Waiting'
    BY <1>3, <1>5, <2>1, <2>2, <2>5 DEF Waiting, Searched, Answers
  <2>11. FoundIsSelected' /\ NotFoundIsTrue'
    BY <1>3, <1>5, <2>1, <2>5 DEF Found, Answers, FoundIsSelected, NotFoundIsTrue
  <2>12. \A p \in waits' : matches'[p] = NoMatches
    BY <1>3, <1>5
  <2>. QED BY <2>6, <2>7, <2>8, <2>9, <2>10, <2>11, <2>12 DEF FindInv
<1>. QED BY <1>8, <1>9

LEMMA AgainMatchKeeps ==
    ASSUME FindInv, NEW says \in Says,
           query' \in [asked : BOOLEAN, text : Texts, previous : BOOLEAN, all : BOOLEAN],
           query'.asked, extracting' \in BOOLEAN, extracted' \in 0 .. NumPages,
           searches' \in 0 .. MaxSearches, query'.text = query.text, ~dirty,
           active' = TRUE, dirty' = FALSE, timer' = FALSE, AgainMatch(says)
    PROVE  FindInv'
<1>0. /\ layer \in Layers /\ offset \in Offsets /\ matches \in PageMatches
      /\ selected \in Selections /\ resume \in PageIdxs \union {None}
      /\ waits \subseteq PageIdxs /\ turned \in BOOLEAN
      /\ \A p \in PageIdxs : layer[p].rendered \/ layer[p].shows = NoMatches
      /\ \A p \in waits : matches[p] = NoMatches
      /\ SelectionExists /\ MatchesOfQuery /\ Waiting
      /\ query'.text \in Texts /\ query'.previous \in BOOLEAN
  BY FindTypes DEF FindInv
<1>1. active' \in BOOLEAN /\ dirty' \in BOOLEAN /\ timer' \in BOOLEAN
  BY Zenon
<1>2. matches' = matches /\ waits' = waits
  BY DEF AgainMatch
<1>3. CASE query'.text = Empty \/ resume > 0
  <2>1. /\ ui' = IF query'.text = Empty THEN "found" ELSE says
        /\ turned' = (turned \/ (resume > 0 /\ query'.previous # query.previous))
        /\ UNCHANGED <<selected, offset, resume, layer>>
    BY <1>3 DEF AgainMatch
  <2>2. turned' \in BOOLEAN /\ ui' \in Says
    BY <2>1 DEF Says
  <2>3. FindTypeOK'
    BY <1>0, <1>1, <1>2, <2>1, <2>2, FindTypesNext
  <2>4. SelectionExists' /\ MatchesOfQuery'
    BY <1>0, <1>2, <2>1 DEF SelectionExists, MatchesOfQuery, Count
  <2>5. query'.text # Empty => resume' \in PageIdxs /\ resume' > 0 /\ resume' # None
    BY <1>0, <1>3, <2>1 DEF None
  <2>6. Waiting'
    <3>. SUFFICES ASSUME resume # None PROVE Waiting'
      BY <2>1 DEF Waiting
    <3>1. /\ offset.match = None /\ offset.page = resume /\ matches[resume] = NoMatches
          /\ query.text \in DOMAIN Hits
          /\ ~turned => Passed(offset, query.previous, query.text)
      BY <1>0 DEF Waiting
    <3>2. resume > 0
      BY <1>3, <3>1, HitsAssumption
    <3>3. ~turned' => ~turned /\ query'.previous = query.previous
      BY <2>1, <3>2
    <3>. QED BY <1>2, <2>1, <3>1, <3>3 DEF Waiting
  <2>7. FoundIsSelected' /\ NotFoundIsTrue'
    BY <2>5 DEF FoundIsSelected, NotFoundIsTrue
  <2>. QED BY <1>0, <1>2, <2>1, <2>3, <2>4, <2>6, <2>7 DEF FindInv
<1>4. CASE ~(query'.text = Empty \/ resume > 0)
  <2>1. PICK text \in DOMAIN Hits : text = query'.text
    BY <1>0, <1>4 DEF Texts
  <2>2. PICK back \in BOOLEAN : back = query'.previous
    BY <1>0
  <2>3. turned' = FALSE /\ Advance(offset, back, matches, selected, says, {})
    BY <1>4, <2>2 DEF AgainMatch
  <2>4. Startable(offset, matches, {})
    BY <1>0 DEF Startable, SelectionExists, Waiting
  <2>5. \A p \in PageIdxs : matches[p] \in {NoMatches, text}
    BY <1>0, <2>1 DEF MatchesOfQuery
  <2>6. /\ Searched(matches, selected, says, {}) /\ Found(matches)
        /\ Answers(matches, back, text)
    BY <1>0, <2>3, <2>4, <2>5, AdvanceSearches
  <2>7. turned' \in BOOLEAN
    BY <2>3, Zenon
  <2>8. /\ layer' \in Layers
        /\ \A p \in PageIdxs : /\ layer'[p].rendered \/ layer'[p].shows = NoMatches
                               /\ layer'[p].shows \in {NoMatches, text}
    <3>1. \A p \in PageIdxs : layer[p].shows \in {NoMatches, text}
      BY <1>0, <2>1 DEF MatchesOfQuery
    <3>. QED BY <1>0, <2>5, <2>6, <3>1 DEF Searched, LayersUpdated
  <2>9. FindTypeOK'
    BY <1>0, <1>1, <1>2, <2>6, <2>7, <2>8, FindTypesNext DEF Searched
  <2>10. SelectionExists'
    <3>1. SelectedExists(matches, selected)
      BY <1>0 DEF SelectionExists, SelectedExists
    <3>. QED BY <1>2, <2>6, <3>1 DEF Searched, Exists, SelectedExists, SelectionExists
  <2>11. MatchesOfQuery'
    BY <1>2, <2>1, <2>5, <2>8 DEF MatchesOfQuery
  <2>12. Waiting'
    BY <1>2, <2>1, <2>2, <2>6 DEF Waiting, Searched, Answers
  <2>13. FoundIsSelected' /\ NotFoundIsTrue'
    BY <1>2, <2>1, <2>6 DEF Found, Answers, FoundIsSelected, NotFoundIsTrue
  <2>14. \A p \in waits' : matches'[p] = NoMatches
    BY <1>0, <1>2
  <2>. QED BY <2>8, <2>9, <2>10, <2>11, <2>12, <2>13, <2>14 DEF FindInv
<1>. QED BY <1>3, <1>4

LEMMA CalcFindMatchKeeps ==
    ASSUME FindInv, NEW p \in PageIdxs, CalcFindMatch(p)
    PROVE  FindInv'
<1>0. /\ FindTypeOK /\ layer \in Layers /\ offset \in Offsets /\ matches \in PageMatches
      /\ selected \in Selections /\ resume \in PageIdxs \union {None} /\ ui \in Says
      /\ query \in [asked : BOOLEAN, text : Texts, previous : BOOLEAN, all : BOOLEAN]
      /\ query.text \in Texts /\ query.previous \in BOOLEAN
      /\ timer => dirty
      /\ query.asked \/ (query.text = Empty /\ ~dirty)
      /\ \A q \in PageIdxs : layer[q].rendered \/ layer[q].shows = NoMatches
      /\ \A q \in waits : matches[q] = NoMatches
      /\ SelectionExists /\ MatchesOfQuery /\ Waiting
      /\ FoundIsSelected /\ NotFoundIsTrue
  BY FindTypes DEF FindInv
<1>1. /\ p \in waits /\ waits' = waits \ {p} /\ matches[p] = NoMatches
      /\ UNCHANGED <<query, active, dirty, timer, extracted, extracting, turned, searches>>
  BY <1>0 DEF CalcFindMatch, Ready
<1>2. CASE query.text = Empty
  <2>1. UNCHANGED <<matches, selected, offset, resume, ui, layer>>
    BY <1>2 DEF CalcFindMatch
  <2>2. FindTypeOK'
    BY <1>0, <1>1, <2>1, FindTypes, FindTypesNext
  <2>3. SelectionExists' /\ MatchesOfQuery' /\ Waiting'
    BY <1>0, <1>1, <2>1 DEF SelectionExists, MatchesOfQuery, Waiting, Count, Passed, PageBehind
  <2>4. FoundIsSelected' /\ NotFoundIsTrue'
    BY <1>0, <1>1, <2>1 DEF FoundIsSelected, NotFoundIsTrue, Count
  <2>. QED BY <1>0, <1>1, <2>1, <2>2, <2>3, <2>4 DEF FindInv
<1>3. CASE query.text # Empty
  <2>1. PICK text \in DOMAIN Hits : text = query.text
    BY <1>0, <1>3 DEF Texts
  <2>2. PICK back \in BOOLEAN : back = query.previous
    BY <1>0
  <2>3. PICK m \in PageMatches :
           /\ m = [matches EXCEPT ![p] = text]
           /\ \A q \in PageIdxs : m[q] = IF q = p THEN text ELSE matches[q]
    <3>1. PICK n : n = [matches EXCEPT ![p] = text]
      OBVIOUS
    <3>2. n \in PageMatches /\ \A q \in PageIdxs : n[q] = IF q = p THEN text ELSE matches[q]
      BY <1>0, <3>1 DEF PageMatches, Texts
    <3>. QED BY <3>1, <3>2
  <2>4. /\ matches' = m
        /\ IF resume = p
           THEN NextPageMatch(offset, back, m, selected, ui, {p})
           ELSE /\ UNCHANGED <<selected, offset, resume, ui>>
                /\ UpdatePages({p}, m, selected)
    BY <1>3, <2>1, <2>2, <2>3 DEF CalcFindMatch
\* What is selected is on another page: this one has had no matches so far.
  <2>5. /\ Count(matches, p) = 0
        /\ \A q \in PageIdxs : q # p => Count(m, q) = Count(matches, q)
    BY <1>0, <1>1, <2>3, CountType DEF Count
  <2>6. SelectedExists(m, selected) /\ Exists(m, offset)
    <3>1. /\ selected.page # None => selected.match \in 0 .. Count(matches, selected.page) - 1
          /\ offset.match # None => offset.match \in 0 .. Count(matches, offset.page) - 1
      BY <1>0 DEF SelectionExists
    <3>2. /\ selected.page # None => selected.page \in PageIdxs
          /\ offset.page \in PageIdxs
      BY <1>0 DEF Selections, Offsets
    <3>3. /\ selected.page # None => selected.page # p
          /\ offset.match # None => offset.page # p
      BY <2>5, <3>1
    <3>. QED BY <2>5, <3>1, <3>2, <3>3 DEF SelectedExists, Exists
  <2>7. /\ ~dirty => \A q \in PageIdxs : /\ m[q] \in {NoMatches, text}
                                         /\ layer[q].shows \in {NoMatches, text}
        /\ \A q \in waits' : m[q] = NoMatches
    BY <1>0, <1>1, <2>1, <2>3 DEF MatchesOfQuery, FindTypeOK
  <2>8. CASE resume = p
    <3>1. /\ offset.match = None /\ p # None
          /\ ~dirty /\ ~turned => Passed(offset, back, text)
      BY <1>0, <2>1, <2>2, <2>8, PageFacts DEF Waiting
    <3>2. /\ Searched(m, selected, ui, {p}) /\ Found(m)
          /\ Passed(offset, back, text) /\ (\A q \in PageIdxs : m[q] \in {NoMatches, text})
                => Answers(m, back, text)
      BY <1>0, <2>4, <2>8, <3>1, NextPageMatchSearches
    <3>3. ~dirty /\ ~turned => Answers(m, back, text)
      BY <2>7, <3>1, <3>2
    <3>4. /\ layer' \in Layers
          /\ \A q \in PageIdxs : layer'[q].rendered \/ layer'[q].shows = NoMatches
          /\ ~dirty => \A q \in PageIdxs : layer'[q].shows \in {NoMatches, text}
      BY <1>0, <2>7, <3>2 DEF Searched, LayersUpdated
    <3>5. FindTypeOK'
      <4>1. waits' \subseteq PageIdxs
        BY <1>0, <1>1, FindTypes
      <4>. QED BY <1>0, <1>1, <2>4, <3>2, <3>4, <4>1, FindTypes, FindTypesNext DEF Searched
    <3>6. SelectionExists'
      BY <2>4, <2>6, <3>2 DEF Searched, Exists, SelectedExists, SelectionExists
    <3>7. MatchesOfQuery'
      BY <1>1, <2>1, <2>4, <2>7, <3>4 DEF MatchesOfQuery
    <3>8. Waiting'
      BY <1>1, <2>1, <2>2, <2>4, <3>2, <3>3 DEF Waiting, Searched, Answers
    <3>9. FoundIsSelected' /\ NotFoundIsTrue'
      BY <1>1, <2>1, <2>4, <3>2, <3>3 DEF Found, Answers, FoundIsSelected, NotFoundIsTrue
    <3>. QED BY <1>0, <1>1, <2>4, <2>7, <3>4, <3>5, <3>6, <3>7, <3>8, <3>9 DEF FindInv
  <2>9. CASE resume # p
    <3>1. UNCHANGED <<selected, offset, resume, ui>> /\ LayersUpdated({p}, m)
      BY <1>0, <2>4, <2>9, UpdatePagesUpdates
    <3>2. /\ layer' \in Layers
          /\ \A q \in PageIdxs : layer'[q].rendered \/ layer'[q].shows = NoMatches
          /\ ~dirty => \A q \in PageIdxs : layer'[q].shows \in {NoMatches, text}
      BY <1>0, <2>7, <3>1 DEF LayersUpdated
    <3>3. FindTypeOK'
      <4>1. waits' \subseteq PageIdxs
        BY <1>0, <1>1, FindTypes
      <4>. QED BY <1>0, <1>1, <2>4, <3>1, <3>2, <4>1, FindTypes, FindTypesNext
    <3>4. SelectionExists'
      BY <2>4, <2>6, <3>1 DEF Exists, SelectedExists, SelectionExists
    <3>5. MatchesOfQuery'
      BY <1>1, <2>1, <2>4, <2>7, <3>2 DEF MatchesOfQuery
    <3>6. Waiting'
      BY <1>0, <1>1, <2>3, <2>4, <2>9, <3>1 DEF Waiting, Passed, PageBehind
    <3>7. FoundIsSelected' /\ NotFoundIsTrue'
      <4>1. FoundIsSelected'
        <5>. SUFFICES ASSUME query.text # Empty, ~dirty, resume = None,
                             ui \in {"found", "wrapped"}
                      PROVE  selected.page \in PageIdxs /\ Count(m, selected.page) > 0
          BY <1>1, <2>4, <3>1 DEF FoundIsSelected
        <5>1. selected.page \in PageIdxs /\ Count(matches, selected.page) > 0
          BY <1>0 DEF FoundIsSelected
        <5>. QED BY <2>5, <5>1
      <4>2. NotFoundIsTrue'
        BY <1>0, <1>1, <3>1 DEF NotFoundIsTrue
      <4>. QED BY <4>1, <4>2
    <3>. QED BY <1>0, <1>1, <2>4, <2>7, <3>2, <3>3, <3>4, <3>5, <3>6, <3>7 DEF FindInv
  <2>. QED BY <2>8, <2>9
<1>. QED BY <1>2, <1>3

LEMMA RenderedKeeps ==
    ASSUME FindInv, NEW p \in PageIdxs, RenderLayer(p) \/ DropLayer(p)
    PROVE  FindInv'
<1>1. UNCHANGED <<query, active, dirty, timer, ui, extracted, extracting, waits,
                  matches, selected, offset, resume, turned, searches>>
  BY DEF RenderLayer, DropLayer
<1>2. PICK l \in [rendered : BOOLEAN, shows : Texts \union {NoMatches}] :
         /\ layer' = [layer EXCEPT ![p] = l]
         /\ l.rendered \/ l.shows = NoMatches
         /\ l.shows \in {matches[p], NoMatches}
  <2>1. CASE RenderLayer(p)
    <3>1. PICK t \in Texts \union {NoMatches} :
             /\ t = IF active /\ Count(matches, p) > 0 /\ (query.all \/ selected.page = p)
                    THEN matches[p] ELSE NoMatches
             /\ t \in {matches[p], NoMatches}
      BY FindTypes DEF FindInv, PageMatches
    <3>2. UpdatedLayer([rendered |-> TRUE, shows |-> NoMatches], p, matches, selected,
                       query.all, active) = [rendered |-> TRUE, shows |-> t]
      BY <3>1 DEF UpdatedLayer
    <3>3. layer' = [layer EXCEPT ![p] = [rendered |-> TRUE, shows |-> t]]
      BY <2>1, <3>2 DEF RenderLayer
    <3>4. [rendered |-> TRUE, shows |-> t] \in [rendered : BOOLEAN,
                                                shows : Texts \union {NoMatches}]
      OBVIOUS
    <3>. QED BY <3>1, <3>3, <3>4
  <2>2. CASE DropLayer(p)
    <3>1. layer' = [layer EXCEPT ![p] = [rendered |-> FALSE, shows |-> NoMatches]]
      BY <2>2 DEF DropLayer
    <3>2. [rendered |-> FALSE, shows |-> NoMatches] \in [rendered : BOOLEAN,
                                                         shows : Texts \union {NoMatches}]
      OBVIOUS
    <3>. QED BY <3>1, <3>2
  <2>. QED BY <2>1, <2>2
<1>3. layer \in Layers
  BY FindTypes DEF FindInv
<1>4. /\ layer' \in Layers
      /\ \A q \in PageIdxs : layer'[q] = IF q = p THEN l ELSE layer[q]
  BY <1>2, <1>3 DEF Layers
<1>5. FindTypeOK'
  BY <1>1, <1>4, FindTypes, FindTypesNext DEF FindInv
<1>6. MatchesOfQuery'
  BY <1>1, <1>2, <1>4 DEF FindInv, MatchesOfQuery
<1>7. SelectionExists' /\ Waiting' /\ FoundIsSelected' /\ NotFoundIsTrue'
  BY <1>1 DEF FindInv, SelectionExists, Waiting, FoundIsSelected, NotFoundIsTrue, Count,
              Passed, PageBehind
<1>8. \A q \in PageIdxs : layer'[q].rendered \/ layer'[q].shows = NoMatches
  BY <1>2, <1>4 DEF FindInv
<1>. QED BY <1>1, <1>5, <1>6, <1>7, <1>8 DEF FindInv

LEMMA HandleEventKeeps ==
    ASSUME FindInv, NEW type, NEW text \in Texts, NEW previous \in BOOLEAN, NEW all \in BOOLEAN,
           type = "findagain" => text = query.text,
           HandleEvent(type, text, previous, all)
    PROVE  FindInv'
<1>0. /\ dirty \in BOOLEAN /\ searches \in 0 .. MaxSearches /\ turned \in BOOLEAN
      /\ query.asked \in BOOLEAN
      /\ query.asked \/ (query.text = Empty /\ ~dirty)
  BY FindTypes DEF FindInv
<1>1. /\ searches' = searches + 1 /\ searches < MaxSearches
      /\ query' = [asked |-> TRUE, text |-> text, previous |-> previous, all |-> all]
      /\ extracting' = TRUE /\ extracted' = extracted
  BY DEF HandleEvent
<1>2. query' \in [asked : BOOLEAN, text : Texts, previous : BOOLEAN, all : BOOLEAN]
      /\ query'.asked /\ query'.text = text
  BY <1>1
<1>3. extracting' \in BOOLEAN
  BY <1>1, Zenon
<1>4. searches' \in 0 .. MaxSearches /\ extracted' \in 0 .. NumPages
  BY <1>0, <1>1, MaxSearchesAssumption, FindTypes DEF FindInv
<1>5. CASE type = "find"
  <2>1. /\ ui' = "pending" /\ dirty' = TRUE /\ timer' = TRUE
        /\ turned' = (turned \/ (resume # None /\ query.previous))
        /\ UNCHANGED <<active, waits, matches, selected, offset, resume, layer>>
    BY <1>5, Zenon DEF HandleEvent
  <2>2. dirty' \in BOOLEAN /\ timer' \in BOOLEAN /\ dirty'
    BY <2>1, Zenon
  <2>3. turned' \in BOOLEAN /\ ui' \in Says
    BY <2>1 DEF Says
  <2>4. FindTypeOK'
    BY <1>2, <1>3, <1>4, <2>1, <2>2, <2>3, FindTypes, FindTypesNext DEF FindInv
  <2>5. SelectionExists' /\ Waiting'
    BY <2>1, <2>2 DEF FindInv, SelectionExists, Waiting, Count
  <2>6. MatchesOfQuery' /\ FoundIsSelected' /\ NotFoundIsTrue'
    BY <2>2 DEF MatchesOfQuery, FoundIsSelected, NotFoundIsTrue
  <2>. QED BY <1>2, <2>1, <2>2, <2>4, <2>5, <2>6 DEF FindInv
<1>6. CASE type # "find"
  <2>. DEFINE isDirty == dirty \/ ~query.asked \/ type # "findagain"
  <2>1. NextMatch(isDirty, "pending")
    BY <1>6 DEF HandleEvent
  <2>2. /\ active' = TRUE /\ dirty' = FALSE /\ timer' = FALSE
        /\ IF isDirty THEN FreshMatch("pending") ELSE AgainMatch("pending")
    BY <2>1 DEF NextMatch
  <2>3. "pending" \in Says
    BY DEF Says
  <2>4. CASE isDirty
    BY <1>2, <1>3, <1>4, <2>2, <2>3, <2>4, FreshMatchKeeps
  <2>5. CASE ~isDirty
    BY <1>2, <1>3, <1>4, <2>2, <2>3, <2>5, AgainMatchKeeps
  <2>. QED BY <2>4, <2>5
<1>. QED BY <1>5, <1>6

LEMMA FindStep == FindInv /\ [FindNext]_findVars => FindInv'
<1>. SUFFICES ASSUME FindInv, [FindNext]_findVars PROVE FindInv'
  OBVIOUS
<1>0. /\ query.text \in Texts /\ query.all \in BOOLEAN /\ query.previous \in BOOLEAN
      /\ query.asked \in BOOLEAN
  BY FindTypes DEF FindInv
<1>1. ASSUME NEW p \in PageIdxs, CalcFindMatch(p) PROVE FindInv'
  BY <1>1, CalcFindMatchKeeps
<1>2. CASE ExtractPageText
  <2>1. /\ extracted' = extracted + 1 /\ extracted < NumPages
        /\ UNCHANGED <<query, active, dirty, timer, ui, extracting, waits, matches,
                       selected, offset, resume, layer, turned, searches>>
    BY <1>2 DEF ExtractPageText
  <2>2. extracted' \in 0 .. NumPages
    BY <2>1, PageFacts, FindTypes DEF FindInv
  <2>3. FindTypeOK'
    BY <2>1, <2>2, FindTypes, FindTypesNext DEF FindInv
  <2>4. /\ SelectionExists' /\ MatchesOfQuery' /\ Waiting' /\ FoundIsSelected'
        /\ NotFoundIsTrue'
    BY <2>1 DEF FindInv, SelectionExists, MatchesOfQuery, Waiting, FoundIsSelected,
                NotFoundIsTrue, Count, Passed, PageBehind
  <2>. QED BY <2>1, <2>3, <2>4 DEF FindInv
<1>3. CASE FindTimeout
  <2>1. /\ dirty /\ query' = query /\ NextMatch(dirty, ui)
        /\ UNCHANGED <<extracted, extracting, searches>>
    BY <1>3 DEF FindTimeout, FindInv
  <2>2. /\ active' = TRUE /\ dirty' = FALSE /\ timer' = FALSE /\ FreshMatch(ui)
    BY <2>1 DEF NextMatch
  <2>3. /\ query' \in [asked : BOOLEAN, text : Texts, previous : BOOLEAN, all : BOOLEAN]
        /\ query'.asked /\ extracting' \in BOOLEAN /\ extracted' \in 0 .. NumPages
        /\ searches' \in 0 .. MaxSearches /\ ui \in Says
    BY <2>1, FindTypes DEF FindInv
  <2>. QED BY <2>2, <2>3, FreshMatchKeeps
<1>4. CASE FindBarEvent
  <2>1. CASE \E text \in Texts : HandleEvent("find", text, FALSE, query.all)
    <3>1. PICK text \in Texts : HandleEvent("find", text, FALSE, query.all)
      BY <2>1
    <3>. QED BY <1>0, <3>1, HandleEventKeeps
  <2>2. CASE \E back \in BOOLEAN : HandleEvent("findagain", query.text, back, query.all)
    <3>1. PICK back \in BOOLEAN : HandleEvent("findagain", query.text, back, query.all)
      BY <2>2
    <3>. QED BY <1>0, <3>1, HandleEventKeeps
  <2>3. CASE HandleEvent("findhighlightallchange", query.text, FALSE, ~query.all)
    <3>1. PICK all \in BOOLEAN : all = ~query.all
      BY <1>0
    <3>2. HandleEvent("findhighlightallchange", query.text, FALSE, all)
      BY <2>3, <3>1
    <3>. QED BY <1>0, <3>2, HandleEventKeeps
  <2>4. CASE \E text \in Texts : HandleEvent("findcasesensitivitychange", text, FALSE, query.all)
    <3>1. PICK text \in Texts :
             HandleEvent("findcasesensitivitychange", text, FALSE, query.all)
      BY <2>4
    <3>. QED BY <1>0, <3>1, HandleEventKeeps
  <2>. QED BY <1>4, <2>1, <2>2, <2>3, <2>4 DEF FindBarEvent
<1>5. CASE CloseFindBar
  <2>1. /\ active' = FALSE
        /\ UNCHANGED <<query, dirty, timer, ui, extracted, extracting, waits, matches,
                       selected, offset, resume, layer, turned, searches>>
    BY <1>5 DEF CloseFindBar
  <2>2. active' \in BOOLEAN
    BY <2>1, Zenon
  <2>3. FindTypeOK'
    BY <2>1, <2>2, FindTypes, FindTypesNext DEF FindInv
  <2>4. /\ SelectionExists' /\ MatchesOfQuery' /\ Waiting' /\ FoundIsSelected'
        /\ NotFoundIsTrue'
    BY <2>1 DEF FindInv, SelectionExists, MatchesOfQuery, Waiting, FoundIsSelected,
                NotFoundIsTrue, Count, Passed, PageBehind
  <2>. QED BY <2>1, <2>3, <2>4 DEF FindInv
<1>6. ASSUME NEW p \in PageIdxs, RenderLayer(p) \/ DropLayer(p) PROVE FindInv'
  BY <1>6, RenderedKeeps
<1>7. CASE UNCHANGED findVars
  <2>1. UNCHANGED <<query, active, dirty, timer, ui, extracted, extracting, waits, matches,
                    selected, offset, resume, layer, turned, searches>>
    BY <1>7 DEF findVars
  <2>2. FindTypeOK'
    BY <2>1, FindTypes, FindTypesNext DEF FindInv
  <2>3. /\ SelectionExists' /\ MatchesOfQuery' /\ Waiting' /\ FoundIsSelected'
        /\ NotFoundIsTrue'
    BY <2>1 DEF FindInv, SelectionExists, MatchesOfQuery, Waiting, FoundIsSelected,
                NotFoundIsTrue, Count, Passed, PageBehind
  <2>. QED BY <2>1, <2>2, <2>3 DEF FindInv
<1>. QED BY <1>1, <1>2, <1>3, <1>4, <1>5, <1>6, <1>7 DEF FindNext, FindWork

-----------------------------------------------------------------------------
(* The parts together. *)

PartsInv ==
    /\ FindInv /\ PresInv /\ PrintInv /\ LoadInv /\ ViewHistoryInv /\ HistInv

LEMMA PartsInvInit == Init => PartsInv
BY FindInvInit, PresInvInit, PrintInvInit, LoadInvInit, ViewHistoryInvInit, HistInvInit
   DEF Init, PartsInv

\* A step is one of a part, and each of the others takes it for a stutter.
LEMMA PartsStep == PartsInv /\ [Next]_allVars => PartsInv'
<1>. SUFFICES ASSUME PartsInv, [Next]_allVars PROVE PartsInv'
  OBVIOUS
<1>1. /\ [FindNext]_findVars /\ [PresNext]_presVars /\ [PrintNext]_printVars
      /\ [LoadNext]_loadVars /\ [ViewHistoryNext]_viewHistoryVars
      /\ [PDFHistoryNext]_histVars
  BY DEF Next, Find, Presentation, PrintPart, LoadPart, History, Session, allVars
<1>. QED BY <1>1, FindStep, PresStep, PrintStep, LoadStep, ViewHistoryStep, HistStep
     DEF PartsInv

\* The invariant the theorems rest on: every part keeps its own, since no part
\* changes the state of another.
THEOREM PartsInvariant == Spec => []PartsInv
BY PartsInvInit, PartsStep, PTL DEF Spec

\* Every part keeps its types, for all documents, files and histories.
THEOREM PartsTypeCorrect == Spec => []PartsTypeOK
<1>1. PartsInv => PartsTypeOK
  BY FindInvHolds, PresInvHolds, PrintInvHolds, LoadInvHolds, ViewHistoryInvHolds,
     HistInvHolds DEF PartsInv, PartsTypeOK
<1>. QED BY <1>1, PartsInvariant, PTL

\* Whatever is typed, cancelled and extracted in whatever order: the search of
\* PDFFindController stands on an existing match, shows none of an earlier query
\* and says found or not found only if it is so, with any number of pages.
THEOREM SearchIsRightCorrect == Spec => []SearchIsRight
<1>1. PartsInv => SearchIsRight
  BY FindInvHolds DEF PartsInv, SearchIsRight
<1>. QED BY <1>1, PartsInvariant, PTL

\* Whatever is granted late, left early, cancelled or failed: presentation mode
\* hears of its end and gives back the zoom and the hand tool, the canvases are in
\* the page only while a job prints, and what the browser prints is all of them
\* (unless a job was begun over a cancelled one), for documents of any length.
THEOREM ModesAreLeftCorrect == Spec => []ModesAreLeft
<1>1. PartsInv => ModesAreLeft
  BY PresInvHolds, PrintInvHolds DEF PartsInv, ModesAreLeft
<1>. QED BY <1>1, PartsInvariant, PTL

\* However answers, passwords, failures and closings follow each other: the viewer
\* shows the pages of the open document at the position kept for its file, and the
\* prompt asks for a document that waits (unless a file was opened before an
\* earlier one was settled), with any files.
THEOREM DocumentIsOpenCorrect == Spec => []DocumentIsOpen
<1>1. PartsInv => DocumentIsOpen
  BY LoadInvHolds DEF PartsInv, DocumentIsOpen
<1>. QED BY <1>1, PartsInvariant, PTL

\* The view history stays within its limit and keeps the last position of every
\* document (unless a tab writes back an old copy); PDFHistory knows the entry that
\* is shown, and its numbers tell what lies ahead (until a reload).
THEOREM HistoryIsRightCorrect == Spec => []HistoryIsRight
<1>1. PartsInv => HistoryIsRight
  BY ViewHistoryInvHolds, HistInvHolds DEF PartsInv, HistoryIsRight
<1>. QED BY <1>1, PartsInvariant, PTL

-----------------------------------------------------------------------------
(* The runs look at one part at a time.  In the program all of them live in    *)
(* one page: any may take its step at any moment, and several in one event.    *)

\* Each part begins anywhere its own initial states allow, and steps as it likes.
Together ==
    /\ FindInit /\ PresInit /\ PrintInit /\ LoadInit /\ ViewHistoryInit /\ PDFHistoryInit
    /\ [][FindNext]_findVars /\ [][PresNext]_presVars /\ [][PrintNext]_printVars
    /\ [][LoadNext]_loadVars /\ [][ViewHistoryNext]_viewHistoryVars
    /\ [][PDFHistoryNext]_histVars

\* However the steps of PDFFindController, PDFPresentationMode, PDFPrintService, the
\* opening of documents, ViewHistory and PDFHistory interleave, or coincide, every
\* invariant of every part holds: none of them rests on the other parts standing
\* still, as they do in ViewerParts.
THEOREM TogetherCorrect ==
    Together => [](/\ PartsTypeOK /\ SearchIsRight /\ ModesAreLeft
                   /\ DocumentIsOpen /\ HistoryIsRight)
<1>1. FindInit /\ [][FindNext]_findVars => []FindInv
  BY FindInvInit, FindStep, PTL
<1>2. PresInit /\ [][PresNext]_presVars => []PresInv
  BY PresInvInit, PresStep, PTL
<1>3. PrintInit /\ [][PrintNext]_printVars => []PrintInv
  BY PrintInvInit, PrintStep, PTL
<1>4. LoadInit /\ [][LoadNext]_loadVars => []LoadInv
  BY LoadInvInit, LoadStep, PTL
<1>5. ViewHistoryInit /\ [][ViewHistoryNext]_viewHistoryVars => []ViewHistoryInv
  BY ViewHistoryInvInit, ViewHistoryStep, PTL
<1>6. PDFHistoryInit /\ [][PDFHistoryNext]_histVars => []HistInv
  BY HistInvInit, HistStep, PTL
<1>7. FindInv /\ PresInv /\ PrintInv /\ LoadInv /\ ViewHistoryInv /\ HistInv
      => PartsTypeOK /\ SearchIsRight /\ ModesAreLeft /\ DocumentIsOpen /\ HistoryIsRight
  BY FindInvHolds, PresInvHolds, PrintInvHolds, LoadInvHolds, ViewHistoryInvHolds,
     HistInvHolds
     DEF PartsTypeOK, SearchIsRight, ModesAreLeft, DocumentIsOpen, HistoryIsRight
<1>. QED BY <1>1, <1>2, <1>3, <1>4, <1>5, <1>6, <1>7, PTL DEF Together
=============================================================================
