------------------------ MODULE PageRenderingProofs -------------------------
(***************************************************************************)
(* Theorems about PageRendering, for documents and buffers of any size,    *)
(* any number of pages on the screen and any user.                         *)
(***************************************************************************)
EXTENDS PageRendering, SequenceTheorems, FiniteSetTheorems, WellFoundedInduction,
        TLAPS

-----------------------------------------------------------------------------
(* The buffer's operators. *)

LEMMA MinIsIn ==
    ASSUME NEW I \in SUBSET Nat, I # {}
    PROVE  Min(I) \in I
<1>. PICK R : R = {ss \in Nat \X Nat : ss[1] < ss[2]}
  OBVIOUS
<1>1. IsWellFoundedOn(R, Nat)
  BY NatLessThanWellFounded DEF OpToRel
<1>2. PICK i \in I : \A j \in I : <<j, i>> \notin R
  BY <1>1, WFMin
<1>3. \A j \in I : i =< j
  <2> TAKE j \in I
  <2>1. <<j, i>> \in Nat \X Nat /\ <<j, i>>[1] = j /\ <<j, i>>[2] = i
    OBVIOUS
  <2>2. ~(j < i)
    BY <1>2, <2>1
  <2>. QED BY <2>2
<1>. QED BY <1>3 DEF Min

LEMMA RemoveAtElements ==
    ASSUME NEW S, NEW b \in Seq(S), NEW k \in 1 .. Len(b)
    PROVE  /\ RemoveAt(b, k) \in Seq(S)
           /\ \A i \in 1 .. Len(b) : i # k => b[i] \in ToSet(RemoveAt(b, k))
<1>. DEFINE n == Len(b)
<1>0. n \in Nat /\ k \in Int /\ 1 <= k /\ k <= n
  OBVIOUS
<1>1. PICK s : s = SubSeq(b, 1, k - 1)
  OBVIOUS
<1>2. /\ s \in Seq(S) /\ Len(s) = k - 1
      /\ \A i \in 1 .. k - 1 : s[i] = b[i]
  <2>1. \A i \in 1 .. k - 1 : b[i] \in S
    BY <1>0
  <2>2. /\ s \in Seq(S)
        /\ Len(s) = IF 1 <= k - 1 THEN (k - 1) - 1 + 1 ELSE 0
        /\ \A i \in 1 .. (k - 1) - 1 + 1 : s[i] = b[1 + i - 1]
    BY <1>0, <1>1, <2>1, SubSeqProperties
  <2>. QED BY <1>0, <2>2
<1>3. PICK e : e = SubSeq(b, k + 1, n)
  OBVIOUS
<1>4. /\ e \in Seq(S) /\ Len(e) = n - k
      /\ \A i \in 1 .. n - k : e[i] = b[k + i]
  <2>1. \A i \in k + 1 .. n : b[i] \in S
    BY <1>0
  <2>2. /\ e \in Seq(S)
        /\ Len(e) = IF k + 1 <= n THEN n - (k + 1) + 1 ELSE 0
        /\ \A i \in 1 .. n - (k + 1) + 1 : e[i] = b[(k + 1) + i - 1]
    BY <1>0, <1>3, <2>1, SubSeqProperties
  <2>. QED BY <1>0, <2>2
<1>5. PICK r : r = s \o e
  OBVIOUS
<1>6. /\ r \in Seq(S) /\ Len(r) = n - 1
      /\ \A i \in 1 .. n - 1 : r[i] = IF i <= k - 1 THEN s[i] ELSE e[i - (k - 1)]
  <2>1. /\ r \in Seq(S) /\ Len(r) = Len(s) + Len(e)
        /\ \A i \in 1 .. Len(s) + Len(e) :
              r[i] = IF i <= Len(s) THEN s[i] ELSE e[i - Len(s)]
    BY <1>2, <1>4, <1>5, ConcatProperties
  <2>. QED BY <1>0, <1>2, <1>4, <2>1
<1>7. ASSUME NEW i \in 1 .. n, i # k
      PROVE  \E j \in 1 .. Len(r) : r[j] = b[i]
  <2>1. CASE i < k
    BY <1>0, <1>2, <1>6, <2>1
  <2>2. CASE i > k
    <3>1. i - 1 \in 1 .. n - 1 /\ ~(i - 1 <= k - 1) /\ (i - 1) - (k - 1) = i - k
      BY <1>0, <2>2
    <3>2. i - k \in 1 .. n - k /\ k + (i - k) = i
      BY <1>0, <2>2
    <3>3. r[i - 1] = e[i - k]
      BY <1>6, <3>1
    <3>. QED BY <1>4, <1>6, <3>1, <3>2, <3>3
  <2>. QED BY <1>0, <1>7, <2>1, <2>2
<1>8. RemoveAt(b, k) = r
  BY <1>1, <1>3, <1>5 DEF RemoveAt
<1>. QED BY <1>6, <1>7, <1>8 DEF ToSet

\* A page pushed is added, and the others stay.
LEMMA PushedPages ==
    ASSUME NEW b \in Seq(Pages), NEW p \in Pages
    PROVE  /\ Pushed(b, p) \in Seq(Pages)
           /\ ToSet(b) \union {p} \subseteq ToSet(Pushed(b, p))
<1>1. PICK r : r = RemoveFirst(b, p)
  OBVIOUS
<1>2. r \in Seq(Pages) /\ ToSet(b) \ {p} \subseteq ToSet(r)
  <2>. DEFINE I == {i \in 1 .. Len(b) : b[i] = p}
  <2>1. CASE I # {}
    <3>0. I \in SUBSET Nat
      OBVIOUS
    <3>1. Min(I) \in I
      BY <2>1, <3>0, MinIsIn
    <3>2. r = RemoveAt(b, Min(I))
      BY <1>1, <2>1 DEF RemoveFirst, SelectInSeq
    <3>3. PICK k \in 1 .. Len(b) : r = RemoveAt(b, k) /\ b[k] = p
      BY <3>1, <3>2
    <3>4. /\ RemoveAt(b, k) \in Seq(Pages)
          /\ \A i \in 1 .. Len(b) : i # k => b[i] \in ToSet(RemoveAt(b, k))
      BY RemoveAtElements
    <3>5. \A q \in ToSet(b) : \E i \in 1 .. Len(b) : b[i] = q
      BY DEF ToSet
    <3>. QED BY <3>3, <3>4, <3>5
  <2>2. CASE I = {}
    BY <1>1, <2>2 DEF RemoveFirst
  <2>. QED BY <2>1, <2>2
<1>3. Pushed(b, p) = Append(r, p)
  BY <1>1 DEF Pushed
<1>4. /\ Append(r, p) \in Seq(Pages) /\ Len(Append(r, p)) = Len(r) + 1
      /\ Append(r, p)[Len(r) + 1] = p
      /\ \A i \in 1 .. Len(r) : Append(r, p)[i] = r[i]
  BY <1>2, AppendProperties
<1>. QED BY <1>2, <1>3, <1>4 DEF ToSet

LEMMA KeptPages ==
    ASSUME NEW b \in Seq(Pages), NEW n \in Nat
    PROVE  Kept(b, n) \in Seq(Pages) /\ Len(Kept(b, n)) <= n
BY DEF Kept

LEMMA ResizedType ==
    ASSUME NEW S, NEW shown \in Seq(S)
    PROVE  Resized(shown) \in Nat
<1>. PICK m : m = 2 * Len(shown) + 1
  OBVIOUS
<1>1. m \in Nat /\ CacheSize \in Nat
  BY CacheSizeAssumption
<1>2. \E x \in {CacheSize, m} : \A y \in {CacheSize, m} : x >= y
  BY <1>1
<1>3. Max({CacheSize, m}) \in {CacheSize, m}
  BY <1>2 DEF Max
<1>. QED BY <1>1, <1>3 DEF Resized


-----------------------------------------------------------------------------
(* What the steps do to the views, the buffer and the timer. *)

States == {"initial", "running", "paused", "finished"}

LEMMA ResetStates ==
    ASSUME NEW st \in [Views -> States], NEW S
    PROVE  /\ Reset(st, S) \in [Views -> States]
           /\ \A v \in Views : Reset(st, S)[v] # "initial"
                                  => st[v] # "initial" /\ v \notin S
BY DEF Reset, States

ViewType ==
    /\ setup \in Setups
    /\ state \in [Views -> States]
    /\ buffer \in Seq(Pages)
    /\ size \in Nat
    /\ visible \in Screens
    /\ printing \in BOOLEAN
    /\ idle \in BOOLEAN

Inv == ViewType /\ CanvasesBuffered /\ NoCleanupWhilePrinting

LEMMA ScreensAreSequences ==
    ASSUME NEW n \in Pages, NEW k \in Pages, NEW s \in ScreensOf[n][k]
    PROVE  s \in Seq(Pages)
<1>1. s \in UNION {[1 .. m -> 1 .. n] : m \in 1 .. k}
  BY DEF ScreensOf
<1>2. PICK m \in 1 .. k : s \in [1 .. m -> 1 .. n]
  BY <1>1
<1>3. m \in Nat /\ \A i \in 1 .. n : i \in Pages
  BY MaxPagesAssumption DEF Pages
<1>4. s \in [1 .. m -> Pages]
  BY <1>2, <1>3
<1>. QED BY <1>3, <1>4, SeqDef

LEMMA SetupType ==
    ASSUME setup \in Setups
    PROVE  setup.pages \in Pages /\ setup.screen \in Pages
BY SetupsAssumption DEF Setup

\* The idle timer is not set while the document is printed.
LEMMA QueueTimer ==
    ASSUME NEW st, NEW shown, NEW goesDown, NEW thumbs, NEW print \in BOOLEAN, NEW q,
           NEW w, RenderHighestPriority(st, shown, goesDown, thumbs, print, q, w)
    PROVE  idle' \in BOOLEAN /\ (print => ~idle')
BY DEF RenderHighestPriority

\* Growing or shrinking, the buffer destroys the pages it drops.
LEMMA ResizeKeeps ==
    ASSUME Inv, NEW st \in [Views -> States], NEW n \in Nat,
           \A v \in Views : st[v] # "initial" => state[v] # "initial"
    PROVE  /\ Kept(buffer, n) \in Seq(Pages) /\ Len(Kept(buffer, n)) <= n
           /\ Reset(st, Evicted(buffer, n)) \in [Views -> States]
           /\ \A v \in Views : Reset(st, Evicted(buffer, n))[v] # "initial"
                                  => st[v] # "initial"
           /\ \A p \in Pages : Reset(st, Evicted(buffer, n))[p] # "initial"
                                  => p \in ToSet(Kept(buffer, n))
<1>. PICK r : r = Reset(st, Evicted(buffer, n))
  OBVIOUS
<1>1. Kept(buffer, n) \in Seq(Pages) /\ Len(Kept(buffer, n)) <= n
  BY KeptPages DEF Inv, ViewType
<1>2. /\ r \in [Views -> States]
      /\ \A v \in Views : r[v] # "initial" => st[v] # "initial" /\ v \notin Evicted(buffer, n)
  BY ResetStates
<1>3. ASSUME NEW p \in Pages, r[p] # "initial"
      PROVE  p \in ToSet(Kept(buffer, n))
  <2>1. p \in Views
    BY MaxPagesAssumption DEF Pages, Views
  <2>2. p \in ToSet(buffer)
    BY <1>2, <1>3, <2>1 DEF Inv, CanvasesBuffered
  <2>. QED BY <1>2, <1>3, <2>1, <2>2 DEF Evicted
<1>. QED BY <1>1, <1>2, <1>3

LEMMA UpdateKeeps ==
    ASSUME Inv, NEW st \in [Views -> States], NEW shown \in Screens, NEW d,
           \A v \in Views : st[v] # "initial" => state[v] # "initial",
           Update(st, shown, d)
    PROVE  /\ state' \in [Views -> States] /\ buffer' \in Seq(Pages) /\ size' \in Nat
           /\ idle' \in BOOLEAN /\ (printing => ~idle')
           /\ \A p \in Pages : state'[p] # "initial" => p \in ToSet(buffer')
           /\ Len(buffer') <= size'
<1>. PICK n : n = Resized(shown)
  OBVIOUS
<1>1. n \in Nat
  BY SetupType, ScreensAreSequences, ResizedType DEF Inv, ViewType, Screens
<1>2. /\ buffer' = Kept(buffer, n) /\ size' = n
      /\ state' = Reset(st, Evicted(buffer, n))
  BY DEF Update
<1>3. idle' \in BOOLEAN /\ (printing => ~idle')
  BY QueueTimer DEF Update, Inv, ViewType
<1>. QED BY <1>1, <1>2, <1>3, ResizeKeeps

\* The page that is pushed to the buffer may destroy another, or itself.
LEMMA DrawPageKeeps ==
    ASSUME Inv, NEW p \in Pages, DrawPage(p)
    PROVE  /\ state' \in [Views -> States] /\ buffer' \in Seq(Pages)
           /\ \A q \in Pages : state'[q] # "initial" => q \in ToSet(buffer')
           /\ Len(buffer') <= size
<1>. PICK b : b = Pushed(buffer, p)
  OBVIOUS
<1>. PICK drawn : drawn = [state EXCEPT ![p] = "running"]
  OBVIOUS
<1>1. /\ buffer' = Kept(b, size) /\ state' = Reset(drawn, Evicted(b, size))
      /\ state \in [Views -> States] /\ buffer \in Seq(Pages) /\ size \in Nat
  BY DEF DrawPage, Inv, ViewType
<1>2. b \in Seq(Pages) /\ ToSet(buffer) \union {p} \subseteq ToSet(b)
  BY <1>1, PushedPages
<1>3. buffer' \in Seq(Pages) /\ Len(buffer') <= size
  BY <1>1, <1>2, KeptPages
<1>4. drawn \in [Views -> States] /\ \A v \in Views : v # p => drawn[v] = state[v]
  BY <1>1 DEF States
<1>5. /\ state' \in [Views -> States]
      /\ \A v \in Views : state'[v] # "initial"
                             => drawn[v] # "initial" /\ v \notin Evicted(b, size)
  BY <1>1, <1>4, ResetStates
<1>6. ASSUME NEW q \in Pages, state'[q] # "initial"
      PROVE  q \in ToSet(buffer')
  <2>1. q \in Views
    BY MaxPagesAssumption DEF Pages, Views
  <2>2. q = p \/ q \in ToSet(buffer)
    BY <1>4, <1>5, <1>6, <2>1 DEF Inv, CanvasesBuffered
  <2>. QED BY <1>1, <1>2, <1>5, <1>6, <2>1, <2>2 DEF Evicted
<1>. QED BY <1>3, <1>5, <1>6

\* Steps that only take drawings away from pages, or go on with pages that have
\* one.
LEMMA StateFrame ==
    ASSUME Inv, UNCHANGED <<setup, buffer, size>>, visible' \in Screens,
           state' \in [Views -> States], printing' \in BOOLEAN, idle' \in BOOLEAN,
           printing' => ~idle',
           \A p \in Pages : state'[p] # "initial" => state[p] # "initial"
    PROVE  Inv'
BY DEF Inv, ViewType, CanvasesBuffered, NoCleanupWhilePrinting, Screens

LEMMA NextInv == Inv /\ [Next]_vars => Inv'
<1> SUFFICES ASSUME Inv, [Next]_vars
             PROVE  Inv'
  OBVIOUS
<1>0. /\ setup \in Setups /\ state \in [Views -> States] /\ buffer \in Seq(Pages)
      /\ size \in Nat /\ visible \in Screens /\ printing \in BOOLEAN
      /\ idle \in BOOLEAN /\ (printing => ~idle)
      /\ \A p \in Pages : state[p] # "initial" => p \in ToSet(buffer)
      /\ Len(buffer) <= size
  BY DEF Inv, ViewType, CanvasesBuffered, NoCleanupWhilePrinting
<1>p. Pages \subseteq Views /\ Pages \intersect Thumbs = {}
  BY MaxPagesAssumption DEF Pages, Views, Thumbs
<1>1. ASSUME NEW v \in Views, RenderView(v)
      PROVE  Inv'
  <2>0. UNCHANGED <<setup, size, visible, printing, idle>>
    BY <1>1 DEF RenderView
  <2>1. CASE v \in Pages /\ state[v] = "initial"
    <3>1. DrawPage(v)
      BY <1>1, <2>1 DEF RenderView
    <3>. QED
      BY <1>0, <2>0, <2>1, <3>1, DrawPageKeeps
      DEF Inv, ViewType, CanvasesBuffered, NoCleanupWhilePrinting, Screens
  <2>2. CASE ~(v \in Pages /\ state[v] = "initial")
    <3>1. /\ buffer' = buffer
          /\ state' = state \/ state' = [state EXCEPT ![v] = "running"]
      BY <1>0, <1>1, <2>2 DEF RenderView, DrawThumb, States
    <3>2. /\ state' \in [Views -> States]
          /\ \A p \in Pages : state'[p] # "initial" => state[p] # "initial"
      BY <1>0, <1>p, <2>2, <3>1 DEF States
    <3>. QED BY <1>0, <2>0, <3>1, <3>2, StateFrame
  <2>. QED BY <2>1, <2>2
<1>2. ASSUME NEW v \in Views, Finish(v)
      PROVE  Inv'
  <2>. PICK done : done = [state EXCEPT ![v] = "finished"]
    OBVIOUS
  <2>0. UNCHANGED <<setup, buffer, size, visible, printing, idle>>
    BY <1>2 DEF Finish
  <2>1. state[v] = "running" /\ (state' = done \/ state' = WithImages(done, {v}))
    BY <1>2 DEF Finish
  <2>2. /\ done \in [Views -> States]
        /\ \A p \in Pages : done[p] # "initial" => state[p] # "initial"
    BY <1>0, <1>p, <2>1 DEF States
  <2>3. /\ WithImages(done, {v}) \in [Views -> States]
        /\ \A p \in Pages : WithImages(done, {v})[p] = done[p]
    BY <1>p, <2>2 DEF WithImages, States
  <2>. QED BY <1>0, <2>0, <2>1, <2>2, <2>3, StateFrame
<1>3. ASSUME NEW v \in Views, Pause(v)
      PROVE  Inv'
  <2>0. UNCHANGED <<setup, buffer, size, visible, printing, idle>>
    BY <1>3 DEF Pause
  <2>1. state[v] = "running" /\ state' = [state EXCEPT ![v] = "paused"]
    BY <1>3 DEF Pause
  <2>2. /\ state' \in [Views -> States]
        /\ \A p \in Pages : state'[p] # "initial" => state[p] # "initial"
    BY <1>0, <1>p, <2>1 DEF States
  <2>. QED BY <1>0, <2>0, <2>2, StateFrame
<1>4. CASE ContinueRendering
  <2>1. idle' \in BOOLEAN /\ (printing => ~idle')
    BY <1>0, <1>4, QueueTimer DEF ContinueRendering
  <2>. QED BY <1>0, <1>4, <2>1, StateFrame DEF ContinueRendering
<1>5. CASE Rejected \/ Scroll \/ \E p \in Pages : Answer(p)
  <2>1. /\ UNCHANGED <<setup, state, buffer, size, printing, idle>>
        /\ visible' \in Screens
    BY <1>0, <1>5 DEF Rejected, Scroll, Answer
  <2>. QED BY <1>0, <2>1, StateFrame
<1>6. CASE ScrollUpdate
  <2>1. \E d : Update(state, visible, d)
    BY <1>6 DEF ScrollUpdate
  <2>2. UNCHANGED <<setup, visible, printing>>
    BY <1>6 DEF ScrollUpdate
  <2>. QED BY <1>0, <2>1, <2>2, UpdateKeeps
           DEF Inv, ViewType, CanvasesBuffered, NoCleanupWhilePrinting, Screens
<1>7. CASE Zoom
  <2>. PICK cssOnly \in BOOLEAN : Update(Scaled(state, cssOnly), visible', down)
    BY <1>7 DEF Zoom
  <2>1. UNCHANGED <<setup, printing>> /\ visible' \in Screens
    BY <1>7 DEF Zoom
  <2>. PICK st : st = Scaled(state, cssOnly)
    OBVIOUS
  <2>2. /\ st \in [Views -> States]
        /\ \A v \in Views : st[v] # "initial" => state[v] # "initial"
    BY <1>0, ResetStates DEF Scaled
  <2>3. /\ state' \in [Views -> States] /\ buffer' \in Seq(Pages) /\ size' \in Nat
        /\ idle' \in BOOLEAN /\ (printing => ~idle')
        /\ \A p \in Pages : state'[p] # "initial" => p \in ToSet(buffer')
        /\ Len(buffer') <= size'
    BY <2>1, <2>2, UpdateKeeps
  <2>. QED BY <1>0, <2>1, <2>3
           DEF Inv, ViewType, CanvasesBuffered, NoCleanupWhilePrinting, Screens
<1>8. CASE Rotate
  <2>1. PICK cssOnly \in BOOLEAN, preset \in BOOLEAN, shown \in Screens :
           LET room == IF preset THEN Resized(shown) ELSE size
               turned == Reset(Scaled(state, cssOnly), Evicted(buffer, room))
           IN  /\ size' = room /\ buffer' = Kept(buffer, room)
               /\ state' = RotatedThumbs(turned)
               /\ \E q, w : RenderHighestPriority(RotatedThumbs(turned), shown, down,
                                                 sidebar, printing, q, w)
    BY <1>8 DEF Rotate, Turn
  <2>2. UNCHANGED <<setup, printing>> /\ visible' \in Screens
    BY <1>8 DEF Rotate, Turn
  <2>3. PICK room : room = IF preset THEN Resized(shown) ELSE size
    OBVIOUS
  <2>4. PICK turned : turned = Reset(Scaled(state, cssOnly), Evicted(buffer, room))
    OBVIOUS
  <2>5. room \in Nat
    BY <1>0, <2>3, SetupType, ScreensAreSequences, ResizedType DEF Screens
  <2>6. /\ Scaled(state, cssOnly) \in [Views -> States]
        /\ \A v \in Views : Scaled(state, cssOnly)[v] # "initial" => state[v] # "initial"
    BY <1>0, ResetStates DEF Scaled
  <2>7. /\ Kept(buffer, room) \in Seq(Pages) /\ Len(Kept(buffer, room)) <= room
        /\ turned \in [Views -> States]
        /\ \A p \in Pages : turned[p] # "initial" => p \in ToSet(Kept(buffer, room))
    BY <2>4, <2>5, <2>6, ResizeKeeps
  <2>8. /\ state' = Reset(turned, Thumbs) /\ size' = room /\ buffer' = Kept(buffer, room)
        /\ idle' \in BOOLEAN /\ (printing => ~idle')
    BY <1>0, <2>1, <2>3, <2>4, QueueTimer DEF RotatedThumbs
  <2>9. /\ state' \in [Views -> States]
        /\ \A v \in Views : state'[v] # "initial" => turned[v] # "initial"
    BY <2>7, <2>8, ResetStates
  <2>. QED BY <1>0, <1>p, <2>2, <2>5, <2>7, <2>8, <2>9
           DEF Inv, ViewType, CanvasesBuffered, NoCleanupWhilePrinting, Screens
<1>9. CASE ToggleSidebar
  <2>1. /\ UNCHANGED <<setup, buffer, size, printing, visible>>
        /\ state' = state \/ state' = Refreshed(state)
    BY <1>9 DEF ToggleSidebar
  <2>2. idle' \in BOOLEAN /\ (printing => ~idle')
    BY <1>0, <1>9, QueueTimer DEF ToggleSidebar
  <2>3. /\ Refreshed(state) \in [Views -> States]
        /\ \A p \in Pages : Refreshed(state)[p] = state[p]
    BY <1>0, <1>p DEF Refreshed, WithImages, States
  <2>. QED BY <1>0, <2>1, <2>2, <2>3, StateFrame
<1>10. CASE BeforePrint \/ AfterPrint
  <2>1. UNCHANGED <<setup, state, buffer, size, visible>> /\ printing' \in BOOLEAN
    BY <1>10 DEF BeforePrint, AfterPrint
  <2>2. idle' \in BOOLEAN /\ (printing' => ~idle')
    BY <1>10, QueueTimer DEF BeforePrint, AfterPrint
  <2>. QED BY <1>0, <2>1, <2>2, StateFrame
<1>11. CASE Cleanup
  <2>1. /\ UNCHANGED <<setup, buffer, size, printing, visible>> /\ idle' = FALSE
        /\ \E S : state' = Reset(state, S)
    BY <1>11 DEF Cleanup
  <2>2. /\ state' \in [Views -> States]
        /\ \A v \in Views : state'[v] # "initial" => state[v] # "initial"
    BY <1>0, <2>1, ResetStates
  <2>. QED BY <1>0, <1>p, <2>1, <2>2, StateFrame
<1>12. CASE UNCHANGED vars
  <2>1. UNCHANGED <<setup, state, buffer, size, visible, printing, idle>>
    BY <1>12 DEF vars
  <2>. QED BY <1>0, <2>1, StateFrame
<1>. QED BY <1>1, <1>2, <1>3, <1>4, <1>5, <1>6, <1>7, <1>8, <1>9, <1>10, <1>11, <1>12
         DEF Next, Work, User

LEMMA InitInv == Init => Inv
<1> SUFFICES ASSUME Init
             PROVE  Inv
  OBVIOUS
<1>1. Pages \subseteq Views
  BY MaxPagesAssumption DEF Pages, Views
<1>2. ViewType
  <2>1. visible \in Screens
    BY DEF Init
  <2>2. state \in [Views -> States]
    BY DEF Init, States
  <2>3. buffer \in Seq(Pages) /\ size \in Nat
    BY CacheSizeAssumption DEF Init
  <2>. QED BY <2>1, <2>2, <2>3 DEF Init, ViewType
<1>3. CanvasesBuffered
  BY <1>1, CacheSizeAssumption DEF Init, CanvasesBuffered
<1>. QED BY <1>2, <1>3 DEF Init, Inv, NoCleanupWhilePrinting

-----------------------------------------------------------------------------
(* Theorems *)

\* Whatever is drawn, cancelled, zoomed, rotated or cleaned up in between, a
\* page that has a canvas is in the buffer, and the buffer is within its size.
THEOREM CanvasesBufferedCorrect == Spec => []CanvasesBuffered
<1>1. Inv => CanvasesBuffered
  BY DEF Inv
<1>. QED BY <1>1, InitInv, NextInv, PTL DEF Spec

\* However the timer was set before, no cleanup runs into printing.
THEOREM NoCleanupWhilePrintingCorrect == Spec => []NoCleanupWhilePrinting
<1>1. Inv => NoCleanupWhilePrinting
  BY DEF Inv
<1>. QED BY <1>1, InitInv, NextInv, PTL DEF Spec

-----------------------------------------------------------------------------
(***************************************************************************)
(* Rendering never stalls.  A callback that is to draw a view finds it     *)
(* unfinished: views are only finished when no callback is left, and a     *)
(* view whose page is not there was never begun.  So every callback either *)
(* draws, or asks the queue, and the queue either finds nothing to draw,   *)
(* or leaves a callback, or wishes for the very view that it found.  What  *)
(* it would find stays the same as long as nobody asks it.                 *)
(***************************************************************************)
Job == Views \union {NextJob, RejectedJob}

\* Callbacks draw only unfinished views whose pages are there.
Drawable(q, st) == \A i \in 1 .. Len(q) :
    q[i] \in Views => st[q[i]] # "finished" /\ PageOf(q[i]) \in fetched

WakeType ==
    /\ setup \in Setups
    /\ state \in [Views -> States]
    /\ visible \in Screens
    /\ highest \in Views \union {NoView}
    /\ jobs \in Seq(Job)
    /\ sidebar \in BOOLEAN
    /\ scrolled \in BOOLEAN

Begun  == \A v \in Views : state[v] # "initial" => PageOf(v) \in fetched
Wished == \A v \in want : v \in Views /\ PageOf(v) \notin fetched

WakeInv == WakeType /\ Begun /\ Wished /\ Drawable(jobs, state) /\ NoLostWakeup

LEMMA ViewFacts ==
    /\ NoView \notin Views /\ NextJob \notin Views /\ RejectedJob \notin Views
    /\ \A p \in Pages : /\ p \in Views /\ PageOf(p) = p
                        /\ Thumb(p) \in Thumbs /\ PageOf(Thumb(p)) = p
    /\ \A v \in Thumbs : v \in Views /\ v \notin Pages /\ PageOf(v) \in Pages
    /\ \A v \in Views : v \in Pages \/ v \in Thumbs
BY MaxPagesAssumption
DEF NoView, NextJob, RejectedJob, Views, Pages, Thumbs, Thumb, PageOf

LEMMA HighestPriority ==
    ASSUME NEW st, NEW views \in SUBSET Views, NEW shown \in Seq(views), NEW d
    PROVE  LET v == GetHighestPriority(st, shown, views, d)
           IN  \/ v = NoView /\ \A i \in 1 .. Len(shown) : st[shown[i]] = "finished"
               \/ v \in views /\ st[v] # "finished"
<1>. DEFINE v == GetHighestPriority(st, shown, views, d)
<1>1. PICK next : next = IF d THEN Max(ToSet(shown)) + 1 ELSE Min(ToSet(shown)) - 1
  OBVIOUS
<1>2. PICK order : order = Append(shown, next)
  OBVIOUS
<1>3. /\ DOMAIN order = 1 .. Len(shown) + 1 /\ Len(shown) \in Nat
      /\ \A i \in 1 .. Len(shown) : order[i] = shown[i]
  BY <1>2
<1>4. PICK I : I = {i \in DOMAIN order : order[i] \in views /\ st[order[i]] # "finished"}
  OBVIOUS
<1>5. v = IF I # {} THEN order[Min(I)] ELSE NoView
  BY <1>1, <1>2, <1>4 DEF GetHighestPriority, Unfinished
<1>6. CASE I # {}
  <2>1. I \in SUBSET Nat
    BY <1>3, <1>4
  <2>2. Min(I) \in I
    BY <1>6, <2>1, MinIsIn
  <2>. QED BY <1>4, <1>5, <1>6, <2>2
<1>7. CASE I = {}
  <2>1. \A i \in 1 .. Len(shown) : i \in DOMAIN order /\ order[i] \in views
    BY <1>3
  <2>. QED BY <1>3, <1>4, <1>5, <1>7, <2>1
<1>. QED BY <1>6, <1>7

\* The queue finds everything drawn, or something to draw.
LEMMA QueueDecides ==
    ASSUME setup \in Setups, NEW st \in [Views -> States], NEW shown \in Screens,
           NEW d, NEW thumbs \in BOOLEAN
    PROVE  LET v == ToDraw(st, shown, d, thumbs)
           IN  \/ /\ v = NoView
                  /\ \A p \in ToSet(shown) : st[p] = "finished"
                  /\ thumbs => \A p \in DocPages : st[Thumb(p)] = "finished"
               \/ v \in Views /\ st[v] # "finished" /\ PageOf(v) \in DocPages
<1>. DEFINE page == PageToDraw(st, shown, d)
            thumb == ThumbToDraw(st)
<1>0. setup.pages \in Pages /\ setup.screen \in Pages /\ DocPages \subseteq Views
      /\ DocPages \subseteq Pages
  BY SetupType, MaxPagesAssumption DEF DocPages, Pages, Views
<1>1. shown \in Seq(DocPages)
  <2>1. shown \in UNION {[1 .. m -> 1 .. setup.pages] : m \in 1 .. setup.screen}
    BY <1>0 DEF Screens, ScreensOf
  <2>2. PICK m \in 1 .. setup.screen : shown \in [1 .. m -> DocPages]
    BY <2>1 DEF DocPages
  <2>3. m \in Nat
    OBVIOUS
  <2>. QED BY <2>2, <2>3, SeqDef
<1>2. \/ page = NoView /\ \A i \in 1 .. Len(shown) : st[shown[i]] = "finished"
      \/ page \in DocPages /\ st[page] # "finished"
  BY <1>0, <1>1, HighestPriority DEF PageToDraw
<1>3. /\ ShownThumbs \in Seq(ToSet(ShownThumbs)) /\ ToSet(ShownThumbs) \subseteq Views
      /\ Len(ShownThumbs) = setup.pages
      /\ \A p \in DocPages : ShownThumbs[p] = Thumb(p)
  <2>1. \A p \in DocPages : Thumb(p) \in Views
    BY <1>0, ViewFacts
  <2>2. ShownThumbs = [p \in 1 .. setup.pages |-> Thumb(p)] /\ setup.pages \in Nat
    BY <1>0, MaxPagesAssumption DEF ShownThumbs, DocPages, Pages
  <2>3. ShownThumbs \in [1 .. setup.pages -> ToSet(ShownThumbs)]
    BY <2>2 DEF ToSet
  <2>4. ShownThumbs \in Seq(ToSet(ShownThumbs)) /\ Len(ShownThumbs) = setup.pages
    BY <2>2, <2>3, SeqDef
  <2>. QED BY <2>1, <2>2, <2>4 DEF ToSet, DocPages
<1>4. \/ thumb = NoView /\ \A p \in DocPages : st[Thumb(p)] = "finished"
      \/ thumb \in Views /\ st[thumb] # "finished" /\ PageOf(thumb) \in DocPages
  <2>1. LET w == GetHighestPriority(st, ShownThumbs, ToSet(ShownThumbs), TRUE)
        IN  \/ /\ w = NoView
               /\ \A i \in 1 .. Len(ShownThumbs) : st[ShownThumbs[i]] = "finished"
            \/ w \in ToSet(ShownThumbs) /\ st[w] # "finished"
    BY <1>3, HighestPriority
  <2>2. DocPages = 1 .. Len(ShownThumbs)
    BY <1>3 DEF DocPages
  <2>3. (\A i \in 1 .. Len(ShownThumbs) : st[ShownThumbs[i]] = "finished")
           => \A p \in DocPages : st[Thumb(p)] = "finished"
    BY <1>3, <2>2
  <2>4. \A w : w \in ToSet(ShownThumbs) => w \in Views /\ PageOf(w) \in DocPages
    <3>1. \A w \in ToSet(ShownThumbs) : \E p \in DocPages : w = ShownThumbs[p]
      BY <2>2, Zenon DEF ToSet, ShownThumbs
    <3>. QED BY <1>0, <1>3, <3>1, ViewFacts
  <2>. QED BY <2>1, <2>3, <2>4 DEF ThumbToDraw
<1>5. \A p \in ToSet(shown) : \E i \in 1 .. Len(shown) : p = shown[i]
  BY <1>1 DEF ToSet
<1>6. page \in DocPages => PageOf(page) \in DocPages
  BY <1>0, ViewFacts
<1>. QED BY <1>0, <1>2, <1>4, <1>5, <1>6 DEF ToDraw

\* The queue looks at what is finished, and at nothing else of the states.
LEMMA SamePriority ==
    ASSUME NEW st, NEW next, NEW views \in SUBSET Views, NEW shown, NEW d,
           \A v \in Views : Unfinished(st, v) <=> Unfinished(next, v)
    PROVE  GetHighestPriority(st, shown, views, d) = GetHighestPriority(next, shown, views, d)
<1>1. PICK after : after = IF d THEN Max(ToSet(shown)) + 1 ELSE Min(ToSet(shown)) - 1
  OBVIOUS
<1>2. PICK order : order = Append(shown, after)
  OBVIOUS
<1>3. \A i : order[i] \in views /\ Unfinished(st, order[i])
                <=> order[i] \in views /\ Unfinished(next, order[i])
  OBVIOUS
<1>4. {i \in DOMAIN order : order[i] \in views /\ Unfinished(st, order[i])}
        = {i \in DOMAIN order : order[i] \in views /\ Unfinished(next, order[i])}
  BY <1>3
<1>. QED BY <1>1, <1>2, <1>3, <1>4 DEF GetHighestPriority

LEMMA SameToDraw ==
    ASSUME setup \in Setups, NEW st, NEW next, NEW shown, NEW d, NEW thumbs,
           \A v \in Views : Unfinished(st, v) <=> Unfinished(next, v)
    PROVE  ToDraw(st, shown, d, thumbs) = ToDraw(next, shown, d, thumbs)
<1>1. DocPages \subseteq Views /\ DocPages \subseteq Pages
  BY SetupType, MaxPagesAssumption DEF DocPages, Pages, Views
<1>2. ToSet(ShownThumbs) \subseteq Views
  BY <1>1, ViewFacts DEF ShownThumbs, ToSet
<1>3. PageToDraw(st, shown, d) = PageToDraw(next, shown, d)
  BY <1>1, SamePriority DEF PageToDraw
<1>4. ThumbToDraw(st) = ThumbToDraw(next)
  <2>1. ASSUME NEW b
        PROVE  GetHighestPriority(st, ShownThumbs, ToSet(ShownThumbs), b)
                 = GetHighestPriority(next, ShownThumbs, ToSet(ShownThumbs), b)
    BY <1>2, SamePriority
  <2>2. GetHighestPriority(st, ShownThumbs, ToSet(ShownThumbs), TRUE)
          = GetHighestPriority(next, ShownThumbs, ToSet(ShownThumbs), TRUE)
    BY <2>1, Zenon
  <2>. QED BY <2>2, Zenon DEF ThumbToDraw
<1>. QED BY <1>3, <1>4 DEF ToDraw

LEMMA QueuePrimed ==
    ASSUME UNCHANGED setup
    PROVE  /\ ToDraw(state, visible, down, sidebar)'
                 = ToDraw(state', visible', down', sidebar')
           /\ DocPages' = DocPages /\ Screens' = Screens
BY DEF ToDraw, PageToDraw, ThumbToDraw, ShownThumbs, DocPages, Screens

Wishes(w) == \A v \in w : v \in Views /\ PageOf(v) \notin fetched

LEMMA DrawableConcat ==
    ASSUME NEW q \in Seq(Job), NEW e \in Seq(Job), NEW st, Drawable(q, st), Drawable(e, st)
    PROVE  /\ q \o e \in Seq(Job) /\ Drawable(q \o e, st)
           /\ e # <<>> => q \o e # <<>>
<1>1. /\ q \o e \in Seq(Job) /\ Len(q \o e) = Len(q) + Len(e)
      /\ Len(q) \in Nat /\ Len(e) \in Nat
      /\ \A i \in 1 .. Len(q) + Len(e) :
            (q \o e)[i] = IF i <= Len(q) THEN q[i] ELSE e[i - Len(q)]
  BY ConcatProperties
<1>2. \A i \in 1 .. Len(q) + Len(e) :
         \/ i \in 1 .. Len(q) /\ (q \o e)[i] = q[i]
         \/ i - Len(q) \in 1 .. Len(e) /\ (q \o e)[i] = e[i - Len(q)]
  BY <1>1
<1>3. Drawable(q \o e, st)
  BY <1>1, <1>2 DEF Drawable
<1>4. e # <<>> => Len(e) # 0
  BY EmptySeq
<1>. QED BY <1>1, <1>3, <1>4, EmptySeq

\* What the queue found is drawn now or wished for.
LEMMA NowOrLater ==
    ASSUME setup \in Setups, NEW st \in [Views -> States], NEW shown \in Screens,
           NEW d, NEW thumbs \in BOOLEAN, NEW v,
           v = ToDraw(st, shown, d, thumbs) \/ v = NoView
    PROVE  /\ DrawNow(v) \in Seq(Job) /\ Drawable(DrawNow(v), st)
           /\ Wishes(DrawLater(v)) /\ \A u \in DrawLater(v) : PageOf(u) \in DocPages
           /\ v = NoView \/ DrawNow(v) # <<>> \/ v \in DrawLater(v)
<1>1. v = NoView \/ (v \in Views /\ st[v] # "finished" /\ PageOf(v) \in DocPages)
  BY QueueDecides
<1>2. CASE v # NoView /\ PageOf(v) \in fetched
  <2>1. DrawNow(v) = <<v>> /\ DrawLater(v) = {}
    BY <1>2 DEF DrawNow, DrawLater
  <2>2. v \in Job /\ st[v] # "finished"
    BY <1>1, <1>2 DEF Job
  <2>. QED BY <1>2, <2>1, <2>2 DEF Drawable, Wishes
<1>3. CASE ~(v # NoView /\ PageOf(v) \in fetched)
  <2>1. DrawNow(v) = <<>> /\ DrawLater(v) = IF v = NoView THEN {} ELSE {v}
    BY <1>3 DEF DrawNow, DrawLater
  <2>2. << >> \in Seq(Job) /\ Len(<< >>) = 0
    OBVIOUS
  <2>. QED BY <1>1, <1>3, <2>1, <2>2 DEF Drawable, Wishes
<1>. QED BY <1>2, <1>3

\* What follows when the queue has been asked.
Asked(st, shown, d, thumbs) ==
    /\ jobs' \in Seq(Job) /\ Drawable(jobs', st)
    /\ \A v \in want' : v \in Views /\ PageOf(v) \notin fetched
    /\ jobs' # <<>> \/ ToDraw(st, shown, d, thumbs) \in want' \union {NoView}

LEMMA QueueWakes ==
    ASSUME setup \in Setups, NEW st \in [Views -> States], NEW shown \in Screens,
           NEW d, NEW thumbs \in BOOLEAN, NEW print, NEW q \in Seq(Job), NEW w,
           Drawable(q, st), Wishes(w),
           RenderHighestPriority(st, shown, d, thumbs, print, q, w)
    PROVE  Asked(st, shown, d, thumbs)
<1>1. PICK v : v = ToDraw(st, shown, d, thumbs)
  OBVIOUS
<1>2. jobs' = q \o DrawNow(v) /\ want' = w \union DrawLater(v)
  BY <1>1 DEF RenderHighestPriority
<1>3. /\ DrawNow(v) \in Seq(Job) /\ Drawable(DrawNow(v), st) /\ Wishes(DrawLater(v))
      /\ v = NoView \/ DrawNow(v) # <<>> \/ v \in DrawLater(v)
  BY <1>1, NowOrLater
<1>4. /\ q \o DrawNow(v) \in Seq(Job) /\ Drawable(q \o DrawNow(v), st)
      /\ DrawNow(v) # <<>> => q \o DrawNow(v) # <<>>
  BY <1>3, DrawableConcat
<1>. QED BY <1>1, <1>2, <1>3, <1>4 DEF Asked, Wishes

\* A step that asks the queue about what is on the screen wakes it.
LEMMA AskedStep ==
    ASSUME WakeInv, UNCHANGED <<setup, highest, fetched>>,
           state' \in [Views -> States], visible' \in Screens,
           sidebar' \in BOOLEAN, scrolled' \in BOOLEAN, Begun',
           NEW d, NEW thumbs \in BOOLEAN, NEW print, NEW q \in Seq(Job), NEW w,
           d = down', thumbs = sidebar',
           NEW shown \in Screens, shown = visible' \/ scrolled',
           \A i \in 1 .. Len(q) : q[i] \in Views =>
              state'[q[i]] # "finished" /\ PageOf(q[i]) \in fetched,
           Wishes(w),
           RenderHighestPriority(state', shown, d, thumbs, print, q, w)
    PROVE  WakeInv'
<1>. PICK st : st = state'
  OBVIOUS
<1>1. Drawable(q, st) /\ setup \in Setups
  BY DEF Drawable, WakeInv, WakeType
<1>2. st \in [Views -> States] /\ fetched' = fetched
  OBVIOUS
<1>3. RenderHighestPriority(st, shown, d, thumbs, print, q, w)
  BY DEF RenderHighestPriority
<1>4. Asked(st, shown, d, thumbs)
  BY <1>1, <1>2, <1>3, QueueWakes
<1>5. Drawable(jobs, state)' /\ Wished'
  BY <1>2, <1>4 DEF Drawable, Wished, Asked
<1>6. WakeType'
  BY <1>1, <1>4, QueuePrimed DEF WakeInv, WakeType, Asked
<1>7. NoLostWakeup'
  BY <1>4, QueuePrimed DEF NoLostWakeup, WaitsForPage, Asked
<1>. QED BY <1>5, <1>6, <1>7 DEF WakeInv

\* Cancelled drawings leave callbacks, which draw nothing.
LEMMA RejectionsWake ==
    ASSUME NEW st \in [Views -> States], NEW S
    PROVE  /\ Rejections(st, S) \in Seq(Job)
           /\ \A i \in 1 .. Len(Rejections(st, S)) : Rejections(st, S)[i] \notin Views
           /\ (\E v \in S : v \in Views /\ st[v] = "running")
                 => Len(Rejections(st, S)) # 0
<1>. PICK U : U = S \intersect UnderWay(st)
  OBVIOUS
<1>1. IsFiniteSet(U)
  <2>1. IsFiniteSet(Views)
    BY MaxPagesAssumption, FS_Interval DEF Views
  <2>2. U \subseteq Views
    BY DEF UnderWay
  <2>. QED BY <2>1, <2>2, FS_Subset
<1>2. Cardinality(U) \in Nat /\ (Cardinality(U) = 0 <=> U = {})
  BY <1>1, FS_CardinalityType, FS_EmptySet
<1>3. PICK n \in Nat : n = Cardinality(U)
  BY <1>2
<1>4. Rejections(st, S) = [i \in 1 .. n |-> RejectedJob]
  BY <1>3 DEF Rejections
<1>5. /\ Rejections(st, S) \in Seq(Job) /\ Len(Rejections(st, S)) = n
      /\ \A i \in 1 .. n : Rejections(st, S)[i] = RejectedJob
  BY <1>4, SeqDef DEF Job
<1>6. (\E v \in S : v \in Views /\ st[v] = "running") => U # {}
  BY DEF UnderWay
<1>7. \A i \in 1 .. n : Rejections(st, S)[i] \notin Views
  BY <1>5, ViewFacts
<1>8. (\E v \in S : v \in Views /\ st[v] = "running") => n # 0
  BY <1>2, <1>3, <1>6
<1>. QED BY <1>5, <1>7, <1>8

\* The first callback has run; what is left was there before.
LEMMA TailDrawable ==
    ASSUME jobs \in Seq(Job), jobs # <<>>
    PROVE  /\ Tail(jobs) \in Seq(Job) /\ Len(Tail(jobs)) = Len(jobs) - 1
           /\ \A i \in 1 .. Len(Tail(jobs)) :
                 i + 1 \in 1 .. Len(jobs) /\ Tail(jobs)[i] = jobs[i + 1]
           /\ Head(jobs) = jobs[1] /\ 1 \in 1 .. Len(jobs)
BY HeadTailProperties, EmptySeq

OfJobs(r) == \A i \in 1 .. Len(r) : \E j \in 1 .. Len(jobs) : r[i] = jobs[j]
DrawsNothing(e) == \A i \in 1 .. Len(e) : e[i] \notin Views
StillUnfinished(st) == \A v \in Views : state[v] # "finished" => st[v] # "finished"

\* Callbacks added to others; views that were not finished stay unfinished.
LEMMA StillDrawable ==
    ASSUME Drawable(jobs, state), NEW r \in Seq(Job), NEW e \in Seq(Job),
           NEW st \in [Views -> States],
           OfJobs(r), DrawsNothing(e), StillUnfinished(st)
    PROVE  /\ r \o e \in Seq(Job) /\ Len(r \o e) = Len(r) + Len(e)
           /\ Drawable(r \o e, st)
<1>. USE DEF OfJobs, DrawsNothing, StillUnfinished, Drawable
<1>1. /\ r \o e \in Seq(Job) /\ Len(r \o e) = Len(r) + Len(e)
      /\ \A i \in 1 .. Len(r) + Len(e) :
            (r \o e)[i] = IF i <= Len(r) THEN r[i] ELSE e[i - Len(r)]
  BY ConcatProperties
<1>2. ASSUME NEW i \in 1 .. Len(r) + Len(e), (r \o e)[i] \in Views
      PROVE  st[(r \o e)[i]] # "finished" /\ PageOf((r \o e)[i]) \in fetched
  <2>1. CASE i <= Len(r)
    <3>1. (r \o e)[i] = r[i] /\ i \in 1 .. Len(r)
      BY <1>1, <2>1
    <3>2. PICK j \in 1 .. Len(jobs) : r[i] = jobs[j]
      BY <3>1
    <3>. QED BY <1>2, <3>1, <3>2 DEF Drawable
  <2>2. CASE ~(i <= Len(r))
    <3>1. (r \o e)[i] = e[i - Len(r)] /\ i - Len(r) \in 1 .. Len(e)
      BY <1>1, <2>2
    <3>. QED BY <1>2, <3>1
  <2>. QED BY <2>1, <2>2
<1>. QED BY <1>1, <1>2

\* update: the buffer is resized and the queue asked.
LEMMA UpdateWakes ==
    ASSUME WakeInv, UNCHANGED <<setup, highest, fetched, sidebar>>,
           NEW st \in [Views -> States], NEW shown \in Screens, shown = visible',
           \A v \in Views : st[v] # "initial" => state[v] # "initial",
           scrolled' \in BOOLEAN, jobs = <<>>, NEW d, d = down', Update(st, shown, d)
    PROVE  WakeInv'
<1>. PICK gone : gone = Evicted(buffer, Resized(shown))
  OBVIOUS
<1>. PICK q : q = Rejections(state, gone \union {v \in Views : st[v] # state[v]})
  OBVIOUS
<1>1. /\ state' = Reset(st, gone)
      /\ RenderHighestPriority(Reset(st, gone), shown, d, sidebar, printing, q, want)
  BY DEF Update
<1>2. RenderHighestPriority(state', shown, d, sidebar, printing, q, want)
  BY <1>1 DEF RenderHighestPriority
<1>3. /\ state' \in [Views -> States]
      /\ \A v \in Views : state'[v] # "initial" => state[v] # "initial"
  BY <1>1, ResetStates
<1>4. state \in [Views -> States] /\ sidebar \in BOOLEAN
  BY DEF WakeInv, WakeType
<1>5. q \in Seq(Job) /\ \A i \in 1 .. Len(q) : q[i] \notin Views
  BY <1>4, RejectionsWake
<1>6. Begun'
  BY <1>3 DEF WakeInv, Begun
<1>7. visible' \in Screens /\ sidebar' = sidebar /\ Wishes(want)
  BY DEF WakeInv, Wished, Wishes
<1>. QED BY <1>2, <1>3, <1>4, <1>5, <1>6, <1>7, AskedStep

LEMMA RenderWakes ==
    ASSUME WakeInv, NEW v \in Views, RenderView(v)
    PROVE  WakeInv'
<1> USE DEF WakeInv, WakeType
<1>1. /\ UNCHANGED <<setup, fetched, want, visible, sidebar, scrolled>>
      /\ jobs # <<>> /\ Head(jobs) = v
  BY DEF RenderView
<1>2. jobs \in Seq(Job) /\ state \in [Views -> States]
  OBVIOUS
<1>3. /\ Tail(jobs) \in Seq(Job)
      /\ \A i \in 1 .. Len(Tail(jobs)) : \E j \in 1 .. Len(jobs) : Tail(jobs)[i] = jobs[j]
      /\ jobs[1] = v /\ 1 \in 1 .. Len(jobs)
  BY <1>1, <1>2, TailDrawable
<1>4. state[v] # "finished" /\ PageOf(v) \in fetched
  BY <1>3 DEF Drawable
<1>5. highest' = v /\ v # NoView
  BY <1>2, <1>4, ViewFacts DEF RenderView, States
<1>6. CASE v \in Pages /\ state[v] = "initial"
  <2>. PICK drawn : drawn = [state EXCEPT ![v] = "running"]
    OBVIOUS
  <2>. PICK gone : gone = Evicted(Pushed(buffer, v), size)
    OBVIOUS
  <2>. PICK e : e = Rejections(drawn, gone)
    OBVIOUS
  <2>1. state' = Reset(drawn, gone) /\ jobs' = Tail(jobs) \o e
    BY <1>6 DEF RenderView, DrawPage
  <2>2. /\ drawn \in [Views -> States] /\ drawn[v] = "running"
        /\ \A u \in Views : u # v => drawn[u] = state[u]
    BY <1>2 DEF States
  <2>3. /\ state' \in [Views -> States]
        /\ \A u \in Views : state'[u] = IF u \in gone THEN "initial" ELSE drawn[u]
    BY <2>1, <2>2 DEF Reset, States
  <2>4. e \in Seq(Job) /\ \A i \in 1 .. Len(e) : e[i] \notin Views
    BY <2>2, RejectionsWake
  <2>5. v \in gone => Len(e) # 0
    BY <2>2, RejectionsWake
  <2>6. \A u \in Views : state[u] # "finished" => state'[u] # "finished"
    BY <2>2, <2>3
  <2>. PICK st : st = state'
    OBVIOUS
  <2>7. /\ Tail(jobs) \o e \in Seq(Job) /\ Len(Tail(jobs) \o e) = Len(Tail(jobs)) + Len(e)
        /\ Drawable(Tail(jobs) \o e, st)
    <3>1. st \in [Views -> States] /\ StillUnfinished(st)
      BY <2>3, <2>6 DEF StillUnfinished
    <3>2. Drawable(jobs, state)
      OBVIOUS
    <3>3. OfJobs(Tail(jobs)) /\ Tail(jobs) \in Seq(Job)
      BY <1>3 DEF OfJobs
    <3>4. DrawsNothing(e)
      BY <2>4 DEF DrawsNothing
    <3>. QED BY <2>4, <3>1, <3>2, <3>3, <3>4, StillDrawable
  <2>8. Drawable(jobs, state)'
    BY <1>1, <2>1, <2>7 DEF Drawable
  <2>9. Begun'
    BY <1>1, <1>4, <2>2, <2>3 DEF Begun
  <2>10. v \in gone => jobs' # <<>>
    <3>1. Len(e) \in Nat /\ Len(Tail(jobs)) \in Nat
      BY <1>3, <2>4
    <3>2. Len(jobs') = Len(Tail(jobs)) + Len(e)
      BY <2>1, <2>7
    <3>3. v \in gone => Len(jobs') # 0
      BY <2>5, <3>1, <3>2
    <3>. QED BY <3>3
  <2>11. NoLostWakeup'
    BY <1>5, <2>2, <2>3, <2>10 DEF NoLostWakeup
  <2>12. WakeType'
    BY <1>1, <1>5, <2>1, <2>3, <2>7 DEF Screens
  <2>. QED BY <1>1, <2>8, <2>9, <2>11, <2>12 DEF Wished
<1>7. CASE ~(v \in Pages /\ state[v] = "initial")
  <2>1. /\ jobs' = Tail(jobs)
        /\ \/ state' = state /\ state[v] = "running"
           \/ state' = [state EXCEPT ![v] = "running"]
    BY <1>2, <1>4, <1>7 DEF RenderView, DrawThumb, States
  <2>2. /\ state' \in [Views -> States] /\ state'[v] = "running"
        /\ \A u \in Views : u # v => state'[u] = state[u]
    BY <1>2, <2>1 DEF States
  <2>3. Drawable(jobs, state)'
    BY <1>1, <1>3, <2>1, <2>2 DEF Drawable
  <2>4. Begun'
    BY <1>1, <1>4, <2>2 DEF Begun
  <2>5. NoLostWakeup'
    BY <1>5, <2>2 DEF NoLostWakeup
  <2>6. WakeType'
    BY <1>1, <1>3, <1>5, <2>1, <2>2 DEF Screens
  <2>. QED BY <1>1, <2>3, <2>4, <2>5, <2>6 DEF Wished
<1>. QED BY <1>6, <1>7

LEMMA AnswerWakes ==
    ASSUME WakeInv, NEW p \in Pages, Answer(p)
    PROVE  WakeInv'
<1> USE DEF WakeInv, WakeType
<1>. PICK waiting : waiting = {v \in want : PageOf(v) = p}
  OBVIOUS
<1>1. /\ UNCHANGED <<setup, state, highest, visible, sidebar, scrolled>>
      /\ jobs = <<>> /\ fetched' = fetched \union {p} /\ want' = want \ waiting
      /\ p \notin fetched /\ jobs' \in SetToSeqs(waiting)
  BY DEF Answer
<1>2. waiting \subseteq Views /\ IsFiniteSet(waiting)
  <2>1. IsFiniteSet(Views)
    BY MaxPagesAssumption, FS_Interval DEF Views
  <2>2. waiting \subseteq Views
    BY DEF Wished
  <2>. QED BY <2>1, <2>2, FS_Subset
<1>3. PICK n \in Nat : n = Cardinality(waiting) /\ (n = 0 <=> waiting = {})
  BY <1>2, FS_CardinalityType, FS_EmptySet
<1>4. jobs' \in [1 .. n -> waiting]
  BY <1>1, <1>3 DEF SetToSeqs
<1>5. jobs' \in Seq(Job) /\ Len(jobs') = n /\ \A i \in 1 .. n : jobs'[i] \in waiting
  <2>1. jobs' \in Seq(waiting) /\ Len(jobs') = n
    BY <1>4, SeqDef
  <2>2. \A v \in waiting : v \in Job
    BY <1>2 DEF Job
  <2>. QED BY <1>4, <2>1, <2>2
<1>6. \A v \in waiting : state[v] = "initial" /\ PageOf(v) = p
  BY <1>1, <1>2 DEF Begun
<1>7. Drawable(jobs, state)'
  BY <1>1, <1>5, <1>6 DEF Drawable
<1>8. Begun' /\ Wished'
  BY <1>1 DEF Begun, Wished
<1>9. NoLostWakeup'
  <2>1. CASE waiting = {}
    <3>1. want' = want /\ down' = down
      BY <1>1, <2>1 DEF Answer
    <3>. QED BY <1>1, <3>1, QueuePrimed DEF NoLostWakeup, WaitsForPage
  <2>2. CASE waiting # {}
    <3>1. jobs' # <<>>
      BY <1>3, <1>5, <2>2
    <3>. QED BY <3>1 DEF NoLostWakeup
  <2>. QED BY <2>1, <2>2
<1>10. WakeType'
  BY <1>1, <1>5 DEF Screens
<1>. QED BY <1>7, <1>8, <1>9, <1>10

\* What pdf.js does, when no callback is left.
LEMMA DrawingWakes ==
    ASSUME WakeInv, NEW v \in Views, Finish(v) \/ Pause(v)
    PROVE  WakeInv'
<1> USE DEF WakeInv, WakeType
<1>1. /\ UNCHANGED <<setup, highest, fetched, want, visible, sidebar, scrolled>>
      /\ jobs = <<>> /\ state[v] = "running" /\ PageOf(v) \in fetched
      /\ state \in [Views -> States]
  BY DEF Finish, Pause, Begun
<1>2. CASE Finish(v)
  <2>. PICK done : done = [state EXCEPT ![v] = "finished"]
    OBVIOUS
  <2>1. /\ jobs' = <<NextJob>>
        /\ state' = done \/ (v \in Pages /\ state' = WithImages(done, {v}))
    BY <1>2 DEF Finish
  <2>2. /\ done \in [Views -> States]
        /\ \A u \in Views : done[u] # "initial" => PageOf(u) \in fetched
    BY <1>1 DEF States, Begun
  <2>3. /\ WithImages(done, {v}) \in [Views -> States]
        /\ \A u \in Views : WithImages(done, {v})[u] = done[u] \/ PageOf(u) \in {v}
    BY <2>2 DEF WithImages, States
  <2>4. v \in Pages => PageOf(v) = v
    BY ViewFacts
  <2>5. state' \in [Views -> States] /\ Begun'
    BY <1>1, <2>1, <2>2, <2>3, <2>4 DEF Begun
  <2>6. /\ jobs' \in Seq(Job) /\ jobs' # <<>> /\ Len(jobs') = 1
        /\ jobs'[1] \notin Views
    BY <2>1, ViewFacts DEF Job
  <2>7. Drawable(jobs, state)'
    BY <2>6 DEF Drawable
  <2>. QED BY <1>1, <2>5, <2>6, <2>7 DEF NoLostWakeup, Wished, Screens
<1>3. CASE Pause(v)
  <2>1. highest # v /\ state' = [state EXCEPT ![v] = "paused"] /\ jobs' = jobs
    BY <1>3 DEF Pause
  <2>2. /\ state' \in [Views -> States] /\ state'[v] = "paused"
        /\ \A u \in Views : u # v => state'[u] = state[u]
    BY <1>1, <2>1 DEF States
  <2>3. \A u : state[u] = "finished" => u # v
    BY <1>1
  <2>4. Drawable(jobs, state)' /\ Begun'
    BY <1>1, <2>1, <2>2 DEF Drawable, Begun
  <2>5. ToDraw(state', visible, down, sidebar) = ToDraw(state, visible, down, sidebar)
    <3>. PICK st : st = state'
      OBVIOUS
    <3>1. \A u \in Views : Unfinished(state, u) <=> Unfinished(st, u)
      BY <1>1, <2>2 DEF Unfinished
    <3>. QED BY <3>1, SameToDraw
  <2>6. down' = down
    BY <1>3 DEF Pause
  <2>8. NoLostWakeup'
    BY <1>1, <2>1, <2>2, <2>5, <2>6, QueuePrimed DEF NoLostWakeup, WaitsForPage
  <2>. QED BY <1>1, <2>1, <2>2, <2>4, <2>8 DEF Wished, Screens
<1>. QED BY <1>2, <1>3

\* Rotating asks the queue, perhaps twice, after callbacks that draw what is not
\* finished.
LEMMA RotateWakes == WakeInv /\ Rotate => WakeInv'
<1>. HAVE WakeInv /\ Rotate
<1>r. Rotate
  OBVIOUS
<1>0. /\ setup \in Setups /\ state \in [Views -> States] /\ sidebar \in BOOLEAN
      /\ scrolled \in BOOLEAN /\ Begun /\ Wishes(want)
  BY DEF WakeInv, WakeType, Wished, Wishes
<1>1. PICK cssOnly \in BOOLEAN, preset \in BOOLEAN, shown \in Screens :
         Turn(cssOnly, preset, shown) /\ scrolled' \in {scrolled \/ visible' # shown, TRUE}
  BY <1>r DEF Rotate
<1>2. /\ UNCHANGED <<setup, highest, fetched, sidebar, down>> /\ visible' \in Screens
  BY DEF Rotate
<1>. DEFINE scaled == Scaled(state, cssOnly)
            gone == Evicted(buffer, IF preset THEN Resized(shown) ELSE size)
            turned == Reset(scaled, gone)
            first == IF preset THEN ToDraw(turned, shown, down, sidebar) ELSE NoView
            cancelled == gone \union {v \in Views : scaled[v] # state[v]}
            q == Rejections(state, cancelled) \o DrawNow(first) \o Rejections(turned, Thumbs)
            w == want \union DrawLater(first)
<1>3. /\ state' = Reset(turned, Thumbs)
      /\ RenderHighestPriority(Reset(turned, Thumbs), shown, down, sidebar, printing, q, w)
      /\ scrolled' \in {scrolled \/ visible' # shown, TRUE}
  BY <1>1 DEF Turn, RotatedThumbs
<1>. HIDE DEF w, q, cancelled, gone
<1>4. /\ scaled \in [Views -> States]
      /\ \A v \in Views : scaled[v] # "initial" => state[v] # "initial"
  BY <1>0, ResetStates DEF Scaled
<1>. HIDE DEF scaled
<1>5. /\ turned \in [Views -> States]
      /\ \A v \in Views : turned[v] # "initial" => scaled[v] # "initial"
  BY <1>4, ResetStates
<1>. HIDE DEF turned
<1>6. /\ state' \in [Views -> States]
      /\ \A v \in Views : state'[v] # "initial" => turned[v] # "initial"
  BY <1>3, <1>5, ResetStates
<1>7. Begun'
  BY <1>0, <1>2, <1>4, <1>5, <1>6 DEF Begun
<1>8. /\ DrawNow(first) \in Seq(Job) /\ Drawable(DrawNow(first), turned)
      /\ Wishes(DrawLater(first))
  BY <1>0, <1>5, NowOrLater DEF first
<1>. HIDE DEF first
<1>9. /\ Rejections(state, cancelled) \in Seq(Job) /\ Rejections(turned, Thumbs) \in Seq(Job)
      /\ Drawable(Rejections(state, cancelled), turned)
      /\ Drawable(Rejections(turned, Thumbs), turned)
  BY <1>0, <1>5, RejectionsWake DEF Drawable
<1>10. q \in Seq(Job) /\ Drawable(q, turned)
  <2>1. /\ Rejections(state, cancelled) \o DrawNow(first) \in Seq(Job)
        /\ Drawable(Rejections(state, cancelled) \o DrawNow(first), turned)
    BY <1>8, <1>9, DrawableConcat
  <2>. QED BY <1>9, <2>1, DrawableConcat DEF q
<1>11. \A v \in Views : turned[v] # "finished" => state'[v] # "finished"
  BY <1>3, <1>5 DEF Reset
<1>12. \A i \in 1 .. Len(q) : q[i] \in Views =>
          state'[q[i]] # "finished" /\ PageOf(q[i]) \in fetched
  <2>. TAKE i \in 1 .. Len(q)
  <2>. HAVE q[i] \in Views
  <2>1. turned[q[i]] # "finished" /\ PageOf(q[i]) \in fetched
    BY <1>10 DEF Drawable
  <2>. PICK v \in Views : v = q[i]
    OBVIOUS
  <2>2. state'[v] # "finished"
    BY <1>11, <2>1
  <2>. QED BY <2>1, <2>2
<1>13. Wishes(w)
  BY <1>0, <1>8 DEF Wishes, w
<1>14. scrolled' \in BOOLEAN /\ (shown = visible' \/ scrolled')
  BY <1>0, <1>3
<1>15. /\ state' = Reset(turned, Thumbs)
       /\ RenderHighestPriority(state', shown, down, sidebar, printing, q, w)
  BY <1>3
<1>16. PICK d, thumbs, print : /\ d = down' /\ thumbs = sidebar' /\ thumbs \in BOOLEAN
                               /\ RenderHighestPriority(state', shown, d, thumbs, print, q, w)
  BY <1>0, <1>2, <1>15
<1>17. sidebar' \in BOOLEAN /\ UNCHANGED <<setup, highest, fetched>> /\ q \in Seq(Job)
  BY <1>0, <1>2, <1>10
<1>. QED BY <1>2, <1>6, <1>7, <1>12, <1>13, <1>14, <1>16, <1>17, AskedStep

LEMMA NextWake == WakeInv /\ [Next]_vars => WakeInv'
<1> SUFFICES ASSUME WakeInv, [Next]_vars
             PROVE  WakeInv'
  OBVIOUS
<1>0. /\ setup \in Setups /\ state \in [Views -> States] /\ visible \in Screens
      /\ jobs \in Seq(Job) /\ sidebar \in BOOLEAN /\ scrolled \in BOOLEAN
      /\ Drawable(jobs, state) /\ Begun /\ Wishes(want)
  BY DEF WakeInv, WakeType, Wished, Wishes
<1>e. << >> \in Seq(Job) /\ Len(<< >>) = 0
  OBVIOUS
<1>1. CASE ContinueRendering
  <2>. PICK q : q = Tail(jobs)
    OBVIOUS
  <2>1. /\ UNCHANGED <<setup, highest, fetched, state, visible, down, sidebar, scrolled>>
        /\ jobs # <<>>
        /\ RenderHighestPriority(state, visible, down, sidebar, printing, q, want)
    BY <1>1 DEF ContinueRendering
  <2>2. RenderHighestPriority(state', visible, down, sidebar, printing, q, want)
    BY <2>1 DEF RenderHighestPriority
  <2>3. q \in Seq(Job) /\ \A i \in 1 .. Len(q) : q[i] \in Views =>
           state'[q[i]] # "finished" /\ PageOf(q[i]) \in fetched
    BY <1>0, <2>1, TailDrawable DEF Drawable
  <2>4. Begun'
    BY <1>0, <2>1 DEF Begun
  <2>. QED BY <1>0, <2>1, <2>2, <2>3, <2>4, AskedStep
<1>2. CASE Rejected
  <2>1. /\ UNCHANGED <<setup, highest, fetched, want, state, visible, sidebar, scrolled>>
        /\ jobs # <<>> /\ jobs' = Append(Tail(jobs), NextJob)
    BY <1>2 DEF Rejected
  <2>. PICK q \in Seq(Job) : q = Tail(jobs)
    BY <1>0, <2>1, TailDrawable
  <2>2. /\ Len(q) \in Nat
        /\ \A i \in 1 .. Len(q) : \E j \in 1 .. Len(jobs) : q[i] = jobs[j]
    BY <1>0, <2>1, TailDrawable
  <2>3. /\ jobs' \in Seq(Job) /\ Len(jobs') = Len(q) + 1
        /\ \A i \in 1 .. Len(q) : jobs'[i] = q[i]
        /\ jobs'[Len(q) + 1] = NextJob
    BY <2>1, AppendProperties DEF Job
  <2>4. Drawable(jobs, state)'
    <3> SUFFICES ASSUME NEW i \in 1 .. Len(q) + 1, jobs'[i] \in Views
                 PROVE  state[jobs'[i]] # "finished" /\ PageOf(jobs'[i]) \in fetched
      BY <2>1, <2>3 DEF Drawable
    <3>1. i \in 1 .. Len(q)
      BY <2>2, <2>3, ViewFacts
    <3>2. PICK j \in 1 .. Len(jobs) : jobs'[i] = jobs[j]
      BY <2>2, <2>3, <3>1
    <3>. QED BY <1>0, <3>2 DEF Drawable
  <2>5. jobs' # <<>>
    BY <2>2, <2>3
  <2>. QED BY <1>0, <2>1, <2>3, <2>4, <2>5
           DEF WakeInv, WakeType, Begun, Wished, NoLostWakeup, Screens
<1>3. CASE ScrollUpdate
  <2>1. /\ UNCHANGED <<setup, highest, fetched, sidebar, visible>> /\ jobs = <<>>
        /\ scrolled' \in BOOLEAN
    BY <1>3 DEF ScrollUpdate
  <2>2. PICK d : d = down' /\ Update(state, visible, d)
    BY <1>3 DEF ScrollUpdate
  <2>. QED BY <1>0, <2>1, <2>2, UpdateWakes
<1>4. CASE Zoom
  <2>1. /\ UNCHANGED <<setup, highest, fetched, sidebar>> /\ visible' \in Screens
        /\ scrolled' \in BOOLEAN /\ jobs = <<>> /\ down' = down
    BY <1>0, <1>4 DEF Zoom, Moves
  <2>2. PICK cssOnly \in BOOLEAN : Update(Scaled(state, cssOnly), visible', down)
    BY <1>4 DEF Zoom
  <2>. PICK st : st = Scaled(state, cssOnly)
    OBVIOUS
  <2>. PICK shown : shown = visible'
    OBVIOUS
  <2>3. /\ st \in [Views -> States]
        /\ \A v \in Views : st[v] # "initial" => state[v] # "initial"
    BY <1>0, ResetStates DEF Scaled
  <2>4. Update(st, shown, down) /\ shown \in Screens
    BY <2>1, <2>2 DEF Update
  <2>. QED BY <2>1, <2>3, <2>4, UpdateWakes
<1>5. CASE Rotate
  BY <1>5, RotateWakes
\* The events that ask the queue and have no callback to add.
<1>6. ASSUME UNCHANGED <<setup, highest, fetched, visible, down, scrolled>>,
             state' \in [Views -> States], Begun', sidebar' \in BOOLEAN,
             NEW print,
             RenderHighestPriority(state', visible, down, sidebar', print, << >>, want)
      PROVE  WakeInv'
  <2>. PICK thumbs : thumbs = sidebar'
    OBVIOUS
  <2>. PICK q : q = << >>
    OBVIOUS
  <2>1. RenderHighestPriority(state', visible, down, thumbs, print, q, want)
    BY <1>6 DEF RenderHighestPriority
  <2>2. q \in Seq(Job) /\ \A i \in 1 .. Len(q) : q[i] \in Views =>
           state'[q[i]] # "finished" /\ PageOf(q[i]) \in fetched
    BY <1>e
  <2>3. thumbs \in BOOLEAN /\ thumbs = sidebar' /\ scrolled' \in BOOLEAN
        /\ visible' \in Screens /\ (visible = visible' \/ scrolled')
    BY <1>0, <1>6
  <2>4. UNCHANGED <<setup, highest, fetched, down>> /\ state' \in [Views -> States] /\ Begun'
    BY <1>6
  <2>. QED BY <1>0, <1>6, <2>1, <2>2, <2>3, <2>4, AskedStep
<1>7. CASE ToggleSidebar
  <2>1. /\ UNCHANGED <<setup, highest, fetched, visible, down, scrolled>>
        /\ state' = state \/ state' = Refreshed(state)
        /\ sidebar' \in BOOLEAN
        /\ RenderHighestPriority(state', visible, down, sidebar', printing, << >>, want)
    BY <1>0, <1>7 DEF ToggleSidebar
  <2>2. /\ Refreshed(state) \in [Views -> States]
        /\ \A v \in Views : \/ Refreshed(state)[v] = state[v]
                            \/ PageOf(v) \in Pages /\ state[PageOf(v)] = "finished"
    <3>1. PICK P : P = {p \in Pages : ~Unfinished(state, p)}
      OBVIOUS
    <3>2. Refreshed(state) = WithImages(state, P)
      BY <3>1 DEF Refreshed
    <3>3. \A p \in P : p \in Pages /\ state[p] = "finished"
      BY <3>1 DEF Unfinished
    <3>4. /\ WithImages(state, P) \in [Views -> States]
          /\ \A v \in Views : WithImages(state, P)[v] = state[v] \/ PageOf(v) \in P
      BY <1>0 DEF WithImages, States
    <3>. QED BY <3>2, <3>3, <3>4
  <2>3. \A p \in Pages : p \in Views /\ PageOf(p) = p
    BY ViewFacts
  <2>4. state' \in [Views -> States] /\ Begun'
    BY <1>0, <2>1, <2>2, <2>3 DEF Begun
  <2>. QED BY <1>6, <2>1, <2>4
<1>8. CASE BeforePrint \/ AfterPrint
  <2>1. UNCHANGED <<setup, highest, fetched, visible, down, scrolled, state, sidebar>>
    BY <1>8 DEF BeforePrint, AfterPrint
  <2>2. PICK print : RenderHighestPriority(state, visible, down, sidebar, print, << >>, want)
    BY <1>8 DEF BeforePrint, AfterPrint
  <2>3. RenderHighestPriority(state', visible, down, sidebar', print, << >>, want)
    BY <2>1, <2>2 DEF RenderHighestPriority
  <2>4. Begun' /\ state' \in [Views -> States] /\ sidebar' \in BOOLEAN
    BY <1>0, <2>1 DEF Begun
  <2>. QED BY <1>6, <2>1, <2>3, <2>4
<1>9. CASE Scroll
  <2>1. /\ UNCHANGED <<setup, state, highest, fetched, want, sidebar, jobs>>
        /\ visible' \in Screens /\ scrolled' = TRUE
    BY <1>9 DEF Scroll
  <2>. QED BY <1>0, <2>1
           DEF WakeInv, WakeType, Begun, Wished, Drawable, NoLostWakeup, Screens
<1>10. CASE Cleanup
  <2>. PICK S : S = {p \in Pages : Unfinished(state, p)}
    OBVIOUS
  <2>1. /\ UNCHANGED <<setup, highest, fetched, want, visible, down, sidebar, scrolled>>
        /\ jobs = <<>> /\ state' = Reset(state, S) /\ jobs' = Rejections(state, S)
    BY <1>10 DEF Cleanup
  <2>2. /\ state' \in [Views -> States]
        /\ \A v \in Views : state'[v] = IF v \in S THEN "initial" ELSE state[v]
    BY <1>0, <2>1 DEF Reset, States
  <2>3. /\ jobs' \in Seq(Job) /\ \A i \in 1 .. Len(jobs') : jobs'[i] \notin Views
        /\ (\E v \in S : v \in Views /\ state[v] = "running") => Len(jobs') # 0
    BY <1>0, <2>1, RejectionsWake
  <2>4. Begun' /\ Drawable(jobs, state)'
    BY <1>0, <2>1, <2>2, <2>3 DEF Begun, Drawable
  <2>5. ToDraw(state', visible, down, sidebar) = ToDraw(state, visible, down, sidebar)
    <3>. PICK st : st = state'
      OBVIOUS
    <3>1. \A v \in Views : Unfinished(state, v) <=> Unfinished(st, v)
      BY <2>2 DEF Unfinished
    <3>. QED BY <1>0, <3>1, SameToDraw
  <2>9. highest \in Views /\ state[highest] = "running"
           => jobs' # <<>> \/ state'[highest] = "running"
    BY <2>2, <2>3
  <2>10. NoLostWakeup'
    BY <2>1, <2>5, <2>9, QueuePrimed DEF WakeInv, WakeType, NoLostWakeup, WaitsForPage
  <2>. QED BY <1>0, <2>1, <2>2, <2>3, <2>4, <2>10 DEF WakeInv, WakeType, Wished, Screens
<1>11. CASE UNCHANGED vars
  <2>1. UNCHANGED <<setup, state, highest, fetched, want, visible, down, sidebar, scrolled,
                    jobs>>
    BY <1>11 DEF vars
  <2>. QED BY <2>1, QueuePrimed DEF WakeInv, WakeType, Begun, Wished, Drawable, NoLostWakeup,
                                    WaitsForPage
<1>. QED
  BY <1>1, <1>2, <1>3, <1>4, <1>5, <1>7, <1>8, <1>9, <1>10, <1>11,
     RenderWakes, DrawingWakes, AnswerWakes
  DEF Next, Work, User

LEMMA InitWake == Init => WakeInv
<1> SUFFICES ASSUME Init
             PROVE  WakeInv
  OBVIOUS
<1>1. WakeType
  <2>1. visible \in Screens /\ jobs \in Seq(Job) /\ setup \in Setups
    BY DEF Init
  <2>2. state \in [Views -> States]
    BY DEF Init, States
  <2>. QED BY <2>1, <2>2 DEF Init, WakeType
<1>2. Begun /\ Wished /\ Drawable(jobs, state) /\ NoLostWakeup
  BY DEF Init, Begun, Wished, Drawable, NoLostWakeup
<1>. QED BY <1>1, <1>2 DEF WakeInv

\* Whatever is cancelled, evicted, zoomed, or asked for and scrolled away, and
\* whichever pages never come, rendering stands still only with nothing to draw
\* or at the very view whose page has not come.
THEOREM NoLostWakeupCorrect == Spec => []NoLostWakeup
<1>1. WakeInv => NoLostWakeup
  BY DEF WakeInv
<1>. QED BY <1>1, InitWake, NextWake, PTL DEF Spec

-----------------------------------------------------------------------------
(* Types.  What is wished for is a page of the document, or the thumbnail of *)
(* one, since the queue chooses only among what is shown.                    *)

RestType ==
    /\ fetched \subseteq Pages
    /\ \A v \in want : PageOf(v) \in DocPages
    /\ fetching \in BOOLEAN
    /\ down \in BOOLEAN
    /\ moves \in 0 .. setup.moves

\* Asking the queue adds at most one wish, for a page of the document.
LEMMA QueueWishes ==
    ASSUME setup \in Setups, NEW st \in [Views -> States], NEW shown \in Screens,
           NEW d, NEW thumbs \in BOOLEAN, NEW print, NEW q, NEW w,
           RenderHighestPriority(st, shown, d, thumbs, print, q, w)
    PROVE  \A v \in want' : v \in w \/ PageOf(v) \in DocPages
<1>1. PICK v : v = ToDraw(st, shown, d, thumbs)
  OBVIOUS
<1>2. \A u \in DrawLater(v) : PageOf(u) \in DocPages
  BY <1>1, NowOrLater
<1>. QED BY <1>1, <1>2 DEF RenderHighestPriority

LEMMA UpdateWishes ==
    ASSUME Inv, NEW st \in [Views -> States], NEW shown \in Screens, NEW d,
           sidebar \in BOOLEAN, Update(st, shown, d)
    PROVE  \A v \in want' : v \in want \/ PageOf(v) \in DocPages
<1>1. PICK r : r = Reset(st, Evicted(buffer, Resized(shown)))
  OBVIOUS
<1>2. r \in [Views -> States]
  BY <1>1, ResetStates
<1>3. \E q : RenderHighestPriority(r, shown, d, sidebar, printing, q, want)
  BY <1>1 DEF Update
<1>. QED BY <1>2, <1>3, QueueWishes DEF Inv, ViewType

LEMMA RestStep == Inv /\ WakeType /\ RestType /\ [Next]_vars => RestType'
<1>. SUFFICES ASSUME Inv, WakeType, RestType, [Next]_vars
              PROVE  RestType'
  OBVIOUS
<1>. USE DEF RestType
<1>0. /\ setup \in Setups /\ state \in [Views -> States] /\ visible \in Screens
      /\ sidebar \in BOOLEAN /\ DocPages \subseteq Pages
      /\ setup.moves \in Nat
  BY SetupType, SetupsAssumption, MaxPagesAssumption
     DEF Inv, ViewType, WakeType, DocPages, Pages, Setup
<1>a. ASSUME UNCHANGED <<setup, fetched, want, fetching, down, moves>>
      PROVE  RestType'
  BY <1>a DEF DocPages
<1>b. ASSUME UNCHANGED <<setup, fetched, fetching>>, down' \in BOOLEAN,
             moves' \in 0 .. setup.moves,
             \A v \in want' : v \in want \/ PageOf(v) \in DocPages
      PROVE  RestType'
  BY <1>b DEF DocPages
<1>m. \A op : Moves(op) => moves' \in 0 .. setup.moves
  BY <1>0 DEF Moves
<1>1. CASE (\E v \in Views : RenderView(v) \/ Pause(v)) \/ Rejected \/ Cleanup
           \/ UNCHANGED vars
  BY <1>1, <1>a DEF RenderView, Pause, Rejected, Cleanup, vars
<1>2. ASSUME NEW v \in Views, Finish(v)
      PROVE  RestType'
  <2>1. /\ UNCHANGED <<setup, fetched, want, down, moves>>
        /\ fetching' = (fetching \/ v \in Pages)
    BY <1>2 DEF Finish
  <2>2. fetching' \in BOOLEAN
    BY <2>1, Zenon
  <2>. QED BY <2>1, <2>2 DEF DocPages
<1>3. ASSUME NEW p \in Pages, Answer(p)
      PROVE  RestType'
  <2>1. /\ UNCHANGED <<setup, fetching, down, moves>> /\ want' \subseteq want
        /\ fetched' = fetched \union {p}
    BY <1>3 DEF Answer
  <2>. QED BY <2>1 DEF DocPages
<1>4. CASE ContinueRendering
  <2>1. /\ UNCHANGED <<setup, fetched, fetching, down, moves>>
        /\ RenderHighestPriority(state, visible, down, sidebar, printing, Tail(jobs), want)
    BY <1>4 DEF ContinueRendering
  <2>. QED BY <1>0, <1>b, <2>1, QueueWishes
<1>5. CASE ScrollUpdate
  <2>1. /\ UNCHANGED <<setup, fetched, fetching, moves>> /\ down' \in BOOLEAN
        /\ \E d : Update(state, visible, d)
    BY <1>5 DEF ScrollUpdate
  <2>. QED BY <1>0, <1>b, <2>1, UpdateWishes
<1>6. CASE Scroll
  BY <1>6, <1>b, <1>m DEF Scroll
<1>7. CASE Zoom
  <2>1. PICK cssOnly \in BOOLEAN : Update(Scaled(state, cssOnly), visible', down)
    BY <1>7 DEF Zoom
  <2>2. UNCHANGED <<setup, fetched, fetching, down>> /\ visible' \in Screens
    BY <1>7 DEF Zoom
  <2>3. moves' \in 0 .. setup.moves
    BY <1>7, <1>m DEF Zoom
  <2>4. PICK st : st = Scaled(state, cssOnly)
    OBVIOUS
  <2>5. st \in [Views -> States]
    BY <1>0, <2>4, ResetStates DEF Scaled
  <2>6. PICK shown \in Screens : shown = visible'
    BY <2>2
  <2>7. Update(st, shown, down)
    BY <2>1, <2>4, <2>6
  <2>. QED BY <1>0, <1>b, <2>2, <2>3, <2>5, <2>7, UpdateWishes
<1>8. CASE Rotate
  <2>1. PICK cssOnly \in BOOLEAN, preset \in BOOLEAN, shown \in Screens :
           LET turned == Reset(Scaled(state, cssOnly),
                               Evicted(buffer, IF preset THEN Resized(shown) ELSE size))
               first == IF preset THEN ToDraw(turned, shown, down, sidebar) ELSE NoView
           IN  RenderHighestPriority(RotatedThumbs(turned), shown, down, sidebar, printing,
                  Rejections(state, Evicted(buffer, IF preset THEN Resized(shown) ELSE size)
                             \union {v \in Views : Scaled(state, cssOnly)[v] # state[v]})
                      \o DrawNow(first) \o Rejections(turned, Thumbs),
                  want \union DrawLater(first))
    BY <1>8 DEF Rotate, Turn
  <2>2. UNCHANGED <<setup, fetched, fetching, down>>
    BY <1>8 DEF Rotate, Turn
  <2>3. moves' \in 0 .. setup.moves
    BY <1>8, <1>m DEF Rotate, Turn
  <2>. PICK turned : turned = Reset(Scaled(state, cssOnly),
                                    Evicted(buffer, IF preset THEN Resized(shown) ELSE size))
    OBVIOUS
  <2>. PICK first : first = IF preset THEN ToDraw(turned, shown, down, sidebar) ELSE NoView
    OBVIOUS
  <2>. PICK after : after = RotatedThumbs(turned)
    OBVIOUS
  <2>4. turned \in [Views -> States] /\ after \in [Views -> States]
    BY <1>0, ResetStates DEF Scaled, RotatedThumbs
  <2>5. \A u \in DrawLater(first) : PageOf(u) \in DocPages
    BY <1>0, <2>4, NowOrLater
  <2>6. PICK q, w : /\ w = want \union DrawLater(first)
                    /\ RenderHighestPriority(after, shown, down, sidebar, printing, q, w)
    BY <2>1
  <2>7. \A v \in want' : v \in w \/ PageOf(v) \in DocPages
    BY <1>0, <2>4, <2>6, QueueWishes
  <2>. QED BY <1>0, <1>b, <2>2, <2>3, <2>5, <2>6, <2>7
<1>9. CASE ToggleSidebar
  <2>1. /\ UNCHANGED <<setup, fetched, fetching, down>> /\ sidebar' = ~sidebar
        /\ state' = state \/ state' = Refreshed(state)
        /\ RenderHighestPriority(state', visible, down, sidebar', printing, <<>>, want)
    BY <1>9 DEF ToggleSidebar
  <2>2. moves' \in 0 .. setup.moves
    BY <1>9, <1>m DEF ToggleSidebar
  <2>3. state' \in [Views -> States]
    BY <1>0, <2>1 DEF Refreshed, WithImages, States
  <2>4. sidebar' \in BOOLEAN
    BY <2>1, Zenon
  <2>. QED BY <1>0, <1>b, <2>1, <2>2, <2>3, <2>4, QueueWishes
<1>10. CASE BeforePrint \/ AfterPrint
  <2>1. /\ UNCHANGED <<setup, fetched, fetching, down>>
        /\ \E print : RenderHighestPriority(state, visible, down, sidebar, print, <<>>, want)
    BY <1>10 DEF BeforePrint, AfterPrint
  <2>2. moves' \in 0 .. setup.moves
    BY <1>10, <1>m DEF BeforePrint, AfterPrint
  <2>. QED BY <1>0, <1>b, <2>1, <2>2, QueueWishes
<1>. QED BY <1>1, <1>2, <1>3, <1>4, <1>5, <1>6, <1>7, <1>8, <1>9, <1>10
         DEF Next, Work, User

\* Only pages of the document are on the screen or waited for, and none that is
\* there already, however many pages it has and whatever the user does.
THEOREM TypeCorrect == Spec => []TypeOK
<1>1. Init => RestType
  <2> SUFFICES ASSUME Init
               PROVE  RestType
    OBVIOUS
  <2>1. 1 \in Pages /\ setup.moves \in Nat
    BY MaxPagesAssumption, SetupsAssumption DEF Init, Pages, Setup
  <2>2. fetching \in BOOLEAN /\ down \in BOOLEAN
    BY Zenon DEF Init
  <2>3. fetched \subseteq Pages /\ want = {} /\ moves \in 0 .. setup.moves
    BY <2>1 DEF Init
  <2>. QED BY <2>2, <2>3 DEF RestType
<1>2. Inv /\ WakeInv /\ RestType => TypeOK
  <2> SUFFICES ASSUME Inv, WakeInv, RestType
               PROVE  TypeOK
    OBVIOUS
  <2>1. {fetching, down, scrolled, sidebar, printing, idle} \subseteq BOOLEAN
    BY Zenon DEF Inv, ViewType, WakeInv, WakeType, RestType
  <2>2. /\ setup \in Setups /\ state \in [Views -> States]
        /\ highest \in Views \union {NoView} /\ buffer \in Seq(Pages)
        /\ size \in Nat /\ visible \in Screens /\ jobs \in Seq(Job)
    BY DEF Inv, ViewType, WakeInv, WakeType
  <2>3. /\ fetched \in SUBSET Pages /\ want \in SUBSET Views
        /\ \A v \in want : PageOf(v) \in DocPages \ fetched
        /\ moves \in 0 .. setup.moves
    BY DEF WakeInv, Wished, RestType
  <2>. QED BY <2>1, <2>2, <2>3 DEF TypeOK, States, Job
<1>3. Inv /\ WakeInv /\ RestType /\ [Next]_vars => (Inv /\ WakeInv /\ RestType)'
  BY NextInv, NextWake, RestStep DEF WakeInv
<1>4. Init => WakeInv
  BY InitWake
<1>. QED BY <1>1, <1>2, <1>3, <1>4, InitInv, PTL DEF Spec
=============================================================================
