---------------------------- MODULE ReaderProofs ----------------------------
(***************************************************************************)
(* Proofs about the drawer and the tooltip: for any glossary, with pages   *)
(* that mention each other as they like, and any number of typesets and    *)
(* timers under way.                                                       *)
(***************************************************************************)
EXTENDS Reader, SequenceTheorems, TLAPS

\* A page never has more links to a term than mentions of it.
PageSound(p) ==
  /\ p \in [of: Terms \cup {None}, links: [Terms -> Nat]]
  /\ \A u \in Terms : p.links[u] <= IF p.of = None THEN 0 ELSE Mentions[p.of][u]

\* A trail that Back can walk.
TrailOf(s) == s \in Seq(Terms) /\ \A i \in 2..Len(s) : s[i] # s[i - 1]

\* There is a page in the drawer whenever it is not closed, and whenever a page
\* is being typeset.
PageThere ==
  /\ drawer # "closed" => body.of \in Terms
  /\ \A t \in Terms : typesets[t] > 0 => body.of \in Terms

\* The tooltip that is opaque, or will be at the next frame, is of some term.
TipThere == frame \/ tip.opaque => tip.term \in Terms

ReaderInv == TrailSound /\ PageThere /\ TipThere

\* A patient reader has one page typeset at a time, the one in the drawer, and
\* it has no links yet.
TypesetsItsPage == \A t \in Terms : typesets[t] <= 1 /\ (typesets[t] > 0 => body = Page(t))

LinkedOnce == \A t \in Terms : body.links[t] <= IF t = body.of THEN 0 ELSE 1

\* And a tooltip on the way is that of the link under the mouse.
TipOnTheWay ==
  /\ frame \/ tip.opaque => tip.term = over
  /\ ttTimer # None => ttTimer = over

PatientInv == patient => TypesetsItsPage /\ LinkedOnce /\ TipOnTheWay

-----------------------------------------------------------------------------
(* Trails and pages.                                                       *)

LEMMA PushedTrail ==
  ASSUME TrailOf(stack), NEW id \in Terms
  PROVE  TrailOf(Pushed(id)) /\ Pushed(id) # <<>> /\ Last(Pushed(id)) = id
<1>1. CASE stack # <<>> /\ Last(stack) = id
  BY <1>1 DEF Pushed
<1>2. CASE ~(stack # <<>> /\ Last(stack) = id)
  <2> DEFINE s == Append(stack, id)
  <2>1. /\ stack \in Seq(Terms) /\ Len(stack) \in Nat
        /\ s \in Seq(Terms) /\ Len(s) = Len(stack) + 1 /\ s[Len(s)] = id
        /\ \A i \in 1..Len(stack) : s[i] = stack[i]
    BY DEF TrailOf
  <2>2. stack # <<>> => stack[Len(stack)] # id
    BY <1>2 DEF Last
  <2> HIDE DEF s
  <2>3. ASSUME NEW i \in 2..Len(s) PROVE s[i] # s[i - 1]
    <3>1. CASE i = Len(s)
      BY <2>1, <2>2, <2>3, <3>1
    <3>2. CASE i # Len(s)
      BY <2>1, <2>3, <3>2 DEF TrailOf
    <3>3. QED
      BY <3>1, <3>2
  <2>4. Pushed(id) = s
    BY <1>2 DEF Pushed, s
  <2>5. QED
    BY <2>1, <2>3, <2>4 DEF TrailOf, Last
<1>3. QED
  BY <1>1, <1>2

LEMMA PrefixTrail ==
  ASSUME NEW s, TrailOf(s), NEW n \in 1..Len(s)
  PROVE  TrailOf(SubSeq(s, 1, n)) /\ SubSeq(s, 1, n) # <<>>
<1> DEFINE p == SubSeq(s, 1, n)
<1>1. s \in Seq(Terms) /\ n \in Nat /\ n <= Len(s)
  BY DEF TrailOf
<1>2. p \in Seq(Terms) /\ Len(p) = n /\ \A i \in 1..n : p[i] = s[i]
  BY <1>1, SubSeqProperties
<1> HIDE DEF p
<1>3. TrailOf(p) /\ p # <<>>
  BY <1>1, <1>2 DEF TrailOf
<1>4. QED
  BY <1>3 DEF p

LEMMA LastOfTrail ==
  ASSUME NEW s, TrailOf(s), s # <<>>
  PROVE  Last(s) \in Terms
BY DEF TrailOf, Last

LEMMA PageOfTerm ==
  ASSUME NEW t \in Terms
  PROVE  PageSound(Page(t)) /\ Page(t).of = t /\ \A u \in Terms : Page(t).links[u] = 0
BY ReaderAssumption DEF Page, PageSound

\* autolink adds a link to a term at most, and none to the one it skips.
LEMMA AutolinkedPage ==
  ASSUME NEW p, PageSound(p), p.of \in Terms, NEW skip \in Terms, NEW q, q = Autolinked(p, skip)
  PROVE  /\ PageSound(q) /\ q.of = p.of
         /\ q.links[skip] = p.links[skip]
         /\ \A u \in Terms : q.links[u] <= p.links[u] + 1
<1> DEFINE links == [u \in Terms |-> IF u # skip /\ p.links[u] < Mentions[p.of][u]
                                     THEN p.links[u] + 1 ELSE p.links[u]]
<1>1. p.links \in [Terms -> Nat] /\ p \in [of: Terms \cup {None}, links: [Terms -> Nat]]
  BY DEF PageSound
<1>2. q = [p EXCEPT !.links = links]
  BY DEF Autolinked
<1>3. links \in [Terms -> Nat] /\ links[skip] = p.links[skip]
  BY <1>1
<1>4. \A u \in Terms : Mentions[p.of][u] \in Nat
  BY ReaderAssumption
<1>5. \A u \in Terms : links[u] <= p.links[u] + 1 /\ links[u] <= Mentions[p.of][u]
  BY <1>1, <1>4, ReaderAssumption DEF PageSound
<1> HIDE DEF links
<1>6. q.links = links /\ q.of = p.of /\ q \in [of: Terms \cup {None}, links: [Terms -> Nat]]
  BY <1>1, <1>2, <1>3
<1>7. QED
  BY <1>3, <1>5, <1>6, ReaderAssumption DEF PageSound

-----------------------------------------------------------------------------
(* The drawer.                                                             *)

DrawerInv ==
  /\ drawer \in {"open", "closing", "closed"} /\ TrailOf(stack) /\ crumbs \in Seq(Terms)
  /\ PageSound(body) /\ typesets \in [Terms -> Nat]
  /\ ShowsEndOfTrail /\ PageThere

PatientPages == patient => TypesetsItsPage /\ LinkedOnce

\* renderDrawer.
LEMMA Rendered ==
  ASSUME typesets \in [Terms -> Nat], NEW s, TrailOf(s), s # <<>>, RenderDrawer(s), CanRender, patient' = patient
  PROVE  /\ crumbs' = s /\ PageSound(body') /\ body'.of = Last(s) /\ body'.of \in Terms
         /\ typesets' \in [Terms -> Nat]
         /\ PatientPages'
<1> DEFINE id == Last(s)
<1>1. id \in Terms /\ crumbs' = s
  BY LastOfTrail DEF RenderDrawer
<1>2. patient => \A t \in Terms : typesets[t] = 0
  BY DEF CanRender
<1>3. PageSound(Page(id)) /\ Page(id).of = id /\ \A u \in Terms : Page(id).links[u] = 0
  BY <1>1, PageOfTerm
<1> HIDE DEF id
<1>4. CASE mathjax
  <2>1. body' = Page(id) /\ typesets' = [typesets EXCEPT ![id] = typesets[id] + 1]
    BY <1>4 DEF RenderDrawer, id
  <2>2. typesets' \in [Terms -> Nat]
    BY <1>1, <2>1
  <2>3. patient => TypesetsItsPage'
    BY <1>1, <1>2, <2>1 DEF TypesetsItsPage
  <2>4. LinkedOnce'
    BY <1>3, <2>1 DEF LinkedOnce
  <2>5. QED
    BY <1>1, <1>3, <2>1, <2>2, <2>3, <2>4 DEF PatientPages, id
<1>5. CASE ~mathjax
  <2>1. body' = Autolinked(Page(id), id) /\ typesets' = typesets
    BY <1>5 DEF RenderDrawer, id
  <2>2. /\ PageSound(body') /\ body'.of = id /\ body'.links[id] = 0
        /\ \A u \in Terms : body'.links[u] <= Page(id).links[u] + 1
    BY <1>1, <1>3, <2>1, AutolinkedPage
  <2>3. LinkedOnce'
    BY <1>3, <2>2 DEF LinkedOnce
  <2>4. patient => TypesetsItsPage'
    BY <1>2, <2>1 DEF TypesetsItsPage
  <2>5. QED
    BY <1>1, <2>1, <2>2, <2>3, <2>4 DEF PatientPages, id
<1>6. QED
  BY <1>4, <1>5

\* openTerm.
LEMMA Opened ==
  ASSUME DrawerInv, NEW id \in Terms, OpenTerm(id), patient' = patient
  PROVE  DrawerInv' /\ PatientPages'
<1> DEFINE s == Pushed(id)
<1>1. TrailOf(s) /\ s # <<>>
  BY PushedTrail DEF DrawerInv
<1>2. RenderDrawer(s) /\ CanRender /\ stack' = s /\ drawer' = "open"
  BY DEF OpenTerm
<1> HIDE DEF s
<1>3. /\ crumbs' = s /\ PageSound(body') /\ body'.of = Last(s) /\ body'.of \in Terms
      /\ typesets' \in [Terms -> Nat] /\ PatientPages'
  BY <1>1, <1>2, Rendered DEF DrawerInv
<1>4. QED
  BY <1>1, <1>2, <1>3 DEF DrawerInv, ShowsEndOfTrail, PageThere, TrailOf

LEMMA BackKept ==
  ASSUME DrawerInv, PatientPages, DrawerBack
  PROVE  DrawerInv' /\ PatientPages'
<1> DEFINE s == Front(stack)
<1>0. CanRender /\ patient' = patient /\ TrailOf(stack)
  BY DEF DrawerBack, DrawerInv
<1>1. CASE s # <<>>
  <2>1. TrailOf(s) /\ drawer = "open"
    <3>1. stack # <<>>
      BY <1>1, SubSeqEmpty DEF Front
    <3>2. PICK n \in Int : n = Len(stack) - 1
      BY <1>0 DEF TrailOf
    <3>3. s = SubSeq(stack, 1, n)
      BY <3>2 DEF Front
    <3>4. n >= 1
      BY <1>1, <3>3, SubSeqEmpty
    <3>5. n \in 1..Len(stack)
      BY <1>0, <3>2, <3>4 DEF TrailOf
    <3>6. QED
      BY <1>0, <3>1, <3>3, <3>5, PrefixTrail DEF DrawerInv, ShowsEndOfTrail
  <2>2. RenderDrawer(s) /\ stack' = s /\ drawer' = drawer
    BY <1>1 DEF DrawerBack
  <2> HIDE DEF s
  <2>3. /\ crumbs' = s /\ PageSound(body') /\ body'.of = Last(s) /\ body'.of \in Terms
        /\ typesets' \in [Terms -> Nat] /\ PatientPages'
    BY <1>0, <1>1, <2>1, <2>2, Rendered DEF DrawerInv
  <2>4. QED
    BY <1>1, <2>1, <2>2, <2>3 DEF DrawerInv, ShowsEndOfTrail, PageThere, TrailOf
<1>2. CASE s = <<>>
  <2>1. CloseDrawer
    BY <1>2 DEF DrawerBack
  <2>2. body.of \in Terms
    BY DEF DrawerInv, PageThere, DrawerBack
  <2>3. QED
    BY <1>0, <2>1, <2>2 DEF CloseDrawer, DrawerInv, ShowsEndOfTrail, PageThere, TrailOf, PatientPages,
                            TypesetsItsPage, LinkedOnce
<1>3. QED
  BY <1>1, <1>2

LEMMA CrumbKept ==
  ASSUME DrawerInv, PatientPages, Crumb
  PROVE  DrawerInv' /\ PatientPages'
<1>1. PICK i \in DOMAIN crumbs :
        LET s == SubSeq(stack, 1, IF i < Len(stack) THEN i ELSE Len(stack))
        IN  /\ stack' = s
            /\ \/ s # <<>> /\ RenderDrawer(s)
               \/ s = <<>> /\ crumbs' = s /\ UNCHANGED <<body, typesets>>
  BY DEF Crumb
<1> DEFINE n == IF i < Len(stack) THEN i ELSE Len(stack)
           s == SubSeq(stack, 1, n)
<1>2. /\ CanRender /\ patient' = patient /\ TrailOf(stack) /\ drawer' = drawer /\ drawer # "closed"
      /\ body.of \in Terms /\ i \in Nat \ {0} /\ Len(stack) \in Nat /\ crumbs \in Seq(Terms)
  <2>1. CanRender /\ patient' = patient /\ drawer' = drawer /\ drawer # "closed"
    BY DEF Crumb
  <2>2. TrailOf(stack) /\ crumbs \in Seq(Terms) /\ body.of \in Terms
    BY <2>1 DEF DrawerInv, PageThere
  <2>3. Len(stack) \in Nat /\ i \in Nat \ {0}
    BY <2>2 DEF TrailOf
  <2>4. QED
    BY <2>1, <2>2, <2>3
<1>3. CASE drawer = "open"
  <2>1. n \in 1..Len(stack)
    BY <1>2, <1>3 DEF DrawerInv, ShowsEndOfTrail, TrailOf
  <2>2. TrailOf(s) /\ s # <<>>
    BY <1>2, <2>1, PrefixTrail
  <2>3. RenderDrawer(s) /\ stack' = s
    BY <1>1, <2>2
  <2> HIDE DEF s
  <2>4. /\ crumbs' = s /\ PageSound(body') /\ body'.of = Last(s) /\ body'.of \in Terms
        /\ typesets' \in [Terms -> Nat] /\ PatientPages'
    BY <1>2, <2>2, <2>3, Rendered DEF DrawerInv
  <2>5. QED
    BY <1>2, <1>3, <2>2, <2>3, <2>4 DEF DrawerInv, ShowsEndOfTrail, PageThere, TrailOf
<1>4. CASE drawer # "open"
  <2>1. stack = <<>> /\ s = <<>>
    BY <1>2, <1>4, SubSeqEmpty DEF DrawerInv, ShowsEndOfTrail
  <2>2. stack' = <<>> /\ crumbs' = <<>> /\ UNCHANGED <<body, typesets>>
    BY <1>1, <2>1
  <2>3. QED
    BY <1>2, <1>4, <2>1, <2>2 DEF DrawerInv, ShowsEndOfTrail, PageThere, TrailOf, PatientPages,
                                  TypesetsItsPage, LinkedOnce
<1>5. QED
  BY <1>3, <1>4

\* MathJax's answer: the page in the drawer, whatever it was drawn for.
LEMMA TypesetKept ==
  ASSUME DrawerInv, PatientPages, NEW t \in Terms, Typeset(t)
  PROVE  DrawerInv' /\ PatientPages'
<1>1. /\ typesets[t] > 0 /\ body' = Autolinked(body, t) /\ patient' = patient
      /\ typesets' = [typesets EXCEPT ![t] = typesets[t] - 1]
      /\ UNCHANGED <<stack, drawer, crumbs>>
  BY DEF Typeset
<1>2. PageSound(body) /\ body.of \in Terms /\ typesets \in [Terms -> Nat]
  BY <1>1 DEF DrawerInv, PageThere
<1>3. /\ PageSound(body') /\ body'.of = body.of /\ body'.links[t] = body.links[t]
      /\ \A u \in Terms : body'.links[u] <= body.links[u] + 1
  BY <1>1, <1>2, AutolinkedPage
<1>4. DrawerInv'
  BY <1>1, <1>2, <1>3 DEF DrawerInv, ShowsEndOfTrail, PageThere, TrailOf
<1>5. ASSUME patient PROVE TypesetsItsPage' /\ LinkedOnce'
  <2>1. body = Page(t) /\ typesets[t] = 1
    BY <1>1, <1>2, <1>5 DEF PatientPages, TypesetsItsPage
  <2>2. body.of = t /\ \A u \in Terms : body.links[u] = 0
    BY <2>1, PageOfTerm
  <2>3. \A u \in Terms : u # t => typesets[u] = 0
    <3>1. ASSUME NEW u \in Terms, u # t, typesets[u] # 0 PROVE FALSE
      <4>1. body = Page(u)
        BY <1>2, <1>5, <3>1 DEF PatientPages, TypesetsItsPage
      <4>2. QED
        BY <2>2, <3>1, <4>1, PageOfTerm
    <3>2. QED
      BY <3>1
  <2>4. \A u \in Terms : typesets'[u] = 0
    BY <1>1, <1>2, <2>1, <2>3
  <2>5. QED
    BY <1>3, <2>2, <2>4 DEF TypesetsItsPage, LinkedOnce
<1>6. QED
  BY <1>1, <1>4, <1>5 DEF PatientPages

\* The drawer's pages through every step.
LEMMA DrawerKept ==
  ASSUME DrawerInv, PatientPages, over \in Terms \cup {None}, Next
  PROVE  DrawerInv' /\ PatientPages'
<1>1. ASSUME NEW id \in Terms, OpenTerm(id), patient' = patient
      PROVE  DrawerInv' /\ PatientPages'
  BY <1>1, Opened
<1>2. CASE Click
  <2>1. \A id \in Related[body.of] : drawer # "closed" => id \in Terms
    BY ReaderAssumption DEF DrawerInv, PageThere
  <2>2. PICK id \in Terms : OpenTerm(id)
    BY <1>2, <2>1 DEF Click
  <2>3. QED
    BY <1>1, <1>2, <2>2 DEF Click
<1>3. CASE DrawerBack
  BY <1>3, BackKept
<1>4. CASE Crumb
  BY <1>4, CrumbKept
<1>5. ASSUME NEW t \in Terms, Typeset(t)
      PROVE  DrawerInv' /\ PatientPages'
  BY <1>5, TypesetKept
<1>6. ASSUME UNCHANGED <<stack, crumbs, body, typesets, patient>>, drawer' = drawer
      PROVE  DrawerInv' /\ PatientPages'
  BY <1>6 DEF DrawerInv, ShowsEndOfTrail, PageThere, TrailOf, PatientPages, TypesetsItsPage, LinkedOnce
<1>7. CASE MouseOver \/ MouseOut \/ ShowTooltip \/ Frame \/ Hidden \/ PageRedrawn \/ MathJaxLoads
  BY <1>6, <1>7 DEF MouseOver, MouseOut, ShowTooltip, Frame, Hidden, PageRedrawn, MathJaxLoads, trail
<1>8. CASE Close \/ SlidOut
  <2>1. /\ UNCHANGED <<crumbs, body, typesets, patient>> /\ stack' = <<>>
        /\ drawer # "closed" /\ drawer' \in {"closing", "closed"}
    BY <1>8 DEF Close, CloseDrawer, SlidOut, DrawerInv, ShowsEndOfTrail
  <2>2. body.of \in Terms
    BY <2>1 DEF DrawerInv, PageThere
  <2>3. QED
    BY <2>1, <2>2 DEF DrawerInv, ShowsEndOfTrail, PageThere, TrailOf, PatientPages, TypesetsItsPage, LinkedOnce
<1>9. QED
  BY <1>2, <1>3, <1>4, <1>5, <1>7, <1>8 DEF Next

-----------------------------------------------------------------------------
(* The tooltip.                                                            *)

HoverInv ==
  /\ over \in Terms \cup {None} /\ ttTimer \in Terms \cup {None}
  /\ tip \in [term: Terms \cup {None}, display: BOOLEAN, opaque: BOOLEAN]
  /\ frame \in BOOLEAN /\ hides \in Nat
  /\ TipThere

PatientTip == patient => TipOnTheWay

LEMMA TooltipHidden ==
  ASSUME HoverInv, HideTooltip
  PROVE  /\ tip' \in [term: Terms \cup {None}, display: BOOLEAN, opaque: BOOLEAN]
         /\ tip'.term = tip.term /\ ~tip'.opaque
         /\ ttTimer' = None /\ hides' \in Nat /\ frame' = frame
<1>1. tip' = [tip EXCEPT !.opaque = FALSE]
  BY DEF HideTooltip
<1>2. /\ tip' \in [term: Terms \cup {None}, display: BOOLEAN, opaque: BOOLEAN]
      /\ tip'.term = tip.term /\ ~tip'.opaque
  BY <1>1 DEF HoverInv
<1>3. hides' \in Nat
  BY DEF HoverInv, HideTooltip
<1>4. QED
  BY <1>2, <1>3 DEF HideTooltip

\* hideTooltip of a learner who gives frames their time.
LEMMA HidingKept ==
  ASSUME HoverInv, CanHide, HideTooltip, over' \in Terms \cup {None}, patient' = patient
  PROVE  HoverInv' /\ PatientTip'
<1>1. patient => ~frame
  BY DEF CanHide
<1>2. QED
  BY <1>1, TooltipHidden DEF HoverInv, PatientTip, TipThere, TipOnTheWay

LEMMA HoverKept ==
  ASSUME HoverInv, PatientTip, Next
  PROVE  HoverInv' /\ PatientTip'
<1>1. CASE MouseOver
  <2>1. PICK t \in Terms : over' = t /\ ttTimer' = t
    BY <1>1 DEF MouseOver, Links
  <2>2. over = None /\ UNCHANGED <<tip, frame, hides, patient>>
    BY <1>1 DEF MouseOver
  <2>3. patient => ~frame /\ ~tip.opaque
    BY <2>2, ReaderAssumption DEF HoverInv, TipThere, PatientTip, TipOnTheWay
  <2>4. QED
    BY <2>1, <2>2, <2>3 DEF HoverInv, TipThere, PatientTip, TipOnTheWay
<1>2. CASE MouseOut
  BY <1>2, HidingKept DEF MouseOut
<1>3. CASE ShowTooltip
  <2>1. /\ ttTimer \in Terms /\ tip' = [tip EXCEPT !.term = ttTimer, !.display = TRUE]
        /\ ttTimer' = None /\ frame' = TRUE /\ UNCHANGED <<over, hides, patient>>
    BY <1>3 DEF ShowTooltip, HoverInv
  <2>2. /\ tip' \in [term: Terms \cup {None}, display: BOOLEAN, opaque: BOOLEAN]
        /\ tip'.term = ttTimer
    BY <2>1 DEF HoverInv
  <2>3. patient => ttTimer = over
    BY <2>1, ReaderAssumption DEF PatientTip, TipOnTheWay
  <2>4. QED
    BY <2>1, <2>2, <2>3 DEF HoverInv, TipThere, PatientTip, TipOnTheWay
<1>4. CASE Frame \/ Hidden
  <2>1. /\ tip' \in [term: Terms \cup {None}, display: BOOLEAN, opaque: BOOLEAN]
        /\ tip'.term = tip.term /\ (frame' \/ tip'.opaque => frame \/ tip.opaque)
    <3>1. tip.display \in BOOLEAN /\ tip.opaque \in BOOLEAN
      BY DEF HoverInv
    <3>2. CASE Frame
      <4>1. frame /\ tip' = [tip EXCEPT !.opaque = TRUE]
        BY <3>2 DEF Frame
      <4>2. QED
        BY <4>1 DEF HoverInv
    <3>3. CASE Hidden
      <4> DEFINE display == tip.display /\ tip.opaque
      <4>1. display \in BOOLEAN
        BY <3>1
      <4>2. tip' = [tip EXCEPT !.display = display]
        BY <3>3 DEF Hidden
      <4>3. frame' = frame
        BY <3>3 DEF Hidden
      <4> HIDE DEF display
      <4>4. QED
        BY <4>1, <4>2, <4>3 DEF HoverInv
    <3>4. QED
      BY <1>4, <3>2, <3>3
  <2>2. UNCHANGED <<over, ttTimer, patient>>
    BY <1>4 DEF Frame, Hidden
  <2>3. frame' \in BOOLEAN /\ hides' \in Nat
    <3>1. hides \in Nat /\ frame \in BOOLEAN
      BY DEF HoverInv
    <3>2. CASE Frame
      BY <3>1, <3>2 DEF Frame
    <3>3. CASE Hidden
      BY <3>1, <3>3 DEF Hidden
    <3>4. QED
      BY <1>4, <3>2, <3>3
  <2>4. QED
    BY <2>1, <2>2, <2>3 DEF HoverInv, TipThere, PatientTip, TipOnTheWay
<1>5. CASE PageRedrawn
  BY <1>5 DEF PageRedrawn, HoverInv, TipThere, PatientTip, TipOnTheWay
<1>6. CASE Click
  <2>1. CanHide /\ HideTooltip /\ over' \in {over, None} /\ patient' = patient
    BY <1>6 DEF Click, OpenTerm
  <2>2. QED
    BY <2>1, HidingKept DEF HoverInv
<1>7. ASSUME UNCHANGED hover, patient' = patient
      PROVE  HoverInv' /\ PatientTip'
  BY <1>7 DEF hover, HoverInv, TipThere, PatientTip, TipOnTheWay
<1>8. CASE Close \/ SlidOut \/ DrawerBack \/ Crumb \/ MathJaxLoads
  BY <1>7, <1>8 DEF Close, SlidOut, DrawerBack, Crumb, MathJaxLoads
<1>9. ASSUME NEW t \in Terms, Typeset(t)
      PROVE  HoverInv' /\ PatientTip'
  BY <1>7, <1>9 DEF Typeset
<1>10. QED
  BY <1>1, <1>2, <1>3, <1>4, <1>5, <1>6, <1>8, <1>9 DEF Next

-----------------------------------------------------------------------------
(* The whole.                                                              *)

LEMMA ReaderParts ==
  ReaderInv /\ PatientInv <=>
    (DrawerInv /\ HoverInv /\ mathjax \in BOOLEAN /\ patient \in BOOLEAN /\ PatientPages /\ PatientTip)
BY DEF ReaderInv, PatientInv, TrailSound, TypeOK, BackGoesSomewhere, TrailOf, PageSound, DrawerInv, HoverInv,
       PatientPages, PatientTip

LEMMA ReaderPartsNext ==
  ASSUME DrawerInv', HoverInv', mathjax' \in BOOLEAN, patient' \in BOOLEAN, PatientPages', PatientTip'
  PROVE  ReaderInv' /\ PatientInv'
BY DEF ReaderInv, PatientInv, TrailSound, TypeOK, BackGoesSomewhere, TrailOf, PageSound, DrawerInv, HoverInv,
       PatientPages, PatientTip

LEMMA ReaderInitial == Init => ReaderInv /\ PatientInv
<1> SUFFICES ASSUME Init PROVE ReaderInv /\ PatientInv
  OBVIOUS
<1>1. PageSound(body) /\ body.of = None /\ \A u \in Terms : body.links[u] = 0
  BY DEF Init, Page, PageSound
<1>2. TrailOf(stack) /\ crumbs \in Seq(Terms)
  BY DEF Init, TrailOf
<1>3. DrawerInv /\ PatientPages
  BY <1>1, <1>2 DEF Init, DrawerInv, ShowsEndOfTrail, PageThere, PatientPages, TypesetsItsPage, LinkedOnce
<1>4. HoverInv /\ PatientTip
  BY DEF Init, HoverInv, TipThere, PatientTip, TipOnTheWay
<1>5. QED
  BY <1>3, <1>4, ReaderParts DEF Init

LEMMA ReaderStep == ReaderInv /\ PatientInv /\ [Next]_vars => ReaderInv' /\ PatientInv'
<1> SUFFICES ASSUME ReaderInv, PatientInv, [Next]_vars
             PROVE  ReaderInv' /\ PatientInv'
  OBVIOUS
<1>1. DrawerInv /\ HoverInv /\ mathjax \in BOOLEAN /\ patient \in BOOLEAN /\ PatientPages /\ PatientTip
  BY ReaderParts
<1>2. CASE UNCHANGED vars
  <2>1. /\ DrawerInv' /\ PatientPages'
    BY <1>1, <1>2 DEF vars, trail, DrawerInv, ShowsEndOfTrail, PageThere, TrailOf, PatientPages,
                      TypesetsItsPage, LinkedOnce
  <2>2. HoverInv' /\ PatientTip' /\ mathjax' \in BOOLEAN /\ patient' \in BOOLEAN
    BY <1>1, <1>2 DEF vars, hover, HoverInv, TipThere, PatientTip, TipOnTheWay
  <2>3. QED
    BY <2>1, <2>2, ReaderPartsNext
<1>3. CASE Next
  <2>1. DrawerInv' /\ PatientPages'
    BY <1>1, <1>3, DrawerKept DEF HoverInv
  <2>2. HoverInv' /\ PatientTip'
    BY <1>1, <1>3, HoverKept
  <2>3. mathjax' \in BOOLEAN /\ patient' = patient
    BY <1>1, <1>3 DEF Next, MouseOver, MouseOut, ShowTooltip, Frame, Hidden, PageRedrawn, Click, Close, SlidOut,
                      DrawerBack, Crumb, MathJaxLoads, Typeset
  <2>4. QED
    BY <1>1, <2>1, <2>2, <2>3, ReaderPartsNext
<1>4. QED
  BY <1>2, <1>3

\* What holds of the drawer and the tooltip for any reader, and for a patient
\* one besides.
THEOREM ReaderInvariant == Spec => [](ReaderInv /\ PatientInv)
<1>1. (ReaderInv /\ PatientInv) /\ [Next]_vars => (ReaderInv /\ PatientInv)'
  BY ReaderStep
<1>2. QED
  BY <1>1, ReaderInitial, PTL DEF Spec

\* openTerm, drawerBack, the breadcrumbs and closeDrawer, in any order and while
\* the drawer slides: an open drawer shows the end of its trail, and no term
\* follows itself on it.
THEOREM ReaderTrailSound == Spec => []TrailSound
<1>1. ReaderInv => TrailSound
  BY DEF ReaderInv
<1>2. QED
  BY <1>1, ReaderInvariant, PTL

\* autolink: for a reader who waits for MathJax a page has one link to a term
\* at most and none to its own, however often terms mention each other.
THEOREM ReaderPagesLinkedOnce == Spec => []PatientPagesLinkedOnce
<1>1. PatientInv => PatientPagesLinkedOnce
  BY DEF PatientInv, LinkedOnce, PatientPagesLinkedOnce
<1>2. QED
  BY <1>1, ReaderInvariant, PTL

\* hideTooltip and showTooltip: for a mouse that stays a frame where it is, the
\* tooltip seen or to come is that of the link under it.
THEOREM ReaderTipIsHovered == Spec => []PatientTipIsHovered
<1>1. PatientInv => PatientTipIsHovered
  BY DEF PatientInv, TipOnTheWay, PatientTipIsHovered
<1>2. QED
  BY <1>1, ReaderInvariant, PTL

=============================================================================
