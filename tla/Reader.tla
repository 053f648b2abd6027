------------------------------- MODULE Reader -------------------------------
(***************************************************************************)
(* The term drawer and the tooltip, which every mode shares.  The drawer   *)
(* keeps a trail of terms and shows the page of the last one; the page is  *)
(* typeset by MathJax and its terms are linked when MathJax is done, by    *)
(* when another page may be in the drawer.  The tooltip of a hovered link  *)
(* is shown and hidden by timers and by an animation frame.                *)
(***************************************************************************)
EXTENDS Integers, Sequences, SequencesExt

CONSTANTS
  Terms, None,              \* keys of GLOSSARY; None: undefined, null
  Mentions,                 \* Mentions[t][u]: how often the page of t names u
  Related,                  \* Related[t]: the chips at the end of its page
  MaxTrail,                 \* bounds: terms on the trail,
  MaxTypesets,              \* typesets under way, of one page,
  MaxHides                  \* and timers of hideTooltip

ASSUME ReaderAssumption ==
  /\ None \notin Terms
  /\ Mentions \in [Terms -> [Terms -> Nat]]
  /\ Related \in [Terms -> SUBSET Terms]
  /\ MaxTrail \in Nat \ {0} /\ MaxTypesets \in Nat \ {0} /\ MaxHides \in Nat \ {0}

VARIABLES
  stack,                    \* the trail, `stack`
  drawer,                   \* "open"; "closing" while it slides out; "closed"
  crumbs,                   \* the trail #crumbs shows
  body,                     \* #drawerBody: whose page, and its links to each
  mathjax,                  \* MathJax is loaded
  typesets,                 \* how many are under way for a page of each term
  over,                     \* the linked term under the mouse
  ttTimer,                  \* the term it will be shown for
  tip,                      \* #tooltip: of which term, displayed, opaque
  frame,                    \* the frame that makes it opaque is to come
  hides,                    \* timers of hideTooltip
  patient                   \* the reader gives typesets and frames their time

trail == <<stack, drawer, crumbs, body, typesets>>
hover == <<over, ttTimer, tip, frame, hides>>
vars == <<trail, mathjax, hover, patient>>

Page(t) == [of |-> t, links |-> [u \in Terms |-> 0]]

Init ==
  /\ stack = <<>> /\ drawer = "closed" /\ crumbs = <<>> /\ body = Page(None)
  /\ mathjax = FALSE /\ typesets = [t \in Terms |-> 0]
  /\ over = None /\ ttTimer = None
  /\ tip = [term |-> None, display |-> FALSE, opaque |-> FALSE]
  /\ frame = FALSE /\ hides = 0
  /\ patient \in BOOLEAN

-----------------------------------------------------------------------------
(* The tooltip.                                                            *)

\* Slips: the timer that shows it is left running, or the one that takes it
\* off the page is not set.
HideTooltipLater ==
  /\ tip' = [tip EXCEPT !.opaque = FALSE] /\ hides' = hides + 1
  /\ UNCHANGED <<ttTimer, frame>>
HideTooltipFadeOnly ==
  /\ tip' = [tip EXCEPT !.opaque = FALSE] /\ ttTimer' = None
  /\ UNCHANGED <<frame, hides>>

HideTooltip ==
  /\ tip' = [tip EXCEPT !.opaque = FALSE] /\ ttTimer' = None /\ hides' = hides + 1
  /\ UNCHANGED frame

CanHide == hides < MaxHides /\ (patient => ~frame)

\* Links under the mouse: in the drawer, or on the page when nothing covers it.
Links == IF drawer = "closed" THEN Terms ELSE {t \in Terms : body.links[t] > 0}

MouseOver ==
  /\ over = None
  /\ \E t \in Links : over' = t /\ ttTimer' = t
  /\ UNCHANGED <<trail, mathjax, tip, frame, hides, patient>>

MouseOut ==
  /\ over # None /\ CanHide
  /\ over' = None /\ HideTooltip
  /\ UNCHANGED <<trail, mathjax, patient>>

\* showTooltip.  Its 280 ms are longer than the 150 ms of the hides before it.
ShowTooltip ==
  /\ ttTimer # None /\ hides = 0 /\ ~frame
  /\ tip' = [tip EXCEPT !.term = ttTimer, !.display = TRUE]
  /\ ttTimer' = None /\ frame' = TRUE
  /\ UNCHANGED <<trail, mathjax, over, hides, patient>>

Frame ==
  /\ frame /\ frame' = FALSE
  /\ tip' = [tip EXCEPT !.opaque = TRUE]
  /\ UNCHANGED <<trail, mathjax, over, ttTimer, hides, patient>>

\* A frame is sooner than any timer set before it.
Hidden ==
  /\ hides > 0 /\ ~frame /\ hides' = hides - 1
  /\ tip' = [tip EXCEPT !.display = @ /\ tip.opaque]
  /\ UNCHANGED <<trail, mathjax, over, ttTimer, frame, patient>>

\* A key or a timer redraws the page below: the link is gone, and no event
\* tells the tooltip.
PageRedrawn ==
  /\ drawer = "closed" /\ over # None /\ ~patient
  /\ over' = None
  /\ UNCHANGED <<trail, mathjax, ttTimer, tip, frame, hides, patient>>

-----------------------------------------------------------------------------
(* The drawer.                                                             *)

\* A slip: the term of the page is linked too.
AutolinkedUnskipped(page, skip) ==
  [page EXCEPT !.links = [u \in Terms |-> IF @[u] < Mentions[page.of][u] THEN @[u] + 1 ELSE @[u]]]

\* autolink: the first mention of every term, but `skip`, that is not in a
\* link yet.
Autolinked(page, skip) ==
  [page EXCEPT !.links = [u \in Terms |->
     IF u # skip /\ @[u] < Mentions[page.of][u] THEN @[u] + 1 ELSE @[u]]]

\* renderDrawer for the trail s, and typesetThenLink of the page.
RenderDrawer(s) ==
  /\ crumbs' = s
  /\ IF mathjax
     THEN body' = Page(Last(s)) /\ typesets' = [typesets EXCEPT ![Last(s)] = @ + 1]
     ELSE body' = Autolinked(Page(Last(s)), Last(s)) /\ UNCHANGED typesets

CanRender == \A t \in Terms : typesets[t] < IF patient THEN 1 ELSE MaxTypesets

Pushed(id) == IF stack # <<>> /\ Last(stack) = id THEN stack ELSE Append(stack, id)

\* openTerm, but for `reset`: it empties a trail that is empty, because what
\* calls it with reset, a card of Explore, lies under the open drawer's scrim.
OpenTerm(id) ==
  /\ CanRender /\ CanHide /\ Len(stack) < MaxTrail
  /\ stack' = Pushed(id) /\ RenderDrawer(Pushed(id))
  /\ drawer' = "open"
  /\ HideTooltip

\* A link, which goes when it is in the page that is replaced; a related
\* concept of the page, or a card of Explore, has no tooltip.
Click ==
  /\ \/ over # None /\ OpenTerm(over) /\ over' = IF drawer = "closed" THEN over ELSE None
     \/ /\ over = None
        /\ \E id \in (IF drawer = "closed" THEN Terms ELSE Related[body.of]) : OpenTerm(id)
        /\ UNCHANGED over
  /\ UNCHANGED <<mathjax, patient>>

\* A slip: the trail is kept.
CloseDrawerKeepingTrail == drawer' = "closing" /\ UNCHANGED <<stack, crumbs, body, typesets>>

\* closeDrawer; what the drawer shows stays.
CloseDrawer == drawer' = "closing" /\ stack' = <<>> /\ UNCHANGED <<crumbs, body, typesets>>

\* #drawerClose, the scrim, Escape.
Close ==
  /\ drawer = "open" /\ CloseDrawer
  /\ UNCHANGED <<mathjax, hover, patient>>

SlidOut ==
  /\ drawer = "closing" /\ drawer' = "closed"
  /\ UNCHANGED <<stack, crumbs, body, typesets, mathjax, hover, patient>>

\* drawerBack
DrawerBack ==
  /\ drawer # "closed" /\ over = None /\ CanRender
  /\ LET s == Front(stack)
     IN  IF s # <<>> THEN stack' = s /\ RenderDrawer(s) /\ UNCHANGED drawer ELSE CloseDrawer
  /\ UNCHANGED <<mathjax, hover, patient>>

\* A breadcrumb.  While the drawer slides out the trail is empty already:
\* renderDrawer draws empty crumbs and throws.
Crumb ==
  /\ drawer # "closed" /\ over = None /\ CanRender
  /\ \E i \in DOMAIN crumbs :
       LET s == SubSeq(stack, 1, IF i < Len(stack) THEN i ELSE Len(stack))
       IN  /\ stack' = s
           /\ \/ s # <<>> /\ RenderDrawer(s)
              \/ s = <<>> /\ crumbs' = s /\ UNCHANGED <<body, typesets>>
  /\ UNCHANGED <<drawer, mathjax, hover, patient>>

MathJaxLoads == ~mathjax /\ mathjax' = TRUE /\ UNCHANGED <<trail, hover, patient>>

\* A slip: one typeset that is done is taken for all.
TypesetDropsOthers(t) ==
  /\ typesets[t] > 0
  /\ typesets' = [u \in Terms |-> 0]
  /\ body' = Autolinked(body, t)
  /\ UNCHANGED <<stack, drawer, crumbs, mathjax, hover, patient>>

\* MathJax is done with a page drawn for t: `done` of typesetThenLink links
\* what the drawer shows by now.
Typeset(t) ==
  /\ typesets[t] > 0
  /\ typesets' = [typesets EXCEPT ![t] = @ - 1]
  /\ body' = Autolinked(body, t)
  /\ UNCHANGED <<stack, drawer, crumbs, mathjax, hover, patient>>

Next ==
  \/ MouseOver \/ MouseOut \/ ShowTooltip \/ Frame \/ Hidden \/ PageRedrawn
  \/ Click \/ Close \/ SlidOut \/ DrawerBack \/ Crumb
  \/ MathJaxLoads
  \/ \E t \in Terms : Typeset(t)

Spec == Init /\ [][Next]_vars

\* Timers and frames fire, and MathJax answers or rejects every request.
Fairness == WF_vars(Frame) /\ WF_vars(Hidden) /\ \A t \in Terms : WF_vars(Typeset(t))

FairSpec == Spec /\ Fairness

-----------------------------------------------------------------------------
TypeOK ==
  /\ stack \in Seq(Terms) /\ crumbs \in Seq(Terms)
  /\ drawer \in {"open", "closing", "closed"}
  /\ body \in [of: Terms \cup {None}, links: [Terms -> Nat]]
  /\ \A u \in Terms : body.links[u] <= IF body.of = None THEN 0 ELSE Mentions[body.of][u]
  /\ mathjax \in BOOLEAN /\ typesets \in [Terms -> Nat]
  /\ over \in Terms \cup {None} /\ ttTimer \in Terms \cup {None}
  /\ tip \in [term: Terms \cup {None}, display: BOOLEAN, opaque: BOOLEAN]
  /\ frame \in BOOLEAN /\ hides \in Nat /\ patient \in BOOLEAN

\* However terms, breadcrumbs, Back and Escape are mixed, also while the drawer
\* slides out: an open drawer shows the trail it will go back along and the
\* page of its last term, and a closed one has no trail that the next term
\* opened would be put on.
ShowsEndOfTrail ==
  IF drawer = "open"
  THEN stack # <<>> /\ crumbs = stack /\ body.of = Last(stack)
  ELSE stack = <<>>

\* Back never redraws the page it leaves: no term follows itself on the trail.
BackGoesSomewhere == \A i \in 2..Len(stack) : stack[i] # stack[i - 1]

\* The drawer is sound however its trail is walked: of its types, showing the
\* end of the trail, with a step back that goes somewhere.
TrailSound == TypeOK /\ ShowsEndOfTrail /\ BackGoesSomewhere

\* "links each term once per block", "everything except the current term": a
\* page read by someone who waits for it has at most one link to each other
\* term and none to itself.  (A typeset that is late links a page twice.)
PatientPagesLinkedOnce ==
  patient => \A t \in Terms : body.links[t] <= IF t = body.of THEN 0 ELSE 1

\* "hover peek": for a mouse that stays a frame where it is, and a page that
\* is not redrawn under it, the tooltip seen is the one of the link it is on,
\* and so is the one to come.
PatientTipIsHovered ==
  patient => /\ tip.opaque => tip.term = over
             /\ ttTimer # None => ttTimer = over

\* Whatever is typeset late or twice, a page that stays in the drawer gets
\* its links: to every other term it names.
PageGetsLinked ==
  \A t \in Terms :
    (body.of = t) ~> (body.of # t \/ \A u \in Terms \ {t} : Mentions[t][u] > 0 => body.links[u] > 0)

\* For the same mouse, a tooltip that is left is taken off the page.
PatientTipGoes ==
  (patient /\ tip.display /\ tip.term # over) ~> ~(tip.display /\ tip.term # over)
=============================================================================
