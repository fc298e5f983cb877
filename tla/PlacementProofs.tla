-------------------------- MODULE PlacementProofs ---------------------------
(***************************************************************************)
(* Proofs about the modifiers of Popper, for rects of any size anywhere and*)
(* for any options: what the modifiers of one update agree about when they *)
(* are done, one after the other and through every try of flip, and where  *)
(* the style that is written paints the popper.                            *)
(*                                                                         *)
(* Numbers are halves of a pixel, and an axis a of a side is a record of its*)
(* first and last edges and of the length between them: what is proved of  *)
(* an axis holds of both.                                                  *)
(***************************************************************************)
EXTENDS Positioning, Induction, SequenceTheorems, TLAPS

-----------------------------------------------------------------------------
(* The data that the modifiers hand on, and rects.                         *)

\* Rects whose right and bottom may be stale.
RawRects == [left : Int, top : Int, width : Int, height : Int, right : Int, bottom : Int]

\* The edges that a rect is placed by, and all of them.
Firsts == {"left", "top"}

Edges == {"left", "top", "right", "bottom"}

\* A placement with its variation, and the data that the modifiers hand on.
Turns == [side : Placement!Sides, variation : Placement!Variations]

ArrowSides == {"", "left", "top"}

HideMarks == {"", "in", "out"}

Datas == [placement : Turns, originalPlacement : Turns, flipped : BOOLEAN,
          ref : RawRects, popper : RawRects, boundaries : RawRects,
          arrow : [side : ArrowSides, value : Int], hide : HideMarks]

\* Only the place of the popper, the arrow and the boundaries have been changed.
Kept(d, e) ==
    /\ e \in Datas /\ e.placement = d.placement /\ e.originalPlacement = d.originalPlacement
    /\ e.flipped = d.flipped /\ e.ref = d.ref /\ e.hide = d.hide
    /\ e.popper.width = d.popper.width /\ e.popper.height = d.popper.height

\* A rect that is complete: its right and bottom follow from the rest.
Client(r) == Placement!getClientRect(r)

LEMMA ClientFacts ==
    \A r \in RawRects :
        /\ Client(r) \in RawRects
        /\ Client(r).left = r.left /\ Client(r).top = r.top
        /\ Client(r).width = r.width /\ Client(r).height = r.height
        /\ Client(r).right = r.left + r.width /\ Client(r).bottom = r.top + r.height
        /\ Client(Client(r)) = Client(r)
<1> SUFFICES ASSUME NEW r \in RawRects
             PROVE  /\ Client(r) \in RawRects
                    /\ Client(r).left = r.left /\ Client(r).top = r.top
                    /\ Client(r).width = r.width /\ Client(r).height = r.height
                    /\ Client(r).right = r.left + r.width /\ Client(r).bottom = r.top + r.height
                    /\ Client(Client(r)) = Client(r)
  OBVIOUS
<1> QED
  BY DEF RawRects, Client, Placement!getClientRect, Placement!Rect

\* The two axes of a side.
IsAxis(a) ==
    \/ a.first = "left" /\ a.last = "right" /\ a.len = "width"
    \/ a.first = "top" /\ a.last = "bottom" /\ a.len = "height"

\* One goes along the side, the other away from it.
LEMMA AxisFacts ==
    \A side \in Placement!Sides :
        /\ IsAxis(Placement!Along(side)) /\ IsAxis(Placement!Away(side))
        /\ Placement!Along(side).first # Placement!Away(side).first
        /\ side \in {Placement!Away(side).first, Placement!Away(side).last}
        /\ Placement!Opposite[side] \in Placement!Sides
        /\ Placement!Along(Placement!Opposite[side]) = Placement!Along(side)
        /\ Placement!Away(Placement!Opposite[side]) = Placement!Away(side)
        /\ side \in {"left", "top"} <=> side = Placement!Away(side).first
BY DEF Placement!Sides, IsAxis, Placement!Along, Placement!Away, Placement!isHoriz,
       Placement!Opposite

LEMMA AxisTypes ==
    ASSUME NEW a, IsAxis(a)
    PROVE  /\ a.first \in Firsts /\ a.first \in Edges /\ a.last \in Edges /\ a.last # a.first
           /\ \A r \in RawRects : /\ r[a.first] \in Int /\ r[a.last] \in Int /\ r[a.len] \in Int
                                  /\ Client(r)[a.first] = r[a.first] /\ Client(r)[a.len] = r[a.len]
                                  /\ Client(r)[a.last] = r[a.first] + r[a.len]
BY ClientFacts DEF IsAxis, RawRects, Firsts, Edges

\* A popper that is moved in one direction.
LEMMA PutFacts ==
    ASSUME NEW d \in Datas, NEW x \in Firsts, NEW v \in Int
    PROVE  /\ Kept(d, [d EXCEPT !.popper[x] = v])
           /\ [d EXCEPT !.popper[x] = v].popper[x] = v
           /\ \A y \in Edges :
                y # x => [d EXCEPT !.popper[x] = v].popper[y] = d.popper[y]
           /\ [d EXCEPT !.popper[x] = v].boundaries = d.boundaries
           /\ [d EXCEPT !.popper[x] = v].arrow = d.arrow
<1>1. d.popper \in RawRects
  BY DEF Datas
<1>2. PICK p \in RawRects : p = [d.popper EXCEPT ![x] = v]
  BY <1>1 DEF RawRects, Firsts
<1>3. p[x] = v /\ p.width = d.popper.width /\ p.height = d.popper.height
      /\ \A y \in Edges : y # x => p[y] = d.popper[y]
  BY <1>1, <1>2 DEF RawRects, Firsts, Edges
<1>4. PICK e \in Datas : e = [d EXCEPT !.popper = p]
  BY DEF Datas
<1>5. e.popper = p /\ e.placement = d.placement /\ e.originalPlacement = d.originalPlacement
      /\ e.flipped = d.flipped /\ e.ref = d.ref /\ e.hide = d.hide /\ e.boundaries = d.boundaries
      /\ e.arrow = d.arrow
  BY <1>4 DEF Datas
<1>6. [d EXCEPT !.popper[x] = v] = e
  BY <1>2, <1>4, Zenon
<1>7. Kept(d, e)
  BY <1>3, <1>5, Zenon DEF Kept
<1> QED
  BY <1>3, <1>5, <1>6, <1>7

\* Of one change after another.
LEMMA KeptTransitive ==
    ASSUME NEW d, NEW e, NEW f, Kept(d, e), Kept(e, f)
    PROVE  Kept(d, f)
BY Zenon DEF Kept

LEMMA KeptSelf == \A d \in Datas : Kept(d, d)
BY Zenon DEF Kept

\* Every modifier gets complete rects.
Complete(d) == [d EXCEPT !.popper = Client(@), !.ref = Client(@)]

\* It is the same popper, with its right and bottom set.
LEMMA CompleteFacts ==
    ASSUME NEW d \in Datas, d.ref = Client(d.ref)
    PROVE  /\ Kept(d, Complete(d)) /\ Complete(d).popper = Client(d.popper)
           /\ Complete(d).boundaries = d.boundaries /\ Complete(d).arrow = d.arrow
<1>1. d.popper \in RawRects /\ d.ref \in RawRects
  BY DEF Datas
<1>2. PICK p \in RawRects : p = Client(d.popper) /\ p.width = d.popper.width /\ p.height = d.popper.height
  BY <1>1, ClientFacts
<1>3. PICK e \in Datas : e = [d EXCEPT !.popper = p]
  BY DEF Datas
<1>4. e.popper = p /\ e.placement = d.placement /\ e.originalPlacement = d.originalPlacement
      /\ e.flipped = d.flipped /\ e.ref = d.ref /\ e.hide = d.hide /\ e.boundaries = d.boundaries
      /\ e.arrow = d.arrow
  BY <1>3 DEF Datas
<1>5. Complete(d) = [d EXCEPT !.popper = p, !.ref = d.ref]
  BY <1>2, Zenon DEF Complete
<1>6. [d EXCEPT !.popper = p, !.ref = d.ref] = e
  BY <1>3 DEF Datas
<1>7. Kept(d, e)
  BY <1>2, <1>4, Zenon DEF Kept
<1> QED
  BY <1>2, <1>4, <1>5, <1>6, <1>7

\* What is known of a page and of options.
LEMMA PageFacts ==
    ASSUME NEW pg, Placement!IsLayout(pg)
    PROVE  /\ pg.ref \in RawRects /\ pg.ref = Client(pg.ref)
           /\ pg.scrollParent \in RawRects /\ pg.scrollParent = Client(pg.scrollParent)
           /\ pg.viewport \in RawRects /\ pg.viewport = Client(pg.viewport)
           /\ pg.autoViewport \in RawRects
           /\ \A r \in {pg.ref, pg.scrollParent, pg.viewport} : r.width \in Nat /\ r.height \in Nat
           /\ \A s \in {pg.ref, pg.popper, pg.arrow, pg.offsetParent, pg.borders} :
                  /\ s.width \in Nat /\ s.height \in Nat /\ s.width % 2 = 0 /\ s.height % 2 = 0
<1>1. /\ pg \in [ref : Placement!Rects, popper : Placement!Sizes, client : Placement!Sizes,
                arrow : Placement!Sizes, scrollParent : Placement!Rects,
                viewport : Placement!Rects, autoViewport : Placement!Rects,
                offsetParent : Placement!Sizes, borders : Placement!Sizes]
      /\ pg.ref.width % 2 = 0 /\ pg.ref.height % 2 = 0
  BY DEF Placement!IsLayout, Placement!Whole
<1>2. /\ pg.ref \in Placement!Rects /\ pg.popper \in Placement!Sizes /\ pg.arrow \in Placement!Sizes
      /\ pg.scrollParent \in Placement!Rects /\ pg.viewport \in Placement!Rects
      /\ pg.autoViewport \in Placement!Rects
      /\ pg.offsetParent \in Placement!Sizes /\ pg.borders \in Placement!Sizes
  BY <1>1
<1>3. \A r \in Placement!Rects : r \in RawRects /\ r = Client(r) /\ r.width \in Nat /\ r.height \in Nat
  <2> SUFFICES ASSUME NEW r \in Placement!Rects
               PROVE  r \in RawRects /\ r = Client(r) /\ r.width \in Nat /\ r.height \in Nat
    OBVIOUS
  <2>1. r \in [left : Int, top : Int, width : Nat, height : Nat, right : Int, bottom : Int]
        /\ r = Placement!getClientRect(r)
    BY DEF Placement!Rects
  <2> QED
    BY <2>1 DEF RawRects, Client
<1>4. \A s \in Placement!Sizes : /\ s.width \in Nat /\ s.height \in Nat
                                 /\ s.width % 2 = 0 /\ s.height % 2 = 0
  BY DEF Placement!Sizes, Placement!Whole
<1> QED
  BY <1>1, <1>2, <1>3, <1>4

LEMMA OptionFacts ==
    ASSUME NEW o, Placement!IsOptions(o)
    PROVE  /\ o.placement.side \in Placement!Sides \cup {"auto"}
           /\ o.placement.variation \in Placement!Variations
           /\ o.offset[1] \in Int /\ o.offset[2] \in Int
           /\ o.padding \in Nat /\ o.flipPadding \in Nat /\ o.inset \in Int
           /\ o.priority \in Seq(Placement!Sides)
           /\ o.behavior.kind \in {"flip", "clockwise", "counterclockwise", "list"}
           /\ o.behavior.list \in Seq(Turns)
           /\ o.x \in {"top", "bottom"} /\ o.y \in {"left", "right"}
           /\ o.escapeWithReference \in BOOLEAN /\ o.flipVariations \in BOOLEAN
           /\ o.round \in BOOLEAN /\ o.gpuAcceleration \in BOOLEAN
<1>1. o \in [placement : [side : Placement!Sides \cup {"auto"}, variation : Placement!Variations],
             offset : Int \X Int,
             behavior : [kind : {"flip", "clockwise", "counterclockwise", "list"},
                         list : Seq([side : Placement!Sides, variation : Placement!Variations])],
             padding : Nat, flipPadding : Nat, flipVariations : BOOLEAN,
             priority : Seq(Placement!Sides), escapeWithReference : BOOLEAN, inset : Int,
             enabled : SUBSET {Placement!modifiers[k] : k \in 1..8}, round : BOOLEAN,
             x : {"top", "bottom"}, y : {"left", "right"}, gpuAcceleration : BOOLEAN]
  BY Zenon DEF Placement!IsOptions
<1> QED
  BY <1>1 DEF Turns

\* Boundaries of a rect.
LEMMA BoundaryFacts ==
    ASSUME NEW r \in RawRects, NEW p \in Int
    PROVE  /\ Placement!getBoundaries(r, p) \in RawRects
           /\ Placement!getBoundaries(r, p).left = r.left + p
           /\ Placement!getBoundaries(r, p).top = r.top + p
           /\ Placement!getBoundaries(r, p).right = r.right - p
           /\ Placement!getBoundaries(r, p).bottom = r.bottom - p
           /\ Placement!getBoundaries(r, p).width = r.width
           /\ Placement!getBoundaries(r, p).height = r.height
<1>1. r.left \in Int /\ r.top \in Int /\ r.right \in Int /\ r.bottom \in Int /\ r.width \in Int /\ r.height \in Int
  BY DEF RawRects
<1>2. PICK x \in Int, y \in Int, z \in Int, w \in Int :
          x = r.left + p /\ y = r.top + p /\ z = r.right - p /\ w = r.bottom - p
  BY <1>1, SMTT(30)
<1>3. Placement!getBoundaries(r, p) = [r EXCEPT !.left = x, !.top = y, !.right = z, !.bottom = w]
  BY <1>2, Zenon DEF Placement!getBoundaries
<1>4. PICK q \in RawRects : q = [r EXCEPT !.left = x, !.top = y, !.right = z, !.bottom = w]
  BY DEF RawRects
<1>5. q.left = x /\ q.top = y /\ q.right = z /\ q.bottom = w /\ q.width = r.width /\ q.height = r.height
  BY <1>4 DEF RawRects
<1> QED
  BY <1>2, <1>3, <1>4, <1>5

-----------------------------------------------------------------------------
(* The list of modifiers: those before flip, flip itself, those after it.  *)

\* What an enabled modifier makes of the data.
Apply(m, d, pg, o) ==
    CASE m = "shift" -> Placement!shift(d, pg, o)
      [] m = "offset" -> Placement!offset(d, pg, o)
      [] m = "preventOverflow" -> Placement!preventOverflow(d, pg, o)
      [] m = "keepTogether" -> Placement!keepTogether(d, pg, o)
      [] m = "arrow" -> Placement!arrow(d, pg, o)
      [] m = "inner" -> Placement!inner(d, pg, o)
      [] m = "hide" -> Placement!hide(d, pg, o)

\* What running one modifier makes of the data.
Done(m, d, pg, o) == IF m \in o.enabled THEN Apply(m, Complete(d), pg, o) ELSE d

\* The modifiers, by name.
Names == {"shift", "offset", "preventOverflow", "keepTogether", "arrow", "flip", "inner", "hide"}

\* The modifiers before flip and those after it.
LEMMA BeforeFlip ==
    /\ Len(Placement!Before("flip")) = 5
    /\ Placement!Before("flip")[1] = "shift" /\ Placement!Before("flip")[2] = "offset"
    /\ Placement!Before("flip")[3] = "preventOverflow"
    /\ Placement!Before("flip")[4] = "keepTogether" /\ Placement!Before("flip")[5] = "arrow"
    /\ Len(Placement!After("flip")) = 2
    /\ Placement!After("flip")[1] = "inner" /\ Placement!After("flip")[2] = "hide"
<1>1. PICK ms \in Seq(Names) : ms = Placement!modifiers
  <2>1. Placement!modifiers \in Seq(Names)
    BY DEF Placement!modifiers, Names
  <2> QED
    BY <2>1, Zenon
<1>2. /\ Len(ms) = 8 /\ ms[1] = "shift" /\ ms[2] = "offset" /\ ms[3] = "preventOverflow"
      /\ ms[4] = "keepTogether" /\ ms[5] = "arrow" /\ ms[6] = "flip" /\ ms[7] = "inner"
      /\ ms[8] = "hide"
  BY <1>1 DEF Placement!modifiers
<1>3. \A k \in DOMAIN ms : ms[k] = "flip" <=> k = 6
  BY <1>2
<1>4. Placement!findIndex("flip") = 6
  <2>1. 6 \in DOMAIN ms
    BY <1>2
  <2> QED
    BY <1>1, <1>3, <2>1 DEF Placement!findIndex
<1>5. Placement!Before("flip") = SubSeq(ms, 1, 5) /\ Placement!After("flip") = SubSeq(ms, 7, 8)
  BY <1>1, <1>2, <1>4 DEF Placement!Before, Placement!After
<1> QED
  BY <1>2, <1>5

\* The modifiers before flip run one after the other.
LEMMA RunBefore ==
    ASSUME NEW d, NEW pg, NEW o, NEW d1, NEW d2, NEW d3, NEW d4, NEW d5,
           d1 = Done("shift", d, pg, o), d2 = Done("offset", d1, pg, o),
           d3 = Done("preventOverflow", d2, pg, o), d4 = Done("keepTogether", d3, pg, o),
           d5 = Done("arrow", d4, pg, o)
    PROVE  Placement!runModifiers(Placement!Before("flip"), d, pg, o) = d5
<1> DEFINE ms == Placement!Before("flip")
           Body(f, k) == IF k = 0 THEN d
                         ELSE IF ms[k] \in o.enabled THEN Apply(ms[k], Complete(f[k - 1]), pg, o)
                         ELSE f[k - 1]
           g == [k \in 0..Len(ms) |-> IF k = 0 THEN d ELSE IF k = 1 THEN d1 ELSE IF k = 2 THEN d2
                                      ELSE IF k = 3 THEN d3 ELSE IF k = 4 THEN d4 ELSE d5]
           G == CHOOSE f : f = [k \in 0..Len(ms) |-> Body(f, k)]
<1>1. Placement!runModifiers(ms, d, pg, o) = G[Len(ms)]
  BY DEF Placement!runModifiers, Apply, Complete, Client
<1>0. /\ Len(ms) = 5 /\ ms[1] = "shift" /\ ms[2] = "offset" /\ ms[3] = "preventOverflow"
      /\ ms[4] = "keepTogether" /\ ms[5] = "arrow"
  BY BeforeFlip
<1> HIDE DEF ms
<1>2. /\ g[0] = d /\ g[1] = d1 /\ g[2] = d2 /\ g[3] = d3 /\ g[4] = d4 /\ g[5] = d5
  BY <1>0
<1>3. g = [k \in 0..Len(ms) |-> Body(g, k)]
  <2> SUFFICES ASSUME NEW k \in 0..Len(ms) PROVE g[k] = Body(g, k)
    OBVIOUS
  <2> HIDE DEF g
  <2>1. k = 0 \/ k = 1 \/ k = 2 \/ k = 3 \/ k = 4 \/ k = 5
    BY <1>0
  <2> QED
    BY <1>0, <1>2, <2>1 DEF Done
<1>4. G = [k \in 0..Len(ms) |-> Body(G, k)]
  <2> HIDE DEF g
  <2> QED
    BY <1>3
<1> HIDE DEF G
<1>5. \A k \in 0..5 : G[k] = Body(G, k)
  BY <1>0, <1>4
<1>6. G[0] = d
  BY <1>5
<1>7. G[1] = d1
  BY <1>0, <1>5, <1>6 DEF Done
<1>8. G[2] = d2
  BY <1>0, <1>5, <1>7 DEF Done
<1>9. G[3] = d3
  BY <1>0, <1>5, <1>8 DEF Done
<1>10. G[4] = d4
  BY <1>0, <1>5, <1>9 DEF Done
<1>11. G[5] = d5
  BY <1>0, <1>5, <1>10 DEF Done
<1> QED
  BY <1>0, <1>1, <1>11 DEF ms

\* The modifiers after flip.
LEMMA RunAfter ==
    ASSUME NEW d, NEW pg, NEW o, NEW d1, NEW d2,
           d1 = Done("inner", d, pg, o), d2 = Done("hide", d1, pg, o)
    PROVE  Placement!runModifiers(Placement!After("flip"), d, pg, o) = d2
<1> DEFINE ms == Placement!After("flip")
           Body(f, k) == IF k = 0 THEN d
                         ELSE IF ms[k] \in o.enabled THEN Apply(ms[k], Complete(f[k - 1]), pg, o)
                         ELSE f[k - 1]
           g == [k \in 0..Len(ms) |-> IF k = 0 THEN d ELSE IF k = 1 THEN d1 ELSE d2]
           G == CHOOSE f : f = [k \in 0..Len(ms) |-> Body(f, k)]
<1>1. Placement!runModifiers(ms, d, pg, o) = G[Len(ms)]
  BY DEF Placement!runModifiers, Apply, Complete, Client
<1>0. Len(ms) = 2 /\ ms[1] = "inner" /\ ms[2] = "hide"
  BY BeforeFlip
<1> HIDE DEF ms
<1>2. g[0] = d /\ g[1] = d1 /\ g[2] = d2
  BY <1>0
<1>3. g = [k \in 0..Len(ms) |-> Body(g, k)]
  <2> SUFFICES ASSUME NEW k \in 0..Len(ms) PROVE g[k] = Body(g, k)
    OBVIOUS
  <2> HIDE DEF g
  <2>1. k = 0 \/ k = 1 \/ k = 2
    BY <1>0
  <2> QED
    BY <1>0, <1>2, <2>1 DEF Done
<1>4. G = [k \in 0..Len(ms) |-> Body(G, k)]
  <2> HIDE DEF g
  <2> QED
    BY <1>3
<1> HIDE DEF G
<1>5. \A k \in 0..2 : G[k] = Body(G, k)
  BY <1>0, <1>4
<1>6. G[0] = d
  BY <1>5
<1>7. G[1] = d1
  BY <1>0, <1>5, <1>6 DEF Done
<1>8. G[2] = d2
  BY <1>0, <1>5, <1>7 DEF Done
<1> QED
  BY <1>0, <1>1, <1>8 DEF ms

-----------------------------------------------------------------------------
(* Modifiers, one by one: shift and offset.                                *)

\* Only the popper's place along one axis has been changed.
Moves(d, e, x) ==
    /\ Kept(d, e) /\ e.boundaries = d.boundaries /\ e.arrow = d.arrow
    /\ \A y \in Edges : y # x => e.popper[y] = d.popper[y]

\* The popper at v along the axis that begins with x.
Put(d, x, v) == [d EXCEPT !.popper[x] = v]

\* That is a move along one axis.
LEMMA PutMoves ==
    ASSUME NEW d \in Datas, NEW x \in Firsts, NEW v \in Int
    PROVE  \E e \in Datas : e = Put(d, x, v) /\ Moves(d, e, x) /\ e.popper[x] = v
<1>1. PICK e : e = Put(d, x, v)
  OBVIOUS
<1>2. /\ Kept(d, e) /\ e.popper[x] = v /\ e.boundaries = d.boundaries /\ e.arrow = d.arrow
      /\ \A y \in Edges : y # x => e.popper[y] = d.popper[y]
  BY <1>1, PutFacts DEF Put
<1>3. Moves(d, e, x) /\ e \in Datas
  BY <1>2, Zenon DEF Moves, Kept
<1> QED
  BY <1>1, <1>2, <1>3, Zenon

LEMMA SameMoves == \A d \in Datas, x \in Firsts : Moves(d, d, x)
BY KeptSelf, Zenon DEF Moves

LEMMA DataFacts ==
    ASSUME NEW d \in Datas
    PROVE  /\ d.popper \in RawRects /\ d.ref \in RawRects /\ d.boundaries \in RawRects
           /\ d.placement \in Turns /\ d.placement.side \in Placement!Sides
           /\ d.placement.variation \in Placement!Variations
           /\ d.originalPlacement \in Turns /\ d.flipped \in BOOLEAN
           /\ d.arrow \in [side : ArrowSides, value : Int]
           /\ d.hide \in HideMarks
BY DEF Datas, Turns

\* What is known of the data along an axis.
LEMMA DataAxis ==
    ASSUME NEW d \in Datas
    PROVE  \E a, w : /\ a = Placement!Along(d.placement.side) /\ w = Placement!Away(d.placement.side)
                     /\ IsAxis(a) /\ IsAxis(w) /\ a.first # w.first
                     /\ a.first \in Firsts /\ w.first \in Firsts
                     /\ \A r \in {d.popper, d.ref} :
                          /\ r[a.first] \in Int /\ r[a.last] \in Int /\ r[a.len] \in Int
                          /\ r[w.first] \in Int /\ r[w.last] \in Int /\ r[w.len] \in Int
                     /\ d.placement.side \in {"left", "top"} <=> d.placement.side = w.first
<1>1. d.placement.side \in Placement!Sides /\ d.popper \in RawRects /\ d.ref \in RawRects
  BY DataFacts
<1>2. PICK a, w : a = Placement!Along(d.placement.side) /\ w = Placement!Away(d.placement.side)
  OBVIOUS
<1>3. /\ IsAxis(a) /\ IsAxis(w) /\ a.first # w.first
      /\ d.placement.side \in {"left", "top"} <=> d.placement.side = w.first
  BY <1>1, <1>2, AxisFacts, Zenon
<1>4. /\ a.first \in Firsts
      /\ \A r \in RawRects : r[a.first] \in Int /\ r[a.last] \in Int /\ r[a.len] \in Int
  BY <1>3, AxisTypes
<1>5. /\ w.first \in Firsts
      /\ \A r \in RawRects : r[w.first] \in Int /\ r[w.last] \in Int /\ r[w.len] \in Int
  BY <1>3, AxisTypes
<1> QED
  BY <1>1, <1>2, <1>3, <1>4, <1>5, Zenon

\* shift moves the popper along the reference's edge.
LEMMA ShiftDoes ==
    ASSUME NEW d \in Datas, NEW pg, NEW o
    PROVE  Moves(d, Placement!shift(d, pg, o), Placement!Along(d.placement.side).first)
<1>1. PICK a, w : /\ a = Placement!Along(d.placement.side) /\ a.first \in Firsts
                  /\ d.ref[a.first] \in Int /\ d.ref[a.len] \in Int /\ d.popper[a.len] \in Int
  BY DataAxis
<1>x. PICK x \in Firsts : x = a.first
  BY <1>1
<1>2. d.placement.variation \in Placement!Variations
  BY DataFacts
<1>3. CASE d.placement.variation = "start"
  <2>1. PICK v \in Int : v = d.ref[a.first]
    BY <1>1
  <2>2. Placement!shift(d, pg, o) = Put(d, x, v)
    BY <1>1, <1>x, <1>3, <2>1 DEF Placement!shift, Put
  <2> QED
    BY <1>1, <1>x, <2>2, PutMoves
<1>4. CASE d.placement.variation = "end"
  <2>1. PICK v \in Int : v = d.ref[a.first] + d.ref[a.len] - d.popper[a.len]
    BY <1>1
  <2>2. Placement!shift(d, pg, o) = Put(d, x, v)
    BY <1>1, <1>x, <1>4, <2>1 DEF Placement!shift, Put
  <2> QED
    BY <1>1, <1>x, <2>2, PutMoves
<1>5. CASE d.placement.variation \notin {"start", "end"}
  <2>1. d.placement.variation = ""
    BY <1>2, <1>5 DEF Placement!Variations
  <2>2. Placement!shift(d, pg, o) = d
    BY <2>1 DEF Placement!shift
  <2> QED
    BY <1>1, <2>2, SameMoves
<1> QED
  BY <1>3, <1>4, <1>5

\* A move along the same axis after another.
LEMMA MovesTwice ==
    ASSUME NEW d, NEW e, NEW f, NEW x, NEW y, Moves(d, e, x), Moves(e, f, y)
    PROVE  /\ Kept(d, f) /\ f.boundaries = d.boundaries /\ f.arrow = d.arrow
           /\ \A z \in Edges : z # x /\ z # y => f.popper[z] = d.popper[z]
<1>1. Kept(d, e) /\ Kept(e, f)
  BY DEF Moves
<1>2. Kept(d, f)
  BY <1>1, KeptTransitive
<1> QED
  BY <1>2, Zenon DEF Moves

\* offset moves it along both axes, and not at all by nothing.
LEMMA OffsetDoes ==
    ASSUME NEW d \in Datas, NEW pg, NEW o, Placement!IsOptions(o)
    PROVE  /\ Kept(d, Placement!offset(d, pg, o))
           /\ Placement!offset(d, pg, o).boundaries = d.boundaries
           /\ Placement!offset(d, pg, o).arrow = d.arrow
           /\ o.offset = <<0, 0>> =>
                \A x \in Firsts : Placement!offset(d, pg, o).popper[x] = d.popper[x]
           /\ \A y \in Edges : y \notin Firsts =>
                Placement!offset(d, pg, o).popper[y] = d.popper[y]
<1>0. o.offset[1] \in Int /\ o.offset[2] \in Int
  BY OptionFacts
<1>1. PICK a, w : /\ a = Placement!Along(d.placement.side) /\ w = Placement!Away(d.placement.side)
                  /\ a.first \in Firsts /\ w.first \in Firsts /\ a.first # w.first
                  /\ d.popper[a.first] \in Int /\ d.popper[w.first] \in Int
  BY DataAxis
<1>x. PICK x \in Firsts : x = a.first
  BY <1>1
<1>y. PICK y \in Firsts : y = w.first
  BY <1>1
<1>2. PICK v \in Int : v = d.popper[a.first] + o.offset[1]
  BY <1>0, <1>1
<1>3. PICK e \in Datas : /\ e = Put(d, x, v) /\ Moves(d, e, x)
                         /\ e.popper[x] = v
  BY PutMoves
<1>4. e.popper[w.first] = d.popper[w.first]
  BY <1>1, <1>x, <1>3 DEF Moves, Firsts, Edges
<1>5. PICK u \in Int : u = IF d.placement.side \in {"left", "top"} THEN e.popper[w.first] - o.offset[2]
                           ELSE e.popper[w.first] + o.offset[2]
  BY <1>0, <1>1, <1>4
<1>6. PICK f \in Datas : /\ f = Put(e, y, u) /\ Moves(e, f, y)
                         /\ f.popper[y] = u
  BY PutMoves
<1>7. Placement!offset(d, pg, o) = f
  BY <1>1, <1>x, <1>y, <1>2, <1>3, <1>5, <1>6, ZenonT(40) DEF Placement!offset, Put
<1>8. /\ Kept(d, f) /\ f.boundaries = d.boundaries /\ f.arrow = d.arrow
      /\ \A z \in Edges : z # x /\ z # y => f.popper[z] = d.popper[z]
  BY <1>3, <1>6, MovesTwice
<1>b. \A z \in Edges : z \notin Firsts => f.popper[z] = d.popper[z]
  BY <1>8
<1>9. ASSUME o.offset = <<0, 0>>, NEW z \in Firsts PROVE f.popper[z] = d.popper[z]
  <2>0. a.first \in Edges /\ z \in Edges
    BY <1>1 DEF Firsts, Edges
  <2>1. v = d.popper[a.first] /\ u = d.popper[w.first]
    BY <1>1, <1>2, <1>4, <1>5, <1>9
  <2>2. f.popper[a.first] = e.popper[a.first]
    BY <1>1, <1>y, <1>6, <2>0 DEF Moves
  <2>3. z = a.first \/ z = w.first
    BY <1>1 DEF Firsts
  <2> QED
    BY <1>x, <1>y, <1>3, <1>6, <2>1, <2>2, <2>3
<1> QED
  BY <1>7, <1>8, <1>9, <1>b

\* A move along one axis, of the data.
LEMMA MovesAlong ==
    ASSUME NEW d, NEW e, NEW f, NEW x, Moves(d, e, x), Moves(e, f, x)
    PROVE  Moves(d, f, x)
<1>1. Kept(d, e) /\ Kept(e, f)
  BY DEF Moves
<1>2. Kept(d, f)
  BY <1>1, KeptTransitive
<1> QED
  BY <1>2, Zenon DEF Moves

-----------------------------------------------------------------------------
(* keepTogether and arrow, first in numbers.                               *)

\* Whole pixels: numbers are counted in halves of a pixel.
LEMMA FloorFacts ==
    \A x \in Int : Placement!Floor(x) \in Int /\ Placement!Floor(x) <= x /\ x <= Placement!Floor(x) + 1
                   /\ (x % 2 = 0 => Placement!Floor(x) = x)
BY DEF Placement!Floor

LEMMA FloorMonotone ==
    \A x, y \in Int : x <= y => Placement!Floor(x) <= Placement!Floor(y)
BY DEF Placement!Floor

\* Where keepTogether puts a popper at x of length n, beside a reference from f to l.
TogetherAt(x, n, f, l) ==
    LET near == IF x + n < Placement!Floor(f) THEN Placement!Floor(f) - n ELSE x
    IN  IF near > Placement!Floor(l) THEN Placement!Floor(l) ELSE near

\* keepTogether puts the popper there.
LEMMA KeepTogetherDoes ==
    ASSUME NEW d \in Datas, NEW pg, NEW o,
           NEW x, NEW n, NEW l, x = Placement!Along(d.placement.side).first,
           n = Placement!Along(d.placement.side).len, l = Placement!Along(d.placement.side).last,
           d.popper[l] = d.popper[x] + d.popper[n]
    PROVE  \E e \in Datas : /\ e = Placement!keepTogether(d, pg, o) /\ Moves(d, e, x)
                            /\ e.popper[x] = TogetherAt(d.popper[x], d.popper[n], d.ref[x], d.ref[l])
<1>1. /\ x \in Firsts /\ x \in Edges /\ l # x /\ l \in Edges
      /\ d.popper[x] \in Int /\ d.popper[n] \in Int /\ d.ref[x] \in Int /\ d.ref[l] \in Int
  <2>1. IsAxis(Placement!Along(d.placement.side)) /\ d.popper \in RawRects /\ d.ref \in RawRects
    BY DataFacts, AxisFacts
  <2> QED
    BY <2>1, AxisTypes
<1>2. PICK X \in Firsts : X = x
  BY <1>1
<1>3. PICK f \in Int, g \in Int : f = Placement!Floor(d.ref[x]) /\ g = Placement!Floor(d.ref[l])
  BY <1>1, FloorFacts
<1>4. PICK near \in Datas :
          /\ near = IF d.popper[l] < f THEN Put(d, x, f - d.popper[n]) ELSE d
          /\ Moves(d, near, x)
          /\ near.popper[x] = IF d.popper[l] < f THEN f - d.popper[n] ELSE d.popper[x]
  <2>1. CASE d.popper[l] < f
    <3>1. PICK v \in Int : v = f - d.popper[n]
      BY <1>1
    <3>2. PICK e \in Datas : e = Put(d, X, v) /\ Moves(d, e, X) /\ e.popper[X] = v
      BY PutMoves
    <3> QED
      BY <1>2, <2>1, <3>1, <3>2, Zenon
  <2>2. CASE ~(d.popper[l] < f)
    BY <1>1, <2>2, SameMoves
  <2> QED
    BY <2>1, <2>2, Zenon
<1>5. PICK e \in Datas :
          /\ e = IF near.popper[x] > g THEN Put(near, x, g) ELSE near
          /\ Moves(near, e, x)
          /\ e.popper[x] = IF near.popper[x] > g THEN g ELSE near.popper[x]
  <2>1. CASE near.popper[x] > g
    <3>2. PICK e \in Datas : e = Put(near, X, g) /\ Moves(near, e, X) /\ e.popper[X] = g
      BY PutMoves
    <3> QED
      BY <1>2, <2>1, <3>2, Zenon
  <2>2. CASE ~(near.popper[x] > g)
    BY <1>1, <2>2, SameMoves, Zenon
  <2> QED
    BY <2>1, <2>2, Zenon
<1>6. e = Placement!keepTogether(d, pg, o)
  BY <1>3, <1>4, <1>5, Zenon DEF Placement!keepTogether, Put
<1>7. Moves(d, e, x)
  BY <1>4, <1>5, MovesAlong, ZenonT(40)
<1>8. e.popper[x] = TogetherAt(d.popper[x], d.popper[n], d.ref[x], d.ref[l])
  BY <1>1, <1>3, <1>4, <1>5, Zenon DEF TogetherAt
<1> QED
  BY <1>6, <1>7, <1>8, Zenon

\* It is together with the reference, and inside of boundaries that both fit in.
LEMMA TogetherNumbers ==
    ASSUME NEW x \in Int, NEW n \in Nat, NEW f \in Int, NEW l \in Int, f <= l
    PROVE  /\ TogetherAt(x, n, f, l) \in Int
           /\ TogetherAt(x, n, f, l) + n >= Placement!Floor(f) /\ TogetherAt(x, n, f, l) <= l
           /\ \A b, c \in Int : b <= x /\ x + n <= c /\ b <= f /\ l <= c /\ f < l
                  => b <= TogetherAt(x, n, f, l) /\ TogetherAt(x, n, f, l) + n <= c
<1>1. PICK g \in Int, h \in Int :
          /\ g = Placement!Floor(f) /\ h = Placement!Floor(l) /\ g <= h
          /\ g <= f /\ f <= g + 1 /\ h <= l /\ l <= h + 1
  BY FloorFacts, FloorMonotone
<1> QED
  BY <1>1 DEF TogetherAt

\* Rounded numbers, in the same halves.
LEMMA RoundFacts ==
    \A x \in Int : /\ Placement!Round(x) \in Int
                   /\ x <= Placement!Round(x) /\ Placement!Round(x) <= x + 1
BY DEF Placement!Round, Placement!Floor

LEMMA RoundBounded ==
    \A x, m \in Int : m % 2 = 0 /\ x <= m => Placement!Round(x) <= m
BY DEF Placement!Round, Placement!Floor

\* Where arrow puts a popper at x of length n, and where it puts the arrow, of length s.
ArrowAt(x, n, f, l, s) ==
    LET near == IF l - s < x THEN l - s ELSE x
    IN  IF f + s > x + n THEN near + f + s - (x + n) ELSE near

\* The arrow's place inside of the popper.
ArrowValue(x, n, f, len, s, inset) ==
    LET sideValue == (f + len \div 2 - s \div 2) - x - inset
    IN  Placement!Round(Placement!AtLeast(Placement!AtMost(n - s, sideValue), 0))

\* e is what arrow makes of d, along the axis of the edges x and l and the length n.
ArrowMade(d, pg, o, x, n, l, e) ==
    /\ e = Placement!arrow(d, pg, o) /\ Kept(d, e)
    /\ e.popper = Client(e.popper) /\ e.boundaries = d.boundaries
    /\ \A y \in Firsts : y # x => e.popper[y] = d.popper[y]
    /\ e.popper[x] = ArrowAt(d.popper[x], d.popper[n], d.ref[x], d.ref[l], pg.arrow[n])
    /\ e.arrow.side = x
    /\ e.arrow.value = ArrowValue(e.popper[x], d.popper[n], d.ref[x], d.ref[n],
                                  pg.arrow[n], o.inset)

\* arrow puts both there.
LEMMA ArrowDoes ==
    ASSUME NEW d \in Datas, NEW pg, NEW o, Placement!IsLayout(pg), Placement!IsOptions(o),
           "keepTogether" \in o.enabled,
           NEW x, NEW n, NEW l, x = Placement!Along(d.placement.side).first,
           n = Placement!Along(d.placement.side).len, l = Placement!Along(d.placement.side).last,
           d.popper[l] = d.popper[x] + d.popper[n]
    PROVE  \E e \in Datas : ArrowMade(d, pg, o, x, n, l, e)
<1>1. /\ x \in Firsts /\ x \in Edges /\ l # x /\ l \in Edges
      /\ d.popper[x] \in Int /\ d.popper[n] \in Int /\ d.ref[x] \in Int /\ d.ref[l] \in Int
      /\ d.ref[n] \in Int
  <2>1. IsAxis(Placement!Along(d.placement.side)) /\ d.popper \in RawRects /\ d.ref \in RawRects
    BY DataFacts, AxisFacts
  <2> QED
    BY <2>1, AxisTypes
<1>2. PICK X \in Firsts : X = x
  BY <1>1
<1>3. PICK s \in Int : s = pg.arrow[n]
  <2>1. IsAxis(Placement!Along(d.placement.side))
    BY DataFacts, AxisFacts
  <2>2. pg.arrow.width \in Int /\ pg.arrow.height \in Int
    BY PageFacts
  <2> QED
    BY <2>1, <2>2 DEF IsAxis
<1>n. PICK u \in Int, w \in Int, rf \in Int, rl \in Int, rn \in Int :
          u = d.popper[x] /\ w = d.popper[n] /\ rf = d.ref[x] /\ rl = d.ref[l] /\ rn = d.ref[n]
  BY <1>1, Zenon
<1>a. PICK y1 \in Int : y1 = IF rl - s < u THEN rl - s ELSE u
  OBVIOUS
<1>b. PICK y2 \in Int : y2 = IF rf + s > u + w THEN y1 + rf + s - (u + w) ELSE y1
  <2>1. y1 + rf + s - (u + w) \in Int
    OBVIOUS
  <2>2. (IF rf + s > u + w THEN y1 + rf + s - (u + w) ELSE y1) \in Int
    BY <2>1, Zenon
  <2> QED
    BY <2>2, Zenon
<1>c. y2 = ArrowAt(u, w, rf, rl, s)
  BY <1>a, <1>b DEF ArrowAt
<1>4. PICK near \in Datas :
          /\ near = IF rl - s < u THEN Put(d, x, rl - s) ELSE d
          /\ Moves(d, near, x) /\ near.popper[x] = y1
  <2>1. CASE rl - s < u
    <3>2. PICK e \in Datas : e = Put(d, X, y1) /\ Moves(d, e, X) /\ e.popper[X] = y1
      BY PutMoves
    <3> QED
      BY <1>2, <1>a, <2>1, <3>2, Zenon
  <2>2. CASE ~(rl - s < u)
    BY <1>1, <1>n, <1>a, <2>2, SameMoves, Zenon
  <2> QED
    BY <2>1, <2>2, Zenon
<1>4m. Moves(d, near, x)
  BY <1>4
<1>4x. near.popper[x] = y1
  BY <1>4
<1>5. near.popper[l] = u + w
  <2>1. near.popper[l] = d.popper[l]
    BY <1>1, <1>4m, Zenon DEF Moves
  <2> QED
    BY <1>n, <2>1
<1>6. PICK far \in Datas :
          /\ far = IF rf + s > near.popper[l]
                   THEN [near EXCEPT !.popper[x] = @ + rf + s - near.popper[l]] ELSE near
          /\ Moves(near, far, x) /\ far.popper[x] = y2
  <2>1. CASE rf + s > u + w
    <3>2. PICK e \in Datas : e = Put(near, X, y2) /\ Moves(near, e, X) /\ e.popper[X] = y2
      BY PutMoves
    <3>3. near.popper[x] + rf + s - near.popper[l] = y2
      BY <1>b, <1>4x, <1>5, <2>1
    <3>4. Put(near, x, y2) = [near EXCEPT !.popper[x] = @ + rf + s - near.popper[l]]
      BY <3>3, Zenon DEF Put
    <3> QED
      BY <1>2, <1>5, <2>1, <3>2, <3>4, Zenon
  <2>2. CASE ~(rf + s > u + w)
    BY <1>1, <1>b, <1>4x, <1>5, <2>2, SameMoves
  <2> QED
    BY <2>1, <2>2, Zenon
<1>6m. Moves(near, far, x)
  BY <1>6, Zenon
<1>6x. far.popper[x] = y2
  BY <1>6, Zenon
<1>7. Moves(d, far, x)
  BY <1>4m, <1>6m, MovesAlong
<1>9. PICK v \in Int : v = ArrowValue(y2, w, rf, rn, s, o.inset)
  <2>2. o.inset \in Int
    BY OptionFacts
  <2>3. PICK z \in Int : z = Placement!AtLeast(Placement!AtMost(w - s, (rf + rn \div 2 - s \div 2) - y2 - o.inset), 0)
    BY <2>2 DEF Placement!AtLeast, Placement!AtMost
  <2>4. Placement!Round(z) \in Int
    BY RoundFacts
  <2> QED
    BY <2>3, <2>4, Zenon DEF ArrowValue
<1>10. PICK p \in RawRects, r \in [side : ArrowSides, value : Int] :
           p = Client(far.popper) /\ r = [side |-> x, value |-> v]
  <2>1. Client(far.popper) \in RawRects
    BY DataFacts, ClientFacts
  <2>2. x \in ArrowSides
    BY <1>1 DEF ArrowSides, Firsts
  <2> QED
    BY <2>1, <2>2
<1>11. PICK e \in Datas : e = [far EXCEPT !.popper = p, !.arrow = r]
  BY DEF Datas
<1>12. /\ e.popper = p /\ e.arrow = r /\ e.placement = far.placement /\ e.ref = far.ref
       /\ e.originalPlacement = far.originalPlacement /\ e.flipped = far.flipped
       /\ e.hide = far.hide /\ e.boundaries = far.boundaries
  BY <1>11 DEF Datas
<1>13. e = Placement!arrow(d, pg, o)
  <2> DEFINE a == Placement!Along(d.placement.side)
             size == pg.arrow[a.len]
             near0 == IF d.ref[a.last] - size < d.popper[a.first]
                      THEN [d EXCEPT !.popper[a.first] = d.ref[a.last] - size] ELSE d
             far0 == IF d.ref[a.first] + size > near0.popper[a.last]
                     THEN [near0 EXCEPT !.popper[a.first] = @ + d.ref[a.first] + size - near0.popper[a.last]]
                     ELSE near0
             center == d.ref[a.first] + d.ref[a.len] \div 2 - size \div 2
             sideValue == center - far0.popper[a.first] - o.inset
             value0 == Placement!Round(Placement!AtLeast(Placement!AtMost(d.popper[a.len] - size, sideValue), 0))
  <2>0. Placement!arrow(d, pg, o) = [far0 EXCEPT !.popper = Client(@), !.arrow = [side |-> a.first, value |-> value0]]
    BY Zenon DEF Placement!arrow, Client
  <2>a. a.first = x /\ a.len = n /\ a.last = l
    OBVIOUS
  <2>1. near0 = near
    BY <1>3, <1>n, <1>4, <2>a, Zenon DEF Put
  <2> HIDE DEF near0
  <2>2. far0 = far
    BY <1>3, <1>n, <1>6, <2>1, <2>a, Zenon
  <2> HIDE DEF far0
  <2>3. value0 = v
    BY <1>3, <1>n, <1>6x, <1>9, <2>2, <2>a, Zenon DEF ArrowValue
  <2> HIDE DEF value0, a
  <2> QED
    BY <1>10, <1>11, <2>0, <2>2, <2>3, <2>a, Zenon
<1>14. Kept(d, far) /\ far.boundaries = d.boundaries /\ far.popper \in RawRects
  BY <1>7, DataFacts DEF Moves
<1>15. p = Client(p) /\ p[x] = far.popper[x] /\ p.width = far.popper.width /\ p.height = far.popper.height
       /\ \A y \in Firsts : p[y] = far.popper[y]
  BY <1>1, <1>10, <1>14, ClientFacts DEF Firsts
<1>16. Kept(d, e)
  BY <1>12, <1>14, <1>15, Zenon DEF Kept
<1>17. \A y \in Firsts : y # x => e.popper[y] = d.popper[y]
  <2>1. \A y \in Firsts : y # x => far.popper[y] = d.popper[y]
    BY <1>7 DEF Moves, Firsts, Edges
  <2> QED
    BY <1>12, <1>15, <2>1
<1>18. e.arrow.side = x /\ e.arrow.value = v
  BY <1>10, <1>12
<1>19. e.popper[x] = ArrowAt(d.popper[x], d.popper[n], d.ref[x], d.ref[l], pg.arrow[n])
  <2>1. e.popper[x] = y2
    BY <1>6x, <1>12, <1>15
  <2> QED
    BY <1>3, <1>n, <1>c, <2>1, Zenon
<1>20. e.arrow.value = ArrowValue(e.popper[x], d.popper[n], d.ref[x], d.ref[n], pg.arrow[n], o.inset)
  <2>1. e.popper[x] = y2
    BY <1>6x, <1>12, <1>15
  <2> QED
    BY <1>3, <1>n, <1>9, <1>18, <2>1, Zenon
<1>21. e.popper = Client(e.popper) /\ e.boundaries = d.boundaries
  BY <1>12, <1>14, <1>15, Zenon
<1> QED
  BY <1>13, <1>16, <1>17, <1>18, <1>19, <1>20, <1>21, Zenon DEF ArrowMade

\* The arrow is inside of the popper and at the reference, if it fits both.
LEMMA ArrowNumbers ==
    ASSUME NEW x \in Int, NEW n \in Nat, NEW f \in Int, NEW l \in Int, NEW len \in Nat, NEW s \in Nat,
           l = f + len, n % 2 = 0, len % 2 = 0, s % 2 = 0, s <= n, s <= len, NEW inset \in Int
    PROVE  /\ ArrowAt(x, n, f, l, s) \in Int
           /\ LET y == ArrowAt(x, n, f, l, s)
                  v == ArrowValue(y, n, f, len, s, inset)
              IN  /\ v \in Int /\ 0 <= v /\ v <= n - s
                  /\ inset = 0 => y + inset + v >= f - 1 /\ y + inset + v + s <= l + 1
           /\ \A b, c \in Int : b <= x /\ x + n <= c /\ b <= f /\ l <= c
                  => b <= ArrowAt(x, n, f, l, s) /\ ArrowAt(x, n, f, l, s) + n <= c
<1>1. PICK h \in Int, t \in Int : 2 * h = len /\ 2 * t = s /\ len \div 2 = h /\ s \div 2 = t
  OBVIOUS
<1>2. PICK y \in Int : y = ArrowAt(x, n, f, l, s)
  <2>1. ArrowAt(x, n, f, l, s) \in Int
    BY DEF ArrowAt
  <2> QED
    BY <2>1, Zenon
<1>3. y <= l - s /\ y + n >= f + s
  BY <1>2 DEF ArrowAt
<1>4. PICK w \in Int : w = Placement!AtLeast(Placement!AtMost(n - s, f + h - t - y - inset), 0)
  BY DEF Placement!AtLeast, Placement!AtMost
<1>5. 0 <= w /\ w <= n - s /\ (n - s) % 2 = 0
  BY <1>4 DEF Placement!AtLeast, Placement!AtMost
<1>6. PICK v \in Int : v = Placement!Round(w) /\ w <= v /\ v <= w + 1 /\ v <= n - s
  <2>1. PICK m \in Int : m = n - s
    OBVIOUS
  <2>2. Placement!Round(w) \in Int /\ w <= Placement!Round(w) /\ Placement!Round(w) <= w + 1
    BY RoundFacts
  <2>3. m % 2 = 0 /\ w <= m
    BY <1>5, <2>1
  <2>4. Placement!Round(w) <= m
    BY <2>3, RoundBounded
  <2> QED
    BY <2>1, <2>2, <2>4
<1>7. v = ArrowValue(y, n, f, len, s, inset)
  <2>1. (f + len \div 2 - s \div 2) - y - inset = f + h - t - y - inset
    BY <1>1
  <2> QED
    BY <1>4, <1>6, <2>1, Zenon DEF ArrowValue
<1>8. inset = 0 => y + v >= f - 1 /\ y + v + s <= l + 1
  <2>1. 0 <= h - t /\ f + h - t + s <= l
    BY <1>1
  <2> QED
    BY <1>3, <1>4, <1>6, <2>1 DEF Placement!AtLeast, Placement!AtMost
<1>9. \A b, c \in Int : b <= x /\ x + n <= c /\ b <= f /\ l <= c => b <= y /\ y + n <= c
  BY <1>2 DEF ArrowAt
<1> QED
  BY <1>2, <1>5, <1>6, <1>7, <1>8, <1>9

-----------------------------------------------------------------------------
(* preventOverflow: a popper that is pushed edge by edge, in any order of  *)
(* its priority, stays between what it was and the boundaries.             *)

\* What preventOverflow does at one edge.
Pushed(p, side, b, escape) ==
    IF side \in {"left", "top"}
    THEN IF p[side] < b[side] /\ ~escape THEN [p EXCEPT ![side] = Placement!AtLeast(p[side], b[side])] ELSE p
    ELSE LET main == IF side = "right" THEN "left" ELSE "top"
             len == IF side = "right" THEN "width" ELSE "height"
         IN  IF p[side] > b[side] /\ ~escape
             THEN [p EXCEPT ![main] = Placement!AtMost(p[main], b[side] - p[len])] ELSE p

\* A rect with one edge pushed.
PutRect(p, x, v) == [p EXCEPT ![x] = v]

LEMMA PutRectFacts ==
    ASSUME NEW p \in RawRects, NEW x \in Firsts, NEW v \in Int
    PROVE  \E q \in RawRects : /\ q = PutRect(p, x, v) /\ q[x] = v
                               /\ q.width = p.width /\ q.height = p.height
                               /\ q.right = p.right /\ q.bottom = p.bottom
                               /\ \A y \in Firsts : y # x => q[y] = p[y]
<1>1. PICK q \in RawRects : q = [p EXCEPT ![x] = v]
  BY DEF RawRects, Firsts
<1>2. q[x] = v /\ q.width = p.width /\ q.height = p.height /\ q.right = p.right /\ q.bottom = p.bottom
      /\ \A y \in Firsts : y # x => q[y] = p[y]
  BY <1>1 DEF RawRects, Firsts
<1> QED
  BY <1>1, <1>2, Zenon DEF PutRect

\* The other edges of a rect stay, and its first edge is clamped.
SameSize(p, q) ==
    q.width = p.width /\ q.height = p.height /\ q.right = p.right /\ q.bottom = p.bottom

LEMMA AtMostFacts ==
    \A x, y \in Int : /\ Placement!AtMost(x, y) \in Int /\ Placement!AtLeast(x, y) \in Int
                      /\ (x < y => Placement!AtLeast(x, y) = y)
BY DEF Placement!AtMost, Placement!AtLeast

\* An edge pushed at the beginning of the axis, and one at its end.
LEMMA PushedFirst ==
    ASSUME NEW p \in RawRects, NEW b \in RawRects, NEW escape \in BOOLEAN, NEW x \in Firsts
    PROVE  \E q \in RawRects :
              /\ q = Pushed(p, x, b, escape) /\ SameSize(p, q)
              /\ \A y \in Firsts : y # x => q[y] = p[y]
              /\ q[x] = IF p[x] < b[x] /\ ~escape THEN b[x] ELSE p[x]
<1>1. p[x] \in Int /\ b[x] \in Int
  BY DEF RawRects, Firsts
<1>2. CASE p[x] < b[x] /\ ~escape
  <2>1. PICK v \in Int : v = b[x]
    BY <1>1
  <2>2. PICK q \in RawRects : /\ q = PutRect(p, x, v) /\ q[x] = v /\ SameSize(p, q)
                              /\ \A y \in Firsts : y # x => q[y] = p[y]
    BY PutRectFacts DEF SameSize
  <2>3. Placement!AtLeast(p[x], b[x]) = v
    BY <1>1, <1>2, <2>1, AtMostFacts
  <2>4. q = Pushed(p, x, b, escape)
    BY <1>2, <2>2, <2>3 DEF Pushed, PutRect, Firsts
  <2> QED
    BY <1>2, <2>1, <2>2, <2>4
<1>3. CASE ~(p[x] < b[x] /\ ~escape)
  <2>1. p = Pushed(p, x, b, escape)
    BY <1>3 DEF Pushed, Firsts
  <2> QED
    BY <1>3, <2>1 DEF SameSize
<1> QED
  BY <1>2, <1>3

LEMMA PushedLast ==
    ASSUME NEW p \in RawRects, NEW b \in RawRects, NEW escape \in BOOLEAN, NEW a, IsAxis(a)
    PROVE  \E q \in RawRects :
              /\ q = Pushed(p, a.last, b, escape) /\ SameSize(p, q)
              /\ \A y \in Firsts : y # a.first => q[y] = p[y]
              /\ q[a.first] = IF p[a.last] > b[a.last] /\ ~escape
                              THEN Placement!AtMost(p[a.first], b[a.last] - p[a.len]) ELSE p[a.first]
<1>1. /\ p[a.first] \in Int /\ b[a.first] \in Int /\ p[a.last] \in Int /\ b[a.last] \in Int
      /\ p[a.len] \in Int /\ a.first \in Firsts
  BY AxisTypes
<1>a. PICK x \in Firsts : x = a.first
  BY <1>1
<1>b. /\ a.last \notin {"left", "top"}
      /\ a.first = IF a.last = "right" THEN "left" ELSE "top"
      /\ a.len = IF a.last = "right" THEN "width" ELSE "height"
  BY DEF IsAxis
<1>2. CASE p[a.last] > b[a.last] /\ ~escape
  <2>1. PICK v \in Int : v = Placement!AtMost(p[a.first], b[a.last] - p[a.len])
    BY <1>1, AtMostFacts
  <2>2. PICK q \in RawRects : /\ q = PutRect(p, x, v) /\ q[x] = v /\ SameSize(p, q)
                              /\ \A y \in Firsts : y # x => q[y] = p[y]
    BY PutRectFacts DEF SameSize
  <2>4. q = Pushed(p, a.last, b, escape)
    BY <1>2, <1>a, <1>b, <2>1, <2>2 DEF Pushed, PutRect
  <2> QED
    BY <1>2, <1>a, <2>1, <2>2, <2>4
<1>3. CASE ~(p[a.last] > b[a.last] /\ ~escape)
  <2>1. p = Pushed(p, a.last, b, escape)
    BY <1>3, <1>b DEF Pushed
  <2> QED
    BY <1>3, <2>1 DEF SameSize
<1> QED
  BY <1>2, <1>3

\* Along one axis.
LEMMA PushedAlong ==
    ASSUME NEW p \in RawRects, NEW b \in RawRects, NEW escape \in BOOLEAN, NEW a, IsAxis(a),
           NEW side \in Placement!Sides
    PROVE  /\ Pushed(p, side, b, escape) \in RawRects
           /\ SameSize(p, Pushed(p, side, b, escape))
           /\ Pushed(p, side, b, escape)[a.first] =
                 IF ~escape /\ side = a.first /\ p[a.first] < b[a.first] THEN b[a.first]
                 ELSE IF ~escape /\ side = a.last /\ p[a.last] > b[a.last]
                      THEN Placement!AtMost(p[a.first], b[a.last] - p[a.len])
                 ELSE p[a.first]
<1>0. a.first \in Firsts
  BY AxisTypes
<1>1. CASE side \in Firsts
  <2>1. PICK q \in RawRects :
              /\ q = Pushed(p, side, b, escape) /\ SameSize(p, q)
              /\ \A y \in Firsts : y # side => q[y] = p[y]
              /\ q[side] = IF p[side] < b[side] /\ ~escape THEN b[side] ELSE p[side]
    BY <1>1, PushedFirst
  <2>2. side # a.last
    BY <1>1 DEF IsAxis, Firsts
  <2> QED
    BY <1>0, <2>1, <2>2
<1>2. CASE side \notin Firsts
  <2>1. PICK w : IsAxis(w) /\ side = w.last
    <3>1. side = "right" \/ side = "bottom"
      BY <1>2 DEF Placement!Sides, Firsts
    <3>2. IsAxis([first |-> "left", last |-> "right", len |-> "width"])
          /\ IsAxis([first |-> "top", last |-> "bottom", len |-> "height"])
      BY DEF IsAxis
    <3> QED
      BY <3>1, <3>2
  <2>2. PICK q \in RawRects :
              /\ q = Pushed(p, w.last, b, escape) /\ SameSize(p, q)
              /\ \A y \in Firsts : y # w.first => q[y] = p[y]
              /\ q[w.first] = IF p[w.last] > b[w.last] /\ ~escape
                              THEN Placement!AtMost(p[w.first], b[w.last] - p[w.len]) ELSE p[w.first]
    BY <2>1, PushedLast
  <2>3. \/ w.first = a.first /\ w.last = a.last /\ w.len = a.len
        \/ w.first # a.first /\ w.last # a.last
    BY <2>1 DEF IsAxis
  <2>4. side # a.first
    BY <1>0, <1>2
  <2> QED
    BY <1>0, <2>1, <2>2, <2>3, <2>4
<1> QED
  BY <1>1, <1>2

\* preventOverflow as a fold over the edges of its priority.
Pushes(b, escape) == [s \in RawRects \X Placement!Sides |-> Pushed(s[1], s[2], b, escape)]

LEMMA PushSteps ==
    ASSUME NEW b \in RawRects, NEW escape \in BOOLEAN
    PROVE  /\ Pushes(b, escape) \in Steppers(RawRects, Placement!Sides)
           /\ \A p \in RawRects, side \in Placement!Sides :
                 Pushes(b, escape)[<<p, side>>] = Pushed(p, side, b, escape)
<1>0. PICK a : IsAxis(a)
  <2>1. IsAxis([first |-> "left", last |-> "right", len |-> "width"])
    BY DEF IsAxis
  <2> QED
    BY <2>1
<1>1. \A p \in RawRects, side \in Placement!Sides : Pushed(p, side, b, escape) \in RawRects
  BY <1>0, PushedAlong
<1> QED
  BY <1>1 DEF Pushes, Steppers
\* h are the places that preventOverflow goes through.
PushesFrom(h, b, d, pg, o) ==
    /\ h \in [0..Len(o.priority) -> RawRects] /\ b \in RawRects
    /\ b = Placement!getBoundaries(pg.scrollParent, o.padding)
    /\ h[0] = d.popper
    /\ \A k \in 1..Len(o.priority) :
          h[k] = Pushed(h[k - 1], o.priority[k], b, o.escapeWithReference)
    /\ Placement!preventOverflow(d, pg, o)
          = [d EXCEPT !.popper = h[Len(o.priority)], !.boundaries = b]

\* preventOverflow is that fold.
LEMMA PreventOverflowRuns ==
    ASSUME NEW d \in Datas, NEW pg, NEW o, Placement!IsLayout(pg), Placement!IsOptions(o)
    PROVE  \E b \in RawRects : \E h : PushesFrom(h, b, d, pg, o)
<1>1. PICK b \in RawRects : b = Placement!getBoundaries(pg.scrollParent, o.padding)
  <2>1. pg.scrollParent \in RawRects /\ o.padding \in Int
    BY PageFacts, OptionFacts
  <2> QED
    BY <2>1, BoundaryFacts
<1>2. PICK ps \in Seq(Placement!Sides), escape \in BOOLEAN :
          ps = o.priority /\ escape = o.escapeWithReference
  BY OptionFacts
<1>3. PICK p \in RawRects : p = d.popper
  BY DataFacts
<1>4. Len(ps) \in Nat /\ \A k \in 1..Len(ps) : ps[k] \in Placement!Sides
  OBVIOUS
<1> DEFINE Body0(f, k) == IF k = 0 THEN d.popper
                          ELSE Pushed(f[k - 1], o.priority[k],
                                      Placement!getBoundaries(pg.scrollParent, o.padding), o.escapeWithReference)
           Body(f, k) == IF k = 0 THEN p ELSE Pushed(f[k - 1], ps[k], b, escape)
           G == CHOOSE f : f = [k \in 0..Len(o.priority) |-> Body0(f, k)]
<1>5. Placement!preventOverflow(d, pg, o) = [d EXCEPT !.popper = G[Len(ps)], !.boundaries = b]
  <2>1. Placement!preventOverflow(d, pg, o)
           = [d EXCEPT !.popper = G[Len(o.priority)],
                       !.boundaries = Placement!getBoundaries(pg.scrollParent, o.padding)]
    BY Zenon DEF Placement!preventOverflow, Pushed
  <2> HIDE DEF G
  <2> QED
    BY <1>1, <1>2, <2>1, Zenon
<1>e. \A f, k : Body0(f, k) = Body(f, k)
  BY <1>1, <1>2, <1>3, Zenon
<1> HIDE DEF Body0
<1>6. PICK h \in [0..Len(ps) -> RawRects] :
          h = [k \in 0..Len(ps) |-> IF k = 0 THEN p ELSE Pushes(b, escape)[<<h[k - 1], ps[k]>>]]
  BY PushSteps, FoldIsSolved
<1>7. h = [k \in 0..Len(ps) |-> Body(h, k)]
  <2>1. ASSUME NEW k \in 0..Len(ps), k # 0
        PROVE  Pushes(b, escape)[<<h[k - 1], ps[k]>>] = Pushed(h[k - 1], ps[k], b, escape)
    <3>1. k \in 1..Len(ps) /\ k - 1 \in 0..Len(ps)
      BY <1>4, <2>1
    <3>2. h[k - 1] \in RawRects /\ ps[k] \in Placement!Sides
      BY <1>4, <3>1
    <3> QED
      BY <3>2, PushSteps
  <2> QED
    BY <1>6, <2>1
<1>8. G = [k \in 0..Len(ps) |-> Body(G, k)]
  <2> HIDE DEF Body
  <2>1. h = [k \in 0..Len(o.priority) |-> Body0(h, k)]
    BY <1>2, <1>7, <1>e
  <2>2. G = [k \in 0..Len(o.priority) |-> Body0(G, k)]
    BY <2>1
  <2> HIDE DEF G
  <2> QED
    BY <1>2, <1>e, <2>2
<1> HIDE DEF G
<1>9. G[0] = p
  BY <1>4, <1>8
<1>10. \A k \in 1..Len(ps) : k \in 0..Len(ps) /\ k # 0
  BY <1>4
<1>11. \A k \in 1..Len(ps) : G[k] = Pushed(G[k - 1], ps[k], b, escape)
  BY <1>8, <1>10
<1>12. \A k \in 0..Len(ps) : G[k] \in RawRects
  <2>1. PICK a : IsAxis(a)
    <3>1. IsAxis([first |-> "left", last |-> "right", len |-> "width"])
      BY DEF IsAxis
    <3> QED
      BY <3>1
  <2>2. ASSUME NEW k \in 1..Len(ps), G[k - 1] \in RawRects PROVE G[k] \in RawRects
    <3>1. PICK q \in RawRects : q = G[k - 1]
      BY <2>2
    <3>2. PICK side \in Placement!Sides : side = ps[k]
      BY <1>4
    <3>3. Pushed(q, side, b, escape) \in RawRects
      BY <2>1, PushedAlong
    <3> QED
      BY <1>11, <3>1, <3>2, <3>3
  <2> QED
    BY <1>4, <1>9, <2>2, StepsKeep
<1>13. G \in [0..Len(ps) -> RawRects]
  BY <1>8, <1>12
<1> QED
  <2>1. PushesFrom(G, b, d, pg, o)
    BY <1>1, <1>2, <1>3, <1>5, <1>9, <1>11, <1>13, Zenon DEF PushesFrom
  <2> QED
    BY <2>1

\* Where a popper at x of length n may be pushed to, between lo and hi.
Reach(v, x, n, lo, hi) == v = x \/ (x + n > hi /\ v = hi - n) \/ (x < lo /\ v = lo)

\* The rects that pushing p0 may lead to, along the axis a.
Reached(p0, a, b) ==
    {p \in RawRects : SameSize(p0, p) /\ Reach(p[a.first], p0[a.first], p0[a.len], b[a.first], b[a.last])}

\* So the far edges stay too.
LEMMA SameAlong ==
    ASSUME NEW p \in RawRects, NEW q \in RawRects, SameSize(p, q), NEW a, IsAxis(a)
    PROVE  q[a.last] = p[a.last] /\ q[a.len] = p[a.len]
BY DEF SameSize, IsAxis

LEMMA SameTransitive ==
    ASSUME NEW p, NEW q, NEW r, SameSize(p, q), SameSize(q, r)
    PROVE  SameSize(p, r)
BY DEF SameSize

\* What holds of numbers when an edge is pushed.
LEMMA ReachNumbers ==
    ASSUME NEW x \in Int, NEW n \in Int, NEW lo \in Int, NEW hi \in Int, n <= hi - lo,
           NEW v \in Int, Reach(v, x, n, lo, hi)
    PROVE  /\ v < lo => Reach(lo, x, n, lo, hi)
           /\ x + n > hi => /\ Placement!AtMost(v, hi - n) = hi - n
                            /\ Reach(Placement!AtMost(v, hi - n), x, n, lo, hi)
BY DEF Reach, Placement!AtMost

\* Pushing another edge does not lead out of what may be reached.
LEMMA ReachStays ==
    ASSUME NEW p0 \in RawRects, NEW b \in RawRects, NEW escape \in BOOLEAN, NEW a, IsAxis(a),
           p0[a.last] = p0[a.first] + p0[a.len], p0[a.len] <= b[a.last] - b[a.first],
           NEW p \in Reached(p0, a, b), NEW side \in Placement!Sides
    PROVE  Pushed(p, side, b, escape) \in Reached(p0, a, b)
<1>1. PICK x \in Int, n \in Int, lo \in Int, hi \in Int :
          x = p0[a.first] /\ n = p0[a.len] /\ lo = b[a.first] /\ hi = b[a.last]
  BY AxisTypes
<1>2. p \in RawRects /\ SameSize(p0, p)
  BY DEF Reached
<1>3. PICK v \in Int : v = p[a.first]
  BY <1>2, AxisTypes
<1>4. Reach(v, x, n, lo, hi)
  BY <1>1, <1>3 DEF Reached
<1>5. p[a.last] = x + n /\ p[a.len] = n
  BY <1>1, <1>2, SameAlong
<1>6. PICK q \in RawRects : q = Pushed(p, side, b, escape) /\ SameSize(p, q)
        /\ q[a.first] = IF ~escape /\ side = a.first /\ p[a.first] < b[a.first] THEN b[a.first]
                        ELSE IF ~escape /\ side = a.last /\ p[a.last] > b[a.last]
                             THEN Placement!AtMost(p[a.first], b[a.last] - p[a.len])
                        ELSE p[a.first]
  BY <1>2, PushedAlong
<1>7. SameSize(p0, q)
  BY <1>2, <1>6, SameTransitive
<1>8. n <= hi - lo
  BY <1>1
<1>9. q[a.first] = v \/ (v < lo /\ q[a.first] = lo) \/ (x + n > hi /\ q[a.first] = Placement!AtMost(v, hi - n))
  BY <1>1, <1>3, <1>5, <1>6, Zenon
<1>10. Reach(q[a.first], x, n, lo, hi)
  BY <1>4, <1>8, <1>9, ReachNumbers
<1> QED
  BY <1>1, <1>6, <1>7, <1>10 DEF Reached

\* preventOverflow along an axis that the popper fits in.
LEMMA PreventOverflowDoes ==
    ASSUME NEW d \in Datas, NEW pg, NEW o, Placement!IsLayout(pg), Placement!IsOptions(o)
    PROVE  \E e \in Datas, b \in RawRects :
              /\ b = Placement!getBoundaries(pg.scrollParent, o.padding)
              /\ e = Placement!preventOverflow(d, pg, o) /\ Kept(d, e)
              /\ e.arrow = d.arrow /\ e.boundaries = b
              /\ \A a : IsAxis(a) => e.popper[a.last] = d.popper[a.last]
              /\ \A a : IsAxis(a) /\ d.popper[a.last] = d.popper[a.first] + d.popper[a.len]
                        /\ d.popper[a.len] <= b[a.last] - b[a.first]
                    => /\ Reach(e.popper[a.first], d.popper[a.first], d.popper[a.len], b[a.first], b[a.last])
                       /\ ~o.escapeWithReference /\ {a.first, a.last} \subseteq Placement!ToSet(o.priority)
                           => b[a.first] <= e.popper[a.first]
                              /\ e.popper[a.first] + d.popper[a.len] <= b[a.last]
<1>b. PICK b \in RawRects : \E h : PushesFrom(h, b, d, pg, o)
  BY PreventOverflowRuns
<1>0. PICK h : PushesFrom(h, b, d, pg, o)
  BY <1>b
<1>1. /\ h \in [0..Len(o.priority) -> RawRects] /\ b \in RawRects
      /\ b = Placement!getBoundaries(pg.scrollParent, o.padding)
      /\ h[0] = d.popper
      /\ \A k \in 1..Len(o.priority) :
            h[k] = Pushed(h[k - 1], o.priority[k], b, o.escapeWithReference)
      /\ Placement!preventOverflow(d, pg, o)
            = [d EXCEPT !.popper = h[Len(o.priority)], !.boundaries = b]
  BY <1>0, Zenon DEF PushesFrom
<1>2. PICK ps \in Seq(Placement!Sides), escape \in BOOLEAN :
          ps = o.priority /\ escape = o.escapeWithReference
  BY OptionFacts
<1>3. PICK p \in RawRects : p = d.popper
  BY DataFacts
<1>4. Len(ps) \in Nat /\ \A k \in 1..Len(ps) : ps[k] \in Placement!Sides
  OBVIOUS
<1>5. /\ h \in [0..Len(ps) -> RawRects] /\ h[0] = p
      /\ \A k \in 1..Len(ps) : h[k] = Pushed(h[k - 1], ps[k], b, escape)
  BY <1>1, <1>2, <1>3, Zenon
<1>6. PICK q \in RawRects : q = h[Len(ps)]
  <2>1. Len(ps) \in 0..Len(ps)
    BY <1>4
  <2> QED
    BY <1>5, <2>1
<1>7. SameSize(p, q)
  <2> DEFINE S == {r \in RawRects : SameSize(p, r)}
  <2>1. p \in S
    BY DEF SameSize
  <2>2. ASSUME NEW k \in 1..Len(ps), h[k - 1] \in S PROVE h[k] \in S
    <3>0. PICK a : IsAxis(a)
      <4>1. IsAxis([first |-> "left", last |-> "right", len |-> "width"])
        BY DEF IsAxis
      <4> QED
        BY <4>1
    <3>1. PICK r \in RawRects : r = h[k - 1] /\ SameSize(p, r)
      BY <2>2
    <3>2. PICK side \in Placement!Sides : side = ps[k]
      BY <1>4
    <3>3. Pushed(r, side, b, escape) \in RawRects /\ SameSize(r, Pushed(r, side, b, escape))
      BY <3>0, PushedAlong
    <3>4. SameSize(p, Pushed(r, side, b, escape))
      BY <3>1, <3>3, SameTransitive
    <3> QED
      BY <1>5, <3>1, <3>2, <3>3, <3>4
  <2> HIDE DEF S
  <2>3. \A k \in 0..Len(ps) : h[k] \in S
    BY <1>4, <1>5, <2>1, <2>2, StepsKeep
  <2>4. h[Len(ps)] \in S
    BY <1>4, <2>3
  <2> QED
    BY <1>6, <2>4 DEF S
<1>8. PICK e \in Datas : e = [d EXCEPT !.popper = q, !.boundaries = b]
  BY DEF Datas
<1>9. /\ e.popper = q /\ e.boundaries = b /\ e.placement = d.placement /\ e.ref = d.ref
      /\ e.originalPlacement = d.originalPlacement /\ e.flipped = d.flipped
      /\ e.hide = d.hide /\ e.arrow = d.arrow
  BY <1>8 DEF Datas
<1>10. e = Placement!preventOverflow(d, pg, o)
  BY <1>1, <1>2, <1>6, <1>8, Zenon
<1>11. Kept(d, e)
  <2>1. q.width = d.popper.width /\ q.height = d.popper.height
    BY <1>3, <1>7 DEF SameSize
  <2> QED
    BY <1>9, <2>1, Zenon DEF Kept
<1>c. ASSUME NEW a, IsAxis(a) PROVE e.popper[a.last] = d.popper[a.last]
  <2>1. q[a.last] = p[a.last]
    BY <1>7, <1>c, SameAlong
  <2> QED
    BY <1>3, <1>9, <2>1
<1>12. ASSUME NEW a, IsAxis(a), p[a.last] = p[a.first] + p[a.len], p[a.len] <= b[a.last] - b[a.first]
       PROVE  /\ Reach(q[a.first], p[a.first], p[a.len], b[a.first], b[a.last])
              /\ ~escape /\ {a.first, a.last} \subseteq Placement!ToSet(ps)
                   => b[a.first] <= q[a.first] /\ q[a.first] + p[a.len] <= b[a.last]
  <2>1. PICK x \in Int, n \in Int, lo \in Int, hi \in Int :
          x = p[a.first] /\ n = p[a.len] /\ lo = b[a.first] /\ hi = b[a.last]
    BY <1>12, AxisTypes
  <2>2. x + n = p[a.last] /\ n <= hi - lo
    BY <1>12, <2>1
  <2>3. p \in Reached(p, a, b)
    BY <2>1 DEF Reached, SameSize, Reach
  <2>4. PICK S : S = Reached(p, a, b)
    OBVIOUS
  <2>5. ASSUME NEW k \in 1..Len(ps), h[k - 1] \in S PROVE h[k] \in S
    <3>1. PICK r \in Reached(p, a, b) : r = h[k - 1]
      BY <2>4, <2>5
    <3>2. PICK side \in Placement!Sides : side = ps[k]
      BY <1>4
    <3>3. Pushed(r, side, b, escape) \in Reached(p, a, b)
      BY <1>12, ReachStays
    <3> QED
      BY <1>5, <2>4, <3>1, <3>2, <3>3
  <2>6. \A k \in 0..Len(ps) : h[k] \in S
    <3>1. h[0] \in S
      BY <1>5, <2>3, <2>4
    <3> QED
      BY <1>4, <2>5, <3>1, StepsKeep
  <2>7. \A k \in 0..Len(ps) : h[k] \in RawRects /\ SameSize(p, h[k]) /\ Reach(h[k][a.first], x, n, lo, hi)
    BY <2>1, <2>4, <2>6 DEF Reached
  <2>8. Reach(q[a.first], x, n, lo, hi)
    BY <1>4, <1>6, <2>7
  \* An edge that has been looked at stays inside.
  <2>9. ASSUME ~escape, NEW j \in 1..Len(ps), ps[j] \in {a.first, a.last},
               NEW v \in Int, \/ ps[j] = a.first /\ x < lo /\ v = lo
                              \/ ps[j] = a.last /\ x + n > hi /\ v = hi - n
        PROVE  q[a.first] = v
    <3> DEFINE zero == {0}
               there == [k \in 0..Len(ps) |-> IF k < j \/ h[k][a.first] = v THEN 0 ELSE 1]
    <3>1. there[0] \in zero
      BY <1>4
    <3>2. ASSUME NEW k \in 1..Len(ps), there[k - 1] \in zero PROVE there[k] \in zero
      <4>1. k - 1 \in 0..Len(ps) /\ k \in 0..Len(ps)
        BY <1>4
      <4>2. k - 1 < j \/ h[k - 1][a.first] = v
        BY <3>2, <4>1
      <4> HIDE DEF there
      <4>3. PICK r \in RawRects, side \in Placement!Sides :
                r = h[k - 1] /\ side = ps[k] /\ SameSize(p, r) /\ Reach(r[a.first], x, n, lo, hi)
        BY <1>4, <2>7, <4>1
      <4>4. PICK y \in Int : y = r[a.first]
        BY <1>12, AxisTypes
      <4>5. r[a.last] = x + n /\ r[a.len] = n
        BY <1>12, <2>1, <2>2, <4>3, SameAlong, SMTT(30)
      <4>6. h[k][a.first] = IF side = a.first /\ y < lo THEN lo
                            ELSE IF side = a.last /\ x + n > hi THEN Placement!AtMost(y, hi - n)
                            ELSE y
        <5>1. Pushed(r, side, b, escape)[a.first] =
                 IF ~escape /\ side = a.first /\ r[a.first] < b[a.first] THEN b[a.first]
                 ELSE IF ~escape /\ side = a.last /\ r[a.last] > b[a.last]
                      THEN Placement!AtMost(r[a.first], b[a.last] - r[a.len])
                 ELSE r[a.first]
          BY <1>12, PushedAlong
        <5>2. h[k] = Pushed(r, side, b, escape)
          BY <1>5, <4>3
        <5> QED
          BY <2>1, <2>9, <4>4, <4>5, <5>1, <5>2, Zenon
      <4>7. a.first # a.last
        BY <1>12 DEF IsAxis
      <4>8. Reach(y, x, n, lo, hi)
        BY <4>3, <4>4
      <4>9. k < j \/ h[k][a.first] = v
        <5>1. CASE k = j
          <6>1. side = ps[j]
            BY <4>3, <5>1
          <6> QED
            BY <2>2, <2>9, <4>6, <4>7, <4>8, <6>1 DEF Reach, Placement!AtMost
        <5>2. CASE k > j
          <6>1. y = v
            BY <4>2, <4>3, <4>4, <5>2
          <6> QED
            BY <2>2, <2>9, <4>6, <4>7, <6>1 DEF Placement!AtMost
        <5> QED
          BY <5>1, <5>2
      <4> QED
        BY <4>1, <4>9 DEF there
    <3> HIDE DEF there, zero
    <3>3. \A k \in 0..Len(ps) : there[k] \in zero
      BY <1>4, <3>1, <3>2, StepsKeep
    <3>4. there[Len(ps)] \in zero /\ Len(ps) \in 0..Len(ps) /\ ~(Len(ps) < j)
      BY <1>4, <3>3
    <3> QED
      BY <1>6, <3>4 DEF there, zero
  <2>10. ASSUME ~escape, {a.first, a.last} \subseteq Placement!ToSet(ps)
         PROVE  lo <= q[a.first] /\ q[a.first] + n <= hi
    <3>1. PICK i \in 1..Len(ps), j \in 1..Len(ps) : ps[i] = a.first /\ ps[j] = a.last
      BY <2>10 DEF Placement!ToSet
    <3>2. CASE x < lo
      <4>1. q[a.first] = lo
        BY <2>9, <2>10, <3>1, <3>2
      <4> QED
        BY <2>2, <4>1
    <3>3. CASE x + n > hi
      <4>1. PICK v \in Int : v = hi - n
        OBVIOUS
      <4>2. q[a.first] = v
        BY <2>9, <2>10, <3>1, <3>3, <4>1
      <4> QED
        BY <2>2, <4>1, <4>2
    <3>4. CASE ~(x < lo) /\ ~(x + n > hi)
      <4>1. q[a.first] = x
        BY <2>8, <3>4 DEF Reach
      <4> QED
        BY <3>4, <4>1
    <3> QED
      BY <3>2, <3>3, <3>4
  <2> QED
    BY <2>1, <2>8, <2>10
<1> QED
  BY <1>1, <1>2, <1>3, <1>9, <1>10, <1>11, <1>12, <1>c

-----------------------------------------------------------------------------
(* The modifiers before flip, of the data of one update.                   *)

\* The data while a popper of this page is placed.
Drafts(pg) == {d \in Datas : /\ d.ref = pg.ref /\ d.popper.width = pg.popper.width
                             /\ d.popper.height = pg.popper.height}

\* They stay drafts.
LEMMA KeptDraft ==
    ASSUME NEW pg, NEW d \in Drafts(pg), NEW e, Kept(d, e)
    PROVE  e \in Drafts(pg)
BY DEF Drafts, Kept

LEMMA DraftFacts ==
    ASSUME NEW pg, NEW d \in Drafts(pg)
    PROVE  /\ d \in Datas /\ d.ref = pg.ref /\ d.popper \in RawRects
           /\ \A a : IsAxis(a) => d.popper[a.len] = pg.popper[a.len]
BY DataFacts DEF Drafts, IsAxis

\* Complete drafts are drafts.
LEMMA CompleteDraft ==
    ASSUME NEW pg, Placement!IsLayout(pg), NEW d \in Drafts(pg)
    PROVE  \E c \in Drafts(pg) :
              /\ c = Complete(d) /\ Kept(d, c) /\ c.boundaries = d.boundaries /\ c.arrow = d.arrow
              /\ \A x \in Firsts : c.popper[x] = d.popper[x]
              /\ \A a : IsAxis(a) => c.popper[a.last] = c.popper[a.first] + c.popper[a.len]
<1>1. d \in Datas /\ d.ref = Client(d.ref) /\ d.popper \in RawRects
  BY DraftFacts, PageFacts
<1>2. PICK c : c = Complete(d)
  OBVIOUS
<1>3. Kept(d, c) /\ c.popper = Client(d.popper) /\ c.boundaries = d.boundaries /\ c.arrow = d.arrow
  BY <1>1, <1>2, CompleteFacts
<1>4. c \in Drafts(pg)
  BY <1>3, KeptDraft
<1>5. \A x \in Firsts : c.popper[x] = d.popper[x]
  BY <1>1, <1>3, ClientFacts DEF Firsts
<1>6. \A a : IsAxis(a) => c.popper[a.last] = c.popper[a.first] + c.popper[a.len]
  BY <1>1, <1>3, AxisTypes
<1> QED
  BY <1>2, <1>3, <1>4, <1>5, <1>6

\* The boundaries that preventOverflow uses.
Bounds(pg, o) == Placement!getBoundaries(pg.scrollParent, o.padding)

\* The far edge along w is where it was, or where the popper's length puts it.
MovesAway(d, e, w, pg) ==
    e.popper[w.last] = d.popper[w.last] \/ e.popper[w.last] = e.popper[w.first] + pg.popper[w.len]

\* shift, of a draft.
LEMMA DoneShift ==
    ASSUME NEW pg, NEW o, Placement!IsLayout(pg), Placement!IsOptions(o), NEW d \in Drafts(pg)
    PROVE  \E e \in Drafts(pg) :
              /\ e = Done("shift", d, pg, o) /\ Kept(d, e)
              /\ e.popper[Placement!Away(d.placement.side).first]
                    = d.popper[Placement!Away(d.placement.side).first]
              /\ MovesAway(d, e, Placement!Away(d.placement.side), pg)
<1>1. CASE "shift" \notin o.enabled
  <2>1. Done("shift", d, pg, o) = d /\ Kept(d, d)
    BY <1>1, DraftFacts, KeptSelf DEF Done
  <2> QED
    BY <2>1 DEF MovesAway
<1>2. CASE "shift" \in o.enabled
  <2>1. PICK c \in Drafts(pg) : /\ c = Complete(d) /\ Kept(d, c)
                                /\ \A x \in Firsts : c.popper[x] = d.popper[x]
                                /\ \A f : IsAxis(f) => c.popper[f.last] = c.popper[f.first] + c.popper[f.len]
    BY CompleteDraft
  <2>2. c \in Datas /\ c.placement = d.placement
    BY <2>1, DraftFacts DEF Kept
  <2>3. PICK e : e = Placement!shift(c, pg, o)
    OBVIOUS
  <2>4. Moves(c, e, Placement!Along(d.placement.side).first)
    BY <2>2, <2>3, ShiftDoes
  <2>5. PICK a, w : /\ a = Placement!Along(d.placement.side) /\ w = Placement!Away(d.placement.side)
                    /\ a.first # w.first /\ w.first \in Firsts /\ IsAxis(a) /\ IsAxis(w)
    BY <2>2, DataAxis
  <2>6. w.first \in Edges
    BY <2>5 DEF Firsts, Edges
  <2>7. e.popper[w.first] = d.popper[w.first] /\ Kept(c, e)
    BY <2>1, <2>4, <2>5, <2>6 DEF Moves
  <2>a. MovesAway(d, e, w, pg)
    <3>1. w.last \in Edges /\ w.last # a.first
      BY <2>5 DEF Edges, IsAxis
    <3>2. e.popper[w.last] = c.popper[w.last] /\ e.popper[w.first] = c.popper[w.first]
      BY <2>4, <2>5, <2>6, <3>1 DEF Moves
    <3>3. c.popper[w.last] = c.popper[w.first] + pg.popper[w.len]
      BY <2>1, <2>5, DraftFacts
    <3> QED
      BY <3>2, <3>3 DEF MovesAway
  <2>8. Kept(d, e) /\ e \in Drafts(pg)
    BY <2>1, <2>7, KeptTransitive, KeptDraft
  <2>9. e = Done("shift", d, pg, o)
    BY <1>2, <2>1, <2>3 DEF Done, Apply
  <2> QED
    BY <2>5, <2>7, <2>8, <2>9, <2>a
<1> QED
  BY <1>1, <1>2

\* offset, of a draft.
LEMMA DoneOffset ==
    ASSUME NEW pg, NEW o, Placement!IsLayout(pg), Placement!IsOptions(o), NEW d \in Drafts(pg)
    PROVE  \E e \in Drafts(pg) :
              /\ e = Done("offset", d, pg, o) /\ Kept(d, e)
              /\ o.offset = <<0, 0>> => \A x \in Firsts : e.popper[x] = d.popper[x]
              /\ \A w : IsAxis(w) /\ o.offset = <<0, 0>> => MovesAway(d, e, w, pg)
<1>1. CASE "offset" \notin o.enabled
  <2>1. Done("offset", d, pg, o) = d /\ Kept(d, d)
    BY <1>1, DraftFacts, KeptSelf DEF Done
  <2> QED
    BY <2>1 DEF MovesAway
<1>2. CASE "offset" \in o.enabled
  <2>1. PICK c \in Drafts(pg) : /\ c = Complete(d) /\ Kept(d, c)
                                /\ \A x \in Firsts : c.popper[x] = d.popper[x]
                                /\ \A f : IsAxis(f) => c.popper[f.last] = c.popper[f.first] + c.popper[f.len]
    BY CompleteDraft
  <2>2. c \in Datas
    BY DraftFacts
  <2>3. PICK e : e = Placement!offset(c, pg, o)
    OBVIOUS
  <2>4. Kept(c, e) /\ (o.offset = <<0, 0>> => \A x \in Firsts : e.popper[x] = c.popper[x])
        /\ \A y \in Edges : y \notin Firsts => e.popper[y] = c.popper[y]
    BY <2>2, <2>3, OffsetDoes
  <2>a. ASSUME NEW w, IsAxis(w), o.offset = <<0, 0>> PROVE MovesAway(d, e, w, pg)
    <3>1. w.last \in Edges /\ w.last \notin Firsts /\ w.first \in Firsts
      BY <2>a DEF Edges, Firsts, IsAxis
    <3>2. e.popper[w.last] = c.popper[w.last] /\ e.popper[w.first] = c.popper[w.first]
      BY <2>4, <2>a, <3>1
    <3>3. c.popper[w.last] = c.popper[w.first] + pg.popper[w.len]
      BY <2>1, <2>a, DraftFacts
    <3> QED
      BY <3>2, <3>3 DEF MovesAway
  <2>8. Kept(d, e) /\ e \in Drafts(pg)
    BY <2>1, <2>4, KeptTransitive, KeptDraft
  <2>9. e = Done("offset", d, pg, o)
    BY <1>2, <2>1, <2>3 DEF Done, Apply
  <2> QED
    BY <2>1, <2>4, <2>8, <2>9, <2>a
<1> QED
  BY <1>1, <1>2

\* preventOverflow, of a draft.
LEMMA DonePreventOverflow ==
    ASSUME NEW pg, NEW o, Placement!IsLayout(pg), Placement!IsOptions(o), NEW d \in Drafts(pg)
    PROVE  \E e \in Drafts(pg), b \in RawRects :
              /\ b = Bounds(pg, o)
              /\ e = Done("preventOverflow", d, pg, o) /\ Kept(d, e)
              /\ "preventOverflow" \in o.enabled => e.boundaries = b
              /\ \A a : IsAxis(a) => \/ e.popper[a.last] = d.popper[a.last]
                                     \/ e.popper[a.last] = d.popper[a.first] + pg.popper[a.len]
              /\ \A a : IsAxis(a) /\ pg.popper[a.len] <= b[a.last] - b[a.first]
                    => /\ Reach(e.popper[a.first], d.popper[a.first], pg.popper[a.len], b[a.first], b[a.last])
                       /\ "preventOverflow" \in o.enabled /\ ~o.escapeWithReference
                          /\ {a.first, a.last} \subseteq Placement!ToSet(o.priority)
                           => b[a.first] <= e.popper[a.first]
                              /\ e.popper[a.first] + pg.popper[a.len] <= b[a.last]
<1>1. CASE "preventOverflow" \notin o.enabled
  <2>1. Done("preventOverflow", d, pg, o) = d /\ Kept(d, d)
    BY <1>1, DraftFacts, KeptSelf DEF Done
  <2>2. Bounds(pg, o) \in RawRects
    <3>1. pg.scrollParent \in RawRects /\ o.padding \in Int
      BY PageFacts, OptionFacts
    <3> QED
      BY <3>1, BoundaryFacts DEF Bounds
  <2> QED
    BY <1>1, <2>1, <2>2 DEF Reach
<1>2. CASE "preventOverflow" \in o.enabled
  <2>1. PICK c \in Drafts(pg) :
             /\ c = Complete(d) /\ Kept(d, c)
             /\ \A x \in Firsts : c.popper[x] = d.popper[x]
             /\ \A a : IsAxis(a) => c.popper[a.last] = c.popper[a.first] + c.popper[a.len]
    BY CompleteDraft
  <2>2. c \in Datas
    BY DraftFacts
  <2>3. PICK e \in Datas, b \in RawRects :
              /\ b = Bounds(pg, o)
              /\ e = Placement!preventOverflow(c, pg, o) /\ Kept(c, e) /\ e.boundaries = b
              /\ \A a : IsAxis(a) => e.popper[a.last] = c.popper[a.last]
              /\ \A a : IsAxis(a) /\ c.popper[a.last] = c.popper[a.first] + c.popper[a.len]
                        /\ c.popper[a.len] <= b[a.last] - b[a.first]
                    => /\ Reach(e.popper[a.first], c.popper[a.first], c.popper[a.len], b[a.first], b[a.last])
                       /\ ~o.escapeWithReference /\ {a.first, a.last} \subseteq Placement!ToSet(o.priority)
                           => b[a.first] <= e.popper[a.first]
                              /\ e.popper[a.first] + c.popper[a.len] <= b[a.last]
    BY <2>2, PreventOverflowDoes DEF Bounds
  <2>4. \A a : IsAxis(a) /\ pg.popper[a.len] <= b[a.last] - b[a.first]
           => /\ Reach(e.popper[a.first], d.popper[a.first], pg.popper[a.len], b[a.first], b[a.last])
              /\ ~o.escapeWithReference /\ {a.first, a.last} \subseteq Placement!ToSet(o.priority)
                  => b[a.first] <= e.popper[a.first]
                     /\ e.popper[a.first] + pg.popper[a.len] <= b[a.last]
    <3> SUFFICES ASSUME NEW a, IsAxis(a), pg.popper[a.len] <= b[a.last] - b[a.first]
                 PROVE  /\ Reach(e.popper[a.first], d.popper[a.first], pg.popper[a.len], b[a.first], b[a.last])
                        /\ ~o.escapeWithReference /\ {a.first, a.last} \subseteq Placement!ToSet(o.priority)
                            => b[a.first] <= e.popper[a.first]
                               /\ e.popper[a.first] + pg.popper[a.len] <= b[a.last]
      OBVIOUS
    <3>1. c.popper[a.len] = pg.popper[a.len] /\ c.popper[a.first] = d.popper[a.first]
      BY <2>1, DraftFacts, AxisTypes
    <3>2. c.popper[a.last] = c.popper[a.first] + c.popper[a.len]
      BY <2>1
    <3> QED
      BY <2>3, <3>1, <3>2
  <2>a. ASSUME NEW a, IsAxis(a) PROVE e.popper[a.last] = d.popper[a.first] + pg.popper[a.len]
    <3>1. c.popper[a.len] = pg.popper[a.len] /\ c.popper[a.first] = d.popper[a.first]
      BY <2>1, <2>a, DraftFacts, AxisTypes
    <3> QED
      BY <2>1, <2>3, <2>a, <3>1
  <2>8. Kept(d, e) /\ e \in Drafts(pg)
    BY <2>1, <2>3, KeptTransitive, KeptDraft
  <2>9. e = Done("preventOverflow", d, pg, o)
    BY <1>2, <2>1, <2>3 DEF Done, Apply
  <2> QED
    BY <1>2, <2>3, <2>4, <2>8, <2>9, <2>a
<1> QED
  BY <1>1, <1>2

\* What is complete at the other edge follows.
LEMMA CompleteFollows ==
    ASSUME NEW pg, NEW d \in Drafts(pg), NEW c \in Drafts(pg), NEW e, NEW w, IsAxis(w),
           c.popper[w.last] = c.popper[w.first] + c.popper[w.len],
           e.popper[w.first] = c.popper[w.first], e.popper[w.last] = c.popper[w.last]
    PROVE  MovesAway(d, e, w, pg)
<1>1. c.popper[w.len] = pg.popper[w.len]
  BY DraftFacts
<1> QED
  BY <1>1 DEF MovesAway

\* keepTogether, of a draft.
LEMMA DoneKeepTogether ==
    ASSUME NEW pg, NEW o, Placement!IsLayout(pg), Placement!IsOptions(o), NEW d \in Drafts(pg),
           NEW a, a = Placement!Along(d.placement.side)
    PROVE  \E e \in Drafts(pg) :
              /\ e = Done("keepTogether", d, pg, o) /\ Kept(d, e)
              /\ e.boundaries = d.boundaries
              /\ \A y \in Firsts : y # a.first => e.popper[y] = d.popper[y]
              /\ e.popper[a.first] =
                    IF "keepTogether" \in o.enabled
                    THEN TogetherAt(d.popper[a.first], pg.popper[a.len], pg.ref[a.first], pg.ref[a.last])
                    ELSE d.popper[a.first]
              /\ MovesAway(d, e, Placement!Away(d.placement.side), pg)
<1>1. CASE "keepTogether" \notin o.enabled
  <2>1. Done("keepTogether", d, pg, o) = d /\ Kept(d, d)
    BY <1>1, DraftFacts, KeptSelf DEF Done
  <2> QED
    BY <1>1, <2>1 DEF MovesAway
<1>2. CASE "keepTogether" \in o.enabled
  <2>1. PICK c \in Drafts(pg) :
             /\ c = Complete(d) /\ Kept(d, c) /\ c.boundaries = d.boundaries
             /\ \A x \in Firsts : c.popper[x] = d.popper[x]
             /\ \A v : IsAxis(v) => c.popper[v.last] = c.popper[v.first] + c.popper[v.len]
    BY CompleteDraft
  <2>2. c \in Datas /\ c.placement = d.placement /\ c.ref = pg.ref
    BY <2>1, DraftFacts DEF Kept
  <2>3. IsAxis(a) /\ a.first \in Firsts /\ c.popper[a.len] = pg.popper[a.len]
        /\ c.popper[a.first] = d.popper[a.first]
        /\ c.popper[a.last] = c.popper[a.first] + c.popper[a.len]
    <3>1. d.placement.side \in Placement!Sides
      BY DraftFacts, DataFacts
    <3>2. IsAxis(a)
      BY <3>1, AxisFacts
    <3>3. a.first \in Firsts
      BY <3>2, AxisTypes
    <3> QED
      BY <2>1, <3>2, <3>3, DraftFacts
  <2>4. PICK x, n, l : x = a.first /\ n = a.len /\ l = a.last
    OBVIOUS
  <2>5. c.popper[l] = c.popper[x] + c.popper[n]
    BY <2>3, <2>4
  <2>6. /\ x = Placement!Along(c.placement.side).first /\ n = Placement!Along(c.placement.side).len
        /\ l = Placement!Along(c.placement.side).last
    BY <2>2, <2>4
  <2>7. PICK e \in Datas :
            /\ e = Placement!keepTogether(c, pg, o) /\ Moves(c, e, x)
            /\ e.popper[x] = TogetherAt(c.popper[x], c.popper[n], c.ref[x], c.ref[l])
    BY <2>2, <2>5, <2>6, KeepTogetherDoes, SMTT(30)
  <2>8. Kept(c, e) /\ e.boundaries = c.boundaries
        /\ \A y \in Firsts : y # x => e.popper[y] = c.popper[y]
    BY <2>7 DEF Moves, Firsts, Edges
  <2>9. Kept(d, e) /\ e \in Drafts(pg)
    BY <2>1, <2>8, KeptTransitive, KeptDraft
  <2>10. e = Done("keepTogether", d, pg, o)
    BY <1>2, <2>1, <2>7 DEF Done, Apply
  <2>11. e.popper[a.first] = TogetherAt(d.popper[a.first], pg.popper[a.len], pg.ref[a.first], pg.ref[a.last])
    BY <2>2, <2>3, <2>4, <2>7, Zenon
  <2>12. PICK w : /\ w = Placement!Away(d.placement.side) /\ w.first # a.first
                  /\ IsAxis(w) /\ w.first \in Edges /\ w.last \in Edges /\ w.last # a.first
    <3>1. d.placement.side \in Placement!Sides
      BY DraftFacts, DataFacts
    <3>2. PICK w : w = Placement!Away(d.placement.side) /\ w.first # a.first /\ IsAxis(w)
      BY <3>1, AxisFacts
    <3>3. w.first \in Edges /\ w.last \in Edges
      BY <3>2, AxisTypes
    <3>4. w.last # a.first
      BY <2>3, <3>2 DEF IsAxis
    <3> QED
      BY <3>2, <3>3, <3>4
  <2>13. e.popper[w.first] = c.popper[w.first] /\ e.popper[w.last] = c.popper[w.last]
    BY <2>4, <2>7, <2>12 DEF Moves
  <2>14. MovesAway(d, e, w, pg)
    BY <2>1, <2>12, <2>13, CompleteFollows
  <2> QED
    BY <1>2, <2>1, <2>4, <2>8, <2>9, <2>10, <2>11, <2>12, <2>14, Zenon
<1> QED
  BY <1>1, <1>2

\* arrow, of a draft.
LEMMA DoneArrow ==
    ASSUME NEW pg, NEW o, Placement!IsLayout(pg), Placement!IsOptions(o), NEW d \in Drafts(pg),
           NEW a, a = Placement!Along(d.placement.side)
    PROVE  \E e \in Drafts(pg) :
              /\ e = Done("arrow", d, pg, o) /\ Kept(d, e)
              /\ e.boundaries = d.boundaries
              /\ \A y \in Firsts : y # a.first => e.popper[y] = d.popper[y]
              /\ {"arrow", "keepTogether"} \subseteq o.enabled =>
                   /\ e.popper[a.first] = ArrowAt(d.popper[a.first], pg.popper[a.len],
                                                  pg.ref[a.first], pg.ref[a.last], pg.arrow[a.len])
                   /\ e.arrow.side = a.first
                   /\ e.arrow.value = ArrowValue(e.popper[a.first], pg.popper[a.len], pg.ref[a.first],
                                                 pg.ref[a.len], pg.arrow[a.len], o.inset)
              /\ ~({"arrow", "keepTogether"} \subseteq o.enabled) =>
                   e.popper[a.first] = d.popper[a.first]
              /\ MovesAway(d, e, Placement!Away(d.placement.side), pg)
<1>0. IsAxis(a) /\ a.first \in Firsts
  <2>1. d.placement.side \in Placement!Sides
    BY DraftFacts, DataFacts
  <2>2. IsAxis(a)
    BY <2>1, AxisFacts
  <2>3. a.first \in Firsts
    BY <2>2, AxisTypes
  <2> QED
    BY <2>2, <2>3
<1>w. PICK w : w = Placement!Away(d.placement.side) /\ w.first # a.first /\ IsAxis(w) /\ w.first \in Firsts
  <2>1. d.placement.side \in Placement!Sides
    BY DraftFacts, DataFacts
  <2>2. PICK w : w = Placement!Away(d.placement.side) /\ w.first # a.first /\ IsAxis(w)
    BY <2>1, AxisFacts
  <2>3. w.first \in Firsts
    BY <2>2, AxisTypes
  <2> QED
    BY <2>2, <2>3
<1>1. CASE "arrow" \notin o.enabled
  <2>1. Done("arrow", d, pg, o) = d /\ Kept(d, d)
    BY <1>1, DraftFacts, KeptSelf DEF Done
  <2> QED
    BY <1>1, <2>1 DEF MovesAway
<1>2. CASE "arrow" \in o.enabled
  <2>1. PICK c \in Drafts(pg) :
             /\ c = Complete(d) /\ Kept(d, c) /\ c.boundaries = d.boundaries
             /\ \A x \in Firsts : c.popper[x] = d.popper[x]
             /\ \A v : IsAxis(v) => c.popper[v.last] = c.popper[v.first] + c.popper[v.len]
    BY CompleteDraft
  <2>2. c \in Datas /\ c.placement = d.placement /\ c.ref = pg.ref
    BY <2>1, DraftFacts DEF Kept
  <2>3. c.popper[a.len] = pg.popper[a.len]
        /\ c.popper[a.first] = d.popper[a.first]
        /\ c.popper[a.last] = c.popper[a.first] + c.popper[a.len]
    BY <1>0, <2>1, DraftFacts
  <2>4. Done("arrow", d, pg, o) = Placement!arrow(c, pg, o)
    BY <1>2, <2>1 DEF Done, Apply
  <2>5. CASE "keepTogether" \notin o.enabled
    <3>1. Placement!arrow(c, pg, o) = c
      BY <2>5, Zenon DEF Placement!arrow
    <3>2. MovesAway(d, c, w, pg)
      BY <1>w, <2>1, CompleteFollows
    <3> QED
      BY <1>0, <1>w, <2>1, <2>4, <2>5, <3>1, <3>2, Zenon
  <2>6. CASE "keepTogether" \in o.enabled
    <3>4. PICK x, n, l : x = a.first /\ n = a.len /\ l = a.last
      OBVIOUS
    <3>5. c.popper[l] = c.popper[x] + c.popper[n]
      BY <2>3, <3>4, SMTT(30)
    <3>6. /\ x = Placement!Along(c.placement.side).first /\ n = Placement!Along(c.placement.side).len
          /\ l = Placement!Along(c.placement.side).last
      BY <2>2, <3>4
    <3>7a. PICK e \in Datas : ArrowMade(c, pg, o, x, n, l, e)
      BY <2>2, <2>6, <3>5, <3>6, ArrowDoes, ZenonT(30)
    <3>7. /\ e = Placement!arrow(c, pg, o) /\ Kept(c, e) /\ e.popper = Client(e.popper)
          /\ e.boundaries = c.boundaries
          /\ \A y \in Firsts : y # x => e.popper[y] = c.popper[y]
          /\ e.popper[x] = ArrowAt(c.popper[x], c.popper[n], c.ref[x], c.ref[l], pg.arrow[n])
          /\ e.arrow.side = x
          /\ e.arrow.value = ArrowValue(e.popper[x], c.popper[n], c.ref[x], c.ref[n],
                                        pg.arrow[n], o.inset)
      BY <3>7a, Zenon DEF ArrowMade
    <3>9. Kept(d, e) /\ e \in Drafts(pg)
      BY <2>1, <3>7, KeptTransitive, KeptDraft
    <3>10. e.popper[a.first] = ArrowAt(d.popper[a.first], pg.popper[a.len],
                                       pg.ref[a.first], pg.ref[a.last], pg.arrow[a.len])
      BY <2>2, <2>3, <3>4, <3>7, Zenon
    <3>11. e.arrow.value = ArrowValue(e.popper[a.first], pg.popper[a.len], pg.ref[a.first],
                                      pg.ref[a.len], pg.arrow[a.len], o.inset)
      BY <2>2, <2>3, <3>4, <3>7, ZenonT(40)
    <3>12. e = Done("arrow", d, pg, o) /\ e.boundaries = d.boundaries /\ e.arrow.side = a.first
      BY <2>1, <2>4, <3>4, <3>7
    <3>13. \A y \in Firsts : y # a.first => e.popper[y] = d.popper[y]
      BY <2>1, <3>4, <3>7
    <3>14. MovesAway(d, e, w, pg)
      <4>1. e.popper \in RawRects /\ e.popper[w.len] = pg.popper[w.len]
        BY <1>w, <3>9, DraftFacts
      <4>2. e.popper[w.last] = e.popper[w.first] + pg.popper[w.len]
        BY <1>w, <3>7, <4>1, AxisTypes
      <4> QED
        BY <4>2 DEF MovesAway
    <3> QED
      BY <1>2, <1>w, <2>6, <3>9, <3>10, <3>11, <3>12, <3>13, <3>14, Zenon
  <2> QED
    BY <2>5, <2>6, Zenon
<1> QED
  BY <1>1, <1>2, Zenon

-----------------------------------------------------------------------------
(* What an update promises, and the modifiers that establish it.           *)

\* What is right of a popper at x along the axis a.
Touches(a, x, pg, o) ==
    "keepTogether" \in o.enabled /\ "arrow" \notin o.enabled =>
        x + pg.popper[a.len] >= Placement!Floor(pg.ref[a.first]) /\ x <= pg.ref[a.last]

\* If the arrow fits, it is inside of the popper and at the reference.
Points(a, x, r, pg, o) ==
    /\ "arrow" \in o.enabled /\ "keepTogether" \in o.enabled
    /\ pg.arrow[a.len] <= pg.popper[a.len] /\ pg.arrow[a.len] <= pg.ref[a.len]
    => /\ r.side = a.first
       /\ r.value >= 0 /\ r.value <= pg.popper[a.len] - pg.arrow[a.len]
       /\ o.inset = 0 => /\ x + o.inset + r.value >= pg.ref[a.first] - 1
                         /\ x + o.inset + r.value + pg.arrow[a.len] <= pg.ref[a.last] + 1

\* If it fits and both edges are in the priority, it is inside of its boundaries.
Inside(a, x, pg, o) ==
    LET b == Bounds(pg, o)
    IN  /\ "preventOverflow" \in o.enabled /\ ~o.escapeWithReference
        /\ {a.first, a.last} \subseteq Placement!ToSet(o.priority)
        /\ "arrow" \in o.enabled =>
             pg.arrow[a.len] <= pg.popper[a.len] /\ pg.arrow[a.len] <= pg.ref[a.len]
        /\ pg.ref[a.first] < pg.ref[a.last]
        /\ pg.popper[a.len] <= b[a.last] - b[a.first]
        /\ pg.ref[a.first] >= b[a.first] /\ pg.ref[a.last] <= b[a.last]
        => x >= b[a.first] /\ x + pg.popper[a.len] <= b[a.last]

\* The far edge along w is where the popper's length puts it, from before or now.
Trails(e, d, w, pg) ==
    \/ e.popper[w.last] = d.popper[w.last]
    \/ e.popper[w.last] = d.popper[w.first] + pg.popper[w.len]
    \/ e.popper[w.last] = e.popper[w.first] + pg.popper[w.len]

\* The modifiers before flip.
LEMMA RunFacts ==
    ASSUME NEW pg, NEW o, Placement!IsLayout(pg), Placement!IsOptions(o), NEW d \in Drafts(pg),
           NEW a, a = Placement!Along(d.placement.side), NEW w, w = Placement!Away(d.placement.side)
    PROVE  \E e \in Drafts(pg), b \in RawRects :
              /\ e = Placement!runModifiers(Placement!Before("flip"), d, pg, o) /\ Kept(d, e)
              /\ b = Bounds(pg, o)
              /\ "preventOverflow" \in o.enabled => e.boundaries = b
              /\ Touches(a, e.popper[a.first], pg, o)
              /\ Points(a, e.popper[a.first], e.arrow, pg, o)
              /\ Inside(a, e.popper[a.first], pg, o)
              /\ o.offset = <<0, 0>> /\ pg.popper[w.len] <= b[w.last] - b[w.first]
                 => /\ Reach(e.popper[w.first], d.popper[w.first], pg.popper[w.len], b[w.first], b[w.last])
                    /\ Trails(e, d, w, pg)
<1>0. /\ IsAxis(a) /\ IsAxis(w) /\ a.first # w.first /\ a.first \in Firsts /\ w.first \in Firsts
  <2>1. d.placement.side \in Placement!Sides
    BY DraftFacts, DataFacts
  <2>2. IsAxis(a) /\ IsAxis(w) /\ a.first # w.first
    BY <2>1, AxisFacts
  <2>3. a.first \in Firsts /\ w.first \in Firsts
    BY <2>2, AxisTypes
  <2> QED
    BY <2>2, <2>3
<1>1. PICK d1 \in Drafts(pg) :
          /\ d1 = Done("shift", d, pg, o) /\ Kept(d, d1) /\ d1.popper[w.first] = d.popper[w.first]
          /\ MovesAway(d, d1, w, pg)
  BY DoneShift
<1>2. PICK d2 \in Drafts(pg) :
          /\ d2 = Done("offset", d1, pg, o) /\ Kept(d1, d2)
          /\ o.offset = <<0, 0>> => \A x \in Firsts : d2.popper[x] = d1.popper[x]
          /\ \A f : IsAxis(f) /\ o.offset = <<0, 0>> => MovesAway(d1, d2, f, pg)
  BY DoneOffset
<1>3. PICK d3 \in Drafts(pg), b \in RawRects :
              /\ b = Bounds(pg, o)
              /\ d3 = Done("preventOverflow", d2, pg, o) /\ Kept(d2, d3)
              /\ "preventOverflow" \in o.enabled => d3.boundaries = b
              /\ \A f : IsAxis(f) => \/ d3.popper[f.last] = d2.popper[f.last]
                                     \/ d3.popper[f.last] = d2.popper[f.first] + pg.popper[f.len]
              /\ \A f : IsAxis(f) /\ pg.popper[f.len] <= b[f.last] - b[f.first]
                    => /\ Reach(d3.popper[f.first], d2.popper[f.first], pg.popper[f.len], b[f.first], b[f.last])
                       /\ "preventOverflow" \in o.enabled /\ ~o.escapeWithReference
                          /\ {f.first, f.last} \subseteq Placement!ToSet(o.priority)
                           => b[f.first] <= d3.popper[f.first]
                              /\ d3.popper[f.first] + pg.popper[f.len] <= b[f.last]
  BY DonePreventOverflow
<1>a. Kept(d, d2) /\ Kept(d, d3)
  <2>1. Kept(d, d2)
    BY <1>1, <1>2, KeptTransitive
  <2> QED
    BY <1>3, <2>1, KeptTransitive
<1>b. a = Placement!Along(d3.placement.side)
  BY <1>a DEF Kept
<1>bw. w = Placement!Away(d3.placement.side)
  BY <1>a DEF Kept
<1>4. PICK d4 \in Drafts(pg) :
              /\ d4 = Done("keepTogether", d3, pg, o) /\ Kept(d3, d4)
              /\ d4.boundaries = d3.boundaries
              /\ \A y \in Firsts : y # a.first => d4.popper[y] = d3.popper[y]
              /\ d4.popper[a.first] =
                    IF "keepTogether" \in o.enabled
                    THEN TogetherAt(d3.popper[a.first], pg.popper[a.len], pg.ref[a.first], pg.ref[a.last])
                    ELSE d3.popper[a.first]
              /\ MovesAway(d3, d4, w, pg)
  BY <1>b, <1>bw, DoneKeepTogether
<1>c. Kept(d, d4)
  BY <1>a, <1>4, KeptTransitive
<1>d. a = Placement!Along(d4.placement.side)
  BY <1>c DEF Kept
<1>dw. w = Placement!Away(d4.placement.side)
  BY <1>c DEF Kept
<1>5. PICK e \in Drafts(pg) :
              /\ e = Done("arrow", d4, pg, o) /\ Kept(d4, e)
              /\ e.boundaries = d4.boundaries
              /\ \A y \in Firsts : y # a.first => e.popper[y] = d4.popper[y]
              /\ {"arrow", "keepTogether"} \subseteq o.enabled =>
                   /\ e.popper[a.first] = ArrowAt(d4.popper[a.first], pg.popper[a.len],
                                                  pg.ref[a.first], pg.ref[a.last], pg.arrow[a.len])
                   /\ e.arrow.side = a.first
                   /\ e.arrow.value = ArrowValue(e.popper[a.first], pg.popper[a.len], pg.ref[a.first],
                                                 pg.ref[a.len], pg.arrow[a.len], o.inset)
              /\ ~({"arrow", "keepTogether"} \subseteq o.enabled) =>
                   e.popper[a.first] = d4.popper[a.first]
              /\ MovesAway(d4, e, w, pg)
  BY <1>d, <1>dw, DoneArrow
<1>e. Kept(d, e)
  BY <1>c, <1>5, KeptTransitive, SMTT(30)
<1>6. e = Placement!runModifiers(Placement!Before("flip"), d, pg, o)
  BY <1>1, <1>2, <1>3, <1>4, <1>5, RunBefore, SMTT(30)
<1>7. "preventOverflow" \in o.enabled => e.boundaries = b
  BY <1>3, <1>4, <1>5, Zenon
<1>8. o.offset = <<0, 0>> /\ pg.popper[w.len] <= b[w.last] - b[w.first]
         => Reach(e.popper[w.first], d.popper[w.first], pg.popper[w.len], b[w.first], b[w.last])
  <2>1. o.offset = <<0, 0>> => d2.popper[w.first] = d.popper[w.first]
    BY <1>0, <1>1, <1>2, Zenon
  <2>2. e.popper[w.first] = d3.popper[w.first]
    BY <1>0, <1>4, <1>5, ZenonT(40)
  <2>3. pg.popper[w.len] <= b[w.last] - b[w.first]
         => Reach(d3.popper[w.first], d2.popper[w.first], pg.popper[w.len], b[w.first], b[w.last])
    BY <1>0, <1>3, Zenon
  <2> QED
    BY <2>1, <2>2, <2>3, Zenon
<1>8t. o.offset = <<0, 0>> => Trails(e, d, w, pg)
  <2> SUFFICES ASSUME o.offset = <<0, 0>> PROVE Trails(e, d, w, pg)
    OBVIOUS
  <2>1. PICK n, x, u : n = pg.popper[w.len] /\ x = d.popper[w.first] /\ u = d.popper[w.last]
    OBVIOUS
  <2>2. d1.popper[w.first] = x /\ (d1.popper[w.last] = u \/ d1.popper[w.last] = x + n)
    BY <1>1, <2>1 DEF MovesAway
  <2>3. d2.popper[w.first] = x
    BY <1>0, <1>2, <2>2
  <2>4. MovesAway(d1, d2, w, pg)
    BY <1>0, <1>2
  <2>5. d2.popper[w.last] = u \/ d2.popper[w.last] = x + n
    BY <2>1, <2>2, <2>3, <2>4 DEF MovesAway
  <2>6. d3.popper[w.last] = u \/ d3.popper[w.last] = x + n
    BY <1>0, <1>3, <2>1, <2>3, <2>5, Zenon
  <2>7. d4.popper[w.first] = d3.popper[w.first] /\ e.popper[w.first] = d4.popper[w.first]
    BY <1>0, <1>4, <1>5, Zenon
  <2>8. \/ d4.popper[w.last] = u \/ d4.popper[w.last] = x + n
        \/ d4.popper[w.last] = d4.popper[w.first] + n
    BY <1>4, <2>1, <2>6, Zenon DEF MovesAway
  <2>9. \/ e.popper[w.last] = u \/ e.popper[w.last] = x + n
        \/ e.popper[w.last] = e.popper[w.first] + n
    BY <1>5, <2>1, <2>7, <2>8, Zenon DEF MovesAway
  <2> QED
    BY <2>1, <2>9 DEF Trails
\* Along the reference's edge, in numbers.
<1>f. PICK x3 \in Int, x4 \in Int, x \in Int, inset \in Int :
          /\ x3 = d3.popper[a.first] /\ x4 = d4.popper[a.first] /\ x = e.popper[a.first]
          /\ inset = o.inset
  <2>1. d3.popper[a.first] \in Int /\ d4.popper[a.first] \in Int /\ e.popper[a.first] \in Int
    BY <1>0, DraftFacts, AxisTypes
  <2>2. o.inset \in Int
    BY OptionFacts
  <2> QED
    BY <2>1, <2>2
<1>g. PICK n \in Nat, len \in Nat, s \in Nat :
          /\ n = pg.popper[a.len] /\ len = pg.ref[a.len] /\ s = pg.arrow[a.len]
          /\ n % 2 = 0 /\ len % 2 = 0 /\ s % 2 = 0
  <2>1. /\ pg.popper[a.len] \in Nat /\ pg.ref[a.len] \in Nat /\ pg.arrow[a.len] \in Nat
        /\ pg.popper[a.len] % 2 = 0 /\ pg.ref[a.len] % 2 = 0 /\ pg.arrow[a.len] % 2 = 0
    BY <1>0, PageFacts DEF IsAxis
  <2> QED
    BY <2>1
<1>h. PICK f \in Int, l \in Int, lo \in Int, hi \in Int :
          /\ f = pg.ref[a.first] /\ l = pg.ref[a.last] /\ lo = b[a.first] /\ hi = b[a.last]
          /\ l = f + len
  <2>1. b[a.first] \in Int /\ b[a.last] \in Int /\ pg.ref[a.first] \in Int /\ pg.ref[a.last] \in Int
        /\ pg.ref[a.last] = pg.ref[a.first] + pg.ref[a.len]
    BY <1>0, PageFacts, AxisTypes
  <2> QED
    BY <1>g, <2>1, Zenon
<1>9. /\ x3 = d3.popper[a.first] /\ x4 = d4.popper[a.first] /\ x = e.popper[a.first]
      /\ n = pg.popper[a.len] /\ f = pg.ref[a.first] /\ l = pg.ref[a.last] /\ len = pg.ref[a.len]
      /\ s = pg.arrow[a.len] /\ lo = b[a.first] /\ hi = b[a.last] /\ inset = o.inset
      /\ l = f + len /\ n % 2 = 0 /\ len % 2 = 0 /\ s % 2 = 0
  BY <1>f, <1>g, <1>h
<1>10. f <= l
  BY <1>9
<1>11. "keepTogether" \in o.enabled =>
         /\ x4 = TogetherAt(x3, n, f, l) /\ x4 + n >= Placement!Floor(f) /\ x4 <= l
         /\ \A u, v \in Int : u <= x3 /\ x3 + n <= v /\ u <= f /\ l <= v /\ f < l
                  => u <= x4 /\ x4 + n <= v
  <2>1. "keepTogether" \in o.enabled => x4 = TogetherAt(x3, n, f, l)
    BY <1>4, <1>9, Zenon
  <2>2. /\ TogetherAt(x3, n, f, l) + n >= Placement!Floor(f) /\ TogetherAt(x3, n, f, l) <= l
        /\ \A u, v \in Int : u <= x3 /\ x3 + n <= v /\ u <= f /\ l <= v /\ f < l
                  => u <= TogetherAt(x3, n, f, l) /\ TogetherAt(x3, n, f, l) + n <= v
    BY <1>10, TogetherNumbers
  <2> QED
    BY <2>1, <2>2, Zenon
<1>12. "keepTogether" \notin o.enabled => x4 = x3
  BY <1>4, <1>9, Zenon
<1>13. {"arrow", "keepTogether"} \subseteq o.enabled /\ s <= n /\ s <= len =>
         /\ x = ArrowAt(x4, n, f, l, s)
         /\ e.arrow.side = a.first
         /\ e.arrow.value \in Int /\ 0 <= e.arrow.value /\ e.arrow.value <= n - s
         /\ inset = 0 => x + inset + e.arrow.value >= f - 1 /\ x + inset + e.arrow.value + s <= l + 1
         /\ \A u, v \in Int : u <= x4 /\ x4 + n <= v /\ u <= f /\ l <= v => u <= x /\ x + n <= v
  <2> SUFFICES ASSUME {"arrow", "keepTogether"} \subseteq o.enabled, s <= n, s <= len
               PROVE  /\ x = ArrowAt(x4, n, f, l, s)
                      /\ e.arrow.side = a.first
                      /\ e.arrow.value \in Int /\ 0 <= e.arrow.value /\ e.arrow.value <= n - s
                      /\ inset = 0 => x + inset + e.arrow.value >= f - 1
                                      /\ x + inset + e.arrow.value + s <= l + 1
                      /\ \A u, v \in Int : u <= x4 /\ x4 + n <= v /\ u <= f /\ l <= v => u <= x /\ x + n <= v
    OBVIOUS
  <2>1. x = ArrowAt(x4, n, f, l, s) /\ e.arrow.side = a.first
        /\ e.arrow.value = ArrowValue(x, n, f, len, s, inset)
    BY <1>5, <1>9, Zenon
  <2>2. l = f + len /\ n % 2 = 0 /\ len % 2 = 0 /\ s % 2 = 0
    BY <1>9, Zenon
  <2>3. /\ LET y == ArrowAt(x4, n, f, l, s)
               v == ArrowValue(y, n, f, len, s, inset)
           IN  /\ v \in Int /\ 0 <= v /\ v <= n - s
               /\ inset = 0 => y + inset + v >= f - 1 /\ y + inset + v + s <= l + 1
        /\ \A u, v \in Int : u <= x4 /\ x4 + n <= v /\ u <= f /\ l <= v
                  => u <= ArrowAt(x4, n, f, l, s) /\ ArrowAt(x4, n, f, l, s) + n <= v
    BY <2>2, ArrowNumbers
  <2> QED
    BY <2>1, <2>3, Zenon
<1>14. ~({"arrow", "keepTogether"} \subseteq o.enabled) => x = x4
  BY <1>5, <1>9, Zenon
<1>15. Touches(a, e.popper[a.first], pg, o)
  <2>1. "keepTogether" \in o.enabled /\ "arrow" \notin o.enabled => x + n >= Placement!Floor(f) /\ x <= l
    BY <1>11, <1>14
  <2> QED
    BY <1>9, <2>1, Zenon DEF Touches
<1>16. Points(a, e.popper[a.first], e.arrow, pg, o)
  <2>1. PICK r : r = e.arrow
    OBVIOUS
  <2>2. "arrow" \in o.enabled /\ "keepTogether" \in o.enabled /\ s <= n /\ s <= len =>
          /\ r.side = a.first /\ r.value >= 0 /\ r.value <= n - s
          /\ inset = 0 => x + inset + r.value >= f - 1 /\ x + inset + r.value + s <= l + 1
    BY <1>13, <2>1
  <2> QED
    BY <1>9, <2>1, <2>2, Zenon DEF Points
<1>17. Inside(a, e.popper[a.first], pg, o)
  <2>1. ASSUME "preventOverflow" \in o.enabled, ~o.escapeWithReference,
               {a.first, a.last} \subseteq Placement!ToSet(o.priority),
               "arrow" \in o.enabled => s <= n /\ s <= len, f < l, n <= hi - lo, f >= lo, l <= hi
        PROVE  x >= lo /\ x + n <= hi
    <3>1. lo <= x3 /\ x3 + n <= hi
      BY <1>0, <1>3, <1>9, <2>1, Zenon
    <3>2. lo <= x4 /\ x4 + n <= hi
      BY <1>11, <1>12, <2>1, <3>1
    <3> QED
      BY <1>13, <1>14, <2>1, <3>2
  <2>2. /\ Bounds(pg, o)[a.first] = lo /\ Bounds(pg, o)[a.last] = hi /\ e.popper[a.first] = x
        /\ pg.popper[a.len] = n /\ pg.ref[a.first] = f /\ pg.ref[a.last] = l /\ pg.ref[a.len] = len
        /\ pg.arrow[a.len] = s
    BY <1>3, <1>9, Zenon
  <2> QED
    BY <2>1, <2>2, Zenon DEF Inside
<1> QED
  BY <1>3, <1>6, <1>7, <1>8, <1>8t, <1>15, <1>16, <1>17, <1>e, Zenon

\* Next to the reference.
LEMMA OffsetsFacts ==
    ASSUME NEW pg, Placement!IsLayout(pg), NEW ref \in RawRects, NEW side \in Placement!Sides,
           NEW w, w = Placement!Away(side)
    PROVE  \E p \in RawRects :
              /\ p = Placement!getPopperOffsets(pg.popper, ref, side) /\ p = Client(p)
              /\ p.width = pg.popper.width /\ p.height = pg.popper.height
              /\ p[w.first] = IF side = w.first THEN ref[side] - pg.popper[w.len] ELSE ref[w.last]
<1>1. PICK m : m = Placement!Along(side)
  OBVIOUS
<1>2. IsAxis(m) /\ IsAxis(w) /\ m.first # w.first
  BY <1>1, AxisFacts
<1>3. m.first \in Firsts /\ w.first \in Firsts /\ ref[m.first] \in Int /\ ref[m.len] \in Int
      /\ ref[w.last] \in Int /\ ref[w.first] \in Int
  BY <1>2, AxisTypes
<1>4. pg.popper.width \in Int /\ pg.popper.height \in Int /\ pg.popper[m.len] \in Int /\ pg.popper[w.len] \in Int
  <2>1. pg.popper.width \in Int /\ pg.popper.height \in Int
    BY PageFacts
  <2> QED
    BY <1>2, <2>1 DEF IsAxis
<1>5. PICK u \in Int : u = ref[m.first] + ref[m.len] \div 2 - pg.popper[m.len] \div 2
  <2>1. \A i \in Int : i \div 2 \in Int
    OBVIOUS
  <2>2. ref[m.len] \div 2 \in Int /\ pg.popper[m.len] \div 2 \in Int
    BY <1>3, <1>4, <2>1
  <2> QED
    BY <1>3, <2>2
<1>6. PICK v \in Int : v = IF side = w.first THEN ref[side] - pg.popper[w.len] ELSE ref[w.last]
  BY <1>3, <1>4
<1> DEFINE at == [left |-> 0, top |-> 0, width |-> pg.popper.width, height |-> pg.popper.height]
           q == [at EXCEPT ![m.first] = u, ![w.first] = v]
<1>7. /\ q.left \in Int /\ q.top \in Int /\ q.width = pg.popper.width /\ q.height = pg.popper.height
      /\ q[w.first] = v
  <2>1. \/ m.first = "left" /\ w.first = "top"
        \/ m.first = "top" /\ w.first = "left"
    BY <1>2 DEF IsAxis
  <2>2. CASE m.first = "left" /\ w.first = "top"
    <3>1. q.left = u /\ q.top = v /\ q.width = pg.popper.width /\ q.height = pg.popper.height
      BY <2>2
    <3> HIDE DEF q
    <3> QED
      BY <2>2, <3>1
  <2>3. CASE m.first = "top" /\ w.first = "left"
    <3>1. q.left = v /\ q.top = u /\ q.width = pg.popper.width /\ q.height = pg.popper.height
      BY <2>3
    <3> HIDE DEF q
    <3> QED
      BY <2>3, <3>1
  <2> QED
    BY <2>1, <2>2, <2>3
<1>8. Placement!getPopperOffsets(pg.popper, ref, side) = Client(q)
  BY <1>1, <1>5, <1>6, Zenon DEF Placement!getPopperOffsets, Client
<1> HIDE DEF q
<1>9. PICK p \in RawRects :
          /\ p = Client(q) /\ p.left = q.left /\ p.top = q.top
          /\ p.width = q.width /\ p.height = q.height
          /\ p.right = p.left + p.width /\ p.bottom = p.top + p.height
  <2>1. PICK i \in Int, j \in Int, n \in Int, h \in Int : i = q.left /\ j = q.top /\ n = q.width /\ h = q.height
    BY <1>4, <1>7
  <2>2. PICK r \in Int, l \in Int : r = i + n /\ l = j + h
    OBVIOUS
  <2>3. Client(q) = [left |-> i, top |-> j, width |-> n, height |-> h, right |-> r, bottom |-> l]
    BY <2>1, <2>2, Zenon DEF Client, Placement!getClientRect, Placement!Rect
  <2>4. [left |-> i, top |-> j, width |-> n, height |-> h, right |-> r, bottom |-> l] \in RawRects
    BY DEF RawRects
  <2>5. PICK p \in RawRects : p = [left |-> i, top |-> j, width |-> n, height |-> h, right |-> r, bottom |-> l]
    BY <2>4, Zenon
  <2>6. p.left = i /\ p.top = j /\ p.width = n /\ p.height = h /\ p.right = r /\ p.bottom = l
    BY <2>5
  <2> QED
    BY <2>1, <2>2, <2>3, <2>5, <2>6
<1>10. p = Client(p)
  BY <1>9 DEF Client, Placement!getClientRect, Placement!Rect, RawRects
<1>11. p[w.first] = q[w.first]
  BY <1>3, <1>9 DEF Firsts
<1> QED
  BY <1>6, <1>7, <1>8, <1>9, <1>10, <1>11

\* A popper that the modifiers before flip have placed.
Settled(d, a, pg, o) ==
    /\ d \in Drafts(pg)
    /\ "preventOverflow" \in o.enabled => d.boundaries = Bounds(pg, o)
    /\ Touches(a, d.popper[a.first], pg, o)
    /\ Points(a, d.popper[a.first], d.arrow, pg, o)
    /\ Inside(a, d.popper[a.first], pg, o)

\* That, of some data.
Placed(pg, o) == {d \in Drafts(pg) : Settled(d, Placement!Along(d.placement.side), pg, o)}

\* The modifiers before flip place the popper.
LEMMA RunPlaces ==
    ASSUME NEW pg, NEW o, Placement!IsLayout(pg), Placement!IsOptions(o), NEW d \in Drafts(pg)
    PROVE  \E e \in Placed(pg, o) :
              e = Placement!runModifiers(Placement!Before("flip"), d, pg, o) /\ Kept(d, e)
<1>1. PICK a, w : a = Placement!Along(d.placement.side) /\ w = Placement!Away(d.placement.side)
  OBVIOUS
<1>2. PICK e \in Drafts(pg), b \in RawRects :
              /\ e = Placement!runModifiers(Placement!Before("flip"), d, pg, o) /\ Kept(d, e)
              /\ b = Bounds(pg, o)
              /\ "preventOverflow" \in o.enabled => e.boundaries = b
              /\ Touches(a, e.popper[a.first], pg, o)
              /\ Points(a, e.popper[a.first], e.arrow, pg, o)
              /\ Inside(a, e.popper[a.first], pg, o)
  BY <1>1, RunFacts
<1>3. Settled(e, a, pg, o)
  BY <1>2 DEF Settled
<1>4. a = Placement!Along(e.placement.side)
  BY <1>1, <1>2 DEF Kept
<1> QED
  BY <1>2, <1>3, <1>4, Zenon DEF Placed

\* What keeps the popper along its edge, the arrow and the boundaries keeps that.
LEMMA StillPlaced ==
    ASSUME NEW pg, NEW o, NEW d \in Placed(pg, o), NEW e \in Drafts(pg),
           Placement!Along(e.placement.side) = Placement!Along(d.placement.side),
           e.boundaries = d.boundaries, e.arrow = d.arrow,
           e.popper[Placement!Along(d.placement.side).first] = d.popper[Placement!Along(d.placement.side).first]
    PROVE  e \in Placed(pg, o)
<1>1. PICK a : a = Placement!Along(d.placement.side)
  OBVIOUS
<1>2. Settled(d, a, pg, o)
  BY <1>1 DEF Placed
<1>3. e.popper[a.first] = d.popper[a.first]
  BY <1>1
<1>4. Settled(e, a, pg, o)
  BY <1>2, <1>3, Zenon DEF Settled
<1> QED
  BY <1>1, <1>4 DEF Placed

\* Made complete at the end, and before flip.
LEMMA CompletePlaced ==
    ASSUME NEW pg, NEW o, NEW d \in Placed(pg, o)
    PROVE  \E e \in Placed(pg, o) :
              /\ e = [d EXCEPT !.popper = Client(@)] /\ Kept(d, e) /\ e.popper = Client(d.popper)
              /\ e.boundaries = d.boundaries
              /\ e.popper = Client(e.popper) /\ \A x \in Firsts : e.popper[x] = d.popper[x]
<1>1. d \in Drafts(pg) /\ d \in Datas /\ d.popper \in RawRects
  BY DraftFacts DEF Placed
<1>2. PICK p \in RawRects : /\ p = Client(d.popper) /\ p.width = d.popper.width /\ p.height = d.popper.height
                            /\ p = Client(p) /\ \A x \in Firsts : p[x] = d.popper[x]
  BY <1>1, ClientFacts DEF Firsts
<1>3. PICK e \in Datas : e = [d EXCEPT !.popper = p]
  BY <1>1 DEF Datas
<1>4. e.popper = p /\ e.placement = d.placement /\ e.originalPlacement = d.originalPlacement
      /\ e.flipped = d.flipped /\ e.ref = d.ref /\ e.hide = d.hide /\ e.boundaries = d.boundaries
      /\ e.arrow = d.arrow
  BY <1>1, <1>3 DEF Datas
<1>5. e = [d EXCEPT !.popper = Client(@)]
  BY <1>2, <1>3
<1>6. Kept(d, e)
  BY <1>2, <1>4, Zenon DEF Kept
<1>7. e \in Drafts(pg)
  BY <1>1, <1>6, KeptDraft
<1>8. Placement!Along(d.placement.side).first \in Firsts
  <2>1. d.placement.side \in Placement!Sides
    BY <1>1, DataFacts
  <2> QED
    BY <2>1, AxisFacts, AxisTypes
<1>9. e \in Placed(pg, o)
  <2>1. e.popper[Placement!Along(d.placement.side).first] = d.popper[Placement!Along(d.placement.side).first]
    BY <1>2, <1>4, <1>8
  <2> QED
    BY <1>4, <1>7, <2>1, StillPlaced
<1> QED
  BY <1>2, <1>4, <1>5, <1>6, <1>9

\* The complete data that a modifier after flip gets.
LEMMA CompleteLater ==
    ASSUME NEW pg, NEW o, Placement!IsLayout(pg), NEW d \in Placed(pg, o)
    PROVE  \E c \in Placed(pg, o) : c = Complete(d) /\ Kept(d, c) /\ c.boundaries = d.boundaries
<1>1. d \in Drafts(pg)
  BY DEF Placed
<1>2. PICK c \in Drafts(pg) :
              /\ c = Complete(d) /\ Kept(d, c) /\ c.boundaries = d.boundaries /\ c.arrow = d.arrow
              /\ \A x \in Firsts : c.popper[x] = d.popper[x]
  BY <1>1, CompleteDraft
<1>3. Placement!Along(d.placement.side).first \in Firsts
  <2>1. d.placement.side \in Placement!Sides
    BY <1>1, DraftFacts, DataFacts
  <2> QED
    BY <2>1, AxisFacts, AxisTypes
<1>4. c.popper[Placement!Along(d.placement.side).first] = d.popper[Placement!Along(d.placement.side).first]
      /\ Placement!Along(c.placement.side) = Placement!Along(d.placement.side)
  BY <1>2, <1>3 DEF Kept
<1>5. c \in Placed(pg, o)
  BY <1>2, <1>4, StillPlaced
<1> QED
  BY <1>2, <1>5

\* inner, of a placed popper.
LEMMA DoneInner ==
    ASSUME NEW pg, NEW o, Placement!IsLayout(pg), NEW d \in Placed(pg, o)
    PROVE  \E e \in Placed(pg, o) :
              /\ e = Done("inner", d, pg, o) /\ e.boundaries = d.boundaries
              /\ e.originalPlacement = d.originalPlacement /\ e.hide = d.hide
              /\ "inner" \notin o.enabled => e.placement = d.placement
<1>1. CASE "inner" \notin o.enabled
  <2>1. Done("inner", d, pg, o) = d
    BY <1>1 DEF Done
  <2> QED
    BY <2>1
<1>2. CASE "inner" \in o.enabled
  <2>1. PICK c \in Placed(pg, o) : c = Complete(d) /\ Kept(d, c) /\ c.boundaries = d.boundaries
    BY CompleteLater
  <2>2. c \in Drafts(pg) /\ c \in Datas /\ c.popper \in RawRects /\ c.ref \in RawRects
        /\ c.placement \in Turns /\ c.placement.side \in Placement!Sides
    <3>1. c \in Drafts(pg)
      BY DEF Placed
    <3>2. c \in Datas
      BY <3>1, DraftFacts
    <3> QED
      BY <3>1, <3>2, DataFacts
  <2>3. PICK side \in Placement!Sides : side = c.placement.side
    BY <2>2
  <2>4. PICK a, w : a = Placement!Along(side) /\ w = Placement!Away(side)
    OBVIOUS
  <2>5. /\ IsAxis(a) /\ IsAxis(w) /\ a.first # w.first
        /\ Placement!Opposite[side] \in Placement!Sides
        /\ Placement!Along(Placement!Opposite[side]) = a
    BY <2>4, AxisFacts
  <2>6. a.first \in Firsts /\ w.first \in Firsts /\ c.popper[w.len] \in Int /\ c.ref[side] \in Int
    <3>1. c.ref[side] \in Int
      BY <2>2 DEF RawRects, Placement!Sides
    <3> QED
      BY <2>2, <2>5, <3>1, AxisTypes
  <2>7. PICK v \in Int : v = c.ref[side] - IF side \in {"top", "left"} THEN 0 ELSE c.popper[w.len]
    BY <2>6
  <2>8. PICK x \in Firsts : x = w.first
    BY <2>6
  <2>9. PICK q \in RawRects : /\ q = PutRect(c.popper, x, v)
                              /\ q.width = c.popper.width /\ q.height = c.popper.height
                              /\ \A y \in Firsts : y # x => q[y] = c.popper[y]
    BY <2>2, PutRectFacts
  <2>10. PICK p \in RawRects : /\ p = Client(q) /\ p.width = q.width /\ p.height = q.height
                               /\ \A y \in Firsts : p[y] = q[y]
    BY ClientFacts DEF Firsts
  <2>11. PICK t \in Turns : t = Placement!getOppositePlacement(c.placement) /\ t.side = Placement!Opposite[side]
    <3>1. PICK s \in Placement!Sides : s = Placement!Opposite[side]
      BY <2>5
    <3>2. PICK t \in Turns : t = [c.placement EXCEPT !.side = s]
      BY <2>2 DEF Turns
    <3>3. t.side = s
      BY <2>2, <3>2 DEF Turns
    <3>4. t = Placement!getOppositePlacement(c.placement)
      BY <2>3, <3>1, <3>2 DEF Placement!getOppositePlacement
    <3> QED
      BY <3>1, <3>3, <3>4
  <2>12. PICK e \in Datas : e = [c EXCEPT !.popper = p, !.placement = t]
    BY <2>2 DEF Datas
  <2>13. /\ e.popper = p /\ e.placement = t /\ e.originalPlacement = c.originalPlacement
         /\ e.flipped = c.flipped /\ e.ref = c.ref /\ e.hide = c.hide /\ e.boundaries = c.boundaries
         /\ e.arrow = c.arrow
    BY <2>2, <2>12 DEF Datas
  <2>14. e = Placement!inner(c, pg, o)
    <3>1. Placement!inner(c, pg, o) =
            [c EXCEPT !.popper = Client(PutRect(@, w.first,
                          c.ref[side] - IF side \in {"top", "left"} THEN 0 ELSE c.popper[w.len])),
                      !.placement = Placement!getOppositePlacement(@)]
      BY <2>3, <2>4, Zenon DEF Placement!inner, Client, PutRect
    <3> QED
      BY <2>7, <2>8, <2>9, <2>10, <2>11, <2>12, <3>1, Zenon
  <2>15. e = Done("inner", d, pg, o)
    BY <1>2, <2>1, <2>14 DEF Done, Apply
  <2>16. e \in Drafts(pg)
    BY <2>2, <2>9, <2>10, <2>13 DEF Drafts
  <2>17. e \in Placed(pg, o)
    <3>1. Placement!Along(e.placement.side) = Placement!Along(c.placement.side)
      BY <2>3, <2>4, <2>5, <2>11, <2>13
    <3>2. e.popper[Placement!Along(c.placement.side).first] = c.popper[Placement!Along(c.placement.side).first]
      <4>1. p[a.first] = c.popper[a.first]
        BY <2>5, <2>6, <2>8, <2>9, <2>10
      <4> QED
        BY <2>3, <2>4, <2>13, <4>1
    <3> QED
      BY <2>13, <2>16, <3>1, <3>2, StillPlaced
  <2>18. /\ e.boundaries = d.boundaries
         /\ e.originalPlacement = d.originalPlacement /\ e.hide = d.hide
    BY <2>1, <2>13 DEF Kept
  <2> QED
    BY <1>2, <2>15, <2>17, <2>18
<1> QED
  BY <1>1, <1>2

-----------------------------------------------------------------------------
(* The modifiers after flip.                                               *)

\* Is the reference out of b?
OutOf(r, b) == r.bottom < b.top \/ r.left > b.right \/ r.top > b.bottom \/ r.right < b.left

\* The mark that hide leaves.
Mark(out) == IF out THEN "out" ELSE "in"

\* hide, of a placed popper.
LEMMA DoneHide ==
    ASSUME NEW pg, NEW o, Placement!IsLayout(pg), NEW d \in Placed(pg, o)
    PROVE  \E e \in Placed(pg, o) :
              /\ e = Done("hide", d, pg, o) /\ e.placement = d.placement
              /\ e.originalPlacement = d.originalPlacement
              /\ {"hide", "preventOverflow"} \subseteq o.enabled =>
                   e.hide = Mark(OutOf(pg.ref, Bounds(pg, o)))
<1>1. CASE "hide" \notin o.enabled
  <2>1. Done("hide", d, pg, o) = d
    BY <1>1 DEF Done
  <2> QED
    BY <1>1, <2>1
<1>2. CASE "hide" \in o.enabled
  <2>1. PICK c \in Placed(pg, o) : c = Complete(d) /\ Kept(d, c) /\ c.boundaries = d.boundaries
    BY CompleteLater
  <2>2. c \in Drafts(pg) /\ c \in Datas /\ c.ref = pg.ref
        /\ ("preventOverflow" \in o.enabled => c.boundaries = Bounds(pg, o))
    <3>1. c \in Drafts(pg) /\ Settled(c, Placement!Along(c.placement.side), pg, o)
      BY DEF Placed
    <3> QED
      BY <3>1, DraftFacts DEF Settled
  <2>3. Done("hide", d, pg, o) = Placement!hide(c, pg, o)
    BY <1>2, <2>1 DEF Done, Apply
  <2>4. c.placement = d.placement /\ c.originalPlacement = d.originalPlacement
    BY <2>1 DEF Kept
  <2>5. CASE "preventOverflow" \notin o.enabled
    <3>1. Placement!hide(c, pg, o) = c
      BY <2>5, Zenon DEF Placement!hide
    <3> QED
      BY <2>3, <2>4, <2>5, <3>1
  <2>6. CASE "preventOverflow" \in o.enabled
    <3>1. PICK m \in HideMarks : m = Mark(OutOf(c.ref, c.boundaries))
      <4>1. "out" \in HideMarks /\ "in" \in HideMarks
        BY DEF HideMarks
      <4>2. Mark(OutOf(c.ref, c.boundaries)) \in HideMarks
        BY <4>1, Zenon DEF Mark
      <4> QED
        BY <4>2
    <3>2. PICK e \in Datas : e = [c EXCEPT !.hide = m]
      BY <2>2 DEF Datas
    <3>3. /\ e.popper = c.popper /\ e.placement = c.placement /\ e.originalPlacement = c.originalPlacement
          /\ e.flipped = c.flipped /\ e.ref = c.ref /\ e.hide = m /\ e.boundaries = c.boundaries
          /\ e.arrow = c.arrow
      BY <2>2, <3>2 DEF Datas
    <3>4. Placement!hide(c, pg, o) = e
      BY <2>6, <3>1, <3>2, Zenon DEF Placement!hide, Mark, OutOf
    <3>5. e \in Drafts(pg)
      BY <2>2, <3>3 DEF Drafts
    <3>6. e \in Placed(pg, o)
      BY <3>3, <3>5, StillPlaced
    <3>7. e.hide = Mark(OutOf(pg.ref, Bounds(pg, o)))
      BY <2>2, <2>6, <3>1, <3>3
    <3> QED
      BY <2>3, <2>4, <3>3, <3>4, <3>6, <3>7
  <2> QED
    BY <2>5, <2>6
<1> QED
  BY <1>1, <1>2

\* The modifiers after flip leave it placed.
LEMMA AfterPlaces ==
    ASSUME NEW pg, NEW o, Placement!IsLayout(pg), NEW d \in Placed(pg, o)
    PROVE  \E e \in Placed(pg, o) :
              /\ e = Placement!runModifiers(Placement!After("flip"), d, pg, o)
              /\ e.originalPlacement = d.originalPlacement
              /\ "inner" \notin o.enabled => e.placement = d.placement
              /\ {"hide", "preventOverflow"} \subseteq o.enabled =>
                   e.hide = Mark(OutOf(pg.ref, Bounds(pg, o)))
<1>1. PICK e1 \in Placed(pg, o) :
              /\ e1 = Done("inner", d, pg, o)
              /\ e1.originalPlacement = d.originalPlacement
              /\ "inner" \notin o.enabled => e1.placement = d.placement
  BY DoneInner
<1>2. PICK e \in Placed(pg, o) :
              /\ e = Done("hide", e1, pg, o) /\ e.placement = e1.placement
              /\ e.originalPlacement = e1.originalPlacement
              /\ {"hide", "preventOverflow"} \subseteq o.enabled =>
                   e.hide = Mark(OutOf(pg.ref, Bounds(pg, o)))
  BY DoneHide
<1>3. e = Placement!runModifiers(Placement!After("flip"), d, pg, o)
  BY <1>1, <1>2, RunAfter
<1> QED
  BY <1>1, <1>2, <1>3

-----------------------------------------------------------------------------
(* flip: it stays at a side with room, and goes through the others.        *)

\* A placement turned to another side, with the same variation.
TurnTo(side, variation) == [side |-> side, variation |-> variation]

LEMMA TurnTypes ==
    /\ \A side \in Placement!Sides, variation \in Placement!Variations : TurnTo(side, variation) \in Turns
    /\ \A t \in Turns : /\ t = TurnTo(t.side, t.variation)
                         /\ t.side \in Placement!Sides /\ t.variation \in Placement!Variations
BY DEF TurnTo, Turns

\* The lists of placements that flip goes through.
LEMMA TurnLists ==
    ASSUME NEW s \in Seq(Turns)
    PROVE  /\ Len(s) \in Nat /\ \A k \in 1..Len(s) : s[k] \in Turns
           /\ \A a, b \in Int : 1 <= a /\ a <= b + 1 /\ b <= Len(s) => SubSeq(s, a, b) \in Seq(Turns)
<1>1. ASSUME NEW a \in Int, NEW b \in Int, 1 <= a, a <= b + 1, b <= Len(s)
      PROVE  SubSeq(s, a, b) \in Seq(Turns)
  BY <1>1
<1> QED
  BY <1>1

LEMMA ValidPlacements ==
    /\ Placement!validPlacements \in Seq(Turns) /\ Len(Placement!validPlacements) = 12
    /\ Turns = {Placement!validPlacements[k] : k \in 1..12}
<1>1. PICK none \in Placement!Variations, begin \in Placement!Variations, end \in Placement!Variations :
          none = "" /\ begin = "start" /\ end = "end"
  BY Zenon DEF Placement!Variations
<1>2. PICK top1 \in Placement!Sides, right \in Placement!Sides, bottom \in Placement!Sides,
           left \in Placement!Sides :
          top1 = "top" /\ right = "right" /\ bottom = "bottom" /\ left = "left"
  BY Zenon DEF Placement!Sides
<1>3. Placement!validPlacements =
          <<TurnTo(top1, begin), TurnTo(top1, none), TurnTo(top1, end),
            TurnTo(right, begin), TurnTo(right, none), TurnTo(right, end),
            TurnTo(bottom, end), TurnTo(bottom, none), TurnTo(bottom, begin),
            TurnTo(left, end), TurnTo(left, none), TurnTo(left, begin)>>
  BY <1>1, <1>2, Zenon DEF Placement!validPlacements, TurnTo
<1>4. \A side \in Placement!Sides : side \in {top1, right, bottom, left}
  BY <1>2, Zenon DEF Placement!Sides
<1>5. \A variation \in Placement!Variations : variation \in {begin, none, end}
  BY <1>1, Zenon DEF Placement!Variations
<1>6. PICK v : v = Placement!validPlacements
  OBVIOUS
<1>7. /\ v[1] = TurnTo(top1, begin) /\ v[2] = TurnTo(top1, none) /\ v[3] = TurnTo(top1, end)
      /\ v[4] = TurnTo(right, begin) /\ v[5] = TurnTo(right, none) /\ v[6] = TurnTo(right, end)
      /\ v[7] = TurnTo(bottom, end) /\ v[8] = TurnTo(bottom, none) /\ v[9] = TurnTo(bottom, begin)
      /\ v[10] = TurnTo(left, end) /\ v[11] = TurnTo(left, none) /\ v[12] = TurnTo(left, begin)
      /\ Len(v) = 12
  BY <1>3, <1>6
<1>8. v \in Seq(Turns)
  <2>1. <<TurnTo(top1, begin), TurnTo(top1, none), TurnTo(top1, end),
          TurnTo(right, begin), TurnTo(right, none), TurnTo(right, end),
          TurnTo(bottom, end), TurnTo(bottom, none), TurnTo(bottom, begin),
          TurnTo(left, end), TurnTo(left, none), TurnTo(left, begin)>> \in Seq(Turns)
    BY TurnTypes
  <2> QED
    BY <1>3, <1>6, <2>1, Zenon
<1>9. ASSUME NEW t \in Turns PROVE \E k \in 1..12 : v[k] = t
  <2>1. t = TurnTo(t.side, t.variation)
    BY TurnTypes
  <2>2. PICK side \in Placement!Sides, variation \in Placement!Variations :
            side = t.side /\ variation = t.variation
    BY TurnTypes
  <2>3. side \in {top1, right, bottom, left} /\ variation \in {begin, none, end}
    BY <1>4, <1>5
  <2> QED
    BY <1>7, <2>1, <2>2, <2>3
<1>10. \A k \in 1..12 : v[k] \in Turns
  <2>1. Len(v) = 12
    BY <1>7
  <2> QED
    BY <1>8, <2>1, TurnLists
<1> QED
  BY <1>6, <1>7, <1>8, <1>9, <1>10
LEMMA FlipOrderType ==
    ASSUME NEW t \in Turns, NEW o, Placement!IsOptions(o)
    PROVE  Placement!FlipOrder(t, o.behavior) \in Seq(Turns)
<1>0. PICK none \in Placement!Variations : none = ""
  BY Zenon DEF Placement!Variations
<1>1. PICK base \in Turns : base = [side |-> t.side, variation |-> ""] /\ base.side = t.side
  <2>1. t.side \in Placement!Sides
    BY TurnTypes
  <2>2. PICK base \in Turns : base = TurnTo(t.side, none)
    BY <2>1, TurnTypes
  <2>3. base.side = t.side
    BY <2>2 DEF TurnTo
  <2>4. base = [side |-> t.side, variation |-> ""]
    BY <1>0, <2>2, Zenon DEF TurnTo
  <2> QED
    BY <2>3, <2>4, Zenon
<1>2. Placement!getOppositePlacement(base) \in Turns
  <2>1. base.side \in Placement!Sides
    BY TurnTypes
  <2>2. PICK s \in Placement!Sides : s = Placement!Opposite[base.side]
    BY <2>1, AxisFacts
  <2>3. [base EXCEPT !.side = s] \in Turns
    BY DEF Turns
  <2> QED
    BY <2>2, <2>3 DEF Placement!getOppositePlacement
<1>3. PICK v \in Seq(Turns) : v = Placement!validPlacements /\ Len(v) = 12
  BY ValidPlacements
<1>4. PICK i \in 1..12 : v[i] = base /\ i = CHOOSE k \in 1..12 : Placement!validPlacements[k] = base
  BY <1>3, ValidPlacements
<1>5. PICK arr \in Seq(Turns) :
          arr = SubSeq(Placement!validPlacements, i + 1, 12) \o SubSeq(Placement!validPlacements, 1, i - 1)
  <2>0. PICK a \in Int, b \in Int : a = i + 1 /\ b = i - 1 /\ a <= 13 /\ 0 <= b /\ b <= 12 /\ 1 <= a
    OBVIOUS
  <2>1. SubSeq(v, a, 12) \in Seq(Turns) /\ SubSeq(v, 1, b) \in Seq(Turns)
    <3>1. Len(v) = 12
      BY <1>3
    <3>2. \A c, d \in Int : 1 <= c /\ c <= d + 1 /\ d <= 12 => SubSeq(v, c, d) \in Seq(Turns)
      BY <3>1, TurnLists
    <3>3. 12 \in Int /\ 1 \in Int /\ 1 <= a /\ a <= 12 + 1 /\ 12 <= 12 /\ 1 <= 1 /\ 1 <= b + 1 /\ b <= 12
      BY <2>0
    <3> QED
      BY <3>2, <3>3
  <2>2. SubSeq(v, a, 12) \o SubSeq(v, 1, b) \in Seq(Turns)
    BY <2>1
  <2> QED
    BY <1>3, <2>0, <2>2
<1>6. Placement!Reverse(arr) \in Seq(Turns)
  <2>1. \A k \in 1..Len(arr) : arr[(Len(arr) - k) + 1] \in Turns
    OBVIOUS
  <2>2. [k \in 1..Len(arr) |-> arr[(Len(arr) - k) + 1]] \in [1..Len(arr) -> Turns] /\ Len(arr) \in Nat
    BY <2>1
  <2> QED
    BY <2>2 DEF Placement!Reverse
<1>7. Placement!clockwise(base, TRUE) \in Seq(Turns) /\ Placement!clockwise(base, FALSE) \in Seq(Turns)
  BY <1>4, <1>5, <1>6, Zenon DEF Placement!clockwise
<1>8. <<base, Placement!getOppositePlacement(base)>> \in Seq(Turns)
  BY <1>2
<1>9. o.behavior.list \in Seq(Turns) /\ o.behavior.kind \in {"flip", "clockwise", "counterclockwise", "list"}
  BY OptionFacts
<1> QED
  BY <1>1, <1>7, <1>8, <1>9 DEF Placement!FlipOrder

\* What is known of the numbers: the popper at x, of length n, was put at x0, between lo and hi.
Within(x, x0, n, lo, hi) ==
    n % 2 = 0 /\ lo % 2 = 0 /\ hi % 2 = 0 /\ n <= hi - lo /\ Reach(x, x0, n, lo, hi)

\* The popper from x to L beside a reference that starts at f, or that ends at l.
BadBefore(x, L, f, lo) ==
    Placement!Floor(L) > Placement!Floor(f) \/ Placement!Floor(x) < Placement!Floor(lo)

\* The same on the other side.
BadAfter(x, L, l, hi) ==
    Placement!Floor(x) < Placement!Floor(l) \/ Placement!Floor(L) > Placement!Floor(hi)

\* Is there room for n between two edges, in whole pixels?
RoomBetween(a, b, n) == b - a >= n

\* A popper before the reference, in numbers: the near edge is at L, the far one at x, the reference at f.
LEMMA RoomBefore ==
    ASSUME NEW x \in Int, NEW L \in Int, NEW lo \in Int, NEW hi \in Int, NEW f \in Int, NEW n \in Nat,
           NEW x0 \in Int, x0 = f - n, Within(x, x0, n, lo, hi), L = x0 + n \/ L = x + n
    PROVE  /\ RoomBetween(lo, Placement!Floor(f), n) => ~BadBefore(x, L, f, lo)
           /\ ~RoomBetween(lo, Placement!Floor(f), n) /\ L = x + n => BadBefore(x, L, f, lo)
<1>0. /\ n % 2 = 0 /\ lo % 2 = 0 /\ hi % 2 = 0 /\ n <= hi - lo /\ Reach(x, f - n, n, lo, hi)
      /\ (L = f \/ L = x + n)
  BY DEF Within
<1>1. PICK a \in Int, b \in Int, c \in Int, e \in Int :
          /\ a = f \div 2 /\ 2 * a <= f /\ f <= 2 * a + 1
          /\ n = 2 * b /\ lo = 2 * c /\ hi = 2 * e
  <2>1. \A i \in Int : i \div 2 \in Int /\ 2 * (i \div 2) <= i /\ i <= 2 * (i \div 2) + 1
    OBVIOUS
  <2>2. \A i \in Int : i % 2 = 0 => i = 2 * (i \div 2)
    OBVIOUS
  <2>3. PICK b \in Int, c \in Int, e \in Int : n = 2 * b /\ lo = 2 * c /\ hi = 2 * e
    <3>1. n = 2 * (n \div 2) /\ lo = 2 * (lo \div 2) /\ hi = 2 * (hi \div 2)
      BY <1>0, <2>2
    <3>2. n \div 2 \in Int /\ lo \div 2 \in Int /\ hi \div 2 \in Int
      BY <2>1
    <3> QED
      BY <3>1, <3>2, Zenon
  <2> QED
    BY <2>1, <2>3
<1>2. Placement!Floor(lo) = lo /\ Placement!Floor(f) = 2 * a
  BY <1>1 DEF Placement!Floor
<1>3. PICK g \in Int, h \in Int : /\ g = Placement!Floor(L) /\ h = Placement!Floor(x)
                                  /\ g <= L /\ L <= g + 1 /\ h <= x /\ x <= h + 1
  BY FloorFacts
<1>4. \A m \in Int : 2 * m <= x => 2 * m <= h
  BY <1>3 DEF Placement!Floor
<1>5. \A m \in Int : 2 * m <= L => 2 * m <= g
  BY <1>3 DEF Placement!Floor
<1>6. ASSUME 2 * a - lo >= n PROVE ~(g > 2 * a \/ h < lo)
  <2>1. x >= lo
    BY <1>0, <1>1, <1>6 DEF Reach
  <2>2. h >= lo
    BY <1>1, <1>4, <2>1
  <2>3. L <= f
    BY <1>0, <1>1, <1>6 DEF Reach
  <2>4. g <= 2 * a
    <3>1. g % 2 = 0
      BY <1>3 DEF Placement!Floor
    <3> QED
      BY <1>1, <1>3, <2>3, <3>1
  <2> QED
    BY <1>3, <2>2, <2>4
<1>7. ASSUME 2 * a - lo < n, L = x + n PROVE g > 2 * a \/ h < lo
  <2>1. f < lo + n
    BY <1>1, <1>7
  <2>2. x = f - n \/ x = lo
    BY <1>0, <1>1, <2>1 DEF Reach
  <2>3. CASE x = f - n
    BY <1>3, <2>1, <2>3
  <2>4. CASE x = lo
    <3>0. PICK m \in Int : m = c + b
      OBVIOUS
    <3>1. 2 * m <= L
      BY <1>1, <1>7, <2>4, <3>0
    <3>2. 2 * m <= g
      BY <1>5, <3>1
    <3> QED
      BY <1>1, <1>7, <3>0, <3>2
  <2> QED
    BY <2>2, <2>3, <2>4
<1>8. RoomBetween(lo, Placement!Floor(f), n) <=> 2 * a - lo >= n
  BY <1>2 DEF RoomBetween
<1>9. BadBefore(x, L, f, lo) <=> g > 2 * a \/ h < lo
  BY <1>2, <1>3 DEF BadBefore
<1> QED
  BY <1>6, <1>7, <1>8, <1>9

\* A popper after the reference: the near edge is at x, the far one at L, the reference's last at l.
LEMMA RoomAfter ==
    ASSUME NEW x \in Int, NEW L \in Int, NEW lo \in Int, NEW hi \in Int, NEW l \in Int, NEW n \in Nat,
           Within(x, l, n, lo, hi), L = l + n \/ L = x + n
    PROVE  /\ RoomBetween(Placement!Floor(l), hi, n) => ~BadAfter(x, L, l, hi)
           /\ ~RoomBetween(Placement!Floor(l), hi, n) /\ L = x + n => BadAfter(x, L, l, hi)
<1>0. /\ n % 2 = 0 /\ lo % 2 = 0 /\ hi % 2 = 0 /\ n <= hi - lo /\ Reach(x, l, n, lo, hi)
      /\ (L = l + n \/ L = x + n)
  BY DEF Within
<1>1. PICK a \in Int, b \in Int, c \in Int, e \in Int :
          /\ a = l \div 2 /\ 2 * a <= l /\ l <= 2 * a + 1
          /\ n = 2 * b /\ lo = 2 * c /\ hi = 2 * e
  <2>1. \A i \in Int : i \div 2 \in Int /\ 2 * (i \div 2) <= i /\ i <= 2 * (i \div 2) + 1
    OBVIOUS
  <2>2. \A i \in Int : i % 2 = 0 => i = 2 * (i \div 2)
    OBVIOUS
  <2>3. PICK b \in Int, c \in Int, e \in Int : n = 2 * b /\ lo = 2 * c /\ hi = 2 * e
    <3>1. n = 2 * (n \div 2) /\ lo = 2 * (lo \div 2) /\ hi = 2 * (hi \div 2)
      BY <1>0, <2>2
    <3>2. n \div 2 \in Int /\ lo \div 2 \in Int /\ hi \div 2 \in Int
      BY <2>1
    <3> QED
      BY <3>1, <3>2, Zenon
  <2> QED
    BY <2>1, <2>3
<1>2. Placement!Floor(hi) = hi /\ Placement!Floor(l) = 2 * a
  BY <1>1 DEF Placement!Floor
<1>3. PICK g \in Int, h \in Int : /\ g = Placement!Floor(L) /\ h = Placement!Floor(x)
                                  /\ g <= L /\ L <= g + 1 /\ h <= x /\ x <= h + 1
                                  /\ g % 2 = 0 /\ h % 2 = 0
  <2>1. Placement!Floor(L) % 2 = 0 /\ Placement!Floor(x) % 2 = 0
    BY DEF Placement!Floor
  <2> QED
    BY <2>1, FloorFacts
<1>6. ASSUME hi - 2 * a >= n PROVE ~(h < 2 * a \/ g > hi)
  <2>1. x >= 2 * a
    BY <1>0, <1>1, <1>6 DEF Reach
  <2>2. h >= 2 * a
    BY <1>1, <1>3, <2>1
  <2>3. L <= hi + 1
    BY <1>0, <1>1, <1>6 DEF Reach
  <2>4. g <= hi
    BY <1>1, <1>3, <2>3
  <2> QED
    BY <1>3, <2>2, <2>4
<1>7. ASSUME hi - 2 * a < n, L = x + n PROVE h < 2 * a \/ g > hi
  <2>1. 2 * a >= hi - n + 2
    BY <1>1, <1>7
  <2>2. x = l \/ x = hi - n
    BY <1>0, <1>1, <2>1 DEF Reach
  <2>3. CASE x = l
    <3>1. L >= hi + 2
      BY <1>1, <1>7, <2>1, <2>3
    <3> QED
      BY <1>3, <3>1
  <2>4. CASE x = hi - n
    BY <1>3, <2>1, <2>4
  <2> QED
    BY <2>2, <2>3, <2>4
<1>8. RoomBetween(Placement!Floor(l), hi, n) <=> hi - 2 * a >= n
  BY <1>2 DEF RoomBetween
<1>9. BadAfter(x, L, l, hi) <=> h < 2 * a \/ g > hi
  BY <1>2, <1>3 DEF BadAfter
<1> QED
  BY <1>6, <1>7, <1>8, <1>9

\* The boundary of flip.
FlipBounds(pg, o) == Placement!getBoundaries(pg.viewport, o.flipPadding)

\* Is there room for the popper at a side of the reference?
HasRoom(pg, o, side) ==
    LET b == FlipBounds(pg, o) n == pg.popper[Placement!Away(side).len]
    IN  IF side \in {"left", "top"} THEN Placement!Floor(pg.ref[side]) - b[side] >= n
        ELSE b[side] - Placement!Floor(pg.ref[side]) >= n

\* preventOverflow and flip agree about w, and the popper fits.
Agreed(pg, o, w) ==
    LET b == FlipBounds(pg, o)
    IN  /\ o.offset = <<0, 0>> /\ pg.scrollParent = pg.viewport /\ o.padding = o.flipPadding
        /\ pg.popper[w.len] <= b[w.last] - b[w.first]
        /\ b[w.first] % 2 = 0 /\ b[w.last] % 2 = 0

\* Does flip look for another side?
BadSide(d, pg, o) ==
    \/ Placement!Overlaps(d.placement.side, d.popper, d.ref)
    \/ Placement!Overflows(d.placement.side, d.popper, FlipBounds(pg, o))

\* The padding of that boundary.
LEMMA PaddingIsInt ==
    ASSUME NEW o, Placement!IsOptions(o)
    PROVE  o.flipPadding \in Int
<1>1. o.flipPadding \in Nat
  BY OptionFacts, ZenonT(40)
<1> QED
  BY <1>1, SMTT(30)

\* A popper at x, with its far edge at L, of a reference beside which it was put.
LEMMA BadWithoutRoom ==
    ASSUME NEW pg, NEW o, Placement!IsLayout(pg), Placement!IsOptions(o), NEW d \in Drafts(pg),
           NEW side \in Placement!Sides, side = d.placement.side,
           NEW w, w = Placement!Away(side), Agreed(pg, o, w),
           NEW x0 \in Int,
           x0 = IF side = w.first THEN pg.ref[side] - pg.popper[w.len] ELSE pg.ref[w.last],
           Reach(d.popper[w.first], x0, pg.popper[w.len],
                 FlipBounds(pg, o)[w.first], FlipBounds(pg, o)[w.last]),
           \/ d.popper[w.last] = x0 + pg.popper[w.len]
           \/ d.popper[w.last] = d.popper[w.first] + pg.popper[w.len]
    PROVE  /\ HasRoom(pg, o, side) => ~BadSide(d, pg, o)
           /\ ~HasRoom(pg, o, side) /\ d.popper[w.last] = d.popper[w.first] + pg.popper[w.len]
                 => BadSide(d, pg, o)
<1>1. IsAxis(w) /\ side \in {w.first, w.last} /\ (side \in {"left", "top"} <=> side = w.first)
  BY AxisFacts, Zenon
<1>2. PICK b \in RawRects : b = FlipBounds(pg, o)
  <2>1. pg.viewport \in RawRects
    BY PageFacts, Zenon
  <2>2. o.flipPadding \in Int
    BY PaddingIsInt, ZenonT(40)
  <2> QED
    BY <2>1, <2>2, BoundaryFacts, ZenonT(40) DEF FlipBounds
<1>3. PICK n \in Nat : n = pg.popper[w.len] /\ n % 2 = 0
  <2>1. pg.popper[w.len] \in Nat /\ pg.popper[w.len] % 2 = 0
    BY <1>1, PageFacts, Zenon DEF IsAxis
  <2> QED
    BY <2>1, Zenon
<1>4. PICK lo \in Int, hi \in Int : lo = b[w.first] /\ hi = b[w.last]
  BY <1>1, AxisTypes, Zenon
<1>5. d.popper \in RawRects /\ d.ref = pg.ref /\ pg.ref \in RawRects
  BY DraftFacts, PageFacts, Zenon
<1>6. PICK x \in Int, L \in Int : x = d.popper[w.first] /\ L = d.popper[w.last]
  BY <1>1, <1>5, AxisTypes, Zenon
<1>7. PICK f \in Int, l \in Int : f = pg.ref[w.first] /\ l = pg.ref[w.last]
  BY <1>1, <1>5, AxisTypes, Zenon
<1>9. Within(x, x0, n, lo, hi) /\ (L = x0 + n \/ L = x + n)
  <2>1. n <= hi - lo /\ lo % 2 = 0 /\ hi % 2 = 0
    BY <1>2, <1>3, <1>4, Zenon DEF Agreed
  <2>2. Reach(x, x0, n, lo, hi) /\ (L = x0 + n \/ L = x + n)
    BY <1>2, <1>3, <1>4, <1>6, Zenon
  <2> QED
    BY <1>3, <2>1, <2>2, Zenon DEF Within
<1>10. CASE side = w.first
  <2>1. x0 = f - n
    BY <1>3, <1>7, <1>10, Zenon
  <2>2. /\ RoomBetween(lo, Placement!Floor(f), n) => ~BadBefore(x, L, f, lo)
        /\ ~RoomBetween(lo, Placement!Floor(f), n) /\ L = x + n => BadBefore(x, L, f, lo)
    BY <1>9, <2>1, RoomBefore, Zenon
  <2>3. HasRoom(pg, o, side) <=> RoomBetween(lo, Placement!Floor(f), n)
    BY <1>1, <1>2, <1>3, <1>4, <1>7, <1>10, Zenon DEF HasRoom, RoomBetween
  <2>4. BadSide(d, pg, o) <=> BadBefore(x, L, f, lo)
    <3>1. \/ side = "left" /\ w.first = "left" /\ w.last = "right"
          \/ side = "top" /\ w.first = "top" /\ w.last = "bottom"
      BY <1>1, <1>10, Zenon DEF IsAxis
    <3>2. Placement!Overlaps(side, d.popper, d.ref) <=> Placement!Floor(L) > Placement!Floor(f)
      BY <1>5, <1>6, <1>7, <3>1, Zenon DEF Placement!Overlaps
    <3>3. Placement!Overflows(side, d.popper, b) <=> Placement!Floor(x) < Placement!Floor(lo)
      BY <1>4, <1>6, <3>1, Zenon DEF Placement!Overflows
    <3> QED
      BY <1>2, <3>2, <3>3, Zenon DEF BadSide, BadBefore, BadAfter
  <2> QED
    BY <1>3, <1>6, <2>2, <2>3, <2>4, Zenon
<1>11. CASE side # w.first
  <2>1. x0 = l /\ side = w.last
    BY <1>1, <1>7, <1>11, Zenon
  <2>2. /\ RoomBetween(Placement!Floor(l), hi, n) => ~BadAfter(x, L, l, hi)
        /\ ~RoomBetween(Placement!Floor(l), hi, n) /\ L = x + n => BadAfter(x, L, l, hi)
    <3>1. Within(x, l, n, lo, hi) /\ (L = l + n \/ L = x + n)
      BY <1>9, <2>1, Zenon
    <3> QED
      BY <3>1, RoomAfter, Zenon
  <2>3. HasRoom(pg, o, side) <=> RoomBetween(Placement!Floor(l), hi, n)
    BY <1>1, <1>2, <1>3, <1>4, <1>7, <1>11, <2>1, Zenon DEF HasRoom, RoomBetween
  <2>4. BadSide(d, pg, o) <=> BadAfter(x, L, l, hi)
    <3>1. \/ side = "right" /\ w.first = "left" /\ w.last = "right"
          \/ side = "bottom" /\ w.first = "top" /\ w.last = "bottom"
      BY <1>1, <2>1, Zenon DEF IsAxis
    <3>2. Placement!Overlaps(side, d.popper, d.ref) <=> Placement!Floor(x) < Placement!Floor(l)
      BY <1>5, <1>6, <1>7, <3>1, Zenon DEF Placement!Overlaps
    <3>3. Placement!Overflows(side, d.popper, b) <=> Placement!Floor(L) > Placement!Floor(hi)
      BY <1>4, <1>6, <3>1, Zenon DEF Placement!Overflows
    <3> QED
      BY <1>2, <3>2, <3>3, Zenon DEF BadSide, BadBefore, BadAfter
  <2> QED
    BY <1>3, <1>6, <2>2, <2>3, <2>4, Zenon
<1> QED
  BY <1>10, <1>11, Zenon

\* The modifiers before flip, of a popper that was put beside its reference.
LEMMA RunBeside ==
    ASSUME NEW pg, NEW o, Placement!IsLayout(pg), Placement!IsOptions(o), NEW d \in Drafts(pg),
           NEW side \in Placement!Sides, side = d.placement.side,
           d.popper = Placement!getPopperOffsets(pg.popper, pg.ref, side)
    PROVE  \E e \in Placed(pg, o) :
              /\ e = Placement!runModifiers(Placement!Before("flip"), d, pg, o) /\ Kept(d, e)
              /\ Agreed(pg, o, Placement!Away(side)) =>
                   /\ HasRoom(pg, o, side) => ~BadSide(e, pg, o)
                   /\ \A c \in Drafts(pg) :
                        c.popper = Client(e.popper) /\ c.placement = e.placement
                          => (HasRoom(pg, o, side) <=> ~BadSide(c, pg, o))
<1>1. PICK a, w : a = Placement!Along(d.placement.side) /\ w = Placement!Away(d.placement.side)
  OBVIOUS
<1>2. PICK e \in Drafts(pg), b \in RawRects :
              /\ e = Placement!runModifiers(Placement!Before("flip"), d, pg, o) /\ Kept(d, e)
              /\ b = Bounds(pg, o)
              /\ o.offset = <<0, 0>> /\ pg.popper[w.len] <= b[w.last] - b[w.first]
                 => /\ Reach(e.popper[w.first], d.popper[w.first], pg.popper[w.len], b[w.first], b[w.last])
                    /\ Trails(e, d, w, pg)
  BY <1>1, RunFacts
<1>3. e \in Placed(pg, o)
  BY <1>2, RunPlaces
<1>4. ASSUME Agreed(pg, o, w)
      PROVE  /\ HasRoom(pg, o, side) => ~BadSide(e, pg, o)
             /\ \A c \in Drafts(pg) :
                  c.popper = Client(e.popper) /\ c.placement = e.placement
                    => (HasRoom(pg, o, side) <=> ~BadSide(c, pg, o))
  <2>1. w = Placement!Away(side) /\ IsAxis(w) /\ pg.ref \in RawRects /\ w.first \in Firsts
    BY <1>1, AxisFacts, AxisTypes, PageFacts
  <2>2. PICK p \in RawRects :
              /\ p = d.popper /\ p = Client(p)
              /\ p[w.first] = IF side = w.first THEN pg.ref[side] - pg.popper[w.len] ELSE pg.ref[w.last]
    BY <2>1, OffsetsFacts
  <2>3. PICK x0 \in Int : x0 = p[w.first]
    BY <2>1, <2>2, AxisTypes, Zenon
  <2>4. x0 = IF side = w.first THEN pg.ref[side] - pg.popper[w.len] ELSE pg.ref[w.last]
    BY <2>2, <2>3
  <2>5. d.popper[w.last] = x0 + pg.popper[w.len]
    <3>1. p[w.last] = p[w.first] + p[w.len]
      BY <2>1, <2>2, AxisTypes
    <3>2. p[w.len] = pg.popper[w.len]
      BY <2>1, <2>2, DraftFacts
    <3> QED
      BY <2>2, <2>3, <3>1, <3>2
  <2>6. /\ o.offset = <<0, 0>> /\ b = FlipBounds(pg, o) /\ pg.popper[w.len] <= b[w.last] - b[w.first]
    BY <1>2, <1>4 DEF Agreed, FlipBounds, Bounds
  <2>7. Reach(e.popper[w.first], x0, pg.popper[w.len], b[w.first], b[w.last]) /\ Trails(e, d, w, pg)
    BY <1>2, <2>2, <2>3, <2>6
  <2>8. \/ e.popper[w.last] = x0 + pg.popper[w.len]
        \/ e.popper[w.last] = e.popper[w.first] + pg.popper[w.len]
    BY <2>2, <2>3, <2>5, <2>7, Zenon DEF Trails
  <2>9. e.placement.side = side
    BY <1>2 DEF Kept
  <2>10. HasRoom(pg, o, side) => ~BadSide(e, pg, o)
    BY <1>4, <2>1, <2>4, <2>6, <2>7, <2>8, <2>9, BadWithoutRoom, Zenon
  <2>11. ASSUME NEW c \in Drafts(pg), c.popper = Client(e.popper), c.placement = e.placement
         PROVE  HasRoom(pg, o, side) <=> ~BadSide(c, pg, o)
    <3>1. e.popper \in RawRects /\ e.popper[w.len] = pg.popper[w.len]
      BY <2>1, DraftFacts
    <3>2. c.popper[w.first] = e.popper[w.first] /\ c.popper[w.last] = c.popper[w.first] + pg.popper[w.len]
      BY <2>1, <2>11, <3>1, AxisTypes
    <3>3. Reach(c.popper[w.first], x0, pg.popper[w.len], b[w.first], b[w.last])
      BY <2>7, <3>2
    <3>4. c.placement.side = side
      BY <2>9, <2>11
    <3> QED
      BY <1>4, <2>1, <2>4, <2>6, <3>2, <3>3, <3>4, BadWithoutRoom, Zenon
  <2> QED
    BY <2>10, <2>11
<1> QED
  BY <1>1, <1>2, <1>3, <1>4

\* Is the popper out of the boundary at the end it is aligned to?
BadEnd(v, d, pg, o) ==
    /\ o.flipVariations /\ v # ""
    /\ Placement!Overflows(IF v = "start" THEN Placement!Along(d.placement.side).first
                           ELSE Placement!Along(d.placement.side).last, d.popper, FlipBounds(pg, o))

\* What flip tries next, and what the modifiers make of that.
NextStep(at, k, steps, pg, o) ==
    IF BadSide(at.d, pg, o) THEN steps[k + 1] ELSE TurnTo(at.d.placement.side, "")

\* The variation that flip goes on with.
NextVariation(at, pg, o) ==
    IF BadEnd(at.variation, at.d, pg, o) THEN Placement!getOppositeVariation(at.variation) ELSE at.variation

\* The placement with the variation that was found, and the data turned to it.
Turned(step, v) == IF step.variation = "" THEN [step EXCEPT !.variation = v] ELSE step

Moved(d, to, pg) ==
    [d EXCEPT !.flipped = TRUE, !.placement = to,
              !.popper = Placement!getPopperOffsets(pg.popper, d.ref, to.side)]

\* The modifiers before flip, once more.
Retry(d, to, pg, o) == Placement!runModifiers(Placement!Before("flip"), Moved(d, to, pg), pg, o)

\* One try of flip: it goes on, or has come to an end.
NextTry(at, k, steps, pg, o) ==
    IF at.placement # steps[k] \/ k = Len(steps)
       \/ ~(BadSide(at.d, pg, o) \/ BadEnd(at.variation, at.d, pg, o)) THEN at
    ELSE [placement |-> NextStep(at, k, steps, pg, o), variation |-> NextVariation(at, pg, o),
          d |-> Retry(at.d, Turned(NextStep(at, k, steps, pg, o), NextVariation(at, pg, o)), pg, o)]

\* A popper that has room beside the reference stays there.
StaysBeside(d, e, pg, o) ==
    /\ Agreed(pg, o, Placement!Away(d.placement.side)) /\ HasRoom(pg, o, d.placement.side)
    /\ ~BadSide(d, pg, o)
    => e.placement.side = d.placement.side /\ ~BadSide(e, pg, o)

\* A try places the popper.
LEMMA RetryPlaces ==
    ASSUME NEW pg, NEW o, Placement!IsLayout(pg), Placement!IsOptions(o), NEW d \in Placed(pg, o),
           NEW to \in Turns
    PROVE  \E e \in Placed(pg, o) :
              /\ e = Retry(d, to, pg, o) /\ e.placement = to
              /\ e.originalPlacement = d.originalPlacement
              /\ Agreed(pg, o, Placement!Away(to.side)) /\ HasRoom(pg, o, to.side) => ~BadSide(e, pg, o)
<1>1. d \in Drafts(pg) /\ d \in Datas /\ d.ref = pg.ref
  BY DraftFacts DEF Placed
<1>2. PICK side \in Placement!Sides : side = to.side
  BY TurnTypes
<1>3. PICK p \in RawRects :
          /\ p = Placement!getPopperOffsets(pg.popper, pg.ref, side)
          /\ p.width = pg.popper.width /\ p.height = pg.popper.height
  <2>1. pg.ref \in RawRects
    BY PageFacts
  <2> QED
    BY <2>1, OffsetsFacts
<1>4. PICK yes \in BOOLEAN : yes = TRUE
  BY Zenon
<1>5. PICK m \in Datas : m = [d EXCEPT !.flipped = yes, !.placement = to, !.popper = p]
  BY <1>1 DEF Datas
<1>6. /\ m.popper = p /\ m.placement = to /\ m.originalPlacement = d.originalPlacement
      /\ m.ref = d.ref
  BY <1>1, <1>5 DEF Datas
<1>7. m = Moved(d, to, pg)
  BY <1>1, <1>2, <1>3, <1>4, <1>5, Zenon DEF Moved
<1>8. m \in Drafts(pg)
  BY <1>1, <1>3, <1>6 DEF Drafts
<1>9. PICK e \in Placed(pg, o) :
              /\ e = Placement!runModifiers(Placement!Before("flip"), m, pg, o) /\ Kept(m, e)
              /\ Agreed(pg, o, Placement!Away(side)) /\ HasRoom(pg, o, side) => ~BadSide(e, pg, o)
  <2>1. m.popper = Placement!getPopperOffsets(pg.popper, pg.ref, side) /\ side = m.placement.side
    BY <1>2, <1>3, <1>6
  <2> QED
    BY <1>8, <2>1, RunBeside
<1> QED
  BY <1>2, <1>6, <1>7, <1>9 DEF Retry, Kept

\* What flip may come to from d.
TriesFrom(d, pg, o) ==
    {t \in [placement : Turns, variation : Placement!Variations, d : Placed(pg, o)] :
        t.d.originalPlacement = d.originalPlacement /\ StaysBeside(d, t.d, pg, o)}

\* What is known of a try.
LEMMA TryFacts ==
    ASSUME NEW pg, NEW o, NEW d, NEW t \in TriesFrom(d, pg, o)
    PROVE  /\ t.placement \in Turns /\ t.variation \in Placement!Variations /\ t.d \in Placed(pg, o)
           /\ t.d.originalPlacement = d.originalPlacement /\ StaysBeside(d, t.d, pg, o)
BY DEF TriesFrom

\* Of the next placement.
LEMMA NextTurn ==
    ASSUME NEW pg, NEW o, NEW d, NEW t \in TriesFrom(d, pg, o), NEW steps \in Seq(Turns),
           NEW k \in 1..Len(steps), k # Len(steps)
    PROVE  \E step \in Turns, v \in Placement!Variations, to \in Turns :
              /\ step = NextStep(t, k, steps, pg, o) /\ v = NextVariation(t, pg, o) /\ to = Turned(step, v)
              /\ to.side = step.side
              /\ step.side = IF BadSide(t.d, pg, o) THEN steps[k + 1].side ELSE t.d.placement.side
<1>1. t.variation \in Placement!Variations /\ t.d \in Placed(pg, o) /\ t.d.placement.side \in Placement!Sides
  <2>1. t.variation \in Placement!Variations /\ t.d \in Placed(pg, o)
    BY TryFacts
  <2>2. t.d \in Datas
    BY <2>1 DEF Placed, Drafts
  <2> QED
    BY <2>1, <2>2, DataFacts
<1>2. PICK none \in Placement!Variations, begin \in Placement!Variations, end \in Placement!Variations :
          none = "" /\ begin = "start" /\ end = "end"
  BY Zenon DEF Placement!Variations
<1>3. PICK v \in Placement!Variations : v = NextVariation(t, pg, o)
  <2>1. Placement!getOppositeVariation(t.variation) \in Placement!Variations
    BY <1>1, <1>2 DEF Placement!getOppositeVariation
  <2> QED
    BY <1>1, <2>1 DEF NextVariation
<1>4. PICK step \in Turns : /\ step = NextStep(t, k, steps, pg, o)
                            /\ step.side = IF BadSide(t.d, pg, o) THEN steps[k + 1].side ELSE t.d.placement.side
  <2>1. CASE BadSide(t.d, pg, o)
    <3>1. k + 1 \in 1..Len(steps)
      BY TurnLists
    <3>2. steps[k + 1] \in Turns
      BY <3>1, TurnLists
    <3> QED
      BY <2>1, <3>2 DEF NextStep
  <2>2. CASE ~BadSide(t.d, pg, o)
    <3>1. PICK s \in Turns : s = TurnTo(t.d.placement.side, none)
      BY <1>1, TurnTypes
    <3>2. s.side = t.d.placement.side
      BY <3>1 DEF TurnTo
    <3>3. s = NextStep(t, k, steps, pg, o)
      BY <1>2, <2>2, <3>1, Zenon DEF NextStep
    <3> QED
      BY <2>2, <3>2, <3>3
  <2> QED
    BY <2>1, <2>2
<1>5. PICK to \in Turns : to = Turned(step, v) /\ to.side = step.side
  <2>1. PICK s \in Turns : s = [step EXCEPT !.variation = v]
    BY DEF Turns
  <2>2. s.side = step.side
    BY <2>1 DEF Turns
  <2>3. (IF step.variation = "" THEN [step EXCEPT !.variation = v] ELSE step) \in {s, step}
    BY <2>1, Zenon
  <2> QED
    BY <2>2, <2>3 DEF Turned
<1> QED
  BY <1>3, <1>4, <1>5

\* A try stays among what flip may come to.
LEMMA NextTryStays ==
    ASSUME NEW pg, NEW o, Placement!IsLayout(pg), Placement!IsOptions(o), NEW d, NEW t \in TriesFrom(d, pg, o),
           NEW steps \in Seq(Turns), NEW k \in 1..Len(steps)
    PROVE  NextTry(t, k, steps, pg, o) \in TriesFrom(d, pg, o)
<1>1. CASE t.placement # steps[k] \/ k = Len(steps)
           \/ ~(BadSide(t.d, pg, o) \/ BadEnd(t.variation, t.d, pg, o))
  BY <1>1, Zenon DEF NextTry
<1>2. CASE ~(t.placement # steps[k] \/ k = Len(steps)
             \/ ~(BadSide(t.d, pg, o) \/ BadEnd(t.variation, t.d, pg, o)))
  <2>1. k # Len(steps)
    BY <1>2
  <2>2. PICK step \in Turns, v \in Placement!Variations, to \in Turns :
              /\ step = NextStep(t, k, steps, pg, o) /\ v = NextVariation(t, pg, o) /\ to = Turned(step, v)
              /\ to.side = step.side
              /\ step.side = IF BadSide(t.d, pg, o) THEN steps[k + 1].side ELSE t.d.placement.side
    BY <2>1, NextTurn
  <2>3. t.d \in Placed(pg, o) /\ t.d.originalPlacement = d.originalPlacement /\ StaysBeside(d, t.d, pg, o)
    BY TryFacts
  <2>4. PICK c : c = t.d
    OBVIOUS
  <2>5. PICK e \in Placed(pg, o) :
              /\ e = Retry(c, to, pg, o) /\ e.placement = to
              /\ e.originalPlacement = c.originalPlacement
              /\ Agreed(pg, o, Placement!Away(to.side)) /\ HasRoom(pg, o, to.side) => ~BadSide(e, pg, o)
    BY <2>3, <2>4, RetryPlaces, SMTT(30)
  <2>6. NextTry(t, k, steps, pg, o) = [placement |-> step, variation |-> v, d |-> e]
    BY <1>2, <2>2, <2>4, <2>5, Zenon DEF NextTry
  <2>7. StaysBeside(d, e, pg, o)
    <3> SUFFICES ASSUME Agreed(pg, o, Placement!Away(d.placement.side)),
                        HasRoom(pg, o, d.placement.side), ~BadSide(d, pg, o)
                 PROVE  e.placement.side = d.placement.side /\ ~BadSide(e, pg, o)
      BY DEF StaysBeside
    <3>1. t.d.placement.side = d.placement.side /\ ~BadSide(t.d, pg, o)
      BY <2>3 DEF StaysBeside
    <3>2. to.side = d.placement.side
      BY <2>2, <3>1
    <3> QED
      BY <2>5, <3>2
  <2>8. e.originalPlacement = d.originalPlacement
    BY <2>3, <2>4, <2>5
  <2> QED
    BY <2>6, <2>7, <2>8 DEF TriesFrom
<1> QED
  BY <1>1, <1>2

\* What flip starts from, and whether it does nothing.
FirstTry(d) == [placement |-> TurnTo(d.placement.side, ""), variation |-> d.placement.variation, d |-> d]

LEMMA FirstTryType ==
    ASSUME NEW pg, NEW o, NEW d \in Placed(pg, o)
    PROVE  FirstTry(d) \in TriesFrom(d, pg, o)
<1>1. d.placement.side \in Placement!Sides /\ d.placement.variation \in Placement!Variations
  <2>1. d \in Datas
    BY DEF Placed, Drafts
  <2> QED
    BY <2>1, DataFacts
<1>2. PICK none \in Placement!Variations : none = ""
  BY Zenon DEF Placement!Variations
<1>3. PICK t \in Turns : t = TurnTo(d.placement.side, "")
  <2>1. PICK t \in Turns : t = TurnTo(d.placement.side, none)
    BY <1>1, <1>2, TurnTypes
  <2> QED
    BY <1>2, <2>1, Zenon
<1>4. PICK f : f = FirstTry(d)
  OBVIOUS
<1>5. f = [placement |-> t, variation |-> d.placement.variation, d |-> d]
  BY <1>3, <1>4, Zenon DEF FirstTry
<1>6. StaysBeside(d, d, pg, o)
  BY DEF StaysBeside
<1> QED
  BY <1>1, <1>4, <1>5, <1>6 DEF TriesFrom

NotFlipped(d) == d.flipped = FALSE

\* h are the tries of flip.
TriesOf(h, d, steps, pg, o) ==
    /\ h \in [0..Len(steps) -> TriesFrom(d, pg, o)] /\ h[0] = FirstTry(d)
    /\ \A k \in 1..Len(steps) : h[k] = NextTry(h[k - 1], k, steps, pg, o)
    /\ Placement!flip(d, pg, o) \in {d, h[Len(steps)].d}
    /\ "inner" \notin o.enabled /\ NotFlipped(d) => Placement!flip(d, pg, o) = h[Len(steps)].d

\* flip is these tries.
LEMMA FlipTries ==
    ASSUME NEW pg, NEW o, Placement!IsLayout(pg), Placement!IsOptions(o), NEW d \in Placed(pg, o)
    PROVE  \E steps \in Seq(Turns) : steps = Placement!FlipOrder(d.placement, o.behavior)
                                     /\ \E h : TriesOf(h, d, steps, pg, o)
<1>1. PICK steps \in Seq(Turns) : steps = Placement!FlipOrder(d.placement, o.behavior)
  <2>1. d \in Datas
    BY DEF Placed, Drafts
  <2>2. d.placement \in Turns
    BY <2>1, DataFacts
  <2> QED
    BY <2>2, FlipOrderType
<1>2. PICK n \in Nat : n = Len(steps)
  BY TurnLists
<1> DEFINE S == TriesFrom(d, pg, o)
           Order == Placement!FlipOrder(d.placement, o.behavior)
           Body0(f, k) == IF k = 0 THEN FirstTry(d) ELSE NextTry(f[k - 1], k, Order, pg, o)
           Body(f, k) == IF k = 0 THEN FirstTry(d) ELSE NextTry(f[k - 1], k, steps, pg, o)
           G == CHOOSE f : f = [k \in 0..Len(Order) |-> Body0(f, k)]
           step == [k \in 1..n |-> [t \in S |-> NextTry(t, k, steps, pg, o)]]
<1>3. Placement!flip(d, pg, o) =
         IF "inner" \in o.enabled \/ (d.flipped /\ d.placement = d.originalPlacement) THEN d
         ELSE G[Len(Order)].d
  BY Zenon DEF Placement!flip, FirstTry, NextTry, NextStep, NextVariation, Turned, Retry, Moved,
               BadSide, BadEnd, FlipBounds, TurnTo
<1> HIDE DEF G
<1>4. step \in [1..n -> [S -> S]]
  <2>1. \A k \in 1..n, t \in S : NextTry(t, k, steps, pg, o) \in S
    BY <1>2, NextTryStays
  <2> HIDE DEF S
  <2> QED
    BY <2>1
<1>5. FirstTry(d) \in S
  BY FirstTryType
<1>6. \A k \in 1..n, t \in S : step[k][t] = NextTry(t, k, steps, pg, o)
  OBVIOUS
<1> HIDE DEF step, S
<1>7. PICK h \in [0..n -> S] : h[0] = FirstTry(d) /\ \A k \in 1..n : h[k] = step[k][h[k - 1]]
  <2>1. PICK a \in S : a = FirstTry(d)
    BY <1>5
  <2>2. Results(S, n, a, step) # {}
    BY <1>4, StepsHaveResults
  <2>3. PICK h \in [0..n -> S] : h[0] = a /\ \A k \in 1..n : h[k] = step[k][h[k - 1]]
    BY <2>2 DEF Results
  <2> QED
    BY <2>1, <2>3
<1>8. h = [k \in 0..n |-> Body(h, k)]
  <2>1. ASSUME NEW k \in 0..n, k # 0 PROVE h[k] = NextTry(h[k - 1], k, steps, pg, o)
    <3>1. k \in 1..n /\ k - 1 \in 0..n
      BY <2>1
    <3> QED
      BY <1>6, <1>7, <3>1
  <2> QED
    BY <1>7, <2>1
<1>9. G = [k \in 0..n |-> Body(G, k)]
  <2>1. \A f, k : Body0(f, k) = Body(f, k)
    BY <1>1, Zenon
  <2>2. n = Len(Order)
    BY <1>1, <1>2
  <2> HIDE DEF Body, Body0, Order
  <2>3. h = [k \in 0..Len(Order) |-> Body0(h, k)]
    BY <1>8, <2>1, <2>2
  <2>4. G = [k \in 0..Len(Order) |-> Body0(G, k)]
    BY <2>3 DEF G
  <2> QED
    BY <2>1, <2>2, <2>4
<1>10. G[0] = FirstTry(d)
  BY <1>9
<1>11. \A k \in 1..n : G[k] = NextTry(G[k - 1], k, steps, pg, o)
  <2>1. \A k \in 1..n : k \in 0..n /\ k # 0
    OBVIOUS
  <2> QED
    BY <1>9, <2>1
<1>12. \A k \in 0..n : G[k] \in S
  <2>1. ASSUME NEW k \in 1..n, G[k - 1] \in S PROVE G[k] \in S
    BY <1>2, <1>11, <2>1, NextTryStays DEF S
  <2> QED
    BY <1>5, <1>10, <2>1, StepsKeep
<1>13. G \in [0..n -> S]
  BY <1>9, <1>12
<1>14. Placement!flip(d, pg, o) \in {d, G[n].d}
       /\ ("inner" \notin o.enabled /\ NotFlipped(d) => Placement!flip(d, pg, o) = G[n].d)
  <2>1. n = Len(Order)
    BY <1>1, <1>2
  <2> HIDE DEF Order
  <2> QED
    BY <1>3, <2>1, Zenon DEF NotFlipped
<1> QED
  <2>1. TriesOf(G, d, steps, pg, o)
    BY <1>2, <1>10, <1>11, <1>13, <1>14, Zenon DEF TriesOf, S
  <2> QED
    BY <1>1, <2>1

\* flip leaves a placed popper, and one that has room where it is.
LEMMA FlipPlaces ==
    ASSUME NEW pg, NEW o, Placement!IsLayout(pg), Placement!IsOptions(o), NEW d \in Placed(pg, o)
    PROVE  \E e \in Placed(pg, o) :
              /\ e = Placement!flip(d, pg, o) /\ e.originalPlacement = d.originalPlacement
              /\ StaysBeside(d, e, pg, o)
<1>1. PICK steps \in Seq(Turns) : \E h : TriesOf(h, d, steps, pg, o)
  BY FlipTries
<1>2. PICK h : TriesOf(h, d, steps, pg, o)
  BY <1>1
<1>3. Len(steps) \in 0..Len(steps)
  BY TurnLists
<1>4. PICK t \in TriesFrom(d, pg, o) : t = h[Len(steps)]
  BY <1>2, <1>3 DEF TriesOf
<1>5. t.d \in Placed(pg, o) /\ t.d.originalPlacement = d.originalPlacement /\ StaysBeside(d, t.d, pg, o)
  BY TryFacts
<1>6. StaysBeside(d, d, pg, o)
  BY DEF StaysBeside
<1>7. Placement!flip(d, pg, o) = d \/ Placement!flip(d, pg, o) = t.d
  BY <1>2, <1>4 DEF TriesOf
<1> QED
  BY <1>5, <1>6, <1>7

\* With the two placements of behavior flip.
LEMMA FlipTurns ==
    ASSUME NEW pg, NEW o, Placement!IsLayout(pg), Placement!IsOptions(o), NEW d \in Placed(pg, o),
           o.behavior.kind = "flip", "inner" \notin o.enabled, NotFlipped(d)
    PROVE  Placement!flip(d, pg, o).placement.side =
              IF BadSide(d, pg, o) THEN Placement!Opposite[d.placement.side] ELSE d.placement.side
<1>1. PICK steps \in Seq(Turns) : /\ steps = Placement!FlipOrder(d.placement, o.behavior)
                                  /\ \E h : TriesOf(h, d, steps, pg, o)
  BY FlipTries
<1>2. PICK h : TriesOf(h, d, steps, pg, o)
  BY <1>1
<1>3. PICK base \in Turns : base = TurnTo(d.placement.side, "") /\ base.side = d.placement.side
  <2>1. FirstTry(d).placement \in Turns
    BY FirstTryType, TryFacts
  <2>2. FirstTry(d).placement = TurnTo(d.placement.side, "")
    BY DEF FirstTry
  <2>3. TurnTo(d.placement.side, "").side = d.placement.side
    BY DEF TurnTo
  <2> QED
    BY <2>1, <2>2, <2>3
<1>4. Len(steps) = 2 /\ steps[1] = base /\ steps[2].side = Placement!Opposite[d.placement.side]
  <2>1. steps = <<base, Placement!getOppositePlacement(base)>>
    BY <1>1, <1>3, Zenon DEF Placement!FlipOrder, TurnTo
  <2>2. Placement!getOppositePlacement(base).side = Placement!Opposite[d.placement.side]
    BY <1>3 DEF Placement!getOppositePlacement, Turns
  <2> QED
    BY <2>1, <2>2
<1>5. h[0] = FirstTry(d) /\ h[1] = NextTry(h[0], 1, steps, pg, o) /\ h[2] = NextTry(h[1], 2, steps, pg, o)
  <2>1. 1 \in 1..Len(steps) /\ 2 \in 1..Len(steps)
    BY <1>4
  <2> QED
    BY <1>2, <2>1 DEF TriesOf
<1>6. h[2] = h[1]
  BY <1>4, <1>5, Zenon DEF NextTry
<1>7. Placement!flip(d, pg, o) = h[1].d
  BY <1>2, <1>4, <1>6 DEF TriesOf
<1>8. PICK t \in TriesFrom(d, pg, o) : t = FirstTry(d) /\ t.placement = base /\ t.d = d
  <2>1. FirstTry(d).placement = base /\ FirstTry(d).d = d
    BY <1>3 DEF FirstTry
  <2> QED
    BY <2>1, FirstTryType
<1>9. CASE ~(BadSide(d, pg, o) \/ BadEnd(t.variation, d, pg, o))
  <2>1. h[1] = t
    BY <1>5, <1>8, <1>9, Zenon DEF NextTry
  <2> QED
    BY <1>7, <1>8, <1>9, <2>1
<1>10. CASE BadSide(d, pg, o) \/ BadEnd(t.variation, d, pg, o)
  <2>1. PICK k \in 1..Len(steps) : k = 1 /\ k # Len(steps) /\ k + 1 = 2
    BY <1>4
  <2>a. k # Len(steps)
    BY <2>1
  <2>2. PICK step \in Turns, v \in Placement!Variations, to \in Turns :
              /\ step = NextStep(t, k, steps, pg, o) /\ v = NextVariation(t, pg, o) /\ to = Turned(step, v)
              /\ to.side = step.side
              /\ step.side = IF BadSide(t.d, pg, o) THEN steps[k + 1].side ELSE t.d.placement.side
    BY <2>a, NextTurn
  <2>3. PICK e \in Placed(pg, o) : e = Retry(d, to, pg, o) /\ e.placement = to
    BY RetryPlaces
  <2>4. NextTry(t, 1, steps, pg, o) = [placement |-> step, variation |-> v, d |-> e]
    BY <1>4, <1>8, <1>10, <2>1, <2>2, <2>3, Zenon DEF NextTry
  <2>5. h[1].d = e
    BY <1>5, <1>8, <2>4
  <2>6. e.placement.side = IF BadSide(d, pg, o) THEN steps[2].side ELSE d.placement.side
    BY <1>8, <2>1, <2>2, <2>3
  <2> QED
    BY <1>4, <1>7, <2>5, <2>6
<1> QED
  BY <1>9, <1>10

-----------------------------------------------------------------------------
(* auto: the side with most room.                                          *)

\* The boundaries of computeAutoPlacement.
AutoBounds(pg, o) == Placement!getBoundaries(pg.autoViewport, o.flipPadding)

\* What it compares are the popper that is placed and the boundaries of flip.
SeesAll(pg) == pg.client = pg.popper /\ pg.autoViewport = pg.viewport

\* What computeAutoPlacement finds at each side.
Rooms(pg, o) ==
    LET b == AutoBounds(pg, o)
    IN  [top    |-> [width |-> b.width, height |-> pg.ref.top - b.top],
         right  |-> [width |-> b.right - pg.ref.right, height |-> b.height],
         bottom |-> [width |-> b.width, height |-> b.bottom - pg.ref.bottom],
         left   |-> [width |-> pg.ref.left - b.left, height |-> b.height]]

\* The sides in the order in which computeAutoPlacement looks at them.
Keys == <<"top", "right", "bottom", "left">>

\* The popper fits in: by the lengths that computeAutoPlacement compares, and by the boundary.
FitsIn(pg, o, side) ==
    /\ Rooms(pg, o)[side].width >= pg.client.width
    /\ Rooms(pg, o)[side].height >= pg.client.height

FitsAt(pg, o, side) ==
    LET b == FlipBounds(pg, o)
        beside == Placement!getPopperOffsets(pg.popper, pg.ref, side)
        w == Placement!Away(side)
    IN  beside[w.first] >= b[w.first] /\ beside[w.last] <= b[w.last]

LEMMA KeyFacts ==
    /\ \A k \in 1..4 : Keys[k] \in Placement!Sides
    /\ \A side \in Placement!Sides : \E k \in 1..4 : Keys[k] = side
<1>1. Keys[1] = "top" /\ Keys[2] = "right" /\ Keys[3] = "bottom" /\ Keys[4] = "left"
  BY DEF Keys
<1>2. \A k \in 1..4 : k = 1 \/ k = 2 \/ k = 3 \/ k = 4
  OBVIOUS
<1>3. 1 \in 1..4 /\ 2 \in 1..4 /\ 3 \in 1..4 /\ 4 \in 1..4
  OBVIOUS
<1> QED
  BY <1>1, <1>2, <1>3, Zenon DEF Placement!Sides

\* The best of four.
Best(from, area) ==
    {k \in from : \A i \in from : area[i] < area[k] \/ (area[i] = area[k] /\ k <= i)}

\* One of four is the best.
LEMMA BestExists ==
    ASSUME NEW from \in SUBSET (1..4), from # {}, NEW area \in [1..4 -> Int]
    PROVE  Best(from, area) # {}
<1>1. PICK a \in Int, b \in Int, c \in Int, d \in Int :
          a = area[1] /\ b = area[2] /\ c = area[3] /\ d = area[4]
  OBVIOUS
<1>2. \A k \in from : k = 1 \/ k = 2 \/ k = 3 \/ k = 4
  OBVIOUS
<1>3. ASSUME \A k \in from : \E i \in from : ~(area[i] < area[k] \/ (area[i] = area[k] /\ k <= i))
      PROVE  FALSE
  <2>1. \A k \in from : \E i \in from : area[i] > area[k] \/ (area[i] = area[k] /\ i < k)
    <3> SUFFICES ASSUME NEW k \in from PROVE \E i \in from : area[i] > area[k] \/ (area[i] = area[k] /\ i < k)
      OBVIOUS
    <3>1. PICK i \in from : ~(area[i] < area[k] \/ (area[i] = area[k] /\ k <= i))
      BY <1>3
    <3>2. area[i] \in Int /\ area[k] \in Int
      OBVIOUS
    <3> QED
      BY <3>1, <3>2
  <2>2. 1 \in from => (2 \in from /\ b > a) \/ (3 \in from /\ c > a) \/ (4 \in from /\ d > a)
    BY <1>1, <1>2, <2>1
  <2>3. 2 \in from => (1 \in from /\ a >= b) \/ (3 \in from /\ c > b) \/ (4 \in from /\ d > b)
    BY <1>1, <1>2, <2>1
  <2>4. 3 \in from => (1 \in from /\ a >= c) \/ (2 \in from /\ b >= c) \/ (4 \in from /\ d > c)
    BY <1>1, <1>2, <2>1
  <2>5. 4 \in from => (1 \in from /\ a >= d) \/ (2 \in from /\ b >= d) \/ (3 \in from /\ c >= d)
    BY <1>1, <1>2, <2>1
  <2>6. 1 \in from \/ 2 \in from \/ 3 \in from \/ 4 \in from
    BY <1>2
  <2> QED
    BY <2>2, <2>3, <2>4, <2>5, <2>6
<1> QED
  BY <1>3 DEF Best

\* The numbers of one side: the space away from the reference, and the length across.
Space(pg, o, side) ==
    IF side \in {"left", "top"} THEN pg.ref[side] - FlipBounds(pg, o)[side]
    ELSE FlipBounds(pg, o)[side] - pg.ref[side]

\* What is found at each side.
LEMMA RoomsFacts ==
    ASSUME NEW pg, NEW o, SeesAll(pg), NEW side \in Placement!Sides,
           NEW a, a = Placement!Along(side), NEW w, w = Placement!Away(side)
    PROVE  FitsIn(pg, o, side) <=> /\ Space(pg, o, side) >= pg.popper[w.len]
                                   /\ FlipBounds(pg, o)[a.len] >= pg.popper[a.len]
<1>1. PICK b : b = FlipBounds(pg, o) /\ b = AutoBounds(pg, o) /\ pg.client = pg.popper
  BY Zenon DEF SeesAll, FlipBounds, AutoBounds
<1>2. /\ Rooms(pg, o).top = [width |-> b.width, height |-> pg.ref.top - b.top]
      /\ Rooms(pg, o).right = [width |-> b.right - pg.ref.right, height |-> b.height]
      /\ Rooms(pg, o).bottom = [width |-> b.width, height |-> b.bottom - pg.ref.bottom]
      /\ Rooms(pg, o).left = [width |-> pg.ref.left - b.left, height |-> b.height]
  BY <1>1 DEF Rooms
<1>3. side = "top" \/ side = "right" \/ side = "bottom" \/ side = "left"
  BY DEF Placement!Sides
<1>4. CASE side = "top"
  BY <1>1, <1>2, <1>4 DEF FitsIn, Space, Placement!Along, Placement!Away, Placement!isHoriz
<1>5. CASE side = "right"
  BY <1>1, <1>2, <1>5 DEF FitsIn, Space, Placement!Along, Placement!Away, Placement!isHoriz
<1>6. CASE side = "bottom"
  BY <1>1, <1>2, <1>6 DEF FitsIn, Space, Placement!Along, Placement!Away, Placement!isHoriz
<1>7. CASE side = "left"
  BY <1>1, <1>2, <1>7 DEF FitsIn, Space, Placement!Along, Placement!Away, Placement!isHoriz
<1> QED
  BY <1>3, <1>4, <1>5, <1>6, <1>7

\* In a length that is even, what counts is the whole pixels.
LEMMA SpaceNumbers ==
    ASSUME NEW u \in Int, NEW v \in Int, NEW n \in Int, v % 2 = 0, n % 2 = 0
    PROVE  /\ u - v >= n => Placement!Floor(u) - v >= n
           /\ v - u >= n => v - Placement!Floor(u) >= n
<1>1. PICK f \in Int : f = Placement!Floor(u) /\ f <= u /\ u <= f + 1
  BY FloorFacts
<1>2. ASSUME u - v >= n PROVE f - v >= n
  <2>1. f % 2 = 0
    BY <1>1 DEF Placement!Floor
  <2> QED
    BY <1>1, <1>2, <2>1
<1> QED
  BY <1>1, <1>2

\* The popper fits in exactly where there is room.
LEMMA FitsHasRoom ==
    ASSUME NEW pg, NEW o, Placement!IsLayout(pg), Placement!IsOptions(o), NEW side \in Placement!Sides,
           SeesAll(pg), Agreed(pg, o, Placement!Away(side)), FitsIn(pg, o, side)
    PROVE  HasRoom(pg, o, side)
<1>1. PICK w : w = Placement!Away(side) /\ IsAxis(w) /\ side \in {w.first, w.last}
               /\ (side \in {"left", "top"} <=> side = w.first)
  BY AxisFacts
<1>2. PICK b \in RawRects : b = FlipBounds(pg, o)
  <2>1. pg.viewport \in RawRects
    BY PageFacts
  <2>2. o.flipPadding \in Int
    BY OptionFacts
  <2> QED
    BY <2>1, <2>2, BoundaryFacts DEF FlipBounds
<1>3. PICK n \in Int : n = pg.popper[w.len] /\ n % 2 = 0
  <2>1. pg.popper[w.len] \in Nat /\ pg.popper[w.len] % 2 = 0
    BY <1>1, PageFacts DEF IsAxis
  <2> QED
    BY <2>1
<1>4. PICK u \in Int, v \in Int : u = pg.ref[side] /\ v = b[side] /\ v % 2 = 0
  <2>1. pg.ref \in RawRects
    BY PageFacts
  <2>2. pg.ref[side] \in Int /\ b[side] \in Int
    BY <1>1, <2>1, AxisTypes
  <2>3. b[side] % 2 = 0
    BY <1>1, <1>2 DEF Agreed
  <2> QED
    BY <2>2, <2>3
<1>5. IF side \in {"left", "top"} THEN u - v >= n ELSE v - u >= n
  <2>1. Space(pg, o, side) >= pg.popper[w.len]
    BY <1>1, RoomsFacts
  <2> QED
    BY <1>2, <1>3, <1>4, <2>1, Zenon DEF Space
<1>6. IF side \in {"left", "top"} THEN Placement!Floor(u) - v >= n ELSE v - Placement!Floor(u) >= n
  BY <1>3, <1>4, <1>5, SpaceNumbers
<1> QED
  BY <1>1, <1>2, <1>3, <1>4, <1>6, Zenon DEF HasRoom

LEMMA FitsAtFits ==
    ASSUME NEW pg, NEW o, Placement!IsLayout(pg), Placement!IsOptions(o), NEW side \in Placement!Sides,
           Agreed(pg, o, Placement!Along("top")), Agreed(pg, o, Placement!Along("left")),
           SeesAll(pg), FitsAt(pg, o, side)
    PROVE  FitsIn(pg, o, side)
<1>1. PICK w : w = Placement!Away(side) /\ IsAxis(w) /\ side \in {w.first, w.last}
               /\ (side \in {"left", "top"} <=> side = w.first)
  BY AxisFacts
<1>2. PICK a : a = Placement!Along(side) /\ IsAxis(a) /\ Agreed(pg, o, a)
  <2>1. Placement!Along(side) = Placement!Along("top") \/ Placement!Along(side) = Placement!Along("left")
    BY DEF Placement!Along, Placement!isHoriz
  <2>2. IsAxis(Placement!Along(side))
    BY AxisFacts
  <2> QED
    BY <2>1, <2>2, Zenon
<1>3. pg.ref \in RawRects /\ pg.viewport \in RawRects /\ pg.viewport = Client(pg.viewport)
  BY PageFacts
<1>4. o.flipPadding \in Nat
  BY OptionFacts
<1>5. PICK b \in RawRects :
          /\ b = FlipBounds(pg, o) /\ b[a.len] = pg.viewport[a.len]
          /\ b[a.first] = pg.viewport[a.first] + o.flipPadding
          /\ b[a.last] = pg.viewport[a.last] - o.flipPadding
  <2>1. o.flipPadding \in Int
    BY <1>4
  <2> QED
    BY <1>2, <1>3, <2>1, BoundaryFacts DEF FlipBounds, IsAxis
<1>6. FlipBounds(pg, o)[a.len] >= pg.popper[a.len]
  <2>1. pg.popper[a.len] \in Int
    BY <1>2, PageFacts DEF IsAxis
  <2>2. pg.popper[a.len] <= b[a.last] - b[a.first]
    BY <1>2, <1>5 DEF Agreed
  <2>3. pg.viewport[a.last] = pg.viewport[a.first] + pg.viewport[a.len]
        /\ pg.viewport[a.first] \in Int /\ pg.viewport[a.len] \in Int
    BY <1>2, <1>3, AxisTypes
  <2> QED
    BY <1>4, <1>5, <2>1, <2>2, <2>3
<1>7. PICK p \in RawRects :
          /\ p = Placement!getPopperOffsets(pg.popper, pg.ref, side) /\ p = Client(p)
          /\ p.width = pg.popper.width /\ p.height = pg.popper.height
          /\ p[w.first] = IF side = w.first THEN pg.ref[side] - pg.popper[w.len] ELSE pg.ref[w.last]
  BY <1>1, <1>3, OffsetsFacts
<1>8. PICK n \in Int : n = pg.popper[w.len] /\ p[w.last] = p[w.first] + n
  <2>1. pg.popper[w.len] \in Int /\ p[w.len] = pg.popper[w.len]
    BY <1>1, <1>7, PageFacts DEF IsAxis
  <2>2. p[w.last] = p[w.first] + p[w.len]
    BY <1>1, <1>7, AxisTypes
  <2> QED
    BY <2>1, <2>2
<1>9. PICK u \in Int, v \in Int, x \in Int : u = pg.ref[side] /\ v = b[side] /\ x = p[w.first]
  BY <1>1, <1>3, AxisTypes
<1>10. p[w.first] >= b[w.first] /\ p[w.last] <= b[w.last]
  BY <1>1, <1>5, <1>7, Zenon DEF FitsAt
<1>11. Space(pg, o, side) >= pg.popper[w.len]
  <2>1. CASE side = w.first
    <3>1. x = u - n /\ x >= v
      BY <1>7, <1>8, <1>9, <1>10, <2>1, Zenon
    <3>2. Space(pg, o, side) = u - v
      BY <1>1, <1>5, <1>9, <2>1, Zenon DEF Space
    <3> QED
      BY <1>8, <3>1, <3>2
  <2>2. CASE side # w.first
    <3>1. x = u /\ p[w.last] = x + n /\ p[w.last] <= v
      BY <1>1, <1>7, <1>8, <1>9, <1>10, <2>2, Zenon
    <3>2. Space(pg, o, side) = v - u
      BY <1>1, <1>5, <1>9, <2>2, Zenon DEF Space
    <3> QED
      BY <1>8, <3>1, <3>2
  <2> QED
    BY <2>1, <2>2
<1> QED
  BY <1>1, <1>2, <1>6, <1>11, RoomsFacts

-----------------------------------------------------------------------------
(* One update, from its start.                                             *)

\* A placement auto is one with room, if there is any.
FindsRoom(t, pg, o) ==
    /\ SeesAll(pg)
    /\ o.placement.side = "auto"
    /\ Agreed(pg, o, Placement!Along("top")) /\ Agreed(pg, o, Placement!Along("left"))
    /\ \E side \in Placement!Sides : FitsAt(pg, o, side)
    => HasRoom(pg, o, t.side)

\* The placement that an update starts from.
LEMMA StartPlacement ==
    ASSUME NEW pg, NEW o, Placement!IsLayout(pg), Placement!IsOptions(o)
    PROVE  \E t \in Turns : t = Placement!computeAutoPlacement(pg, o) /\ FindsRoom(t, pg, o)
<1>1. o.placement \in [side : Placement!Sides \cup {"auto"}, variation : Placement!Variations]
  BY Zenon DEF Placement!IsOptions
<1>2. CASE o.placement.side # "auto"
  <2>1. o.placement \in Turns
    BY <1>1, <1>2 DEF Turns
  <2>2. Placement!computeAutoPlacement(pg, o) = o.placement
    BY <1>2, Zenon DEF Placement!computeAutoPlacement
  <2>3. PICK t \in Turns : t = Placement!computeAutoPlacement(pg, o)
    BY <2>1, <2>2
  <2>4. FindsRoom(t, pg, o)
    BY <1>2 DEF FindsRoom
  <2> QED
    BY <2>3, <2>4
<1>3. CASE o.placement.side = "auto"
  <2> DEFINE area(k) == Rooms(pg, o)[Keys[k]].width * Rooms(pg, o)[Keys[k]].height
             filtered == {k \in 1..4 : FitsIn(pg, o, Keys[k])}
             from == IF filtered # {} THEN filtered ELSE 1..4
             best == CHOOSE k \in from : \A i \in from : area(i) < area(k) \/ (area(i) = area(k) /\ k <= i)
  <2>1. Placement!computeAutoPlacement(pg, o) = [o.placement EXCEPT !.side = Keys[best]]
    BY <1>3, Zenon DEF Placement!computeAutoPlacement, Rooms, Keys, FitsIn, AutoBounds
  <2>2. from \in SUBSET (1..4) /\ from # {}
    OBVIOUS
  <2>3. \A k \in 1..4 : area(k) \in Int
    <3> SUFFICES ASSUME NEW k \in 1..4 PROVE area(k) \in Int
      OBVIOUS
    <3>1. PICK side \in Placement!Sides : side = Keys[k]
      BY KeyFacts
    <3>2. PICK b \in RawRects : b = AutoBounds(pg, o)
      <4>1. pg.autoViewport \in RawRects
        BY PageFacts
      <4>2. o.flipPadding \in Int
        BY OptionFacts
      <4> QED
        BY <4>1, <4>2, BoundaryFacts DEF AutoBounds
    <3>3. pg.ref \in RawRects
      BY PageFacts
    <3>4. PICK r : r = Rooms(pg, o)
      OBVIOUS
    <3>5. r = [top    |-> [width |-> b.width, height |-> pg.ref.top - b.top],
               right  |-> [width |-> b.right - pg.ref.right, height |-> b.height],
               bottom |-> [width |-> b.width, height |-> b.bottom - pg.ref.bottom],
               left   |-> [width |-> pg.ref.left - b.left, height |-> b.height]]
      BY <3>2, <3>4, Zenon DEF Rooms
    <3>6. r[side].width \in Int /\ r[side].height \in Int
      <4>1. side = "top" \/ side = "right" \/ side = "bottom" \/ side = "left"
        BY DEF Placement!Sides
      <4> QED
        BY <3>2, <3>3, <3>5, <4>1 DEF RawRects
    <3>7. PICK x \in Int, y \in Int : x = r[side].width /\ y = r[side].height
      BY <3>6
    <3>8. area(k) = x * y
      BY <3>1, <3>4, <3>7
    <3> QED
      BY <3>8
  <2> DEFINE areas == [k \in 1..4 |-> area(k)]
  <2>4. areas \in [1..4 -> Int] /\ \A k \in 1..4 : areas[k] = area(k)
    <3> HIDE DEF area
    <3> QED
      BY <2>3
  <2> HIDE DEF from, areas, area
  <2>5. Best(from, areas) # {}
    BY <2>2, <2>4, BestExists
  <2>6. \E k \in from : \A i \in from : area(i) < area(k) \/ (area(i) = area(k) /\ k <= i)
    BY <2>2, <2>4, <2>5 DEF Best
  <2>7. best \in from
    BY <2>6
  <2> HIDE DEF best
  <2>8. PICK k \in 1..4 : k = best
    BY <2>2, <2>7
  <2>9. PICK side \in Placement!Sides : side = Keys[k]
    BY KeyFacts
  <2>10. PICK t \in Turns : t = [o.placement EXCEPT !.side = side] /\ t.side = side
    <3>1. [o.placement EXCEPT !.side = side] \in Turns
      BY <1>1 DEF Turns
    <3>2. [o.placement EXCEPT !.side = side].side = side
      BY <1>1
    <3> QED
      BY <3>1, <3>2
  <2>11. t = Placement!computeAutoPlacement(pg, o)
    BY <2>1, <2>8, <2>9, <2>10, Zenon
  <2>12. FindsRoom(t, pg, o)
    <3> SUFFICES ASSUME SeesAll(pg), Agreed(pg, o, Placement!Along("top")),
                        Agreed(pg, o, Placement!Along("left")),
                        \E s \in Placement!Sides : FitsAt(pg, o, s)
                 PROVE  HasRoom(pg, o, t.side)
      BY DEF FindsRoom
    <3>1. PICK s \in Placement!Sides : FitsAt(pg, o, s)
      OBVIOUS
    <3>2. FitsIn(pg, o, s)
      BY <3>1, FitsAtFits
    <3>3. filtered # {}
      <4>1. PICK i \in 1..4 : Keys[i] = s
        BY KeyFacts
      <4> QED
        BY <3>2, <4>1
    <3>4. FitsIn(pg, o, side)
      <4>1. best \in filtered
        BY <2>7, <3>3 DEF from
      <4> QED
        BY <2>8, <2>9, <4>1
    <3>5. Agreed(pg, o, Placement!Away(side))
      <4>1. Placement!Away(side) = Placement!Along("top") \/ Placement!Away(side) = Placement!Along("left")
        BY DEF Placement!Away
      <4> QED
        BY <4>1
    <3>6. HasRoom(pg, o, side)
      BY <3>4, <3>5, FitsHasRoom
    <3> QED
      BY <2>10, <3>6
  <2> QED
    BY <2>11, <2>12
<1> QED
  BY <1>2, <1>3

\* The data that an update starts from.
Start(pg, o) ==
    [placement |-> Placement!computeAutoPlacement(pg, o),
     originalPlacement |-> Placement!computeAutoPlacement(pg, o), flipped |-> FALSE,
     ref |-> pg.ref,
     popper |-> Placement!getPopperOffsets(pg.popper, pg.ref, Placement!computeAutoPlacement(pg, o).side),
     boundaries |-> pg.scrollParent, arrow |-> [side |-> "", value |-> 0], hide |-> ""]

\* What an update starts from is a draft.
LEMMA StartFacts ==
    ASSUME NEW pg, NEW o, Placement!IsLayout(pg), Placement!IsOptions(o),
           NEW t \in Turns, t = Placement!computeAutoPlacement(pg, o)
    PROVE  \E d \in Drafts(pg) :
              /\ d = Start(pg, o) /\ d.placement = t /\ d.originalPlacement = t /\ NotFlipped(d)
              /\ d.popper = Placement!getPopperOffsets(pg.popper, pg.ref, t.side)
<1>1. PICK p \in RawRects :
          /\ p = Placement!getPopperOffsets(pg.popper, pg.ref, t.side)
          /\ p.width = pg.popper.width /\ p.height = pg.popper.height
  <2>1. PICK side \in Placement!Sides : side = t.side
    BY TurnTypes
  <2>2. pg.ref \in RawRects
    BY PageFacts
  <2> QED
    BY <2>1, <2>2, OffsetsFacts
<1>2. PICK no \in BOOLEAN : no = FALSE
  BY Zenon
<1>3. PICK nowhere \in ArrowSides : nowhere = ""
  BY Zenon DEF ArrowSides
<1>4. PICK unmarked \in HideMarks : unmarked = ""
  BY Zenon DEF HideMarks
<1>5. PICK none \in [side : ArrowSides, value : Int] : none = [side |-> nowhere, value |-> 0]
  <2>1. [side |-> nowhere, value |-> 0] \in [side : ArrowSides, value : Int]
    OBVIOUS
  <2> QED
    BY <2>1, Zenon
<1>6. PICK ref \in RawRects, b \in RawRects : ref = pg.ref /\ b = pg.scrollParent
  BY PageFacts
<1>7. PICK d \in Datas : d = [placement |-> t, originalPlacement |-> t, flipped |-> no, ref |-> ref,
                              popper |-> p, boundaries |-> b, arrow |-> none, hide |-> unmarked]
  BY DEF Datas
<1>8. d.placement = t /\ d.originalPlacement = t /\ d.flipped = no /\ d.ref = ref /\ d.popper = p
      /\ d.hide = unmarked
  BY <1>7
<1>9. d = Start(pg, o)
  BY <1>1, <1>2, <1>3, <1>4, <1>5, <1>6, <1>7, Zenon DEF Start
<1>10. d \in Drafts(pg)
  BY <1>1, <1>6, <1>8 DEF Drafts
<1>11. NotFlipped(d)
  BY <1>2, <1>4, <1>8, Zenon DEF NotFlipped
<1> QED
  BY <1>1, <1>8, <1>9, <1>10, <1>11, Zenon

\* Whether flip finds the side with room, from the placement t.
FlippedForRoom(e, t, pg, o) ==
    /\ o.behavior.kind = "flip" /\ "flip" \in o.enabled /\ "inner" \notin o.enabled
    /\ Agreed(pg, o, Placement!Away(t.side))
    => e.placement.side = IF HasRoom(pg, o, t.side) THEN t.side ELSE Placement!Opposite[t.side]

\* Whether it stays at a side with room.
StaysWithRoom(e, t, pg, o) ==
    /\ "inner" \notin o.enabled /\ Agreed(pg, o, Placement!Away(t.side)) /\ HasRoom(pg, o, t.side)
    => e.placement.side = t.side

\* One update.
LEMMA UpdateDoes ==
    ASSUME NEW pg, NEW o, Placement!IsLayout(pg), Placement!IsOptions(o),
           NEW t \in Turns, t = Placement!computeAutoPlacement(pg, o)
    PROVE  \E e \in Placed(pg, o) :
              /\ e = Placement!update(pg, o) /\ e.popper = Client(e.popper)
              /\ e.originalPlacement = t
              /\ {"hide", "preventOverflow"} \subseteq o.enabled =>
                   e.hide = Mark(OutOf(pg.ref, Bounds(pg, o)))
              /\ FlippedForRoom(e, t, pg, o) /\ StaysWithRoom(e, t, pg, o)
<1>1. PICK d \in Drafts(pg) :
              /\ d = Start(pg, o) /\ d.placement = t /\ d.originalPlacement = t /\ NotFlipped(d)
              /\ d.popper = Placement!getPopperOffsets(pg.popper, pg.ref, t.side)
  BY StartFacts
<1>2. PICK side \in Placement!Sides : side = t.side
  BY TurnTypes
<1>3. PICK before \in Placed(pg, o) :
              /\ before = Placement!runModifiers(Placement!Before("flip"), d, pg, o) /\ Kept(d, before)
              /\ Agreed(pg, o, Placement!Away(side)) =>
                   /\ HasRoom(pg, o, side) => ~BadSide(before, pg, o)
                   /\ \A c \in Drafts(pg) :
                        c.popper = Client(before.popper) /\ c.placement = before.placement
                          => (HasRoom(pg, o, side) <=> ~BadSide(c, pg, o))
  BY <1>1, <1>2, RunBeside
<1>4. PICK complete \in Placed(pg, o) :
              /\ complete = [before EXCEPT !.popper = Client(@)] /\ Kept(before, complete)
              /\ complete.popper = Client(before.popper)
  BY CompletePlaced
<1>5. complete \in Drafts(pg)
  BY DEF Placed
<1>6. /\ before.placement = t /\ before.originalPlacement = t
      /\ complete.placement = t /\ complete.originalPlacement = t
  BY <1>1, <1>3, <1>4 DEF Kept
<1>6n. NotFlipped(complete)
  BY <1>1, <1>3, <1>4, Zenon DEF Kept, NotFlipped
<1>7. Agreed(pg, o, Placement!Away(side)) => (HasRoom(pg, o, side) <=> ~BadSide(complete, pg, o))
  BY <1>3, <1>4, <1>5, <1>6
<1>8. PICK f \in Placed(pg, o) :
              /\ f = Placement!flip(complete, pg, o) /\ f.originalPlacement = complete.originalPlacement
              /\ StaysBeside(complete, f, pg, o)
  BY FlipPlaces
<1>9. PICK flipped \in Placed(pg, o) : flipped = IF "flip" \in o.enabled THEN f ELSE before
  OBVIOUS
<1>10. flipped.originalPlacement = t
  BY <1>6, <1>8, <1>9
<1>11. FlippedForRoom(flipped, t, pg, o)
  <2> SUFFICES ASSUME o.behavior.kind = "flip", "flip" \in o.enabled, "inner" \notin o.enabled,
                      Agreed(pg, o, Placement!Away(t.side))
               PROVE  flipped.placement.side
                        = IF HasRoom(pg, o, t.side) THEN t.side ELSE Placement!Opposite[t.side]
    BY DEF FlippedForRoom
  <2>1. f.placement.side =
           IF BadSide(complete, pg, o) THEN Placement!Opposite[complete.placement.side]
           ELSE complete.placement.side
    BY <1>6n, <1>8, FlipTurns
  <2>2. HasRoom(pg, o, t.side) <=> ~BadSide(complete, pg, o)
    BY <1>2, <1>7
  <2> QED
    BY <1>6, <1>9, <2>1, <2>2
<1>12. StaysWithRoom(flipped, t, pg, o)
  <2> SUFFICES ASSUME "inner" \notin o.enabled, Agreed(pg, o, Placement!Away(t.side)), HasRoom(pg, o, t.side)
               PROVE  flipped.placement.side = t.side
    BY DEF StaysWithRoom
  <2>1. ~BadSide(complete, pg, o)
    BY <1>2, <1>7
  <2>2. f.placement.side = t.side
    BY <1>6, <1>8, <2>1 DEF StaysBeside
  <2> QED
    BY <1>6, <1>9, <2>2
<1>13. PICK after \in Placed(pg, o) :
              /\ after = Placement!runModifiers(Placement!After("flip"), flipped, pg, o)
              /\ after.originalPlacement = flipped.originalPlacement
              /\ "inner" \notin o.enabled => after.placement = flipped.placement
              /\ {"hide", "preventOverflow"} \subseteq o.enabled =>
                   after.hide = Mark(OutOf(pg.ref, Bounds(pg, o)))
  BY AfterPlaces
<1>14. PICK e \in Placed(pg, o) :
              /\ e = [after EXCEPT !.popper = Client(@)] /\ Kept(after, e) /\ e.popper = Client(e.popper)
  BY CompletePlaced
<1>15. e = Placement!update(pg, o)
  <2>1. Placement!update(pg, o) =
          [Placement!runModifiers(Placement!After("flip"),
              IF "flip" \in o.enabled
              THEN Placement!flip([Placement!runModifiers(Placement!Before("flip"), Start(pg, o), pg, o)
                                     EXCEPT !.popper = Client(@)], pg, o)
              ELSE Placement!runModifiers(Placement!Before("flip"), Start(pg, o), pg, o), pg, o)
           EXCEPT !.popper = Client(@)]
    BY Zenon DEF Placement!update, Start, Client
  <2> QED
    BY <1>1, <1>3, <1>4, <1>8, <1>9, <1>13, <1>14, <2>1, Zenon
<1>16. /\ e.originalPlacement = t /\ e.hide = after.hide /\ e.placement = after.placement
  BY <1>10, <1>13, <1>14 DEF Kept
<1>17. FlippedForRoom(e, t, pg, o)
  BY <1>11, <1>13, <1>16, Zenon DEF FlippedForRoom
<1>18. StaysWithRoom(e, t, pg, o)
  BY <1>12, <1>13, <1>16, Zenon DEF StaysWithRoom
<1> QED
  BY <1>13, <1>14, <1>15, <1>16, <1>17, <1>18

-----------------------------------------------------------------------------
(* The invariant of Placement.                                             *)

\* Somewhere else a layout is a layout.
LEMMA LayoutAt ==
    ASSUME NEW pg, Placement!IsLayout(pg), NEW x \in Int, NEW y \in Int
    PROVE  Placement!IsLayout(Placement!At(pg, x, y))
<1>1. /\ pg \in [ref : Placement!Rects, popper : Placement!Sizes, client : Placement!Sizes,
                 arrow : Placement!Sizes, scrollParent : Placement!Rects,
                 viewport : Placement!Rects, autoViewport : Placement!Rects,
                 offsetParent : Placement!Sizes, borders : Placement!Sizes]
      /\ Placement!Whole(pg.ref.width) /\ Placement!Whole(pg.ref.height)
  BY DEF Placement!IsLayout
<1>2. pg.ref.width \in Nat /\ pg.ref.height \in Nat
  BY PageFacts
<1>3. PICK m \in Nat, n \in Nat : m = pg.ref.width /\ n = pg.ref.height
  BY <1>2
<1>4. PICK r \in Int, l \in Int : r = x + m /\ l = y + n
  OBVIOUS
<1>5. Placement!Rect(x, y, m, n)
        = [left |-> x, top |-> y, width |-> m, height |-> n, right |-> r, bottom |-> l]
  BY <1>4, Zenon DEF Placement!Rect
<1>6. [left |-> x, top |-> y, width |-> m, height |-> n, right |-> r, bottom |-> l]
        \in [left : Int, top : Int, width : Nat, height : Nat, right : Int, bottom : Int]
  OBVIOUS
<1>7. PICK f \in [left : Int, top : Int, width : Nat, height : Nat, right : Int, bottom : Int] :
          f = [left |-> x, top |-> y, width |-> m, height |-> n, right |-> r, bottom |-> l]
  BY <1>6, Zenon
<1>8. f.left = x /\ f.top = y /\ f.width = m /\ f.height = n
  BY <1>7
<1>9. f = Placement!getClientRect(f)
  BY <1>5, <1>7, <1>8, Zenon DEF Placement!getClientRect
<1>10. f \in Placement!Rects
  BY <1>9, Zenon DEF Placement!Rects
<1>11. Placement!At(pg, x, y) = [pg EXCEPT !.ref = f]
  BY <1>3, <1>5, <1>7, Zenon DEF Placement!At
<1>12. PICK q \in [ref : Placement!Rects, popper : Placement!Sizes, client : Placement!Sizes,
                   arrow : Placement!Sizes, scrollParent : Placement!Rects,
                   viewport : Placement!Rects, autoViewport : Placement!Rects,
                   offsetParent : Placement!Sizes, borders : Placement!Sizes] :
          q = [pg EXCEPT !.ref = f]
  BY <1>1, <1>10
<1>13. q.ref = f
  BY <1>1, <1>12
<1>14. Placement!Whole(q.ref.width) /\ Placement!Whole(q.ref.height)
  BY <1>1, <1>3, <1>8, <1>13, Zenon
<1> QED
  BY <1>11, <1>12, <1>14, Zenon DEF Placement!IsLayout

\* The inductive invariant: the popper is where one update of the page as it is puts it.
PlaceState(pg, o, d, s) ==
    /\ Placement!IsLayout(pg) /\ Placement!IsOptions(o)
    /\ d = Placement!update(pg, o) /\ s = Placement!computeStyle(d, pg, o)

\* It holds at the start ...
LEMMA PlaceInit == Placement!Init => PlaceState(placePage, options, data, placeStyle)
<1> SUFFICES ASSUME Placement!Init PROVE PlaceState(placePage, options, data, placeStyle)
  OBVIOUS
<1>1. PICK layout \in Layouts, x \in Lefts, y \in Tops : placePage = Placement!At(layout, x, y)
  BY DEF Placement!Init
<1>2. Placement!IsLayout(layout) /\ x \in Int /\ y \in Int /\ Placement!IsOptions(options)
  BY PositioningAssumption DEF Placement!ConstantsAssumption, Placement!Init
<1>3. Placement!IsLayout(placePage)
  BY <1>1, <1>2, LayoutAt
<1> QED
  BY <1>2, <1>3, Zenon DEF Placement!Init, PlaceState

\* ... and after every step: each ends in an update and its style.
LEMMA PlaceStep ==
    PlaceState(placePage, options, data, placeStyle) /\ [Placement!Next]_(Placement!vars)
      => PlaceState(placePage', options', data', placeStyle')
<1> SUFFICES ASSUME PlaceState(placePage, options, data, placeStyle), [Placement!Next]_(Placement!vars)
             PROVE  PlaceState(placePage', options', data', placeStyle')
  OBVIOUS
<1>1. CASE UNCHANGED Placement!vars
  BY <1>1, Zenon DEF PlaceState, Placement!vars
<1>2. ASSUME NEW dx, NEW dy, Placement!Scroll(dx, dy)
      PROVE  PlaceState(placePage', options', data', placeStyle')
  <2>1. PICK x \in Lefts, y \in Tops : placePage' = Placement!At(placePage, x, y)
    BY <1>2, Zenon DEF Placement!Scroll
  <2>2. x \in Int /\ y \in Int
    BY PositioningAssumption DEF Placement!ConstantsAssumption
  <2>3. Placement!IsLayout(placePage) /\ Placement!IsOptions(options)
    BY Zenon DEF PlaceState
  <2>4. Placement!IsLayout(placePage')
    BY <2>1, <2>2, <2>3, LayoutAt
  <2> QED
    BY <1>2, <2>3, <2>4, Zenon DEF Placement!Scroll, PlaceState
<1> QED
  BY <1>1, <1>2, Zenon DEF Placement!Next

\* What an update does, of the state.
LEMMA PlaceFacts ==
    ASSUME NEW pg, NEW o, NEW d, NEW s, PlaceState(pg, o, d, s)
    PROVE  /\ d \in Placed(pg, o) /\ d.popper = Client(d.popper)
           /\ {"hide", "preventOverflow"} \subseteq o.enabled => d.hide = Mark(OutOf(pg.ref, Bounds(pg, o)))
           /\ FlippedForRoom(d, d.originalPlacement, pg, o) /\ StaysWithRoom(d, d.originalPlacement, pg, o)
           /\ FindsRoom(d.originalPlacement, pg, o) /\ d.originalPlacement \in Turns
<1>1. Placement!IsLayout(pg) /\ Placement!IsOptions(o) /\ d = Placement!update(pg, o)
  BY Zenon DEF PlaceState
<1>2. PICK t \in Turns : t = Placement!computeAutoPlacement(pg, o) /\ FindsRoom(t, pg, o)
  BY <1>1, StartPlacement
<1>3. PICK e \in Placed(pg, o) :
              /\ e = Placement!update(pg, o) /\ e.popper = Client(e.popper)
              /\ e.originalPlacement = t
              /\ {"hide", "preventOverflow"} \subseteq o.enabled =>
                   e.hide = Mark(OutOf(pg.ref, Bounds(pg, o)))
              /\ FlippedForRoom(e, t, pg, o) /\ StaysWithRoom(e, t, pg, o)
  BY <1>1, <1>2, UpdateDoes
<1> QED
  BY <1>1, <1>2, <1>3, Zenon

\* Its place, in the names of Settled.
LEMMA PlaceSettled ==
    ASSUME NEW pg, NEW o, NEW d, NEW s, PlaceState(pg, o, d, s), NEW a, a = Placement!Along(d.placement.side)
    PROVE  /\ IsAxis(a) /\ d.placement.side \in Placement!Sides
           /\ d \in Drafts(pg) /\ d \in Datas /\ d.popper \in RawRects /\ d.ref = pg.ref
           /\ d.popper[a.first] \in Int /\ d.popper[a.len] = pg.popper[a.len]
           /\ d.popper[a.last] = d.popper[a.first] + pg.popper[a.len]
           /\ Touches(a, d.popper[a.first], pg, o)
           /\ Points(a, d.popper[a.first], d.arrow, pg, o)
           /\ Inside(a, d.popper[a.first], pg, o)
<1>1. d \in Placed(pg, o) /\ d.popper = Client(d.popper)
  BY PlaceFacts
<1>2. d \in Drafts(pg) /\ Settled(d, a, pg, o)
  BY <1>1 DEF Placed
<1>3. d \in Datas /\ d.popper \in RawRects /\ d.ref = pg.ref /\ \A v : IsAxis(v) => d.popper[v.len] = pg.popper[v.len]
  BY <1>2, DraftFacts
<1>4. d.placement.side \in Placement!Sides
  BY <1>3, DataFacts
<1>5. IsAxis(a)
  BY <1>4, AxisFacts
<1>6. d.popper[a.first] \in Int /\ Client(d.popper)[a.last] = d.popper[a.first] + d.popper[a.len]
  BY <1>3, <1>5, AxisTypes
<1>7. d.popper[a.last] = d.popper[a.first] + pg.popper[a.len]
  BY <1>1, <1>3, <1>5, <1>6, Zenon
<1> QED
  BY <1>2, <1>3, <1>4, <1>5, <1>6, <1>7, Zenon DEF Settled

\* What is known of a state.
PlaceNow == PlaceState(placePage, options, data, placeStyle)

\* Every conjunct of ModifiersAgree follows from it.
LEMMA PlaceTyped == PlaceNow => Placement!TypeOK
<1> SUFFICES ASSUME PlaceNow PROVE Placement!TypeOK
  OBVIOUS
<1>1. PICK a : a = Placement!Along(data.placement.side)
  OBVIOUS
<1>2. data \in Drafts(placePage) /\ data \in Datas /\ data.ref = placePage.ref
  BY <1>1, PlaceSettled DEF PlaceNow
<1>3. data.popper = Client(data.popper)
  BY PlaceFacts DEF PlaceNow
<1>4. data.placement \in {Placement!validPlacements[k] : k \in 1..12}
  BY <1>2, DataFacts, ValidPlacements
<1>5. data.popper.width = placePage.popper.width /\ data.popper.height = placePage.popper.height
  BY <1>2 DEF Drafts
<1>6. data.hide \in {"", "in", "out"}
  BY <1>2, DataFacts DEF HideMarks
<1> QED
  BY <1>2, <1>3, <1>4, <1>5, <1>6, Zenon DEF Placement!TypeOK, Placement!P, Client

LEMMA PlaceTouches == PlaceNow => Placement!NoGap
<1> SUFFICES ASSUME PlaceNow, "keepTogether" \in options.enabled, "arrow" \notin options.enabled,
                    NEW a, a = Placement!Along(data.placement.side)
             PROVE  /\ data.popper[a.last] >= Placement!Floor(placePage.ref[a.first])
                    /\ data.popper[a.first] <= placePage.ref[a.last]
  BY Zenon DEF Placement!NoGap, Placement!Enabled, Placement!P, Placement!R, Placement!S
<1>1. /\ data.popper[a.last] = data.popper[a.first] + placePage.popper[a.len]
      /\ Touches(a, data.popper[a.first], placePage, options)
  BY PlaceSettled DEF PlaceNow
<1> QED
  BY <1>1 DEF Touches

LEMMA PlacePoints == PlaceNow => Placement!ArrowBetween
<1>1. PICK a : a = Placement!Along(data.placement.side)
  OBVIOUS
<1> SUFFICES ASSUME PlaceNow, "arrow" \in options.enabled, "keepTogether" \in options.enabled,
                    Placement!ArrowFits(a)
             PROVE  /\ data.arrow.side = a.first
                    /\ data.arrow.value >= 0
                    /\ data.arrow.value <= data.popper[a.len] - placePage.arrow[a.len]
                    /\ options.inset = 0 =>
                         /\ data.popper[a.first] + options.inset + data.arrow.value >= placePage.ref[a.first] - 1
                         /\ data.popper[a.first] + options.inset + data.arrow.value + placePage.arrow[a.len]
                              <= placePage.ref[a.last] + 1
  BY <1>1, Zenon DEF Placement!ArrowBetween, Placement!Enabled, Placement!P, Placement!R, Placement!S
<1>2. /\ data.popper[a.len] = placePage.popper[a.len]
      /\ Points(a, data.popper[a.first], data.arrow, placePage, options)
  BY <1>1, PlaceSettled DEF PlaceNow
<1>3. placePage.arrow[a.len] <= placePage.popper[a.len] /\ placePage.arrow[a.len] <= placePage.ref[a.len]
  BY <1>2 DEF Placement!ArrowFits, Placement!P, Placement!R
<1> QED
  BY <1>2, <1>3, Zenon DEF Points

LEMMA PlaceInside == PlaceNow => Placement!StaysInside
<1>1. PICK a : a = Placement!Along(data.placement.side)
  OBVIOUS
<1>2. PICK b : b = Placement!getBoundaries(placePage.scrollParent, options.padding)
  OBVIOUS
<1> SUFFICES ASSUME PlaceNow, "preventOverflow" \in options.enabled, ~options.escapeWithReference,
                    {a.first, a.last} \subseteq Placement!ToSet(options.priority),
                    "arrow" \in options.enabled => Placement!ArrowFits(a),
                    placePage.ref[a.first] < placePage.ref[a.last],
                    data.popper[a.len] <= b[a.last] - b[a.first],
                    placePage.ref[a.first] >= b[a.first], placePage.ref[a.last] <= b[a.last]
             PROVE  data.popper[a.first] >= b[a.first] /\ data.popper[a.last] <= b[a.last]
  BY <1>1, <1>2, Zenon DEF Placement!StaysInside, Placement!Enabled, Placement!P, Placement!R, Placement!S
<1>3. /\ data.popper[a.len] = placePage.popper[a.len]
      /\ data.popper[a.last] = data.popper[a.first] + placePage.popper[a.len]
      /\ Inside(a, data.popper[a.first], placePage, options)
  BY <1>1, PlaceSettled DEF PlaceNow
<1>4. "arrow" \in options.enabled =>
        placePage.arrow[a.len] <= placePage.popper[a.len] /\ placePage.arrow[a.len] <= placePage.ref[a.len]
  BY <1>3 DEF Placement!ArrowFits, Placement!P, Placement!R
<1>5. placePage.popper[a.len] <= b[a.last] - b[a.first]
  BY <1>3
<1>6. data.popper[a.first] >= b[a.first] /\ data.popper[a.first] + placePage.popper[a.len] <= b[a.last]
  BY <1>2, <1>3, <1>4, <1>5, Zenon DEF Inside, Bounds
<1> QED
  BY <1>3, <1>6

LEMMA PlaceHides == PlaceNow => Placement!HiddenWhenOut
<1>1. PICK b : b = Bounds(placePage, options)
  OBVIOUS
<1>2. PICK r : r = placePage.ref
  OBVIOUS
<1> SUFFICES ASSUME PlaceNow, "hide" \in options.enabled, "preventOverflow" \in options.enabled
             PROVE  (data.hide = "out") <=>
                       \/ r["right"] < b["left"] \/ r["left"] > b["right"]
                       \/ r["bottom"] < b["top"] \/ r["top"] > b["bottom"]
  <2>1. Placement!Along("top").first = "left" /\ Placement!Along("top").last = "right"
    BY DEF Placement!Along, Placement!isHoriz
  <2>2. Placement!Along("left").first = "top" /\ Placement!Along("left").last = "bottom"
    BY DEF Placement!Along, Placement!isHoriz
  <2> QED
    BY <1>1, <1>2, <2>1, <2>2, Zenon DEF Placement!HiddenWhenOut, Placement!Enabled, Placement!R, Bounds
<1>3. data.hide = Mark(OutOf(r, b))
  BY <1>1, <1>2, PlaceFacts DEF PlaceNow
<1>4. "out" # "in"
  OBVIOUS
<1> QED
  BY <1>3, <1>4, Zenon DEF Mark, OutOf

\* Placement's names for what was said of a page and its options.
LEMMA PlaceWords ==
    /\ \A side : Placement!Room(side) <=> HasRoom(placePage, options, side)
    /\ \A w : Placement!OneBoundary /\ Placement!Holds(w) => Agreed(placePage, options, w)
    /\ \A side : Placement!FitsBeside(side) <=> FitsAt(placePage, options, side)
<1>1. ASSUME NEW side PROVE Placement!Room(side) <=> HasRoom(placePage, options, side)
  BY Zenon DEF Placement!Room, HasRoom, Placement!R, FlipBounds
<1>2. ASSUME NEW w, Placement!OneBoundary, Placement!Holds(w) PROVE Agreed(placePage, options, w)
  BY <1>2, Zenon DEF Placement!OneBoundary, Placement!Holds, Agreed, FlipBounds, Placement!Whole
<1>3. ASSUME NEW side PROVE Placement!FitsBeside(side) <=> FitsAt(placePage, options, side)
  BY Zenon DEF Placement!FitsBeside, FitsAt, Placement!R, FlipBounds
<1> QED
  BY <1>1, <1>2, <1>3, Zenon

LEMMA PlaceFlips == PlaceNow => Placement!FlipsForRoom
<1>1. PICK t : t = data.originalPlacement
  OBVIOUS
<1> SUFFICES ASSUME PlaceNow, options.behavior.kind = "flip", "flip" \in options.enabled,
                    "inner" \notin options.enabled,
                    Placement!OneBoundary, Placement!Holds(Placement!Away(t.side))
             PROVE  data.placement.side = IF Placement!Room(t.side) THEN t.side
                                          ELSE Placement!Opposite[t.side]
  BY <1>1, Zenon DEF Placement!FlipsForRoom, Placement!Enabled, Placement!S
<1>2. FlippedForRoom(data, t, placePage, options)
  BY <1>1, PlaceFacts DEF PlaceNow
<1>3. Agreed(placePage, options, Placement!Away(t.side))
  BY PlaceWords
<1>4. Placement!Room(t.side) <=> HasRoom(placePage, options, t.side)
  BY PlaceWords
<1> QED
  BY <1>2, <1>3, <1>4, Zenon DEF FlippedForRoom

LEMMA PlaceFindsRoom == PlaceNow => Placement!AutoFindsRoom
<1> SUFFICES ASSUME PlaceNow, Placement!AutoSeesAll, options.placement.side = "auto", "inner" \notin options.enabled,
                    Placement!OneBoundary, Placement!Holds(Placement!Along("top")),
                    Placement!Holds(Placement!Along("left")),
                    \E side \in Placement!Sides : Placement!FitsBeside(side)
             PROVE  Placement!Room(data.placement.side)
  BY Zenon DEF Placement!AutoFindsRoom, Placement!Enabled, Placement!S
<1>1. PICK t \in Turns : t = data.originalPlacement
  BY PlaceFacts DEF PlaceNow
<1>2. StaysWithRoom(data, t, placePage, options) /\ FindsRoom(t, placePage, options)
  BY <1>1, PlaceFacts DEF PlaceNow
<1>3. /\ Agreed(placePage, options, Placement!Along("top"))
      /\ Agreed(placePage, options, Placement!Along("left"))
  BY PlaceWords
<1>4. \E side \in Placement!Sides : FitsAt(placePage, options, side)
  BY PlaceWords
<1>5. HasRoom(placePage, options, t.side)
  BY <1>2, <1>3, <1>4, Zenon DEF FindsRoom, SeesAll, Placement!AutoSeesAll
<1>6. Placement!Away(t.side) = Placement!Along("top") \/ Placement!Away(t.side) = Placement!Along("left")
  BY Zenon DEF Placement!Away
<1>7. Agreed(placePage, options, Placement!Away(t.side))
  BY <1>3, <1>6, Zenon
<1>8. data.placement.side = t.side
  BY <1>2, <1>5, <1>7, Zenon DEF StaysWithRoom
<1> QED
  BY <1>5, <1>8, PlaceWords

\* Along its edge the popper is never apart from the reference, and the arrow
\* points at it; it is on the side that has room; if it fits, it is inside of
\* the boundaries; it is marked exactly when its reference is out of sight.
THEOREM PlacementAgrees == Placement!Spec => []ModifiersAgree
<1>1. Placement!Init => PlaceNow
  BY PlaceInit DEF PlaceNow
<1>2. PlaceNow /\ [Placement!Next]_(Placement!vars) => PlaceNow'
  BY PlaceStep DEF PlaceNow
<1>3. PlaceNow => ModifiersAgree
  BY PlaceTyped, PlaceTouches, PlacePoints, PlaceInside, PlaceHides, PlaceFlips, PlaceFindsRoom
     DEF ModifiersAgree
<1> QED
  BY <1>1, <1>2, <1>3, PTL DEF Placement!Spec

-----------------------------------------------------------------------------
(* The style that is written, and where the browser paints it.             *)

\* Between x - m and x + 1: a rounded place.
Near(y, x, m) == y \in Int /\ x - m <= y /\ y <= x + 1

\* Rounding goes to a number near by.
LEMMA RoundsNear ==
    \A x \in Int : /\ Near(Placement!Round(x), x, 0) /\ Near(Placement!Floor(x), x, 1)
                   /\ Near(Placement!Round(x - 2), x, 2) /\ Near(Placement!Floor(x - 2), x, 3)
                   /\ Near(x, x, 0)
BY DEF Near, Placement!Round, Placement!Floor

LEMMA NearLess ==
    ASSUME NEW x \in Int, NEW y, NEW m \in 0..3, NEW n \in 0..3, Near(y, x, m), m <= n
    PROVE  Near(y, x, n)
BY DEF Near

\* Rounded: within a pixel and a half to the left, half a pixel otherwise.
LEMMA RoundedNear ==
    ASSUME NEW d \in Datas, NEW o, NEW r, r = Placement!getRoundedOffsets(d, o)
    PROVE  /\ Near(r.left, d.popper.left, 3) /\ Near(r.right, d.popper.right, 1)
           /\ Near(r.top, d.popper.top, 1) /\ Near(r.bottom, d.popper.bottom, 1)
<1>1. d.popper.left \in Int /\ d.popper.right \in Int /\ d.popper.top \in Int /\ d.popper.bottom \in Int
  BY DataFacts DEF RawRects
<1>2. CASE ~o.round
  <2>1. r = d.popper
    BY <1>2, Zenon DEF Placement!getRoundedOffsets
  <2>2. /\ Near(r.left, d.popper.left, 0) /\ Near(r.right, d.popper.right, 0)
        /\ Near(r.top, d.popper.top, 0) /\ Near(r.bottom, d.popper.bottom, 0)
    BY <1>1, <2>1, RoundsNear
  <2> QED
    BY <1>1, <2>2, NearLess
<1>3. CASE o.round
  <2>1. PICK x, y :
            /\ x \in {Placement!Round(d.popper.left), Placement!Floor(d.popper.left),
                      Placement!Round(d.popper.left - 2), Placement!Floor(d.popper.left - 2)}
            /\ y \in {Placement!Round(d.popper.right), Placement!Floor(d.popper.right)}
            /\ r = [left |-> x, right |-> y,
                    top |-> Placement!Round(d.popper.top), bottom |-> Placement!Round(d.popper.bottom)]
    <3> DEFINE odd(s) == (Placement!Round(s.width) \div 2) % 2 = 1
               variation == d.placement.variation # ""
               bothOdd == odd(d.ref) /\ odd(d.popper)
               across(x) == IF \/ Placement!isHoriz(d.placement.side) \/ variation \/ odd(d.ref) = odd(d.popper)
                            THEN Placement!Round(x) ELSE Placement!Floor(x)
               left == across(IF bothOdd /\ ~variation THEN d.popper.left - 2 ELSE d.popper.left)
    <3>1. r = [left |-> left, right |-> across(d.popper.right),
               top |-> Placement!Round(d.popper.top), bottom |-> Placement!Round(d.popper.bottom)]
      BY <1>3, Zenon DEF Placement!getRoundedOffsets
    <3> HIDE DEF bothOdd, variation, odd
    <3>2. left \in {Placement!Round(d.popper.left), Placement!Floor(d.popper.left),
                    Placement!Round(d.popper.left - 2), Placement!Floor(d.popper.left - 2)}
      BY Zenon
    <3>3. across(d.popper.right) \in {Placement!Round(d.popper.right), Placement!Floor(d.popper.right)}
      BY Zenon
    <3> HIDE DEF left, across
    <3>4. PICK x : x = left
      OBVIOUS
    <3>5. PICK y : y = across(d.popper.right)
      OBVIOUS
    <3>6. r = [left |-> x, right |-> y,
               top |-> Placement!Round(d.popper.top), bottom |-> Placement!Round(d.popper.bottom)]
      BY <3>1, <3>4, <3>5, Zenon
    <3> QED
      BY <3>2, <3>3, <3>4, <3>5, <3>6
  <2>2. /\ r.left = x /\ r.right = y
        /\ r.top = Placement!Round(d.popper.top) /\ r.bottom = Placement!Round(d.popper.bottom)
    BY <2>1
  <2>3. Near(x, d.popper.left, 3)
    BY <1>1, <2>1, RoundsNear, NearLess
  <2>4. Near(y, d.popper.right, 1)
    BY <1>1, <2>1, RoundsNear, NearLess
  <2>5. Near(r.top, d.popper.top, 1) /\ Near(r.bottom, d.popper.bottom, 1)
    BY <1>1, <2>2, RoundsNear, NearLess
  <2> QED
    BY <2>2, <2>3, <2>4, <2>5
<1> QED
  BY <1>2, <1>3

\* Where a browser puts an edge.
Edge(side, size, whole, at, move) ==
    IF side \in {"left", "top"} THEN at + move ELSE whole - at + move - size

\* What computeStyle writes is painted near the place it was given, where the
\* borders of the offset parent do not count.
LEMMA PlacePainted == PlaceNow => PaintedInPlace
<1> SUFFICES ASSUME PlaceNow PROVE PaintedInPlace
  OBVIOUS
<1>0. Placement!IsLayout(placePage) /\ Placement!IsOptions(options)
      /\ placeStyle = Placement!computeStyle(data, placePage, options)
  BY Zenon DEF PlaceNow, PlaceState
<1>1. data \in Datas /\ data.popper \in RawRects /\ data.popper = Client(data.popper)
  <2>1. data \in Placed(placePage, options) /\ data.popper = Client(data.popper)
    BY PlaceFacts DEF PlaceNow
  <2> QED
    BY <2>1, DraftFacts DEF Placed
<1>2. PICK r : r = Placement!getRoundedOffsets(data, options)
  OBVIOUS
<1>3. /\ Near(r.left, data.popper.left, 3) /\ Near(r.right, data.popper.right, 1)
      /\ Near(r.top, data.popper.top, 1) /\ Near(r.bottom, data.popper.bottom, 1)
  BY <1>1, <1>2, RoundedNear
<1>4. /\ r.left \in Int /\ r.right \in Int /\ r.top \in Int /\ r.bottom \in Int
  BY <1>3 DEF Near
<1>5. PICK wide \in Nat, high \in Nat, thick \in Nat, deep \in Nat :
         /\ wide = placePage.offsetParent.width /\ high = placePage.offsetParent.height
         /\ thick = placePage.borders.width /\ deep = placePage.borders.height
  BY <1>0, PageFacts
<1>6. /\ data.popper.left \in Int /\ data.popper.top \in Int
      /\ data.popper.width \in Int /\ data.popper.height \in Int
      /\ data.popper.right = data.popper.left + data.popper.width
      /\ data.popper.bottom = data.popper.top + data.popper.height
  <2>1. Client(data.popper).right = data.popper.left + data.popper.width
        /\ Client(data.popper).bottom = data.popper.top + data.popper.height
    BY <1>1, ClientFacts
  <2>2. data.popper.left \in Int /\ data.popper.top \in Int
        /\ data.popper.width \in Int /\ data.popper.height \in Int
    BY <1>1 DEF RawRects
  <2> QED
    BY <1>1, <2>1, <2>2
<1>7. PICK sideA, sideB : sideA = (IF options.x = "bottom" THEN "top" ELSE "bottom")
                          /\ sideB = (IF options.y = "right" THEN "left" ELSE "right")
  OBVIOUS
<1>8. (sideA = "top" \/ sideA = "bottom") /\ (sideB = "left" \/ sideB = "right")
  BY <1>7
<1>9. PICK down \in Int : down = IF sideA = "bottom" THEN r.bottom - (high + deep) ELSE r.top
  BY <1>4
<1>10. PICK across \in Int : across = IF sideB = "right" THEN r.right - (wide + thick) ELSE r.left
  BY <1>4
<1>11. PICK a, b, right, low :
           /\ placeStyle = [sideA |-> sideA, sideB |-> sideB, a |-> a, b |-> b, translate |-> <<right, low>>]
           /\ \/ a = 0 /\ b = 0 /\ right = across /\ low = down
              \/ /\ a = (IF sideA = "bottom" THEN -down ELSE down) /\ low = 0
                 /\ b = (IF sideB = "right" THEN -across ELSE across) /\ right = 0
  BY <1>0, <1>2, <1>5, <1>7, <1>9, <1>10, Zenon DEF Placement!computeStyle
<1>12. /\ placeStyle.sideA = sideA /\ placeStyle.sideB = sideB /\ placeStyle.a = a /\ placeStyle.b = b
       /\ placeStyle.translate[1] = right /\ placeStyle.translate[2] = low
  BY <1>11
<1>13. Placement!Painted = [left |-> Edge(sideB, data.popper.width, wide, b, right),
                            top |-> Edge(sideA, data.popper.height, high, a, low)]
  BY <1>5, <1>12, Zenon DEF Placement!Painted, Placement!P, Edge
<1>14. Placement!Painted.left = Edge(sideB, data.popper.width, wide, b, right)
       /\ Placement!Painted.top = Edge(sideA, data.popper.height, high, a, low)
  BY <1>13
<1>15. sideB = "left" \/ thick = 0 =>
          Edge(sideB, data.popper.width, wide, b, right) \in {r.left, r.right - data.popper.width}
  BY <1>4, <1>6, <1>8, <1>10, <1>11 DEF Edge
<1>16. sideA = "top" \/ deep = 0 =>
          Edge(sideA, data.popper.height, high, a, low) \in {r.top, r.bottom - data.popper.height}
  BY <1>4, <1>6, <1>8, <1>9, <1>11 DEF Edge
<1>17. sideB = "left" \/ thick = 0 =>
          Near(Edge(sideB, data.popper.width, wide, b, right), data.popper.left, 3)
  BY <1>3, <1>6, <1>15 DEF Near
<1>18. sideA = "top" \/ deep = 0 =>
          Near(Edge(sideA, data.popper.height, high, a, low), data.popper.top, 1)
  BY <1>3, <1>6, <1>16 DEF Near
<1> QED
  BY <1>5, <1>12, <1>14, <1>17, <1>18 DEF Near, PaintedInPlace, Placement!PaintedInPlace, Placement!P

\* The style puts the popper where the modifiers want it, unless it counts from
\* the right or the bottom edge of an offset parent with borders.
THEOREM PlacementPainted == Placement!Spec => []PaintedInPlace
<1>1. Placement!Init => PlaceNow
  BY PlaceInit DEF PlaceNow
<1>2. PlaceNow /\ [Placement!Next]_(Placement!vars) => PlaceNow'
  BY PlaceStep DEF PlaceNow
<1> QED
  BY <1>1, <1>2, PlacePainted, PTL DEF Placement!Spec
=============================================================================
