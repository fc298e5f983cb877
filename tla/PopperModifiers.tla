-------------------------- MODULE PopperModifiers --------------------------
(***************************************************************************)
(* How Popper.js (part of bootstrap.bundle.js) computes the place of a     *)
(* popper: one update runs the modifiers, in their order, over a data      *)
(* object.  No state here: update is an operator of the page and options.  *)
(*                                                                         *)
(* Lengths are integers that count half pixels; sizes are whole pixels.    *)
(* A placement is a side and a variation ("", "start", "end").  A rect has *)
(* right and bottom next to left, top, width and height, as in the code,   *)
(* where they go stale when a modifier moves left or top.                  *)
(*                                                                         *)
(* A page has the rects ref, of the reference, scrollParent and viewport,  *)
(* all relative to the offset parent, and autoViewport, the viewport as    *)
(* computeAutoPlacement sees it: it never asks for a fixed position.  It   *)
(* has the sizes popper (with margins), client (the popper without margins *)
(* and borders), arrow, offsetParent (its padding box, what left, top,     *)
(* right and bottom count from) and borders, what the size of the offset   *)
(* parent that computeStyle takes has more than that: both its borders, or *)
(* nothing for html.                                                       *)
(***************************************************************************)
EXTENDS Integers, Sequences, SequencesExt

Sides == {"top", "right", "bottom", "left"}

Rect(left, top, width, height) ==
    [left |-> left, top |-> top, width |-> width, height |-> height,
     right |-> left + width, bottom |-> top + height]

getClientRect(r) == Rect(r.left, r.top, r.width, r.height)

AtLeast(a, b) == IF a < b THEN b ELSE a

AtMost(a, b) == IF a > b THEN b ELSE a

\* Math.floor and Math.round of half pixels, in half pixels.
Floor(x) == 2 * (x \div 2)

Round(x) == Floor(x + 1)

Opposite == [left |-> "right", right |-> "left", bottom |-> "top", top |-> "bottom"]

getOppositePlacement(p) == [p EXCEPT !.side = Opposite[@]]

getOppositeVariation(v) == CASE v = "end" -> "start" [] v = "start" -> "end" [] OTHER -> v

isHoriz(side) == side \in {"left", "right"}

\* The axis along the reference's edge: first edge, last edge and length.
Along(side) ==
    IF isHoriz(side) THEN [first |-> "top", last |-> "bottom", len |-> "height"]
    ELSE [first |-> "left", last |-> "right", len |-> "width"]

\* The axis away from the reference.
Away(side) == Along(IF isHoriz(side) THEN "top" ELSE "left")

\* Mutant of getPopperOffsets: beside the reference width and height are swapped.
getPopperOffsetsTurned(size, ref, side) ==
    LET main == Along(side) second == Away(side)
        at == [left |-> 0, top |-> 0,
               width |-> size[second.len], height |-> size[main.len]]
    IN  getClientRect([at EXCEPT
            ![main.first] = ref[main.first] + ref[main.len] \div 2 - size[main.len] \div 2,
            ![second.first] = IF side = second.first THEN ref[side] - size[second.len]
                              ELSE ref[second.last]])

\* The popper next to the reference, at its side, centered on it.
getPopperOffsets(size, ref, side) ==
    LET main == Along(side) second == Away(side)
        at == [left |-> 0, top |-> 0, width |-> size.width, height |-> size.height]
    IN  getClientRect([at EXCEPT
            ![main.first] = ref[main.first] + ref[main.len] \div 2 - size[main.len] \div 2,
            ![second.first] = IF side = second.first THEN ref[side] - size[second.len]
                              ELSE ref[second.last]])

\* The boundaries, made smaller by the padding; width and height stay.
getBoundaries(r, padding) ==
    [r EXCEPT !.left = @ + padding, !.top = @ + padding,
              !.right = @ - padding, !.bottom = @ - padding]
-----------------------------------------------------------------------------
\* Mutant of computeAutoPlacement: the largest side, whether the popper fits or not.
computeAutoPlacementLargest(page, o) ==
    LET b == getBoundaries(page.autoViewport, o.flipPadding)
        room == [top    |-> b.width * (page.ref.top - b.top),
                 right  |-> (b.right - page.ref.right) * b.height,
                 bottom |-> b.width * (b.bottom - page.ref.bottom),
                 left   |-> (page.ref.left - b.left) * b.height]
    IN  IF o.placement.side # "auto" THEN o.placement
        ELSE [o.placement EXCEPT
                 !.side = CHOOSE s \in Sides : \A u \in Sides : room[u] <= room[s]]

\* The side with the largest area of those where the popper, without margins and
\* borders, fits, if there is one, of all otherwise; the first one in a tie.
computeAutoPlacement(page, o) ==
    LET b == getBoundaries(page.autoViewport, o.flipPadding)
        rects == [top    |-> [width |-> b.width, height |-> page.ref.top - b.top],
                  right  |-> [width |-> b.right - page.ref.right, height |-> b.height],
                  bottom |-> [width |-> b.width, height |-> b.bottom - page.ref.bottom],
                  left   |-> [width |-> page.ref.left - b.left, height |-> b.height]]
        keys == <<"top", "right", "bottom", "left">>
        area(k) == rects[keys[k]].width * rects[keys[k]].height
        filtered == {k \in 1..4 : /\ rects[keys[k]].width >= page.client.width
                                  /\ rects[keys[k]].height >= page.client.height}
        from == IF filtered # {} THEN filtered ELSE 1..4
        best == CHOOSE k \in from : \A i \in from : area(i) < area(k) \/ (area(i) = area(k) /\ k <= i)
    IN  IF o.placement.side # "auto" THEN o.placement
        ELSE [o.placement EXCEPT !.side = keys[best]]
-----------------------------------------------------------------------------
(* The modifiers: of the data d, the page and the options o.               *)

\* The popper starts, or ends, where the reference does.
shift(d, page, o) ==
    LET a == Along(d.placement.side)
    IN  CASE d.placement.variation = "" -> d
          [] d.placement.variation = "start" -> [d EXCEPT !.popper[a.first] = d.ref[a.first]]
          [] d.placement.variation = "end" ->
                [d EXCEPT !.popper[a.first] = d.ref[a.first] + d.ref[a.len] - d.popper[a.len]]

\* By o.offset along the reference and away from it.
offset(d, page, o) ==
    LET side == d.placement.side
    IN  [d EXCEPT !.popper[Along(side).first] = @ + o.offset[1],
                  !.popper[Away(side).first] =
                      IF side \in {"left", "top"} THEN @ - o.offset[2] ELSE @ + o.offset[2]]

\* Mutant of preventOverflow: the length of the popper is forgotten.
preventOverflowEdge(d, page, o) ==
    LET b == getBoundaries(page.scrollParent, o.padding)
        primary(p, side) == IF p[side] < b[side] /\ ~o.escapeWithReference
                            THEN [p EXCEPT ![side] = AtLeast(p[side], b[side])] ELSE p
        secondary(p, side) ==
            LET main == IF side = "right" THEN "left" ELSE "top"
            IN  IF p[side] > b[side] /\ ~o.escapeWithReference
                THEN [p EXCEPT ![main] = AtMost(p[main], b[side])] ELSE p
        checked[k \in 0..Len(o.priority)] ==
            IF k = 0 THEN d.popper
            ELSE LET side == o.priority[k]
                 IN  IF side \in {"left", "top"} THEN primary(checked[k - 1], side)
                     ELSE secondary(checked[k - 1], side)
    IN  [d EXCEPT !.popper = checked[Len(o.priority)], !.boundaries = b]

\* Back into the boundaries, edge by edge.  right and bottom of the popper
\* are those from before: an edge that was moved is not looked at again.
preventOverflow(d, page, o) ==
    LET b == getBoundaries(page.scrollParent, o.padding)
        primary(p, side) == IF p[side] < b[side] /\ ~o.escapeWithReference
                            THEN [p EXCEPT ![side] = AtLeast(p[side], b[side])] ELSE p
        secondary(p, side) ==
            LET main == IF side = "right" THEN "left" ELSE "top"
                len == IF side = "right" THEN "width" ELSE "height"
            IN  IF p[side] > b[side] /\ ~o.escapeWithReference
                THEN [p EXCEPT ![main] = AtMost(p[main], b[side] - p[len])] ELSE p
        checked[k \in 0..Len(o.priority)] ==
            IF k = 0 THEN d.popper
            ELSE LET side == o.priority[k]
                 IN  IF side \in {"left", "top"} THEN primary(checked[k - 1], side)
                     ELSE secondary(checked[k - 1], side)
    IN  [d EXCEPT !.popper = checked[Len(o.priority)], !.boundaries = b]

\* Mutant of keepTogether: only a popper before the reference is pulled back.
keepTogetherBefore(d, page, o) ==
    LET a == Along(d.placement.side)
        before == d.popper[a.last] < Floor(d.ref[a.first])
    IN  IF before THEN [d EXCEPT !.popper[a.first] = Floor(d.ref[a.first]) - d.popper[a.len]]
        ELSE d

\* Along the reference's edge the popper does not lose touch with it.
keepTogether(d, page, o) ==
    LET a == Along(d.placement.side)
        near == IF d.popper[a.last] < Floor(d.ref[a.first])
                THEN [d EXCEPT !.popper[a.first] = Floor(d.ref[a.first]) - d.popper[a.len]]
                ELSE d
    IN  IF near.popper[a.first] > Floor(d.ref[a.last])
        THEN [near EXCEPT !.popper[a.first] = Floor(d.ref[a.last])]
        ELSE near

\* Mutant of arrow: the arrow is not kept inside the popper.
arrowLoose(d, page, o) ==
    LET a == Along(d.placement.side)
        size == page.arrow[a.len]
        center == d.ref[a.first] + d.ref[a.len] \div 2 - size \div 2
    IN  IF "keepTogether" \notin o.enabled THEN d
        ELSE [d EXCEPT !.arrow = [side |-> a.first,
                                  value |-> Round(center - d.popper[a.first] - o.inset)]]

\* The arrow points at the center of the reference, or as near as it can while
\* it stays inside the popper; popper and reference share the arrow's size.
arrow(d, page, o) ==
    LET a == Along(d.placement.side)
        size == page.arrow[a.len]
        near == IF d.ref[a.last] - size < d.popper[a.first]
                THEN [d EXCEPT !.popper[a.first] = d.ref[a.last] - size]
                ELSE d
        far == IF d.ref[a.first] + size > near.popper[a.last]
               THEN [near EXCEPT !.popper[a.first] =
                        @ + d.ref[a.first] + size - near.popper[a.last]]
               ELSE near
        center == d.ref[a.first] + d.ref[a.len] \div 2 - size \div 2
        sideValue == center - far.popper[a.first] - o.inset
    IN  IF "keepTogether" \notin o.enabled THEN d
        ELSE [far EXCEPT !.popper = getClientRect(@),
                         !.arrow = [side |-> a.first,
                                    value |-> Round(AtLeast(AtMost(d.popper[a.len] - size, sideValue), 0))]]

\* Mutant of hide: the reference is out when it is not wholly inside.
hidePartly(d, page, o) ==
    IF "preventOverflow" \notin o.enabled THEN d
    ELSE [d EXCEPT !.hide = IF \/ d.ref.top < d.boundaries.top \/ d.ref.right > d.boundaries.right
                               \/ d.ref.bottom > d.boundaries.bottom
                               \/ d.ref.left < d.boundaries.left
                            THEN "out" ELSE "in"]

\* Is the reference out of the boundaries that preventOverflow has used?
hide(d, page, o) ==
    IF "preventOverflow" \notin o.enabled THEN d
    ELSE [d EXCEPT !.hide = IF \/ d.ref.bottom < d.boundaries.top
                               \/ d.ref.left > d.boundaries.right
                               \/ d.ref.top > d.boundaries.bottom
                               \/ d.ref.right < d.boundaries.left
                            THEN "out" ELSE "in"]

\* The popper covers the reference from its side inwards.
inner(d, page, o) ==
    LET side == d.placement.side away == Away(side)
    IN  [d EXCEPT !.popper = getClientRect([@ EXCEPT ![away.first] =
                      d.ref[side] - IF side \in {"top", "left"} THEN 0 ELSE d.popper[away.len]]),
                  !.placement = getOppositePlacement(@)]
-----------------------------------------------------------------------------
(* Running them.                                                           *)

\* Sorted by order, 100 to 800; computeStyle (850) and applyStyle (900) come after these.
modifiers ==
    <<"shift", "offset", "preventOverflow", "keepTogether", "arrow", "flip", "inner", "hide">>

\* Runs those of ms that are enabled, each on complete rects.  flip is applied by update.
runModifiers(ms, data, page, o) ==
    LET apply(m, d) ==
            CASE m = "shift" -> shift(d, page, o)
              [] m = "offset" -> offset(d, page, o)
              [] m = "preventOverflow" -> preventOverflow(d, page, o)
              [] m = "keepTogether" -> keepTogether(d, page, o)
              [] m = "arrow" -> arrow(d, page, o)
              [] m = "inner" -> inner(d, page, o)
              [] m = "hide" -> hide(d, page, o)
        complete(d) == [d EXCEPT !.popper = getClientRect(@), !.ref = getClientRect(@)]
        run[k \in 0..Len(ms)] ==
            IF k = 0 THEN data
            ELSE IF ms[k] \in o.enabled THEN apply(ms[k], complete(run[k - 1]))
            ELSE run[k - 1]
    IN  run[Len(ms)]

findIndex(m) == CHOOSE k \in DOMAIN modifiers : modifiers[k] = m

Before(m) == SubSeq(modifiers, 1, findIndex(m) - 1)

After(m) == SubSeq(modifiers, findIndex(m) + 1, Len(modifiers))

validPlacements ==
    LET p(side, variation) == [side |-> side, variation |-> variation]
    IN  <<p("top", "start"), p("top", ""), p("top", "end"),
          p("right", "start"), p("right", ""), p("right", "end"),
          p("bottom", "end"), p("bottom", ""), p("bottom", "start"),
          p("left", "end"), p("left", ""), p("left", "start")>>

\* All placements but p, from the one after it on.
clockwise(p, counter) ==
    LET i == CHOOSE k \in 1..12 : validPlacements[k] = p
        arr == SubSeq(validPlacements, i + 1, 12) \o SubSeq(validPlacements, 1, i - 1)
    IN  IF counter THEN Reverse(arr) ELSE arr

Overlaps(side, p, ref) ==
    CASE side = "left" -> Floor(p.right) > Floor(ref.left)
      [] side = "right" -> Floor(p.left) < Floor(ref.right)
      [] side = "top" -> Floor(p.bottom) > Floor(ref.top)
      [] side = "bottom" -> Floor(p.top) < Floor(ref.bottom)

Overflows(side, p, b) ==
    IF side \in {"left", "top"} THEN Floor(p[side]) < Floor(b[side])
    ELSE Floor(p[side]) > Floor(b[side])

\* The placements that flip tries, in order.
FlipOrder(placement, behavior) ==
    LET base == [side |-> placement.side, variation |-> ""]
    IN  CASE behavior.kind = "flip" -> <<base, getOppositePlacement(base)>>
          [] behavior.kind = "clockwise" -> clockwise(base, FALSE)
          [] behavior.kind = "counterclockwise" -> clockwise(base, TRUE)
          [] behavior.kind = "list" -> behavior.list

\* Mutant of flip: a popper that overlaps its reference stays.
flipOverflowOnly(data, page, o) ==
    LET b == getBoundaries(page.viewport, o.flipPadding)
        steps == FlipOrder(data.placement, o.behavior)
        base == [side |-> data.placement.side, variation |-> ""]
        try[k \in 0..Len(steps)] ==
            IF k = 0 THEN [placement |-> base, d |-> data]
            ELSE LET at == try[k - 1] IN
                 IF at.placement # steps[k] \/ k = Len(steps)
                    \/ ~Overflows(at.d.placement.side, at.d.popper, b) THEN at
                 ELSE LET to == [at.d.placement EXCEPT !.side = steps[k + 1].side]
                          moved == [at.d EXCEPT !.flipped = TRUE, !.placement = to,
                                       !.popper = getPopperOffsets(page.popper, at.d.ref, to.side)]
                      IN  [placement |-> steps[k + 1],
                           d |-> runModifiers(Before("flip"), moved, page, o)]
    IN  try[Len(steps)].d

\* While the popper overlaps its reference, overflows on its side or (with
\* flipVariations) at the end it is aligned to, the next placement is tried,
\* and the modifiers before flip run again.
flip(data, page, o) ==
    LET b == getBoundaries(page.viewport, o.flipPadding)
        steps == FlipOrder(data.placement, o.behavior)
        base == [side |-> data.placement.side, variation |-> ""]
        try[k \in 0..Len(steps)] ==
            IF k = 0 THEN [placement |-> base, variation |-> data.placement.variation, d |-> data]
            ELSE LET at == try[k - 1]
                     side == at.d.placement.side
                     badSide == Overlaps(side, at.d.popper, at.d.ref) \/ Overflows(side, at.d.popper, b)
                     badEnd == /\ o.flipVariations /\ at.variation # ""
                               /\ Overflows(IF at.variation = "start" THEN Along(side).first
                                            ELSE Along(side).last, at.d.popper, b)
                     step == IF badSide THEN steps[k + 1] ELSE [side |-> side, variation |-> ""]
                     variation == IF badEnd THEN getOppositeVariation(at.variation) ELSE at.variation
                     to == IF step.variation = "" THEN [step EXCEPT !.variation = variation] ELSE step
                     moved == [at.d EXCEPT !.flipped = TRUE, !.placement = to,
                                  !.popper = getPopperOffsets(page.popper, at.d.ref, to.side)]
                 IN  IF at.placement # steps[k] \/ k = Len(steps) \/ ~(badSide \/ badEnd) THEN at
                     ELSE [placement |-> step, variation |-> variation,
                           d |-> runModifiers(Before("flip"), moved, page, o)]
        looping == data.flipped /\ data.placement = data.originalPlacement
    IN  IF "inner" \in o.enabled \/ looping THEN data ELSE try[Len(steps)].d

\* One update up to hide.
update(page, o) ==
    LET placement == computeAutoPlacement(page, o)
        data == [placement |-> placement, originalPlacement |-> placement, flipped |-> FALSE,
                 ref |-> page.ref, popper |-> getPopperOffsets(page.popper, page.ref, placement.side),
                 boundaries |-> page.scrollParent, arrow |-> [side |-> "", value |-> 0], hide |-> ""]
        before == runModifiers(Before("flip"), data, page, o)
        complete == [before EXCEPT !.popper = getClientRect(@)]
        flipped == IF "flip" \in o.enabled THEN flip(complete, page, o) ELSE before
        after == runModifiers(After("flip"), flipped, page, o)
    IN  [after EXCEPT !.popper = getClientRect(@)]
-----------------------------------------------------------------------------
(* The style that puts the popper there.                                   *)

\* Whole pixels.  A popper of odd width on a reference of odd width is moved
\* left by a pixel; one of the other parity is rounded down.
getRoundedOffsets(d, o) ==
    LET odd(r) == (Round(r.width) \div 2) % 2 = 1
        variation == d.placement.variation # ""
        bothOdd == odd(d.ref) /\ odd(d.popper)
        across(x) == IF \/ isHoriz(d.placement.side) \/ variation \/ odd(d.ref) = odd(d.popper)
                     THEN Round(x) ELSE Floor(x)
    IN  IF ~o.round THEN d.popper
        ELSE [left |-> across(IF bothOdd /\ ~variation THEN d.popper.left - 2 ELSE d.popper.left),
              right |-> across(d.popper.right),
              top |-> Round(d.popper.top), bottom |-> Round(d.popper.bottom)]

\* Mutant of computeStyle: without a transform the sign is not inverted.
computeStyleUpright(d, page, o) ==
    LET r == getRoundedOffsets(d, o)
        sideA == IF o.x = "bottom" THEN "top" ELSE "bottom"
        sideB == IF o.y = "right" THEN "left" ELSE "right"
        top == IF sideA = "bottom" THEN r.bottom - (page.offsetParent.height + page.borders.height)
               ELSE r.top
        left == IF sideB = "right" THEN r.right - (page.offsetParent.width + page.borders.width)
                ELSE r.left
    IN  IF o.gpuAcceleration
        THEN [sideA |-> sideA, sideB |-> sideB, a |-> 0, b |-> 0, translate |-> <<left, top>>]
        ELSE [sideA |-> sideA, sideB |-> sideB, a |-> top, b |-> left, translate |-> <<0, 0>>]

\* A transform, or a distance from an edge of the offset parent.
computeStyle(d, page, o) ==
    LET r == getRoundedOffsets(d, o)
        sideA == IF o.x = "bottom" THEN "top" ELSE "bottom"
        sideB == IF o.y = "right" THEN "left" ELSE "right"
        top == IF sideA = "bottom" THEN r.bottom - (page.offsetParent.height + page.borders.height)
               ELSE r.top
        left == IF sideB = "right" THEN r.right - (page.offsetParent.width + page.borders.width)
                ELSE r.left
    IN  IF o.gpuAcceleration
        THEN [sideA |-> sideA, sideB |-> sideB, a |-> 0, b |-> 0, translate |-> <<left, top>>]
        ELSE [sideA |-> sideA, sideB |-> sideB,
              a |-> IF sideA = "bottom" THEN -top ELSE top,
              b |-> IF sideB = "right" THEN -left ELSE left, translate |-> <<0, 0>>]
=============================================================================
