----------------------------- MODULE Placement -----------------------------
(***************************************************************************)
(* A popper of bootstrap.bundle.js follows its reference: the reference    *)
(* moves over the page, and every move ends with an update.  (When updates *)
(* run is the subject of module Popper.)                                   *)
(***************************************************************************)
EXTENDS PopperModifiers

CONSTANTS
    Lefts, Tops,      \* where the reference may be
    Layouts,          \* pages without the place of the reference
    Options,          \* options of poppers
    Step              \* how far the reference moves at once

Whole(x) == x % 2 = 0

Sizes == {s \in [width : Nat, height : Nat] : Whole(s.width) /\ Whole(s.height)}

Rects == {r \in [left : Int, top : Int, width : Nat, height : Nat, right : Int, bottom : Int] :
             r = getClientRect(r)}

Variations == {"", "start", "end"}

IsLayout(l) ==
    /\ l \in [ref : Rects, popper : Sizes, client : Sizes, arrow : Sizes,
             scrollParent : Rects, viewport : Rects, autoViewport : Rects,
             offsetParent : Sizes, borders : Sizes]
    /\ Whole(l.ref.width) /\ Whole(l.ref.height)

IsOptions(o) ==
    /\ o \in [placement : [side : Sides \cup {"auto"}, variation : Variations],
             offset : Int \X Int,
             behavior : [kind : {"flip", "clockwise", "counterclockwise", "list"},
                         list : Seq([side : Sides, variation : Variations])],
             padding : Nat, flipPadding : Nat, flipVariations : BOOLEAN,
             priority : Seq(Sides), escapeWithReference : BOOLEAN, inset : Int,
             enabled : SUBSET {modifiers[k] : k \in 1..8}, round : BOOLEAN,
             x : {"top", "bottom"}, y : {"left", "right"}, gpuAcceleration : BOOLEAN]

\* What is assumed of the constants.
ConstantsAssumption ==
    /\ Lefts \subseteq Int /\ Tops \subseteq Int /\ Step \in Int
    /\ \A layout \in Layouts : IsLayout(layout)
    /\ \A o \in Options : IsOptions(o)

VARIABLES
    page,
    options,
    data,             \* the data object after the modifiers
    style             \* the style that computeStyle has added

vars == <<page, options, data, style>>

At(layout, left, top) == [layout EXCEPT !.ref = Rect(left, top, @.width, @.height)]

Init ==
    /\ page \in {At(layout, left, top) : layout \in Layouts, left \in Lefts, top \in Tops}
    /\ options \in Options
    /\ data = update(page, options)
    /\ style = computeStyle(data, page, options)

\* The page scrolls, the popper is updated.
Scroll(dx, dy) ==
    /\ page.ref.left + dx \in Lefts /\ page.ref.top + dy \in Tops
    /\ page' = At(page, page.ref.left + dx, page.ref.top + dy)
    /\ data' = update(page', options)
    /\ style' = computeStyle(data', page', options)
    /\ UNCHANGED options

Next == \E d \in {-Step, Step} : Scroll(d, 0) \/ Scroll(0, d)

Spec == Init /\ [][Next]_vars
-----------------------------------------------------------------------------
Enabled(m) == m \in options.enabled

P == data.popper

R == page.ref

S == data.placement.side

TypeOK ==
    /\ data.placement \in {validPlacements[k] : k \in 1..12}
    /\ data.ref = page.ref /\ data.popper = getClientRect(data.popper)
    /\ data.hide \in {"", "in", "out"}
    /\ P.width = page.popper.width /\ P.height = page.popper.height

\* keepTogether: along the edge of the reference there is never a gap between
\* the two, wherever the boundaries would like the popper to be.
NoGap ==
    Enabled("keepTogether") /\ ~Enabled("arrow") =>
        LET a == Along(S) IN P[a.last] >= Floor(R[a.first]) /\ P[a.first] <= R[a.last]

\* An arrow that is not longer than the popper's edge or the reference's.
ArrowFits(a) == page.arrow[a.len] <= P[a.len] /\ page.arrow[a.len] <= R[a.len]

\* With the arrow, the two share at least its size, and the arrow is inside the popper and
\* at the reference.
ArrowBetween ==
    LET a == Along(S)
        size == page.arrow[a.len]
        start == P[a.first] + options.inset + data.arrow.value
    IN  Enabled("arrow") /\ Enabled("keepTogether") /\ ArrowFits(a) =>
            /\ data.arrow.side = a.first
            /\ data.arrow.value >= 0 /\ data.arrow.value <= P[a.len] - size
            /\ options.inset = 0 => start >= R[a.first] - 1 /\ start + size <= R[a.last] + 1

\* Room for the popper between the reference and the boundary of flip, where
\* parts of a pixel do not count.
Room(side) ==
    LET b == getBoundaries(page.viewport, options.flipPadding)
    IN  IF side \in {"left", "top"} THEN Floor(R[side]) - b[side] >= page.popper[Away(side).len]
        ELSE b[side] - Floor(R[side]) >= page.popper[Away(side).len]

\* The viewport holds the popper in one direction, and ends at whole pixels.
Holds(a) ==
    LET b == getBoundaries(page.viewport, options.flipPadding)
    IN  /\ page.popper[a.len] <= b[a.last] - b[a.first]
        /\ Whole(b[a.first]) /\ Whole(b[a.last])

\* preventOverflow and flip go by the same boundaries, and no offset is asked for.
OneBoundary ==
    /\ options.offset = <<0, 0>> /\ page.scrollParent = page.viewport
    /\ options.padding = options.flipPadding

\* flip: a popper that has room on its side is on it, and one that has none
\* and is not kept in by the scroll parent goes to the opposite side.  The
\* reference definition knows only the room.
FlipsForRoom ==
    /\ options.behavior.kind = "flip" /\ Enabled("flip") /\ ~Enabled("inner")
    /\ OneBoundary /\ Holds(Away(data.originalPlacement.side))
    => S = IF Room(data.originalPlacement.side) THEN data.originalPlacement.side
           ELSE Opposite[data.originalPlacement.side]

\* The popper fits between the reference and the boundary of flip, parts of a
\* pixel included.
FitsBeside(side) ==
    LET b == getBoundaries(page.viewport, options.flipPadding)
        beside == getPopperOffsets(page.popper, R, side)
    IN  beside[Away(side).first] >= b[Away(side).first] /\ beside[Away(side).last] <= b[Away(side).last]

\* computeAutoPlacement looks for room for the popper that is placed, in the
\* boundaries of flip: one without margins and borders, not placed fixed.
AutoSeesAll == page.client = page.popper /\ page.autoViewport = page.viewport

\* A placement auto ends up where there is room, if there is room anywhere.
AutoFindsRoom ==
    /\ AutoSeesAll
    /\ options.placement.side = "auto" /\ ~Enabled("inner")
    /\ OneBoundary /\ Holds(Along("top")) /\ Holds(Along("left"))
    /\ \E side \in Sides : FitsBeside(side)
    => Room(S)

\* preventOverflow: a popper that fits is inside the boundaries along the
\* edge of a reference that is inside too, if it looks at both.
StaysInside ==
    LET a == Along(S) b == getBoundaries(page.scrollParent, options.padding)
    IN  /\ Enabled("preventOverflow") /\ ~options.escapeWithReference
        /\ {a.first, a.last} \subseteq ToSet(options.priority)
        /\ Enabled("arrow") => ArrowFits(a)
        /\ R[a.first] < R[a.last]
        /\ P[a.len] <= b[a.last] - b[a.first]
        /\ R[a.first] >= b[a.first] /\ R[a.last] <= b[a.last]
        => P[a.first] >= b[a.first] /\ P[a.last] <= b[a.last]

\* hide: the popper of a reference is marked when nothing of it is in the
\* boundaries, and only then.
HiddenWhenOut ==
    Enabled("hide") /\ Enabled("preventOverflow") =>
        LET b == getBoundaries(page.scrollParent, options.padding)
            apart(a) == R[a.last] < b[a.first] \/ R[a.first] > b[a.last]
        IN  (data.hide = "out") <=> apart(Along("top")) \/ apart(Along("left"))

\* Where a browser puts an element of this style.
Painted ==
    LET edge(side, size, parent, at, move) ==
            IF side \in {"left", "top"} THEN at + move ELSE parent - at + move - size
    IN  [left |-> edge(style.sideB, P.width, page.offsetParent.width, style.b, style.translate[1]),
         top |-> edge(style.sideA, P.height, page.offsetParent.height, style.a, style.translate[2])]

\* Whichever edges and properties it uses, the style puts the popper where the
\* modifiers want it: within a pixel and a half across, half a pixel down.  Not
\* so from the right or the bottom edge of an offset parent with borders.
PaintedInPlace ==
    /\ style.sideB = "left" \/ page.borders.width = 0 =>
          P.left - 3 <= Painted.left /\ Painted.left <= P.left + 1
    /\ style.sideA = "top" \/ page.borders.height = 0 =>
          P.top - 1 <= Painted.top /\ Painted.top <= P.top + 1
=============================================================================
