----------------------------- MODULE Positioning -----------------------------
(***************************************************************************)
(* All that Popper.js does for one element: when poppers are updated       *)
(* (Popper), which elements an update looks at (PopperElements), what its  *)
(* modifiers compute (Placement) and how an offset is read (PopperOffset). *)
(* What one of them needs of another is a constant of its module.          *)
(***************************************************************************)
EXTENDS Popper

CONSTANTS
    LastElement, Parents, Styles, Reference,         \* the tree of elements
    PopperElement, Restyled, MaxScroll,
    Lefts, Tops, Layouts, PlacementOptions, Step,    \* what the modifiers get
    Terms, Measures, MaxTokens                       \* offset expressions

VARIABLES
    parent, treeStyle, scroll, top, treeListening, scrollParents, due, restyled,
    placePage, options, data, placeStyle,
    text, basePlacement, meant, axis, factor, last
-----------------------------------------------------------------------------
Elements == INSTANCE PopperElements WITH
    Last <- LastElement, Popper <- PopperElement, style <- treeStyle, listening <- treeListening

Placement == INSTANCE Placement WITH
    Options <- PlacementOptions, page <- placePage, style <- placeStyle

Offset == INSTANCE PopperOffset

ASSUME PositioningAssumption ==
    /\ Elements!ConstantsAssumption /\ Placement!ConstantsAssumption
    /\ Offset!ConstantsAssumption
-----------------------------------------------------------------------------
\* The offset parent that the code finds is the one the browser places the popper
\* in; a popper that listens is on its reference, whatever has been scrolled in
\* whatever order; it stops listening to all it has ever listened to; boundaries
\* are where the window shows them (bootstrap.bundle.js:1752, 1985, 2101, 2575).
ElementsLaidOut ==
    /\ Elements!TypeOK /\ Elements!OffsetParentContains
    /\ Elements!StaysOnReference /\ Elements!ListensOnlyAsLongAsItShould
    /\ Elements!BoundariesInView

\* Along its edge the popper is never apart from the reference, and the arrow
\* points at it; it is on the side that has room; if it fits, it is inside of
\* the boundaries; it is marked exactly when its reference is out of sight
\* (bootstrap.bundle.js:2182, 2935 to 3464).
ModifiersAgree ==
    /\ Placement!TypeOK /\ Placement!NoGap /\ Placement!ArrowBetween
    /\ Placement!FlipsForRoom /\ Placement!AutoFindsRoom
    /\ Placement!StaysInside /\ Placement!HiddenWhenOut

\* The style puts the popper where the modifiers want it, unless it counts from
\* the right or the bottom of an offset parent with borders
\* (bootstrap.bundle.js:2786, 2819, 2828).
PaintedInPlace == Placement!PaintedInPlace

\* An offset expression is read as its author means it, with one operator between
\* each two numbers (bootstrap.bundle.js:3238 to 3310).
ReadAsMeant == Offset!ReadAsMeant /\ Offset!OperatorsBetweenNumbers
=============================================================================
