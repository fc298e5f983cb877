------------------------------ MODULE MCPopper ------------------------------
(***************************************************************************)
(* The four aspects of Popper.js: two poppers of one element and their     *)
(* updates, the tree of elements that an update looks at, the modifiers it *)
(* runs, and the offset expressions that one of them reads.  They share no *)
(* state, so a behaviour is about one of them, chosen at the start among   *)
(* those of a run; the others stay as they are at first.                   *)
(***************************************************************************)
EXTENDS Positioning, Sequences, TLC

CONSTANTS
    Aspects,            \* what the behaviours of a run may be about
    MaxCalls, MaxMoves  \* bounds of the scripts' calls and of moves

VARIABLES
    aspect,         \* what the behaviour is about
    calls, moves
-----------------------------------------------------------------------------
(* Updates: the reference is inside of the window, or below it.             *)

MCPages == {"inside", "below"}

\* A dropdown that opens to the bottom or to the top, and one with a static display.
MCOptions == {"bottom", "top", "static"}

MCApplies == {"bottom", "top"}

MCPlace ==
    [g \in MCPages |-> [o \in MCOptions |->
        [style |-> g \o o, placement |-> IF g = "below" THEN "top" ELSE o, out |-> g = "below"]]]

MCAutoPlacement == [g \in MCPages |-> [o \in MCOptions |-> o]]
-----------------------------------------------------------------------------
(* Elements: html, body, a box in it with two children, of which the first  *)
(* may be hidden and the second is a box around the reference; the *)
(* popper is the last child of the body or of one of the boxes.             *)

Outer == 2
First == 3
Inner == 4

ParentsWith(container) ==
    (1 :> 0) @@ (Outer :> 1) @@ (First :> Outer) @@ (Inner :> Outer) @@ (5 :> Inner)
        @@ (6 :> container)

MCParents == {ParentsWith(container) : container \in {1, Outer, Inner}}

Plain == [position |-> "static", transform |-> FALSE, scrolls |-> FALSE,
          hidden |-> FALSE, border |-> 0, at |-> 0]

Framed == [Plain EXCEPT !.border = 1, !.at = 2]

Boxes == {[Framed EXCEPT !.position = p, !.scrolls = s] :
             p \in {"static", "relative"}, s \in BOOLEAN}
         \cup {[Plain EXCEPT !.position = p, !.at = 2] : p \in {"absolute", "fixed"}}
         \cup {[Plain EXCEPT !.transform = TRUE, !.at = 2]}

StylesWith(margin, outer, first, inner, position) ==
    (0 :> [Plain EXCEPT !.at = margin]) @@ (1 :> Plain) @@ (Outer :> outer) @@ (First :> first)
        @@ (Inner :> inner) @@ (5 :> [Plain EXCEPT !.at = 3])
        @@ (6 :> [Plain EXCEPT !.position = position])

\* Margin of html, style of the first child and position of the popper.  The
\* first child counts only if the popper is not fixed; a fixed one has no
\* offset parent either.
Cases ==
    {<<1, Plain, "absolute">>, <<0, [Plain EXCEPT !.hidden = TRUE], "absolute">>,
     <<0, Plain, "fixed">>}

MCStyles ==
    {StylesWith(case[1], outer, case[2], inner, case[3]) :
       case \in Cases, inner \in Boxes, outer \in {box \in Boxes : box.position # "fixed"}}
-----------------------------------------------------------------------------
(* Modifiers: a viewport of 30 by 24 pixels, poppers and references of a    *)
(* few pixels, with room for the popper on all sides, on some and on none.  *)

Box(width, height) == [width |-> width, height |-> height]

Area(left, right, width, height) ==
    [left |-> left, top |-> right, width |-> width, height |-> height,
     right |-> left + width, bottom |-> right + height]

Same == Area(0, 0, 60, 48)
Part == Area(10, 8, 40, 30)

Layout(scrollParent, ref, popper) ==
    [ref |-> ref, popper |-> popper, client |-> popper, arrow |-> Box(4, 4),
     scrollParent |-> scrollParent, viewport |-> Same, autoViewport |-> Same,
     offsetParent |-> Box(80, 90), borders |-> Box(0, 0)]

\* The last popper has borders, as has its offset parent, and is placed fixed.
MCLayouts ==
    {Layout(Same, Area(0, 0, 8, 8), Box(16, 12)), Layout(Same, Area(0, 0, 10, 6), Box(22, 14)),
     Layout(Same, Area(0, 0, 20, 22), Box(22, 14)), Layout(Part, Area(0, 0, 8, 8), Box(16, 12)),
     [Layout(Same, Area(0, 0, 10, 6), Box(22, 14)) EXCEPT
         !.client = Box(18, 10), !.autoViewport = Area(-8, -6, 60, 48), !.borders = Box(4, 0)]}

All == {"shift", "offset", "preventOverflow", "keepTogether", "flip", "hide"}

Default ==
    [placement |-> [side |-> "bottom", variation |-> ""], offset |-> <<0, 0>>,
     behavior |-> [kind |-> "flip", list |-> <<>>], padding |-> 2, flipPadding |-> 2,
     flipVariations |-> FALSE, priority |-> <<"left", "right", "top", "bottom">>,
     escapeWithReference |-> FALSE, inset |-> 0, enabled |-> All, round |-> TRUE,
     x |-> "bottom", y |-> "right", gpuAcceleration |-> TRUE]

Placed(side, variation) == [Default EXCEPT !.placement = [side |-> side, variation |-> variation]]

\* A dropdown; a tooltip with an arrow; auto; a list of sides; the rest.
MCPlacementOptions ==
    {Placed("bottom", "start"), Placed("auto", ""), Placed("auto", "end"),
     [Placed("top", "") EXCEPT !.enabled = All \cup {"arrow"}],
     [Placed("right", "end") EXCEPT !.flipVariations = TRUE, !.x = "top", !.y = "left"],
     [Placed("left", "") EXCEPT !.enabled = All \cup {"arrow"}, !.gpuAcceleration = FALSE],
     [Placed("bottom", "") EXCEPT !.x = "top", !.y = "left", !.gpuAcceleration = FALSE],
     [Placed("top", "start") EXCEPT !.offset = <<3, 4>>, !.round = FALSE, !.flipVariations = TRUE],
     [Placed("left", "start") EXCEPT !.enabled = (@ \ {"flip"}) \cup {"inner"}],
     [Placed("top", "") EXCEPT !.behavior = [kind |-> "list", list |->
         [k \in 1..4 |-> [side |-> <<"top", "right", "bottom", "left">>[k], variation |-> ""]]]],
     [Placed("top", "") EXCEPT !.behavior.kind = "clockwise"],
     [Placed("right", "") EXCEPT !.behavior.kind = "counterclockwise"],
     [Placed("bottom", "") EXCEPT !.escapeWithReference = TRUE, !.priority = <<"top", "left">>]}

MCLefts == {7 * k - 20 : k \in 0..13}
MCTops  == {7 * k - 15 : k \in 0..10}
-----------------------------------------------------------------------------
(* Offsets: every kind of unit, and zero; sizes that tell every unit and    *)
(* axis apart; expressions of up to six tokens.                             *)

MCTerms ==
    {[value |-> 0, unit |-> "%"], [value |-> 3, unit |-> "px"], [value |-> 7, unit |-> "%r"],
     [value |-> 1, unit |-> "%p"], [value |-> 2, unit |-> "vh"]}

MCMeasures ==
    ("reference" :> Box(13, 29)) @@ ("popper" :> Box(211, 57)) @@ ("window" :> Box(1009, 643))
-----------------------------------------------------------------------------
treeVars   == <<parent, treeStyle, scroll, top, treeListening, scrollParents, due, restyled>>
placeVars  == <<placePage, options, data, placeStyle>>
offsetVars == <<text, basePlacement, meant, axis, factor, last>>

mcVars == <<aspect, calls, moves, vars, treeVars, placeVars, offsetVars>>

\* A popper at the bottom of its reference, in the middle of the window, with no
\* modifiers.
FirstPlacement ==
    /\ placePage = Placement!At(Layout(Same, Area(0, 0, 8, 8), Box(16, 12)), 20, 20)
    /\ options = [Default EXCEPT !.enabled = {}]
    /\ data = Placement!update(placePage, options)
    /\ placeStyle = Placement!computeStyle(data, placePage, options)

\* The reference begins at the left and at the top; scrolling takes it everywhere.
FarLeft == placePage \in {Placement!At(layout, -20, -15) : layout \in Layouts}

\* What the behaviour is not about is in some fixed first state.
MCInit ==
    /\ aspect \in Aspects
    /\ calls = 0 /\ moves = 0
    /\ Init /\ (aspect = "updates" \/ page = "inside")
    /\ Elements!Init
    /\ \/ aspect = "elements"
       \/ /\ parent = ParentsWith(1)
          /\ treeStyle = StylesWith(0, Framed, Plain, Framed, "fixed")
    /\ IF aspect = "modifiers" THEN FarLeft /\ Placement!Init ELSE FirstPlacement
    /\ Offset!Init /\ (aspect = "offsets" \/ basePlacement = "top")

Rest == UNCHANGED mcVars

\* Two poppers of one element are told apart: only one may be at the bottom.
Apart == state'[1].options # {"top"} /\ state'[2].options # {"bottom"}

UpdatesStep ==
    \/ calls < MaxCalls /\ calls' = calls + 1 /\ UNCHANGED moves /\ Script /\ Apart
    \/ moves < MaxMoves /\ moves' = moves + 1 /\ UNCHANGED calls /\ Move
    \/ Browser /\ UNCHANGED <<calls, moves>>
    \/ calls = MaxCalls /\ (\A p \in Poppers : ~Waiting(p)) /\ Rest

\* An expression that ends with a number and has no room for two more tokens.
OffsetsStep == Offset!Next \/ (last = "term" /\ Len(text) + 1 >= MaxTokens /\ Rest)

MCNext ==
    /\ UNCHANGED aspect
    /\ \/ /\ aspect = "updates" /\ UpdatesStep
          /\ UNCHANGED <<treeVars, placeVars, offsetVars>>
       \/ /\ aspect = "elements" /\ Elements!Next
          /\ UNCHANGED <<calls, moves, vars, placeVars, offsetVars>>
       \/ /\ aspect = "modifiers" /\ Placement!Next
          /\ UNCHANGED <<calls, moves, vars, treeVars, offsetVars>>
       \/ /\ aspect = "offsets" /\ OffsetsStep
          /\ UNCHANGED <<calls, moves, vars, treeVars, placeVars>>

\* A browser goes on while frames, or updates, wait.
MCFairness == WF_vars(aspect = "updates" /\ Browser)

MCSpec == MCInit /\ [][MCNext]_mcVars /\ MCFairness
=============================================================================
