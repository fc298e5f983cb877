--------------------------- MODULE PopperElements ---------------------------
(***************************************************************************)
(* Where Popper.js (bootstrap.bundle.js) looks in the document: the common *)
(* offset parent of popper and reference, the scroll parents it listens    *)
(* to, the boundaries; and whether the offsets it computes with them put   *)
(* the popper on its reference while elements of the page scroll.          *)
(*                                                                         *)
(* Only tops are modelled; lefts are the same code.  Sizes are the subject *)
(* of module Placement: here the popper's top goes to the reference's.     *)
(* No shadow trees, no tables, no Internet Explorer.                       *)
(***************************************************************************)
EXTENDS Integers

CONSTANTS
    Last,             \* the elements are 0 (html), 1 (body), ..., Last
    Parents,          \* what the parents of 2..Last may be
    Styles,           \* what the styles of the elements may be
    Reference, Popper,\* two of the elements
    Restyled,         \* the elements that may begin, or cease, to scroll
    MaxScroll

Html == 0
Body == 1
Nodes == 0..Last

Positions == {"static", "relative", "absolute", "fixed"}

\* An element and those around it, for every element of a tree.
AroundIn(par) ==
    LET around[e \in Nodes] == IF e = Html THEN {Html} ELSE {e} \cup around[par[e]]
    IN  around

\* A tree; the popper is beside its reference or in something around it.
IsTree(par) ==
    /\ par \in [1..Last -> Nodes] /\ par[Body] = Html
    /\ \A e \in 2..Last : par[e] \in 1..e - 1
    /\ par[Popper] \in AroundIn(par)[par[Reference]]
    /\ Popper \notin AroundIn(par)[Reference]

\* html and body are in place; of the body only the window can scroll; the
\* popper, and what is around it, is shown.
IsStyle(s, par) ==
    /\ s \in [Nodes -> [position : Positions, transform : BOOLEAN, scrolls : BOOLEAN,
                        hidden : BOOLEAN, border : Nat, at : Int]]
    /\ \A e \in {Html, Body} : s[e].position = "static" /\ ~s[e].transform
    /\ ~s[Body].scrolls
    /\ s[Popper].position \in {"absolute", "fixed"}
    /\ \A e \in AroundIn(par)[Popper] : ~s[e].hidden

\* What is assumed of the constants.
ConstantsAssumption ==
    /\ Last \in Nat /\ {Reference, Popper} \subseteq 2..Last /\ Reference # Popper
    /\ MaxScroll \in Nat
    /\ Restyled \subseteq 2..Last \ {Reference, Popper}
    /\ \A par \in Parents : IsTree(par) /\ \A s \in Styles : IsStyle(s, par)

VARIABLES
    parent,           \* parentNode
    style,            \* style; at: the place in the parent, or the margin of html
    scroll,           \* scrollTop; of html: that of the window
    top,              \* style.top that Popper has given the popper
    listening,        \* elements with a scroll listener; html: the window
    scrollParents,    \* state.scrollParents
    due,              \* an update is due before the next frame
    restyled          \* history: elements began or ceased to scroll meanwhile

vars == <<parent, style, scroll, top, listening, scrollParents, due, restyled>>
-----------------------------------------------------------------------------
(* The browser.                                                            *)

Around == AroundIn(parent)

\* The innermost of some elements around another, or the default.  Numbers
\* grow inwards.
Innermost(elements, default) ==
    IF elements = {} THEN default ELSE CHOOSE a \in elements : \A b \in elements : b <= a

Contains(e) == style[e].position # "static" \/ style[e].transform

\* The box an absolute or fixed element is placed in; -1: the whole document,
\* -2: the window.
ContainingBlock(e) ==
    IF style[e].position = "fixed"
    THEN Innermost({a \in Around[parent[e]] : style[a].transform}, -2)
    ELSE Innermost({a \in Around[parent[e]] : Contains(a)}, -1)

Scrolled(e) == IF style[e].scrolls THEN scroll[e] ELSE 0

\* Tops of the border boxes in the window: getBoundingClientRect.  The
\* containing block of an element is one of those around it.
Client[e \in Nodes] ==
    LET within(a) == CASE a = -1 -> -scroll[Html]
                       [] a = -2 -> 0
                       [] a = Html -> Client[Html]
                       [] OTHER -> Client[a] + style[a].border - Scrolled(a)
    IN  CASE e = Html -> style[Html].at - scroll[Html]
          [] e # Html /\ style[e].position \in {"static", "relative"} ->
                within(parent[e]) + style[e].at
          [] e = Popper /\ style[e].position \in {"absolute", "fixed"} ->
                within(ContainingBlock(e)) + top
          [] e # Popper /\ style[e].position \in {"absolute", "fixed"} ->
                within(ContainingBlock(e)) + style[e].at

\* offsetParent; 0 (html) stands for none.
offsetParent(e) ==
    IF e = Body \/ style[e].hidden \/ style[e].position = "fixed" THEN Html
    ELSE Innermost({a \in Around[parent[e]] : a = Body \/ Contains(a)}, Html)
-----------------------------------------------------------------------------
(* Popper.js.                                                              *)

\* The nearest element that scrolls, from e on; body for the document.
getScrollParent(e) ==
    Innermost({a \in Around[e] : a = Body \/ (a # Html /\ style[a].scrolls)}, Body)

\* The offset parent of e, or of the first of its next siblings that has one.
getOffsetParent(e) ==
    LET siblings == {s \in Nodes \ {Html} : s >= e /\ parent[s] = parent[e]}
        with == {s \in siblings : offsetParent(s) # Html}
        found == IF with = {} THEN Html
                 ELSE offsetParent(CHOOSE s \in with : \A u \in with : s <= u)
    IN  IF found = Body THEN Html ELSE found

\* Its first child has it for an offset parent.
isOffsetContainer(e) ==
    LET children == {c \in Nodes \ {Html} : parent[c] = e}
    IN  \/ e = Html
        \/ e # Body /\ children # {}
             /\ getOffsetParent(CHOOSE c \in children : \A d \in children : c <= d) = e

\* Mutant of findCommonOffsetParent: the offset parent of the popper's parent.
findCommonOffsetParentAbove ==
    LET common == Innermost(Around[Popper] \cap Around[Reference], Html)
    IN  getOffsetParent(common)

\* Of the nearest element around both: itself, or its offset parent.
findCommonOffsetParent ==
    LET common == Innermost(Around[Popper] \cap Around[Reference], Html)
    IN  IF isOffsetContainer(common) THEN common ELSE getOffsetParent(common)

isFixed(e) == \E a \in Around[e] : style[a].position = "fixed"

getFixedPositionOffsetParent ==
    Innermost({a \in Around[parent[Popper]] : style[a].transform}, Html)

fixedPosition == style[Popper].position = "fixed"

\* Mutant of getOffsetRectRelativeToArbitraryNode: scrolling is left out.
getOffsetRectUnscrolled(child, node, fixed) ==
    LET border == IF node = Html THEN 0 ELSE style[node].border
        nodeTop == IF fixed /\ node = Html /\ Client[Html] < 0 THEN 0 ELSE Client[node]
    IN  Client[child] - nodeTop - border + IF node = Html THEN style[Html].at ELSE 0

\* The top of a child as an offset in the padding box of a node; html has no
\* border, and its margin is added.
getOffsetRectRelativeToArbitraryNode(child, node, fixed) ==
    LET border == IF node = Html THEN 0 ELSE style[node].border
        nodeTop == IF fixed /\ node = Html /\ Client[Html] < 0 THEN 0 ELSE Client[node]
        offset == Client[child] - nodeTop - border + IF node = Html THEN style[Html].at ELSE 0
    IN  offset + IF node = getScrollParent(child) /\ node # Body THEN scroll[node] ELSE 0

commonOffsetParent ==
    IF fixedPosition THEN getFixedPositionOffsetParent ELSE findCommonOffsetParent

getReferenceOffsets ==
    getOffsetRectRelativeToArbitraryNode(Reference, commonOffsetParent, fixedPosition)

\* The top of the window, seen from the offset parent.
getViewportOffset(op) ==
    (IF fixedPosition THEN 0 ELSE scroll[Html])
        - getOffsetRectRelativeToArbitraryNode(op, Html, FALSE) + style[Html].at

\* The top of the boundaries "scrollParent" and "viewport", without padding.
getBoundaries(boundariesElement) ==
    LET op == commonOffsetParent
        found == getScrollParent(parent[Reference])
        node == IF found = Body THEN Html ELSE found
        rect == getOffsetRectRelativeToArbitraryNode(node, op, fixedPosition)
    IN  CASE boundariesElement = "viewport" -> getViewportOffset(op)
          [] boundariesElement = "scrollParent" /\ node = Html /\ ~isFixed(op) ->
                rect - IF op = Html THEN style[Html].at ELSE 0
          [] boundariesElement = "scrollParent" /\ (node # Html \/ isFixed(op)) -> rect

\* Mutant of attachToScrollParents: only the nearest one.
attachToScrollParentsOnce == {IF getScrollParent(Reference) = Body THEN Html
                              ELSE getScrollParent(Reference)}

\* From the reference's scroll parent to the window.
attachToScrollParents ==
    {IF a = Body THEN Html ELSE a : a \in {getScrollParent(b) : b \in Around[Reference]}}
-----------------------------------------------------------------------------
Init ==
    /\ parent \in Parents
    /\ style \in Styles
    /\ scroll = [e \in Nodes |-> 0]
    /\ top = 0
    /\ listening = {}
    /\ scrollParents = {}
    /\ due = FALSE
    /\ restyled = FALSE

\* new Popper, or enableEventListeners and update: it listens from now on.
setupEventListeners ==
    /\ listening = {}
    /\ scrollParents' = attachToScrollParents
    /\ listening' = listening \cup scrollParents'
    /\ top' = getReferenceOffsets
    /\ due' = FALSE
    /\ restyled' = FALSE
    /\ UNCHANGED <<parent, style, scroll>>

\* Mutant of removeEventListeners: the scroll parents are looked up again.
removeEventListenersOfNow ==
    /\ listening # {}
    /\ listening' = listening \ attachToScrollParents
    /\ scrollParents' = {}
    /\ UNCHANGED <<parent, style, scroll, top, due, restyled>>

removeEventListeners ==
    /\ listening # {}
    /\ listening' = listening \ scrollParents
    /\ scrollParents' = {}
    /\ UNCHANGED <<parent, style, scroll, top, due, restyled>>

\* An element, or the window, is scrolled; a listener on it asks for an update.
Scroll(e, y) ==
    /\ e = Html \/ style[e].scrolls
    /\ y # scroll[e]
    /\ scroll' = [scroll EXCEPT ![e] = y]
    /\ due' = (due \/ e \in listening)
    /\ UNCHANGED <<parent, style, top, listening, scrollParents, restyled>>

\* The update, in the next frame.
update ==
    /\ due
    /\ due' = FALSE
    /\ top' = getReferenceOffsets
    /\ UNCHANGED <<parent, style, scroll, listening, scrollParents, restyled>>

\* A class of an element changes: it begins to scroll, or ceases to.
Restyle(e) ==
    /\ style' = [style EXCEPT ![e].scrolls = ~@]
    /\ scroll' = [scroll EXCEPT ![e] = 0]
    /\ restyled' = TRUE
    /\ UNCHANGED <<parent, top, listening, scrollParents, due>>

Next ==
    \/ setupEventListeners
    \/ removeEventListeners
    \/ \E e \in Nodes, y \in 0..MaxScroll : Scroll(e, y)
    \/ update
    \/ \E e \in Restyled : Restyle(e)

Spec == Init /\ [][Next]_vars
-----------------------------------------------------------------------------
\* Ranges; and the scroll parents are elements that scroll, the window always among
\* them (attachToScrollParents, bootstrap.bundle.js:2526).
TypeOK ==
    /\ parent \in Parents
    /\ scroll \in [Nodes -> 0..MaxScroll] /\ \A e \in 1..Last : Scrolled(e) = scroll[e]
    /\ top \in Int /\ due \in BOOLEAN /\ restyled \in BOOLEAN
    /\ scrollParents \subseteq Nodes \ {Body}
    /\ scrollParents # {} => Html \in scrollParents
    /\ ~restyled => \A e \in scrollParents \ {Html} : style[e].scrolls

\* What the code does not reckon with: an offset parent that scrolls while the
\* reference is in a scroller inside of it; and, for a fixed popper, a margin
\* of html.
Nested ==
    LET op == commonOffsetParent
    IN  \/ op # Html /\ style[op].scrolls /\ op # getScrollParent(Reference)
        \/ fixedPosition /\ op = Html /\ style[Html].at # 0

\* The offsets are computed relative to the element that the browser then uses
\* them in: a popper beside its reference, or in anything around it.
OffsetParentContains ==
    commonOffsetParent = IF ContainingBlock(Popper) < 0 THEN Html ELSE ContainingBlock(Popper)

\* A popper that listens is on its reference, whatever has been scrolled, in
\* whatever order, however the elements around the two are positioned.
StaysOnReference ==
    listening # {} /\ ~due /\ ~restyled /\ ~Nested => Client[Popper] = Client[Reference]

\* Popper stops listening to all it has ever listened to, also to elements
\* that do not scroll any more (removeEventListeners, bootstrap.bundle.js:2575).
ListensOnlyAsLongAsItShould == listening = scrollParents

\* The top of the boundaries, as seen in the window: that of the scroll parent
\* of the reference, of the document, or of the window.  The window's is known
\* only relative to the document itself.
BoundariesInView ==
    LET op == commonOffsetParent
        origin == CASE ContainingBlock(Popper) = -1 -> -scroll[Html]
                    [] ContainingBlock(Popper) = -2 -> 0
                    [] OTHER -> Client[op] + style[op].border - Scrolled(op)
        seen(boundariesElement) == origin + getBoundaries(boundariesElement)
        scroller == getScrollParent(parent[Reference])
    IN  ~Nested /\ ~fixedPosition =>
          /\ op = Html => seen("viewport") = 0
          /\ scroller # Body => seen("scrollParent") = Client[scroller]
          /\ scroller = Body => seen("scrollParent") \in {Client[Html], -scroll[Html]}
=============================================================================
