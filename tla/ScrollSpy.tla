----------------------------- MODULE ScrollSpy -----------------------------
(***************************************************************************)
(* The ScrollSpy plugin of bootstrap.js: it keeps the offsets of the       *)
(* targets of its links and marks the link of the target scrolled to.  The *)
(* page may change its layout at any time, and the plugin is not told.     *)
(***************************************************************************)
EXTENDS Integers, Sequences, FiniteSets, SequencesExt

CONSTANTS
    Targets,        \* targets of the links, in the order of the links
    Tops,           \* where a target may be in the content
    Heights,        \* heights the content may have
    View,           \* height of the element that scrolls
    Offset          \* the option offset

\* What is assumed of the constants.
ConstantsAssumption ==
    /\ Targets \subseteq Nat /\ IsFiniteSet(Targets)
    /\ Tops \subseteq Nat /\ Heights \subseteq Nat /\ View \in Nat /\ Offset \in Nat
    /\ \A h \in Heights : h >= View

Hidden == -1        \* a target without width and height
None == -1          \* no target: null or undefined

VARIABLES
    layout,         \* the top of each target, or Hidden
    height,         \* scrollHeight
    scroll,         \* scrollTop
    offsets,        \* _offsets and _targets: a sequence of [top, target]
    known,          \* _scrollHeight
    activeTarget,   \* _activeTarget
    links,          \* targets the links with class "active" lead to
    processed       \* history: the last step was a scroll event

vars == <<layout, height, scroll, offsets, known, activeTarget, links, processed>>

\* Mutant of Offsets: the order of the links is kept.
OffsetsUnsorted(tops) ==
    [i \in 1..Cardinality({t \in Targets : tops[t] # Hidden}) |->
        LET t == SetToSortSeq({u \in Targets : tops[u] # Hidden}, <)[i]
        IN  [top |-> tops[t], target |-> t]]

\* refresh: the targets that can be seen, sorted by their tops; targets of the
\* same top keep the order of their links.
Offsets(tops) ==
    LET seen == {[top |-> tops[t], target |-> t] : t \in {u \in Targets : tops[u] # Hidden}}
        Before(a, b) == \/ a.top < b.top
                        \/ a.top = b.top /\ a.target < b.target
    IN  CHOOSE seq \in [1..Cardinality(seen) -> seen] :
            \A i, j \in DOMAIN seq : i < j => Before(seq[i], seq[j])

\* The target of one pass of _process; None if there is nothing to activate.
Reached(offs, top) ==
    LET hits == {i \in DOMAIN offs :
                    /\ top >= offs[i].top
                    /\ i < Len(offs) => top < offs[i + 1].top}
    IN  IF hits = {} THEN None ELSE offs[CHOOSE i \in hits : TRUE].target

\* Mutant of _process: it works with the offsets it has, and refreshes then.
_processStale(tops, h, y, offs, kn, active) ==
    [offsets |-> IF kn # h THEN Offsets(tops) ELSE offs,
     known |-> h,
     active |->
        CASE y + Offset >= Offset + h - View -> IF offs = <<>> THEN None ELSE Last(offs).target
          [] OTHER -> Reached(offs, y + Offset)]

\* Mutant of _process: a new height is noted, and the offsets are kept.
_processNoRefresh(tops, h, y, offs, kn, active) ==
    [offsets |-> offs, known |-> h,
     active |-> IF Reached(offs, y + Offset) # None THEN Reached(offs, y + Offset) ELSE active]

\* _process, at a scroll position y: a refresh if the height is a new one; the
\* last target at the end, none above the first, or the one reached.
_process(tops, h, y, offs, kn, active) ==
    LET top == y + Offset
        new == IF kn # h THEN Offsets(tops) ELSE offs
        above == new # <<>> /\ top < new[1].top /\ new[1].top > 0
        hit == Reached(new, top)
    IN  [offsets |-> new, known |-> h,
         active |->
            IF top >= Offset + h - View THEN IF new = <<>> THEN None ELSE Last(new).target
            ELSE IF active # None /\ above THEN None
            ELSE IF hit # None THEN hit ELSE active]

\* _activate and _clear: exactly the links of the active target are marked.
Marked(target) == IF target = None THEN {} ELSE {target}

\* What a call of _process changes.
Process(y, offs, kn, active) ==
    LET p == _process(layout, height, y, offs, kn, active)
    IN  /\ offsets' = p.offsets
        /\ known' = p.known
        /\ activeTarget' = p.active
        /\ links' = Marked(p.active)
        /\ scroll' = y
        /\ processed' = TRUE
        /\ UNCHANGED <<layout, height>>

\* The constructor on some page: refresh and _process.
Init ==
    /\ layout \in [Targets -> Tops \cup {Hidden}]
    /\ height \in Heights
    /\ scroll = 0
    /\ LET p == _process(layout, height, 0, Offsets(layout), height, None)
       IN  /\ offsets = p.offsets
           /\ known = p.known
           /\ activeTarget = p.active
           /\ links = Marked(p.active)
    /\ processed = TRUE

\* The visitor scrolls as far as the content goes.
Scroll(y) == y \in 0..height - View /\ Process(y, offsets, known, activeTarget)

\* A program that has changed the page calls refresh.
refresh ==
    /\ offsets' = Offsets(layout)
    /\ known' = height
    /\ processed' = FALSE
    /\ UNCHANGED <<layout, height, scroll, activeTarget, links>>

\* The page changes: targets move, appear and disappear.
Relayout ==
    /\ \E t \in Targets, top \in Tops \cup {Hidden} : layout' = [layout EXCEPT ![t] = top]
    /\ height' \in {h \in Heights : scroll <= h - View}
    /\ processed' = FALSE
    /\ UNCHANGED <<scroll, offsets, known, activeTarget, links>>

Next ==
    \/ \E y \in 0..Max(Heights \cup {0}) : Scroll(y)
    \/ refresh
    \/ Relayout

Spec == Init /\ [][Next]_vars
-----------------------------------------------------------------------------
TypeOK ==
    /\ layout \in [Targets -> Tops \cup {Hidden}] /\ height \in Heights
    /\ activeTarget \in Targets \cup {None} /\ known \in Heights
    /\ \A i \in 1..Len(offsets) - 1 : offsets[i].top <= offsets[i + 1].top
    /\ links = Marked(activeTarget)

Visible == {t \in Targets : layout[t] # Hidden}

\* The reference: the targets that may be marked at the scroll position: the
\* lowest that the position has reached, or the lowest of all at the end.
Right ==
    LET reached == {t \in Visible : \/ layout[t] <= scroll + Offset
                                    \/ scroll = height - View}
    IN  {t \in reached : \A u \in reached : layout[u] <= layout[t]}

\* After a scroll event the link marked is that of the target in view, if the
\* page is as it was at the last refresh: forwards, backwards, past the end.
MarksTheTargetInView ==
    processed /\ offsets = Offsets(layout) /\ Visible # {} =>
        IF Right = {} THEN activeTarget = None ELSE activeTarget \in Right

\* A scroll event goes by old offsets only if the height has not changed since
\* they were taken.
StaleStep ==
    (\E y \in 0..height - View : Scroll(y)) /\ offsets' # Offsets(layout) =>
        height = known /\ offsets' = offsets

StaleOnlyAtSameHeight == [][StaleStep]_vars
=============================================================================
