------------------------------- MODULE Popper -------------------------------
(***************************************************************************)
(* When a popper of bootstrap.bundle.js is updated: at once when it is     *)
(* made, in the next frame after scrolling and resizing, and when a script *)
(* asks for it; and what is left when it is destroyed.  Several poppers    *)
(* may be made for one element, as Tooltip and Dropdown do when they show  *)
(* it again.  Where the popper goes is the subject of module Placement.    *)
(***************************************************************************)
EXTENDS Integers, FiniteSets

CONSTANTS
    Poppers,          \* 1..n, made in this order
    Pages,            \* what scrolling makes of the page
    Options,          \* options of poppers
    Applies,          \* those whose modifier applyStyle is enabled
    Place,            \* what an update writes: style, placement, out
    AutoPlacement,    \* the placement before the first update
    MicroTasks        \* supportsMicroTasks: debounced updates end their task

None == "none"        \* no style, no attribute

ASSUME PopperAssumption ==
    /\ MicroTasks \in BOOLEAN /\ Poppers \subseteq Nat \ {0} /\ Applies \subseteq Options
    /\ \A g \in Pages, o \in Options :
          LET at == Place[g][o]
          IN  at = [style |-> at.style, placement |-> at.placement, out |-> at.out]
              /\ at.out \in BOOLEAN

VARIABLES
    page,
    made,             \* poppers made so far
    state,            \* per popper: options, isDestroyed, isCreated, eventsEnabled
    listening,        \* poppers whose scheduleUpdate listens to scroll and resize
    scheduled,        \* frames: per popper "no", or asked for by "event", "manual"
    called,           \* updates that the debouncer has accepted, in the same way
    element,          \* style and attributes of the popper element
    missed            \* history: poppers to whom something happened unnoticed

vars == <<page, made, state, listening, scheduled, called, element, missed>>

Bare == [style |-> None, placement |-> None, out |-> FALSE]

Fresh == [options |-> {}, isDestroyed |-> FALSE, isCreated |-> FALSE, eventsEnabled |-> FALSE]

Init ==
    /\ page \in Pages
    /\ made = 0
    /\ state = [p \in Poppers |-> Fresh]
    /\ listening = {}
    /\ scheduled = [p \in Poppers |-> "no"] /\ called = [p \in Poppers |-> "no"]
    /\ element = Bare
    /\ missed = {}
-----------------------------------------------------------------------------
Live == {p \in 1..made : ~state[p].isDestroyed}

applies(p) == state[p].options \subseteq Applies

\* A call by a script counts more than one by an event.
Ask(asked, p, by) == [asked EXCEPT ![p] = IF @ = "manual" THEN @ ELSE by]

\* Promises run before any other task does.
TaskOver == MicroTasks => \A p \in Poppers : called[p] = "no"

\* What an update of p writes on the element.
Written(p) == Place[page][CHOOSE o \in state[p].options : TRUE]

\* new Popper: the placement as an attribute, a first update, listeners.
New(o, events) ==
    LET p == made + 1
    IN  /\ p \in Poppers
        /\ made' = p
        /\ state' = [state EXCEPT ![p] = [@ EXCEPT !.options = {o}, !.eventsEnabled = events]]
        /\ element' = IF o \in Applies
                      THEN [element EXCEPT !.placement = AutoPlacement[page][o]]
                      ELSE element
        /\ called' = Ask(called, p, "manual")
        /\ listening' = IF events THEN listening \cup {p} ELSE listening
        /\ missed' = missed \cup IF o \in Applies THEN Live ELSE {}
        /\ UNCHANGED <<page, scheduled>>

\* The calls of a script: update, scheduleUpdate.
callUpdate(p) ==
    /\ p \in 1..made
    /\ called' = Ask(called, p, "manual")
    /\ UNCHANGED <<page, made, state, listening, scheduled, element, missed>>

scheduleUpdate(p) ==
    /\ p \in 1..made
    /\ scheduled' = Ask(scheduled, p, "manual")
    /\ UNCHANGED <<page, made, state, listening, called, element, missed>>

enableEventListeners(p) ==
    /\ p \in 1..made
    /\ state' = [state EXCEPT ![p].eventsEnabled = TRUE]
    /\ listening' = listening \cup {p}
    /\ UNCHANGED <<page, made, scheduled, called, element, missed>>

\* cancelAnimationFrame gets a function, not a frame's number: it cancels nothing.
disableEventListeners(p) ==
    /\ p \in 1..made
    /\ state' = [state EXCEPT ![p].eventsEnabled = FALSE]
    /\ listening' = listening \ {p}
    /\ UNCHANGED <<page, made, scheduled, called, element, missed>>

\* Mutant of destroy: the listeners stay.
destroyListening(p) ==
    /\ p \in 1..made
    /\ state' = [state EXCEPT ![p].isDestroyed = TRUE, ![p].eventsEnabled = FALSE]
    /\ element' = IF applies(p) THEN [element EXCEPT !.style = None, !.placement = None] ELSE element
    /\ missed' = missed \cup IF applies(p) THEN Live \ {p} ELSE {}
    /\ UNCHANGED <<page, made, scheduled, called, listening>>

\* destroy (without removeOnDestroy): the style goes, also when it is another popper's; listeners go.
destroy(p) ==
    /\ p \in 1..made
    /\ state' = [state EXCEPT ![p].isDestroyed = TRUE, ![p].eventsEnabled = FALSE]
    /\ element' = IF applies(p) THEN [element EXCEPT !.style = None, !.placement = None] ELSE element
    /\ listening' = listening \ {p}
    /\ missed' = missed \cup IF applies(p) THEN Live \ {p} ELSE {}
    /\ UNCHANGED <<page, made, scheduled, called>>

\* The page scrolls or the window is resized; all that listen ask for a frame.
Move ==
    /\ TaskOver
    /\ page' \in Pages \ {page}
    /\ scheduled' = [p \in Poppers |->
          IF p \in listening /\ scheduled[p] = "no" THEN "event" ELSE scheduled[p]]
    /\ missed' = missed \cup (Live \ listening)
    /\ UNCHANGED <<made, state, listening, called, element>>

\* Mutant of Frame: an update that waits is not told of the new one.
FrameDropped(p) ==
    /\ TaskOver
    /\ scheduled[p] # "no"
    /\ scheduled' = [scheduled EXCEPT ![p] = "no"]
    /\ called' = IF state[p].isCreated THEN called ELSE Ask(called, p, scheduled[p])
    /\ UNCHANGED <<page, made, state, listening, element, missed>>

\* The frame has come: the debounced update is called.
Frame(p) ==
    /\ TaskOver
    /\ scheduled[p] # "no"
    /\ scheduled' = [scheduled EXCEPT ![p] = "no"]
    /\ called' = Ask(called, p, scheduled[p])
    /\ UNCHANGED <<page, made, state, listening, element, missed>>

\* Mutant of Update: a popper that has been destroyed is updated all the same.
UpdateDestroyed(p) ==
    /\ called[p] # "no"
    /\ called' = [called EXCEPT ![p] = "no"]
    /\ state' = [state EXCEPT ![p].isCreated = TRUE]
    /\ element' = IF applies(p) THEN Written(p) ELSE element
    /\ missed' = (missed \ {p}) \cup IF applies(p) THEN Live \ {p} ELSE {}
    /\ UNCHANGED <<page, made, listening, scheduled>>

\* The debounced update runs, unless the popper is destroyed; onCreate is
\* called the first time, onUpdate later.
Update(p) ==
    /\ called[p] # "no"
    /\ called' = [called EXCEPT ![p] = "no"]
    /\ IF state[p].isDestroyed THEN UNCHANGED <<state, element, missed>>
       ELSE /\ state' = [state EXCEPT ![p].isCreated = TRUE]
            /\ element' = IF applies(p) THEN Written(p) ELSE element
            /\ missed' = (missed \ {p}) \cup IF applies(p) THEN Live \ {p} ELSE {}
    /\ UNCHANGED <<page, made, listening, scheduled>>

Script ==
    \/ \E o \in Options, events \in BOOLEAN : New(o, events)
    \/ \E p \in Poppers : \/ callUpdate(p) \/ scheduleUpdate(p) \/ destroy(p)
                          \/ enableEventListeners(p) \/ disableEventListeners(p)

Browser == \E p \in Poppers : Frame(p) \/ Update(p)

Next == Script \/ Move \/ Browser

\* Browsers draw frames and run what scripts have left to do.
Fairness == \A p \in Poppers : WF_vars(Frame(p)) /\ WF_vars(Update(p))

Spec == Init /\ [][Next]_vars /\ Fairness
-----------------------------------------------------------------------------
TypeOK ==
    /\ page \in Pages /\ made \in Poppers \cup {0}
    /\ \A p \in Poppers : /\ state[p].options \subseteq Options
                          /\ scheduled[p] \in {"no", "event", "manual"}
                          /\ called[p] \in {"no", "event", "manual"}
    /\ listening = {p \in Poppers : state[p].eventsEnabled} /\ listening \subseteq 1..made
    /\ \A p \in Poppers : ~state[p].isCreated /\ p \in 1..made =>
           called[p] # "no" \/ state[p].isDestroyed

InPlace(p) == element = Written(p)

Waiting(p) == scheduled[p] # "no" \/ called[p] # "no"

\* A popper that nothing is waiting for is where the page as it is now wants
\* it, unless the page moved while it did not listen or another popper wrote on
\* the same element since its last update.
InPlaceWhenDone ==
    \A p \in Live \ missed : ~Waiting(p) /\ applies(p) => InPlace(p)

\* The flags of the poppers agree, and what is done is in place.
PoppersInPlace == TypeOK /\ InPlaceWhenDone

\* When all poppers of an element are destroyed they leave no style and no
\* placement, whatever frames and updates were still to come.
DestroyedLeavesNothing == Live = {} => element.style = None /\ element.placement = None

\* A popper that listens is in its place again some time after every move,
\* unless it stops listening or is destroyed, or others write on its element.
Follows ==
    \A p \in Poppers :
        [](p \in Live /\ p \in listening /\ p \notin missed /\ applies(p)
            => <>(p \notin listening \/ p \in missed \/ InPlace(p)))

\* Popper.js says of disableEventListeners: "won't trigger `onUpdate` callback
\* anymore, unless you call `update` method manually."
NoUpdateUnlessManual ==
    [][\A p \in 1..made : called[p] = "event" /\ called'[p] = "no" /\ state[p].isCreated
          => state[p].eventsEnabled \/ state[p].isDestroyed]_vars
=============================================================================
