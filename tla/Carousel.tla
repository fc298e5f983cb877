------------------------------ MODULE Carousel ------------------------------
(***************************************************************************)
(* The Carousel plugin of bootstrap.js: items that slide, the interval     *)
(* that cycles them, and calls of `to` that wait for a slide to end.       *)
(* pause, cycle and _slide call each other, so they map the state of the   *)
(* carousel, and an action is one task of the browser.                     *)
(***************************************************************************)
EXTENDS Integers, Sequences, FiniteSets

CONSTANTS
    N,              \* the items are 1..N; their indicators likewise
    Options         \* sets of options: interval, wrap, hover, slide (the class)

Items == 1..N

\* What is assumed of the constants.
ConstantsAssumption ==
    /\ N \in Nat \ {0}
    /\ Options \subseteq [interval : BOOLEAN, wrap : BOOLEAN,
                          hover : BOOLEAN, slide : BOOLEAN]

VARIABLES
    options,        \* _config, and whether the element has class "slide"
    car,            \* the carousel: see Init
    want,           \* history: what the last call of `to` asked for, or 0
    misuse          \* history: an instance was disposed of in mid-slide

vars == <<options, car, want, misuse>>

\* inst: the number of the instance, or 0; interval: the number of its timer,
\* or 0; timers: those that run; touch: touchTimeout runs; active, order,
\* dir: classes of the items; queue: calls of `to` that wait for "slid"; wait:
\* slides that end with a transition of their item `from`; slid: instances of
\* which a "slid" event is due.
Init ==
    /\ options \in Options
    /\ \E i \in Items :
          car = [inst |-> 0, made |-> 0,
                 isSliding |-> FALSE, isPaused |-> FALSE, interval |-> 0,
                 timers |-> {}, ticks |-> 0, touch |-> FALSE,
                 active |-> {i}, indicator |-> i,
                 order |-> [j \in Items |-> {}], dir |-> [j \in Items |-> {}],
                 queue |-> <<>>, wait |-> <<>>, slid |-> <<>>]
    /\ want = 0
    /\ misuse = FALSE
-----------------------------------------------------------------------------
\* clearInterval of the instance's timer.
clearInterval(S) == [S EXCEPT !.timers = @ \ {S.interval}, !.interval = 0]

\* Mutant of cycle: the mouse that leaves ends a pause.
cycleAnyway(S, event) ==
    LET T == clearInterval([S EXCEPT !.isPaused = FALSE])
    IN  IF options.interval
        THEN [T EXCEPT !.ticks = @ + 1, !.interval = S.ticks + 1,
                       !.timers = @ \cup {S.ticks + 1}]
        ELSE T

\* cycle, with or without an event.
cycle(S, event) ==
    LET T == clearInterval([S EXCEPT !.isPaused = @ /\ event])
    IN  IF options.interval /\ ~T.isPaused
        THEN [T EXCEPT !.ticks = @ + 1, !.interval = S.ticks + 1,
                       !.timers = @ \cup {S.ticks + 1}]
        ELSE T

\* pause, with or without an event.  An item on its way in makes it cycle
\* first (the transition end it triggers is one of the carousel, not of an item).
pause(S, event) ==
    LET T == [S EXCEPT !.isPaused = @ \/ ~event]
    IN  clearInterval(IF \E j \in Items : S.order[j] # {} THEN cycle(T, TRUE) ELSE T)

\* The first active item, or 0.
activeElement(S) ==
    IF S.active = {} THEN 0 ELSE CHOOSE i \in S.active : \A j \in S.active : i <= j

\* The neighbour of an item; the item itself at an end that does not wrap.
_getItemByDirection(direction, i) ==
    CASE direction = "next" /\ i = N -> IF options.wrap THEN 1 ELSE i
      [] direction = "prev" /\ i = 1 -> IF options.wrap THEN N ELSE i
      [] direction = "next" /\ i < N -> i + 1
      [] direction = "prev" /\ i > 1 -> i - 1

Toward(direction) == IF direction = "next" THEN "left" ELSE "right"

\* The slide itself.  Without class "slide" it is done at once.
slideTo(S, direction, from, next) ==
    LET isCycling == S.interval # 0
        begun == [S EXCEPT !.isSliding = TRUE]
        stopped == [(IF isCycling THEN pause(begun, FALSE) ELSE begun) EXCEPT !.indicator = next]
        moved == IF options.slide
                 THEN [stopped EXCEPT
                         !.order[next] = @ \cup {direction},
                         !.dir[from] = @ \cup {Toward(direction)},
                         !.dir[next] = @ \cup {Toward(direction)},
                         !.wait = Append(@, [inst |-> S.inst, from |-> from,
                                             next |-> next, direction |-> direction])]
                 ELSE [stopped EXCEPT !.active = (@ \ {from}) \cup {next}, !.isSliding = FALSE]
    IN  IF isCycling THEN cycle(moved, FALSE) ELSE moved

\* Mutant of _slide: it counts as sliding before the handlers are asked.
_slideUnasked(S, direction, element, no) ==
    LET from == activeElement(S)
        next == IF element # 0 THEN element ELSE _getItemByDirection(direction, from)
    IN  IF next \in S.active THEN [S EXCEPT !.isSliding = FALSE]
        ELSE IF no THEN [S EXCEPT !.isSliding = TRUE]
        ELSE slideTo(S, direction, from, next)

\* _slide to an item, or in a direction (element = 0).  The handlers of the
\* slide event prevent it if `no`.
_slide(S, direction, element, no) ==
    LET from == activeElement(S)
        next == IF element # 0 THEN element
                ELSE IF from = 0 THEN 0 ELSE _getItemByDirection(direction, from)
    IN  IF next \in S.active THEN [S EXCEPT !.isSliding = FALSE]
        ELSE IF no \/ from = 0 \/ next = 0 THEN S
        ELSE slideTo(S, direction, from, next)

\* next, prev: nothing while an item slides.
step(S, direction, no) == IF S.isSliding THEN S ELSE _slide(S, direction, 0, no)

\* Mutant of to: a call in mid-slide is dropped.
toUnlessSliding(S, c, no) ==
    LET from == activeElement(S)
    IN  IF c.index \notin Items \/ S.isSliding THEN S
        ELSE IF from = c.index /\ ~c.text THEN cycle(pause(S, FALSE), FALSE)
        ELSE _slide(S, IF c.index > from THEN "next" ELSE "prev", c.index, no)

\* to(index).  An index taken from data-slide-to is a string, and no number is
\* === to it.
to(S, c, no) ==
    LET from == activeElement(S)
    IN  IF c.index \notin Items THEN S
        ELSE IF S.isSliding THEN [S EXCEPT !.queue = Append(@, c)]
        ELSE IF from = c.index /\ ~c.text THEN cycle(pause(S, FALSE), FALSE)
        ELSE _slide(S, IF c.index > from THEN "next" ELSE "prev", c.index, no)
-----------------------------------------------------------------------------
\* The instance a call works on: made by the first one.
instance(S) ==
    IF S.inst # 0 THEN S
    ELSE [S EXCEPT !.inst = S.made + 1, !.made = @ + 1, !.isSliding = FALSE,
                   !.isPaused = FALSE, !.interval = 0]

\* One task that leads to S; a slide of it that is prevented, or that none of
\* the waiting calls of `to` will undo, ends the history of `want`.
Done(S, no) ==
    /\ car' = S
    /\ want' = IF no \/ (car.queue = <<>> /\ <<S.wait, S.active>> # <<car.wait, car.active>>)
               THEN 0 ELSE want
    /\ UNCHANGED <<options, misuse>>

\* next and prev: a call, a click, an arrow key or a swipe.
Step(direction, no) == Done(step(instance(car), direction, no), no)

\* to: a call (a number) or a click on an indicator (a string).
To(c, no) ==
    /\ car' = to(instance(car), c, no)
    /\ want' = IF c.index \notin Items THEN want
               ELSE IF no \/ (car.slid # <<>> /\ car.queue # <<>>) THEN 0 ELSE c.index
    /\ UNCHANGED <<options, misuse>>

\* pause and cycle called by a script, or with an event: the mouse.  The
\* option ride calls both.
Pause == Done(pause(instance(car), FALSE), FALSE)
Cycle == Done(cycle(instance(car), FALSE), FALSE)
Ride == Done(cycle(pause(instance(car), FALSE), FALSE), FALSE)

mouseenter == car.inst # 0 /\ options.hover /\ Done(pause(car, TRUE), FALSE)
mouseleave == car.inst # 0 /\ options.hover /\ Done(cycle(car, TRUE), FALSE)

\* The end of a touch: a swipe or none, then a pause until touchTimeout.
touchend(swipe, no) ==
    LET S == IF swipe = "none" THEN car ELSE step(car, swipe, no)
    IN  /\ car.inst # 0
        /\ Done(IF options.hover THEN [pause(S, FALSE) EXCEPT !.touch = TRUE] ELSE S, no)

TouchTimeout == car.touch /\ Done([cycle(car, FALSE) EXCEPT !.touch = FALSE], FALSE)

\* A timer runs out: nextWhenVisible, on a page that is visible or not.
Tick(visible, no) ==
    /\ car.timers # {}
    /\ Done(IF visible THEN step(car, "next", no) ELSE car, no)

\* dispose: the timers go on, but find no element; the handlers are gone.
dispose ==
    /\ car.inst # 0
    /\ car' = [car EXCEPT !.inst = 0, !.isSliding = FALSE, !.isPaused = FALSE,
                          !.interval = 0, !.timers = {}, !.touch = FALSE, !.queue = <<>>]
    /\ want' = 0
    /\ misuse' = (misuse \/ car.wait # <<>>)
    /\ UNCHANGED options

\* The transition of the oldest slide ends: classes, and "slid" is due.
TransitionEnd ==
    LET w == Head(car.wait)
    IN  /\ car.wait # <<>>
        /\ car' = [car EXCEPT
                      !.active = (@ \cup {w.next}) \ {w.from},
                      !.order[w.next] = @ \ {w.direction},
                      !.order[w.from] = @ \ {w.direction},
                      !.dir = [j \in Items |-> IF j \in {w.from, w.next}
                                               THEN @[j] \ {Toward(w.direction)} ELSE @[j]],
                      !.isSliding = @ /\ w.inst # car.inst,
                      !.wait = Tail(@),
                      !.slid = Append(@, w.inst)]
        /\ UNCHANGED <<options, want, misuse>>

\* "slid": the waiting calls of `to` run, in their order, and may wait again.
\* (The sets of one element make TLC evaluate each call once.)
Slid(no) ==
    LET S == [car EXCEPT !.slid = Tail(@), !.queue = <<>>]
        after[k \in 0..Len(car.queue)] ==
            IF k = 0 THEN S
            ELSE CHOOSE T \in {to(U, car.queue[k], no) : U \in {after[k - 1]}} : TRUE
    IN  /\ car.slid # <<>>
        /\ IF Head(car.slid) = car.inst
           THEN Done(after[Len(car.queue)], no)
           ELSE Done([car EXCEPT !.slid = Tail(@)], FALSE)

\* Indexes a call of `to` may carry: one of them is out of range.
Indexes == [index : 1..N + 1, text : BOOLEAN]

User ==
    \/ \E no \in BOOLEAN :
          \/ \E d \in {"next", "prev"} : Step(d, no)
          \/ \E c \in Indexes : To(c, no)
          \/ \E swipe \in {"next", "prev", "none"} : touchend(swipe, no)
    \/ Pause \/ Cycle \/ Ride \/ mouseenter \/ mouseleave \/ dispose

Timers ==
    \/ TouchTimeout
    \/ \E visible, no \in BOOLEAN : Tick(visible, no)

Next == User \/ Timers \/ TransitionEnd \/ \E no \in BOOLEAN : Slid(no)

Fairness == WF_vars(TransitionEnd) /\ WF_vars(\E no \in BOOLEAN : Slid(no))

Spec == Init /\ [][Next]_vars /\ Fairness
-----------------------------------------------------------------------------
TypeOK ==
    /\ options \in Options
    /\ car.inst \in 0..car.made
    /\ car.active \subseteq Items /\ car.indicator \in Items
    /\ \A k \in DOMAIN car.queue : car.queue[k] \in Indexes
    /\ car.isSliding => car.inst # 0 /\ \E k \in DOMAIN car.wait : car.wait[k].inst = car.inst
    /\ want \in 0..N

\* At rest one item is active, the indicators point at it and nothing is left
\* of a slide, whatever calls, timers and mouse did in between.
OneItemAtRest ==
    car.wait = <<>> /\ ~misuse =>
        /\ car.active = {car.indicator}
        /\ \A j \in Items : car.order[j] = {} /\ car.dir[j] = {}

\* An instance never has two intervals, and none while it is paused: the items
\* do not change at twice the speed, nor after a pause.
OneInterval ==
    /\ car.timers = {car.interval} \ {0}
    /\ car.isPaused => car.interval = 0

\* A choice that makes a carousel cycle: the item shown, given as a number.
Resumes(c) == ~c.text /\ c.index = activeElement(car)

\* The tasks that are to leave a pause alone.
LeavesPauseAlone ==
    \/ Pause \/ mouseenter \/ mouseleave \/ TransitionEnd
    \/ \E no \in BOOLEAN :
          \/ \E d \in {"next", "prev"} : Step(d, no)
          \/ \E swipe \in {"next", "prev", "none"} : touchend(swipe, no)
          \/ \E visible \in BOOLEAN : Tick(visible, no)
          \/ \E c \in Indexes : ~Resumes(c) /\ To(c, no)
          \/ Slid(no) /\ (car.queue = <<>> \/ options.slide)
                      /\ \A k \in DOMAIN car.queue : ~Resumes(car.queue[k])

\* A pause the program asked for outlives the mouse, timers, swipes, slides and
\* choices of other items, those that waited for a slide as well: it takes a
\* call of cycle, a choice of the item shown, the touch timeout or dispose.
PauseHolds == [][car.isPaused /\ LeavesPauseAlone => car'.isPaused]_vars

\* Of several quick choices the last is shown in the end (one made after the
\* slide has ended and before "slid" is announced may be overtaken: want is 0).
LastChoiceIsShown ==
    want # 0 /\ ~misuse /\ car.wait = <<>> /\ car.queue = <<>> => car.active = {want}

\* A choice made while an item slides is not forgotten.
ChoicesAreServed == car.queue # <<>> ~> car.queue = <<>>
=============================================================================
