------------------------------ MODULE Tooltip ------------------------------
(***************************************************************************)
(* The Tooltip plugin of bootstrap.js, and Popover, which inherits from    *)
(* it: a tip that the mouse, the focus, clicks and scripts show and hide,  *)
(* with delays, transitions and a Popper that keeps its place.  Methods    *)
(* call each other, so they map the state of the tip; an action is one     *)
(* task of the browser.  The element is visible and in the document, and a *)
(* new Popper places the tip while it is made, so that the tip lacks its   *)
(* x-placement just when the last Popper has been destroyed.               *)
(***************************************************************************)
EXTENDS Integers, Sequences, FiniteSets, Functions

CONSTANT Configs      \* options: popover, title, content, animation, delays, trigger

Triggers == {"hover", "focus", "click"}

\* What is assumed of the options.
ConfigAssumption ==
    Configs \subseteq [popover : BOOLEAN, title : BOOLEAN, content : BOOLEAN,
                       animation : BOOLEAN, delayShow : BOOLEAN, delayHide : BOOLEAN,
                       trigger : SUBSET Triggers]

VARIABLES
    config,           \* config
    exists,           \* the element has an instance
    on,               \* the mouse ("hover"), the focus is on the element
    t,                \* the instance and its tip: see Fresh
    misuse            \* history: what the instance does not guard against

vars == <<config, exists, on, t, misuse>>

\* hover: _hoverState; active: _activeTrigger; timer: what _timeout will do;
\* show, fade: classes of the tip; inDom: the tip is in the document;
\* described: aria-describedby; popper: _popper, a number; alive: poppers that
\* have not been destroyed; wait: callbacks that wait for the tip's transition;
\* note: what a method met that it does not guard against.
Fresh ==
    [hover |-> "", active |-> {}, timer |-> "none", enabled |-> TRUE,
     show |-> FALSE, fade |-> FALSE, inDom |-> FALSE, described |-> FALSE,
     popper |-> 0, alive |-> {}, made |-> 0, wait |-> <<>>, note |-> {}]

Init ==
    /\ config \in Configs
    /\ exists = TRUE
    /\ on = {}
    /\ t = Fresh
    /\ misuse = {}
-----------------------------------------------------------------------------
\* Popover also shows without a title.
isWithContent == config.title \/ (config.popover /\ config.content)

\* Mutant of Hidden: the Popper goes on.
HiddenPlaced(T) == [T EXCEPT !.inDom = @ /\ T.hover = "show", !.described = FALSE]

\* complete of hide.  The tip stays in the document if it is wanted again, the
\* rest is taken away all the same.
Hidden(T) ==
    [T EXCEPT !.inDom = @ /\ T.hover = "show",
              !.described = FALSE,
              !.alive = @ \ {T.popper},
              !.note = @ \cup IF T.inDom /\ T.hover = "show" THEN {"wanted"} ELSE {}]

\* hide, unless a handler prevents it.  The hover state is reset last.
hide(T, no) ==
    LET left == [T EXCEPT !.show = FALSE, !.active = {}]
        begun == IF T.fade THEN [left EXCEPT !.wait = Append(@, "hidden")] ELSE Hidden(left)
    IN  IF no THEN [T EXCEPT !.note = @ \cup {"prevented"}] ELSE [begun EXCEPT !.hover = ""]

\* _leave, for one of the triggers, or for none.
_leave(T, trigger, no) ==
    LET left == [T EXCEPT !.active = @ \ trigger]
        out == [left EXCEPT !.timer = "none", !.hover = "out"]
    IN  IF left.active # {} THEN left
        ELSE IF config.delayHide THEN [out EXCEPT !.timer = "hide"]
        ELSE hide(out, no)

\* The end of complete of show: if the mouse has left meanwhile, the tip leaves
\* again.
Settled(T, no) ==
    LET done == [T EXCEPT !.hover = "null"]
    IN  IF T.hover = "out" THEN _leave(done, {}, no) ELSE done

\* The tip comes into the document: text, place, a new Popper, its classes.
Up(T, animation) ==
    [T EXCEPT !.described = TRUE, !.inDom = TRUE, !.show = TRUE, !.fade = animation,
              !.made = @ + 1, !.popper = T.made + 1, !.alive = @ \cup {T.made + 1},
              !.note = @ \cup IF T.inDom \/ T.wait # <<>> THEN {"reshown"} ELSE {}]

\* A tip whose Popper a callback of hide has destroyed just before is hidden and
\* shown again at once, without a transition.  What the mouse did meanwhile is
\* forgotten with the hover state.
_fixTransition(T, no) ==
    LET down == [hide([T EXCEPT !.fade = FALSE], no) EXCEPT !.note = @ \cup {"fixed"}]
    IN  IF T.popper \in T.alive THEN T
        ELSE IF ~isWithContent \/ ~T.enabled \/ no THEN down
        ELSE Settled(Up(down, FALSE), no)

\* Mutant of Shown: the mouse that has left meanwhile is forgotten.
ShownForgets(T, no) == [T EXCEPT !.hover = "null"]

\* complete of show.
Shown(T, no) == Settled(IF config.animation THEN _fixTransition(T, no) ELSE T, no)

\* show, unless there is nothing to show, it is disabled or a handler prevents
\* it; then a transition.
show(T, no) ==
    LET up == Up(T, config.animation)
    IN  IF ~isWithContent \/ ~T.enabled THEN T
        ELSE IF no THEN [T EXCEPT !.note = @ \cup {"prevented"}]
        ELSE IF config.animation THEN [up EXCEPT !.wait = Append(@, "shown")]
        ELSE Settled(up, no)

\* _enter, for one of the triggers, or for none.
_enter(T, trigger, no) ==
    LET in == [T EXCEPT !.active = @ \cup trigger, !.hover = "show"]
        clear == [in EXCEPT !.timer = "none"]
    IN  IF T.show \/ T.hover = "show" THEN in
        ELSE IF config.delayShow THEN [clear EXCEPT !.timer = "show"]
        ELSE show(clear, no)

\* One task that leads to T.
Done(T) ==
    /\ t' = [T EXCEPT !.note = {}]
    /\ misuse' = misuse \cup T.note
    /\ UNCHANGED config

\* The mouse or the focus enters and leaves.
mouseenter(trigger, no) ==
    /\ exists /\ trigger \in config.trigger \ on
    /\ on' = on \cup {trigger}
    /\ Done(_enter(t, {trigger}, no))
    /\ UNCHANGED exists

mouseleave(trigger, no) ==
    /\ exists /\ trigger \in config.trigger \cap on
    /\ on' = on \ {trigger}
    /\ Done(_leave(t, {trigger}, no))
    /\ UNCHANGED exists

\* A click toggles the trigger "click", and the tip with it.
click(no) ==
    LET T == [t EXCEPT !.active = IF "click" \in @ THEN @ \ {"click"} ELSE @ \cup {"click"}]
    IN  /\ exists /\ "click" \in config.trigger
        /\ Done(IF ~t.enabled THEN t
                ELSE IF T.active # {} THEN _enter(T, {}, no) ELSE _leave(T, {}, no))
        /\ UNCHANGED <<exists, on>>

\* Calls of a script: what they show no trigger holds.
Call(call, no) ==
    /\ exists
    /\ CASE call = "show"    -> Done([show(t, no) EXCEPT !.note = @ \cup {"scripted"}])
         [] call = "hide"    -> Done(hide(t, no))
         [] call = "toggle"  -> IF ~t.enabled THEN Done(t)
                                ELSE IF t.show THEN Done(_leave(t, {}, no))
                                ELSE Done([_enter(t, {}, no) EXCEPT !.note = @ \cup {"scripted"}])
         [] call = "enable"  -> Done([t EXCEPT !.enabled = TRUE])
         [] call = "disable" -> Done([t EXCEPT !.enabled = FALSE])
         [] call = "toggleEnabled" -> Done([t EXCEPT !.enabled = ~@])
    /\ UNCHANGED <<exists, on>>

\* The modal around the element hides: so does the tip.
ModalHides(no) == exists /\ Done(hide(t, no)) /\ UNCHANGED <<exists, on>>

\* Mutant of dispose: the delay goes on.
disposeRunning ==
    /\ exists
    /\ exists' = FALSE
    /\ Done([Fresh EXCEPT !.described = t.described, !.made = t.made, !.timer = t.timer,
                          !.alive = t.alive \ {t.popper}, !.note = {"disposed"}])
    /\ UNCHANGED on

\* dispose: tip, delay and Popper go, aria-describedby stays.
dispose ==
    /\ exists
    /\ exists' = FALSE
    /\ Done([Fresh EXCEPT !.described = t.described, !.made = t.made,
                          !.alive = t.alive \ {t.popper}, !.note = {"disposed"}])
    /\ UNCHANGED on

\* The delay of _enter or _leave is over; it counts if nothing has changed.
Timeout(no) ==
    LET T == [t EXCEPT !.timer = "none"]
    IN  /\ t.timer # "none"
        /\ Done(CASE t.timer = "show" -> IF t.hover = "show" THEN show(T, no) ELSE T
                  [] t.timer = "hide" -> IF t.hover = "out" THEN hide(T, no) ELSE T)
        /\ UNCHANGED <<exists, on>>

\* The tip's transition ends: all that waits runs, in order.
TransitionEnd(no) ==
    LET after[k \in 0..Len(t.wait)] ==
            IF k = 0 THEN [t EXCEPT !.wait = <<>>]
            ELSE IF t.wait[k] = "shown" THEN Shown(after[k - 1], no) ELSE Hidden(after[k - 1])
    IN  /\ t.wait # <<>>
        /\ Done(after[Len(t.wait)])
        /\ UNCHANGED <<exists, on>>

Calls == {"show", "hide", "toggle", "enable", "disable", "toggleEnabled"}

User ==
    \/ \E no \in BOOLEAN :
          \/ \E trigger \in {"hover", "focus"} : mouseenter(trigger, no) \/ mouseleave(trigger, no)
          \/ click(no) \/ ModalHides(no)
          \/ \E call \in Calls : Call(call, no)
    \/ dispose

Browser == \E no \in BOOLEAN : Timeout(no) \/ TransitionEnd(no)

Next == User \/ Browser

Fairness ==
    WF_vars(\E no \in BOOLEAN : Timeout(no)) /\ WF_vars(\E no \in BOOLEAN : TransitionEnd(no))

Spec == Init /\ [][Next]_vars /\ Fairness
-----------------------------------------------------------------------------
AtRest == t.wait = <<>> /\ t.timer = "none"

TypeOK ==
    /\ config \in Configs /\ on \subseteq {"hover", "focus"}
    /\ t.hover \in {"", "show", "out", "null"}
    /\ t.active \subseteq Triggers /\ t.timer \in {"none", "show", "hide"}
    /\ t.popper \in 0..t.made /\ t.alive \subseteq 1..t.made
    /\ Range(t.wait) \subseteq {"shown", "hidden"}
    /\ ~exists => ~t.show /\ t.timer = "none" /\ t.wait = <<>>

\* At rest all parts of the tip agree: it is visible, in the document, named by
\* the element and placed by one living Popper, or none of these.
PartsAgree ==
    AtRest /\ misuse \cap {"reshown", "wanted", "fixed", "disposed"} = {} =>
        /\ t.show = t.inDom /\ t.inDom = t.described
        /\ t.alive = IF t.show THEN {t.popper} ELSE {}

\* No tip stays behind: at rest, without mouse, focus or click on the element,
\* it is gone, however they came and went during delays and transitions.
NoTipStays ==
    AtRest /\ on = {} /\ "click" \notin t.active
           /\ misuse \cap {"scripted", "prevented", "wanted", "fixed"} = {} => ~t.inDom

\* A tip is gone at some time after everything has left the element.
TipLeaves ==
    [](on = {} /\ t.active = {} /\ misuse \cap {"scripted", "prevented", "wanted", "fixed"} = {}
          => <>(~t.inDom \/ on # {} \/ t.active # {}
                    \/ misuse \cap {"scripted", "prevented", "wanted", "fixed"} # {}))
=============================================================================
