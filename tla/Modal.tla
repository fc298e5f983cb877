------------------------------- MODULE Modal -------------------------------
(***************************************************************************)
(* The Modal plugin of bootstrap.js: one modal element, its instance, its  *)
(* backdrops and the body behind it.  Every call and every callback is one *)
(* task of the browser.  Ends of transitions follow the contract of        *)
(* Completions: a callback in `wait` runs at some later time, once.        *)
(* Handlers of the application can prevent show and hide.                  *)
(***************************************************************************)
EXTENDS Integers

CONSTANT Configs      \* options: backdrop, keyboard, focus

\* What is assumed of the options.
ConfigAssumption ==
    Configs \subseteq [backdrop : {"true", "false", "static"},
                       keyboard : BOOLEAN, focus : BOOLEAN]

VARIABLES
    fade,             \* the element has class "fade"
    config,           \* _config
    exists,           \* the element has an instance
    isShown,          \* _isShown
    isTransitioning,  \* _isTransitioning
    backdrop,         \* _backdrop: a number, or 0 for null
    dom,              \* the backdrops in the document
    made,             \* how many backdrops have been made
    wait,             \* callbacks that wait for the end of a transition
    display,          \* the element's style is display: block
    showClass,        \* the element has class "show"
    listeners,        \* event handlers bound while the modal is shown
    ignoreClick,      \* _ignoreBackdropClick
    body,             \* the body: class, padding, saved padding, overflow
    adjusted,         \* the element has padding of its own
    onShow,           \* focus restorers bound to the next show event
    onHidden,         \* focus restorers bound to the next hidden event
    misuse            \* history: what the instance does not guard against

instVars == <<config, exists, isShown, isTransitioning, backdrop, ignoreClick>>
elemVars == <<display, showClass, listeners, adjusted>>
vars == <<fade, instVars, dom, made, wait, elemVars, body, onShow, onHidden, misuse>>

Bound == {"keydown", "resize", "dismiss", "mousedown", "mouseup", "backdropClick", "focusin"}

\* What transitions: the element, its dialog, or a backdrop by its number.
Element == 0
Dialog == -1

\* A callback of the current instance, or of one that has been disposed of.
Callback(on, do) == [on |-> on, do |-> do, live |-> TRUE]
HasBackdrop == config'.backdrop # "false"

Init ==
    /\ fade \in BOOLEAN
    /\ config \in Configs
    /\ exists = FALSE
    /\ isShown = FALSE
    /\ isTransitioning = FALSE
    /\ backdrop = 0
    /\ dom = {}
    /\ made = 0
    /\ wait = {}
    /\ display = FALSE
    /\ showClass = FALSE
    /\ listeners = {}
    /\ ignoreClick = FALSE
    /\ body \in [open : {FALSE}, padding : {0, 5}, saved : {-1},
                 own : {0, 5}, overflows : BOOLEAN, overflowing : {FALSE}]
    /\ body.own = body.padding
    /\ adjusted = FALSE
    /\ onShow = 0
    /\ onHidden = 0
    /\ misuse = {}

\* _jQueryInterface: the first call makes the instance, with its options.
instance(c) ==
    /\ exists' = TRUE
    /\ config' = IF exists THEN config ELSE c

\* A call that finds nothing to do: hide or toggle in a state where it returns
\* early, a prevented hide, options with show: false.  A click on a data-toggle
\* link (link = 1) has bound its focus restorer before it toggles.
idle(c, link) ==
    /\ instance(c)
    /\ link = 1 => isShown \/ isTransitioning
    /\ onShow' = onShow + link
    /\ UNCHANGED <<fade, isShown, isTransitioning, backdrop, ignoreClick, dom, made,
                   wait, elemVars, body, onHidden, misuse>>
-----------------------------------------------------------------------------
\* The scrollbar: its width is 1.  A body of class modal-open has none.
_checkScrollbar(b) == [b EXCEPT !.overflowing = b.overflows /\ ~b.open]

\* The inline padding is kept and widened, and the body gets its class.
_setScrollbar(b) ==
    IF b.overflowing
    THEN [b EXCEPT !.saved = b.padding, !.padding = @ + 1, !.open = TRUE]
    ELSE [b EXCEPT !.open = TRUE]

\* Mutant of _resetScrollbar: the default for nothing kept is left out.
_resetScrollbarRaw(b) == [b EXCEPT !.padding = b.saved, !.saved = -1]

\* What was kept is put back; nothing kept counts as an empty style.
_resetScrollbar(b) ==
    [b EXCEPT !.padding = IF b.saved > 0 THEN b.saved ELSE 0, !.saved = -1]

\* The callback that ends hiding: class, adjustments, scrollbar, "hidden".
Hidden ==
    /\ body' = _resetScrollbar([body EXCEPT !.open = FALSE])
    /\ adjusted' = FALSE
    /\ onHidden' = 0

\* Padding of its own if exactly one of body and modal overflows.
_adjustDialog(overflowing) ==
    \E tall \in BOOLEAN : adjusted' = (adjusted \/ (overflowing # tall))

\* _showElement with w waiting and ls bound; tr is _isTransitioning so far.
_showElement(w, ls, tr) ==
    /\ display' = TRUE
    /\ showClass' = TRUE
    /\ listeners' = ls \cup IF config'.focus THEN {"focusin"} ELSE {}
    /\ wait' = w \cup IF fade THEN {Callback(Dialog, "complete")} ELSE {}
    /\ isTransitioning' = (tr /\ fade)

\* The handlers show binds itself.
Opened ==
    {"resize", "dismiss", "mousedown"}
        \cup (IF config'.keyboard THEN {"keydown"} ELSE {})
        \cup (IF HasBackdrop THEN {"backdropClick"} ELSE {})

\* _showBackdrop when shown: a new backdrop; the element follows at once, or
\* when the backdrop has faded in.
_showBackdrop ==
    /\ IF HasBackdrop
       THEN /\ made' = made + 1
            /\ backdrop' = made'
            /\ dom' = dom \cup {made'}
       ELSE UNCHANGED <<made, backdrop, dom>>
    /\ IF HasBackdrop /\ fade
       THEN /\ wait' = wait \cup {Callback(made', "showElement")}
            /\ listeners' = listeners \cup Opened
            /\ isTransitioning' = TRUE
            /\ UNCHANGED <<display, showClass>>
       ELSE _showElement(wait, listeners \cup Opened, fade)

\* The focus restorers bound to the show event learn of it; a handler bound
\* after them can still prevent it.
Restorers(prevented, link) ==
    /\ onShow' = 0
    /\ onHidden' = onHidden + IF prevented = "early" THEN 0 ELSE onShow + link

\* What show does once nothing prevents it.
Open ==
    /\ isShown' = TRUE
    /\ body' = _setScrollbar(_checkScrollbar(body))
    /\ _adjustDialog(body'.overflowing)
    /\ _showBackdrop

\* Mutant of show: not stopped by a transition under way.
showInTransition(c, prevented, link) ==
    /\ instance(c) /\ ~isShown
    /\ Restorers(prevented, link)
    /\ prevented = "no"
    /\ Open
    /\ UNCHANGED <<fade, ignoreClick, misuse>>

\* Modal.show: not while shown or in transition; can be prevented.
show(c, prevented, link) ==
    /\ instance(c) /\ ~isShown /\ ~isTransitioning
    /\ Restorers(prevented, link)
    /\ \/ /\ prevented = "no"
          /\ Open
          /\ misuse' = misuse \cup IF backdrop # 0 THEN {"reopened"} ELSE {}
       \/ /\ prevented # "no"
          /\ isTransitioning' = fade
          /\ misuse' = misuse \cup IF fade THEN {"prevented"} ELSE {}
          /\ UNCHANGED <<isShown, body, adjusted, backdrop, dom, made, wait,
                         display, showClass, listeners>>
    /\ UNCHANGED <<fade, ignoreClick>>

\* _hideModal: the backdrop goes too, at once or when it has faded out.
_hideModal(w) ==
    /\ display' = FALSE
    /\ isTransitioning' = FALSE
    /\ IF backdrop # 0 /\ fade
       THEN /\ wait' = w \cup {Callback(backdrop, "remove")}
            /\ UNCHANGED <<backdrop, dom, body, adjusted, onHidden>>
       ELSE /\ wait' = w
            /\ dom' = dom \ {backdrop}
            /\ backdrop' = 0
            /\ Hidden

\* Mutant of hide: the handlers of the backdrop and of keys stay bound.
hideBound(link) ==
    /\ exists /\ isShown /\ ~isTransitioning
    /\ isShown' = FALSE
    /\ showClass' = FALSE
    /\ onShow' = onShow + link
    /\ listeners' = listeners \ {"resize", "focusin"}
    /\ IF fade
       THEN /\ isTransitioning' = TRUE
            /\ wait' = wait \cup {Callback(Element, "hideModal")}
            /\ UNCHANGED <<display, backdrop, dom, body, adjusted, onHidden>>
       ELSE _hideModal(wait)
    /\ UNCHANGED <<fade, config, exists, made, ignoreClick, misuse>>

\* Modal.hide: not while hidden or in transition.
hide(link) ==
    /\ exists /\ isShown /\ ~isTransitioning
    /\ isShown' = FALSE
    /\ showClass' = FALSE
    /\ onShow' = onShow + link
    /\ listeners' = listeners \ (Bound \ {"mouseup"})
    /\ IF fade
       THEN /\ isTransitioning' = TRUE
            /\ wait' = wait \cup {Callback(Element, "hideModal")}
            /\ UNCHANGED <<display, backdrop, dom, body, adjusted, onHidden>>
       ELSE _hideModal(wait)
    /\ UNCHANGED <<fade, config, exists, made, ignoreClick, misuse>>

\* Modal.dispose: the instance and its handlers are gone, not what it has done
\* to the document, and not the callbacks that wait.
dispose ==
    /\ exists
    /\ exists' = FALSE
    /\ isShown' = FALSE
    /\ isTransitioning' = FALSE
    /\ backdrop' = 0
    /\ ignoreClick' = FALSE
    /\ listeners' = {}
    /\ wait' = {[h EXCEPT !.live = FALSE] : h \in wait}
    /\ onShow' = 0
    /\ onHidden' = 0
    /\ misuse' = misuse \cup IF isShown \/ wait # {} THEN {"disposed"} ELSE {}
    /\ UNCHANGED <<fade, config, dom, made, display, showClass, body, adjusted>>
-----------------------------------------------------------------------------
\* The end of a transition of h.on runs h.  A callback of a disposed instance
\* comes first and throws, so what waits behind it waits for the next report.
Ends(h) ==
    /\ h \in wait
    /\ h.live => \A g \in wait : g.on = h.on => g.live

\* The backdrop has faded in.
showElement(h) ==
    /\ Ends(h) /\ h.live /\ h.do = "showElement"
    /\ UNCHANGED config
    /\ _showElement(wait \ {h}, listeners, isTransitioning)
    /\ UNCHANGED <<fade, exists, isShown, backdrop, ignoreClick, dom, made,
                   adjusted, body, onShow, onHidden, misuse>>

\* Mutant of transitionComplete: the flag stays.
transitionCompleteKeeps(h) ==
    /\ Ends(h) /\ h.live /\ h.do = "complete"
    /\ wait' = wait \ {h}
    /\ UNCHANGED <<fade, instVars, dom, made, elemVars, body, onShow, onHidden, misuse>>

\* The dialog has moved in: "shown".
transitionComplete(h) ==
    /\ Ends(h) /\ h.live /\ h.do = "complete"
    /\ wait' = wait \ {h}
    /\ isTransitioning' = FALSE
    /\ UNCHANGED <<fade, config, exists, isShown, backdrop, ignoreClick, dom, made,
                   elemVars, body, onShow, onHidden, misuse>>

\* The element has faded out.
hideModal(h) ==
    /\ Ends(h) /\ h.live /\ h.do = "hideModal"
    /\ _hideModal(wait \ {h})
    /\ UNCHANGED <<fade, config, exists, isShown, ignoreClick, made, showClass,
                   listeners, onShow, misuse>>

\* Mutant of callbackRemove: the backdrop is taken out and still referred to.
callbackRemoveKeeps(h) ==
    /\ Ends(h) /\ h.live /\ h.do = "remove"
    /\ wait' = wait \ {h}
    /\ dom' = dom \ {backdrop}
    /\ Hidden
    /\ UNCHANGED <<fade, instVars, made, display, showClass, listeners, onShow, misuse>>

\* A backdrop has faded out: _removeBackdrop takes away the one the instance
\* refers to by then.
callbackRemove(h) ==
    /\ Ends(h) /\ h.live /\ h.do = "remove"
    /\ wait' = wait \ {h}
    /\ dom' = dom \ {backdrop}
    /\ backdrop' = 0
    /\ Hidden
    /\ UNCHANGED <<fade, config, exists, isShown, isTransitioning, ignoreClick, made,
                   display, showClass, listeners, onShow, misuse>>

\* A callback of a disposed instance throws; the one that ends hiding has taken
\* the body's class away by then.
throw(h) ==
    /\ Ends(h) /\ ~h.live
    /\ wait' = wait \ {h}
    /\ body' = IF h.do = "remove" THEN [body EXCEPT !.open = FALSE] ELSE body
    /\ UNCHANGED <<fade, instVars, dom, made, elemVars, onShow, onHidden, misuse>>

TransitionEnd(h) ==
    showElement(h) \/ transitionComplete(h) \/ hideModal(h) \/ callbackRemove(h) \/ throw(h)
-----------------------------------------------------------------------------
\* Escape, a click on a dismiss button, a click on the backdrop.
keydown == "keydown" \in listeners /\ hide(0)
dismiss == "dismiss" \in listeners /\ hide(0)

backdropClick ==
    /\ "backdropClick" \in listeners
    /\ ~ignoreClick /\ config.backdrop = "true"
    /\ hide(0)

\* The click that ends a drag out of the dialog is not taken for one on the
\* backdrop.
ignoredClick ==
    /\ "backdropClick" \in listeners
    /\ ignoreClick
    /\ ignoreClick' = FALSE
    /\ UNCHANGED <<fade, config, exists, isShown, isTransitioning, backdrop, dom, made,
                   wait, elemVars, body, onShow, onHidden, misuse>>

mousedown ==
    /\ "mousedown" \in listeners
    /\ listeners' = listeners \cup {"mouseup"}
    /\ UNCHANGED <<fade, instVars, dom, made, wait, display, showClass, adjusted, body,
                   onShow, onHidden, misuse>>

mouseup(onElement) ==
    /\ "mouseup" \in listeners
    /\ listeners' = listeners \ {"mouseup"}
    /\ ignoreClick' = (ignoreClick \/ onElement)
    /\ UNCHANGED <<fade, config, exists, isShown, isTransitioning, backdrop, dom, made,
                   wait, display, showClass, adjusted, body, onShow, onHidden, misuse>>

\* The window's size changes: handleUpdate.
resize ==
    /\ "resize" \in listeners
    /\ _adjustDialog(body.overflowing)
    /\ UNCHANGED <<fade, instVars, dom, made, wait, display, showClass, listeners, body,
                   onShow, onHidden, misuse>>

User ==
    \/ \E c \in Configs, link \in {0, 1} :
          \/ \E p \in {"no", "early", "late"} : show(c, p, link)
          \/ idle(c, link)
    \/ \E link \in {0, 1} : hide(link)
    \/ keydown \/ dismiss \/ backdropClick \/ ignoredClick
    \/ mousedown \/ \E e \in BOOLEAN : mouseup(e)
    \/ resize
    \/ dispose

Next == User \/ \E h \in wait : TransitionEnd(h)

Spec == Init /\ [][Next]_vars

\* Every transition ends: the emulator's timer sees to it.
Fairness == WF_vars(\E h \in wait : TransitionEnd(h))
-----------------------------------------------------------------------------
TypeOK ==
    /\ fade \in BOOLEAN
    /\ config \in Configs
    /\ {exists, isShown, isTransitioning, display, showClass, ignoreClick, adjusted}
          \subseteq BOOLEAN
    /\ backdrop \in Nat /\ made \in Nat /\ onShow \in Nat /\ onHidden \in Nat
    /\ dom \subseteq 1..made
    /\ wait \subseteq [on : {Element, Dialog} \cup 1..made, live : BOOLEAN,
                       do : {"showElement", "complete", "hideModal", "remove"}]
    /\ listeners \subseteq Bound
    /\ body \in [open : BOOLEAN, padding : Nat, saved : Nat \cup {-1}, own : Nat,
                 overflows : BOOLEAN, overflowing : BOOLEAN]
    /\ misuse \subseteq {"prevented", "reopened", "disposed"}

\* When no transition is under way, the element, the body, the backdrop and
\* the handlers agree with _isShown, however calls, keys, clicks and ends of
\* transitions were interleaved.  The exceptions are the three things the code
\* does not guard against: showing again while the old backdrop fades out
\* (bootstrap.js:2369), disposing of a modal that is shown or moving (2208),
\* and, for the flag alone, preventing the show of a fading modal (2132).
RestIsConsistent ==
    wait = {} /\ misuse \cap {"reopened", "disposed"} = {} =>
        /\ display = isShown
        /\ showClass = isShown
        /\ body.open = isShown
        /\ dom = IF isShown /\ config.backdrop # "false" THEN {backdrop} ELSE {}
        /\ isTransitioning => misuse # {}
        /\ adjusted => isShown

\* While _isTransitioning blocks show and hide, a callback of this instance
\* that will unblock them is on its way; the exception is a prevented show,
\* after which the modal can neither be shown nor hidden any more.
BlockedIsTemporary ==
    isTransitioning /\ "prevented" \notin misuse =>
        \E h \in wait : h.live /\ h.do \in {"showElement", "complete", "hideModal"}

\* Keys, clicks and focus are captured only by a modal that is shown, also
\* after misuse; and a shown one can be dismissed.
CapturesOnlyWhileShown ==
    /\ ~isShown => listeners \subseteq {"mouseup"}
    /\ isShown => {"dismiss", "resize"} \subseteq listeners

\* The instance never refers to a backdrop that is not in the document, and
\* leaves one behind only after the misuse above.
BackdropsAccounted ==
    /\ backdrop # 0 => backdrop \in dom
    /\ misuse \cap {"reopened", "disposed"} = {} => dom \subseteq {backdrop}

\* Every block ends.
Unblocks == isTransitioning /\ "prevented" \notin misuse ~> ~isTransitioning
=============================================================================
