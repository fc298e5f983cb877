------------------------------- MODULE Toast -------------------------------
(***************************************************************************)
(* The Toast plugin of bootstrap.js: a message that shows itself, hides    *)
(* itself after a delay and can be dismissed before.                       *)
(***************************************************************************)
EXTENDS Integers, Sequences

CONSTANT Configs      \* options: animation, autohide

\* What is assumed of the options.
ConfigAssumption == Configs \subseteq [animation : BOOLEAN, autohide : BOOLEAN]

VARIABLES
    config,           \* _config
    exists,           \* the element has an instance
    toast,            \* the element and its timers: see Init
    misuse            \* history: what the instance does not guard against

vars == <<config, exists, toast, misuse>>

\* class: classes of the element; wait: callbacks that wait for the end of its
\* transition, oldest first; timers: delays that run; timeout: _timeout, or 0.
Init ==
    /\ config \in Configs
    /\ exists = FALSE
    /\ \E class \in {{}, {"hide"}, {"show"}} :
          toast = [class |-> class, wait |-> <<>>, timers |-> {}, timeout |-> 0, made |-> 0]
    /\ misuse = {}
-----------------------------------------------------------------------------
\* hide without an argument, as "shown" calls it: a delay, then _close.
autohide(T) ==
    IF config.autohide
    THEN [T EXCEPT !.made = @ + 1, !.timeout = T.made + 1, !.timers = @ \cup {T.made + 1}]
    ELSE T

\* Mutant of Shown: the delay is left to the caller.
ShownForGood(T) == [T EXCEPT !.class = (@ \ {"showing"}) \cup {"show"}]

\* complete of show, and complete of _close.
Shown(T) == autohide([T EXCEPT !.class = (@ \ {"showing"}) \cup {"show"}])
Closed(T) == [T EXCEPT !.class = @ \cup {"hide"}]

\* _close: by a delay, a click on data-dismiss or a call of hide.
_close(T) ==
    LET left == [T EXCEPT !.class = @ \ {"show"}]
    IN  IF config.animation THEN [left EXCEPT !.wait = Append(@, "closed")] ELSE Closed(left)

\* Mutant of show: the class "hide" stays.
showHidden ==
    /\ LET T == [toast EXCEPT !.class = @ \cup {"showing"}]
       IN  toast' = IF config.animation THEN [T EXCEPT !.wait = Append(@, "shown")] ELSE Shown(T)
    /\ exists' = TRUE
    /\ UNCHANGED <<config, misuse>>

\* Mutant of show: the delay starts with the transition.
showTimed ==
    /\ LET T == [toast EXCEPT !.class = (@ \ {"hide"}) \cup {"showing"}]
       IN  toast' = IF config.animation
                    THEN autohide([T EXCEPT !.wait = Append(@, "shown")]) ELSE Shown(T)
    /\ exists' = TRUE
    /\ UNCHANGED <<config, misuse>>

\* show, of the instance the first call makes.  A toast that still shows, hides
\* or waits is not told from one at rest.
show ==
    /\ LET fade == IF config.animation THEN {"fade"} ELSE {}
           T == [toast EXCEPT !.class = ((@ \cup fade) \ {"hide"}) \cup {"showing"}]
       IN  toast' = IF config.animation THEN [T EXCEPT !.wait = Append(@, "shown")] ELSE Shown(T)
    /\ exists' = TRUE
    /\ misuse' = misuse \cup
          IF toast.wait # <<>> \/ toast.timers # {} \/ "show" \in toast.class THEN {"overlapped"} ELSE {}
    /\ UNCHANGED config

\* hide with an argument, which a call by name always has: nothing if the toast
\* is not shown (yet).  The delay goes on.
hide ==
    /\ toast' = IF "show" \in toast.class THEN _close(toast) ELSE toast
    /\ exists' = TRUE
    /\ UNCHANGED <<config, misuse>>

\* The delay is over.
Timeout(t) ==
    /\ t \in toast.timers
    /\ toast' = _close([toast EXCEPT !.timers = @ \ {t}])
    /\ UNCHANGED <<config, exists, misuse>>

\* The transition ends: all that waits runs, in order.
TransitionEnd ==
    LET w == toast.wait
        after[k \in 0..Len(w)] ==
            IF k = 0 THEN [toast EXCEPT !.wait = <<>>]
            ELSE IF w[k] = "shown" THEN Shown(after[k - 1]) ELSE Closed(after[k - 1])
    IN  /\ w # <<>>
        /\ toast' = after[Len(w)]
        /\ UNCHANGED <<config, exists, misuse>>

\* Mutant of dispose: the delay goes on.
disposeRunning ==
    /\ exists
    /\ exists' = FALSE
    /\ toast' = [toast EXCEPT !.class = @ \ {"show"}, !.wait = <<>>]
    /\ UNCHANGED <<config, misuse>>

\* dispose.  Callbacks and delays it does not clear throw: there is no element.
dispose ==
    /\ exists
    /\ exists' = FALSE
    /\ toast' = [toast EXCEPT !.class = @ \ {"show"}, !.timers = {}, !.timeout = 0, !.wait = <<>>]
    /\ misuse' = misuse \cup IF toast.wait # <<>> THEN {"disposed"} ELSE {}
    /\ UNCHANGED config

User == show \/ hide \/ dispose
Browser == TransitionEnd \/ \E t \in toast.timers : Timeout(t)

Next == User \/ Browser

Fairness == WF_vars(TransitionEnd) /\ WF_vars(\E t \in toast.timers : Timeout(t))

Spec == Init /\ [][Next]_vars /\ Fairness
-----------------------------------------------------------------------------
AtRest == toast.wait = <<>> /\ toast.timers = {}

\* A toast that was never shown over itself has one delay at most, the one that
\* dispose clears.
TypeOK ==
    /\ toast.class \subseteq {"fade", "show", "showing", "hide"}
    /\ toast.wait # <<>> => exists /\ config.animation
    /\ toast.timers # {} => exists /\ config.autohide
    /\ "overlapped" \notin misuse => toast.timers \subseteq {toast.timeout}

\* At rest a toast is shown or hidden, not both and not half, unless it was
\* shown again before it was hidden or was disposed of in mid-transition.
RestIsConsistent ==
    AtRest /\ misuse = {} =>
        /\ "showing" \notin toast.class
        /\ ~({"show", "hide"} \subseteq toast.class)

\* A toast whose showing ends is not closed before its delay: on its way in it
\* has no timer that could close it.
NoEarlyClose ==
    misuse = {} /\ "showing" \in toast.class => toast.timers = {} /\ toast.wait = <<"shown">>

\* The toast has come, waited and gone, or its instance was disposed of.
Over ==
    \/ ~exists \/ "disposed" \in misuse
    \/ toast.class \cap {"show", "showing"} = {} /\ toast.timers = {}

\* With the option autohide nothing that show has begun stays on the screen, once
\* show is not called any more.
HidesItself == config.autohide /\ exists /\ "showing" \in toast.class ~> Over
=============================================================================
