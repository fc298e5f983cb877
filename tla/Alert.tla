------------------------------- MODULE Alert -------------------------------
(***************************************************************************)
(* The Alert plugin of bootstrap.js: alerts, which may be inside of one    *)
(* another, and buttons that dismiss them.  An alert with class "fade" is  *)
(* removed when it has faded out.                                          *)
(***************************************************************************)
EXTENDS Integers

CONSTANTS
    Alerts,         \* the alerts of the page
    Inside,         \* an alert and what is inside of it
    Buttons,        \* data-dismiss="alert" buttons
    Within,         \* the alert a button is in, or 0
    Target          \* the alert its data-target or href selects, or 0

ASSUME AlertAssumption ==
    /\ 0 \notin Alerts
    /\ Inside \in [Alerts -> SUBSET Alerts]
    /\ \A a \in Alerts : a \in Inside[a] /\ \A b \in Inside[a] : Inside[b] \subseteq Inside[a]
    /\ Within \in [Buttons -> Alerts \cup {0}]
    /\ Target \in [Buttons -> Alerts \cup {0}]

VARIABLES
    fade,           \* alerts with class "fade"
    present,        \* alerts in the document
    show,           \* alerts with class "show"
    wait,           \* how many callbacks wait for an alert to fade out
    closing,        \* history: alerts of which a close was not prevented
    closed          \* history: how often an alert has told that it is closed

vars == <<fade, present, show, wait, closing, closed>>

Init ==
    /\ fade \in SUBSET Alerts
    /\ present = Alerts
    /\ show = Alerts
    /\ wait = [a \in Alerts |-> 0]
    /\ closing = {}
    /\ closed = [a \in Alerts |-> 0]
-----------------------------------------------------------------------------
\* The alert a button closes: the one selected, or the nearest around it.  (One
\* that has left the document is not found by a selector.)
_getRootElement(b) == IF Target[b] \in present THEN Target[b] ELSE Within[b]

\* Mutant of _destroyElement: only the fading alert itself is taken out.
_destroyElementOnly(a) == present' = present \ {a}

\* _destroyElement: the alert leaves the document with what is inside of it.
_destroyElement(a) == present' = present \ Inside[a]

\* Mutant of close: nothing waits for the transition.
closeForgets(a) ==
    /\ show' = show \ {a}
    /\ closing' = closing \cup {a}
    /\ UNCHANGED <<wait, present, closed>>

\* Mutant of close: "closed" is told when the transition begins.
closeTellsEarly(a) ==
    /\ show' = show \ {a}
    /\ closing' = closing \cup {a}
    /\ wait' = [wait EXCEPT ![a] = @ + 1]
    /\ closed' = [closed EXCEPT ![a] = @ + 1]
    /\ UNCHANGED present

\* close of an alert, unless a handler prevents it: "show" goes, and the alert
\* with it, at once or after the transition.
close(a) ==
    /\ show' = show \ {a}
    /\ closing' = closing \cup {a}
    /\ IF a \in fade
       THEN wait' = [wait EXCEPT ![a] = @ + 1] /\ UNCHANGED <<present, closed>>
       ELSE /\ _destroyElement(a)
            /\ closed' = [closed EXCEPT ![a] = @ + 1]
            /\ UNCHANGED wait

\* A click on a button that can be reached.
_handleDismiss(b) ==
    /\ Within[b] \in present \cup {0}
    /\ _getRootElement(b) # 0
    /\ close(_getRootElement(b))
    /\ UNCHANGED fade

\* A script: $(a).alert('close').
Close(a) == a \in present /\ close(a) /\ UNCHANGED fade

\* An alert has faded out: each callback removes it and tells so.  If it has
\* left the document with an outer one, its data and callbacks are gone.
TransitionEnd(a) ==
    /\ wait[a] > 0
    /\ wait' = [wait EXCEPT ![a] = 0]
    /\ IF a \in present
       THEN /\ _destroyElement(a)
            /\ closed' = [closed EXCEPT ![a] = @ + wait[a]]
       ELSE UNCHANGED <<present, closed>>
    /\ UNCHANGED <<fade, show, closing>>

Next ==
    \/ \E b \in Buttons : _handleDismiss(b)
    \/ \E a \in Alerts : Close(a) \/ TransitionEnd(a)

Fairness == \A a \in Alerts : WF_vars(TransitionEnd(a))

Spec == Init /\ [][Next]_vars /\ Fairness
-----------------------------------------------------------------------------
\* What is in the document has all around it in the document.
TypeOK ==
    /\ fade \subseteq Alerts /\ show \subseteq Alerts
    /\ wait \in [Alerts -> Nat] /\ closed \in [Alerts -> Nat]
    /\ present \subseteq Alerts
    /\ \A a \in Alerts : present \cap Inside[a] # {} => a \in present

\* An alert leaves only when it, or one around it, was to be closed, and says so
\* only when it has left.
LeavesOnlyIfClosed ==
    \A a \in Alerts :
        /\ a \notin present => \E c \in closing : a \in Inside[c]
        /\ closed[a] > 0 => a \notin present

\* The alerts of the document are those that were not closed, with all that is
\* around them.
OnlyClosedAreGone == TypeOK /\ LeavesOnlyIfClosed

\* An alert that is closed leaves the document.
ClosedLeaves == \A a \in Alerts : a \in closing ~> a \notin present
=============================================================================
