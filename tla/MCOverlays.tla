----------------------------- MODULE MCOverlays -----------------------------
(***************************************************************************)
(* Overlays on a page of a given shape.  A behaviour is about one of the   *)
(* components, chosen at the start; the others stay as they are in a fresh *)
(* page.                                                                   *)
(***************************************************************************)
EXTENDS Overlays, TLC

CONSTANTS
    AlertCalls, ModalCalls, ToastCalls, TooltipCalls,   \* bounds of the calls
    AccordionCalls, GroupCalls,
    MaxTime                                             \* bound of the time

VARIABLES
    widget,         \* what the behaviour is about
    calls           \* how often users and scripts have called it
-----------------------------------------------------------------------------
\* An alert in an alert and one beside them; buttons in each, one that names
\* another alert and one outside.
MCInside == (1 :> {1, 2}) @@ (2 :> {2}) @@ (3 :> {3})
MCWithin == (1 :> 1) @@ (2 :> 2) @@ (3 :> 3) @@ (4 :> 0)
MCTarget == (1 :> 0) @@ (2 :> 0) @@ (3 :> 2) @@ (4 :> 1)

\* No transition, one, and several of which the first counts.
MCStyles == {[duration |-> <<0>>, delay |-> <<0>>],
             [duration |-> <<1>>, delay |-> <<0>>],
             [duration |-> <<1, 2>>, delay |-> <<1>>]}

\* The default options, and a modal that only its buttons close.
MCModalConfigs == {[backdrop |-> "true", keyboard |-> TRUE, focus |-> TRUE],
                   [backdrop |-> "static", keyboard |-> FALSE, focus |-> TRUE],
                   [backdrop |-> "false", keyboard |-> TRUE, focus |-> FALSE]}

MCToastConfigs == [animation : BOOLEAN, autohide : BOOLEAN]

\* A tooltip with the default options; one with delays; a popover without a
\* title that a click shows; one without transitions; a popover's content alone.
MCTooltipConfigs ==
    {[popover |-> FALSE, title |-> TRUE, content |-> FALSE, animation |-> TRUE,
      delayShow |-> FALSE, delayHide |-> FALSE, trigger |-> {"hover", "focus"}],
     [popover |-> FALSE, title |-> TRUE, content |-> FALSE, animation |-> TRUE,
      delayShow |-> TRUE, delayHide |-> TRUE, trigger |-> {"hover", "focus"}],
     [popover |-> TRUE, title |-> FALSE, content |-> TRUE, animation |-> TRUE,
      delayShow |-> FALSE, delayHide |-> FALSE, trigger |-> {"click"}],
     [popover |-> TRUE, title |-> TRUE, content |-> TRUE, animation |-> FALSE,
      delayShow |-> FALSE, delayHide |-> TRUE, trigger |-> {"hover", "click"}],
     [popover |-> FALSE, title |-> FALSE, content |-> TRUE, animation |-> FALSE,
      delayShow |-> FALSE, delayHide |-> FALSE, trigger |-> {"hover"}]}

\* Three panels with a trigger each; two with a trigger each, and one for both.
MCAccordionTriggers == <<{1}, {2}, {3}>>
MCGroupTriggers == <<{1}, {2}, {1, 2}>>
-----------------------------------------------------------------------------
modalVars == <<modalFade, modalConfig, modalExists, isShown, isTransitioning,
               backdrop, dom, made, modalWait, display, showClass, listeners,
               ignoreClick, body, adjusted, onShow, onHidden, modalMisuse>>
toastVars == <<toastConfig, toastExists, toast, toastMisuse>>
tipVars   == <<tipConfig, tipExists, on, t, tipMisuse>>
accordionVars == <<accordionPage, accordionMisuse>>
groupVars == <<groupPage, groupMisuse>>
panelVars == <<accordionVars, groupVars>>

mcVars == <<widget, calls, vars, transVars, modalVars, toastVars, tipVars,
            panelVars>>

\* The behaviour is about w, or w is as it is with its first options.
Chosen(w, first) == widget = w \/ first

MCInit ==
    /\ widget \in {"alert", "transition", "modal", "toast", "tooltip",
                   "accordion", "group"}
    /\ calls = 0
    /\ Init /\ Chosen("alert", fade = {})
    /\ TransInit
    /\ Modal!Init
    /\ Chosen("modal", /\ ~modalFade /\ modalConfig.backdrop = "true"
                       /\ body.own = 0 /\ ~body.overflows)
    /\ Toast!Init
    /\ Chosen("toast", toast.class = {} /\ toastConfig.animation /\ toastConfig.autohide)
    /\ Tooltip!Init
    /\ Chosen("tooltip", tipConfig.trigger = {"hover"})
    \* The second panel of the accordion may be open at first.
    /\ InAccordion!Init /\ ~accordionPage.expanded[1] /\ ~accordionPage.expanded[3]
    /\ Chosen("accordion", ~accordionPage.expanded[2])
    /\ InGroup!Init /\ Chosen("group", groupPage.expanded = <<FALSE, FALSE, FALSE>>)

\* A call of the component counts, a step of the browser does not.
Called(bound)  == calls < bound /\ calls' = calls + 1
Browser        == UNCHANGED calls
Rest           == UNCHANGED mcVars

AlertStep ==
    \/ Called(AlertCalls) /\ \E b \in Buttons : _handleDismiss(b)
    \/ Called(AlertCalls) /\ \E a \in Alerts : Close(a)
    \/ Browser /\ \E a \in Alerts : TransitionEnd(a)
    \/ (\A a \in Alerts : wait[a] = 0) /\ Rest

\* Times up to MaxTime.
Registered(c) ==
    \E s \in Styles :
        /\ now + getTransitionDurationFromElement(s) <= MaxTime
        /\ transitionEndEmulator(c, getTransitionDurationFromElement(s))

TimePasses == now < MaxTime /\ Tick

TransitionStep ==
    \/ Browser /\ \E c \in Callbacks : Registered(c) \/ timeout(c)
    \/ Browser /\ (NaturalEnd \/ Cancel \/ TimePasses)
    \/ now = MaxTime /\ ~running /\ Rest

ModalStep ==
    \/ Called(ModalCalls) /\ Modal!User
    \/ Browser /\ \E h \in modalWait : Modal!TransitionEnd(h)
    \/ calls = ModalCalls /\ modalWait = {} /\ Rest

ToastStep ==
    \/ Called(ToastCalls) /\ Toast!User
    \/ Browser /\ Toast!Browser
    \/ calls = ToastCalls /\ Toast!AtRest /\ Rest

TooltipStep ==
    \/ Called(TooltipCalls) /\ Tooltip!User
    \/ Browser /\ Tooltip!Browser
    \/ (calls = TooltipCalls \/ ~tipExists) /\ Tooltip!AtRest /\ Rest

AccordionStep ==
    \/ Called(AccordionCalls) /\ InAccordion!User
    \/ Browser /\ \E p \in 1..3 : InAccordion!TransitionEnd(p)
    \/ calls = AccordionCalls /\ (\A p \in 1..3 : InAccordion!AtRest(p)) /\ Rest

GroupStep ==
    \/ Called(GroupCalls) /\ InGroup!User
    \/ Browser /\ \E p \in 1..2 : InGroup!TransitionEnd(p)
    \/ calls = GroupCalls /\ (\A p \in 1..2 : InGroup!AtRest(p)) /\ Rest

MCNext ==
    /\ UNCHANGED widget
    /\ \/ /\ widget = "alert" /\ AlertStep
          /\ UNCHANGED <<transVars, modalVars, toastVars, tipVars, panelVars>>
       \/ /\ widget = "transition" /\ TransitionStep
          /\ UNCHANGED <<vars, modalVars, toastVars, tipVars, panelVars>>
       \/ /\ widget = "modal" /\ ModalStep
          /\ UNCHANGED <<vars, transVars, toastVars, tipVars, panelVars>>
       \/ /\ widget = "toast" /\ ToastStep
          /\ UNCHANGED <<vars, transVars, modalVars, tipVars, panelVars>>
       \/ /\ widget = "tooltip" /\ TooltipStep
          /\ UNCHANGED <<vars, transVars, modalVars, toastVars, panelVars>>
       \/ /\ widget = "accordion" /\ AccordionStep
          /\ UNCHANGED groupVars
          /\ UNCHANGED <<vars, transVars, modalVars, toastVars, tipVars>>
       \/ /\ widget = "group" /\ GroupStep
          /\ UNCHANGED accordionVars
          /\ UNCHANGED <<vars, transVars, modalVars, toastVars, tipVars>>

\* The browser goes on by itself: transitions end, delays and time pass.  One
\* condition for each component is weaker than one for every timer of it.  The
\* tip's is weak fairness written out: its browser can act unless it is at rest.
MCFairness ==
    /\ WF_vars(widget = "alert" /\ \E a \in Alerts : TransitionEnd(a))
    /\ WF_transVars(widget = "transition" /\ (TimePasses \/ \E c \in Callbacks : timeout(c)))
    /\ WF_modalVars(widget = "modal" /\ \E h \in modalWait : Modal!TransitionEnd(h))
    /\ WF_toastVars(widget = "toast" /\ Toast!Browser)
    /\ []<>Tooltip!AtRest \/ []<><<widget = "tooltip" /\ Tooltip!Browser>>_tipVars
    /\ WF_groupVars(widget = "group" /\ \E p \in 1..2 : InGroup!TransitionEnd(p))

MCSpec == MCInit /\ [][MCNext]_mcVars /\ MCFairness
=============================================================================
