-------------------------------- MODULE Tab --------------------------------
(***************************************************************************)
(* The Tab plugin of bootstrap.js: a list (UL) of links, the last of them  *)
(* in the menu of a dropdown, with a pane each.  A link is activated at    *)
(* once; a pane with class "fade" only when the pane before it has faded   *)
(* out.  A click is one task, the end of a transition another.             *)
(***************************************************************************)
EXTENDS Integers, Sequences, FiniteSets

CONSTANTS
    N,              \* the links, and their panes, are 1..N
    Drop,           \* links in the dropdown's menu
    Disabled        \* links with class "disabled"

Links == 1..N

\* What is assumed of the constants.
ConstantsAssumption ==
    /\ N \in Nat \ {0}
    /\ Drop \subseteq Links /\ Disabled \subseteq Links
    /\ \A d \in Drop, l \in Links \ Drop : l < d

VARIABLES
    fade,           \* panes with class "fade"
    linkActive,     \* links with class "active", aria-selected
    dropActive,     \* the dropdown's toggle has class "active"
    paneActive,     \* panes with class "active"
    paneShow,       \* panes with class "show"
    wait,           \* targets that wait for a pane to fade out, oldest first
    misuse          \* history: a click came while a pane was fading

vars == <<fade, linkActive, dropActive, paneActive, paneShow, wait, misuse>>

First(set) == CHOOSE x \in set : \A y \in set : x <= y

\* One tab is active.  A pane of class "fade" is visible only with "show".
Init ==
    /\ fade \in SUBSET Links
    /\ \E l \in Links \ Disabled :
          /\ linkActive = {l}
          /\ dropActive = (l \in Drop)
          /\ paneActive = {l}
          /\ paneShow = {l} \cap fade
    /\ wait = [p \in Links |-> <<>>]
    /\ misuse = FALSE
-----------------------------------------------------------------------------
\* Mutant of _activateLink: the toggle of the dropdown is not looked after.
_activateLinkOnly(l) ==
    /\ linkActive' = (linkActive \ {First(linkActive)}) \cup {l}
    /\ dropActive' = (dropActive \/ l \in Drop)

\* _activate of a link: the active item of the list loses its class, be it a
\* link or the dropdown's toggle with the link in its menu.
_activateLink(l) ==
    LET items == linkActive \ Drop
        old == IF items # {} THEN {First(items)}
               ELSE IF dropActive /\ linkActive # {} THEN {First(linkActive)} ELSE {}
    IN  /\ linkActive' = (linkActive \ old) \cup {l}
        /\ dropActive' = (l \in Drop \/ (dropActive /\ items # {}))

\* Mutant of _transitionComplete: the pane that faded out keeps its class.
_transitionCompleteBoth(S, active, target) ==
    [S EXCEPT !.active = @ \cup {target}, !.show = @ \cup ({target} \cap fade)]

\* _transitionComplete of a pane, with the pane that was active before it.
_transitionComplete(S, active, target) ==
    [active |-> (S.active \ active) \cup {target},
     show |-> S.show \cup ({target} \cap fade)]

Panes == [active |-> paneActive, show |-> paneShow]

\* Mutant of _activatePane: the pane fades out and nothing waits for it.
_activatePaneForgets(p) ==
    LET active == IF paneActive = {} THEN {} ELSE {First(paneActive)}
    IN  IF active # {} /\ active \subseteq fade
        THEN /\ paneShow' = paneShow \ active
             /\ UNCHANGED <<paneActive, wait>>
        ELSE LET S == _transitionComplete(Panes, active, p)
             IN  paneActive' = S.active /\ paneShow' = S.show /\ UNCHANGED wait

\* Mutant of _activatePane: it waits for the transition of the new pane.
_activatePaneOwn(p) ==
    LET active == IF paneActive = {} THEN {} ELSE {First(paneActive)}
    IN  IF active # {} /\ active \subseteq fade
        THEN /\ paneShow' = paneShow \ active
             /\ wait' = [wait EXCEPT ![p] = Append(@, p)]
             /\ UNCHANGED paneActive
        ELSE LET S == _transitionComplete(Panes, active, p)
             IN  paneActive' = S.active /\ paneShow' = S.show /\ UNCHANGED wait

\* _activate of a pane: the first active one fades out before it, if it fades.
_activatePane(p) ==
    LET active == IF paneActive = {} THEN {} ELSE {First(paneActive)}
    IN  IF active # {} /\ active \subseteq fade
        THEN /\ paneShow' = paneShow \ active
             /\ wait' = [wait EXCEPT ![First(paneActive)] = Append(@, p)]
             /\ UNCHANGED paneActive
        ELSE LET S == _transitionComplete(Panes, active, p)
             IN  paneActive' = S.active /\ paneShow' = S.show /\ UNCHANGED wait

\* show: by a click or a call.  The handlers of hide and show may prevent it.
show(l) ==
    /\ l \notin linkActive \cup Disabled
    /\ _activateLink(l)
    /\ _activatePane(l)
    /\ misuse' = (misuse \/ \E p \in Links : wait[p] # <<>>)
    /\ UNCHANGED fade

\* A pane has faded out: all that waits for it, in order.
TransitionEnd(p) ==
    LET after[k \in 0..Len(wait[p])] ==
            IF k = 0 THEN Panes ELSE _transitionComplete(after[k - 1], {p}, wait[p][k])
        S == after[Len(wait[p])]
    IN  /\ wait[p] # <<>>
        /\ paneActive' = S.active
        /\ paneShow' = S.show
        /\ wait' = [wait EXCEPT ![p] = <<>>]
        /\ UNCHANGED <<fade, linkActive, dropActive, misuse>>

Next == (\E l \in Links : show(l)) \/ (\E p \in Links : TransitionEnd(p))

Fairness == \A p \in Links : WF_vars(TransitionEnd(p))

Spec == Init /\ [][Next]_vars /\ Fairness
-----------------------------------------------------------------------------
AtRest == \A p \in Links : wait[p] = <<>>

\* One link is selected, and the toggle of the dropdown tells if it is in there.
TypeOK ==
    /\ fade \subseteq Links
    /\ \E l \in Links \ Disabled : linkActive = {l} /\ dropActive = (l \in Drop)
    /\ paneActive \subseteq Links /\ paneShow \subseteq fade
    /\ wait \in [Links -> Seq(Links)]

\* However quick the clicks, in the end the pane of the selected link is
\* visible; it is the only one if no click came while a pane was fading.
SelectedPaneIsShown ==
    AtRest => /\ linkActive \subseteq paneActive
              /\ linkActive \cap fade \subseteq paneShow
              /\ ~misuse => paneActive = linkActive

\* Callbacks wait for one pane at a time, an active one: a click in the middle
\* of a fade queues behind those before it, and the last click decides.
OnePaneFades ==
    \A p \in Links : wait[p] # <<>> =>
        /\ p \in paneActive
        /\ {wait[p][Len(wait[p])]} = linkActive
        /\ \A q \in Links \ {p} : wait[q] = <<>>

\* Every choice ends with its pane in view.
ChoiceComesIntoView ==
    \A l \in Links : l \in linkActive ~> (l \in paneActive \/ l \notin linkActive)
=============================================================================
