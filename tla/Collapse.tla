------------------------------ MODULE Collapse ------------------------------
(***************************************************************************)
(* The Collapse plugin of bootstrap.js: panels, the triggers that toggle   *)
(* them, and the accordion that wants one panel open.  A call may hide     *)
(* other panels on its way, so the plugin's functions map the state of the *)
(* page, and an action is one task of the browser.                         *)
(***************************************************************************)
EXTENDS Integers, Sequences, FiniteSets

CONSTANTS
    N,              \* the panels are 1..N, in the order of the document
    Triggers,       \* the targets of each data-toggle element, in that order
    Accordion       \* the panels have a data-parent

Panels == 1..N

\* What is assumed of the constants.
ConstantsAssumption ==
    /\ N \in Nat \ {0}
    /\ Triggers \in Seq(SUBSET Panels)
    /\ Accordion \in BOOLEAN

VARIABLES
    page,           \* the panels, triggers and instances: see Init
    misuse          \* history: what the instances do not guard against

vars == <<page, misuse>>

\* class: classes of a panel; inst: its instance, or 0; busy: the instances
\* with _isTransitioning; dead: those disposed of; made: how many there have
\* been; wait: callbacks that wait for the panel's transition to end, oldest
\* first; expanded: aria-expanded (and no class collapsed) of a trigger.
Init ==
    /\ \E open \in SUBSET Panels :
          /\ Accordion => Cardinality(open) <= 1
          /\ page = [class |-> [p \in Panels |-> IF p \in open THEN {"collapse", "show"}
                                                               ELSE {"collapse"}],
                     inst |-> [p \in Panels |-> 0],
                     busy |-> {}, dead |-> {}, made |-> 0,
                     wait |-> [p \in Panels |-> <<>>],
                     expanded |-> [t \in DOMAIN Triggers |-> Triggers[t] \cap open # {}]]
    /\ misuse = {}

Open(S, p) == "show" \in S.class[p]

\* The triggers of a panel, and the elements the last one selects.
_triggerArray(p) == {t \in DOMAIN Triggers : p \in Triggers[t]}
_selector(p) ==
    UNION {Triggers[t] : t \in {u \in _triggerArray(p) : \A v \in _triggerArray(p) : v <= u}}

\* Mutant of Move: the classes of the old state stay.
MoveAdds(S, p, i, do) ==
    [S EXCEPT !.class[p] = @ \cup {"collapsing"},
              !.busy = @ \cup {i},
              !.wait[p] = Append(@, [inst |-> i, do |-> do])]

\* A panel starts to move: its instance i is in transition until do completes.
Move(S, p, i, do) ==
    [S EXCEPT !.class[p] = {"collapsing"},
              !.busy = @ \cup {i},
              !.wait[p] = Append(@, [inst |-> i, do |-> do])]
-----------------------------------------------------------------------------
\* Mutant of hide: the triggers are looked at before the panel loses its class.
hideLooksFirst(S, p, i, no) ==
    IF i \in S.busy \/ ~Open(S, p) \/ p \in no
    THEN S
    ELSE [Move(S, p, i, "hide") EXCEPT !.expanded = [t \in DOMAIN Triggers |->
                 S.expanded[t] /\ ~(p \in Triggers[t] /\ ~\E q \in Triggers[t] : Open(S, q))]]

\* hide, of instance i of panel p; the handlers of the panels in no prevent it.
\* A trigger is collapsed once none of its targets is open.
hide(S, p, i, no) ==
    IF i \in S.busy \/ ~Open(S, p) \/ p \in no
    THEN S
    ELSE LET moved == Move(S, p, i, "hide")
         IN  [moved EXCEPT !.expanded = [t \in DOMAIN Triggers |->
                 S.expanded[t] /\ ~(p \in Triggers[t] /\ ~\E q \in Triggers[t] : Open(moved, q))]]

\* new Collapse, up to its toggle: without a parent the triggers are made to
\* agree with the panel.
Constructed(S, p) ==
    [S EXCEPT !.made = @ + 1,
              !.expanded = [t \in DOMAIN Triggers |->
                  IF p \in Triggers[t] /\ ~Accordion THEN Open(S, p) ELSE S.expanded[t]]]

\* _jQueryInterface with "hide" on the panels of others, in document order.
hideOthers(S, others, no) ==
    LET after[p \in 0..N] ==
            IF p = 0 THEN S
            ELSE IF p \notin others THEN after[p - 1]
            ELSE LET known == after[p - 1].inst[p] # 0
                     T == IF known THEN after[p - 1] ELSE Constructed(after[p - 1], p)
                     i == IF known THEN T.inst[p] ELSE T.made
                 IN  [hide(T, p, i, no) EXCEPT !.inst[p] = i]
    IN  after[N]

\* Mutant of actives: panels that move are forgotten.
activesOpen(S) == IF Accordion THEN {q \in Panels : "show" \in S.class[q]} ELSE {}

\* Panels of the accordion that are open or move.
actives(S) ==
    IF Accordion THEN {q \in Panels : S.class[q] \cap {"show", "collapsing"} # {}} ELSE {}

\* The instance of the first of some panels, or 0.
DataOf(S, ps) ==
    IF ps = {} THEN 0 ELSE S.inst[CHOOSE q \in ps : \A r \in ps : q <= r]

\* show, of instance i of panel p.  The others are hidden first; if the first
\* of them had no instance, all active panels lose theirs.
show(S, p, i, no) ==
    LET act == actives(S)
        others == act \ _selector(p)
        activesData == DataOf(S, others)
        hidden == hideOthers(S, others, no)
        rid == IF activesData # 0 THEN hidden
               ELSE [hidden EXCEPT !.inst = [q \in Panels |->
                                                IF q \in act THEN 0 ELSE hidden.inst[q]]]
        moved == Move(rid, p, i, "show")
    IN  IF i \in S.busy \/ Open(S, p) \/ activesData \in S.busy \/ p \in no
        THEN S
        ELSE [moved EXCEPT !.expanded = [t \in DOMAIN Triggers |->
                                            p \in Triggers[t] \/ moved.expanded[t]]]

toggle(S, p, i, no) == IF Open(S, p) THEN hide(S, p, i, no) ELSE show(S, p, i, no)

\* dispose keeps the classes and the callbacks, which find no element.
dispose(S, p, i) ==
    [S EXCEPT !.inst[p] = 0, !.busy = @ \ {i}, !.dead = @ \cup {i}]

\* One call on a panel: "show", "hide", "toggle", "dispose", or the options of
\* a trigger ("options").  A new instance toggles by itself, unless it is made
\* for show or hide, and becomes the panel's data when it has been made.
_jQueryInterface(S, p, call, no) ==
    LET fresh == Constructed(S, p)
        made == [(IF call \in {"show", "hide"} THEN fresh ELSE toggle(fresh, p, fresh.made, no))
                    EXCEPT !.inst[p] = fresh.made]
        T == IF S.inst[p] = 0 THEN made ELSE S
        i == T.inst[p]
    IN  CASE call = "show"    -> show(T, p, i, no)
          [] call = "hide"    -> hide(T, p, i, no)
          [] call = "toggle"  -> toggle(T, p, i, no)
          [] call = "dispose" -> dispose(T, p, i)
          [] call = "options" -> T

\* What a task that leads to the page T does wrong: handlers that keep a panel
\* of an accordion open, a show that finds a panel without an instance, an
\* instance lost in the middle of a transition.
Noted(T, no) ==
    misuse \cup (IF no # {} THEN {"prevented"} ELSE {})
           \cup (IF T.busy \subseteq {T.inst[p] : p \in Panels} THEN {} ELSE {"dropped"})
           \cup (IF \E p \in Panels : \E k \in DOMAIN T.wait[p] :
                       T.wait[p][k].inst \in T.dead
                 THEN {"disposed"} ELSE {})

\* A call of a script.
Call(p, call, no) ==
    /\ page' = _jQueryInterface(page, p, call, no)
    /\ misuse' = Noted(page', no)

\* A click on a trigger: each of its targets in turn, with "toggle" if it has
\* an instance and with the trigger's options otherwise.
click(t, no) ==
    /\ page' = LET after[p \in 0..N] ==
                       IF p = 0 THEN page
                       ELSE IF p \notin Triggers[t] THEN after[p - 1]
                       ELSE _jQueryInterface(after[p - 1], p,
                               IF after[p - 1].inst[p] # 0 THEN "toggle" ELSE "options", no)
               IN  after[N]
    /\ misuse' = Noted(page', no)

\* Mutant of Completed: the instance stays in transition.
CompletedBusy(S, p, c) ==
    IF c.inst \in S.dead
    THEN S
    ELSE [S EXCEPT !.class[p] = {"collapse"} \cup IF c.do = "show" THEN {"show"} ELSE {}]

\* complete of show or hide.
Completed(S, p, c) ==
    IF c.inst \in S.dead
    THEN S
    ELSE [S EXCEPT !.class[p] = {"collapse"} \cup IF c.do = "show" THEN {"show"} ELSE {},
                   !.busy = @ \ {c.inst}]

\* The end of a panel's transition runs all callbacks that wait for it.  show
\* of a disposed instance throws, and those after it wait for the next event.
TransitionEnd(p) ==
    LET w == page.wait[p]
        throws == {k \in DOMAIN w : w[k].inst \in page.dead /\ w[k].do = "show"}
        last == IF throws = {} THEN Len(w) ELSE CHOOSE k \in throws : \A j \in throws : k <= j
        after[k \in 0..Len(w)] ==
            IF k = 0 THEN page ELSE Completed(after[k - 1], p, w[k])
    IN  /\ w # <<>>
        /\ page' = [after[last] EXCEPT !.wait[p] = SubSeq(w, last + 1, Len(w))]
        /\ UNCHANGED misuse

User ==
    \E no \in SUBSET Panels :
        \/ \E p \in Panels, c \in {"show", "hide", "toggle", "dispose"} : Call(p, c, no)
        \/ \E t \in DOMAIN Triggers : click(t, no)

Next == User \/ \E p \in Panels : TransitionEnd(p)

Fairness == \A p \in Panels : WF_vars(TransitionEnd(p))

Spec == Init /\ [][Next]_vars /\ Fairness
-----------------------------------------------------------------------------
AtRest(p) == page.wait[p] = <<>>

\* The page is well formed: a panel is closed, open or moving, never two of
\* these, whatever instances have worked on it.
TypeOK ==
    /\ \A p \in Panels :
          /\ page.class[p] \in {{"collapse"}, {"collapse", "show"}, {"collapsing"}}
          /\ page.inst[p] \in 0..page.made
    /\ page.busy \subseteq 1..page.made
    /\ page.expanded \in [DOMAIN Triggers -> BOOLEAN]

\* No panel is stuck: an instance in transition has a callback that will end
\* it, and a panel rests half open only after a dispose in mid-transition.
NeverStuck ==
    /\ \A i \in page.busy : \E p \in Panels : \E k \in DOMAIN page.wait[p] :
          page.wait[p][k].inst = i
    /\ "disposed" \notin misuse =>
          \A p \in Panels : AtRest(p) => page.class[p] # {"collapsing"}

\* What a trigger tells assistive technology of panels at rest: it claims to be
\* expanded only if one of them is open, and does so if it is theirs alone (the
\* instance made for a closed panel collapses the triggers it shares).
TriggersTellTheTruth ==
    \A t \in DOMAIN Triggers :
        LET targets == Triggers[t]
            open == \E p \in targets : Open(page, p)
        IN  (\A p \in targets : AtRest(p) /\ page.class[p] # {"collapsing"}) =>
                /\ page.expanded[t] => open
                /\ open /\ Cardinality(targets) = 1 => page.expanded[t]

\* An accordion at rest has at most one open panel, unless a handler kept one
\* open, an instance was lost in the middle of a transition, or the trigger of a
\* panel leads to others as well.
OneOpen ==
    /\ Accordion /\ misuse = {} /\ \A p \in Panels : _selector(p) \subseteq {p} /\ AtRest(p)
    =>
        Cardinality({p \in Panels : Open(page, p)}) <= 1

\* A panel that moves comes to rest, and then obeys again.
Settles == \A p \in Panels : ~AtRest(p) ~> (AtRest(p) /\ page.inst[p] \notin page.busy)
=============================================================================
