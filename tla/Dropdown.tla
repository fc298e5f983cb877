------------------------------ MODULE Dropdown ------------------------------
(***************************************************************************)
(* The Dropdown plugin of bootstrap.js: toggles with their menus, opened   *)
(* and closed by clicks, keys and scripts, and where the focus goes.  A    *)
(* click or a key is one task of the browser; handlers of the page may     *)
(* prevent what it shows and hides.                                        *)
(***************************************************************************)
EXTENDS Integers, FiniteSets

CONSTANTS
    Dropdowns,      \* a toggle, its parent element and its menu each
    Items,          \* how many items a menu has that are not disabled
    Disabled,       \* dropdowns with a disabled toggle
    InNavbar,       \* dropdowns in a navbar, which need no Popper
    HasPopper       \* Popper is on the page

\* What is assumed of the constants.
ConstantsAssumption ==
    /\ Items \in [Dropdowns -> Nat]
    /\ Disabled \subseteq Dropdowns /\ InNavbar \subseteq Dropdowns
    /\ HasPopper \in BOOLEAN

VARIABLES
    inst,           \* dropdowns with an instance
    menu,           \* dropdowns whose menu has class "show"
    parent,         \* dropdowns whose parent has class "show"
    aria,           \* dropdowns whose toggle is aria-expanded
    popper,         \* dropdowns whose instance has a _popper
    focus,          \* [at, on, item]: a toggle, an item or an input of a menu
    misuse          \* history: what the handlers and scripts did

vars == <<inst, menu, parent, aria, popper, focus, misuse>>

\* Item 0 stands for an input in the menu.
NoFocus == [at |-> "body"]
Toggle(d) == [at |-> "toggle", on |-> d]
ItemOf(d, i) == [at |-> "menu", on |-> d, item |-> i]
Places ==
    {NoFocus} \cup {Toggle(d) : d \in Dropdowns \ Disabled}
              \cup {ItemOf(d, i) : d \in Dropdowns, i \in {0}}
              \cup UNION {{ItemOf(d, i) : i \in 1..Items[d]} : d \in Dropdowns}

Init ==
    /\ inst = {} /\ menu = {} /\ parent = {} /\ aria = {} /\ popper = {}
    /\ focus = NoFocus
    /\ misuse = {}
-----------------------------------------------------------------------------
\* Mutant of Cleared: it goes by the attribute of the toggle.
ClearedExpanded(keep, no) == (inst \cap aria) \ (keep \cup no)

\* The menus that _clearMenus closes: those of instances, open, not kept open
\* by the event itself or by a handler.
Cleared(keep, no) == (inst \cap parent) \ (keep \cup no)

\* A menu that closes is no place for the focus.
FocusAfter(f, closed) == IF f.at = "menu" /\ f.on \in closed THEN NoFocus ELSE f

\* _clearMenus, on an event that keeps the menus of `keep`.
_clearMenus(keep, no) ==
    LET closed == Cleared(keep, no)
    IN  /\ menu' = menu \ closed
        /\ parent' = parent \ closed
        /\ aria' = aria \ closed
        /\ focus' = FocusAfter(focus, closed)
        /\ UNCHANGED <<inst, popper>>

\* Mutant of toggle: the other menus stay open.
toggleAlone(d, no) ==
    LET opens == d \notin menu \cup no \cup Disabled
        closed == {d} \cap parent
    IN  /\ inst' = inst \cup {d}
        /\ menu' = IF opens THEN menu \cup {d} ELSE menu \ closed
        /\ parent' = IF opens THEN parent \cup {d} ELSE parent \ closed
        /\ aria' = IF opens THEN aria \cup {d} ELSE aria \ closed
        /\ popper' = popper
        /\ focus' = IF opens THEN Toggle(d) ELSE FocusAfter(focus, closed)

\* toggle, of the instance the first call makes: all menus close, and this one
\* opens if it was not open.  Outside a navbar it throws without Popper.
toggle(d, no) ==
    LET closed == {e \in inst \cup {d} : e \in parent} \ no
        opens == d \notin menu \cup no /\ (d \in InNavbar \/ HasPopper)
        new == IF opens THEN {d} ELSE {}
    IN  /\ inst' = inst \cup {d}
        /\ IF d \in Disabled
           THEN UNCHANGED <<menu, parent, aria, popper, focus>>
           ELSE /\ menu' = (menu \ closed) \cup new
                /\ parent' = (parent \ closed) \cup new
                /\ aria' = (aria \ closed) \cup new
                /\ popper' = popper \cup (new \ InNavbar)
                /\ focus' = IF opens THEN Toggle(d) ELSE FocusAfter(focus, closed)

Notes(no) == misuse' = misuse \cup IF no \cap parent # {} THEN {"prevented"} ELSE {}

\* A click on a toggle: by the instance's own handler, or the document's.
ClickToggle(d, no) == toggle(d, no) /\ Notes(no)

\* A click elsewhere, on an item of a menu, or on an input of menu d, which
\* keeps it.  (In a form of a menu a click is stopped and does nothing.)
Click(keep, no) == _clearMenus(keep, no) /\ Notes(no)

\* The Tab key moves the focus and closes the menus it is not in.
Tab(f, no) ==
    /\ f.at = "menu" => f.on \in menu
    /\ LET keep == IF f.at = "body" THEN {} ELSE {f.on}
           closed == Cleared(keep, no)
       IN  /\ menu' = menu \ closed
           /\ parent' = parent \ closed
           /\ aria' = aria \ closed
           /\ focus' = FocusAfter(f, closed)
           /\ UNCHANGED <<inst, popper>>
    /\ Notes(no)

\* Mutant of escape: the focus stays where it is.
escapeStays(d, no) ==
    /\ IF focus.at = "toggle" THEN toggle(d, no) ELSE _clearMenus({}, no)
    /\ Notes(no)

\* Escape in a dropdown: the focus goes to the toggle, and a click is triggered
\* on the toggle, or on the menu if the key was pressed in there.
escape(d, no) ==
    /\ IF focus.at = "toggle"
       THEN toggle(d, no)
       ELSE LET closed == Cleared({}, no)
            IN  /\ menu' = menu \ closed
                /\ parent' = parent \ closed
                /\ aria' = aria \ closed
                /\ focus' = Toggle(d)
                /\ UNCHANGED <<inst, popper>>
    /\ Notes(no)

\* Mutant of nextItem: the step is not bounded by the list.
nextItemUnbounded(d, which) ==
    LET index == IF focus.at = "menu" THEN focus.item ELSE 0
    IN  IF which = "up" THEN index - 1 ELSE index + 1

\* The item an arrow key leads to; from the toggle it is the first one.
nextItem(d, which) ==
    LET index == IF focus.at = "menu" THEN focus.item ELSE 0
        moved == IF which = "up" /\ index > 1 THEN index - 1
                 ELSE IF which = "down" /\ index < Items[d] THEN index + 1
                 ELSE index
    IN  IF moved < 1 THEN 1 ELSE moved

\* _dataApiKeydownHandler, for the toggle or the menu that has the focus.  In an
\* input only Escape counts.
_dataApiKeydownHandler(which, no) ==
    /\ focus.at # "body"
    /\ LET d == focus.on
           input == focus.at = "menu" /\ focus.item = 0
       IN  CASE which = "esc" -> escape(d, no)
             [] which # "esc" /\ input ->
                    UNCHANGED vars
             [] which # "esc" /\ ~input /\ d \notin parent ->
                    toggle(d, no) /\ Notes(no)
             [] which # "esc" /\ ~input /\ d \in parent ->
                    /\ focus' = IF Items[d] = 0 THEN focus ELSE ItemOf(d, nextItem(d, which))
                    /\ UNCHANGED <<inst, menu, parent, aria, popper, misuse>>

\* show called by a script: neither aria, nor the other menus, nor Popper.
show(d, no) ==
    /\ inst' = inst \cup {d}
    /\ IF d \in Disabled \cup menu \cup no
       THEN UNCHANGED <<menu, parent, misuse>>
       ELSE /\ menu' = menu \cup {d}
            /\ parent' = parent \cup {d}
            /\ misuse' = misuse \cup {"scripted"}
    /\ UNCHANGED <<aria, popper, focus>>

\* Mutant of hide: the parent keeps its class.
hideMenu(d, no) ==
    /\ inst' = inst \cup {d}
    /\ IF d \in Disabled \cup no \/ d \notin menu
       THEN UNCHANGED <<menu, parent, focus, misuse>>
       ELSE /\ menu' = menu \ {d}
            /\ focus' = FocusAfter(focus, {d})
            /\ misuse' = misuse \cup {"scripted"}
            /\ UNCHANGED parent
    /\ UNCHANGED <<aria, popper>>

\* hide called by a script: aria stays.
hide(d, no) ==
    /\ inst' = inst \cup {d}
    /\ IF d \in Disabled \cup no \/ d \notin menu
       THEN UNCHANGED <<menu, parent, focus, misuse>>
       ELSE /\ menu' = menu \ {d}
            /\ parent' = parent \ {d}
            /\ focus' = FocusAfter(focus, {d})
            /\ misuse' = misuse \cup {"scripted"}
    /\ UNCHANGED <<aria, popper>>

\* dispose: the classes stay, and an open menu has nobody to close it.
dispose(d) ==
    /\ inst' = inst \ {d}
    /\ popper' = popper \ {d}
    /\ misuse' = misuse \cup IF d \in menu THEN {"disposed"} ELSE {}
    /\ UNCHANGED <<menu, parent, aria, focus>>

Next ==
    \/ \E no \in SUBSET Dropdowns :
          \/ \E d \in Dropdowns : ClickToggle(d, no) \/ show(d, no) \/ hide(d, no)
          \/ \E keep \in {{}} \cup {{d} : d \in menu} : Click(keep, no)
          \/ \E f \in Places : Tab(f, no)
          \/ \E which \in {"esc", "up", "down"} : _dataApiKeydownHandler(which, no)
    \/ \E d \in Dropdowns : dispose(d)

Spec == Init /\ [][Next]_vars
-----------------------------------------------------------------------------
\* Menu and parent open and close together, and the focus is in no closed menu.
TypeOK ==
    /\ inst \subseteq Dropdowns /\ menu \subseteq Dropdowns
    /\ aria \subseteq Dropdowns /\ popper \subseteq inst \ InNavbar
    /\ menu = parent
    /\ focus \in Places \cup {Toggle(d) : d \in Dropdowns}
    /\ focus.at = "menu" => focus.on \in menu

\* However the visitor clicks and types, at most one menu is open and exactly
\* its toggle is announced as expanded.
OneMenuOpen ==
    misuse = {} => Cardinality(menu) <= 1 /\ aria = menu

\* A click elsewhere closes every menu that no handler keeps open, also those
\* a script has opened, unless a script disposed of one that was open.
ClickCloses ==
    [][menu' # {} /\ Click({}, {}) => "disposed" \in misuse]_vars

\* Escape in an open menu closes it, and the focus is on its toggle.
EscapeReturns ==
    [][menu # {} /\ _dataApiKeydownHandler("esc", {}) /\ focus.on \in menu
            /\ "disposed" \notin misuse =>
          focus.on \notin menu' /\ focus' = Toggle(focus.on)]_vars

\* The arrow keys lead into the open menu and never out of it, one item a time.
ArrowsStayInMenu ==
    [][\A which \in {"up", "down"} :
          focus' # focus /\ _dataApiKeydownHandler(which, {}) /\ focus.on \in menu =>
             /\ focus' \in Places /\ focus'.at = "menu" /\ focus'.on = focus.on
             /\ focus.at = "menu" => focus'.item - focus.item \in {-1, 1}]_vars
=============================================================================
