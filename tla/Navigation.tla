----------------------------- MODULE Navigation -----------------------------
(***************************************************************************)
(* What a visitor moves about a page with and looks at: a carousel with    *)
(* any of its options, dropdowns, tabs, a scroll spy, buttons and progress *)
(* bars.  They share no state.                                             *)
(***************************************************************************)
EXTENDS Progress

CONSTANTS
    CarouselItems, CarouselOptions,                  \* how many items
    Dropdowns, MenuItems, NoToggle, InNavbar, HasPopper,
    TabLinks, TabDrop, NoTab,                        \* how many links
    Targets, Tops, Heights, View, Offset,            \* of a scroll spy
    Radios, Checkboxes, Plain, NoInput               \* the buttons

VARIABLES
    options, car, want, carMisuse,
    inst, menu, parent, aria, popper, menuFocus, menuMisuse,
    fade, linkActive, dropActive, paneActive, paneShow, wait, tabMisuse,
    layout, height, scroll, offsets, known, activeTarget, links, processed,
    active, checked, pressed, buttonFocus
-----------------------------------------------------------------------------
Carousel == INSTANCE Carousel WITH
    N <- CarouselItems, Options <- CarouselOptions, misuse <- carMisuse

Dropdown == INSTANCE Dropdown WITH
    Items <- MenuItems, Disabled <- NoToggle, focus <- menuFocus, misuse <- menuMisuse

Tab == INSTANCE Tab WITH
    N <- TabLinks, Drop <- TabDrop, Disabled <- NoTab, misuse <- tabMisuse

ScrollSpy == INSTANCE ScrollSpy

Button == INSTANCE Button WITH Disabled <- NoInput, focus <- buttonFocus

ASSUME PageAssumption ==
    /\ Carousel!ConstantsAssumption /\ Dropdown!ConstantsAssumption
    /\ Tab!ConstantsAssumption /\ ScrollSpy!ConstantsAssumption
    /\ Button!ConstantsAssumption
-----------------------------------------------------------------------------
\* At rest one item is active, with its indicator; there is one interval at most
\* and none while it is paused; of several quick choices the last is shown in
\* the end (bootstrap.js:697 to 1060).
CarouselIsConsistent ==
    /\ Carousel!TypeOK /\ Carousel!OneItemAtRest
    /\ Carousel!OneInterval /\ Carousel!LastChoiceIsShown

\* A pause outlives the mouse, timers, swipes, slides and choices of other items,
\* those that waited for a slide as well (bootstrap.js:713 to 790).
PauseHolds == Carousel!PauseHolds

\* At most one menu is open, with its parent, and exactly its toggle says so
\* (bootstrap.js:1690 to 1990).
MenusAreConsistent == Dropdown!TypeOK /\ Dropdown!OneMenuOpen

\* A click elsewhere closes every menu, Escape leads back to the toggle and the
\* arrow keys stay in the menu (bootstrap.js:1895 to 2010).
MenusObey == Dropdown!ClickCloses /\ Dropdown!EscapeReturns /\ Dropdown!ArrowsStayInMenu

\* One link is active; at rest its pane is visible; callbacks wait for one pane
\* at a time (bootstrap.js:4040 to 4150).
TabsAreConsistent == Tab!TypeOK /\ Tab!SelectedPaneIsShown /\ Tab!OnePaneFades

\* The link marked is that of the target in view, and old offsets are used at the
\* height they were taken at only (bootstrap.js:3789 to 3850).
SpyMarksTheTarget ==
    /\ [](ScrollSpy!TypeOK /\ ScrollSpy!MarksTheTargetInView)
    /\ ScrollSpy!StaleOnlyAtSameHeight

\* One radio button of a group is active at most, and toggle (a click on the
\* label, not one on the input) makes label and input agree, whatever resets and
\* clicks on inputs have left (bootstrap.js:458 to 500, 518).
ButtonsAgree ==
    /\ [](Button!TypeOK /\ Button!OneOfTheGroup)
    /\ Button!LabelsMakeAgree

\* A choice made while an item slides is served, and every choice of a tab ends
\* with its pane in view (bootstrap.js:738, 4070 to 4150).
ChoicesComeTrue == Carousel!ChoicesAreServed /\ Tab!ChoiceComesIntoView
=============================================================================
