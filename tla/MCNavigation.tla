---------------------------- MODULE MCNavigation ----------------------------
(***************************************************************************)
(* Navigation on one page.  A behaviour is about one component, chosen at  *)
(* the start; the others stay as they are in a fresh page.                 *)
(***************************************************************************)
EXTENDS Navigation, TLC

CONSTANTS
    CarouselCalls, TabCalls   \* bounds of the calls

VARIABLES
    widget,         \* what the behaviour is about
    calls           \* how often users and scripts have called it
-----------------------------------------------------------------------------
\* Percentages at and around the limits 0, 50 and 75.
MCPercentages == {0, 50, 51, 75, 76}

\* The defaults, an element without class "slide", one that does not wrap.
MCCarouselOptions ==
    {[interval |-> TRUE, wrap |-> TRUE, hover |-> TRUE, slide |-> TRUE],
     [interval |-> TRUE, wrap |-> FALSE, hover |-> FALSE, slide |-> FALSE],
     [interval |-> FALSE, wrap |-> FALSE, hover |-> TRUE, slide |-> TRUE]}

\* Two menus of a navbar, one of them with a single item and a disabled
\* toggle, and a dropdown outside of it.
MCMenuItems == ("a" :> 2) @@ ("b" :> 1) @@ ("c" :> 0)
-----------------------------------------------------------------------------
carouselVars == <<options, car, want, carMisuse>>
dropdownVars == <<inst, menu, parent, aria, popper, menuFocus, menuMisuse>>
tabVars      == <<fade, linkActive, dropActive, paneActive, paneShow, wait, tabMisuse>>
spyVars      == <<layout, height, scroll, offsets, known, activeTarget, links, processed>>
buttonVars   == <<active, checked, pressed, buttonFocus>>

mcVars == <<widget, calls, vars, carouselVars, dropdownVars, tabVars,
            spyVars, buttonVars>>

\* The behaviour is about w, or w is as it is on some fixed page.
Chosen(w, first) == widget = w \/ first

MCInit ==
    /\ widget \in {"progress", "carousel", "dropdown", "tab", "scrollspy", "button"}
    /\ calls = 0
    /\ Init
    /\ Carousel!Init /\ Chosen("carousel", options.wrap /\ car.indicator = 1)
    /\ Dropdown!Init
    /\ Tab!Init /\ Chosen("tab", fade = {} /\ linkActive = {1})
    /\ ScrollSpy!Init
    /\ Chosen("scrollspy", height = 5 /\ \A i \in Targets : layout[i] = 0)
    /\ Button!Init /\ Chosen("button", active = {})

\* A call of the component counts, a step of the browser does not.
Called(bound) == calls < bound /\ calls' = calls + 1
Browser       == UNCHANGED calls
Rest          == UNCHANGED mcVars

CarouselStep ==
    \/ Called(CarouselCalls) /\ (Carousel!User \/ Carousel!Timers)
    \/ Browser /\ (Carousel!TransitionEnd \/ \E no \in BOOLEAN : Carousel!Slid(no))
    \/ calls = CarouselCalls /\ car.wait = <<>> /\ car.slid = <<>> /\ Rest

TabStep ==
    \/ Called(TabCalls) /\ \E l \in 1..TabLinks : Tab!show(l)
    \/ Browser /\ \E p \in 1..TabLinks : Tab!TransitionEnd(p)
    \/ calls = TabCalls /\ Tab!AtRest /\ Rest

MCNext ==
    /\ UNCHANGED widget
    /\ \/ /\ widget = "progress" /\ Next /\ Browser
          /\ UNCHANGED <<carouselVars, dropdownVars, tabVars, spyVars, buttonVars>>
       \/ /\ widget = "carousel" /\ CarouselStep
          /\ UNCHANGED <<vars, dropdownVars, tabVars, spyVars, buttonVars>>
       \/ /\ widget = "dropdown" /\ Dropdown!Next /\ Browser
          /\ UNCHANGED <<vars, carouselVars, tabVars, spyVars, buttonVars>>
       \/ /\ widget = "tab" /\ TabStep
          /\ UNCHANGED <<vars, carouselVars, dropdownVars, spyVars, buttonVars>>
       \/ /\ widget = "scrollspy" /\ ScrollSpy!Next /\ Browser
          /\ UNCHANGED <<vars, carouselVars, dropdownVars, tabVars, buttonVars>>
       \/ /\ widget = "button" /\ Button!Next /\ Browser
          /\ UNCHANGED <<vars, carouselVars, dropdownVars, tabVars, spyVars>>

MCSpec ==
    /\ MCInit /\ [][MCNext]_mcVars
    /\ Carousel!Fairness /\ Tab!Fairness
=============================================================================
