------------------------------- MODULE Button -------------------------------
(***************************************************************************)
(* The Button plugin of bootstrap.js: buttons that toggle, alone or as the *)
(* labels of a group of radio buttons or of checkboxes, whose inputs the   *)
(* browser keeps.                                                          *)
(***************************************************************************)
EXTENDS Integers, FiniteSets

CONSTANTS
    Radios,         \* the buttons of one group of radio buttons, numbered
    Checkboxes,     \* buttons with a checkbox
    Plain,          \* buttons without an input, outside of any group
    Disabled        \* buttons of which the input is disabled

Buttons == Radios \cup Checkboxes \cup Plain

\* What is assumed of the constants.
ConstantsAssumption ==
    /\ Buttons \subseteq Nat /\ IsFiniteSet(Buttons)
    /\ Radios \cap Checkboxes = {} /\ Radios \cap Plain = {} /\ Checkboxes \cap Plain = {}
    /\ Disabled \subseteq Radios \cup Checkboxes

VARIABLES
    active,         \* buttons with class "active"
    checked,        \* buttons with a checked input
    pressed,        \* buttons with aria-pressed="true"
    focus           \* the button with class "focus" (0: none)

vars == <<active, checked, pressed, focus>>

\* A page on which classes and inputs agree.
Init ==
    /\ active \in SUBSET Buttons
    /\ Cardinality(active \cap Radios) <= 1
    /\ checked = active \ Plain
    /\ pressed = active \cap Plain
    /\ focus = 0
-----------------------------------------------------------------------------
\* The browser checks one radio button of a group.
Check(b, on) ==
    IF on THEN {b} \cup (IF b \in Radios THEN checked \ Radios ELSE checked)
    ELSE checked \ {b}

\* The first active button of the radio group, as a set.
ActiveElement == {r \in active \cap Radios : \A s \in active \cap Radios : r <= s}

\* Mutant of toggle: a radio button that is active is left alone.
toggleTrusting(b) ==
    LET group == IF b \in Radios THEN ActiveElement ELSE {}
        was == b \in active \ group
        done == b \in Radios /\ b \in active
    IN  IF done \/ b \in Plain
        THEN UNCHANGED <<active, checked, pressed>> /\ focus' = b
        ELSE /\ active' = IF was THEN active \ {b} ELSE (active \ group) \cup {b}
             /\ checked' = Check(b, ~was)
             /\ focus' = b
             /\ UNCHANGED pressed

\* toggle, called by a script or by a click on a plain button or on a label:
\* the handler's preventDefault only keeps the label from clicking its input.
\* A radio button that is active and checked stays; otherwise the
\* active one of its group loses its class before anything else is looked at,
\* a disabled input then ends the call, and the input gets what the class is
\* about to be.
toggle(b) ==
    LET done == b \in Radios /\ b \in active \cap checked
        lost == IF b \in Radios /\ ~done THEN ActiveElement ELSE {}
        was == b \in active \ lost
    IN  CASE done ->
               /\ focus' = IF b \in Disabled THEN focus ELSE b
               /\ UNCHANGED <<active, checked, pressed>>
          [] ~done /\ b \in Disabled ->
               /\ active' = active \ lost
               /\ UNCHANGED <<checked, pressed, focus>>
          [] ~done /\ b \notin Disabled ->
               /\ active' = IF was THEN active \ {b} ELSE (active \ lost) \cup {b}
               /\ IF b \in Plain
                  THEN /\ pressed' = IF was THEN pressed \ {b} ELSE pressed \cup {b}
                       /\ UNCHANGED <<checked, focus>>
                  ELSE /\ checked' = Check(b, ~was)
                       /\ focus' = b
                       /\ UNCHANGED pressed

\* A click on the input itself (space or an arrow key once toggle has given it
\* the focus).  The browser checks or unchecks the input, toggle sees that, but
\* for the preventDefault of the handler the browser takes back what the click
\* and toggle did to the inputs: only the classes change.
clickInput(b) ==
    LET lost == IF b \in Radios /\ b \notin active THEN ActiveElement ELSE {}
    IN  /\ active' = IF b \in Checkboxes /\ b \in active
                     THEN active \ {b} ELSE (active \ lost) \cup {b}
        /\ focus' = b
        /\ UNCHANGED <<checked, pressed>>

\* The focus leaves or enters a button: its class follows.
FocusBlur(b) == focus' = b /\ UNCHANGED <<active, checked, pressed>>

\* The form is reset, or a script checks an input: no button is told.
Reset ==
    /\ \E c \in SUBSET (Radios \cup Checkboxes) :
          Cardinality(c \cap Radios) <= 1 /\ checked' = c
    /\ UNCHANGED <<active, pressed, focus>>

Next ==
    \/ \E b \in Buttons : toggle(b)
    \/ \E b \in (Radios \cup Checkboxes) \ Disabled : clickInput(b)
    \/ \E b \in (Buttons \ Disabled) \cup {0} : FocusBlur(b)
    \/ Reset

Spec == Init /\ [][Next]_vars
-----------------------------------------------------------------------------
TypeOK ==
    /\ active \subseteq Buttons /\ checked \subseteq Buttons \ Plain
    /\ pressed = active \cap Plain
    /\ focus \in (Buttons \ Disabled) \cup {0}

\* One radio button of the group at most is active, and one checked.
OneOfTheGroup ==
    Cardinality(active \cap Radios) <= 1 /\ Cardinality(checked \cap Radios) <= 1

\* Whatever resets of the form and clicks on inputs have left, toggle (a click on
\* the label) makes the label and its input say the same again, for a radio
\* button those of its group.  A click on the input does not: it leaves them in
\* disagreement until the next click on the label.
ToggleAgrees ==
    \A b \in Buttons \ (Plain \cup Disabled) :
        toggle(b) =>
            /\ b \in active' <=> b \in checked'
            /\ b \in Radios => active' \cap Radios = {b} /\ checked' \cap Radios = {b}

LabelsMakeAgree == [][ToggleAgrees]_vars
=============================================================================
