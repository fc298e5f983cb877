-------------------------- MODULE NavigationProofs --------------------------
(***************************************************************************)
(* Proofs about Navigation, for any number of items, links, menus, buttons *)
(* and progress bars and any options: what is shown is what was chosen,    *)
(* however calls, clicks, timers and transitions follow each other.        *)
(***************************************************************************)
EXTENDS Navigation, Sequences, FiniteSetTheorems, SequenceTheorems, Induction, TLAPS
-----------------------------------------------------------------------------
(***************************************************************************)
(* Progress bars: what the two halves show, after any sequence of calls of *)
(* the two functions.                                                      *)
(***************************************************************************)

Shape ==
    /\ text \in [Bars -> Percentages] /\ value \in [Bars -> Percentages] /\ text = value
    /\ border \in [Bars -> [Halves -> SUBSET Borders]]
    /\ right \in [Bars -> 0..1800] /\ left \in [Bars -> 0..1800]
    /\ peak \in [Bars -> 0..100] /\ last \in [Bars -> 0..100]

\* Both halves have no colour yet, or that of the number.
Coloured ==
    \A b \in Bars : border[b] = [h \in Halves |-> {}]
                    \/ border[b] = [h \in Halves |-> {Colour(text[b])}]

\* The right half shows the last value up to a half; the left one shows the rest
\* of it, or of a larger value that has been drawn before.
Turned ==
    \A b \in Bars :
        /\ right[b] = IF last[b] <= 50 THEN percentageToDegrees(last[b]) ELSE 1800
        /\ last[b] > 50 => left[b] = percentageToDegrees(last[b] - 50) /\ peak[b] >= last[b]
        /\ peak[b] = 0 => left[b] = 0
        /\ peak[b] = 0 \/ peak[b] > 50
        /\ left[b] \in Nat /\ left[b] <= percentageToDegrees(peak[b])

ProgressInv == Shape /\ Coloured /\ Turned

\* Every percentage has a colour.
LEMMA ColourIsBorder == ASSUME NEW p \in Percentages PROVE Colour(p) \in Borders
BY DEF Colour, Borders

LEMMA InitProgress == Init => ProgressInv
<1> SUFFICES ASSUME Init PROVE ProgressInv
  OBVIOUS
<1>1. Shape
  BY ProgressAssumption DEF Init, Shape
<1>2. Coloured
  BY DEF Init, Coloured
<1>3. Turned
  BY DEF Init, Turned, percentageToDegrees
<1> QED
  BY <1>1, <1>2, <1>3 DEF ProgressInv

LEMMA FillKeeps ==
    ASSUME ProgressInv, NEW b \in Bars, NEW p \in Percentages, fillPercentage(b, p)
    PROVE  ProgressInv'
<1>1. [h \in Halves |-> {Colour(p)}] \in [Halves -> SUBSET Borders]
  BY ColourIsBorder, SMTT(30)
<1>2. Shape'
  BY <1>1 DEF fillPercentage, ProgressInv, Shape
<1>3. Coloured'
  <2> SUFFICES ASSUME NEW c \in Bars
               PROVE  border'[c] = [h \in Halves |-> {}]
                      \/ border'[c] = [h \in Halves |-> {Colour(text'[c])}]
    BY DEF Coloured
  <2>1. CASE c = b
    <3>1. text'[c] = p /\ border'[c] = [h \in Halves |-> {Colour(p)}]
      BY <2>1 DEF fillPercentage, ProgressInv, Shape
    <3> QED
      BY <3>1
  <2>2. CASE c # b
    <3>1. text'[c] = text[c] /\ border'[c] = border[c]
      BY <2>2 DEF fillPercentage, ProgressInv, Shape
    <3> QED
      BY <3>1 DEF ProgressInv, Coloured
  <2> QED
    BY <2>1, <2>2
<1>4. Turned'
  BY DEF fillPercentage, ProgressInv, Turned
<1> QED
  BY <1>2, <1>3, <1>4 DEF ProgressInv

\* The ranges of what a bar keeps.
LEMMA Ranges ==
    ASSUME Shape, NEW b \in Bars
    PROVE  /\ value[b] \in 0..100 /\ right[b] \in 0..1800 /\ left[b] \in 0..1800
           /\ peak[b] \in 0..100 /\ last[b] \in 0..100
<1>1. value[b] \in Percentages
  BY DEF Shape
<1>2. value[b] \in 0..100
  BY <1>1, ProgressAssumption
<1>3. right[b] \in 0..1800 /\ left[b] \in 0..1800
  BY DEF Shape
<1>4. peak[b] \in 0..100 /\ last[b] \in 0..100
  BY DEF Shape
<1> QED
  BY <1>2, <1>3, <1>4

\* One bar after a redraw, by its value.
LEMMA Redrawn ==
    ASSUME ProgressInv, redrawProgressBars, NEW b \in Bars
    PROVE  /\ value[b] = 0 =>
                 /\ right'[b] = right[b] /\ left'[b] = left[b]
                 /\ peak'[b] = peak[b] /\ last'[b] = last[b]
           /\ value[b] \in 1..50 =>
                 /\ right'[b] = value[b] * 36 /\ left'[b] = left[b]
                 /\ peak'[b] = peak[b] /\ last'[b] = value[b]
           /\ value[b] \in 51..100 =>
                 /\ right'[b] = 1800 /\ left'[b] = (value[b] - 50) * 36
                 /\ peak'[b] = (IF value[b] > peak[b] THEN value[b] ELSE peak[b])
                 /\ last'[b] = value[b]
<1>1. value[b] \in 0..100 /\ peak[b] \in 0..100
  BY Ranges DEF ProgressInv
<1>2. right'[b] = IF value[b] <= 0 THEN right[b]
                  ELSE IF value[b] <= 50 THEN value[b] * 36 ELSE 1800
  BY DEF redrawProgressBars, percentageToDegrees
<1>3. left'[b] = IF value[b] <= 50 THEN left[b] ELSE (value[b] - 50) * 36
  BY DEF redrawProgressBars, percentageToDegrees
<1>4. peak'[b] = IF value[b] > peak[b] /\ value[b] > 50 THEN value[b] ELSE peak[b]
  BY DEF redrawProgressBars
<1>5. last'[b] = IF value[b] > 0 THEN value[b] ELSE last[b]
  BY DEF redrawProgressBars
<1> QED
  BY <1>1, <1>2, <1>3, <1>4, <1>5

LEMMA RedrawKeeps == ASSUME ProgressInv, redrawProgressBars PROVE ProgressInv'
<1>1. ASSUME NEW b \in Bars
      PROVE  value[b] = 0 \/ value[b] \in 1..50 \/ value[b] \in 51..100
  <2>1. value[b] \in 0..100
    BY <1>1, Ranges DEF ProgressInv
  <2> QED
    BY <2>1
<1>2. ASSUME NEW b \in Bars
      PROVE  /\ right'[b] \in 0..1800 /\ left'[b] \in 0..1800
             /\ peak'[b] \in 0..100 /\ last'[b] \in 0..100
  <2>1. Shape /\ value[b] \in 0..100 /\ right[b] \in 0..1800 /\ left[b] \in 0..1800
        /\ peak[b] \in 0..100 /\ last[b] \in 0..100
    BY <1>2, Ranges DEF ProgressInv
  <2> QED
    BY <1>1, <1>2, <2>1, Redrawn, SMTT(30)
<1>3. Shape'
  <2>1. /\ right' = [b \in Bars |-> right'[b]] /\ left' = [b \in Bars |-> left'[b]]
        /\ peak' = [b \in Bars |-> peak'[b]] /\ last' = [b \in Bars |-> last'[b]]
    BY DEF redrawProgressBars
  <2>2. /\ right' \in [Bars -> 0..1800] /\ left' \in [Bars -> 0..1800]
        /\ peak' \in [Bars -> 0..100] /\ last' \in [Bars -> 0..100]
    BY <1>2, <2>1
  <2>3. text' = text /\ value' = value /\ border' = border
    BY DEF redrawProgressBars
  <2>4. Shape
    BY DEF ProgressInv
  <2> QED
    BY <2>2, <2>3, <2>4 DEF Shape
<1>4. Coloured'
  BY DEF redrawProgressBars, ProgressInv, Coloured
<1>5. ASSUME NEW b \in Bars
      PROVE  /\ right'[b] = IF last'[b] <= 50 THEN last'[b] * 36 ELSE 1800
             /\ last'[b] > 50 => left'[b] = (last'[b] - 50) * 36 /\ peak'[b] >= last'[b]
             /\ peak'[b] = 0 => left'[b] = 0
             /\ peak'[b] = 0 \/ peak'[b] > 50
             /\ left'[b] \in Nat /\ left'[b] <= peak'[b] * 36
  <2>1. /\ value[b] \in 0..100 /\ right[b] \in 0..1800 /\ left[b] \in 0..1800
        /\ peak[b] \in 0..100 /\ last[b] \in 0..100
    BY <1>5, Ranges DEF ProgressInv
  <2>2. /\ right[b] = IF last[b] <= 50 THEN last[b] * 36 ELSE 1800
        /\ last[b] > 50 => left[b] = (last[b] - 50) * 36 /\ peak[b] >= last[b]
        /\ peak[b] = 0 => left[b] = 0
        /\ peak[b] = 0 \/ peak[b] > 50
        /\ left[b] \in Nat /\ left[b] <= peak[b] * 36
    BY <1>5 DEF ProgressInv, Turned, percentageToDegrees
  <2>3. CASE value[b] = 0
    BY <1>5, <2>2, <2>3, Redrawn
  <2>4. CASE value[b] \in 1..50
    BY <1>5, <2>1, <2>2, <2>4, Redrawn
  <2>5. CASE value[b] \in 51..100
    <3>1. /\ right'[b] = 1800 /\ left'[b] = (value[b] - 50) * 36 /\ last'[b] = value[b]
          /\ peak'[b] = (IF value[b] > peak[b] THEN value[b] ELSE peak[b])
      BY <1>5, <2>5, Redrawn
    <3>2. peak'[b] >= value[b] /\ peak'[b] \in 51..100
      BY <2>1, <2>5, <3>1, SMTT(30)
    <3>3. (value[b] - 50) * 36 <= peak'[b] * 36
      BY <2>5, <3>2
    <3> QED
      BY <2>5, <3>1, <3>2, <3>3
  <2> QED
    BY <1>1, <1>5, <2>3, <2>4, <2>5
<1>6. Turned'
  BY <1>5 DEF Turned, percentageToDegrees
<1> QED
  BY <1>3, <1>4, <1>6 DEF ProgressInv

LEMMA NextProgress == ProgressInv /\ [Next]_vars => ProgressInv'
<1>1. ASSUME ProgressInv, UNCHANGED vars PROVE ProgressInv'
  <2>1. Shape'
    BY <1>1 DEF vars, ProgressInv, Shape
  <2>2. Coloured'
    BY <1>1 DEF vars, ProgressInv, Coloured
  <2>3. Turned'
    BY <1>1 DEF vars, ProgressInv, Turned
  <2> QED
    BY <2>1, <2>2, <2>3 DEF ProgressInv
<1> QED
  BY <1>1, FillKeeps, RedrawKeeps DEF Next

\* ProgressInv holds in every state.
THEOREM ProgressInvariance == Spec => []ProgressInv
BY InitProgress, NextProgress, PTL DEF Spec

\* The number is the value, and both halves stay within their half turn.
THEOREM TypeCorrect == Spec => []TypeOK
<1>1. ProgressInv => TypeOK
  BY DEF ProgressInv, Shape, TypeOK
<1> QED
  BY <1>1, ProgressInvariance, PTL

\* Both halves always wear the colour of the number.
THEOREM ColoursAgree == Spec => []OneColour
<1>1. ASSUME ProgressInv, NEW b \in Bars
      PROVE  /\ border[b].p1 = border[b].p2 /\ Cardinality(border[b].p1) <= 1
             /\ border[b].p1 # {} => border[b].p1 = {Colour(text[b])}
  <2>1. CASE border[b] = [h \in Halves |-> {}]
    BY <2>1, FS_EmptySet DEF Halves
  <2>2. CASE border[b] = [h \in Halves |-> {Colour(text[b])}]
    <3>1. border[b].p1 = {Colour(text[b])} /\ border[b].p2 = {Colour(text[b])}
      BY <2>2 DEF Halves
    <3>2. Cardinality({Colour(text[b])}) = 1
      BY FS_Singleton
    <3> QED
      BY <3>1, <3>2
  <2> QED
    BY <1>1, <2>1, <2>2 DEF ProgressInv, Coloured
<1>2. ProgressInv => OneColour
  BY <1>1 DEF OneColour
<1> QED
  BY <1>2, ProgressInvariance, PTL

\* A bar that has never shrunk from above a half shows its last value.
THEOREM ArcsAreValues == Spec => []ArcIsTheLastValue
<1>1. ASSUME ProgressInv, NEW b \in Bars, peak[b] \in {0, last[b]}
      PROVE  right[b] + left[b] = percentageToDegrees(last[b])
  <2>1. /\ right[b] \in 0..1800 /\ left[b] \in 0..1800 /\ peak[b] \in 0..100
        /\ last[b] \in 0..100
    BY <1>1, Ranges DEF ProgressInv
  <2>2. /\ right[b] = IF last[b] <= 50 THEN last[b] * 36 ELSE 1800
        /\ last[b] > 50 => left[b] = (last[b] - 50) * 36 /\ peak[b] >= last[b]
        /\ peak[b] = 0 => left[b] = 0
        /\ peak[b] = 0 \/ peak[b] > 50
    BY <1>1 DEF ProgressInv, Turned, percentageToDegrees
  <2> QED
    BY <1>1, <2>1, <2>2, SMTT(30) DEF percentageToDegrees
<1>2. ProgressInv => ArcIsTheLastValue
  BY <1>1 DEF ArcIsTheLastValue
<1> QED
  BY <1>2, ProgressInvariance, PTL

\* A bar that has shrunk shows too much, never too little.
THEOREM ArcsAreLarge == Spec => []NeverTooLittle
<1>1. ASSUME ProgressInv, NEW b \in Bars
      PROVE  /\ right[b] + left[b] >= percentageToDegrees(last[b])
             /\ left[b] <= percentageToDegrees(peak[b])
  <2>1. right[b] \in Nat /\ left[b] \in Nat /\ last[b] \in Nat
    <3>1. left[b] \in Nat /\ last[b] \in 0..100
      BY <1>1, Ranges DEF ProgressInv, Turned
    <3>2. right[b] = IF last[b] <= 50 THEN last[b] * 36 ELSE 1800
      BY <1>1 DEF ProgressInv, Turned, percentageToDegrees
    <3> QED
      BY <3>1, <3>2
  <2>2. /\ right[b] = IF last[b] <= 50 THEN last[b] * 36 ELSE 1800
        /\ last[b] > 50 => left[b] = (last[b] - 50) * 36
        /\ left[b] <= percentageToDegrees(peak[b])
    BY <1>1 DEF ProgressInv, Turned, percentageToDegrees
  <2>3. CASE last[b] <= 50
    <3>1. right[b] = last[b] * 36
      BY <2>2, <2>3
    <3>2. right[b] + left[b] >= last[b] * 36
      BY <2>1, <3>1
    <3> QED
      BY <2>2, <3>2 DEF percentageToDegrees
  <2>4. CASE last[b] > 50
    <3>1. right[b] + left[b] = last[b] * 36
      BY <2>1, <2>2, <2>4
    <3> QED
      BY <2>1, <2>2, <3>1 DEF percentageToDegrees
  <2> QED
    BY <2>1, <2>3, <2>4
<1>2. ProgressInv => NeverTooLittle
  BY <1>1 DEF NeverTooLittle
<1> QED
  BY <1>2, ProgressInvariance, PTL

\* A bar shows its value as far as the code lets it.
THEOREM BarsAreTrue == Spec => []BarsShowTheirValue
BY TypeCorrect, ColoursAgree, ArcsAreValues, ArcsAreLarge, PTL DEF BarsShowTheirValue

-----------------------------------------------------------------------------
(***************************************************************************)
(* Buttons: one radio button of a group, and labels that say what their    *)
(* inputs say.                                                             *)
(***************************************************************************)

\* Two radio buttons of the group are never active, nor checked.
ButtonInv ==
    /\ active \subseteq Button!Buttons /\ checked \subseteq Button!Buttons \ Plain
    /\ pressed = active \cap Plain
    /\ \A b, c \in active \cap Radios : b = c
    /\ \A b, c \in checked \cap Radios : b = c
    /\ buttonFocus \in (Button!Buttons \ NoInput) \cup {0}

\* A set of buttons has one element at most when it is counted so.
LEMMA OneButton ==
    ASSUME NEW S \in SUBSET Button!Buttons
    PROVE  Button!Cardinality(S) <= 1 <=> \A b, c \in S : b = c
<1>1. IsFiniteSet(S)
  <2>1. IsFiniteSet(Button!Buttons)
    BY PageAssumption DEF Button!ConstantsAssumption, Button!IsFiniteSet, IsFiniteSet
  <2> QED
    BY <2>1, FS_Subset
<1>2. Button!Cardinality(S) = Cardinality(S)
  BY DEF Cardinality, Button!Cardinality
<1>3. CASE S = {}
  BY <1>2, <1>3, FS_EmptySet
<1>4. ASSUME NEW b \in S PROVE Cardinality(S) <= 1 <=> \A c, d \in S : c = d
  <2>1. /\ IsFiniteSet(S \ {b}) /\ Cardinality(S \ {b}) = Cardinality(S) - 1
        /\ Cardinality(S) \in Nat
    BY <1>1, <1>4, FS_RemoveElement, FS_CardinalityType
  <2>2. Cardinality(S \ {b}) = 0 <=> S \ {b} = {}
    BY <2>1, FS_EmptySet
  <2>3. Cardinality(S \ {b}) \in Nat
    BY <2>1, FS_CardinalityType
  <2>4. Cardinality(S) <= 1 <=> S \ {b} = {}
    BY <2>1, <2>2, <2>3
  <2> QED
    BY <1>4, <2>4
<1> QED
  BY <1>2, <1>3, <1>4

\* ButtonInv is what TypeOK says.
LEMMA ButtonInvMeans == ButtonInv <=> Button!TypeOK /\ Button!OneOfTheGroup
<1>1. ASSUME active \subseteq Button!Buttons
      PROVE  Button!Cardinality(active \cap Radios) <= 1 <=>
                \A b, c \in active \cap Radios : b = c
  BY <1>1, OneButton
<1>2. ASSUME checked \subseteq Button!Buttons \ Plain
      PROVE  Button!Cardinality(checked \cap Radios) <= 1 <=>
                \A b, c \in checked \cap Radios : b = c
  BY <1>2, OneButton
<1> QED
  BY <1>1, <1>2 DEF ButtonInv, Button!TypeOK, Button!OneOfTheGroup

LEMMA InitButton == Button!Init => ButtonInv
<1> SUFFICES ASSUME Button!Init PROVE ButtonInv
  OBVIOUS
<1>1. \A b, c \in active \cap Radios : b = c
  BY OneButton DEF Button!Init
<1> QED
  BY <1>1 DEF Button!Init, ButtonInv

\* The button of the group that loses its class is the one that has it.
LEMMA GroupIsOne ==
    ASSUME ButtonInv
    PROVE  Button!ActiveElement = active \cap Radios
<1>1. \A b \in active \cap Radios : b \in Nat
  BY PageAssumption DEF Button!ConstantsAssumption, Button!Buttons
<1>2. \A b, c \in active \cap Radios : b <= c
  BY <1>1 DEF ButtonInv
<1> QED
  BY <1>2 DEF Button!ActiveElement

\* What a click changes, button by button.
LEMMA Toggled ==
    ASSUME ButtonInv, NEW b \in Button!Buttons, Button!toggle(b)
    PROVE  /\ ButtonInv'
           /\ b \notin Plain \cup NoInput =>
                 /\ b \in active' <=> b \in checked'
                 /\ b \in Radios => active' \cap Radios = {b} /\ checked' \cap Radios = {b}
<1> DEFINE done == b \in Radios /\ b \in active \cap checked
           lost == IF b \in Radios /\ ~done THEN Button!ActiveElement ELSE {}
           was == b \in active \ lost
<1>0. /\ Radios \cap Plain = {} /\ Checkboxes \cap Plain = {} /\ Radios \cap Checkboxes = {}
      /\ NoInput \cap Plain = {}
      /\ b \in Radios \/ b \in Checkboxes \/ b \in Plain
  BY PageAssumption DEF Button!ConstantsAssumption, Button!Buttons
<1>1. CASE done
  <2>1. /\ UNCHANGED <<active, checked, pressed>>
        /\ buttonFocus' = IF b \in NoInput THEN buttonFocus ELSE b
    BY <1>1 DEF Button!toggle
  <2> QED
    BY <1>1, <2>1 DEF ButtonInv
<1>2. CASE ~done /\ b \in NoInput
  <2>1. active' = active \ lost /\ UNCHANGED <<checked, pressed, buttonFocus>>
    BY <1>2 DEF Button!toggle
  <2>2. lost \subseteq Radios
    BY GroupIsOne
  <2> HIDE DEF lost
  <2> QED
    BY <1>0, <1>2, <2>1, <2>2 DEF ButtonInv
<1>3. CASE ~done /\ b \notin NoInput /\ b \in Radios
  <2>1. lost = active \cap Radios /\ ~was
    BY <1>3, GroupIsOne
  <2>2. /\ active' = (active \ Radios) \cup {b} /\ checked' = {b} \cup (checked \ Radios)
        /\ buttonFocus' = b /\ pressed' = pressed
    BY <1>0, <1>3, <2>1 DEF Button!toggle, Button!Check
  <2> QED
    BY <1>0, <1>3, <2>2 DEF ButtonInv
<1>4. CASE ~done /\ b \notin NoInput /\ b \in Checkboxes
  <2>1. lost = {} /\ b \notin Radios
    BY <1>0, <1>4
  <2>2. CASE b \in active
    <3>1. /\ active' = active \ {b} /\ checked' = checked \ {b}
          /\ buttonFocus' = b /\ pressed' = pressed
      BY <1>0, <1>4, <2>1, <2>2 DEF Button!toggle, Button!Check
    <3> QED
      BY <1>0, <1>4, <2>1, <2>2, <3>1 DEF ButtonInv
  <2>3. CASE b \notin active
    <3>1. /\ active' = active \cup {b} /\ checked' = {b} \cup checked
          /\ buttonFocus' = b /\ pressed' = pressed
      BY <1>0, <1>4, <2>1, <2>3 DEF Button!toggle, Button!Check
    <3> QED
      BY <1>0, <1>4, <2>1, <2>3, <3>1 DEF ButtonInv
  <2> QED
    BY <2>2, <2>3
<1>5. CASE ~done /\ b \notin NoInput /\ b \in Plain
  <2>1. lost = {} /\ b \notin Radios
    BY <1>0, <1>5
  <2>2. /\ active' = (IF b \in active THEN active \ {b} ELSE active \cup {b})
        /\ pressed' = (IF b \in active THEN pressed \ {b} ELSE pressed \cup {b})
        /\ UNCHANGED <<checked, buttonFocus>>
    BY <1>5, <2>1 DEF Button!toggle
  <2> QED
    BY <1>0, <1>5, <2>1, <2>2 DEF ButtonInv
<1> QED
  BY <1>0, <1>1, <1>2, <1>3, <1>4, <1>5

\* A click on an input changes classes only.
LEMMA InputClicked ==
    ASSUME ButtonInv, NEW b \in (Radios \cup Checkboxes) \ NoInput, Button!clickInput(b)
    PROVE  ButtonInv'
<1>0. /\ Radios \cap Plain = {} /\ Checkboxes \cap Plain = {} /\ Radios \cap Checkboxes = {}
      /\ b \in Button!Buttons /\ b \notin Plain
  BY PageAssumption DEF Button!ConstantsAssumption, Button!Buttons
<1>1. buttonFocus' = b /\ UNCHANGED <<checked, pressed>>
  BY DEF Button!clickInput
<1>2. CASE b \in Checkboxes
  <2>1. b \notin Radios
    BY <1>0, <1>2
  <2>2. active' = active \ {b} \/ active' = active \cup {b}
    BY <1>2, <2>1 DEF Button!clickInput
  <2> QED
    BY <1>0, <1>1, <2>1, <2>2 DEF ButtonInv
<1>3. CASE b \in Radios /\ b \in active
  <2>1. b \notin Checkboxes /\ active' = active
    BY <1>0, <1>3 DEF Button!clickInput
  <2> QED
    BY <1>0, <1>1, <2>1 DEF ButtonInv
<1>4. CASE b \in Radios /\ b \notin active
  <2>1. active' = (active \ Radios) \cup {b}
    BY <1>0, <1>4, GroupIsOne DEF Button!clickInput
  <2> QED
    BY <1>0, <1>1, <1>4, <2>1 DEF ButtonInv
<1> QED
  BY <1>2, <1>3, <1>4

LEMMA NextButton == ButtonInv /\ [Button!Next]_(Button!vars) => ButtonInv'
<1> SUFFICES ASSUME ButtonInv, [Button!Next]_(Button!vars) PROVE ButtonInv'
  OBVIOUS
<1>1. ASSUME NEW b \in Button!Buttons, Button!toggle(b) PROVE ButtonInv'
  BY <1>1, Toggled
<1>2. ASSUME NEW b \in (Button!Buttons \ NoInput) \cup {0}, Button!FocusBlur(b) PROVE ButtonInv'
  BY <1>2 DEF Button!FocusBlur, ButtonInv
<1>3. CASE Button!Reset
  <2>1. PICK S \in SUBSET (Radios \cup Checkboxes) :
           Button!Cardinality(S \cap Radios) <= 1 /\ checked' = S
    BY <1>3 DEF Button!Reset
  <2>2. S \subseteq Button!Buttons \ Plain
    BY PageAssumption DEF Button!ConstantsAssumption, Button!Buttons
  <2>3. \A b, c \in S \cap Radios : b = c
    BY <2>1, <2>2, OneButton
  <2> QED
    BY <1>3, <2>1, <2>2, <2>3 DEF Button!Reset, ButtonInv
<1>4. CASE UNCHANGED Button!vars
  BY <1>4 DEF Button!vars, ButtonInv
<1> QED
  BY <1>1, <1>2, <1>3, <1>4, InputClicked DEF Button!Next

\* Whatever resets of the form and clicks on inputs leave, one radio button of a
\* group is active at most, and toggle makes label and input agree.
THEOREM ButtonsAndInputsAgree == Button!Spec => ButtonsAgree
<1>1. Button!Spec => []ButtonInv
  BY InitButton, NextButton, PTL DEF Button!Spec
<1>2. Button!Spec => [](Button!TypeOK /\ Button!OneOfTheGroup)
  BY <1>1, ButtonInvMeans, PTL
<1>3. Button!Spec => Button!LabelsMakeAgree
  <2>1. ButtonInv => Button!ToggleAgrees
    BY Toggled DEF Button!ToggleAgrees
  <2> QED
    BY <1>1, <2>1, PTL DEF Button!LabelsMakeAgree
<1> QED
  BY <1>2, <1>3 DEF ButtonsAgree

-----------------------------------------------------------------------------
(***************************************************************************)
(* Dropdowns: which menu is open, and where the focus is.                  *)
(***************************************************************************)

\* A disabled toggle opens nothing, and a menu that is open has an instance to
\* close it, unless a script has disposed of that.
MenuInv ==
    /\ Dropdown!TypeOK
    /\ menuMisuse = {} => aria = menu /\ \A d, e \in menu : d = e
    /\ menu \cap NoToggle = {}
    /\ "disposed" \notin menuMisuse => menu \subseteq inst

LEMMA InitMenu == Dropdown!Init => MenuInv
<1> SUFFICES ASSUME Dropdown!Init PROVE MenuInv
  OBVIOUS
<1>1. menuFocus \in Dropdown!Places
  BY DEF Dropdown!Init, Dropdown!Places
<1>2. menuFocus.at # "menu"
  BY DEF Dropdown!Init, Dropdown!NoFocus
<1>3. Dropdown!TypeOK
  BY <1>1, <1>2 DEF Dropdown!Init, Dropdown!TypeOK
<1> QED
  BY <1>3 DEF MenuInv, Dropdown!Init

\* Where the focus may be.
LEMMA FocusPlaces ==
    ASSUME NEW f \in Dropdown!Places \cup {Dropdown!Toggle(d) : d \in Dropdowns}
    PROVE  \/ f.at = "body" /\ f = Dropdown!NoFocus
           \/ f.at = "toggle" /\ f.on \in Dropdowns /\ f = Dropdown!Toggle(f.on)
           \/ /\ f.at = "menu" /\ f.on \in Dropdowns /\ f = Dropdown!ItemOf(f.on, f.item)
              /\ f.item \in 0..MenuItems[f.on]
<1>0. \A d \in Dropdowns : MenuItems[d] \in Nat
  BY PageAssumption DEF Dropdown!ConstantsAssumption
<1>1. CASE f = Dropdown!NoFocus
  BY <1>1 DEF Dropdown!NoFocus
<1>2. ASSUME NEW d \in Dropdowns, f = Dropdown!Toggle(d)
      PROVE  f.at = "toggle" /\ f.on \in Dropdowns /\ f = Dropdown!Toggle(f.on)
  BY <1>2 DEF Dropdown!Toggle
<1>3. ASSUME NEW d \in Dropdowns, NEW i \in 0..MenuItems[d], f = Dropdown!ItemOf(d, i)
      PROVE  /\ f.at = "menu" /\ f.on \in Dropdowns /\ f = Dropdown!ItemOf(f.on, f.item)
             /\ f.item \in 0..MenuItems[f.on]
  BY <1>3 DEF Dropdown!ItemOf
<1>4. \/ f = Dropdown!NoFocus
      \/ \E d \in Dropdowns : f = Dropdown!Toggle(d)
      \/ \E d \in Dropdowns : f = Dropdown!ItemOf(d, 0)
      \/ \E d \in Dropdowns : \E i \in 1..MenuItems[d] : f = Dropdown!ItemOf(d, i)
  BY DEF Dropdown!Places
<1> QED
  BY <1>0, <1>1, <1>2, <1>3, <1>4

\* The places there are.
LEMMA PlacesOfMenu ==
    ASSUME NEW d \in Dropdowns
    PROVE  /\ Dropdown!NoFocus \in Dropdown!Places
           /\ d \notin NoToggle => Dropdown!Toggle(d) \in Dropdown!Places
           /\ \A i \in 1..MenuItems[d] : Dropdown!ItemOf(d, i) \in Dropdown!Places
BY DEF Dropdown!Places

\* The focus after menus have closed is a place, and in no closed menu.
LEMMA FocusLeaves ==
    ASSUME NEW f \in Dropdown!Places \cup {Dropdown!Toggle(d) : d \in Dropdowns},
           NEW open, NEW closed, f.at = "menu" => f.on \in open
    PROVE  /\ Dropdown!FocusAfter(f, closed)
                 \in Dropdown!Places \cup {Dropdown!Toggle(d) : d \in Dropdowns}
           /\ Dropdown!FocusAfter(f, closed).at = "menu" =>
                 Dropdown!FocusAfter(f, closed).on \in open \ closed
<1>1. CASE f.at = "menu" /\ f.on \in closed
  <2>1. Dropdown!FocusAfter(f, closed) = Dropdown!NoFocus
    BY <1>1 DEF Dropdown!FocusAfter
  <2>2. Dropdown!NoFocus \in Dropdown!Places /\ Dropdown!NoFocus.at # "menu"
    BY DEF Dropdown!Places, Dropdown!NoFocus
  <2> QED
    BY <2>1, <2>2
<1>2. CASE ~(f.at = "menu" /\ f.on \in closed)
  BY <1>2 DEF Dropdown!FocusAfter
<1> QED
  BY <1>1, <1>2

\* Menus close, and nothing else happens.
LEMMA MenusClose ==
    ASSUME MenuInv, NEW no,
           NEW f \in Dropdown!Places \cup {Dropdown!Toggle(d) : d \in Dropdowns},
           f.at = "menu" => f.on \in menu,
           NEW closed, closed \subseteq inst \cap parent,
           menu' = menu \ closed, parent' = parent \ closed, aria' = aria \ closed,
           menuFocus' = Dropdown!FocusAfter(f, closed),
           UNCHANGED <<inst, popper>>, Dropdown!Notes(no)
    PROVE  MenuInv'
<1>1. Dropdown!TypeOK'
  BY FocusLeaves DEF MenuInv, Dropdown!TypeOK
<1> QED
  BY <1>1 DEF MenuInv, Dropdown!Notes, Dropdown!TypeOK

\* A call or a click on toggle d.
LEMMA ToggleKeeps ==
    ASSUME MenuInv, NEW d \in Dropdowns, NEW no \in SUBSET Dropdowns,
           Dropdown!toggle(d, no), Dropdown!Notes(no)
    PROVE  MenuInv'
<1> DEFINE closed == {e \in inst \cup {d} : e \in parent} \ no
           opens == d \notin menu \cup no /\ (d \in InNavbar \/ HasPopper)
           new == IF opens THEN {d} ELSE {}
<1>1. CASE d \in NoToggle
  BY <1>1 DEF Dropdown!toggle, Dropdown!Notes, MenuInv, Dropdown!TypeOK
<1>2. CASE d \notin NoToggle
  <2>1. /\ inst' = inst \cup {d} /\ menu' = (menu \ closed) \cup new
        /\ parent' = (parent \ closed) \cup new /\ aria' = (aria \ closed) \cup new
        /\ popper' = popper \cup (new \ InNavbar)
        /\ menuFocus' = IF opens THEN Dropdown!Toggle(d)
                        ELSE Dropdown!FocusAfter(menuFocus, closed)
    BY <1>2 DEF Dropdown!toggle
  <2>2. new \subseteq {d} /\ (opens => new = {d}) /\ (~opens => new = {})
    OBVIOUS
  <2>3. /\ menuFocus' \in Dropdown!Places \cup {Dropdown!Toggle(e) : e \in Dropdowns}
        /\ menuFocus'.at = "menu" => menuFocus'.on \in menu'
    <3>1. CASE opens
      <4>1. menuFocus' = Dropdown!Toggle(d) /\ Dropdown!Toggle(d).at = "toggle"
        BY <2>1, <3>1 DEF Dropdown!Toggle
      <4> QED
        BY <4>1
    <3>2. CASE ~opens
      <4>1. menuFocus' = Dropdown!FocusAfter(menuFocus, closed) /\ menu' = menu \ closed
        BY <2>1, <2>2, <3>2
      <4>2. /\ menuFocus \in Dropdown!Places \cup {Dropdown!Toggle(e) : e \in Dropdowns}
            /\ menuFocus.at = "menu" => menuFocus.on \in menu
        BY DEF MenuInv, Dropdown!TypeOK
      <4> HIDE DEF closed
      <4> QED
        BY <4>1, <4>2, FocusLeaves
    <3> QED
      BY <3>1, <3>2
  <2>4. Dropdown!TypeOK'
    BY <2>1, <2>2, <2>3 DEF MenuInv, Dropdown!TypeOK
  <2>5. ASSUME menuMisuse' = {} PROVE aria' = menu' /\ \A e, f \in menu' : e = f
    <3>1. menuMisuse = {} /\ no \cap parent = {}
      BY <2>5 DEF Dropdown!Notes
    <3>2. aria = menu /\ menu = parent /\ menu \subseteq inst
      BY <3>1 DEF MenuInv, Dropdown!TypeOK
    <3>3. closed = menu
      BY <3>1, <3>2
    <3> QED
      BY <2>1, <2>2, <3>2, <3>3
  <2>6. menu' \cap NoToggle = {}
    BY <1>2, <2>1, <2>2 DEF MenuInv
  <2>7. "disposed" \notin menuMisuse' => menu' \subseteq inst'
    BY <2>1, <2>2 DEF MenuInv, Dropdown!Notes
  <2> QED
    BY <2>4, <2>5, <2>6, <2>7 DEF MenuInv
<1> QED
  BY <1>1, <1>2

\* The item an arrow key leads to is one of the menu, next to the one before.
LEMMA NextItemInMenu ==
    ASSUME NEW d \in Dropdowns, NEW which \in {"up", "down"}, MenuItems[d] \in Nat \ {0},
           menuFocus.at = "menu" => menuFocus.item \in 1..MenuItems[d]
    PROVE  /\ Dropdown!nextItem(d, which) \in 1..MenuItems[d]
           /\ menuFocus.at = "menu" =>
                 Dropdown!nextItem(d, which) - menuFocus.item \in {-1, 0, 1}
<1>1. CASE menuFocus.at = "menu"
  BY <1>1 DEF Dropdown!nextItem
<1>2. CASE menuFocus.at # "menu"
  BY <1>2 DEF Dropdown!nextItem
<1> QED
  BY <1>1, <1>2

\* The focus is a place, and in no closed menu.
FocusType == Dropdown!Places \cup {Dropdown!Toggle(d) : d \in Dropdowns}

LEMMA KeyKeeps ==
    ASSUME MenuInv, NEW which \in {"esc", "up", "down"}, NEW no \in SUBSET Dropdowns,
           Dropdown!_dataApiKeydownHandler(which, no)
    PROVE  MenuInv'
<1> DEFINE d == menuFocus.on
           input == menuFocus.at = "menu" /\ menuFocus.item = 0
<1>1. menuFocus \in FocusType /\ (menuFocus.at = "menu" => d \in menu)
  BY DEF FocusType, MenuInv, Dropdown!TypeOK
<1>2. menuFocus.at # "body"
  BY DEF Dropdown!_dataApiKeydownHandler
<1>3. d \in Dropdowns /\ menuFocus.at \in {"toggle", "menu"}
  BY <1>1, <1>2, FocusPlaces DEF FocusType
<1>4. CASE which = "esc" /\ menuFocus.at = "toggle"
  <2>1. Dropdown!toggle(d, no) /\ Dropdown!Notes(no)
    BY <1>4 DEF Dropdown!_dataApiKeydownHandler, Dropdown!escape
  <2> QED
    BY <1>3, <2>1, ToggleKeeps
<1>5. CASE which = "esc" /\ menuFocus.at = "menu"
  <2> DEFINE closed == Dropdown!Cleared({}, no)
             f == Dropdown!Toggle(d)
  <2>1. /\ menu' = menu \ closed /\ parent' = parent \ closed /\ aria' = aria \ closed
        /\ menuFocus' = f /\ UNCHANGED <<inst, popper>> /\ Dropdown!Notes(no)
    BY <1>5 DEF Dropdown!_dataApiKeydownHandler, Dropdown!escape
  <2>2. f \in FocusType /\ f.at # "menu" /\ Dropdown!FocusAfter(f, closed) = f
    BY <1>3 DEF FocusType, Dropdown!Toggle, Dropdown!FocusAfter
  <2>3. closed \subseteq inst \cap parent
    BY DEF Dropdown!Cleared
  <2> HIDE DEF closed, f
  <2> QED
    BY <2>1, <2>2, <2>3, MenusClose DEF FocusType
<1>6. CASE which # "esc" /\ input
  <2>1. UNCHANGED Dropdown!vars
    BY <1>6 DEF Dropdown!_dataApiKeydownHandler
  <2> QED
    BY <2>1 DEF Dropdown!vars, MenuInv, Dropdown!TypeOK
<1>7. CASE which # "esc" /\ ~input /\ d \notin parent
  <2>1. Dropdown!toggle(d, no) /\ Dropdown!Notes(no)
    BY <1>7 DEF Dropdown!_dataApiKeydownHandler
  <2> QED
    BY <1>3, <2>1, ToggleKeeps
<1>8. CASE which # "esc" /\ ~input /\ d \in parent
  <2>1. /\ menuFocus' = IF MenuItems[d] = 0 THEN menuFocus
                        ELSE Dropdown!ItemOf(d, Dropdown!nextItem(d, which))
        /\ UNCHANGED <<inst, menu, parent, aria, popper, menuMisuse>>
    BY <1>8 DEF Dropdown!_dataApiKeydownHandler
  <2>2. menuFocus' \in FocusType /\ (menuFocus'.at = "menu" => menuFocus'.on \in menu)
    <3>1. CASE MenuItems[d] = 0
      BY <1>1, <2>1, <3>1
    <3>2. CASE MenuItems[d] # 0
      <4>1. MenuItems[d] \in Nat \ {0}
        BY <1>3, <3>2, PageAssumption DEF Dropdown!ConstantsAssumption
      <4>2. menuFocus.at = "menu" => menuFocus.item \in 1..MenuItems[d]
        <5>1. menuFocus.at = "menu" => menuFocus.item \in 0..MenuItems[d]
          BY <1>1, FocusPlaces DEF FocusType
        <5> QED
          BY <1>8, <4>1, <5>1
      <4>3. PICK i \in 1..MenuItems[d] : i = Dropdown!nextItem(d, which)
        BY <1>3, <1>8, <4>1, <4>2, NextItemInMenu
      <4>4. menuFocus' = Dropdown!ItemOf(d, i)
        BY <2>1, <3>2, <4>3
      <4>5. menuFocus' \in Dropdown!Places
        BY <1>3, <4>4, PlacesOfMenu
      <4>6. menuFocus'.on = d
        BY <4>4 DEF Dropdown!ItemOf
      <4>7. d \in menu
        BY <1>8 DEF MenuInv, Dropdown!TypeOK
      <4> QED
        BY <4>5, <4>6, <4>7 DEF FocusType
    <3> QED
      BY <3>1, <3>2
  <2> QED
    BY <2>1, <2>2 DEF FocusType, MenuInv, Dropdown!TypeOK
<1> QED
  BY <1>3, <1>4, <1>5, <1>6, <1>7, <1>8

LEMMA NextMenu == MenuInv /\ [Dropdown!Next]_(Dropdown!vars) => MenuInv'
<1> SUFFICES ASSUME MenuInv, [Dropdown!Next]_(Dropdown!vars) PROVE MenuInv'
  OBVIOUS
<1>0. menuFocus \in FocusType /\ (menuFocus.at = "menu" => menuFocus.on \in menu)
  BY DEF FocusType, MenuInv, Dropdown!TypeOK
<1>1. ASSUME NEW d \in Dropdowns, NEW no \in SUBSET Dropdowns, Dropdown!ClickToggle(d, no)
      PROVE  MenuInv'
  BY <1>1, ToggleKeeps DEF Dropdown!ClickToggle
<1>2. ASSUME NEW d \in Dropdowns, NEW no \in SUBSET Dropdowns, Dropdown!show(d, no)
      PROVE  MenuInv'
  <2>1. CASE d \in NoToggle \cup menu \cup no
    BY <1>2, <2>1 DEF Dropdown!show, MenuInv, Dropdown!TypeOK
  <2>2. CASE d \notin NoToggle \cup menu \cup no
    BY <1>2, <2>2 DEF Dropdown!show, MenuInv, Dropdown!TypeOK
  <2> QED
    BY <2>1, <2>2
<1>3. ASSUME NEW d \in Dropdowns, NEW no \in SUBSET Dropdowns, Dropdown!hide(d, no)
      PROVE  MenuInv'
  <2>1. CASE d \in NoToggle \cup no \/ d \notin menu
    BY <1>3, <2>1 DEF Dropdown!hide, MenuInv, Dropdown!TypeOK
  <2>2. CASE ~(d \in NoToggle \cup no \/ d \notin menu)
    <3>1. /\ inst' = inst \cup {d} /\ menu' = menu \ {d} /\ parent' = parent \ {d}
          /\ menuFocus' = Dropdown!FocusAfter(menuFocus, {d})
          /\ menuMisuse' = menuMisuse \cup {"scripted"} /\ UNCHANGED <<aria, popper>>
      BY <1>3, <2>2 DEF Dropdown!hide
    <3>2. /\ menuFocus' \in FocusType
          /\ menuFocus'.at = "menu" => menuFocus'.on \in menu'
      BY <1>0, <3>1, FocusLeaves DEF FocusType
    <3> QED
      BY <3>1, <3>2 DEF FocusType, MenuInv, Dropdown!TypeOK
  <2> QED
    BY <2>1, <2>2
<1>4. ASSUME NEW no \in SUBSET Dropdowns, NEW keep, Dropdown!Click(keep, no)
      PROVE  MenuInv'
  <2>1. PICK closed : closed = Dropdown!Cleared(keep, no)
    OBVIOUS
  <2>2. closed \subseteq inst \cap parent
    BY <2>1 DEF Dropdown!Cleared
  <2>3. /\ menu' = menu \ closed /\ parent' = parent \ closed /\ aria' = aria \ closed
        /\ menuFocus' = Dropdown!FocusAfter(menuFocus, closed)
        /\ UNCHANGED <<inst, popper>> /\ Dropdown!Notes(no)
    BY <1>4, <2>1 DEF Dropdown!Click, Dropdown!_clearMenus
  <2> QED
    BY <1>0, <2>2, <2>3, MenusClose DEF FocusType
<1>5. ASSUME NEW no \in SUBSET Dropdowns, NEW f \in Dropdown!Places, Dropdown!Tab(f, no)
      PROVE  MenuInv'
  <2>1. PICK closed : closed = Dropdown!Cleared(IF f.at = "body" THEN {} ELSE {f.on}, no)
    OBVIOUS
  <2>2. closed \subseteq inst \cap parent
    BY <2>1 DEF Dropdown!Cleared
  <2>3. /\ menu' = menu \ closed /\ parent' = parent \ closed /\ aria' = aria \ closed
        /\ menuFocus' = Dropdown!FocusAfter(f, closed) /\ (f.at = "menu" => f.on \in menu)
        /\ UNCHANGED <<inst, popper>> /\ Dropdown!Notes(no)
    BY <1>5, <2>1 DEF Dropdown!Tab
  <2> QED
    BY <2>2, <2>3, MenusClose
<1>6. ASSUME NEW d \in Dropdowns, Dropdown!dispose(d)
      PROVE  MenuInv'
  BY <1>6 DEF Dropdown!dispose, MenuInv, Dropdown!TypeOK
<1>7. CASE UNCHANGED Dropdown!vars
  BY <1>7 DEF Dropdown!vars, MenuInv, Dropdown!TypeOK
<1> QED
  BY <1>1, <1>2, <1>3, <1>4, <1>5, <1>6, <1>7, KeyKeeps DEF Dropdown!Next

\* MenuInv holds in every state.
THEOREM MenuInvariance == Dropdown!Spec => []MenuInv
BY InitMenu, NextMenu, PTL DEF Dropdown!Spec

\* However the visitor clicks and types, at most one menu is open, with its
\* parent, and exactly its toggle says so.
THEOREM MenusAgree == Dropdown!Spec => []MenusAreConsistent
<1>1. ASSUME NEW S, \A d, e \in S : d = e PROVE Dropdown!Cardinality(S) <= 1
  <2>0. Dropdown!Cardinality(S) = Cardinality(S)
    BY DEF Cardinality, Dropdown!Cardinality
  <2>1. CASE S = {}
    BY <2>0, <2>1, FS_EmptySet
  <2>2. ASSUME NEW d \in S PROVE Cardinality(S) <= 1
    <3>1. S = {d}
      BY <1>1
    <3>2. Cardinality({d}) = 1
      BY FS_Singleton
    <3> QED
      BY <3>1, <3>2
  <2> QED
    BY <2>0, <2>1, <2>2
<1>2. MenuInv => MenusAreConsistent
  BY <1>1 DEF MenuInv, MenusAreConsistent, Dropdown!OneMenuOpen
<1> QED
  BY <1>2, MenuInvariance, PTL

\* A click elsewhere closes every menu, Escape leads back to the toggle and the
\* arrow keys stay in the menu.
THEOREM MenusDoAsTold == Dropdown!Spec => MenusObey
<1>1. ASSUME MenuInv, menu' # {}, Dropdown!Click({}, {}) PROVE "disposed" \in menuMisuse
  <2>1. menu' = menu \ (inst \cap parent)
    BY <1>1 DEF Dropdown!Click, Dropdown!_clearMenus, Dropdown!Cleared
  <2> QED
    BY <1>1, <2>1 DEF MenuInv, Dropdown!TypeOK
<1>2. ASSUME MenuInv, Dropdown!_dataApiKeydownHandler("esc", {}), menuFocus.on \in menu,
             "disposed" \notin menuMisuse
      PROVE  menuFocus.on \notin menu' /\ menuFocus' = Dropdown!Toggle(menuFocus.on)
  <2> DEFINE d == menuFocus.on
  <2>1. /\ d \in inst /\ d \in parent /\ d \notin NoToggle
        /\ menuFocus \in FocusType /\ menuFocus.at # "body"
    BY <1>2 DEF MenuInv, Dropdown!TypeOK, FocusType, Dropdown!_dataApiKeydownHandler
  <2>2. CASE menuFocus.at = "toggle"
    <3>1. Dropdown!toggle(d, {})
      BY <1>2, <2>2 DEF Dropdown!_dataApiKeydownHandler, Dropdown!escape
    <3> DEFINE closed == {e \in inst \cup {d} : e \in parent} \ {}
    <3>2. menu' = menu \ closed /\ menuFocus' = Dropdown!FocusAfter(menuFocus, closed)
      BY <1>2, <2>1, <3>1 DEF Dropdown!toggle
    <3>3. menuFocus' = menuFocus /\ d \notin menu'
      BY <2>1, <2>2, <3>2 DEF Dropdown!FocusAfter
    <3>4. menuFocus = Dropdown!Toggle(d)
      BY <2>1, <2>2, FocusPlaces DEF FocusType
    <3> QED
      BY <3>3, <3>4
  <2>3. CASE menuFocus.at # "toggle"
    <3>1. menu' = menu \ Dropdown!Cleared({}, {}) /\ menuFocus' = Dropdown!Toggle(d)
      BY <1>2, <2>3 DEF Dropdown!_dataApiKeydownHandler, Dropdown!escape
    <3> QED
      BY <2>1, <3>1 DEF Dropdown!Cleared
  <2> QED
    BY <2>2, <2>3
<1>3. ASSUME MenuInv, NEW which \in {"up", "down"}, menuFocus' # menuFocus,
             Dropdown!_dataApiKeydownHandler(which, {}), menuFocus.on \in menu
      PROVE  /\ menuFocus' \in Dropdown!Places /\ menuFocus'.at = "menu"
             /\ menuFocus'.on = menuFocus.on
             /\ menuFocus.at = "menu" => menuFocus'.item - menuFocus.item \in {-1, 1}
  <2> DEFINE d == menuFocus.on
  <2>1. /\ d \in parent /\ d \in Dropdowns /\ menuFocus \in FocusType
        /\ ~(menuFocus.at = "menu" /\ menuFocus.item = 0)
    BY <1>3 DEF MenuInv, Dropdown!TypeOK, FocusType, Dropdown!_dataApiKeydownHandler,
       Dropdown!vars
  <2>2. MenuItems[d] # 0 /\ menuFocus' = Dropdown!ItemOf(d, Dropdown!nextItem(d, which))
    BY <1>3, <2>1 DEF Dropdown!_dataApiKeydownHandler
  <2>3. MenuItems[d] \in Nat \ {0}
    BY <2>1, <2>2, PageAssumption DEF Dropdown!ConstantsAssumption
  <2>4. menuFocus.at = "menu" =>
           menuFocus.item \in 1..MenuItems[d] /\ menuFocus = Dropdown!ItemOf(d, menuFocus.item)
    <3>1. menuFocus.at = "menu" =>
             menuFocus.item \in 0..MenuItems[d] /\ menuFocus = Dropdown!ItemOf(d, menuFocus.item)
      BY <2>1, FocusPlaces DEF FocusType
    <3> QED
      BY <2>1, <2>3, <3>1
  <2>5. PICK i \in 1..MenuItems[d] :
           /\ i = Dropdown!nextItem(d, which)
           /\ menuFocus.at = "menu" => i - menuFocus.item \in {-1, 0, 1}
    BY <2>1, <2>3, <2>4, NextItemInMenu
  <2>6. menuFocus' = Dropdown!ItemOf(d, i)
    BY <2>2, <2>5
  <2>7. menuFocus' \in Dropdown!Places
    BY <2>1, <2>6, PlacesOfMenu
  <2>8. menuFocus'.at = "menu" /\ menuFocus'.on = d /\ menuFocus'.item = i
    BY <2>6 DEF Dropdown!ItemOf
  <2>9. menuFocus.at = "menu" => i # menuFocus.item
    BY <1>3, <2>4, <2>6
  <2> QED
    BY <2>4, <2>5, <2>7, <2>8, <2>9
<1>4. Dropdown!Spec => Dropdown!ClickCloses
  <2>1. MenuInv => (menu' # {} /\ Dropdown!Click({}, {}) => "disposed" \in menuMisuse)
    BY <1>1
  <2> QED
    BY <2>1, MenuInvariance, PTL DEF Dropdown!ClickCloses
<1>5. Dropdown!Spec => Dropdown!EscapeReturns
  <2>1. MenuInv => (menu # {} /\ Dropdown!_dataApiKeydownHandler("esc", {})
                       /\ menuFocus.on \in menu /\ "disposed" \notin menuMisuse =>
                     menuFocus.on \notin menu' /\ menuFocus' = Dropdown!Toggle(menuFocus.on))
    BY <1>2
  <2> QED
    BY <2>1, MenuInvariance, PTL DEF Dropdown!EscapeReturns
<1>6. Dropdown!Spec => Dropdown!ArrowsStayInMenu
  <2>1. MenuInv =>
          \A which \in {"up", "down"} :
             menuFocus' # menuFocus /\ Dropdown!_dataApiKeydownHandler(which, {})
                   /\ menuFocus.on \in menu =>
                /\ menuFocus' \in Dropdown!Places /\ menuFocus'.at = "menu" /\ menuFocus'.on = menuFocus.on
                /\ menuFocus.at = "menu" => menuFocus'.item - menuFocus.item \in {-1, 1}
    BY <1>3
  <2> QED
    BY <2>1, MenuInvariance, PTL DEF Dropdown!ArrowsStayInMenu
<1> QED
  BY <1>4, <1>5, <1>6 DEF MenusObey

-----------------------------------------------------------------------------
(***************************************************************************)
(* Tabs: the pane in view is that of the link selected.                    *)
(***************************************************************************)

\* The targets that wait do so for the first active pane, one that fades; the
\* link selected is the last of them, and the only one without misuse.
FadeIsOrdered ==
    \A p \in Tab!Links : wait[p] # <<>> =>
        /\ p \in paneActive /\ p \in fade /\ \A q \in paneActive : p <= q
        /\ {wait[p][Len(wait[p])]} = linkActive
        /\ ~tabMisuse => paneActive = {p} /\ Len(wait[p]) = 1

TabInv == Tab!TypeOK /\ Tab!SelectedPaneIsShown /\ FadeIsOrdered

\* Panes, with what of them is shown.
PaneSets == [active : SUBSET Tab!Links, show : SUBSET fade]

LEMMA LinksAreNumbers == Tab!Links \subseteq Nat
BY PageAssumption DEF Tab!ConstantsAssumption, Tab!Links

LEMMA FirstOfOne == ASSUME NEW l \in Nat PROVE Tab!First({l}) = l
BY DEF Tab!First

\* The first of some panes: numbers have a least one.
LEMMA FirstPane ==
    ASSUME NEW S \in SUBSET Tab!Links, S # {}
    PROVE  Tab!First(S) \in S /\ \A p \in S : Tab!First(S) <= p
<1>1. \E p \in S : \A q \in S : p <= q
  BY LinksAreNumbers, LeastNumber
<1> QED
  BY <1>1 DEF Tab!First

LEMMA InitTab == Tab!Init => TabInv
<1> SUFFICES ASSUME Tab!Init PROVE TabInv
  OBVIOUS
<1>1. PICK l \in Tab!Links \ NoTab :
         /\ linkActive = {l} /\ dropActive = (l \in TabDrop)
         /\ paneActive = {l} /\ paneShow = {l} \cap fade
  BY DEF Tab!Init
<1>2. wait = [p \in Tab!Links |-> <<>>] /\ fade \in SUBSET Tab!Links
  BY DEF Tab!Init
<1>3. wait \in [Tab!Links -> Seq(Tab!Links)]
  <2>1. <<>> \in Seq(Tab!Links)
    OBVIOUS
  <2> QED
    BY <1>2, <2>1
<1>4. Tab!TypeOK
  BY <1>1, <1>2, <1>3 DEF Tab!TypeOK
<1>5. Tab!SelectedPaneIsShown
  BY <1>1, <1>2 DEF Tab!SelectedPaneIsShown
<1>6. FadeIsOrdered
  BY <1>2 DEF FadeIsOrdered
<1> QED
  BY <1>4, <1>5, <1>6 DEF TabInv

\* Some pane is active.
LEMMA SomePane == ASSUME TabInv PROVE paneActive # {}
<1>1. PICK l \in Tab!Links \ NoTab : linkActive = {l}
  BY DEF TabInv, Tab!TypeOK
<1>2. CASE Tab!AtRest
  BY <1>1, <1>2 DEF TabInv, Tab!SelectedPaneIsShown
<1>3. CASE ~Tab!AtRest
  BY <1>3 DEF TabInv, FadeIsOrdered, Tab!AtRest
<1> QED
  BY <1>2, <1>3

\* The link is selected alone, and the toggle of the dropdown tells.
LEMMA LinkSelected ==
    ASSUME TabInv, NEW l \in Tab!Links, Tab!show(l)
    PROVE  linkActive' = {l} /\ dropActive' = (l \in TabDrop) /\ l \notin NoTab
<1>1. PICK k \in Tab!Links : linkActive = {k} /\ dropActive = (k \in TabDrop)
  BY DEF TabInv, Tab!TypeOK
<1>2. Tab!First({k}) = k
  BY <1>1, LinksAreNumbers, FirstOfOne
<1>3. l \notin NoTab /\ Tab!_activateLink(l)
  BY DEF Tab!show
<1>4. CASE k \in TabDrop
  <2>1. linkActive \ TabDrop = {}
    BY <1>1, <1>4
  <2>2. dropActive /\ linkActive # {}
    BY <1>1, <1>4
  <2>3. linkActive' = (linkActive \ {k}) \cup {l}
    BY <1>1, <1>2, <1>3, <2>1, <2>2, Zenon DEF Tab!_activateLink
  <2>4. dropActive' = (l \in TabDrop)
    <3>1. dropActive' = (l \in TabDrop \/ (dropActive /\ linkActive \ TabDrop # {}))
      BY <1>3, Zenon DEF Tab!_activateLink
    <3>2. (l \in TabDrop \/ (dropActive /\ linkActive \ TabDrop # {})) <=> l \in TabDrop
      BY <2>1, Zenon
    <3> QED
      BY <3>1, <3>2
  <2> QED
    BY <1>1, <1>3, <2>3, <2>4
<1>5. CASE k \notin TabDrop
  <2>1. linkActive \ TabDrop = {k}
    BY <1>1, <1>5
  <2>2. ~dropActive /\ linkActive \ TabDrop # {}
    BY <1>1, <1>5, <2>1
  <2>3. linkActive' = (linkActive \ {k}) \cup {l}
    BY <1>2, <1>3, <2>1, <2>2, Zenon DEF Tab!_activateLink
  <2>4. dropActive' = (l \in TabDrop)
    <3>1. dropActive' = (l \in TabDrop \/ (dropActive /\ linkActive \ TabDrop # {}))
      BY <1>3, Zenon DEF Tab!_activateLink
    <3>2. (l \in TabDrop \/ (dropActive /\ linkActive \ TabDrop # {})) <=> l \in TabDrop
      BY <2>2, Zenon
    <3> QED
      BY <3>1, <3>2
  <2> QED
    BY <1>1, <1>3, <2>3, <2>4
<1> QED
  BY <1>4, <1>5

LEMMA ShowTab ==
    ASSUME TabInv, NEW l \in Tab!Links, Tab!show(l)
    PROVE  TabInv'
<1> DEFINE f == Tab!First(paneActive)
<1>1. /\ paneActive \subseteq Tab!Links /\ paneActive # {} /\ paneShow \subseteq fade
      /\ wait \in [Tab!Links -> Seq(Tab!Links)] /\ fade \subseteq Tab!Links
  BY SomePane DEF TabInv, Tab!TypeOK
<1>2. f \in paneActive /\ f \in Tab!Links /\ \A q \in paneActive : f <= q
  BY <1>1, FirstPane
<1>3. /\ linkActive' = {l} /\ dropActive' = (l \in TabDrop) /\ l \notin NoTab
      /\ fade' = fade /\ tabMisuse' = (tabMisuse \/ \E p \in Tab!Links : wait[p] # <<>>)
      /\ Tab!_activatePane(l)
  BY LinkSelected DEF Tab!show
<1>4. \A p \in Tab!Links : wait[p] # <<>> => p = f
  <2> SUFFICES ASSUME NEW p \in Tab!Links, wait[p] # <<>> PROVE p = f
    OBVIOUS
  <2>1. p \in paneActive /\ \A q \in paneActive : p <= q
    BY DEF TabInv, FadeIsOrdered
  <2>2. p <= f /\ f <= p /\ p \in Nat /\ f \in Nat
    BY <1>2, <2>1, LinksAreNumbers
  <2> QED
    BY <2>2
<1> HIDE DEF f
<1>5. CASE f \in fade
  <2>1. /\ paneShow' = paneShow \ {f} /\ paneActive' = paneActive
        /\ wait' = [wait EXCEPT ![f] = Append(wait[f], l)]
    BY <1>1, <1>3, <1>5 DEF Tab!_activatePane, f
  <2>2. /\ Append(wait[f], l) \in Seq(Tab!Links) /\ Len(Append(wait[f], l)) = Len(wait[f]) + 1
        /\ Append(wait[f], l)[Len(Append(wait[f], l))] = l /\ Append(wait[f], l) # <<>>
        /\ (wait[f] = <<>> => Len(Append(wait[f], l)) = 1)
    <3>1. wait[f] \in Seq(Tab!Links)
      BY <1>1, <1>2
    <3> QED
      BY <3>1
  <2>3. Tab!TypeOK'
    BY <1>1, <1>2, <1>3, <2>1, <2>2 DEF Tab!TypeOK
  <2>4. wait'[f] = Append(wait[f], l) /\ \A p \in Tab!Links : p # f => wait'[p] = <<>>
    BY <1>1, <1>2, <1>4, <2>1
  <2>5. ~Tab!AtRest'
    BY <1>2, <2>2, <2>4 DEF Tab!AtRest
  <2>6. ASSUME ~tabMisuse' PROVE paneActive = {f} /\ wait[f] = <<>>
    <3>1. ~tabMisuse /\ \A p \in Tab!Links : wait[p] = <<>>
      BY <1>3, <2>6
    <3>2. paneActive = linkActive
      BY <3>1 DEF TabInv, Tab!SelectedPaneIsShown, Tab!AtRest
    <3> QED
      BY <1>2, <3>1, <3>2 DEF TabInv, Tab!TypeOK
  <2>7. FadeIsOrdered'
    BY <1>2, <1>3, <1>5, <2>1, <2>2, <2>4, <2>6 DEF FadeIsOrdered
  <2>8. Tab!SelectedPaneIsShown'
    BY <2>5 DEF Tab!SelectedPaneIsShown
  <2> QED
    BY <2>3, <2>7, <2>8 DEF TabInv
<1>6. CASE f \notin fade
  <2>1. \A p \in Tab!Links : wait[p] = <<>>
    BY <1>4, <1>6 DEF TabInv, FadeIsOrdered
  <2>2. /\ paneActive' = (paneActive \ {f}) \cup {l} /\ paneShow' = paneShow \cup ({l} \cap fade)
        /\ wait' = wait
    BY <1>1, <1>3, <1>6 DEF Tab!_activatePane, Tab!_transitionComplete, Tab!Panes, f
  <2>3. Tab!TypeOK'
    BY <1>1, <1>3, <2>2 DEF Tab!TypeOK
  <2>4. ASSUME ~tabMisuse' PROVE paneActive' = {l}
    <3>1. paneActive = linkActive
      BY <1>3, <2>1, <2>4 DEF TabInv, Tab!SelectedPaneIsShown, Tab!AtRest
    <3>2. paneActive = {f}
      BY <1>2, <3>1 DEF TabInv, Tab!TypeOK
    <3> QED
      BY <2>2, <3>2
  <2>5. Tab!SelectedPaneIsShown'
    BY <1>3, <2>2, <2>4 DEF Tab!SelectedPaneIsShown
  <2>6. FadeIsOrdered'
    BY <2>1, <2>2 DEF FadeIsOrdered
  <2> QED
    BY <2>3, <2>5, <2>6 DEF TabInv
<1> QED
  BY <1>5, <1>6

\* The callbacks that wait for a pane have results, one after the other.
LEMMA TabResults ==
    ASSUME TabInv, NEW p \in Tab!Links
    PROVE  \E g \in [0..Len(wait[p]) -> PaneSets] :
              /\ g[0] = Tab!Panes
              /\ \A k \in 1..Len(wait[p]) :
                    g[k] = Tab!_transitionComplete(g[k - 1], {p}, wait[p][k])
<1> DEFINE n == Len(wait[p])
           a == Tab!Panes
           Run(k, S) == Tab!_transitionComplete(S, {p}, wait[p][k])
<1>1. wait[p] \in Seq(Tab!Links) /\ n \in Nat /\ \A k \in 1..n : wait[p][k] \in Tab!Links
  BY DEF TabInv, Tab!TypeOK
<1>2. a \in PaneSets
  BY DEF PaneSets, Tab!Panes, TabInv, Tab!TypeOK
<1>3. \A k \in 1..n, S \in PaneSets : Run(k, S) \in PaneSets
  BY <1>1 DEF PaneSets, Tab!_transitionComplete
<1> DEFINE step == [k \in 1..n |-> [S \in PaneSets |-> Run(k, S)]]
<1>4. step \in [1..n -> [PaneSets -> PaneSets]]
  BY <1>3
<1>5. PICK g \in [0..n -> PaneSets] : g[0] = a /\ \A k \in 1..n : g[k] = step[k][g[k - 1]]
  <2>1. n \in Nat
    BY <1>1
  <2> HIDE DEF step, n, a, Run
  <2> QED
    <3>1. Results(PaneSets, n, a, step) # {}
      BY <1>2, <1>4, <2>1, StepsHaveResults
    <3> QED
      BY <3>1 DEF Results
<1>6. \A k \in 1..n : g[k] = Run(k, g[k - 1])
  <2> SUFFICES ASSUME NEW k \in 1..n PROVE g[k] = Run(k, g[k - 1])
    OBVIOUS
  <2>1. g[k - 1] \in PaneSets
    BY <1>1
  <2> QED
    BY <1>5, <2>1
<1> QED
  BY <1>5, <1>6

\* The panes after the last of them, and before it.
LEMMA TabCallbacks ==
    ASSUME TabInv, NEW p \in Tab!Links, Tab!TransitionEnd(p)
    PROVE  \E S \in PaneSets :
              /\ Len(wait[p]) = 1 => S = Tab!Panes
              /\ paneActive' = (S.active \ {p}) \cup {wait[p][Len(wait[p])]}
              /\ paneShow' = S.show \cup ({wait[p][Len(wait[p])]} \cap fade)
<1> DEFINE n == Len(wait[p])
<1>1. PICK g \in [0..n -> PaneSets] :
              /\ g[0] = Tab!Panes
              /\ \A k \in 1..n : g[k] = Tab!_transitionComplete(g[k - 1], {p}, wait[p][k])
  BY TabResults
<1>2. n \in Nat \ {0} /\ n \in 1..n /\ n - 1 \in 0..n
  <2>1. wait[p] \in Seq(Tab!Links) /\ wait[p] # <<>>
    BY DEF TabInv, Tab!TypeOK, Tab!TransitionEnd
  <2> QED
    BY <2>1
<1>3. g = [k \in 0..n |-> IF k = 0 THEN Tab!Panes
                          ELSE Tab!_transitionComplete(g[k - 1], {p}, wait[p][k])]
  <2>1. \A k \in 0..n : g[k] = IF k = 0 THEN Tab!Panes
                               ELSE Tab!_transitionComplete(g[k - 1], {p}, wait[p][k])
    <3>1. \A k \in 0..n : k = 0 \/ (k # 0 /\ k \in 1..n)
      BY <1>2
    <3> QED
      BY <1>1, <3>1
  <2>2. g = [k \in 0..n |-> g[k]]
    OBVIOUS
  <2> QED
    BY <2>1, <2>2
<1> DEFINE after[k \in 0..Len(wait[p])] ==
              IF k = 0 THEN Tab!Panes
              ELSE Tab!_transitionComplete(after[k - 1], {p}, wait[p][k])
<1>4. paneActive' = after[n].active /\ paneShow' = after[n].show
  BY Zenon DEF Tab!TransitionEnd
<1>5. after = [k \in 0..n |-> IF k = 0 THEN Tab!Panes
                              ELSE Tab!_transitionComplete(after[k - 1], {p}, wait[p][k])]
  BY Zenon, <1>3
<1> HIDE DEF after, n
<1>6. /\ after[0] = Tab!Panes
      /\ \A k \in 1..n : after[k] = Tab!_transitionComplete(after[k - 1], {p}, wait[p][k])
  <2>1. 0 \in 0..n /\ \A k \in 1..n : k \in 0..n /\ k # 0
    BY <1>2
  <2> QED
    BY <1>5, <2>1
<1>7. \A k \in 0..n : after[k] = g[k]
  <2> DEFINE S == {k \in 0..n : after[k] = g[k]}
             id == [k \in 0..n |-> k]
  <2>1. id[0] \in S
    BY <1>1, <1>2, <1>6
  <2>2. ASSUME NEW k \in 1..n, id[k - 1] \in S PROVE id[k] \in S
    <3>1. k \in 0..n /\ k - 1 \in 0..n /\ id[k] = k /\ id[k - 1] = k - 1
      BY <1>2
    <3>2. after[k - 1] = g[k - 1]
      BY <2>2, <3>1
    <3>3. after[k] = g[k]
      BY <1>1, <1>6, <3>2
    <3> QED
      BY <3>1, <3>3
  <2>3. \A k \in 0..n : id[k] \in S
    <3> HIDE DEF S, id
    <3> QED
      BY <1>2, <2>1, <2>2, StepsKeep
  <2> QED
    BY <2>3
<1>8. g[n] = Tab!_transitionComplete(g[n - 1], {p}, wait[p][n]) /\ g[n - 1] \in PaneSets
  BY <1>1, <1>2
<1>9. n = 1 => g[n - 1] = Tab!Panes
  BY <1>1
<1>10. paneActive' = g[n].active /\ paneShow' = g[n].show
  BY <1>2, <1>4, <1>7
<1> QED
  BY <1>8, <1>9, <1>10 DEF Tab!_transitionComplete, n

LEMMA EndTab ==
    ASSUME TabInv, NEW p \in Tab!Links, Tab!TransitionEnd(p)
    PROVE  TabInv'
<1>1. PICK S \in PaneSets :
         /\ Len(wait[p]) = 1 => S = Tab!Panes
         /\ paneActive' = (S.active \ {p}) \cup {wait[p][Len(wait[p])]}
         /\ paneShow' = S.show \cup ({wait[p][Len(wait[p])]} \cap fade)
  BY TabCallbacks
<1>2. /\ wait[p] # <<>> /\ wait' = [wait EXCEPT ![p] = <<>>]
      /\ UNCHANGED <<fade, linkActive, dropActive, tabMisuse>>
  BY DEF Tab!TransitionEnd
<1>3. PICK l \in Tab!Links \ NoTab : linkActive = {l} /\ dropActive = (l \in TabDrop)
  BY DEF TabInv, Tab!TypeOK
<1>4. /\ wait[p][Len(wait[p])] = l /\ p \in paneActive /\ \A q \in paneActive : p <= q
      /\ ~tabMisuse => paneActive = {p} /\ Len(wait[p]) = 1
  BY <1>2, <1>3 DEF TabInv, FadeIsOrdered
<1>5. wait' \in [Tab!Links -> Seq(Tab!Links)] /\ \A q \in Tab!Links : wait'[q] = <<>>
  <2>1. wait \in [Tab!Links -> Seq(Tab!Links)] /\ <<>> \in Seq(Tab!Links)
    BY DEF TabInv, Tab!TypeOK
  <2>2. \A q \in Tab!Links \ {p} : wait[q] = <<>>
    <3> SUFFICES ASSUME NEW q \in Tab!Links \ {p}, wait[q] # <<>> PROVE FALSE
      OBVIOUS
    <3>1. q \in paneActive /\ \A r \in paneActive : q <= r
      BY DEF TabInv, FadeIsOrdered
    <3>2. p <= q /\ q <= p /\ p \in Nat /\ q \in Nat
      BY <1>4, <3>1, LinksAreNumbers
    <3> QED
      BY <3>2
  <2> QED
    BY <1>2, <2>1, <2>2
<1>6. Tab!TypeOK'
  BY <1>1, <1>2, <1>3, <1>4, <1>5 DEF Tab!TypeOK, PaneSets, TabInv
<1>7. ~tabMisuse => paneActive' = {l}
  BY <1>1, <1>4 DEF Tab!Panes
<1>8. Tab!SelectedPaneIsShown'
  BY <1>1, <1>2, <1>3, <1>4, <1>7 DEF Tab!SelectedPaneIsShown
<1>9. FadeIsOrdered'
  BY <1>5 DEF FadeIsOrdered
<1> QED
  BY <1>6, <1>8, <1>9 DEF TabInv

LEMMA NextTab == TabInv /\ [Tab!Next]_(Tab!vars) => TabInv'
<1>1. ASSUME TabInv, UNCHANGED Tab!vars PROVE TabInv'
  <2>1. Tab!TypeOK' /\ Tab!SelectedPaneIsShown' /\ FadeIsOrdered'
    BY <1>1 DEF TabInv, Tab!vars, Tab!TypeOK, Tab!SelectedPaneIsShown, Tab!AtRest, FadeIsOrdered
  <2> QED
    BY <2>1 DEF TabInv
<1> QED
  BY <1>1, ShowTab, EndTab DEF Tab!Next

\* TabInv holds in every state.
THEOREM TabInvariance == Tab!Spec => []TabInv
BY InitTab, NextTab, PTL DEF Tab!Spec

\* However quick the clicks, one link is selected, callbacks wait for one pane
\* at a time, and at rest the pane of the link selected is in view.
THEOREM TabsAgree == Tab!Spec => []TabsAreConsistent
<1>1. ASSUME TabInv, NEW p \in Tab!Links, NEW q \in Tab!Links, wait[p] # <<>>, wait[q] # <<>>
      PROVE  p = q
  <2>1. p <= q /\ q <= p /\ p \in Nat /\ q \in Nat
    BY <1>1, LinksAreNumbers DEF TabInv, FadeIsOrdered
  <2> QED
    BY <2>1
<1>2. TabInv => Tab!OnePaneFades
  BY <1>1 DEF TabInv, FadeIsOrdered, Tab!OnePaneFades
<1>3. TabInv => TabsAreConsistent
  BY <1>2 DEF TabInv, TabsAreConsistent
<1> QED
  BY <1>3, TabInvariance, PTL

-----------------------------------------------------------------------------
(***************************************************************************)
(* The carousel: its interval, its items and the calls of `to` that wait.  *)
(***************************************************************************)

\* Calls of `to` that can wait, and slides under way.
Choices == [index : Carousel!Items, text : BOOLEAN]

Directions == {"next", "prev"}

Slides ==
    [inst : Nat \ {0}, from : Carousel!Items, next : Carousel!Items, direction : Directions]

CarType ==
    [inst : Nat, made : Nat, isSliding : BOOLEAN, isPaused : BOOLEAN, interval : Nat,
     timers : SUBSET Nat, ticks : Nat, touch : BOOLEAN,
     active : SUBSET Carousel!Items, indicator : Carousel!Items,
     order : [Carousel!Items -> SUBSET Directions],
     dir : [Carousel!Items -> SUBSET {"left", "right"}],
     queue : Seq(Choices), wait : Seq(Slides), slid : Seq(Nat \ {0})]

\* One timer at most, that of the interval; and none in a pause.
OneTimer == {S \in CarType : S.timers = {S.interval} \ {0}}
Timed == {S \in OneTimer : S.isPaused => S.interval = 0}

\* Without an instance nothing runs; one that slides has a transition to end.
Attached(S) ==
    /\ S.inst <= S.made
    /\ S.inst = 0 => /\ ~S.isSliding /\ ~S.isPaused /\ ~S.touch
                     /\ S.interval = 0 /\ S.queue = <<>>
    /\ S.isSliding => S.inst # 0 /\ \E k \in 1..Len(S.wait) : S.wait[k].inst = S.inst

\* Nothing slides, and one item is active, with its indicator.
Still(S) ==
    /\ S.wait = <<>> /\ ~S.isSliding /\ S.active = {S.indicator}
    /\ \A j \in Carousel!Items : S.order[j] = {} /\ S.dir[j] = {}

\* One item slides to another, that of the indicator.
Moving(S) ==
    /\ Len(S.wait) = 1 /\ S.isSliding
    /\ S.wait[1].inst = S.inst /\ S.wait[1].next = S.indicator
    /\ S.active = {S.wait[1].from} /\ S.wait[1].from # S.indicator
    /\ \A j \in Carousel!Items :
          /\ S.order[j] = IF j = S.indicator THEN {S.wait[1].direction} ELSE {}
          /\ S.dir[j] = IF j \in {S.indicator, S.wait[1].from}
                        THEN {Carousel!Toward(S.wait[1].direction)} ELSE {}

\* The carousel S of a page whose scripts have disposed of one in mid-slide (bad).
Sound(S, bad) == S \in Timed /\ Attached(S) /\ (bad \/ Still(S) \/ Moving(S))

\* The item that S shows in the end, as long as nothing waits: x.
Leads(S, x) == S.indicator = x

\* Calls wait while an item slides or as long as "slid" is due.
Queued(S) ==
    S.queue # <<>> => S.isSliding \/ \E k \in 1..Len(S.slid) : S.slid[k] = S.inst

\* The last call of `to` that waits is what is wanted, or the last one served.
Wanted(S, x) ==
    IF S.queue = <<>> THEN Leads(S, x) ELSE S.queue[Len(S.queue)].index = x

CarInv ==
    /\ options \in CarouselOptions /\ want \in 0..CarouselItems /\ carMisuse \in BOOLEAN
    /\ Sound(car, carMisuse) /\ Queued(car)
    /\ want # 0 /\ ~carMisuse => Wanted(car, want)

\* What cycle and pause leave alone.
Same(C, S) ==
    /\ C.inst = S.inst /\ C.made = S.made /\ C.isSliding = S.isSliding /\ C.touch = S.touch
    /\ C.active = S.active /\ C.indicator = S.indicator
    /\ C.order = S.order /\ C.dir = S.dir
    /\ C.queue = S.queue /\ C.wait = S.wait /\ C.slid = S.slid

LEMMA Cleared ==
    ASSUME NEW S \in OneTimer
    PROVE  /\ Carousel!clearInterval(S) \in Timed /\ Same(Carousel!clearInterval(S), S)
           /\ Carousel!clearInterval(S).interval = 0
           /\ Carousel!clearInterval(S).timers = {}
           /\ Carousel!clearInterval(S).ticks = S.ticks
           /\ Carousel!clearInterval(S).isPaused = S.isPaused
<1> DEFINE T == [S EXCEPT !.timers = @ \ {S.interval}, !.interval = 0]
<1>1. S \in CarType /\ S.timers = {S.interval} \ {0}
  BY DEF OneTimer
<1>2. /\ T \in CarType /\ T.interval = 0 /\ T.timers = S.timers \ {S.interval}
      /\ T.ticks = S.ticks /\ T.isPaused = S.isPaused
  BY <1>1 DEF CarType
<1>3. Same(T, S)
  BY <1>1 DEF CarType, Same
<1>4. T.timers = {}
  BY <1>1, <1>2
<1>5. T \in Timed
  BY <1>2, <1>4 DEF Timed, OneTimer
<1>6. Carousel!clearInterval(S) = T
  BY DEF Carousel!clearInterval
<1> QED
  BY <1>2, <1>3, <1>4, <1>5, <1>6

LEMMA Cycled ==
    ASSUME NEW S \in OneTimer, NEW event \in BOOLEAN
    PROVE  /\ Carousel!cycle(S, event) \in Timed /\ Same(Carousel!cycle(S, event), S)
           /\ Carousel!cycle(S, event).isPaused = (S.isPaused /\ event)
<1>1. PICK p \in BOOLEAN : p = (S.isPaused /\ event)
  BY DEF OneTimer, CarType
<1> DEFINE U == [S EXCEPT !.isPaused = p]
           T == Carousel!clearInterval(U)
           C == [T EXCEPT !.ticks = @ + 1, !.interval = S.ticks + 1,
                          !.timers = @ \cup {S.ticks + 1}]
<1>2. S \in CarType /\ S.timers = {S.interval} \ {0}
  BY DEF OneTimer
<1>3. /\ U \in CarType /\ U.timers = S.timers /\ U.interval = S.interval
      /\ U.ticks = S.ticks /\ U.isPaused = p
  BY <1>2 DEF CarType
<1>4. Same(U, S)
  BY <1>2 DEF CarType, Same
<1>5. U \in OneTimer
  BY <1>2, <1>3 DEF OneTimer
<1>6. /\ T \in Timed /\ Same(T, U) /\ T.interval = 0 /\ T.timers = {}
      /\ T.ticks = U.ticks /\ T.isPaused = p
  BY <1>3, <1>5, Cleared
<1> HIDE DEF T, U
<1>9. S.ticks + 1 # 0 /\ S.ticks + 1 \in Nat /\ T.ticks = S.ticks
  BY <1>2, <1>3, <1>6 DEF CarType
<1>14. T \in CarType
  BY <1>6 DEF Timed, OneTimer
<1>15. C \in CarType
  BY <1>9, <1>14 DEF CarType
<1>7. /\ C \in CarType /\ C.interval = S.ticks + 1 /\ C.timers = {S.ticks + 1}
      /\ C.isPaused = p
  <2>1. /\ C.interval = S.ticks + 1 /\ C.timers = T.timers \cup {S.ticks + 1}
        /\ C.isPaused = T.isPaused
    BY <1>14 DEF CarType
  <2> HIDE DEF C
  <2> QED
    BY <1>6, <1>15, <2>1
<1>8. Same(C, T)
  BY <1>6 DEF Timed, OneTimer, CarType, Same
<1>10. ~p => C \in Timed
  <2> SUFFICES ASSUME ~p PROVE C \in Timed
    OBVIOUS
  <2>1. C.timers = {C.interval} \ {0} /\ (C.isPaused => C.interval = 0)
    BY <1>7, <1>9
  <2> HIDE DEF C
  <2> QED
    BY <1>7, <2>1 DEF Timed, OneTimer
<1>11. Carousel!cycle(S, event) = IF options.interval /\ ~T.isPaused THEN C ELSE T
  BY <1>1, Zenon DEF Carousel!cycle, T, U
<1> HIDE DEF C
<1>12. CASE options.interval /\ ~T.isPaused
  <2>1. Carousel!cycle(S, event) = C /\ ~p
    BY <1>6, <1>11, <1>12
  <2>2. Same(C, S)
    BY <1>4, <1>6, <1>8 DEF Same
  <2> QED
    BY <1>1, <1>7, <1>10, <2>1, <2>2
<1>13. CASE ~(options.interval /\ ~T.isPaused)
  <2>1. Carousel!cycle(S, event) = T
    BY <1>11, <1>13
  <2>2. Same(T, S)
    BY <1>4, <1>6 DEF Same
  <2> QED
    BY <1>1, <1>6, <2>1, <2>2
<1> QED
  BY <1>12, <1>13

LEMMA Paused ==
    ASSUME NEW S \in OneTimer, NEW event \in BOOLEAN
    PROVE  /\ Carousel!pause(S, event) \in Timed /\ Same(Carousel!pause(S, event), S)
           /\ Carousel!pause(S, event).isPaused = (S.isPaused \/ ~event)
           /\ Carousel!pause(S, event).interval = 0
<1>1. PICK p \in BOOLEAN : p = (S.isPaused \/ ~event)
  BY DEF OneTimer, CarType
<1>0. PICK yes \in BOOLEAN : yes = TRUE
  OBVIOUS
<1> DEFINE T == [S EXCEPT !.isPaused = p]
           C == IF \E j \in Carousel!Items : T.order[j] # {} THEN Carousel!cycle(T, yes) ELSE T
<1>2. S \in CarType /\ S.timers = {S.interval} \ {0}
  BY DEF OneTimer
<1>3. /\ T \in CarType /\ T.timers = S.timers /\ T.interval = S.interval
      /\ T.order = S.order /\ T.isPaused = p
  BY <1>2 DEF CarType
<1>4. Same(T, S)
  BY <1>2 DEF CarType, Same
<1>5. T \in OneTimer
  BY <1>2, <1>3 DEF OneTimer
<1>6. Carousel!pause(S, event) = Carousel!clearInterval(C)
  <2>1. T.order = S.order
    BY <1>3
  <2> QED
    BY <1>0, <1>1, <2>1, Zenon DEF Carousel!pause
<1> HIDE DEF T
<1>7. C \in OneTimer /\ Same(C, T) /\ C.isPaused = p
  <2>1. CASE \E j \in Carousel!Items : T.order[j] # {}
    <3>1. Carousel!cycle(T, yes) \in Timed /\ Same(Carousel!cycle(T, yes), T)
          /\ Carousel!cycle(T, yes).isPaused = (T.isPaused /\ yes)
      BY <1>5, Cycled
    <3>2. (T.isPaused /\ yes) = p
      BY <1>0, <1>3
    <3>3. C = Carousel!cycle(T, yes)
      BY <2>1
    <3> QED
      BY <3>1, <3>2, <3>3 DEF Timed
  <2>2. CASE ~\E j \in Carousel!Items : T.order[j] # {}
    BY <1>3, <1>5, <2>2 DEF Same
  <2> QED
    BY <2>1, <2>2
<1> HIDE DEF C
<1>8. /\ Carousel!clearInterval(C) \in Timed /\ Same(Carousel!clearInterval(C), C)
      /\ Carousel!clearInterval(C).interval = 0
      /\ Carousel!clearInterval(C).isPaused = C.isPaused
  BY <1>7, Cleared
<1>9. Same(Carousel!clearInterval(C), S)
  BY <1>4, <1>7, <1>8 DEF Same
<1> QED
  BY <1>1, <1>6, <1>7, <1>8, <1>9

\* The slide that begins, or is done at once without class "slide".
Began(R, S, direction, from, next) ==
    /\ R \in Timed /\ (S.isPaused => R.isPaused)
    /\ R.inst = S.inst /\ R.made = S.made /\ R.touch = S.touch
    /\ R.queue = S.queue /\ R.slid = S.slid /\ R.indicator = next
    /\ options.slide =>
          /\ R.isSliding /\ R.active = S.active
          /\ R.wait = Append(S.wait, [inst |-> S.inst, from |-> from, next |-> next,
                                      direction |-> direction])
          /\ \A j \in Carousel!Items :
                /\ R.order[j] = IF j = next THEN S.order[j] \cup {direction}
                                ELSE S.order[j]
                /\ R.dir[j] = IF j \in {from, next}
                              THEN S.dir[j] \cup {Carousel!Toward(direction)}
                              ELSE S.dir[j]
    /\ ~options.slide =>
          /\ ~R.isSliding /\ R.active = (S.active \ {from}) \cup {next}
          /\ R.wait = S.wait /\ R.order = S.order /\ R.dir = S.dir
LEMMA SlidTo ==
    ASSUME NEW S \in Timed, NEW direction \in Directions,
           NEW from \in Carousel!Items, NEW next \in Carousel!Items, S.inst # 0,
           NEW R, R = Carousel!slideTo(S, direction, from, next)
    PROVE  Began(R, S, direction, from, next)
<1>0. PICK yes \in BOOLEAN, no \in BOOLEAN : yes = TRUE /\ no = FALSE
  OBVIOUS
<1> DEFINE w == [inst |-> S.inst, from |-> from, next |-> next, direction |-> direction]
           B == [S EXCEPT !.isSliding = yes]
           P == IF S.interval # 0 THEN Carousel!pause(B, no) ELSE B
           T == [P EXCEPT !.indicator = next]
           M == [T EXCEPT !.order[next] = @ \cup {direction},
                          !.dir[from] = @ \cup {Carousel!Toward(direction)},
                          !.dir[next] = @ \cup {Carousel!Toward(direction)},
                          !.wait = Append(@, w)]
           D == [T EXCEPT !.active = (@ \ {from}) \cup {next}, !.isSliding = no]
           N == IF options.slide THEN M ELSE D
<1>1. R = IF S.interval # 0 THEN Carousel!cycle(N, no) ELSE N
  <2> DEFINE BB == [S EXCEPT !.isSliding = TRUE]
             PP == IF S.interval # 0 THEN Carousel!pause(BB, FALSE) ELSE BB
             TT == [PP EXCEPT !.indicator = next]
             MM == [TT EXCEPT !.order[next] = @ \cup {direction},
                              !.dir[from] = @ \cup {Carousel!Toward(direction)},
                              !.dir[next] = @ \cup {Carousel!Toward(direction)},
                              !.wait = Append(@, w)]
             DD == [TT EXCEPT !.active = (@ \ {from}) \cup {next}, !.isSliding = FALSE]
             NN == IF options.slide THEN MM ELSE DD
  <2>1. R = IF S.interval # 0 THEN Carousel!cycle(NN, FALSE) ELSE NN
    BY Zenon DEF Carousel!slideTo
  <2>2. BB = B
    BY <1>0, Zenon
  <2> HIDE DEF BB, B
  <2>3. PP = P
    BY <1>0, <2>2, Zenon
  <2> HIDE DEF PP, P
  <2>4. TT = T
    BY <2>3, Zenon
  <2> HIDE DEF TT, T
  <2>5. MM = M
    BY <2>4, Zenon
  <2>6. DD = D
    BY <1>0, <2>4, Zenon
  <2> HIDE DEF MM, M, DD, D
  <2>7. NN = N
    BY <2>5, <2>6, Zenon
  <2> HIDE DEF NN, N
  <2> QED
    BY <1>0, <2>1, <2>7, Zenon
<1>2. S \in CarType /\ S \in OneTimer /\ (S.isPaused => S.interval = 0)
  BY DEF Timed, OneTimer
<1>3. /\ B \in CarType /\ B.isSliding = yes /\ B.timers = S.timers
      /\ B.interval = S.interval /\ B.isPaused = S.isPaused
  BY <1>2 DEF CarType
<1>4. /\ B.inst = S.inst /\ B.made = S.made /\ B.touch = S.touch /\ B.queue = S.queue
      /\ B.slid = S.slid /\ B.active = S.active /\ B.wait = S.wait /\ B.order = S.order
      /\ B.dir = S.dir
  BY <1>2 DEF CarType
<1>5. B \in OneTimer
  BY <1>2, <1>3 DEF OneTimer
<1> HIDE DEF B
<1>6. /\ P \in OneTimer /\ Same(P, B) /\ (S.isPaused => P.isPaused)
      /\ (S.interval = 0 => P = B)
  <2>1. CASE S.interval = 0
    BY <1>3, <1>5, <2>1 DEF Same
  <2>2. CASE S.interval # 0
    BY <1>2, <1>5, <2>2, Paused DEF Timed
  <2> QED
    BY <2>1, <2>2
<1> HIDE DEF P
<1>7. P \in CarType /\ P.timers = {P.interval} \ {0}
  BY <1>6 DEF OneTimer
<1>8. /\ T \in CarType /\ T.indicator = next
      /\ T.timers = P.timers /\ T.interval = P.interval /\ T.isPaused = P.isPaused
      /\ T.inst = P.inst /\ T.made = P.made /\ T.touch = P.touch /\ T.queue = P.queue
      /\ T.slid = P.slid /\ T.active = P.active /\ T.wait = P.wait /\ T.order = P.order
      /\ T.dir = P.dir /\ T.isSliding = P.isSliding
  BY <1>7 DEF CarType
<1> HIDE DEF T
<1>9. w \in Slides /\ Carousel!Toward(direction) \in {"left", "right"}
  BY <1>2 DEF Slides, CarType, Carousel!Toward
<1> HIDE DEF w
<1>10. M \in CarType
  <2>1. Append(T.wait, w) \in Seq(Slides)
    BY <1>8, <1>9 DEF CarType
  <2>2. /\ [T.order EXCEPT ![next] = @ \cup {direction}] \in [Carousel!Items -> SUBSET Directions]
        /\ [[T.dir EXCEPT ![from] = @ \cup {Carousel!Toward(direction)}]
                   EXCEPT ![next] = @ \cup {Carousel!Toward(direction)}]
              \in [Carousel!Items -> SUBSET {"left", "right"}]
    BY <1>8, <1>9, ZenonT(40) DEF CarType
  <2> QED
    BY <1>8, <2>1, <2>2, ZenonT(40) DEF CarType
<1>11. /\ M.timers = T.timers /\ M.interval = T.interval /\ M.isPaused = T.isPaused
       /\ M.inst = T.inst /\ M.made = T.made /\ M.touch = T.touch /\ M.queue = T.queue
       /\ M.slid = T.slid /\ M.active = T.active /\ M.indicator = T.indicator
       /\ M.isSliding = T.isSliding /\ M.wait = Append(T.wait, w)
  BY <1>8 DEF CarType
<1>12. \A j \in Carousel!Items :
          /\ M.order[j] = IF j = next THEN T.order[j] \cup {direction} ELSE T.order[j]
          /\ M.dir[j] = IF j \in {from, next} THEN T.dir[j] \cup {Carousel!Toward(direction)}
                        ELSE T.dir[j]
  BY <1>8 DEF CarType
<1>13. /\ D \in CarType /\ D.isSliding = no /\ D.active = (T.active \ {from}) \cup {next}
       /\ D.timers = T.timers /\ D.interval = T.interval /\ D.isPaused = T.isPaused
       /\ D.inst = T.inst /\ D.made = T.made /\ D.touch = T.touch /\ D.queue = T.queue
       /\ D.slid = T.slid /\ D.indicator = T.indicator /\ D.wait = T.wait
       /\ D.order = T.order /\ D.dir = T.dir
  BY <1>8 DEF CarType
<1> HIDE DEF M, D
<1>14. /\ N \in OneTimer /\ N.interval = P.interval /\ N.isPaused = P.isPaused
       /\ N.inst = S.inst /\ N.made = S.made /\ N.touch = S.touch
       /\ N.queue = S.queue /\ N.slid = S.slid /\ N.indicator = next
  <2>1. N = M \/ N = D
    OBVIOUS
  <2>2. /\ N \in CarType /\ N.timers = {N.interval} \ {0}
        /\ N.interval = P.interval /\ N.isPaused = P.isPaused
    BY <1>7, <1>8, <1>10, <1>11, <1>13, <2>1
  <2>3. /\ N.inst = S.inst /\ N.made = S.made /\ N.touch = S.touch
        /\ N.queue = S.queue /\ N.slid = S.slid /\ N.indicator = next
    BY <1>4, <1>6, <1>8, <1>11, <1>13, <2>1 DEF Same
  <2> HIDE DEF N
  <2> QED
    BY <2>2, <2>3 DEF OneTimer
<1>15. options.slide => N = M
  OBVIOUS
<1>16. ~options.slide => N = D
  OBVIOUS
<1> HIDE DEF N
<1>17. R \in Timed /\ Same(R, N) /\ (S.isPaused => R.isPaused)
  <2>1. CASE S.interval = 0
    <3>1. R = N /\ N.interval = 0 /\ N.isPaused = S.isPaused
      BY <1>1, <1>3, <1>6, <1>14, <2>1
    <3> QED
      BY <1>14, <3>1 DEF Timed, Same
  <2>2. CASE S.interval # 0
    BY <1>1, <1>2, <1>14, <2>2, Cycled
  <2> QED
    BY <2>1, <2>2
<1>18. /\ R.inst = S.inst /\ R.made = S.made /\ R.touch = S.touch
       /\ R.queue = S.queue /\ R.slid = S.slid /\ R.indicator = next
  BY <1>14, <1>17 DEF Same
<1>19. ASSUME options.slide
       PROVE  /\ R.isSliding = yes /\ R.active = S.active /\ R.wait = Append(S.wait, w)
              /\ R.order = M.order /\ R.dir = M.dir
  <2>1. /\ R.isSliding = M.isSliding /\ R.active = M.active /\ R.wait = M.wait
        /\ R.order = M.order /\ R.dir = M.dir
    BY <1>15, <1>17, <1>19 DEF Same
  <2>2. /\ M.isSliding = P.isSliding /\ M.active = P.active /\ M.wait = Append(P.wait, w)
    BY <1>8, <1>11
  <2>3. /\ P.isSliding = yes /\ P.active = S.active /\ P.wait = S.wait
    BY <1>3, <1>4, <1>6 DEF Same
  <2> QED
    BY <2>1, <2>2, <2>3
<1>20. ASSUME ~options.slide
       PROVE  /\ R.isSliding = no /\ R.active = (S.active \ {from}) \cup {next}
              /\ R.wait = S.wait /\ R.order = S.order /\ R.dir = S.dir
  <2>1. /\ R.isSliding = D.isSliding /\ R.active = D.active /\ R.wait = D.wait
        /\ R.order = D.order /\ R.dir = D.dir
    BY <1>16, <1>17, <1>20 DEF Same
  <2>2. /\ D.isSliding = no /\ D.active = (P.active \ {from}) \cup {next}
        /\ D.wait = P.wait /\ D.order = P.order /\ D.dir = P.dir
    BY <1>8, <1>13
  <2>3. P.active = S.active /\ P.wait = S.wait /\ P.order = S.order /\ P.dir = S.dir
    BY <1>4, <1>6 DEF Same
  <2> QED
    BY <2>1, <2>2, <2>3
<1>21. T.order = S.order /\ T.dir = S.dir
  BY <1>4, <1>6, <1>8 DEF Same
<1>22. ASSUME options.slide
       PROVE  \A j \in Carousel!Items :
                 /\ R.order[j] = IF j = next THEN S.order[j] \cup {direction}
                                 ELSE S.order[j]
                 /\ R.dir[j] = IF j \in {from, next}
                               THEN S.dir[j] \cup {Carousel!Toward(direction)}
                               ELSE S.dir[j]
  <2>1. R.order = M.order /\ R.dir = M.dir
    BY <1>19, <1>22
  <2> QED
    BY <1>12, <1>21, <2>1
<1>23. options.slide => R.isSliding /\ R.active = S.active /\ R.wait = Append(S.wait, w)
  BY <1>0, <1>19
<1>24. ~options.slide =>
          /\ ~R.isSliding /\ R.active = (S.active \ {from}) \cup {next}
          /\ R.wait = S.wait /\ R.order = S.order /\ R.dir = S.dir
  BY <1>0, <1>20
<1> QED
  BY <1>17, <1>18, <1>22, <1>23, <1>24, Zenon DEF Began, w

LEMMA ItemsAreNumbers ==
    /\ CarouselItems \in Nat \ {0} /\ Carousel!Items = 1..CarouselItems
    /\ Carousel!Items \subseteq Nat
BY PageAssumption DEF Carousel!ConstantsAssumption, Carousel!Items

\* The first active item, if there is one.
LEMMA ActiveElement ==
    ASSUME NEW S \in CarType
    PROVE  /\ S.active = {} => Carousel!activeElement(S) = 0
           /\ S.active # {} => Carousel!activeElement(S) \in S.active
<1>1. S.active \subseteq Carousel!Items
  BY DEF CarType
<1>2. ASSUME S.active # {} PROVE \E i \in S.active : \A j \in S.active : i <= j
  BY <1>1, <1>2, ItemsAreNumbers, LeastNumber
<1> QED
  BY <1>2 DEF Carousel!activeElement

\* The neighbour of an item is an item.
LEMMA Neighbour ==
    ASSUME NEW direction \in Directions, NEW i \in Carousel!Items
    PROVE  Carousel!_getItemByDirection(direction, i) \in Carousel!Items
<1>1. i \in 1..CarouselItems /\ CarouselItems \in Nat /\ Carousel!Items = 1..CarouselItems
  BY ItemsAreNumbers
<1>2. CASE direction = "next"
  <2>1. CASE i = CarouselItems
    BY <1>1, <1>2, <2>1 DEF Carousel!_getItemByDirection
  <2>2. CASE i < CarouselItems
    BY <1>1, <1>2, <2>2 DEF Carousel!_getItemByDirection
  <2> QED
    BY <1>1, <2>1, <2>2
<1>3. CASE direction = "prev"
  <2>1. CASE i = 1
    BY <1>1, <1>3, <2>1 DEF Carousel!_getItemByDirection
  <2>2. CASE i > 1
    BY <1>1, <1>3, <2>2 DEF Carousel!_getItemByDirection
  <2> QED
    BY <1>1, <2>1, <2>2
<1> QED
  BY <1>2, <1>3 DEF Directions

\* What a slide leaves alone.
Keeps(R, S) ==
    /\ R.inst = S.inst /\ R.made = S.made /\ R.touch = S.touch /\ R.slid = S.slid

\* A carousel that slides nothing slides to an item, in either direction.
LEMMA Slid ==
    ASSUME NEW bad \in BOOLEAN, NEW S, Sound(S, bad), S.inst # 0, ~S.isSliding,
           NEW direction \in Directions, NEW element \in 0..CarouselItems, NEW no \in BOOLEAN,
           NEW R, R = Carousel!_slide(S, direction, element, no)
    PROVE  /\ Sound(R, bad) /\ Keeps(R, S) /\ R.queue = S.queue
           /\ S.isPaused => R.isPaused
           /\ options.slide => R.active = S.active
           /\ element # 0 /\ ~no /\ ~bad => R.indicator = element
<1> DEFINE from == Carousel!activeElement(S)
           next == IF element # 0 THEN element
                   ELSE IF from = 0 THEN 0 ELSE Carousel!_getItemByDirection(direction, from)
<1>1. S \in CarType /\ S \in Timed /\ S.inst <= S.made
  BY DEF Sound, Timed, OneTimer, Attached
<1>2. /\ from = 0 \/ (from \in S.active /\ from \in Carousel!Items)
      /\ S.active # {} => from \in S.active
  BY <1>1, ActiveElement DEF CarType
<1>3. next = 0 \/ next \in Carousel!Items
  BY <1>2, ItemsAreNumbers, Neighbour
<1>4. ~bad => Still(S) /\ from = S.indicator
  <2>1. ~bad => Still(S)
    BY DEF Sound, Moving
  <2> QED
    BY <1>2, <2>1 DEF Still
<1>5. element # 0 => next = element
  OBVIOUS
<1>6. R = IF next \in S.active THEN [S EXCEPT !.isSliding = FALSE]
          ELSE IF no \/ from = 0 \/ next = 0 THEN S
          ELSE Carousel!slideTo(S, direction, from, next)
  BY Zenon DEF Carousel!_slide
<1> HIDE DEF next, from
<1>7. CASE next \in S.active
  <2>1. [S EXCEPT !.isSliding = S.isSliding] = S
    BY <1>1 DEF CarType
  <2>2. S.isSliding = FALSE
    BY <1>1 DEF CarType
  <2>3. [S EXCEPT !.isSliding = FALSE] = S
    BY <2>1, <2>2, Zenon
  <2>4. R = S
    BY <1>6, <1>7, <2>3, Zenon
  <2>5. ~bad => next = S.indicator
    BY <1>4, <1>7 DEF Still
  <2> QED
    BY <1>5, <2>4, <2>5 DEF Keeps
<1>8. CASE next \notin S.active /\ (no \/ from = 0 \/ next = 0)
  <2>1. R = S
    BY <1>6, <1>8, Zenon
  <2>2. element # 0 /\ ~no /\ ~bad => FALSE
    <3>1. ~bad => from \in Carousel!Items /\ from # 0
      BY <1>1, <1>4, ItemsAreNumbers DEF CarType
    <3> QED
      BY <1>5, <1>8, <3>1
  <2> QED
    BY <2>1, <2>2 DEF Keeps
<1>9. CASE next \notin S.active /\ ~no /\ from # 0 /\ next # 0
  <2>1. R = Carousel!slideTo(S, direction, from, next)
    BY <1>6, <1>9, Zenon
  <2>2. from \in Carousel!Items /\ next \in Carousel!Items /\ from \in S.active /\ from # next
    BY <1>2, <1>3, <1>9
  <2> DEFINE w == [inst |-> S.inst, from |-> from, next |-> next, direction |-> direction]
  <2>0. Began(R, S, direction, from, next)
    BY <1>1, <2>1, <2>2, SlidTo
  <2>3. /\ R \in Timed /\ (S.isPaused => R.isPaused)
        /\ R.inst = S.inst /\ R.made = S.made /\ R.touch = S.touch
        /\ R.queue = S.queue /\ R.slid = S.slid /\ R.indicator = next
    BY <2>0, Zenon DEF Began
  <2>4. options.slide =>
           /\ R.isSliding /\ R.active = S.active
           /\ R.wait = Append(S.wait, w)
           /\ \A j \in Carousel!Items :
                 /\ R.order[j] = IF j = next THEN S.order[j] \cup {direction}
                                 ELSE S.order[j]
                 /\ R.dir[j] = IF j \in {from, next}
                               THEN S.dir[j] \cup {Carousel!Toward(direction)}
                               ELSE S.dir[j]
    BY <2>0, Zenon DEF Began, w
  <2>5. ~options.slide =>
           /\ ~R.isSliding /\ R.active = (S.active \ {from}) \cup {next}
           /\ R.wait = S.wait /\ R.order = S.order /\ R.dir = S.dir
    BY <2>0, Zenon DEF Began, w
  <2>6. w.inst = S.inst /\ w.from = from /\ w.next = next /\ w.direction = direction
    OBVIOUS
  <2>7. S.wait \in Seq(Slides) /\ R.wait \in Seq(Slides)
    BY <1>1, <2>3 DEF Timed, OneTimer, CarType
  <2> HIDE DEF w
  <2>8. Attached(R)
    <3>1. CASE options.slide
      <4>1. /\ Len(R.wait) \in 1..Len(R.wait) /\ R.wait[Len(R.wait)] = w
        BY <2>4, <2>7, <3>1
      <4> QED
        BY <1>1, <2>3, <2>6, <4>1 DEF Attached
    <3>2. CASE ~options.slide
      BY <1>1, <2>3, <2>5, <3>2 DEF Attached
    <3> QED
      BY <3>1, <3>2
  <2>9. ASSUME ~bad PROVE Still(R) \/ Moving(R)
    <3>1. /\ S.wait = <<>> /\ S.active = {from} /\ from = S.indicator
          /\ \A j \in Carousel!Items : S.order[j] = {} /\ S.dir[j] = {}
      BY <1>4, <2>9 DEF Still
    <3>2. CASE options.slide
      <4>1. R.wait = <<w>> /\ Len(R.wait) = 1 /\ R.wait[1] = w
        <5>1. Append(<<>>, w) = <<w>> /\ Len(<<w>>) = 1 /\ <<w>>[1] = w
          OBVIOUS
        <5>2. R.wait = Append(S.wait, w) /\ S.wait = <<>>
          BY <2>4, <3>1, <3>2
        <5>3. R.wait = Append(<<>>, w)
          BY <5>2, Zenon
        <5>4. R.wait = <<w>>
          BY <5>1, <5>3, Zenon
        <5> QED
          BY <5>1, <5>4, Zenon
      <4>2. \A j \in Carousel!Items :
               /\ R.order[j] = IF j = next THEN {direction} ELSE {}
               /\ R.dir[j] = IF j \in {next, from} THEN {Carousel!Toward(direction)} ELSE {}
        BY <2>4, <3>1, <3>2
      <4>3. Moving(R)
        <5>1. /\ R.wait[1].inst = R.inst /\ R.wait[1].next = next /\ R.wait[1].from = from
              /\ R.wait[1].direction = direction
          BY <2>3, <2>6, <4>1
        <5>2. /\ R.isSliding /\ R.active = {from} /\ R.indicator = next /\ from # next
          BY <2>2, <2>3, <2>4, <3>1, <3>2
        <5> QED
          BY <4>1, <4>2, <5>1, <5>2, SMTT(30) DEF Moving
      <4> QED
        BY <4>3
    <3>3. CASE ~options.slide
      <4>1. R.active = {next}
        BY <2>5, <3>1, <3>3
      <4> QED
        BY <2>3, <2>5, <3>1, <3>3, <4>1 DEF Still
    <3> QED
      BY <3>2, <3>3
  <2> QED
    BY <1>5, <2>3, <2>4, <2>8, <2>9 DEF Sound, Keeps
<1> QED
  BY <1>7, <1>8, <1>9

\* What a call that is no call of `to` leaves alone.
Served(R, S, bad) ==
    /\ Sound(R, bad) /\ R.inst = S.inst /\ R.slid = S.slid /\ R.queue = S.queue
    /\ S.isSliding => R.isSliding

\* What a slide shows.
Seen(C, S) ==
    /\ C.inst = S.inst /\ C.isSliding = S.isSliding /\ C.active = S.active
    /\ C.indicator = S.indicator /\ C.order = S.order /\ C.dir = S.dir /\ C.wait = S.wait

LEMMA SameSlide ==
    ASSUME NEW S, NEW C, Seen(C, S)
    PROVE  (Still(S) => Still(C)) /\ (Moving(S) => Moving(C))
<1>1. Still(S) => Still(C)
  BY DEF Still, Seen
<1>2. ASSUME Moving(S) PROVE Moving(C)
  <2>1. /\ C.inst = S.inst /\ C.isSliding = S.isSliding /\ C.active = S.active
        /\ C.indicator = S.indicator /\ C.order = S.order /\ C.dir = S.dir
        /\ C.wait = S.wait
    BY DEF Seen
  <2>2. /\ Len(C.wait) = 1 /\ C.isSliding
        /\ C.wait[1].inst = C.inst /\ C.wait[1].next = C.indicator
        /\ C.active = {C.wait[1].from} /\ C.wait[1].from # C.indicator
    BY <1>2, <2>1 DEF Moving
  <2>3. ASSUME NEW j \in Carousel!Items
        PROVE  /\ C.order[j] = IF j = C.indicator THEN {C.wait[1].direction} ELSE {}
               /\ C.dir[j] = IF j \in {C.indicator, C.wait[1].from}
                             THEN {Carousel!Toward(C.wait[1].direction)} ELSE {}
    BY <1>2, <2>1, ZenonT(40) DEF Moving
  <2> QED
    BY <2>2, <2>3, Zenon DEF Moving
<1> QED
  BY <1>1, <1>2

LEMMA SameServes ==
    ASSUME NEW bad \in BOOLEAN, NEW S, Sound(S, bad), S.inst # 0, NEW C \in Timed, Same(C, S)
    PROVE  Served(C, S, bad)
<1>1. Attached(C)
  BY DEF Sound, Attached, Same
<1>2. Seen(C, S)
  BY DEF Seen, Same
<1>3. Sound(C, bad)
  BY <1>1, <1>2, SameSlide DEF Sound
<1> QED
  BY <1>3 DEF Served, Same

LEMMA CycleServes ==
    ASSUME NEW bad \in BOOLEAN, NEW S, Sound(S, bad), S.inst # 0, NEW event \in BOOLEAN
    PROVE  /\ Served(Carousel!cycle(S, event), S, bad)
           /\ Carousel!cycle(S, event).isPaused = (S.isPaused /\ event)
<1>1. S \in OneTimer
  BY DEF Sound, Timed
<1>2. /\ Carousel!cycle(S, event) \in Timed /\ Same(Carousel!cycle(S, event), S)
      /\ Carousel!cycle(S, event).isPaused = (S.isPaused /\ event)
  BY <1>1, Cycled
<1> QED
  BY <1>2, SameServes

LEMMA PauseServes ==
    ASSUME NEW bad \in BOOLEAN, NEW S, Sound(S, bad), S.inst # 0, NEW event \in BOOLEAN
    PROVE  /\ Served(Carousel!pause(S, event), S, bad)
           /\ Carousel!pause(S, event).isPaused = (S.isPaused \/ ~event)
<1>1. S \in OneTimer
  BY DEF Sound, Timed
<1>2. /\ Carousel!pause(S, event) \in Timed /\ Same(Carousel!pause(S, event), S)
      /\ Carousel!pause(S, event).isPaused = (S.isPaused \/ ~event)
  BY <1>1, Paused
<1> QED
  BY <1>2, SameServes

LEMMA StepServes ==
    ASSUME NEW bad \in BOOLEAN, NEW S, Sound(S, bad), S.inst # 0,
           NEW direction \in Directions, NEW no \in BOOLEAN
    PROVE  /\ Served(Carousel!step(S, direction, no), S, bad)
           /\ S.isPaused => Carousel!step(S, direction, no).isPaused
<1>1. CASE S.isSliding
  <2>1. Carousel!step(S, direction, no) = S
    BY <1>1, Zenon DEF Carousel!step
  <2> QED
    BY <2>1 DEF Served
<1>2. CASE ~S.isSliding
  <2>1. 0 \in 0..CarouselItems
    BY ItemsAreNumbers
  <2>2. PICK R : R = Carousel!_slide(S, direction, 0, no)
    OBVIOUS
  <2>3. Sound(R, bad) /\ Keeps(R, S) /\ R.queue = S.queue /\ (S.isPaused => R.isPaused)
    BY <1>2, <2>1, <2>2, Slid
  <2>4. Carousel!step(S, direction, no) = R
    BY <1>2, <2>2, Zenon DEF Carousel!step
  <2> QED
    BY <1>2, <2>3, <2>4 DEF Served, Keeps
<1> QED
  BY <1>1, <1>2

\* A call of `to` waits while an item slides, and else is served at once.
LEMMA ToServes ==
    ASSUME NEW bad \in BOOLEAN, NEW S, Sound(S, bad), S.inst # 0,
           NEW c \in Choices, NEW no \in BOOLEAN, NEW R, R = Carousel!to(S, c, no)
    PROVE  /\ Sound(R, bad) /\ R.inst = S.inst /\ R.slid = S.slid
           /\ S.isSliding => R.isSliding /\ R.queue = Append(S.queue, c)
           /\ ~S.isSliding => R.queue = S.queue /\ (~no /\ ~bad => R.indicator = c.index)
           /\ S.isPaused => R.isPaused \/ (~c.text /\ c.index = Carousel!activeElement(S))
           /\ options.slide => R.active = S.active
<1> DEFINE from == Carousel!activeElement(S)
           Q == [S EXCEPT !.queue = Append(S.queue, c)]
<1>1. S \in CarType /\ S \in Timed /\ S \in OneTimer
  BY DEF Sound, Timed, OneTimer
<1>2. c.index \in Carousel!Items /\ c.index \in 0..CarouselItems /\ c.index # 0
  BY ItemsAreNumbers DEF Choices
<1>3. R = IF S.isSliding THEN Q
          ELSE IF from = c.index /\ ~c.text
               THEN Carousel!cycle(Carousel!pause(S, FALSE), FALSE)
          ELSE Carousel!_slide(S, IF c.index > from THEN "next" ELSE "prev", c.index, no)
  BY <1>2, Zenon DEF Carousel!to
<1>4. CASE S.isSliding
  <2>1. Append(S.queue, c) \in Seq(Choices)
    BY <1>1 DEF CarType
  <2>2. /\ Q \in CarType /\ Q.queue = Append(S.queue, c)
        /\ Q.inst = S.inst /\ Q.made = S.made /\ Q.isSliding = S.isSliding
        /\ Q.isPaused = S.isPaused /\ Q.interval = S.interval /\ Q.timers = S.timers
        /\ Q.active = S.active /\ Q.indicator = S.indicator /\ Q.order = S.order
        /\ Q.dir = S.dir /\ Q.wait = S.wait /\ Q.slid = S.slid /\ Q.touch = S.touch
    BY <1>1, <2>1 DEF CarType
  <2> HIDE DEF Q
  <2>3. Q \in Timed
    BY <1>1, <2>2 DEF Timed, OneTimer
  <2>4. Attached(Q)
    BY <2>2 DEF Sound, Attached
  <2>5. (Still(S) => Still(Q)) /\ (Moving(S) => Moving(Q))
    <3>1. Seen(Q, S)
      BY <2>2 DEF Seen
    <3> QED
      BY <3>1, SameSlide
  <2>6. Sound(Q, bad)
    BY <2>3, <2>4, <2>5 DEF Sound
  <2>7. R = Q
    BY <1>3, <1>4, Zenon
  <2> QED
    BY <1>4, <2>2, <2>6, <2>7
<1>5. CASE ~S.isSliding /\ from = c.index /\ ~c.text
  <2>0. PICK e \in BOOLEAN : e = FALSE
    OBVIOUS
  <2>1. PICK P : P = Carousel!pause(S, e)
    OBVIOUS
  <2>2. Served(P, S, bad)
    BY <2>1, PauseServes
  <2>3. Served(Carousel!cycle(P, e), P, bad)
    BY <2>2, CycleServes DEF Served
  <2>4. R = Carousel!cycle(P, e)
    BY <1>3, <1>5, <2>0, <2>1, Zenon
  <2>5. Sound(R, bad) /\ R.inst = S.inst /\ R.slid = S.slid /\ R.queue = S.queue
    BY <2>2, <2>3, <2>4 DEF Served
  <2>6. c.index \in S.active
    BY <1>1, <1>2, <1>5, ActiveElement
  <2>7. R.active = S.active /\ (~bad => R.indicator = c.index)
    <3>1. ~bad => Still(S)
      BY <1>5 DEF Sound, Moving
    <3>2. R.indicator = S.indicator /\ R.active = S.active
      <4>1. Same(P, S) /\ P \in OneTimer
        BY <1>1, <2>1, Paused DEF Timed
      <4>2. Same(R, P)
        BY <2>4, <4>1, Cycled
      <4> QED
        BY <4>1, <4>2 DEF Same
    <3> QED
      BY <2>6, <3>1, <3>2 DEF Still
  <2> QED
    BY <1>5, <2>5, <2>6, <2>7
<1>6. CASE ~S.isSliding /\ ~(from = c.index /\ ~c.text)
  <2>1. PICK d \in Directions : d = IF c.index > from THEN "next" ELSE "prev"
    BY DEF Directions
  <2>2. R = Carousel!_slide(S, d, c.index, no)
    BY <1>3, <1>6, <2>1, Zenon
  <2>3. /\ Sound(R, bad) /\ Keeps(R, S) /\ R.queue = S.queue
        /\ S.isPaused => R.isPaused
        /\ options.slide => R.active = S.active
        /\ c.index # 0 /\ ~no /\ ~bad => R.indicator = c.index
    BY <1>2, <1>6, <2>2, Slid
  <2> QED
    BY <1>2, <1>6, <2>3 DEF Keeps
<1> QED
  BY <1>4, <1>5, <1>6

\* The first call makes an instance.
LEMMA Instance ==
    ASSUME NEW bad \in BOOLEAN, NEW S, Sound(S, bad), NEW I, I = Carousel!instance(S)
    PROVE  /\ Sound(I, bad) /\ I.inst # 0 /\ I.isPaused = S.isPaused /\ I.isSliding = S.isSliding
           /\ I.queue = S.queue /\ I.slid = S.slid /\ I.wait = S.wait
           /\ I.active = S.active /\ I.indicator = S.indicator
           /\ S.inst # 0 => I = S
<1>1. CASE S.inst # 0
  <2>1. I = S
    BY <1>1, Zenon DEF Carousel!instance
  <2> QED
    BY <1>1, <2>1
<1>2. CASE S.inst = 0
  <2>0. PICK f \in BOOLEAN : f = FALSE
    OBVIOUS
  <2> DEFINE J == [S EXCEPT !.inst = S.made + 1, !.made = S.made + 1, !.isSliding = f,
                            !.isPaused = f, !.interval = 0]
  <2>1. I = J
    BY <1>2, <2>0, Zenon DEF Carousel!instance
  <2>2. /\ S \in CarType /\ S.timers = {S.interval} \ {0} /\ S.interval = 0
        /\ ~S.isSliding /\ ~S.isPaused /\ ~S.touch /\ S.queue = <<>>
    BY <1>2 DEF Sound, Timed, OneTimer, Attached
  <2>3. J \in CarType
    <3>1. S.made + 1 \in Nat
      BY <2>2 DEF CarType
    <3> QED
      BY <2>2, <3>1, ZenonT(40) DEF CarType
  <2>4. /\ J.inst = S.made + 1 /\ J.made = S.made + 1 /\ J.isSliding = f
        /\ J.isPaused = f /\ J.interval = 0 /\ J.timers = S.timers
        /\ J.active = S.active /\ J.indicator = S.indicator /\ J.order = S.order
        /\ J.dir = S.dir /\ J.wait = S.wait /\ J.slid = S.slid /\ J.touch = S.touch
        /\ J.queue = S.queue
    BY <2>2 DEF CarType
  <2>5. S.made + 1 # 0 /\ S.made + 1 <= S.made + 1
    BY <2>2 DEF CarType
  <2> HIDE DEF J
  <2>6. J.isPaused = S.isPaused /\ J.isSliding = S.isSliding
    BY <2>0, <2>2, <2>4 DEF CarType
  <2>7. J \in Timed
    BY <2>0, <2>2, <2>3, <2>4 DEF Timed, OneTimer
  <2>8. Attached(J)
    BY <2>0, <2>4, <2>5 DEF Attached
  <2>9. bad \/ Still(J)
    <3>1. bad \/ Still(S)
      BY <2>2 DEF Sound, Moving
    <3> QED
      BY <2>0, <2>4, <3>1 DEF Still
  <2> QED
    BY <1>2, <2>1, <2>4, <2>5, <2>6, <2>7, <2>8, <2>9 DEF Sound
<1> QED
  BY <1>1, <1>2

\* What waits and what is active tell which item is shown in the end.
LEMMA SameView ==
    ASSUME NEW S, NEW R, Sound(S, FALSE), Sound(R, FALSE),
           R.wait = S.wait, R.active = S.active
    PROVE  R.indicator = S.indicator
<1>1. (Still(S) \/ Moving(S)) /\ (Still(R) \/ Moving(R)) /\ Len(<<>>) = 0
  BY DEF Sound
<1>2. CASE Still(S)
  <2>1. Still(R)
    BY <1>1, <1>2 DEF Still, Moving
  <2> QED
    BY <1>2, <2>1 DEF Still
<1>3. CASE Moving(S)
  <2>1. Moving(R)
    <3>1. Len(S.wait) = 1
      BY <1>3 DEF Moving
    <3>2. R.wait # <<>>
      BY <1>1, <3>1, SMTT(30)
    <3> QED
      BY <1>1, <3>2 DEF Still
  <2> QED
    BY <1>3, <2>1 DEF Moving
<1> QED
  BY <1>1, <1>2, <1>3

\* A task that leads to a carousel that is served as the one before it.
LEMMA DoneKeeps ==
    ASSUME CarInv, NEW S, Served(S, Carousel!instance(car), carMisuse), NEW no \in BOOLEAN,
           Carousel!Done(S, no)
    PROVE  CarInv'
<1>1. PICK I : I = Carousel!instance(car)
  OBVIOUS
<1>2. /\ Sound(I, carMisuse) /\ I.inst # 0 /\ I.isSliding = car.isSliding
      /\ I.queue = car.queue /\ I.slid = car.slid
      /\ car.inst # 0 => I = car
  BY <1>1, Instance DEF CarInv
<1>3. /\ Sound(S, carMisuse) /\ S.inst = I.inst /\ S.slid = I.slid /\ S.queue = I.queue
      /\ I.isSliding => S.isSliding
  BY <1>1 DEF Served
<1>4. car' = S /\ options' = options /\ carMisuse' = carMisuse
  BY DEF Carousel!Done
<1>5. Queued(S)
  <2>1. ASSUME S.queue # <<>> PROVE S.inst = car.inst /\ S.slid = car.slid
    <3>1. car.inst # 0
      BY <1>2, <1>3, <2>1 DEF CarInv, Sound, Attached
    <3> QED
      BY <1>2, <1>3, <3>1
  <2> QED
    BY <1>2, <1>3, <2>1 DEF CarInv, Queued
<1>6. /\ want' \in 0..CarouselItems
      /\ want' # 0 => /\ want' = want
                      /\ car.queue = <<>> => S.wait = car.wait /\ S.active = car.active
  <2>1. want' = IF no \/ (car.queue = <<>> /\ <<S.wait, S.active>> # <<car.wait, car.active>>)
                THEN 0 ELSE want
    BY DEF Carousel!Done
  <2>2. 0 \in 0..CarouselItems
    BY ItemsAreNumbers
  <2> QED
    BY <2>1, <2>2 DEF CarInv
<1>7. ASSUME want' # 0, ~carMisuse PROVE Wanted(S, want')
  <2>1. Wanted(car, want) /\ want' = want
    BY <1>6, <1>7 DEF CarInv
  <2>2. CASE car.queue = <<>>
    <3>1. Sound(car, FALSE) /\ Sound(S, FALSE)
      BY <1>3, <1>7 DEF CarInv, Sound
    <3>2. S.indicator = car.indicator
      BY <1>6, <1>7, <2>2, <3>1, SameView
    <3> QED
      BY <1>2, <1>3, <2>1, <2>2, <3>2 DEF Wanted, Leads
  <2>3. CASE car.queue # <<>>
    BY <1>2, <1>3, <2>1, <2>3 DEF Wanted
  <2> QED
    BY <2>2, <2>3
<1> QED
  <2>1. options' \in CarouselOptions /\ carMisuse' \in BOOLEAN /\ Sound(car', carMisuse')
    BY <1>3, <1>4 DEF CarInv
  <2>2. Queued(car') /\ (want' # 0 /\ ~carMisuse' => Wanted(car', want'))
    BY <1>4, <1>5, <1>7
  <2> QED
    BY <1>6, <2>1, <2>2 DEF CarInv

\* The calls and events that are not one of `to` or of the end of a slide.
LEMMA Begun ==
    ASSUME CarInv
    PROVE  /\ Sound(Carousel!instance(car), carMisuse) /\ Carousel!instance(car).inst # 0
           /\ Carousel!instance(car).isPaused = car.isPaused
           /\ car.inst # 0 => Carousel!instance(car) = car
           /\ carMisuse \in BOOLEAN
<1>1. carMisuse \in BOOLEAN /\ Sound(car, carMisuse)
  BY DEF CarInv
<1> QED
  BY <1>1, Instance

LEMMA StepKeeps ==
    ASSUME CarInv, NEW no \in BOOLEAN, NEW d \in Directions, Carousel!Step(d, no)
    PROVE  CarInv' /\ (car.isPaused => car'.isPaused)
<1>1. PICK R : R = Carousel!step(Carousel!instance(car), d, no)
  OBVIOUS
<1>2. Served(R, Carousel!instance(car), carMisuse) /\ (car.isPaused => R.isPaused)
  BY <1>1, Begun, StepServes
<1>3. Carousel!Done(R, no)
  BY <1>1, Zenon DEF Carousel!Step
<1> QED
  BY <1>2, <1>3, DoneKeeps DEF Carousel!Done

LEMMA PauseKeeps ==
    ASSUME CarInv, Carousel!Pause
    PROVE  CarInv' /\ car'.isPaused
<1>1. PICK e \in BOOLEAN : e = FALSE
  OBVIOUS
<1>2. PICK R : R = Carousel!pause(Carousel!instance(car), e)
  OBVIOUS
<1>3. Served(R, Carousel!instance(car), carMisuse) /\ R.isPaused
  BY <1>1, <1>2, Begun, PauseServes
<1>4. Carousel!Done(R, e)
  BY <1>1, <1>2, Zenon DEF Carousel!Pause
<1> QED
  BY <1>3, <1>4, DoneKeeps DEF Carousel!Done

LEMMA CycleKeeps ==
    ASSUME CarInv, Carousel!Cycle
    PROVE  CarInv'
<1>1. PICK e \in BOOLEAN : e = FALSE
  OBVIOUS
<1>2. PICK R : R = Carousel!cycle(Carousel!instance(car), e)
  OBVIOUS
<1>3. Served(R, Carousel!instance(car), carMisuse)
  BY <1>1, <1>2, Begun, CycleServes
<1>4. Carousel!Done(R, e)
  BY <1>1, <1>2, Zenon DEF Carousel!Cycle
<1> QED
  BY <1>3, <1>4, DoneKeeps

LEMMA RideKeeps ==
    ASSUME CarInv, Carousel!Ride
    PROVE  CarInv'
<1>1. PICK e \in BOOLEAN : e = FALSE
  OBVIOUS
<1>2. PICK P : P = Carousel!pause(Carousel!instance(car), e)
  OBVIOUS
<1>3. PICK R : R = Carousel!cycle(P, e)
  OBVIOUS
<1>4. Served(P, Carousel!instance(car), carMisuse)
  BY <1>2, Begun, PauseServes
<1>5. Sound(P, carMisuse) /\ P.inst # 0
  BY <1>4, Begun DEF Served
<1>6. Served(R, P, carMisuse)
  BY <1>3, <1>5, Begun, CycleServes
<1>7. Served(R, Carousel!instance(car), carMisuse)
  BY <1>4, <1>6 DEF Served
<1>8. Carousel!Done(R, e)
  BY <1>1, <1>2, <1>3, Zenon DEF Carousel!Ride
<1> QED
  BY <1>7, <1>8, DoneKeeps

LEMMA MouseKeeps ==
    ASSUME CarInv, Carousel!mouseenter \/ Carousel!mouseleave
    PROVE  CarInv' /\ (car.isPaused => car'.isPaused)
<1>1. PICK e, f \in BOOLEAN : e = TRUE /\ f = FALSE
  OBVIOUS
<1>2. CASE Carousel!mouseenter
  <2>1. PICK R : R = Carousel!pause(car, e)
    OBVIOUS
  <2>2. car.inst # 0 /\ Carousel!Done(R, f)
    BY <1>1, <1>2, <2>1, Zenon DEF Carousel!mouseenter
  <2>3. /\ Served(R, Carousel!instance(car), carMisuse)
        /\ R.isPaused = (car.isPaused \/ ~e)
    BY <2>1, <2>2, Begun, PauseServes
  <2> QED
    BY <2>2, <2>3, DoneKeeps DEF Carousel!Done
<1>3. CASE Carousel!mouseleave
  <2>1. PICK R : R = Carousel!cycle(car, e)
    OBVIOUS
  <2>2. car.inst # 0 /\ Carousel!Done(R, f)
    BY <1>1, <1>3, <2>1, Zenon DEF Carousel!mouseleave
  <2>3. /\ Served(R, Carousel!instance(car), carMisuse)
        /\ R.isPaused = (car.isPaused /\ e)
    BY <2>1, <2>2, Begun, CycleServes
  <2> QED
    BY <1>1, <2>2, <2>3, DoneKeeps DEF Carousel!Done
<1> QED
  BY <1>2, <1>3

LEMMA TickKeeps ==
    ASSUME CarInv, NEW visible \in BOOLEAN, NEW no \in BOOLEAN, Carousel!Tick(visible, no)
    PROVE  CarInv' /\ (car.isPaused => car'.isPaused)
<1>1. car.inst # 0
  BY DEF CarInv, Sound, Attached, Timed, OneTimer, Carousel!Tick
<1>2. PICK R : R = IF visible THEN Carousel!step(car, "next", no) ELSE car
  OBVIOUS
<1>3. Carousel!Done(R, no)
  BY <1>2, Zenon DEF Carousel!Tick
<1>4. Served(R, Carousel!instance(car), carMisuse) /\ (car.isPaused => R.isPaused)
  <2>1. Carousel!instance(car) = car /\ Sound(car, carMisuse) /\ "next" \in Directions
    BY <1>1, Begun DEF Directions
  <2>2. CASE visible
    BY <1>1, <1>2, <2>1, <2>2, Begun, StepServes
  <2>3. CASE ~visible
    BY <1>2, <2>1, <2>3 DEF Served
  <2> QED
    BY <2>2, <2>3
<1> QED
  BY <1>3, <1>4, DoneKeeps DEF Carousel!Done

\* touchTimeout itself changes nothing else.
LEMMA TouchServes ==
    ASSUME NEW bad \in BOOLEAN, NEW S, Sound(S, bad), S.inst # 0, NEW y \in BOOLEAN
    PROVE  /\ Served([S EXCEPT !.touch = y], S, bad)
           /\ [S EXCEPT !.touch = y].isPaused = S.isPaused
<1> DEFINE T == [S EXCEPT !.touch = y]
<1>1. S \in CarType /\ S \in Timed
  BY DEF Sound, Timed, OneTimer
<1>2. /\ T \in CarType
      /\ T.inst = S.inst /\ T.made = S.made /\ T.isSliding = S.isSliding
      /\ T.isPaused = S.isPaused /\ T.interval = S.interval /\ T.timers = S.timers
      /\ T.active = S.active /\ T.indicator = S.indicator /\ T.order = S.order
      /\ T.dir = S.dir /\ T.wait = S.wait /\ T.slid = S.slid /\ T.queue = S.queue
  BY <1>1 DEF CarType
<1> HIDE DEF T
<1>3. T \in Timed
  BY <1>1, <1>2 DEF Timed, OneTimer
<1>4. Attached(T)
  BY <1>2 DEF Sound, Attached
<1>5. Seen(T, S)
  BY <1>2 DEF Seen
<1>6. Sound(T, bad)
  BY <1>3, <1>4, <1>5, SameSlide DEF Sound
<1>7. Served(T, S, bad)
  BY <1>2, <1>6 DEF Served
<1> QED
  BY <1>2, <1>7 DEF T

LEMMA TouchKeeps ==
    ASSUME CarInv, NEW swipe \in {"next", "prev", "none"}, NEW no \in BOOLEAN,
           Carousel!touchend(swipe, no)
    PROVE  CarInv' /\ (car.isPaused => car'.isPaused)
<1>1. PICK f \in BOOLEAN, y \in BOOLEAN : f = FALSE /\ y = TRUE
  OBVIOUS
<1>2. PICK S : S = IF swipe = "none" THEN car ELSE Carousel!step(car, swipe, no)
  OBVIOUS
<1>3. PICK P : P = Carousel!pause(S, f)
  OBVIOUS
<1> DEFINE T == [P EXCEPT !.touch = y]
<1>4. PICK R : R = IF options.hover THEN T ELSE S
  OBVIOUS
<1>5. car.inst # 0 /\ Carousel!Done(R, no)
  BY <1>1, <1>2, <1>3, <1>4, Zenon DEF Carousel!touchend
<1>6. /\ Carousel!instance(car) = car /\ Sound(car, carMisuse)
      /\ carMisuse \in BOOLEAN
  BY <1>5, Begun
<1>7. Served(S, car, carMisuse) /\ (car.isPaused => S.isPaused)
  <2>1. CASE swipe = "none"
    BY <1>2, <1>6, <2>1 DEF Served
  <2>2. CASE swipe # "none"
    <3>1. swipe \in Directions
      BY <2>2 DEF Directions
    <3> QED
      BY <1>2, <1>5, <1>6, <2>2, <3>1, StepServes
  <2> QED
    BY <2>1, <2>2
<1>8. Served(P, S, carMisuse) /\ P.isPaused /\ P.inst # 0
  <2>1. Sound(S, carMisuse) /\ S.inst # 0
    BY <1>5, <1>7 DEF Served
  <2>2. /\ Served(P, S, carMisuse) /\ P.isPaused = (S.isPaused \/ ~f)
    BY <1>3, <1>6, <2>1, PauseServes
  <2> QED
    BY <1>1, <2>1, <2>2 DEF Served
<1>9. T.isPaused /\ Served(T, P, carMisuse)
  BY <1>6, <1>8, TouchServes DEF Served
<1>10. Served(R, car, carMisuse) /\ (car.isPaused => R.isPaused)
  <2> HIDE DEF T
  <2>1. Served(T, car, carMisuse)
    BY <1>7, <1>8, <1>9 DEF Served
  <2> QED
    BY <1>4, <1>7, <1>9, <2>1
<1> QED
  BY <1>5, <1>6, <1>10, DoneKeeps DEF Carousel!Done

LEMMA TimeoutKeeps ==
    ASSUME CarInv, Carousel!TouchTimeout
    PROVE  CarInv'
<1>1. PICK f \in BOOLEAN : f = FALSE
  OBVIOUS
<1>2. PICK C : C = Carousel!cycle(car, f)
  OBVIOUS
<1> DEFINE T == [C EXCEPT !.touch = f]
<1>3. car.touch /\ Carousel!Done(T, f)
  BY <1>1, <1>2, Zenon DEF Carousel!TouchTimeout
<1>4. car.inst # 0
  BY <1>3 DEF CarInv, Sound, Attached
<1>5. /\ Carousel!instance(car) = car /\ Sound(car, carMisuse)
      /\ carMisuse \in BOOLEAN
  BY <1>4, Begun
<1>6. Served(C, car, carMisuse) /\ C.inst # 0
  BY <1>2, <1>4, <1>5, CycleServes DEF Served
<1>7. Served(T, C, carMisuse)
  BY <1>5, <1>6, TouchServes DEF Served
<1> HIDE DEF T
<1>8. Served(T, car, carMisuse)
  BY <1>6, <1>7 DEF Served
<1> QED
  BY <1>3, <1>5, <1>8, DoneKeeps

LEMMA DisposeKeeps ==
    ASSUME CarInv, Carousel!dispose
    PROVE  CarInv'
<1>1. PICK f \in BOOLEAN : f = FALSE
  OBVIOUS
<1> DEFINE T == [car EXCEPT !.inst = 0, !.isSliding = f, !.isPaused = f, !.interval = 0,
                            !.timers = {}, !.touch = f, !.queue = <<>>]
<1>2. /\ car' = T /\ want' = 0 /\ options' = options
      /\ carMisuse' = (carMisuse \/ car.wait # <<>>)
  BY <1>1, Zenon DEF Carousel!dispose
<1>3. /\ car \in CarType /\ options \in CarouselOptions /\ carMisuse \in BOOLEAN
      /\ carMisuse \/ Still(car) \/ Moving(car)
  BY DEF CarInv, Sound, Timed, OneTimer
<1>4. T \in CarType
  <2>1. <<>> \in Seq(Choices)
    OBVIOUS
  <2> QED
    BY <1>3, <2>1 DEF CarType
<1>5. /\ T.inst = 0 /\ T.isSliding = f /\ T.isPaused = f /\ T.interval = 0 /\ T.timers = {}
      /\ T.touch = f /\ T.queue = <<>> /\ T.made = car.made /\ T.active = car.active
      /\ T.indicator = car.indicator /\ T.order = car.order /\ T.dir = car.dir
      /\ T.wait = car.wait
  BY <1>3 DEF CarType
<1> HIDE DEF T
<1>6. T \in Timed
  BY <1>4, <1>5 DEF Timed, OneTimer
<1>7. Attached(T)
  <2>1. T.made \in Nat
    BY <1>4 DEF CarType
  <2> QED
    BY <1>1, <1>5, <2>1 DEF Attached
<1>8. ASSUME ~carMisuse, car.wait = <<>> PROVE Still(T)
  <2>1. Still(car)
    <3>1. Len(<<>>) = 0
      OBVIOUS
    <3> QED
      BY <1>3, <1>8, <3>1 DEF Moving
  <2> QED
    BY <1>1, <1>5, <2>1 DEF Still
<1>9. carMisuse' \in BOOLEAN /\ (carMisuse' \/ Still(T))
  BY <1>2, <1>8
<1>10. Sound(car', carMisuse')
  BY <1>2, <1>6, <1>7, <1>9 DEF Sound
<1>11. Queued(car')
  BY <1>2, <1>5 DEF Queued
<1>12. options' \in CarouselOptions /\ want' \in 0..CarouselItems
  BY <1>2, <1>3, ItemsAreNumbers
<1> QED
  BY <1>2, <1>9, <1>10, <1>11, <1>12 DEF CarInv

LEMMA ToKeeps ==
    ASSUME CarInv, NEW c \in Carousel!Indexes, NEW no \in BOOLEAN, Carousel!To(c, no)
    PROVE  CarInv' /\ (car.isPaused => car'.isPaused \/ Carousel!Resumes(c))
<1>1. PICK I : I = Carousel!instance(car)
  OBVIOUS
<1>2. /\ Sound(I, carMisuse) /\ I.inst # 0 /\ I.isPaused = car.isPaused
      /\ I.isSliding = car.isSliding /\ I.queue = car.queue /\ I.slid = car.slid
      /\ I.wait = car.wait /\ I.active = car.active /\ I.indicator = car.indicator
      /\ car.inst # 0 => I = car
  BY <1>1, Instance DEF CarInv
<1>3. PICK R : R = Carousel!to(I, c, no)
  OBVIOUS
<1>4. /\ car' = R /\ options' = options /\ carMisuse' = carMisuse
      /\ want' = IF c.index \notin Carousel!Items THEN want
                 ELSE IF no \/ (car.slid # <<>> /\ car.queue # <<>>) THEN 0 ELSE c.index
  BY <1>1, <1>3, Zenon DEF Carousel!To
<1>5. options' \in CarouselOptions /\ carMisuse \in BOOLEAN /\ carMisuse' \in BOOLEAN
  BY <1>4 DEF CarInv
<1>6. car.queue # <<>> => I = car /\ (car.isSliding \/ car.slid # <<>>)
  <2>1. car.queue # <<>> => car.inst # 0
    BY DEF CarInv, Sound, Attached
  <2>2. car.slid = <<>> => Len(car.slid) = 0
    OBVIOUS
  <2>3. car.slid = <<>> => ~\E k \in 1..Len(car.slid) : car.slid[k] = car.inst
    BY <2>2
  <2> QED
    BY <1>2, <2>1, <2>3 DEF CarInv, Queued
<1>7. Queued(I)
  BY <1>2, <1>6 DEF CarInv, Queued
<1>8. CASE c.index \notin Carousel!Items
  <2>1. R = I
    BY <1>3, <1>8, Zenon DEF Carousel!to
  <2>2. Wanted(car, want) => Wanted(I, want)
    BY <1>2 DEF Wanted, Leads
  <2>3. /\ Sound(car', carMisuse') /\ Queued(car') /\ want' = want
        /\ want # 0 /\ ~carMisuse => Wanted(car', want)
    BY <1>2, <1>4, <1>7, <1>8, <2>1, <2>2 DEF CarInv
  <2> QED
    BY <1>2, <1>4, <1>5, <2>1, <2>3 DEF CarInv
<1>9. CASE c.index \in Carousel!Items
  <2>1. c \in Choices
    BY <1>9 DEF Choices, Carousel!Indexes
  <2>2. /\ Sound(R, carMisuse) /\ R.inst = I.inst /\ R.slid = I.slid
        /\ I.isSliding => R.isSliding /\ R.queue = Append(I.queue, c)
        /\ ~I.isSliding => R.queue = I.queue /\ (~no /\ ~carMisuse => R.indicator = c.index)
        /\ I.isPaused => R.isPaused \/ (~c.text /\ c.index = Carousel!activeElement(I))
    BY <1>2, <1>3, <1>5, <2>1, ToServes, SMTT(30)
  <2>3. Queued(R)
    BY <1>7, <2>2 DEF Queued
  <2>4. want' \in 0..CarouselItems
    BY <1>4, <1>9, ItemsAreNumbers
  <2>5. ASSUME want' # 0, ~carMisuse PROVE Wanted(R, want')
    <3>1. /\ want' = c.index /\ ~no /\ (car.queue = <<>> \/ car.isSliding)
      BY <1>4, <1>6, <1>9, <2>5
    <3>2. CASE I.isSliding
      <4>1. I.queue \in Seq(Choices)
        BY <1>2 DEF Sound, Timed, OneTimer, CarType
      <4>2. PICK q \in Seq(Choices) : q = I.queue
        BY <4>1
      <4>3. /\ Append(q, c) # <<>>
            /\ Append(q, c)[Len(Append(q, c))] = c
        BY <2>1
      <4>4. R.queue = Append(q, c)
        BY <2>2, <3>2, <4>2
      <4> QED
        BY <3>1, <4>3, <4>4 DEF Wanted
    <3>3. CASE ~I.isSliding
      BY <1>2, <2>2, <2>5, <3>1, <3>3 DEF Wanted, Leads
    <3> QED
      BY <3>2, <3>3
  <2>6. car.isPaused => R.isPaused \/ Carousel!Resumes(c)
    <3>1. Carousel!activeElement(I) = Carousel!activeElement(car)
      BY <1>2 DEF Carousel!activeElement
    <3> QED
      BY <1>2, <2>2, <3>1 DEF Carousel!Resumes
  <2> QED
    BY <1>2, <1>4, <1>5, <2>2, <2>3, <2>4, <2>5, <2>6 DEF CarInv
<1> QED
  BY <1>8, <1>9

\* The end of the slide that began first.
LEMMA EndKeeps ==
    ASSUME CarInv, Carousel!TransitionEnd
    PROVE  CarInv' /\ car'.isPaused = car.isPaused
<1> DEFINE w == Head(car.wait)
<1>1. /\ car \in CarType /\ options \in CarouselOptions /\ carMisuse \in BOOLEAN
      /\ carMisuse \/ Still(car) \/ Moving(car)
  BY DEF CarInv, Sound, Timed, OneTimer
<1>2. car.wait # <<>> /\ car.wait \in Seq(Slides) /\ car.slid \in Seq(Nat \ {0})
  BY <1>1 DEF Carousel!TransitionEnd, CarType
<1>3. w \in Slides /\ w = car.wait[1]
  BY <1>2
<1>4. PICK s \in BOOLEAN : s = (car.isSliding /\ w.inst # car.inst)
  BY <1>1 DEF CarType
<1> DEFINE T == [car EXCEPT
                      !.active = (@ \cup {w.next}) \ {w.from},
                      !.order[w.next] = @ \ {w.direction},
                      !.order[w.from] = @ \ {w.direction},
                      !.dir = [j \in Carousel!Items |->
                                 IF j \in {w.from, w.next}
                                 THEN @[j] \ {Carousel!Toward(w.direction)} ELSE @[j]],
                      !.isSliding = s,
                      !.wait = Tail(@),
                      !.slid = Append(@, w.inst)]
<1>5. /\ car' = [car EXCEPT
                      !.active = (@ \cup {w.next}) \ {w.from},
                      !.order[w.next] = @ \ {w.direction},
                      !.order[w.from] = @ \ {w.direction},
                      !.dir = [j \in Carousel!Items |->
                                 IF j \in {w.from, w.next}
                                 THEN @[j] \ {Carousel!Toward(w.direction)} ELSE @[j]],
                      !.isSliding = @ /\ w.inst # car.inst,
                      !.wait = Tail(@),
                      !.slid = Append(@, w.inst)]
      /\ options' = options /\ want' = want /\ carMisuse' = carMisuse
  BY Zenon DEF Carousel!TransitionEnd
<1> HIDE DEF w
<1>6. car' = T
  BY <1>4, <1>5, Zenon
<1>7. /\ w.next \in Carousel!Items /\ w.from \in Carousel!Items /\ w.inst \in Nat \ {0}
      /\ Tail(car.wait) \in Seq(Slides) /\ Append(car.slid, w.inst) \in Seq(Nat \ {0})
  BY <1>2, <1>3, SMTT(30) DEF Slides
<1>8. T \in CarType
  BY <1>1, <1>7, ZenonT(40) DEF CarType
<1>9. /\ T.active = (car.active \cup {w.next}) \ {w.from}
      /\ T.isSliding = s /\ T.wait = Tail(car.wait) /\ T.slid = Append(car.slid, w.inst)
      /\ T.inst = car.inst /\ T.made = car.made /\ T.isPaused = car.isPaused
      /\ T.interval = car.interval /\ T.timers = car.timers /\ T.touch = car.touch
      /\ T.indicator = car.indicator /\ T.queue = car.queue
  BY <1>1 DEF CarType
<1>10. \A j \in Carousel!Items :
          /\ T.order[j] = IF j \in {w.from, w.next} THEN car.order[j] \ {w.direction}
                          ELSE car.order[j]
          /\ T.dir[j] = IF j \in {w.from, w.next}
                        THEN car.dir[j] \ {Carousel!Toward(w.direction)} ELSE car.dir[j]
  BY <1>1, <1>7 DEF CarType
<1> HIDE DEF T
<1>11. T \in Timed
  <2>1. car \in Timed
    BY DEF CarInv, Sound
  <2> QED
    BY <1>8, <1>9, <2>1 DEF Timed, OneTimer
<1>12. Attached(T)
  <2>1. Attached(car)
    BY DEF CarInv, Sound
  <2>2. ASSUME T.isSliding
        PROVE  T.inst # 0 /\ \E k \in 1..Len(T.wait) : T.wait[k].inst = T.inst
    <3>1. car.isSliding /\ w.inst # car.inst
      BY <1>4, <1>9, <2>2
    <3>2. PICK k \in 1..Len(car.wait) : car.wait[k].inst = car.inst
      BY <2>1, <3>1 DEF Attached
    <3>3. k # 1
      BY <1>3, <3>1, <3>2
    <3>4. k - 1 \in 1..Len(Tail(car.wait)) /\ Tail(car.wait)[k - 1] = car.wait[k]
      BY <1>2, <3>3
    <3> QED
      <4>1. car.inst # 0
        BY <2>1, <3>1 DEF Attached
      <4>2. T.wait[k - 1].inst = car.inst /\ k - 1 \in 1..Len(T.wait)
        BY <1>9, <3>2, <3>4
      <4> QED
        BY <1>9, <4>1, <4>2
  <2>3. T.inst = 0 => ~T.isSliding
    BY <2>2
  <2> QED
    BY <1>9, <2>1, <2>2, <2>3 DEF Attached
<1>13. ASSUME ~carMisuse PROVE Still(T)
  <2>1. Moving(car)
    BY <1>1, <1>2, <1>13 DEF Still
  <2>2. /\ Len(car.wait) = 1 /\ w.inst = car.inst /\ w.next = car.indicator
        /\ car.active = {w.from} /\ w.from # w.next
        /\ \A j \in Carousel!Items :
              /\ car.order[j] = IF j = w.next THEN {w.direction} ELSE {}
              /\ car.dir[j] = IF j \in {w.next, w.from}
                              THEN {Carousel!Toward(w.direction)} ELSE {}
    BY <1>3, <2>1, Zenon DEF Moving
  <2>3. Tail(car.wait) = <<>>
    <3>1. Tail(car.wait) \in Seq(Slides) /\ Len(Tail(car.wait)) = 0
      BY <1>2, <2>2
    <3> QED
      BY <3>1, EmptySeq
  <2>4. ~T.isSliding
    BY <1>4, <1>9, <2>2
  <2>5. T.active = {T.indicator}
    BY <1>9, <2>2
  <2>6. \A j \in Carousel!Items : T.order[j] = {} /\ T.dir[j] = {}
    BY <1>10, <2>2
  <2> QED
    BY <1>9, <2>3, <2>4, <2>5, <2>6 DEF Still
<1>14. Sound(T, carMisuse)
  BY <1>1, <1>11, <1>12, <1>13 DEF Sound
<1>15. Queued(T)
  <2>1. Len(T.slid) \in 1..Len(T.slid) /\ T.slid[Len(T.slid)] = w.inst
    BY <1>2, <1>7, <1>9
  <2>2. ASSUME NEW k \in 1..Len(car.slid), car.slid[k] = car.inst
        PROVE  k \in 1..Len(T.slid) /\ T.slid[k] = T.inst
    BY <1>2, <1>7, <1>9, <2>2
  <2>3. car.isSliding => T.isSliding \/ w.inst = T.inst
    BY <1>4, <1>9
  <2> QED
    BY <1>9, <2>1, <2>2, <2>3 DEF CarInv, Queued
<1>16. Wanted(car, want) => Wanted(T, want)
  BY <1>9 DEF Wanted, Leads
<1> QED
  BY <1>5, <1>6, <1>9, <1>14, <1>15, <1>16 DEF CarInv

\* The carousel while the calls of `to` that waited run.
Loop ==
    {U \in CarType : Sound(U, carMisuse) /\ U.inst = car.inst
                        /\ (U.queue # <<>> => U.isSliding)}

LEMMA LoopStep ==
    ASSUME carMisuse \in BOOLEAN, car.inst # 0, NEW U \in Loop, NEW c \in Choices,
           NEW no \in BOOLEAN
    PROVE  /\ Carousel!to(U, c, no) \in Loop
           /\ options.slide /\ U.active = car.active =>
                 /\ Carousel!to(U, c, no).active = car.active
                 /\ U.isPaused => Carousel!to(U, c, no).isPaused \/ Carousel!Resumes(c)
           /\ ~no /\ ~carMisuse => Wanted(Carousel!to(U, c, no), c.index)
<1>1. PICK R : R = Carousel!to(U, c, no)
  OBVIOUS
<1>2. U \in CarType /\ Sound(U, carMisuse) /\ U.inst = car.inst /\ U.inst # 0
      /\ (U.queue # <<>> => U.isSliding)
  BY DEF Loop
<1>3. /\ Sound(R, carMisuse) /\ R.inst = U.inst
      /\ U.isSliding => R.isSliding /\ R.queue = Append(U.queue, c)
      /\ ~U.isSliding => R.queue = U.queue /\ (~no /\ ~carMisuse => R.indicator = c.index)
      /\ U.isPaused => R.isPaused \/ (~c.text /\ c.index = Carousel!activeElement(U))
      /\ options.slide => R.active = U.active
  BY <1>1, <1>2, ToServes
<1>4. R \in Loop
  BY <1>2, <1>3 DEF Loop, Sound, Timed, OneTimer
<1>5. ASSUME ~no, ~carMisuse PROVE Wanted(R, c.index)
  <2>1. CASE U.isSliding
    <3>1. PICK q \in Seq(Choices) : q = U.queue
      BY <1>2 DEF CarType
    <3>2. Append(q, c) # <<>> /\ Append(q, c)[Len(Append(q, c))] = c
      OBVIOUS
    <3>3. R.queue = Append(q, c)
      BY <1>3, <2>1, <3>1
    <3> QED
      BY <3>2, <3>3 DEF Wanted
  <2>2. CASE ~U.isSliding
    BY <1>2, <1>3, <1>5, <2>2 DEF Wanted, Leads
  <2> QED
    BY <2>1, <2>2
<1>6. ASSUME options.slide, U.active = car.active
      PROVE  R.active = car.active /\ (U.isPaused => R.isPaused \/ Carousel!Resumes(c))
  <2>1. Carousel!activeElement(U) = Carousel!activeElement(car)
    BY <1>6 DEF Carousel!activeElement
  <2> QED
    BY <1>3, <1>6, <2>1 DEF Carousel!Resumes
<1> QED
  BY <1>1, <1>4, <1>5, <1>6

\* A call that is evaluated once.
LEMMA Once ==
    ASSUME NEW U, NEW c, NEW no
    PROVE  (CHOOSE T \in {Carousel!to(V, c, no) : V \in {U}} : TRUE) = Carousel!to(U, c, no)
<1>1. PICK R : R = Carousel!to(U, c, no)
  OBVIOUS
<1>2. {Carousel!to(V, c, no) : V \in {U}} = {R}
  BY <1>1
<1>3. (CHOOSE T \in {R} : TRUE) = R
  OBVIOUS
<1> QED
  BY <1>1, <1>2, <1>3, Zenon

\* The first of these states.
Unqueued == [car EXCEPT !.slid = Tail(@), !.queue = <<>>]

LEMMA LoopBegins ==
    ASSUME CarInv, car.slid # <<>>, Head(car.slid) = car.inst
    PROVE  /\ car.inst # 0 /\ Unqueued \in Loop
           /\ Unqueued.wait = car.wait /\ Unqueued.active = car.active
           /\ Unqueued.indicator = car.indicator /\ Unqueued.queue = <<>>
           /\ Unqueued.isPaused = car.isPaused
<1> DEFINE T == Unqueued
<1>1. car \in CarType /\ Sound(car, carMisuse)
  BY DEF CarInv, Sound, Timed, OneTimer
<1>2. car.slid \in Seq(Nat \ {0}) /\ car.inst # 0 /\ Tail(car.slid) \in Seq(Nat \ {0})
  <2>1. car.slid \in Seq(Nat \ {0})
    BY <1>1 DEF CarType
  <2> QED
    BY <2>1
<1>3. T \in CarType
  <2>1. <<>> \in Seq(Choices)
    OBVIOUS
  <2> QED
    BY <1>1, <1>2, <2>1 DEF CarType, Unqueued
<1>4. /\ T.inst = car.inst /\ T.made = car.made /\ T.isSliding = car.isSliding
      /\ T.isPaused = car.isPaused /\ T.interval = car.interval /\ T.timers = car.timers
      /\ T.active = car.active /\ T.indicator = car.indicator /\ T.order = car.order
      /\ T.dir = car.dir /\ T.wait = car.wait /\ T.queue = <<>> /\ T.touch = car.touch
  BY <1>1 DEF CarType, Unqueued
<1> HIDE DEF T
<1>5. T \in Timed /\ Attached(T)
  BY <1>1, <1>3, <1>4 DEF Sound, Timed, OneTimer, Attached
<1>6. Seen(T, car)
  BY <1>4 DEF Seen
<1>7. Sound(T, carMisuse)
  BY <1>1, <1>5, <1>6, SameSlide DEF Sound
<1>8. T \in Loop
  BY <1>3, <1>4, <1>7 DEF Loop
<1> QED
  BY <1>2, <1>4, <1>8 DEF T

\* These states have values, one after the other.
LEMMA LoopResults ==
    ASSUME CarInv, car.slid # <<>>, Head(car.slid) = car.inst, NEW no \in BOOLEAN
    PROVE  \E g \in [0..Len(car.queue) -> Loop] :
              /\ g[0] = Unqueued
              /\ \A k \in 1..Len(car.queue) : g[k] = Carousel!to(g[k - 1], car.queue[k], no)
<1> DEFINE n == Len(car.queue)
           Run(k, U) == Carousel!to(U, car.queue[k], no)
<1>1. /\ car.queue \in Seq(Choices) /\ n \in Nat
      /\ \A k \in 1..n : car.queue[k] \in Choices
  <2>1. car.queue \in Seq(Choices)
    BY DEF CarInv, Sound, Timed, OneTimer, CarType
  <2> QED
    BY <2>1
<1>2. Unqueued \in Loop /\ car.inst # 0 /\ carMisuse \in BOOLEAN
  BY LoopBegins DEF CarInv
<1>3. \A k \in 1..n, U \in Loop : Run(k, U) \in Loop
  BY <1>1, <1>2, LoopStep
<1> DEFINE step == [k \in 1..n |-> [U \in Loop |-> Run(k, U)]]
<1>4. step \in [1..n -> [Loop -> Loop]]
  <2> HIDE DEF Run
  <2> QED
    BY <1>3
<1>5. PICK g \in [0..n -> Loop] : g[0] = Unqueued /\ \A k \in 1..n : g[k] = step[k][g[k - 1]]
  <2>1. n \in Nat
    BY <1>1
  <2> HIDE DEF step, n, Run
  <2>2. Results(Loop, n, Unqueued, step) # {}
    BY <1>2, <1>4, <2>1, StepsHaveResults
  <2> QED
    BY <2>2 DEF Results
<1>6. ASSUME NEW k \in 1..n PROVE g[k] = Run(k, g[k - 1])
  <2>1. g[k - 1] \in Loop
    BY <1>1
  <2> HIDE DEF Run
  <2> QED
    BY <1>5, <2>1
<1> QED
  BY <1>5, <1>6

\* "slid" of the instance leads to the last of them.
LEMMA LoopEnds ==
    ASSUME CarInv, NEW no \in BOOLEAN, Carousel!Slid(no), Head(car.slid) = car.inst
    PROVE  \E R \in Loop :
              /\ Carousel!Done(R, no)
              /\ car.queue = <<>> => R = Unqueued
              /\ car.queue # <<>> /\ ~no /\ ~carMisuse =>
                    Wanted(R, car.queue[Len(car.queue)].index)
              /\ car.isPaused /\ options.slide =>
                    R.isPaused \/ \E k \in DOMAIN car.queue : Carousel!Resumes(car.queue[k])
<1> DEFINE n == Len(car.queue)
<1>1. car.slid # <<>> /\ carMisuse \in BOOLEAN
  BY DEF Carousel!Slid, CarInv
<1>2. PICK g \in [0..n -> Loop] :
         /\ g[0] = Unqueued
         /\ \A k \in 1..n : g[k] = Carousel!to(g[k - 1], car.queue[k], no)
  BY <1>1, LoopResults
<1>3. /\ car.queue \in Seq(Choices) /\ n \in Nat /\ 0 \in 0..n /\ n \in 0..n
      /\ (car.queue = <<>> => n = 0)
      /\ (car.queue # <<>> => n # 0 /\ n \in 1..n /\ n - 1 \in 0..n /\ car.queue[n] \in Choices)
  <2>1. car.queue \in Seq(Choices)
    BY DEF CarInv, Sound, Timed, OneTimer, CarType
  <2> QED
    BY <2>1
<1> DEFINE Body(f, k) ==
              IF k = 0 THEN Unqueued
              ELSE CHOOSE T \in {Carousel!to(U, car.queue[k], no) : U \in {f[k - 1]}} : TRUE
<1>4. g = [k \in 0..n |-> Body(g, k)]
  <2>1. ASSUME NEW k \in 0..n PROVE g[k] = Body(g, k)
    <3>1. CASE k = 0
      BY <1>2, <3>1
    <3>2. CASE k # 0
      <4>1. k \in 1..n
        BY <1>3, <3>2
      <4>2. g[k] = Carousel!to(g[k - 1], car.queue[k], no)
        BY <1>2, <4>1
      <4> QED
        BY <3>2, <4>2, Once, Zenon
    <3> QED
      BY <3>1, <3>2
  <2>2. g = [k \in 0..n |-> g[k]]
    OBVIOUS
  <2> HIDE DEF Body
  <2> QED
    BY <2>1, <2>2
<1> DEFINE after[k \in 0..Len(car.queue)] ==
              IF k = 0 THEN Unqueued
              ELSE CHOOSE T \in {Carousel!to(U, car.queue[k], no) : U \in {after[k - 1]}} : TRUE
<1>5. Carousel!Done(after[n], no)
  BY Zenon DEF Carousel!Slid, Unqueued
<1>6. after = [k \in 0..n |-> Body(after, k)]
  BY Zenon, <1>4
<1> HIDE DEF after, n
<1>7. after[0] = Unqueued
  BY <1>3, <1>6
<1>8. ASSUME NEW k \in 1..n
      PROVE  after[k] = Carousel!to(after[k - 1], car.queue[k], no)
  <2>1. k \in 0..n /\ k # 0
    BY <1>3
  <2>2. after[k] = Body(after, k)
    <3> HIDE DEF Body
    <3> QED
      BY <1>6, <2>1
  <2> QED
    BY <2>1, <2>2, Once, Zenon
<1> HIDE DEF Body
<1>9. \A k \in 0..n : after[k] = g[k]
  <2> DEFINE S == {k \in 0..n : after[k] = g[k]}
             id == [k \in 0..n |-> k]
  <2>1. id[0] \in S
    BY <1>2, <1>3, <1>7
  <2>2. ASSUME NEW k \in 1..n, id[k - 1] \in S PROVE id[k] \in S
    <3>1. k \in 0..n /\ k - 1 \in 0..n /\ id[k] = k /\ id[k - 1] = k - 1
      BY <1>3
    <3>2. after[k - 1] = g[k - 1]
      BY <2>2, <3>1
    <3>3. after[k] = g[k]
      BY <1>2, <1>8, <3>2, Zenon
    <3> QED
      BY <3>1, <3>3
  <2>3. \A k \in 0..n : id[k] \in S
    <3> HIDE DEF S, id
    <3> QED
      BY <1>3, <2>1, <2>2, StepsKeep
  <2> QED
    BY <2>3
<1>10. g[n] \in Loop /\ Carousel!Done(g[n], no)
  BY <1>2, <1>3, <1>5, <1>9, Zenon
<1>11. car.queue = <<>> => g[n] = Unqueued
  BY <1>2, <1>3
<1>12. ASSUME car.queue # <<>>, ~no, ~carMisuse PROVE Wanted(g[n], car.queue[n].index)
  <2>1. g[n - 1] \in Loop /\ car.queue[n] \in Choices
        /\ g[n] = Carousel!to(g[n - 1], car.queue[n], no)
    BY <1>2, <1>3, <1>12
  <2>2. car.inst # 0
    BY <1>1, LoopBegins
  <2> QED
    BY <1>1, <1>12, <2>1, <2>2, LoopStep
<1>13. ASSUME car.isPaused, options.slide,
              \A k \in DOMAIN car.queue : ~Carousel!Resumes(car.queue[k])
       PROVE  g[n].isPaused
  <2> DEFINE S == {k \in 0..n : g[k].isPaused /\ g[k].active = car.active}
             id == [k \in 0..n |-> k]
  <2>1. id[0] \in S
    BY <1>1, <1>2, <1>3, <1>13, LoopBegins
  <2>2. ASSUME NEW k \in 1..n, id[k - 1] \in S PROVE id[k] \in S
    <3>1. k \in 0..n /\ k - 1 \in 0..n /\ id[k] = k /\ id[k - 1] = k - 1
      BY <1>3
    <3>2. g[k - 1].isPaused /\ g[k - 1].active = car.active /\ g[k - 1] \in Loop
      BY <1>2, <2>2, <3>1
    <3>3. k \in DOMAIN car.queue /\ car.queue[k] \in Choices /\ ~Carousel!Resumes(car.queue[k])
      BY <1>3, <1>13 DEF n
    <3>4. car.inst # 0
      BY <1>1, LoopBegins
    <3>5. g[k] = Carousel!to(g[k - 1], car.queue[k], no)
      BY <1>2
    <3>6. g[k].isPaused /\ g[k].active = car.active
      BY <1>1, <1>13, <3>2, <3>3, <3>4, <3>5, LoopStep
    <3> QED
      BY <3>1, <3>6
  <2>3. \A k \in 0..n : id[k] \in S
    <3> HIDE DEF S, id
    <3> QED
      BY <1>3, <2>1, <2>2, StepsKeep
  <2> QED
    BY <1>3, <2>3
<1> QED
  BY <1>10, <1>11, <1>12, <1>13 DEF n

LEMMA SlidKeeps ==
    ASSUME CarInv, NEW no \in BOOLEAN, Carousel!Slid(no)
    PROVE  /\ CarInv'
           /\ car.isPaused /\ (car.queue = <<>> \/ options.slide) =>
                 car'.isPaused \/ \E k \in DOMAIN car.queue : Carousel!Resumes(car.queue[k])
<1>1. /\ car \in CarType /\ options \in CarouselOptions /\ carMisuse \in BOOLEAN
      /\ Sound(car, carMisuse) /\ want \in 0..CarouselItems /\ 0 \in 0..CarouselItems
  BY ItemsAreNumbers DEF CarInv, Sound, Timed, OneTimer
<1>2. car.slid # <<>> /\ car.slid \in Seq(Nat \ {0})
  BY <1>1 DEF Carousel!Slid, CarType
<1>3. CASE Head(car.slid) = car.inst
  <2>1. PICK R \in Loop :
           /\ Carousel!Done(R, no)
           /\ car.queue = <<>> => R = Unqueued
           /\ car.queue # <<>> /\ ~no /\ ~carMisuse =>
                 Wanted(R, car.queue[Len(car.queue)].index)
           /\ car.isPaused /\ options.slide =>
                 R.isPaused \/ \E k \in DOMAIN car.queue : Carousel!Resumes(car.queue[k])
    BY <1>3, LoopEnds
  <2>2. /\ car' = R /\ options' = options /\ carMisuse' = carMisuse
        /\ (want' = 0 \/ (want' = want /\ ~no))
    BY <2>1 DEF Carousel!Done
  <2>3. Sound(R, carMisuse) /\ Queued(R)
    BY DEF Loop, Queued
  <2>4. /\ Unqueued.indicator = car.indicator /\ Unqueued.queue = <<>>
        /\ Unqueued.isPaused = car.isPaused
    BY <1>2, <1>3, LoopBegins
  <2>5. ASSUME want' # 0, ~carMisuse PROVE Wanted(R, want')
    <3>1. want' = want /\ ~no /\ Wanted(car, want)
      BY <2>2, <2>5 DEF CarInv
    <3>2. CASE car.queue = <<>>
      BY <2>1, <2>4, <3>1, <3>2 DEF Wanted, Leads
    <3>3. CASE car.queue # <<>>
      BY <2>1, <2>5, <3>1, <3>3 DEF Wanted
    <3> QED
      BY <3>2, <3>3
  <2>6. CarInv'
    <3>1. /\ options' \in CarouselOptions /\ carMisuse' \in BOOLEAN
          /\ want' \in 0..CarouselItems
      BY <1>1, <2>2
    <3>2. Sound(car', carMisuse') /\ Queued(car')
      BY <2>2, <2>3
    <3>3. want' # 0 /\ ~carMisuse' => Wanted(car', want')
      BY <2>2, <2>5
    <3> QED
      BY <3>1, <3>2, <3>3 DEF CarInv
  <2> QED
    BY <2>1, <2>2, <2>4, <2>6
<1>4. CASE Head(car.slid) # car.inst
  <2> DEFINE T == [car EXCEPT !.slid = Tail(@)]
  <2>1. Carousel!Done(T, FALSE)
    BY <1>4, Zenon DEF Carousel!Slid
  <2>2. Tail(car.slid) \in Seq(Nat \ {0})
    BY <1>2
  <2>3. /\ T \in CarType
        /\ T.inst = car.inst /\ T.made = car.made /\ T.isSliding = car.isSliding
        /\ T.isPaused = car.isPaused /\ T.interval = car.interval /\ T.timers = car.timers
        /\ T.active = car.active /\ T.indicator = car.indicator /\ T.order = car.order
        /\ T.dir = car.dir /\ T.wait = car.wait /\ T.queue = car.queue /\ T.touch = car.touch
        /\ T.slid = Tail(car.slid)
    BY <1>1, <2>2 DEF CarType
  <2> HIDE DEF T
  <2>4. /\ car' = T /\ options' = options /\ carMisuse' = carMisuse
        /\ (want' = 0 \/ want' = want)
    BY <2>1 DEF Carousel!Done
  <2>5. T \in Timed /\ Attached(T)
    BY <1>1, <2>3 DEF Sound, Timed, OneTimer, Attached
  <2>6. Seen(T, car)
    BY <2>3 DEF Seen
  <2>7. Sound(T, carMisuse)
    BY <1>1, <2>5, <2>6, SameSlide DEF Sound
  <2>8. Queued(T)
    <3>1. ASSUME NEW k \in 1..Len(car.slid), car.slid[k] = car.inst
          PROVE  k - 1 \in 1..Len(T.slid) /\ T.slid[k - 1] = T.inst
      <4>1. k # 1
        BY <1>2, <1>4, <3>1
      <4> QED
        BY <1>2, <2>3, <3>1, <4>1, SMTT(30)
    <3> QED
      BY <2>3, <3>1 DEF CarInv, Queued
  <2>9. Wanted(car, want) => Wanted(T, want)
    BY <2>3 DEF Wanted, Leads
  <2>10. /\ options' \in CarouselOptions /\ carMisuse' \in BOOLEAN
         /\ want' \in 0..CarouselItems
    BY <1>1, <2>4
  <2> QED
    BY <2>3, <2>4, <2>7, <2>8, <2>9, <2>10 DEF CarInv
<1> QED
  BY <1>3, <1>4

LEMMA InitCarousel == Carousel!Init => CarInv
<1> SUFFICES ASSUME Carousel!Init PROVE CarInv
  OBVIOUS
<1>0. PICK f \in BOOLEAN : f = FALSE
  OBVIOUS
<1>1. PICK i \in Carousel!Items :
         car = [inst |-> 0, made |-> 0,
                isSliding |-> FALSE, isPaused |-> FALSE, interval |-> 0,
                timers |-> {}, ticks |-> 0, touch |-> FALSE,
                active |-> {i}, indicator |-> i,
                order |-> [j \in Carousel!Items |-> {}],
                dir |-> [j \in Carousel!Items |-> {}],
                queue |-> <<>>, wait |-> <<>>, slid |-> <<>>]
  BY Zenon DEF Carousel!Init
<1>2. car = [inst |-> 0, made |-> 0,
             isSliding |-> f, isPaused |-> f, interval |-> 0,
             timers |-> {}, ticks |-> 0, touch |-> f,
             active |-> {i}, indicator |-> i,
             order |-> [j \in Carousel!Items |-> {}],
             dir |-> [j \in Carousel!Items |-> {}],
             queue |-> <<>>, wait |-> <<>>, slid |-> <<>>]
  BY <1>0, <1>1, Zenon
<1>3. /\ options \in CarouselOptions /\ want = 0 /\ carMisuse \in BOOLEAN
      /\ 0 \in 0..CarouselItems
  <2>1. options \in CarouselOptions /\ want = 0 /\ carMisuse = FALSE
    BY Zenon DEF Carousel!Init
  <2>2. 0 \in 0..CarouselItems
    BY ItemsAreNumbers
  <2>3. carMisuse \in BOOLEAN
    BY <2>1
  <2> QED
    BY <2>1, <2>2, <2>3, Zenon
<1>4. car \in CarType
  <2>1. <<>> \in Seq(Choices) /\ <<>> \in Seq(Slides) /\ <<>> \in Seq(Nat \ {0})
    OBVIOUS
  <2> QED
    BY <1>2, <2>1 DEF CarType
<1>5. /\ car.inst = 0 /\ car.made = 0 /\ ~car.isSliding /\ ~car.isPaused /\ car.interval = 0
      /\ car.timers = {} /\ ~car.touch /\ car.active = {i} /\ car.indicator = i
      /\ car.queue = <<>> /\ car.wait = <<>>
      /\ \A j \in Carousel!Items : car.order[j] = {} /\ car.dir[j] = {}
  BY <1>0, <1>2
<1>6. Sound(car, carMisuse)
  BY <1>4, <1>5 DEF Sound, Timed, OneTimer, Attached, Still
<1> QED
  BY <1>3, <1>5, <1>6 DEF CarInv, Queued

LEMMA NextCarousel == CarInv /\ [Carousel!Next]_(Carousel!vars) => CarInv'
<1> SUFFICES ASSUME CarInv, [Carousel!Next]_(Carousel!vars) PROVE CarInv'
  OBVIOUS
<1>1. ASSUME UNCHANGED Carousel!vars PROVE CarInv'
  <2>1. car' = car /\ options' = options /\ want' = want /\ carMisuse' = carMisuse
    BY <1>1 DEF Carousel!vars
  <2>2. Sound(car', carMisuse') /\ Queued(car')
    BY <2>1 DEF CarInv
  <2>3. want' # 0 /\ ~carMisuse' => Wanted(car', want')
    BY <2>1 DEF CarInv
  <2> QED
    BY <2>1, <2>2, <2>3 DEF CarInv
<1>2. ASSUME Carousel!User PROVE CarInv'
  <2>1. CASE \E no \in BOOLEAN : \E d \in {"next", "prev"} : Carousel!Step(d, no)
    BY <2>1, StepKeeps DEF Directions
  <2>2. CASE \E no \in BOOLEAN : \E c \in Carousel!Indexes : Carousel!To(c, no)
    BY <2>2, ToKeeps
  <2>3. CASE \E no \in BOOLEAN : \E swipe \in {"next", "prev", "none"} :
                Carousel!touchend(swipe, no)
    BY <2>3, TouchKeeps
  <2>4. CASE Carousel!Pause
    BY <2>4, PauseKeeps
  <2>5. CASE Carousel!Cycle
    BY <2>5, CycleKeeps
  <2>6. CASE Carousel!Ride
    BY <2>6, RideKeeps
  <2>7. CASE Carousel!mouseenter \/ Carousel!mouseleave
    BY <2>7, MouseKeeps
  <2>8. CASE Carousel!dispose
    BY <2>8, DisposeKeeps
  <2> QED
    BY <1>2, <2>1, <2>2, <2>3, <2>4, <2>5, <2>6, <2>7, <2>8, Zenon DEF Carousel!User
<1>3. ASSUME Carousel!Timers PROVE CarInv'
  BY <1>3, TimeoutKeeps, TickKeeps DEF Carousel!Timers
<1> QED
  BY <1>1, <1>2, <1>3, EndKeeps, SlidKeeps DEF Carousel!Next

\* CarInv holds in every state.
THEOREM CarouselInvariance == Carousel!Spec => []CarInv
BY InitCarousel, NextCarousel, PTL DEF Carousel!Spec

\* Whatever calls, clicks, swipes, timers and transition ends come in between:
\* at rest one item is active and the indicators point at it, an instance has
\* one interval at most and none in a pause, and of several quick choices the
\* last is shown in the end.
THEOREM CarouselAgrees == Carousel!Spec => []CarouselIsConsistent
<1>1. ASSUME CarInv PROVE CarouselIsConsistent
  <2>1. /\ car \in CarType /\ Attached(car) /\ car \in Timed
        /\ car.timers = {car.interval} \ {0} /\ (car.isPaused => car.interval = 0)
        /\ carMisuse \/ Still(car) \/ Moving(car)
    BY <1>1 DEF CarInv, Sound, Timed, OneTimer
  <2>2. car.wait = <<>> /\ ~carMisuse => Still(car)
    <3>1. Len(<<>>) = 0
      OBVIOUS
    <3> QED
      BY <2>1, <3>1 DEF Moving
  <2>3. Carousel!TypeOK
    <3>1. car.inst \in 0..car.made /\ car.active \subseteq Carousel!Items
          /\ car.indicator \in Carousel!Items
      BY <2>1 DEF CarType, Attached
    <3>2. \A k \in DOMAIN car.queue : car.queue[k] \in Carousel!Indexes
      <4>1. Choices \subseteq Carousel!Indexes
        BY ItemsAreNumbers DEF Choices, Carousel!Indexes
      <4>2. \A k \in DOMAIN car.queue : car.queue[k] \in Choices
        BY <2>1 DEF CarType
      <4> QED
        BY <4>1, <4>2
    <3>3. car.isSliding => car.inst # 0 /\ \E k \in DOMAIN car.wait : car.wait[k].inst = car.inst
      <4>1. DOMAIN car.wait = 1..Len(car.wait)
        BY <2>1 DEF CarType
      <4> QED
        BY <2>1, <4>1 DEF Attached
    <3> QED
      BY <1>1, <3>1, <3>2, <3>3 DEF CarInv, Carousel!TypeOK
  <2>4. Carousel!OneItemAtRest
    BY <2>2 DEF Still, Carousel!OneItemAtRest
  <2>5. Carousel!OneInterval
    BY <2>1 DEF Carousel!OneInterval
  <2>6. Carousel!LastChoiceIsShown
    BY <1>1, <2>2 DEF Still, CarInv, Wanted, Leads, Carousel!LastChoiceIsShown
  <2> QED
    BY <2>3, <2>4, <2>5, <2>6 DEF CarouselIsConsistent
<1> QED
  BY <1>1, CarouselInvariance, PTL

\* The tasks that are to leave a pause alone do so.
LEMMA PauseStays ==
    ASSUME CarInv, Carousel!LeavesPauseAlone, car.isPaused
    PROVE  car'.isPaused
<1>1. CASE Carousel!Pause
  BY <1>1, PauseKeeps
<1>2. CASE Carousel!mouseenter \/ Carousel!mouseleave
  BY <1>2, MouseKeeps
<1>3. CASE Carousel!TransitionEnd
  BY <1>3, EndKeeps
<1>4. ASSUME NEW no \in BOOLEAN, NEW d \in {"next", "prev"}, Carousel!Step(d, no)
      PROVE  car'.isPaused
  BY <1>4, StepKeeps DEF Directions
<1>5. ASSUME NEW no \in BOOLEAN, NEW swipe \in {"next", "prev", "none"},
             Carousel!touchend(swipe, no)
      PROVE  car'.isPaused
  BY <1>5, TouchKeeps
<1>6. ASSUME NEW no \in BOOLEAN, NEW visible \in BOOLEAN, Carousel!Tick(visible, no)
      PROVE  car'.isPaused
  BY <1>6, TickKeeps
<1>7. ASSUME NEW no \in BOOLEAN, NEW c \in Carousel!Indexes,
             ~Carousel!Resumes(c), Carousel!To(c, no)
      PROVE  car'.isPaused
  BY <1>7, ToKeeps
<1>8. ASSUME NEW no \in BOOLEAN, Carousel!Slid(no), car.queue = <<>> \/ options.slide,
             \A k \in DOMAIN car.queue : ~Carousel!Resumes(car.queue[k])
      PROVE  car'.isPaused
  BY <1>8, SlidKeeps
<1> QED
  BY <1>1, <1>2, <1>3, <1>4, <1>5, <1>6, <1>7, <1>8, Zenon DEF Carousel!LeavesPauseAlone

\* A pause the program asked for outlives the mouse, timers, swipes, slides and
\* choices of other items, those that waited for a slide as well.
THEOREM PausesHold == Carousel!Spec => PauseHolds
<1>1. CarInv => (car.isPaused /\ Carousel!LeavesPauseAlone => car'.isPaused)
  BY PauseStays
<1> QED
  BY <1>1, CarouselInvariance, PTL DEF Carousel!PauseHolds, PauseHolds
-----------------------------------------------------------------------------
(***************************************************************************)
(* Scroll spy: what is marked after a scroll event, on any page and after  *)
(* any changes of it.                                                      *)
(***************************************************************************)

Layouts == [Targets -> Tops \cup {ScrollSpy!Hidden}]

\* The targets that can be seen with their tops, and their order.
InView(tops) ==
    {[top |-> tops[t], target |-> t] : t \in {u \in Targets : tops[u] # ScrollSpy!Hidden}}

Order(tops) ==
    {p \in InView(tops) \X InView(tops) :
        \/ p[1].top < p[2].top
        \/ p[1].top = p[2].top /\ p[1].target < p[2].target}

\* What refresh chooses by.
InOrder(seq) ==
    \A i, j \in DOMAIN seq : i < j =>
        (seq[i].top < seq[j].top \/ (seq[i].top = seq[j].top /\ seq[i].target < seq[j].target))

\* offs has every target that can be seen, the lower ones before the higher.
OffsetsOf(tops, offs) ==
    /\ offs \in [1..Cardinality(InView(tops)) -> InView(tops)]
    /\ \A i, j \in DOMAIN offs : i < j => offs[i].top <= offs[j].top
    /\ \A t \in Targets : tops[t] # ScrollSpy!Hidden => \E i \in DOMAIN offs : offs[i].target = t

LEMMA InViewAre ==
    ASSUME ScrollSpy!ConstantsAssumption, NEW tops \in Layouts
    PROVE  /\ IsFiniteSet(InView(tops)) /\ Cardinality(InView(tops)) \in Nat
           /\ \A s \in InView(tops) : /\ s.top \in Nat /\ s.target \in Nat /\ s.target \in Targets
                                    /\ s.top = tops[s.target] /\ tops[s.target] # ScrollSpy!Hidden
                                    /\ s = [top |-> s.top, target |-> s.target]
<1> DEFINE V == {u \in Targets : tops[u] # ScrollSpy!Hidden}
           f == [t \in V |-> [top |-> tops[t], target |-> t]]
<1>1. IsFiniteSet(V)
  <2>1. IsFiniteSet(Targets)
    BY DEF ScrollSpy!ConstantsAssumption, IsFiniteSet, ScrollSpy!IsFiniteSet
  <2>2. V \in SUBSET Targets
    OBVIOUS
  <2> QED
    BY <2>1, <2>2, FS_Subset
<1>2. IsFiniteSet(InView(tops))
  <2>1. f \in Surjection(V, InView(tops))
    BY DEF Surjection, InView
  <2> QED
    BY <1>1, <2>1, FS_Surjection
<1>3. ASSUME NEW s \in InView(tops)
      PROVE  /\ s.top \in Nat /\ s.target \in Nat /\ s.target \in Targets
             /\ s.top = tops[s.target] /\ tops[s.target] # ScrollSpy!Hidden
             /\ s = [top |-> s.top, target |-> s.target]
  BY DEF InView, Layouts, ScrollSpy!ConstantsAssumption
<1> QED
  BY <1>2, <1>3, FS_CardinalityType

LEMMA OffsetsAreSorted ==
    ASSUME ScrollSpy!ConstantsAssumption, NEW tops \in Layouts
    PROVE  OffsetsOf(tops, ScrollSpy!Offsets(tops))
<1> DEFINE S == InView(tops)
           R == Order(tops)
           c == Cardinality(S)
           offs == ScrollSpy!Offsets(tops)
<1>1. /\ IsFiniteSet(S) /\ c \in Nat
      /\ \A s \in S : /\ s.top \in Nat /\ s.target \in Nat /\ s.target \in Targets
                      /\ s.top = tops[s.target] /\ tops[s.target] # ScrollSpy!Hidden
                      /\ s = [top |-> s.top, target |-> s.target]
  BY InViewAre
<1>2. \A a, b \in S : <<a, b>> \in R <=> (a.top < b.top \/ (a.top = b.top /\ a.target < b.target))
  BY DEF Order
<1>3. offs = CHOOSE seq \in [1..c -> S] : InOrder(seq)
  BY Zenon DEF ScrollSpy!Offsets, InView, InOrder, Cardinality, ScrollSpy!Cardinality
<1> HIDE DEF S, R, offs
<1>4. \A a, b \in S : a # b => <<a, b>> \in R \/ <<b, a>> \in R
  <2> SUFFICES ASSUME NEW a \in S, NEW b \in S, a # b PROVE <<a, b>> \in R \/ <<b, a>> \in R
    OBVIOUS
  <2>1. a.top # b.top \/ a.target # b.target
    BY <1>1
  <2>2. /\ a.top \in Nat /\ b.top \in Nat /\ a.target \in Nat /\ b.target \in Nat
        /\ a.top < b.top \/ b.top < a.top \/ a.top = b.top
    BY <1>1
  <2> QED
    BY <1>2, <2>1, <2>2
<1>5. \A a, b, e \in S : <<a, b>> \in R /\ <<b, e>> \in R => <<a, e>> \in R
  <2> SUFFICES ASSUME NEW a \in S, NEW b \in S, NEW e \in S, <<a, b>> \in R, <<b, e>> \in R
               PROVE  <<a, e>> \in R
    OBVIOUS
  <2>1. /\ a.top \in Nat /\ b.top \in Nat /\ e.top \in Nat
        /\ a.target \in Nat /\ b.target \in Nat /\ e.target \in Nat
    BY <1>1
  <2> QED
    BY <1>2, <2>1
<1>6. Sorted(S, R) # {}
  BY <1>1, <1>4, <1>5, SortedSequence
<1> HIDE DEF c
<1>7. /\ offs \in [1..c -> S]
      /\ \A i, j \in 1..c : i < j =>
            (offs[i].top < offs[j].top \/ (offs[i].top = offs[j].top /\ offs[i].target < offs[j].target))
  <2>1. PICK seq \in Sorted(S, R) : TRUE
    BY <1>6
  <2>2. /\ seq \in [1..c -> S]
        /\ \A i, j \in 1..c : i < j => <<seq[i], seq[j]>> \in R
    BY <2>1 DEF Sorted, c
  <2>3. DOMAIN seq = 1..c /\ \A i \in 1..c : seq[i] \in S
    BY <2>2
  <2>4. InOrder(seq)
    BY <1>2, <2>2, <2>3 DEF InOrder
  <2>5. offs \in [1..c -> S] /\ InOrder(offs)
    BY <1>3, <2>2, <2>4
  <2>6. DOMAIN offs = 1..c
    BY <2>5
  <2> QED
    BY <2>5, <2>6 DEF InOrder
<1>8. \A i, j \in 1..c : i < j => offs[i].top <= offs[j].top /\ offs[i] # offs[j]
  <2> SUFFICES ASSUME NEW i \in 1..c, NEW j \in 1..c, i < j
               PROVE  offs[i].top <= offs[j].top /\ offs[i] # offs[j]
    OBVIOUS
  <2>1. /\ offs[i].top \in Nat /\ offs[j].top \in Nat
        /\ offs[i].target \in Nat /\ offs[j].target \in Nat
    BY <1>1, <1>7
  <2> QED
    BY <1>7, <2>1
<1>9. \A s \in S : \E i \in 1..c : offs[i] = s
  <2>1. offs \in Injection(1..c, S)
    <3>1. ASSUME NEW i \in 1..c, NEW j \in 1..c, offs[i] = offs[j] PROVE i = j
      <4>1. ~(i < j) /\ ~(j < i)
        BY <1>8, <3>1
      <4> QED
        BY <1>1, <4>1
    <3> QED
      BY <1>7, <3>1 DEF Injection, IsInjective
  <2>2. IsFiniteSet(1..c) /\ Cardinality(1..c) = c
    BY <1>1, FS_Interval
  <2>3. offs \in Surjection(1..c, S)
    BY <1>1, <2>1, <2>2, FS_Injection DEF c
  <2> QED
    BY <2>3 DEF Surjection
<1>10. \A t \in Targets : tops[t] # ScrollSpy!Hidden => \E i \in 1..c : offs[i].target = t
  <2> SUFFICES ASSUME NEW t \in Targets, tops[t] # ScrollSpy!Hidden
               PROVE  \E i \in 1..c : offs[i].target = t
    OBVIOUS
  <2>1. [top |-> tops[t], target |-> t] \in S
    BY DEF S, InView
  <2>2. PICK i \in 1..c : offs[i] = [top |-> tops[t], target |-> t]
    BY <1>9, <2>1
  <2> QED
    BY <2>2
<1>11. DOMAIN offs = 1..c
  BY <1>7
<1> QED
  BY <1>7, <1>8, <1>10, <1>11 DEF OffsetsOf, S, c, offs

\* The targets that may be marked at position y in a content of height h.
Best(tops, y, h) ==
    LET reached == {t \in Targets : tops[t] # ScrollSpy!Hidden /\ (tops[t] <= y + Offset \/ y = h - View)}
    IN  {t \in reached : \A u \in reached : tops[u] <= tops[t]}

SpyInv ==
    /\ layout \in Layouts /\ height \in Heights
    /\ activeTarget \in Targets \cup {ScrollSpy!None} /\ known \in Heights
    /\ links = ScrollSpy!Marked(activeTarget) /\ scroll \in Nat
    /\ \E tops \in Layouts : OffsetsOf(tops, offsets)
    /\ ScrollSpy!MarksTheTargetInView

\* A pass of _process at position y, with some offsets of an earlier page.
LEMMA Processed ==
    ASSUME ScrollSpy!ConstantsAssumption, NEW tops \in Layouts, NEW h \in Heights,
           NEW y \in Nat, y <= h - View, NEW kn, NEW act \in Targets \cup {ScrollSpy!None},
           NEW offs, \E t \in Layouts : OffsetsOf(t, offs),
           NEW p, p = ScrollSpy!_process(tops, h, y, offs, kn, act)
    PROVE  /\ p.known = h /\ p.active \in Targets \cup {ScrollSpy!None}
           /\ p.offsets = offs \/ p.offsets = ScrollSpy!Offsets(tops)
           /\ p.offsets # ScrollSpy!Offsets(tops) => kn = h
           /\ \E t \in Layouts : OffsetsOf(t, p.offsets)
           /\ (p.offsets = ScrollSpy!Offsets(tops) /\ \E t \in Targets : tops[t] # ScrollSpy!Hidden)
              => IF Best(tops, y, h) = {} THEN p.active = ScrollSpy!None
                 ELSE p.active \in Best(tops, y, h)
<1> DEFINE new == IF kn # h THEN ScrollSpy!Offsets(tops) ELSE offs
           top == y + Offset
           hits == {i \in DOMAIN new : top >= new[i].top /\ (i < Len(new) => top < new[i + 1].top)}
           above == new # <<>> /\ top < new[1].top /\ new[1].top > 0
           reached == {t \in Targets : tops[t] # ScrollSpy!Hidden /\ (tops[t] <= top \/ y = h - View)}
           isRight == {t \in reached : \A u \in reached : tops[u] <= tops[t]}
<1>0. /\ h \in Nat /\ View \in Nat /\ Offset \in Nat /\ Targets \subseteq Nat /\ top \in Nat
      /\ top >= Offset + h - View <=> y = h - View
  BY DEF ScrollSpy!ConstantsAssumption
<1>1. /\ p.offsets = new /\ p.known = h
      /\ p.active = IF top >= Offset + h - View
                    THEN IF new = <<>> THEN ScrollSpy!None ELSE ScrollSpy!Last(new).target
                    ELSE IF act # ScrollSpy!None /\ above THEN ScrollSpy!None
                    ELSE IF ScrollSpy!Reached(new, top) # ScrollSpy!None
                         THEN ScrollSpy!Reached(new, top) ELSE act
  BY DEF ScrollSpy!_process
<1>2. PICK t0 \in Layouts : /\ OffsetsOf(t0, new)
                            /\ new = ScrollSpy!Offsets(tops) => OffsetsOf(tops, new)
  <2>1. OffsetsOf(tops, ScrollSpy!Offsets(tops))
    BY OffsetsAreSorted
  <2> QED
    BY <2>1
<1> DEFINE c == Cardinality(InView(t0))
<1>3. /\ c \in Nat /\ new \in [1..c -> InView(t0)] /\ DOMAIN new = 1..c
      /\ \A i \in 1..c : new[i].top \in Nat /\ new[i].target \in Targets
      /\ \A i, j \in 1..c : i < j => new[i].top <= new[j].top
  BY <1>2, InViewAre DEF OffsetsOf
<1> HIDE DEF c
<1>4. Len(new) = c /\ (new = <<>> <=> c = 0)
  <2>1. new \in Seq(InView(t0))
    BY <1>3
  <2> QED
    BY <1>3, <2>1, EmptySeq
<1>5. ScrollSpy!Reached(new, top) = IF hits = {} THEN ScrollSpy!None ELSE new[CHOOSE i \in hits : TRUE].target
  BY DEF ScrollSpy!Reached, Len, ScrollSpy!Len
<1>6. c # 0 => ScrollSpy!Last(new) = new[c]
  BY <1>4 DEF ScrollSpy!Last, Len, ScrollSpy!Len
<1> HIDE DEF new, top
<1>7. p.active \in Targets \cup {ScrollSpy!None}
  <2>1. hits # {} => (CHOOSE i \in hits : TRUE) \in 1..c
    BY <1>3
  <2>2. ScrollSpy!Reached(new, top) \in Targets \cup {ScrollSpy!None}
    BY <1>3, <1>5, <2>1
  <2>3. c # 0 => c \in 1..c
    BY <1>3
  <2> QED
    BY <1>1, <1>3, <1>4, <1>6, <2>2, <2>3
<1>8. ASSUME new = ScrollSpy!Offsets(tops), NEW v \in Targets, tops[v] # ScrollSpy!Hidden
      PROVE  IF isRight = {} THEN p.active = ScrollSpy!None ELSE p.active \in isRight
  <2>1. /\ \A i \in 1..c : /\ new[i].top = tops[new[i].target]
                            /\ tops[new[i].target] # ScrollSpy!Hidden
        /\ \A t \in Targets : tops[t] # ScrollSpy!Hidden => \E i \in 1..c : new[i].target = t
    <3>1. OffsetsOf(tops, new)
      BY <1>2, <1>8
    <3>2. DOMAIN new = 1..c /\ \A i \in 1..c : new[i] \in InView(tops)
      BY <1>3, <3>1 DEF OffsetsOf
    <3> QED
      BY <3>1, <3>2, InViewAre DEF OffsetsOf
  <2>2. c # 0 /\ 1 \in 1..c /\ c \in 1..c
    BY <1>3, <1>8, <2>1
  <2> HIDE DEF reached
  <2>3. CASE y = h - View
    <3>1. p.active = new[c].target
      BY <1>0, <1>1, <1>4, <1>6, <2>2, <2>3
    <3>2. \A t \in reached : \E i \in 1..c : new[i].target = t /\ new[i].top = tops[t]
      BY <2>1 DEF reached
    <3>3. \A i \in 1..c : new[i].top <= new[c].top
      BY <1>3, <2>2
    <3>4. p.active \in reached
      BY <1>3, <2>1, <2>2, <2>3, <3>1 DEF reached
    <3>5. \A u \in reached : tops[u] <= tops[p.active]
      BY <2>1, <2>2, <3>1, <3>2, <3>3
    <3> QED
      BY <3>4, <3>5
  <2>4. CASE y # h - View
    <3>0. /\ p.active = IF act # ScrollSpy!None /\ above THEN ScrollSpy!None
                       ELSE IF ScrollSpy!Reached(new, top) # ScrollSpy!None
                         THEN ScrollSpy!Reached(new, top) ELSE act
          /\ reached = {t \in Targets : tops[t] # ScrollSpy!Hidden /\ tops[t] <= top}
      BY <1>0, <1>1, <2>4 DEF reached
    <3>1. CASE top < new[1].top
      <4>1. \A i \in 1..c : ~(top >= new[i].top)
        BY <1>0, <1>3, <2>2, <3>1
      <4>2. hits = {} /\ above
        BY <1>0, <1>3, <1>4, <2>2, <3>1, <4>1
      <4>3. reached = {}
        <5> SUFFICES ASSUME NEW t \in reached PROVE FALSE
          OBVIOUS
        <5>1. t \in Targets /\ tops[t] # ScrollSpy!Hidden /\ tops[t] <= top
          BY <3>0
        <5>2. PICK i \in 1..c : new[i].target = t
          BY <2>1, <5>1
        <5>3. new[i].top <= top /\ new[i].top \in Nat
          BY <1>3, <2>1, <5>1, <5>2
        <5> QED
          BY <1>0, <4>1, <5>3
      <4>4. p.active = ScrollSpy!None
        BY <1>5, <3>0, <4>2
      <4> QED
        BY <4>3, <4>4
    <3>2. CASE ~(top < new[1].top)
      <4>1. hits # {}
        <5> DEFINE B == {j \in Nat : c - j \in 1..c /\ new[c - j].top <= top}
        <5>1. c - 1 \in B
          BY <1>0, <1>3, <2>2, <3>2
        <5>2. B \subseteq Nat
          OBVIOUS
        <5> HIDE DEF B
        <5>3. PICK m \in B : \A j \in B : m <= j
          BY <5>1, <5>2, LeastNumber
        <5>4. m \in Nat /\ c - m \in 1..c /\ new[c - m].top <= top
          BY <5>3 DEF B
        <5>5. c - m < c => top < new[c - m + 1].top
          <6> SUFFICES ASSUME c - m < c PROVE top < new[c - m + 1].top
            OBVIOUS
          <6>1. m - 1 \in Nat /\ m - 1 \notin B /\ c - (m - 1) = c - m + 1 /\ c - m + 1 \in 1..c
            BY <1>3, <5>3, <5>4
          <6>2. ~(new[c - m + 1].top <= top)
            BY <6>1 DEF B
          <6> QED
            BY <1>0, <1>3, <6>1, <6>2
        <5>6. c - m \in hits
          BY <1>0, <1>3, <1>4, <5>4, <5>5
        <5> QED
          BY <5>6
      <4>2. PICK i \in hits : ScrollSpy!Reached(new, top) = new[i].target
        BY <1>5, <4>1
      <4>3. /\ i \in 1..c /\ new[i].top <= top /\ new[i].top \in Nat
            /\ i < c => top < new[i + 1].top
        BY <1>0, <1>3, <1>4
      <4>4. ~above /\ new[i].target \in Targets /\ new[i].target # ScrollSpy!None
        BY <1>0, <1>3, <2>2, <3>2, <4>3 DEF ScrollSpy!None
      <4>5. p.active = new[i].target
        BY <3>0, <4>2, <4>4
      <4>6. p.active \in reached
        BY <2>1, <3>0, <4>3, <4>4, <4>5
      <4>7. ASSUME NEW u \in reached PROVE tops[u] <= tops[p.active]
        <5>1. u \in Targets /\ tops[u] # ScrollSpy!Hidden /\ tops[u] <= top
          BY <3>0
        <5>2. PICK j \in 1..c : new[j].target = u
          BY <2>1, <5>1
        <5>3. new[j].top = tops[u] /\ new[j].top \in Nat /\ tops[p.active] = new[i].top
          BY <1>3, <2>1, <4>3, <4>5, <5>2
        <5>4. j <= i
          <6> SUFFICES ASSUME i < j PROVE FALSE
            BY <4>3
          <6>1. i < c /\ i + 1 \in 1..c /\ i + 1 <= j
            BY <1>3, <4>3
          <6>2. top < new[i + 1].top /\ new[i + 1].top <= new[j].top /\ new[i + 1].top \in Nat
            BY <1>3, <4>3, <6>1
          <6> QED
            BY <1>0, <5>1, <5>3, <6>2, SMTT(30)
        <5> QED
          BY <1>3, <4>3, <5>3, <5>4
      <4> QED
        BY <4>6, <4>7
    <3> QED
      BY <3>1, <3>2
  <2> QED
    BY <2>3, <2>4
<1>9. (p.offsets = offs \/ p.offsets = ScrollSpy!Offsets(tops)) /\ (p.offsets # ScrollSpy!Offsets(tops) => kn = h)
  BY <1>1 DEF new
<1>10. isRight = Best(tops, y, h)
  BY DEF Best, top
<1> HIDE DEF isRight
<1> QED
  BY <1>1, <1>2, <1>7, <1>8, <1>9, <1>10

LEMMA BestIsRight ==
    ASSUME SpyInv
    PROVE  /\ ScrollSpy!Right = Best(layout, scroll, height)
           /\ ScrollSpy!Visible # {} <=> \E t \in Targets : layout[t] # ScrollSpy!Hidden
BY DEF ScrollSpy!Right, ScrollSpy!Visible, Best

LEMMA InitSpy == ScrollSpy!Init => SpyInv
<1> SUFFICES ASSUME ScrollSpy!Init PROVE SpyInv
  OBVIOUS
<1>1. ScrollSpy!ConstantsAssumption
  BY PageAssumption
<1> DEFINE p == ScrollSpy!_process(layout, height, 0, ScrollSpy!Offsets(layout), height, ScrollSpy!None)
<1>2. /\ layout \in Layouts /\ height \in Heights /\ scroll = 0
      /\ offsets = p.offsets /\ known = p.known /\ activeTarget = p.active
      /\ links = ScrollSpy!Marked(p.active)
  BY DEF ScrollSpy!Init, Layouts
<1> HIDE DEF p
<1>3. OffsetsOf(layout, ScrollSpy!Offsets(layout))
  BY <1>1, <1>2, OffsetsAreSorted
<1>4. 0 <= height - View
  BY <1>1, <1>2 DEF ScrollSpy!ConstantsAssumption
<1>5. /\ p.known = height /\ p.active \in Targets \cup {ScrollSpy!None}
      /\ \E t \in Layouts : OffsetsOf(t, p.offsets)
      /\ (p.offsets = ScrollSpy!Offsets(layout) /\ \E t \in Targets : layout[t] # ScrollSpy!Hidden)
              => IF Best(layout, 0, height) = {} THEN p.active = ScrollSpy!None
                 ELSE p.active \in Best(layout, 0, height)
  <2>1. ScrollSpy!None \in Targets \cup {ScrollSpy!None} /\ 0 \in Nat
    OBVIOUS
  <2>2. \E t \in Layouts : OffsetsOf(t, ScrollSpy!Offsets(layout))
    BY <1>2, <1>3
  <2> QED
    BY <1>1, <1>2, <1>4, <2>1, <2>2, Processed DEF p
<1>6. /\ ScrollSpy!Right = Best(layout, scroll, height)
      /\ ScrollSpy!Visible # {} <=> \E t \in Targets : layout[t] # ScrollSpy!Hidden
  BY DEF ScrollSpy!Right, ScrollSpy!Visible, Best
<1>7. ScrollSpy!MarksTheTargetInView
  BY <1>2, <1>5, <1>6 DEF ScrollSpy!MarksTheTargetInView
<1> QED
  BY <1>2, <1>5, <1>7 DEF SpyInv

\* What a scroll event does.
LEMMA ScrollKeeps ==
    ASSUME ScrollSpy!ConstantsAssumption, SpyInv, NEW y \in 0..height - View, ScrollSpy!Scroll(y)
    PROVE  /\ SpyInv'
           /\ offsets' # ScrollSpy!Offsets(layout) => height = known /\ offsets' = offsets
<1> DEFINE p == ScrollSpy!_process(layout, height, y, offsets, known, activeTarget)
<1>1. /\ offsets' = p.offsets /\ known' = p.known /\ activeTarget' = p.active
      /\ links' = ScrollSpy!Marked(p.active) /\ scroll' = y
      /\ layout' = layout /\ height' = height
  BY DEF ScrollSpy!Scroll, ScrollSpy!Process
<1> HIDE DEF p
<1>2. /\ layout \in Layouts /\ height \in Heights /\ y \in Nat /\ y <= height - View
      /\ activeTarget \in Targets \cup {ScrollSpy!None}
      /\ \E t \in Layouts : OffsetsOf(t, offsets)
  BY DEF SpyInv, ScrollSpy!ConstantsAssumption
<1>3. /\ p.known = height /\ p.active \in Targets \cup {ScrollSpy!None}
      /\ p.offsets = offsets \/ p.offsets = ScrollSpy!Offsets(layout)
      /\ p.offsets # ScrollSpy!Offsets(layout) => known = height
      /\ \E t \in Layouts : OffsetsOf(t, p.offsets)
      /\ (p.offsets = ScrollSpy!Offsets(layout) /\ \E t \in Targets : layout[t] # ScrollSpy!Hidden)
              => IF Best(layout, y, height) = {} THEN p.active = ScrollSpy!None
                 ELSE p.active \in Best(layout, y, height)
  BY <1>2, Processed DEF p
<1>4. /\ (ScrollSpy!Right)' = Best(layout', scroll', height')
      /\ (ScrollSpy!Visible)' # {} <=> \E t \in Targets : layout'[t] # ScrollSpy!Hidden
  BY DEF ScrollSpy!Right, ScrollSpy!Visible, Best
<1>5. (ScrollSpy!Offsets(layout))' = ScrollSpy!Offsets(layout)
  BY <1>1
<1>6. (ScrollSpy!MarksTheTargetInView)'
  BY <1>1, <1>3, <1>4, <1>5 DEF ScrollSpy!MarksTheTargetInView
<1>7. SpyInv'
  BY <1>1, <1>2, <1>3, <1>6 DEF SpyInv
<1> QED
  BY <1>1, <1>3, <1>7

LEMMA NextSpy == SpyInv /\ [ScrollSpy!Next]_(ScrollSpy!vars) => SpyInv'
<1> SUFFICES ASSUME SpyInv, [ScrollSpy!Next]_(ScrollSpy!vars) PROVE SpyInv'
  OBVIOUS
<1>0. ScrollSpy!ConstantsAssumption
  BY PageAssumption
<1>1. ASSUME NEW y, ScrollSpy!Scroll(y) PROVE SpyInv'
  BY <1>0, <1>1, ScrollKeeps DEF ScrollSpy!Scroll
<1>2. CASE ScrollSpy!refresh
  <2>1. OffsetsOf(layout, ScrollSpy!Offsets(layout))
    BY <1>0, OffsetsAreSorted DEF SpyInv
  <2>2. /\ offsets' = ScrollSpy!Offsets(layout) /\ known' = height /\ processed' = FALSE
        /\ UNCHANGED <<layout, height, scroll, activeTarget, links>>
    BY <1>2 DEF ScrollSpy!refresh
  <2>3. (ScrollSpy!MarksTheTargetInView)'
    BY <2>2 DEF ScrollSpy!MarksTheTargetInView
  <2> QED
    BY <2>1, <2>2, <2>3 DEF SpyInv
<1>3. CASE ScrollSpy!Relayout
  <2>1. /\ layout' \in Layouts /\ height' \in Heights /\ processed' = FALSE
        /\ UNCHANGED <<scroll, offsets, known, activeTarget, links>>
    BY <1>3 DEF ScrollSpy!Relayout, SpyInv, Layouts
  <2>2. (ScrollSpy!MarksTheTargetInView)'
    BY <2>1 DEF ScrollSpy!MarksTheTargetInView
  <2> QED
    BY <2>1, <2>2 DEF SpyInv
<1>4. CASE UNCHANGED ScrollSpy!vars
  <2>1. UNCHANGED <<layout, height, scroll, offsets, known, activeTarget, links, processed>>
    BY <1>4 DEF ScrollSpy!vars
  <2>2. (ScrollSpy!MarksTheTargetInView)' = ScrollSpy!MarksTheTargetInView
    BY <2>1, Zenon DEF ScrollSpy!MarksTheTargetInView, ScrollSpy!Right, ScrollSpy!Visible
  <2> QED
    BY <2>1, <2>2 DEF SpyInv
<1> QED
  BY <1>1, <1>2, <1>3, <1>4 DEF ScrollSpy!Next

LEMMA SpyInvMeans == SpyInv => ScrollSpy!TypeOK
<1> SUFFICES ASSUME SpyInv PROVE ScrollSpy!TypeOK
  OBVIOUS
<1>1. PICK tops \in Layouts : OffsetsOf(tops, offsets)
  BY DEF SpyInv
<1> DEFINE c == Cardinality(InView(tops))
<1>2. c \in Nat /\ offsets \in [1..c -> InView(tops)] /\ DOMAIN offsets = 1..c
  BY <1>1, PageAssumption, InViewAre DEF OffsetsOf
<1> HIDE DEF c
<1>3. Len(offsets) = c
  <2>1. offsets \in Seq(InView(tops))
    BY <1>2
  <2> QED
    BY <1>2, <2>1
<1>4. \A i \in 1..c - 1 : offsets[i].top <= offsets[i + 1].top
  BY <1>1, <1>2 DEF OffsetsOf
<1> QED
  BY <1>3, <1>4 DEF SpyInv, ScrollSpy!TypeOK, Layouts, Len, ScrollSpy!Len

\* After every scroll event exactly the link of the target in view is marked, if
\* the page is as it was at the last refresh, and offsets older than the page are
\* used at the height they were taken at only (bootstrap.js:3789 to 3850).
THEOREM SpyIsRight == ScrollSpy!Spec => SpyMarksTheTarget
<1>1. SpyInv => ScrollSpy!TypeOK /\ ScrollSpy!MarksTheTargetInView
  BY SpyInvMeans DEF SpyInv
<1>2. SpyInv /\ [ScrollSpy!Next]_(ScrollSpy!vars) => [ScrollSpy!StaleStep]_(ScrollSpy!vars)
  BY ScrollKeeps, PageAssumption DEF ScrollSpy!StaleStep
<1> QED
  BY <1>1, <1>2, InitSpy, NextSpy, PTL
     DEF ScrollSpy!Spec, SpyMarksTheTarget, ScrollSpy!StaleOnlyAtSameHeight
=============================================================================
