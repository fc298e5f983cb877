------------------------------ MODULE Progress ------------------------------
(***************************************************************************)
(* progress.js: round progress bars.  fillPercentage writes a percentage   *)
(* into a number, a data-value attribute and the colour of the two halves; *)
(* redrawProgressBars turns the halves of every bar of the page.  Pages    *)
(* call the two functions when they like.  Angles are in tenths of degree. *)
(***************************************************************************)
EXTENDS Integers, FiniteSets

CONSTANTS Bars, Percentages

ASSUME ProgressAssumption == Percentages \subseteq 0..100 /\ 0 \in Percentages

VARIABLES
    text,         \* what the number says
    value,        \* data-value
    border,       \* border classes of the two halves p1, p2
    right, left,  \* rotation of the right and of the left half
    peak,         \* history: the largest value above 50 at a redraw, or 0
    last          \* history: the last value above 0 at a redraw, or 0

vars == <<text, value, border, right, left, peak, last>>

Borders == {"border-success", "border-warning", "border-danger"}

Halves == {"p1", "p2"}

Init ==
    /\ text = [b \in Bars |-> 0] /\ value = [b \in Bars |-> 0]
    /\ border = [b \in Bars |-> [h \in Halves |-> {}]]
    /\ right = [b \in Bars |-> 0] /\ left = [b \in Bars |-> 0]
    /\ peak = [b \in Bars |-> 0] /\ last = [b \in Bars |-> 0]
-----------------------------------------------------------------------------
\* percentage / 100 * 360, in tenths of degree
percentageToDegrees(percentage) == percentage * 36

Colour(p) == IF p > 75 THEN "border-danger" ELSE IF p > 50 THEN "border-warning"
             ELSE "border-success"

\* Mutant of fillPercentage: the second half keeps its earlier colours.
fillPercentageKeeps(b, p) ==
    /\ text' = [text EXCEPT ![b] = p]
    /\ value' = [value EXCEPT ![b] = p]
    /\ border' = [border EXCEPT ![b] = [p1 |-> {Colour(p)}, p2 |-> @.p2 \cup {Colour(p)}]]
    /\ UNCHANGED <<right, left, peak, last>>

fillPercentage(b, p) ==
    /\ text' = [text EXCEPT ![b] = p]
    /\ value' = [value EXCEPT ![b] = p]
    /\ border' = [border EXCEPT ![b] = [h \in Halves |-> {Colour(p)}]]
    /\ UNCHANGED <<right, left, peak, last>>

\* Mutant of redrawProgressBars: the left half turns by the whole value.
redrawProgressBarsWhole ==
    /\ right' = [b \in Bars |->
          IF value[b] <= 0 THEN right[b]
          ELSE IF value[b] <= 50 THEN percentageToDegrees(value[b]) ELSE 1800]
    /\ left' = [b \in Bars |->
          IF value[b] <= 50 THEN left[b] ELSE percentageToDegrees(value[b])]
    /\ peak' = [b \in Bars |-> IF value[b] > peak[b] /\ value[b] > 50 THEN value[b] ELSE peak[b]]
    /\ last' = [b \in Bars |-> IF value[b] > 0 THEN value[b] ELSE last[b]]
    /\ UNCHANGED <<text, value, border>>

\* Mutant of redrawProgressBars: above 50 only the left half turns.
redrawProgressBarsLeft ==
    /\ right' = [b \in Bars |->
          IF value[b] \in 1..50 THEN percentageToDegrees(value[b]) ELSE right[b]]
    /\ left' = [b \in Bars |->
          IF value[b] <= 50 THEN left[b] ELSE percentageToDegrees(value[b] - 50)]
    /\ peak' = [b \in Bars |-> IF value[b] > peak[b] /\ value[b] > 50 THEN value[b] ELSE peak[b]]
    /\ last' = [b \in Bars |-> IF value[b] > 0 THEN value[b] ELSE last[b]]
    /\ UNCHANGED <<text, value, border>>

\* A value of 0 turns nothing, one up to 50 only the right half.
redrawProgressBars ==
    /\ right' = [b \in Bars |->
          IF value[b] <= 0 THEN right[b]
          ELSE IF value[b] <= 50 THEN percentageToDegrees(value[b]) ELSE 1800]
    /\ left' = [b \in Bars |->
          IF value[b] <= 50 THEN left[b] ELSE percentageToDegrees(value[b] - 50)]
    /\ peak' = [b \in Bars |-> IF value[b] > peak[b] /\ value[b] > 50 THEN value[b] ELSE peak[b]]
    /\ last' = [b \in Bars |-> IF value[b] > 0 THEN value[b] ELSE last[b]]
    /\ UNCHANGED <<text, value, border>>

Next == redrawProgressBars \/ \E b \in Bars, p \in Percentages : fillPercentage(b, p)

Spec == Init /\ [][Next]_vars
-----------------------------------------------------------------------------
\* Two halves of one bar always agree with each other and with the number.
TypeOK ==
    /\ \A b \in Bars : text[b] = value[b] /\ value[b] \in Percentages
    /\ \A b \in Bars, h \in Halves : border[b][h] \subseteq Borders
    /\ \A b \in Bars : right[b] \in 0..1800 /\ left[b] \in 0..1800

\* Whatever was filled and drawn before, both halves wear one colour, that of
\* the number shown.
OneColour ==
    \A b \in Bars : border[b].p1 = border[b].p2 /\ Cardinality(border[b].p1) <= 1
                    /\ (border[b].p1 # {} => border[b].p1 = {Colour(text[b])})

\* After a redraw, the arc that the halves show is the value, as long as the
\* bar has never been drawn above 50 before and is not 0; nothing else moves it.
ArcIsTheLastValue ==
    \A b \in Bars : peak[b] \in {0, last[b]} => right[b] + left[b] = percentageToDegrees(last[b])

\* A bar that has grown past the half and fallen back shows too much, never
\* too little: the left half keeps the turn of some value drawn before.
NeverTooLittle ==
    \A b \in Bars : /\ right[b] + left[b] >= percentageToDegrees(last[b])
                    /\ left[b] <= percentageToDegrees(peak[b])

\* Number, colour and arc of a bar agree as far as the code lets them.
BarsShowTheirValue == TypeOK /\ OneColour /\ ArcIsTheLastValue /\ NeverTooLittle
=============================================================================
