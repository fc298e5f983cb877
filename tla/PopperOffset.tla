---------------------------- MODULE PopperOffset ----------------------------
(***************************************************************************)
(* The offset option of Popper.js (bootstrap.bundle.js): an expression     *)
(* such as "10 - -5vh, 3%".  The code splits the text at its signs first,  *)
(* and at the divider later, and has to find out which signs belong to a   *)
(* number.  Here an expression is written from the left to the right, with *)
(* what its author means by it, and the code reads it as a whole.          *)
(*                                                                         *)
(* Pixels are counted in hundredths.                                       *)
(***************************************************************************)
EXTENDS Integers, Sequences, SequencesExt

CONSTANTS
    Terms,            \* numbers with their units
    Measures,         \* width and height of "reference", "popper", "window"
    MaxTokens         \* bound on the length of an expression

Units == {"px", "%", "%r", "%p", "vh", "vw"}

\* What is assumed of the constants.
ConstantsAssumption ==
    /\ Terms \subseteq [value : Nat, unit : Units]
    /\ Measures \in [{"reference", "popper", "window"} -> [width : Nat, height : Nat]]
    /\ MaxTokens \in Nat

VARIABLES
    text,             \* the expression: terms, signs and a divider
    basePlacement,    \* "top" or "bottom", "left" or "right"
    meant,            \* what the author means: the sum of each axis ...
    axis,             \* ... the axis the author is at ...
    factor,           \* ... what the next term counts: 1, or -1 after a minus ...
    last              \* ... and what has been written last

vars == <<text, basePlacement, meant, axis, factor, last>>

Empty == [value |-> 0, unit |-> ""]

\* A piece of text without a divider: a sign, a number, or a number with its sign.
Piece(sign, term) == [sign |-> sign, term |-> term]
Signs == {"+", "-"}
IsSign(piece) == piece.sign \in Signs /\ piece.term = Empty
-----------------------------------------------------------------------------
(* Popper.js.                                                              *)

Scale(unit, measurement) ==
    CASE unit = "%p" -> Measures["popper"][measurement]
      [] unit \in {"%", "%r"} -> Measures["reference"][measurement]
      [] unit = "vh" -> Measures["window"].height
      [] unit = "vw" -> Measures["window"].width
      [] unit \in {"px", ""} -> 100

\* Mutant of toValue: percentages are always of the reference.
toValueOfReference(piece, measurement) ==
    LET signed == IF piece.sign = "-" THEN -piece.term.value ELSE piece.term.value
    IN  signed * (IF piece.term.unit = "%p" THEN Scale("%r", measurement)
                  ELSE Scale(piece.term.unit, measurement))

\* What a piece adds: no number, and zero with any unit, stays text and adds nothing.
toValue(piece, measurement) ==
    LET signed == IF piece.sign = "-" THEN -piece.term.value ELSE piece.term.value
    IN  signed * Scale(piece.term.unit, measurement)

\* The text read so far, split at its signs and every fragment at its divider: one token more.
Split(frags, token) ==
    CASE token.kind = "sign" ->
            frags \o <<<<Piece(token.sign, Empty)>>, <<Piece("", Empty)>>>>
      [] token.kind = "divider" ->
            ReplaceAt(frags, Len(frags), Append(Last(frags), Piece("", Empty)))
      [] token.kind = "term" ->
            ReplaceAt(frags, Len(frags), Append(Front(Last(frags)), Piece("", token.term)))

fragments(tokens) ==
    LET frags[k \in 0..Len(tokens)] ==
            IF k = 0 THEN <<<<Piece("", Empty)>>>> ELSE Split(frags[k - 1], tokens[k])
    IN  frags[Len(tokens)]

\* One or two lists of pieces: those before the divider and those after it.
ops(tokens) ==
    LET frags == fragments(tokens)
        dividers == {k \in DOMAIN frags : Len(frags[k]) = 2}
        heads == [k \in DOMAIN frags |-> Head(frags[k])]
        divider == CHOOSE k \in dividers : TRUE
    IN  IF dividers = {} THEN <<heads>>
        ELSE <<SubSeq(heads, 1, divider),
               <<frags[divider][2]>> \o SubSeq(heads, divider + 1, Len(heads))>>

\* Mutant of aggregate: signs stay apart from their numbers.
aggregateNot(op) == op

\* A sign after nothing is the sign of the piece that follows.
Merge(acc, piece) ==
    IF acc.a # <<>> /\ Last(acc.a) = Piece("", Empty) /\ IsSign(piece)
    THEN [a |-> Append(Front(acc.a), piece), mergeWithPrevious |-> TRUE]
    ELSE IF acc.mergeWithPrevious
    THEN [a |-> Append(Front(acc.a), Piece(Last(acc.a).sign, piece.term)),
          mergeWithPrevious |-> FALSE]
    ELSE [acc EXCEPT !.a = Append(@, piece)]

aggregate(op) ==
    LET acc[k \in 0..Len(op)] ==
            IF k = 0 THEN [a |-> <<>>, mergeWithPrevious |-> FALSE] ELSE Merge(acc[k - 1], op[k])
    IN  acc[Len(op)].a

\* The numbers with the operators before them.
SumOf(op, measurement) ==
    LET sum[k \in 0..Len(op)] ==
            IF k = 0 THEN 0
            ELSE sum[k - 1] + toValue(op[k], measurement)
                     * (IF k > 1 /\ op[k - 1] = Piece("-", Empty) THEN -1 ELSE 1)
    IN  sum[Len(op)]

\* The first offset is along the side of the reference, the second across.
parseOffset(tokens, base) ==
    LET useHeight == base \in {"left", "right"}
        Measurement(index) == IF (index = 1) = useHeight THEN "height" ELSE "width"
        lists == ops(tokens)
    IN  [index \in 1..2 |-> IF index \in DOMAIN lists
                            THEN SumOf(aggregate(lists[index]), Measurement(index)) ELSE 0]
-----------------------------------------------------------------------------
(* The author.                                                             *)

Init ==
    /\ text = <<>>
    /\ basePlacement \in {"top", "left"}
    /\ meant = <<0, 0>>
    /\ axis = 1
    /\ factor = 1
    /\ last = "divider"

Write(token) ==
    /\ Len(text) < MaxTokens
    /\ text' = Append(text, token)
    /\ UNCHANGED basePlacement

\* A number in its unit; percentages are of the size along the axis.
WriteTerm(term) ==
    /\ last # "term"
    /\ Write([kind |-> "term", term |-> term])
    /\ LET along == IF (basePlacement = "left") = (axis = 1) THEN "height" ELSE "width"
       IN  meant' = [meant EXCEPT ![axis] = @ + factor * term.value * Scale(term.unit, along)]
    /\ factor' = 1
    /\ last' = "term"
    /\ UNCHANGED axis

\* An operator between two numbers, or the sign of the next number.
WriteSign(sign) ==
    /\ last \in {"term", "operator", "divider"}
    /\ Len(text) + 1 < MaxTokens
    /\ Write([kind |-> "sign", sign |-> sign])
    /\ factor' = IF sign = "-" THEN -factor ELSE factor
    /\ last' = IF last = "term" THEN "operator" ELSE "sign"
    /\ UNCHANGED <<meant, axis>>

\* A comma; or white space, which has to be followed by a number without sign.
WriteDivider(comma) ==
    /\ last = "term" /\ axis = 1
    /\ Len(text) + 1 < MaxTokens
    /\ Write([kind |-> "divider"])
    /\ axis' = 2
    /\ last' = IF comma THEN "divider" ELSE "space"
    /\ UNCHANGED <<meant, factor>>

Next ==
    \/ \E term \in Terms : WriteTerm(term)
    \/ \E sign \in Signs : WriteSign(sign)
    \/ \E comma \in BOOLEAN : WriteDivider(comma)

Spec == Init /\ [][Next]_vars
-----------------------------------------------------------------------------
\* What parseOffset makes of a complete expression is what its author means:
\* no sign is lost, or taken for that of another number, no axis for the other.
ReadAsMeant == last = "term" => parseOffset(text, basePlacement) = meant

\* What the pieces of an axis are when the signs are merged: numbers with an
\* operator between each two (the comment "10 + +5 => [10, +, +5]",
\* bootstrap.bundle.js:3265).
OperatorsBetweenNumbers ==
    last = "term" =>
        \A pieces \in ToSet(ops(text)) : LET op == aggregate(pieces) IN
            /\ Len(op) % 2 = 1
            /\ \A k \in DOMAIN op : IF k % 2 = 0 THEN IsSign(op[k]) ELSE op[k].term # Empty
=============================================================================
