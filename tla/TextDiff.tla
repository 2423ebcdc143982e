------------------------------ MODULE TextDiff ------------------------------
(***************************************************************************)
(* The line diff of two values (KeyDiffView's computeDiff): a table of the *)
(* longest common subsequences of the prefixes, and a walk from its last   *)
(* corner that turns each step into a line of the two panels.              *)
(***************************************************************************)
EXTENDS SequencesExt, Lists

CONSTANTS
  Lines,     \* lines of text
  MaxLines   \* bound: lines of a value

ASSUME MaxLinesAssumption == MaxLines \in Nat

VARIABLES
  leftText, rightText,  \* the lines of the two values
  atLeft, atRight,      \* how many of their lines the walk has still to show
  ops                   \* the lines of the panels so far

textPart == <<leftText, rightText, atLeft, atRight, ops>>

Texts == BoundedSeq(Lines, MaxLines) \ {<<>>}
Ops == [type : {"same", "left-only", "right-only"}, text : Lines]

TextTypeOK ==
  /\ {leftText, rightText} \subseteq BoundedSeq(Lines, MaxLines) /\ ops \in Seq(Ops)
  /\ atLeft \in 0 .. Len(leftText) /\ atRight \in 0 .. Len(rightText)

(* The table.                                                               *)
dp ==
  LET t[c \in (0 .. Len(leftText)) \X (0 .. Len(rightText))] ==
        LET x == c[1]  y == c[2]
        IN  IF x = 0 \/ y = 0 THEN 0
            ELSE IF leftText[x] = rightText[y] THEN t[<<x - 1, y - 1>>] + 1
            ELSE Max({t[<<x - 1, y>>], t[<<x, y - 1>>]})
  IN t

-----------------------------------------------------------------------------
(* Nothing has been compared.                                               *)
TextInit == leftText = <<>> /\ rightText = <<>> /\ atLeft = 0 /\ atRight = 0 /\ ops = <<>>

Walked == atLeft = 0 /\ atRight = 0

Step(type, text) ==
  /\ ops' = <<[type |-> type, text |-> text]>> \o ops
  /\ UNCHANGED <<leftText, rightText>>

AtSameLine == atLeft > 0 /\ atRight > 0 /\ leftText[atLeft] = rightText[atRight]

StepSame ==
  /\ AtSameLine /\ Step("same", leftText[atLeft])
  /\ atLeft' = atLeft - 1 /\ atRight' = atRight - 1

GoesRight_TheShorterWay ==
  atRight > 0 /\ (atLeft > 0 => dp[<<atLeft, atRight - 1>>] <= dp[<<atLeft - 1, atRight>>])
GoesRight ==
  atRight > 0 /\ (atLeft > 0 => dp[<<atLeft, atRight - 1>>] >= dp[<<atLeft - 1, atRight>>])

StepRight ==
  /\ ~AtSameLine /\ GoesRight /\ Step("right-only", rightText[atRight])
  /\ atRight' = atRight - 1 /\ UNCHANGED atLeft

StepLeft ==
  /\ ~AtSameLine /\ ~GoesRight /\ atLeft > 0 /\ Step("left-only", leftText[atLeft])
  /\ atLeft' = atLeft - 1 /\ UNCHANGED atRight

(* The next two values are compared.                                        *)
NextTexts ==
  /\ Walked
  /\ leftText' \in Texts /\ rightText' \in Texts
  /\ atLeft' = Len(leftText') /\ atRight' = Len(rightText') /\ ops' = <<>>

TextNext == StepSame \/ StepRight \/ StepLeft \/ NextTexts

TextSpec == TextInit /\ [][TextNext]_textPart

-----------------------------------------------------------------------------
(* The lines of some of the types.                                          *)
OfType(types) == Filtered(ops, [type : types, text : Lines])

(* The lines of a panel that are not placeholders.                          *)
Panel(side) == LET lines == OfType({"same", side})
               IN [n \in DOMAIN lines |-> lines[n].text]

(* The ways to pair lines of the two values that are equal, in order.       *)
Pairs == {p \in (1 .. Len(leftText)) \X (1 .. Len(rightText)) : leftText[p[1]] = rightText[p[2]]}
Pairings == {P \in SUBSET Pairs : \A p, q \in P : p[1] < q[1] <=> p[2] < q[2]}

(* The panels show both values whole, and no other pairing of their lines   *)
(* in order leaves more of them the same.                                   *)
DiffIsLongest ==
  /\ Panel("left-only") = SubSeq(leftText, atLeft + 1, Len(leftText))
  /\ Panel("right-only") = SubSeq(rightText, atRight + 1, Len(rightText))
  /\ Walked => \A P \in Pairings : Cardinality(P) <= Len(OfType({"same"}))
=============================================================================
