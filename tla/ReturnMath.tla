----------------------------- MODULE ReturnMath ------------------------------
(***************************************************************************)
(* order/return-math.ts: what a customer return is worth and how it is     *)
(* settled.  Money is a whole number of coins (tiyin); the code's floats,  *)
(* rounded to two decimals, are taken as exact.  A receipt is its lines    *)
(* (the quantity sold and the line's total) and the total after the        *)
(* discount on the whole of it.                                            *)
(***************************************************************************)
EXTENDS Integers, Functions

CONSTANT Unit    \* coins in one so'm, the unit of points: 100 in the code

ASSUME UnitAssumption == Unit \in Nat \ {0}

\* Math.round of a * b / c, in coins and in whole so'm.
Rounded(a, b, c) == (2 * a * b + c) \div (2 * c)
Whole(a, b, c) == Unit * Rounded(a, b, c * Unit)

Subtotal(basket) == SumFunction(basket.worth)

\* Everything that was still on the receipt comes back.
IsFinal(basket, back, req) ==
  \A l \in DOMAIN basket.sold : back[l] + req[l] >= basket.sold[l]

\* A line by its share of the quantity; finishing it takes the exact rest.
LineWorth(basket, back, backWorth, req, l) ==
  IF back[l] + req[l] >= basket.sold[l]
    THEN IF req[l] = 0 THEN 0 ELSE basket.worth[l] - backWorth[l]
    ELSE Rounded(basket.worth[l], req[l], basket.sold[l])

\* What the lines that come back are worth, net of the discount on the whole.
LineNet(basket, total, back, backWorth, req) ==
  [l \in DOMAIN basket.sold |->
     Rounded(LineWorth(basket, back, backWorth, req, l), total, Subtotal(basket))]

\* Mutant: the last return does not absorb the rounding of the ones before.
LinesOnly(basket, total, back, backWorth, returned, req) ==
  SumFunction(LineNet(basket, total, back, backWorth, req))

\* The last return takes what is left of the total; none is worth less than nothing.
ReturnTotal(basket, total, back, backWorth, returned, req) ==
  LET value == IF IsFinal(basket, back, req) THEN total - returned
               ELSE SumFunction(LineNet(basket, total, back, backWorth, req))
  IN  IF value > 0 THEN value ELSE 0

\* Mutant: the unpaid debt is left for the customer to pay.
MoneyAtOnce(total, debtLeft, pointsLeft) ==
  LET points == IF pointsLeft <= total THEN pointsLeft ELSE total
  IN  [debt |-> 0, points |-> points, refund |-> total - points]

\* The waterfall: the unpaid debt shrinks, then points come back, then money.
Settlement(total, debtLeft, pointsLeft) ==
  LET debt == IF debtLeft <= total THEN debtLeft ELSE total
      points == IF pointsLeft <= total - debt THEN pointsLeft ELSE total - debt
  IN  [debt |-> debt, points |-> points, refund |-> total - debt - points]

\* Cashback taken back: its share in whole so'm, on the last return all of it.
Reversed(final, earned, earnedLeft, value, total) ==
  IF final THEN earnedLeft
  ELSE LET share == IF total > 0 THEN Whole(earned, value, total) ELSE 0
       IN  IF share <= earnedLeft THEN share ELSE earnedLeft
=============================================================================
