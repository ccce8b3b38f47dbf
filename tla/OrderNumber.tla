----------------------------- MODULE OrderNumber -----------------------------
(***************************************************************************)
(* internal/security/order_validtion.go, OrderNumValidation, which domain  *)
(* .NewOrderNumber and the upload and withdrawal handlers call.  A number  *)
(* is a sequence of digits; NonDigit stands for any other byte.            *)
(***************************************************************************)
EXTENDS Integers, SequencesExt, FiniteSetsExt

NonDigit == -1
Digits   == 0..9

Doubled(d) == IF 2 * d > 9 THEN 2 * d - 9 ELSE 2 * d

\* The loop from the last digit to the first: every second digit is doubled.
Step(d, acc) ==
  [sum |-> acc.sum + (IF acc.double THEN Doubled(d) ELSE d), double |-> ~acc.double]
OrderNumValidation(number) ==
  /\ number # <<>>
  /\ \A i \in DOMAIN number : number[i] # NonDigit
  /\ FoldRight(Step, number, [sum |-> 0, double |-> FALSE]).sum % 10 = 0

-----------------------------------------------------------------------------
(* Luhn's algorithm as it is usually stated: the digits in the even places *)
(* from the right count for the sum of the digits of their double, and the *)
(* last digit makes the total a multiple of ten.                           *)

DigitSum(k) == (k \div 10) + (k % 10)
Weight(number, i) ==
  IF (Len(number) - i) % 2 = 1 THEN DigitSum(2 * number[i]) ELSE number[i]
CheckDigit(payload) ==
  LET padded == Append(payload, 0)
  IN  (10 - (MapThenSumSet(LAMBDA i : Weight(padded, i), DOMAIN padded) % 10)) % 10
Luhn(number) ==
  /\ Len(number) > 0
  /\ \A i \in DOMAIN number : number[i] \in Digits
  /\ Last(number) = CheckDigit(Front(number))
=============================================================================
