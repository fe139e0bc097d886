---------------------------- MODULE SharedKernel ----------------------------
(***************************************************************************)
(* The value objects every service and the web pages share: money in       *)
(* integer minor units, quantities, business references, GLNs, and the     *)
(* amounts and counts an operator types.  Pure.                            *)
(*                                                                         *)
(* A function of the code that throws returns the invalid value here, and  *)
(* an operation on an invalid value is invalid.                            *)
(***************************************************************************)
EXTENDS Integers, Sequences, FiniteSets, SequencesExt

CONSTANTS
  MAX_SAFE_INTEGER,   \* Number.MAX_SAFE_INTEGER
  MAX_SEQUENCE,       \* the largest number SEQUENCE_WIDTH digits hold
  Exponent            \* currency code -> ISO 4217 minor-unit exponent

NoCurrency == ""     \* the code of no currency: no Money carries it

ASSUME KernelAssumption ==
  /\ MAX_SAFE_INTEGER \in Nat \ {0}
  /\ MAX_SEQUENCE \in Nat \ {0}
  /\ Exponent \in [DOMAIN Exponent -> 0..4]
  /\ NoCurrency \notin DOMAIN Exponent

Currency == DOMAIN Exponent

isSafeInteger(n) == n \in -MAX_SAFE_INTEGER..MAX_SAFE_INTEGER

-----------------------------------------------------------------------------
(* Money.                                                                  *)

Money == [amount : -MAX_SAFE_INTEGER..MAX_SAFE_INTEGER, currency : Currency]
InvalidMoney == [amount |-> 0, currency |-> NoCurrency]

money(n, currency) ==
  IF isSafeInteger(n) /\ currency \in Currency
  THEN [amount |-> n, currency |-> currency] ELSE InvalidMoney

zero(currency) == money(0, currency)

sameCurrency(a, b) == a # InvalidMoney /\ a.currency = b.currency

add(a, b) ==
  IF sameCurrency(a, b) THEN money(a.amount + b.amount, a.currency) ELSE InvalidMoney

subtract(a, b) ==
  IF sameCurrency(a, b) THEN money(a.amount - b.amount, a.currency) ELSE InvalidMoney

multiply(a, quantity) ==
  IF a # InvalidMoney THEN money(a.amount * quantity, a.currency) ELSE InvalidMoney

isNegative(a) == a.amount < 0

-----------------------------------------------------------------------------
(* Quantities, business references, GLNs.                                  *)

isQuantity(n) == n > 0

(* PREFIX-######: a number that no longer fits the width has no reference. *)
fitsReference(sequence) == sequence \in 1..MAX_SEQUENCE

(* GS1: the digits from the right weigh 3, 1, 3, 1, ...                    *)
computeCheckDigit(body) ==
  LET weighted == [i \in DOMAIN body |->
                     body[i] * (IF (Len(body) - i) % 2 = 0 THEN 3 ELSE 1)]
  IN (10 - (FoldLeft(LAMBDA sum, d : sum + d, 0, weighted) % 10)) % 10

isGln(digits) ==
  Len(digits) = 13 /\ digits[13] = computeCheckDigit(SubSeq(digits, 1, 12))

-----------------------------------------------------------------------------
(* What is typed into a box: nothing, digits with or without a point and   *)
(* more digits, or anything else.                                          *)

Blank == [shape |-> "blank"]
Garbled == [shape |-> "garbled"]
Typed(whole, fraction) == [shape |-> "digits", whole |-> whole, fraction |-> fraction]

wholeNumber(text) ==
  text.shape = "digits" /\ text.fraction = <<>> /\ isSafeInteger(text.whole)

wholeNumberProblem(text, min) == ~(wholeNumber(text) /\ text.whole >= min)

(* The fraction's digits are padded to the currency's exponent and the     *)
(* whole read as one integer; NotTyped for a text that is no such amount.  *)
NotTyped == -1

decimalStringToMinorUnits(text, currency) ==
  LET digits == text.fraction \o [i \in 1..(Exponent[currency] - Len(text.fraction)) |-> 0]
      minorUnits == FoldLeft(LAMBDA n, d : 10 * n + d, text.whole, digits)
  IN IF /\ text.shape = "digits"
        /\ Len(text.fraction) <= Exponent[currency]
        /\ isSafeInteger(minorUnits)
     THEN minorUnits ELSE NotTyped

optionalAmountProblem(text, currency) ==
  text # Blank /\ decimalStringToMinorUnits(text, currency) = NotTyped

=============================================================================
