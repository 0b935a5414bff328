------------------------------ MODULE Numerals ------------------------------
(***************************************************************************)
(* Numbers as sequences of digits to a base, the most significant first:   *)
(* what htonl() and ntohl() make of the size of a message, and Botan and   *)
(* Base58 of a key.                                                        *)
(***************************************************************************)
EXTENDS Integers, Sequences

Power(base, n) == LET power[i \in Nat] == IF i = 0 THEN 1 ELSE base * power[i - 1] IN power[n]

\* The number that digits stand for.
Value(digits, base) ==
  LET value[i \in 0..Len(digits)] == IF i = 0 THEN 0 ELSE value[i - 1] * base + digits[i] IN value[Len(digits)]

\* A number in a fixed count of digits.
Numeral(n, base, count) == [i \in 1..count |-> (n \div Power(base, count - i)) % base]

\* How many digits a number has without leading zeros.
DigitCount(n, base) ==
  CHOOSE count \in 0..n : n < Power(base, count) /\ \A fewer \in 0..count - 1 : Power(base, fewer) <= n
=============================================================================
