------------------------------- MODULE Rounding -------------------------------
(***************************************************************************)
(* Python's round(), for the rates of a comparison and the scores of a     *)
(* run.  Values are whole numbers of the last digit that is kept.          *)
(***************************************************************************)
EXTENDS Integers

\* whole / n rounded to the nearest integer, halves to even.
Rounded(whole, n) ==
  LET low == whole \div n
      twice == 2 * (whole % n)
  IN  IF twice > n \/ (twice = n /\ low % 2 = 1) THEN low + 1 ELSE low

===============================================================================
