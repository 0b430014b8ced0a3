------------------------------ MODULE MCReadDir ------------------------------
(* ReadDir with so many promises that the names, as strings, are not in the   *)
(* order of the commits: "promise-1" "promise-10" "promise-11" "promise-2" ... *)
EXTENDS ReadDir

\* The order of the decimal numerals of numbers below 100.
Key(n) == IF n < 10 THEN 20 * n ELSE 2 * n + 1
MCBefore(m, n) == Key(m) < Key(n)
=============================================================================
