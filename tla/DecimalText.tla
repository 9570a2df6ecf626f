----------------------------- MODULE DecimalText -----------------------------
(***************************************************************************)
(* The two conversions of Python between an int and its decimal text, as   *)
(* sentinel/store.py uses them: sequence numbers are stored as str(n) in a *)
(* TEXT column (to escape SQLite's signed 64-bit integers) and read back   *)
(* with int(...).  A text is the sequence of its digits.  Both are         *)
(* recursive functions, so that modules with proofs may use them.          *)
(***************************************************************************)
EXTENDS Integers, Sequences

Text == Seq(0..9)

Str[n \in Nat] ==
    IF n < 10 THEN <<n>> ELSE Append(Str[n \div 10], n % 10)

IntOf[t \in Text] ==
    IF t = <<>> THEN 0
    ELSE 10 * IntOf[SubSeq(t, 1, Len(t) - 1)] + t[Len(t)]

(***************************************************************************)
(* The order SQLite's TEXT affinity gives two decimal texts: character by  *)
(* character, a proper prefix first.  The code never compares sequences so *)
(* (a mutant of StateStore does: "9" is then newer than "10").             *)
(***************************************************************************)
TextLess(s, t) ==
    \E i \in 1..(Len(s) + 1) :
        /\ i - 1 <= Len(t)
        /\ \A j \in 1..(i - 1) : s[j] = t[j]
        /\ \/ i > Len(s) /\ i <= Len(t)
           \/ i <= Len(s) /\ i <= Len(t) /\ s[i] < t[i]
=============================================================================
