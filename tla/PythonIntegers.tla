--------------------------- MODULE PythonIntegers ---------------------------
(***************************************************************************)
(* The operators of Python's unbounded integers that TLA+ does not have:   *)
(* the bitwise and, which the emulator and the Forth service use, and the  *)
(* division of the Forth service, which rounds towards minus infinity.     *)
(***************************************************************************)
EXTENDS Integers

\* Python's & on integers of any size: two's complement without a width
bitAnd[p \in Int \X Int] ==
  LET x == p[1]  y == p[2] IN
  CASE x = 0 \/ y = 0 -> 0
    [] x = -1         -> y
    [] y = -1         -> x
    [] OTHER          -> (x % 2) * (y % 2) + 2 * bitAnd[<<x \div 2, y \div 2>>]

\* mutant: Python's `and` in place of its &
LogicalAnd(x, y) == IF x = 0 THEN 0 ELSE y

\* The test says that the result is an integer, which needs induction to prove.
BitAnd(x, y) == LET r == bitAnd[<<x, y>>] IN IF r \in Int THEN r ELSE 0

\* the divisor is not 0
FloorDiv(x, y) == IF y > 0 THEN x \div y ELSE (-x) \div (-y)
FloorMod(x, y) == x - y * FloorDiv(x, y)

=============================================================================
