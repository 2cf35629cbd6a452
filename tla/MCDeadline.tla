----------------------------- MODULE MCDeadline -----------------------------
(* An instance for TLC: clock readings and timeouts at the boundaries of the *)
(* carry.  TLC's integers have 32 bits, so everything stays below 2.1 s.     *)
EXTENDS USemDeadline

At(s, n) == [sec |-> s, nsec |-> n]
MCReadings == {At(0, 0), At(0, 500000000), At(0, 999999999), At(2, 100)}
MCTimeouts == {0, 1, 500000, 1500000}
=============================================================================
