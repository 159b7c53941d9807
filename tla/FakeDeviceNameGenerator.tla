----------------------- MODULE FakeDeviceNameGenerator -----------------------
(***************************************************************************)
(* The invented device names of the debug mode.  A name is its place in    *)
(* fixedNames(), which orders them; the lists keep that order and are sets.  *)
(* The random generator makes every choice it can, whatever its seed.      *)
(***************************************************************************)
EXTENDS Naturals

CONSTANT FixedNames     \* how many names there are: 26

ASSUME GeneratorAssumption == FixedNames \in Nat \ {0}

fixedNames == 1..FixedNames

\* The names whose bits are set in a random mask, or a single one if none is.
generateSubset == SUBSET fixedNames \ {{}}

\* The lists that can follow a list.
maybeUpdateNames(names, keepPercent) ==
    LET kept == IF names # {} /\ keepPercent > 0 THEN {names} ELSE {}
        replaced == IF names = {} \/ keepPercent < 100 THEN generateSubset ELSE {}
    IN kept \cup replaced
=============================================================================
