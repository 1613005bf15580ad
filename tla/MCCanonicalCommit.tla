-------------------------- MODULE MCCanonicalCommit --------------------------
(* One world (aggregate 1) and one character (aggregate 2).  r1 and r2 carry  *)
(* the same key with different inputs, r3 another key.                        *)
EXTENDS CanonicalCommit

CONSTANTS r1, r2, r3, fire, ending, k1, k2

TheKeyOf == [r \in Requests |-> IF r = r3 THEN k2 ELSE k1]
TheInputOf == [r \in Requests |-> IF r = r1 THEN "a" ELSE "b"]

\* r1 and r2 advance the clock and validate the character; r3 changes the
\* character and validates the world; the applier kills the character.
TheWrites == [w \in Writers |-> IF w \in {r1, r2, ending} THEN {1} ELSE {2}]
TheReads == [r \in Requests |-> IF r = r3 THEN {1} ELSE {2}]
=============================================================================
