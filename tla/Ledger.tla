------------------------------- MODULE Ledger -------------------------------
(***************************************************************************)
(* What the canonical store promises: a serial history.  One step appends  *)
(* one numbered event, spends the idempotency keys of its writer and       *)
(* advances the version of every aggregate the event writes.               *)
(***************************************************************************)
EXTENDS Naturals

CONSTANTS
    Writers, Aggregates,
    Writes,     \* aggregates each writer changes
    Spends      \* idempotency keys each writer uses up

VARIABLES
    history,    \* the writer of each event number
    spent,      \* keys with a stored result
    version     \* the version of each aggregate

vars == <<history, spent, version>>

Last == CHOOSE n \in DOMAIN history \cup {0} : \A m \in DOMAIN history : m <= n

Init ==
    /\ history = << >>
    /\ spent = {}
    /\ version = [a \in Aggregates |-> 0]

Write(w) ==
    /\ Spends[w] \cap spent = {}
    /\ spent' = spent \cup Spends[w]
    /\ history' = [n \in DOMAIN history \cup {Last + 1} |->
                       IF n = Last + 1 THEN w ELSE history[n]]
    /\ version' = [a \in Aggregates |->
                       IF a \in Writes[w] THEN version[a] + 1 ELSE version[a]]

Next == \E w \in Writers : Write(w)

Spec == Init /\ [][Next]_vars
=============================================================================
