------------------------------- MODULE MCUpkeep -------------------------------
(* Model values for the components that share no row. *)
EXTENDS Upkeep, TLC

\* ann and bob are at the mill, cyd at the inn; the lamp is ann's.
MCCharacters == <<"ann", "bob", "cyd">>
MCHome == [ann |-> "mill", bob |-> "mill", cyd |-> "inn"]
MCItems == [lamp |-> "ann"]

Claim(by, text, refutes, audience) ==
  [kind |-> "claim", who |-> by, text |-> text, refutes |-> refutes, audience |-> audience]
Evidence(by, target, delta) ==
  [kind |-> "evidence", who |-> by, target |-> target, delta |-> delta]
Give(kind) == [kind |-> kind, who |-> "ann", target |-> "bob", item |-> "lamp"]
MCWishes == {Claim("cyd", "wolves", 0, "all"), Claim("bob", "calm", 1, "mill"),
             Evidence("ann", "bob", 60), Evidence("ann", "bob", -50), Give("transfer")}
MCVerbs == <<Claim("ann", "wolves", 0, "mill"), Give("handover"), Claim("bob", "calm", 0, "mill")>>

MCStrength == [ann |-> 3]
MCSeverity == [pox |-> 2, flux |-> 1]
MCScope == [pox |-> {"mill"}, flux |-> {"mill"}]

MCTies == {<<"ann", "bob">>, <<"bob", "ann">>}
MCAttempts == {[author |-> "ann", told |-> "bob"], [author |-> "cyd", told |-> "no"]}

MCShipped == [p \in Presets |-> "old"]

\* One period of two phases and detailed ones up to 3; ann is to die in phase 1,
\* a raid comes in phase 2; peace takes two phases, the last day begins with 3.
MCFallsDue == [death |-> 1, raid |-> 2]
MCVictim == [death |-> "ann", raid |-> "no"]
MCMajor == [death |-> FALSE, raid |-> TRUE]
MCPeriods == {[start |-> 0, end |-> 2]}
MCSpans == {[start |-> 1, end |-> 3]}
===============================================================================
