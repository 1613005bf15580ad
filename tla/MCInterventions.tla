--------------------------- MODULE MCInterventions ---------------------------
(* Model values for the intervention queue. *)
EXTENDS Interventions, TLC

CONSTANTS wren, home, market, harbour, p1, p2

Step(kind) == [kind |-> kind, actor |-> wren, to |-> home]
Leg(to) == [kind |-> "travel", actor |-> wren, to |-> to]

MCActors == {wren}
MCCalls == {p1, p2}
MCOneCall == {p1}
MCItems == 1..2
MCOneItem == {1}
MCPlaces == {home, market, harbour}
MCRoads == {<<home, market>>, <<market, harbour>>}
MCPlans == {<<Leg(market), Leg(harbour)>>, <<Step("attempt"), Step("hook")>>,
            <<Step("override"), Step("condition")>>, <<Step("attempt"), Step("attempt")>>}
MCAttempt == {<<Step("attempt"), Step("hook")>>}
=============================================================================
