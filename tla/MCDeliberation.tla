--------------------------- MODULE MCDeliberation ---------------------------
(* Model values for the decisions of a phase. *)
EXTENDS Deliberation, TLC

CONSTANTS ada, bo, hall, yard, moor, nobody

MCCharacters == {ada, bo}
MCPlaces == {hall, yard}
MCWhere == [c \in MCCharacters |-> hall]
MCRoutes == {<<hall, yard>>}

Text(family, who, to) == [ok |-> TRUE, error |-> FALSE, family |-> family, who |-> who, to |-> to]

MCStages ==
    <<{<<"director", ada>>}, {<<"character", ada>>, <<"character", bo>>},
      {<<"reaction", ada, bo>>}, {<<"resolver", ada>>}, {<<"narrator", ada>>},
      {<<"summary", ada>>}>>

\* One answer of each kind: lawful, denied by the check, harmful if it passed.
MCReplies ==
    [director |-> {[ok |-> TRUE, action |-> "hook", titled |-> TRUE, powers |-> {},
                    participants |-> {ada}],
                   [ok |-> TRUE, action |-> "hook", titled |-> TRUE, powers |-> {"smite"},
                    participants |-> {ada}]},
     character |-> {Text("communicate", ada, bo), Text("move", ada, moor)},
     reaction |-> {Text("communicate", bo, ada)},
     resolver |-> {[ok |-> TRUE, outcome |-> "partial", effects |-> {[type |-> "adjust", whom |-> bo]}],
                   [ok |-> TRUE, outcome |-> "partial", effects |-> {[type |-> "move", whom |-> hall]}]},
     narrator |-> {[ok |-> TRUE, beats |-> <<[cited |-> {"communicate"}, speaker |-> bo]>>],
                   [ok |-> TRUE, beats |-> <<[cited |-> {"murder"}, speaker |-> nobody]>>]},
     summary |-> {[ok |-> TRUE, cited |-> {"mem"}], [ok |-> TRUE, cited |-> {"rumour"}]}]

MCPlayerActions == {Text("move", bo, yard), Text("move", bo, moor)}
=============================================================================
