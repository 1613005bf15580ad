---------------------------- MODULE MCSceneTail ----------------------------
(* Small tables, one founder and the narrations of two scenes.            *)
EXTENDS SceneTail, TLC

D(n, sides, mod) == [n |-> n, sides |-> sides, mod |-> mod]

MCWeapons ==
    <<[index |-> <<"mace">>, ranged |-> FALSE, finesse |-> FALSE, dice |-> D(1, 6, 0)],
      [index |-> <<"rapier">>, ranged |-> FALSE, finesse |-> TRUE, dice |-> D(1, 8, 0)]>>
Spell(name, level, dice, scale, heal, byCaster, attack, save, half) ==
    [index |-> <<name>>, level |-> level, dice |-> dice, scale |-> scale, heal |-> heal,
     byCaster |-> byCaster, attack |-> attack, save |-> save, half |-> half]
MCSpells ==
    <<Spell("flame", 0, D(1, 8, 0), <<D(1, 8, 0), D(1, 8, 0), D(2, 8, 0)>>, NoDice, FALSE, FALSE, "dex", FALSE),
      Spell("cure", 1, NoDice, <<>>, D(1, 8, 0), TRUE, FALSE, "", FALSE),
      Spell("bolt", 1, D(2, 4, 0), <<D(2, 4, 0), D(3, 4, 0)>>, NoDice, FALSE, TRUE, "", FALSE),
      Spell("burn", 1, D(3, 6, 0), <<>>, NoDice, FALSE, FALSE, "dex", TRUE),
      Spell("mercy", 1, NoDice, <<>>, Unreadable, FALSE, FALSE, "", FALSE)>>
MCStats(dex) == [[a \in Abilities |-> 10] EXCEPT !["dex"] = dex]
MCMonsters ==
    <<[index |-> <<"goblin">>, ac |-> 12, hp |-> 7, saves |-> [dex |-> 2], stats |-> MCStats(8)],
      [index |-> <<"dire", "wolf">>, ac |-> 14, hp |-> 9, saves |-> [a \in {} |-> 0],
       stats |-> MCStats(15)]>>
Tier(slots, cantrips, known) == [slots |-> slots, cantrips |-> cantrips, known |-> known]
MCClasses ==
    <<[index |-> <<"cleric">>, die |-> 8, ability |-> "wis", saves |-> {"wis", "cha"},
       spells |-> <<<<"flame">>, <<"cure">>, <<"mercy">>>>, tiers |-> <<Tier(<<2>>, 1, -1)>>],
      [index |-> <<"wizard">>, die |-> 6, ability |-> "int", saves |-> {"int", "wis"},
       spells |-> <<<<"bolt">>, <<"burn">>>>, tiers |-> <<Tier(<<2>>, 0, -1)>>],
      [index |-> <<"fighter">>, die |-> 10, ability |-> "", saves |-> {"str", "con"},
       spells |-> <<>>, tiers |-> <<>>]>>
MCRaces == <<[index |-> <<"elf">>, bonus |-> [dex |-> 2]], [index |-> <<"human">>, bonus |-> [str |-> 1]]>>
MCArmors ==
    <<[index |-> <<"chain", "mail">>, base |-> 16, dex |-> FALSE, cap |-> 0],
      [index |-> <<"shield">>, base |-> 2, dex |-> FALSE, cap |-> 0]>>
MCPlurals == [goblins |-> "goblin", wolves |-> "wolf"]
MCPriority ==
    (<<"cleric">> :> <<"wis", "str", "con", "cha", "dex", "int">>) @@
    (<<"wizard">> :> <<"int", "dex", "con", "wis", "cha", "str">>) @@
    (<<"fighter">> :> <<"str", "con", "dex", "wis", "cha", "int">>)
MCKit ==
    (<<"cleric">> :> [weapons |-> <<<<"mace">>>>, armor |-> <<"chain", "mail">>]) @@
    (<<"wizard">> :> [weapons |-> <<<<"quarterstaff">>, <<"rapier">>>>, armor |-> NoName]) @@
    (<<"fighter">> :> [weapons |-> <<<<"mace">>>>, armor |-> <<"chain", "mail">>])

Ada == <<"ada">>
Bo == <<"bo">>
Cy == <<"cy">>
MCFounders == Ada :> [AutoSheet(Ada, <<"human">>, <<"cleric">>, 1) EXCEPT !.hp = 3]
\* Bo's scores are a player's own: at level 3 hit points below nothing, and no weapon.
MCFrail == [name |-> Bo, class |-> <<"wizard">>, level |-> 3,
            stats |-> [a \in Abilities |-> IF a = "con" THEN 1 ELSE 10],
            armor |-> NoName, shield |-> FALSE, baseAC |-> 0, weapons |-> <<>>, spells |-> <<>>]
MCNewcomers == (Bo :> Seated(MCFrail)) @@ (Cy :> AutoSheet(Cy, <<"human">>, <<"fighter">>, 1))

Strike(what, on) == AttackTag(<<what>>, on)
Charm(what, on) == CastTag(<<what>>, 0, on)
Joins(name, words, level) == [name |-> name, desc |-> [words |-> words, level |-> level]]
MCNarrations ==
    {[recruits |-> <<Joins(Bo, <<"an", "elf", "wizard">>, 9)>>,
      tags |-> <<EncounterTag({<<"dire", "wolves">>}),
                 Strike("mace", <<"wolf">>), Charm("bolt", <<"wolf">>), Charm("cure", Ada)>>],
     [recruits |-> <<>>,
      tags |-> <<Charm("flame", <<"goblins">>), Charm("burn", Ada), Charm("mercy", Ada), Strike("axe", Ada),
                 ConditionTag(<<"prone">>, Ada)>>],
     [recruits |-> <<Joins(Bo, <<"a", "friend">>, 0)>>, tags |-> <<>>]}
\* The empty function has TLC compute the table once.
MCCompanion == [tag \in UNION {ToSet(n.recruits) : n \in MCNarrations}, top \in 1..MaxLevel |->
                   RecruitSheet(tag.name, tag.desc, top)] @@ [x \in {} |-> 0]
MCSparring == <<<<>>, <<<<Ada, Bo>>>>>>
MCStreams == {<<19, 0>>, <<15, 7, 11>>}
=============================================================================
