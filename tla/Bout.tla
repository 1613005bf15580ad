-------------------------------- MODULE Bout --------------------------------
(***************************************************************************)
(* The dice rules (domain/rules/dnd): derived statistics of a sheet, the   *)
(* companion that a RECRUIT tag builds, and what the combat tags of one    *)
(* narration do to the party and to the monsters.                          *)
(*                                                                         *)
(* The vendored tables are sequences of entries, so that ties fall to the  *)
(* first as in the program.  A name, an index or a text is the sequence of *)
(* its words; a tag is what its parser makes of it.  Dice are records      *)
(* [n, sides, mod]; NoDice stands for a missing expression, Unreadable for *)
(* one that parse_dice refuses ("70", "4d6 + 4d6"), which rolls nothing; a *)
(* random number is a twentieth, 0..19.                                    *)
(***************************************************************************)
EXTENDS Integers, Sequences, SequencesExt, FiniteSets, FiniteSetsExt

CONSTANTS
    Weapons, Spells, Monsters, Classes, Races, Armors,  \* the tables
    Plurals,      \* words that have a singular, with it
    Priority,     \* class -> its abilities, best first
    Kit,          \* class -> its AUTO_WEAPONS and AUTO_ARMOR
    MaxParty      \* MAX_PARTY_SIZE

ASSUME BoutAssumption ==
    /\ MaxParty \in Nat \ {0}
    /\ DOMAIN Priority = DOMAIN Kit

\* No dice of the vendored tables take away, an index names one monster.
Rolls == [n : Nat, sides : Nat, mod : Nat]
ASSUME TablesAssumption ==
    /\ \A w \in ToSet(Weapons) : w.dice \in Rolls
    /\ \A s \in ToSet(Spells) :
          /\ "dice" \in DOMAIN s /\ s.dice \in Rolls /\ s.heal \in Rolls
          /\ s.scale \in Seq(Rolls)
    /\ \A m \in ToSet(Monsters) : m.hp \in Nat
    /\ \A m, o \in ToSet(Monsters) : m.index = o.index => m = o

Abilities == {"str", "dex", "con", "int", "wis", "cha"}
StatArray == <<15, 14, 13, 12, 10, 8>>
NoDice == [n |-> 0, sides |-> 1, mod |-> 0]
Unreadable == [n |-> 0, sides |-> 0, mod |-> 0]
NoName == <<>>
Missing == [index |-> NoName]

Greater(a, b) == IF a > b THEN a ELSE b
Lesser(a, b) == IF a < b THEN a ELSE b
\* Op of v, with v computed once.
Given(v, Op(_)) == CHOOSE r \in {Op(x) : x \in {v}} : TRUE
\* f, and g where f has nothing.
Over(f, g) == [x \in DOMAIN f \union DOMAIN g |-> IF x \in DOMAIN f THEN f[x] ELSE g[x]]
\* A stable sort, best score first.
Ranked(s, Score(_)) ==
    LET Before(i, j) == Score(s[i]) > Score(s[j]) \/ (Score(s[i]) = Score(s[j]) /\ i < j)
        order == SetToSortSeq(DOMAIN s, Before)
    IN [i \in DOMAIN order |-> s[order[i]]]

-----------------------------------------------------------------------------
(* Tables. *)

Entry(table, index) ==
    IF \E e \in ToSet(table) : e.index = index
    THEN CHOOSE e \in ToSet(table) : e.index = index ELSE Missing

Singular(words) ==
    IF words # <<>> /\ Last(words) \in DOMAIN Plurals
    THEN Append(Front(words), Plurals[Last(words)]) ELSE words

Within(s, t) == s \in SubSeqs(t)

\* The exact name, in the plural or not, else the shortest name that holds
\* the query or is held by it.
FindEntry(table, words) ==
    LET cands == <<words, Singular(words)>>
        exact == SelectSeq(cands, LAMBDA c : Entry(table, c) # Missing)
        alike == {i \in DOMAIN table : \E c \in ToSet(cands) :
                    Within(c, table[i].index) \/ Within(table[i].index, c)}
        shortest == {i \in alike : \A j \in alike : Len(table[i].index) <= Len(table[j].index)}
    IN CASE words = NoName \/ alike = {} -> Missing
         [] words # NoName /\ exact # <<>> -> Entry(table, Head(exact))
         [] OTHER -> table[Min(shortest)]

-----------------------------------------------------------------------------
(* Sheets. *)

AbilityMod(score) == (score - 10) \div 2
ProfBonus(level) == 2 + (Greater(1, level) - 1) \div 4
Mod(sheet, ability) == AbilityMod(sheet.stats[ability])

CastingAbility(sheet) == Entry(Classes, sheet.class).ability
SpellAttack(sheet) ==
    IF CastingAbility(sheet) = "" THEN 0
    ELSE ProfBonus(sheet.level) + Mod(sheet, CastingAbility(sheet))
SpellDC(sheet) == IF CastingAbility(sheet) = "" THEN 10 ELSE 8 + SpellAttack(sheet)

\* An unknown weapon has neither range nor property nor dice.
WeaponBonus(sheet, weapon) ==
    ProfBonus(sheet.level) +
    CASE weapon = Missing -> Mod(sheet, "str")
      [] weapon # Missing /\ weapon.ranged -> Mod(sheet, "dex")
      [] weapon # Missing /\ ~weapon.ranged /\ weapon.finesse ->
            Greater(Mod(sheet, "str"), Mod(sheet, "dex"))
      [] OTHER -> Mod(sheet, "str")

\* Armour that is named but not in the table takes the dexterity away as well.
ArmorAC(sheet) ==
    LET worn == FindEntry(Armors, sheet.armor)
        bare == IF sheet.baseAC = 0 THEN 10 ELSE sheet.baseAC
        body == IF sheet.armor = NoName THEN bare + Mod(sheet, "dex")
                ELSE IF worn = Missing THEN bare
                ELSE worn.base + IF worn.dex THEN Greater(0, Lesser(Mod(sheet, "dex"), worn.cap)) ELSE 0
        shield == FindEntry(Armors, <<"shield">>)
    IN body + IF sheet.shield /\ shield # Missing THEN shield.base ELSE 0

MaxHP(sheet) ==
    LET die == Entry(Classes, sheet.class).die
        con == Mod(sheet, "con")
    IN die + con + (Greater(1, sheet.level) - 1) * (die \div 2 + 1 + con)

SaveBonus(sheet, ability) ==
    Mod(sheet, ability) +
    IF ability \in Entry(Classes, sheet.class).saves THEN ProfBonus(sheet.level) ELSE 0

\* A seated sheet: full of life, and with what the fights ask of it, which
\* depends on nothing that a fight changes.
Seated(sheet) ==
    LET full == MaxHP(sheet) IN
    [name |-> sheet.name, level |-> sheet.level, weapons |-> sheet.weapons, spells |-> sheet.spells,
     conditions |-> {}, hp |-> full, max |-> full, ac |-> ArmorAC(sheet),
     toHit |-> [w \in ToSet(sheet.weapons) |-> WeaponBonus(sheet, Entry(Weapons, w))],
     spellHit |-> SpellAttack(sheet), dc |-> SpellDC(sheet),
     healing |-> Mod(sheet, IF CastingAbility(sheet) = "" THEN "wis" ELSE CastingAbility(sheet)),
     saves |-> [a \in Abilities |-> SaveBonus(sheet, a)]]

\* Between nothing and a maximum, which ability scores that a player names
\* (begin_adventure takes any) can put below nothing.
Span(max) == Lesser(0, max)..Greater(0, max)
\* What the fights need of a sheet.
Sound(sheet) ==
    /\ {"name", "level", "weapons", "conditions", "hp", "max", "healing"} \subseteq DOMAIN sheet
    /\ sheet.max \in Int /\ sheet.hp \in Span(sheet.max)
    /\ sheet.level \in Nat \ {0} /\ sheet.healing \in Int

-----------------------------------------------------------------------------
(* The companion a RECRUIT tag builds. *)

SpellLimits(class, level, stats) ==
    LET cls == Entry(Classes, class)
        tier == cls.tiers[Lesser(Lesser(Greater(level, 1), 20), Len(cls.tiers))]
        slots == {p \in DOMAIN tier.slots : tier.slots[p] > 0}
        top == IF slots = {} THEN 0 ELSE Max(slots)
        known == IF tier.known >= 0 THEN tier.known
                 ELSE IF cls.ability = "" THEN 0
                 ELSE Greater(1, AbilityMod(stats[cls.ability]) + level)
        Eligible(i) == Entry(Spells, i) # Missing /\ Entry(Spells, i).level <= top
    IN IF cls.spells = <<>> THEN [pool |-> <<>>, cantrips |-> 0, known |-> 0, top |-> 0]
       ELSE [pool |-> SelectSeq(cls.spells, Eligible), cantrips |-> tier.cantrips,
             known |-> known, top |-> top]

\* Twice the score, for averages of dice have halves; a heal counts a flat 20.
SpellScore(index) ==
    LET s == Entry(Spells, index)
        average == s.dice.n * (s.dice.sides + 1) + 2 * s.dice.mod
        harm == IF s.dice = NoDice THEN 0 ELSE average + 6 * s.level
    IN IF s.level = 0 THEN (IF s.dice = NoDice THEN 0 ELSE 20 + average)
       ELSE (IF s.heal # NoDice THEN 40 ELSE 0) + (IF s.dice = NoDice THEN 0 ELSE 30 + harm) + 2 * s.level

Spellbook(lim) ==
    LET Level(i) == Entry(Spells, i).level
        OfLevel(n) == SelectSeq(lim.pool, LAMBDA i : Level(i) = n)
        leveled == SelectSeq(lim.pool, LAMBDA i : Level(i) >= 1)
        Upto(s, n) == SubSeq(s, 1, Lesser(n, Len(s)))
        best == [k \in 1..lim.top |-> Upto(Ranked(OfLevel(lim.top + 1 - k), SpellScore), 1)]
        forced == Upto(FlattenSeq(best), lim.known)
        rest == SelectSeq(Ranked(leveled, SpellScore), LAMBDA i : i \notin ToSet(forced))
    IN Upto(Upto(Ranked(OfLevel(0), SpellScore), lim.cantrips) \o forced \o rest,
            lim.cantrips + lim.known)
AutoSpells(class, level, stats) == Given(SpellLimits(class, level, stats), Spellbook)

\* A class the table does not rank is ranked as a fighter.
Ranking(class) == IF class \in DOMAIN Priority THEN Priority[class] ELSE Priority[<<"fighter">>]

Outfit(class) ==
    [Kit[class] EXCEPT !.weapons = SelectSeq(@, LAMBDA w : Entry(Weapons, w) # Missing)]

AutoSheet(name, race, class, level) ==
    LET priority == Ranking(class)
        place == [a \in Abilities |-> CHOOSE p \in DOMAIN priority : priority[p] = a]
        bonus == IF Entry(Races, race) = Missing THEN [a \in {} |-> 0] ELSE Entry(Races, race).bonus
        stats == [a \in Abilities |-> StatArray[place[a]] + IF a \in DOMAIN bonus THEN bonus[a] ELSE 0]
        sheet == [name |-> name, class |-> class, level |-> level, stats |-> stats,
                 armor |-> Outfit(class).armor,
                 shield |-> class \in {<<"cleric">>, <<"fighter">>, <<"paladin">>, <<"barbarian">>},
                 baseAC |-> CASE class = <<"monk">> -> 10 + AbilityMod(stats["wis"])
                              [] class = <<"barbarian">> -> 10 + AbilityMod(stats["con"])
                              [] OTHER -> 0,
                 weapons |-> Outfit(class).weapons,
                 spells |-> AutoSpells(class, level, stats)]
    IN Given(sheet, Seated)

\* top is the highest level of the roster, 1 without one.
RecruitSheet(name, desc, top) ==
    LET class == FindEntry(Classes, desc.words)
        race == FindEntry(Races, desc.words)
        Build(c) == AutoSheet(name, c.race, c.class, c.level)
    IN Given([race |-> IF race = Missing THEN <<"human">> ELSE race.index,
              class |-> IF class = Missing THEN <<"fighter">> ELSE class.index,
              level |-> IF desc.level = 0 THEN top ELSE Lesser(Greater(desc.level, 1), top + 1)],
             Build)

-----------------------------------------------------------------------------
(* Dice.  A stream of random numbers is a sequence that is read round. *)

Draw(stream, i) == stream[((i - 1) % Len(stream)) + 1]
Die(u, sides) == 1 + (u * sides) \div 20

RollDice(dice, stream, i) ==
    LET total[k \in 0..dice.n] ==
            IF k = 0 THEN dice.mod
            ELSE total[k - 1] + Die(Draw(stream, i + k - 1), dice.sides)
    IN  total[dice.n]

Crit(dice) == [dice EXCEPT !.n = 2 * @]

\* Natural twenties do, natural ones do not, whatever the sum.
Succeeds(nat, bonus, goal) == nat = 20 \/ (nat # 1 /\ nat + bonus >= goal)

\* Cantrips grow with the caster, other spells with the slot they are given.
ResolveSpell(s, sheet, slot) ==
    LET power == IF s.level = 0 THEN sheet.level ELSE Greater(s.level, slot)
        steps == {k \in DOMAIN s.scale : IF s.level = 0 THEN k <= power ELSE k = power}
    IN [s EXCEPT !.dice = IF steps = {} THEN @ ELSE s.scale[Max(steps)]]

\* A spell that only cures has the expression of its own level, whatever the slot.
\* "1d8 + MOD" takes the caster's modifier, and a negative one is refused by the
\* dice grammar; "4d8 + 15" is rolled as it stands.
HealDice(spell, sheet) ==
    IF ~spell.byCaster THEN spell.heal
    ELSE IF sheet.healing < 0 THEN Unreadable
    ELSE [spell.heal EXCEPT !.mod = sheet.healing]

-----------------------------------------------------------------------------
(* The tags of one narration.  State of the fold: the working hit points   *)
(* and conditions of the party, the working pools, who was touched, and    *)
(* the number of random numbers drawn.                                     *)

Foe(words) ==
    LET m == FindEntry(Monsters, words)
        Unlisted(a) == AbilityMod(m.stats[a])
    IN IF m = Missing THEN [key |-> words, ac |-> 10, max |-> 0, saves |-> [a \in {} |-> 0]]
       ELSE [key |-> m.index, ac |-> m.ac, max |-> m.hp,
             saves |-> Over(m.saves, [a \in Abilities |-> Unlisted(a)])]

\* The parsers: names looked up in the tables, the target kept as it is written.
AttackTag(what, on) == [kind |-> "attack", weapon |-> FindEntry(Weapons, what), what |-> what,
                        on |-> on, foe |-> Foe(on)]
CastTag(what, slot, on) == [kind |-> "cast", spell |-> FindEntry(Spells, what), slot |-> slot,
                            on |-> on, foe |-> Foe(on)]
EncounterTag(names) == [kind |-> "encounter",
                        foes |-> {m \in {FindEntry(Monsters, n) : n \in names} : m # Missing}]
ConditionTag(what, on) == [kind |-> "condition", what |-> what, on |-> on]

\* The maximum that the table gives a pool, 0 for what is in no table.
Vigour(key) ==
    IF \E m \in ToSet(Monsters) : m.index = key
    THEN (CHOOSE m \in ToSet(Monsters) : m.index = key).hp ELSE 0
\* What the parsers leave of a tag: entries of the tables, or Missing.
Parsed(tag) ==
    \/ tag.kind = "attack" /\ tag.weapon \in ToSet(Weapons) \union {Missing}
       /\ tag.foe.max = Vigour(tag.foe.key)
    \/ tag.kind = "cast" /\ tag.spell \in ToSet(Spells) \union {Missing}
       /\ tag.foe.max = Vigour(tag.foe.key)
    \/ tag.kind = "encounter" /\ tag.foes \subseteq ToSet(Monsters)
    \/ tag.kind = "condition"

\* Who stands for a target: the position of a sheet, or 0.
Position(sheets, words) ==
    LET at == {p \in DOMAIN sheets : sheets[p].name = words}
    IN IF at = {} THEN 0 ELSE Min(at)

FirstWith(sheets, Test(_)) ==
    LET at == {p \in DOMAIN sheets : Test(sheets[p])} IN IF at = {} THEN 0 ELSE Min(at)

HurtParty(st, p, amount) ==
    [st EXCEPT !.hp[p] = Greater(0, @ - amount), !.touched = @ \union {p}]
\* A cure without its ceiling (a mutant).
MendParty_Uncapped(st, sheets, p, amount) ==
    [st EXCEPT !.hp[p] = @ + amount, !.touched = @ \union {p}]
MendParty(st, sheets, p, amount) ==
    [st EXCEPT !.hp[p] = Lesser(sheets[p].max, @ + amount), !.touched = @ \union {p}]

HurtFoe(st, foe, amount) ==
    LET pool == IF foe.key \in DOMAIN st.pools THEN st.pools[foe.key]
                ELSE [hp |-> foe.max, max |-> foe.max]
        left == Greater(0, pool.hp - amount)
    IN [st EXCEPT !.pools = Over([k \in {foe.key} |-> [pool EXCEPT !.hp = left]], @),
                  !.changed = IF left = pool.hp THEN @ ELSE @ \union {foe.key}]

Hurt(st, p, foe, amount) ==
    IF p # 0 THEN HurtParty(st, p, amount) ELSE HurtFoe(st, foe, amount)

Unresolved(st) == [st EXCEPT !.unresolved = @ + 1]
Resolved(st, draws) == [st EXCEPT !.outcomes = @ + 1, !.draws = @ + draws]

\* Every key of a fresh encounter is full again.
Encounter(st, foes) ==
    LET keys == {m.index : m \in foes}
        full == [k \in keys |-> LET m == CHOOSE x \in foes : x.index = k IN [hp |-> m.hp, max |-> m.hp]]
    IN IF foes = {} THEN Unresolved(st)
       ELSE Resolved([st EXCEPT !.pools = Over(full, @), !.changed = @ \union keys,
                                !.spawned = @ \union keys], 0)

Natural(st, stream) == Die(Draw(stream, st.draws), 20)
Roll(st, dice, stream) == RollDice(dice, stream, st.draws + 1)

\* The first sheet that carries the weapon strikes.
Attack(st, sheets, tag, stream) ==
    LET carried == IF tag.weapon = Missing THEN tag.what ELSE tag.weapon.index
        dice == IF tag.weapon = Missing THEN NoDice ELSE tag.weapon.dice
        a == FirstWith(sheets, LAMBDA s : carried \in ToSet(s.weapons))
        p == Position(sheets, tag.on)
        Lands(nat) == Succeeds(nat, sheets[a].toHit[carried], IF p # 0 THEN sheets[p].ac ELSE tag.foe.ac)
        Blow(nat) == IF nat = 20 THEN Crit(dice) ELSE dice
    IN IF a = 0 THEN Unresolved(st)
       ELSE LET nat == Natural(st, stream) IN
            IF ~Lands(nat) THEN Resolved(st, 1)
            ELSE Resolved(Hurt(st, p, tag.foe, Roll(st, Blow(nat), stream)), 1 + Blow(nat).n)

\* A spell that harms, by an attack roll or against a save.  A monster of the table
\* saves with its own bonus, any other with the caster's.
Harm(st, sheets, a, p, spell, foe, stream) ==
    LET nat == Natural(st, stream)
        ability == IF spell.save = "" THEN "dex" ELSE spell.save
        bonus == IF p # 0 THEN sheets[p].saves[ability]
                 ELSE IF ability \in DOMAIN foe.saves THEN foe.saves[ability]
                 ELSE sheets[a].saves[ability]
        saved == Succeeds(nat, bonus, IF spell.save = "" THEN 10 ELSE sheets[a].dc)
        struck == Succeeds(nat, sheets[a].spellHit, IF p # 0 THEN sheets[p].ac ELSE foe.ac)
        dice == IF spell.attack /\ nat = 20 THEN Crit(spell.dice) ELSE spell.dice
        amount == IF spell.attack \/ ~saved THEN Roll(st, dice, stream)
                  ELSE IF spell.half THEN Roll(st, dice, stream) \div 2 ELSE 0
    IN IF spell.attack /\ ~struck THEN Resolved(st, 1)
       ELSE Resolved(Hurt(st, p, foe, amount),
                     IF spell.attack \/ ~saved \/ spell.half THEN 1 + dice.n ELSE 1)

Mend(st, sheets, a, p, spell, stream) ==
    LET dice == HealDice(spell, sheets[a])
    IN Resolved(IF p = 0 THEN st ELSE MendParty(st, sheets, p, RollDice(dice, stream, st.draws)), dice.n)

Cast(st, sheets, tag, stream) ==
    LET a == FirstWith(sheets, LAMBDA s : tag.spell.index \in ToSet(s.spells))
        p == Position(sheets, tag.on)
        spell == ResolveSpell(tag.spell, sheets[a], tag.slot)
    IN IF tag.spell = Missing \/ a = 0 THEN Unresolved(st)
       ELSE CASE spell.dice # NoDice -> Harm(st, sheets, a, p, spell, tag.foe, stream)
              [] spell.dice = NoDice /\ spell.heal # NoDice -> Mend(st, sheets, a, p, spell, stream)
              [] OTHER -> Resolved(st, 0)

Condition(st, sheets, tag) ==
    LET p == Position(sheets, tag.on)
    IN Resolved(IF p = 0 THEN st
                ELSE [st EXCEPT !.conditions[p] = @ \union {tag.what}, !.touched = @ \union {p}], 0)

\* The state before the first tag: pools are clamped as they come in.
Opening(sheets, pools) ==
    [hp |-> [p \in DOMAIN sheets |-> sheets[p].hp],
     conditions |-> [p \in DOMAIN sheets |-> sheets[p].conditions],
     pools |-> [k \in DOMAIN pools |-> [hp |-> Greater(0, Lesser(pools[k].hp, pools[k].max)),
                                        max |-> pools[k].max]],
     touched |-> {}, changed |-> {}, spawned |-> {}, outcomes |-> 0, unresolved |-> 0, draws |-> 1]

ResolveTag(st, tag, sheets, stream) ==
    CASE tag.kind = "encounter" -> Encounter(st, tag.foes)
      [] tag.kind = "attack" -> Attack(st, sheets, tag, stream)
      [] tag.kind = "cast" -> Cast(st, sheets, tag, stream)
      [] tag.kind = "condition" -> Condition(st, sheets, tag)

\* The exchange of a spar: _settle_spar, with the first weapon carried.
Exchange(attacker, defender, stream) ==
    LET weapon == Entry(Weapons, attacker.weapons[1])
        nat == Die(Draw(stream, 1), 20)
        dice == IF weapon = Missing THEN NoDice ELSE IF nat = 20 THEN Crit(weapon.dice) ELSE weapon.dice
    IN IF Succeeds(nat, attacker.toHit[attacker.weapons[1]], defender.ac)
       THEN Greater(0, defender.hp - RollDice(dice, stream, 2)) ELSE defender.hp
=============================================================================
