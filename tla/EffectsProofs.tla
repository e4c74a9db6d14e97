--------------------------- MODULE EffectsProofs ---------------------------
(***************************************************************************)
(* For any effects, terms, cooldowns and bounds: no save between two       *)
(* writes, and no restart from it, leaves an effect without its bonus or   *)
(* one that the status pass cannot see; and without such a save the stats  *)
(* are those that the tags account for, in memory and in every file.       *)
(***************************************************************************)
EXTENDS Effects, TLAPS

\* The tags whose effect is also a bonus on a stat.
Giving == {"PHASTE", "PPOWER", "PMEDIT", "PPRAYD", "PUPDMG"}

\* The stats of the skills that only the status pass ends, and what a set of
\* tags asks of each.
Four == {"dexterity", "strength", "intelligence", "piety"}
Counted == Four \cup {"hpMax"}
Lasting == SkillTags \ {"PUPDMG"}
Needs(k, tags) ==
    CASE k = "dexterity"    -> IF "PHASTE" \in tags THEN 15 ELSE 0
      [] k = "strength"     -> IF "PPOWER" \in tags THEN 3 ELSE 0
      [] k = "intelligence" -> IF "PMEDIT" \in tags THEN 3 ELSE 0
      [] k = "piety"        -> IF "PPRAYD" \in tags THEN 5 ELSE 0
      [] OTHER              -> 0

Triples == (SUBSET Marks) \X (SUBSET Marks) \X [Stats -> Int]

\* Player and creature agree on the tags that give a stat, and the stats are
\* those the tags account for.
Whole(t) == t[1] \cap Giving = t[2] \cap Giving /\ Accounts(t[2], t[3])

In(q, x) == \E i \in 1 .. Len(q) : q[i] = x
Before(q, x, y) == \A i \in 1 .. Len(q) : q[i] = y => \E j \in 1 .. i - 1 : q[j] = x

\* With the parts q still to be written: the others have the value g gives them,
Written(q, p, c, b, g) ==
    /\ In(q, "ptags") \/ p = g[1]
    /\ In(q, "ctags") \/ c = g[2]
    /\ \A k \in Stats : In(q, k) \/ b[k] = g[3][k]

\* and what is written first is no less than what is written later asks for.
Ordered(q, p, c, b, g) ==
    /\ Backed(p, c, b) /\ Backed(g[1], g[2], g[3])
    /\ \A k \in Four : b[k] >= Needs(k, g[2]) \/ Before(q, k, "ctags")
    /\ \A k \in Four : g[3][k] >= Needs(k, c) \/ Before(q, "ctags", k)
    /\ g[1] \cap Lasting \subseteq c \/ Before(q, "ctags", "ptags")
    /\ p \cap Lasting \subseteq g[2] \/ Before(q, "ptags", "ctags")

Inv ==
    /\ TypeOK
    /\ Written(todo, ptags, ctags, bonus, goal)
    /\ Ordered(todo, ptags, ctags, bonus, goal)
    /\ Backed(disk[1], disk[2], disk[3])
    /\ ending \cap SkillTags \subseteq goal[2]
    /\ tears.memory = 0 => Whole(goal)
    /\ tears.file = 0 => Whole(disk)

LongestTerm == IF Duration > DefaultTerm THEN Duration ELSE DefaultTerm
LongestWait == IF SuccessWait > 1 THEN SuccessWait ELSE 1

-----------------------------------------------------------------------------
(* Tags and what they account for *)

\* The tags of the timed skills, written out.
LEMMA SkillTagNames ==
    SkillTags = {"PHASTE", "PPOWER", "PMEDIT", "PPRAYD", "PSLAYE", "PREFLECT", "PANGEL", "PUPDMG"}
<1>1. \A t : t \in SkillTags <=> \E s \in Skills : t = s.tag
  BY DEF SkillTags
<1>2. /\ Haste.tag = "PHASTE" /\ Power.tag = "PPOWER" /\ Meditate.tag = "PMEDIT"
      /\ Pray.tag = "PPRAYD" /\ Accurate.tag = "PSLAYE" /\ Reflect.tag = "PREFLECT"
      /\ Angel.tag = "PANGEL" /\ UpDamage.tag = "PUPDMG"
  BY DEF Haste, Power, Meditate, Pray, Accurate, Reflect, Angel, UpDamage
<1> QED BY <1>1, <1>2 DEF Skills

\* No spell gives a stat.
LEMMA SpellTags ==
    ASSUME NEW s \in Spells
    PROVE  s.tag \in Tags /\ s.tag \notin SkillTags
<1>1. s.tag \in Tags
  BY DEF Tags
<1>2. s.tag \notin SkillTags
  BY SkillTagNames DEF Spells, Spell, Bless, Protection, ResistFire, ResistCold, ResistMagic,
         BreatheWater, EarthShield, Fly, Levitate, KnowAlignment, DetectInvisible,
         DetectMagic, Invisibility, Light, Silence, Fear, Charm, Blind
<1> QED BY <1>1, <1>2

\* The tags the engine sets without a bonus, and where each set of tags lies.
LEMMA OtherTags ==
    /\ \A t \in {"PHIDDN", "PINVIS", "PBLIND", "PFEARS"} : t \in Tags /\ t \notin SkillTags
    /\ Tags \subseteq Marks /\ SkillTags \subseteq Tags /\ Giving \subseteq SkillTags
    /\ MonsterSpells \subseteq Spells /\ DMSpells \subseteq Spells
<1>1. /\ Invisibility.tag = "PINVIS" /\ Blind.tag = "PBLIND" /\ Fear.tag = "PFEARS"
      /\ Invisibility \in Spells /\ Blind \in Spells /\ Fear \in Spells
  BY DEF Spells, Spell, Invisibility, Blind, Fear
<1>2. {"PINVIS", "PBLIND", "PFEARS", "PHIDDN"} \subseteq Tags
  BY <1>1 DEF Tags
<1>3. MonsterSpells \subseteq Spells /\ DMSpells \subseteq Spells
  BY DEF MonsterSpells, DMSpells, Spells
<1> QED BY <1>2, <1>3, SkillTagNames DEF Giving, Marks, Tags

\* Only the tags and the stats that are accounted for count.
LEMMA SameAccounts ==
    ASSUME NEW T, NEW U, NEW b, NEW d, T \cap Giving = U \cap Giving,
           \A k \in Counted : d[k] = b[k], Accounts(T, b)
    PROVE  Accounts(U, d)
<1>1. \A t \in Giving : t \in T <=> t \in U
  OBVIOUS
<1> QED BY <1>1 DEF Accounts, Giving, Counted, Four

\* The damage skill's bonuses, and what a lost level takes, belong to its tag.
LEMMA UpDamageTypes ==
    /\ upDamageBonuses \in [Stats -> Int] /\ LevelDownTakes \in [Stats -> Int]
    /\ Accounts({"PUPDMG"}, upDamageBonuses) /\ Accounts({"PUPDMG"}, LevelDownTakes)
BY DEF upDamageBonuses, LevelDownTakes, NoBonus, Stats, Accounts

\* Effects that come together account for the sum of their bonuses.
LEMMA AccountsAdd ==
    ASSUME NEW T, NEW U, NEW b \in [Stats -> Int], NEW c \in [Stats -> Int],
           T \cap U \cap Giving = {}, Accounts(T, b), Accounts(U, c)
    PROVE  Accounts(T \cup U, Sum(b, c)) /\ Sum(b, c) \in [Stats -> Int]
<1>1. \A t \in Giving : ~(t \in T /\ t \in U)
  OBVIOUS
<1>2. upDamageBonuses["hpMax"] \in Int
  BY UpDamageTypes DEF Stats
<1>3. \A s \in Stats : b[s] \in Int /\ c[s] \in Int /\ Sum(b, c)[s] = b[s] + c[s]
  BY DEF Sum
<1>4. Sum(b, c) \in [Stats -> Int]
  BY DEF Sum
<1>5. Sum(b, c)["dexterity"] = IF "PHASTE" \in T \cup U THEN 15 ELSE 0
  <2>1. "PHASTE" \in Giving /\ "dexterity" \in Stats
    BY DEF Giving, Stats
  <2>2. /\ b["dexterity"] = (IF "PHASTE" \in T THEN 15 ELSE 0)
        /\ c["dexterity"] = (IF "PHASTE" \in U THEN 15 ELSE 0)
    BY DEF Accounts
  <2> QED BY <1>1, <1>2, <1>3, <2>1, <2>2
<1>6. Sum(b, c)["strength"] = IF "PPOWER" \in T \cup U THEN 3 ELSE 0
  <2>1. "PPOWER" \in Giving /\ "strength" \in Stats
    BY DEF Giving, Stats
  <2>2. /\ b["strength"] = (IF "PPOWER" \in T THEN 3 ELSE 0)
        /\ c["strength"] = (IF "PPOWER" \in U THEN 3 ELSE 0)
    BY DEF Accounts
  <2> QED BY <1>1, <1>2, <1>3, <2>1, <2>2
<1>7. Sum(b, c)["intelligence"] = IF "PMEDIT" \in T \cup U THEN 3 ELSE 0
  <2>1. "PMEDIT" \in Giving /\ "intelligence" \in Stats
    BY DEF Giving, Stats
  <2>2. /\ b["intelligence"] = (IF "PMEDIT" \in T THEN 3 ELSE 0)
        /\ c["intelligence"] = (IF "PMEDIT" \in U THEN 3 ELSE 0)
    BY DEF Accounts
  <2> QED BY <1>1, <1>2, <1>3, <2>1, <2>2
<1>8. Sum(b, c)["piety"] = IF "PPRAYD" \in T \cup U THEN 5 ELSE 0
  <2>1. "PPRAYD" \in Giving /\ "piety" \in Stats
    BY DEF Giving, Stats
  <2>2. /\ b["piety"] = (IF "PPRAYD" \in T THEN 5 ELSE 0)
        /\ c["piety"] = (IF "PPRAYD" \in U THEN 5 ELSE 0)
    BY DEF Accounts
  <2> QED BY <1>1, <1>2, <1>3, <2>1, <2>2
<1>9. Sum(b, c)["hpMax"] = IF "PUPDMG" \in T \cup U THEN upDamageBonuses["hpMax"] ELSE 0
  <2>1. "PUPDMG" \in Giving /\ "hpMax" \in Stats
    BY DEF Giving, Stats
  <2>2. /\ b["hpMax"] = (IF "PUPDMG" \in T THEN upDamageBonuses["hpMax"] ELSE 0)
        /\ c["hpMax"] = (IF "PUPDMG" \in U THEN upDamageBonuses["hpMax"] ELSE 0)
    BY DEF Accounts
  <2> QED BY <1>1, <1>2, <1>3, <2>1, <2>2
<1> QED BY <1>4, <1>5, <1>6, <1>7, <1>8, <1>9 DEF Accounts

\* An effect that ends takes back what it accounts for.
LEMMA AccountsLess ==
    ASSUME NEW T, NEW U, NEW b \in [Stats -> Int], NEW c \in [Stats -> Int],
           U \cap Giving \subseteq T, Accounts(T, b), Accounts(U, c)
    PROVE  Accounts(T \ U, Less(b, c)) /\ Less(b, c) \in [Stats -> Int]
<1>1. \A t \in Giving : t \in U => t \in T
  OBVIOUS
<1>2. upDamageBonuses["hpMax"] \in Int
  BY UpDamageTypes DEF Stats
<1>3. \A s \in Stats : b[s] \in Int /\ c[s] \in Int /\ Less(b, c)[s] = b[s] - c[s]
  BY DEF Less
<1>4. Less(b, c) \in [Stats -> Int]
  BY DEF Less
<1>5. Less(b, c)["dexterity"] = IF "PHASTE" \in T \ U THEN 15 ELSE 0
  <2>1. "PHASTE" \in Giving /\ "dexterity" \in Stats
    BY DEF Giving, Stats
  <2>2. /\ b["dexterity"] = (IF "PHASTE" \in T THEN 15 ELSE 0)
        /\ c["dexterity"] = (IF "PHASTE" \in U THEN 15 ELSE 0)
    BY DEF Accounts
  <2> QED BY <1>1, <1>2, <1>3, <2>1, <2>2
<1>6. Less(b, c)["strength"] = IF "PPOWER" \in T \ U THEN 3 ELSE 0
  <2>1. "PPOWER" \in Giving /\ "strength" \in Stats
    BY DEF Giving, Stats
  <2>2. /\ b["strength"] = (IF "PPOWER" \in T THEN 3 ELSE 0)
        /\ c["strength"] = (IF "PPOWER" \in U THEN 3 ELSE 0)
    BY DEF Accounts
  <2> QED BY <1>1, <1>2, <1>3, <2>1, <2>2
<1>7. Less(b, c)["intelligence"] = IF "PMEDIT" \in T \ U THEN 3 ELSE 0
  <2>1. "PMEDIT" \in Giving /\ "intelligence" \in Stats
    BY DEF Giving, Stats
  <2>2. /\ b["intelligence"] = (IF "PMEDIT" \in T THEN 3 ELSE 0)
        /\ c["intelligence"] = (IF "PMEDIT" \in U THEN 3 ELSE 0)
    BY DEF Accounts
  <2> QED BY <1>1, <1>2, <1>3, <2>1, <2>2
<1>8. Less(b, c)["piety"] = IF "PPRAYD" \in T \ U THEN 5 ELSE 0
  <2>1. "PPRAYD" \in Giving /\ "piety" \in Stats
    BY DEF Giving, Stats
  <2>2. /\ b["piety"] = (IF "PPRAYD" \in T THEN 5 ELSE 0)
        /\ c["piety"] = (IF "PPRAYD" \in U THEN 5 ELSE 0)
    BY DEF Accounts
  <2> QED BY <1>1, <1>2, <1>3, <2>1, <2>2
<1>9. Less(b, c)["hpMax"] = IF "PUPDMG" \in T \ U THEN upDamageBonuses["hpMax"] ELSE 0
  <2>1. "PUPDMG" \in Giving /\ "hpMax" \in Stats
    BY DEF Giving, Stats
  <2>2. /\ b["hpMax"] = (IF "PUPDMG" \in T THEN upDamageBonuses["hpMax"] ELSE 0)
        /\ c["hpMax"] = (IF "PUPDMG" \in U THEN upDamageBonuses["hpMax"] ELSE 0)
    BY DEF Accounts
  <2> QED BY <1>1, <1>2, <1>3, <2>1, <2>2
<1> QED BY <1>4, <1>5, <1>6, <1>7, <1>8, <1>9 DEF Accounts

\* What a skill writes and gives belong together.
LEMMA SkillAccounts ==
    ASSUME NEW s \in Skills
    PROVE  /\ s.tag \in SkillTags /\ s.tag \in s.marks /\ s.marks \subseteq Marks
           /\ s.failWait \in {0, 1}
           /\ Gives(s) \in [Stats -> Int] /\ Accounts(s.marks, Gives(s))
           /\ \/ s.order = CreatureFirst /\ \A k \in Stats : Gives(s)[k] = 0
              \/ \E k \in Four : s.order = StatFirst(k) /\ \A l \in Stats \ {k} : Gives(s)[l] = 0
              \/ /\ s.order = <<"pDice", "hpMax", "mpMax", "ctags", "ptags">>
                 /\ \A k \in Stats \ {"pDice", "hpMax", "mpMax"} : Gives(s)[k] = 0
<1>1. s.tag \in SkillTags
  BY DEF SkillTags
<1>2. "pray" \in Marks /\ "accurate" \in Marks
  BY DEF Marks, Aliases
<1>3. SkillTags \subseteq Marks
  BY OtherTags
<1> USE SkillTagNames, <1>1, <1>2, <1>3
<1>4. CASE s = Haste
  <2>1. "dexterity" \in Four
    BY DEF Four
  <2> QED BY <1>4, <2>1 DEF Haste, Gives, Only, NoBonus, Accounts, Stats
<1>5. CASE s = Power
  <2>1. "strength" \in Four
    BY DEF Four
  <2> QED BY <1>5, <2>1 DEF Power, Gives, Only, NoBonus, Accounts, Stats
<1>6. CASE s = Meditate
  <2>1. "intelligence" \in Four
    BY DEF Four
  <2> QED BY <1>6, <2>1 DEF Meditate, Gives, Only, NoBonus, Accounts, Stats
<1>7. CASE s = Pray
  <2>1. "piety" \in Four
    BY DEF Four
  <2> QED BY <1>7, <2>1 DEF Pray, Gives, Only, NoBonus, Accounts, Stats
<1>8. CASE s = Accurate
  BY <1>8 DEF Accurate, Gives, NoBonus, Accounts, Stats
<1>9. CASE s = Reflect
  BY <1>9 DEF Reflect, Gives, NoBonus, Accounts, Stats
<1>10. CASE s = Angel
  BY <1>10 DEF Angel, Gives, NoBonus, Accounts, Stats
<1>11. CASE s = UpDamage
  <2>1. \A k \in Stats \ {"pDice", "hpMax", "mpMax"} : upDamageBonuses[k] = 0
    BY DEF upDamageBonuses, NoBonus
  <2> QED BY <1>11, <2>1, UpDamageTypes DEF UpDamage, Gives
<1> QED BY <1>4, <1>5, <1>6, <1>7, <1>8, <1>9, <1>10, <1>11 DEF Skills

\* What the status pass takes is what the ended effect accounts for.
LEMMA ExpiryAccounts ==
    ASSUME NEW e
    PROVE  ExpiryTakes(e) \in [Stats -> Int] /\ Accounts({e}, ExpiryTakes(e))
<1>1. upDamageBonuses["hpMax"] \in Int /\ upDamageBonuses["mpMax"] \in Int
  BY UpDamageTypes DEF Stats
<1> QED BY <1>1 DEF ExpiryTakes, NoBonus, Stats, Accounts

\* The four stats, what tags ask of them, and the stats they account for.
LEMMA NeedsAccounts ==
    /\ Four \subseteq Stats /\ Counted \subseteq Stats
    /\ \A T : \A k \in Four : Needs(k, T) \in Nat
    /\ \A T, b : Accounts(T, b) => \A k \in Four : b[k] = Needs(k, T)
<1>1. Four \subseteq Stats /\ Counted \subseteq Stats
  BY DEF Four, Counted, Stats
<1>2. \A T : \A k \in Four : Needs(k, T) \in Nat
  BY DEF Four, Needs
<1>3. ASSUME NEW T, NEW b, Accounts(T, b)
      PROVE  \A k \in Four : b[k] = Needs(k, T)
  BY <1>3 DEF Accounts, Four, Needs
<1> QED BY <1>1, <1>2, <1>3

\* Backed, stat by stat.
LEMMA BackedMeans ==
    ASSUME NEW p, NEW c, NEW b
    PROVE  Backed(p, c, b) <=>
               p \cap Lasting \subseteq c /\ \A k \in Four : b[k] >= Needs(k, c)
BY DEF Backed, Four, Needs, Lasting

-----------------------------------------------------------------------------
(* Writing one part after the other *)

\* What has to be written before something else is, or comes later than the first.
LEMMA BeforeTail ==
    ASSUME NEW q \in Seq(Parts), q # << >>, NEW x, NEW y, Before(q, x, y)
    PROVE  Head(q) # y /\ (Head(q) # x => Before(Tail(q), x, y))
BY DEF Before

LEMMA InTail ==
    ASSUME NEW q \in Seq(Parts), q # << >>, NEW x, In(q, x), Head(q) # x
    PROVE  In(Tail(q), x)
<1>1. PICK i \in 1 .. Len(q) : q[i] = x
  BY DEF In
<1>2. i # 1 /\ i - 1 \in 1 .. Len(Tail(q)) /\ Tail(q)[i - 1] = q[i]
  BY <1>1
<1> QED BY <1>1, <1>2 DEF In

\* The orders of the operations.
LEMMA StatFirstOrder ==
    ASSUME NEW k \in Stats
    PROVE  /\ StatFirst(k) \in Seq(Parts) /\ StatFirst(k) # << >>
           /\ \A x \in {"ctags", "ptags", k} : In(StatFirst(k), x)
           /\ Before(StatFirst(k), k, "ctags") /\ Before(StatFirst(k), "ctags", "ptags")
<1> DEFINE q == StatFirst(k)
<1>1. q = <<k, "ctags", "ptags">> /\ k # "ctags" /\ k # "ptags"
  BY DEF StatFirst, Stats
<1>2. Len(q) = 3 /\ q[1] = k /\ q[2] = "ctags" /\ q[3] = "ptags"
  BY <1>1
<1>3. q \in Seq(Parts) /\ q # << >>
  BY <1>1 DEF Parts
<1> HIDE DEF q
<1>4. \A x \in {"ctags", "ptags", k} : In(q, x)
  BY <1>2 DEF In
<1>5. Before(q, k, "ctags")
  BY <1>1, <1>2 DEF Before
<1>6. Before(q, "ctags", "ptags")
  BY <1>1, <1>2 DEF Before
<1> QED BY <1>3, <1>4, <1>5, <1>6 DEF q

\* Expiry writes the tags, the player's first, then the stat.
LEMMA ExpiryOrders ==
    ASSUME NEW e
    PROVE  LET q == ExpiryOrder(e) IN
           /\ q \in Seq(Parts) /\ q # << >> /\ In(q, "ptags") /\ In(q, "ctags")
           /\ Before(q, "ptags", "ctags")
           /\ \A k \in Stats : In(q, k) \/ ExpiryTakes(e)[k] = 0
           /\ \A k \in Four : Before(q, "ctags", k)
<1> DEFINE q == ExpiryOrder(e)
<1>1. /\ q \in Seq(Parts) /\ Len(q) \in 2 .. 4 /\ q[1] = "ptags" /\ q[2] = "ctags"
      /\ \A i \in 3 .. Len(q) : q[i] \notin {"ptags", "ctags"}
  <2>1. \/ q = <<"ptags", "ctags">> \/ q = <<"ptags", "ctags", "hpMax", "mpMax">>
        \/ \E k \in Four : q = <<"ptags", "ctags", k>>
    BY DEF ExpiryOrder, PlayerFirst, Four
  <2> HIDE DEF q
  <2>2. CASE q = <<"ptags", "ctags">>
    BY <2>2 DEF Parts
  <2>3. CASE q = <<"ptags", "ctags", "hpMax", "mpMax">>
    BY <2>3 DEF Parts, Stats
  <2>4. ASSUME NEW k \in Four, q = <<"ptags", "ctags", k>>
        PROVE  /\ q \in Seq(Parts) /\ Len(q) \in 2 .. 4 /\ q[1] = "ptags" /\ q[2] = "ctags"
               /\ \A i \in 3 .. Len(q) : q[i] \notin {"ptags", "ctags"}
    BY <2>4 DEF Parts, Stats, Four
  <2> QED BY <2>1, <2>2, <2>3, <2>4
<1>2. \A k \in Stats : In(q, k) \/ ExpiryTakes(e)[k] = 0
  <2>1. CASE e = "PHASTE"
    <3>1. q = <<"ptags", "ctags", "dexterity">>
      BY <2>1 DEF ExpiryOrder
    <3>2. Len(q) = 3 /\ q[3] = "dexterity"
      BY <3>1
    <3>3. In(q, "dexterity")
      BY <3>2 DEF In
    <3> QED BY <2>1, <3>3 DEF ExpiryTakes, NoBonus
  <2>2. CASE e = "PPOWER"
    <3>1. q = <<"ptags", "ctags", "strength">>
      BY <2>2 DEF ExpiryOrder
    <3>2. Len(q) = 3 /\ q[3] = "strength"
      BY <3>1
    <3>3. In(q, "strength")
      BY <3>2 DEF In
    <3> QED BY <2>2, <3>3 DEF ExpiryTakes, NoBonus
  <2>3. CASE e = "PMEDIT"
    <3>1. q = <<"ptags", "ctags", "intelligence">>
      BY <2>3 DEF ExpiryOrder
    <3>2. Len(q) = 3 /\ q[3] = "intelligence"
      BY <3>1
    <3>3. In(q, "intelligence")
      BY <3>2 DEF In
    <3> QED BY <2>3, <3>3 DEF ExpiryTakes, NoBonus
  <2>4. CASE e = "PPRAYD"
    <3>1. q = <<"ptags", "ctags", "piety">>
      BY <2>4 DEF ExpiryOrder
    <3>2. Len(q) = 3 /\ q[3] = "piety"
      BY <3>1
    <3>3. In(q, "piety")
      BY <3>2 DEF In
    <3> QED BY <2>4, <3>3 DEF ExpiryTakes, NoBonus
  <2>5. CASE e = "PUPDMG"
    <3>1. q = <<"ptags", "ctags", "hpMax", "mpMax">>
      BY <2>5 DEF ExpiryOrder
    <3>2. Len(q) = 4 /\ q[3] = "hpMax" /\ q[4] = "mpMax"
      BY <3>1
    <3>3. In(q, "hpMax") /\ In(q, "mpMax")
      BY <3>2 DEF In
    <3> QED BY <2>5, <3>3 DEF ExpiryTakes, NoBonus
  <2>6. CASE e \notin {"PHASTE", "PPOWER", "PMEDIT", "PPRAYD", "PUPDMG"}
    BY <2>6 DEF ExpiryTakes, NoBonus
  <2> QED BY <2>1, <2>2, <2>3, <2>4, <2>5, <2>6
<1> HIDE DEF q
<1>3. In(q, "ptags") /\ In(q, "ctags") /\ q # << >>
  BY <1>1 DEF In
<1>4. Before(q, "ptags", "ctags")
  BY <1>1 DEF Before
<1>5. \A k \in Four : Before(q, "ctags", k)
  BY <1>1 DEF Before, Four
<1> QED BY <1>1, <1>2, <1>3, <1>4, <1>5 DEF q

\* One write keeps what is true of the parts written and still to be written.
LEMMA OneWrite ==
    ASSUME NEW q \in Seq(Parts), q # << >>, NEW g \in Triples,
           NEW p, NEW c, NEW b \in [Stats -> Int], NEW p1, NEW c1, NEW b1,
           Written(q, p, c, b, g), Ordered(q, p, c, b, g),
           p1 = IF Head(q) = "ptags" THEN g[1] ELSE p,
           c1 = IF Head(q) = "ctags" THEN g[2] ELSE c,
           b1 = IF Head(q) \in Stats THEN [b EXCEPT ![Head(q)] = g[3][Head(q)]] ELSE b
    PROVE  /\ Tail(q) \in Seq(Parts)
           /\ Written(Tail(q), p1, c1, b1, g) /\ Ordered(Tail(q), p1, c1, b1, g)
<1> DEFINE h == Head(q)
           t == Tail(q)
<1>1. t \in Seq(Parts) /\ h \in Parts
  OBVIOUS
<1>2. g[3] \in [Stats -> Int]
  BY DEF Triples
<1>3. \A x, y : Before(q, x, y) => h # y /\ (h # x => Before(t, x, y))
  BY BeforeTail
<1>4. \A x : In(q, x) => h = x \/ In(t, x)
  BY InTail
<1>5. "ptags" \notin Stats /\ "ctags" \notin Stats
  BY DEF Stats
<1>6. \A k \in Stats : b1[k] = IF h = k THEN g[3][k] ELSE b[k]
  OBVIOUS
<1> HIDE DEF h, t
<1>7. p1 = (IF h = "ptags" THEN g[1] ELSE p) /\ c1 = (IF h = "ctags" THEN g[2] ELSE c)
  BY DEF h
<1>8. Written(t, p1, c1, b1, g)
  BY <1>4, <1>6, <1>7 DEF Written
<1>9. /\ p \cap Lasting \subseteq c /\ \A k \in Four : b[k] >= Needs(k, c)
      /\ g[1] \cap Lasting \subseteq g[2] /\ \A k \in Four : g[3][k] >= Needs(k, g[2])
  BY BackedMeans DEF Ordered
<1>10. /\ \A k \in Four : b[k] >= Needs(k, g[2]) \/ Before(q, k, "ctags")
       /\ \A k \in Four : g[3][k] >= Needs(k, c) \/ Before(q, "ctags", k)
       /\ g[1] \cap Lasting \subseteq c \/ Before(q, "ctags", "ptags")
       /\ p \cap Lasting \subseteq g[2] \/ Before(q, "ptags", "ctags")
  BY DEF Ordered
<1>11. Four \subseteq Stats
  BY NeedsAccounts
<1>12. \A k \in Four : b1[k] >= Needs(k, c1)
  <2> TAKE k \in Four
  <2>1. b1[k] = IF h = k THEN g[3][k] ELSE b[k]
    BY <1>6, <1>11
  <2>2. k # "ctags"
    BY <1>5, <1>11
  <2>3. CASE h = k
    BY <1>3, <1>7, <1>10, <2>1, <2>2, <2>3
  <2>4. CASE h = "ctags"
    BY <1>3, <1>7, <1>10, <2>1, <2>2, <2>4
  <2>5. CASE h # k /\ h # "ctags"
    BY <1>7, <1>9, <2>1, <2>5
  <2> QED BY <2>3, <2>4, <2>5
<1>13. p1 \cap Lasting \subseteq c1
  <2>1. CASE h = "ptags"
    BY <1>3, <1>7, <1>10, <2>1
  <2>2. CASE h = "ctags"
    BY <1>3, <1>7, <1>10, <2>2
  <2>3. CASE h # "ptags" /\ h # "ctags"
    BY <1>7, <1>9, <2>3
  <2> QED BY <2>1, <2>2, <2>3
<1>14. \A k \in Four : b1[k] >= Needs(k, g[2]) \/ Before(t, k, "ctags")
  <2> TAKE k \in Four
  <2>1. b1[k] = IF h = k THEN g[3][k] ELSE b[k]
    BY <1>6, <1>11
  <2> QED BY <1>3, <1>9, <1>10, <2>1
<1>15. \A k \in Four : g[3][k] >= Needs(k, c1) \/ Before(t, "ctags", k)
  BY <1>3, <1>7, <1>9, <1>10
<1>16. g[1] \cap Lasting \subseteq c1 \/ Before(t, "ctags", "ptags")
  BY <1>3, <1>7, <1>9, <1>10
<1>17. p1 \cap Lasting \subseteq g[2] \/ Before(t, "ptags", "ctags")
  BY <1>3, <1>7, <1>9, <1>10
<1>18. Backed(p1, c1, b1) /\ Backed(g[1], g[2], g[3])
  BY <1>9, <1>12, <1>13, BackedMeans
<1>19. Ordered(t, p1, c1, b1, g)
  BY <1>14, <1>15, <1>16, <1>17, <1>18 DEF Ordered
<1> QED BY <1>1, <1>8, <1>19 DEF t

-----------------------------------------------------------------------------
(* The invariant *)

\* What the invariant says of the state a step starts in.
LEMMA OldTypes ==
    ASSUME Inv
    PROVE  /\ class \in Classes /\ online \in BOOLEAN
           /\ ptags \subseteq Marks /\ ctags \subseteq Marks
           /\ left \in [Tags -> {NoEnd} \cup 0 .. LongestTerm]
           /\ wait \in [SkillTags -> 0 .. LongestWait]
           /\ bonus \in [Stats -> Int]
           /\ todo \in Seq(Parts) /\ ending \subseteq Tags
           /\ goal \in Triples /\ disk \in Triples
           /\ tears \in [memory : Nat, file : Nat]
           /\ Backed(ptags, ctags, bonus)
BY DEF Inv, TypeOK, Ordered, LongestTerm, LongestWait, Triples

\* A character starts with what its tags give.
LEMMA InitInv == Init => Inv
<1> SUFFICES ASSUME Init PROVE Inv
  OBVIOUS
<1>1. NoBonus \in [Stats -> Int] /\ Accounts({}, NoBonus) /\ Backed({}, {}, NoBonus)
  BY DEF NoBonus, Accounts, Backed, Stats
<1>2. /\ disk = <<{}, {}, NoBonus>> /\ goal = <<{}, {}, NoBonus>>
      /\ ctags = {} /\ ptags = {} /\ bonus = NoBonus /\ todo = << >> /\ ending = {}
      /\ tears = [memory |-> 0, file |-> 0]
  BY DEF Init, saved
<1>3. TypeOK
  <2>1. {goal, disk} \subseteq (SUBSET Marks) \X (SUBSET Marks) \X [Stats -> Int]
    BY <1>1, <1>2
  <2>2. /\ left \in [Tags -> {NoEnd} \cup 0 .. LongestTerm]
        /\ wait \in [SkillTags -> 0 .. LongestWait]
    BY EffectAssumption DEF Init, LongestTerm, LongestWait
  <2>3. class \in Classes /\ online \in BOOLEAN
    BY EffectAssumption DEF Init
  <2>4. tears \in [memory : Nat, file : Nat]
    BY <1>2
  <2>5. todo \in Seq(Parts)
    BY <1>2
  <2> QED BY <1>1, <1>2, <2>1, <2>2, <2>3, <2>4, <2>5 DEF TypeOK, LongestTerm, LongestWait
<1>4. Written(todo, ptags, ctags, bonus, goal)
  BY <1>2 DEF Written
<1>5. Ordered(todo, ptags, ctags, bonus, goal)
  <2>1. \A k \in Four : bonus[k] >= Needs(k, {})
    BY <1>1, <1>2, BackedMeans
  <2> QED BY <1>1, <1>2, <2>1 DEF Ordered
<1>6. Backed(disk[1], disk[2], disk[3]) /\ Whole(goal) /\ Whole(disk)
  BY <1>1, <1>2 DEF Whole
<1> QED BY <1>2, <1>3, <1>4, <1>5, <1>6 DEF Inv

\* The terms and waits a step sets are within their types.
LEMMA Terms ==
    /\ Duration \in 0 .. LongestTerm /\ DefaultTerm \in 0 .. LongestTerm /\ LongestTerm \in Nat
    /\ SuccessWait \in 0 .. LongestWait /\ LongestWait \in Nat
    /\ {0, 1} \subseteq 0 .. LongestWait
BY EffectAssumption DEF LongestTerm, LongestWait

\* With nothing left to write, tags and stats are what they were to become.
LEMMA AllWritten ==
    ASSUME Inv, todo = << >>
    PROVE  /\ ptags = goal[1] /\ ctags = goal[2] /\ bonus = goal[3]
           /\ tears.memory = 0 => Whole(<<ptags, ctags, bonus>>)
           /\ ending \cap SkillTags \subseteq ctags
<1>1. ~In(todo, "ptags") /\ ~In(todo, "ctags") /\ \A k \in Stats : ~In(todo, k)
  BY DEF In
<1>2. ptags = goal[1] /\ ctags = goal[2] /\ \A k \in Stats : bonus[k] = goal[3][k]
  BY <1>1 DEF Inv, Written
<1>3. bonus = goal[3]
  BY <1>2, OldTypes DEF Triples
<1> QED BY <1>2, <1>3 DEF Inv, Whole

\* A step that leaves tags, stats and files alone.
LEMMA SameTags ==
    ASSUME Inv, UNCHANGED <<class, saved, running, files>>, online' \in BOOLEAN,
           left' \in [Tags -> {NoEnd} \cup 0 .. LongestTerm],
           wait' \in [SkillTags -> 0 .. LongestWait]
    PROVE  Inv'
<1>1. UNCHANGED <<class, ptags, ctags, bonus, goal, todo, ending, disk, tears>>
  BY DEF saved, running, files
<1>2. TypeOK'
  BY <1>1 DEF Inv, TypeOK, LongestTerm, LongestWait
<1>3. (Whole(goal) => Whole(goal)') /\ (Whole(disk) => Whole(disk)')
  BY <1>1 DEF Whole, Accounts, upDamageBonuses
<1> QED BY <1>1, <1>2, <1>3 DEF Inv

\* A first write, in an order that keeps what is written backed.
LEMMA StartStep ==
    ASSUME Inv, todo = << >>, UNCHANGED <<class, files>>, online' \in BOOLEAN,
           left' \in [Tags -> {NoEnd} \cup 0 .. LongestTerm],
           wait' \in [SkillTags -> 0 .. LongestWait],
           NEW new \in Triples, NEW order \in Seq(Parts), order # << >>,
           Start(new, order),
           ending' \subseteq ending, ending' \cap SkillTags \subseteq new[2],
           Written(order, ptags, ctags, bonus, new),
           Ordered(order, ptags, ctags, bonus, new),
           tears.memory = 0 => Whole(new)
    PROVE  Inv'
<1>1. UNCHANGED <<class, disk, tears>> /\ goal' = new /\ todo' = Tail(order)
  BY DEF files, Start
<1>2. /\ ptags' = IF Head(order) = "ptags" THEN new[1] ELSE ptags
      /\ ctags' = IF Head(order) = "ctags" THEN new[2] ELSE ctags
      /\ bonus' = IF Head(order) \in Stats
                    THEN [bonus EXCEPT ![Head(order)] = new[3][Head(order)]] ELSE bonus
  BY DEF Start, Put
<1>3. /\ todo' \in Seq(Parts)
      /\ Written(todo', ptags', ctags', bonus', goal') /\ Ordered(todo', ptags', ctags', bonus', goal')
  BY <1>1, <1>2, OneWrite, OldTypes
<1>4. TypeOK'
  <2>1. ptags' \subseteq Marks /\ ctags' \subseteq Marks /\ bonus' \in [Stats -> Int]
    BY <1>2, OldTypes DEF Triples
  <2> QED BY <1>1, <1>3, <2>1, OldTypes DEF TypeOK, LongestTerm, LongestWait, Triples
<1>5. (tears.memory = 0 => Whole(goal)') /\ (Whole(disk) => Whole(disk)')
  BY <1>1 DEF Whole, Accounts, upDamageBonuses
<1>6. Written(todo, ptags, ctags, bonus, goal)' /\ Ordered(todo, ptags, ctags, bonus, goal)'
  BY <1>3
<1> QED BY <1>1, <1>4, <1>5, <1>6 DEF Inv

\* The writes that follow.
LEMMA WriteStep ==
    ASSUME Inv, Write
    PROVE  Inv'
<1>1. /\ UNCHANGED <<class, online, left, wait, goal, ending, disk, tears>>
      /\ todo # << >> /\ todo' = Tail(todo)
  BY DEF Write, memory, files
<1>2. /\ ptags' = IF Head(todo) = "ptags" THEN goal[1] ELSE ptags
      /\ ctags' = IF Head(todo) = "ctags" THEN goal[2] ELSE ctags
      /\ bonus' = IF Head(todo) \in Stats
                    THEN [bonus EXCEPT ![Head(todo)] = goal[3][Head(todo)]] ELSE bonus
  BY DEF Write, Put
<1>3. /\ todo' \in Seq(Parts)
      /\ Written(todo', ptags', ctags', bonus', goal) /\ Ordered(todo', ptags', ctags', bonus', goal)
  <2>1. Written(todo, ptags, ctags, bonus, goal) /\ Ordered(todo, ptags, ctags, bonus, goal)
    BY DEF Inv
  <2> QED BY <1>1, <1>2, <2>1, OneWrite, OldTypes
<1>4. TypeOK'
  <2>1. ptags' \subseteq Marks /\ ctags' \subseteq Marks /\ bonus' \in [Stats -> Int]
    BY <1>2, OldTypes DEF Triples
  <2> QED BY <1>1, <1>3, <2>1, OldTypes DEF TypeOK, LongestTerm, LongestWait, Triples
<1>5. (Whole(goal) => Whole(goal)') /\ (Whole(disk) => Whole(disk)')
  BY <1>1 DEF Whole, Accounts, upDamageBonuses
<1>6. Written(todo, ptags, ctags, bonus, goal)' /\ Ordered(todo, ptags, ctags, bonus, goal)'
  BY <1>1, <1>3
<1> QED BY <1>1, <1>4, <1>5, <1>6 DEF Inv

\* Where the four stats and the tags that ask for them stay as they are, the
\* order does not matter.
LEMMA AnyOrder ==
    ASSUME NEW q, NEW p, NEW c, NEW b, NEW g, Backed(p, c, b),
           g[1] \cap Lasting = p \cap Lasting, g[2] \cap Lasting = c \cap Lasting,
           \A k \in Four : g[3][k] = b[k]
    PROVE  Ordered(q, p, c, b, g)
<1>1. p \cap Lasting \subseteq c /\ \A k \in Four : b[k] >= Needs(k, c)
  BY BackedMeans
<1>2. \A k \in Four : Needs(k, g[2]) = Needs(k, c)
  <2>1. {"PHASTE", "PPOWER", "PMEDIT", "PPRAYD"} \subseteq Lasting
    BY SkillTagNames DEF Lasting
  <2>2. \A t \in Lasting : t \in g[2] <=> t \in c
    OBVIOUS
  <2> QED BY <2>1, <2>2 DEF Four, Needs
<1>3. Backed(g[1], g[2], g[3])
  BY <1>1, <1>2, BackedMeans
<1> QED BY <1>1, <1>2, <1>3 DEF Ordered


\* An operation begins, in an order that keeps what is written backed.
LEMMA PerformStep ==
    ASSUME Inv,
           left' \in [Tags -> {NoEnd} \cup 0 .. LongestTerm],
           wait' \in [SkillTags -> 0 .. LongestWait],
           NEW new \in Triples, NEW order \in Seq(Parts), order # << >>,
           Perform(new, order),
           Written(order, ptags, ctags, bonus, new),
           Ordered(order, ptags, ctags, bonus, new),
           tears.memory = 0 => Whole(new)
    PROVE  Inv'
<1>1. /\ todo = << >> /\ ending = {} /\ ending' = {}
      /\ Start(new, order) /\ UNCHANGED <<class, online, files>>
  BY DEF Perform, Idle
<1> QED BY <1>1, OldTypes, StartStep

\* One that changes nothing about skills may write in any order.
LEMMA SilentStep ==
    ASSUME Inv,
           left' \in [Tags -> {NoEnd} \cup 0 .. LongestTerm],
           wait' \in [SkillTags -> 0 .. LongestWait],
           NEW new \in Triples, NEW order \in Seq(Parts), order # << >>,
           Perform(new, order),
           new[1] \cap SkillTags = ptags \cap SkillTags,
           new[2] \cap SkillTags = ctags \cap SkillTags,
           \A k \in Counted : new[3][k] = bonus[k],
           Written(order, ptags, ctags, bonus, new)
    PROVE  Inv'
<1>1. Giving \subseteq SkillTags /\ Lasting \subseteq SkillTags /\ Four \subseteq Counted
  BY OtherTags DEF Lasting, Counted
<1>2. Ordered(order, ptags, ctags, bonus, new)
  BY <1>1, AnyOrder, OldTypes
<1>3. ASSUME tears.memory = 0 PROVE Whole(new)
  <2>1. ptags \cap Giving = ctags \cap Giving /\ Accounts(ctags, bonus)
    BY <1>3, AllWritten DEF Perform, Idle, Whole
  <2>2. new[1] \cap Giving = new[2] \cap Giving /\ ctags \cap Giving = new[2] \cap Giving
    BY <1>1, <2>1
  <2>3. Accounts(new[2], new[3])
    BY <2>1, <2>2, SameAccounts
  <2> QED BY <2>2, <2>3 DEF Whole
<1> QED BY <1>2, <1>3, PerformStep

\* An operation whose writes are one: nothing is left to write.
LEMMA WholeStep ==
    ASSUME Inv, UNCHANGED class, online' \in BOOLEAN,
           left' \in [Tags -> {NoEnd} \cup 0 .. LongestTerm],
           wait' \in [SkillTags -> 0 .. LongestWait],
           NEW new \in Triples, goal' = new,
           ptags' = new[1], ctags' = new[2], bonus' = new[3],
           todo' = << >>, ending' = {}, UNCHANGED disk,
           tears' \in [memory : Nat, file : Nat], tears'.file = tears.file,
           Backed(new[1], new[2], new[3]),
           tears'.memory = 0 => Whole(new)
    PROVE  Inv'
<1>1. TypeOK'
  <2>1. {goal', disk'} \subseteq (SUBSET Marks) \X (SUBSET Marks) \X [Stats -> Int]
    BY OldTypes DEF Triples
  <2>2. new[1] \subseteq Marks /\ new[2] \subseteq Marks /\ new[3] \in [Stats -> Int]
    BY DEF Triples
  <2>3. todo' \in Seq(Parts) /\ ending' \subseteq Tags /\ class' \in Classes
    BY OldTypes
  <2> QED BY <2>1, <2>2, <2>3 DEF TypeOK, LongestTerm, LongestWait
<1>2. Written(todo', ptags', ctags', bonus', goal')
  BY DEF Written
<1>3. Ordered(todo', ptags', ctags', bonus', goal')
  BY AnyOrder
<1>4. (tears'.memory = 0 => Whole(goal)') /\ (Whole(disk) => Whole(disk)')
  BY DEF Whole, Accounts, upDamageBonuses
<1>5. Written(todo, ptags, ctags, bonus, goal)' /\ Ordered(todo, ptags, ctags, bonus, goal)'
  BY <1>2, <1>3
<1>6. Backed(disk[1], disk[2], disk[3])' /\ (tears.file = 0 => Whole(disk))'
  BY <1>4 DEF Inv
<1>7. (ending \cap SkillTags \subseteq goal[2])' /\ (tears.memory = 0 => Whole(goal))'
  BY <1>4
<1> QED BY <1>1, <1>5, <1>6, <1>7 DEF Inv

-----------------------------------------------------------------------------
(* The operations *)

\* The orders in which the operations write, and what they write.
LEMMA InOrder ==
    ASSUME NEW q, NEW i \in 1 .. Len(q)
    PROVE  In(q, q[i])
BY DEF In

LEMMA TagOrders ==
    /\ CreatureFirst \in Seq(Parts) /\ CreatureFirst # << >>
    /\ In(CreatureFirst, "ctags") /\ In(CreatureFirst, "ptags")
    /\ Before(CreatureFirst, "ctags", "ptags")
    /\ PlayerFirst \in Seq(Parts) /\ PlayerFirst # << >>
    /\ In(PlayerFirst, "ctags") /\ In(PlayerFirst, "ptags")
<1> DEFINE q == CreatureFirst
           r == PlayerFirst
<1>1. Len(q) = 2 /\ q[1] = "ctags" /\ q[2] = "ptags" /\ q \in Seq(Parts) /\ q # << >>
  BY DEF CreatureFirst, Parts
<1>2. Len(r) = 2 /\ r[1] = "ptags" /\ r[2] = "ctags" /\ r \in Seq(Parts) /\ r # << >>
  BY DEF PlayerFirst, Parts
<1> HIDE DEF q, r
<1>3. In(q, "ctags") /\ In(q, "ptags") /\ Before(q, "ctags", "ptags")
  BY <1>1 DEF In, Before
<1>4. In(r, "ctags") /\ In(r, "ptags")
  BY <1>2 DEF In
<1> QED BY <1>1, <1>2, <1>3, <1>4 DEF q, r

LEMMA UpDamageOrder ==
    ASSUME NEW q, q = <<"pDice", "hpMax", "mpMax", "ctags", "ptags">>
    PROVE  /\ q \in Seq(Parts) /\ q # << >>
           /\ \A x \in {"pDice", "hpMax", "mpMax", "ctags", "ptags"} : In(q, x)
           /\ Before(q, "ctags", "ptags")
<1>1. /\ Len(q) = 5 /\ q[1] = "pDice" /\ q[2] = "hpMax" /\ q[3] = "mpMax"
      /\ q[4] = "ctags" /\ q[5] = "ptags"
  OBVIOUS
<1>2. q \in Seq(Parts) /\ q # << >>
  BY DEF Parts, Stats
<1>3. \A x \in {"pDice", "hpMax", "mpMax", "ctags", "ptags"} : In(q, x)
  BY <1>1, InOrder
<1>4. Before(q, "ctags", "ptags")
  <2>1. \A i \in 1 .. Len(q) : q[i] = "ptags" => i = 5
    BY <1>1
  <2> QED BY <1>1, <2>1 DEF Before
<1> QED BY <1>2, <1>3, <1>4

\* A skill that succeeds writes its bonuses, then its tag.
LEMMA UseSkillStep ==
    ASSUME Inv, NEW s \in Skills, UseSkill(s)
    PROVE  Inv'
<1> DEFINE m == s.marks
           g == Gives(s)
           new == <<ptags \cup m, ctags \cup m, Sum(bonus, g)>>
           q == s.order
<1>1. /\ m \cap ctags = {} /\ todo = << >>
      /\ Perform(new, q)
      /\ left' = [left EXCEPT ![s.tag] = Duration]
      /\ wait' = [wait EXCEPT ![s.tag] = SuccessWait]
  BY DEF UseSkill, SkillOrder, Perform, Idle
<1>2. /\ left' \in [Tags -> {NoEnd} \cup 0 .. LongestTerm]
      /\ wait' \in [SkillTags -> 0 .. LongestWait]
  BY <1>1, OldTypes, SkillAccounts, Terms, OtherTags
<1>3. m \subseteq Marks /\ g \in [Stats -> Int] /\ Accounts(m, g)
  BY SkillAccounts
<1>4. Sum(bonus, g) \in [Stats -> Int] /\ \A k \in Stats : Sum(bonus, g)[k] = bonus[k] + g[k]
  BY <1>3, OldTypes DEF Sum
<1>5. new \in Triples
  BY <1>3, <1>4, OldTypes DEF Triples
<1>6. \/ q = CreatureFirst /\ \A k \in Stats : g[k] = 0
      \/ \E k \in Four : q = StatFirst(k) /\ \A l \in Stats \ {k} : g[l] = 0
      \/ /\ q = <<"pDice", "hpMax", "mpMax", "ctags", "ptags">>
         /\ \A k \in Stats \ {"pDice", "hpMax", "mpMax"} : g[k] = 0
  BY SkillAccounts
<1>7. \A k \in Four : k \in Stats /\ g[k] = Needs(k, m) /\ g[k] \in Nat
  BY <1>3, NeedsAccounts
<1> HIDE DEF m, g, q
<1>8. /\ q \in Seq(Parts) /\ q # << >> /\ In(q, "ctags") /\ In(q, "ptags")
      /\ \A k \in Stats : In(q, k) \/ g[k] = 0
      /\ \A k \in Four : Before(q, k, "ctags") \/ g[k] = 0
      /\ Before(q, "ctags", "ptags")
  <2>1. CASE q = CreatureFirst /\ \A k \in Stats : g[k] = 0
    BY <1>7, <2>1, TagOrders
  <2>2. CASE \E k \in Four : q = StatFirst(k) /\ \A l \in Stats \ {k} : g[l] = 0
    <3>1. PICK k \in Four : q = StatFirst(k) /\ \A l \in Stats \ {k} : g[l] = 0
      BY <2>2
    <3> QED BY <1>7, <3>1, StatFirstOrder
  <2>3. CASE /\ q = <<"pDice", "hpMax", "mpMax", "ctags", "ptags">>
             /\ \A k \in Stats \ {"pDice", "hpMax", "mpMax"} : g[k] = 0
    <3>1. \A k \in Four : k \in Stats \ {"pDice", "hpMax", "mpMax"}
      BY <1>7 DEF Four
    <3> QED BY <2>3, <3>1, UpDamageOrder
  <2> QED BY <1>6, <2>1, <2>2, <2>3
<1>9. Written(q, ptags, ctags, bonus, new)
  <2>1. \A k \in Stats : bonus[k] \in Int /\ new[3][k] = bonus[k] + g[k]
    BY <1>4, OldTypes
  <2>2. \A k \in Stats : In(q, k) \/ bonus[k] = new[3][k]
    BY <1>8, <2>1
  <2>3. In(q, "ptags") /\ In(q, "ctags")
    BY <1>8
  <2> HIDE DEF new
  <2> QED BY <2>2, <2>3 DEF Written
<1>10. Ordered(q, ptags, ctags, bonus, new)
  <2>1. ptags \cap Lasting \subseteq ctags /\ \A k \in Four : bonus[k] >= Needs(k, ctags)
    BY OldTypes, BackedMeans
  <2>2. \A k \in Four : /\ Needs(k, ctags \cup m) = Needs(k, ctags) + g[k]
                        /\ Needs(k, ctags) \in Nat /\ bonus[k] \in Int
                        /\ new[3][k] = bonus[k] + g[k]
    <3> TAKE k \in Four
    <3>1. ctags \cap m = {}
      BY <1>1
    <3>2. Needs(k, ctags \cup m) = Needs(k, ctags) + Needs(k, m)
      BY <3>1 DEF Needs, Four
    <3> QED BY <1>4, <1>7, <3>2, NeedsAccounts, OldTypes
  <2>3. Backed(new[1], new[2], new[3])
    <3>1. \A k \in Four : new[3][k] >= Needs(k, ctags \cup m)
      <4> TAKE k \in Four
      <4>1. bonus[k] >= Needs(k, ctags) /\ g[k] >= 0 /\ g[k] \in Int
        BY <1>7, <2>1
      <4>2. /\ Needs(k, ctags \cup m) = Needs(k, ctags) + g[k]
            /\ Needs(k, ctags) \in Nat /\ bonus[k] \in Int /\ new[3][k] = bonus[k] + g[k]
        BY <2>2
      <4> HIDE DEF new
      <4> QED BY <4>1, <4>2
    <3>2. new[1] \cap Lasting \subseteq new[2]
      BY <2>1
    <3> QED BY <3>1, <3>2, BackedMeans
  <2>4. \A k \in Four : bonus[k] >= Needs(k, ctags \cup m) \/ Before(q, k, "ctags")
    <3> HIDE DEF new
    <3> TAKE k \in Four
    <3>1. bonus[k] >= Needs(k, ctags) /\ Needs(k, ctags \cup m) = Needs(k, ctags) + g[k]
      BY <2>1, <2>2
    <3>2. Needs(k, ctags) \in Nat /\ (Before(q, k, "ctags") \/ g[k] = 0)
      BY <1>8, <2>2
    <3> QED BY <3>1, <3>2
  <2>5. \A k \in Four : new[3][k] >= Needs(k, ctags)
    BY <1>7, <2>1, <2>2
  <2> QED BY <1>8, <2>1, <2>3, <2>4, <2>5, OldTypes DEF Ordered
<1>11. ASSUME tears.memory = 0 PROVE Whole(new)
  <2>1. ptags \cap Giving = ctags \cap Giving /\ Accounts(ctags, bonus)
    BY <1>1, <1>11, AllWritten DEF Whole
  <2>2. Accounts(ctags \cup m, Sum(bonus, g))
    BY <1>1, <1>3, <2>1, OldTypes, AccountsAdd
  <2> QED BY <2>1, <2>2 DEF Whole
<1> HIDE DEF new
<1> QED BY <1>1, <1>2, <1>5, <1>8, <1>9, <1>10, <1>11, PerformStep

\* One that fails only makes the next attempt wait.
LEMMA FailSkillStep ==
    ASSUME Inv, NEW s \in Skills, FailSkill(s)
    PROVE  Inv'
<1>1. /\ wait' = [wait EXCEPT ![s.tag] = s.failWait]
      /\ UNCHANGED <<class, online, saved, left, running, files>>
  BY DEF FailSkill
<1>2. wait' \in [SkillTags -> 0 .. LongestWait]
  BY <1>1, OldTypes, SkillAccounts, Terms
<1> QED BY <1>1, <1>2, OldTypes, SameTags

\* Spells, whoever casts them.
LEMMA CastStep ==
    ASSUME Inv, NEW s \in Spells,
           CastSpell(s) \/ (s \in MonsterSpells /\ MonsterCast(s)) \/ (s \in DMSpells /\ DMCast(s))
    PROVE  Inv'
<1>1. s.tag \in Tags /\ s.tag \in Marks /\ s.tag \notin SkillTags
  BY SpellTags, OtherTags
<1>2. left' \in {left, [left EXCEPT ![s.tag] = Duration]} /\ UNCHANGED wait
  BY DEF CastSpell, MonsterCast, DMCast
<1>3. /\ left' \in [Tags -> {NoEnd} \cup 0 .. LongestTerm]
      /\ wait' \in [SkillTags -> 0 .. LongestWait]
  BY <1>1, <1>2, OldTypes, Terms
<1> DEFINE both == <<ptags \cup {s.tag}, ctags \cup {s.tag}, bonus>>
           one == <<ptags \cup {s.tag}, ctags, bonus>>
<1>4. \/ Perform(both, CreatureFirst) \/ Perform(both, PlayerFirst) \/ Perform(one, <<"ptags">>)
  BY DEF CastSpell, MonsterCast, DMCast, With
<1>5. both \in Triples /\ one \in Triples
  BY <1>1, OldTypes DEF Triples
<1>6. CASE Perform(both, CreatureFirst) \/ Perform(both, PlayerFirst)
  <2>1. Written(CreatureFirst, ptags, ctags, bonus, both) /\ Written(PlayerFirst, ptags, ctags, bonus, both)
    BY TagOrders DEF Written
  <2>2. /\ both[1] \cap SkillTags = ptags \cap SkillTags
        /\ both[2] \cap SkillTags = ctags \cap SkillTags /\ both[3] = bonus
    BY <1>1
  <2> HIDE DEF both
  <2> QED BY <1>3, <1>5, <1>6, <2>1, <2>2, SilentStep, TagOrders
<1>7. CASE Perform(one, <<"ptags">>)
  <2> DEFINE q == <<"ptags">>
  <2>1. q \in Seq(Parts) /\ q # << >> /\ Len(q) = 1 /\ q[1] = "ptags"
    BY DEF Parts
  <2>2. Perform(one, q)
    BY <1>7
  <2> HIDE DEF q
  <2>3. In(q, "ptags")
    BY <2>1 DEF In
  <2>4. Written(q, ptags, ctags, bonus, one)
    BY <2>3 DEF Written
  <2>5. /\ one[1] \cap SkillTags = ptags \cap SkillTags
        /\ one[2] \cap SkillTags = ctags \cap SkillTags /\ one[3] = bonus
    BY <1>1
  <2> HIDE DEF one
  <2> QED BY <1>3, <1>5, <2>1, <2>2, <2>4, <2>5, SilentStep
<1> QED BY <1>4, <1>6, <1>7

\* Hiding and what takes a tag away that gives no stat.
LEMMA TagStep ==
    ASSUME Inv, Hide \/ ComeOut \/ Appear \/ RemoveBlindness \/ MonsterRemoveBlindness \/ RmGong
    PROVE  Inv'
<1>1. /\ left' \in [Tags -> {NoEnd} \cup 0 .. LongestTerm]
      /\ wait' \in [SkillTags -> 0 .. LongestWait]
  BY OldTypes DEF Hide, ComeOut, Appear, RemoveBlindness, MonsterRemoveBlindness, RmGong, memory
<1>2. "PHIDDN" \in Marks /\ \A t \in {"PHIDDN", "PINVIS", "PBLIND", "PFEARS"} : t \notin SkillTags
  BY OtherTags
<1>3. \A n \in Int : /\ Hidden(n) \in [Stats -> Int]
                     /\ \A k \in Stats : k # "PHIDDN" => Hidden(n)[k] = bonus[k]
  BY OldTypes DEF Hidden, Stats
<1>4. \A k \in Counted : k \in Stats /\ k # "PHIDDN"
  BY DEF Counted, Four, Stats
<1>5. CASE Hide
  <2> DEFINE q == <<"ctags", "PHIDDN", "ptags">>
             new == <<ptags \cup {"PHIDDN"}, ctags \cup {"PHIDDN"}, Hidden(1)>>
  <2>1. q \in Seq(Parts) /\ q # << >> /\ Len(q) = 3 /\ q[1] = "ctags" /\ q[2] = "PHIDDN" /\ q[3] = "ptags"
    BY DEF Parts, Stats
  <2>2. Perform(new, q)
    BY <1>5 DEF Hide
  <2> HIDE DEF q
  <2>3. In(q, "ptags") /\ In(q, "ctags") /\ In(q, "PHIDDN")
    BY <2>1 DEF In
  <2>4. /\ new \in Triples /\ new[1] \cap SkillTags = ptags \cap SkillTags
        /\ new[2] \cap SkillTags = ctags \cap SkillTags /\ new[3] = Hidden(1)
    BY <1>2, <1>3, OldTypes DEF Triples
  <2> HIDE DEF new
  <2>5. Written(q, ptags, ctags, bonus, new)
    BY <1>3, <2>3, <2>4 DEF Written
  <2>6. \A k \in Counted : new[3][k] = bonus[k]
    BY <1>3, <1>4, <2>4
  <2> QED BY <1>1, <2>1, <2>2, <2>4, <2>5, <2>6, SilentStep
<1>6. CASE ComeOut
  <2> DEFINE q == <<"ctags", "ptags", "PHIDDN">>
             new == <<ptags \ {"PHIDDN"}, ctags \ {"PHIDDN"}, Hidden(0)>>
  <2>1. q \in Seq(Parts) /\ q # << >> /\ Len(q) = 3 /\ q[1] = "ctags" /\ q[2] = "ptags" /\ q[3] = "PHIDDN"
    BY DEF Parts, Stats
  <2>2. Perform(new, q)
    BY <1>6 DEF ComeOut
  <2> HIDE DEF q
  <2>3. In(q, "ptags") /\ In(q, "ctags") /\ In(q, "PHIDDN")
    BY <2>1 DEF In
  <2>4. /\ new \in Triples /\ new[1] \cap SkillTags = ptags \cap SkillTags
        /\ new[2] \cap SkillTags = ctags \cap SkillTags /\ new[3] = Hidden(0)
    BY <1>2, <1>3, OldTypes DEF Triples
  <2> HIDE DEF new
  <2>5. Written(q, ptags, ctags, bonus, new)
    BY <1>3, <2>3, <2>4 DEF Written
  <2>6. \A k \in Counted : new[3][k] = bonus[k]
    BY <1>3, <1>4, <2>4
  <2> QED BY <1>1, <2>1, <2>2, <2>4, <2>5, <2>6, SilentStep
<1>7. CASE Appear \/ RemoveBlindness \/ MonsterRemoveBlindness \/ RmGong
  <2>1. PICK t \in {"PINVIS", "PBLIND", "PFEARS"} :
          \E q \in {CreatureFirst, PlayerFirst} : Perform(Without({t}), q)
    BY <1>7 DEF Appear, RemoveBlindness, MonsterRemoveBlindness, RmGong
  <2> DEFINE new == Without({t})
  <2>2. /\ new \in Triples /\ new[1] \cap SkillTags = ptags \cap SkillTags
        /\ new[2] \cap SkillTags = ctags \cap SkillTags /\ new[3] = bonus
    BY <1>2, OldTypes DEF Without, Triples
  <2>3. PICK q \in {CreatureFirst, PlayerFirst} : Perform(new, q)
    BY <2>1
  <2> HIDE DEF new
  <2>4. Written(q, ptags, ctags, bonus, new)
    BY <2>2, TagOrders DEF Written
  <2> QED BY <1>1, <2>2, <2>3, <2>4, SilentStep, TagOrders
<1> QED BY <1>5, <1>6, <1>7

\* A trap that removes spells shortens terms; the tags go with the status pass.
LEMMA TrapStep ==
    ASSUME Inv, RemoveSpellTrap
    PROVE  Inv'
<1>1. left' \in [Tags -> {NoEnd} \cup 0 .. LongestTerm]
  BY OldTypes, Terms DEF RemoveSpellTrap
<1> QED BY <1>1, OldTypes, SameTags DEF RemoveSpellTrap

\* What training, death and a change of class take, and leave alone.
LEMMA Losses ==
    ASSUME NEW l \in {upDamageBonuses, LevelDownTakes}, NEW b \in [Stats -> Int]
    PROVE  /\ l \in [Stats -> Int] /\ Accounts({"PUPDMG"}, l)
           /\ Less(b, l) \in [Stats -> Int]
           /\ \A k \in Stats \ {"pDice", "hpMax", "mpMax"} : Less(b, l)[k] = b[k]
<1>1. l \in [Stats -> Int] /\ Accounts({"PUPDMG"}, l)
  BY UpDamageTypes
<1>2. \A k \in Stats \ {"pDice", "hpMax", "mpMax"} : l[k] = 0
  BY DEF upDamageBonuses, LevelDownTakes, NoBonus
<1> HIDE DEF Accounts
<1>3. Less(b, l) \in [Stats -> Int] /\ \A k \in Stats : Less(b, l)[k] = b[k] - l[k]
  BY <1>1 DEF Less
<1>4. \A k \in Stats \ {"pDice", "hpMax", "mpMax"} : Less(b, l)[k] = b[k]
  BY <1>2, <1>3
<1> QED BY <1>1, <1>3, <1>4

\* The damage bonus taken back: whichever set of tags was asked, both had it.
LEMMA NewWithoutUpDamage ==
    ASSUME Inv, todo = << >>, "PUPDMG" \in ptags \cup ctags,
           NEW l \in {upDamageBonuses, LevelDownTakes},
           NEW new, new = NoUpDamage(Less(bonus, l)), NEW q
    PROVE  /\ new \in Triples /\ Backed(new[1], new[2], new[3])
           /\ Ordered(q, ptags, ctags, bonus, new)
           /\ tears.memory = 0 => Whole(new)
           /\ \A k \in Stats \ {"pDice", "hpMax", "mpMax"} : new[3][k] = bonus[k]
           /\ In(q, "ptags") /\ In(q, "ctags")
                /\ In(q, "pDice") /\ In(q, "hpMax") /\ In(q, "mpMax")
              => Written(q, ptags, ctags, bonus, new)
<1>1. /\ new[1] = ptags \ {"PUPDMG"} /\ new[2] = ctags \ {"PUPDMG"} /\ new[3] = Less(bonus, l)
      /\ new = <<ptags \ {"PUPDMG"}, ctags \ {"PUPDMG"}, Less(bonus, l)>>
  BY DEF NoUpDamage
<1>2. new \in Triples
  <2>1. Less(bonus, l) \in [Stats -> Int]
    BY OldTypes, Losses
  <2>2. ptags \ {"PUPDMG"} \in SUBSET Marks /\ ctags \ {"PUPDMG"} \in SUBSET Marks
    BY OldTypes
  <2> QED BY <1>1, <2>1, <2>2 DEF Triples
<1>3. \A k \in Stats \ {"pDice", "hpMax", "mpMax"} : new[3][k] = bonus[k]
  BY <1>1, OldTypes, Losses
<1>4. \A k \in Four : k \in Stats \ {"pDice", "hpMax", "mpMax"}
  BY DEF Four, Stats
<1>5. Ordered(q, ptags, ctags, bonus, new)
  <2>1. new[1] \cap Lasting = ptags \cap Lasting /\ new[2] \cap Lasting = ctags \cap Lasting
    BY <1>1 DEF Lasting
  <2>2. \A k \in Four : new[3][k] = bonus[k]
    BY <1>3, <1>4
  <2> QED BY <2>1, <2>2, AnyOrder, OldTypes
<1>6. ASSUME tears.memory = 0 PROVE Whole(new)
  <2>1. ptags \cap Giving = ctags \cap Giving /\ Accounts(ctags, bonus)
    BY <1>6, AllWritten DEF Whole
  <2>2. "PUPDMG" \in ctags
    BY <2>1 DEF Giving
  <2>3. l \in [Stats -> Int] /\ Accounts({"PUPDMG"}, l) /\ bonus \in [Stats -> Int]
    BY OldTypes, Losses
  <2>4. {"PUPDMG"} \cap Giving \subseteq ctags
    BY <2>2
  <2>5. Accounts(ctags \ {"PUPDMG"}, Less(bonus, l))
    BY <2>1, <2>3, <2>4, AccountsLess
  <2> QED BY <1>1, <2>1, <2>5 DEF Whole
<1>7. ASSUME In(q, "ptags"), In(q, "ctags"), In(q, "pDice"), In(q, "hpMax"), In(q, "mpMax")
      PROVE  Written(q, ptags, ctags, bonus, new)
  BY <1>3, <1>7 DEF Written
<1>8. Backed(new[1], new[2], new[3])
  BY <1>5 DEF Ordered
<1> QED BY <1>2, <1>3, <1>5, <1>6, <1>7, <1>8

LEMMA LoseBonusStep ==
    ASSUME Inv, trainClearUpDamage \/ DeathTakesLevel \/ applyClassChangeLevelDown
    PROVE  Inv'
<1>1. CASE trainClearUpDamage
  <2> DEFINE new == NoUpDamage(Less(bonus, upDamageBonuses))
             q == <<"pDice", "hpMax", "mpMax", "ctags", "ptags">>
  <2>1. "PUPDMG" \in ptags \cup ctags /\ Perform(new, q) /\ UNCHANGED <<left, wait>> /\ todo = << >>
    BY <1>1 DEF trainClearUpDamage, memory, Perform, Idle
  <2>2. /\ q \in Seq(Parts) /\ q # << >>
        /\ \A x \in {"pDice", "hpMax", "mpMax", "ctags", "ptags"} : In(q, x)
    BY UpDamageOrder
  <2> HIDE DEF new, q
  <2>3. /\ new \in Triples /\ Written(q, ptags, ctags, bonus, new)
        /\ Ordered(q, ptags, ctags, bonus, new) /\ (tears.memory = 0 => Whole(new))
    BY <2>1, <2>2, NewWithoutUpDamage DEF new
  <2> QED BY <2>1, <2>2, <2>3, OldTypes, PerformStep
<1>2. CASE DeathTakesLevel
  <2> DEFINE new == NoUpDamage(Less(bonus, LevelDownTakes))
  <2>1. /\ "PUPDMG" \in ptags \cup ctags /\ todo = << >> /\ ending = {}
        /\ goal' = new /\ ptags' = new[1] /\ ctags' = new[2] /\ bonus' = new[3]
        /\ UNCHANGED <<class, online, left, wait, todo, ending, disk, tears>>
    BY <1>2 DEF DeathTakesLevel, memory, files, Idle
  <2> HIDE DEF new
  <2>2. new \in Triples /\ Backed(new[1], new[2], new[3]) /\ (tears.memory = 0 => Whole(new))
    BY <2>1, NewWithoutUpDamage DEF new
  <2> QED BY <2>1, <2>2, OldTypes, WholeStep
<1>3. CASE applyClassChangeLevelDown
  <2> DEFINE new == NoUpDamage(Less(bonus, LevelDownTakes))
  <2>1. "PUPDMG" \in ptags \cup ctags /\ UNCHANGED <<left, wait>> /\ todo = << >>
    BY <1>3 DEF applyClassChangeLevelDown, memory, Perform, Idle
  <2>2. PICK i, j, k \in {"pDice", "hpMax", "mpMax"} :
          i # j /\ i # k /\ j # k /\ Perform(new, <<"ctags", "ptags", i, j, k>>)
    BY <1>3 DEF applyClassChangeLevelDown
  <2> DEFINE q == <<"ctags", "ptags", i, j, k>>
  <2>3. /\ Len(q) = 5 /\ q[1] = "ctags" /\ q[2] = "ptags" /\ q[3] = i /\ q[4] = j /\ q[5] = k
        /\ q \in Seq(Parts) /\ q # << >>
    BY DEF Parts, Stats
  <2>4. Perform(new, q)
    BY <2>2
  <2> HIDE DEF new, q
  <2>5. In(q, "ctags") /\ In(q, "ptags") /\ In(q, i) /\ In(q, j) /\ In(q, k)
    BY <2>3 DEF In
  <2>6. {i, j, k} = {"pDice", "hpMax", "mpMax"}
    BY <2>2
  <2>7. In(q, "pDice") /\ In(q, "hpMax") /\ In(q, "mpMax")
    BY <2>5, <2>6
  <2>8. /\ new \in Triples /\ Written(q, ptags, ctags, bonus, new)
        /\ Ordered(q, ptags, ctags, bonus, new) /\ (tears.memory = 0 => Whole(new))
    BY <2>1, <2>5, <2>7, NewWithoutUpDamage DEF new
  <2> QED BY <2>1, <2>3, <2>4, <2>8, OldTypes, PerformStep
<1> QED BY <1>1, <1>2, <1>3

\* Buying states writes the dice of the damage skill again.
LEMMA BuyStatesStep ==
    ASSUME Inv, buyStatesRefreshDamageDice
    PROVE  Inv'
<1> DEFINE new == <<ptags, ctags, [bonus EXCEPT !["pDice"] = 0]>>
           q == <<"pDice">>
<1>1. Perform(new, q) /\ UNCHANGED <<left, wait>>
  BY DEF buyStatesRefreshDamageDice, memory
<1>2. q \in Seq(Parts) /\ q # << >> /\ Len(q) = 1 /\ q[1] = "pDice"
  BY DEF Parts, Stats
<1>3. /\ new \in Triples /\ new[1] = ptags /\ new[2] = ctags
      /\ \A k \in Stats : k # "pDice" => new[3][k] = bonus[k]
  BY OldTypes DEF Triples
<1>4. \A k \in Counted : k \in Stats /\ k # "pDice"
  BY DEF Counted, Four, Stats
<1> HIDE DEF q, new
<1>5. In(q, "pDice")
  BY <1>2 DEF In
<1>6. Written(q, ptags, ctags, bonus, new)
  BY <1>3, <1>5 DEF Written
<1> QED BY <1>1, <1>2, <1>3, <1>4, <1>6, OldTypes, SilentStep

\* The status pass looks at the creature: what it ends is there.
LEMMA StatusStep ==
    ASSUME Inv, updateStatusExpirations
    PROVE  Inv'
<1>1. /\ left' = [e \in Tags |-> IF e \in Checked THEN checkExpiry(e) ELSE left[e]]
      /\ ending' = Expired /\ todo = << >>
      /\ UNCHANGED <<class, online, ptags, ctags, bonus, wait, goal, todo, disk, tears>>
  BY DEF updateStatusExpirations, saved, files, Idle
<1>2. Expired \subseteq Tags /\ Expired \cap SkillTags \subseteq ctags
  <2>1. "PHIDDN" \notin SkillTags
    BY OtherTags
  <2> QED BY <2>1 DEF Expired, Carries, Checked
<1>3. ctags = goal[2]
  BY <1>1, AllWritten
<1>4. left' \in [Tags -> {NoEnd} \cup 0 .. LongestTerm]
  <2>1. \A e \in Tags : checkExpiry(e) \in {NoEnd, DefaultTerm, left[e]}
    BY DEF checkExpiry
  <2> QED BY <1>1, <2>1, OldTypes, Terms
<1>5. TypeOK'
  BY <1>1, <1>2, <1>4 DEF Inv, TypeOK, LongestTerm, LongestWait
<1>6. (Whole(goal) => Whole(goal)') /\ (Whole(disk) => Whole(disk)')
  BY <1>1 DEF Whole, Accounts, upDamageBonuses
<1> QED BY <1>1, <1>2, <1>3, <1>5, <1>6 DEF Inv

\* An effect ends: the tags first, then the stats, no more than it gave.
LEMMA ExpireStep ==
    ASSUME Inv, NEW e \in Tags, Expire(e)
    PROVE  Inv'
<1> DEFINE x == ExpiryTakes(e)
           new == <<ptags \ {e}, ctags \ {e}, Less(bonus, x)>>
           q == ExpiryOrder(e)
<1>1. /\ e \in ending /\ todo = << >> /\ Start(new, q) /\ ending' = ending \ {e}
      /\ UNCHANGED <<class, online, left, wait, files>>
  BY DEF Expire, memory
<1>2. {e} \cap SkillTags \subseteq ctags
  BY <1>1, AllWritten
<1>3. x \in [Stats -> Int] /\ Accounts({e}, x)
  BY ExpiryAccounts
<1>4. Less(bonus, x) \in [Stats -> Int] /\ \A k \in Stats : Less(bonus, x)[k] = bonus[k] - x[k]
  BY <1>3, OldTypes DEF Less
<1>5. new \in Triples
  BY <1>4, OldTypes DEF Triples
<1>6. \A k \in Four : k \in Stats /\ x[k] = Needs(k, {e}) /\ x[k] \in Nat
  BY <1>3, NeedsAccounts
<1>7. /\ q \in Seq(Parts) /\ q # << >> /\ In(q, "ptags") /\ In(q, "ctags")
      /\ Before(q, "ptags", "ctags")
      /\ \A k \in Stats : In(q, k) \/ x[k] = 0
      /\ \A k \in Four : Before(q, "ctags", k)
  BY ExpiryOrders
<1> HIDE DEF x, q
<1>8. Written(q, ptags, ctags, bonus, new)
  <2>1. \A k \in Stats : bonus[k] \in Int /\ new[3][k] = bonus[k] - x[k]
    BY <1>4, OldTypes
  <2>2. \A k \in Stats : In(q, k) \/ bonus[k] = new[3][k]
    BY <1>7, <2>1
  <2> HIDE DEF new
  <2> QED BY <1>7, <2>2 DEF Written
<1>9. Ordered(q, ptags, ctags, bonus, new)
  <2>1. ptags \cap Lasting \subseteq ctags /\ \A k \in Four : bonus[k] >= Needs(k, ctags)
    BY OldTypes, BackedMeans
  <2>2. \A k \in Four : /\ Needs(k, ctags \ {e}) = Needs(k, ctags) - x[k]
                        /\ Needs(k, ctags) \in Nat /\ bonus[k] \in Int
                        /\ new[3][k] = bonus[k] - x[k]
    <3> TAKE k \in Four
    <3>1. {"PHASTE", "PPOWER", "PMEDIT", "PPRAYD"} \subseteq SkillTags
      BY SkillTagNames
    <3>2. Needs(k, ctags \ {e}) = Needs(k, ctags) - Needs(k, {e})
      BY <1>2, <3>1 DEF Needs, Four
    <3> QED BY <1>4, <1>6, <3>2, NeedsAccounts, OldTypes
  <2>3. \A k \in Four : /\ new[3][k] >= Needs(k, ctags \ {e})
                        /\ bonus[k] >= Needs(k, ctags \ {e})
    <3> TAKE k \in Four
    <3>1. /\ bonus[k] >= Needs(k, ctags) /\ x[k] \in Nat
          /\ Needs(k, ctags \ {e}) = Needs(k, ctags) - x[k]
          /\ Needs(k, ctags) \in Nat /\ bonus[k] \in Int /\ new[3][k] = bonus[k] - x[k]
      BY <1>6, <2>1, <2>2
    <3> HIDE DEF new
    <3> QED BY <3>1
  <2>4. Backed(new[1], new[2], new[3])
    <3>1. new[1] \cap Lasting \subseteq new[2]
      BY <2>1
    <3> QED BY <2>3, <3>1, BackedMeans
  <2> QED BY <1>7, <2>1, <2>3, <2>4, OldTypes DEF Ordered
<1>10. ASSUME tears.memory = 0 PROVE Whole(new)
  <2>1. ptags \cap Giving = ctags \cap Giving /\ Accounts(ctags, bonus)
    BY <1>1, <1>10, AllWritten DEF Whole
  <2>2. {e} \cap Giving \subseteq ctags
    BY <1>2, OtherTags
  <2>3. Accounts(ctags \ {e}, Less(bonus, x))
    BY <1>3, <2>1, <2>2, OldTypes, AccountsLess
  <2> QED BY <2>1, <2>3 DEF Whole
<1>11. ending' \subseteq ending /\ ending' \cap SkillTags \subseteq new[2]
  BY <1>1, AllWritten
<1> HIDE DEF new
<1> QED BY <1>1, <1>5, <1>7, <1>8, <1>9, <1>10, <1>11, OldTypes, StartStep

\* A second passes: terms and waits run down, nothing ends by itself.
LEMMA ClockStep ==
    ASSUME Inv, Clock
    PROVE  Inv'
<1>1. /\ left' = [e \in Tags |-> IF left[e] > 0 THEN left[e] - 1 ELSE left[e]]
      /\ wait' = [e \in SkillTags |-> IF wait[e] > 0 THEN wait[e] - 1 ELSE 0]
      /\ UNCHANGED <<class, online, saved, running, files>>
  BY DEF Clock
<1>2. LongestTerm \in Nat /\ LongestWait \in Nat
  BY Terms
<1>3. left' \in [Tags -> {NoEnd} \cup 0 .. LongestTerm]
  BY <1>1, <1>2, OldTypes DEF NoEnd
<1>4. wait' \in [SkillTags -> 0 .. LongestWait]
  BY <1>1, <1>2, OldTypes
<1> QED BY <1>1, <1>3, <1>4, OldTypes, SameTags

\* A save copies what is written so far; it counts as torn unless that is all.
LEMMA SaveStep ==
    ASSUME Inv, Save
    PROVE  Inv'
<1>1. /\ disk' = <<ptags, ctags, bonus>>
      /\ tears' = [tears EXCEPT !.file = tears.memory + (IF saved = goal THEN 0 ELSE 1)]
      /\ UNCHANGED <<class, online, ptags, ctags, bonus, left, wait, goal, todo, ending>>
  BY DEF Save, saved, memory, running
<1>2. tears' \in [memory : Nat, file : Nat] /\ tears'.memory = tears.memory
      /\ tears'.file = tears.memory + (IF saved = goal THEN 0 ELSE 1)
  BY <1>1, OldTypes
<1>3. disk' \in Triples
  BY <1>1, OldTypes DEF Triples
<1>4. TypeOK'
  BY <1>1, <1>2, <1>3 DEF Inv, TypeOK, Triples
<1>5. Whole(goal) => Whole(goal)'
  BY <1>1 DEF Whole, Accounts, upDamageBonuses
<1>6. ASSUME tears'.file = 0 PROVE Whole(disk)'
  <2>1. tears.memory = 0 /\ saved = goal
    BY <1>2, <1>6, OldTypes
  <2>2. disk' = goal /\ Whole(goal)
    BY <1>1, <2>1 DEF Inv, saved
  <2> QED BY <1>1, <2>2 DEF Whole, Accounts, upDamageBonuses
<1>7. Backed(disk[1], disk[2], disk[3])'
  BY <1>1, OldTypes
<1> QED BY <1>1, <1>2, <1>4, <1>5, <1>6, <1>7 DEF Inv

\* A restart starts with a file, and with the file's tears.
LEMMA RestartStep ==
    ASSUME Inv, Restart
    PROVE  Inv'
<1>1. /\ online' = FALSE /\ ptags' = disk[1] /\ ctags' = disk[2] /\ bonus' = disk[3]
      /\ goal' = disk /\ todo' = << >> /\ ending' = {}
      /\ left' = [e \in Tags |-> NoEnd] /\ wait' = [e \in SkillTags |-> 0]
      /\ tears' = [tears EXCEPT !.memory = tears.file] /\ UNCHANGED <<class, disk>>
  BY DEF Restart
<1>2. /\ left' \in [Tags -> {NoEnd} \cup 0 .. LongestTerm]
      /\ wait' \in [SkillTags -> 0 .. LongestWait]
  BY <1>1, Terms
<1>3. /\ tears' \in [memory : Nat, file : Nat] /\ tears'.file = tears.file
      /\ tears'.memory = tears.file
  BY <1>1, OldTypes
<1>4. disk \in Triples /\ Backed(disk[1], disk[2], disk[3]) /\ (tears.file = 0 => Whole(disk))
  BY OldTypes DEF Inv
<1> QED BY <1>1, <1>2, <1>3, <1>4, WholeStep

\* Every step keeps the invariant.
LEMMA StepInv == Inv /\ [Next]_vars => Inv'
<1> SUFFICES ASSUME Inv, [Next]_vars PROVE Inv'
  OBVIOUS
<1>1. CASE Enter \/ Leave \/ UNCHANGED vars
  BY <1>1, OldTypes, SameTags DEF Enter, Leave, vars, memory
<1>2. ASSUME NEW s \in Skills, UseSkill(s) \/ FailSkill(s) PROVE Inv'
  BY <1>2, UseSkillStep, FailSkillStep
<1>3. ASSUME NEW s \in Spells, CastSpell(s) PROVE Inv'
  BY <1>3, CastStep
<1>4. ASSUME NEW s \in MonsterSpells, MonsterCast(s) PROVE Inv'
  BY <1>4, CastStep, OtherTags
<1>5. ASSUME NEW s \in DMSpells, DMCast(s) PROVE Inv'
  BY <1>5, CastStep, OtherTags
<1>6. ASSUME NEW e \in Tags, Expire(e) PROVE Inv'
  BY <1>6, ExpireStep
<1> QED BY <1>1, <1>2, <1>3, <1>4, <1>5, <1>6, TagStep, TrapStep, LoseBonusStep, BuyStatesStep,
           WriteStep, StatusStep, ClockStep, SaveStep, RestartStep DEF Next

-----------------------------------------------------------------------------
(* Theorems *)

\* What always holds of the effects, in memory and in the file, between any two
\* writes.
THEOREM EffectsInvariant == Spec => []Inv
BY InitInv, StepInv, PTL DEF Spec

\* Types; no effect's time and no cooldown is ever longer than its term.
THEOREM EffectTypes == Spec => []TypeOK
<1>1. Inv => TypeOK
  BY DEF Inv
<1> QED BY <1>1, EffectsInvariant, PTL

\* Skills, updateStatusExpirations, training, deaths, changes of class, saves and
\* restarts, in any order: as long as no save came between two writes of one
\* operation, no bonus is given twice or taken back twice.
THEOREM BonusesFollowTags == Spec => []StatsFollowEffects
<1>1. ASSUME Inv PROVE StatsFollowEffects
  <2>1. tears.memory = 0 /\ todo = << >> => Accounts(ctags, bonus)
    BY <1>1, AllWritten DEF Whole
  <2>2. tears.file = 0 => Accounts(disk[2], disk[3])
    BY <1>1 DEF Inv, Whole
  <2> QED BY <2>1, <2>2 DEF StatsFollowEffects
<1> QED BY <1>1, EffectsInvariant, PTL

\* The same, with saves and restarts between any two writes: no effect is left
\* whose end takes more than it gave, or that the status pass cannot see.
THEOREM EffectsStayBacked == Spec => []EffectsAreBacked
<1>1. Inv => EffectsAreBacked
  BY DEF Inv, Ordered, EffectsAreBacked
<1> QED BY <1>1, EffectsInvariant, PTL

=============================================================================
