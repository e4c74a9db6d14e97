------------------------------ MODULE Effects ------------------------------
(***************************************************************************)
(* The timed effects on one player: skills the player uses on itself,      *)
(* spells, potions, scrolls and monsters' castings, the status pass of the *)
(* world tick that ends them (updateStatusExpirations), and what else      *)
(* takes an effect away: revealing, cures, traps, losing a level, training.*)
(*                                                                         *)
(* An effect is held in four places: tags on the player and tags on its    *)
(* creature, some creature stats, the time the effect ends and the skill's *)
(* cooldown.  A save writes tags and stats; the two times are kept in      *)
(* memory only, and a restart loses them.                                  *)
(*                                                                         *)
(* The loop runs one command or one pass at a time, but each of its writes *)
(* to a set of tags or to a stat takes and releases the world's locks, so  *)
(* the saver and the flush of a shutdown, which are other goroutines, come *)
(* in between, and so does a crash: an operation is its first write, and a *)
(* step for each of the writes that follow.  Only the loop uses the two    *)
(* times: they change with the first write.                                *)
(*                                                                         *)
(* Who casts, the mana it costs and the dice that refuse a casting decide  *)
(* only whether a step happens, and are left out.                          *)
(***************************************************************************)
EXTENDS Integers, FiniteSets, Sequences

CONSTANTS
    Ranks,        \* the classes an instance looks at
    Learned,      \* the effects that come up in an instance
    Duration,     \* how long a casting lasts
    DefaultTerm,  \* how long an effect lasts whose end is not known
    SuccessWait,  \* cooldown of a skill that worked
    MaxActive,    \* bound: effects on the player at one time
    MaxDice,      \* bound: damage dice above the player's own
    TornBefore,   \* bound: the parts before whose write an instance saves
    MaxTears      \* bound: saves in the middle of an operation, one restarted from
                  \* the other

\* Hiding writes a stat as well as a tag.
Stats == {"dexterity", "strength", "intelligence", "piety", "hpMax", "mpMax", "pDice", "PHIDDN"}
Parts == {"ptags", "ctags"} \cup Stats
Classes == {"mortal", "invincible", "dm"}   \* below, from, and beyond ClassInvincible

ASSUME EffectAssumption ==
    /\ Ranks \subseteq Classes /\ TornBefore \subseteq Parts
    /\ Duration \in Nat \ {0} /\ DefaultTerm \in Nat \ {0}
    /\ SuccessWait \in Nat /\ Duration <= SuccessWait
    /\ MaxActive \in Nat /\ MaxDice \in Nat /\ MaxTears \in Nat

VARIABLES
    class,    \* the creature's class, compared with ClassInvincible and ClassDM
    online,   \* the player has an active session
    ptags,    \* effect tags of the player record
    ctags,    \* effect tags of its creature
    left,     \* effectExpirations: time left, NoEnd if there is no entry
    wait,     \* cooldowns of the skills
    bonus,    \* stats, relative to what they are without any effect
    goal,     \* tags and stats as they are when the operation is done
    todo,     \* the parts the operation has still to write, in its order
    ending,   \* effects the status pass has still to end
    disk,     \* tags and stats of the last save
    tears     \* history: saves in the middle of an operation that led to the
              \* state in memory, and to the file

saved == <<ptags, ctags, bonus>>
memory == <<left, wait>>
running == <<goal, todo, ending>>
files == <<disk, tears>>
vars == <<class, online, saved, memory, running, files>>

NoEnd == -1
NoBonus == [s \in Stats |-> 0]
Only(s, n) == [NoBonus EXCEPT ![s] = n]

-----------------------------------------------------------------------------
(* Skills.  "marks" are the tags a success writes and an attempt looks at,  *)
(* "order" the parts a success writes, one after the other.                *)

CreatureFirst == <<"ctags", "ptags">>
StatFirst(k) == <<k, "ctags", "ptags">>

Haste    == [tag |-> "PHASTE", marks |-> {"PHASTE"}, failWait |-> 1,
             order |-> StatFirst("dexterity"), gives |-> Only("dexterity", 15)]
Power    == [tag |-> "PPOWER", marks |-> {"PPOWER"}, failWait |-> 1,
             order |-> StatFirst("strength"), gives |-> Only("strength", 3)]
Meditate == [tag |-> "PMEDIT", marks |-> {"PMEDIT"}, failWait |-> 1,
             order |-> StatFirst("intelligence"), gives |-> Only("intelligence", 3)]
\* The tag "pray" is not one of the aliases of PPRAYD.
Pray     == [tag |-> "PPRAYD", marks |-> {"PPRAYD", "pray"}, failWait |-> 1,
             order |-> StatFirst("piety"), gives |-> Only("piety", 5)]
\* Nor is the tag "accurate" an alias of PSLAYE.
Accurate == [tag |-> "PSLAYE", marks |-> {"PSLAYE", "accurate"}, failWait |-> 1,
             order |-> CreatureFirst, gives |-> NoBonus]
Reflect  == [tag |-> "PREFLECT", marks |-> {"PREFLECT"}, failWait |-> 1,
             order |-> CreatureFirst, gives |-> NoBonus]
Angel    == [tag |-> "PANGEL", marks |-> {"PANGEL"}, failWait |-> 0,
             order |-> CreatureFirst, gives |-> NoBonus]

upDamageBonuses ==
    [NoBonus EXCEPT !["pDice"] = IF class = "mortal" THEN 2 ELSE 3,
                    !["hpMax"] = IF class = "mortal" THEN 50 ELSE 100,
                    !["mpMax"] = IF class = "mortal" THEN 20 ELSE 100]
UpDamage == [tag |-> "PUPDMG", marks |-> {"PUPDMG"}, failWait |-> 1,
             order |-> <<"pDice", "hpMax", "mpMax", "ctags", "ptags">>, gives |-> NoBonus]
Gives(s) == IF s.tag = "PUPDMG" THEN upDamageBonuses ELSE s.gives

Skills == {Haste, Power, Meditate, Pray, Accurate, Reflect, Angel, UpDamage}
SkillTags == {s.tag : s \in Skills}

(* Spells.  A timed one sets its end at once, the others leave it to the    *)
(* status pass; a trap can end those it names.                              *)

Spell(tag, timed) == [tag |-> tag, timed |-> timed]
Bless           == Spell("PBLESS", TRUE)
Protection      == Spell("PPROTE", TRUE)
ResistFire      == Spell("PRFIRE", TRUE)
ResistCold      == Spell("PRCOLD", TRUE)
ResistMagic     == Spell("PRMAGI", TRUE)
BreatheWater    == Spell("PBRWAT", TRUE)
EarthShield     == Spell("PSSHLD", TRUE)
Fly             == Spell("PFLYSP", TRUE)
Levitate        == Spell("PLEVIT", TRUE)
KnowAlignment   == Spell("PKNOWA", TRUE)
DetectInvisible == Spell("PDINVI", TRUE)
DetectMagic     == Spell("PDMAGI", TRUE)
Invisibility    == Spell("PINVIS", TRUE)
Light           == Spell("PLIGHT", TRUE)
Silence         == Spell("PSILNC", FALSE)
Fear            == Spell("PFEARS", FALSE)
Charm           == Spell("PCHARM", FALSE)
Blind           == Spell("PBLIND", FALSE)

Spells == {Bless, Protection, ResistFire, ResistCold, ResistMagic, BreatheWater,
           EarthShield, Fly, Levitate, KnowAlignment, DetectInvisible, DetectMagic,
           Invisibility, Light, Silence, Fear, Charm, Blind}

\* What a monster and what the DM's *cast put on a player.
MonsterSpells == Spells \ {Light}
PlayerOnly == {Silence, Fear, Blind}   \* a monster tags the player, not the creature
DMSpells == {Bless, Protection, Invisibility, DetectMagic, ResistFire, ResistMagic,
             DetectInvisible, Fly, Light, Levitate, KnowAlignment, EarthShield}
TrapSpells == {"PPROTE", "PBLESS", "PRFIRE", "PRCOLD", "PBRWAT", "PSSHLD", "PRMAGI",
               "PLIGHT", "PDINVI", "PINVIS", "PKNOWA", "PDMAGI"}

Tags == SkillTags \cup {s.tag : s \in Spells} \cup {"PHIDDN"}
Aliases == {"pray", "accurate"}
Marks == Tags \cup Aliases

\* An instance follows the effects it has learned, MaxActive at a time.
Room(tag) == tag \in Learned /\ Cardinality((ptags \cup {tag}) \cap Tags) <= MaxActive

Init ==
    /\ class \in Ranks
    /\ online = FALSE
    /\ ptags = {} /\ ctags = {} /\ bonus = NoBonus
    /\ left = [e \in Tags |-> NoEnd]
    /\ wait = [e \in SkillTags |-> 0]
    /\ goal = saved /\ todo = << >> /\ ending = {}
    /\ disk = saved /\ tears = [memory |-> 0, file |-> 0]

Sum(b1, b2) == [s \in Stats |-> b1[s] + b2[s]]
Less(b1, b2) == [s \in Stats |-> b1[s] - b2[s]]
With(tags) == <<ptags \cup tags, ctags \cup tags, bonus>>
Without(tags) == <<ptags \ tags, ctags \ tags, bonus>>

-----------------------------------------------------------------------------
(* Writing: UpdatePlayerTags, UpdateCreatureTags and SetCreatureStat.       *)

Idle == todo = << >> /\ ending = {}

Put(part, new) ==
    /\ ptags' = IF part = "ptags" THEN new[1] ELSE ptags
    /\ ctags' = IF part = "ctags" THEN new[2] ELSE ctags
    /\ bonus' = IF part \in Stats THEN [bonus EXCEPT ![part] = new[3][part]] ELSE bonus

\* The first write of an operation that makes the tags and stats new.
Start(new, order) ==
    /\ goal' = new
    /\ Put(Head(order), new)
    /\ todo' = Tail(order)

\* Commands run one after the other, and not during a pass.
Perform(new, order) ==
    /\ Idle
    /\ Start(new, order)
    /\ UNCHANGED <<class, online, ending, files>>

Write ==
    /\ todo # << >>
    /\ Put(Head(todo), goal)
    /\ todo' = Tail(todo)
    /\ UNCHANGED <<class, online, memory, goal, ending, files>>

PlayerFirst == <<"ptags", "ctags">>

-----------------------------------------------------------------------------
(* Commands *)

\* A mutant.
TagsFirst(s) ==
    LET n == Len(s.order)
    IN SubSeq(s.order, n - 1, n) \o SubSeq(s.order, 1, n - 2)
\* The stats, then the tags.
SkillOrder(s) == s.order

UseSkill(s) ==
    /\ online /\ Room(s.tag)
    /\ s.marks \cap (ptags \cup ctags) = {}
    /\ wait[s.tag] = 0
    /\ bonus["pDice"] + Gives(s)["pDice"] <= MaxDice
    /\ Perform(<<ptags \cup s.marks, ctags \cup s.marks, Sum(bonus, Gives(s))>>, SkillOrder(s))
    /\ left' = [left EXCEPT ![s.tag] = Duration]
    /\ wait' = [wait EXCEPT ![s.tag] = SuccessWait]

FailSkill(s) ==
    /\ Idle /\ online /\ Room(s.tag)
    /\ s.marks \cap (ptags \cup ctags) = {}
    /\ wait[s.tag] = 0
    /\ wait' = [wait EXCEPT ![s.tag] = s.failWait]
    /\ UNCHANGED <<class, online, saved, left, running, files>>

\* Mutant: a second casting adds its term to the first one's.
CastAdds(s) ==
    /\ online /\ Room(s.tag)
    /\ Perform(With({s.tag}), CreatureFirst)
    /\ left' = IF s.timed THEN [left EXCEPT ![s.tag] = @ + Duration + 1] ELSE left
    /\ UNCHANGED wait

\* Cast by the player or another one, drunk, read or zapped.  A second
\* casting starts the term again.
CastSpell(s) ==
    /\ online /\ Room(s.tag)
    /\ Perform(With({s.tag}), CreatureFirst)
    /\ left' = IF s.timed THEN [left EXCEPT ![s.tag] = Duration] ELSE left
    /\ UNCHANGED wait

MonsterCast(s) ==
    /\ online /\ Room(s.tag)
    /\ IF s \in PlayerOnly
         THEN Perform(<<ptags \cup {s.tag}, ctags, bonus>>, <<"ptags">>)
         ELSE Perform(With({s.tag}), PlayerFirst)
    /\ left' = IF s.timed THEN [left EXCEPT ![s.tag] = Duration] ELSE left
    /\ UNCHANGED wait

DMCast(s) ==
    /\ online /\ Room(s.tag)
    /\ Perform(With({s.tag}), CreatureFirst)
    /\ left' = [left EXCEPT ![s.tag] = Duration]
    /\ UNCHANGED wait

Hidden(n) == [bonus EXCEPT !["PHIDDN"] = n]

Hide ==
    /\ online /\ Room("PHIDDN")
    /\ Perform(<<ptags \cup {"PHIDDN"}, ctags \cup {"PHIDDN"}, Hidden(1)>>,
               <<"ctags", "PHIDDN", "ptags">>)
    /\ UNCHANGED memory

\* A failed hide and almost every other command: clearCommandActorHidden.
ComeOut ==
    /\ online
    /\ Perform(<<ptags \ {"PHIDDN"}, ctags \ {"PHIDDN"}, Hidden(0)>>,
               <<"ctags", "ptags", "PHIDDN">>)
    /\ UNCHANGED memory

\* Attacking magic makes the caster visible.
Appear ==
    /\ online
    /\ Perform(Without({"PINVIS"}), CreatureFirst)
    /\ UNCHANGED memory

RemoveBlindness ==
    /\ online
    /\ Perform(Without({"PBLIND"}), CreatureFirst)
    /\ UNCHANGED memory

\* A monster cures the player record first.
MonsterRemoveBlindness ==
    /\ online
    /\ Perform(Without({"PBLIND"}), PlayerFirst)
    /\ UNCHANGED memory

\* The courage spell.
RmGong ==
    /\ online
    /\ Perform(Without({"PFEARS"}), CreatureFirst)
    /\ UNCHANGED memory

\* A trap takes no tag away: it lets the end of each spell come now.
RemoveSpellTrap ==
    /\ Idle /\ online
    /\ left' = [e \in Tags |-> IF e \in TrapSpells \cap Learned THEN 0 ELSE left[e]]
    /\ UNCHANGED <<class, online, saved, wait, running, files>>

-----------------------------------------------------------------------------
(* Losing the damage bonus before its end *)

NoUpDamage(b) == <<ptags \ {"PUPDMG"}, ctags \ {"PUPDMG"}, b>>

\* Mutant: training clears the tag and leaves the stats.
trainClearTag ==
    /\ online
    /\ "PUPDMG" \in ptags \cup ctags
    /\ Perform(NoUpDamage(bonus), CreatureFirst)
    /\ UNCHANGED memory

\* Training gives back what upDamageBonuses gave.
trainClearUpDamage ==
    /\ online
    /\ "PUPDMG" \in ptags \cup ctags
    /\ Perform(NoUpDamage(Less(bonus, upDamageBonuses)),
               <<"pDice", "hpMax", "mpMax", "ctags", "ptags">>)
    /\ UNCHANGED memory

LevelDownTakes ==
    [NoBonus EXCEPT !["pDice"] = IF class = "mortal" THEN 2 ELSE 3,
                    !["hpMax"] = IF class = "mortal" THEN 50 ELSE 100,
                    !["mpMax"] = IF class = "mortal" THEN 50 ELSE 100]

\* Death takes levels; the first one it takes ends the damage bonus.  All of it
\* is done under the world's locks.
DeathTakesLevel ==
    /\ Idle /\ online
    /\ "PUPDMG" \in ptags \cup ctags
    /\ bonus["mpMax"] >= 0   \* bound: once below, no further
    /\ goal' = NoUpDamage(Less(bonus, LevelDownTakes))
    /\ ptags' = goal'[1] /\ ctags' = goal'[2] /\ bonus' = goal'[3]
    /\ UNCHANGED <<class, online, memory, todo, ending, files>>

\* So does a change of class that leaves too little experience: the tags, then
\* the stats in the order of a Go map.
applyClassChangeLevelDown ==
    /\ online
    /\ "PUPDMG" \in ptags \cup ctags
    /\ bonus["mpMax"] >= 0   \* the same bound
    /\ \E i, j, k \in {"pDice", "hpMax", "mpMax"} :
         /\ i # j /\ i # k /\ j # k
         /\ Perform(NoUpDamage(Less(bonus, LevelDownTakes)), <<"ctags", "ptags", i, j, k>>)
    /\ UNCHANGED memory

\* A superhuman who buys a stat gets the class's damage dice written anew.
buyStatesRefreshDamageDice ==
    /\ online /\ class = "invincible"
    /\ "PUPDMG" \notin ctags
    /\ Perform(<<ptags, ctags, [bonus EXCEPT !["pDice"] = 0]>>, <<"pDice">>)
    /\ UNCHANGED memory

-----------------------------------------------------------------------------
(* The status pass of the world tick *)

\* What the creature is seen to carry: its tags, or the stat of the name.
Carries(e) == e \in ctags \/ (e = "PHIDDN" /\ bonus["PHIDDN"] # 0)

DMKeeps == {"PINVIS", "PDINVI", "PDMAGI", "PLEVIT", "PFLYSP", "PKNOWA", "PLIGHT",
            "PANGEL", "PREFLECT"}
Checked == (Tags \ {"PBLIND"}) \ (IF class = "dm" THEN DMKeeps ELSE {})

\* What the end of e takes from the stats, and the parts it writes.  The damage
\* dice are lowered under the key "pdice", which nothing reads.
ExpiryTakes(e) ==
    [NoBonus EXCEPT !["dexterity"]    = IF e = "PHASTE" THEN 15 ELSE 0,
                    !["strength"]     = IF e = "PPOWER" THEN 3 ELSE 0,
                    !["intelligence"] = IF e = "PMEDIT" THEN 3 ELSE 0,
                    !["piety"]        = IF e = "PPRAYD" THEN 5 ELSE 0,
                    !["hpMax"] = IF e = "PUPDMG" THEN upDamageBonuses["hpMax"] ELSE 0,
                    !["mpMax"] = IF e = "PUPDMG" THEN upDamageBonuses["mpMax"] ELSE 0]
ExpiryOrder(e) ==
    CASE e = "PHASTE" -> <<"ptags", "ctags", "dexterity">>
      [] e = "PPOWER" -> <<"ptags", "ctags", "strength">>
      [] e = "PMEDIT" -> <<"ptags", "ctags", "intelligence">>
      [] e = "PPRAYD" -> <<"ptags", "ctags", "piety">>
      [] e = "PUPDMG" -> <<"ptags", "ctags", "hpMax", "mpMax">>
      [] OTHER        -> PlayerFirst

Expired == {e \in Checked : Carries(e) /\ left[e] = 0}

\* Mutant: an effect whose end is not known waits for one.
checkKnown(e) ==
    IF ~Carries(e) \/ e \in Expired THEN NoEnd ELSE left[e]

checkExpiry(e) ==
    IF ~Carries(e) \/ e \in Expired THEN NoEnd
    ELSE IF left[e] = NoEnd THEN DefaultTerm ELSE left[e]

\* The checks of all effects, which see the tags and stats of the others as they
\* are; the ends of those that expired follow.
updateStatusExpirations ==
    /\ Idle /\ online
    /\ left' = [e \in Tags |-> IF e \in Checked THEN checkExpiry(e) ELSE left[e]]
    /\ ending' = Expired
    /\ UNCHANGED <<class, online, saved, wait, goal, todo, files>>

\* The tags, then the stats.
Expire(e) ==
    /\ e \in ending /\ todo = << >>
    /\ Start(<<ptags \ {e}, ctags \ {e}, Less(bonus, ExpiryTakes(e))>>, ExpiryOrder(e))
    /\ ending' = ending \ {e}
    /\ UNCHANGED <<class, online, memory, files>>

-----------------------------------------------------------------------------
(* The clock, sessions, saves and restarts *)

Clock ==
    /\ left' = [e \in Tags |-> IF left[e] > 0 THEN left[e] - 1 ELSE left[e]]
    /\ wait' = [e \in SkillTags |-> IF wait[e] > 0 THEN wait[e] - 1 ELSE 0]
    /\ UNCHANGED <<class, online, saved, running, files>>

Enter ==
    /\ Idle /\ ~online
    /\ online' = TRUE
    /\ UNCHANGED <<class, saved, memory, running, files>>

Leave ==
    /\ Idle /\ online
    /\ online' = FALSE
    /\ UNCHANGED <<class, saved, memory, running, files>>

\* SavePlayer copies player and creature under all locks, whatever the loop has
\* still to write.
Save ==
    /\ tears.memory < MaxTears   \* bound
    /\ \A i \in DOMAIN todo : i = 1 => todo[i] \in TornBefore
    /\ disk' = saved
    /\ tears' = [tears EXCEPT !.file = tears.memory + (IF saved = goal THEN 0 ELSE 1)]
    /\ UNCHANGED <<class, online, saved, memory, running>>

\* The process ends between any two writes, and starts with what was saved.
Restart ==
    /\ online' = FALSE
    /\ ptags' = disk[1] /\ ctags' = disk[2] /\ bonus' = disk[3]
    /\ goal' = disk /\ todo' = << >> /\ ending' = {}
    /\ left' = [e \in Tags |-> NoEnd]
    /\ wait' = [e \in SkillTags |-> 0]
    /\ tears' = [tears EXCEPT !.memory = tears.file]
    /\ UNCHANGED <<class, disk>>

Next ==
    \/ \E s \in Skills : UseSkill(s) \/ FailSkill(s)
    \/ \E s \in Spells : CastSpell(s)
    \/ \E s \in MonsterSpells : MonsterCast(s)
    \/ \E s \in DMSpells : DMCast(s)
    \/ Hide \/ ComeOut \/ Appear \/ RemoveBlindness \/ MonsterRemoveBlindness
    \/ RmGong \/ RemoveSpellTrap
    \/ trainClearUpDamage \/ DeathTakesLevel \/ applyClassChangeLevelDown
    \/ buyStatesRefreshDamageDice
    \/ Write \/ updateStatusExpirations \/ (\E e \in Tags : Expire(e))
    \/ Clock \/ Enter \/ Leave \/ Save \/ Restart

\* The world tick comes round, however many commands there are, what was begun
\* is done, and time passes; nobody has to log in, to save or to cast.
Spec ==
    /\ Init /\ [][Next]_vars
    /\ SF_vars(updateStatusExpirations)
    /\ WF_vars(Write) /\ WF_vars(\E e \in Tags : Expire(e)) /\ WF_vars(Clock)

-----------------------------------------------------------------------------
(* Properties *)

\* Types; times and cooldowns never exceed their terms.
TypeOK ==
    /\ class \in Classes /\ online \in BOOLEAN
    /\ ptags \subseteq Marks /\ ctags \subseteq Marks
    /\ left \in [Tags -> {NoEnd} \cup 0 .. (IF Duration > DefaultTerm THEN Duration ELSE DefaultTerm)]
    /\ wait \in [SkillTags -> 0 .. (IF SuccessWait > 1 THEN SuccessWait ELSE 1)]
    /\ bonus \in [Stats -> Int]
    /\ todo \in Seq(Parts) /\ ending \subseteq Tags
    /\ {goal, disk} \subseteq (SUBSET Marks) \X (SUBSET Marks) \X [Stats -> Int]
    /\ tears \in [memory : Nat, file : Nat]

\* The stats a set of tags accounts for, damage dice and mana apart.
Accounts(tags, b) ==
    /\ b["dexterity"]    = IF "PHASTE" \in tags THEN 15 ELSE 0
    /\ b["strength"]     = IF "PPOWER" \in tags THEN 3 ELSE 0
    /\ b["intelligence"] = IF "PMEDIT" \in tags THEN 3 ELSE 0
    /\ b["piety"]        = IF "PPRAYD" \in tags THEN 5 ELSE 0
    /\ b["hpMax"] = IF "PUPDMG" \in tags THEN upDamageBonuses["hpMax"] ELSE 0

\* Between two operations a skill's bonus is on the creature exactly while the
\* effect's tag is, and so it is in a file: no order of skills, expiries, deaths,
\* training, saves and restarts gives a bonus twice or takes it back twice, unless
\* a save came between two writes of one operation.
StatsFollowEffects ==
    /\ tears.memory = 0 /\ todo = << >> => Accounts(ctags, bonus)
    /\ tears.file = 0 => Accounts(disk[2], disk[3])

\* What skills and expiries write, and training apart: no effect of the player is
\* missing from the creature, where the status pass looks for it, and none is
\* there without its bonus.
Backed(p, c, b) ==
    /\ p \cap (SkillTags \ {"PUPDMG"}) \subseteq c
    /\ b["dexterity"]    >= IF "PHASTE" \in c THEN 15 ELSE 0
    /\ b["strength"]     >= IF "PPOWER" \in c THEN 3 ELSE 0
    /\ b["intelligence"] >= IF "PMEDIT" \in c THEN 3 ELSE 0
    /\ b["piety"]        >= IF "PPRAYD" \in c THEN 5 ELSE 0

\* A skill writes the stat before the tags and the creature's tags before the
\* player's, an expiry the other way round, so that a save between any two writes,
\* and a restart from it, can leave a bonus that nothing will take back, but never
\* an effect whose end takes more than it gave, nor one that never ends.
EffectsAreBacked ==
    Backed(ptags, ctags, bonus) /\ Backed(disk[1], disk[2], disk[3])

\* The effect of a skill ends, also when a restart has lost the time of its end,
\* as long as the player stays; what the tick does not check for DMs is left out.
EffectsEnd ==
    \A e \in SkillTags \cap Learned :
        (online /\ e \in ctags /\ e \in Checked) ~> (~online \/ e \notin ctags)
=============================================================================
