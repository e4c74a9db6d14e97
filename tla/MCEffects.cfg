SPECIFICATION Spec
CONSTANTS
    Ranks = {"invincible"}
    Learned = {"PHASTE", "PUPDMG", "PRFIRE", "PHIDDN"}
    Duration = 1
    DefaultTerm = 1
    SuccessWait = 1
    MaxActive = 1
    MaxDice = 3
    MaxTears = 1
    TornBefore = {"dexterity", "ctags"}
INVARIANTS
    TypeOK
    StatsFollowEffects
    EffectsAreBacked
PROPERTIES
    EffectsEnd
