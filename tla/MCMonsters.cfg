SPECIFICATION Spec
CONSTANTS
    Players = {p1, p2}
    Home = "home"
    Grave = "grave"
    MaxClones = 2
    Slots = 2
    Interval = 2
    Exps = {1, 8, 25}
    HpMax = 3
    Groups = {0, 1, 2, 5, 13}
INVARIANTS
    TypeOK
    TurnIsFresh
    RespawnWaits
    CreditIsCurrent
    RewardIsBounded
PROPERTIES
    Forgiven
