SPECIFICATION Spec
CONSTANTS
    None = None
    r1 = r1  p1 = p1  p2 = p2  m1 = m1  b1 = b1
    hat1 = hat1  hat2 = hat2  club1 = club1  club2 = club2
    Rooms = {r1}
    Players = {p1, p2}
    Monsters = {m1}
    Banks = {b1}
    Objects = {hat1, hat2, club1, club2}
    Slots = {"head", "wield"}
    WearSlot <- MCWearSlot
SYMMETRY Alike
INVARIANTS
    TypeOK
    HoldersAgree
    EquipmentIsWorn
    NoCycles
