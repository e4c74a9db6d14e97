SPECIFICATION RestoreSpec
CONSTANTS
    None = None
    r1 = r1  r2 = r2  p1 = p1  b1 = b1
    Rooms = {r1, r2}
    Players = {p1}
    Monsters = {}
    Banks = {b1}
    Objects = {1, 2}
    Slots = {"wield"}
    WearSlot <- MCWearSlot
    BankOf <- MCBankOf
    Static <- MCNoStatic
    Alone = {p1}
    Beside <- MCBeside
INVARIANTS
    RestoreTypeOK
    FloorsAreTrue
    MergedTwice
    RestartRestores
SYMMETRY RoomSymmetry
CHECK_DEADLOCK FALSE
