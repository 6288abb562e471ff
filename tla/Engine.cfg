SPECIFICATION Spec
CONSTANTS
    c1 = c1
    c2 = c2
    Things = {c1, c2}
    LampSets <- MCLampSets
    Carriers = {m}
    Levels = {A, B, C}
    FirstLevel = A
    MagicTimes = {1}
    AgeBucket = 2
    MaxFuel = 2
    MaxMoves = 4
    MaxIds = 4
    BillSz = 2
    Shelf <- MCShelf
    MaxFunds = 2
    ShkMayLeave = FALSE
    Size = 4
    Near <- MCNear
    ZeroColumn = {}
    B = B
    C = C
    w1 = w1
    w2 = w2
    Beasts = {w1, w2}
    WormSlots = 2
    MaxSegs = 4
    cloak = cloak
    cape = cape
    mail = mail
    shield = shield
    mitts = mitts
    ring = ring
    pike = pike
    dagger = dagger
    axe = axe
    relic = relic
    Cloaks = {cloak, cape}
    Suits = {mail}
    Shirts = {}
    Shields = {shield}
    Gloves = {mitts}
    Rings = {ring}
    Weapons = {pike, dagger, axe, relic}
    TwoHanded = {pike}
    Slow = {cloak, shield}
    Refusing = {relic}
    Options <- MCOptions
    Loadouts <- MCLoadouts
    Wielded = {pike, dagger, axe, relic}
    MaxWishes = 2
    MaxUpsets = 1
CONSTRAINT MCUntilAstray
SYMMETRY MCSymmetry
INVARIANTS
    OneTimerOneLight
    BillMatchesObjects
    NothingIsForgotten
    TailsAreSound
    EquipIsSound
    FinishedMeansDone
    ChangesEnd
PROPERTIES
    FuelBurnsByTheClock
    RestoreKeepsOrder
    NothingIsForced
CHECK_DEADLOCK FALSE
