SPECIFICATION Spec
CONSTANTS
    ShortWrites <- MCShortWrites
    Coalesced = FALSE
    MaxCancels = 2
    Columns <- MCColumns
    Rows <- MCRows
    Glyphs = {"a", "b", "-"}
    Screens <- MCScreens
    Statuses <- MCStatuses
    ItemLists <- MCItemLists
    Blank = "-"
    MaxDraws = 2
    MaxFaults = 6
    MaxValid = 5
    MaxCalls = 2
    Unreachable = FALSE
    Bytes = {0, 1, 5}
    Slack = {9}
    Tags = {1, 2}
    SaveSizeMonst = 2
    UnitBits = 2
    Arg1Bits <- MCArg1Bits
    OldSaves <- MCOldSaves
    MaxLen = 4
    MaxMarks = 1
    Logs <- MCInterruptedLogs
    CheckpointFreq = 2
    Far = 2
    Strides = {1, 3}
    ration = ration
    bits = bits
    sardines = sardines
    tins2 = tins2
    primer = primer
    tome = tome
    chest = chest
    crate = crate
    lockpick = lockpick
    knife = knife
    landmine = landmine
    porch = porch
    yard = yard
    Meals = {ration, bits}
    Tins = {sardines, tins2}
    Books = {primer, tome}
    Boxes = {chest, crate}
    Keys = {lockpick}
    Blades = {knife}
    LandMines = {landmine}
    Places = {porch, yard}
    BesideDoor = {porch}
    Outfits <- MCOutfits
    MaxTries = 2
    TinTurns = {2}
    MealSize = 2
    BookTurns = 2
    MineTurns = 2
    MaxTroubles = 1
INVARIANT EndIsRecognised
CHECK_DEADLOCK FALSE
