---------------------------- MODULE Occupations ----------------------------
(***************************************************************************)
(* Occupations: commands that take several turns (the main loop of         *)
(* allmain.c, do_command, and the occupations of eat.c, lock.c, spell.c    *)
(* and apply.c).  An occupation keeps no process of its own.  It leaves    *)
(* the object it works on in u.utracked and how far it has got in          *)
(* u.uoccupation_progress, and asks the client to send "repeat", which     *)
(* runs the whole command again: from these traces the command has to find *)
(* out whether it resumes or begins.  Between two turns monsters steal,    *)
(* break and curse, the player is moved or put to sleep, looks something   *)
(* up or does something else first, and the game is saved and loaded.      *)
(*                                                                         *)
(* Of the occupations digging and changing equipment (Equip) are not here. *)
(* Left out of the others: what eating and reading do to the player, the   *)
(* lenses and the blessing that help with a book, shops, and the states of *)
(* the player in which a command is refused before it does anything.       *)
(***************************************************************************)
EXTENDS Integers, FiniteSetsExt

CONSTANTS
    Meals, Tins,    \* food, and tins, in stacks
    Books,          \* spellbooks
    Boxes,          \* boxes with a lock
    Keys, Blades,   \* tools for a lock, weapons to force it
    LandMines,
    Places, BesideDoor,    \* where the player can be; next to the one door
    Outfits,        \* what there is when a behaviour begins
    MaxTries,       \* turns after which a lock or a tin is given up: 50
    TinTurns,       \* how long a tin can take that is not given up
    MealSize,       \* the turns that a meal takes
    BookTurns, MineTurns,
    MaxTroubles     \* troubles that the player meets in a behaviour

Goods == UNION {Meals, Tins, Books, Boxes, Keys, Blades, LandMines}
Nothing == "nothing"    \* NULL
ADoor == "door"         \* &zeroobj in u.utracked[tos_lock]

(* An outfit says what is carried, what is on the floor, which of it are   *)
(* stacks of two (the other goods are what stacks split into), what the    *)
(* door can be, and the spells for locks that the player knows.  There is  *)
(* an object that is not yet there for each that splits off a stack.       *)
ASSUME OccupationsAssumption ==
    /\ BesideDoor \subseteq Places
    /\ Outfits \subseteq [pack : SUBSET Goods, floor : SUBSET Goods,
                          double : SUBSET (Meals \cup Tins),
                          doors : SUBSET {"locked", "closed", "none"},
                          spells : SUBSET {"locking", "opening"}]
    /\ \A n \in {MaxTries, MealSize, BookTurns, MineTurns} : n \in Nat \ {0}
    /\ TinTurns \subseteq 1..MaxTries
    /\ MaxTroubles \in Nat
    /\ Goods \cap {Nothing, ADoor} = {} /\ Places \cap {"inv", "off", "gone"} = {}
    /\ Meals \cap Tins = {} /\ IsFiniteSet(Meals \cup Tins)
    /\ \A fit \in Outfits : \A kind \in {Meals, Tins} :
          Cardinality(fit.double \cap kind) <= Cardinality(kind \ (fit.pack \cup fit.floor))

Tracks == {"food", "tin", "book", "lock", "trap"}

VARIABLES
    at,          \* u.ux, u.uy
    whereat,     \* of each object: carried ("inv"), on the floor of a place,
                 \* "off" with a monster, freed ("gone")
    quan,        \* how many a stack has
    oeaten,      \* what is left of food that has been bitten into
    hexed,       \* the cursed books
    olocked, obroken,    \* of the boxes
    door,        \* what the door is, "none" for a broken one
    spells,      \* the spells that are known
    tracked,     \* u.utracked
    progress,    \* u.uoccupation_progress
    site,        \* u.utracked_location of the trap
    flags,       \* incomplete, interrupted, occupation and the last command
    helpless,    \* u_helpless(hm_all)
    moment,       \* where the main loop is
    troubles     \* how many troubles there have been

savedVars ==
    <<at, whereat, quan, oeaten, hexed, olocked, obroken, door, spells, tracked,
      progress, site, flags>>
occupationVars == <<savedVars, helpless, moment, troubles>>

(* The game as a command sees and leaves it; "took" says that the command  *)
(* takes time.                                                             *)
Game ==
    [at |-> at, place |-> whereat, quan |-> quan, oeaten |-> oeaten, hexed |-> hexed,
     olocked |-> olocked, obroken |-> obroken, door |-> door, tracked |-> tracked,
     progress |-> progress, site |-> site, flags |-> flags, helpless |-> helpless,
     took |-> TRUE]

Becoming(g) ==
    /\ at' = g.at /\ whereat' = g.place /\ quan' = g.quan /\ oeaten' = g.oeaten
    /\ hexed' = g.hexed /\ olocked' = g.olocked /\ obroken' = g.obroken
    /\ door' = g.door /\ tracked' = g.tracked /\ progress' = g.progress
    /\ site' = g.site /\ flags' = g.flags /\ helpless' = g.helpless
    /\ UNCHANGED spells

Begins(fit) ==
    /\ at \in Places
    /\ whereat = [o \in Goods |-> IF o \in fit.pack THEN "inv"
                                ELSE IF o \in fit.floor THEN at ELSE "gone"]
    /\ quan = [o \in Goods |-> IF whereat[o] = "gone" THEN 0
                               ELSE IF o \in fit.double THEN 2 ELSE 1]
    /\ oeaten = [o \in Goods |-> 0]
    /\ hexed = {} /\ olocked \in SUBSET (Boxes \cap fit.floor) /\ obroken = {}
    /\ door \in fit.doors /\ spells = fit.spells
    /\ tracked = [s \in Tracks |-> Nothing]
    /\ progress = [s \in Tracks |-> 0]
    /\ site = Nothing
    /\ flags = [incomplete |-> FALSE, interrupted |-> TRUE, occupation |-> Nothing,
                verb |-> Nothing, arg |-> Nothing]
    /\ helpless = FALSE /\ moment = "input" /\ troubles = 0

OccupationsInit == \E fit \in Outfits : Begins(fit)

-----------------------------------------------------------------------------
(* Objects.                                                                *)

InPack(g, o) == o \in Goods /\ g.place[o] = "inv"

\* obj_with_u
WithYou(g, o) == o \in Goods /\ g.place[o] \in {"inv", g.at}

\* Mutant: the object goes without a word
FreedUntold(g, o) ==
    [g EXCEPT !.place[o] = "gone", !.quan[o] = 0, !.oeaten[o] = 0,
              !.hexed = @ \ {o}, !.olocked = @ \ {o}, !.obroken = @ \ {o}]

\* obfree: whoever tracks the object learns that it is gone
Freed(g, o) ==
    [g EXCEPT !.place[o] = "gone", !.quan[o] = 0, !.oeaten[o] = 0,
              !.hexed = @ \ {o}, !.olocked = @ \ {o}, !.obroken = @ \ {o},
              !.tracked = [s \in Tracks |-> IF @[s] = o THEN Nothing ELSE @[s]]]

\* useup, useupf
UsedUp(g, o) == IF g.quan[o] > 1 THEN [g EXCEPT !.quan[o] = @ - 1] ELSE Freed(g, o)

\* splitobj: n of the stack become the object "part"
Kin(o) == IF o \in Meals THEN Meals ELSE IF o \in Tins THEN Tins ELSE {o}
SparePart(g, o) == CHOOSE x \in Kin(o) : g.place[x] = "gone"
SplitOff(g, o, n, part) ==
    [g EXCEPT !.quan[o] = @ - n, !.quan[part] = n,
              !.place[part] = g.place[o], !.oeaten[part] = g.oeaten[o]]

(* merged: "it" joins "onto" and is freed.  mergable compares more than    *)
(* what is kept here, so that two that look alike need not merge.          *)
Joined(g, onto, it) == Freed([g EXCEPT !.quan[onto] = @ + g.quan[it]], it)
Alike(g, o, spot) ==
    {x \in Kin(o) \ {o} : g.place[x] = spot /\ g.oeaten[x] = g.oeaten[o]}

\* dropx, dropy, stackobj; flooreffects may destroy the object
DroppedHere(g, o) ==
    LET down == [g EXCEPT !.place[o] = g.at]
    IN  {down, Freed(g, o)} \cup {Joined(down, o, x) : x \in Alike(g, o, g.at)}

-----------------------------------------------------------------------------
(* What an action is (allmain.c).                                          *)

\* action_incomplete
Incomplete(g, occupation) ==
    [g EXCEPT !.flags.incomplete = TRUE, !.flags.occupation = occupation]

\* action_completed
Completed(g) ==
    [g EXCEPT !.flags.incomplete = FALSE, !.flags.interrupted = TRUE,
              !.flags.occupation = Nothing]

\* action_interrupted
Interrupted(g) == [g EXCEPT !.flags.interrupted = TRUE]

\* helpless
Helpless(g) == [Interrupted(g) EXCEPT !.helpless = TRUE]

\* do_command: a command that takes no time has completed
ZeroTime(g) == [Completed(g) EXCEPT !.took = FALSE]

\* one_occupation_turn: the turn is called with the action incomplete, and
\* completes it if it does not go on
Untracked(g, s) == [g EXCEPT !.tracked[s] = Nothing, !.progress[s] = 0]

(* reset_occupations.                                                      *)
ResetOccs(g, moved) ==
    LET still == IF moved THEN Untracked(Untracked(g, "trap"), "lock") ELSE g
        box == still.tracked["lock"]
    IN  IF box # ADoor /\ (~WithYou(g, box) \/ InPack(g, box))
        THEN Untracked(still, "lock") ELSE still

-----------------------------------------------------------------------------
(* Eating (eat.c).                                                         *)

(* touchfood: the food becomes a stack of its own, partly eaten.  A part   *)
(* that was split off and cannot be held is dropped; as it has only been   *)
(* touched nothing there is like it.                                       *)
TouchFood(g) ==
    LET food == g.tracked["food"]
        part == SparePart(g, food)
        stack == g.quan[food] > 1
        ofStack ==
            IF ~stack THEN g
            ELSE IF InPack(g, food)
                 THEN [SplitOff(g, food, 1, part) EXCEPT !.tracked["food"] = part]
                 ELSE SplitOff(g, food, g.quan[food] - 1, part)
        bite == ofStack.tracked["food"]
        bitten == [ofStack EXCEPT !.oeaten[bite] = IF @ = 0 THEN MealSize ELSE @]
    IN  {bitten} \cup
        IF stack /\ InPack(g, food)
        THEN {[bitten EXCEPT !.place[bite] = g.at], Freed(bitten, bite)} ELSE {}

\* eat_one_turn, done_eating
EatOneTurn(g) ==
    LET food == g.tracked["food"]
    IN  IF ~WithYou(g, food) THEN Completed(g)
        ELSE IF g.oeaten[food] > 1 THEN [g EXCEPT !.oeaten[food] = @ - 1]
        ELSE UsedUp([Completed(g) EXCEPT !.tracked["food"] = Nothing,
                                         !.oeaten[food] = 0], food)

\* The end of doeat: the food that is tracked is eaten
EatOn(g) ==
    {IF t.tracked["food"] = Nothing THEN Completed(t)
     ELSE EatOneTurn(Incomplete(t, "food")) : t \in TouchFood(g)}

\* rottenfood: the player faints over the first bite
Faint(g) == {Completed(Helpless(t)) : t \in TouchFood(g)}

(* A new meal: what the player smells, or knows about choking, can prevent *)
(* it; a tainted corpse is used up (eatcorpse).                            *)
BeginMeal(g, food) ==
    LET begun == [g EXCEPT !.tracked["food"] = food]
    IN  {ZeroTime(g), [UsedUp(begun, food) EXCEPT !.tracked["food"] = Nothing]}
            \cup Faint(begun) \cup EatOn(begun)

\* Mutant: a tin that does not open is never given up
EatTinForever(g) ==
    LET tin == g.tracked["tin"]
        left == g.progress["tin"]
    IN  IF ~WithYou(g, tin) THEN Completed(g)
        ELSE IF left # 1 THEN [g EXCEPT !.progress["tin"] = left - 1]
        ELSE Completed(Untracked(UsedUp(g, tin), "tin"))

(* eat_tin_one_turn: a tin that takes too long counts down from -1.        *)
EatTinOneTurn(g) ==
    LET tin == g.tracked["tin"]
        left == g.progress["tin"]
    IN  IF ~WithYou(g, tin) THEN Completed(g)
        ELSE IF left < -MaxTries THEN Completed(Untracked(g, "tin"))
        ELSE IF left # 1 THEN [g EXCEPT !.progress["tin"] = left - 1]
        ELSE Completed(Untracked(UsedUp(g, tin), "tin"))

\* start_tin: the tin slips out of greasy fingers
SlipTin(g, tin) ==
    LET part == SparePart(g, tin)
        stack == g.quan[tin] > 1
        one == IF stack THEN SplitOff(g, tin, 1, part) ELSE g
        it == IF stack THEN part ELSE tin
    IN  IF InPack(g, tin) THEN DroppedHere(one, it)
        ELSE {one} \cup {Joined(one, it, x) : x \in Alike(one, it, g.at)}

EatTin(g, tin) ==
    IF tin = g.tracked["tin"] THEN {EatTinOneTurn(Incomplete(g, "tin"))}
    ELSE SlipTin(g, tin) \cup
         {EatTinOneTurn(Incomplete([g EXCEPT !.tracked["tin"] = tin,
                                             !.progress["tin"] = n], "tin")) :
             n \in TinTurns \cup {-1}}

\* Mutant: "repeat" eats what it is answered, as any other command
DoEatAsAsked(g, arg, repeated) ==
    LET other == [g EXCEPT !.tracked["food"] = Nothing]
    IN  IF ~WithYou(g, arg) THEN {ZeroTime(g)}
        ELSE IF arg = g.tracked["food"] THEN EatOn(g)
        ELSE IF arg \in Tins THEN EatTin(other, arg)
        ELSE BeginMeal(other, arg)

(* doeat: "repeat" goes on with the meal wherever it now is; otherwise     *)
(* floorfood finds, or asks for, what the command is about.                *)
DoEat(g, arg, repeated) ==
    LET meal == g.tracked["food"]
        it == IF repeated /\ WithYou(g, meal) THEN meal ELSE arg
        other == [g EXCEPT !.tracked["food"] = Nothing]
    IN  IF ~WithYou(g, it) THEN {ZeroTime(g)}
        ELSE IF it = meal THEN EatOn(g)
        ELSE IF it \in Tins THEN EatTin(other, it)
        ELSE BeginMeal(other, it)

-----------------------------------------------------------------------------
(* Reading (spell.c).                                                      *)

(* learn.  The player may decline to read a book that is known by heart.   *)
LearnBook(g) ==
    LET book == g.tracked["book"]
        on == [g EXCEPT !.progress["book"] = @ + 1]
    IN  IF book \in g.hexed THEN {Completed(Helpless(Untracked(g, "book")))}
        ELSE IF on.progress["book"] < 0 THEN {on}
        ELSE {Completed(on), Completed(UsedUp(on, book))}

(* study_book.  A book is begun anew: the player may think better of a     *)
(* difficult one, a book that is too hard paralyses and may be destroyed,  *)
(* and so does any book when the player is confused.                       *)
BeginBook(g, book, confused) ==
    LET anew == [g EXCEPT !.progress["book"] = -BookTurns]
        never == Helpless([g EXCEPT !.progress["book"] = 0])
        hazy == Helpless(Untracked(g, "book"))
        bad == book \in g.hexed
    IN  (IF bad \/ confused THEN {} ELSE
            {anew} \cup LearnBook(Incomplete([anew EXCEPT !.tracked["book"] = book],
                                             "book")))
        \cup {never, UsedUp(never, book)}
        \cup (IF confused /\ ~bad
              THEN {hazy, Untracked(UsedUp(hazy, book), "book")} ELSE {})

DoRead(g, book, confused) ==
    IF ~InPack(g, book) THEN {ZeroTime(g)}
    ELSE IF /\ g.progress["book"] # 0 /\ ~confused
            /\ book = g.tracked["book"]
         THEN LearnBook(Incomplete(g, "book"))
         ELSE BeginBook(g, book, confused)

-----------------------------------------------------------------------------
(* Locks (lock.c).                                                         *)

HasKey(g) == \E k \in Keys : InPack(g, k)
CanForce(g) == \E b \in Blades : InPack(g, b)

\* reset_pick
GiveUpLock(g) == Completed(Untracked(g, "lock"))

\* The lock of a box or the door is turned; a trap in it can destroy either
Turned(g) ==
    LET box == g.tracked["lock"]
    IN  IF box = ADoor
        THEN {[g EXCEPT !.door = IF @ = "locked" THEN "closed" ELSE "locked"],
              [g EXCEPT !.door = "none"]}
        ELSE {[g EXCEPT !.olocked = IF box \in @ THEN @ \ {box} ELSE @ \cup {box}],
              Freed(g, box)}

\* picklock
PickOn(g) ==
    LET box == g.tracked["lock"]
    IN  IF \/ box # ADoor /\ ~WithYou(g, box)
           \/ box = ADoor /\ g.door \notin {"locked", "closed"}
           \/ ~HasKey(g) \/ g.progress["lock"] >= MaxTries
        THEN {GiveUpLock(g)}
        ELSE {[g EXCEPT !.progress["lock"] = @ + 1]}
                \cup {GiveUpLock(t) : t \in Turned(g)}

(* pick_lock, with a key applied to the door or to the floor, or when a    *)
(* box is looted (autounlock): down there the lock of whatever box was     *)
(* begun is gone on with, and the player is asked about each box otherwise.*)
DoPick(g, lock) ==
    LET going == g.progress["lock"] # 0
        begun == Incomplete([g EXCEPT !.tracked["lock"] = lock,
                                      !.progress["lock"] = 0], "lock")
    IN  IF ~HasKey(g) THEN {ZeroTime(g)}
        ELSE IF going /\ (IF lock = ADoor
                          THEN g.at \in BesideDoor /\ g.tracked["lock"] = ADoor
                          ELSE g.tracked["lock"] # ADoor)
             THEN PickOn(Incomplete(g, "lock"))
        ELSE IF IF lock = ADoor
                THEN g.at \in BesideDoor /\ g.door \in {"locked", "closed"}
                ELSE g.place[lock] = g.at /\ lock \notin g.obroken
             THEN PickOn(begun)
        ELSE {ZeroTime(g)}

(* forcelock.  A blade can break, a blunt weapon destroy the box.          *)
ForceOn(g) ==
    LET box == g.tracked["lock"]
        open == [g EXCEPT !.olocked = @ \ {box}, !.obroken = @ \cup {box}]
    IN  IF ~WithYou(g, box) \/ ~CanForce(g) \/ g.progress["lock"] >= MaxTries
        THEN {GiveUpLock(g)}
        ELSE {[g EXCEPT !.progress["lock"] = @ + 1],
              GiveUpLock(open), GiveUpLock(Freed(g, box))}
             \cup {GiveUpLock(UsedUp(g, b)) : b \in {b \in Blades : InPack(g, b)}}

\* doforce
DoForce(g, box) ==
    LET none == Untracked(g, "lock")
    IN  IF ~CanForce(g) THEN {ZeroTime(g)}
        ELSE IF g.tracked["lock"] # Nothing /\ g.progress["lock"] # 0
             THEN ForceOn(Incomplete(g, "lock"))
        ELSE IF g.place[box] = g.at /\ box \in g.olocked \ g.obroken
             THEN ForceOn(Incomplete([none EXCEPT !.tracked["lock"] = box], "lock"))
        ELSE {ZeroTime(none)}

\* boxlock, doorlock: a spell at all that is here, or at the door
DoZap(g, how, lock) ==
    LET boxes == {b \in Boxes : g.place[b] = g.at}
    IN  IF lock = ADoor
        THEN IF g.at \notin BesideDoor THEN {g}
             ELSE IF how = "locking" THEN {g, [g EXCEPT !.door = "locked"]}
             ELSE {[g EXCEPT !.door = IF @ = "locked" THEN "closed" ELSE @]}
        ELSE IF how = "locking"
        THEN {[g EXCEPT !.olocked = @ \cup boxes,
                        !.obroken = @ \ (boxes \ g.olocked)]}
        ELSE {[g EXCEPT !.olocked = @ \ boxes,
                        !.obroken = @ \ (boxes \ g.olocked)]}

-----------------------------------------------------------------------------
(* Setting a trap (apply.c).                                               *)

\* set_trap
SetOn(g) ==
    LET mine == g.tracked["trap"]
        one == [g EXCEPT !.progress["trap"] = @ - 1]
    IN  IF ~InPack(g, mine) \/ g.at # g.site
        THEN Completed([g EXCEPT !.tracked["trap"] = Nothing])
        ELSE IF one.progress["trap"] > 0 THEN one
        ELSE Completed([UsedUp(one, mine) EXCEPT !.tracked["trap"] = Nothing])

(* use_trap: a trap cannot be set everywhere; a rider can be asked, and    *)
(* drop it.                                                                *)
DoSetTrap(g, mine) ==
    LET begun == [g EXCEPT !.tracked["trap"] = mine, !.site = g.at,
                           !.progress["trap"] = MineTurns]
        never == [begun EXCEPT !.tracked["trap"] = Nothing]
    IN  IF ~InPack(g, mine) THEN {ZeroTime(g)}
        ELSE {ZeroTime([g EXCEPT !.tracked["trap"] = Nothing])} \cup
             IF mine = g.tracked["trap"] /\ g.at = g.site
             THEN {SetOn(Incomplete(g, "trap"))}
             ELSE {SetOn(Incomplete(begun, "trap")), ZeroTime(never)}
                    \cup DroppedHere(never, mine)

-----------------------------------------------------------------------------
(* Other commands, that take one turn.                                     *)

DoDrop(g, o) == IF InPack(g, o) THEN DroppedHere(g, o) ELSE {ZeroTime(g)}

\* addinv: what is picked up can join a stack in the pack
DoPickUp(g, o) ==
    LET up == [g EXCEPT !.place[o] = "inv"]
    IN  IF g.place[o] # g.at THEN {ZeroTime(g)}
        ELSE {up} \cup {Joined(up, x, o) : x \in Alike(up, o, "inv")}

DoMove(g, spot) == {ResetOccs([g EXCEPT !.at = spot], TRUE)}

(* The commands that can become occupations, and those of one turn.        *)
LongCommands ==
    ({"eat"} \X (Meals \cup Tins)) \cup ({"read"} \X Books)
    \cup ({"apply"} \X (Boxes \cup {ADoor} \cup LandMines)) \cup ({"force"} \X Boxes)
ShortCommands ==
    ({"drop", "pickup"} \X Goods) \cup ({"move"} \X Places)
    \cup ({"locking", "opening"} \X {ADoor, "down"})

\* The command of do_command's table
Outcomes(g, verb, arg, repeated, confused) ==
    CASE verb = "eat" -> DoEat(g, arg, repeated)
      [] verb = "drop" -> DoDrop(g, arg)
      [] verb = "pickup" -> DoPickUp(g, arg)
      [] verb = "read" -> DoRead(g, arg, confused)
      [] verb = "apply" -> IF arg \in LandMines THEN DoSetTrap(g, arg)
                           ELSE DoPick(g, arg)
      [] verb = "force" -> DoForce(g, arg)
      [] verb = "move" -> DoMove(g, arg)
      [] OTHER -> DoZap(g, verb, arg)

-----------------------------------------------------------------------------
(* The main loop.                                                          *)

Clean(g) ==
    [g EXCEPT !.flags.incomplete = FALSE, !.flags.interrupted = FALSE,
              !.flags.occupation = Nothing]

\* command_input: monsters move unless the command took no time
Entered(games) ==
    \E g \in games :
        /\ Becoming(IF g.took THEN g ELSE ResetOccs(g, FALSE))
        /\ moment' = IF g.took THEN "moved" ELSE "input"

\* What the player can name: something carried or here, the door, a place
CanName(verb, arg) ==
    \/ WithYou(Game, arg) /\ ((arg \in Boxes \/ verb = "pickup") => ~InPack(Game, arg))
                          /\ (verb \in {"drop", "read"} => InPack(Game, arg))
    \/ arg = ADoor /\ at \in BesideDoor /\ (verb = "apply" \/ verb \in spells)
    \/ arg = "down" /\ verb \in spells
    \/ arg \in Places \ {at}

(* A command that the player gives.  "repeat" makes a difference only to   *)
(* one that can go on, and only that one is kept as the last command.      *)
GiveCommand(verb, arg) ==
    LET long == <<verb, arg>> \in LongCommands
        last == [Clean(Game) EXCEPT !.flags.verb = IF long THEN verb ELSE Nothing,
                                    !.flags.arg = IF long THEN arg ELSE Nothing]
    IN  /\ moment = "input" /\ ~helpless /\ CanName(verb, arg)
        /\ \E confused \in IF verb = "read" THEN BOOLEAN ELSE {FALSE} :
              Entered(Outcomes(last, verb, arg, FALSE, confused))
        /\ UNCHANGED troubles

\* "repeat": what it asks for, the player answers as before
Repeat ==
    /\ moment = "input" /\ ~helpless /\ flags.verb # Nothing
    /\ \E confused \in IF flags.verb = "read" THEN BOOLEAN ELSE {FALSE} :
          Entered(Outcomes(Clean(Game), flags.verb, flags.arg, TRUE, confused))
    /\ UNCHANGED troubles

\* The "wait" of a player who can do nothing
HelplessTurn ==
    /\ moment = "input" /\ helpless
    /\ Becoming(Clean(Game)) /\ moment' = "moved" /\ UNCHANGED troubles

\* Mutant: only a command that is not complete is interrupted
MustInterruptBusy == flags.incomplete \/ flags.occupation # Nothing

(* A command that only looks is not recorded.  What it does to an          *)
(* occupation, an "interrupt" that is recorded before it does.             *)
MustInterrupt == flags.incomplete \/ ~flags.interrupted \/ flags.occupation # Nothing

RecordInterrupt ==
    /\ moment = "input" /\ ~helpless /\ MustInterrupt
    /\ Becoming(ResetOccs(Interrupted(Clean(Game)), FALSE))
    /\ moment' = "notice" /\ UNCHANGED troubles

Notice ==
    /\ ~helpless
    /\ moment = "notice" \/ (moment = "input" /\ ~MustInterrupt)
    /\ Becoming(ResetOccs(ZeroTime(IF moment = "notice" THEN Game ELSE Clean(Game)),
                          FALSE))
    /\ moment' = "input" /\ UNCHANGED troubles

\* What the client sends to stop a command
InterruptCommand ==
    /\ moment = "input" /\ ~helpless
    /\ Becoming(ResetOccs(Interrupted(Clean(Game)), FALSE))
    /\ UNCHANGED <<moment, troubles>>

\* servercancel: changes nothing, not even the flags
ServerCancel ==
    /\ moment = "input" /\ ~helpless
    /\ Becoming(ResetOccs(Game, FALSE)) /\ UNCHANGED <<moment, troubles>>

\* save_utracked, restore_utracked: an object is found again by its number
Reload ==
    /\ moment = "input" /\ ~helpless
    /\ tracked' = [s \in Tracks |->
                      IF tracked[s] \in Goods /\ whereat[tracked[s]] = "gone"
                      THEN Nothing ELSE tracked[s]]
    /\ UNCHANGED <<at, whereat, quan, oeaten, hexed, olocked, obroken, door, spells,
                   progress, site, flags, helpless, moment, troubles>>

\* The end of a turn: pre_move_tasks; a monster may have come near
EndTurn ==
    /\ moment = "moved"
    /\ \E g \in {Game, Interrupted(Game)} \cup
                (IF helpless THEN {[Interrupted(Game) EXCEPT !.helpless = FALSE]}
                 ELSE {}) :
          Becoming(ResetOccs(g, FALSE))
    /\ moment' = "input" /\ UNCHANGED troubles

-----------------------------------------------------------------------------
(* What monsters, and the world, do in a turn.                             *)

Trouble(g) ==
    /\ moment = "moved" /\ troubles < MaxTroubles
    /\ Becoming(g) /\ troubles' = troubles + 1 /\ UNCHANGED moment

StealFrom(o) ==
    InPack(Game, o) /\ Trouble([Interrupted(Game) EXCEPT !.place[o] = "off"])

\* A dead thief leaves what it stole
GetBack(o, spot) ==
    /\ moment = "moved" /\ whereat[o] = "off"
    /\ Becoming([Game EXCEPT !.place[o] = spot]) /\ UNCHANGED <<moment, troubles>>

\* rot_corpse, without a word; or a fire or an explosion, with damage
Ruin(o) ==
    /\ whereat[o] # "gone"
    /\ Trouble(Freed(IF o \in Meals THEN Game ELSE Interrupted(Game), o))

Hex(book) ==
    InPack(Game, book) /\ Trouble([Game EXCEPT !.hexed = @ \cup {book}])

\* teleds
Teleport(spot) == spot # at /\ Trouble([Interrupted(Game) EXCEPT !.at = spot])

\* gulpmu
Engulf == Trouble(ResetOccs(Interrupted(Game), TRUE))

Paralyse == Trouble(Helpless(Game))

\* A monster opens, locks or breaks the door
UseDoor(state) == door \notin {state, "none"} /\ Trouble([Game EXCEPT !.door = state])

OccupationsNext ==
    \/ \E c \in LongCommands \cup ShortCommands : GiveCommand(c[1], c[2])
    \/ Repeat \/ HelplessTurn
    \/ RecordInterrupt \/ Notice \/ InterruptCommand \/ ServerCancel \/ Reload
    \/ EndTurn
    \/ \E o \in Goods : StealFrom(o) \/ Ruin(o) \/ \E spot \in Places : GetBack(o, spot)
    \/ \E book \in Books : Hex(book)
    \/ \E spot \in Places : Teleport(spot)
    \/ Engulf \/ Paralyse
    \/ \E state \in {"open", "locked", "none"} : UseDoor(state)

OccupationsSpec == OccupationsInit /\ [][OccupationsNext]_occupationVars

-----------------------------------------------------------------------------
(* What an occupation may rely on, whatever came between two of its turns. *)
(* No traces of freed objects are left; when a command is read the lock    *)
(* that is tracked is that of a box at the player's feet, or the door's,   *)
(* and progress at a lock is progress at the one that is tracked; a box    *)
(* whose lock was broken is not locked (lock.c:848 relies on it); and a    *)
(* meal under way is one piece of food that has been bitten into.          *)
OccupationsAreSound ==
    /\ whereat \in [Goods -> Places \cup {"inv", "off", "gone"}]
    /\ \A o \in Goods : quan[o] = 0 <=> whereat[o] = "gone"
    /\ tracked \in [Tracks -> Goods \cup {Nothing, ADoor}]
    /\ \A s \in Tracks : tracked[s] \in Goods => whereat[tracked[s]] # "gone"
    /\ moment = "input" /\ tracked["lock"] \in Goods => whereat[tracked["lock"]] = at
    /\ moment = "input" /\ tracked["lock"] = Nothing => progress["lock"] = 0
    /\ olocked \cap obroken = {}
    /\ flags.occupation = "food" /\ tracked["food"] # Nothing =>
          quan[tracked["food"]] = 1 /\ oeaten[tracked["food"]] \in 1..MealSize

\* The client sends "repeat" of itself for such a command
UnderWay == flags.incomplete /\ ~flags.interrupted

\* What it works on, if that is still in reach
WorkedOn == IF UnderWay THEN tracked[flags.occupation] ELSE Nothing
InReach == WorkedOn = ADoor \/ WithYou(Game, WorkedOn)

(* A command that nothing interrupted goes on with what it was working on, *)
(* and leaves everything else alone: a meal does not turn to the rest of   *)
(* the stack it was taken from, or to what was being eaten before          *)
(* (eat.c:1833-1842, 1949-1953), nor a key to another lock.                *)
RepeatKeepsTarget ==
    [][InReach /\ Repeat =>
          /\ \A o \in Goods \ ({WorkedOn} \cup Blades) :
                /\ UNCHANGED <<whereat[o], quan[o], oeaten[o]>>
                /\ UNCHANGED <<o \in olocked, o \in obroken>>
          /\ WorkedOn # ADoor => UNCHANGED door]_occupationVars

\* How many turns an occupation can still take
TurnsLeft ==
    LET turns == progress[flags.occupation]
    IN  CASE flags.occupation = "food" -> oeaten[tracked["food"]]
          [] flags.occupation = "tin" -> IF turns > 0 THEN turns
                                         ELSE MaxTries + 2 + turns
          [] flags.occupation = "book" -> -turns
          [] flags.occupation = "lock" -> MaxTries + 1 - turns
          [] OTHER -> turns

(* To look something up, to be told that somebody else has moved, or to    *)
(* save and load the game changes nothing that is saved: "A revert should  *)
(* be a no-op" (allmain.c:639), once what a look does to the flags has     *)
(* been recorded as an "interrupt".                                        *)
NoticesAreHarmless ==
    [][Notice \/ ServerCancel \/ Reload => UNCHANGED savedVars]_occupationVars

(* What is tracked anew is begun anew.                                     *)
StartsAnew ==
    \A s \in Tracks \ {"food"} : tracked'[s] \notin {Nothing, tracked[s]} =>
        progress'[s] \in
            CASE s = "lock" -> {1}
              [] s = "tin" -> {n - 1 : n \in TinTurns \cup {-1}}
              [] s = "book" -> {1 - BookTurns}
              [] s = "trap" -> {MineTurns - 1}

(* Attempts end, and their time is their own: every turn of an occupation  *)
(* brings its end nearer, so that a command that the client repeats of     *)
(* itself does not go on for ever, and what was got done with one lock,    *)
(* tin, book or trap is never counted for another (eat.c:787-945,          *)
(* lock.c:127-297, spell.c:436-492, apply.c:2334-2377).                    *)
AttemptsEnd ==
    [][/\ StartsAnew
       /\ InReach /\ UnderWay' /\ Repeat =>
             TurnsLeft' \in 1..(TurnsLeft - 1)]_occupationVars

=============================================================================
