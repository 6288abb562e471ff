------------------------------- MODULE Equip -------------------------------
(***************************************************************************)
(* Changing equipment (do_wear.c, wield.c).  The player asks for an object  *)
(* in a slot; what is asked for is remembered in u.utracked, slot by slot,  *)
(* and equip_heartbeat, called once per turn, works its way through a fixed *)
(* order of slots until nothing is asked for any more.  It takes off what   *)
(* is in the way and puts it on again, spends time that is saved up per     *)
(* slot, and stops at what is cursed.  A compound change lasts many turns,  *)
(* in which monsters steal, destroy and curse objects and the player gives  *)
(* other commands, so that each turn starts from whatever is left.          *)
(*                                                                         *)
(* Helmet, boots, amulet and eyewear, which neither cover nor block         *)
(* anything, behave as the shirt without its covers and are left out.      *)
(***************************************************************************)
EXTENDS Naturals, SequencesExt, FiniteSetsExt

CONSTANTS
    Cloaks, Suits, Shirts, Shields, Gloves, Rings, Weapons,  \* the objects
    TwoHanded,     \* weapons that take both hands: bimanual()
    Slow,          \* objects whose oc_delay is 1 instead of 0
    Refusing,      \* artifacts that blast whoever touches them
    Loadouts,      \* what the player may carry when a behaviour begins
    Options,       \* settings of the options cblock and pushweapon
    Wielded,       \* the objects that are ever chosen for a hand or the quiver
    MaxWishes,     \* choices of the menu that are waiting to be carried out
    MaxUpsets      \* thefts, losses, curses and drops in a behaviour

Objects ==
    UNION {Cloaks, Suits, Shirts, Shields, Gloves, Rings, Weapons}

ASSUME EquipAssumption ==
    /\ TwoHanded \subseteq Weapons
    /\ Slow \subseteq Objects /\ Refusing \subseteq Objects
    /\ Loadouts \subseteq SUBSET Objects /\ Wielded \subseteq Objects
    /\ Options \subseteq [cblock : BOOLEAN, push : BOOLEAN]
    /\ MaxWishes \in Nat /\ MaxUpsets \in Nat

None == "none"          \* NULL: no object; in want: no change
Empty == "empty"        \* &zeroobj in want: nothing in the slot

WornSlots == {"arm", "armc", "armu", "arms", "armg", "ringl", "ringr"}
HandSlots == {"wep", "quiver", "swapwep"}
EquipSlots == WornSlots \cup HandSlots

VARIABLES
    carried,   \* the objects with where == OBJ_INVENT
    around,    \* those that were dropped or stolen and can come back
    worn,      \* owornmask
    cursed,    \* the cursed objects
    bknown,    \* of these, the ones the player knows to be cursed
    want,      \* u.utracked[tos_first_equip + slot]
    spent,     \* u.uoccupation_progress[tos_first_equip + slot]
    twoweap,   \* u.twoweap
    doing,     \* the command that "repeat" goes on with, or NotBusy
    finished,  \* equip_heartbeat just returned 0 or 1
    panicked,  \* the panic of the weapon swap was reached
    beats,     \* turns the present change has taken without an upset
    spentOn,   \* what was wished for when spent[slot] was saved up
    mixed,     \* time saved up for one wish was spent on another
    upsets     \* how many upsets there were

equipVars ==
    <<carried, around, worn, cursed, bknown, want, spent, twoweap, doing,
      finished, panicked, beats, spentOn, mixed, upsets>>

NotRun == 3
NotBusy == [cmd |-> "none"]

EquipInit ==
    /\ carried \in Loadouts
    /\ around = {}
    /\ worn = [o \in Objects |-> {}]
    /\ cursed \in {c \in SUBSET carried : Cardinality(c) <= 1}
    /\ bknown = {}
    /\ want = [s \in EquipSlots |-> None]
    /\ spent = [s \in EquipSlots |-> 0]
    /\ twoweap = FALSE
    /\ doing = NotBusy
    /\ finished = FALSE
    /\ panicked = FALSE
    /\ beats = 0
    /\ spentOn = [s \in EquipSlots |-> None]
    /\ mixed = FALSE
    /\ upsets = 0

(* What one command reads and writes many times before it ends.            *)
Gear ==
    [carried |-> carried, worn |-> worn, cursed |-> cursed,
     bknown |-> bknown, want |-> want, spent |-> spent, twoweap |-> twoweap,
     spentOn |-> spentOn, mixed |-> mixed, panicked |-> panicked]

-----------------------------------------------------------------------------
(* The objects and their slots.                                            *)

WhichSlot(o) ==
    CASE o \in Cloaks -> "armc"  [] o \in Suits -> "arm"
      [] o \in Shirts -> "armu"  [] o \in Shields -> "arms"
      [] o \in Gloves -> "armg"  [] o \in Rings -> "ringl"
      [] OTHER -> "invalid"

\* EQUIP(slot): the object carried that has the bit of the slot.
In(g, slot) ==
    LET here == {o \in g.carried : slot \in g.worn[o]}
    IN  IF here = {} THEN None ELSE CHOOSE o \in here : TRUE

\* slot_covers
SlotCovers(above, beneath) ==
    \/ above = "armc" /\ beneath \in {"arm", "armu"}
    \/ above = "arm" /\ beneath = "armu"

Is(o, set) == o # None /\ o \in set

\* welded(uwep): the weapon in the hand, if it cannot be let go of.
Weld(g, stuck) ==
    LET w == In(g, "wep") IN IF Is(w, Weapons \cap stuck) THEN w ELSE None

\* Stuck, as a version that finds out no curse when the time is spent
StuckKnown(g, spoil) == g.bknown

\* What stops the player: the curses there are, or the ones known of.
Stuck(g, spoil) == IF spoil THEN g.cursed ELSE g.bknown

\* CBLOCK: an object in the way, unless it could be taken off first.
Blocks(g, o, cblock) == o # None /\ (cblock => o \in g.bknown)

\* canunwearobj: the object that keeps o from being taken off, or None.
UnwearBlock(g, o, spoil, cblock) ==
    LET stuck == Stuck(g, spoil)
        weld == Weld(g, stuck)
        outer == In(g, "armc")
        suit == In(g, "arm")
        gloves == In(g, "armg")
        on == g.worn[o]
        body == on \cap {"arm", "armu"} # {}
        finger == on \cap {"ringl", "ringr"} # {}
    IN  CASE finger /\ Is(weld, IF "ringr" \in on THEN Weapons ELSE TwoHanded) -> weld
          [] finger /\ Is(gloves, stuck) -> gloves
          [] "armg" \in on /\ weld # None -> weld
          [] body /\ Blocks(g, outer, cblock) -> outer
          [] "armu" \in on /\ Blocks(g, suit, cblock) -> suit
          [] body /\ Is(weld, TwoHanded) -> weld
          [] on \cap WornSlots # {} /\ o \in stuck -> o
          [] "wep" \in on /\ weld # None -> o
          [] OTHER -> None

\* canreadyobj refuses what is worn or wielded already.
ReadyBlock(g, o, cblock) ==
    IF o # Empty /\ g.worn[o] \cap (WornSlots \cup {"wep"}) # {} /\ Blocks(g, o, cblock)
    THEN o ELSE None

\* canwieldobj: what keeps o from being wielded, or None.
WieldBlock(g, o, spoil, cblock) ==
    LET w == In(g, "wep")
        guard == In(g, "arms")
        hand == IF w \in {None, o} THEN None ELSE UnwearBlock(g, w, spoil, cblock)
    IN  CASE hand # None -> hand
          [] o = Empty -> None
          [] /\ guard # None /\ o \in TwoHanded
             /\ cblock => guard \in Stuck(g, spoil) -> guard
          [] o # w -> ReadyBlock(g, o, cblock)
          [] OTHER -> None

\* canwearobj: the slots o can be put into; none at all if it returns FALSE.
WearMask(g, o, spoil, cblock) ==
    LET slot == WhichSlot(o)
        stuck == Stuck(g, spoil)
        w == In(g, "wep")
        weld == Weld(g, stuck)
        rings == {r \in {"ringl", "ringr"} : ~Blocks(g, In(g, r), cblock)}
    IN  CASE \/ slot = "invalid"
             \/ g.worn[o] \cap WornSlots # {} /\ ~cblock
             \/ slot \in {"arm", "armu", "ringl"} /\ Is(weld, TwoHanded) -> {}
          [] slot = "ringl" ->
               IF Is(In(g, "armg"), stuck) THEN {}
               ELSE IF weld # None THEN rings \ {"ringr"} ELSE rings
          [] \/ Blocks(g, In(g, slot), cblock)
             \/ slot = "arms" /\ Is(w, TwoHanded) /\ Blocks(g, w, cblock)
             \/ slot = "armg" /\ weld # None
             \/ \E above \in {"armc", "arm"} :
                   SlotCovers(above, slot) /\ Blocks(g, In(g, above), cblock) -> {}
          [] OTHER -> {slot}

\* What a spoiling check of the same teaches: the curse it ran into.
WearTeaches(g, o) ==
    LET weld == Weld(g, g.cursed)
    IN  CASE WhichSlot(o) = "ringl" /\ Is(weld, TwoHanded) -> {weld}
          [] WhichSlot(o) = "ringl" /\ Is(In(g, "armg"), g.cursed) -> {In(g, "armg")}
          [] \/ WhichSlot(o) \in {"armg", "ringl"}
             \/ WhichSlot(o) \in {"arm", "armu"} /\ Is(weld, TwoHanded) -> {weld} \ {None}
          [] OTHER -> {}

Learn(g, set) == [g EXCEPT !.bknown = @ \cup (set \cap g.cursed)]

-----------------------------------------------------------------------------
(* Putting an object into a slot.                                          *)

\* setworn: whoever is in the slot leaves it; hands stop fighting with two.
SetWorn(g, o, slot) ==
    LET old == In(g, slot)
        hands == old # None /\ g.worn[old] \cap {"wep", "swapwep"} # {}
    IN  [g EXCEPT !.twoweap = @ /\ ~hands,
                  !.worn = [i \in Objects |->
                      IF i = o THEN @[i] \cup {slot}
                      ELSE IF i = old THEN @[i] \ {slot} ELSE @[i]]]

\* Unwield, as a version that looks at the two hands only
UnwieldHands(g, o) ==
    FoldLeft(LAMBDA h, x : IF In(h, x) = o THEN SetWorn(h, None, x) ELSE h,
             g, <<"wep", "swapwep">>)

\* unwield_silently
Unwield(g, o) ==
    FoldLeft(LAMBDA h, x : IF In(h, x) = o THEN SetWorn(h, None, x) ELSE h,
             g, <<"wep", "swapwep", "quiver">>)

\* drop_uswapwep, and every other way to drop what is not worn
Dropped(g, o) ==
    LET h == Unwield(g, o) IN [h EXCEPT !.carried = @ \ {o}]

\* can_twoweapon: what it leaves of the gear, and whether it returned TRUE.
CanTwoweapon(g) ==
    LET w == In(g, "wep")
        off == In(g, "swapwep")
        fit == /\ Is(w, Weapons \ TwoHanded)
               /\ Is(off, Weapons \ (TwoHanded \cup Refusing))
               /\ In(g, "arms") = None
    IN  IF fit /\ off \in g.cursed
        THEN [gear |-> Dropped(Learn(g, {off}), off), ok |-> FALSE]
        ELSE [gear |-> g, ok |-> fit]

\* u.twoweap && !can_twoweapon(): untwoweapon()
CheckTwoweapon(g) ==
    IF ~g.twoweap THEN g
    ELSE LET can == CanTwoweapon(g)
         IN  [can.gear EXCEPT !.twoweap = @ /\ can.ok]

\* ready_weapon: o in the hand, or nothing for Empty, if it can be.
ReadyWeapon(g, o) ==
    LET w == In(g, "wep")
        Held(h) == IF In(h, "wep") = None THEN None
                   ELSE UnwearBlock(h, In(h, "wep"), TRUE, FALSE)
        g1 == IF o = Empty THEN g ELSE Unwield(g, o)
    IN  CASE \/ w # None /\ UnwearBlock(g, w, FALSE, FALSE) # None
             \/ o # Empty /\ WieldBlock(g, o, FALSE, FALSE) # None
             \/ o = Empty /\ w = None -> g
          [] Held(g1) # None -> Learn(g1, {Held(g1)})
          [] o = Empty -> SetWorn(g1, None, "wep")
          [] WieldBlock(g1, o, TRUE, FALSE) # None \/ o \in Refusing -> g1
          [] OTHER -> SetWorn(Learn(g1, {o} \cap Weapons), o, "wep")

\* setequip: the old object out, the new one in; a curse is felt at once.
SetEquip(g, o, slot) ==
    LET g1 == SetWorn(g, None, slot)
    IN  IF o = None THEN g1 ELSE Learn(SetWorn(g1, o, slot), {o})

-----------------------------------------------------------------------------
(* equip_heartbeat.                                                        *)

EquipOrder ==
    <<<<"armg", "unequip">>, <<"ringl", "unequip">>, <<"ringr", "unequip">>,
      <<"ringr", "equip">>, <<"ringl", "equip">>, <<"armg", "equip">>,
      <<"arms", "unequip">>,
      <<"swapwep", "swap">>, <<"wep", "swap">>, <<"quiver", "swap">>,
      <<"arms", "equip">>,
      <<"armc", "unequip">>, <<"arm", "unequip">>, <<"armu", "unequip">>,
      <<"armu", "equip">>, <<"arm", "equip">>, <<"armc", "equip">>>>

\* want_to_change_slot
WantsChange(g, slot) ==
    /\ g.want[slot] \notin {None, In(g, slot)}
    /\ IF g.want[slot] = Empty THEN In(g, slot) # None
                               ELSE g.want[slot] \in g.carried

Forget(g, slots) ==
    [g EXCEPT !.want = [s \in EquipSlots |-> IF s \in slots THEN None ELSE @[s]]]

\* What is asked of a slot, once a wish for what is the case is dropped.
Reconsidered(g, slot) ==
    IF \/ In(g, slot) # None /\ g.want[slot] = In(g, slot)
       \/ In(g, slot) = None /\ g.want[slot] = Empty
    THEN Forget(g, {slot}) ELSE g

\* fast_weapon_swap
FastSwap(g, slot) ==
    /\ slot = "swapwep"
    /\ \/ g.want[slot] = In(g, "wep")
       \/ g.want[slot] = Empty /\ In(g, "wep") = None
       \/ In(g, slot) # None /\ In(g, slot) = g.want["wep"]

\* cant_equip: whether the change is impossible, and what there is to learn.
Hindrance(g, slot, dir, spoil) ==
    LET o == g.want[slot]
        current == In(g, slot)
        w == In(g, "wep")
        Ready(x) == ReadyBlock(g, x, FALSE)
        Off(x, see) == IF x = None THEN None ELSE UnwearBlock(g, x, see, FALSE)
        them == CASE FastSwap(g, slot) ->
                       {Off(w, spoil),
                        WieldBlock(g, IF current = None THEN Empty ELSE current, spoil, FALSE),
                        IF o = w THEN None ELSE Ready(o)}
                  [] dir = "unequip" -> {Off(current, spoil)}
                  [] dir = "swap" ->
                       {Off(current, FALSE),
                        IF slot = "wep" THEN WieldBlock(g, o, spoil, FALSE) ELSE Ready(o)}
                  [] OTHER -> IF slot \in WearMask(g, o, spoil, FALSE) THEN {} ELSE {o}
    IN  [cant |-> them \ {None} # {},
         learnt |-> IF dir = "equip" THEN WearTeaches(g, o) ELSE them \ {None}]

Delay(o) == IF o \in Slow THEN 1 ELSE 0

ActionCost(g, slot, dir) ==
    CASE slot = "quiver" \/ FastSwap(g, slot) -> 0
      [] slot \in {"wep", "swapwep", "ringl", "ringr"} -> 1
      [] OTHER -> 1 + Delay(IF dir = "unequip" THEN In(g, slot) ELSE g.want[slot])

\* The swap of the two hands, or of one of them into the other; a wish that
\* came true is dropped, and one must have.
Swapped(g) ==
    LET h == Forget(g, {x \in {"swapwep", "wep"} : ~WantsChange(g, x)})
    IN  [h EXCEPT !.panicked = @ \/ None \notin {h.want["swapwep"], h.want["wep"]}]

FullSwap(wielded, off, new) ==
    SetWorn(wielded, IF In(wielded, "wep") = off THEN new ELSE off, "swapwep")

HalfSwap(bare, new) ==
    IF new # None /\ bare.worn[new] \cap EquipSlots = {}
    THEN SetWorn(bare, new, "swapwep") ELSE bare

PerformSwap(g) ==
    LET off == In(g, "swapwep")
        new == IF g.want["swapwep"] = Empty THEN None ELSE g.want["swapwep"]
        next == IF off = None THEN Empty ELSE off
        bare == SetWorn(g, None, "swapwep")
    IN  Swapped(IF g.want["wep"] = next
                THEN FullSwap(ReadyWeapon(bare, next), off, new)
                ELSE HalfSwap(ReadyWeapon(g, Empty), new))

\* What is done to the slot when everything allows it.
Perform(g, slot, dir, temp) ==
    LET o == g.want[slot]
        current == In(g, slot)
    IN  CASE FastSwap(g, slot) -> PerformSwap(g)
          [] slot = "wep" -> ReadyWeapon(g, o)
          [] slot \in {"swapwep", "quiver"} ->
               IF o = Empty THEN SetWorn(g, None, slot)
                            ELSE SetWorn(Unwield(g, o), o, slot)
          [] dir = "unequip" ->
               LET h == SetEquip(g, None, slot)
               IN  IF o = None /\ temp THEN [h EXCEPT !.want[slot] = current] ELSE h
          [] o \in Refusing -> g
          [] OTHER -> SetEquip(Unwield(g, o), o, slot)

\* Settled, as a version that goes on with what was tried and failed
SettledAnyway(g, slot, before) ==
    CheckTwoweapon(IF ~WantsChange(g, slot) THEN Forget(g, {slot}) ELSE g)

\* A wish that came true is dropped, and one that was tried and failed.
Settled(g, slot, before) ==
    CheckTwoweapon(IF ~WantsChange(g, slot) \/ In(g, slot) = before
                   THEN Forget(g, {slot}) ELSE g)

GiveUp(g, slot) ==
    Forget(g, IF FastSwap(g, slot) THEN {slot, "wep"} ELSE {slot})

\* An attempt that costs so much, and cannot succeed if cant.
Attempt(s, g, slot, dir, temp, cant, cost) ==
    LET more == cost > g.spent[slot] /\ ~s.ready
        current == In(g, slot)
        mine == IF g.want[slot] = None THEN current ELSE g.want[slot]
        saved == g.spent[slot] + (IF more THEN 1 ELSE 0)
        time == [g EXCEPT
                   !.spent[slot] = IF cost > saved THEN saved ELSE saved - cost,
                   !.spentOn[slot] = IF more THEN mine ELSE @,
                   !.mixed = \/ @
                             \/ cost > 0 /\ g.spent[slot] > 0 /\ g.spentOn[slot] # mine]
    IN  [ready |-> s.ready \/ more,
         busy |-> cost > saved,
         gear |-> IF cost > saved THEN time
                  ELSE IF cant THEN GiveUp(time, slot)
                  ELSE Settled(Perform(time, slot, dir, temp), slot, current)]

\* What the player runs into is found out once there is time for it.
Try(s, g, slot, dir, temp, cost, wall) ==
    LET cant == wall.cant /\ (cost = 0 \/ ~s.ready \/ g.spent[slot] > 0)
    IN  Attempt(s, IF cant THEN Learn(g, wall.learnt) ELSE g, slot, dir, temp,
                cant, IF cant /\ cost > 0 THEN 1 ELSE cost)

Consider(s, g, slot, dir, temp) ==
    CASE \/ ~WantsChange(g, slot) /\ ~temp
         \/ dir = "unequip" /\ In(g, slot) = None
         \/ dir = "equip" /\ g.want[slot] \in {None, Empty} -> [s EXCEPT !.gear = g]
      [] Hindrance(g, slot, dir, FALSE).cant -> [s EXCEPT !.gear = GiveUp(g, slot)]
      [] OTHER -> Try(s, g, slot, dir, temp, ActionCost(g, slot, dir),
                      Hindrance(g, slot, dir, TRUE))

\* One line of the order.  s: the gear, whether this turn's time is spent,
\* and whether the function has returned 2.
HeartbeatAt(s, slot, dir) ==
    LET temp == /\ dir = "unequip"
                /\ \E j \in {"arm", "armu"} : SlotCovers(slot, j) /\ WantsChange(s.gear, j)
    IN  IF s.busy \/ (s.gear.want[slot] = None /\ ~temp) THEN s
        ELSE Consider(s, Reconsidered(s.gear, slot), slot, dir, temp)

Result(s) ==
    [gear |-> s.gear, rv |-> IF s.busy THEN 2 ELSE IF s.ready THEN 1 ELSE 0]

Heartbeat(g) ==
    LET after[n \in 0..Len(EquipOrder)] ==
            IF n = 0 THEN [gear |-> g, ready |-> FALSE, busy |-> FALSE]
            ELSE HeartbeatAt(after[n - 1], EquipOrder[n][1], EquipOrder[n][2])
    IN  Result(after[Len(EquipOrder)])

-----------------------------------------------------------------------------
(* The commands.                                                           *)

\* reset_occupations, which runs before the player is asked for a command
ResetOccupations(g) ==
    LET gone == {s \in EquipSlots : g.want[s] \notin g.carried \cup {None, Empty}}
    IN  [g EXCEPT !.want = [s \in EquipSlots |-> IF s \in gone THEN None ELSE @[s]],
                  !.spent = [s \in EquipSlots |-> IF s \in gone THEN 0 ELSE @[s]]]

Becomes(gear) ==
    \E g \in {ResetOccupations(gear)} :
        /\ carried' = g.carried
        /\ worn' = g.worn
        /\ cursed' = g.cursed
        /\ bknown' = g.bknown
        /\ want' = g.want
        /\ spent' = g.spent
        /\ twoweap' = g.twoweap
        /\ spentOn' = [s \in EquipSlots |-> IF g.spent[s] = 0 THEN None ELSE g.spentOn[s]]
        /\ mixed' = g.mixed
        /\ panicked' = g.panicked

\* Saved, as a version that starts each slot again
SavedAnew(g, kept, target) == [j \in EquipSlots |-> 0]

\* The time saved up for a slot is lost when it is to have something else.
Saved(g, kept, target) ==
    [j \in EquipSlots |->
        IF j \in kept \/ g.want[j] = target[j] THEN g.spent[j] ELSE 0]

\* It is the same change still if what is asked for is the case or wished for,
\* and anything is.
Resuming(g, o, slot, keep_swapwep) ==
    /\ \E j \in EquipSlots : g.want[j] # None /\ ~(keep_swapwep /\ j = "swapwep")
    /\ \/ g.want[slot] = o
       \/ In(g, slot) = IF o = Empty THEN None ELSE o

\* What was temporarily taken off stays wished for.
KeptSlots(o, slot, resuming, keep_swapwep) ==
    {j \in EquipSlots :
        \/ keep_swapwep /\ j = "swapwep"
        \/ /\ resuming
           /\ SlotCovers(j, slot) \/ j = slot \/ (j = "wep" /\ slot = "arms" /\ o = Empty)}

Retarget(g, kept, target) ==
    [g EXCEPT !.want = [j \in EquipSlots |-> IF j \in kept THEN @[j] ELSE target[j]],
              !.spent = Saved(g, kept, target)]

Target(o, slot) == [j \in EquipSlots |-> IF j = slot THEN o ELSE None]

\* equip_in_slot, up to the call of equip_heartbeat
Asked(g, object, place, keep_swapwep, cblock) ==
    LET both == /\ cblock /\ place = "wep"
                /\ object \in TwoHanded /\ In(g, "arms") # None
        o == IF both THEN Empty ELSE object
        slot == IF both THEN "arms" ELSE place
        h == Retarget(g, KeptSlots(o, slot, Resuming(g, o, slot, keep_swapwep), keep_swapwep),
                      Target(o, slot))
    IN  CASE both -> [h EXCEPT !.want["wep"] = object]
          [] cblock /\ slot = "arms" /\ o # Empty /\ Is(In(g, "wep"), TwoHanded) ->
               [h EXCEPT !.want["wep"] = Empty]
          [] OTHER -> h

\* What a command asks equip_heartbeat to work on, or why it does not call it
Ask(gear) == [go |-> TRUE, gear |-> gear]
Refused == [go |-> FALSE]

SlotOrder == <<"arm", "armc", "arms", "armg", "armu", "ringl", "ringr">>
FirstSlot(set) == SlotOrder[Min({i \in DOMAIN SlotOrder : SlotOrder[i] \in set})]

\* dowear
Wear(g, o, cblock) ==
    LET loose == WearMask(g, o, FALSE, cblock)
        mask == IF loose = {"ringl", "ringr"} THEN WearMask(g, o, FALSE, FALSE) ELSE loose
    IN  IF mask = {} THEN Refused
        ELSE Ask(Asked(g, o, FirstSlot(mask), FALSE, cblock))

\* dounequip
TakeOff(g, o, cblock) ==
    LET on == g.worn[o] \cap WornSlots
        mask == WearMask(g, o, FALSE, TRUE)
        free == {x \in mask : In(g, x) = None}
        hindered == IF on # {} THEN UnwearBlock(g, o, FALSE, cblock) # None
                    ELSE mask \cap {"ringl", "ringr"} # {} \/ free = {}
    IN  IF hindered THEN Refused
        ELSE Ask(Asked(g, Empty, FirstSlot(IF on # {} THEN on ELSE free), FALSE, cblock))

\* dowield, and wield_tool for a tool that is applied
Wield(g, o, cblock, pushweapon) ==
    LET h == IF pushweapon
             THEN [g EXCEPT !.want["swapwep"] = In(g, "wep"), !.spent["swapwep"] = 0]
             ELSE g
    IN  Ask(Asked(h, o, "wep", TRUE, cblock))

\* doswapweapon
Exchange(g) ==
    LET Now(x) == IF In(g, x) = None THEN Empty ELSE In(g, x)
    IN  Ask([g EXCEPT
            !.want = [x \in EquipSlots |->
                        CASE x = "wep" -> Now("swapwep")
                          [] x = "swapwep" -> Now("wep")
                          [] OTHER -> None],
            !.spent = [x \in EquipSlots |-> 0]])

Requested(g, c) ==
    CASE c.cmd = "wear" -> Wear(g, c.arg, c.cblock)
      [] c.cmd = "takeoff" -> TakeOff(g, c.arg, c.cblock)
      [] c.cmd = "wield" -> Wield(g, c.arg, c.cblock, c.push)
      [] c.cmd = "quiver" -> Ask(Asked(g, c.arg, "quiver", FALSE, c.cblock))
      [] c.cmd = "swap" -> Exchange(g)
      [] c.cmd = "equip" -> Ask(g)

Playing == ~panicked

Run(c, sofar) ==
    \E q \in {Requested(Gear, c)} :
    \E res \in {IF q.go THEN Heartbeat(q.gear) ELSE [gear |-> Gear, rv |-> NotRun]} :
        /\ Becomes(res.gear)
        /\ finished' = (res.rv \in {0, 1})
        /\ doing' = IF res.rv = 2 THEN c ELSE NotBusy
        /\ beats' = IF res.rv = 2 THEN sofar + 1 ELSE 0
        /\ around' = (around \cup carried) \ carried'
        /\ UNCHANGED upsets

Command(cmd, args) ==
    \E o \in args, opts \in Options :
        Run([cmd |-> cmd, arg |-> o, cblock |-> opts.cblock, push |-> opts.push], 0)

Handy == (carried \cap Wielded) \cup {Empty}

DoWear == Playing /\ Command("wear", carried)
DoUnequip == Playing /\ Command("takeoff", carried)
DoWield == Playing /\ Command("wield", Handy)
DoWieldQuiver == Playing /\ Command("quiver", Handy)
DoSwapWeapon == Playing /\ Run([cmd |-> "swap"], 0)

\* "repeat": the client goes on with a command that called action_incomplete.
Continue ==
    /\ Playing /\ doing # NotBusy
    /\ "arg" \in DOMAIN doing => doing.arg \in carried \cup {Empty}
    /\ Run(doing, beats)

Aside(g) ==
    /\ Becomes(g)
    /\ finished' = FALSE /\ doing' = NotBusy /\ beats' = 0
    /\ around' = (around \cup carried) \ carried'

\* The menu of doequip.  It can be left after any choice, and a choice that
\* is not carried out stays.
MenuCancel ==
    /\ Playing
    /\ Aside([Gear EXCEPT !.want = [s \in EquipSlots |-> None],
                          !.spent = [s \in EquipSlots |-> 0]])
    /\ UNCHANGED upsets

MenuRemoveAll ==
    /\ Playing
    /\ Aside([Gear EXCEPT
          !.spent = [s \in EquipSlots |-> IF want[s] = Empty THEN @[s] ELSE 0],
          !.want = [s \in EquipSlots |-> IF In(Gear, s) = None THEN None ELSE Empty]])
    /\ UNCHANGED upsets

\* canwearobjon
CanWearOn(g, o, slot, cblock) ==
    CASE slot = "wep" -> WieldBlock(g, o, FALSE, cblock) = None
      [] slot \in {"swapwep", "quiver"} -> ReadyBlock(g, o, cblock) = None
      [] OTHER -> slot \in WearMask(g, o, FALSE, cblock)

Fitting(slot) ==
    IF slot \in HandSlots THEN carried \cap Wielded
    ELSE {o \in carried : WhichSlot(o) = IF slot = "ringr" THEN "ringl" ELSE slot}

\* For a slot that is as it should be and that nothing carried fits, there is
\* nothing to choose.
MenuChoose ==
    /\ Playing
    /\ \E slot \in EquipSlots, opts \in Options : \E o \in Fitting(slot) \cup {Empty} :
         LET current == In(Gear, slot)
         IN  /\ o = Empty => current # None \/ want[slot] # None
             /\ Cardinality({x \in EquipSlots \ {slot} : want[x] # None}) < MaxWishes
             /\ current # None => UnwearBlock(Gear, current, FALSE, opts.cblock) = None
             /\ o = Empty \/ CanWearOn(Gear, o, slot, opts.cblock)
             /\ Aside([Gear EXCEPT
                   !.want[slot] = IF o = current \/ (o = Empty /\ current = None)
                                  THEN None ELSE o,
                   !.spent[slot] = 0])
    /\ UNCHANGED upsets

MenuChange ==
    /\ Playing /\ \E s \in EquipSlots : want[s] # None
    /\ Run([cmd |-> "equip"], 0)

DoTwoWeapon ==
    /\ Playing
    /\ LET can == CanTwoweapon(Gear)
       IN  Aside(IF twoweap THEN [Gear EXCEPT !.twoweap = FALSE]
                 ELSE [can.gear EXCEPT !.twoweap = @ \/ can.ok])
    /\ UNCHANGED upsets

-----------------------------------------------------------------------------
(* What happens to the objects meanwhile.  Each of it is an upset: the      *)
(* change is interrupted, and the player has to ask for it again.          *)

Upset ==
    /\ Playing /\ upsets < MaxUpsets
    /\ upsets' = upsets + 1

TakenOff(g, o) ==
    LET h == Unwield(g, o) IN [h EXCEPT !.worn[o] = {}]

\* steal: what lies under something is not stolen, but what covers it.  Armor
\* is not torn off but charmed off, and loses its curse.
Stolen(g, o) ==
    CASE o = In(g, "armg") /\ In(g, "wep") # None -> In(g, "wep")
      [] o \in {In(g, "arm"), In(g, "armu")} /\ In(g, "armc") # None -> In(g, "armc")
      [] o = In(g, "armu") /\ In(g, "arm") # None -> In(g, "arm")
      [] OTHER -> o

Steal ==
    /\ Upset
    /\ \E o \in carried :
         LET it == Stolen(Gear, o)
             charmed == {it} \cap {x \in Objects \ Rings : worn[x] \cap WornSlots # {}}
         IN  Aside([TakenOff(Gear, it) EXCEPT !.carried = @ \ {it},
                                              !.cursed = @ \ charmed,
                                              !.bknown = @ \ charmed])

\* destroy_arm of some_armor: the outermost of the body, gloves or shield
DestroyArm ==
    /\ Upset
    /\ \E slot \in {"armc", "arm", "armu", "armg", "arms"} :
         LET o == In(Gear, slot)
             g == TakenOff(Gear, o)
             freed == [s \in EquipSlots |-> IF want[s] = o THEN None ELSE want[s]]
         IN  /\ o # None
             /\ \A above \in EquipSlots : SlotCovers(above, slot) => In(Gear, above) = None
             /\ Becomes([g EXCEPT !.carried = @ \ {o}, !.want = freed])
    /\ finished' = FALSE /\ doing' = NotBusy /\ beats' = 0
    /\ UNCHANGED around

\* curse(); whether the player knows depends on what was known before
Curse ==
    /\ Upset
    /\ \E o \in carried, known \in BOOLEAN :
         /\ o \notin cursed
         /\ LET g == [Gear EXCEPT !.cursed = @ \cup {o},
                                  !.bknown = IF known THEN @ \cup {o} ELSE @]
            IN  Aside(IF twoweap /\ o = In(g, "swapwep") THEN Dropped(g, o) ELSE g)

Uncurse ==
    /\ Upset
    /\ \E o \in carried \cap cursed :
         Aside([Gear EXCEPT !.cursed = @ \ {o}, !.bknown = @ \ {o}])

\* drop
DropItem ==
    /\ Upset
    /\ \E o \in carried :
         /\ worn[o] \cap WornSlots = {}
         /\ Aside(IF Weld(Gear, cursed) = o THEN Learn(Gear, {o}) ELSE Dropped(Gear, o))

PickUpItem ==
    /\ Playing
    /\ \E o \in around : Aside([Gear EXCEPT !.carried = @ \cup {o}])
    /\ UNCHANGED upsets

PlayerActs ==
    \/ DoWear \/ DoUnequip \/ DoWield \/ DoWieldQuiver \/ DoSwapWeapon
    \/ Continue \/ MenuCancel \/ MenuRemoveAll \/ MenuChoose \/ MenuChange
    \/ DoTwoWeapon

EquipNext ==
    PlayerActs \/ Steal \/ DestroyArm \/ Curse \/ Uncurse \/ DropItem \/ PickUpItem

-----------------------------------------------------------------------------
(* What has to hold.                                                       *)

EquipTypeOK ==
    /\ carried \subseteq Objects /\ around \subseteq Objects \ carried
    /\ worn \in [Objects -> SUBSET EquipSlots]
    /\ cursed \subseteq Objects /\ bknown \subseteq cursed
    /\ want \in [EquipSlots -> Objects \cup {None, Empty}]
    /\ spent \in [EquipSlots -> 0..2]
    /\ twoweap \in BOOLEAN /\ panicked \in BOOLEAN /\ mixed \in BOOLEAN
    /\ finished \in BOOLEAN
    /\ upsets \in 0..MaxUpsets

Wears(o, slot) == slot \in worn[o]

\* Whatever was asked for, stolen and interrupted: one slot has one object,
\* an object has one slot and is carried and of the slot's kind; no shield
\* beside a weapon for two hands; and who fights with two weapons holds two,
\* of one hand each and the second not cursed (wield.c:46, do_wear.c:1434); except that one object may be
\* both quivered and readied (OneSlotEach).
EquipIsSound ==
    /\ \A o \in Objects \ carried : worn[o] = {}
    /\ \A o \in carried :
        /\ worn[o] # {"quiver", "swapwep"} => Cardinality(worn[o]) <= 1
        /\ \A slot \in worn[o] \cap WornSlots :
              WhichSlot(o) = IF slot = "ringr" THEN "ringl" ELSE slot
        /\ \A x \in carried \ {o} : worn[o] \cap worn[x] = {}
    /\ ~\E t \in TwoHanded, s \in Shields : Wears(t, "wep") /\ Wears(s, "arms")
    /\ twoweap =>
        /\ \E o \in Weapons \ TwoHanded : Wears(o, "wep")
        /\ \E o \in Weapons \ (TwoHanded \cup cursed) : Wears(o, "swapwep")
        /\ \A s \in Shields : ~Wears(s, "arms")

\* No command of the player moves what a curse holds, or what lies beneath
\* something that is worn before and after it, or puts hands to use that are
\* welded to a weapon, however many slots the turn goes through.
NothingIsForced ==
    [][upsets' = upsets =>
        /\ \A o \in cursed : worn[o] \cap WornSlots # {} => worn'[o] = worn[o]
        /\ \A o \in cursed \cap Weapons : Wears(o, "wep") =>
              /\ worn'[o] = {"wep"}
              /\ \A x \in Objects : Wears(x, "armg") <=> "armg" \in worn'[x]
              /\ \A x \in Objects : Wears(x, "ringr") <=> "ringr" \in worn'[x]
              /\ o \in TwoHanded => \A x \in Suits \cup Shirts : worn'[x] \cap WornSlots = worn[x] \cap WornSlots
        /\ \A above \in carried :
              \A slot \in worn[above] \cap worn'[above] \cap {"armc", "arm"} :
              \A o \in carried :
                 SlotCovers(slot, WhichSlot(o)) =>
                    Wears(o, WhichSlot(o)) = (WhichSlot(o) \in worn'[o])
      ]_equipVars

\* When equip_heartbeat returns 0 or 1, one turn's pass over its order of
\* slots, in which a step for one slot may undo what another waits for, has
\* left no slot still to be changed: nobody would come back to it.
FinishedMeansDone ==
    finished => \A slot \in EquipSlots : ~WantsChange(Gear, slot)

\* The time that is saved up for a slot is never spent on another wish than
\* it was saved up for, whatever was asked for, cancelled and lost meanwhile
\* (do_wear.c:1036).
TimeIsItsOwn == ~mixed

\* A change that nothing upsets ends: it takes no longer than twice the time
\* of every object carried, each being taken off and put on once, and no slot
\* uses up the time that was saved for another wish.
Longest ==
    FoldSet(LAMBDA o, n : n + 2 * (1 + Delay(o)), 0, carried)
ChangesEnd == (beats < Longest \/ beats = 0) /\ TimeIsItsOwn

\* "No item may be in more than one of these slots" (wield.c:46).
OneSlotEach == \A o \in Objects : Cardinality(worn[o]) <= 1

\* The panic "Swapping items did not help with desire" is never reached.
SwapsHelp == ~panicked

EquipSpec == EquipInit /\ [][EquipNext]_equipVars
=============================================================================
