------------------------------ MODULE MCEngine ------------------------------
(***************************************************************************)
(* Four parts of the game that share no state, side by side in one         *)
(* instance: burning lights and their timers (BurnTimers), a shop and its  *)
(* bill (ShopBill), the tails of long worms (Worm), and changing equipment *)
(* (Equip).  Nothing one of them does is seen by another, so that          *)
(* interleaving them would only multiply the states: the initial state     *)
(* chooses the part that moves, and the others stay where they begin.      *)
(***************************************************************************)
EXTENDS BurnTimers, ShopBill, Worm, Equip
CONSTANTS
    c1, c2,    \* the two things that can be lit
    B, C,      \* two of the three levels
    w1, w2,    \* the two monsters that can be worms
    cloak, cape, mail, shield, mitts, ring,
    pike,            \* a weapon for two hands
    dagger, axe,     \* two for one hand
    relic            \* an artifact weapon that blasts the player

VARIABLE part

engineVars == <<part, burnVars, shopVars, wormVars, equipVars>>

(* BurnTimers: no lamp, or one of the two things.                          *)
MCLampSets == {{}, {c1}}

(* ShopBill: one stack of two in the shop.                                 *)
MCShelf == <<2>>

(* BurnTimers: what the game goes on to do once a timer has gone astray is *)
(* not explored, lights and timers of objects that are gone pile up in it. *)
MCUntilAstray == ~astray

(* Worm: a corridor, so that a worm can run out of squares.                *)
MCNear == [s \in Squares |-> {s - 1, s + 1} \cap Squares]

(* Worm: nothing tells the two monsters apart; BurnTimers: nothing tells   *)
(* the two levels apart on which the hero does not start.  The other parts *)
(* know neither.                                                           *)
MCSymmetry == Permutations(Beasts) \cup Permutations({B, C})

(* Equip: each loadout has what one rule is about: layers, two objects for *)
(* one slot, two hands, what rings and gloves share with the weapon, and   *)
(* fighting with two weapons.                                              *)
MCLoadouts ==
    {{cloak, mail}, {cloak, cape}, {shield, pike}, {mail, pike}, {ring, mitts},
     {ring, dagger}, {mitts, dagger}, {dagger, axe}, {relic}}

(* Equip: the two options are set together, or neither is.                 *)
MCOptions == {[cblock |-> b, push |-> b] : b \in BOOLEAN}

Init ==
    /\ part \in {"burn", "shop", "worm", "equip"}
    /\ BurnInit /\ (part # "burn" => lamps = {})
    /\ ShopInit
    /\ WormInit
    /\ EquipInit /\ (part # "equip" => carried = {relic} /\ cursed = {})

BurnMoves ==
    part = "burn" /\ BurnNext /\ UNCHANGED <<part, shopVars, wormVars, equipVars>>
ShopMoves ==
    part = "shop" /\ ShopNext /\ UNCHANGED <<part, burnVars, wormVars, equipVars>>
WormMoves ==
    part = "worm" /\ WormNext /\ UNCHANGED <<part, burnVars, shopVars, equipVars>>
EquipMoves ==
    part = "equip" /\ EquipNext /\ UNCHANGED <<part, burnVars, shopVars, wormVars>>

Next == BurnMoves \/ ShopMoves \/ WormMoves \/ EquipMoves

Spec == Init /\ [][Next]_engineVars
=============================================================================
