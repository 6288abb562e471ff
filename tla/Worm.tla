-------------------------------- MODULE Worm --------------------------------
(***************************************************************************)
(* Long worms (worm.c).  A worm is one monster, its head, and a list of     *)
(* segments that is kept in an array of the level; the monster's wormno is  *)
(* the index.  The map of the level points from every square of the worm    *)
(* to the monster.  So three structures describe one animal: the monster's  *)
(* own coordinates, the list, and the map.  Every operation that moves,     *)
(* cuts, shrinks, teleports, polymorphs, kills or migrates a worm has to    *)
(* change them together.  wormno has a second use: while a monster is on    *)
(* its way to another level it is the number of segments to make again.     *)
(*                                                                         *)
(* The model is one level, its squares a small graph, and the monsters      *)
(* that come, go and change shape on it.                                    *)
(***************************************************************************)
EXTENDS Naturals, SequencesExt, FiniteSetsExt

CONSTANTS
    Size,         \* number of squares a monster can stand on
    Near,         \* the squares next to one, as a function of it
    ZeroColumn,   \* those of them with x = 0
    Beasts,       \* the monsters
    WormSlots,    \* MAX_NUM_WORMS - 1: entries of wtails and wheads in use
    MaxSegs       \* longest list of segments, the one under the head included

Squares == 1..Size

NoBeast == "nobody"

ASSUME WormAssumption ==
    /\ Size \in Nat
    /\ Near \in [Squares -> SUBSET Squares]
    /\ ZeroColumn \subseteq Squares
    /\ NoBeast \notin Beasts
    /\ WormSlots \in Nat
    /\ MaxSegs \in Nat \ {0}

Unplaced == 0       \* (0,0): a segment that is not on the map yet
Colno == Size + 1   \* (COLNO,ROWNO): a monster that is not on the map

Slots == 1..WormSlots

VARIABLES
    monsters,   \* level->monsters[x][y]: who is on a square, or NoBeast
    pos,        \* mx, my of a monster
    fate,       \* "here", "migrating" or "gone"
    longWorms,  \* the monsters whose data is PM_LONG_WORM
    wormno,     \* the slot of a monster here, the length of one migrating
    wsegs,      \* the list of a slot from wtails to wheads; <<>>: both are NULL
    cramped     \* whether a tail that was relocated ever had to be cut short

wormVars == <<monsters, pos, fate, longWorms, wormno, wsegs, cramped>>

WormTypeOK ==
    /\ monsters \in [Squares -> Beasts \cup {NoBeast}]
    /\ pos \in [Beasts -> Squares \cup {Colno}]
    /\ fate \in [Beasts -> {"here", "migrating", "gone"}]
    /\ longWorms \subseteq Beasts
    /\ wormno \in [Beasts -> 0..Max({WormSlots, MaxSegs})]
    /\ wsegs \in [Slots -> BoundedSeq(Squares \cup {Unplaced, Colno}, MaxSegs)]
    /\ cramped \in BOOLEAN

WormInit ==
    /\ monsters = [s \in Squares |-> NoBeast]
    /\ pos = [m \in Beasts |-> Colno]
    /\ fate = [m \in Beasts |-> "gone"]
    /\ longWorms = {}
    /\ wormno = [m \in Beasts |-> 0]
    /\ wsegs = [n \in Slots |-> <<>>]
    /\ cramped = FALSE

-----------------------------------------------------------------------------
(* The map.  remove_monster, toss_wsegs and remove_worm all clear squares;  *)
(* toss_wsegs alone passes over those with x = 0, which is how it tells     *)
(* segments that were never placed.                                         *)

Cleared(map, squares) == [s \in Squares |-> IF s \in squares THEN NoBeast ELSE map[s]]

Occupied(map, m, squares) == [s \in Squares |-> IF s \in squares THEN m ELSE map[s]]

Tossed(map, segs) == Cleared(map, Range(segs) \ ZeroColumn)

GoodPos(map, s) == map[s] = NoBeast

\* The monster's head, and all of its list, taken off the map.
LiftedOff(m) ==
    IF wormno[m] # 0 THEN Cleared(monsters, Range(wsegs[wormno[m]]))
                     ELSE Cleared(monsters, {pos[m]})

\* get_wormno: the first slot without a list; 0 when the level is infested.
GetWormno(lists) ==
    LET free == {n \in Slots : lists[n] = <<>>}
    IN  IF free = {} THEN 0 ELSE Min(free)

\* initworm: a chain of n + 1 segments with no place yet, or a single segment
\* where the monster is.
InitWorm(n, where) ==
    IF n = 0 THEN <<where>> ELSE [i \in 1..(n + 1) |-> Unplaced]

\* place_worm_tail_randomly: where the segments behind the head can come to
\* lie, one next to the other on free squares.  Fifty tries may always fail,
\* so that a trail can be shorter than the list.
Trails(map, head, n) ==
    {t \in UNION {[1..k -> {s \in Squares : GoodPos(map, s)}] : k \in 0..n} :
        /\ IsInjective(t)
        /\ \A i \in DOMAIN t : t[i] \in Near[IF i = 1 THEN head ELSE t[i - 1]]}

\* TailOn, as a version that leaves the list the way it was laid out
TailOnUnturned(map, m, head, segs, trail) ==
    [list |-> <<head>> \o trail,
     map  |-> Tossed(Occupied(map, m, Range(trail)), SubSeq(segs, Len(trail) + 2, Len(segs)))]

\* The list is turned round: its first segment goes under the head.  What is
\* left over is tossed, and still has the coordinates it had before.
TailOn(map, m, head, segs, trail) ==
    [list |-> Append(Reverse(trail), head),
     map  |-> Tossed(Occupied(map, m, Range(trail)), SubSeq(segs, Len(trail) + 2, Len(segs)))]

-----------------------------------------------------------------------------
(* makemon, and newcham into a long worm, give a monster on the map a tail. *)

GrowTail(m, x, map) ==
    LET n == GetWormno(wsegs)
    IN  IF n = 0
        THEN monsters' = map /\ wormno' = [wormno EXCEPT ![m] = 0] /\ UNCHANGED wsegs
        ELSE \E k \in 0..(MaxSegs - 1) : \E t \in Trails(map, x, k) :
                LET tail == TailOn(map, m, x, InitWorm(k, x), t)
                IN  /\ monsters' = tail.map
                    /\ wormno' = [wormno EXCEPT ![m] = n]
                    /\ wsegs' = [wsegs EXCEPT ![n] = tail.list]

MakeMon(m, x, isWorm) ==
    /\ fate[m] = "gone"
    /\ GoodPos(monsters, x)
    /\ fate' = [fate EXCEPT ![m] = "here"]
    /\ pos' = [pos EXCEPT ![m] = x]
    /\ LET map == Occupied(monsters, m, {x})
       IN  IF isWorm
           THEN longWorms' = longWorms \cup {m} /\ GrowTail(m, x, map)
           ELSE /\ monsters' = map
                /\ longWorms' = longWorms \ {m}
                /\ wormno' = [wormno EXCEPT ![m] = 0]
                /\ UNCHANGED wsegs
    /\ UNCHANGED cramped

(* m_move.  worm_move: the segment under the old head becomes visible, a    *)
(* new one goes under the head, and unless the worm grows the last of the   *)
(* tail is dropped.                                                         *)

\* shrink_worm: the list and the map without the end of the tail.
ShrinkWorm(map, segs) ==
    IF Len(segs) = 1 THEN [list |-> segs, map |-> map]
    ELSE [list |-> Tail(segs), map |-> Tossed(map, <<Head(segs)>>)]

WormMove(m, y, grows) ==
    LET n == wormno[m]
        map == Occupied(Cleared(monsters, {pos[m]}), m, {y, Last(wsegs[n])})
        moved == IF grows THEN [list |-> Append(wsegs[n], y), map |-> map]
                          ELSE ShrinkWorm(map, Append(wsegs[n], y))
    IN  /\ ~grows \/ Len(wsegs[n]) < MaxSegs
        /\ monsters' = moved.map
        /\ wsegs' = [wsegs EXCEPT ![n] = moved.list]

\* m_move to y, a square next to the monster.
MonMove(m, y) ==
    /\ fate[m] = "here"
    /\ y \in Near[pos[m]] /\ GoodPos(monsters, y)
    /\ pos' = [pos EXCEPT ![m] = y]
    /\ IF wormno[m] # 0
       THEN \E grows \in BOOLEAN : WormMove(m, y, grows)
       ELSE monsters' = Occupied(LiftedOff(m), m, {y}) /\ UNCHANGED wsegs
    /\ UNCHANGED <<fate, longWorms, wormno, cramped>>

\* m_move that goes nowhere: worm_nomove.
WormNoMove(m) ==
    /\ fate[m] = "here" /\ wormno[m] # 0
    /\ LET shrunk == ShrinkWorm(monsters, wsegs[wormno[m]])
       IN  /\ monsters' = shrunk.map
           /\ wsegs' = [wsegs EXCEPT ![wormno[m]] = shrunk.list]
    /\ UNCHANGED <<pos, fate, longWorms, wormno, cramped>>

-----------------------------------------------------------------------------
(* cutworm: a blow against the square x, which is the worm's but not its    *)
(* head.  The tail end of a worm that is cut dies (cutoff), or lives on as  *)
(* a monster of its own (clone_mon) whose head is on x.                     *)

CutAt(m, i) ==
    LET n == wormno[m]
        segs == wsegs[n]
        rest == SubSeq(segs, i + 1, Len(segs))
        lost == SubSeq(segs, 1, i)
    IN  \/ /\ monsters' = Tossed(monsters, lost)
           /\ wsegs' = [wsegs EXCEPT ![n] = rest]
           /\ UNCHANGED <<pos, fate, longWorms, wormno>>
        \/ LET k == GetWormno(wsegs)
           IN  /\ k # 0
               /\ \E c \in Beasts :
                    /\ fate[c] = "gone"
                    /\ fate' = [fate EXCEPT ![c] = "here"]
                    /\ pos' = [pos EXCEPT ![c] = segs[i]]
                    /\ longWorms' = longWorms \cup {c}
                    /\ wormno' = [wormno EXCEPT ![c] = k]
                    /\ wsegs' = [wsegs EXCEPT ![n] = rest, ![k] = lost]
                    /\ monsters' = Occupied(monsters, c, Range(lost))

CutWorm(m, x) ==
    /\ fate[m] = "here" /\ wormno[m] # 0
    /\ monsters[x] = m /\ x # pos[m]
    /\ LET segs == wsegs[wormno[m]]
           i == SelectInSeq(segs, LAMBDA s : s = x)
       IN  IF i = 1
           THEN LET shrunk == ShrinkWorm(monsters, segs)
                IN  /\ monsters' = shrunk.map
                    /\ wsegs' = [wsegs EXCEPT ![wormno[m]] = shrunk.list]
                    /\ UNCHANGED <<pos, fate, longWorms, wormno>>
           ELSE i # 0 /\ CutAt(m, i)
    /\ UNCHANGED cramped

-----------------------------------------------------------------------------
(* wormgone, and what it is part of.                                        *)

\* wormgone: the whole list goes, and with it the head's entry in the map.
WormGone(m, map) ==
    IF wormno[m] = 0 THEN monsters' = map /\ UNCHANGED wsegs
    ELSE /\ monsters' = Tossed(map, wsegs[wormno[m]])
         /\ wsegs' = [wsegs EXCEPT ![wormno[m]] = <<>>]

\* m_detach.
Dies(m) ==
    /\ fate[m] = "here"
    /\ WormGone(m, Cleared(monsters, {pos[m]}))
    /\ fate' = [fate EXCEPT ![m] = "gone"]
    /\ pos' = [pos EXCEPT ![m] = Colno]
    /\ longWorms' = longWorms \ {m}
    /\ wormno' = [wormno EXCEPT ![m] = 0]
    /\ UNCHANGED cramped

\* newcham: a worm throws its tail away and its head is put back on the map;
\* a monster that becomes a worm grows one.
NewCham(m) ==
    /\ fate[m] = "here"
    /\ IF m \in longWorms
       THEN /\ longWorms' = longWorms \ {m}
            /\ wormno' = [wormno EXCEPT ![m] = 0]
            /\ IF wormno[m] = 0 THEN UNCHANGED <<monsters, wsegs>>
               ELSE /\ monsters' = Occupied(Tossed(monsters, wsegs[wormno[m]]), m, {pos[m]})
                    /\ wsegs' = [wsegs EXCEPT ![wormno[m]] = <<>>]
       ELSE /\ longWorms' = longWorms \cup {m}
            /\ GrowTail(m, pos[m], monsters)
    /\ UNCHANGED <<pos, fate, cramped>>

\* keepdogs and migrate_to_level: wormno becomes the number of segments, the
\* one under the head not counted.
Migrate(m) ==
    /\ fate[m] = "here"
    /\ fate' = [fate EXCEPT ![m] = "migrating"]
    /\ pos' = [pos EXCEPT ![m] = Colno]
    /\ wormno' = [wormno EXCEPT
            ![m] = IF wormno[m] = 0 THEN 0 ELSE Min({Len(wsegs[wormno[m]]) - 1, WormSlots})]
    /\ LET gone == IF wormno[m] = 0 THEN monsters ELSE Tossed(monsters, wsegs[wormno[m]])
       IN  monsters' = Cleared(gone, {pos[m]})
    /\ wsegs' = IF wormno[m] = 0 THEN wsegs ELSE [wsegs EXCEPT ![wormno[m]] = <<>>]
    /\ UNCHANGED <<longWorms, cramped>>

-----------------------------------------------------------------------------
(* rloc_to: the worm is lifted off the map, its head put down at x, and its *)
(* tail laid out behind it.                                                 *)

RelocTo(m, x, map, n, segs) ==
    LET put == Occupied(map, m, {x})
    IN  IF n = 0 THEN monsters' = put /\ wsegs' = wsegs /\ UNCHANGED cramped
        ELSE \E t \in Trails(put, x, Len(segs) - 1) :
                LET tail == TailOn(put, m, x, segs, t)
                IN  /\ monsters' = tail.map
                    /\ wsegs' = [wsegs EXCEPT ![n] = tail.list]
                    /\ cramped' = (cramped \/ (Len(t) < Len(segs) - 1 /\ segs[1] \in Squares))

Rloc(m, x) ==
    /\ fate[m] = "here" /\ x # pos[m] /\ GoodPos(monsters, x)
    /\ pos' = [pos EXCEPT ![m] = x]
    /\ RelocTo(m, x, LiftedOff(m), wormno[m], IF wormno[m] = 0 THEN <<>> ELSE wsegs[wormno[m]])
    /\ UNCHANGED <<fate, longWorms, wormno>>

\* mon_arrive: the list is made again, and the monster comes from nowhere.
MonArrive(m, x) ==
    /\ fate[m] = "migrating"
    /\ GoodPos(monsters, x)
    /\ LET n == IF m \in longWorms THEN GetWormno(wsegs) ELSE 0
       IN  /\ wormno' = [wormno EXCEPT ![m] = n]
           /\ RelocTo(m, x, monsters, n, InitWorm(wormno[m], Colno))
    /\ pos' = [pos EXCEPT ![m] = x]
    /\ fate' = [fate EXCEPT ![m] = "here"]
    /\ UNCHANGED longWorms

\* mon_arrive on a level with no room: the monster is dropped as a corpse.
MonArriveFails(m) ==
    /\ fate[m] = "migrating"
    /\ \A x \in Squares : ~GoodPos(monsters, x)
    /\ fate' = [fate EXCEPT ![m] = "gone"]
    /\ longWorms' = longWorms \ {m}
    /\ wormno' = [wormno EXCEPT ![m] = 0]
    /\ UNCHANGED <<monsters, pos, wsegs, cramped>>

\* rest_worm, place_monster and place_wsegs: the map is not saved, but made
\* again from the monsters and their lists, one monster after the other.
Body(m) == {pos[m]} \cup (IF wormno[m] = 0 THEN {} ELSE Range(wsegs[wormno[m]]))

Restore ==
    LET here == {m \in Beasts : fate[m] = "here"}
    IN  /\ monsters' \in [Squares -> Beasts \cup {NoBeast}]
        /\ \A s \in Squares :
             LET claims == {m \in here : s \in Body(m)}
             IN  IF claims = {} THEN monsters'[s] = NoBeast ELSE monsters'[s] \in claims
        /\ UNCHANGED <<pos, fate, longWorms, wormno, wsegs, cramped>>

WormNext ==
    \/ \E m \in Beasts, x \in Squares :
        \/ \E isWorm \in BOOLEAN : MakeMon(m, x, isWorm)
        \/ MonMove(m, x) \/ CutWorm(m, x) \/ Rloc(m, x) \/ MonArrive(m, x)
    \/ \E m \in Beasts :
        WormNoMove(m) \/ Dies(m) \/ NewCham(m) \/ Migrate(m) \/ MonArriveFails(m)
    \/ Restore

WormSpec == WormInit /\ [][WormNext]_wormVars

-----------------------------------------------------------------------------

\* Whoever the map points to is alive, on this level, and has its head or a
\* segment on that square.  The map holds bare pointers: an entry that
\* outlives its monster is a pointer to freed memory.
MapIsBacked ==
    \A s \in Squares : monsters[s] # NoBeast =>
        fate[monsters[s]] = "here" /\ s \in Body(monsters[s])

\* The other direction: every square of a monster is found in the map under
\* its name, and the end of the list is under its head, unless a tail ever had
\* to be cut short on relocation.
BodyIsOnMap ==
    cramped \/ \A m \in Beasts : fate[m] = "here" =>
        /\ \A s \in Body(m) : s \in Squares /\ monsters[s] = m
        /\ wormno[m] # 0 => Last(wsegs[wormno[m]]) = pos[m]

\* A slot has a list if and only if exactly one monster on the level owns it.
SlotsAreOwned ==
    \A n \in Slots :
        Cardinality({m \in Beasts : fate[m] = "here" /\ wormno[m] = n})
            = IF wsegs[n] = <<>> THEN 0 ELSE 1

\* After every move, cut, change of shape, migration and restore, the map, the
\* lists of segments and the monsters tell of the same worms.
TailsAreSound == MapIsBacked /\ BodyIsOnMap /\ SlotsAreOwned
=============================================================================
