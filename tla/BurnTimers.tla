----------------------------- MODULE BurnTimers -----------------------------
(***************************************************************************)
(* Object timers and light sources (timeout.c, light.c) and how they follow*)
(* their objects between levels (set_obj_level in mkobj.c; keepdogs,       *)
(* migrate_to_level and mon_arrive in dog.c; goto_level in do.c).          *)
(*                                                                         *)
(* Every level has its own queue of timers and its own list of lights; an  *)
(* object says through olev which level's they are on.  The objects here   *)
(* are the ones that need both: things that burn.  A lamp runs dry, a      *)
(* candle is used up; both have "magic times" at which the burning timer   *)
(* goes off early to tell the player, so a burn is a chain of timers.      *)
(***************************************************************************)
EXTENDS Integers, SequencesExt, FiniteSetsExt

CONSTANTS
    Things,         \* object identities: lamps and candles
    LampSets,       \* which of them may be the lamps
    Carriers,       \* monsters that carry things
    Levels,         \* levels of the dungeon
    FirstLevel,     \* where the hero starts
    MagicTimes,     \* the remaining fuels at which a burning timer goes off
    AgeBucket,      \* 25: candles merge when their ages fall in the same bucket
    MaxFuel,        \* bound: the fuel of a new thing
    MaxMoves        \* bound: how long the game runs

ASSUME BurnTimersAssumption ==
    /\ LampSets \subseteq SUBSET Things /\ FirstLevel \in Levels
    /\ MagicTimes \subseteq Nat \ {0} /\ AgeBucket \in Nat \ {0} /\ MaxFuel \in Nat /\ MaxMoves \in Nat

VARIABLES
    here,       \* level: the level the hero is on
    now,        \* moves
    things,     \* the objects: where, carrier, olev, age, lamplit, timed, quan
    queue,      \* lev_timers of every level, in order of the timeout
    glow,       \* lev_lights of every level
    abode,      \* where a monster is: a level, or in limbo on its way to one
    complaint,  \* what impossible() was called for, if anything
    astray,     \* history: a timer has gone off on another level than its
                \* object's olev names
    lamps       \* the things that are lamps, for good

burnVars == <<here, now, things, queue, glow, abode, complaint, astray, lamps>>

Limbo == {"limbo"} \X Levels
InLimbo(m) == abode[m] \in Limbo

\* The part of the state the functions of the two files work on.
World == [things |-> things, queue |-> queue, glow |-> glow, complaint |-> complaint]

-----------------------------------------------------------------------------
(* timeout.c and light.c *)

\* Mutant: after the last timer that is not later.
InsertTimerLast(q, timer) ==
    LET n == Cardinality({i \in DOMAIN q : q[i].timeout <= timer.timeout})
    IN  SubSeq(q, 1, n) \o <<timer>> \o SubSeq(q, n + 1, Len(q))

\* insert_timer: before the first timer that is not earlier.
InsertTimer(q, timer) ==
    LET n == Cardinality({i \in DOMAIN q : \A j \in 1..i : q[j].timeout < timer.timeout})
    IN  SubSeq(q, 1, n) \o <<timer>> \o SubSeq(q, n + 1, Len(q))

\* The first element of a list that is o's, 0 if there is none.
FirstOf(list, IsMine(_)) ==
    IF \E i \in DOMAIN list : IsMine(list[i])
    THEN CHOOSE i \in DOMAIN list : IsMine(list[i]) /\ \A j \in 1..(i - 1) : ~IsMine(list[j])
    ELSE 0

Complain(w, what) == [w EXCEPT !.complaint = IF @ = "none" THEN what ELSE @]

\* new_light_source, on the hero's level, and del_light_source.
NewLight(w, lev, o) == [w EXCEPT !.glow[lev] = <<o>> \o @]
DelLight(w, lev, o) ==
    LET i == FirstOf(w.glow[lev], LAMBDA x : x = o)
    IN  IF i = 0 THEN Complain(w, "no light") ELSE [w EXCEPT !.glow[lev] = RemoveAt(@, i)]

\* Mutant: the object does not learn that it has a timer.
StartTimerUncounted(w, o, when, t) ==
    [w EXCEPT !.queue[w.things[o].olev] = InsertTimer(@, [thing |-> o, timeout |-> t + when])]

\* start_timer.
StartTimer(w, o, when, t) ==
    [w EXCEPT !.queue[w.things[o].olev] = InsertTimer(@, [thing |-> o, timeout |-> t + when]),
              !.things[o].timed = @ + 1]

\* begin_burn: burn down to the next magic time; a new burn gets a light.
BurnFor(age) == age - Max({0} \cup {m \in MagicTimes : m < age})
BeginBurn(w, o, alreadyLit, lev, t) ==
    LET turns == BurnFor(w.things[o].age)
        timed == StartTimer(w, o, turns, t)
        lit == [timed EXCEPT !.things[o].lamplit = TRUE, !.things[o].age = @ - turns]
    IN  IF w.things[o].age = 0 THEN w
        ELSE IF alreadyLit THEN lit ELSE NewLight(lit, lev, o)

\* Mutant: the time the timer still had is lost.
StopTimerLosesFuel(w, o, t) ==
    LET lev == w.things[o].olev
        i == FirstOf(w.queue[lev], LAMBDA x : x.thing = o)
        off == [w EXCEPT !.queue[lev] = RemoveAt(@, i), !.things[o].timed = @ - 1]
    IN  IF i = 0 THEN Complain(w, "not timed")
        ELSE [DelLight(off, lev, o) EXCEPT !.things[o].lamplit = FALSE]

\* stop_timer(BURN_OBJECT) and its cleanup_burn, which gives unused fuel back.
StopTimer(w, o, t) ==
    LET lev == w.things[o].olev
        i == FirstOf(w.queue[lev], LAMBDA x : x.thing = o)
        off == [w EXCEPT !.queue[lev] = RemoveAt(@, i), !.things[o].timed = @ - 1]
    IN  IF i = 0 THEN Complain(w, "not timed")
        ELSE [DelLight(off, lev, o) EXCEPT !.things[o].age = @ + w.queue[lev][i].timeout - t,
                                           !.things[o].lamplit = FALSE]

\* end_burn(obj, FALSE), when the timer has already gone off.
EndBurnUntimed(w, o) == [DelLight(w, w.things[o].olev, o) EXCEPT !.things[o].lamplit = FALSE]

\* obj_extract_self and obfree, for a thing that is used up.
Destroy(w, o) == [w EXCEPT !.things[o].where = "gone"]

\* burn_object: the burning timer of o, set for timeout, goes off at time t.
BurnObject(w, o, timeout, lev, t) ==
    LET away == t - timeout
        age == w.things[o].age
        out == EndBurnUntimed([w EXCEPT !.things[o].age = 0], o)
    IN  IF age <= away THEN IF o \in lamps THEN out ELSE Destroy(out, o)
        ELSE BeginBurn([w EXCEPT !.things[o].age = @ - away], o, TRUE, lev, t)

\* run_timers on level lev: fire the head of the queue while it is due.  A
\* thing that is lit again is never due again at once, so that every thing
\* fires at most once.
RunTimers(w, lev, t) ==
    LET Fire(v, i) ==
            IF v.queue[lev] = <<>> \/ Head(v.queue[lev]).timeout > t THEN v
            ELSE LET timer == Head(v.queue[lev]) IN
                 BurnObject([v EXCEPT !.queue[lev] = Tail(@), !.things[timer.thing].timed = @ - 1],
                            timer.thing, timer.timeout, lev, t)
    IN  FoldLeft(Fire, w, [i \in 1..Cardinality(Things) |-> i])

\* One of the timers that are due on lev is of a thing whose olev is another.
FiresAstray(w, lev, t) ==
    \E i \in DOMAIN w.queue[lev] :
        w.queue[lev][i].timeout <= t /\ w.things[w.queue[lev][i].thing].olev # lev

\* transfer_timers and transfer_lights, of the things in S.
Transfer(w, from, to, S) ==
    LET timers == SelectSeq(w.queue[from], LAMBDA x : x.thing \in S)
        lights == SelectSeq(w.glow[from], LAMBDA x : x \in S)
    IN  IF from = to THEN w
        ELSE [w EXCEPT
               !.queue[from] = SelectSeq(@, LAMBDA x : x.thing \notin S),
               !.queue[to] = FoldLeft(InsertTimer, @, timers),
               !.glow[from] = SelectSeq(@, LAMBDA x : x \notin S),
               !.glow[to] = Reverse(lights) \o @]

\* set_obj_level: o's timers and lights come along from the level olev names.
SetObjLevel(w, lev, o) ==
    [Transfer(w, w.things[o].olev, lev, {o}) EXCEPT !.things[o].olev = lev]

SetObjLevels(w, lev, S) == FoldSet(LAMBDA o, v : SetObjLevel(v, lev, o), w, S)

-----------------------------------------------------------------------------
(* invent.c: candles of about the same age become one stack *)

Mergable(w, a, b) ==
    /\ a # b /\ {a, b} \cap lamps = {}
    /\ w.things[a].lamplit = w.things[b].lamplit
    /\ w.things[a].age \div AgeBucket = w.things[b].age \div AgeBucket

\* merged: obj goes into otmp; a lit obj is put out first, then freed.
Merge(w, otmp, obj, t) ==
    LET a == w.things[otmp]
        b == w.things[obj]
        age == IF b.lamplit THEN a.age
               ELSE (a.age * a.quan + b.age * b.quan) \div (a.quan + b.quan)
        one == [w EXCEPT !.things[otmp].age = age, !.things[otmp].quan = @ + b.quan]
    IN  Destroy(IF b.lamplit THEN StopTimer(one, obj, t) ELSE one, obj)

\* Add obj to a chain: it merges with a stack there if it can.
AddTo(w, obj, peers, placed, t) ==
    LET fits == {p \in peers : Mergable(w, p, obj)}
    IN  IF fits = {} THEN {[w EXCEPT !.things[obj] = placed]}
        ELSE {Merge(w, p, obj, t) : p \in fits}

-----------------------------------------------------------------------------
(* The operations *)

Pack == {o \in Things : things[o].where = "invent"}
OnFloor(lev) == {o \in Things : things[o].where = "floor" /\ things[o].olev = lev}
Carried(m) == {o \in Things : things[o].where = "minvent" /\ things[o].carrier = m}
NoCarrier == "none"

Become(w) == /\ things' = w.things /\ queue' = w.queue
             /\ glow' = w.glow /\ complaint' = w.complaint

BurnInit ==
    /\ here = FirstLevel /\ now = 1 /\ complaint = "none" /\ astray = FALSE
    /\ things = [o \in Things |->
          [where |-> "invent", carrier |-> NoCarrier, olev |-> FirstLevel,
           age |-> MaxFuel, lamplit |-> FALSE, timed |-> 0, quan |-> 1]]
    /\ queue = [l \in Levels |-> <<>>] /\ glow = [l \in Levels |-> <<>>]
    /\ abode = [m \in Carriers |-> FirstLevel] /\ lamps \in LampSets

\* The hero lights a thing, or snuffs it (end_burn(obj, TRUE)).
Light(o) ==
    /\ o \in Pack /\ ~things[o].lamplit /\ things[o].age > 0
    /\ Become(BeginBurn(World, o, FALSE, here, now))
    /\ UNCHANGED <<lamps, here, now, abode, astray>>
Snuff(o) ==
    /\ o \in Pack /\ things[o].lamplit
    /\ Become(StopTimer(World, o, now))
    /\ UNCHANGED <<lamps, here, now, abode, astray>>

\* dropx, place_object.
DropThing(o) ==
    /\ o \in Pack
    /\ Become(SetObjLevel([World EXCEPT !.things[o].where = "floor"], here, o))
    /\ UNCHANGED <<lamps, here, now, abode, astray>>

\* pick_obj and addinv; mpickobj and add_to_minv.
PickUp(o) ==
    /\ o \in OnFloor(here)
    /\ \E w \in AddTo(World, o, Pack, [things[o] EXCEPT !.where = "invent"], now) : Become(w)
    /\ UNCHANGED <<lamps, here, now, abode, astray>>
MonsterPicksUp(m, o) ==
    /\ abode[m] = here /\ o \in OnFloor(here)
    /\ \E w \in AddTo(World, o, Carried(m),
                      [things[o] EXCEPT !.where = "minvent", !.carrier = m], now) : Become(w)
    /\ UNCHANGED <<lamps, here, now, abode, astray>>

\* splitobj, off a stack the hero carries: the new stack gets timers and a
\* light of its own (obj_split_timers, obj_split_light_source).
SplitStack(o, new) ==
    LET part == [things[o] EXCEPT !.quan = 1, !.timed = 0]
        cut == [World EXCEPT !.things[o].quan = @ - 1, !.things[new] = part]
        timers == SelectSeq(queue[things[o].olev], LAMBDA x : x.thing = o)
        timed == FoldLeft(LAMBDA w, x : StartTimer(w, new, x.timeout - now, now), cut, timers)
    IN  /\ o \in Pack /\ things[o].quan > 1 /\ things[new].where = "gone"
        /\ Become(IF things[o].lamplit THEN NewLight(timed, here, new) ELSE timed)
        /\ UNCHANGED <<lamps, here, now, abode, astray>>

\* relobj: a dying monster drops what it carries.
MonsterDies(m) ==
    /\ abode[m] = here /\ Carried(m) # {}
    /\ Become(SetObjLevels([World EXCEPT !.things =
           [o \in Things |-> IF o \in Carried(m)
                             THEN [@[o] EXCEPT !.where = "floor", !.carrier = NoCarrier]
                             ELSE @[o]]], here, Carried(m)))
    /\ UNCHANGED <<lamps, here, now, abode, astray>>

\* migrate_to_level: a monster leaves through a hole or by the stairs.  Its
\* things keep their olev, their timers and their lights.
MonsterLeaves(m, lev) ==
    /\ abode[m] = here /\ lev # here
    /\ abode' = [abode EXCEPT ![m] = <<"limbo", lev>>]
    /\ UNCHANGED <<lamps, here, now, things, queue, glow, complaint, astray>>

\* nh_timeout: a turn passes.
Turn ==
    /\ now < MaxMoves /\ now' = now + 1
    /\ Become(RunTimers(World, here, now + 1))
    /\ astray' = (astray \/ FiresAstray(World, here, now + 1))
    /\ UNCHANGED <<lamps, here, abode>>

\* goto_level, with the monsters that keepdogs takes along: the timers and
\* lights that are not the old level's go to the new one, the hero's things
\* and then those of the arriving monsters get the new level, and the timers
\* that went off while the hero was away run.
Local(o, pets) == \/ things[o].where = "floor"
                  \/ things[o].where = "minvent" /\ things[o].carrier \notin pets
                     /\ ~InLimbo(things[o].carrier)
GotoLevel(lev, pets) ==
    LET arriving == {m \in Carriers : m \in pets \/ abode[m] = <<"limbo", lev>>}
        moved == Transfer(World, here, lev, {o \in Things : ~Local(o, pets)})
        owned == SetObjLevels(moved, lev, Pack)
        arrived == SetObjLevels(owned, lev, UNION {Carried(m) : m \in arriving})
    IN  /\ lev # here /\ pets \subseteq {m \in Carriers : abode[m] = here}
        /\ here' = lev
        /\ Become(RunTimers(arrived, lev, now))
        /\ astray' = (astray \/ FiresAstray(arrived, lev, now))
        /\ abode' = [m \in Carriers |-> IF m \in arriving THEN lev ELSE abode[m]]
        /\ UNCHANGED <<lamps, now>>

\* savegame and dorecover: local timers and lights are kept level by level,
\* the others of the hero's level apart; each list is read back in order,
\* lights after the first that is there, and the things of monsters in limbo
\* and of the hero belong to the hero's level.
Recover ==
    LET local(o) == Local(o, {})
        timers(l) == SelectSeq(queue[l], LAMBDA x : local(x.thing))
        lights(l) == SelectSeq(glow[l], local)
        others == SelectSeq(queue[here], LAMBDA x : ~local(x.thing))
        otherLights == SelectSeq(glow[here], LAMBDA x : ~local(x))
        first == Min({1, Len(lights(here))})
    IN  /\ things' = [o \in Things |-> IF local(o) THEN things[o] ELSE [things[o] EXCEPT !.olev = here]]
        /\ queue' = [l \in Levels |-> IF l = here THEN FoldRight(LAMBDA x, q : InsertTimer(q, x), others, timers(l))
                                      ELSE timers(l)]
        /\ glow' = [l \in Levels |-> IF l = here
                       THEN SubSeq(lights(l), 1, first) \o otherLights
                                \o SubSeq(lights(l), first + 1, Len(lights(l)))
                       ELSE lights(l)]
        /\ UNCHANGED <<lamps, here, now, abode, complaint, astray>>

BurnNext ==
    \/ \E o \in Things : Light(o) \/ Snuff(o) \/ DropThing(o) \/ PickUp(o)
    \/ \E m \in Carriers, o \in Things : MonsterPicksUp(m, o)
    \/ \E o, n \in Things : SplitStack(o, n)
    \/ \E m \in Carriers : MonsterDies(m)
    \/ \E m \in Carriers, l \in Levels : MonsterLeaves(m, l)
    \/ Turn
    \/ \E l \in Levels, pets \in SUBSET Carriers : GotoLevel(l, pets)
    \/ Recover

BurnSpec == BurnInit /\ [][BurnNext]_burnVars

-----------------------------------------------------------------------------
(* Properties *)

Alive(o) == things[o].where # "gone"
CountIn(list, IsMine(_)) == Len(SelectSeq(list, IsMine))

\* No call of impossible(): del_light_source always finds the light it is to
\* delete (light.c:113) and end_burn the timer it is to stop (timeout.c:735).
LightsAreFound == complaint = "none"

\* Where o's timer and light are: on the level its olev names, but the hero
\* takes those of a thing that is in limbo along wherever he goes.
TimersAt(o) ==
    IF things[o].where = "minvent" /\ InLimbo(things[o].carrier) THEN here ELSE things[o].olev

\* A burning thing has one timer and one light, on its level or, in limbo, on
\* the hero's, and its timed count says so; nothing else has any (begin_burn,
\* cleanup_burn, end_burn, transfer_timers, transfer_lights, set_obj_level,
\* splitobj, merged); so that whoever looks for one finds it.  It stays so
\* until a timer goes off for a thing in limbo that has been carried past a
\* level, whose olev burn_object and begin_burn believe.
OneTimerOneLight ==
    astray \/
    /\ LightsAreFound
    /\ \A o \in Things, l \in Levels :
        LET n == IF things[o].lamplit /\ Alive(o) /\ TimersAt(o) = l THEN 1 ELSE 0 IN
            /\ CountIn(queue[l], LAMBDA x : x.thing = o) = n
            /\ CountIn(glow[l], LAMBDA x : x = o) = n
            /\ Alive(o) => things[o].timed = (IF things[o].lamplit THEN 1 ELSE 0)

\* The fuel a thing has left, counting what its timer has set aside; a timer
\* that is overdue on a level the hero has left has burnt more than its share.
Fuel(o) ==
    LET timers == SelectSeq(queue[TimersAt(o)], LAMBDA x : x.thing = o)
        left == things[o].age + (IF timers = <<>> THEN 0 ELSE timers[1].timeout - now)
    IN  IF ~Alive(o) \/ left < 0 THEN 0 ELSE left

Merging(o) == Alive(o) /\ ~Alive(o)' /\ \E p \in Things : things'[p].quan > things[p].quan
StackGrew(o) == things'[o].quan > things[o].quan

\* Fuel burns by the clock and in no other way: over any step a burning thing
\* loses as much as time passes and one that is out keeps what it has, however
\* often it is put out, lit again, carried to another level, left behind,
\* carried through limbo, split, saved and restored.  Only merging stacks
\* averages, and a timer that went astray is beyond it.
FuelBurnsByTheClock ==
    [][\A o \in Things :
         \/ astray' \/ ~Alive(o) \/ Merging(o) \/ StackGrew(o)
         \/ Fuel(o)' = Max({0, Fuel(o) - (IF things[o].lamplit THEN now' - now ELSE 0)})]_burnVars

\* The image a save makes of the queues: what the log compares byte by byte
\* with the image of the restored game.
SavedTimers ==
    [l \in Levels |-> <<SelectSeq(queue[l], LAMBDA x : Local(x.thing, {})),
                        IF l = here THEN SelectSeq(queue[l], LAMBDA x : ~Local(x.thing, {})) ELSE <<>>,
                        SelectSeq(glow[l], LAMBDA x : Local(x, {})),
                        IF l = here THEN SelectSeq(glow[l], LAMBDA x : ~Local(x, {})) ELSE <<>>>>]

\* Restoring a save and saving again gives the same timers and lights in the
\* same order ("ensures that we load timers in the same order as when they
\* were saved to a file, which avoids desyncing the save", timeout.c:1122).
RestoreKeepsOrder == [][Recover => SavedTimers' = SavedTimers]_burnVars
=============================================================================
