-------------------------- MODULE Occupations_proofs --------------------------
(***************************************************************************)
(* The occupations of a player, for any goods, places and outfits and any  *)
(* number of turns and troubles.                                           *)
(*                                                                         *)
(* The argument has three parts.  What every game is (Sound) is kept by    *)
(* every operator on objects, traces and flags; that a stack which is      *)
(* split finds an object for the part is part of it, and is a count of     *)
(* what the stacks of a kind can come to (Enough): a split moves units     *)
(* from one object to another and never makes any.  What a command makes   *)
(* of a game that is Ready is a Result: what is worked on when it is left  *)
(* under way is what its arguments, flags and progress say (Working), a    *)
(* meal is one piece (MealIsOne), and what was not tracked before has had  *)
(* its first turn (Anew).  All other steps only lose traces, and leave a   *)
(* command that they do not interrupt as it is (Passes).  From the three   *)
(* follows OccInv, and from Working what "repeat" does: the arguments that *)
(* were recorded lead it back to what is tracked (GoesOn).                 *)
(***************************************************************************)
EXTENDS Occupations, FiniteSetTheorems, TLAPS

(* The values that the fields of a game take.                              *)
Spots == Places \cup {"inv", "off", "gone"}
Targets == Goods \cup {Nothing, ADoor}
Doors == {"locked", "closed", "none", "open"}
Verbs == {"eat", "read", "apply", "force", Nothing}
Flags ==
    [incomplete : BOOLEAN, interrupted : BOOLEAN, occupation : Tracks \cup {Nothing},
     verb : Verbs, arg : Targets]

\* What Game, and whatever a command makes of it, is
GameType ==
    [at : Places, place : [Goods -> Spots], quan : [Goods -> Nat],
     oeaten : [Goods -> 0..MealSize], hexed : SUBSET Goods,
     olocked : SUBSET Goods, obroken : SUBSET Goods, door : Doors,
     tracked : [Tracks -> Targets], progress : [Tracks -> Int],
     site : Places \cup {Nothing}, flags : Flags, helpless : BOOLEAN, took : BOOLEAN]

-----------------------------------------------------------------------------
(* How many objects a kind may need.                                       *)

(* The objects that the stacks of a kind stand for: each of them may have  *)
(* to become an object of its own.                                         *)
Units(q, kind) == {u \in kind \X (Nat \ {0}) : u[2] <= q[u[1]]}
(* A kind is large enough for every stack of it to be taken apart.         *)
Enough(q, kind) ==
    IsFiniteSet(Units(q, kind)) /\ Cardinality(Units(q, kind)) <= Cardinality(kind)

(* There are finitely many meals and tins, and nothing is both.            *)
LEMMA FiniteKinds ==
    /\ IsFiniteSet(Meals) /\ IsFiniteSet(Tins)
    /\ Meals \subseteq Goods /\ Tins \subseteq Goods /\ Meals \cap Tins = {}
<1>1. Meals \in SUBSET (Meals \cup Tins) /\ Tins \in SUBSET (Meals \cup Tins)
  OBVIOUS
<1>2. IsFiniteSet(Meals \cup Tins) /\ Meals \cap Tins = {}
  BY OccupationsAssumption
<1>3. IsFiniteSet(Meals) /\ IsFiniteSet(Tins)
  BY <1>1, <1>2, FS_Subset
<1>4. QED
  BY <1>2, <1>3 DEF Goods

(* With no more units than before there are enough objects still.          *)
LEMMA FewerUnits ==
    ASSUME NEW p, NEW q, NEW kind, Enough(p, kind), NEW f \in Injection(Units(q, kind), Units(p, kind)),
           IsFiniteSet(kind)
    PROVE  Enough(q, kind)
<1> DEFINE S == Units(q, kind)
           T == Units(p, kind)
<1>1. IsFiniteSet(T) /\ Cardinality(T) <= Cardinality(kind)
  BY DEF Enough
<1>2. f \in Injection(S, T)
  OBVIOUS
<1> HIDE DEF S, T
<1>3. IsFiniteSet(S) /\ Cardinality(S) <= Cardinality(T)
  BY <1>1, <1>2, FS_Injection
<1>4. Cardinality(S) \in Nat /\ Cardinality(T) \in Nat /\ Cardinality(kind) \in Nat
  BY <1>1, <1>3, FS_CardinalityType
<1>5. Cardinality(S) <= Cardinality(kind)
  BY <1>1, <1>3, <1>4
<1>6. QED
  BY <1>3, <1>5 DEF Enough, S

(* A stack that becomes smaller, and the others as they were.              *)
LEMMA LessIsEnough ==
    ASSUME NEW kind, IsFiniteSet(kind), NEW p \in [Goods -> Nat], NEW q \in [Goods -> Nat],
           kind \subseteq Goods, Enough(p, kind), \A o \in kind : q[o] <= p[o]
    PROVE  Enough(q, kind)
<1> DEFINE f == [u \in Units(q, kind) |-> u]
<1>1. \A u \in Units(q, kind) : u \in Units(p, kind)
  <2>1. TAKE u \in Units(q, kind)
  <2>2. u[1] \in kind /\ u[2] \in Nat /\ u[2] <= q[u[1]] /\ u \in kind \X (Nat \ {0})
    BY <2>1 DEF Units
  <2>3. q[u[1]] \in Nat /\ p[u[1]] \in Nat /\ q[u[1]] <= p[u[1]]
    BY <2>2
  <2>4. u[2] <= p[u[1]]
    BY <2>2, <2>3
  <2>5. QED
    BY <2>2, <2>4 DEF Units
<1>2. f \in Injection(Units(q, kind), Units(p, kind))
  BY <1>1 DEF Injection, IsInjective
<1>3. QED
  BY <1>2, FewerUnits

(* n units move from the stack "from" to the stack "onto".                 *)
LEMMA MovingIsEnough ==
    ASSUME NEW kind, IsFiniteSet(kind), kind \subseteq Goods,
           NEW p \in [Goods -> Nat], Enough(p, kind),
           NEW from \in kind, NEW onto \in kind, from # onto,
           NEW n \in Nat, n <= p[from],
           NEW q \in [Goods -> Nat],
           q[from] = p[from] - n, q[onto] = p[onto] + n,
           \A o \in kind \ {from, onto} : q[o] = p[o]
    PROVE  Enough(q, kind)
<1> DEFINE back(u) == IF u[1] = onto /\ u[2] > p[onto]
                      THEN <<from, (p[from] - n) + (u[2] - p[onto])>> ELSE u
           f == [u \in Units(q, kind) |-> back(u)]
<1>1. p[from] \in Nat /\ p[onto] \in Nat
  OBVIOUS
<1>2. \A u \in Units(q, kind) : /\ u = <<u[1], u[2]>> /\ u[1] \in kind /\ u[2] \in Nat \ {0}
                               /\ u[2] <= q[u[1]]
  BY DEF Units
<1>3. \A u \in Units(q, kind) : back(u) \in Units(p, kind)
  <2>1. TAKE u \in Units(q, kind)
  <2>2. CASE u[1] = onto /\ u[2] > p[onto]
    <3> DEFINE k == (p[from] - n) + (u[2] - p[onto])
    <3>1. u[2] <= p[onto] + n /\ u[2] \in Nat
      BY <1>2, <2>2
    <3>2. k \in Nat \ {0} /\ k <= p[from]
      BY <1>1, <2>2, <3>1
    <3>3. back(u) = <<from, k>>
      BY <2>2
    <3> HIDE DEF k
    <3>4. QED
      BY <3>2, <3>3 DEF Units
  <2>3. CASE ~(u[1] = onto /\ u[2] > p[onto])
    <3>1. back(u) = u
      BY <2>3
    <3>2. u[1] \in kind /\ u[2] \in Nat /\ u[2] <= q[u[1]]
      BY <1>2
    <3>3. u[2] <= p[u[1]]
      <4>1. CASE u[1] = onto
        BY <1>1, <2>3, <3>2, <4>1
      <4>2. CASE u[1] = from
        BY <1>1, <3>2, <4>2
      <4>3. CASE u[1] \notin {onto, from}
        BY <3>2, <4>3
      <4>4. QED
        BY <4>1, <4>2, <4>3
    <3>4. u \in kind \X (Nat \ {0})
      BY DEF Units
    <3>5. QED
      BY <3>1, <3>3, <3>4 DEF Units
  <2>4. QED
    BY <2>2, <2>3
<1>4. \A u, v \in Units(q, kind) : back(u) = back(v) => u = v
  <2>1. TAKE u, v \in Units(q, kind)
  <2>2. HAVE back(u) = back(v)
  <2>3. /\ u = <<u[1], u[2]>> /\ u[2] \in Nat /\ u[2] <= q[u[1]]
        /\ v = <<v[1], v[2]>> /\ v[2] \in Nat /\ v[2] <= q[v[1]]
    BY <1>2
  <2>4. CASE u[1] = onto /\ u[2] > p[onto] /\ v[1] = onto /\ v[2] > p[onto]
    <3>1. (p[from] - n) + (u[2] - p[onto]) = (p[from] - n) + (v[2] - p[onto])
      BY <2>2, <2>4
    <3>2. u[2] = v[2]
      BY <1>1, <2>3, <3>1
    <3>3. QED
      BY <2>3, <2>4, <3>2
  <2>5. CASE u[1] = onto /\ u[2] > p[onto] /\ ~(v[1] = onto /\ v[2] > p[onto])
    <3>1. v = <<from, (p[from] - n) + (u[2] - p[onto])>>
      BY <2>2, <2>5
    <3>2. v[1] = from /\ v[2] = (p[from] - n) + (u[2] - p[onto])
      BY <3>1
    <3>3. v[2] <= p[from] - n
      BY <2>3, <3>2
    <3>4. QED
      BY <1>1, <2>3, <2>5, <3>2, <3>3
  <2>6. CASE ~(u[1] = onto /\ u[2] > p[onto]) /\ v[1] = onto /\ v[2] > p[onto]
    <3>1. u = <<from, (p[from] - n) + (v[2] - p[onto])>>
      BY <2>2, <2>6
    <3>2. u[1] = from /\ u[2] = (p[from] - n) + (v[2] - p[onto])
      BY <3>1
    <3>3. u[2] <= p[from] - n
      BY <2>3, <3>2
    <3>4. QED
      BY <1>1, <2>3, <2>6, <3>2, <3>3
  <2>7. CASE ~(u[1] = onto /\ u[2] > p[onto]) /\ ~(v[1] = onto /\ v[2] > p[onto])
    BY <2>2, <2>7
  <2>8. QED
    BY <2>4, <2>5, <2>6, <2>7
<1>5. f \in Injection(Units(q, kind), Units(p, kind))
  BY <1>3, <1>4 DEF Injection, IsInjective
<1>6. QED
  BY <1>5, FewerUnits

(* Where a stack of two or more can split there is an object for the part. *)
LEMMA SpareExists ==
    ASSUME NEW kind, IsFiniteSet(kind), kind \subseteq Goods,
           NEW q \in [Goods -> Nat], Enough(q, kind), NEW o \in kind, q[o] > 1
    PROVE  \E x \in kind : q[x] = 0
<1>1. SUFFICES ASSUME \A x \in kind : q[x] # 0 PROVE FALSE
  OBVIOUS
<1> DEFINE firsts == Units(q, kind) \ {<<o, 2>>}
           f == [x \in kind |-> <<x, 1>>]
<1>2. IsFiniteSet(Units(q, kind)) /\ Cardinality(Units(q, kind)) <= Cardinality(kind)
  BY DEF Enough
<1>3. <<o, 2>> \in Units(q, kind)
  BY DEF Units
<1>4. IsFiniteSet(firsts) /\ Cardinality(firsts) = Cardinality(Units(q, kind)) - 1
  BY <1>2, <1>3, FS_RemoveElement
<1>5. \A x \in kind : <<x, 1>> \in firsts
  <2>1. TAKE x \in kind
  <2>2. q[x] \in Nat \ {0}
    BY <1>1
  <2>3. 1 <= q[x]
    BY <2>2
  <2>4. <<x, 1>> # <<o, 2>>
    OBVIOUS
  <2>5. QED
    BY <2>3, <2>4 DEF Units
<1>6. f \in Injection(kind, firsts)
  BY <1>5 DEF Injection, IsInjective
<1> HIDE DEF firsts, f
<1>7. Cardinality(kind) <= Cardinality(firsts)
  BY <1>4, <1>6, FS_Injection
<1>8. Cardinality(kind) \in Nat /\ Cardinality(Units(q, kind)) \in Nat
  BY <1>2, FS_CardinalityType
<1>9. QED
  BY <1>2, <1>4, <1>7, <1>8

(* The stacks that an outfit begins with.                                  *)
LEMMA StartIsEnough ==
    ASSUME NEW fit \in Outfits, NEW kind \in {Meals, Tins}, NEW q \in [Goods -> Nat],
           \A o \in Goods : q[o] = IF o \notin fit.pack \cup fit.floor THEN 0
                                   ELSE IF o \in fit.double THEN 2 ELSE 1
    PROVE  Enough(q, kind)
<1> DEFINE there == kind \cap (fit.pack \cup fit.floor)
           twice == fit.double \cap kind
           A == there \X {1}
           B == twice \X {2}
<1>1. IsFiniteSet(kind) /\ kind \subseteq Goods
  BY FiniteKinds
<1>2. IsFiniteSet(there) /\ IsFiniteSet(twice)
  BY <1>1, FS_Intersection
<1>3. IsFiniteSet({1}) /\ Cardinality({1}) = 1 /\ IsFiniteSet({2}) /\ Cardinality({2}) = 1
  BY FS_Singleton
<1>4. /\ Cardinality(there) \in Nat /\ Cardinality(twice) \in Nat /\ Cardinality(kind) \in Nat
      /\ Cardinality(kind \ (fit.pack \cup fit.floor)) = Cardinality(kind) - Cardinality(there)
  BY <1>1, <1>2, FS_CardinalityType, FS_Difference
<1>5. Cardinality(twice) <= Cardinality(kind) - Cardinality(there)
  BY <1>4, OccupationsAssumption
<1>6. Units(q, kind) \in SUBSET (A \cup B)
  <2>1. SUFFICES ASSUME NEW u \in Units(q, kind) PROVE u \in A \cup B
    OBVIOUS
  <2>2. u = <<u[1], u[2]>> /\ u[1] \in kind /\ u[2] \in Nat \ {0} /\ u[2] <= q[u[1]]
    BY DEF Units
  <2>3. u[1] \in fit.pack \cup fit.floor
    BY <1>1, <2>2
  <2>4. CASE u[1] \in fit.double
    <3>1. q[u[1]] = 2
      BY <1>1, <2>2, <2>3, <2>4
    <3>2. u[2] \in {1, 2}
      BY <2>2, <3>1
    <3>3. QED
      BY <2>2, <2>3, <2>4, <3>2
  <2>5. CASE u[1] \notin fit.double
    <3>1. q[u[1]] = 1
      BY <1>1, <2>2, <2>3, <2>5
    <3>2. u[2] = 1
      BY <2>2, <3>1
    <3>3. QED
      BY <2>2, <2>3, <3>2
  <2>6. QED
    BY <2>4, <2>5
<1> HIDE DEF there, twice
<1>7. /\ IsFiniteSet(A) /\ Cardinality(A) = Cardinality(there) * 1
      /\ IsFiniteSet(B) /\ Cardinality(B) = Cardinality(twice) * 1
  BY <1>2, <1>3, FS_Product
<1> HIDE DEF A, B
<1>8. /\ IsFiniteSet(A \cup B)
      /\ Cardinality(A \cup B) = Cardinality(A) + Cardinality(B) - Cardinality(A \cap B)
  BY <1>7, FS_Union
<1>9. IsFiniteSet(A \cap B)
  BY <1>7, FS_Intersection
<1>10. Cardinality(A \cap B) \in Nat
  BY <1>9, FS_CardinalityType
<1>11. Cardinality(A \cup B) <= Cardinality(kind)
  BY <1>4, <1>5, <1>7, <1>8, <1>10
<1>12. /\ IsFiniteSet(Units(q, kind))
       /\ Cardinality(Units(q, kind)) <= Cardinality(A \cup B)
  BY <1>6, <1>8, FS_Subset
<1>13. Cardinality(Units(q, kind)) \in Nat /\ Cardinality(A \cup B) \in Nat
  BY <1>8, <1>12, FS_CardinalityType
<1>14. QED
  BY <1>4, <1>11, <1>12, <1>13 DEF Enough

-----------------------------------------------------------------------------
(* What every game is that a command sees or leaves.                       *)

(* The types; objects are there just when there is one of them; no trace   *)
(* is of a freed object, food is tracked as food and a box whose lock was  *)
(* broken is not worked on; the last command is one that can go on; and a  *)
(* stack that is split always finds an object for the part.                *)
Sound(g) ==
    /\ g \in GameType
    /\ \A o \in Goods : g.quan[o] = 0 <=> g.place[o] = "gone"
    /\ \A s \in Tracks : g.tracked[s] \in Goods => g.place[g.tracked[s]] # "gone"
    /\ g.tracked["food"] \in Meals \cup {Nothing}
    /\ g.olocked \cap g.obroken = {} /\ g.tracked["lock"] \notin g.obroken
    /\ g.flags.verb # Nothing => <<g.flags.verb, g.flags.arg>> \in LongCommands
    /\ Enough(g.quan, Meals) /\ Enough(g.quan, Tins)

(* h differs from g at most in its flags, in helplessness and in the time. *)
SameThings(g, h) ==
    /\ h.at = g.at /\ h.place = g.place /\ h.quan = g.quan /\ h.oeaten = g.oeaten
    /\ h.hexed = g.hexed /\ h.olocked = g.olocked /\ h.obroken = g.obroken
    /\ h.door = g.door /\ h.tracked = g.tracked /\ h.progress = g.progress
    /\ h.site = g.site
(* The command that "repeat" repeats is the same.                          *)
SameCommand(g, h) == h.flags.verb = g.flags.verb /\ h.flags.arg = g.flags.arg

(* The flags of h: the commands that are recorded stay as they are.        *)
FlagsAre(g, h, incomplete, interrupted, occupation) ==
    /\ h.flags.incomplete = incomplete /\ h.flags.interrupted = interrupted
    /\ h.flags.occupation = occupation /\ SameCommand(g, h)

(* h is g but for flags, helplessness and time.                            *)
LEMMA SameThingsAreSound ==
    ASSUME NEW g, Sound(g), NEW h \in GameType, SameThings(g, h),
           SameCommand(g, h)
    PROVE  Sound(h)
  BY DEF Sound, SameThings, SameCommand

(* The flags of a game.                                                    *)
LEMMA FlagTypes ==
    ASSUME NEW g \in GameType
    PROVE  /\ g.flags \in Flags
           /\ g.flags.incomplete \in BOOLEAN /\ g.flags.interrupted \in BOOLEAN
           /\ g.flags.occupation \in Tracks \cup {Nothing}
           /\ g.flags.verb \in Verbs /\ g.flags.arg \in Targets
<1>1. g.flags \in Flags
  BY DEF GameType
<1>2. QED
  BY <1>1 DEF Flags

(* What the operations on the flags do.                                    *)
LEMMA IncompleteIs ==
    ASSUME NEW g, Sound(g), NEW s \in Tracks
    PROVE  LET h == Incomplete(g, s)
           IN  /\ Sound(h) /\ SameThings(g, h) /\ h.helpless = g.helpless /\ h.took = g.took
               /\ FlagsAre(g, h, TRUE, g.flags.interrupted, s)
<1> DEFINE h == Incomplete(g, s)
           f == [g.flags EXCEPT !.incomplete = TRUE, !.occupation = s]
<1>1. g \in GameType
  BY DEF Sound
<1>2. f \in Flags
  BY <1>1, FlagTypes DEF Flags
<1>3. SameThings(g, h) /\ h.helpless = g.helpless /\ h.took = g.took /\ h.flags = f
  BY <1>1 DEF GameType, Incomplete, SameThings
<1>4. h \in GameType
  BY <1>1, <1>2 DEF GameType, Incomplete
<1>5. FlagsAre(g, h, TRUE, g.flags.interrupted, s)
  BY <1>1, <1>3, FlagTypes DEF Flags, FlagsAre, SameCommand
<1>6. QED
  BY <1>3, <1>4, <1>5, SameThingsAreSound DEF FlagsAre

(* action_completed.                                                       *)
LEMMA CompletedIs ==
    ASSUME NEW g, Sound(g)
    PROVE  LET h == Completed(g)
           IN  /\ Sound(h) /\ SameThings(g, h) /\ h.helpless = g.helpless /\ h.took = g.took
               /\ FlagsAre(g, h, FALSE, TRUE, Nothing)
<1> DEFINE h == Completed(g)
           f == [g.flags EXCEPT !.incomplete = FALSE, !.interrupted = TRUE, !.occupation = Nothing]
<1>1. g \in GameType
  BY DEF Sound
<1>2. f \in Flags
  BY <1>1, FlagTypes DEF Flags
<1>3. SameThings(g, h) /\ h.helpless = g.helpless /\ h.took = g.took /\ h.flags = f
  BY <1>1 DEF GameType, Completed, SameThings
<1>4. h \in GameType
  BY <1>1, <1>2 DEF GameType, Completed
<1>5. FlagsAre(g, h, FALSE, TRUE, Nothing)
  BY <1>1, <1>3, FlagTypes DEF Flags, FlagsAre, SameCommand
<1>6. QED
  BY <1>3, <1>4, <1>5, SameThingsAreSound DEF FlagsAre

(* action_interrupted.                                                     *)
LEMMA InterruptedIs ==
    ASSUME NEW g, Sound(g)
    PROVE  LET h == Interrupted(g)
           IN  /\ Sound(h) /\ SameThings(g, h) /\ h.helpless = g.helpless /\ h.took = g.took
               /\ FlagsAre(g, h, g.flags.incomplete, TRUE, g.flags.occupation)
<1> DEFINE h == Interrupted(g)
           f == [g.flags EXCEPT !.interrupted = TRUE]
<1>1. g \in GameType
  BY DEF Sound
<1>2. f \in Flags
  BY <1>1, FlagTypes DEF Flags
<1>3. SameThings(g, h) /\ h.helpless = g.helpless /\ h.took = g.took /\ h.flags = f
  BY <1>1 DEF GameType, Interrupted, SameThings
<1>4. h \in GameType
  BY <1>1, <1>2 DEF GameType, Interrupted
<1>5. FlagsAre(g, h, g.flags.incomplete, TRUE, g.flags.occupation)
  BY <1>1, <1>3, FlagTypes DEF Flags, FlagsAre, SameCommand
<1>6. QED
  BY <1>3, <1>4, <1>5, SameThingsAreSound DEF FlagsAre

(* helpless.                                                               *)
LEMMA HelplessIs ==
    ASSUME NEW g, Sound(g)
    PROVE  LET h == Helpless(g)
           IN  /\ Sound(h) /\ SameThings(g, h) /\ h.helpless = TRUE /\ h.took = g.took
               /\ FlagsAre(g, h, g.flags.incomplete, TRUE, g.flags.occupation)
<1> DEFINE h == Helpless(g)
           f == [g.flags EXCEPT !.interrupted = TRUE]
<1>1. g \in GameType
  BY DEF Sound
<1>2. f \in Flags
  BY <1>1, FlagTypes DEF Flags
<1>3. SameThings(g, h) /\ h.helpless = TRUE /\ h.took = g.took /\ h.flags = f
  BY <1>1 DEF GameType, Helpless, Interrupted, SameThings
<1>4. h \in GameType
  BY <1>1, <1>2 DEF GameType, Helpless, Interrupted
<1>5. FlagsAre(g, h, g.flags.incomplete, TRUE, g.flags.occupation)
  BY <1>1, <1>3, FlagTypes DEF Flags, FlagsAre, SameCommand
<1>6. QED
  BY <1>3, <1>4, <1>5, SameThingsAreSound DEF FlagsAre

(* A command that took no time.                                            *)
LEMMA ZeroTimeIs ==
    ASSUME NEW g, Sound(g)
    PROVE  LET h == ZeroTime(g)
           IN  /\ Sound(h) /\ SameThings(g, h) /\ h.helpless = g.helpless /\ h.took = FALSE
               /\ FlagsAre(g, h, FALSE, TRUE, Nothing)
<1> DEFINE h == ZeroTime(g)
           f == [g.flags EXCEPT !.incomplete = FALSE, !.interrupted = TRUE, !.occupation = Nothing]
<1>1. g \in GameType
  BY DEF Sound
<1>2. f \in Flags
  BY <1>1, FlagTypes DEF Flags
<1>3. SameThings(g, h) /\ h.helpless = g.helpless /\ h.took = FALSE /\ h.flags = f
  BY <1>1 DEF GameType, ZeroTime, Completed, SameThings
<1>4. h \in GameType
  BY <1>1, <1>2 DEF GameType, ZeroTime, Completed
<1>5. FlagsAre(g, h, FALSE, TRUE, Nothing)
  BY <1>1, <1>3, FlagTypes DEF Flags, FlagsAre, SameCommand
<1>6. QED
  BY <1>3, <1>4, <1>5, SameThingsAreSound DEF FlagsAre

(* A command begins with its flags clear.                                  *)
LEMMA CleanIs ==
    ASSUME NEW g, Sound(g)
    PROVE  LET h == Clean(g)
           IN  /\ Sound(h) /\ SameThings(g, h) /\ h.helpless = g.helpless /\ h.took = g.took
               /\ FlagsAre(g, h, FALSE, FALSE, Nothing)
<1> DEFINE h == Clean(g)
           f == [g.flags EXCEPT !.incomplete = FALSE, !.interrupted = FALSE, !.occupation = Nothing]
<1>1. g \in GameType
  BY DEF Sound
<1>2. f \in Flags
  BY <1>1, FlagTypes DEF Flags
<1>3. SameThings(g, h) /\ h.helpless = g.helpless /\ h.took = g.took /\ h.flags = f
  BY <1>1 DEF GameType, Clean, SameThings
<1>4. h \in GameType
  BY <1>1, <1>2 DEF GameType, Clean
<1>5. FlagsAre(g, h, FALSE, FALSE, Nothing)
  BY <1>1, <1>3, FlagTypes DEF Flags, FlagsAre, SameCommand
<1>6. QED
  BY <1>3, <1>4, <1>5, SameThingsAreSound DEF FlagsAre

-----------------------------------------------------------------------------
(* Objects.                                                                *)

(* h has the objects of g, its place, its flags.                           *)
SameObjects(g, h) ==
    /\ h.place = g.place /\ h.quan = g.quan /\ h.oeaten = g.oeaten
    /\ h.hexed = g.hexed /\ h.olocked = g.olocked /\ h.obroken = g.obroken
SameSpot(g, h) == h.at = g.at /\ h.door = g.door /\ h.site = g.site
SameMoment(g, h) == h.flags = g.flags /\ h.helpless = g.helpless /\ h.took = g.took

\* Of the goods only those of X can have changed
LeavesAlone(g, h, X) ==
    \A o \in Goods \ X :
        /\ h.place[o] = g.place[o] /\ h.quan[o] = g.quan[o] /\ h.oeaten[o] = g.oeaten[o]
        /\ o \in h.olocked <=> o \in g.olocked
        /\ o \in h.obroken <=> o \in g.obroken

\* Traces are lost at most, and only those of objects of X
LosesTraces(g, h, X) ==
    /\ h.progress = g.progress
    /\ \A s \in Tracks : \/ h.tracked[s] = g.tracked[s]
                         \/ (g.tracked[s] \in X /\ h.tracked[s] = Nothing)

(* The names of nothing and of the door are no objects.                    *)
LEMMA NoObject ==
    /\ Nothing \notin Goods /\ ADoor \notin Goods /\ Nothing # ADoor
    /\ Meals \subseteq Goods /\ Tins \subseteq Goods /\ Boxes \subseteq Goods
    /\ Books \subseteq Goods /\ LandMines \subseteq Goods
    /\ Keys \subseteq Goods /\ Blades \subseteq Goods
    /\ \A p \in Places : p \notin {"inv", "off", "gone"}
  BY OccupationsAssumption DEF Nothing, ADoor, Goods

(* What is tracked instead has to exist, and to be of the kind.            *)
LEMMA TracesAreSound ==
    ASSUME NEW g, Sound(g), NEW h \in GameType, SameObjects(g, h), SameCommand(g, h),
           \A s \in Tracks :
               \/ h.tracked[s] \in {Nothing, g.tracked[s]}
               \/ /\ h.tracked[s] \in Goods => g.place[h.tracked[s]] # "gone"
                  /\ s = "food" => h.tracked[s] \in Meals
                  /\ s = "lock" => h.tracked[s] \notin g.obroken
    PROVE  Sound(h)
<1>1. g \in GameType /\ g.obroken \subseteq Goods
  BY DEF Sound, GameType
<1>2. \A s \in Tracks : h.tracked[s] \in Goods => h.place[h.tracked[s]] # "gone"
  BY NoObject DEF Sound, SameObjects
<1>3. h.tracked["food"] \in Meals \cup {Nothing}
  BY DEF Sound, Tracks
<1>4. h.tracked["lock"] \notin h.obroken
  BY <1>1, NoObject DEF Sound, Tracks, SameObjects
<1>5. QED
  BY <1>2, <1>3, <1>4 DEF Sound, SameObjects, SameCommand

(* Untracked.                                                              *)
LEMMA UntrackedIs ==
    ASSUME NEW g, Sound(g), NEW s \in Tracks
    PROVE  LET h == Untracked(g, s)
           IN  /\ Sound(h) /\ SameObjects(g, h) /\ SameSpot(g, h) /\ SameMoment(g, h)
               /\ h.tracked = [g.tracked EXCEPT ![s] = Nothing]
               /\ h.progress = [g.progress EXCEPT ![s] = 0]
<1> DEFINE h == Untracked(g, s)
<1>1. g \in GameType
  BY DEF Sound
<1>2. /\ [g.tracked EXCEPT ![s] = Nothing] \in [Tracks -> Targets]
      /\ [g.progress EXCEPT ![s] = 0] \in [Tracks -> Int]
  BY <1>1 DEF GameType, Targets
<1>3. /\ SameObjects(g, h) /\ SameSpot(g, h) /\ SameMoment(g, h)
      /\ h.tracked = [g.tracked EXCEPT ![s] = Nothing]
      /\ h.progress = [g.progress EXCEPT ![s] = 0]
  BY <1>1 DEF GameType, Untracked, SameObjects, SameSpot, SameMoment
<1>4. h \in GameType
  BY <1>1, <1>2 DEF GameType, Untracked
<1>5. \A r \in Tracks : h.tracked[r] \in {Nothing, g.tracked[r]}
  BY <1>1, <1>3 DEF GameType
<1>6. SameCommand(g, h)
  BY <1>3 DEF SameCommand, SameMoment
<1>7. QED
  BY <1>3, <1>4, <1>5, <1>6, TracesAreSound

(* obfree.                                                                 *)
LEMMA FreedFields ==
    ASSUME NEW g \in GameType, NEW o \in Goods
    PROVE  LET h == Freed(g, o)
           IN  /\ h \in GameType
               /\ h.place = [g.place EXCEPT ![o] = "gone"]
               /\ h.quan = [g.quan EXCEPT ![o] = 0]
               /\ h.oeaten = [g.oeaten EXCEPT ![o] = 0]
               /\ h.hexed = g.hexed \ {o} /\ h.olocked = g.olocked \ {o}
               /\ h.obroken = g.obroken \ {o} /\ h.progress = g.progress
               /\ h.tracked = [s \in Tracks |-> IF g.tracked[s] = o THEN Nothing
                                                ELSE g.tracked[s]]
               /\ SameSpot(g, h) /\ SameMoment(g, h)
<1>1. /\ [g.place EXCEPT ![o] = "gone"] \in [Goods -> Spots]
      /\ [g.quan EXCEPT ![o] = 0] \in [Goods -> Nat]
      /\ [g.oeaten EXCEPT ![o] = 0] \in [Goods -> 0..MealSize]
      /\ [s \in Tracks |-> IF g.tracked[s] = o THEN Nothing ELSE g.tracked[s]]
            \in [Tracks -> Targets]
  <2>1. 0 \in 0..MealSize
    BY OccupationsAssumption
  <2>2. QED
    BY <2>1 DEF GameType, Spots, Targets
<1>2. Freed(g, o) \in GameType
  BY <1>1 DEF GameType, Freed
<1>3. QED
  BY <1>2 DEF GameType, Freed, SameSpot, SameMoment

(* Whoever tracked it learns that it is gone.                              *)
LEMMA FreedIs ==
    ASSUME NEW g, Sound(g), NEW o \in Goods
    PROVE  LET h == Freed(g, o)
           IN  /\ Sound(h) /\ LeavesAlone(g, h, {o}) /\ SameSpot(g, h) /\ SameMoment(g, h)
               /\ LosesTraces(g, h, {o}) /\ \A s \in Tracks : h.tracked[s] # o
               /\ h.place[o] = "gone"
<1> DEFINE h == Freed(g, o)
<1>1. g \in GameType
  BY DEF Sound
<1>2. /\ h.place = [g.place EXCEPT ![o] = "gone"] /\ h.quan = [g.quan EXCEPT ![o] = 0]
      /\ h.oeaten = [g.oeaten EXCEPT ![o] = 0]
      /\ h.hexed = g.hexed \ {o} /\ h.olocked = g.olocked \ {o}
      /\ h.obroken = g.obroken \ {o} /\ h.progress = g.progress
      /\ h.tracked = [s \in Tracks |-> IF g.tracked[s] = o THEN Nothing ELSE g.tracked[s]]
      /\ SameSpot(g, h) /\ SameMoment(g, h)
  BY <1>1, FreedFields
<1>3. h \in GameType
  BY <1>1, FreedFields
<1> HIDE DEF h
<1>4. LeavesAlone(g, h, {o}) /\ h.place[o] = "gone" /\ h.quan[o] = 0
  BY <1>1, <1>2 DEF GameType, LeavesAlone
<1>5. LosesTraces(g, h, {o}) /\ \A s \in Tracks : h.tracked[s] # o
  BY <1>1, <1>2, NoObject DEF GameType, LosesTraces
<1>6. Sound(h)
  <2>1. \A x \in Goods : h.quan[x] = 0 <=> h.place[x] = "gone"
    BY <1>4 DEF Sound, LeavesAlone
  <2>2. \A s \in Tracks : h.tracked[s] \in Goods => h.place[h.tracked[s]] # "gone"
    BY <1>4, <1>5, NoObject DEF Sound, LeavesAlone, LosesTraces
  <2>3. h.tracked["food"] \in Meals \cup {Nothing}
    BY <1>5 DEF Sound, LosesTraces, Tracks
  <2>4. h.olocked \cap h.obroken = {} /\ h.tracked["lock"] \notin h.obroken
    BY <1>1, <1>2, <1>5, NoObject DEF Sound, LosesTraces, Tracks, GameType
  <2>5. h.quan \in [Goods -> Nat] /\ g.quan \in [Goods -> Nat]
    BY <1>1, <1>3 DEF GameType
  <2>6. \A x \in Goods : h.quan[x] <= g.quan[x]
    <3>1. TAKE x \in Goods
    <3>2. h.quan[x] \in {0, g.quan[x]} /\ g.quan[x] \in Nat
      BY <1>4, <2>5 DEF LeavesAlone
    <3>3. QED
      BY <3>2
  <2>7. Enough(h.quan, Meals)
    BY <2>5, <2>6, FiniteKinds, LessIsEnough DEF Sound
  <2>8. Enough(h.quan, Tins)
    BY <2>5, <2>6, FiniteKinds, LessIsEnough DEF Sound
  <2>9. h.flags = g.flags
    BY <1>2 DEF SameMoment
  <2>10. QED
    BY <1>3, <2>1, <2>2, <2>3, <2>4, <2>7, <2>8, <2>9 DEF Sound
<1>7. QED
  BY <1>2, <1>4, <1>5, <1>6 DEF h

(* useup.                                                                  *)
LEMMA UsedUpIs ==
    ASSUME NEW g, Sound(g), NEW o \in Goods
    PROVE  LET h == UsedUp(g, o)
           IN  /\ Sound(h) /\ LeavesAlone(g, h, {o}) /\ SameSpot(g, h) /\ SameMoment(g, h)
               /\ LosesTraces(g, h, {o})
<1>1. g \in GameType
  BY DEF Sound
<1>2. g.quan[o] \in Nat
  BY <1>1 DEF GameType
<1>3. CASE g.quan[o] > 1
  <2> DEFINE h == [g EXCEPT !.quan[o] = @ - 1]
  <2>1. [g.quan EXCEPT ![o] = @ - 1] \in [Goods -> Nat]
    <3>1. g.quan[o] - 1 \in Nat
      BY <1>2, <1>3
    <3>2. QED
      BY <1>1, <3>1 DEF GameType
  <2>2. /\ h.quan = [g.quan EXCEPT ![o] = @ - 1] /\ h.place = g.place /\ h.oeaten = g.oeaten
        /\ h.hexed = g.hexed /\ h.olocked = g.olocked /\ h.obroken = g.obroken
        /\ h.progress = g.progress /\ h.tracked = g.tracked
        /\ SameSpot(g, h) /\ SameMoment(g, h)
    BY <1>1 DEF GameType, SameSpot, SameMoment
  <2>3. h \in GameType
    BY <1>1, <2>1 DEF GameType
  <2>4. /\ h.quan[o] = g.quan[o] - 1
        /\ \A x \in Goods \ {o} : h.quan[x] = g.quan[x]
    BY <1>1, <2>2 DEF GameType
  <2>5. h.quan \in [Goods -> Nat] /\ g.quan \in [Goods -> Nat]
    BY <1>1, <2>3 DEF GameType
  <2>6. \A x \in Goods : h.quan[x] <= g.quan[x]
    <3>1. TAKE x \in Goods
    <3>2. h.quan[x] \in {g.quan[x] - 1, g.quan[x]} /\ g.quan[x] \in Nat
      BY <2>4, <2>5
    <3>3. QED
      BY <3>2
  <2>7. Enough(h.quan, Meals)
    BY <2>5, <2>6, FiniteKinds, LessIsEnough DEF Sound
  <2>8. Enough(h.quan, Tins)
    BY <2>5, <2>6, FiniteKinds, LessIsEnough DEF Sound
  <2>9. \A x \in Goods : h.quan[x] = 0 <=> h.place[x] = "gone"
    <3>1. TAKE x \in Goods
    <3>2. h.quan[o] # 0 /\ g.quan[o] # 0
      BY <1>2, <1>3, <2>4
    <3>3. QED
      BY <2>2, <2>4, <3>2 DEF Sound
  <2>10. LeavesAlone(g, h, {o})
    BY <2>2, <2>4 DEF LeavesAlone
  <2>11. LosesTraces(g, h, {o})
    BY <2>2 DEF LosesTraces
  <2>12. Sound(h)
    BY <2>2, <2>3, <2>7, <2>8, <2>9 DEF Sound, SameMoment
  <2>13. UsedUp(g, o) = h
    BY <1>3 DEF UsedUp
  <2> HIDE DEF h
  <2>14. QED
    BY <2>2, <2>10, <2>11, <2>12, <2>13
<1>4. CASE ~(g.quan[o] > 1)
  <2>1. UsedUp(g, o) = Freed(g, o)
    BY <1>4 DEF UsedUp
  <2>2. QED
    BY <2>1, FreedIs
<1>5. QED
  BY <1>3, <1>4

(* Objects of a kind other than those that change.                         *)
LEMMA OtherKindIsEnough ==
    ASSUME NEW p \in [Goods -> Nat], NEW q \in [Goods -> Nat], NEW kind \in {Meals, Tins},
           NEW a \in kind, NEW b \in kind, \A o \in Goods \ {a, b} : q[o] = p[o],
           NEW other \in {Meals, Tins}, other # kind, Enough(p, other)
    PROVE  Enough(q, other)
<1>1. a \notin other /\ b \notin other /\ other \subseteq Goods /\ IsFiniteSet(other)
  BY FiniteKinds
<1>2. \A o \in other : q[o] <= p[o]
  <2>1. TAKE o \in other
  <2>2. q[o] = p[o] /\ p[o] \in Nat
    BY <1>1
  <2>3. QED
    BY <2>2
<1>3. QED
  BY <1>1, <1>2, LessIsEnough

(* Within a kind n objects move from one stack to another.                 *)
LEMMA KindsStayEnough ==
    ASSUME NEW p \in [Goods -> Nat], NEW q \in [Goods -> Nat], NEW kind \in {Meals, Tins},
           NEW from \in kind, NEW onto \in kind, from # onto,
           NEW n \in Nat, n <= p[from], q[from] = p[from] - n, q[onto] = p[onto] + n,
           \A o \in Goods \ {from, onto} : q[o] = p[o],
           Enough(p, Meals), Enough(p, Tins)
    PROVE  Enough(q, Meals) /\ Enough(q, Tins)
<1>1. IsFiniteSet(kind) /\ kind \subseteq Goods /\ Enough(p, kind)
  BY FiniteKinds
<1>2. \A o \in kind \ {from, onto} : q[o] = p[o]
  BY <1>1
<1>3. Enough(q, kind)
  BY <1>1, <1>2, MovingIsEnough
<1>4. \A other \in {Meals, Tins} : other # kind => Enough(q, other)
  <2>1. TAKE other \in {Meals, Tins}
  <2>2. Enough(p, other)
    OBVIOUS
  <2>3. QED
    BY <2>2, OtherKindIsEnough
<1>5. QED
  BY <1>3, <1>4

(* What is of a kind with an object.                                       *)
LEMMA KinIs ==
    ASSUME NEW o \in Meals \cup Tins
    PROVE  /\ Kin(o) \in {Meals, Tins} /\ o \in Kin(o) /\ Kin(o) \subseteq Goods
           /\ IsFiniteSet(Kin(o))
  BY FiniteKinds DEF Kin

(* What an object can join is another of its kind, at the same spot.       *)
LEMMA AlikeIs ==
    ASSUME NEW g, NEW o, NEW spot, NEW x \in Alike(g, o, spot)
    PROVE  /\ Kin(o) \in {Meals, Tins} /\ o \in Kin(o) /\ x \in Kin(o) /\ x # o
           /\ g.place[x] = spot
  BY DEF Kin, Alike

(* The part that splits off.                                               *)
LEMMA SpareIs ==
    ASSUME NEW g, Sound(g), NEW o \in Meals \cup Tins, g.quan[o] > 1
    PROVE  LET part == SparePart(g, o)
           IN  /\ part \in Kin(o) /\ part \in Goods /\ part # o
               /\ g.place[part] = "gone" /\ g.quan[part] = 0
<1>1. g \in GameType /\ g.quan \in [Goods -> Nat] /\ g.quan[o] \in Nat
  BY FiniteKinds DEF Sound, GameType
<1>2. /\ Kin(o) \in {Meals, Tins} /\ o \in Kin(o) /\ Kin(o) \subseteq Goods
      /\ IsFiniteSet(Kin(o))
  BY KinIs
<1>3. Enough(g.quan, Kin(o))
  BY <1>2 DEF Sound
<1>4. \E x \in Kin(o) : g.quan[x] = 0
  BY <1>1, <1>2, <1>3, SpareExists
<1>5. \E x \in Kin(o) : g.place[x] = "gone"
  BY <1>2, <1>4 DEF Sound
<1>6. SparePart(g, o) \in Kin(o) /\ g.place[SparePart(g, o)] = "gone"
  BY <1>5 DEF SparePart
<1>7. g.quan[SparePart(g, o)] = 0
  BY <1>2, <1>6 DEF Sound
<1>8. SparePart(g, o) # o
  BY <1>1, <1>7
<1>9. QED
  BY <1>2, <1>6, <1>7, <1>8

(* splitobj: h is g with n of the stack o become the object "part".        *)
SplitsInto(g, h, o, n, part) ==
    /\ Sound(h) /\ LeavesAlone(g, h, {o, part})
    /\ SameSpot(g, h) /\ SameMoment(g, h) /\ LosesTraces(g, h, {})
    /\ h.place[o] = g.place[o] /\ h.place[part] = g.place[o]
    /\ h.quan[o] = g.quan[o] - n /\ h.quan[part] = n

(* splitobj splits a stack that is larger than the part.                   *)
LEMMA SplitOffIs ==
    ASSUME NEW g, Sound(g), NEW o \in Meals \cup Tins, NEW n \in Nat \ {0}, n < g.quan[o],
           NEW part, part = SparePart(g, o)
    PROVE  SplitsInto(g, SplitOff(g, o, n, part), o, n, part)
<1> DEFINE h == SplitOff(g, o, n, part)
<1>1. g \in GameType /\ o \in Goods
  BY FiniteKinds DEF Sound
<1>2. g.quan[o] \in Nat /\ g.quan[o] > 1
  BY <1>1 DEF GameType
<1>3. /\ part \in Kin(o) /\ part \in Goods /\ part # o
      /\ g.place[part] = "gone" /\ g.quan[part] = 0
  BY <1>2, SpareIs
<1>4. Kin(o) \in {Meals, Tins} /\ o \in Kin(o)
  BY KinIs
<1>5. g.quan[o] # 0 /\ g.place[o] # "gone"
  BY <1>1, <1>2 DEF Sound
<1>6. /\ [g.place EXCEPT ![part] = g.place[o]] \in [Goods -> Spots]
      /\ [g.quan EXCEPT ![o] = @ - n, ![part] = n] \in [Goods -> Nat]
      /\ [g.oeaten EXCEPT ![part] = g.oeaten[o]] \in [Goods -> 0..MealSize]
  <2>1. g.quan[o] - n \in Nat
    BY <1>2
  <2>2. QED
    BY <1>1, <1>3, <2>1 DEF GameType
<1>7. /\ h.place = [g.place EXCEPT ![part] = g.place[o]]
      /\ h.quan = [g.quan EXCEPT ![o] = @ - n, ![part] = n]
      /\ h.oeaten = [g.oeaten EXCEPT ![part] = g.oeaten[o]]
      /\ h.hexed = g.hexed /\ h.olocked = g.olocked /\ h.obroken = g.obroken
      /\ h.progress = g.progress /\ h.tracked = g.tracked
      /\ SameSpot(g, h) /\ SameMoment(g, h)
  BY <1>1 DEF GameType, SplitOff, SameSpot, SameMoment
<1>8. h \in GameType
  BY <1>1, <1>6 DEF GameType, SplitOff
<1>9. /\ h.place[o] = g.place[o] /\ h.place[part] = g.place[o]
      /\ h.quan[o] = g.quan[o] - n /\ h.quan[part] = n
      /\ LeavesAlone(g, h, {o, part})
  BY <1>1, <1>3, <1>7 DEF GameType, LeavesAlone
<1>10. LosesTraces(g, h, {})
  BY <1>7 DEF LosesTraces
<1>11. \A x \in Goods : h.quan[x] = 0 <=> h.place[x] = "gone"
  <2>1. TAKE x \in Goods
  <2>2. CASE x = o
    <3>1. g.quan[o] - n # 0
      BY <1>2
    <3>2. QED
      BY <1>5, <1>9, <2>2, <3>1
  <2>3. CASE x = part
    BY <1>5, <1>9, <2>3
  <2>4. CASE x \notin {o, part}
    BY <1>9, <2>4 DEF LeavesAlone, Sound
  <2>5. QED
    BY <2>2, <2>3, <2>4
<1>12. \A s \in Tracks : h.tracked[s] \in Goods => h.place[h.tracked[s]] # "gone"
  <2>1. TAKE s \in Tracks
  <2>2. HAVE h.tracked[s] \in Goods
  <2>3. g.tracked[s] \in Goods /\ g.place[g.tracked[s]] # "gone"
    BY <1>7, <2>2 DEF Sound
  <2>4. h.place[g.tracked[s]] = g.place[g.tracked[s]]
    BY <1>3, <1>9, <2>3 DEF LeavesAlone
  <2>5. QED
    BY <1>7, <2>3, <2>4
<1>13. Enough(h.quan, Meals) /\ Enough(h.quan, Tins)
  <2>1. h.quan \in [Goods -> Nat] /\ g.quan \in [Goods -> Nat]
    BY <1>1, <1>8 DEF GameType
  <2>2. h.quan[part] = g.quan[part] + n
    BY <1>3, <1>9
  <2>3. \A x \in Goods \ {o, part} : h.quan[x] = g.quan[x]
    BY <1>9 DEF LeavesAlone
  <2>4. n \in Nat /\ n <= g.quan[o]
    BY <1>2
  <2>5. Enough(g.quan, Meals) /\ Enough(g.quan, Tins)
    BY DEF Sound
  <2> DEFINE p == g.quan
             q == h.quan
  <2>6. /\ p \in [Goods -> Nat] /\ q \in [Goods -> Nat] /\ q[o] = p[o] - n
        /\ q[part] = p[part] + n /\ n <= p[o] /\ Enough(p, Meals) /\ Enough(p, Tins)
        /\ \A x \in Goods \ {o, part} : q[x] = p[x]
    BY <1>9, <2>1, <2>2, <2>3, <2>4, <2>5
  <2> HIDE DEF p, q, h
  <2>7. Enough(q, Meals) /\ Enough(q, Tins)
    BY <1>3, <1>4, <2>4, <2>6, KindsStayEnough
  <2>8. QED
    BY <2>7 DEF q
<1>14. Sound(h)
  BY <1>7, <1>8, <1>11, <1>12, <1>13 DEF Sound, SameMoment
<1> HIDE DEF h
<1>15. SplitsInto(g, h, o, n, part)
  BY <1>7, <1>9, <1>10, <1>14 DEF SplitsInto
<1>16. QED
  BY <1>15 DEF h

(* merged.                                                                 *)
LEMMA JoinedIs ==
    ASSUME NEW g, Sound(g), NEW kind \in {Meals, Tins}, NEW onto \in kind, NEW it \in kind,
           onto # it, g.place[onto] # "gone"
    PROVE  LET h == Joined(g, onto, it)
           IN  /\ Sound(h) /\ LeavesAlone(g, h, {onto, it})
               /\ SameSpot(g, h) /\ SameMoment(g, h) /\ LosesTraces(g, h, {it})
<1> DEFINE h == Joined(g, onto, it)
           more == [g EXCEPT !.quan[onto] = @ + g.quan[it]]
<1>1. g \in GameType /\ onto \in Goods /\ it \in Goods
  BY FiniteKinds DEF Sound
<1>2. g.quan[onto] \in Nat /\ g.quan[it] \in Nat /\ g.quan[onto] # 0
  BY <1>1 DEF GameType, Sound
<1>3. /\ more \in GameType
      /\ more.quan = [g.quan EXCEPT ![onto] = @ + g.quan[it]] /\ more.place = g.place
      /\ more.oeaten = g.oeaten /\ more.hexed = g.hexed /\ more.olocked = g.olocked
      /\ more.obroken = g.obroken /\ more.progress = g.progress
      /\ more.tracked = g.tracked /\ SameSpot(g, more) /\ SameMoment(g, more)
  <2>1. [g.quan EXCEPT ![onto] = @ + g.quan[it]] \in [Goods -> Nat]
    BY <1>1, <1>2 DEF GameType
  <2>2. more \in GameType
    BY <1>1, <2>1 DEF GameType
  <2>3. QED
    BY <1>1, <2>2 DEF GameType, SameSpot, SameMoment
<1>4. h = Freed(more, it)
  BY DEF Joined
<1> HIDE DEF more, h
<1>5. /\ h \in GameType
      /\ h.place = [g.place EXCEPT ![it] = "gone"]
      /\ h.quan = [g.quan EXCEPT ![onto] = @ + g.quan[it], ![it] = 0]
      /\ h.oeaten = [g.oeaten EXCEPT ![it] = 0]
      /\ h.hexed = g.hexed \ {it} /\ h.olocked = g.olocked \ {it}
      /\ h.obroken = g.obroken \ {it} /\ h.progress = g.progress
      /\ h.tracked = [s \in Tracks |-> IF g.tracked[s] = it THEN Nothing ELSE g.tracked[s]]
      /\ SameSpot(g, h) /\ SameMoment(g, h)
  <2>1. /\ h \in GameType
        /\ h.place = [more.place EXCEPT ![it] = "gone"]
        /\ h.quan = [more.quan EXCEPT ![it] = 0]
        /\ h.oeaten = [more.oeaten EXCEPT ![it] = 0]
        /\ h.hexed = more.hexed \ {it} /\ h.olocked = more.olocked \ {it}
        /\ h.obroken = more.obroken \ {it} /\ h.progress = more.progress
        /\ h.tracked = [s \in Tracks |-> IF more.tracked[s] = it THEN Nothing
                                         ELSE more.tracked[s]]
        /\ SameSpot(more, h) /\ SameMoment(more, h)
    <3>1. more \in GameType /\ it \in Goods
      BY <1>1, <1>3
    <3>2. QED
      BY <3>1, <1>4, FreedFields, Zenon
  <2>2. SameSpot(g, h) /\ SameMoment(g, h)
    BY <1>3, <2>1 DEF SameSpot, SameMoment
  <2>3. h.quan = [g.quan EXCEPT ![onto] = @ + g.quan[it], ![it] = 0]
    BY <1>1, <1>3, <2>1 DEF GameType
  <2>4. QED
    BY <1>3, <2>1, <2>2, <2>3
<1>6. /\ h.place[it] = "gone" /\ h.quan[it] = 0
      /\ h.place[onto] = g.place[onto] /\ h.quan[onto] = g.quan[onto] + g.quan[it]
      /\ LeavesAlone(g, h, {onto, it})
  BY <1>1, <1>5 DEF GameType, LeavesAlone
<1>7. LosesTraces(g, h, {it}) /\ \A s \in Tracks : h.tracked[s] # it
  BY <1>1, <1>5, NoObject DEF GameType, LosesTraces
<1>8. \A x \in Goods : h.quan[x] = 0 <=> h.place[x] = "gone"
  <2>1. TAKE x \in Goods
  <2>2. CASE x = onto
    <3>1. g.quan[onto] + g.quan[it] # 0
      BY <1>2
    <3>2. QED
      BY <1>6, <2>2, <3>1
  <2>3. CASE x = it
    BY <1>6, <2>3
  <2>4. CASE x \notin {onto, it}
    BY <1>6, <2>4 DEF LeavesAlone, Sound
  <2>5. QED
    BY <2>2, <2>3, <2>4
<1>9. \A s \in Tracks : h.tracked[s] \in Goods => h.place[h.tracked[s]] # "gone"
  <2>1. TAKE s \in Tracks
  <2>2. HAVE h.tracked[s] \in Goods
  <2>3. h.tracked[s] = g.tracked[s] /\ h.tracked[s] # it
    BY <1>7, <2>2, NoObject DEF LosesTraces
  <2>4. h.place[h.tracked[s]] = g.place[g.tracked[s]]
    BY <1>6, <2>2, <2>3 DEF LeavesAlone
  <2>5. QED
    BY <2>2, <2>3, <2>4 DEF Sound
<1>10. h.tracked["food"] \in Meals \cup {Nothing}
  BY <1>7 DEF Sound, LosesTraces, Tracks
<1>11. h.olocked \cap h.obroken = {} /\ h.tracked["lock"] \notin h.obroken
  BY <1>1, <1>5, <1>7, NoObject DEF Sound, LosesTraces, Tracks, GameType
<1>12. Enough(h.quan, Meals) /\ Enough(h.quan, Tins)
  <2> DEFINE p == g.quan
             q == h.quan
             n == g.quan[it]
  <2>1. p \in [Goods -> Nat] /\ q \in [Goods -> Nat]
    BY <1>1, <1>5 DEF GameType
  <2>2. n \in Nat /\ n <= p[it] /\ q[it] = p[it] - n
    BY <1>2, <1>6
  <2>3. /\ q[onto] = p[onto] + n
        /\ \A x \in Goods \ {it, onto} : q[x] = p[x]
    BY <1>6 DEF LeavesAlone
  <2>4. Enough(p, Meals) /\ Enough(p, Tins)
    BY DEF Sound
  <2> HIDE DEF p, q, n
  <2>5. Enough(q, Meals) /\ Enough(q, Tins)
    BY <2>1, <2>2, <2>3, <2>4, KindsStayEnough
  <2>6. QED
    BY <2>5 DEF q
<1>13. Sound(h)
  BY <1>5, <1>8, <1>9, <1>10, <1>11, <1>12 DEF Sound, SameMoment
<1>14. QED
  BY <1>5, <1>6, <1>7, <1>13 DEF h

(* An object changes its place.                                            *)
LEMMA PlacedIs ==
    ASSUME NEW g, Sound(g), NEW o \in Goods, g.place[o] # "gone",
           NEW spot \in Spots \ {"gone"}
    PROVE  LET h == [g EXCEPT !.place[o] = spot]
           IN  /\ Sound(h) /\ LeavesAlone(g, h, {o}) /\ SameSpot(g, h) /\ SameMoment(g, h)
               /\ LosesTraces(g, h, {}) /\ h.place = [g.place EXCEPT ![o] = spot]
               /\ h.quan = g.quan /\ h.oeaten = g.oeaten
<1> DEFINE h == [g EXCEPT !.place[o] = spot]
<1>1. g \in GameType
  BY DEF Sound
<1>2. [g.place EXCEPT ![o] = spot] \in [Goods -> Spots]
  BY <1>1 DEF GameType
<1>3. /\ h.place = [g.place EXCEPT ![o] = spot]
      /\ h.quan = g.quan /\ h.oeaten = g.oeaten
      /\ h.hexed = g.hexed /\ h.olocked = g.olocked /\ h.obroken = g.obroken
      /\ h.progress = g.progress /\ h.tracked = g.tracked
      /\ SameSpot(g, h) /\ SameMoment(g, h)
  BY <1>1 DEF GameType, SameSpot, SameMoment
<1>4. h \in GameType
  BY <1>1, <1>2 DEF GameType
<1>5. \A x \in Goods : h.place[x] = "gone" <=> g.place[x] = "gone"
  BY <1>1, <1>3 DEF GameType
<1>6. LeavesAlone(g, h, {o}) /\ LosesTraces(g, h, {})
  BY <1>1, <1>3 DEF GameType, LeavesAlone, LosesTraces
<1>7. Sound(h)
  BY <1>3, <1>4, <1>5 DEF Sound, SameMoment
<1> HIDE DEF h
<1>8. QED
  BY <1>3, <1>6, <1>7 DEF h

(* A trace is set, or lost.                                                *)
LEMMA TrackIs ==
    ASSUME NEW g, Sound(g), NEW s \in Tracks, NEW o \in Targets,
           o \in Goods => g.place[o] # "gone",
           s = "food" => o \in Meals \cup {Nothing}, s = "lock" => o \notin g.obroken
    PROVE  LET h == [g EXCEPT !.tracked[s] = o]
           IN  /\ Sound(h) /\ SameObjects(g, h) /\ SameSpot(g, h) /\ SameMoment(g, h)
               /\ h.progress = g.progress /\ h.tracked = [g.tracked EXCEPT ![s] = o]
<1> DEFINE h == [g EXCEPT !.tracked[s] = o]
<1>1. g \in GameType
  BY DEF Sound
<1>2. [g.tracked EXCEPT ![s] = o] \in [Tracks -> Targets]
  BY <1>1 DEF GameType
<1>3. /\ SameObjects(g, h) /\ SameSpot(g, h) /\ SameMoment(g, h)
      /\ h.progress = g.progress /\ h.tracked = [g.tracked EXCEPT ![s] = o]
  BY <1>1 DEF GameType, SameObjects, SameSpot, SameMoment
<1>4. h \in GameType
  BY <1>1, <1>2 DEF GameType
<1>5. \A r \in Tracks :
          \/ h.tracked[r] \in {Nothing, g.tracked[r]}
          \/ /\ h.tracked[r] \in Goods => g.place[h.tracked[r]] # "gone"
             /\ r = "food" => h.tracked[r] \in Meals
             /\ r = "lock" => h.tracked[r] \notin g.obroken
  BY <1>1, <1>3 DEF GameType
<1>6. SameCommand(g, h)
  BY <1>3 DEF SameMoment, SameCommand
<1> HIDE DEF h
<1>7. QED
  BY <1>3, <1>4, <1>5, <1>6, TracesAreSound DEF h

(* How far an occupation has got.                                          *)
LEMMA ProgressIs ==
    ASSUME NEW g, Sound(g), NEW s \in Tracks, NEW n \in Int
    PROVE  LET h == [g EXCEPT !.progress[s] = n]
           IN  /\ Sound(h) /\ SameObjects(g, h) /\ SameSpot(g, h) /\ SameMoment(g, h)
               /\ h.tracked = g.tracked /\ h.progress = [g.progress EXCEPT ![s] = n]
<1> DEFINE h == [g EXCEPT !.progress[s] = n]
<1>1. g \in GameType
  BY DEF Sound
<1>2. [g.progress EXCEPT ![s] = n] \in [Tracks -> Int]
  BY <1>1 DEF GameType
<1>3. /\ SameObjects(g, h) /\ SameSpot(g, h) /\ SameMoment(g, h)
      /\ h.tracked = g.tracked /\ h.progress = [g.progress EXCEPT ![s] = n]
  BY <1>1 DEF GameType, SameObjects, SameSpot, SameMoment
<1>4. h \in GameType
  BY <1>1, <1>2 DEF GameType
<1>5. SameCommand(g, h)
  BY <1>3 DEF SameMoment, SameCommand
<1>6. \A r \in Tracks : h.tracked[r] \in {Nothing, g.tracked[r]}
  BY <1>3
<1> HIDE DEF h
<1>7. QED
  BY <1>3, <1>4, <1>5, <1>6, TracesAreSound DEF h

(* Where the player is.                                                    *)
LEMMA AtIs ==
    ASSUME NEW g, Sound(g), NEW spot \in Places
    PROVE  LET h == [g EXCEPT !.at = spot]
           IN  /\ Sound(h) /\ SameObjects(g, h) /\ SameMoment(g, h)
               /\ h.tracked = g.tracked /\ h.progress = g.progress
               /\ h.at = spot /\ h.door = g.door /\ h.site = g.site
<1> DEFINE h == [g EXCEPT !.at = spot]
<1>1. g \in GameType
  BY DEF Sound
<1>2. /\ SameObjects(g, h) /\ SameMoment(g, h) /\ h.tracked = g.tracked
      /\ h.progress = g.progress /\ h.at = spot /\ h.door = g.door /\ h.site = g.site
  BY <1>1 DEF GameType, SameObjects, SameMoment
<1>3. h \in GameType
  BY <1>1 DEF GameType
<1>4. SameCommand(g, h) /\ \A r \in Tracks : h.tracked[r] \in {Nothing, g.tracked[r]}
  BY <1>2 DEF SameMoment, SameCommand
<1> HIDE DEF h
<1>5. QED
  BY <1>2, <1>3, <1>4, TracesAreSound DEF h

(* What the door is.                                                       *)
LEMMA DoorIs ==
    ASSUME NEW g, Sound(g), NEW state \in Doors
    PROVE  LET h == [g EXCEPT !.door = state]
           IN  /\ Sound(h) /\ SameObjects(g, h) /\ SameMoment(g, h)
               /\ h.tracked = g.tracked /\ h.progress = g.progress
               /\ h.at = g.at /\ h.door = state /\ h.site = g.site
<1> DEFINE h == [g EXCEPT !.door = state]
<1>1. g \in GameType
  BY DEF Sound
<1>2. /\ SameObjects(g, h) /\ SameMoment(g, h) /\ h.tracked = g.tracked
      /\ h.progress = g.progress /\ h.at = g.at /\ h.door = state /\ h.site = g.site
  BY <1>1 DEF GameType, SameObjects, SameMoment
<1>3. h \in GameType
  BY <1>1 DEF GameType
<1>4. SameCommand(g, h) /\ \A r \in Tracks : h.tracked[r] \in {Nothing, g.tracked[r]}
  BY <1>2 DEF SameMoment, SameCommand
<1> HIDE DEF h
<1>5. QED
  BY <1>2, <1>3, <1>4, TracesAreSound DEF h

(* How much is left of a piece of food.                                    *)
LEMMA OeatenIs ==
    ASSUME NEW g, Sound(g), NEW o \in Goods, NEW n \in 0..MealSize
    PROVE  LET h == [g EXCEPT !.oeaten[o] = n]
           IN  /\ Sound(h) /\ LeavesAlone(g, h, {o}) /\ SameSpot(g, h) /\ SameMoment(g, h)
               /\ LosesTraces(g, h, {}) /\ h.quan = g.quan /\ h.place = g.place
               /\ h.oeaten = [g.oeaten EXCEPT ![o] = n]
<1> DEFINE h == [g EXCEPT !.oeaten[o] = n]
<1>1. g \in GameType
  BY DEF Sound
<1>2. [g.oeaten EXCEPT ![o] = n] \in [Goods -> 0..MealSize]
  BY <1>1 DEF GameType
<1>3. /\ h.oeaten = [g.oeaten EXCEPT ![o] = n]
      /\ h.quan = g.quan /\ h.place = g.place
      /\ h.hexed = g.hexed /\ h.olocked = g.olocked /\ h.obroken = g.obroken
      /\ h.progress = g.progress /\ h.tracked = g.tracked
      /\ SameSpot(g, h) /\ SameMoment(g, h)
  BY <1>1 DEF GameType, SameSpot, SameMoment
<1>4. h \in GameType
  BY <1>1, <1>2 DEF GameType
<1>5. LeavesAlone(g, h, {o}) /\ LosesTraces(g, h, {})
  BY <1>1, <1>3 DEF GameType, LeavesAlone, LosesTraces
<1>6. Sound(h)
  BY <1>3, <1>4 DEF Sound, SameMoment
<1> HIDE DEF h
<1>7. QED
  BY <1>3, <1>5, <1>6 DEF h

-----------------------------------------------------------------------------
(* A turn of an occupation.                                                *)

(* No command is under way; one that nothing interrupted is under way; and *)
(* that is a turn of s.                                                    *)
Idle(g) == g.flags.occupation = Nothing /\ ~g.flags.incomplete
Busy(g) == g.flags.incomplete /\ ~g.flags.interrupted
Going(g, s) == Busy(g) /\ g.flags.occupation = s

(* What every turn of the occupation s leaves as it is: of the goods all   *)
(* but those of X; and unless it was the last turn, what is tracked.       *)
TurnOf(g, h, s, X) ==
    /\ Sound(h) /\ SameCommand(g, h) /\ h.at = g.at /\ h.site = g.site
    /\ LeavesAlone(g, h, X)
    /\ \A r \in Tracks : h.tracked[r] \in {Nothing, g.tracked[r]}
    /\ \A r \in Tracks \ {s} : h.progress[r] = g.progress[r]
    /\ Idle(h) \/ (h.flags = g.flags /\ h.tracked = g.tracked /\ h.took = g.took)

(* What two changes leave alone.                                           *)
LEMMA AloneTwice ==
    ASSUME NEW g, NEW h, NEW k, NEW X, NEW Y, LeavesAlone(g, h, X), LeavesAlone(h, k, Y),
           X \subseteq Y
    PROVE  LeavesAlone(g, k, Y)
  BY DEF LeavesAlone

(* A game with the same objects leaves all of them alone.                  *)
LEMMA SameIsAlone ==
    ASSUME NEW g, NEW h, SameObjects(g, h) \/ SameThings(g, h), NEW X
    PROVE  LeavesAlone(g, h, X)
  BY DEF LeavesAlone, SameObjects, SameThings

(* An occupation that ends without its object.                             *)
LEMMA EndedIs ==
    ASSUME NEW g, Sound(g), NEW s \in Tracks
    PROVE  LET h == Completed(Untracked(g, s))
           IN  /\ Sound(h) /\ SameObjects(g, h) /\ SameSpot(g, h) /\ SameCommand(g, h)
               /\ Idle(h)
               /\ h.tracked = [g.tracked EXCEPT ![s] = Nothing]
               /\ h.progress = [g.progress EXCEPT ![s] = 0]
<1> DEFINE u == Untracked(g, s)
           h == Completed(u)
<1>1. /\ Sound(u) /\ SameObjects(g, u) /\ SameSpot(g, u) /\ SameMoment(g, u)
      /\ u.tracked = [g.tracked EXCEPT ![s] = Nothing]
      /\ u.progress = [g.progress EXCEPT ![s] = 0]
  BY UntrackedIs
<1> HIDE DEF u
<1>2. Sound(h) /\ SameThings(u, h) /\ FlagsAre(u, h, FALSE, TRUE, Nothing)
  BY <1>1, CompletedIs
<1> HIDE DEF h
<1>3. SameObjects(g, h) /\ SameSpot(g, h)
  BY <1>1, <1>2 DEF SameObjects, SameSpot, SameThings
<1>4. SameCommand(g, h) /\ Idle(h)
  BY <1>1, <1>2 DEF SameMoment, SameCommand, FlagsAre, Idle
<1>5. h.tracked = u.tracked /\ h.progress = u.progress
  BY <1>2 DEF SameThings
<1>6. QED
  BY <1>1, <1>2, <1>3, <1>4, <1>5 DEF h, u

(* An occupation that ends with its object still in mind.                  *)
LEMMA DoneIs ==
    ASSUME NEW g, Sound(g), NEW s \in Tracks, NEW X
    PROVE  LET h == Completed(g)
           IN  /\ TurnOf(g, h, s, X) /\ Idle(h) /\ SameThings(g, h)
<1> DEFINE h == Completed(g)
<1>1. Sound(h) /\ SameThings(g, h) /\ FlagsAre(g, h, FALSE, TRUE, Nothing)
  BY CompletedIs
<1> HIDE DEF h
<1>2. LeavesAlone(g, h, X)
  BY <1>1, SameIsAlone
<1>3. Idle(h) /\ SameCommand(g, h)
  BY <1>1 DEF Idle, FlagsAre
<1>4. h.at = g.at /\ h.site = g.site /\ h.tracked = g.tracked /\ h.progress = g.progress
  BY <1>1 DEF SameThings
<1>5. QED
  BY <1>1, <1>2, <1>3, <1>4 DEF TurnOf, h

(* eat_one_turn: a bite, or the last one.                                  *)
LEMMA BiteIs ==
    ASSUME NEW g, Sound(g), Going(g, "food"), NEW food \in Meals, food = g.tracked["food"],
           g.quan[food] = 1, g.oeaten[food] \in 1..MealSize
    PROVE  LET h == EatOneTurn(g)
           IN  /\ TurnOf(g, h, "food", {food}) /\ h.door = g.door
               /\ \/ Idle(h)
                  \/ /\ h.flags = g.flags /\ h.tracked = g.tracked
                     /\ h.quan[food] = 1
                     /\ h.oeaten[food] \in 1..(g.oeaten[food] - 1)
<1> DEFINE h == EatOneTurn(g)
<1>1. g \in GameType /\ food \in Goods /\ g.oeaten[food] \in 0..MealSize /\ "food" \in Tracks
  BY FiniteKinds DEF Sound, GameType, Tracks
<1>2. CASE ~WithYou(g, food)
  <2>1. h = Completed(g)
    BY <1>2 DEF EatOneTurn
  <2>2. TurnOf(g, h, "food", {food}) /\ Idle(h) /\ SameThings(g, h)
    BY <1>1, <2>1, DoneIs
  <2>3. QED
    BY <2>2 DEF SameThings
<1>3. CASE WithYou(g, food) /\ g.oeaten[food] > 1
  <2> DEFINE n == g.oeaten[food] - 1
  <2>1. h = [g EXCEPT !.oeaten[food] = n]
    BY <1>1, <1>3 DEF EatOneTurn, GameType
  <2>2. n \in 0..MealSize /\ n \in 1..(g.oeaten[food] - 1)
    BY <1>1, <1>3, OccupationsAssumption
  <2> HIDE DEF h, n
  <2>3. /\ Sound(h) /\ LeavesAlone(g, h, {food}) /\ SameSpot(g, h) /\ SameMoment(g, h)
        /\ LosesTraces(g, h, {}) /\ h.quan = g.quan /\ h.place = g.place
        /\ h.oeaten = [g.oeaten EXCEPT ![food] = n]
    BY <1>1, <2>1, <2>2, OeatenIs
  <2>4. h.oeaten[food] = n
    BY <1>1, <2>3 DEF GameType
  <2>5. h \in GameType
    BY <2>3 DEF Sound
  <2>6. h.tracked = g.tracked
    BY <1>1, <2>3, <2>5 DEF LosesTraces, GameType
  <2>7. TurnOf(g, h, "food", {food}) /\ h.door = g.door /\ h.flags = g.flags
    BY <2>3, <2>6 DEF TurnOf, SameSpot, SameMoment, SameCommand, LosesTraces
  <2>8. QED
    BY <2>2, <2>3, <2>4, <2>6, <2>7 DEF h
<1>4. CASE WithYou(g, food) /\ ~(g.oeaten[food] > 1)
  <2> DEFINE c == Completed(g)
             d == [c EXCEPT !.tracked["food"] = Nothing]
             e == [d EXCEPT !.oeaten[food] = 0]
  <2>1. Sound(c) /\ SameThings(g, c) /\ FlagsAre(g, c, FALSE, TRUE, Nothing)
    BY CompletedIs
  <2>2. c \in GameType
    BY <2>1 DEF Sound
  <2>3. h = UsedUp(e, food)
    BY <1>4, <2>2 DEF EatOneTurn, GameType
  <2> HIDE DEF c
  <2>4. /\ Sound(d) /\ SameObjects(c, d) /\ SameSpot(c, d) /\ SameMoment(c, d)
        /\ d.progress = c.progress /\ d.tracked = [c.tracked EXCEPT !["food"] = Nothing]
    BY <1>1, <2>1, NoObject, TrackIs DEF Targets
  <2> HIDE DEF d
  <2>5. /\ Sound(e) /\ LeavesAlone(d, e, {food}) /\ SameSpot(d, e) /\ SameMoment(d, e)
        /\ LosesTraces(d, e, {})
    <3>1. 0 \in 0..MealSize
      BY OccupationsAssumption
    <3>2. QED
      BY <1>1, <2>4, <3>1, OeatenIs
  <2> HIDE DEF e
  <2>6. /\ Sound(h) /\ LeavesAlone(e, h, {food}) /\ SameSpot(e, h) /\ SameMoment(e, h)
        /\ LosesTraces(e, h, {food})
    BY <1>1, <2>3, <2>5, UsedUpIs
  <2> HIDE DEF h
  <2>7. LeavesAlone(g, c, {food}) /\ LeavesAlone(c, d, {food})
    BY <2>1, <2>4, SameIsAlone
  <2>8. LeavesAlone(g, h, {food})
    BY <2>5, <2>6, <2>7, AloneTwice
  <2>9. /\ SameCommand(g, h) /\ Idle(h) /\ h.at = g.at /\ h.site = g.site /\ h.door = g.door
    BY <2>1, <2>4, <2>5, <2>6 DEF SameMoment, SameSpot, FlagsAre, SameThings, SameCommand, Idle
  <2>10. h.progress = g.progress
    BY <2>1, <2>4, <2>5, <2>6 DEF LosesTraces, SameThings
  <2>11. \A r \in Tracks : h.tracked[r] \in {Nothing, g.tracked[r]}
    <3>1. TAKE r \in Tracks
    <3>2. d.tracked[r] \in {Nothing, g.tracked[r]}
      BY <2>1, <2>2, <2>4 DEF SameThings, GameType
    <3>3. QED
      BY <2>5, <2>6, <3>2 DEF LosesTraces
  <2>12. TurnOf(g, h, "food", {food})
    BY <2>6, <2>8, <2>9, <2>10, <2>11 DEF TurnOf
  <2>13. QED
    BY <2>9, <2>12 DEF h
<1>5. QED
  BY <1>2, <1>3, <1>4

(* eat_tin_one_turn.                                                       *)
LEMMA TinTurnIs ==
    ASSUME NEW g, Sound(g), Going(g, "tin"), NEW tin, tin = g.tracked["tin"]
    PROVE  LET h == EatTinOneTurn(g)
           IN  /\ TurnOf(g, h, "tin", {tin}) /\ h.door = g.door
               /\ \/ Idle(h) /\ (WithYou(g, tin) => h.tracked["tin"] = Nothing)
                  \/ /\ h.flags = g.flags /\ h.tracked = g.tracked
                     /\ h.progress["tin"] = g.progress["tin"] - 1
                     /\ g.progress["tin"] >= -MaxTries /\ g.progress["tin"] # 1
<1> DEFINE h == EatTinOneTurn(g)
           left == g.progress["tin"]
<1>1. g \in GameType /\ left \in Int /\ "tin" \in Tracks
  BY DEF Sound, GameType, Tracks
<1>2. CASE ~WithYou(g, tin)
  <2>1. h = Completed(g)
    BY <1>2 DEF EatTinOneTurn
  <2>2. TurnOf(g, h, "tin", {tin}) /\ Idle(h) /\ SameThings(g, h)
    BY <1>1, <2>1, DoneIs
  <2>3. QED
    BY <1>2, <2>2 DEF SameThings
<1>3. CASE WithYou(g, tin) /\ left < -MaxTries
  <2>1. h = Completed(Untracked(g, "tin"))
    BY <1>3 DEF EatTinOneTurn
  <2> HIDE DEF h
  <2>2. /\ Sound(h) /\ SameObjects(g, h) /\ SameSpot(g, h) /\ SameCommand(g, h) /\ Idle(h)
        /\ h.tracked = [g.tracked EXCEPT !["tin"] = Nothing]
        /\ h.progress = [g.progress EXCEPT !["tin"] = 0]
    BY <1>1, <2>1, EndedIs
  <2>3. LeavesAlone(g, h, {tin})
    BY <2>2, SameIsAlone
  <2>4. /\ h.tracked["tin"] = Nothing
        /\ \A r \in Tracks : h.tracked[r] \in {Nothing, g.tracked[r]}
        /\ \A r \in Tracks \ {"tin"} : h.progress[r] = g.progress[r]
    BY <1>1, <2>2 DEF GameType
  <2>5. TurnOf(g, h, "tin", {tin}) /\ h.door = g.door
    BY <2>2, <2>3, <2>4 DEF TurnOf, SameSpot
  <2>6. QED
    BY <2>2, <2>4, <2>5 DEF h
<1>4. CASE WithYou(g, tin) /\ ~(left < -MaxTries) /\ left # 1
  <2> DEFINE n == left - 1
  <2>1. h = [g EXCEPT !.progress["tin"] = n]
    BY <1>1, <1>4 DEF EatTinOneTurn, GameType
  <2>2. n \in Int
    BY <1>1
  <2> HIDE DEF h, n
  <2>3. /\ Sound(h) /\ SameObjects(g, h) /\ SameSpot(g, h) /\ SameMoment(g, h)
        /\ h.tracked = g.tracked /\ h.progress = [g.progress EXCEPT !["tin"] = n]
    BY <1>1, <2>1, <2>2, ProgressIs
  <2>4. LeavesAlone(g, h, {tin})
    BY <2>3, SameIsAlone
  <2>5. /\ h.progress["tin"] = n
        /\ \A r \in Tracks \ {"tin"} : h.progress[r] = g.progress[r]
    BY <1>1, <2>3 DEF GameType
  <2>6. TurnOf(g, h, "tin", {tin}) /\ h.door = g.door /\ h.flags = g.flags
    BY <2>3, <2>4, <2>5 DEF TurnOf, SameSpot, SameMoment, SameCommand
  <2>7. left >= -MaxTries
    BY <1>1, <1>4, OccupationsAssumption
  <2>8. QED
    BY <1>4, <2>3, <2>5, <2>6, <2>7 DEF h, n
<1>5. CASE WithYou(g, tin) /\ left = 1 /\ ~(left < -MaxTries)
  <2> DEFINE u == UsedUp(g, tin)
  <2>1. h = Completed(Untracked(u, "tin"))
    BY <1>5 DEF EatTinOneTurn
  <2>2. tin \in Goods
    BY <1>5 DEF WithYou
  <2>3. /\ Sound(u) /\ LeavesAlone(g, u, {tin}) /\ SameSpot(g, u) /\ SameMoment(g, u)
        /\ LosesTraces(g, u, {tin})
    BY <2>2, UsedUpIs
  <2> HIDE DEF h, u
  <2>4. /\ Sound(h) /\ SameObjects(u, h) /\ SameSpot(u, h) /\ SameCommand(u, h) /\ Idle(h)
        /\ h.tracked = [u.tracked EXCEPT !["tin"] = Nothing]
        /\ h.progress = [u.progress EXCEPT !["tin"] = 0]
    BY <1>1, <2>1, <2>3, EndedIs
  <2>5. LeavesAlone(u, h, {tin})
    BY <2>4, SameIsAlone
  <2>6. LeavesAlone(g, h, {tin})
    BY <2>3, <2>5, AloneTwice
  <2>7. u \in GameType
    BY <2>3 DEF Sound
  <2>8. /\ h.tracked["tin"] = Nothing
        /\ \A r \in Tracks : h.tracked[r] \in {Nothing, g.tracked[r]}
        /\ \A r \in Tracks \ {"tin"} : h.progress[r] = g.progress[r]
    BY <1>1, <2>3, <2>4, <2>7 DEF GameType, LosesTraces
  <2>9. SameSpot(g, h) /\ SameCommand(g, h)
    BY <2>3, <2>4 DEF SameSpot, SameMoment, SameCommand
  <2>10. TurnOf(g, h, "tin", {tin}) /\ h.door = g.door
    BY <2>4, <2>6, <2>8, <2>9 DEF TurnOf, SameSpot
  <2>11. QED
    BY <2>4, <2>8, <2>10 DEF h
<1>6. QED
  BY <1>2, <1>3, <1>4, <1>5

(* learn.                                                                  *)
LEMMA PageIs ==
    ASSUME NEW g, Sound(g), Going(g, "book"), NEW book \in Goods, book = g.tracked["book"],
           NEW h \in LearnBook(g)
    PROVE  /\ TurnOf(g, h, "book", {book}) /\ h.door = g.door
           /\ h.tracked["book"] = Nothing \/ h.progress["book"] = g.progress["book"] + 1
           /\ \/ Idle(h)
              \/ /\ h.flags = g.flags /\ h.tracked = g.tracked
                 /\ h.progress["book"] = g.progress["book"] + 1
                 /\ h.progress["book"] < 0
<1> DEFINE n == g.progress["book"] + 1
           on == [g EXCEPT !.progress["book"] = n]
<1>1. g \in GameType /\ g.progress["book"] \in Int /\ "book" \in Tracks
  BY DEF Sound, GameType, Tracks
<1>2. n \in Int
  BY <1>1
<1>3. IF book \in g.hexed THEN h = Completed(Helpless(Untracked(g, "book")))
      ELSE IF on.progress["book"] < 0 THEN h = on
      ELSE h \in {Completed(on), Completed(UsedUp(on, book))}
  BY <1>1 DEF LearnBook, GameType
<1> HIDE DEF n
<1>4. /\ Sound(on) /\ SameObjects(g, on) /\ SameSpot(g, on) /\ SameMoment(g, on)
      /\ on.tracked = g.tracked /\ on.progress = [g.progress EXCEPT !["book"] = n]
  BY <1>1, <1>2, ProgressIs
<1> HIDE DEF on
<1>5. /\ on.progress["book"] = n
      /\ \A r \in Tracks \ {"book"} : on.progress[r] = g.progress[r]
  BY <1>1, <1>4 DEF GameType
<1>6. LeavesAlone(g, on, {book})
  BY <1>4, SameIsAlone
<1>7. CASE book \in g.hexed
  <2> DEFINE u == Untracked(g, "book")
             v == Helpless(u)
  <2>1. h = Completed(v)
    BY <1>3, <1>7
  <2>2. /\ Sound(u) /\ SameObjects(g, u) /\ SameSpot(g, u) /\ SameMoment(g, u)
        /\ u.tracked = [g.tracked EXCEPT !["book"] = Nothing]
        /\ u.progress = [g.progress EXCEPT !["book"] = 0]
    BY <1>1, UntrackedIs
  <2> HIDE DEF u
  <2>3. Sound(v) /\ SameThings(u, v) /\ SameCommand(u, v)
    BY <2>2, HelplessIs DEF FlagsAre
  <2> HIDE DEF v
  <2>4. Sound(h) /\ SameThings(v, h) /\ FlagsAre(v, h, FALSE, TRUE, Nothing)
    BY <2>1, <2>3, CompletedIs
  <2>5. LeavesAlone(g, u, {book}) /\ LeavesAlone(u, v, {book}) /\ LeavesAlone(v, h, {book})
    BY <2>2, <2>3, <2>4, SameIsAlone
  <2>6. LeavesAlone(g, h, {book})
    BY <2>5, AloneTwice
  <2>7. /\ SameCommand(g, h) /\ Idle(h) /\ h.at = g.at /\ h.site = g.site /\ h.door = g.door
    BY <2>2, <2>3, <2>4 DEF SameMoment, SameSpot, FlagsAre, SameThings, SameCommand, Idle
  <2>8. h.tracked = u.tracked /\ h.progress = u.progress
    BY <2>3, <2>4 DEF SameThings
  <2>9. /\ h.tracked["book"] = Nothing
        /\ \A r \in Tracks : h.tracked[r] \in {Nothing, g.tracked[r]}
        /\ \A r \in Tracks \ {"book"} : h.progress[r] = g.progress[r]
    BY <1>1, <2>2, <2>8 DEF GameType
  <2>10. QED
    BY <2>4, <2>6, <2>7, <2>9 DEF TurnOf
<1>8. CASE book \notin g.hexed /\ n < 0
  <2>1. h = on
    BY <1>3, <1>5, <1>8
  <2>2. TurnOf(g, h, "book", {book}) /\ h.door = g.door /\ h.flags = g.flags
    BY <1>4, <1>5, <1>6, <2>1 DEF TurnOf, SameSpot, SameMoment, SameCommand
  <2>3. h.tracked = g.tracked /\ h.progress["book"] = n
    BY <1>4, <1>5, <2>1
  <2>4. QED
    BY <1>8, <2>2, <2>3 DEF n
<1>9. CASE book \notin g.hexed /\ ~(n < 0)
  <2>1. PICK m \in {on, UsedUp(on, book)} : h = Completed(m)
    BY <1>3, <1>5, <1>9
  <2>2. /\ Sound(m) /\ LeavesAlone(on, m, {book}) /\ SameSpot(on, m) /\ SameMoment(on, m)
        /\ LosesTraces(on, m, {book})
    <3>1. CASE m = on
      BY <1>4, <3>1 DEF LeavesAlone, SameSpot, SameMoment, LosesTraces
    <3>2. CASE m = UsedUp(on, book)
      BY <1>4, <3>2, UsedUpIs
    <3>3. QED
      BY <2>1, <3>1, <3>2
  <2>3. Sound(h) /\ SameThings(m, h) /\ FlagsAre(m, h, FALSE, TRUE, Nothing)
    BY <2>1, <2>2, CompletedIs
  <2>4. LeavesAlone(m, h, {book})
    BY <2>3, SameIsAlone
  <2>5. LeavesAlone(g, h, {book})
    BY <1>6, <2>2, <2>4, AloneTwice
  <2>6. /\ SameCommand(g, h) /\ Idle(h) /\ h.at = g.at /\ h.site = g.site /\ h.door = g.door
    BY <1>4, <2>2, <2>3 DEF SameMoment, SameSpot, FlagsAre, SameThings, SameCommand, Idle
  <2>7. /\ h.progress["book"] = n
        /\ \A r \in Tracks : h.tracked[r] \in {Nothing, g.tracked[r]}
        /\ \A r \in Tracks \ {"book"} : h.progress[r] = g.progress[r]
    BY <1>4, <1>5, <2>2, <2>3 DEF LosesTraces, SameThings
  <2>8. QED
    BY <2>3, <2>5, <2>6, <2>7 DEF TurnOf, n
<1>10. QED
  BY <1>7, <1>8, <1>9

(* Locks that are turned or broken.                                        *)
LEMMA LocksAreSound ==
    ASSUME NEW g, Sound(g), NEW h \in GameType,
           h.place = g.place, h.quan = g.quan, h.oeaten = g.oeaten,
           h.tracked = g.tracked, SameMoment(g, h),
           h.olocked \cap h.obroken = {}, g.tracked["lock"] \notin h.obroken
    PROVE  Sound(h)
  BY DEF Sound, SameMoment

(* What comes of turning a lock.                                           *)
LEMMA TurnedIs ==
    ASSUME NEW g, Sound(g), NEW box, box = g.tracked["lock"],
           box # ADoor => box \in Goods, NEW h \in Turned(g)
    PROVE  /\ Sound(h) /\ LeavesAlone(g, h, {box}) /\ SameMoment(g, h)
           /\ h.at = g.at /\ h.site = g.site
           /\ box # ADoor => h.door = g.door
           /\ LosesTraces(g, h, {box})
<1>1. g \in GameType /\ box \notin g.obroken
  BY DEF Sound
<1>2. CASE box = ADoor
  <2>1. PICK state \in Doors : h = [g EXCEPT !.door = state]
    BY <1>1, <1>2 DEF Turned, Doors, GameType
  <2>2. /\ Sound(h) /\ SameObjects(g, h) /\ SameMoment(g, h)
        /\ h.tracked = g.tracked /\ h.progress = g.progress
        /\ h.at = g.at /\ h.site = g.site
    BY <2>1, DoorIs
  <2>3. LeavesAlone(g, h, {box})
    BY <2>2, SameIsAlone
  <2>4. QED
    BY <1>2, <2>2, <2>3 DEF LosesTraces
<1>3. CASE box # ADoor /\ h = Freed(g, box)
  BY <1>3, FreedIs DEF SameSpot
<1>4. CASE box # ADoor /\ h # Freed(g, box)
  <2> DEFINE locks == IF box \in g.olocked THEN g.olocked \ {box} ELSE g.olocked \cup {box}
  <2>1. h = [g EXCEPT !.olocked = locks]
    BY <1>1, <1>4 DEF Turned, GameType
  <2>2. /\ locks \subseteq Goods /\ locks \cap g.obroken = {}
        /\ \A o \in Goods \ {box} : o \in locks <=> o \in g.olocked
    BY <1>1, <1>4 DEF Sound, GameType
  <2> HIDE DEF locks
  <2>3. h \in GameType
    BY <1>1, <2>1, <2>2 DEF GameType
  <2>4. /\ h.place = g.place /\ h.quan = g.quan /\ h.oeaten = g.oeaten
        /\ h.tracked = g.tracked /\ h.progress = g.progress
        /\ h.olocked = locks /\ h.obroken = g.obroken
        /\ SameMoment(g, h) /\ h.at = g.at /\ h.site = g.site /\ h.door = g.door
    BY <1>1, <2>1 DEF GameType, SameMoment
  <2>5. h.olocked \cap h.obroken = {} /\ g.tracked["lock"] \notin h.obroken
    BY <1>1, <2>2, <2>4
  <2>6. Sound(h)
    BY <2>3, <2>4, <2>5, LocksAreSound
  <2>7. LeavesAlone(g, h, {box}) /\ LosesTraces(g, h, {box})
    BY <2>2, <2>4 DEF LeavesAlone, LosesTraces
  <2>8. QED
    BY <2>4, <2>6, <2>7
<1>5. QED
  BY <1>2, <1>3, <1>4

(* A lock is given up, after t was done to it.                             *)
LEMMA GivenUpIs ==
    ASSUME NEW g, NEW t, Sound(t), NEW X, LeavesAlone(g, t, X), SameCommand(g, t),
           t.at = g.at, t.site = g.site, LosesTraces(g, t, Goods)
    PROVE  LET h == GiveUpLock(t)
           IN  /\ TurnOf(g, h, "lock", X) /\ h.door = t.door /\ Idle(h)
               /\ h.tracked["lock"] = Nothing /\ h.progress["lock"] = 0
<1> DEFINE h == GiveUpLock(t)
<1>1. "lock" \in Tracks /\ t \in GameType
  BY DEF Tracks, Sound
<1>2. h = Completed(Untracked(t, "lock"))
  BY DEF GiveUpLock
<1> HIDE DEF h
<1>3. /\ Sound(h) /\ SameObjects(t, h) /\ SameSpot(t, h) /\ SameCommand(t, h) /\ Idle(h)
      /\ h.tracked = [t.tracked EXCEPT !["lock"] = Nothing]
      /\ h.progress = [t.progress EXCEPT !["lock"] = 0]
  BY <1>1, <1>2, EndedIs
<1>4. LeavesAlone(t, h, X)
  BY <1>3, SameIsAlone
<1>5. LeavesAlone(g, h, X)
  BY <1>4, AloneTwice
<1>6. /\ h.tracked["lock"] = Nothing /\ h.progress["lock"] = 0
      /\ \A r \in Tracks : h.tracked[r] \in {Nothing, g.tracked[r]}
      /\ \A r \in Tracks \ {"lock"} : h.progress[r] = g.progress[r]
  BY <1>1, <1>3 DEF GameType, LosesTraces
<1>7. SameCommand(g, h) /\ h.at = g.at /\ h.site = g.site /\ h.door = t.door
  BY <1>3 DEF SameSpot, SameCommand
<1>8. QED
  BY <1>3, <1>5, <1>6, <1>7 DEF TurnOf, h

(* A turn at a lock that does not succeed.                                 *)
LEMMA TryIs ==
    ASSUME NEW g, Sound(g), NEW X
    PROVE  LET h == [g EXCEPT !.progress["lock"] = @ + 1]
           IN  /\ TurnOf(g, h, "lock", X) /\ h.door = g.door
               /\ h.flags = g.flags /\ h.tracked = g.tracked
               /\ h.progress["lock"] = g.progress["lock"] + 1
<1> DEFINE n == g.progress["lock"] + 1
           h == [g EXCEPT !.progress["lock"] = @ + 1]
<1>1. g \in GameType /\ g.progress["lock"] \in Int /\ "lock" \in Tracks
  BY DEF Sound, GameType, Tracks
<1>2. n \in Int
  BY <1>1
<1>3. h = [g EXCEPT !.progress["lock"] = n]
  BY <1>1 DEF GameType
<1> HIDE DEF n, h
<1>4. /\ Sound(h) /\ SameObjects(g, h) /\ SameSpot(g, h) /\ SameMoment(g, h)
      /\ h.tracked = g.tracked /\ h.progress = [g.progress EXCEPT !["lock"] = n]
  BY <1>1, <1>2, <1>3, ProgressIs
<1>5. LeavesAlone(g, h, X)
  BY <1>4, SameIsAlone
<1>6. /\ h.progress["lock"] = n
      /\ \A r \in Tracks \ {"lock"} : h.progress[r] = g.progress[r]
  BY <1>1, <1>4 DEF GameType
<1>7. TurnOf(g, h, "lock", X) /\ h.door = g.door /\ h.flags = g.flags
  BY <1>4, <1>5, <1>6 DEF TurnOf, SameSpot, SameMoment, SameCommand
<1>8. QED
  BY <1>4, <1>6, <1>7 DEF n, h

(* So does the game itself.                                                *)
LEMMA SelfIs ==
    ASSUME NEW g, NEW X
    PROVE  /\ LeavesAlone(g, g, X) /\ SameSpot(g, g) /\ SameMoment(g, g) /\ SameCommand(g, g)
           /\ LosesTraces(g, g, X)
  BY DEF LeavesAlone, SameSpot, SameMoment, SameCommand, LosesTraces

(* picklock.                                                               *)
LEMMA PickIs ==
    ASSUME NEW g, Sound(g), NEW box, box = g.tracked["lock"], NEW h \in PickOn(g)
    PROVE  /\ TurnOf(g, h, "lock", {box}) /\ (box # ADoor => h.door = g.door)
           /\ \/ Idle(h) /\ h.tracked["lock"] = Nothing /\ h.progress["lock"] = 0
              \/ /\ h.flags = g.flags /\ h.tracked = g.tracked
                 /\ h.progress["lock"] = g.progress["lock"] + 1
                 /\ g.progress["lock"] < MaxTries
<1>1. g \in GameType /\ box \in Targets /\ g.progress["lock"] \in Int
  BY DEF Sound, GameType, Tracks
<1>2. ASSUME NEW t, h = GiveUpLock(t), Sound(t), LeavesAlone(g, t, {box}), SameCommand(g, t),
             t.at = g.at, t.site = g.site, LosesTraces(g, t, Goods),
             box # ADoor => t.door = g.door
      PROVE  /\ TurnOf(g, h, "lock", {box}) /\ (box # ADoor => h.door = g.door)
             /\ Idle(h) /\ h.tracked["lock"] = Nothing /\ h.progress["lock"] = 0
  BY <1>2, GivenUpIs
<1>3. CASE \/ (box # ADoor /\ ~WithYou(g, box))
           \/ (box = ADoor /\ g.door \notin {"locked", "closed"})
           \/ ~HasKey(g) \/ g.progress["lock"] >= MaxTries
  <2>1. h = GiveUpLock(g)
    BY <1>3 DEF PickOn
  <2>2. /\ LeavesAlone(g, g, {box}) /\ SameSpot(g, g) /\ SameCommand(g, g)
        /\ LosesTraces(g, g, Goods)
    BY SelfIs
  <2>3. QED
    BY <1>2, <2>1, <2>2
<1>4. CASE ~(\/ (box # ADoor /\ ~WithYou(g, box))
             \/ (box = ADoor /\ g.door \notin {"locked", "closed"})
             \/ ~HasKey(g) \/ g.progress["lock"] >= MaxTries)
  <2>1. h \in {[g EXCEPT !.progress["lock"] = @ + 1]} \cup {GiveUpLock(t) : t \in Turned(g)}
    BY <1>4 DEF PickOn
  <2>2. CASE h = [g EXCEPT !.progress["lock"] = @ + 1]
    <3>1. /\ TurnOf(g, h, "lock", {box}) /\ h.door = g.door
          /\ h.flags = g.flags /\ h.tracked = g.tracked
          /\ h.progress["lock"] = g.progress["lock"] + 1
      BY <2>2, TryIs
    <3>2. g.progress["lock"] < MaxTries
      BY <1>1, <1>4, OccupationsAssumption
    <3>3. QED
      BY <3>1, <3>2
  <2>3. CASE h \in {GiveUpLock(t) : t \in Turned(g)}
    <3>1. PICK t \in Turned(g) : h = GiveUpLock(t)
      BY <2>3
    <3>2. box # ADoor => box \in Goods
      BY <1>4 DEF WithYou
    <3>3. /\ Sound(t) /\ LeavesAlone(g, t, {box}) /\ SameMoment(g, t)
          /\ t.at = g.at /\ t.site = g.site
          /\ (box # ADoor => t.door = g.door) /\ LosesTraces(g, t, {box})
      BY <3>2, TurnedIs
    <3>4. SameCommand(g, t)
      BY <3>3 DEF SameMoment, SameCommand
    <3>5. LosesTraces(g, t, Goods)
      <4>1. CASE box = ADoor
        <5>1. t.tracked = g.tracked /\ t.progress = g.progress
          <6>1. PICK state \in Doors : t = [g EXCEPT !.door = state]
            BY <1>1, <4>1 DEF Turned, Doors, GameType
          <6>2. QED
            BY <6>1, DoorIs
        <5>2. QED
          BY <5>1 DEF LosesTraces
      <4>2. CASE box # ADoor
        BY <3>2, <3>3, <4>2 DEF LosesTraces
      <4>3. QED
        BY <4>1, <4>2
    <3>6. QED
      BY <1>2, <3>1, <3>3, <3>4, <3>5
  <2>4. QED
    BY <2>1, <2>2, <2>3
<1>5. QED
  BY <1>3, <1>4

(* A lock that is forced open.                                             *)
Opened(g, box) == [g EXCEPT !.olocked = @ \ {box}, !.obroken = @ \cup {box}]

(* forcelock opens the box for good, and is done with it.                  *)
LEMMA ForcedIs ==
    ASSUME NEW g, Sound(g), NEW box \in Goods, box = g.tracked["lock"], NEW X, box \in X,
           NEW h, h = GiveUpLock(Opened(g, box))
    PROVE  /\ TurnOf(g, h, "lock", X) /\ h.door = g.door /\ Idle(h)
           /\ h.tracked["lock"] = Nothing /\ h.progress["lock"] = 0
<1> DEFINE u == Untracked(g, "lock")
           v == [u EXCEPT !.olocked = @ \ {box}, !.obroken = @ \cup {box}]
<1>1. g \in GameType /\ "lock" \in Tracks
  BY DEF Sound, Tracks
<1>2. h = Completed(Untracked(Opened(g, box), "lock"))
  BY DEF GiveUpLock
<1>3. Untracked(Opened(g, box), "lock") = v
  BY <1>1 DEF Untracked, GameType, Opened
<1>4. h = Completed(v)
  BY <1>2, <1>3
<1>5. /\ Sound(u) /\ SameObjects(g, u) /\ SameSpot(g, u) /\ SameMoment(g, u)
      /\ u.tracked = [g.tracked EXCEPT !["lock"] = Nothing]
      /\ u.progress = [g.progress EXCEPT !["lock"] = 0]
  BY <1>1, UntrackedIs
<1> HIDE DEF u
<1>6. u \in GameType
  BY <1>5 DEF Sound
<1>7. v \in GameType
  BY <1>6 DEF GameType
<1>8. /\ v.place = u.place /\ v.quan = u.quan /\ v.oeaten = u.oeaten
      /\ v.tracked = u.tracked /\ v.progress = u.progress
      /\ v.olocked = u.olocked \ {box} /\ v.obroken = u.obroken \cup {box}
      /\ SameMoment(u, v) /\ SameSpot(u, v)
  BY <1>6 DEF GameType, SameMoment, SameSpot
<1> HIDE DEF v
<1>9. /\ h.tracked = v.tracked /\ h.progress = v.progress
      /\ Sound(v)
  <2>1. v.olocked \cap v.obroken = {}
    BY <1>5, <1>8 DEF Sound
  <2>2. u.tracked["lock"] = Nothing
    BY <1>1, <1>5 DEF GameType
  <2>3. u.tracked["lock"] \notin v.obroken
    BY <1>7, <2>2, NoObject DEF GameType
  <2>4. Sound(v)
    BY <1>5, <1>7, <1>8, <2>1, <2>3, LocksAreSound
  <2>5. QED
    BY <1>4, <2>4, CompletedIs DEF SameThings
<1>10. Sound(h) /\ SameThings(v, h) /\ FlagsAre(v, h, FALSE, TRUE, Nothing)
  BY <1>4, <1>9, CompletedIs
<1>11. LeavesAlone(g, u, X) /\ LeavesAlone(v, h, X)
  BY <1>5, <1>10, SameIsAlone
<1>12. LeavesAlone(u, v, X)
  BY <1>8 DEF LeavesAlone
<1>13. LeavesAlone(g, h, X)
  BY <1>11, <1>12, AloneTwice
<1>14. /\ SameCommand(g, h) /\ Idle(h) /\ h.at = g.at /\ h.site = g.site /\ h.door = g.door
  BY <1>5, <1>8, <1>10 DEF SameMoment, SameSpot, FlagsAre, SameThings, SameCommand, Idle
<1>15. /\ h.tracked["lock"] = Nothing /\ h.progress["lock"] = 0
       /\ \A r \in Tracks : h.tracked[r] \in {Nothing, g.tracked[r]}
       /\ \A r \in Tracks \ {"lock"} : h.progress[r] = g.progress[r]
  BY <1>1, <1>5, <1>8, <1>9 DEF GameType
<1>16. QED
  BY <1>10, <1>13, <1>14, <1>15 DEF TurnOf

(* forcelock.                                                              *)
LEMMA ForceIs ==
    ASSUME NEW g, Sound(g), NEW box, box = g.tracked["lock"], NEW h \in ForceOn(g)
    PROVE  /\ TurnOf(g, h, "lock", {box} \cup Blades) /\ h.door = g.door
           /\ \/ Idle(h) /\ h.tracked["lock"] = Nothing /\ h.progress["lock"] = 0
              \/ /\ h.flags = g.flags /\ h.tracked = g.tracked
                 /\ h.progress["lock"] = g.progress["lock"] + 1
                 /\ g.progress["lock"] < MaxTries
<1> DEFINE X == {box} \cup Blades
<1>1. g \in GameType /\ g.progress["lock"] \in Int
  BY DEF Sound, GameType, Tracks
<1>2. ASSUME NEW t, h = GiveUpLock(t), Sound(t), LeavesAlone(g, t, X), SameSpot(g, t),
             SameMoment(g, t), LosesTraces(g, t, Goods)
      PROVE  /\ TurnOf(g, h, "lock", X) /\ h.door = g.door
             /\ Idle(h) /\ h.tracked["lock"] = Nothing /\ h.progress["lock"] = 0
  <2>1. SameCommand(g, t) /\ t.at = g.at /\ t.site = g.site /\ t.door = g.door
    BY <1>2 DEF SameSpot, SameMoment, SameCommand
  <2> HIDE DEF X
  <2>2. QED
    BY <1>2, <2>1, GivenUpIs
<1>3. CASE ~WithYou(g, box) \/ ~CanForce(g) \/ g.progress["lock"] >= MaxTries
  <2>1. h = GiveUpLock(g)
    BY <1>3 DEF ForceOn
  <2>2. LeavesAlone(g, g, X) /\ SameSpot(g, g) /\ SameMoment(g, g) /\ LosesTraces(g, g, Goods)
    BY SelfIs
  <2>3. QED
    BY <1>2, <2>1, <2>2
<1>4. CASE ~(~WithYou(g, box) \/ ~CanForce(g) \/ g.progress["lock"] >= MaxTries)
  <2>1. box \in Goods
    BY <1>4 DEF WithYou
  <2>2. \/ h = [g EXCEPT !.progress["lock"] = @ + 1]
        \/ h = GiveUpLock([g EXCEPT !.olocked = @ \ {box}, !.obroken = @ \cup {box}])
        \/ h = GiveUpLock(Freed(g, box))
        \/ \E b \in Blades : h = GiveUpLock(UsedUp(g, b))
    BY <1>4 DEF ForceOn
  <2>3. CASE h = [g EXCEPT !.progress["lock"] = @ + 1]
    <3>1. /\ TurnOf(g, h, "lock", X) /\ h.door = g.door
          /\ h.flags = g.flags /\ h.tracked = g.tracked
          /\ h.progress["lock"] = g.progress["lock"] + 1
      BY <2>3, TryIs
    <3>2. g.progress["lock"] < MaxTries
      BY <1>1, <1>4, OccupationsAssumption
    <3>3. QED
      BY <3>1, <3>2
  <2>4. CASE h = GiveUpLock([g EXCEPT !.olocked = @ \ {box}, !.obroken = @ \cup {box}])
    <3>1. h = GiveUpLock(Opened(g, box)) /\ box \in X
      BY <2>4 DEF Opened
    <3> HIDE DEF X
    <3>2. /\ TurnOf(g, h, "lock", X) /\ h.door = g.door /\ Idle(h)
          /\ h.tracked["lock"] = Nothing /\ h.progress["lock"] = 0
      BY <2>1, <3>1, ForcedIs
    <3>3. QED
      BY <3>2 DEF X
  <2>5. CASE h = GiveUpLock(Freed(g, box))
    <3> DEFINE t == Freed(g, box)
    <3>1. /\ Sound(t) /\ LeavesAlone(g, t, {box}) /\ SameSpot(g, t) /\ SameMoment(g, t)
          /\ LosesTraces(g, t, {box})
      BY <2>1, FreedIs
    <3>2. LeavesAlone(g, t, X) /\ LosesTraces(g, t, Goods)
      BY <2>1, <3>1 DEF LeavesAlone, LosesTraces
    <3>3. h = GiveUpLock(t)
      BY <2>5
    <3> HIDE DEF t, X
    <3>4. QED
      BY <1>2, <3>1, <3>2, <3>3 DEF X
  <2>6. CASE \E b \in Blades : h = GiveUpLock(UsedUp(g, b))
    <3>1. PICK b \in Blades : h = GiveUpLock(UsedUp(g, b))
      BY <2>6
    <3>2. b \in Goods
      BY NoObject
    <3> DEFINE t == UsedUp(g, b)
    <3>3. /\ Sound(t) /\ LeavesAlone(g, t, {b}) /\ SameSpot(g, t) /\ SameMoment(g, t)
          /\ LosesTraces(g, t, {b})
      BY <3>2, UsedUpIs
    <3>4. LeavesAlone(g, t, X) /\ LosesTraces(g, t, Goods)
      BY <3>2, <3>3 DEF LeavesAlone, LosesTraces
    <3>5. h = GiveUpLock(t)
      BY <3>1
    <3> HIDE DEF t, X
    <3>6. QED
      BY <1>2, <3>3, <3>4, <3>5 DEF X
  <2>7. QED
    BY <2>2, <2>3, <2>4, <2>5, <2>6
<1>5. QED
  BY <1>3, <1>4

(* The trap is out of hand, or set.                                        *)
LEMMA UntrapIs ==
    ASSUME NEW g, Sound(g)
    PROVE  LET h == Completed([g EXCEPT !.tracked["trap"] = Nothing])
           IN  /\ Sound(h) /\ SameObjects(g, h) /\ SameSpot(g, h) /\ SameCommand(g, h)
               /\ Idle(h) /\ h.tracked["trap"] = Nothing /\ h.progress = g.progress
               /\ \A r \in Tracks : h.tracked[r] \in {Nothing, g.tracked[r]}
<1> DEFINE u == [g EXCEPT !.tracked["trap"] = Nothing]
           h == Completed(u)
<1>1. "trap" \in Tracks /\ Nothing \in Targets /\ Nothing \notin Goods
      /\ Nothing \notin g.obroken /\ g \in GameType
  BY NoObject DEF Tracks, Targets, Sound, GameType
<1>2. /\ Sound(u) /\ SameObjects(g, u) /\ SameSpot(g, u) /\ SameMoment(g, u)
      /\ u.progress = g.progress /\ u.tracked = [g.tracked EXCEPT !["trap"] = Nothing]
  BY <1>1, TrackIs
<1> HIDE DEF u
<1>3. Sound(h) /\ SameThings(u, h) /\ FlagsAre(u, h, FALSE, TRUE, Nothing)
  BY <1>2, CompletedIs
<1> HIDE DEF h
<1>4. /\ SameObjects(g, h) /\ SameSpot(g, h) /\ h.progress = g.progress
      /\ h.tracked = [g.tracked EXCEPT !["trap"] = Nothing]
  BY <1>2, <1>3 DEF SameObjects, SameSpot, SameThings
<1>5. SameCommand(g, h) /\ Idle(h)
  BY <1>2, <1>3 DEF SameMoment, SameCommand, FlagsAre, Idle
<1>6. /\ h.tracked["trap"] = Nothing
      /\ \A r \in Tracks : h.tracked[r] \in {Nothing, g.tracked[r]}
  BY <1>1, <1>4 DEF GameType
<1>7. QED
  BY <1>3, <1>4, <1>5, <1>6 DEF h, u

(* set_trap.                                                               *)
LEMMA SetIs ==
    ASSUME NEW g, Sound(g), NEW mine, mine = g.tracked["trap"]
    PROVE  LET h == SetOn(g)
           IN  /\ TurnOf(g, h, "trap", {mine}) /\ h.door = g.door
               /\ \/ Idle(h) /\ h.tracked["trap"] = Nothing
                  \/ /\ h.flags = g.flags /\ h.tracked = g.tracked
                     /\ h.progress["trap"] = g.progress["trap"] - 1
                     /\ h.progress["trap"] > 0 /\ g.at = g.site
<1> DEFINE h == SetOn(g)
           n == g.progress["trap"] - 1
           one == [g EXCEPT !.progress["trap"] = n]
<1>1. g \in GameType /\ g.progress["trap"] \in Int /\ "trap" \in Tracks
  BY DEF Sound, GameType, Tracks
<1>2. n \in Int /\ one = [g EXCEPT !.progress["trap"] = @ - 1]
  BY <1>1 DEF GameType
<1>3. CASE ~InPack(g, mine) \/ g.at # g.site
  <2>1. h = Completed([g EXCEPT !.tracked["trap"] = Nothing])
    BY <1>3 DEF SetOn
  <2> HIDE DEF h
  <2>2. /\ Sound(h) /\ SameObjects(g, h) /\ SameSpot(g, h) /\ SameCommand(g, h)
        /\ Idle(h) /\ h.tracked["trap"] = Nothing /\ h.progress = g.progress
        /\ \A r \in Tracks : h.tracked[r] \in {Nothing, g.tracked[r]}
    BY <2>1, UntrapIs
  <2>3. LeavesAlone(g, h, {mine})
    BY <2>2, SameIsAlone
  <2>4. TurnOf(g, h, "trap", {mine}) /\ h.door = g.door
    BY <2>2, <2>3 DEF TurnOf, SameSpot
  <2>5. QED
    BY <2>2, <2>4 DEF h
<1>4. CASE InPack(g, mine) /\ g.at = g.site
  <2>1. one.progress["trap"] = n
    BY <1>1 DEF GameType
  <2>2. h = IF n > 0 THEN one ELSE Completed([UsedUp(one, mine) EXCEPT !.tracked["trap"] = Nothing])
    BY <1>2, <1>4, <2>1 DEF SetOn
  <2>3. mine \in Goods
    BY <1>4 DEF InPack
  <2> HIDE DEF h, n
  <2>4. /\ Sound(one) /\ SameObjects(g, one) /\ SameSpot(g, one) /\ SameMoment(g, one)
        /\ one.tracked = g.tracked /\ one.progress = [g.progress EXCEPT !["trap"] = n]
    BY <1>1, <1>2, ProgressIs
  <2> HIDE DEF one
  <2>5. LeavesAlone(g, one, {mine})
    BY <2>4, SameIsAlone
  <2>6. \A r \in Tracks \ {"trap"} : one.progress[r] = g.progress[r]
    BY <1>1, <2>4 DEF GameType
  <2>7. CASE n > 0
    <3>1. TurnOf(g, one, "trap", {mine}) /\ one.door = g.door /\ one.flags = g.flags
      BY <2>4, <2>5, <2>6 DEF TurnOf, SameSpot, SameMoment, SameCommand
    <3>2. h = one
      BY <2>2, <2>7
    <3>3. QED
      BY <1>4, <2>1, <2>4, <2>7, <3>1, <3>2 DEF h, n
  <2>8. CASE ~(n > 0)
    <3> DEFINE u == UsedUp(one, mine)
    <3>1. h = Completed([u EXCEPT !.tracked["trap"] = Nothing])
      BY <2>2, <2>8
    <3>2. /\ Sound(u) /\ LeavesAlone(one, u, {mine}) /\ SameSpot(one, u)
          /\ SameMoment(one, u) /\ LosesTraces(one, u, {mine})
      BY <2>3, <2>4, UsedUpIs
    <3> HIDE DEF u
    <3>3. /\ Sound(h) /\ SameObjects(u, h) /\ SameSpot(u, h) /\ SameCommand(u, h)
          /\ Idle(h) /\ h.tracked["trap"] = Nothing /\ h.progress = u.progress
          /\ \A r \in Tracks : h.tracked[r] \in {Nothing, u.tracked[r]}
      BY <3>1, <3>2, UntrapIs
    <3>4. LeavesAlone(u, h, {mine})
      BY <3>3, SameIsAlone
    <3>5. LeavesAlone(g, h, {mine})
      BY <2>5, <3>2, <3>4, AloneTwice
    <3>6. /\ SameCommand(g, h) /\ h.at = g.at /\ h.site = g.site /\ h.door = g.door
      BY <2>4, <3>2, <3>3 DEF SameMoment, SameSpot, SameCommand
    <3>7. /\ \A r \in Tracks : h.tracked[r] \in {Nothing, g.tracked[r]}
          /\ \A r \in Tracks \ {"trap"} : h.progress[r] = g.progress[r]
      BY <2>4, <2>6, <3>2, <3>3 DEF LosesTraces
    <3>8. QED
      BY <3>3, <3>5, <3>6, <3>7 DEF TurnOf, h
  <2>9. QED
    BY <2>7, <2>8
<1>5. QED
  BY <1>3, <1>4

-----------------------------------------------------------------------------
(* What a command makes of a game.                                         *)

\* How far the work at a tin or a lock can have got
Tallied(g) ==
    /\ g.tracked["tin"] # Nothing =>
          g.progress["tin"] \in 1..MaxTries \/ -g.progress["tin"] \in 1..(MaxTries + 1)
    /\ g.progress["lock"] \in 0..MaxTries

\* A meal under way is one piece of food that has been bitten into
MealIsOne(g) ==
    g.flags.occupation = "food" /\ g.tracked["food"] # Nothing =>
        g.quan[g.tracked["food"]] = 1 /\ g.oeaten[g.tracked["food"]] \in 1..MealSize

(* A command that is not complete, unless its object is lost, was given    *)
(* about that object, and can go on.                                       *)
Working(g) ==
    LET f == g.flags
    IN  Busy(g) =>
        /\ f.occupation \in Tracks
        /\ f.occupation = "food" /\ g.tracked["food"] # Nothing => f.verb = "eat"
        /\ f.occupation = "tin" /\ g.tracked["tin"] # Nothing =>
              /\ f.verb = "eat" /\ f.arg = g.tracked["tin"] /\ f.arg \in Tins
              /\ g.tracked["food"] = Nothing
        /\ f.occupation = "book" /\ g.tracked["book"] # Nothing =>
              f.verb = "read" /\ f.arg = g.tracked["book"] /\ g.progress["book"] < 0
        /\ f.occupation = "lock" /\ g.tracked["lock"] # Nothing =>
              /\ g.progress["lock"] # 0
              /\ f.verb = "apply" => /\ f.arg \notin LandMines
                                     /\ f.arg = ADoor <=> g.tracked["lock"] = ADoor
              /\ f.verb \in {"apply", "force"}
        /\ f.occupation = "trap" /\ g.tracked["trap"] # Nothing =>
              /\ f.verb = "apply" /\ f.arg = g.tracked["trap"] /\ f.arg \in LandMines
              /\ g.at = g.site /\ g.progress["trap"] > 0

\* How far an occupation has got after its first turn
FirstTurn(s) ==
    CASE s = "lock" -> {1}
      [] s = "tin" -> {n - 1 : n \in TinTurns \cup {-1}}
      [] s = "book" -> {1 - BookTurns}
      [] s = "trap" -> {MineTurns - 1}
(* What h tracks and g did not has taken its first turn (StartsAnew).      *)
Anew(g, h) ==
    \A s \in Tracks \ {"food"} :
        h.tracked[s] \notin {Nothing, g.tracked[s]} => h.progress[s] \in FirstTurn(s)

(* What a command makes of a game.                                         *)
Result(g, h) ==
    Sound(h) /\ Tallied(h) /\ MealIsOne(h) /\ Working(h) /\ Anew(g, h)

\* As a command finds it
Ready(g) == Sound(g) /\ Tallied(g) /\ Idle(g) /\ ~g.flags.interrupted

\* Nothing is tracked in place of what was
Keeps(g, h) ==
    /\ \A s \in Tracks \ {"food"} : h.tracked[s] \in {Nothing, g.tracked[s]}
    /\ h.progress["tin"] = g.progress["tin"] \/ h.tracked["tin"] = Nothing
    /\ h.progress["lock"] \in {0, g.progress["lock"]}

(* A command may leave a game that tracks less, and do no more.            *)
LEMMA QuietResult ==
    ASSUME NEW g, Tallied(g), NEW h, Sound(h), Idle(h), Keeps(g, h)
    PROVE  Result(g, h)
<1>1. Tallied(h)
  <2>1. 0 \in 0..MaxTries
    BY OccupationsAssumption
  <2>2. QED
    BY <2>1 DEF Tallied, Keeps, Tracks
<1>2. MealIsOne(h) /\ Working(h)
  BY DEF MealIsOne, Working, Idle, Busy, Nothing
<1>3. Anew(g, h)
  BY DEF Anew, Keeps
<1>4. QED
  BY <1>1, <1>2, <1>3 DEF Result

(* Traces that are lost are not replaced.                                  *)
LEMMA LosingKeeps ==
    ASSUME NEW g, NEW h, NEW X, LosesTraces(g, h, X)
    PROVE  Keeps(g, h)
  BY DEF Keeps, LosesTraces, Tracks

(* So may one that leaves the flags as it finds them.                      *)
LEMMA SameIsQuiet ==
    ASSUME NEW g, Ready(g), NEW h, Sound(h), SameMoment(g, h), Keeps(g, h)
    PROVE  Result(g, h)
<1>1. Idle(h)
  BY DEF Ready, Idle, SameMoment
<1>2. QED
  BY <1>1, QuietResult DEF Ready

(* A command that takes no time.                                           *)
LEMMA NoTimeIs ==
    ASSUME NEW g, Sound(g)
    PROVE  Sound(ZeroTime(g)) /\ Idle(ZeroTime(g)) /\ Keeps(g, ZeroTime(g))
<1>1. /\ Sound(ZeroTime(g)) /\ SameThings(g, ZeroTime(g))
      /\ FlagsAre(g, ZeroTime(g), FALSE, TRUE, Nothing)
  BY ZeroTimeIs
<1>2. QED
  BY <1>1 DEF SameThings, FlagsAre, Idle, Keeps

(* So may one that takes no time.                                          *)
LEMMA NoTimeResult ==
    ASSUME NEW g, Ready(g)
    PROVE  Result(g, ZeroTime(g))
<1>1. Sound(ZeroTime(g)) /\ Idle(ZeroTime(g)) /\ Keeps(g, ZeroTime(g))
  BY NoTimeIs DEF Ready
<1>2. QED
  BY <1>1, QuietResult DEF Ready

-----------------------------------------------------------------------------
(* reset_occupations.                                                      *)

(* The lock that is tracked is one at the player's feet, or the door's,    *)
(* and no other lock has got anywhere.                                     *)
AtHand(g) ==
    /\ g.tracked["lock"] \in Goods => g.place[g.tracked["lock"]] = g.at
    /\ g.tracked["lock"] = Nothing => g.progress["lock"] = 0

(* reset_occupations: the objects stay, some traces go, the lock that is   *)
(* left is at hand, and where it was at hand nothing goes.                 *)
LEMMA ResetIs ==
    ASSUME NEW g, Sound(g), NEW moved \in BOOLEAN
    PROVE  LET h == ResetOccs(g, moved)
           IN  /\ Sound(h) /\ SameObjects(g, h) /\ SameSpot(g, h) /\ SameMoment(g, h)
               /\ AtHand(h) /\ Keeps(g, h)
               /\ \A s \in Tracks : \/ h.tracked[s] = Nothing
                                    \/ /\ h.tracked[s] = g.tracked[s]
                                       /\ h.progress[s] = g.progress[s]
               /\ h.tracked["food"] = g.tracked["food"]
               /\ ~moved /\ AtHand(g) => h.tracked = g.tracked /\ h.progress = g.progress
<1> DEFINE trapless == Untracked(g, "trap")
           still == IF moved THEN Untracked(trapless, "lock") ELSE g
           box == still.tracked["lock"]
           h == ResetOccs(g, moved)
<1>1. /\ "trap" \in Tracks /\ "lock" \in Tracks /\ "food" \in Tracks /\ "tin" \in Tracks
      /\ g \in GameType
  BY DEF Tracks, Sound
<1>2. h = IF box # ADoor /\ (~WithYou(g, box) \/ InPack(g, box))
          THEN Untracked(still, "lock") ELSE still
  BY DEF ResetOccs
<1>3. /\ Sound(still) /\ SameObjects(g, still) /\ SameSpot(g, still) /\ SameMoment(g, still)
      /\ still.tracked["food"] = g.tracked["food"]
      /\ \A s \in Tracks : \/ still.tracked[s] = Nothing /\ still.progress[s] = 0
                           \/ /\ still.tracked[s] = g.tracked[s]
                              /\ still.progress[s] = g.progress[s]
  <2>1. CASE ~moved
    BY <2>1 DEF SameObjects, SameSpot, SameMoment
  <2>2. CASE moved
    <3>1. /\ Sound(trapless) /\ SameObjects(g, trapless) /\ SameSpot(g, trapless)
          /\ SameMoment(g, trapless)
          /\ trapless.tracked = [g.tracked EXCEPT !["trap"] = Nothing]
          /\ trapless.progress = [g.progress EXCEPT !["trap"] = 0]
      BY <1>1, UntrackedIs
    <3> HIDE DEF trapless
    <3>2. still = Untracked(trapless, "lock")
      BY <2>2
    <3> HIDE DEF still
    <3>3. /\ Sound(still) /\ SameObjects(trapless, still) /\ SameSpot(trapless, still)
          /\ SameMoment(trapless, still)
          /\ still.tracked = [trapless.tracked EXCEPT !["lock"] = Nothing]
          /\ still.progress = [trapless.progress EXCEPT !["lock"] = 0]
      BY <1>1, <3>1, <3>2, UntrackedIs
    <3>4. SameObjects(g, still) /\ SameSpot(g, still) /\ SameMoment(g, still)
      BY <3>1, <3>3 DEF SameObjects, SameSpot, SameMoment
    <3>5. \A s \in Tracks : \/ still.tracked[s] = Nothing /\ still.progress[s] = 0
                            \/ /\ still.tracked[s] = g.tracked[s]
                               /\ still.progress[s] = g.progress[s]
      BY <1>1, <3>1, <3>3 DEF GameType
    <3>6. still.tracked["food"] = g.tracked["food"]
      BY <1>1, <3>1, <3>3 DEF GameType
    <3>7. QED
      BY <3>3, <3>4, <3>5, <3>6
  <2>3. QED
    BY <2>1, <2>2
<1>4. ~moved => still = g
  OBVIOUS
<1> HIDE DEF still
<1>5. still \in GameType /\ box \in Targets
  BY <1>1, <1>3 DEF Sound, GameType
<1>6. CASE box # ADoor /\ (~WithYou(g, box) \/ InPack(g, box))
  <2>1. h = Untracked(still, "lock")
    BY <1>2, <1>6
  <2> HIDE DEF h
  <2>2. /\ Sound(h) /\ SameObjects(still, h) /\ SameSpot(still, h) /\ SameMoment(still, h)
        /\ h.tracked = [still.tracked EXCEPT !["lock"] = Nothing]
        /\ h.progress = [still.progress EXCEPT !["lock"] = 0]
    BY <1>1, <1>3, <2>1, UntrackedIs
  <2>3. SameObjects(g, h) /\ SameSpot(g, h) /\ SameMoment(g, h)
    BY <1>3, <2>2 DEF SameObjects, SameSpot, SameMoment
  <2>4. /\ h.tracked["lock"] = Nothing /\ h.progress["lock"] = 0
        /\ \A s \in Tracks \ {"lock"} : /\ h.tracked[s] = still.tracked[s]
                                        /\ h.progress[s] = still.progress[s]
    BY <1>1, <1>5, <2>2 DEF GameType
  <2>5. AtHand(h)
    BY <2>4, NoObject DEF AtHand
  <2>6. /\ \A s \in Tracks : \/ h.tracked[s] = Nothing
                             \/ /\ h.tracked[s] = g.tracked[s]
                                /\ h.progress[s] = g.progress[s]
        /\ h.tracked["food"] = g.tracked["food"]
    BY <1>1, <1>3, <2>4
  <2>7. Keeps(g, h)
    BY <1>1, <2>4, <2>6 DEF Keeps
  <2>8. ~moved /\ AtHand(g) => h.tracked = g.tracked /\ h.progress = g.progress
    <3>1. SUFFICES ASSUME ~moved, AtHand(g)
                   PROVE  h.tracked = g.tracked /\ h.progress = g.progress
      OBVIOUS
    <3>2. still = g
      BY <1>4, <3>1
    <3>3. box = Nothing
      <4>1. SUFFICES ASSUME box \in Goods PROVE FALSE
        BY <1>5, <1>6 DEF Targets
      <4>2. g.place[box] = g.at /\ g.at \in Places
        BY <1>1, <3>1, <3>2, <4>1 DEF AtHand, GameType
      <4>3. WithYou(g, box) /\ ~InPack(g, box)
        BY <4>1, <4>2, NoObject DEF WithYou, InPack
      <4>4. QED
        BY <1>6, <3>2, <4>3
    <3>4. g.tracked["lock"] = Nothing /\ g.progress["lock"] = 0
      BY <3>1, <3>2, <3>3 DEF AtHand
    <3>5. QED
      BY <1>1, <2>2, <3>2, <3>4 DEF GameType
  <2>9. QED
    BY <2>2, <2>3, <2>5, <2>6, <2>7, <2>8 DEF h
<1>7. CASE ~(box # ADoor /\ (~WithYou(g, box) \/ InPack(g, box)))
  <2>1. h = still
    BY <1>2, <1>7
  <2> HIDE DEF h
  <2>2. AtHand(h)
    <3>1. CASE box = ADoor
      BY <2>1, <3>1, NoObject DEF AtHand
    <3>2. CASE box # ADoor
      <4>1. WithYou(g, box) /\ ~InPack(g, box)
        BY <1>7, <3>2
      <4>2. box \in Goods /\ still.place[box] = still.at
        BY <1>3, <4>1 DEF WithYou, InPack, SameObjects, SameSpot
      <4>3. QED
        BY <2>1, <4>2, NoObject DEF AtHand
    <3>3. QED
      BY <3>1, <3>2
  <2>3. Keeps(g, h)
    BY <1>1, <1>3, <2>1 DEF Keeps
  <2>4. QED
    BY <1>3, <1>4, <2>1, <2>2, <2>3 DEF h
<1>8. QED
  BY <1>6, <1>7

-----------------------------------------------------------------------------
(* The commands of one turn.                                               *)

(* dropx.                                                                  *)
LEMMA DroppedIs ==
    ASSUME NEW g, Sound(g), NEW o \in Goods, g.place[o] # "gone", NEW h \in DroppedHere(g, o)
    PROVE  Sound(h) /\ SameSpot(g, h) /\ SameMoment(g, h) /\ LosesTraces(g, h, Goods)
<1>1. PICK spot : spot = g.at
  OBVIOUS
<1> DEFINE down == [g EXCEPT !.place[o] = spot]
<1>2. g \in GameType /\ spot \in Spots \ {"gone"}
  BY <1>1, NoObject DEF Sound, GameType, Spots
<1>3. h = down \/ h = Freed(g, o) \/ \E x \in Alike(g, o, g.at) : h = Joined(down, o, x)
  BY <1>1 DEF DroppedHere
<1>4. /\ Sound(down) /\ SameSpot(g, down) /\ SameMoment(g, down) /\ LosesTraces(g, down, {})
  BY <1>2, PlacedIs
<1>5. down.place[o] # "gone"
  BY <1>2 DEF GameType
<1> HIDE DEF down
<1>6. CASE h = down
  BY <1>4, <1>6 DEF LosesTraces
<1>7. CASE h = Freed(g, o)
  <2>1. /\ Sound(h) /\ SameSpot(g, h) /\ SameMoment(g, h) /\ LosesTraces(g, h, {o})
    BY <1>7, FreedIs
  <2>2. QED
    BY <2>1 DEF LosesTraces
<1>8. CASE \E x \in Alike(g, o, g.at) : h = Joined(down, o, x)
  <2>1. PICK x \in Alike(g, o, g.at) : h = Joined(down, o, x)
    BY <1>8
  <2>2. Kin(o) \in {Meals, Tins} /\ o \in Kin(o) /\ x \in Kin(o) /\ x # o
    BY AlikeIs
  <2>3. /\ Sound(h) /\ SameSpot(down, h) /\ SameMoment(down, h) /\ LosesTraces(down, h, {x})
    BY <1>4, <1>5, <2>1, <2>2, JoinedIs
  <2>4. x \in Goods
    BY <2>2, FiniteKinds
  <2>5. SameSpot(g, h) /\ SameMoment(g, h)
    BY <1>4, <2>3 DEF SameSpot, SameMoment
  <2>6. LosesTraces(g, h, Goods)
    BY <1>4, <2>3, <2>4 DEF LosesTraces
  <2>7. QED
    BY <2>3, <2>5, <2>6
<1>9. QED
  BY <1>3, <1>6, <1>7, <1>8

(* Dropping an object: it may join a stack, or be destroyed.               *)
LEMMA DropResult ==
    ASSUME NEW g, Ready(g), NEW o \in Goods, NEW h \in DoDrop(g, o)
    PROVE  Result(g, h)
<1>1. CASE InPack(g, o)
  <2>1. g.place[o] # "gone" /\ h \in DroppedHere(g, o) /\ Sound(g)
    BY <1>1 DEF InPack, DoDrop, Ready
  <2>2. Sound(h) /\ SameMoment(g, h) /\ LosesTraces(g, h, Goods)
    BY <2>1, DroppedIs
  <2>3. QED
    BY <2>2, LosingKeeps, SameIsQuiet
<1>2. CASE ~InPack(g, o)
  <2>1. h = ZeroTime(g)
    BY <1>2 DEF DoDrop
  <2>2. QED
    BY <2>1, NoTimeResult
<1>3. QED
  BY <1>1, <1>2

(* Picking an object up: it may join a stack.                              *)
LEMMA PickUpResult ==
    ASSUME NEW g, Ready(g), NEW o \in Goods, NEW h \in DoPickUp(g, o)
    PROVE  Result(g, h)
<1> DEFINE up == [g EXCEPT !.place[o] = "inv"]
<1>1. Sound(g) /\ g \in GameType /\ "inv" \in Spots \ {"gone"}
  BY DEF Ready, Sound, Spots
<1>2. CASE g.place[o] # g.at
  <2>1. h = ZeroTime(g)
    BY <1>2 DEF DoPickUp
  <2>2. QED
    BY <2>1, NoTimeResult
<1>3. CASE g.place[o] = g.at
  <2>1. h = up \/ \E x \in Alike(up, o, "inv") : h = Joined(up, x, o)
    BY <1>3 DEF DoPickUp
  <2>2. g.place[o] # "gone"
    BY <1>1, <1>3, NoObject DEF GameType
  <2>3. Sound(up) /\ SameSpot(g, up) /\ SameMoment(g, up) /\ LosesTraces(g, up, {})
    BY <1>1, <2>2, PlacedIs
  <2> HIDE DEF up
  <2>4. CASE h = up
    BY <2>3, <2>4, LosingKeeps, SameIsQuiet
  <2>5. CASE \E x \in Alike(up, o, "inv") : h = Joined(up, x, o)
    <3>1. PICK x \in Alike(up, o, "inv") : h = Joined(up, x, o)
      BY <2>5
    <3>2. /\ Kin(o) \in {Meals, Tins} /\ o \in Kin(o) /\ x \in Kin(o) /\ x # o
          /\ up.place[x] # "gone"
      BY AlikeIs
    <3>3. Sound(h) /\ SameMoment(up, h) /\ LosesTraces(up, h, {o})
      BY <2>3, <3>1, <3>2, JoinedIs
    <3>4. SameMoment(g, h)
      BY <2>3, <3>3 DEF SameMoment
    <3>5. LosesTraces(g, h, Goods)
      BY <2>3, <3>3 DEF LosesTraces
    <3>6. QED
      BY <3>3, <3>4, <3>5, LosingKeeps, SameIsQuiet
  <2>6. QED
    BY <2>1, <2>4, <2>5
<1>4. QED
  BY <1>2, <1>3

(* Walking forgets the trap and the lock.                                  *)
LEMMA MoveResult ==
    ASSUME NEW g, Ready(g), NEW spot \in Places, NEW h \in DoMove(g, spot)
    PROVE  Result(g, h)
<1> DEFINE k == [g EXCEPT !.at = spot]
<1>1. h = ResetOccs(k, TRUE)
  BY DEF DoMove
<1>2. /\ Sound(k) /\ SameMoment(g, k) /\ k.tracked = g.tracked /\ k.progress = g.progress
  BY AtIs DEF Ready
<1> HIDE DEF k
<1>3. Sound(h) /\ SameMoment(k, h) /\ Keeps(k, h)
  BY <1>1, <1>2, ResetIs
<1>4. SameMoment(g, h) /\ Keeps(g, h)
  BY <1>2, <1>3 DEF SameMoment, Keeps
<1>5. QED
  BY <1>3, <1>4, SameIsQuiet

(* The boxes that are here.                                                *)
LEMMA BoxlockResult ==
    ASSUME NEW g, Ready(g), NEW locks \in SUBSET Goods, NEW broken \in SUBSET g.obroken,
           locks \cap broken = {}, NEW h, h = [g EXCEPT !.olocked = locks, !.obroken = broken]
    PROVE  Result(g, h)
<1>1. Sound(g) /\ g \in GameType
  BY DEF Ready, Sound
<1>2. broken \subseteq Goods
  BY <1>1 DEF GameType
<1>3. h \in GameType
  BY <1>1, <1>2 DEF GameType
<1>4. /\ h.place = g.place /\ h.quan = g.quan /\ h.oeaten = g.oeaten
      /\ h.tracked = g.tracked /\ h.progress = g.progress
      /\ h.olocked = locks /\ h.obroken = broken /\ SameMoment(g, h)
  BY <1>1 DEF GameType, SameMoment
<1>5. g.tracked["lock"] \notin h.obroken
  BY <1>1, <1>4 DEF Sound
<1>6. Sound(h)
  BY <1>1, <1>3, <1>4, <1>5, LocksAreSound
<1>7. Keeps(g, h)
  BY <1>4 DEF Keeps
<1>8. QED
  BY <1>4, <1>6, <1>7, SameIsQuiet

(* A spell at the locks: the one that locks also mends.                    *)
LEMMA ZapResult ==
    ASSUME NEW g, Ready(g), NEW how, NEW lock, NEW h \in DoZap(g, how, lock)
    PROVE  Result(g, h)
<1>1. Sound(g) /\ g \in GameType
  BY DEF Ready, Sound
<1>2. CASE h = g
  <2>1. SameMoment(g, h) /\ Keeps(g, h)
    BY <1>2 DEF SameMoment, Keeps
  <2>2. QED
    BY <1>1, <1>2, <2>1, SameIsQuiet
<1>3. CASE lock = ADoor /\ h # g
  <2>1. PICK state \in Doors : h = [g EXCEPT !.door = state]
    <3>1. g.door \in Doors
      BY <1>1 DEF GameType
    <3>2. h = [g EXCEPT !.door = "locked"]
          \/ h = [g EXCEPT !.door = IF g.door = "locked" THEN "closed" ELSE g.door]
      BY <1>3 DEF DoZap
    <3>3. QED
      BY <3>1, <3>2 DEF Doors
  <2>2. /\ Sound(h) /\ SameMoment(g, h) /\ h.tracked = g.tracked /\ h.progress = g.progress
    BY <1>1, <2>1, DoorIs
  <2>3. Keeps(g, h)
    BY <2>2 DEF Keeps
  <2>4. QED
    BY <2>2, <2>3, SameIsQuiet
<1>4. CASE lock # ADoor /\ h # g
  <2> DEFINE boxes == {b \in Boxes : g.place[b] = g.at}
             broken == g.obroken \ (boxes \ g.olocked)
  <2>1. \/ h = [g EXCEPT !.olocked = g.olocked \cup boxes, !.obroken = broken]
        \/ h = [g EXCEPT !.olocked = g.olocked \ boxes, !.obroken = broken]
    BY <1>4 DEF DoZap
  <2>2. /\ broken \in SUBSET g.obroken
        /\ g.olocked \cup boxes \in SUBSET Goods /\ (g.olocked \cup boxes) \cap broken = {}
        /\ g.olocked \ boxes \in SUBSET Goods /\ (g.olocked \ boxes) \cap broken = {}
    BY <1>1, NoObject DEF GameType, Sound
  <2> HIDE DEF boxes, broken
  <2>3. PICK locks : /\ locks \in SUBSET Goods /\ locks \cap broken = {}
                     /\ h = [g EXCEPT !.olocked = locks, !.obroken = broken]
    BY <2>1, <2>2
  <2>4. QED
    BY <2>2, <2>3, BoxlockResult
<1>5. QED
  BY <1>2, <1>3, <1>4
-----------------------------------------------------------------------------
(* Eating.                                                                 *)

(* What keeps the traces that it may is in order if the command that is    *)
(* under way is.                                                           *)
LEMMA KeepingResult ==
    ASSUME NEW g, Tallied(g), NEW h, Sound(h), Keeps(g, h), MealIsOne(h), Working(h)
    PROVE  Result(g, h)
<1>1. Tallied(h)
  <2>1. 0 \in 0..MaxTries
    BY OccupationsAssumption
  <2>2. QED
    BY <2>1 DEF Tallied, Keeps, Tracks
<1>2. Anew(g, h)
  BY DEF Anew, Keeps
<1>3. QED
  BY <1>1, <1>2 DEF Result

(* touchfood leaves a single piece of food that has been bitten into, or   *)
(* none if the piece that was split off fell down and was destroyed.       *)
Touched(g, h) ==
    /\ Sound(h) /\ SameSpot(g, h) /\ SameMoment(g, h) /\ h.progress = g.progress
    /\ \A s \in Tracks \ {"food"} : h.tracked[s] \in {Nothing, g.tracked[s]}
    /\ h.tracked["food"] # Nothing =>
          /\ h.tracked["food"] \in Meals /\ h.quan[h.tracked["food"]] = 1
          /\ h.oeaten[h.tracked["food"]] \in 1..MealSize

(* The last part of touchfood, for the piece that is now food.             *)
Bitten(t, bite) == [t EXCEPT !.oeaten[bite] = IF @ = 0 THEN MealSize ELSE @]

(* What it comes to: the piece is bitten into and nothing else changes.    *)
BitInto(g, t, h, bite) ==
    /\ Touched(g, h) /\ h.tracked["food"] = bite /\ h.place = t.place
    /\ LeavesAlone(t, h, {bite})
    /\ t.oeaten[bite] # 0 => h.oeaten[bite] = t.oeaten[bite]
    /\ h.tracked = t.tracked /\ h.quan = t.quan

(* Of a piece on its own, that is.                                         *)
LEMMA BittenIs ==
    ASSUME NEW g, NEW t, Sound(t), SameSpot(g, t), SameMoment(g, t), t.progress = g.progress,
           \A s \in Tracks \ {"food"} : t.tracked[s] \in {Nothing, g.tracked[s]},
           NEW bite \in Meals, bite = t.tracked["food"], t.quan[bite] = 1
    PROVE  BitInto(g, t, Bitten(t, bite), bite)
<1> DEFINE n == IF t.oeaten[bite] = 0 THEN MealSize ELSE t.oeaten[bite]
           h == [t EXCEPT !.oeaten[bite] = n]
<1>1. t \in GameType /\ bite \in Goods /\ MealSize \in Nat \ {0}
  BY FiniteKinds, OccupationsAssumption DEF Sound
<1>2. t.oeaten[bite] \in 0..MealSize
  BY <1>1 DEF GameType
<1>3. n \in 1..MealSize /\ n \in 0..MealSize
  BY <1>1, <1>2
<1>4. h = Bitten(t, bite)
  BY <1>1 DEF Bitten, GameType
<1>5. t.oeaten[bite] # 0 => n = t.oeaten[bite]
  OBVIOUS
<1> HIDE DEF n
<1>6. /\ Sound(h) /\ LeavesAlone(t, h, {bite}) /\ SameSpot(t, h) /\ SameMoment(t, h)
      /\ LosesTraces(t, h, {}) /\ h.quan = t.quan /\ h.place = t.place
      /\ h.oeaten = [t.oeaten EXCEPT ![bite] = n]
  BY <1>1, <1>3, OeatenIs
<1> HIDE DEF h
<1>7. h.tracked = t.tracked
  <2>1. h \in GameType
    BY <1>6 DEF Sound
  <2>2. h.tracked \in [Tracks -> Targets] /\ t.tracked \in [Tracks -> Targets]
    BY <1>1, <2>1 DEF GameType
  <2>3. QED
    BY <1>6, <2>2 DEF LosesTraces
<1>8. h.oeaten[bite] = n
  BY <1>1, <1>6 DEF GameType
<1>9. SameSpot(g, h) /\ SameMoment(g, h) /\ h.progress = g.progress
  BY <1>6 DEF SameSpot, SameMoment, LosesTraces
<1>10. Touched(g, h)
  BY <1>3, <1>6, <1>7, <1>8, <1>9 DEF Touched
<1>11. BitInto(g, t, h, bite)
  BY <1>6, <1>7, <1>8, <1>10, <1>5 DEF BitInto
<1>12. QED
  BY <1>4, <1>11

(* touchfood, with and without a stack; and a meal that is already one     *)
(* piece, bitten into, is left as it is.                                   *)
LEMMA TouchedIs ==
    ASSUME NEW g, Sound(g), NEW food \in Meals, food = g.tracked["food"],
           NEW h \in TouchFood(g)
    PROVE  /\ Touched(g, h)
           /\ g.quan[food] = 1 /\ g.oeaten[food] # 0 =>
                 /\ LeavesAlone(g, h, {food}) /\ h.tracked["food"] = food
                 /\ h.oeaten[food] = g.oeaten[food]
<1>1. g \in GameType /\ food \in Goods /\ food \in Meals \cup Tins
  BY FiniteKinds DEF Sound
<1>2. g.place[food] # "gone" /\ g.quan[food] # 0 /\ g.quan[food] \in Nat
  <2>1. g.place[food] # "gone"
    BY <1>1 DEF Sound, Tracks
  <2>2. g.quan[food] \in Nat
    BY <1>1 DEF GameType
  <2>3. QED
    BY <1>1, <2>1, <2>2 DEF Sound
<1>3. CASE ~(g.quan[food] > 1)
  <2>1. h = Bitten(g, food)
    BY <1>3 DEF TouchFood, Bitten
  <2>2. g.quan[food] = 1
    BY <1>2, <1>3
  <2>3. SameSpot(g, g) /\ SameMoment(g, g)
    BY SelfIs
  <2>4. BitInto(g, g, h, food)
    BY <2>1, <2>2, <2>3, BittenIs
  <2>5. QED
    BY <2>4 DEF BitInto
<1>4. CASE g.quan[food] > 1
  <2>1. PICK part : part = SparePart(g, food)
    OBVIOUS
  <2> DEFINE inPack == SplitOff(g, food, 1, part)
             n == g.quan[food] - 1
             onFloor == SplitOff(g, food, n, part)
             mine == [inPack EXCEPT !.tracked["food"] = part]
  <2>2. part \in Kin(food) /\ part \in Goods /\ part # food
    BY <1>1, <1>4, <2>1, SpareIs
  <2>3. Kin(food) = Meals
    BY DEF Kin
  <2>4. CASE ~InPack(g, food)
    <3>1. h = Bitten(onFloor, onFloor.tracked["food"])
      BY <1>4, <2>1, <2>4 DEF TouchFood, Bitten
    <3>2. n \in Nat \ {0} /\ n < g.quan[food] /\ g.quan[food] - n = 1
      BY <1>2, <1>4
    <3> HIDE DEF n
    <3>3. food \in Meals \cup Tins /\ n \in Nat \ {0} /\ n < g.quan[food]
      BY <1>1, <3>2
    <3>4. SplitsInto(g, onFloor, food, n, part)
      BY <2>1, <3>3, SplitOffIs
    <3> HIDE DEF onFloor
    <3>5. /\ Sound(onFloor) /\ SameSpot(g, onFloor) /\ SameMoment(g, onFloor)
          /\ LosesTraces(g, onFloor, {}) /\ onFloor.quan[food] = 1
      BY <3>2, <3>4 DEF SplitsInto
    <3>6. /\ onFloor.tracked["food"] = food /\ onFloor.progress = g.progress
          /\ \A s \in Tracks \ {"food"} : onFloor.tracked[s] \in {Nothing, g.tracked[s]}
      BY <3>5 DEF LosesTraces, Tracks
    <3>7. BitInto(g, onFloor, h, food)
      BY <3>1, <3>5, <3>6, BittenIs
    <3>8. QED
      BY <1>4, <3>7 DEF BitInto
  <2>5. CASE InPack(g, food)
    <3>1. PICK bite : bite = mine.tracked["food"]
      OBVIOUS
    <3> DEFINE bitten == Bitten(mine, bite)
    <3>2. h \in {bitten, [bitten EXCEPT !.place[bite] = g.at], Freed(bitten, bite)}
      <4> DEFINE meal == g.tracked["food"]
                 stack == g.quan[meal] > 1
                 spare == SparePart(g, meal)
                 ofStack == IF ~stack THEN g
                            ELSE IF InPack(g, meal)
                                 THEN [SplitOff(g, meal, 1, spare) EXCEPT !.tracked["food"] = spare]
                                 ELSE SplitOff(g, meal, g.quan[meal] - 1, spare)
                 t == Bitten(ofStack, ofStack.tracked["food"])
      <4>1. TouchFood(g) =
                {t} \cup IF stack /\ InPack(g, meal)
                         THEN {[t EXCEPT !.place[ofStack.tracked["food"]] = g.at],
                               Freed(t, ofStack.tracked["food"])}
                         ELSE {}
        BY DEF TouchFood, Bitten
      <4>2. ofStack = mine
        BY <1>4, <2>1, <2>5
      <4>3. t = bitten /\ ofStack.tracked["food"] = bite /\ stack /\ InPack(g, meal)
        BY <1>4, <2>5, <3>1, <4>2
      <4> HIDE DEF t, ofStack, bitten, stack, meal
      <4>4. QED
        BY <4>1, <4>3
    <3>3. 1 \in Nat \ {0} /\ 1 < g.quan[food]
      BY <1>4
    <3>4. SplitsInto(g, inPack, food, 1, part)
      BY <1>1, <2>1, <3>3, SplitOffIs
    <3> HIDE DEF inPack
    <3>5. /\ Sound(inPack) /\ SameSpot(g, inPack) /\ SameMoment(g, inPack)
          /\ LosesTraces(g, inPack, {}) /\ inPack.quan[part] = 1
          /\ inPack.place[part] = g.place[food]
      BY <3>4 DEF SplitsInto
    <3>6. "food" \in Tracks /\ part \in Targets /\ part \in Meals /\ inPack \in GameType
      BY <2>2, <2>3, <3>5 DEF Tracks, Targets, Sound
    <3>7. inPack.place[part] # "gone"
      BY <1>2, <3>5
    <3>8. /\ Sound(mine) /\ SameObjects(inPack, mine) /\ SameSpot(inPack, mine)
          /\ SameMoment(inPack, mine) /\ mine.progress = inPack.progress
          /\ mine.tracked = [inPack.tracked EXCEPT !["food"] = part]
      BY <3>5, <3>6, <3>7, TrackIs
    <3> HIDE DEF mine
    <3>9. bite = part /\ \A s \in Tracks \ {"food"} : mine.tracked[s] = inPack.tracked[s]
      BY <3>1, <3>6, <3>8 DEF GameType
    <3>10. /\ SameSpot(g, mine) /\ SameMoment(g, mine) /\ mine.progress = g.progress
          /\ mine.quan[bite] = 1 /\ mine.place[bite] # "gone"
      BY <3>5, <3>7, <3>8, <3>9 DEF SameSpot, SameMoment, SameObjects, LosesTraces
    <3>11. \A s \in Tracks \ {"food"} : mine.tracked[s] \in {Nothing, g.tracked[s]}
      BY <3>5, <3>9 DEF LosesTraces
    <3>12. bite \in Meals /\ bite \in Goods
      BY <3>6, <3>9, FiniteKinds
    <3>13. BitInto(g, mine, bitten, bite)
      BY <3>8, <3>10, <3>11, <3>12, <3>1, BittenIs
    <3> HIDE DEF bitten
    <3>14. Touched(g, bitten) /\ bitten.tracked["food"] = bite /\ bitten.place = mine.place
      BY <3>13 DEF BitInto
    <3>15. bitten.place[bite] # "gone" /\ Sound(bitten) /\ SameSpot(g, bitten)
      BY <3>10, <3>14 DEF Touched
    <3>16. CASE h = bitten
      BY <1>4, <3>14, <3>16
    <3>17. CASE h = [bitten EXCEPT !.place[bite] = g.at]
      <4>1. PICK spot : spot = g.at
        OBVIOUS
      <4>2. spot \in Spots \ {"gone"}
        BY <1>1, <4>1, NoObject DEF GameType, Spots
      <4> DEFINE k == [bitten EXCEPT !.place[bite] = spot]
      <4>3. h = k
        BY <3>17, <4>1
      <4>4. /\ Sound(k) /\ SameSpot(bitten, k) /\ SameMoment(bitten, k)
            /\ LosesTraces(bitten, k, {}) /\ k.quan = bitten.quan /\ k.oeaten = bitten.oeaten
        BY <3>12, <3>15, <4>2, PlacedIs
      <4> HIDE DEF k
      <4>5. Touched(g, k)
        BY <3>14, <4>4 DEF Touched, SameSpot, SameMoment, LosesTraces, Tracks
      <4>6. QED
        BY <1>4, <4>3, <4>5
    <3>18. CASE h = Freed(bitten, bite)
      <4>1. /\ Sound(h) /\ SameSpot(bitten, h) /\ SameMoment(bitten, h)
            /\ LosesTraces(bitten, h, {bite}) /\ \A s \in Tracks : h.tracked[s] # bite
        BY <3>12, <3>15, <3>18, FreedIs
      <4>2. h.tracked["food"] = Nothing
        BY <3>14, <4>1 DEF LosesTraces, Tracks
      <4>3. Touched(g, h)
        BY <3>14, <4>1, <4>2 DEF Touched, SameSpot, SameMoment, LosesTraces
      <4>4. QED
        BY <1>4, <4>3
    <3>19. QED
      BY <3>2, <3>16, <3>17, <3>18
  <2>6. QED
    BY <2>4, <2>5
<1>5. QED
  BY <1>3, <1>4

(* A command whose turn is over, whichever flags it leaves.                *)
LEMMA OverResult ==
    ASSUME NEW g, Ready(g), NEW t, Sound(t), Keeps(g, t), NEW h, Sound(h), SameThings(t, h),
           Idle(h)
    PROVE  Result(g, h)
<1>1. Keeps(g, h)
  BY DEF Keeps, SameThings
<1>2. QED
  BY <1>1, QuietResult DEF Ready

(* touchfood tracks nothing but food in place of what was tracked.         *)
LEMMA TouchedKeeps ==
    ASSUME NEW g, NEW t, Touched(g, t)
    PROVE  Sound(t) /\ Keeps(g, t)
  BY DEF Touched, Keeps, Tracks

(* The end of doeat, for the food that is tracked.                         *)
LEMMA EatOnResult ==
    ASSUME NEW g, Ready(g), g.flags.verb = "eat", g.tracked["food"] \in Meals, NEW h \in EatOn(g)
    PROVE  Result(g, h)
<1>1. PICK t \in TouchFood(g) : h = IF t.tracked["food"] = Nothing THEN Completed(t)
                                    ELSE EatOneTurn(Incomplete(t, "food"))
  BY DEF EatOn
<1>2. Touched(g, t)
  BY TouchedIs DEF Ready
<1>3. Sound(t) /\ Keeps(g, t) /\ "food" \in Tracks
  BY <1>2, TouchedKeeps DEF Tracks
<1>4. CASE t.tracked["food"] = Nothing
  <2>1. h = Completed(t)
    BY <1>1, <1>4
  <2>2. Sound(h) /\ SameThings(t, h) /\ FlagsAre(t, h, FALSE, TRUE, Nothing)
    BY <1>3, <2>1, CompletedIs
  <2>3. QED
    BY <1>3, <2>2, OverResult DEF FlagsAre, Idle
<1>5. CASE t.tracked["food"] # Nothing
  <2> DEFINE i == Incomplete(t, "food")
  <2>1. h = EatOneTurn(i)
    BY <1>1, <1>5
  <2>2. /\ Sound(i) /\ SameThings(t, i) /\ FlagsAre(t, i, TRUE, t.flags.interrupted, "food")
    BY <1>3, IncompleteIs
  <2> HIDE DEF i
  <2>3. PICK food : food = i.tracked["food"]
    OBVIOUS
  <2>4. food \in Meals /\ i.quan[food] = 1 /\ i.oeaten[food] \in 1..MealSize
    BY <1>2, <1>5, <2>2, <2>3 DEF Touched, SameThings
  <2>5. i.flags.verb = "eat" /\ ~i.flags.interrupted /\ Going(i, "food")
    BY <1>2, <2>2 DEF Touched, SameMoment, FlagsAre, SameCommand, Ready, Going, Busy
  <2>6. /\ TurnOf(i, h, "food", {food})
        /\ \/ Idle(h)
           \/ /\ h.flags = i.flags /\ h.tracked = i.tracked /\ h.quan[food] = 1
              /\ h.oeaten[food] \in 1..(i.oeaten[food] - 1)
    BY <2>1, <2>2, <2>3, <2>4, <2>5, BiteIs
  <2>7. Sound(h) /\ Keeps(g, h)
    <3>1. \A s \in Tracks \ {"food"} :
              h.tracked[s] \in {Nothing, t.tracked[s]} /\ h.progress[s] = t.progress[s]
      BY <2>2, <2>6 DEF TurnOf, SameThings
    <3>2. Keeps(g, h)
      BY <1>3, <3>1 DEF Keeps, Tracks
    <3>3. QED
      BY <2>6, <3>2 DEF TurnOf
  <2>8. CASE Idle(h)
    BY <2>7, <2>8, QuietResult DEF Ready
  <2>9. CASE /\ h.flags = i.flags /\ h.tracked = i.tracked /\ h.quan[food] = 1
             /\ h.oeaten[food] \in 1..(i.oeaten[food] - 1)
    <3>1. h.oeaten[food] \in 1..MealSize
      BY <2>4, <2>9, OccupationsAssumption
    <3>2. MealIsOne(h)
      BY <2>3, <2>9, <3>1 DEF MealIsOne
    <3>3. h.flags.occupation = "food" /\ h.flags.verb = "eat"
      BY <2>5, <2>9 DEF Going
    <3>4. Working(h)
      BY <3>3 DEF Working, Tracks
    <3>5. QED
      BY <2>7, <3>2, <3>4, KeepingResult DEF Ready
  <2>10. QED
    BY <2>6, <2>8, <2>9
<1>6. QED
  BY <1>4, <1>5

(* rottenfood leaves no command under way.                                 *)
LEMMA FaintResult ==
    ASSUME NEW g, Ready(g), g.tracked["food"] \in Meals, NEW h \in Faint(g)
    PROVE  Result(g, h)
<1>1. PICK t \in TouchFood(g) : h = Completed(Helpless(t))
  BY DEF Faint
<1>2. Touched(g, t)
  BY TouchedIs DEF Ready
<1>3. Sound(t) /\ Keeps(g, t)
  BY <1>2, TouchedKeeps
<1>4. Sound(Helpless(t)) /\ SameThings(t, Helpless(t))
  BY <1>3, HelplessIs
<1>5. Sound(h) /\ SameThings(Helpless(t), h) /\ FlagsAre(Helpless(t), h, FALSE, TRUE, Nothing)
  BY <1>1, <1>4, CompletedIs
<1>6. SameThings(t, h)
  BY <1>4, <1>5 DEF SameThings
<1>7. QED
  BY <1>3, <1>5, <1>6, OverResult DEF FlagsAre, Idle

(* What the food is makes no difference to the rest.                       *)
LEMMA FoodIsReady ==
    ASSUME NEW g, Ready(g), NEW food \in Meals \cup {Nothing},
           food # Nothing => g.place[food] # "gone"
    PROVE  LET b == [g EXCEPT !.tracked["food"] = food]
           IN  /\ Ready(b) /\ SameObjects(g, b) /\ SameSpot(g, b) /\ SameMoment(g, b)
               /\ b.tracked["food"] = food /\ b.progress = g.progress
               /\ \A s \in Tracks \ {"food"} : b.tracked[s] = g.tracked[s]
<1> DEFINE b == [g EXCEPT !.tracked["food"] = food]
<1>1. Sound(g) /\ g \in GameType /\ "food" \in Tracks /\ food \in Targets
  BY FiniteKinds DEF Ready, Sound, Tracks, Targets
<1>2. food \in Goods => g.place[food] # "gone"
  BY NoObject
<1>3. /\ Sound(b) /\ SameObjects(g, b) /\ SameSpot(g, b) /\ SameMoment(g, b)
      /\ b.progress = g.progress /\ b.tracked = [g.tracked EXCEPT !["food"] = food]
  BY <1>1, <1>2, TrackIs
<1> HIDE DEF b
<1>4. b.tracked["food"] = food /\ \A s \in Tracks \ {"food"} : b.tracked[s] = g.tracked[s]
  BY <1>1, <1>3 DEF GameType
<1>5. Tallied(b) /\ Idle(b) /\ ~b.flags.interrupted
  BY <1>3, <1>4 DEF Ready, Tallied, Idle, SameMoment, Tracks
<1>6. QED
  BY <1>3, <1>4, <1>5 DEF b, Ready

(* What a command may make of a game it may make of one that differs in    *)
(* the meal.                                                               *)
LEMMA FoodResult ==
    ASSUME NEW g, NEW b, \A s \in Tracks \ {"food"} : b.tracked[s] = g.tracked[s],
           NEW h, Result(b, h)
    PROVE  Result(g, h)
  BY DEF Result, Anew

(* A new meal.                                                             *)
LEMMA BeginMealResult ==
    ASSUME NEW g, Ready(g), g.flags.verb = "eat", NEW food \in Meals,
           g.place[food] # "gone", NEW h \in BeginMeal(g, food)
    PROVE  Result(g, h)
<1> DEFINE b == [g EXCEPT !.tracked["food"] = food]
           u == UsedUp(b, food)
           k == [u EXCEPT !.tracked["food"] = Nothing]
<1>1. h \in {ZeroTime(g), k} \cup Faint(b) \cup EatOn(b)
  BY DEF BeginMeal
<1>2. /\ Ready(b) /\ SameObjects(g, b) /\ SameSpot(g, b) /\ SameMoment(g, b)
      /\ b.tracked["food"] = food /\ b.progress = g.progress
      /\ \A s \in Tracks \ {"food"} : b.tracked[s] = g.tracked[s]
  BY FoodIsReady
<1> HIDE DEF b
<1>3. b.flags.verb = "eat" /\ Sound(b) /\ food \in Goods
  BY <1>2, FiniteKinds DEF SameMoment, Ready
<1>4. CASE h = ZeroTime(g)
  BY <1>4, NoTimeResult
<1>5. CASE h \in Faint(b)
  BY <1>2, <1>5, FaintResult, FoodResult
<1>6. CASE h \in EatOn(b)
  <2>1. Result(b, h)
    BY <1>2, <1>3, <1>6, EatOnResult
  <2>2. QED
    BY <1>2, <2>1, FoodResult
<1>7. CASE h = k
  <2>1. Sound(u) /\ SameMoment(b, u) /\ LosesTraces(b, u, {food})
    BY <1>3, UsedUpIs
  <2> HIDE DEF u
  <2>2. Keeps(b, u) /\ "food" \in Tracks /\ Nothing \in Targets /\ Nothing \notin Goods
    BY <2>1, LosingKeeps, NoObject DEF Tracks, Targets
  <2>3. /\ Sound(k) /\ SameMoment(u, k) /\ k.progress = u.progress
        /\ k.tracked = [u.tracked EXCEPT !["food"] = Nothing]
    BY <2>1, <2>2, TrackIs
  <2> HIDE DEF k
  <2>4. \A s \in Tracks \ {"food"} : k.tracked[s] = u.tracked[s]
    BY <2>1, <2>3 DEF Sound, GameType
  <2>5. Keeps(b, k) /\ SameMoment(b, k)
    BY <2>1, <2>2, <2>3, <2>4 DEF Keeps, SameMoment, Tracks
  <2>6. Result(b, k)
    BY <1>2, <2>3, <2>5, SameIsQuiet
  <2>7. QED
    BY <1>2, <1>7, <2>6, FoodResult
<1>8. QED
  BY <1>1, <1>4, <1>5, <1>6, <1>7

(* A command that begins an occupation: s is set to work on o, n turns on. *)
Begun(g, s, o, n) == [g EXCEPT !.tracked[s] = o, !.progress[s] = n]

(* The start of an occupation: what is worked on, and no progress yet.     *)
LEMMA BegunIs ==
    ASSUME NEW g, Sound(g), NEW s \in Tracks, NEW o \in Targets, NEW n \in Int,
           o \in Goods => g.place[o] # "gone",
           s = "food" => o \in Meals, s = "lock" => o \notin g.obroken
    PROVE  LET h == Begun(g, s, o, n)
           IN  /\ Sound(h) /\ SameObjects(g, h) /\ SameSpot(g, h) /\ SameMoment(g, h)
               /\ h.tracked[s] = o /\ h.progress[s] = n
               /\ \A r \in Tracks \ {s} :
                     h.tracked[r] = g.tracked[r] /\ h.progress[r] = g.progress[r]
<1> DEFINE h == Begun(g, s, o, n)
<1>1. g \in GameType
  BY DEF Sound
<1>2. /\ [g.tracked EXCEPT ![s] = o] \in [Tracks -> Targets]
      /\ [g.progress EXCEPT ![s] = n] \in [Tracks -> Int]
  BY <1>1 DEF GameType
<1>3. /\ SameObjects(g, h) /\ SameSpot(g, h) /\ SameMoment(g, h)
      /\ h.tracked = [g.tracked EXCEPT ![s] = o]
      /\ h.progress = [g.progress EXCEPT ![s] = n]
  BY <1>1 DEF GameType, Begun, SameObjects, SameSpot, SameMoment
<1>4. h \in GameType
  BY <1>1, <1>2 DEF GameType, Begun
<1> HIDE DEF h
<1>5. /\ h.tracked[s] = o /\ h.progress[s] = n
      /\ \A r \in Tracks \ {s} :
            h.tracked[r] = g.tracked[r] /\ h.progress[r] = g.progress[r]
  BY <1>1, <1>3 DEF GameType
<1>6. SameCommand(g, h)
  BY <1>3 DEF SameCommand, SameMoment
<1>7. \A r \in Tracks :
          \/ h.tracked[r] \in {Nothing, g.tracked[r]}
          \/ /\ h.tracked[r] \in Goods => g.place[h.tracked[r]] # "gone"
             /\ r = "food" => h.tracked[r] \in Meals
             /\ r = "lock" => h.tracked[r] \notin g.obroken
  BY <1>5
<1>8. Sound(h)
  BY <1>3, <1>4, <1>6, <1>7, TracesAreSound
<1>9. QED
  BY <1>3, <1>5, <1>8 DEF h

(* start_tin.                                                              *)
LEMMA SlipTinResult ==
    ASSUME NEW g, Ready(g), NEW tin \in Tins, g.place[tin] # "gone", NEW h \in SlipTin(g, tin)
    PROVE  Result(g, h)
<1>1. PICK part : part = SparePart(g, tin)
  OBVIOUS
<1> DEFINE stack == g.quan[tin] > 1
           one == IF stack THEN SplitOff(g, tin, 1, part) ELSE g
           it == IF stack THEN part ELSE tin
<1>2. h \in IF InPack(g, tin) THEN DroppedHere(one, it)
            ELSE {one} \cup {Joined(one, it, x) : x \in Alike(one, it, g.at)}
  BY <1>1 DEF SlipTin
<1>3. /\ Sound(g) /\ g \in GameType /\ tin \in Goods /\ tin \in Meals \cup Tins
      /\ g.at \in Places /\ g.at # "gone"
  BY FiniteKinds, NoObject DEF Ready, Sound, GameType
<1>4. /\ Sound(one) /\ SameMoment(g, one) /\ LosesTraces(g, one, {})
      /\ it \in Tins /\ it \in Goods /\ one.place[it] # "gone"
  <2>1. CASE stack
    <3>1. 1 \in Nat \ {0}
      OBVIOUS
    <3>2. SplitsInto(g, one, tin, 1, part)
      BY <1>1, <1>3, <2>1, <3>1, SplitOffIs
    <3>3. part \in Kin(tin) /\ part \in Goods
      BY <1>1, <1>3, <2>1, SpareIs
    <3>4. Kin(tin) = Tins
      BY FiniteKinds DEF Kin
    <3>5. it = part
      BY <2>1
    <3> HIDE DEF one, it
    <3>6. QED
      BY <3>2, <3>3, <3>4, <3>5 DEF SplitsInto
  <2>2. CASE ~stack
    <3>1. one = g /\ it = tin
      BY <2>2
    <3> HIDE DEF one, it
    <3>2. QED
      BY <1>3, <3>1, SelfIs
  <2>3. QED
    BY <2>1, <2>2
<1> HIDE DEF one, it
<1>5. Sound(h) /\ SameMoment(one, h) /\ LosesTraces(one, h, Goods)
  <2>1. CASE h \in DroppedHere(one, it)
    BY <1>4, <2>1, DroppedIs
  <2>2. CASE h = one
    BY <1>4, <2>2, SelfIs
  <2>3. CASE \E x \in Alike(one, it, g.at) : h = Joined(one, it, x)
    <3>1. PICK x \in Alike(one, it, g.at) : h = Joined(one, it, x)
      BY <2>3
    <3>2. Kin(it) \in {Meals, Tins} /\ it \in Kin(it) /\ x \in Kin(it) /\ x # it
      BY AlikeIs
    <3>3. Sound(h) /\ SameMoment(one, h) /\ LosesTraces(one, h, {x})
      BY <1>4, <3>1, <3>2, JoinedIs
    <3>4. x \in Goods
      BY <3>2, FiniteKinds
    <3>5. QED
      BY <3>3, <3>4 DEF LosesTraces
  <2>4. QED
    BY <1>2, <2>1, <2>2, <2>3
<1>6. SameMoment(g, h) /\ LosesTraces(g, h, Goods)
  BY <1>4, <1>5 DEF SameMoment, LosesTraces
<1>7. QED
  BY <1>5, <1>6, LosingKeeps, SameIsQuiet

(* A turn at a tin that is in reach, whether it is the first or not.       *)
LEMMA TinResult ==
    ASSUME NEW g, Ready(g), g.tracked["food"] = Nothing, g.flags.verb = "eat",
           NEW tin \in Tins, g.flags.arg = tin, WithYou(g, tin),
           NEW b, Sound(b), SameObjects(g, b), SameSpot(g, b), SameMoment(g, b),
           b.tracked["tin"] = tin,
           \A r \in Tracks \ {"tin"} :
               b.tracked[r] = g.tracked[r] /\ b.progress[r] = g.progress[r],
           \/ b.tracked["tin"] = g.tracked["tin"] /\ b.progress["tin"] = g.progress["tin"]
           \/ b.progress["tin"] \in TinTurns \cup {-1},
           NEW h, h = EatTinOneTurn(Incomplete(b, "tin"))
    PROVE  Result(g, h)
<1>1. PICK i : i = Incomplete(b, "tin")
  OBVIOUS
<1>2. "tin" \in Tracks /\ h = EatTinOneTurn(i) /\ tin # Nothing
  BY <1>1, NoObject DEF Tracks
<1>3. /\ Sound(i) /\ SameThings(b, i) /\ FlagsAre(b, i, TRUE, b.flags.interrupted, "tin")
  BY <1>1, <1>2, IncompleteIs
<1>4. i.tracked["tin"] = tin /\ Going(i, "tin") /\ i.flags.verb = "eat" /\ i.flags.arg = tin
  BY <1>3 DEF SameThings, FlagsAre, SameCommand, SameMoment, Ready, Going, Busy
<1>5. WithYou(i, tin)
  BY <1>3 DEF WithYou, SameThings, SameObjects, SameSpot
<1>6. /\ TurnOf(i, h, "tin", {tin})
      /\ \/ Idle(h) /\ (WithYou(i, tin) => h.tracked["tin"] = Nothing)
         \/ /\ h.flags = i.flags /\ h.tracked = i.tracked
            /\ h.progress["tin"] = i.progress["tin"] - 1
            /\ i.progress["tin"] >= -MaxTries /\ i.progress["tin"] # 1
  BY <1>2, <1>3, <1>4, TinTurnIs
<1>7. /\ Sound(h) /\ h.tracked["food"] = Nothing /\ h.progress["lock"] = g.progress["lock"]
      /\ \A s \in Tracks \ {"food", "tin"} : h.tracked[s] \in {Nothing, g.tracked[s]}
  BY <1>3, <1>6 DEF TurnOf, SameThings, Tracks
<1>8. CASE Idle(h) /\ h.tracked["tin"] = Nothing
  <2>1. Keeps(g, h)
    BY <1>7, <1>8 DEF Keeps, Tracks
  <2>2. QED
    BY <1>7, <1>8, <2>1, QuietResult DEF Ready
<1>9. CASE /\ h.flags = i.flags /\ h.tracked = i.tracked
           /\ h.progress["tin"] = i.progress["tin"] - 1
           /\ i.progress["tin"] >= -MaxTries /\ i.progress["tin"] # 1
  <2> DEFINE n == i.progress["tin"]
  <2>1. n = b.progress["tin"] /\ h.tracked["tin"] = tin
    BY <1>3, <1>4, <1>9 DEF SameThings
  <2>2. \/ b.tracked["tin"] = g.tracked["tin"] /\ n = g.progress["tin"]
        \/ n \in TinTurns \cup {-1}
    BY <2>1
  <2>3. n >= -MaxTries /\ n # 1 /\ h.progress["tin"] = n - 1
    BY <1>9
  <2>4. n \in Int /\ MaxTries \in Nat
    <3>1. i.progress \in [Tracks -> Int]
      BY <1>3 DEF Sound, GameType
    <3>2. QED
      BY <1>2, <3>1, OccupationsAssumption
  <2>5. n \in 1..MaxTries \/ -n \in 1..(MaxTries + 1)
    <3>1. CASE n = g.progress["tin"] /\ b.tracked["tin"] = g.tracked["tin"]
      BY <1>2, <3>1 DEF Ready, Tallied
    <3>2. CASE n \in TinTurns \cup {-1}
      <4>1. MaxTries \in Nat \ {0} /\ TinTurns \subseteq 1..MaxTries
        BY OccupationsAssumption
      <4>2. CASE n \in TinTurns
        BY <4>1, <4>2
      <4>3. CASE n = -1
        <5> HIDE DEF n
        <5>1. -n \in 1..(MaxTries + 1)
          BY <2>4, <4>1, <4>3
        <5>2. QED
          BY <5>1
      <4>4. QED
        BY <3>2, <4>2, <4>3
    <3>3. QED
      BY <2>2, <3>1, <3>2
  <2> HIDE DEF n
  <2>6. n - 1 \in 1..MaxTries \/ -(n - 1) \in 1..(MaxTries + 1)
    BY <2>3, <2>5, <2>4
  <2>7. Tallied(h)
    BY <1>7, <2>3, <2>6 DEF Tallied, Ready
  <2>8. MealIsOne(h)
    BY <1>7 DEF MealIsOne
  <2>9. h.flags.occupation = "tin" /\ h.flags.verb = "eat" /\ h.flags.arg = tin
    BY <1>4, <1>9 DEF Going
  <2>10. Working(h)
    BY <1>2, <1>7, <2>1, <2>9 DEF Working
  <2>11. Anew(g, h)
    <3>1. h.tracked["tin"] # g.tracked["tin"] => h.progress["tin"] \in FirstTurn("tin")
      BY <1>4, <1>9, <2>2, <2>3 DEF FirstTurn
    <3>2. QED
      BY <1>7, <3>1 DEF Anew
  <2>12. QED
    BY <1>7, <2>7, <2>8, <2>10, <2>11 DEF Result
<1>10. QED
  BY <1>5, <1>6, <1>8, <1>9

(* A tin, the one that is tracked or another.                              *)
LEMMA EatTinResult ==
    ASSUME NEW g, Ready(g), g.tracked["food"] = Nothing, g.flags.verb = "eat",
           NEW tin \in Tins, g.flags.arg = tin, WithYou(g, tin), NEW h \in EatTin(g, tin)
    PROVE  Result(g, h)
<1>1. /\ Sound(g) /\ tin \in Targets /\ tin \in Goods /\ "tin" \in Tracks
      /\ g.place[tin] # "gone"
  BY NoObject DEF Ready, Sound, GameType, WithYou, Targets, Tracks
<1>2. CASE tin = g.tracked["tin"]
  <2>1. h = EatTinOneTurn(Incomplete(g, "tin"))
    BY <1>2 DEF EatTin
  <2>2. SameObjects(g, g) /\ SameSpot(g, g) /\ SameMoment(g, g)
    BY DEF SameObjects, SameSpot, SameMoment
  <2>3. QED
    BY <1>1, <1>2, <2>1, <2>2, TinResult
<1>3. CASE tin # g.tracked["tin"] /\ h \in SlipTin(g, tin)
  BY <1>1, <1>3, SlipTinResult
<1>4. CASE \E n \in TinTurns \cup {-1} : h = EatTinOneTurn(Incomplete(Begun(g, "tin", tin, n), "tin"))
  <2>1. PICK n \in TinTurns \cup {-1} : h = EatTinOneTurn(Incomplete(Begun(g, "tin", tin, n), "tin"))
    BY <1>4
  <2>2. n \in Int
    BY OccupationsAssumption
  <2> DEFINE b == Begun(g, "tin", tin, n)
  <2>3. /\ Sound(b) /\ SameObjects(g, b) /\ SameSpot(g, b) /\ SameMoment(g, b)
        /\ b.tracked["tin"] = tin /\ b.progress["tin"] = n
        /\ \A r \in Tracks \ {"tin"} :
              b.tracked[r] = g.tracked[r] /\ b.progress[r] = g.progress[r]
    BY <1>1, <2>2, BegunIs
  <2>4. h = EatTinOneTurn(Incomplete(b, "tin"))
    BY <2>1
  <2> HIDE DEF b
  <2>5. QED
    BY <2>1, <2>3, <2>4, TinResult
<1>5. QED
  BY <1>2, <1>3, <1>4 DEF EatTin, Begun

(* doeat, of a meal or a tin, asked for or repeated.                       *)
LEMMA EatResult ==
    ASSUME NEW g, Ready(g), g.flags.verb = "eat", NEW arg \in Meals \cup Tins,
           g.flags.arg = arg, NEW repeated, NEW h \in DoEat(g, arg, repeated)
    PROVE  Result(g, h)
<1> DEFINE meal == g.tracked["food"]
           it == IF repeated /\ WithYou(g, meal) THEN meal ELSE arg
           other == [g EXCEPT !.tracked["food"] = Nothing]
<1>1. h \in IF ~WithYou(g, it) THEN {ZeroTime(g)}
            ELSE IF it = meal THEN EatOn(g)
            ELSE IF it \in Tins THEN EatTin(other, it) ELSE BeginMeal(other, it)
  BY DEF DoEat
<1>2. /\ Ready(other) /\ SameObjects(g, other) /\ SameSpot(g, other) /\ SameMoment(g, other)
      /\ other.tracked["food"] = Nothing
      /\ \A s \in Tracks \ {"food"} : other.tracked[s] = g.tracked[s]
  BY FoodIsReady
<1> HIDE DEF other
<1>3. other.flags.verb = "eat" /\ other.flags.arg = arg
  BY <1>2 DEF SameMoment
<1>4. CASE ~WithYou(g, it)
  BY <1>1, <1>4, NoTimeResult
<1>5. meal \in Meals \cup {Nothing} /\ g \in GameType
  BY DEF Ready, Sound
<1>6. CASE WithYou(g, it) /\ it = meal
  <2>1. meal \in Meals
    BY <1>5, <1>6, NoObject DEF WithYou
  <2>2. QED
    BY <1>1, <1>6, <2>1, EatOnResult
<1>7. CASE WithYou(g, it) /\ it # meal
  <2>1. it = arg
    BY <1>7
  <2>2. g.place[arg] # "gone" /\ arg \in Goods
    BY <1>5, <1>7, <2>1, NoObject DEF WithYou, GameType
  <2>3. WithYou(other, arg) /\ other.place[arg] # "gone"
    BY <1>2, <1>7, <2>1, <2>2 DEF WithYou, SameObjects, SameSpot
  <2>4. CASE arg \in Tins
    <3>1. h \in EatTin(other, arg)
      BY <1>1, <1>7, <2>1, <2>4
    <3>2. Result(other, h)
      BY <1>2, <1>3, <2>3, <2>4, <3>1, EatTinResult
    <3>3. QED
      BY <1>2, <3>2, FoodResult
  <2>5. CASE arg \notin Tins
    <3>1. h \in BeginMeal(other, arg) /\ arg \in Meals
      BY <1>1, <1>7, <2>1, <2>5
    <3>2. Result(other, h)
      BY <1>2, <1>3, <2>3, <3>1, BeginMealResult
    <3>3. QED
      BY <1>2, <3>2, FoodResult
  <2>6. QED
    BY <2>4, <2>5
<1>8. QED
  BY <1>4, <1>6, <1>7

-----------------------------------------------------------------------------
(* Reading.                                                                *)

(* What a command may make of the game that goes on with no occupation.    *)
Quiet(g, h) == Sound(h) /\ Idle(h) /\ Keeps(g, h)

(* It is a result.                                                         *)
LEMMA QuietIsResult ==
    ASSUME NEW g, Ready(g), NEW h, Quiet(g, h)
    PROVE  Result(g, h)
  BY QuietResult DEF Quiet, Ready

(* Keeping is transitive.                                                  *)
LEMMA KeepsTwice ==
    ASSUME NEW g, NEW t, NEW h, Keeps(g, t), Keeps(t, h)
    PROVE  Keeps(g, h)
  BY DEF Keeps, Tracks

(* A quiet game stays quiet when it loses traces,                          *)
LEMMA QuietSame ==
    ASSUME NEW g, NEW t, Quiet(g, t), NEW h, Sound(h), SameMoment(t, h), Keeps(t, h)
    PROVE  Quiet(g, h)
  BY KeepsTwice DEF Quiet, Idle, SameMoment

(* when an object is used up,                                              *)
LEMMA QuietUsedUp ==
    ASSUME NEW g, NEW t, Quiet(g, t), NEW o \in Goods
    PROVE  Quiet(g, UsedUp(t, o))
<1> DEFINE h == UsedUp(t, o)
<1>1. Sound(t)
  BY DEF Quiet
<1>2. Sound(h) /\ SameMoment(t, h) /\ LosesTraces(t, h, {o})
  BY <1>1, UsedUpIs
<1>3. QED
  BY <1>2, LosingKeeps, QuietSame

(* when an occupation is given up,                                         *)
LEMMA QuietUntracked ==
    ASSUME NEW g, NEW t, Quiet(g, t), NEW s \in Tracks
    PROVE  Quiet(g, Untracked(t, s))
<1> DEFINE h == Untracked(t, s)
<1>1. Sound(t) /\ t \in GameType
  BY DEF Quiet, Sound
<1>2. /\ Sound(h) /\ SameMoment(t, h) /\ h.tracked = [t.tracked EXCEPT ![s] = Nothing]
      /\ h.progress = [t.progress EXCEPT ![s] = 0]
  BY <1>1, UntrackedIs
<1> HIDE DEF h
<1>3. /\ \A r \in Tracks : h.tracked[r] \in {Nothing, t.tracked[r]}
      /\ \A r \in Tracks : \/ h.progress[r] = t.progress[r]
                           \/ h.progress[r] = 0 /\ h.tracked[r] = Nothing
  BY <1>1, <1>2 DEF GameType
<1>4. Keeps(t, h)
  BY <1>3 DEF Keeps, Tracks
<1>5. Quiet(g, h)
  BY <1>2, <1>4, QuietSame
<1>6. QED
  BY <1>5 DEF h

(* when the player becomes helpless,                                       *)
LEMMA QuietHelpless ==
    ASSUME NEW g, NEW t, Quiet(g, t)
    PROVE  Quiet(g, Helpless(t))
<1> DEFINE h == Helpless(t)
<1>1. Sound(t) /\ Idle(t) /\ Keeps(g, t)
  BY DEF Quiet
<1>2. /\ Sound(h) /\ SameThings(t, h)
      /\ FlagsAre(t, h, t.flags.incomplete, TRUE, t.flags.occupation)
  BY <1>1, HelplessIs
<1> HIDE DEF h
<1>3. Idle(h) /\ Keeps(t, h)
  BY <1>1, <1>2 DEF Idle, FlagsAre, SameThings, Keeps
<1>4. Quiet(g, h)
  BY <1>1, <1>2, <1>3, KeepsTwice DEF Quiet
<1>5. QED
  BY <1>4 DEF h

(* and when the command took no time.                                      *)
LEMMA QuietZeroTime ==
    ASSUME NEW g, NEW t, Sound(t), Keeps(g, t)
    PROVE  Quiet(g, ZeroTime(t))
  BY NoTimeIs, KeepsTwice DEF Quiet

\* Progress with a book means nothing to the rest
LEMMA QuietPage ==
    ASSUME NEW g, NEW t, Quiet(g, t), NEW n \in Int
    PROVE  Quiet(g, [t EXCEPT !.progress["book"] = n])
<1> DEFINE h == [t EXCEPT !.progress["book"] = n]
<1>1. Sound(t) /\ t \in GameType /\ "book" \in Tracks
  BY DEF Quiet, Sound, Tracks
<1>2. /\ Sound(h) /\ SameMoment(t, h) /\ h.tracked = t.tracked
      /\ h.progress = [t.progress EXCEPT !["book"] = n]
  BY <1>1, ProgressIs
<1> HIDE DEF h
<1>3. \A r \in Tracks \ {"book"} : h.progress[r] = t.progress[r]
  BY <1>1, <1>2 DEF GameType
<1>4. Keeps(t, h)
  BY <1>2, <1>3 DEF Keeps, Tracks
<1>5. Quiet(g, h)
  BY <1>2, <1>4, QuietSame
<1>6. QED
  BY <1>5 DEF h

(* The game that a command finds is quiet.                                 *)
LEMMA ReadyIsQuiet ==
    ASSUME NEW g, Ready(g)
    PROVE  Quiet(g, g)
<1>1. Keeps(g, g)
  BY DEF Keeps
<1>2. QED
  BY <1>1 DEF Quiet, Ready

(* A page of the book that is tracked, whether it is the first or not.     *)
LEMMA PageResult ==
    ASSUME NEW g, Ready(g), g.flags.verb = "read", NEW book \in Books, g.flags.arg = book,
           NEW b, Sound(b), SameMoment(g, b), b.tracked["book"] = book,
           \A r \in Tracks \ {"book"} :
               b.tracked[r] = g.tracked[r] /\ b.progress[r] = g.progress[r],
           g.tracked["book"] = book \/ b.progress["book"] = -BookTurns,
           NEW h \in LearnBook(Incomplete(b, "book"))
    PROVE  Result(g, h)
<1>1. PICK i : i = Incomplete(b, "book")
  OBVIOUS
<1>2. "book" \in Tracks /\ h \in LearnBook(i) /\ book \in Goods
  BY <1>1, NoObject DEF Tracks
<1>3. /\ Sound(i) /\ SameThings(b, i) /\ FlagsAre(b, i, TRUE, b.flags.interrupted, "book")
  BY <1>1, <1>2, IncompleteIs
<1>4. i.tracked["book"] = book /\ Going(i, "book") /\ i.flags.verb = "read" /\ i.flags.arg = book
  BY <1>3 DEF SameThings, FlagsAre, SameCommand, SameMoment, Ready, Going, Busy
<1>5. /\ TurnOf(i, h, "book", {book})
      /\ h.tracked["book"] = Nothing \/ h.progress["book"] = i.progress["book"] + 1
      /\ \/ Idle(h)
         \/ /\ h.flags = i.flags /\ h.tracked = i.tracked
            /\ h.progress["book"] = i.progress["book"] + 1
            /\ h.progress["book"] < 0
  BY <1>2, <1>3, <1>4, PageIs
<1>6. Sound(h)
  BY <1>5 DEF TurnOf
<1>7. /\ \A r \in Tracks \ {"book"} :
            h.tracked[r] \in {Nothing, g.tracked[r]} /\ h.progress[r] = g.progress[r]
      /\ h.tracked["book"] \in {Nothing, book}
      /\ i.progress["book"] = b.progress["book"]
  BY <1>2, <1>3, <1>4, <1>5 DEF TurnOf, SameThings
<1>8. Tallied(h)
  BY <1>7 DEF Tallied, Ready, Tracks
<1>9. Anew(g, h)
  <2>1. h.tracked["book"] \notin {Nothing, g.tracked["book"]} => h.progress["book"] = 1 - BookTurns
    <3> SUFFICES ASSUME h.tracked["book"] \notin {Nothing, g.tracked["book"]}
                 PROVE  h.progress["book"] = 1 - BookTurns
      OBVIOUS
    <3>1. h.progress["book"] = i.progress["book"] + 1
      BY <1>5
    <3>2. i.progress["book"] = -BookTurns
      BY <1>7
    <3>3. BookTurns \in Int
      BY OccupationsAssumption
    <3>4. QED
      BY <3>1, <3>2, <3>3
  <2>2. QED
    BY <1>7, <2>1 DEF Anew, FirstTurn
<1>10. CASE Idle(h)
  <2>1. MealIsOne(h) /\ Working(h)
    BY <1>10 DEF MealIsOne, Working, Idle, Busy, Nothing
  <2>2. QED
    BY <1>6, <1>8, <1>9, <2>1 DEF Result
<1>11. CASE /\ h.flags = i.flags /\ h.tracked = i.tracked /\ h.progress["book"] < 0
  <2>1. h.flags.occupation = "book" /\ h.flags.verb = "read" /\ h.flags.arg = h.tracked["book"]
    BY <1>4, <1>11 DEF Going
  <2>2. MealIsOne(h) /\ Working(h)
    BY <1>2, <1>11, <2>1 DEF MealIsOne, Working
  <2>3. QED
    BY <1>6, <1>8, <1>9, <2>2 DEF Result
<1>12. QED
  BY <1>5, <1>10, <1>11

(* study_book, of a book that is begun anew.                               *)
LEMMA BeginBookResult ==
    ASSUME NEW g, Ready(g), g.flags.verb = "read", NEW book \in Books, g.flags.arg = book,
           InPack(g, book), NEW confused, NEW h \in BeginBook(g, book, confused)
    PROVE  Result(g, h)
<1> DEFINE n == -BookTurns
           anew == [g EXCEPT !.progress["book"] = n]
           closed == [g EXCEPT !.progress["book"] = 0]
           never == Helpless(closed)
           begun == [anew EXCEPT !.tracked["book"] = book]
           hazy == Helpless(Untracked(g, "book"))
<1>1. h \in {anew, never, UsedUp(never, book), hazy, Untracked(UsedUp(hazy, book), "book")}
            \cup LearnBook(Incomplete(begun, "book"))
  BY DEF BeginBook
<1>2. /\ Quiet(g, g) /\ n \in Int /\ 0 \in Int /\ book \in Goods /\ "book" \in Tracks
      /\ book \in Targets
  BY ReadyIsQuiet, OccupationsAssumption, NoObject DEF Tracks, Targets
<1>3. CASE h = anew
  <2>1. Quiet(g, anew)
    BY <1>2, QuietPage
  <2>2. QED
    BY <1>3, <2>1, QuietIsResult
<1>4. Quiet(g, never)
  <2>1. Quiet(g, closed)
    BY <1>2, QuietPage
  <2> HIDE DEF closed
  <2>2. QED
    BY <2>1, QuietHelpless
<1>5. Quiet(g, hazy)
  BY <1>2, QuietUntracked, QuietHelpless
<1>6. CASE h \in LearnBook(Incomplete(begun, "book"))
  <2> DEFINE b == Begun(g, "book", book, n)
  <2>1. g \in GameType /\ g.place[book] # "gone"
    BY DEF Ready, Sound, InPack
  <2>2. begun = b
    BY <2>1 DEF Begun, GameType
  <2>3. /\ Sound(b) /\ SameMoment(g, b)
        /\ b.tracked["book"] = book /\ b.progress["book"] = n
        /\ \A r \in Tracks \ {"book"} :
              b.tracked[r] = g.tracked[r] /\ b.progress[r] = g.progress[r]
    BY <1>2, <2>1, BegunIs DEF Ready
  <2>4. h \in LearnBook(Incomplete(b, "book"))
    BY <1>6, <2>2
  <2> HIDE DEF b, begun
  <2>5. QED
    BY <2>3, <2>4, PageResult
<1> HIDE DEF never, hazy
<1>7. CASE h \in {never, UsedUp(never, book), hazy, Untracked(UsedUp(hazy, book), "book")}
  <2>1. Quiet(g, UsedUp(never, book)) /\ Quiet(g, UsedUp(hazy, book))
    BY <1>2, <1>4, <1>5, QuietUsedUp
  <2>2. Quiet(g, Untracked(UsedUp(hazy, book), "book"))
    BY <1>2, <2>1, QuietUntracked
  <2>3. Quiet(g, h)
    BY <1>4, <1>5, <1>7, <2>1, <2>2
  <2>4. QED
    BY <2>3, QuietIsResult
<1>8. QED
  BY <1>1, <1>3, <1>6, <1>7

(* study_book, of any book.                                                *)
LEMMA ReadResult ==
    ASSUME NEW g, Ready(g), g.flags.verb = "read", NEW book \in Books, g.flags.arg = book,
           NEW confused, NEW h \in DoRead(g, book, confused)
    PROVE  Result(g, h)
<1>1. CASE ~InPack(g, book)
  <2>1. h = ZeroTime(g)
    BY <1>1 DEF DoRead
  <2>2. QED
    BY <2>1, NoTimeResult
<1>2. CASE InPack(g, book) /\ h \in BeginBook(g, book, confused)
  BY <1>2, BeginBookResult
<1>3. CASE book = g.tracked["book"] /\ h \in LearnBook(Incomplete(g, "book"))
  <2>1. Sound(g) /\ SameMoment(g, g)
    BY SelfIs DEF Ready
  <2>2. QED
    BY <1>3, <2>1, PageResult
<1>4. QED
  BY <1>1, <1>2, <1>3 DEF DoRead

-----------------------------------------------------------------------------
(* Locks and traps.                                                        *)

(* A turn at the lock that b tracks, whether it is the first or not.       *)
LEMMA LockResult ==
    ASSUME NEW g, Ready(g), g.flags.verb \in {"apply", "force"},
           NEW b, Sound(b), SameMoment(g, b), b.tracked["lock"] # Nothing,
           g.flags.verb = "apply" =>
               /\ g.flags.arg \notin LandMines
               /\ g.flags.arg = ADoor <=> b.tracked["lock"] = ADoor,
           \A r \in Tracks \ {"lock"} :
               b.tracked[r] = g.tracked[r] /\ b.progress[r] = g.progress[r],
           \/ b.tracked["lock"] = g.tracked["lock"] /\ b.progress["lock"] = g.progress["lock"]
           \/ b.progress["lock"] = 0,
           NEW i, i = Incomplete(b, "lock"),
           NEW h, NEW X, TurnOf(i, h, "lock", X),
           \/ Idle(h) /\ h.tracked["lock"] = Nothing /\ h.progress["lock"] = 0
           \/ /\ h.flags = i.flags /\ h.tracked = i.tracked
              /\ h.progress["lock"] = i.progress["lock"] + 1
              /\ i.progress["lock"] < MaxTries
    PROVE  Result(g, h)
<1>1. "lock" \in Tracks /\ MaxTries \in Nat
  BY OccupationsAssumption DEF Tracks
<1>2. /\ Sound(i) /\ SameThings(b, i) /\ FlagsAre(b, i, TRUE, b.flags.interrupted, "lock")
  BY <1>1, IncompleteIs
<1>3. i.flags.occupation = "lock" /\ i.flags.verb = g.flags.verb /\ i.flags.arg = g.flags.arg
  BY <1>2 DEF FlagsAre, SameCommand, SameMoment
<1>4. Sound(h)
  BY DEF TurnOf
<1>5. /\ \A r \in Tracks \ {"lock"} :
            h.tracked[r] \in {Nothing, g.tracked[r]} /\ h.progress[r] = g.progress[r]
      /\ i.tracked["lock"] = b.tracked["lock"] /\ i.progress["lock"] = b.progress["lock"]
  BY <1>1, <1>2 DEF TurnOf, SameThings
<1>6. CASE Idle(h) /\ h.tracked["lock"] = Nothing /\ h.progress["lock"] = 0
  <2>1. Keeps(g, h)
    BY <1>5, <1>6 DEF Keeps, Tracks
  <2>2. QED
    BY <1>4, <1>6, <2>1, QuietResult DEF Ready
<1>7. CASE /\ h.flags = i.flags /\ h.tracked = i.tracked
           /\ h.progress["lock"] = i.progress["lock"] + 1
           /\ i.progress["lock"] < MaxTries
  <2>1. PICK n : n = i.progress["lock"]
    OBVIOUS
  <2>2. n \in 0..MaxTries
    <3>1. g.progress["lock"] \in 0..MaxTries
      BY DEF Ready, Tallied
    <3>2. n = g.progress["lock"] \/ n = 0
      BY <1>5, <2>1
    <3>3. QED
      BY <1>1, <3>1, <3>2
  <2>3. h.progress["lock"] = n + 1 /\ n < MaxTries
    BY <1>7, <2>1
  <2>4. h.progress["lock"] \in 0..MaxTries /\ h.progress["lock"] # 0
    BY <1>1, <2>2, <2>3
  <2>5. Tallied(h)
    BY <1>5, <2>4 DEF Tallied, Ready, Tracks
  <2>6. h.flags.occupation = "lock" /\ h.flags.verb = g.flags.verb /\ h.flags.arg = g.flags.arg
    BY <1>3, <1>7
  <2>7. h.tracked["lock"] = b.tracked["lock"]
    BY <1>5, <1>7
  <2>8. MealIsOne(h) /\ Working(h)
    BY <1>1, <2>4, <2>6, <2>7 DEF MealIsOne, Working
  <2>9. Anew(g, h)
    <3>1. h.tracked["lock"] # g.tracked["lock"] => h.progress["lock"] = 1
      <4>1. h.tracked["lock"] # g.tracked["lock"] => n = 0
        BY <1>5, <2>1, <2>7
      <4>2. QED
        BY <2>3, <4>1
    <3>2. QED
      BY <1>5, <3>1 DEF Anew, FirstTurn
  <2>10. QED
    BY <1>4, <2>5, <2>8, <2>9 DEF Result
<1>8. QED
  BY <1>6, <1>7

\* A lock that is begun
LEMMA LockBegunIs ==
    ASSUME NEW g, Ready(g), NEW lock \in Targets, lock \in Goods => g.place[lock] # "gone",
           lock \notin g.obroken
    PROVE  LET b == Begun(g, "lock", lock, 0)
           IN  /\ Sound(b) /\ SameMoment(g, b)
               /\ b.tracked["lock"] = lock /\ b.progress["lock"] = 0
               /\ \A r \in Tracks \ {"lock"} :
                     b.tracked[r] = g.tracked[r] /\ b.progress[r] = g.progress[r]
<1>1. "lock" \in Tracks /\ "lock" # "food" /\ Sound(g)
  BY DEF Tracks, Ready
<1>2. PICK n \in Int : n = 0
  OBVIOUS
<1>3. LET b == Begun(g, "lock", lock, n)
      IN  /\ Sound(b) /\ SameMoment(g, b)
          /\ b.tracked["lock"] = lock /\ b.progress["lock"] = n
          /\ \A r \in Tracks \ {"lock"} :
                b.tracked[r] = g.tracked[r] /\ b.progress[r] = g.progress[r]
  BY <1>1, BegunIs
<1>4. QED
  BY <1>2, <1>3

(* pick_lock, of a box or the door.                                        *)
LEMMA PickResult ==
    ASSUME NEW g, Ready(g), g.flags.verb = "apply", NEW lock \in Boxes \cup {ADoor},
           g.flags.arg = lock, lock \notin LandMines, NEW h \in DoPick(g, lock)
    PROVE  Result(g, h)
<1>1. /\ Sound(g) /\ g \in GameType /\ SameMoment(g, g) /\ "lock" \in Tracks
      /\ lock \in Targets /\ ADoor # Nothing /\ lock # Nothing
      /\ lock # ADoor => lock \in Goods
  BY SelfIs, NoObject DEF Ready, Sound, Tracks, Targets
<1>2. CASE h = ZeroTime(g)
  BY <1>2, NoTimeResult
<1>3. CASE /\ IF lock = ADoor THEN g.tracked["lock"] = ADoor ELSE g.tracked["lock"] # ADoor
           /\ h \in PickOn(Incomplete(g, "lock"))
  <2>1. PICK i : i = Incomplete(g, "lock")
    OBVIOUS
  <2>2. Sound(i) /\ SameThings(g, i) /\ FlagsAre(g, i, TRUE, g.flags.interrupted, "lock")
    BY <1>1, <2>1, IncompleteIs
  <2>3. PICK box : box = i.tracked["lock"]
    OBVIOUS
  <2>4. h \in PickOn(i)
    BY <1>3, <2>1
  <2>5. /\ TurnOf(i, h, "lock", {box})
        /\ \/ Idle(h) /\ h.tracked["lock"] = Nothing /\ h.progress["lock"] = 0
           \/ /\ h.flags = i.flags /\ h.tracked = i.tracked
              /\ h.progress["lock"] = i.progress["lock"] + 1
              /\ i.progress["lock"] < MaxTries
    BY <2>2, <2>3, <2>4, PickIs
  <2>6. CASE g.tracked["lock"] # Nothing
    BY <1>1, <1>3, <2>1, <2>5, <2>6, LockResult
  <2>7. CASE g.tracked["lock"] = Nothing
    <3>1. box = Nothing
      BY <2>2, <2>3, <2>7 DEF SameThings
    <3>2. ~WithYou(i, box) /\ box # ADoor
      BY <3>1, NoObject DEF WithYou
    <3>3. h = GiveUpLock(i)
      BY <2>3, <2>4, <3>2 DEF PickOn
    <3>4. SameCommand(i, i) /\ LosesTraces(i, i, Goods) /\ LeavesAlone(i, i, {box})
      BY SelfIs
    <3>5. Idle(h) /\ h.tracked["lock"] = Nothing /\ h.progress["lock"] = 0
      BY <2>2, <3>3, <3>4, GivenUpIs
    <3>6. Sound(h) /\ Keeps(g, h)
      BY <2>2, <2>5, <3>5 DEF TurnOf, SameThings, Keeps, Tracks
    <3>7. QED
      BY <3>5, <3>6, QuietResult DEF Ready
  <2>8. QED
    BY <2>6, <2>7
<1>4. CASE /\ IF lock = ADoor THEN TRUE ELSE g.place[lock] = g.at /\ lock \notin g.obroken
           /\ h \in PickOn(Incomplete(Begun(g, "lock", lock, 0), "lock"))
  <2>1. lock \in Goods => g.place[lock] # "gone"
    BY <1>1, <1>4, NoObject DEF GameType
  <2>2. lock \notin g.obroken
    BY <1>1, <1>4, NoObject DEF GameType
  <2>3. PICK b : b = Begun(g, "lock", lock, 0)
    OBVIOUS
  <2>4. /\ Sound(b) /\ SameMoment(g, b)
        /\ b.tracked["lock"] = lock /\ b.progress["lock"] = 0
        /\ \A r \in Tracks \ {"lock"} :
              b.tracked[r] = g.tracked[r] /\ b.progress[r] = g.progress[r]
    BY <1>1, <2>1, <2>2, <2>3, LockBegunIs
  <2>5. PICK i : i = Incomplete(b, "lock")
    OBVIOUS
  <2>6. Sound(i) /\ SameThings(b, i)
    BY <1>1, <2>4, <2>5, IncompleteIs
  <2>7. lock = i.tracked["lock"] /\ h \in PickOn(i)
    BY <1>4, <2>3, <2>4, <2>5, <2>6 DEF SameThings
  <2>8. /\ TurnOf(i, h, "lock", {lock})
        /\ \/ Idle(h) /\ h.tracked["lock"] = Nothing /\ h.progress["lock"] = 0
           \/ /\ h.flags = i.flags /\ h.tracked = i.tracked
              /\ h.progress["lock"] = i.progress["lock"] + 1
              /\ i.progress["lock"] < MaxTries
    BY <2>6, <2>7, PickIs
  <2>9. QED
    BY <1>1, <2>4, <2>5, <2>8, LockResult
<1>5. QED
  BY <1>2, <1>3, <1>4 DEF DoPick, Begun

(* doforce.                                                                *)
LEMMA ForceResult ==
    ASSUME NEW g, Ready(g), g.flags.verb = "force", NEW box \in Boxes, NEW h \in DoForce(g, box)
    PROVE  Result(g, h)
<1> DEFINE none == Untracked(g, "lock")
<1>1. /\ Sound(g) /\ g \in GameType /\ SameMoment(g, g) /\ "lock" \in Tracks
      /\ box \in Targets /\ box \in Goods /\ box # Nothing
  BY SelfIs, NoObject DEF Ready, Sound, Tracks, Targets
<1>2. CASE h = ZeroTime(g)
  BY <1>2, NoTimeResult
<1>3. CASE h = ZeroTime(none)
  <2>1. Quiet(g, none)
    BY <1>1, ReadyIsQuiet, QuietUntracked
  <2> HIDE DEF none
  <2>2. Quiet(g, h)
    BY <1>3, <2>1, QuietZeroTime DEF Quiet
  <2>3. QED
    BY <2>2, QuietIsResult
<1>4. CASE g.tracked["lock"] # Nothing /\ h \in ForceOn(Incomplete(g, "lock"))
  <2>1. PICK i : i = Incomplete(g, "lock")
    OBVIOUS
  <2>2. Sound(i) /\ SameThings(g, i)
    BY <1>1, <2>1, IncompleteIs
  <2>3. PICK lock : lock = i.tracked["lock"]
    OBVIOUS
  <2>4. h \in ForceOn(i)
    BY <1>4, <2>1
  <2>5. /\ TurnOf(i, h, "lock", {lock} \cup Blades)
        /\ \/ Idle(h) /\ h.tracked["lock"] = Nothing /\ h.progress["lock"] = 0
           \/ /\ h.flags = i.flags /\ h.tracked = i.tracked
              /\ h.progress["lock"] = i.progress["lock"] + 1
              /\ i.progress["lock"] < MaxTries
    BY <2>2, <2>3, <2>4, ForceIs
  <2>6. QED
    BY <1>1, <1>4, <2>1, <2>5, LockResult
<1>5. CASE /\ g.place[box] = g.at /\ box \in g.olocked \ g.obroken
           /\ h \in ForceOn(Incomplete([none EXCEPT !.tracked["lock"] = box], "lock"))
  <2>1. g.place[box] # "gone"
    BY <1>1, <1>5, NoObject DEF GameType
  <2>2. PICK b : b = Begun(g, "lock", box, 0)
    OBVIOUS
  <2>3. [none EXCEPT !.tracked["lock"] = box] = b
    BY <1>1, <2>2 DEF Begun, Untracked, GameType
  <2>4. /\ Sound(b) /\ SameMoment(g, b)
        /\ b.tracked["lock"] = box /\ b.progress["lock"] = 0
        /\ \A r \in Tracks \ {"lock"} :
              b.tracked[r] = g.tracked[r] /\ b.progress[r] = g.progress[r]
    BY <1>1, <1>5, <2>1, <2>2, LockBegunIs
  <2>5. PICK i : i = Incomplete(b, "lock")
    OBVIOUS
  <2>6. Sound(i) /\ SameThings(b, i)
    BY <1>1, <2>4, <2>5, IncompleteIs
  <2>7. box = i.tracked["lock"] /\ h \in ForceOn(i)
    BY <1>5, <2>3, <2>4, <2>5, <2>6 DEF SameThings
  <2>8. /\ TurnOf(i, h, "lock", {box} \cup Blades)
        /\ \/ Idle(h) /\ h.tracked["lock"] = Nothing /\ h.progress["lock"] = 0
           \/ /\ h.flags = i.flags /\ h.tracked = i.tracked
              /\ h.progress["lock"] = i.progress["lock"] + 1
              /\ i.progress["lock"] < MaxTries
    BY <2>6, <2>7, ForceIs
  <2>9. QED
    BY <1>1, <2>4, <2>5, <2>8, LockResult
<1>6. QED
  BY <1>2, <1>3, <1>4, <1>5 DEF DoForce

(* A turn at the trap that b sets, whether it is the first or not.         *)
LEMMA TrapTurnResult ==
    ASSUME NEW g, Ready(g), g.flags.verb = "apply", NEW mine \in LandMines, g.flags.arg = mine,
           NEW b, Sound(b), SameMoment(g, b), b.tracked["trap"] = mine,
           \A r \in Tracks \ {"trap"} :
               b.tracked[r] = g.tracked[r] /\ b.progress[r] = g.progress[r],
           g.tracked["trap"] = mine \/ b.progress["trap"] = MineTurns,
           NEW h, h = SetOn(Incomplete(b, "trap"))
    PROVE  Result(g, h)
<1>1. PICK i : i = Incomplete(b, "trap")
  OBVIOUS
<1>2. "trap" \in Tracks /\ h = SetOn(i)
  BY <1>1 DEF Tracks
<1>3. /\ Sound(i) /\ SameThings(b, i) /\ FlagsAre(b, i, TRUE, b.flags.interrupted, "trap")
  BY <1>1, <1>2, IncompleteIs
<1>4. /\ i.tracked["trap"] = mine /\ i.progress["trap"] = b.progress["trap"]
      /\ i.flags.occupation = "trap" /\ i.flags.verb = "apply" /\ i.flags.arg = mine
  BY <1>3 DEF SameThings, FlagsAre, SameCommand, SameMoment
<1>5. /\ TurnOf(i, h, "trap", {mine})
      /\ \/ Idle(h) /\ h.tracked["trap"] = Nothing
         \/ /\ h.flags = i.flags /\ h.tracked = i.tracked
            /\ h.progress["trap"] = i.progress["trap"] - 1
            /\ h.progress["trap"] > 0 /\ i.at = i.site
  BY <1>2, <1>3, <1>4, SetIs
<1>6. /\ Sound(h) /\ h.at = i.at /\ h.site = i.site
      /\ \A r \in Tracks \ {"trap"} :
            h.tracked[r] \in {Nothing, g.tracked[r]} /\ h.progress[r] = g.progress[r]
  BY <1>2, <1>3, <1>5 DEF TurnOf, SameThings
<1>7. CASE Idle(h) /\ h.tracked["trap"] = Nothing
  <2>1. Keeps(g, h)
    BY <1>6, <1>7 DEF Keeps, Tracks
  <2>2. QED
    BY <1>6, <1>7, <2>1, QuietResult DEF Ready
<1>8. CASE /\ h.flags = i.flags /\ h.tracked = i.tracked
           /\ h.progress["trap"] = i.progress["trap"] - 1
           /\ h.progress["trap"] > 0 /\ i.at = i.site
  <2>1. Tallied(h)
    BY <1>6 DEF Tallied, Ready, Tracks
  <2>2. MealIsOne(h) /\ Working(h)
    BY <1>2, <1>4, <1>6, <1>8 DEF MealIsOne, Working
  <2>3. Anew(g, h)
    <3>1. h.tracked["trap"] # g.tracked["trap"] => h.progress["trap"] = MineTurns - 1
      BY <1>4, <1>8
    <3>2. QED
      BY <1>6, <3>1 DEF Anew, FirstTurn
  <2>4. QED
    BY <1>6, <2>1, <2>2, <2>3 DEF Result
<1>9. QED
  BY <1>5, <1>7, <1>8

\* use_trap remembers where the trap is to be
Sited(g, mine, spot) ==
    [g EXCEPT !.tracked["trap"] = mine, !.site = spot, !.progress["trap"] = MineTurns]

(* use_trap: the trap is tracked, at the place where the player is.        *)
LEMMA SitedIs ==
    ASSUME NEW g, Sound(g), NEW mine \in Goods, g.place[mine] # "gone", NEW spot \in Places
    PROVE  LET h == Sited(g, mine, spot)
           IN  /\ Sound(h) /\ SameObjects(g, h) /\ SameMoment(g, h)
               /\ h.tracked["trap"] = mine /\ h.progress["trap"] = MineTurns
               /\ \A r \in Tracks \ {"trap"} :
                     h.tracked[r] = g.tracked[r] /\ h.progress[r] = g.progress[r]
<1> DEFINE h == Sited(g, mine, spot)
<1>1. g \in GameType /\ MineTurns \in Int /\ "trap" \in Tracks /\ mine \in Targets
  BY OccupationsAssumption DEF Sound, Tracks, Targets
<1>2. /\ [g.tracked EXCEPT !["trap"] = mine] \in [Tracks -> Targets]
      /\ [g.progress EXCEPT !["trap"] = MineTurns] \in [Tracks -> Int]
      /\ spot \in Places \cup {Nothing}
  BY <1>1 DEF GameType
<1>3. /\ SameObjects(g, h) /\ SameMoment(g, h)
      /\ h.tracked = [g.tracked EXCEPT !["trap"] = mine]
      /\ h.progress = [g.progress EXCEPT !["trap"] = MineTurns]
  BY <1>1 DEF GameType, Sited, SameObjects, SameMoment
<1>4. h \in GameType
  BY <1>1, <1>2 DEF GameType, Sited
<1> HIDE DEF h
<1>5. /\ h.tracked["trap"] = mine /\ h.progress["trap"] = MineTurns
      /\ \A r \in Tracks \ {"trap"} :
            h.tracked[r] = g.tracked[r] /\ h.progress[r] = g.progress[r]
  BY <1>1, <1>3 DEF GameType
<1>6. SameCommand(g, h)
  BY <1>3 DEF SameCommand, SameMoment
<1>7. \A r \in Tracks :
          \/ h.tracked[r] \in {Nothing, g.tracked[r]}
          \/ /\ h.tracked[r] \in Goods => g.place[h.tracked[r]] # "gone"
             /\ r = "food" => h.tracked[r] \in Meals
             /\ r = "lock" => h.tracked[r] \notin g.obroken
  BY <1>5
<1>8. Sound(h)
  BY <1>3, <1>4, <1>6, <1>7, TracesAreSound
<1>9. QED
  BY <1>3, <1>5, <1>8 DEF h

\* No trap is tracked any more
LEMMA NoTrapIs ==
    ASSUME NEW g, NEW b, Sound(b), SameMoment(g, b),
           \A r \in Tracks \ {"trap"} :
               b.tracked[r] = g.tracked[r] /\ b.progress[r] = g.progress[r]
    PROVE  LET h == [b EXCEPT !.tracked["trap"] = Nothing]
           IN  Sound(h) /\ SameObjects(b, h) /\ SameMoment(g, h) /\ Keeps(g, h)
<1> DEFINE h == [b EXCEPT !.tracked["trap"] = Nothing]
<1>1. "trap" \in Tracks /\ Nothing \in Targets /\ Nothing \notin Goods /\ b \in GameType
  BY NoObject DEF Tracks, Targets, Sound
<1>2. /\ Sound(h) /\ SameObjects(b, h) /\ SameMoment(b, h)
      /\ h.progress = b.progress /\ h.tracked = [b.tracked EXCEPT !["trap"] = Nothing]
  BY <1>1, TrackIs
<1> HIDE DEF h
<1>3. /\ h.tracked["trap"] = Nothing
      /\ \A r \in Tracks \ {"trap"} : h.tracked[r] = g.tracked[r] /\ h.progress[r] = g.progress[r]
  BY <1>1, <1>2 DEF GameType
<1>4. Keeps(g, h)
  BY <1>3 DEF Keeps, Tracks
<1>5. SameMoment(g, h)
  BY <1>2 DEF SameMoment
<1>6. QED
  BY <1>2, <1>4, <1>5 DEF h

(* use_trap, of the trap that is tracked or another.                       *)
LEMMA TrapResult ==
    ASSUME NEW g, Ready(g), g.flags.verb = "apply", NEW mine \in LandMines, g.flags.arg = mine,
           NEW h \in DoSetTrap(g, mine)
    PROVE  Result(g, h)
<1>1. PICK spot : spot = g.at
  OBVIOUS
<1> DEFINE begun == Sited(g, mine, spot)
           never == [begun EXCEPT !.tracked["trap"] = Nothing]
           none == [g EXCEPT !.tracked["trap"] = Nothing]
<1>2. /\ Sound(g) /\ SameMoment(g, g) /\ mine \in Goods /\ spot \in Places
  BY <1>1, SelfIs, NoObject DEF Ready, Sound, GameType
<1>3. CASE ~InPack(g, mine)
  <2>1. h = ZeroTime(g)
    BY <1>3 DEF DoSetTrap
  <2>2. QED
    BY <2>1, NoTimeResult
<1>4. CASE h = ZeroTime(none)
  <2>1. Sound(none) /\ Keeps(g, none)
    BY <1>2, NoTrapIs
  <2> HIDE DEF none
  <2>2. QED
    BY <1>4, <2>1, QuietZeroTime, QuietIsResult
<1>5. CASE mine = g.tracked["trap"] /\ h = SetOn(Incomplete(g, "trap"))
  BY <1>2, <1>5, TrapTurnResult
<1>6. CASE InPack(g, mine) /\ h \in {SetOn(Incomplete(begun, "trap")), ZeroTime(never)}
                                        \cup DroppedHere(never, mine)
  <2>1. g.place[mine] # "gone"
    BY <1>6 DEF InPack
  <2>2. /\ Sound(begun) /\ SameObjects(g, begun) /\ SameMoment(g, begun)
        /\ begun.tracked["trap"] = mine /\ begun.progress["trap"] = MineTurns
        /\ \A r \in Tracks \ {"trap"} :
              begun.tracked[r] = g.tracked[r] /\ begun.progress[r] = g.progress[r]
    BY <1>2, <2>1, SitedIs
  <2> HIDE DEF begun
  <2>3. CASE h = SetOn(Incomplete(begun, "trap"))
    BY <2>2, <2>3, TrapTurnResult
  <2>4. Sound(never) /\ SameObjects(begun, never) /\ SameMoment(g, never) /\ Keeps(g, never)
    BY <2>2, NoTrapIs
  <2> HIDE DEF never
  <2>5. CASE h = ZeroTime(never)
    BY <2>4, <2>5, QuietZeroTime, QuietIsResult
  <2>6. CASE h \in DroppedHere(never, mine)
    <3>1. never.place[mine] # "gone"
      BY <2>1, <2>2, <2>4 DEF SameObjects
    <3>2. Sound(h) /\ SameMoment(never, h) /\ LosesTraces(never, h, Goods)
      BY <1>2, <2>4, <2>6, <3>1, DroppedIs
    <3>3. Keeps(g, h) /\ SameMoment(g, h)
      BY <2>4, <3>2, LosingKeeps, KeepsTwice DEF SameMoment
    <3>4. QED
      BY <3>2, <3>3, SameIsQuiet
  <2>7. QED
    BY <1>6, <2>3, <2>5, <2>6
<1>7. \/ ~InPack(g, mine) \/ h = ZeroTime(none)
      \/ mine = g.tracked["trap"] /\ h = SetOn(Incomplete(g, "trap"))
      \/ InPack(g, mine) /\ h \in {SetOn(Incomplete(begun, "trap")), ZeroTime(never)}
                                        \cup DroppedHere(never, mine)
  BY <1>1 DEF DoSetTrap, Sited
<1>8. QED
  BY <1>3, <1>4, <1>5, <1>6, <1>7

-----------------------------------------------------------------------------
(* Every command.                                                          *)
LEMMA OutcomeIsSound ==
    ASSUME NEW g, Ready(g), NEW verb, NEW arg,
           \/ /\ <<verb, arg>> \in LongCommands
              /\ g.flags.verb = verb /\ g.flags.arg = arg
           \/ <<verb, arg>> \in ShortCommands,
           NEW repeated, NEW confused, NEW h \in Outcomes(g, verb, arg, repeated, confused)
    PROVE  Result(g, h)
<1>1. CASE <<verb, arg>> \in LongCommands /\ g.flags.verb = verb /\ g.flags.arg = arg
  <2>1. \/ verb = "eat" /\ arg \in Meals \cup Tins
        \/ verb = "read" /\ arg \in Books
        \/ verb = "apply" /\ arg \in Boxes \cup {ADoor} \cup LandMines
        \/ verb = "force" /\ arg \in Boxes
    BY <1>1 DEF LongCommands
  <2>2. CASE verb = "eat" /\ arg \in Meals \cup Tins
    <3>1. h \in DoEat(g, arg, repeated)
      BY <2>2 DEF Outcomes
    <3>2. QED
      BY <1>1, <2>2, <3>1, EatResult
  <2>3. CASE verb = "read" /\ arg \in Books
    <3>1. h \in DoRead(g, arg, confused)
      BY <2>3 DEF Outcomes
    <3>2. QED
      BY <1>1, <2>3, <3>1, ReadResult
  <2>4. CASE verb = "apply" /\ arg \in LandMines
    <3>1. h \in DoSetTrap(g, arg)
      BY <2>4 DEF Outcomes
    <3>2. QED
      BY <1>1, <2>4, <3>1, TrapResult
  <2>5. CASE verb = "apply" /\ arg \in Boxes \cup {ADoor} /\ arg \notin LandMines
    <3>1. h \in DoPick(g, arg)
      BY <2>5 DEF Outcomes
    <3>2. QED
      BY <1>1, <2>5, <3>1, PickResult
  <2>6. CASE verb = "force" /\ arg \in Boxes
    <3>1. h \in DoForce(g, arg)
      BY <2>6 DEF Outcomes
    <3>2. QED
      BY <1>1, <2>6, <3>1, ForceResult
  <2>7. QED
    BY <2>1, <2>2, <2>3, <2>4, <2>5, <2>6
<1>2. CASE <<verb, arg>> \in ShortCommands
  <2>1. \/ verb = "drop" /\ arg \in Goods
        \/ verb = "pickup" /\ arg \in Goods
        \/ verb = "move" /\ arg \in Places
        \/ verb \in {"locking", "opening"} /\ arg \in {ADoor, "down"}
    BY <1>2 DEF ShortCommands
  <2>2. CASE verb = "drop" /\ arg \in Goods
    <3>1. h \in DoDrop(g, arg)
      BY <2>2 DEF Outcomes
    <3>2. QED
      BY <2>2, <3>1, DropResult
  <2>3. CASE verb = "pickup" /\ arg \in Goods
    <3>1. h \in DoPickUp(g, arg)
      BY <2>3 DEF Outcomes
    <3>2. QED
      BY <2>3, <3>1, PickUpResult
  <2>4. CASE verb = "move" /\ arg \in Places
    <3>1. h \in DoMove(g, arg)
      BY <2>4 DEF Outcomes
    <3>2. QED
      BY <2>4, <3>1, MoveResult
  <2>5. CASE verb \in {"locking", "opening"}
    <3>1. h \in DoZap(g, verb, arg)
      BY <2>5 DEF Outcomes
    <3>2. QED
      BY <3>1, ZapResult
  <2>6. QED
    BY <2>1, <2>2, <2>3, <2>4, <2>5
<1>3. QED
  BY <1>1, <1>2

-----------------------------------------------------------------------------
(* The invariant.                                                          *)

(* The part of the invariant that speaks of a game.                        *)
GameInv(g) == Sound(g) /\ Tallied(g) /\ MealIsOne(g) /\ Working(g)

(* When a command is read the lock that is tracked is at hand; and once    *)
(* the "interrupt" is recorded no command is under way.                    *)
OccInv ==
    /\ GameInv(Game)
    /\ moment \in {"input", "notice", "moved"}
    /\ moment # "moved" => AtHand(Game)
    /\ moment = "notice" => Idle(Game) /\ flags.interrupted

(* What is not a turn of an occupation only loses traces, and leaves a     *)
(* command that it does not interrupt where it is.                         *)
Passes(g, k) ==
    /\ Sound(k)
    /\ \A s \in Tracks : \/ k.tracked[s] = Nothing
                         \/ /\ k.tracked[s] = g.tracked[s]
                            /\ k.progress[s] = g.progress[s]
    /\ k.progress["lock"] \in {0, g.progress["lock"]}
    /\ k.tracked["food"] # Nothing =>
          /\ k.quan[k.tracked["food"]] = g.quan[k.tracked["food"]]
          /\ k.oeaten[k.tracked["food"]] = g.oeaten[k.tracked["food"]]
    /\ \/ ~Busy(k) /\ k.flags.occupation \in {Nothing, g.flags.occupation}
       \/ k.flags = g.flags /\ k.at = g.at /\ k.site = g.site

(* Steps that are not turns come one after another.                        *)
LEMMA PassesTwice ==
    ASSUME NEW g, NEW t, NEW k, Passes(g, t), Passes(t, k)
    PROVE  Passes(g, k)
<1>1. \A s \in Tracks : \/ k.tracked[s] = Nothing
                        \/ k.tracked[s] = g.tracked[s] /\ k.progress[s] = g.progress[s]
  BY DEF Passes
<1>2. k.progress["lock"] \in {0, g.progress["lock"]}
  BY DEF Passes
<1>3. k.tracked["food"] # Nothing =>
          /\ k.quan[k.tracked["food"]] = g.quan[k.tracked["food"]]
          /\ k.oeaten[k.tracked["food"]] = g.oeaten[k.tracked["food"]]
  BY DEF Passes, Tracks
<1>4. \/ ~Busy(k) /\ k.flags.occupation \in {Nothing, g.flags.occupation}
      \/ k.flags = g.flags /\ k.at = g.at /\ k.site = g.site
  BY DEF Passes, Busy
<1>5. QED
  BY <1>1, <1>2, <1>3, <1>4 DEF Passes

(* They keep the invariant and begin nothing.                              *)
LEMMA PassedIs ==
    ASSUME NEW g, GameInv(g), NEW k, Passes(g, k)
    PROVE  GameInv(k) /\ Anew(g, k)
<1>1. Sound(k) /\ Sound(g)
  BY DEF Passes, GameInv
<1>2. Tallied(k)
  <2>1. 0 \in 0..MaxTries
    BY OccupationsAssumption
  <2>2. QED
    BY <2>1 DEF Passes, Tallied, GameInv, Tracks
<1>3. MealIsOne(k)
  <2> SUFFICES ASSUME k.flags.occupation = "food", k.tracked["food"] # Nothing
               PROVE  /\ k.quan[k.tracked["food"]] = 1
                      /\ k.oeaten[k.tracked["food"]] \in 1..MealSize
    BY DEF MealIsOne
  <2>1. g.flags.occupation = "food"
    BY DEF Passes, Nothing
  <2>2. k.tracked["food"] = g.tracked["food"]
    BY DEF Passes, Tracks
  <2>3. QED
    BY <2>1, <2>2 DEF Passes, GameInv, MealIsOne
<1>4. Working(k)
  <2>1. CASE ~Busy(k)
    BY <2>1 DEF Working
  <2>2. CASE k.flags = g.flags /\ k.at = g.at /\ k.site = g.site
    <3>1. \A s \in Tracks : \/ k.tracked[s] = Nothing
                            \/ k.tracked[s] = g.tracked[s] /\ k.progress[s] = g.progress[s]
      BY DEF Passes
    <3>2. Working(g)
      BY DEF GameInv
    <3>3. QED
      BY <2>2, <3>1, <3>2 DEF Working, Busy, Tracks
  <2>3. QED
    BY <2>1, <2>2 DEF Passes
<1>5. Anew(g, k)
  BY DEF Anew, Passes
<1>6. QED
  BY <1>1, <1>2, <1>3, <1>4, <1>5 DEF GameInv

(* A change of flags is such a step if it ends, interrupts or keeps what   *)
(* is under way;                                                           *)
LEMMA SamePasses ==
    ASSUME NEW g, NEW k, Sound(k), SameThings(g, k),
           \/ ~Busy(k) /\ k.flags.occupation \in {Nothing, g.flags.occupation}
           \/ k.flags = g.flags
    PROVE  Passes(g, k)
  BY DEF Passes, SameThings, Tracks

(* so is no change at all,                                                 *)
LEMMA SelfPasses ==
    ASSUME NEW g, Sound(g)
    PROVE  Passes(g, g)
<1>1. SameThings(g, g)
  BY DEF SameThings
<1>2. QED
  BY <1>1, SamePasses

(* the start of a command, which ends what was under way,                  *)
LEMMA CleanPasses ==
    ASSUME NEW g, Sound(g)
    PROVE  Passes(g, Clean(g)) /\ Idle(Clean(g)) /\ ~Clean(g).flags.interrupted
<1>1. Sound(Clean(g)) /\ SameThings(g, Clean(g)) /\ FlagsAre(g, Clean(g), FALSE, FALSE, Nothing)
  BY CleanIs
<1>2. QED
  BY <1>1, SamePasses DEF FlagsAre, Busy, Idle

(* an interruption,                                                        *)
LEMMA InterruptedPasses ==
    ASSUME NEW g, Sound(g)
    PROVE  /\ Passes(g, Interrupted(g)) /\ Interrupted(g).flags.interrupted
           /\ Interrupted(g).flags.incomplete = g.flags.incomplete
           /\ Interrupted(g).flags.occupation = g.flags.occupation
           /\ SameThings(g, Interrupted(g))
<1>1. /\ Sound(Interrupted(g)) /\ SameThings(g, Interrupted(g))
      /\ FlagsAre(g, Interrupted(g), g.flags.incomplete, TRUE, g.flags.occupation)
  BY InterruptedIs
<1>2. QED
  BY <1>1, SamePasses DEF FlagsAre, Busy

(* helplessness,                                                           *)
LEMMA HelplessPasses ==
    ASSUME NEW g, Sound(g)
    PROVE  Passes(g, Helpless(g))
<1>1. /\ Sound(Helpless(g)) /\ SameThings(g, Helpless(g))
      /\ FlagsAre(g, Helpless(g), g.flags.incomplete, TRUE, g.flags.occupation)
  BY HelplessIs
<1>2. QED
  BY <1>1, SamePasses DEF FlagsAre, Busy

(* a command that takes no time,                                           *)
LEMMA ZeroTimePasses ==
    ASSUME NEW g, Sound(g)
    PROVE  /\ Passes(g, ZeroTime(g)) /\ SameThings(g, ZeroTime(g))
           /\ FlagsAre(g, ZeroTime(g), FALSE, TRUE, Nothing)
           /\ ZeroTime(g).helpless = g.helpless
<1>1. /\ Sound(ZeroTime(g)) /\ SameThings(g, ZeroTime(g))
      /\ FlagsAre(g, ZeroTime(g), FALSE, TRUE, Nothing) /\ ZeroTime(g).helpless = g.helpless
  BY ZeroTimeIs
<1>2. QED
  BY <1>1, SamePasses DEF FlagsAre, Busy

(* and reset_occupations, after which the lock is at hand.                 *)
LEMMA ResetPasses ==
    ASSUME NEW g, Sound(g), NEW moved \in BOOLEAN
    PROVE  Passes(g, ResetOccs(g, moved)) /\ AtHand(ResetOccs(g, moved))
<1> DEFINE k == ResetOccs(g, moved)
<1>1. /\ Sound(k) /\ SameObjects(g, k) /\ SameSpot(g, k) /\ SameMoment(g, k)
      /\ AtHand(k) /\ Keeps(g, k)
      /\ \A s \in Tracks : \/ k.tracked[s] = Nothing
                           \/ k.tracked[s] = g.tracked[s] /\ k.progress[s] = g.progress[s]
  BY ResetIs
<1> HIDE DEF k
<1>2. Passes(g, k)
  BY <1>1 DEF Passes, SameObjects, SameSpot, SameMoment, Keeps
<1>3. QED
  BY <1>1, <1>2 DEF k

(* What the game becomes is what the command leaves, but for the time.     *)
LEMMA BecomingIs ==
    ASSUME NEW k, Sound(k), Becoming(k)
    PROVE  /\ Passes(k, Game') /\ SameThings(k, Game') /\ (Game').flags = k.flags
           /\ (Game').helpless = k.helpless
<1> DEFINE h == [k EXCEPT !.took = TRUE]
<1>1. k \in GameType
  BY DEF Sound
<1>2. /\ SameThings(k, h) /\ h.flags = k.flags /\ h.helpless = k.helpless /\ h.took = TRUE
      /\ h \in GameType
  BY <1>1 DEF GameType, SameThings
<1> HIDE DEF h
<1>3. Becoming(h)
  BY <1>2 DEF Becoming, SameThings
<1>4. Game' = h
  BY <1>2, <1>3 DEF Becoming, Game, GameType
<1>5. SameCommand(k, h)
  BY <1>2 DEF SameCommand
<1>6. Sound(h)
  BY <1>2, <1>5, SameThingsAreSound
<1>7. Passes(k, h)
  BY <1>2, <1>6, SamePasses
<1>8. QED
  BY <1>2, <1>4, <1>7

-----------------------------------------------------------------------------
(* The steps.                                                              *)

\* What every step comes to
StepIs ==
    /\ GameInv(Game') /\ Anew(Game, Game')
    /\ moment' \in {"input", "notice", "moved"}
    /\ moment' # "moved" => AtHand(Game')
    /\ moment' = "notice" => Idle(Game') /\ (Game').flags.interrupted

(* It is the invariant, of the next state.                                 *)
LEMMA StepKeepsInv ==
    ASSUME StepIs
    PROVE  OccInv'
<1>1. GameInv(Game) '
  BY DEF StepIs
<1>2. (Game').flags = flags'
  BY DEF Game
<1>3. /\ moment' # "moved" => AtHand(Game) '
      /\ moment' = "notice" => Idle(Game) ' /\ flags'.interrupted
  BY <1>2 DEF StepIs
<1>4. QED
  BY <1>1, <1>3 DEF StepIs, OccInv

(* The lock stays at hand while nothing but flags change.                  *)
LEMMA StillAtHand ==
    ASSUME NEW k, AtHand(k), NEW h, SameThings(k, h)
    PROVE  AtHand(h)
  BY DEF AtHand, SameThings

(* A command: the turn goes on, or there is another one to read.           *)
LEMMA EnteredIs ==
    ASSUME NEW last, last.tracked = Game.tracked, NEW games,
           \A h \in games : Result(last, h), Entered(games)
    PROVE  StepIs
<1>1. PICK h \in games : /\ Becoming(IF h.took THEN h ELSE ResetOccs(h, FALSE))
                         /\ moment' = IF h.took THEN "moved" ELSE "input"
  BY DEF Entered
<1>2. Result(last, h)
  OBVIOUS
<1>3. GameInv(h) /\ Sound(h) /\ Anew(Game, h)
  BY <1>2 DEF Result, GameInv, Anew
<1>4. CASE h.took
  <2>1. Becoming(h) /\ moment' = "moved"
    BY <1>1, <1>4
  <2>2. Passes(h, Game')
    BY <1>3, <2>1, BecomingIs
  <2>3. GameInv(Game')
    BY <1>3, <2>2, PassedIs
  <2>4. Anew(Game, Game')
    BY <1>3, <2>2 DEF Anew, Passes
  <2>5. QED
    BY <2>1, <2>3, <2>4 DEF StepIs
<1>5. CASE ~h.took
  <2>1. PICK k : k = ResetOccs(h, FALSE)
    OBVIOUS
  <2>2. Becoming(k) /\ moment' = "input"
    BY <1>1, <1>5, <2>1
  <2>3. Passes(h, k) /\ AtHand(k) /\ Sound(k)
    BY <1>3, <2>1, ResetPasses DEF Passes
  <2>4. Passes(k, Game') /\ SameThings(k, Game')
    BY <2>2, <2>3, BecomingIs
  <2>5. Passes(h, Game') /\ AtHand(Game')
    BY <2>3, <2>4, PassesTwice, StillAtHand
  <2>6. GameInv(Game')
    BY <1>3, <2>5, PassedIs
  <2>7. Anew(Game, Game')
    BY <1>3, <2>5 DEF Anew, Passes
  <2>8. QED
    BY <2>2, <2>5, <2>6, <2>7 DEF StepIs
<1>6. QED
  BY <1>4, <1>5

(* The command that is recorded as the last one.                           *)
Recorded(verb, arg) == [Clean(Game) EXCEPT !.flags.verb = verb, !.flags.arg = arg]

(* The command that is given is recorded before it is carried out, and     *)
(* finds a game that is ready for it.                                      *)
LEMMA LastIs ==
    ASSUME GameInv(Game), NEW verb, NEW arg,
           verb # Nothing => <<verb, arg>> \in LongCommands, arg \in Targets, verb \in Verbs,
           NEW last, last = Recorded(verb, arg)
    PROVE  /\ Ready(last) /\ last.flags.verb = verb /\ last.flags.arg = arg
           /\ last.tracked = Game.tracked
<1>1. PICK c : c = Clean(Game)
  OBVIOUS
<1>2. /\ Sound(Game) /\ Sound(c) /\ SameThings(Game, c) /\ FlagsAre(Game, c, FALSE, FALSE, Nothing)
      /\ c \in GameType
  <2>1. Sound(Game)
    BY DEF GameInv
  <2>2. Sound(c) /\ SameThings(Game, c) /\ FlagsAre(Game, c, FALSE, FALSE, Nothing)
    BY <1>1, <2>1, CleanIs, Zenon
  <2>3. c \in GameType
    BY <2>2 DEF Sound
  <2>4. QED
    BY <2>1, <2>2, <2>3
<1> DEFINE f == [c.flags EXCEPT !.verb = verb, !.arg = arg]
<1>3. c.flags \in Flags
  BY <1>2, FlagTypes
<1>4. last = [c EXCEPT !.flags = f]
  BY <1>1, <1>2, <1>3 DEF GameType, Flags, Recorded
<1>5. /\ f.incomplete = c.flags.incomplete /\ f.interrupted = c.flags.interrupted
      /\ f.occupation = c.flags.occupation /\ f.verb = verb /\ f.arg = arg /\ f \in Flags
  BY <1>3 DEF Flags
<1> HIDE DEF f
<1>6. /\ last.flags.incomplete = c.flags.incomplete
      /\ last.flags.interrupted = c.flags.interrupted
      /\ last.flags.occupation = c.flags.occupation
      /\ last.flags.verb = verb /\ last.flags.arg = arg /\ last.flags \in Flags
  BY <1>2, <1>4, <1>5 DEF GameType
<1>7. SameThings(c, last) /\ last.took = c.took /\ last.helpless = c.helpless
  BY <1>2, <1>4 DEF GameType, SameThings
<1>8. last \in GameType
  BY <1>2, <1>4, <1>6 DEF GameType
<1>9. Sound(last)
  BY <1>2, <1>6, <1>7, <1>8 DEF Sound, SameThings
<1>10. SameThings(Game, last)
  BY <1>2, <1>7 DEF SameThings
<1>11. Tallied(last) /\ Idle(last) /\ ~last.flags.interrupted
  BY <1>2, <1>6, <1>10 DEF GameInv, Tallied, SameThings, Idle, FlagsAre
<1>12. QED
  BY <1>6, <1>9, <1>10, <1>11 DEF Ready, SameThings

(* A command that the player gives.                                        *)
LEMMA GiveCommandStep ==
    ASSUME OccInv, NEW c \in LongCommands \cup ShortCommands, GiveCommand(c[1], c[2])
    PROVE  StepIs
<1>1. PICK verb, arg : verb = c[1] /\ arg = c[2]
  OBVIOUS
<1>2. <<verb, arg>> = c
  BY <1>1 DEF LongCommands, ShortCommands
<1> DEFINE long == <<verb, arg>> \in LongCommands
           v == IF long THEN verb ELSE Nothing
           a == IF long THEN arg ELSE Nothing
<1>3. PICK last : last = Recorded(v, a)
  OBVIOUS
<1>4. PICK confused : Entered(Outcomes(last, verb, arg, FALSE, confused))
  BY <1>3, <1>1 DEF GiveCommand, Recorded
<1>5. (v # Nothing => <<v, a>> \in LongCommands) /\ a \in Targets /\ v \in Verbs
  BY NoObject DEF LongCommands, Targets, Verbs
<1>6. long => v = verb /\ a = arg
  OBVIOUS
<1> HIDE DEF v, a
<1>7. /\ Ready(last) /\ last.flags.verb = v /\ last.flags.arg = a /\ last.tracked = Game.tracked
  BY <1>3, <1>5, LastIs DEF OccInv
<1>8. \A h \in Outcomes(last, verb, arg, FALSE, confused) : Result(last, h)
  BY <1>2, <1>7, <1>6, OutcomeIsSound
<1>9. QED
  BY <1>4, <1>7, <1>8, EnteredIs

(* "repeat": the last command, on a game with the same traces.             *)
LEMMA RepeatStep ==
    ASSUME OccInv, Repeat
    PROVE  StepIs
<1>1. PICK g : g = Clean(Game)
  OBVIOUS
<1>2. /\ GameInv(Game) /\ Sound(Game) /\ Sound(g) /\ SameThings(Game, g)
      /\ FlagsAre(Game, g, FALSE, FALSE, Nothing)
  BY <1>1, CleanIs DEF OccInv, GameInv
<1>3. Ready(g)
  BY <1>2 DEF Ready, GameInv, Tallied, SameThings, Idle, FlagsAre
<1>4. g.flags.verb = flags.verb /\ g.flags.arg = flags.arg
  BY <1>2 DEF FlagsAre, SameCommand, Game
<1>5. <<flags.verb, flags.arg>> \in LongCommands
  BY <1>2 DEF Repeat, Sound, Game
<1>6. PICK confused : Entered(Outcomes(g, flags.verb, flags.arg, TRUE, confused))
  BY <1>1 DEF Repeat
<1>7. \A h \in Outcomes(g, flags.verb, flags.arg, TRUE, confused) : Result(g, h)
  BY <1>3, <1>4, <1>5, OutcomeIsSound
<1>8. g.tracked = Game.tracked
  BY <1>2 DEF SameThings
<1>9. QED
  BY <1>6, <1>7, <1>8, EnteredIs

(* A step that is no command.                                              *)
LEMMA PassingStep ==
    ASSUME OccInv, NEW k, Passes(Game, k), Becoming(k),
           moment' \in {"input", "moved"}, moment' # "moved" => AtHand(k)
    PROVE  StepIs
<1>1. Sound(k)
  BY DEF Passes
<1>2. Passes(k, Game') /\ SameThings(k, Game')
  BY <1>1, BecomingIs
<1>3. Passes(Game, Game')
  BY <1>2, PassesTwice
<1>4. GameInv(Game') /\ Anew(Game, Game')
  BY <1>3, PassedIs DEF OccInv
<1>5. moment' # "moved" => AtHand(Game')
  BY <1>2, StillAtHand
<1>6. QED
  BY <1>4, <1>5 DEF StepIs

\* reset_occupations after what only passes
LEMMA PassesReset ==
    ASSUME NEW g, NEW t, Passes(g, t), NEW moved \in BOOLEAN
    PROVE  Passes(g, ResetOccs(t, moved)) /\ AtHand(ResetOccs(t, moved))
<1>1. Sound(t)
  BY DEF Passes
<1>2. Passes(t, ResetOccs(t, moved)) /\ AtHand(ResetOccs(t, moved))
  BY <1>1, ResetPasses
<1>3. QED
  BY <1>2, PassesTwice

\* What the loop does around the commands
LEMMA LoopStep ==
    ASSUME OccInv, HelplessTurn \/ InterruptCommand \/ ServerCancel \/ Notice \/ EndTurn
    PROVE  StepIs
<1>1. Sound(Game) /\ moment \in {"input", "notice", "moved"} /\ FALSE \in BOOLEAN
  BY DEF OccInv, GameInv
<1>2. Passes(Game, Game) /\ Passes(Game, Clean(Game)) /\ Passes(Game, Interrupted(Game))
  BY <1>1, SelfPasses, CleanPasses, InterruptedPasses
<1>3. Sound(Clean(Game)) /\ Sound(Interrupted(Game))
  BY <1>2 DEF Passes
<1>4. CASE HelplessTurn
  <2>1. Becoming(Clean(Game)) /\ moment' = "moved"
    BY <1>4 DEF HelplessTurn
  <2>2. QED
    BY <1>2, <2>1, PassingStep
<1>5. CASE InterruptCommand
  <2>1. PICK t : t = Interrupted(Clean(Game))
    OBVIOUS
  <2>2. PICK k : k = ResetOccs(t, FALSE)
    OBVIOUS
  <2>3. Passes(Game, t)
    BY <1>2, <1>3, <2>1, InterruptedPasses, PassesTwice
  <2>4. Passes(Game, k) /\ AtHand(k)
    BY <1>1, <2>2, <2>3, PassesReset
  <2>5. Becoming(k) /\ moment' = "input"
    BY <1>5, <2>1, <2>2 DEF InterruptCommand
  <2>6. QED
    BY <2>4, <2>5, PassingStep
<1>6. CASE ServerCancel
  <2>1. PICK k : k = ResetOccs(Game, FALSE)
    OBVIOUS
  <2>2. Passes(Game, k) /\ AtHand(k)
    BY <1>1, <1>2, <2>1, PassesReset
  <2>3. Becoming(k) /\ moment' = "input"
    BY <1>6, <2>1 DEF ServerCancel
  <2>4. QED
    BY <2>2, <2>3, PassingStep
<1>7. CASE Notice
  <2>1. PICK t \in {Game, Clean(Game)} : Becoming(ResetOccs(ZeroTime(t), FALSE))
    BY <1>7 DEF Notice
  <2>2. Passes(Game, t) /\ Sound(t)
    BY <1>1, <1>2, <1>3
  <2>3. PICK z : z = ZeroTime(t)
    OBVIOUS
  <2>4. Passes(Game, z)
    BY <2>2, <2>3, ZeroTimePasses, PassesTwice
  <2>5. PICK k : k = ResetOccs(z, FALSE)
    OBVIOUS
  <2>6. Passes(Game, k) /\ AtHand(k)
    BY <1>1, <2>4, <2>5, PassesReset
  <2>7. Becoming(k) /\ moment' = "input"
    BY <1>7, <2>1, <2>3, <2>5 DEF Notice
  <2>8. QED
    BY <2>6, <2>7, PassingStep
<1>8. CASE EndTurn
  <2> DEFINE awake == [Interrupted(Game) EXCEPT !.helpless = FALSE]
  <2>1. PICK t \in {Game, Interrupted(Game), awake} : Becoming(ResetOccs(t, FALSE))
    BY <1>8 DEF EndTurn
  <2>2. Passes(Game, awake)
    <3>1. PICK i : i = Interrupted(Game)
      OBVIOUS
    <3>2. i \in GameType
      BY <1>3, <3>1 DEF Sound
    <3> DEFINE a == [i EXCEPT !.helpless = FALSE]
    <3>3. SameThings(i, a) /\ a.flags = i.flags /\ a \in GameType
      BY <3>2 DEF GameType, SameThings
    <3> HIDE DEF a
    <3>4. Sound(a)
      BY <1>3, <3>1, <3>3, SameThingsAreSound DEF SameCommand
    <3>5. Passes(i, a)
      BY <3>3, <3>4, SamePasses
    <3>6. Passes(Game, a)
      BY <1>2, <3>1, <3>5, PassesTwice
    <3>7. a = awake
      BY <3>1 DEF a
    <3>8. QED
      BY <3>6, <3>7
  <2> HIDE DEF awake
  <2>3. Passes(Game, t)
    BY <1>2, <2>2
  <2>4. PICK k : k = ResetOccs(t, FALSE)
    OBVIOUS
  <2>5. Passes(Game, k) /\ AtHand(k)
    BY <1>1, <2>3, <2>4, PassesReset
  <2>6. Becoming(k) /\ moment' = "input"
    BY <1>8, <2>1, <2>4 DEF EndTurn
  <2>7. QED
    BY <2>5, <2>6, PassingStep
<1>9. QED
  BY <1>4, <1>5, <1>6, <1>7, <1>8

(* The "interrupt" of a look.                                              *)
LEMMA RecordInterruptStep ==
    ASSUME OccInv, RecordInterrupt
    PROVE  StepIs
<1>1. PICK c : c = Clean(Game)
  OBVIOUS
<1>2. PICK t : t = Interrupted(c)
  OBVIOUS
<1>3. PICK k : k = ResetOccs(t, FALSE)
  OBVIOUS
<1>4. Sound(Game) /\ FALSE \in BOOLEAN
  BY DEF OccInv, GameInv
<1>5. Passes(Game, c) /\ Idle(c) /\ Sound(c)
  BY <1>1, <1>4, CleanPasses DEF Passes
<1>6. /\ Passes(c, t) /\ t.flags.interrupted /\ t.flags.incomplete = c.flags.incomplete
      /\ t.flags.occupation = c.flags.occupation /\ Sound(t)
  BY <1>2, <1>5, InterruptedPasses DEF Passes
<1>7. Passes(Game, t)
  BY <1>5, <1>6, PassesTwice
<1>8. Passes(Game, k) /\ AtHand(k)
  BY <1>3, <1>4, <1>7, PassesReset
<1>9. Passes(Game, k) /\ AtHand(k) /\ Sound(k)
  BY <1>8 DEF Passes
<1>10. SameMoment(t, k)
  BY <1>3, <1>4, <1>6, ResetIs
<1>11. Becoming(k) /\ moment' = "notice"
  BY <1>1, <1>2, <1>3 DEF RecordInterrupt
<1>12. Passes(k, Game') /\ SameThings(k, Game') /\ (Game').flags = k.flags
  BY <1>9, <1>11, BecomingIs
<1>13. Idle(Game') /\ (Game').flags.interrupted
  BY <1>5, <1>6, <1>10, <1>12 DEF SameMoment, Idle
<1>14. GameInv(Game') /\ Anew(Game, Game')
  BY <1>9, <1>12, PassesTwice, PassedIs DEF OccInv
<1>15. AtHand(Game')
  BY <1>9, <1>12, StillAtHand
<1>16. QED
  BY <1>11, <1>13, <1>14, <1>15 DEF StepIs

(* save_utracked, restore_utracked: there is nothing to lose.              *)
LEMMA ReloadIs ==
    ASSUME OccInv, Reload
    PROVE  UNCHANGED occupationVars
<1>1. /\ tracked \in [Tracks -> Targets]
      /\ \A s \in Tracks : tracked[s] \in Goods => whereat[tracked[s]] # "gone"
  BY DEF OccInv, GameInv, Sound, GameType, Game
<1>2. tracked' = tracked
  BY <1>1 DEF Reload
<1>3. QED
  BY <1>2 DEF Reload, occupationVars, savedVars

(* Stuttering.                                                             *)
LEMMA StillIs ==
    ASSUME OccInv, UNCHANGED occupationVars
    PROVE  StepIs
<1>1. Game' = Game /\ moment' = moment /\ flags' = flags
  BY DEF Game, occupationVars, savedVars
<1>2. Anew(Game, Game)
  BY DEF Anew
<1>3. (Game').flags = flags'
  BY DEF Game
<1>4. QED
  BY <1>1, <1>2, <1>3 DEF OccInv, StepIs

-----------------------------------------------------------------------------
(* What monsters, and the world, do in a turn.                             *)

(* A trouble, of which a step that is not a turn is known.                 *)
LEMMA TroubleStep ==
    ASSUME OccInv, NEW k, Passes(Game, k), Becoming(k), moment = "moved", UNCHANGED moment
    PROVE  StepIs
<1>1. moment' = "moved"
  OBVIOUS
<1>2. QED
  BY <1>1, PassingStep

\* What is placed elsewhere is not lost
LEMMA PlacedPasses ==
    ASSUME NEW g, Sound(g), NEW o \in Goods, g.place[o] # "gone", NEW spot \in Spots \ {"gone"},
           NEW k, k = [g EXCEPT !.place[o] = spot]
    PROVE  Passes(g, k)
<1>1. /\ Sound(k) /\ SameSpot(g, k) /\ SameMoment(g, k) /\ LosesTraces(g, k, {})
      /\ k.quan = g.quan /\ k.oeaten = g.oeaten
  BY PlacedIs, ZenonT(30)
<1>2. \A s \in Tracks : k.tracked[s] = g.tracked[s] /\ k.progress[s] = g.progress[s]
  BY <1>1 DEF LosesTraces
<1>3. k.progress["lock"] = g.progress["lock"] /\ k.flags = g.flags /\ k.at = g.at /\ k.site = g.site
  BY <1>1 DEF LosesTraces, SameSpot, SameMoment
<1>4. QED
  BY <1>1, <1>2, <1>3 DEF Passes

(* An object is freed: rot, fire, explosions.                              *)
LEMMA FreedPasses ==
    ASSUME NEW g, Sound(g), NEW o \in Goods, NEW k, k = Freed(g, o)
    PROVE  Passes(g, k)
<1>1. /\ Sound(k) /\ LeavesAlone(g, k, {o}) /\ SameSpot(g, k) /\ SameMoment(g, k)
      /\ LosesTraces(g, k, {o}) /\ \A s \in Tracks : k.tracked[s] # o
  BY FreedIs
<1>2. \A s \in Tracks : \/ k.tracked[s] = Nothing
                        \/ k.tracked[s] = g.tracked[s] /\ k.progress[s] = g.progress[s]
  BY <1>1 DEF LosesTraces
<1>3. k.progress["lock"] = g.progress["lock"] /\ k.flags = g.flags /\ k.at = g.at /\ k.site = g.site
  BY <1>1 DEF LosesTraces, SameSpot, SameMoment
<1>4. k.tracked["food"] # Nothing =>
          /\ k.quan[k.tracked["food"]] = g.quan[k.tracked["food"]]
          /\ k.oeaten[k.tracked["food"]] = g.oeaten[k.tracked["food"]]
  <2>1. k.tracked["food"] \in Meals \cup {Nothing} /\ k.tracked["food"] # o
    BY <1>1 DEF Sound, Tracks
  <2>2. k.tracked["food"] # Nothing => k.tracked["food"] \in Goods \ {o}
    BY <2>1, FiniteKinds
  <2>3. QED
    BY <1>1, <2>2 DEF LeavesAlone
<1>5. QED
  BY <1>1, <1>2, <1>3, <1>4 DEF Passes

(* A book is cursed.                                                       *)
LEMMA HexPasses ==
    ASSUME NEW g, Sound(g), NEW book \in Goods, NEW k, k = [g EXCEPT !.hexed = @ \cup {book}]
    PROVE  Passes(g, k)
<1>1. g \in GameType
  BY DEF Sound
<1>2. k \in GameType
  BY <1>1 DEF GameType
<1>3. /\ k.place = g.place /\ k.quan = g.quan /\ k.oeaten = g.oeaten /\ k.tracked = g.tracked
      /\ k.progress = g.progress /\ k.flags = g.flags /\ k.at = g.at /\ k.site = g.site
      /\ k.olocked = g.olocked /\ k.obroken = g.obroken
  BY <1>1 DEF GameType
<1>4. Sound(k)
  BY <1>2, <1>3 DEF Sound
<1>5. QED
  BY <1>3, <1>4 DEF Passes, Tracks

(* A monster moves the door.                                               *)
LEMMA DoorPasses ==
    ASSUME NEW g, Sound(g), NEW state \in Doors, NEW k, k = [g EXCEPT !.door = state]
    PROVE  Passes(g, k)
<1>1. /\ Sound(k) /\ SameObjects(g, k) /\ SameMoment(g, k) /\ k.tracked = g.tracked
      /\ k.progress = g.progress /\ k.at = g.at /\ k.site = g.site
  BY DoorIs
<1>2. QED
  BY <1>1 DEF Passes, SameObjects, SameMoment, Tracks

(* The player is teleported, and interrupted.                              *)
LEMMA TeleportPasses ==
    ASSUME NEW g, Sound(g), NEW spot \in Places, NEW k, k = [Interrupted(g) EXCEPT !.at = spot]
    PROVE  Passes(g, k)
<1>1. PICK t : t = Interrupted(g)
  OBVIOUS
<1>2. Passes(g, t) /\ t.flags.interrupted /\ Sound(t)
  BY <1>1, InterruptedPasses DEF Passes
<1> DEFINE h == [t EXCEPT !.at = spot]
<1>3. k = h
  BY <1>1
<1>4. /\ Sound(h) /\ SameObjects(t, h) /\ SameMoment(t, h) /\ h.tracked = t.tracked
      /\ h.progress = t.progress
  BY <1>2, AtIs
<1> HIDE DEF h
<1>5. /\ Sound(k) /\ SameObjects(t, k) /\ SameMoment(t, k) /\ k.tracked = t.tracked
      /\ k.progress = t.progress
  BY <1>3, <1>4
<1>6. ~Busy(k) /\ k.flags.occupation = t.flags.occupation
  BY <1>2, <1>5 DEF Busy, SameMoment
<1>7. Passes(t, k)
  BY <1>5, <1>6 DEF Passes, SameObjects, Tracks
<1>8. QED
  BY <1>2, <1>7, PassesTwice

\* What every trouble makes of the game
LEMMA StealStep ==
    ASSUME OccInv, NEW o \in Goods,
           StealFrom(o) \/ Ruin(o) \/ \E spot \in Places : GetBack(o, spot)
    PROVE  StepIs
<1>1. Sound(Game)
  BY DEF OccInv, GameInv
<1>2. PICK t : t = Interrupted(Game)
  OBVIOUS
<1>3. Passes(Game, t) /\ SameThings(Game, t)
  BY <1>1, <1>2, InterruptedPasses
<1>4. Sound(t) /\ Passes(Game, Game)
  BY <1>1, <1>3, SelfPasses DEF Passes
<1>5. CASE StealFrom(o)
  <2>1. PICK k : k = [t EXCEPT !.place[o] = "off"]
    OBVIOUS
  <2>2. Becoming(k) /\ moment = "moved" /\ UNCHANGED moment /\ InPack(Game, o)
    BY <1>2, <1>5, <2>1 DEF StealFrom, Trouble
  <2>3. t.place[o] # "gone" /\ "off" \in Spots \ {"gone"}
    BY <1>3, <2>2 DEF InPack, SameThings, Spots
  <2>4. Passes(t, k)
    BY <1>4, <2>1, <2>3, PlacedPasses
  <2>5. Passes(Game, k)
    BY <1>3, <2>4, PassesTwice
  <2>6. QED
    BY <2>2, <2>5, TroubleStep
<1>6. CASE Ruin(o)
  <2>1. PICK g \in {Game, t} : Becoming(Freed(g, o))
    BY <1>2, <1>6 DEF Ruin, Trouble
  <2>2. PICK k : k = Freed(g, o)
    OBVIOUS
  <2>3. Passes(Game, g) /\ Sound(g)
    BY <1>1, <1>3, <1>4
  <2>4. Passes(g, k)
    BY <2>2, <2>3, FreedPasses
  <2>5. Passes(Game, k)
    BY <2>3, <2>4, PassesTwice
  <2>6. Becoming(k) /\ moment = "moved" /\ UNCHANGED moment
    BY <1>6, <2>1, <2>2 DEF Ruin, Trouble
  <2>7. QED
    BY <2>5, <2>6, TroubleStep
<1>7. CASE \E spot \in Places : GetBack(o, spot)
  <2>1. PICK spot \in Places : GetBack(o, spot)
    BY <1>7
  <2>2. PICK k : k = [Game EXCEPT !.place[o] = spot]
    OBVIOUS
  <2>3. Becoming(k) /\ moment = "moved" /\ UNCHANGED moment
    BY <2>1, <2>2 DEF GetBack
  <2>4. Game.place[o] # "gone" /\ spot \in Spots \ {"gone"}
    BY <2>1, NoObject DEF GetBack, Game, Spots
  <2>5. Passes(Game, k)
    BY <1>1, <2>2, <2>4, PlacedPasses
  <2>6. QED
    BY <2>3, <2>5, TroubleStep
<1>8. QED
  BY <1>5, <1>6, <1>7

(* The troubles that take no object away.                                  *)
LEMMA WorldStep ==
    ASSUME OccInv,
           \/ \E book \in Books : Hex(book)
           \/ \E spot \in Places : Teleport(spot)
           \/ Engulf \/ Paralyse
           \/ \E state \in {"open", "locked", "none"} : UseDoor(state)
    PROVE  StepIs
<1>1. Sound(Game) /\ TRUE \in BOOLEAN
  BY DEF OccInv, GameInv
<1>2. CASE \E book \in Books : Hex(book)
  <2>1. PICK book \in Books : Hex(book)
    BY <1>2
  <2>2. PICK k : k = [Game EXCEPT !.hexed = @ \cup {book}]
    OBVIOUS
  <2>3. Becoming(k) /\ moment = "moved" /\ UNCHANGED moment
    BY <2>1, <2>2 DEF Hex, Trouble
  <2>4. book \in Goods
    BY NoObject
  <2>5. Passes(Game, k)
    BY <1>1, <2>2, <2>4, HexPasses
  <2>6. QED
    BY <2>3, <2>5, TroubleStep
<1>3. CASE \E spot \in Places : Teleport(spot)
  <2>1. PICK spot \in Places : Teleport(spot)
    BY <1>3
  <2>2. PICK k : k = [Interrupted(Game) EXCEPT !.at = spot]
    OBVIOUS
  <2>3. Becoming(k) /\ moment = "moved" /\ UNCHANGED moment
    BY <2>1, <2>2 DEF Teleport, Trouble
  <2>4. Passes(Game, k)
    BY <1>1, <2>2, TeleportPasses
  <2>5. QED
    BY <2>3, <2>4, TroubleStep
<1>4. CASE Engulf
  <2>1. PICK t : t = Interrupted(Game)
    OBVIOUS
  <2>2. PICK k : k = ResetOccs(t, TRUE)
    OBVIOUS
  <2>3. Passes(Game, t)
    BY <1>1, <2>1, InterruptedPasses
  <2>4. Passes(Game, k)
    BY <1>1, <2>2, <2>3, PassesReset
  <2>5. Becoming(k) /\ moment = "moved" /\ UNCHANGED moment
    BY <1>4, <2>1, <2>2 DEF Engulf, Trouble
  <2>6. QED
    BY <2>4, <2>5, TroubleStep
<1>5. CASE Paralyse
  <2>1. PICK k : k = Helpless(Game)
    OBVIOUS
  <2>2. Passes(Game, k)
    BY <1>1, <2>1, HelplessPasses
  <2>3. Becoming(k) /\ moment = "moved" /\ UNCHANGED moment
    BY <1>5, <2>1 DEF Paralyse, Trouble
  <2>4. QED
    BY <2>2, <2>3, TroubleStep
<1>6. CASE \E state \in {"open", "locked", "none"} : UseDoor(state)
  <2>1. PICK state \in {"open", "locked", "none"} : UseDoor(state)
    BY <1>6
  <2>2. PICK k : k = [Game EXCEPT !.door = state]
    OBVIOUS
  <2>3. Becoming(k) /\ moment = "moved" /\ UNCHANGED moment
    BY <2>1, <2>2 DEF UseDoor, Trouble
  <2>4. state \in Doors
    BY DEF Doors
  <2>5. Passes(Game, k)
    BY <1>1, <2>2, <2>4, DoorPasses
  <2>6. QED
    BY <2>3, <2>5, TroubleStep
<1>7. QED
  BY <1>2, <1>3, <1>4, <1>5, <1>6

(* Every step of the game.                                                 *)
LEMMA StepsAre ==
    ASSUME OccInv, [OccupationsNext]_occupationVars
    PROVE  StepIs
<1>1. CASE \E c \in LongCommands \cup ShortCommands : GiveCommand(c[1], c[2])
  BY <1>1, GiveCommandStep
<1>2. CASE Repeat
  BY <1>2, RepeatStep
<1>3. CASE HelplessTurn \/ InterruptCommand \/ ServerCancel \/ Notice \/ EndTurn
  BY <1>3, LoopStep
<1>4. CASE RecordInterrupt
  BY <1>4, RecordInterruptStep
<1>5. CASE Reload \/ UNCHANGED occupationVars
  BY <1>5, ReloadIs, StillIs
<1>6. CASE \E o \in Goods : StealFrom(o) \/ Ruin(o) \/ \E spot \in Places : GetBack(o, spot)
  BY <1>6, StealStep
<1>7. CASE \/ \E book \in Books : Hex(book)
           \/ \E spot \in Places : Teleport(spot)
           \/ Engulf \/ Paralyse
           \/ \E state \in {"open", "locked", "none"} : UseDoor(state)
  BY <1>7, WorldStep
<1>8. QED
  BY <1>1, <1>2, <1>3, <1>4, <1>5, <1>6, <1>7 DEF OccupationsNext

-----------------------------------------------------------------------------
(* The theorems.                                                           *)

(* The invariant holds when a behaviour begins: what the outfits leave     *)
(* room for is Enough.                                                     *)
LEMMA InitIs ==
    ASSUME OccupationsInit
    PROVE  OccInv
<1>1. PICK fit \in Outfits : Begins(fit)
  BY DEF OccupationsInit
<1>2. /\ fit.pack \subseteq Goods /\ fit.floor \subseteq Goods
      /\ fit.doors \subseteq {"locked", "closed", "none"}
      /\ 0 \in 0..MealSize /\ 0 \in 0..MaxTries /\ 0 \in Int
  BY OccupationsAssumption
<1>3. at \in Places /\ at # "gone"
  BY <1>1, NoObject DEF Begins
<1>4. whereat = [o \in Goods |-> IF o \in fit.pack THEN "inv"
                                 ELSE IF o \in fit.floor THEN at ELSE "gone"]
  BY <1>1 DEF Begins
<1>5. /\ whereat \in [Goods -> Spots]
      /\ \A o \in Goods : whereat[o] = "gone" <=> o \notin fit.pack \cup fit.floor
  BY <1>3, <1>4 DEF Spots
<1>6. quan = [o \in Goods |-> IF whereat[o] = "gone" THEN 0
                              ELSE IF o \in fit.double THEN 2 ELSE 1]
  BY <1>1 DEF Begins
<1>7. /\ quan \in [Goods -> Nat]
      /\ \A o \in Goods : quan[o] = 0 <=> whereat[o] = "gone"
      /\ \A o \in Goods : quan[o] = IF o \notin fit.pack \cup fit.floor THEN 0
                                    ELSE IF o \in fit.double THEN 2 ELSE 1
  BY <1>5, <1>6
<1>8. Enough(quan, Meals) /\ Enough(quan, Tins)
  BY <1>7, StartIsEnough
<1>9. /\ tracked = [s \in Tracks |-> Nothing] /\ progress = [s \in Tracks |-> 0]
      /\ oeaten = [o \in Goods |-> 0] /\ hexed = {} /\ olocked \subseteq Goods /\ obroken = {}
      /\ door \in Doors /\ site = Nothing /\ helpless = FALSE /\ moment = "input"
      /\ flags = [incomplete |-> FALSE, interrupted |-> TRUE, occupation |-> Nothing,
                  verb |-> Nothing, arg |-> Nothing]
  BY <1>1, <1>2 DEF Begins, Doors
<1>10. flags \in Flags
  BY <1>9 DEF Flags, Verbs, Targets
<1>11. /\ tracked \in [Tracks -> Targets] /\ progress \in [Tracks -> Int]
       /\ oeaten \in [Goods -> 0..MealSize]
  BY <1>2, <1>9 DEF Targets
<1>12. Game \in GameType
  BY <1>3, <1>5, <1>7, <1>9, <1>10, <1>11 DEF Game, GameType
<1>13. \A s \in Tracks : tracked[s] = Nothing /\ progress[s] = 0
  BY <1>9
<1>14. Sound(Game)
  BY <1>7, <1>8, <1>9, <1>12, <1>13, NoObject DEF Sound, Game, Tracks
<1>15. Tallied(Game) /\ AtHand(Game)
  BY <1>2, <1>13, NoObject DEF Tallied, AtHand, Game, Tracks
<1>16. MealIsOne(Game) /\ Working(Game)
  BY <1>9 DEF MealIsOne, Working, Busy, Game, Nothing
<1>17. QED
  BY <1>9, <1>14, <1>15, <1>16 DEF OccInv, GameInv

(* What the game and its traces are between any two steps of the main      *)
(* loop, whatever the player does and whatever befalls the player.         *)
THEOREM OccupationsInvariance == OccupationsSpec => []OccInv
<1>1. OccupationsInit => OccInv
  BY InitIs
<1>2. OccInv /\ [OccupationsNext]_occupationVars => OccInv'
  BY StepsAre, StepKeepsInv
<1>3. QED
  BY <1>1, <1>2, PTL DEF OccupationsSpec

(* An occupation may rely on its traces when it is taken up again: none is *)
(* of a freed object, the lock that is tracked is at hand when a command   *)
(* is read, and a meal under way is one piece of food that has been bitten *)
(* into.                                                                   *)
THEOREM TracesCanBeTrusted == OccupationsSpec => []OccupationsAreSound
<1>1. OccInv => OccupationsAreSound
  <2> SUFFICES ASSUME OccInv PROVE OccupationsAreSound
    OBVIOUS
  <2>1. Sound(Game) /\ MealIsOne(Game) /\ (moment = "input" => AtHand(Game))
    BY DEF OccInv, GameInv
  <2>2. /\ whereat \in [Goods -> Spots] /\ tracked \in [Tracks -> Targets]
        /\ \A o \in Goods : quan[o] = 0 <=> whereat[o] = "gone"
        /\ \A s \in Tracks : tracked[s] \in Goods => whereat[tracked[s]] # "gone"
        /\ olocked \cap obroken = {}
    BY <2>1 DEF Sound, GameType, Game
  <2>3. /\ moment = "input" /\ tracked["lock"] \in Goods => whereat[tracked["lock"]] = at
        /\ moment = "input" /\ tracked["lock"] = Nothing => progress["lock"] = 0
    BY <2>1 DEF AtHand, Game
  <2>4. flags.occupation = "food" /\ tracked["food"] # Nothing =>
            quan[tracked["food"]] = 1 /\ oeaten[tracked["food"]] \in 1..MealSize
    BY <2>1 DEF MealIsOne, Game
  <2>5. QED
    BY <2>2, <2>3, <2>4 DEF OccupationsAreSound, Spots, Targets
<1>2. QED
  BY <1>1, OccupationsInvariance, PTL

(* What the client does for its own sake, to show something or to come     *)
(* back to a saved game, is no step of the game.                           *)
LEMMA NoticeIsHarmless ==
    ASSUME OccInv, Notice \/ ServerCancel \/ Reload
    PROVE  UNCHANGED savedVars
<1>1. /\ Sound(Game) /\ FALSE \in BOOLEAN /\ Game \in GameType
      /\ moment # "moved" => AtHand(Game)
      /\ moment = "notice" => Idle(Game) /\ flags.interrupted
  BY DEF OccInv, GameInv, Sound
<1>2. CASE Notice
  <2>1. PICK t \in {Game, Clean(Game)} : Becoming(ResetOccs(ZeroTime(t), FALSE))
    BY <1>2 DEF Notice
  <2>2. PICK z : z = ZeroTime(t)
    OBVIOUS
  <2>3. PICK k : k = ResetOccs(z, FALSE)
    OBVIOUS
  <2>4. AtHand(Game)
    BY <1>1, <1>2 DEF Notice
  <2>5. ~flags.incomplete /\ flags.interrupted /\ flags.occupation = Nothing
    BY <1>1, <1>2 DEF Notice, MustInterrupt, Idle, Game
  <2>6. Sound(t) /\ SameThings(Game, t) /\ SameCommand(Game, t)
    <3>1. CASE t = Game
      BY <1>1, <3>1, SelfIs DEF SameThings
    <3>2. CASE t = Clean(Game)
      BY <1>1, <3>2, CleanIs DEF FlagsAre
    <3>3. QED
      BY <3>1, <3>2
  <2>7. Sound(z) /\ SameThings(t, z) /\ FlagsAre(t, z, FALSE, TRUE, Nothing)
    BY <2>2, <2>6, ZeroTimeIs
  <2>8. SameThings(Game, z) /\ AtHand(z)
    BY <2>4, <2>6, <2>7, StillAtHand DEF SameThings
  <2>9. z.flags = flags
    <3>1. z.flags \in Flags /\ flags \in Flags
      BY <1>1, <2>7 DEF Sound, GameType, Game
    <3>2. /\ z.flags.incomplete = flags.incomplete /\ z.flags.interrupted = flags.interrupted
          /\ z.flags.occupation = flags.occupation /\ z.flags.verb = flags.verb
          /\ z.flags.arg = flags.arg
      <4>1. flags.incomplete = FALSE /\ flags.interrupted = TRUE
        BY <2>5, <3>1 DEF Flags
      <4>2. QED
        BY <2>5, <2>6, <2>7, <4>1 DEF FlagsAre, SameCommand, Game
    <3>3. QED
      BY <3>1, <3>2 DEF Flags
  <2>10. /\ SameObjects(z, k) /\ SameSpot(z, k) /\ SameMoment(z, k)
         /\ k.tracked = z.tracked /\ k.progress = z.progress
    BY <1>1, <2>3, <2>7, <2>8, ResetIs
  <2>11. Becoming(k)
    BY <2>1, <2>2, <2>3
  <2>12. SameThings(Game, k) /\ k.flags = flags
    BY <2>8, <2>9, <2>10 DEF SameThings, SameObjects, SameSpot, SameMoment
  <2>13. QED
    BY <2>11, <2>12 DEF Becoming, SameThings, Game, savedVars
<1>3. CASE ServerCancel
  <2>1. PICK k : k = ResetOccs(Game, FALSE)
    OBVIOUS
  <2>2. AtHand(Game)
    BY <1>1, <1>3 DEF ServerCancel
  <2>3. /\ SameObjects(Game, k) /\ SameSpot(Game, k) /\ SameMoment(Game, k)
        /\ k.tracked = Game.tracked /\ k.progress = Game.progress
    BY <1>1, <2>1, <2>2, ResetIs
  <2>4. Becoming(k)
    BY <1>3, <2>1 DEF ServerCancel
  <2>5. QED
    BY <2>3, <2>4 DEF Becoming, SameObjects, SameSpot, SameMoment, Game, savedVars
<1>4. CASE Reload
  BY <1>4, ReloadIs DEF occupationVars
<1>5. QED
  BY <1>2, <1>3, <1>4

(* "A revert should be a no-op" (allmain.c:634): looking something up,     *)
(* hearing that somebody else has moved, and saving and loading the game   *)
(* change nothing that is saved.                                           *)
THEOREM LooksAreHarmless == OccupationsSpec => NoticesAreHarmless
<1>1. OccInv /\ [OccupationsNext]_occupationVars
        => [Notice \/ ServerCancel \/ Reload => UNCHANGED savedVars]_occupationVars
  BY NoticeIsHarmless
<1>2. QED
  BY <1>1, OccupationsInvariance, PTL DEF OccupationsSpec, NoticesAreHarmless

-----------------------------------------------------------------------------
(* "repeat".                                                               *)

\* TurnsLeft, of any game and occupation
Left(g, s) ==
    LET turns == g.progress[s]
    IN  CASE s = "food" -> g.oeaten[g.tracked["food"]]
          [] s = "tin" -> IF turns > 0 THEN turns ELSE MaxTries + 2 + turns
          [] s = "book" -> -turns
          [] s = "lock" -> MaxTries + 1 - turns
          [] OTHER -> turns

\* A turn of s touches nothing but what it works on, and has not long to go
GoesOn(g, h, s, target) ==
    /\ LeavesAlone(g, h, {target} \cup Blades)
    /\ target # ADoor => h.door = g.door
    /\ ~Idle(h) => /\ h.took = g.took /\ h.flags.occupation = s
                   /\ h.tracked[s] = target
                   /\ Left(h, s) \in 1..(Left(g, s) - 1)

(* A turn that works on the target, or on a blade, and brings the end      *)
(* nearer.                                                                 *)
LEMMA TurnGoesOn ==
    ASSUME NEW g, Sound(g), NEW s \in Tracks, NEW i, i = Incomplete(g, s),
           NEW h, NEW X, TurnOf(i, h, s, X), NEW target, target = g.tracked[s],
           X \subseteq {target} \cup Blades, target # ADoor => h.door = i.door,
           ~Idle(h) => Left(h, s) \in 1..(Left(i, s) - 1)
    PROVE  GoesOn(g, h, s, target)
<1>1. /\ SameThings(g, i) /\ i.took = g.took
      /\ FlagsAre(g, i, TRUE, g.flags.interrupted, s)
  BY IncompleteIs
<1>2. LeavesAlone(g, h, {target} \cup Blades)
  <2>1. LeavesAlone(g, i, X) /\ LeavesAlone(i, h, X)
    BY <1>1, SameIsAlone DEF TurnOf
  <2>2. LeavesAlone(g, h, X)
    BY <2>1, AloneTwice
  <2>3. QED
    BY <2>2 DEF LeavesAlone
<1>3. Left(i, s) = Left(g, s) /\ i.door = g.door /\ i.tracked = g.tracked
  BY <1>1 DEF Left, SameThings
<1>4. ~Idle(h) => h.took = g.took /\ h.flags.occupation = s /\ h.tracked[s] = target
  BY <1>1, <1>3 DEF TurnOf, FlagsAre
<1>5. QED
  BY <1>2, <1>3, <1>4 DEF GoesOn

\* The same goods, and the same door
SameGoods(g, h, X) == LeavesAlone(g, h, X) /\ h.door = g.door

(* The last turn has nothing to count.                                     *)
LEMMA IdleGoesOn ==
    ASSUME NEW g, NEW target, NEW h, SameGoods(g, h, {target}), Idle(h), NEW s
    PROVE  GoesOn(g, h, s, target)
  BY DEF GoesOn, SameGoods, LeavesAlone

(* What two changes leave alone, the door with it.                         *)
LEMMA GoodsTwice ==
    ASSUME NEW g, NEW t, NEW h, NEW X, SameGoods(g, t, X), SameGoods(t, h, X)
    PROVE  SameGoods(g, h, X)
  BY AloneTwice DEF SameGoods

(* A game with the same objects and door.                                  *)
LEMMA ThingsAreGoods ==
    ASSUME NEW g, NEW h, SameThings(g, h) \/ (SameObjects(g, h) /\ SameSpot(g, h)), NEW X
    PROVE  SameGoods(g, h, X)
<1>1. LeavesAlone(g, h, X)
  BY SameIsAlone
<1>2. QED
  BY <1>1 DEF SameGoods, SameThings, SameSpot

(* A repeated command that takes no time is at an end.                     *)
LEMMA NoTimeGoesOn ==
    ASSUME NEW g, Sound(g), NEW target, NEW s, NEW t, Sound(t), SameGoods(g, t, {target})
    PROVE  GoesOn(g, ZeroTime(t), s, target)
<1> DEFINE h == ZeroTime(t)
<1>1. SameThings(t, h) /\ FlagsAre(t, h, FALSE, TRUE, Nothing)
  BY ZeroTimeIs
<1> HIDE DEF h
<1>2. SameGoods(g, h, {target}) /\ Idle(h)
  BY <1>1, ThingsAreGoods, GoodsTwice DEF FlagsAre, Idle
<1>3. GoesOn(g, h, s, target)
  BY <1>2, IdleGoesOn
<1>4. QED
  BY <1>3 DEF h

(* "repeat" of a meal: one piece that has been bitten into, in reach,      *)
(* whatever the player answers.                                            *)
LEMMA EatGoesOn ==
    ASSUME NEW g, Ready(g), NEW food \in Meals, food = g.tracked["food"], WithYou(g, food),
           g.quan[food] = 1, g.oeaten[food] \in 1..MealSize,
           NEW arg, NEW h \in DoEat(g, arg, TRUE)
    PROVE  GoesOn(g, h, "food", food)
<1>1. h \in EatOn(g)
  BY DEF DoEat
<1>2. PICK t \in TouchFood(g) : h = IF t.tracked["food"] = Nothing THEN Completed(t)
                                    ELSE EatOneTurn(Incomplete(t, "food"))
  BY <1>1 DEF EatOn
<1>3. Sound(g) /\ "food" \in Tracks /\ food # Nothing /\ g.oeaten[food] # 0
  BY NoObject DEF Ready, Tracks
<1>4. /\ Touched(g, t) /\ LeavesAlone(g, t, {food}) /\ t.tracked["food"] = food
      /\ t.oeaten[food] = g.oeaten[food]
  BY <1>3, TouchedIs
<1>5. PICK i : i = Incomplete(t, "food")
  OBVIOUS
<1>6. h = EatOneTurn(i)
  BY <1>2, <1>3, <1>4, <1>5
<1>7. Sound(t) /\ t.quan[food] = 1 /\ SameSpot(g, t) /\ SameMoment(g, t)
  BY <1>3, <1>4 DEF Touched
<1>8. /\ Sound(i) /\ SameThings(t, i) /\ FlagsAre(t, i, TRUE, t.flags.interrupted, "food")
  BY <1>3, <1>5, <1>7, IncompleteIs
<1>9. /\ Going(i, "food") /\ food = i.tracked["food"] /\ i.quan[food] = 1
      /\ i.oeaten[food] = g.oeaten[food] /\ i.oeaten[food] \in 1..MealSize
  BY <1>4, <1>7, <1>8 DEF Going, Busy, FlagsAre, SameThings, SameMoment, Ready
<1>10. /\ TurnOf(i, h, "food", {food}) /\ h.door = i.door
       /\ \/ Idle(h)
          \/ /\ h.flags = i.flags /\ h.tracked = i.tracked /\ h.quan[food] = 1
             /\ h.oeaten[food] \in 1..(i.oeaten[food] - 1)
  BY <1>6, <1>8, <1>9, BiteIs
<1>11. ~Idle(h) => Left(h, "food") \in 1..(Left(i, "food") - 1)
  BY <1>9, <1>10 DEF Left
<1>12. GoesOn(t, h, "food", food)
  BY <1>3, <1>4, <1>5, <1>7, <1>10, <1>11, TurnGoesOn
<1>13. Left(t, "food") = Left(g, "food")
  BY <1>4 DEF Left
<1>14. LeavesAlone(g, h, {food} \cup Blades)
  <2>1. LeavesAlone(t, h, {food} \cup Blades)
    BY <1>12 DEF GoesOn
  <2>2. QED
    BY <1>4, <2>1, AloneTwice DEF LeavesAlone
<1>15. QED
  BY <1>7, <1>12, <1>13, <1>14 DEF GoesOn, SameSpot, SameMoment

(* "repeat" of a tin, when no meal is tracked.                             *)
LEMMA TinGoesOn ==
    ASSUME NEW g, Ready(g), g.tracked["food"] = Nothing,
           NEW tin \in Tins, tin = g.tracked["tin"], WithYou(g, tin),
           NEW h \in DoEat(g, tin, TRUE)
    PROVE  GoesOn(g, h, "tin", tin)
<1>1. ~WithYou(g, Nothing) /\ tin # Nothing /\ "tin" \in Tracks /\ tin \in Goods
  BY NoObject DEF WithYou, Tracks
<1> DEFINE o == [g EXCEPT !.tracked["food"] = Nothing]
<1>2. h \in EatTin(o, tin)
  BY <1>1 DEF DoEat
<1>3. /\ Ready(o) /\ SameObjects(g, o) /\ SameSpot(g, o) /\ SameMoment(g, o)
      /\ o.progress = g.progress
      /\ \A s \in Tracks \ {"food"} : o.tracked[s] = g.tracked[s]
  BY FoodIsReady
<1> HIDE DEF o
<1>4. tin = o.tracked["tin"] /\ Sound(o)
  BY <1>1, <1>3 DEF Ready
<1>5. PICK i : i = Incomplete(o, "tin")
  OBVIOUS
<1>6. h = EatTinOneTurn(i)
  BY <1>2, <1>4, <1>5 DEF EatTin
<1>7. /\ Sound(i) /\ SameThings(o, i) /\ FlagsAre(o, i, TRUE, o.flags.interrupted, "tin")
  BY <1>1, <1>4, <1>5, IncompleteIs
<1>8. Going(i, "tin") /\ tin = i.tracked["tin"] /\ i.progress["tin"] = g.progress["tin"]
  BY <1>3, <1>4, <1>7 DEF Going, Busy, FlagsAre, SameThings, Ready
<1>9. /\ TurnOf(i, h, "tin", {tin}) /\ h.door = i.door
      /\ \/ Idle(h)
         \/ /\ h.progress["tin"] = i.progress["tin"] - 1
            /\ i.progress["tin"] >= -MaxTries /\ i.progress["tin"] # 1
  BY <1>6, <1>7, <1>8, TinTurnIs
<1>10. ~Idle(h) => Left(h, "tin") \in 1..(Left(i, "tin") - 1)
  <2> SUFFICES ASSUME ~Idle(h) PROVE Left(h, "tin") \in 1..(Left(i, "tin") - 1)
    OBVIOUS
  <2>1. PICK n : n = i.progress["tin"]
    OBVIOUS
  <2>2. MaxTries \in Nat /\ (n \in 1..MaxTries \/ -n \in 1..(MaxTries + 1)) /\ n \in Int
    <3>1. n \in 1..MaxTries \/ -n \in 1..(MaxTries + 1)
      BY <1>1, <1>8, <2>1 DEF Ready, Tallied
    <3>2. i.progress \in [Tracks -> Int]
      BY <1>7 DEF Sound, GameType
    <3>3. QED
      BY <1>1, <2>1, <3>1, <3>2, OccupationsAssumption
  <2>3. h.progress["tin"] = n - 1 /\ n >= -MaxTries /\ n # 1
    BY <1>9, <2>1
  <2>4. /\ Left(h, "tin") = IF n - 1 > 0 THEN n - 1 ELSE MaxTries + 2 + (n - 1)
        /\ Left(i, "tin") = IF n > 0 THEN n ELSE MaxTries + 2 + n
    BY <2>1, <2>3 DEF Left
  <2>5. QED
    BY <2>2, <2>3, <2>4
<1>11. GoesOn(o, h, "tin", tin)
  BY <1>1, <1>4, <1>5, <1>9, <1>10, TurnGoesOn
<1>12. Left(o, "tin") = Left(g, "tin")
  BY <1>3 DEF Left
<1>13. LeavesAlone(g, h, {tin} \cup Blades)
  BY <1>3, <1>11, SameIsAlone, AloneTwice DEF GoesOn
<1>14. QED
  BY <1>3, <1>11, <1>12, <1>13 DEF GoesOn, SameSpot, SameMoment

\* What a book that is begun anew, or is too hard, comes to
LEMMA HardBookIs ==
    ASSUME NEW g, Sound(g), NEW book \in Goods, Idle(g),
           NEW h \in BeginBook(g, book, TRUE)
    PROVE  SameGoods(g, h, {book}) /\ Idle(h)
<1> DEFINE closed == [g EXCEPT !.progress["book"] = 0]
           never == Helpless(closed)
           untracked == Untracked(g, "book")
           hazy == Helpless(untracked)
           torn == UsedUp(hazy, book)
<1>1. h \in {never, UsedUp(never, book), hazy, Untracked(torn, "book")}
  BY DEF BeginBook
<1>2. "book" \in Tracks /\ 0 \in Int
  BY DEF Tracks
<1>3. Sound(closed) /\ SameObjects(g, closed) /\ SameSpot(g, closed) /\ SameMoment(g, closed)
  BY <1>2, ProgressIs
<1>4. /\ Sound(untracked) /\ SameObjects(g, untracked) /\ SameSpot(g, untracked)
      /\ SameMoment(g, untracked)
  BY <1>2, UntrackedIs
<1> HIDE DEF closed, untracked
<1>5. /\ Sound(never) /\ SameThings(closed, never)
      /\ FlagsAre(closed, never, closed.flags.incomplete, TRUE, closed.flags.occupation)
  BY <1>3, HelplessIs
<1>6. /\ Sound(hazy) /\ SameThings(untracked, hazy)
      /\ FlagsAre(untracked, hazy, untracked.flags.incomplete, TRUE, untracked.flags.occupation)
  BY <1>4, HelplessIs
<1>7. SameGoods(g, never, {book}) /\ SameGoods(g, hazy, {book})
  BY <1>3, <1>4, <1>5, <1>6, ThingsAreGoods, GoodsTwice
<1>8. Idle(never) /\ Idle(hazy)
  BY <1>3, <1>4, <1>5, <1>6 DEF Idle, FlagsAre, SameMoment
<1> HIDE DEF never, hazy
<1>9. /\ SameGoods(g, UsedUp(never, book), {book}) /\ Idle(UsedUp(never, book))
      /\ SameGoods(g, torn, {book}) /\ Idle(torn) /\ Sound(torn)
  <2>1. \A t \in {never, hazy} :
            /\ Sound(UsedUp(t, book)) /\ SameGoods(t, UsedUp(t, book), {book})
            /\ SameMoment(t, UsedUp(t, book))
    <3> SUFFICES ASSUME NEW t \in {never, hazy}
                 PROVE  /\ Sound(UsedUp(t, book)) /\ SameGoods(t, UsedUp(t, book), {book})
                        /\ SameMoment(t, UsedUp(t, book))
      OBVIOUS
    <3>1. Sound(t)
      BY <1>5, <1>6
    <3> DEFINE u == UsedUp(t, book)
    <3>2. Sound(u) /\ LeavesAlone(t, u, {book}) /\ SameSpot(t, u) /\ SameMoment(t, u)
      BY <3>1, UsedUpIs
    <3> HIDE DEF u
    <3>3. SameGoods(t, u, {book})
      BY <3>2 DEF SameGoods, SameSpot
    <3>4. QED
      BY <3>2, <3>3 DEF u
  <2>2. QED
    BY <1>7, <1>8, <2>1, GoodsTwice DEF Idle, SameMoment
<1> HIDE DEF torn
<1>10. SameGoods(g, Untracked(torn, "book"), {book}) /\ Idle(Untracked(torn, "book"))
  <2> DEFINE u == Untracked(torn, "book")
  <2>1. SameObjects(torn, u) /\ SameSpot(torn, u) /\ SameMoment(torn, u)
    BY <1>2, <1>9, UntrackedIs
  <2> HIDE DEF u
  <2>2. SameGoods(g, u, {book})
    BY <1>9, <2>1, ThingsAreGoods, GoodsTwice
  <2>3. Idle(u)
    BY <1>9, <2>1 DEF Idle, SameMoment
  <2>4. QED
    BY <2>2, <2>3 DEF u
<1>11. QED
  BY <1>1, <1>7, <1>8, <1>9, <1>10

(* "repeat" of a book; a confused reader begins anew, which ends the       *)
(* command or destroys that book at most.                                  *)
LEMMA BookGoesOn ==
    ASSUME NEW g, Ready(g), NEW book \in Books, book = g.tracked["book"],
           g.progress["book"] < 0, NEW confused \in BOOLEAN, NEW h \in DoRead(g, book, confused)
    PROVE  GoesOn(g, h, "book", book)
<1>1. /\ Sound(g) /\ Idle(g) /\ "book" \in Tracks /\ book \in Goods
      /\ g.progress["book"] \in Int
  BY NoObject DEF Ready, Tracks, Sound, GameType
<1>2. CASE h = ZeroTime(g)
  <2>1. SameGoods(g, g, {book})
    BY SelfIs DEF SameGoods
  <2>2. QED
    BY <1>1, <1>2, <2>1, NoTimeGoesOn
<1>3. CASE confused /\ h \in BeginBook(g, book, confused)
  <2>1. h \in BeginBook(g, book, TRUE)
    BY <1>3
  <2>2. QED
    BY <1>1, <2>1, HardBookIs, IdleGoesOn
<1>4. CASE h \in LearnBook(Incomplete(g, "book"))
  <2>1. PICK i : i = Incomplete(g, "book")
    OBVIOUS
  <2>2. /\ Sound(i) /\ SameThings(g, i) /\ FlagsAre(g, i, TRUE, g.flags.interrupted, "book")
    BY <1>1, <2>1, IncompleteIs
  <2>3. Going(i, "book") /\ book = i.tracked["book"] /\ i.progress["book"] = g.progress["book"]
    BY <2>2 DEF Going, Busy, FlagsAre, SameThings, Ready
  <2>4. h \in LearnBook(i)
    BY <1>4, <2>1
  <2>5. /\ TurnOf(i, h, "book", {book}) /\ h.door = i.door
        /\ \/ Idle(h)
           \/ /\ h.progress["book"] = i.progress["book"] + 1
              /\ h.progress["book"] < 0
    BY <1>1, <2>2, <2>3, <2>4, PageIs
  <2>6. ~Idle(h) => Left(h, "book") \in 1..(Left(i, "book") - 1)
    <3>1. PICK n : n = i.progress["book"]
      OBVIOUS
    <3>2. n \in Int
      BY <1>1, <2>3, <3>1
    <3>3. ~Idle(h) => Left(h, "book") = -(n + 1) /\ Left(i, "book") = -n /\ n + 1 < 0
      BY <2>5, <3>1 DEF Left
    <3>4. QED
      BY <3>2, <3>3
  <2>7. QED
    BY <1>1, <2>1, <2>5, <2>6, TurnGoesOn
<1>5. g.progress["book"] # 0
  BY <1>1
<1>6. QED
  BY <1>2, <1>3, <1>4, <1>5 DEF DoRead

\* A turn at the lock
LEMMA LockTurnGoesOn ==
    ASSUME NEW g, Ready(g), NEW lock, lock = g.tracked["lock"],
           NEW i, i = Incomplete(g, "lock"),
           NEW h, NEW X, TurnOf(i, h, "lock", X), X \subseteq {lock} \cup Blades,
           lock # ADoor => h.door = i.door,
           \/ Idle(h)
           \/ h.progress["lock"] = i.progress["lock"] + 1 /\ i.progress["lock"] < MaxTries
    PROVE  GoesOn(g, h, "lock", lock)
<1>1. Sound(g) /\ "lock" \in Tracks /\ MaxTries \in Nat
  BY OccupationsAssumption DEF Ready, Tracks
<1>2. SameThings(g, i)
  BY <1>1, IncompleteIs
<1>3. PICK n : n = i.progress["lock"]
  OBVIOUS
<1>4. n \in 0..MaxTries
  BY <1>2, <1>3 DEF SameThings, Ready, Tallied
<1>5. ~Idle(h) => /\ Left(h, "lock") = MaxTries + 1 - (n + 1)
                  /\ Left(i, "lock") = MaxTries + 1 - n /\ n < MaxTries
  BY <1>3 DEF Left
<1>6. ~Idle(h) => Left(h, "lock") \in 1..(Left(i, "lock") - 1)
  BY <1>1, <1>4, <1>5
<1>7. QED
  BY <1>1, <1>6, TurnGoesOn

(* "repeat" of a key, at the door or at a box.                             *)
LEMMA PickGoesOn ==
    ASSUME NEW g, Ready(g), NEW lock, lock = g.tracked["lock"], lock # Nothing,
           g.progress["lock"] # 0, NEW arg, arg = ADoor <=> lock = ADoor,
           NEW h \in DoPick(g, arg)
    PROVE  GoesOn(g, h, "lock", lock)
<1>1. Sound(g) /\ "lock" \in Tracks
  BY DEF Ready, Tracks
<1>2. CASE h = ZeroTime(g)
  <2>1. SameGoods(g, g, {lock})
    BY SelfIs DEF SameGoods
  <2>2. QED
    BY <1>1, <1>2, <2>1, NoTimeGoesOn
<1>3. CASE h \in PickOn(Incomplete(g, "lock"))
  <2>1. PICK i : i = Incomplete(g, "lock")
    OBVIOUS
  <2>2. Sound(i) /\ SameThings(g, i)
    BY <1>1, <2>1, IncompleteIs
  <2>3. lock = i.tracked["lock"] /\ h \in PickOn(i)
    BY <1>3, <2>1, <2>2 DEF SameThings
  <2>4. /\ TurnOf(i, h, "lock", {lock}) /\ (lock # ADoor => h.door = i.door)
        /\ \/ Idle(h)
           \/ h.progress["lock"] = i.progress["lock"] + 1 /\ i.progress["lock"] < MaxTries
    BY <2>2, <2>3, PickIs
  <2>5. QED
    BY <2>1, <2>4, LockTurnGoesOn
<1>4. h = ZeroTime(g) \/ h \in PickOn(Incomplete(g, "lock"))
  <2>1. CASE arg = ADoor
    BY <2>1 DEF DoPick
  <2>2. CASE arg # ADoor
    BY <2>2 DEF DoPick
  <2>3. QED
    BY <2>1, <2>2
<1>5. QED
  BY <1>2, <1>3, <1>4

(* "repeat" of force, on the lock that is tracked.                         *)
LEMMA ForceGoesOn ==
    ASSUME NEW g, Ready(g), NEW lock, lock = g.tracked["lock"], lock # Nothing,
           g.progress["lock"] # 0, NEW box, NEW h \in DoForce(g, box)
    PROVE  GoesOn(g, h, "lock", lock)
<1>1. Sound(g) /\ "lock" \in Tracks
  BY DEF Ready, Tracks
<1>2. CASE h = ZeroTime(g)
  <2>1. SameGoods(g, g, {lock})
    BY SelfIs DEF SameGoods
  <2>2. QED
    BY <1>1, <1>2, <2>1, NoTimeGoesOn
<1>3. CASE h \in ForceOn(Incomplete(g, "lock"))
  <2>1. PICK i : i = Incomplete(g, "lock")
    OBVIOUS
  <2>2. Sound(i) /\ SameThings(g, i)
    BY <1>1, <2>1, IncompleteIs
  <2>3. lock = i.tracked["lock"] /\ h \in ForceOn(i)
    BY <1>3, <2>1, <2>2 DEF SameThings
  <2>4. /\ TurnOf(i, h, "lock", {lock} \cup Blades) /\ h.door = i.door
        /\ \/ Idle(h)
           \/ h.progress["lock"] = i.progress["lock"] + 1 /\ i.progress["lock"] < MaxTries
    BY <2>2, <2>3, ForceIs
  <2>5. QED
    BY <2>1, <2>4, LockTurnGoesOn
<1>4. QED
  BY <1>2, <1>3 DEF DoForce

(* "repeat" of a trap, where it was begun.                                 *)
LEMMA TrapGoesOn ==
    ASSUME NEW g, Ready(g), NEW mine \in LandMines, mine = g.tracked["trap"], g.at = g.site,
           NEW h \in DoSetTrap(g, mine)
    PROVE  GoesOn(g, h, "trap", mine)
<1> DEFINE none == [g EXCEPT !.tracked["trap"] = Nothing]
<1>1. /\ Sound(g) /\ "trap" \in Tracks /\ Nothing \in Targets /\ Nothing \notin Goods
      /\ g \in GameType
  BY NoObject DEF Ready, Tracks, Targets, Sound
<1>2. h = ZeroTime(g) \/ h = ZeroTime(none) \/ h = SetOn(Incomplete(g, "trap"))
  BY DEF DoSetTrap
<1>3. CASE h = ZeroTime(g)
  <2>1. SameGoods(g, g, {mine})
    BY SelfIs DEF SameGoods
  <2>2. QED
    BY <1>1, <1>3, <2>1, NoTimeGoesOn
<1>4. CASE h = ZeroTime(none)
  <2>1. Sound(none) /\ SameObjects(g, none) /\ SameSpot(g, none)
    BY <1>1, TrackIs
  <2> HIDE DEF none
  <2>2. SameGoods(g, none, {mine})
    BY <2>1, ThingsAreGoods
  <2>3. QED
    BY <1>1, <1>4, <2>1, <2>2, NoTimeGoesOn
<1>5. CASE h = SetOn(Incomplete(g, "trap"))
  <2>1. PICK i : i = Incomplete(g, "trap")
    OBVIOUS
  <2>2. Sound(i) /\ SameThings(g, i)
    BY <1>1, <2>1, IncompleteIs
  <2>3. mine = i.tracked["trap"] /\ h = SetOn(i)
    BY <1>5, <2>1, <2>2 DEF SameThings
  <2>4. /\ TurnOf(i, h, "trap", {mine}) /\ h.door = i.door
        /\ \/ Idle(h)
           \/ h.progress["trap"] = i.progress["trap"] - 1 /\ h.progress["trap"] > 0
    BY <2>2, <2>3, SetIs
  <2>5. ~Idle(h) => Left(h, "trap") \in 1..(Left(i, "trap") - 1)
    <3>1. PICK n : n = i.progress["trap"]
      OBVIOUS
    <3>2. i.progress \in [Tracks -> Int]
      BY <2>2 DEF Sound, GameType
    <3>3. n \in Int
      BY <1>1, <3>1, <3>2
    <3>4. ~Idle(h) => Left(h, "trap") = n - 1 /\ Left(i, "trap") = n /\ n - 1 > 0
      BY <2>4, <3>1 DEF Left
    <3>5. QED
      BY <3>3, <3>4
  <2>6. QED
    BY <1>1, <2>1, <2>4, <2>5, TurnGoesOn
<1>6. QED
  BY <1>2, <1>3, <1>4, <1>5

(* "repeat", sent for a command whose object is in reach.                  *)
LEMMA RepeatIs ==
    ASSUME OccInv, InReach, Repeat
    PROVE  \E g, h : /\ g.took = TRUE /\ SameThings(Game, g)
                     /\ GoesOn(g, h, flags.occupation, WorkedOn) /\ Sound(h)
                     /\ Becoming(IF h.took THEN h ELSE ResetOccs(h, FALSE))
                     /\ UnderWay /\ WorkedOn # Nothing
<1>1. PICK g : g = Clean(Game)
  OBVIOUS
<1>2. /\ GameInv(Game) /\ Sound(Game) /\ Sound(g) /\ SameThings(Game, g) /\ g.took = Game.took
      /\ FlagsAre(Game, g, FALSE, FALSE, Nothing)
  BY <1>1, CleanIs DEF OccInv, GameInv
<1>3. Ready(g) /\ g.took = TRUE
  BY <1>2 DEF Ready, GameInv, Tallied, SameThings, Idle, FlagsAre, Game
<1>4. g.flags.verb = flags.verb /\ g.flags.arg = flags.arg
  BY <1>2 DEF FlagsAre, SameCommand, Game
<1>5. PICK confused \in BOOLEAN : Entered(Outcomes(g, flags.verb, flags.arg, TRUE, confused))
  BY <1>1 DEF Repeat
<1>6. PICK h \in Outcomes(g, flags.verb, flags.arg, TRUE, confused) :
          Becoming(IF h.took THEN h ELSE ResetOccs(h, FALSE))
  BY <1>5 DEF Entered
<1>7. <<flags.verb, flags.arg>> \in LongCommands
  BY <1>2 DEF Repeat, Sound, Game
<1>8. Sound(h)
  BY <1>3, <1>4, <1>7, OutcomeIsSound DEF Result
<1>9. UnderWay /\ WorkedOn # Nothing /\ WorkedOn = tracked[flags.occupation]
  <2>1. ~WithYou(Game, Nothing) /\ Nothing # ADoor
    BY NoObject DEF WithYou
  <2>2. QED
    BY <2>1 DEF InReach, WorkedOn
<1>10. PICK s, target, verb, arg : /\ s = flags.occupation /\ target = WorkedOn
                                  /\ verb = flags.verb /\ arg = flags.arg
  OBVIOUS
<1>11. /\ target = g.tracked[s] /\ target # Nothing
       /\ WithYou(Game, target) <=> WithYou(g, target)
  BY <1>2, <1>9, <1>10 DEF SameThings, Game, WithYou
<1>12. h \in Outcomes(g, verb, arg, TRUE, confused)
  BY <1>10
<1>13. target \in Goods => WithYou(g, target)
  BY <1>10, <1>11, NoObject DEF InReach
<1>14. /\ s \in Tracks
       /\ s = "food" => verb = "eat"
       /\ s = "tin" => /\ verb = "eat" /\ arg = target /\ arg \in Tins
                       /\ g.tracked["food"] = Nothing
       /\ s = "book" => verb = "read" /\ arg = target /\ g.progress["book"] < 0
       /\ s = "lock" => /\ g.progress["lock"] # 0
                        /\ verb = "apply" => /\ arg \notin LandMines
                                             /\ arg = ADoor <=> target = ADoor
                        /\ verb \in {"apply", "force"}
       /\ s = "trap" => /\ verb = "apply" /\ arg = target /\ arg \in LandMines
                        /\ g.at = g.site
  <2>1. PICK f : f = Game.flags
    OBVIOUS
  <2>2. /\ f.occupation = s /\ f.verb = verb /\ f.arg = arg /\ f.incomplete /\ ~f.interrupted
    BY <1>9, <1>10, <2>1 DEF Game, UnderWay
  <2>3. Game.tracked = g.tracked /\ Game.progress = g.progress /\ Game.at = g.at /\ Game.site = g.site
    BY <1>2 DEF SameThings
  <2>4. Working(Game)
    BY <1>2 DEF GameInv
  <2>5. s \in Tracks
    BY <2>1, <2>2, <2>4 DEF Working, Busy
  <2>6. CASE s = "food"
    BY <1>11, <2>1, <2>2, <2>3, <2>4, <2>6 DEF Working, Busy, Tracks
  <2>7. CASE s = "tin"
    BY <1>11, <2>1, <2>2, <2>3, <2>4, <2>7 DEF Working, Busy, Tracks
  <2>8. CASE s = "book"
    BY <1>11, <2>1, <2>2, <2>3, <2>4, <2>8 DEF Working, Busy, Tracks
  <2>9. CASE s = "lock"
    BY <1>11, <2>1, <2>2, <2>3, <2>4, <2>9 DEF Working, Busy, Tracks
  <2>10. CASE s = "trap"
    BY <1>11, <2>1, <2>2, <2>3, <2>4, <2>10 DEF Working, Busy, Tracks
  <2>11. QED
    BY <2>5, <2>6, <2>7, <2>8, <2>9, <2>10 DEF Tracks
<1>15. GoesOn(g, h, s, target)
  <2>1. CASE s = "food"
    <3>1. target \in Meals /\ WithYou(g, target)
      BY <1>2, <1>11, <1>13, <2>1, FiniteKinds DEF Sound
    <3>2. g.quan[target] = 1 /\ g.oeaten[target] \in 1..MealSize
      <4>1. MealIsOne(Game) /\ Game.flags.occupation = "food"
        BY <1>2, <1>10, <2>1 DEF GameInv, Game
      <4>2. QED
        BY <1>2, <1>11, <2>1, <4>1 DEF MealIsOne, SameThings
    <3>3. h \in DoEat(g, arg, TRUE)
      BY <1>12, <1>14, <2>1 DEF Outcomes
    <3>4. QED
      BY <1>3, <1>11, <2>1, <3>1, <3>2, <3>3, EatGoesOn
  <2>2. CASE s = "tin"
    <3>1. target \in Tins /\ WithYou(g, target) /\ g.tracked["food"] = Nothing
      BY <1>13, <1>14, <2>2, FiniteKinds
    <3>2. h \in DoEat(g, target, TRUE)
      BY <1>12, <1>14, <2>2 DEF Outcomes
    <3>3. QED
      BY <1>3, <1>11, <2>2, <3>1, <3>2, TinGoesOn
  <2>3. CASE s = "book"
    <3>1. target \in Books
      BY <1>7, <1>10, <1>14, <2>3 DEF LongCommands
    <3>2. h \in DoRead(g, target, confused)
      BY <1>12, <1>14, <2>3 DEF Outcomes
    <3>3. QED
      BY <1>3, <1>11, <1>14, <2>3, <3>1, <3>2, BookGoesOn
  <2>4. CASE s = "lock"
    <3>1. CASE verb = "apply"
      <4>1. h \in DoPick(g, arg)
        BY <1>12, <1>14, <2>4, <3>1 DEF Outcomes
      <4>2. arg = ADoor <=> target = ADoor
        BY <1>14, <2>4, <3>1
      <4>3. QED
        BY <1>3, <1>11, <1>14, <2>4, <4>1, <4>2, PickGoesOn
    <3>2. CASE verb = "force"
      <4>1. h \in DoForce(g, arg)
        BY <1>12, <3>2 DEF Outcomes
      <4>2. QED
        BY <1>3, <1>11, <1>14, <2>4, <4>1, ForceGoesOn
    <3>3. QED
      BY <1>14, <2>4, <3>1, <3>2
  <2>5. CASE s = "trap"
    <3>1. h \in DoSetTrap(g, target) /\ target \in LandMines /\ g.at = g.site
      BY <1>12, <1>14, <2>5 DEF Outcomes
    <3>2. QED
      BY <1>3, <1>11, <2>5, <3>1, TrapGoesOn
  <2>6. QED
    BY <1>14, <2>1, <2>2, <2>3, <2>4, <2>5 DEF Tracks
<1>16. QED
  BY <1>2, <1>3, <1>6, <1>8, <1>9, <1>10, <1>15

(* What it leaves alone, and how long it can still take.                   *)
LEMMA RepeatedIs ==
    ASSUME OccInv, InReach, Repeat
    PROVE  /\ LeavesAlone(Game, Game', {WorkedOn} \cup Blades)
           /\ WorkedOn # ADoor => UNCHANGED door
           /\ Busy(Game') => Left(Game', flags'.occupation) \in 1..(Left(Game, flags.occupation) - 1)
<1>1. PICK g, h : /\ g.took = TRUE /\ SameThings(Game, g)
                  /\ GoesOn(g, h, flags.occupation, WorkedOn) /\ Sound(h)
                  /\ Becoming(IF h.took THEN h ELSE ResetOccs(h, FALSE))
                  /\ UnderWay /\ WorkedOn # Nothing
  BY RepeatIs
<1>2. PICK k : k = IF h.took THEN h ELSE ResetOccs(h, FALSE)
  OBVIOUS
<1>3. Sound(k) /\ SameGoods(h, k, {}) /\ k.flags = h.flags /\ (h.took => k = h)
  <2>1. CASE h.took
    <3>1. k = h /\ LeavesAlone(h, h, {})
      BY <1>2, <2>1, SelfIs
    <3>2. QED
      BY <1>1, <3>1 DEF SameGoods
  <2>2. CASE ~h.took
    <3>1. k = ResetOccs(h, FALSE) /\ FALSE \in BOOLEAN
      BY <1>2, <2>2
    <3>2. Sound(k) /\ SameObjects(h, k) /\ SameSpot(h, k) /\ SameMoment(h, k)
      BY <1>1, <3>1, ResetIs
    <3>3. QED
      BY <2>2, <3>2, ThingsAreGoods DEF SameMoment
  <2>3. QED
    BY <2>1, <2>2
<1>4. Becoming(k)
  BY <1>1, <1>2
<1>5. SameThings(k, Game') /\ (Game').flags = k.flags
  BY <1>3, <1>4, BecomingIs
<1>6. LeavesAlone(Game, Game', {WorkedOn} \cup Blades)
  <2>1. LeavesAlone(Game, g, {}) /\ LeavesAlone(k, Game', {})
    BY <1>1, <1>5, SameIsAlone
  <2>2. LeavesAlone(g, h, {WorkedOn} \cup Blades) /\ LeavesAlone(h, k, {})
    BY <1>1, <1>3 DEF GoesOn, SameGoods
  <2> DEFINE X == {WorkedOn} \cup Blades
  <2>3. {} \subseteq X /\ LeavesAlone(g, h, X)
    BY <2>2
  <2> HIDE DEF X
  <2>4. LeavesAlone(Game, Game', X)
    BY <2>1, <2>2, <2>3 DEF LeavesAlone
  <2>5. QED
    BY <2>4 DEF X
<1>7. WorkedOn # ADoor => (Game').door = Game.door
  BY <1>1, <1>3, <1>5 DEF GoesOn, SameGoods, SameThings
<1>8. WorkedOn # ADoor => UNCHANGED door
  BY <1>7 DEF Game
<1>9. Busy(Game') => Left(Game', flags'.occupation) \in 1..(Left(Game, flags.occupation) - 1)
  <2> SUFFICES ASSUME Busy(Game')
               PROVE  Left(Game', flags'.occupation) \in 1..(Left(Game, flags.occupation) - 1)
    OBVIOUS
  <2>1. ~Idle(h)
    BY <1>3, <1>5 DEF Busy, Idle
  <2>2. /\ h.took /\ h.flags.occupation = flags.occupation
        /\ Left(h, flags.occupation) \in 1..(Left(g, flags.occupation) - 1)
    BY <1>1, <2>1 DEF GoesOn
  <2>3. k = h
    BY <1>3, <2>2
  <2>4. Left(Game', flags.occupation) = Left(h, flags.occupation)
    BY <1>5, <2>3 DEF Left, SameThings
  <2>5. Left(Game, flags.occupation) = Left(g, flags.occupation)
    BY <1>1 DEF Left, SameThings
  <2>6. (Game').flags = flags'
    BY DEF Game
  <2>7. flags'.occupation = flags.occupation
    BY <1>3, <1>5, <2>2, <2>6
  <2>8. QED
    BY <2>2, <2>4, <2>5, <2>7
<1>10. QED
  BY <1>6, <1>8, <1>9

(* A command that nothing interrupted goes on with what it was working on, *)
(* and leaves everything else alone.                                       *)
THEOREM RepeatIsFaithful == OccupationsSpec => RepeatKeepsTarget
<1>1. ASSUME OccInv, InReach, Repeat
      PROVE  /\ \A o \in Goods \ ({WorkedOn} \cup Blades) :
                   /\ UNCHANGED <<whereat[o], quan[o], oeaten[o]>>
                   /\ UNCHANGED <<o \in olocked, o \in obroken>>
             /\ WorkedOn # ADoor => UNCHANGED door
  <2>1. /\ LeavesAlone(Game, Game', {WorkedOn} \cup Blades)
        /\ WorkedOn # ADoor => UNCHANGED door
    BY <1>1, RepeatedIs
  <2>2. \A o \in Goods \ ({WorkedOn} \cup Blades) :
            /\ whereat'[o] = whereat[o] /\ quan'[o] = quan[o] /\ oeaten'[o] = oeaten[o]
            /\ o \in olocked' <=> o \in olocked
            /\ o \in obroken' <=> o \in obroken
    BY <2>1 DEF LeavesAlone, Game
  <2>3. QED
    BY <2>1, <2>2
<1>2. OccInv /\ [OccupationsNext]_occupationVars =>
        [InReach /\ Repeat =>
          /\ \A o \in Goods \ ({WorkedOn} \cup Blades) :
                /\ UNCHANGED <<whereat[o], quan[o], oeaten[o]>>
                /\ UNCHANGED <<o \in olocked, o \in obroken>>
          /\ WorkedOn # ADoor => UNCHANGED door]_occupationVars
  BY <1>1
<1>3. QED
  BY <1>2, OccupationsInvariance, PTL DEF OccupationsSpec, RepeatKeepsTarget

(* Attempts end, and their time is their own.                              *)
THEOREM OccupationsEnd == OccupationsSpec => AttemptsEnd
<1>1. ASSUME OccInv, [OccupationsNext]_occupationVars
      PROVE  StartsAnew
  <2>1. Anew(Game, Game')
    BY <1>1, StepsAre DEF StepIs
  <2>2. \A s \in Tracks \ {"food"} :
            tracked'[s] \notin {Nothing, tracked[s]} => progress'[s] \in FirstTurn(s)
    BY <2>1 DEF Anew, Game
  <2>3. QED
    BY <2>2 DEF StartsAnew, FirstTurn
<1>2. ASSUME OccInv, InReach, UnderWay', Repeat
      PROVE  TurnsLeft' \in 1..(TurnsLeft - 1)
  <2>1. Busy(Game')
    BY <1>2 DEF UnderWay, Busy, Game
  <2>2. Left(Game', flags'.occupation) \in 1..(Left(Game, flags.occupation) - 1)
    BY <1>2, <2>1, RepeatedIs
  <2>3. TurnsLeft = Left(Game, flags.occupation)
    BY DEF TurnsLeft, Left, Game
  <2>4. TurnsLeft' = Left(Game', flags'.occupation)
    BY DEF TurnsLeft, Left, Game
  <2>5. QED
    BY <2>2, <2>3, <2>4
<1>3. OccInv /\ [OccupationsNext]_occupationVars =>
        [/\ StartsAnew
         /\ InReach /\ UnderWay' /\ Repeat => TurnsLeft' \in 1..(TurnsLeft - 1)]_occupationVars
  BY <1>1, <1>2
<1>4. QED
  BY <1>3, OccupationsInvariance, PTL DEF OccupationsSpec, AttemptsEnd

=============================================================================
