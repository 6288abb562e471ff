-------------------------- MODULE ReplayMode_proofs --------------------------
(***************************************************************************)
(* Proofs about ReplayMode: whatever the log, its save backups and the     *)
(* distances between checkpoints, a seek that is over is where it was told *)
(* to go, and none runs off the end of the log; for replays of logs that   *)
(* record no "interrupt" (with one, EndIsRecognised is false: see          *)
(* ReplayMode_interrupt).                                                  *)
(*                                                                         *)
(* The argument.  Without such lines the action is the place, and the      *)
(* checkpoints, in the order of their places, enclose it (Between).  A     *)
(* seek by actions never passes its target.  A seek by moves can: then it  *)
(* goes back to the checkpoint before, which lies before the place, and    *)
(* tries a neighbour of the move.  What keeps this right is that no line   *)
(* of the log stands between the move that was asked for and the one that  *)
(* is now tried, on the side that the seek came from (Forwards,            *)
(* Backwards), and that no line before the place has reached it (Passed).  *)
(***************************************************************************)
EXTENDS ReplayMode, SequenceTheorems, WellFoundedInduction, TLAPS

(* An "interrupt" in the log is a line that is played without being        *)
(* counted (dointerrupt, replay_force_diff).                               *)
NoInterrupts == \A l \in Logs : \A i \in DOMAIN l.lines : l.lines[i] = "command"

-----------------------------------------------------------------------------
(* Numbers.                                                                *)

LessThan == {p \in Nat \X Nat : p[1] < p[2]}

(* A set of numbers that is not empty has a least element.                 *)
LEMMA LeastNumber ==
    ASSUME NEW S \in SUBSET Nat, S # {}
    PROVE  \E x \in S : \A y \in S : x <= y
<1>1. IsWellFoundedOn(LessThan, Nat)
  BY NatLessThanWellFounded DEF OpToRel, LessThan
<1>2. PICK x \in S : \A y \in S : <<y, x>> \notin LessThan
  BY <1>1, WFMin
<1>3. \A y \in S : ~(y < x)
  BY <1>2 DEF LessThan
<1>4. QED
  BY <1>3

(* And one that is bounded has a greatest, which is its Max.               *)
LEMMA MaxOfBounded ==
    ASSUME NEW N \in Nat, NEW S \in SUBSET (0..N), S # {}
    PROVE  Max(S) \in S /\ \A y \in S : y <= Max(S)
<1> DEFINE Bounds == {u \in Nat : \A y \in S : y <= u}
<1>1. N \in Bounds
  OBVIOUS
<1>2. PICK u \in Bounds : \A v \in Bounds : u <= v
  BY <1>1, LeastNumber
<1>3. u \in S
  <2>1. SUFFICES ASSUME u \notin S PROVE FALSE
    OBVIOUS
  <2>2. \A y \in S : y < u
    <3>1. TAKE y \in S
    <3>2. y \in Nat
      OBVIOUS
    <3>3. u \in Nat /\ y <= u
      BY <1>2
    <3>4. y # u
      BY <2>1
    <3>5. QED
      BY <3>2, <3>3, <3>4
  <2>3. u - 1 \in Nat
    <3>1. PICK y \in S : TRUE
      OBVIOUS
    <3>2. y \in Nat /\ u \in Nat /\ y < u
      BY <2>2
    <3>3. QED
      BY <3>2
  <2>4. u - 1 \in Bounds
    <3>1. \A y \in S : y \in Nat
      OBVIOUS
    <3>2. \A y \in S : y <= u - 1
      BY <2>2, <2>3, <3>1
    <3>3. QED
      BY <2>3, <3>2
  <2>5. QED
    BY <1>2, <2>4
<1>4. \E x \in S : \A y \in S : x >= y
  BY <1>2, <1>3
<1>5. QED
  BY <1>4 DEF Max

(* How to know the Max and the Min of a set.                               *)
LEMMA MaxIs ==
    ASSUME NEW S \in SUBSET Int, NEW m \in S, \A y \in S : y <= m
    PROVE  Max(S) = m
<1>1. \A x \in S : (\A y \in S : x >= y) => x = m
  OBVIOUS
<1>2. m \in S /\ \A y \in S : m >= y
  OBVIOUS
<1>3. QED
  BY <1>1, <1>2 DEF Max

LEMMA MinIs ==
    ASSUME NEW S \in SUBSET Int, NEW m \in S, \A y \in S : m <= y
    PROVE  Min(S) = m
<1>1. \A x \in S : (\A y \in S : x <= y) => x = m
  OBVIOUS
<1>2. m \in S /\ \A y \in S : m <= y
  OBVIOUS
<1>3. QED
  BY <1>1, <1>2 DEF Min

-----------------------------------------------------------------------------
(* The log.                                                                *)

(* The turns of the game only go up.                                       *)
LEMMA MovesGoUp ==
    ASSUME NEW l \in Logs
    PROVE  \A i, j \in 0..Len(l.lines) : i <= j => l.moves[i] <= l.moves[j]
<1>1. /\ Len(l.lines) \in Nat /\ l.moves \in [0..Len(l.lines) -> Nat]
      /\ \A i \in 0..(Len(l.lines) - 1) : l.moves[i] <= l.moves[i + 1]
  BY ReplayAssumption DEF LogType
<1> DEFINE n == Len(l.lines)
           m == l.moves
<1> HIDE DEF n, m
<1>2. SUFFICES ASSUME NEW i \in 0..n, NEW j \in 0..n, i <= j, ~(m[i] <= m[j])
               PROVE  FALSE
  BY DEF n, m
<1>3. n \in Nat /\ m \in [0..n -> Nat] /\ \A k \in 0..(n - 1) : m[k] <= m[k + 1]
  BY <1>1 DEF n, m
<1> DEFINE Low == {k \in 0..n : i <= k /\ ~(m[i] <= m[k])}
<1>4. Low \in SUBSET Nat /\ Low # {}
  <2>1. j \in Low
    BY <1>2
  <2>2. Low \in SUBSET Nat
    BY <1>3
  <2>3. QED
    BY <2>1, <2>2
<1>5. PICK k \in Low : \A x \in Low : k <= x
  BY <1>4, LeastNumber
<1>6. k \in 0..n /\ i <= k /\ ~(m[i] <= m[k])
  OBVIOUS
<1>7. k # i /\ k - 1 \in 0..n /\ i <= k - 1 /\ k - 1 \in 0..(n - 1) /\ k - 1 + 1 = k
  BY <1>2, <1>3, <1>6
<1>8. k - 1 \notin Low
  BY <1>3, <1>5, <1>6, <1>7
<1>9. m[i] <= m[k - 1] /\ m[k - 1] <= m[k]
  BY <1>3, <1>7, <1>8
<1>10. m[i] \in Nat /\ m[k - 1] \in Nat /\ m[k] \in Nat
  BY <1>2, <1>3, <1>6, <1>7
<1>11. QED
  BY <1>6, <1>9, <1>10

(* What is known of a log, in one piece.                                   *)
LogFacts(l) ==
    /\ Len(l.lines) \in Nat \ {0}
    /\ l.moves \in [0..Len(l.lines) -> Nat]
    /\ \A i, j \in 0..Len(l.lines) : i <= j => l.moves[i] <= l.moves[j]
    /\ l.moves[0] = 1 /\ l.moves[1] = 1
    /\ l.over \in BOOLEAN /\ 0 \notin l.busy

LEMMA LogIsKnown ==
    ASSUME NEW l \in Logs
    PROVE  LogFacts(l)
<1>1. LogType(l) /\ l.moves[1] = l.moves[0] /\ l.moves[0] = 1
  BY ReplayAssumption
<1>2. Len(l.lines) \in Nat \ {0} /\ 0 \notin l.busy
  BY <1>1 DEF LogType
<1>3. QED
  BY <1>1, <1>2, MovesGoUp DEF LogType, LogFacts

-----------------------------------------------------------------------------
(* The invariant.                                                          *)

\* The last line after which the user is asked for something
LastStop == IF log.over THEN LastLine - 1 ELSE LastLine

(* Types; without an "interrupt" the action is the place.                  *)
ReplayTypes ==
    /\ log \in Logs /\ place \in 0..LastLine /\ action = place /\ last = LastLine
    /\ target \in Nat \ {0}
    /\ byMove \in BOOLEAN /\ reverse \in BOOLEAN /\ jumped \in BOOLEAN
    /\ phase \in {"want", "play", "user", "done"}

(* Checkpoints stand where lines are still to come, in the order of the    *)
(* game.                                                                   *)
Checkpoints(n) == [action : 0..(n - 1), place : 0..(n - 1)]
ListIsSound(list) ==
    /\ list \in Seq(Checkpoints(LastLine))
    /\ \A k \in DOMAIN list : list[k].action = list[k].place
    /\ \A j, k \in DOMAIN list : j < k => list[j].place < list[k].place

(* The place is between two checkpoints; the first is not beyond "welcome".*)
Between ==
    /\ prev \in 0..Len(chks)
    /\ prev > 0 => chks[prev].place <= place /\ chks[1].place <= 1
    /\ prev < Len(chks) => /\ place <= chks[prev + 1].place
                           /\ phase = "play" => place < chks[prev + 1].place

(* Only a replay that has just been opened has no checkpoint behind it.    *)
AtTheStart ==
    /\ phase = "want" /\ place = 0 /\ ~jumped /\ ~byMove
    /\ target = 1 \/ (chks # <<>> /\ chks[1].place = 0)

(* Where each phase can be, and what a seek that ran to the end wanted.    *)
PhaseIsRight ==
    /\ phase = "done" <=> log.over /\ place = LastLine
    /\ phase = "play" => place < LastLine
    /\ phase = "user" => ~byMove /\ target = place /\ place > 0
    /\ phase = "done" =>
          IF ~byMove THEN target >= LastLine
          ELSE IF jumped THEN \A i \in 1..(LastLine - 1) : log.moves[i] < target
          ELSE target = log.moves[LastLine]

(* The move that is now tried, on the way there and on the way back, shows *)
(* the same line as the one that was asked for; or the game ends first.    *)
Forwards(goal, back) ==
    /\ ~back /\ wanted.from <= wanted.goal /\ wanted.goal <= goal
    /\ \A i \in 1..LastLine : ~(wanted.goal <= log.moves[i] /\ log.moves[i] < goal)
Backwards(goal, back) ==
    /\ back /\ goal <= wanted.goal /\ wanted.goal < wanted.from
    /\ wanted.from <= log.moves[LastStop]
    /\ \A i \in 1..LastLine : ~(goal < log.moves[i] /\ log.moves[i] <= wanted.goal)
ToTheEnd(goal) ==
    /\ log.over /\ wanted.from <= wanted.goal /\ wanted.goal = goal
    /\ \A i \in 1..(LastLine - 1) : log.moves[i] < goal
Going(goal, back) == Forwards(goal, back) \/ Backwards(goal, back) \/ ToTheEnd(goal)

(* What holds of a seek before its jump, of one by actions, and of one by  *)
(* moves, which when it has passed its target has a checkpoint to go back  *)
(* to that lies before the place.                                          *)
NotJumped ==
    /\ target = wanted.goal
    /\ byMove => wanted.from = log.moves[place]
    /\ phase = "play" => byMove /\ place = 0 /\ target = 1
ByAction ==
    /\ target = wanted.goal /\ place <= target
    /\ phase = "play" => place < target
Passed ==
    /\ place > 0 /\ chks[prev].place < place
    /\ \A i \in 1..(place - 1) : log.moves[i] < target
ByMove ==
    /\ phase = "want" /\ target < log.moves[place] => Passed
    /\ phase = "play" => place = 0 \/ log.moves[place] < target
    /\ Going(target, reverse)

Seeking ==
    /\ wanted \in [goal : Nat \ {0}, byMove : {byMove}, from : Nat]
    /\ ~jumped => NotJumped
    /\ jumped => IF byMove THEN ByMove ELSE ByAction

(* What a seek that is over has found.                                     *)
Arrived ==
    IF wanted.byMove THEN log.moves[place] = NearestMove(wanted.goal, wanted.from)
                     ELSE place = Min({wanted.goal, LastLine})

ReplayInv ==
    /\ ReplayTypes /\ ListIsSound(chks) /\ Between /\ PhaseIsRight
    /\ prev = 0 => AtTheStart
    /\ phase \in {"want", "play"} => Seeking
    /\ phase \in {"user", "done"} => Arrived

-----------------------------------------------------------------------------
(* The log that is replayed.                                               *)

(* What ReplayAssumption says of it.                                       *)
Known ==
    /\ LastLine \in Nat \ {0}
    /\ log.moves \in [0..LastLine -> Nat]
    /\ \A i, j \in 0..LastLine : i <= j => log.moves[i] <= log.moves[j]
    /\ log.moves[0] = 1 /\ log.moves[1] = 1
    /\ log.over \in BOOLEAN /\ 0 \notin log.busy
    /\ LastStop \in 0..LastLine

(* What is known of any log is known of this one.                          *)
LEMMA ThisLogIsKnown ==
    ASSUME log \in Logs
    PROVE  Known
<1>1. LogFacts(log)
  BY LogIsKnown
<1>2. /\ LastLine \in Nat \ {0}
      /\ log.moves \in [0..LastLine -> Nat]
      /\ \A i, j \in 0..LastLine : i <= j => log.moves[i] <= log.moves[j]
      /\ log.moves[0] = 1 /\ log.moves[1] = 1
      /\ log.over \in BOOLEAN /\ 0 \notin log.busy
  BY <1>1 DEF LogFacts, LastLine
<1>3. LastStop \in 0..LastLine
  BY <1>2 DEF LastStop
<1>4. QED
  BY <1>2, <1>3 DEF Known

(* The position of a seek between two commands: between the checkpoints it *)
(* believes to be between, and not at the end of a game that is over.      *)
PositionIsSound(at) ==
    /\ at.place \in 0..LastStop /\ at.action = at.place
    /\ at.prev \in 0..Len(chks)
    /\ at.prev > 0 => chks[at.prev].place <= at.place /\ chks[1].place <= 1
    /\ at.prev < Len(chks) => at.place <= chks[at.prev + 1].place
    /\ at.prev = 0 => at.place = 0

(* What the list of checkpoints says of each of them.                      *)
LEMMA CheckpointIsSound ==
    ASSUME ListIsSound(chks), NEW k \in 1..Len(chks)
    PROVE  /\ chks[k].place \in 0..(LastLine - 1) /\ chks[k].action = chks[k].place
           /\ \A j \in 1..Len(chks) : j < k => chks[j].place < chks[k].place
<1>1. k \in DOMAIN chks /\ DOMAIN chks = 1..Len(chks)
  BY DEF ListIsSound
<1>2. chks[k] \in Checkpoints(LastLine)
  BY <1>1 DEF ListIsSound
<1>3. QED
  BY <1>1, <1>2 DEF ListIsSound, Checkpoints

(* A checkpoint of the list can be gone to.                                *)
LEMMA RestoredIsSound ==
    ASSUME Known, ListIsSound(chks), NEW k \in 1..Len(chks), chks[1].place <= 1
    PROVE  PositionIsSound(Restored(k)) /\ Restored(k).place < LastLine
<1>1. Len(chks) \in Nat
  BY DEF ListIsSound
<1>2. chks[k].place \in 0..(LastLine - 1) /\ chks[k].action = chks[k].place
  BY CheckpointIsSound
<1>3. chks[k].place \in 0..LastStop
  BY <1>2 DEF Known, LastStop
<1>4. k < Len(chks) => chks[k].place <= chks[k + 1].place
  <2>1. SUFFICES ASSUME k < Len(chks) PROVE chks[k].place <= chks[k + 1].place
    OBVIOUS
  <2>2. k + 1 \in 1..Len(chks) /\ k < k + 1
    BY <1>1, <2>1
  <2>3. chks[k].place < chks[k + 1].place /\ chks[k + 1].place \in 0..(LastLine - 1)
    BY <2>2, CheckpointIsSound
  <2>4. QED
    BY <1>2, <2>3 DEF Known
<1>5. /\ Restored(k).place = chks[k].place /\ Restored(k).action = chks[k].action
      /\ Restored(k).prev = k
  BY DEF Restored
<1>6. k \in 0..Len(chks) /\ k # 0
  BY <1>1
<1>7. QED
  BY <1>2, <1>3, <1>4, <1>5, <1>6 DEF PositionIsSound, Known

(* How far the replay has come, by the measure of the target.              *)
LEMMA HowFar ==
    ASSUME ReplayInv
    PROVE  /\ Replaction \in Nat
           /\ byMove => Replaction = log.moves[place]
           /\ ~byMove => Replaction = place
<1>1. Known /\ place \in 0..LastLine /\ action = place
  BY ThisLogIsKnown DEF ReplayInv, ReplayTypes
<1>2. QED
  BY <1>1 DEF Known, Replaction

(* The same for a checkpoint.                                              *)
LEMMA HowFarCheckpoint ==
    ASSUME Known, ListIsSound(chks), NEW k \in 1..Len(chks)
    PROVE  /\ ChkAction(chks[k]) \in Nat
           /\ byMove => ChkAction(chks[k]) = log.moves[chks[k].place]
           /\ ~byMove => ChkAction(chks[k]) = chks[k].place
<1>1. chks[k].place \in 0..(LastLine - 1) /\ chks[k].action = chks[k].place
  BY CheckpointIsSound
<1>2. QED
  BY <1>1 DEF Known, ChkAction

(* Going back loads a checkpoint that does not lie behind the target: there *)
(* always is one.                                                          *)
LEMMA BeforeIsSound ==
    ASSUME ReplayInv, prev > 0, NEW goal \in Nat \ {0}
    PROVE  Before(goal) \in 1..prev /\ ChkAction(chks[Before(goal)]) <= goal
<1>1. Known /\ ListIsSound(chks) /\ prev \in 0..Len(chks) /\ chks[1].place <= 1
  BY ThisLogIsKnown DEF ReplayInv, ReplayTypes, Between
<1>2. Len(chks) \in Nat
  BY <1>1 DEF ListIsSound
<1> DEFINE good == {k \in 1..prev : ChkAction(chks[k]) <= goal}
<1>3. 1 \in 1..prev /\ 1 \in 1..Len(chks) /\ prev \in Nat
  BY <1>1, <1>2
<1>4. chks[1].place \in 0..(LastLine - 1)
  BY <1>1, <1>3, CheckpointIsSound
<1>5. chks[1].place \in {0, 1}
  <2>1. LastLine \in Nat
    BY <1>1 DEF Known
  <2>2. QED
    BY <1>1, <1>4, <2>1
<1>6. /\ ChkAction(chks[1]) \in Nat
      /\ byMove => ChkAction(chks[1]) = log.moves[chks[1].place]
      /\ ~byMove => ChkAction(chks[1]) = chks[1].place
  BY <1>1, <1>3, HowFarCheckpoint
<1>7. log.moves[0] = 1 /\ log.moves[1] = 1
  BY <1>1 DEF Known
<1>8. ChkAction(chks[1]) <= goal
  BY <1>5, <1>6, <1>7
<1>9. 1 \in good
  BY <1>3, <1>8
<1>10. good \in SUBSET (0..prev)
  BY <1>3
<1>11. Max(good) \in good
  BY <1>3, <1>9, <1>10, MaxOfBounded
<1>12. Before(goal) = Max(good)
  BY <1>9 DEF Before
<1>13. QED
  BY <1>11, <1>12

(* Nor does the one that going ahead loads.                                *)
LEMMA AheadIsSound ==
    ASSUME ReplayInv, NEW goal \in Nat, Ahead(goal) # 0
    PROVE  /\ Ahead(goal) \in (prev + 1)..Len(chks)
           /\ ChkAction(chks[Ahead(goal)]) <= goal
           /\ ChkAction(chks[prev + 1]) <= goal
<1>1. Known /\ ListIsSound(chks) /\ prev \in 0..Len(chks)
  BY ThisLogIsKnown DEF ReplayInv, ReplayTypes, Between
<1>2. Len(chks) \in Nat /\ prev \in Nat
  BY <1>1 DEF ListIsSound
<1> DEFINE near == {k \in (prev + 1)..Len(chks) :
                      \A j \in (prev + 2)..k : goal > ChkAction(chks[j])}
<1>3. /\ prev # Len(chks) /\ ~(goal < ChkAction(chks[prev + 1]))
      /\ Ahead(goal) = Max(near)
  BY DEF Ahead
<1>4. prev + 1 \in (prev + 1)..Len(chks) /\ prev + 1 \in 1..Len(chks)
  BY <1>1, <1>2, <1>3
<1>5. prev + 1 \in near
  <2>1. (prev + 2)..(prev + 1) = {}
    BY <1>2
  <2>2. QED
    BY <1>4, <2>1
<1>6. near \in SUBSET (0..Len(chks))
  BY <1>2
<1>7. Max(near) \in near
  BY <1>2, <1>5, <1>6, MaxOfBounded
<1>8. ChkAction(chks[prev + 1]) <= goal
  BY <1>1, <1>3, <1>4, HowFarCheckpoint
<1>9. ChkAction(chks[Max(near)]) <= goal
  <2>1. CASE Max(near) = prev + 1
    BY <1>8, <2>1
  <2>2. CASE Max(near) # prev + 1
    <3>1. Max(near) \in (prev + 2)..Max(near) /\ Max(near) \in 1..Len(chks)
      BY <1>2, <1>7, <2>2
    <3>2. goal > ChkAction(chks[Max(near)])
      BY <1>7, <3>1
    <3>3. ChkAction(chks[Max(near)]) \in Nat
      BY <1>1, <3>1, HowFarCheckpoint
    <3>4. QED
      BY <3>2, <3>3
  <2>3. QED
    BY <2>1, <2>2
<1>10. QED
  BY <1>3, <1>7, <1>8, <1>9

-----------------------------------------------------------------------------
(* A seek after its jump.                                                  *)

SeekAt(at, goal, hasJumped, back) ==
    /\ PositionIsSound(at) /\ goal \in Nat \ {0}
    /\ hasJumped \in BOOLEAN /\ back \in BOOLEAN
    /\ ~hasJumped => /\ goal = wanted.goal
                     /\ goal = IF byMove THEN log.moves[at.place] ELSE at.place
                     /\ byMove => wanted.from = log.moves[at.place]
    /\ hasJumped /\ ~byMove => goal = wanted.goal /\ at.place <= goal
    /\ hasJumped /\ byMove => log.moves[at.place] <= goal /\ Going(goal, back)

(* Where a seek is before its jump.                                        *)
LEMMA HereIsSound ==
    ASSUME ReplayInv, phase = "want"
    PROVE  PositionIsSound(Here)
<1>1. Here.place = place /\ Here.action = action /\ Here.prev = prev
  BY DEF Here
<1>2. place \in 0..LastStop /\ action = place
  <2>1. Known /\ place \in 0..LastLine /\ action = place /\ (log.over => place # LastLine)
    BY ThisLogIsKnown DEF ReplayInv, ReplayTypes, PhaseIsRight
  <2>2. QED
    BY <2>1 DEF Known, LastStop
<1>3. prev = 0 => place = 0
  BY DEF ReplayInv, AtTheStart
<1>4. QED
  BY <1>1, <1>2, <1>3 DEF PositionIsSound, ReplayInv, Between

(* A jump back.                                                            *)
LEMMA JumpsBack ==
    ASSUME ReplayInv, phase = "want", ~jumped, target < Replaction
    PROVE  \E at : /\ Approach = [at |-> at, target |-> target, jumped |-> TRUE, reverse |-> TRUE]
                   /\ SeekAt(at, target, TRUE, TRUE)
<1>1. /\ Known /\ ListIsSound(chks) /\ target \in Nat \ {0} /\ Replaction \in Nat
      /\ place \in 0..LastLine /\ prev \in 0..Len(chks) /\ Len(chks) \in Nat
  BY HowFar, ThisLogIsKnown DEF ReplayInv, ReplayTypes, Between, ListIsSound
<1>2. prev > 0
  <2>1. SUFFICES ASSUME prev = 0 PROVE FALSE
    BY <1>1
  <2>2. place = 0 /\ ~byMove
    BY <2>1 DEF ReplayInv, AtTheStart
  <2>3. QED
    BY <1>1, <2>2, HowFar
<1> DEFINE k == Before(target)
<1>3. k \in 1..prev /\ ChkAction(chks[k]) <= target
  BY <1>1, <1>2, BeforeIsSound
<1>4. k \in 1..Len(chks) /\ chks[1].place <= 1
  BY <1>1, <1>2, <1>3 DEF ReplayInv, Between
<1> HIDE DEF k
<1>5. /\ ChkAction(chks[k]) \in Nat
      /\ byMove => ChkAction(chks[k]) = log.moves[chks[k].place]
      /\ ~byMove => ChkAction(chks[k]) = chks[k].place
  BY <1>1, <1>4, HowFarCheckpoint
<1>6. Max({target, ChkAction(chks[k])}) = target
  <2> DEFINE both == {target, ChkAction(chks[k])}
  <2>1. both \in SUBSET Int /\ target \in both
    BY <1>1, <1>5
  <2>2. \A y \in both : y <= target
    BY <1>1, <1>3
  <2> HIDE DEF both
  <2>3. Max(both) = target
    BY <2>1, <2>2, MaxIs
  <2>4. QED
    BY <2>3 DEF both
<1>7. Approach = [at |-> Restored(k), target |-> target, jumped |-> TRUE, reverse |-> TRUE]
  <2>1. ~jumped /\ target # Replaction /\ target < Replaction
    BY <1>1
  <2>2. Approach = [at |-> Restored(k), target |-> Max({target, ChkAction(chks[k])}),
                    jumped |-> TRUE, reverse |-> TRUE]
    BY <2>1 DEF Approach, k
  <2>3. QED
    BY <1>6, <2>2
<1>8. PositionIsSound(Restored(k)) /\ Restored(k).place = chks[k].place
  BY <1>1, <1>4, RestoredIsSound DEF Restored
<1>9. /\ target = wanted.goal
      /\ byMove => wanted.from = log.moves[place]
  BY DEF ReplayInv, Seeking, NotJumped
<1>10. byMove => Going(target, TRUE)
  <2>1. SUFFICES ASSUME byMove PROVE Backwards(target, TRUE)
    BY DEF Going
  <2>2. wanted.goal < wanted.from /\ target <= wanted.goal
    BY <1>1, <1>9, <2>1, HowFar
  <2>3. wanted.from <= log.moves[LastStop]
    <3>1. place <= LastStop /\ LastStop \in 0..LastLine /\ place \in 0..LastLine
      <4>1. log.over => place # LastLine
        BY DEF ReplayInv, PhaseIsRight
      <4>2. QED
        BY <1>1, <4>1 DEF Known, LastStop
    <3>2. QED
      BY <1>1, <1>9, <2>1, <3>1 DEF Known
  <2>4. \A i \in 1..LastLine : ~(target < log.moves[i] /\ log.moves[i] <= wanted.goal)
    <3>1. \A i \in 1..LastLine : log.moves[i] \in Nat
      BY <1>1 DEF Known
    <3>2. QED
      BY <1>1, <1>9, <3>1
  <2>5. QED
    BY <2>2, <2>3, <2>4 DEF Backwards
<1>11. SeekAt(Restored(k), target, TRUE, TRUE)
  BY <1>1, <1>3, <1>5, <1>8, <1>9, <1>10 DEF SeekAt
<1>12. QED
  BY <1>7, <1>11

(* A jump ahead, or none.                                                  *)
LEMMA JumpsAhead ==
    ASSUME ReplayInv, phase = "want", ~jumped, target > Replaction
    PROVE  \E at : /\ Approach = [at |-> at, target |-> target, jumped |-> TRUE, reverse |-> FALSE]
                   /\ SeekAt(at, target, TRUE, FALSE)
<1>1. /\ Known /\ ListIsSound(chks) /\ target \in Nat \ {0} /\ Replaction \in Nat
      /\ place \in 0..LastLine /\ prev \in 0..Len(chks) /\ Len(chks) \in Nat
  BY HowFar, ThisLogIsKnown DEF ReplayInv, ReplayTypes, Between, ListIsSound
<1> DEFINE k == IF target > Replaction + Far THEN Ahead(target) ELSE 0
           at == IF k = 0 THEN Here ELSE Restored(k)
<1>2. Approach = [at |-> at, target |-> target, jumped |-> TRUE, reverse |-> FALSE]
  <2>1. ~jumped /\ target # Replaction /\ ~(target < Replaction)
    BY <1>1
  <2>2. QED
    BY <2>1 DEF Approach
<1>3. /\ target = wanted.goal
      /\ byMove => wanted.from = log.moves[place]
  BY DEF ReplayInv, Seeking, NotJumped
<1>4. /\ PositionIsSound(at)
      /\ byMove => log.moves[at.place] <= target
      /\ ~byMove => at.place <= target
  <2>1. CASE k = 0
    <3>1. at = Here /\ Here.place = place
      BY <2>1 DEF Here
    <3>2. byMove => log.moves[place] <= target
      BY <1>1, HowFar
    <3>3. ~byMove => place <= target
      BY <1>1, HowFar
    <3>4. QED
      BY <3>1, <3>2, <3>3, HereIsSound
  <2>2. CASE k # 0
    <3>1. k = Ahead(target) /\ Ahead(target) # 0 /\ at = Restored(k)
      BY <2>2
    <3>2. /\ k \in (prev + 1)..Len(chks) /\ ChkAction(chks[k]) <= target
          /\ ChkAction(chks[prev + 1]) <= target
      BY <1>1, <3>1, AheadIsSound
    <3>3. k \in 1..Len(chks) /\ prev + 1 \in 1..Len(chks)
      BY <1>1, <3>2
    <3>4. chks[1].place <= 1
      <4>1. CASE prev > 0
        BY <4>1 DEF ReplayInv, Between
      <4>2. CASE prev = 0
        <5>1. ~byMove /\ (target = 1 \/ chks[1].place = 0)
          BY <4>2 DEF ReplayInv, AtTheStart
        <5>2. chks[1].place = ChkAction(chks[1])
          BY <1>1, <3>3, <4>2, <5>1, HowFarCheckpoint
        <5>3. QED
          BY <3>2, <4>2, <5>1, <5>2
      <4>3. QED
        BY <1>1, <4>1, <4>2
    <3>5. PositionIsSound(Restored(k)) /\ Restored(k).place = chks[k].place
      BY <1>1, <3>3, <3>4, RestoredIsSound DEF Restored
    <3>6. /\ byMove => ChkAction(chks[k]) = log.moves[chks[k].place]
          /\ ~byMove => ChkAction(chks[k]) = chks[k].place
      BY <1>1, <3>3, HowFarCheckpoint
    <3>7. QED
      BY <3>1, <3>2, <3>5, <3>6
  <2>3. QED
    BY <2>1, <2>2
<1>5. byMove => Going(target, FALSE)
  <2>1. SUFFICES ASSUME byMove PROVE Forwards(target, FALSE)
    BY DEF Going
  <2>2. wanted.from <= wanted.goal /\ wanted.goal <= target
    BY <1>1, <1>3, <2>1, HowFar
  <2>3. \A i \in 1..LastLine : ~(wanted.goal <= log.moves[i] /\ log.moves[i] < target)
    <3>1. \A i \in 1..LastLine : log.moves[i] \in Nat
      BY <1>1 DEF Known
    <3>2. QED
      BY <1>1, <1>3, <3>1
  <2>4. QED
    BY <2>2, <2>3 DEF Forwards
<1> HIDE DEF at
<1>6. SeekAt(at, target, TRUE, FALSE)
  BY <1>1, <1>3, <1>4, <1>5 DEF SeekAt
<1>7. QED
  BY <1>2, <1>6

(* A seek that went past its target tries again with the next one.         *)
LEMMA TriesAgain ==
    ASSUME ReplayInv, phase = "want", jumped, target < Replaction
    PROVE  \E at, goal : /\ Approach = [at |-> at, target |-> goal, jumped |-> TRUE, reverse |-> reverse]
                         /\ SeekAt(at, goal, TRUE, reverse)
<1>1. /\ Known /\ ListIsSound(chks) /\ target \in Nat \ {0} /\ Replaction \in Nat
      /\ place \in 0..LastLine /\ prev \in 0..Len(chks) /\ Len(chks) \in Nat
      /\ byMove \in BOOLEAN /\ reverse \in BOOLEAN
  BY HowFar, ThisLogIsKnown DEF ReplayInv, ReplayTypes, Between, ListIsSound
<1>2. prev # 0
  BY DEF ReplayInv, AtTheStart
<1>3. byMove
  <2>1. SUFFICES ASSUME ~byMove PROVE FALSE
    OBVIOUS
  <2>2. place <= target
    BY <2>1 DEF ReplayInv, Seeking, ByAction
  <2>3. QED
    BY <1>1, <2>1, <2>2, HowFar
<1>4. Replaction = log.moves[place]
  BY <1>3, HowFar
<1>5. Passed /\ Going(target, reverse) /\ wanted.goal \in Nat \ {0}
  BY <1>1, <1>3, <1>4 DEF ReplayInv, Seeking, ByMove
<1>6. place > 0 /\ chks[prev].place < place /\ \A i \in 1..(place - 1) : log.moves[i] < target
  BY <1>5 DEF Passed
<1>7. chks[1].place <= 1 /\ prev \in 1..Len(chks)
  BY <1>1, <1>2 DEF ReplayInv, Between
<1>8. /\ PositionIsSound(Restored(prev)) /\ Restored(prev).place = chks[prev].place
      /\ chks[prev].place \in 0..(LastLine - 1)
  BY <1>1, <1>7, RestoredIsSound, CheckpointIsSound DEF Restored
<1>9. ~ToTheEnd(target)
  <2>1. SUFFICES ASSUME ToTheEnd(target) PROVE FALSE
    OBVIOUS
  <2>2. place # LastLine
    BY <2>1 DEF ReplayInv, PhaseIsRight, ToTheEnd
  <2>3. place \in 1..(LastLine - 1)
    BY <1>1, <1>6, <2>2 DEF Known
  <2>4. log.moves[place] < target
    BY <2>1, <2>3 DEF ToTheEnd
  <2>5. QED
    BY <1>1, <1>4, <2>4
<1>10. \A i \in 1..LastLine : log.moves[i] \in Nat /\ log.moves[i] # target
  <2>1. TAKE i \in 1..LastLine
  <2>2. log.moves[i] \in Nat
    BY <1>1 DEF Known
  <2>3. CASE i <= place - 1
    BY <1>1, <1>6, <2>2, <2>3
  <2>4. CASE ~(i <= place - 1)
    <3>1. place <= i /\ i \in 0..LastLine /\ LastLine \in Nat
      BY <1>1, <2>4 DEF Known
    <3>2. log.moves[place] <= log.moves[i]
      BY <1>1, <3>1 DEF Known
    <3>3. QED
      BY <1>1, <1>4, <2>2, <3>2
  <2>5. QED
    BY <2>3, <2>4
<1> DEFINE goal == IF reverse THEN target - 1 ELSE target + 1
<1>11. log.moves[chks[prev].place] <= target - 1 /\ log.moves[chks[prev].place] \in Nat \ {0}
  <2>1. log.moves[0] = 1 /\ log.moves[1] = 1 /\ LastLine \in Nat \ {0}
    BY <1>1 DEF Known
  <2>2. CASE chks[prev].place = 0
    <3>1. place # 1
      BY <1>1, <1>4, <2>1
    <3>2. 1 \in 1..(place - 1)
      BY <1>1, <1>6, <3>1
    <3>3. 1 < target
      BY <1>6, <2>1, <3>2
    <3>4. QED
      BY <1>1, <2>1, <2>2, <3>3
  <2>3. CASE chks[prev].place # 0
    <3>1. chks[prev].place \in 1..(place - 1) /\ chks[prev].place \in 1..LastLine
      BY <1>1, <1>6, <1>8, <2>1, <2>3
    <3>2. log.moves[chks[prev].place] < target /\ log.moves[chks[prev].place] \in Nat
      BY <1>6, <1>10, <3>1
    <3>3. 1 <= log.moves[chks[prev].place]
      <4>1. 1 \in 0..LastLine /\ chks[prev].place \in 0..LastLine /\ 1 <= chks[prev].place
        BY <2>1, <3>1
      <4>2. log.moves[1] <= log.moves[chks[prev].place]
        BY <1>1, <4>1 DEF Known
      <4>3. QED
        BY <2>1, <4>2
    <3>4. QED
      BY <1>1, <3>2, <3>3
  <2>4. QED
    BY <2>2, <2>3
<1>12. goal \in Nat \ {0} /\ log.moves[chks[prev].place] <= goal
  BY <1>1, <1>11
<1>13. Going(goal, reverse)
  <2>1. CASE Forwards(target, reverse)
    <3>1. ~reverse /\ goal = target + 1
      BY <2>1 DEF Forwards
    <3>2. wanted.from <= wanted.goal /\ wanted.goal <= goal
      BY <1>1, <1>5, <2>1, <3>1 DEF Forwards
    <3>3. \A i \in 1..LastLine : ~(wanted.goal <= log.moves[i] /\ log.moves[i] < goal)
      <4>1. TAKE i \in 1..LastLine
      <4>2. ~(wanted.goal <= log.moves[i] /\ log.moves[i] < target)
        BY <2>1 DEF Forwards
      <4>3. log.moves[i] \in Nat /\ log.moves[i] # target
        BY <1>10
      <4>4. QED
        BY <1>1, <3>1, <4>2, <4>3
    <3>4. Forwards(goal, reverse)
      BY <3>1, <3>2, <3>3 DEF Forwards
    <3>5. QED
      BY <3>4 DEF Going
  <2>2. CASE Backwards(target, reverse)
    <3>1. reverse /\ goal = target - 1
      BY <2>2 DEF Backwards
    <3>2. goal <= wanted.goal
      BY <1>1, <1>5, <2>2, <3>1 DEF Backwards
    <3>3. \A i \in 1..LastLine : ~(goal < log.moves[i] /\ log.moves[i] <= wanted.goal)
      <4>1. TAKE i \in 1..LastLine
      <4>2. ~(target < log.moves[i] /\ log.moves[i] <= wanted.goal)
        BY <2>2 DEF Backwards
      <4>3. log.moves[i] \in Nat /\ log.moves[i] # target
        BY <1>10
      <4>4. QED
        BY <1>1, <3>1, <4>2, <4>3
    <3>4. Backwards(goal, reverse)
      BY <2>2, <3>1, <3>2, <3>3 DEF Backwards
    <3>5. QED
      BY <3>4 DEF Going
  <2>3. QED
    BY <1>5, <1>9, <2>1, <2>2 DEF Going
<1>14. Approach = [at |-> Restored(prev), target |-> goal, jumped |-> TRUE, reverse |-> reverse]
  <2>1. ~(~jumped /\ target # Replaction) /\ target < Replaction /\ jumped = TRUE
    BY DEF ReplayInv, ReplayTypes
  <2>2. QED
    BY <1>2, <2>1 DEF Approach
<1> HIDE DEF goal
<1>15. SeekAt(Restored(prev), goal, TRUE, reverse)
  BY <1>1, <1>3, <1>8, <1>12, <1>13 DEF SeekAt
<1>16. QED
  BY <1>14, <1>15

(* Otherwise it stays where it is.                                         *)
LEMMA StaysHere ==
    ASSUME ReplayInv, phase = "want", ~(target < Replaction), jumped \/ target = Replaction
    PROVE  /\ Approach = [at |-> Here, target |-> target, jumped |-> jumped, reverse |-> reverse]
           /\ SeekAt(Here, target, jumped, reverse)
<1>1. /\ Known /\ target \in Nat \ {0} /\ Replaction \in Nat
      /\ place \in 0..LastLine /\ byMove \in BOOLEAN /\ reverse \in BOOLEAN /\ jumped \in BOOLEAN
  BY HowFar, ThisLogIsKnown DEF ReplayInv, ReplayTypes
<1>2. Approach = [at |-> Here, target |-> target, jumped |-> jumped, reverse |-> reverse]
  BY DEF Approach
<1>3. PositionIsSound(Here) /\ Here.place = place
  BY HereIsSound DEF Here
<1>4. Seeking
  BY DEF ReplayInv
<1>5. ~jumped => /\ target = wanted.goal
                 /\ target = IF byMove THEN log.moves[place] ELSE place
                 /\ byMove => wanted.from = log.moves[place]
  BY <1>1, <1>4, HowFar DEF Seeking, NotJumped
<1>6. jumped /\ ~byMove => target = wanted.goal /\ place <= target
  BY <1>4 DEF Seeking, ByAction
<1>7. jumped /\ byMove => log.moves[place] <= target /\ Going(target, reverse)
  BY <1>1, <1>4, HowFar DEF Seeking, ByMove
<1>8. QED
  BY <1>1, <1>2, <1>3, <1>5, <1>6, <1>7 DEF SeekAt

(* So that a seek, whatever it does first, stands where it may.            *)
LEMMA ApproachIsSound ==
    ASSUME ReplayInv, phase = "want"
    PROVE  /\ SeekAt(Approach.at, Approach.target, Approach.jumped, Approach.reverse)
           /\ ~(prev = 0 /\ jumped)
<1>1. target \in Nat /\ Replaction \in Nat /\ jumped \in BOOLEAN
  BY HowFar DEF ReplayInv, ReplayTypes
<1>2. ~(prev = 0 /\ jumped)
  BY DEF ReplayInv, AtTheStart
<1>3. CASE ~jumped /\ target < Replaction
  <2>1. PICK at : /\ Approach = [at |-> at, target |-> target, jumped |-> TRUE, reverse |-> TRUE]
               /\ SeekAt(at, target, TRUE, TRUE)
    BY <1>3, JumpsBack
  <2>2. /\ Approach.at = at /\ Approach.target = target
        /\ Approach.jumped = TRUE /\ Approach.reverse = TRUE
    BY <2>1
  <2>3. QED
    BY <1>2, <2>1, <2>2
<1>4. CASE ~jumped /\ target > Replaction
  <2>1. PICK at : /\ Approach = [at |-> at, target |-> target, jumped |-> TRUE, reverse |-> FALSE]
               /\ SeekAt(at, target, TRUE, FALSE)
    BY <1>4, JumpsAhead
  <2>2. /\ Approach.at = at /\ Approach.target = target
        /\ Approach.jumped = TRUE /\ Approach.reverse = FALSE
    BY <2>1
  <2>3. QED
    BY <1>2, <2>1, <2>2
<1>5. CASE jumped /\ target < Replaction
  <2>1. PICK at, goal : /\ Approach = [at |-> at, target |-> goal, jumped |-> TRUE, reverse |-> reverse]
               /\ SeekAt(at, goal, TRUE, reverse)
    BY <1>5, TriesAgain
  <2>2. /\ Approach.at = at /\ Approach.target = goal
        /\ Approach.jumped = TRUE /\ Approach.reverse = reverse
    BY <2>1
  <2>3. QED
    BY <1>2, <2>1, <2>2
<1>6. CASE ~(target < Replaction) /\ (jumped \/ target = Replaction)
  BY <1>2, <1>6, StaysHere
<1>7. QED
  BY <1>1, <1>3, <1>4, <1>5, <1>6

-----------------------------------------------------------------------------
(* A checkpoint made between two others.                                   *)

PutIn(list, k, c) == SubSeq(list, 1, k) \o <<c>> \o SubSeq(list, k + 1, Len(list))
IsPutIn(new, list, k, c) ==
    /\ Len(new) = Len(list) + 1
    /\ \A i \in 1..k : new[i] = list[i]
    /\ new[k + 1] = c
    /\ \A i \in (k + 2)..(Len(list) + 1) : new[i] = list[i - 1]

(* Where the elements of a list go when one is put in after the first k.   *)
LEMMA PutInBetween ==
    ASSUME NEW S, NEW list \in Seq(S), NEW k \in 0..Len(list), NEW c \in S
    PROVE  PutIn(list, k, c) \in Seq(S) /\ IsPutIn(PutIn(list, k, c), list, k, c)
<1> DEFINE new == PutIn(list, k, c)
<1> DEFINE front == SubSeq(list, 1, k)
           back == SubSeq(list, k + 1, Len(list))
<1>1. Len(list) \in Nat /\ k \in Nat /\ k <= Len(list)
  OBVIOUS
<1>2. front \in Seq(S) /\ Len(front) = k /\ \A i \in 1..k : front[i] = list[i]
  <2>1. \A i \in 1..k : list[i] \in S
    BY <1>1
  <2>2. front \in Seq(S)
    BY <1>1, <2>1
  <2>3. Len(front) = k /\ \A i \in 1..k : front[i] = list[i]
    BY <1>1
  <2>4. QED
    BY <2>2, <2>3
<1>3. back \in Seq(S) /\ Len(back) = Len(list) - k
      /\ \A i \in 1..(Len(list) - k) : back[i] = list[k + i]
  <2>1. \A i \in (k + 1)..Len(list) : list[i] \in S
    BY <1>1
  <2>2. back \in Seq(S)
    BY <1>1, <2>1
  <2>3. Len(back) = Len(list) - k
    BY <1>1
  <2>4. \A i \in 1..(Len(list) - k) : back[i] = list[k + i]
    BY <1>1
  <2>5. QED
    BY <2>2, <2>3, <2>4
<1> HIDE DEF front, back
<1> DEFINE half == front \o <<c>>
<1>4. half \in Seq(S) /\ Len(half) = k + 1 /\ half[k + 1] = c
      /\ \A i \in 1..k : half[i] = front[i]
  <2>1. <<c>> \in Seq(S)
    OBVIOUS
  <2>2. half \in Seq(S)
    BY <1>2, <2>1
  <2>3. Len(half) = k + 1 /\ half[k + 1] = c
    BY <1>1, <1>2, SMTT(20)
  <2>4. \A i \in 1..k : half[i] = front[i]
    BY <1>1, <1>2
  <2>5. QED
    BY <2>2, <2>3, <2>4
<1> HIDE DEF half
<1>5. new = half \o back
  BY DEF PutIn, half, front, back
<1> HIDE DEF new
<1>6. /\ half \o back \in Seq(S) /\ Len(half \o back) = Len(half) + Len(back)
      /\ \A i \in 1..(Len(half) + Len(back)) :
            (half \o back)[i] = IF i <= Len(half) THEN half[i] ELSE back[i - Len(half)]
  BY <1>3, <1>4, ConcatProperties
<1>7. /\ new \in Seq(S) /\ Len(new) = Len(list) + 1
      /\ \A i \in 1..(Len(list) + 1) :
            new[i] = IF i <= k + 1 THEN half[i] ELSE back[i - (k + 1)]
  <2>1. Len(half) + Len(back) = Len(list) + 1 /\ Len(half) = k + 1
    BY <1>1, <1>3, <1>4
  <2>2. QED
    BY <1>5, <1>6, <2>1
<1>8. \A i \in (k + 2)..(Len(list) + 1) : new[i] = list[i - 1]
  <2>1. TAKE i \in (k + 2)..(Len(list) + 1)
  <2>2. i - (k + 1) \in 1..(Len(list) - k) /\ k + (i - (k + 1)) = i - 1
    BY <1>1
  <2>3. i \in 1..(Len(list) + 1) /\ ~(i <= k + 1)
    BY <1>1
  <2>4. new[i] = back[i - (k + 1)]
    BY <1>7, <2>3
  <2>5. back[i - (k + 1)] = list[k + (i - (k + 1))]
    BY <1>3, <2>2
  <2>6. QED
    BY <2>2, <2>4, <2>5
<1>9. \A i \in 1..k : new[i] = list[i]
  <2>1. TAKE i \in 1..k
  <2>2. i \in 1..(Len(list) + 1) /\ i <= k + 1
    BY <1>1
  <2>3. new[i] = half[i]
    BY <1>7, <2>2
  <2>4. QED
    BY <1>2, <1>4, <2>3
<1>10. new[k + 1] = c
  <2>1. k + 1 \in 1..(Len(list) + 1) /\ k + 1 <= k + 1
    BY <1>1
  <2>2. QED
    BY <1>4, <1>7, <2>1
<1>11. new \in Seq(S) /\ IsPutIn(new, list, k, c)
  BY <1>7, <1>8, <1>9, <1>10 DEF IsPutIn
<1>12. QED
  BY <1>11 DEF new

(* What is made is in order, and the replay is right behind it.            *)
MadeWell(made, c) ==
    /\ ListIsSound(made.list)
    /\ made.prev \in 1..Len(made.list)
    /\ made.list[made.prev].place = c.place
    /\ made.prev < Len(made.list) => c.place < made.list[made.prev + 1].place
    /\ made.list[1].place <= 1

(* A checkpoint goes in where its place is.                                *)
LEMMA CreateIsSound ==
    ASSUME NEW list, ListIsSound(list), NEW k \in 0..Len(list),
           NEW c \in Checkpoints(LastLine), c.action = c.place, LastLine \in Nat,
           k > 0 => list[k].place <= c.place /\ list[1].place <= 1,
           k = 0 => c.place <= 1,
           k < Len(list) => c.place < list[k + 1].place
    PROVE  MadeWell(CreateCheckpoint(list, k, c), c)
<1>1. /\ list \in Seq(Checkpoints(LastLine)) /\ Len(list) \in Nat /\ k \in Nat
      /\ DOMAIN list = 1..Len(list)
      /\ \A i \in 1..Len(list) : list[i].action = list[i].place
      /\ \A i, j \in 1..Len(list) : i < j => list[i].place < list[j].place
  BY DEF ListIsSound
<1>2. \A i \in 1..Len(list) : list[i].place \in Nat
  <2>1. TAKE i \in 1..Len(list)
  <2>2. list[i] \in Checkpoints(LastLine)
    BY <1>1
  <2>3. QED
    BY <2>2 DEF Checkpoints
<1>3. c.place \in Nat
  BY DEF Checkpoints
<1>4. CASE k > 0 /\ list[k].action = c.action
  <2>1. k \in 1..Len(list)
    BY <1>1, <1>4
  <2>2. list[k] = c
    <3>1. list[k] \in Checkpoints(LastLine)
      BY <1>1, <2>1
    <3>2. list[k].place = c.place
      BY <1>1, <1>4, <2>1
    <3>3. QED
      BY <1>4, <3>1, <3>2 DEF Checkpoints
  <2>3. [list EXCEPT ![k] = c] = list
    BY <1>1, <2>1, <2>2
  <2>4. CreateCheckpoint(list, k, c) = [list |-> list, prev |-> k]
    BY <1>4, <2>3 DEF CreateCheckpoint
  <2>5. MadeWell([list |-> list, prev |-> k], c)
    BY <1>4, <2>1, <2>2 DEF MadeWell
  <2>6. QED
    BY <2>4, <2>5
<1>5. CASE ~(k > 0 /\ list[k].action = c.action)
  <2> DEFINE new == PutIn(list, k, c)
  <2>1. ~(k < Len(list) /\ list[k + 1].action = c.action)
    <3>1. SUFFICES ASSUME k < Len(list) PROVE list[k + 1].action # c.action
      OBVIOUS
    <3>2. k + 1 \in 1..Len(list)
      BY <1>1, <3>1
    <3>3. QED
      BY <1>1, <1>2, <1>3, <3>1, <3>2
  <2>2. CreateCheckpoint(list, k, c) = [list |-> new, prev |-> k + 1]
    BY <1>5, <2>1 DEF CreateCheckpoint, PutIn
  <2>3. /\ new \in Seq(Checkpoints(LastLine)) /\ Len(new) = Len(list) + 1
        /\ \A i \in 1..k : new[i] = list[i]
        /\ new[k + 1] = c
        /\ \A i \in (k + 2)..(Len(list) + 1) : new[i] = list[i - 1]
    <3>1. new \in Seq(Checkpoints(LastLine)) /\ IsPutIn(new, list, k, c)
      BY <1>1, PutInBetween
    <3> HIDE DEF new
    <3>2. QED
      BY <3>1 DEF IsPutIn
  <2> HIDE DEF new
  <2>4. DOMAIN new = 1..(Len(list) + 1)
    BY <2>3
  <2>5. \A i \in 1..k : i \in 1..Len(list) /\ list[i].place < c.place
    <3>1. TAKE i \in 1..k
    <3>2. i \in 1..Len(list) /\ k \in 1..Len(list)
      BY <1>1
    <3>3. list[k].place < c.place
      BY <1>1, <1>2, <1>3, <1>5, <3>2
    <3>4. list[i].place <= list[k].place
      BY <1>1, <1>2, <3>2
    <3>5. QED
      BY <1>2, <1>3, <3>2, <3>3, <3>4
  <2>6. \A i \in (k + 2)..(Len(list) + 1) : i - 1 \in 1..Len(list) /\ c.place < list[i - 1].place
    <3>1. TAKE i \in (k + 2)..(Len(list) + 1)
    <3>2. i - 1 \in 1..Len(list) /\ k + 1 \in 1..Len(list) /\ k + 1 <= i - 1
      BY <1>1
    <3>3. c.place < list[k + 1].place
      BY <1>1, <3>2
    <3>4. list[k + 1].place <= list[i - 1].place
      <4>1. CASE k + 1 = i - 1
        BY <1>2, <3>2, <4>1
      <4>2. CASE k + 1 < i - 1
        BY <1>1, <1>2, <3>2, <4>2
      <4>3. QED
        BY <3>2, <4>1, <4>2
    <3>5. list[k + 1].place \in Nat /\ list[i - 1].place \in Nat
      BY <1>2, <3>2
    <3>6. c.place < list[i - 1].place
      BY <1>3, <3>3, <3>4, <3>5
    <3>7. QED
      BY <3>2, <3>6
  <2>7. \A i \in DOMAIN new : new[i].action = new[i].place
    <3>1. TAKE i \in DOMAIN new
    <3>2. CASE i \in 1..k
      BY <1>1, <2>3, <2>5, <3>2
    <3>3. CASE i = k + 1
      BY <2>3, <3>3
    <3>4. CASE i \in (k + 2)..(Len(list) + 1)
      BY <1>1, <2>3, <2>6, <3>4
    <3>5. QED
      BY <1>1, <2>4, <3>2, <3>3, <3>4
  <2>8. \A i, j \in DOMAIN new : i < j => new[i].place < new[j].place
    <3>1. SUFFICES ASSUME NEW i \in DOMAIN new, NEW j \in DOMAIN new, i < j
                   PROVE  new[i].place < new[j].place
      OBVIOUS
    <3>2. CASE i \in 1..k /\ j \in 1..k
      BY <1>1, <2>3, <2>5, <3>1, <3>2
    <3>3. CASE i \in 1..k /\ j = k + 1
      BY <2>3, <2>5, <3>3
    <3>4. CASE i \in 1..k /\ j \in (k + 2)..(Len(list) + 1)
      <4>1. new[i] = list[i] /\ new[j] = list[j - 1]
        BY <2>3, <3>4
      <4>2. i \in 1..Len(list) /\ j - 1 \in 1..Len(list) /\ i < j - 1
        BY <1>1, <2>5, <2>6, <3>4
      <4>3. QED
        BY <1>1, <4>1, <4>2
    <3>5. CASE i = k + 1 /\ j \in (k + 2)..(Len(list) + 1)
      BY <2>3, <2>6, <3>5
    <3>6. CASE i \in (k + 2)..(Len(list) + 1) /\ j \in (k + 2)..(Len(list) + 1)
      <4>1. new[i] = list[i - 1] /\ new[j] = list[j - 1]
        BY <2>3, <3>6
      <4>2. i - 1 \in 1..Len(list) /\ j - 1 \in 1..Len(list) /\ i - 1 < j - 1
        BY <1>1, <2>6, <3>1, <3>6
      <4>3. QED
        BY <1>1, <4>1, <4>2
    <3>7. QED
      BY <1>1, <2>4, <3>1, <3>2, <3>3, <3>4, <3>5, <3>6
  <2>9. ListIsSound(new)
    BY <2>3, <2>7, <2>8 DEF ListIsSound
  <2>10. new[1].place <= 1
    <3>1. CASE k = 0
      BY <2>3, <3>1
    <3>2. CASE k # 0
      <4>1. 1 \in 1..k
        BY <1>1, <3>2
      <4>2. QED
        BY <1>1, <2>3, <3>2, <4>1
    <3>3. QED
      BY <3>1, <3>2
  <2>11. k + 1 \in 1..Len(new)
    BY <1>1, <2>3
  <2>12. k + 1 < Len(new) => c.place < new[(k + 1) + 1].place
    <3>1. SUFFICES ASSUME k + 1 < Len(new) PROVE c.place < new[(k + 1) + 1].place
      OBVIOUS
    <3>2. k + 2 \in (k + 2)..(Len(list) + 1) /\ (k + 1) + 1 = k + 2
      BY <1>1, <2>3, <3>1
    <3>3. QED
      BY <2>3, <2>6, <3>2
  <2>13. MadeWell([list |-> new, prev |-> k + 1], c)
    BY <2>3, <2>9, <2>10, <2>11, <2>12 DEF MadeWell
  <2>14. QED
    BY <2>2, <2>13
<1>6. QED
  BY <1>4, <1>5

-----------------------------------------------------------------------------
(* What the user is promised.                                              *)

(* The turn that is promised to a seek forwards: the first that is late    *)
(* enough.                                                                 *)
LEMMA NearestForwards ==
    ASSUME Known, NEW goal \in Nat, NEW from \in Nat, NEW p \in 1..LastLine,
           from <= goal, goal <= log.moves[p],
           \A i \in 1..LastLine : goal <= log.moves[i] => log.moves[p] <= log.moves[i]
    PROVE  NearestMove(goal, from) = log.moves[p]
<1> DEFINE seen == {log.moves[i] : i \in 1..LastLine}
           late == {m \in seen : m >= goal}
<1>1. \A i \in 1..LastLine : log.moves[i] \in Nat
  BY DEF Known
<1>2. late \in SUBSET Int /\ log.moves[p] \in late
  BY <1>1
<1>3. \A m \in late : log.moves[p] <= m
  BY <1>1
<1>4. Min(late) = log.moves[p]
  <2> HIDE DEF late
  <2>1. QED
    BY <1>2, <1>3, MinIs
<1>5. ~(goal < from) /\ late # {}
  BY <1>2
<1>6. NearestMove(goal, from) = Min(late)
  BY <1>5 DEF NearestMove
<1>7. QED
  BY <1>4, <1>6

(* The last turn of the log, if none is late enough.                       *)
LEMMA NearestAtTheEnd ==
    ASSUME Known, NEW goal \in Nat, NEW from \in Nat, from <= goal,
           \A i \in 1..LastLine : log.moves[i] < goal
    PROVE  NearestMove(goal, from) = log.moves[LastLine]
<1> DEFINE seen == {log.moves[i] : i \in 1..LastLine}
           late == {m \in seen : m >= goal}
<1>1. \A i \in 1..LastLine : log.moves[i] \in Nat /\ log.moves[i] <= log.moves[LastLine]
  <2>1. TAKE i \in 1..LastLine
  <2>2. LastLine \in 0..LastLine /\ i \in 0..LastLine /\ i <= LastLine
    BY DEF Known
  <2>3. QED
    BY <2>2 DEF Known
<1>2. LastLine \in 1..LastLine
  BY DEF Known
<1>3. seen \in SUBSET Int /\ log.moves[LastLine] \in seen
  BY <1>1, <1>2
<1>4. \A m \in seen : m <= log.moves[LastLine]
  BY <1>1
<1>5. late = {}
  BY <1>1
<1>6. Max(seen) = log.moves[LastLine]
  <2> HIDE DEF seen
  <2>1. QED
    BY <1>3, <1>4, MaxIs
<1>7. ~(goal < from)
  OBVIOUS
<1>8. NearestMove(goal, from) = Max(seen)
  BY <1>5, <1>7 DEF NearestMove
<1>9. QED
  BY <1>6, <1>8

(* The turn that is promised to a seek backwards: the last that is early   *)
(* enough.                                                                 *)
LEMMA NearestBackwards ==
    ASSUME Known, NEW goal \in Nat, NEW from \in Nat, NEW p \in 1..LastLine,
           goal < from, log.moves[p] <= goal,
           \A i \in 1..LastLine : log.moves[i] <= goal => log.moves[i] <= log.moves[p]
    PROVE  NearestMove(goal, from) = log.moves[p]
<1> DEFINE seen == {log.moves[i] : i \in 1..LastLine}
           early == {m \in seen : m <= goal}
<1>1. \A i \in 1..LastLine : log.moves[i] \in Nat
  BY DEF Known
<1>2. early \in SUBSET Int /\ log.moves[p] \in early
  BY <1>1
<1>3. \A m \in early : m <= log.moves[p]
  BY <1>1
<1>4. Max(early) = log.moves[p]
  <2> HIDE DEF early
  <2>1. QED
    BY <1>2, <1>3, MaxIs
<1>5. NearestMove(goal, from) = Max(early)
  BY DEF NearestMove
<1>6. QED
  BY <1>4, <1>5

(* The lesser of two numbers.                                              *)
LEMMA MinOfTwo ==
    ASSUME NEW m \in Nat, NEW n \in Nat, m <= n
    PROVE  Min({m, n}) = m /\ Min({n, m}) = m
<1> DEFINE both == {m, n}
<1>1. both \in SUBSET Int /\ m \in both /\ \A y \in both : m <= y
  OBVIOUS
<1>2. both = {n, m}
  OBVIOUS
<1> HIDE DEF both
<1>3. Min(both) = m
  BY <1>1, MinIs
<1>4. QED
  BY <1>2, <1>3 DEF both

(* A seek that has passed no turn of its target but the last of the log.   *)
LEMMA ArrivedAtTheEnd ==
    ASSUME Known, NEW goal \in Nat, wanted.goal \in Nat \ {0}, wanted.from \in Nat,
           NEW back \in BOOLEAN, Going(goal, back), log.over,
           \A i \in 1..(LastLine - 1) : log.moves[i] < goal,
           ~Backwards(goal, back)
    PROVE  log.moves[LastLine] = NearestMove(wanted.goal, wanted.from)
<1>1. LastLine \in Nat \ {0} /\ \A i \in 1..LastLine : log.moves[i] \in Nat
  BY DEF Known
<1>2. wanted.from <= wanted.goal /\ wanted.goal <= goal
      /\ \A i \in 1..(LastLine - 1) : log.moves[i] < wanted.goal
  <2>1. CASE Forwards(goal, back)
    <3>1. \A i \in 1..(LastLine - 1) : log.moves[i] < wanted.goal
      <4>1. TAKE i \in 1..(LastLine - 1)
      <4>2. i \in 1..LastLine /\ log.moves[i] \in Nat
        BY <1>1
      <4>3. ~(wanted.goal <= log.moves[i] /\ log.moves[i] < goal) /\ log.moves[i] < goal
        BY <2>1, <4>2 DEF Forwards
      <4>4. QED
        BY <4>2, <4>3
    <3>2. QED
      BY <2>1, <3>1 DEF Forwards
  <2>2. CASE ToTheEnd(goal)
    BY <2>2 DEF ToTheEnd
  <2>3. QED
    BY <2>1, <2>2 DEF Going
<1>3. LastLine \in 1..LastLine /\ log.moves[LastLine] \in Nat
  BY <1>1
<1>4. \A i \in 1..LastLine : i = LastLine \/ i \in 1..(LastLine - 1)
  BY <1>1
<1>5. CASE wanted.goal <= log.moves[LastLine]
  <2>1. \A i \in 1..LastLine : wanted.goal <= log.moves[i] => log.moves[LastLine] <= log.moves[i]
    BY <1>1, <1>2, <1>4
  <2>2. QED
    BY <1>2, <1>3, <1>5, <2>1, NearestForwards
<1>6. CASE ~(wanted.goal <= log.moves[LastLine])
  <2>1. \A i \in 1..LastLine : log.moves[i] < wanted.goal
    BY <1>1, <1>2, <1>3, <1>4, <1>6
  <2>2. QED
    BY <1>2, <2>1, NearestAtTheEnd
<1>7. QED
  BY <1>5, <1>6

(* A seek that stops is where it was told to go.                           *)
LEMMA ReachedIsRight ==
    ASSUME ReplayInv, phase = "want", NEW at, NEW goal, NEW hasJumped, NEW back,
           SeekAt(at, goal, hasJumped, back), ReachedAt(at, goal)
    PROVE  /\ at.place > 0
           /\ IF wanted.byMove THEN log.moves[at.place] = NearestMove(wanted.goal, wanted.from)
                               ELSE at.place = Min({wanted.goal, LastLine})
<1>1. /\ Known /\ last = LastLine /\ byMove \in BOOLEAN
      /\ wanted.goal \in Nat \ {0} /\ wanted.byMove = byMove /\ wanted.from \in Nat
  BY ThisLogIsKnown DEF ReplayInv, ReplayTypes, Seeking
<1>2. LastLine \in Nat \ {0} /\ LastStop \in 0..LastLine
  BY <1>1 DEF Known
<1>3. /\ at.place \in 0..LastStop /\ at.action = at.place /\ goal \in Nat \ {0}
      /\ hasJumped \in BOOLEAN /\ back \in BOOLEAN
  BY DEF SeekAt, PositionIsSound
<1>4. at.place \in 1..LastLine /\ at.place > 0
  BY <1>1, <1>2, <1>3 DEF ReachedAt
<1>5. /\ at.place = LastLine \/ goal = IF byMove THEN log.moves[at.place] ELSE at.place
      /\ at.place = LastLine => ~log.over /\ LastStop = LastLine
  <2>1. log.over => LastStop = LastLine - 1
    BY DEF LastStop
  <2>2. ~log.over => LastStop = LastLine
    BY DEF LastStop
  <2>3. QED
    BY <1>1, <1>2, <1>3, <2>1, <2>2 DEF ReachedAt
<1>6. CASE ~byMove
  <2>1. goal = wanted.goal /\ at.place <= goal
    <3>1. CASE hasJumped
      BY <1>6, <3>1 DEF SeekAt
    <3>2. CASE ~hasJumped
      BY <1>3, <1>4, <1>6, <3>2 DEF SeekAt
    <3>3. QED
      BY <3>1, <3>2
  <2>2. CASE at.place = LastLine
    <3>1. Min({wanted.goal, LastLine}) = LastLine
      BY <1>1, <1>2, <2>1, <2>2, MinOfTwo
    <3>2. QED
      BY <1>1, <1>4, <1>6, <2>2, <3>1
  <2>3. CASE at.place # LastLine
    <3>1. goal = at.place
      BY <1>5, <1>6, <2>3
    <3>2. Min({wanted.goal, LastLine}) = wanted.goal
      BY <1>1, <1>2, <1>4, <2>1, <3>1, MinOfTwo
    <3>3. QED
      BY <1>1, <1>4, <1>6, <2>1, <3>1, <3>2
  <2>4. QED
    BY <2>2, <2>3
<1>7. CASE byMove
  <2>1. \A i \in 1..LastLine : log.moves[i] \in Nat
    BY <1>1 DEF Known
  <2>2. log.moves[at.place] \in Nat
    BY <1>4, <2>1
  <2>3. CASE ~hasJumped
    <3>1. wanted.goal = log.moves[at.place] /\ wanted.from = log.moves[at.place]
      BY <1>7, <2>3 DEF SeekAt
    <3>2. log.moves[at.place] = NearestMove(wanted.goal, wanted.from)
      BY <1>1, <1>4, <2>2, <3>1, NearestForwards
    <3>3. QED
      BY <1>1, <1>4, <1>7, <3>2
  <2>4. CASE hasJumped
    <3>1. log.moves[at.place] <= goal /\ Going(goal, back)
      BY <1>7, <2>4 DEF SeekAt
    <3>2. CASE log.moves[at.place] = goal
      <4>1. ~ToTheEnd(goal)
        <5>1. SUFFICES ASSUME ToTheEnd(goal) PROVE FALSE
          OBVIOUS
        <5>2. log.over
          BY <5>1 DEF ToTheEnd
        <5>3. at.place \in 1..(LastLine - 1)
          BY <1>2, <1>4, <1>5, <5>2
        <5>4. log.moves[at.place] < goal
          BY <5>1, <5>3 DEF ToTheEnd
        <5>5. QED
          BY <2>2, <3>2, <5>4
      <4>2. CASE Forwards(goal, back)
        <5>1. wanted.from <= wanted.goal /\ wanted.goal <= log.moves[at.place]
          BY <3>2, <4>2 DEF Forwards
        <5>2. \A i \in 1..LastLine : wanted.goal <= log.moves[i] => log.moves[at.place] <= log.moves[i]
          <6>1. TAKE i \in 1..LastLine
          <6>2. ~(wanted.goal <= log.moves[i] /\ log.moves[i] < goal)
            BY <4>2 DEF Forwards
          <6>3. QED
            BY <2>1, <2>2, <3>2, <6>2
        <5>3. QED
          BY <1>1, <1>4, <1>7, <5>1, <5>2, NearestForwards
      <4>3. CASE Backwards(goal, back)
        <5>1. wanted.goal < wanted.from /\ log.moves[at.place] <= wanted.goal
          BY <3>2, <4>3 DEF Backwards
        <5>2. \A i \in 1..LastLine : log.moves[i] <= wanted.goal => log.moves[i] <= log.moves[at.place]
          <6>1. TAKE i \in 1..LastLine
          <6>2. ~(goal < log.moves[i] /\ log.moves[i] <= wanted.goal)
            BY <4>3 DEF Backwards
          <6>3. QED
            BY <2>1, <2>2, <3>2, <6>2
        <5>3. QED
          BY <1>1, <1>4, <1>7, <5>1, <5>2, NearestBackwards
      <4>4. QED
        BY <3>1, <4>1, <4>2, <4>3 DEF Going
    <3>3. CASE log.moves[at.place] # goal
      <4>1. at.place = LastLine /\ ~log.over /\ LastStop = LastLine
        BY <1>5, <1>7, <3>3
      <4>2. log.moves[LastLine] < goal /\ log.moves[LastLine] \in Nat
        BY <1>3, <2>2, <3>1, <3>3, <4>1
      <4>3. ~ToTheEnd(goal)
        BY <4>1 DEF ToTheEnd
      <4>4. ~Backwards(goal, back)
        BY <1>1, <1>3, <4>1, <4>2 DEF Backwards
      <4>5. Forwards(goal, back)
        BY <3>1, <4>3, <4>4 DEF Going
      <4>6. \A i \in 1..LastLine : log.moves[i] < wanted.goal
        <5>1. TAKE i \in 1..LastLine
        <5>2. log.moves[i] <= log.moves[LastLine]
          <6>1. i \in 0..LastLine /\ LastLine \in 0..LastLine /\ i <= LastLine
            BY <1>2
          <6>2. QED
            BY <1>1, <6>1 DEF Known
        <5>3. ~(wanted.goal <= log.moves[i] /\ log.moves[i] < goal)
          BY <4>5 DEF Forwards
        <5>4. QED
          BY <1>1, <1>3, <2>1, <4>2, <5>2, <5>3
      <4>7. wanted.from <= wanted.goal
        BY <4>5 DEF Forwards
      <4>8. QED
        BY <1>1, <1>4, <1>7, <4>1, <4>6, <4>7, NearestAtTheEnd
    <3>4. QED
      BY <3>2, <3>3
  <2>5. QED
    BY <1>3, <2>3, <2>4
<1>8. QED
  BY <1>1, <1>6, <1>7

-----------------------------------------------------------------------------
(* The decision of replay_want_userinput.                                  *)

(* It stops.                                                               *)
LEMMA StopsWell ==
    ASSUME ReplayInv, phase = "want", NEW at, NEW goal, NEW hasJumped, NEW back,
           SeekAt(at, goal, hasJumped, back), ReachedAt(at, goal), GoalReached(at),
           jumped' = hasJumped, reverse' = back, UNCHANGED <<log, wanted>>
    PROVE  ReplayInv'
<1>1. /\ Known /\ last = LastLine /\ log \in Logs /\ ListIsSound(chks)
      /\ LastLine \in Nat \ {0}
  BY ThisLogIsKnown DEF ReplayInv, ReplayTypes, Known
<1>2. /\ place' = at.place /\ action' = at.action /\ prev' = at.prev
      /\ target' = at.action /\ byMove' = FALSE /\ phase' = "user" /\ chks' = chks
      /\ log' = log /\ wanted' = wanted
      /\ last' = IF at.place = LastLine THEN at.action ELSE last
  BY DEF GoalReached
<1>3. LastLine' = LastLine /\ LastStop' = LastStop
  BY <1>2 DEF LastLine, LastStop
<1>4. /\ at.place \in 0..LastStop /\ at.action = at.place
      /\ hasJumped \in BOOLEAN /\ back \in BOOLEAN /\ at.place > 0
      /\ at.prev \in 0..Len(chks)
      /\ at.prev > 0 => chks[at.prev].place <= at.place /\ chks[1].place <= 1
      /\ at.prev < Len(chks) => at.place <= chks[at.prev + 1].place
      /\ at.prev # 0
  <2>1. at.place > 0
    BY ReachedIsRight
  <2>2. PositionIsSound(at) /\ hasJumped \in BOOLEAN /\ back \in BOOLEAN
    BY DEF SeekAt
  <2>3. QED
    BY <2>1, <2>2 DEF PositionIsSound
<1>5. at.place \in 0..LastLine /\ (log.over => at.place # LastLine)
  BY <1>1, <1>4 DEF LastStop, Known
<1>6. ReplayTypes'
  <2>1. at.place \in Nat \ {0} /\ last' = LastLine
    BY <1>1, <1>2, <1>4, <1>5
  <2>2. log' \in Logs /\ place' \in 0..LastLine' /\ action' = place' /\ last' = LastLine'
    BY <1>1, <1>2, <1>3, <1>4, <1>5, <2>1
  <2>3. target' \in Nat \ {0} /\ byMove' \in BOOLEAN /\ reverse' \in BOOLEAN /\ jumped' \in BOOLEAN
    BY <1>2, <1>4, <2>1
  <2>4. QED
    BY <1>2, <2>2, <2>3 DEF ReplayTypes
<1>7. ListIsSound(chks)'
  BY <1>1, <1>2, <1>3 DEF ListIsSound
<1>8. Between'
  BY <1>2, <1>4 DEF Between
<1>9. PhaseIsRight'
  BY <1>2, <1>3, <1>4, <1>5 DEF PhaseIsRight
<1>10. Arrived'
  <2>1. IF wanted.byMove THEN log.moves[at.place] = NearestMove(wanted.goal, wanted.from)
                         ELSE at.place = Min({wanted.goal, LastLine})
    BY ReachedIsRight
  <2>2. QED
    BY <1>2, <1>3, <2>1 DEF Arrived, NearestMove
<1>11. QED
  BY <1>2, <1>4, <1>6, <1>7, <1>8, <1>9, <1>10 DEF ReplayInv

(* Where a seek goes on from: past a checkpoint that it meets.             *)
Then(at) == IF Overtaken(at) THEN Restored(at.prev + 1) ELSE at

LEMMA ThenIsSound ==
    ASSUME Known, ListIsSound(chks), NEW at, PositionIsSound(at)
    PROVE  /\ Then(at).place = at.place /\ Then(at).action = at.place
           /\ Then(at).prev \in 0..Len(chks)
           /\ Then(at).prev > 0 => chks[Then(at).prev].place <= at.place /\ chks[1].place <= 1
           /\ Then(at).prev < Len(chks) => at.place < chks[Then(at).prev + 1].place
           /\ Then(at).prev = 0 => at.place = 0
<1>1. Len(chks) \in Nat /\ LastLine \in Nat
  BY DEF ListIsSound, Known
<1>2. /\ at.place \in 0..LastStop /\ at.action = at.place
      /\ at.prev \in 0..Len(chks)
      /\ at.prev > 0 => chks[at.prev].place <= at.place /\ chks[1].place <= 1
      /\ at.prev < Len(chks) => at.place <= chks[at.prev + 1].place
      /\ at.prev = 0 => at.place = 0
  BY DEF PositionIsSound
<1>3. at.place \in Nat
  BY <1>2 DEF Known
<1>4. CASE Overtaken(at)
  <2>1. at.prev < Len(chks) /\ chks[at.prev + 1].action <= at.action
    BY <1>4 DEF Overtaken
  <2>2. at.prev + 1 \in 1..Len(chks)
    BY <1>1, <1>2, <2>1
  <2>3. chks[at.prev + 1].place \in 0..(LastLine - 1)
        /\ chks[at.prev + 1].action = chks[at.prev + 1].place
    BY <2>2, CheckpointIsSound
  <2>4. chks[at.prev + 1].place = at.place
    BY <1>1, <1>2, <1>3, <2>1, <2>3
  <2>5. chks[1].place <= 1
    <3>1. CASE at.prev = 0
      BY <1>2, <2>4, <3>1
    <3>2. CASE at.prev # 0
      BY <1>2, <3>2
    <3>3. QED
      BY <3>1, <3>2
  <2>6. at.prev + 1 < Len(chks) => at.place < chks[at.prev + 1 + 1].place
    <3>1. SUFFICES ASSUME at.prev + 1 < Len(chks)
                   PROVE  at.place < chks[at.prev + 1 + 1].place
      OBVIOUS
    <3>2. at.prev + 1 + 1 \in 1..Len(chks) /\ at.prev + 1 < at.prev + 1 + 1
      BY <1>1, <1>2, <3>1
    <3>3. chks[at.prev + 1].place < chks[at.prev + 1 + 1].place
      BY <2>2, <3>2, CheckpointIsSound
    <3>4. QED
      BY <2>4, <3>3
  <2>7. /\ Then(at).place = chks[at.prev + 1].place /\ Then(at).action = chks[at.prev + 1].action
        /\ Then(at).prev = at.prev + 1
    BY <1>4 DEF Then, Restored
  <2>8. QED
    BY <1>1, <1>2, <1>3, <2>2, <2>3, <2>4, <2>5, <2>6, <2>7
<1>5. CASE ~Overtaken(at)
  <2>1. Then(at) = at
    BY <1>5 DEF Then
  <2>2. at.prev < Len(chks) => at.place < chks[at.prev + 1].place
    <3>1. SUFFICES ASSUME at.prev < Len(chks) PROVE at.place < chks[at.prev + 1].place
      OBVIOUS
    <3>2. ~(chks[at.prev + 1].action <= at.action)
      BY <1>5, <3>1 DEF Overtaken
    <3>3. at.prev + 1 \in 1..Len(chks)
      BY <1>1, <1>2, <3>1
    <3>4. chks[at.prev + 1].place \in 0..(LastLine - 1)
          /\ chks[at.prev + 1].action = chks[at.prev + 1].place
      BY <3>3, CheckpointIsSound
    <3>5. QED
      BY <1>1, <1>2, <1>3, <3>2, <3>4
  <2>3. QED
    BY <1>2, <2>1, <2>2
<1>6. QED
  BY <1>4, <1>5

(* With the checkpoint that is made if one is due, there is one behind the  *)
(* replay and none where it is.                                            *)
Made(then) ==
    IF Due(then)
    THEN CreateCheckpoint(chks, then.prev, [action |-> then.action, place |-> then.place])
    ELSE [list |-> chks, prev |-> then.prev]

LEMMA MadeIsSound ==
    ASSUME Known, ListIsSound(chks), NEW at, PositionIsSound(at), at.place # LastLine
    PROVE  /\ ListIsSound(Made(Then(at)).list)
           /\ Made(Then(at)).prev \in 1..Len(Made(Then(at)).list)
           /\ Made(Then(at)).list[Made(Then(at)).prev].place <= at.place
           /\ Made(Then(at)).list[1].place <= 1
           /\ Made(Then(at)).prev < Len(Made(Then(at)).list) =>
                 at.place < Made(Then(at)).list[Made(Then(at)).prev + 1].place
<1>1. Len(chks) \in Nat /\ LastLine \in Nat /\ LastStop \in 0..LastLine
  BY DEF ListIsSound, Known
<1>2. at.place \in 0..(LastLine - 1)
  BY <1>1 DEF PositionIsSound
<1> DEFINE then == Then(at)
           c == [action |-> then.action, place |-> then.place]
<1>3. /\ then.place = at.place /\ then.action = at.place
      /\ then.prev \in 0..Len(chks)
      /\ then.prev > 0 => chks[then.prev].place <= at.place /\ chks[1].place <= 1
      /\ then.prev < Len(chks) => at.place < chks[then.prev + 1].place
      /\ then.prev = 0 => at.place = 0
  BY ThenIsSound
<1> HIDE DEF then
<1>4. CASE Due(then)
  <2>1. c \in Checkpoints(LastLine) /\ c.action = at.place /\ c.place = at.place
    BY <1>2, <1>3 DEF Checkpoints
  <2> HIDE DEF c
  <2>2. MadeWell(CreateCheckpoint(chks, then.prev, c), c)
    <3>1. then.prev > 0 => chks[then.prev].place <= c.place /\ chks[1].place <= 1
      BY <1>3, <2>1
    <3>2. then.prev = 0 => c.place <= 1
      BY <1>3, <2>1
    <3>3. then.prev < Len(chks) => c.place < chks[then.prev + 1].place
      BY <1>3, <2>1
    <3>4. c.action = c.place
      BY <2>1
    <3>5. QED
      BY <1>1, <1>3, <2>1, <3>1, <3>2, <3>3, <3>4, CreateIsSound
  <2>3. Made(then) = CreateCheckpoint(chks, then.prev, c)
    BY <1>4 DEF Made, c
  <2>4. MadeWell(Made(then), c)
    BY <2>2, <2>3
  <2>5. QED
    BY <1>2, <2>1, <2>4 DEF MadeWell, then
<1>5. CASE ~Due(then)
  <2>1. Made(then) = [list |-> chks, prev |-> then.prev]
    BY <1>5 DEF Made
  <2>2. then.prev # 0
    <3>1. SUFFICES ASSUME then.prev = 0 PROVE FALSE
      OBVIOUS
    <3>2. then.place \notin log.busy /\ then.place = 0 /\ then.action = 0
      BY <1>3, <3>1 DEF Known
    <3>3. CASE Len(chks) = 0
      BY <1>5, <3>1, <3>2, <3>3 DEF Due
    <3>4. CASE Len(chks) # 0
      <4>1. 1 \in 1..Len(chks) /\ 0 < chks[1].place
        BY <1>1, <1>3, <3>1, <3>2, <3>4
      <4>2. chks[1].action # 0
        BY <4>1, CheckpointIsSound
      <4>3. QED
        BY <1>5, <3>1, <3>2, <4>2 DEF Due
    <3>5. QED
      BY <3>3, <3>4
  <2>3. /\ Made(then).list = chks /\ Made(then).prev = then.prev
        /\ then.prev \in 1..Len(chks)
    BY <1>1, <1>3, <2>1, <2>2
  <2>4. QED
    BY <1>3, <2>2, <2>3 DEF then
<1>6. QED
  BY <1>4, <1>5

(* It goes on.                                                             *)
LEMMA GoesOnWell ==
    ASSUME ReplayInv, phase = "want", NEW at, NEW goal, NEW hasJumped, NEW back,
           SeekAt(at, goal, hasJumped, back), ~ReachedAt(at, goal), GoesOn(at, goal),
           jumped' = hasJumped, reverse' = back, UNCHANGED <<log, wanted>>
    PROVE  ReplayInv'
<1>1. /\ Known /\ last = LastLine /\ log \in Logs /\ ListIsSound(chks)
      /\ LastLine \in Nat \ {0} /\ byMove \in BOOLEAN
      /\ wanted \in [goal : Nat \ {0}, byMove : {byMove}, from : Nat]
  BY ThisLogIsKnown DEF ReplayInv, ReplayTypes, Known, Seeking
<1>2. PositionIsSound(at) /\ hasJumped \in BOOLEAN /\ back \in BOOLEAN /\ goal \in Nat \ {0}
  BY DEF SeekAt
<1>3. at.place \in 0..LastStop /\ at.action = at.place /\ LastStop \in 0..LastLine
  BY <1>1, <1>2 DEF PositionIsSound, Known
<1>4. /\ at.place \in 0..(LastLine - 1)
      /\ at.place = 0 \/ goal # IF byMove THEN log.moves[at.place] ELSE at.place
  BY <1>1, <1>3 DEF ReachedAt
<1>5. at.place # LastLine
  BY <1>1, <1>4
<1>6. /\ place' = Then(at).place /\ action' = Then(at).action
      /\ chks' = Made(Then(at)).list /\ prev' = Made(Then(at)).prev
      /\ target' = goal /\ phase' = "play" /\ byMove' = byMove /\ last' = last
      /\ log' = log /\ wanted' = wanted
  BY DEF GoesOn, Then, Made
<1>7. LastLine' = LastLine /\ LastStop' = LastStop
  BY <1>6 DEF LastLine, LastStop
<1>8. place' = at.place /\ action' = at.place
  BY <1>1, <1>2, <1>6, ThenIsSound
<1>9. /\ ListIsSound(chks') /\ prev' \in 1..Len(chks')
      /\ chks'[prev'].place <= at.place /\ chks'[1].place <= 1
      /\ prev' < Len(chks') => at.place < chks'[prev' + 1].place
  BY <1>1, <1>2, <1>5, <1>6, MadeIsSound
<1>10. ListIsSound(chks)'
  BY <1>7, <1>9 DEF ListIsSound
<1>11. Len(chks') \in Nat /\ \A k \in 1..Len(chks') : chks'[k].place \in 0..(LastLine - 1)
  <2>1. chks' \in Seq(Checkpoints(LastLine))
    BY <1>9 DEF ListIsSound
  <2>2. \A k \in 1..Len(chks') : chks'[k] \in Checkpoints(LastLine)
    BY <2>1
  <2>3. QED
    BY <2>1, <2>2 DEF Checkpoints
<1>12. Between'
  <2>1. prev' \in 0..Len(chks') /\ prev' # 0
    BY <1>9, <1>11
  <2>2. prev' < Len(chks') => at.place <= chks'[prev' + 1].place
    <3>1. SUFFICES ASSUME prev' < Len(chks') PROVE at.place <= chks'[prev' + 1].place
      OBVIOUS
    <3>2. prev' + 1 \in 1..Len(chks')
      <4> DEFINE p == prev'
                 n == Len(chks')
      <4>1. p \in 1..n /\ n \in Nat /\ p < n
        BY <1>9, <1>11, <3>1
      <4> HIDE DEF p, n
      <4>2. p + 1 \in 1..n
        BY <4>1
      <4>3. QED
        BY <4>2 DEF p, n
    <3>3. chks'[prev' + 1].place \in 0..(LastLine - 1) /\ at.place < chks'[prev' + 1].place
      BY <1>9, <1>11, <3>1, <3>2
    <3>4. QED
      BY <1>1, <1>4, <3>3
  <2>3. QED
    BY <1>6, <1>8, <1>9, <2>1, <2>2 DEF Between
<1>13. ReplayTypes'
  <2>1. at.place \in 0..LastLine
    BY <1>1, <1>4
  <2>2. QED
    BY <1>1, <1>2, <1>6, <1>7, <1>8, <2>1 DEF ReplayTypes
<1>14. PhaseIsRight'
  BY <1>1, <1>4, <1>6, <1>7, <1>8 DEF PhaseIsRight
<1>15. Seeking'
  <2>1. wanted' \in [goal : Nat \ {0}, byMove : {byMove'}, from : Nat]
    BY <1>1, <1>6
  <2>2. log.moves[0] = 1 /\ \A i \in 0..LastLine : log.moves[i] \in Nat
    BY <1>1 DEF Known
  <2>3. log.moves[at.place] \in Nat /\ at.place \in Nat
    BY <1>1, <1>4, <2>2
  <2>4. CASE ~hasJumped
    <3>1. /\ goal = wanted.goal
          /\ goal = IF byMove THEN log.moves[at.place] ELSE at.place
          /\ byMove => wanted.from = log.moves[at.place]
      BY <2>4 DEF SeekAt
    <3>2. at.place = 0
      BY <1>4, <3>1
    <3>3. byMove /\ goal = 1
      BY <1>2, <2>2, <3>1, <3>2
    <3>4. NotJumped'
      BY <1>6, <1>8, <3>1, <3>2, <3>3 DEF NotJumped
    <3>5. QED
      BY <2>1, <2>4, <3>4 DEF Seeking
  <2>5. CASE hasJumped /\ ~byMove
    <3>1. goal = wanted.goal /\ at.place <= goal
      BY <2>5 DEF SeekAt
    <3>2. at.place < goal
      BY <1>2, <1>4, <2>3, <2>5, <3>1
    <3>3. ByAction'
      BY <1>6, <1>8, <3>1, <3>2 DEF ByAction
    <3>4. QED
      BY <1>6, <2>1, <2>5, <3>3 DEF Seeking
  <2>6. CASE hasJumped /\ byMove
    <3>1. log.moves[at.place] <= goal /\ Going(goal, back)
      BY <2>6 DEF SeekAt
    <3>2. at.place = 0 \/ log.moves[at.place] < goal
      BY <1>2, <1>4, <2>3, <2>6, <3>1
    <3>3. Going(target, reverse)'
      BY <1>6, <1>7, <3>1 DEF Going, Forwards, Backwards, ToTheEnd
    <3>4. ByMove'
      BY <1>6, <1>8, <3>2, <3>3 DEF ByMove
    <3>5. QED
      BY <1>6, <2>1, <2>6, <3>4 DEF Seeking
  <2>7. QED
    BY <1>1, <1>2, <2>4, <2>5, <2>6
<1>16. QED
  BY <1>6, <1>9, <1>10, <1>12, <1>13, <1>14, <1>15 DEF ReplayInv

LEMMA WantUserinputIsSound ==
    ASSUME ReplayInv, WantUserinput
    PROVE  ReplayInv'
<1>1. phase = "want" /\ UNCHANGED <<log, wanted>>
      /\ jumped' = Approach.jumped /\ reverse' = Approach.reverse
  BY DEF WantUserinput
<1>2. /\ SeekAt(Approach.at, Approach.target, Approach.jumped, Approach.reverse)
      /\ ~(prev = 0 /\ jumped)
  BY <1>1, ApproachIsSound
<1>3. CASE ReachedAt(Approach.at, Approach.target)
  <2>1. GoalReached(Approach.at)
    BY <1>3 DEF WantUserinput
  <2>2. QED
    BY <1>1, <1>2, <1>3, <2>1, StopsWell
<1>4. CASE ~ReachedAt(Approach.at, Approach.target)
  <2>1. GoesOn(Approach.at, Approach.target)
    BY <1>2, <1>4 DEF WantUserinput
  <2>2. QED
    BY <1>1, <1>2, <1>4, <2>1, GoesOnWell
<1>5. QED
  BY <1>3, <1>4

-----------------------------------------------------------------------------
(* A command of the log.                                                   *)

LEMMA ReplayCommandIsSound ==
    ASSUME NoInterrupts, ReplayInv, ReplayCommand
    PROVE  ReplayInv'
<1>1. /\ Known /\ last = LastLine /\ log \in Logs /\ ListIsSound(chks)
      /\ LastLine \in Nat \ {0} /\ byMove \in BOOLEAN /\ reverse \in BOOLEAN /\ jumped \in BOOLEAN
      /\ place \in 0..LastLine /\ action = place /\ target \in Nat \ {0}
      /\ prev \in 0..Len(chks) /\ Len(chks) \in Nat
  BY ThisLogIsKnown DEF ReplayInv, ReplayTypes, Known, Between, ListIsSound
<1>2. phase = "play"
  BY DEF ReplayCommand
<1>3. place \in 0..(LastLine - 1)
  BY <1>1, <1>2 DEF ReplayInv, PhaseIsRight
<1>4. Seeking
  BY <1>2 DEF ReplayInv
<1>5. wanted \in [goal : Nat \ {0}, byMove : {byMove}, from : Nat]
  BY <1>4 DEF Seeking
<1>6. log.lines[place + 1] = "command"
  <2>1. place + 1 \in DOMAIN log.lines
    <3>1. place + 1 \in 1..Len(log.lines)
      BY <1>1, <1>3 DEF LastLine
    <3>2. LogType(log)
      BY <1>1, ReplayAssumption
    <3>3. log.lines \in Seq({"command", "interrupt"})
      BY <3>2 DEF LogType
    <3>4. QED
      BY <3>1, <3>3
  <2>2. QED
    BY <1>1, <2>1 DEF NoInterrupts
<1>7. /\ log' = log /\ last' = last /\ target' = target /\ byMove' = byMove
      /\ reverse' = reverse /\ jumped' = jumped /\ chks' = chks /\ prev' = prev
      /\ wanted' = wanted
  BY DEF ReplayCommand
<1>8. LastLine' = LastLine /\ LastStop' = LastStop
  BY <1>7 DEF LastLine, LastStop
<1>9. /\ place' = place + 1 /\ action' = place + 1
      /\ phase' = IF log.over /\ place + 1 = LastLine THEN "done" ELSE "want"
  <2>1. place # LastLine
    BY <1>1, <1>3
  <2>2. place' = place + 1
    BY <2>1 DEF ReplayCommand
  <2>3. action' = action + 1
    BY <1>6, <2>1 DEF ReplayCommand
  <2>4. phase' = IF log.over /\ place' = LastLine
                 THEN IF action' = last THEN "done" ELSE "desync"
                 ELSE "want"
    BY <2>1 DEF ReplayCommand
  <2>5. QED
    BY <1>1, <2>2, <2>3, <2>4
<1>10. prev > 0 /\ chks[prev].place <= place /\ chks[1].place <= 1
       /\ (prev < Len(chks) => place < chks[prev + 1].place)
  <2>1. prev # 0
    BY <1>2 DEF ReplayInv, AtTheStart
  <2>2. QED
    BY <1>1, <1>2, <2>1 DEF ReplayInv, Between
<1>11. \A k \in 1..Len(chks) : chks[k].place \in Nat
  <2>1. TAKE k \in 1..Len(chks)
  <2>2. chks[k].place \in 0..(LastLine - 1)
    BY <1>1, CheckpointIsSound
  <2>3. QED
    BY <2>2
<1>12. ListIsSound(chks)'
  BY <1>1, <1>7, <1>8 DEF ListIsSound
<1>13. chks[prev].place <= place + 1 /\ chks[prev].place < place + 1
       /\ (prev < Len(chks) => place + 1 <= chks[prev + 1].place)
  <2>1. prev \in 1..Len(chks)
    BY <1>1, <1>10
  <2>2. chks[prev].place \in Nat /\ place \in Nat
    BY <1>3, <1>11, <2>1
  <2>3. prev < Len(chks) => chks[prev + 1].place \in Nat
    BY <1>1, <1>11
  <2>4. QED
    BY <1>10, <2>2, <2>3
<1>14. Between'
  <2>1. phase' # "play"
    BY <1>9
  <2>2. QED
    BY <1>1, <1>7, <1>9, <1>10, <1>13, <2>1 DEF Between
<1>15. ReplayTypes'
  <2>1. place + 1 \in 0..LastLine
    BY <1>1, <1>3
  <2>2. phase' \in {"want", "play", "user", "done"}
    BY <1>9
  <2>3. log' \in Logs /\ place' \in 0..LastLine' /\ action' = place' /\ last' = LastLine'
    BY <1>1, <1>7, <1>8, <1>9, <2>1
  <2>4. QED
    BY <1>1, <1>7, <2>2, <2>3 DEF ReplayTypes
<1>16. /\ log.moves[0] = 1 /\ log.moves[1] = 1
       /\ \A i \in 0..LastLine : log.moves[i] \in Nat
  BY <1>1 DEF Known
<1>17. \A i \in 1..place : log.moves[i] <= log.moves[place]
  <2>1. TAKE i \in 1..place
  <2>2. i \in 0..LastLine /\ place \in 0..LastLine /\ i <= place
    BY <1>1
  <2>3. QED
    BY <1>1, <2>2 DEF Known
<1>18. byMove /\ jumped => /\ \A i \in 1..place : log.moves[i] < target
                           /\ Going(target, reverse)
  <2>1. SUFFICES ASSUME byMove, jumped
                 PROVE  /\ \A i \in 1..place : log.moves[i] < target
                        /\ Going(target, reverse)
    OBVIOUS
  <2>2. Going(target, reverse) /\ (place = 0 \/ log.moves[place] < target)
    BY <1>2, <1>4, <2>1 DEF Seeking, ByMove
  <2>3. \A i \in 1..place : log.moves[i] < target
    <3>1. TAKE i \in 1..place
    <3>2. i \in 0..LastLine /\ place # 0
      BY <1>1
    <3>3. QED
      BY <1>1, <1>16, <1>17, <2>2, <3>2
  <2>4. QED
    BY <2>2, <2>3
<1>19. ~jumped => byMove /\ place = 0 /\ target = 1 /\ wanted.goal = 1 /\ wanted.from = 1
  BY <1>2, <1>4, <1>16 DEF Seeking, NotJumped
<1>20. jumped /\ ~byMove => target = wanted.goal /\ place < target
  BY <1>2, <1>4 DEF Seeking, ByAction
<1>21. CASE ~(log.over /\ place + 1 = LastLine)
  <2>1. phase' = "want"
    BY <1>9, <1>21
  <2>2. PhaseIsRight'
    BY <1>7, <1>8, <1>9, <1>21, <2>1 DEF PhaseIsRight
  <2>3. Seeking'
    <3>1. wanted' \in [goal : Nat \ {0}, byMove : {byMove'}, from : Nat]
      BY <1>5, <1>7
    <3>2. CASE ~jumped
      <4>1. NotJumped'
        BY <1>7, <1>9, <1>16, <1>19, <2>1, <3>2 DEF NotJumped
      <4>2. QED
        BY <1>7, <3>1, <3>2, <4>1 DEF Seeking
    <3>3. CASE jumped /\ ~byMove
      <4>1. place + 1 <= target
        BY <1>1, <1>3, <1>20, <3>3
      <4>2. ByAction'
        BY <1>7, <1>9, <1>20, <2>1, <3>3, <4>1 DEF ByAction
      <4>3. QED
        BY <1>7, <3>1, <3>3, <4>2 DEF Seeking
    <3>4. CASE jumped /\ byMove
      <4>1. Going(target, reverse)'
        BY <1>7, <1>8, <1>18, <3>4 DEF Going, Forwards, Backwards, ToTheEnd
      <4>2. Passed'
        <5>1. place + 1 - 1 = place /\ place + 1 > 0
          BY <1>3
        <5>2. \A i \in 1..place : log.moves[i] < target
          BY <1>18, <3>4
        <5>3. place' > 0 /\ chks'[prev'].place < place'
          BY <1>7, <1>9, <1>13, <5>1
        <5>4. \A i \in 1..(place' - 1) : log'.moves[i] < target'
          <6>1. log' = log /\ target' = target
            BY <1>7
          <6>2. place' = place + 1
            BY <1>9
          <6>3. place' - 1 = place
            BY <1>3, <6>2
          <6>4. QED
            BY <5>2, <6>1, <6>3
        <5>5. QED
          BY <5>3, <5>4 DEF Passed
      <4>3. ByMove'
        BY <2>1, <4>1, <4>2 DEF ByMove
      <4>4. QED
        BY <1>7, <3>1, <3>4, <4>3 DEF Seeking
    <3>5. QED
      BY <1>1, <3>2, <3>3, <3>4
  <2>4. prev' # 0
    BY <1>7, <1>10
  <2>5. QED
    BY <1>12, <1>14, <1>15, <2>1, <2>2, <2>3, <2>4 DEF ReplayInv
<1>22. CASE log.over /\ place + 1 = LastLine
  <2>1. phase' = "done" /\ place' = LastLine /\ place = LastLine - 1
    BY <1>1, <1>3, <1>9, <1>22
  <2>2. ~byMove => target >= LastLine /\ target = wanted.goal
    <3>1. SUFFICES ASSUME ~byMove PROVE target >= LastLine /\ target = wanted.goal
      OBVIOUS
    <3>2. target = wanted.goal /\ place < target
      BY <1>19, <1>20, <3>1
    <3>3. QED
      BY <1>1, <2>1, <3>2
  <2>3. ~jumped => byMove /\ LastLine = 1 /\ target = log.moves[LastLine]
    BY <1>1, <1>16, <1>19, <2>1
  <2>4. PhaseIsRight'
    BY <1>7, <1>8, <1>18, <1>22, <2>1, <2>2, <2>3 DEF PhaseIsRight
  <2>5. Arrived'
    <3>1. wanted.goal \in Nat \ {0} /\ wanted.byMove = byMove /\ wanted.from \in Nat
      BY <1>5
    <3>2. CASE ~byMove
      <4>1. Min({wanted.goal, LastLine}) = LastLine
        BY <1>1, <2>2, <3>1, <3>2, MinOfTwo
      <4>2. QED
        BY <1>7, <1>8, <2>1, <3>1, <3>2, <4>1 DEF Arrived
    <3>3. CASE byMove
      <4>1. log.moves[LastLine] = NearestMove(wanted.goal, wanted.from)
        <5>1. CASE ~jumped
          <6>1. LastLine = 1 /\ wanted.goal = 1 /\ wanted.from = 1 /\ 1 \in 1..LastLine
            BY <1>19, <2>3, <5>1
          <6>2. \A i \in 1..LastLine : 1 <= log.moves[i] => log.moves[1] <= log.moves[i]
            BY <1>16, <6>1
          <6>3. NearestMove(1, 1) = log.moves[1]
            BY <1>1, <1>16, <6>1, <6>2, NearestForwards
          <6>4. QED
            BY <6>1, <6>3
        <5>2. CASE jumped
          <6>1. \A i \in 1..(LastLine - 1) : log.moves[i] < target
            BY <1>18, <2>1, <3>3, <5>2
          <6>2. ~Backwards(target, reverse)
            <7>1. SUFFICES ASSUME Backwards(target, reverse) PROVE FALSE
              OBVIOUS
            <7>2. LastStop = place
              BY <1>22, <2>1 DEF LastStop
            <7>3. wanted.goal < log.moves[place] /\ target <= wanted.goal
              BY <1>1, <1>16, <3>1, <7>1, <7>2 DEF Backwards
            <7>4. CASE place = 0
              BY <1>16, <3>1, <7>3, <7>4
            <7>5. CASE place # 0
              <8>1. place \in 1..place /\ log.moves[place] \in Nat
                BY <1>1, <1>3, <1>16, <7>5
              <8>2. log.moves[place] < target
                BY <1>18, <3>3, <5>2, <8>1
              <8>3. QED
                BY <1>1, <3>1, <7>3, <8>1, <8>2
            <7>6. QED
              BY <7>4, <7>5
          <6>3. Going(target, reverse)
            BY <1>18, <3>3, <5>2
          <6>4. QED
            BY <1>1, <1>22, <3>1, <6>1, <6>2, <6>3, ArrivedAtTheEnd
        <5>3. QED
          BY <5>1, <5>2
      <4>2. QED
        BY <1>7, <1>8, <2>1, <3>1, <3>3, <4>1 DEF Arrived, NearestMove
    <3>4. QED
      BY <3>2, <3>3
  <2>6. prev' # 0
    BY <1>7, <1>10
  <2>7. QED
    BY <1>12, <1>14, <1>15, <2>1, <2>4, <2>5, <2>6 DEF ReplayInv
<1>23. QED
  BY <1>21, <1>22

-----------------------------------------------------------------------------
(* The user.                                                               *)

(* A user who may ask has a checkpoint behind.                             *)
LEMMA UserFacts ==
    ASSUME ReplayInv, phase \in {"user", "done"}
    PROVE  /\ Known /\ last = LastLine /\ log \in Logs /\ ListIsSound(chks)
           /\ LastLine \in Nat \ {0} /\ target \in Nat \ {0}
           /\ byMove \in BOOLEAN /\ reverse \in BOOLEAN /\ jumped \in BOOLEAN
           /\ place \in 0..LastLine /\ action = place /\ place # 0
           /\ prev \in 1..Len(chks) /\ chks[1].place <= 1
           /\ chks[prev].place \in 0..(LastLine - 1) /\ chks[prev].place <= place
           /\ chks[prev].action = chks[prev].place
           /\ prev < Len(chks) => chks[prev].place <= chks[prev + 1].place
           /\ prev < Len(chks) => place <= chks[prev + 1].place
           /\ (phase = "user" /\ log.over => place # LastLine)
<1>1. /\ Known /\ last = LastLine /\ log \in Logs /\ ListIsSound(chks)
      /\ target \in Nat \ {0} /\ place \in 0..LastLine /\ action = place
      /\ byMove \in BOOLEAN /\ reverse \in BOOLEAN /\ jumped \in BOOLEAN
      /\ prev \in 0..Len(chks)
  BY ThisLogIsKnown DEF ReplayInv, ReplayTypes, Between
<1>2. LastLine \in Nat \ {0} /\ Len(chks) \in Nat
  BY <1>1 DEF Known, ListIsSound
<1>3. prev # 0
  BY DEF ReplayInv, AtTheStart
<1>4. prev \in 1..Len(chks)
  BY <1>1, <1>2, <1>3
<1>5. chks[prev].place <= place /\ chks[1].place <= 1
      /\ (prev < Len(chks) => place <= chks[prev + 1].place)
  BY <1>1, <1>3 DEF ReplayInv, Between
<1>6. chks[prev].place \in 0..(LastLine - 1) /\ chks[prev].action = chks[prev].place
  BY <1>1, <1>4, CheckpointIsSound
<1>7. prev < Len(chks) => chks[prev].place <= chks[prev + 1].place
  <2>1. SUFFICES ASSUME prev < Len(chks) PROVE chks[prev].place <= chks[prev + 1].place
    OBVIOUS
  <2>2. prev + 1 \in 1..Len(chks)
    BY <1>1, <1>2, <2>1
  <2>3. chks[prev + 1].place \in 0..(LastLine - 1) /\ place <= chks[prev + 1].place
    BY <1>1, <1>5, <2>1, <2>2, CheckpointIsSound
  <2>4. QED
    BY <1>1, <1>2, <1>5, <1>6, <2>3
<1>8. place # 0 /\ (phase = "user" /\ log.over => place # LastLine)
  BY <1>1, <1>2 DEF ReplayInv, PhaseIsRight
<1>9. QED
  BY <1>1, <1>2, <1>4, <1>5, <1>6, <1>7, <1>8

LEMMA AimIsSound ==
    ASSUME ReplayInv, NEW goal \in Nat \ {0}, NEW move \in BOOLEAN, Aim(goal, move)
    PROVE  ReplayInv'
<1>1. phase \in {"user", "done"}
  BY DEF Aim
<1>2. /\ Known /\ last = LastLine /\ log \in Logs /\ ListIsSound(chks)
      /\ LastLine \in Nat \ {0} /\ reverse \in BOOLEAN
      /\ place \in 0..LastLine /\ action = place /\ place # 0
      /\ prev \in 1..Len(chks) /\ chks[1].place <= 1
      /\ chks[prev].place \in 0..(LastLine - 1) /\ chks[prev].place <= place
      /\ chks[prev].action = chks[prev].place
      /\ prev < Len(chks) => chks[prev].place <= chks[prev + 1].place
      /\ prev < Len(chks) => place <= chks[prev + 1].place
      /\ (phase = "user" /\ log.over => place # LastLine)
  BY <1>1, UserFacts
<1>3. /\ jumped' = FALSE /\ target' = goal /\ byMove' = move /\ prev' = prev
      /\ log' = log /\ last' = last /\ reverse' = reverse /\ chks' = chks
      /\ wanted' = [goal |-> goal, byMove |-> move, from |-> log.moves[place']]
  BY DEF Aim, position
<1>4. LastLine' = LastLine /\ LastStop' = LastStop
  BY <1>3 DEF LastLine, LastStop
<1>5. ListIsSound(chks)'
  BY <1>2, <1>3, <1>4 DEF ListIsSound
<1>6. \/ /\ phase = "user" /\ phase' = "want" /\ place' = place /\ action' = action
      \/ /\ phase = "done" /\ phase' = "done" /\ place' = place /\ action' = action
         /\ goal = IF move THEN log.moves[place] ELSE action
      \/ /\ phase = "done" /\ phase' = "want"
         /\ place' = chks[prev].place /\ action' = chks[prev].action
  <2>1. CASE phase = "user"
    BY <2>1 DEF Aim, position
  <2>2. CASE phase = "done" /\ goal = IF move THEN log.moves[place] ELSE action
    BY <2>2 DEF Aim, position
  <2>3. CASE phase = "done" /\ ~(goal = IF move THEN log.moves[place] ELSE action)
    BY <2>3 DEF Aim
  <2>4. QED
    BY <1>1, <2>1, <2>2, <2>3
<1>7. /\ place' \in 0..LastLine /\ action' = place' /\ phase' \in {"want", "done"}
      /\ chks[prev].place <= place'
      /\ prev < Len(chks) => place' <= chks[prev + 1].place
      /\ phase' = "want" /\ log.over => place' # LastLine
  <2>1. chks[prev].place \in 0..LastLine /\ chks[prev].place <= chks[prev].place
        /\ chks[prev].place # LastLine
    BY <1>2
  <2>2. QED
    BY <1>2, <1>6, <2>1
<1>8. \A i \in 0..LastLine : log.moves[i] \in Nat
  BY <1>2 DEF Known
<1>9. ReplayTypes'
  BY <1>2, <1>3, <1>4, <1>7 DEF ReplayTypes
<1>10. Between'
  <2>1. prev \in 0..Len(chks) /\ prev # 0
    BY <1>2
  <2>2. QED
    BY <1>2, <1>3, <1>7, <2>1 DEF Between
<1>11. prev' # 0
  BY <1>2, <1>3
<1>12. CASE phase' = "want"
  <2>1. PhaseIsRight'
    BY <1>3, <1>4, <1>7, <1>12 DEF PhaseIsRight
  <2>2. NotJumped'
    BY <1>3, <1>12 DEF NotJumped
  <2>3. wanted' \in [goal : Nat \ {0}, byMove : {byMove'}, from : Nat]
    BY <1>3, <1>7, <1>8
  <2>4. Seeking'
    BY <1>3, <2>2, <2>3 DEF Seeking
  <2>5. QED
    BY <1>5, <1>9, <1>10, <1>11, <1>12, <2>1, <2>4 DEF ReplayInv
<1>13. CASE phase' = "done"
  <2>1. /\ phase = "done" /\ place' = place /\ action' = action
        /\ goal = IF move THEN log.moves[place] ELSE action
    BY <1>6, <1>13
  <2>2. log.over /\ place = LastLine
    BY <2>1 DEF ReplayInv, PhaseIsRight
  <2>3. PhaseIsRight'
    <3>1. ~move => goal >= LastLine
      BY <1>2, <2>1, <2>2
    <3>2. move => goal = log.moves[LastLine]
      BY <2>1, <2>2
    <3>3. QED
      BY <1>3, <1>4, <1>13, <2>1, <2>2, <3>1, <3>2 DEF PhaseIsRight
  <2>4. Arrived'
    <3>1. /\ wanted'.goal = goal /\ wanted'.byMove = move
          /\ wanted'.from = log.moves[place]
      BY <1>3, <2>1
    <3>2. CASE move
      <4>1. goal = log.moves[LastLine] /\ goal \in Nat /\ LastLine \in 1..LastLine
        BY <1>2, <2>1, <2>2, <3>2
      <4>2. NearestMove(goal, goal) = log.moves[LastLine]
        <5>1. \A i \in 1..LastLine : goal <= log.moves[i] => log.moves[LastLine] <= log.moves[i]
          BY <4>1
        <5>2. goal <= goal /\ goal <= log.moves[LastLine]
          BY <4>1
        <5>3. QED
          BY <1>2, <4>1, <5>1, <5>2, NearestForwards
      <4>3. log.moves[place] = NearestMove(goal, goal)
        BY <2>2, <4>2
      <4>4. wanted'.from = goal
        BY <2>2, <3>1, <4>1
      <4>5. QED
        BY <1>3, <1>4, <2>1, <3>1, <3>2, <4>3, <4>4 DEF Arrived, NearestMove
    <3>3. CASE ~move
      <4>1. goal = LastLine
        BY <1>2, <2>1, <2>2, <3>3
      <4>2. Min({goal, LastLine}) = LastLine
        BY <1>2, <4>1, MinOfTwo
      <4>3. QED
        BY <1>3, <1>4, <2>1, <2>2, <3>1, <3>3, <4>2 DEF Arrived
    <3>4. QED
      BY <3>2, <3>3
  <2>5. QED
    BY <1>5, <1>9, <1>10, <1>11, <1>13, <2>3, <2>4 DEF ReplayInv
<1>14. QED
  BY <1>7, <1>12, <1>13

LEMMA ReopenIsSound ==
    ASSUME ReplayInv, Reopen
    PROVE  ReplayInv'
<1>1. phase \in {"user", "done"}
  BY DEF Reopen
<1>2. /\ Known /\ last = LastLine /\ log \in Logs /\ ListIsSound(chks)
      /\ LastLine \in Nat \ {0} /\ target \in Nat \ {0}
      /\ byMove \in BOOLEAN /\ reverse \in BOOLEAN /\ jumped \in BOOLEAN
      /\ place \in 0..LastLine /\ place # 0
      /\ prev \in 1..Len(chks) /\ chks[1].place <= 1
      /\ chks[prev].place \in 0..(LastLine - 1) /\ chks[prev].place <= place
      /\ chks[prev].action = chks[prev].place
      /\ prev < Len(chks) => chks[prev].place <= chks[prev + 1].place
  BY <1>1, UserFacts
<1>3. /\ phase' = "want" /\ last' = LastLine
      /\ place' = chks[prev].place /\ action' = chks[prev].action
      /\ target' = IF log.over THEN target ELSE LastLine
      /\ byMove' = (log.over /\ byMove)
      /\ wanted' = [goal |-> target', byMove |-> byMove', from |-> log.moves[place']]
      /\ log' = log /\ prev' = prev /\ reverse' = reverse /\ jumped' = jumped /\ chks' = chks
  BY DEF Reopen, CountActions
<1>4. LastLine' = LastLine /\ LastStop' = LastStop
  BY <1>3 DEF LastLine, LastStop
<1>5. ListIsSound(chks)'
  BY <1>2, <1>3, <1>4 DEF ListIsSound
<1>6. chks[prev].place \in 0..LastLine /\ chks[prev].place # LastLine
      /\ chks[prev].place <= chks[prev].place
  BY <1>2
<1>7. ReplayTypes'
  <2>1. target' \in Nat \ {0} /\ byMove' \in BOOLEAN
    BY <1>2, <1>3
  <2>2. QED
    BY <1>2, <1>3, <1>4, <1>6, <2>1 DEF ReplayTypes
<1>8. Between'
  <2>1. prev \in 0..Len(chks) /\ prev # 0
    BY <1>2
  <2>2. QED
    BY <1>2, <1>3, <1>6, <2>1 DEF Between
<1>9. PhaseIsRight'
  BY <1>3, <1>4, <1>6 DEF PhaseIsRight
<1>10. /\ log.moves[0] = 1 /\ log.over \in BOOLEAN
       /\ \A i \in 0..LastLine : log.moves[i] \in Nat
  BY <1>2 DEF Known
<1>11. wanted' \in [goal : Nat \ {0}, byMove : {byMove'}, from : Nat]
  <2>1. target' \in Nat \ {0} /\ log.moves[chks[prev].place] \in Nat
    BY <1>2, <1>3, <1>6, <1>10
  <2>2. QED
    BY <1>3, <2>1
<1>12. /\ wanted'.goal = target' /\ wanted'.from = log.moves[place']
  BY <1>3
<1>13. Seeking'
  <2>1. CASE ~jumped
    <3>1. NotJumped'
      BY <1>3, <1>12 DEF NotJumped
    <3>2. QED
      BY <1>3, <1>11, <2>1, <3>1 DEF Seeking
  <2>2. CASE jumped /\ ~byMove'
    <3>1. chks[prev].place <= target'
      <4>1. CASE ~log.over
        BY <1>2, <1>3, <4>1
      <4>2. CASE log.over /\ phase = "user"
        <5>1. target = place
          BY <4>2 DEF ReplayInv, PhaseIsRight
        <5>2. QED
          BY <1>2, <1>3, <4>2, <5>1
      <4>3. CASE log.over /\ phase = "done"
        <5>1. ~byMove
          BY <1>3, <2>2, <4>3
        <5>2. target >= LastLine
          BY <4>3, <5>1 DEF ReplayInv, PhaseIsRight
        <5>3. QED
          BY <1>2, <1>3, <4>3, <5>2
      <4>4. QED
        BY <1>1, <1>10, <4>1, <4>2, <4>3
    <3>2. ByAction'
      BY <1>3, <1>12, <3>1 DEF ByAction
    <3>3. QED
      BY <1>3, <1>11, <2>2, <3>2 DEF Seeking
  <2>3. CASE jumped /\ byMove'
    <3>1. log.over /\ byMove /\ target' = target
      BY <1>3, <2>3
    <3>2. phase = "done"
      BY <1>1, <3>1 DEF ReplayInv, PhaseIsRight
    <3>3. \A i \in 1..(LastLine - 1) : log.moves[i] < target
      BY <2>3, <3>1, <3>2 DEF ReplayInv, PhaseIsRight
    <3>4. log.moves[chks[prev].place] <= target
      <4>1. CASE chks[prev].place = 0
        BY <1>2, <1>10, <4>1
      <4>2. CASE chks[prev].place # 0
        <5>1. chks[prev].place \in 1..(LastLine - 1) /\ chks[prev].place \in 0..LastLine
          BY <1>2, <1>6, <4>2
        <5>2. log.moves[chks[prev].place] < target /\ log.moves[chks[prev].place] \in Nat
          BY <1>10, <3>3, <5>1
        <5>3. QED
          BY <1>2, <5>2
      <4>3. QED
        BY <4>1, <4>2
    <3>5. ToTheEnd(target)'
      <4>1. wanted'.from <= wanted'.goal /\ wanted'.goal = target'
        BY <1>3, <1>12, <3>1, <3>4
      <4>2. QED
        BY <1>3, <1>4, <3>1, <3>3, <4>1 DEF ToTheEnd
    <3>6. ~(target' < log.moves[chks[prev].place])
      BY <1>2, <1>6, <1>10, <3>1, <3>4
    <3>7. ByMove'
      <4>1. phase' # "play" /\ ~(target' < log'.moves[place'])
        BY <1>3, <3>6
      <4>2. Going(target, reverse)'
        BY <3>5 DEF Going
      <4>3. QED
        BY <4>1, <4>2 DEF ByMove
    <3>8. QED
      BY <1>3, <1>11, <2>3, <3>7 DEF Seeking
  <2>4. QED
    BY <1>2, <1>3, <2>1, <2>2, <2>3
<1>14. prev' # 0
  BY <1>2, <1>3
<1>15. QED
  BY <1>3, <1>5, <1>7, <1>8, <1>9, <1>13, <1>14 DEF ReplayInv

-----------------------------------------------------------------------------
(* The start, and the theorems.                                            *)

(* The checkpoints that the save backups give are in order.                *)
LEMMA FileCheckpointsAreSound ==
    ASSUME log \in Logs
    PROVE  ListIsSound(FileCheckpoints(log))
<1>1. LogType(log)
  BY ReplayAssumption
<1>2. /\ log.backups \in Seq(0..(LastLine - 1))
      /\ \A i, j \in DOMAIN log.backups : i < j => log.backups[i] < log.backups[j]
  BY <1>1 DEF LogType, LastLine
<1> DEFINE list == FileCheckpoints(log)
<1>3. list = [i \in DOMAIN log.backups |-> [action |-> log.backups[i], place |-> log.backups[i]]]
  BY DEF FileCheckpoints, CountActions
<1>4. DOMAIN log.backups = 1..Len(log.backups) /\ Len(log.backups) \in Nat
      /\ \A i \in 1..Len(log.backups) : log.backups[i] \in 0..(LastLine - 1)
  <2> DEFINE S == 0..(LastLine - 1)
             b == log.backups
  <2>1. b \in Seq(S)
    BY <1>2
  <2> HIDE DEF S, b
  <2>2. DOMAIN b = 1..Len(b) /\ Len(b) \in Nat /\ \A i \in 1..Len(b) : b[i] \in S
    BY <2>1
  <2>3. QED
    BY <2>2 DEF S, b
<1> HIDE DEF list
<1>5. DOMAIN list = 1..Len(log.backups)
      /\ \A i \in 1..Len(log.backups) : list[i].action = log.backups[i] /\ list[i].place = log.backups[i]
  BY <1>3, <1>4
<1>6. list \in Seq(Checkpoints(LastLine))
  <2>1. \A i \in 1..Len(log.backups) :
           [action |-> log.backups[i], place |-> log.backups[i]] \in Checkpoints(LastLine)
    BY <1>4 DEF Checkpoints
  <2>2. list \in [1..Len(log.backups) -> Checkpoints(LastLine)]
    BY <1>3, <1>4, <2>1
  <2>3. QED
    BY <1>4, <2>2
<1>7. \A k \in DOMAIN list : list[k].action = list[k].place
  BY <1>5
<1>8. \A j, k \in DOMAIN list : j < k => list[j].place < list[k].place
  BY <1>2, <1>4, <1>5
<1>9. ListIsSound(list)
  BY <1>6, <1>7, <1>8 DEF ListIsSound
<1>10. QED
  BY <1>9 DEF list

LEMMA InitIsSound ==
    ASSUME ReplayInit
    PROVE  ReplayInv
<1>1. /\ log \in Logs /\ place = 0 /\ action = 0 /\ last = LastLine
      /\ byMove = FALSE /\ reverse = FALSE /\ jumped = FALSE /\ phase = "want"
      /\ wanted = [goal |-> target, byMove |-> FALSE, from |-> 1]
  BY DEF ReplayInit, CountActions
<1>2. Known /\ LastLine \in Nat \ {0} /\ log.over \in BOOLEAN
  BY <1>1, ThisLogIsKnown DEF Known
<1> DEFINE file == FileCheckpoints(log)
           c == [action |-> 0, place |-> 0]
<1>3. ListIsSound(file)
  BY <1>1, FileCheckpointsAreSound
<1> HIDE DEF file
<1>4. /\ Len(file) \in Nat /\ DOMAIN file = 1..Len(file) /\ file \in Seq(Checkpoints(LastLine))
      /\ \A k \in 1..Len(file) : file[k] \in Checkpoints(LastLine)
      /\ \A k \in 1..Len(file) : file[k].action = file[k].place
  BY <1>3 DEF ListIsSound
<1>5. \A k \in 1..Len(file) : file[k].place \in 0..(LastLine - 1)
  BY <1>4 DEF Checkpoints
<1>6. /\ ListIsSound(chks) /\ target \in Nat \ {0}
      /\ prev \in 0..Len(chks) /\ Len(chks) \in Nat
      /\ prev > 0 => chks[prev].place <= 0 /\ chks[1].place <= 1
      /\ prev < Len(chks) => 0 <= chks[prev + 1].place
      /\ prev = 0 => target = 1 \/ (chks # <<>> /\ chks[1].place = 0)
  <2>1. CASE log.over
    <3>1. target = 1 /\ chks = file /\ prev = 0
      BY <2>1 DEF ReplayInit, file
    <3>2. prev < Len(chks) => 0 <= chks[prev + 1].place
      <4>1. SUFFICES ASSUME 0 < Len(file) PROVE 0 <= file[0 + 1].place
        BY <3>1
      <4>2. 1 \in 1..Len(file) /\ 0 + 1 = 1
        BY <1>4, <4>1
      <4>3. file[1].place \in 0..(LastLine - 1)
        BY <1>5, <4>2
      <4>4. QED
        BY <4>2, <4>3
    <3>3. QED
      BY <1>3, <1>4, <3>1, <3>2
  <2>2. CASE ~log.over
    <3> DEFINE made == CreateCheckpoint(file, 0, c)
    <3>1. target = LastLine /\ chks = made.list /\ prev = made.prev
      BY <1>1, <2>2 DEF ReplayInit, file
    <3>2. c \in Checkpoints(LastLine) /\ c.action = c.place /\ c.place = 0
      BY <1>2 DEF Checkpoints
    <3>3. CASE Len(file) > 0 /\ file[1].action = 0
      <4>1. 1 \in 1..Len(file)
        BY <1>4, <3>3
      <4>2. file[1] = c
        BY <1>4, <3>3, <4>1 DEF Checkpoints
      <4>3. [file EXCEPT ![1] = c] = file
        BY <1>4, <4>1, <4>2
      <4>4. made = [list |-> file, prev |-> 0]
        <5>1. ~(0 > 0 /\ file[0].action = c.action)
          OBVIOUS
        <5>2. 0 < Len(file) /\ file[0 + 1].action = c.action /\ 0 + 1 = 1
          BY <1>4, <3>3
        <5>3. made = [list |-> [file EXCEPT ![0 + 1] = c], prev |-> 0]
          BY <5>1, <5>2 DEF CreateCheckpoint
        <5>4. QED
          BY <4>3, <5>2, <5>3
      <4>5. chks = file /\ prev = 0
        BY <3>1, <4>4
      <4>6. file # <<>> /\ file[1].place = 0
        BY <3>2, <3>3, <4>1, <4>2
      <4>7. QED
        BY <1>2, <1>3, <1>4, <3>1, <4>5, <4>6
    <3>4. CASE ~(Len(file) > 0 /\ file[1].action = 0)
      <4>1. 0 < Len(file) => c.place < file[0 + 1].place
        <5>1. SUFFICES ASSUME 0 < Len(file) PROVE 0 < file[1].place
          BY <3>2
        <5>2. 1 \in 1..Len(file)
          BY <1>4, <5>1
        <5>3. file[1].place \in 0..(LastLine - 1) /\ file[1].action = file[1].place
          BY <1>4, <1>5, <5>2
        <5>4. QED
          BY <1>2, <3>4, <5>1, <5>3
      <4>2. 0 \in 0..Len(file)
        BY <1>4
      <4> HIDE DEF c
      <4>3. MadeWell(CreateCheckpoint(file, 0, c), c)
        BY <1>2, <1>3, <3>2, <4>1, <4>2, CreateIsSound
      <4>4. /\ ListIsSound(chks) /\ prev \in 1..Len(chks) /\ chks[prev].place = 0
            /\ chks[1].place <= 1
            /\ prev < Len(chks) => 0 < chks[prev + 1].place
        BY <3>1, <3>2, <4>3 DEF MadeWell
      <4>5. Len(chks) \in Nat
        BY <4>4 DEF ListIsSound
      <4>6. prev < Len(chks) => 0 <= chks[prev + 1].place
        <5>1. SUFFICES ASSUME prev < Len(chks) PROVE 0 <= chks[prev + 1].place
          OBVIOUS
        <5>2. prev + 1 \in 1..Len(chks)
          BY <4>4, <4>5, <5>1
        <5>3. chks[prev + 1].place \in 0..(LastLine - 1)
          BY <4>4, <5>2, CheckpointIsSound
        <5>4. QED
          BY <5>3
      <4>7. QED
        BY <1>2, <3>1, <4>4, <4>5, <4>6
    <3>5. QED
      BY <3>3, <3>4
  <2>3. QED
    BY <1>2, <2>1, <2>2
<1>7. ReplayTypes
  <2>1. place \in 0..LastLine /\ action = place /\ target \in Nat \ {0}
    BY <1>1, <1>2, <1>6
  <2>2. byMove \in BOOLEAN /\ reverse \in BOOLEAN /\ jumped \in BOOLEAN
    BY <1>1
  <2>3. QED
    BY <1>1, <2>1, <2>2 DEF ReplayTypes
<1>8. Between
  BY <1>1, <1>6 DEF Between
<1>9. PhaseIsRight
  BY <1>1, <1>2 DEF PhaseIsRight
<1>10. Seeking
  BY <1>1, <1>6 DEF Seeking, NotJumped
<1>11. prev = 0 => AtTheStart
  BY <1>1, <1>6 DEF AtTheStart
<1>12. QED
  BY <1>1, <1>6, <1>7, <1>8, <1>9, <1>10, <1>11 DEF ReplayInv

(* Max of a goal and 1, as the user's targets are cut off.                 *)
LEMMA AtLeastOne ==
    ASSUME NEW n \in Int
    PROVE  Max({1, n}) \in Nat \ {0}
<1> DEFINE both == {1, n}
<1>1. both \in SUBSET Int /\ 1 \in both /\ n \in both
  OBVIOUS
<1>2. CASE n <= 1
  <2>1. \A y \in both : y <= 1
    BY <1>2
  <2> HIDE DEF both
  <2>2. Max(both) = 1
    BY <1>1, <2>1, MaxIs
  <2>3. QED
    BY <2>2 DEF both
<1>3. CASE n > 1
  <2>1. \A y \in both : y <= n
    BY <1>3
  <2> HIDE DEF both
  <2>2. Max(both) = n
    BY <1>1, <2>1, MaxIs
  <2>3. QED
    BY <1>3, <2>2 DEF both
<1>4. QED
  BY <1>2, <1>3

(* Every step keeps the invariant.                                         *)
LEMMA StepIsSound ==
    ASSUME NoInterrupts, ReplayInv, [ReplayNext]_replayVars
    PROVE  ReplayInv'
<1>1. CASE WantUserinput
  BY <1>1, WantUserinputIsSound
<1>2. CASE ReplayCommand
  BY <1>2, ReplayCommandIsSound
<1>3. ASSUME NEW n \in Strides, NEW move \in BOOLEAN, ReplaySeek(n, move) \/ ReplaySeek(-n, move)
      PROVE  ReplayInv'
  <2>1. phase \in {"user", "done"}
    BY <1>3 DEF ReplaySeek, Aim
  <2>2. /\ Known /\ action \in Nat /\ place \in 0..LastLine
    BY <2>1, UserFacts DEF Known
  <2> DEFINE now == IF move THEN log.moves[place] ELSE action
  <2>3. now \in Nat /\ n \in Int
    BY <2>2, ReplayAssumption DEF Known
  <2> HIDE DEF now
  <2>4. Max({1, n + now}) \in Nat \ {0}
    BY <2>3, AtLeastOne
  <2>5. Max({1, (-n) + now}) \in Nat \ {0}
    <3>1. (-n) + now \in Int
      BY <2>3
    <3>2. QED
      BY <3>1, AtLeastOne
  <2>6. Aim(Max({1, n + now}), move) \/ Aim(Max({1, (-n) + now}), move)
    BY <1>3 DEF ReplaySeek, now
  <2>7. QED
    BY <2>4, <2>5, <2>6, AimIsSound
<1>4. ASSUME NEW move \in BOOLEAN, NEW n \in 0..(log.moves[LastLine] + 1), ReplayGoto(n, move)
      PROVE  ReplayInv'
  <2>1. phase \in {"user", "done"}
    BY <1>4 DEF ReplayGoto, Aim
  <2>2. last \in Nat \ {0}
    BY <2>1, UserFacts DEF Known
  <2>3. CASE n = 0
    <3>1. Aim(last, FALSE)
      BY <1>4, <2>3 DEF ReplayGoto
    <3>2. QED
      BY <2>2, <3>1, AimIsSound
  <2>4. CASE n # 0
    <3>1. Aim(Max({1, n}), move)
      BY <1>4, <2>4 DEF ReplayGoto
    <3>2. Max({1, n}) \in Nat \ {0}
      BY AtLeastOne
    <3>3. QED
      BY <3>1, <3>2, AimIsSound
  <2>5. QED
    BY <2>3, <2>4
<1>5. CASE Reopen
  BY <1>5, ReopenIsSound
<1>6. CASE UNCHANGED replayVars
  BY <1>6 DEF replayVars, ReplayInv, ReplayTypes, ListIsSound, Between, AtTheStart, PhaseIsRight,
              Seeking, NotJumped, ByAction, ByMove, Passed, Going, Forwards, Backwards, ToTheEnd,
              Arrived, NearestMove, LastLine, LastStop
<1>7. QED
  BY <1>1, <1>2, <1>3, <1>4, <1>5, <1>6 DEF ReplayNext, ReplayStep

(* The invariant holds whatever the user asks for and the log is.          *)
THEOREM ReplayInvariance ==
    ASSUME NoInterrupts
    PROVE  ReplaySpec => []ReplayInv
<1>1. ReplayInit => ReplayInv
  BY InitIsSound
<1>2. ReplayInv /\ [ReplayNext]_replayVars => ReplayInv'
  BY StepIsSound
<1>3. QED
  BY <1>1, <1>2, PTL DEF ReplaySpec

(* It says what the user was promised.                                     *)
LEMMA SoundSeeksAreRight ==
    ASSUME ReplayInv
    PROVE  SeekIsRight /\ EndIsRecognised
<1>1. /\ ListIsSound(chks) /\ Known /\ action = place /\ place \in 0..LastLine
      /\ prev \in 0..Len(chks) /\ Len(chks) \in Nat
      /\ phase \in {"want", "play", "user", "done"}
  BY ThisLogIsKnown DEF ReplayInv, ReplayTypes, Between, ListIsSound
<1>2. DOMAIN chks = 1..Len(chks)
  BY <1>1 DEF ListIsSound
<1>3. \A k \in 1..Len(chks) : chks[k].action = chks[k].place /\ chks[k].place \in Int
  <2>1. TAKE k \in 1..Len(chks)
  <2>2. chks[k].action = chks[k].place /\ chks[k].place \in 0..(LastLine - 1)
    BY <1>1, CheckpointIsSound
  <2>3. QED
    BY <2>2
<1>4. \A k \in 1..(Len(chks) - 1) : chks[k].action < chks[k + 1].action
  <2>1. TAKE k \in 1..(Len(chks) - 1)
  <2>2. k \in 1..Len(chks) /\ k + 1 \in 1..Len(chks) /\ k < k + 1
    BY <1>1
  <2>3. chks[k].place < chks[k + 1].place
    BY <1>1, <2>2, CheckpointIsSound
  <2>4. QED
    BY <1>3, <2>2, <2>3
<1>5. prev > 0 => chks[prev].action <= action
  <2>1. SUFFICES ASSUME prev > 0 PROVE chks[prev].action <= action
    OBVIOUS
  <2>2. prev \in 1..Len(chks) /\ chks[prev].place <= place
    BY <1>1, <2>1 DEF ReplayInv, Between
  <2>3. QED
    BY <1>1, <1>3, <2>2
<1>6. phase = "play" /\ prev < Len(chks) => action < chks[prev + 1].action
  <2>1. SUFFICES ASSUME phase = "play", prev < Len(chks) PROVE action < chks[prev + 1].action
    OBVIOUS
  <2>2. prev + 1 \in 1..Len(chks)
    BY <1>1, <2>1
  <2>3. place < chks[prev + 1].place
    BY <2>1 DEF ReplayInv, Between
  <2>4. QED
    BY <1>1, <1>3, <2>2, <2>3
<1>7. CheckpointsAreInOrder
  BY <1>1, <1>2, <1>3, <1>4, <1>5, <1>6 DEF CheckpointsAreInOrder, CountActions
<1>8. phase \in {"user", "done"} => Arrived
  BY DEF ReplayInv
<1>9. QED
  BY <1>1, <1>7, <1>8 DEF SeekIsRight, EndIsRecognised, Arrived

(* A seek ends where it was told to, whichever checkpoints it went by:     *)
(* SeekIsRight.                                                            *)
THEOREM SeeksAreRight ==
    ASSUME NoInterrupts
    PROVE  ReplaySpec => []SeekIsRight
<1>1. ReplayInv => SeekIsRight
  BY SoundSeeksAreRight
<1>2. QED
  BY <1>1, ReplayInvariance, PTL

(* A seek never asks the user for a command and never takes the end of the *)
(* game for a desync: EndIsRecognised.                                     *)
THEOREM EndIsAlwaysRecognised ==
    ASSUME NoInterrupts
    PROVE  ReplaySpec => []EndIsRecognised
<1>1. ReplayInv => EndIsRecognised
  BY SoundSeeksAreRight
<1>2. QED
  BY <1>1, ReplayInvariance, PTL
=============================================================================
