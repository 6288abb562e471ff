------------------------------ MODULE ReplayMode ------------------------------
(***************************************************************************)
(* Moving back and forth in the replay of a game (logreplay.c).  A replay   *)
(* plays the commands of a log one after the other.  There is no way to     *)
(* undo a command, so that going back means to load a checkpoint that lies  *)
(* before the target and to play on from there; going far ahead loads one   *)
(* too.  Targets are actions (commands of the log) or moves (turns of the   *)
(* game); a move may hold many actions, or none, and then the seek passes   *)
(* its target, moves the target by one and tries again.                     *)
(*                                                                         *)
(* The seek is the loop of nh_play_game: replay_want_userinput decides      *)
(* whether to stop, to load a checkpoint or to go on, and                   *)
(* log_replay_command plays the next line.  Everything the user sees goes   *)
(* through a window port that panics when it is wanted for input, until the  *)
(* goal is reached.                                                         *)
(***************************************************************************)
EXTENDS Integers, SequencesExt, FiniteSetsExt

CONSTANTS
    Logs,           \* logs to replay: see LogType
    CheckpointFreq, \* CHECKPOINT_FREQ: actions between two checkpoints
    Far,            \* distance from which a seek forwards looks for a checkpoint
    Strides         \* distances a user seeks by

\* A log: for each command line its kind; the value of "moves" before and after
\* each of them; the places of save backups, in their order; the places in the
\* middle of a command that takes several; whether the game is over.
LogType(log) ==
    LET n == Len(log.lines)
    IN  /\ log.lines \in Seq({"command", "interrupt"}) /\ n > 0
        /\ log.moves \in [0..n -> Nat]
        /\ \A i \in 0..(n - 1) : log.moves[i] <= log.moves[i + 1]
        /\ log.backups \in Seq(0..(n - 1))
        /\ \A i, j \in DOMAIN log.backups : i < j => log.backups[i] < log.backups[j]
        /\ log.busy \subseteq 1..n
        /\ log.over \in BOOLEAN

\* The first command of every log is "welcome", which takes no time; no game is
\* in the middle of a command when a backup is written.
ASSUME ReplayAssumption ==
    /\ CheckpointFreq \in Nat \ {0} /\ Far \in Nat /\ Strides \subseteq Nat \ {0}
    /\ \A log \in Logs :
        /\ LogType(log)
        /\ log.lines[1] = "command" /\ log.moves[1] = log.moves[0] /\ log.moves[0] = 1
        /\ Range(log.backups) \cap log.busy = {}

VARIABLES
    log,      \* the log that is replayed
    place,    \* lines of it that have been played
    action,   \* replay.action
    last,     \* replay.max
    target,   \* replay.target
    byMove,   \* replay.target_is_move
    reverse,  \* replay.reverse
    jumped,   \* replay.jumped
    chks,     \* the checkpoints, in the order of their list
    prev,     \* how many of them up to replay.prev_checkpoint (0: it is NULL)
    phase,    \* "want", "play", "user", "done", "panic" or "desync"
    wanted     \* the target the user gave, by action or by move

replayVars == <<log, place, action, last, target, byMove, reverse, jumped, chks, prev, phase, wanted>>
position == <<place, action, prev>>

LastLine == Len(log.lines)

\* replay_count_actions from the start of the log: every line from a to z.
CountActions(n) == n

Replaction == IF byMove THEN log.moves[place] ELSE action

\* chkaction, and the action a checkpoint was made at.
ChkAction(c) == IF byMove THEN log.moves[c.place] ELSE c.action

-----------------------------------------------------------------------------
(* Checkpoints.                                                             *)

\* replay_create_checkpoint: a checkpoint of the same action is made anew, and
\* else one goes in between the previous and the next.
CreateCheckpoint(list, k, c) ==
    IF k > 0 /\ list[k].action = c.action THEN [list |-> [list EXCEPT ![k] = c], prev |-> k]
    ELSE IF k < Len(list) /\ list[k + 1].action = c.action
    THEN [list |-> [list EXCEPT ![k + 1] = c], prev |-> k]
    ELSE [list |-> SubSeq(list, 1, k) \o <<c>> \o SubSeq(list, k + 1, Len(list)), prev |-> k + 1]

\* replay_count_actions with load_checkpoints: one for each backup in the log.
FileCheckpoints(l) ==
    [i \in DOMAIN l.backups |->
        [action |-> CountActions(l.backups[i]), place |-> l.backups[i]]]

\* Before, as a version that compares actions with a target in moves
BeforeByAction(goal) ==
    LET good == {k \in 1..prev : chks[k].action <= goal}
    IN  IF good = {} THEN 1 ELSE Max(good)

\* The last checkpoint before the target, found from the previous one
\* backwards; the first of all if there is none.
Before(goal) ==
    LET good == {k \in 1..prev : ChkAction(chks[k]) <= goal}
    IN  IF good = {} THEN 1 ELSE Max(good)

\* From the next one forwards: the last one that does not lie behind the target.
Ahead(goal) ==
    IF prev = Len(chks) \/ goal < ChkAction(chks[prev + 1]) THEN 0
    ELSE Max({k \in (prev + 1)..Len(chks) :
                \A j \in (prev + 2)..k : goal > ChkAction(chks[j])})

-----------------------------------------------------------------------------
(* replay_want_userinput: first the jump, once for each seek, or the retry  *)
(* of a seek that went past its target; then the decision.                  *)

Here == [place |-> place, action |-> action, prev |-> prev]
Restored(k) == [place |-> chks[k].place, action |-> chks[k].action, prev |-> k]

\* Approach, as a version that comes back to the same target again and again
ApproachSameTarget ==
    IF ~jumped /\ target # Replaction
    THEN [at |-> IF target < Replaction THEN Restored(Before(target)) ELSE Here,
          target |-> target, jumped |-> TRUE, reverse |-> target < Replaction]
    ELSE [at |-> IF target < Replaction /\ prev > 0 THEN Restored(prev) ELSE Here,
          target |-> target, jumped |-> jumped, reverse |-> reverse]

\* The position after the jump or the retry, and the target.
Approach ==
    IF ~jumped /\ target # Replaction
    THEN IF target < Replaction
         THEN LET k == Before(target)
              IN  [at |-> Restored(k), target |-> Max({target, ChkAction(chks[k])}),
                   jumped |-> TRUE, reverse |-> TRUE]
         ELSE LET k == IF target > Replaction + Far THEN Ahead(target) ELSE 0
              IN  [at |-> IF k = 0 THEN Here ELSE Restored(k), target |-> target,
                   jumped |-> TRUE, reverse |-> FALSE]
    ELSE IF target < Replaction
    THEN [at |-> IF prev = 0 THEN Here ELSE Restored(prev),
          target |-> IF prev = 0 THEN target ELSE IF reverse THEN target - 1 ELSE target + 1,
          jumped |-> jumped, reverse |-> reverse]
    ELSE [at |-> Here, target |-> target, jumped |-> jumped, reverse |-> reverse]

\* ReachedAt, as a version that does not look for the end of the replay
ReachedAtGoal(at, goal) == at.action # 0 /\ goal = IF byMove THEN log.moves[at.place] ELSE at.action

ReachedAt(at, goal) ==
    \/ at.action = last
    \/ at.action # 0 /\ goal = IF byMove THEN log.moves[at.place] ELSE at.action

\* replay_goal_reached and replay_reset_windowport: a replay that finds nothing
\* left to play takes this action for the last.
GoalReached(at) ==
    /\ place' = at.place /\ action' = at.action /\ prev' = at.prev
    /\ target' = at.action /\ byMove' = FALSE
    /\ last' = IF at.place = LastLine THEN at.action ELSE last
    /\ phase' = "user"
    /\ UNCHANGED chks

\* A checkpoint is due: none for a while before or behind.
Due(at) ==
    /\ at.place \notin log.busy
    /\ at.prev = 0 \/ chks[at.prev].action + CheckpointFreq <= at.action
    /\ \/ at.prev = Len(chks)
       \/ chks[at.prev + 1].action - CheckpointFreq >= at.action
       \/ chks[at.prev + 1].action # 0 /\ at.action = 0

\* The next checkpoint is loaded rather than played past.
Overtaken(at) == at.prev < Len(chks) /\ chks[at.prev + 1].action <= at.action

GoesOn(at, goal) ==
    LET then == IF Overtaken(at) THEN Restored(at.prev + 1) ELSE at
        made == IF Due(then)
                THEN CreateCheckpoint(chks, then.prev, [action |-> then.action, place |-> then.place])
                ELSE [list |-> chks, prev |-> then.prev]
    IN  /\ place' = then.place /\ action' = then.action
        /\ chks' = made.list /\ prev' = made.prev
        /\ target' = goal
        /\ phase' = "play"
        /\ UNCHANGED <<byMove, last>>

WantUserinput ==
    /\ phase = "want"
    /\ LET to == Approach
       IN  /\ jumped' = to.jumped
           /\ reverse' = to.reverse
           /\ IF \/ prev = 0 /\ jumped /\ target < Replaction
                 \/ ReachedAt(to.at, to.target)
              THEN GoalReached(to.at)
              ELSE GoesOn(to.at, to.target)
    /\ UNCHANGED <<log, wanted>>

\* log_replay_command and the command itself.  If the log has ended, the main
\* loop asks for a command, and the window port of the seek panics
\* (replay_request_command).  dointerrupt takes back the count that
\* replay_set_action has just made (replay_force_diff).  The last command of a
\* finished game ends it (replay_done_noreturn): if that comes sooner than the
\* number of actions says, the replay takes it for a desync.
ReplayCommand ==
    /\ phase = "play"
    /\ IF place = LastLine
       THEN phase' = "panic" /\ UNCHANGED <<place, action>>
       ELSE /\ place' = place + 1
            /\ action' = IF log.lines[place + 1] = "interrupt" THEN action ELSE action + 1
            /\ phase' = IF log.over /\ place' = LastLine
                        THEN IF action' = last THEN "done" ELSE "desync"
                        ELSE "want"
    /\ UNCHANGED <<log, last, target, byMove, reverse, jumped, chks, prev, wanted>>

-----------------------------------------------------------------------------
(* The user.                                                                *)

\* A new target; at the end of a finished game, where the engine has no main
\* loop to go back to, the game is loaded again (replay_init), which goes to the
\* previous checkpoint.
Aim(goal, move) ==
    /\ phase \in {"user", "done"}
    /\ jumped' = FALSE
    /\ target' = goal /\ byMove' = move
    /\ IF phase = "user" \/ goal = IF move THEN log.moves[place] ELSE action
       THEN /\ phase' = IF phase = "user" THEN "want" ELSE phase
            /\ UNCHANGED position
       ELSE /\ phase' = "want"
            /\ place' = chks[prev].place /\ action' = chks[prev].action
            /\ UNCHANGED prev
    /\ wanted' = [goal |-> goal, byMove |-> move, from |-> log.moves[place']]
    /\ UNCHANGED <<log, last, reverse, chks>>

ReplaySeek(n, move) == Aim(Max({1, n + IF move THEN log.moves[place] ELSE action}), move)

ReplayGoto(n, move) == IF n = 0 THEN Aim(last, FALSE) ELSE Aim(Max({1, n}), move)

\* The game is closed and opened again (replay_init for a game that is known):
\* the replay goes on from the previous checkpoint.  nh_play_game has gone to
\* the end of a game that is not over, which is then taken for the target.
Reopen ==
    /\ phase \in {"user", "done"}
    /\ phase' = "want"
    /\ last' = CountActions(LastLine)
    /\ place' = chks[prev].place /\ action' = chks[prev].action
    /\ target' = IF log.over THEN target ELSE last'
    /\ byMove' = (log.over /\ byMove)
    /\ wanted' = [goal |-> target', byMove |-> byMove', from |-> log.moves[place']]
    /\ UNCHANGED <<log, prev, reverse, jumped, chks>>

\* replay_init for a new game.  A finished game is shown from its start; a game
\* that is still played from its end, with a first checkpoint at the start.
ReplayInit ==
    /\ log \in Logs
    /\ place = 0 /\ action = 0
    /\ last = CountActions(LastLine)
    /\ byMove = FALSE /\ reverse = FALSE /\ jumped = FALSE
    /\ phase = "want"
    /\ \/ /\ log.over
          /\ target = 1
          /\ chks = FileCheckpoints(log) /\ prev = 0
       \/ /\ ~log.over
          /\ target = last
          /\ LET made == CreateCheckpoint(FileCheckpoints(log), 0, [action |-> 0, place |-> 0])
             IN  chks = made.list /\ prev = made.prev
    /\ wanted = [goal |-> target, byMove |-> FALSE, from |-> 1]

ReplayStep == WantUserinput \/ ReplayCommand

ReplayNext ==
    \/ ReplayStep
    \/ \E n \in Strides, move \in BOOLEAN : ReplaySeek(n, move) \/ ReplaySeek(-n, move)
    \/ \E move \in BOOLEAN, n \in 0..(log.moves[LastLine] + 1) : ReplayGoto(n, move)
    \/ Reopen

ReplayFairness == WF_replayVars(ReplayStep)

ReplaySpec == ReplayInit /\ [][ReplayNext]_replayVars /\ ReplayFairness

-----------------------------------------------------------------------------

\* Between two lines the counter of actions, the place in the log and the list
\* of checkpoints tell the same story: checkpoints are in the order of the game
\* and give the place of their action, and the replay is between the two it
\* believes to be between.
CheckpointsAreInOrder ==
    /\ action = CountActions(place)
    /\ \A k \in DOMAIN chks : chks[k].action = CountActions(chks[k].place)
    /\ \A k \in 1..(Len(chks) - 1) : chks[k].action < chks[k + 1].action
    /\ prev > 0 => chks[prev].action <= action
    /\ phase = "play" /\ prev < Len(chks) => action < chks[prev + 1].action

\* What a user who asked for a move gets: that move; if the game never stood
\* there, the one before it when going back and the one after it when going
\* forwards, or the end.
NearestMove(goal, from) ==
    LET seen == {log.moves[i] : i \in 1..LastLine}
    IN  IF goal < from THEN Max({m \in seen : m <= goal})
        ELSE LET late == {m \in seen : m >= goal}
             IN  IF late = {} THEN Max(seen) ELSE Min(late)

\* A seek ends where it was told to, whichever checkpoints it went by.
SeekIsRight ==
    /\ CheckpointsAreInOrder
    /\ phase \in {"user", "done"} =>
        IF wanted.byMove THEN log.moves[place] = NearestMove(wanted.goal, wanted.from)
                        ELSE action = Min({wanted.goal, LastLine})

\* A seek meets the end of the log only as its last action: it neither asks the
\* user for a command nor takes the end of the game for a desync.
EndIsRecognised == phase \notin {"panic", "desync"}

\* Every seek comes to an end.
SeeksEnd == phase = "want" ~> phase \in {"user", "done"}
=============================================================================
