------------------------------- MODULE SaveLog -------------------------------
(***************************************************************************)
(* The save file of a game as a log that several processes play from at    *)
(* the same time (libnethack/src/log.c and the loop of nh_play_game).      *)
(*                                                                         *)
(* The log is the only thing the processes share.  Each one reads the      *)
(* lines that are there, recomputes the gamestate from them, and appends a *)
(* line of its own when it finds nothing to read.  At the end of a command *)
(* somebody writes a save line: a snapshot, or a diff against the previous *)
(* one.  A process that finds the log in a state it cannot use cuts it     *)
(* back to a save line and raises the recovery count in the header.        *)
(*                                                                         *)
(* What happens under one lock is one step here; LogfileLock shows that a  *)
(* writer is alone.  Between two steps of a process others may do          *)
(* anything.  Lines are counted, not measured: a position is the number of *)
(* lines before it.                                                        *)
(***************************************************************************)
EXTENDS Integers, Sequences, FiniteSets, SequencesExt

CONSTANTS
    Pid,          \* the processes that open the game
    FollowModes,  \* what the users ask for: "play" (FM_PLAY), "watch" (FM_WATCH)
    Commands,     \* the kinds of command: see Expects
    MaxCommands,  \* bound on the commands in the log at any time
    MaxPanics,    \* bound on panics, impossibles and #rewinds
    MaxCrashes    \* bound on processes that are killed

AllCommands == {"go", "long", "ask", "die"}

ASSUME FollowModeAssumption == FollowModes \subseteq {"play", "watch"}
ASSUME CommandAssumption == Commands \subseteq AllCommands
ASSUME BoundAssumption == {MaxCommands, MaxPanics, MaxCrashes} \subseteq Nat

VARIABLES
    log,      \* the lines after the three header lines
    torn,     \* does the file end with a partial line?
    status,   \* "save" or "done", in the header
    count,    \* the recovery count in the header
    hint,     \* where the first backup says the last backup is
    entries,  \* external: how often the server has recorded the game as over
    proc,     \* what each process knows (program_state)
    panics, crashes  \* the counters behind the bounds

file == <<log, torn, status, count, hint>>
bounds == <<panics, crashes>>
vars == <<log, torn, status, count, hint, entries, proc, panics, crashes>>

-----------------------------------------------------------------------------
(* The game engine, as a function of the inputs it has had: which input it *)
(* asks for next, and whether it has reached the end of a command at which *)
(* the game is saved.  "go" is a plain command, "long" one that leaves an  *)
(* occupation to be continued and is not saved, "ask" prompts, "die" ends  *)
(* the game.                                                               *)

LastInput(s) == IF s[Len(s)] = "time" THEN s[Len(s) - 1] ELSE s[Len(s)]

Expects(s) ==
    CASE s = <<>>               -> Commands
      [] s # <<>> /\ s[Len(s)] = "Q" -> {}
      [] s # <<>> /\ s[Len(s)] \in AllCommands \cup {"answer"} -> {"time"}
      [] OTHER -> CASE LastInput(s) = "ask" -> {"answer"}
                    [] LastInput(s) = "die" -> {"Q"}
                    [] OTHER                -> Commands

EndsTurn(s) == s # <<>> /\ s[Len(s)] = "time" /\ LastInput(s) \in {"go", "answer"}

(* Lines.  Each one has the gamestate that reading the log up to it gives; *)
(* only a save line really carries it, as a snapshot the writer made of    *)
(* its own gamestate, and a diff also the snapshot it is computed against. *)
IsSave(line)    == line.kind \in {"backup", "diff"}
Replay(n)       == log[n].state
Input(kind)     == [kind |-> kind, state |-> Append(Replay(Len(log)), kind),
                    base |-> <<>>]
Backup(s)       == [kind |-> "backup", state |-> s, base |-> <<>>]
Diff(base, s)   == [kind |-> "diff", state |-> s, base |-> base]

-----------------------------------------------------------------------------
(* The state of a process.  rc is expected_recovery_count, eog             *)
(* end_of_gamestate_location, bsl binary_save_location, bsave the contents *)
(* of binary_save, state the gamestate, cut the offset log_recover_core    *)
(* was given.  wants is current_followmode of the client, mode the mode    *)
(* the server and the engine are in.                                       *)

Off == [pc |-> "off", wants |-> "play", mode |-> "play", rc |-> 0, eog |-> 0, bsl |-> 0,
        bsave |-> <<>>, state |-> <<>>, cut |-> 0, eof_reached |-> FALSE]

Init ==
    /\ log = <<Backup(<<>>)>> /\ torn = FALSE
    /\ status = "save" /\ count = 1 /\ hint = 1
    /\ entries = 0
    /\ proc = [p \in Pid |-> Off]
    /\ panics = 0 /\ crashes = 0

At(p, pc)   == proc[p].pc = pc
Mode(p)     == proc[p].mode
Goto(p, pc) == proc' = [proc EXCEPT ![p].pc = pc]
Exit(p)     == proc' = [proc EXCEPT ![p] = Off]
Restart(p)  ==
    proc' = [proc EXCEPT ![p] = [Off EXCEPT !.pc = "open", !.wants = proc[p].wants]]

(* What lgetline_malloc finds at end_of_gamestate_location.                *)
LineThere(p)    == proc[p].eog < Len(log)
Line(p)         == log[proc[p].eog + 1]
PartialThere(p) == torn /\ proc[p].eog = Len(log)
NothingThere(p) == ~LineThere(p) /\ ~PartialThere(p)
Finds(p, kinds) == LineThere(p) /\ Line(p).kind \in kinds

SavesAfter(n) == {i \in DOMAIN log : i > n /\ IsSave(log[i])}

(* Mutant: the offset of the binary save itself.                           *)
StartOfSaveLine(p) == IF proc[p].bsl <= Len(log) THEN proc[p].bsl - 1 ELSE Len(log)

(* get_log_start_of_turn_offset: just past the line of the binary save.    *)
StartOfTurn(p) == IF proc[p].bsl <= Len(log) THEN proc[p].bsl ELSE Len(log)

(* log_recover_core, up to the menu: a process that does not play may only *)
(* reload or leave; one that plays chooses, perhaps much later.  The       *)
(* offset is refused if it is not just past a newline, and if the file     *)
(* would lose more than eight ninths of its length.                        *)
Recover(p, offset) ==
    \/ Exit(p)
    \/ Mode(p) # "play" /\ Restart(p)
    \/ /\ Mode(p) = "play" /\ offset <= Len(log)
       /\ proc' = [proc EXCEPT ![p].pc = "menu", ![p].cut = offset]

(* log_desync, past the offending line: a save line further on will do, or *)
(* else the turn is to be undone.                                          *)
Desync(p) ==
    IF SavesAfter(proc[p].eog + 1) # {} THEN Restart(p)
                                        ELSE Recover(p, StartOfTurn(p))

(* stop_replaying_logfile, and what the engine does with the input.        *)
Consume(p, pc) ==
    proc' = [proc EXCEPT ![p].pc = pc, ![p].eog = @ + 1,
                         ![p].state = Append(@, Line(p).kind),
                         ![p].eof_reached = FALSE]

(* Mutants: anything that ends with a newline may be appended to; the      *)
(* location of the last line is compared, not of its end; a recovery by    *)
(* somebody else is not noticed.                                           *)
AtEndAnywhere(p)      == ~torn
AtEndByLastLine(p)    == proc[p].eog + 1 = Len(log) /\ ~torn
MayWriteAtAnyCount(p) == status = "save" /\ proc[p].eog = Len(log) /\ ~torn

(* start_updating_logfile                                                  *)
AtEnd(p)    == proc[p].eog = Len(log) /\ ~torn
MayWrite(p) == proc[p].rc = count /\ status = "save" /\ AtEnd(p)
Refused(p)  ==
    /\ UNCHANGED file
    /\ \/ proc[p].rc # count /\ Restart(p)
       \/ proc[p].rc = count /\ status = "done" /\ Exit(p)
       \/ proc[p].rc = count /\ status = "save" /\ ~AtEnd(p) /\ Restart(p)

(* log_record_input and log_record_command                                 *)
Record(p, kind, pc) ==
    \/ Refused(p)
    \/ /\ MayWrite(p)
       /\ log' = Append(log, Input(kind))
       /\ proc' = [proc EXCEPT ![p].pc = pc, ![p].eog = Len(log) + 1,
                               ![p].state = Append(@, kind)]
       /\ UNCHANGED <<torn, status, count, hint>>

-----------------------------------------------------------------------------
(* Opening the game                                                        *)

(* playgame keeps the mode the user asked for when it opens the game again.*)
Wanted(p) == IF At(p, "open") THEN {proc[p].wants} ELSE FollowModes

Play(p, wants, pc, mode) ==
    proc' = [proc EXCEPT ![p].pc = pc, ![p].wants = wants, ![p].mode = mode]

(* ccmd_play_game and the head of nh_play_game: a game that is over for    *)
(* the engine but not for the server has its end redone; one that is over  *)
(* for both is only replayed, which is not modelled.                       *)
Open(p) ==
    /\ proc[p].pc \in {"off", "open"}
    /\ \E wants \in Wanted(p) :
           \/ status = "save" /\ Play(p, wants, "header", wants)
           \/ /\ status = "done" /\ entries = 0
              /\ Play(p, wants, "undo", "recoverquit")
           \/ status = "done" /\ entries > 0 /\ At(p, "open") /\ Exit(p)
    /\ UNCHANGED <<file, entries, bounds>>

(* log_maybe_undo_quit, up to the write lock of log_recover_core.          *)
UndoQuit(p) ==
    /\ At(p, "undo")
    /\ proc' = [proc EXCEPT
           ![p].rc = count, ![p].cut = Len(log) - 1,
           ![p].pc = IF log[Len(log)].kind = "Q" THEN "undoing" ELSE "header"]
    /\ UNCHANGED <<file, entries, bounds>>

(* log_sync(0, TLU_EOF): the header, and then, with no more than a monitor *)
(* lock, a save backup to start from and one save line after the other.    *)
SyncHeader(p) ==
    /\ At(p, "header")
    /\ proc' = [proc EXCEPT ![p].pc = "hint", ![p].rc = count, ![p].bsl = hint]
    /\ UNCHANGED <<file, entries, bounds>>

IsBackup(n) == n \in DOMAIN log /\ log[n].kind = "backup"

SyncHint(p) ==
    /\ At(p, "hint")
    /\ proc' = [proc EXCEPT ![p].pc = "load",
                            ![p].bsl = IF IsBackup(@) THEN @ ELSE 1]
    /\ UNCHANGED <<file, entries, bounds>>

SyncLoad(p) ==
    /\ At(p, "load")
    /\ \/ /\ IsBackup(proc[p].bsl)
          /\ proc' = [proc EXCEPT ![p].pc = "scan",
                                  ![p].bsave = log[proc[p].bsl].state]
       \/ ~IsBackup(proc[p].bsl) /\ Exit(p)
    /\ UNCHANGED <<file, entries, bounds>>

(* A diff is useless without the snapshot it was computed against.         *)
Applies(p, line) == line.kind = "backup" \/ line.base = proc[p].bsave

SyncNext(p) ==
    /\ At(p, "scan")
    /\ SavesAfter(proc[p].bsl) # {}
    /\ LET i == Min(SavesAfter(proc[p].bsl))
       IN  \/ /\ Applies(p, log[i])
              /\ proc' = [proc EXCEPT ![p].bsl = i, ![p].bsave = log[i].state]
           \/ ~Applies(p, log[i]) /\ Exit(p)
    /\ UNCHANGED <<file, entries, bounds>>

(* load_gamestate_from_binary_save                                         *)
SyncDone(p) ==
    /\ At(p, "scan")
    /\ SavesAfter(proc[p].bsl) = {}
    /\ \/ torn /\ Recover(p, Len(log))
       \/ /\ ~torn
          /\ proc' = [proc EXCEPT ![p].pc = "ready", ![p].state = proc[p].bsave,
                  ![p].eog = IF proc[p].bsl <= Len(log) THEN proc[p].bsl
                                                        ELSE proc[p].bsl - 1]
    /\ UNCHANGED <<file, entries, bounds>>

-----------------------------------------------------------------------------
(* The main loop: a command                                                *)

Reading == UNCHANGED <<file, entries, bounds>>

(* log_replay_command.  Anything but a command is a desync, unless the     *)
(* save line of the last turn had been waited for in vain: it may be here. *)
ReplayCommand(p) ==
    /\ At(p, "ready")
    /\ \/ Finds(p, AllCommands) /\ Consume(p, "time")
       \/ Finds(p, {"Q"}) /\ Exit(p)
       \/ /\ LineThere(p) /\ ~Finds(p, AllCommands \cup {"Q"})
          /\ \/ /\ proc[p].eof_reached
                /\ proc' = [proc EXCEPT ![p].pc = "follow",
                                        ![p].eof_reached = FALSE]
             \/ ~proc[p].eof_reached /\ Desync(p)
       \/ PartialThere(p) /\ Recover(p, Len(log))
    /\ Reading

(* Nothing to read: the user is asked, unless the game is only played for  *)
(* its end.  A watcher is asked too, and its commands are ignored.         *)
RequestCommand(p) ==
    /\ At(p, "ready") /\ NothingThere(p)
    /\ IF Mode(p) = "recoverquit" THEN Exit(p) ELSE Goto(p, "ask")
    /\ Reading

Commanded == Cardinality({i \in DOMAIN log : log[i].kind \in AllCommands})

(* log_record_command                                                      *)
UserCommand(p) ==
    /\ At(p, "ask") /\ Mode(p) = "play" /\ Commanded < MaxCommands
    /\ \E c \in Commands : Record(p, c, "time")
    /\ UNCHANGED <<entries, bounds>>

(* Mutant: prompts are not cancelled.                                      *)
ServerCancelAtCommands(p) ==
    /\ At(p, "ask") /\ ~NothingThere(p)
    /\ Goto(p, "ready")
    /\ Reading

(* Somebody else has written: what the user is being asked is cancelled,   *)
(* and the log is read again.                                              *)
ServerCancel(p) ==
    /\ proc[p].pc \in {"ask", "prompt"} /\ ~NothingThere(p)
    /\ Goto(p, IF At(p, "ask") THEN "ready" ELSE "run")
    /\ Reading

(* nh_exit_game(EXIT_SAVE): one who plays must still be able to write the  *)
(* second line of the header.                                              *)
Detach(p) ==
    /\ proc[p].pc \in {"ask", "prompt", "ended"} /\ Mode(p) # "recoverquit"
    /\ \/ Mode(p) = "play" /\ Refused(p)
       \/ (Mode(p) = "play" => MayWrite(p)) /\ Exit(p) /\ UNCHANGED file
    /\ UNCHANGED <<entries, bounds>>

(* nh_exit_game(EXIT_QUIT)                                                 *)
Quit(p) ==
    /\ proc[p].pc \in {"ask", "prompt"} /\ Mode(p) = "play"
    /\ Record(p, "Q", "over")
    /\ UNCHANGED <<entries, bounds>>

-----------------------------------------------------------------------------
(* The time line after an input                                            *)

ReplayTime(p) ==
    /\ At(p, "time")
    /\ \/ Finds(p, {"time"}) /\ Consume(p, "run")
       \/ Finds(p, {"Q"}) /\ Exit(p)
       \/ LineThere(p) /\ ~Finds(p, {"time", "Q"}) /\ Desync(p)
       \/ PartialThere(p) /\ Recover(p, Len(log))
    /\ Reading

(* A watcher waits for three seconds, and then panics.                     *)
NoTime(p) ==
    /\ At(p, "time") /\ NothingThere(p)
    /\ CASE Mode(p) = "play"        -> Goto(p, "stamp")
         [] Mode(p) = "recoverquit" -> Exit(p)
         [] OTHER                   -> Recover(p, StartOfTurn(p))
    /\ Reading

RecordTime(p) ==
    /\ At(p, "stamp")
    /\ Record(p, "time", "run")
    /\ UNCHANGED <<entries, bounds>>

-----------------------------------------------------------------------------
(* The engine runs on: to a prompt, to the end of the game, to the end of  *)
(* the turn, or back to the main loop without one.                         *)

Prompts(p) == Expects(proc[p].state) = {"answer"}
Dies(p)    == Expects(proc[p].state) = {"Q"}

ReplayAnswer(p) ==
    /\ At(p, "run") /\ Prompts(p)
    /\ \/ Finds(p, {"answer"}) /\ Consume(p, "time")
       \/ Finds(p, {"Q"}) /\ Exit(p)
       \/ LineThere(p) /\ ~Finds(p, {"answer", "Q"}) /\ Desync(p)
       \/ PartialThere(p) /\ Recover(p, Len(log))
    /\ Reading

(* While an end is being redone only a yn prompt is answered, with 'q'.    *)
Prompt(p) ==
    /\ At(p, "run") /\ Prompts(p) /\ NothingThere(p)
    /\ \/ Goto(p, "prompt")
       \/ Mode(p) = "recoverquit" /\ Exit(p)
    /\ Reading

UserAnswer(p) ==
    /\ At(p, "prompt") /\ Mode(p) # "watch"
    /\ Record(p, "answer", "time")
    /\ UNCHANGED <<entries, bounds>>

(* done: a watcher is left in watch_done_noreturn, a loop that asks for    *)
(* commands and reads no more of the log; anybody else gets to             *)
(* done_noreturn, up to log_game_over.                                     *)
Die(p) ==
    /\ At(p, "run") /\ Dies(p)
    /\ \/ Mode(p) = "watch" /\ Goto(p, "ended") /\ UNCHANGED file
       \/ Mode(p) # "watch" /\ Record(p, "Q", "over")
    /\ UNCHANGED <<entries, bounds>>

EndCommand(p) ==
    /\ At(p, "run") /\ ~Prompts(p) /\ ~Dies(p)
    /\ Goto(p, IF ~EndsTurn(proc[p].state) THEN "ready"
               ELSE IF Mode(p) = "play" THEN "save" ELSE "follow")
    /\ Reading

-----------------------------------------------------------------------------
(* The save line at the end of a turn                                      *)

(* log_neutral_turnstate: a backup or a diff, whichever is likely to be    *)
(* shorter; if somebody else was faster, theirs is read.                   *)
Save(p) ==
    /\ At(p, "save")
    /\ \/ /\ proc[p].rc = count /\ status = "save" /\ ~AtEnd(p)
          /\ Goto(p, "follow") /\ UNCHANGED file
       \/ (proc[p].rc = count /\ status = "save" => AtEnd(p)) /\ Refused(p)
       \/ /\ MayWrite(p)
          /\ \/ /\ log' = Append(log, Backup(proc[p].state))
                /\ hint' = Len(log) + 1
             \/ /\ log' = Append(log, Diff(proc[p].bsave, proc[p].state))
                /\ UNCHANGED hint
          /\ proc' = [proc EXCEPT ![p].pc = "ready", ![p].eog = Len(log) + 1,
                         ![p].bsl = Len(log) + 1, ![p].bsave = proc[p].state]
          /\ UNCHANGED <<torn, status, count>>
    /\ UNCHANGED <<entries, bounds>>

(* Mutant: nobody remembers that the save line was not there.              *)
NoSaveYetUnmarked(p) == Goto(p, "ready")

NoSaveYet(p) == proc' = [proc EXCEPT ![p].pc = "ready", ![p].eof_reached = TRUE]

(* log_replay_save_line: what it reads replaces the gamestate.  A line     *)
(* that is not a save line is left for the main loop, and if there is none *)
(* for three seconds, perhaps there will be one later.                     *)
Follow(p) ==
    /\ At(p, "follow")
    /\ \/ /\ LineThere(p) /\ IsSave(Line(p)) /\ Applies(p, Line(p))
          /\ proc' = [proc EXCEPT ![p].pc = "ready", ![p].eog = @ + 1,
                         ![p].bsl = proc[p].eog + 1,
                         ![p].bsave = Line(p).state, ![p].state = Line(p).state]
       \/ /\ LineThere(p) /\ IsSave(Line(p)) /\ ~Applies(p, Line(p))
          /\ Exit(p)
       \/ Finds(p, {"Q"}) /\ Exit(p)
       \/ LineThere(p) /\ ~IsSave(Line(p)) /\ ~Finds(p, {"Q"}) /\ Goto(p, "ready")
       \/ PartialThere(p) /\ Recover(p, Len(log))
       \/ NothingThere(p) /\ NoSaveYet(p)
    /\ Reading

-----------------------------------------------------------------------------
(* The end of the game                                                     *)

LogGameOver(p) ==
    /\ At(p, "over")
    /\ \/ Refused(p)
       \/ /\ MayWrite(p) /\ status' = "done" /\ Goto(p, "disclose")
          /\ UNCHANGED <<log, torn, count, hint>>
    /\ UNCHANGED <<entries, bounds>>

(* nh_play_game returns GAME_OVER once the player has been shown           *)
(* everything, and only then does ccmd_play_game record the end.           *)
GameOver(p) ==
    /\ At(p, "disclose")
    /\ entries' = entries + 1 /\ Exit(p)
    /\ UNCHANGED <<file, bounds>>

-----------------------------------------------------------------------------
(* Recovery                                                                *)

(* panic(), impossible() or #rewind                                        *)
Panic(p) ==
    /\ panics < MaxPanics /\ panics' = panics + 1
    /\ \/ /\ proc[p].pc \in {"ready", "ask", "time", "stamp", "run", "prompt",
                              "save", "follow", "over", "disclose",
                              "ended"}
          /\ Recover(p, StartOfTurn(p))
       \/ /\ proc[p].pc \in {"ask", "ended"} /\ Mode(p) # "recoverquit"
          /\ proc[p].eog <= Len(log)
          /\ proc' = [proc EXCEPT ![p].pc = "menu", ![p].mode = "play",
                                  ![p].cut = proc[p].eog]
    /\ UNCHANGED <<file, entries, crashes>>

(* Mutant: the recovery count stays as it is.                              *)
TruncateUncounted(p, pc) ==
    /\ status' = "save" /\ torn' = FALSE /\ UNCHANGED <<count, hint>>
    /\ log' = SubSeq(log, 1, proc[p].cut)
    /\ IF pc = "open" THEN Restart(p) ELSE Goto(p, pc)

(* The rest of log_recover_core                                            *)
Truncate(p, pc) ==
    \/ proc[p].rc # count /\ Restart(p) /\ UNCHANGED file
    \/ /\ proc[p].rc = count
       /\ count' = count + 1 /\ status' = "save"
       /\ log' = SubSeq(log, 1, proc[p].cut) /\ torn' = FALSE
       /\ UNCHANGED hint
       /\ IF pc = "open" THEN Restart(p)
                         ELSE proc' = [proc EXCEPT ![p].pc = pc, ![p].rc = count + 1]

RecoverSave(p) ==
    /\ At(p, "menu")
    /\ \/ Truncate(p, "open")
       \/ Exit(p) /\ UNCHANGED file
    /\ UNCHANGED <<entries, bounds>>

RecoverQuit(p) ==
    /\ At(p, "undoing")
    /\ Truncate(p, "header")
    /\ UNCHANGED <<entries, bounds>>

-----------------------------------------------------------------------------
(* A process is killed: anywhere, in the middle of a write, or between the *)
(* two writes of one update of the file.                                   *)

Appending == {"ask", "stamp", "prompt", "save"}

Crash(p) ==
    /\ crashes < MaxCrashes /\ crashes' = crashes + 1
    /\ ~At(p, "off") /\ Exit(p)
    /\ \/ UNCHANGED file
       \/ /\ MayWrite(p)
          /\ proc[p].pc \in Appending \/ (At(p, "run") /\ Dies(p))
          /\ Mode(p) # "watch"
          /\ torn' = TRUE /\ UNCHANGED <<log, status, count, hint>>
       \/ /\ MayWrite(p) /\ At(p, "save")
          /\ log' = Append(log, Backup(proc[p].state))
          /\ UNCHANGED <<torn, status, count, hint>>
       \/ /\ proc[p].pc \in {"menu", "undoing"} /\ proc[p].rc = count
          /\ count' = count + 1 /\ status' = "save"
          /\ UNCHANGED <<log, torn, hint>>
    /\ UNCHANGED <<entries, panics>>

-----------------------------------------------------------------------------
Internal(p) ==
    \/ UndoQuit(p) \/ SyncHeader(p) \/ SyncHint(p) \/ SyncLoad(p)
    \/ SyncNext(p) \/ SyncDone(p) \/ ReplayCommand(p) \/ RequestCommand(p)
    \/ ServerCancel(p) \/ ReplayTime(p) \/ NoTime(p) \/ RecordTime(p)
    \/ ReplayAnswer(p) \/ Prompt(p) \/ Die(p) \/ EndCommand(p)
    \/ Save(p) \/ Follow(p) \/ LogGameOver(p) \/ RecoverQuit(p)

FromUser(p) ==
    \/ Open(p) \/ UserCommand(p) \/ UserAnswer(p) \/ Detach(p) \/ Quit(p)
    \/ GameOver(p) \/ RecoverSave(p)

Next == \E p \in Pid : Internal(p) \/ FromUser(p) \/ Panic(p) \/ Crash(p)

Spec == Init /\ [][Next]_vars

(* A process that can go on does, and so does a client that has been told  *)
(* to open the game again.  What a user decides is up to the user, except  *)
(* that a watcher who is asked whether to reload the game answers.         *)
Fairness ==
    \A p \in Pid : /\ WF_vars(Internal(p))
                  /\ WF_vars(At(p, "open") /\ Open(p))

FairSpec == Spec /\ Fairness

-----------------------------------------------------------------------------
(* Properties                                                              *)

FollowMode == {"play", "watch", "recoverquit"}
PC == {"off", "open", "undo", "undoing", "header", "hint", "load", "scan",
       "ready", "ask", "time", "stamp", "run", "prompt", "save", "follow",
       "over", "disclose", "ended", "menu"}
Playing == {"ready", "ask", "time", "stamp", "run", "prompt", "save", "follow",
            "over", "disclose", "ended"}
InputKind == AllCommands \cup {"time", "answer", "Q"}
Gamestate == Seq(InputKind)
LineType == [kind : InputKind \cup {"backup", "diff"},
             state : Gamestate, base : Gamestate]
Process == [pc : PC, wants : FollowModes \cup {"play"}, mode : FollowMode, rc : Nat, eog : Nat, bsl : Nat,
            bsave : Gamestate, state : Gamestate, cut : Nat,
            eof_reached : BOOLEAN]

(* The variables keep their types.                                         *)
TypeOK ==
    /\ log \in Seq(LineType) /\ torn \in BOOLEAN
    /\ status \in {"save", "done"} /\ count \in Nat /\ hint \in Nat
    /\ entries \in Nat /\ proc \in [Pid -> Process]
    /\ panics \in Nat /\ crashes \in Nat

(* Where "Q" may come: where the user can quit, or where the engine ends   *)
(* the game itself.                                                        *)
AsksUser(s) == Expects(s) = Commands \/ Expects(s) = {"answer"}

LineFits(n) ==
    LET s == Replay(n)
    IN  IF EndsTurn(s) /\ ~IsSave(log[n])
        THEN IsSave(log[n + 1])
        ELSE log[n + 1].kind \in Expects(s) \cup
                                 (IF AsksUser(s) THEN {"Q"} ELSE {})

(* Replaying the log from its start never surprises the engine: each line  *)
(* that log_record_input, log_record_command and log_neutral_turnstate put *)
(* there is one that log_replay_command, log_want_replay and               *)
(* log_replay_save_line look for at that point, with no input recorded     *)
(* twice and no turn saved twice, whoever wrote it.                        *)
LogIsPlayable == \A n \in 1..(Len(log) - 1) : LineFits(n)

PreviousSave(i) == Max({j \in 1..(i - 1) : IsSave(log[j])})

(* The log starts with a save backup, the snapshot in a save line of       *)
(* log_backup_save or log_neutral_turnstate is the gamestate that replaying*)
(* the lines before it gives, and a diff is computed against the snapshot  *)
(* of the save line before, so that log_sync can apply it.                 *)
SavesAreTrue ==
    /\ log # <<>> /\ log[1] = Backup(<<>>)
    /\ \A i \in 2..Len(log) : IsSave(log[i]) =>
          /\ log[i].state = Replay(i - 1)
          /\ log[i].kind = "diff" => log[i].base = log[PreviousSave(i)].state

Agrees(p) ==
    /\ proc[p].eog \in 1..Len(log)
    /\ proc[p].state = Replay(proc[p].eog)
    /\ proc[p].bsl = Max({i \in 1..proc[p].eog : IsSave(log[i])})
    /\ proc[p].bsave = log[proc[p].bsl].state

(* "All processes will always have the same opinion about what the current *)
(* gamestate is" (saves.txt), for those whose expected_recovery_count is   *)
(* the file's: a process has the gamestate that the lines it has read stand*)
(* for, and the snapshot of the last save line among them, to make the next*)
(* diff against.                                                           *)
Agreement ==
    \A p \in Pid :
        proc[p].pc \in Playing /\ proc[p].rc = count => Agrees(p)

(* When log_desync is called, and when a save cannot be loaded.            *)
Desyncs(p) ==
    /\ LineThere(p)
    /\ \/ /\ At(p, "ready") /\ ~proc[p].eof_reached
          /\ ~Finds(p, AllCommands \cup {"Q"})
       \/ At(p, "time") /\ ~Finds(p, {"time", "Q"})
       \/ At(p, "run") /\ Prompts(p) /\ ~Finds(p, {"answer", "Q"})

LoadFails(p) ==
    \/ At(p, "load") /\ ~IsBackup(proc[p].bsl)
    \/ /\ At(p, "scan") /\ SavesAfter(proc[p].bsl) # {}
       /\ ~Applies(p, log[Min(SavesAfter(proc[p].bsl))])
    \/ /\ At(p, "follow") /\ LineThere(p)
       /\ ~(IsSave(Line(p)) /\ Applies(p, Line(p)))

(* A process whose recovery count is the file's never calls log_desync,    *)
(* and log_sync and log_replay_save_line never fail to load a save for it: *)
(* whatever the others do between two of its reads, it finds what the      *)
(* engine asks for, or nothing yet.                                        *)
NeverLost ==
    \A p \in Pid : proc[p].rc = count => ~Desyncs(p) /\ ~LoadFails(p)

(* A recovery that log_recover_core goes through with only shortens the    *)
(* file, and never to below the first save backup, although the offset was *)
(* computed before the user was asked and others have played on meanwhile. *)
CutsAreSafe ==
    \A p \in Pid : proc[p].pc \in {"menu", "undoing"} /\ proc[p].rc = count
                      => proc[p].cut \in 1..Len(log)

(* No process ever calls log_desync: "Right now, they shouldn't be         *)
(* happening" (log.c).                                                     *)
NoDesync == \A p \in Pid : ~Desyncs(p)

(* "Game over is logged to prevent two processes trying to handle a game   *)
(* over at once" (saves.txt): the server records the end of a game at most *)
(* once, even if the end has to be redone after a crash.                   *)
OneGameOver == entries <= 1

(* RESTART_PLAY is not returned forever: the loop of the client that opens *)
(* the game again ends, for one who plays.  (A watcher is asked each time  *)
(* whether it wants to try again.)                                         *)
RestartsEnd == \A p \in Pid : <>[]~(At(p, "open") /\ proc[p].wants = "play")

(* A watcher that stays reads all there is, or up to the death of the hero *)
(* where done leaves it: whatever it is waiting for when somebody else     *)
(* appends a line, handle_sigrtmin1's win_server_cancel, the three seconds *)
(* of log_replay_save_line and log_time_line, or the reload that           *)
(* log_recover_core offers gets it there.                                  *)
FollowersCatchUp ==
    \A p \in Pid : []<>(proc[p].pc \in {"off", "ended"} \/ proc[p].wants = "play"
                         \/ proc[p].eog = Len(log))
=============================================================================
