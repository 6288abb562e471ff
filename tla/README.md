# Models of FIQHack in TLA+

FIQHack is a variant of NetHack 4: a game engine in a library (`libnethack`),
which runs either inside a terminal client (`nethack`) or inside a server
process per connection (`nethack_server`) that talks JSON to a client library
(`libnethack_client`). What makes it more than a sequential program is the save
system. A game's save file is a log that is written while the game is played,
and any number of processes may have it open at once: two connections of the
same player, watchers, a process that is left over from a lost connection.
They share nothing but that file. `doc/saves.txt` says what they are supposed
to do with it, `libnethack/src/files.c` and `libnethack/src/log.c` do it.

That is the core of this directory: the lock on the log file, the log on top of
it, and the proof that the lock keeps its promises. Around it stand the other
parts of the program in which several pieces of state have to be kept in step
by hand: the connection between server and client, the encoding of saves, the
replay of logs, and inside the engine timers and lights, the bills of shops, the
tails of long worms and the changing of equipment. Everything is translated from
the source; `PROJECT.json` maps each definition to the lines it stands for.

## Inventory

| component | state | operations | interacts with | what is hard |
|---|---|---|---|---|
| **Log file locking** (`files.c`) | kernel locks, pending real-time signals, `unmatched_sigrtmin1s_*`, `logfile_watchers`, the lock level of each process | `change_fd_lock`, four signal handlers, `flush_logfile_watchers`, alarms | every access to the log; other processes by signals; the window port by `win_server_cancel` | nested handlers, signals in any order, timeouts, processes that leave or die |
| **Save log** (`log.c`, main loop in `allmain.c`, end of game in `end.c`) | the log: inputs, save backups and diffs, status, recovery count; per process `program_state`: three locations, the binary save, the gamestate | record, replay, save, sync, desync, recover, undo the end of the game | the lock; the engine that consumes inputs; the user who is asked; the server that records the end | races between writers, stale readers, crashes between two writes, a recovery under other processes |
| **Server, client process** (`clientmain.c`, `clientcmd.c`, `winprocs.c`) | one game per process, pending server cancel, output buffer | command loop, callbacks to the client, exit | client library over a socket; engine; database | a cancel that arrives in the middle of a message; callbacks nested in commands |
| **Server, rest** (`server.c`, `auth.c`, `db_pgsql.c`, `config.c`, `log.c`) | connections, PostgreSQL rows | accept, authenticate, store | operating system, database | mostly thin layers |
| **Client library** (`libnethack_client`) | connection, retry and nesting depth | send a command, answer callbacks, reconnect | server; client | reconnecting in the middle of a command |
| **Client** (`nethack`) | UI state, follow mode | play loop, menus, keymaps | engine or client library | restart loops, server cancels |
| **Replay mode** (`logreplay.c`) | checkpoints with a copy of `program_state` | forwards, backwards, goto | log, engine | positions that belong to two histories |
| **Memory files** (`memfile.c`) | a buffer, its diff and tags | `mwrite*`, `mdiffwrite`, `mdiffapply`, `mequal` | save, restore, log | diff and patch must be inverse to each other |
| **Save and restore** (`save.c`, `restore.c`) | the gamestate | serialise, deserialise | memory files | completeness of a long list of fields |
| **Bones, top ten, dumps** | files of their own | written at the end of a game | log (inputs), locks | done once per game |
| **Commands, occupations, interruption** (`cmd.c`, `allmain.c`, `hack.c`) | `flags.incomplete`, `interrupted`, `occupation`, last command | repeat, interrupt | log, window port | what is logged must be what is replayed |
| **Timers, light sources, regions, worms, object chains** (`timeout.c`, `light.c`, `worm.c`, `mkobj.c`) | linked structures in levels: queues of timers, lists of lights, tails, chains of objects | start, stop, move, split, merge, save | one another; level changes | a structure and its owner must stay in step when either moves |
| **Random numbers** (`newrng.c`) | several streams | draw, seed | everything | streams must not influence each other |
| **Shops, vault, priests** (`shk.c`) | bills and keepers | add, split, use up, remove, pay, rob | objects, inventory | the bill and the objects marked unpaid must agree |
| **Equipment** (`do_wear.c`, `wield.c`) | `owornmask`; per slot what is asked for and the time spent on it | ask, one turn of changing, swap, two weapons | thieves, curses, menus, the time system | changes over many turns that others disturb |
| **Rules of the game** (most of `libnethack/src`: monsters, combat, items, spells, levels) | the gamestate | turns | everything | size, not concurrency |
| **Display, vision, text, options, terminal library, tiles, JSON, build tools** | - | - | - | no state worth a model, or third-party |

The correctness of each modelled component, in words:

* *Locking*: a writer is alone; nobody runs on a gamestate that was changed
  behind its back; whoever is waiting is going to be answered; nobody waits
  forever.
* *Save log*: the log is a history the engine can replay from the start; save
  lines are true; every process that is up to date agrees with it; recovery
  never loses the ability to load; the end of the game is handled once; restart
  loops end and watchers catch up.
* *Save diffs*: a save and the diff against the next one give the next one back.
* *Replay*: a seek ends, and where it was told to; the end of the log is known.
* *Wire*: the client can cut the stream into messages; cancels are neither lost
  nor shown out of turn.
* *Display*: when the player is asked something, the client shows the truth.
* *Client library*: through broken connections no server is sent anything but
  what it waits for, and no jump goes to a function that has returned.
* *Timers and lights*: what burns has one timer and one light, on the level where
  it is; fuel burns by the clock; a restored game goes on as the saved one.
* *Shops*: bill and objects agree, and no goods vanish from the books.
* *Worms*: monster, list of segments and map describe the same animal.
* *Occupations*: whatever comes between two turns of a command, it goes on with what it
  was working on, or ends; looking something up changes nothing that is saved.
* *Equipment*: whatever is asked for, cancelled, stolen or cursed on the way, the
  player ends up dressed by the rules, and the change ends.

The behaviours that are hard to test are listed in `PROJECT.json` under
`hazards`, each with its line and with the properties that would catch it.

## Modules

| module | models | code it stands for |
|---|---|---|
| `NotifiedLock` | what the lock promises: levels, and monitors that yield to a writer and are told so | specification only |
| `LogfileLock` | the signal protocol that implements it | `files.c` 425-979 |
| `LogfileLock_proofs` | theorems about `LogfileLock` | |
| `SaveLog` | the log and the processes that play from it | `log.c`, `allmain.c`, `end.c`, `clientcmd.c`, `rungame.c` |
| `SaveLog_proofs` | theorems about `SaveLog` | |
| `SaveDiff` | save diffs: the encoder and the reader | `memfile.c` |
| `ReplayMode` | seeking in a replay | `logreplay.c`, `log.c` |
| `ReplayMode_proofs` | theorems about `ReplayMode` | |
| `Wire` | messages and cancels, byte by byte | `clientmain.c`, `connection.c`, `windows.c` |
| `DisplayStream` | what the client is shown, and the caches that save traffic | server `winprocs.c`, client `netcmd.c` |
| `DisplayStream_proofs` | theorems about `DisplayStream` | |
| `Reconnect` | calls, nested callbacks and lost connections | `connection.c`, `netcmd.c`, `netgame.c` |
| `Connection_proofs` | theorems about `Wire` and `Reconnect` | |
| `Occupations` | commands of several turns, and what interrupts them | `allmain.c`, `cmd.c`, `eat.c`, `lock.c`, `spell.c`, `apply.c` |
| `Occupations_proofs` | theorems about `Occupations` | |
| `MCSession` | `Wire`, `DisplayStream`, `Reconnect`, `SaveDiff`, `ReplayMode`, `Occupations` in one instance | |
| `BurnTimers` | timers and lights of burning objects | `timeout.c`, `light.c`, `do.c`, `dog.c`, `mkobj.c`, `invent.c` |
| `ShopBill` | a shopkeeper's bill | `shk.c`, `invent.c`, `pickup.c`, `mkobj.c` |
| `ShopBill_proofs` | theorems about `ShopBill` | |
| `Worm` | long worms | `worm.c`, `teleport.c`, `mon.c`, `dog.c` |
| `Worm_proofs` | theorems about `Worm` | |
| `Equip` | changing equipment | `do_wear.c`, `wield.c`, `steal.c` |
| `MCEngine` | `BurnTimers`, `ShopBill`, `Worm`, `Equip` in one instance | |

`SaveLog` relies on `LogfileLock` only through what that module promises, and the
other modules share no variable with it or with one another: the engine's
structures meet in the code only through objects, which each module has of its
own kind, and the parts of a session through messages of which each module looks
at another aspect. The two composing modules therefore put their parts side by
side: the initial state chooses the `part` that moves while the others rest.
Interleaving parts that cannot see each other would only multiply the states.

### LogfileLock

Every variable is one of the program's (per process), or the kernel's: `flock`
is the fcntl lock, `unlockq`, `relockq` and `ackq` are the pending signals
SIGRTMIN+0/+1, +2/+3 and +4, `level` is `locked`-level of `change_fd_lock`,
`incoming` and `outgoing` are `unmatched_sigrtmin1s_incoming` and `_outgoing`,
`watchers` is `logfile_watchers`. `pc` is where in `change_fd_lock` a process
is; `handler` says whether `handle_sigrtmin1` has interrupted it, and where in
it the process is. `view` is a ghost: whether the process knows the contents of
the file.

An action is what happens between two points at which another process or a
signal can interfere: `ChangeFdLock` (entry), `SetLock` and `AskHolder` (one
round of the loop), `AlarmFails`, `FlushLogfileWatchers`, `Return`; one action
per handler; `SelectReturns`, `Relock` and `RelockAborts` for the second half of
`handle_sigrtmin1`. Which signals get through is computed by `Unmasked` and
`SelectMask` from the masks that the code sets; of those the kernel delivers the
lowest first (`Lowest`), and equal signals in order.

Left out: the Windows branch; files other than the log (`change_fd_lock` with
`on_logfile` FALSE and no notification); a PID used again by another process.

### SaveLog

One step is what a process does under one lock; `LogfileLock` justifies that a
write section is one step (`WriterIsAlone`). Between two steps the others do
anything. The log is a sequence of lines; a line is an input (a kind of command,
a time line, the answer to a prompt, or `Q`) or a save line. Every line carries
the gamestate that reading up to it gives; for a save line that is its contents,
and a diff carries also the snapshot it was computed against. The gamestate is
the history of inputs itself: nothing can be told apart by the engine that the
history does not tell apart. `Expects` is the engine seen from the log: which
input it wants next. Four kinds of command are enough for that: a plain one
(`go`), one that leaves an occupation running so that the turn is not saved
(`long`), one that prompts (`ask`), and one that ends the game (`die`).

A process is a record: `wants` is the client's `current_followmode`, which a
restart keeps, `mode` the mode the server and the engine are in, `rc` is `expected_recovery_count`, `eog`
`end_of_gamestate_location`, `bsl` and `bsave` are `binary_save_location` and
`binary_save`, `cut` is the offset given to `log_recover_core`. Its `pc` follows
the code: `header`, `hint`, `load`, `scan` are the parts of `log_sync`, between
which it holds no more than a monitor lock; `ready` is the top of the main loop;
`ask` and `prompt` wait for the user; `time` and `stamp` are `log_time_line`
before and after it has found nothing to read; `save` and `follow` are
`log_neutral_turnstate` and `log_replay_save_line`; `over` and `disclose` are
the two halves of `done_noreturn`; `ended` is `watch_done_noreturn`, in which a
watcher whose game is over waits and reads nothing more; `menu` is the question in
`log_recover_core`, which may stay open for as long as the user likes.

`Crash` kills a process anywhere: in the middle of a line (`torn`), after a save
backup and before the pointer to it is updated, after the recovery count has
been raised and before the file is cut, between `Q` and the status.

Abstractions a reader should know:

* Lines are counted, not measured. In the program a process whose offset has
  been cut off may also read from the middle of a line; here it reads whole
  ones. That only matters for processes that are already behind a recovery.
* `entries` stands for the server's database. That it is asked and the status is
  read is one step.
* A game starts with its first save backup. A crash before that leaves a file
  that cannot be loaded; this is not modelled.
* Not modelled: replay mode (it has a module of its own), zero-time commands,
  helplessness, `interrupt` lines, and the "repair" choice of `impossible()`,
  which changes nothing.
* Bones, top-ten and menu lines are inputs like `answer`.

### SaveDiff

A save is a sequence of bytes with tags in it. `MwriteByte`, `Mtag` and
`MhintMonCoordinates` are the functions of those names; `Flush` is `mdiffflush`, which
turns what is pending (copies, edits, seeks) into commands, and chooses among
twelve of them. `Apply` is `mdiffapply`. A command is the list of places that its
prefixes and its name have in the most-recently-used list, its arguments, and
its edited bytes. The packing into bits is left out; the width of a packed
command is not, because it decides which command is chosen and how many widening
prefixes it gets. `ReaderInStep` is the invariant behind `DiffRoundTrip`: after
each flush a reader that has applied what is written stands where the encoder
says it does, with the same list and the same anchor for coordinates. `past` in `coder`
is a ghost: an edit was compared with what lies past the end of the old save.

### ReplayMode

`place` is the position in the log, `action` and the `moves` of the log the two
scales on which a user can name a target, `chks` the list of checkpoints.
`ReplayStep` is a round of the loop of `nh_play_game`: `replay_want_userinput`
stops, loads a checkpoint or goes on, and a line is played. A log is given by its
lines, the moves each takes, its save backups, the commands that take several
requests, and whether the game is over; `Logs` is a constant.

### Wire

Three bytes stand for a message: first character, last character, NUL. The
signal handler `send_server_cancel` runs between any two steps of the server and
inside a write that a signal interrupts. `sending`, `deferred` and `cansend` are
`currently_sending_message`, `send_server_cancel` and `can_send_msg`; `unread` is
the client library's `unread_messages`. `stale` and `nulLost` are ghosts: the log has
changed since the server looked; a write has stopped just before a NUL. The steps of the server, of the client library and of
the key loop of the terminal client are separate.

### DisplayStream

`shown` is what the engine last passed to each window procedure, `cache` what
the server believes the client to have, `pending` the changes of the next
message, `client` what the client library and the interface hold. A map is a
function from `Columns` to functions from `Rows` to `Glyphs`, so that the sending of whole columns, of single squares and of
runs can be told apart. Connections break at any point; a new server process
starts with empty caches, while the client keeps what it has.

### Reconnect

`stack` is the call stack of `send_receive_msg` in the client library: a call
asks the server, the server may ask back, and the callback may call again. A
frame says where it is (`pc`), which of the two jump buffers it has filled, and
how often it may still try. `exValid` and `pgValid` are `ex_jmp_buf_valid` and
`playgame_jmp_buf_valid`; `lost` and `confused` are ghosts for a jump to a
function that has returned, and for a server that was sent something else than it
waits for. `ServeCommand`, `ServeQuestion` and `ServerGoes` are the process at the
other end. `Unreachable` says whether a reconnection can fail.

### BurnTimers

Every level has a `queue` of timers and a list `glow` of lights; an object names
its level by `olev`. Burning objects are the ones that need both. The hero lights,
puts out, drops, splits and merges them, monsters take them to other levels, by
way of the list of migrating monsters, levels are left and come back to after any
time, and games are saved and restored. `astray` is a ghost: a timer has gone off on
another level than its object's `olev` names. A burn is a chain of timers: a lamp or
candle has "magic times" at which the player is told about it.

### ShopBill

`obj` are the objects, with `unpaid` and `no_charge`; `bill` is
`eshk->bill[0..billct-1]`. One kind of goods at one price, so that a quantity is
also an amount of money, and `books` is what left the shop's account for good:
it makes `NothingIsForgotten` an equation. Actions are the hero's (pick up, drop,
sell, split, use up, pay entry by entry, leave, come back), the thief's, and the
shopkeeper's (follow, grow angry, die).

### Worm

`monsters` is the map, `pos` the monster's own coordinates, `wsegs` the lists,
`wormno` with its two meanings: a slot, or for a monster on its way between levels
the number of segments to make again. A level is a small graph. Worms are made,
move, grow, are cut, shrink, teleport, change shape, die, migrate and arrive, and
levels are saved and restored. `cramped` records that a tail found no room when
it was relocated, which cuts it short; from then on `TailsAreSound` no longer
asks that every square of a worm is on the map.

Left out: the displacement of a worm by a blow (`mhurtle_step`), by a kick, by a
drawbridge, by swapping places with a pet or another monster, and the arrival of
a worm without segments.

### Equip

`want` is `u.utracked`, `spent` is `u.uoccupation_progress`, `worn` is `owornmask`.
`Heartbeat` is `equip_heartbeat`, one turn: `Consider` walks the order of slots,
`Try`, `Attempt` and `Perform` are what happens for one slot, with temporary
removals, delays and refusals. Commands and the menu ask (`Requested`, `Ask`), repeat
goes on with what was begun, and between turns monsters steal, destroy and curse
objects, and the player drops them. `spentOn` and `mixed` are ghosts for which
wish a slot's time was saved up. `carried` begins as one of the `Loadouts`.

Left out: helmet, boots, amulet and eyewear, which neither cover nor block anything
and behave as the shirt would without its covers; polymorph, embedded dragon
scales, slippery fingers, and what putting on an object does to the player.

### Occupations

A command that takes several turns leaves two traces, `tracked` (`u.utracked`) and
`progress` (`u.uoccupation_progress`), and `flags`; the client then sends "repeat",
which runs the whole command again. `moment` is where the main loop stands:
before a command (`input`), after it (`moved`), or between the "interrupt" that is
recorded and the look it is recorded for (`notice`). `whereat`, `quan`, `oeaten`,
`hexed`, `olocked`, `obroken` and `door` are what commands work on.

A command is a function from the game it finds (a record, `Game`) to the set of games
it can leave: `DoEat` with `TouchFood`, `EatOneTurn`, `EatTin`, `DoRead` with
`LearnBook` and `BeginBook`, `DoPick`, `DoForce`, `DoZap` for the spells that open and
lock, `DoSetTrap`, and `DoDrop`, `DoPickUp`, `DoMove`. `GiveCommand` and `Repeat` run
one, `HelplessTurn` is the turn of a player who cannot act, `RecordInterrupt` and
`Notice` a command that only looks, `InterruptCommand` and `ServerCancel` what their
names say, `Reload` saving and loading. Between commands and the next turn
(`EndTurn`) things are stolen, come back, rot, burn and are cursed, and the player is
moved, swallowed or paralysed. `ResetOccs` (`reset_occupations`) is part of each step
in which the code calls it.

A prompt that "repeat" leads to is answered as before, and the last command is kept
only if it can be repeated to effect. Left out: digging (two places and a hole), what
eating and reading do to the player, the blessing and the lenses that help with a
book, shops, greasy fingers other than on a tin, and the states in which a command is
refused before it does anything.

## Runs

| run | instance | shows |
|---|---|---|
| `LogfileLock_three` | 3 processes, no alarms | writers are alone, each question is answered, each unlock is matched by one relock, no deadlock |
| `LogfileLock_faults` | 2 processes, 5 attempts, 1 timeout, 1 departure, 1 crash | the inductive invariant, notification, and the refinement of `NotifiedLock` survive faults |
| `LogfileLock_live` | 2 processes, no faults, fair | every lock attempt and every handler ends |
| `SaveLog_races` | 2 processes that play or watch, all four commands, 1 command, 1 panic, 1 crash | playable log, true saves, agreement, safe recovery; who is up to date never loses track |
| `SaveLog_live` | 2 processes that play or watch, `go`/`ask`/`die`, 2 commands, no faults, fair | restarts of players end, and watchers get to the end of the log or of the game |
| `Session` | the six parts of `MCSession` | messages stay whole and in turn, cancels arrive (but for the two cases below), the picture is true, calls stay in sequence, diffs round-trip (while nothing is compared past the end of the old save), seeks end where they should, repeated commands keep to what they work on and end |
| `Engine` | the four parts of `MCEngine` | timers and lights (until one goes astray, see below), bills, tails and equipment stay in step with what they belong to |
| `SaveLog_twice` | 2 players, no faults | *violation*: an end is undone while it is shown, and recorded twice |
| `Reconnect_unreachable` | `Session` with `Unreachable` | *violation*: a jump buffer stays marked valid after its frame is gone |
| `ReplayMode_interrupt` | `Session` with an `interrupt` line in the log | *violation*: the end of the log is not recognised |
| `Equip_twice` | `Engine` | *violation*: one object in the offhand and in the quiver |
| `Wire_coalesced` | `Wire` with whole writes, `Coalesced`, fair | *violation*: a cancel stays in the client's buffer, the player is not woken |

Why the bounds are enough.

*Lock.* Without alarms the protocol is finite by itself: nobody asks again before
being answered, so three processes need no bound; three is the first number at
which a process can be asked by a second while it has already yielded to a first.
With alarms a process may ask again and again; five attempts let both processes
fail and try again, with one timeout, departure and crash each.

*Save log.* `MaxCommands` bounds the commands in the log at any one time (a log
that was cut can grow again): a command on top of a save backup is where a diff, a
recovery and a stale reader can meet, and a second turn, in `SaveLog_live`, is under
way on top of one that is saved. A panic
and a crash together give a recovery by one process while the other is anywhere.

*Session.* A write stops after the first byte or just before the NUL (`ShortWrites`
{1, 2}), and what is received is as much as a read finds (`Coalesced`); two cancels can
be on the way, so that one is merged with another. `MaxFaults` 6 with three
retries per call lets a connection break in a command, in the question it leads to
and in the call inside that, and fail for good. `SaveDiff` is scaled down: widths
of arguments and `UnitBits` 2 (8 in the code) are chosen so that four bytes of new
save reach every command and every widening, and `SaveSizeMonst` 2 (85 in the
code) so that the distance of one monster fits in. `Slack` is what the old
buffer holds past its end: 9, which no byte is a step away from, and 0, which some are. `CheckpointFreq` 2 and `Far` 2 (200 in the
code) let five lines hold several checkpoints and seeks that jump. `Occupations`
begins with one of nine `Outfits`, each about one rule (a stack that is eaten piece
by piece, two boxes, a lock that key, blade and spell all work on); two turns for
a meal, a book or a mine and two tries at a lock (50 in the code) give an
occupation a first, a middle and a last turn, and one trouble, which a stolen
object may outlast by coming back, can fall between any two of them.

*Engine.* Two things that burn are one that is split off, merged or overtaken;
fuel 2 and one magic time make a chain of two timers; four moves outlast them. With
three levels a monster can be on its way to one while the hero goes to another. Once
a timer has gone astray the game is not followed further (`MCUntilAstray`, a
constraint): orphaned timers and lights would pile up without bound. The
shop has one stack of two, a bill of two entries (`BILLSZ` is 200), so that a split
fills it. Two slots, lists of four segments and a corridor of four squares give
two worms that meet, are cut and run out of room. The nine `Loadouts` of
`MCEngine` are small and each about one rule: layers, two objects for one slot, two
hands, what gloves and rings share with the weapon, two weapons, an artifact that
refuses; two wishes at a time and one theft, loss or curse per behaviour reach
every branch of a turn. Worms are interchangeable, and so are the levels on which the
hero does not start (`MCSymmetry`, used with invariants and action properties only).

`CHECK_DEADLOCK FALSE` stands where processes may all have died, all users may have
stopped with the bound reached, or a part of a composed instance has come to its
end (the game is over, the bounds on its inputs are used up).

Fairness. Processes are scheduled, so a step that stays possible is taken (weak
fairness). For the lock that is not enough: a process between two attempts of
another to lock the file has the lock only for a moment, so its step is possible
again and again rather than always. `LogfileLock` assumes strong fairness for
taking a lock and for the delivery of an answer: the file is free, or the
process schedulable with the signal pending, infinitely often, and the kernel
does not let the same process lose every time. It also assumes that code with a
lock releases it, which every caller of `change_fd_lock` does without waiting
for a user. Nobody has to ask for a lock, leave or die. In `SaveLog` the
process's own steps are weakly fair; of the user's only that a watcher who is
asked whether to reload answers. Commands, answers, quitting, opening the game
and closing the end screens are never assumed. In `Wire` the steps of the server
and of the client are weakly fair, the player's keys and the signals are not; in
`ReplayMode` only the loop of a seek is. `ChangesEnd` of `Equip` is liveness as an
invariant: a change that nobody disturbs is bounded in turns.

## Findings

Five properties that a document, a comment or a promise of the code states do not
hold; each is a run with `expect: violation`, and the entry under `findings`
quotes the promise.

1. *Two ends* (`clientcmd.c` 325): "done for the engine, not for the database"
   is taken for a crash, but also holds while the end is shown. With one process
   (`Pid = {p}`, two crashes) `OneGameOver` holds.
2. *Jump buffer* (`netcmd.c` 821): after an error reported by the server, a failed
   reconnection leaves `playgame_jmp_buf_valid` set with the frame gone.
3. *Interrupt lines* (`log.c` 2550): such a line is counted beforehand and then
   not counted while it is replayed, so the end of the log is not where it is
   expected.
4. *Two slots* (`do_wear.c` 873): the fast swap puts into the offhand what is still
   in the quiver.
5. *Cancel in the buffer* (`windows.c` 1513): a deferred cancel that is received in one
   piece with the message before it is not seen at the prompt. `CancelsArrive`
   names this place (`MessageInBuffer`) and a missing NUL (see below) as the only two
   in which a cancel is held up.

Other constants, or the stronger property that a promise of the code would be, show
further places where the code parts from it, or depends on something outside the model.
The runs check what does hold there; these have none of their own:

| module, constants | what fails | where |
|---|---|---|
| `LogfileLock`, `FairSpec`, 2 processes, alarms, 5 attempts, 1 departure | `LockAttemptEnds`: `handle_sigrtmin1` restores `alarmed` and throws away the ring that came meanwhile | `files.c` 691, `doc/saves.txt` 393-395 |
| `LogfileLock`, 1 departure | `AnswerIsComing`: closing the game ignores the signals before it unlocks, so a pending request is discarded; the asker's alarm saves it | `files.c` 728, 790-792 |
| `SaveLog`, 2 players, `go`/`ask`, 2 commands, 1 panic | `NoDesync`: only writers, and readers that start afresh, compare the recovery count | `log.c` 1512, `doc/saves.txt` 337-343 |
| `SaveLog`, `FairSpec`, 1 player, `die`, 1 crash | `RestartsEnd`: a log that ends in `Q` under status `save` is neither played on nor undone; whoever loads it starts over for ever | `end.c` 979 |
| `SaveDiff`, as in `Session` | `NoDiffIsCorrupted`: edits behind the end of the old save are compared with what its buffer holds there, and a diff may be written that is refused on reading. `DiffRoundTrip` asks that nothing was compared past the end (`past`), or that the diff can be read | `memfile.c` 632, 642, 761 |
| `BurnTimers`, as in `Engine` | `LightsAreFound`: the things of a monster in limbo keep the `olev` of the level it left, while their timers and lights follow the hero; a timer that goes off looks for the light on the wrong level. Until then `OneTimerOneLight` and `FuelBurnsByTheClock` hold, and say where timers and lights are (`TimersAt`) | `dog.c` 304, `light.c` 113 |
| `Wire`, as in `Session` | `EveryMessageHasItsNul`: a write that stops just before the NUL is taken for complete. `MessagesStayWhole` and `NothingOutOfTurn` hold all the same: no message is inside another, and until then (`nulLost`) each has its NUL | `clientmain.c` 122, 100 |
| `ShopBill`, `ShkMayLeave = TRUE` | the bill is left behind when the shopkeeper is moved off the level | `shk.c` 2355 |
| `DisplayStream`, `FloorListIsTrue` | an empty list of the floor is not sent to a client that still shows another server process's | `winprocs.c` 571, 753; `clientmain.c` 267 |
| `Reconnect`, faults or `Unreachable` | `ErrorsReturn`, `ActiveUntilDisconnect`, `CreatedOnce`: a game created twice by a retry; the library believes itself connected | `connection.c` 542-543 |
| `Worm`, `ZeroColumn = {1}` | `TailsAreSound`: `toss_wsegs` tests `curr->wx` for "on the map" | `worm.c` |
| `Equip`, `SwapsHelp` | the panic "Swapping items did not help with desire" is reached from the menu with an empty hand, or by `x` with an artifact in the offhand that refuses | `do_wear.c` 893-896 |

Seen while modelling, and not expressed as properties:

* The comment at `files.c` 808-813 has higher and lower PIDs the wrong way round
  with respect to the signals used at 894-895.
* The server resets its buffer and caches on `\033` (`clientmain.c` 260), which no client
  sends.
* `test_restore_connection` passes 1 to `select` as the number of descriptors.
* `in_connect_disconnect` stays TRUE when the authentication breaks.
* `replay_goal_reached` unlinks checkpoints that are not temporary; the
  `by_interrupt` argument of `replay_add_desync` is never TRUE.
* `bill_dummy_object` leaves `no_charge` at 1; `sellobj` takes the truth value
  of a comparison from `robbed`.
* Asking to empty the offhand while the hand is empty prints a message and leaves
  the offhand as it is (`do_wear.c` 881-886).
* `doforce` goes on with whatever lock is tracked (`lock.c` 523): after an interrupted
  attempt at a door it wastes a turn and forgets the attempt. `pick_lock` called from
  looting goes on with the box that was begun, whichever was chosen (325-352), and
  a box that was unlocked meanwhile is still forced.
* `study_book` sets the progress before it asks whether to go on (`spell.c` 879-916):
  after a "no" the book that is tracked has the other one's turns left.
* `touchfood` can destroy the food it is given, and `doeat` uses what `u.utracked` then
  points to (`eat.c` 1985-2010). The model takes it for the end of the meal.
* A debug command that is refused leaves `turnstate.continue_message` off for the next
  "repeat" (`cmd.c` 1683-1724).
* When a suit under a cloak turns out to be cursed, the cloak that was taken off
  for it is not put on again.

## Proofs

`LogfileLock_proofs`, for every finite or infinite set of integer PIDs and every
value of the bounds:

* `TypeCorrect`: `Spec => []TypeOK`.
* `Invariance`: `Spec => []IInv`.
* `WritersAreAlone`: `Spec => []WriterIsAlone`.
* `NobodyStale`: `Spec => []NobodyIsStale`.
* `Implements`: `Spec => Abstract!Spec`, the refinement of `NotifiedLock`, with
  `mode` read off `level` and `handler` (`AbsMode`).
* `AnswersCome` and `UnlocksMatch`: `Spec => []AnswerIsComing` and
  `Spec => []EveryUnlockIsMatched`, under `Staying`: no alarms, timeouts, departures or
  crashes. That is the setting of the run `LogfileLock_three`; with any of the four
  the properties fail (see the table above), and the protocol falls back on its alarms.

The argument. `WriterIsAlone` is not inductive: that a new writer finds nobody
else depends on the kernel's locks. `IInv` adds that the lock level a process
believes in is backed by a lock in the kernel unless it is in the handler
(`LevelIsHeld`), that the kernel grants nothing beside a write lock
(`KernelExcludes`), that the handler is entered only from a monitor lock and with
the lock given up (`HandlerFromMonitor`), that a process with more than a monitor
lock is not waiting for anybody (`HoldersDoNotWait`; this is what makes the masks
right), and that processes without the game open have neither locks nor pending
requests (`OutsidersKnowNothing`). Each action is shown to preserve each part in
a step of its own. A timeout can make the counters wrong, and the proof does not
use them: safety rests on the kernel's locks alone, the counters only serve
liveness. `AnswersCome` and `UnlocksMatch` are about those counters. They are sums over
all the other processes, so the two properties count pairs (who asked whom, and the
how-manieth time), and every step adds one pair, takes one away, or moves one from
the pending to the answered.

`Connection_proofs`, about `Reconnect`, for every value of the bounds:

* `InSequence`: `RecSpec => []NothingOutOfSequence`, whether or not the server can be
  reached again.
* `JumpBufIsLive`: `RecSpec => []PlaygameJmpBufIsLive`, assuming
  `Unreachable = FALSE`. That is exactly the assumption whose absence the run
  `Reconnect_unreachable` refutes.

The argument. What a server process may be sent depends on where the innermost
call is, and that call on how deep the nesting is. `SequenceInv` says of every frame
below the innermost that it is inside a callback and of what kind it can be
(`StackIsGood`); that the innermost frame and the two ends of the connection agree
whose turn it is (`TurnsAgree`); that with no call open nothing is on its way
(`IdleIsClean`); and that a message on its way is one the server waits for
(`ServerIsServed`). A broken connection replaces the server and empties both
directions, and the frame that notices it either sends its own command again or is
jumped over. `JumpInv` adds that the mark is only set while the outermost frame has
filled the buffer: all ways out of that frame but the one in the finding take the mark
away.

`SaveLog_proofs`, for any set of processes, any commands, and any number of
panics, crashes and recoveries:

* `TypeCorrect`, `Playable`, `TrueSaves`, `AllAgree`, `SafeCuts` and `NeverGetsLost`:
  `Spec => []Inv` for `TypeOK` and the five safety invariants `LogIsPlayable`,
  `SavesAreTrue`, `Agreement`, `CutsAreSafe`, `NeverLost`.
* `Invariance`: `Spec => []IInv`, from which they follow. TLC has checked `IInv` on
  instances with two processes that play or watch.

The argument is about the recovery count. As long as the count in the file is the
one a process expects, the log has only grown since the process looked at it
(`LogGrew`), so what it knew of the lines it has read still holds; a process with an
older count claims nothing. `Knows` lists what a process may rely on at each place in the
code: between the parts of `log_sync`, while it waits for the user, before and after the
time line, while it shows the end. `LogIsSound` says that the lines are what replaying
the ones before them asks for. Each action is then shown to keep the log sound, given
what the process that takes it knows, and to keep what the others know.

`Connection_proofs`, about `Wire`, for any number of cancels, messages and departures:

* `MessagesStayWholeAlways` and `NothingComesOutOfTurn`: `WireSpec => []Inv` for
  `MessagesStayWhole` and `NothingOutOfTurn`, from `WireInvariance`.

They hold wherever in a message a write may stop (`ShortWrites` is any set), and assume
nothing. A message whose NUL was never written runs into the next one, and what is on its
way is then no sequence of messages. The argument is therefore about bytes: the two
halves of a message stand side by side, and a NUL behind a message (`Paired`); as long
as no write has stopped just before the NUL each message has its own (`Parted`); and by
whose turn it is (`Turn`) only certain kinds of message can be on their way, a message
that hands the turn over being the last but for cancels (`AsksLast`). What the client
parses, whole messages or two that have run together, is then never one that it did not ask
for.

`DisplayStream_proofs`, for maps of every size, all sets of glyphs, statuses and items, and
any number of calls and broken connections:

* `PictureIsAlwaysTrue`: `DispSpec => []PictureIsTrue`, from `DispInvariance`. The
  only assumptions (`DisplayAssumption`) are that the engine never draws an entirely blank
  screen, that a player has a name, and that lists of items are finite.

The argument follows one picture: the one the client will have once everything on its
way has been applied (`Coming`). The caches agree with it in every part that the engine
has drawn since the game was loaded (`CacheFollows`); in a part not drawn yet the
cache is empty, and the first change is coded so that it does not matter what the client had.
Coding a column and decoding it again are shown to cancel out (`CodedColumn`, and the
fold over a list of changes by looking for the least place where two folds differ).

`Worm_proofs`, for levels of every size and shape, any number of monsters and slots,
and worms of any length:

* `TailsStaySound`: `WormSpec => []TailsAreSound`, from `WormInvariance`.

They assume `ZeroColumn = {}`, as the run `Engine` does: nobody stands at x = 0.
`toss_wsegs` relies on it to know a segment that was never placed, while `isok` lets
x be 0; what happens otherwise is in the table above. The argument: an operation
touches the worms of one monster, or of the two when one is cut. If it leaves no entry
in the map for them but at their new bodies, and gives no list to two, it disturbs
nobody else (`WormsChange`). What it takes off the map is theirs because
no list passes twice over a square as long as no tail was cut short (`Straight`), and
`TailsAreSound` would not be inductive without it: `shrink_worm` would clear a square
on which the worm still lies.

`ReplayMode_proofs`, for every log, every choice of save backups in it, and any
distances between checkpoints and between the seeks of the user:

* `SeeksAreRight` and `EndIsAlwaysRecognised`: `ReplaySpec => []Inv` for `SeekIsRight`
  and `EndIsRecognised`, from `ReplayInvariance`.

They assume `NoInterrupts`: no line of the log records an "interrupt". With one
`EndIsRecognised` is false (the run `ReplayMode_interrupt`); TLC checks `SeekIsRight`
and `EndIsRecognised` on the logs of `Session`, which have none either. The
argument: without such lines the number of an action is its place in the log, the
checkpoints are in the order of their places, and the replay is between two of them
(`Between`). A seek by actions never passes its target. A seek by moves can, as a command
takes more or less than a move; it then goes back to the checkpoint before and tries
the next smaller or larger move. `Forwards` and `Backwards` say why that is the right
one: no line of the log stands between the move that was asked for and the
one that is tried. `Passed` says why it ends: the checkpoint it goes back to lies
before the place.

`Occupations_proofs`, for any goods, places and outfits, any limits on the turns of
an occupation, and any number of turns and troubles:

* `TracesCanBeTrusted`: `OccupationsSpec => []OccupationsAreSound`.
* `LooksAreHarmless`, `RepeatIsFaithful`, `OccupationsEnd`: the three action properties
  `NoticesAreHarmless`, `RepeatKeepsTarget`, `AttemptsEnd`.
* `OccupationsInvariance`: `OccupationsSpec => []OccInv`, from which all four follow.

The argument. `OccupationsAreSound` is not inductive, and says nothing of the command
that "repeat" repeats. `OccInv` has four parts. `Sound` is what every game is:
types, no traces of objects that are gone, a last command that can go on, and enough
objects for stacks to be split. The last is a count: the stacks of a kind come to no more
units than there are objects of the kind (`Enough`); a split moves units, and joining
or using up removes some, so that the object that `SparePart` chooses exists.
`Tallied` bounds the progress of each occupation, `MealIsOne` says that a meal under way
is one piece that has been bitten into, and `Working` ties a command under way to its trace:
its verb and argument are those that "repeat" finds again. Each command makes of a
game that is `Ready` a `Result`; each step that is not a command only loses traces
(`Passes`), and a command under way that loses its trace, or is interrupted, is not gone
on with. `GoesOn` then says of each command that "repeat" leads it back to what it was
working on, and brings its end nearer.

`OccupationsAssumption` says what the proof needs of the constants: names of objects,
places and of nothing are different, meals and tins are not the same things and are
finitely many, and an outfit leaves an object unused for each one that splits off a
stack. The code makes new objects whenever it likes; the assumption keeps the finite
supply of the model from running out, and TLC evaluates it on the instance.

`ShopBill_proofs`, for any stock, any size of the bill and any sums of money:

* `BillCanBeTrusted`: `ShopSpec => []BillMatchesObjects`, from `ShopInvariance`.

They assume `~ShkMayLeave`, as the run `Engine` does: the shopkeeper does not leave a
shop in which something is owed (see the table above for what happens otherwise). The
operations are functions from one state of objects, bill and books to another, and a
command applies several in a row, so the proof is about such states: in a `Good` one
every object and every entry match, no object has two entries, and the bill has room.
An operation changes one object or two, and their entries (`Local`), and leaves the
others in step (`GoodElsewhere`); it has only to be shown right for those. Numbers that
`next_ident` hands out are in nobody's use (`Fresh`), through all the operations of a
command. That a split or a partial payment finds the entry at all needs `Served`: there
is a bill only while the shopkeeper is in his shop and does business, which is what the
guards of `addtobill` and `u_left_shop` see to. `dopay` goes through the bill three
times; how far it has come is not needed, only that every turn keeps the state good
(`PayStep`, by the least turn that does not).

Only model-checked:

* `DiffRoundTrip` and `ReaderInStep` of `SaveDiff`: the packing is a fold over the
  bytes of two saves, and what a fold computes for every input needs induction over data.
* `OneTimerOneLight`, `FuelBurnsByTheClock` and `RestoreKeepsOrder` of `BurnTimers`
  (folds over the queue), `NothingIsForgotten` of `ShopBill` (sums over the shelf
  and the bill), `EquipIsSound`, `FinishedMeansDone`,
  `NothingIsForced` and `ChangesEnd` of `Equip` (`equip_heartbeat` is a recursive
  function over the slots).
* What needs fairness, which the prover does not reach: `LockAttemptEnds`,
  `HandlerReturns`, `RestartsEnd`, `FollowersCatchUp`, `CancelsArrive`, `SeeksEnd`.

## Not modelled

Most of the 220,000 lines are the rules of the game: combat, spells, traps, the
behaviour of monsters, the making of levels. They are sequential functions over a very
large state, and nothing but the code says what they should do; a model of them would
repeat them. The modules stand for nearly 13,000 lines, those in which processes,
messages or redundant structures meet. Of the rest:

* serialisation of the gamestate field by field, options, display, tiles: tables and
  lists;
* vendored code (JSON, lz4) and the terminal library;
* database, authentication and configuration of the server: thin layers over
  PostgreSQL and files;
* what each module leaves out is said in its section above and in the notes of the
  components in `PROJECT.json`.

## Plan

1. `Equip_proofs` (`EquipIsSound`; what a heartbeat does up to a line of the order, by
   looking for the least line at which it would fail).
2. `NothingIsForgotten` in `ShopBill_proofs` (it needs a theory of sums over sets)
   and `BurnTimers_proofs` (`OneTimerOneLight`).
3. `GameHistory`: what the log promises (a history that is extended by legal
   inputs, or cut back with everyone told), with `SaveLog` refining it.
4. The rest of the occupations (digging, running and travelling), and with them that
   replaying a log repeats what was played.
5. Engaged pairs: ball and chain, the holder and the held (`u.ustuck`), steed and
   rider, the vault guard and his corridor, regions and who is inside.
