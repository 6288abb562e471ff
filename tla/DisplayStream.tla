---------------------------- MODULE DisplayStream ----------------------------
(***************************************************************************)
(* The picture of the game a network client shows, and the caches that     *)
(* keep the server from sending what the client already has                *)
(* (nethack_server/src/winprocs.c, libnethack_client/src/netcmd.c): map,   *)
(* status line, inventory and the list of what lies on the floor.  The     *)
(* engine hands each to a window procedure; the server keeps the changes   *)
(* until its next message, and the client applies them to what it has.     *)
(* Connections break, the client reconnects to a new server process, and   *)
(* games are left and others begun in the same process.                    *)
(***************************************************************************)
EXTENDS Naturals, Sequences, FiniteSets

CONSTANTS
    Columns, Rows,  \* COLNO and ROWNO, as sets of numbers
    Screens,        \* maps: functions from columns to columns of glyphs
    Statuses,       \* status lines: [plname, hp]
    ItemLists,      \* lists of objects, as sets of them
    Glyphs, Blank,  \* nh_dbuf_entry; the one that is zeroed
    MaxDraws        \* bound on what is drawn between two questions

VARIABLES
    shown,      \* what the engine last passed to each window procedure
    called,     \* the procedures it has called since the game was loaded
    inGame,     \* is the server process inside play_game?
    cache,      \* prev_dbuf, player_info, prev_invent, prev_floor_icount
    pending,    \* display_data, and jinvent_items and jfloor_items beside it
    inFlight,   \* the message sent and not received: a sequence of entries
    client,     \* the client library's dbuf and player, and the two lists
    cst         \* what the client is doing

dispVars == <<shown, called, inGame, cache, pending, inFlight, client, cst>>

Absent  == <<>>         \* a member left out of a message, a NULL pointer
Procs   == {"update_screen", "update_status", "list_invent", "list_floor"}

BlankColumn == [y \in Rows |-> Blank]
BlankScreen == [x \in Columns |-> BlankColumn]

(* The map shows at least the hero, and every character has a name         *)
(* (nh_create_game refuses the others).                                    *)
ASSUME DisplayAssumption ==
    /\ Screens \subseteq [Columns -> [Rows -> Glyphs]] \ {BlankScreen}
    /\ Statuses \subseteq [plname : STRING \ {""}, hp : Nat]
    /\ \A items \in ItemLists : IsFiniteSet(items)

NoStatus == [plname |-> "", hp |-> 0]

(* reset_cached_displaydata: nothing waits to be sent, and nothing is      *)
(* known of what the client has.                                           *)
NoCache   == [dbuf |-> BlankScreen, player |-> NoStatus, invent |-> Absent, floor |-> 0]
NoPending == [list |-> <<>>, invent |-> Absent, floor |-> Absent]

(* The same without forgetting what was sent before (a mutant).            *)
ResetPendingOnly == UNCHANGED cache /\ pending' = NoPending

ResetCachedDisplaydata == cache' = NoCache /\ pending' = NoPending

-----------------------------------------------------------------------------
(* The window procedures of the server.                                    *)

DisplayEntry(kind, value) == [kind |-> kind, value |-> value]

AddDisplayData(kind, value) ==
    pending' = [pending EXCEPT !.list = Append(@, DisplayEntry(kind, value))]

(* One column of srv_update_screen: the number 0 when it is blank, 1 when  *)
(* it has not changed, otherwise the same for each of its glyphs.          *)
CodedColumn(new, old) ==
    IF new = BlankColumn THEN <<"blank">>
    ELSE IF new = old THEN <<"same">>
    ELSE <<"glyphs", [y \in DOMAIN new |-> IF new[y] = Blank THEN <<"blank">>
                                           ELSE IF new[y] = old[y] THEN <<"same">>
                                           ELSE <<"glyph", new[y]>>]>>

SrvUpdateScreen(dbuf) ==
    IF dbuf = cache.dbuf THEN UNCHANGED <<cache, pending>>
    ELSE /\ AddDisplayData("update_screen",
              IF dbuf = BlankScreen THEN <<"blank">>
              ELSE <<"columns", [x \in DOMAIN dbuf |->
                                   CodedColumn(dbuf[x], cache.dbuf[x])]>>)
         /\ cache' = [cache EXCEPT !.dbuf = dbuf]

Changed(new, old, all) == IF all \/ new # old THEN <<new>> ELSE Absent

(* srv_update_status with the test for a new player left out (a mutant).   *)
SrvUpdateStatusChanges(pi) ==
    IF pi = cache.player THEN UNCHANGED <<cache, pending>>
    ELSE /\ AddDisplayData("update_status",
              [plname |-> Absent, hp |-> Changed(pi.hp, cache.player.hp, FALSE)])
         /\ cache' = [cache EXCEPT !.player = pi]

(* Only the fields that changed, or all of them when no player is known.   *)
SrvUpdateStatus(pi) ==
    IF pi = cache.player THEN UNCHANGED <<cache, pending>>
    ELSE LET all == cache.player.plname = "" IN
         /\ AddDisplayData("update_status",
              [plname |-> IF all THEN <<pi.plname>> ELSE Absent,
               hp     |-> Changed(pi.hp, cache.player.hp, all)])
         /\ cache' = [cache EXCEPT !.player = pi]

SrvListInvent(items) ==
    IF <<items>> = cache.invent THEN UNCHANGED <<cache, pending>>
    ELSE /\ cache'   = [cache EXCEPT !.invent = <<items>>]
         /\ pending' = [pending EXCEPT !.invent = <<items>>]

(* Of the floor only the last list's number of objects is kept, and only   *)
(* an empty list after an empty list is not sent again.                    *)
SrvListFloor(items) ==
    IF items = {} /\ cache.floor = 0 THEN UNCHANGED <<cache, pending>>
    ELSE /\ cache'   = [cache EXCEPT !.floor = Cardinality(items)]
         /\ pending' = [pending EXCEPT !.floor = <<items>>]

(* get_display_data: the lists go at the end of what waits.                *)
DisplayData ==
    pending.list
      \o (IF pending.floor  # Absent THEN <<DisplayEntry("list_floor", pending.floor[1])>> ELSE <<>>)
      \o (IF pending.invent # Absent THEN <<DisplayEntry("list_invent", pending.invent[1])>> ELSE <<>>)

(* client_msg_core, when it is the server's turn: everything goes out with *)
(* the message.                                                            *)
ClientMsgCore(after) ==
    /\ inFlight = <<>> /\ cst = "waiting"
    /\ inFlight' = <<DisplayEntry(after, DisplayData)>>
    /\ pending' = NoPending

-----------------------------------------------------------------------------
(* The engine, between two questions it asks.                              *)

Calls(proc) ==
    /\ inGame /\ cst = "waiting" /\ inFlight = <<>>
    /\ Len(pending.list) < MaxDraws
    /\ called' = called \cup {proc}
    /\ UNCHANGED <<inGame, inFlight, client, cst>>

FlushScreen == \E s \in Screens :
    /\ Calls("update_screen") /\ SrvUpdateScreen(s)
    /\ shown' = [shown EXCEPT !.dbuf = s]

Bot == \E pi \in Statuses :
    /\ pi.plname = shown.player.plname \/ "update_status" \notin called
    /\ Calls("update_status") /\ SrvUpdateStatus(pi)
    /\ shown' = [shown EXCEPT !.player = pi]

UpdateInventory == \E items \in ItemLists :
    /\ Calls("list_invent") /\ SrvListInvent(items)
    /\ shown' = [shown EXCEPT !.invent = items]

UpdateLocation == \E items \in ItemLists :
    /\ Calls("list_floor") /\ SrvListFloor(items)
    /\ shown' = [shown EXCEPT !.floor = items]

(* client_request, from a window procedure that wants an answer.  The      *)
(* engine has drawn everything before its first one (nh_play_game,         *)
(* post_init_tasks).                                                       *)
ClientRequest ==
    /\ inGame /\ called = Procs
    /\ ClientMsgCore("request")
    /\ UNCHANGED <<shown, called, inGame, cache, client, cst>>

(* The game is left or ends; play_game is answered.                        *)
PlayGameReturns ==
    /\ inGame
    /\ ClientMsgCore("play_game")
    /\ inGame' = FALSE
    /\ UNCHANGED <<shown, called, cache, client, cst>>

(* ccmd_play_game and ccmd_create_game, the second with no game to show.   *)
CcmdPlayGame ==
    /\ ~inGame /\ cst = "waiting" /\ inFlight = <<>>
    /\ ResetCachedDisplaydata
    /\ inGame' = TRUE /\ called' = {}
    /\ UNCHANGED <<shown, inFlight, client, cst>>

-----------------------------------------------------------------------------
(* The client.                                                             *)

AppliedColumn(code, old) ==
    CASE code[1] = "blank" -> BlankColumn
      [] code[1] = "same"  -> old
      [] OTHER -> [y \in DOMAIN old |-> CASE code[2][y][1] = "blank" -> Blank
                                          [] code[2][y][1] = "same"  -> old[y]
                                          [] OTHER -> code[2][y][2]]

CmdUpdateScreen(picture, v) ==
    [picture EXCEPT !.dbuf =
       IF v[1] = "blank" THEN BlankScreen
       ELSE [x \in DOMAIN @ |-> AppliedColumn(v[2][x], @[x])]]

Replaced(old, member) == IF member = Absent THEN old ELSE member[1]

CmdUpdateStatus(picture, v) ==
    [picture EXCEPT !.player = [plname |-> Replaced(@.plname, v.plname),
                                hp     |-> Replaced(@.hp, v.hp)]]

NetCmd(picture, entry) ==
    CASE entry.kind = "update_screen" -> CmdUpdateScreen(picture, entry.value)
      [] entry.kind = "update_status" -> CmdUpdateStatus(picture, entry.value)
      [] entry.kind = "list_invent"   -> [picture EXCEPT !.invent = entry.value]
      [] entry.kind = "list_floor"    -> [picture EXCEPT !.floor = entry.value]

HandleDisplayList(picture, list) ==
    LET seen[i \in 0..Len(list)] ==
            IF i = 0 THEN picture ELSE NetCmd(seen[i - 1], list[i])
    IN  seen[Len(list)]

(* send_receive_msg: what is shown comes with the question.                *)
ClientReceive ==
    /\ inFlight # <<>>
    /\ client' = HandleDisplayList(client, inFlight[1].value)
    /\ cst' = IF inFlight[1].kind = "request" THEN "prompting" ELSE "menu"
    /\ inFlight' = <<>>
    /\ UNCHANGED <<shown, called, inGame, cache, pending>>

ClientAnswers ==
    /\ cst = "prompting" /\ cst' = "waiting"
    /\ UNCHANGED <<shown, called, inGame, cache, pending, inFlight, client>>

(* From the main menu of the client another game is chosen.  Leaving a     *)
(* game frees the two lists (cleanup_sidebar); dbuf and player stay.       *)
ClientPlays ==
    /\ cst = "menu" /\ cst' = "waiting"
    /\ client' = [client EXCEPT !.invent = {}, !.floor = {}]
    /\ UNCHANGED <<shown, called, inGame, cache, pending, inFlight>>

(* The connection breaks.  The server process ends with its caches, a      *)
(* message on the way is lost, and restart_connection makes the client's   *)
(* play_game start again (RESTART_PLAY), its windows still open.           *)
Reconnect ==
    /\ cst # "menu"
    /\ inFlight' = <<>> /\ cst' = "waiting"
    /\ inGame' = FALSE /\ called' = {}
    /\ cache' = NoCache /\ pending' = NoPending
    /\ UNCHANGED <<shown, client>>

-----------------------------------------------------------------------------
DispInit ==
    /\ shown  = [dbuf |-> BlankScreen, player |-> NoStatus, invent |-> {}, floor |-> {}]
    /\ client = shown
    /\ called = {} /\ inGame = FALSE
    /\ cache = NoCache /\ pending = NoPending
    /\ inFlight = <<>> /\ cst = "waiting"

DispNext ==
    \/ FlushScreen \/ Bot \/ UpdateInventory \/ UpdateLocation
    \/ ClientRequest \/ PlayGameReturns \/ CcmdPlayGame
    \/ ClientReceive \/ ClientAnswers \/ ClientPlays \/ Reconnect

DispSpec == DispInit /\ [][DispNext]_dispVars

-----------------------------------------------------------------------------
(* Whenever the player is asked something, the map, the status line and    *)
(* the inventory on the client's screen are the engine's: through changes  *)
(* of changes, through a reconnection to a server that knows nothing of    *)
(* what the client has, and into another game.                             *)
PictureIsTrue ==
    cst = "prompting" =>
        /\ client.dbuf = shown.dbuf
        /\ client.player = shown.player
        /\ client.invent = shown.invent

(* The same for the list of what is on the floor where the hero stands     *)
(* (clientmain.c:267: "reset the cached display data to make sure all      *)
(* display state is re-sent").                                             *)
FloorListIsTrue == cst = "prompting" => client.floor = shown.floor
=============================================================================
