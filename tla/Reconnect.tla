----------------------------- MODULE Reconnect -----------------------------
(***************************************************************************)
(* How the client library survives a broken connection                     *)
(* (libnethack_client/src/connection.c and the API functions around it).   *)
(*                                                                         *)
(* A call of the API sends a command and waits for its reply; meanwhile    *)
(* the server may ask the player something, and from there the client may  *)
(* call the API again.  When the connection breaks, the library opens a    *)
(* new one, to a new server process, and either sends its command again    *)
(* or, in a game, jumps back to the call of play_game, which returns       *)
(* RESTART_PLAY.  When it cannot, it jumps back to the outermost call,     *)
(* which returns an error.  Both jumps are longjmps, to buffers that are   *)
(* only good while the function that filled them has not returned.         *)
(***************************************************************************)
EXTENDS Naturals, SequencesExt, FiniteSetsExt

CONSTANTS
    MaxFaults,      \* bound: connections that break, time out or fail to open
    MaxValid,       \* bound on ex_jmp_buf_valid
    MaxCalls,       \* bound: games created
    Unreachable     \* whether connect_server may fail after the first time

ASSUME ReconnectAssumption ==
    MaxFaults \in Nat /\ MaxValid \in Nat /\ MaxCalls \in Nat /\ Unreachable \in BOOLEAN

VARIABLES
    stack,      \* the calls of send_receive_msg that have not returned
    exValid,    \* ex_jmp_buf_valid: a count
    pgValid,    \* playgame_jmp_buf_valid
    connected,  \* sockfd # -1
    netActive,  \* net_active
    connErr,    \* conn_err
    srv,        \* the server process at the other end
    toServer,   \* the message on its way to it: none or one
    toClient,   \* and from it
    lost,       \* a longjmp went to a function that had returned
    confused,   \* the server was sent what it did not expect
    asked,      \* games the player has asked for
    created,    \* games that have been created
    faults

recVars == <<stack, exValid, pgValid, connected, netActive, connErr,
             srv, toServer, toClient, lost, confused, asked, created, faults>>

linkVars == <<srv, toServer, toClient>>
gameVars == <<asked, created>>

\* From the menus of the client, and from inside a question of the server.
MenuCalls   == {"create_game", "play_game"}
NestedCalls == {"exit_game", "get_commands"}

\* ex, pg: the function has filled ex_jmp_buf, playgame_jmp_buf, and nobody has since.
Call(name, outermost) ==
    [name |-> name, key |-> name, retry |-> 3, pc |-> "send", ex |-> outermost, pg |-> FALSE]

Current   == stack[Len(stack)]
Running(pc) == stack # <<>> /\ Current.pc = pc
OnStack(p(_)) == \E k \in DOMAIN stack : p(stack[k])
InPlace(f) == [stack EXCEPT ![Len(stack)] = f]

-----------------------------------------------------------------------------
(* The jumps.  A call that is jumped over does not reach its api_exit.     *)

\* longjmp(ex_jmp_buf): api_entry returns 0, and so does the function.
Fails ==
    /\ stack' = <<>>
    /\ lost' = (lost \/ ~OnStack(LAMBDA f : f.ex))
    /\ UNCHANGED exValid

\* longjmp(playgame_jmp_buf), with the calls on the stack being s: play_game
\* returns.
JumpToPlayGame(s) ==
    LET homes == {k \in DOMAIN s : s[k].pg} IN
    /\ pgValid' = FALSE
    /\ lost' = (lost \/ homes = {})
    /\ stack' = SubSeq(s, 1, Max(homes \cup {1}) - 1)
    /\ exValid' = exValid - 1

\* Mutant: playgame_jmp_buf_valid is left alone.
ErrorInGame ==
    /\ Fails
    /\ connected' = FALSE /\ connErr' = TRUE /\ UNCHANGED pgValid

\* send_receive_msg's label error, and the like in nhnet_check_socket_fd.
Error ==
    /\ Fails
    /\ connected' = FALSE /\ connErr' = TRUE /\ pgValid' = FALSE

-----------------------------------------------------------------------------
(* The API.                                                                *)

\* api_entry and send_receive_msg up to the loop.  test_restore_connection
\* asks select about no descriptor and finds nothing.
ApiEntry(name) ==
    /\ netActive /\ ~connErr /\ ~lost /\ exValid < MaxValid
    /\ IF stack = <<>> THEN name \in MenuCalls ELSE Running("callback") /\ name \in NestedCalls
    /\ name = "create_game" => asked < MaxCalls
    /\ asked' = IF name = "create_game" THEN asked + 1 ELSE asked
    /\ stack' = Append(stack, Call(name, exValid = 0))
    /\ exValid' = exValid + 1
    /\ UNCHANGED <<pgValid, connected, netActive, connErr, linkVars, lost, confused, created, faults>>

\* send_json_msg.  To a process that is gone it may still succeed.
Send ==
    /\ Running("send")
    /\ toServer' = IF srv = "gone" THEN <<>> ELSE <<Current.key>>
    /\ stack' = InPlace([Current EXCEPT !.pc = "recv"])
    /\ UNCHANGED <<exValid, pgValid, connected, netActive, connErr, srv, toClient,
                   lost, confused, gameVars, faults>>

\* The first message after play_game was sent fills playgame_jmp_buf.
Answered(f) == IF f.key = "play_game" THEN [f EXCEPT !.pg = TRUE] ELSE f

Receives(reply) ==
    /\ Running("recv") /\ toClient # <<>> /\ reply = Head(toClient)
    /\ toClient' = <<>>
    /\ UNCHANGED <<connected, netActive, connErr, srv, toServer, confused, gameVars, faults>>

\* The reply to play_game, whoever is waiting.
ReceivePlayGame ==
    /\ Receives("play_game")
    /\ pgValid \/ Current.key = "play_game"
    /\ JumpToPlayGame(InPlace(Answered(Current)))

\* The reply to any other call: api_exit.
ReceiveReply(name) ==
    /\ name # "play_game" /\ Receives(name) /\ Current.name = name
    /\ stack' = Front(stack)
    /\ exValid' = exValid - 1
    /\ UNCHANGED <<pgValid, lost>>

\* handle_netcmd: the player is asked.
ReceiveQuestion ==
    /\ Receives("question")
    /\ stack' = InPlace([Answered(Current) EXCEPT !.pc = "callback"])
    /\ pgValid' = (pgValid \/ Current.key = "play_game")
    /\ UNCHANGED <<exValid, lost>>

\* The answer is sent under the name of the question.
AnswerQuestion ==
    /\ Running("callback")
    /\ stack' = InPlace([Current EXCEPT !.pc = "send", !.key = "answer"])
    /\ UNCHANGED <<exValid, pgValid, connected, netActive, connErr, linkVars, lost, confused,
                   gameVars, faults>>

-----------------------------------------------------------------------------
(* Connections that break.                                                 *)

\* restart_connection and do_connect, up to what follows from the result.
Reconnected ==
    /\ srv' = "top" /\ toServer' = <<>> /\ toClient' = <<>>
    /\ connected' = TRUE /\ netActive' = TRUE /\ connErr' = FALSE

\* connect_server fails: NO_CONNECTION.
NotReached ==
    /\ Unreachable /\ faults < MaxFaults /\ faults' = faults + 1
    /\ srv' = "gone" /\ toServer' = <<>> /\ toClient' = <<>>
    /\ netActive' = FALSE

\* The new connection breaks before the reply to auth: send_receive_msg ends
\* in its error, with nobody to retry while in_connect_disconnect.
AuthFails ==
    /\ faults < MaxFaults /\ faults' = faults + 1
    /\ srv' = "gone" /\ toServer' = <<>> /\ toClient' = <<>>
    /\ Error /\ UNCHANGED netActive

\* Mutant: the command is sent again, whatever the player is doing.
RestartsNoJump(resumed) == Reconnected /\ stack' = InPlace(resumed) /\ UNCHANGED <<exValid, pgValid, lost>>

\* restart_connection succeeds: RESTART_PLAY if there is a game.
Restarts(resumed) ==
    /\ Reconnected
    /\ IF pgValid THEN JumpToPlayGame(stack)
       ELSE stack' = InPlace(resumed) /\ UNCHANGED <<exValid, pgValid, lost>>

\* send_json_msg or receive_json_msg fails: the server process is gone, or
\* its answer has not come within ten seconds.  It does not come any more.
LoseConnection ==
    /\ Running("send") \/ (Running("recv") /\ toClient = <<>>)
    /\ srv = "gone" \/ Running("recv")
    /\ srv # "gone" => faults < MaxFaults
    /\ IF Current.retry = 0 THEN Error /\ UNCHANGED <<netActive, linkVars, faults>>
       ELSE \/ /\ Restarts([Current EXCEPT !.retry = @ - 1, !.pc = "send"])
               /\ faults' = IF srv = "gone" THEN faults ELSE faults + 1
            \/ NotReached /\ Error
            \/ AuthFails
    /\ UNCHANGED <<confused, gameVars>>

\* nhnet_check_socket_fd notices it while the player is being asked.
CheckSocketFd ==
    /\ Running("callback") /\ srv = "gone"
    /\ \/ Restarts(Current) /\ UNCHANGED faults
       \/ NotReached /\ Error
       \/ AuthFails
    /\ UNCHANGED <<confused, gameVars>>

\* cmd_server_error: the server's last words, and restart_connection, which
\* ends in play_game if there is a game.  If not, send_receive_msg restarts the
\* connection once more, or gives up: the error is the client's (error_retry_ok
\* is false), or it has tried often enough.
ReceiveServerError ==
    /\ Running("recv") /\ toClient = <<"server_error">>
    /\ LET inGame == pgValid \/ Current.key = "play_game" IN
       \/ inGame /\ Reconnected /\ JumpToPlayGame(InPlace(Answered(Current))) /\ UNCHANGED faults
       \/ /\ ~inGame /\ Current.retry > 0
          /\ Reconnected /\ stack' = InPlace([Current EXCEPT !.retry = @ - 1, !.pc = "send"])
          /\ UNCHANGED <<exValid, pgValid, lost, faults>>
       \/ ~inGame /\ Error /\ UNCHANGED <<netActive, linkVars, faults>>
       \/ ~inGame /\ NotReached /\ Error
       \/ AuthFails
       \/ /\ NotReached /\ Fails
          /\ connected' = FALSE /\ connErr' = FALSE /\ pgValid' = inGame
    /\ UNCHANGED <<confused, gameVars>>

\* netgame_mainmenu leaves after an unrecoverable error, and netgame connects anew.
NetGame ==
    /\ stack = <<>> /\ ~connected
    /\ Reconnected
    /\ UNCHANGED <<stack, exValid, pgValid, lost, confused, gameVars, faults>>

-----------------------------------------------------------------------------
(* The server process.                                                     *)

Says(reply, next) ==
    /\ toServer' = <<>> /\ toClient' = <<reply>> /\ srv' = next
    /\ UNCHANGED <<stack, exValid, pgValid, connected, netActive, connErr, lost, asked, faults>>

\* client_main_loop.
ServeCommand ==
    /\ srv = "top" /\ toServer # <<>>
    /\ LET key == Head(toServer) IN
       CASE key = "create_game" -> Says("create_game", "top") /\ created' = created + 1 /\ UNCHANGED confused
         [] key = "play_game"   -> /\ Says("question", "asks") \/ Says("play_game", "top")
                                   /\ UNCHANGED <<created, confused>>
         [] OTHER -> Says("server_error", "gone") /\ confused' = TRUE /\ UNCHANGED created

\* client_request: the answer, or a command that can_run_async.  exit_game
\* is answered by play_game.
ServeQuestion ==
    /\ srv = "asks" /\ toServer # <<>>
    /\ LET key == Head(toServer) IN
       CASE key = "answer"       -> (Says("question", "asks") \/ Says("play_game", "top")) /\ UNCHANGED confused
         [] key = "exit_game"    -> Says("play_game", "top") /\ UNCHANGED confused
         [] key = "get_commands" -> Says("get_commands", "asks") /\ UNCHANGED confused
         [] OTHER                -> Says("server_error", "gone") /\ confused' = TRUE
    /\ UNCHANGED created

\* exit_client or a crash of the process, with or without a last message; or
\* the network.
ServerGoes ==
    /\ srv # "gone" /\ srv' = "gone" /\ faults < MaxFaults /\ faults' = faults + 1
    /\ toClient' \in {toClient, <<>>} \cup (IF toServer # <<>> THEN {<<"server_error">>} ELSE {})
    /\ toServer' = <<>>
    /\ UNCHANGED <<stack, exValid, pgValid, connected, netActive, connErr, lost, confused, gameVars>>

-----------------------------------------------------------------------------
RecInit ==
    /\ stack = <<>> /\ exValid = 0 /\ pgValid = FALSE
    /\ connected = TRUE /\ netActive = TRUE /\ connErr = FALSE
    /\ srv = "top" /\ toServer = <<>> /\ toClient = <<>>
    /\ lost = FALSE /\ confused = FALSE
    /\ asked = 0 /\ created = 0 /\ faults = 0

RecNext ==
    \/ \E name \in MenuCalls \cup NestedCalls : ApiEntry(name) \/ ReceiveReply(name)
    \/ Send \/ AnswerQuestion \/ ReceivePlayGame \/ ReceiveQuestion \/ ReceiveServerError
    \/ LoseConnection \/ CheckSocketFd \/ NetGame
    \/ ServeCommand \/ ServeQuestion \/ ServerGoes

RecSpec == RecInit /\ [][RecNext]_recVars

-----------------------------------------------------------------------------
\* Whatever breaks, the server process is only ever sent what it waits for: an
\* answer goes to the process that asked, or to none.
NothingOutOfSequence == ~confused

\* connection.c:291: "This also guarantees that playgame_jmp_buf_valid is only
\* set while playgame_jmp_buf is actually on the call stack".
PlaygameJmpBufIsLive == pgValid => OnStack(LAMBDA f : f.pg)

\* After an error that cannot be repaired the call returns to its caller, who
\* makes "a limited number of reconnection attempts" (rungame.c).
ErrorsReturn == ~lost

\* connection.c:542: nhnet_active "returns true between calls to nhnet_connect
\* and nhnet_disconnect, even if the connection is lost due to some network error".
ActiveUntilDisconnect == stack # <<>> \/ connErr => netActive

\* connection.c:233: "Presumably the send didn't succeed either and the sent
\* data vanished".
CreatedOnce == created <= asked
=============================================================================
