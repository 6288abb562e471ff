-------------------------------- MODULE Wire --------------------------------
(***************************************************************************)
(* One connection between a server process and the client library: how     *)
(* messages are framed with NUL characters, and how a server cancel, which *)
(* a signal handler sends at any moment, finds its way between them        *)
(* (nethack_server/src/clientmain.c, libnethack_client/src/connection.c,   *)
(* and the key loop of nethack/src/windows.c).                             *)
(*                                                                         *)
(* A message on the wire is three bytes: the first and the last character  *)
(* of its JSON object, and the NUL.  A write that a signal interrupts      *)
(* returns early, at one of the places ShortWrites names.  The signal       *)
(* handler runs between any two steps of the process, as one step: the     *)
(* process waits for it.                                                   *)
(***************************************************************************)
EXTENDS Naturals, Sequences, SequencesExt

CONSTANTS
    ShortWrites,    \* where in a message a write may stop: subset of {1, 2}
    Coalesced,      \* may one recv return the end of a message and what follows?
    MaxCancels      \* bound: server cancels on the way at any time

ASSUME WireAssumption ==
    /\ ShortWrites \subseteq {1, 2}
    /\ Coalesced \in BOOLEAN
    /\ MaxCancels \in Nat \ {0}

VARIABLES
    spc,        \* where the server process is
    sending,    \* currently_sending_message
    deferred,   \* send_server_cancel
    cansend,    \* can_send_msg
    out,        \* what send_string_to_client has still to write, outside handlers
    pipe,       \* bytes written and not received
    unread,     \* the client library's unread_messages
    cpc,        \* where the client is
    queued,     \* server cancels handed to the user interface, not consumed
    reply,      \* the client's message on its way to the server
    stale,      \* the log has changed since the server last had control
    nulLost     \* history: some message went out without its NUL

wireVars == <<spc, sending, deferred, cansend, out, pipe, unread, cpc, queued,
              reply, stale, nulLost>>
clientVars == <<unread, cpc, queued>>

None == "none"
Nul  == <<"NUL", "">>

(* The kinds of message the server sends.                                  *)
Kinds == {"request", "load_progress", "server_cancel", "server_error"}

Message(kind) == <<<<kind, "{">>, <<kind, "}">>, Nul>>

(* strlen of a message: the loop of send_string_to_client counts it, and   *)
(* writes one byte more.                                                   *)
StrLen == 2

-----------------------------------------------------------------------------
(* The server process.                                                     *)

(* How many of the bytes left of a message one write may take.             *)
Written(left) ==
    {n \in 1..Len(left) : n = Len(left) \/ StrLen + 1 - Len(left) + n \in ShortWrites}

(* The loop `do ... while (pos < len)`: done once strlen bytes are out,    *)
(* whether or not the NUL is.                                              *)
AllWritten(left) == Len(left) <= 1

(* What a whole call of send_string_to_client can put on the wire.         *)
Sendings(kind) ==
    {Message(kind)} \cup {SubSeq(Message(kind), 1, n) : n \in ShortWrites \cap {StrLen}}

(* The bytes of whole calls go out, in a row.                              *)
PutOnWire(bytes, more) ==
    /\ pipe' = pipe \o bytes \o more
    /\ nulLost' = (nulLost \/ StrLen \in {Len(bytes), Len(more)})

StartSend(kind, then) ==
    /\ sending' = sending + 1
    /\ out' = Message(kind)
    /\ spc' = then

(* One write of send_string_to_client; the last one leaves the function.   *)
WriteStep(here, then) ==
    /\ spc = here
    /\ \E n \in Written(out) :
          /\ pipe' = pipe \o SubSeq(out, 1, n)
          /\ LET left == SubSeq(out, n + 1, Len(out))
             IN IF AllWritten(left)
                THEN /\ out' = <<>> /\ sending' = sending - 1 /\ spc' = then
                     /\ nulLost' = (nulLost \/ left # <<>>)
                ELSE out' = left /\ UNCHANGED <<sending, spc, nulLost>>

(* read_input: a message from the client gives the server its turn.  The   *)
(* command it carries makes the engine look at the log before anything is  *)
(* asked again.                                                            *)
ReadInput ==
    /\ spc = "idle" /\ reply # None
    /\ reply' = None /\ cansend' = TRUE /\ stale' = FALSE
    /\ spc' = "work"
    /\ UNCHANGED <<sending, deferred, out, pipe, nulLost>> /\ UNCHANGED clientVars

(* srv_load_progress, from inside the engine.  Bound: one for each command *)
(* of the client.                                                          *)
LoadProgress ==
    /\ spc = "work"
    /\ StartSend("load_progress", "progress")
    /\ UNCHANGED <<deferred, cansend, pipe, reply, stale, nulLost>> /\ UNCHANGED clientVars

(* client_msg_core: the flag is up from its first statement, before the    *)
(* message is built.                                                       *)
ClientMsg ==
    /\ spc \in {"work", "loaded"}
    /\ sending' = 1 /\ spc' = "build"
    /\ UNCHANGED <<deferred, cansend, out, pipe, reply, stale, nulLost>>
    /\ UNCHANGED clientVars

SendReply ==
    /\ spc = "build"
    /\ IF cansend THEN StartSend("request", "write")
                  ELSE spc' = "sent" /\ UNCHANGED <<sending, out>>
    /\ UNCHANGED <<deferred, cansend, pipe, reply, stale, nulLost>> /\ UNCHANGED clientVars

Write ==
    /\ \/ WriteStep("progress", "loaded")
       \/ WriteStep("write", "sent")
       \/ WriteStep("cancel", "cancelled")
    /\ UNCHANGED <<deferred, cansend, reply, stale>> /\ UNCHANGED clientVars

(* can_send_msg kept after a reply (a mutant of NoMoreSending).            *)
NoMoreSendingStillMay ==
    /\ spc = "sent"
    /\ sending' = 0 /\ spc' = "check"
    /\ UNCHANGED <<deferred, cansend, out, pipe, reply, stale, nulLost>>
    /\ UNCHANGED clientVars

(* The end of client_msg_core, statement by statement: a signal can come   *)
(* between any two of them.                                                *)
NoMoreSending ==
    /\ spc = "sent"
    /\ cansend' = FALSE /\ sending' = 0 /\ spc' = "check"
    /\ UNCHANGED <<deferred, out, pipe, reply, stale, nulLost>> /\ UNCHANGED clientVars

(* The deferred cancel looked at with the flag still up, when all that     *)
(* client_server_cancel_msg does is to defer it again (a mutant).          *)
CheckDeferredFlagUp ==
    /\ spc = "check"
    /\ spc' = IF deferred THEN "cancelled" ELSE "idle"
    /\ UNCHANGED <<sending, deferred, cansend, out, pipe, reply, stale, nulLost>>
    /\ UNCHANGED clientVars

CheckDeferred ==
    /\ spc = "check"
    /\ IF deferred
       THEN StartSend("server_cancel", "cancel")
       ELSE spc' = "idle" /\ UNCHANGED <<sending, out>>
    /\ UNCHANGED <<deferred, cansend, pipe, reply, stale, nulLost>> /\ UNCHANGED clientVars

ClearDeferred ==
    /\ spc = "cancelled"
    /\ deferred' = FALSE /\ spc' = "idle"
    /\ UNCHANGED <<sending, cansend, out, pipe, reply, stale, nulLost>>
    /\ UNCHANGED clientVars

(* exit_client: with an error met while a command is worked on, the server *)
(* reports it, with the end of client_msg_core behind it; when it ends     *)
(* while waiting (a timeout, a lost pipe, a signal) it is not its turn to  *)
(* send.                                                                   *)
ExitClient ==
    /\ spc \in {"work", "loaded", "idle"}
    /\ IF cansend
       THEN /\ \E report \in Sendings("server_error"),
                 cancel \in IF deferred THEN Sendings("server_cancel") ELSE {<<>>} :
                  PutOnWire(report, cancel)
            /\ cansend' = FALSE /\ deferred' = FALSE
       ELSE UNCHANGED <<pipe, nulLost, cansend, deferred>>
    /\ spc' = "gone"
    /\ UNCHANGED <<sending, out, reply, stale>> /\ UNCHANGED clientVars

(* client_server_cancel_msg without currently_sending_message (a mutant).  *)
ServerCancelMsgAtOnce ==
    /\ \E bytes \in Sendings("server_cancel") : PutOnWire(bytes, <<>>)
    /\ UNCHANGED deferred

(* client_server_cancel_msg, in the signal handler.                        *)
ServerCancelMsg ==
    IF sending # 0
    THEN deferred' = TRUE /\ UNCHANGED <<pipe, nulLost>>
    ELSE /\ \E bytes \in Sendings("server_cancel") : PutOnWire(bytes, <<>>)
         /\ UNCHANGED deferred

Cancels == Len(SelectSeq(unread \o pipe, LAMBDA b : b = <<"server_cancel", "{">>))

(* Another process has written to the log of the game: handle_sigrtmin1    *)
(* ends with win_server_cancel.                                            *)
LogChanged ==
    /\ spc # "gone"
    /\ Cancels + queued < MaxCancels
    /\ ServerCancelMsg
    /\ stale' = TRUE
    /\ UNCHANGED <<spc, sending, cansend, out, reply>> /\ UNCHANGED clientVars

-----------------------------------------------------------------------------
(* The client.                                                             *)

EndOfMessage == SelectInSeq(unread, LAMBDA b : b = Nul)

(* json_loads of what stands before the NUL: one object, or nothing.       *)
Parsed ==
    LET text == SubSeq(unread, 1, EndOfMessage - 1)
    IN IF \E k \in Kinds : text = SubSeq(Message(k), 1, StrLen)
       THEN text[1][1] ELSE None

(* receive_json_msg, when a whole message is there.  Text that does not    *)
(* parse is passed over: the test against datalen, always 0, never fails.  *)
TakeMessage(got(_)) ==
    /\ EndOfMessage # 0
    /\ unread' = SubSeq(unread, EndOfMessage + 1, Len(unread))
    /\ got(Parsed)
    /\ UNCHANGED <<spc, sending, deferred, cansend, out, pipe, reply, stale, nulLost>>

(* recv, when none is: the kernel hands over a part of what has arrived.   *)
Recv ==
    /\ cpc \in {"waiting", "checking"}
    /\ EndOfMessage = 0 /\ pipe # <<>>
    /\ \E n \in 1..Len(pipe) :
          /\ Coalesced \/ \A i \in 1..(n - 1) : pipe[i] # Nul
          /\ unread' = unread \o SubSeq(pipe, 1, n)
          /\ pipe' = SubSeq(pipe, n + 1, Len(pipe))
    /\ UNCHANGED <<spc, sending, deferred, cansend, out, reply, stale, nulLost, cpc,
                   queued>>

(* send_receive_msg: a cancel goes to the user interface, progress to the  *)
(* loading screen; anything else ends the wait.                            *)
Received(kind) ==
    /\ queued' = IF kind = "server_cancel" THEN queued + 1 ELSE queued
    /\ cpc' = CASE kind = "request"      -> "prompting"
                [] kind = "server_error" -> "error"
                [] OTHER                 -> "waiting"

Receive == cpc = "waiting" /\ TakeMessage(Received)

(* nh_wgetch: activity on the socket, not in the library's buffer, makes   *)
(* the client look.                                                        *)
SocketReadable ==
    /\ cpc = "prompting" /\ pipe # <<>>
    /\ cpc' = "checking"
    /\ UNCHANGED <<spc, sending, deferred, cansend, out, pipe, unread, queued,
                   reply, stale, nulLost>>

(* nhnet_check_socket_fd: only a cancel may come now.                      *)
Checked(kind) ==
    IF kind = "server_cancel"
    THEN queued' = queued + 1 /\ cpc' = "prompting"
    ELSE cpc' = (IF kind = None THEN "checking" ELSE "confused") /\ UNCHANGED queued

CheckSocket == cpc = "checking" /\ TakeMessage(Checked)

Reply(answer) ==
    /\ cpc = "prompting"
    /\ reply' = answer /\ cpc' = "waiting"
    /\ UNCHANGED <<spc, sending, deferred, cansend, out, pipe, unread, stale, nulLost>>

Answer == Reply("answer") /\ UNCHANGED queued

(* KEY_SIGNAL: the prompt closes with the "cancelled by server" value.     *)
AnswerCancelled == queued > 0 /\ Reply("servercancel") /\ queued' = queued - 1

-----------------------------------------------------------------------------
(* The client has sent its first command.                                  *)
WireInit ==
    /\ spc = "idle" /\ sending = 0 /\ deferred = FALSE /\ cansend = FALSE
    /\ out = <<>> /\ pipe = <<>> /\ unread = <<>>
    /\ cpc = "waiting" /\ queued = 0 /\ reply = "answer"
    /\ stale = FALSE /\ nulLost = FALSE

ServerStep ==
    \/ ReadInput \/ ClientMsg \/ SendReply \/ Write
    \/ NoMoreSending \/ CheckDeferred \/ ClearDeferred

ClientStep == Recv \/ Receive \/ SocketReadable \/ CheckSocket \/ AnswerCancelled

WireNext ==
    \/ ServerStep \/ ClientStep
    \/ LoadProgress \/ ExitClient \/ LogChanged \/ Answer

(* A process that can take a step takes one; nothing makes the user        *)
(* answer, another process play, or the engine report progress.            *)
WireFairness == WF_wireVars(ServerStep) /\ WF_wireVars(ClientStep)

WireSpec == WireInit /\ [][WireNext]_wireVars /\ WireFairness

-----------------------------------------------------------------------------
WireTypeOK ==
    /\ spc \in {"idle", "work", "progress", "loaded", "build", "write", "sent", "check",
                "cancel", "cancelled", "gone"}
    /\ cpc \in {"waiting", "prompting", "checking", "error", "confused"}
    /\ sending \in 0..2 /\ queued \in 0..(MaxCancels + 1)
    /\ {deferred, cansend, stale, nulLost} \subseteq BOOLEAN
    /\ reply \in {None, "answer", "servercancel"}
    /\ \A i \in 1..Len(pipe) : pipe[i] = Nul \/ pipe[i][1] \in Kinds

(* The bytes the client has yet to parse.                                  *)
Stream == unread \o pipe \o out

(* However signals interrupt the server, no message is ever inside another *)
(* (what currently_sending_message is for): the two halves of a message    *)
(* stand side by side in the stream, and a NUL stands behind a message.    *)
(* Behind each, as long as none went out without its NUL.                  *)
MessagesStayWhole ==
    \A i \in 1..Len(Stream) :
        LET b == Stream[i] IN
        /\ b[2] = "{" => i < Len(Stream) /\ Stream[i + 1] = <<b[1], "}">>
        /\ b[2] = "}" => i > 1 /\ Stream[i - 1] = <<b[1], "{">>
        /\ b[2] = "}" /\ ~nulLost => i < Len(Stream) /\ Stream[i + 1] = Nul
        /\ b = Nul => i > 1 /\ Stream[i - 1][2] = "}"

(* The server separates all the messages it sends with NUL characters      *)
(* (clientmain.c:100): every message has its NUL, whatever signals do.     *)
EveryMessageHasItsNul ==
    \A i \in 1..Len(Stream) :
        Stream[i][2] = "}" => i < Len(Stream) /\ Stream[i + 1] = Nul

(* The client is never shown, at a prompt, a message it did not ask for:   *)
(* the two ends agree whose turn it is (can_send_msg).                     *)
NothingOutOfTurn == cpc # "confused"

(* The one place from which a prompt does not see a message: it has been   *)
(* received, behind the end of another, and the socket is silent.          *)
MessageInBuffer == cpc = "prompting" /\ EndOfMessage # 0 /\ pipe = <<>>

(* A player waiting at a prompt that another process has made obsolete is  *)
(* woken, and the server gets its turn to read the log, without the        *)
(* player's help: whether the cancel was sent at once, deferred behind a   *)
(* reply, merged with another, or found the client busy.  Except that a    *)
(* message without its NUL can spoil the one behind it, and that the       *)
(* prompt looks for a message on the socket alone.                         *)
CancelsArrive ==
    stale ~> (~stale \/ spc = "gone" \/ cpc = "error" \/ nulLost \/ MessageInBuffer)

(* The client must react to a server cancel by answering the request it is *)
(* handling, or the next one, with "cancelled by server"                   *)
(* (doc/mainloop.txt:244), so that the server gets its turn.               *)
CancelsWakeThePlayer == stale ~> (~stale \/ spc = "gone" \/ cpc = "error")
=============================================================================
