------------------------------ MODULE MCSession ------------------------------
(***************************************************************************)
(* The parts of a session that share no state in the model, side by side   *)
(* in one instance: the bytes between server and client (Wire), the        *)
(* picture the client is sent (DisplayStream), the client library's calls  *)
(* and connections (Reconnect), the differ that writes save backups into   *)
(* the log (SaveDiff), the replaying of a log (ReplayMode) and the         *)
(* commands that the client repeats turn by turn (Occupations).  Nothing   *)
(* one of them does is seen by another, so that interleaving them would    *)
(* only multiply the states: the initial state chooses the part that       *)
(* moves, and the others stay at rest.                                     *)
(***************************************************************************)
EXTENDS Wire, DisplayStream, Reconnect, SaveDiff, ReplayMode, Occupations

CONSTANTS
    ration, bits,    \* food, and what a stack of it splits into
    sardines, tins2,
    primer, tome,
    chest, crate,
    lockpick, knife, landmine,
    porch, yard      \* at the door, and away from it

VARIABLE part

sessionVars == <<part, wireVars, dispVars, recVars, diffVars, replayVars, occupationVars>>

(* Wire: a write may stop after the first byte of a message, or just       *)
(* before its NUL.                                                         *)
MCShortWrites == {1, 2}

(* DisplayStream: two maps of two columns of two squares; three status     *)
(* lines, of two characters.                                               *)
MCColumns == 1..2
MCRows == 1..2
MCScreens == { << <<"a", "b">>, <<"-", "-">> >>, << <<"a", "a">>, <<"-", "b">> >> }
MCStatuses == { [plname |-> "al", hp |-> 1], [plname |-> "al", hp |-> 2],
                [plname |-> "bo", hp |-> 2] }
MCItemLists == { {}, {"dagger"} }

(* SaveDiff: the columns of mdiff_command_sizes, scaled down with UnitBits *)
(* so that four bytes of input reach every width, and two old saves with   *)
(* their tags anywhere.                                                    *)
MCArg1Bits ==
    [copyedit |-> 3, copy |-> 2, edit |-> 1, seek |-> 2, wider |-> 0,
     eof |-> 3, coord |-> 1, erase |-> 2, copyedit1 |-> 1, increment |-> 3,
     eof_crc32 |-> 3, rle |-> 2]
MCOldSaves ==
    {[buf |-> b, tags |-> t] : b \in {<<0, 1, 1, 0, 5>>, <<1, 0, 1, 0, 1>>},
                               t \in [Tags -> {-1, 0, 2}]}

(* ReplayMode: logs of five lines, the first of which takes no time and    *)
(* each of the others none or two moves; save backups between them or only *)
(* at the start; one line that takes several requests; the game over or    *)
(* not.  In the other logs the third line is an "interrupt".               *)
MCLog(third, steps, backups, over) ==
    [lines |-> [i \in 1..5 |-> IF i = 3 THEN third ELSE "command"],
     moves |-> [i \in 0..5 |->
                  1 + FoldSet(LAMBDA j, s : s + steps[j], 0, 2..i)],
     backups |-> backups, busy |-> {3} \ Range(backups), over |-> over]
MCLogsWith(third) ==
    {MCLog(third, s, b, o) : s \in {t \in [2..5 -> {0, 2}] : t[2] = 0 \/ t[3] = 2},
                             b \in {<<0>>, <<0, 2, 4>>}, o \in BOOLEAN}
MCLogs == MCLogsWith("command")
MCInterruptedLogs == MCLogsWith("interrupt")

(* Where the replay stands in the behaviours of the other parts: before     *)
(* the first command, with nothing to do.                                  *)
ReplayAtRest ==
    /\ log = CHOOSE l \in MCLogs : TRUE
    /\ place = 0 /\ action = 0 /\ last = 0 /\ target = 0 /\ prev = 0
    /\ byMove = FALSE /\ reverse = FALSE /\ jumped = FALSE
    /\ chks = <<>> /\ phase = "user"
    /\ wanted = [goal |-> 0, byMove |-> FALSE, from |-> 1]

(* Occupations: each outfit has what one kind of occupation is about: a    *)
(* stack of food; food and a tin; a stack of tins; two books; a land mine; *)
(* two boxes; and a box, the door, and what opens or locks them.           *)
Away(pack, floor, double) ==
    [pack |-> pack, floor |-> floor, double |-> double, doors |-> {"none"}, spells |-> {}]
AtDoor(pack, known) ==
    [pack |-> pack, floor |-> {chest}, double |-> {}, doors |-> {"locked"},
     spells |-> known]
MCOutfits ==
    {Away({ration}, {}, {ration}), Away({ration, sardines}, {}, {}),
     Away({sardines}, {}, {sardines}), Away({primer, tome}, {}, {}),
     Away({landmine}, {}, {}), Away({lockpick}, {chest, crate}, {}),
     AtDoor({lockpick, knife}, {}), AtDoor({lockpick}, {"locking", "opening"}),
     AtDoor({knife}, {"locking", "opening"})}

Init ==
    /\ part \in {"wire", "display", "calls", "diff", "replay", "occupation"}
    /\ WireInit
    /\ DispInit
    /\ RecInit
    /\ DiffInit
    /\ IF part = "replay" THEN ReplayInit ELSE ReplayAtRest
    /\ IF part = "occupation" THEN OccupationsInit ELSE Begins(Away({}, {}, {})) /\ at = porch

WireMoves == part = "wire" /\ WireNext /\ UNCHANGED <<part, dispVars, recVars, diffVars, replayVars, occupationVars>>
DispMoves == part = "display" /\ DispNext /\ UNCHANGED <<part, wireVars, recVars, diffVars, replayVars, occupationVars>>
RecMoves == part = "calls" /\ RecNext /\ UNCHANGED <<part, wireVars, dispVars, diffVars, replayVars, occupationVars>>
DiffMoves == part = "diff" /\ DiffNext /\ UNCHANGED <<part, wireVars, dispVars, recVars, replayVars, occupationVars>>
ReplayMoves == part = "replay" /\ ReplayNext /\ UNCHANGED <<part, wireVars, dispVars, recVars, diffVars, occupationVars>>
OccupationMoves ==
    /\ part = "occupation" /\ OccupationsNext
    /\ UNCHANGED <<part, wireVars, dispVars, recVars, diffVars, replayVars>>

Next ==
    WireMoves \/ DispMoves \/ RecMoves \/ DiffMoves \/ ReplayMoves \/ OccupationMoves

(* The steps that WireFairness and ReplayFairness are about, in this       *)
(* instance: each belongs to a process that is scheduled again and again.  *)
ServerRuns == part = "wire" /\ ServerStep /\ UNCHANGED <<part, dispVars, recVars, diffVars, replayVars, occupationVars>>
ClientRuns == part = "wire" /\ ClientStep /\ UNCHANGED <<part, dispVars, recVars, diffVars, replayVars, occupationVars>>
ReplayRuns == part = "replay" /\ ReplayStep /\ UNCHANGED <<part, wireVars, dispVars, recVars, diffVars, occupationVars>>

Spec ==
    /\ Init /\ [][Next]_sessionVars
    /\ WF_sessionVars(ServerRuns) /\ WF_sessionVars(ClientRuns) /\ WF_sessionVars(ReplayRuns)
=============================================================================
