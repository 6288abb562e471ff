---------------------------- MODULE SaveLog_proofs ----------------------------
(***************************************************************************)
(* For every set of processes, every choice of commands and every bound:   *)
(* the type invariant and the five safety invariants of SaveLog.           *)
(*                                                                         *)
(* The argument is about the recovery count.  As long as the count in the  *)
(* file is the one a process expects, the log has only grown since the     *)
(* process looked at it (LogGrew), so that whatever it knew of the lines   *)
(* it has read still holds; a process with another count claims nothing.   *)
(* What is left is the process that takes the step: Knows says for each    *)
(* place in the code what it may rely on there, and with it that the line  *)
(* it appends is one the log may go on with.                               *)
(***************************************************************************)
EXTENDS SaveLog, WellFoundedInduction, TLAPS

(* The inductive invariant.                                                *)

(* A turn that ends at line n and has not been saved yet.                  *)
UnsavedTurn(n) == EndsTurn(Replay(n)) /\ ~IsSave(log[n])

(* An input line has the gamestate of the line before, and one input more. *)
InputsAreTrue ==
    \A i \in 2..Len(log) :
        ~IsSave(log[i]) => log[i].state = Append(Replay(i - 1), log[i].kind)

LogIsSound == SavesAreTrue /\ InputsAreTrue /\ LogIsPlayable

(* Until the save is loaded there is nothing to wait for.                  *)
Beginning == {"off", "open", "undo", "undoing", "header", "hint", "load", "scan"}
NothingAwaited(p) == proc[p].pc \in Beginning => ~proc[p].eof_reached

(* What a process whose recovery count is the file's may rely on.          *)
KnowsSave(p) ==
    /\ At(p, "load") => IsBackup(proc[p].bsl)
    /\ At(p, "scan") => /\ proc[p].bsl \in 1..Len(log) /\ IsSave(log[proc[p].bsl])
                        /\ proc[p].bsave = Replay(proc[p].bsl)

KnowsPlace(p) ==
    /\ proc[p].pc \in {"ready", "ask"} =>
          /\ Expects(proc[p].state) = Commands
          /\ proc[p].eof_reached <=> UnsavedTurn(proc[p].eog)
          /\ proc[p].eof_reached => Mode(p) # "play"
    /\ proc[p].pc \in Playing \ {"ready", "ask"} => ~proc[p].eof_reached
    /\ proc[p].pc \in {"time", "stamp"} => Expects(proc[p].state) = {"time"}
    /\ At(p, "run") => /\ Expects(proc[p].state) \in {{"answer"}, {"Q"}, Commands}
                       /\ ~IsSave(log[proc[p].eog])
    /\ At(p, "prompt") => Prompts(p) /\ ~IsSave(log[proc[p].eog])
    /\ proc[p].pc \in {"save", "follow"} => UnsavedTurn(proc[p].eog)
    /\ At(p, "follow") /\ Mode(p) = "play" => ~NothingThere(p)

KnowsCut(p) == proc[p].pc \in {"menu", "undoing"} => proc[p].cut \in 1..Len(log)

Knows(p) ==
    /\ proc[p].pc \in Playing => Agrees(p)
    /\ KnowsSave(p) /\ KnowsPlace(p) /\ KnowsCut(p)

ProcessIsSound(p) ==
    /\ proc[p].rc <= count
    /\ NothingAwaited(p)
    /\ proc[p].rc = count => Knows(p)

IInv == TypeOK /\ LogIsSound /\ count > 0 /\ \A p \in Pid : ProcessIsSound(p)

-----------------------------------------------------------------------------
(* Least and greatest elements: a set of naturals has a least one, and a   *)
(* bounded one a greatest.                                                 *)
LessThan == {ss \in Nat \X Nat : ss[1] < ss[2]}

(* The natural numbers are well-founded under <.                           *)
LEMMA LessThanWellFounded == IsWellFoundedOn(LessThan, Nat)
BY NatLessThanWellFounded DEF OpToRel, LessThan

(* A nonempty set of naturals has a least element.                         *)
LEMMA LeastExists ==
    ASSUME NEW S \in SUBSET Nat, S # {}
    PROVE  \E x \in S : \A y \in S : x <= y
<1>1. PICK x \in S : \A y \in S : <<y, x>> \notin LessThan
  BY LessThanWellFounded, WFMin
<1>2. \A y \in S : ~(y < x)
  BY <1>1 DEF LessThan
<1>3. QED
  BY <1>2

(* Min is that element.                                                    *)
LEMMA MinIsLeast ==
    ASSUME NEW S \in SUBSET Nat, S # {}
    PROVE  Min(S) \in S /\ \A y \in S : Min(S) <= y
BY LeastExists DEF Min

(* Max of a nonempty bounded set of naturals is its greatest element.      *)
LEMMA MaxIsGreatest ==
    ASSUME NEW S \in SUBSET Nat, S # {}, NEW n \in Nat, \A y \in S : y <= n
    PROVE  Max(S) \in S /\ \A y \in S : y <= Max(S)
<1> DEFINE Below == {m \in Nat : n - m \in S}
<1>1. \A y \in S : n - y \in Below
  OBVIOUS
<1>2. PICK b \in Below : \A c \in Below : b <= c
  BY <1>1, LeastExists
<1>3. n - b \in S
  OBVIOUS
<1>4. \A y \in S : b <= n - y
  BY <1>1, <1>2
<1>5. \A y \in S : n - b >= y
  BY <1>4
<1>6. QED
  BY <1>5 DEF Max

-----------------------------------------------------------------------------
(* The engine.                                                             *)

(* A command is not an answer, a time or an end.                           *)
LEMMA CommandKinds ==
    /\ Commands \subseteq AllCommands
    /\ Commands \notin {{"answer"}, {"Q"}, {"time"}}
<1>1. Commands \subseteq AllCommands
  BY CommandAssumption
<1>2. "answer" \notin AllCommands /\ "Q" \notin AllCommands /\ "time" \notin AllCommands
  BY DEF AllCommands
<1>3. QED
  BY <1>1, <1>2

(* What Expects can be: one kind of line, or the commands.                 *)
LEMMA ExpectsOneOf ==
    ASSUME NEW s \in Gamestate
    PROVE  Expects(s) \in {{}, {"answer"}, {"Q"}, {"time"}, Commands}
<1>1. CASE s = <<>>
  BY <1>1 DEF Expects
<1>2. CASE s # <<>> /\ s[Len(s)] = "Q"
  BY <1>2 DEF Expects, AllCommands
<1>3. CASE s # <<>> /\ s[Len(s)] \in AllCommands \cup {"answer"}
  BY <1>3 DEF Expects, AllCommands
<1>4. CASE s # <<>> /\ s[Len(s)] \notin AllCommands \cup {"answer", "Q"}
  <2>1. Expects(s) = CASE LastInput(s) = "ask" -> {"answer"}
                       [] LastInput(s) = "die" -> {"Q"}
                       [] OTHER                -> Commands
    BY <1>4 DEF Expects
  <2>2. QED
    BY <2>1
<1>5. QED
  BY <1>1, <1>2, <1>3, <1>4

(* After a command or an answer the engine wants the time.                 *)
LEMMA ExpectsTime ==
    ASSUME NEW s \in Gamestate, NEW k \in AllCommands \cup {"answer"}
    PROVE  Expects(Append(s, k)) = {"time"}
<1>1. Append(s, k) # <<>> /\ Append(s, k)[Len(Append(s, k))] = k /\ k # "Q"
  BY DEF Gamestate, AllCommands
<1>2. QED
  BY <1>1 DEF Expects

(* After the time it prompts, ends the game or is ready for a command.     *)
LEMMA ExpectsAfterTime ==
    ASSUME NEW s \in Gamestate
    PROVE  Expects(Append(s, "time")) \in {{"answer"}, {"Q"}, Commands}
<1> DEFINE t == Append(s, "time")
<1>1. t # <<>> /\ t[Len(t)] = "time"
  BY DEF Gamestate
<1>2. Expects(t) = CASE LastInput(t) = "ask" -> {"answer"}
                     [] LastInput(t) = "die" -> {"Q"}
                     [] OTHER                -> Commands
  BY <1>1 DEF Expects, AllCommands
<1> HIDE DEF t
<1>3. Expects(t) \in {{"answer"}, {"Q"}, Commands}
  BY <1>2
<1>4. QED
  BY <1>3 DEF t

(* At the end of a turn it is ready for a command.                         *)
LEMMA TurnEndsReady ==
    ASSUME NEW s \in Gamestate, EndsTurn(s)
    PROVE  Expects(s) = Commands
<1>1. s # <<>> /\ s[Len(s)] = "time" /\ LastInput(s) \in {"go", "answer"}
  BY DEF EndsTurn
<1>2. Expects(s) = CASE LastInput(s) = "ask" -> {"answer"}
                     [] LastInput(s) = "die" -> {"Q"}
                     [] OTHER                -> Commands
  BY <1>1 DEF Expects, AllCommands
<1>3. LastInput(s) # "ask" /\ LastInput(s) # "die"
  BY <1>1
<1>4. QED
  BY <1>2, <1>3

-----------------------------------------------------------------------------
(* The log.                                                                *)

(* The latest save line among the first n.                                 *)
SavesUpTo(n) == {i \in 1..n : IsSave(log[i])}

(* There is one, as the log starts with a save line.                       *)
LEMMA LatestSave ==
    ASSUME NEW n \in Nat, n >= 1, IsSave(log[1])
    PROVE  /\ Max(SavesUpTo(n)) \in 1..n /\ IsSave(log[Max(SavesUpTo(n))])
           /\ \A i \in 1..n : IsSave(log[i]) => i <= Max(SavesUpTo(n))
<1>1. SavesUpTo(n) \in SUBSET Nat /\ SavesUpTo(n) # {}
  BY DEF SavesUpTo
<1>2. \A i \in SavesUpTo(n) : i <= n
  BY DEF SavesUpTo
<1>3. Max(SavesUpTo(n)) \in SavesUpTo(n) /\ \A i \in SavesUpTo(n) : i <= Max(SavesUpTo(n))
  BY <1>1, <1>2, MaxIsGreatest
<1>4. QED
  BY <1>3 DEF SavesUpTo

(* A save line with no other after it is the latest.                       *)
LEMMA LatestSaveIs ==
    ASSUME NEW n \in Nat, NEW b \in 1..n, IsSave(log[b]),
           \A i \in (b + 1)..n : ~IsSave(log[i])
    PROVE  Max(SavesUpTo(n)) = b
<1>1. b \in SavesUpTo(n) /\ \A i \in SavesUpTo(n) : i \in Nat /\ b >= i
  BY DEF SavesUpTo
<1>2. \A c \in SavesUpTo(n) : (\A i \in SavesUpTo(n) : c >= i) => c = b
  BY <1>1
<1>3. QED
  BY <1>1, <1>2 DEF Max

(* What LogIsSound says of one line.                                       *)
LEMMA LogStarts ==
    ASSUME LogIsSound
    PROVE  log # <<>> /\ log[1] = Backup(<<>>) /\ IsSave(log[1])
BY DEF LogIsSound, SavesAreTrue, Backup, IsSave

(* A line and its gamestate have their types.                              *)
LEMMA LineTypes ==
    ASSUME TypeOK, NEW i \in 1..Len(log)
    PROVE  /\ log[i] \in LineType /\ Replay(i) \in Gamestate
           /\ Len(log) \in Nat /\ i \in Nat
           /\ IsSave(log[i]) <=> log[i].kind \notin InputKind
<1>1. log \in Seq(LineType)
  BY DEF TypeOK
<1>2. log[i] \in LineType /\ Len(log) \in Nat
  BY <1>1
<1>3. "backup" \notin InputKind /\ "diff" \notin InputKind
  BY DEF InputKind, AllCommands
<1>4. QED
  BY <1>2, <1>3 DEF LineType, Replay, IsSave

(* One line after another: what the log may go on with after line n.       *)
LEMMA NextLine ==
    ASSUME TypeOK, LogIsSound, NEW n \in 1..(Len(log) - 1)
    PROVE  /\ IsSave(log[n + 1]) <=> UnsavedTurn(n)
           /\ ~IsSave(log[n + 1]) =>
                 log[n + 1].kind \in Expects(Replay(n)) \cup
                                     (IF AsksUser(Replay(n)) THEN {"Q"} ELSE {})
<1>1. Len(log) \in Nat
  BY DEF TypeOK
<1>2. n \in 1..Len(log) /\ n + 1 \in 1..Len(log) /\ n + 1 \in 2..Len(log)
  BY <1>1
<1>3. LineFits(n)
  BY DEF LogIsSound, LogIsPlayable
<1>4. Expects(Replay(n)) \cup {"Q"} \subseteq InputKind
  <2>1. Replay(n) \in Gamestate
    BY <1>2, LineTypes
  <2>2. QED
    BY <2>1, ExpectsOneOf, CommandKinds DEF InputKind
<1>5. CASE UnsavedTurn(n)
  BY <1>3, <1>5 DEF LineFits, UnsavedTurn
<1>6. CASE ~UnsavedTurn(n)
  <2>1. log[n + 1].kind \in Expects(Replay(n)) \cup
                            (IF AsksUser(Replay(n)) THEN {"Q"} ELSE {})
    BY <1>3, <1>6 DEF LineFits, UnsavedTurn
  <2>2. log[n + 1].kind \in InputKind
    BY <2>1, <1>4
  <2>3. QED
    BY <1>2, <1>6, <2>1, <2>2, LineTypes
<1>7. QED
  BY <1>5, <1>6

(* A save line leaves the engine ready for a command.                      *)
LEMMA SavedReady ==
    ASSUME TypeOK, LogIsSound, NEW i \in 1..Len(log), IsSave(log[i])
    PROVE  Expects(Replay(i)) = Commands
<1>1. Len(log) \in Nat
  BY DEF TypeOK
<1>2. CASE i = 1
  BY <1>2, LogStarts DEF Replay, Backup, Expects
<1>3. CASE i # 1
  <2>1. i - 1 \in 1..(Len(log) - 1) /\ i - 1 \in 1..Len(log) /\ (i - 1) + 1 = i /\ i \in 2..Len(log)
    BY <1>1, <1>3
  <2>2. EndsTurn(Replay(i - 1))
    BY <2>1, NextLine DEF UnsavedTurn
  <2>3. Replay(i) = Replay(i - 1)
    BY <2>1 DEF LogIsSound, SavesAreTrue, Replay
  <2>4. Replay(i - 1) \in Gamestate
    BY <2>1, LineTypes
  <2>5. QED
    BY <2>2, <2>3, <2>4, TurnEndsReady
<1>4. QED
  BY <1>2, <1>3

(* The log of the next state starts with the first n lines of this one.    *)
SameLines(n) == \A i \in 1..n : log'[i] = log[i]

(* The save lines among the first lines stay, if the lines do.             *)
LEMMA SavesKept ==
    ASSUME NEW n \in Nat, SameLines(n), NEW m \in 0..n
    PROVE  SavesUpTo(m)' = SavesUpTo(m)
BY DEF SavesUpTo, SameLines

(* The save before a line is the latest among the lines before it.         *)
LEMMA PreviousSaveIs ==
    ASSUME NEW i
    PROVE  PreviousSave(i) = Max(SavesUpTo(i - 1))
BY DEF PreviousSave, SavesUpTo

(* A log that is cut after a line stays sound.                             *)
LEMMA PrefixSound ==
    ASSUME TypeOK, LogIsSound, NEW n \in 1..Len(log), SameLines(n), log' # <<>>
    PROVE  /\ log'[1] = Backup(<<>>)
           /\ \A i \in 2..n :
                 /\ IsSave(log'[i]) =>
                       /\ log'[i].state = Replay(i - 1)'
                       /\ log'[i].kind = "diff" => log'[i].base = log'[PreviousSave(i)'].state
                 /\ ~IsSave(log'[i]) => log'[i].state = Append(Replay(i - 1)', log'[i].kind)
           /\ \A i \in 1..(n - 1) : LineFits(i)'
<1>1. Len(log) \in Nat /\ n \in Nat /\ n >= 1
  BY DEF TypeOK
<1>2. log'[1] = Backup(<<>>)
  BY <1>1, LogStarts DEF SameLines
<1>3. ASSUME NEW i \in 2..n
      PROVE  /\ IsSave(log'[i]) =>
                   /\ log'[i].state = Replay(i - 1)'
                   /\ log'[i].kind = "diff" => log'[i].base = log'[PreviousSave(i)'].state
             /\ ~IsSave(log'[i]) => log'[i].state = Append(Replay(i - 1)', log'[i].kind)
  <2>1. log'[i] = log[i] /\ log'[i - 1] = log[i - 1] /\ i \in 2..Len(log)
    BY <1>1 DEF SameLines
  <2>2. PreviousSave(i)' = PreviousSave(i)
    <3>1. i - 1 \in 0..n
      BY <1>1
    <3>2. QED
      BY <1>1, <3>1, SavesKept, PreviousSaveIs DEF PreviousSave, SavesUpTo
  <2>3. log'[PreviousSave(i)] = log[PreviousSave(i)]
    <3>1. i - 1 \in Nat /\ i - 1 >= 1
      BY <1>1
    <3>2. PreviousSave(i) \in 1..(i - 1)
      BY <3>1, LatestSave, LogStarts, PreviousSaveIs
    <3>3. QED
      BY <1>1, <3>2 DEF SameLines
  <2>4. QED
    BY <2>1, <2>2, <2>3 DEF LogIsSound, SavesAreTrue, InputsAreTrue, Replay
<1>4. ASSUME NEW i \in 1..(n - 1)
      PROVE  LineFits(i)'
  <2>1. log'[i] = log[i] /\ log'[i + 1] = log[i + 1] /\ i \in 1..(Len(log) - 1)
    BY <1>1 DEF SameLines
  <2>2. QED
    BY <2>1 DEF LogIsSound, LogIsPlayable, LineFits, Replay
<1>5. QED
  BY <1>2, <1>3, <1>4

(* What a line must be to be appended.                                     *)
Follows(line) ==
    IF line.kind \in {"backup", "diff"}
    THEN /\ UnsavedTurn(Len(log)) /\ line.state = Replay(Len(log))
         /\ line.kind = "diff" => line.base = log[Max(SavesUpTo(Len(log)))].state
    ELSE /\ ~UnsavedTurn(Len(log)) /\ line.state = Append(Replay(Len(log)), line.kind)
         /\ line.kind \in Expects(Replay(Len(log))) \cup
                          (IF AsksUser(Replay(Len(log))) THEN {"Q"} ELSE {})

(* Cutting the log after a line leaves it sound.                           *)
LEMMA CutSound ==
    ASSUME TypeOK, LogIsSound, NEW n \in 1..Len(log), log' = SubSeq(log, 1, n)
    PROVE  LogIsSound' /\ Len(log') = n /\ SameLines(n)
<1>1. Len(log) \in Nat /\ log \in Seq(LineType)
  BY DEF TypeOK
<1>2. Len(log') = n /\ SameLines(n) /\ log' # <<>>
  BY <1>1 DEF SameLines
<1>3. QED
  BY <1>2, PrefixSound DEF LogIsSound, SavesAreTrue, InputsAreTrue, LogIsPlayable

(* Appending a line that follows leaves the log sound.                     *)
LEMMA AppendSound ==
    ASSUME TypeOK, LogIsSound, NEW line \in LineType, Follows(line),
           log' = Append(log, line)
    PROVE  LogIsSound' /\ Len(log') = Len(log) + 1 /\ SameLines(Len(log))
           /\ log'[Len(log) + 1] = line
<1>1. Len(log) \in Nat /\ log \in Seq(LineType) /\ log # <<>> /\ Len(log) >= 1
  BY LogStarts DEF TypeOK
<1> PICK n \in Nat : n = Len(log)
  BY <1>1
<1>2. log \in Seq(LineType) /\ n \in 1..n /\ log # <<>> /\ n \in 1..Len(log)
  BY <1>1
<1>3. Len(log') = n + 1 /\ SameLines(n) /\ log' # <<>> /\ log'[n + 1] = line /\ log'[n] = log[n]
  BY <1>2 DEF SameLines
<1>4. IsSave(line) <=> line.kind \in {"backup", "diff"}
  BY DEF IsSave
<1>5. PreviousSave(n + 1)' = Max(SavesUpTo(n)) /\ log'[Max(SavesUpTo(n))] = log[Max(SavesUpTo(n))]
  <2>1. SavesUpTo(n)' = SavesUpTo(n)
    BY <1>2, <1>3, SavesKept
  <2>2. PreviousSave(n + 1)' = Max(SavesUpTo(n)')
    <3>1. PreviousSave(n + 1)' = Max(SavesUpTo((n + 1) - 1)')
      BY DEF PreviousSave, SavesUpTo
    <3>2. (n + 1) - 1 = n
      OBVIOUS
    <3>3. QED
      BY <3>1, <3>2
  <2>3. Max(SavesUpTo(n)) \in 1..n
    BY <1>2, LatestSave, LogStarts
  <2>4. QED
    BY <1>3, <2>1, <2>2, <2>3 DEF SameLines
<1>6. /\ IsSave(log'[n + 1]) =>
            /\ log'[n + 1].state = Replay(n)'
            /\ log'[n + 1].kind = "diff" => log'[n + 1].base = log'[PreviousSave(n + 1)'].state
      /\ ~IsSave(log'[n + 1]) => log'[n + 1].state = Append(Replay(n)', log'[n + 1].kind)
  BY <1>3, <1>4, <1>5 DEF Follows, Replay
<1>7. LineFits(n)'
  BY <1>3, <1>4 DEF Follows, LineFits, Replay, UnsavedTurn
<1>8. /\ log'[1] = Backup(<<>>)
      /\ \A i \in 2..n :
            /\ IsSave(log'[i]) =>
                  /\ log'[i].state = Replay(i - 1)'
                  /\ log'[i].kind = "diff" => log'[i].base = log'[PreviousSave(i)'].state
            /\ ~IsSave(log'[i]) => log'[i].state = Append(Replay(i - 1)', log'[i].kind)
      /\ \A i \in 1..(n - 1) : LineFits(i)'
  BY <1>2, <1>3, PrefixSound
<1>9. (n + 1) - 1 = n /\ 2..(n + 1) = 2..n \cup {n + 1} /\ 1..((n + 1) - 1) = 1..(n - 1) \cup {n}
  BY <1>2
<1>10. SavesAreTrue'
  BY <1>3, <1>6, <1>8, <1>9 DEF SavesAreTrue
<1>11. InputsAreTrue'
  BY <1>3, <1>6, <1>8, <1>9 DEF InputsAreTrue
<1>12. LogIsPlayable'
  BY <1>3, <1>7, <1>8, <1>9 DEF LogIsPlayable
<1>13. QED
  BY <1>3, <1>10, <1>11, <1>12 DEF LogIsSound

(* So does leaving it alone.                                               *)
LEMMA SameSound ==
    ASSUME LogIsSound, log' = log
    PROVE  LogIsSound'
BY DEF LogIsSound, SavesAreTrue, InputsAreTrue, LogIsPlayable, LineFits, Replay,
       PreviousSave

-----------------------------------------------------------------------------
(* The other processes: nothing they know is lost while the log grows.     *)
LogGrew ==
    /\ Len(log) <= Len(log') /\ SameLines(Len(log))
    /\ torn => torn'

(* A process that agrees with the lines it has read still does when the    *)
(* log has grown.                                                          *)
LEMMA AgreesLater ==
    ASSUME TypeOK, LogIsSound, LogGrew, NEW q \in Pid, Agrees(q), proc'[q] = proc[q]
    PROVE  /\ Agrees(q)' /\ proc[q].eog \in 1..Len(log)
           /\ log'[proc[q].eog] = log[proc[q].eog]
<1>1. PICK e \in 1..Len(log) : e = proc[q].eog
  BY DEF Agrees
<1>2. e \in Nat /\ Len(log) \in Nat /\ e \in 0..Len(log) /\ e >= 1 /\ e \in 1..Len(log')
  BY <1>1 DEF TypeOK, LogGrew
<1>3. SavesUpTo(e)' = SavesUpTo(e)
  BY <1>2, SavesKept DEF LogGrew
<1>4. Max(SavesUpTo(e)) \in 1..e
  BY <1>2, LatestSave, LogStarts
<1>5. log'[e] = log[e] /\ log'[Max(SavesUpTo(e))] = log[Max(SavesUpTo(e))]
  BY <1>2, <1>4 DEF LogGrew, SameLines
<1>6. /\ proc[q].state = Replay(e) /\ proc[q].bsl = Max(SavesUpTo(e))
      /\ proc[q].bsave = log[Max(SavesUpTo(e))].state
  BY <1>1 DEF Agrees, SavesUpTo
<1>7. proc'[q].bsl = Max({i \in 1..proc'[q].eog : IsSave(log'[i])})
  BY <1>1, <1>3, <1>6 DEF SavesUpTo
<1>8. proc'[q].state = log'[proc'[q].eog].state /\ proc'[q].bsave = log'[proc'[q].bsl].state
  BY <1>1, <1>5, <1>6 DEF Replay
<1>9. QED
  BY <1>1, <1>2, <1>5, <1>7, <1>8 DEF Agrees, Replay

(* Whatever else it knows also stays true.                                 *)
LEMMA KnowledgeKept ==
    ASSUME TypeOK, TypeOK', LogIsSound, LogGrew,
           NEW q \in Pid, Knows(q), proc'[q] = proc[q]
    PROVE  Knows(q)'
<1>1. /\ Len(log) \in Nat /\ Len(log) <= Len(log')
      /\ DOMAIN log = 1..Len(log) /\ DOMAIN log' = 1..Len(log')
      /\ \A i \in 1..Len(log) : log'[i] = log[i] /\ i \in 1..Len(log')
      /\ proc[q].eog \in Nat
  BY DEF TypeOK, LogGrew, SameLines, Process
<1>2. proc[q].pc \in Playing =>
        /\ Agrees(q) /\ Agrees(q)' /\ proc[q].eog \in 1..Len(log)
        /\ UnsavedTurn(proc[q].eog)' = UnsavedTurn(proc[q].eog)
        /\ log'[proc[q].eog] = log[proc[q].eog]
  BY AgreesLater DEF Knows, UnsavedTurn, Replay
<1>3. KnowsSave(q)'
  BY <1>1 DEF Knows, KnowsSave, IsBackup, At, Replay
<1>4. KnowsPlace(q)'
  <2>1. NothingThere(q)' => NothingThere(q)
    BY <1>1 DEF NothingThere, LineThere, PartialThere, LogGrew
  <2>2. QED
    BY <1>2, <2>1 DEF Knows, KnowsPlace, At, Mode, Prompts, Playing
<1>5. KnowsCut(q)'
  BY <1>1 DEF Knows, KnowsCut
<1>6. QED
  BY <1>2, <1>3, <1>4, <1>5 DEF Knows

-----------------------------------------------------------------------------
(* Types.                                                                  *)
Processes == [Pid -> Process]

(* Changing what one process knows keeps the type.                         *)
LEMMA OneProcess ==
    ASSUME proc \in Processes, NEW p \in Pid, NEW r \in Process,
           proc' = [proc EXCEPT ![p] = r]
    PROVE  proc' \in Processes
BY DEF Processes

(* A process that has not started, and one that opens the game again.      *)
LEMMA OffTyped ==
    /\ Off \in Process
    /\ \A w \in FollowModes \cup {"play"} : [Off EXCEPT !.pc = "open", !.wants = w] \in Process
<1>1. <<>> \in Gamestate
  BY DEF Gamestate
<1>2. QED
  BY <1>1 DEF Off, Process, PC, FollowMode

(* Leaving the game keeps the type.                                        *)
LEMMA LeaveTyped ==
    ASSUME proc \in Processes, NEW p \in Pid, Exit(p) \/ Restart(p)
    PROVE  proc' \in Processes
<1>1. proc[p].wants \in FollowModes \cup {"play"}
  BY DEF Processes, Process
<1>2. QED
  BY <1>1, OffTyped DEF Exit, Restart, Processes

(* Starting a recovery keeps the type.                                     *)
LEMMA RecoverTyped ==
    ASSUME proc \in Processes, NEW p \in Pid, NEW offset \in Nat, Recover(p, offset)
    PROVE  proc' \in Processes
<1>1. CASE Exit(p) \/ Restart(p)
  BY <1>1, LeaveTyped
<1>2. CASE proc' = [proc EXCEPT ![p].pc = "menu", ![p].cut = offset]
  <2>1. "menu" \in PC
    BY DEF PC
  <2>2. [proc[p] EXCEPT !.pc = "menu", !.cut = offset] \in Process
    BY <2>1 DEF Processes, Process
  <2>3. QED
    BY <1>2, <2>2 DEF Processes
<1>3. QED
  BY <1>1, <1>2 DEF Recover

(* The start of the turn is an offset.                                     *)
LEMMA StartOfTurnTyped ==
    ASSUME TypeOK, NEW p \in Pid
    PROVE  StartOfTurn(p) \in Nat /\ Len(log) \in Nat
BY DEF StartOfTurn, TypeOK, Process

(* A desync keeps the type.                                                *)
LEMMA DesyncTyped ==
    ASSUME TypeOK, NEW p \in Pid, Desync(p)
    PROVE  proc' \in Processes
BY LeaveTyped, RecoverTyped, StartOfTurnTyped DEF Desync, TypeOK, Processes

(* The line that a process finds has its type.                             *)
LEMMA LineTyped ==
    ASSUME TypeOK, NEW p \in Pid, LineThere(p)
    PROVE  /\ proc[p].eog + 1 \in 1..Len(log)
           /\ Line(p) \in LineType /\ Line(p).state \in Gamestate
<1>1. proc[p].eog + 1 \in 1..Len(log)
  BY DEF TypeOK, Process, LineThere
<1>2. QED
  BY <1>1, LineTypes DEF Line, Replay

(* A gamestate with one more input is a gamestate.                         *)
LEMMA AppendTyped ==
    ASSUME NEW s \in Gamestate, NEW k \in InputKind
    PROVE  Append(s, k) \in Gamestate
BY DEF Gamestate

(* Reading an input keeps the type.                                        *)
LEMMA ConsumeTyped ==
    ASSUME TypeOK, NEW p \in Pid, NEW pc \in PC, LineThere(p), Line(p).kind \in InputKind,
           Consume(p, pc)
    PROVE  proc' \in Processes
<1>1. Append(proc[p].state, Line(p).kind) \in Gamestate
  BY AppendTyped DEF TypeOK, Process
<1>2. QED
  BY <1>1 DEF Consume, Processes, Process, TypeOK

(* A refused update keeps the type.                                        *)
LEMMA RefusedTyped ==
    ASSUME TypeOK, NEW p \in Pid, Refused(p)
    PROVE  proc' \in Processes /\ UNCHANGED file
BY LeaveTyped DEF Refused, TypeOK, Processes

(* The lines a process appends.                                            *)
LEMMA LinesTyped ==
    ASSUME TypeOK, log # <<>>
    PROVE  /\ \A k \in InputKind : Input(k) \in LineType
           /\ \A s \in Gamestate, b \in Gamestate :
                 Backup(s) \in LineType /\ Diff(b, s) \in LineType
<1>1. Len(log) \in 1..Len(log)
  BY DEF TypeOK
<1>2. Replay(Len(log)) \in Gamestate
  BY <1>1, LineTypes
<1>3. \A k \in InputKind : Append(Replay(Len(log)), k) \in Gamestate
  BY <1>2, AppendTyped
<1>4. <<>> \in Gamestate
  BY DEF Gamestate
<1>5. QED
  BY <1>3, <1>4 DEF Input, Backup, Diff, LineType

(* A line appended to the log keeps its type.                              *)
LEMMA LogTyped ==
    ASSUME TypeOK, NEW line \in LineType, log' = Append(log, line)
    PROVE  log' \in Seq(LineType)
BY DEF TypeOK

FileTyped ==
    /\ log \in Seq(LineType) /\ torn \in BOOLEAN
    /\ status \in {"save", "done"} /\ count \in Nat /\ hint \in Nat

(* Recording an input keeps the type.                                      *)
LEMMA RecordTyped ==
    ASSUME TypeOK, log # <<>>, NEW p \in Pid, NEW kind \in InputKind, NEW pc \in PC,
           Record(p, kind, pc)
    PROVE  proc' \in Processes /\ FileTyped'
<1>1. CASE Refused(p)
  BY <1>1, RefusedTyped DEF FileTyped, TypeOK, file
<1>2. CASE /\ log' = Append(log, Input(kind))
           /\ proc' = [proc EXCEPT ![p].pc = pc, ![p].eog = Len(log) + 1,
                                   ![p].state = Append(@, kind)]
           /\ UNCHANGED <<torn, status, count, hint>>
  <2>1. log' \in Seq(LineType)
    BY <1>2, LinesTyped, LogTyped
  <2>2. Append(proc[p].state, kind) \in Gamestate /\ Len(log) + 1 \in Nat
    BY AppendTyped DEF TypeOK, Process
  <2>3. proc' \in Processes
    <3>1. [proc[p] EXCEPT !.pc = pc, !.eog = Len(log) + 1, !.state = Append(@, kind)] \in Process
      BY <2>2 DEF Process, TypeOK
    <3>2. QED
      BY <1>2, <3>1 DEF Processes, TypeOK
  <2>4. QED
    BY <1>2, <2>1, <2>3 DEF FileTyped, TypeOK
<1>3. QED
  BY <1>1, <1>2 DEF Record

(* What a recovery that is under way may rely on, for the file to keep its *)
(* type.                                                                   *)
CutKnown(p) == proc[p].rc = count => KnowsCut(p)

(* Cutting the log keeps the type, if the offset is in the file.           *)
LEMMA TruncateTyped ==
    ASSUME TypeOK, NEW p \in Pid, CutKnown(p), proc[p].pc \in {"menu", "undoing"},
           NEW pc \in PC, Truncate(p, pc)
    PROVE  proc' \in Processes /\ FileTyped'
<1>1. CASE Restart(p) /\ UNCHANGED file
  BY <1>1, LeaveTyped DEF TypeOK, Processes, FileTyped, file
<1>2. CASE /\ proc[p].rc = count
           /\ count' = count + 1 /\ status' = "save"
           /\ log' = SubSeq(log, 1, proc[p].cut) /\ torn' = FALSE
           /\ UNCHANGED hint
           /\ IF pc = "open" THEN Restart(p)
                             ELSE proc' = [proc EXCEPT ![p].pc = pc, ![p].rc = count + 1]
  <2>1. proc[p].cut \in 1..Len(log) /\ log \in Seq(LineType)
    BY <1>2 DEF CutKnown, KnowsCut, TypeOK
  <2>2. log' \in Seq(LineType)
    BY <1>2, <2>1
  <2>3. proc' \in Processes
    <3>1. CASE pc = "open"
      BY <1>2, <3>1, LeaveTyped DEF TypeOK, Processes
    <3>2. CASE pc # "open"
      <4>1. proc' = [proc EXCEPT ![p].pc = pc, ![p].rc = count + 1]
        BY <1>2, <3>2
      <4>2. proc \in Processes /\ count + 1 \in Nat
        BY DEF TypeOK, Processes
      <4>3. [proc[p] EXCEPT !.pc = pc, !.rc = count + 1] \in Process
        BY <4>2 DEF Processes, Process
      <4>4. QED
        BY <4>1, <4>2, <4>3 DEF Processes
    <3>3. QED
      BY <3>1, <3>2
  <2>4. count' \in Nat
    BY <1>2 DEF TypeOK
  <2>5. torn' \in BOOLEAN
    BY <1>2, Zenon
  <2>6. status' \in {"save", "done"} /\ hint' \in Nat
    BY <1>2 DEF TypeOK
  <2>7. QED
    BY <2>2, <2>3, <2>4, <2>5, <2>6 DEF FileTyped
<1>3. QED
  BY <1>1, <1>2 DEF Truncate

(* Going to another place in the code keeps the type.                      *)
LEMMA GotoTyped ==
    ASSUME TypeOK, NEW p \in Pid, NEW pc \in PC, Goto(p, pc)
    PROVE  proc' \in Processes
BY DEF TypeOK, Processes, Process, Goto

(* The steps that open the game keep the type.                             *)
LEMMA OpeningTyped ==
    ASSUME TypeOK, log # <<>>, NEW p \in Pid
    PROVE  /\ Open(p) => proc' \in Processes
           /\ UndoQuit(p) => proc' \in Processes
           /\ SyncHeader(p) => proc' \in Processes
           /\ SyncHint(p) => proc' \in Processes
           /\ SyncLoad(p) => proc' \in Processes
           /\ SyncNext(p) => proc' \in Processes
           /\ SyncDone(p) => proc' \in Processes
<1>1. Beginning \cup Playing \subseteq PC
  BY DEF Beginning, Playing, PC
<1>2. proc[p] \in Process /\ proc \in Processes /\ Len(log) - 1 \in Nat
  BY DEF TypeOK, Processes
<1>3. ASSUME Open(p) PROVE proc' \in Processes
  <2>1. PICK wants \in Wanted(p) :
           \/ Play(p, wants, "header", wants)
           \/ Play(p, wants, "undo", "recoverquit")
           \/ Exit(p)
    BY <1>3 DEF Open
  <2>2. wants \in FollowModes \cup {"play"} /\ wants \in FollowMode /\ "recoverquit" \in FollowMode
    BY <1>2, <2>1, FollowModeAssumption DEF Wanted, Process, FollowMode
  <2>3. "header" \in PC /\ "undo" \in PC
    BY DEF PC
  <2>4. ASSUME NEW pc \in PC, NEW mode \in FollowMode, Play(p, wants, pc, mode)
        PROVE  proc' \in Processes
    BY <1>2, <2>2, <2>4 DEF Play, Processes, Process
  <2>5. QED
    BY <1>2, <2>1, <2>2, <2>3, <2>4, LeaveTyped
<1>4. ASSUME UndoQuit(p) PROVE proc' \in Processes
  <2>1. "undoing" \in PC /\ "header" \in PC
    BY DEF PC
  <2>2. QED
    BY <1>2, <1>4, <2>1 DEF UndoQuit, Processes, Process, TypeOK
<1>5. ASSUME SyncHeader(p) PROVE proc' \in Processes
  <2>1. "hint" \in PC
    BY DEF PC
  <2>2. QED
    BY <1>2, <1>5, <2>1 DEF SyncHeader, Processes, Process, TypeOK
<1>6. ASSUME SyncHint(p) PROVE proc' \in Processes
  <2>1. "load" \in PC
    BY DEF PC
  <2>2. QED
    BY <1>2, <1>6, <2>1 DEF SyncHint, Processes, Process
<1>7. ASSUME SyncLoad(p) PROVE proc' \in Processes
  <2>1. "scan" \in PC
    BY DEF PC
  <2>2. CASE IsBackup(proc[p].bsl) /\ proc' = [proc EXCEPT ![p].pc = "scan",
                                  ![p].bsave = log[proc[p].bsl].state]
    <3>1. proc[p].bsl \in 1..Len(log)
      BY <2>2 DEF IsBackup, TypeOK
    <3>2. log[proc[p].bsl].state \in Gamestate
      BY <3>1, LineTypes DEF Replay
    <3>3. QED
      BY <1>2, <2>1, <2>2, <3>2 DEF Processes, Process
  <2>3. QED
    BY <1>7, <1>2, <2>2, LeaveTyped DEF SyncLoad
<1>8. ASSUME SyncNext(p) PROVE proc' \in Processes
  <2>1. PICK i \in SavesAfter(proc[p].bsl) :
           \/ proc' = [proc EXCEPT ![p].bsl = i, ![p].bsave = log[i].state]
           \/ Exit(p)
    <3>1. SavesAfter(proc[p].bsl) \in SUBSET Nat
      BY DEF SavesAfter, TypeOK
    <3>2. Min(SavesAfter(proc[p].bsl)) \in SavesAfter(proc[p].bsl)
      BY <1>8, <3>1, MinIsLeast DEF SyncNext
    <3>3. QED
      BY <1>8, <3>2 DEF SyncNext
  <2>2. i \in 1..Len(log)
    BY <2>1 DEF SavesAfter, TypeOK
  <2>3. log[i].state \in Gamestate /\ i \in Nat
    BY <2>2, LineTypes DEF Replay
  <2>4. CASE proc' = [proc EXCEPT ![p].bsl = i, ![p].bsave = log[i].state]
    BY <1>2, <2>3, <2>4 DEF Processes, Process
  <2>5. QED
    BY <1>2, <2>1, <2>4, LeaveTyped
<1>9. ASSUME SyncDone(p) PROVE proc' \in Processes
  <2>1. CASE Recover(p, Len(log))
    BY <1>2, <2>1, RecoverTyped
  <2>2. CASE proc' = [proc EXCEPT ![p].pc = "ready", ![p].state = proc[p].bsave,
                  ![p].eog = IF proc[p].bsl <= Len(log) THEN proc[p].bsl
                                                        ELSE proc[p].bsl - 1]
    <3>1. "ready" \in PC
      BY DEF PC
    <3>2. (IF proc[p].bsl <= Len(log) THEN proc[p].bsl ELSE proc[p].bsl - 1) \in Nat
      BY <1>2 DEF Process
    <3>3. QED
      BY <1>2, <2>2, <3>1, <3>2 DEF Processes, Process
  <2>3. QED
    BY <1>9, <2>1, <2>2 DEF SyncDone
<1>10. QED
  BY <1>3, <1>4, <1>5, <1>6, <1>7, <1>8, <1>9

(* The steps of the main loop that only read keep the type.                *)
LEMMA PlayingTyped ==
    ASSUME TypeOK, log # <<>>, NEW p \in Pid
    PROVE  /\ ReplayCommand(p) => proc' \in Processes
           /\ RequestCommand(p) => proc' \in Processes
           /\ ServerCancel(p) => proc' \in Processes
           /\ ReplayTime(p) => proc' \in Processes
           /\ NoTime(p) => proc' \in Processes
           /\ ReplayAnswer(p) => proc' \in Processes
           /\ Prompt(p) => proc' \in Processes
           /\ EndCommand(p) => proc' \in Processes
           /\ Follow(p) => proc' \in Processes
<1>1. Beginning \cup Playing \subseteq PC /\ AllCommands \subseteq InputKind
      /\ {"time", "answer", "Q"} \subseteq InputKind
  BY DEF Beginning, Playing, PC, InputKind
<1>2. proc[p] \in Process /\ proc \in Processes /\ Len(log) \in Nat
  BY DEF TypeOK, Processes
<1>3. {"ready", "ask", "time", "stamp", "run", "prompt", "save", "follow"} \subseteq PC
  BY DEF PC
<1>4. ASSUME \/ Exit(p) \/ Desync(p) \/ Recover(p, Len(log)) \/ Recover(p, StartOfTurn(p))
             \/ \E pc \in PC : Goto(p, pc)
             \/ \E pc \in PC : LineThere(p) /\ Line(p).kind \in InputKind /\ Consume(p, pc)
      PROVE  proc' \in Processes
  BY <1>2, <1>4, LeaveTyped, DesyncTyped, RecoverTyped, StartOfTurnTyped, GotoTyped,
     ConsumeTyped
<1>5. ASSUME ReplayCommand(p) PROVE proc' \in Processes
  <2>1. CASE proc' = [proc EXCEPT ![p].pc = "follow", ![p].eof_reached = FALSE]
    BY <1>2, <1>3, <2>1 DEF Processes, Process
  <2>2. QED
    BY <1>5, <1>1, <1>3, <1>4, <2>1 DEF ReplayCommand, Finds
<1>6. ASSUME RequestCommand(p) PROVE proc' \in Processes
  BY <1>6, <1>3, <1>4 DEF RequestCommand
<1>7. ASSUME ServerCancel(p) PROVE proc' \in Processes
  BY <1>7, <1>3, <1>4 DEF ServerCancel
<1>8. ASSUME ReplayTime(p) PROVE proc' \in Processes
  BY <1>8, <1>1, <1>3, <1>4 DEF ReplayTime, Finds
<1>9. ASSUME NoTime(p) PROVE proc' \in Processes
  BY <1>9, <1>3, <1>4 DEF NoTime
<1>10. ASSUME ReplayAnswer(p) PROVE proc' \in Processes
  BY <1>10, <1>1, <1>3, <1>4 DEF ReplayAnswer, Finds
<1>11. ASSUME Prompt(p) PROVE proc' \in Processes
  BY <1>11, <1>3, <1>4 DEF Prompt
<1>12. ASSUME EndCommand(p) PROVE proc' \in Processes
  BY <1>12, <1>3, <1>4 DEF EndCommand
<1>13. ASSUME Follow(p) PROVE proc' \in Processes
  <2>1. CASE NoSaveYet(p)
    <3>1. TRUE \in BOOLEAN
      OBVIOUS
    <3>2. QED
      BY <1>2, <1>3, <2>1, <3>1 DEF NoSaveYet, Processes, Process
  <2>2. CASE LineThere(p) /\
             proc' = [proc EXCEPT ![p].pc = "ready", ![p].eog = @ + 1,
                         ![p].bsl = proc[p].eog + 1,
                         ![p].bsave = Line(p).state, ![p].state = Line(p).state]
    BY <1>2, <1>3, <2>2, LineTyped DEF Processes, Process
  <2>3. QED
    BY <1>13, <1>3, <1>4, <2>1, <2>2 DEF Follow
<1>14. QED
  BY <1>5, <1>6, <1>7, <1>8, <1>9, <1>10, <1>11, <1>12, <1>13

(* The steps that write to the file keep the type.                         *)
LEMMA WritingTyped ==
    ASSUME TypeOK, log # <<>>, NEW p \in Pid, CutKnown(p)
    PROVE  /\ UserCommand(p) => proc' \in Processes /\ FileTyped'
           /\ Quit(p) => proc' \in Processes /\ FileTyped'
           /\ RecordTime(p) => proc' \in Processes /\ FileTyped'
           /\ UserAnswer(p) => proc' \in Processes /\ FileTyped'
           /\ Detach(p) => proc' \in Processes /\ FileTyped'
           /\ Die(p) => proc' \in Processes /\ FileTyped'
           /\ Save(p) => proc' \in Processes /\ FileTyped'
           /\ LogGameOver(p) => proc' \in Processes /\ FileTyped'
           /\ RecoverSave(p) => proc' \in Processes /\ FileTyped'
           /\ RecoverQuit(p) => proc' \in Processes /\ FileTyped'
<1>1. Commands \subseteq InputKind /\ {"time", "answer", "Q"} \subseteq InputKind
  BY CommandKinds DEF InputKind
<1>2. proc[p] \in Process /\ proc \in Processes /\ Len(log) + 1 \in Nat
  BY DEF TypeOK, Processes
<1>3. {"open", "header", "ready", "time", "run", "over", "disclose", "ended",
      "follow"} \subseteq PC
  BY DEF PC
<1>4. UNCHANGED file => FileTyped'
  BY DEF TypeOK, FileTyped, file
<1>5. ASSUME \/ Refused(p)
             \/ Exit(p) /\ UNCHANGED file
             \/ \E k \in InputKind, pc \in PC : Record(p, k, pc)
             \/ /\ proc[p].pc \in {"menu", "undoing"}
                /\ \E pc \in PC : Truncate(p, pc)
      PROVE  proc' \in Processes /\ FileTyped'
  BY <1>2, <1>4, <1>5, RefusedTyped, LeaveTyped, RecordTyped, TruncateTyped
<1>6. ASSUME UserCommand(p) PROVE proc' \in Processes /\ FileTyped'
  BY <1>6, <1>1, <1>3, <1>5 DEF UserCommand
<1>7. ASSUME Quit(p) PROVE proc' \in Processes /\ FileTyped'
  BY <1>7, <1>1, <1>3, <1>5 DEF Quit
<1>8. ASSUME RecordTime(p) PROVE proc' \in Processes /\ FileTyped'
  BY <1>8, <1>1, <1>3, <1>5 DEF RecordTime
<1>9. ASSUME UserAnswer(p) PROVE proc' \in Processes /\ FileTyped'
  BY <1>9, <1>1, <1>3, <1>5 DEF UserAnswer
<1>10. ASSUME Detach(p) PROVE proc' \in Processes /\ FileTyped'
  BY <1>10, <1>5 DEF Detach
<1>11. ASSUME Die(p) PROVE proc' \in Processes /\ FileTyped'
  <2>1. CASE Goto(p, "ended") /\ UNCHANGED file
    BY <1>3, <1>4, <2>1, GotoTyped
  <2>2. CASE Record(p, "Q", "over")
    BY <1>1, <1>3, <1>5, <2>2
  <2>3. QED
    BY <1>11, <2>1, <2>2 DEF Die
<1>12. ASSUME Save(p) PROVE proc' \in Processes /\ FileTyped'
  <2>1. CASE Goto(p, "follow") /\ UNCHANGED file
    BY <1>3, <1>4, <2>1, GotoTyped
  <2>2. CASE /\ \/ /\ log' = Append(log, Backup(proc[p].state))
                   /\ hint' = Len(log) + 1
                \/ /\ log' = Append(log, Diff(proc[p].bsave, proc[p].state))
                   /\ UNCHANGED hint
             /\ proc' = [proc EXCEPT ![p].pc = "ready", ![p].eog = Len(log) + 1,
                            ![p].bsl = Len(log) + 1, ![p].bsave = proc[p].state]
             /\ UNCHANGED <<torn, status, count>>
    <3>1. proc[p].state \in Gamestate /\ proc[p].bsave \in Gamestate
      BY <1>2 DEF Process
    <3>2. Backup(proc[p].state) \in LineType /\ Diff(proc[p].bsave, proc[p].state) \in LineType
      BY <3>1, LinesTyped
    <3>3. log' \in Seq(LineType)
      BY <2>2, <3>2, LogTyped
    <3>4. hint' \in Nat
      BY <1>2, <2>2 DEF TypeOK
    <3>5. proc' \in Processes
      BY <1>2, <1>3, <2>2, <3>1 DEF Processes, Process
    <3>6. QED
      BY <2>2, <3>3, <3>4, <3>5 DEF FileTyped, TypeOK
  <2>3. QED
    BY <1>12, <1>5, <2>1, <2>2 DEF Save
<1>13. ASSUME LogGameOver(p) PROVE proc' \in Processes /\ FileTyped'
  <2>1. CASE /\ status' = "done" /\ Goto(p, "disclose")
             /\ UNCHANGED <<log, torn, count, hint>>
    BY <1>3, <2>1, GotoTyped DEF FileTyped, TypeOK
  <2>2. QED
    BY <1>13, <1>5, <2>1 DEF LogGameOver
<1>14. ASSUME RecoverSave(p) PROVE proc' \in Processes /\ FileTyped'
  BY <1>14, <1>3, <1>5 DEF RecoverSave, At
<1>15. ASSUME RecoverQuit(p) PROVE proc' \in Processes /\ FileTyped'
  BY <1>15, <1>3, <1>5 DEF RecoverQuit, At
<1>16. QED
  BY <1>6, <1>7, <1>8, <1>9, <1>10, <1>11, <1>12, <1>13, <1>14, <1>15

(* A panic keeps the types.                                                *)
LEMMA PanicTyped ==
    ASSUME TypeOK, NEW p \in Pid, Panic(p)
    PROVE  TypeOK'
<1>1. proc[p] \in Process /\ proc \in Processes
  BY DEF TypeOK, Processes
<1>2. proc' \in Processes
  <2>1. CASE Recover(p, StartOfTurn(p))
    BY <1>1, <2>1, RecoverTyped, StartOfTurnTyped
  <2>2. CASE proc' = [proc EXCEPT ![p].pc = "menu", ![p].mode = "play",
                                  ![p].cut = proc[p].eog]
    <3>1. "menu" \in PC /\ "play" \in FollowMode
      BY DEF PC, FollowMode
    <3>2. QED
      BY <1>1, <2>2, <3>1 DEF Processes, Process
  <2>3. QED
    BY <2>1, <2>2 DEF Panic
<1>3. panics' \in Nat /\ UNCHANGED <<file, entries, crashes>>
  BY DEF Panic, TypeOK
<1>4. QED
  BY <1>2, <1>3 DEF TypeOK, Processes, file

(* Being killed keeps the types.                                           *)
LEMMA CrashTyped ==
    ASSUME TypeOK, NEW p \in Pid, Crash(p)
    PROVE  TypeOK'
<1>1. proc' \in Processes
  BY LeaveTyped DEF Crash, TypeOK, Processes
<1>2. crashes' \in Nat /\ UNCHANGED <<entries, panics>>
  BY DEF Crash, TypeOK
<1>3. FileTyped'
  <2>1. CASE UNCHANGED file
    BY <2>1 DEF TypeOK, FileTyped, file
  <2>2. CASE torn' = TRUE /\ UNCHANGED <<log, status, count, hint>>
    BY <2>2 DEF TypeOK, FileTyped
  <2>3. CASE log' = Append(log, Backup(proc[p].state)) /\ UNCHANGED <<torn, status, count, hint>>
    <3>1. Backup(proc[p].state) \in LineType
      BY DEF TypeOK, Process, Backup, LineType, Gamestate
    <3>2. QED
      BY <2>3, <3>1, LogTyped DEF TypeOK, FileTyped
  <2>4. CASE count' = count + 1 /\ status' = "save" /\ UNCHANGED <<log, torn, hint>>
    BY <2>4 DEF TypeOK, FileTyped
  <2>5. QED
    BY <2>1, <2>2, <2>3, <2>4 DEF Crash
<1>4. QED
  BY <1>1, <1>2, <1>3 DEF TypeOK, Processes, FileTyped

(* Every step keeps the variables in their types.                          *)
LEMMA TypeStep ==
    ASSUME TypeOK, log # <<>>, \A p \in Pid : CutKnown(p), [Next]_vars
    PROVE  TypeOK'
<1> USE DEF bounds
<1>1. /\ UNCHANGED <<entries, panics, crashes>> => entries' \in Nat /\ panics' \in Nat /\ crashes' \in Nat
      /\ UNCHANGED file => FileTyped'
      /\ entries' = entries + 1 => entries' \in Nat
  BY DEF TypeOK, FileTyped, file
<1>2. CASE UNCHANGED vars
  BY <1>2 DEF vars, TypeOK
<1>3. ASSUME NEW p \in Pid, proc' \in Processes, FileTyped',
             UNCHANGED <<entries, panics, crashes>>
      PROVE  TypeOK'
  BY <1>1, <1>3 DEF TypeOK, Processes, FileTyped
<1>4. ASSUME NEW p \in Pid, Internal(p) PROVE TypeOK'
  <2>1. CASE \/ UndoQuit(p) \/ SyncHeader(p) \/ SyncHint(p) \/ SyncLoad(p)
             \/ SyncNext(p) \/ SyncDone(p)
    <3>1. proc' \in Processes
      BY <2>1, OpeningTyped
    <3>2. UNCHANGED <<file, entries, bounds>>
      BY <2>1 DEF UndoQuit, SyncHeader, SyncHint, SyncLoad, SyncNext, SyncDone
    <3>3. QED
      BY <1>1, <1>3, <3>1, <3>2
  <2>2. CASE \/ ReplayCommand(p) \/ RequestCommand(p) \/ ServerCancel(p) \/ ReplayTime(p)
             \/ NoTime(p) \/ ReplayAnswer(p) \/ Prompt(p) \/ EndCommand(p) \/ Follow(p)
    <3>1. proc' \in Processes
      BY <2>2, PlayingTyped
    <3>2. UNCHANGED <<file, entries, bounds>>
      BY <2>2 DEF ReplayCommand, RequestCommand, ServerCancel, ReplayTime, NoTime,
                  ReplayAnswer, Prompt, EndCommand, Follow, Reading
    <3>3. QED
      BY <1>1, <1>3, <3>1, <3>2
  <2>3. CASE RecordTime(p) \/ Die(p) \/ Save(p) \/ LogGameOver(p) \/ RecoverQuit(p)
    <3>1. proc' \in Processes /\ FileTyped'
      BY <2>3, WritingTyped
    <3>2. UNCHANGED <<entries, bounds>>
      BY <2>3 DEF RecordTime, Die, Save, LogGameOver, RecoverQuit
    <3>3. QED
      BY <1>3, <3>1, <3>2
  <2>4. QED
    BY <1>4, <2>1, <2>2, <2>3 DEF Internal
<1>5. ASSUME NEW p \in Pid, FromUser(p) PROVE TypeOK'
  <2>1. CASE Open(p)
    <3>1. proc' \in Processes
      BY <2>1, OpeningTyped
    <3>2. QED
      BY <1>1, <1>3, <2>1, <3>1 DEF Open
  <2>2. CASE UserCommand(p) \/ UserAnswer(p) \/ Detach(p) \/ Quit(p) \/ RecoverSave(p)
    <3>1. proc' \in Processes /\ FileTyped'
      BY <2>2, WritingTyped
    <3>2. UNCHANGED <<entries, bounds>>
      BY <2>2 DEF UserCommand, UserAnswer, Detach, Quit, RecoverSave
    <3>3. QED
      BY <1>3, <3>1, <3>2
  <2>3. CASE GameOver(p)
    <3>1. proc' \in Processes
      BY <2>3, LeaveTyped DEF GameOver, TypeOK, Processes
    <3>2. QED
      BY <1>1, <2>3, <3>1 DEF GameOver, TypeOK, Processes, FileTyped
  <2>4. QED
    BY <1>5, <2>1, <2>2, <2>3 DEF FromUser
<1>6. QED
  BY <1>2, <1>4, <1>5, PanicTyped, CrashTyped DEF Next

-----------------------------------------------------------------------------
(* One step of one process.                                                *)

OnlyMoves(p) == \A q \in Pid \ {p} : proc'[q] = proc[q]

(* It is enough to look at the process that takes the step.                *)
LEMMA StepOfOne ==
    ASSUME IInv, TypeOK', NEW p \in Pid, OnlyMoves(p), LogIsSound',
           (count' = count /\ LogGrew) \/ count' = count + 1,
           ProcessIsSound(p)'
    PROVE  IInv'
<1>1. count \in Nat /\ \A q \in Pid : proc[q].rc \in Nat
  BY DEF IInv, TypeOK, Process
<1>2. ASSUME NEW q \in Pid, q # p
      PROVE  ProcessIsSound(q)'
  <2>1. proc'[q] = proc[q] /\ ProcessIsSound(q)
    BY <1>2 DEF OnlyMoves, IInv
  <2>2. proc'[q].rc <= count' /\ NothingAwaited(q)'
    BY <1>1, <2>1 DEF ProcessIsSound, NothingAwaited
  <2>3. ASSUME proc'[q].rc = count'
        PROVE  Knows(q)'
    <3>1. count' = count /\ LogGrew
      BY <1>1, <2>1, <2>3 DEF ProcessIsSound
    <3>2. QED
      BY <2>1, <2>3, <3>1, KnowledgeKept DEF ProcessIsSound, IInv
  <2>4. QED
    BY <2>2, <2>3 DEF ProcessIsSound
<1>3. count' > 0
  BY <1>1 DEF IInv
<1>4. QED
  BY <1>2, <1>3 DEF IInv

(* What holds of a file that is left alone.                                *)
LEMMA FileSame ==
    ASSUME IInv, UNCHANGED file
    PROVE  LogIsSound' /\ count' = count /\ LogGrew /\ log' = log /\ torn' = torn
           /\ log # <<>> /\ Len(log) \in Nat /\ Len(log) >= 1
<1>1. log' = log /\ torn' = torn /\ count' = count
  BY DEF file
<1>2. log # <<>> /\ Len(log) \in Nat
  BY LogStarts DEF IInv, TypeOK
<1>3. QED
  BY <1>1, <1>2, SameSound DEF IInv, LogGrew, SameLines

(* A process that leaves knows nothing, and needs nothing.                 *)
LEMMA LeaveSound ==
    ASSUME IInv, NEW p \in Pid, Exit(p) \/ Restart(p), count' >= count, count' \in Nat
    PROVE  ProcessIsSound(p)' /\ OnlyMoves(p)
<1>1. /\ proc'[p].rc = 0 /\ proc'[p].pc \in Beginning /\ ~proc'[p].eof_reached
      /\ OnlyMoves(p)
  <2>1. proc \in [Pid -> Process]
    BY DEF IInv, TypeOK
  <2>2. PICK r \in {Off, [Off EXCEPT !.pc = "open", !.wants = proc[p].wants]} :
           proc' = [proc EXCEPT ![p] = r]
    BY DEF Exit, Restart
  <2>3. r.rc = 0 /\ r.pc \in {"off", "open"} /\ ~r.eof_reached
    <3>1. CASE r = Off
      BY <3>1 DEF Off
    <3>2. CASE r = [Off EXCEPT !.pc = "open", !.wants = proc[p].wants]
      BY <3>2 DEF Off
    <3>3. QED
      BY <3>1, <3>2
  <2>4. QED
    BY <2>1, <2>2, <2>3 DEF OnlyMoves, Beginning
<1>2. count' > 0
  BY DEF IInv, TypeOK
<1>3. QED
  BY <1>1, <1>2 DEF ProcessIsSound, NothingAwaited

(* A process that stays in the game.                                       *)
LEMMA MoveSound ==
    ASSUME IInv, NEW p \in Pid, count' = count, proc'[p].rc = proc[p].rc,
           proc'[p].pc \notin Beginning,
           proc[p].rc = count => Knows(p)'
    PROVE  ProcessIsSound(p)'
BY DEF IInv, ProcessIsSound, NothingAwaited

(* A process that starts a recovery has an offset that lies in the log, as *)
(* long as the count is the one it expects.                                *)
LEMMA RecoverSound ==
    ASSUME IInv, NEW p \in Pid, NEW offset \in Nat, UNCHANGED file,
           Recover(p, offset), proc[p].rc = count => offset >= 1
    PROVE  ProcessIsSound(p)' /\ OnlyMoves(p)
<1>1. log' = log /\ count' = count /\ count \in Nat /\ Len(log) \in Nat
  BY FileSame DEF IInv, TypeOK
<1>2. CASE Exit(p) \/ Restart(p)
  BY <1>1, <1>2, LeaveSound
<1>3. CASE /\ offset <= Len(log)
           /\ proc' = [proc EXCEPT ![p].pc = "menu", ![p].cut = offset]
  <2>1. /\ proc'[p].pc = "menu" /\ proc'[p].cut = offset /\ proc'[p].rc = proc[p].rc
        /\ OnlyMoves(p)
    BY <1>3 DEF OnlyMoves, IInv, TypeOK, Process
  <2>2. proc[p].rc = count => KnowsCut(p)'
    BY <1>1, <1>3, <2>1 DEF KnowsCut
  <2>3. Knows(p)' <=> KnowsCut(p)'
    BY <2>1 DEF Knows, KnowsSave, KnowsPlace, At, Playing
  <2>4. QED
    BY <1>1, <2>1, <2>2, <2>3, MoveSound DEF Beginning
<1>4. QED
  BY <1>2, <1>3 DEF Recover

(* What a process in the main loop has, if the count is the one it expects.*)
LEMMA AgreesMeans ==
    ASSUME TypeOK, LogIsSound, NEW p \in Pid, Agrees(p)
    PROVE  /\ proc[p].eog \in 1..Len(log) /\ proc[p].state = Replay(proc[p].eog)
           /\ proc[p].bsl = Max(SavesUpTo(proc[p].eog))
           /\ proc[p].bsl \in 1..proc[p].eog /\ proc[p].bsl \in 1..Len(log)
           /\ proc[p].bsave = Replay(proc[p].bsl)
           /\ proc[p].state \in Gamestate
           /\ StartOfTurn(p) = proc[p].bsl
<1>1. /\ proc[p].eog \in 1..Len(log) /\ proc[p].state = Replay(proc[p].eog)
      /\ proc[p].bsl = Max(SavesUpTo(proc[p].eog)) /\ proc[p].bsave = Replay(proc[p].bsl)
  BY DEF Agrees, SavesUpTo, Replay
<1>2. proc[p].eog \in Nat /\ proc[p].eog >= 1 /\ Len(log) \in Nat
  BY <1>1 DEF TypeOK
<1>3. proc[p].bsl \in 1..proc[p].eog
  BY <1>1, <1>2, LatestSave, LogStarts
<1>4. proc[p].bsl \in 1..Len(log) /\ proc[p].bsl <= Len(log)
  BY <1>1, <1>2, <1>3
<1>5. QED
  BY <1>1, <1>3, <1>4, LineTypes DEF StartOfTurn

(* What a process in the main loop knows, by its place.                    *)
LEMMA PlayingKnows ==
    ASSUME IInv, NEW p \in Pid, proc[p].pc \in Playing, proc[p].rc = count
    PROVE  Agrees(p) /\ KnowsPlace(p)
BY DEF IInv, ProcessIsSound, Knows

(* The turn can be undone: the start of the turn lies in the log.          *)
LEMMA DesyncSound ==
    ASSUME IInv, NEW p \in Pid, UNCHANGED file, proc[p].pc \in Playing,
           Desync(p) \/ Recover(p, StartOfTurn(p))
    PROVE  ProcessIsSound(p)' /\ OnlyMoves(p)
<1>1. StartOfTurn(p) \in Nat /\ count \in Nat /\ count' = count
  BY StartOfTurnTyped, FileSame DEF IInv, TypeOK
<1>2. proc[p].rc = count => StartOfTurn(p) >= 1
  BY PlayingKnows, AgreesMeans DEF IInv
<1>3. QED
  BY <1>1, <1>2, LeaveSound, RecoverSound DEF Desync

(* A step that leaves the file alone is about one process only.            *)
LEMMA FileUntouched ==
    ASSUME IInv, TypeOK', NEW p \in Pid, UNCHANGED file, OnlyMoves(p), ProcessIsSound(p)'
    PROVE  IInv'
BY FileSame, StepOfOne

(* Opening the game.                                                       *)
LEMMA OpeningSound ==
    ASSUME IInv, NEW p \in Pid, UNCHANGED file,
           \/ Open(p) \/ UndoQuit(p) \/ SyncHeader(p) \/ SyncHint(p) \/ SyncLoad(p)
           \/ SyncNext(p) \/ SyncDone(p)
    PROVE  ProcessIsSound(p)' /\ OnlyMoves(p)
<1> USE DEF Beginning
<1>1. /\ log' = log /\ torn' = torn /\ count' = count /\ count \in Nat
      /\ Len(log) \in Nat /\ Len(log) >= 1 /\ DOMAIN log = 1..Len(log)
  BY FileSame DEF IInv, TypeOK
<1>2. proc \in Processes /\ proc[p] \in Process /\ ProcessIsSound(p) /\ TypeOK /\ LogIsSound
  BY DEF IInv, TypeOK, Processes
<1>3. ASSUME Exit(p) PROVE ProcessIsSound(p)' /\ OnlyMoves(p)
  BY <1>1, <1>3, LeaveSound
<1>4. ASSUME Open(p) PROVE ProcessIsSound(p)' /\ OnlyMoves(p)
  <2>1. PICK wants \in Wanted(p) :
           \/ Play(p, wants, "header", wants)
           \/ Play(p, wants, "undo", "recoverquit")
           \/ Exit(p)
    BY <1>4 DEF Open
  <2>2. ~proc[p].eof_reached
    BY <1>4, <1>2 DEF Open, ProcessIsSound, NothingAwaited
  <2>3. CASE ~Exit(p)
    <3>1. /\ proc'[p].pc \in {"header", "undo"} /\ ~proc'[p].eof_reached
          /\ proc'[p].rc = proc[p].rc /\ OnlyMoves(p)
      BY <1>2, <2>1, <2>2, <2>3 DEF Play, Processes, Process, OnlyMoves
    <3>2. Knows(p)'
      BY <3>1 DEF Knows, KnowsSave, KnowsPlace, KnowsCut, At, Playing
    <3>3. QED
      BY <1>1, <1>2, <3>1, <3>2 DEF ProcessIsSound, NothingAwaited
  <2>4. QED
    BY <1>3, <2>1, <2>3
<1>5. ASSUME UndoQuit(p) PROVE ProcessIsSound(p)' /\ OnlyMoves(p)
  <2>1. ~proc[p].eof_reached
    BY <1>5, <1>2 DEF UndoQuit, At, ProcessIsSound, NothingAwaited
  <2>2. /\ proc'[p].pc = (IF log[Len(log)].kind = "Q" THEN "undoing" ELSE "header")
        /\ ~proc'[p].eof_reached /\ proc'[p].rc = count /\ proc'[p].cut = Len(log) - 1
        /\ OnlyMoves(p)
    BY <1>5, <1>2, <2>1 DEF UndoQuit, Processes, Process, OnlyMoves
  <2>3. log[Len(log)].kind = "Q" => Len(log) - 1 \in 1..Len(log)
    BY <1>1, <1>2, LogStarts DEF Backup
  <2>4. Knows(p)'
    BY <1>1, <2>2, <2>3 DEF Knows, KnowsSave, KnowsPlace, KnowsCut, At, Playing
  <2>5. QED
    BY <1>1, <2>2, <2>4 DEF ProcessIsSound, NothingAwaited
<1>6. ASSUME SyncHeader(p) PROVE ProcessIsSound(p)' /\ OnlyMoves(p)
  <2>1. ~proc[p].eof_reached
    BY <1>6, <1>2 DEF SyncHeader, At, ProcessIsSound, NothingAwaited
  <2>2. /\ proc'[p].pc = "hint" /\ ~proc'[p].eof_reached /\ proc'[p].rc = count
        /\ OnlyMoves(p)
    BY <1>6, <1>2, <2>1 DEF SyncHeader, Processes, Process, OnlyMoves
  <2>3. Knows(p)'
    BY <2>2 DEF Knows, KnowsSave, KnowsPlace, KnowsCut, At, Playing
  <2>4. QED
    BY <1>1, <2>2, <2>3 DEF ProcessIsSound, NothingAwaited
<1>7. ASSUME SyncHint(p) PROVE ProcessIsSound(p)' /\ OnlyMoves(p)
  <2>1. ~proc[p].eof_reached
    BY <1>7, <1>2 DEF SyncHint, At, ProcessIsSound, NothingAwaited
  <2>2. /\ proc'[p].pc = "load" /\ ~proc'[p].eof_reached /\ proc'[p].rc = proc[p].rc
        /\ proc'[p].bsl = (IF IsBackup(proc[p].bsl) THEN proc[p].bsl ELSE 1)
        /\ OnlyMoves(p)
    BY <1>7, <1>2, <2>1 DEF SyncHint, Processes, Process, OnlyMoves
  <2>3. IsBackup(1)
    BY <1>1, <1>2, LogStarts DEF IsBackup, Backup
  <2>4. IsBackup(proc[p].bsl)' <=> IsBackup(proc'[p].bsl)
    BY <1>1 DEF IsBackup
  <2>5. Knows(p)'
    BY <1>1, <2>2, <2>3, <2>4 DEF Knows, KnowsSave, KnowsPlace, KnowsCut, At, Playing
  <2>6. QED
    BY <1>1, <1>2, <2>2, <2>5 DEF ProcessIsSound, NothingAwaited
<1>8. ASSUME SyncLoad(p) PROVE ProcessIsSound(p)' /\ OnlyMoves(p)
  <2>1. ~proc[p].eof_reached
    BY <1>8, <1>2 DEF SyncLoad, At, ProcessIsSound, NothingAwaited
  <2>2. CASE IsBackup(proc[p].bsl) /\ ~Exit(p)
    <3>1. /\ proc'[p].pc = "scan" /\ ~proc'[p].eof_reached /\ proc'[p].rc = proc[p].rc
          /\ proc'[p].bsl = proc[p].bsl /\ proc'[p].bsave = log[proc[p].bsl].state
          /\ OnlyMoves(p)
      BY <1>8, <1>2, <2>1, <2>2 DEF SyncLoad, Processes, Process, OnlyMoves
    <3>2. proc[p].bsl \in 1..Len(log) /\ IsSave(log[proc[p].bsl])
      BY <1>1, <2>2 DEF IsBackup, IsSave
    <3>3. Knows(p)'
      BY <1>1, <3>1, <3>2 DEF Knows, KnowsSave, KnowsPlace, KnowsCut, At, Playing, Replay
    <3>4. QED
      BY <1>1, <1>2, <3>1, <3>3 DEF ProcessIsSound, NothingAwaited
  <2>3. QED
    BY <1>8, <1>3, <2>2 DEF SyncLoad
<1>9. ASSUME SyncNext(p) PROVE ProcessIsSound(p)' /\ OnlyMoves(p)
  <2>1. ~proc[p].eof_reached /\ proc[p].pc = "scan"
    BY <1>9, <1>2 DEF SyncNext, At, ProcessIsSound, NothingAwaited
  <2>2. PICK i \in 1..Len(log) :
           /\ IsSave(log[i])
           /\ \/ proc' = [proc EXCEPT ![p].bsl = i, ![p].bsave = log[i].state]
              \/ Exit(p)
    <3>1. SavesAfter(proc[p].bsl) \in SUBSET Nat /\ SavesAfter(proc[p].bsl) # {}
      BY <1>1, <1>9 DEF SavesAfter, SyncNext
    <3>2. Min(SavesAfter(proc[p].bsl)) \in SavesAfter(proc[p].bsl)
      BY <3>1, MinIsLeast
    <3>3. Min(SavesAfter(proc[p].bsl)) \in 1..Len(log) /\ IsSave(log[Min(SavesAfter(proc[p].bsl))])
      BY <1>1, <3>2 DEF SavesAfter
    <3>4. QED
      BY <1>9, <3>3 DEF SyncNext
  <2>3. CASE ~Exit(p)
    <3>1. /\ proc'[p].pc = "scan" /\ ~proc'[p].eof_reached /\ proc'[p].rc = proc[p].rc
          /\ proc'[p].bsl = i /\ proc'[p].bsave = log[i].state
          /\ OnlyMoves(p)
      BY <1>2, <2>1, <2>2, <2>3 DEF Processes, Process, OnlyMoves
    <3>2. Knows(p)'
      BY <1>1, <2>2, <3>1 DEF Knows, KnowsSave, KnowsPlace, KnowsCut, At, Playing, Replay
    <3>3. QED
      BY <1>1, <1>2, <3>1, <3>2 DEF ProcessIsSound, NothingAwaited
  <2>4. QED
    BY <1>3, <2>2, <2>3
<1>10. ASSUME SyncDone(p) PROVE ProcessIsSound(p)' /\ OnlyMoves(p)
  <2>1. ~proc[p].eof_reached /\ proc[p].pc = "scan" /\ SavesAfter(proc[p].bsl) = {}
    BY <1>10, <1>2 DEF SyncDone, At, ProcessIsSound, NothingAwaited
  <2>2. CASE Recover(p, Len(log))
    BY <1>1, <2>2, RecoverSound
  <2>3. CASE proc' = [proc EXCEPT ![p].pc = "ready", ![p].state = proc[p].bsave,
                  ![p].eog = IF proc[p].bsl <= Len(log) THEN proc[p].bsl
                                                        ELSE proc[p].bsl - 1]
    <3>1. /\ proc'[p].pc = "ready" /\ ~proc'[p].eof_reached /\ proc'[p].rc = proc[p].rc
          /\ proc'[p].bsl = proc[p].bsl /\ proc'[p].bsave = proc[p].bsave
          /\ proc'[p].state = proc[p].bsave
          /\ proc'[p].eog = (IF proc[p].bsl <= Len(log) THEN proc[p].bsl ELSE proc[p].bsl - 1)
          /\ OnlyMoves(p)
      BY <1>2, <2>1, <2>3 DEF Processes, Process, OnlyMoves
    <3>2. ASSUME proc[p].rc = count
          PROVE  Knows(p)'
      <4>1. PICK b \in 1..Len(log) :
               /\ b = proc[p].bsl /\ IsSave(log[b]) /\ proc[p].bsave = Replay(b)
        BY <1>2, <2>1, <3>2 DEF ProcessIsSound, Knows, KnowsSave, At
      <4>2. proc'[p].eog = b /\ b \in Nat /\ b \in 1..b
        BY <1>1, <3>1, <4>1
      <4>3. Max(SavesUpTo(b)) = b
        BY <4>1, <4>2, LatestSaveIs
      <4>4. Agrees(p)'
        BY <1>1, <3>1, <4>1, <4>2, <4>3 DEF Agrees, SavesUpTo, Replay
      <4>5. Expects(proc'[p].state) = Commands
        BY <1>2, <3>1, <4>1, SavedReady
      <4>6. KnowsPlace(p)'
        BY <1>1, <3>1, <4>1, <4>2, <4>5 DEF KnowsPlace, At, UnsavedTurn
      <4>7. QED
        BY <3>1, <4>4, <4>6 DEF Knows, KnowsSave, KnowsCut, At
    <3>3. QED
      BY <1>1, <3>1, <3>2, MoveSound
  <2>4. QED
    BY <1>10, <2>2, <2>3 DEF SyncDone
<1>11. QED
  BY <1>4, <1>5, <1>6, <1>7, <1>8, <1>9, <1>10

(* Reading an input line.                                                  *)
LEMMA ConsumeAgrees ==
    ASSUME IInv, NEW p \in Pid, UNCHANGED file, proc[p].pc \in Playing, proc[p].rc = count,
           NEW pc, LineThere(p), Line(p).kind \in InputKind, Consume(p, pc)
    PROVE  /\ Agrees(p)' /\ proc[p].state \in Gamestate
           /\ proc'[p].state = Append(proc[p].state, Line(p).kind)
           /\ ~IsSave(log'[proc'[p].eog])
<1>1. /\ log' = log /\ Len(log) \in Nat /\ TypeOK /\ LogIsSound
      /\ proc \in Processes /\ proc[p] \in Process
  BY FileSame DEF IInv, TypeOK, Processes
<1>2. Agrees(p)
  BY PlayingKnows
<1>3. PICK e \in Nat : e = proc[p].eog
  BY <1>1 DEF Process
<1>4. e \in 1..Len(log) /\ e + 1 \in 1..Len(log) /\ e + 1 \in 2..Len(log) /\ e >= 1
  BY <1>1, <1>2, <1>3 DEF Agrees, LineThere
<1>5. log[e + 1] = Line(p) /\ ~IsSave(log[e + 1])
  BY <1>1, <1>3, <1>4, LineTypes DEF Line
<1>6. /\ proc'[p].eog = e + 1 /\ proc'[p].bsl = proc[p].bsl /\ proc'[p].bsave = proc[p].bsave
      /\ proc'[p].state = Append(proc[p].state, Line(p).kind)
  BY <1>1, <1>3 DEF Consume, Processes, Process
<1>7. /\ proc[p].state = Replay(e) /\ proc[p].bsl = Max(SavesUpTo(e)) /\ proc[p].bsl \in 1..e
      /\ proc[p].bsave = Replay(proc[p].bsl) /\ proc[p].state \in Gamestate
  BY <1>1, <1>2, <1>3, AgreesMeans
<1>8. Replay(e + 1) = Append(Replay(e), Line(p).kind)
  <2>1. (e + 1) - 1 = e
    OBVIOUS
  <2>2. log[e + 1].state = Append(Replay((e + 1) - 1), log[e + 1].kind)
    BY <1>1, <1>4, <1>5 DEF LogIsSound, InputsAreTrue
  <2>3. QED
    BY <1>5, <2>1, <2>2 DEF Replay
<1>9. SavesUpTo(e + 1) = SavesUpTo(e)
  BY <1>4, <1>5 DEF SavesUpTo
<1>10. Agrees(p)'
  BY <1>1, <1>4, <1>6, <1>7, <1>8, <1>9 DEF Agrees, SavesUpTo, Replay
<1>11. QED
  BY <1>1, <1>5, <1>6, <1>7, <1>10

(* A process that reads an input line knows what the engine wants next.    *)
LEMMA ConsumeSound ==
    ASSUME IInv, NEW p \in Pid, UNCHANGED file, proc[p].pc \in Playing,
           NEW pc, LineThere(p), Line(p).kind \in InputKind, Consume(p, pc),
           \/ Line(p).kind \in AllCommands \cup {"answer"} /\ pc = "time"
           \/ Line(p).kind = "time" /\ pc = "run"
    PROVE  ProcessIsSound(p)' /\ OnlyMoves(p)
<1>1. count' = count /\ proc \in Processes /\ proc[p] \in Process
  BY FileSame DEF IInv, TypeOK, Processes
<1>2. /\ proc'[p].pc = pc /\ ~proc'[p].eof_reached /\ proc'[p].rc = proc[p].rc
      /\ OnlyMoves(p)
  BY <1>1 DEF Consume, Processes, Process, OnlyMoves
<1>3. ASSUME proc[p].rc = count
      PROVE  Knows(p)'
  <2>1. /\ Agrees(p)' /\ proc[p].state \in Gamestate
        /\ proc'[p].state = Append(proc[p].state, Line(p).kind)
        /\ ~IsSave(log'[proc'[p].eog])
    BY <1>3, ConsumeAgrees
  <2>2. CASE Line(p).kind \in AllCommands \cup {"answer"} /\ pc = "time"
    <3>1. Expects(proc'[p].state) = {"time"}
      BY <2>1, <2>2, ExpectsTime
    <3>2. KnowsPlace(p)'
      BY <1>2, <2>2, <3>1 DEF KnowsPlace, At
    <3>3. QED
      BY <1>2, <2>1, <2>2, <3>2 DEF Knows, KnowsSave, KnowsCut, At
  <2>3. CASE Line(p).kind = "time" /\ pc = "run"
    <3>1. Expects(proc'[p].state) \in {{"answer"}, {"Q"}, Commands}
      BY <2>1, <2>3, ExpectsAfterTime
    <3>2. KnowsPlace(p)'
      BY <1>2, <2>1, <2>3, <3>1 DEF KnowsPlace, At
    <3>3. QED
      BY <1>2, <2>1, <2>3, <3>2 DEF Knows, KnowsSave, KnowsCut, At
  <2>4. QED
    BY <2>2, <2>3
<1>4. pc \notin Beginning
  BY DEF Beginning
<1>5. QED
  BY <1>1, <1>2, <1>3, <1>4, MoveSound

(* Going on without reading anything.                                      *)
LEMMA AgreesStays ==
    ASSUME IInv, NEW p \in Pid, UNCHANGED file, proc[p].pc \in Playing, proc[p].rc = count,
           proc'[p].eog = proc[p].eog, proc'[p].state = proc[p].state,
           proc'[p].bsl = proc[p].bsl, proc'[p].bsave = proc[p].bsave
    PROVE  /\ Agrees(p)' /\ proc[p].eog \in 1..Len(log)
           /\ UnsavedTurn(proc[p].eog)' <=> UnsavedTurn(proc[p].eog)
           /\ UnsavedTurn(proc[p].eog) <=>
                 EndsTurn(proc[p].state) /\ ~IsSave(log[proc[p].eog])
<1>1. Agrees(p) /\ log' = log
  BY PlayingKnows, FileSame
<1>2. QED
  BY <1>1 DEF Agrees, Replay, UnsavedTurn

(* A process may go to another place of the main loop if what it knows     *)
(* there is enough for the next place.                                     *)
LEMMA GotoSound ==
    ASSUME IInv, NEW p \in Pid, UNCHANGED file, proc[p].pc \in Playing,
           NEW pc \in Playing, Goto(p, pc),
           proc[p].rc = count =>
              \/ {proc[p].pc, pc} \subseteq {"ready", "ask"}
              \/ {proc[p].pc, pc} \subseteq {"time", "stamp"}
              \/ proc[p].pc = "run" /\ pc = "prompt" /\ Prompts(p)
              \/ proc[p].pc = "prompt" /\ pc = "run"
              \/ proc[p].pc = "run" /\ pc = "ended"
              \/ /\ proc[p].pc = "run" /\ pc = "ready" /\ ~EndsTurn(proc[p].state)
                 /\ ~Prompts(p) /\ ~Dies(p)
              \/ /\ proc[p].pc = "run" /\ pc \in {"save", "follow"} /\ EndsTurn(proc[p].state)
                 /\ pc = "follow" => Mode(p) # "play"
    PROVE  ProcessIsSound(p)' /\ OnlyMoves(p)
<1>1. count' = count /\ log' = log /\ proc \in Processes /\ proc[p] \in Process
  BY FileSame DEF IInv, TypeOK, Processes
<1>2. /\ proc'[p].pc = pc /\ OnlyMoves(p)
      /\ proc'[p].eof_reached = proc[p].eof_reached /\ proc'[p].rc = proc[p].rc
      /\ proc'[p].mode = proc[p].mode
      /\ proc'[p].eog = proc[p].eog /\ proc'[p].state = proc[p].state
      /\ proc'[p].bsl = proc[p].bsl /\ proc'[p].bsave = proc[p].bsave
  BY <1>1 DEF Goto, Processes, Process, OnlyMoves
<1>3. ASSUME proc[p].rc = count
      PROVE  Knows(p)'
  <2>1. /\ Agrees(p)' /\ proc[p].eog \in 1..Len(log)
        /\ UnsavedTurn(proc[p].eog)' <=> UnsavedTurn(proc[p].eog)
        /\ UnsavedTurn(proc[p].eog) <=>
              EndsTurn(proc[p].state) /\ ~IsSave(log[proc[p].eog])
    BY <1>2, <1>3, AgreesStays
  <2>2. KnowsPlace(p)
    BY <1>3, PlayingKnows
  <2>3. /\ Mode(p)' = Mode(p) /\ Prompts(p)' = Prompts(p)
        /\ \A here \in PC : At(p, here)' <=> pc = here
        /\ IsSave(log'[proc'[p].eog]) <=> IsSave(log[proc[p].eog])
    BY <1>1, <1>2 DEF Mode, Prompts, At
  <2>4. KnowsPlace(p)'
    <3>1. CASE {proc[p].pc, pc} \subseteq {"ready", "ask"}
      BY <1>2, <2>1, <2>2, <2>3, <3>1 DEF KnowsPlace, At
    <3>2. CASE {proc[p].pc, pc} \subseteq {"time", "stamp"}
      BY <1>2, <2>1, <2>2, <2>3, <3>2 DEF KnowsPlace, At, Playing
    <3>3. CASE proc[p].pc = "run" /\ pc = "prompt" /\ Prompts(p)
      BY <1>2, <2>1, <2>2, <2>3, <3>3 DEF KnowsPlace, At, Playing
    <3>4. CASE proc[p].pc = "prompt" /\ pc = "run"
      BY <1>2, <2>1, <2>2, <2>3, <3>4 DEF KnowsPlace, At, Playing, Prompts
    <3>5. CASE /\ proc[p].pc = "run" /\ pc = "ready" /\ ~EndsTurn(proc[p].state)
               /\ ~Prompts(p) /\ ~Dies(p)
      BY <1>2, <2>1, <2>2, <2>3, <3>5 DEF KnowsPlace, At, Playing, Prompts, Dies
    <3>6. CASE /\ proc[p].pc = "run" /\ pc \in {"save", "follow"} /\ EndsTurn(proc[p].state)
               /\ pc = "follow" => Mode(p) # "play"
      BY <1>2, <2>1, <2>2, <2>3, <3>6 DEF KnowsPlace, At, Playing
    <3>7. CASE proc[p].pc = "run" /\ pc = "ended"
      BY <1>2, <2>1, <2>2, <2>3, <3>7 DEF KnowsPlace, At, Playing
    <3>8. QED
      BY <1>3, <3>1, <3>2, <3>3, <3>4, <3>5, <3>6, <3>7
  <2>5. QED
    BY <1>2, <2>1, <2>4 DEF Knows, KnowsSave, KnowsCut, At, Playing
<1>4. pc \notin Beginning
  BY DEF Beginning, Playing
<1>5. QED
  BY <1>1, <1>2, <1>3, <1>4, MoveSound

(* Reading in the main loop.                                               *)
LEMMA ReadingSound ==
    ASSUME IInv, NEW p \in Pid, UNCHANGED file,
           \/ ReplayCommand(p) \/ RequestCommand(p) \/ ServerCancel(p) \/ ReplayTime(p)
           \/ NoTime(p) \/ ReplayAnswer(p) \/ Prompt(p) \/ EndCommand(p)
    PROVE  ProcessIsSound(p)' /\ OnlyMoves(p)
<1>1. /\ log' = log /\ count' = count /\ count \in Nat /\ Len(log) \in Nat /\ Len(log) >= 1
      /\ proc \in Processes /\ proc[p] \in Process
  BY FileSame DEF IInv, TypeOK, Processes
<1>2. {"ready", "ask", "time", "stamp", "run", "prompt", "save", "follow"} \subseteq Playing
  BY DEF Playing
<1>3. ASSUME Exit(p) \/ Recover(p, Len(log))
      PROVE  ProcessIsSound(p)' /\ OnlyMoves(p)
  BY <1>1, <1>3, LeaveSound, RecoverSound
<1>4. ASSUME proc[p].pc \in Playing, Desync(p) \/ Recover(p, StartOfTurn(p))
      PROVE  ProcessIsSound(p)' /\ OnlyMoves(p)
  BY <1>4, DesyncSound
<1>5. AllCommands \cup {"answer", "time"} \subseteq InputKind
  BY DEF InputKind
<1>6. ASSUME ReplayCommand(p) PROVE ProcessIsSound(p)' /\ OnlyMoves(p)
  <2>1. proc[p].pc = "ready"
    BY <1>6 DEF ReplayCommand, At
  <2>2. CASE Finds(p, AllCommands) /\ Consume(p, "time")
    BY <1>2, <1>5, <2>1, <2>2, ConsumeSound DEF Finds
  <2>3. CASE /\ proc[p].eof_reached
             /\ proc' = [proc EXCEPT ![p].pc = "follow", ![p].eof_reached = FALSE]
             /\ LineThere(p)
    <3>1. /\ proc'[p].pc = "follow" /\ ~proc'[p].eof_reached /\ OnlyMoves(p)
          /\ proc'[p].rc = proc[p].rc /\ proc'[p].mode = proc[p].mode
          /\ proc'[p].eog = proc[p].eog /\ proc'[p].state = proc[p].state
          /\ proc'[p].bsl = proc[p].bsl /\ proc'[p].bsave = proc[p].bsave
      BY <1>1, <2>3 DEF Processes, Process, OnlyMoves
    <3>2. ASSUME proc[p].rc = count
          PROVE  Knows(p)'
      <4>1. /\ Agrees(p)'
            /\ UnsavedTurn(proc[p].eog)' <=> UnsavedTurn(proc[p].eog)
        BY <1>2, <2>1, <3>1, <3>2, AgreesStays
      <4>2. UnsavedTurn(proc[p].eog) /\ Mode(p) # "play"
        BY <1>2, <2>1, <2>3, <3>2, PlayingKnows DEF KnowsPlace
      <4>3. Mode(p)' # "play"
        BY <3>1, <4>2 DEF Mode
      <4>4. KnowsPlace(p)'
        BY <3>1, <4>1, <4>2, <4>3 DEF KnowsPlace, At
      <4>5. QED
        BY <3>1, <4>1, <4>4 DEF Knows, KnowsSave, KnowsCut, At
    <3>3. QED
      BY <1>1, <3>1, <3>2, MoveSound DEF Beginning
  <2>4. QED
    BY <1>6, <1>2, <1>3, <1>4, <2>1, <2>2, <2>3 DEF ReplayCommand
<1>7. ASSUME RequestCommand(p) PROVE ProcessIsSound(p)' /\ OnlyMoves(p)
  BY <1>7, <1>2, <1>3, GotoSound DEF RequestCommand, At
<1>8. ASSUME ServerCancel(p) PROVE ProcessIsSound(p)' /\ OnlyMoves(p)
  BY <1>8, <1>2, GotoSound DEF ServerCancel, At
<1>9. ASSUME ReplayTime(p) PROVE ProcessIsSound(p)' /\ OnlyMoves(p)
  <2>1. CASE Finds(p, {"time"}) /\ Consume(p, "run")
    BY <1>9, <1>2, <1>5, <2>1, ConsumeSound DEF ReplayTime, At, Finds
  <2>2. QED
    BY <1>9, <1>2, <1>3, <1>4, <2>1 DEF ReplayTime, At
<1>10. ASSUME NoTime(p) PROVE ProcessIsSound(p)' /\ OnlyMoves(p)
  <2>1. proc[p].pc = "time"
    BY <1>10 DEF NoTime, At
  <2>2. Goto(p, "stamp") \/ Exit(p) \/ Recover(p, StartOfTurn(p))
    BY <1>10 DEF NoTime
  <2>3. CASE Goto(p, "stamp")
    BY <1>2, <2>1, <2>3, GotoSound
  <2>4. QED
    BY <1>2, <1>3, <1>4, <2>1, <2>2, <2>3
<1>11. ASSUME ReplayAnswer(p) PROVE ProcessIsSound(p)' /\ OnlyMoves(p)
  <2>1. CASE Finds(p, {"answer"}) /\ Consume(p, "time")
    BY <1>11, <1>2, <1>5, <2>1, ConsumeSound DEF ReplayAnswer, At, Finds
  <2>2. QED
    BY <1>11, <1>2, <1>3, <1>4, <2>1 DEF ReplayAnswer, At
<1>12. ASSUME Prompt(p) PROVE ProcessIsSound(p)' /\ OnlyMoves(p)
  <2>1. CASE Goto(p, "prompt")
    BY <1>12, <1>2, <2>1, GotoSound DEF Prompt, At
  <2>2. QED
    BY <1>12, <1>3, <2>1 DEF Prompt
<1>13. ASSUME EndCommand(p) PROVE ProcessIsSound(p)' /\ OnlyMoves(p)
  <2>1. proc[p].pc = "run" /\ ~Prompts(p) /\ ~Dies(p)
    BY <1>13 DEF EndCommand, At
  <2>2. \/ Goto(p, "ready") /\ ~EndsTurn(proc[p].state)
        \/ Goto(p, "save") /\ EndsTurn(proc[p].state)
        \/ Goto(p, "follow") /\ EndsTurn(proc[p].state) /\ Mode(p) # "play"
    <3>1. CASE ~EndsTurn(proc[p].state)
      BY <1>13, <3>1 DEF EndCommand
    <3>2. CASE EndsTurn(proc[p].state) /\ Mode(p) = "play"
      BY <1>13, <3>2 DEF EndCommand
    <3>3. CASE EndsTurn(proc[p].state) /\ Mode(p) # "play"
      BY <1>13, <3>3 DEF EndCommand
    <3>4. QED
      BY <3>1, <3>2, <3>3
  <2>3. QED
    BY <1>2, <2>1, <2>2, GotoSound
<1>14. QED
  BY <1>6, <1>7, <1>8, <1>9, <1>10, <1>11, <1>12, <1>13

(* What a process that waits for a save line finds.                        *)
LEMMA FollowFinds ==
    ASSUME IInv, NEW p \in Pid, At(p, "follow"), proc[p].rc = count, LineThere(p)
    PROVE  IsSave(Line(p)) /\ Applies(p, Line(p))
<1>1. TypeOK /\ LogIsSound /\ Len(log) \in Nat
  BY DEF IInv, TypeOK
<1>2. Agrees(p) /\ UnsavedTurn(proc[p].eog)
  BY PlayingKnows DEF At, Playing, KnowsPlace
<1>3. PICK e \in Nat : e = proc[p].eog
  BY <1>1 DEF TypeOK, Process
<1>4. e \in 1..(Len(log) - 1) /\ e + 1 \in 2..Len(log)
  BY <1>1, <1>2, <1>3 DEF Agrees, LineThere
<1>5. IsSave(log[e + 1]) /\ log[e + 1] = Line(p)
  BY <1>1, <1>2, <1>3, <1>4, NextLine DEF Line
<1>6. proc[p].bsl = Max(SavesUpTo(e)) /\ proc[p].bsave = log[proc[p].bsl].state
  BY <1>1, <1>2, <1>3, AgreesMeans DEF Replay
<1>7. PreviousSave(e + 1) = Max(SavesUpTo(e))
  <2>1. (e + 1) - 1 = e
    OBVIOUS
  <2>2. QED
    BY <2>1, PreviousSaveIs
<1>8. log[e + 1].kind = "diff" => log[e + 1].base = proc[p].bsave
  BY <1>1, <1>4, <1>5, <1>6, <1>7 DEF LogIsSound, SavesAreTrue
<1>9. QED
  BY <1>5, <1>8 DEF Applies, IsSave

(* Waiting for a save line, finding it or giving up leaves the process     *)
(* sound.                                                                  *)
LEMMA FollowSound ==
    ASSUME IInv, NEW p \in Pid, UNCHANGED file, Follow(p)
    PROVE  ProcessIsSound(p)' /\ OnlyMoves(p)
<1>1. /\ log' = log /\ count' = count /\ count \in Nat /\ Len(log) \in Nat /\ Len(log) >= 1
      /\ proc \in Processes /\ proc[p] \in Process /\ TypeOK /\ LogIsSound
      /\ proc[p].pc = "follow" /\ proc[p].pc \in Playing
  BY FileSame DEF IInv, TypeOK, Processes, Follow, At, Playing
<1>2. ASSUME /\ LineThere(p) /\ IsSave(Line(p))
             /\ proc' = [proc EXCEPT ![p].pc = "ready", ![p].eog = @ + 1,
                         ![p].bsl = proc[p].eog + 1,
                         ![p].bsave = Line(p).state, ![p].state = Line(p).state]
      PROVE  ProcessIsSound(p)' /\ OnlyMoves(p)
  <2>1. PICK e \in Nat : e = proc[p].eog + 1
    BY <1>1 DEF Process
  <2>2. /\ proc'[p].pc = "ready" /\ proc'[p].eof_reached = proc[p].eof_reached
        /\ proc'[p].rc = proc[p].rc
        /\ proc'[p].eog = e /\ proc'[p].bsl = e /\ proc'[p].state = Line(p).state
        /\ proc'[p].bsave = Line(p).state /\ OnlyMoves(p)
    BY <1>1, <1>2, <2>1 DEF Processes, Process, OnlyMoves
  <2>3. ASSUME proc[p].rc = count
        PROVE  Knows(p)'
    <3>1. e \in 1..Len(log) /\ e \in 1..e
      BY <1>1, <1>2, <2>1 DEF LineThere, Process
    <3>2. log[e] = Line(p) /\ IsSave(log[e]) /\ Line(p).state = Replay(e)
      BY <1>2, <2>1 DEF Line, Replay
    <3>3. Max(SavesUpTo(e)) = e
      BY <3>1, <3>2, LatestSaveIs
    <3>4. Agrees(p)'
      BY <1>1, <2>2, <3>1, <3>2, <3>3 DEF Agrees, SavesUpTo, Replay
    <3>5. Expects(proc'[p].state) = Commands
      BY <1>1, <2>2, <3>1, <3>2, SavedReady
    <3>6. ~proc'[p].eof_reached
      BY <1>1, <2>2, <2>3, PlayingKnows DEF KnowsPlace
    <3>7. KnowsPlace(p)'
      BY <1>1, <2>2, <3>2, <3>5, <3>6 DEF KnowsPlace, At, UnsavedTurn
    <3>8. QED
      BY <2>2, <3>4, <3>7 DEF Knows, KnowsSave, KnowsCut, At
  <2>4. QED
    BY <1>1, <2>2, <2>3, MoveSound DEF Beginning
<1>3. ASSUME NothingThere(p) /\ NoSaveYet(p)
      PROVE  ProcessIsSound(p)' /\ OnlyMoves(p)
  <2>1. /\ proc'[p].pc = "ready" /\ proc'[p].eof_reached = TRUE
        /\ proc'[p].rc = proc[p].rc /\ proc'[p].mode = proc[p].mode
        /\ proc'[p].eog = proc[p].eog /\ proc'[p].state = proc[p].state
        /\ proc'[p].bsl = proc[p].bsl /\ proc'[p].bsave = proc[p].bsave
        /\ OnlyMoves(p)
    BY <1>1, <1>3 DEF NoSaveYet, Processes, Process, OnlyMoves
  <2>2. ASSUME proc[p].rc = count
        PROVE  Knows(p)'
    <3>1. /\ Agrees(p)'
          /\ UnsavedTurn(proc[p].eog)' <=> UnsavedTurn(proc[p].eog)
          /\ UnsavedTurn(proc[p].eog) <=>
                EndsTurn(proc[p].state) /\ ~IsSave(log[proc[p].eog])
      BY <1>1, <2>1, <2>2, AgreesStays
    <3>2. UnsavedTurn(proc[p].eog) /\ Mode(p) # "play"
      BY <1>1, <1>3, <2>2, PlayingKnows DEF KnowsPlace, At
    <3>3. Mode(p)' # "play"
      BY <2>1, <3>2 DEF Mode
    <3>4. Expects(proc'[p].state) = Commands
      <4>1. proc[p].state \in Gamestate
        BY <1>1 DEF Process
      <4>2. QED
        BY <2>1, <3>1, <3>2, <4>1, TurnEndsReady
    <3>5. KnowsPlace(p)'
      BY <2>1, <3>1, <3>2, <3>3, <3>4 DEF KnowsPlace, At
    <3>6. QED
      BY <2>1, <3>1, <3>5 DEF Knows, KnowsSave, KnowsCut, At
  <2>3. QED
    BY <1>1, <2>1, <2>2, MoveSound DEF Beginning
<1>4. ASSUME LineThere(p) /\ ~IsSave(Line(p)) /\ Goto(p, "ready")
      PROVE  ProcessIsSound(p)' /\ OnlyMoves(p)
  <2>1. proc[p].rc # count
    BY <1>1, <1>4, FollowFinds DEF At
  <2>2. "ready" \in Playing
    BY DEF Playing
  <2>3. QED
    BY <1>1, <1>4, <2>1, <2>2, GotoSound
<1>5. ASSUME Exit(p) \/ Recover(p, Len(log))
      PROVE  ProcessIsSound(p)' /\ OnlyMoves(p)
  BY <1>1, <1>5, LeaveSound, RecoverSound
<1>6. QED
  BY <1>2, <1>3, <1>4, <1>5 DEF Follow

-----------------------------------------------------------------------------
(* Writing.                                                                *)

(* A refused update leaves the file alone and the process sound.           *)
LEMMA RefusedSound ==
    ASSUME IInv, NEW p \in Pid, Refused(p)
    PROVE  UNCHANGED file /\ ProcessIsSound(p)' /\ OnlyMoves(p)
BY FileSame, LeaveSound DEF Refused, IInv, TypeOK

(* A line that fits, appended by a process at the end of the log.          *)
LEMMA AppendGrows ==
    ASSUME IInv, NEW line \in LineType, Follows(line), log' = Append(log, line),
           UNCHANGED <<torn, count>>
    PROVE  LogIsSound' /\ LogGrew /\ count' = count
           /\ Len(log') = Len(log) + 1 /\ log'[Len(log) + 1] = line
<1>1. LogIsSound' /\ Len(log') = Len(log) + 1 /\ SameLines(Len(log)) /\ log'[Len(log) + 1] = line
  BY AppendSound DEF IInv
<1>2. Len(log) \in Nat
  BY DEF IInv, TypeOK
<1>3. QED
  BY <1>1, <1>2 DEF LogGrew

(* An input that the engine has asked for may be recorded.                 *)
LEMMA RecordSound ==
    ASSUME IInv, TypeOK', NEW p \in Pid, proc[p].pc \in Playing,
           NEW kind \in InputKind, NEW pc, Record(p, kind, pc),
           \/ kind \in AllCommands \cup {"answer"} /\ pc = "time"
           \/ kind = "time" /\ pc = "run"
           \/ kind = "Q" /\ pc = "over",
           proc[p].rc = count =>
              /\ kind \in Expects(proc[p].state) \cup
                          (IF AsksUser(proc[p].state) THEN {"Q"} ELSE {})
              /\ ~UnsavedTurn(proc[p].eog) /\ ~proc[p].eof_reached
    PROVE  IInv'
<1>1. /\ Len(log) \in Nat /\ proc \in Processes /\ proc[p] \in Process /\ TypeOK /\ LogIsSound
      /\ count \in Nat /\ log # <<>>
  BY LogStarts DEF IInv, TypeOK, Processes
<1>2. CASE Refused(p)
  BY <1>2, RefusedSound, FileUntouched
<1>3. CASE /\ MayWrite(p)
           /\ log' = Append(log, Input(kind))
           /\ proc' = [proc EXCEPT ![p].pc = pc, ![p].eog = Len(log) + 1,
                                   ![p].state = Append(@, kind)]
           /\ UNCHANGED <<torn, status, count, hint>>
  <2>1. proc[p].rc = count /\ proc[p].eog = Len(log)
    BY <1>3 DEF MayWrite, AtEnd
  <2>2. PICK e \in Nat : e = Len(log)
    BY <1>1
  <2>3. /\ e \in 1..Len(log) /\ proc[p].state = Replay(e) /\ proc[p].bsl = Max(SavesUpTo(e))
        /\ proc[p].bsl \in 1..e /\ proc[p].bsave = Replay(proc[p].bsl)
        /\ proc[p].state \in Gamestate
    BY <1>1, <2>1, <2>2, PlayingKnows, AgreesMeans
  <2>4. /\ Input(kind) \in LineType
        /\ Input(kind).kind = kind /\ Input(kind).state = Append(Replay(e), kind)
    BY <1>1, <2>2, LinesTyped DEF Input
  <2>5. kind \notin {"backup", "diff"}
    BY DEF InputKind, AllCommands
  <2>6. Follows(Input(kind))
    BY <2>1, <2>2, <2>3, <2>4, <2>5 DEF Follows
  <2>7. /\ LogIsSound' /\ LogGrew /\ count' = count /\ Len(log') = e + 1
        /\ log'[e + 1] = Input(kind)
    BY <1>3, <2>2, <2>4, <2>6, AppendGrows
  <2>8. /\ proc'[p].pc = pc /\ proc'[p].eog = e + 1 /\ proc'[p].bsl = proc[p].bsl
        /\ proc'[p].bsave = proc[p].bsave /\ proc'[p].state = Append(proc[p].state, kind)
        /\ proc'[p].rc = proc[p].rc /\ proc'[p].eof_reached = proc[p].eof_reached
        /\ OnlyMoves(p)
    BY <1>1, <1>3, <2>2 DEF Processes, Process, OnlyMoves
  <2>9. /\ \A i \in 1..e : log'[i] = log[i]
        /\ ~IsSave(log'[e + 1]) /\ log'[e + 1].state = Append(Replay(e), kind)
    BY <2>2, <2>4, <2>5, <2>7 DEF LogGrew, SameLines, IsSave
  <2>10. SavesUpTo(e + 1)' = SavesUpTo(e)
    BY <2>9 DEF SavesUpTo
  <2>11. Agrees(p)'
    <3>1. proc'[p].bsl = Max({i \in 1..proc'[p].eog : IsSave(log'[i])})
      BY <2>3, <2>8, <2>10 DEF SavesUpTo
    <3>2. proc'[p].state = log'[proc'[p].eog].state
      BY <2>3, <2>8, <2>9
    <3>3. proc'[p].bsave = log'[proc'[p].bsl].state
      BY <2>3, <2>8, <2>9 DEF Replay
    <3>4. proc'[p].eog \in 1..Len(log')
      BY <2>7, <2>8
    <3>5. QED
      BY <3>1, <3>2, <3>3, <3>4 DEF Agrees, Replay
  <2>12. KnowsPlace(p)'
    <3>1. CASE kind \in AllCommands \cup {"answer"} /\ pc = "time"
      <4>1. Expects(proc'[p].state) = {"time"}
        BY <2>3, <2>8, <3>1, ExpectsTime
      <4>2. QED
        BY <2>1, <2>8, <3>1, <4>1 DEF KnowsPlace, At
    <3>2. CASE kind = "time" /\ pc = "run"
      <4>1. Expects(proc'[p].state) \in {{"answer"}, {"Q"}, Commands}
        BY <2>3, <2>8, <3>2, ExpectsAfterTime
      <4>2. QED
        BY <2>1, <2>8, <2>9, <3>2, <4>1 DEF KnowsPlace, At
    <3>3. CASE kind = "Q" /\ pc = "over"
      BY <2>1, <2>8, <3>3 DEF KnowsPlace, At
    <3>4. QED
      BY <3>1, <3>2, <3>3
  <2>13. Knows(p)'
    BY <2>8, <2>11, <2>12 DEF Knows, KnowsSave, KnowsCut, At
  <2>14. ProcessIsSound(p)'
    <3>1. pc \notin Beginning
      BY DEF Beginning
    <3>2. QED
      BY <2>7, <2>8, <2>13, <3>1, MoveSound
  <2>15. QED
    BY <2>7, <2>8, <2>14, StepOfOne
<1>4. QED
  BY <1>2, <1>3 DEF Record

(* The inputs and the end of the game.                                     *)
LEMMA InputsSound ==
    ASSUME IInv, TypeOK', NEW p \in Pid,
           UserCommand(p) \/ Quit(p) \/ RecordTime(p) \/ UserAnswer(p) \/ Die(p)
    PROVE  IInv'
<1>1. AllCommands \cup {"answer", "time", "Q"} \subseteq InputKind /\ Commands \subseteq AllCommands
  BY CommandKinds DEF InputKind
<1>2. {"ask", "prompt", "stamp", "run"} \subseteq Playing
  BY DEF Playing
<1>3. ASSUME proc[p].rc = count, proc[p].pc \in Playing
      PROVE  /\ KnowsPlace(p)
             /\ proc[p].state \in Gamestate
             /\ UnsavedTurn(proc[p].eog) => EndsTurn(proc[p].state)
             /\ EndsTurn(proc[p].state) => Expects(proc[p].state) = Commands
  <2>1. Agrees(p) /\ proc[p].state \in Gamestate
    BY <1>3, PlayingKnows, AgreesMeans DEF IInv
  <2>2. QED
    BY <1>3, <2>1, PlayingKnows, TurnEndsReady DEF Agrees, UnsavedTurn
<1>4. ASSUME UserCommand(p) PROVE IInv'
  <2>1. proc[p].pc = "ask" /\ Mode(p) = "play"
    BY <1>4 DEF UserCommand, At
  <2>2. PICK c \in Commands : Record(p, c, "time")
    BY <1>4 DEF UserCommand
  <2>3. proc[p].rc = count => /\ c \in Expects(proc[p].state)
                              /\ ~UnsavedTurn(proc[p].eog) /\ ~proc[p].eof_reached
    BY <1>2, <1>3, <2>1 DEF KnowsPlace
  <2>4. QED
    BY <1>1, <1>2, <2>1, <2>2, <2>3, RecordSound
<1>5. ASSUME Quit(p) PROVE IInv'
  <2>1. proc[p].pc \in {"ask", "prompt"} /\ Mode(p) = "play" /\ Record(p, "Q", "over")
    BY <1>5 DEF Quit
  <2>2. proc[p].rc = count => /\ AsksUser(proc[p].state)
                              /\ ~UnsavedTurn(proc[p].eog) /\ ~proc[p].eof_reached
    <3>1. CASE proc[p].pc = "ask"
      BY <1>2, <1>3, <2>1, <3>1 DEF KnowsPlace, AsksUser
    <3>2. CASE proc[p].pc = "prompt"
      BY <1>2, <1>3, <2>1, <3>2, CommandKinds DEF KnowsPlace, AsksUser, Prompts, At
    <3>3. QED
      BY <2>1, <3>1, <3>2
  <2>3. QED
    BY <1>1, <1>2, <2>1, <2>2, RecordSound
<1>6. ASSUME RecordTime(p) PROVE IInv'
  <2>1. proc[p].pc = "stamp" /\ Record(p, "time", "run")
    BY <1>6 DEF RecordTime, At
  <2>2. proc[p].rc = count => /\ "time" \in Expects(proc[p].state)
                              /\ ~UnsavedTurn(proc[p].eog) /\ ~proc[p].eof_reached
    BY <1>2, <1>3, <2>1, CommandKinds DEF KnowsPlace
  <2>3. QED
    BY <1>1, <1>2, <2>1, <2>2, RecordSound
<1>7. ASSUME UserAnswer(p) PROVE IInv'
  <2>1. proc[p].pc = "prompt" /\ Record(p, "answer", "time")
    BY <1>7 DEF UserAnswer, At
  <2>2. proc[p].rc = count => /\ "answer" \in Expects(proc[p].state)
                              /\ ~UnsavedTurn(proc[p].eog) /\ ~proc[p].eof_reached
    BY <1>2, <1>3, <2>1, CommandKinds DEF KnowsPlace, Prompts, At
  <2>3. QED
    BY <1>1, <1>2, <2>1, <2>2, RecordSound
<1>8. ASSUME Die(p) PROVE IInv'
  <2>1. proc[p].pc = "run" /\ Dies(p)
    BY <1>8 DEF Die, At
  <2>2. CASE Goto(p, "ended") /\ UNCHANGED file
    BY <2>1, <2>2, GotoSound, FileUntouched DEF Playing
  <2>3. CASE Record(p, "Q", "over")
    <3>1. proc[p].rc = count => /\ "Q" \in Expects(proc[p].state)
                                /\ ~UnsavedTurn(proc[p].eog) /\ ~proc[p].eof_reached
      BY <1>2, <1>3, <2>1, CommandKinds DEF KnowsPlace, Dies
    <3>2. QED
      BY <1>1, <1>2, <2>1, <2>3, <3>1, RecordSound
  <2>4. QED
    BY <1>8, <2>2, <2>3 DEF Die
<1>9. QED
  BY <1>4, <1>5, <1>6, <1>7, <1>8

(* The save line at the end of a turn: the engine is where a turn has just *)
(* ended, the process has the gamestate of the last line and the snapshot  *)
(* of the last save line, so the line it appends fits.                     *)
LEMMA SaveWrites ==
    ASSUME IInv, TypeOK', NEW p \in Pid, At(p, "save"), MayWrite(p),
           NEW line \in {Backup(proc[p].state), Diff(proc[p].bsave, proc[p].state)},
           log' = Append(log, line), UNCHANGED <<torn, count>>
    PROVE  LogIsSound' /\ LogGrew /\ count' = count /\ Len(log') = Len(log) + 1
           /\ log'[Len(log) + 1] = line /\ IsSave(line) /\ line.state = proc[p].state
           /\ Expects(proc[p].state) = Commands /\ ~proc[p].eof_reached
<1>1. /\ Len(log) \in Nat /\ proc[p] \in Process /\ TypeOK /\ LogIsSound /\ log # <<>>
  BY LogStarts DEF IInv, TypeOK
<1>2. proc[p].rc = count /\ proc[p].eog = Len(log) /\ proc[p].pc = "save"
  BY DEF MayWrite, AtEnd, At
<1>3. Agrees(p) /\ KnowsPlace(p)
  BY <1>2, PlayingKnows DEF Playing
<1>4. UnsavedTurn(Len(log)) /\ ~proc[p].eof_reached
  BY <1>2, <1>3 DEF KnowsPlace, Playing
<1>5. /\ proc[p].state = Replay(Len(log)) /\ proc[p].state \in Gamestate
      /\ proc[p].bsl = Max(SavesUpTo(Len(log))) /\ proc[p].bsave = Replay(proc[p].bsl)
  BY <1>1, <1>2, <1>3, AgreesMeans
<1>6. /\ line \in LineType /\ IsSave(line) /\ line.state = proc[p].state
      /\ line.kind \in {"backup", "diff"}
      /\ line.kind = "diff" => line.base = proc[p].bsave
  <2>1. proc[p].bsave \in Gamestate
    BY <1>1 DEF Process
  <2>2. CASE line = Backup(proc[p].state)
    BY <1>1, <1>5, <2>1, <2>2, LinesTyped DEF Backup, IsSave
  <2>3. CASE line = Diff(proc[p].bsave, proc[p].state)
    BY <1>1, <1>5, <2>1, <2>3, LinesTyped DEF Diff, IsSave
  <2>4. QED
    BY <2>2, <2>3
<1>7. Follows(line)
  BY <1>4, <1>5, <1>6 DEF Follows, Replay
<1>8. LogIsSound' /\ LogGrew /\ Len(log') = Len(log) + 1 /\ log'[Len(log) + 1] = line
  BY <1>6, <1>7, AppendGrows
<1>9. Expects(proc[p].state) = Commands
  BY <1>4, <1>5, TurnEndsReady DEF UnsavedTurn
<1>10. QED
  BY <1>4, <1>6, <1>8, <1>9

(* Saving at the end of a turn keeps the invariant, also when somebody     *)
(* else was faster.                                                        *)
LEMMA SaveSound ==
    ASSUME IInv, TypeOK', NEW p \in Pid, Save(p)
    PROVE  IInv'
<1>1. /\ Len(log) \in Nat /\ Len(log) >= 1 /\ proc \in Processes /\ proc[p] \in Process
      /\ TypeOK /\ LogIsSound /\ count \in Nat /\ proc[p].pc = "save" /\ proc[p].pc \in Playing
  BY LogStarts DEF IInv, TypeOK, Processes, Save, At, Playing
<1>2. CASE Refused(p)
  BY <1>2, RefusedSound, FileUntouched
<1>3. CASE proc[p].rc = count /\ ~AtEnd(p) /\ Goto(p, "follow") /\ UNCHANGED file
  <2>1. /\ proc'[p].pc = "follow" /\ OnlyMoves(p)
        /\ proc'[p].eof_reached = proc[p].eof_reached /\ proc'[p].rc = proc[p].rc
        /\ proc'[p].mode = proc[p].mode
        /\ proc'[p].eog = proc[p].eog /\ proc'[p].state = proc[p].state
        /\ proc'[p].bsl = proc[p].bsl /\ proc'[p].bsave = proc[p].bsave
    BY <1>1, <1>3 DEF Goto, Processes, Process, OnlyMoves
  <2>2. Agrees(p)' /\ proc[p].eog \in 1..Len(log)
        /\ (UnsavedTurn(proc[p].eog)' <=> UnsavedTurn(proc[p].eog))
    BY <1>1, <1>3, <2>1, AgreesStays
  <2>3. UnsavedTurn(proc[p].eog) /\ ~proc[p].eof_reached
    BY <1>1, <1>3, PlayingKnows DEF KnowsPlace
  <2>4. ~NothingThere(p)'
    <3>1. log' = log /\ torn' = torn
      BY <1>3, FileSame
    <3>2. proc[p].eog # Len(log) \/ torn
      BY <1>3 DEF AtEnd
    <3>3. QED
      BY <1>1, <2>1, <2>2, <3>1, <3>2 DEF NothingThere, LineThere, PartialThere
  <2>5. KnowsPlace(p)'
    BY <2>1, <2>2, <2>3, <2>4 DEF KnowsPlace, At
  <2>6. Knows(p)'
    BY <2>1, <2>2, <2>5 DEF Knows, KnowsSave, KnowsCut, At
  <2>7. ProcessIsSound(p)'
    BY <1>3, <2>1, <2>6, FileSame, MoveSound DEF Beginning
  <2>8. QED
    BY <1>3, <2>1, <2>7, FileUntouched
<1>4. CASE /\ MayWrite(p)
           /\ \/ log' = Append(log, Backup(proc[p].state))
              \/ log' = Append(log, Diff(proc[p].bsave, proc[p].state))
           /\ proc' = [proc EXCEPT ![p].pc = "ready", ![p].eog = Len(log) + 1,
                         ![p].bsl = Len(log) + 1, ![p].bsave = proc[p].state]
           /\ UNCHANGED <<torn, status, count>>
  <2>1. PICK line \in {Backup(proc[p].state), Diff(proc[p].bsave, proc[p].state)} :
           log' = Append(log, line)
    BY <1>4
  <2>2. PICK e \in Nat : e = Len(log) + 1
    BY <1>1
  <2>3. /\ LogIsSound' /\ LogGrew /\ count' = count /\ Len(log') = e
        /\ log'[e] = line /\ IsSave(line) /\ line.state = proc[p].state
        /\ Expects(proc[p].state) = Commands /\ ~proc[p].eof_reached
    BY <1>1, <1>4, <2>1, <2>2, SaveWrites DEF At
  <2>4. /\ proc'[p].pc = "ready" /\ proc'[p].eog = e /\ proc'[p].bsl = e
        /\ proc'[p].bsave = proc[p].state /\ proc'[p].state = proc[p].state
        /\ proc'[p].rc = proc[p].rc /\ proc'[p].eof_reached = proc[p].eof_reached
        /\ OnlyMoves(p)
    BY <1>1, <1>4, <2>2 DEF Processes, Process, OnlyMoves
  <2>5. Max(SavesUpTo(e))' = e
    <3>1. \A m \in 1..e : m \in SavesUpTo(e)' => m <= e
      OBVIOUS
    <3>2. e \in 1..e /\ IsSave(log'[e])
      BY <1>1, <2>2, <2>3
    <3>3. e \in SavesUpTo(e)' /\ \A i \in SavesUpTo(e)' : i \in Nat /\ e >= i
      BY <3>2 DEF SavesUpTo
    <3>4. \A c \in SavesUpTo(e)' : (\A i \in SavesUpTo(e)' : c >= i) => c = e
      BY <3>3
    <3>5. Max(SavesUpTo(e)') = e
      BY <3>3, <3>4 DEF Max
    <3>6. QED
      BY <3>5 DEF SavesUpTo
  <2>6. Agrees(p)'
    <3>1. proc'[p].bsl = Max({i \in 1..proc'[p].eog : IsSave(log'[i])})
      BY <2>4, <2>5 DEF SavesUpTo
    <3>2. /\ proc'[p].state = log'[proc'[p].eog].state
          /\ proc'[p].bsave = log'[proc'[p].bsl].state
          /\ proc'[p].eog \in 1..Len(log')
      BY <1>1, <2>2, <2>3, <2>4
    <3>3. QED
      BY <3>1, <3>2 DEF Agrees, Replay
  <2>7. KnowsPlace(p)'
    <3>1. ~UnsavedTurn(proc[p].eog)'
      BY <2>3, <2>4 DEF UnsavedTurn
    <3>2. QED
      BY <2>3, <2>4, <3>1 DEF KnowsPlace, At
  <2>8. Knows(p)'
    BY <2>4, <2>6, <2>7 DEF Knows, KnowsSave, KnowsCut, At
  <2>9. ProcessIsSound(p)'
    BY <2>3, <2>4, <2>8, MoveSound DEF Beginning
  <2>10. QED
    BY <2>3, <2>4, <2>9, StepOfOne
<1>5. QED
  BY <1>2, <1>3, <1>4 DEF Save

(* The end of the game, and leaving it: the lines stay as they are.        *)
LEMMA LinesStay ==
    ASSUME IInv, UNCHANGED <<log, torn, count>>
    PROVE  LogIsSound' /\ LogGrew
<1>1. Len(log) \in Nat
  BY DEF IInv, TypeOK
<1>2. QED
  BY <1>1, SameSound DEF IInv, LogGrew, SameLines

(* Recording the end of the game, and leaving, keep the invariant.         *)
LEMMA EndingSound ==
    ASSUME IInv, TypeOK', NEW p \in Pid, LogGameOver(p) \/ GameOver(p) \/ Detach(p)
    PROVE  IInv'
<1>1. /\ proc \in Processes /\ proc[p] \in Process /\ count \in Nat
  BY DEF IInv, TypeOK, Processes
<1>2. CASE Refused(p)
  BY <1>2, RefusedSound, FileUntouched
<1>3. CASE Exit(p) /\ UNCHANGED file
  BY <1>1, <1>3, FileSame, LeaveSound, FileUntouched
<1>4. CASE /\ At(p, "over") /\ MayWrite(p) /\ Goto(p, "disclose")
           /\ UNCHANGED <<log, torn, count, hint>>
  <2>1. /\ proc'[p].pc = "disclose" /\ OnlyMoves(p)
        /\ proc'[p].eof_reached = proc[p].eof_reached /\ proc'[p].rc = proc[p].rc
        /\ proc'[p].eog = proc[p].eog /\ proc'[p].state = proc[p].state
        /\ proc'[p].bsl = proc[p].bsl /\ proc'[p].bsave = proc[p].bsave
    BY <1>1, <1>4 DEF Goto, Processes, Process, OnlyMoves
  <2>2. proc[p].rc = count /\ proc[p].pc = "over" /\ proc[p].pc \in Playing
    BY <1>4 DEF MayWrite, At, Playing
  <2>3. Agrees(p) /\ ~proc[p].eof_reached
    BY <2>2, PlayingKnows DEF KnowsPlace
  <2>4. Agrees(p)'
    BY <1>4, <2>1, <2>3 DEF Agrees, Replay
  <2>5. KnowsPlace(p)'
    BY <2>1, <2>3 DEF KnowsPlace, At
  <2>6. Knows(p)'
    BY <2>1, <2>4, <2>5 DEF Knows, KnowsSave, KnowsCut, At
  <2>7. ProcessIsSound(p)'
    BY <1>4, <2>1, <2>6, MoveSound DEF Beginning
  <2>8. QED
    BY <1>4, <2>1, <2>7, LinesStay, StepOfOne
<1>5. QED
  BY <1>2, <1>3, <1>4 DEF LogGameOver, GameOver, Detach

-----------------------------------------------------------------------------
(* Recovering, and being killed.                                           *)

(* Whoever has another count than the file's is sound: it claims nothing.  *)
LEMMA CutBackSound ==
    ASSUME IInv, TypeOK', NEW p \in Pid, proc[p].pc \in {"menu", "undoing"},
           NEW pc \in {"open", "header"}, pc = "header" => proc[p].pc = "undoing",
           Truncate(p, pc)
    PROVE  IInv'
<1>1. /\ proc \in Processes /\ proc[p] \in Process /\ count \in Nat
      /\ TypeOK /\ LogIsSound /\ ProcessIsSound(p)
  BY DEF IInv, TypeOK, Processes
<1>2. CASE Restart(p) /\ UNCHANGED file
  BY <1>1, <1>2, FileSame, LeaveSound, FileUntouched
<1>3. CASE /\ proc[p].rc = count
           /\ count' = count + 1 /\ status' = "save"
           /\ log' = SubSeq(log, 1, proc[p].cut) /\ torn' = FALSE
           /\ UNCHANGED hint
           /\ IF pc = "open" THEN Restart(p)
                             ELSE proc' = [proc EXCEPT ![p].pc = pc, ![p].rc = count + 1]
  <2>1. proc[p].cut \in 1..Len(log)
    BY <1>1, <1>3 DEF ProcessIsSound, Knows, KnowsCut
  <2>2. PICK n \in 1..Len(log) : n = proc[p].cut
    BY <2>1
  <2>3. LogIsSound'
    BY <1>1, <1>3, <2>2, CutSound
  <2>4. ProcessIsSound(p)' /\ OnlyMoves(p)
    <3>1. CASE pc = "open"
      BY <1>1, <1>3, <3>1, LeaveSound
    <3>2. CASE pc = "header"
      <4>1. ~proc[p].eof_reached
        BY <1>1, <3>2 DEF ProcessIsSound, NothingAwaited, Beginning
      <4>2. /\ proc'[p].pc = "header" /\ proc'[p].eof_reached = proc[p].eof_reached
            /\ proc'[p].rc = count + 1 /\ OnlyMoves(p)
        BY <1>1, <1>3, <3>2 DEF Processes, Process, OnlyMoves
      <4>3. Knows(p)'
        BY <4>2 DEF Knows, KnowsSave, KnowsPlace, KnowsCut, At, Playing
      <4>4. QED
        BY <1>1, <1>3, <4>1, <4>2, <4>3 DEF ProcessIsSound, NothingAwaited
    <3>3. QED
      BY <3>1, <3>2
  <2>5. QED
    BY <1>3, <2>3, <2>4, StepOfOne
<1>4. QED
  BY <1>2, <1>3 DEF Truncate

(* Going through with a recovery, or not, keeps the invariant.             *)
LEMMA RecoverySound ==
    ASSUME IInv, TypeOK', NEW p \in Pid, RecoverSave(p) \/ RecoverQuit(p)
    PROVE  IInv'
<1>1. CASE Exit(p) /\ UNCHANGED file
  BY <1>1, FileSame, LeaveSound, FileUntouched DEF IInv, TypeOK
<1>2. CASE RecoverSave(p)
  BY <1>1, <1>2, CutBackSound DEF RecoverSave, At
<1>3. CASE RecoverQuit(p)
  BY <1>3, CutBackSound DEF RecoverQuit, At
<1>4. QED
  BY <1>2, <1>3

(* A panic keeps the invariant: both offsets it offers lie in the log.     *)
LEMMA PanicSound ==
    ASSUME IInv, TypeOK', NEW p \in Pid, Panic(p)
    PROVE  IInv'
<1>1. /\ proc \in Processes /\ proc[p] \in Process /\ count \in Nat /\ UNCHANGED file
      /\ log' = log /\ count' = count /\ Len(log) \in Nat
  BY FileSame DEF IInv, TypeOK, Processes, Panic
<1>2. CASE /\ proc[p].pc \in {"ready", "ask", "time", "stamp", "run", "prompt",
                              "save", "follow", "over", "disclose", "ended"}
           /\ Recover(p, StartOfTurn(p))
  BY <1>1, <1>2, DesyncSound, FileUntouched DEF Playing
<1>3. CASE /\ proc[p].pc \in {"ask", "ended"} /\ proc[p].eog <= Len(log)
           /\ proc' = [proc EXCEPT ![p].pc = "menu", ![p].mode = "play",
                                   ![p].cut = proc[p].eog]
  <2>1. /\ proc'[p].pc = "menu" /\ proc'[p].cut = proc[p].eog
        /\ proc'[p].rc = proc[p].rc /\ OnlyMoves(p)
    BY <1>1, <1>3 DEF Processes, Process, OnlyMoves
  <2>2. ASSUME proc[p].rc = count
        PROVE  Knows(p)'
    <3>1. proc[p].eog \in 1..Len(log)
      BY <1>3, <2>2, PlayingKnows DEF At, Playing, Agrees
    <3>2. QED
      BY <1>1, <2>1, <3>1 DEF Knows, KnowsSave, KnowsPlace, KnowsCut, At, Playing
  <2>3. ProcessIsSound(p)'
    BY <1>1, <2>1, <2>2, MoveSound DEF Beginning
  <2>4. QED
    BY <1>1, <2>1, <2>3, FileUntouched
<1>4. QED
  BY <1>2, <1>3 DEF Panic

(* Nothing is known of a process that has been killed, and what it may     *)
(* have left in the file is a partial line, a whole save backup whose hint *)
(* is missing, or a header with the new recovery count.                    *)
LEMMA CrashSound ==
    ASSUME IInv, TypeOK', NEW p \in Pid, Crash(p)
    PROVE  IInv'
<1>1. /\ proc \in Processes /\ proc[p] \in Process /\ count \in Nat /\ Exit(p)
      /\ Len(log) \in Nat
  BY DEF IInv, TypeOK, Processes, Crash
<1>2. ASSUME count' \in {count, count + 1}
      PROVE  ProcessIsSound(p)' /\ OnlyMoves(p)
  BY <1>1, <1>2, LeaveSound
<1>3. CASE UNCHANGED file
  BY <1>2, <1>3, FileSame, FileUntouched
<1>4. CASE torn' = TRUE /\ UNCHANGED <<log, status, count, hint>>
  <2>1. LogIsSound' /\ LogGrew
    BY <1>1, <1>4, SameSound DEF IInv, LogGrew, SameLines
  <2>2. QED
    BY <1>2, <1>4, <2>1, StepOfOne
<1>5. CASE /\ MayWrite(p) /\ At(p, "save")
           /\ log' = Append(log, Backup(proc[p].state))
           /\ UNCHANGED <<torn, status, count, hint>>
  <2>1. LogIsSound' /\ LogGrew
    BY <1>5, SaveWrites
  <2>2. QED
    BY <1>2, <1>5, <2>1, StepOfOne
<1>6. CASE count' = count + 1 /\ UNCHANGED <<log, torn, hint>>
  <2>1. LogIsSound'
    BY <1>6, SameSound DEF IInv
  <2>2. QED
    BY <1>2, <1>6, <2>1, StepOfOne
<1>7. QED
  BY <1>3, <1>4, <1>5, <1>6 DEF Crash

-----------------------------------------------------------------------------
(* The theorems.                                                           *)

(* The invariant holds of a new game.                                      *)
LEMMA InvInit ==
    ASSUME Init
    PROVE  IInv
<1>1. Backup(<<>>) \in LineType
  <2>1. <<>> \in Gamestate
    BY DEF Gamestate
  <2>2. QED
    BY <2>1 DEF Backup, LineType
<1>2. log \in Seq(LineType) /\ Len(log) = 1 /\ log[1] = Backup(<<>>) /\ log # <<>>
  <2>1. log = <<Backup(<<>>)>>
    BY DEF Init
  <2>2. QED
    BY <1>1, <2>1
<1>3. TypeOK
  BY <1>2, OffTyped DEF Init, TypeOK
<1>4. LogIsSound
  BY <1>2 DEF LogIsSound, SavesAreTrue, InputsAreTrue, LogIsPlayable
<1>5. ASSUME NEW p \in Pid
      PROVE  ProcessIsSound(p)
  BY DEF Init, Off, ProcessIsSound, NothingAwaited
<1>6. QED
  BY <1>3, <1>4, <1>5 DEF Init, IInv

(* Every step keeps it.                                                    *)
LEMMA InvStep ==
    ASSUME IInv, [Next]_vars
    PROVE  IInv'
<1>1. TypeOK'
  <2>1. \A p \in Pid : CutKnown(p)
    BY DEF IInv, ProcessIsSound, Knows, CutKnown
  <2>2. QED
    BY <2>1, LogStarts, TypeStep DEF IInv
<1>2. CASE UNCHANGED vars
  <2>1. /\ LogIsSound' /\ count' = count /\ proc' = proc /\ LogGrew
    BY <1>2, FileSame DEF vars, file
  <2>2. \A p \in Pid : ProcessIsSound(p)'
    BY <1>1, <2>1, KnowledgeKept DEF IInv, ProcessIsSound, NothingAwaited
  <2>3. QED
    BY <1>1, <2>1, <2>2 DEF IInv
<1>3. ASSUME NEW p \in Pid, Internal(p) PROVE IInv'
  <2>1. CASE \/ UndoQuit(p) \/ SyncHeader(p) \/ SyncHint(p) \/ SyncLoad(p)
             \/ SyncNext(p) \/ SyncDone(p)
    <3>1. UNCHANGED file
      BY <2>1 DEF UndoQuit, SyncHeader, SyncHint, SyncLoad, SyncNext, SyncDone
    <3>2. QED
      BY <1>1, <2>1, <3>1, OpeningSound, FileUntouched
  <2>2. CASE \/ ReplayCommand(p) \/ RequestCommand(p) \/ ServerCancel(p) \/ ReplayTime(p)
             \/ NoTime(p) \/ ReplayAnswer(p) \/ Prompt(p) \/ EndCommand(p)
    <3>1. UNCHANGED file
      BY <2>2 DEF ReplayCommand, RequestCommand, ServerCancel, ReplayTime, NoTime,
                  ReplayAnswer, Prompt, EndCommand, Reading
    <3>2. QED
      BY <1>1, <2>2, <3>1, ReadingSound, FileUntouched
  <2>3. CASE Follow(p)
    <3>1. UNCHANGED file
      BY <2>3 DEF Follow, Reading
    <3>2. QED
      BY <1>1, <2>3, <3>1, FollowSound, FileUntouched
  <2>4. CASE RecordTime(p) \/ Die(p)
    BY <1>1, <2>4, InputsSound
  <2>5. CASE Save(p) \/ LogGameOver(p) \/ RecoverQuit(p)
    BY <1>1, <2>5, SaveSound, EndingSound, RecoverySound
  <2>6. QED
    BY <1>3, <2>1, <2>2, <2>3, <2>4, <2>5 DEF Internal
<1>4. ASSUME NEW p \in Pid, FromUser(p) PROVE IInv'
  <2>1. CASE Open(p)
    <3>1. UNCHANGED file
      BY <2>1 DEF Open
    <3>2. QED
      BY <1>1, <2>1, <3>1, OpeningSound, FileUntouched
  <2>2. CASE UserCommand(p) \/ UserAnswer(p) \/ Quit(p)
    BY <1>1, <2>2, InputsSound
  <2>3. CASE Detach(p) \/ GameOver(p) \/ RecoverSave(p)
    BY <1>1, <2>3, EndingSound, RecoverySound
  <2>4. QED
    BY <1>4, <2>1, <2>2, <2>3 DEF FromUser
<1>5. ASSUME NEW p \in Pid, Panic(p) \/ Crash(p) PROVE IInv'
  BY <1>1, <1>5, PanicSound, CrashSound
<1>6. QED
  BY <1>2, <1>3, <1>4, <1>5 DEF Next

(* The inductive invariant holds of every state of every behaviour.        *)
THEOREM Invariance == Spec => []IInv
BY InvInit, InvStep, PTL DEF Spec

(* The variables keep their types.                                         *)
THEOREM TypeCorrect == Spec => []TypeOK
<1>1. IInv => TypeOK
  BY DEF IInv
<1>2. QED
  BY <1>1, Invariance, PTL

(* Whoever writes to the log, and whatever the others do meanwhile, the    *)
(* line that log_record_command, log_record_input or log_neutral_turnstate *)
(* appends is one that the readers look for at that point.                 *)
THEOREM Playable == Spec => []LogIsPlayable
<1>1. IInv => LogIsPlayable
  BY DEF IInv, LogIsSound
<1>2. QED
  BY <1>1, Invariance, PTL

(* The snapshot in every save line is the gamestate that the lines before  *)
(* it lead to, and every diff can be applied to the save line before it.   *)
THEOREM TrueSaves == Spec => []SavesAreTrue
<1>1. IInv => SavesAreTrue
  BY DEF IInv, LogIsSound
<1>2. QED
  BY <1>1, Invariance, PTL

(* All processes with the file's recovery count have the gamestate and the *)
(* snapshot that the lines they have read stand for.                       *)
THEOREM AllAgree == Spec => []Agreement
<1>1. IInv => Agreement
  BY DEF IInv, ProcessIsSound, Knows, Agreement
<1>2. QED
  BY <1>1, Invariance, PTL

(* A recovery that goes through shortens the log to a length it once had,  *)
(* never to nothing.                                                       *)
THEOREM SafeCuts == Spec => []CutsAreSafe
<1>1. IInv => CutsAreSafe
  BY DEF IInv, ProcessIsSound, Knows, KnowsCut, CutsAreSafe
<1>2. QED
  BY <1>1, Invariance, PTL

(* A process that reads on finds what the engine asks for.                 *)
LEMMA ReadsOn ==
    ASSUME IInv, NEW p \in Pid, proc[p].rc = count
    PROVE  ~Desyncs(p)
<1>1. SUFFICES ASSUME Desyncs(p), LineThere(p), proc[p].pc \in {"ready", "time", "run"}
               PROVE  FALSE
  BY DEF Desyncs, At
<1>2. /\ Len(log) \in Nat /\ TypeOK /\ LogIsSound /\ proc[p] \in Process
  BY DEF IInv, TypeOK
<1>3. Agrees(p) /\ KnowsPlace(p)
  BY <1>1, PlayingKnows DEF Playing
<1>4. PICK e \in 1..(Len(log) - 1) : e = proc[p].eog
  BY <1>2, <1>1, <1>3 DEF Agrees, LineThere
<1>5. proc[p].state = Replay(e) /\ proc[p].state \in Gamestate /\ Line(p) = log[e + 1]
  BY <1>2, <1>3, <1>4, AgreesMeans DEF Line
<1>6. /\ IsSave(Line(p)) <=> UnsavedTurn(e)
      /\ ~IsSave(Line(p)) =>
            Line(p).kind \in Expects(proc[p].state) \cup
                             (IF AsksUser(proc[p].state) THEN {"Q"} ELSE {})
  BY <1>2, <1>4, <1>5, NextLine
<1>7. UnsavedTurn(e) => Expects(proc[p].state) = Commands
  BY <1>5, TurnEndsReady DEF UnsavedTurn
<1>8. CASE proc[p].pc = "ready"
  <2>1. ~proc[p].eof_reached /\ ~Finds(p, AllCommands \cup {"Q"})
    BY <1>1, <1>8 DEF Desyncs, At
  <2>2. Expects(proc[p].state) = Commands /\ ~UnsavedTurn(e)
    BY <1>3, <1>4, <1>8, <2>1 DEF KnowsPlace
  <2>3. Line(p).kind \in AllCommands \cup {"Q"}
    BY <1>6, <2>2, CommandKinds
  <2>4. QED
    BY <1>1, <2>1, <2>3 DEF Finds
<1>9. CASE proc[p].pc = "time"
  <2>1. ~Finds(p, {"time", "Q"})
    BY <1>1, <1>9 DEF Desyncs, At
  <2>2. Expects(proc[p].state) = {"time"}
    BY <1>3, <1>9 DEF KnowsPlace
  <2>3. ~UnsavedTurn(e)
    BY <1>7, <2>2, CommandKinds
  <2>4. Line(p).kind \in {"time", "Q"}
    BY <1>6, <2>2, <2>3
  <2>5. QED
    BY <1>1, <2>1, <2>4 DEF Finds
<1>10. CASE proc[p].pc = "run"
  <2>1. Prompts(p) /\ ~Finds(p, {"answer", "Q"})
    BY <1>1, <1>10 DEF Desyncs, At
  <2>2. Expects(proc[p].state) = {"answer"}
    BY <2>1 DEF Prompts
  <2>3. ~UnsavedTurn(e)
    BY <1>7, <2>2, CommandKinds
  <2>4. Line(p).kind \in {"answer", "Q"}
    BY <1>6, <2>2, <2>3
  <2>5. QED
    BY <1>1, <2>1, <2>4 DEF Finds
<1>11. QED
  BY <1>1, <1>8, <1>9, <1>10

(* A process that loads saves one after the other can use the next one.    *)
LEMMA LoadsOn ==
    ASSUME IInv, NEW p \in Pid, proc[p].rc = count
    PROVE  ~LoadFails(p)
<1>1. /\ Len(log) \in Nat /\ TypeOK /\ LogIsSound /\ proc[p] \in Process
      /\ DOMAIN log = 1..Len(log) /\ KnowsSave(p)
  BY DEF IInv, TypeOK, ProcessIsSound, Knows
<1>2. At(p, "load") => IsBackup(proc[p].bsl)
  BY <1>1 DEF KnowsSave
<1>3. ASSUME At(p, "scan"), SavesAfter(proc[p].bsl) # {}
      PROVE  Applies(p, log[Min(SavesAfter(proc[p].bsl))])
  <2>1. PICK b \in 1..Len(log) : b = proc[p].bsl /\ IsSave(log[b]) /\ proc[p].bsave = Replay(b)
    BY <1>1, <1>3 DEF KnowsSave
  <2>2. PICK i \in 1..Len(log) : /\ i = Min(SavesAfter(b)) /\ i > b /\ IsSave(log[i])
                                 /\ \A j \in SavesAfter(b) : i <= j
    <3>1. SavesAfter(b) \in SUBSET Nat /\ SavesAfter(b) # {}
      BY <1>1, <1>3, <2>1 DEF SavesAfter
    <3>2. Min(SavesAfter(b)) \in SavesAfter(b) /\ \A j \in SavesAfter(b) : Min(SavesAfter(b)) <= j
      BY <3>1, MinIsLeast
    <3>3. QED
      BY <1>1, <3>2 DEF SavesAfter
  <2>3. PICK m \in Nat : m = i - 1 /\ b \in 1..m
    BY <2>1, <2>2
  <2>4. \A j \in (b + 1)..m : ~IsSave(log[j])
    <3>1. SUFFICES ASSUME NEW j \in (b + 1)..m, IsSave(log[j]) PROVE FALSE
      OBVIOUS
    <3>2. j \in SavesAfter(b)
      BY <1>1, <2>2, <2>3, <3>1 DEF SavesAfter
    <3>3. QED
      BY <2>2, <2>3, <3>2
  <2>5. Max(SavesUpTo(m)) = b
    BY <2>1, <2>3, <2>4, LatestSaveIs
  <2>6. PreviousSave(i) = b
    BY <2>3, <2>5, PreviousSaveIs
  <2>7. log[i].kind = "diff" => log[i].base = proc[p].bsave
    BY <1>1, <2>1, <2>2, <2>6 DEF LogIsSound, SavesAreTrue, Replay
  <2>8. QED
    BY <2>1, <2>2, <2>7 DEF Applies, IsSave
<1>4. At(p, "follow") /\ LineThere(p) => IsSave(Line(p)) /\ Applies(p, Line(p))
  BY FollowFinds
<1>5. QED
  BY <1>2, <1>3, <1>4 DEF LoadFails

(* As long as the recovery count is the one a process expects, it never    *)
(* calls log_desync, and no save line ever fails to load.                  *)
THEOREM NeverGetsLost == Spec => []NeverLost
<1>1. IInv => NeverLost
  BY ReadsOn, LoadsOn DEF NeverLost
<1>2. QED
  BY <1>1, Invariance, PTL
=============================================================================
