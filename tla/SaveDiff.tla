------------------------------ MODULE SaveDiff ------------------------------
(***************************************************************************)
(* Memory files and save diffs (memfile.c).  A game is saved by writing it *)
(* byte by byte into a memory file; a memory file made relative to the     *)
(* previous save records, while it is written, the commands that turn the  *)
(* old save into the new one (mwrite, mtag, mdiffflush), and only those    *)
(* commands reach the log.  mdiffapply must rebuild the new save from the  *)
(* old one and the commands: nothing else of the new save survives.        *)
(*                                                                         *)
(* A command is kept as the list of places its prefixes and its name have  *)
(* in the most-recently-used list, its two arguments, and the edited bytes *)
(* that follow it.  The packing of those numbers into bits is left out; the*)
(* width the packed command has is not, because it decides which encoding  *)
(* is chosen and how many widening prefixes it gets.                       *)
(***************************************************************************)
EXTENDS Integers, SequencesExt, FiniteSetsExt

CONSTANTS
    Bytes,          \* the byte values that are written
    Slack,          \* what may lie in the old save's buffer past its end
    Tags,           \* (tagdata, tagtype) pairs
    SaveSizeMonst,  \* SAVE_SIZE_MONST, 85 in the code
    UnitBits,       \* a command is padded to whole bytes of 8 bits
    Arg1Bits,       \* column arg1 of mdiff_command_sizes, without its sign
    OldSaves,       \* the old saves a diff is made against
    MaxLen,         \* bound: the longest new save
    MaxMarks        \* bound: tags and hints in one save

ASSUME SaveDiffAssumption ==
    /\ Bytes \subseteq 0..255 /\ Slack \subseteq 0..255 /\ Slack # {}
    /\ SaveSizeMonst \in Nat \ {0} /\ UnitBits \in Nat \ {0}
    /\ MaxLen \in Nat /\ MaxMarks \in Nat

\* enum mdiff_command, in its order
Commands == <<"copyedit", "copy", "edit", "seek", "wider", "eof", "coord",
              "erase", "copyedit1", "increment", "eof_crc32", "rle">>

\* column arg2 of mdiff_command_sizes; a checksum always fits its field
Arg2Fits(cmd, a) ==
    CASE cmd = "copyedit" -> a \in 0..3
      [] cmd \in {"coord", "erase"} -> a \in 0..7
      [] cmd = "eof_crc32" -> TRUE
      [] OTHER -> a = 0
Arg2Bits(cmd) ==
    CASE cmd = "copyedit" -> 2 [] cmd \in {"coord", "erase"} -> 3
      [] cmd = "eof_crc32" -> 32 [] OTHER -> 0

\* xdir[], ydir[] by direction, from DIR_W (0) to DIR_SW (7)
Dirs == 0..7
DeltaX == <<-1, -1, 0, 1, 1, 1, 0, -1>>
DeltaY == <<0, -1, -1, -1, 0, 1, 1, 1>>
DirNone == 8

VARIABLES
    old,        \* the save the diff is relative to: its bytes and its tags
    slack,      \* the byte found in its buffer past its end
    stage,      \* "idle" | "writing" | "done"
    buf,        \* the new save (mf->buf up to mf->pos)
    marks,      \* how many tags and hints it has had
    relpos,     \* mf->relativepos
    copies, edits, seeks,   \* mf->pending_copies, pending_edits, pending_seeks
    hint,       \* mf->mon_coord_hint
    coder       \* mru: mf->mdiff_command_mru; anchor: mf->coord_relative_to;
                \* diff: mf->diffbuf, the commands written; past (history):
                \* an edit was compared with what lies past the old save's end

counts == <<copies, edits, seeks>>
diffVars == <<old, slack, stage, buf, marks, relpos, counts, hint, coder>>

mru == coder.mru
anchor == coder.anchor
diff == coder.diff

-----------------------------------------------------------------------------
(* The encoding of one command *)

Place(list, cmd) == (CHOOSE i \in DOMAIN list : list[i] = cmd) - 1
ToFront(list, i) == <<list[i + 1]>> \o RemoveAt(list, i + 1)

\* Bits of the "1..10 x..x" code for a place of the list.
PlaceBits(p) == IF p < 2 THEN 2 ELSE IF p < 6 THEN 4 ELSE 6

\* Mutant: a command before mdiff_wider is not moved up by it.
HeaderUnshifted(list, cmd, w) ==
    IF w = 0 THEN <<Place(list, cmd)>>
    ELSE <<Place(list, "wider")>> \o [i \in 1..(w - 1) |-> 0] \o <<Place(list, cmd)>>

\* The places a command with w widening prefixes is written as: the first
\* prefix brings mdiff_wider to the front, so the others find it at place 0.
Header(list, cmd, w) ==
    IF w = 0 THEN <<Place(list, cmd)>>
    ELSE LET p == Place(list, cmd) IN
         <<Place(list, "wider")>> \o [i \in 1..(w - 1) |-> 0]
            \o <<IF p < Place(list, "wider") THEN p + 1 ELSE p>>

HeaderBits(list, cmd, w) ==
    FoldLeft(LAMBDA n, p : n + PlaceBits(p), 0, Header(list, cmd, w))

\* Bits left for arg1, once the command is padded to whole bytes.
ArgRoom(list, cmd, w) ==
    LET used == HeaderBits(list, cmd, w) + Arg2Bits(cmd)
        least == Arg1Bits[cmd] + w * UnitBits
    IN  least + ((UnitBits - ((used + least) % UnitBits)) % UnitBits)

Magnitude(c) == IF c.cmd = "seek" THEN 2 * (IF c.arg1 < 0 THEN -c.arg1 ELSE c.arg1)
                ELSE c.arg1

NoCommand == [cmd |-> "none", arg1 |-> 0, arg2 |-> 0]
Omitted(c) == \/ c = NoCommand
              \/ c.cmd \in {"copy", "seek"} /\ c.arg1 = 0
              \/ c.cmd = "edit" /\ c.arg1 = -1

\* The smallest number of mdiff_wider prefixes that makes room for arg1.
Widenings(list, c) ==
    CHOOSE w \in 0..3 : /\ Magnitude(c) < 2 ^ ArgRoom(list, c.cmd, w)
                        /\ \A v \in 0..(w - 1) : Magnitude(c) >= 2 ^ ArgRoom(list, c.cmd, v)

CmdWidth(list, c) ==
    IF Omitted(c) THEN 0
    ELSE LET w == Widenings(list, c)
         IN  (HeaderBits(list, c.cmd, w) + Arg2Bits(c.cmd) + ArgRoom(list, c.cmd, w))
                 \div UnitBits

\* Writes one command: its places, and the list as the writing leaves it.
\* The edited bytes are the last ones before mf->pos.
EditLen(c) == CASE c.cmd = "edit" -> c.arg1 + 1
                [] c.cmd = "copyedit" -> c.arg2 + 1
                [] c.cmd = "copyedit1" -> 1
                [] OTHER -> 0

WriteCmd(out, c) ==
    IF Omitted(c) THEN out
    ELSE LET w == Widenings(out.mru, c)
             widened == IF w = 0 THEN out.mru
                        ELSE ToFront(out.mru, Place(out.mru, "wider"))
         IN  [out EXCEPT !.mru = ToFront(widened, Place(widened, c.cmd)),
              !.diff = Append(@,
                         [places |-> Header(out.mru, c.cmd, w), arg1 |-> c.arg1, arg2 |-> c.arg2,
                          data |-> SubSeq(buf, Len(buf) - EditLen(c) + 1, Len(buf))])]

-----------------------------------------------------------------------------
(* Choosing the commands for what is pending *)

\* A byte of the old save's buffer, counted from 0; past the end of the save
\* the code reads whatever the buffer holds there.
OldByte(i) == IF i < Len(old.buf) THEN old.buf[i + 1] ELSE slack

\* (schar)(new - old)
Delta(i) == LET d == (buf[Len(buf) - edits + i + 1] - OldByte(relpos - edits + i)) % 256
            IN  IF d > 127 THEN d - 256 ELSE d

DirOf(dx, dy) == IF \E d \in Dirs : DeltaX[d + 1] = dx /\ DeltaY[d + 1] = dy
                 THEN CHOOSE d \in Dirs : DeltaX[d + 1] = dx /\ DeltaY[d + 1] = dy
                 ELSE DirNone

CommandOf(cmd, a1, a2) == [cmd |-> cmd, arg1 |-> a1, arg2 |-> a2]

\* The encodings mdiffflush compares, in its order; extra is what is added to
\* a width, for the edited bytes and for the mdiff_eof_crc32 still to come.
Candidates(eof, crc) ==
    LET firstEdit == Len(buf) - edits
        firstCopy == firstEdit - copies
        tail == IF eof THEN 7 ELSE 0
        preferX == hint = Len(buf) - 1 \/ (firstEdit - anchor) % SaveSizeMonst = 0
        onlyY == edits = 1 /\ ~preferX /\ copies >= 1
        dir == CASE edits = 2 /\ Delta(1) # 0 -> DirOf(Delta(0), Delta(1))
                 [] edits = 1 /\ preferX -> DirOf(Delta(0), 0)
                 [] onlyY -> DirOf(0, Delta(0))
                 [] OTHER -> DirNone
        coordPos == IF onlyY THEN firstEdit - 1 ELSE firstEdit
        preferred == IF hint = Len(buf) - (IF edits = 1 /\ preferX THEN 1 ELSE 2) THEN 2 ELSE 0
        large == (coordPos - firstCopy) \div SaveSizeMonst
        small == (coordPos - firstCopy) % SaveSizeMonst
        Try(extra, first, second) == [extra |-> extra, cmds |-> <<first, second>>]
        When(cond, try) == IF cond THEN <<try>> ELSE <<>>
    IN  <<Try(edits + tail, CommandOf("copyedit", copies, edits - 1), NoCommand),
          Try(edits + tail, CommandOf("copy", copies, 0), CommandOf("edit", edits - 1, 0))>>
        \o When(eof /\ edits = 0, Try(0, CommandOf("eof_crc32", copies, crc), NoCommand))
        \o When(\A i \in (firstEdit + 1)..Len(buf) : buf[i] = 0,
                Try(0, CommandOf("erase", copies, edits - 3), NoCommand))
        \o When(dir # DirNone /\ (coordPos - anchor) % SaveSizeMonst = 0,
                Try(tail - preferred, CommandOf("coord", large, dir), NoCommand))
        \o When(dir # DirNone /\ small # 0,
                Try(tail - preferred, CommandOf("copy", small, 0), CommandOf("coord", large, dir)))
        \o When(dir # DirNone /\ large > 0,
                Try(tail - preferred, CommandOf("copy", SaveSizeMonst + small, 0),
                    CommandOf("coord", large - 1, dir)))
        \o When(edits = 1 /\ Delta(0) = 1, Try(tail, CommandOf("increment", copies, 0), NoCommand))
        \o When(edits = 1, Try(tail, CommandOf("copyedit1", copies, 0), NoCommand))

\* mdiff_checklen: keeps the best so far unless the try is shorter.  (The
\* second command is measured with the list as it is before the first.)
Encodable(c) == Omitted(c) \/ Arg2Fits(c.cmd, c.arg2)
Length(t) == CmdWidth(mru, t.cmds[1]) + CmdWidth(mru, t.cmds[2]) + t.extra
CheckLen(best, t) ==
    IF (\A i \in 1..2 : Encodable(t.cmds[i])) /\ Length(t) < Length(best)
    THEN t ELSE best

INT_MAX == 2147483647
Best(eof, crc) ==
    FoldLeft(CheckLen, [extra |-> INT_MAX, cmds |-> <<NoCommand, NoCommand>>],
             Candidates(eof, crc)).cmds

EofCommands == {"eof", "eof_crc32"}

\* orig_edit + edits - 1 is past the end of the old save: one or two edits are
\* compared with what stands there.
ComparesPastEnd == seeks = 0 /\ edits \in 1..2 /\ relpos > Len(old.buf)

\* Mutant: the anchor stays where it is.
AnchorStays(best) == anchor

\* The end of the copy that best starts with, if it does.
AnchorAfter(best) ==
    IF best[1].cmd = "copy" /\ best[1].arg1 # 0
    THEN Len(buf) - edits - copies + best[1].arg1 ELSE anchor

\* mdiffflush: the diff, the list and the anchor after the pending seek, or
\* the pending copies and edits, have been written.
Flush(eof) ==
    LET crc == IF eof THEN buf ELSE <<>>        \* crc32 tells files apart
        best == IF seeks # 0 THEN <<CommandOf("seek", seeks, 0), NoCommand>> ELSE Best(eof, crc)
        ends == eof /\ \A i \in 1..2 : best[i].cmd \notin EofCommands
        cmds == best \o (IF ends THEN <<CommandOf("eof_crc32", 0, crc)>> ELSE <<>>)
    IN  [FoldLeft(WriteCmd, coder, cmds)
            EXCEPT !.anchor = AnchorAfter(best), !.past = @ \/ ComparesPastEnd]

-----------------------------------------------------------------------------
(* Reading a diff back *)

Decoder == [buf |-> <<>>, dbpos |-> 0, mru |-> Commands, anchor |-> 0, err |-> FALSE]

\* One command of mdiffapply: the places name the command through the
\* decoder's own list, then its copy part, its edit part and its seek part.
ApplyCmd(d, c) ==
    LET read == FoldLeft(LAMBDA l, p : ToFront(l, p), d.mru, c.places)
        cmd == read[1]
        pos == Len(d.buf)
        gap == (pos - d.anchor) % SaveSizeMonst
        copy == CASE cmd \in {"seek", "edit"} -> 0
                  [] cmd = "coord" -> c.arg1 * SaveSizeMonst
                                      + (IF gap # 0 THEN SaveSizeMonst - gap ELSE 0)
                  [] OTHER -> c.arg1
        edit == CASE cmd = "copyedit" -> c.arg2 + 1
                  [] cmd \in {"copyedit1", "increment"} -> 1
                  [] cmd = "edit" -> c.arg1 + 1
                  [] cmd = "erase" -> c.arg2 + 3
                  [] cmd = "coord" -> IF DeltaY[c.arg2 + 1] = 0 THEN 1 ELSE 2
                  [] OTHER -> 0
        from == d.dbpos + copy
        badCopy == copy # 0 /\ (d.dbpos < 0 \/ from > Len(old.buf))
        badAdjust == cmd \in {"increment", "coord"} /\ (from < 0 \/ from + edit > Len(old.buf))
        step(i) == IF cmd = "increment" THEN 1
                   ELSE IF i = 1 THEN DeltaX[c.arg2 + 1] ELSE DeltaY[c.arg2 + 1]
        edited == CASE cmd \in {"edit", "copyedit", "copyedit1"} -> c.data
                    [] cmd = "erase" -> [i \in 1..edit |-> 0]
                    [] OTHER -> [i \in 1..edit |-> (old.buf[from + i] + step(i)) % 256]
        copied == d.buf \o SubSeq(old.buf, d.dbpos + 1, from)
    IN  IF d.err \/ badCopy \/ badAdjust THEN [d EXCEPT !.err = TRUE]
        ELSE [buf |-> copied \o edited,
              dbpos |-> from + edit - (IF cmd = "seek" THEN c.arg1 ELSE 0),
              mru |-> read,
              anchor |-> IF cmd = "copy" THEN pos + copy ELSE d.anchor,
              err |-> cmd = "eof_crc32" /\ c.arg2 # copied]

Apply(commands) == FoldLeft(ApplyCmd, Decoder, commands)

-----------------------------------------------------------------------------
(* The operations of a memory file *)

\* An old save is given with where its tags stand (counted from 0; -1: none).
DiffInit ==
    /\ old = [buf |-> <<>>, tags |-> [t \in Tags |-> -1]] /\ slack = 0
    /\ stage = "idle" /\ buf = <<>> /\ marks = 0 /\ relpos = 0
    /\ copies = 0 /\ edits = 0 /\ seeks = 0
    /\ hint = -2 /\ coder = [mru |-> Commands, anchor |-> 0, diff |-> <<>>, past |-> FALSE]

\* mnew(mf, relativeto).
NewMemfile ==
    /\ stage = "idle" /\ stage' = "writing"
    /\ old' \in OldSaves /\ slack' \in Slack
    /\ UNCHANGED <<buf, marks, relpos, counts, hint, coder>>

\* mwrite, one byte of it.
MwriteByte(b) ==
    LET same == relpos < Len(old.buf) /\ b = old.buf[relpos + 1]
        flushed == seeks # 0 \/ (same /\ edits # 0)
    IN  /\ stage = "writing" /\ Len(buf) < MaxLen
        /\ coder' = IF flushed THEN Flush(FALSE) ELSE coder
        /\ copies' = (IF flushed THEN 0 ELSE copies) + (IF same THEN 1 ELSE 0)
        /\ edits' = (IF flushed THEN 0 ELSE edits) + (IF same THEN 0 ELSE 1)
        /\ seeks' = 0
        /\ buf' = Append(buf, b) /\ relpos' = relpos + 1
        /\ UNCHANGED <<old, slack, stage, marks, hint>>

\* mtag, in the new save: seeks to where the old one has the tag.
Mtag(t) ==
    LET found == old.tags[t] # -1 /\ relpos # old.tags[t]
        flushed == found /\ (edits # 0 \/ copies # 0)
    IN  /\ stage = "writing" /\ marks < MaxMarks
        /\ coder' = IF flushed THEN Flush(FALSE) ELSE coder
        /\ copies' = (IF flushed THEN 0 ELSE copies)
        /\ edits' = (IF flushed THEN 0 ELSE edits)
        /\ seeks' = (IF flushed THEN 0 ELSE seeks) + (IF found THEN relpos - old.tags[t] ELSE 0)
        /\ relpos' = (IF found THEN old.tags[t] ELSE relpos)
        /\ marks' = marks + 1
        /\ UNCHANGED <<old, slack, stage, buf, hint>>

\* mhint_mon_coordinates.
MhintMonCoordinates ==
    /\ stage = "writing" /\ hint # Len(buf) /\ marks < MaxMarks
    /\ hint' = Len(buf) /\ marks' = marks + 1
    /\ UNCHANGED <<old, slack, stage, buf, relpos, counts, coder>>

\* mdiffflush(mf, 1), the end of the save; the diff then goes to the log.
FinishSave ==
    /\ stage = "writing" /\ stage' = "done"
    /\ coder' = Flush(TRUE)
    /\ copies' = 0 /\ edits' = 0 /\ seeks' = 0
    /\ UNCHANGED <<old, slack, buf, marks, relpos, hint>>

DiffNext ==
    \/ NewMemfile
    \/ \E b \in Bytes : MwriteByte(b)
    \/ \E t \in Tags : Mtag(t)
    \/ MhintMonCoordinates
    \/ FinishSave

DiffSpec == DiffInit /\ [][DiffNext]_diffVars

-----------------------------------------------------------------------------
(* Properties *)

\* What the log must be able to do: the old save and the commands give back
\* the new save.  A diff that the reader refuses is one for which an edit was
\* compared with what lies past the end of the old save; even then, it never
\* takes the diff for another save (log_neutral_turnstate panics with
\* "Corrupted diff added to save file", after the diff has been written).
DiffRoundTrip ==
    stage = "done" =>
        LET d == Apply(diff) IN
            /\ ~d.err => d.buf = buf
            /\ ~coder.past => ~d.err

\* The encoder's bookkeeping and the reader's stay in step at every flush: the
\* reader that has applied what is written so far stands where the encoder
\* says it does, with the same command list and the same anchor, so what is
\* pending means the same to both.
ReaderInStep ==
    stage = "writing" =>
        LET d == Apply(diff) IN
            /\ ~coder.past => ~d.err
            /\ ~d.err =>
                  /\ d.buf = SubSeq(buf, 1, Len(buf) - copies - edits)
                  /\ d.dbpos = relpos + seeks - copies - edits
                  /\ d.mru = mru /\ d.anchor = anchor
            /\ seeks # 0 => copies = 0 /\ edits = 0

\* A diff and the memory file it was made against give the file that must have
\* been used to make the diff (memfile.c:761): no diff is corrupted.
NoDiffIsCorrupted ==
    stage = "done" => LET d == Apply(diff) IN ~d.err /\ d.buf = buf
=============================================================================
