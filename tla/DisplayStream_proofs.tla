------------------------- MODULE DisplayStream_proofs -------------------------
(***************************************************************************)
(* For maps of every size, every set of status lines and inventories, and  *)
(* however much is drawn between two questions: what the player is asked   *)
(* about is what the client shows.                                         *)
(*                                                                         *)
(* The argument follows one picture, the one that the client will have     *)
(* once everything that is on its way has arrived (Coming).  The caches of *)
(* the server agree with it in every part that the engine has drawn since  *)
(* the game was loaded; in a part that was not drawn yet the cache is      *)
(* empty, and the first change to it is coded so that it does not matter   *)
(* what the client had before.                                             *)
(***************************************************************************)
EXTENDS DisplayStream, FiniteSetTheorems, WellFoundedInduction, TLAPS

Cells    == Glyphs \cup {Blank}
Column   == [Rows -> Cells]
Maps     == [Columns -> Column]
Names    == {pi.plname : pi \in Statuses} \cup {""}
Players  == [plname : Names, hp : Nat]
Lists    == ItemLists \cup {{}}
Maybe    == {Absent} \cup {<<items>> : items \in Lists}
Pictures == [dbuf : Maps, player : Players, invent : Lists, floor : Lists]

(* The client's picture once what waits to be sent, or is on its way, has  *)
(* been applied to it.                                                     *)
Drawn == HandleDisplayList(client, pending.list)

Listed(old, list) == IF list = Absent THEN old ELSE list[1]

Updated(picture, waiting) ==
    [picture EXCEPT !.invent = Listed(@, waiting.invent),
                    !.floor = Listed(@, waiting.floor)]

Coming == IF inFlight = <<>> THEN Updated(Drawn, pending)
          ELSE HandleDisplayList(client, inFlight[1].value)

DispTypes ==
    /\ shown \in Pictures /\ client \in Pictures
    /\ cache \in [dbuf : Maps, player : Players, invent : Maybe, floor : Nat]
    /\ \E X : pending \in [list : Seq(X), invent : Maybe, floor : Maybe]
    /\ inFlight = <<>> \/ \E kind, v : inFlight = <<DisplayEntry(kind, v)>>

(* Who may draw, and what is on its way when nobody may.                   *)
Phases ==
    /\ cst \in {"waiting", "prompting", "menu"}
    /\ inFlight # <<>> =>
          /\ cst = "waiting" /\ pending = NoPending
          /\ inFlight[1].kind = "request" => inGame /\ called = Procs
          /\ inFlight[1].kind # "request" => ~inGame
    /\ cst # "waiting" => inFlight = <<>> /\ pending = NoPending
    /\ cst = "prompting" => inGame /\ called = Procs
    /\ cst = "menu" => ~inGame

(* What the caches know of the client.                                     *)
MapFollows ==
    IF "update_screen" \in called
    THEN Coming.dbuf = shown.dbuf /\ cache.dbuf = shown.dbuf
    ELSE cache.dbuf = BlankScreen

PlayerFollows ==
    IF "update_status" \in called
    THEN /\ Coming.player = shown.player /\ cache.player = shown.player
         /\ shown.player.plname # ""
    ELSE cache.player = NoStatus

InventFollows ==
    IF "list_invent" \in called
    THEN Coming.invent = shown.invent /\ cache.invent = <<shown.invent>>
    ELSE cache.invent = Absent

CacheFollows == inGame => MapFollows /\ PlayerFollows /\ InventFollows

DispInv ==
    /\ DispTypes /\ Drawn \in Pictures /\ Coming \in Pictures
    /\ Phases /\ CacheFollows

-----------------------------------------------------------------------------
(* Applying a list of changes, one after the other.                        *)

LessThan == {ss \in Nat \X Nat : ss[1] < ss[2]}

(* A nonempty set of naturals has a least element.                         *)
LEMMA LeastExists ==
    ASSUME NEW S \in SUBSET Nat, S # {}
    PROVE  \E x \in S : \A y \in S : x <= y
<1>1. IsWellFoundedOn(LessThan, Nat)
  BY NatLessThanWellFounded DEF OpToRel, LessThan
<1>2. PICK x \in S : \A y \in S : <<y, x>> \notin LessThan
  BY <1>1, WFMin
<1>3. \A y \in S : ~(y < x)
  BY <1>2 DEF LessThan
<1>4. QED
  BY <1>3

(* The pictures that a client sees as it applies the first n changes.      *)
Sees(f, picture, list, n) ==
    f = [i \in 0 .. n |-> IF i = 0 THEN picture ELSE NetCmd(f[i - 1], list[i])]

(* There are such pictures for every list.                                 *)
LEMMA SeesSomething ==
    ASSUME NEW picture, NEW list
    PROVE  \A n \in Nat : \E f : Sees(f, picture, list, n)
<1> DEFINE Bad == {n \in Nat : ~ \E f : Sees(f, picture, list, n)}
<1>1. SUFFICES ASSUME Bad # {} PROVE FALSE
  OBVIOUS
<1>2. PICK b \in Bad : \A n \in Bad : b <= n
  BY <1>1, LeastExists
<1>3. b \in Nat /\ \A f : ~Sees(f, picture, list, b)
  OBVIOUS
<1>4. CASE b = 0
  <2> DEFINE f == [i \in 0 .. 0 |-> picture]
  <2>1. f = [i \in 0 .. 0 |-> IF i = 0 THEN picture ELSE NetCmd(f[i - 1], list[i])]
    OBVIOUS
  <2>2. Sees(f, picture, list, 0)
    BY <2>1 DEF Sees
  <2>3. QED
    BY <1>3, <1>4, <2>2
<1>5. CASE b # 0
  <2>1. b - 1 \in Nat /\ ~(b <= b - 1)
    BY <1>3, <1>5
  <2>2. b - 1 \notin Bad
    BY <1>2, <2>1
  <2>3. PICK f : Sees(f, picture, list, b - 1)
    BY <2>1, <2>2
  <2> DEFINE g == [i \in 0 .. b |-> IF i = b THEN NetCmd(f[b - 1], list[b]) ELSE f[i]]
  <2>4. ASSUME NEW i \in 0 .. b
        PROVE  g[i] = IF i = 0 THEN picture ELSE NetCmd(g[i - 1], list[i])
    <3>1. CASE i = b
      <4>1. b - 1 \in 0 .. b /\ b - 1 # b
        BY <1>3, <2>1
      <4>2. g[b] = NetCmd(f[b - 1], list[b]) /\ g[b - 1] = f[b - 1]
        BY <1>3, <4>1
      <4>3. QED
        BY <1>5, <3>1, <4>2
    <3>2. CASE i # b
      <4>1. i \in 0 .. (b - 1) /\ (i # 0 => i - 1 \in 0 .. b /\ i - 1 # b)
        BY <1>3, <3>2
      <4>2. f[i] = IF i = 0 THEN picture ELSE NetCmd(f[i - 1], list[i])
        BY <2>3, <4>1 DEF Sees
      <4>3. g[i] = f[i] /\ (i # 0 => g[i - 1] = f[i - 1])
        BY <3>2, <4>1
      <4>4. QED
        BY <4>2, <4>3
    <3>3. QED
      BY <3>1, <3>2
  <2>5. g = [i \in 0 .. b |-> g[i]]
    OBVIOUS
  <2> HIDE DEF g
  <2>6. g = [i \in 0 .. b |-> IF i = 0 THEN picture ELSE NetCmd(g[i - 1], list[i])]
    BY <2>4, <2>5
  <2>7. Sees(g, picture, list, b)
    BY <2>6 DEF Sees
  <2>8. QED
    BY <1>3, <2>7
<1>6. QED
  BY <1>4, <1>5

(* The last of them is what handle_display_list makes of the first.        *)
LEMMA HandlesAll ==
    ASSUME NEW picture, NEW X, NEW list \in Seq(X)
    PROVE  \E f : /\ Sees(f, picture, list, Len(list))
                  /\ HandleDisplayList(picture, list) = f[Len(list)]
<1>1. Len(list) \in Nat
  OBVIOUS
<1>2. PICK f : Sees(f, picture, list, Len(list))
  BY <1>1, SeesSomething
<1> DEFINE g == CHOOSE f0 : f0 = [i \in 0 .. Len(list) |->
                                IF i = 0 THEN picture ELSE NetCmd(f0[i - 1], list[i])]
<1>3. Sees(g, picture, list, Len(list))
  BY <1>2 DEF Sees
<1>4. HandleDisplayList(picture, list) = g[Len(list)]
  BY DEF HandleDisplayList
<1> HIDE DEF g
<1>5. QED
  BY <1>3, <1>4

(* No changes change nothing.                                              *)
LEMMA HandleNone ==
    ASSUME NEW picture
    PROVE  HandleDisplayList(picture, <<>>) = picture
<1>1. <<>> \in Seq({}) /\ Len(<<>>) = 0
  OBVIOUS
<1>2. PICK f : /\ Sees(f, picture, <<>>, Len(<<>>))
               /\ HandleDisplayList(picture, <<>>) = f[Len(<<>>)]
  BY <1>1, HandlesAll
<1>3. f[0] = picture
  BY <1>1, <1>2 DEF Sees
<1>4. QED
  BY <1>1, <1>2, <1>3

(* A change at the end of the list comes last.                             *)
LEMMA HandleMore ==
    ASSUME NEW picture, NEW X, NEW list \in Seq(X), NEW entry \in X
    PROVE  HandleDisplayList(picture, Append(list, entry)) =
              NetCmd(HandleDisplayList(picture, list), entry)
<1>1. PICK more \in Seq(X) : more = Append(list, entry)
  <2>1. Append(list, entry) \in Seq(X)
    OBVIOUS
  <2>2. QED
    BY <2>1, Zenon
<1>2. PICK n \in Nat : n = Len(list)
  OBVIOUS
<1>3. Len(more) = n + 1 /\ more[n + 1] = entry /\ \A i \in 1 .. n : more[i] = list[i]
  <2>1. /\ Len(Append(list, entry)) = Len(list) + 1
        /\ Append(list, entry)[Len(list) + 1] = entry
        /\ \A i \in 1 .. Len(list) : Append(list, entry)[i] = list[i]
    OBVIOUS
  <2>2. QED
    BY <1>1, <1>2, <2>1, Zenon
<1>4. PICK f : Sees(f, picture, list, n) /\ HandleDisplayList(picture, list) = f[n]
  BY <1>2, HandlesAll
<1>5. PICK g : Sees(g, picture, more, n + 1) /\ HandleDisplayList(picture, more) = g[n + 1]
  BY <1>3, HandlesAll
<1>6. /\ \A i \in 0 .. n : f[i] = IF i = 0 THEN picture ELSE NetCmd(f[i - 1], list[i])
      /\ \A i \in 0 .. (n + 1) : g[i] = IF i = 0 THEN picture ELSE NetCmd(g[i - 1], more[i])
  BY <1>4, <1>5 DEF Sees
<1>7. \A i \in 0 .. n : f[i] = g[i]
  <2> DEFINE Bad == {i \in 0 .. n : f[i] # g[i]}
  <2>1. SUFFICES ASSUME Bad # {} PROVE FALSE
    OBVIOUS
  <2>2. PICK b \in Bad : \A i \in Bad : b <= i
    <3>1. Bad \in SUBSET Nat
      OBVIOUS
    <3> HIDE DEF Bad
    <3>2. QED
      BY <2>1, <3>1, LeastExists
  <2>3. b \in 0 .. n /\ f[b] # g[b] /\ b \in 0 .. (n + 1)
    OBVIOUS
  <2>4. b # 0
    BY <1>6, <2>3
  <2>5. b - 1 \in 0 .. n /\ ~(b <= b - 1) /\ b \in 1 .. n
    BY <2>3, <2>4
  <2>6. f[b - 1] = g[b - 1]
    BY <2>2, <2>5
  <2> HIDE DEF Bad
  <2>7. f[b] = NetCmd(f[b - 1], list[b]) /\ g[b] = NetCmd(g[b - 1], more[b])
    BY <1>6, <2>3, <2>4
  <2>8. more[b] = list[b]
    BY <1>3, <2>5
  <2>9. QED
    BY <2>3, <2>6, <2>7, <2>8
<1>8. n + 1 \in 0 .. (n + 1) /\ n + 1 # 0 /\ n + 1 - 1 = n /\ n \in 0 .. n
  OBVIOUS
<1>9. g[n + 1] = NetCmd(g[n], entry)
  BY <1>3, <1>6, <1>8
<1>10. g[n] = f[n]
  BY <1>7, <1>8
<1>11. QED
  BY <1>1, <1>4, <1>5, <1>9, <1>10

-----------------------------------------------------------------------------
(* The codes undo the caches.                                              *)

(* The codes of srv_update_screen and srv_update_status.                   *)
CodedScreen(new, old) ==
    IF new = BlankScreen THEN <<"blank">>
    ELSE <<"columns", [x \in DOMAIN new |-> CodedColumn(new[x], old[x])]>>

CodedStatus(new, old) ==
    [plname |-> IF old.plname = "" THEN <<new.plname>> ELSE Absent,
     hp     |-> Changed(new.hp, old.hp, old.plname = "")]

(* A column that is coded against what the client has, or against nothing, *)
(* arrives.                                                                *)
LEMMA ColumnArrives ==
    ASSUME NEW new \in Column, NEW old \in Column, NEW had \in Column,
           had = old \/ old = BlankColumn
    PROVE  AppliedColumn(CodedColumn(new, old), had) = new
<1>1. CASE new = BlankColumn
  BY <1>1 DEF AppliedColumn, CodedColumn
<1>2. CASE new # BlankColumn /\ new = old
  <2>1. CodedColumn(new, old) = <<"same">>
    BY <1>2 DEF CodedColumn
  <2>2. QED
    BY <1>2, <2>1 DEF AppliedColumn
<1>3. CASE new # BlankColumn /\ new # old
  <2> DEFINE codes == [y \in DOMAIN new |->
                         IF new[y] = Blank THEN <<"blank">>
                         ELSE IF new[y] = old[y] THEN <<"same">>
                         ELSE <<"glyph", new[y]>>]
  <2>1. CodedColumn(new, old) = <<"glyphs", codes>>
    BY <1>3 DEF CodedColumn
  <2>2. ASSUME NEW y \in Rows
        PROVE  new[y] = (CASE codes[y][1] = "blank" -> Blank
                           [] codes[y][1] = "same"  -> had[y]
                           [] OTHER -> codes[y][2])
    <3>1. DOMAIN new = Rows
      BY DEF Column
    <3>2. CASE new[y] = Blank
      <4>1. codes[y] = <<"blank">>
        BY <3>1, <3>2
      <4> HIDE DEF codes
      <4>2. QED
        BY <3>2, <4>1
    <3>3. CASE new[y] # Blank /\ new[y] = old[y]
      <4>1. codes[y] = <<"same">>
        BY <3>1, <3>3
      <4>2. old # BlankColumn
        BY <3>3 DEF BlankColumn
      <4> HIDE DEF codes
      <4>3. QED
        BY <3>3, <4>1, <4>2
    <3>4. CASE new[y] # Blank /\ new[y] # old[y]
      <4>1. codes[y] = <<"glyph", new[y]>>
        BY <3>1, <3>4
      <4> HIDE DEF codes
      <4>2. QED
        BY <4>1
    <3>5. QED
      BY <3>2, <3>3, <3>4
  <2> HIDE DEF codes
  <2>3. AppliedColumn(<<"glyphs", codes>>, had) =
           [y \in DOMAIN had |-> CASE codes[y][1] = "blank" -> Blank
                                   [] codes[y][1] = "same"  -> had[y]
                                   [] OTHER -> codes[y][2]]
    BY DEF AppliedColumn
  <2>4. DOMAIN had = Rows /\ new = [y \in Rows |-> new[y]]
    BY DEF Column
  <2>5. QED
    BY <2>1, <2>2, <2>3, <2>4
<1>4. QED
  BY <1>1, <1>2, <1>3

(* So does a map,                                                          *)
LEMMA ScreenArrives ==
    ASSUME NEW new \in Maps, NEW old \in Maps, NEW picture \in Pictures,
           picture.dbuf = old \/ old = BlankScreen
    PROVE  CmdUpdateScreen(picture, CodedScreen(new, old)) =
              [picture EXCEPT !.dbuf = new]
<1>1. CASE new = BlankScreen
  BY <1>1 DEF CodedScreen, CmdUpdateScreen
<1>2. CASE new # BlankScreen
  <2> DEFINE had == picture.dbuf
             codes == [x \in DOMAIN new |-> CodedColumn(new[x], old[x])]
  <2>1. had \in Maps /\ DOMAIN had = Columns /\ DOMAIN new = Columns
    BY DEF Pictures, Maps
  <2>2. CodedScreen(new, old) = <<"columns", codes>>
    BY <1>2 DEF CodedScreen
  <2>3. ASSUME NEW x \in Columns PROVE AppliedColumn(codes[x], had[x]) = new[x]
    <3>1. new[x] \in Column /\ old[x] \in Column /\ had[x] \in Column
      BY <2>1 DEF Maps
    <3>2. had[x] = old[x] \/ old[x] = BlankColumn
      BY DEF BlankScreen
    <3>3. codes[x] = CodedColumn(new[x], old[x])
      BY <2>1
    <3>4. QED
      BY <3>1, <3>2, <3>3, ColumnArrives
  <2>4. new = [x \in Columns |-> new[x]]
    BY DEF Maps
  <2> HIDE DEF codes
  <2>5. CmdUpdateScreen(picture, <<"columns", codes>>) =
           [picture EXCEPT !.dbuf = [x \in DOMAIN had |-> AppliedColumn(codes[x], had[x])]]
    BY DEF CmdUpdateScreen
  <2>6. [x \in DOMAIN had |-> AppliedColumn(codes[x], had[x])] = new
    BY <2>1, <2>3, <2>4
  <2>7. QED
    BY <2>2, <2>5, <2>6
<1>3. QED
  BY <1>1, <1>2

(* and a status line, of which the server sends all while it knows none.   *)
LEMMA StatusArrives ==
    ASSUME NEW new \in Players, NEW old \in Players, NEW picture \in Pictures,
           old.plname # "" => picture.player = old /\ new.plname = old.plname
    PROVE  CmdUpdateStatus(picture, CodedStatus(new, old)) =
              [picture EXCEPT !.player = new]
<1>1. /\ Replaced(picture.player.plname, CodedStatus(new, old).plname) = new.plname
      /\ Replaced(picture.player.hp, CodedStatus(new, old).hp) = new.hp
  BY DEF Replaced, CodedStatus, Changed, Absent
<1>2. new = [plname |-> new.plname, hp |-> new.hp]
  BY DEF Players
<1>3. QED
  BY <1>1, <1>2 DEF CmdUpdateStatus

-----------------------------------------------------------------------------
(* The lists of objects go out after the rest.                             *)
LEMMA DataIsUpdated ==
    ASSUME NEW X, pending \in [list : Seq(X), invent : Maybe, floor : Maybe],
           Drawn \in Pictures
    PROVE  HandleDisplayList(client, DisplayData) = Updated(Drawn, pending)
<1> DEFINE floor  == DisplayEntry("list_floor", pending.floor[1])
           invent == DisplayEntry("list_invent", pending.invent[1])
           first  == IF pending.floor = Absent THEN pending.list ELSE Append(pending.list, floor)
<1>1. PICK Y : Y = X \cup {floor, invent}
  OBVIOUS
<1>2. pending.list \in Seq(Y) /\ floor \in Y /\ invent \in Y
  <2>1. pending.list \in Seq(X) /\ X \subseteq Y
    BY <1>1
  <2>2. \A l \in Seq(X) : l \in Seq(Y)
    BY <2>1
  <2>3. QED
    BY <1>1, <2>1, <2>2
<1> HIDE DEF floor, invent
<1>3. \A l \in Seq(Y) : l \o <<>> = l
  OBVIOUS
<1>4. \A l \in Seq(Y), e \in Y : l \o <<e>> = Append(l, e) /\ Append(l, e) \in Seq(Y)
  OBVIOUS
<1>5. first \in Seq(Y)
  BY <1>2, <1>4
<1>6. pending.list \o (IF pending.floor # Absent THEN <<floor>> ELSE <<>>) = first
  BY <1>2, <1>3, <1>4
<1>7. HandleDisplayList(client, first) =
        [Drawn EXCEPT !.floor = Listed(@, pending.floor)]
  <2>1. CASE pending.floor = Absent
    BY <2>1 DEF Drawn, Listed, Pictures
  <2>2. CASE pending.floor # Absent
    <3>1. HandleDisplayList(client, first) = NetCmd(Drawn, floor)
      BY <1>2, <2>2, HandleMore DEF Drawn
    <3>2. NetCmd(Drawn, floor) = [Drawn EXCEPT !.floor = pending.floor[1]]
      BY DEF NetCmd, floor, DisplayEntry
    <3>3. QED
      BY <2>2, <3>1, <3>2 DEF Listed, Pictures
  <2>3. QED
    BY <2>1, <2>2
<1>8. DisplayData = first \o (IF pending.invent # Absent THEN <<invent>> ELSE <<>>)
  BY <1>6 DEF DisplayData, floor, invent
<1> HIDE DEF first
<1>9. CASE pending.invent = Absent
  <2>1. DisplayData = first
    BY <1>3, <1>5, <1>8, <1>9
  <2>2. QED
    BY <1>7, <1>9, <2>1 DEF Updated, Listed, Pictures
<1>10. CASE pending.invent # Absent
  <2>1. DisplayData = Append(first, invent)
    BY <1>4, <1>2, <1>5, <1>8, <1>10
  <2>2. HandleDisplayList(client, DisplayData) = NetCmd(HandleDisplayList(client, first), invent)
    BY <1>2, <1>5, <2>1, HandleMore
  <2>3. \A p : NetCmd(p, invent) = [p EXCEPT !.invent = pending.invent[1]]
    BY DEF NetCmd, invent, DisplayEntry
  <2>4. HandleDisplayList(client, DisplayData) =
          [[Drawn EXCEPT !.floor = Listed(@, pending.floor)]
              EXCEPT !.invent = pending.invent[1]]
    BY <1>7, <2>2, <2>3
  <2>5. \A p \in Pictures : \A i, fl :
          [[p EXCEPT !.floor = fl] EXCEPT !.invent = i] = [p EXCEPT !.invent = i, !.floor = fl]
    BY DEF Pictures
  <2>6. QED
    BY <1>10, <2>4, <2>5 DEF Updated, Listed
<1>11. QED
  BY <1>9, <1>10

(* One more change is drawn over the others.                               *)
LEMMA DrawsOneMore ==
    ASSUME NEW X, pending.list \in Seq(X), NEW entry, client' = client,
           pending'.list = Append(pending.list, entry)
    PROVE  /\ Drawn' = NetCmd(Drawn, entry)
           /\ \E Y : pending'.list \in Seq(Y)
<1>1. PICK Y : Y = X \cup {entry}
  OBVIOUS
<1>2. pending.list \in Seq(Y) /\ entry \in Y
  <2>1. X \subseteq Y
    BY <1>1
  <2>2. \A l \in Seq(X) : l \in Seq(Y)
    BY <2>1
  <2>3. QED
    BY <1>1, <2>2
<1>3. HandleDisplayList(client, Append(pending.list, entry)) =
        NetCmd(HandleDisplayList(client, pending.list), entry)
  BY <1>2, HandleMore
<1>4. Append(pending.list, entry) \in Seq(Y)
  BY <1>2
<1>5. QED
  BY <1>3, <1>4 DEF Drawn

(* Nothing is on its way: the client has everything.                       *)
LEMMA NothingComes ==
    ASSUME client \in Pictures, inFlight = <<>>, pending = NoPending
    PROVE  Coming = client
<1>1. Drawn = client
  BY HandleNone DEF Drawn, NoPending
<1>2. QED
  BY <1>1 DEF Coming, Updated, Listed, NoPending, Absent, Pictures

-----------------------------------------------------------------------------
(* What the engine draws and what a reset leaves are pictures and caches.  *)
LEMMA WhatIsDrawn ==
    /\ BlankScreen \in Maps /\ NoStatus \in Players /\ {} \in Lists
    /\ NoStatus.plname = ""
    /\ NoCache \in [dbuf : Maps, player : Players, invent : Maybe, floor : Nat]
    /\ NoPending \in [list : Seq({}), invent : Maybe, floor : Maybe]
    /\ \A s \in Screens : s \in Maps /\ s # BlankScreen
    /\ \A pi \in Statuses : pi \in Players /\ pi.plname # ""
    /\ \A items \in ItemLists :
          /\ items \in Lists /\ <<items>> \in Maybe /\ <<items>> # Absent
          /\ Cardinality(items) \in Nat
<1>1. BlankScreen \in Maps
  BY DEF BlankScreen, BlankColumn, Maps, Column, Cells
<1>2. NoStatus \in Players /\ {} \in Lists /\ NoStatus.plname = ""
  BY DEF NoStatus, Players, Names, Lists
<1>3. NoCache \in [dbuf : Maps, player : Players, invent : Maybe, floor : Nat]
  BY <1>1, <1>2 DEF NoCache, Maybe
<1>4. NoPending \in [list : Seq({}), invent : Maybe, floor : Maybe]
  BY DEF NoPending, Maybe
<1>5. \A s \in Screens : s \in Maps /\ s # BlankScreen
  <2>1. [Columns -> [Rows -> Glyphs]] \subseteq Maps
    <3>1. [Rows -> Glyphs] \subseteq Column
      BY DEF Column, Cells
    <3>2. QED
      BY <3>1 DEF Maps
  <2>2. QED
    BY <2>1, DisplayAssumption
<1>6. \A pi \in Statuses : pi \in Players /\ pi.plname # ""
  BY DisplayAssumption DEF Players, Names
<1>7. \A items \in ItemLists : Cardinality(items) \in Nat
  BY DisplayAssumption, FS_CardinalityType
<1>8. \A items \in ItemLists : items \in Lists /\ <<items>> \in Maybe /\ <<items>> # Absent
  BY DEF Lists, Maybe, Absent
<1>9. QED
  BY <1>1, <1>2, <1>3, <1>4, <1>5, <1>6, <1>7, <1>8

(* Nothing is known and nothing waits when the session begins.             *)
LEMMA DispBegins ==
    ASSUME DispInit
    PROVE  DispInv
<1>1. shown \in Pictures /\ client \in Pictures
  BY WhatIsDrawn DEF DispInit, Pictures
<1>2. DispTypes
  BY <1>1, WhatIsDrawn DEF DispInit, DispTypes
<1>3. Coming \in Pictures /\ Drawn \in Pictures
  <2>1. Coming = client
    BY <1>1, NothingComes DEF DispInit
  <2>2. Drawn = client
    BY HandleNone DEF Drawn, DispInit, NoPending
  <2>3. QED
    BY <1>1, <2>1, <2>2
<1>4. QED
  BY <1>2, <1>3 DEF DispInv, DispInit, Phases, CacheFollows

(* The lists of objects replace the two lists, and nothing else.           *)
LEMMA OnlyTheLists ==
    ASSUME NEW picture \in Pictures, NEW waiting,
           waiting.invent \in Maybe, waiting.floor \in Maybe
    PROVE  /\ Updated(picture, waiting) \in Pictures
           /\ Updated(picture, waiting).dbuf = picture.dbuf
           /\ Updated(picture, waiting).player = picture.player
           /\ Updated(picture, waiting).invent = Listed(picture.invent, waiting.invent)
<1>1. \A old \in Lists, m \in Maybe : Listed(old, m) \in Lists
  <2>1. \A old, items : /\ Listed(old, Absent) = old
                        /\ Listed(old, <<items>>) = items
    BY DEF Listed, Absent
  <2>2. QED
    BY <2>1 DEF Maybe
<1>2. picture.invent \in Lists /\ picture.floor \in Lists
  BY DEF Pictures
<1>3. PICK i \in Lists, fl \in Lists :
        i = Listed(picture.invent, waiting.invent) /\ fl = Listed(picture.floor, waiting.floor)
  BY <1>1, <1>2
<1>4. Updated(picture, waiting) = [picture EXCEPT !.invent = i, !.floor = fl]
  BY <1>3 DEF Updated
<1>5. PICK q : q = [picture EXCEPT !.invent = i]
  OBVIOUS
<1>6. /\ q \in Pictures /\ q.dbuf = picture.dbuf /\ q.player = picture.player
      /\ q.invent = i
  BY <1>5 DEF Pictures
<1>7. PICK p : p = [q EXCEPT !.floor = fl]
  OBVIOUS
<1>8. p \in Pictures /\ p.dbuf = q.dbuf /\ p.player = q.player /\ p.invent = q.invent
  BY <1>6, <1>7 DEF Pictures
<1>9. p = Updated(picture, waiting)
  BY <1>4, <1>5, <1>7
<1>10. QED
  BY <1>3, <1>6, <1>8, <1>9

(* What a window procedure leaves to do for the invariant: it may add one  *)
(* change to the list that waits, and replace the lists of objects.        *)
LEMMA DrawStep ==
    ASSUME DispInv, NEW proc \in Procs, Calls(proc),
           shown' \in Pictures,
           cache' \in [dbuf : Maps, player : Players, invent : Maybe, floor : Nat],
           \E Y : pending' \in [list : Seq(Y), invent : Maybe, floor : Maybe],
           Drawn' \in Pictures
    PROVE  /\ DispTypes' /\ (Drawn \in Pictures)' /\ Phases'
           /\ (Coming \in Pictures)'
           /\ Coming.dbuf = Drawn.dbuf /\ Coming.player = Drawn.player
           /\ Coming'.dbuf = Drawn'.dbuf /\ Coming'.player = Drawn'.player
           /\ Coming.invent = Listed(Drawn.invent, pending.invent)
           /\ Coming'.invent = Listed(Drawn'.invent, pending'.invent)
<1>1. /\ inGame /\ cst = "waiting" /\ inFlight = <<>>
      /\ called' = called \cup {proc}
      /\ inGame' = inGame /\ inFlight' = inFlight /\ client' = client /\ cst' = cst
  BY DEF Calls
<1>2. DispTypes'
  BY <1>1 DEF DispInv, DispTypes
<1>3. Phases'
  BY <1>1 DEF DispInv, Phases
<1>4. Coming = Updated(Drawn, pending) /\ Coming' = Updated(Drawn', pending')
  BY <1>1 DEF Coming
<1>5. Drawn \in Pictures
  BY DEF DispInv
<1>6. pending.invent \in Maybe /\ pending.floor \in Maybe
  BY DEF DispInv, DispTypes
<1>7. pending'.invent \in Maybe /\ pending'.floor \in Maybe
  OBVIOUS
<1>8. QED
  BY <1>2, <1>3, <1>4, <1>5, <1>6, <1>7, OnlyTheLists

(* The engine draws the map.                                               *)
LEMMA FlushScreenStep ==
    ASSUME DispInv, FlushScreen
    PROVE  DispInv'
<1>1. PICK s \in Screens :
        /\ Calls("update_screen") /\ SrvUpdateScreen(s)
        /\ shown' = [shown EXCEPT !.dbuf = s]
  BY DEF FlushScreen
<1>2. s \in Maps /\ s # BlankScreen
  BY WhatIsDrawn
<1>3. /\ inGame /\ called' = called \cup {"update_screen"} /\ inGame' = inGame
      /\ client' = client
  BY <1>1 DEF Calls
<1>4. PICK X : pending \in [list : Seq(X), invent : Maybe, floor : Maybe]
  BY DEF DispInv, DispTypes
<1>5. /\ shown \in Pictures /\ cache.dbuf \in Maps
      /\ cache \in [dbuf : Maps, player : Players, invent : Maybe, floor : Nat]
      /\ Drawn \in Pictures /\ CacheFollows
  BY DEF DispInv, DispTypes
<1>6. /\ shown' \in Pictures /\ shown'.dbuf = s
      /\ shown'.player = shown.player /\ shown'.invent = shown.invent
  BY <1>1, <1>2, <1>5 DEF Pictures
<1>7. "update_screen" \in Procs
  BY DEF Procs
<1>8. CASE s = cache.dbuf
  <2>1. cache' = cache /\ pending' = pending
    BY <1>1, <1>8 DEF SrvUpdateScreen
  <2>2. "update_screen" \in called /\ shown.dbuf = s
    BY <1>2, <1>3, <1>5, <1>8 DEF CacheFollows, MapFollows
  <2>3. Drawn' = Drawn
    BY <1>3, <2>1 DEF Drawn
  <2>4. /\ DispTypes' /\ (Drawn \in Pictures)' /\ Phases' /\ (Coming \in Pictures)'
        /\ Coming.dbuf = Coming'.dbuf /\ Coming'.player = Coming.player
        /\ Coming'.invent = Coming.invent
    BY <1>1, <1>4, <1>5, <1>6, <1>7, <2>1, <2>3, DrawStep
  <2>5. CacheFollows'
    BY <1>3, <1>5, <1>6, <2>1, <2>2, <2>4 DEF CacheFollows, MapFollows,
       PlayerFollows, InventFollows
  <2>6. QED
    BY <2>4, <2>5 DEF DispInv
<1>9. CASE s # cache.dbuf
  <2>1. PICK entry : entry = DisplayEntry("update_screen", CodedScreen(s, cache.dbuf))
    OBVIOUS
  <2>2. /\ pending' = [pending EXCEPT !.list = Append(@, entry)]
        /\ cache' = [cache EXCEPT !.dbuf = s]
    BY <1>1, <1>9, <2>1 DEF SrvUpdateScreen, AddDisplayData, CodedScreen
  <2>3. /\ pending'.list = Append(pending.list, entry)
        /\ pending'.invent = pending.invent /\ pending'.floor = pending.floor
        /\ pending' = [list |-> pending'.list, invent |-> pending.invent, floor |-> pending.floor]
    BY <1>4, <2>2
  <2>4. Drawn' = NetCmd(Drawn, entry) /\ \E Y : pending'.list \in Seq(Y)
    BY <1>3, <1>4, <2>3, DrawsOneMore
  <2>5. \E Y : pending' \in [list : Seq(Y), invent : Maybe, floor : Maybe]
    BY <1>4, <2>3, <2>4
  <2>6. /\ cache' \in [dbuf : Maps, player : Players, invent : Maybe, floor : Nat]
        /\ cache'.dbuf = s /\ cache'.player = cache.player /\ cache'.invent = cache.invent
    BY <1>2, <1>5, <2>2
  <2>7. Drawn.dbuf = cache.dbuf \/ cache.dbuf = BlankScreen
    <3>1. Coming.dbuf = Drawn.dbuf
      <4>1. Coming = Updated(Drawn, pending)
        BY <1>1 DEF Calls, Coming
      <4>2. QED
        BY <1>4, <1>5, <4>1, OnlyTheLists
    <3>2. QED
      BY <1>3, <1>5, <3>1 DEF CacheFollows, MapFollows
  <2>8. Drawn' = [Drawn EXCEPT !.dbuf = s]
    <3>1. NetCmd(Drawn, entry) = CmdUpdateScreen(Drawn, CodedScreen(s, cache.dbuf))
      BY <2>1 DEF NetCmd, DisplayEntry
    <3>2. QED
      BY <1>2, <1>5, <2>4, <2>7, <3>1, ScreenArrives
  <2>9. /\ Drawn' \in Pictures /\ Drawn'.dbuf = s
        /\ Drawn'.player = Drawn.player /\ Drawn'.invent = Drawn.invent
    BY <1>2, <1>5, <2>8 DEF Pictures
  <2>10. /\ DispTypes' /\ (Drawn \in Pictures)' /\ Phases' /\ (Coming \in Pictures)'
         /\ Coming'.dbuf = s /\ Coming'.player = Coming.player
         /\ Coming'.invent = Coming.invent
    BY <1>1, <1>6, <1>7, <2>3, <2>5, <2>6, <2>9, DrawStep
  <2>11. CacheFollows'
    BY <1>3, <1>5, <1>6, <2>6, <2>10 DEF CacheFollows, MapFollows,
       PlayerFollows, InventFollows
  <2>12. QED
    BY <2>10, <2>11 DEF DispInv
<1>10. QED
  BY <1>8, <1>9

(* The engine draws the status line.                                       *)
LEMMA BotStep ==
    ASSUME DispInv, Bot
    PROVE  DispInv'
<1>1. PICK pi \in Statuses :
        /\ pi.plname = shown.player.plname \/ "update_status" \notin called
        /\ Calls("update_status") /\ SrvUpdateStatus(pi)
        /\ shown' = [shown EXCEPT !.player = pi]
  BY DEF Bot
<1>2. pi \in Players /\ pi.plname # ""
  BY WhatIsDrawn
<1>3. /\ inGame /\ called' = called \cup {"update_status"} /\ inGame' = inGame
      /\ client' = client
  BY <1>1 DEF Calls
<1>4. PICK X : pending \in [list : Seq(X), invent : Maybe, floor : Maybe]
  BY DEF DispInv, DispTypes
<1>5. /\ shown \in Pictures /\ cache.player \in Players
      /\ cache \in [dbuf : Maps, player : Players, invent : Maybe, floor : Nat]
      /\ Drawn \in Pictures /\ CacheFollows
  BY DEF DispInv, DispTypes
<1>6. /\ shown' \in Pictures /\ shown'.player = pi
      /\ shown'.dbuf = shown.dbuf /\ shown'.invent = shown.invent
  BY <1>1, <1>2, <1>5 DEF Pictures
<1>7. "update_status" \in Procs
  BY DEF Procs
<1>8. CASE pi = cache.player
  <2>1. cache' = cache /\ pending' = pending
    BY <1>1, <1>8 DEF SrvUpdateStatus
  <2>2. "update_status" \in called /\ shown.player = pi
    BY <1>2, <1>3, <1>5, <1>8, WhatIsDrawn DEF CacheFollows, PlayerFollows
  <2>3. Drawn' = Drawn
    BY <1>3, <2>1 DEF Drawn
  <2>4. /\ DispTypes' /\ (Drawn \in Pictures)' /\ Phases' /\ (Coming \in Pictures)'
        /\ Coming'.dbuf = Coming.dbuf /\ Coming'.player = Coming.player
        /\ Coming'.invent = Coming.invent
    BY <1>1, <1>4, <1>5, <1>6, <1>7, <2>1, <2>3, DrawStep
  <2>5. CacheFollows'
    BY <1>2, <1>3, <1>5, <1>6, <2>1, <2>2, <2>4 DEF CacheFollows, MapFollows,
       PlayerFollows, InventFollows
  <2>6. QED
    BY <2>4, <2>5 DEF DispInv
<1>9. CASE pi # cache.player
  <2>1. PICK entry : entry = DisplayEntry("update_status", CodedStatus(pi, cache.player))
    OBVIOUS
  <2>2. /\ pending' = [pending EXCEPT !.list = Append(@, entry)]
        /\ cache' = [cache EXCEPT !.player = pi]
    BY <1>1, <1>9, <2>1 DEF SrvUpdateStatus, AddDisplayData, CodedStatus
  <2>3. /\ pending'.list = Append(pending.list, entry)
        /\ pending'.invent = pending.invent /\ pending'.floor = pending.floor
        /\ pending' = [list |-> pending'.list, invent |-> pending.invent, floor |-> pending.floor]
    BY <1>4, <2>2
  <2>4. Drawn' = NetCmd(Drawn, entry) /\ \E Y : pending'.list \in Seq(Y)
    BY <1>3, <1>4, <2>3, DrawsOneMore
  <2>5. \E Y : pending' \in [list : Seq(Y), invent : Maybe, floor : Maybe]
    BY <1>4, <2>3, <2>4
  <2>6. /\ cache' \in [dbuf : Maps, player : Players, invent : Maybe, floor : Nat]
        /\ cache'.player = pi /\ cache'.dbuf = cache.dbuf /\ cache'.invent = cache.invent
    BY <1>2, <1>5, <2>2
  <2>7. cache.player.plname # "" =>
          Drawn.player = cache.player /\ pi.plname = cache.player.plname
    <3>1. cache.player.plname # "" => "update_status" \in called
      BY <1>3, <1>5, WhatIsDrawn DEF CacheFollows, PlayerFollows
    <3>2. Coming.player = Drawn.player
      <4>1. Coming = Updated(Drawn, pending)
        BY <1>1 DEF Calls, Coming
      <4>2. QED
        BY <1>4, <1>5, <4>1, OnlyTheLists
    <3>3. QED
      BY <1>1, <1>3, <1>5, <3>1, <3>2 DEF CacheFollows, PlayerFollows
  <2>8. Drawn' = [Drawn EXCEPT !.player = pi]
    <3>1. NetCmd(Drawn, entry) = CmdUpdateStatus(Drawn, CodedStatus(pi, cache.player))
      BY <2>1 DEF NetCmd, DisplayEntry
    <3>2. QED
      BY <1>2, <1>5, <2>4, <2>7, <3>1, StatusArrives
  <2>9. /\ Drawn' \in Pictures /\ Drawn'.player = pi
        /\ Drawn'.dbuf = Drawn.dbuf /\ Drawn'.invent = Drawn.invent
    BY <1>2, <1>5, <2>8 DEF Pictures
  <2>10. /\ DispTypes' /\ (Drawn \in Pictures)' /\ Phases' /\ (Coming \in Pictures)'
         /\ Coming'.player = pi /\ Coming'.dbuf = Coming.dbuf
         /\ Coming'.invent = Coming.invent
    BY <1>1, <1>6, <1>7, <2>3, <2>5, <2>6, <2>9, DrawStep
  <2>11. CacheFollows'
    BY <1>2, <1>3, <1>5, <1>6, <2>6, <2>10 DEF CacheFollows, MapFollows,
       PlayerFollows, InventFollows
  <2>12. QED
    BY <2>10, <2>11 DEF DispInv
<1>10. QED
  BY <1>8, <1>9

(* The engine lists the inventory.                                         *)
LEMMA UpdateInventoryStep ==
    ASSUME DispInv, UpdateInventory
    PROVE  DispInv'
<1>1. PICK items \in ItemLists :
        /\ Calls("list_invent") /\ SrvListInvent(items)
        /\ shown' = [shown EXCEPT !.invent = items]
  BY DEF UpdateInventory
<1>2. items \in Lists /\ <<items>> \in Maybe /\ <<items>> # Absent
  BY WhatIsDrawn
<1>3. /\ inGame /\ called' = called \cup {"list_invent"} /\ inGame' = inGame
      /\ client' = client
  BY <1>1 DEF Calls
<1>4. PICK X : pending \in [list : Seq(X), invent : Maybe, floor : Maybe]
  BY DEF DispInv, DispTypes
<1>5. /\ shown \in Pictures
      /\ cache \in [dbuf : Maps, player : Players, invent : Maybe, floor : Nat]
      /\ Drawn \in Pictures /\ CacheFollows
  BY DEF DispInv, DispTypes
<1>6. /\ shown' \in Pictures /\ shown'.invent = items
      /\ shown'.dbuf = shown.dbuf /\ shown'.player = shown.player
  BY <1>1, <1>2, <1>5 DEF Pictures
<1>7. "list_invent" \in Procs
  BY DEF Procs
<1>8. CASE <<items>> = cache.invent
  <2>1. cache' = cache /\ pending' = pending
    BY <1>1, <1>8 DEF SrvListInvent
  <2>2. "list_invent" \in called /\ shown.invent = items
    BY <1>2, <1>3, <1>5, <1>8 DEF CacheFollows, InventFollows
  <2>3. Drawn' = Drawn
    BY <1>3, <2>1 DEF Drawn
  <2>4. /\ DispTypes' /\ (Drawn \in Pictures)' /\ Phases' /\ (Coming \in Pictures)'
        /\ Coming'.dbuf = Coming.dbuf /\ Coming'.player = Coming.player
        /\ Coming'.invent = Coming.invent
    BY <1>1, <1>4, <1>5, <1>6, <1>7, <2>1, <2>3, DrawStep
  <2>5. CacheFollows'
    BY <1>3, <1>5, <1>6, <2>1, <2>2, <2>4 DEF CacheFollows, MapFollows,
       PlayerFollows, InventFollows
  <2>6. QED
    BY <2>4, <2>5 DEF DispInv
<1>9. CASE <<items>> # cache.invent
  <2>1. /\ pending' = [pending EXCEPT !.invent = <<items>>]
        /\ cache' = [cache EXCEPT !.invent = <<items>>]
    BY <1>1, <1>9 DEF SrvListInvent
  <2>2. /\ pending' \in [list : Seq(X), invent : Maybe, floor : Maybe]
        /\ pending'.list = pending.list /\ pending'.invent = <<items>>
    BY <1>2, <1>4, <2>1
  <2>3. /\ cache' \in [dbuf : Maps, player : Players, invent : Maybe, floor : Nat]
        /\ cache'.invent = <<items>>
        /\ cache'.dbuf = cache.dbuf /\ cache'.player = cache.player
    BY <1>2, <1>5, <2>1
  <2>4. Drawn' = Drawn
    BY <1>3, <2>2 DEF Drawn
  <2>5. /\ DispTypes' /\ (Drawn \in Pictures)' /\ Phases' /\ (Coming \in Pictures)'
        /\ Coming'.dbuf = Coming.dbuf /\ Coming'.player = Coming.player
        /\ Coming'.invent = Listed(Drawn.invent, <<items>>)
    BY <1>1, <1>5, <1>6, <1>7, <2>2, <2>3, <2>4, DrawStep
  <2>6. Coming'.invent = items
    BY <1>2, <2>5 DEF Listed
  <2>7. CacheFollows'
    BY <1>3, <1>5, <1>6, <2>3, <2>5, <2>6 DEF CacheFollows, MapFollows,
       PlayerFollows, InventFollows
  <2>8. QED
    BY <2>5, <2>7 DEF DispInv
<1>10. QED
  BY <1>8, <1>9

(* The engine lists what lies on the floor: nothing else changes.          *)
LEMMA UpdateLocationStep ==
    ASSUME DispInv, UpdateLocation
    PROVE  DispInv'
<1>1. PICK items \in ItemLists :
        /\ Calls("list_floor") /\ SrvListFloor(items)
        /\ shown' = [shown EXCEPT !.floor = items]
  BY DEF UpdateLocation
<1>2. items \in Lists /\ <<items>> \in Maybe /\ Cardinality(items) \in Nat
  BY WhatIsDrawn
<1>3. /\ inGame /\ called' = called \cup {"list_floor"} /\ inGame' = inGame
      /\ client' = client
  BY <1>1 DEF Calls
<1>4. PICK X : pending \in [list : Seq(X), invent : Maybe, floor : Maybe]
  BY DEF DispInv, DispTypes
<1>5. /\ shown \in Pictures
      /\ cache \in [dbuf : Maps, player : Players, invent : Maybe, floor : Nat]
      /\ Drawn \in Pictures /\ CacheFollows
  BY DEF DispInv, DispTypes
<1>6. /\ shown' \in Pictures /\ shown'.dbuf = shown.dbuf
      /\ shown'.player = shown.player /\ shown'.invent = shown.invent
  BY <1>1, <1>2, <1>5 DEF Pictures
<1>7. "list_floor" \in Procs
  BY DEF Procs
<1>8. /\ cache' \in [dbuf : Maps, player : Players, invent : Maybe, floor : Nat]
      /\ cache'.dbuf = cache.dbuf /\ cache'.player = cache.player
      /\ cache'.invent = cache.invent
  BY <1>1, <1>2, <1>5 DEF SrvListFloor
<1>9. /\ pending' \in [list : Seq(X), invent : Maybe, floor : Maybe]
      /\ pending'.list = pending.list /\ pending'.invent = pending.invent
  BY <1>1, <1>2, <1>4 DEF SrvListFloor
<1>10. Drawn' = Drawn
  BY <1>3, <1>9 DEF Drawn
<1>11. /\ DispTypes' /\ (Drawn \in Pictures)' /\ Phases' /\ (Coming \in Pictures)'
       /\ Coming'.dbuf = Coming.dbuf /\ Coming'.player = Coming.player
       /\ Coming'.invent = Coming.invent
  BY <1>1, <1>5, <1>6, <1>7, <1>8, <1>9, <1>10, DrawStep
<1>12. CacheFollows'
  BY <1>3, <1>5, <1>6, <1>8, <1>11 DEF CacheFollows, MapFollows,
     PlayerFollows, InventFollows
<1>13. QED
  BY <1>11, <1>12 DEF DispInv

(* The message takes everything that waits with it.                        *)
LEMMA MessageStep ==
    ASSUME DispInv, NEW after, ClientMsgCore(after), inGame,
           shown' = shown, called' = called, cache' = cache, client' = client, cst' = cst,
           after = "request" => called = Procs /\ inGame' = inGame,
           after # "request" => inGame' = FALSE
    PROVE  DispInv'
<1>1. /\ inFlight = <<>> /\ cst = "waiting"
      /\ inFlight' = <<DisplayEntry(after, DisplayData)>>
      /\ pending' = NoPending
  BY DEF ClientMsgCore
<1>2. PICK X : pending \in [list : Seq(X), invent : Maybe, floor : Maybe]
  BY DEF DispInv, DispTypes
<1>3. Drawn \in Pictures /\ Coming \in Pictures /\ client \in Pictures
  BY DEF DispInv, DispTypes
<1>4. inFlight' # <<>> /\ inFlight'[1].kind = after /\ inFlight'[1].value = DisplayData
  BY <1>1 DEF DisplayEntry
<1>5. Coming' = Coming
  <2>1. Coming = Updated(Drawn, pending)
    BY <1>1 DEF Coming
  <2>2. Coming' = HandleDisplayList(client, DisplayData)
    BY <1>4 DEF Coming
  <2>3. QED
    BY <1>2, <1>3, <2>1, <2>2, DataIsUpdated
<1>6. Drawn' = client
  BY <1>1, HandleNone DEF Drawn, NoPending
<1>7. DispTypes'
  BY <1>1, WhatIsDrawn DEF DispInv, DispTypes
<1>8. Phases'
  BY <1>1, <1>4 DEF DispInv, Phases
<1>9. CacheFollows'
  BY <1>5 DEF DispInv, CacheFollows, MapFollows, PlayerFollows, InventFollows
<1>10. QED
  BY <1>3, <1>5, <1>6, <1>7, <1>8, <1>9 DEF DispInv

(* A new game, or a new process, begins with empty caches.                 *)
LEMMA ResetStep ==
    ASSUME DispInv, shown' = shown, client' = client,
           inFlight' = <<>>, cst' = "waiting", called' = {},
           cache' = NoCache, pending' = NoPending
    PROVE  DispInv'
<1>1. Drawn' = client /\ Coming' = client
  <2>1. client' \in Pictures
    BY DEF DispInv, DispTypes
  <2>2. Drawn' = client'
    BY HandleNone DEF Drawn, NoPending
  <2>3. Coming' = client'
    BY <2>1, <2>2 DEF Coming, Updated, Listed, NoPending, Absent, Pictures
  <2>4. QED
    BY <2>2, <2>3
<1>2. DispTypes'
  BY WhatIsDrawn DEF DispInv, DispTypes
<1>3. Phases'
  BY DEF Phases
<1>4. CacheFollows'
  BY DEF CacheFollows, MapFollows, PlayerFollows, InventFollows, NoCache
<1>5. QED
  BY <1>1, <1>2, <1>3, <1>4 DEF DispInv, DispTypes

(* The message arrives.                                                    *)
LEMMA ReceiveStep ==
    ASSUME DispInv, ClientReceive
    PROVE  DispInv'
<1>1. /\ inFlight # <<>> /\ inFlight' = <<>>
      /\ client' = Coming
      /\ cst' = IF inFlight[1].kind = "request" THEN "prompting" ELSE "menu"
      /\ UNCHANGED <<shown, called, inGame, cache, pending>>
  BY DEF ClientReceive, Coming
<1>2. pending = NoPending /\ Coming \in Pictures
  BY <1>1 DEF DispInv, Phases
<1>3. Drawn' = Coming /\ Coming' = Coming
  <2>1. client' \in Pictures /\ pending' = NoPending /\ inFlight' = <<>>
    BY <1>1, <1>2
  <2>2. Drawn' = client'
    BY <2>1, HandleNone DEF Drawn, NoPending
  <2>3. Coming' = client'
    BY <2>1, <2>2 DEF Coming, Updated, Listed, NoPending, Absent, Pictures
  <2>4. QED
    BY <1>1, <2>2, <2>3
<1>4. DispTypes'
  BY <1>1, <1>2 DEF DispInv, DispTypes
<1>5. Phases'
  BY <1>1, <1>2 DEF DispInv, Phases
<1>6. CacheFollows'
  BY <1>1, <1>3 DEF DispInv, CacheFollows, MapFollows, PlayerFollows, InventFollows
<1>7. QED
  BY <1>2, <1>3, <1>4, <1>5, <1>6 DEF DispInv

(* From the menu another game is chosen, with the two lists freed.         *)
LEMMA PlaysStep ==
    ASSUME DispInv, ClientPlays
    PROVE  DispInv'
<1>1. /\ cst = "menu" /\ cst' = "waiting"
      /\ client' = [client EXCEPT !.invent = {}, !.floor = {}]
      /\ UNCHANGED <<shown, called, inGame, cache, pending, inFlight>>
  BY DEF ClientPlays
<1>2. inFlight = <<>> /\ pending = NoPending /\ ~inGame
  BY <1>1 DEF DispInv, Phases
<1>3. client' \in Pictures
  <2>1. PICK q : q = [client EXCEPT !.invent = {}]
    OBVIOUS
  <2>2. q \in Pictures
    BY <2>1, WhatIsDrawn DEF DispInv, DispTypes, Pictures
  <2>3. client' = [q EXCEPT !.floor = {}]
    BY <1>1, <2>1
  <2>4. QED
    BY <2>2, <2>3, WhatIsDrawn DEF Pictures
<1>4. Drawn' = client' /\ Coming' = client'
  <2>1. Drawn' = client'
    BY <1>1, <1>2, HandleNone DEF Drawn, NoPending
  <2>2. QED
    BY <1>1, <1>2, <1>3, <2>1 DEF Coming, Updated, Listed, NoPending, Absent, Pictures
<1>5. DispTypes' /\ Phases' /\ CacheFollows'
  BY <1>1, <1>2, <1>3 DEF DispInv, DispTypes, Phases, CacheFollows
<1>6. QED
  BY <1>3, <1>4, <1>5 DEF DispInv

(* Every step of the session keeps the caches true.                        *)
LEMMA DispSteps ==
    ASSUME DispInv, [DispNext]_dispVars
    PROVE  DispInv'
<1>1. CASE FlushScreen
  BY <1>1, FlushScreenStep
<1>2. CASE Bot
  BY <1>2, BotStep
<1>3. CASE UpdateInventory
  BY <1>3, UpdateInventoryStep
<1>4. CASE UpdateLocation
  BY <1>4, UpdateLocationStep
<1>5. CASE ClientRequest
  <2>1. PICK after : after = "request"
    OBVIOUS
  <2>2. /\ ClientMsgCore(after) /\ inGame /\ called = Procs
        /\ UNCHANGED <<shown, called, inGame, cache, client, cst>>
    BY <1>5, <2>1 DEF ClientRequest
  <2>3. QED
    BY <2>1, <2>2, MessageStep
<1>6. CASE PlayGameReturns
  <2>1. PICK after : after = "play_game"
    OBVIOUS
  <2>2. after # "request"
    BY <2>1
  <2>3. /\ ClientMsgCore(after) /\ inGame /\ inGame' = FALSE
        /\ UNCHANGED <<shown, called, cache, client, cst>>
    BY <1>6, <2>1 DEF PlayGameReturns
  <2>4. QED
    BY <2>2, <2>3, MessageStep
<1>7. CASE CcmdPlayGame
  BY <1>7, ResetStep DEF CcmdPlayGame, ResetCachedDisplaydata
<1>8. CASE ClientReceive
  BY <1>8, ReceiveStep
<1>9. CASE ClientAnswers
  <2>1. /\ cst = "prompting" /\ cst' = "waiting"
        /\ UNCHANGED <<shown, called, inGame, cache, pending, inFlight, client>>
    BY <1>9 DEF ClientAnswers
  <2>2. Drawn' = Drawn /\ Coming' = Coming
    BY <2>1 DEF Drawn, Coming
  <2>3. DispTypes' /\ Phases' /\ CacheFollows'
    BY <2>1, <2>2 DEF DispInv, DispTypes, Phases, CacheFollows, MapFollows,
       PlayerFollows, InventFollows
  <2>4. QED
    BY <2>2, <2>3 DEF DispInv
<1>10. CASE ClientPlays
  BY <1>10, PlaysStep
<1>11. CASE Reconnect
  BY <1>11, ResetStep DEF Reconnect
<1>12. CASE UNCHANGED dispVars
  <2>1. UNCHANGED <<shown, called, inGame, cache, pending, inFlight, client, cst>>
    BY <1>12 DEF dispVars
  <2>2. Drawn' = Drawn /\ Coming' = Coming
    BY <2>1 DEF Drawn, Coming
  <2>3. QED
    BY <2>1, <2>2 DEF DispInv, DispTypes, Phases, CacheFollows, MapFollows,
       PlayerFollows, InventFollows
<1>13. QED
  BY <1>1, <1>2, <1>3, <1>4, <1>5, <1>6, <1>7, <1>8, <1>9, <1>10, <1>11, <1>12
     DEF DispNext

(* In every session, whatever is drawn and however often connections       *)
(* break, the caches agree with the picture that the client will have.     *)
THEOREM DispInvariance == DispSpec => []DispInv
<1>1. DispInit => DispInv
  BY DispBegins
<1>2. DispInv /\ [DispNext]_dispVars => DispInv'
  BY DispSteps
<1>3. QED
  BY <1>1, <1>2, PTL DEF DispSpec

(* Whenever the player is asked something, the map, the status line and    *)
(* the inventory on the screen of the client are those of the engine.      *)
THEOREM PictureIsAlwaysTrue == DispSpec => []PictureIsTrue
<1>1. DispInv => PictureIsTrue
  <2>1. SUFFICES ASSUME DispInv, cst = "prompting"
                 PROVE  /\ client.dbuf = shown.dbuf /\ client.player = shown.player
                        /\ client.invent = shown.invent
    BY DEF PictureIsTrue
  <2>2. inGame /\ called = Procs /\ inFlight = <<>> /\ pending = NoPending
    BY <2>1 DEF DispInv, Phases
  <2>3. Coming = client
    BY <2>1, <2>2, NothingComes DEF DispInv, DispTypes
  <2>4. QED
    BY <2>1, <2>2, <2>3 DEF DispInv, CacheFollows, MapFollows, PlayerFollows,
       InventFollows, Procs
<1>2. QED
  BY <1>1, DispInvariance, PTL
=============================================================================
