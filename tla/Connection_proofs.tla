------------------------ MODULE Connection_proofs ------------------------
(***************************************************************************)
(* The connection of the client and the server, in the two modules that    *)
(* model it.  First Wire, for every bound on the server cancels, wherever  *)
(* in a message a write may stop, and whether or not the kernel merges     *)
(* messages: no message is ever inside another, and the client at a prompt *)
(* is shown nothing that it did not ask for, with or without the NULs.     *)
(* Then Reconnect, for any number of faults and calls: the server is never *)
(* sent what it does not wait for, and, as long as it can be reached,      *)
(* playgame_jmp_buf is only marked valid while its frame is on the call    *)
(* stack.                                                                  *)
(***************************************************************************)
EXTENDS Wire, Reconnect, SequenceTheorems, WellFoundedInduction, TLAPS

-----------------------------------------------------------------------------
(* The messages of the server.                                             *)
(*                                                                         *)
(* A write that stops before the NUL makes one unreadable text of two      *)
(* messages, so that the stream is not a sequence of messages.  The        *)
(* argument is about its bytes: what stands beside each (Sound), which     *)
(* kinds of message there can be, and in what order, by whose turn it is   *)
(* (Turn).                                                                 *)

First(k)  == <<k, "{">>
Second(k) == <<k, "}">>

WireBytes == (Kinds \X {"{", "}"}) \cup {Nul}

Kind(b)   == b[1]
Opens(b)  == b[2] = "{"
Closes(b) == b[2] = "}"

(* The halves of a message stand side by side, and a NUL behind a message. *)
Paired(s) ==
    \A i \in 1..Len(s) :
        /\ Opens(s[i])  => i < Len(s) /\ s[i + 1] = Second(Kind(s[i]))
        /\ Closes(s[i]) => i > 1 /\ s[i - 1] = First(Kind(s[i]))
        /\ s[i] = Nul   => i > 1 /\ Closes(s[i - 1])

(* Every message has its NUL.                                              *)
Parted(s) ==
    \A i \in 1..Len(s) : Closes(s[i]) => i < Len(s) /\ s[i + 1] = Nul

Sound == Paired(Stream) /\ (~nulLost => Parted(Stream))

(* The kinds of byte while it is the client's turn; while the server works *)
(* on a command, and asks nothing; as long as the server is there.         *)
CancelKinds == {"NUL", "server_cancel"}
WorkKinds   == {"NUL", "server_cancel", "load_progress"}
LiveKinds   == {"NUL", "server_cancel", "load_progress", "request"}

OfKinds(s, K) == \A i \in 1..Len(s) : Kind(s[i]) \in K

(* Behind the message with which the server gives up its turn, only        *)
(* cancels follow.                                                         *)
AsksLast(s) ==
    \A i \in 1..Len(s) :
        Opens(s[i]) /\ Kind(s[i]) \notin WorkKinds =>
            \A j \in (i + 2)..Len(s) : Kind(s[j]) \in CancelKinds

Working == {"work", "progress", "loaded", "build"}
Over    == {"sent", "check", "cancel", "cancelled", "idle", "gone"}

ServersTurn == spc \in Working /\ cpc = "waiting" /\ reply = None /\ OfKinds(Stream, WorkKinds)
HandingOver == /\ spc \in Over \cup {"write"} /\ cpc = "waiting" /\ reply = None
               /\ AsksLast(Stream) /\ (spc # "gone" => OfKinds(Stream, LiveKinds))
ClientsTurn == spc \in Over /\ cpc \in {"prompting", "checking"} /\ reply = None
               /\ OfKinds(Stream, CancelKinds)
HandingBack == spc \in Over /\ cpc = "waiting" /\ reply # None /\ OfKinds(Stream, CancelKinds)
TurnsEnd    == spc = "gone" /\ cpc = "error"

Turn == ServersTurn \/ HandingOver \/ ClientsTurn \/ HandingBack \/ TurnsEnd

WireTypes ==
    /\ spc \in Working \cup Over \cup {"write"}
    /\ unread \in Seq(WireBytes) /\ pipe \in Seq(WireBytes) /\ out \in Seq(WireBytes)
    /\ deferred \in BOOLEAN /\ cansend \in BOOLEAN /\ nulLost \in BOOLEAN

(* currently_sending_message and can_send_msg say where the process is;    *)
(* what is still to write ends with the NUL.                               *)
FlagsAreRight ==
    /\ sending = CASE spc \in {"progress", "build", "sent", "cancel"} -> 1
                   [] spc = "write" -> 2
                   [] OTHER -> 0
    /\ spc # "gone" => (cansend <=> spc \in Working \cup {"write", "sent"})
    /\ IF spc \in {"progress", "write", "cancel"}
       THEN Len(out) \in {2, 3} /\ out[Len(out)] = Nul
            /\ (spc = "write" => out[Len(out) - 1] = Second("request"))
       ELSE out = <<>>

WireInv == WireTypes /\ FlagsAreRight /\ Sound /\ Turn

-----------------------------------------------------------------------------
(* Sequences: what a concatenation and a rest have at each place.          *)

(* What a concatenation has at each of its places.                         *)
LEMMA ConcatAt ==
    ASSUME NEW S, NEW u \in Seq(S), NEW v \in Seq(S)
    PROVE  /\ u \o v \in Seq(S) /\ Len(u \o v) = Len(u) + Len(v)
           /\ \A i \in 1..Len(u) : (u \o v)[i] = u[i]
           /\ \A i \in 1..Len(v) : (u \o v)[Len(u) + i] = v[i]
  <1>1. Len(u) \in Nat /\ Len(v) \in Nat
    OBVIOUS
  <1>2. \A i \in 1..(Len(u) + Len(v)) :
           (u \o v)[i] = IF i <= Len(u) THEN u[i] ELSE v[i - Len(u)]
    BY ConcatProperties
  <1>3. \A i \in 1..Len(v) : (u \o v)[Len(u) + i] = v[i]
    <2>1. TAKE i \in 1..Len(v)
    <2>2. Len(u) + i \in 1..(Len(u) + Len(v)) /\ ~(Len(u) + i <= Len(u))
          /\ Len(u) + i - Len(u) = i
      BY <1>1
    <2>3. QED BY <1>2, <2>2
  <1>4. QED BY <1>1, <1>2, <1>3, ConcatProperties

(* What is left of a sequence without its first n members.                 *)
LEMMA RestAt ==
    ASSUME NEW S, NEW u \in Seq(S), NEW n \in 0..Len(u)
    PROVE  /\ SubSeq(u, n + 1, Len(u)) \in Seq(S)
           /\ Len(SubSeq(u, n + 1, Len(u))) = Len(u) - n
           /\ \A i \in 1..(Len(u) - n) : SubSeq(u, n + 1, Len(u))[i] = u[n + i]
  <1>1. Len(u) \in Nat /\ n \in Nat
    OBVIOUS
  <1>2. n + 1 \in Int /\ Len(u) \in Int /\ \A i \in (n + 1)..Len(u) : u[i] \in S
    BY <1>1
  <1> DEFINE w == SubSeq(u, n + 1, Len(u))
  <1>3. /\ w \in Seq(S)
        /\ Len(w) = IF n + 1 <= Len(u) THEN Len(u) - (n + 1) + 1 ELSE 0
        /\ \A i \in 1..(Len(u) - (n + 1) + 1) : w[i] = u[n + 1 + i - 1]
    BY <1>2, SubSeqProperties
  <1> HIDE DEF w
  <1>4. Len(w) = Len(u) - n /\ \A i \in 1..(Len(u) - n) : w[i] = u[n + i]
    BY <1>1, <1>3
  <1>5. QED BY <1>3, <1>4 DEF w

(* Taking bytes from the front commutes with adding bytes at the end.      *)
LEMMA RestOfConcat ==
    ASSUME NEW S, NEW u \in Seq(S), NEW v \in Seq(S), NEW n \in 0..Len(u)
    PROVE  SubSeq(u, n + 1, Len(u)) \o v = SubSeq(u \o v, n + 1, Len(u \o v))
  <1> DEFINE r == SubSeq(u, n + 1, Len(u))
             a == r \o v
             b == SubSeq(u \o v, n + 1, Len(u \o v))
  <1>1. Len(u) \in Nat /\ Len(v) \in Nat /\ n \in Nat /\ n <= Len(u)
    OBVIOUS
  <1>2. /\ u \o v \in Seq(S) /\ Len(u \o v) = Len(u) + Len(v)
        /\ \A i \in 1..Len(u) : (u \o v)[i] = u[i]
        /\ \A i \in 1..Len(v) : (u \o v)[Len(u) + i] = v[i]
    BY ConcatAt
  <1>3. n \in 0..Len(u \o v)
    BY <1>1, <1>2
  <1>4. r \in Seq(S) /\ Len(r) = Len(u) - n /\ \A i \in 1..(Len(u) - n) : r[i] = u[n + i]
    BY RestAt
  <1>5. /\ b \in Seq(S) /\ Len(b) = Len(u) + Len(v) - n
        /\ \A i \in 1..(Len(u) + Len(v) - n) : b[i] = (u \o v)[n + i]
    BY <1>2, <1>3, RestAt
  <1> HIDE DEF r
  <1>6. /\ a \in Seq(S) /\ Len(a) = Len(u) - n + Len(v)
        /\ \A i \in 1..(Len(u) - n) : a[i] = r[i]
        /\ \A i \in 1..Len(v) : a[Len(u) - n + i] = v[i]
    <2>1. \A w \in Seq(S) : /\ w \o v \in Seq(S) /\ Len(w \o v) = Len(w) + Len(v)
                            /\ \A i \in 1..Len(w) : (w \o v)[i] = w[i]
                            /\ \A i \in 1..Len(v) : (w \o v)[Len(w) + i] = v[i]
      BY ConcatAt
    <2>2. /\ a \in Seq(S) /\ Len(a) = Len(r) + Len(v)
          /\ \A i \in 1..Len(r) : a[i] = r[i]
          /\ \A i \in 1..Len(v) : a[Len(r) + i] = v[i]
      BY <1>4, <2>1, Zenon
    <2> HIDE DEF a
    <2>3. QED BY <2>2, <1>4
  <1> HIDE DEF a, b
  <1>7. ASSUME NEW i \in 1..Len(a) PROVE a[i] = b[i]
    <2>1. CASE i <= Len(u) - n
      <3>1. i \in 1..(Len(u) - n) /\ n + i \in 1..Len(u) /\ i \in 1..(Len(u) + Len(v) - n)
        BY <2>1, <1>1, <1>6
      <3>2. QED BY <3>1, <1>2, <1>4, <1>5, <1>6
    <2>2. CASE i > Len(u) - n
      <3> DEFINE j == i - (Len(u) - n)
      <3>1. /\ j \in 1..Len(v) /\ i = Len(u) - n + j /\ n + i = Len(u) + j
            /\ i \in 1..(Len(u) + Len(v) - n)
        BY <2>2, <1>1, <1>6
      <3> HIDE DEF j
      <3>2. a[i] = v[j]
        BY <3>1, <1>6
      <3>3. b[i] = (u \o v)[Len(u) + j]
        BY <3>1, <1>5
      <3>4. QED BY <3>1, <3>2, <3>3, <1>2
    <2>3. QED BY <2>1, <2>2, <1>1, <1>6
  <1>8. Len(a) = Len(b)
    BY <1>1, <1>5, <1>6
  <1>9. a = b
    BY <1>5, <1>6, <1>7, <1>8, SeqEqual
  <1>10. QED BY <1>9 DEF a, b, r

(* A sequence is its first n members and the rest.                         *)
LEMMA TakeAndRest ==
    ASSUME NEW S, NEW u \in Seq(S), NEW n \in 0..Len(u)
    PROVE  /\ SubSeq(u, 1, n) \in Seq(S) /\ Len(SubSeq(u, 1, n)) = n
           /\ SubSeq(u, 1, n) \o SubSeq(u, n + 1, Len(u)) = u
  <1>1. Len(u) \in Nat /\ n \in Nat /\ n <= Len(u)
    OBVIOUS
  <1>2. 1 \in 1..(Len(u) + 1) /\ n \in (1 - 1)..Len(u) /\ Len(u) \in n..Len(u)
    BY <1>1
  <1>3. SubSeq(u, 1, n) \o SubSeq(u, n + 1, Len(u)) = SubSeq(u, 1, Len(u))
    BY <1>2, ConcatAdjacentSubSeq
  <1>4. SubSeq(u, 1, n) \in Seq(S) /\ Len(SubSeq(u, 1, n)) = n
    BY <1>1, SubSeqProperties
  <1>5. QED BY <1>3, <1>4, SubSeqFull

(* It does not matter which two of three sequences are joined first.       *)
Associated(x, y, z) == (x \o y) \o z = x \o (y \o z)

LEMMA Associates ==
    ASSUME NEW S, NEW x \in Seq(S), NEW y \in Seq(S), NEW z \in Seq(S)
    PROVE  Associated(x, y, z)
  BY ConcatAssociative DEF Associated

(* What is at the front of one sequence goes to the end of another.        *)
MovesOn(S, u, v, n) ==
    /\ u \o SubSeq(v, 1, n) \in Seq(S) /\ SubSeq(v, n + 1, Len(v)) \in Seq(S)
    /\ (u \o SubSeq(v, 1, n)) \o SubSeq(v, n + 1, Len(v)) = u \o v

LEMMA MoveOn ==
    ASSUME NEW S, NEW v \in Seq(S), NEW n \in 0..Len(v), NEW u \in Seq(S)
    PROVE  MovesOn(S, u, v, n)
  <1> DEFINE a == SubSeq(v, 1, n)
             b == SubSeq(v, n + 1, Len(v))
  <1>1. a \in Seq(S) /\ b \in Seq(S) /\ a \o b = v
    BY TakeAndRest, RestAt, Zenon
  <1> HIDE DEF a, b
  <1>2. u \o a \in Seq(S)
    BY <1>1, ConcatProperties
  <1>3. Associated(u, a, b)
    BY <1>1, Associates
  <1>4. (u \o a) \o b = u \o v
    BY <1>1, <1>3 DEF Associated
  <1>5. QED BY <1>1, <1>2, <1>4 DEF MovesOn, a, b

-----------------------------------------------------------------------------
(* What a byte is.                                                         *)

(* The first byte of a message, the second and the NUL tell each other     *)
(* apart.                                                                  *)
LEMMA FirstIs ==
    ASSUME NEW k \in Kinds
    PROVE  /\ First(k) \in WireBytes /\ Kind(First(k)) = k /\ Opens(First(k))
           /\ ~Closes(First(k)) /\ First(k) # Nul
  BY Zenon DEF First, WireBytes, Kind, Opens, Closes, Nul

LEMMA SecondIs ==
    ASSUME NEW k \in Kinds
    PROVE  /\ Second(k) \in WireBytes /\ Kind(Second(k)) = k /\ Closes(Second(k))
           /\ ~Opens(Second(k)) /\ Second(k) # Nul
  BY Zenon DEF Second, WireBytes, Kind, Opens, Closes, Nul

LEMMA HalvesAre ==
    \A k : Opens(First(k)) /\ Closes(Second(k)) /\ First(k)[1] = k
  BY DEF First, Second, Opens, Closes

LEMMA NulIs ==
    Nul \in WireBytes /\ Kind(Nul) = "NUL" /\ ~Opens(Nul) /\ ~Closes(Nul)
  BY Zenon DEF WireBytes, Kind, Opens, Closes, Nul

(* A message, with its NUL or without.                                     *)
IsMessage(m, k) ==
    /\ m \in Seq(WireBytes) /\ (Len(m) = 2 \/ Len(m) = 3)
    /\ m[1] = First(k) /\ m[2] = Second(k) /\ (Len(m) = 3 => m[3] = Nul)

LEMMA MessageIsBytes ==
    ASSUME NEW k \in Kinds
    PROVE  IsMessage(Message(k), k) /\ Len(Message(k)) = 3
  <1>1. First(k) \in WireBytes /\ Second(k) \in WireBytes /\ Nul \in WireBytes
    BY FirstIs, SecondIs, NulIs, Zenon
  <1>2. Message(k) = <<First(k), Second(k), Nul>>
    BY Zenon DEF Message, First, Second
  <1>3. \A x, y, z \in WireBytes :
           /\ <<x, y, z>> \in Seq(WireBytes) /\ Len(<<x, y, z>>) = 3
           /\ <<x, y, z>>[1] = x /\ <<x, y, z>>[2] = y /\ <<x, y, z>>[3] = z
    OBVIOUS
  <1>4. QED BY <1>1, <1>2, <1>3 DEF IsMessage

(* What a whole call of send_string_to_client puts on the wire.            *)
LEMMA SendingIsMessage ==
    ASSUME NEW k \in Kinds, NEW m \in Sendings(k)
    PROVE  IsMessage(m, k)
  <1>1. IsMessage(Message(k), k) /\ Len(Message(k)) = 3
    BY MessageIsBytes
  <1>2. m = Message(k) \/ m = SubSeq(Message(k), 1, 2)
    BY DEF Sendings, StrLen
  <1>3. CASE m = SubSeq(Message(k), 1, 2)
    <2>1. Message(k) \in Seq(WireBytes) /\ 2 \in 0..Len(Message(k))
      BY <1>1 DEF IsMessage
    <2> DEFINE a == Message(k)
    <2>2. a \in Seq(WireBytes) /\ 2 \in 0..Len(a) /\ Len(a) = 3
          /\ a[1] = First(k) /\ a[2] = Second(k)
      BY <2>1, <1>1 DEF IsMessage
    <2> HIDE DEF a
    <2>3. /\ SubSeq(a, 1, 2) \in Seq(WireBytes) /\ Len(SubSeq(a, 1, 2)) = 2
          /\ SubSeq(a, 1, 2)[1] = a[1] /\ SubSeq(a, 1, 2)[2] = a[2]
      BY <2>2
    <2>4. m = SubSeq(a, 1, 2)
      BY <1>3 DEF a
    <2>5. m \in Seq(WireBytes) /\ Len(m) = 2 /\ m[1] = First(k) /\ m[2] = Second(k)
      BY <2>2, <2>3, <2>4
    <2>6. QED BY <2>5 DEF IsMessage
  <1>4. QED BY <1>1, <1>2, <1>3

-----------------------------------------------------------------------------
(* What the stream becomes: longer by a message, shorter by a NUL at its   *)
(* end, or by a message at its front.                                      *)

(* The places of a stream with a message behind it.                        *)
Extends(t, s, m) ==
    /\ t \in Seq(WireBytes) /\ Len(t) = Len(s) + Len(m)
    /\ \A i \in 1..Len(s) : t[i] = s[i]
    /\ \A i \in 1..Len(m) : t[Len(s) + i] = m[i]

LEMMA JoinExtends ==
    ASSUME NEW s \in Seq(WireBytes), NEW m \in Seq(WireBytes)
    PROVE  Extends(s \o m, s, m)
  BY ConcatAt DEF Extends

(* Where the bytes of the longer stream are.                               *)
LEMMA PlacesOfExtended ==
    ASSUME NEW s \in Seq(WireBytes), NEW k \in Kinds, NEW m, IsMessage(m, k),
           NEW t, Extends(t, s, m)
    PROVE  /\ t[Len(s) + 1] = First(k) /\ t[Len(s) + 2] = Second(k)
           /\ Len(m) = 3 => t[Len(s) + 3] = Nul
           /\ \A i \in 1..Len(t) :
                 \/ i \in 1..Len(s) /\ t[i] = s[i]
                 \/ i = Len(s) + 1 \/ i = Len(s) + 2 \/ (i = Len(s) + 3 /\ Len(m) = 3)
  <1>1. /\ Len(t) = Len(s) + Len(m) /\ (Len(m) = 2 \/ Len(m) = 3) /\ Len(s) \in Nat
        /\ \A i \in 1..Len(s) : t[i] = s[i]
        /\ \A i \in 1..Len(m) : t[Len(s) + i] = m[i]
        /\ m[1] = First(k) /\ m[2] = Second(k) /\ (Len(m) = 3 => m[3] = Nul)
    BY DEF IsMessage, Extends
  <1>2. 1 \in 1..Len(m) /\ 2 \in 1..Len(m) /\ (Len(m) = 3 => 3 \in 1..Len(m))
    BY <1>1
  <1>3. /\ t[Len(s) + 1] = First(k) /\ t[Len(s) + 2] = Second(k)
        /\ Len(m) = 3 => t[Len(s) + 3] = Nul
    BY <1>1, <1>2
  <1>4. ASSUME NEW i \in 1..Len(t)
        PROVE  \/ i \in 1..Len(s)
               \/ i = Len(s) + 1 \/ i = Len(s) + 2 \/ (i = Len(s) + 3 /\ Len(m) = 3)
    <2>1. \A n, d \in Nat : \A x \in 1..(n + d) :
             d = 2 \/ d = 3 => \/ x \in 1..n \/ x = n + 1 \/ x = n + 2
                              \/ (x = n + 3 /\ d = 3)
      OBVIOUS
    <2>2. Len(m) \in Nat /\ i \in 1..(Len(s) + Len(m))
      BY <1>1
    <2>3. QED BY <1>1, <2>1, <2>2, Zenon
  <1>5. QED BY <1>1, <1>3, <1>4

LEMMA ExtendedIsPaired ==
    ASSUME NEW s \in Seq(WireBytes), NEW k \in Kinds, NEW m, IsMessage(m, k),
           NEW t, Extends(t, s, m), Paired(s)
    PROVE  Paired(t)
  <1>1. /\ t[Len(s) + 1] = First(k) /\ t[Len(s) + 2] = Second(k)
        /\ Len(m) = 3 => t[Len(s) + 3] = Nul
        /\ \A i \in 1..Len(t) :
              \/ i \in 1..Len(s) /\ t[i] = s[i]
              \/ i = Len(s) + 1 \/ i = Len(s) + 2 \/ (i = Len(s) + 3 /\ Len(m) = 3)
    BY PlacesOfExtended
  <1>2. /\ Len(s) \in Nat /\ Len(t) = Len(s) + Len(m) /\ (Len(m) = 2 \/ Len(m) = 3)
        /\ \A i \in 1..Len(s) : t[i] = s[i]
    BY DEF Extends, IsMessage
  <1>3. SUFFICES ASSUME NEW i \in 1..Len(t)
                 PROVE  /\ Opens(t[i])  => i < Len(t) /\ t[i + 1] = Second(Kind(t[i]))
                        /\ Closes(t[i]) => i > 1 /\ t[i - 1] = First(Kind(t[i]))
                        /\ t[i] = Nul   => i > 1 /\ Closes(t[i - 1])
    BY Zenon DEF Paired
  <1>4. CASE i \in 1..Len(s) /\ t[i] = s[i]
    <2>1. /\ Opens(s[i])  => i < Len(s) /\ s[i + 1] = Second(Kind(s[i]))
          /\ Closes(s[i]) => i > 1 /\ s[i - 1] = First(Kind(s[i]))
          /\ s[i] = Nul   => i > 1 /\ Closes(s[i - 1])
      BY <1>4, Zenon DEF Paired
    <2>2. /\ i < Len(s) => i < Len(t) /\ t[i + 1] = s[i + 1]
          /\ i > 1 => t[i - 1] = s[i - 1]
      BY <1>2, <1>4
    <2>3. QED BY <1>4, <2>1, <2>2
  <1>5. CASE i = Len(s) + 1
    <2>1. i < Len(t) /\ i + 1 = Len(s) + 2
      <3>1. \A n, d \in Nat : d = 2 \/ d = 3 => n + 1 < n + d /\ n + 1 + 1 = n + 2
        OBVIOUS
      <3>2. Len(m) \in Nat
        BY <1>2
      <3>3. QED BY <1>2, <1>5, <3>1, <3>2, Zenon
    <2>2. t[i] = First(k) /\ t[i + 1] = Second(k)
      BY <1>1, <1>5, <2>1
    <2>3. QED BY <2>1, <2>2, FirstIs
  <1>6. CASE i = Len(s) + 2
    <2>1. t[i] = Second(k) /\ i > 1 /\ t[i - 1] = First(k)
      BY <1>1, <1>2, <1>6
    <2>2. QED BY <2>1, SecondIs
  <1>7. CASE i = Len(s) + 3 /\ Len(m) = 3
    <2>1. t[i] = Nul /\ i > 1 /\ t[i - 1] = Second(k)
      BY <1>1, <1>2, <1>7
    <2>2. QED BY <2>1, SecondIs, NulIs
  <1>8. QED BY <1>1, <1>4, <1>5, <1>6, <1>7

LEMMA ExtendedIsParted ==
    ASSUME NEW s \in Seq(WireBytes), NEW k \in Kinds, NEW m, IsMessage(m, k), Len(m) = 3,
           NEW t, Extends(t, s, m), Parted(s)
    PROVE  Parted(t)
  <1>1. /\ t[Len(s) + 1] = First(k) /\ t[Len(s) + 2] = Second(k) /\ t[Len(s) + 3] = Nul
        /\ \A i \in 1..Len(t) :
              \/ i \in 1..Len(s) /\ t[i] = s[i]
              \/ i = Len(s) + 1 \/ i = Len(s) + 2 \/ i = Len(s) + 3
    BY PlacesOfExtended
  <1>2. Len(s) \in Nat /\ Len(t) = Len(s) + 3 /\ \A i \in 1..Len(s) : t[i] = s[i]
    BY DEF Extends
  <1>3. SUFFICES ASSUME NEW i \in 1..Len(t), Closes(t[i])
                 PROVE  i < Len(t) /\ t[i + 1] = Nul
    BY Zenon DEF Parted
  <1>4. CASE i \in 1..Len(s) /\ t[i] = s[i]
    <2>1. i < Len(s) /\ s[i + 1] = Nul
      BY <1>3, <1>4, Zenon DEF Parted
    <2>2. QED BY <1>2, <1>4, <2>1
  <1>5. CASE i = Len(s) + 1
    BY <1>1, <1>3, <1>5, FirstIs
  <1>6. CASE i = Len(s) + 2
    BY <1>1, <1>2, <1>6
  <1>7. CASE i = Len(s) + 3
    BY <1>1, <1>3, <1>7, NulIs
  <1>8. QED BY <1>1, <1>4, <1>5, <1>6, <1>7

LEMMA ExtendedOfKinds ==
    ASSUME NEW s \in Seq(WireBytes), NEW k \in Kinds, NEW m, IsMessage(m, k),
           NEW t, Extends(t, s, m), NEW K, k \in K, "NUL" \in K, OfKinds(s, K)
    PROVE  OfKinds(t, K)
  <1>1. /\ t[Len(s) + 1] = First(k) /\ t[Len(s) + 2] = Second(k)
        /\ Len(m) = 3 => t[Len(s) + 3] = Nul
        /\ \A i \in 1..Len(t) :
              \/ i \in 1..Len(s) /\ t[i] = s[i]
              \/ i = Len(s) + 1 \/ i = Len(s) + 2 \/ (i = Len(s) + 3 /\ Len(m) = 3)
    BY PlacesOfExtended
  <1>2. SUFFICES ASSUME NEW i \in 1..Len(t) PROVE Kind(t[i]) \in K
    BY Zenon DEF OfKinds
  <1>3. CASE i \in 1..Len(s) /\ t[i] = s[i]
    BY <1>3 DEF OfKinds
  <1>4. CASE i = Len(s) + 1 \/ i = Len(s) + 2
    BY <1>1, <1>4, FirstIs, SecondIs
  <1>5. CASE i = Len(s) + 3 /\ Len(m) = 3
    BY <1>1, <1>5, NulIs
  <1>6. QED BY <1>1, <1>3, <1>4, <1>5

(* A cancel may follow whatever is on its way.                             *)
LEMMA CancelAsksNothing ==
    ASSUME NEW s \in Seq(WireBytes), NEW k \in Kinds, k \in CancelKinds, NEW m, IsMessage(m, k),
           NEW t, Extends(t, s, m), AsksLast(s)
    PROVE  AsksLast(t)
  <1>1. /\ t[Len(s) + 1] = First(k) /\ t[Len(s) + 2] = Second(k)
        /\ Len(m) = 3 => t[Len(s) + 3] = Nul
        /\ \A i \in 1..Len(t) :
              \/ i \in 1..Len(s) /\ t[i] = s[i]
              \/ i = Len(s) + 1 \/ i = Len(s) + 2 \/ (i = Len(s) + 3 /\ Len(m) = 3)
    BY PlacesOfExtended
  <1>2. SUFFICES ASSUME NEW i \in 1..Len(t), Opens(t[i]), Kind(t[i]) \notin WorkKinds,
                        NEW j \in (i + 2)..Len(t)
                 PROVE  Kind(t[j]) \in CancelKinds
    BY Zenon DEF AsksLast
  <1>3. Kind(Nul) \in CancelKinds /\ k \in WorkKinds
    BY NulIs DEF CancelKinds, WorkKinds
  <1>4. i \in 1..Len(s) /\ t[i] = s[i]
    <2>1. i # Len(s) + 1
      BY <1>1, <1>2, <1>3, FirstIs
    <2>2. i # Len(s) + 2
      BY <1>1, <1>2, SecondIs
    <2>3. ~(i = Len(s) + 3 /\ Len(m) = 3)
      BY <1>1, <1>2, NulIs
    <2>4. QED BY <1>1, <2>1, <2>2, <2>3
  <1>5. j \in 1..Len(t)
    <2>1. i \in Nat /\ j \in Int /\ i + 2 <= j /\ j <= Len(t) /\ 1 <= i
      BY <1>4
    <2>2. QED BY <2>1
  <1>6. CASE j \in 1..Len(s) /\ t[j] = s[j]
    <2>1. j \in (i + 2)..Len(s)
      BY <1>6
    <2>2. QED BY <1>2, <1>4, <1>6, <2>1 DEF AsksLast
  <1>7. CASE j = Len(s) + 1 \/ j = Len(s) + 2
    BY <1>1, <1>7, FirstIs, SecondIs
  <1>8. CASE j = Len(s) + 3 /\ Len(m) = 3
    BY <1>1, <1>3, <1>8
  <1>9. QED BY <1>1, <1>5, <1>6, <1>7, <1>8

(* A message behind a stream that asks nothing is the last that asks.      *)
LEMMA NowAsksLast ==
    ASSUME NEW s \in Seq(WireBytes), OfKinds(s, WorkKinds), NEW k \in Kinds, NEW m,
           IsMessage(m, k), NEW t, Extends(t, s, m)
    PROVE  AsksLast(t)
  <1>1. /\ t[Len(s) + 1] = First(k) /\ t[Len(s) + 2] = Second(k)
        /\ Len(m) = 3 => t[Len(s) + 3] = Nul
        /\ \A i \in 1..Len(t) :
              \/ i \in 1..Len(s) /\ t[i] = s[i]
              \/ i = Len(s) + 1 \/ i = Len(s) + 2 \/ (i = Len(s) + 3 /\ Len(m) = 3)
    BY PlacesOfExtended
  <1>2. SUFFICES ASSUME NEW i \in 1..Len(t), Opens(t[i]), Kind(t[i]) \notin WorkKinds,
                        NEW j \in (i + 2)..Len(t)
                 PROVE  Kind(t[j]) \in CancelKinds
    BY Zenon DEF AsksLast
  <1>3. i = Len(s) + 1
    <2>1. ~(i \in 1..Len(s) /\ t[i] = s[i])
      BY <1>2 DEF OfKinds
    <2>2. i # Len(s) + 2
      BY <1>1, <1>2, SecondIs
    <2>3. ~(i = Len(s) + 3 /\ Len(m) = 3)
      BY <1>1, <1>2, NulIs
    <2>4. QED BY <1>1, <2>1, <2>2, <2>3
  <1>4. j = Len(s) + 3 /\ Len(m) = 3
    <2>1. Len(t) = Len(s) + Len(m) /\ (Len(m) = 2 \/ Len(m) = 3) /\ Len(s) \in Nat
      BY DEF Extends, IsMessage
    <2>2. i + 2 = Len(s) + 3 /\ j \in Int /\ i + 2 <= j /\ j <= Len(t)
      BY <1>3, <2>1
    <2>3. \A n, d, x \in Int : (d = 2 \/ d = 3) /\ n + 3 <= x /\ x <= n + d => x = n + 3 /\ d = 3
      OBVIOUS
    <2>4. Len(s) \in Int /\ Len(m) \in Int /\ Len(s) + 3 <= j /\ j <= Len(s) + Len(m)
      BY <2>1, <2>2
    <2>5. QED BY <2>1, <2>2, <2>3, <2>4, Zenon
  <1>5. t[j] = Nul
    BY <1>1, <1>4
  <1>6. QED BY <1>5, NulIs DEF CancelKinds

(* The places of a stream without its first n bytes, the last a NUL.       *)
LosesFront(t, s, n) ==
    /\ n \in 1..Len(s) /\ s[n] = Nul
    /\ t \in Seq(WireBytes) /\ Len(t) = Len(s) - n
    /\ \A i \in 1..(Len(s) - n) : t[i] = s[n + i]

LEMMA RestIsPaired ==
    ASSUME NEW s \in Seq(WireBytes), NEW n, NEW t, LosesFront(t, s, n), Paired(s)
    PROVE  Paired(t)
  <1>1. /\ Len(s) \in Nat /\ n \in Nat /\ 1 <= n /\ n <= Len(s) /\ Len(t) = Len(s) - n
        /\ s[n] = Nul /\ \A i \in 1..(Len(s) - n) : t[i] = s[n + i]
    BY DEF LosesFront
  <1>2. SUFFICES ASSUME NEW i \in 1..Len(t)
                 PROVE  /\ Opens(t[i])  => i < Len(t) /\ t[i + 1] = Second(Kind(t[i]))
                        /\ Closes(t[i]) => i > 1 /\ t[i - 1] = First(Kind(t[i]))
                        /\ t[i] = Nul   => i > 1 /\ Closes(t[i - 1])
    BY Zenon DEF Paired
  <1> DEFINE j == n + i
  <1>3. /\ j \in 1..Len(s) /\ i \in 1..(Len(s) - n) /\ t[i] = s[j]
        /\ j < Len(s) => i < Len(t) /\ t[i + 1] = s[j + 1]
    <2>1. i \in Nat /\ 1 <= i /\ i <= Len(s) - n /\ j \in Nat /\ j <= Len(s) /\ 1 <= j
      BY <1>1
    <2>2. j < Len(s) => i < Len(t) /\ i + 1 \in 1..(Len(s) - n) /\ n + (i + 1) = j + 1
      BY <1>1, <2>1
    <2>3. QED BY <1>1, <2>1, <2>2
  <1>4. i > 1 => t[i - 1] = s[j - 1]
    <2>1. SUFFICES ASSUME i > 1 PROVE t[i - 1] = s[j - 1]
      OBVIOUS
    <2>2. i - 1 \in 1..(Len(s) - n) /\ n + (i - 1) = j - 1
      BY <1>1, <1>3, <2>1
    <2>3. QED BY <1>1, <2>2
  <1>5. ~(i > 1) => s[j - 1] = Nul
    BY <1>1, <1>3
  <1> HIDE DEF j
  <1>6. /\ Opens(s[j])  => j < Len(s) /\ s[j + 1] = Second(Kind(s[j]))
        /\ Closes(s[j]) => j > 1 /\ s[j - 1] = First(Kind(s[j]))
        /\ s[j] = Nul   => j > 1 /\ Closes(s[j - 1])
    BY <1>3, Zenon DEF Paired
  <1>7. ASSUME Closes(t[i]) PROVE i > 1 /\ t[i - 1] = First(Kind(t[i]))
    <2>1. s[j - 1] = First(Kind(s[j]))
      BY <1>3, <1>6, <1>7
    <2>2. Opens(s[j - 1])
      BY <2>1, HalvesAre, Zenon
    <2>3. i > 1
      BY <1>5, <2>2, NulIs
    <2>4. QED BY <1>3, <1>4, <2>1, <2>3
  <1>8. ASSUME t[i] = Nul PROVE i > 1 /\ Closes(t[i - 1])
    <2>1. Closes(s[j - 1])
      BY <1>3, <1>6, <1>8
    <2>2. i > 1
      BY <1>5, <2>1, NulIs
    <2>3. QED BY <1>4, <2>1, <2>2
  <1>9. QED BY <1>3, <1>6, <1>7, <1>8

LEMMA RestIsParted ==
    ASSUME NEW s \in Seq(WireBytes), NEW n, NEW t, LosesFront(t, s, n), Parted(s)
    PROVE  Parted(t)
  <1>1. /\ Len(s) \in Nat /\ n \in Nat /\ 1 <= n /\ n <= Len(s) /\ Len(t) = Len(s) - n
        /\ \A i \in 1..(Len(s) - n) : t[i] = s[n + i]
    BY DEF LosesFront
  <1>2. SUFFICES ASSUME NEW i \in 1..Len(t), Closes(t[i])
                 PROVE  i < Len(t) /\ t[i + 1] = Nul
    BY Zenon DEF Parted
  <1> DEFINE j == n + i
  <1>3. /\ j \in 1..Len(s) /\ i \in 1..(Len(s) - n) /\ t[i] = s[j]
        /\ j < Len(s) => i < Len(t) /\ t[i + 1] = s[j + 1]
    <2>1. i \in Nat /\ 1 <= i /\ i <= Len(s) - n /\ j \in Nat /\ j <= Len(s) /\ 1 <= j
      BY <1>1
    <2>2. j < Len(s) => i < Len(t) /\ i + 1 \in 1..(Len(s) - n) /\ n + (i + 1) = j + 1
      BY <1>1, <2>1
    <2>3. QED BY <1>1, <2>1, <2>2
  <1> HIDE DEF j
  <1>4. j < Len(s) /\ s[j + 1] = Nul
    BY <1>2, <1>3 DEF Parted
  <1>5. QED BY <1>3, <1>4

LEMMA RestOfKinds ==
    ASSUME NEW s \in Seq(WireBytes), NEW n, NEW t, LosesFront(t, s, n), NEW K, OfKinds(s, K)
    PROVE  OfKinds(t, K)
  <1>1. /\ Len(s) \in Nat /\ n \in Nat /\ 1 <= n /\ n <= Len(s) /\ Len(t) = Len(s) - n
        /\ \A i \in 1..(Len(s) - n) : t[i] = s[n + i]
    BY DEF LosesFront
  <1>2. SUFFICES ASSUME NEW i \in 1..Len(t) PROVE Kind(t[i]) \in K
    BY Zenon DEF OfKinds
  <1>3. n + i \in 1..Len(s) /\ t[i] = s[n + i]
    BY <1>1
  <1>4. QED BY <1>3 DEF OfKinds

LEMMA RestAsksLast ==
    ASSUME NEW s \in Seq(WireBytes), NEW n, NEW t, LosesFront(t, s, n), AsksLast(s)
    PROVE  AsksLast(t)
  <1>1. /\ Len(s) \in Nat /\ n \in Nat /\ 1 <= n /\ n <= Len(s) /\ Len(t) = Len(s) - n
        /\ \A i \in 1..(Len(s) - n) : t[i] = s[n + i]
    BY DEF LosesFront
  <1>2. SUFFICES ASSUME NEW i \in 1..Len(t), Opens(t[i]), Kind(t[i]) \notin WorkKinds,
                        NEW j \in (i + 2)..Len(t)
                 PROVE  Kind(t[j]) \in CancelKinds
    BY Zenon DEF AsksLast
  <1>3. /\ i \in Nat /\ j \in Nat /\ i + 2 <= j /\ 1 <= i /\ j <= Len(s) - n
    BY <1>1
  <1>4. /\ n + i \in 1..Len(s) /\ t[i] = s[n + i]
        /\ n + j \in (n + i + 2)..Len(s) /\ t[j] = s[n + j]
    BY <1>1, <1>3
  <1>5. QED BY <1>2, <1>4 DEF AsksLast

(* What follows the message that gives up the turn, when that message is   *)
(* the first.                                                              *)
LEMMA RestOfAsked ==
    ASSUME NEW s \in Seq(WireBytes), NEW t, LosesFront(t, s, 3), AsksLast(s),
           Opens(s[1]), Kind(s[1]) \notin WorkKinds
    PROVE  OfKinds(t, CancelKinds)
  <1>1. /\ Len(s) \in Nat /\ 3 <= Len(s) /\ Len(t) = Len(s) - 3
        /\ \A i \in 1..(Len(s) - 3) : t[i] = s[3 + i]
    BY DEF LosesFront
  <1>2. SUFFICES ASSUME NEW i \in 1..Len(t) PROVE Kind(t[i]) \in CancelKinds
    BY Zenon DEF OfKinds
  <1>3. 3 + i \in (1 + 2)..Len(s) /\ t[i] = s[3 + i] /\ 1 \in 1..Len(s)
    BY <1>1
  <1>4. QED BY <1>3 DEF AsksLast

(* The places of a stream that has lost the NUL at its end.                *)
LosesNul(t, s) ==
    /\ Len(s) >= 1 /\ s[Len(s)] = Nul
    /\ t \in Seq(WireBytes) /\ Len(t) = Len(s) - 1
    /\ \A i \in 1..(Len(s) - 1) : t[i] = s[i]

LEMMA WithoutNulIsPaired ==
    ASSUME NEW s \in Seq(WireBytes), NEW t, LosesNul(t, s), Paired(s)
    PROVE  Paired(t)
  <1>1. /\ Len(s) \in Nat /\ 1 <= Len(s) /\ Len(t) = Len(s) - 1 /\ s[Len(s)] = Nul
        /\ \A i \in 1..(Len(s) - 1) : t[i] = s[i]
    BY DEF LosesNul
  <1>2. SUFFICES ASSUME NEW i \in 1..Len(t)
                 PROVE  /\ Opens(t[i])  => i < Len(t) /\ t[i + 1] = Second(Kind(t[i]))
                        /\ Closes(t[i]) => i > 1 /\ t[i - 1] = First(Kind(t[i]))
                        /\ t[i] = Nul   => i > 1 /\ Closes(t[i - 1])
    BY Zenon DEF Paired
  <1>3. i \in 1..Len(s) /\ i < Len(s) /\ i \in 1..(Len(s) - 1) /\ t[i] = s[i]
    BY <1>1
  <1>4. /\ Opens(s[i])  => i < Len(s) /\ s[i + 1] = Second(Kind(s[i]))
        /\ Closes(s[i]) => i > 1 /\ s[i - 1] = First(Kind(s[i]))
        /\ s[i] = Nul   => i > 1 /\ Closes(s[i - 1])
    BY <1>3, Zenon DEF Paired
  <1>5. i > 1 => t[i - 1] = s[i - 1]
    BY <1>1, <1>3
  <1>6. ASSUME Opens(t[i]) PROVE i < Len(t) /\ t[i + 1] = Second(Kind(t[i]))
    <2>1. s[i + 1] = Second(Kind(s[i]))
      BY <1>3, <1>4, <1>6
    <2>2. Closes(s[i + 1])
      BY <2>1, HalvesAre, Zenon
    <2>3. i + 1 # Len(s)
      BY <1>1, <2>2, NulIs
    <2>4. i < Len(t) /\ i + 1 \in 1..(Len(s) - 1)
      BY <1>1, <1>3, <2>3
    <2>5. QED BY <1>1, <1>3, <2>1, <2>4
  <1>7. QED BY <1>3, <1>4, <1>5, <1>6

LEMMA WithoutNulOfKinds ==
    ASSUME NEW s \in Seq(WireBytes), NEW t, LosesNul(t, s), NEW K, OfKinds(s, K)
    PROVE  OfKinds(t, K)
  BY DEF LosesNul, OfKinds

LEMMA WithoutNulAsksLast ==
    ASSUME NEW s \in Seq(WireBytes), NEW t, LosesNul(t, s), AsksLast(s)
    PROVE  AsksLast(t)
  <1>1. /\ Len(s) \in Nat /\ 1 <= Len(s) /\ Len(t) = Len(s) - 1
        /\ \A i \in 1..(Len(s) - 1) : t[i] = s[i]
    BY DEF LosesNul
  <1>2. SUFFICES ASSUME NEW i \in 1..Len(t), Opens(t[i]), Kind(t[i]) \notin WorkKinds,
                        NEW j \in (i + 2)..Len(t)
                 PROVE  Kind(t[j]) \in CancelKinds
    BY Zenon DEF AsksLast
  <1>3. i \in 1..Len(s) /\ j \in (i + 2)..Len(s) /\ t[i] = s[i] /\ t[j] = s[j]
    BY <1>1
  <1>4. QED BY <1>2, <1>3 DEF AsksLast

(* A non-empty set of numbers has a least one.                             *)
LEMMA LeastPlace ==
    ASSUME NEW T, T \subseteq Nat, T # {}
    PROVE  Min(T) \in T
  <1> DEFINE LessThan == {ss \in Nat \X Nat : ss[1] < ss[2]}
  <1>1. IsWellFoundedOn(LessThan, Nat)
    BY NatLessThanWellFounded DEF OpToRel, LessThan
  <1>2. PICK x \in T : \A y \in T : ~(<<y, x>> \in LessThan)
    BY <1>1, WFMin
  <1>3. \A y \in T : x <= y
    <2>1. TAKE y \in T
    <2>2. x \in Nat /\ y \in Nat /\ ~(<<y, x>> \in LessThan)
      BY <1>2
    <2>3. ~(y < x)
      BY <2>2
    <2>4. QED BY <2>2, <2>3
  <1>4. QED BY <1>3 DEF Min

(* What the client library finds before the first NUL that it has.         *)
LEMMA FirstMessage ==
    ASSUME WireTypes, EndOfMessage # 0
    PROVE  /\ EndOfMessage \in 1..Len(unread)
           /\ LosesFront((SubSeq(unread, EndOfMessage + 1, Len(unread)) \o pipe) \o out,
                         Stream, EndOfMessage)
           /\ \/ Parsed = None
              \/ /\ Parsed \in Kinds /\ EndOfMessage = 3
                 /\ Stream[1] = First(Parsed) /\ Stream[2] = Second(Parsed)
  <1> DEFINE I == {i \in 1..Len(unread) : unread[i] = Nul}
             n == EndOfMessage
             text == SubSeq(unread, 1, n - 1)
             rest == (SubSeq(unread, n + 1, Len(unread)) \o pipe) \o out
  <1>1. /\ unread \in Seq(WireBytes) /\ pipe \in Seq(WireBytes) /\ out \in Seq(WireBytes)
        /\ Len(unread) \in Nat
    BY DEF WireTypes
  <1>2. EndOfMessage = IF I # {} THEN Min(I) ELSE 0
    BY DEF EndOfMessage, SelectInSeq
  <1>3. n \in I
    <2>1. I # {} /\ n = Min(I) /\ I \subseteq Nat
      BY <1>2
    <2>2. Min(I) \in I
      BY <2>1, LeastPlace
    <2>3. QED BY <2>1, <2>2
  <1>4. n \in 1..Len(unread) /\ unread[n] = Nul /\ n \in 0..Len(unread)
    BY <1>1, <1>3
  <1> HIDE DEF I, n
  <1>5. /\ unread \o pipe \in Seq(WireBytes)
        /\ (unread \o pipe) \o out \in Seq(WireBytes) /\ Stream = (unread \o pipe) \o out
    BY <1>1, ConcatAt DEF Stream
  <1>6. Len(Stream) >= Len(unread) /\ \A i \in 1..Len(unread) : Stream[i] = unread[i]
    <2> DEFINE u == unread \o pipe
    <2>1. Len(u) = Len(unread) + Len(pipe) /\ \A i \in 1..Len(unread) : u[i] = unread[i]
      BY <1>1, ConcatAt
    <2>2. u \in Seq(WireBytes) /\ Stream = u \o out
      BY <1>5
    <2> HIDE DEF u
    <2>3. Len(Stream) = Len(u) + Len(out) /\ \A i \in 1..Len(u) : Stream[i] = u[i]
      BY <1>1, <2>2, ConcatAt
    <2>4. Len(pipe) \in Nat /\ Len(out) \in Nat
      BY <1>1
    <2>5. QED BY <1>1, <2>1, <2>3, <2>4
  <1>7. rest = SubSeq(Stream, n + 1, Len(Stream))
    <2>1. n \in 0..Len(unread \o pipe)
      BY <1>1, <1>4, ConcatAt
    <2>2. SubSeq(unread, n + 1, Len(unread)) \o pipe
             = SubSeq(unread \o pipe, n + 1, Len(unread \o pipe))
      BY <1>1, <1>4, RestOfConcat
    <2>3. SubSeq(unread \o pipe, n + 1, Len(unread \o pipe)) \o out
             = SubSeq((unread \o pipe) \o out, n + 1, Len((unread \o pipe) \o out))
      BY <1>1, <1>5, <2>1, RestOfConcat
    <2>4. QED BY <1>5, <2>2, <2>3, Zenon
  <1>8. LosesFront(rest, Stream, n)
    <2>1. Stream \in Seq(WireBytes) /\ n \in 0..Len(Stream) /\ n \in 1..Len(Stream)
          /\ Stream[n] = Nul
      BY <1>1, <1>4, <1>5, <1>6
    <2>2. /\ SubSeq(Stream, n + 1, Len(Stream)) \in Seq(WireBytes)
          /\ Len(SubSeq(Stream, n + 1, Len(Stream))) = Len(Stream) - n
          /\ \A i \in 1..(Len(Stream) - n) : SubSeq(Stream, n + 1, Len(Stream))[i] = Stream[n + i]
      BY <2>1, RestAt
    <2>3. QED BY <1>7, <2>1, <2>2 DEF LosesFront
  <1>9. ASSUME NEW k \in Kinds, text = SubSeq(Message(k), 1, StrLen)
        PROVE  n = 3 /\ Stream[1] = First(k) /\ Stream[2] = Second(k) /\ text[1][1] = k
    <2> DEFINE a == Message(k)
    <2>1. a \in Seq(WireBytes) /\ Len(a) = 3 /\ a[1] = First(k) /\ a[2] = Second(k)
      BY MessageIsBytes DEF IsMessage
    <2> HIDE DEF a
    <2>2. Len(SubSeq(a, 1, 2)) = 2 /\ SubSeq(a, 1, 2)[1] = a[1] /\ SubSeq(a, 1, 2)[2] = a[2]
      BY <2>1
    <2>3. text = SubSeq(a, 1, 2)
      BY <1>9 DEF a, StrLen
    <2>4. /\ Len(text) = n - 1
          /\ \A i \in 1..(n - 1) : text[i] = unread[i]
      BY <1>1, <1>4
    <2> HIDE DEF text
    <2>5. Len(text) = 2 /\ text[1] = First(k) /\ text[2] = Second(k)
      BY <2>1, <2>2, <2>3
    <2>6. n = 3 /\ 1 \in 1..(n - 1) /\ 2 \in 1..(n - 1)
          /\ 1 \in 1..Len(unread) /\ 2 \in 1..Len(unread)
      <3>1. n - 1 = 2
        BY <2>4, <2>5
      <3>2. n \in 1..Len(unread)
        BY <1>4
      <3>3. n = 3 /\ 3 <= Len(unread)
        BY <1>1, <3>1, <3>2
      <3>4. QED BY <1>1, <3>3
    <2>7. Stream[1] = First(k) /\ Stream[2] = Second(k)
      BY <1>6, <2>4, <2>5, <2>6
    <2>8. text[1][1] = k
      BY <2>5, HalvesAre, Zenon
    <2>9. QED BY <2>6, <2>7, <2>8
  <1>10. Parsed = IF \E k \in Kinds : text = SubSeq(Message(k), 1, StrLen)
                 THEN text[1][1] ELSE None
    BY Zenon DEF Parsed, text, n
  <1> HIDE DEF text, rest
  <1>11. Parsed = None \/ (Parsed \in Kinds /\ n = 3 /\ Stream[1] = First(Parsed)
                           /\ Stream[2] = Second(Parsed))
    <2>1. CASE \E k \in Kinds : text = SubSeq(Message(k), 1, StrLen)
      <3>1. PICK k \in Kinds : text = SubSeq(Message(k), 1, StrLen)
        BY <2>1
      <3>2. n = 3 /\ Stream[1] = First(k) /\ Stream[2] = Second(k) /\ text[1][1] = k
        BY <1>9, <3>1
      <3>3. Parsed = k
        BY <1>10, <2>1, <3>2
      <3>4. QED BY <3>2, <3>3
    <2>2. CASE ~(\E k \in Kinds : text = SubSeq(Message(k), 1, StrLen))
      BY <1>10, <2>2
    <2>3. QED BY <2>1, <2>2
  <1>12. QED BY <1>4, <1>8, <1>11, Zenon DEF rest, n

-----------------------------------------------------------------------------
(* Each action, by what it does to the stream.                             *)

(* What does not touch the stream changes nothing of what is beside what.  *)
LEMMA SameStream ==
    ASSUME Sound, Stream' = Stream, nulLost' = nulLost
    PROVE  Sound'
  BY Zenon DEF Sound, Paired, Parted

(* What only moves control, or a flag.                                     *)
LEMMA QuietSteps ==
    ASSUME WireInv, UNCHANGED <<unread, pipe, out, nulLost>>,
           \/ ReadInput \/ ClientMsg \/ NoMoreSending \/ ClearDeferred
           \/ SocketReadable \/ Answer \/ AnswerCancelled
    PROVE  WireInv'
  <1>1. WireTypes /\ FlagsAreRight /\ Sound /\ Turn
    BY DEF WireInv
  <1>2. Stream' = Stream
    BY DEF Stream
  <1>3. Sound'
    BY <1>1, <1>2, SameStream
  <1>4. /\ OfKinds(Stream, CancelKinds) => OfKinds(Stream, WorkKinds)
        /\ OfKinds(Stream, CancelKinds)' <=> OfKinds(Stream, CancelKinds)
        /\ OfKinds(Stream, WorkKinds)' <=> OfKinds(Stream, WorkKinds)
        /\ OfKinds(Stream, LiveKinds)' <=> OfKinds(Stream, LiveKinds)
        /\ AsksLast(Stream)' <=> AsksLast(Stream)
    <2>1. OfKinds(Stream, CancelKinds) => OfKinds(Stream, WorkKinds)
      BY DEF OfKinds, CancelKinds, WorkKinds
    <2>2. QED BY <1>2, <2>1, Zenon DEF OfKinds, CancelKinds, WorkKinds, LiveKinds, AsksLast
  <1> USE DEF Working, Over, None
  <1>5. CASE ReadInput
    <2>1. spc = "idle" /\ HandingBack
      BY <1>1, <1>5 DEF ReadInput, Turn, ServersTurn, HandingOver, ClientsTurn, HandingBack,
                        TurnsEnd
    <2>2. ServersTurn'
      BY <1>4, <1>5, <2>1 DEF ReadInput, ServersTurn, HandingBack, clientVars
    <2>3. WireTypes' /\ FlagsAreRight'
      BY <1>1, <1>5 DEF ReadInput, WireTypes, FlagsAreRight, clientVars
    <2>4. QED BY <1>3, <2>2, <2>3 DEF WireInv, Turn
  <1>6. CASE ClientMsg
    <2>1. ServersTurn
      BY <1>1, <1>6 DEF ClientMsg, Turn, ServersTurn, HandingOver, ClientsTurn, HandingBack,
                        TurnsEnd
    <2>2. ServersTurn'
      BY <1>4, <1>6, <2>1 DEF ClientMsg, ServersTurn, clientVars
    <2>3. WireTypes' /\ FlagsAreRight'
      BY <1>1, <1>6 DEF ClientMsg, WireTypes, FlagsAreRight, clientVars
    <2>4. QED BY <1>3, <2>2, <2>3 DEF WireInv, Turn
  <1>7. CASE NoMoreSending \/ ClearDeferred
    <2>1. Turn'
      BY <1>1, <1>4, <1>7 DEF NoMoreSending, ClearDeferred, Turn, ServersTurn, HandingOver,
                        ClientsTurn, HandingBack, TurnsEnd, clientVars
    <2>2. CASE NoMoreSending
      BY <1>1, <1>3, <2>1, <2>2 DEF NoMoreSending, WireTypes, FlagsAreRight, WireInv
    <2>3. CASE ClearDeferred
      BY <1>1, <1>3, <2>1, <2>3 DEF ClearDeferred, WireTypes, FlagsAreRight, WireInv
    <2>4. QED BY <1>7, <2>2, <2>3
  <1>8. CASE SocketReadable \/ Answer \/ AnswerCancelled
    <2>1. ClientsTurn
      BY <1>1, <1>8 DEF SocketReadable, Answer, AnswerCancelled, Reply, Turn, ServersTurn,
                        HandingOver, ClientsTurn, HandingBack, TurnsEnd
    <2>2. Turn'
      BY <1>4, <1>8, <2>1 DEF SocketReadable, Answer, AnswerCancelled, Reply, Turn,
                        ClientsTurn, HandingBack
    <2>3. WireTypes' /\ FlagsAreRight'
      BY <1>1, <1>8 DEF SocketReadable, Answer, AnswerCancelled, Reply, WireTypes, FlagsAreRight
    <2>4. QED BY <1>3, <2>2, <2>3 DEF WireInv
  <1>9. QED BY <1>5, <1>6, <1>7, <1>8

(* A message that joins the end of the stream.                             *)
Joins(m, k) ==
    /\ k \in Kinds /\ IsMessage(m, k) /\ Stream \in Seq(WireBytes)
    /\ Extends(Stream', Stream, m)
    /\ (Len(m) = 2 => nulLost') /\ (nulLost => nulLost')

LEMMA JoinedIsSound ==
    ASSUME NEW k, NEW m, Joins(m, k), Sound
    PROVE  Sound'
  <1>1. /\ k \in Kinds /\ IsMessage(m, k) /\ Stream \in Seq(WireBytes)
        /\ Extends(Stream', Stream, m) /\ Paired(Stream)
    BY Zenon DEF Joins, Sound
  <1>2. Paired(Stream')
    BY <1>1, ExtendedIsPaired
  <1>3. ASSUME ~nulLost' PROVE Parted(Stream')
    <2>1. Parted(Stream) /\ Len(m) = 3
      BY <1>3 DEF Joins, Sound, IsMessage
    <2>2. QED BY <1>1, <2>1, ExtendedIsParted
  <1>4. QED BY <1>2, <1>3, Zenon DEF Sound, Paired, Parted

(* A message that the process starts to send joins the stream.             *)
LEMMA StartedSending ==
    ASSUME WireTypes, out = <<>>, NEW k \in Kinds, out' = Message(k),
           UNCHANGED <<unread, pipe, nulLost>>
    PROVE  /\ Joins(Message(k), k) /\ out' \in Seq(WireBytes) /\ Len(out') = 3
           /\ out'[3] = Nul /\ out'[2] = Second(k)
  <1>1. IsMessage(Message(k), k) /\ Len(Message(k)) = 3
    BY MessageIsBytes
  <1>2. Message(k) \in Seq(WireBytes) /\ Message(k)[3] = Nul /\ Message(k)[2] = Second(k)
    BY <1>1 DEF IsMessage
  <1>3. unread \o pipe \in Seq(WireBytes)
    BY ConcatProperties DEF WireTypes
  <1>4. Stream = unread \o pipe
    BY <1>3, ConcatEmptySeq DEF Stream
  <1>5. Extends((unread \o pipe) \o Message(k), unread \o pipe, Message(k))
    BY <1>2, <1>3, JoinExtends
  <1>6. Stream' = (unread \o pipe) \o Message(k)
    BY DEF Stream
  <1>7. Extends(Stream', Stream, Message(k))
    BY <1>4, <1>5, <1>6
  <1>8. Joins(Message(k), k)
    BY <1>1, <1>3, <1>4, <1>7 DEF Joins
  <1>9. QED BY <1>1, <1>2, <1>8

(* And so does one that is sent at once.                                   *)
LEMMA SentAtOnce ==
    ASSUME WireTypes, out = <<>>, NEW k \in Kinds, NEW m \in Sendings(k),
           PutOnWire(m, <<>>), UNCHANGED <<unread, out>>
    PROVE  Joins(m, k) /\ pipe' \in Seq(WireBytes) /\ nulLost' \in BOOLEAN
  <1>1. IsMessage(m, k) /\ m \in Seq(WireBytes)
    BY SendingIsMessage DEF IsMessage
  <1>2. unread \in Seq(WireBytes) /\ pipe \in Seq(WireBytes) /\ unread \o pipe \in Seq(WireBytes)
    BY ConcatProperties DEF WireTypes
  <1>3. pipe \o m \in Seq(WireBytes) /\ unread \o (pipe \o m) \in Seq(WireBytes)
    BY <1>1, <1>2, ConcatProperties
  <1>4. pipe' = pipe \o m
    BY <1>3, ConcatEmptySeq DEF PutOnWire
  <1>5. Associated(unread, pipe, m)
    BY <1>1, <1>2, Associates
  <1>6. Stream' = (unread \o pipe) \o m
    BY <1>3, <1>4, <1>5, ConcatEmptySeq DEF Associated, Stream
  <1>7. Stream = unread \o pipe
    BY <1>2, ConcatEmptySeq DEF Stream
  <1>8. Extends((unread \o pipe) \o m, unread \o pipe, m)
    BY <1>1, <1>2, JoinExtends
  <1>9. Extends(Stream', Stream, m)
    BY <1>6, <1>7, <1>8
  <1>10. /\ nulLost' \in BOOLEAN /\ (Len(m) = 2 => nulLost') /\ (nulLost => nulLost')
    BY DEF PutOnWire, StrLen
  <1>11. QED BY <1>1, <1>2, <1>3, <1>4, <1>7, <1>9, <1>10 DEF Joins

(* What joins the stream, by its kind.                                     *)
LEMMA JoinedOfKinds ==
    ASSUME NEW k, NEW m, Joins(m, k), NEW K, k \in K, "NUL" \in K, OfKinds(Stream, K)
    PROVE  OfKinds(Stream', K)
  <1>1. /\ k \in Kinds /\ IsMessage(m, k) /\ Stream \in Seq(WireBytes)
        /\ Extends(Stream', Stream, m)
    BY Zenon DEF Joins
  <1>2. QED BY <1>1, ExtendedOfKinds

LEMMA JoinedAsksLast ==
    ASSUME NEW k, NEW m, Joins(m, k), OfKinds(Stream, WorkKinds)
    PROVE  AsksLast(Stream')
  <1>1. /\ k \in Kinds /\ IsMessage(m, k) /\ Stream \in Seq(WireBytes)
        /\ Extends(Stream', Stream, m)
    BY Zenon DEF Joins
  <1>2. QED BY <1>1, NowAsksLast

(* A cancel that joins the stream does not change the turn.                *)
LEMMA CancelKeepsTurn ==
    ASSUME Turn, NEW m, Joins(m, "server_cancel"), UNCHANGED <<cpc, reply>>,
           spc' = spc \/ (spc = "check" /\ spc' = "cancel")
    PROVE  Turn'
  <1>1. /\ "server_cancel" \in CancelKinds /\ "server_cancel" \in WorkKinds
        /\ "server_cancel" \in LiveKinds
        /\ "NUL" \in CancelKinds /\ "NUL" \in WorkKinds /\ "NUL" \in LiveKinds
    BY DEF CancelKinds, WorkKinds, LiveKinds
  <1>2. /\ "server_cancel" \in Kinds /\ IsMessage(m, "server_cancel")
        /\ Stream \in Seq(WireBytes) /\ Extends(Stream', Stream, m)
    BY Zenon DEF Joins
  <1>3. OfKinds(Stream, WorkKinds) => OfKinds(Stream', WorkKinds)
    BY <1>1, JoinedOfKinds
  <1>4. OfKinds(Stream, LiveKinds) => OfKinds(Stream', LiveKinds)
    BY <1>1, JoinedOfKinds
  <1>5. OfKinds(Stream, CancelKinds) => OfKinds(Stream', CancelKinds)
    BY <1>1, JoinedOfKinds
  <1>6. AsksLast(Stream) => AsksLast(Stream')
    BY <1>1, <1>2, CancelAsksNothing
  <1> USE DEF Working, Over
  <1>7. CASE ServersTurn
    BY <1>3, <1>7 DEF Turn, ServersTurn, None, WorkKinds
  <1>8. CASE HandingOver
    BY <1>4, <1>6, <1>8 DEF Turn, HandingOver, None, LiveKinds, AsksLast, CancelKinds, WorkKinds
  <1>9. CASE ClientsTurn \/ HandingBack
    BY <1>5, <1>9 DEF Turn, ClientsTurn, HandingBack, None, CancelKinds
  <1>10. CASE TurnsEnd
    BY <1>10 DEF Turn, TurnsEnd
  <1>11. QED BY <1>7, <1>8, <1>9, <1>10 DEF Turn

(* Steps in which the server starts a message in its own turn: progress,   *)
(* the answer to a command, a deferred server cancel.                      *)
LEMMA SendingSteps ==
    ASSUME WireInv, LoadProgress \/ SendReply \/ CheckDeferred
    PROVE  WireInv'
  <1>1. WireTypes /\ FlagsAreRight /\ Sound /\ Turn
    BY DEF WireInv
  <1>2. {"request", "load_progress", "server_cancel"} \subseteq Kinds
    BY DEF Kinds
  <1>3. ASSUME NEW k \in Kinds, NEW then, StartSend(k, then), out = <<>>,
               UNCHANGED <<unread, pipe, nulLost>>
        PROVE  /\ Joins(Message(k), k) /\ Sound' /\ out' \in Seq(WireBytes) /\ Len(out') = 3
               /\ out'[3] = Nul /\ out'[2] = Second(k)
    <2>1. out' = Message(k)
      BY <1>3 DEF StartSend
    <2>2. /\ Joins(Message(k), k) /\ out' \in Seq(WireBytes) /\ Len(out') = 3
          /\ out'[3] = Nul /\ out'[2] = Second(k)
      BY <1>1, <1>3, <2>1, StartedSending
    <2>3. Sound'
      BY <1>1, <2>2, JoinedIsSound
    <2>4. QED BY <2>2, <2>3
  <1> USE DEF Working, Over
  <1>4. CASE LoadProgress
    <2>1. /\ out = <<>> /\ ServersTurn /\ spc = "work" /\ cansend
          /\ StartSend("load_progress", "progress") /\ UNCHANGED <<unread, pipe, nulLost>>
      BY <1>1, <1>4 DEF LoadProgress, FlagsAreRight, Turn, ServersTurn, HandingOver, ClientsTurn,
                 HandingBack, TurnsEnd, clientVars
    <2> DEFINE k == "load_progress"
    <2>2. /\ Joins(Message(k), k) /\ Sound' /\ out' \in Seq(WireBytes) /\ Len(out') = 3
          /\ out'[3] = Nul
      BY <1>2, <1>3, <2>1
    <2>3. k \in WorkKinds /\ "NUL" \in WorkKinds /\ OfKinds(Stream, WorkKinds)
      BY <2>1 DEF WorkKinds, ServersTurn
    <2>4. OfKinds(Stream', WorkKinds)
      BY <2>2, <2>3, JoinedOfKinds
    <2>5. ServersTurn'
      BY <1>4, <2>1, <2>4 DEF LoadProgress, StartSend, ServersTurn, clientVars, WorkKinds, None
    <2>6. WireTypes'
      BY <1>1, <1>4, <2>1, <2>2 DEF LoadProgress, StartSend, WireTypes, clientVars
    <2>7. FlagsAreRight'
      BY <1>1, <1>4, <2>1, <2>2 DEF LoadProgress, StartSend, FlagsAreRight
    <2>8. QED BY <2>2, <2>5, <2>6, <2>7 DEF WireInv, Turn
  <1>5. CASE SendReply
    <2>1. /\ out = <<>> /\ ServersTurn /\ spc = "build" /\ cansend
          /\ StartSend("request", "write") /\ UNCHANGED <<unread, pipe, nulLost>>
      BY <1>1, <1>5 DEF SendReply, FlagsAreRight, Turn, ServersTurn, HandingOver, ClientsTurn,
                 HandingBack, TurnsEnd, clientVars
    <2> DEFINE k == "request"
    <2>2. /\ Joins(Message(k), k) /\ Sound' /\ out' \in Seq(WireBytes) /\ Len(out') = 3
          /\ out'[3] = Nul /\ out'[2] = Second(k)
      BY <1>2, <1>3, <2>1
    <2>3. /\ k \in LiveKinds /\ "NUL" \in LiveKinds /\ OfKinds(Stream, WorkKinds)
          /\ OfKinds(Stream, LiveKinds)
      BY <2>1 DEF WorkKinds, LiveKinds, ServersTurn, OfKinds
    <2>4. OfKinds(Stream', LiveKinds)
      BY <2>2, <2>3, JoinedOfKinds
    <2>5. AsksLast(Stream')
      BY <2>2, <2>3, JoinedAsksLast
    <2>6. HandingOver'
      BY <1>5, <2>1, <2>4, <2>5 DEF SendReply, StartSend, ServersTurn, HandingOver, clientVars,
                                    None, LiveKinds, AsksLast, WorkKinds, CancelKinds
    <2>7. WireTypes'
      BY <1>1, <1>5, <2>1, <2>2 DEF SendReply, StartSend, WireTypes, clientVars
    <2>8. FlagsAreRight'
      BY <1>1, <1>5, <2>1, <2>2 DEF SendReply, StartSend, FlagsAreRight
    <2>9. QED BY <2>2, <2>6, <2>7, <2>8 DEF WireInv, Turn
  <1>6. CASE CheckDeferred /\ ~deferred
    <2>1. UNCHANGED <<unread, pipe, out, nulLost, sending, cansend, deferred, cpc, reply>>
          /\ spc = "check" /\ spc' = "idle"
      BY <1>6 DEF CheckDeferred, clientVars
    <2>2. Stream' = Stream
      BY <2>1 DEF Stream
    <2>3. Sound'
      BY <1>1, <2>1, <2>2, SameStream
    <2>4. Turn'
      BY <1>1, <2>1, <2>2 DEF Turn, ServersTurn, HandingOver, ClientsTurn, HandingBack, TurnsEnd,
                        OfKinds, AsksLast, None, CancelKinds, WorkKinds, LiveKinds
    <2>5. WireTypes' /\ FlagsAreRight'
      BY <1>1, <2>1 DEF WireTypes, FlagsAreRight
    <2>6. QED BY <2>3, <2>4, <2>5 DEF WireInv
  <1>7. CASE CheckDeferred /\ deferred
    <2>1. /\ out = <<>> /\ spc = "check" /\ spc' = "cancel"
          /\ StartSend("server_cancel", "cancel")
          /\ UNCHANGED <<unread, pipe, nulLost, cpc, reply, cansend, deferred>>
      BY <1>1, <1>7 DEF CheckDeferred, StartSend, FlagsAreRight, clientVars
    <2> DEFINE k == "server_cancel"
    <2>2. /\ Joins(Message(k), k) /\ Sound' /\ out' \in Seq(WireBytes) /\ Len(out') = 3
          /\ out'[3] = Nul
      BY <1>2, <1>3, <2>1
    <2>3. Turn'
      BY <1>1, <2>1, <2>2, CancelKeepsTurn
    <2>4. WireTypes' /\ FlagsAreRight'
      BY <1>1, <2>1, <2>2 DEF StartSend, WireTypes, FlagsAreRight
    <2>5. QED BY <2>2, <2>3, <2>4 DEF WireInv
  <1>8. QED BY <1>4, <1>5, <1>6, <1>7

(* A server cancel from the signal handler.                                *)
LEMMA CancelStep ==
    ASSUME WireInv, LogChanged
    PROVE  WireInv'
  <1>1. WireTypes /\ FlagsAreRight /\ Sound /\ Turn
    BY DEF WireInv
  <1>2. UNCHANGED <<spc, sending, cansend, out, reply, unread, cpc>> /\ ServerCancelMsg
    BY DEF LogChanged, clientVars
  <1>3. CASE sending # 0
    <2>1. UNCHANGED <<pipe, nulLost>> /\ deferred' = TRUE
      BY <1>2, <1>3 DEF ServerCancelMsg
    <2>2. Stream' = Stream
      BY <1>2, <2>1 DEF Stream
    <2>3. Sound'
      BY <1>1, <2>1, <2>2, SameStream
    <2>4. Turn'
      BY <1>1, <1>2, <2>2 DEF Turn, ServersTurn, HandingOver, ClientsTurn, HandingBack, TurnsEnd,
                        OfKinds, AsksLast, None, CancelKinds, WorkKinds, LiveKinds, Working, Over
    <2>5. WireTypes' /\ FlagsAreRight'
      BY <1>1, <1>2, <2>1 DEF WireTypes, FlagsAreRight, Working, Over
    <2>6. QED BY <2>3, <2>4, <2>5 DEF WireInv
  <1>4. CASE sending = 0
    <2>1. PICK m \in Sendings("server_cancel") : PutOnWire(m, <<>>)
      BY <1>2, <1>4 DEF ServerCancelMsg
    <2>2. UNCHANGED deferred
      BY <1>2, <1>4 DEF ServerCancelMsg
    <2>3. out = <<>> /\ "server_cancel" \in Kinds
      BY <1>1, <1>4 DEF FlagsAreRight, WireTypes, Kinds
    <2>4. Joins(m, "server_cancel") /\ pipe' \in Seq(WireBytes) /\ nulLost' \in BOOLEAN
      BY <1>1, <1>2, <2>1, <2>3, SentAtOnce
    <2>5. Sound'
      BY <1>1, <2>4, JoinedIsSound
    <2>6. Turn'
      BY <1>1, <1>2, <2>4, CancelKeepsTurn
    <2>7. WireTypes' /\ FlagsAreRight'
      BY <1>1, <1>2, <2>2, <2>4 DEF WireTypes, FlagsAreRight, Working, Over
    <2>8. QED BY <2>5, <2>6, <2>7 DEF WireInv
  <1>5. QED BY <1>3, <1>4

(* The server's farewell, and the cancel that was waiting behind it.       *)
LEMMA FarewellStep ==
    ASSUME WireInv, ExitClient
    PROVE  WireInv'
  <1>1. WireTypes /\ FlagsAreRight /\ Sound /\ Turn
    BY DEF WireInv
  <1>2. UNCHANGED <<sending, out, reply, unread, cpc>> /\ spc' = "gone"
    BY DEF ExitClient, clientVars
  <1> USE DEF Working, Over
  <1>3. CASE ~cansend
    <2>1. UNCHANGED <<pipe, nulLost, cansend, deferred>> /\ spc = "idle"
      BY <1>1, <1>3 DEF ExitClient, FlagsAreRight
    <2>2. Stream' = Stream
      BY <1>2, <2>1 DEF Stream
    <2>3. Sound'
      BY <1>1, <2>1, <2>2, SameStream
    <2>4. Turn'
      BY <1>1, <1>2, <2>1, <2>2 DEF Turn, ServersTurn, HandingOver, ClientsTurn, HandingBack,
                        TurnsEnd, OfKinds, AsksLast, None, CancelKinds, WorkKinds, LiveKinds
    <2>5. WireTypes' /\ FlagsAreRight'
      BY <1>1, <1>2, <2>1 DEF WireTypes, FlagsAreRight
    <2>6. QED BY <2>3, <2>4, <2>5 DEF WireInv
  <1>4. CASE cansend
    <2>1. PICK r \in Sendings("server_error"),
               c \in IF deferred THEN Sendings("server_cancel") ELSE {<<>>} : PutOnWire(r, c)
      BY <1>4 DEF ExitClient
    <2>2. cansend' = FALSE /\ deferred' = FALSE /\ spc \in {"work", "loaded"}
      BY <1>1, <1>4 DEF ExitClient, FlagsAreRight
    <2>3. out = <<>> /\ sending = 0 /\ ServersTurn
      BY <1>1, <2>2 DEF FlagsAreRight, Turn, ServersTurn, HandingOver, ClientsTurn, HandingBack,
                        TurnsEnd
    <2>4. /\ "server_error" \in Kinds /\ "server_cancel" \in Kinds
          /\ "server_cancel" \in CancelKinds
      BY DEF Kinds, CancelKinds
    <2>5. IsMessage(r, "server_error") /\ r \in Seq(WireBytes) /\ (Len(r) = 2 \/ Len(r) = 3)
      BY <2>1, <2>4, SendingIsMessage DEF IsMessage
    <2>6. c = <<>> \/ IsMessage(c, "server_cancel")
      <3>1. c = <<>> \/ c \in Sendings("server_cancel")
        BY <2>1
      <3>2. ASSUME c \in Sendings("server_cancel") PROVE IsMessage(c, "server_cancel")
        BY <2>4, <3>2, SendingIsMessage
      <3>3. QED BY <3>1, <3>2
    <2>7. c \in Seq(WireBytes)
      <3>1. <<>> \in Seq(WireBytes)
        OBVIOUS
      <3>2. QED BY <2>6, <3>1, Zenon DEF IsMessage
    <2> DEFINE s == unread \o pipe
               t == s \o r
    <2>8. unread \in Seq(WireBytes) /\ pipe \in Seq(WireBytes) /\ s \in Seq(WireBytes)
      BY <1>1, ConcatProperties DEF WireTypes
    <2>9. /\ pipe \o r \in Seq(WireBytes) /\ (pipe \o r) \o c \in Seq(WireBytes)
          /\ t \in Seq(WireBytes) /\ t \o c \in Seq(WireBytes)
      BY <2>5, <2>7, <2>8, ConcatProperties
    <2>10. Stream = s
      BY <2>3, <2>8, ConcatEmptySeq DEF Stream
    <2>11. Stream' = t \o c
      <3>1. pipe' = (pipe \o r) \o c
        BY <2>1 DEF PutOnWire
      <3>2. Associated(unread, pipe, r) /\ Associated(unread, pipe \o r, c)
        BY <2>5, <2>7, <2>8, <2>9, Associates
      <3>3. unread \o pipe' = t \o c
        BY <3>1, <3>2 DEF Associated
      <3>4. Stream' = (unread \o pipe') \o <<>>
        BY <1>2, <2>3 DEF Stream
      <3>5. QED BY <2>9, <3>3, <3>4, ConcatEmptySeq
    <2>12. Extends(t, s, r) /\ Extends(t \o c, t, c)
      BY <2>5, <2>7, <2>8, <2>9, JoinExtends
    <2>13. Paired(s) /\ OfKinds(s, WorkKinds)
      BY <1>1, <2>3, <2>10 DEF Sound, ServersTurn
    <2>14. /\ nulLost => nulLost'
           /\ ~nulLost' => Len(r) = 3 /\ Len(c) # 2
      BY <2>1, <2>5 DEF PutOnWire, StrLen
    <2>15. nulLost' \in BOOLEAN
      BY <2>1 DEF PutOnWire
    <2> HIDE DEF s
    <2>16. Paired(t) /\ AsksLast(t)
      BY <2>4, <2>5, <2>8, <2>12, <2>13, ExtendedIsPaired, NowAsksLast
    <2>17. ASSUME ~nulLost' PROVE Parted(t)
      <3>1. Len(r) = 3 /\ ~nulLost
        BY <2>14, <2>17
      <3>2. Parted(s)
        BY <1>1, <2>10, <3>1 DEF Sound
      <3>3. QED BY <2>4, <2>5, <2>8, <2>12, <3>1, <3>2, ExtendedIsParted
    <2> HIDE DEF t
    <2>18. Paired(t \o c) /\ AsksLast(t \o c)
      <3>1. CASE c = <<>>
        <4>1. t \o c = t
          BY <2>9, <3>1, ConcatEmptySeq
        <4>2. QED BY <2>16, <4>1
      <3>2. CASE IsMessage(c, "server_cancel")
        BY <2>4, <2>9, <2>12, <2>16, <3>2, ExtendedIsPaired, CancelAsksNothing
      <3>3. QED BY <2>6, <3>1, <3>2
    <2>19. ASSUME ~nulLost' PROVE Parted(t \o c)
      <3>1. CASE c = <<>>
        <4>1. t \o c = t
          BY <2>9, <3>1, ConcatEmptySeq
        <4>2. QED BY <2>17, <2>19, <4>1
      <3>2. CASE IsMessage(c, "server_cancel")
        <4>1. Len(c) = 3
          BY <2>14, <2>19, <3>2 DEF IsMessage
        <4>2. QED BY <2>4, <2>9, <2>12, <2>17, <2>19, <3>2, <4>1, ExtendedIsParted
      <3>3. QED BY <2>6, <3>1, <3>2
    <2>20. Sound'
      BY <2>11, <2>18, <2>19, Zenon DEF Sound, Paired, Parted
    <2>21. HandingOver'
      <3>1. AsksLast(Stream')
        BY <2>11, <2>18
      <3>2. cpc' = "waiting" /\ reply' = None
        BY <1>2, <2>3 DEF ServersTurn
      <3>3. QED BY <1>2, <3>1, <3>2 DEF HandingOver, AsksLast, None, WorkKinds, CancelKinds
    <2>22. pipe' \in Seq(WireBytes)
      BY <2>1, <2>9 DEF PutOnWire
    <2>23. WireTypes' /\ FlagsAreRight'
      BY <1>1, <1>2, <2>2, <2>3, <2>15, <2>22 DEF WireTypes, FlagsAreRight
    <2>24. QED BY <2>20, <2>21, <2>23 DEF WireInv, Turn
  <1>5. QED BY <1>3, <1>4

(* The client library receives a part of what has arrived.                 *)
LEMMA RecvStep ==
    ASSUME WireInv, Recv
    PROVE  WireInv'
  <1>1. WireTypes /\ FlagsAreRight /\ Sound /\ Turn
    BY DEF WireInv
  <1>2. PICK n \in 1..Len(pipe) : /\ unread' = unread \o SubSeq(pipe, 1, n)
                                  /\ pipe' = SubSeq(pipe, n + 1, Len(pipe))
    BY DEF Recv
  <1>3. unread \in Seq(WireBytes) /\ pipe \in Seq(WireBytes) /\ n \in 0..Len(pipe)
    BY <1>1 DEF WireTypes
  <1>4. MovesOn(WireBytes, unread, pipe, n)
    BY <1>3, MoveOn
  <1>5. /\ unread' \in Seq(WireBytes) /\ pipe' \in Seq(WireBytes)
        /\ unread' \o pipe' = unread \o pipe
    BY <1>2, <1>4 DEF MovesOn
  <1>6. UNCHANGED <<spc, sending, deferred, cansend, out, reply, cpc, nulLost>>
    BY DEF Recv
  <1>7. Stream' = Stream
    BY <1>5, <1>6 DEF Stream
  <1>8. Sound'
    BY <1>1, <1>6, <1>7, SameStream
  <1>9. Turn'
    BY <1>1, <1>6, <1>7 DEF Turn, ServersTurn, HandingOver, ClientsTurn, HandingBack, TurnsEnd,
                      OfKinds, AsksLast, None, CancelKinds, WorkKinds, LiveKinds, Working, Over
  <1>10. WireTypes' /\ FlagsAreRight'
    BY <1>1, <1>5, <1>6 DEF WireTypes, FlagsAreRight, Working, Over
  <1>11. QED BY <1>8, <1>9, <1>10 DEF WireInv

(* One write: of all that is left, of all but the NUL, or of the first     *)
(* byte alone.                                                             *)
LEMMA WrittenIs ==
    ASSUME NEW o \in Seq(WireBytes), Len(o) = 2 \/ Len(o) = 3, NEW n \in Written(o)
    PROVE  n \in 1..Len(o) /\ (n = Len(o) \/ n = Len(o) - 1 \/ (n = 1 /\ Len(o) = 3))
  <1>1. n \in 1..Len(o)
    BY DEF Written
  <1>2. CASE Len(o) = 2
    <2>1. n = 1 \/ n = 2
      BY <1>1, <1>2
    <2>2. QED BY <1>1, <1>2, <2>1
  <1>3. CASE Len(o) = 3
    <2>1. n = 1 \/ n = 2 \/ n = 3
      BY <1>1, <1>3
    <2>2. QED BY <1>1, <1>3, <2>1
  <1>4. QED BY <1>2, <1>3

LEMMA WriteStepKeeps ==
    ASSUME WireInv, Write
    PROVE  WireInv'
  <1>1. WireTypes /\ FlagsAreRight /\ Sound /\ Turn
    BY DEF WireInv
  <1>2. UNCHANGED <<deferred, cansend, reply, cpc, unread>>
    BY DEF Write, clientVars
  <1>3. PICK here \in {"progress", "write", "cancel"}, then \in {"loaded", "sent", "cancelled"} :
           /\ WriteStep(here, then)
           /\ <<here, then>> \in {<<"progress", "loaded">>, <<"write", "sent">>,
                                  <<"cancel", "cancelled">>}
    BY DEF Write
  <1>4. spc = here /\ (Len(out) = 2 \/ Len(out) = 3) /\ out[Len(out)] = Nul
        /\ (spc = "write" => out[Len(out) - 1] = Second("request"))
    BY <1>1, <1>3 DEF WriteStep, FlagsAreRight
  <1>5. PICK n \in Written(out) :
           /\ pipe' = pipe \o SubSeq(out, 1, n)
           /\ IF AllWritten(SubSeq(out, n + 1, Len(out)))
              THEN /\ out' = <<>> /\ sending' = sending - 1 /\ spc' = then
                   /\ nulLost' = (nulLost \/ SubSeq(out, n + 1, Len(out)) # <<>>)
              ELSE /\ out' = SubSeq(out, n + 1, Len(out))
                   /\ UNCHANGED <<sending, spc, nulLost>>
    BY <1>3 DEF WriteStep
  <1>6. unread \in Seq(WireBytes) /\ pipe \in Seq(WireBytes) /\ out \in Seq(WireBytes)
    BY <1>1 DEF WireTypes
  <1>7. n \in 1..Len(out) /\ (n = Len(out) \/ n = Len(out) - 1 \/ (n = 1 /\ Len(out) = 3))
    BY <1>4, <1>6, WrittenIs
  <1>8. n \in 0..Len(out) /\ n \in Nat
    BY <1>6, <1>7
  <1> DEFINE left == SubSeq(out, n + 1, Len(out))
  <1>9. /\ left \in Seq(WireBytes) /\ Len(left) = Len(out) - n
        /\ \A i \in 1..(Len(out) - n) : left[i] = out[n + i]
    BY <1>6, <1>8, RestAt
  <1>10. MovesOn(WireBytes, pipe, out, n)
    BY <1>6, <1>8, MoveOn
  <1>11. pipe' \in Seq(WireBytes) /\ pipe' \o left = pipe \o out
    BY <1>5, <1>10 DEF MovesOn
  <1>12. IF AllWritten(left)
         THEN /\ out' = <<>> /\ sending' = sending - 1 /\ spc' = then
              /\ nulLost' = (nulLost \/ left # <<>>)
         ELSE out' = left /\ UNCHANGED <<sending, spc, nulLost>>
    BY <1>5
  <1> HIDE DEF left
  <1>13. unread \o pipe' \in Seq(WireBytes) /\ (unread \o pipe') \o left = Stream
    <2>1. Associated(unread, pipe', left) /\ Associated(unread, pipe, out)
      BY <1>6, <1>9, <1>11, Associates
    <2>2. unread \o pipe' \in Seq(WireBytes)
      BY <1>6, <1>11, ConcatProperties
    <2>3. QED BY <1>11, <2>1, <2>2 DEF Associated, Stream
  <1> USE DEF Working, Over
  <1>14. ASSUME spc' = then
         PROVE  (spc \in Working => spc' \in Working) /\ (spc \in Over \cup {"write"} => spc' \in Over)
                /\ spc # "gone" /\ spc' # "gone"
    BY <1>3, <1>4, <1>14
  <1>15. CASE n = Len(out)
    <2>1. Len(left) = 0
      BY <1>8, <1>9, <1>15
    <2>2. left = <<>> /\ AllWritten(left)
      BY <1>9, <2>1, EmptySeq DEF AllWritten
    <2>3. out' = left /\ out' = <<>> /\ sending' = sending - 1 /\ spc' = then
          /\ nulLost' = nulLost
      BY <1>1, <1>12, <2>2 DEF WireTypes
    <2>4. Stream' = Stream
      BY <1>2, <1>13, <2>3 DEF Stream
    <2>5. Sound'
      BY <1>1, <2>3, <2>4, SameStream
    <2>6. Turn'
      BY <1>1, <1>2, <1>14, <2>3, <2>4 DEF Turn, ServersTurn, HandingOver, ClientsTurn,
                        HandingBack, TurnsEnd, OfKinds, AsksLast, None, CancelKinds, WorkKinds,
                        LiveKinds
    <2>7. WireTypes'
      BY <1>1, <1>2, <1>3, <1>11, <2>3 DEF WireTypes
    <2>8. FlagsAreRight'
      BY <1>1, <1>2, <1>3, <1>4, <2>3 DEF FlagsAreRight
    <2>9. QED BY <2>5, <2>6, <2>7, <2>8 DEF WireInv
  <1>16. CASE n = Len(out) - 1
    <2>1. Len(left) = 1 /\ left[1] = Nul
      <3>1. Len(out) - n = 1 /\ n + 1 = Len(out)
        BY <1>4, <1>16
      <3>2. QED BY <1>4, <1>9, <3>1
    <2>2. AllWritten(left) /\ left # <<>>
      BY <2>1 DEF AllWritten
    <2>3. out' = <<>> /\ sending' = sending - 1 /\ spc' = then /\ nulLost'
      BY <1>12, <2>2
    <2> DEFINE t == unread \o pipe'
    <2>4. t \in Seq(WireBytes) /\ Stream = t \o left
      BY <1>13
    <2>5. Stream' = t
      BY <1>2, <1>13, <2>3, ConcatEmptySeq DEF Stream
    <2> HIDE DEF t
    <2>6. Stream \in Seq(WireBytes) /\ Len(Stream) = Len(t) + Len(left)
          /\ (\A i \in 1..Len(t) : Stream[i] = t[i])
          /\ (\A i \in 1..Len(left) : Stream[Len(t) + i] = left[i])
      <3>1. Extends(t \o left, t, left)
        BY <1>9, <2>4, JoinExtends
      <3>2. Extends(Stream, t, left)
        BY <2>4, <3>1
      <3>3. QED BY <3>2 DEF Extends
    <2>7. LosesNul(t, Stream)
      <3>1. Len(t) \in Nat /\ Len(Stream) = Len(t) + 1 /\ 1 \in 1..Len(left)
        BY <2>1, <2>4, <2>6
      <3>2. Len(Stream) >= 1 /\ Len(t) = Len(Stream) - 1
        BY <3>1
      <3>3. Stream[Len(Stream)] = Nul
        BY <2>1, <2>6, <3>1
      <3>4. \A i \in 1..(Len(Stream) - 1) : t[i] = Stream[i]
        BY <2>6, <3>2
      <3>5. QED BY <2>4, <3>2, <3>3, <3>4 DEF LosesNul
    <2>8. Paired(t) /\ (AsksLast(Stream) => AsksLast(t))
      BY <1>1, <2>6, <2>7, WithoutNulIsPaired, WithoutNulAsksLast DEF Sound
    <2>9. /\ OfKinds(Stream, WorkKinds) => OfKinds(t, WorkKinds)
          /\ OfKinds(Stream, LiveKinds) => OfKinds(t, LiveKinds)
          /\ OfKinds(Stream, CancelKinds) => OfKinds(t, CancelKinds)
      BY <2>6, <2>7, WithoutNulOfKinds
    <2>10. Sound'
      BY <2>3, <2>5, <2>8, Zenon DEF Sound, Paired
    <2>11. Turn'
      BY <1>1, <1>2, <1>14, <2>3, <2>5, <2>8, <2>9 DEF Turn, ServersTurn, HandingOver,
                        ClientsTurn, HandingBack, TurnsEnd, OfKinds, AsksLast, None,
                        CancelKinds, WorkKinds, LiveKinds
    <2>12. WireTypes'
      BY <1>1, <1>2, <1>3, <1>5, <1>11, <2>3 DEF WireTypes
    <2>13. FlagsAreRight'
      BY <1>1, <1>2, <1>3, <1>4, <2>3 DEF FlagsAreRight
    <2>14. QED BY <2>10, <2>11, <2>12, <2>13 DEF WireInv
  <1>17. CASE n = 1 /\ Len(out) = 3
    <2>1. Len(left) = 2 /\ left[2] = out[3] /\ left[1] = out[2]
      BY <1>9, <1>17
    <2>2. ~AllWritten(left)
      BY <2>1 DEF AllWritten
    <2>3. out' = left /\ UNCHANGED <<sending, spc, nulLost>>
      BY <1>12, <2>2
    <2>4. Stream' = Stream
      BY <1>2, <1>13, <2>3 DEF Stream
    <2>5. Sound'
      BY <1>1, <2>3, <2>4, SameStream
    <2>6. Turn'
      BY <1>1, <1>2, <2>3, <2>4 DEF Turn, ServersTurn, HandingOver, ClientsTurn,
                        HandingBack, TurnsEnd, OfKinds, AsksLast, None, CancelKinds, WorkKinds,
                        LiveKinds
    <2>7. WireTypes'
      BY <1>1, <1>2, <1>9, <1>11, <2>3 DEF WireTypes
    <2>8. Len(out') = 2 /\ out'[Len(out')] = Nul
          /\ (spc' = "write" => out'[Len(out') - 1] = Second("request"))
      <3>1. Len(out') = 2 /\ out'[2] = out[3] /\ out'[1] = out[2] /\ spc' = spc
        BY <2>1, <2>3
      <3>2. out[3] = Nul /\ (spc = "write" => out[2] = Second("request"))
        BY <1>4, <1>17
      <3>3. QED BY <3>1, <3>2
    <2>9. FlagsAreRight'
      BY <1>1, <1>2, <1>3, <1>4, <2>3, <2>8 DEF FlagsAreRight
    <2>10. QED BY <2>5, <2>6, <2>7, <2>9 DEF WireInv
  <1>18. QED BY <1>7, <1>15, <1>16, <1>17

(* What stands before the first NUL leaves the front of the stream.        *)
LEMMA TakingSteps ==
    ASSUME WireInv, Receive \/ CheckSocket
    PROVE  WireInv'
  <1>1. WireTypes /\ FlagsAreRight /\ Sound /\ Turn
    BY DEF WireInv
  <1>2. /\ EndOfMessage # 0 /\ unread' = SubSeq(unread, EndOfMessage + 1, Len(unread))
        /\ UNCHANGED <<spc, sending, deferred, cansend, out, pipe, reply, stale, nulLost>>
        /\ (cpc = "waiting" /\ Received(Parsed)) \/ (cpc = "checking" /\ Checked(Parsed))
    BY DEF Receive, CheckSocket, TakeMessage
  <1>3. PICK n : n = EndOfMessage
    OBVIOUS
  <1>4. PICK kind : kind = Parsed
    OBVIOUS
  <1>5. /\ n \in 1..Len(unread)
        /\ LosesFront((SubSeq(unread, n + 1, Len(unread)) \o pipe) \o out, Stream, n)
        /\ \/ kind = None
           \/ /\ kind \in Kinds /\ n = 3 /\ Stream[1] = First(kind) /\ Stream[2] = Second(kind)
    <2>1. /\ EndOfMessage \in 1..Len(unread)
          /\ LosesFront((SubSeq(unread, EndOfMessage + 1, Len(unread)) \o pipe) \o out,
                        Stream, EndOfMessage)
          /\ \/ Parsed = None
             \/ /\ Parsed \in Kinds /\ EndOfMessage = 3
                /\ Stream[1] = First(Parsed) /\ Stream[2] = Second(Parsed)
      BY <1>1, <1>2, FirstMessage
    <2>2. QED BY <1>3, <1>4, <2>1, Zenon
  <1>6. Stream' = (SubSeq(unread, n + 1, Len(unread)) \o pipe) \o out
    BY <1>2, <1>3 DEF Stream
  <1>7. LosesFront(Stream', Stream, n)
    BY <1>5, <1>6
  <1>8. Stream \in Seq(WireBytes)
    BY <1>1, ConcatProperties DEF WireTypes, Stream
  <1>9. Sound'
    <2>1. Paired(Stream')
      BY <1>1, <1>7, <1>8, RestIsPaired DEF Sound
    <2>2. ASSUME ~nulLost' PROVE Parted(Stream')
      <3>1. Parted(Stream)
        BY <1>1, <1>2, <2>2 DEF Sound
      <3>2. QED BY <1>7, <1>8, <3>1, RestIsParted
    <2>3. QED BY <2>1, <2>2, Zenon DEF Sound, Paired, Parted
  <1>10. /\ OfKinds(Stream, WorkKinds) => OfKinds(Stream', WorkKinds)
         /\ OfKinds(Stream, LiveKinds) => OfKinds(Stream', LiveKinds)
         /\ OfKinds(Stream, CancelKinds) => OfKinds(Stream', CancelKinds)
    BY <1>7, <1>8, RestOfKinds
  <1>11. AsksLast(Stream) => AsksLast(Stream')
    BY <1>7, <1>8, RestAsksLast
  <1>12. WireTypes' /\ FlagsAreRight'
    <2>1. SubSeq(unread, n + 1, Len(unread)) \in Seq(WireBytes)
      <3>1. unread \in Seq(WireBytes) /\ n \in 0..Len(unread)
        BY <1>1, <1>5 DEF WireTypes
      <3>2. QED BY <3>1, RestAt
    <2>2. QED BY <1>1, <1>2, <1>3, <2>1 DEF WireTypes, FlagsAreRight
  <1>13. 1 \in 1..Len(Stream) /\ (kind # None => Kind(Stream[1]) = kind /\ Opens(Stream[1]))
    <2>1. n \in 1..Len(Stream) /\ Len(Stream) \in Nat
      BY <1>7, <1>8 DEF LosesFront
    <2>2. 1 \in 1..Len(Stream)
      BY <2>1
    <2>3. QED BY <1>5, <2>2, FirstIs
  <1> USE DEF Working, Over
  <1>14. UNCHANGED <<spc, reply>> /\ (cpc = "waiting" => Received(kind))
         /\ (cpc = "checking" => Checked(kind)) /\ cpc \in {"waiting", "checking"}
    BY <1>2, <1>4
  <1>15. CASE ServersTurn
    <2>1. kind \notin {"request", "server_error"}
      BY <1>13, <1>15 DEF ServersTurn, OfKinds, WorkKinds, None
    <2>2. cpc' = "waiting"
      BY <1>14, <1>15, <2>1 DEF ServersTurn, Received
    <2>3. ServersTurn'
      BY <1>10, <1>14, <1>15, <2>2 DEF ServersTurn, OfKinds, WorkKinds, None
    <2>4. QED BY <1>9, <1>12, <2>3 DEF WireInv, Turn
  <1>16. CASE HandingOver
    <2>1. cpc = "waiting" /\ reply = None /\ spc \in Over \cup {"write"} /\ Received(kind)
          /\ AsksLast(Stream) /\ (spc # "gone" => OfKinds(Stream, LiveKinds))
      BY <1>14, <1>16 DEF HandingOver
    <2>2. CASE kind \in {"request", "server_error"}
      <3>1. kind # None /\ kind \in Kinds /\ n = 3 /\ kind \notin WorkKinds
        BY <1>5, <2>2 DEF None, WorkKinds
      <3>2. OfKinds(Stream', CancelKinds)
        <4>1. LosesFront(Stream', Stream, 3)
          BY <1>7, <3>1
        <4>2. Opens(Stream[1]) /\ Kind(Stream[1]) \notin WorkKinds
          BY <1>13, <3>1
        <4>3. QED BY <1>8, <2>1, <4>1, <4>2, RestOfAsked
      <3>3. CASE kind = "server_error"
        <4>1. Kind(Stream[1]) = "server_error"
          BY <1>13, <3>1, <3>3
        <4>2. spc = "gone"
          BY <1>13, <2>1, <4>1 DEF OfKinds, LiveKinds
        <4>3. cpc' = "error"
          BY <2>1, <3>3 DEF Received
        <4>4. QED BY <1>9, <1>12, <1>14, <4>2, <4>3 DEF WireInv, Turn, TurnsEnd
      <3>4. CASE kind = "request" /\ spc # "write"
        <4>1. cpc' = "prompting"
          BY <2>1, <3>4 DEF Received
        <4>2. ClientsTurn'
          BY <1>14, <2>1, <3>2, <3>4, <4>1 DEF ClientsTurn, OfKinds, CancelKinds, None
        <4>3. QED BY <1>9, <1>12, <4>2 DEF WireInv, Turn
      <3>5. ~(kind = "request" /\ spc = "write")
        <4>1. SUFFICES ASSUME kind = "request", spc = "write" PROVE FALSE
          OBVIOUS
        <4>2. (Len(out) = 2 \/ Len(out) = 3) /\ out[Len(out) - 1] = Second("request")
          BY <1>1, <4>1 DEF FlagsAreRight
        <4>3. /\ unread \in Seq(WireBytes) /\ pipe \in Seq(WireBytes) /\ out \in Seq(WireBytes)
              /\ unread \o pipe \in Seq(WireBytes)
              /\ Len(unread \o pipe) = Len(unread) + Len(pipe) /\ Len(unread) >= 3
          BY <1>1, <1>5, <3>1, ConcatProperties DEF WireTypes
        <4> DEFINE u == unread \o pipe
        <4>4. Len(u) \in Nat /\ Len(u) >= 3
          BY <4>3
        <4>5. Stream = u \o out /\ u \in Seq(WireBytes)
          BY <4>3 DEF Stream
        <4> HIDE DEF u
        <4>6. Extends(Stream, u, out)
          BY <4>3, <4>5, JoinExtends
        <4>7. Stream[Len(u) + (Len(out) - 1)] = Second("request")
          <5>1. Len(out) - 1 \in 1..Len(out)
            <6>1. CASE Len(out) = 2
              BY <6>1
            <6>2. CASE Len(out) = 3
              BY <6>2
            <6>3. QED BY <4>2, <6>1, <6>2
          <5>2. QED BY <4>2, <4>6, <5>1 DEF Extends
        <4>8. Len(u) + (Len(out) - 1) \in (1 + 2)..Len(Stream)
          <5>1. Len(Stream) = Len(u) + Len(out)
            BY <4>6 DEF Extends
          <5>2. QED BY <4>2, <4>4, <5>1
        <4>9. Opens(Stream[1]) /\ Kind(Stream[1]) \notin WorkKinds
          BY <1>13, <3>1
        <4>10. Kind(Second("request")) \in CancelKinds
          BY <1>13, <2>1, <4>7, <4>8, <4>9 DEF AsksLast
        <4>11. Kind(Second("request")) = "request"
          BY DEF Kind, Second
        <4>12. QED BY <4>10, <4>11 DEF CancelKinds
      <3>6. QED BY <2>2, <3>3, <3>4, <3>5
    <2>3. CASE kind \notin {"request", "server_error"}
      <3>1. cpc' = "waiting"
        BY <2>1, <2>3 DEF Received
      <3>2. HandingOver'
        BY <1>10, <1>11, <1>14, <2>1, <3>1 DEF HandingOver, OfKinds, AsksLast, None, LiveKinds,
                                              WorkKinds, CancelKinds
      <3>3. QED BY <1>9, <1>12, <3>2 DEF WireInv, Turn
    <2>4. QED BY <2>2, <2>3
  <1>17. CASE ClientsTurn \/ HandingBack
    <2>1. kind = None \/ kind = "server_cancel"
      <3>1. ASSUME kind # None PROVE kind = "server_cancel"
        <4>1. kind \in Kinds /\ Kind(Stream[1]) = kind
          BY <1>5, <1>13, <3>1
        <4>2. Kind(Stream[1]) \in CancelKinds
          BY <1>13, <1>17 DEF ClientsTurn, HandingBack, OfKinds
        <4>3. QED BY <4>1, <4>2 DEF CancelKinds, Kinds
      <3>2. QED BY <3>1
    <2>2. CASE ClientsTurn
      <3>1. cpc' \in {"prompting", "checking"}
        BY <1>14, <2>1, <2>2 DEF ClientsTurn, Checked, None
      <3>2. ClientsTurn'
        BY <1>10, <1>14, <2>2, <3>1 DEF ClientsTurn, OfKinds, CancelKinds, None
      <3>3. QED BY <1>9, <1>12, <3>2 DEF WireInv, Turn
    <2>3. CASE HandingBack
      <3>1. cpc' = "waiting"
        BY <1>14, <2>1, <2>3 DEF HandingBack, Received, None
      <3>2. HandingBack'
        BY <1>10, <1>14, <2>3, <3>1 DEF HandingBack, OfKinds, CancelKinds, None
      <3>3. QED BY <1>9, <1>12, <3>2 DEF WireInv, Turn
    <2>4. QED BY <1>17, <2>2, <2>3
  <1>18. ~TurnsEnd
    BY <1>14 DEF TurnsEnd
  <1>19. QED BY <1>1, <1>15, <1>16, <1>17, <1>18 DEF Turn

-----------------------------------------------------------------------------
(* The theorems.                                                           *)

(* Nothing is on the wire when the command starts.                         *)
LEMMA WireInvInit == WireInit => WireInv
  <1> SUFFICES ASSUME WireInit PROVE WireInv
    OBVIOUS
  <1>1. Stream = <<>>
    BY ConcatEmptySeq DEF WireInit, Stream
  <1>2. Sound /\ OfKinds(Stream, CancelKinds)
    BY <1>1 DEF Sound, Paired, Parted, OfKinds
  <1>3. Turn
    BY <1>2 DEF WireInit, HandingBack, Turn, Over, None
  <1>4. WireTypes /\ FlagsAreRight
    <2>1. <<>> \in Seq(WireBytes)
      OBVIOUS
    <2>2. WireTypes
      BY <2>1 DEF WireInit, WireTypes, Working, Over
    <2>3. FlagsAreRight
      BY DEF WireInit, FlagsAreRight, Working
    <2>4. QED BY <2>2, <2>3
  <1>5. QED BY <1>2, <1>3, <1>4 DEF WireInv

(* Every step keeps what is beside what, and whose turn it is.             *)
LEMMA WireInvStep ==
    ASSUME WireInv, [WireNext]_wireVars
    PROVE  WireInv'
  <1>1. CASE UNCHANGED wireVars
    <2>1. UNCHANGED <<spc, sending, deferred, cansend, out, pipe, unread, cpc, reply, nulLost>>
      BY <1>1 DEF wireVars
    <2>2. WireTypes /\ FlagsAreRight /\ Sound /\ Turn /\ Stream' = Stream
      BY <2>1 DEF WireInv, Stream
    <2>3. WireTypes' /\ FlagsAreRight'
      BY <2>1, <2>2 DEF WireTypes, FlagsAreRight
    <2>4. Sound'
      BY <2>1, <2>2, SameStream
    <2>5. Turn'
      BY <2>1, <2>2 DEF Turn, ServersTurn, HandingOver, ClientsTurn, HandingBack, TurnsEnd,
                        OfKinds, AsksLast
    <2>6. QED BY <2>3, <2>4, <2>5 DEF WireInv
  <1>2. CASE ReadInput \/ ClientMsg \/ NoMoreSending \/ ClearDeferred
    <2>1. UNCHANGED <<unread, pipe, out, nulLost>>
      BY <1>2 DEF ReadInput, ClientMsg, NoMoreSending, ClearDeferred, clientVars
    <2>2. QED BY <1>2, <2>1, QuietSteps
  <1>3. CASE SocketReadable \/ Answer \/ AnswerCancelled
    <2>1. UNCHANGED <<unread, pipe, out, nulLost>>
      BY <1>3 DEF SocketReadable, Answer, AnswerCancelled, Reply
    <2>2. QED BY <1>3, <2>1, QuietSteps
  <1>4. CASE LoadProgress \/ SendReply \/ CheckDeferred
    BY <1>4, SendingSteps
  <1>5. CASE LogChanged
    BY <1>5, CancelStep
  <1>6. CASE ExitClient
    BY <1>6, FarewellStep
  <1>7. CASE Write
    BY <1>7, WriteStepKeeps
  <1>8. CASE Recv
    BY <1>8, RecvStep
  <1>9. CASE Receive \/ CheckSocket
    BY <1>9, TakingSteps
  <1>10. QED BY <1>1, <1>2, <1>3, <1>4, <1>5, <1>6, <1>7, <1>8, <1>9
             DEF WireNext, ServerStep, ClientStep

(* Wherever the writes of the server stop, the halves of a message stand   *)
(* side by side on their way, and the messages are the ones that the turn  *)
(* of the server or of the client allows.                                  *)
THEOREM WireInvariance == WireSpec => []WireInv
  <1>1. WireInv /\ [WireNext]_wireVars => WireInv'
    BY WireInvStep
  <1>2. QED BY <1>1, WireInvInit, PTL DEF WireSpec

(* However signals interrupt the server, no message is ever inside another *)
(* (currently_sending_message does what it is for), and every message is   *)
(* followed by its NUL, until a write stops just before one.               *)
THEOREM MessagesStayWholeAlways == WireSpec => []MessagesStayWhole
  <1>1. WireInv => MessagesStayWhole
    <2> SUFFICES ASSUME WireInv PROVE MessagesStayWhole
      OBVIOUS
    <2>1. Paired(Stream) /\ (~nulLost => Parted(Stream))
      BY DEF WireInv, Sound
    <2>2. QED BY <2>1, Zenon DEF MessagesStayWhole, Paired, Parted, Opens, Closes, Kind, First,
                                 Second
  <1>2. QED BY <1>1, WireInvariance, PTL

(* The client is never shown, at a prompt, a message it did not ask for:   *)
(* the two ends agree whose turn it is (can_send_msg), even when messages  *)
(* run into each other.                                                    *)
THEOREM NothingComesOutOfTurn == WireSpec => []NothingOutOfTurn
  <1>1. WireInv => NothingOutOfTurn
    BY DEF WireInv, Turn, ServersTurn, HandingOver, ClientsTurn, HandingBack, TurnsEnd,
           NothingOutOfTurn
  <1>2. QED BY <1>1, WireInvariance, PTL

-----------------------------------------------------------------------------
(* The calls of the client, and reconnection.                              *)

Keys == MenuCalls \cup NestedCalls \cup {"answer"}
Frame == [name : MenuCalls \cup NestedCalls, key : Keys, retry : Nat,
          pc : {"send", "recv", "callback"}, ex : BOOLEAN, pg : BOOLEAN]

(* A frame at depth k: the outermost call comes from a menu and is the     *)
(* only one that can have filled playgame_jmp_buf; it sends its own name   *)
(* first and then answers.                                                 *)
Good(f, k) ==
    /\ f \in Frame
    /\ f.name \in (IF k = 1 THEN MenuCalls ELSE NestedCalls)
    /\ f.key \in {f.name, "answer"}
    /\ f.pg => k = 1 /\ f.name = "play_game"

(* A frame that there is only while a game is played.                      *)
InGame(f) == f.pc = "callback" \/ f.key \notin MenuCalls

StackIsGood ==
    /\ stack \in Seq(Frame)
    /\ \A k \in 1..Len(stack) :
          /\ Good(stack[k], k)
          /\ k < Len(stack) => stack[k].pc = "callback"
          /\ InGame(stack[k]) => pgValid

(* What the server process waits for.                                      *)
Awaited(key) ==
    /\ srv = "top"  => key \in MenuCalls
    /\ srv = "asks" => key \in Keys \ MenuCalls

(* What it may have replied to the key.                                    *)
ReplyTo(key) ==
    \/ toClient = <<>>
    \/ toClient = <<"create_game">>  /\ key = "create_game"          /\ srv # "asks"
    \/ toClient = <<"play_game">>    /\ key # "create_game"          /\ srv # "asks"
    \/ toClient = <<"question">>     /\ key \in {"play_game", "answer"} /\ srv # "top"
    \/ toClient = <<"get_commands">> /\ key = "get_commands"         /\ srv # "top"
    \/ toClient = <<"server_error">> /\ srv = "gone"

(* The turns of the two ends, as far as a connection is in use.            *)
TurnOf(f) ==
    /\ f.pc = "send" => toServer = <<>> /\ toClient = <<>> /\ Awaited(f.key)
    /\ f.pc = "callback" => toServer = <<>> /\ toClient = <<>> /\ srv # "top"
    /\ f.pc = "recv" => \/ toServer = <<f.key>> /\ toClient = <<>> /\ Awaited(f.key)
                        \/ toServer = <<>> /\ ReplyTo(f.key)

TurnsAgree == stack # <<>> => TurnOf(Current)
IdleIsClean == stack = <<>> /\ netActive /\ ~connErr =>
                  toServer = <<>> /\ toClient = <<>> /\ srv # "asks"

(* A message on its way is one the server waits for, even if the client    *)
(* has given up the connection since.                                      *)
ServerIsServed == toServer = <<>> \/ \E key \in Keys : toServer = <<key>> /\ Awaited(key)

SequenceInv ==
    /\ StackIsGood /\ TurnsAgree /\ IdleIsClean /\ ServerIsServed
    /\ srv \in {"top", "asks", "gone"}
    /\ ~confused

-----------------------------------------------------------------------------
(* Maximum of the one home that a jump to play_game can find.              *)
LEMMA MaxOne == Max({1}) = 1
BY DEF Max

(* A jump to play_game leaves no call behind.                              *)
LEMMA JumpLeaves ==
    ASSUME NEW s \in Seq(Frame), \A k \in 1..Len(s) : s[k].pg => k = 1, JumpToPlayGame(s)
    PROVE  stack' = <<>> /\ pgValid' = FALSE
<1> DEFINE homes == {k \in DOMAIN s : s[k].pg}
           last  == Max(homes \cup {1})
<1>1. homes \cup {1} = {1}
  OBVIOUS
<1>2. last = 1
  BY <1>1, MaxOne
<1>3. stack' = SubSeq(s, 1, last - 1) /\ pgValid' = FALSE
  BY DEF JumpToPlayGame
<1> HIDE DEF last
<1>4. SubSeq(s, 1, last - 1) = <<>>
  BY <1>2
<1> QED
  BY <1>3, <1>4

(* Neither does an error.                                                  *)
LEMMA FailsLeaves == Fails => stack' = <<>>
BY DEF Fails, OnStack

(* An error leaves no call and no game, and is remembered in conn_err.     *)
LEMMA ErrorLeaves == Error => stack' = <<>> /\ connErr' = TRUE /\ pgValid' = FALSE
BY FailsLeaves DEF Error

(* Replacing the innermost frame.                                          *)
LEMMA Placed ==
    ASSUME stack \in Seq(Frame), stack # <<>>, NEW f \in Frame
    PROVE  /\ InPlace(f) \in Seq(Frame) /\ Len(InPlace(f)) = Len(stack)
           /\ InPlace(f)[Len(stack)] = f
           /\ \A k \in 1..Len(stack) : k # Len(stack) => InPlace(f)[k] = stack[k]
BY DEF InPlace

(* ... keeps the stack good, if the new frame is.                          *)
LEMMA PlacedIsGood ==
    ASSUME StackIsGood, stack # <<>>, NEW f, Good(f, Len(stack)),
           stack' = InPlace(f), pgValid => pgValid', InGame(f) => pgValid'
    PROVE  StackIsGood' /\ stack' # <<>> /\ Current' = f
<1>1. f \in Frame
  BY DEF Good
<1>2. stack \in Seq(Frame)
  BY DEF StackIsGood
<1>3. Len(stack) \in Nat \ {0}
  BY <1>2
<1>4. stack' \in Seq(Frame) /\ Len(stack') = Len(stack) /\ stack'[Len(stack)] = f
  BY <1>1, <1>2, Placed
<1>5. ASSUME NEW k \in 1..Len(stack'), k # Len(stack) PROVE stack'[k] = stack[k]
  BY <1>1, <1>2, <1>4, <1>5, Placed
<1>6. ASSUME NEW k \in 1..Len(stack')
      PROVE  /\ Good(stack'[k], k)
             /\ k < Len(stack') => stack'[k].pc = "callback"
             /\ InGame(stack'[k]) => pgValid'
  <2>1. CASE k = Len(stack)
    BY <2>1, <1>4
  <2>2. CASE k # Len(stack)
    BY <2>2, <1>4, <1>5 DEF StackIsGood
  <2> QED
    BY <2>1, <2>2
<1>7. stack' # <<>> /\ Current' = f
  BY <1>3, <1>4 DEF Current
<1> QED
  BY <1>4, <1>6, <1>7 DEF StackIsGood, Good, InGame

(* What the invariant says of the innermost frame.                         *)
LEMMA Innermost ==
    ASSUME StackIsGood, stack # <<>>
    PROVE  /\ Len(stack) \in Nat \ {0} /\ stack \in Seq(Frame)
           /\ Current = stack[Len(stack)] /\ Current \in Frame
           /\ Good(Current, Len(stack))
           /\ InGame(Current) => pgValid
<1>1. stack \in Seq(Frame)
  BY DEF StackIsGood
<1>2. Len(stack) \in Nat \ {0}
  BY <1>1
<1>3. Len(stack) \in 1..Len(stack)
  BY <1>2
<1>4. Good(Current, Len(stack)) /\ (InGame(Current) => pgValid)
  BY <1>3 DEF StackIsGood, Current
<1>5. QED
  BY <1>1, <1>2, <1>4 DEF Current, Good

(* The stack and the connection after a jump to play_game: idle, and clean *)
(* if the connection was.                                                  *)
LEMMA JumpIsGood ==
    ASSUME NEW s \in Seq(Frame), \A k \in 1..Len(s) : s[k].pg => k = 1, JumpToPlayGame(s),
           toServer' = <<>>, toClient' = <<>>, srv' # "asks"
    PROVE  StackIsGood' /\ TurnsAgree' /\ IdleIsClean'
<1>1. stack' = <<>> /\ pgValid' = FALSE
  BY JumpLeaves
<1>2. StackIsGood'
  BY <1>1 DEF StackIsGood
<1> QED
  BY <1>1, <1>2 DEF TurnsAgree, IdleIsClean

(* An error leaves nothing behind that is used.                            *)
LEMMA ErrorIsGood ==
    ASSUME Error
    PROVE  StackIsGood' /\ TurnsAgree' /\ IdleIsClean'
<1>1. stack' = <<>> /\ connErr'
  BY ErrorLeaves
<1>2. StackIsGood'
  BY <1>1 DEF StackIsGood
<1> QED
  BY <1>1, <1>2 DEF TurnsAgree, IdleIsClean

(* Only the outermost frame can have filled playgame_jmp_buf, whichever    *)
(* frame takes the place of the innermost.                                 *)
LEMMA OneHome ==
    ASSUME StackIsGood, stack # <<>>, NEW f, Good(f, Len(stack))
    PROVE  /\ InPlace(f) \in Seq(Frame)
           /\ \A k \in 1..Len(InPlace(f)) : InPlace(f)[k].pg => k = 1
<1>1. stack \in Seq(Frame) /\ f \in Frame /\ (f.pg => Len(stack) = 1)
  BY DEF StackIsGood, Good
<1>2. \A k \in 1..Len(stack) : stack[k].pg => k = 1
  BY DEF StackIsGood, Good
<1> QED
  BY <1>1, <1>2, Placed

(* The innermost call stays good when the first message after play_game    *)
(* marks it as the home of playgame_jmp_buf.                               *)
LEMMA AnsweredIsGood ==
    ASSUME StackIsGood, stack # <<>>
    PROVE  /\ Good(Answered(Current), Len(stack))
           /\ \A f \in {"send", "recv", "callback"} :
                Good([Answered(Current) EXCEPT !.pc = f], Len(stack))
<1>1. Current \in Frame /\ Good(Current, Len(stack)) /\ Len(stack) \in Nat \ {0}
  BY Innermost
<1>2. Current.key = "play_game" => Len(stack) = 1
  BY <1>1 DEF Good, MenuCalls, NestedCalls
<1> QED
  BY <1>1, <1>2 DEF Answered, Good, Frame

(* The invariant at the start.                                             *)
LEMMA SequenceStart == RecInit => SequenceInv
BY DEF RecInit, SequenceInv, StackIsGood, TurnsAgree, IdleIsClean, ServerIsServed

-----------------------------------------------------------------------------
(* Connections that break.                                                 *)

(* restart_connection succeeds, for an innermost call that either is       *)
(* resumed or is jumped over.                                              *)
LEMMA RestartsIsGood ==
    ASSUME SequenceInv, stack # <<>>, NEW f, Good(f, Len(stack)), f.key = Current.key,
           f.pc \in {"send", Current.pc}, Current.pc = "callback" \/ f.pc = "send", Restarts(f)
    PROVE  StackIsGood' /\ TurnsAgree' /\ IdleIsClean' /\ ServerIsServed' /\ srv' = "top"
<1>1. Reconnected
  BY DEF Restarts
<1>2. toServer' = <<>> /\ toClient' = <<>> /\ srv' = "top"
  BY <1>1 DEF Reconnected
<1>3. StackIsGood /\ (InGame(Current) => pgValid)
  BY Innermost DEF SequenceInv
<1>4. CASE pgValid
  <2>1. JumpToPlayGame(stack)
    BY <1>4 DEF Restarts
  <2>2. stack \in Seq(Frame) /\ \A k \in 1..Len(stack) : stack[k].pg => k = 1
    BY <1>3 DEF StackIsGood, Good
  <2> QED
    BY <1>2, <2>1, <2>2, JumpIsGood DEF ServerIsServed
<1>5. CASE ~pgValid
  <2>1. stack' = InPlace(f) /\ pgValid' = pgValid
    BY <1>5 DEF Restarts
  <2>2. ~InGame(Current)
    BY <1>3, <1>5
  <2>3. ~InGame(f) /\ f.pc = "send" /\ f.key \in MenuCalls
    BY <2>2 DEF InGame
  <2>4. StackIsGood' /\ stack' # <<>> /\ Current' = f
    BY <1>3, <2>1, <2>3, PlacedIsGood
  <2>5. TurnsAgree'
    BY <1>2, <2>3, <2>4 DEF TurnsAgree, TurnOf, Awaited
  <2> QED
    BY <1>2, <2>4, <2>5 DEF IdleIsClean, ServerIsServed
<1> QED
  BY <1>4, <1>5

(* Losing the connection keeps the invariant.                              *)
LEMMA LoseConnectionStep == SequenceInv /\ LoseConnection => SequenceInv'
<1> SUFFICES ASSUME SequenceInv, LoseConnection PROVE SequenceInv'
  OBVIOUS
<1>1. stack # <<>> /\ Current.pc # "callback" /\ ~confused'
  BY DEF LoseConnection, Running, SequenceInv
<1>2. StackIsGood /\ Current \in Frame /\ Good(Current, Len(stack))
  BY <1>1, Innermost DEF SequenceInv
<1>3. CASE Error /\ UNCHANGED linkVars
  BY <1>1, <1>3, ErrorIsGood DEF SequenceInv, linkVars, ServerIsServed, Awaited
<1>4. CASE (NotReached \/ AuthFails) /\ Error
  <2>1. srv' = "gone" /\ toServer' = <<>>
    BY <1>4 DEF NotReached, AuthFails
  <2> QED
    BY <1>1, <1>4, <2>1, ErrorIsGood DEF SequenceInv, ServerIsServed
<1>5. CASE Current.retry # 0 /\ Restarts([Current EXCEPT !.retry = @ - 1, !.pc = "send"])
  <2> DEFINE f == [Current EXCEPT !.retry = @ - 1, !.pc = "send"]
  <2>1. Current.retry - 1 \in Nat
    BY <1>2, <1>5 DEF Frame
  <2>2. Good(f, Len(stack)) /\ f.key = Current.key /\ f.pc = "send"
    BY <1>2, <2>1 DEF Good, Frame
  <2> HIDE DEF f
  <2>3. StackIsGood' /\ TurnsAgree' /\ IdleIsClean' /\ ServerIsServed' /\ srv' = "top"
    BY <1>1, <1>5, <2>2, RestartsIsGood DEF f
  <2> QED
    BY <1>1, <2>3 DEF SequenceInv
<1> QED
  BY <1>3, <1>4, <1>5 DEF LoseConnection, AuthFails

(* Noticing that the connection is gone keeps it.                          *)
LEMMA CheckSocketFdStep == SequenceInv /\ CheckSocketFd => SequenceInv'
<1> SUFFICES ASSUME SequenceInv, CheckSocketFd PROVE SequenceInv'
  OBVIOUS
<1>1. stack # <<>> /\ Current.pc = "callback" /\ ~confused'
  BY DEF CheckSocketFd, Running, SequenceInv
<1>2. StackIsGood /\ Good(Current, Len(stack))
  BY <1>1, Innermost DEF SequenceInv
<1>3. CASE (NotReached \/ AuthFails) /\ Error
  <2>1. srv' = "gone" /\ toServer' = <<>>
    BY <1>3 DEF NotReached, AuthFails
  <2> QED
    BY <1>1, <1>3, <2>1, ErrorIsGood DEF SequenceInv, ServerIsServed
<1>4. CASE Restarts(Current)
  <2>1. StackIsGood' /\ TurnsAgree' /\ IdleIsClean' /\ ServerIsServed' /\ srv' = "top"
    BY <1>1, <1>2, <1>4, RestartsIsGood
  <2> QED
    BY <1>1, <2>1 DEF SequenceInv
<1> QED
  BY <1>3, <1>4 DEF CheckSocketFd, AuthFails

(* An error from the server keeps it.                                      *)
LEMMA ReceiveServerErrorStep == SequenceInv /\ ReceiveServerError => SequenceInv'
<1> SUFFICES ASSUME SequenceInv, ReceiveServerError PROVE SequenceInv'
  OBVIOUS
<1> DEFINE inGame == pgValid \/ Current.key = "play_game"
<1>1. stack # <<>> /\ Current.pc = "recv" /\ ~confused'
  BY DEF ReceiveServerError, Running, SequenceInv
<1>2. /\ StackIsGood /\ Current \in Frame /\ Good(Current, Len(stack))
      /\ InGame(Current) => pgValid
  BY <1>1, Innermost DEF SequenceInv
<1>3. CASE Reconnected /\ JumpToPlayGame(InPlace(Answered(Current)))
  <2>1. Good(Answered(Current), Len(stack))
    BY <1>1, <1>2, AnsweredIsGood
  <2>2. /\ InPlace(Answered(Current)) \in Seq(Frame)
        /\ \A k \in 1..Len(InPlace(Answered(Current))) :
              InPlace(Answered(Current))[k].pg => k = 1
    BY <1>1, <1>2, <2>1, OneHome
  <2>3. toServer' = <<>> /\ toClient' = <<>> /\ srv' = "top"
    BY <1>3 DEF Reconnected
  <2>4. StackIsGood' /\ TurnsAgree' /\ IdleIsClean'
    BY <1>3, <2>2, <2>3, JumpIsGood
  <2> QED
    BY <1>1, <2>3, <2>4 DEF SequenceInv, ServerIsServed
<1>4. CASE /\ ~inGame /\ Current.retry > 0 /\ Reconnected
           /\ stack' = InPlace([Current EXCEPT !.retry = @ - 1, !.pc = "send"])
           /\ UNCHANGED <<exValid, pgValid, lost, faults>>
  <2> DEFINE f == [Current EXCEPT !.retry = @ - 1, !.pc = "send"]
  <2>1. Current.retry - 1 \in Nat
    BY <1>2, <1>4 DEF Frame
  <2>2. Good(f, Len(stack)) /\ f.key = Current.key /\ f.pc = "send"
    BY <1>2, <2>1 DEF Good, Frame
  <2>3. f.key \in MenuCalls
    BY <1>2, <1>4, <2>2 DEF InGame
  <2>4. toServer' = <<>> /\ toClient' = <<>> /\ srv' = "top"
    BY <1>4 DEF Reconnected
  <2>5. stack' = InPlace(f)
    BY <1>4
  <2> HIDE DEF f
  <2>6. StackIsGood' /\ stack' # <<>> /\ Current' = f
    BY <1>1, <1>2, <1>4, <2>2, <2>3, <2>5, PlacedIsGood DEF InGame
  <2>7. TurnsAgree'
    BY <2>2, <2>3, <2>4, <2>6 DEF TurnsAgree, TurnOf, Awaited
  <2> QED
    BY <1>1, <2>4, <2>6, <2>7 DEF SequenceInv, IdleIsClean, ServerIsServed
<1>5. CASE Error /\ UNCHANGED linkVars
  BY <1>1, <1>5, ErrorIsGood DEF SequenceInv, linkVars, ServerIsServed, Awaited
<1>6. CASE (NotReached \/ AuthFails) /\ Error
  <2>1. srv' = "gone" /\ toServer' = <<>>
    BY <1>6 DEF NotReached, AuthFails
  <2> QED
    BY <1>1, <1>6, <2>1, ErrorIsGood DEF SequenceInv, ServerIsServed
<1>7. CASE NotReached /\ Fails
  <2>1. srv' = "gone" /\ toServer' = <<>> /\ netActive' = FALSE
    BY <1>7 DEF NotReached
  <2>2. stack' = <<>>
    BY <1>7, FailsLeaves
  <2>3. StackIsGood'
    BY <2>2 DEF StackIsGood
  <2> QED
    BY <1>1, <2>1, <2>2, <2>3 DEF SequenceInv, TurnsAgree, IdleIsClean, ServerIsServed
<1> QED
  BY <1>3, <1>4, <1>5, <1>6, <1>7 DEF ReceiveServerError, AuthFails

(* A command of the user that plays a game keeps it.                       *)
LEMMA NetGameStep == SequenceInv /\ NetGame => SequenceInv'
BY DEF SequenceInv, NetGame, Reconnected, StackIsGood, TurnsAgree, IdleIsClean, ServerIsServed

-----------------------------------------------------------------------------
(* The calls of the client.                                                *)

(* Entering a function of the client library keeps it.                     *)
LEMMA ApiEntryStep ==
    ASSUME SequenceInv, NEW name \in MenuCalls \cup NestedCalls, ApiEntry(name)
    PROVE  SequenceInv'
<1> DEFINE f == Call(name, exValid = 0)
<1>1. f \in Frame /\ f.name = name /\ f.key = name /\ f.pc = "send" /\ ~f.pg
  BY DEF Call, Frame, Keys
<1> HIDE DEF f
<1>2. /\ stack' = Append(stack, f) /\ pgValid' = pgValid /\ netActive /\ ~connErr
      /\ srv' = srv /\ toServer' = toServer /\ toClient' = toClient /\ confused' = confused
  BY DEF ApiEntry, linkVars, f
<1>3. stack \in Seq(Frame) /\ StackIsGood
  BY DEF SequenceInv, StackIsGood
<1>4. /\ stack' \in Seq(Frame) /\ stack' # <<>> /\ Len(stack') = Len(stack) + 1
      /\ Len(stack) \in Nat /\ stack'[Len(stack) + 1] = f
      /\ \A k \in 1..Len(stack) : stack'[k] = stack[k]
  BY <1>1, <1>2, <1>3
<1>5. /\ stack = <<>> => name \in MenuCalls /\ Len(stack) = 0
      /\ stack # <<>> => /\ name \in NestedCalls /\ Current.pc = "callback" /\ pgValid
                        /\ Len(stack) # 0
                        /\ toServer = <<>> /\ toClient = <<>> /\ srv # "top"
  <2>1. CASE stack = <<>>
    BY <2>1 DEF ApiEntry
  <2>2. CASE stack # <<>>
    <3>1. name \in NestedCalls /\ Current.pc = "callback"
      BY <2>2 DEF ApiEntry, Running
    <3>2. Len(stack) # 0 /\ pgValid
      BY <2>2, <1>3, <3>1, Innermost DEF InGame
    <3>3. TurnOf(Current)
      BY <2>2 DEF SequenceInv, TurnsAgree
    <3> QED
      BY <2>2, <3>1, <3>2, <3>3 DEF TurnOf
  <2> QED
    BY <2>1, <2>2
<1>6. ASSUME NEW k \in 1..Len(stack')
      PROVE  /\ Good(stack'[k], k)
             /\ k < Len(stack') => stack'[k].pc = "callback"
             /\ InGame(stack'[k]) => pgValid'
  <2>1. CASE k = Len(stack) + 1
    BY <2>1, <1>1, <1>2, <1>4, <1>5 DEF Good, InGame
  <2>2. CASE k = Len(stack) /\ k # Len(stack) + 1
    <3>1. k \in 1..Len(stack) /\ stack # <<>> /\ stack'[k] = Current
      BY <1>4, <2>2 DEF Current
    <3> QED
      BY <1>2, <1>3, <1>5, <3>1 DEF StackIsGood, Current
  <2>3. CASE k < Len(stack)
    <3>1. k \in 1..Len(stack) /\ stack'[k] = stack[k]
      BY <1>4, <2>3
    <3> QED
      BY <1>2, <1>3, <2>3, <3>1 DEF StackIsGood
  <2> QED
    BY <1>4, <2>1, <2>2, <2>3
<1>7. StackIsGood'
  BY <1>4, <1>6 DEF StackIsGood, Good, InGame
<1>8. Current' = f
  BY <1>4 DEF Current
<1>9. toServer = <<>> /\ toClient = <<>> /\ Awaited(f.key)
  BY <1>1, <1>2, <1>5 DEF SequenceInv, IdleIsClean, Awaited, Keys, MenuCalls, NestedCalls
<1>10. TurnsAgree'
  BY <1>1, <1>2, <1>8, <1>9 DEF TurnsAgree, TurnOf, Awaited
<1> QED
  BY <1>2, <1>4, <1>7, <1>9, <1>10 DEF SequenceInv, IdleIsClean, ServerIsServed

(* Sending a request keeps it.                                             *)
LEMMA SendStep == SequenceInv /\ Send => SequenceInv'
<1> SUFFICES ASSUME SequenceInv, Send PROVE SequenceInv'
  OBVIOUS
<1> DEFINE f == [Current EXCEPT !.pc = "recv"]
<1>1. stack # <<>> /\ Current.pc = "send" /\ stack' = InPlace(f)
  BY DEF Send, Running
<1>2. /\ pgValid' = pgValid /\ srv' = srv /\ toClient' = toClient /\ ~confused'
      /\ toServer' = IF srv = "gone" THEN <<>> ELSE <<Current.key>>
  BY DEF Send, SequenceInv
<1>3. /\ StackIsGood /\ Current \in Frame /\ Good(Current, Len(stack))
      /\ InGame(Current) => pgValid
  BY <1>1, Innermost DEF SequenceInv
<1>4. /\ Good(f, Len(stack)) /\ (InGame(f) => pgValid)
      /\ f.pc = "recv" /\ f.key = Current.key /\ f.key \in Keys
  BY <1>3 DEF Good, Frame, InGame
<1> HIDE DEF f
<1>5. StackIsGood' /\ stack' # <<>> /\ Current' = f
  BY <1>1, <1>2, <1>3, <1>4, PlacedIsGood
<1>6. toClient = <<>> /\ Awaited(Current.key)
  BY <1>1 DEF SequenceInv, TurnsAgree, TurnOf
<1>7. TurnsAgree' /\ ServerIsServed'
  BY <1>2, <1>4, <1>5, <1>6 DEF TurnsAgree, TurnOf, ReplyTo, Awaited, ServerIsServed
<1> QED
  BY <1>2, <1>5, <1>7 DEF SequenceInv, IdleIsClean

(* Answering a question of the server keeps it.                            *)
LEMMA AnswerQuestionStep == SequenceInv /\ AnswerQuestion => SequenceInv'
<1> SUFFICES ASSUME SequenceInv, AnswerQuestion PROVE SequenceInv'
  OBVIOUS
<1> DEFINE f == [Current EXCEPT !.pc = "send", !.key = "answer"]
<1>1. stack # <<>> /\ Current.pc = "callback" /\ stack' = InPlace(f)
  BY DEF AnswerQuestion, Running
<1>2. /\ pgValid' = pgValid /\ srv' = srv /\ toClient' = toClient /\ toServer' = toServer
      /\ ~confused'
  BY DEF AnswerQuestion, SequenceInv, linkVars
<1>3. StackIsGood /\ Current \in Frame /\ Good(Current, Len(stack)) /\ pgValid
  BY <1>1, Innermost DEF SequenceInv, InGame
<1>4. Good(f, Len(stack)) /\ f.pc = "send" /\ f.key = "answer"
  BY <1>3 DEF Good, Frame, Keys
<1> HIDE DEF f
<1>5. StackIsGood' /\ stack' # <<>> /\ Current' = f
  BY <1>1, <1>2, <1>3, <1>4, PlacedIsGood
<1>6. toServer = <<>> /\ toClient = <<>> /\ srv # "top"
  BY <1>1 DEF SequenceInv, TurnsAgree, TurnOf
<1>7. TurnsAgree'
  BY <1>2, <1>4, <1>5, <1>6 DEF TurnsAgree, TurnOf, Awaited, Keys, MenuCalls, NestedCalls
<1> QED
  BY <1>2, <1>5, <1>6, <1>7 DEF SequenceInv, IdleIsClean, ServerIsServed

(* A message that is received was the reply to what was sent.              *)
LEMMA ReplyReceived ==
    ASSUME SequenceInv, NEW said, Receives(said)
    PROVE  /\ stack # <<>> /\ Current.pc = "recv"
           /\ toClient = <<said>> /\ ReplyTo(Current.key) /\ toServer = <<>>
           /\ toServer' = <<>> /\ toClient' = <<>> /\ srv' = srv /\ ~confused'
<1>1. stack # <<>> /\ Current.pc = "recv" /\ toClient # <<>> /\ said = Head(toClient)
  BY DEF Receives, Running
<1>2. toServer = <<>> /\ ReplyTo(Current.key)
  BY <1>1 DEF SequenceInv, TurnsAgree, TurnOf
<1>3. toClient = <<said>>
  BY <1>1, <1>2 DEF ReplyTo
<1> QED
  BY <1>1, <1>2, <1>3 DEF Receives, SequenceInv

(* The answer to play_game keeps it.                                       *)
LEMMA ReceivePlayGameStep == SequenceInv /\ ReceivePlayGame => SequenceInv'
<1> SUFFICES ASSUME SequenceInv, ReceivePlayGame PROVE SequenceInv'
  OBVIOUS
<1>1. Receives("play_game") /\ JumpToPlayGame(InPlace(Answered(Current)))
  BY DEF ReceivePlayGame
<1>2. /\ stack # <<>> /\ toServer' = <<>> /\ toClient' = <<>> /\ srv' = srv /\ ~confused'
      /\ srv # "asks"
  BY <1>1, ReplyReceived DEF ReplyTo
<1>3. Good(Answered(Current), Len(stack))
  BY <1>2, AnsweredIsGood DEF SequenceInv
<1>4. /\ InPlace(Answered(Current)) \in Seq(Frame)
      /\ \A k \in 1..Len(InPlace(Answered(Current))) : InPlace(Answered(Current))[k].pg => k = 1
  BY <1>2, <1>3, OneHome DEF SequenceInv
<1>5. StackIsGood' /\ TurnsAgree' /\ IdleIsClean'
  BY <1>1, <1>2, <1>4, JumpIsGood
<1> QED
  BY <1>2, <1>5 DEF SequenceInv, ServerIsServed

(* A question of the server keeps it.                                      *)
LEMMA ReceiveQuestionStep == SequenceInv /\ ReceiveQuestion => SequenceInv'
<1> SUFFICES ASSUME SequenceInv, ReceiveQuestion PROVE SequenceInv'
  OBVIOUS
<1> DEFINE f == [Answered(Current) EXCEPT !.pc = "callback"]
<1>1. /\ Receives("question") /\ stack' = InPlace(f)
      /\ pgValid' = (pgValid \/ Current.key = "play_game")
  BY DEF ReceiveQuestion
<1>2. /\ stack # <<>> /\ toServer' = <<>> /\ toClient' = <<>> /\ srv' = srv /\ ~confused'
      /\ srv # "top" /\ Current.key \in {"play_game", "answer"}
  BY <1>1, ReplyReceived DEF ReplyTo
<1>3. StackIsGood /\ Current \in Frame /\ (InGame(Current) => pgValid)
  BY <1>2, Innermost DEF SequenceInv
<1>4. Good(f, Len(stack)) /\ f.pc = "callback"
  <2>1. Answered(Current) \in Frame
    BY <1>3 DEF Answered, Frame
  <2> QED
    BY <1>2, <1>3, <2>1, AnsweredIsGood DEF Frame
<1>5. pgValid'
  BY <1>1, <1>2, <1>3 DEF InGame, MenuCalls
<1> HIDE DEF f
<1>6. StackIsGood' /\ stack' # <<>> /\ Current' = f
  BY <1>1, <1>2, <1>3, <1>4, <1>5, PlacedIsGood
<1>7. TurnsAgree'
  BY <1>2, <1>4, <1>6 DEF TurnsAgree, TurnOf
<1> QED
  BY <1>2, <1>6, <1>7 DEF SequenceInv, IdleIsClean, ServerIsServed

(* An answer to any other request keeps it.                                *)
LEMMA ReceiveReplyStep ==
    ASSUME SequenceInv, NEW name \in MenuCalls \cup NestedCalls, ReceiveReply(name)
    PROVE  SequenceInv'
<1>1. /\ Receives(name) /\ name # "play_game" /\ Current.name = name
      /\ stack' = Front(stack) /\ pgValid' = pgValid
  BY DEF ReceiveReply
<1>2. /\ stack # <<>> /\ toServer' = <<>> /\ toClient' = <<>> /\ srv' = srv /\ ~confused'
      /\ \/ name = "create_game" /\ srv # "asks"
         \/ name = "get_commands" /\ srv # "top"
  BY <1>1, ReplyReceived DEF ReplyTo, MenuCalls, NestedCalls
<1>3. StackIsGood /\ stack \in Seq(Frame) /\ Len(stack) \in Nat \ {0} /\ Good(Current, Len(stack))
  BY <1>2, Innermost DEF SequenceInv
<1>4. /\ stack' \in Seq(Frame) /\ Len(stack') = Len(stack) - 1
      /\ \A k \in 1..(Len(stack) - 1) : stack'[k] = stack[k]
  <2>1. stack' = SubSeq(stack, 1, Len(stack) - 1)
    BY <1>1 DEF Front
  <2> DEFINE n == Len(stack) - 1
  <2>2. n \in Nat /\ n <= Len(stack)
    BY <1>3
  <2> HIDE DEF n
  <2>3. SubSeq(stack, 1, n) \in Seq(Frame)
    BY <1>3, <2>2
  <2>4. Len(SubSeq(stack, 1, n)) = n
    BY <1>3, <2>2
  <2>5. \A k \in 1..n : SubSeq(stack, 1, n)[k] = stack[k]
    BY <1>3, <2>2
  <2> QED
    BY <2>1, <2>3, <2>4, <2>5 DEF n
<1>5. StackIsGood'
  <2>1. ASSUME NEW k \in 1..Len(stack')
        PROVE  /\ Good(stack'[k], k) /\ stack'[k].pc = "callback"
               /\ InGame(stack'[k]) => pgValid'
    BY <1>1, <1>3, <1>4 DEF StackIsGood
  <2> QED
    BY <1>4, <2>1 DEF StackIsGood, Good, InGame
<1>6. CASE name = "create_game"
  <2>1. Len(stack) = 1 /\ srv # "asks"
    BY <1>1, <1>2, <1>3, <1>6 DEF Good, NestedCalls
  <2>2. stack' = <<>>
    BY <1>4, <2>1
  <2> QED
    BY <1>2, <1>5, <2>1, <2>2 DEF SequenceInv, TurnsAgree, IdleIsClean, ServerIsServed
<1>7. CASE name = "get_commands"
  <2>1. Len(stack) # 1 /\ srv # "top"
    BY <1>1, <1>2, <1>3, <1>7 DEF Good, MenuCalls
  <2>2. stack' # <<>> /\ Current' = stack[Len(stack) - 1]
    BY <1>3, <1>4, <2>1 DEF Current
  <2>3. Current'.pc = "callback"
    <3> DEFINE n == Len(stack)
    <3>1. n \in Nat \ {0} /\ n # 1
      BY <1>3, <2>1
    <3> HIDE DEF n
    <3>2. n - 1 \in 1..n /\ n - 1 < n
      BY <3>1
    <3>3. stack[n - 1].pc = "callback"
      BY <1>3, <3>2 DEF StackIsGood, n
    <3> QED
      BY <2>2, <3>3 DEF n
  <2>4. TurnsAgree'
    BY <1>2, <2>1, <2>3 DEF TurnsAgree, TurnOf
  <2> QED
    BY <1>2, <1>5, <2>2, <2>4 DEF SequenceInv, IdleIsClean, ServerIsServed
<1> QED
  BY <1>2, <1>6, <1>7

-----------------------------------------------------------------------------
(* The server process.                                                     *)

(* What it says is a reply to what it was sent.                            *)
LEMMA SaysIsGood ==
    ASSUME SequenceInv, NEW key \in Keys, toServer = <<key>>, NEW said, NEW next,
           Says(said, next), next \in {"top", "asks"},
           \/ said = "create_game" /\ key = "create_game" /\ next = "top"
           \/ said = "play_game" /\ key # "create_game" /\ next = "top"
           \/ said = "question" /\ key \in {"play_game", "answer"} /\ next = "asks"
           \/ said = "get_commands" /\ key = "get_commands" /\ next = "asks",
           ~confused'
    PROVE  SequenceInv'
<1>1. /\ toServer' = <<>> /\ toClient' = <<said>> /\ srv' = next
      /\ stack' = stack /\ pgValid' = pgValid /\ netActive' = netActive /\ connErr' = connErr
  BY DEF Says
<1>2. StackIsGood'
  BY <1>1 DEF SequenceInv, StackIsGood, InGame, Good
<1>3. TurnsAgree'
  <2> SUFFICES ASSUME stack # <<>> PROVE TurnOf(Current)'
    BY <1>1 DEF TurnsAgree
  <2>1. TurnOf(Current) /\ Current' = Current
    BY <1>1 DEF SequenceInv, TurnsAgree, Current
  <2>2. Current.pc \notin {"send", "callback"}
    BY <2>1 DEF TurnOf
  <2>3. Current.pc = "recv" => Current.key = key
    BY <2>1 DEF TurnOf
  <2>4. Current.pc = "recv" => ReplyTo(Current.key)'
    BY <1>1, <2>1, <2>3 DEF ReplyTo
  <2> QED
    BY <1>1, <2>1, <2>2, <2>4 DEF TurnOf, ReplyTo
<1>4. IdleIsClean'
  BY <1>1 DEF SequenceInv, IdleIsClean
<1> QED
  BY <1>1, <1>2, <1>3, <1>4 DEF SequenceInv, ServerIsServed

(* The server's handling of a command keeps it.                            *)
LEMMA ServeCommandStep == SequenceInv /\ ServeCommand => SequenceInv'
<1> SUFFICES ASSUME SequenceInv, ServeCommand PROVE SequenceInv'
  OBVIOUS
<1>1. PICK key \in Keys : toServer = <<key>> /\ key \in MenuCalls
  BY DEF SequenceInv, ServeCommand, ServerIsServed, Awaited
<1>2. Head(toServer) = key
  BY <1>1
<1>3. CASE key = "create_game"
  <2>1. Says("create_game", "top") /\ ~confused'
    BY <1>2, <1>3 DEF ServeCommand, SequenceInv
  <2> QED
    BY <1>1, <1>3, <2>1, SaysIsGood
<1>4. CASE key = "play_game"
  <2>1. (Says("question", "asks") \/ Says("play_game", "top")) /\ ~confused'
    BY <1>2, <1>4 DEF ServeCommand, SequenceInv
  <2> QED
    BY <1>1, <1>4, <2>1, SaysIsGood
<1> QED
  BY <1>1, <1>3, <1>4 DEF MenuCalls

(* A question asked by the server keeps it.                                *)
LEMMA ServeQuestionStep == SequenceInv /\ ServeQuestion => SequenceInv'
<1> SUFFICES ASSUME SequenceInv, ServeQuestion PROVE SequenceInv'
  OBVIOUS
<1>1. PICK key \in Keys : toServer = <<key>> /\ key \in {"answer", "exit_game", "get_commands"}
  BY DEF SequenceInv, ServeQuestion, ServerIsServed, Awaited, Keys, NestedCalls
<1>2. Head(toServer) = key
  BY <1>1
<1>3. CASE key = "answer"
  <2>1. (Says("question", "asks") \/ Says("play_game", "top")) /\ ~confused'
    BY <1>2, <1>3 DEF ServeQuestion, SequenceInv
  <2> QED
    BY <1>1, <1>3, <2>1, SaysIsGood
<1>4. CASE key = "exit_game"
  <2>1. Says("play_game", "top") /\ ~confused'
    BY <1>2, <1>4 DEF ServeQuestion, SequenceInv
  <2> QED
    BY <1>1, <1>4, <2>1, SaysIsGood
<1>5. CASE key = "get_commands"
  <2>1. Says("get_commands", "asks") /\ ~confused'
    BY <1>2, <1>5 DEF ServeQuestion, SequenceInv
  <2> QED
    BY <1>1, <1>5, <2>1, SaysIsGood
<1> QED
  BY <1>1, <1>3, <1>4, <1>5

(* A server process that goes away keeps it.                               *)
LEMMA ServerGoesStep == SequenceInv /\ ServerGoes => SequenceInv'
<1> SUFFICES ASSUME SequenceInv, ServerGoes PROVE SequenceInv'
  OBVIOUS
<1>1. /\ toServer' = <<>> /\ srv' = "gone" /\ ~confused'
      /\ stack' = stack /\ pgValid' = pgValid /\ netActive' = netActive /\ connErr' = connErr
      /\ toClient' \in {toClient, <<>>} \/ (toServer # <<>> /\ toClient' = <<"server_error">>)
  BY DEF ServerGoes, SequenceInv
<1>2. StackIsGood'
  BY <1>1 DEF SequenceInv, StackIsGood, InGame, Good
<1>3. TurnsAgree'
  <2> SUFFICES ASSUME stack # <<>> PROVE TurnOf(Current)'
    BY <1>1 DEF TurnsAgree
  <2>1. TurnOf(Current) /\ Current' = Current
    BY <1>1 DEF SequenceInv, TurnsAgree, Current
  <2>2. Current.pc = "send" => TurnOf(Current)'
    BY <1>1, <2>1 DEF TurnOf, Awaited
  <2>3. Current.pc = "callback" => TurnOf(Current)'
    BY <1>1, <2>1 DEF TurnOf
  <2>4. Current.pc = "recv" => ReplyTo(Current.key)'
    BY <1>1, <2>1 DEF TurnOf, ReplyTo
  <2> QED
    BY <1>1, <2>1, <2>2, <2>3, <2>4 DEF TurnOf
<1>4. IdleIsClean'
  BY <1>1 DEF SequenceInv, IdleIsClean
<1> QED
  BY <1>1, <1>2, <1>3, <1>4 DEF SequenceInv, ServerIsServed

-----------------------------------------------------------------------------
(* Every step keeps it.                                                    *)
LEMMA SequenceStep == SequenceInv /\ [RecNext]_recVars => SequenceInv'
<1> SUFFICES ASSUME SequenceInv, [RecNext]_recVars PROVE SequenceInv'
  OBVIOUS
<1>1. CASE UNCHANGED recVars
  BY <1>1 DEF recVars, SequenceInv, StackIsGood, Good, InGame, TurnsAgree, TurnOf, Current,
              Awaited, ReplyTo, IdleIsClean, ServerIsServed
<1> QED
  BY <1>1, ApiEntryStep, ReceiveReplyStep, SendStep, AnswerQuestionStep, ReceivePlayGameStep,
     ReceiveQuestionStep, ReceiveServerErrorStep, LoseConnectionStep, CheckSocketFdStep,
     NetGameStep, ServeCommandStep, ServeQuestionStep, ServerGoesStep DEF RecNext

(* However often connections break, time out or fail to open, in the       *)
(* middle of a command, of a question or of a call within a question: no   *)
(* process of the server is sent anything but what it waits for.           *)
THEOREM InSequence == RecSpec => []NothingOutOfSequence
<1>1. SequenceInv => NothingOutOfSequence
  BY DEF SequenceInv, NothingOutOfSequence
<1> QED
  BY <1>1, SequenceStart, SequenceStep, PTL DEF RecSpec

-----------------------------------------------------------------------------
(* As long as the server can be reached, every way out of the frame that   *)
(* filled playgame_jmp_buf also takes the mark away.                       *)
JumpInv == pgValid => stack # <<>> /\ stack[1].pg

(* A new innermost frame that has filled the buffer if the old one had.    *)
LEMMA PlacedIsLive ==
    ASSUME StackIsGood, JumpInv, stack # <<>>, NEW f \in Frame, Current.pg => f.pg,
           stack' = InPlace(f), pgValid' => pgValid
    PROVE  JumpInv'
<1>1. stack \in Seq(Frame) /\ Len(stack) \in Nat \ {0} /\ Current = stack[Len(stack)]
  BY Innermost
<1>2. Len(stack') = Len(stack) /\ stack' \in Seq(Frame) /\ stack'[Len(stack)] = f
  BY <1>1, Placed
<1>3. Len(stack) # 1 => stack'[1] = stack[1]
  <2> SUFFICES ASSUME Len(stack) # 1 PROVE stack'[1] = stack[1]
    OBVIOUS
  <2>1. 1 \in 1..Len(stack)
    BY <1>1
  <2> QED
    BY <1>1, <2>1, Placed
<1> QED
  BY <1>1, <1>2, <1>3 DEF JumpInv

(* A jump to play_game, an error, and a restart outside a game.            *)
LEMMA UnmarkedIsLive == ASSUME pgValid' = FALSE PROVE JumpInv'
BY DEF JumpInv

(* Restarting the connection leaves playgame_jmp_buf on the stack, or not  *)
(* valid.                                                                  *)
LEMMA RestartsIsLive ==
    ASSUME StackIsGood, NEW f, Restarts(f)
    PROVE  JumpInv'
<1>1. CASE pgValid
  BY <1>1, UnmarkedIsLive DEF Restarts, JumpToPlayGame
<1>2. CASE ~pgValid
  BY <1>2 DEF Restarts, JumpInv
<1> QED
  BY <1>1, <1>2

(* As long as connections can be made, every step keeps playgame_jmp_buf   *)
(* on the stack while it is valid.                                         *)
LEMMA JumpStep ==
    ASSUME Unreachable = FALSE, SequenceInv, JumpInv, [RecNext]_recVars
    PROVE  JumpInv'
<1> USE DEF SequenceInv
<1>1. CASE UNCHANGED recVars
  BY <1>1 DEF recVars, JumpInv
<1>2. ASSUME NEW name \in MenuCalls \cup NestedCalls, ApiEntry(name) PROVE JumpInv'
  <2>1. stack' = Append(stack, Call(name, exValid = 0)) /\ pgValid' = pgValid
    BY <1>2 DEF ApiEntry
  <2>2. stack \in Seq(Frame)
    BY DEF StackIsGood
  <2>3. Call(name, exValid = 0) \in Frame
    BY DEF Call, Frame, Keys
  <2>4. stack # <<>> => stack' # <<>> /\ stack'[1] = stack[1]
    BY <2>1, <2>2, <2>3
  <2> QED
    BY <2>1, <2>4 DEF JumpInv
<1>3. ASSUME NEW name \in MenuCalls \cup NestedCalls, ReceiveReply(name) PROVE JumpInv'
  <2>1. stack' = SubSeq(stack, 1, Len(stack) - 1) /\ pgValid' = pgValid
    BY <1>3 DEF ReceiveReply, Front
  <2>2. stack # <<>> /\ Current.name = name /\ name # "play_game"
    BY <1>3 DEF ReceiveReply, Receives, Running
  <2>3. /\ stack \in Seq(Frame) /\ Len(stack) \in Nat \ {0} /\ Current = stack[Len(stack)]
        /\ Good(Current, Len(stack))
    BY <2>2, Innermost
  <2>4. Current.pg = FALSE
    BY <2>2, <2>3 DEF Good, Frame
  <2>5. CASE Len(stack) = 1
    BY <2>1, <2>3, <2>4, <2>5 DEF JumpInv
  <2>6. CASE Len(stack) # 1
    <3> DEFINE n == Len(stack) - 1
    <3>1. n \in Nat \ {0} /\ n <= Len(stack)
      BY <2>3, <2>6
    <3> HIDE DEF n
    <3>2. SubSeq(stack, 1, n) # <<>> /\ SubSeq(stack, 1, n)[1] = stack[1]
      BY <2>3, <3>1
    <3> QED
      BY <2>1, <3>2 DEF JumpInv, n
  <2> QED
    BY <2>5, <2>6
<1>4. CASE Send
  <2> DEFINE f == [Current EXCEPT !.pc = "recv"]
  <2>1. stack # <<>> /\ stack' = InPlace(f) /\ pgValid' = pgValid
    BY <1>4 DEF Send, Running
  <2>2. Current \in Frame
    BY <2>1, Innermost
  <2>3. f \in Frame /\ f.pg = Current.pg
    BY <2>2 DEF Frame
  <2> HIDE DEF f
  <2> QED
    BY <2>1, <2>3, PlacedIsLive
<1>5. CASE AnswerQuestion
  <2> DEFINE f == [Current EXCEPT !.pc = "send", !.key = "answer"]
  <2>1. stack # <<>> /\ stack' = InPlace(f) /\ pgValid' = pgValid
    BY <1>5 DEF AnswerQuestion, Running
  <2>2. Current \in Frame
    BY <2>1, Innermost
  <2>3. f \in Frame /\ f.pg = Current.pg
    BY <2>2 DEF Frame, Keys
  <2> HIDE DEF f
  <2> QED
    BY <2>1, <2>3, PlacedIsLive
<1>6. CASE ReceivePlayGame
  BY <1>6, UnmarkedIsLive DEF ReceivePlayGame, JumpToPlayGame
<1>7. CASE ReceiveQuestion
  <2> DEFINE f == [Answered(Current) EXCEPT !.pc = "callback"]
  <2>1. /\ stack # <<>> /\ stack' = InPlace(f)
        /\ pgValid' = (pgValid \/ Current.key = "play_game")
    BY <1>7 DEF ReceiveQuestion, Receives, Running
  <2>2. Current \in Frame /\ Good(Current, Len(stack)) /\ Len(stack) \in Nat \ {0}
    BY <2>1, Innermost
  <2>3. f \in Frame /\ (Current.pg => f.pg) /\ (Current.key = "play_game" => f.pg)
    BY <2>2 DEF Answered, Frame
  <2> HIDE DEF f
  <2>4. CASE Current.key = "play_game"
    <3>1. Len(stack) = 1
      BY <2>2, <2>4 DEF Good, MenuCalls, NestedCalls
    <3>2. stack' \in Seq(Frame) /\ Len(stack') = 1 /\ stack'[1] = f
      BY <2>1, <2>3, <3>1, Placed DEF StackIsGood
    <3> QED
      BY <2>3, <2>4, <3>2 DEF JumpInv
  <2>5. CASE Current.key # "play_game"
    BY <2>1, <2>3, <2>5, PlacedIsLive
  <2> QED
    BY <2>4, <2>5
<1>8. CASE ReceiveServerError
  <2>1. CASE JumpToPlayGame(InPlace(Answered(Current)))
    BY <2>1, UnmarkedIsLive DEF JumpToPlayGame
  <2>2. CASE ~pgValid /\ pgValid' = pgValid
    BY <2>2 DEF JumpInv
  <2>3. CASE Error
    BY <2>3, UnmarkedIsLive DEF Error
  <2>4. ~NotReached
    BY DEF NotReached
  <2> QED
    BY <1>8, <2>1, <2>2, <2>3, <2>4 DEF ReceiveServerError, AuthFails
<1>9. CASE LoseConnection
  <2>1. CASE Error
    BY <2>1, UnmarkedIsLive DEF Error
  <2>2. CASE Restarts([Current EXCEPT !.retry = @ - 1, !.pc = "send"])
    BY <2>2, RestartsIsLive
  <2> QED
    BY <1>9, <2>1, <2>2 DEF LoseConnection, AuthFails
<1>10. CASE CheckSocketFd
  BY <1>10, RestartsIsLive, UnmarkedIsLive DEF CheckSocketFd, Error, AuthFails
<1>11. CASE NetGame \/ ServerGoes
  BY <1>11 DEF NetGame, ServerGoes, JumpInv
<1>12. CASE ServeCommand \/ ServeQuestion
  BY <1>12 DEF ServeCommand, ServeQuestion, Says, JumpInv
<1> QED
  BY <1>1, <1>2, <1>3, <1>4, <1>5, <1>6, <1>7, <1>8, <1>9, <1>10, <1>11, <1>12 DEF RecNext

(* While the server can be reached, playgame_jmp_buf_valid is only set     *)
(* while a frame that filled the buffer is on the call stack: a longjmp to *)
(* it never goes to a function that has returned.                          *)
THEOREM JumpBufIsLive ==
    ASSUME Unreachable = FALSE PROVE RecSpec => []PlaygameJmpBufIsLive
<1>1. RecInit => SequenceInv /\ JumpInv
  BY SequenceStart DEF RecInit, JumpInv
<1>2. SequenceInv /\ JumpInv /\ [RecNext]_recVars => (SequenceInv /\ JumpInv)'
  BY SequenceStep, JumpStep
<1>3. SequenceInv /\ JumpInv => PlaygameJmpBufIsLive
  <2> SUFFICES ASSUME SequenceInv, JumpInv, pgValid PROVE OnStack(LAMBDA f : f.pg)
    BY DEF PlaygameJmpBufIsLive
  <2>1. 1 \in DOMAIN stack /\ stack[1].pg
    BY DEF SequenceInv, StackIsGood, JumpInv
  <2> QED
    BY <2>1 DEF OnStack
<1> QED
  BY <1>1, <1>2, <1>3, PTL DEF RecSpec

=============================================================================
