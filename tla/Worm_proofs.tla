----------------------------- MODULE Worm_proofs -----------------------------
(***************************************************************************)
(* For levels of every size and shape, every number of monsters and of     *)
(* slots, and worms of every length: the map, the lists of segments and    *)
(* the monsters tell of the same worms.  The only assumption is that       *)
(* nobody stands at x = 0, which is what toss_wsegs relies on to know a    *)
(* segment that was never placed.                                          *)
(*                                                                         *)
(* The argument.  An operation touches the worms of a few monsters only.   *)
(* If it leaves no entry in the map for them but at their new bodies, and  *)
(* gives no list to two of them, it disturbs nobody else (WormsChange); so *)
(* each operation is looked at for its own monsters alone.  That what it   *)
(* takes off the map is theirs depends on a list never passing twice over  *)
(* one square, as long as no tail was cut short (Straight).                *)
(***************************************************************************)
EXTENDS Worm, SequenceTheorems, FiniteSetTheorems, WellFoundedInduction, TLAPS

Here(m) == fate[m] = "here"

WormTypes ==
    /\ monsters \in [Squares -> Beasts \cup {NoBeast}]
    /\ pos \in [Beasts -> Squares \cup {Colno}]
    /\ fate \in [Beasts -> {"here", "migrating", "gone"}]
    /\ longWorms \subseteq Beasts
    /\ wormno \in [Beasts -> Nat]
    /\ wsegs \in [Slots -> Seq(Squares)]
    /\ cramped \in BOOLEAN

(* A monster on the level has a place; if it has a list, it is a long worm *)
(* and its head is on the last segment.                                    *)
HeadsArePlaced ==
    \A m \in Beasts : Here(m) =>
        /\ pos[m] \in Squares
        /\ wormno[m] # 0 => /\ m \in longWorms
                            /\ wormno[m] \in Slots /\ wsegs[wormno[m]] # <<>>
                            /\ Last(wsegs[wormno[m]]) = pos[m]

(* No list belongs to two monsters, or to none.                            *)
ListsAreOwned ==
    /\ \A m, c \in Beasts :
          Here(m) /\ Here(c) /\ wormno[m] = wormno[c] /\ wormno[m] # 0 => m = c
    /\ \A n \in Slots : wsegs[n] # <<>> => \E m \in Beasts : Here(m) /\ wormno[m] = n

OnMap == \A m \in Beasts : Here(m) => \A s \in Body(m) : monsters[s] = m

Straight == \A n \in Slots : IsInjective(wsegs[n])

WormInv ==
    /\ WormTypes /\ HeadsArePlaced /\ ListsAreOwned /\ MapIsBacked
    /\ ~cramped => OnMap /\ Straight

-----------------------------------------------------------------------------
(* Lists of squares.                                                       *)

(* A list of squares holds squares.                                        *)
LEMMA RangeFacts ==
    ASSUME NEW S, NEW l \in Seq(S)
    PROVE  Range(l) \subseteq S
<1>1. DOMAIN l = 1 .. Len(l) /\ \A i \in 1 .. Len(l) : l[i] \in S
  OBVIOUS
<1>2. QED
  BY <1>1 DEF Range

(* The last of them is one of them.                                        *)
LEMMA LastFacts ==
    ASSUME NEW S
    PROVE  \A l \in Seq(S) : l # <<>> => Last(l) \in Range(l)
<1>1. ASSUME NEW l \in Seq(S), l # <<>> PROVE Last(l) \in Range(l)
  <2>1. Len(l) \in DOMAIN l
    BY <1>1
  <2>2. QED
    BY <2>1 DEF Last, Range
<1>2. QED
  BY <1>1

(* The squares of a list with one more at its end.                         *)
LEMMA AppendFacts ==
    ASSUME NEW S, NEW l \in Seq(S), NEW x \in S
    PROVE  /\ Append(l, x) \in Seq(S) /\ Append(l, x) # <<>>
           /\ Last(Append(l, x)) = x
           /\ Range(Append(l, x)) = Range(l) \cup {x}
           /\ IsInjective(l) /\ x \notin Range(l) => IsInjective(Append(l, x))
<1>1. PICK a \in Seq(S) : a = Append(l, x)
  <2>1. Append(l, x) \in Seq(S)
    OBVIOUS
  <2>2. QED
    BY <2>1, Zenon
<1>2. PICK n \in Nat : n = Len(l)
  OBVIOUS
<1>3. Len(a) = n + 1 /\ a[n + 1] = x /\ \A i \in 1 .. n : a[i] = l[i]
  <2>1. /\ Len(Append(l, x)) = Len(l) + 1
        /\ Append(l, x)[Len(l) + 1] = x
        /\ \A i \in 1 .. Len(l) : Append(l, x)[i] = l[i]
    OBVIOUS
  <2>2. QED
    BY <1>1, <1>2, <2>1, Zenon
<1>4. DOMAIN a = 1 .. (n + 1) /\ DOMAIN l = 1 .. n
  BY <1>2, <1>3
<1>5. a # <<>>
  BY <1>3
<1>6. Last(a) = x
  BY <1>3 DEF Last
<1>7. \A i : i \in 1 .. (n + 1) <=> i \in 1 .. n \/ i = n + 1
  OBVIOUS
<1>8. Range(a) = Range(l) \cup {x}
  BY <1>3, <1>4, <1>7 DEF Range
<1>9. IsInjective(l) /\ x \notin Range(l) => IsInjective(a)
  BY <1>3, <1>4, <1>7 DEF IsInjective, Range
<1>10. QED
  BY <1>1, <1>5, <1>6, <1>8, <1>9

(* of a list without its first element;                                    *)
LEMMA TailFacts ==
    ASSUME NEW S, NEW l \in Seq(S), l # <<>>, Len(l) # 1, NEW rest, rest = Tail(l)
    PROVE  /\ rest \in Seq(S) /\ rest # <<>> /\ Last(rest) = Last(l)
           /\ Range(l) = {Head(l)} \cup Range(rest)
           /\ IsInjective(l) => IsInjective(rest) /\ Head(l) \notin Range(rest)
<1>1. PICK n \in Nat : n = Len(l)
  OBVIOUS
<1>2. n # 0 /\ n # 1
  BY <1>1, EmptySeq
<1>3. /\ rest \in Seq(S) /\ Len(rest) = n - 1
      /\ \A i \in 1 .. (n - 1) : rest[i] = l[i + 1]
      /\ Head(l) = l[1]
  BY <1>1, <1>2
<1>4. DOMAIN rest = 1 .. (n - 1) /\ DOMAIN l = 1 .. n
  BY <1>1, <1>2, <1>3
<1>5. rest # <<>>
  BY <1>2, <1>3
<1>6. Last(rest) = Last(l)
  <2>1. n - 1 \in 1 .. (n - 1) /\ (n - 1) + 1 = n
    BY <1>2
  <2>2. QED
    BY <1>1, <1>3, <2>1 DEF Last
<1>7. \A i \in 1 .. n : i = 1 \/ (i - 1 \in 1 .. (n - 1) /\ (i - 1) + 1 = i)
  OBVIOUS
<1>8. \A i \in 1 .. (n - 1) : i + 1 \in 1 .. n /\ i + 1 # 1
  OBVIOUS
<1>9. 1 \in 1 .. n
  BY <1>2
<1>10. Range(l) = {Head(l)} \cup Range(rest)
  <2>1. \A x \in Range(l) : x \in {Head(l)} \cup Range(rest)
    <3>1. SUFFICES ASSUME NEW i \in 1 .. n PROVE l[i] \in {Head(l)} \cup Range(rest)
      BY <1>4 DEF Range
    <3>2. CASE i = 1
      BY <1>3, <3>2
    <3>3. CASE i # 1
      <4>1. PICK j \in 1 .. (n - 1) : j + 1 = i
        BY <1>7, <3>3
      <4>2. rest[j] = l[i] /\ j \in DOMAIN rest
        BY <1>3, <1>4, <4>1
      <4>3. QED
        BY <4>2 DEF Range
    <3>4. QED
      BY <3>2, <3>3
  <2>2. \A x \in Range(rest) : x \in Range(l)
    BY <1>3, <1>4, <1>8 DEF Range
  <2>3. Head(l) \in Range(l)
    BY <1>3, <1>4, <1>9 DEF Range
  <2>4. QED
    BY <2>1, <2>2, <2>3
<1>11. ASSUME IsInjective(l) PROVE IsInjective(rest) /\ Head(l) \notin Range(rest)
  <2>1. \A i, j \in 1 .. n : l[i] = l[j] => i = j
    BY <1>4, <1>11 DEF IsInjective
  <2>2. \A i, j \in 1 .. (n - 1) : i + 1 = j + 1 => i = j
    OBVIOUS
  <2>3. IsInjective(rest)
    BY <1>3, <1>4, <1>8, <2>1, <2>2 DEF IsInjective
  <2>4. Head(l) \notin Range(rest)
    BY <1>3, <1>4, <1>8, <1>9, <2>1 DEF Range
  <2>5. QED
    BY <2>3, <2>4
<1>12. QED
  BY <1>3, <1>5, <1>6, <1>10, <1>11

(* and of a list cut in two behind its k-th element.                       *)
Parts(S, l, k, lost, rest) ==
    /\ lost \in Seq(S) /\ rest \in Seq(S) /\ lost # <<>> /\ rest # <<>>
    /\ Last(rest) = Last(l) /\ Last(lost) = l[k]
    /\ Range(l) = Range(lost) \cup Range(rest)
    /\ IsInjective(l) => /\ IsInjective(lost) /\ IsInjective(rest)
                         /\ Range(lost) \cap Range(rest) = {}

(* The two pieces have its elements between them.                          *)
LEMMA CutFacts ==
    ASSUME NEW S, NEW l \in Seq(S), NEW k \in 1 .. (Len(l) - 1),
           NEW lost, lost = SubSeq(l, 1, k), NEW rest, rest = SubSeq(l, k + 1, Len(l))
    PROVE  Parts(S, l, k, lost, rest)
<1>1. PICK n \in Nat : n = Len(l)
  OBVIOUS
<1>2. lost \in Seq(S) /\ Len(lost) = k /\ \A i \in 1 .. k : lost[i] = l[i]
  <2>1. 1 \in Int /\ k \in Int /\ 1 <= k /\ \A i \in 1 .. k : l[i] \in S
    OBVIOUS
  <2>2. /\ SubSeq(l, 1, k) \in Seq(S)
        /\ Len(SubSeq(l, 1, k)) = k - 1 + 1
        /\ \A i \in 1 .. (k - 1 + 1) : SubSeq(l, 1, k)[i] = l[1 + i - 1]
    BY <2>1, SubSeqProperties
  <2>3. k - 1 + 1 = k /\ \A i \in 1 .. k : 1 + i - 1 = i
    OBVIOUS
  <2>4. QED
    BY <2>2, <2>3, Zenon
<1>3. /\ rest \in Seq(S) /\ Len(rest) = n - k
      /\ \A i \in 1 .. (n - k) : rest[i] = l[k + i]
  <2>1. k + 1 \in Int /\ n \in Int /\ k + 1 <= n /\ \A i \in (k + 1) .. n : l[i] \in S
    BY <1>1
  <2>2. /\ SubSeq(l, k + 1, n) \in Seq(S)
        /\ Len(SubSeq(l, k + 1, n)) = n - (k + 1) + 1
        /\ \A i \in 1 .. (n - (k + 1) + 1) : SubSeq(l, k + 1, n)[i] = l[k + 1 + i - 1]
    BY <2>1, SubSeqProperties
  <2>3. n - (k + 1) + 1 = n - k /\ \A i \in 1 .. (n - k) : k + 1 + i - 1 = k + i
    BY <1>1
  <2>4. QED
    BY <1>1, <2>2, <2>3, Zenon
<1>4. k \in 1 .. (n - 1) /\ n - k \in Nat /\ k \in Nat
  BY <1>1
<1>5. DOMAIN lost = 1 .. k /\ DOMAIN rest = 1 .. (n - k) /\ DOMAIN l = 1 .. n
  BY <1>1, <1>2, <1>3
<1>6. lost # <<>> /\ rest # <<>>
  <2>1. k # 0 /\ n - k # 0 /\ Len(<<>>) = 0
    BY <1>4
  <2>2. QED
    BY <1>2, <1>3, <2>1
<1>7. Last(lost) = l[k]
  BY <1>2, <1>4 DEF Last
<1>8. Last(rest) = Last(l)
  <2>1. n - k \in 1 .. (n - k) /\ k + (n - k) = n
    BY <1>4
  <2>2. QED
    BY <1>1, <1>3, <2>1 DEF Last
<1>9. \A i \in 1 .. n : i \in 1 .. k \/ (i - k \in 1 .. (n - k) /\ k + (i - k) = i)
  BY <1>4
<1>10. \A i \in 1 .. (n - k) : k + i \in 1 .. n
  BY <1>4
<1>11. \A i \in 1 .. k : i \in 1 .. n
  BY <1>4
<1>12. Range(l) = Range(lost) \cup Range(rest)
  <2>1. \A x : x \in Range(l) <=> \E i \in 1 .. n : x = l[i]
    BY <1>5 DEF Range
  <2>2. \A x : x \in Range(lost) <=> \E i \in 1 .. k : x = l[i]
    BY <1>2, <1>5 DEF Range
  <2>3. \A x : x \in Range(rest) <=> \E i \in 1 .. (n - k) : x = l[k + i]
    BY <1>3, <1>5 DEF Range
  <2>4. \A x : x \in Range(l) => x \in Range(lost) \/ x \in Range(rest)
    BY <1>9, <2>1, <2>2, <2>3
  <2>5. \A x : x \in Range(lost) \/ x \in Range(rest) => x \in Range(l)
    BY <1>10, <1>11, <2>1, <2>2, <2>3
  <2>6. QED
    BY <2>4, <2>5
<1>13. ASSUME IsInjective(l)
       PROVE  /\ IsInjective(lost) /\ IsInjective(rest)
              /\ Range(lost) \cap Range(rest) = {}
  <2>1. \A i, j \in 1 .. n : l[i] = l[j] => i = j
    BY <1>5, <1>13 DEF IsInjective
  <2>2. IsInjective(lost)
    BY <1>2, <1>5, <1>11, <2>1 DEF IsInjective
  <2>3. IsInjective(rest)
    <3>1. \A i, j \in 1 .. (n - k) : k + i = k + j => i = j
      OBVIOUS
    <3>2. QED
      BY <1>3, <1>5, <1>10, <2>1, <3>1 DEF IsInjective
  <2>4. \A i \in 1 .. k, j \in 1 .. (n - k) : i # k + j
    BY <1>4
  <2>5. \A i \in 1 .. k, j \in 1 .. (n - k) : lost[i] # rest[j]
    BY <1>2, <1>3, <1>10, <1>11, <2>1, <2>4
  <2>6. QED
    BY <1>5, <2>2, <2>3, <2>5 DEF Range
<1>14. QED
  BY <1>2, <1>3, <1>6, <1>7, <1>8, <1>12, <1>13 DEF Parts

(* A list that is turned round.                                            *)
LEMMA ReverseFacts ==
    ASSUME NEW S, NEW l \in Seq(S)
    PROVE  /\ Reverse(l) \in Seq(S)
           /\ Range(Reverse(l)) = Range(l)
           /\ IsInjective(l) => IsInjective(Reverse(l))
<1>1. PICK n \in Nat : n = Len(l)
  OBVIOUS
<1>2. PICK r : r = Reverse(l)
  OBVIOUS
<1>3. r = [i \in 1 .. n |-> l[n - i + 1]]
  BY <1>1, <1>2 DEF Reverse
<1>4. \A i \in 1 .. n : n - i + 1 \in 1 .. n /\ n - (n - i + 1) + 1 = i
  OBVIOUS
<1>5. \A i \in 1 .. n : l[n - i + 1] \in S
  BY <1>1, <1>4
<1>6. r \in Seq(S)
  <2>1. r \in [1 .. n -> S]
    BY <1>3, <1>5
  <2>2. QED
    BY <2>1
<1>7. DOMAIN r = 1 .. n /\ DOMAIN l = 1 .. n
  BY <1>1, <1>3
<1>8. Range(r) = Range(l)
  BY <1>3, <1>4, <1>7 DEF Range
<1>9. IsInjective(l) => IsInjective(r)
  BY <1>3, <1>4, <1>7 DEF IsInjective
<1>10. QED
  BY <1>2, <1>6, <1>8, <1>9

-----------------------------------------------------------------------------
(* What an operation on the worms of M has to see to.                      *)

Owns(M, n) == \E m \in M : Here(m) /\ wormno[m] = n

(* Its monsters have a place, lists that were theirs or nobody's, and not  *)
(* the same one;                                                           *)
HeadsOf(M) ==
    /\ \A m \in M : Here(m)' =>
          /\ pos'[m] \in Squares
          /\ wormno'[m] # 0 => /\ m \in longWorms'
                               /\ wormno'[m] \in Slots
                               /\ wsegs'[wormno'[m]] # <<>>
                               /\ Last(wsegs'[wormno'[m]]) = pos'[m]
                               /\ wsegs[wormno'[m]] = <<>> \/ Owns(M, wormno'[m])
    /\ \A m, c \in M :
          Here(m)' /\ Here(c)' /\ wormno'[m] = wormno'[c] /\ wormno'[m] # 0 => m = c

(* a list changes only if it was or becomes theirs, and is let go empty;   *)
ListsOf(M) ==
    \A n \in Slots :
        /\ ~Owns(M, n) /\ ~Owns(M, n)' => wsegs'[n] = wsegs[n]
        /\ Owns(M, n) /\ ~Owns(M, n)' => wsegs'[n] = <<>>

(* the map shows them where they are, and of others no more than before;   *)
MapOf(M) ==
    \A s \in Squares :
        /\ monsters'[s] \in M \/ monsters'[s] = NoBeast \/ monsters'[s] = monsters[s]
        /\ \A m \in M : monsters'[s] = m => Here(m)' /\ s \in Body(m)'

(* and nothing less, unless a tail was cut short.                          *)
NothingLost(M) ==
    ~cramped' =>
        /\ ~cramped /\ Straight'
        /\ \A m \in M : Here(m)' => \A s \in Body(m)' : monsters'[s] = m
        /\ \A s \in Squares : monsters[s] \notin M \cup {NoBeast} => monsters'[s] = monsters[s]

(* Nobody else notices.                                                    *)
LEMMA WormsChange ==
    ASSUME WormInv, NEW M \in SUBSET Beasts, WormTypes',
           \A c \in Beasts \ M : /\ pos'[c] = pos[c] /\ fate'[c] = fate[c]
                                 /\ wormno'[c] = wormno[c]
                                 /\ c \in longWorms => c \in longWorms',
           HeadsOf(M), ListsOf(M), MapOf(M), NothingLost(M)
    PROVE  WormInv'
<1>1. /\ WormTypes /\ HeadsArePlaced /\ ListsAreOwned /\ MapIsBacked
      /\ ~cramped => OnMap /\ Straight
  BY DEF WormInv
<1>2. ASSUME NEW c \in Beasts \ M, Here(c), wormno[c] # 0
      PROVE  /\ wormno[c] \in Slots /\ ~Owns(M, wormno[c]) /\ ~Owns(M, wormno[c])'
             /\ wsegs'[wormno[c]] = wsegs[wormno[c]]
  <2>1. wormno[c] \in Slots /\ wsegs[wormno[c]] # <<>>
    BY <1>1, <1>2 DEF HeadsArePlaced
  <2>2. ~Owns(M, wormno[c])
    BY <1>1, <1>2 DEF ListsAreOwned, Owns
  <2>3. ~Owns(M, wormno[c])'
    <3>1. SUFFICES ASSUME NEW m \in M, Here(m)', wormno'[m] = wormno[c] PROVE FALSE
      BY DEF Owns
    <3>2. wsegs[wormno'[m]] = <<>> \/ Owns(M, wormno'[m])
      BY <1>2, <3>1 DEF HeadsOf
    <3>3. QED
      BY <2>1, <2>2, <3>1, <3>2
  <2>4. QED
    BY <2>1, <2>2, <2>3 DEF ListsOf
<1>3. ASSUME NEW c \in Beasts \ M, Here(c)
      PROVE  Here(c)' /\ Body(c)' = Body(c)
  BY <1>2, <1>3 DEF Here, Body
<1>4. \A c \in Beasts \ M : Here(c)' <=> Here(c)
  BY DEF Here
<1>5. HeadsArePlaced'
  <2>1. SUFFICES ASSUME NEW m \in Beasts, Here(m)'
                 PROVE  /\ pos'[m] \in Squares
                        /\ wormno'[m] # 0 =>
                             /\ m \in longWorms'
                             /\ wormno'[m] \in Slots /\ wsegs'[wormno'[m]] # <<>>
                             /\ Last(wsegs'[wormno'[m]]) = pos'[m]
    BY DEF HeadsArePlaced
  <2>2. CASE m \in M
    BY <2>1, <2>2 DEF HeadsOf
  <2>3. CASE m \notin M
    <3>1. /\ Here(m) /\ m \in Beasts \ M
          /\ pos'[m] = pos[m] /\ wormno'[m] = wormno[m]
          /\ m \in longWorms => m \in longWorms'
      BY <1>4, <2>1, <2>3
    <3>2. QED
      BY <1>1, <1>2, <3>1 DEF HeadsArePlaced
  <2>4. QED
    BY <2>2, <2>3
<1>6. ListsAreOwned'
  <2>1. ASSUME NEW m \in Beasts, NEW c \in Beasts, Here(m)', Here(c)',
               wormno'[m] = wormno'[c], wormno'[m] # 0
        PROVE  m = c
    <3>1. CASE m \in M /\ c \in M
      BY <2>1, <3>1 DEF HeadsOf
    <3>2. CASE m \notin M /\ c \notin M
      BY <1>1, <1>4, <2>1, <3>2 DEF ListsAreOwned
    <3>3. ASSUME NEW x \in M, NEW y \in Beasts \ M, Here(x)', Here(y)',
                 wormno'[x] = wormno'[y], wormno'[x] # 0
          PROVE  FALSE
      <4>1. Here(y) /\ wormno'[y] = wormno[y]
        BY <1>4, <3>3
      <4>2. ~Owns(M, wormno[y])'
        BY <1>2, <3>3, <4>1
      <4>3. QED
        BY <3>3, <4>1, <4>2 DEF Owns
    <3>4. QED
      BY <2>1, <3>1, <3>2, <3>3
  <2>2. ASSUME NEW n \in Slots, wsegs'[n] # <<>>
        PROVE  \E m \in Beasts : Here(m)' /\ wormno'[m] = n
    <3>1. CASE Owns(M, n)'
      BY <3>1 DEF Owns
    <3>2. CASE ~Owns(M, n)'
      <4>1. ~Owns(M, n) /\ wsegs[n] # <<>>
        BY <2>2, <3>2 DEF ListsOf
      <4>2. PICK c \in Beasts : Here(c) /\ wormno[c] = n
        BY <1>1, <4>1 DEF ListsAreOwned
      <4>3. c \notin M
        BY <4>1, <4>2 DEF Owns
      <4>4. QED
        BY <1>4, <4>2, <4>3
    <3>3. QED
      BY <3>1, <3>2
  <2>3. QED
    BY <2>1, <2>2 DEF ListsAreOwned
<1>7. MapIsBacked'
  <2>1. SUFFICES ASSUME NEW s \in Squares, NEW c, c = monsters'[s], c # NoBeast
                 PROVE  Here(c)' /\ s \in Body(c)'
    BY DEF MapIsBacked, Here
  <2>2. CASE c \in M
    BY <2>1, <2>2 DEF MapOf
  <2>3. CASE c \notin M
    <3>1. c = monsters[s] /\ c \in Beasts \ M
      BY <2>1, <2>3 DEF MapOf, WormTypes
    <3>2. Here(c) /\ s \in Body(c)
      BY <1>1, <2>1, <3>1 DEF MapIsBacked, Here
    <3>3. QED
      BY <1>3, <3>1, <3>2
  <2>4. QED
    BY <2>2, <2>3
<1>8. ASSUME ~cramped' PROVE OnMap' /\ Straight'
  <2>1. ~cramped /\ OnMap /\ Straight'
    BY <1>1, <1>8 DEF NothingLost
  <2>2. SUFFICES ASSUME NEW m \in Beasts, Here(m)', NEW s \in Body(m)'
                 PROVE  monsters'[s] = m
    BY <2>1 DEF OnMap
  <2>3. CASE m \in M
    BY <1>8, <2>2, <2>3 DEF NothingLost
  <2>4. CASE m \notin M
    <3>1. Here(m) /\ s \in Body(m)
      BY <1>3, <1>4, <2>2, <2>4
    <3>2. monsters[s] = m /\ m \notin M \cup {NoBeast}
      BY <2>1, <2>4, <3>1, WormAssumption DEF OnMap
    <3>3. s \in Squares
      BY <1>1, <3>1 DEF Body, HeadsArePlaced, WormTypes, Range
    <3>4. QED
      BY <1>8, <3>2, <3>3 DEF NothingLost
  <2>5. QED
    BY <2>3, <2>4
<1>9. QED
  BY <1>5, <1>6, <1>7, <1>8 DEF WormInv

-----------------------------------------------------------------------------
(* Where nobody stands at x = 0, a list is tossed as it is.                *)
LEMMA TossedFacts ==
    ASSUME ZeroColumn = {}, NEW map, NEW l
    PROVE  Tossed(map, l) = [s \in Squares |-> IF s \in Range(l) THEN NoBeast ELSE map[s]]
BY DEF Tossed, Cleared

(* A trail runs over free squares, and over none of them twice.            *)
LEMMA TrailFacts ==
    ASSUME NEW map, NEW x, NEW k, NEW t \in Trails(map, x, k)
    PROVE  /\ t \in Seq(Squares) /\ IsInjective(t)
           /\ \A s \in Range(t) : s \in Squares /\ map[s] = NoBeast
<1>1. PICK n \in 0 .. k : t \in [1 .. n -> {s \in Squares : GoodPos(map, s)}]
  BY DEF Trails
<1>2. IsInjective(t)
  BY DEF Trails
<1>3. t \in Seq(Squares)
  <2>1. n \in Nat
    BY <1>1
  <2>2. t \in [1 .. n -> Squares]
    BY <1>1
  <2>3. QED
    BY <2>1, <2>2
<1>4. QED
  BY <1>1, <1>2, <1>3 DEF Range, GoodPos

(* The tail of a monster whose head is on x, laid out behind it: a list    *)
(* that never passes twice over a square, which the map shows, unless what *)
(* is left of an old list is tossed.                                       *)
LEMMA TailOnFacts ==
    ASSUME ZeroColumn = {}, NEW map \in [Squares -> Beasts \cup {NoBeast}],
           NEW m \in Beasts, NEW x \in Squares,
           NEW k, NEW t \in Trails(map, x, k),
           NEW X, NEW segs \in Seq(X), NEW tail, tail = TailOn(map, m, x, segs, t)
    PROVE  /\ tail.list \in Seq(Squares) /\ tail.list # <<>> /\ Last(tail.list) = x
           /\ map[x] = m => IsInjective(tail.list)
           /\ Range(tail.list) = Range(t) \cup {x}
           /\ tail.map \in [Squares -> Beasts \cup {NoBeast}]
           /\ \A s \in Range(t) : s \in Squares /\ map[s] = NoBeast
           /\ \A s \in Squares :
                \/ tail.map[s] = NoBeast
                \/ tail.map[s] = m /\ s \in Range(t)
                \/ tail.map[s] = map[s]
           /\ Len(t) >= Len(segs) - 1 \/ Range(segs) \cap Squares = {} =>
                \A s \in Squares :
                    tail.map[s] = IF s \in Range(t) THEN m ELSE map[s]
<1>1. /\ t \in Seq(Squares) /\ IsInjective(t)
      /\ \A s \in Range(t) : s \in Squares /\ map[s] = NoBeast
  BY TrailFacts
<1>2. map[x] = m => x \notin Range(t)
  BY <1>1, WormAssumption
<1> DEFINE left == SubSeq(segs, Len(t) + 2, Len(segs))
<1>3. /\ tail.list = Append(Reverse(t), x)
      /\ tail.map = Tossed(Occupied(map, m, Range(t)), left)
  BY DEF TailOn
<1>4. Range(left) \subseteq Range(segs) /\ (Len(t) >= Len(segs) - 1 => Range(left) = {})
  <2>1. PICK a \in Nat, b \in Nat : a = Len(t) + 2 /\ b = Len(segs)
    BY <1>1
  <2>2. \A i \in a .. b : i \in 1 .. b /\ segs[i] \in X
    BY <1>1, <2>1
  <2>3. DOMAIN segs = 1 .. b
    BY <2>1
  <2>4. /\ left \in Seq(X)
        /\ Len(left) = IF a <= b THEN b - a + 1 ELSE 0
        /\ \A i \in 1 .. (b - a + 1) : left[i] = segs[a + i - 1]
    BY <2>1, <2>2, SubSeqProperties
  <2> HIDE DEF left
  <2>5. DOMAIN left = 1 .. Len(left)
    BY <2>4
  <2>6. \A i \in 1 .. Len(left) : i \in 1 .. (b - a + 1) /\ a + i - 1 \in a .. b
    BY <2>4
  <2>7. \A y \in Range(left) : y \in Range(segs)
    BY <2>2, <2>3, <2>4, <2>5, <2>6 DEF Range
  <2>8. Len(t) >= Len(segs) - 1 => Range(left) = {}
    <3>1. SUFFICES ASSUME Len(t) >= Len(segs) - 1 PROVE Range(left) = {}
      OBVIOUS
    <3>2. Len(t) \in Nat
      BY <1>1
    <3>3. ~(a <= b)
      BY <2>1, <3>1, <3>2
    <3>4. Len(left) = 0
      BY <2>4, <3>3
    <3>5. QED
      BY <2>5, <3>4 DEF Range
  <2>9. QED
    BY <2>7, <2>8
<1> HIDE DEF left
<1>5. PICK r \in Seq(Squares) : /\ r = Reverse(t) /\ Range(r) = Range(t) /\ IsInjective(r)
  BY <1>1, ReverseFacts
<1>6. /\ tail.list \in Seq(Squares) /\ tail.list # <<>> /\ Last(tail.list) = x
      /\ map[x] = m => IsInjective(tail.list)
      /\ Range(tail.list) = Range(t) \cup {x}
  BY <1>2, <1>3, <1>5, AppendFacts
<1>7. \A s \in Squares : Occupied(map, m, Range(t))[s] = IF s \in Range(t) THEN m ELSE map[s]
  BY DEF Occupied
<1>8. tail.map = [s \in Squares |-> IF s \in Range(left) THEN NoBeast
                                    ELSE IF s \in Range(t) THEN m ELSE map[s]]
  BY <1>3, <1>7, TossedFacts
<1>9. tail.map \in [Squares -> Beasts \cup {NoBeast}]
  BY <1>8
<1>10. \A s \in Squares : tail.map[s] = IF s \in Range(left) THEN NoBeast
                                        ELSE IF s \in Range(t) THEN m ELSE map[s]
  BY <1>8
<1>11. Len(t) >= Len(segs) - 1 \/ Range(segs) \cap Squares = {} =>
         \A s \in Squares : s \notin Range(left)
  BY <1>4
<1>12. \A s \in Squares :
          \/ tail.map[s] = NoBeast
          \/ tail.map[s] = m /\ s \in Range(t)
          \/ tail.map[s] = map[s]
  BY <1>10
<1>13. ASSUME Len(t) >= Len(segs) - 1 \/ Range(segs) \cap Squares = {}
       PROVE  \A s \in Squares : tail.map[s] = IF s \in Range(t) THEN m ELSE map[s]
  BY <1>10, <1>11, <1>13
<1>14. QED
  BY <1>1, <1>6, <1>9, <1>12, <1>13

-----------------------------------------------------------------------------
(* One monster at a time.                                                  *)

(* A monster is put down with its head on x, with the list l in slot n or  *)
(* with none; B is where it is then.                                       *)
PutsDown(m, x, n, l, B) ==
    /\ fate' = [fate EXCEPT ![m] = "here"] /\ pos' = [pos EXCEPT ![m] = x]
    /\ wormno' = [wormno EXCEPT ![m] = n]
    /\ longWorms' \subseteq Beasts
    /\ \A c \in Beasts \ {m} : c \in longWorms => c \in longWorms'
    /\ monsters' \in [Squares -> Beasts \cup {NoBeast}] /\ cramped' \in BOOLEAN
    /\ n # 0 => /\ n \in Slots /\ m \in longWorms' /\ B = Range(l)
                /\ l \in Seq(Squares) /\ l # <<>> /\ Last(l) = x
                /\ wsegs[n] = <<>> \/ (Here(m) /\ wormno[m] = n)
                /\ Here(m) => wormno[m] = 0 \/ wormno[m] = n
                /\ wsegs' = [wsegs EXCEPT ![n] = l]
                /\ ~cramped' => IsInjective(l)
    /\ n = 0 => /\ B = {x}
                /\ wsegs' = IF Here(m) /\ wormno[m] # 0
                            THEN [wsegs EXCEPT ![wormno[m]] = <<>>] ELSE wsegs
    /\ \A s \in Squares :
          /\ monsters'[s] = m => s \in B
          /\ monsters'[s] = m \/ monsters'[s] = NoBeast \/ monsters'[s] = monsters[s]
    /\ ~cramped' =>
          /\ ~cramped
          /\ \A s \in B : monsters'[s] = m
          /\ \A s \in Squares : monsters[s] # m /\ monsters[s] # NoBeast =>
                                   monsters'[s] = monsters[s]

(* Then the worms are sound afterwards.                                    *)
LEMMA PutStep ==
    ASSUME WormInv, NEW m \in Beasts, NEW x \in Squares, NEW n \in Nat, NEW l, NEW B,
           PutsDown(m, x, n, l, B)
    PROVE  WormInv'
<1> USE DEF PutsDown
<1>1. /\ WormTypes /\ HeadsArePlaced /\ ListsAreOwned
      /\ ~cramped => Straight
  BY DEF WormInv
<1>2. /\ fate'[m] = "here" /\ pos'[m] = x /\ wormno'[m] = n
      /\ \A c \in Beasts \ {m} : /\ pos'[c] = pos[c] /\ fate'[c] = fate[c]
                                 /\ wormno'[c] = wormno[c]
                                 /\ c \in longWorms => c \in longWorms'
  BY <1>1 DEF WormTypes
<1>3. Here(m) /\ wormno[m] # 0 => wormno[m] \in Slots /\ wsegs[wormno[m]] # <<>>
  BY <1>1 DEF HeadsArePlaced
<1>4. wsegs' \in [Slots -> Seq(Squares)]
  <2>1. <<>> \in Seq(Squares) /\ wsegs \in [Slots -> Seq(Squares)]
    BY <1>1 DEF WormTypes
  <2>2. QED
    BY <1>3, <2>1
<1>5. WormTypes'
  <2>1. /\ fate' \in [Beasts -> {"here", "migrating", "gone"}]
        /\ pos' \in [Beasts -> Squares \cup {Colno}]
        /\ wormno' \in [Beasts -> Nat]
    BY <1>1 DEF WormTypes
  <2>2. QED
    BY <1>4, <2>1 DEF WormTypes
<1>6. /\ \A i : Owns({m}, i) <=> Here(m) /\ wormno[m] = i
      /\ \A i : Owns({m}, i)' <=> n = i
  BY <1>2 DEF Owns, Here
<1>7. n # 0 => wsegs'[n] = l
  BY <1>1 DEF WormTypes
<1>8. HeadsOf({m})
  BY <1>2, <1>6, <1>7 DEF HeadsOf
<1>9. ListsOf({m})
  <2>1. SUFFICES ASSUME NEW i \in Slots, n # i
                 PROVE  /\ ~(Here(m) /\ wormno[m] = i) => wsegs'[i] = wsegs[i]
                        /\ Here(m) /\ wormno[m] = i => wsegs'[i] = <<>>
    BY <1>6 DEF ListsOf
  <2>2. i # 0
    BY DEF Slots
  <2>3. wsegs \in [Slots -> Seq(Squares)]
    BY <1>1 DEF WormTypes
  <2>4. CASE n # 0
    BY <2>1, <2>2, <2>3, <2>4
  <2>5. CASE n = 0
    BY <1>3, <2>1, <2>2, <2>3, <2>5
  <2>6. QED
    BY <2>4, <2>5
<1>10. Body(m)' = B
  <2>1. CASE n # 0
    <3>1. Len(l) \in DOMAIN l
      BY <2>1
    <3>2. x \in Range(l)
      BY <2>1, <3>1 DEF Last, Range
    <3>3. QED
      BY <1>2, <1>7, <2>1, <3>2 DEF Body
  <2>2. CASE n = 0
    BY <1>2, <2>2 DEF Body
  <2>3. QED
    BY <2>1, <2>2
<1>11. MapOf({m})
  BY <1>2, <1>10 DEF MapOf, Here
<1>12. ~cramped' => Straight'
  <2>1. SUFFICES ASSUME ~cramped', NEW i \in Slots PROVE IsInjective(wsegs'[i])
    BY DEF Straight
  <2>2. IsInjective(<<>>)
    BY DEF IsInjective
  <2>3. wsegs'[i] = wsegs[i] \/ wsegs'[i] = <<>> \/ (n # 0 /\ wsegs'[i] = l)
    <3>1. wsegs \in [Slots -> Seq(Squares)]
      BY <1>1 DEF WormTypes
    <3>2. QED
      BY <1>3, <3>1
  <2>4. QED
    BY <1>1, <2>1, <2>2, <2>3 DEF Straight
<1>13. NothingLost({m})
  BY <1>10, <1>12 DEF NothingLost
<1>14. QED
  BY <1>2, <1>5, <1>8, <1>9, <1>11, <1>13, WormsChange

(* A monster leaves the level: its list is let go, and the map does not    *)
(* show it any more.                                                       *)
Leaves(m, f) ==
    /\ fate' = [fate EXCEPT ![m] = f] /\ WormTypes' /\ cramped' = cramped
    /\ \A c \in Beasts \ {m} : /\ pos'[c] = pos[c] /\ wormno'[c] = wormno[c]
                               /\ c \in longWorms => c \in longWorms'
    /\ wsegs' = IF Here(m) /\ wormno[m] # 0 THEN [wsegs EXCEPT ![wormno[m]] = <<>>]
                ELSE wsegs
    /\ \A s \in Squares :
          /\ monsters'[s] # m
          /\ monsters'[s] = NoBeast \/ monsters'[s] = monsters[s]
    /\ ~cramped => \A s \in Squares : monsters[s] # m /\ monsters[s] # NoBeast =>
                                           monsters'[s] = monsters[s]

(* The others are as sound as before.                                      *)
LEMMA LeaveStep ==
    ASSUME WormInv, NEW m \in Beasts, NEW f \in {"migrating", "gone"}, Leaves(m, f)
    PROVE  WormInv'
<1> USE DEF Leaves
<1>1. /\ WormTypes /\ HeadsArePlaced /\ ListsAreOwned
      /\ ~cramped => Straight
  BY DEF WormInv
<1>2. /\ fate'[m] # "here" /\ fate'[m] = f
      /\ \A c \in Beasts \ {m} : fate'[c] = fate[c]
  BY <1>1 DEF WormTypes
<1>3. Here(m) /\ wormno[m] # 0 => wormno[m] \in Slots
  BY <1>1 DEF HeadsArePlaced
<1>4. wsegs \in [Slots -> Seq(Squares)]
  BY <1>1 DEF WormTypes
<1>5. /\ \A i : Owns({m}, i) <=> Here(m) /\ wormno[m] = i
      /\ \A i : ~Owns({m}, i)'
  BY <1>2 DEF Owns, Here
<1>6. HeadsOf({m})
  BY <1>2 DEF HeadsOf, Here
<1>7. ListsOf({m})
  <2>1. SUFFICES ASSUME NEW i \in Slots
                 PROVE  /\ ~(Here(m) /\ wormno[m] = i) => wsegs'[i] = wsegs[i]
                        /\ Here(m) /\ wormno[m] = i => wsegs'[i] = <<>>
    BY <1>5 DEF ListsOf
  <2>2. i # 0
    BY DEF Slots
  <2>3. QED
    BY <1>3, <1>4, <2>2
<1>8. MapOf({m})
  BY DEF MapOf
<1>9. ~cramped' => Straight'
  <2>1. IsInjective(<<>>)
    BY DEF IsInjective
  <2>2. \A i \in Slots : wsegs'[i] = wsegs[i] \/ wsegs'[i] = <<>>
    BY <1>3, <1>4
  <2>3. QED
    BY <1>1, <2>1, <2>2 DEF Straight
<1>10. NothingLost({m})
  BY <1>2, <1>9 DEF NothingLost, Here
<1>11. QED
  BY <1>2, <1>6, <1>7, <1>8, <1>10, WormsChange

-----------------------------------------------------------------------------
(* What the map says of one monster.                                       *)
LEMMA BodyFacts ==
    ASSUME WormInv, NEW m \in Beasts
    PROVE  /\ m # NoBeast
           /\ \A s \in Squares : monsters[s] = m => Here(m) /\ s \in Body(m)
           /\ Here(m) => pos[m] \in Squares
           /\ Here(m) /\ wormno[m] = 0 => Body(m) = {pos[m]}
           /\ Here(m) /\ wormno[m] # 0 =>
                 /\ wormno[m] \in Slots /\ m \in longWorms
                 /\ wsegs[wormno[m]] \in Seq(Squares) /\ wsegs[wormno[m]] # <<>>
                 /\ Last(wsegs[wormno[m]]) = pos[m]
                 /\ Body(m) = Range(wsegs[wormno[m]])
                 /\ ~cramped => IsInjective(wsegs[wormno[m]])
           /\ Here(m) /\ ~cramped => \A s \in Body(m) : monsters[s] = m
<1>1. m # NoBeast
  BY WormAssumption
<1>2. \A s \in Squares : monsters[s] = m => Here(m) /\ s \in Body(m)
  BY <1>1 DEF WormInv, MapIsBacked, Here
<1>3. Here(m) => pos[m] \in Squares
  BY DEF WormInv, HeadsArePlaced
<1>4. Here(m) /\ wormno[m] = 0 => Body(m) = {pos[m]}
  BY DEF Body
<1>5. ASSUME Here(m), wormno[m] # 0
      PROVE  /\ wormno[m] \in Slots /\ m \in longWorms
             /\ wsegs[wormno[m]] \in Seq(Squares) /\ wsegs[wormno[m]] # <<>>
             /\ Last(wsegs[wormno[m]]) = pos[m]
             /\ Body(m) = Range(wsegs[wormno[m]])
             /\ ~cramped => IsInjective(wsegs[wormno[m]])
  <2>1. /\ wormno[m] \in Slots /\ m \in longWorms
        /\ wsegs[wormno[m]] # <<>> /\ Last(wsegs[wormno[m]]) = pos[m]
    BY <1>5 DEF WormInv, HeadsArePlaced
  <2>2. wsegs[wormno[m]] \in Seq(Squares)
    BY <2>1 DEF WormInv, WormTypes
  <2>3. PICK l \in Seq(Squares) : l = wsegs[wormno[m]]
    BY <2>2
  <2>4. Len(l) \in DOMAIN l
    BY <2>1, <2>3
  <2>5. pos[m] \in Range(l)
    BY <2>1, <2>3, <2>4 DEF Last, Range
  <2>6. Body(m) = Range(l)
    BY <1>5, <2>3, <2>5 DEF Body
  <2>7. ~cramped => IsInjective(wsegs[wormno[m]])
    BY <2>1 DEF WormInv, Straight
  <2>8. QED
    BY <2>1, <2>2, <2>3, <2>6, <2>7
<1>6. Here(m) /\ ~cramped => \A s \in Body(m) : monsters[s] = m
  BY DEF WormInv, OnMap
<1>7. QED
  BY <1>1, <1>2, <1>3, <1>4, <1>5, <1>6

(* Its squares are squares.                                                *)
LEMMA BodySquares ==
    ASSUME WormInv, NEW m \in Beasts, Here(m)
    PROVE  Body(m) \subseteq Squares
<1>1. CASE wormno[m] = 0
  BY <1>1, BodyFacts
<1>2. CASE wormno[m] # 0
  <2>1. wsegs[wormno[m]] \in Seq(Squares) /\ Body(m) = Range(wsegs[wormno[m]])
    BY <1>2, BodyFacts
  <2>2. QED
    BY <2>1, RangeFacts
<1>3. QED
  BY <1>1, <1>2

(* A tail that gets shorter gives up the square at its end.                *)
LEMMA ShrinkFacts ==
    ASSUME ZeroColumn = {}, NEW map \in [Squares -> Beasts \cup {NoBeast}],
           NEW l \in Seq(Squares), l # <<>>, NEW sh, sh = ShrinkWorm(map, l)
    PROVE  /\ sh.list \in Seq(Squares) /\ sh.list # <<>> /\ Last(sh.list) = Last(l)
           /\ IsInjective(l) => IsInjective(sh.list)
           /\ Range(sh.list) \subseteq Range(l)
           /\ sh.map \in [Squares -> Beasts \cup {NoBeast}]
           /\ \A s \in Squares :
                 /\ sh.map[s] = NoBeast \/ sh.map[s] = map[s]
                 /\ s \in Range(l) /\ s \notin Range(sh.list) => sh.map[s] = NoBeast
                 /\ sh.map[s] # map[s] => s \in Range(l)
                 /\ IsInjective(l) /\ s \in Range(sh.list) => sh.map[s] = map[s]
<1>1. CASE Len(l) = 1
  BY <1>1 DEF ShrinkWorm
<1>2. CASE Len(l) # 1
  <2>1. sh.list = Tail(l) /\ sh.map = Tossed(map, <<Head(l)>>)
    BY <1>2 DEF ShrinkWorm
  <2>2. PICK rest : rest = Tail(l)
    OBVIOUS
  <2>3. /\ rest \in Seq(Squares) /\ rest # <<>> /\ Last(rest) = Last(l)
        /\ Range(l) = {Head(l)} \cup Range(rest)
        /\ IsInjective(l) => IsInjective(rest) /\ Head(l) \notin Range(rest)
    BY <1>2, <2>2, TailFacts
  <2>4. Range(<<Head(l)>>) = {Head(l)}
    BY DEF Range
  <2>5. sh.map = [s \in Squares |-> IF s = Head(l) THEN NoBeast ELSE map[s]]
    BY <2>1, <2>4, TossedFacts
  <2>6. sh.map \in [Squares -> Beasts \cup {NoBeast}]
    BY <2>5
  <2>7. \A s \in Squares : sh.map[s] = IF s = Head(l) THEN NoBeast ELSE map[s]
    BY <2>5
  <2>8. sh.list = rest
    BY <2>1, <2>2
  <2>9. QED
    BY <2>3, <2>6, <2>7, <2>8
<1>3. QED
  BY <1>1, <1>2

-----------------------------------------------------------------------------
(* The free slot that get_wormno finds.                                    *)

LessThan == {ss \in Nat \X Nat : ss[1] < ss[2]}

(* The least of a nonempty set of naturals is one of them.                 *)
LEMMA MinFacts ==
    ASSUME NEW S \in SUBSET Nat, S # {}
    PROVE  Min(S) \in S /\ \A y \in S : Min(S) <= y
<1>1. IsWellFoundedOn(LessThan, Nat)
  BY NatLessThanWellFounded DEF OpToRel, LessThan
<1>2. PICK x \in S : \A y \in S : <<y, x>> \notin LessThan
  BY <1>1, WFMin
<1>3. \A y \in S : ~(y < x)
  BY <1>2 DEF LessThan
<1>4. \A y \in S : x <= y
  BY <1>3
<1>5. QED
  BY <1>4 DEF Min

(* get_wormno answers 0, or a slot that has no list.                       *)
LEMMA FreeSlot ==
    ASSUME NEW n, n = GetWormno(wsegs)
    PROVE  n = 0 \/ (n \in Slots /\ wsegs[n] = <<>>)
<1>1. PICK free : free = {i \in Slots : wsegs[i] = <<>>}
  OBVIOUS
<1>2. n = IF free = {} THEN 0 ELSE Min(free)
  BY <1>1 DEF GetWormno
<1>3. free \in SUBSET Nat
  BY <1>1 DEF Slots
<1>4. free # {} => Min(free) \in free
  BY <1>3, MinFacts
<1>5. QED
  BY <1>1, <1>2, <1>4

-----------------------------------------------------------------------------
(* The operations, one after the other.                                    *)

(* A monster without a tail comes to stand at x.                           *)
Stands(m, x, map) ==
    /\ monsters' = map /\ wsegs' = wsegs /\ cramped' = cramped
    /\ fate' = [fate EXCEPT ![m] = "here"] /\ pos' = [pos EXCEPT ![m] = x]
    /\ wormno' = [wormno EXCEPT ![m] = 0]
    /\ longWorms' \subseteq Beasts /\ longWorms \ {m} \subseteq longWorms'
    /\ Here(m) => wormno[m] = 0
    /\ \A s \in Squares :
          /\ map[s] = m => s = x
          /\ map[s] = m \/ map[s] = NoBeast \/ map[s] = monsters[s]
    /\ ~cramped =>
          /\ map[x] = m
          /\ \A s \in Squares : monsters[s] # m /\ monsters[s] # NoBeast =>
                                   map[s] = monsters[s]

(* The worms do not mind.                                                  *)
LEMMA PlainStep ==
    ASSUME WormInv, NEW m \in Beasts, NEW x \in Squares,
           NEW map \in [Squares -> Beasts \cup {NoBeast}], Stands(m, x, map)
    PROVE  WormInv'
<1>1. cramped \in BOOLEAN
  BY DEF WormInv, WormTypes
<1>2. PutsDown(m, x, 0, <<>>, {x})
  BY <1>1 DEF Stands, PutsDown
<1>3. QED
  BY <1>2, PutStep

(* A monster is put down with its head on x and a tail laid out behind it: *)
(* it had no other list, and the map shows it at x if anywhere.            *)
LaysTail(m, x, n, map, k, t, segs) ==
    /\ t \in Trails(map, x, k)
    /\ fate' = [fate EXCEPT ![m] = "here"] /\ pos' = [pos EXCEPT ![m] = x]
    /\ wormno' = [wormno EXCEPT ![m] = n]
    /\ longWorms' \subseteq Beasts /\ m \in longWorms'
    /\ \A c \in Beasts \ {m} : c \in longWorms => c \in longWorms'
    /\ wsegs[n] = <<>> \/ (Here(m) /\ wormno[m] = n)
    /\ Here(m) => wormno[m] = 0 \/ wormno[m] = n
    /\ monsters' = TailOn(map, m, x, segs, t).map
    /\ wsegs' = [wsegs EXCEPT ![n] = TailOn(map, m, x, segs, t).list]
    /\ cramped' \in BOOLEAN
    /\ \A s \in Squares :
          /\ map[s] = m => s = x
          /\ map[s] = m \/ map[s] = NoBeast \/ map[s] = monsters[s]
    /\ ~cramped' =>
          /\ ~cramped /\ map[x] = m
          /\ Len(t) >= Len(segs) - 1 \/ Range(segs) \cap Squares = {}
          /\ \A s \in Squares : monsters[s] # m /\ monsters[s] # NoBeast =>
                                   map[s] = monsters[s]

(* Then the worms are sound afterwards.                                    *)
LEMMA LayTail ==
    ASSUME ZeroColumn = {}, WormInv, NEW m \in Beasts, NEW x \in Squares, NEW n \in Slots,
           NEW map \in [Squares -> Beasts \cup {NoBeast}], NEW k, NEW t,
           NEW segs \in Seq(Squares \cup {Unplaced, Colno}),
           LaysTail(m, x, n, map, k, t, segs)
    PROVE  WormInv'
<1>1. PICK tail : tail = TailOn(map, m, x, segs, t)
  OBVIOUS
<1>2. PICK l, B : l = tail.list /\ B = Range(l)
  OBVIOUS
<1>3. /\ l \in Seq(Squares) /\ l # <<>> /\ Last(l) = x
      /\ map[x] = m => IsInjective(l)
      /\ B = Range(t) \cup {x}
      /\ tail.map \in [Squares -> Beasts \cup {NoBeast}]
      /\ \A s \in Range(t) : s \in Squares /\ map[s] = NoBeast
      /\ \A s \in Squares :
           \/ tail.map[s] = NoBeast
           \/ tail.map[s] = m /\ s \in Range(t)
           \/ tail.map[s] = map[s]
      /\ Len(t) >= Len(segs) - 1 \/ Range(segs) \cap Squares = {} =>
           \A s \in Squares : tail.map[s] = IF s \in Range(t) THEN m ELSE map[s]
  <2>1. t \in Trails(map, x, k)
    BY DEF LaysTail
  <2>2. QED
    BY <1>1, <1>2, <2>1, TailOnFacts
<1>4. n # 0 /\ n \in Nat
  BY DEF Slots
<1>5. m # NoBeast
  BY WormAssumption
<1>6. /\ monsters' = tail.map /\ wsegs' = [wsegs EXCEPT ![n] = l]
  BY <1>1, <1>2 DEF LaysTail
<1>7. \A s \in Squares :
         /\ monsters'[s] = m => s \in B
         /\ monsters'[s] = m \/ monsters'[s] = NoBeast \/ monsters'[s] = monsters[s]
  BY <1>3, <1>5, <1>6 DEF LaysTail
<1>8. ASSUME ~cramped'
      PROVE  /\ ~cramped /\ IsInjective(l)
             /\ \A s \in B : monsters'[s] = m
             /\ \A s \in Squares : monsters[s] # m /\ monsters[s] # NoBeast =>
                                      monsters'[s] = monsters[s]
  <2>1. \A s \in Squares : monsters'[s] = IF s \in Range(t) THEN m ELSE map[s]
    BY <1>3, <1>6, <1>8 DEF LaysTail
  <2>2. QED
    BY <1>3, <1>8, <2>1 DEF LaysTail
<1>9. monsters' \in [Squares -> Beasts \cup {NoBeast}]
  BY <1>3, <1>6
<1>10. PutsDown(m, x, n, l, B)
  BY <1>2, <1>3, <1>4, <1>6, <1>7, <1>8, <1>9 DEF LaysTail, PutsDown
<1>11. QED
  BY <1>4, <1>10, PutStep

(* A tail that initworm makes has nothing on the map yet, but under the    *)
(* head.                                                                   *)
LEMMA InitWormFacts ==
    ASSUME NEW k \in Nat, NEW where, NEW segs, segs = InitWorm(k, where)
    PROVE  /\ segs \in Seq({where, Unplaced}) /\ Len(segs) = k + 1
           /\ k = 0 \/ Range(segs) \cap Squares = {}
           /\ where \notin Squares => Range(segs) \cap Squares = {}
<1>1. Unplaced \notin Squares
  BY DEF Unplaced, Squares
<1>2. CASE k = 0
  <2>1. segs = <<where>>
    BY <1>2 DEF InitWorm
  <2>2. segs \in Seq({where, Unplaced}) /\ Len(segs) = 1
    BY <2>1
  <2>3. Range(segs) = {where}
    BY <2>1 DEF Range
  <2>4. QED
    BY <1>2, <2>2, <2>3
<1>3. CASE k # 0
  <2>1. segs = [i \in 1 .. (k + 1) |-> Unplaced]
    BY <1>3 DEF InitWorm
  <2>2. QED
    BY <1>1, <2>1 DEF Range
<1>4. QED
  BY <1>2, <1>3

(* A monster on x that has no list yet grows a tail, or finds no slot.     *)
Grows(m, x, map) ==
    /\ GrowTail(m, x, map)
    /\ fate' = [fate EXCEPT ![m] = "here"] /\ pos' = [pos EXCEPT ![m] = x]
    /\ longWorms' = longWorms \cup {m} /\ cramped' = cramped
    /\ Here(m) => wormno[m] = 0
    /\ \A s \in Squares :
          /\ map[s] = m => s = x
          /\ map[s] = m \/ map[s] = NoBeast \/ map[s] = monsters[s]
    /\ ~cramped =>
          /\ map[x] = m
          /\ \A s \in Squares : monsters[s] # m /\ monsters[s] # NoBeast =>
                                   map[s] = monsters[s]

(* It is sound either way.                                                 *)
LEMMA GrowTailStep ==
    ASSUME ZeroColumn = {}, WormInv, NEW m \in Beasts, NEW x \in Squares,
           NEW map \in [Squares -> Beasts \cup {NoBeast}], Grows(m, x, map)
    PROVE  WormInv'
<1> USE DEF Grows
<1>1. PICK n : n = GetWormno(wsegs)
  OBVIOUS
<1>2. n = 0 \/ (n \in Slots /\ wsegs[n] = <<>>)
  BY <1>1, FreeSlot
<1>3. /\ longWorms' \subseteq Beasts /\ m \in longWorms' /\ cramped' \in BOOLEAN
      /\ \A c \in Beasts \ {m} : c \in longWorms => c \in longWorms'
  BY DEF WormInv, WormTypes
<1>4. CASE n = 0
  <2>1. /\ monsters' = map /\ wormno' = [wormno EXCEPT ![m] = 0] /\ wsegs' = wsegs
    BY <1>1, <1>4 DEF GrowTail
  <2>2. longWorms \ {m} \subseteq longWorms'
    OBVIOUS
  <2>3. Stands(m, x, map)
    BY <1>3, <2>1, <2>2 DEF Stands
  <2>4. QED
    BY <2>3, PlainStep
<1>5. CASE n # 0
  <2>1. PICK k \in 0 .. (MaxSegs - 1) : \E t \in Trails(map, x, k) :
                LET tail == TailOn(map, m, x, InitWorm(k, x), t)
                IN  /\ monsters' = tail.map
                    /\ wormno' = [wormno EXCEPT ![m] = n]
                    /\ wsegs' = [wsegs EXCEPT ![n] = tail.list]
    BY <1>1, <1>5 DEF GrowTail
  <2>2. PICK t \in Trails(map, x, k) :
                /\ monsters' = TailOn(map, m, x, InitWorm(k, x), t).map
                /\ wormno' = [wormno EXCEPT ![m] = n]
                /\ wsegs' = [wsegs EXCEPT ![n] = TailOn(map, m, x, InitWorm(k, x), t).list]
    BY <2>1
  <2>3. PICK segs : segs = InitWorm(k, x)
    OBVIOUS
  <2>4. k \in Nat
    OBVIOUS
  <2>5. /\ segs \in Seq({x, Unplaced}) /\ Len(segs) = k + 1
        /\ k = 0 \/ Range(segs) \cap Squares = {}
    BY <2>3, <2>4, InitWormFacts
  <2>6. Len(t) >= Len(segs) - 1 \/ Range(segs) \cap Squares = {}
    <3>1. t \in Seq(Squares)
      BY TrailFacts
    <3>2. Len(t) \in Nat
      BY <3>1
    <3>3. QED
      BY <2>5, <3>2
  <2>7. /\ monsters' = TailOn(map, m, x, segs, t).map
        /\ wormno' = [wormno EXCEPT ![m] = n]
        /\ wsegs' = [wsegs EXCEPT ![n] = TailOn(map, m, x, segs, t).list]
    BY <2>2, <2>3
  <2>8. /\ n \in Slots
        /\ wsegs[n] = <<>> \/ (Here(m) /\ wormno[m] = n)
        /\ Here(m) => wormno[m] = 0 \/ wormno[m] = n
    BY <1>2, <1>5
  <2>9. ~cramped' =>
          /\ ~cramped /\ map[x] = m
          /\ Len(t) >= Len(segs) - 1 \/ Range(segs) \cap Squares = {}
          /\ \A s \in Squares : monsters[s] # m /\ monsters[s] # NoBeast =>
                                   map[s] = monsters[s]
    BY <2>6
  <2>10. QED
    <3>1. segs \in Seq(Squares \cup {Unplaced, Colno})
      BY <2>5
    <3>2. LaysTail(m, x, n, map, k, t, segs)
      BY <1>3, <2>7, <2>8, <2>9 DEF LaysTail
    <3>3. QED
      BY <2>8, <3>1, <3>2, LayTail
<1>6. QED
  BY <1>4, <1>5

(* rloc_to puts a monster that the map does not show any more down at x.   *)
Relocates(m, x, map, n, segs) ==
    /\ RelocTo(m, x, map, n, segs)
    /\ fate' = [fate EXCEPT ![m] = "here"] /\ pos' = [pos EXCEPT ![m] = x]
    /\ wormno' = [wormno EXCEPT ![m] = n] /\ longWorms' = longWorms
    /\ monsters[x] = NoBeast
    /\ n = 0 => (Here(m) => wormno[m] = 0)
    /\ n # 0 => /\ n \in Slots /\ m \in longWorms
                /\ wsegs[n] = <<>> \/ (Here(m) /\ wormno[m] = n)
                /\ Here(m) => wormno[m] = 0 \/ wormno[m] = n
                /\ segs \in Seq(Squares \cup {Unplaced, Colno}) /\ Len(segs) # 0
                /\ segs \in Seq(Squares) \/ Range(segs) \cap Squares = {}
    /\ \A s \in Squares : map[s] # m /\ (map[s] = NoBeast \/ map[s] = monsters[s])
    /\ ~cramped => \A s \in Squares : monsters[s] # m /\ monsters[s] # NoBeast =>
                                           map[s] = monsters[s]

(* Its tail follows, all of it or cut short.                               *)
LEMMA RelocStep ==
    ASSUME ZeroColumn = {}, WormInv, NEW m \in Beasts, NEW x \in Squares, NEW n \in Nat,
           NEW map \in [Squares -> Beasts \cup {NoBeast}],
           NEW segs, Relocates(m, x, map, n, segs)
    PROVE  WormInv'
<1> USE DEF Relocates
<1>1. PICK put : put = Occupied(map, m, {x})
  OBVIOUS
<1>2. /\ put \in [Squares -> Beasts \cup {NoBeast}]
      /\ \A s \in Squares : put[s] = IF s \in {x} THEN m ELSE map[s]
  BY <1>1 DEF Cleared, Occupied
<1>3. /\ longWorms \subseteq Beasts /\ cramped \in BOOLEAN
      /\ \A c \in Beasts \ {m} : c \in longWorms => c \in longWorms'
  BY DEF WormInv, WormTypes
<1>4. \A s \in Squares :
         /\ put[s] = m => s = x
         /\ put[s] = m \/ put[s] = NoBeast \/ put[s] = monsters[s]
  BY <1>2
<1>5. ~cramped => /\ put[x] = m
                  /\ \A s \in Squares : monsters[s] # m /\ monsters[s] # NoBeast =>
                                           put[s] = monsters[s]
  BY <1>2
<1>6. CASE n = 0
  <2>1. monsters' = put /\ wsegs' = wsegs /\ cramped' = cramped
    BY <1>1, <1>6 DEF RelocTo
  <2>2. /\ longWorms' \subseteq Beasts /\ longWorms \ {m} \subseteq longWorms'
        /\ wormno' = [wormno EXCEPT ![m] = 0]
    BY <1>3, <1>6
  <2>3. Stands(m, x, put)
    BY <1>4, <1>5, <1>6, <2>1, <2>2 DEF Stands
  <2>4. QED
    BY <1>2, <2>3, PlainStep
<1>7. CASE n # 0
  <2>1. PICK k : k = Len(segs) - 1
    OBVIOUS
  <2>2. PICK t \in Trails(put, x, k) :
           LET tail == TailOn(put, m, x, segs, t)
           IN  /\ monsters' = tail.map
               /\ wsegs' = [wsegs EXCEPT ![n] = tail.list]
               /\ cramped' = (cramped \/ (Len(t) < Len(segs) - 1 /\ segs[1] \in Squares))
    BY <1>1, <1>7, <2>1 DEF RelocTo
  <2>3. t \in Trails(put, x, k)
    OBVIOUS
  <2>4. /\ monsters' = TailOn(put, m, x, segs, t).map
        /\ wsegs' = [wsegs EXCEPT ![n] = TailOn(put, m, x, segs, t).list]
        /\ cramped' = (cramped \/ (Len(t) < Len(segs) - 1 /\ segs[1] \in Squares))
    BY <2>2
  <2>5. cramped' \in BOOLEAN
    BY <1>3, <2>4
  <2>6. ~cramped' => Len(t) >= Len(segs) - 1 \/ Range(segs) \cap Squares = {}
    <3>1. t \in Seq(Squares) /\ segs \in Seq(Squares \cup {Unplaced, Colno}) /\ Len(segs) # 0
      BY <1>7, TrailFacts
    <3>2. PICK i \in Nat, j \in Nat : i = Len(t) /\ j = Len(segs) /\ j # 0
      BY <3>1
    <3>3. segs \in Seq(Squares) => segs[1] \in Squares
      BY <3>2
    <3>4. ~cramped' => ~(i < j - 1) \/ segs[1] \notin Squares
      BY <2>4, <3>2
    <3>5. ~(i < j - 1) => i >= j - 1
      OBVIOUS
    <3>6. QED
      BY <1>7, <3>2, <3>3, <3>4, <3>5
  <2>7. LaysTail(m, x, n, put, k, t, segs)
    BY <1>3, <1>4, <1>5, <1>7, <2>3, <2>4, <2>5, <2>6 DEF LaysTail
  <2>8. QED
    BY <1>2, <1>7, <2>7, LayTail
<1>8. QED
  BY <1>6, <1>7

(* makemon.                                                                *)
LEMMA MakeMonStep ==
    ASSUME ZeroColumn = {}, WormInv, NEW m \in Beasts, NEW x \in Squares,
           NEW isWorm \in BOOLEAN, MakeMon(m, x, isWorm)
    PROVE  WormInv'
<1>1. /\ ~Here(m) /\ monsters[x] = NoBeast /\ cramped' = cramped
      /\ fate' = [fate EXCEPT ![m] = "here"] /\ pos' = [pos EXCEPT ![m] = x]
  BY DEF MakeMon, GoodPos, Here
<1>2. PICK map : map = Occupied(monsters, m, {x})
  OBVIOUS
<1>3. \A s \in Squares : monsters[s] # m
  BY <1>1, BodyFacts
<1>4. /\ map \in [Squares -> Beasts \cup {NoBeast}]
      /\ \A s \in Squares : map[s] = IF s \in {x} THEN m ELSE monsters[s]
  <2>1. monsters \in [Squares -> Beasts \cup {NoBeast}]
    BY DEF WormInv, WormTypes
  <2>2. QED
    BY <1>2, <2>1 DEF Cleared, Occupied
<1>5. \A s \in Squares :
         /\ map[s] = m => s = x
         /\ map[s] = m \/ map[s] = NoBeast \/ map[s] = monsters[s]
  BY <1>3, <1>4
<1>6. /\ map[x] = m
      /\ \A s \in Squares : monsters[s] # m /\ monsters[s] # NoBeast => map[s] = monsters[s]
  BY <1>1, <1>4
<1>7. CASE isWorm
  <2>1. longWorms' = longWorms \cup {m} /\ GrowTail(m, x, map)
    BY <1>2, <1>7 DEF MakeMon
  <2>2. Grows(m, x, map)
    BY <1>1, <1>5, <1>6, <2>1 DEF Grows
  <2>3. QED
    BY <1>4, <2>2, GrowTailStep
<1>8. CASE ~isWorm
  <2>1. /\ monsters' = map /\ wsegs' = wsegs
        /\ longWorms' = longWorms \ {m} /\ wormno' = [wormno EXCEPT ![m] = 0]
    BY <1>2, <1>8 DEF MakeMon
  <2>2. Stands(m, x, map)
    <3>1. longWorms \subseteq Beasts
      BY DEF WormInv, WormTypes
    <3>2. QED
      BY <1>1, <1>5, <1>6, <2>1, <3>1 DEF Stands
  <2>3. QED
    BY <1>4, <2>2, PlainStep
<1>9. QED
  BY <1>7, <1>8

(* m_move of a monster without a tail, and of a worm.                      *)
LEMMA MonMoveStep ==
    ASSUME ZeroColumn = {}, WormInv, NEW m \in Beasts, NEW y \in Squares, MonMove(m, y)
    PROVE  WormInv'
<1>1. /\ Here(m) /\ monsters[y] = NoBeast /\ fate' = fate /\ longWorms' = longWorms
      /\ cramped' = cramped /\ wormno' = wormno /\ pos' = [pos EXCEPT ![m] = y]
  BY DEF MonMove, GoodPos, Here
<1>2. /\ fate \in [Beasts -> {"here", "migrating", "gone"}] /\ wormno \in [Beasts -> Nat]
      /\ monsters \in [Squares -> Beasts \cup {NoBeast}]
      /\ longWorms \subseteq Beasts /\ cramped \in BOOLEAN
  BY DEF WormInv, WormTypes
<1>3. /\ fate' = [fate EXCEPT ![m] = "here"]
      /\ wormno' = [wormno EXCEPT ![m] = wormno[m]]
  BY <1>1, <1>2 DEF Here
<1>4. PICK p, n : p = pos[m] /\ n = wormno[m]
  OBVIOUS
<1>5. /\ m # NoBeast /\ p \in Squares /\ n \in Nat
      /\ \A s \in Squares : monsters[s] = m => s \in Body(m)
      /\ ~cramped => \A s \in Body(m) : monsters[s] = m
  BY <1>1, <1>2, <1>4, BodyFacts
<1>6. CASE n = 0
  <2>1. monsters' = Occupied(Cleared(monsters, {p}), m, {y}) /\ wsegs' = wsegs
    BY <1>4, <1>6 DEF MonMove, LiftedOff
  <2>2. Body(m) = {p}
    BY <1>1, <1>4, <1>6, BodyFacts
  <2>3. PICK map : map = Occupied(Cleared(monsters, {p}), m, {y})
    OBVIOUS
  <2>4. /\ map \in [Squares -> Beasts \cup {NoBeast}]
        /\ \A s \in Squares : map[s] = IF s \in {y} THEN m
                                       ELSE IF s \in {p} THEN NoBeast ELSE monsters[s]
    <3>1. PICK mid : mid = Cleared(monsters, {p})
      OBVIOUS
    <3>2. /\ mid \in [Squares -> Beasts \cup {NoBeast}]
          /\ \A s \in Squares : mid[s] = IF s \in {p} THEN NoBeast ELSE monsters[s]
      BY <1>2, <3>1 DEF Cleared, Occupied
    <3>3. /\ map \in [Squares -> Beasts \cup {NoBeast}]
          /\ \A s \in Squares : map[s] = IF s \in {y} THEN m ELSE mid[s]
      BY <2>3, <3>1, <3>2 DEF Occupied
    <3>4. QED
      BY <3>2, <3>3
  <2>5. \A s \in Squares :
           /\ map[s] = m => s = y
           /\ map[s] = m \/ map[s] = NoBeast \/ map[s] = monsters[s]
    BY <1>5, <2>2, <2>4
  <2>6. ~cramped =>
          /\ map[y] = m
          /\ \A s \in Squares : monsters[s] # m /\ monsters[s] # NoBeast =>
                                   map[s] = monsters[s]
    BY <1>1, <1>5, <2>2, <2>4
  <2>7. longWorms \ {m} \subseteq longWorms'
    BY <1>1
  <2>8. /\ monsters' = map /\ longWorms' \subseteq Beasts
        /\ wormno' = [wormno EXCEPT ![m] = 0] /\ (Here(m) => wormno[m] = 0)
    BY <1>1, <1>2, <1>3, <1>4, <1>6, <2>1, <2>3
  <2>9. Stands(m, y, map)
    BY <1>1, <1>3, <2>1, <2>5, <2>6, <2>7, <2>8 DEF Stands
  <2>10. QED
    BY <2>4, <2>9, PlainStep
<1>7. CASE n # 0
  <2>1. PICK old : old = wsegs[n]
    OBVIOUS
  <2>2. /\ n \in Slots /\ m \in longWorms
        /\ old \in Seq(Squares) /\ old # <<>> /\ Last(old) = p
        /\ Body(m) = Range(old)
        /\ ~cramped => IsInjective(old)
    BY <1>1, <1>4, <1>7, <2>1, BodyFacts
  <2>3. PICK map : map = Occupied(Cleared(monsters, {p}), m, {y, p})
    OBVIOUS
  <2>4. /\ map \in [Squares -> Beasts \cup {NoBeast}]
        /\ \A s \in Squares : map[s] = IF s \in {y, p} THEN m ELSE monsters[s]
    <3>1. PICK mid : mid = Cleared(monsters, {p})
      OBVIOUS
    <3>2. /\ mid \in [Squares -> Beasts \cup {NoBeast}]
          /\ \A s \in Squares : mid[s] = IF s \in {p} THEN NoBeast ELSE monsters[s]
      BY <1>2, <3>1 DEF Cleared, Occupied
    <3>3. /\ map \in [Squares -> Beasts \cup {NoBeast}]
          /\ \A s \in Squares : map[s] = IF s \in {y, p} THEN m ELSE mid[s]
      BY <2>3, <3>1, <3>2 DEF Occupied
    <3>4. QED
      BY <3>2, <3>3
  <2>5. PICK long : long = Append(old, y)
    OBVIOUS
  <2>6. /\ long \in Seq(Squares) /\ long # <<>> /\ Last(long) = y
        /\ Range(long) = Range(old) \cup {y}
        /\ IsInjective(old) /\ y \notin Range(old) => IsInjective(long)
    BY <2>2, <2>5, AppendFacts
  <2>7. ~cramped => IsInjective(long)
    BY <1>1, <1>5, <2>2, <2>6
  <2>8. p \in Range(old)
    <3>1. Len(old) \in DOMAIN old
      BY <2>2
    <3>2. QED
      BY <2>2, <3>1 DEF Last, Range
  <2>9. /\ \A s \in Squares : map[s] = m => s \in Range(long)
        /\ \A s \in Squares : map[s] = m \/ map[s] = monsters[s]
        /\ ~cramped => \A s \in Range(long) : map[s] = m
    <3>1. \A s \in Squares : monsters[s] = m => s \in Range(old)
      BY <1>5, <2>2
    <3>2. y \in Range(long) /\ p \in Range(long)
      BY <2>6, <2>8
    <3>3. \A s \in Squares : map[s] = m => s \in Range(long)
      BY <2>4, <2>6, <3>1, <3>2
    <3>4. \A s \in Squares : map[s] = m \/ map[s] = monsters[s]
      BY <2>4
    <3>5. Range(long) \subseteq Squares
      BY <2>6, RangeFacts
    <3>6. ~cramped => \A s \in Range(long) : map[s] = m
      BY <1>5, <2>2, <2>4, <2>6, <3>5
    <3>7. QED
      BY <3>3, <3>4, <3>6
  <2>10. \A s \in Squares : monsters[s] # m /\ monsters[s] # NoBeast /\ ~cramped =>
                               map[s] = monsters[s] /\ s \notin Range(long)
    BY <1>1, <1>5, <2>2, <2>4, <2>6, <2>8
  <2>11. PICK sh : sh = ShrinkWorm(map, long)
    OBVIOUS
  <2>12. \/ monsters' = map /\ wsegs' = [wsegs EXCEPT ![n] = long]
         \/ monsters' = sh.map /\ wsegs' = [wsegs EXCEPT ![n] = sh.list]
    BY <1>4, <1>7, <2>1, <2>2, <2>3, <2>5, <2>11 DEF MonMove, WormMove
  <2>13. PICK l, B : l = wsegs'[n] /\ B = Range(l)
    OBVIOUS
  <2>14. wsegs \in [Slots -> Seq(Squares)]
    BY DEF WormInv, WormTypes
  <2>15. /\ monsters' \in [Squares -> Beasts \cup {NoBeast}]
         /\ l \in Seq(Squares) /\ l # <<>> /\ Last(l) = y
         /\ wsegs' = [wsegs EXCEPT ![n] = l]
         /\ ~cramped => IsInjective(l)
         /\ \A s \in Squares :
              /\ monsters'[s] = m => s \in B
              /\ monsters'[s] = m \/ monsters'[s] = NoBeast \/ monsters'[s] = monsters[s]
         /\ ~cramped =>
              /\ \A s \in B : monsters'[s] = m
              /\ \A s \in Squares : monsters[s] # m /\ monsters[s] # NoBeast =>
                                       monsters'[s] = monsters[s]
    <3>1. CASE monsters' = map /\ wsegs' = [wsegs EXCEPT ![n] = long]
      <4>1. l = long /\ B = Range(long)
        BY <2>2, <2>13, <2>14, <3>1
      <4>2. QED
        BY <2>4, <2>6, <2>7, <2>9, <2>10, <3>1, <4>1
    <3>2. CASE monsters' = sh.map /\ wsegs' = [wsegs EXCEPT ![n] = sh.list]
      <4>1. l = sh.list /\ B = Range(sh.list)
        BY <2>2, <2>13, <2>14, <3>2
      <4>2. /\ sh.list \in Seq(Squares) /\ sh.list # <<>> /\ Last(sh.list) = Last(long)
            /\ IsInjective(long) => IsInjective(sh.list)
            /\ Range(sh.list) \subseteq Range(long)
            /\ sh.map \in [Squares -> Beasts \cup {NoBeast}]
            /\ \A s \in Squares :
                  /\ sh.map[s] = NoBeast \/ sh.map[s] = map[s]
                  /\ s \in Range(long) /\ s \notin Range(sh.list) => sh.map[s] = NoBeast
                  /\ sh.map[s] # map[s] => s \in Range(long)
                  /\ IsInjective(long) /\ s \in Range(sh.list) => sh.map[s] = map[s]
        BY <2>4, <2>6, <2>11, ShrinkFacts
      <4>3. Range(long) \subseteq Squares
        BY <2>6, RangeFacts
      <4>4. /\ \A s \in Squares : sh.map[s] = m => s \in Range(sh.list)
            /\ \A s \in Squares :
                 sh.map[s] = m \/ sh.map[s] = NoBeast \/ sh.map[s] = monsters[s]
        BY <1>5, <2>9, <4>2
      <4>5. ~cramped =>
              /\ \A s \in Range(sh.list) : sh.map[s] = m
              /\ \A s \in Squares : monsters[s] # m /\ monsters[s] # NoBeast =>
                                       sh.map[s] = monsters[s]
        BY <2>7, <2>9, <2>10, <4>2, <4>3
      <4>6. QED
        BY <2>6, <2>7, <3>2, <4>1, <4>2, <4>4, <4>5
    <3>3. QED
      BY <2>12, <3>1, <3>2
  <2>16. PutsDown(m, y, n, l, B)
    BY <1>1, <1>2, <1>3, <1>4, <1>7, <2>2, <2>13, <2>15 DEF PutsDown
  <2>17. QED
    BY <1>5, <2>16, PutStep
<1>8. QED
  BY <1>6, <1>7

(* A worm that stays where it is keeps the part of its list that the map   *)
(* still shows: shrink_worm and cutworm.                                   *)
KeepsPart(m, n, part) ==
    /\ Here(m) /\ n = wormno[m] /\ n # 0
    /\ fate' = fate /\ pos' = pos /\ wormno' = wormno
    /\ longWorms' = longWorms /\ cramped' = cramped
    /\ wsegs' = [wsegs EXCEPT ![n] = part]
    /\ part \in Seq(Squares) /\ part # <<>> /\ Last(part) = Last(wsegs[n])
    /\ IsInjective(wsegs[n]) => IsInjective(part)
    /\ Range(part) \subseteq Range(wsegs[n])
    /\ monsters' \in [Squares -> Beasts \cup {NoBeast}]
    /\ \A s \in Squares :
          /\ monsters'[s] = NoBeast \/ monsters'[s] = monsters[s]
          /\ s \in Range(wsegs[n]) /\ s \notin Range(part) => monsters'[s] = NoBeast
          /\ monsters'[s] # monsters[s] => s \in Range(wsegs[n])
          /\ IsInjective(wsegs[n]) /\ s \in Range(part) => monsters'[s] = monsters[s]

(* Nothing else is disturbed.                                              *)
LEMMA PartStep ==
    ASSUME WormInv, NEW m \in Beasts, NEW n, NEW part, KeepsPart(m, n, part)
    PROVE  WormInv'
<1> USE DEF KeepsPart
<1>1. /\ fate \in [Beasts -> {"here", "migrating", "gone"}] /\ wormno \in [Beasts -> Nat]
      /\ pos \in [Beasts -> Squares \cup {Colno}]
      /\ longWorms \subseteq Beasts /\ cramped \in BOOLEAN
  BY DEF WormInv, WormTypes
<1>2. PICK p : p = pos[m]
  OBVIOUS
<1>3. /\ fate' = [fate EXCEPT ![m] = "here"] /\ pos' = [pos EXCEPT ![m] = p]
      /\ wormno' = [wormno EXCEPT ![m] = n]
  BY <1>1, <1>2 DEF Here
<1>4. PICK old : old = wsegs[n]
  OBVIOUS
<1>5. /\ n \in Slots /\ m \in longWorms /\ old \in Seq(Squares)
      /\ Last(old) = p /\ p \in Squares /\ m # NoBeast
      /\ ~cramped => IsInjective(old)
      /\ \A s \in Squares : monsters[s] = m => s \in Range(old)
      /\ ~cramped => \A s \in Range(old) : monsters[s] = m
  BY <1>2, <1>4, BodyFacts
<1>6. Range(part) \subseteq Squares
  BY RangeFacts
<1>7. \A s \in Squares :
         /\ monsters'[s] = m => s \in Range(part)
         /\ monsters'[s] = m \/ monsters'[s] = NoBeast \/ monsters'[s] = monsters[s]
  BY <1>4, <1>5
<1>8. ~cramped =>
         /\ \A s \in Range(part) : monsters'[s] = m
         /\ \A s \in Squares : monsters[s] # m /\ monsters[s] # NoBeast =>
                                  monsters'[s] = monsters[s]
  BY <1>4, <1>5, <1>6
<1>9. n \in Nat
  BY <1>1
<1>10. PutsDown(m, p, n, part, Range(part))
  BY <1>1, <1>3, <1>4, <1>5, <1>7, <1>8 DEF PutsDown
<1>11. QED
  BY <1>5, <1>9, <1>10, PutStep

(* worm_nomove, and cutworm at the end of the tail.                        *)
LEMMA ShrinkStep ==
    ASSUME ZeroColumn = {}, WormInv, NEW m \in Beasts, Here(m), wormno[m] # 0,
           NEW sh, sh = ShrinkWorm(monsters, wsegs[wormno[m]]),
           monsters' = sh.map, wsegs' = [wsegs EXCEPT ![wormno[m]] = sh.list],
           UNCHANGED <<pos, fate, longWorms, wormno, cramped>>
    PROVE  WormInv'
<1>1. PICK n, old : n = wormno[m] /\ old = wsegs[n]
  OBVIOUS
<1>2. old \in Seq(Squares) /\ old # <<>>
  BY <1>1, BodyFacts
<1>3. monsters \in [Squares -> Beasts \cup {NoBeast}]
  BY DEF WormInv, WormTypes
<1>4. PICK map : map = monsters
  OBVIOUS
<1>5. /\ sh.list \in Seq(Squares) /\ sh.list # <<>> /\ Last(sh.list) = Last(old)
      /\ IsInjective(old) => IsInjective(sh.list)
      /\ Range(sh.list) \subseteq Range(old)
      /\ sh.map \in [Squares -> Beasts \cup {NoBeast}]
      /\ \A s \in Squares :
            /\ sh.map[s] = NoBeast \/ sh.map[s] = map[s]
            /\ s \in Range(old) /\ s \notin Range(sh.list) => sh.map[s] = NoBeast
            /\ sh.map[s] # map[s] => s \in Range(old)
            /\ IsInjective(old) /\ s \in Range(sh.list) => sh.map[s] = map[s]
  BY <1>1, <1>2, <1>3, <1>4, ShrinkFacts
<1>6. KeepsPart(m, n, sh.list)
  BY <1>1, <1>4, <1>5 DEF KeepsPart
<1>7. QED
  BY <1>6, PartStep

(* worm_nomove.                                                            *)
LEMMA WormNoMoveStep ==
    ASSUME ZeroColumn = {}, WormInv, NEW m \in Beasts, WormNoMove(m)
    PROVE  WormInv'
BY ShrinkStep DEF WormNoMove, Here

(* cutworm behind the end of the tail, where the worm has the square       *)
(* segs[i]: the tail end dies or becomes a worm of its own.                *)
LEMMA CutAtStep ==
    ASSUME ZeroColumn = {}, WormInv, NEW m \in Beasts, Here(m), wormno[m] # 0,
           NEW i \in 1 .. (Len(wsegs[wormno[m]]) - 1), CutAt(m, i), cramped' = cramped
    PROVE  WormInv'
<1>1. PICK n, old : n = wormno[m] /\ old = wsegs[n]
  OBVIOUS
<1>2. /\ n \in Slots /\ m \in longWorms /\ old \in Seq(Squares) /\ old # <<>>
      /\ Last(old) = pos[m] /\ Body(m) = Range(old)
      /\ ~cramped => IsInjective(old)
      /\ \A s \in Squares : monsters[s] = m => s \in Range(old)
      /\ ~cramped => \A s \in Range(old) : monsters[s] = m
      /\ m # NoBeast
  BY <1>1, BodyFacts
<1>3. PICK lost, rest : lost = SubSeq(old, 1, i) /\ rest = SubSeq(old, i + 1, Len(old))
  OBVIOUS
<1>4. /\ lost \in Seq(Squares) /\ rest \in Seq(Squares) /\ lost # <<>> /\ rest # <<>>
      /\ Last(rest) = Last(old) /\ Last(lost) = old[i]
      /\ Range(old) = Range(lost) \cup Range(rest)
      /\ IsInjective(old) => /\ IsInjective(lost) /\ IsInjective(rest)
                             /\ Range(lost) \cap Range(rest) = {}
  <2>1. Parts(Squares, old, i, lost, rest)
    BY <1>1, <1>2, <1>3, CutFacts
  <2>2. QED
    BY <2>1 DEF Parts
<1>5. /\ monsters \in [Squares -> Beasts \cup {NoBeast}]
      /\ wsegs \in [Slots -> Seq(Squares)] /\ longWorms \subseteq Beasts
      /\ pos \in [Beasts -> Squares \cup {Colno}]
      /\ fate \in [Beasts -> {"here", "migrating", "gone"}]
      /\ wormno \in [Beasts -> Nat] /\ cramped \in BOOLEAN
  BY DEF WormInv, WormTypes
<1>6. CASE /\ monsters' = Tossed(monsters, lost)
           /\ wsegs' = [wsegs EXCEPT ![n] = rest]
           /\ UNCHANGED <<pos, fate, longWorms, wormno>>
  <2>1. PICK map : map = Tossed(monsters, lost)
    OBVIOUS
  <2>2. /\ map \in [Squares -> Beasts \cup {NoBeast}]
        /\ \A s \in Squares : map[s] = IF s \in Range(lost) THEN NoBeast ELSE monsters[s]
    <3>1. map = [s \in Squares |-> IF s \in Range(lost) THEN NoBeast ELSE monsters[s]]
      BY <2>1, TossedFacts
    <3>2. QED
      BY <1>5, <3>1
  <2>3. \A s \in Squares :
          /\ map[s] = NoBeast \/ map[s] = monsters[s]
          /\ s \in Range(old) /\ s \notin Range(rest) => map[s] = NoBeast
          /\ map[s] # monsters[s] => s \in Range(old)
          /\ IsInjective(old) /\ s \in Range(rest) => map[s] = monsters[s]
    BY <1>4, <2>2
  <2>4. KeepsPart(m, n, rest)
    BY <1>1, <1>4, <1>6, <2>1, <2>2, <2>3 DEF KeepsPart
  <2>5. QED
    BY <2>4, PartStep
<1>7. ASSUME NEW k, k = GetWormno(wsegs), k # 0, NEW c \in Beasts,
             fate[c] = "gone", fate' = [fate EXCEPT ![c] = "here"],
             pos' = [pos EXCEPT ![c] = old[i]], longWorms' = longWorms \cup {c},
             wormno' = [wormno EXCEPT ![c] = k],
             wsegs' = [wsegs EXCEPT ![n] = rest, ![k] = lost],
             monsters' = Occupied(monsters, c, Range(lost))
      PROVE  WormInv'
  <2>1. k \in Slots /\ wsegs[k] = <<>> /\ k # n
    BY <1>1, <1>2, <1>7, FreeSlot
  <2>2. ~Here(c) /\ c # m /\ c # NoBeast
    BY <1>7, WormAssumption DEF Here
  <2>3. \A s \in Squares : monsters[s] # c
    BY <2>2, BodyFacts
  <2>4. old[i] \in Squares
    <3>1. i \in 1 .. Len(old)
      BY <1>1, <1>2
    <3>2. QED
      BY <1>2, <3>1
  <2>5. /\ wsegs' \in [Slots -> Seq(Squares)]
        /\ wsegs'[n] = rest /\ wsegs'[k] = lost
        /\ \A j \in Slots \ {n, k} : wsegs'[j] = wsegs[j]
    <3>1. PICK mid : mid = [wsegs EXCEPT ![n] = rest]
      OBVIOUS
    <3>2. mid \in [Slots -> Seq(Squares)] /\ mid[n] = rest
          /\ \A j \in Slots \ {n} : mid[j] = wsegs[j]
      BY <1>2, <1>4, <1>5, <3>1
    <3>3. wsegs' = [mid EXCEPT ![k] = lost]
      BY <1>7, <3>1
    <3>4. QED
      BY <1>2, <1>4, <2>1, <3>2, <3>3
  <2>6. /\ Here(m)' /\ pos'[m] = pos[m] /\ wormno'[m] = n
        /\ Here(c)' /\ pos'[c] = old[i] /\ wormno'[c] = k
        /\ \A b \in Beasts \ {m, c} :
              /\ pos'[b] = pos[b] /\ fate'[b] = fate[b] /\ wormno'[b] = wormno[b]
              /\ b \in longWorms => b \in longWorms'
    BY <1>1, <1>5, <1>7, <2>2 DEF Here
  <2>7. monsters' \in [Squares -> Beasts \cup {NoBeast}]
        /\ \A s \in Squares : monsters'[s] = IF s \in Range(lost) THEN c ELSE monsters[s]
    BY <1>5, <1>7 DEF Occupied
  <2>8. WormTypes'
    <3>1. /\ fate' \in [Beasts -> {"here", "migrating", "gone"}]
          /\ pos' \in [Beasts -> Squares \cup {Colno}]
          /\ longWorms' \subseteq Beasts /\ cramped' \in BOOLEAN
      BY <1>5, <1>7, <2>4
    <3>2. k \in Nat
      BY <2>1 DEF Slots
    <3>3. wormno' \in [Beasts -> Nat]
      BY <1>5, <1>7, <3>2
    <3>4. QED
      BY <2>5, <2>7, <3>1, <3>3 DEF WormTypes
  <2>9. pos[m] \in Squares /\ m \in longWorms' /\ c \in longWorms'
    BY <1>2, <1>7, BodyFacts
  <2>10. /\ \A j : Owns({m, c}, j) <=> j = n
         /\ \A j : Owns({m, c}, j)' <=> j = n \/ j = k
    BY <1>1, <2>2, <2>6 DEF Owns
  <2>11. HeadsOf({m, c})
    <3>1. /\ wsegs'[n] # <<>> /\ Last(wsegs'[n]) = pos'[m]
          /\ wsegs'[k] # <<>> /\ Last(wsegs'[k]) = pos'[c]
      BY <1>2, <1>4, <2>5, <2>6
    <3>2. QED
      BY <1>2, <2>1, <2>4, <2>6, <2>9, <2>10, <3>1 DEF HeadsOf
  <2>12. ListsOf({m, c})
    BY <2>5, <2>10 DEF ListsOf
  <2>13. Range(lost) \subseteq Squares /\ Range(rest) \subseteq Squares
    BY <1>4, RangeFacts
  <2>14. Body(m)' = Range(rest) /\ Body(c)' = Range(lost)
    <3>1. \A j \in Seq(Squares) : j # <<>> => Last(j) \in Range(j)
      BY LastFacts
    <3>2. k # 0 /\ n # 0
      BY <1>1, <1>7
    <3>3. QED
      BY <1>2, <1>4, <2>5, <2>6, <3>1, <3>2 DEF Body
  <2>15. MapOf({m, c})
    BY <1>2, <1>4, <2>2, <2>3, <2>6, <2>7, <2>14 DEF MapOf
  <2>16. NothingLost({m, c})
    <3>1. SUFFICES ASSUME ~cramped
                   PROVE  /\ Straight'
                          /\ \A s \in Range(rest) : monsters'[s] = m
                          /\ \A s \in Range(lost) : monsters'[s] = c
                          /\ \A s \in Squares : monsters[s] \notin {m, c} \cup {NoBeast} =>
                                                   monsters'[s] = monsters[s]
      BY <2>14 DEF NothingLost
    <3>2. Straight'
      BY <1>2, <1>4, <2>5, <3>1 DEF Straight, WormInv
    <3>3. /\ \A s \in Range(rest) : monsters'[s] = m
          /\ \A s \in Range(lost) : monsters'[s] = c
      BY <1>2, <1>4, <2>7, <2>13, <3>1
    <3>4. \A s \in Squares : monsters[s] \notin {m, c} \cup {NoBeast} =>
                               monsters'[s] = monsters[s]
      BY <1>2, <1>4, <2>7, <3>1
    <3>5. QED
      BY <3>2, <3>3, <3>4
  <2>17. \A b \in Beasts \ {m, c} :
            /\ pos'[b] = pos[b] /\ fate'[b] = fate[b] /\ wormno'[b] = wormno[b]
            /\ b \in longWorms => b \in longWorms'
    BY <2>6
  <2>18. {m, c} \in SUBSET Beasts
    OBVIOUS
  <2>19. QED
    BY <2>8, <2>11, <2>12, <2>15, <2>16, <2>17, <2>18, WormsChange
<1>8. QED
  BY <1>1, <1>3, <1>6, <1>7 DEF CutAt

(* cutworm.                                                                *)
LEMMA CutWormStep ==
    ASSUME ZeroColumn = {}, WormInv, NEW m \in Beasts, NEW x \in Squares, CutWorm(m, x)
    PROVE  WormInv'
<1>1. Here(m) /\ wormno[m] # 0 /\ x # pos[m] /\ cramped' = cramped
  BY DEF CutWorm, Here
<1>2. PICK old : old = wsegs[wormno[m]]
  OBVIOUS
<1>3. old \in Seq(Squares) /\ Last(old) = pos[m]
  BY <1>1, <1>2, BodyFacts
<1>4. PICK n \in Nat : n = Len(old)
  BY <1>3
<1>5. PICK I : I = {j \in 1 .. Len(old) : old[j] = x}
  OBVIOUS
<1>6. PICK i : i = IF I # {} THEN Min(I) ELSE 0
  OBVIOUS
<1>7. i = SelectInSeq(old, LAMBDA s : s = x)
  BY <1>5, <1>6 DEF SelectInSeq
<1>8. CASE i = 1
  <2>1. PICK sh : sh = ShrinkWorm(monsters, old)
    OBVIOUS
  <2>2. /\ monsters' = sh.map /\ wsegs' = [wsegs EXCEPT ![wormno[m]] = sh.list]
        /\ UNCHANGED <<pos, fate, longWorms, wormno, cramped>>
    BY <1>2, <1>7, <1>8, <2>1 DEF CutWorm
  <2>3. QED
    BY <1>1, <1>2, <2>1, <2>2, ShrinkStep
<1>9. CASE i # 1
  <2>1. i # 0 /\ CutAt(m, i)
    BY <1>2, <1>7, <1>9 DEF CutWorm
  <2>2. I \in SUBSET Nat /\ I # {}
    BY <1>4, <1>5, <1>6, <2>1
  <2>3. i \in I
    BY <1>6, <2>2, MinFacts
  <2>4. i \in 1 .. n /\ old[i] = x
    BY <1>4, <1>5, <2>3
  <2>5. i # n
    BY <1>1, <1>3, <1>4, <2>4 DEF Last
  <2>6. i \in 1 .. (n - 1)
    BY <2>4, <2>5
  <2>7. i \in 1 .. (Len(wsegs[wormno[m]]) - 1)
    BY <1>2, <1>4, <2>6
  <2>8. QED
    BY <1>1, <2>1, <2>7, CutAtStep
<1>10. QED
  BY <1>8, <1>9

(* A monster that goes leaves nothing on the map, and takes nothing that   *)
(* is not its own.                                                         *)
OffTheMap(m, map) ==
    /\ map \in [Squares -> Beasts \cup {NoBeast}]
    /\ \A s \in Squares : map[s] # m /\ (map[s] = NoBeast \/ map[s] = monsters[s])
    /\ ~cramped => \A s \in Squares : monsters[s] # m /\ monsters[s] # NoBeast =>
                                           map[s] = monsters[s]

(* The several ways of taking it off come to the same.                     *)
LEMMA WipeFacts ==
    ASSUME ZeroColumn = {}, WormInv, NEW m \in Beasts, Here(m),
           NEW wiped, wiped = Cleared(monsters, Body(m))
    PROVE  /\ OffTheMap(m, wiped)
           /\ LiftedOff(m) = wiped
           /\ wormno[m] = 0 => Cleared(monsters, {pos[m]}) = wiped
           /\ wormno[m] # 0 =>
                /\ Tossed(Cleared(monsters, {pos[m]}), wsegs[wormno[m]]) = wiped
                /\ Cleared(Tossed(monsters, wsegs[wormno[m]]), {pos[m]}) = wiped
<1>1. /\ m # NoBeast
      /\ \A s \in Squares : monsters[s] = m => s \in Body(m)
      /\ pos[m] \in Body(m)
      /\ wormno[m] = 0 => Body(m) = {pos[m]}
      /\ wormno[m] # 0 => Body(m) = Range(wsegs[wormno[m]])
      /\ ~cramped => \A s \in Body(m) : monsters[s] = m
  BY BodyFacts DEF Body
<1>2. wiped = [s \in Squares |-> IF s \in Body(m) THEN NoBeast ELSE monsters[s]]
  BY DEF Cleared
<1>3. monsters \in [Squares -> Beasts \cup {NoBeast}]
  BY DEF WormInv, WormTypes
<1>4. /\ wiped \in [Squares -> Beasts \cup {NoBeast}]
      /\ \A s \in Squares : wiped[s] = IF s \in Body(m) THEN NoBeast ELSE monsters[s]
  BY <1>2, <1>3
<1>5. LiftedOff(m) = wiped
  BY <1>1 DEF LiftedOff
<1>6. ASSUME wormno[m] # 0
      PROVE  /\ Tossed(Cleared(monsters, {pos[m]}), wsegs[wormno[m]]) = wiped
             /\ Cleared(Tossed(monsters, wsegs[wormno[m]]), {pos[m]}) = wiped
  <2>1. PICK old : old = wsegs[wormno[m]]
    OBVIOUS
  <2>2. Body(m) = Range(old) /\ pos[m] \in Range(old)
    BY <1>1, <1>6, <2>1
  <2>3. PICK a, b : a = Cleared(monsters, {pos[m]}) /\ b = Tossed(monsters, old)
    OBVIOUS
  <2>4. /\ \A s \in Squares : a[s] = IF s \in {pos[m]} THEN NoBeast ELSE monsters[s]
        /\ b = [s \in Squares |-> IF s \in Range(old) THEN NoBeast ELSE monsters[s]]
    BY <2>3, TossedFacts DEF Cleared
  <2>5. /\ Tossed(a, old) = [s \in Squares |-> IF s \in Range(old) THEN NoBeast ELSE a[s]]
        /\ Cleared(b, {pos[m]}) = [s \in Squares |-> IF s \in {pos[m]} THEN NoBeast ELSE b[s]]
    BY TossedFacts DEF Cleared
  <2>6. Tossed(a, old) = wiped
    BY <1>2, <2>2, <2>4, <2>5
  <2>7. Cleared(b, {pos[m]}) = wiped
    BY <1>2, <2>2, <2>4, <2>5
  <2>8. QED
    BY <2>1, <2>3, <2>6, <2>7
<1>7. \A s \in Squares : wiped[s] # m /\ (wiped[s] = NoBeast \/ wiped[s] = monsters[s])
  BY <1>1, <1>4
<1>8. ~cramped => \A s \in Squares : monsters[s] # m /\ monsters[s] # NoBeast =>
                                        wiped[s] = monsters[s]
  BY <1>1, <1>4
<1>9. QED
  BY <1>1, <1>4, <1>5, <1>6, <1>7, <1>8 DEF OffTheMap

(* m_detach.                                                               *)
LEMMA DiesStep ==
    ASSUME ZeroColumn = {}, WormInv, NEW m \in Beasts, Dies(m)
    PROVE  WormInv'
<1>1. /\ Here(m) /\ fate' = [fate EXCEPT ![m] = "gone"] /\ pos' = [pos EXCEPT ![m] = Colno]
      /\ longWorms' = longWorms \ {m} /\ wormno' = [wormno EXCEPT ![m] = 0]
      /\ cramped' = cramped
  BY DEF Dies, Here
<1>2. PICK wiped : wiped = Cleared(monsters, Body(m))
  OBVIOUS
<1>3. /\ OffTheMap(m, wiped)
      /\ wormno[m] = 0 => Cleared(monsters, {pos[m]}) = wiped
      /\ wormno[m] # 0 => Tossed(Cleared(monsters, {pos[m]}), wsegs[wormno[m]]) = wiped
  BY <1>1, <1>2, WipeFacts
<1>4. /\ monsters' = wiped
      /\ wsegs' = IF wormno[m] # 0 THEN [wsegs EXCEPT ![wormno[m]] = <<>>] ELSE wsegs
  BY <1>3 DEF Dies, WormGone
<1>5. WormTypes'
  <2>1. /\ fate \in [Beasts -> {"here", "migrating", "gone"}] /\ wormno \in [Beasts -> Nat]
        /\ pos \in [Beasts -> Squares \cup {Colno}]
        /\ wsegs \in [Slots -> Seq(Squares)]
        /\ longWorms \subseteq Beasts /\ cramped \in BOOLEAN
    BY DEF WormInv, WormTypes
  <2>2. wsegs' \in [Slots -> Seq(Squares)]
    <3>1. <<>> \in Seq(Squares)
      OBVIOUS
    <3>2. QED
      BY <1>4, <2>1, <3>1
  <2>3. QED
    BY <1>1, <1>3, <1>4, <2>1, <2>2 DEF WormTypes, OffTheMap
<1>6. Leaves(m, "gone")
  BY <1>1, <1>3, <1>4, <1>5 DEF Leaves, WormInv, WormTypes, OffTheMap
<1>7. QED
  BY <1>6, LeaveStep

(* keepdogs and migrate_to_level.                                          *)
LEMMA MigrateStep ==
    ASSUME ZeroColumn = {}, WormInv, NEW m \in Beasts, Migrate(m)
    PROVE  WormInv'
<1>1. PICK n : n = IF wormno[m] = 0 THEN 0 ELSE Min({Len(wsegs[wormno[m]]) - 1, WormSlots})
  OBVIOUS
<1>2. /\ Here(m) /\ fate' = [fate EXCEPT ![m] = "migrating"]
      /\ pos' = [pos EXCEPT ![m] = Colno]
      /\ longWorms' = longWorms /\ wormno' = [wormno EXCEPT ![m] = n]
      /\ cramped' = cramped
      /\ wsegs' = IF wormno[m] = 0 THEN wsegs ELSE [wsegs EXCEPT ![wormno[m]] = <<>>]
  BY <1>1 DEF Migrate, Here
<1>3. PICK wiped : wiped = Cleared(monsters, Body(m))
  OBVIOUS
<1>4. /\ OffTheMap(m, wiped)
      /\ wormno[m] = 0 => Cleared(monsters, {pos[m]}) = wiped
      /\ wormno[m] # 0 => Cleared(Tossed(monsters, wsegs[wormno[m]]), {pos[m]}) = wiped
  BY <1>2, <1>3, WipeFacts
<1>5. monsters' = wiped
  BY <1>4 DEF Migrate
<1>6. n \in Nat
  <2>1. SUFFICES ASSUME wormno[m] # 0 PROVE n \in Nat
    BY <1>1
  <2>2. wsegs[wormno[m]] \in Seq(Squares) /\ wsegs[wormno[m]] # <<>>
    BY <1>2, <2>1, BodyFacts
  <2>3. PICK k \in Nat : k = Len(wsegs[wormno[m]])
    BY <2>2
  <2>4. k # 0
    BY <2>2, <2>3, EmptySeq
  <2>5. {k - 1, WormSlots} \in SUBSET Nat /\ {k - 1, WormSlots} # {}
    BY <2>3, <2>4, WormAssumption
  <2>6. Min({k - 1, WormSlots}) \in {k - 1, WormSlots}
    BY <2>5, MinFacts
  <2>7. QED
    BY <1>1, <2>1, <2>3, <2>5, <2>6
<1>7. WormTypes'
  <2>1. /\ fate \in [Beasts -> {"here", "migrating", "gone"}] /\ wormno \in [Beasts -> Nat]
        /\ pos \in [Beasts -> Squares \cup {Colno}]
        /\ wsegs \in [Slots -> Seq(Squares)]
        /\ longWorms \subseteq Beasts /\ cramped \in BOOLEAN
    BY DEF WormInv, WormTypes
  <2>2. wsegs' \in [Slots -> Seq(Squares)]
    <3>1. <<>> \in Seq(Squares)
      OBVIOUS
    <3>2. QED
      BY <1>2, <2>1, <3>1
  <2>3. QED
    BY <1>2, <1>4, <1>5, <1>6, <2>1, <2>2 DEF WormTypes, OffTheMap
<1>8. Leaves(m, "migrating")
  BY <1>2, <1>4, <1>5, <1>7 DEF Leaves, WormInv, WormTypes, OffTheMap
<1>9. QED
  BY <1>8, LeaveStep

(* mon_arrive on a level with no room.                                     *)
LEMMA MonArriveFailsStep ==
    ASSUME WormInv, NEW m \in Beasts, MonArriveFails(m)
    PROVE  WormInv'
<1>1. /\ ~Here(m) /\ fate' = [fate EXCEPT ![m] = "gone"] /\ longWorms' = longWorms \ {m}
      /\ wormno' = [wormno EXCEPT ![m] = 0]
      /\ monsters' = monsters /\ pos' = pos /\ wsegs' = wsegs /\ cramped' = cramped
  BY DEF MonArriveFails, Here
<1>2. \A s \in Squares : monsters[s] # m
  BY <1>1, BodyFacts
<1>3. WormTypes'
  BY <1>1 DEF WormInv, WormTypes
<1>4. Leaves(m, "gone")
  BY <1>1, <1>2, <1>3 DEF Leaves, WormInv, WormTypes
<1>5. QED
  BY <1>4, LeaveStep

(* newcham.                                                                *)
LEMMA NewChamStep ==
    ASSUME ZeroColumn = {}, WormInv, NEW m \in Beasts, NewCham(m)
    PROVE  WormInv'
<1>1. Here(m) /\ pos' = pos /\ fate' = fate /\ cramped' = cramped
  BY DEF NewCham, Here
<1>2. /\ fate \in [Beasts -> {"here", "migrating", "gone"}] /\ wormno \in [Beasts -> Nat]
      /\ pos \in [Beasts -> Squares \cup {Colno}]
      /\ monsters \in [Squares -> Beasts \cup {NoBeast}]
      /\ longWorms \subseteq Beasts /\ cramped \in BOOLEAN
  BY DEF WormInv, WormTypes
<1>3. PICK p, map : p = pos[m] /\ map = monsters
  OBVIOUS
<1>4. fate' = [fate EXCEPT ![m] = "here"] /\ pos' = [pos EXCEPT ![m] = p]
  BY <1>1, <1>2, <1>3 DEF Here
<1>5. /\ m # NoBeast /\ p \in Squares
      /\ \A s \in Squares : monsters[s] = m => s \in Body(m)
      /\ wormno[m] = 0 => Body(m) = {p}
      /\ wormno[m] # 0 => m \in longWorms
      /\ ~cramped => \A s \in Body(m) : monsters[s] = m
  BY <1>1, <1>3, BodyFacts
<1>6. CASE m \in longWorms /\ wormno[m] = 0
  <2>1. /\ monsters' = map /\ wsegs' = wsegs /\ longWorms' = longWorms \ {m}
        /\ wormno' = [wormno EXCEPT ![m] = 0]
    BY <1>3, <1>6 DEF NewCham
  <2>2. Stands(m, p, map)
    BY <1>1, <1>2, <1>3, <1>4, <1>5, <1>6, <2>1 DEF Stands
  <2>3. QED
    BY <1>2, <1>3, <1>5, <2>2, PlainStep
<1>7. CASE m \in longWorms /\ wormno[m] # 0
  <2>1. PICK old : old = wsegs[wormno[m]]
    OBVIOUS
  <2>2. /\ monsters' = Occupied(Tossed(monsters, old), m, {p})
        /\ wsegs' = [wsegs EXCEPT ![wormno[m]] = <<>>] /\ longWorms' = longWorms \ {m}
        /\ wormno' = [wormno EXCEPT ![m] = 0]
    BY <1>3, <1>7, <2>1 DEF NewCham
  <2>3. Body(m) = Range(old)
    BY <1>1, <1>7, <2>1, BodyFacts
  <2>4. PICK mid : mid = Tossed(monsters, old)
    OBVIOUS
  <2>5. mid = [s \in Squares |-> IF s \in Range(old) THEN NoBeast ELSE monsters[s]]
    BY <2>4, TossedFacts
  <2>6. /\ mid \in [Squares -> Beasts \cup {NoBeast}]
        /\ \A s \in Squares : mid[s] = IF s \in Range(old) THEN NoBeast ELSE monsters[s]
    BY <1>2, <2>5
  <2>7. /\ monsters' \in [Squares -> Beasts \cup {NoBeast}]
        /\ \A s \in Squares : monsters'[s] = IF s \in {p} THEN m ELSE mid[s]
    BY <2>2, <2>4, <2>6 DEF Occupied
  <2>8. \A s \in Squares :
           /\ monsters'[s] = m => s \in {p}
           /\ monsters'[s] = m \/ monsters'[s] = NoBeast \/ monsters'[s] = monsters[s]
    BY <1>5, <2>3, <2>6, <2>7
  <2>9. ~cramped =>
           /\ \A s \in {p} : monsters'[s] = m
           /\ \A s \in Squares : monsters[s] # m /\ monsters[s] # NoBeast =>
                                    monsters'[s] = monsters[s]
    <3>1. p \in Body(m)
      BY <1>3 DEF Body
    <3>2. QED
      BY <1>5, <2>3, <2>6, <2>7, <3>1
  <2>10. /\ longWorms' \subseteq Beasts /\ cramped' \in BOOLEAN
         /\ \A c \in Beasts \ {m} : c \in longWorms => c \in longWorms'
    BY <1>1, <1>2, <2>2
  <2>11. PutsDown(m, p, 0, <<>>, {p})
    BY <1>1, <1>4, <1>7, <2>2, <2>7, <2>8, <2>9, <2>10 DEF PutsDown
  <2>12. QED
    BY <1>5, <2>11, PutStep
<1>8. CASE m \notin longWorms
  <2>1. longWorms' = longWorms \cup {m} /\ GrowTail(m, p, map)
    BY <1>3, <1>8 DEF NewCham
  <2>2. wormno[m] = 0
    BY <1>5, <1>8
  <2>3. Grows(m, p, map)
    BY <1>1, <1>3, <1>4, <1>5, <2>1, <2>2 DEF Grows
  <2>4. QED
    BY <1>2, <1>3, <1>5, <2>3, GrowTailStep
<1>9. QED
  BY <1>6, <1>7, <1>8

(* rloc_to.                                                                *)
LEMMA RlocStep ==
    ASSUME ZeroColumn = {}, WormInv, NEW m \in Beasts, NEW x \in Squares, Rloc(m, x)
    PROVE  WormInv'
<1>1. PICK n, segs, map : /\ n = wormno[m] /\ map = LiftedOff(m)
                          /\ segs = IF wormno[m] = 0 THEN <<>> ELSE wsegs[wormno[m]]
  OBVIOUS
<1>2. /\ Here(m) /\ monsters[x] = NoBeast /\ pos' = [pos EXCEPT ![m] = x]
      /\ fate' = fate /\ longWorms' = longWorms /\ wormno' = wormno
      /\ RelocTo(m, x, map, n, segs)
  BY <1>1 DEF Rloc, GoodPos, Here
<1>3. /\ fate \in [Beasts -> {"here", "migrating", "gone"}] /\ wormno \in [Beasts -> Nat]
  BY DEF WormInv, WormTypes
<1>4. /\ fate' = [fate EXCEPT ![m] = "here"] /\ wormno' = [wormno EXCEPT ![m] = n]
  BY <1>1, <1>2, <1>3 DEF Here
<1>5. PICK wiped : wiped = Cleared(monsters, Body(m))
  OBVIOUS
<1>6. /\ OffTheMap(m, wiped)
      /\ LiftedOff(m) = wiped
  BY <1>2, <1>5, WipeFacts
<1>7. map = wiped
  BY <1>1, <1>6
<1>8. n # 0 => /\ n \in Slots /\ m \in longWorms
               /\ segs \in Seq(Squares) /\ segs # <<>>
  BY <1>1, <1>2, BodyFacts
<1>9. n # 0 => segs \in Seq(Squares \cup {Unplaced, Colno}) /\ Len(segs) # 0
  <2>1. SUFFICES ASSUME n # 0 PROVE segs \in Seq(Squares \cup {Unplaced, Colno}) /\ Len(segs) # 0
    OBVIOUS
  <2>2. segs \in Seq(Squares) /\ segs # <<>>
    BY <1>8, <2>1
  <2>3. segs \in Seq(Squares \cup {Unplaced, Colno})
    BY <2>2
  <2>4. Len(segs) # 0
    BY <2>2, EmptySeq
  <2>5. QED
    BY <2>3, <2>4
<1>10. Relocates(m, x, map, n, segs)
  BY <1>1, <1>2, <1>4, <1>6, <1>7, <1>8, <1>9 DEF Relocates, OffTheMap
<1>11. n \in Nat
  BY <1>1, <1>3
<1>12. QED
  BY <1>6, <1>7, <1>10, <1>11, RelocStep DEF OffTheMap

(* mon_arrive.                                                             *)
LEMMA MonArriveStep ==
    ASSUME ZeroColumn = {}, WormInv, NEW m \in Beasts, NEW x \in Squares, MonArrive(m, x)
    PROVE  WormInv'
<1>1. PICK n, segs, map : /\ n = IF m \in longWorms THEN GetWormno(wsegs) ELSE 0
                          /\ map = monsters /\ segs = InitWorm(wormno[m], Colno)
  OBVIOUS
<1>2. /\ ~Here(m) /\ monsters[x] = NoBeast /\ pos' = [pos EXCEPT ![m] = x]
      /\ fate' = [fate EXCEPT ![m] = "here"] /\ longWorms' = longWorms
      /\ wormno' = [wormno EXCEPT ![m] = n]
      /\ RelocTo(m, x, map, n, segs)
  BY <1>1 DEF MonArrive, GoodPos, Here
<1>3. /\ wormno \in [Beasts -> Nat] /\ monsters \in [Squares -> Beasts \cup {NoBeast}]
  BY DEF WormInv, WormTypes
<1>4. n = 0 \/ (n \in Slots /\ wsegs[n] = <<>> /\ m \in longWorms)
  BY <1>1, FreeSlot
<1>5. n \in Nat
  BY <1>4 DEF Slots
<1>6. \A s \in Squares : monsters[s] # m
  BY <1>2, BodyFacts
<1>7. PICK k \in Nat : k = wormno[m]
  BY <1>3
<1>8. Colno \notin Squares
  BY WormAssumption DEF Colno, Squares
<1>9. /\ segs \in Seq({Colno, Unplaced}) /\ Len(segs) = k + 1
      /\ Range(segs) \cap Squares = {}
  BY <1>1, <1>7, <1>8, InitWormFacts
<1>10. segs \in Seq(Squares \cup {Unplaced, Colno}) /\ Len(segs) # 0
  BY <1>9
<1>11. Relocates(m, x, map, n, segs)
  BY <1>1, <1>2, <1>4, <1>6, <1>9, <1>10 DEF Relocates
<1>12. QED
  BY <1>1, <1>3, <1>5, <1>11, RelocStep

(* rest_worm, place_monster and place_wsegs.                               *)
LEMMA RestoreStep ==
    ASSUME WormInv, Restore
    PROVE  WormInv'
<1>1. /\ monsters' \in [Squares -> Beasts \cup {NoBeast}]
      /\ UNCHANGED <<pos, fate, longWorms, wormno, wsegs, cramped>>
  BY DEF Restore
<1>2. \A s \in Squares :
         LET claims == {m \in {c \in Beasts : fate[c] = "here"} : s \in Body(m)}
         IN  IF claims = {} THEN monsters'[s] = NoBeast ELSE monsters'[s] \in claims
  BY DEF Restore
<1>3. \A s \in Squares :
         \/ /\ monsters'[s] = NoBeast
            /\ \A m \in Beasts : Here(m) => s \notin Body(m)
         \/ monsters'[s] \in Beasts /\ Here(monsters'[s]) /\ s \in Body(monsters'[s])
  <2>1. SUFFICES ASSUME NEW s \in Squares
                 PROVE  \/ /\ monsters'[s] = NoBeast
                           /\ \A m \in Beasts : Here(m) => s \notin Body(m)
                        \/ /\ monsters'[s] \in Beasts /\ Here(monsters'[s])
                           /\ s \in Body(monsters'[s])
    OBVIOUS
  <2>2. PICK claims : claims = {m \in {c \in Beasts : fate[c] = "here"} : s \in Body(m)}
    OBVIOUS
  <2>3. IF claims = {} THEN monsters'[s] = NoBeast ELSE monsters'[s] \in claims
    BY <1>2, <2>2
  <2>4. \A m : m \in claims <=> m \in Beasts /\ Here(m) /\ s \in Body(m)
    BY <2>2 DEF Here
  <2>5. QED
    BY <2>3, <2>4
<1>4. \A m : (Here(m)' <=> Here(m)) /\ Body(m)' = Body(m)
  BY <1>1 DEF Here, Body
<1>5. WormTypes' /\ HeadsArePlaced' /\ ListsAreOwned' /\ (Straight' <=> Straight)
  BY <1>1 DEF WormInv, WormTypes, HeadsArePlaced, ListsAreOwned, Straight, Here
<1>6. MapIsBacked'
  <2>1. SUFFICES ASSUME NEW s \in Squares, NEW c, c = monsters'[s], c # NoBeast
                 PROVE  Here(c)' /\ s \in Body(c)'
    BY DEF MapIsBacked, Here
  <2>2. Here(c) /\ s \in Body(c)
    BY <1>3, <2>1
  <2>3. QED
    BY <1>4, <2>2
<1>7. ASSUME ~cramped' PROVE OnMap' /\ Straight'
  <2>1. ~cramped /\ OnMap /\ Straight'
    BY <1>1, <1>5, <1>7 DEF WormInv
  <2>2. SUFFICES ASSUME NEW m \in Beasts, Here(m), NEW s \in Body(m) PROVE monsters'[s] = m
    BY <1>4, <2>1 DEF OnMap
  <2>3. s \in Squares
    BY <2>2, BodySquares
  <2>4. monsters'[s] \in Beasts /\ Here(monsters'[s]) /\ s \in Body(monsters'[s])
    BY <1>3, <2>2, <2>3
  <2>5. QED
    BY <2>1, <2>2, <2>4 DEF OnMap
<1>8. QED
  BY <1>5, <1>6, <1>7 DEF WormInv

-----------------------------------------------------------------------------

(* The invariant holds of the empty level.                                 *)
LEMMA WormStart == WormInit => WormInv
<1> SUFFICES ASSUME WormInit PROVE WormInv
  OBVIOUS
<1>1. \A m \in Beasts : ~Here(m)
  BY DEF WormInit, Here
<1>2. <<>> \in Seq(Squares) /\ IsInjective(<<>>)
  BY DEF IsInjective
<1>3. WormTypes
  BY <1>2 DEF WormInit, WormTypes
<1>4. /\ HeadsArePlaced /\ ListsAreOwned /\ MapIsBacked /\ OnMap /\ Straight
  BY <1>1, <1>2 DEF WormInit, HeadsArePlaced, ListsAreOwned, MapIsBacked, OnMap, Straight
<1>5. QED
  BY <1>3, <1>4 DEF WormInv

(* and no operation breaks it.                                             *)
LEMMA WormSteps ==
    ASSUME ZeroColumn = {}, WormInv, [WormNext]_wormVars
    PROVE  WormInv'
<1>1. CASE WormNext
  <2>1. ASSUME NEW m \in Beasts, NEW x \in Squares, NEW isWorm \in BOOLEAN,
               MakeMon(m, x, isWorm)
        PROVE  WormInv'
    BY <2>1, MakeMonStep
  <2>2. ASSUME NEW m \in Beasts, NEW x \in Squares,
               MonMove(m, x) \/ CutWorm(m, x) \/ Rloc(m, x) \/ MonArrive(m, x)
        PROVE  WormInv'
    BY <2>2, MonMoveStep, CutWormStep, RlocStep, MonArriveStep
  <2>3. ASSUME NEW m \in Beasts,
               WormNoMove(m) \/ Dies(m) \/ NewCham(m) \/ Migrate(m) \/ MonArriveFails(m)
        PROVE  WormInv'
    BY <2>3, WormNoMoveStep, DiesStep, NewChamStep, MigrateStep, MonArriveFailsStep
  <2>4. CASE Restore
    BY <2>4, RestoreStep
  <2>5. QED
    BY <1>1, <2>1, <2>2, <2>3, <2>4 DEF WormNext
<1>2. CASE UNCHANGED wormVars
  BY <1>2 DEF wormVars, WormInv, WormTypes, HeadsArePlaced, ListsAreOwned, MapIsBacked,
              OnMap, Straight, Here, Body
<1>3. QED
  BY <1>1, <1>2

(* So it always holds.                                                     *)
THEOREM WormInvariance ==
    ASSUME ZeroColumn = {}
    PROVE  WormSpec => []WormInv
<1>1. WormInit => WormInv
  BY WormStart
<1>2. WormInv /\ [WormNext]_wormVars => WormInv'
  BY WormSteps
<1>3. QED
  BY <1>1, <1>2, PTL DEF WormSpec

(* After every move, cut, change of shape, migration and restore, the map, *)
(* the lists of segments and the monsters tell of the same worms: worm.c.  *)
THEOREM TailsStaySound ==
    ASSUME ZeroColumn = {}
    PROVE  WormSpec => []TailsAreSound
<1>1. WormInv => TailsAreSound
  <2> SUFFICES ASSUME WormInv PROVE TailsAreSound
    OBVIOUS
  <2>1. MapIsBacked
    BY DEF WormInv
  <2>2. BodyIsOnMap
    <3>1. SUFFICES ASSUME ~cramped, NEW m \in Beasts, Here(m)
                   PROVE  /\ \A s \in Body(m) : s \in Squares /\ monsters[s] = m
                          /\ wormno[m] # 0 => Last(wsegs[wormno[m]]) = pos[m]
      BY DEF BodyIsOnMap, Here
    <3>2. QED
      BY <3>1, BodyFacts, BodySquares
  <2>3. SlotsAreOwned
    <3>1. SUFFICES ASSUME NEW n \in Slots, NEW owners,
                          owners = {m \in Beasts : fate[m] = "here" /\ wormno[m] = n}
                   PROVE  Cardinality(owners) = IF wsegs[n] = <<>> THEN 0 ELSE 1
      BY DEF SlotsAreOwned
    <3>2. n # 0
      BY DEF Slots
    <3>3. \A m : m \in owners <=> m \in Beasts /\ Here(m) /\ wormno[m] = n
      BY <3>1 DEF Here
    <3>4. CASE wsegs[n] = <<>>
      <4>1. owners = {}
        BY <3>2, <3>3, <3>4 DEF WormInv, HeadsArePlaced
      <4>2. QED
        BY <3>4, <4>1, FS_EmptySet
    <3>5. CASE wsegs[n] # <<>>
      <4>1. PICK m \in Beasts : Here(m) /\ wormno[m] = n
        BY <3>5 DEF WormInv, ListsAreOwned
      <4>2. owners = {m}
        BY <3>2, <3>3, <4>1 DEF WormInv, ListsAreOwned
      <4>3. QED
        BY <3>5, <4>2, FS_Singleton
    <3>6. QED
      BY <3>4, <3>5
  <2>4. QED
    BY <2>1, <2>2, <2>3 DEF TailsAreSound
<1>2. QED
  BY <1>1, WormInvariance, PTL
=============================================================================
