--------------------------- MODULE ShopBill_proofs ---------------------------
(***************************************************************************)
(* For any stock, any size of the bill and any sums of money: bill and     *)
(* objects, which shk.c keeps in step by hand, agree, if the shopkeeper is *)
(* not moved out of a shop in which something is owed.                     *)
(*                                                                         *)
(* The operations of the shop are functions of worlds: of the objects, the *)
(* bill and the books.  Each of them is shown to lead from one in which    *)
(* bill and objects agree (Good) to another; that the hero is served while *)
(* there is a bill (Served) is what makes inhishop and the code that asks  *)
(* costly_spot agree with onbill.                                          *)
(***************************************************************************)
EXTENDS ShopBill, FiniteSetTheorems, WellFoundedInduction, TLAPS

(* What objects and entries of the bill are.                               *)
Wheres == {"gone", "shop", "invent", "monster", "billobjs"}
ObjType == [where : Wheres, quan : Nat, unpaid : BOOLEAN, no_charge : BOOLEAN]
EntryType == [id : ObjIds, bquan : Nat, useup : BOOLEAN]
IsWorld(w) ==
    /\ w = [obj |-> w.obj, bill |-> w.bill, books |-> w.books]
    /\ w.obj \in [ObjIds -> ObjType] /\ w.bill \in Seq(EntryType)

Listed(b) == {b[k] : k \in DOMAIN b}
OneEach(b) == \A j, k \in DOMAIN b : b[j].id = b[k].id => j = k

(* c is the bill b without its entry k, and b with the entry e for k.      *)
Without(c, b, k) ==
    /\ c \in Seq(EntryType) /\ Len(c) = Len(b) - 1
    /\ \A j \in DOMAIN c : c[j] = IF j = k THEN b[Len(b)] ELSE b[j]
With(c, b, k, e) ==
    /\ c \in Seq(EntryType) /\ Len(c) = Len(b)
    /\ \A j \in DOMAIN c : c[j] = IF j = k THEN e ELSE b[j]

(* No entry but k is of object i.                                          *)
NoOther(b, k, i) == \A x \in Listed(b) \ {b[k]} : x.id # i

(* BillMatchesObjects, of an object and any set of entries.                *)
MatchAt(o, E, i) ==
    /\ o[i].where # "billobjs" => (o[i].unpaid <=> \E e \in E : e.id = i)
    /\ \A e \in E : e.id = i => /\ e.useup <=> o[i].where = "billobjs"
                              /\ o[i].where # "gone" /\ o[i].quan <= e.bquan
Match(o, E) == \A i \in ObjIds : MatchAt(o, E, i)

Good(w) ==
    /\ IsWorld(w) /\ OneEach(w.bill) /\ Len(w.bill) <= BillSz
    /\ Match(w.obj, Listed(w.bill))

(* There is a bill only while the hero is served.                          *)
Served(w) == w.bill # <<>> => Tended /\ ~inactive

(* No bill is opened for a shopkeeper who is away, or dead.                *)
ShopInv ==
    /\ Good(Shop) /\ Served(Shop)
    /\ home => ~inactive /\ alive
    /\ ushops => inside

-----------------------------------------------------------------------------
(* Lists of entries.                                                       *)

(* A bill is a sequence of entries.                                        *)
LEMMA ListedIs ==
    ASSUME NEW b \in Seq(EntryType)
    PROVE  /\ DOMAIN b = 1..Len(b) /\ Len(b) \in Nat /\ Listed(b) \subseteq EntryType
           /\ \A k \in DOMAIN b : b[k] \in EntryType /\ b[k] \in Listed(b)
  BY DEF Listed

(* Objects and entries match if they did, but for those that are looked at.*)
LEMMA MatchElsewhere ==
    ASSUME NEW o, NEW E, Match(o, E), NEW p, NEW F, NEW X,
           \A i \in ObjIds \ X : p[i] = o[i],
           \A e \in E : e.id \notin X => e \in F,
           \A e \in F : e.id \notin X => e \in E,
           \A i \in X : MatchAt(p, F, i)
    PROVE  Match(p, F)
<1> SUFFICES ASSUME NEW i \in ObjIds, i \notin X PROVE MatchAt(p, F, i)
  BY DEF Match
<1>1. MatchAt(o, E, i) /\ p[i] = o[i]
  BY DEF Match
<1>2. \A e : e.id = i => (e \in E <=> e \in F)
  OBVIOUS
<1>3. QED
  BY <1>1, <1>2 DEF MatchAt

(* bp = bill[--billct]: of the entries only that one goes.                 *)
LEMMA StruckOff ==
    ASSUME NEW b \in Seq(EntryType), OneEach(b), NEW k \in DOMAIN b,
           NEW c, Without(c, b, k)
    PROVE  OneEach(c) /\ Listed(c) = Listed(b) \ {b[k]}
<1>1. PICK n \in Nat : n = Len(b)
  OBVIOUS
<1>2. /\ DOMAIN b = 1..n /\ k \in 1..n /\ n \in 1..n /\ n - 1 \in Nat
      /\ \A j \in 1..n : b[j] \in EntryType
  BY <1>1
<1>3. DOMAIN c = 1..(n - 1) /\ \A j \in 1..(n - 1) : c[j] = IF j = k THEN b[n] ELSE b[j]
  BY <1>1 DEF Without
<1>4. OneEach(c)
  BY <1>2, <1>3 DEF OneEach
<1>5. Listed(c) = Listed(b) \ {b[k]}
  <2>1. ASSUME NEW e \in Listed(c) PROVE e \in Listed(b) \ {b[k]}
    BY <1>2, <1>3, <2>1 DEF Listed, OneEach
  <2>2. ASSUME NEW e \in Listed(b) \ {b[k]} PROVE e \in Listed(c)
    <3>1. PICK j \in 1..n : e = b[j] /\ j # k
      BY <1>2 DEF Listed
    <3>2. CASE j = n
      <4>1. k \in 1..(n - 1) /\ c[k] = e
        BY <1>2, <1>3, <3>1, <3>2
      <4>2. QED
        BY <1>3, <4>1 DEF Listed
    <3>3. CASE j # n
      <4>1. j \in 1..(n - 1) /\ c[j] = e
        BY <1>2, <1>3, <3>1, <3>3
      <4>2. QED
        BY <1>3, <4>1 DEF Listed
    <3>4. QED
      BY <3>2, <3>3
  <2>3. QED
    BY <2>1, <2>2
<1>6. QED
  BY <1>4, <1>5

(* A new entry.                                                            *)
LEMMA PutOn ==
    ASSUME NEW b \in Seq(EntryType), OneEach(b), NEW e \in EntryType,
           \A x \in Listed(b) : x.id # e.id
    PROVE  /\ Append(b, e) \in Seq(EntryType) /\ OneEach(Append(b, e))
           /\ Len(Append(b, e)) = Len(b) + 1 /\ Listed(Append(b, e)) = Listed(b) \cup {e}
<1>1. PICK n \in Nat : n = Len(b)
  OBVIOUS
<1>2. PICK c : c = Append(b, e)
  OBVIOUS
<1>3. /\ DOMAIN b = 1..n /\ DOMAIN c = 1..(n + 1) /\ c \in Seq(EntryType) /\ Len(c) = n + 1
      /\ c[n + 1] = e /\ \A j \in 1..n : c[j] = b[j]
  BY <1>1, <1>2
<1>4. OneEach(c)
  BY <1>3 DEF OneEach, Listed
<1>5. Listed(c) = Listed(b) \cup {e}
  <2>1. ASSUME NEW x \in Listed(c) PROVE x \in Listed(b) \cup {e}
    BY <1>3 DEF Listed
  <2>2. ASSUME NEW x \in Listed(b) PROVE x \in Listed(c)
    <3>1. PICK j \in 1..n : x = b[j]
      BY <1>3 DEF Listed
    <3>2. j \in 1..(n + 1) /\ x = c[j]
      BY <1>3, <3>1
    <3>3. QED
      BY <1>3, <3>2 DEF Listed
  <2>3. e \in Listed(c)
    <3>1. n + 1 \in 1..(n + 1)
      BY <1>1
    <3>2. QED
      BY <1>3, <3>1 DEF Listed
  <2>4. QED
    BY <2>1, <2>2, <2>3
<1>6. QED
  BY <1>1, <1>2, <1>3, <1>4, <1>5

(* An entry that is changed.                                               *)
LEMMA PutFor ==
    ASSUME NEW b \in Seq(EntryType), OneEach(b), NEW k \in DOMAIN b, NEW e \in EntryType,
           NoOther(b, k, e.id), NEW c, With(c, b, k, e)
    PROVE  OneEach(c) /\ Listed(c) = (Listed(b) \ {b[k]}) \cup {e}
<1>1. PICK n \in Nat : n = Len(b)
  OBVIOUS
<1>2. /\ DOMAIN b = 1..n /\ DOMAIN c = 1..n /\ c \in Seq(EntryType) /\ Len(c) = n
      /\ k \in 1..n /\ c[k] = e /\ \A j \in 1..n : j # k => c[j] = b[j]
  BY <1>1 DEF With
<1>3. \A j \in 1..n : j # k => b[j] \in Listed(b) \ {b[k]}
  BY <1>2 DEF OneEach, Listed
<1>4. OneEach(c)
  BY <1>2, <1>3 DEF OneEach, NoOther
<1>5. Listed(c) = (Listed(b) \ {b[k]}) \cup {e}
  <2>1. ASSUME NEW x \in Listed(c) PROVE x \in (Listed(b) \ {b[k]}) \cup {e}
    BY <1>2, <1>3 DEF Listed
  <2>2. ASSUME NEW x \in Listed(b) \ {b[k]} PROVE x \in Listed(c)
    <3>1. PICK j \in 1..n : x = b[j] /\ j # k
      BY <1>2 DEF Listed
    <3>2. QED
      BY <1>2, <3>1 DEF Listed
  <2>3. e \in Listed(c)
    BY <1>2 DEF Listed
  <2>4. QED
    BY <2>1, <2>2, <2>3
<1>6. QED
  BY <1>4, <1>5

(* onbill finds the entry of an object if there is one.                    *)
LEMMA OnBillIs ==
    ASSUME NEW w, w.bill \in Seq(EntryType), Served(w), NEW i
    PROVE  \/ OnBill(w, i) = 0 /\ \A e \in Listed(w.bill) : e.id # i
           \/ /\ OnBill(w, i) \in DOMAIN w.bill /\ OnBill(w, i) # 0
              /\ w.bill[OnBill(w, i)].id = i
<1>1. PICK b \in Seq(EntryType) : b = w.bill
  OBVIOUS
<1>2. DOMAIN b = 1..Len(b) /\ Len(b) \in Nat
  BY <1>1
<1>3. CASE inactive
  BY <1>1, <1>2, <1>3 DEF OnBill, Listed, Served
<1>4. CASE ~inactive /\ \A k \in DOMAIN b : b[k].id # i
  BY <1>1, <1>4 DEF OnBill, Listed
<1>5. CASE ~inactive /\ ~ \A k \in DOMAIN b : b[k].id # i
  <2>1. OnBill(w, i) = CHOOSE k \in DOMAIN b : b[k].id = i
    BY <1>1, <1>5 DEF OnBill
  <2>2. OnBill(w, i) \in DOMAIN b /\ b[OnBill(w, i)].id = i
    BY <1>5, <2>1
  <2>3. QED
    BY <1>1, <1>2, <2>2
<1>6. QED
  BY <1>3, <1>4, <1>5

(* What an object on nobody's bill relies on.                              *)
Held(w, i) == i \in ObjIds /\ w.obj[i].where \notin {"gone", "billobjs"}

(* next_ident: nothing refers to the object.                               *)
Fresh(w, j) ==
    j \in ObjIds /\ w.obj[j].where = "gone" /\ \A e \in Listed(w.bill) : e.id # j

(* An entry is struck off, whatever the objects.                           *)
LEMMA StrikeIs ==
    ASSUME NEW w, IsWorld(w), OneEach(w.bill), NEW k \in DOMAIN w.bill
    PROVE  LET h == Strike(w, k)
           IN  /\ IsWorld(h) /\ h.obj = w.obj /\ OneEach(h.bill) /\ Len(h.bill) = Len(w.bill) - 1
               /\ Listed(h.bill) = Listed(w.bill) \ {w.bill[k]} /\ h.books = w.books
<1> DEFINE h == Strike(w, k)
           c == SubSeq([w.bill EXCEPT ![k] = Last(w.bill)], 1, Len(w.bill) - 1)
<1>1. w.bill \in Seq(EntryType)
  BY DEF IsWorld
<1>2. /\ c \in Seq(EntryType) /\ OneEach(c) /\ Len(c) = Len(w.bill) - 1
      /\ Listed(c) = Listed(w.bill) \ {w.bill[k]}
  <2>1. PICK b \in Seq(EntryType) : \E d :
           b = w.bill /\ d = c
    BY <1>1
  <2>2. PICK d :
           b = w.bill /\ d = c
    BY <2>1
  <2>3. d = SubSeq([b EXCEPT ![k] = Last(b)], 1, Len(b) - 1) /\ k \in DOMAIN b
    BY <2>2
  <2> HIDE DEF c
  <2>4. Without(d, b, k)
    <3>1. PICK n \in Nat : n = Len(b)
      OBVIOUS
    <3>2. /\ DOMAIN b = 1..n /\ k \in 1..n /\ n \in 1..n /\ n - 1 \in Nat
          /\ \A j \in 1..n : b[j] \in EntryType
      BY <2>3, <3>1
    <3>3. Last(b) = b[n]
      BY <3>1 DEF Last
    <3>4. PICK m : m = [b EXCEPT ![k] = Last(b)]
      OBVIOUS
    <3>5. m \in Seq(EntryType) /\ Len(m) = n /\ \A j \in 1..n : m[j] = IF j = k THEN b[n] ELSE b[j]
      BY <3>1, <3>2, <3>3, <3>4
    <3>6. d = SubSeq(m, 1, n - 1)
      BY <2>3, <3>1, <3>4
    <3>7. d \in Seq(EntryType) /\ Len(d) = n - 1 /\ \A j \in 1..(n - 1) : d[j] = m[j]
      BY <3>2, <3>5, <3>6
    <3>8. DOMAIN d = 1..(n - 1) /\ \A j \in 1..(n - 1) : j \in 1..n
      BY <3>2, <3>7
    <3>9. ASSUME NEW j \in DOMAIN d PROVE d[j] = IF j = k THEN b[n] ELSE b[j]
      <4>1. d[j] = m[j]
        BY <3>7, <3>8
      <4>2. m[j] = IF j = k THEN b[n] ELSE b[j]
        BY <3>5, <3>8
      <4>3. QED
        BY <4>1, <4>2, Zenon
    <3>10. QED
      BY <3>1, <3>7, <3>9 DEF Without
  <2>5. OneEach(d) /\ Listed(d) = Listed(b) \ {b[k]}
    BY <2>2, <2>3, <2>4, StruckOff
  <2>6. QED
    BY <2>2, <2>4, <2>5 DEF Without
<1>3. PICK o : o = w.obj
  OBVIOUS
<1>4. PICK y : y = w.books
  OBVIOUS
<1>5. PICK b : b = w.bill
  OBVIOUS
<1>6. w = [obj |-> o, bill |-> b, books |-> y] /\ o \in [ObjIds -> ObjType]
  BY <1>3, <1>4, <1>5 DEF IsWorld
<1>7. h = [obj |-> o, bill |-> c, books |-> y]
  BY <1>5, <1>6 DEF Strike
<1> HIDE DEF h, c
<1>8. QED
  BY <1>2, <1>3, <1>4, <1>6, <1>7 DEF IsWorld, h

(* What is unpaid is on the bill of a shopkeeper who is there.             *)
LEMMA UnpaidIs ==
    ASSUME NEW w, Good(w), Served(w), NEW i \in ObjIds, w.obj[i].where # "billobjs"
    PROVE  IF w.obj[i].unpaid
           THEN /\ OnBill(w, i) # 0 /\ OnBill(w, i) \in DOMAIN w.bill
                /\ w.bill[OnBill(w, i)].id = i /\ Tended /\ ~inactive
           ELSE OnBill(w, i) = 0 /\ \A e \in Listed(w.bill) : e.id # i
<1>1. w.bill \in Seq(EntryType)
  BY DEF Good, IsWorld
<1>2. w.obj[i].unpaid <=> \E e \in Listed(w.bill) : e.id = i
  BY DEF Good, Match, MatchAt
<1>3. CASE w.obj[i].unpaid
  <2>1. PICK e \in Listed(w.bill) : e.id = i
    BY <1>2, <1>3
  <2>2. w.bill # <<>>
    BY <2>1 DEF Listed
  <2>3. Tended /\ ~inactive
    BY <2>2 DEF Served
  <2>4. QED
    BY <1>1, <1>3, <2>1, <2>3, OnBillIs
<1>4. CASE ~w.obj[i].unpaid
  <2>1. \A e \in Listed(w.bill) : e.id # i
    BY <1>2, <1>4
  <2>2. ~(OnBill(w, i) \in DOMAIN w.bill /\ w.bill[OnBill(w, i)].id = i)
    BY <2>1 DEF Listed
  <2>3. QED
    BY <1>1, <1>4, <2>1, <2>2, OnBillIs
<1>5. QED
  BY <1>2, <1>3, <1>4 DEF Good, IsWorld, ObjType

(* splitobj, splitbill: the part is billed if the stack was and there is   *)
(* bp->bquan -= num.                                                       *)
LessBilled(w, k, n) == [w EXCEPT !.bill[k].bquan = @ - n]
LessIn(b, k, n) == [b EXCEPT ![k].bquan = @ - n]

(* Nothing but the one entry is written.                                   *)
LEMMA LessBilledIs ==
    ASSUME NEW o, NEW b, NEW y, NEW k, NEW n
    PROVE  LessBilled([obj |-> o, bill |-> b, books |-> y], k, n)
             = [obj |-> o, bill |-> LessIn(b, k, n), books |-> y]
  BY DEF LessBilled, LessIn

(* room for an entry.                                                      *)
LEMMA SplitIs ==
    ASSUME NEW w, Good(w), Served(w), NEW i, Held(w, i),
           NEW n \in Nat \ {0}, n < w.obj[i].quan, NEW j, Fresh(w, j)
    PROVE  LET h == SplitObj(w, i, j, n)
           IN  /\ Good(h) /\ Served(h) /\ h.obj[j].where = w.obj[i].where
               /\ \A x : Fresh(w, x) /\ x # j => Fresh(h, x)
<1>1. PICK o \in [ObjIds -> ObjType], b \in Seq(EntryType) : \E y :
         w = [obj |-> o, bill |-> b, books |-> y]
  BY DEF Good, IsWorld
<1>2. PICK y :
         w = [obj |-> o, bill |-> b, books |-> y]
  BY <1>1
<1> DEFINE h == SplitObj(w, i, j, n)
<1> SUFFICES /\ Good(h) /\ Served(h) /\ h.obj[j].where = w.obj[i].where
             /\ \A x : Fresh(w, x) /\ x # j => Fresh(h, x)
  OBVIOUS
<1>3. w.obj = o /\ w.bill = b /\ w.books = y
  BY <1>2
<1>4. /\ i \in ObjIds /\ j \in ObjIds /\ i # j /\ o[i] \in ObjType
      /\ o[i].where \notin {"gone", "billobjs"} /\ o[j].where = "gone"
      /\ \A e \in Listed(b) : e.id # j
  BY <1>3 DEF Held, Fresh
<1>5. o[i].quan \in Nat /\ o[i].quan - n \in Nat /\ n \in Nat /\ n < o[i].quan
  BY <1>3, <1>4 DEF ObjType
<1> DEFINE part == [o[i] EXCEPT !.quan = n]
           rest == [o[i] EXCEPT !.quan = @ - n]
           o2 == [o EXCEPT ![i] = rest, ![j] = part]
           split == [obj |-> o2, bill |-> b, books |-> y]
<1>6. /\ part \in ObjType /\ rest \in ObjType
      /\ part.quan = n /\ rest.quan = o[i].quan - n
      /\ part.where = o[i].where /\ rest.where = o[i].where
      /\ part.unpaid = o[i].unpaid /\ rest.unpaid = o[i].unpaid
  BY <1>4, <1>5 DEF ObjType
<1> HIDE DEF part, rest
<1>7. /\ o2 \in [ObjIds -> ObjType] /\ o2[i] = rest /\ o2[j] = part
      /\ \A x \in ObjIds \ {i, j} : o2[x] = o[x]
  BY <1>2, <1>4, <1>6
<1>8. [w EXCEPT !.obj[i].quan = @ - n, !.obj[j] = [w.obj[i] EXCEPT !.quan = n]] = split
  <2> DEFINE v == [w EXCEPT !.obj[i].quan = @ - n, !.obj[j] = [w.obj[i] EXCEPT !.quan = n]]
  <2>1. v.obj = o2 /\ v.bill = b /\ v.books = y
    <3>1. PICK w2 : w2 = [w EXCEPT !.obj[i].quan = @ - n]
      OBVIOUS
    <3>2. w2.obj = [o EXCEPT ![i] = rest] /\ w2.bill = b /\ w2.books = y
      BY <1>2, <3>1 DEF rest
    <3>3. v = [w2 EXCEPT !.obj[j] = [w.obj[i] EXCEPT !.quan = n]]
      BY <3>1
    <3>4. [w.obj[i] EXCEPT !.quan = n] = part
      BY <1>3 DEF part
    <3>5. DOMAIN w2 = {"obj", "bill", "books"}
      BY <1>2, <3>1
    <3> HIDE DEF v
    <3>6. v.obj = [w2.obj EXCEPT ![j] = part] /\ v.bill = w2.bill /\ v.books = w2.books
      BY <3>3, <3>4, <3>5
    <3>7. o2 = [[o EXCEPT ![i] = rest] EXCEPT ![j] = part]
      OBVIOUS
    <3> HIDE DEF o2
    <3>8. QED
      BY <3>2, <3>6, <3>7, Zenon
  <2>2. v = [obj |-> v.obj, bill |-> v.bill, books |-> v.books]
    <3>1. PICK w2 : w2 = [w EXCEPT !.obj[i].quan = @ - n]
      OBVIOUS
    <3>2. DOMAIN w2 = {"obj", "bill", "books"}
      BY <1>2, <3>1
    <3>3. v = [w2 EXCEPT !.obj[j] = [w.obj[i] EXCEPT !.quan = n]]
      BY <3>1
    <3> HIDE DEF v
    <3>4. QED
      BY <3>2, <3>3
  <2> HIDE DEF v
  <2>3. v = split
    BY <2>1, <2>2
  <2>4. QED
    BY <2>3 DEF v
<1> HIDE DEF o2
<1>9. h = IF o[i].unpaid THEN SplitBill(split, i, j, n) ELSE split
  BY <1>3, <1>8 DEF SplitObj
<1> HIDE DEF h
<1>10. /\ OneEach(b) /\ Len(b) <= BillSz /\ Match(o, Listed(b)) /\ Len(b) \in Nat
      /\ BillSz \in Nat
  BY <1>2, <1>3, ShopBillAssumption DEF Good
<1>11. PICK E : E = Listed(b)
  OBVIOUS
<1>12. /\ E \subseteq EntryType /\ \A e \in E : e.id \in ObjIds /\ e.id # j
       /\ MatchAt(o, E, i) /\ MatchAt(o, E, j) /\ Match(o, E)
  BY <1>2, <1>4, <1>10, <1>11, ListedIs DEF EntryType, Match
<1>13. \A x : Fresh(w, x) <=> x \in ObjIds /\ o[x].where = "gone" /\ \A e \in E : e.id # x
  BY <1>3, <1>11 DEF Fresh
<1>14. PICK X : X = {i, j}
  OBVIOUS
<1>15. CASE ~o[i].unpaid
  <2>1. h = split
    BY <1>9, <1>15
  <2>2. MatchAt(o2, E, i) /\ MatchAt(o2, E, j)
    BY <1>4, <1>6, <1>7, <1>12, <1>15 DEF MatchAt
  <2>3. Match(o2, E)
    <3>1. /\ \A x \in ObjIds \ X : o2[x] = o[x]
          /\ \A x \in X : MatchAt(o2, E, x)
      BY <1>7, <1>14, <2>2
    <3>2. QED
      BY <1>12, <3>1, MatchElsewhere
  <2>4. Good(h) /\ Served(h)
    BY <1>2, <1>3, <1>7, <1>10, <1>11, <2>1, <2>3 DEF Good, IsWorld, Served
  <2>5. h.obj = o2 /\ h.bill = b
    BY <2>1
  <2>6. \A x : Fresh(w, x) /\ x # j => Fresh(h, x)
    BY <1>4, <1>7, <1>11, <1>13, <2>5 DEF Fresh
  <2>7. QED
    BY <1>3, <1>6, <1>7, <2>4, <2>5, <2>6
<1>16. CASE o[i].unpaid
  <2>1. PICK k : k = OnBill(w, i)
    OBVIOUS
  <2>2. k # 0 /\ k \in DOMAIN b /\ b[k].id = i /\ Tended /\ ~inactive
    BY <1>3, <1>4, <1>16, <2>1, UnpaidIs
  <2>3. OnBill(split, i) = k
    BY <1>3, <2>1 DEF OnBill
  <2>4. b[k] \in E /\ b[k] \in EntryType
    BY <1>2, <1>11, <2>2, ListedIs
  <2>5. PICK e0 \in E : e0 = b[k] /\ e0 \in EntryType /\ e0.id = i
    BY <2>2, <2>4
  <2>6. o[i].quan <= e0.bquan /\ e0.useup = FALSE /\ e0.bquan \in Nat
    BY <1>4, <1>12, <2>5 DEF MatchAt, EntryType
  <2> DEFINE e1 == [e0 EXCEPT !.bquan = @ - n]
             less == [b EXCEPT ![k] = e1]
  <2>7. e0.bquan - n \in Nat /\ o[i].quan - n <= e0.bquan - n
    BY <1>5, <2>6
  <2>8. /\ e1 \in EntryType /\ e1.id = i /\ e1.useup = FALSE
        /\ o[i].quan - n <= e1.bquan
    BY <2>5, <2>6, <2>7 DEF EntryType
  <2>9. [split EXCEPT !.bill[k].bquan = @ - n] = [obj |-> o2, bill |-> less, books |-> y]
    <3>1. LessBilled(split, k, n) = [obj |-> o2, bill |-> LessIn(b, k, n), books |-> y]
      BY LessBilledIs
    <3>2. LessIn(b, k, n) = less
      BY <2>5 DEF LessIn
    <3> HIDE DEF split, less
    <3>3. QED
      BY <3>1, <3>2, Zenon DEF LessBilled
  <2> HIDE DEF e1
  <2>10. \A x \in E \ {e0} : x.id # i
    BY <1>10, <1>11, <2>2, <2>5 DEF OneEach, Listed
  <2>11. NoOther(b, k, e1.id)
    BY <1>11, <2>5, <2>8, <2>10 DEF NoOther
  <2>12. /\ less \in Seq(EntryType) /\ OneEach(less) /\ Len(less) = Len(b)
         /\ Listed(less) = (E \ {e0}) \cup {e1}
    <3>1. /\ less \in Seq(EntryType) /\ OneEach(less) /\ Len(less) = Len(b)
          /\ Listed(less) = (Listed(b) \ {b[k]}) \cup {e1}
      <4>1. OneEach(b) /\ k \in DOMAIN b /\ e1 \in EntryType
        BY <1>10, <2>2, <2>8
      <4>2. PICK c : c = less
        OBVIOUS
      <4>3. With(c, b, k, e1)
        BY <2>2, <2>8, <4>2 DEF With
      <4> HIDE DEF less
      <4>4. OneEach(c) /\ Listed(c) = (Listed(b) \ {b[k]}) \cup {e1}
        BY <2>11, <4>1, <4>3, PutFor
      <4>5. QED
        BY <4>2, <4>3, <4>4 DEF With
    <3>2. QED
      BY <1>11, <2>5, <3>1
  <2> HIDE DEF less
  <2>13. PICK F : F = Listed(less)
    OBVIOUS
  <2>14. \A e \in F : e.id \in ObjIds /\ e.id # j
    BY <1>4, <1>12, <2>8, <2>12, <2>13
  <2>15. MatchAt(o2, F, i)
    BY <1>4, <1>6, <1>7, <1>16, <2>8, <2>10, <2>12, <2>13 DEF MatchAt
  <2>16. CASE Len(b) = BillSz
    <3> DEFINE o3 == [o2 EXCEPT ![j].unpaid = FALSE]
    <3>1. /\ o3 \in [ObjIds -> ObjType] /\ o3[j].unpaid = FALSE /\ o3[j].where = part.where
          /\ \A x \in ObjIds \ {j} : o3[x] = o2[x]
      BY <1>4, <1>6, <1>7 DEF ObjType
    <3>2. h.obj = o3 /\ h.bill = less /\ h = [obj |-> h.obj, bill |-> h.bill, books |-> h.books]
      BY <1>9, <1>16, <2>2, <2>3, <2>9, <2>16 DEF SplitBill
    <3> HIDE DEF o3
    <3>3. MatchAt(o3, F, i) /\ MatchAt(o3, F, j)
      BY <1>4, <1>6, <2>14, <2>15, <3>1 DEF MatchAt
    <3>4. Match(o3, F)
      <4>1. /\ \A x \in ObjIds \ X : o3[x] = o[x]
            /\ \A x \in X : MatchAt(o3, F, x)
            /\ \A e \in E : e.id \notin X => e \in F
            /\ \A e \in F : e.id \notin X => e \in E
        BY <1>7, <1>14, <2>5, <2>8, <2>12, <2>13, <3>1, <3>3
      <4>2. QED
        <5>1. Match(o, E)
          BY <1>12
        <5>2. QED
          BY <4>1, <5>1, MatchElsewhere
    <3>5. Good(h) /\ Served(h)
      BY <1>10, <2>2, <2>12, <2>13, <3>1, <3>2, <3>4 DEF Good, IsWorld, Served
    <3>6. \A x : Fresh(w, x) /\ x # j => Fresh(h, x)
      BY <1>4, <1>7, <1>13, <2>5, <2>8, <2>12, <3>1, <3>2 DEF Fresh
    <3>7. QED
      BY <1>3, <1>6, <3>1, <3>2, <3>5, <3>6
  <2>17. CASE Len(b) # BillSz
    <3> DEFINE e2 == [id |-> j, bquan |-> n, useup |-> FALSE]
               more == Append(less, e2)
    <3>1. e2 \in EntryType /\ e2.id = j /\ e2.bquan = n /\ e2.useup = FALSE
      BY <1>4, <1>5 DEF EntryType
    <3>2. \A x \in Listed(less) : x.id # e2.id
      BY <2>13, <2>14, <3>1
    <3>3. h = [obj |-> o2, bill |-> more, books |-> y]
      BY <1>9, <1>10, <1>16, <2>2, <2>3, <2>9, <2>12, <2>17 DEF SplitBill
    <3> HIDE DEF e2
    <3>4. /\ more \in Seq(EntryType) /\ OneEach(more) /\ Len(more) = Len(less) + 1
          /\ Listed(more) = F \cup {e2}
      BY <2>12, <2>13, <3>1, <3>2, PutOn
    <3> HIDE DEF more
    <3>5. MatchAt(o2, F \cup {e2}, i) /\ MatchAt(o2, F \cup {e2}, j)
      <4>1. MatchAt(o2, F \cup {e2}, i)
        BY <1>4, <2>15, <3>1 DEF MatchAt
      <4>2. \A e \in F \cup {e2} : e.id = j => e = e2
        BY <2>14
      <4>3. o2[j].where \notin {"gone", "billobjs"} /\ o2[j].unpaid = TRUE /\ o2[j].quan = n
        BY <1>4, <1>6, <1>7, <1>16 DEF ObjType
      <4>4. MatchAt(o2, F \cup {e2}, j)
        BY <1>5, <3>1, <4>2, <4>3 DEF MatchAt
      <4>5. QED
        BY <4>1, <4>4
    <3>6. Match(o2, F \cup {e2})
      <4>1. /\ \A x \in ObjIds \ X : o2[x] = o[x]
            /\ \A x \in X : MatchAt(o2, F \cup {e2}, x)
            /\ \A e \in E : e.id \notin X => e \in F \cup {e2}
            /\ \A e \in F \cup {e2} : e.id \notin X => e \in E
        BY <1>7, <1>14, <2>5, <2>8, <2>12, <2>13, <3>1, <3>5
      <4>2. QED
        BY <1>12, <4>1, MatchElsewhere
    <3>7. Good(h) /\ Served(h)
      <4>1. h.obj = o2 /\ h.bill = more /\ h = [obj |-> h.obj, bill |-> h.bill, books |-> h.books]
        BY <3>3
      <4>2. Len(more) <= BillSz
        BY <1>10, <2>12, <2>17, <3>4
      <4>3. QED
        BY <1>7, <2>2, <3>4, <3>6, <4>1, <4>2 DEF Good, IsWorld, Served
    <3>8. \A x : Fresh(w, x) /\ x # j => Fresh(h, x)
      BY <1>4, <1>7, <1>13, <2>5, <2>8, <2>12, <2>13, <3>1, <3>3, <3>4 DEF Fresh
    <3>9. QED
      BY <1>3, <1>6, <1>7, <3>3, <3>7, <3>8
  <2>18. QED
    BY <2>16, <2>17
<1>17. QED
  BY <1>15, <1>16

(* Worlds that differ in the objects X and their entries only.             *)
Local(h, w, X) ==
    /\ IsWorld(h) /\ \A x \in ObjIds \ X : h.obj[x] = w.obj[x]
    /\ \A e \in Listed(w.bill) : e.id \notin X => e \in Listed(h.bill)
    /\ \A e \in Listed(h.bill) : e.id \notin X => e \in Listed(w.bill)
MatchOn(w, X) == \A x \in X : MatchAt(w.obj, Listed(w.bill), x)
WellKept(b) == OneEach(b) /\ Len(b) <= BillSz
FreshBeyond(w, h, X) == \A x : Fresh(w, x) /\ x \notin X => Fresh(h, x)

(* It is enough to look at those.                                          *)
LEMMA GoodElsewhere ==
    ASSUME NEW w, Good(w), NEW h, NEW X, Local(h, w, X), WellKept(h.bill), MatchOn(h, X)
    PROVE  Good(h)
<1>1. Match(w.obj, Listed(w.bill))
  BY DEF Good
<1>2. Match(h.obj, Listed(h.bill))
  BY <1>1, MatchElsewhere DEF Local, MatchOn
<1>3. QED
  BY <1>2 DEF Good, Local, WellKept

(* What is changed in some objects refers to no other new object.          *)
LEMMA FreshElsewhere ==
    ASSUME NEW w, NEW h, NEW X, Local(h, w, X)
    PROVE  FreshBeyond(w, h, X)
  BY DEF Local, FreshBeyond, Fresh

(* An object is moved, or its charge or quantity goes down.                *)
LEMMA TouchIs ==
    ASSUME NEW w, Good(w), Served(w), NEW i, Held(w, i), NEW h, Local(h, w, {i}),
           h.bill = w.bill, h.obj[i].where \notin {"gone", "billobjs"},
           h.obj[i].unpaid = w.obj[i].unpaid, h.obj[i].quan <= w.obj[i].quan
    PROVE  Good(h) /\ Served(h) /\ Held(h, i)
<1>1. i \in ObjIds /\ w.obj[i].where \notin {"gone", "billobjs"}
  BY DEF Held
<1>2. PICK E : E = Listed(w.bill)
  OBVIOUS
<1>3. /\ MatchAt(w.obj, E, i) /\ w.obj[i] \in ObjType /\ h.obj[i] \in ObjType
      /\ E \subseteq EntryType /\ WellKept(w.bill)
  BY <1>1, <1>2, ListedIs DEF Good, Match, IsWorld, Local, WellKept
<1>4. \A e \in E : e.bquan \in Nat
  BY <1>3 DEF EntryType
<1>5. MatchAt(h.obj, E, i)
  BY <1>1, <1>3, <1>4 DEF MatchAt, ObjType
<1>6. Good(h)
  <2>1. MatchOn(h, {i})
    BY <1>2, <1>5 DEF MatchOn
  <2>2. WellKept(h.bill)
    BY <1>3
  <2>3. QED
    BY <2>1, <2>2, GoodElsewhere
<1>7. QED
  BY <1>1, <1>6 DEF Served, Held

(* addtobill: what is not on the bill is put on it, if the hero is served. *)
LEMMA AddIs ==
    ASSUME NEW w, Good(w), Served(w), home => ~inactive, NEW i \in ObjIds, NEW dummy \in BOOLEAN,
           w.obj[i].where = "gone" <=> dummy, w.obj[i].where # "billobjs",
           NEW h, h = AddToBill(w, i, dummy)
    PROVE  /\ Good(h) /\ Served(h) /\ Local(h, w, {i})
           /\ ~dummy => Held(h, i)
           /\ dummy => h.obj[i].where \in {"gone", "billobjs"} /\ (h.obj[i].where = "gone" => ~h.obj[i].unpaid)
<1>1. PICK o \in [ObjIds -> ObjType], b \in Seq(EntryType) : \E y :
         w = [obj |-> o, bill |-> b, books |-> y]
  BY DEF Good, IsWorld
<1>2. PICK y :
         w = [obj |-> o, bill |-> b, books |-> y]
  BY <1>1
<1>3. w.obj = o /\ w.bill = b /\ w.books = y
  BY <1>2
<1>4. PICK E : E = Listed(b)
  OBVIOUS
<1>5. /\ o[i] \in ObjType /\ MatchAt(o, E, i) /\ OneEach(b) /\ Len(b) <= BillSz
      /\ Len(b) \in Nat /\ BillSz \in Nat
  BY <1>3, <1>4, ShopBillAssumption DEF Good, Match
<1>6. CASE OnBill(w, i) # 0
  <2>1. h = w
    BY <1>6 DEF AddToBill
  <2>2. \E e \in E : e.id = i
    <3>1. OnBill(w, i) \in DOMAIN b /\ b[OnBill(w, i)].id = i
      BY <1>3, <1>6, OnBillIs
    <3>2. QED
      BY <1>4, <3>1, ListedIs
  <2>3. w.obj[i].where # "gone"
    BY <1>3, <1>5, <2>2 DEF MatchAt
  <2>4. ~dummy /\ Held(w, i) /\ IsWorld(w)
    BY <2>3 DEF Held, Good
  <2>5. QED
    BY <2>1, <2>4 DEF Local
<1>7. CASE OnBill(w, i) = 0
  <2>1. \A e \in E : e.id # i
    <3>1. \A x \in DOMAIN b : x # 0
      OBVIOUS
    <3>2. QED
      BY <1>3, <1>4, <1>7, OnBillIs
  <2>2. o[i].unpaid = FALSE
    BY <1>3, <1>5, <2>1 DEF MatchAt, ObjType
  <2>3. CASE ~Tended \/ Len(b) = BillSz \/ o[i].no_charge
    <3> DEFINE c == w.obj[i].no_charge /\ ~(Tended /\ Len(w.bill) < BillSz)
               z == IF Merchandise(w.obj[i]) THEN w.books + w.obj[i].quan ELSE w.books
    <3>1. h = [w EXCEPT !.books = z, !.obj[i].no_charge = c] /\ c \in BOOLEAN
      <4>1. h = [w EXCEPT !.books = z, !.obj[i].no_charge = c]
        BY <1>3, <1>7, <2>3, Zenon DEF AddToBill
      <4>2. c \in BOOLEAN
        OBVIOUS
      <4>3. QED
        BY <4>1, <4>2
    <3> HIDE DEF c, z
    <3> DEFINE v == [o[i] EXCEPT !.no_charge = c]
               o2 == [o EXCEPT ![i] = v]
    <3>2. v \in ObjType /\ v.where = o[i].where /\ v.unpaid = o[i].unpaid /\ v.quan = o[i].quan
      BY <1>5, <3>1 DEF ObjType
    <3>3. h = [obj |-> o2, bill |-> b, books |-> z]
      BY <1>2, <3>1
    <3> HIDE DEF v
    <3>4. h.obj[i] = v /\ h.bill = b /\ Local(h, w, {i})
      BY <1>3, <3>2, <3>3 DEF Local, IsWorld
    <3>5. MatchAt(h.obj, E, i)
      BY <1>5, <3>2, <3>4 DEF MatchAt
    <3>6. Good(h)
      <4>1. WellKept(h.bill) /\ MatchOn(h, {i})
        BY <1>4, <1>5, <3>4, <3>5 DEF WellKept, MatchOn
      <4>2. QED
        BY <3>4, <4>1, GoodElsewhere
    <3>7. QED
      BY <1>3, <2>2, <3>2, <3>4, <3>6 DEF Served, Held
  <2>4. CASE ~(~Tended \/ Len(b) = BillSz \/ o[i].no_charge)
    <3> DEFINE e == [id |-> i, bquan |-> o[i].quan, useup |-> dummy]
               l == IF dummy THEN "billobjs" ELSE o[i].where
               v == [o[i] EXCEPT !.unpaid = TRUE, !.where = l]
               o2 == [o EXCEPT ![i] = v]
               b2 == Append(b, e)
    <3>1. /\ e \in EntryType /\ e.id = i /\ e.bquan = o[i].quan /\ e.useup = dummy
          /\ v \in ObjType /\ v.where = l /\ v.unpaid = TRUE /\ v.quan = o[i].quan
      BY <1>5 DEF EntryType, ObjType, Wheres
    <3>2. h = [obj |-> o2, bill |-> b2, books |-> y]
      <4>1. h = [w EXCEPT !.bill = b2, !.obj[i].unpaid = TRUE, !.obj[i].where = l]
        BY <1>3, <1>7, <2>4 DEF AddToBill
      <4>2. PICK w2 : w2 = [w EXCEPT !.bill = b2, !.obj[i].unpaid = TRUE]
        OBVIOUS
      <4>3. w2 = [obj |-> [o EXCEPT ![i].unpaid = TRUE], bill |-> b2, books |-> y]
        BY <1>2, <4>2
      <4>4. h = [w2 EXCEPT !.obj[i].where = l]
        BY <4>1, <4>2
      <4> HIDE DEF l, b2
      <4>5. [[o EXCEPT ![i].unpaid = TRUE] EXCEPT ![i].where = l] = o2
        BY <1>5
      <4> HIDE DEF o2
      <4>6. QED
        BY <4>3, <4>4, <4>5
    <3> HIDE DEF e, v
    <3>3. /\ b2 \in Seq(EntryType) /\ OneEach(b2) /\ Len(b2) = Len(b) + 1
          /\ Listed(b2) = E \cup {e}
      BY <1>4, <1>5, <2>1, <3>1, PutOn
    <3>4. Tended /\ Len(b2) <= BillSz
      BY <1>5, <2>4, <3>3
    <3> HIDE DEF b2
    <3>5. h.obj[i] = v /\ h.bill = b2 /\ Local(h, w, {i})
      BY <1>3, <1>4, <3>1, <3>2, <3>3 DEF Local, IsWorld
    <3> HIDE DEF o2
    <3>6. MatchAt(h.obj, E \cup {e}, i)
      <4>1. /\ \A x \in E \cup {e} : x.id = i => x = e
            /\ e \in E \cup {e} /\ e.id = i
        BY <2>1, <3>1
      <4>2. /\ h.obj[i].unpaid = TRUE /\ h.obj[i].quan <= e.bquan /\ h.obj[i].where # "gone"
            /\ e.useup <=> h.obj[i].where = "billobjs"
        <5>1. h.obj[i].quan <= e.bquan
          BY <1>5, <3>1, <3>5 DEF ObjType
        <5>2. CASE dummy
          BY <1>3, <3>1, <3>5, <5>1, <5>2
        <5>3. CASE ~dummy
          BY <1>3, <3>1, <3>5, <5>1, <5>3
        <5>4. QED
          BY <5>2, <5>3
      <4>3. QED
        BY <4>1, <4>2 DEF MatchAt
    <3>7. Good(h)
      <4>1. WellKept(h.bill) /\ Listed(h.bill) = E \cup {e} /\ Local(h, w, {i})
        BY <3>3, <3>4, <3>5 DEF WellKept
      <4>2. MatchOn(h, {i})
        BY <3>6, <4>1, Zenon DEF MatchOn
      <4>3. QED
        BY <4>1, <4>2, GoodElsewhere
    <3>8. QED
      BY <1>3, <3>1, <3>4, <3>5, <3>7 DEF Served, Held, Tended
  <2>5. QED
    BY <2>3, <2>4
<1>8. QED
  BY <1>6, <1>7

(* An object has one entry.                                                *)
LEMMA EntryAlone ==
    ASSUME NEW b \in Seq(EntryType), OneEach(b), NEW k \in DOMAIN b
    PROVE  b[k] \in EntryType /\ b[k] \in Listed(b) /\ NoOther(b, k, b[k].id)
  BY DEF OneEach, Listed, NoOther

(* An entry is struck off and its object is not unpaid any more.           *)
Struck(h, v, w, k, i) ==
    /\ k \in DOMAIN w.bill /\ w.bill[k].id = i
    /\ IsWorld(v) /\ v.bill = w.bill /\ \A x \in ObjIds \ {i} : v.obj[x] = w.obj[x]
    /\ v.obj[i].where # "billobjs" => v.obj[i].unpaid = FALSE
    /\ h = Strike(v, k)

(* Then the bill is right, and the object is on it no more.                *)
LEMMA StruckIs ==
    ASSUME NEW w, Good(w), NEW v, NEW k, NEW i, NEW h, Struck(h, v, w, k, i)
    PROVE  /\ Good(h) /\ Local(h, w, {i}) /\ h.obj = v.obj /\ Len(h.bill) = Len(w.bill) - 1
           /\ \A e \in Listed(h.bill) : e.id # i
<1>1. PICK b \in Seq(EntryType) : b = w.bill
  BY DEF Good, IsWorld
<1>2. OneEach(b) /\ k \in DOMAIN b /\ b[k].id = i /\ v.bill = b /\ Len(b) <= BillSz /\ Len(b) \in Nat
  BY <1>1 DEF Good, Struck
<1>3. /\ IsWorld(h) /\ h.obj = v.obj /\ OneEach(h.bill) /\ Len(h.bill) = Len(b) - 1
      /\ Listed(h.bill) = Listed(b) \ {b[k]}
  BY <1>2, StrikeIs DEF Struck
<1>4. NoOther(b, k, i)
  BY <1>2, EntryAlone
<1>5. \A e \in Listed(h.bill) : e.id # i
  BY <1>3, <1>4 DEF NoOther
<1>6. Local(h, w, {i})
  BY <1>1, <1>2, <1>3, <1>5 DEF Local, Struck
<1>7. MatchOn(h, {i})
  BY <1>3, <1>5 DEF MatchOn, MatchAt, Struck
<1>8. WellKept(h.bill)
  BY <1>2, <1>3, ShopBillAssumption DEF WellKept
<1>9. Good(h)
  BY <1>6, <1>7, <1>8, GoodElsewhere
<1>10. QED
  BY <1>1, <1>3, <1>5, <1>6, <1>9

(* An entry is replaced by one of the same object, or of a new one.        *)
Replaced(h, w, k, i, e) ==
    /\ k \in DOMAIN w.bill /\ w.bill[k].id = i
    /\ e \in EntryType
    /\ e.id # i => \A x \in Listed(w.bill) : x.id # e.id
    /\ IsWorld(h) /\ With(h.bill, w.bill, k, e)
    /\ \A x \in ObjIds \ {i, e.id} : h.obj[x] = w.obj[x]
    /\ h.obj[e.id].where # "billobjs" => h.obj[e.id].unpaid = TRUE
    /\ e.useup <=> h.obj[e.id].where = "billobjs"
    /\ h.obj[e.id].where # "gone" /\ h.obj[e.id].quan <= e.bquan
    /\ e.id # i /\ h.obj[i].where # "billobjs" => h.obj[i].unpaid = FALSE

(* Then the bill is right too.                                             *)
LEMMA ReplacedIs ==
    ASSUME NEW w, Good(w), NEW k, NEW i, NEW e, NEW h, Replaced(h, w, k, i, e)
    PROVE  /\ Good(h) /\ Local(h, w, {i, e.id}) /\ Len(h.bill) = Len(w.bill)
           /\ e.id # i => \A x \in Listed(h.bill) : x.id # i
<1>1. PICK b \in Seq(EntryType) : b = w.bill
  BY DEF Good, IsWorld
<1>2. OneEach(b) /\ k \in DOMAIN b /\ b[k].id = i /\ Len(b) <= BillSz /\ Len(b) \in Nat
  BY <1>1 DEF Good, Replaced
<1>3. NoOther(b, k, i) /\ NoOther(b, k, e.id)
  BY <1>1, <1>2, EntryAlone DEF NoOther, Replaced
<1>4. OneEach(h.bill) /\ Listed(h.bill) = (Listed(b) \ {b[k]}) \cup {e}
  BY <1>1, <1>2, <1>3, PutFor DEF Replaced
<1>5. /\ \A x \in Listed(h.bill) : x.id = e.id => x = e
      /\ e \in Listed(h.bill)
      /\ e.id # i => \A x \in Listed(h.bill) : x.id # i
  BY <1>3, <1>4 DEF NoOther
<1>6. Local(h, w, {i, e.id})
  BY <1>1, <1>2, <1>4 DEF Local, Replaced
<1>7. MatchOn(h, {i, e.id})
  BY <1>5 DEF MatchOn, MatchAt, Replaced
<1>8. Len(h.bill) = Len(b) /\ WellKept(h.bill)
  BY <1>1, <1>2, <1>4 DEF WellKept, With, Replaced
<1>9. Good(h)
  BY <1>6, <1>7, <1>8, GoodElsewhere
<1>10. QED
  BY <1>1, <1>5, <1>6, <1>8, <1>9

(* The entry of what is unpaid.                                            *)
LEMMA EntryIs ==
    ASSUME NEW w, Good(w), Served(w), NEW i, Held(w, i), w.obj[i].unpaid
    PROVE  \E k \in DOMAIN w.bill :
              /\ k = OnBill(w, i) /\ k # 0 /\ w.bill[k].id = i
              /\ w.bill[k] \in EntryType /\ w.bill[k].useup = FALSE
              /\ w.obj[i].quan <= w.bill[k].bquan /\ w.obj[i].quan \in Nat
              /\ Tended /\ ~inactive
<1>1. PICK k : k = OnBill(w, i)
  OBVIOUS
<1>2. k # 0 /\ k \in DOMAIN w.bill /\ w.bill[k].id = i /\ Tended /\ ~inactive
  BY <1>1, UnpaidIs DEF Held
<1>3. w.bill[k] \in EntryType /\ w.bill[k] \in Listed(w.bill)
  BY <1>2, ListedIs DEF Good, IsWorld
<1>4. MatchAt(w.obj, Listed(w.bill), i) /\ w.obj[i] \in ObjType
  BY DEF Good, Match, Held, IsWorld
<1>5. w.bill[k].useup = FALSE /\ w.obj[i].quan <= w.bill[k].bquan
  BY <1>2, <1>3, <1>4 DEF MatchAt, Held, EntryType
<1>6. QED
  BY <1>1, <1>2, <1>3, <1>4, <1>5 DEF ObjType

(* onbill finds nothing for an object that is not unpaid.                  *)
LEMMA PaidIs ==
    ASSUME NEW w, Good(w), Served(w), NEW i, Held(w, i), ~w.obj[i].unpaid
    PROVE  /\ OnBill(w, i) = 0 /\ w.obj[i].unpaid = FALSE
           /\ \A e \in Listed(w.bill) : e.id # i
  BY UnpaidIs DEF Held, Good, IsWorld, ObjType

(* obfree: what is used up stays on the bill, if it was on it.             *)
LEMMA ObFreeIs ==
    ASSUME NEW w, Good(w), Served(w), NEW i, Held(w, i), NEW h, h = ObFree(w, i, 0)
    PROVE  Good(h) /\ Served(h)
<1>1. PICK o \in [ObjIds -> ObjType], b \in Seq(EntryType) : \E y :
         w = [obj |-> o, bill |-> b, books |-> y]
  BY DEF Good, IsWorld
<1>2. PICK y :
         w = [obj |-> o, bill |-> b, books |-> y]
  BY <1>1
<1>3. w.obj = o /\ w.bill = b /\ w.books = y /\ i \in ObjIds /\ o[i] \in ObjType
  BY <1>2 DEF Held
<1>4. CASE ~o[i].unpaid
  <2> DEFINE o2 == [o EXCEPT ![i] = NoObj]
  <2>1. h = [obj |-> o2, bill |-> b, books |-> y]
    BY <1>2, <1>3, <1>4 DEF ObFree
  <2>2. NoObj \in ObjType /\ NoObj.where = "gone" /\ NoObj.unpaid = FALSE
    BY DEF NoObj, ObjType, Wheres
  <2>3. h.obj[i] = NoObj /\ h.bill = b /\ Local(h, w, {i})
    BY <1>3, <2>1, <2>2 DEF Local, IsWorld
  <2>4. \A e \in Listed(b) : e.id # i
    BY <1>3, <1>4, PaidIs
  <2>5. MatchOn(h, {i})
    BY <2>2, <2>3, <2>4 DEF MatchOn, MatchAt
  <2>6. WellKept(h.bill)
    BY <1>3, <2>3 DEF Good, WellKept
  <2>7. Good(h)
    BY <2>3, <2>5, <2>6, GoodElsewhere
  <2>8. QED
    BY <1>3, <2>3, <2>7 DEF Served
<1>5. CASE o[i].unpaid
  <2>1. PICK k \in DOMAIN b : /\ k = OnBill(w, i) /\ k # 0 /\ b[k].id = i
                              /\ b[k] \in EntryType /\ b[k].useup = FALSE
                              /\ o[i].quan <= b[k].bquan
                              /\ Tended /\ ~inactive
    BY <1>3, <1>5, EntryIs
  <2> DEFINE e == [b[k] EXCEPT !.useup = TRUE]
             v == [o[i] EXCEPT !.unpaid = FALSE, !.where = "billobjs"]
             b2 == [b EXCEPT ![k] = e]
             o2 == [o EXCEPT ![i] = v]
  <2>2. /\ e \in EntryType /\ e.id = i /\ e.useup = TRUE /\ e.bquan = b[k].bquan
        /\ v \in ObjType /\ v.unpaid = FALSE /\ v.where = "billobjs" /\ v.quan = o[i].quan
    BY <1>3, <2>1 DEF EntryType, ObjType, Wheres
  <2>3. h = [obj |-> o2, bill |-> b2, books |-> y]
    <3>1. h = [w EXCEPT !.bill[k].useup = TRUE, !.obj[i].unpaid = FALSE, !.obj[i].where = "billobjs"]
      BY <1>3, <1>5, <2>1 DEF ObFree
    <3>2. PICK w2 : w2 = [w EXCEPT !.bill[k].useup = TRUE, !.obj[i].unpaid = FALSE]
      OBVIOUS
    <3>3. PICK o3 : o3 = [o EXCEPT ![i].unpaid = FALSE]
      OBVIOUS
    <3>4. w2 = [obj |-> o3, bill |-> b2, books |-> y]
      BY <1>2, <3>2, <3>3
    <3>5. h = [w2 EXCEPT !.obj[i].where = "billobjs"]
      BY <3>1, <3>2
    <3>6. o2 = [o3 EXCEPT ![i].where = "billobjs"]
      BY <1>3, <3>3
    <3> HIDE DEF b2, o2
    <3>7. QED
      BY <3>4, <3>5, <3>6
  <2> HIDE DEF e, v
  <2>4. With(b2, b, k, e)
    BY <2>1, <2>2 DEF With
  <2>5. b2 \in Seq(EntryType)
    BY <2>4 DEF With
  <2> HIDE DEF b2
  <2>6. h.bill = b2 /\ h.obj[i] = v /\ IsWorld(h) /\ \A x \in ObjIds \ {i} : h.obj[x] = o[x]
    BY <1>3, <2>2, <2>3, <2>5 DEF IsWorld
  <2>7. Good(h)
    <3>1. Replaced(h, w, k, i, e)
      BY <1>3, <2>1, <2>2, <2>4, <2>6 DEF Replaced
    <3>2. QED
      BY <3>1, ReplacedIs
  <2>8. QED
    BY <2>1, <2>7 DEF Served
<1>6. QED
  BY <1>4, <1>5

(* sub_one_frombill: nothing is left on the bill of the stack itself.      *)
LEMMA SubIs ==
    ASSUME NEW w, Good(w), Served(w), NEW i, Held(w, i), w.obj[i].unpaid, NEW j, Fresh(w, j),
           NEW h, h = SubFromBill(w, i, j)
    PROVE  /\ Good(h) /\ Served(h) /\ Held(h, i) /\ FreshBeyond(w, h, {i, j})
           /\ h.obj[i].unpaid = FALSE
<1>1. PICK o \in [ObjIds -> ObjType], b \in Seq(EntryType) : \E y :
         w = [obj |-> o, bill |-> b, books |-> y]
  BY DEF Good, IsWorld
<1>2. PICK y :
         w = [obj |-> o, bill |-> b, books |-> y]
  BY <1>1
<1>3. /\ w.obj = o /\ w.bill = b /\ w.books = y /\ i \in ObjIds /\ o[i] \in ObjType
      /\ j \in ObjIds /\ j # i /\ o[i].where \notin {"gone", "billobjs"}
  BY <1>2 DEF Held, Fresh
<1>4. PICK k \in DOMAIN b : /\ k = OnBill(w, i) /\ k # 0 /\ b[k].id = i
                            /\ b[k] \in EntryType /\ b[k].useup = FALSE
                            /\ o[i].quan <= b[k].bquan /\ o[i].quan \in Nat
                            /\ Tended /\ ~inactive
  BY <1>3, EntryIs
<1>5. b[k].bquan \in Nat
  BY <1>4 DEF EntryType
<1> DEFINE v == [o[i] EXCEPT !.unpaid = FALSE]
           o2 == [o EXCEPT ![i] = v]
           back == [obj |-> o2, bill |-> b, books |-> y]
           used == b[k].bquan - o[i].quan
<1>6. v \in ObjType /\ v.unpaid = FALSE /\ v.where = o[i].where
  BY <1>3 DEF ObjType
<1>7. [w EXCEPT !.obj[i].unpaid = FALSE] = back
  <2>1. PICK o3 : o3 = [o EXCEPT ![i].unpaid = FALSE]
    OBVIOUS
  <2>2. [w EXCEPT !.obj[i].unpaid = FALSE] = [obj |-> o3, bill |-> b, books |-> y]
    <3>1. PICK w2 : w2 = [w EXCEPT !.obj[i].unpaid = FALSE]
      OBVIOUS
    <3>2. w2 = [obj |-> o3, bill |-> b, books |-> y]
      BY <1>2, <2>1, <3>1
    <3>3. QED
      BY <3>1, <3>2
  <2>3. o2 = o3
    BY <1>3, <2>1
  <2>4. QED
    BY <2>2, <2>3
<1> HIDE DEF v
<1>8. used \in Nat
  BY <1>4, <1>5
<1>9. CASE used > 0
  <2> DEFINE e == [id |-> j, bquan |-> used, useup |-> TRUE]
             u == [NoObj EXCEPT !.where = "billobjs", !.quan = used]
             b2 == [b EXCEPT ![k] = e]
             o3 == [o2 EXCEPT ![j] = u]
  <2>1. h = [back EXCEPT !.bill[k] = e, !.obj[j] = u]
    BY <1>3, <1>4, <1>7, <1>9 DEF SubFromBill
  <2>2. /\ e \in EntryType /\ e.id = j /\ e.useup = TRUE /\ e.bquan = used
        /\ u \in ObjType /\ u.where = "billobjs" /\ u.quan = used
    BY <1>3, <1>8 DEF EntryType, ObjType, Wheres, NoObj
  <2> HIDE DEF e, u, used
  <2>3. h = [obj |-> o3, bill |-> b2, books |-> y]
    BY <2>1
  <2>4. With(b2, b, k, e) /\ b2 \in Seq(EntryType)
    BY <1>4, <2>2 DEF With
  <2> HIDE DEF b2
  <2>5. /\ h.bill = b2 /\ h.obj[i] = v /\ h.obj[j] = u /\ IsWorld(h)
        /\ \A x \in ObjIds \ {i, j} : h.obj[x] = o[x]
    BY <1>3, <1>6, <2>2, <2>3, <2>4 DEF IsWorld
  <2>6. \A x \in Listed(b) : x.id # j
    BY <1>3 DEF Fresh
  <2>7. Good(h) /\ Local(h, w, {i, j})
    <3>1. h.obj[e.id].quan <= e.bquan
      BY <1>8, <2>2, <2>5 DEF used
    <3>2. Replaced(h, w, k, i, e)
      BY <1>3, <1>4, <1>6, <2>2, <2>4, <2>5, <2>6, <3>1 DEF Replaced
    <3>3. QED
      BY <2>2, <3>2, ReplacedIs
  <2>8. QED
    BY <1>3, <1>4, <1>6, <2>5, <2>7, FreshElsewhere DEF Served, Held
<1>10. CASE ~(used > 0)
  <2>1. h = Strike(back, k)
    BY <1>3, <1>4, <1>7, <1>10 DEF SubFromBill
  <2>2. /\ IsWorld(back) /\ back.bill = b /\ back.obj[i] = v
        /\ \A x \in ObjIds \ {i} : back.obj[x] = o[x]
    BY <1>3, <1>6 DEF IsWorld
  <2> HIDE DEF back
  <2>3. Good(h) /\ Local(h, w, {i}) /\ h.obj = back.obj
    <3>1. PICK u : u = back
      OBVIOUS
    <3>2. u.obj[i].unpaid = FALSE /\ h = Strike(u, k) /\ IsWorld(u) /\ u.bill = w.bill
      BY <1>3, <1>6, <2>1, <2>2, <3>1
    <3>3. \A x \in ObjIds \ {i} : u.obj[x] = w.obj[x]
      BY <1>3, <2>2, <3>1
    <3>4. k \in DOMAIN w.bill /\ w.bill[k].id = i
      BY <1>3, <1>4
    <3>5. Struck(h, u, w, k, i)
      BY <3>2, <3>3, <3>4 DEF Struck
    <3>6. QED
      BY <3>1, <3>5, StruckIs
  <2>4. FreshBeyond(w, h, {i, j})
    BY <2>3, FreshElsewhere DEF FreshBeyond
  <2>5. QED
    BY <1>3, <1>4, <1>6, <2>2, <2>3, <2>4 DEF Served, Held
<1>11. QED
  BY <1>9, <1>10

(* merged: i goes into j, and what was billed of the one with what was of  *)
(* the other.                                                              *)
LEMMA MergeIs ==
    ASSUME NEW w, Good(w), Served(w), NEW i, Held(w, i), NEW j \in ObjIds, StackableGoods(w, i, j),
           NEW h, h = MergeInto(w, i, j)
    PROVE  Good(h) /\ Served(h)
<1>1. PICK o \in [ObjIds -> ObjType], b \in Seq(EntryType) : \E y :
         w = [obj |-> o, bill |-> b, books |-> y]
  BY DEF Good, IsWorld
<1>2. PICK y :
         w = [obj |-> o, bill |-> b, books |-> y]
  BY <1>1
<1>3. /\ w.obj = o /\ w.bill = b /\ w.books = y
  BY <1>2
<1>4. /\ i \in ObjIds /\ i # j /\ j # 0 /\ o[i] \in ObjType /\ o[j] \in ObjType
      /\ o[j].where = o[i].where /\ o[i].where \notin {"gone", "billobjs"}
      /\ o[j].unpaid = o[i].unpaid /\ Held(w, j)
  BY <1>3 DEF Held, StackableGoods, ObjIds
<1> DEFINE q == o[j].quan + o[i].quan
           v == [o[j] EXCEPT !.quan = q]
           o2 == [o EXCEPT ![j] = v]
           m == [obj |-> o2, bill |-> b, books |-> y]
           o3 == [o2 EXCEPT ![i] = NoObj]
<1>5. /\ v \in ObjType /\ v.unpaid = o[i].unpaid /\ v.where = o[i].where /\ v.quan = q
      /\ NoObj \in ObjType /\ NoObj.unpaid = FALSE /\ NoObj.where = "gone"
  BY <1>4 DEF ObjType, NoObj, Wheres
<1>6. [w EXCEPT !.obj[j].quan = @ + w.obj[i].quan] = m
  <2>1. PICK o4 : o4 = [o EXCEPT ![j].quan = @ + o[i].quan]
    OBVIOUS
  <2>2. PICK w2 : w2 = [w EXCEPT !.obj[j].quan = @ + w.obj[i].quan]
    OBVIOUS
  <2>3. w2 = [obj |-> o4, bill |-> b, books |-> y]
    BY <1>2, <2>1, <2>2
  <2>4. o2 = o4
    BY <1>4, <2>1
  <2>5. QED
    BY <2>2, <2>3, <2>4
<1> HIDE DEF v
<1>7. /\ o3 \in [ObjIds -> ObjType] /\ o3[i] = NoObj /\ o3[j] = v
      /\ \A x \in ObjIds \ {i, j} : o3[x] = o[x]
  BY <1>4, <1>5
<1>8. m.obj[i] = o[i] /\ m.bill = b
  BY <1>4
<1>9. h = ObFree(m, i, j)
  BY <1>6 DEF MergeInto
<1>10. [m EXCEPT !.obj[i] = NoObj] = [obj |-> o3, bill |-> b, books |-> y]
  OBVIOUS
<1>11. OnBill(m, i) = OnBill(w, i) /\ OnBill(m, j) = OnBill(w, j)
  BY <1>3 DEF OnBill
<1> HIDE DEF o2, o3, m
<1>12. CASE ~o[i].unpaid
  <2>1. h = [obj |-> o3, bill |-> b, books |-> y]
    BY <1>8, <1>9, <1>10, <1>12 DEF ObFree
  <2>2. Local(h, w, {i, j}) /\ h.bill = b /\ h.obj[i] = NoObj /\ h.obj[j] = v
    BY <1>3, <1>7, <2>1 DEF Local, IsWorld
  <2>3. \A e \in Listed(b) : e.id # i /\ e.id # j
    BY <1>3, <1>4, <1>12, PaidIs
  <2>4. v.unpaid = FALSE
    BY <1>4, <1>5, <1>12 DEF ObjType
  <2>5. MatchOn(h, {i, j})
    BY <1>5, <2>2, <2>3, <2>4 DEF MatchOn, MatchAt
  <2>6. WellKept(h.bill)
    BY <1>3, <2>2 DEF Good, WellKept
  <2>7. Good(h)
    BY <2>2, <2>5, <2>6, GoodElsewhere
  <2>8. QED
    BY <1>3, <2>2, <2>7 DEF Served
<1>13. CASE o[i].unpaid
  <2>1. PICK k \in DOMAIN b : /\ k = OnBill(w, i) /\ k # 0 /\ b[k].id = i
                              /\ b[k] \in EntryType /\ b[k].useup = FALSE
                              /\ o[i].quan <= b[k].bquan /\ o[i].quan \in Nat
                              /\ Tended /\ ~inactive
    BY <1>3, <1>13, EntryIs
  <2>2. PICK l \in DOMAIN b : /\ l = OnBill(w, j) /\ l # 0 /\ b[l].id = j
                              /\ b[l] \in EntryType /\ b[l].useup = FALSE
                              /\ o[j].quan <= b[l].bquan /\ o[j].quan \in Nat
    BY <1>3, <1>4, <1>13, EntryIs
  <2>3. k # l /\ b[k].bquan \in Nat /\ b[l].bquan \in Nat
    BY <1>4, <2>1, <2>2 DEF EntryType
  <2> DEFINE n == b[l].bquan + b[k].bquan
             e == [b[l] EXCEPT !.bquan = n]
             b2 == [b EXCEPT ![l] = e]
             u == [obj |-> o3, bill |-> b2, books |-> y]
  <2>4. e \in EntryType /\ e.id = j /\ e.useup = FALSE /\ e.bquan = n /\ q <= n
    <3>1. n \in Nat /\ q <= n
      BY <2>1, <2>2, <2>3
    <3> HIDE DEF n
    <3>2. QED
      BY <2>2, <3>1 DEF EntryType
  <2>5. h = Strike(u, k)
    <3>1. PICK f : f = [m EXCEPT !.obj[i] = NoObj]
      OBVIOUS
    <3>2. h = Strike([f EXCEPT !.bill[l].bquan = @ + m.bill[k].bquan], k)
      BY <1>4, <1>8, <1>9, <1>11, <1>13, <2>1, <2>2, <3>1 DEF ObFree
    <3>3. PICK g : g = [f EXCEPT !.bill[l].bquan = @ + m.bill[k].bquan]
      OBVIOUS
    <3>4. f = [obj |-> o3, bill |-> b, books |-> y]
      BY <1>10, <3>1
    <3>5. PICK b3 : b3 = [b EXCEPT ![l].bquan = @ + b[k].bquan]
      OBVIOUS
    <3>6. g = [obj |-> o3, bill |-> b3, books |-> y]
      BY <1>8, <3>3, <3>4, <3>5
    <3>7. b3 = b2
      BY <3>5
    <3>8. QED
      BY <3>2, <3>3, <3>6, <3>7
  <2> HIDE DEF e, n
  <2>6. With(b2, b, l, e) /\ b2[k] = b[k] /\ k \in DOMAIN b2 /\ b2 \in Seq(EntryType)
    BY <2>1, <2>2, <2>3, <2>4 DEF With
  <2> HIDE DEF b2
  <2>7. OneEach(b) /\ Len(b) <= BillSz
    BY <1>3 DEF Good
  <2>8. NoOther(b, l, j) /\ NoOther(b, k, i)
    BY <2>1, <2>2, <2>7, EntryAlone
  <2>9. OneEach(b2) /\ Listed(b2) = (Listed(b) \ {b[l]}) \cup {e}
    BY <2>2, <2>4, <2>6, <2>7, <2>8, PutFor
  <2>10. u.obj = o3 /\ u.bill = b2 /\ IsWorld(u)
    BY <1>7, <2>6 DEF IsWorld
  <2> HIDE DEF u
  <2>11. /\ IsWorld(h) /\ h.obj = o3 /\ OneEach(h.bill) /\ Len(h.bill) = Len(b2) - 1
         /\ Listed(h.bill) = Listed(b2) \ {b[k]}
    <3>1. PICK z : z = u
      OBVIOUS
    <3>2. IsWorld(z) /\ k \in DOMAIN z.bill /\ OneEach(z.bill) /\ h = Strike(z, k)
      BY <2>5, <2>6, <2>9, <2>10, <3>1
    <3>3. /\ IsWorld(h) /\ h.obj = z.obj /\ OneEach(h.bill) /\ Len(h.bill) = Len(z.bill) - 1
          /\ Listed(h.bill) = Listed(z.bill) \ {z.bill[k]}
      BY <3>2, StrikeIs
    <3>4. QED
      BY <2>6, <2>10, <3>1, <3>3
  <2>12. Listed(h.bill) = ((Listed(b) \ {b[l]}) \cup {e}) \ {b[k]}
    BY <2>9, <2>11
  <2>13. Local(h, w, {i, j})
    BY <1>3, <1>7, <2>1, <2>2, <2>4, <2>11, <2>12 DEF Local
  <2>14. /\ \A x \in Listed(h.bill) : x.id # i /\ (x.id = j => x = e)
         /\ e \in Listed(h.bill)
    BY <1>4, <2>1, <2>4, <2>8, <2>12 DEF NoOther
  <2>15. v.unpaid = TRUE /\ v.quan <= e.bquan
    BY <1>4, <1>5, <1>13, <2>4 DEF ObjType
  <2>16. MatchOn(h, {i, j})
    BY <1>4, <1>5, <1>7, <2>4, <2>11, <2>14, <2>15 DEF MatchOn, MatchAt
  <2>17. WellKept(h.bill)
    BY <2>6, <2>7, <2>11, ShopBillAssumption DEF WellKept, With
  <2>18. Good(h)
    BY <2>13, <2>16, <2>17, GoodElsewhere
  <2>19. QED
    BY <2>1, <2>18 DEF Served
<1>14. QED
  BY <1>12, <1>13

(* A set of objects has a first and a last one.                            *)
Before == {ss \in Nat \X Nat : ss[1] < ss[2]}

(* The natural numbers have no infinite descent.                           *)
LEMMA BeforeWellFounded == IsWellFoundedOn(Before, Nat)
  BY NatLessThanWellFounded DEF OpToRel, Before

(* A set of numbers has a least one,                                       *)
LEMMA FirstExists ==
    ASSUME NEW S \in SUBSET Nat, S # {}
    PROVE  \E x \in S : \A y \in S : x <= y
<1>1. PICK x \in S : \A y \in S : <<y, x>> \notin Before
  BY BeforeWellFounded, WFMin
<1>2. \A y \in S : ~(y < x)
  BY <1>1 DEF Before
<1>3. QED
  BY <1>2

(* and Min finds it in a set of objects.                                   *)
LEMMA FirstIs ==
    ASSUME NEW S \in SUBSET ObjIds, S # {}
    PROVE  Min(S) \in S
<1>1. S \in SUBSET Nat
  BY DEF ObjIds
<1>2. \E x \in S : \A y \in S : x <= y
  BY <1>1, FirstExists
<1>3. QED
  BY <1>2 DEF Min

(* next_ident, called once or twice.                                       *)
LEMMA IdentIs ==
    ASSUME NEW w, NEW s, s \in NextIdents(w, 1)
    PROVE  Fresh(w, Min(s))
<1>1. s \subseteq ObjIds /\ Cardinality(s) = 1 /\ \A x \in s : Fresh(w, x)
  BY DEF NextIdents, Fresh, Listed
<1>2. s # {}
  BY <1>1, FS_EmptySet
<1>3. Min(s) \in s
  BY <1>1, <1>2, FirstIs
<1>4. QED
  BY <1>1, <1>3

(* next_ident, twice: two new objects.                                     *)
LEMMA IdentsAre ==
    ASSUME NEW w, NEW s, s \in NextIdents(w, 2)
    PROVE  Fresh(w, Min(s)) /\ Fresh(w, Max(s)) /\ Min(s) # Max(s)
<1>1. s \subseteq ObjIds /\ Cardinality(s) = 2 /\ \A x \in s : Fresh(w, x)
  BY DEF NextIdents, Fresh, Listed
<1>2. IsFiniteSet(s)
  <2>1. IsFiniteSet(ObjIds)
    BY ShopBillAssumption, FS_Interval DEF ObjIds
  <2>2. QED
    BY <1>1, <2>1, FS_Subset
<1>3. PICK x \in s : TRUE
  <2>1. s # {}
    BY <1>1, FS_EmptySet
  <2>2. QED
    BY <2>1
<1>4. Cardinality(s \ {x}) = 1 /\ IsFiniteSet(s \ {x})
  BY <1>1, <1>2, FS_RemoveElement
<1>5. PICK y : s \ {x} = {y}
  BY <1>4, FS_Singleton
<1>6. x \in Nat /\ y \in Nat /\ x # y /\ s = {x, y}
  <2>1. y \in s /\ x # y /\ s = {x, y}
    BY <1>5, Zenon
  <2>2. \A z \in s : z \in Nat
    BY <1>1 DEF ObjIds
  <2>3. QED
    BY <2>1, <2>2
<1>7. CASE x < y
  <2>1. Min(s) = x /\ Max(s) = y
    BY <1>6, <1>7 DEF Min, Max
  <2>2. QED
    BY <1>1, <1>6, <2>1
<1>8. CASE ~(x < y)
  <2>1. Min(s) = y /\ Max(s) = x
    BY <1>6, <1>8 DEF Min, Max
  <2>2. QED
    BY <1>1, <1>6, <2>1
<1>9. QED
  BY <1>7, <1>8

(* An object is moved, or its charge changes, or less of it is left.       *)
Moved(h, w, i) ==
    /\ IsWorld(h) /\ h.bill = w.bill /\ \A x \in ObjIds \ {i} : h.obj[x] = w.obj[x]
    /\ h.obj[i].where \notin {"gone", "billobjs"}
    /\ h.obj[i].unpaid = w.obj[i].unpaid /\ h.obj[i].quan <= w.obj[i].quan

(* Then bill and objects agree as before.                                  *)
LEMMA MovedIs ==
    ASSUME NEW w, Good(w), Served(w), NEW i, Held(w, i), NEW h, Moved(h, w, i)
    PROVE  Good(h) /\ Served(h) /\ Held(h, i) /\ FreshBeyond(w, h, {})
<1>1. h.bill = w.bill /\ Local(h, w, {i})
  BY DEF Moved, Local
<1>2. Good(h) /\ Served(h) /\ Held(h, i)
  BY <1>1, TouchIs DEF Moved
<1>3. FreshBeyond(w, h, {i})
  BY <1>1, FreshElsewhere
<1>4. FreshBeyond(w, h, {})
  BY <1>3 DEF FreshBeyond, Fresh, Held
<1>5. QED
  BY <1>2, <1>4

(* How it is written: the object is v now.                                 *)
LEMMA MoveIs ==
    ASSUME NEW w, Good(w), NEW i, Held(w, i), NEW v \in ObjType,
           v.where \notin {"gone", "billobjs"},
           v.unpaid = w.obj[i].unpaid, v.quan <= w.obj[i].quan,
           NEW o, o = [w.obj EXCEPT ![i] = v], NEW z,
           NEW h, h = [obj |-> o, bill |-> w.bill, books |-> z]
    PROVE  Moved(h, w, i) /\ h.obj[i] = v
<1>1. w.obj \in [ObjIds -> ObjType] /\ w.bill \in Seq(EntryType) /\ i \in ObjIds
  BY DEF Good, IsWorld, Held
<1>2. o \in [ObjIds -> ObjType] /\ o[i] = v /\ \A x \in ObjIds \ {i} : o[x] = w.obj[x]
  BY <1>1
<1>3. h.obj = o /\ h.bill = w.bill /\ IsWorld(h)
  BY <1>1, <1>2 DEF IsWorld
<1>4. QED
  BY <1>2, <1>3 DEF Moved

(* A part of a stack is an object of its own.                              *)
LEMMA PartIs ==
    ASSUME Good(Shop), Served(Shop), NEW i \in ObjIds, Held(Shop, i), NEW n \in 1..obj[i].quan,
           NEW j, n # obj[i].quan => Fresh(Shop, j), NEW p, p = PieceOf(i, n, j)
    PROVE  Good(p.w) /\ Served(p.w) /\ Held(p.w, p.it) /\ FreshBeyond(Shop, p.w, {j})
<1>1. Shop.obj = obj /\ obj[i].quan \in Nat
  BY DEF Shop, Good, IsWorld, ObjType
<1>2. CASE n = obj[i].quan
  <2>1. p.w = Shop /\ p.it = i
    BY <1>2 DEF PieceOf
  <2>2. QED
    BY <1>1, <2>1 DEF FreshBeyond
<1>3. CASE n # obj[i].quan
  <2>1. PICK h : h = SplitObj(Shop, i, j, n)
    OBVIOUS
  <2>2. p.w = h /\ p.it = j /\ Fresh(Shop, j)
    BY <1>3, <2>1 DEF PieceOf
  <2>3. n \in Nat \ {0} /\ n < Shop.obj[i].quan
    BY <1>1, <1>3
  <2>4. /\ Good(h) /\ Served(h) /\ h.obj[j].where = Shop.obj[i].where
        /\ \A x : Fresh(Shop, x) /\ x # j => Fresh(h, x)
    BY <2>1, <2>2, <2>3, SplitIs
  <2>5. QED
    BY <2>2, <2>4 DEF Held, Fresh, FreshBeyond
<1>4. QED
  BY <1>2, <1>3

(* splitobj, or the whole stack: what is taken is held.                    *)
LEMMA PieceIs ==
    ASSUME Good(Shop), Served(Shop), NEW i \in ObjIds, Held(Shop, i), NEW n \in 1..obj[i].quan,
           NEW s \in IdForPiece(i, n), NEW p, p = PieceOf(i, n, Min(s))
    PROVE  Good(p.w) /\ Served(p.w) /\ Held(p.w, p.it)
<1>1. PICK j : j = Min(s)
  OBVIOUS
<1>2. n # obj[i].quan => Fresh(Shop, j)
  BY <1>1, IdentIs DEF IdForPiece
<1>3. QED
  BY <1>1, <1>2, PartIs

(* addinv.                                                                 *)
LEMMA AddInvIs ==
    ASSUME NEW w, Good(w), Served(w), NEW i, Held(w, i), NEW h, h = AddInv(w, i)
    PROVE  Good(h) /\ Served(h)
<1> DEFINE v == [w.obj[i] EXCEPT !.where = "invent", !.no_charge = FALSE]
           o == [w.obj EXCEPT ![i] = v]
           held == [obj |-> o, bill |-> w.bill, books |-> w.books]
<1>1. /\ w.obj \in [ObjIds -> ObjType] /\ i \in ObjIds /\ w.obj[i] \in ObjType
      /\ w = [obj |-> w.obj, bill |-> w.bill, books |-> w.books]
  BY DEF Good, IsWorld, Held
<1>2. /\ v \in ObjType /\ v.where = "invent" /\ v.unpaid = w.obj[i].unpaid
      /\ v.quan = w.obj[i].quan /\ v.quan \in Nat
  BY <1>1 DEF ObjType, Wheres
<1>3. [w EXCEPT !.obj[i].where = "invent", !.obj[i].no_charge = FALSE] = held
  <2>1. PICK p, b, y : w = [obj |-> p, bill |-> b, books |-> y] /\ p = w.obj /\ b = w.bill /\ y = w.books
    BY <1>1
  <2>2. PICK w1, p1 : w1 = [w EXCEPT !.obj[i].where = "invent"] /\ p1 = [p EXCEPT ![i].where = "invent"]
    OBVIOUS
  <2>3. w1 = [obj |-> p1, bill |-> b, books |-> y]
    BY <2>1, <2>2
  <2>4. PICK w2, p2 : w2 = [w1 EXCEPT !.obj[i].no_charge = FALSE] /\ p2 = [p1 EXCEPT ![i].no_charge = FALSE]
    OBVIOUS
  <2>5. w2 = [obj |-> p2, bill |-> b, books |-> y]
    BY <2>3, <2>4
  <2>6. p2 = o
    BY <1>1, <2>1, <2>2, <2>4
  <2>7. [w EXCEPT !.obj[i].where = "invent", !.obj[i].no_charge = FALSE] = w2
    BY <2>2, <2>4
  <2> HIDE DEF o
  <2>8. held = [obj |-> p2, bill |-> b, books |-> y]
    BY <2>1, <2>6, Zenon
  <2>9. QED
    BY <2>5, <2>7, <2>8, Zenon
<1>4. PICK g : g = held
  OBVIOUS
<1> DEFINE stacks == {j \in ObjIds : StackableGoods(g, i, j)}
<1>5. h = IF stacks = {} THEN g ELSE MergeInto(g, i, Min(stacks))
  <2>1. g = [w EXCEPT !.obj[i].where = "invent", !.obj[i].no_charge = FALSE]
    BY <1>3, <1>4
  <2> HIDE DEF held
  <2>2. QED
    BY <2>1 DEF AddInv
<1> HIDE DEF v
<1>6. Moved(g, w, i)
  BY <1>2, <1>4, MoveIs
<1> HIDE DEF held
<1>7. Good(g) /\ Served(g) /\ Held(g, i)
  BY <1>6, MovedIs
<1>8. CASE stacks = {}
  BY <1>5, <1>7, <1>8
<1>9. CASE stacks # {}
  <2>1. PICK j : j = Min(stacks)
    OBVIOUS
  <2>2. j \in stacks
    BY <1>9, <2>1, FirstIs
  <2>3. j \in ObjIds /\ StackableGoods(g, i, j) /\ h = MergeInto(g, i, j)
    BY <1>5, <1>9, <2>1, <2>2
  <2>4. QED
    BY <1>7, <2>3, MergeIs
<1>10. QED
  BY <1>8, <1>9

(* stackobj.                                                               *)
LEMMA StackIs ==
    ASSUME NEW w, Good(w), Served(w), NEW i, Held(w, i), NEW h, h = StackObj(w, i)
    PROVE  Good(h) /\ Served(h)
<1> DEFINE piles == {j \in ObjIds : StackableGoods(w, i, j)}
<1>1. h = IF piles = {} THEN w ELSE MergeInto(w, Min(piles), i)
  BY DEF StackObj
<1>2. CASE piles = {}
  BY <1>1, <1>2
<1>3. CASE piles # {}
  <2>1. PICK j : j = Min(piles)
    OBVIOUS
  <2>2. j \in piles
    BY <1>3, <2>1, FirstIs
  <2>3. j \in ObjIds /\ StackableGoods(w, i, j) /\ h = MergeInto(w, j, i)
    BY <1>1, <1>3, <2>1, <2>2
  <2>4. StackableGoods(w, j, i) /\ Held(w, j) /\ i \in ObjIds
    BY <2>3 DEF StackableGoods, Held
  <2>5. QED
    BY <2>3, <2>4, MergeIs
<1>4. QED
  BY <1>2, <1>3

(* sellobj.                                                                *)
LEMMA SellIs ==
    ASSUME NEW w, Good(w), Served(w), NEW i, Held(w, i), NEW j, Fresh(w, j), NEW sells,
           NEW h, h = SellObj(w, i, j, sells)
    PROVE  Good(h) /\ Served(h) /\ Held(h, i)
<1>1. /\ w.obj \in [ObjIds -> ObjType] /\ i \in ObjIds /\ w.obj[i] \in ObjType
      /\ w = [obj |-> w.obj, bill |-> w.bill, books |-> w.books]
  BY DEF Good, IsWorld, Held
<1>2. PICK p \in [ObjIds -> ObjType] : \E b, y :
         w = [obj |-> p, bill |-> b, books |-> y] /\ p = w.obj /\ b = w.bill /\ y = w.books
  BY <1>1
<1>3. PICK b, y :
         w = [obj |-> p, bill |-> b, books |-> y] /\ p = w.obj /\ b = w.bill /\ y = w.books
  BY <1>2
<1>4. CASE Tended /\ w.obj[i].unpaid
  <2>1. h = SubFromBill(w, i, j)
    BY <1>4 DEF SellObj
  <2>2. QED
    BY <1>4, <2>1, SubIs
<1>5. CASE h = [w EXCEPT !.obj[i].no_charge = TRUE]
  <2>1. PICK o, v : v = [p[i] EXCEPT !.no_charge = TRUE] /\ o = [p EXCEPT ![i] = v]
    OBVIOUS
  <2>2. h = [obj |-> o, bill |-> b, books |-> y]
    BY <1>1, <1>3, <1>5, <2>1
  <2>3. /\ v \in ObjType /\ v.where = w.obj[i].where /\ v.unpaid = w.obj[i].unpaid
        /\ v.quan <= w.obj[i].quan
    <3>1. PICK u \in ObjType : u = w.obj[i] /\ u = p[i]
      BY <1>1, <1>3
    <3>2. v = [u EXCEPT !.no_charge = TRUE]
      BY <2>1, <3>1
    <3>3. v \in ObjType /\ v.where = u.where /\ v.unpaid = u.unpaid /\ v.quan = u.quan /\ u.quan \in Nat
      BY <3>2 DEF ObjType
    <3>4. QED
      BY <3>1, <3>3
  <2>4. v.where \notin {"gone", "billobjs"}
    BY <2>3 DEF Held
  <2>5. o = [w.obj EXCEPT ![i] = v] /\ h = [obj |-> o, bill |-> w.bill, books |-> y]
    BY <1>3, <2>1, <2>2
  <2>6. Moved(h, w, i)
    BY <2>3, <2>4, <2>5, MoveIs
  <2>7. QED
    BY <2>6, MovedIs
<1>6. CASE \E z : h = [w EXCEPT !.books = z]
  <2>1. PICK z : h = [obj |-> p, bill |-> b, books |-> z]
    BY <1>3, <1>6
  <2>2. h.obj = w.obj /\ h.bill = w.bill /\ IsWorld(h)
    BY <1>3, <2>1 DEF Good, IsWorld
  <2>3. QED
    BY <2>2 DEF Good, Served, Held
<1>7. \/ h = SubFromBill(w, i, j) /\ Tended /\ w.obj[i].unpaid
      \/ h = [w EXCEPT !.obj[i].no_charge = TRUE]
      \/ \E z : h = [w EXCEPT !.books = z]
  BY Zenon DEF SellObj
<1>8. QED
  BY <1>4, <1>5, <1>6, <1>7

(* setpaid: nothing is billed and nothing is unpaid.                       *)
LEMMA ClearedIs ==
    ASSUME NEW w, Good(w), Served(w), NEW h, h = WriteOff(w)
    PROVE  Good(h) /\ h.bill = <<>>
<1> DEFINE O == [i \in ObjIds |->
                   IF w.obj[i].where = "billobjs" THEN NoObj
                   ELSE [w.obj[i] EXCEPT !.unpaid = @ /\ OnBill(w, i) = 0]]
<1>1. w.obj \in [ObjIds -> ObjType] /\ w = [obj |-> w.obj, bill |-> w.bill, books |-> w.books]
  BY DEF Good, IsWorld
<1>2. PICK z : h = [obj |-> O, bill |-> <<>>, books |-> z]
  <2>1. SetPaid(w) = [w EXCEPT !.obj = O, !.bill = <<>>]
    BY DEF SetPaid
  <2> HIDE DEF O
  <2>2. SetPaid(w) = [obj |-> O, bill |-> <<>>, books |-> w.books]
    BY <1>1, <2>1
  <2>3. PICK y : h = [SetPaid(w) EXCEPT !.books = @ + y[1] - y[2]]
    <3> DEFINE back == MapThenSumSet(LAMBDA i : w.obj[i].quan,
                          {i \in ObjIds : w.obj[i].where = "shop" /\ w.obj[i].unpaid})
    <3>1. h = [SetPaid(w) EXCEPT !.books = @ + Billed(w) - back]
      BY DEF WriteOff
    <3> HIDE DEF back
    <3>2. WITNESS <<Billed(w), back>>
    <3>3. QED
      BY <3>1
  <2>4. PICK u : u = SetPaid(w)
    OBVIOUS
  <2>5. u = [obj |-> O, bill |-> <<>>, books |-> w.books] /\ h = [u EXCEPT !.books = @ + y[1] - y[2]]
    BY <2>2, <2>3, <2>4
  <2>6. h = [obj |-> O, bill |-> <<>>, books |-> w.books + y[1] - y[2]]
    BY <2>5
  <2>7. QED
    BY <2>6
<1>3. ASSUME NEW i \in ObjIds
      PROVE  O[i] \in ObjType /\ (O[i].where # "billobjs" => O[i].unpaid = FALSE)
  <2>1. w.obj[i] \in ObjType
    BY <1>1
  <2>2. CASE w.obj[i].where = "billobjs"
    BY <2>2 DEF NoObj, ObjType, Wheres
  <2>3. CASE w.obj[i].where # "billobjs"
    <3>1. w.obj[i].unpaid => OnBill(w, i) # 0
      BY <2>3, UnpaidIs
    <3>2. (w.obj[i].unpaid /\ OnBill(w, i) = 0) = FALSE
      BY <3>1
    <3>3. O[i] = [w.obj[i] EXCEPT !.unpaid = FALSE]
      BY <2>3, <3>2
    <3> HIDE DEF O
    <3>4. QED
      BY <2>1, <3>3 DEF ObjType
  <2>4. QED
    BY <2>2, <2>3
<1>4. O \in [ObjIds -> ObjType]
  BY <1>3
<1> HIDE DEF O
<1>5. Listed(<<>>) = {} /\ OneEach(<<>>) /\ <<>> \in Seq(EntryType) /\ Len(<<>>) <= BillSz
  BY ShopBillAssumption DEF Listed, OneEach
<1>6. Match(O, {})
  BY <1>3 DEF Match, MatchAt
<1>7. h.obj = O /\ h.bill = <<>> /\ h = [obj |-> h.obj, bill |-> h.bill, books |-> h.books]
  BY <1>2
<1>8. QED
  BY <1>4, <1>5, <1>6, <1>7 DEF Good, IsWorld

-----------------------------------------------------------------------------
(* Paying.                                                                 *)
Purse(w, f, s, t) == [w |-> w, funds |-> f, pass |-> s, tmp |-> t]
PayInv(p) == \E w, f, s, t :
    p = Purse(w, f, s, t) /\ Good(w) /\ s \in 0..2 /\ t \in Nat \ {0}

(* An entry and its object.                                                *)
LEMMA EntryObject ==
    ASSUME NEW w, Good(w), NEW k \in DOMAIN w.bill, NEW e, e = w.bill[k], NEW o, o = w.obj[e.id]
    PROVE  /\ e \in EntryType /\ e.id \in ObjIds /\ e.bquan \in Nat /\ e.useup \in BOOLEAN
           /\ o \in ObjType /\ o.quan \in Nat /\ o.quan <= e.bquan
           /\ e.useup <=> o.where = "billobjs"
           /\ o.where # "gone" /\ (o.where # "billobjs" => o.unpaid)
<1>1. w.bill \in Seq(EntryType) /\ w.obj \in [ObjIds -> ObjType]
  BY DEF Good, IsWorld
<1>2. e \in EntryType /\ e \in Listed(w.bill)
  BY <1>1, ListedIs
<1>3. e.id \in ObjIds /\ e.bquan \in Nat /\ e.useup \in BOOLEAN
  BY <1>2 DEF EntryType
<1>4. o \in ObjType
  BY <1>1, <1>3
<1>5. MatchAt(w.obj, Listed(w.bill), e.id)
  BY <1>3 DEF Good, Match
<1>6. QED
  BY <1>2, <1>3, <1>4, <1>5 DEF MatchAt, ObjType

(* The object is seen to: its quantity and its flag are put right.         *)
SeenTo(h, w, k, i, v) ==
    /\ k \in DOMAIN w.bill /\ i = w.bill[k].id
    /\ v \in ObjType /\ v.where = w.obj[i].where /\ v.quan <= w.bill[k].bquan
    /\ v.unpaid \/ v.where = "billobjs"
    /\ h = [obj |-> [w.obj EXCEPT ![i] = v], bill |-> w.bill, books |-> w.books]

(* Then bill and objects agree as before.                                  *)
LEMMA SeenToIs ==
    ASSUME NEW w, Good(w), NEW k, NEW i, NEW v, NEW h, SeenTo(h, w, k, i, v)
    PROVE  Good(h) /\ h.obj[i] = v
<1>1. /\ w.obj \in [ObjIds -> ObjType] /\ w.bill \in Seq(EntryType) /\ k \in DOMAIN w.bill
      /\ i = w.bill[k].id /\ v \in ObjType /\ v.where = w.obj[i].where
      /\ v.quan <= w.bill[k].bquan /\ (v.unpaid \/ v.where = "billobjs")
  BY DEF Good, IsWorld, SeenTo
<1> DEFINE o == [w.obj EXCEPT ![i] = v]
<1>2. h = [obj |-> o, bill |-> w.bill, books |-> w.books]
  BY DEF SeenTo
<1>3. PICK e : e = w.bill[k]
  OBVIOUS
<1>4. /\ e \in EntryType /\ i \in ObjIds
      /\ e.useup <=> w.obj[i].where = "billobjs"
      /\ w.obj[i].where # "gone"
  BY <1>1, <1>3, EntryObject
<1>5. o \in [ObjIds -> ObjType] /\ o[i] = v /\ \A x \in ObjIds \ {i} : o[x] = w.obj[x]
  BY <1>1, <1>4
<1> HIDE DEF o
<1>6. h.obj = o /\ h.bill = w.bill /\ IsWorld(h)
  BY <1>1, <1>5, <1>2 DEF IsWorld
<1>7. Local(h, w, {i})
  BY <1>5, <1>6 DEF Local
<1>8. OneEach(w.bill) /\ WellKept(h.bill)
  BY <1>6 DEF Good, WellKept
<1>9. e \in Listed(w.bill) /\ e.id = i /\ NoOther(w.bill, k, i)
  BY <1>1, <1>3, <1>8, EntryAlone
<1>10. \A x \in Listed(w.bill) : x.id = i => x = e
  BY <1>3, <1>9 DEF NoOther
<1>11. MatchAt(h.obj, Listed(h.bill), i)
  <2>1. v.quan <= e.bquan
    BY <1>1, <1>3
  <2>2. QED
    BY <1>1, <1>4, <1>5, <1>6, <1>9, <1>10, <2>1 DEF MatchAt
<1>12. MatchOn(h, {i})
  BY <1>11, Zenon DEF MatchOn
<1>13. Good(h)
  BY <1>7, <1>8, <1>12, GoodElsewhere
<1>14. QED
  BY <1>5, <1>6, <1>13

(* dopayobj's end.                                                         *)
LEMMA PayForIs ==
    ASSUME NEW w, Good(w), NEW f, NEW s \in 0..1, NEW t \in DOMAIN w.bill,
           NEW e, e = w.bill[t], NEW o, o = w.obj[e.id], NEW quan,
           s = 0 /\ quan # e.bquan => ~e.useup,
           NEW p, p = Purse(w, f, s, t)
    PROVE  PayInv(PayFor(p, quan, o, e))
<1>1. PICK ob \in [ObjIds -> ObjType], b \in Seq(EntryType) : \E y :
         w = [obj |-> ob, bill |-> b, books |-> y]
  BY DEF Good, IsWorld
<1>2. PICK y :
         w = [obj |-> ob, bill |-> b, books |-> y]
  BY <1>1
<1>3. w.obj = ob /\ w.bill = b /\ t \in Nat \ {0} /\ s \in 0..2
  BY <1>2
<1>4. /\ e \in EntryType /\ e.id \in ObjIds /\ e.bquan \in Nat /\ e.useup \in BOOLEAN
      /\ o \in ObjType /\ o.quan \in Nat /\ o.quan <= e.bquan
      /\ e.useup <=> o.where = "billobjs"
      /\ o.where # "gone" /\ (o.where # "billobjs" => o.unpaid)
  BY EntryObject
<1>5. PICK i : i = e.id
  OBVIOUS
<1>6. o = ob[i] /\ e = b[t] /\ i \in ObjIds
  BY <1>3, <1>4, <1>5
<1> DEFINE kept == s = 1 /\ o.where = "shop"
           z == IF kept THEN y ELSE y + quan
           paid == [p EXCEPT !.funds = @ - quan, !.w.books = IF kept THEN @ ELSE @ + quan]
<1>7. PICK g : g = paid
  OBVIOUS
<1>8. PICK u : u = [obj |-> ob, bill |-> b, books |-> z]
  OBVIOUS
<1>9. g = Purse(u, f - quan, s, t)
  <2>1. PICK g1 : g1 = [p EXCEPT !.funds = @ - quan]
    OBVIOUS
  <2>2. g1 = [w |-> w, funds |-> f - quan, pass |-> s, tmp |-> t]
    BY <2>1 DEF Purse
  <2>3. g = [g1 EXCEPT !.w.books = IF kept THEN @ ELSE @ + quan]
    <3>1. p.pass = s /\ p.w = w
      BY DEF Purse
    <3>2. QED
      BY <1>7, <2>1, <3>1
  <2>4. PICK w1 : w1 = [w EXCEPT !.books = IF kept THEN @ ELSE @ + quan]
    OBVIOUS
  <2>5. w1 = u
    BY <1>2, <1>8, <2>4
  <2>6. g = [w |-> w1, funds |-> f - quan, pass |-> s, tmp |-> t]
    BY <2>2, <2>3, <2>4
  <2>7. QED
    BY <2>5, <2>6 DEF Purse
<1> HIDE DEF kept, z
<1>10. IsWorld(u) /\ u.obj = ob /\ u.bill = b
  BY <1>8 DEF IsWorld
<1>11. PICK h : h = PayFor(p, quan, o, e)
  OBVIOUS
<1>12. p.pass = s /\ p.tmp = t
  BY DEF Purse
<1>13. CASE s = 0 /\ quan # e.bquan
  <2> DEFINE x == [id |-> i, bquan |-> o.quan, useup |-> FALSE]
             b2 == [b EXCEPT ![t] = x]
             v == [obj |-> ob, bill |-> b2, books |-> z]
  <2>1. x \in EntryType /\ x.id = i /\ x.bquan = o.quan /\ x.useup = FALSE
    BY <1>4, <1>6 DEF EntryType
  <2>2. h = [g EXCEPT !.w.bill[t] = [id |-> i, bquan |-> o.quan, useup |-> FALSE]]
    BY <1>5, <1>7, <1>11, <1>12, <1>13 DEF PayFor, kept
  <2> HIDE DEF x
  <2>3. h = Purse(v, f - quan, s, t)
    <3>1. h = [g EXCEPT !.w.bill[t] = x]
      BY <2>2 DEF x
    <3>2. PICK u2 : u2 = [u EXCEPT !.bill[t] = x]
      OBVIOUS
    <3>3. u2 = v
      BY <1>8, <3>2
    <3> HIDE DEF v
    <3>4. h = [w |-> u2, funds |-> f - quan, pass |-> s, tmp |-> t]
      BY <1>9, <3>1, <3>2 DEF Purse
    <3>5. QED
      BY <3>3, <3>4 DEF Purse
  <2>4. With(b2, b, t, x) /\ b2 \in Seq(EntryType)
    BY <1>3, <2>1 DEF With
  <2> HIDE DEF b2
  <2>5. v.obj = ob /\ v.bill = b2 /\ IsWorld(v)
    BY <2>4 DEF IsWorld
  <2> HIDE DEF v
  <2>6. Replaced(v, w, t, i, x)
    BY <1>3, <1>4, <1>5, <1>6, <1>13, <2>1, <2>4, <2>5 DEF Replaced
  <2>7. Good(v)
    BY <2>6, ReplacedIs
  <2>8. QED
    BY <1>3, <1>11, <2>3, <2>7 DEF PayInv
<1>14. CASE ~(s = 0 /\ quan # e.bquan)
  <2> DEFINE r == IF s = 0 THEN NoObj ELSE [o EXCEPT !.unpaid = FALSE]
             o2 == [ob EXCEPT ![i] = r]
             v == [obj |-> o2, bill |-> b, books |-> z]
  <2>1. r \in ObjType /\ (r.where # "billobjs" => r.unpaid = FALSE)
    BY <1>4 DEF ObjType, NoObj, Wheres
  <2>2. h = [g EXCEPT !.w = Strike(v, t)]
    <3>1. CASE s = 0
      <4>1. h = [g EXCEPT !.w = Strike([g.w EXCEPT !.obj[i] = NoObj], t)]
        <5>1. p.pass = 0 /\ quan = e.bquan
          BY <1>12, <1>14, <3>1
        <5>2. PayFor(p, quan, o, e) = [g EXCEPT !.w = Strike([@ EXCEPT !.obj[e.id] = NoObj], p.tmp)]
          BY <1>7, <1>12, <5>1 DEF PayFor, kept
        <5>3. QED
          BY <1>5, <1>11, <1>12, <5>2
      <4>2. g.w = u
        BY <1>9 DEF Purse
      <4>3. PICK u2 : u2 = [u EXCEPT !.obj[i] = NoObj]
        OBVIOUS
      <4>4. u2 = v
        <5>1. PICK o3 : o3 = [ob EXCEPT ![i] = NoObj]
          OBVIOUS
        <5>2. u2 = [obj |-> o3, bill |-> b, books |-> z]
          BY <1>8, <4>3, <5>1
        <5>3. r = NoObj
          BY <3>1
        <5> HIDE DEF r
        <5>4. o2 = o3
          BY <1>6, <5>1, <5>3
        <5> HIDE DEF o2
        <5>5. QED
          BY <5>2, <5>4
      <4>5. h = [g EXCEPT !.w = Strike(u2, t)]
        BY <4>1, <4>2, <4>3
      <4>6. QED
        BY <4>4, <4>5
    <3>2. CASE s = 1
      <4>1. h = [g EXCEPT !.w = Strike([g.w EXCEPT !.obj[i].unpaid = FALSE], t)]
        <5>1. ~(p.pass = 0)
          BY <1>12, <1>14, <3>2
        <5>2. PayFor(p, quan, o, e) = [g EXCEPT !.w = Strike([@ EXCEPT !.obj[e.id].unpaid = FALSE], p.tmp)]
          BY <1>7, <1>12, <5>1 DEF PayFor, kept
        <5>3. QED
          BY <1>5, <1>11, <1>12, <5>2
      <4>2. g.w = u
        BY <1>9 DEF Purse
      <4>3. PICK u2 : u2 = [u EXCEPT !.obj[i].unpaid = FALSE]
        OBVIOUS
      <4>4. u2 = v
        <5>1. PICK o3 : o3 = [ob EXCEPT ![i].unpaid = FALSE]
          OBVIOUS
        <5>2. u2 = [obj |-> o3, bill |-> b, books |-> z]
          BY <1>8, <4>3, <5>1
        <5>3. r = [o EXCEPT !.unpaid = FALSE]
          BY <3>2
        <5> HIDE DEF r
        <5>4. o2 = o3
          BY <1>6, <5>1, <5>3
        <5> HIDE DEF o2
        <5>5. QED
          BY <5>2, <5>4
      <4>5. h = [g EXCEPT !.w = Strike(u2, t)]
        BY <4>1, <4>2, <4>3
      <4>6. QED
        BY <4>4, <4>5
    <3>3. QED
      BY <3>1, <3>2
  <2> HIDE DEF r
  <2>3. PICK n, u2 : u2 = v /\ n = Strike(u2, t)
    OBVIOUS
  <2>4. h = Purse(n, f - quan, s, t)
    <3> HIDE DEF v
    <3>1. h = [g EXCEPT !.w = n]
      BY <2>2, <2>3
    <3>2. QED
      BY <1>9, <3>1 DEF Purse
  <2>5. u2.obj = o2 /\ u2.bill = b
    BY <2>3
  <2>6. /\ o2 \in [ObjIds -> ObjType] /\ o2[i] = r
        /\ \A x \in ObjIds \ {i} : o2[x] = ob[x]
    BY <1>6, <2>1
  <2> HIDE DEF o2
  <2>7. IsWorld(u2)
    BY <2>3, <2>5, <2>6 DEF IsWorld
  <2> HIDE DEF v
  <2>8. Struck(n, u2, w, t, i)
    BY <1>3, <1>5, <1>6, <2>1, <2>3, <2>5, <2>6, <2>7 DEF Struck
  <2>9. Good(n)
    BY <2>8, StruckIs
  <2>10. QED
    BY <1>3, <1>11, <2>4, <2>9 DEF PayInv
<1>15. QED
  BY <1>13, <1>14

(* dopayobj.                                                               *)
LEMMA PayObjIs ==
    ASSUME NEW w, Good(w), NEW f, NEW s \in 0..1, NEW t \in DOMAIN w.bill,
           w.bill[t].useup => w.obj[w.bill[t].id].quan = w.bill[t].bquan,
           NEW p, p = Purse(w, f, s, t), NEW itemize, NEW yes
    PROVE  PayInv(PayObj(p, itemize, yes))
<1>1. PICK e, i, o : e = w.bill[t] /\ i = e.id /\ o = w.obj[e.id]
  OBVIOUS
<1>2. /\ e \in EntryType /\ e.id \in ObjIds /\ e.bquan \in Nat /\ e.useup \in BOOLEAN
      /\ o \in ObjType /\ o.quan \in Nat /\ o.quan <= e.bquan
      /\ e.useup <=> o.where = "billobjs"
      /\ o.where # "gone" /\ (o.where # "billobjs" => o.unpaid)
  BY <1>1, EntryObject
<1>3. p.w = w /\ p.tmp = t /\ p.pass = s /\ p.funds = f
  BY DEF Purse
<1>4. t \in Nat \ {0} /\ s \in 0..2 /\ 2 \in 0..2 /\ t + 1 \in Nat \ {0}
  BY DEF Good, IsWorld
<1> DEFINE v == [o EXCEPT !.unpaid = TRUE]
           o2 == [w.obj EXCEPT ![i] = v]
           h == [obj |-> o2, bill |-> w.bill, books |-> w.books]
           q == Purse(h, f, s, t)
<1>5. v \in ObjType /\ v.where = o.where /\ v.quan = o.quan /\ v.unpaid = TRUE
  BY <1>2 DEF ObjType
<1>6. Good(h)
  <2>1. PICK h3, v3 : v3 = v /\ h3 = h
    OBVIOUS
  <2>2. /\ h3 = [obj |-> [w.obj EXCEPT ![i] = v3], bill |-> w.bill, books |-> w.books]
        /\ i = w.bill[t].id
    BY <1>1, <2>1
  <2>3. v3 \in ObjType /\ v3.where = w.obj[i].where /\ v3.quan <= w.bill[t].bquan /\ v3.unpaid
    BY <1>1, <1>2, <1>5, <2>1
  <2>4. SeenTo(h3, w, t, i, v3)
    BY <2>2, <2>3 DEF SeenTo
  <2>5. Good(h3)
    BY <2>4, SeenToIs
  <2>6. QED
    BY <2>1, <2>5
<1>7. [p EXCEPT !.w.obj[e.id].unpaid = TRUE] = q
  <2>1. PICK ob, b, y : w = [obj |-> ob, bill |-> b, books |-> y] /\ ob = w.obj /\ b = w.bill /\ y = w.books
    BY DEF Good, IsWorld
  <2>2. PICK o3, h3, p3 : /\ o3 = [ob EXCEPT ![i].unpaid = TRUE]
                          /\ h3 = [w EXCEPT !.obj[i].unpaid = TRUE]
                          /\ p3 = [p EXCEPT !.w.obj[i].unpaid = TRUE]
    OBVIOUS
  <2>3. h3 = [obj |-> o3, bill |-> b, books |-> y]
    BY <2>1, <2>2
  <2>4. p3 = [w |-> h3, funds |-> f, pass |-> s, tmp |-> t]
    BY <2>2 DEF Purse
  <2>5. o3 = o2
    BY <1>1, <2>1, <2>2
  <2> HIDE DEF o2
  <2>6. h3 = h
    BY <2>1, <2>3, <2>5, Zenon
  <2>7. p3 = q
    BY <2>4, <2>6, Zenon DEF Purse
  <2>8. QED
    BY <1>1, <2>2, <2>7
<1> HIDE DEF h
<1>8. PayInv(q) /\ PayInv(PayNext(q)) /\ PayInv([q EXCEPT !.pass = 2])
  <2>1. PayInv(q)
    BY <1>4, <1>6 DEF PayInv
  <2>2. PayNext(q) = Purse(h, f, s, t + 1)
    BY DEF PayNext, Purse
  <2>3. [q EXCEPT !.pass = 2] = Purse(h, f, 2, t)
    BY DEF Purse
  <2> HIDE DEF q
  <2>4. QED
    BY <1>4, <1>6, <2>1, <2>2, <2>3 DEF PayInv
<1>9. PayInv([p EXCEPT !.pass = 2])
  <2>1. [p EXCEPT !.pass = 2] = Purse(w, f, 2, t)
    BY DEF Purse
  <2>2. QED
    BY <1>4, <2>1 DEF PayInv
<1> DEFINE quan == IF p.pass = 1 THEN o.quan
                   ELSE IF e.bquan > o.quan THEN e.bquan - o.quan ELSE e.bquan
<1>10. PayInv(PayFor(p, quan, o, e))
  <2>1. PICK n : n = quan
    OBVIOUS
  <2>2. s = 0 /\ n # e.bquan => ~e.useup
    BY <1>1, <1>2, <1>3, <2>1
  <2> HIDE DEF quan
  <2>3. PayInv(PayFor(p, n, o, e))
    BY <1>1, <2>2, PayForIs
  <2>4. QED
    BY <2>1, <2>3
<1> HIDE DEF quan, q
<1>11. \/ PayObj(p, itemize, yes) = [p EXCEPT !.pass = 2]
       \/ PayObj(p, itemize, yes) = PayNext(q)
       \/ PayObj(p, itemize, yes) = [q EXCEPT !.pass = 2]
       \/ PayObj(p, itemize, yes) = PayFor(p, quan, o, e)
  BY <1>1, <1>3, <1>7, Zenon DEF PayObj, quan
<1>12. QED
  BY <1>8, <1>9, <1>10, <1>11

(* A turn of the loops.                                                    *)
LEMMA PayStepIs ==
    ASSUME NEW p, PayInv(p), NEW itemize, NEW yes
    PROVE  PayInv(PayStep(p, itemize, yes))
<1>1. PICK w, f, s, t : p = Purse(w, f, s, t) /\ Good(w) /\ s \in 0..2 /\ t \in Nat \ {0}
  BY DEF PayInv
<1>2. p.w = w /\ p.tmp = t /\ p.pass = s /\ p.funds = f
  BY <1>1 DEF Purse
<1>3. CASE s = 2
  BY <1>2, <1>3 DEF PayStep
<1>4. CASE s # 2 /\ t > Len(w.bill)
  <2>1. PayStep(p, itemize, yes) = [p EXCEPT !.pass = @ + 1, !.tmp = 1]
    BY <1>2, <1>4 DEF PayStep
  <2>2. PICK g : g = [p EXCEPT !.pass = @ + 1, !.tmp = 1]
    OBVIOUS
  <2>3. g = Purse(w, f, s + 1, 1)
    BY <1>1, <2>2 DEF Purse
  <2>4. s + 1 \in 0..2 /\ 1 \in Nat \ {0}
    BY <1>1, <1>4
  <2>5. PayInv(g)
    BY <1>1, <2>3, <2>4 DEF PayInv
  <2>6. QED
    BY <2>1, <2>2, <2>5
<1>5. CASE s # 2 /\ ~(t > Len(w.bill))
  <2>1. s \in 0..1 /\ t \in DOMAIN w.bill
    BY <1>1, <1>5 DEF Good, IsWorld
  <2>2. PICK e, i, o : e = w.bill[t] /\ i = e.id /\ o = w.obj[e.id]
    OBVIOUS
  <2>3. /\ e \in EntryType /\ e.id \in ObjIds /\ e.bquan \in Nat /\ e.useup \in BOOLEAN
        /\ o \in ObjType /\ o.quan \in Nat /\ o.quan <= e.bquan
        /\ e.useup <=> o.where = "billobjs"
        /\ o.where # "gone" /\ (o.where # "billobjs" => o.unpaid)
    BY <1>1, <2>1, <2>2, EntryObject
  <2>4. PICK q : q = IF e.useup THEN [p EXCEPT !.w.obj[e.id].quan = e.bquan] ELSE p
    OBVIOUS
  <2>5. PICK h : /\ q = Purse(h, f, s, t) /\ Good(h) /\ h.bill = w.bill
                 /\ e.useup => h.obj[i].quan = e.bquan
    <3>1. CASE ~e.useup
      BY <1>1, <2>4, <3>1
    <3>2. CASE e.useup
      <4>1. PICK ob, b, y : w = [obj |-> ob, bill |-> b, books |-> y] /\ ob = w.obj /\ b = w.bill /\ y = w.books
        BY <1>1 DEF Good, IsWorld
      <4>2. PICK v, o2, o3, h : /\ v = [o EXCEPT !.quan = e.bquan]
                                /\ o2 = [ob EXCEPT ![i] = v]
                                /\ o3 = [ob EXCEPT ![i].quan = e.bquan]
                                /\ h = [w EXCEPT !.obj[i].quan = e.bquan]
        OBVIOUS
      <4>3. h = [obj |-> o3, bill |-> b, books |-> y]
        BY <4>1, <4>2
      <4>4. o3 = o2
        BY <2>2, <4>1, <4>2
      <4>5. v \in ObjType /\ v.where = o.where /\ v.quan = e.bquan
        BY <2>3, <4>2 DEF ObjType
      <4>6. Good(h) /\ h.obj[i] = v
        <5>1. /\ h = [obj |-> [w.obj EXCEPT ![i] = v], bill |-> w.bill, books |-> w.books]
              /\ i = w.bill[t].id
          BY <2>2, <4>1, <4>2, <4>3, <4>4
        <5>2. v \in ObjType /\ v.where = w.obj[i].where /\ v.quan <= w.bill[t].bquan
              /\ (v.unpaid \/ v.where = "billobjs")
          BY <2>2, <2>3, <3>2, <4>5
        <5>3. SeenTo(h, w, t, i, v)
          BY <2>1, <5>1, <5>2 DEF SeenTo
        <5>4. QED
          BY <1>1, <5>3, SeenToIs
      <4>7. q = Purse(h, f, s, t)
        <5>1. q = [p EXCEPT !.w.obj[i].quan = e.bquan]
          BY <2>2, <2>4, <3>2
        <5>2. q = [w |-> h, funds |-> f, pass |-> s, tmp |-> t]
          BY <1>1, <4>2, <5>1 DEF Purse
        <5>3. QED
          BY <5>2 DEF Purse
      <4>8. h.bill = w.bill
        BY <4>1, <4>3
      <4>9. QED
        BY <4>5, <4>6, <4>7, <4>8
    <3>3. QED
      BY <2>3, <3>1, <3>2
  <2>6. PayStep(p, itemize, yes) \in {PayNext(q), PayObj(q, itemize, yes)}
    BY <1>2, <1>5, <2>2, <2>4, Zenon DEF PayStep
  <2>7. PayInv(PayNext(q))
    <3>1. PayNext(q) = Purse(h, f, s, t + 1)
      BY <2>5 DEF PayNext, Purse
    <3>2. t + 1 \in Nat \ {0}
      BY <1>1
    <3>3. QED
      BY <1>1, <2>5, <3>1, <3>2 DEF PayInv
  <2>8. PayInv(PayObj(q, itemize, yes))
    <3>1. t \in DOMAIN h.bill /\ (h.bill[t].useup => h.obj[h.bill[t].id].quan = h.bill[t].bquan)
      BY <2>1, <2>2, <2>5
    <3>2. QED
      BY <2>1, <2>5, <3>1, PayObjIs
  <2>9. QED
    BY <2>6, <2>7, <2>8
<1>6. QED
  BY <1>3, <1>4, <1>5

(* The purses of n turns of the loops.                                     *)
Pays(g, w, itemize, yes, funds, n) ==
    g = [m \in 0..n |-> IF m = 0 THEN [w |-> w, funds |-> funds, pass |-> 0, tmp |-> 1]
                        ELSE PayStep(g[m - 1], itemize, yes)]

(* There are such purses for any number of turns.                          *)
LEMMA PaysSomehow ==
    ASSUME NEW w, NEW itemize, NEW yes, NEW funds
    PROVE  \A n \in Nat : \E g : Pays(g, w, itemize, yes, funds, n)
<1> DEFINE start == [w |-> w, funds |-> funds, pass |-> 0, tmp |-> 1]
           Bad == {n \in Nat : ~ \E g : Pays(g, w, itemize, yes, funds, n)}
<1>1. SUFFICES ASSUME Bad # {} PROVE FALSE
  OBVIOUS
<1>2. PICK b \in Bad : \A n \in Bad : b <= n
  BY <1>1, FirstExists
<1>3. b \in Nat /\ \A g : ~Pays(g, w, itemize, yes, funds, b)
  OBVIOUS
<1>4. CASE b = 0
  <2> DEFINE g == [m \in 0..0 |-> start]
  <2>1. g = [m \in 0..0 |-> IF m = 0 THEN start ELSE PayStep(g[m - 1], itemize, yes)]
    OBVIOUS
  <2>2. Pays(g, w, itemize, yes, funds, 0)
    BY <2>1 DEF Pays
  <2>3. QED
    BY <1>3, <1>4, <2>2
<1>5. CASE b # 0
  <2>1. b - 1 \in Nat /\ ~(b <= b - 1)
    BY <1>3, <1>5
  <2>2. b - 1 \notin Bad
    BY <1>2, <2>1
  <2>3. PICK f : Pays(f, w, itemize, yes, funds, b - 1)
    BY <2>1, <2>2
  <2> DEFINE g == [m \in 0..b |-> IF m = b THEN PayStep(f[b - 1], itemize, yes) ELSE f[m]]
  <2>4. ASSUME NEW m \in 0..b
        PROVE  g[m] = IF m = 0 THEN start ELSE PayStep(g[m - 1], itemize, yes)
    <3>1. CASE m = b
      <4>1. b - 1 \in 0..b /\ b - 1 # b
        BY <1>3, <2>1
      <4>2. g[b] = PayStep(f[b - 1], itemize, yes) /\ g[b - 1] = f[b - 1]
        BY <1>3, <4>1
      <4>3. QED
        BY <1>5, <3>1, <4>2
    <3>2. CASE m # b
      <4>1. m \in 0..(b - 1) /\ (m # 0 => m - 1 \in 0..b /\ m - 1 # b)
        BY <1>3, <3>2
      <4>2. f[m] = IF m = 0 THEN start ELSE PayStep(f[m - 1], itemize, yes)
        BY <2>3, <4>1 DEF Pays
      <4>3. g[m] = f[m] /\ (m # 0 => g[m - 1] = f[m - 1])
        BY <3>2, <4>1
      <4>4. QED
        BY <4>2, <4>3
    <3>3. QED
      BY <3>1, <3>2
  <2>5. g = [m \in 0..b |-> g[m]]
    OBVIOUS
  <2> HIDE DEF g
  <2>6. g = [m \in 0..b |-> IF m = 0 THEN start ELSE PayStep(g[m - 1], itemize, yes)]
    BY <2>4, <2>5
  <2>7. Pays(g, w, itemize, yes, funds, b)
    BY <2>6 DEF Pays
  <2>8. QED
    BY <1>3, <2>7
<1>6. QED
  BY <1>4, <1>5

(* dopay.                                                                  *)
LEMMA PayBillIs ==
    ASSUME NEW w, Good(w), NEW itemize, NEW yes, NEW funds
    PROVE  Good(PayBill(w, itemize, yes, funds))
<1> DEFINE turns == 3 * BillSz + 2
           start == [w |-> w, funds |-> funds, pass |-> 0, tmp |-> 1]
           after == CHOOSE g : g = [n \in 0..turns |->
                       IF n = 0 THEN start ELSE PayStep(g[n - 1], itemize, yes)]
<1>1. turns \in Nat
  BY ShopBillAssumption
<1>2. PayBill(w, itemize, yes, funds) = after[turns].w
  BY DEF PayBill
<1> HIDE DEF turns
<1>3. PICK g : Pays(g, w, itemize, yes, funds, turns)
  BY <1>1, PaysSomehow
<1>4. Pays(after, w, itemize, yes, funds, turns)
  BY <1>3 DEF Pays
<1> HIDE DEF after
<1>5. \A m \in 0..turns : after[m] = IF m = 0 THEN start ELSE PayStep(after[m - 1], itemize, yes)
  BY <1>4 DEF Pays
<1>6. PayInv(start)
  <2>1. start = Purse(w, funds, 0, 1) /\ 0 \in 0..2 /\ 1 \in Nat \ {0}
    BY DEF Purse
  <2> HIDE DEF start
  <2>2. QED
    BY <2>1 DEF PayInv
<1> HIDE DEF start
<1>7. \A m \in 0..turns : PayInv(after[m])
  <2> DEFINE Bad == {m \in 0..turns : ~PayInv(after[m])}
  <2>1. SUFFICES ASSUME Bad # {} PROVE FALSE
    OBVIOUS
  <2>2. PICK b \in Bad : \A m \in Bad : b <= m
    <3>1. Bad \in SUBSET Nat
      BY <1>1
    <3> HIDE DEF Bad
    <3>2. QED
      BY <2>1, <3>1, FirstExists
  <2>3. b \in 0..turns /\ ~PayInv(after[b])
    OBVIOUS
  <2>4. b # 0
    <3>1. 0 \in 0..turns
      BY <1>1
    <3>2. QED
      BY <1>5, <1>6, <2>3, <3>1
  <2>5. b - 1 \in 0..turns /\ ~(b <= b - 1)
    BY <1>1, <2>3, <2>4
  <2>6. PayInv(after[b - 1])
    BY <2>2, <2>5
  <2>7. after[b] = PayStep(after[b - 1], itemize, yes)
    BY <1>5, <2>3, <2>4
  <2>8. QED
    BY <2>3, <2>6, <2>7, PayStepIs
<1>8. PayInv(after[turns])
  BY <1>1, <1>7
<1>9. QED
  BY <1>2, <1>8 DEF PayInv, Purse

-----------------------------------------------------------------------------
(* The actions.                                                            *)

(* The bill and the objects are those of a well-kept world, and nothing    *)
(* else has moved.                                                         *)
LEMMA BecomesGood ==
    ASSUME ShopInv, NEW w, Good(w), Served(w), ShopBecomes(w), UNCHANGED Whereabouts
    PROVE  ShopInv'
<1>1. Shop' = [obj |-> w.obj, bill |-> w.bill, books |-> w.books]
  BY DEF ShopBecomes, Shop
<1>2. Shop' = w
  BY <1>1 DEF Good, IsWorld
<1>3. Good(Shop)'
  BY <1>2 DEF Good, IsWorld
<1>4. Served(Shop)'
  BY <1>2 DEF Served, Tended, Whereabouts
<1>5. QED
  BY <1>3, <1>4 DEF ShopInv, Whereabouts

(* What lies in the shop or is carried is on nobody's pile of used things. *)
LEMMA WithinIs ==
    ASSUME ShopInv, NEW i \in ObjIds, obj[i].where \in {"shop", "invent", "monster"}
    PROVE  /\ Good(Shop) /\ Served(Shop) /\ Held(Shop, i) /\ Shop.obj = obj /\ Shop.bill = bill
           /\ obj \in [ObjIds -> ObjType] /\ obj[i] \in ObjType /\ bill \in Seq(EntryType)
           /\ Shop = [obj |-> obj, bill |-> bill, books |-> books]
<1>1. Shop.obj = obj /\ Shop.bill = bill
  BY DEF Shop
<1>2. Good(Shop) /\ Served(Shop)
  BY DEF ShopInv
<1>3. obj \in [ObjIds -> ObjType] /\ bill \in Seq(EntryType)
  BY <1>1, <1>2 DEF Good, IsWorld
<1>4. Held(Shop, i)
  BY <1>1 DEF Held
<1>5. QED
  BY <1>1, <1>2, <1>3, <1>4 DEF Shop

(* pickup_object.                                                          *)
LEMMA PickUpKeeps ==
    ASSUME ShopInv, NEW i \in ObjIds, NEW n \in 1..obj[i].quan, PickUpGoods(i, n)
    PROVE  ShopInv'
<1>1. Good(Shop) /\ Served(Shop) /\ Held(Shop, i) /\ (home => ~inactive)
  BY WithinIs DEF PickUpGoods, Within, ShopInv
<1>2. PICK s \in IdForPiece(i, n) : \E p :
         /\ p = PieceOf(i, n, Min(s))
         /\ ShopBecomes(AddInv(AddToBill(p.w, p.it, FALSE), p.it))
  BY DEF PickUpGoods
<1>3. PICK p :
         /\ p = PieceOf(i, n, Min(s))
         /\ ShopBecomes(AddInv(AddToBill(p.w, p.it, FALSE), p.it))
  BY <1>2
<1>4. Good(p.w) /\ Served(p.w) /\ Held(p.w, p.it)
  BY <1>1, <1>3, PieceIs
<1>5. PICK w, i2 : w = p.w /\ i2 = p.it
  OBVIOUS
<1>6. PICK h : h = AddToBill(w, i2, FALSE)
  OBVIOUS
<1>7. i2 \in ObjIds /\ w.obj[i2].where # "gone" /\ w.obj[i2].where # "billobjs"
  BY <1>4, <1>5 DEF Held
<1>8. Good(h) /\ Served(h) /\ Held(h, i2)
  BY <1>1, <1>4, <1>5, <1>6, <1>7, AddIs
<1>9. PICK g : g = AddInv(h, i2)
  OBVIOUS
<1>10. Good(g) /\ Served(g)
  BY <1>8, <1>9, AddInvIs
<1>11. ShopBecomes(g) /\ UNCHANGED Whereabouts
  BY <1>3, <1>5, <1>6, <1>9 DEF PickUpGoods
<1>12. QED
  BY <1>10, <1>11, BecomesGood

(* Something on the floor is used up: useupf.                              *)
LEMMA UseUpFloorKeeps ==
    ASSUME ShopInv, NEW i \in ObjIds, NEW n \in 1..obj[i].quan, UseUpFloor(i, n)
    PROVE  ShopInv'
<1>1. Good(Shop) /\ Served(Shop) /\ Held(Shop, i) /\ (home => ~inactive)
  BY WithinIs DEF UseUpFloor, Within, ShopInv
<1>2. PICK s \in IdForPiece(i, n) : \E p :
         /\ p = PieceOf(i, n, Min(s))
         /\ ShopBecomes(ObFree(AddToBill(p.w, p.it, FALSE), p.it, 0))
  BY DEF UseUpFloor
<1>3. PICK p :
         /\ p = PieceOf(i, n, Min(s))
         /\ ShopBecomes(ObFree(AddToBill(p.w, p.it, FALSE), p.it, 0))
  BY <1>2
<1>4. Good(p.w) /\ Served(p.w) /\ Held(p.w, p.it)
  BY <1>1, <1>3, PieceIs
<1>5. PICK w, i2 : w = p.w /\ i2 = p.it
  OBVIOUS
<1>6. PICK h : h = AddToBill(w, i2, FALSE)
  OBVIOUS
<1>7. i2 \in ObjIds /\ w.obj[i2].where # "gone" /\ w.obj[i2].where # "billobjs"
  BY <1>4, <1>5 DEF Held
<1>8. Good(h) /\ Served(h) /\ Held(h, i2)
  BY <1>1, <1>4, <1>5, <1>6, <1>7, AddIs
<1>9. PICK g : g = ObFree(h, i2, 0)
  OBVIOUS
<1>10. Good(g) /\ Served(g)
  BY <1>8, <1>9, ObFreeIs
<1>11. ShopBecomes(g) /\ UNCHANGED Whereabouts
  BY <1>3, <1>5, <1>6, <1>9 DEF UseUpFloor
<1>12. QED
  BY <1>10, <1>11, BecomesGood

(* Something carried is used up: useup.                                    *)
LEMMA UseUpKeeps ==
    ASSUME ShopInv, NEW i \in ObjIds, UseUp(i)
    PROVE  ShopInv'
<1>1. /\ Good(Shop) /\ Served(Shop) /\ Held(Shop, i) /\ Shop.obj = obj /\ Shop.bill = bill
      /\ obj[i] \in ObjType /\ Shop = [obj |-> obj, bill |-> bill, books |-> books]
  BY WithinIs DEF UseUp
<1>2. PICK g : g = IF obj[i].quan > 1 THEN [Shop EXCEPT !.obj[i].quan = @ - 1] ELSE ObFree(Shop, i, 0)
  OBVIOUS
<1>3. Good(g) /\ Served(g)
  <2>1. CASE obj[i].quan > 1
    <3>1. PICK v, o, o2 : /\ v = [obj[i] EXCEPT !.quan = @ - 1]
                          /\ o = [obj EXCEPT ![i] = v] /\ o2 = [obj EXCEPT ![i].quan = @ - 1]
      OBVIOUS
    <3>2. g = [obj |-> o2, bill |-> bill, books |-> books]
      BY <1>1, <1>2, <2>1, <3>1
    <3>3. o = o2
      BY <3>1
    <3>4. /\ v \in ObjType /\ v.where = obj[i].where /\ v.unpaid = obj[i].unpaid
          /\ v.quan <= obj[i].quan
      <4>1. obj[i].quan \in Nat /\ obj[i].quan - 1 \in Nat
        BY <1>1, <2>1 DEF ObjType
      <4>2. QED
        BY <1>1, <3>1, <4>1 DEF ObjType
    <3>5. v.where \notin {"gone", "billobjs"}
      BY <1>1, <3>4 DEF Held
    <3>6. Moved(g, Shop, i)
      <4>1. /\ v.unpaid = Shop.obj[i].unpaid /\ v.quan <= Shop.obj[i].quan
            /\ o = [Shop.obj EXCEPT ![i] = v]
            /\ g = [obj |-> o, bill |-> Shop.bill, books |-> books]
        BY <1>1, <3>1, <3>2, <3>3, <3>4
      <4>2. QED
        BY <1>1, <3>4, <3>5, <4>1, MoveIs
    <3>7. QED
      BY <1>1, <3>6, MovedIs
  <2>2. CASE ~(obj[i].quan > 1)
    BY <1>1, <1>2, <2>2, ObFreeIs
  <2>3. QED
    BY <2>1, <2>2
<1>4. ShopBecomes(g) /\ UNCHANGED Whereabouts
  BY <1>2 DEF UseUp
<1>5. QED
  BY <1>3, <1>4, BecomesGood

(* How objects are moved to another place.                                 *)
Placed(h, w, i, l, z) == h = [w EXCEPT !.obj[i].where = l, !.books = z]

(* Then bill and objects agree as before.                                  *)
LEMMA PlacedIs ==
    ASSUME NEW w, Good(w), Served(w), NEW i, Held(w, i), NEW l \in {"shop", "invent", "monster"},
           NEW h, NEW z, Placed(h, w, i, l, z)
    PROVE  Good(h) /\ Served(h) /\ Held(h, i) /\ FreshBeyond(w, h, {}) /\ h.obj[i].where = l
<1>1. PICK o, b, y : w = [obj |-> o, bill |-> b, books |-> y] /\ o = w.obj /\ b = w.bill /\ y = w.books
  BY DEF Good, IsWorld
<1>2. o \in [ObjIds -> ObjType] /\ i \in ObjIds /\ o[i] \in ObjType
  BY <1>1 DEF Good, IsWorld, Held
<1>3. PICK v, o2, o3 : /\ v = [o[i] EXCEPT !.where = l]
                       /\ o2 = [o EXCEPT ![i] = v] /\ o3 = [o EXCEPT ![i].where = l]
  OBVIOUS
<1>4. h = [obj |-> o3, bill |-> b, books |-> z]
  BY <1>1, <1>3 DEF Placed
<1>5. o2 = o3
  BY <1>2, <1>3
<1>6. v \in ObjType /\ v.where = l /\ v.unpaid = o[i].unpaid /\ v.quan = o[i].quan /\ v.quan \in Nat
  BY <1>2, <1>3 DEF ObjType, Wheres
<1>7. Moved(h, w, i) /\ h.obj[i] = v
  <2>1. o2 \in [ObjIds -> ObjType] /\ o2[i] = v /\ \A x \in ObjIds \ {i} : o2[x] = o[x]
    <3>1. o2 = [o EXCEPT ![i] = v] /\ v \in ObjType
      BY <1>3, <1>6
    <3>2. QED
      BY <1>2, <3>1
  <2>2. h.obj = o2 /\ h.bill = w.bill /\ h = [obj |-> h.obj, bill |-> h.bill, books |-> h.books]
    BY <1>1, <1>4, <1>5
  <2>3. IsWorld(h)
    BY <2>1, <2>2 DEF Good, IsWorld
  <2>4. v.unpaid = w.obj[i].unpaid /\ v.quan <= w.obj[i].quan /\ v.where \notin {"gone", "billobjs"}
    <3>1. w.obj[i] = o[i]
      BY <1>1
    <3>2. QED
      BY <1>6, <3>1
  <2>5. \A x \in ObjIds \ {i} : h.obj[x] = w.obj[x]
    BY <1>1, <2>1, <2>2
  <2>6. h.obj[i] = v
    BY <2>1, <2>2
  <2>7. QED
    BY <2>2, <2>3, <2>4, <2>5, <2>6 DEF Moved
<1>8. QED
  BY <1>6, <1>7, MovedIs

(* mpickobj.                                                               *)
LEMMA MonsterTakesKeeps ==
    ASSUME ShopInv, NEW i \in ObjIds, MonsterTakes(i)
    PROVE  ShopInv'
<1>1. /\ Good(Shop) /\ Served(Shop) /\ Held(Shop, i)
  BY WithinIs DEF MonsterTakes
<1> DEFINE lost == IF obj[i].where = "shop" /\ Merchandise(obj[i]) THEN obj[i].quan ELSE 0
           z == Shop.books + lost
<1>2. PICK w : w = [Shop EXCEPT !.obj[i].where = "monster", !.books = z]
  OBVIOUS
<1> DEFINE stacks == {j \in ObjIds : StackableGoods(w, i, j)}
<1>3. PICK g : g = IF stacks = {} THEN w ELSE MergeInto(w, i, Min(stacks))
  OBVIOUS
<1>4. ShopBecomes(g) /\ UNCHANGED Whereabouts
  BY <1>2, <1>3 DEF MonsterTakes
<1> HIDE DEF lost
<1>5. Good(w) /\ Served(w) /\ Held(w, i)
  <2>1. PICK l, y, u : l = "monster" /\ y = z /\ u = Shop
    OBVIOUS
  <2>2. Placed(w, u, i, l, y) /\ l \in {"shop", "invent", "monster"}
    BY <1>2, <2>1 DEF Placed
  <2>3. QED
    BY <1>1, <2>1, <2>2, PlacedIs
<1>6. Good(g) /\ Served(g)
  <2>1. CASE stacks = {}
    BY <1>3, <1>5, <2>1
  <2>2. CASE stacks # {}
    <3>1. PICK j : j = Min(stacks)
      OBVIOUS
    <3>2. j \in stacks
      BY <2>2, <3>1, FirstIs
    <3>3. j \in ObjIds /\ StackableGoods(w, i, j) /\ g = MergeInto(w, i, j)
      BY <1>3, <2>2, <3>1, <3>2
    <3>4. QED
      BY <1>5, <3>3, MergeIs
  <2>3. QED
    BY <2>1, <2>2
<1>7. QED
  BY <1>4, <1>6, BecomesGood

(* A monster drops what it carries.                                        *)
LEMMA MonsterDropsKeeps ==
    ASSUME ShopInv, NEW i \in ObjIds, MonsterDrops(i)
    PROVE  ShopInv'
<1>1. /\ Good(Shop) /\ Served(Shop) /\ Held(Shop, i)
  BY WithinIs DEF MonsterDrops
<1> DEFINE brought == IF Merchandise(obj[i]) THEN obj[i].quan ELSE 0
           z == Shop.books - brought
<1>2. PICK w : w = [Shop EXCEPT !.obj[i].where = "shop", !.books = z]
  OBVIOUS
<1>3. PICK g : g = StackObj(w, i)
  OBVIOUS
<1>4. ShopBecomes(g) /\ UNCHANGED Whereabouts
  BY <1>2, <1>3 DEF MonsterDrops
<1> HIDE DEF brought
<1>5. Good(w) /\ Served(w) /\ Held(w, i)
  <2>1. PICK l, y, u : l = "shop" /\ y = z /\ u = Shop
    OBVIOUS
  <2>2. Placed(w, u, i, l, y) /\ l \in {"shop", "invent", "monster"}
    BY <1>2, <2>1 DEF Placed
  <2>3. QED
    BY <1>1, <2>1, <2>2, PlacedIs
<1>6. Good(g) /\ Served(g)
  BY <1>3, <1>5, StackIs
<1>7. QED
  BY <1>4, <1>6, BecomesGood

(* A monster uses up what it carries.                                      *)
LEMMA MonsterUsesKeeps ==
    ASSUME ShopInv, NEW i \in ObjIds, MonsterUses(i)
    PROVE  ShopInv'
<1>1. Good(Shop) /\ Served(Shop) /\ Held(Shop, i)
  BY WithinIs DEF MonsterUses
<1>2. PICK g : g = ObFree(Shop, i, 0)
  OBVIOUS
<1>3. Good(g) /\ Served(g)
  BY <1>1, <1>2, ObFreeIs
<1>4. ShopBecomes(g) /\ UNCHANGED Whereabouts
  BY <1>2 DEF MonsterUses
<1>5. QED
  BY <1>3, <1>4, BecomesGood

(* drop, sellobj, stackobj.                                                *)
LEMMA DropKeeps ==
    ASSUME ShopInv, NEW i \in ObjIds, NEW n \in 1..obj[i].quan, NEW sells, DropInShop(i, n, sells)
    PROVE  ShopInv'
<1>1. Good(Shop) /\ Served(Shop) /\ Held(Shop, i)
  BY WithinIs DEF DropInShop, Within
<1>2. PICK s \in NextIdents(Shop, 2) : \E p :
         /\ p = PieceOf(i, n, Min(s))
         /\ ShopBecomes(StackObj(SellObj([p.w EXCEPT !.obj[p.it].where = "shop"],
                                         p.it, Max(s), sells), p.it))
  BY DEF DropInShop
<1>3. PICK p :
         /\ p = PieceOf(i, n, Min(s))
         /\ ShopBecomes(StackObj(SellObj([p.w EXCEPT !.obj[p.it].where = "shop"],
                                         p.it, Max(s), sells), p.it))
  BY <1>2
<1>4. PICK j, j2 : j = Min(s) /\ j2 = Max(s)
  OBVIOUS
<1>5. Fresh(Shop, j) /\ Fresh(Shop, j2) /\ j # j2
  BY <1>4, IdentsAre
<1>6. Good(p.w) /\ Served(p.w) /\ Held(p.w, p.it) /\ FreshBeyond(Shop, p.w, {j})
  BY <1>1, <1>3, <1>4, <1>5, PartIs
<1>7. PICK w, i2 : w = p.w /\ i2 = p.it
  OBVIOUS
<1>8. Fresh(w, j2)
  BY <1>5, <1>6, <1>7 DEF FreshBeyond
<1>9. PICK d : d = [w EXCEPT !.obj[i2].where = "shop"]
  OBVIOUS
<1>10. Good(d) /\ Served(d) /\ Held(d, i2) /\ FreshBeyond(w, d, {})
  <2>1. PICK l, z : l = "shop" /\ z = w.books
    OBVIOUS
  <2>2. Placed(d, w, i2, l, z)
    <3>1. PICK o, b, y : w = [obj |-> o, bill |-> b, books |-> y] /\ y = w.books
      BY <1>6, <1>7 DEF Good, IsWorld
    <3>2. PICK d2 : d2 = [d EXCEPT !.books = z]
      OBVIOUS
    <3>3. d2 = [w EXCEPT !.obj[i2].where = l, !.books = z]
      BY <1>9, <2>1, <3>2
    <3>4. d = [obj |-> d.obj, bill |-> d.bill, books |-> d.books] /\ d.books = z
      BY <1>9, <2>1, <3>1
    <3>5. d2 = d
      BY <3>2, <3>4
    <3>6. QED
      BY <3>3, <3>5 DEF Placed
  <2>3. l \in {"shop", "invent", "monster"}
    BY <2>1
  <2>4. QED
    BY <1>6, <1>7, <2>2, <2>3, PlacedIs
<1>11. Fresh(d, j2)
  BY <1>8, <1>10 DEF FreshBeyond
<1>12. PICK h : h = SellObj(d, i2, j2, sells)
  OBVIOUS
<1>13. Good(h) /\ Served(h) /\ Held(h, i2)
  BY <1>10, <1>11, <1>12, SellIs
<1>14. PICK g : g = StackObj(h, i2)
  OBVIOUS
<1>15. Good(g) /\ Served(g)
  BY <1>13, <1>14, StackIs
<1>16. ShopBecomes(g)
  BY <1>3, <1>4, <1>7, <1>9, <1>12, <1>14
<1>17. UNCHANGED Whereabouts
  BY DEF DropInShop
<1>18. QED
  BY <1>15, <1>16, <1>17, BecomesGood

(* An object is something else now.                                        *)
Reset(h, w, j, v) == h = [w EXCEPT !.obj[j] = v]

(* Then nothing else is.                                                   *)
LEMMA ResetIs ==
    ASSUME NEW w, Good(w), NEW j \in ObjIds, NEW v \in ObjType, NEW h, Reset(h, w, j, v)
    PROVE  h.bill = w.bill /\ h.obj[j] = v /\ Local(h, w, {j})
<1>1. PICK o, b, y : w = [obj |-> o, bill |-> b, books |-> y] /\ o = w.obj /\ b = w.bill /\ y = w.books
  BY DEF Good, IsWorld
<1>2. o \in [ObjIds -> ObjType] /\ b \in Seq(EntryType)
  BY <1>1 DEF Good, IsWorld
<1>3. PICK o2 : o2 = [o EXCEPT ![j] = v]
  OBVIOUS
<1>4. h = [obj |-> o2, bill |-> b, books |-> y]
  BY <1>1, <1>3 DEF Reset
<1>5. o2 \in [ObjIds -> ObjType] /\ o2[j] = v /\ \A x \in ObjIds \ {j} : o2[x] = o[x]
  BY <1>2, <1>3
<1>6. h.obj = o2 /\ h.bill = b /\ h = [obj |-> h.obj, bill |-> h.bill, books |-> h.books]
  BY <1>4
<1>7. QED
  BY <1>1, <1>2, <1>5, <1>6 DEF Local, IsWorld

(* bill_dummy_object.                                                      *)
LEMMA BillDummyKeeps ==
    ASSUME ShopInv, NEW i \in ObjIds, BillDummy(i)
    PROVE  ShopInv'
<1>1. Good(Shop) /\ Served(Shop) /\ Held(Shop, i) /\ Shop.obj = obj /\ (home => ~inactive)
  BY WithinIs DEF BillDummy, Within, ShopInv
<1> DEFINE Dummied(s) ==
             LET dummy == Max(s)
                 w == IF obj[i].unpaid THEN SubFromBill(Shop, i, Min(s)) ELSE Shop
                 both == AddToBill([w EXCEPT !.obj[dummy] = [w.obj[i] EXCEPT !.where = "gone"]], dummy, TRUE)
                 kept == [both EXCEPT !.obj[dummy] = IF @.where = "gone" THEN NoObj ELSE @]
             IN  [kept EXCEPT !.obj[i].no_charge = TRUE, !.obj[i].unpaid = FALSE]
<1>2. PICK s \in NextIdents(Shop, 2) : ShopBecomes(Dummied(s))
  BY DEF BillDummy
<1>3. PICK j, dummy : j = Min(s) /\ dummy = Max(s)
  OBVIOUS
<1>4. Fresh(Shop, j) /\ Fresh(Shop, dummy) /\ j # dummy
  BY <1>3, IdentsAre
<1>5. PICK w : w = IF obj[i].unpaid THEN SubFromBill(Shop, i, j) ELSE Shop
  OBVIOUS
<1>6. PICK u : u = [w.obj[i] EXCEPT !.where = "gone"]
  OBVIOUS
<1>7. PICK g : g = [w EXCEPT !.obj[dummy] = u]
  OBVIOUS
<1>8. PICK h : h = AddToBill(g, dummy, TRUE)
  OBVIOUS
<1>9. PICK v : v = IF h.obj[dummy].where = "gone" THEN NoObj ELSE h.obj[dummy]
  OBVIOUS
<1>10. PICK k : k = [h EXCEPT !.obj[dummy] = v]
  OBVIOUS
<1>11. PICK r : r = [k EXCEPT !.obj[i].no_charge = TRUE, !.obj[i].unpaid = FALSE]
  OBVIOUS
<1>12. ShopBecomes(r)
  <2>1. Dummied(s) = LET both == AddToBill([w EXCEPT !.obj[dummy] = u], dummy, TRUE)
                         kept == [both EXCEPT !.obj[dummy] = IF @.where = "gone" THEN NoObj ELSE @]
                     IN  [kept EXCEPT !.obj[i].no_charge = TRUE, !.obj[i].unpaid = FALSE]
    BY <1>3, <1>5, <1>6, Zenon
  <2> HIDE DEF Dummied
  <2>2. Dummied(s) = LET kept == [h EXCEPT !.obj[dummy] = IF @.where = "gone" THEN NoObj ELSE @]
                     IN  [kept EXCEPT !.obj[i].no_charge = TRUE, !.obj[i].unpaid = FALSE]
    BY <1>7, <1>8, <2>1, Zenon
  <2>3. k = [h EXCEPT !.obj[dummy] = IF @.where = "gone" THEN NoObj ELSE @]
    BY <1>9, <1>10
  <2>4. Dummied(s) = r
    BY <1>11, <2>2, <2>3, Zenon
  <2>5. QED
    BY <1>2, <2>4, Zenon
<1> HIDE DEF Dummied
<1>13. Good(w) /\ Served(w) /\ Held(w, i) /\ Fresh(w, dummy) /\ w.obj[i].unpaid = FALSE
  <2>1. CASE obj[i].unpaid
    <3>1. /\ Good(w) /\ Served(w) /\ Held(w, i) /\ FreshBeyond(Shop, w, {i, j})
          /\ w.obj[i].unpaid = FALSE
      BY <1>1, <1>4, <1>5, <2>1, SubIs
    <3>2. dummy # i
      BY <1>1, <1>4 DEF Held, Fresh
    <3>3. QED
      BY <1>4, <3>1, <3>2 DEF FreshBeyond
  <2>2. CASE ~obj[i].unpaid
    BY <1>1, <1>4, <1>5, <2>2, PaidIs
  <2>3. QED
    BY <2>1, <2>2
<1>14. i \in ObjIds /\ dummy \in ObjIds /\ dummy # i /\ w.obj[i] \in ObjType
  BY <1>13 DEF Held, Fresh, Good, IsWorld
<1>15. Good(g) /\ Served(g) /\ g.obj[dummy].where = "gone" /\ g.obj[i] = w.obj[i]
  <2>1. u \in ObjType /\ u.where = "gone" /\ u.unpaid = FALSE
    BY <1>6, <1>13, <1>14 DEF ObjType, Wheres
  <2>2. g.bill = w.bill /\ g.obj[dummy] = u /\ Local(g, w, {dummy})
    <3>1. Reset(g, w, dummy, u)
      BY <1>7 DEF Reset
    <3>2. QED
      BY <1>13, <1>14, <2>1, <3>1, ResetIs
  <2>3. \A e \in Listed(w.bill) : e.id # dummy
    BY <1>13 DEF Fresh
  <2>4. MatchOn(g, {dummy})
    BY <2>1, <2>2, <2>3 DEF MatchOn, MatchAt
  <2>5. WellKept(g.bill)
    BY <1>13, <2>2 DEF Good, WellKept
  <2>6. Good(g)
    BY <1>13, <2>2, <2>4, <2>5, GoodElsewhere
  <2>7. g.obj[i] = w.obj[i]
    BY <1>14, <2>2 DEF Local
  <2>8. QED
    BY <1>13, <2>1, <2>2, <2>6, <2>7 DEF Served
<1>16. /\ Good(h) /\ Served(h) /\ Local(h, g, {dummy})
       /\ h.obj[dummy].where \in {"gone", "billobjs"}
       /\ h.obj[dummy].where = "gone" => ~h.obj[dummy].unpaid
  <2>1. TRUE \in BOOLEAN /\ (g.obj[dummy].where = "gone" <=> TRUE) /\ g.obj[dummy].where # "billobjs"
    BY <1>15
  <2>2. QED
    BY <1>1, <1>8, <1>14, <1>15, <2>1, AddIs
<1>17. h.obj[i] = w.obj[i] /\ h.obj[dummy] \in ObjType
  BY <1>14, <1>15, <1>16 DEF Local, IsWorld
<1>18. Good(k) /\ Served(k) /\ k.obj[i] = w.obj[i]
  <2>1. v \in ObjType
    BY <1>9, <1>17 DEF NoObj, ObjType, Wheres
  <2>2. k.bill = h.bill /\ k.obj[dummy] = v /\ Local(k, h, {dummy})
    <3>1. Reset(k, h, dummy, v)
      BY <1>10 DEF Reset
    <3>2. QED
      BY <1>14, <1>16, <2>1, <3>1, ResetIs
  <2>3. MatchAt(h.obj, Listed(h.bill), dummy)
    BY <1>14, <1>16 DEF Good, Match
  <2>4. MatchAt(k.obj, Listed(k.bill), dummy)
    <3>1. CASE h.obj[dummy].where = "gone"
      <4>1. v.where = "gone" /\ v.unpaid = FALSE
        BY <1>9, <3>1 DEF NoObj
      <4>2. \A e \in Listed(h.bill) : e.id # dummy
        BY <2>3, <3>1 DEF MatchAt
      <4>3. QED
        BY <2>2, <4>1, <4>2 DEF MatchAt
    <3>2. CASE h.obj[dummy].where # "gone"
      <4>1. v = h.obj[dummy]
        BY <1>9, <3>2
      <4>2. QED
        BY <2>2, <2>3, <4>1 DEF MatchAt
    <3>3. QED
      BY <3>1, <3>2
  <2>5. MatchOn(k, {dummy})
    BY <2>4, Zenon DEF MatchOn
  <2>6. WellKept(k.bill)
    BY <1>16, <2>2 DEF Good, WellKept
  <2>7. Good(k)
    BY <1>16, <2>2, <2>5, <2>6, GoodElsewhere
  <2>8. k.obj[i] = w.obj[i]
    BY <1>14, <1>17, <2>2 DEF Local
  <2>9. QED
    BY <1>16, <2>2, <2>7, <2>8 DEF Served
<1>19. Held(k, i)
  BY <1>13, <1>18 DEF Held
<1>20. Good(r) /\ Served(r)
  <2>1. PICK o, b, y : k = [obj |-> o, bill |-> b, books |-> y] /\ o = k.obj /\ b = k.bill /\ y = k.books
    BY <1>18 DEF Good, IsWorld
  <2>2. PICK r1, o1 : r1 = [k EXCEPT !.obj[i].no_charge = TRUE] /\ o1 = [o EXCEPT ![i].no_charge = TRUE]
    OBVIOUS
  <2>3. r1 = [obj |-> o1, bill |-> b, books |-> y]
    BY <2>1, <2>2
  <2>4. PICK o2 : o2 = [o1 EXCEPT ![i].unpaid = FALSE]
    OBVIOUS
  <2>5. r = [r1 EXCEPT !.obj[i].unpaid = FALSE]
    BY <1>11, <2>2
  <2>6. r = [obj |-> o2, bill |-> b, books |-> y]
    BY <2>3, <2>4, <2>5
  <2>7. PICK x : x = [o[i] EXCEPT !.no_charge = TRUE, !.unpaid = FALSE]
    OBVIOUS
  <2>8. o \in [ObjIds -> ObjType] /\ o[i] = w.obj[i] /\ b \in Seq(EntryType)
    BY <1>18, <2>1 DEF Good, IsWorld
  <2>9. o2 = [o EXCEPT ![i] = x]
    BY <1>14, <2>2, <2>4, <2>7, <2>8
  <2>10. /\ x \in ObjType /\ x.where = o[i].where /\ x.unpaid = FALSE /\ x.quan = o[i].quan
         /\ x.quan \in Nat
    BY <1>14, <2>7, <2>8 DEF ObjType
  <2>11. o2 \in [ObjIds -> ObjType] /\ o2[i] = x /\ \A m \in ObjIds \ {i} : o2[m] = o[m]
    BY <1>14, <2>8, <2>9, <2>10
  <2>12. r.obj = o2 /\ r.bill = b /\ IsWorld(r)
    BY <2>6, <2>8, <2>11 DEF IsWorld
  <2>13. Moved(r, k, i)
    <3>1. k.obj[i] = o[i] /\ o[i].unpaid = FALSE /\ o[i].where \notin {"gone", "billobjs"}
      BY <1>13, <2>1, <2>8 DEF Held
    <3>2. \A m \in ObjIds \ {i} : r.obj[m] = k.obj[m]
      BY <2>1, <2>11, <2>12
    <3>3. r.obj[i] = x /\ r.bill = k.bill
      BY <2>1, <2>11, <2>12
    <3>4. /\ x.where \notin {"gone", "billobjs"} /\ x.unpaid = k.obj[i].unpaid
          /\ x.quan <= k.obj[i].quan
      <4>1. x.where \notin {"gone", "billobjs"} /\ x.unpaid = k.obj[i].unpaid
        BY <2>10, <3>1, Zenon
      <4>2. x.quan <= x.quan
        BY <2>10
      <4>3. x.quan = k.obj[i].quan
        BY <2>10, <3>1, Zenon
      <4>4. QED
        BY <4>1, <4>2, <4>3, Zenon
    <3>5. QED
      BY <2>12, <3>2, <3>3, <3>4 DEF Moved
  <2>14. QED
    BY <1>18, <1>19, <2>13, MovedIs
<1>21. UNCHANGED Whereabouts
  BY DEF BillDummy
<1>22. QED
  BY <1>12, <1>20, <1>21, BecomesGood

(* dopay.                                                                  *)
LEMMA PayKeeps ==
    ASSUME ShopInv, NEW itemize, NEW yes, NEW funds, Pay(itemize, yes, funds)
    PROVE  ShopInv'
<1>1. PICK w : w = PayBill(Shop, itemize, yes, funds)
  OBVIOUS
<1>2. Good(w)
  BY <1>1, PayBillIs DEF ShopInv
<1>3. Served(w)
  BY DEF Pay, Served
<1>4. ShopBecomes(w) /\ UNCHANGED Whereabouts
  BY <1>1 DEF Pay
<1>5. QED
  BY <1>2, <1>3, <1>4, BecomesGood

(* The bill and the objects stay, or the bill is cleared; the hero and the *)
(* shopkeeper move.                                                        *)
LEMMA SameGoods ==
    ASSUME ShopInv, UNCHANGED <<obj, bill>>
    PROVE  Good(Shop)' /\ (bill = <<>> => Served(Shop)')
<1>1. Shop.obj = obj /\ Shop.bill = bill /\ Shop'.obj = obj' /\ Shop'.bill = bill'
  BY DEF Shop
<1>2. Shop' = [obj |-> Shop'.obj, bill |-> Shop'.bill, books |-> Shop'.books]
  BY DEF Shop
<1>3. Good(Shop)
  BY DEF ShopInv
<1>4. Good(Shop)'
  BY <1>1, <1>2, <1>3 DEF Good, IsWorld
<1>5. QED
  BY <1>1, <1>4 DEF Served

(* setpaid, in the state of the shop.                                      *)
LEMMA ClearedGoods ==
    ASSUME ShopInv, ShopBecomes(WriteOff(Shop))
    PROVE  Good(Shop)' /\ Served(Shop)'
<1>1. PICK w : w = WriteOff(Shop)
  OBVIOUS
<1>2. Good(w) /\ w.bill = <<>>
  BY <1>1, ClearedIs DEF ShopInv
<1>3. Shop' = [obj |-> w.obj, bill |-> w.bill, books |-> w.books]
  BY <1>1 DEF ShopBecomes, Shop
<1>4. Shop' = w
  BY <1>2, <1>3 DEF Good, IsWorld
<1>5. Good(Shop)'
  BY <1>2, <1>4 DEF Good, IsWorld
<1>6. Served(Shop)'
  BY <1>2, <1>4 DEF Served
<1>7. QED
  BY <1>5, <1>6

(* Without the hero inside, or without the shopkeeper, there is no bill.   *)
LEMMA NobodyServed ==
    ASSUME ShopInv
    PROVE  ~Tended \/ inactive => bill = <<>>
<1>1. Shop.bill = bill
  BY DEF Shop
<1>2. QED
  BY <1>1 DEF ShopInv, Served

(* dopay with nothing on the bill.                                         *)
LEMMA AppeaseKeeps == ShopInv /\ Appease => ShopInv'
<1> SUFFICES ASSUME ShopInv, Appease PROVE ShopInv'
  OBVIOUS
<1>1. Good(Shop)' /\ Served(Shop)'
  BY SameGoods DEF Appease
<1>2. QED
  BY <1>1 DEF ShopInv, Appease

(* u_entered_shop.                                                         *)
LEMMA EnterKeeps == ShopInv /\ EnterShop => ShopInv'
<1> SUFFICES ASSUME ShopInv, EnterShop PROVE ShopInv'
  OBVIOUS
<1>1. bill = <<>>
  BY NobodyServed DEF ShopInv, EnterShop, Tended
<1>2. Good(Shop)' /\ Served(Shop)'
  BY <1>1, SameGoods DEF EnterShop
<1>3. QED
  BY <1>2 DEF ShopInv, EnterShop

(* u_left_shop.                                                            *)
LEMMA LeaveKeeps == ShopInv /\ LeaveShop => ShopInv'
<1> SUFFICES ASSUME ShopInv, LeaveShop PROVE ShopInv'
  OBVIOUS
<1>1. Good(Shop)' /\ Served(Shop)'
  <2>1. CASE Tended /\ bill # <<>>
    BY <2>1, ClearedGoods DEF LeaveShop
  <2>2. CASE ~(Tended /\ bill # <<>>)
    <3>1. bill = <<>>
      BY <2>2, NobodyServed
    <3>2. QED
      BY <2>2, <3>1, SameGoods DEF LeaveShop
  <2>3. QED
    BY <2>1, <2>2
<1>2. QED
  BY <1>1 DEF ShopInv, LeaveShop

(* make_angry_shk.                                                         *)
LEMMA MakeAngryKeeps == ShopInv /\ MakeAngry => ShopInv'
<1> SUFFICES ASSUME ShopInv, MakeAngry PROVE ShopInv'
  OBVIOUS
<1>1. Good(Shop)' /\ Served(Shop)'
  BY ClearedGoods DEF MakeAngry
<1>2. QED
  BY <1>1 DEF ShopInv, MakeAngry, Whereabouts

(* The shopkeeper leaves only a shop in which nothing is owed.              *)
LEMMA ShkLeavesKeeps == ~ShkMayLeave /\ ShopInv /\ ShkLeaves => ShopInv'
<1> SUFFICES ASSUME ~ShkMayLeave, ShopInv, ShkLeaves PROVE ShopInv'
  OBVIOUS
<1>1. Good(Shop)' /\ Served(Shop)'
  BY SameGoods DEF ShkLeaves
<1>2. QED
  BY <1>1 DEF ShopInv, ShkLeaves

(* after_shk_move.                                                         *)
LEMMA ShkReturnsKeeps == ShopInv /\ ShkReturns => ShopInv'
<1> SUFFICES ASSUME ShopInv, ShkReturns PROVE ShopInv'
  OBVIOUS
<1>1. bill = <<>>
  BY NobodyServed DEF ShkReturns, Tended
<1>2. Good(Shop)' /\ Served(Shop)'
  BY <1>1, SameGoods DEF ShkReturns
<1>3. QED
  BY <1>2 DEF ShopInv, ShkReturns

(* shkgone.                                                                *)
LEMMA ShkDiesKeeps == ShopInv /\ ShkDies => ShopInv'
<1> SUFFICES ASSUME ShopInv, ShkDies PROVE ShopInv'
  OBVIOUS
<1>1. PICK w : w = IF ushops THEN WriteOff(Shop) ELSE Shop
  OBVIOUS
<1>2. Good(w) /\ w.bill = <<>>
  <2>1. CASE ushops
    BY <1>1, <2>1, ClearedIs DEF ShopInv
  <2>2. CASE ~ushops
    <3>1. bill = <<>>
      BY <2>2, NobodyServed DEF Tended
    <3>2. QED
      BY <1>1, <2>2, <3>1 DEF ShopInv, Shop
  <2>3. QED
    BY <2>1, <2>2
<1> DEFINE o == [i \in ObjIds |-> [w.obj[i] EXCEPT !.no_charge = @ /\ w.obj[i].where # "shop"]]
<1>3. obj' = o /\ bill' = <<>>
  BY <1>1, <1>2 DEF ShkDies
<1>4. \A i \in ObjIds : /\ o[i] \in ObjType /\ o[i].where = w.obj[i].where
                        /\ o[i].unpaid = w.obj[i].unpaid /\ o[i].quan = w.obj[i].quan
  <2>1. ASSUME NEW i \in ObjIds
        PROVE  /\ o[i] \in ObjType /\ o[i].where = w.obj[i].where
               /\ o[i].unpaid = w.obj[i].unpaid /\ o[i].quan = w.obj[i].quan
    <3>1. w.obj[i] \in ObjType
      BY <1>2 DEF Good, IsWorld
    <3>2. PICK c \in BOOLEAN : c = (w.obj[i].no_charge /\ w.obj[i].where # "shop")
      OBVIOUS
    <3>3. o[i] = [w.obj[i] EXCEPT !.no_charge = c]
      BY <3>2
    <3> HIDE DEF o
    <3>4. QED
      BY <3>1, <3>3 DEF ObjType
  <2> HIDE DEF o
  <2>2. QED
    BY <2>1
<1>5. o \in [ObjIds -> ObjType]
  BY <1>4
<1> HIDE DEF o
<1>6. Match(o, Listed(<<>>))
  BY <1>2, <1>4 DEF Good, Match, MatchAt
<1>7. Shop'.obj = o /\ Shop'.bill = <<>> /\ Shop' = [obj |-> Shop'.obj, bill |-> Shop'.bill, books |-> Shop'.books]
  BY <1>3 DEF Shop
<1>8. OneEach(<<>>) /\ <<>> \in Seq(EntryType) /\ Len(<<>>) <= BillSz
  BY ShopBillAssumption DEF OneEach
<1>9. Good(Shop)'
  BY <1>5, <1>6, <1>7, <1>8 DEF Good, IsWorld
<1>10. Served(Shop)'
  BY <1>7 DEF Served
<1>11. QED
  BY <1>9, <1>10 DEF ShopInv, ShkDies

-----------------------------------------------------------------------------
(* The theorem.                                                            *)

(* A new shop has no bill, and nothing in it is unpaid.                    *)
LEMMA ShopStarts == ShopInit => ShopInv
<1> SUFFICES ASSUME ShopInit PROVE ShopInv
  OBVIOUS
<1>1. obj = [i \in ObjIds |-> IF i > Len(Shelf) THEN NoObj
                              ELSE [NoObj EXCEPT !.where = "shop", !.quan = Shelf[i]]]
  BY DEF ShopInit
<1>2. ASSUME NEW i \in ObjIds
      PROVE  obj[i] \in ObjType /\ obj[i].unpaid = FALSE
  <2>1. CASE i > Len(Shelf)
    BY <1>1, <2>1 DEF NoObj, ObjType, Wheres
  <2>2. CASE ~(i > Len(Shelf))
    <3>1. Shelf[i] \in Nat
      <4>1. i \in 1..Len(Shelf)
        BY <2>2, ShopBillAssumption DEF ObjIds
      <4>2. QED
        BY <4>1, ShopBillAssumption
    <3>2. obj[i] = [NoObj EXCEPT !.where = "shop", !.quan = Shelf[i]]
      BY <1>1, <2>2
    <3>3. QED
      BY <3>1, <3>2 DEF NoObj, ObjType, Wheres
  <2>3. QED
    BY <2>1, <2>2
<1>3. obj \in [ObjIds -> ObjType]
  <2>1. PICK o : o = obj
    OBVIOUS
  <2>2. DOMAIN o = ObjIds /\ o = [i \in DOMAIN o |-> o[i]]
    BY <1>1, <2>1
  <2>3. \A i \in ObjIds : o[i] \in ObjType
    BY <1>2, <2>1, Zenon
  <2>4. o \in [ObjIds -> ObjType]
    BY <2>2, <2>3
  <2>5. QED
    BY <2>1, <2>4
<1>4. Match(obj, Listed(<<>>))
  <2>1. Listed(<<>>) = {}
    BY DEF Listed
  <2>2. ASSUME NEW i \in ObjIds PROVE MatchAt(obj, {}, i)
    <3>1. obj[i].unpaid = FALSE
      BY <1>2
    <3>2. QED
      BY <3>1 DEF MatchAt
  <2>3. Match(obj, {})
    BY <2>2 DEF Match
  <2>4. QED
    BY <2>1, <2>3
<1>5. OneEach(<<>>) /\ <<>> \in Seq(EntryType) /\ Len(<<>>) <= BillSz
  BY ShopBillAssumption DEF OneEach
<1>6. Shop.obj = obj /\ Shop.bill = <<>> /\ Shop = [obj |-> Shop.obj, bill |-> Shop.bill, books |-> Shop.books]
  BY DEF Shop, ShopInit
<1>7. Good(Shop) /\ Served(Shop)
  BY <1>3, <1>4, <1>5, <1>6 DEF Good, IsWorld, Served
<1>8. QED
  BY <1>7 DEF ShopInv, ShopInit

(* A match of objects and entries is a match of the bill.                  *)
LEMMA BillMatches == ShopInv => BillMatchesObjects
<1> SUFFICES ASSUME ShopInv PROVE BillMatchesObjects
  OBVIOUS
<1>1. /\ bill \in Seq(EntryType) /\ OneEach(bill) /\ Len(bill) <= BillSz
      /\ Match(obj, Listed(bill))
  BY DEF ShopInv, Good, IsWorld, Shop
<1>2. ASSUME NEW i \in ObjIds, NEW mine, mine = {k \in DOMAIN bill : bill[k].id = i}
      PROVE  /\ Cardinality(mine) <= 1
             /\ obj[i].where # "billobjs" => (obj[i].unpaid <=> mine # {})
             /\ \A k \in mine : /\ bill[k].useup <=> obj[i].where = "billobjs"
                                /\ obj[i].where # "gone" /\ obj[i].quan <= bill[k].bquan
  <2>1. MatchAt(obj, Listed(bill), i)
    BY <1>1 DEF Match
  <2>2. mine # {} <=> \E e \in Listed(bill) : e.id = i
    BY <1>2 DEF Listed
  <2>3. \A k \in mine : bill[k] \in Listed(bill) /\ bill[k].id = i
    BY <1>2 DEF Listed
  <2>4. Cardinality(mine) <= 1
    <3>1. CASE mine = {}
      BY <3>1, FS_EmptySet
    <3>2. CASE mine # {}
      <4>1. PICK k : mine = {k}
        BY <1>1, <1>2, <3>2 DEF OneEach
      <4>2. QED
        BY <4>1, FS_Singleton
    <3>3. QED
      BY <3>1, <3>2
  <2>5. QED
    BY <2>1, <2>2, <2>3, <2>4 DEF MatchAt
<1>3. QED
  BY <1>1, <1>2 DEF BillMatchesObjects

(* Every step keeps the bill, as long as the shopkeeper does not leave it. *)
LEMMA ShopStep == ~ShkMayLeave /\ ShopInv /\ [ShopNext]_shopVars => ShopInv'
<1> SUFFICES ASSUME ~ShkMayLeave, ShopInv, [ShopNext]_shopVars PROVE ShopInv'
  OBVIOUS
<1>1. CASE UNCHANGED shopVars
  <2>1. Shop' = Shop /\ UNCHANGED Whereabouts
    BY <1>1 DEF shopVars, Shop, Whereabouts
  <2>2. ShopBecomes(Shop)
    BY <1>1 DEF shopVars, Shop, ShopBecomes
  <2>3. QED
    BY <2>1, <2>2, BecomesGood DEF ShopInv
<1>2. ASSUME NEW i \in ObjIds,
             UseUp(i) \/ BillDummy(i) \/ MonsterTakes(i) \/ MonsterDrops(i) \/ MonsterUses(i)
      PROVE  ShopInv'
  BY <1>2, UseUpKeeps, BillDummyKeeps, MonsterTakesKeeps, MonsterDropsKeeps, MonsterUsesKeeps
<1>3. ASSUME NEW i \in ObjIds, NEW n \in 1..obj[i].quan, NEW sells \in BOOLEAN,
             PickUpGoods(i, n) \/ UseUpFloor(i, n) \/ DropInShop(i, n, sells)
      PROVE  ShopInv'
  BY <1>3, PickUpKeeps, UseUpFloorKeeps, DropKeeps
<1>4. ASSUME NEW itemize \in BOOLEAN, NEW funds \in 1..MaxFunds,
             NEW yes \in SUBSET {bill[k].id : k \in DOMAIN bill}, Pay(itemize, yes, funds)
      PROVE  ShopInv'
  BY <1>4, PayKeeps
<1>5. CASE Appease \/ EnterShop \/ LeaveShop \/ MakeAngry \/ ShkLeaves \/ ShkReturns \/ ShkDies
  BY <1>5, AppeaseKeeps, EnterKeeps, LeaveKeeps, MakeAngryKeeps, ShkLeavesKeeps, ShkReturnsKeeps,
     ShkDiesKeeps
<1>6. QED
  BY <1>1, <1>2, <1>3, <1>4, <1>5 DEF ShopNext

(* The invariant of the shop: ShopInv.                                     *)
THEOREM ShopInvariance == ASSUME ~ShkMayLeave PROVE ShopSpec => []ShopInv
<1>1. ShopInv /\ [ShopNext]_shopVars => ShopInv'
  BY ShopStep
<1>2. QED
  BY <1>1, ShopStarts, PTL DEF ShopSpec

(* The hazard of shk.c: bill and objects, kept in step by hand, agree      *)
(* after any sequence of operations, for any stock and any size of bill,   *)
(* if the shopkeeper cannot be moved out while he is owed something.       *)
THEOREM BillCanBeTrusted == ASSUME ~ShkMayLeave PROVE ShopSpec => []BillMatchesObjects
<1>1. ShopSpec => []ShopInv
  BY ShopInvariance
<1>2. QED
  BY <1>1, BillMatches, PTL

=============================================================================
