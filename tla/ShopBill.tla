------------------------------ MODULE ShopBill ------------------------------
(***************************************************************************)
(* A shopkeeper's bill (shk.c): what the hero has picked up and not paid.  *)
(*                                                                         *)
(* The bill lists objects by id with the quantity taken; the objects carry *)
(* an unpaid flag.  The two are kept in step by hand through everything    *)
(* that can happen to an object: stacks are split and merged, units are    *)
(* used up in the pack or on the floor, objects are stolen from the hero,  *)
(* put back, sold, paid for in parts, and bills are cleared when the hero  *)
(* leaves, angers the shopkeeper or kills him.                             *)
(*                                                                         *)
(* One kind of merchandise at one price: a quantity is also an amount of   *)
(* money.                                                                  *)
(***************************************************************************)
EXTENDS Integers, SequencesExt, FiniteSetsExt

CONSTANTS
    MaxIds,         \* bound: objects that exist at the same time, bill dummies included
    BillSz,         \* BILLSZ: the entries a bill has room for
    Shelf,          \* the quantities of the stacks the shop starts with
    MaxFunds,       \* bound: what the hero can afford at a time
    ShkMayLeave     \* whether the shopkeeper can be moved out while the hero owes him

ASSUME ShopBillAssumption ==
    /\ MaxIds \in Nat /\ BillSz \in Nat \ {0} /\ MaxFunds \in Nat /\ ShkMayLeave \in BOOLEAN
    /\ Shelf \in Seq(Nat \ {0}) /\ Len(Shelf) <= MaxIds

VARIABLES
    obj,        \* the objects: where, quan, unpaid, no_charge
    bill,       \* eshk->bill[0..billct-1]: id, bquan, useup
    books,      \* what the shop got or lost for good: paid for, robbed, given away, less bought
    robbed,     \* whether eshk->robbed is positive
    angry,      \* ~mpeaceful, and following
    home,       \* inhishop
    alive,      \* the shopkeeper
    inactive,   \* eshk->bill_inactive
    inside,     \* the hero is inside the shop
    ushops      \* and u.ushops says so

shopVars == <<obj, bill, books, robbed, angry, home, alive, inactive, inside, ushops>>

ObjIds == 1..MaxIds
Shop == [obj |-> obj, bill |-> bill, books |-> books]
NoObj == [where |-> "gone", quan |-> 0, unpaid |-> FALSE, no_charge |-> FALSE]

\* The goods on the shelves, and what the shop has or has on the bill.
Merchandise(o) == ~o.no_charge /\ ~o.unpaid
Billed(w) == MapThenSumSet(LAMBDA k : w.bill[k].bquan, DOMAIN w.bill)
ShopStock(w) ==
    Billed(w) + MapThenSumSet(LAMBDA i : w.obj[i].quan,
                    {i \in ObjIds : w.obj[i].where = "shop" /\ Merchandise(w.obj[i])})

-----------------------------------------------------------------------------
(* The bill *)

\* onbill: the entry of object i, 0 if there is none.
OnBill(w, i) ==
    IF inactive \/ \A k \in DOMAIN w.bill : w.bill[k].id # i THEN 0
    ELSE CHOOSE k \in DOMAIN w.bill : w.bill[k].id = i

\* Mutant: the last entry is dropped instead.
StrikeLast(w, k) == [w EXCEPT !.bill = Front(@)]

\* *bp = bill[--billct].
Strike(w, k) ==
    [w EXCEPT !.bill = SubSeq([@ EXCEPT ![k] = Last(w.bill)], 1, Len(w.bill) - 1)]

\* next_ident, n times: ids nothing refers to.
NextIdents(w, n) ==
    LET unused == {i \in ObjIds : w.obj[i].where = "gone" /\ \A k \in DOMAIN w.bill : w.bill[k].id # i}
    IN  {s \in SUBSET unused : Cardinality(s) = n /\ \A i \in s, j \in unused \ s : i < j}

\* addtobill and sellobj do nothing for a hero the shopkeeper does not see.
Tended == ushops /\ home

\* addtobill and add_one_tobill of a plain object; dummy: it is used already.
AddToBill(w, i, dummy) ==
    LET o == w.obj[i]
        entry == [id |-> i, bquan |-> o.quan, useup |-> dummy]
        unbilled == [w EXCEPT !.books = IF Merchandise(o) THEN @ + o.quan ELSE @,
                              !.obj[i].no_charge = @ /\ ~(Tended /\ Len(w.bill) < BillSz)]
    IN  IF OnBill(w, i) # 0 THEN w
        ELSE IF ~Tended \/ Len(w.bill) = BillSz \/ o.no_charge THEN unbilled
        ELSE [w EXCEPT !.bill = Append(@, entry), !.obj[i].unpaid = TRUE,
                       !.obj[i].where = IF dummy THEN "billobjs" ELSE @]

\* obfree: i is used up (into = 0), or has been merged into another object.
ObFree(w, i, into) ==
    LET k == OnBill(w, i)
        freed == [w EXCEPT !.obj[i] = NoObj]
    IN  IF ~w.obj[i].unpaid \/ k = 0 THEN freed
        ELSE IF into = 0
        THEN [w EXCEPT !.bill[k].useup = TRUE, !.obj[i].unpaid = FALSE, !.obj[i].where = "billobjs"]
        ELSE IF OnBill(w, into) = 0 THEN w
        ELSE Strike([freed EXCEPT !.bill[OnBill(w, into)].bquan = @ + w.bill[k].bquan], k)

\* mergable, of two objects that lie together, and merged.
StackableGoods(w, i, j) ==
    /\ i # j /\ w.obj[i].where = w.obj[j].where
    /\ w.obj[i].unpaid = w.obj[j].unpaid /\ w.obj[i].no_charge = w.obj[j].no_charge
MergeInto(w, i, into) ==
    ObFree([w EXCEPT !.obj[into].quan = @ + w.obj[i].quan], i, into)

\* addinv merges into the first stack that fits; stackobj gathers one into the new object.
AddInv(w, i) ==
    LET held == [w EXCEPT !.obj[i].where = "invent", !.obj[i].no_charge = FALSE]
        stacks == {j \in ObjIds : StackableGoods(held, i, j)}
    IN  IF stacks = {} THEN held ELSE MergeInto(held, i, Min(stacks))
StackObj(w, i) ==
    LET piles == {j \in ObjIds : StackableGoods(w, i, j)}
    IN  IF piles = {} THEN w ELSE MergeInto(w, Min(piles), i)

\* splitbill: n of object i are object j now.
SplitBill(w, i, j, n) ==
    LET k == OnBill(w, i)
        less == [w EXCEPT !.bill[k].bquan = @ - n]
    IN  IF ~Tended \/ k = 0 THEN w
        ELSE IF Len(w.bill) = BillSz
        THEN [less EXCEPT !.obj[j].unpaid = FALSE,
                          !.books = IF w.obj[i].where = "shop" THEN @ ELSE @ + n]
        ELSE [less EXCEPT !.bill = Append(@, [id |-> j, bquan |-> n, useup |-> FALSE])]

\* splitobj.
SplitObj(w, i, j, n) ==
    LET split == [w EXCEPT !.obj[i].quan = @ - n, !.obj[j] = [w.obj[i] EXCEPT !.quan = n]]
    IN  IF w.obj[i].unpaid THEN SplitBill(split, i, j, n) ELSE split

\* sub_one_frombill: what has been used of the stack stays on the bill as object j.
SubFromBill(w, i, j) ==
    LET k == OnBill(w, i)
        back == [w EXCEPT !.obj[i].unpaid = FALSE]
        used == w.bill[k].bquan - w.obj[i].quan
    IN  IF k = 0 THEN back
        ELSE IF used > 0
        THEN [back EXCEPT !.bill[k] = [id |-> j, bquan |-> used, useup |-> TRUE],
                          !.obj[j] = [NoObj EXCEPT !.where = "billobjs", !.quan = used]]
        ELSE Strike(back, k)

\* setpaid: the bill is cleared, whoever has the objects.
SetPaid(w) ==
    [w EXCEPT !.obj = [i \in ObjIds |->
                IF w.obj[i].where = "billobjs" THEN NoObj
                ELSE [w.obj[i] EXCEPT !.unpaid = @ /\ OnBill(w, i) = 0]],
              !.bill = <<>>]
\* Objects a thief has dropped in the shop again are the shop's again with it.
WriteOff(w) ==
    LET back == MapThenSumSet(LAMBDA i : w.obj[i].quan,
                    {i \in ObjIds : w.obj[i].where = "shop" /\ w.obj[i].unpaid})
    IN  [SetPaid(w) EXCEPT !.books = @ + Billed(w) - back]

-----------------------------------------------------------------------------
(* Paying: dopay goes over the bill twice, pass 0 for what is used up and  *)
(* pass 1 for the rest.  p: the purse, the funds, the pass, the entry tmp. *)

PayNext(p) == [p EXCEPT !.tmp = @ + 1]

\* Mutant: what is left of a stack is struck off with what was used of it.
PayForForgets(p, quan, o, e) ==
    LET kept == p.pass = 1 /\ o.where = "shop"
        paid == [p EXCEPT !.funds = @ - quan, !.w.books = IF kept THEN @ ELSE @ + quan]
    IN  [paid EXCEPT !.w = Strike([@ EXCEPT !.obj[e.id] = IF e.useup THEN NoObj
                                                         ELSE [@ EXCEPT !.unpaid = FALSE]], p.tmp)]

\* dopayobj's end, PAY_SOME and PAY_BUY.  A thing that lies in the shop when it
\* is paid for stays the shop's.
PayFor(p, quan, o, e) ==
    LET kept == p.pass = 1 /\ o.where = "shop"
        paid == [p EXCEPT !.funds = @ - quan, !.w.books = IF kept THEN @ ELSE @ + quan]
    IN  IF p.pass = 0 /\ quan # e.bquan
        THEN [paid EXCEPT !.w.bill[p.tmp] = [id |-> e.id, bquan |-> o.quan, useup |-> FALSE]]
        ELSE IF p.pass = 0 THEN [paid EXCEPT !.w = Strike([@ EXCEPT !.obj[e.id] = NoObj], p.tmp)]
        ELSE [paid EXCEPT !.w = Strike([@ EXCEPT !.obj[e.id].unpaid = FALSE], p.tmp)]

\* dopayobj: the hero buys the things in yes, if asked item by item.
PayObj(p, itemize, yes) ==
    LET e == p.w.bill[p.tmp]
        o == p.w.obj[e.id]
        quan == IF p.pass = 1 THEN o.quan
                ELSE IF e.bquan > o.quan THEN e.bquan - o.quan ELSE e.bquan
        refused == itemize /\ (e.id \notin yes \/ (p.pass = 1 /\ quan < e.bquan))
        skipped == [p EXCEPT !.w.obj[e.id].unpaid = TRUE]
    IN  IF itemize /\ p.funds = 0 THEN [p EXCEPT !.pass = 2]
        ELSE IF refused \/ (itemize /\ p.funds < quan) THEN PayNext(skipped)
        ELSE IF p.funds < quan THEN [skipped EXCEPT !.pass = 2]
        ELSE PayFor(p, quan, o, e)

\* One turn of dopay's loops.
PayStep(p, itemize, yes) ==
    IF p.pass = 2 THEN p
    ELSE IF p.tmp > Len(p.w.bill) THEN [p EXCEPT !.pass = @ + 1, !.tmp = 1]
    ELSE LET e == p.w.bill[p.tmp]
             q == IF e.useup THEN [p EXCEPT !.w.obj[e.id].quan = e.bquan] ELSE p
         IN  IF (p.pass = 1) = e.useup /\ q.w.obj[e.id].quan = e.bquan THEN PayNext(q)
             ELSE PayObj(q, itemize, yes)

\* dopay, with a bill to pay.  Every turn of the loops moves on, settles an
\* entry or cuts one down.
PayBill(w, itemize, yes, funds) ==
    LET turns == 3 * BillSz + 2
        after[n \in 0..turns] ==
            IF n = 0 THEN [w |-> w, funds |-> funds, pass |-> 0, tmp |-> 1]
            ELSE PayStep(after[n - 1], itemize, yes)
    IN  after[turns].w

-----------------------------------------------------------------------------
(* What can happen *)

ShopInit ==
    /\ obj = [i \in ObjIds |-> IF i > Len(Shelf) THEN NoObj
                             ELSE [NoObj EXCEPT !.where = "shop", !.quan = Shelf[i]]]
    /\ bill = <<>> /\ books = 0
    /\ robbed = FALSE /\ angry = FALSE /\ home = TRUE /\ alive = TRUE
    /\ inactive = FALSE /\ inside = FALSE /\ ushops = FALSE

ShopBecomes(w) == obj' = w.obj /\ bill' = w.bill /\ books' = w.books
Within(i, where) == obj[i].where = where /\ (where = "shop" => inside)
Whereabouts == <<home, alive, inactive, inside, ushops>>
Mood == <<robbed, angry>>

\* The stack i or n of it, as object j, in world w.
PieceOf(i, n, j) == IF n = obj[i].quan THEN [w |-> Shop, it |-> i]
                  ELSE [w |-> SplitObj(Shop, i, j, n), it |-> j]
IdForPiece(i, n) == IF n = obj[i].quan THEN {{i}} ELSE NextIdents(Shop, 1)

\* pickup_object and pick_obj.
PickUpGoods(i, n) ==
    /\ Within(i, "shop")
    /\ \E s \in IdForPiece(i, n) :
          LET piece == PieceOf(i, n, Min(s))
          IN  ShopBecomes(AddInv(AddToBill(piece.w, piece.it, FALSE), piece.it))
    /\ UNCHANGED <<Mood, Whereabouts>>

\* sellobj: i is on the shop's floor now.  The hero may refuse to sell it.
SellObj(w, i, j, sells) ==
    LET o == w.obj[i]
        sale == Tended /\ ~angry /\ ~robbed
        paid == sale /\ sells /\ Len(w.bill) < BillSz
    IN  IF Tended /\ o.unpaid THEN SubFromBill(w, i, j)
        ELSE IF sale /\ ~paid THEN [w EXCEPT !.obj[i].no_charge = TRUE]
        ELSE [w EXCEPT !.books = IF Merchandise(o) THEN @ - o.quan ELSE @]

\* drop and dropy.  A contribution of any size makes up for a robbery: the
\* comparison in sellobj binds before the subtraction.
DropInShop(i, n, sells) ==
    /\ Within(i, "invent") /\ inside
    /\ \E s \in NextIdents(Shop, 2) :
          LET piece == PieceOf(i, n, Min(s))
              down == [piece.w EXCEPT !.obj[piece.it].where = "shop"]
          IN  ShopBecomes(StackObj(SellObj(down, piece.it, Max(s), sells), piece.it))
    /\ robbed' = (robbed /\ ~(Tended /\ ~obj[i].unpaid /\ ~angry))
    /\ UNCHANGED <<angry, Whereabouts>>

\* useup, of one unit in the pack.
UseUp(i) ==
    /\ obj[i].where = "invent"
    /\ ShopBecomes(IF obj[i].quan > 1 THEN [Shop EXCEPT !.obj[i].quan = @ - 1] ELSE ObFree(Shop, i, 0))
    /\ UNCHANGED <<Mood, Whereabouts>>

\* useupf, of n units on the floor: billed if the shop is tended.
UseUpFloor(i, n) ==
    /\ Within(i, "shop")
    /\ \E s \in IdForPiece(i, n) :
          LET piece == PieceOf(i, n, Min(s))
          IN  ShopBecomes(ObFree(AddToBill(piece.w, piece.it, FALSE), piece.it, 0))
    /\ UNCHANGED <<Mood, Whereabouts>>

\* bill_dummy_object: i is changed by its use.  A copy as it was goes on the bill.
BillDummy(i) ==
    /\ obj[i].unpaid \/ (Within(i, "shop") /\ Tended /\ ~obj[i].no_charge)
    /\ Within(i, "invent") \/ Within(i, "shop")
    /\ \E s \in NextIdents(Shop, 2) :
          LET dummy == Max(s)
              w == IF obj[i].unpaid THEN SubFromBill(Shop, i, Min(s)) ELSE Shop
              both == AddToBill([w EXCEPT !.obj[dummy] = [w.obj[i] EXCEPT !.where = "gone"]], dummy, TRUE)
              kept == [both EXCEPT !.obj[dummy] = IF @.where = "gone" THEN NoObj ELSE @]
          IN  ShopBecomes([kept EXCEPT !.obj[i].no_charge = TRUE, !.obj[i].unpaid = FALSE])
    /\ UNCHANGED <<Mood, Whereabouts>>

\* mpickobj: a monster takes i from the hero or the shop; relobj, in the shop.
MonsterTakes(i) ==
    /\ obj[i].where = "invent" \/ (obj[i].where = "shop" /\ ~inside)
    /\ LET lost == IF obj[i].where = "shop" /\ Merchandise(obj[i]) THEN obj[i].quan ELSE 0
           taken == [Shop EXCEPT !.obj[i].where = "monster", !.books = @ + lost]
           stacks == {j \in ObjIds : StackableGoods(taken, i, j)}
       IN  ShopBecomes(IF stacks = {} THEN taken ELSE MergeInto(taken, i, Min(stacks)))
    /\ UNCHANGED <<Mood, Whereabouts>>
MonsterDrops(i) ==
    /\ obj[i].where = "monster"
    /\ LET brought == IF Merchandise(obj[i]) THEN obj[i].quan ELSE 0
       IN  ShopBecomes(StackObj([Shop EXCEPT !.obj[i].where = "shop", !.books = @ - brought], i))
    /\ UNCHANGED <<Mood, Whereabouts>>
\* m_useup and the like: the monster eats it.
MonsterUses(i) ==
    /\ obj[i].where = "monster"
    /\ ShopBecomes(ObFree(Shop, i, 0))
    /\ UNCHANGED <<Mood, Whereabouts>>

\* dopay.
Pay(itemize, yes, funds) ==
    /\ Tended /\ ~inactive /\ bill # <<>>
    /\ Len(bill) = 1 => itemize
    /\ ShopBecomes(PayBill(Shop, itemize, yes, funds))
    /\ robbed' \in {robbed, robbed /\ books' = books}
    /\ UNCHANGED <<angry, Whereabouts>>

\* dopay with no bill, and make_happy_shk.
Appease ==
    /\ alive /\ ~inactive /\ bill = <<>> /\ (robbed \/ angry)
    /\ robbed' = FALSE /\ angry' = FALSE /\ home' = TRUE
    /\ UNCHANGED <<obj, bill, books, alive, inactive, inside, ushops>>

\* u_entered_shop: nobody is served in a shop without its keeper.
EnterShop ==
    /\ ~inside /\ inside' = TRUE
    /\ ushops' = home
    /\ inactive' = IF alive THEN ~home ELSE inactive
    /\ UNCHANGED <<obj, bill, books, robbed, angry, home, alive>>

\* u_left_shop and rob_shop, with credit for none, part or all of the bill.
LeaveShop ==
    /\ inside /\ inside' = FALSE /\ ushops' = FALSE
    /\ IF Tended /\ bill # <<>>
       THEN /\ ShopBecomes(WriteOff(Shop))
            /\ \E credit \in BOOLEAN : robbed' = (robbed \/ ~credit) /\ angry' = (angry \/ ~credit)
       ELSE UNCHANGED <<obj, bill, books, robbed, angry>>
    /\ UNCHANGED <<home, alive, inactive>>

\* make_angry_shk: what is on the bill is past due.
MakeAngry ==
    /\ alive /\ ~angry
    /\ ShopBecomes(WriteOff(Shop))
    /\ robbed' = (robbed \/ (bill # <<>> /\ ~inactive))
    /\ angry' = ~inactive
    /\ UNCHANGED Whereabouts

\* The shopkeeper leaves his shop: after a thief, or moved by magic.
ShkLeaves ==
    /\ ShkMayLeave \/ bill = <<>>
    /\ home /\ home' = FALSE
    /\ UNCHANGED <<obj, bill, books, Mood, alive, inactive, inside, ushops>>

\* after_shk_move: he is back, and sees who is in his shop.
ShkReturns ==
    /\ alive /\ ~home /\ home' = TRUE
    /\ inactive' = FALSE
    /\ ushops' = IF inactive THEN inside ELSE ushops
    /\ UNCHANGED <<obj, bill, books, Mood, alive, inside>>

\* shkgone.
ShkDies ==
    /\ alive /\ alive' = FALSE /\ home' = FALSE
    /\ LET w == IF ushops THEN WriteOff(Shop) ELSE Shop
       IN  /\ bill' = w.bill /\ books' = w.books - MapThenSumSet(LAMBDA i : w.obj[i].quan,
                 {i \in ObjIds : w.obj[i].where = "shop" /\ w.obj[i].no_charge /\ ~w.obj[i].unpaid})
           /\ obj' = [i \in ObjIds |-> [w.obj[i] EXCEPT !.no_charge = @ /\ w.obj[i].where # "shop"]]
    /\ ushops' = FALSE /\ inactive' = (inactive \/ ushops)
    /\ UNCHANGED <<Mood, inside>>

ShopNext ==
    \/ \E i \in ObjIds :
          \/ UseUp(i) \/ BillDummy(i) \/ MonsterTakes(i) \/ MonsterDrops(i) \/ MonsterUses(i)
          \/ \E n \in 1..obj[i].quan :
                \/ PickUpGoods(i, n) \/ UseUpFloor(i, n)
                \/ \E sells \in BOOLEAN : DropInShop(i, n, sells)
    \/ \E itemize \in BOOLEAN, funds \in 1..MaxFunds :
          \E yes \in SUBSET {bill[k].id : k \in DOMAIN bill} : Pay(itemize, yes, funds)
    \/ Appease \/ EnterShop \/ LeaveShop \/ MakeAngry
    \/ ShkLeaves \/ ShkReturns \/ ShkDies

ShopSpec == ShopInit /\ [][ShopNext]_shopVars

-----------------------------------------------------------------------------
(* Properties *)

\* The bill and the objects agree: an object is unpaid exactly if it has an
\* entry that is not for something used up, it has one entry at most, no more
\* of it is left than was billed, and what is used up waits with the bill.
BillMatchesObjects ==
    /\ \A i \in ObjIds :
          LET mine == {k \in DOMAIN bill : bill[k].id = i}
          IN  /\ Cardinality(mine) <= 1
              /\ obj[i].where # "billobjs" => (obj[i].unpaid <=> mine # {})
              /\ \A k \in mine : /\ bill[k].useup <=> obj[i].where = "billobjs"
                                 /\ obj[i].where # "gone" /\ obj[i].quan <= bill[k].bquan
    /\ Len(bill) <= BillSz

\* Nothing of the shop's is forgotten: every unit is on the shelves, on the
\* bill, or has been paid for, robbed, or knowingly let go, through every
\* split, merge, partial use and partial payment.
NothingIsForgotten == ShopStock(Shop) + books = FoldLeft(LAMBDA a, b : a + b, 0, Shelf)

=============================================================================
