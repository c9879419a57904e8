------------------------------- MODULE Delivery -------------------------------
(***************************************************************************)
(* The goods of delivery notes: a draft is typed and edited, received onto *)
(* the shelf, taken back to draft or deleted while nothing of it is gone,  *)
(* moved to another branch, sent back to the supplier in part.  One        *)
(* product.  Beside it the tills sell, oldest lot first.                   *)
(*                                                                         *)
(* Every handler reads the note before its transaction.  Taking a note     *)
(* back and sending goods back lock the note and look again at its lots;   *)
(* receiving, editing and changing the header do neither.                  *)
(***************************************************************************)
EXTENDS SupplierAccount

CONSTANTS Branches,
          Lines,      \* quantities a note may have; 0: not typed yet
          Cuts,       \* quantities sold, or sent back
          MaxEdits,   \* bound: times a draft's lines are replaced
          MaxLots,    \* bound: lots ever opened
          Oversell    \* whether a till may sell more than the shelf holds

ASSUME DeliveryAssumption ==
  /\ Lines \subseteq Nat /\ Cuts \subseteq Nat \ {0} /\ Oversell \in BOOLEAN
  /\ IsFiniteSet(Branches)

VARIABLES
  lots,   \* inventory_batches, oldest first; a deleted one is marked gone
  shelf,  \* branch_stock.quantity
  stock   \* products.quantity

goods == <<lots, shelf, stock>>
deliveryVars == <<account, books, goods, desk>>

\* "item" is the id of the note's line: an edit makes a new one.
BlankNote == [status |-> "none", supplier |-> "none", total |-> 0, paid |-> 0, sentBack |-> 0,
              branch |-> "none", item |-> 0, returns |-> FALSE]

DeliveryInit ==
  /\ AccountInit(BlankNote) /\ DeskInit
  /\ lots = <<>> /\ shelf = [b \in Branches |-> 0] /\ stock = 0

There(r) == notes[r].status # "none"
ItemThere(r, item) == There(r) /\ notes[r].item = item

Lot(r, item, b, q) ==
  [note |-> r, item |-> item, branch |-> b, in |-> q, left |-> q, sold |-> 0, back |-> 0,
   off |-> 0, gone |-> FALSE]

LotsOf(r, item) == {k \in DOMAIN lots : ~lots[k].gone /\ lots[k].note = r /\ lots[k].item = item}
OnShelf(b) == {k \in DOMAIN lots : ~lots[k].gone /\ lots[k].branch = b /\ lots[k].left > 0}
LeftIn(set) == SumFunction([k \in set |-> lots[k].left])

\* Units taken from lot k when x are taken from a set of lots, oldest first.
Take(k, set, x) ==
  IF k \in set THEN Least(lots[k].left, OrZero(x - LeftIn({j \in set : j < k}))) ELSE 0

------------------------------------------------------------------------------
\* create() and applyReceiptStockTx()

\* trimLotsToStockTx(): a delivery first covers what was sold ahead of it.
Trimmed(all, b, onHand) ==
  LET held(set) == SumFunction([k \in set |-> all[k].left])
      here == {k \in DOMAIN all : ~all[k].gone /\ all[k].branch = b}
      excess == OrZero(held(here) - OrZero(onHand))
      cut(k) == Least(all[k].left, OrZero(excess - held({j \in here : j < k})))
  IN  [k \in DOMAIN all |->
         IF k \in here THEN [all[k] EXCEPT !.left = @ - cut(k), !.off = @ + cut(k)] ELSE all[k]]

PutOnShelf(r, item, b, q) ==
  /\ Len(lots) < MaxLots
  /\ lots' = Trimmed(Append(lots, Lot(r, item, b, q)), b, shelf[b] + q)
  /\ shelf' = [shelf EXCEPT ![b] = @ + q]
  /\ stock' = stock + q

CreateNote ==
  \E r \in Notes, b \in Branches, p \in Suppliers \union {"none"}, q \in Lines, draft \in BOOLEAN :
    /\ ~There(r) /\ notes[r].item = 0
    /\ \A earlier \in Notes : earlier < r => notes[earlier].item # 0
    /\ ~draft => q > 0
    /\ notes' = [notes EXCEPT ![r] =
                   [BlankNote EXCEPT !.status = IF draft THEN "draft" ELSE "received",
                                     !.supplier = p, !.branch = b, !.total = q, !.item = 1]]
    /\ IF draft THEN UNCHANGED goods ELSE PutOnShelf(r, 1, b, q)
    /\ UNCHANGED <<remitted, credit, advanced, books, desk>>

\* receiveReceipt(): draft when it was read; the lines as they were read.
LookToReceive(s) ==
  \E r \in Notes :
    /\ notes[r].status = "draft" /\ notes[r].total > 0
    /\ Enter(s, "receive", [kind |-> "receive", note |-> r], notes[r])
    /\ UNCHANGED <<account, books, goods>>

ReceiveNote(s) ==
  LET r == job[s].note
  IN  /\ Leave(s, "receive")
      /\ ItemThere(r, seen[s].item)
      /\ PutOnShelf(r, seen[s].item, seen[s].branch, seen[s].total)
      /\ notes' = [notes EXCEPT ![r].status = "received"]
      /\ UNCHANGED <<remitted, credit, advanced, books>>

\* update(): the lines of a draft are replaced.
LookToEdit(s) ==
  \E r \in Notes, q \in Lines, b \in Branches :
    /\ notes[r].status = "draft" /\ notes[r].item < MaxEdits
    /\ Enter(s, "edit", [kind |-> "edit", note |-> r, total |-> q, branch |-> b], NothingSeen)
    /\ UNCHANGED <<account, books, goods>>

\* Lots of a line that is deleted no longer name it.
Orphaned(which) ==
  [k \in DOMAIN lots |-> IF k \in which THEN [lots[k] EXCEPT !.note = 0, !.item = 0] ELSE lots[k]]

EditNote(s) ==
  LET r == job[s].note
  IN  /\ Leave(s, "edit")
      /\ There(r)
      /\ notes[r].item < MaxEdits
      /\ notes' = [notes EXCEPT ![r].item = @ + 1, ![r].total = job[s].total,
                                ![r].branch = job[s].branch]
      /\ lots' = Orphaned(LotsOf(r, notes[r].item))
      /\ UNCHANGED <<remitted, credit, advanced, books, shelf, stock>>

------------------------------------------------------------------------------
\* unreceiveReceipt() and remove()

\* Mutant: the lots are not looked at again under the lock.
LotsWholeAlways(which) == TRUE

\* assertLotsWholeTx()
LotsWhole(which) == \A k \in which : lots[k].left = lots[k].in

\* Mutant: payments and returns do not count.
TakeableAnyway(r) == notes[r].status = "draft" \/ LotsWhole(LotsOf(r, notes[r].item))

\* loadReversible(): a draft, or goods all there, nothing paid or sent back.
Takeable(r) ==
  notes[r].status = "draft" \/ /\ ~notes[r].returns /\ Standing(r) = {}
                               /\ LotsWhole(LotsOf(r, notes[r].item))

LookToReverse(s) ==
  \E r \in Notes, end \in {"unreceive", "remove"} :
    /\ There(r) /\ Takeable(r)
    /\ end = "unreceive" => notes[r].status = "received"
    /\ Enter(s, "reverse", [kind |-> end, note |-> r], notes[r])
    /\ UNCHANGED <<account, books, goods>>

\* reverseReceiptStockTx(): the lots go, the lines' quantity comes off.
OffShelf(r, item, q) ==
  LET which == LotsOf(r, item)
      b == IF which = {} THEN notes[r].branch ELSE lots[CHOOSE k \in which : TRUE].branch
  IN  /\ lots' = [k \in DOMAIN lots |-> IF k \in which THEN [lots[k] EXCEPT !.gone = TRUE] ELSE lots[k]]
      /\ shelf' = [shelf EXCEPT ![b] = OrZero(@ - q)]
      /\ stock' = OrZero(stock - q)

Unreceive(s) ==
  LET r == job[s].note
  IN  /\ Leave(s, "reverse")
      /\ job[s].kind = "unreceive" /\ notes[r].status = "received"
      /\ LotsWhole(LotsOf(r, seen[s].item))
      /\ OffShelf(r, seen[s].item, seen[s].total)
      /\ notes' = [notes EXCEPT ![r].status = "draft"]
      /\ UNCHANGED <<remitted, credit, advanced, books>>

\* The note goes, and with it, by cascade, its lines, payments and returns.
RemoveNote(s) ==
  LET r == job[s].note
  IN  /\ Leave(s, "reverse")
      /\ job[s].kind = "remove" /\ There(r)
      /\ IF notes[r].status = "received"
           THEN LotsWhole(LotsOf(r, seen[s].item)) /\ OffShelf(r, seen[s].item, seen[s].total)
           ELSE UNCHANGED goods
      /\ notes' = [notes EXCEPT ![r] = [BlankNote EXCEPT !.item = notes[r].item]]
      /\ remitted' = [n \in DOMAIN remitted |-> IF n \in Standing(r) THEN NoRemit ELSE remitted[n]]
      /\ UNCHANGED <<credit, advanced, books>>

------------------------------------------------------------------------------
\* updateHeader(): supplier and branch, the one not given written back as read.

LookToRelabel(s) ==
  \E r \in Notes :
    /\ There(r)
    /\ \/ \E p \in (Suppliers \union {"none"}) \ {notes[r].supplier} :
            Enter(s, "relabel", [kind |-> "supplier", note |-> r, supplier |-> p,
                                 branch |-> notes[r].branch], notes[r])
       \/ \E b \in Branches \ {notes[r].branch} :
            Enter(s, "relabel", [kind |-> "branch", note |-> r, supplier |-> notes[r].supplier,
                                 branch |-> b], notes[r])
    /\ UNCHANGED <<account, books, goods>>

\* moveReceiptStockTx(): what is left of a lot moves; a lot sold in part is
\* split, the sold part staying where it was sold.
MoveLots(r, from, to) ==
  LET which == {k \in LotsOf(r, notes[r].item) : lots[k].branch = from /\ lots[k].left > 0}
      begun == {k \in which : lots[k].left < lots[k].in}
      moved == LeftIn(which)
  IN  /\ Len(lots) + Cardinality(begun) <= MaxLots
      /\ \E split \in Ascending(begun) :
           lots' = [k \in DOMAIN lots |->
                      CASE k \in begun -> [lots[k] EXCEPT !.in = @ - lots[k].left, !.left = 0]
                        [] k \in which \ begun -> [lots[k] EXCEPT !.branch = to]
                        [] OTHER -> lots[k]]
                   \o [j \in DOMAIN split |-> Lot(r, notes[r].item, to, lots[split[j]].left)]
      /\ shelf' = [shelf EXCEPT ![from] = OrZero(@ - moved), ![to] = @ + moved]
      /\ UNCHANGED stock

Relabel(s) ==
  LET r == job[s].note
      q == job[s].supplier
  IN  /\ Leave(s, "relabel")
      /\ There(r)
      /\ notes' = [notes EXCEPT ![r].supplier = q, ![r].branch = job[s].branch]
      /\ IF job[s].kind = "branch" /\ seen[s].status = "received"
           THEN MoveLots(r, seen[s].branch, job[s].branch)
           ELSE UNCHANGED goods
      /\ remitted' = IF job[s].kind = "branch" THEN remitted
                     ELSE [n \in DOMAIN remitted |->
                             IF n \in Standing(r) THEN [remitted[n] EXCEPT !.supplier = q]
                             ELSE remitted[n]]
      /\ UNCHANGED <<credit, advanced, books>>

------------------------------------------------------------------------------
\* createReturn()

LookToSendBack(s) ==
  \E r \in Notes, q \in Cuts :
    /\ notes[r].status = "received"
    /\ Enter(s, "send", [kind |-> "send", note |-> r, units |-> q], notes[r])
    /\ UNCHANGED <<account, books, goods>>

\* Mutant: the units are taken whether or not the lots still hold them.
HoldsAnyway(which, q) == which # {}

\* The lots are locked, and only then is the quantity checked against them.
Holds(which, q) == q <= LeftIn(which)

SendBack(s) ==
  LET r == job[s].note
      q == job[s].units
      b == seen[s].branch
      which == LotsOf(r, seen[s].item)
  IN  /\ Leave(s, "send")
      /\ There(r) /\ Holds(which, q)
      /\ lots' = [k \in DOMAIN lots |-> [lots[k] EXCEPT !.left = @ - Take(k, which, q),
                                                        !.back = @ + Take(k, which, q)]]
      /\ shelf' = [shelf EXCEPT ![b] = @ - q]
      /\ stock' = OrZero(stock - q)
      /\ notes' = [notes EXCEPT ![r].sentBack = @ + q, ![r].returns = TRUE]
      /\ UNCHANGED <<remitted, credit, advanced, books>>

------------------------------------------------------------------------------
\* A till sells: the lots give what they have, the stock all of it.
Sale ==
  \E b \in Branches, q \in Cuts :
    LET which == OnShelf(b)
    IN  /\ Oversell \/ q <= shelf[b]
        /\ lots' = [k \in DOMAIN lots |-> [lots[k] EXCEPT !.left = @ - Take(k, which, q),
                                                          !.sold = @ + Take(k, which, q)]]
        /\ shelf' = [shelf EXCEPT ![b] = @ - q]
        /\ stock' = stock - q
        /\ UNCHANGED <<account, books, desk>>

PayDesk == AccountNext /\ UNCHANGED <<goods, desk>>
DeliveryGivesUp(s) == Abandon(s) /\ UNCHANGED <<account, books, goods>>

GoodsNext ==
  \/ CreateNote \/ Sale
  \/ \E s \in Sessions :
       \/ LookToReceive(s) \/ ReceiveNote(s)
       \/ LookToEdit(s) \/ EditNote(s)
       \/ LookToReverse(s) \/ Unreceive(s) \/ RemoveNote(s)
       \/ LookToRelabel(s) \/ Relabel(s)
       \/ LookToSendBack(s) \/ SendBack(s)
       \/ DeliveryGivesUp(s)

DeliveryNext == GoodsNext \/ PayDesk

DeliverySpec == DeliveryInit /\ [][DeliveryNext]_deliveryVars

------------------------------------------------------------------------------
\* A unit leaves a lot once, whoever sells it, sends it back or moves it; and
\* a lot that a sale was costed against, or that went back, is never dropped.
LotsKeepTheirSales ==
  \A k \in DOMAIN lots :
    /\ lots[k].left >= 0
    /\ lots[k].sold + lots[k].back <= lots[k].in
    /\ lots[k].gone => lots[k].sold + lots[k].back = 0

\* A received note is on the shelf with exactly its lines, a draft with
\* nothing: it was received once, and moves did not lose or make units.
NotesOnShelf ==
  \A r \in Notes :
    LET there == {k \in DOMAIN lots : ~lots[k].gone /\ lots[k].note = r}
        delivered == SumFunction([k \in there |-> lots[k].in])
    IN  delivered = IF notes[r].status = "received" THEN notes[r].total ELSE 0

\* "Branch rows sum to products.quantity", and each is what its lots hold.
ShelvesAddUp ==
  /\ stock = SumFunction(shelf)
  /\ \A b \in Branches : shelf[b] = LeftIn(OnShelf(b))

\* Payments and returns are made against goods that were received: while one
\* stands its note is neither a draft nor gone.
PaidNotesStay ==
  \A r \in Notes : notes[r].paid > 0 \/ notes[r].returns => notes[r].status = "received"
=============================================================================
