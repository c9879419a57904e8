------------------------------ MODULE PriceSteps ------------------------------
(***************************************************************************)
(* The selling price of a product, which deliveries propose and a person   *)
(* may set.  A rise goes onto the card at once; a drop waits in            *)
(* product_price_steps until the goods received before it are sold, so     *)
(* that what was bought dear is not sold cheap.  Waiting prices form a     *)
(* chain, oldest trigger first.                                            *)
(*                                                                         *)
(* One product, one of its three price fields.  The card's row is locked   *)
(* by whatever moves the price or the stock, each in one transaction; a    *)
(* settle locks the steps it found due before it asks for the card.        *)
(***************************************************************************)
EXTENDS Desk, FiniteSetsExt

CONSTANTS Notes,      \* deliveries; the first is on the shelf at the start
          Figures,    \* prices
          Opening,    \* the price at the start
          Units,      \* what a delivery brings
          MaxTime     \* bound: deliveries ever put on the shelf

VARIABLES
  card,    \* products.price_out
  notes,   \* goods_receipts: its line's figure (0: none) and its lot: since when, what is left
  chain,   \* product_price_steps: a price, its note, and its place in the chain
  awaited, \* deliveries whose last row in product_price_history is queue_add
  told,    \* the figure of the last row of it that says the card moved
  now      \* lots are numbered in the order of created_at

prices == <<card, chain, awaited, told>>
priceVars == <<prices, notes, now, desk>>

\* "passed": the card has left the figure since the note was written.  "meant":
\* what its goods are to sell at, once that is decided; 0 while it is not.
Draft(p) == [status |-> "draft", figure |-> p, passed |-> FALSE, time |-> 0, left |-> 0, meant |-> 0]
NoNote == [Draft(0) EXCEPT !.status = "none"]

PriceInit ==
  /\ DeskInit
  /\ card = Opening /\ chain = {} /\ now = 1
  /\ notes = [n \in Notes |-> IF n = 1 THEN [Draft(0) EXCEPT !.status = "received", !.time = 1,
                                                             !.left = Units, !.meant = Opening]
                                       ELSE NoNote]
  /\ awaited = {} /\ told = Opening

------------------------------------------------------------------------------
OnShelf == {n \in Notes : notes[n].left > 0}
OlderThan(time) == {n \in OnShelf : notes[n].time < time}
OlderGone(step) == OlderThan(step.trigger) = {}

\* Rows a settle holds between finding them due and moving the card.
Held == UNION {seen[s].due : s \in {t \in Sessions : phase[t] = "apply"}}
Free(steps) == steps \cap Held = {}

\* Chain order: by trigger, then by when they were made.
Before(a, b) == \/ a.trigger < b.trigger
                \/ a.trigger = b.trigger /\ a.made < b.made

FirstOf(steps) == CHOOSE st \in steps : \A other \in steps \ {st} : Before(st, other)
LastOf(steps) == CHOOSE st \in steps : \A other \in steps \ {st} : Before(other, st)

NotesOf(steps) == {st.note : st \in steps}

\* Mutant: the steps go without a word.
DroppedSilently(steps) == /\ chain' = chain \ steps
                          /\ awaited' = awaited

\* dropStepsTx(): the steps go, and each leaves a row saying so.
Dropped(steps) == /\ chain' = chain \ steps
                  /\ awaited' = awaited \ NotesOf(steps)

\* The card moves, with a row that says from where: the evidence of whatever
\* names the old figure.
MoveCard(new) == card' = new /\ told' = new
Left(old) == [n \in Notes |-> [notes[n] EXCEPT !.passed = @ \/ notes[n].figure = old]]
Undecided(all) == [n \in Notes |-> [all[n] EXCEPT !.meant = 0]]

\* An answer that changes no price.
PricesStay == UNCHANGED prices

------------------------------------------------------------------------------
\* Deliveries.

WriteNote(n, p) == /\ notes[n].status = "none" /\ (n - 1 \in Notes => notes[n - 1].status # "none")
                   /\ notes' = [notes EXCEPT ![n] = Draft(p)]
                   /\ UNCHANGED <<prices, now, desk>>

\* The goods go onto the shelf; whoever may change prices then puts the note's
\* on the card.
Receive(s, n, applies) ==
  /\ notes[n].status = "draft" /\ now < MaxTime
  /\ now' = now + 1
  /\ notes' = [notes EXCEPT ![n].status = "received", ![n].time = now', ![n].left = Units]
  /\ IF applies THEN Enter(s, "propose", [kind |-> "onReceive", note |-> n], NothingSeen)
                ELSE phase[s] = "idle" /\ UNCHANGED desk
  /\ PricesStay

\* The review list of a delivery, asked for later.
Review(s, n, toCard) ==
  /\ notes[n].status = "received"
  /\ Enter(s, "propose", [kind |-> IF toCard THEN "toCard" ELSE "toReceipt", note |-> n], NothingSeen)
  /\ UNCHANGED <<prices, notes, now>>

\* Where the price is going already.
End == IF chain = {} THEN card ELSE LastOf(chain).price

Differs(n) == notes[n].figure \notin {card, End} /\ notes[n].figure > 0

\* A card that left the note's figure since the note was written is not sent
\* back to it on receiving.
Propose(s) ==
  /\ phase[s] = "propose"
  /\ LET n == job[s].note IN
     IF /\ notes[n].status = "received" /\ Differs(n)
        /\ job[s].kind = "onReceive" => ~notes[n].passed
     THEN Proceed(s, "propose", "write", [kind |-> "proposal", figure |-> notes[n].figure, card |-> card])
     ELSE Leave(s, "propose")
  /\ UNCHANGED <<prices, notes, now>>

\* Mutant: goods on the shelf already are not looked for.
OlderStockNever(n) == FALSE

\* planPrice(), under the card's lock.
OlderStock(n) == notes[n].time # 0 /\ OlderThan(notes[n].time) # {}

Plan(n, p) == IF p = card \/ (p < card /\ p = End) THEN "none"
              ELSE IF p > card \/ ~OlderStock(n) THEN "now" ELSE "queue"

Lifted(p) == {st \in chain : st.price <= p}

\* The new step takes the place of the first it lifts; without any it waits
\* for what is older than its own goods.
Trigger(n, p) == IF Lifted(p) = {} THEN notes[n].time ELSE FirstOf(Lifted(p)).trigger

\* Made after those that wait for the same.
NextMade(steps, time) == 1 + Max({0} \cup {st.made : st \in {other \in steps : other.trigger = time}})

Queued(n, p) ==
  LET stay == chain \ Lifted(p)
      time == Trigger(n, p)
  IN  stay \cup {[price |-> p, note |-> n, trigger |-> time, made |-> NextMade(stay, time)]}

PriceWritten(n, p) ==
  /\ Free(chain)
  /\ \/ /\ Plan(n, p) = "now"
        /\ MoveCard(p) /\ chain' = {}
        /\ awaited' = awaited \ (NotesOf(chain) \union {n})
        /\ notes' = [Left(card) EXCEPT ![n].meant = p]
     \/ /\ Plan(n, p) = "queue"
        /\ chain' = Queued(n, p)
        /\ awaited' = (awaited \union {n}) \ NotesOf(Lifted(p))
        /\ notes' = [notes EXCEPT ![n].meant = p]
        /\ UNCHANGED <<card, told>>
     \/ Plan(n, p) = "none" /\ PricesStay /\ UNCHANGED notes

WritePrices(s) == /\ Leave(s, "write") /\ job[s].kind # "toReceipt"
                  /\ PriceWritten(job[s].note, seen[s].figure)
                  /\ UNCHANGED now

\* The other way round: the line was wrong and takes the card's figure.
CorrectNote(s) == /\ Leave(s, "write") /\ job[s].kind = "toReceipt"
                  /\ notes' = [notes EXCEPT ![job[s].note].figure = seen[s].card,
                                            ![job[s].note].passed = (seen[s].card # card)]
                  /\ PricesStay /\ UNCHANGED now

\* A delivery is taken back, whole, with its waiting price.
TakeBack(s, n) ==
  LET its == {st \in chain : st.note = n} IN
  /\ notes[n].status = "received" /\ notes[n].left = Units
  /\ Free(its)
  /\ Enter(s, "settle", [kind |-> "takeBack"], NothingSeen)
  /\ notes' = [notes EXCEPT ![n].status = "draft", ![n].time = 0, ![n].left = 0, ![n].meant = 0]
  /\ Dropped(its)
  /\ UNCHANGED <<card, told, now>>

------------------------------------------------------------------------------
\* Stock leaves, oldest lot first.  A sale then settles what became due; a
\* write-off or a count leaves that to the sweep.

NextToSell == {n \in OnShelf : OlderThan(notes[n].time) = {}}

Sell(s) == /\ \E n \in NextToSell : notes' = [notes EXCEPT ![n].left = @ - 1]
           /\ Enter(s, "settle", [kind |-> "sale"], NothingSeen)
           /\ PricesStay /\ UNCHANGED now

WriteOff == /\ \E n \in NextToSell : notes' = [notes EXCEPT ![n].left = @ - 1]
            /\ PricesStay /\ UNCHANGED <<now, desk>>

\* Mutant: prices move with sales only.
SweepNever(s) == FALSE

\* Every five minutes.
Sweep(s) == /\ \E st \in chain : OlderGone(st)
            /\ Enter(s, "settle", [kind |-> "sweep"], NothingSeen)
            /\ PricesStay /\ UNCHANGED <<notes, now>>

------------------------------------------------------------------------------
\* settleDuePriceStepsTx(): steps another settle holds are passed over.

Due == {st \in chain : OlderGone(st)} \ Held

PickDue(s) == /\ IF Due = {} THEN Leave(s, "settle")
                 ELSE Proceed(s, "settle", "apply", [kind |-> "steps", due |-> Due])
              /\ PricesStay /\ UNCHANGED <<notes, now>>

\* applyStepsTx(): the last of them stands, the card went past the others.
Applied(steps) ==
  LET last == LastOf(steps) IN
  /\ chain' = chain \ steps
  /\ IF last.price = card
       THEN UNCHANGED <<card, told>> /\ awaited' = awaited \ NotesOf(steps \ {last})
       ELSE MoveCard(last.price) /\ awaited' = awaited \ NotesOf(steps)

ApplyDue(s) == /\ Leave(s, "apply")
               /\ Applied(seen[s].due)
               /\ notes' = IF card' = card THEN notes ELSE Left(card)
               /\ UNCHANGED now

------------------------------------------------------------------------------
\* What a person does on the product's card.

\* "Apply now": a step, and every one ahead of it.
ApplyNow == /\ Free(chain)
            /\ \E st \in chain : Applied({st} \union {other \in chain : Before(other, st)})
            /\ notes' = Undecided(IF card' = card THEN notes ELSE Left(card))
            /\ UNCHANGED <<now, desk>>

Cancel == /\ \E steps \in {{st} : st \in chain} \union {chain} :
               /\ steps # {} /\ Free(steps)
               /\ Dropped(steps)
          /\ UNCHANGED <<card, told, notes, now, desk>>

\* The form is saved: what it changes is told by the card as it was read.
LookAtCard(s, p) == /\ Enter(s, "edit", [kind |-> "edit", figure |-> p], [kind |-> "card", card |-> card])
                    /\ UNCHANGED <<prices, notes, now>>

Saved(before, p) ==
  IF p = before THEN card' = p /\ UNCHANGED <<chain, awaited, told, notes>>
  ELSE /\ Free(chain)
       /\ MoveCard(p) /\ Dropped(chain)
       /\ notes' = Undecided(Left(before))

SaveCard(s) == /\ Leave(s, "edit")
               /\ Saved(seen[s].card, job[s].figure)
               /\ UNCHANGED now

GiveUp(s) == Abandon(s) /\ UNCHANGED <<prices, notes, now>>

Handle(s) == \/ Propose(s) \/ WritePrices(s) \/ CorrectNote(s)
             \/ PickDue(s) \/ ApplyDue(s) \/ SaveCard(s)

PriceNext ==
  \/ \E n \in Notes, p \in Figures : WriteNote(n, p)
  \/ \E s \in Sessions : \/ \E n \in Notes : \/ \E b \in BOOLEAN : Receive(s, n, b) \/ Review(s, n, b)
                                             \/ TakeBack(s, n)
                         \/ \E p \in Figures : LookAtCard(s, p)
                         \/ Sell(s) \/ Sweep(s) \/ Handle(s) \/ GiveUp(s)
  \/ WriteOff \/ ApplyNow \/ Cancel

\* Handlers end, one way or the other; the sweep is called every five minutes,
\* and the database does not refuse every attempt to apply what is due.
PriceFairness ==
  /\ \A s \in Sessions : WF_priceVars(Handle(s) \/ GiveUp(s))
  /\ SF_priceVars(\E s \in Sessions : Sweep(s))
  /\ SF_priceVars(\E s \in Sessions : Due # {} /\ PickDue(s))
  /\ SF_priceVars(\E s \in Sessions : ApplyDue(s))

PriceSpec == PriceInit /\ [][PriceNext]_priceVars

------------------------------------------------------------------------------
\* The waiting prices fall along the chain, all below the card.
ChainFalls == \A a \in chain : /\ a.price < card
                               /\ \A b \in chain : Before(a, b) => b.price < a.price

\* The next unit to sell does not sell below what its own delivery asked, as
\* decided when that was put on the card or in the queue: no delivery's drop
\* reaches goods that were there before it.
SoldAsMeant == \A n \in NextToSell : notes[n].meant <= card

\* The history is the whole account of the price: its last row is the card's.
HistoryTrue == told = card

\* The delivery's page tells of each of its prices whether it still waits.
RecordTrue == awaited = NotesOf(chain)

\* A price whose older goods are gone takes effect or is dropped, whatever
\* became of the request that took the last of them: again and again, none is
\* left that is due.
DueTakesEffect == []<>(\A st \in chain : ~OlderGone(st))
=============================================================================
