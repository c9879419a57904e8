------------------------------ MODULE LedgerProofs ------------------------------
(***************************************************************************)
(* The money ledger, and the supply side that is built on it, for any      *)
(* notes, suppliers, branches, quantities, amounts and number of requests  *)
(* at once.                                                                *)
(*                                                                         *)
(* The ledger: the shape of its rows, and that writing rows and reversing  *)
(* them both keep it.  MoneyProofs uses these lemmas too.                  *)
(*                                                                         *)
(* The supply side: SupplyOK says what notes, payments, lots, defective    *)
(* lots and hand-overs look like between steps, and what a request on      *)
(* its way holds; every lot's units are on hand, sold, sent back or off,   *)
(* which is why no unit leaves twice.  On it stand: a note's paid figure   *)
(* is the sum of its payments (PaidSums); payments, refunds and their      *)
(* rows stand or fall together (BookedOK), given what the code does not    *)
(* check, named as a hypothesis where it is used.                          *)
(*                                                                         *)
(* One request at a time, by the loads of MCSupply, what a request read    *)
(* is still so when it commits, and more holds: what was paid or sent      *)
(* back against stands on a received note (PapersOK); credit given is      *)
(* credit spent and credit left (CreditsOK); and, nothing being            *)
(* oversold, the lots of a note bring in its total, a shelf is what its    *)
(* lots hold, and the shelves add up to the stock (GoodsOK).               *)
(***************************************************************************)
EXTENDS MCSupply, Sums

Kinds == {"income", "expense", "transfer", "shift_close"}
Sources == {"manual", "external", "reversal", "cash_movement", "shift_close", "payroll",
            "supplier_payment", "supplier_refund"}

\* A row of the ledger; owners are what it may be about.
Row(owners) ==
  [kind : Kinds, source : Sources, account : Accounts, to : Accounts, amount : Int,
   of : owners, pair : Nat, reverses : Nat, cancelled : BOOLEAN]

\* Two legs stand side by side, the capital income first.
PairsStand(R) ==
  \A m \in DOMAIN R : R[m].pair # 0 =>
    /\ R[m].pair \in {m, m - 1} /\ R[m].pair \in DOMAIN R /\ R[m].pair + 1 \in DOMAIN R
    /\ R[R[m].pair].pair = R[m].pair /\ R[R[m].pair + 1].pair = R[m].pair
    /\ R[R[m].pair].source = "external"
    /\ R[R[m].pair].cancelled = R[R[m].pair + 1].cancelled

\* A row answers at most one row, which is then cancelled.
Answers(R) ==
  /\ \A m \in DOMAIN R : R[m].reverses = 0 <=> R[m].source # "reversal"
  /\ \A m \in DOMAIN R : R[m].reverses # 0 =>
       /\ R[m].reverses \in DOMAIN R
       /\ R[R[m].reverses].cancelled
       /\ R[m].pair = 0
       /\ \A a \in Accounts : Effect(R[m], a) = 0 - Effect(R[R[m].reverses], a)
  /\ \A m, k \in DOMAIN R : R[m].reverses = R[k].reverses /\ R[m].reverses # 0 => m = k
  /\ \A n \in DOMAIN R : R[n].cancelled => \E m \in DOMAIN R : R[m].reverses = n

LedgerOK(R, owners) == R \in Seq(Row(owners)) /\ PairsStand(R) /\ Answers(R)

\* Rows as the handlers write them: one, or a pair paid out of pocket.
Fresh(row) == row.source # "reversal" /\ row.reverses = 0 /\ ~row.cancelled

Writable(R, new) ==
  \/ Len(new) = 1 /\ Fresh(new[1]) /\ new[1].pair = 0
  \/ /\ Len(new) = 2 /\ Fresh(new[1]) /\ Fresh(new[2])
     /\ new[1].pair = Len(R) + 1 /\ new[2].pair = Len(R) + 1
     /\ new[1].source = "external"

------------------------------------------------------------------------------
LEMMA Concatenated ==
  ASSUME NEW S, NEW R \in Seq(S), NEW new \in Seq(S)
  PROVE  /\ R \o new \in Seq(S)
         /\ Len(R) \in Nat /\ Len(new) \in Nat
         /\ DOMAIN R = 1..Len(R) /\ DOMAIN new = 1..Len(new)
         /\ Len(R \o new) = Len(R) + Len(new)
         /\ DOMAIN (R \o new) = 1..(Len(R) + Len(new))
         /\ \A m \in 1..Len(R) : (R \o new)[m] = R[m]
         /\ \A k \in 1..Len(new) : (R \o new)[Len(R) + k] = new[k]
  OBVIOUS

\* An empty ledger is in order.
LEMMA EmptyLedger == ASSUME NEW owners PROVE LedgerOK(<<>>, owners)
  BY DEF LedgerOK, PairsStand, Answers

\* Writing rows the way the handlers do keeps the ledger in order.
LEMMA WritingKeeps ==
  ASSUME NEW owners, NEW R, LedgerOK(R, owners),
         NEW new \in Seq(Row(owners)), Writable(R, new)
  PROVE  LedgerOK(R \o new, owners)
PROOF
  <1> DEFINE Q == R \o new
  <1>1. R \in Seq(Row(owners)) /\ PairsStand(R) /\ Answers(R)
    BY DEF LedgerOK
  <1>2. /\ Q \in Seq(Row(owners))
        /\ Len(R) \in Nat /\ Len(new) \in Nat
        /\ DOMAIN R = 1..Len(R) /\ DOMAIN new = 1..Len(new)
        /\ DOMAIN Q = 1..(Len(R) + Len(new))
        /\ \A m \in 1..Len(R) : Q[m] = R[m]
        /\ \A k \in 1..Len(new) : Q[Len(R) + k] = new[k]
    BY <1>1, Concatenated
  <1> HIDE DEF Q
  <1>3. \A m \in DOMAIN R : m \in DOMAIN Q /\ Q[m] = R[m]
    BY <1>2
  <1>4. \A m \in DOMAIN Q \ DOMAIN R : Fresh(Q[m]) /\ Q[m].pair \in {0, Len(R) + 1}
    <2> SUFFICES ASSUME NEW m \in DOMAIN Q \ DOMAIN R
                 PROVE  Fresh(Q[m]) /\ Q[m].pair \in {0, Len(R) + 1}
      OBVIOUS
    <2> DEFINE k == m - Len(R)
    <2>1. k \in 1..Len(new) /\ m = Len(R) + k
      BY <1>2
    <2>2. Q[m] = new[k]
      BY <2>1, <1>2
    <2>3. k = 1 \/ k = 2
      BY <2>1, <1>2 DEF Writable
    <2> QED
      BY <2>1, <2>2, <2>3, <1>2 DEF Writable
  <1>5. PairsStand(Q)
    <2> SUFFICES ASSUME NEW m \in DOMAIN Q, Q[m].pair # 0
                 PROVE  /\ Q[m].pair \in {m, m - 1} /\ Q[m].pair \in DOMAIN Q /\ Q[m].pair + 1 \in DOMAIN Q
                        /\ Q[Q[m].pair].pair = Q[m].pair /\ Q[Q[m].pair + 1].pair = Q[m].pair
                        /\ Q[Q[m].pair].source = "external"
                        /\ Q[Q[m].pair].cancelled = Q[Q[m].pair + 1].cancelled
      BY DEF PairsStand
    <2>1. CASE m \in DOMAIN R
      BY <2>1, <1>1, <1>3 DEF PairsStand
    <2>2. CASE m \notin DOMAIN R
      <3>1. Q[m].pair = Len(R) + 1 /\ Len(new) = 2
        <4> DEFINE k == m - Len(R)
        <4>1. k \in 1..Len(new) /\ m = Len(R) + k
          BY <2>2, <1>2
        <4>2. Q[m] = new[k]
          BY <4>1, <1>2
        <4>3. Len(new) # 1
          BY <4>1, <4>2, <1>2 DEF Writable
        <4> QED
          BY <4>1, <4>2, <4>3, <2>2, <1>4 DEF Writable
      <3>2. /\ Q[Len(R) + 1] = new[1] /\ Q[Len(R) + 2] = new[2]
            /\ DOMAIN Q = 1..(Len(R) + 2)
        BY <3>1, <1>2
      <3>3. /\ new[1].pair = Len(R) + 1 /\ new[2].pair = Len(R) + 1
            /\ new[1].source = "external" /\ ~new[1].cancelled /\ ~new[2].cancelled
        BY <3>1 DEF Writable, Fresh
      <3>4. new[1] \in Row(owners) /\ new[2] \in Row(owners)
        BY <3>1, <1>2
      <3>5. new[1].cancelled = FALSE /\ new[2].cancelled = FALSE
        BY <3>3, <3>4 DEF Row
      <3>6. m \in {Len(R) + 1, Len(R) + 2}
        BY <2>2, <3>2, <1>2
      <3>7. Len(R) + 1 \in DOMAIN Q /\ (Len(R) + 1) + 1 \in DOMAIN Q /\ (Len(R) + 1) + 1 = Len(R) + 2
        BY <3>2, <1>2
      <3> DEFINE p == Len(R) + 1
      <3>8. m = p \/ (m = p + 1 /\ m - 1 = p)
        BY <3>6, <1>2
      <3>9. Q[p] = new[1] /\ Q[p + 1] = new[2] /\ Q[m].pair = p
        BY <3>1, <3>2, <3>7
      <3> QED
        BY <3>3, <3>5, <3>7, <3>8, <3>9
    <2> QED
      BY <2>1, <2>2
  <1>6. Answers(Q)
    <2>1. \A m \in DOMAIN Q : Q[m].reverses = 0 <=> Q[m].source # "reversal"
      BY <1>1, <1>3, <1>4 DEF Answers, Fresh
    <2>2. \A m \in DOMAIN Q : Q[m].reverses # 0 => m \in DOMAIN R
      BY <1>4 DEF Fresh
    <2>3. ASSUME NEW m \in DOMAIN Q, Q[m].reverses # 0
          PROVE  /\ Q[m].reverses \in DOMAIN Q
                 /\ Q[Q[m].reverses].cancelled
                 /\ Q[m].pair = 0
                 /\ \A a \in Accounts : Effect(Q[m], a) = 0 - Effect(Q[Q[m].reverses], a)
      BY <2>2, <2>3, <1>1, <1>3 DEF Answers
    <2>4. \A m, k \in DOMAIN Q : Q[m].reverses = Q[k].reverses /\ Q[m].reverses # 0 => m = k
      BY <2>2, <1>1, <1>3 DEF Answers
    <2>5. \A n \in DOMAIN Q : Q[n].cancelled => \E m \in DOMAIN Q : Q[m].reverses = n
      BY <1>1, <1>3, <1>4 DEF Answers, Fresh
    <2> QED
      BY <2>1, <2>3, <2>4, <2>5 DEF Answers
  <1> QED
    BY <1>2, <1>5, <1>6 DEF LedgerOK, Q

------------------------------------------------------------------------------
\* A row with its mark, written out.
LEMMA MarkedRow ==
  ASSUME NEW owners, NEW r \in Row(owners), NEW c \in BOOLEAN, NEW q,
         q = [r EXCEPT !.cancelled = @ \/ c]
  PROVE  /\ q \in Row(owners)
         /\ q.kind = r.kind /\ q.source = r.source /\ q.account = r.account
         /\ q.to = r.to /\ q.amount = r.amount /\ q.of = r.of
         /\ q.pair = r.pair /\ q.reverses = r.reverses
         /\ q.cancelled = (r.cancelled \/ c)
         /\ \A a \in Accounts : Effect(q, a) = Effect(r, a)
PROOF
  <1>1. /\ q \in Row(owners)
        /\ q.kind = r.kind /\ q.source = r.source /\ q.account = r.account
        /\ q.to = r.to /\ q.amount = r.amount /\ q.of = r.of
        /\ q.pair = r.pair /\ q.reverses = r.reverses
        /\ q.cancelled = (r.cancelled \/ c)
    BY DEF Row
  <1>2. \A a \in Accounts : Effect(q, a) = Effect(r, a)
    BY <1>1 DEF Effect
  <1> QED
    BY <1>1, <1>2

\* A reversal, written out: it undoes what its row did.
LEMMA ReversalRow ==
  ASSUME NEW owners, NEW n \in DOMAIN rows, rows[n] \in Row(owners), n \in Nat,
         ~rows[n].cancelled, rows[n].kind \in {"income", "expense", "transfer"}
  PROVE  LET v == ReversalOf(n)
         IN  /\ v \in Row(owners)
             /\ v.source = "reversal" /\ v.pair = 0 /\ v.reverses = n /\ ~v.cancelled
             /\ \A a \in Accounts : Effect(v, a) = 0 - Effect(rows[n], a)
PROOF
  <1> DEFINE r == rows[n]
             v == ReversalOf(n)
             kind == CASE r.kind = "income" -> "expense" [] r.kind = "expense" -> "income"
                       [] OTHER -> r.kind
             debited == IF r.kind = "transfer" THEN r.to ELSE r.account
  <1>1. r \in Row(owners)
    OBVIOUS
  <1>3. kind \in Kinds /\ debited \in Accounts
    BY <1>1 DEF Row, Kinds
  <1>8. v = [r EXCEPT !.kind = kind, !.account = debited, !.to = r.account,
                      !.source = "reversal", !.pair = 0, !.reverses = n]
    BY Zenon DEF ReversalOf
  <1>9. /\ kind = IF r.kind = "income" THEN "expense" ELSE IF r.kind = "expense" THEN "income" ELSE r.kind
        /\ debited = IF r.kind = "transfer" THEN r.to ELSE r.account
    OBVIOUS
  <1> HIDE DEF kind, debited, v
  <1>2. v = [kind |-> kind, source |-> "reversal", account |-> debited, to |-> r.account,
             amount |-> r.amount, of |-> r.of, pair |-> 0, reverses |-> n,
             cancelled |-> r.cancelled]
    BY <1>1, <1>8 DEF Row
  <1>4. r.cancelled = FALSE /\ r.amount \in Int /\ r.of \in owners /\ r.account \in Accounts
        /\ r.to \in Accounts
    BY <1>1 DEF Row
  <1>5. v \in Row(owners)
    BY <1>2, <1>3, <1>4 DEF Row, Sources
  <1>6. /\ v.kind = kind /\ v.account = debited /\ v.to = r.account /\ v.amount = r.amount
        /\ v.source = "reversal" /\ v.pair = 0 /\ v.reverses = n /\ v.cancelled = r.cancelled
    BY <1>2
  <1>7. ASSUME NEW a \in Accounts PROVE Effect(v, a) = 0 - Effect(r, a)
    <2>1. CASE r.kind = "income"
      <3>1. v.kind = "expense" /\ v.account = r.account
        BY <2>1, <1>6, <1>9
      <3> QED
        BY <2>1, <3>1, <1>4, <1>6 DEF Effect
    <2>2. CASE r.kind = "expense"
      <3>1. v.kind = "income" /\ v.account = r.account
        BY <2>2, <1>6, <1>9
      <3> QED
        BY <2>2, <3>1, <1>4, <1>6 DEF Effect
    <2>3. CASE r.kind = "transfer"
      <3>1. v.kind = "transfer" /\ v.account = r.to
        BY <2>3, <1>6, <1>9
      <3> QED
        BY <2>3, <3>1, <1>4, <1>6 DEF Effect
    <2> QED
      BY <2>1, <2>2, <2>3
  <1> QED
    BY <1>4, <1>5, <1>6, <1>7 DEF v

\* The legs of a row, in the order they were written.
LEMMA LegsInOrder ==
  ASSUME NEW owners, LedgerOK(rows, owners), NEW n \in DOMAIN rows
  PROVE  /\ n \in Nat
         /\ InOrder(n) \in Seq(DOMAIN rows)
         /\ Len(InOrder(n)) \in {1, 2}
         /\ n \in LegsOf(n) /\ LegsOf(n) \subseteq DOMAIN rows
         /\ \A k \in 1..Len(InOrder(n)) : InOrder(n)[k] \in LegsOf(n)
         /\ \A m \in LegsOf(n) : \E k \in 1..Len(InOrder(n)) : InOrder(n)[k] = m
         /\ \A j, k \in 1..Len(InOrder(n)) : InOrder(n)[j] = InOrder(n)[k] => j = k
         /\ \A m \in DOMAIN rows : rows[m].pair # 0 =>
              (rows[m].pair \in LegsOf(n) <=> rows[m].pair + 1 \in LegsOf(n))
PROOF
  <1>1. rows \in Seq(Row(owners)) /\ PairsStand(rows)
    BY DEF LedgerOK
  <1>2. DOMAIN rows = 1..Len(rows) /\ Len(rows) \in Nat
    BY <1>1
  <1>3. \A m \in DOMAIN rows : rows[m].pair \in Nat
    <2>1. \A m \in DOMAIN rows : rows[m] \in Row(owners)
      BY <1>1, <1>2
    <2> QED
      BY <2>1 DEF Row
  <1>4. n \in LegsOf(n) /\ LegsOf(n) \subseteq DOMAIN rows /\ n \in Nat
    BY <1>2 DEF LegsOf
  <1>5. CASE rows[n].pair = 0
    <2>1. InOrder(n) = <<n>> /\ LegsOf(n) = {n}
      BY <1>5 DEF InOrder, LegsOf
    <2>2. ASSUME NEW m \in DOMAIN rows, rows[m].pair # 0
          PROVE  rows[m].pair # n /\ rows[m].pair + 1 # n
      BY <1>1, <1>5, <2>2 DEF PairsStand
    <2> QED
      BY <1>4, <2>1, <2>2
  <1>6. CASE rows[n].pair # 0
    <2> DEFINE p == rows[n].pair
    <2>1. /\ p \in Nat /\ p \in DOMAIN rows /\ p + 1 \in DOMAIN rows
          /\ rows[p].pair = p /\ rows[p + 1].pair = p
      BY <1>1, <1>3, <1>6 DEF PairsStand
    <2>2. InOrder(n) = <<p, p + 1>>
      BY <1>6 DEF InOrder
    <2>3. \A m \in DOMAIN rows : rows[m].pair = p <=> m \in {p, p + 1}
      <3>1. ASSUME NEW m \in DOMAIN rows, rows[m].pair = p PROVE m \in {p, p + 1}
        <4>1. p \in {m, m - 1}
          BY <1>1, <1>6, <3>1 DEF PairsStand
        <4> QED
          BY <1>2, <2>1, <4>1
      <3> QED
        BY <2>1, <3>1
    <2>4. LegsOf(n) = {p, p + 1}
      BY <1>4, <1>6, <2>1, <2>3 DEF LegsOf
    <2>5. ASSUME NEW m \in DOMAIN rows, rows[m].pair # 0
          PROVE  rows[m].pair \in LegsOf(n) <=> rows[m].pair + 1 \in LegsOf(n)
      <3>1. /\ rows[m].pair \in Nat /\ rows[m].pair \in DOMAIN rows /\ rows[m].pair + 1 \in DOMAIN rows
            /\ rows[rows[m].pair].pair = rows[m].pair /\ rows[rows[m].pair + 1].pair = rows[m].pair
        BY <1>1, <1>3, <2>5 DEF PairsStand
      <3> QED
        BY <2>1, <2>3, <2>4, <3>1
    <2>6. Len(InOrder(n)) = 2 /\ InOrder(n)[1] = p /\ InOrder(n)[2] = p + 1
          /\ InOrder(n) \in Seq(DOMAIN rows)
      BY <2>1, <2>2
    <2>7. 1..Len(InOrder(n)) = {1, 2}
      BY <2>6
    <2> QED
      BY <1>4, <2>1, <2>4, <2>5, <2>6, <2>7
  <1> QED
    BY <1>5, <1>6

------------------------------------------------------------------------------
\* What a reversal leaves of the old rows, and what it adds.
LEMMA Reversing ==
  ASSUME NEW owners, LedgerOK(rows, owners), NEW n \in DOMAIN rows, NEW manualOnly,
         NEW confirmed, CanReverse(n, manualOnly, confirmed), WriteReversal(n)
  PROVE  /\ rows' \in Seq(Row(owners))
         /\ DOMAIN rows \subseteq DOMAIN rows'
         /\ \A m \in DOMAIN rows :
              /\ rows'[m].kind = rows[m].kind /\ rows'[m].source = rows[m].source
              /\ rows'[m].amount = rows[m].amount /\ rows'[m].of = rows[m].of
              /\ rows'[m].pair = rows[m].pair /\ rows'[m].reverses = rows[m].reverses
              /\ rows'[m].cancelled = (rows[m].cancelled \/ m \in LegsOf(n))
              /\ \A a \in Accounts : Effect(rows'[m], a) = Effect(rows[m], a)
         /\ \A m \in DOMAIN rows' \ DOMAIN rows :
              \E k \in LegsOf(n) :
                /\ rows'[m].source = "reversal" /\ rows'[m].pair = 0
                /\ rows'[m].reverses = k /\ ~rows'[m].cancelled
                /\ \A a \in Accounts : Effect(rows'[m], a) = 0 - Effect(rows[k], a)
         /\ \A k \in LegsOf(n) : \E m \in DOMAIN rows' : rows'[m].reverses = k
         /\ \A m, k \in DOMAIN rows' \ DOMAIN rows : rows'[m].reverses = rows'[k].reverses => m = k
PROOF
  <1> DEFINE old == [m \in DOMAIN rows |-> [rows[m] EXCEPT !.cancelled = @ \/ m \in LegsOf(n)]]
             new == [k \in DOMAIN InOrder(n) |-> ReversalOf(InOrder(n)[k])]
  <1>1. rows \in Seq(Row(owners)) /\ PairsStand(rows) /\ Answers(rows)
    BY DEF LedgerOK
  <1>2. DOMAIN rows = 1..Len(rows) /\ Len(rows) \in Nat /\ \A m \in DOMAIN rows : rows[m] \in Row(owners)
    BY <1>1
  <1>3. rows' = old \o new
    BY DEF WriteReversal
  <1>4. \A m \in DOMAIN rows :
          /\ old[m] \in Row(owners)
          /\ old[m].kind = rows[m].kind /\ old[m].source = rows[m].source
          /\ old[m].amount = rows[m].amount /\ old[m].of = rows[m].of
          /\ old[m].pair = rows[m].pair /\ old[m].reverses = rows[m].reverses
          /\ old[m].cancelled = (rows[m].cancelled \/ m \in LegsOf(n))
          /\ \A a \in Accounts : Effect(old[m], a) = Effect(rows[m], a)
    <2> SUFFICES ASSUME NEW m \in DOMAIN rows
                 PROVE  /\ old[m] \in Row(owners)
                        /\ old[m].kind = rows[m].kind /\ old[m].source = rows[m].source
                        /\ old[m].amount = rows[m].amount /\ old[m].of = rows[m].of
                        /\ old[m].pair = rows[m].pair /\ old[m].reverses = rows[m].reverses
                        /\ old[m].cancelled = (rows[m].cancelled \/ m \in LegsOf(n))
                        /\ \A a \in Accounts : Effect(old[m], a) = Effect(rows[m], a)
      OBVIOUS
    <2>1. rows[m] \in Row(owners) /\ (m \in LegsOf(n)) \in BOOLEAN
      BY <1>2
    <2>2. old[m] = [rows[m] EXCEPT !.cancelled = @ \/ m \in LegsOf(n)]
      OBVIOUS
    <2> DEFINE q == old[m]
               r == rows[m]
               c == m \in LegsOf(n)
    <2>3. r \in Row(owners) /\ c \in BOOLEAN /\ q = [r EXCEPT !.cancelled = @ \/ c]
      BY <2>1, <2>2
    <2> HIDE DEF q, r, c, old
    <2>4. /\ q \in Row(owners)
          /\ q.kind = r.kind /\ q.source = r.source /\ q.account = r.account
          /\ q.to = r.to /\ q.amount = r.amount /\ q.of = r.of
          /\ q.pair = r.pair /\ q.reverses = r.reverses
          /\ q.cancelled = (r.cancelled \/ c)
          /\ \A a \in Accounts : Effect(q, a) = Effect(r, a)
      BY <2>3, MarkedRow
    <2> QED
      BY <2>4 DEF q, r, c
  <1>5. old \in Seq(Row(owners)) /\ Len(old) = Len(rows)
    <2>1. DOMAIN old = 1..Len(rows)
      BY <1>2
    <2>2. old \in [1..Len(rows) -> Row(owners)]
      BY <1>2, <1>4
    <2> QED
      BY <1>2, <2>1, <2>2
  <1>6. /\ InOrder(n) \in Seq(DOMAIN rows) /\ Len(InOrder(n)) \in {1, 2}
        /\ DOMAIN InOrder(n) = 1..Len(InOrder(n))
        /\ LegsOf(n) \subseteq DOMAIN rows
        /\ \A k \in 1..Len(InOrder(n)) : InOrder(n)[k] \in LegsOf(n)
        /\ \A m \in LegsOf(n) : \E k \in 1..Len(InOrder(n)) : InOrder(n)[k] = m
        /\ \A j, k \in 1..Len(InOrder(n)) : InOrder(n)[j] = InOrder(n)[k] => j = k
    <2>1. /\ InOrder(n) \in Seq(DOMAIN rows) /\ Len(InOrder(n)) \in {1, 2}
          /\ LegsOf(n) \subseteq DOMAIN rows
          /\ \A k \in 1..Len(InOrder(n)) : InOrder(n)[k] \in LegsOf(n)
          /\ \A m \in LegsOf(n) : \E k \in 1..Len(InOrder(n)) : InOrder(n)[k] = m
          /\ \A j, k \in 1..Len(InOrder(n)) : InOrder(n)[j] = InOrder(n)[k] => j = k
      BY LegsInOrder
    <2>2. DOMAIN InOrder(n) = 1..Len(InOrder(n))
      BY <2>1
    <2> QED
      BY <2>1, <2>2
  <1>7. \A k \in 1..Len(InOrder(n)) :
          /\ new[k] \in Row(owners)
          /\ new[k].source = "reversal" /\ new[k].pair = 0 /\ new[k].reverses = InOrder(n)[k]
          /\ ~new[k].cancelled
          /\ \A a \in Accounts : Effect(new[k], a) = 0 - Effect(rows[InOrder(n)[k]], a)
    <2> SUFFICES ASSUME NEW k \in 1..Len(InOrder(n))
                 PROVE  /\ new[k] \in Row(owners)
                        /\ new[k].source = "reversal" /\ new[k].pair = 0
                        /\ new[k].reverses = InOrder(n)[k]
                        /\ ~new[k].cancelled
                        /\ \A a \in Accounts :
                             Effect(new[k], a) = 0 - Effect(rows[InOrder(n)[k]], a)
      OBVIOUS
    <2> DEFINE l == InOrder(n)[k]
    <2>1. l \in LegsOf(n) /\ l \in DOMAIN rows /\ l \in Nat /\ rows[l] \in Row(owners)
      BY <1>2, <1>6
    <2>2. ~rows[l].cancelled /\ rows[l].kind \in {"income", "expense", "transfer"}
      BY <2>1 DEF CanReverse, NotCancelled, Reversible
    <2>3. new[k] = ReversalOf(l)
      BY <1>6
    <2> HIDE DEF new, l
    <2>4. /\ ReversalOf(l) \in Row(owners)
          /\ ReversalOf(l).source = "reversal" /\ ReversalOf(l).pair = 0
          /\ ReversalOf(l).reverses = l /\ ~ReversalOf(l).cancelled
          /\ \A a \in Accounts : Effect(ReversalOf(l), a) = 0 - Effect(rows[l], a)
      BY <2>1, <2>2, ReversalRow
    <2> QED
      BY <2>3, <2>4 DEF l
  <1>8. new \in Seq(Row(owners)) /\ Len(new) = Len(InOrder(n))
    BY <1>6, <1>7
  <1> HIDE DEF old, new
  <1>9. /\ rows' \in Seq(Row(owners))
        /\ DOMAIN rows' = 1..(Len(rows) + Len(new)) /\ Len(new) \in Nat
        /\ \A m \in 1..Len(rows) : rows'[m] = old[m]
        /\ \A k \in 1..Len(new) : rows'[Len(rows) + k] = new[k]
    <2> DEFINE S == Row(owners)
    <2>2. old \in Seq(S) /\ new \in Seq(S)
      BY <1>5, <1>8
    <2> HIDE DEF S
    <2>1. /\ old \o new \in Seq(S)
          /\ Len(old) \in Nat /\ Len(new) \in Nat
          /\ DOMAIN old = 1..Len(old) /\ DOMAIN new = 1..Len(new)
          /\ Len(old \o new) = Len(old) + Len(new)
          /\ DOMAIN (old \o new) = 1..(Len(old) + Len(new))
          /\ \A m \in 1..Len(old) : (old \o new)[m] = old[m]
          /\ \A k \in 1..Len(new) : (old \o new)[Len(old) + k] = new[k]
      BY <2>2, Concatenated
    <2> QED
      BY <1>3, <1>5, <2>1 DEF S
  <1>10. ASSUME NEW m \in DOMAIN rows' \ DOMAIN rows
         PROVE  /\ m - Len(rows) \in 1..Len(new)
                /\ rows'[m] = new[m - Len(rows)]
    <2>1. m - Len(rows) \in 1..Len(new) /\ m = Len(rows) + (m - Len(rows))
      BY <1>2, <1>9
    <2> QED
      BY <1>9, <2>1
  <1>11. ASSUME NEW m \in DOMAIN rows' \ DOMAIN rows
         PROVE  \E k \in LegsOf(n) :
                /\ rows'[m].source = "reversal" /\ rows'[m].pair = 0
                /\ rows'[m].reverses = k /\ ~rows'[m].cancelled
                /\ \A a \in Accounts : Effect(rows'[m], a) = 0 - Effect(rows[k], a)
    BY <1>6, <1>7, <1>8, <1>10
  <1>12. ASSUME NEW k \in LegsOf(n) PROVE \E m \in DOMAIN rows' : rows'[m].reverses = k
    <2>1. PICK j \in 1..Len(new) : InOrder(n)[j] = k
      BY <1>6, <1>8
    <2>2. Len(rows) + j \in DOMAIN rows' /\ rows'[Len(rows) + j].reverses = k
      BY <1>2, <1>7, <1>8, <1>9, <2>1
    <2> QED
      BY <2>2
  <1>13. ASSUME NEW m \in DOMAIN rows' \ DOMAIN rows, NEW k \in DOMAIN rows' \ DOMAIN rows,
                rows'[m].reverses = rows'[k].reverses
         PROVE  m = k
    <2>1. m - Len(rows) = k - Len(rows)
      BY <1>6, <1>7, <1>8, <1>10, <1>13
    <2> QED
      BY <1>2, <1>9, <2>1
  <1>14. DOMAIN rows \subseteq DOMAIN rows'
    BY <1>2, <1>9
  <1>15. ASSUME NEW m \in DOMAIN rows
         PROVE  /\ rows'[m].kind = rows[m].kind /\ rows'[m].source = rows[m].source
                /\ rows'[m].amount = rows[m].amount /\ rows'[m].of = rows[m].of
                /\ rows'[m].pair = rows[m].pair /\ rows'[m].reverses = rows[m].reverses
                /\ rows'[m].cancelled = (rows[m].cancelled \/ m \in LegsOf(n))
                /\ \A a \in Accounts : Effect(rows'[m], a) = Effect(rows[m], a)
    <2>1. rows'[m] = old[m]
      BY <1>2, <1>9
    <2> QED
      BY <1>4, <2>1
  <1> QED
    BY <1>9, <1>11, <1>12, <1>13, <1>14, <1>15

\* Reversing a row keeps the ledger in order.
LEMMA ReversingKeeps ==
  ASSUME NEW owners, LedgerOK(rows, owners), NEW n \in DOMAIN rows, NEW manualOnly,
         NEW confirmed, CanReverse(n, manualOnly, confirmed), WriteReversal(n)
  PROVE  LedgerOK(rows', owners)
PROOF
  <1>1. rows \in Seq(Row(owners)) /\ PairsStand(rows) /\ Answers(rows)
    BY DEF LedgerOK
  <1>2. /\ rows' \in Seq(Row(owners))
        /\ DOMAIN rows \subseteq DOMAIN rows'
        /\ \A m \in DOMAIN rows :
              /\ rows'[m].source = rows[m].source
              /\ rows'[m].pair = rows[m].pair /\ rows'[m].reverses = rows[m].reverses
              /\ rows'[m].cancelled = (rows[m].cancelled \/ m \in LegsOf(n))
              /\ \A a \in Accounts : Effect(rows'[m], a) = Effect(rows[m], a)
        /\ \A m \in DOMAIN rows' \ DOMAIN rows :
              \E k \in LegsOf(n) :
                /\ rows'[m].source = "reversal" /\ rows'[m].pair = 0
                /\ rows'[m].reverses = k /\ ~rows'[m].cancelled
                /\ \A a \in Accounts : Effect(rows'[m], a) = 0 - Effect(rows[k], a)
        /\ \A k \in LegsOf(n) : \E m \in DOMAIN rows' : rows'[m].reverses = k
        /\ \A m, k \in DOMAIN rows' \ DOMAIN rows : rows'[m].reverses = rows'[k].reverses => m = k
    BY Reversing
  <1>3. /\ n \in LegsOf(n) /\ LegsOf(n) \subseteq DOMAIN rows
        /\ \A m \in DOMAIN rows : rows[m].pair # 0 =>
              (rows[m].pair \in LegsOf(n) <=> rows[m].pair + 1 \in LegsOf(n))
        /\ \A k \in LegsOf(n) : ~rows[k].cancelled
    BY LegsInOrder DEF CanReverse, NotCancelled
  <1>4. \A m \in DOMAIN rows : m \in Nat \ {0}
    BY <1>1
  <1>5. PairsStand(rows')
    <2> SUFFICES ASSUME NEW m \in DOMAIN rows', rows'[m].pair # 0
                 PROVE  /\ rows'[m].pair \in {m, m - 1}
                        /\ rows'[m].pair \in DOMAIN rows' /\ rows'[m].pair + 1 \in DOMAIN rows'
                        /\ rows'[rows'[m].pair].pair = rows'[m].pair
                        /\ rows'[rows'[m].pair + 1].pair = rows'[m].pair
                        /\ rows'[rows'[m].pair].source = "external"
                        /\ rows'[rows'[m].pair].cancelled = rows'[rows'[m].pair + 1].cancelled
      BY DEF PairsStand
    <2>1. m \in DOMAIN rows /\ rows'[m].pair = rows[m].pair /\ rows[m].pair # 0
      BY <1>2
    <2> DEFINE p == rows[m].pair
    <2>2. /\ p \in {m, m - 1} /\ p \in DOMAIN rows /\ p + 1 \in DOMAIN rows
          /\ rows[p].pair = p /\ rows[p + 1].pair = p /\ rows[p].source = "external"
          /\ rows[p].cancelled = rows[p + 1].cancelled
      BY <1>1, <2>1 DEF PairsStand
    <2>3. p \in LegsOf(n) <=> p + 1 \in LegsOf(n)
      BY <1>3, <2>1
    <2>4. rows'[p].cancelled = rows'[p + 1].cancelled
      BY <1>2, <2>2, <2>3
    <2> QED
      BY <1>2, <2>1, <2>2, <2>4
  <1>6. Answers(rows')
    <2>1. ASSUME NEW m \in DOMAIN rows' PROVE rows'[m].reverses = 0 <=> rows'[m].source # "reversal"
      BY <1>1, <1>2, <1>3, <1>4 DEF Answers
    <2>2. ASSUME NEW m \in DOMAIN rows', rows'[m].reverses # 0
          PROVE  /\ rows'[m].reverses \in DOMAIN rows'
                 /\ rows'[rows'[m].reverses].cancelled
                 /\ rows'[m].pair = 0
                 /\ \A a \in Accounts : Effect(rows'[m], a) = 0 - Effect(rows'[rows'[m].reverses], a)
      <3>1. CASE m \in DOMAIN rows
        <4> DEFINE k == rows[m].reverses
        <4>1. rows'[m].reverses = k /\ rows'[m].pair = rows[m].pair
              /\ \A a \in Accounts : Effect(rows'[m], a) = Effect(rows[m], a)
          BY <1>2, <3>1
        <4>2. /\ k \in DOMAIN rows /\ rows[k].cancelled /\ rows[m].pair = 0
              /\ \A a \in Accounts : Effect(rows[m], a) = 0 - Effect(rows[k], a)
          BY <1>1, <2>2, <3>1, <4>1 DEF Answers
        <4>3. rows'[k].cancelled /\ k \in DOMAIN rows'
              /\ \A a \in Accounts : Effect(rows'[k], a) = Effect(rows[k], a)
          BY <1>2, <4>2
        <4> HIDE DEF k
        <4> QED
          BY <4>1, <4>2, <4>3
      <3>2. CASE m \notin DOMAIN rows
        <4>1. PICK k \in LegsOf(n) :
                /\ rows'[m].pair = 0 /\ rows'[m].reverses = k
                /\ \A a \in Accounts : Effect(rows'[m], a) = 0 - Effect(rows[k], a)
          BY <1>2, <3>2
        <4>2. k \in DOMAIN rows /\ rows'[k].cancelled
              /\ \A a \in Accounts : Effect(rows'[k], a) = Effect(rows[k], a)
          BY <1>2, <1>3
        <4> QED
          BY <1>2, <4>1, <4>2
      <3> QED
        BY <3>1, <3>2
    <2>3. ASSUME NEW m \in DOMAIN rows', NEW k \in DOMAIN rows',
                 rows'[m].reverses = rows'[k].reverses, rows'[m].reverses # 0
          PROVE  m = k
      <3>1. ASSUME NEW i \in DOMAIN rows, NEW j \in DOMAIN rows' \ DOMAIN rows,
                   rows'[i].reverses = rows'[j].reverses
            PROVE  FALSE
        <4>1. rows[i].reverses \in LegsOf(n)
          BY <1>2, <3>1
        <4>2. rows[i].reverses # 0
          BY <1>3, <1>4, <4>1
        <4>3. rows[rows[i].reverses].cancelled
          BY <1>1, <4>2 DEF Answers
        <4> QED
          BY <1>3, <4>1, <4>3
      <3>2. CASE m \in DOMAIN rows /\ k \in DOMAIN rows
        BY <1>1, <1>2, <2>3, <3>2 DEF Answers
      <3>3. CASE m \notin DOMAIN rows /\ k \notin DOMAIN rows
        BY <1>2, <2>3, <3>3
      <3> QED
        BY <2>3, <3>1, <3>2, <3>3
    <2>4. ASSUME NEW k \in DOMAIN rows', rows'[k].cancelled
          PROVE  \E m \in DOMAIN rows' : rows'[m].reverses = k
      <3>1. k \in DOMAIN rows
        BY <1>2, <2>4
      <3>2. CASE k \in LegsOf(n)
        BY <1>2, <3>2
      <3>3. CASE k \notin LegsOf(n)
        <4>1. rows[k].cancelled
          BY <1>2, <2>4, <3>1, <3>3
        <4>2. PICK m \in DOMAIN rows : rows[m].reverses = k
          BY <1>1, <3>1, <4>1 DEF Answers
        <4> QED
          BY <1>2, <4>2
      <3> QED
        BY <3>2, <3>3
    <2> QED
      BY <2>1, <2>2, <2>3, <2>4 DEF Answers
  <1> QED
    BY <1>2, <1>5, <1>6 DEF LedgerOK

\* A ledger in order has every cancelled row answered exactly once.
LEMMA OrderedAnswers ==
  ASSUME NEW owners, LedgerOK(rows, owners)
  PROVE  ReversedOnce
PROOF
  <1>1. rows \in Seq(Row(owners)) /\ PairsStand(rows) /\ Answers(rows)
    BY DEF LedgerOK
  <1>2. \A m \in DOMAIN rows : m \in Nat \ {0}
    BY <1>1
  <1> SUFFICES ASSUME NEW n \in DOMAIN rows
               PROVE  LET answers == {m \in DOMAIN rows : rows[m].reverses = n}
                      IN  /\ rows[n].cancelled => \E m \in answers : answers = {m}
                          /\ ~rows[n].cancelled => answers = {}
                          /\ \A m \in answers : \A a \in Accounts :
                               Effect(rows[m], a) = 0 - Effect(rows[n], a)
                          /\ \A m \in LegsOf(n) : rows[m].cancelled = rows[n].cancelled
    BY DEF ReversedOnce
  <1> DEFINE answers == {m \in DOMAIN rows : rows[m].reverses = n}
  <1>3. \A m \in answers : m \in DOMAIN rows /\ rows[m].reverses = n /\ rows[m].reverses # 0
    BY <1>2
  <1>4. \A m, k \in answers : m = k
    BY <1>1, <1>3 DEF Answers
  <1>5. rows[n].cancelled => \E m \in answers : answers = {m}
    <2> SUFFICES ASSUME rows[n].cancelled PROVE \E m \in answers : answers = {m}
      OBVIOUS
    <2>1. PICK m \in DOMAIN rows : rows[m].reverses = n
      BY <1>1 DEF Answers
    <2>2. m \in answers
      BY <2>1
    <2> QED
      BY <1>4, <2>2
  <1>6. ~rows[n].cancelled => answers = {}
    BY <1>1, <1>3 DEF Answers
  <1>7. \A m \in answers : \A a \in Accounts : Effect(rows[m], a) = 0 - Effect(rows[n], a)
    BY <1>1, <1>3 DEF Answers
  <1>8. ASSUME NEW m \in LegsOf(n) PROVE rows[m].cancelled = rows[n].cancelled
    <2>1. m \in DOMAIN rows /\ (m = n \/ (rows[n].pair # 0 /\ rows[m].pair = rows[n].pair))
      BY DEF LegsOf
    <2>2. CASE rows[n].pair # 0 /\ rows[m].pair = rows[n].pair
      <3> DEFINE p == rows[n].pair
      <3>1. p \in {n, n - 1} /\ p \in {m, m - 1} /\ rows[p].cancelled = rows[p + 1].cancelled
        BY <1>1, <2>1, <2>2 DEF PairsStand
      <3>2. p \in Nat /\ (n = p \/ n = p + 1) /\ (m = p \/ m = p + 1)
        BY <1>2, <2>1, <3>1
      <3> QED
        BY <3>1, <3>2
    <2> QED
      BY <2>1, <2>2
  <1> QED
    BY <1>5, <1>6, <1>7, <1>8

------------------------------------------------------------------------------
\* What the handlers write.
LEMMA LegIsARow ==
  ASSUME NEW owners, NEW kind \in Kinds, NEW source \in Sources \ {"reversal"},
         NEW on \in Accounts, NEW amount \in Int, NEW of \in owners
  PROVE  /\ Leg(kind, source, on, amount, of) \in Row(owners)
         /\ Fresh(Leg(kind, source, on, amount, of))
         /\ Leg(kind, source, on, amount, of).pair = 0
         /\ Leg(kind, source, on, amount, of).source = source
         /\ Leg(kind, source, on, amount, of).amount = amount
         /\ Leg(kind, source, on, amount, of).of = of
  BY DEF Leg, Row, Fresh

LEMMA PairedLeg ==
  ASSUME NEW owners, NEW r \in Row(owners), Fresh(r), NEW p \in Nat, NEW q,
         q = [r EXCEPT !.pair = p]
  PROVE  /\ q \in Row(owners) /\ Fresh(q) /\ q.pair = p
         /\ q.source = r.source /\ q.amount = r.amount /\ q.of = r.of
  BY DEF Row, Fresh

LEMMA MovedLeg ==
  ASSUME NEW owners, NEW r \in Row(owners), Fresh(r), r.pair = 0, NEW b \in Accounts, NEW q,
         q = [r EXCEPT !.to = b]
  PROVE  q \in Row(owners) /\ Fresh(q) /\ q.pair = 0 /\ q.source = r.source
  BY DEF Row, Fresh

\* Old rows stay as they are; the new ones come after them.
LEMMA Appended ==
  ASSUME NEW owners, LedgerOK(rows, owners), NEW new \in Seq(Row(owners)), Writable(rows, new),
         Write(new)
  PROVE  /\ LedgerOK(rows', owners)
         /\ DOMAIN rows = 1..Len(rows) /\ Len(rows) \in Nat /\ Len(new) \in {1, 2}
         /\ DOMAIN rows' = 1..(Len(rows) + Len(new))
         /\ \A m \in DOMAIN rows : m \in DOMAIN rows' /\ rows'[m] = rows[m]
         /\ \A k \in 1..Len(new) : rows'[Len(rows) + k] = new[k]
         /\ \A m \in DOMAIN rows' \ DOMAIN rows : \E k \in 1..Len(new) : m = Len(rows) + k
PROOF
  <1> DEFINE S == Row(owners)
  <1>1. rows' = rows \o new
    BY DEF Write
  <1>2. LedgerOK(rows', owners)
    BY <1>1, WritingKeeps
  <1>3. rows \in Seq(S) /\ new \in Seq(S)
    BY DEF LedgerOK
  <1> HIDE DEF S
  <1>4. /\ Len(rows) \in Nat /\ Len(new) \in Nat
        /\ DOMAIN rows = 1..Len(rows)
        /\ DOMAIN (rows \o new) = 1..(Len(rows) + Len(new))
        /\ \A m \in 1..Len(rows) : (rows \o new)[m] = rows[m]
        /\ \A k \in 1..Len(new) : (rows \o new)[Len(rows) + k] = new[k]
    BY <1>3, Concatenated
  <1>5. Len(new) \in {1, 2}
    BY DEF Writable
  <1>6. ASSUME NEW m \in DOMAIN rows' \ DOMAIN rows PROVE \E k \in 1..Len(new) : m = Len(rows) + k
    <2>1. m - Len(rows) \in 1..Len(new) /\ m = Len(rows) + (m - Len(rows))
      BY <1>1, <1>4
    <2> QED
      BY <2>1
  <1> QED
    BY <1>1, <1>2, <1>4, <1>5, <1>6

\* An expense adds one row that stands for it, and at most a capital income beside it.
LEMMA ExpenseWritten ==
  ASSUME NEW owners, LedgerOK(rows, owners), NEW source \in Sources \ {"reversal"},
         NEW a \in Accounts, NEW x \in Int, NEW of \in owners, Write(Expense(source, a, x, of))
  PROVE  /\ LedgerOK(rows', owners)
         /\ DOMAIN rows \subseteq DOMAIN rows' /\ \A m \in DOMAIN rows : rows'[m] = rows[m]
         /\ ExpenseRow(a) \in DOMAIN rows' \ DOMAIN rows
         /\ rows'[ExpenseRow(a)].source = source /\ rows'[ExpenseRow(a)].amount = x
         /\ rows'[ExpenseRow(a)].of = of /\ ~rows'[ExpenseRow(a)].cancelled
         /\ \A m \in DOMAIN rows' : m \in DOMAIN rows \/ m = ExpenseRow(a) \/ rows'[m].source = "external"
PROOF
  <1> DEFINE n == Len(rows)
  <1>1. rows \in Seq(Row(owners)) /\ n \in Nat
    BY DEF LedgerOK
  <1>2. "expense" \in Kinds /\ "income" \in Kinds /\ "external" \in Sources \ {"reversal"}
    BY DEF Kinds, Sources
  <1> DEFINE e == Leg("expense", source, a, x, of)
             c == Leg("income", "external", outside, x, of)
  <1>3. /\ e \in Row(owners) /\ Fresh(e) /\ e.pair = 0 /\ e.source = source
        /\ e.amount = x /\ e.of = of
    BY <1>2, LegIsARow
  <1>4. c \in Row(owners) /\ Fresh(c) /\ c.source = "external"
    <2>1. outside \in Accounts
      BY LedgerAssumption
    <2>2. "income" \in Kinds /\ "external" \in Sources \ {"reversal"} /\ x \in Int /\ of \in owners
      BY <1>2
    <2>3. c \in Row(owners) /\ Fresh(c) /\ c.source = "external"
      BY <2>1, <2>2 DEF Leg, Row, Fresh
    <2> QED
      BY <2>3
  <1> DEFINE new == Expense(source, a, x, of)
  <1>5. CASE a # outside
    <2>1. new = <<e>> /\ ExpenseRow(a) = n + 1
      BY <1>5 DEF Expense, ExpenseAfter, ExpenseRow, Width
    <2> HIDE DEF e, new
    <2>2. new \in Seq(Row(owners)) /\ Len(new) = 1 /\ new[1] = e
      BY <1>3, <2>1
    <2>3. Writable(rows, new)
      BY <1>3, <2>2 DEF Writable
    <2>4. Write(new)
      BY DEF new
    <2>5. /\ LedgerOK(rows', owners)
          /\ DOMAIN rows = 1..n
          /\ DOMAIN rows' = 1..(n + Len(new))
          /\ \A m \in DOMAIN rows : m \in DOMAIN rows' /\ rows'[m] = rows[m]
          /\ \A k \in 1..Len(new) : rows'[n + k] = new[k]
      BY <2>2, <2>3, <2>4, Appended
    <2>6. /\ rows'[n + 1] = e
          /\ n + 1 \in DOMAIN rows' \ DOMAIN rows
          /\ \A m \in DOMAIN rows' : m \in DOMAIN rows \/ m = n + 1
      BY <1>1, <2>2, <2>5
    <2> QED
      BY <1>3, <2>1, <2>5, <2>6 DEF Fresh
  <1>6. CASE a = outside
    <2> DEFINE c1 == [c EXCEPT !.pair = n + 1]
               e1 == [e EXCEPT !.pair = n + 1]
    <2>0. n + 1 \in Nat
      BY <1>1
    <2>a. c1 \in Row(owners) /\ Fresh(c1) /\ c1.pair = n + 1 /\ c1.source = "external"
      BY <1>4, <2>0, PairedLeg
    <2>b. /\ e1 \in Row(owners) /\ Fresh(e1) /\ e1.pair = n + 1 /\ e1.source = source
          /\ e1.amount = x /\ e1.of = of
      BY <1>3, <2>0, PairedLeg
    <2>1. new = <<c1, e1>> /\ ExpenseRow(a) = n + 2
      BY <1>6 DEF Expense, ExpenseAfter, ExpenseRow, Width
    <2> HIDE DEF c1, e1, new
    <2>2. new \in Seq(Row(owners)) /\ Len(new) = 2 /\ new[1] = c1 /\ new[2] = e1
      BY <2>a, <2>b, <2>1
    <2>3. Writable(rows, new)
      BY <2>a, <2>b, <2>2 DEF Writable
    <2>4. Write(new)
      BY DEF new
    <2>5. /\ LedgerOK(rows', owners)
          /\ DOMAIN rows = 1..n
          /\ DOMAIN rows' = 1..(n + Len(new))
          /\ \A m \in DOMAIN rows : m \in DOMAIN rows' /\ rows'[m] = rows[m]
          /\ \A k \in 1..Len(new) : rows'[n + k] = new[k]
      BY <2>2, <2>3, <2>4, Appended
    <2>6. /\ rows'[n + 1] = c1 /\ rows'[n + 2] = e1
          /\ n + 2 \in DOMAIN rows' \ DOMAIN rows
          /\ \A m \in DOMAIN rows' : m \in DOMAIN rows \/ m = n + 1 \/ m = n + 2
      BY <1>1, <2>2, <2>5
    <2> QED
      BY <2>a, <2>b, <2>1, <2>5, <2>6 DEF Fresh
  <1> QED
    BY <1>5, <1>6

\* A row of its own is added, manual and fresh.
LEMMA OneRowAdded ==
  ASSUME NEW owners, LedgerOK(rows, owners), NEW r \in Row(owners), Fresh(r), r.pair = 0,
         Write(<<r>>)
  PROVE  /\ LedgerOK(rows', owners)
         /\ DOMAIN rows \subseteq DOMAIN rows' /\ \A m \in DOMAIN rows : rows'[m] = rows[m]
         /\ \A m \in DOMAIN rows' \ DOMAIN rows : rows'[m] = r
PROOF
  <1> DEFINE new == <<r>>
  <1>1. new \in Seq(Row(owners)) /\ Len(new) = 1 /\ new[1] = r
    OBVIOUS
  <1>2. Write(new)
    OBVIOUS
  <1> HIDE DEF new
  <1>3. Writable(rows, new)
    BY <1>1 DEF Writable
  <1>4. /\ LedgerOK(rows', owners)
        /\ \A m \in DOMAIN rows : m \in DOMAIN rows' /\ rows'[m] = rows[m]
        /\ \A k \in 1..Len(new) : rows'[Len(rows) + k] = new[k]
        /\ \A m \in DOMAIN rows' \ DOMAIN rows : \E k \in 1..Len(new) : m = Len(rows) + k
    BY <1>1, <1>2, <1>3, Appended
  <1> QED
    BY <1>1, <1>4

\* What the Moliya page may do to the rows of others: nothing.
PageStep(owners) ==
  /\ LedgerOK(rows', owners)
  /\ DOMAIN rows \subseteq DOMAIN rows'
  /\ \A m \in DOMAIN rows :
       /\ rows'[m].source = rows[m].source /\ rows'[m].amount = rows[m].amount
       /\ rows'[m].of = rows[m].of
       /\ rows[m].source \notin {"manual", "external"} => rows'[m].cancelled = rows[m].cancelled
  /\ \A m \in DOMAIN rows' \ DOMAIN rows : rows'[m].source \in {"manual", "external", "reversal"}

LEMMA PageKeeps ==
  ASSUME NEW owners, LedgerOK(rows, owners), "none" \in owners, FinanceNext
  PROVE  PageStep(owners)
PROOF
  <1>1. /\ "expense" \in Kinds /\ "income" \in Kinds /\ "transfer" \in Kinds
        /\ "manual" \in Sources \ {"reversal"}
    BY DEF Kinds, Sources
  <1>2. ShopAccounts \subseteq Accounts /\ Sums \subseteq Int
    BY LedgerAssumption DEF ShopAccounts
  <1>3. CASE Income
    <2>1. PICK a \in ShopAccounts, x \in Sums : Write(<<Leg("income", "manual", a, x, "none")>>)
      BY <1>3 DEF Income
    <2> DEFINE r == Leg("income", "manual", a, x, "none")
    <2>2. a \in Accounts /\ x \in Int
      BY <1>2
    <2>3. r \in Row(owners) /\ Fresh(r) /\ r.pair = 0 /\ r.source = "manual"
      BY <1>1, <2>2, LegIsARow
    <2>4. Write(<<r>>)
      BY <2>1
    <2> HIDE DEF r
    <2>5. /\ LedgerOK(rows', owners)
          /\ DOMAIN rows \subseteq DOMAIN rows' /\ \A m \in DOMAIN rows : rows'[m] = rows[m]
          /\ \A m \in DOMAIN rows' \ DOMAIN rows : rows'[m] = r
      BY <2>3, <2>4, OneRowAdded
    <2> QED
      BY <2>3, <2>5 DEF PageStep
  <1>4. CASE SpendManually
    <2>1. PICK a \in Accounts, x \in Sums : Write(Expense("manual", a, x, "none"))
      BY <1>4 DEF SpendManually
    <2>2. x \in Int
      BY <1>2
    <2>4. "none" \in owners /\ "manual" \in Sources \ {"reversal"}
      BY <1>1
    <2>3. /\ LedgerOK(rows', owners)
          /\ DOMAIN rows \subseteq DOMAIN rows' /\ \A m \in DOMAIN rows : rows'[m] = rows[m]
          /\ rows'[ExpenseRow(a)].source = "manual"
          /\ \A m \in DOMAIN rows' : m \in DOMAIN rows \/ m = ExpenseRow(a)
                                     \/ rows'[m].source = "external"
      BY <2>1, <2>2, <2>4, ExpenseWritten
    <2> QED
      BY <2>3 DEF PageStep
  <1>5. CASE Transfer
    <2>1. PICK a \in ShopAccounts, b \in ShopAccounts, x \in Sums :
            Write(<<[Leg("transfer", "manual", a, x, "none") EXCEPT !.to = b]>>)
      BY <1>5 DEF Transfer
    <2> DEFINE r == Leg("transfer", "manual", a, x, "none")
               q == [r EXCEPT !.to = b]
    <2>2. a \in Accounts /\ b \in Accounts /\ x \in Int
      BY <1>2
    <2>3. r \in Row(owners) /\ Fresh(r) /\ r.pair = 0 /\ r.source = "manual"
      BY <1>1, <2>2 DEF Leg, Row, Fresh
    <2>4. Write(<<q>>)
      BY <2>1
    <2>5. q = [r EXCEPT !.to = b]
      OBVIOUS
    <2> HIDE DEF r, q
    <2>6. q \in Row(owners) /\ Fresh(q) /\ q.pair = 0 /\ q.source = "manual"
      BY <2>2, <2>3, <2>5, MovedLeg
    <2>7. /\ LedgerOK(rows', owners)
          /\ DOMAIN rows \subseteq DOMAIN rows' /\ \A m \in DOMAIN rows : rows'[m] = rows[m]
          /\ \A m \in DOMAIN rows' \ DOMAIN rows : rows'[m] = q
      BY <2>4, <2>6, OneRowAdded
    <2> QED
      BY <2>6, <2>7 DEF PageStep
  <1>6. CASE CancelManually
    <2>1. PICK n \in DOMAIN rows, confirmed \in BOOLEAN :
            CanReverse(n, TRUE, confirmed) /\ WriteReversal(n)
      BY <1>6 DEF CancelManually
    <2>2. LedgerOK(rows', owners)
      BY <2>1, ReversingKeeps
    <2>3. /\ DOMAIN rows \subseteq DOMAIN rows'
          /\ \A m \in DOMAIN rows :
               /\ rows'[m].source = rows[m].source
               /\ rows'[m].amount = rows[m].amount /\ rows'[m].of = rows[m].of
               /\ rows'[m].cancelled = (rows[m].cancelled \/ m \in LegsOf(n))
          /\ \A m \in DOMAIN rows' \ DOMAIN rows : rows'[m].source = "reversal"
      BY <2>1, Reversing
    <2>4. \A m \in LegsOf(n) : rows[m].source \in {"manual", "external"}
      BY <2>1 DEF CanReverse, Reversible
    <2>5. rows \in Seq(Row(owners))
      BY DEF LedgerOK
    <2>6. ASSUME NEW m \in DOMAIN rows, rows[m].source \notin {"manual", "external"}
          PROVE  rows'[m].cancelled = rows[m].cancelled
      <3>1. m \notin LegsOf(n)
        BY <2>4, <2>6
      <3>2. rows[m] \in Row(owners)
        BY <2>5
      <3>3. rows[m].cancelled \in BOOLEAN
        BY <3>2 DEF Row
      <3> QED
        BY <2>3, <3>1, <3>3
    <2> QED
      BY <2>2, <2>3, <2>6 DEF PageStep
  <1> QED
    BY <1>3, <1>4, <1>5, <1>6 DEF FinanceNext

\* Rows after n others that stand by themselves or in pairs among themselves.
LegsStand(n, new) ==
  \A k \in DOMAIN new :
    /\ Fresh(new[k])
    /\ new[k].pair # 0 =>
         \E j \in DOMAIN new :
           /\ new[k].pair = n + j /\ k \in {j, j + 1} /\ j + 1 \in DOMAIN new
           /\ new[j].pair = n + j /\ new[j + 1].pair = n + j /\ new[j].source = "external"

LEMMA WritingMany ==
  ASSUME NEW owners, NEW R, LedgerOK(R, owners),
         NEW new \in Seq(Row(owners)), LegsStand(Len(R), new)
  PROVE  LedgerOK(R \o new, owners)
PROOF
  <1> DEFINE Q == R \o new
             n == Len(R)
  <1>1. R \in Seq(Row(owners)) /\ PairsStand(R) /\ Answers(R)
    BY DEF LedgerOK
  <1>2. /\ Q \in Seq(Row(owners))
        /\ n \in Nat /\ Len(new) \in Nat
        /\ DOMAIN R = 1..n /\ DOMAIN new = 1..Len(new)
        /\ DOMAIN Q = 1..(n + Len(new))
        /\ \A m \in 1..n : Q[m] = R[m]
        /\ \A k \in 1..Len(new) : Q[n + k] = new[k]
    BY <1>1, Concatenated
  <1> HIDE DEF Q
  <1>3. \A m \in DOMAIN R : m \in DOMAIN Q /\ Q[m] = R[m]
    BY <1>2
  <1>4. \A m \in DOMAIN Q \ DOMAIN R : \E k \in DOMAIN new : m = n + k /\ Q[m] = new[k]
    <2> TAKE m \in DOMAIN Q \ DOMAIN R
    <2> DEFINE k == m - n
    <2>1. k \in DOMAIN new /\ m = n + k
      BY <1>2
    <2>2. Q[m] = new[k]
      BY <2>1, <1>2
    <2> QED
      BY <2>1, <2>2
  <1>5. \A m \in DOMAIN Q \ DOMAIN R : Fresh(Q[m])
    BY <1>4 DEF LegsStand
  <1>6. PairsStand(Q)
    <2> SUFFICES ASSUME NEW m \in DOMAIN Q, Q[m].pair # 0
                 PROVE  /\ Q[m].pair \in {m, m - 1} /\ Q[m].pair \in DOMAIN Q /\ Q[m].pair + 1 \in DOMAIN Q
                        /\ Q[Q[m].pair].pair = Q[m].pair /\ Q[Q[m].pair + 1].pair = Q[m].pair
                        /\ Q[Q[m].pair].source = "external"
                        /\ Q[Q[m].pair].cancelled = Q[Q[m].pair + 1].cancelled
      BY DEF PairsStand
    <2>1. CASE m \in DOMAIN R
      BY <2>1, <1>1, <1>3 DEF PairsStand
    <2>2. CASE m \notin DOMAIN R
      <3>1. PICK k \in DOMAIN new : m = n + k /\ Q[m] = new[k]
        BY <2>2, <1>4
      <3>2. PICK j \in DOMAIN new :
              /\ new[k].pair = n + j /\ k \in {j, j + 1} /\ j + 1 \in DOMAIN new
              /\ new[j].pair = n + j /\ new[j + 1].pair = n + j /\ new[j].source = "external"
        BY <3>1 DEF LegsStand
      <3> DEFINE p == n + j
      <3>3. p \in Nat /\ p \in DOMAIN Q /\ p + 1 \in DOMAIN Q /\ Q[p] = new[j] /\ Q[p + 1] = new[j + 1]
        BY <3>2, <1>2
      <3>8. j \in Nat /\ (k = j \/ k = j + 1) /\ m = n + k
        BY <3>1, <3>2, <1>2
      <3>4. m = p \/ m - 1 = p
        BY <3>8, <1>2
      <3>5. new[j].cancelled = FALSE /\ new[j + 1].cancelled = FALSE
        <4>1. new[j] \in Row(owners) /\ new[j + 1] \in Row(owners)
          BY <3>2, <1>2
        <4>2. ~new[j].cancelled /\ ~new[j + 1].cancelled
          BY <3>2 DEF LegsStand, Fresh
        <4> QED
          BY <4>1, <4>2 DEF Row
      <3>6. Q[m].pair = p
        BY <3>1, <3>2
      <3> HIDE DEF p
      <3>7. /\ Q[p].pair = p /\ Q[p + 1].pair = p /\ Q[p].source = "external"
            /\ Q[p].cancelled = Q[p + 1].cancelled
        BY <3>2, <3>3, <3>5 DEF p
      <3> QED
        BY <3>3, <3>4, <3>6, <3>7
    <2> QED
      BY <2>1, <2>2
  <1>7. Answers(Q)
    <2>1. \A m \in DOMAIN Q : Q[m].reverses = 0 <=> Q[m].source # "reversal"
      BY <1>1, <1>3, <1>5 DEF Answers, Fresh
    <2>2. \A m \in DOMAIN Q : Q[m].reverses # 0 => m \in DOMAIN R
      BY <1>5 DEF Fresh
    <2>3. ASSUME NEW m \in DOMAIN Q, Q[m].reverses # 0
          PROVE  /\ Q[m].reverses \in DOMAIN Q
                 /\ Q[Q[m].reverses].cancelled
                 /\ Q[m].pair = 0
                 /\ \A a \in Accounts : Effect(Q[m], a) = 0 - Effect(Q[Q[m].reverses], a)
      BY <2>2, <2>3, <1>1, <1>3 DEF Answers
    <2>4. \A m, k \in DOMAIN Q : Q[m].reverses = Q[k].reverses /\ Q[m].reverses # 0 => m = k
      BY <2>2, <1>1, <1>3 DEF Answers
    <2>5. \A k \in DOMAIN Q : Q[k].cancelled => \E m \in DOMAIN Q : Q[m].reverses = k
      BY <1>1, <1>3, <1>5 DEF Answers, Fresh
    <2> QED
      BY <2>1, <2>3, <2>4, <2>5 DEF Answers
  <1> QED
    BY <1>2, <1>6, <1>7 DEF LedgerOK, Q

LEMMA WritableStands ==
  ASSUME NEW R, NEW owners, R \in Seq(Row(owners)), NEW new \in Seq(Row(owners)), Writable(R, new)
  PROVE  LegsStand(Len(R), new)
PROOF
  <1>1. DOMAIN new = 1..Len(new) /\ Len(R) \in Nat
    OBVIOUS
  <1>2. CASE Len(new) = 1
    BY <1>1, <1>2 DEF Writable, LegsStand
  <1>3. CASE Len(new) = 2
    <2>1. /\ Fresh(new[1]) /\ Fresh(new[2]) /\ new[1].pair = Len(R) + 1 /\ new[2].pair = Len(R) + 1
          /\ new[1].source = "external" /\ DOMAIN new = {1, 2}
      BY <1>1, <1>3 DEF Writable
    <2> QED
      BY <2>1, <1>1 DEF LegsStand
  <1> QED
    BY <1>2, <1>3 DEF Writable

\* One expense after n rows.
ExpenseShape(legs, owners, n, source, w, x, of) ==
  /\ w \in {1, 2} /\ legs \in Seq(Row(owners)) /\ DOMAIN legs = 1..w /\ Len(legs) = w
  /\ LegsStand(n, legs)
  /\ \A k \in 1..w : legs[k] \in Row(owners) /\ Fresh(legs[k])
  /\ w = 1 => legs[1].pair = 0
  /\ w = 2 => legs[1].source = "external" /\ legs[1].pair = n + 1 /\ legs[2].pair = n + 1
  /\ legs[w].source = source /\ legs[w].amount = x /\ legs[w].of = of

LEMMA ExpenseLegs ==
  ASSUME NEW owners, NEW n \in Nat, NEW source \in Sources \ {"reversal"}, NEW a \in Accounts,
         NEW x \in Int, NEW of \in owners
  PROVE  ExpenseShape(ExpenseAfter(n, source, a, x, of), owners, n, source, Width(a), x, of)
PROOF
  <1>1. "expense" \in Kinds /\ "income" \in Kinds /\ "external" \in Sources \ {"reversal"}
    BY DEF Kinds, Sources
  <1>2. CASE a = outside
    <2> DEFINE i == Leg("income", "external", outside, x, of)
               e == Leg("expense", source, outside, x, of)
               p == [i EXCEPT !.pair = n + 1]
               q == [e EXCEPT !.pair = n + 1]
    <2>1. /\ i \in Row(owners) /\ Fresh(i) /\ i.source = "external"
          /\ e \in Row(owners) /\ Fresh(e) /\ e.source = source /\ e.amount = x /\ e.of = of
      BY <1>1, <1>2, LegIsARow
    <2> HIDE DEF i, e
    <2>2. /\ p \in Row(owners) /\ Fresh(p) /\ p.pair = n + 1 /\ p.source = "external"
          /\ q \in Row(owners) /\ Fresh(q) /\ q.pair = n + 1
          /\ q.source = source /\ q.amount = x /\ q.of = of
      BY <2>1, PairedLeg
    <2>3. ExpenseAfter(n, source, a, x, of) = <<p, q>> /\ Width(a) = 2
      BY <1>2 DEF ExpenseAfter, Width, i, e
    <2> HIDE DEF p, q
    <2> QED
      BY <2>2, <2>3 DEF LegsStand, ExpenseShape
  <1>3. CASE a # outside
    <2> DEFINE e == Leg("expense", source, a, x, of)
    <2>1. e \in Row(owners) /\ Fresh(e) /\ e.pair = 0 /\ e.source = source /\ e.amount = x /\ e.of = of
      BY <1>1, LegIsARow
    <2>2. ExpenseAfter(n, source, a, x, of) = <<e>> /\ Width(a) = 1
      BY <1>3 DEF ExpenseAfter, Width
    <2> HIDE DEF e
    <2> QED
      BY <2>1, <2>2 DEF LegsStand, ExpenseShape
  <1> QED
    BY <1>2, <1>3

\* The partner of a row that is not the owner's capital is.
LEMMA OneOwnLeg ==
  ASSUME NEW owners, LedgerOK(rows, owners), NEW n \in DOMAIN rows, rows[n].source # "external",
         NEW m \in LegsOf(n), rows[m].source # "external"
  PROVE  m = n
PROOF
  <1>1. /\ m \in DOMAIN rows /\ m \in Int /\ n \in Int
        /\ m = n \/ (rows[n].pair # 0 /\ rows[m].pair = rows[n].pair)
    BY DEF LegsOf, LedgerOK
  <1>2. CASE rows[n].pair # 0 /\ rows[m].pair = rows[n].pair
    <2> DEFINE p == rows[n].pair
    <2>1. p \in {n, n - 1} /\ p \in {m, m - 1} /\ rows[p].source = "external"
      BY <1>1, <1>2 DEF LedgerOK, PairsStand
    <2>2. p # n /\ p # m
      BY <2>1
    <2> QED
      BY <1>1, <2>1, <2>2
  <1> QED
    BY <1>1, <1>2

------------------------------------------------------------------------------
\* Suppliers, deliveries and defective goods.

Places == Branches \cup {"none"}
Parties == Suppliers \cup {"none"}

NoteFields == [status : {"none", "draft", "received"}, supplier : Parties, total : Nat, paid : Nat,
               sentBack : Nat, branch : Places, item : Nat, returns : BOOLEAN]

\* A note that is there has a branch.
NoteSet == {n \in NoteFields : n.status # "none" => n.branch \in Branches}

RemitSet == [note : Notes, supplier : Parties, amount : Nat \ {0}, source : {"money", "credit"},
             row : Nat]

LotSet == [note : Nat, item : Nat, branch : Places, in : Nat, left : Nat, sold : Nat, back : Nat,
           off : Nat, gone : BOOLEAN]

\* Every unit of a lot is left, sold, sent back or moved off otherwise; a lot
\* that is dropped was whole.
KeptLots == {l \in LotSet : /\ l.left + l.sold + l.back + l.off = l.in
                            /\ l.gone => l.sold + l.back = 0}

DefectSet == [branch : Branches, left : Nat,
              source : {"shelf", "customer_return", "opening", "supplier_cancel"}]

HandOverSet == [way : {"credit", "cash", "debt"}, note : Notes \cup {0}, supplier : Parties,
                branch : Branches, units : Nat, value : Nat, row : Nat, undone : BOOLEAN]

\* What a request on its way holds.
HoldsFor(there, asked, read) ==
  /\ there \in {"receive", "edit", "reverse", "relabel", "send", "hand"} => asked.note \in Notes
  /\ there \in {"receive", "reverse", "relabel", "send", "hand"} =>
       read \in NoteSet /\ read.status # "none"
  /\ there = "edit" => asked.total \in Nat /\ asked.branch \in Branches
  /\ there = "relabel" => asked.supplier \in Parties /\ asked.branch \in Branches
  /\ there \in {"send", "hand"} => asked.units \in Nat \ {0}
  /\ there = "hand" => asked.branch \in Branches

DeskTyped == /\ DOMAIN phase = Sessions /\ DOMAIN job = Sessions /\ DOMAIN seen = Sessions
             /\ \A s \in Sessions : HoldsFor(phase[s], job[s], seen[s])

NotesTyped == notes \in [Notes -> NoteSet]
RemitsTyped == remitted \in Seq(RemitSet \cup {NoRemit})
CreditTyped == credit \in [Suppliers -> Int] /\ advanced \in Int
GoodsTyped == lots \in Seq(KeptLots) /\ shelf \in [Branches -> Int] /\ stock \in Int
StoreTyped == /\ defects \in Seq(DefectSet) /\ handOvers \in Seq(HandOverSet)
              /\ booked \in Int /\ broken \in Int

Payers == Notes \cup {0}

------------------------------------------------------------------------------
LEMMA Mapped ==
  ASSUME NEW S, NEW n \in Nat, NEW f, DOMAIN f = 1..n, f = [k \in 1..n |-> f[k]],
         \A k \in 1..n : f[k] \in S
  PROVE  f \in Seq(S) /\ Len(f) = n
  OBVIOUS

LEMMA LotsInPlace ==
  ASSUME GoodsTyped
  PROVE  /\ DOMAIN lots = 1..Len(lots) /\ Len(lots) \in Nat /\ IsFiniteSet(DOMAIN lots)
         /\ \A k \in DOMAIN lots : lots[k] \in KeptLots /\ lots[k].left \in Nat
PROOF
  <1>1. lots \in Seq(KeptLots)
    BY DEF GoodsTyped
  <1>2. DOMAIN lots = 1..Len(lots) /\ Len(lots) \in Nat
    BY <1>1
  <1>3. \A k \in DOMAIN lots : lots[k] \in KeptLots
    BY <1>1
  <1>4. \A k \in DOMAIN lots : lots[k].left \in Nat
    BY <1>3 DEF KeptLots, LotSet
  <1> QED
    BY <1>2, <1>3, <1>4, FS_Interval

\* A sum of what lots hold.
LEMMA HeldIsNumber ==
  ASSUME NEW all, NEW set, IsFiniteSet(set), \A k \in set : all[k].left \in Nat
  PROVE  SumFunction([k \in set |-> all[k].left]) \in Nat
PROOF
  <1> DEFINE f == [k \in set |-> all[k].left]
  <1>1. \A k \in set : f[k] \in Nat
    OBVIOUS
  <1>2. DOMAIN f = set
    OBVIOUS
  <1> HIDE DEF f
  <1>3. SumFunctionOnSet(f, set) \in Nat
    BY <1>1, SumNat
  <1> QED
    BY <1>2, <1>3 DEF SumFunction, f

LEMMA TakenIsLeft ==
  ASSUME GoodsTyped, NEW k \in DOMAIN lots, NEW set \in SUBSET DOMAIN lots, NEW x \in Nat
  PROVE  Take(k, set, x) \in 0..lots[k].left /\ (k \notin set => Take(k, set, x) = 0)
PROOF
  <1> DEFINE below == {j \in set : j < k}
             n == LeftIn(below)
  <1>1. IsFiniteSet(below)
    BY LotsInPlace, FS_Subset
  <1>2. n \in Nat
    BY <1>1, LotsInPlace, HeldIsNumber DEF LeftIn
  <1>3. lots[k].left \in Nat
    BY LotsInPlace
  <1>4. Take(k, set, x) = IF k \in set THEN Least(lots[k].left, OrZero(x - n)) ELSE 0
    BY DEF Take
  <1> HIDE DEF n, below
  <1> QED
    BY <1>2, <1>3, <1>4 DEF Least, OrZero

\* A unit that leaves a lot is counted where it went.
LEMMA DrawnLot ==
  ASSUME NEW l \in KeptLots, NEW t \in 0..l.left, l.gone => t = 0
  PROVE  /\ [l EXCEPT !.left = @ - t, !.sold = @ + t] \in KeptLots
         /\ [l EXCEPT !.left = @ - t, !.back = @ + t] \in KeptLots
         /\ [l EXCEPT !.left = @ - t, !.off = @ + t] \in KeptLots
PROOF
  <1>1. /\ l \in LotSet /\ l.left + l.sold + l.back + l.off = l.in
        /\ l.gone => l.sold + l.back = 0
    BY DEF KeptLots
  <1>2. /\ l.left \in Nat /\ l.sold \in Nat /\ l.back \in Nat /\ l.off \in Nat /\ l.in \in Nat
        /\ l.gone \in BOOLEAN
    BY <1>1 DEF LotSet
  <1>3. t \in Nat /\ l.left - t \in Nat
    BY <1>2
  <1> DEFINE p == l.left - t
             q == l.sold + t
             r == l.back + t
             o == l.off + t
  <1>4. /\ p \in Nat /\ q \in Nat /\ r \in Nat /\ o \in Nat
        /\ p + q + l.back + l.off = l.in /\ p + l.sold + r + l.off = l.in
        /\ p + l.sold + l.back + o = l.in
    BY <1>1, <1>2, <1>3
  <1>9. l.gone => q + l.back = 0 /\ l.sold + r = 0
    BY <1>1, <1>2
  <1>5. /\ [l EXCEPT !.left = @ - t, !.sold = @ + t] = [l EXCEPT !.left = p, !.sold = q]
        /\ [l EXCEPT !.left = @ - t, !.back = @ + t] = [l EXCEPT !.left = p, !.back = r]
        /\ [l EXCEPT !.left = @ - t, !.off = @ + t] = [l EXCEPT !.left = p, !.off = o]
    BY Zenon
  <1> HIDE DEF p, q, r, o
  <1>6. [l EXCEPT !.left = p, !.sold = q] \in KeptLots
    BY <1>1, <1>2, <1>4, <1>9 DEF KeptLots, LotSet
  <1>7. [l EXCEPT !.left = p, !.back = r] \in KeptLots
    BY <1>1, <1>2, <1>4, <1>9 DEF KeptLots, LotSet
  <1>8. [l EXCEPT !.left = p, !.off = o] \in KeptLots
    BY <1>1, <1>2, <1>4 DEF KeptLots, LotSet
  <1> QED
    BY <1>5, <1>6, <1>7, <1>8

\* Lots sold from, sent back from and moved off the shelf.
LEMMA DrawnLots ==
  ASSUME GoodsTyped, NEW set \in SUBSET DOMAIN lots, \A k \in set : ~lots[k].gone, NEW x \in Nat
  PROVE  /\ [k \in DOMAIN lots |-> [lots[k] EXCEPT !.left = @ - Take(k, set, x),
                                                   !.sold = @ + Take(k, set, x)]] \in Seq(KeptLots)
         /\ [k \in DOMAIN lots |-> [lots[k] EXCEPT !.left = @ - Take(k, set, x),
                                                   !.back = @ + Take(k, set, x)]] \in Seq(KeptLots)
         /\ [k \in DOMAIN lots |-> [lots[k] EXCEPT !.left = @ - Take(k, set, x),
                                                   !.off = @ + Take(k, set, x)]] \in Seq(KeptLots)
PROOF
  <1> DEFINE sold(k) == [lots[k] EXCEPT !.left = @ - Take(k, set, x), !.sold = @ + Take(k, set, x)]
             back(k) == [lots[k] EXCEPT !.left = @ - Take(k, set, x), !.back = @ + Take(k, set, x)]
             off(k) == [lots[k] EXCEPT !.left = @ - Take(k, set, x), !.off = @ + Take(k, set, x)]
  <1>1. \A k \in DOMAIN lots : /\ lots[k] \in KeptLots /\ Take(k, set, x) \in 0..lots[k].left
                               /\ lots[k].gone => Take(k, set, x) = 0
    BY LotsInPlace, TakenIsLeft
  <1>2. \A k \in DOMAIN lots : sold(k) \in KeptLots /\ back(k) \in KeptLots /\ off(k) \in KeptLots
    <2> TAKE k \in DOMAIN lots
    <2> DEFINE l == lots[k]
               t == Take(k, set, x)
    <2>1. l \in KeptLots /\ t \in 0..l.left /\ (l.gone => t = 0)
      BY <1>1, SMTT(60)
    <2> HIDE DEF l, t
    <2>2. /\ [l EXCEPT !.left = @ - t, !.sold = @ + t] \in KeptLots
          /\ [l EXCEPT !.left = @ - t, !.back = @ + t] \in KeptLots
          /\ [l EXCEPT !.left = @ - t, !.off = @ + t] \in KeptLots
      BY <2>1, DrawnLot, Zenon
    <2> QED
      BY <2>2 DEF l, t
  <1> HIDE DEF sold, back, off
  <1>3. /\ [k \in DOMAIN lots |-> sold(k)] \in Seq(KeptLots)
        /\ [k \in DOMAIN lots |-> back(k)] \in Seq(KeptLots)
        /\ [k \in DOMAIN lots |-> off(k)] \in Seq(KeptLots)
    BY <1>2, LotsInPlace
  <1> QED
    BY <1>3 DEF sold, back, off

\* A delivery covers what was sold ahead of it out of the oldest lots.
LEMMA TrimmedLots ==
  ASSUME NEW all \in Seq(KeptLots), NEW b, NEW onHand \in Int
  PROVE  Trimmed(all, b, onHand) \in Seq(KeptLots) /\ Len(Trimmed(all, b, onHand)) = Len(all)
PROOF
  <1> DEFINE held(set) == SumFunction([k \in set |-> all[k].left])
             here == {k \in DOMAIN all : ~all[k].gone /\ all[k].branch = b}
             excess == OrZero(held(here) - OrZero(onHand))
             cut(k) == Least(all[k].left, OrZero(excess - held({j \in here : j < k})))
             after(k) == IF k \in here THEN [all[k] EXCEPT !.left = @ - cut(k), !.off = @ + cut(k)]
                         ELSE all[k]
  <1>1. DOMAIN all = 1..Len(all) /\ Len(all) \in Nat
    OBVIOUS
  <1>2. \A k \in DOMAIN all : all[k] \in KeptLots
    OBVIOUS
  <1>3. \A k \in DOMAIN all : all[k].left \in Nat
    BY <1>2 DEF KeptLots, LotSet
  <1>4. IsFiniteSet(DOMAIN all)
    BY <1>1, FS_Interval
  <1>5. \A k \in DOMAIN all : held({j \in here : j < k}) \in Nat
    <2> TAKE k \in DOMAIN all
    <2>1. IsFiniteSet({j \in here : j < k})
      BY <1>4, FS_Subset
    <2> QED
      BY <2>1, <1>3, HeldIsNumber
  <1>6. held(here) \in Nat
    <2>1. IsFiniteSet(here)
      BY <1>4, FS_Subset
    <2> QED
      BY <2>1, <1>3, HeldIsNumber
  <1> HIDE DEF held
  <1>7. excess \in Nat
    BY <1>6 DEF OrZero
  <1>8. \A k \in DOMAIN all : cut(k) \in 0..all[k].left
    BY <1>3, <1>5, <1>7, SMTT(60) DEF Least, OrZero
  <1> HIDE DEF excess, cut
  <1>9. \A k \in DOMAIN all : after(k) \in KeptLots
    <2> TAKE k \in DOMAIN all
    <2>1. CASE k \notin here
      BY <2>1, <1>2
    <2>2. CASE k \in here
      <3> DEFINE l == all[k]
                 t == cut(k)
      <3>1. l \in KeptLots /\ t \in 0..l.left /\ ~l.gone
        BY <2>2, <1>2, <1>8
      <3> HIDE DEF l, t
      <3>2. [l EXCEPT !.left = @ - t, !.off = @ + t] \in KeptLots
        BY <3>1, DrawnLot, Zenon
      <3> QED
        BY <3>2, <2>2 DEF l, t
    <2> QED
      BY <2>1, <2>2
  <1>10. Trimmed(all, b, onHand) = [k \in DOMAIN all |-> after(k)]
    BY DEF Trimmed, held, excess, cut
  <1> HIDE DEF after
  <1> QED
    BY <1>1, <1>9, <1>10

LEMMA FreshLot ==
  ASSUME NEW r \in Nat, NEW item \in Nat, NEW b \in Places, NEW q \in Nat
  PROVE  Lot(r, item, b, q) \in KeptLots
  BY DEF Lot, KeptLots, LotSet

LEMMA ShelfFilled ==
  ASSUME GoodsTyped, NEW r \in Nat, NEW item \in Nat, NEW b \in Places, NEW q \in Nat,
         b \in Branches, PutOnShelf(r, item, b, q)
  PROVE  GoodsTyped'
PROOF
  <1>1. Append(lots, Lot(r, item, b, q)) \in Seq(KeptLots)
    BY FreshLot DEF GoodsTyped
  <1>2. shelf[b] + q \in Int
    BY DEF GoodsTyped
  <1>3. lots' \in Seq(KeptLots)
    BY <1>1, <1>2, TrimmedLots DEF PutOnShelf
  <1> QED
    BY <1>2, <1>3 DEF GoodsTyped, PutOnShelf

\* The legs of a payment that is spread over several notes.
SharesShape(legs, owners, n, w, order, open, x) ==
  /\ legs \in Seq(Row(owners)) /\ Len(legs) = Len(order) * w
  /\ LegsStand(n, legs)
  /\ \A k \in 1..Len(order) : /\ k * w \in DOMAIN legs
                              /\ legs[k * w].source = "supplier_payment"
                              /\ legs[k * w].amount = Share(order[k], open, x)
                              /\ legs[k * w].of = order[k]
  /\ \A m \in DOMAIN legs : legs[m].source = "external" \/ \E k \in 1..Len(order) : m = k * w

LEMMA PaymentLegsStand ==
  ASSUME NEW owners, LedgerOK(rows, owners), NEW order, order \in Seq(owners), NEW a \in Accounts,
         NEW open, NEW x, \A k \in 1..Len(order) : Share(order[k], open, x) \in Int
  PROVE  SharesShape(PaymentLegs(a, order, open, x), owners, Len(rows), Width(a), order, open, x)
PROOF
  <1> DEFINE legs == PaymentLegs(a, order, open, x)
             w == Width(a)
             n == Len(rows)
             L == Len(order)
             e(k) == ExpenseAfter(n + k * w, "supplier_payment", a, Share(order[k + 1], open, x),
                                  order[k + 1])
             at(m) == (m - 1) \div w
  <1>1. n \in Nat /\ L \in Nat /\ w \in {1, 2}
    BY DEF LedgerOK, Width
  <1>2. \A m \in 1..(L * w) : legs[m] = e(at(m))[m - at(m) * w]
    BY DEF PaymentLegs
  <1>3. DOMAIN legs = 1..(L * w) /\ legs = [m \in 1..(L * w) |-> legs[m]]
    BY DEF PaymentLegs
  <1>4. \A k \in 0..(L - 1) :
          /\ \A i \in 1..w : e(k)[i] \in Row(owners) /\ Fresh(e(k)[i])
          /\ \A i \in 1..w : e(k)[i].pair = IF w = 1 THEN 0 ELSE n + k * w + 1
          /\ w = 2 => e(k)[1].source = "external"
          /\ e(k)[w].source = "supplier_payment" /\ e(k)[w].amount = Share(order[k + 1], open, x)
          /\ e(k)[w].of = order[k + 1]
    <2> TAKE k \in 0..(L - 1)
    <2> DEFINE r == order[k + 1]
               v == Share(r, open, x)
               N == n + k * w
    <2>1. k + 1 \in 1..L /\ N \in Nat /\ "supplier_payment" \in Sources \ {"reversal"}
      BY <1>1 DEF Sources
    <2>2. r \in owners /\ v \in Int
      BY <2>1
    <2> HIDE DEF r, v, N, w
    <2>3. PICK f : f = ExpenseAfter(N, "supplier_payment", a, v, r)
      OBVIOUS
    <2>4. ExpenseShape(f, owners, N, "supplier_payment", w, v, r)
      <3>1. ExpenseShape(ExpenseAfter(N, "supplier_payment", a, v, r), owners, N,
                         "supplier_payment", Width(a), v, r)
        <4> HIDE DEF legs, n, L, e, at
        <4> QED
          BY <2>1, <2>2, ExpenseLegs
      <3> QED
        BY <2>3, <3>1 DEF w
    <2>5. /\ \A i \in 1..w : f[i] \in Row(owners) /\ Fresh(f[i])
          /\ \A i \in 1..w : f[i].pair = IF w = 1 THEN 0 ELSE N + 1
          /\ w = 2 => f[1].source = "external"
          /\ f[w].source = "supplier_payment" /\ f[w].amount = v /\ f[w].of = r
      BY <2>4 DEF ExpenseShape
    <2>6. e(k) = f
      BY <2>3 DEF N, v, r
    <2> HIDE DEF e
    <2> QED
      BY <2>5, <2>6 DEF N, v, r
  <1> HIDE DEF legs, e
  <1>5. CASE w = 1
    <2>1. DOMAIN legs = 1..L /\ \A m \in 1..L : legs[m] = e(m - 1)[1] /\ m - 1 \in 0..(L - 1)
      <3>1. L * w = L
        BY <1>1, <1>5
      <3>2. \A m \in 1..L : at(m) = m - 1 /\ m - at(m) * w = 1
        BY <1>1, <1>5
      <3> HIDE DEF at
      <3> QED
        BY <1>1, <1>2, <1>3, <3>1, <3>2
    <2>2. \A m \in 1..L : legs[m] \in Row(owners) /\ Fresh(legs[m]) /\ legs[m].pair = 0
      BY <2>1, <1>4, <1>5
    <2>3. \A k \in 1..L : /\ legs[k].source = "supplier_payment"
                          /\ legs[k].amount = Share(order[k], open, x) /\ legs[k].of = order[k]
      <3> TAKE k \in 1..L
      <3>1. (k - 1) + 1 = k /\ k - 1 \in 0..(L - 1)
        BY <1>1
      <3> QED
        BY <3>1, <2>1, <1>4, <1>5
    <2>4. legs \in Seq(Row(owners)) /\ Len(legs) = L
      BY <2>1, <2>2, <1>1, <1>3, Mapped
    <2>5. LegsStand(n, legs)
      BY <2>1, <2>2 DEF LegsStand
    <2>6. \A k \in 1..L : k * w = k
      BY <1>1, <1>5
    <2>7. L * w = L
      BY <1>1, <1>5
    <2> HIDE DEF w
    <2> QED
      BY <2>1, <2>3, <2>4, <2>5, <2>6, <2>7 DEF SharesShape, legs, w
  <1>6. CASE w = 2
    <2>1. L * w = 2 * L
      BY <1>1, <1>6
    <2>2. \A k \in 0..(L - 1) : /\ 2 * k + 1 \in 1..(2 * L) /\ 2 * k + 2 \in 1..(2 * L)
                                /\ legs[2 * k + 1] = e(k)[1] /\ legs[2 * k + 2] = e(k)[2]
      <3> TAKE k \in 0..(L - 1)
      <3> DEFINE h(m) == (m - 1) \div 2
      <3>1. h(2 * k + 1) = k /\ h(2 * k + 2) = k
        BY <1>1
      <3>2. 2 * k + 1 - k * 2 = 1 /\ 2 * k + 2 - k * 2 = 2
        BY <1>1
      <3>3. 2 * k + 1 \in 1..(2 * L) /\ 2 * k + 2 \in 1..(2 * L)
        BY <1>1
      <3>4. \A m \in 1..(2 * L) : legs[m] = e(h(m))[m - h(m) * 2]
        BY <2>1, <1>2, <1>6
      <3> HIDE DEF h
      <3>5. ASSUME NEW m \in 1..(2 * L), h(m) = k
            PROVE  legs[m] = e(k)[m - k * 2]
        BY <3>4, <3>5, Zenon
      <3>6. PICK i, j : i = 2 * k + 1 /\ j = 2 * k + 2
        OBVIOUS
      <3>7. /\ i \in 1..(2 * L) /\ h(i) = k /\ i - k * 2 = 1
            /\ j \in 1..(2 * L) /\ h(j) = k /\ j - k * 2 = 2
        BY <3>1, <3>2, <3>3, <3>6
      <3>8. legs[i] = e(k)[1] /\ legs[j] = e(k)[2]
        BY <3>5, <3>7, Zenon
      <3> QED
        BY <3>3, <3>6, <3>8, Zenon
    <2>3. \A m \in 1..(2 * L) : \E k \in 0..(L - 1) : m = 2 * k + 1 \/ m = 2 * k + 2
      <3> TAKE m \in 1..(2 * L)
      <3> DEFINE k == (m - 1) \div 2
      <3>1. k \in 0..(L - 1) /\ (m = 2 * k + 1 \/ m = 2 * k + 2)
        BY <1>1
      <3> QED
        BY <3>1
    <2>4. \A k \in 0..(L - 1) :
            /\ legs[2 * k + 1] \in Row(owners) /\ Fresh(legs[2 * k + 1])
            /\ legs[2 * k + 2] \in Row(owners) /\ Fresh(legs[2 * k + 2])
            /\ legs[2 * k + 1].pair = n + (2 * k + 1) /\ legs[2 * k + 2].pair = n + (2 * k + 1)
            /\ legs[2 * k + 1].source = "external"
            /\ legs[2 * k + 2].source = "supplier_payment"
            /\ legs[2 * k + 2].amount = Share(order[k + 1], open, x)
            /\ legs[2 * k + 2].of = order[k + 1]
      <3> TAKE k \in 0..(L - 1)
      <3>1. n + k * w + 1 = n + (2 * k + 1)
        BY <1>1, <1>6
      <3>2. 1 \in 1..w /\ 2 \in 1..w
        BY <1>6
      <3> HIDE DEF w
      <3> QED
        BY <3>1, <3>2, <2>2, <1>4, <1>6, ZenonT(60)
    <2>5. DOMAIN legs = 1..(2 * L)
      BY <1>3, <2>1
    <2>6. \A m \in DOMAIN legs : legs[m] \in Row(owners) /\ Fresh(legs[m])
      BY <2>3, <2>4, <2>5
    <2>7. legs \in Seq(Row(owners)) /\ Len(legs) = 2 * L
      <3>1. 2 * L \in Nat
        BY <1>1
      <3>2. legs = [m \in 1..(2 * L) |-> legs[m]]
        BY <1>3, <2>1
      <3> QED
        BY <3>1, <3>2, <2>5, <2>6, Mapped
    <2>8. LegsStand(n, legs)
      <3> SUFFICES ASSUME NEW m \in DOMAIN legs
                   PROVE  \E j \in DOMAIN legs :
                            /\ legs[m].pair = n + j /\ m \in {j, j + 1} /\ j + 1 \in DOMAIN legs
                            /\ legs[j].pair = n + j /\ legs[j + 1].pair = n + j
                            /\ legs[j].source = "external"
        BY <2>6 DEF LegsStand
      <3>1. PICK k \in 0..(L - 1) : m = 2 * k + 1 \/ m = 2 * k + 2
        BY <2>3, <2>5
      <3> DEFINE j == 2 * k + 1
      <3>2. j + 1 = 2 * k + 2 /\ j \in DOMAIN legs /\ j + 1 \in DOMAIN legs
        BY <2>2, <2>5
      <3>3. legs[j].pair = n + j /\ legs[j + 1].pair = n + j /\ legs[j].source = "external"
        BY <2>4, <3>2
      <3>4. m = j \/ m = j + 1
        BY <3>1, <3>2
      <3> HIDE DEF j
      <3> QED
        BY <3>2, <3>3, <3>4
    <2>9. \A k \in 1..L : /\ k * w \in DOMAIN legs
                          /\ legs[k * w].source = "supplier_payment"
                          /\ legs[k * w].amount = Share(order[k], open, x)
                          /\ legs[k * w].of = order[k]
      <3> TAKE k \in 1..L
      <3> DEFINE j == k - 1
      <3>1. j \in 0..(L - 1) /\ j + 1 = k /\ 2 * j + 2 = k * w
        BY <1>1, <1>6
      <3> HIDE DEF j, w
      <3> QED
        BY <3>1, <2>2, <2>4, <2>5
    <2>10. \A m \in DOMAIN legs : legs[m].source = "external" \/ \E k \in 1..L : m = k * w
      <3> TAKE m \in DOMAIN legs
      <3>1. PICK k \in 0..(L - 1) : m = 2 * k + 1 \/ m = 2 * k + 2
        BY <2>3, <2>5
      <3>2. CASE m = 2 * k + 1
        BY <3>2, <2>4
      <3>3. CASE m = 2 * k + 2
        <4> DEFINE j == k + 1
        <4>1. j \in 1..L /\ m = j * w
          BY <1>1, <1>6, <3>3
        <4> QED
          BY <4>1
      <3> QED
        BY <3>1, <3>2, <3>3
    <2> HIDE DEF w
    <2> QED
      BY <2>1, <2>7, <2>8, <2>9, <2>10 DEF SharesShape, legs, w
  <1> QED
    BY <1>1, <1>5, <1>6

------------------------------------------------------------------------------
\* What is owed and what a payment writes.

\* Payments and refunds in money know their row.
RowsKnown ==
  /\ \A n \in DOMAIN remitted :
       remitted[n] # NoRemit /\ remitted[n].source = "money" => remitted[n].row \in DOMAIN rows
  /\ \A n \in DOMAIN handOvers : handOvers[n].way = "cash" => handOvers[n].row \in DOMAIN rows

AccountTyped == /\ NotesTyped /\ RemitsTyped /\ CreditTyped /\ LedgerOK(rows, Payers) /\ RowsKnown

LEMMA OwedIsNumber ==
  ASSUME NotesTyped
  PROVE  /\ \A r \in Notes : Owed(r) \in Nat
         /\ \A set \in SUBSET Notes : OwedOn(set) \in Nat
         /\ \A r \in Notes : \A open \in SUBSET Notes : \A x \in Nat : Share(r, open, x) \in Nat
         /\ \A open \in SUBSET Notes : \A x \in Nat : OrZero(x - OwedOn(open)) \in Nat
PROOF
  <1>1. \A r \in Notes : Owed(r) \in Nat
    <2> TAKE r \in Notes
    <2>1. notes[r].total \in Nat /\ notes[r].paid \in Nat /\ notes[r].sentBack \in Nat
      BY DEF NotesTyped, NoteSet, NoteFields
    <2> QED
      BY <2>1 DEF Owed, OrZero
  <1>2. \A set \in SUBSET Notes : OwedOn(set) \in Nat
    <2> TAKE set \in SUBSET Notes
    <2> DEFINE f == [r \in set |-> Owed(r)]
    <2>1. IsFiniteSet(set)
      BY SupplierAssumption, FS_Subset
    <2>2. \A r \in set : f[r] \in Nat
      BY <1>1
    <2>3. DOMAIN f = set
      OBVIOUS
    <2> HIDE DEF f
    <2>4. SumFunctionOnSet(f, set) \in Nat
      BY <2>1, <2>2, SumNat
    <2> QED
      BY <2>3, <2>4 DEF OwedOn, SumFunction, f
  <1>3. \A open \in SUBSET Notes : \A x \in Nat : OrZero(x - OwedOn(open)) \in Nat
    BY <1>2 DEF OrZero
  <1>4. \A r \in Notes : \A open \in SUBSET Notes : \A x \in Nat : Share(r, open, x) \in Nat
    <2> TAKE r \in Notes
    <2> TAKE open \in SUBSET Notes
    <2> TAKE x \in Nat
    <2> DEFINE below == {q \in open : q < r}
    <2>1. OwedOn(below) \in Nat /\ Owed(r) \in Nat
      BY <1>1, <1>2
    <2>2. Share(r, open, x) = Least(Owed(r), OrZero(x - OwedOn(below)))
      BY DEF Share
    <2> HIDE DEF below
    <2> QED
      BY <2>1, <2>2 DEF Least, OrZero
  <1> QED
    BY <1>1, <1>2, <1>3, <1>4

LEMMA InOrderOf ==
  ASSUME NEW S, IsFiniteSet(S), NEW order \in Ascending(S)
  PROVE  /\ order \in Seq(S) /\ Len(order) = Cardinality(S) /\ Len(order) \in Nat
         /\ DOMAIN order = 1..Len(order)
         /\ \A j, k \in DOMAIN order : j < k => order[j] < order[k]
PROOF
  <1>1. Cardinality(S) \in Nat
    BY FS_CardinalityType
  <1> QED
    BY <1>1 DEF Ascending

\* What is shared out goes to the notes of the sequence, each a payment.
LEMMA SharedOut ==
  ASSUME NotesTyped, NEW open \in SUBSET Notes, NEW x \in Nat, NEW order \in PaidOnes(open, x)
  PROVE  /\ order \in Seq(Notes) /\ order \in Seq(Payers) /\ Len(order) \in Nat
         /\ DOMAIN order = 1..Len(order)
         /\ \A k \in 1..Len(order) :
              /\ order[k] \in open /\ order[k] \in Notes
              /\ Share(order[k], open, x) \in Nat \ {0}
PROOF
  <1> DEFINE S == {r \in open : Share(r, open, x) > 0}
  <1>1. IsFiniteSet(S)
    BY SupplierAssumption, FS_Subset
  <1>2. order \in Ascending(S)
    BY DEF PaidOnes
  <1>3. S \subseteq Notes /\ S \subseteq Payers
    BY DEF Payers
  <1>5. \A r \in S : Share(r, open, x) \in Nat \ {0} /\ r \in open
    BY OwedIsNumber
  <1> HIDE DEF S
  <1>4. order \in Seq(S) /\ Len(order) \in Nat /\ DOMAIN order = 1..Len(order)
    BY <1>1, <1>2, InOrderOf
  <1>6. \A k \in 1..Len(order) : order[k] \in S
    BY <1>4
  <1> QED
    BY <1>3, <1>4, <1>5, <1>6

LEMMA PaidNotesTyped ==
  ASSUME NotesTyped, NEW open \in SUBSET Notes, NEW x \in Nat, SharesPaid(open, x)
  PROVE  NotesTyped'
PROOF
  <1>1. ASSUME NEW r \in Notes
        PROVE  (IF r \in open THEN [notes[r] EXCEPT !.paid = @ + Share(r, open, x)]
                ELSE notes[r]) \in NoteSet
    <2>1. notes[r] \in NoteSet
      BY DEF NotesTyped
    <2>2. Share(r, open, x) \in Nat
      BY OwedIsNumber
    <2> QED
      BY <2>1, <2>2 DEF NoteSet, NoteFields
  <1> QED
    BY <1>1 DEF SharesPaid, NotesTyped

LEMMA RemitTyped ==
  ASSUME NotesTyped, NEW r \in Notes, NEW x \in Nat \ {0}, NEW source \in {"money", "credit"},
         NEW row \in Nat
  PROVE  Remit(r, x, source, row) \in RemitSet /\ Remit(r, x, source, row) # NoRemit
PROOF
  <1>1. notes[r].supplier \in Parties
    BY DEF NotesTyped, NoteSet, NoteFields
  <1>2. r # 0
    BY SupplierAssumption
  <1> QED
    BY <1>1, <1>2 DEF Remit, RemitSet, NoRemit

LEMMA OneRemitAdded ==
  ASSUME RemitsTyped, NEW p \in RemitSet, remitted' = Append(remitted, p)
  PROVE  /\ RemitsTyped' /\ DOMAIN remitted = 1..Len(remitted) /\ Len(remitted) \in Nat
         /\ DOMAIN remitted' = 1..(Len(remitted) + 1)
         /\ \A n \in DOMAIN remitted : n \in DOMAIN remitted' /\ remitted'[n] = remitted[n]
         /\ remitted'[Len(remitted) + 1] = p
  BY DEF RemitsTyped

LEMMA RemitsAdded ==
  ASSUME RemitsTyped, NEW new \in Seq(RemitSet), remitted' = remitted \o new
  PROVE  /\ RemitsTyped' /\ DOMAIN remitted = 1..Len(remitted) /\ Len(remitted) \in Nat
         /\ Len(new) \in Nat /\ DOMAIN new = 1..Len(new)
         /\ DOMAIN remitted' = 1..(Len(remitted) + Len(new))
         /\ \A n \in DOMAIN remitted : n \in DOMAIN remitted' /\ remitted'[n] = remitted[n]
         /\ \A k \in 1..Len(new) : remitted'[Len(remitted) + k] = new[k]
         /\ \A n \in DOMAIN remitted' : n \in DOMAIN remitted
                                        \/ \E k \in 1..Len(new) : n = Len(remitted) + k
PROOF
  <1> DEFINE S == RemitSet \cup {NoRemit}
             n == Len(remitted)
  <1>1. remitted \in Seq(S) /\ new \in Seq(S)
    BY DEF RemitsTyped
  <1>2. /\ remitted' \in Seq(S)
        /\ n \in Nat /\ Len(new) \in Nat
        /\ DOMAIN remitted = 1..n /\ DOMAIN new = 1..Len(new)
        /\ DOMAIN remitted' = 1..(n + Len(new))
        /\ \A m \in 1..n : remitted'[m] = remitted[m]
        /\ \A k \in 1..Len(new) : remitted'[n + k] = new[k]
    BY <1>1, Concatenated
  <1>3. ASSUME NEW m \in DOMAIN remitted', m \notin DOMAIN remitted
        PROVE  \E k \in 1..Len(new) : m = n + k
    <2>1. m - n \in 1..Len(new) /\ m = n + (m - n)
      BY <1>2, <1>3
    <2> QED
      BY <2>1
  <1> QED
    BY <1>2, <1>3 DEF RemitsTyped

\* Old rows stay, the new come after them.
LEMMA ManyAppended ==
  ASSUME NEW owners, LedgerOK(rows, owners), NEW new \in Seq(Row(owners)),
         LegsStand(Len(rows), new), Write(new)
  PROVE  /\ LedgerOK(rows', owners)
         /\ DOMAIN rows = 1..Len(rows) /\ Len(rows) \in Nat /\ Len(new) \in Nat
         /\ DOMAIN new = 1..Len(new) /\ DOMAIN rows' = 1..(Len(rows) + Len(new))
         /\ \A m \in DOMAIN rows : m \in DOMAIN rows' /\ rows'[m] = rows[m]
         /\ \A k \in 1..Len(new) : /\ Len(rows) + k \in DOMAIN rows' \ DOMAIN rows
                                   /\ rows'[Len(rows) + k] = new[k]
         /\ \A m \in DOMAIN rows' \ DOMAIN rows : \E k \in 1..Len(new) : m = Len(rows) + k
PROOF
  <1> DEFINE S == Row(owners)
             n == Len(rows)
  <1>1. rows' = rows \o new
    BY DEF Write
  <1>2. LedgerOK(rows', owners)
    BY <1>1, WritingMany
  <1>3. rows \in Seq(S)
    BY DEF LedgerOK
  <1>4. /\ n \in Nat /\ Len(new) \in Nat /\ DOMAIN rows = 1..n /\ DOMAIN new = 1..Len(new)
        /\ DOMAIN rows' = 1..(n + Len(new))
        /\ \A m \in 1..n : rows'[m] = rows[m]
        /\ \A k \in 1..Len(new) : rows'[n + k] = new[k]
    BY <1>1, <1>3, Concatenated
  <1>5. \A m \in DOMAIN rows' \ DOMAIN rows : \E k \in 1..Len(new) : m = n + k
    <2> TAKE m \in DOMAIN rows' \ DOMAIN rows
    <2>1. m - n \in 1..Len(new) /\ m = n + (m - n)
      BY <1>4
    <2> QED
      BY <2>1
  <1>6. \A k \in 1..Len(new) : n + k \in DOMAIN rows' \ DOMAIN rows
    BY <1>4
  <1> QED
    BY <1>2, <1>4, <1>5, <1>6

LEMMA LegsJoin ==
  ASSUME NEW owners, NEW n \in Nat, NEW A \in Seq(Row(owners)), NEW B \in Seq(Row(owners)),
         LegsStand(n, A), LegsStand(n + Len(A), B)
  PROVE  LegsStand(n, A \o B)
PROOF
  <1> DEFINE Q == A \o B
             l == Len(A)
  <1>1. /\ l \in Nat /\ Len(B) \in Nat /\ DOMAIN A = 1..l /\ DOMAIN B = 1..Len(B)
        /\ DOMAIN Q = 1..(l + Len(B))
        /\ \A m \in 1..l : Q[m] = A[m]
        /\ \A k \in 1..Len(B) : Q[l + k] = B[k]
    BY Concatenated
  <1> HIDE DEF Q, l
  <1> SUFFICES ASSUME NEW k \in DOMAIN Q
               PROVE  /\ Fresh(Q[k])
                      /\ Q[k].pair # 0 =>
                           \E j \in DOMAIN Q :
                             /\ Q[k].pair = n + j /\ k \in {j, j + 1} /\ j + 1 \in DOMAIN Q
                             /\ Q[j].pair = n + j /\ Q[j + 1].pair = n + j /\ Q[j].source = "external"
    BY DEF LegsStand, Q
  <1>2. CASE k \in 1..l
    <2>1. Q[k] = A[k] /\ Fresh(Q[k])
      BY <1>1, <1>2 DEF LegsStand
    <2>2. ASSUME Q[k].pair # 0
          PROVE  \E j \in DOMAIN Q :
                   /\ Q[k].pair = n + j /\ k \in {j, j + 1} /\ j + 1 \in DOMAIN Q
                   /\ Q[j].pair = n + j /\ Q[j + 1].pair = n + j /\ Q[j].source = "external"
      <3>1. PICK j \in DOMAIN A :
              /\ A[k].pair = n + j /\ k \in {j, j + 1} /\ j + 1 \in DOMAIN A
              /\ A[j].pair = n + j /\ A[j + 1].pair = n + j /\ A[j].source = "external"
        BY <1>1, <1>2, <2>1, <2>2 DEF LegsStand
      <3>2. j \in DOMAIN Q /\ j + 1 \in DOMAIN Q /\ Q[j] = A[j] /\ Q[j + 1] = A[j + 1]
        BY <3>1, <1>1
      <3> QED
        BY <3>1, <3>2, <2>1
    <2> QED
      BY <2>1, <2>2
  <1>3. CASE k \notin 1..l
    <2> DEFINE i == k - l
    <2>1. i \in DOMAIN B /\ k = l + i
      BY <1>1, <1>3
    <2> HIDE DEF i
    <2>2. Q[k] = B[i] /\ Fresh(Q[k])
      BY <1>1, <2>1 DEF LegsStand
    <2>3. ASSUME Q[k].pair # 0
          PROVE  \E j \in DOMAIN Q :
                   /\ Q[k].pair = n + j /\ k \in {j, j + 1} /\ j + 1 \in DOMAIN Q
                   /\ Q[j].pair = n + j /\ Q[j + 1].pair = n + j /\ Q[j].source = "external"
      <3>1. PICK h \in DOMAIN B :
              /\ B[i].pair = n + l + h /\ i \in {h, h + 1} /\ h + 1 \in DOMAIN B
              /\ B[h].pair = n + l + h /\ B[h + 1].pair = n + l + h /\ B[h].source = "external"
        BY <2>1, <2>2, <2>3 DEF LegsStand, l
      <3> DEFINE j == l + h
      <3>5. h \in 1..Len(B) /\ h + 1 \in 1..Len(B) /\ h \in Nat
        BY <3>1, <1>1
      <3>2. j \in DOMAIN Q /\ j + 1 \in DOMAIN Q /\ Q[j] = B[h]
        BY <3>5, <1>1
      <3>6. Q[l + (h + 1)] = B[h + 1]
        BY <3>5, <1>1
      <3>3. Q[l + (h + 1)] = B[h + 1] /\ l + (h + 1) = j + 1
        BY <3>5, <3>6, <1>1
      <3>4. n + l + h = n + j /\ k \in {j, j + 1}
        <4>1. i \in Nat /\ k = l + i /\ (i = h \/ i = h + 1)
          BY <3>1, <2>1, <1>1
        <4>2. l \in Nat
          BY <1>1
        <4>3. n + l + h = n + (l + h)
          BY <4>2, <3>5
        <4>4. l + (h + 1) = (l + h) + 1
          BY <4>2, <3>5
        <4>5. k = l + h \/ k = (l + h) + 1
          BY <4>1, <4>4
        <4> QED
          BY <4>3, <4>5
      <3> HIDE DEF j
      <3> QED
        BY <3>1, <3>2, <3>3, <3>4, <2>2
    <2> QED
      BY <2>2, <2>3
  <1> QED
    BY <1>2, <1>3

\* What paying a supplier leaves in the ledger: one expense for each share, and
\* beside them capital incomes and the advance, which is for no note.
SupplierRows(a, order, open, x) ==
  /\ LedgerOK(rows', Payers)
  /\ DOMAIN rows \subseteq DOMAIN rows' /\ \A m \in DOMAIN rows : rows'[m] = rows[m]
  /\ Len(rows) \in Nat /\ DOMAIN rows = 1..Len(rows)
  /\ \A k \in 1..Len(order) :
       LET m == Len(rows) + k * Width(a)
       IN  /\ m \in DOMAIN rows' \ DOMAIN rows
           /\ rows'[m].source = "supplier_payment" /\ rows'[m].amount = Share(order[k], open, x)
           /\ rows'[m].of = order[k] /\ ~rows'[m].cancelled
  /\ \A m \in DOMAIN rows' \ DOMAIN rows :
       \/ rows'[m].source = "external" \/ rows'[m].of = 0
       \/ \E k \in 1..Len(order) : m = Len(rows) + k * Width(a)

LEMMA SupplierPaidRows ==
  ASSUME NotesTyped, LedgerOK(rows, Payers), NEW open \in SUBSET Notes, NEW x \in Nat,
         NEW order \in PaidOnes(open, x), NEW a \in Accounts, NEW left \in Nat,
         Write(PaymentLegs(a, order, open, x) \o AdvanceLegs(a, Len(order), left))
  PROVE  SupplierRows(a, order, open, x)
PROOF
  <1> DEFINE A == PaymentLegs(a, order, open, x)
             B == AdvanceLegs(a, Len(order), left)
             w == Width(a)
             n == Len(rows)
             L == Len(order)
  <1>a. /\ order \in Seq(Payers) /\ Len(order) \in Nat
        /\ \A k \in 1..Len(order) : order[k] \in Notes /\ Share(order[k], open, x) \in Nat \ {0}
    <2> HIDE DEF A, B, n, w, L
    <2> QED
      BY SharedOut
  <1>1. /\ order \in Seq(Payers) /\ L \in Nat
        /\ \A k \in 1..L : order[k] \in Notes /\ Share(order[k], open, x) \in Int
    BY <1>a
  <1>2. /\ A \in Seq(Row(Payers)) /\ Len(A) = L * w
        /\ LegsStand(n, A)
        /\ \A k \in 1..L : /\ k * w \in DOMAIN A
                           /\ A[k * w].source = "supplier_payment"
                           /\ A[k * w].amount = Share(order[k], open, x)
                           /\ A[k * w].of = order[k]
        /\ \A m \in DOMAIN A : A[m].source = "external" \/ \E k \in 1..L : m = k * w
    <2>1. SharesShape(PaymentLegs(a, order, open, x), Payers, Len(rows), Width(a), order, open, x)
      BY <1>1, PaymentLegsStand
    <2>2. SharesShape(A, Payers, n, w, order, open, x)
      BY <2>1
    <2> HIDE DEF A, n, w
    <2> QED
      BY <2>2 DEF SharesShape
  <1>3. n \in Nat /\ w \in {1, 2}
    BY DEF LedgerOK, Width
  <1>4. /\ B \in Seq(Row(Payers)) /\ LegsStand(n + L * w, B)
        /\ \A k \in 1..Len(B) : B[k].of = 0 \/ B[k].source = "external"
    <2>1. CASE left = 0
      <3>1. B = <<>>
        BY <2>1 DEF AdvanceLegs
      <3> HIDE DEF B
      <3> QED
        BY <3>1 DEF LegsStand
    <2>2. CASE left # 0
      <3> DEFINE N == n + L * w
      <3>1. N \in Nat
        BY <1>1, <1>3
      <3>2. "supplier_payment" \in Sources \ {"reversal"} /\ 0 \in Payers /\ left \in Int
        BY DEF Sources, Payers
      <3>3. B = ExpenseAfter(N, "supplier_payment", a, left, 0)
        BY <2>2 DEF AdvanceLegs
      <3> HIDE DEF N, A
      <3>4. ExpenseShape(ExpenseAfter(N, "supplier_payment", a, left, 0), Payers, N,
                         "supplier_payment", Width(a), left, 0)
        BY <3>1, <3>2, ExpenseLegs
      <3>5. ExpenseShape(B, Payers, N, "supplier_payment", w, left, 0)
        BY <3>3, <3>4
      <3> HIDE DEF B, w, n, L
      <3>6. /\ B \in Seq(Row(Payers)) /\ Len(B) = w /\ LegsStand(N, B)
            /\ w = 2 => B[1].source = "external"
            /\ B[w].of = 0
        BY <3>5 DEF ExpenseShape
      <3>7. \A k \in 1..w : k = w \/ (w = 2 /\ k = 1)
        BY <1>3
      <3> QED
        BY <3>6, <3>7 DEF N
    <2> QED
      BY <2>1, <2>2
  <1> HIDE DEF A, B
  <1> DEFINE new == A \o B
  <1>5. /\ new \in Seq(Row(Payers)) /\ Len(A) \in Nat /\ Len(B) \in Nat
        /\ DOMAIN A = 1..Len(A) /\ DOMAIN new = 1..(Len(A) + Len(B))
        /\ Len(new) = Len(A) + Len(B)
        /\ \A m \in 1..Len(A) : new[m] = A[m]
        /\ \A k \in 1..Len(B) : new[Len(A) + k] = B[k]
    <2> DEFINE S == Row(Payers)
    <2>1. A \in Seq(S) /\ B \in Seq(S)
      BY <1>2, <1>4
    <2> HIDE DEF S, n, w, L
    <2> QED
      BY <2>1, Concatenated DEF S
  <1>6. LegsStand(n, new)
    BY <1>2, <1>3, <1>4, LegsJoin
  <1>7. Write(new)
    BY DEF A, B
  <1> HIDE DEF new
  <1>8. /\ LedgerOK(rows', Payers)
        /\ DOMAIN rows = 1..n /\ Len(new) \in Nat
        /\ DOMAIN new = 1..Len(new) /\ DOMAIN rows' = 1..(n + Len(new))
        /\ \A m \in DOMAIN rows : m \in DOMAIN rows' /\ rows'[m] = rows[m]
        /\ \A k \in 1..Len(new) : n + k \in DOMAIN rows' \ DOMAIN rows /\ rows'[n + k] = new[k]
        /\ \A m \in DOMAIN rows' \ DOMAIN rows : \E k \in 1..Len(new) : m = n + k
    BY <1>5, <1>6, <1>7, ManyAppended
  <1>9. ASSUME NEW k \in 1..L
        PROVE  /\ n + k * w \in DOMAIN rows' \ DOMAIN rows
               /\ rows'[n + k * w].source = "supplier_payment"
               /\ rows'[n + k * w].amount = Share(order[k], open, x)
               /\ rows'[n + k * w].of = order[k] /\ ~rows'[n + k * w].cancelled
    <2> DEFINE m == k * w
    <2>1. m \in 1..Len(A) /\ A[m].source = "supplier_payment"
          /\ A[m].amount = Share(order[k], open, x) /\ A[m].of = order[k]
      BY <1>2, <1>5
    <2> HIDE DEF m
    <2>2. m \in 1..Len(new) /\ new[m] = A[m]
      BY <2>1, <1>5
    <2>3. n + m \in DOMAIN rows' \ DOMAIN rows /\ rows'[n + m] = A[m]
      BY <2>2, <1>8
    <2>4. ~A[m].cancelled
      BY <2>1, <1>2, <1>5 DEF LegsStand, Fresh
    <2> QED
      BY <2>1, <2>3, <2>4 DEF m
  <1>10. ASSUME NEW m \in DOMAIN rows' \ DOMAIN rows
         PROVE  \/ rows'[m].source = "external" \/ rows'[m].of = 0
                \/ \E k \in 1..L : m = n + k * w
    <2>1. PICK i \in 1..Len(new) : m = n + i /\ rows'[m] = new[i]
      BY <1>8
    <2>2. CASE i \in 1..Len(A)
      <3>1. A[i].source = "external" \/ \E k \in 1..L : i = k * w
        BY <2>2, <1>2, <1>5
      <3> HIDE DEF w, n, L
      <3> QED
        BY <2>1, <2>2, <3>1, <1>5
    <2>3. CASE i \notin 1..Len(A)
      <3> DEFINE j == i - Len(A)
      <3>1. j \in 1..Len(B) /\ i = Len(A) + j
        BY <2>1, <2>3, <1>5
      <3> HIDE DEF j
      <3>2. new[i] = B[j]
        BY <3>1, <1>5
      <3> QED
        BY <2>1, <3>1, <3>2, <1>4
    <2> QED
      BY <2>2, <2>3
  <1>11. DOMAIN rows \subseteq DOMAIN rows' /\ \A m \in DOMAIN rows : rows'[m] = rows[m]
    BY <1>8
  <1> QED
    BY <1>3, <1>8, <1>9, <1>10, <1>11 DEF SupplierRows

------------------------------------------------------------------------------
\* Payments made and cancelled, each in one step.

\* Of the notes' figures only what is paid moves.
OnlyPaidMoves ==
  \A r \in Notes : /\ notes'[r].status = notes[r].status /\ notes'[r].item = notes[r].item
                    /\ notes'[r].total = notes[r].total /\ notes'[r].sentBack = notes[r].sentBack

\* Payments are made, at most one on a note, each in money with an expense of
\* its own; every other row they write is no note's.
PaysStep(new) ==
  /\ new \in Seq(RemitSet) /\ remitted' = remitted \o new
  /\ \A j, k \in DOMAIN new : new[j].note = new[k].note => j = k
  /\ \A k \in DOMAIN new : notes'[new[k].note].paid = notes[new[k].note].paid + new[k].amount
  /\ \A r \in Notes : (\A k \in DOMAIN new : new[k].note # r) => notes'[r].paid = notes[r].paid
  /\ \A k \in DOMAIN new : /\ notes[new[k].note].status = "received"
                            /\ new[k].amount <= Owed(new[k].note)
  /\ OnlyPaidMoves
  /\ LedgerOK(rows', Payers)
  /\ DOMAIN rows \subseteq DOMAIN rows' /\ \A m \in DOMAIN rows : rows'[m] = rows[m]
  /\ \A k \in DOMAIN new : new[k].source = "money" =>
       /\ new[k].row \in DOMAIN rows' \ DOMAIN rows
       /\ rows'[new[k].row].source = "supplier_payment"
       /\ rows'[new[k].row].amount = new[k].amount /\ rows'[new[k].row].of = new[k].note
       /\ ~rows'[new[k].row].cancelled
  /\ \A j, k \in DOMAIN new :
       new[j].source = "money" /\ new[k].source = "money" /\ new[j].row = new[k].row => j = k
  /\ \A m \in DOMAIN rows' \ DOMAIN rows :
       \/ rows'[m].source = "external" \/ rows'[m].of = 0
       \/ \E k \in DOMAIN new : new[k].source = "money" /\ m = new[k].row

\* Nobody of a set is missing from its order, nor there twice.
LEMMA AllInOrder ==
  ASSUME NEW S, IsFiniteSet(S), S \subseteq Int, NEW f \in Ascending(S)
  PROVE  /\ \A q \in S : \E k \in 1..Len(f) : f[k] = q
         /\ \A j, k \in 1..Len(f) : f[j] = f[k] => j = k
PROOF
  <1> DEFINE c == Cardinality(S)
  <1>1. f \in Seq(S) /\ Len(f) = c /\ c \in Nat /\ DOMAIN f = 1..c /\ f \in [1..c -> S]
    BY InOrderOf DEF Ascending
  <1>2. \A j, k \in 1..c : j < k => f[j] < f[k]
    BY <1>1, InOrderOf
  <1>3. \A j, k \in 1..c : f[j] = f[k] => j = k
    <2> SUFFICES ASSUME NEW j \in 1..c, NEW k \in 1..c, f[j] = f[k], j # k
                 PROVE  FALSE
      OBVIOUS
    <2>1. f[j] \in Int /\ f[k] \in Int
      BY <1>1
    <2>2. j < k \/ k < j
      BY <1>1
    <2> QED
      BY <1>2, <2>1, <2>2
  <1> HIDE DEF c
  <1>4. f \in Injection(1..c, S)
    BY <1>1, <1>3 DEF Injection, IsInjective
  <1>5. Cardinality(1..c) = c
    BY <1>1, FS_Interval
  <1>6. f \in Surjection(1..c, S)
    BY <1>4, <1>5, FS_Injection DEF c
  <1>7. \A q \in S : \E k \in 1..c : f[k] = q
    BY <1>6 DEF Surjection
  <1> QED
    BY <1>1, <1>3, <1>7

\* One payment on one note.
LEMMA OnePaid ==
  ASSUME NotesTyped, NEW r \in Notes, notes[r].status = "received", NEW p \in RemitSet, p.note = r,
         p.amount <= Owed(r),
         remitted' = Append(remitted, p), remitted \in Seq(RemitSet \cup {NoRemit}),
         notes' = [notes EXCEPT ![r].paid = @ + p.amount],
         LedgerOK(rows', Payers),
         DOMAIN rows \subseteq DOMAIN rows', \A m \in DOMAIN rows : rows'[m] = rows[m],
         p.source = "money" =>
           /\ p.row \in DOMAIN rows' \ DOMAIN rows
           /\ rows'[p.row].source = "supplier_payment"
           /\ rows'[p.row].amount = p.amount /\ rows'[p.row].of = r /\ ~rows'[p.row].cancelled,
         \A m \in DOMAIN rows' \ DOMAIN rows :
           rows'[m].source = "external" \/ (p.source = "money" /\ m = p.row)
  PROVE  NotesTyped' /\ \E new : PaysStep(new)
PROOF
  <1>1. p.amount \in Nat
    BY DEF RemitSet
  <1>2. NotesTyped'
    <2>1. notes[r] \in NoteSet
      BY DEF NotesTyped
    <2> DEFINE v == notes[r].paid + p.amount
    <2>2. v \in Nat
      BY <1>1, <2>1 DEF NoteSet, NoteFields
    <2>3. notes' = [notes EXCEPT ![r].paid = v]
      OBVIOUS
    <2> HIDE DEF v
    <2>4. [notes[r] EXCEPT !.paid = v] \in NoteSet
      BY <2>1, <2>2 DEF NoteSet, NoteFields
    <2> QED
      BY <2>3, <2>4 DEF NotesTyped
  <1> DEFINE new == <<p>>
  <1>3. new \in Seq(RemitSet) /\ DOMAIN new = {1} /\ new[1] = p
    OBVIOUS
  <1>4. remitted' = remitted \o new
    OBVIOUS
  <1>5. \A q \in Notes : notes'[q].paid = IF q = r THEN notes[r].paid + p.amount ELSE notes[q].paid
    BY DEF NotesTyped, NoteSet, NoteFields
  <1>7. OnlyPaidMoves
    BY DEF OnlyPaidMoves, NotesTyped, NoteSet, NoteFields
  <1> HIDE DEF new
  <1>6. PaysStep(new)
    BY <1>3, <1>4, <1>5, <1>7 DEF PaysStep
  <1> QED
    BY <1>2, <1>6

\* Shares of a sum, each on its note.
LEMMA SharesPaidFor ==
  ASSUME NotesTyped, RemitsTyped, LedgerOK(rows, Payers), NEW open \in SUBSET Notes, NEW x \in Nat,
         \A r \in open : notes[r].status = "received",
         NEW order \in PaidOnes(open, x), NEW a \in Accounts, NEW source \in {"money", "credit"},
         remitted' = remitted \o [k \in 1..Len(order) |->
                       Remit(order[k], Share(order[k], open, x), source,
                             IF source = "money" THEN Len(rows) + k * Width(a) ELSE 0)],
         SharesPaid(open, x),
         source = "money" => SupplierRows(a, order, open, x),
         source = "credit" => rows' = rows
  PROVE  NotesTyped' /\ \E new : PaysStep(new)
PROOF
  <1> DEFINE L == Len(order)
             w == Width(a)
             row(k) == IF source = "money" THEN Len(rows) + k * w ELSE 0
             part(k) == Share(order[k], open, x)
             new == [k \in 1..L |-> Remit(order[k], part(k), source, row(k))]
  <1>1. NotesTyped'
    BY PaidNotesTyped
  <1>2. /\ order \in Seq(Notes) /\ L \in Nat /\ DOMAIN order = 1..L
        /\ \A k \in 1..L : order[k] \in open /\ order[k] \in Notes /\ part(k) \in Nat \ {0}
    BY SharedOut
  <1>3. /\ \A j, k \in 1..L : order[j] = order[k] => j = k
        /\ \A r \in open : Share(r, open, x) > 0 => \E k \in 1..L : order[k] = r
    <2> DEFINE S == {r \in open : Share(r, open, x) > 0}
    <2>5. IsFiniteSet(S)
      BY SupplierAssumption, FS_Subset
    <2>1. IsFiniteSet(S) /\ order \in Ascending(S)
      BY <2>5 DEF PaidOnes
    <2>7. Notes \subseteq Nat
      BY SupplierAssumption
    <2>4. \A r \in open : Share(r, open, x) > 0 => r \in S
      OBVIOUS
    <2>8. S \subseteq open /\ open \subseteq Notes
      OBVIOUS
    <2> HIDE DEF S
    <2>2. S \subseteq Int
      BY <2>7, <2>8
    <2>3. /\ \A q \in S : \E k \in 1..Len(order) : order[k] = q
          /\ \A j, k \in 1..Len(order) : order[j] = order[k] => j = k
      BY <2>1, <2>2, AllInOrder
    <2> QED
      BY <2>3, <2>4
  <1>4. Len(rows) \in Nat /\ w \in {1, 2}
    BY DEF LedgerOK, Width
  <1>5. \A k \in 1..L : row(k) \in Nat
    BY <1>2, <1>4
  <1>6. remitted' = remitted \o new
    OBVIOUS
  <1> HIDE DEF part, row
  <1>7. \A k \in 1..L : /\ new[k] \in RemitSet /\ new[k].note = order[k] /\ new[k].amount = part(k)
                        /\ new[k].source = source /\ new[k].row = row(k)
    <2> TAKE k \in 1..L
    <2>1. Remit(order[k], part(k), source, row(k)) \in RemitSet
      BY <1>2, <1>5, RemitTyped
    <2>2. new[k] = Remit(order[k], part(k), source, row(k))
      OBVIOUS
    <2> HIDE DEF new
    <2> QED
      BY <2>1, <2>2 DEF Remit
  <1>8. new \in Seq(RemitSet) /\ DOMAIN new = 1..L
    BY <1>2, <1>7
  <1> HIDE DEF new
  <1>9. \A j, k \in DOMAIN new : new[j].note = new[k].note => j = k
    BY <1>3, <1>7, <1>8
  <1>10. \A r \in Notes : notes'[r].paid = IF r \in open THEN notes[r].paid + Share(r, open, x)
                                           ELSE notes[r].paid
    BY DEF SharesPaid, NotesTyped, NoteSet, NoteFields
  <1>11. \A k \in DOMAIN new : notes'[new[k].note].paid = notes[new[k].note].paid + new[k].amount
    BY <1>2, <1>7, <1>8, <1>10 DEF part
  <1>12. \A r \in Notes : (\A k \in DOMAIN new : new[k].note # r) => notes'[r].paid = notes[r].paid
    <2> SUFFICES ASSUME NEW r \in Notes, \A k \in DOMAIN new : new[k].note # r
                 PROVE  notes'[r].paid = notes[r].paid
      OBVIOUS
    <2>1. CASE r \notin open
      BY <2>1, <1>10
    <2>2. CASE r \in open
      <3>4. \A k \in 1..L : order[k] # r
        BY <1>7, <1>8
      <3>1. ~(Share(r, open, x) > 0)
        BY <2>2, <3>4, <1>3
      <3>2. Share(r, open, x) \in Nat /\ notes[r].paid \in Nat
        BY OwedIsNumber DEF NotesTyped, NoteSet, NoteFields
      <3>3. Share(r, open, x) = 0
        BY <2>2, <3>1, <3>2
      <3> QED
        BY <2>2, <3>2, <3>3, <1>10
    <2> QED
      BY <2>1, <2>2
  <1>13. \A j, k \in DOMAIN new :
           new[j].source = "money" /\ new[k].source = "money" /\ new[j].row = new[k].row => j = k
    <2> SUFFICES ASSUME NEW j \in 1..L, NEW k \in 1..L, source = "money", row(j) = row(k)
                 PROVE  j = k
      BY <1>7, <1>8
    <2>1. Len(rows) + j * w = Len(rows) + k * w
      BY DEF row
    <2>2. j \in Nat /\ k \in Nat
      BY <1>2
    <2>3. CASE w = 1
      <3>1. Len(rows) + j = Len(rows) + k
        BY <2>1, <2>2, <2>3
      <3> QED
        BY <3>1, <2>2, <1>4
    <2>4. CASE w = 2
      <3>1. Len(rows) + 2 * j = Len(rows) + 2 * k
        BY <2>1, <2>2, <2>4
      <3> QED
        BY <3>1, <2>2, <1>4
    <2> QED
      BY <2>3, <2>4, <1>4
  <1>16. /\ \A k \in DOMAIN new : /\ notes[new[k].note].status = "received"
                                   /\ new[k].amount <= Owed(new[k].note)
         /\ OnlyPaidMoves
    <2>1. \A k \in DOMAIN new : new[k].note \in open /\ new[k].amount = Share(new[k].note, open, x)
      BY <1>2, <1>7, <1>8 DEF part
    <2>2. OnlyPaidMoves
      BY DEF OnlyPaidMoves, SharesPaid, NotesTyped, NoteSet, NoteFields
    <2>3. \A r \in open : Share(r, open, x) <= Owed(r)
      <3> TAKE r \in open
      <3> DEFINE below == {q \in open : q < r}
      <3>1. Owed(r) \in Nat /\ OrZero(x - OwedOn(below)) \in Nat
        BY OwedIsNumber
      <3>2. Share(r, open, x) = Least(Owed(r), OrZero(x - OwedOn(below)))
        BY DEF Share
      <3> HIDE DEF below
      <3> QED
        BY <3>1, <3>2 DEF Least
    <2> QED
      BY <2>1, <2>2, <2>3
  <1>14. CASE source = "money"
    <2>1. SupplierRows(a, order, open, x)
      BY <1>14
    <2>2. \A k \in 1..L : row(k) = Len(rows) + k * w
      BY <1>14 DEF row
    <2>3. /\ LedgerOK(rows', Payers)
          /\ DOMAIN rows \subseteq DOMAIN rows' /\ \A m \in DOMAIN rows : rows'[m] = rows[m]
          /\ \A k \in 1..L : /\ row(k) \in DOMAIN rows' \ DOMAIN rows
                             /\ rows'[row(k)].source = "supplier_payment"
                             /\ rows'[row(k)].amount = part(k)
                             /\ rows'[row(k)].of = order[k] /\ ~rows'[row(k)].cancelled
          /\ \A m \in DOMAIN rows' \ DOMAIN rows :
               rows'[m].source = "external" \/ rows'[m].of = 0 \/ \E k \in 1..L : m = row(k)
      BY <2>1, <2>2 DEF SupplierRows, part
    <2>5. \A k \in DOMAIN new : /\ new[k].source = "money" /\ new[k].row = row(k)
                                 /\ new[k].amount = part(k) /\ new[k].note = order[k]
      BY <1>7, <1>8, <1>14
    <2>6. \A k \in DOMAIN new : new[k].source = "money" =>
            /\ new[k].row \in DOMAIN rows' \ DOMAIN rows
            /\ rows'[new[k].row].source = "supplier_payment"
            /\ rows'[new[k].row].amount = new[k].amount /\ rows'[new[k].row].of = new[k].note
            /\ ~rows'[new[k].row].cancelled
      BY <2>3, <2>5, <1>8
    <2>7. \A m \in DOMAIN rows' \ DOMAIN rows :
            \/ rows'[m].source = "external" \/ rows'[m].of = 0
            \/ \E k \in DOMAIN new : new[k].source = "money" /\ m = new[k].row
      <3> TAKE m \in DOMAIN rows' \ DOMAIN rows
      <3>1. CASE \E k \in 1..L : m = row(k)
        BY <3>1, <2>5, <1>8
      <3>2. CASE rows'[m].source = "external" \/ rows'[m].of = 0
        BY <3>2
      <3> QED
        BY <3>1, <3>2, <2>3
    <2>4. PaysStep(new)
      BY <1>6, <1>8, <1>9, <1>11, <1>12, <1>13, <1>16, <2>3, <2>6, <2>7, Zenon DEF PaysStep
    <2> QED
      BY <1>1, <2>4
  <1>15. CASE source = "credit"
    <2>1. rows' = rows
      BY <1>15
    <2>2. PaysStep(new)
      BY <1>6, <1>7, <1>8, <1>9, <1>11, <1>12, <1>13, <1>15, <1>16, <2>1 DEF PaysStep
    <2> QED
      BY <1>1, <2>2
  <1> QED
    BY <1>14, <1>15

Pays == PayNote \/ PayFromCredit \/ PaySupplier \/ TransferAdvance

LEMMA CreditMoved ==
  ASSUME CreditTyped, NEW p \in Suppliers, NEW x \in Int, credit' = [credit EXCEPT ![p] = @ + x]
  PROVE  credit' \in [Suppliers -> Int]
PROOF
  <1>1. credit[p] + x \in Int
    BY DEF CreditTyped
  <1> QED
    BY <1>1 DEF CreditTyped

LEMMA CreditSpent ==
  ASSUME CreditTyped, NEW p \in Suppliers, NEW x \in Int, credit' = [credit EXCEPT ![p] = @ - x]
  PROVE  credit' \in [Suppliers -> Int]
PROOF
  <1>1. credit[p] - x \in Int
    BY DEF CreditTyped
  <1> QED
    BY <1>1 DEF CreditTyped

LEMMA PaymentsMade ==
  ASSUME AccountTyped, Pays
  PROVE  NotesTyped' /\ CreditTyped' /\ \E new : PaysStep(new)
PROOF
  <1>1. /\ NotesTyped /\ RemitsTyped /\ CreditTyped /\ LedgerOK(rows, Payers)
        /\ remitted \in Seq(RemitSet \cup {NoRemit})
    BY DEF AccountTyped, RemitsTyped
  <1>2. Remits \subseteq Nat \ {0} /\ Notes \subseteq Payers
    BY SupplierAssumption DEF Payers
  <1>3. "supplier_payment" \in Sources \ {"reversal"}
    BY DEF Sources
  <1>4. CASE PayNote
    <2>1. PICK r \in Notes, x \in Remits, a \in Accounts, confirmed \in BOOLEAN :
            /\ notes[r].status = "received" /\ x <= Owed(r)
            /\ Write(Expense("supplier_payment", a, x, r))
            /\ remitted' = Append(remitted, Remit(r, x, "money", ExpenseRow(a)))
            /\ notes' = [notes EXCEPT ![r].paid = @ + x]
            /\ UNCHANGED <<credit, advanced>>
      BY <1>4 DEF PayNote, Payable
    <2>2. x \in Nat \ {0} /\ x \in Int /\ r \in Payers
      BY <1>2
    <2>3. /\ LedgerOK(rows', Payers)
          /\ DOMAIN rows \subseteq DOMAIN rows' /\ \A m \in DOMAIN rows : rows'[m] = rows[m]
          /\ ExpenseRow(a) \in DOMAIN rows' \ DOMAIN rows
          /\ rows'[ExpenseRow(a)].source = "supplier_payment" /\ rows'[ExpenseRow(a)].amount = x
          /\ rows'[ExpenseRow(a)].of = r /\ ~rows'[ExpenseRow(a)].cancelled
          /\ \A m \in DOMAIN rows' : \/ m \in DOMAIN rows \/ m = ExpenseRow(a)
                                     \/ rows'[m].source = "external"
      BY <1>1, <1>3, <2>1, <2>2, ExpenseWritten
    <2>4. ExpenseRow(a) \in Nat
      BY <1>1 DEF LedgerOK, ExpenseRow, Width
    <2> DEFINE p == Remit(r, x, "money", ExpenseRow(a))
    <2>5. p \in RemitSet
      BY <1>1, <2>2, <2>4, RemitTyped
    <2>6. p.note = r /\ p.amount = x /\ p.source = "money" /\ p.row = ExpenseRow(a)
      BY DEF Remit
    <2>7. remitted' = Append(remitted, p)
      BY <2>1
    <2> HIDE DEF p
    <2>8. notes' = [notes EXCEPT ![r].paid = @ + p.amount]
      BY <2>1, <2>6
    <2>9. /\ p.row \in DOMAIN rows' \ DOMAIN rows
          /\ rows'[p.row].source = "supplier_payment"
          /\ rows'[p.row].amount = p.amount /\ rows'[p.row].of = r /\ ~rows'[p.row].cancelled
          /\ \A m \in DOMAIN rows' \ DOMAIN rows :
               rows'[m].source = "external" \/ (p.source = "money" /\ m = p.row)
      BY <2>3, <2>6
    <2>10. NotesTyped' /\ \E new : PaysStep(new)
      BY <1>1, <2>3, <2>5, <2>6, <2>1, <2>7, <2>8, <2>9, OnePaid
    <2> QED
      BY <1>1, <2>1, <2>10 DEF CreditTyped
  <1>5. CASE PayFromCredit
    <2>1. PICK r \in Notes, x \in Remits :
            /\ notes[r].supplier # "none" /\ notes[r].status = "received" /\ x <= Owed(r)
            /\ remitted' = Append(remitted, Remit(r, x, "credit", 0))
            /\ credit' = [credit EXCEPT ![notes[r].supplier] = @ - x]
            /\ notes' = [notes EXCEPT ![r].paid = @ + x]
            /\ UNCHANGED <<advanced, books>>
      BY <1>5 DEF PayFromCredit, Payable
    <2>2. x \in Nat \ {0} /\ x \in Int
      BY <1>2
    <2>3. notes[r].supplier \in Suppliers
      BY <1>1, <2>1 DEF NotesTyped, NoteSet, NoteFields, Parties
    <2> DEFINE p == Remit(r, x, "credit", 0)
    <2>5. p \in RemitSet
      BY <1>1, <2>2, RemitTyped
    <2>6. p.note = r /\ p.amount = x /\ p.source = "credit"
      BY DEF Remit
    <2>7. remitted' = Append(remitted, p)
      BY <2>1
    <2> HIDE DEF p
    <2>8. notes' = [notes EXCEPT ![r].paid = @ + p.amount]
      BY <2>1, <2>6
    <2>9. rows' = rows
      BY <2>1 DEF books
    <2>11. LedgerOK(rows', Payers)
      BY <1>1, <2>9
    <2>10. NotesTyped' /\ \E new : PaysStep(new)
      BY <1>1, <2>5, <2>6, <2>7, <2>8, <2>9, <2>11, <2>1, OnePaid
    <2>12. credit' \in [Suppliers -> Int]
      BY <1>1, <2>1, <2>2, <2>3, CreditSpent
    <2> QED
      BY <1>1, <2>1, <2>10, <2>12 DEF CreditTyped
  <1>6. CASE PaySupplier
    <2>1. PICK p \in Suppliers, x \in Remits, a \in Accounts, confirmed \in BOOLEAN :
            LET open == OpenNotes(p)
                left == OrZero(x - OwedOn(open))
            IN  \E order \in PaidOnes(open, x) :
                  /\ Covers(a, x, confirmed)
                  /\ Len(remitted) + Len(order) <= MaxRemits
                  /\ Write(PaymentLegs(a, order, open, x) \o AdvanceLegs(a, Len(order), left))
                  /\ remitted' = remitted \o [k \in 1..Len(order) |->
                           Remit(order[k], Share(order[k], open, x), "money", Len(rows) + k * Width(a))]
                  /\ SharesPaid(open, x)
                  /\ credit' = [credit EXCEPT ![p] = @ + left]
                  /\ advanced' = advanced + left
      BY <1>6 DEF PaySupplier
    <2> DEFINE open == OpenNotes(p)
               left == OrZero(x - OwedOn(open))
    <2>2. open \in SUBSET Notes /\ \A r \in open : notes[r].status = "received"
      BY DEF OpenNotes
    <2>3. x \in Nat
      BY <1>2
    <2>4. left \in Nat /\ left \in Int
      BY <1>1, <2>2, <2>3, OwedIsNumber
    <2>5. PICK order \in PaidOnes(open, x) :
            /\ Write(PaymentLegs(a, order, open, x) \o AdvanceLegs(a, Len(order), left))
            /\ remitted' = remitted \o [k \in 1..Len(order) |->
                           Remit(order[k], Share(order[k], open, x), "money", Len(rows) + k * Width(a))]
            /\ SharesPaid(open, x)
            /\ credit' = [credit EXCEPT ![p] = @ + left]
            /\ advanced' = advanced + left
      BY <2>1
    <2> HIDE DEF open, left
    <2>6. SupplierRows(a, order, open, x)
      BY <1>1, <2>2, <2>3, <2>4, <2>5, SupplierPaidRows
    <2>7. remitted' = remitted \o [k \in 1..Len(order) |->
                        Remit(order[k], Share(order[k], open, x), "money",
                              IF "money" = "money" THEN Len(rows) + k * Width(a) ELSE 0)]
      BY <2>5
    <2>8. NotesTyped' /\ \E new : PaysStep(new)
      BY <1>1, <2>2, <2>3, <2>5, <2>6, <2>7, SharesPaidFor
    <2>9. credit' \in [Suppliers -> Int]
      BY <1>1, <2>4, <2>5, CreditMoved
    <2>10. advanced' \in Int
      BY <1>1, <2>4, <2>5 DEF CreditTyped
    <2> QED
      BY <2>8, <2>9, <2>10 DEF CreditTyped
  <1>7. CASE TransferAdvance
    <2>1. PICK p \in Suppliers, q \in Suppliers, x \in Remits, settle \in BOOLEAN :
            LET open == IF settle THEN OpenNotes(q) ELSE {}
                left == OrZero(x - OwedOn(open))
            IN  \E order \in PaidOnes(open, x) :
                  /\ p # q /\ x <= credit[p]
                  /\ Len(remitted) + Len(order) <= MaxRemits
                  /\ credit' = [credit EXCEPT ![p] = @ - x, ![q] = @ + left]
                  /\ remitted' = remitted \o [k \in 1..Len(order) |->
                                   Remit(order[k], Share(order[k], open, x), "credit", 0)]
                  /\ SharesPaid(open, x)
                  /\ UNCHANGED <<advanced, books>>
      BY <1>7, Zenon DEF TransferAdvance
    <2> DEFINE open == IF settle THEN OpenNotes(q) ELSE {}
               left == OrZero(x - OwedOn(open))
    <2>2. open \in SUBSET Notes /\ \A r \in open : notes[r].status = "received"
      BY DEF OpenNotes
    <2>3. x \in Nat
      BY <1>2
    <2>4. left \in Nat
      BY <1>1, <2>2, <2>3, OwedIsNumber
    <2>5. PICK order \in PaidOnes(open, x) :
            /\ p # q
            /\ credit' = [credit EXCEPT ![p] = @ - x, ![q] = @ + left]
            /\ remitted' = remitted \o [k \in 1..Len(order) |->
                             Remit(order[k], Share(order[k], open, x), "credit", 0)]
            /\ SharesPaid(open, x)
            /\ UNCHANGED <<advanced, books>>
      BY <2>1
    <2> HIDE DEF open, left
    <2>6. PICK a \in Accounts : a = outside
      BY LedgerAssumption
    <2>7. remitted' = remitted \o [k \in 1..Len(order) |->
                        Remit(order[k], Share(order[k], open, x), "credit",
                              IF "credit" = "money" THEN Len(rows) + k * Width(a) ELSE 0)]
      BY <2>5
    <2>8. rows' = rows
      BY <2>5 DEF books
    <2>9. NotesTyped' /\ \E new : PaysStep(new)
      BY <1>1, <2>2, <2>3, <2>5, <2>7, <2>8, SharesPaidFor
    <2>10. credit[p] - x \in Int /\ credit[q] + left \in Int
      BY <1>1, <2>3, <2>4 DEF CreditTyped
    <2>11. credit' \in [Suppliers -> Int]
      BY <1>1, <2>5, <2>10 DEF CreditTyped
    <2> QED
      BY <1>1, <2>5, <2>9, <2>11 DEF CreditTyped
  <1> QED
    BY <1>4, <1>5, <1>6, <1>7 DEF Pays

\* A payment is cancelled: off its note, and out of the ledger if it is there.
CancelStep(n) ==
  /\ n \in DOMAIN remitted /\ remitted[n] # NoRemit /\ remitted[n] \in RemitSet
  /\ remitted' = [remitted EXCEPT ![n] = NoRemit]
  /\ \A r \in Notes : notes'[r].paid = IF r = remitted[n].note
                                         THEN OrZero(notes[r].paid - remitted[n].amount)
                                         ELSE notes[r].paid
  /\ OnlyPaidMoves
  /\ LedgerOK(rows', Payers) /\ DOMAIN rows \subseteq DOMAIN rows'
  /\ remitted[n].source = "credit" => rows' = rows
  /\ remitted[n].source = "money" =>
       /\ remitted[n].row \in DOMAIN rows
       /\ CanReverse(remitted[n].row, FALSE, FALSE) /\ WriteReversal(remitted[n].row)

LEMMA PaymentCancelled ==
  ASSUME AccountTyped, CancelPayment
  PROVE  NotesTyped' /\ CreditTyped' /\ \E n : CancelStep(n)
PROOF
  <1>1. /\ NotesTyped /\ RemitsTyped /\ CreditTyped /\ LedgerOK(rows, Payers) /\ RowsKnown
        /\ remitted \in Seq(RemitSet \cup {NoRemit})
    BY DEF AccountTyped, RemitsTyped
  <1>2. PICK n \in DOMAIN remitted :
          /\ remitted[n] # NoRemit
          /\ CreditBack(remitted[n]) /\ MoneyBack(remitted[n])
          /\ remitted' = [remitted EXCEPT ![n] = NoRemit]
          /\ notes' = [notes EXCEPT ![remitted[n].note].paid = OrZero(@ - remitted[n].amount)]
          /\ UNCHANGED advanced
    BY DEF CancelPayment
  <1> DEFINE q == remitted[n]
             r == q.note
  <1>3. q \in RemitSet
    BY <1>1, <1>2
  <1>4. /\ r \in Notes /\ q.amount \in Nat /\ q.amount \in Int /\ q.supplier \in Parties
        /\ q.source \in {"money", "credit"}
    BY <1>3 DEF RemitSet
  <1> HIDE DEF q
  <1> DEFINE v == OrZero(notes[r].paid - q.amount)
  <1>5. notes[r] \in NoteSet /\ v \in Nat
    BY <1>1, <1>4 DEF NotesTyped, NoteSet, NoteFields, OrZero
  <1>6. notes' = [notes EXCEPT ![r].paid = v]
    BY <1>2 DEF q
  <1> HIDE DEF v
  <1>7. NotesTyped'
    <2>1. [notes[r] EXCEPT !.paid = v] \in NoteSet
      BY <1>5 DEF NoteSet, NoteFields
    <2> HIDE DEF r
    <2> QED
      BY <2>1, <1>1, <1>4, <1>6 DEF NotesTyped
  <1>8. CreditTyped'
    <2>1. CASE q.source = "credit" /\ q.supplier # "none"
      <3>1. q.supplier \in Suppliers
        BY <1>4, <2>1 DEF Parties
      <3>2. credit' = [credit EXCEPT ![q.supplier] = @ + q.amount]
        BY <1>2, <2>1 DEF CreditBack, q
      <3>3. credit' \in [Suppliers -> Int]
        BY <1>1, <1>4, <3>1, <3>2, CreditMoved
      <3> QED
        BY <1>1, <1>2, <3>3 DEF CreditTyped
    <2>2. CASE ~(q.source = "credit" /\ q.supplier # "none")
      <3>1. credit' = credit
        BY <1>2, <2>2 DEF CreditBack, q
      <3> QED
        BY <1>1, <1>2, <3>1 DEF CreditTyped
    <2> QED
      BY <2>1, <2>2
  <1>9. \A p \in Notes : notes'[p].paid = IF p = r THEN v ELSE notes[p].paid
    BY <1>1, <1>6 DEF NotesTyped, NoteSet, NoteFields
  <1>14. OnlyPaidMoves
    BY <1>1, <1>6 DEF OnlyPaidMoves, NotesTyped, NoteSet, NoteFields
  <1>10. q.source = "credit" => rows' = rows
    BY <1>2 DEF MoneyBack, books, q
  <1>11. q.source = "money" => /\ q.row \in DOMAIN rows
                               /\ CanReverse(q.row, FALSE, FALSE) /\ WriteReversal(q.row)
    BY <1>1, <1>2 DEF MoneyBack, RowsKnown, q
  <1>12. LedgerOK(rows', Payers) /\ DOMAIN rows \subseteq DOMAIN rows'
    <2>1. CASE q.source = "credit"
      BY <2>1, <1>1, <1>10
    <2>2. CASE q.source = "money"
      <3> DEFINE k == q.row
      <3>1. k \in DOMAIN rows /\ CanReverse(k, FALSE, FALSE) /\ WriteReversal(k)
        BY <1>11, <2>2
      <3> HIDE DEF k
      <3>2. LedgerOK(rows', Payers)
        BY <1>1, <3>1, ReversingKeeps
      <3>3. DOMAIN rows \subseteq DOMAIN rows'
        BY <1>1, <3>1, Reversing
      <3> QED
        BY <3>2, <3>3
    <2> QED
      BY <1>4, <2>1, <2>2
  <1>13. CancelStep(n)
    BY <1>2, <1>3, <1>9, <1>10, <1>11, <1>12, <1>14 DEF CancelStep, q, v
  <1> QED
    BY <1>7, <1>8, <1>13

LEMMA AccountKept ==
  ASSUME AccountTyped, AccountNext, handOvers' = handOvers
  PROVE  AccountTyped'
PROOF
  <1>1. RemitsTyped /\ RowsKnown
    BY DEF AccountTyped
  <1>2. CASE Pays
    <2>1. NotesTyped' /\ CreditTyped' /\ \E new : PaysStep(new)
      BY <1>2, PaymentsMade
    <2>2. PICK new : PaysStep(new)
      BY <2>1
    <2>3. /\ new \in Seq(RemitSet) /\ remitted' = remitted \o new /\ LedgerOK(rows', Payers)
          /\ DOMAIN rows \subseteq DOMAIN rows'
          /\ \A k \in DOMAIN new : new[k].source = "money" => new[k].row \in DOMAIN rows'
      BY <2>2 DEF PaysStep
    <2>4. /\ RemitsTyped' /\ DOMAIN new = 1..Len(new)
          /\ \A n \in DOMAIN remitted : n \in DOMAIN remitted' /\ remitted'[n] = remitted[n]
          /\ \A k \in 1..Len(new) : remitted'[Len(remitted) + k] = new[k]
          /\ \A n \in DOMAIN remitted' : n \in DOMAIN remitted
                                         \/ \E k \in 1..Len(new) : n = Len(remitted) + k
      BY <1>1, <2>3, RemitsAdded
    <2>5. RowsKnown'
      BY <1>1, <2>3, <2>4 DEF RowsKnown
    <2> QED
      BY <2>1, <2>3, <2>4, <2>5 DEF AccountTyped
  <1>3. CASE CancelPayment
    <2>1. NotesTyped' /\ CreditTyped' /\ \E n : CancelStep(n)
      BY <1>3, PaymentCancelled
    <2>2. PICK n : CancelStep(n)
      BY <2>1
    <2>3. /\ n \in DOMAIN remitted /\ remitted' = [remitted EXCEPT ![n] = NoRemit]
          /\ LedgerOK(rows', Payers) /\ DOMAIN rows \subseteq DOMAIN rows'
      BY <2>2 DEF CancelStep
    <2>4. RemitsTyped'
      BY <1>1, <2>3 DEF RemitsTyped
    <2>5. RowsKnown'
      BY <1>1, <2>3 DEF RowsKnown, RemitsTyped
    <2> QED
      BY <2>1, <2>3, <2>4, <2>5 DEF AccountTyped
  <1> QED
    BY <1>2, <1>3 DEF AccountNext, Pays

------------------------------------------------------------------------------
\* The desk, and what moves on the shelves.

SupplyOK == AccountTyped /\ GoodsTyped /\ StoreTyped /\ DeskTyped

LEMMA DeskEntered ==
  ASSUME DeskTyped, NEW s \in Sessions, NEW there, NEW asked, NEW read,
         Enter(s, there, asked, read), HoldsFor(there, asked, read)
  PROVE  DeskTyped'
PROOF
  <1>1. \A t \in Sessions : /\ phase'[t] = IF t = s THEN there ELSE phase[t]
                            /\ job'[t] = IF t = s THEN asked ELSE job[t]
                            /\ seen'[t] = IF t = s THEN read ELSE seen[t]
    BY DEF DeskTyped, Enter
  <1>2. DOMAIN phase' = Sessions /\ DOMAIN job' = Sessions /\ DOMAIN seen' = Sessions
    BY DEF DeskTyped, Enter
  <1>3. ASSUME NEW t \in Sessions
        PROVE  HoldsFor(phase'[t], job'[t], seen'[t])
    <2>1. HoldsFor(phase[t], job[t], seen[t])
      BY DEF DeskTyped
    <2> QED
      BY <1>1, <2>1
  <1> QED
    BY <1>2, <1>3 DEF DeskTyped

LEMMA DeskLeft ==
  ASSUME DeskTyped, NEW s \in Sessions, NEW here, Leave(s, here)
  PROVE  DeskTyped'
PROOF
  <1>1. \A t \in Sessions : /\ phase'[t] = IF t = s THEN "idle" ELSE phase[t]
                            /\ job'[t] = IF t = s THEN NoJob ELSE job[t]
                            /\ seen'[t] = IF t = s THEN NothingSeen ELSE seen[t]
    BY DEF DeskTyped, Leave
  <1>2. DOMAIN phase' = Sessions /\ DOMAIN job' = Sessions /\ DOMAIN seen' = Sessions
    BY DEF DeskTyped, Leave
  <1>3. HoldsFor("idle", NoJob, NothingSeen)
    BY DEF HoldsFor
  <1>4. ASSUME NEW t \in Sessions
        PROVE  HoldsFor(phase'[t], job'[t], seen'[t])
    <2>1. HoldsFor(phase[t], job[t], seen[t])
      BY DEF DeskTyped
    <2> QED
      BY <1>1, <1>3, <2>1
  <1> QED
    BY <1>2, <1>4 DEF DeskTyped

LEMMA DeskStays ==
  ASSUME DeskTyped, UNCHANGED desk
  PROVE  DeskTyped'
  BY DEF DeskTyped, desk

\* What a request holds when its turn comes.
LEMMA AtDesk ==
  ASSUME DeskTyped, NEW s \in Sessions, NEW here, Leave(s, here)
  PROVE  HoldsFor(here, job[s], seen[s]) /\ DeskTyped'
  BY DeskLeft DEF DeskTyped, Leave

------------------------------------------------------------------------------
LEMMA GoodsStay ==
  ASSUME GoodsTyped, UNCHANGED goods
  PROVE  GoodsTyped'
  BY DEF GoodsTyped, goods

LEMMA ShelfMoved ==
  ASSUME GoodsTyped, NEW b, NEW v \in Int
  PROVE  [shelf EXCEPT ![b] = v] \in [Branches -> Int]
  BY DEF GoodsTyped

\* A lot that is whole may be dropped.
LEMMA DroppedLots ==
  ASSUME GoodsTyped, NEW which, LotsWhole(which)
  PROVE  [k \in DOMAIN lots |-> IF k \in which THEN [lots[k] EXCEPT !.gone = TRUE] ELSE lots[k]]
           \in Seq(KeptLots)
PROOF
  <1> DEFINE after(k) == IF k \in which THEN [lots[k] EXCEPT !.gone = TRUE] ELSE lots[k]
  <1>1. ASSUME NEW k \in DOMAIN lots
        PROVE  after(k) \in KeptLots
    <2>1. lots[k] \in KeptLots
      BY LotsInPlace
    <2>2. CASE k \in which
      <3> DEFINE l == lots[k]
      <3>1. l \in LotSet /\ l.left + l.sold + l.back + l.off = l.in /\ l.left = l.in
        BY <2>1, <2>2 DEF KeptLots, LotsWhole
      <3> HIDE DEF l
      <3>2. /\ l.left \in Nat /\ l.sold \in Nat /\ l.back \in Nat /\ l.off \in Nat /\ l.in \in Nat
        BY <3>1 DEF LotSet
      <3>3. l.sold + l.back = 0
        BY <3>1, <3>2
      <3>4. [l EXCEPT !.gone = TRUE] \in KeptLots
        BY <3>1, <3>2, <3>3 DEF KeptLots, LotSet
      <3> QED
        BY <3>4, <2>2 DEF l
    <2> QED
      BY <2>1, <2>2
  <1> HIDE DEF after
  <1>2. [k \in DOMAIN lots |-> after(k)] \in Seq(KeptLots)
    BY <1>1, LotsInPlace
  <1> QED
    BY <1>2 DEF after

LEMMA OrphanedLots ==
  ASSUME GoodsTyped, NEW which
  PROVE  Orphaned(which) \in Seq(KeptLots)
PROOF
  <1> DEFINE after(k) == IF k \in which THEN [lots[k] EXCEPT !.note = 0, !.item = 0] ELSE lots[k]
  <1>1. ASSUME NEW k \in DOMAIN lots
        PROVE  after(k) \in KeptLots
    <2>1. lots[k] \in KeptLots
      BY LotsInPlace
    <2>2. [lots[k] EXCEPT !.note = 0, !.item = 0] \in KeptLots
      BY <2>1 DEF KeptLots, LotSet
    <2> QED
      BY <2>1, <2>2
  <1> HIDE DEF after
  <1>2. [k \in DOMAIN lots |-> after(k)] \in Seq(KeptLots)
    BY <1>1, LotsInPlace
  <1> QED
    BY <1>2 DEF after, Orphaned

\* Lots that move, and the split ones: the sold part stays.
LEMMA MovedLots ==
  ASSUME GoodsTyped, NotesTyped, NEW r \in Notes, NEW from, NEW to \in Branches, from \in Branches,
         MoveLots(r, from, to)
  PROVE  GoodsTyped'
PROOF
  <1> DEFINE which == {k \in LotsOf(r, notes[r].item) : lots[k].branch = from /\ lots[k].left > 0}
             begun == {k \in which : lots[k].left < lots[k].in}
             moved == LeftIn(which)
             after(k) == CASE k \in begun -> [lots[k] EXCEPT !.in = @ - lots[k].left, !.left = 0]
                           [] k \in which \ begun -> [lots[k] EXCEPT !.branch = to]
                           [] OTHER -> lots[k]
  <1>1. which \subseteq DOMAIN lots /\ begun \subseteq DOMAIN lots
        /\ \A k \in which : ~lots[k].gone
    BY DEF LotsOf
  <1>2. IsFiniteSet(which) /\ IsFiniteSet(begun)
    BY <1>1, LotsInPlace, FS_Subset
  <1>3. moved \in Nat
    BY <1>1, <1>2, LotsInPlace, HeldIsNumber, SMTT(60) DEF LeftIn
  <1>4. PICK split \in Ascending(begun) :
          lots' = [k \in DOMAIN lots |-> after(k)]
                  \o [j \in DOMAIN split |-> Lot(r, notes[r].item, to, lots[split[j]].left)]
    BY ZenonT(60) DEF MoveLots
  <1>5. /\ shelf' = [shelf EXCEPT ![from] = OrZero(@ - moved), ![to] = @ + moved]
        /\ stock' = stock
    BY Zenon DEF MoveLots
  <1> HIDE DEF which, begun, moved
  <1>6. ASSUME NEW k \in DOMAIN lots
        PROVE  after(k) \in KeptLots
    <2> DEFINE l == lots[k]
    <2>1. l \in KeptLots
      BY LotsInPlace
    <2>2. /\ l \in LotSet /\ l.left + l.sold + l.back + l.off = l.in
          /\ l.gone => l.sold + l.back = 0
      BY <2>1 DEF KeptLots
    <2> HIDE DEF l
    <2>3. /\ l.left \in Nat /\ l.sold \in Nat /\ l.back \in Nat /\ l.off \in Nat /\ l.in \in Nat
      BY <2>2 DEF LotSet
    <2> DEFINE d == l.in - l.left
    <2>4. d \in Nat /\ 0 + l.sold + l.back + l.off = d
      BY <2>2, <2>3
    <2>5. [l EXCEPT !.in = @ - l.left, !.left = 0] = [l EXCEPT !.in = d, !.left = 0]
      BY Zenon
    <2> HIDE DEF d
    <2>6. [l EXCEPT !.in = d, !.left = 0] \in KeptLots
      BY <2>2, <2>4 DEF KeptLots, LotSet
    <2>7. [l EXCEPT !.branch = to] \in KeptLots
      BY <2>2 DEF KeptLots, LotSet, Places
    <2>8. CASE k \in begun
      BY <2>5, <2>6, <2>8 DEF l
    <2>9. CASE k \notin begun /\ k \in which
      BY <2>7, <2>9 DEF l
    <2>10. CASE k \notin begun /\ k \notin which
      BY <2>1, <2>10 DEF l
    <2> QED
      BY <2>8, <2>9, <2>10
  <1> HIDE DEF after
  <1>7. [k \in DOMAIN lots |-> after(k)] \in Seq(KeptLots)
    BY <1>6, LotsInPlace
  <1> DEFINE fresh == [j \in DOMAIN split |-> Lot(r, notes[r].item, to, lots[split[j]].left)]
  <1>8. fresh \in Seq(KeptLots)
    <2>1. split \in Seq(begun) /\ Len(split) \in Nat /\ DOMAIN split = 1..Len(split)
      BY <1>2, <1>4, InOrderOf
    <2>2. \A j \in 1..Len(split) : split[j] \in DOMAIN lots
      BY <2>1, <1>1
    <2>3. \A j \in 1..Len(split) : lots[split[j]].left \in Nat
      BY <2>2, LotsInPlace
    <2>4. r \in Nat /\ notes[r].item \in Nat /\ to \in Places
      BY SupplierAssumption DEF NotesTyped, NoteSet, NoteFields, Places
    <2>5. \A j \in 1..Len(split) : Lot(r, notes[r].item, to, lots[split[j]].left) \in KeptLots
      BY <2>3, <2>4, FreshLot
    <2> QED
      BY <2>1, <2>5
  <1>9. lots' \in Seq(KeptLots)
    BY <1>4, <1>7, <1>8
  <1>10. shelf' \in [Branches -> Int]
    <2>1. shelf \in [Branches -> Int]
      BY DEF GoodsTyped
    <2>2. OrZero(shelf[from] - moved) \in Int /\ shelf[to] + moved \in Int
          /\ (from = to => OrZero(shelf[from] - moved) + moved \in Int)
      BY <2>1, <1>3 DEF OrZero
    <2> QED
      BY <1>5, <2>1, <2>2
  <1> QED
    BY <1>5, <1>9, <1>10 DEF GoodsTyped

\* What leaves the shelf lot by lot leaves it as a number.
LEMMA OffTheShelf ==
  ASSUME GoodsTyped, NotesTyped, NEW r \in Notes, NEW item, NEW q \in Nat,
         LotsWhole(LotsOf(r, item)), OffShelf(r, item, q)
  PROVE  GoodsTyped'
PROOF
  <1> DEFINE which == LotsOf(r, item)
  <1>1. PICK b : shelf' = [shelf EXCEPT ![b] = OrZero(@ - q)]
    BY DEF OffShelf
  <1>2. shelf' \in [Branches -> Int]
    <2>1. shelf \in [Branches -> Int]
      BY DEF GoodsTyped
    <2>2. \A c \in Branches : OrZero(shelf[c] - q) \in Int
      BY <2>1 DEF OrZero
    <2> QED
      BY <1>1, <2>1, <2>2
  <1>3. lots' \in Seq(KeptLots)
    BY DroppedLots DEF OffShelf
  <1>4. stock' \in Int
    BY DEF OffShelf, OrZero, GoodsTyped
  <1> QED
    BY <1>2, <1>3, <1>4 DEF GoodsTyped

------------------------------------------------------------------------------
\* Every handler of a delivery keeps SupplyOK.

LEMMA NotesChanged ==
  ASSUME AccountTyped, NotesTyped', UNCHANGED <<remitted, credit, advanced, books>>,
         handOvers' = handOvers
  PROVE  AccountTyped'
  BY DEF AccountTyped, RemitsTyped, CreditTyped, RowsKnown, books

LEMMA AccountStays ==
  ASSUME AccountTyped, UNCHANGED <<account, books>>, handOvers' = handOvers
  PROVE  AccountTyped'
  BY DEF AccountTyped, NotesTyped, RemitsTyped, CreditTyped, RowsKnown, books, account

LEMMA StoreStays ==
  ASSUME StoreTyped, UNCHANGED store
  PROVE  StoreTyped' /\ handOvers' = handOvers
  BY DEF StoreTyped, store

LEMMA OneNoteChanged ==
  ASSUME NotesTyped, NEW r \in Notes, NEW n \in NoteSet, notes' = [notes EXCEPT ![r] = n]
  PROVE  NotesTyped'
  BY DEF NotesTyped

LEMMA CreateNoteKeeps ==
  ASSUME SupplyOK, CreateNote, UNCHANGED store
  PROVE  SupplyOK'
PROOF
  <1>1. AccountTyped /\ GoodsTyped /\ StoreTyped /\ DeskTyped /\ NotesTyped
    BY DEF SupplyOK, AccountTyped
  <1>2. PICK r \in Notes, b \in Branches, p \in Suppliers \union {"none"}, q \in Lines,
             draft \in BOOLEAN :
          /\ ~There(r) /\ notes[r].item = 0
          /\ \A earlier \in Notes : earlier < r => notes[earlier].item # 0
          /\ ~draft => q > 0
          /\ notes' = [notes EXCEPT ![r] =
                   [BlankNote EXCEPT !.status = IF draft THEN "draft" ELSE "received",
                                     !.supplier = p, !.branch = b, !.total = q, !.item = 1]]
          /\ IF draft THEN UNCHANGED goods ELSE PutOnShelf(r, 1, b, q)
          /\ UNCHANGED <<remitted, credit, advanced, books, desk>>
    BY Zenon DEF CreateNote
  <1>3. q \in Nat /\ r \in Nat /\ b \in Places /\ 1 \in Nat /\ p \in Parties
    BY DeliveryAssumption, SupplierAssumption DEF Places, Parties
  <1> DEFINE status == IF draft THEN "draft" ELSE "received"
             n == [BlankNote EXCEPT !.status = status,
                                    !.supplier = p, !.branch = b, !.total = q, !.item = 1]
  <1>4. status \in {"draft", "received"}
    OBVIOUS
  <1>7. notes' = [notes EXCEPT ![r] = n]
    BY <1>2
  <1> HIDE DEF status
  <1>5. n \in NoteSet
    BY <1>3, <1>4 DEF NoteSet, NoteFields, BlankNote
  <1> HIDE DEF n
  <1>6. NotesTyped'
    BY <1>1, <1>5, <1>7, OneNoteChanged
  <1>8. GoodsTyped'
    <2>1. CASE draft
      BY <1>1, <1>2, <2>1, GoodsStay
    <2>2. CASE ~draft
      <3>1. PutOnShelf(r, 1, b, q)
        BY <1>2, <2>2
      <3> QED
        BY <1>1, <1>3, <3>1, ShelfFilled
    <2> QED
      BY <2>1, <2>2
  <1>9. StoreTyped' /\ handOvers' = handOvers
    BY <1>1, StoreStays
  <1>10. AccountTyped'
    BY <1>1, <1>2, <1>6, <1>9, NotesChanged
  <1>11. DeskTyped'
    BY <1>1, <1>2, DeskStays
  <1> QED
    BY <1>8, <1>9, <1>10, <1>11 DEF SupplyOK

LEMMA SaleKeeps ==
  ASSUME SupplyOK, Sale, UNCHANGED store
  PROVE  SupplyOK'
PROOF
  <1>1. AccountTyped /\ GoodsTyped /\ StoreTyped /\ DeskTyped
    BY DEF SupplyOK
  <1>2. PICK b \in Branches, q \in Cuts :
          /\ lots' = [k \in DOMAIN lots |-> [lots[k] EXCEPT !.left = @ - Take(k, OnShelf(b), q),
                                                            !.sold = @ + Take(k, OnShelf(b), q)]]
          /\ shelf' = [shelf EXCEPT ![b] = @ - q]
          /\ stock' = stock - q
          /\ UNCHANGED <<account, books, desk>>
    BY DEF Sale
  <1>3. q \in Nat
    BY DeliveryAssumption
  <1>4. OnShelf(b) \in SUBSET DOMAIN lots /\ \A k \in OnShelf(b) : ~lots[k].gone
    BY DEF OnShelf
  <1>5. lots' \in Seq(KeptLots)
    BY <1>1, <1>2, <1>3, <1>4, DrawnLots
  <1>11. shelf[b] - q \in Int /\ stock - q \in Int
    BY <1>1, <1>3 DEF GoodsTyped
  <1>6. shelf' \in [Branches -> Int] /\ stock' \in Int
    BY <1>1, <1>2, <1>11, ShelfMoved
  <1>7. GoodsTyped'
    BY <1>5, <1>6 DEF GoodsTyped
  <1>8. StoreTyped' /\ handOvers' = handOvers
    BY <1>1, StoreStays
  <1>9. AccountTyped'
    BY <1>1, <1>2, <1>8, AccountStays
  <1>10. DeskTyped'
    BY <1>1, <1>2, DeskStays
  <1> QED
    BY <1>7, <1>8, <1>9, <1>10 DEF SupplyOK

\* A request that comes in reads, and no more.
Looks(s) == \/ LookToReceive(s) \/ LookToEdit(s) \/ LookToReverse(s) \/ LookToRelabel(s)
            \/ LookToSendBack(s)

LEMMA LooksKeep ==
  ASSUME SupplyOK, NEW s \in Sessions, Looks(s), UNCHANGED store
  PROVE  SupplyOK'
PROOF
  <1>1. AccountTyped /\ GoodsTyped /\ StoreTyped /\ DeskTyped /\ NotesTyped
    BY DEF SupplyOK, AccountTyped
  <1>2. \A r \in Notes : notes[r] \in NoteSet /\ notes[r].supplier \in Parties
                         /\ (notes[r].status # "none" => notes[r].branch \in Branches)
    BY <1>1 DEF NotesTyped, NoteSet, NoteFields
  <1>3. DeskTyped'
    <2>1. CASE LookToReceive(s)
      <3>1. PICK r \in Notes : /\ notes[r].status = "draft"
                               /\ Enter(s, "receive", [kind |-> "receive", note |-> r], notes[r])
        BY <2>1 DEF LookToReceive
      <3>2. HoldsFor("receive", [kind |-> "receive", note |-> r], notes[r])
        BY <1>2, <3>1 DEF HoldsFor
      <3> QED
        BY <1>1, <3>1, <3>2, DeskEntered
    <2>2. CASE LookToEdit(s)
      <3>1. PICK r \in Notes, q \in Lines, b \in Branches :
              Enter(s, "edit", [kind |-> "edit", note |-> r, total |-> q, branch |-> b], NothingSeen)
        BY <2>2 DEF LookToEdit
      <3>2. HoldsFor("edit", [kind |-> "edit", note |-> r, total |-> q, branch |-> b], NothingSeen)
        BY DeliveryAssumption DEF HoldsFor
      <3> QED
        BY <1>1, <3>1, <3>2, DeskEntered
    <2>3. CASE LookToReverse(s)
      <3>1. PICK r \in Notes, end \in {"unreceive", "remove"} :
              There(r) /\ Enter(s, "reverse", [kind |-> end, note |-> r], notes[r])
        BY <2>3 DEF LookToReverse
      <3>2. HoldsFor("reverse", [kind |-> end, note |-> r], notes[r])
        BY <1>2, <3>1 DEF HoldsFor, There
      <3> QED
        BY <1>1, <3>1, <3>2, DeskEntered
    <2>4. CASE LookToRelabel(s)
      <3>1. PICK r \in Notes : There(r) /\
              (\/ \E p \in (Suppliers \union {"none"}) \ {notes[r].supplier} :
                    Enter(s, "relabel", [kind |-> "supplier", note |-> r, supplier |-> p,
                                         branch |-> notes[r].branch], notes[r])
               \/ \E b \in Branches \ {notes[r].branch} :
                    Enter(s, "relabel", [kind |-> "branch", note |-> r,
                                         supplier |-> notes[r].supplier, branch |-> b], notes[r]))
        BY <2>4 DEF LookToRelabel
      <3>2. CASE \E p \in (Suppliers \union {"none"}) \ {notes[r].supplier} :
                   Enter(s, "relabel", [kind |-> "supplier", note |-> r, supplier |-> p,
                                        branch |-> notes[r].branch], notes[r])
        <4>1. PICK p \in Parties :
                   Enter(s, "relabel", [kind |-> "supplier", note |-> r, supplier |-> p,
                                        branch |-> notes[r].branch], notes[r])
          BY <3>2 DEF Parties
        <4>2. HoldsFor("relabel", [kind |-> "supplier", note |-> r, supplier |-> p,
                                   branch |-> notes[r].branch], notes[r])
          BY <1>2, <3>1 DEF HoldsFor, There
        <4> QED
          BY <1>1, <4>1, <4>2, DeskEntered
      <3>3. CASE \E b \in Branches \ {notes[r].branch} :
                   Enter(s, "relabel", [kind |-> "branch", note |-> r,
                                        supplier |-> notes[r].supplier, branch |-> b], notes[r])
        <4>1. PICK b \in Branches :
                   Enter(s, "relabel", [kind |-> "branch", note |-> r,
                                        supplier |-> notes[r].supplier, branch |-> b], notes[r])
          BY <3>3
        <4>2. HoldsFor("relabel", [kind |-> "branch", note |-> r,
                                   supplier |-> notes[r].supplier, branch |-> b], notes[r])
          BY <1>2, <3>1 DEF HoldsFor, There
        <4> QED
          BY <1>1, <4>1, <4>2, DeskEntered
      <3> QED
        BY <3>1, <3>2, <3>3
    <2>5. CASE LookToSendBack(s)
      <3>1. PICK r \in Notes, q \in Cuts :
              /\ notes[r].status = "received"
              /\ Enter(s, "send", [kind |-> "send", note |-> r, units |-> q], notes[r])
        BY <2>5 DEF LookToSendBack
      <3>2. HoldsFor("send", [kind |-> "send", note |-> r, units |-> q], notes[r])
        BY <1>2, <3>1, DeliveryAssumption DEF HoldsFor
      <3> QED
        BY <1>1, <3>1, <3>2, DeskEntered
    <2> QED
      BY <2>1, <2>2, <2>3, <2>4, <2>5 DEF Looks
  <1>4. UNCHANGED <<account, books, goods>>
    BY DEF Looks, LookToReceive, LookToEdit, LookToReverse, LookToRelabel, LookToSendBack
  <1>5. StoreTyped' /\ handOvers' = handOvers
    BY <1>1, StoreStays
  <1>6. AccountTyped' /\ GoodsTyped'
    BY <1>1, <1>4, <1>5, AccountStays, GoodsStay
  <1> QED
    BY <1>3, <1>5, <1>6 DEF SupplyOK

LEMMA GivesUpKeeps ==
  ASSUME SupplyOK, NEW s \in Sessions, DeliveryGivesUp(s), UNCHANGED store
  PROVE  SupplyOK'
PROOF
  <1>1. AccountTyped /\ GoodsTyped /\ StoreTyped /\ DeskTyped
    BY DEF SupplyOK
  <1>2. UNCHANGED <<account, books, goods>> /\ Leave(s, phase[s])
    BY DEF DeliveryGivesUp, Abandon
  <1>3. DeskTyped'
    BY <1>1, <1>2, DeskLeft
  <1>4. StoreTyped' /\ handOvers' = handOvers
    BY <1>1, StoreStays
  <1>5. AccountTyped' /\ GoodsTyped'
    BY <1>1, <1>2, <1>4, AccountStays, GoodsStay
  <1> QED
    BY <1>3, <1>4, <1>5 DEF SupplyOK

\* What a request of phase here holds, taken apart.
LEMMA HeldBy ==
  ASSUME DeskTyped, NEW s \in Sessions, NEW here, Leave(s, here)
  PROVE  /\ here \in {"receive", "edit", "reverse", "relabel", "send", "hand"} => job[s].note \in Notes
         /\ here \in {"receive", "reverse", "relabel", "send", "hand"} =>
              /\ seen[s] \in NoteSet /\ seen[s].branch \in Branches
              /\ seen[s].item \in Nat /\ seen[s].total \in Nat /\ seen[s].supplier \in Parties
         /\ here = "edit" => job[s].total \in Nat /\ job[s].branch \in Branches
         /\ here = "relabel" => job[s].supplier \in Parties /\ job[s].branch \in Branches
         /\ here \in {"send", "hand"} => job[s].units \in Nat \ {0}
         /\ here = "hand" => job[s].branch \in Branches
  BY AtDesk DEF HoldsFor, NoteSet, NoteFields

LEMMA ReceiveKeeps ==
  ASSUME SupplyOK, NEW s \in Sessions, ReceiveNote(s), UNCHANGED store
  PROVE  SupplyOK'
PROOF
  <1>1. AccountTyped /\ GoodsTyped /\ StoreTyped /\ DeskTyped /\ NotesTyped
    BY DEF SupplyOK, AccountTyped
  <1> DEFINE r == job[s].note
             b == seen[s].branch
             q == seen[s].total
             item == seen[s].item
  <1>2. /\ Leave(s, "receive") /\ There(r) /\ PutOnShelf(r, item, b, q)
        /\ notes' = [notes EXCEPT ![r].status = "received"]
        /\ UNCHANGED <<remitted, credit, advanced, books>>
    BY DEF ReceiveNote, ItemThere
  <1>3. r \in Notes /\ b \in Branches /\ q \in Nat /\ item \in Nat
    BY <1>1, <1>2, HeldBy
  <1> HIDE DEF r, b, q, item
  <1>4. r \in Nat /\ b \in Places
    BY <1>3, SupplierAssumption DEF Places
  <1>5. GoodsTyped'
    BY <1>1, <1>2, <1>3, <1>4, ShelfFilled
  <1>6. NotesTyped'
    <2>1. notes[r] \in NoteSet
      BY <1>1, <1>3 DEF NotesTyped
    <2>2. [notes[r] EXCEPT !.status = "received"] \in NoteSet
      BY <1>2, <2>1 DEF NoteSet, NoteFields, There
    <2> QED
      BY <1>1, <1>2, <1>3, <2>2 DEF NotesTyped
  <1>7. StoreTyped' /\ handOvers' = handOvers
    BY <1>1, StoreStays
  <1>8. AccountTyped'
    BY <1>1, <1>2, <1>6, <1>7, NotesChanged
  <1>9. DeskTyped'
    BY <1>1, <1>2, DeskLeft
  <1> QED
    BY <1>5, <1>7, <1>8, <1>9 DEF SupplyOK

LEMMA EditKeeps ==
  ASSUME SupplyOK, NEW s \in Sessions, EditNote(s), UNCHANGED store
  PROVE  SupplyOK'
PROOF
  <1>1. AccountTyped /\ GoodsTyped /\ StoreTyped /\ DeskTyped /\ NotesTyped
    BY DEF SupplyOK, AccountTyped
  <1> DEFINE r == job[s].note
             b == job[s].branch
             q == job[s].total
  <1>2. /\ Leave(s, "edit")
        /\ notes' = [notes EXCEPT ![r].item = @ + 1, ![r].total = q, ![r].branch = b]
        /\ lots' = Orphaned(LotsOf(r, notes[r].item))
        /\ UNCHANGED <<remitted, credit, advanced, books, shelf, stock>>
    BY DEF EditNote
  <1>3. r \in Notes /\ b \in Branches /\ q \in Nat
    BY <1>1, <1>2, HeldBy
  <1> HIDE DEF r, b, q
  <1>5. GoodsTyped'
    BY <1>1, <1>2, OrphanedLots DEF GoodsTyped
  <1>6. NotesTyped'
    <2> DEFINE i == notes[r].item + 1
    <2>1. notes[r] \in NoteSet /\ i \in Nat /\ b \in Places
      BY <1>1, <1>3 DEF NotesTyped, NoteSet, NoteFields, Places
    <2>2. notes' = [notes EXCEPT ![r] = [notes[r] EXCEPT !.item = i, !.total = q, !.branch = b]]
      BY <1>1, <1>2, <1>3 DEF NotesTyped
    <2> HIDE DEF i
    <2>3. [notes[r] EXCEPT !.item = i, !.total = q, !.branch = b] \in NoteSet
      BY <1>3, <2>1 DEF NoteSet, NoteFields
    <2> QED
      BY <1>1, <1>3, <2>2, <2>3, OneNoteChanged
  <1>7. StoreTyped' /\ handOvers' = handOvers
    BY <1>1, StoreStays
  <1>8. AccountTyped'
    BY <1>1, <1>2, <1>6, <1>7, NotesChanged
  <1>9. DeskTyped'
    BY <1>1, <1>2, DeskLeft
  <1> QED
    BY <1>5, <1>7, <1>8, <1>9 DEF SupplyOK

LEMMA UnreceiveKeeps ==
  ASSUME SupplyOK, NEW s \in Sessions, Unreceive(s), UNCHANGED store
  PROVE  SupplyOK'
PROOF
  <1>1. AccountTyped /\ GoodsTyped /\ StoreTyped /\ DeskTyped /\ NotesTyped
    BY DEF SupplyOK, AccountTyped
  <1> DEFINE r == job[s].note
             q == seen[s].total
             item == seen[s].item
  <1>2. /\ Leave(s, "reverse") /\ notes[r].status = "received"
        /\ LotsWhole(LotsOf(r, item)) /\ OffShelf(r, item, q)
        /\ notes' = [notes EXCEPT ![r].status = "draft"]
        /\ UNCHANGED <<remitted, credit, advanced, books>>
    BY DEF Unreceive
  <1>3. r \in Notes /\ q \in Nat
    BY <1>1, <1>2, HeldBy
  <1> HIDE DEF r, q, item
  <1>5. GoodsTyped'
    BY <1>1, <1>2, <1>3, OffTheShelf
  <1>6. NotesTyped'
    <2>1. notes[r] \in NoteSet
      BY <1>1, <1>3 DEF NotesTyped
    <2>2. [notes[r] EXCEPT !.status = "draft"] \in NoteSet
      BY <1>2, <2>1 DEF NoteSet, NoteFields
    <2> QED
      BY <1>1, <1>2, <1>3, <2>2 DEF NotesTyped
  <1>7. StoreTyped' /\ handOvers' = handOvers
    BY <1>1, StoreStays
  <1>8. AccountTyped'
    BY <1>1, <1>2, <1>6, <1>7, NotesChanged
  <1>9. DeskTyped'
    BY <1>1, <1>2, DeskLeft
  <1> QED
    BY <1>5, <1>7, <1>8, <1>9 DEF SupplyOK

\* Payments of a note that goes are cancelled, or told their supplier again.
LEMMA RemitsRemarked ==
  ASSUME RemitsTyped, RowsKnown, NEW r \in Notes, NEW q \in Parties,
         \/ remitted' = [n \in DOMAIN remitted |-> IF n \in Standing(r) THEN NoRemit ELSE remitted[n]]
         \/ remitted' = [n \in DOMAIN remitted |->
                           IF n \in Standing(r) THEN [remitted[n] EXCEPT !.supplier = q]
                           ELSE remitted[n]],
         handOvers' = handOvers, UNCHANGED books
  PROVE  RemitsTyped' /\ RowsKnown'
PROOF
  <1>1. /\ DOMAIN remitted = 1..Len(remitted) /\ Len(remitted) \in Nat
        /\ \A n \in DOMAIN remitted : remitted[n] \in RemitSet \cup {NoRemit}
    BY DEF RemitsTyped
  <1>2. r # 0
    BY SupplierAssumption
  <1>3. \A n \in Standing(r) : remitted[n] \in RemitSet
    BY <1>1, <1>2 DEF Standing, NoRemit
  <1>4. \A n \in Standing(r) : [remitted[n] EXCEPT !.supplier = q] \in RemitSet
    BY <1>3 DEF RemitSet
  <1>5. DOMAIN remitted' = DOMAIN remitted
    OBVIOUS
  <1>6. ASSUME NEW n \in DOMAIN remitted
        PROVE  /\ remitted'[n] \in RemitSet \cup {NoRemit}
               /\ remitted'[n] # NoRemit => /\ remitted[n] # NoRemit
                                            /\ remitted'[n].source = remitted[n].source
                                            /\ remitted'[n].row = remitted[n].row
    <2>1. CASE n \notin Standing(r)
      BY <1>1, <2>1
    <2>2. CASE n \in Standing(r)
      <3>1. remitted[n] \in RemitSet /\ remitted[n] # NoRemit
        BY <1>2, <1>3, <2>2 DEF Standing, NoRemit
      <3>2. remitted'[n] = NoRemit \/ remitted'[n] = [remitted[n] EXCEPT !.supplier = q]
        BY <2>2
      <3>3. CASE remitted'[n] = NoRemit
        BY <3>3
      <3>4. CASE remitted'[n] = [remitted[n] EXCEPT !.supplier = q]
        BY <3>1, <3>4, <1>4, <2>2 DEF RemitSet
      <3> QED
        BY <3>2, <3>3, <3>4
    <2> QED
      BY <2>1, <2>2
  <1>7. remitted' = [n \in 1..Len(remitted) |-> remitted'[n]]
    BY <1>1
  <1>8. RemitsTyped'
    BY <1>1, <1>5, <1>6, <1>7, Mapped DEF RemitsTyped
  <1> QED
    BY <1>5, <1>6, <1>8 DEF RowsKnown, books

LEMMA RemoveKeeps ==
  ASSUME SupplyOK, NEW s \in Sessions, RemoveNote(s), UNCHANGED store
  PROVE  SupplyOK'
PROOF
  <1>1. AccountTyped /\ GoodsTyped /\ StoreTyped /\ DeskTyped /\ NotesTyped /\ RemitsTyped
        /\ CreditTyped /\ RowsKnown /\ LedgerOK(rows, Payers)
    BY DEF SupplyOK, AccountTyped
  <1> DEFINE r == job[s].note
             q == seen[s].total
             item == seen[s].item
  <1>2. /\ Leave(s, "reverse")
        /\ IF notes[r].status = "received"
             THEN LotsWhole(LotsOf(r, item)) /\ OffShelf(r, item, q)
             ELSE UNCHANGED goods
        /\ notes' = [notes EXCEPT ![r] = [BlankNote EXCEPT !.item = notes[r].item]]
        /\ remitted' = [n \in DOMAIN remitted |-> IF n \in Standing(r) THEN NoRemit ELSE remitted[n]]
        /\ UNCHANGED <<credit, advanced, books>>
    BY DEF RemoveNote
  <1>3. r \in Notes /\ q \in Nat
    BY <1>1, <1>2, HeldBy
  <1> HIDE DEF r, q, item
  <1>5. GoodsTyped'
    BY <1>1, <1>2, <1>3, OffTheShelf, GoodsStay
  <1>6. NotesTyped'
    <2>1. notes[r].item \in Nat
      BY <1>1, <1>3 DEF NotesTyped, NoteSet, NoteFields
    <2>2. [BlankNote EXCEPT !.item = notes[r].item] \in NoteSet
      BY <2>1 DEF NoteSet, NoteFields, BlankNote, Places, Parties
    <2> QED
      BY <1>1, <1>2, <1>3, <2>2, OneNoteChanged
  <1>7. StoreTyped' /\ handOvers' = handOvers
    BY <1>1, StoreStays
  <1>8. PICK p \in Parties : p = "none"
    BY DEF Parties
  <1>9. RemitsTyped' /\ RowsKnown'
    BY <1>1, <1>2, <1>3, <1>7, <1>8, RemitsRemarked
  <1>10. AccountTyped'
    BY <1>1, <1>2, <1>6, <1>9 DEF AccountTyped, CreditTyped, books
  <1>11. DeskTyped'
    BY <1>1, <1>2, DeskLeft
  <1> QED
    BY <1>5, <1>7, <1>10, <1>11 DEF SupplyOK

LEMMA RelabelKeeps ==
  ASSUME SupplyOK, NEW s \in Sessions, Relabel(s), UNCHANGED store
  PROVE  SupplyOK'
PROOF
  <1>1. AccountTyped /\ GoodsTyped /\ StoreTyped /\ DeskTyped /\ NotesTyped /\ RemitsTyped
        /\ CreditTyped /\ RowsKnown /\ LedgerOK(rows, Payers)
    BY DEF SupplyOK, AccountTyped
  <1> DEFINE r == job[s].note
             q == job[s].supplier
             b == job[s].branch
             from == seen[s].branch
  <1>2. /\ Leave(s, "relabel")
        /\ notes' = [notes EXCEPT ![r].supplier = q, ![r].branch = b]
        /\ IF job[s].kind = "branch" /\ seen[s].status = "received"
             THEN MoveLots(r, from, b) ELSE UNCHANGED goods
        /\ remitted' = IF job[s].kind = "branch" THEN remitted
                       ELSE [n \in DOMAIN remitted |->
                               IF n \in Standing(r) THEN [remitted[n] EXCEPT !.supplier = q]
                               ELSE remitted[n]]
        /\ UNCHANGED <<credit, advanced, books>>
    BY DEF Relabel
  <1>3. r \in Notes /\ q \in Parties /\ b \in Branches /\ from \in Branches
    BY <1>1, <1>2, HeldBy
  <1> HIDE DEF r, q, b, from
  <1>5. GoodsTyped'
    BY <1>1, <1>2, <1>3, MovedLots, GoodsStay
  <1>6. NotesTyped'
    <2>1. notes[r] \in NoteSet /\ b \in Places
      BY <1>1, <1>3 DEF NotesTyped, Places
    <2>2. notes' = [notes EXCEPT ![r] = [notes[r] EXCEPT !.supplier = q, !.branch = b]]
      BY <1>1, <1>2, <1>3 DEF NotesTyped
    <2>3. [notes[r] EXCEPT !.supplier = q, !.branch = b] \in NoteSet
      BY <1>3, <2>1 DEF NoteSet, NoteFields
    <2> QED
      BY <1>1, <1>3, <2>2, <2>3, OneNoteChanged
  <1>7. StoreTyped' /\ handOvers' = handOvers
    BY <1>1, StoreStays
  <1>9. RemitsTyped' /\ RowsKnown'
    <2>1. CASE job[s].kind = "branch"
      BY <1>1, <1>2, <1>7, <2>1 DEF RemitsTyped, RowsKnown, books
    <2>2. CASE job[s].kind # "branch"
      BY <1>1, <1>2, <1>3, <1>7, <2>2, RemitsRemarked
    <2> QED
      BY <2>1, <2>2
  <1>10. AccountTyped'
    BY <1>1, <1>2, <1>6, <1>9 DEF AccountTyped, CreditTyped, books
  <1>11. DeskTyped'
    BY <1>1, <1>2, DeskLeft
  <1> QED
    BY <1>5, <1>7, <1>10, <1>11 DEF SupplyOK

LEMMA SendBackKeeps ==
  ASSUME SupplyOK, NEW s \in Sessions, SendBack(s), UNCHANGED store
  PROVE  SupplyOK'
PROOF
  <1>1. AccountTyped /\ GoodsTyped /\ StoreTyped /\ DeskTyped /\ NotesTyped
    BY DEF SupplyOK, AccountTyped
  <1> DEFINE r == job[s].note
             q == job[s].units
             b == seen[s].branch
             which == LotsOf(r, seen[s].item)
  <1>2. /\ Leave(s, "send")
        /\ lots' = [k \in DOMAIN lots |-> [lots[k] EXCEPT !.left = @ - Take(k, which, q),
                                                          !.back = @ + Take(k, which, q)]]
        /\ shelf' = [shelf EXCEPT ![b] = @ - q]
        /\ stock' = OrZero(stock - q)
        /\ notes' = [notes EXCEPT ![r].sentBack = @ + q, ![r].returns = TRUE]
        /\ UNCHANGED <<remitted, credit, advanced, books>>
    BY DEF SendBack
  <1>3. r \in Notes /\ q \in Nat /\ b \in Branches
    BY <1>1, <1>2, HeldBy
  <1>4. which \in SUBSET DOMAIN lots /\ \A k \in which : ~lots[k].gone
    BY DEF LotsOf
  <1> HIDE DEF r, q, b, which
  <1>12. lots' \in Seq(KeptLots)
    BY <1>1, <1>2, <1>3, <1>4, DrawnLots
  <1>13. shelf[b] - q \in Int /\ OrZero(stock - q) \in Int
    BY <1>1, <1>3 DEF GoodsTyped, OrZero
  <1>14. shelf' \in [Branches -> Int] /\ stock' \in Int
    BY <1>1, <1>2, <1>13, ShelfMoved
  <1>5. GoodsTyped'
    BY <1>12, <1>14 DEF GoodsTyped
  <1>6. NotesTyped'
    <2> DEFINE v == notes[r].sentBack + q
    <2>1. notes[r] \in NoteSet /\ v \in Nat
      BY <1>1, <1>3 DEF NotesTyped, NoteSet, NoteFields
    <2>2. notes' = [notes EXCEPT ![r] = [notes[r] EXCEPT !.sentBack = v, !.returns = TRUE]]
      BY <1>1, <1>2, <1>3 DEF NotesTyped
    <2> HIDE DEF v
    <2>3. [notes[r] EXCEPT !.sentBack = v, !.returns = TRUE] \in NoteSet
      BY <2>1 DEF NoteSet, NoteFields
    <2> QED
      BY <1>1, <1>3, <2>2, <2>3, OneNoteChanged
  <1>7. StoreTyped' /\ handOvers' = handOvers
    BY <1>1, StoreStays
  <1>8. AccountTyped'
    BY <1>1, <1>2, <1>6, <1>7, NotesChanged
  <1>9. DeskTyped'
    BY <1>1, <1>2, DeskLeft
  <1> QED
    BY <1>5, <1>7, <1>8, <1>9 DEF SupplyOK

LEMMA PayDeskKeeps ==
  ASSUME SupplyOK, PayDesk, UNCHANGED store
  PROVE  SupplyOK'
PROOF
  <1>1. AccountTyped /\ GoodsTyped /\ StoreTyped /\ DeskTyped
    BY DEF SupplyOK
  <1>2. AccountNext /\ UNCHANGED <<goods, desk>>
    BY DEF PayDesk
  <1>3. StoreTyped' /\ handOvers' = handOvers
    BY <1>1, StoreStays
  <1>4. AccountTyped' /\ GoodsTyped' /\ DeskTyped'
    BY <1>1, <1>2, <1>3, AccountKept, GoodsStay, DeskStays
  <1> QED
    BY <1>3, <1>4 DEF SupplyOK

LEMMA DeliverKeeps ==
  ASSUME SupplyOK, Deliver
  PROVE  SupplyOK'
PROOF
  <1>1. DeliveryNext /\ UNCHANGED store
    BY DEF Deliver
  <1>2. ASSUME NEW s \in Sessions,
               \/ Looks(s) \/ ReceiveNote(s) \/ EditNote(s) \/ Unreceive(s) \/ RemoveNote(s)
               \/ Relabel(s) \/ SendBack(s) \/ DeliveryGivesUp(s)
        PROVE  SupplyOK'
    BY <1>1, <1>2, LooksKeep, ReceiveKeeps, EditKeeps, UnreceiveKeeps, RemoveKeeps, RelabelKeeps,
       SendBackKeeps, GivesUpKeeps
  <1> QED
    BY <1>1, <1>2, CreateNoteKeeps, SaleKeeps, PayDeskKeeps DEF DeliveryNext, GoodsNext, Looks

------------------------------------------------------------------------------
\* Every handler of the defective store keeps SupplyOK.

DefectsTyped == defects \in Seq(DefectSet)

LEMMA DefectsInPlace ==
  ASSUME DefectsTyped
  PROVE  /\ DOMAIN defects = 1..Len(defects) /\ Len(defects) \in Nat /\ IsFiniteSet(DOMAIN defects)
         /\ \A k \in DOMAIN defects : /\ defects[k] \in DefectSet /\ defects[k].left \in Nat
                                      /\ defects[k].branch \in Branches
         /\ \A set \in SUBSET DOMAIN defects : IsFiniteSet(set) /\ DefectsIn(set) \in Nat
         /\ \A b : InStore(b) \in SUBSET DOMAIN defects /\ Defective(b) \in Nat
PROOF
  <1>1. DOMAIN defects = 1..Len(defects) /\ Len(defects) \in Nat
    BY DEF DefectsTyped
  <1>2. \A k \in DOMAIN defects : defects[k] \in DefectSet
    BY DEF DefectsTyped
  <1>3. \A k \in DOMAIN defects : defects[k].left \in Nat /\ defects[k].branch \in Branches
    BY <1>2 DEF DefectSet
  <1>4. IsFiniteSet(DOMAIN defects)
    BY <1>1, FS_Interval
  <1>5. \A set \in SUBSET DOMAIN defects : IsFiniteSet(set) /\ DefectsIn(set) \in Nat
    <2> TAKE set \in SUBSET DOMAIN defects
    <2>1. IsFiniteSet(set)
      BY <1>4, FS_Subset
    <2>2. \A k \in set : defects[k].left \in Nat
      BY <1>3
    <2> QED
      BY <2>1, <2>2, HeldIsNumber DEF DefectsIn
  <1>6. \A b : InStore(b) \in SUBSET DOMAIN defects
    BY DEF InStore
  <1> QED
    BY <1>1, <1>2, <1>3, <1>4, <1>5, <1>6 DEF Defective

LEMMA DefectTaken ==
  ASSUME DefectsTyped, NEW k \in DOMAIN defects, NEW b, NEW q \in Nat
  PROVE  /\ TakeDefect(k, b, q) \in 0..defects[k].left /\ TakeDefect(k, b, q) \in Nat
         /\ k \notin InStore(b) => TakeDefect(k, b, q) = 0
PROOF
  <1> DEFINE below == {j \in InStore(b) : j < k}
             n == DefectsIn(below)
  <1>1. n \in Nat /\ defects[k].left \in Nat
    BY DefectsInPlace
  <1>2. TakeDefect(k, b, q) = IF k \in InStore(b) THEN Least(defects[k].left, OrZero(q - n)) ELSE 0
    BY DEF TakeDefect
  <1> HIDE DEF n
  <1> QED
    BY <1>1, <1>2 DEF Least, OrZero

LEMMA DefectsDrawn ==
  ASSUME DefectsTyped, NEW b, NEW q \in Nat, TakeFromStore(b, q)
  PROVE  /\ DefectsTyped' /\ DOMAIN defects' = DOMAIN defects
         /\ \A k \in DOMAIN defects : /\ defects'[k].left = defects[k].left - TakeDefect(k, b, q)
                                      /\ defects'[k].source = defects[k].source
                                      /\ defects'[k].branch = defects[k].branch
PROOF
  <1> DEFINE after(k) == [defects[k] EXCEPT !.left = @ - TakeDefect(k, b, q)]
  <1>1. ASSUME NEW k \in DOMAIN defects
        PROVE  /\ after(k) \in DefectSet
               /\ after(k).left = defects[k].left - TakeDefect(k, b, q)
               /\ after(k).source = defects[k].source /\ after(k).branch = defects[k].branch
    <2> DEFINE v == defects[k].left - TakeDefect(k, b, q)
    <2>1. TakeDefect(k, b, q) \in 0..defects[k].left /\ defects[k] \in DefectSet
          /\ defects[k].left \in Nat
      BY DefectTaken, DefectsInPlace
    <2>2. v \in Nat
      BY <2>1
    <2>3. after(k) = [defects[k] EXCEPT !.left = v]
      OBVIOUS
    <2> HIDE DEF v, after
    <2> QED
      BY <2>1, <2>2, <2>3 DEF DefectSet, v
  <1>2. defects' = [k \in DOMAIN defects |-> after(k)]
    BY DEF TakeFromStore
  <1> HIDE DEF after
  <1>3. /\ DOMAIN defects = 1..Len(defects) /\ Len(defects) \in Nat
        /\ \A k \in DOMAIN defects : defects'[k] = after(k)
    BY <1>2, DefectsInPlace
  <1>4. DefectsTyped'
    BY <1>1, <1>2, <1>3 DEF DefectsTyped
  <1> QED
    BY <1>1, <1>2, <1>3, <1>4

LEMMA LossIsNumber ==
  ASSUME DefectsTyped, NEW b, NEW q \in Nat
  PROVE  Loss(b, q) \in Nat
PROOF
  <1> DEFINE new == {k \in InStore(b) : defects[k].source # "opening"}
             f == [k \in new |-> TakeDefect(k, b, q)]
  <1>1. new \in SUBSET DOMAIN defects /\ IsFiniteSet(new)
    BY DefectsInPlace
  <1>2. \A k \in new : f[k] \in Nat
    BY <1>1, DefectTaken
  <1>3. DOMAIN f = new /\ Loss(b, q) = SumFunction(f)
    BY DEF Loss
  <1> HIDE DEF f, new
  <1>4. SumFunctionOnSet(f, new) \in Nat
    BY <1>1, <1>2, SumNat
  <1> QED
    BY <1>3, <1>4 DEF SumFunction

LEMMA DefectsPut ==
  ASSUME DefectsTyped, NEW b \in Branches, NEW q \in Nat,
         NEW source \in {"shelf", "customer_return", "opening", "supplier_cancel"},
         PutInStore(b, q, source)
  PROVE  /\ DefectsTyped' /\ Len(defects) \in Nat /\ DOMAIN defects = 1..Len(defects)
         /\ DOMAIN defects' = 1..(Len(defects) + 1)
         /\ \A k \in DOMAIN defects : defects'[k] = defects[k]
         /\ defects'[Len(defects) + 1] = [branch |-> b, left |-> q, source |-> source]
PROOF
  <1> DEFINE d == [branch |-> b, left |-> q, source |-> source]
  <1>1. d \in DefectSet
    BY DEF DefectSet
  <1>2. defects' = Append(defects, d) /\ defects \in Seq(DefectSet)
    BY DEF PutInStore, DefectsTyped
  <1> HIDE DEF d
  <1>3. /\ defects' \in Seq(DefectSet) /\ Len(defects) \in Nat /\ DOMAIN defects = 1..Len(defects)
        /\ DOMAIN defects' = 1..(Len(defects) + 1)
        /\ \A k \in DOMAIN defects : defects'[k] = defects[k]
        /\ defects'[Len(defects) + 1] = d
    BY <1>1, <1>2
  <1> QED
    BY <1>3 DEF DefectsTyped, d

\* Goods of the store: in, out, and back on the shelf.
LEMMA StoreGoodsKeep ==
  ASSUME SupplyOK, FromShelf \/ FromCustomer \/ OpeningStore \/ WriteOff \/ BackOnShelf
  PROVE  SupplyOK'
PROOF
  <1>1. /\ AccountTyped /\ GoodsTyped /\ StoreTyped /\ DeskTyped /\ DefectsTyped
        /\ handOvers \in Seq(HandOverSet) /\ booked \in Int /\ broken \in Int
        /\ shelf \in [Branches -> Int] /\ stock \in Int
    BY DEF SupplyOK, StoreTyped, DefectsTyped, GoodsTyped
  <1>2. Cuts \subseteq Nat
    BY DeliveryAssumption
  <1>3. UNCHANGED <<handOvers, account, books, desk>>
    BY DEF FromShelf, FromCustomer, OpeningStore, WriteOff, BackOnShelf
  <1>4. AccountTyped' /\ DeskTyped'
    BY <1>1, <1>3, AccountStays, DeskStays
  <1>5. CASE FromShelf
    <2>1. PICK b \in Branches, q \in Cuts :
            /\ lots' = [k \in DOMAIN lots |-> [lots[k] EXCEPT !.left = @ - Take(k, OnShelf(b), q),
                                                              !.off = @ + Take(k, OnShelf(b), q)]]
            /\ shelf' = [shelf EXCEPT ![b] = @ - q]
            /\ stock' = stock - q
            /\ PutInStore(b, q, "shelf")
            /\ broken' = broken + q
            /\ UNCHANGED booked
      BY <1>5, Zenon DEF FromShelf
    <2>2. q \in Nat
      BY <1>2
    <2>3. OnShelf(b) \in SUBSET DOMAIN lots /\ \A k \in OnShelf(b) : ~lots[k].gone
      BY DEF OnShelf
    <2>4. lots' \in Seq(KeptLots)
      BY <1>1, <2>1, <2>2, <2>3, DrawnLots
    <2>5. shelf[b] - q \in Int /\ stock - q \in Int
      BY <1>1, <2>2
    <2>6. shelf' \in [Branches -> Int] /\ stock' \in Int
      BY <1>1, <2>1, <2>5, ShelfMoved
    <2>7. DefectsTyped'
      BY <1>1, <2>1, <2>2, DefectsPut
    <2>9. broken \in Int /\ broken' = broken + q
      BY <1>1, <2>1
    <2>8. broken' \in Int
      BY <2>2, <2>9
    <2> QED
      BY <1>1, <1>3, <1>4, <2>1, <2>4, <2>6, <2>7, <2>8, ZenonT(60)
      DEF SupplyOK, GoodsTyped, StoreTyped, DefectsTyped
  <1>6. CASE FromCustomer
    <2>1. PICK b \in Branches, q \in Cuts :
            PutInStore(b, q, "customer_return") /\ broken' = broken + q /\ UNCHANGED <<booked, goods>>
      BY <1>6 DEF FromCustomer
    <2>2. q \in Nat
      BY <1>2
    <2>3. DefectsTyped'
      BY <1>1, <2>1, <2>2, DefectsPut
    <2>4. broken' \in Int
      BY <1>1, <2>1, <2>2
    <2>5. GoodsTyped'
      BY <1>1, <2>1, GoodsStay
    <2> QED
      BY <1>1, <1>3, <1>4, <2>1, <2>3, <2>4, <2>5 DEF SupplyOK, StoreTyped, DefectsTyped
  <1>7. CASE OpeningStore
    <2>1. PICK b \in Branches, q \in Cuts :
            PutInStore(b, q, "opening") /\ UNCHANGED <<booked, broken, goods>>
      BY <1>7 DEF OpeningStore
    <2>2. q \in Nat
      BY <1>2
    <2>3. DefectsTyped'
      BY <1>1, <2>1, <2>2, DefectsPut
    <2>5. GoodsTyped'
      BY <1>1, <2>1, GoodsStay
    <2> QED
      BY <1>1, <1>3, <1>4, <2>1, <2>3, <2>5 DEF SupplyOK, StoreTyped, DefectsTyped
  <1>8. CASE WriteOff
    <2>1. PICK b \in Branches, q \in Cuts :
            /\ TakeFromStore(b, q) /\ booked' = booked + Loss(b, q)
            /\ UNCHANGED <<broken, goods>>
      BY <1>8 DEF WriteOff
    <2>2. q \in Nat
      BY <1>2
    <2>3. DefectsTyped'
      BY <1>1, <2>1, <2>2, DefectsDrawn
    <2>4. Loss(b, q) \in Int
      BY <1>1, <2>2, LossIsNumber
    <2>5. GoodsTyped'
      BY <1>1, <2>1, GoodsStay
    <2>6. booked' \in Int
      BY <1>1, <2>1, <2>4
    <2> QED
      BY <1>1, <1>3, <1>4, <2>1, <2>3, <2>5, <2>6 DEF SupplyOK, StoreTyped, DefectsTyped
  <1>9. CASE BackOnShelf
    <2>1. PICK b \in Branches, q \in Cuts :
            /\ TakeFromStore(b, q)
            /\ lots' = Append(lots, Lot(0, 0, b, q))
            /\ shelf' = [shelf EXCEPT ![b] = @ + q]
            /\ stock' = stock + q
            /\ UNCHANGED <<booked, broken>>
      BY <1>9 DEF BackOnShelf
    <2>2. q \in Nat
      BY <1>2
    <2>3. DefectsTyped'
      BY <1>1, <2>1, <2>2, DefectsDrawn
    <2>4. b \in Places /\ 0 \in Nat
      BY DEF Places
    <2>5. Lot(0, 0, b, q) \in KeptLots
      BY <2>2, <2>4, FreshLot
    <2>6. lots' \in Seq(KeptLots)
      BY <1>1, <2>1, <2>5 DEF GoodsTyped
    <2>7. shelf[b] + q \in Int /\ stock + q \in Int
      BY <1>1, <2>2
    <2>8. shelf' \in [Branches -> Int] /\ stock' \in Int
      BY <1>1, <2>1, <2>7, ShelfMoved
    <2> QED
      BY <1>1, <1>3, <1>4, <2>1, <2>3, <2>6, <2>8 DEF SupplyOK, GoodsTyped, StoreTyped, DefectsTyped
  <1> QED
    BY <1>5, <1>6, <1>7, <1>8, <1>9

\* A hand-over written down.
HandOverAdded(way, r, p, b, q, value, row) ==
  /\ StoreTyped' /\ UNCHANGED goods
  /\ DOMAIN handOvers = 1..Len(handOvers) /\ Len(handOvers) \in Nat
  /\ DOMAIN handOvers' = 1..(Len(handOvers) + 1)
  /\ \A n \in DOMAIN handOvers : handOvers'[n] = handOvers[n]
  /\ handOvers'[Len(handOvers) + 1] =
       [way |-> way, note |-> r, supplier |-> p, branch |-> b, units |-> q, value |-> value,
        row |-> row, undone |-> FALSE]

LEMMA HandedOver ==
  ASSUME StoreTyped, NEW way \in {"credit", "cash", "debt"}, NEW r \in Payers, NEW p \in Parties,
         NEW b \in Branches, NEW q \in Nat, NEW value \in Nat, NEW row \in Nat,
         HandOver(way, r, p, b, q, value, row)
  PROVE  HandOverAdded(way, r, p, b, q, value, row)
PROOF
  <1> DEFINE h == [way |-> way, note |-> r, supplier |-> p, branch |-> b, units |-> q,
                   value |-> value, row |-> row, undone |-> FALSE]
  <1>1. handOvers' = Append(handOvers, h) /\ TakeFromStore(b, q) /\ UNCHANGED <<booked, broken, goods>>
    BY DEF HandOver
  <1>2. h \in HandOverSet
    BY DEF HandOverSet, Payers
  <1> HIDE DEF h
  <1>3. handOvers \in Seq(HandOverSet) /\ DefectsTyped /\ booked \in Int /\ broken \in Int
    BY DEF StoreTyped, DefectsTyped
  <1>4. /\ handOvers' \in Seq(HandOverSet)
        /\ DOMAIN handOvers = 1..Len(handOvers) /\ Len(handOvers) \in Nat
        /\ DOMAIN handOvers' = 1..(Len(handOvers) + 1)
        /\ \A n \in DOMAIN handOvers : handOvers'[n] = handOvers[n]
        /\ handOvers'[Len(handOvers) + 1] = h
    BY <1>1, <1>2, <1>3
  <1>5. DefectsTyped'
    BY <1>1, <1>3, DefectsDrawn
  <1> QED
    BY <1>1, <1>3, <1>4, <1>5 DEF StoreTyped, DefectsTyped, h, HandOverAdded

LEMMA ForCreditKeeps ==
  ASSUME SupplyOK, HandOverForCredit
  PROVE  SupplyOK'
PROOF
  <1>1. AccountTyped /\ GoodsTyped /\ StoreTyped /\ DeskTyped /\ RemitsTyped /\ CreditTyped
        /\ NotesTyped /\ RowsKnown /\ LedgerOK(rows, Payers)
    BY DEF SupplyOK, AccountTyped
  <1>2. PICK b \in Branches, p \in Suppliers, q \in Cuts, x \in Remits :
          /\ HandOver("credit", 0, p, b, q, x, 0)
          /\ credit' = [credit EXCEPT ![p] = @ + x]
          /\ advanced' = advanced + x
          /\ UNCHANGED <<notes, remitted, books, desk>>
    BY DEF HandOverForCredit
  <1>3. q \in Nat /\ x \in Nat /\ x \in Int /\ 0 \in Payers /\ p \in Parties
    BY DeliveryAssumption, SupplierAssumption DEF Payers, Parties
  <1>4. /\ StoreTyped' /\ UNCHANGED goods
        /\ DOMAIN handOvers = 1..Len(handOvers) /\ Len(handOvers) \in Nat
        /\ DOMAIN handOvers' = 1..(Len(handOvers) + 1)
        /\ \A n \in DOMAIN handOvers : handOvers'[n] = handOvers[n]
        /\ handOvers'[Len(handOvers) + 1].way = "credit"
    <2>1. HandOverAdded("credit", 0, p, b, q, x, 0)
      BY <1>1, <1>2, <1>3, HandedOver
    <2> QED
      BY <2>1 DEF HandOverAdded
  <1>5. RowsKnown'
    <2>1. \A n \in DOMAIN handOvers' : n \in DOMAIN handOvers \/ n = Len(handOvers) + 1
      BY <1>4
    <2> QED
      BY <1>1, <1>2, <1>4, <2>1 DEF RowsKnown, books
  <1>6. CreditTyped'
    <2>1. advanced + x \in Int
      BY <1>1, <1>3 DEF CreditTyped
    <2> QED
      BY <1>1, <1>2, <1>3, <2>1, CreditMoved DEF CreditTyped
  <1>7. AccountTyped'
    BY <1>1, <1>2, <1>5, <1>6 DEF AccountTyped, NotesTyped, RemitsTyped, books
  <1> QED
    BY <1>1, <1>2, <1>4, <1>7, GoodsStay, DeskStays DEF SupplyOK

LEMMA ForCashKeeps ==
  ASSUME SupplyOK, HandOverForCash
  PROVE  SupplyOK'
PROOF
  <1>1. AccountTyped /\ GoodsTyped /\ StoreTyped /\ DeskTyped /\ RemitsTyped /\ CreditTyped
        /\ NotesTyped /\ RowsKnown /\ LedgerOK(rows, Payers)
    BY DEF SupplyOK, AccountTyped
  <1>2. PICK b \in Branches, p \in Suppliers, q \in Cuts, x \in Remits, a \in ShopAccounts :
          /\ HandOver("cash", 0, p, b, q, x, Len(rows) + 1)
          /\ Write(<<Leg("income", "supplier_refund", a, x, 0)>>)
          /\ UNCHANGED <<account, desk>>
    BY DEF HandOverForCash
  <1>3. q \in Nat /\ x \in Nat /\ x \in Int /\ 0 \in Payers /\ p \in Parties /\ a \in Accounts
    BY DeliveryAssumption, SupplierAssumption DEF Payers, Parties, ShopAccounts
  <1> DEFINE l == Leg("income", "supplier_refund", a, x, 0)
  <1>4. l \in Row(Payers) /\ Fresh(l) /\ l.pair = 0
    <2>1. "income" \in Kinds /\ "supplier_refund" \in Sources \ {"reversal"}
      BY DEF Kinds, Sources
    <2>2. a \in Accounts /\ x \in Int /\ 0 \in Payers
      BY <1>3
    <2> QED
      BY ONLY <2>1, <2>2 DEF l, Leg, Row, Fresh
  <1>5. Write(<<l>>)
    BY <1>2
  <1> HIDE DEF l
  <1>6. /\ LedgerOK(rows', Payers) /\ DOMAIN rows \subseteq DOMAIN rows'
    BY <1>1, <1>4, <1>5, OneRowAdded
  <1>7. Len(rows) + 1 \in Nat /\ Len(rows) + 1 \in DOMAIN rows'
    <2>1. rows \in Seq(Row(Payers)) /\ rows' = rows \o <<l>>
      BY <1>1, <1>5 DEF LedgerOK, Write
    <2> QED
      BY <2>1, <1>4
  <1>8. /\ StoreTyped' /\ UNCHANGED goods
        /\ DOMAIN handOvers = 1..Len(handOvers) /\ Len(handOvers) \in Nat
        /\ DOMAIN handOvers' = 1..(Len(handOvers) + 1)
        /\ \A n \in DOMAIN handOvers : handOvers'[n] = handOvers[n]
        /\ handOvers'[Len(handOvers) + 1].row = Len(rows) + 1
    <2> DEFINE k == Len(rows) + 1
    <2>1. k \in Nat /\ HandOver("cash", 0, p, b, q, x, k)
      BY <1>2, <1>7
    <2> HIDE DEF k
    <2>2. HandOverAdded("cash", 0, p, b, q, x, k)
      BY <1>1, <1>3, <2>1, HandedOver
    <2>3. handOvers'[Len(handOvers) + 1].row = k
      BY <2>2 DEF HandOverAdded
    <2> QED
      BY <2>2, <2>3 DEF HandOverAdded, k
  <1>9. RowsKnown'
    <2>1. \A n \in DOMAIN handOvers' : n \in DOMAIN handOvers \/ n = Len(handOvers) + 1
      BY <1>8
    <2> QED
      BY <1>1, <1>2, <1>6, <1>7, <1>8, <2>1 DEF RowsKnown, account
  <1>10. AccountTyped'
    BY <1>1, <1>2, <1>6, <1>9 DEF AccountTyped, NotesTyped, RemitsTyped, CreditTyped, account
  <1> QED
    BY <1>1, <1>2, <1>8, <1>10, GoodsStay, DeskStays DEF SupplyOK

LEMMA LookHandKeeps ==
  ASSUME SupplyOK, NEW s \in Sessions, LookToHandOver(s)
  PROVE  SupplyOK'
PROOF
  <1>1. AccountTyped /\ GoodsTyped /\ StoreTyped /\ DeskTyped /\ NotesTyped
    BY DEF SupplyOK, AccountTyped
  <1>2. PICK r \in Notes, b \in Branches, q \in Cuts :
          /\ notes[r].status = "received"
          /\ Enter(s, "hand", [kind |-> "hand", note |-> r, branch |-> b, units |-> q], notes[r])
          /\ UNCHANGED <<store, account, books, goods>>
    BY DEF LookToHandOver
  <1>3. HoldsFor("hand", [kind |-> "hand", note |-> r, branch |-> b, units |-> q], notes[r])
    BY <1>1, <1>2, DeliveryAssumption DEF HoldsFor, NotesTyped
  <1>4. DeskTyped'
    BY <1>1, <1>2, <1>3, DeskEntered
  <1>5. StoreTyped' /\ handOvers' = handOvers
    BY <1>1, <1>2, StoreStays
  <1>6. AccountTyped' /\ GoodsTyped'
    BY <1>1, <1>2, <1>5, AccountStays, GoodsStay
  <1> QED
    BY <1>4, <1>5, <1>6 DEF SupplyOK

LEMMA OffDebtKeeps ==
  ASSUME SupplyOK, NEW s \in Sessions, HandOverOffDebt(s)
  PROVE  SupplyOK'
PROOF
  <1>1. AccountTyped /\ GoodsTyped /\ StoreTyped /\ DeskTyped /\ RemitsTyped /\ CreditTyped
        /\ NotesTyped /\ RowsKnown /\ LedgerOK(rows, Payers)
    BY DEF SupplyOK, AccountTyped
  <1> DEFINE r == job[s].note
             q == job[s].units
             b == job[s].branch
             p == seen[s].supplier
  <1>2. /\ Leave(s, "hand")
        /\ HandOver("debt", r, p, b, q, q, 0)
        /\ notes' = [notes EXCEPT ![r].sentBack = @ + q, ![r].returns = TRUE]
        /\ UNCHANGED <<remitted, credit, advanced, books>>
    BY DEF HandOverOffDebt
  <1>3. r \in Notes /\ q \in Nat /\ b \in Branches /\ p \in Parties
    BY <1>1, <1>2, HeldBy
  <1>4. r \in Payers
    BY <1>3 DEF Payers
  <1> HIDE DEF r, q, b, p
  <1>5. /\ StoreTyped' /\ UNCHANGED goods
        /\ DOMAIN handOvers = 1..Len(handOvers) /\ Len(handOvers) \in Nat
        /\ DOMAIN handOvers' = 1..(Len(handOvers) + 1)
        /\ \A n \in DOMAIN handOvers : handOvers'[n] = handOvers[n]
        /\ handOvers'[Len(handOvers) + 1].way = "debt"
    <2>1. HandOverAdded("debt", r, p, b, q, q, 0)
      BY <1>1, <1>2, <1>3, <1>4, HandedOver
    <2> QED
      BY <2>1 DEF HandOverAdded
  <1>6. NotesTyped'
    <2> DEFINE v == notes[r].sentBack + q
    <2>1. notes[r] \in NoteSet /\ v \in Nat
      BY <1>1, <1>3 DEF NotesTyped, NoteSet, NoteFields
    <2>2. notes' = [notes EXCEPT ![r] = [notes[r] EXCEPT !.sentBack = v, !.returns = TRUE]]
      BY <1>1, <1>2, <1>3 DEF NotesTyped
    <2> HIDE DEF v
    <2>3. [notes[r] EXCEPT !.sentBack = v, !.returns = TRUE] \in NoteSet
      BY <2>1 DEF NoteSet, NoteFields
    <2> QED
      BY <1>1, <1>3, <2>2, <2>3, OneNoteChanged
  <1>7. RowsKnown'
    <2>1. \A n \in DOMAIN handOvers' : n \in DOMAIN handOvers \/ n = Len(handOvers) + 1
      BY <1>5
    <2> QED
      BY <1>1, <1>2, <1>5, <2>1 DEF RowsKnown, books
  <1>8. AccountTyped'
    BY <1>1, <1>2, <1>6, <1>7 DEF AccountTyped, RemitsTyped, CreditTyped, books
  <1>9. DeskTyped'
    BY <1>1, <1>2, DeskLeft
  <1> QED
    BY <1>1, <1>5, <1>8, <1>9, GoodsStay DEF SupplyOK

LEMMA HandOverUndone ==
  ASSUME SupplyOK, UndoHandOver
  PROVE  SupplyOK'
PROOF
  <1>1. AccountTyped /\ GoodsTyped /\ StoreTyped /\ DeskTyped /\ RemitsTyped /\ CreditTyped
        /\ NotesTyped /\ RowsKnown /\ LedgerOK(rows, Payers)
        /\ handOvers \in Seq(HandOverSet) /\ DefectsTyped
    BY DEF SupplyOK, AccountTyped, StoreTyped, DefectsTyped
  <1>2. PICK n \in DOMAIN handOvers :
          LET h == handOvers[n]
          IN  /\ PutInStore(h.branch, h.units, "supplier_cancel")
              /\ handOvers' = [handOvers EXCEPT ![n].undone = TRUE]
              /\ \/ /\ h.way = "credit"
                    /\ credit' = [credit EXCEPT ![h.supplier] = @ - h.value]
                    /\ advanced' = advanced - h.value
                    /\ UNCHANGED <<notes, remitted, books>>
                 \/ /\ h.way = "cash"
                    /\ CanReverse(h.row, FALSE, FALSE) /\ WriteReversal(h.row)
                    /\ UNCHANGED account
                 \/ /\ h.way = "debt"
                    /\ notes' = [notes EXCEPT ![h.note].sentBack = OrZero(@ - h.value)]
                    /\ UNCHANGED <<remitted, credit, advanced, books>>
              /\ UNCHANGED <<booked, broken, goods, desk>>
    BY DEF UndoHandOver
  <1> DEFINE h == handOvers[n]
  <1>3. h \in HandOverSet
    BY <1>1
  <1>4. h.branch \in Branches /\ h.units \in Nat /\ h.value \in Nat /\ h.row \in Nat
    BY <1>3 DEF HandOverSet
  <1>5. DefectsTyped'
    BY <1>1, <1>2, <1>4, DefectsPut
  <1>6. /\ handOvers' \in Seq(HandOverSet) /\ DOMAIN handOvers' = DOMAIN handOvers
        /\ \A m \in DOMAIN handOvers : /\ handOvers'[m].way = handOvers[m].way
                                       /\ handOvers'[m].row = handOvers[m].row
    <2>1. [h EXCEPT !.undone = TRUE] \in HandOverSet
      BY <1>3 DEF HandOverSet
    <2>2. handOvers' = [handOvers EXCEPT ![n] = [h EXCEPT !.undone = TRUE]]
      BY <1>2
    <2>3. [h EXCEPT !.undone = TRUE].way = h.way /\ [h EXCEPT !.undone = TRUE].row = h.row
      BY <1>3 DEF HandOverSet
    <2> DEFINE g == [h EXCEPT !.undone = TRUE]
    <2> HIDE DEF g
    <2>4. g \in HandOverSet /\ handOvers' = [handOvers EXCEPT ![n] = g]
          /\ g.way = handOvers[n].way /\ g.row = handOvers[n].row
      BY <2>1, <2>2, <2>3 DEF g
    <2> HIDE DEF h
    <2> QED
      BY <1>1, <2>4
  <1>7. StoreTyped'
    BY <1>1, <1>2, <1>5, <1>6 DEF StoreTyped, DefectsTyped
  <1>8. GoodsTyped' /\ DeskTyped'
    BY <1>1, <1>2, GoodsStay, DeskStays
  <1>9. AccountTyped'
    <2>1. CASE /\ credit' = [credit EXCEPT ![h.supplier] = @ - h.value]
               /\ advanced' = advanced - h.value
               /\ UNCHANGED <<notes, remitted, books>>
      <3>1. CreditTyped'
        <4> DEFINE p == h.supplier
                   x == h.value
        <4>1. credit' = [credit EXCEPT ![p] = @ - x] /\ advanced' = advanced - x /\ x \in Nat
          BY <2>1, <1>4
        <4> HIDE DEF h, p, x
        <4>2. \A c \in Suppliers : credit[c] - x \in Int
          BY <1>1, <4>1 DEF CreditTyped
        <4>3. credit' \in [Suppliers -> Int]
          BY <1>1, <4>1, <4>2 DEF CreditTyped
        <4> QED
          BY <1>1, <4>1, <4>3 DEF CreditTyped
      <3>2. RowsKnown'
        BY <1>1, <1>6, <2>1 DEF RowsKnown, books
      <3> QED
        BY <1>1, <2>1, <3>1, <3>2 DEF AccountTyped, NotesTyped, RemitsTyped, books
    <2>2. CASE /\ h.way = "cash" /\ CanReverse(h.row, FALSE, FALSE) /\ WriteReversal(h.row)
               /\ UNCHANGED account
      <3> DEFINE k == h.row
      <3>1. k \in DOMAIN rows /\ CanReverse(k, FALSE, FALSE) /\ WriteReversal(k)
        BY <1>1, <2>2 DEF RowsKnown
      <3> HIDE DEF k
      <3>2. LedgerOK(rows', Payers)
        BY <1>1, <3>1, ReversingKeeps
      <3>3. DOMAIN rows \subseteq DOMAIN rows'
        BY <1>1, <3>1, Reversing
      <3>4. RowsKnown'
        BY <1>1, <1>6, <2>2, <3>3 DEF RowsKnown, account
      <3> QED
        BY <1>1, <2>2, <3>2, <3>4 DEF AccountTyped, NotesTyped, RemitsTyped, CreditTyped, account
    <2>3. CASE /\ notes' = [notes EXCEPT ![h.note].sentBack = OrZero(@ - h.value)]
               /\ UNCHANGED <<remitted, credit, advanced, books>>
      <3>1. NotesTyped'
        <4> DEFINE x == h.value
                   r == h.note
        <4>1. notes' = [notes EXCEPT ![r].sentBack = OrZero(@ - x)] /\ x \in Nat
          BY <2>3, <1>4
        <4> HIDE DEF h, x, r
        <4>2. CASE r \in Notes
          <5> DEFINE v == OrZero(notes[r].sentBack - x)
          <5>1. notes[r] \in NoteSet /\ v \in Nat
            BY <1>1, <4>1, <4>2 DEF NotesTyped, NoteSet, NoteFields, OrZero
          <5>2. notes' = [notes EXCEPT ![r] = [notes[r] EXCEPT !.sentBack = v]]
            BY <1>1, <4>1, <4>2 DEF NotesTyped
          <5> HIDE DEF v
          <5>3. [notes[r] EXCEPT !.sentBack = v] \in NoteSet
            BY <5>1 DEF NoteSet, NoteFields
          <5> QED
            BY <1>1, <4>2, <5>2, <5>3, OneNoteChanged
        <4>3. CASE r \notin Notes
          BY <1>1, <4>1, <4>3 DEF NotesTyped
        <4> QED
          BY <4>2, <4>3
      <3>2. RowsKnown'
        BY <1>1, <1>6, <2>3 DEF RowsKnown, books
      <3> QED
        BY <1>1, <2>3, <3>1, <3>2 DEF AccountTyped, RemitsTyped, CreditTyped, books
    <2> QED
      BY <1>2, <2>1, <2>2, <2>3
  <1> QED
    BY <1>7, <1>8, <1>9 DEF SupplyOK

LEMMA SupplyStart == ASSUME StoreInit PROVE SupplyOK
PROOF
  <1>1. /\ rows = <<>> /\ remitted = <<>> /\ lots = <<>> /\ defects = <<>> /\ handOvers = <<>>
        /\ notes = [r \in Notes |-> BlankNote] /\ credit = [p \in Suppliers |-> 0] /\ advanced = 0
        /\ shelf = [b \in Branches |-> 0] /\ stock = 0 /\ booked = 0 /\ broken = 0
        /\ phase = [s \in Sessions |-> "idle"] /\ job = [s \in Sessions |-> NoJob]
        /\ seen = [s \in Sessions |-> NothingSeen]
    BY DEF StoreInit, DeliveryInit, AccountInit, BooksInit, DeskInit
  <1>2. BlankNote \in NoteSet
    BY DEF BlankNote, NoteSet, NoteFields, Parties, Places
  <1>3. NotesTyped /\ RemitsTyped /\ CreditTyped /\ RowsKnown
    BY <1>1, <1>2 DEF NotesTyped, RemitsTyped, CreditTyped, RowsKnown
  <1>4. LedgerOK(rows, Payers)
    BY <1>1, EmptyLedger
  <1>5. GoodsTyped /\ StoreTyped
    BY <1>1 DEF GoodsTyped, StoreTyped
  <1>6. DeskTyped
    BY <1>1 DEF DeskTyped, HoldsFor
  <1> QED
    BY <1>3, <1>4, <1>5, <1>6 DEF SupplyOK, AccountTyped

LEMMA SupplySteps ==
  ASSUME SupplyOK, [StoreNext]_storeVars
  PROVE  SupplyOK'
PROOF
  <1>1. CASE StoreNext
    BY <1>1, StoreGoodsKeep, ForCreditKeeps, ForCashKeeps, HandOverUndone, LookHandKeeps, OffDebtKeeps,
       DeliverKeeps DEF StoreNext, DefectsNext
  <1>2. CASE UNCHANGED storeVars
    <2>1. UNCHANGED <<store, account, books, goods, desk>>
      BY <1>2 DEF storeVars
    <2>2. AccountTyped /\ GoodsTyped /\ StoreTyped /\ DeskTyped
      BY DEF SupplyOK
    <2>3. StoreTyped' /\ handOvers' = handOvers
      BY <2>1, <2>2, StoreStays
    <2> QED
      BY <2>1, <2>2, <2>3, AccountStays, GoodsStay, DeskStays DEF SupplyOK
  <1> QED
    BY <1>1, <1>2

\* A lot keeps the sales that were costed against it, whatever the requests
\* and their order.
THEOREM LotsKeepTheirSalesThm == StoreSpec => []LotsKeepTheirSales
PROOF
  <1>1. SupplyOK => LotsKeepTheirSales
    <2> SUFFICES ASSUME SupplyOK, NEW k \in DOMAIN lots
                 PROVE  /\ lots[k].left >= 0
                        /\ lots[k].sold + lots[k].back <= lots[k].in
                        /\ lots[k].gone => lots[k].sold + lots[k].back = 0
      BY DEF LotsKeepTheirSales
    <2> DEFINE l == lots[k]
    <2>1. l \in KeptLots
      BY LotsInPlace DEF SupplyOK
    <2> HIDE DEF l
    <2>2. l \in LotSet /\ l.left + l.sold + l.back + l.off = l.in
          /\ (l.gone => l.sold + l.back = 0)
      BY <2>1 DEF KeptLots
    <2>3. /\ l.left \in Nat /\ l.sold \in Nat /\ l.back \in Nat /\ l.off \in Nat /\ l.in \in Nat
      BY <2>2 DEF LotSet
    <2>4. l.left >= 0 /\ l.sold + l.back <= l.in
      BY <2>2, <2>3
    <2> QED
      BY <2>2, <2>4 DEF l
  <1> QED
    BY <1>1, SupplyStart, SupplySteps, PTL DEF StoreSpec

------------------------------------------------------------------------------
\* What is paid on a note is what its payments come to.

\* The payments that stand on a note, and what the payments of a set come to.
On(all, r) == {n \in DOMAIN all : all[n].note = r}
RemitSum(all, set) == SumFunction([n \in set |-> all[n].amount])

LEMMA AmountsAre ==
  ASSUME NEW all, NEW set, NEW f, IsFiniteSet(set), \A n \in set : f[n] = all[n].amount
  PROVE  RemitSum(all, set) = SumFunctionOnSet(f, set)
PROOF
  <1> DEFINE g == [n \in set |-> all[n].amount]
  <1>1. DOMAIN g = set /\ \A n \in set : g[n] = f[n]
    OBVIOUS
  <1> HIDE DEF g
  <1>2. SumFunctionOnSet(g, set) = SumFunctionOnSet(f, set)
    BY <1>1, SumEqual
  <1> QED
    BY <1>1, <1>2 DEF RemitSum, SumFunction, g

LEMMA AmountsSame ==
  ASSUME NEW all, NEW more, NEW set, IsFiniteSet(set), \A n \in set : more[n].amount = all[n].amount
  PROVE  RemitSum(more, set) = RemitSum(all, set)
PROOF
  <1> DEFINE f == [n \in set |-> all[n].amount]
  <1>1. \A n \in set : f[n] = all[n].amount /\ f[n] = more[n].amount
    OBVIOUS
  <1> HIDE DEF f
  <1> QED
    BY <1>1, AmountsAre

LEMMA AmountsAlso ==
  ASSUME NEW all, NEW set, IsFiniteSet(set), NEW a, a \notin set,
         \A n \in set \cup {a} : all[n].amount \in Nat
  PROVE  /\ RemitSum(all, set \cup {a}) = RemitSum(all, set) + all[a].amount
         /\ RemitSum(all, set) \in Nat
PROOF
  <1> DEFINE f == [n \in set \cup {a} |-> all[n].amount]
  <1>1. /\ \A n \in set \cup {a} : f[n] = all[n].amount /\ f[n] \in Nat /\ f[n] \in Int
        /\ f[a] = all[a].amount
    OBVIOUS
  <1>2. IsFiniteSet(set \cup {a})
    BY FS_AddElement
  <1> HIDE DEF f
  <1>3. SumFunctionOnSet(f, set \cup {a}) = SumFunctionOnSet(f, set) + f[a]
    BY <1>1, SumAdd
  <1>4. SumFunctionOnSet(f, set) \in Nat
    BY <1>1, SumNat
  <1>5. RemitSum(all, set) = SumFunctionOnSet(f, set)
    BY <1>1, AmountsAre
  <1>6. RemitSum(all, set \cup {a}) = SumFunctionOnSet(f, set \cup {a})
    BY <1>1, <1>2, AmountsAre
  <1> QED
    BY <1>1, <1>3, <1>4, <1>5, <1>6

LEMMA AmountsNone == RemitSum(remitted, {}) = 0 /\ RemitSum(remitted', {}) = 0
PROOF
  <1>1. \A all : RemitSum(all, {}) = 0
    <2> TAKE all
    <2> DEFINE g == [n \in {} |-> all[n].amount]
    <2>1. DOMAIN g = {}
      OBVIOUS
    <2> HIDE DEF g
    <2>2. SumFunctionOnSet(g, {}) = 0
      BY SumEmpty
    <2> QED
      BY <2>1, <2>2 DEF RemitSum, SumFunction, g
  <1> QED
    BY <1>1

------------------------------------------------------------------------------
\* A note that is not there has nothing paid on it.
AbsentUnpaid == \A r \in Notes : notes[r].status = "none" => notes[r].paid = 0

PaidSums == \A r \in Notes : notes[r].paid = RemitSum(remitted, On(remitted, r))

\* The ways a step treats the payments and the notes' paid figures: it leaves
\* them alone, makes payments, cancels one, drops a note with its payments, or
\* writes another supplier on a note's payments.
PaidStays == /\ remitted' = remitted
             /\ \A r \in Notes : /\ notes'[r].paid = notes[r].paid
                                 /\ notes'[r].status = "none" => notes[r].status = "none"
DropStep(r) ==
  /\ r \in Notes
  /\ remitted' = [n \in DOMAIN remitted |-> IF n \in Standing(r) THEN NoRemit ELSE remitted[n]]
  /\ notes'[r].paid = 0
  /\ \A q \in Notes \ {r} : /\ notes'[q].paid = notes[q].paid
                            /\ notes'[q].status = "none" => notes[q].status = "none"
ResupplyStep(r, p) ==
  /\ remitted' = [n \in DOMAIN remitted |->
                    IF n \in Standing(r) THEN [remitted[n] EXCEPT !.supplier = p] ELSE remitted[n]]
  /\ \A q \in Notes : /\ notes'[q].paid = notes[q].paid
                      /\ notes'[q].status = "none" => notes[q].status = "none"

LEMMA OnIsFinite ==
  ASSUME RemitsTyped
  PROVE  /\ \A r : IsFiniteSet(On(remitted, r))
         /\ \A n \in DOMAIN remitted : remitted[n].note \in Notes =>
              remitted[n] # NoRemit /\ remitted[n] \in RemitSet /\ remitted[n].amount \in Nat
         /\ DOMAIN remitted = 1..Len(remitted) /\ Len(remitted) \in Nat
         /\ \A r \in Notes : r # 0
PROOF
  <1>1. DOMAIN remitted = 1..Len(remitted) /\ Len(remitted) \in Nat
        /\ \A n \in DOMAIN remitted : remitted[n] \in RemitSet \cup {NoRemit}
    BY DEF RemitsTyped
  <1>2. IsFiniteSet(DOMAIN remitted)
    BY <1>1, FS_Interval
  <1>3. \A r : IsFiniteSet(On(remitted, r))
    BY <1>2, FS_Subset DEF On
  <1>4. \A r \in Notes : r # 0
    BY SupplierAssumption
  <1>5. NoRemit.note = 0
    BY DEF NoRemit
  <1>6. \A n \in DOMAIN remitted : remitted[n].note \in Notes =>
          remitted[n] # NoRemit /\ remitted[n] \in RemitSet /\ remitted[n].amount \in Nat
    BY <1>1, <1>4, <1>5 DEF RemitSet
  <1> QED
    BY <1>1, <1>3, <1>4, <1>6

LEMMA PaysAddUp ==
  ASSUME RemitsTyped, NotesTyped, PaidSums, AbsentUnpaid, NEW new, PaysStep(new)
  PROVE  PaidSums' /\ AbsentUnpaid'
PROOF
  <1>1. /\ new \in Seq(RemitSet) /\ remitted' = remitted \o new
        /\ \A j, k \in DOMAIN new : new[j].note = new[k].note => j = k
        /\ \A k \in DOMAIN new : notes'[new[k].note].paid = notes[new[k].note].paid + new[k].amount
        /\ \A r \in Notes : (\A k \in DOMAIN new : new[k].note # r) => notes'[r].paid = notes[r].paid
        /\ \A k \in DOMAIN new : notes[new[k].note].status = "received"
        /\ \A r \in Notes : notes'[r].status = notes[r].status
    BY DEF PaysStep, OnlyPaidMoves
  <1>2. /\ RemitsTyped' /\ DOMAIN new = 1..Len(new) /\ Len(new) \in Nat
        /\ \A n \in DOMAIN remitted : n \in DOMAIN remitted' /\ remitted'[n] = remitted[n]
        /\ \A k \in 1..Len(new) : remitted'[Len(remitted) + k] = new[k]
        /\ \A n \in DOMAIN remitted' : n \in DOMAIN remitted
                                       \/ \E k \in 1..Len(new) : n = Len(remitted) + k
    BY <1>1, RemitsAdded
  <1>3. /\ \A r : IsFiniteSet(On(remitted, r))
        /\ DOMAIN remitted = 1..Len(remitted) /\ Len(remitted) \in Nat
        /\ \A n \in DOMAIN remitted : remitted[n].note \in Notes => remitted[n].amount \in Nat
    BY OnIsFinite
  <1>4. ASSUME NEW r \in Notes
        PROVE  notes'[r].paid = RemitSum(remitted', On(remitted', r))
    <2> DEFINE S == On(remitted, r)
    <2>1. IsFiniteSet(S) /\ \A n \in S : n \in DOMAIN remitted /\ remitted[n].note = r
      BY <1>3 DEF On
    <2>2. \A n \in S : remitted'[n] = remitted[n] /\ remitted[n].amount \in Nat
      BY <1>2, <1>3, <2>1
    <2>3. notes[r].paid = RemitSum(remitted, S)
      BY DEF PaidSums
    <2>4. RemitSum(remitted', S) = RemitSum(remitted, S)
      BY <2>1, <2>2, AmountsSame
    <2>5. CASE \A k \in DOMAIN new : new[k].note # r
      <3>1. \A n \in DOMAIN remitted' : remitted'[n].note = r => n \in S
        BY <1>2, <2>5 DEF On
      <3>2. On(remitted', r) = S
        BY <1>2, <2>1, <2>2, <3>1 DEF On
      <3> QED
        BY <1>1, <2>3, <2>4, <2>5, <3>2
    <2>6. CASE \E k \in DOMAIN new : new[k].note = r
      <3>1. PICK k \in DOMAIN new : new[k].note = r
        BY <2>6
      <3> DEFINE a == Len(remitted) + k
      <3>2. /\ k \in 1..Len(new) /\ remitted'[a] = new[k] /\ a \notin DOMAIN remitted
        BY <1>2, <1>3, <3>1
      <3>3. a \notin S /\ a \in DOMAIN remitted'
        <4>1. Len(remitted') = Len(remitted) + Len(new) /\ DOMAIN remitted' = 1..Len(remitted')
          BY <1>1, <1>2 DEF RemitsTyped
        <4> QED
          BY <2>1, <3>2, <4>1, <1>2, <1>3
      <3>4. \A n \in DOMAIN remitted' : remitted'[n].note = r => n \in S \cup {a}
        <4> TAKE n \in DOMAIN remitted'
        <4>1. CASE n \in DOMAIN remitted
          BY <4>1, <1>2 DEF On
        <4>2. CASE \E j \in 1..Len(new) : n = Len(remitted) + j
          <5>1. PICK j \in 1..Len(new) : n = Len(remitted) + j
            BY <4>2
          <5>2. remitted'[n] = new[j] /\ j \in DOMAIN new
            BY <1>2, <5>1
          <5>3. remitted'[n].note = r => j = k
            BY <1>1, <3>1, <5>2
          <5> QED
            BY <5>1, <5>3
        <4> QED
          BY <1>2, <4>1, <4>2
      <3>5. remitted'[a].note = r /\ new[k].amount \in Nat
        <4>1. new[k] \in RemitSet
          BY <1>1, <3>1
        <4> QED
          BY <3>1, <3>2, <4>1 DEF RemitSet
      <3> HIDE DEF a
      <3>6. On(remitted', r) = S \cup {a}
        BY <1>2, <2>1, <2>2, <3>3, <3>4, <3>5 DEF On
      <3>7. \A n \in S \cup {a} : remitted'[n].amount \in Nat
        BY <2>2, <3>2, <3>5
      <3>8. RemitSum(remitted', S \cup {a}) = RemitSum(remitted', S) + remitted'[a].amount
        BY <2>1, <3>3, <3>7, AmountsAlso
      <3> QED
        BY <1>1, <2>3, <2>4, <3>1, <3>2, <3>6, <3>8
    <2> QED
      BY <2>5, <2>6
  <1>5. ASSUME NEW r \in Notes, notes'[r].status = "none"
        PROVE  notes'[r].paid = 0
    <2>1. \A k \in DOMAIN new : new[k].note # r
      BY <1>1, <1>5
    <2> QED
      BY <1>1, <1>5, <2>1 DEF AbsentUnpaid
  <1> QED
    BY <1>4, <1>5 DEF PaidSums, AbsentUnpaid

LEMMA CancelAddsUp ==
  ASSUME RemitsTyped, NotesTyped, PaidSums, AbsentUnpaid, NEW n, CancelStep(n)
  PROVE  PaidSums' /\ AbsentUnpaid'
PROOF
  <1> DEFINE q == remitted[n].note
             x == remitted[n].amount
  <1>1. /\ n \in DOMAIN remitted /\ remitted[n] \in RemitSet
        /\ remitted' = [remitted EXCEPT ![n] = NoRemit]
        /\ \A r \in Notes : notes'[r].paid = IF r = q THEN OrZero(notes[r].paid - x) ELSE notes[r].paid
        /\ \A r \in Notes : notes'[r].status = notes[r].status
    BY DEF CancelStep, OnlyPaidMoves
  <1>2. q \in Notes /\ x \in Nat
    BY <1>1 DEF RemitSet
  <1>3. /\ \A r : IsFiniteSet(On(remitted, r))
        /\ \A m \in DOMAIN remitted : remitted[m].note \in Notes => remitted[m].amount \in Nat
        /\ \A r \in Notes : r # 0
    BY OnIsFinite
  <1>4. /\ DOMAIN remitted' = DOMAIN remitted /\ remitted'[n] = NoRemit /\ NoRemit.note = 0
        /\ \A m \in DOMAIN remitted \ {n} : remitted'[m] = remitted[m]
    BY <1>1 DEF NoRemit
  <1>5. \A r \in Notes : On(remitted', r) = On(remitted, r) \ {n}
    BY <1>3, <1>4 DEF On
  <1>6. \A r \in Notes : r # q => n \notin On(remitted, r)
    BY DEF On
  <1>7. n \in On(remitted, q)
    BY <1>1 DEF On
  <1> HIDE DEF q, x
  <1>8. ASSUME NEW r \in Notes
        PROVE  notes'[r].paid = RemitSum(remitted', On(remitted', r))
    <2> DEFINE S == On(remitted, r) \ {n}
    <2>1. IsFiniteSet(S) /\ n \notin S
      BY <1>3, FS_Subset
    <2>2. \A m \in S : remitted'[m] = remitted[m] /\ remitted[m].amount \in Nat
      BY <1>3, <1>4 DEF On
    <2> HIDE DEF S
    <2>3. RemitSum(remitted', S) = RemitSum(remitted, S)
      BY <2>1, <2>2, AmountsSame
    <2>4. notes[r].paid = RemitSum(remitted, On(remitted, r))
      BY DEF PaidSums
    <2>5. CASE r = q
      <3>1. On(remitted, r) = S \cup {n}
        BY <1>7, <2>5 DEF S
      <3>2. \A m \in S \cup {n} : remitted[m].amount \in Nat
        BY <2>2, <1>2 DEF x
      <3>3. RemitSum(remitted, S \cup {n}) = RemitSum(remitted, S) + remitted[n].amount
            /\ RemitSum(remitted, S) \in Nat
        BY <2>1, <3>2, AmountsAlso
      <3>4. OrZero(notes[r].paid - x) = RemitSum(remitted, S)
        BY <2>4, <3>1, <3>3, <1>2 DEF OrZero, x
      <3> QED
        BY <1>1, <1>5, <2>3, <2>5, <3>4 DEF S, q, x
    <2>6. CASE r # q
      <3>1. On(remitted, r) = S
        BY <1>6, <2>6 DEF S
      <3> QED
        BY <1>1, <1>5, <2>3, <2>4, <2>6, <3>1 DEF S, q
    <2> QED
      BY <2>5, <2>6
  <1>9. ASSUME NEW r \in Notes, notes'[r].status = "none"
        PROVE  notes'[r].paid = 0
    <2>1. notes[r].paid = 0
      BY <1>1, <1>9 DEF AbsentUnpaid
    <2> QED
      BY <1>1, <1>2, <2>1 DEF OrZero, q, x
  <1> QED
    BY <1>8, <1>9 DEF PaidSums, AbsentUnpaid

LEMMA DropAddsUp ==
  ASSUME RemitsTyped, PaidSums, AbsentUnpaid, NEW r, DropStep(r)
  PROVE  PaidSums' /\ AbsentUnpaid'
PROOF
  <1>1. /\ r \in Notes /\ notes'[r].paid = 0
        /\ remitted' = [n \in DOMAIN remitted |-> IF n \in Standing(r) THEN NoRemit ELSE remitted[n]]
        /\ \A q \in Notes \ {r} : /\ notes'[q].paid = notes[q].paid
                                  /\ notes'[q].status = "none" => notes[q].status = "none"
    BY DEF DropStep
  <1>2. (\A q : IsFiniteSet(On(remitted, q))) /\ \A q \in Notes : q # 0
    BY OnIsFinite
  <1>3. DOMAIN remitted' = DOMAIN remitted
        /\ \A n \in DOMAIN remitted : remitted'[n] = IF remitted[n].note = r THEN NoRemit ELSE remitted[n]
    BY <1>1 DEF Standing
  <1>4. NoRemit.note = 0
    BY DEF NoRemit
  <1>5. On(remitted', r) = {}
    BY <1>1, <1>2, <1>3, <1>4 DEF On
  <1>6. ASSUME NEW q \in Notes \ {r}
        PROVE  notes'[q].paid = RemitSum(remitted', On(remitted', q))
    <2>1. On(remitted', q) = On(remitted, q)
      BY <1>2, <1>3, <1>4 DEF On
    <2>2. \A n \in On(remitted, q) : remitted'[n] = remitted[n]
      BY <1>3 DEF On
    <2>3. RemitSum(remitted', On(remitted, q)) = RemitSum(remitted, On(remitted, q))
      BY <1>2, <2>2, AmountsSame
    <2> QED
      BY <1>1, <2>1, <2>3 DEF PaidSums
  <1> QED
    BY <1>1, <1>5, <1>6, AmountsNone DEF PaidSums, AbsentUnpaid

LEMMA ResupplyAddsUp ==
  ASSUME RemitsTyped, PaidSums, AbsentUnpaid, NEW r, NEW p, ResupplyStep(r, p)
  PROVE  PaidSums' /\ AbsentUnpaid'
PROOF
  <1>1. /\ \A q \in Notes : /\ notes'[q].paid = notes[q].paid
                            /\ notes'[q].status = "none" => notes[q].status = "none"
        /\ remitted' = [n \in DOMAIN remitted |->
             IF n \in Standing(r) THEN [remitted[n] EXCEPT !.supplier = p] ELSE remitted[n]]
    BY DEF ResupplyStep
  <1>2. /\ \A q : IsFiniteSet(On(remitted, q))
        /\ \A n \in DOMAIN remitted : remitted[n] \in RemitSet \cup {NoRemit}
    BY OnIsFinite DEF RemitsTyped
  <1>3. /\ DOMAIN remitted' = DOMAIN remitted
        /\ \A n \in DOMAIN remitted : remitted'[n].note = remitted[n].note
    BY <1>1, <1>2 DEF RemitSet, NoRemit
  <1>4. \A n \in DOMAIN remitted : remitted[n].note \in Notes => remitted'[n].amount = remitted[n].amount
    <2> TAKE n \in DOMAIN remitted
    <2> HAVE remitted[n].note \in Notes
    <2>1. remitted[n] \in RemitSet
      BY OnIsFinite
    <2> QED
      BY <1>1, <2>1 DEF RemitSet
  <1>5. ASSUME NEW q \in Notes
        PROVE  notes'[q].paid = RemitSum(remitted', On(remitted', q))
    <2>1. On(remitted', q) = On(remitted, q)
      BY <1>3 DEF On
    <2>2. \A n \in On(remitted, q) : remitted'[n].amount = remitted[n].amount
      BY <1>4 DEF On
    <2>3. RemitSum(remitted', On(remitted, q)) = RemitSum(remitted, On(remitted, q))
      BY <1>2, <2>2, AmountsSame
    <2> QED
      BY <1>1, <2>1, <2>3 DEF PaidSums
  <1> QED
    BY <1>1, <1>5 DEF PaidSums, AbsentUnpaid

PaidStep == \/ PaidStays
            \/ \E new : PaysStep(new)
            \/ \E n : CancelStep(n)
            \/ \E r : DropStep(r)
            \/ \E r \in Notes : \E p \in Parties : ResupplyStep(r, p)

LEMMA NotesLeft ==
  ASSUME NotesTyped, UNCHANGED <<notes, remitted>>
  PROVE  PaidStep
  BY DEF PaidStep, PaidStays

LEMMA NoteEntered ==
  ASSUME NotesTyped, AbsentUnpaid, CreateNote
  PROVE  PaidStep
PROOF
  <1>1. PICK r \in Notes, b \in Branches, p \in Suppliers \union {"none"}, q \in Lines,
             draft \in BOOLEAN :
          /\ ~There(r) /\ notes[r].item = 0
          /\ notes' = [notes EXCEPT ![r] =
                   [BlankNote EXCEPT !.status = IF draft THEN "draft" ELSE "received",
                                     !.supplier = p, !.branch = b, !.total = q, !.item = 1]]
          /\ UNCHANGED <<remitted, credit, advanced, books, desk>>
    BY ZenonT(60) DEF CreateNote
  <1>2. notes[r].paid = 0
    BY <1>1 DEF AbsentUnpaid, There
  <1> DEFINE n == [BlankNote EXCEPT !.status = IF draft THEN "draft" ELSE "received",
                                    !.supplier = p, !.branch = b, !.total = q, !.item = 1]
  <1>3. n.paid = 0 /\ n.status # "none"
    BY DEF BlankNote
  <1>4. notes' = [notes EXCEPT ![r] = n]
    BY <1>1
  <1> HIDE DEF n
  <1>5. PaidStays
    BY <1>1, <1>2, <1>3, <1>4 DEF PaidStays, NotesTyped
  <1> QED
    BY <1>5 DEF PaidStep

LEMMA GoodsStepPaid ==
  ASSUME NotesTyped, DeskTyped, NEW s \in Sessions,
         \/ ReceiveNote(s) \/ EditNote(s) \/ Unreceive(s) \/ SendBack(s) \/ HandOverOffDebt(s)
  PROVE  PaidStep
PROOF
  <1> DEFINE r == job[s].note
  <1>1. r \in Notes /\ UNCHANGED remitted
        /\ \/ notes' = [notes EXCEPT ![r].status = "received"]
           \/ notes' = [notes EXCEPT ![r].item = @ + 1, ![r].total = job[s].total,
                                     ![r].branch = job[s].branch]
           \/ notes' = [notes EXCEPT ![r].status = "draft"]
           \/ notes' = [notes EXCEPT ![r].sentBack = @ + job[s].units, ![r].returns = TRUE]
    <2>1. CASE ReceiveNote(s)
      BY <2>1, HeldBy DEF ReceiveNote
    <2>2. CASE EditNote(s)
      BY <2>2, HeldBy DEF EditNote
    <2>3. CASE Unreceive(s)
      BY <2>3, HeldBy DEF Unreceive
    <2>4. CASE SendBack(s)
      BY <2>4, HeldBy DEF SendBack
    <2>5. CASE HandOverOffDebt(s)
      BY <2>5, HeldBy DEF HandOverOffDebt
    <2> QED
      BY <2>1, <2>2, <2>3, <2>4, <2>5
  <1> HIDE DEF r
  <1>2. PaidStays
    BY <1>1 DEF PaidStays, NotesTyped, NoteSet, NoteFields
  <1> QED
    BY <1>2 DEF PaidStep

LEMMA RemovePaid ==
  ASSUME NotesTyped, DeskTyped, NEW s \in Sessions, RemoveNote(s)
  PROVE  DropStep(job[s].note) /\ UNCHANGED books
PROOF
  <1> DEFINE r == job[s].note
  <1>1. /\ Leave(s, "reverse")
        /\ notes' = [notes EXCEPT ![r] = [BlankNote EXCEPT !.item = notes[r].item]]
        /\ remitted' = [n \in DOMAIN remitted |-> IF n \in Standing(r) THEN NoRemit ELSE remitted[n]]
        /\ UNCHANGED books
    BY DEF RemoveNote
  <1>2. r \in Notes
    BY <1>1, HeldBy
  <1> DEFINE n == [BlankNote EXCEPT !.item = notes[r].item]
  <1>3. n.paid = 0
    BY DEF BlankNote
  <1>4. notes' = [notes EXCEPT ![r] = n]
    BY <1>1
  <1> HIDE DEF n, r
  <1>5. DropStep(r)
    BY <1>1, <1>2, <1>3, <1>4 DEF DropStep, NotesTyped
  <1> QED
    BY <1>1, <1>5 DEF r

LEMMA RelabelPaid ==
  ASSUME NotesTyped, DeskTyped, NEW s \in Sessions, Relabel(s)
  PROVE  PaidStep /\ UNCHANGED books
         /\ (PaidStays \/ \E r \in Notes : \E p \in Parties : ResupplyStep(r, p))
PROOF
  <1> DEFINE r == job[s].note
             q == job[s].supplier
  <1>1. /\ Leave(s, "relabel")
        /\ notes' = [notes EXCEPT ![r].supplier = q, ![r].branch = job[s].branch]
        /\ remitted' = IF job[s].kind = "branch" THEN remitted
                       ELSE [n \in DOMAIN remitted |->
                             IF n \in Standing(r) THEN [remitted[n] EXCEPT !.supplier = q]
                             ELSE remitted[n]]
        /\ UNCHANGED books
    BY DEF Relabel
  <1>2. r \in Notes /\ q \in Parties
    BY <1>1, HeldBy
  <1> HIDE DEF r, q
  <1>3. \A p \in Notes : /\ notes'[p].paid = notes[p].paid
                         /\ notes'[p].status = "none" => notes[p].status = "none"
    BY <1>1, <1>2 DEF NotesTyped, NoteSet, NoteFields
  <1>4. CASE job[s].kind = "branch"
    BY <1>1, <1>3, <1>4 DEF PaidStep, PaidStays
  <1>5. CASE job[s].kind # "branch"
    <2>1. ResupplyStep(r, q)
      BY <1>1, <1>3, <1>5 DEF ResupplyStep
    <2> QED
      BY <1>1, <1>2, <2>1 DEF PaidStep
  <1> QED
    BY <1>4, <1>5

LEMMA DeskPays ==
  ASSUME AccountTyped, AccountNext
  PROVE  (\E new : PaysStep(new)) \/ (\E n : CancelStep(n))
  BY PaymentsMade, PaymentCancelled DEF AccountNext, Pays

LEMMA UndoPaid ==
  ASSUME NotesTyped, UndoHandOver
  PROVE  PaidStays
PROOF
  <1>1. PICK n \in DOMAIN handOvers :
          LET h == handOvers[n]
          IN  \/ UNCHANGED <<notes, remitted>>
              \/ /\ notes' = [notes EXCEPT ![h.note].sentBack = OrZero(@ - h.value)]
                 /\ UNCHANGED <<remitted, credit, advanced, books>>
    BY DEF UndoHandOver, account
  <1> DEFINE r == handOvers[n].note
             x == handOvers[n].value
  <1>2. \/ UNCHANGED <<notes, remitted>>
        \/ notes' = [notes EXCEPT ![r].sentBack = OrZero(@ - x)] /\ UNCHANGED remitted
    BY <1>1
  <1> HIDE DEF r, x
  <1> QED
    BY <1>2 DEF PaidStays, NotesTyped, NoteSet, NoteFields

LEMMA StepsPay ==
  ASSUME SupplyOK, AbsentUnpaid, [StoreNext]_storeVars
  PROVE  PaidStep
PROOF
  <1>1. AccountTyped /\ NotesTyped /\ DeskTyped
    BY DEF SupplyOK, AccountTyped
  <1>2. CASE DefectsNext
    <2>1. CASE \E s \in Sessions : HandOverOffDebt(s)
      BY <1>1, <2>1, GoodsStepPaid
    <2>2. CASE UndoHandOver
      BY <1>1, <2>2, UndoPaid DEF PaidStep
    <2>3. CASE \/ FromShelf \/ FromCustomer \/ OpeningStore \/ WriteOff \/ BackOnShelf
               \/ HandOverForCredit \/ HandOverForCash \/ \E s \in Sessions : LookToHandOver(s)
      <3>1. UNCHANGED <<notes, remitted>>
        BY <2>3 DEF FromShelf, FromCustomer, OpeningStore, WriteOff, BackOnShelf, HandOverForCredit,
                    HandOverForCash, LookToHandOver, account
      <3> QED
        BY <1>1, <3>1, NotesLeft
    <2> QED
      BY <1>2, <2>1, <2>2, <2>3 DEF DefectsNext
  <1>3. CASE GoodsNext
    <2>1. CASE CreateNote
      BY <1>1, <2>1, NoteEntered
    <2>2. CASE Sale
      <3>1. UNCHANGED <<notes, remitted>>
        BY <2>2 DEF Sale, account
      <3> QED
        BY <1>1, <3>1, NotesLeft
    <2>3. ASSUME NEW s \in Sessions,
                 \/ LookToReceive(s) \/ LookToEdit(s) \/ LookToReverse(s) \/ LookToRelabel(s)
                 \/ LookToSendBack(s) \/ DeliveryGivesUp(s)
          PROVE  PaidStep
      <3>1. UNCHANGED <<notes, remitted>>
        BY <2>3 DEF LookToReceive, LookToEdit, LookToReverse, LookToRelabel, LookToSendBack,
                    DeliveryGivesUp, account
      <3> QED
        BY <1>1, <3>1, NotesLeft
    <2>4. ASSUME NEW s \in Sessions, ReceiveNote(s) \/ EditNote(s) \/ Unreceive(s) \/ SendBack(s)
          PROVE  PaidStep
      BY <1>1, <2>4, GoodsStepPaid
    <2>5. ASSUME NEW s \in Sessions, RemoveNote(s)
          PROVE  PaidStep
      BY <1>1, <2>5, RemovePaid DEF PaidStep
    <2>6. ASSUME NEW s \in Sessions, Relabel(s)
          PROVE  PaidStep
      BY <1>1, <2>6, RelabelPaid
    <2> QED
      BY <1>3, <2>1, <2>2, <2>3, <2>4, <2>5, <2>6 DEF GoodsNext
  <1>4. CASE PayDesk
    BY <1>1, <1>4, DeskPays DEF PayDesk, PaidStep
  <1>5. CASE UNCHANGED storeVars
    BY <1>1, <1>5, NotesLeft DEF storeVars, account
  <1> QED
    BY <1>2, <1>3, <1>4, <1>5 DEF StoreNext, Deliver, DeliveryNext

PaidOK == SupplyOK /\ PaidSums /\ AbsentUnpaid

LEMMA PaidStart == ASSUME StoreInit PROVE PaidOK
PROOF
  <1>1. SupplyOK
    BY SupplyStart
  <1>2. remitted = <<>> /\ notes = [r \in Notes |-> BlankNote] /\ BlankNote.paid = 0
    BY DEF StoreInit, DeliveryInit, AccountInit, BlankNote
  <1>3. \A r \in Notes : On(remitted, r) = {} /\ notes[r].paid = 0
    BY <1>2 DEF On
  <1> QED
    BY <1>1, <1>3, AmountsNone DEF PaidOK, PaidSums, AbsentUnpaid

LEMMA PaidSteps == ASSUME PaidOK, [StoreNext]_storeVars PROVE PaidOK'
PROOF
  <1>1. SupplyOK /\ PaidSums /\ AbsentUnpaid /\ RemitsTyped /\ NotesTyped
    BY DEF PaidOK, SupplyOK, AccountTyped
  <1>2. PaidStep /\ SupplyOK'
    BY <1>1, StepsPay, SupplySteps
  <1>3. CASE PaidStays
    <2>1. On(remitted', 0) = On(remitted, 0) /\ \A r \in Notes : On(remitted', r) = On(remitted, r)
      BY <1>3 DEF PaidStays, On
    <2>2. PaidSums'
      BY <1>1, <1>3 DEF PaidSums, PaidStays
    <2>3. AbsentUnpaid'
      BY <1>1, <1>3 DEF AbsentUnpaid, PaidStays
    <2> QED
      BY <1>2, <2>2, <2>3 DEF PaidOK
  <1> QED
    BY <1>1, <1>2, <1>3, PaysAddUp, CancelAddsUp, DropAddsUp, ResupplyAddsUp DEF PaidStep, PaidOK

\* A note's paid figure is what the payments that stand on it come to.
THEOREM PaidAddsUpThm == StoreSpec => []PaidAddsUp
PROOF
  <1>1. PaidOK => PaidAddsUp
    BY DEF PaidOK, PaidSums, PaidAddsUp, Standing, RemitSum, On
  <1> QED
    BY <1>1, PaidStart, PaidSteps, PTL DEF StoreSpec

------------------------------------------------------------------------------
\* Payments, refunds and their rows.

\* One row is answered, and every other row that is not the owner's capital stays.
RowReversed(k) ==
  /\ DOMAIN rows \subseteq DOMAIN rows'
  /\ \A m \in DOMAIN rows : /\ rows'[m].source = rows[m].source /\ rows'[m].amount = rows[m].amount
                            /\ rows'[m].of = rows[m].of
  /\ \A m \in DOMAIN rows : m # k /\ rows[m].source # "external" =>
                              rows'[m].cancelled = rows[m].cancelled
  /\ rows'[k].cancelled = TRUE
  /\ \A m \in DOMAIN rows' \ DOMAIN rows : rows'[m].source = "reversal"

LEMMA RowAnswered ==
  ASSUME LedgerOK(rows, Payers), NEW k \in DOMAIN rows, rows[k].source # "external",
         CanReverse(k, FALSE, FALSE), WriteReversal(k)
  PROVE  RowReversed(k)
PROOF
  <1>1. /\ DOMAIN rows \subseteq DOMAIN rows'
        /\ \A m \in DOMAIN rows :
             /\ rows'[m].source = rows[m].source /\ rows'[m].amount = rows[m].amount
             /\ rows'[m].of = rows[m].of
             /\ rows'[m].cancelled = (rows[m].cancelled \/ m \in LegsOf(k))
        /\ \A m \in DOMAIN rows' \ DOMAIN rows : rows'[m].source = "reversal"
    BY Reversing
  <1>2. k \in LegsOf(k)
    BY DEF LegsOf
  <1>3. \A m \in DOMAIN rows : m # k /\ rows[m].source # "external" => m \notin LegsOf(k)
    BY OneOwnLeg
  <1>4. \A m \in DOMAIN rows : rows[m].cancelled \in BOOLEAN
    <2>1. \A m \in DOMAIN rows : rows[m] \in Row(Payers)
      BY DEF LedgerOK
    <2> QED
      BY <2>1 DEF Row
  <1>5. \A m \in DOMAIN rows : m # k /\ rows[m].source # "external" =>
          rows'[m].cancelled = rows[m].cancelled
    BY <1>1, <1>3, <1>4
  <1>6. rows'[k].cancelled = TRUE
    BY <1>1, <1>2
  <1> QED
    BY <1>1, <1>5, <1>6 DEF RowReversed

------------------------------------------------------------------------------
InMoney(all) == {n \in DOMAIN all : all[n] # NoRemit /\ all[n].source = "money"}
Expenses(R) == {k \in DOMAIN R : R[k].source = "supplier_payment" /\ R[k].of # 0 /\ ~R[k].cancelled}

RemitsBooked(all, R) ==
  /\ \A n \in InMoney(all) : all[n].row \in Expenses(R) /\ R[all[n].row].amount = all[n].amount
  /\ \A k \in Expenses(R) : \E n \in InMoney(all) : all[n].row = k
  /\ \A m, n \in InMoney(all) : all[m].row = all[n].row => m = n

InCash(all) == {n \in DOMAIN all : all[n].way = "cash"}

RefundsBooked(all, R) ==
  /\ \A n \in InCash(all) : /\ all[n].row \in DOMAIN R /\ R[all[n].row].source = "supplier_refund"
                            /\ R[all[n].row].amount = all[n].value
                            /\ R[all[n].row].cancelled = all[n].undone
  /\ \A m, n \in InCash(all) : all[m].row = all[n].row => m = n

BookedOK == RemitsBooked(remitted, rows) /\ RefundsBooked(handOvers, rows)

\* The rows of a kind are what they were.
RowsStay(source) ==
  /\ \A k \in DOMAIN rows : rows[k].source = source =>
       /\ k \in DOMAIN rows' /\ rows'[k].source = source /\ rows'[k].amount = rows[k].amount
       /\ rows'[k].of = rows[k].of /\ rows'[k].cancelled = rows[k].cancelled
  /\ \A k \in DOMAIN rows' : rows'[k].source = source => k \in DOMAIN rows /\ rows[k].source = source

HandsStay ==
  /\ DOMAIN handOvers \subseteq DOMAIN handOvers'
  /\ \A n \in InCash(handOvers') :
       /\ n \in DOMAIN handOvers /\ handOvers[n].way = "cash" /\ handOvers'[n].row = handOvers[n].row
       /\ handOvers'[n].value = handOvers[n].value /\ handOvers'[n].undone = handOvers[n].undone

LEMMA RefundsStay ==
  ASSUME RefundsBooked(handOvers, rows), HandsStay, RowsStay("supplier_refund")
  PROVE  RefundsBooked(handOvers', rows')
PROOF
  <1>1. \A n \in InCash(handOvers') : n \in InCash(handOvers) /\ handOvers'[n].row = handOvers[n].row
    BY DEF HandsStay, InCash
  <1>2. \A n \in InCash(handOvers') :
          /\ handOvers'[n].row \in DOMAIN rows' /\ rows'[handOvers'[n].row].source = "supplier_refund"
          /\ rows'[handOvers'[n].row].amount = handOvers'[n].value
          /\ rows'[handOvers'[n].row].cancelled = handOvers'[n].undone
    BY <1>1 DEF RefundsBooked, HandsStay, RowsStay
  <1> QED
    BY <1>1, <1>2 DEF RefundsBooked

\* The payments that stand are the same, as far as the ledger is concerned.
RemitsStay ==
  /\ InMoney(remitted') = InMoney(remitted)
  /\ \A n \in InMoney(remitted) : /\ remitted'[n].row = remitted[n].row
                                  /\ remitted'[n].amount = remitted[n].amount

LEMMA RemitsBookedStay ==
  ASSUME RemitsBooked(remitted, rows), RemitsStay, RowsStay("supplier_payment")
  PROVE  RemitsBooked(remitted', rows')
PROOF
  <1>1. Expenses(rows') = Expenses(rows)
    BY DEF Expenses, RowsStay
  <1>2. \A k \in Expenses(rows) : rows'[k].amount = rows[k].amount
    BY DEF Expenses, RowsStay
  <1> QED
    BY <1>1, <1>2 DEF RemitsBooked, RemitsStay

LEMMA PaysBooked ==
  ASSUME RemitsTyped, BookedOK, HandsStay, NEW new, PaysStep(new)
  PROVE  BookedOK'
PROOF
  <1>1. /\ new \in Seq(RemitSet) /\ remitted' = remitted \o new
        /\ DOMAIN rows \subseteq DOMAIN rows' /\ \A m \in DOMAIN rows : rows'[m] = rows[m]
        /\ \A k \in DOMAIN new : new[k].source = "money" =>
             /\ new[k].row \in DOMAIN rows' \ DOMAIN rows
             /\ rows'[new[k].row].source = "supplier_payment"
             /\ rows'[new[k].row].amount = new[k].amount /\ rows'[new[k].row].of = new[k].note
             /\ ~rows'[new[k].row].cancelled
        /\ \A j, k \in DOMAIN new :
             new[j].source = "money" /\ new[k].source = "money" /\ new[j].row = new[k].row => j = k
        /\ \A m \in DOMAIN rows' \ DOMAIN rows :
             \/ rows'[m].source = "external" \/ rows'[m].of = 0
             \/ \E k \in DOMAIN new : new[k].source = "money" /\ m = new[k].row
    BY DEF PaysStep
  <1>2. /\ DOMAIN new = 1..Len(new) /\ Len(new) \in Nat
        /\ DOMAIN remitted = 1..Len(remitted) /\ Len(remitted) \in Nat
        /\ DOMAIN remitted' = 1..(Len(remitted) + Len(new))
        /\ \A n \in DOMAIN remitted : n \in DOMAIN remitted' /\ remitted'[n] = remitted[n]
        /\ \A k \in 1..Len(new) : remitted'[Len(remitted) + k] = new[k]
        /\ \A n \in DOMAIN remitted' : n \in DOMAIN remitted
                                       \/ \E k \in 1..Len(new) : n = Len(remitted) + k
    BY <1>1, RemitsAdded
  <1>3. \A k \in DOMAIN new : new[k] # NoRemit /\ new[k].note # 0
    <2> TAKE k \in DOMAIN new
    <2>1. new[k] \in RemitSet
      BY <1>1
    <2> QED
      BY <2>1, SupplierAssumption DEF RemitSet, NoRemit
  <1> DEFINE at(k) == Len(remitted) + k
  <1>4. \A k \in DOMAIN new : at(k) \in DOMAIN remitted' /\ remitted'[at(k)] = new[k]
    BY <1>2
  <1>5. \A n \in InMoney(remitted') :
          \/ n \in InMoney(remitted) /\ remitted'[n] = remitted[n]
          \/ \E k \in DOMAIN new : n = at(k) /\ remitted'[n] = new[k] /\ new[k].source = "money"
    BY <1>2 DEF InMoney
  <1>6. InMoney(remitted) \subseteq InMoney(remitted')
        /\ \A k \in DOMAIN new : new[k].source = "money" => at(k) \in InMoney(remitted')
    BY <1>2, <1>3, <1>4 DEF InMoney
  <1> HIDE DEF at
  <1>7. /\ \A n \in InMoney(remitted) : remitted[n].row \in Expenses(rows)
                                        /\ rows[remitted[n].row].amount = remitted[n].amount
        /\ \A k \in Expenses(rows) : \E n \in InMoney(remitted) : remitted[n].row = k
        /\ \A m, n \in InMoney(remitted) : remitted[m].row = remitted[n].row => m = n
    BY DEF BookedOK, RemitsBooked
  <1>8. /\ Expenses(rows) \subseteq Expenses(rows') /\ Expenses(rows) \subseteq DOMAIN rows
        /\ \A k \in DOMAIN new : new[k].source = "money" => new[k].row \in Expenses(rows')
        /\ \A m \in Expenses(rows') : m \in Expenses(rows)
             \/ \E k \in DOMAIN new : new[k].source = "money" /\ m = new[k].row
    <2>1. /\ Expenses(rows) \subseteq Expenses(rows') /\ Expenses(rows) \subseteq DOMAIN rows
      BY <1>1 DEF Expenses
    <2>2. \A k \in DOMAIN new : new[k].source = "money" => new[k].row \in Expenses(rows')
      BY <1>1, <1>3 DEF Expenses
    <2>3. \A m \in Expenses(rows') : m \in Expenses(rows)
             \/ \E k \in DOMAIN new : new[k].source = "money" /\ m = new[k].row
      BY <1>1 DEF Expenses
    <2> QED
      BY <2>1, <2>2, <2>3
  <1>9. \A n \in InMoney(remitted') : remitted'[n].row \in Expenses(rows')
                                      /\ rows'[remitted'[n].row].amount = remitted'[n].amount
    <2> TAKE n \in InMoney(remitted')
    <2>1. CASE n \in InMoney(remitted) /\ remitted'[n] = remitted[n]
      BY <1>1, <1>7, <1>8, <2>1
    <2>2. CASE \E k \in DOMAIN new : n = at(k) /\ remitted'[n] = new[k] /\ new[k].source = "money"
      BY <1>1, <1>8, <2>2
    <2> QED
      BY <1>5, <2>1, <2>2
  <1>10. \A m \in Expenses(rows') : \E n \in InMoney(remitted') : remitted'[n].row = m
    <2> TAKE m \in Expenses(rows')
    <2>1. CASE m \in Expenses(rows)
      <3>1. PICK n \in InMoney(remitted) : remitted[n].row = m
        BY <1>7, <2>1
      <3>2. n \in InMoney(remitted') /\ remitted'[n] = remitted[n]
        BY <1>2, <1>6 DEF InMoney
      <3> QED
        BY <3>1, <3>2
    <2>2. CASE \E k \in DOMAIN new : new[k].source = "money" /\ m = new[k].row
      BY <1>4, <1>6, <2>2
    <2> QED
      BY <1>8, <2>1, <2>2
  <1>11. \A m, n \in InMoney(remitted') : remitted'[m].row = remitted'[n].row => m = n
    <2> SUFFICES ASSUME NEW m \in InMoney(remitted'), NEW n \in InMoney(remitted'),
                        remitted'[m].row = remitted'[n].row
                 PROVE  m = n
      OBVIOUS
    <2>1. \A i \in InMoney(remitted) : remitted[i].row \in DOMAIN rows
      BY <1>7, <1>8
    <2> DEFINE Old(i) == i \in InMoney(remitted) /\ remitted'[i] = remitted[i]
               Made(i) == \E k \in DOMAIN new :
                            i = at(k) /\ remitted'[i] = new[k] /\ new[k].source = "money"
    <2>2. (Old(m) \/ Made(m)) /\ (Old(n) \/ Made(n))
      BY <1>5
    <2>3. CASE Old(m) /\ Old(n)
      BY <1>7, <2>3
    <2>4. CASE Made(m) /\ Made(n)
      <3>1. PICK j \in DOMAIN new : m = at(j) /\ remitted'[m] = new[j] /\ new[j].source = "money"
        BY <2>4
      <3>2. PICK k \in DOMAIN new : n = at(k) /\ remitted'[n] = new[k] /\ new[k].source = "money"
        BY <2>4
      <3>3. j = k
        BY <1>1, <3>1, <3>2
      <3> QED
        BY <3>1, <3>2, <3>3
    <2>5. \A i : Old(i) => remitted'[i].row \in DOMAIN rows
      BY <2>1
    <2>6. \A i : Made(i) => remitted'[i].row \notin DOMAIN rows
      BY <1>1
    <2> QED
      BY <2>2, <2>3, <2>4, <2>5, <2>6
  <1>12. RemitsBooked(remitted', rows')
    BY <1>9, <1>10, <1>11 DEF RemitsBooked
  <1>13. RefundsBooked(handOvers', rows')
    <2>1. \A n \in InCash(handOvers') : n \in InCash(handOvers) /\ handOvers'[n].row = handOvers[n].row
            /\ handOvers'[n].value = handOvers[n].value /\ handOvers'[n].undone = handOvers[n].undone
      BY DEF HandsStay, InCash
    <2>2. RefundsBooked(handOvers, rows)
      BY DEF BookedOK
    <2> QED
      BY <1>1, <2>1, <2>2 DEF RefundsBooked
  <1> QED
    BY <1>12, <1>13 DEF BookedOK

LEMMA CancelBooked ==
  ASSUME RemitsTyped, LedgerOK(rows, Payers), BookedOK, HandsStay, NEW n, CancelStep(n)
  PROVE  BookedOK'
PROOF
  <1> DEFINE k == remitted[n].row
  <1>1. /\ n \in DOMAIN remitted /\ remitted[n] # NoRemit /\ remitted[n] \in RemitSet
        /\ remitted' = [remitted EXCEPT ![n] = NoRemit]
        /\ remitted[n].source = "credit" => rows' = rows
        /\ remitted[n].source = "money" =>
             /\ k \in DOMAIN rows /\ CanReverse(k, FALSE, FALSE) /\ WriteReversal(k)
    BY DEF CancelStep
  <1>2. /\ DOMAIN remitted' = DOMAIN remitted /\ remitted'[n] = NoRemit
        /\ \A m \in DOMAIN remitted \ {n} : remitted'[m] = remitted[m]
    BY <1>1
  <1>3. InMoney(remitted') = InMoney(remitted) \ {n}
        /\ \A m \in InMoney(remitted') : remitted'[m] = remitted[m]
    BY <1>2 DEF InMoney
  <1>4. RemitsBooked(remitted, rows) /\ RefundsBooked(handOvers, rows)
    BY DEF BookedOK
  <1>5. CASE remitted[n].source = "credit"
    <2>1. n \notin InMoney(remitted) /\ rows' = rows
      BY <1>1, <1>5 DEF InMoney
    <2>2. RemitsStay /\ RowsStay("supplier_payment") /\ RowsStay("supplier_refund")
      BY <1>3, <2>1 DEF RemitsStay, RowsStay
    <2> QED
      BY <1>4, <2>2, RemitsBookedStay, RefundsStay DEF BookedOK
  <1>6. CASE remitted[n].source = "money"
    <2>1. n \in InMoney(remitted)
      BY <1>1, <1>6 DEF InMoney
    <2>2. k \in Expenses(rows)
      BY <1>4, <2>1 DEF RemitsBooked
    <2>3. k \in DOMAIN rows /\ rows[k].source = "supplier_payment" /\ rows[k].source # "external"
      BY <2>2 DEF Expenses
    <2>4. CanReverse(k, FALSE, FALSE) /\ WriteReversal(k)
      BY <1>1, <1>6
    <2>8. k = remitted[n].row
      OBVIOUS
    <2> HIDE DEF k
    <2>5. RowReversed(k)
      BY <2>3, <2>4, RowAnswered
    <2>6. RowsStay("supplier_refund")
      BY <2>3, <2>5 DEF RowReversed, RowsStay
    <2>7. Expenses(rows') = Expenses(rows) \ {k}
          /\ \A m \in Expenses(rows) : rows'[m].amount = rows[m].amount
      BY <2>3, <2>5 DEF RowReversed, Expenses
    <2>9. /\ \A m \in InMoney(remitted) : remitted[m].row \in Expenses(rows)
                                          /\ rows[remitted[m].row].amount = remitted[m].amount
          /\ \A j \in Expenses(rows) : \E m \in InMoney(remitted) : remitted[m].row = j
          /\ \A i, j \in InMoney(remitted) : remitted[i].row = remitted[j].row => i = j
      BY <1>4 DEF RemitsBooked
    <2>10. \A m \in InMoney(remitted') : m \in InMoney(remitted) /\ remitted[m].row # k
      BY <1>3, <2>1, <2>8, <2>9
    <2>11. \A m \in InMoney(remitted') : remitted'[m].row \in Expenses(rows')
                                          /\ rows'[remitted'[m].row].amount = remitted'[m].amount
      BY <1>3, <2>7, <2>9, <2>10
    <2>12. \A j \in Expenses(rows') : \E m \in InMoney(remitted') : remitted'[m].row = j
      <3> TAKE j \in Expenses(rows')
      <3>1. j \in Expenses(rows) /\ j # k
        BY <2>7
      <3>2. PICK m \in InMoney(remitted) : remitted[m].row = j
        BY <2>9, <3>1
      <3>3. m \in InMoney(remitted')
        BY <1>3, <2>8, <3>1, <3>2
      <3> QED
        BY <1>3, <3>2, <3>3
    <2>13. \A i, j \in InMoney(remitted') : remitted'[i].row = remitted'[j].row => i = j
      BY <1>3, <2>9, <2>10
    <2>14. RemitsBooked(remitted', rows')
      BY <2>11, <2>12, <2>13 DEF RemitsBooked
    <2> QED
      BY <1>4, <2>6, <2>14, RefundsStay DEF BookedOK
  <1> QED
    BY <1>1, <1>5, <1>6 DEF RemitSet

LEMMA QuietBooked ==
  ASSUME BookedOK, HandsStay, RemitsStay, rows' = rows
  PROVE  BookedOK'
PROOF
  <1>1. RowsStay("supplier_payment") /\ RowsStay("supplier_refund")
    BY DEF RowsStay
  <1> QED
    BY <1>1, RemitsBookedStay, RefundsStay DEF BookedOK

LEMMA RemitsSame ==
  ASSUME remitted' = remitted
  PROVE  RemitsStay
  BY DEF RemitsStay

LEMMA HandsSame ==
  ASSUME handOvers' = handOvers
  PROVE  HandsStay
  BY DEF HandsStay, InCash

LEMMA ResupplyStays ==
  ASSUME RemitsTyped, NEW r \in Notes, NEW p \in Parties, ResupplyStep(r, p)
  PROVE  RemitsStay
PROOF
  <1>1. remitted' = [n \in DOMAIN remitted |->
             IF n \in Standing(r) THEN [remitted[n] EXCEPT !.supplier = p] ELSE remitted[n]]
    BY DEF ResupplyStep
  <1>2. ASSUME NEW n \in DOMAIN remitted
        PROVE  /\ remitted'[n] = NoRemit <=> remitted[n] = NoRemit
               /\ remitted[n] # NoRemit => /\ remitted'[n].source = remitted[n].source
                                           /\ remitted'[n].row = remitted[n].row
                                           /\ remitted'[n].amount = remitted[n].amount
    <2>1. CASE n \in Standing(r)
      <3>1. remitted[n].note = r
        BY <2>1 DEF Standing
      <3>2. remitted[n] \in RemitSet /\ remitted[n] # NoRemit
        BY <3>1, OnIsFinite
      <3>3. [remitted[n] EXCEPT !.supplier = p] \in RemitSet
            /\ [remitted[n] EXCEPT !.supplier = p].note \in Notes
        BY <3>2 DEF RemitSet
      <3>4. remitted'[n] = [remitted[n] EXCEPT !.supplier = p]
        BY <1>1, <2>1
      <3>5. NoRemit.note \notin Notes
        BY SupplierAssumption DEF NoRemit
      <3> QED
        BY <3>2, <3>3, <3>4, <3>5 DEF RemitSet
    <2>2. CASE n \notin Standing(r)
      BY <1>1, <2>2
    <2> QED
      BY <2>1, <2>2
  <1>3. DOMAIN remitted' = DOMAIN remitted
    BY <1>1
  <1>4. InMoney(remitted') = InMoney(remitted)
    BY <1>2, <1>3 DEF InMoney
  <1>5. \A n \in InMoney(remitted) : n \in DOMAIN remitted /\ remitted[n] # NoRemit
    BY DEF InMoney
  <1> QED
    BY <1>2, <1>4, <1>5 DEF RemitsStay

LEMMA CashBooked ==
  ASSUME SupplyOK, BookedOK, HandOverForCash
  PROVE  BookedOK'
PROOF
  <1>1. StoreTyped /\ LedgerOK(rows, Payers)
    BY DEF SupplyOK, AccountTyped
  <1>2. PICK b \in Branches, p \in Suppliers, q \in Cuts, x \in Remits, a \in ShopAccounts :
          /\ HandOver("cash", 0, p, b, q, x, Len(rows) + 1)
          /\ Write(<<Leg("income", "supplier_refund", a, x, 0)>>)
          /\ UNCHANGED <<account, desk>>
    BY DEF HandOverForCash
  <1>3. q \in Nat /\ x \in Nat /\ x \in Int /\ 0 \in Payers /\ p \in Parties /\ a \in Accounts
    BY DeliveryAssumption, SupplierAssumption DEF Payers, Parties, ShopAccounts
  <1> DEFINE l == Leg("income", "supplier_refund", a, x, 0)
             k == Len(rows) + 1
             n == Len(handOvers) + 1
  <1>4. l \in Row(Payers) /\ Fresh(l) /\ l.pair = 0
    <2>1. "income" \in Kinds /\ "supplier_refund" \in Sources \ {"reversal"}
      BY DEF Kinds, Sources
    <2>2. a \in Accounts /\ x \in Int /\ 0 \in Payers
      BY <1>3
    <2> QED
      BY ONLY <2>1, <2>2 DEF l, Leg, Row, Fresh
  <1>5. Write(<<l>>) /\ l.source = "supplier_refund" /\ l.amount = x /\ l.cancelled = FALSE
    BY <1>2 DEF Leg
  <1> HIDE DEF l
  <1>6. /\ DOMAIN rows = 1..Len(rows) /\ Len(rows) \in Nat
        /\ DOMAIN rows' = 1..k /\ rows'[k] = l /\ \A m \in DOMAIN rows : rows'[m] = rows[m]
    <2>1. rows \in Seq(Row(Payers)) /\ rows' = rows \o <<l>>
      BY <1>1, <1>5 DEF LedgerOK, Write
    <2> QED
      BY <2>1, <1>4
  <1>7. k \in Nat /\ k \notin DOMAIN rows /\ k \in DOMAIN rows' /\ \A m \in DOMAIN rows' : m \in DOMAIN rows \/ m = k
    BY <1>6
  <1>8. HandOver("cash", 0, p, b, q, x, k)
    BY <1>2
  <1> HIDE DEF k
  <1>9. HandOverAdded("cash", 0, p, b, q, x, k)
    BY <1>1, <1>3, <1>7, <1>8, HandedOver
  <1>10. /\ n \notin DOMAIN handOvers /\ \A m \in DOMAIN handOvers' : m \in DOMAIN handOvers \/ m = n
         /\ \A m \in DOMAIN handOvers : handOvers'[m] = handOvers[m]
         /\ handOvers'[n].row = k /\ handOvers'[n].value = x /\ handOvers'[n].undone = FALSE
    BY <1>9 DEF HandOverAdded
  <1> HIDE DEF n
  <1>11. RowsStay("supplier_payment")
    BY <1>5, <1>6, <1>7 DEF RowsStay
  <1>12. RemitsStay
    BY <1>2 DEF RemitsStay, account
  <1>13. RemitsBooked(remitted', rows')
    BY <1>11, <1>12, RemitsBookedStay DEF BookedOK
  <1>14. \A m \in InCash(handOvers') : m \in InCash(handOvers) \/ m = n
    BY <1>10 DEF InCash
  <1>15. \A m \in InCash(handOvers) : m \in DOMAIN handOvers /\ handOvers[m].row \in DOMAIN rows
    BY DEF BookedOK, RefundsBooked, InCash
  <1>16. \A m \in InCash(handOvers') :
           /\ handOvers'[m].row \in DOMAIN rows' /\ rows'[handOvers'[m].row].source = "supplier_refund"
           /\ rows'[handOvers'[m].row].amount = handOvers'[m].value
           /\ rows'[handOvers'[m].row].cancelled = handOvers'[m].undone
    <2> TAKE m \in InCash(handOvers')
    <2>1. CASE m = n
      BY <2>1, <1>5, <1>6, <1>7, <1>10
    <2>2. CASE m \in InCash(handOvers)
      <3>1. handOvers'[m] = handOvers[m] /\ rows'[handOvers[m].row] = rows[handOvers[m].row]
            /\ handOvers[m].row \in DOMAIN rows'
        BY <2>2, <1>6, <1>10, <1>15, <1>7
      <3> QED
        BY <2>2, <3>1 DEF BookedOK, RefundsBooked
    <2> QED
      BY <1>14, <2>1, <2>2
  <1>17. \A i, j \in InCash(handOvers') : handOvers'[i].row = handOvers'[j].row => i = j
    <2>1. \A m \in InCash(handOvers) : handOvers'[m].row = handOvers[m].row /\ handOvers[m].row # k
      BY <1>7, <1>10, <1>15
    <2>2. \A i, j \in InCash(handOvers) : handOvers[i].row = handOvers[j].row => i = j
      BY DEF BookedOK, RefundsBooked
    <2> QED
      BY <1>10, <1>14, <2>1, <2>2
  <1> QED
    BY <1>13, <1>16, <1>17 DEF BookedOK, RefundsBooked

LEMMA UndoBooked ==
  ASSUME SupplyOK, BookedOK, UndoHandOver
  PROVE  BookedOK'
PROOF
  <1>1. NotesTyped /\ LedgerOK(rows, Payers) /\ handOvers \in Seq(HandOverSet)
    BY DEF SupplyOK, AccountTyped, StoreTyped
  <1>2. PICK n \in DOMAIN handOvers :
          /\ handOvers' = [handOvers EXCEPT ![n].undone = TRUE]
          /\ \/ handOvers[n].way # "cash" /\ UNCHANGED books
             \/ /\ handOvers[n].way = "cash"
                /\ CanReverse(handOvers[n].row, FALSE, FALSE) /\ WriteReversal(handOvers[n].row)
    BY DEF UndoHandOver
  <1>3. RemitsStay
    <2>1. remitted' = remitted
      BY <1>1, UndoPaid DEF PaidStays
    <2> QED
      BY <2>1, RemitsSame
  <1>4. /\ DOMAIN handOvers' = DOMAIN handOvers
        /\ \A m \in DOMAIN handOvers :
             /\ handOvers'[m].way = handOvers[m].way /\ handOvers'[m].row = handOvers[m].row
             /\ handOvers'[m].value = handOvers[m].value
             /\ handOvers'[m].undone = IF m = n THEN TRUE ELSE handOvers[m].undone
    <2>1. \A m \in DOMAIN handOvers : handOvers[m] \in HandOverSet
      BY <1>1
    <2> QED
      BY <1>2, <2>1 DEF HandOverSet
  <1>5. CASE handOvers[n].way # "cash" /\ UNCHANGED books
    <2>1. HandsStay /\ rows' = rows
      BY <1>4, <1>5 DEF HandsStay, InCash, books
    <2> QED
      BY <1>3, <2>1, QuietBooked
  <1>6. CASE /\ handOvers[n].way = "cash"
             /\ CanReverse(handOvers[n].row, FALSE, FALSE) /\ WriteReversal(handOvers[n].row)
    <2> DEFINE k == handOvers[n].row
    <2>1. n \in InCash(handOvers)
      BY <1>6 DEF InCash
    <2>2. k \in DOMAIN rows /\ rows[k].source = "supplier_refund" /\ rows[k].source # "external"
      BY <2>1 DEF BookedOK, RefundsBooked
    <2>3. CanReverse(k, FALSE, FALSE) /\ WriteReversal(k)
      BY <1>6
    <2>4. k = handOvers[n].row
      OBVIOUS
    <2> HIDE DEF k
    <2>5. RowReversed(k)
      BY <1>1, <2>2, <2>3, RowAnswered
    <2>6. RowsStay("supplier_payment")
      BY <2>2, <2>5 DEF RowReversed, RowsStay
    <2>7. RemitsBooked(remitted', rows')
      BY <1>3, <2>6, RemitsBookedStay DEF BookedOK
    <2>8. InCash(handOvers') = InCash(handOvers)
      BY <1>4 DEF InCash
    <2>9. \A m \in InCash(handOvers) : m \in DOMAIN handOvers /\ (handOvers[m].row = k => m = n)
      BY <2>1, <2>4 DEF BookedOK, RefundsBooked, InCash
    <2>10. \A m \in InCash(handOvers) :
             /\ handOvers'[m].row \in DOMAIN rows' /\ rows'[handOvers'[m].row].source = "supplier_refund"
             /\ rows'[handOvers'[m].row].amount = handOvers'[m].value
             /\ rows'[handOvers'[m].row].cancelled = handOvers'[m].undone
      <3> TAKE m \in InCash(handOvers)
      <3>1. /\ handOvers[m].row \in DOMAIN rows /\ rows[handOvers[m].row].source = "supplier_refund"
            /\ rows[handOvers[m].row].amount = handOvers[m].value
            /\ rows[handOvers[m].row].cancelled = handOvers[m].undone
        BY DEF BookedOK, RefundsBooked
      <3>2. handOvers'[m].row = handOvers[m].row /\ handOvers'[m].value = handOvers[m].value
            /\ handOvers'[m].undone = IF m = n THEN TRUE ELSE handOvers[m].undone
        BY <1>4, <2>9
      <3>3. CASE m = n
        BY <3>1, <3>2, <3>3, <2>4, <2>5, ZenonT(60) DEF RowReversed
      <3>4. CASE m # n
        <4>1. handOvers[m].row # k
          BY <2>9, <3>4
        <4> QED
          BY <3>1, <3>2, <3>4, <4>1, <2>5 DEF RowReversed
      <3> QED
        BY <3>3, <3>4
    <2>11. \A i, j \in InCash(handOvers) : handOvers'[i].row = handOvers'[j].row => i = j
      BY <1>4, <2>9 DEF BookedOK, RefundsBooked
    <2> QED
      BY <2>7, <2>8, <2>10, <2>11 DEF BookedOK, RefundsBooked
  <1> QED
    BY <1>2, <1>5, <1>6

\* Nothing was paid on a note that is deleted.
DeletesUnpaid == \A s \in Sessions : RemoveNote(s) => Standing(job[s].note) = {}

LEMMA OtherHands ==
  ASSUME StoreTyped, NEW way \in {"credit", "debt"}, NEW r, NEW p, NEW b, NEW q, NEW value, NEW row,
         HandOver(way, r, p, b, q, value, row)
  PROVE  HandsStay
PROOF
  <1> DEFINE h == [way |-> way, note |-> r, supplier |-> p, branch |-> b, units |-> q,
                   value |-> value, row |-> row, undone |-> FALSE]
  <1>1. handOvers' = Append(handOvers, h)
    BY DEF HandOver
  <1>2. h.way # "cash"
    OBVIOUS
  <1> HIDE DEF h
  <1>3. handOvers \in Seq(HandOverSet)
    BY DEF StoreTyped
  <1>4. /\ DOMAIN handOvers \subseteq DOMAIN handOvers'
        /\ \A n \in DOMAIN handOvers : handOvers'[n] = handOvers[n]
        /\ \A n \in DOMAIN handOvers' : n \in DOMAIN handOvers \/ handOvers'[n] = h
    BY <1>1, <1>3
  <1> QED
    BY <1>2, <1>4 DEF HandsStay, InCash

LEMMA DefectsBooked ==
  ASSUME SupplyOK, BookedOK, DefectsNext
  PROVE  BookedOK'
PROOF
  <1>1. StoreTyped
    BY DEF SupplyOK
  <1>2. CASE HandOverForCash
    BY <1>2, CashBooked
  <1>3. CASE UndoHandOver
    BY <1>3, UndoBooked
  <1>4. CASE HandOverForCredit
    <2>1. PICK b \in Branches, p \in Suppliers, q \in Cuts, x \in Remits :
            HandOver("credit", 0, p, b, q, x, 0) /\ UNCHANGED <<notes, remitted, books, desk>>
      BY <1>4 DEF HandOverForCredit
    <2>2. HandsStay
      BY <1>1, <2>1, OtherHands
    <2>3. rows' = rows /\ remitted' = remitted
      BY <2>1 DEF books
    <2> QED
      BY <2>2, <2>3, RemitsSame, QuietBooked
  <1>5. CASE \E s \in Sessions : HandOverOffDebt(s)
    <2>1. PICK s \in Sessions : HandOverOffDebt(s)
      BY <1>5
    <2>2. HandOver("debt", job[s].note, seen[s].supplier, job[s].branch, job[s].units, job[s].units, 0)
          /\ UNCHANGED <<remitted, books>>
      BY <2>1 DEF HandOverOffDebt
    <2>3. HandsStay
      BY <1>1, <2>2, OtherHands
    <2>4. rows' = rows /\ remitted' = remitted
      BY <2>2 DEF books
    <2> QED
      BY <2>3, <2>4, RemitsSame, QuietBooked
  <1>6. CASE \/ FromShelf \/ FromCustomer \/ OpeningStore \/ WriteOff \/ BackOnShelf
             \/ \E s \in Sessions : LookToHandOver(s)
    <2>1. rows' = rows /\ remitted' = remitted /\ handOvers' = handOvers
      BY <1>6 DEF FromShelf, FromCustomer, OpeningStore, WriteOff, BackOnShelf, LookToHandOver,
                  store, account, books
    <2> QED
      BY <2>1, HandsSame, RemitsSame, QuietBooked
  <1> QED
    BY <1>2, <1>3, <1>4, <1>5, <1>6 DEF DefectsNext

LEMMA DeliverBooked ==
  ASSUME SupplyOK, BookedOK, DeletesUnpaid, Deliver
  PROVE  BookedOK'
PROOF
  <1>1. AccountTyped /\ NotesTyped /\ RemitsTyped /\ DeskTyped /\ LedgerOK(rows, Payers)
    BY DEF SupplyOK, AccountTyped
  <1>2. HandsStay
    <2>1. handOvers' = handOvers
      BY DEF Deliver, store
    <2> QED
      BY <2>1, HandsSame
  <1>3. CASE PayDesk
    <2>1. (\E new : PaysStep(new)) \/ (\E n : CancelStep(n))
      BY <1>1, <1>3, DeskPays DEF PayDesk
    <2> QED
      BY <1>1, <1>2, <2>1, PaysBooked, CancelBooked
  <1>4. ASSUME NEW s \in Sessions, RemoveNote(s)
        PROVE  BookedOK'
    <2>1. Standing(job[s].note) = {}
      BY <1>4 DEF DeletesUnpaid
    <2>2. DropStep(job[s].note) /\ UNCHANGED books
      BY <1>1, <1>4, RemovePaid
    <2>3. remitted' = [n \in DOMAIN remitted |-> remitted[n]]
      BY <2>1, <2>2 DEF DropStep
    <2>4. RemitsStay
      BY <2>3 DEF RemitsStay, InMoney
    <2> QED
      BY <1>2, <2>2, <2>4, QuietBooked DEF books
  <1>5. ASSUME NEW s \in Sessions, Relabel(s)
        PROVE  BookedOK'
    <2>1. UNCHANGED books /\ (PaidStays \/ \E r \in Notes : \E p \in Parties : ResupplyStep(r, p))
      BY <1>1, <1>5, RelabelPaid
    <2>2. CASE PaidStays
      <3>1. RemitsStay
        BY <2>2, RemitsSame DEF PaidStays
      <3> QED
        BY <1>2, <2>1, <3>1, QuietBooked DEF books
    <2>3. CASE \E r \in Notes : \E p \in Parties : ResupplyStep(r, p)
      <3>1. RemitsStay
        BY <1>1, <2>3, ResupplyStays
      <3> QED
        BY <1>2, <2>1, <3>1, QuietBooked DEF books
    <2> QED
      BY <2>1, <2>2, <2>3
  <1>6. ASSUME NEW s \in Sessions,
               \/ LookToReceive(s) \/ ReceiveNote(s) \/ LookToEdit(s) \/ EditNote(s)
               \/ LookToReverse(s) \/ Unreceive(s) \/ LookToRelabel(s) \/ LookToSendBack(s)
               \/ SendBack(s) \/ DeliveryGivesUp(s)
        PROVE  BookedOK'
    <2>1. rows' = rows /\ remitted' = remitted
      BY <1>6, Zenon DEF LookToReceive, ReceiveNote, LookToEdit, EditNote, LookToReverse, Unreceive,
                  LookToRelabel, LookToSendBack, SendBack, DeliveryGivesUp, account, books
    <2> QED
      BY <1>2, <2>1, RemitsSame, QuietBooked, SMTT(60)
  <1>7. CASE CreateNote \/ Sale
    <2>1. rows' = rows /\ remitted' = remitted
      BY <1>7 DEF CreateNote, Sale, account, books
    <2> QED
      BY <1>2, <2>1, RemitsSame, QuietBooked
  <1> QED
    BY <1>3, <1>4, <1>5, <1>6, <1>7 DEF Deliver, DeliveryNext, GoodsNext

LEMMA BookedStart == ASSUME StoreInit PROVE BookedOK
PROOF
  <1>1. rows = <<>> /\ remitted = <<>> /\ handOvers = <<>>
    BY DEF StoreInit, DeliveryInit, AccountInit, BooksInit
  <1> QED
    BY <1>1 DEF BookedOK, RemitsBooked, RefundsBooked, InMoney, InCash, Expenses

LEMMA BookedSteps ==
  ASSUME SupplyOK, BookedOK, [StoreNext]_storeVars, [DeletesUnpaid]_storeVars
  PROVE  BookedOK'
PROOF
  <1>1. CASE UNCHANGED storeVars
    <2>1. rows' = rows /\ remitted' = remitted /\ handOvers' = handOvers
      BY <1>1 DEF storeVars, store, account, books
    <2> QED
      BY <2>1, HandsSame, RemitsSame, QuietBooked
  <1>2. CASE StoreNext /\ DeletesUnpaid
    BY <1>2, DefectsBooked, DeliverBooked DEF StoreNext
  <1> QED
    BY <1>1, <1>2

\* The ledger tells what suppliers were paid in money, and what they gave back
\* in cash, as long as no note is deleted with a payment on it.
THEOREM LedgerTrueThm == StoreSpec /\ [][DeletesUnpaid]_storeVars => []LedgerTrue
PROOF
  <1>1. BookedOK => LedgerTrue
    BY DEF BookedOK, RemitsBooked, RefundsBooked, InMoney, InCash, Expenses, LedgerTrue,
           PaymentsInLedger, RefundsInLedger
  <1>2. StoreInit => SupplyOK /\ BookedOK
    BY SupplyStart, BookedStart
  <1>3. SupplyOK /\ BookedOK /\ [StoreNext]_storeVars /\ [DeletesUnpaid]_storeVars
          => (SupplyOK /\ BookedOK)'
    BY SupplySteps, BookedSteps
  <1> QED
    BY <1>1, <1>2, <1>3, PTL DEF StoreSpec

------------------------------------------------------------------------------
\* A quantity shared out over numbered holders, each giving what it has, takes
\* all of it that they hold.
LEMMA TakenInAll ==
  ASSUME NEW n \in Nat, NEW S \in SUBSET (1..n), NEW f, \A k \in S : f[k] \in Nat, NEW q \in Nat,
         NEW t, \A k \in S : t[k] = Least(f[k], OrZero(q - SumFunctionOnSet(f, {j \in S : j < k})))
  PROVE  SumFunctionOnSet(t, S) = Least(q, SumFunctionOnSet(f, S))
PROOF
  <1> DEFINE To(m) == {j \in S : j <= m}
             W == {m \in Nat : SumFunctionOnSet(t, To(m)) = Least(q, SumFunctionOnSet(f, To(m)))}
  <1>0. \A k \in S : k \in Nat /\ k # 0 /\ k <= n
    <2>1. \A k \in S : k \in 1..n
      OBVIOUS
    <2> QED
      BY <2>1
  <1>1. IsFiniteSet(S)
    <2>1. 0 \in Int /\ 1 \in Int /\ n \in Int
      OBVIOUS
    <2>2. IsFiniteSet(1..n)
      BY <2>1, FS_Interval
    <2> QED
      BY <2>2, FS_Subset
  <1>2. \A m \in Nat : IsFiniteSet(To(m)) /\ To(m) \subseteq S
    BY <1>1, FS_Subset
  <1>3. 0 \in W
    <2>3. \A j \in S : ~(j <= 0)
      BY <1>0
    <2>1. To(0) = {}
      BY <2>3
    <2>2. SumFunctionOnSet(t, To(0)) = 0 /\ SumFunctionOnSet(f, To(0)) = 0
      BY <2>1, SumEmpty
    <2> QED
      BY <2>2 DEF Least
  <1>4. ASSUME NEW m \in Nat, m \in W
        PROVE  m + 1 \in W
    <2> DEFINE F == SumFunctionOnSet(f, To(m))
               T == SumFunctionOnSet(t, To(m))
    <2>1. F \in Nat /\ T = Least(q, F)
      BY <1>2, <1>4, SumNat
    <2>2. CASE m + 1 \notin S
      <3>2. \A j \in S : j # m + 1 => (j <= m + 1 <=> j <= m)
        BY <1>0
      <3>1. To(m + 1) = To(m)
        BY <2>2, <3>2
      <3> HIDE DEF To
      <3> QED
        BY <1>4, <3>1
    <2>3. CASE m + 1 \in S
      <3>1. To(m + 1) = To(m) \cup {m + 1} /\ m + 1 \notin To(m) /\ To(m) = {j \in S : j < m + 1}
        <4>1. \A j \in S : (j <= m + 1 <=> j <= m \/ j = m + 1) /\ (j <= m <=> j < m + 1)
          BY <1>0
        <4>2. ~(m + 1 <= m)
          OBVIOUS
        <4> QED
          BY <2>3, <4>1, <4>2
      <3>2. t[m + 1] = Least(f[m + 1], OrZero(q - F)) /\ f[m + 1] \in Nat
        BY <2>3, <3>1
      <3>3. \A k \in To(m + 1) : f[k] \in Int
        BY <1>2
      <3>4. \A k \in S : t[k] \in Int
        <4> TAKE k \in S
        <4> DEFINE below == {j \in S : j < k}
        <4>1. IsFiniteSet(below)
          BY <1>1, FS_Subset
        <4>2. SumFunctionOnSet(f, below) \in Nat
          BY <4>1, SumNat
        <4>3. t[k] = Least(f[k], OrZero(q - SumFunctionOnSet(f, below)))
          OBVIOUS
        <4> HIDE DEF below
        <4> QED
          BY <4>2, <4>3 DEF Least, OrZero
      <3>5. \A k \in To(m + 1) : t[k] \in Int
        BY <1>2, <3>4
      <3> DEFINE p == m + 1
      <3>10. To(p) = To(m) \cup {p} /\ p \notin To(m) /\ IsFiniteSet(To(m))
             /\ (\A k \in To(m) \cup {p} : f[k] \in Int /\ t[k] \in Int)
        BY <1>2, <3>1, <3>3, <3>5
      <3> HIDE DEF To, p
      <3>6. SumFunctionOnSet(f, To(p)) = F + f[p]
        BY <3>10, SumAdd
      <3>7. SumFunctionOnSet(t, To(p)) = T + t[p]
        BY <3>10, SumAdd
      <3>8. T + t[m + 1] = Least(q, F + f[m + 1])
        <4> HIDE DEF F, T
        <4> QED
          BY <2>1, <3>2 DEF Least, OrZero
      <3> QED
        BY <3>6, <3>7, <3>8 DEF p
    <2> QED
      BY <2>2, <2>3
  <1>5. To(n) = S
    BY <1>0
  <1> HIDE DEF To
  <1>6. \A m \in Nat : m \in W
    <2> HIDE DEF W
    <2> QED
      BY <1>3, <1>4, CountUp
  <1> QED
    BY <1>5, <1>6

Lefts(all) == [k \in DOMAIN all |-> all[k].left]

------------------------------------------------------------------------------
\* The loads of MCSupply.

\* Every step of a load is a step of the whole, and keeps to what the load says.
LEMMA LoadSteps ==
  ASSUME SupplyNext
  PROVE  /\ StoreNext /\ supplyLoad' = supplyLoad
         /\ supplyLoad = "goods alone" => GoodsNext /\ StoreShut /\ GoodsAlone
         /\ supplyLoad = "papers alone" => (GoodsNext \/ PayDesk) /\ StoreShut /\ PapersAlone
         /\ supplyLoad = "accounts" => (GoodsNext \/ PayDesk) /\ StoreShut /\ AccountsOnly
         /\ supplyLoad = "defects" =>
              (((GoodsNext \/ PayDesk) /\ StoreShut) \/ DefectsNext) /\ Defects
PROOF
  <1>1. StoreNext
    BY DEF SupplyNext, StoreNext, Deliver, DeliveryNext, StoreShut
  <1> QED
    BY <1>1 DEF SupplyNext

\* One request at a time.
OneBusy == \A s, t \in Sessions : phase[s] # "idle" /\ phase[t] # "idle" => s = t
AllIdle == \A s \in Sessions : phase[s] = "idle"

LEMMA AloneEnds ==
  ASSUME DeskTyped, OneBusy, NEW s \in Sessions, NEW here, here # "idle", Leave(s, here)
  PROVE  AllIdle' /\ OneBusy'
PROOF
  <1>1. \A t \in Sessions : phase'[t] = IF t = s THEN "idle" ELSE phase[t]
    BY DEF DeskTyped, Leave
  <1> QED
    BY <1>1 DEF OneBusy, AllIdle, Leave

LEMMA AloneStarts ==
  ASSUME DeskTyped, OneByOne, NEW s \in Sessions, NEW there, there # "idle", NEW asked, NEW read,
         Enter(s, there, asked, read)
  PROVE  /\ OneBusy' /\ phase'[s] = there /\ job'[s] = asked /\ seen'[s] = read
         /\ \A t \in Sessions \ {s} : phase'[t] = "idle"
PROOF
  <1>1. phase'[s] = there /\ job'[s] = asked /\ seen'[s] = read
    BY DEF DeskTyped, Enter
  <1> QED
    BY <1>1 DEF OneByOne, OneBusy

LEMMA AloneRests ==
  ASSUME OneByOne, UNCHANGED desk
  PROVE  AllIdle /\ AllIdle' /\ OneBusy'
  BY DEF OneByOne, AllIdle, OneBusy, desk

------------------------------------------------------------------------------
\* One request at a time, a note that is paid or sent back from stays received.

\* A note about to be taken back or deleted is a draft or untouched; one about
\* to be sent back from is received.
PaperRead(s) ==
  LET note == notes[job[s].note]
  IN  /\ phase[s] = "reverse" => note.status = "draft" \/ (~note.returns /\ note.paid = 0)
      /\ phase[s] = "send" => note.status = "received"

\* The invariant of the papers.
PapersOK == PaidOK /\ PaidNotesStay /\ OneBusy /\ \A s \in Sessions : PaperRead(s)

LEMMA FiguresOfNotes ==
  ASSUME NotesTyped
  PROVE  \A r \in Notes : /\ notes[r].paid \in Nat /\ notes[r].returns \in BOOLEAN
                          /\ notes[r].sentBack \in Nat /\ notes[r].total \in Nat
  BY DEF NotesTyped, NoteSet, NoteFields

\* Payments do not touch what was sent back, nor where a note is.
LEMMA PaymentsKeepReturns ==
  ASSUME NotesTyped, RemitsTyped, AccountNext
  PROVE  \A r \in Notes : notes'[r].returns = notes[r].returns /\ notes'[r].branch = notes[r].branch
PROOF
  <1> TAKE r \in Notes
  <1>1. CASE PayNote
    BY <1>1 DEF PayNote, NotesTyped, NoteSet, NoteFields
  <1>2. CASE PayFromCredit
    BY <1>2 DEF PayFromCredit, NotesTyped, NoteSet, NoteFields
  <1>3. ASSUME NEW open, NEW x, SharesPaid(open, x)
        PROVE  notes'[r].returns = notes[r].returns /\ notes'[r].branch = notes[r].branch
    BY <1>3 DEF SharesPaid, NotesTyped, NoteSet, NoteFields
  <1>4. CASE PaySupplier
    BY <1>3, <1>4 DEF PaySupplier
  <1>5. CASE TransferAdvance
    BY <1>3, <1>5 DEF TransferAdvance
  <1>6. CASE CancelPayment
    BY <1>6 DEF CancelPayment, NotesTyped, NoteSet, NoteFields
  <1> QED
    BY <1>1, <1>2, <1>4, <1>5, <1>6 DEF AccountNext

LEMMA PapersPaid ==
  ASSUME PapersOK, OneByOne, PayDesk
  PROVE  PaidNotesStay' /\ OneBusy' /\ \A s \in Sessions : PaperRead(s)'
PROOF
  <1>1. /\ AccountTyped /\ NotesTyped /\ RemitsTyped /\ PaidNotesStay
        /\ AccountNext /\ UNCHANGED desk
    BY DEF PapersOK, PaidOK, SupplyOK, AccountTyped, PayDesk
  <1>2. AllIdle' /\ OneBusy'
    BY <1>1, AloneRests
  <1>3. \A s \in Sessions : PaperRead(s)'
    BY <1>2 DEF AllIdle, PaperRead
  <1>4. \A r \in Notes : notes'[r].returns = notes[r].returns
    BY <1>1, PaymentsKeepReturns
  <1>5. \A r \in Notes : notes[r].paid \in Nat
    BY <1>1, FiguresOfNotes
  <1>6. ASSUME NEW new, PaysStep(new) PROVE PaidNotesStay'
    <2> SUFFICES ASSUME NEW r \in Notes, notes'[r].paid > 0 \/ notes'[r].returns
                 PROVE  notes'[r].status = "received"
      BY DEF PaidNotesStay
    <2>1. notes'[r].status = notes[r].status
      BY <1>6 DEF PaysStep, OnlyPaidMoves
    <2>2. CASE \E k \in DOMAIN new : new[k].note = r
      BY <1>6, <2>1, <2>2 DEF PaysStep
    <2>3. CASE \A k \in DOMAIN new : new[k].note # r
      <3>1. notes'[r].paid = notes[r].paid
        BY <1>6, <2>3 DEF PaysStep
      <3> QED
        BY <1>1, <1>4, <2>1, <3>1 DEF PaidNotesStay
    <2> QED
      BY <2>2, <2>3
  <1>7. ASSUME NEW n, CancelStep(n) PROVE PaidNotesStay'
    <2> SUFFICES ASSUME NEW r \in Notes, notes'[r].paid > 0 \/ notes'[r].returns
                 PROVE  notes'[r].status = "received"
      BY DEF PaidNotesStay
    <2> DEFINE q == remitted[n].amount
    <2>1. /\ notes'[r].status = notes[r].status /\ q \in Nat
          /\ notes'[r].paid = notes[r].paid \/ notes'[r].paid = OrZero(notes[r].paid - q)
      BY <1>7 DEF CancelStep, OnlyPaidMoves, RemitSet
    <2> HIDE DEF q
    <2>2. notes'[r].paid > 0 => notes[r].paid > 0
      BY <1>5, <2>1 DEF OrZero
    <2> QED
      BY <1>1, <1>4, <2>1, <2>2 DEF PaidNotesStay
  <1> QED
    BY <1>1, <1>2, <1>3, <1>6, <1>7, DeskPays

\* A look takes note of what the request will rest on.
LEMMA PapersLooked ==
  ASSUME PapersOK, OneByOne, NEW s \in Sessions, Looks(s), UNCHANGED <<notes, remitted>>
  PROVE  PaidNotesStay' /\ OneBusy' /\ \A t \in Sessions : PaperRead(t)'
PROOF
  <1>1. DeskTyped /\ NotesTyped /\ PaidSums /\ PaidNotesStay
    BY DEF PapersOK, PaidOK, SupplyOK, AccountTyped
  <1>2. PaidNotesStay'
    BY <1>1 DEF PaidNotesStay
  <1>3. PICK there, asked, read :
          /\ Enter(s, there, asked, read) /\ there # "idle"
          /\ there = "reverse" => asked.note \in Notes /\ Takeable(asked.note)
          /\ there = "send" => notes[asked.note].status = "received"
    <2>1. CASE LookToReceive(s)
      BY <2>1 DEF LookToReceive
    <2>2. CASE LookToEdit(s)
      BY <2>2 DEF LookToEdit
    <2>3. CASE LookToReverse(s)
      BY <2>3 DEF LookToReverse
    <2>4. CASE LookToRelabel(s)
      <3>1. \E asked, read : Enter(s, "relabel", asked, read)
        BY <2>4, Zenon DEF LookToRelabel
      <3> QED
        BY <3>1
    <2>5. CASE LookToSendBack(s)
      BY <2>5 DEF LookToSendBack
    <2> QED
      BY <2>1, <2>2, <2>3, <2>4, <2>5 DEF Looks
  <1>4. /\ OneBusy' /\ phase'[s] = there /\ job'[s] = asked
        /\ \A t \in Sessions \ {s} : phase'[t] = "idle"
    BY <1>1, <1>3, AloneStarts
  <1>5. ASSUME NEW r \in Notes, Takeable(r)
        PROVE  notes[r].status = "draft" \/ (~notes[r].returns /\ notes[r].paid = 0)
    <2>1. CASE Standing(r) = {}
      <3>1. On(remitted, r) = {}
        BY <2>1 DEF Standing, On
      <3>2. notes[r].paid = 0
        BY <1>1, <3>1, AmountsNone DEF PaidSums
      <3> QED
        BY <1>5, <3>2 DEF Takeable
    <2> QED
      BY <1>5, <2>1 DEF Takeable
  <1>6. PaperRead(s)'
    BY <1>3, <1>4, <1>5 DEF PaperRead
  <1>7. \A t \in Sessions \ {s} : PaperRead(t)'
    BY <1>4 DEF PaperRead
  <1> QED
    BY <1>2, <1>4, <1>6, <1>7

LEMMA PaidNoteSet ==
  ASSUME NotesTyped, PaidNotesStay, NEW r \in Notes, NEW n, notes' = [notes EXCEPT ![r] = n],
         n.paid > 0 \/ n.returns => n.status = "received"
  PROVE  PaidNotesStay'
PROOF
  <1>1. \A q \in Notes : notes'[q] = IF q = r THEN n ELSE notes[q]
    BY DEF NotesTyped
  <1>2. ASSUME NEW q \in Notes, notes'[q].paid > 0 \/ notes'[q].returns
        PROVE  notes'[q].status = "received"
    <2>1. CASE q = r
      BY <1>1, <1>2, <2>1
    <2>2. CASE q # r
      BY <1>1, <1>2, <2>2 DEF PaidNotesStay
    <2> QED
      BY <2>1, <2>2
  <1> QED
    BY <1>2 DEF PaidNotesStay

\* Every other step of a request ends it.
LEMMA PapersMoved ==
  ASSUME PapersOK, NEW s \in Sessions,
         \/ ReceiveNote(s) \/ EditNote(s) \/ Unreceive(s) \/ RemoveNote(s) \/ Relabel(s)
         \/ SendBack(s) \/ DeliveryGivesUp(s)
  PROVE  PaidNotesStay' /\ OneBusy' /\ \A t \in Sessions : PaperRead(t)'
PROOF
  <1>1. /\ DeskTyped /\ NotesTyped /\ PaidNotesStay /\ OneBusy /\ PaperRead(s)
        /\ notes \in [Notes -> NoteSet]
    BY SMTT(60) DEF PapersOK, PaidOK, SupplyOK, AccountTyped, NotesTyped
  <1>2. PICK here : here # "idle" /\ Leave(s, here)
    BY Zenon DEF ReceiveNote, EditNote, Unreceive, RemoveNote, Relabel, SendBack, DeliveryGivesUp, Abandon
  <1>3. AllIdle' /\ OneBusy'
    BY <1>1, <1>2, AloneEnds
  <1>4. \A t \in Sessions : PaperRead(t)'
    BY <1>3 DEF AllIdle, PaperRead
  <1> DEFINE r == job[s].note
  <1>5. ASSUME NEW n, r \in Notes, notes' = [notes EXCEPT ![r] = n],
               n.paid > 0 \/ n.returns => n.status = "received"
        PROVE  PaidNotesStay'
    BY <1>1, <1>5, PaidNoteSet
  <1>6. \A q \in Notes : notes[q].paid \in Nat /\ notes[q].returns \in BOOLEAN
    BY <1>1, FiguresOfNotes
  <1>7. CASE ReceiveNote(s)
    <2>1. r \in Notes /\ notes' = [notes EXCEPT ![r] = [notes[r] EXCEPT !.status = "received"]]
      BY <1>1, <1>7, HeldBy DEF ReceiveNote
    <2>2. [notes[r] EXCEPT !.status = "received"].status = "received"
      BY <1>1, <2>1 DEF NoteSet, NoteFields
    <2> QED
      BY <1>3, <1>4, <1>5, <2>1, <2>2
  <1>8. CASE EditNote(s)
    <2> DEFINE n == [notes[r] EXCEPT !.item = @ + 1, !.total = job[s].total, !.branch = job[s].branch]
    <2>1. r \in Notes /\ notes' = [notes EXCEPT ![r] = n]
      BY <1>1, <1>8, HeldBy DEF EditNote
    <2>2. n.status = notes[r].status /\ n.paid = notes[r].paid /\ n.returns = notes[r].returns
      BY <1>1, <2>1 DEF NoteSet, NoteFields
    <2> HIDE DEF n
    <2> QED
      BY <1>1, <1>3, <1>4, <1>5, <2>1, <2>2 DEF PaidNotesStay
  <1>9. CASE Unreceive(s)
    <2> DEFINE n == [notes[r] EXCEPT !.status = "draft"]
    <2>1. /\ r \in Notes /\ notes' = [notes EXCEPT ![r] = n]
          /\ notes[r].status = "received" /\ phase[s] = "reverse"
      BY <1>1, <1>9, HeldBy DEF Unreceive, Leave
    <2>2. n.paid = notes[r].paid /\ n.returns = notes[r].returns
      BY <1>1, <2>1 DEF NoteSet, NoteFields
    <2>3. ~notes[r].returns /\ notes[r].paid = 0
      BY <1>1, <2>1 DEF PaperRead
    <2> HIDE DEF n
    <2>4. ~(n.paid > 0 \/ n.returns)
      BY <2>2, <2>3
    <2> QED
      BY <1>3, <1>4, <1>5, <2>1, <2>4
  <1>10. CASE RemoveNote(s)
    <2> DEFINE n == [BlankNote EXCEPT !.item = notes[r].item]
    <2>1. r \in Notes /\ notes' = [notes EXCEPT ![r] = n]
      BY <1>1, <1>10, HeldBy DEF RemoveNote
    <2>2. n.paid = 0 /\ n.returns = FALSE
      BY DEF BlankNote
    <2> HIDE DEF n
    <2>3. ~(n.paid > 0 \/ n.returns)
      BY <2>2
    <2> QED
      BY <1>3, <1>4, <1>5, <2>1, <2>3
  <1>11. CASE Relabel(s)
    <2> DEFINE n == [notes[r] EXCEPT !.supplier = job[s].supplier, !.branch = job[s].branch]
    <2>1. r \in Notes /\ notes' = [notes EXCEPT ![r] = n]
      BY <1>1, <1>11, HeldBy DEF Relabel
    <2>2. n.status = notes[r].status /\ n.paid = notes[r].paid /\ n.returns = notes[r].returns
      BY <1>1, <2>1 DEF NoteSet, NoteFields
    <2> HIDE DEF n
    <2> QED
      BY <1>1, <1>3, <1>4, <1>5, <2>1, <2>2 DEF PaidNotesStay
  <1>12. CASE SendBack(s)
    <2> DEFINE n == [notes[r] EXCEPT !.sentBack = @ + job[s].units, !.returns = TRUE]
    <2>1. r \in Notes /\ notes' = [notes EXCEPT ![r] = n] /\ phase[s] = "send"
      BY <1>1, <1>12, HeldBy, Zenon DEF SendBack, Leave
    <2>2. n.status = notes[r].status
      BY <1>1, <2>1 DEF NoteSet, NoteFields
    <2>3. notes[r].status = "received"
      BY <1>1, <2>1 DEF PaperRead
    <2> HIDE DEF n
    <2> QED
      BY <1>3, <1>4, <1>5, <2>1, <2>2, <2>3, Zenon
  <1>13. CASE DeliveryGivesUp(s)
    <2>1. notes' = notes
      BY <1>13 DEF DeliveryGivesUp, account
    <2>2. PaidNotesStay'
      BY <1>1, <2>1 DEF PaidNotesStay
    <2> QED
      BY <1>3, <1>4, <2>2
  <1> QED
    BY <1>7, <1>8, <1>9, <1>10, <1>11, <1>12, <1>13

LEMMA PapersMove ==
  ASSUME PapersOK, Deliver, OneByOne
  PROVE  PapersOK'
PROOF
  <1>1. PaidOK /\ StoreNext /\ (GoodsNext \/ PayDesk)
    BY DEF PapersOK, StoreNext, Deliver, DeliveryNext
  <1>2. PaidOK'
    BY <1>1, PaidSteps
  <1>3. AccountTyped /\ DeskTyped /\ NotesTyped /\ PaidNotesStay /\ AbsentUnpaid
    BY DEF PapersOK, PaidOK, SupplyOK, AccountTyped
  <1>4. ASSUME UNCHANGED desk, PaidNotesStay'
        PROVE  PaidNotesStay' /\ OneBusy' /\ \A t \in Sessions : PaperRead(t)'
    <2>1. AllIdle' /\ OneBusy'
      BY <1>1, <1>4, AloneRests
    <2>2. \A s \in Sessions : PaperRead(s)'
      BY <2>1 DEF AllIdle, PaperRead
    <2> QED
      BY <1>4, <2>1, <2>2
  <1>5. CASE PayDesk
    BY <1>1, <1>2, <1>5, PapersPaid DEF PapersOK
  <1>6. CASE Sale
    <2>1. notes' = notes /\ UNCHANGED desk
      BY <1>6 DEF Sale, account
    <2>2. PaidNotesStay'
      BY <1>3, <2>1 DEF PaidNotesStay
    <2> QED
      BY <1>2, <1>4, <2>1, <2>2 DEF PapersOK
  <1>7. CASE CreateNote
    <2>1. PICK r \in Notes, b \in Branches, p \in Suppliers \union {"none"}, q \in Lines,
               draft \in BOOLEAN :
            /\ ~There(r) /\ notes[r].item = 0
            /\ notes' = [notes EXCEPT ![r] =
                   [BlankNote EXCEPT !.status = IF draft THEN "draft" ELSE "received",
                                     !.supplier = p, !.branch = b, !.total = q, !.item = 1]]
            /\ UNCHANGED <<remitted, credit, advanced, books, desk>>
      BY <1>7, ZenonT(60) DEF CreateNote
    <2> DEFINE n == [BlankNote EXCEPT !.status = IF draft THEN "draft" ELSE "received",
                                      !.supplier = p, !.branch = b, !.total = q, !.item = 1]
    <2>2. ~(n.paid > 0)
      <3>1. n.paid = 0
        BY DEF BlankNote
      <3> QED
        BY ONLY <3>1
    <2>3. n.returns = FALSE
      BY DEF BlankNote
    <2>4. notes' = [notes EXCEPT ![r] = n]
      BY <2>1
    <2> HIDE DEF n
    <2>5. ~(n.paid > 0 \/ n.returns)
      BY <2>2, <2>3, Zenon
    <2>6. PaidNotesStay'
      BY <1>3, <2>4, <2>5, PaidNoteSet
    <2> QED
      BY <1>2, <1>4, <2>1, <2>6 DEF PapersOK
  <1>8. ASSUME NEW s \in Sessions, Looks(s) PROVE PapersOK'
    <2>1. UNCHANGED <<notes, remitted>>
      BY <1>8 DEF Looks, LookToReceive, LookToEdit, LookToReverse, LookToRelabel, LookToSendBack, account
    <2> QED
      BY <1>1, <1>2, <1>8, <2>1, PapersLooked DEF PapersOK
  <1>9. ASSUME NEW s \in Sessions,
               \/ ReceiveNote(s) \/ EditNote(s) \/ Unreceive(s) \/ RemoveNote(s) \/ Relabel(s)
               \/ SendBack(s) \/ DeliveryGivesUp(s)
        PROVE  PapersOK'
    BY <1>2, <1>9, PapersMoved DEF PapersOK
  <1> QED
    BY <1>1, <1>5, <1>6, <1>7, <1>8, <1>9 DEF GoodsNext, Looks

LEMMA PapersSteps ==
  ASSUME PapersOK, SupplyNext, supplyLoad = "papers alone"
  PROVE  PapersOK'
  BY LoadSteps, PapersMove DEF PapersAlone, Deliver, DeliveryNext, StoreShut

LEMMA PapersStart == ASSUME StoreInit PROVE PapersOK
PROOF
  <1>1. PaidOK
    BY PaidStart
  <1>2. /\ \A s \in Sessions : phase[s] = "idle"
        /\ notes = [r \in Notes |-> BlankNote] /\ BlankNote.paid = 0 /\ BlankNote.returns = FALSE
    BY DEF StoreInit, DeliveryInit, AccountInit, DeskInit, BlankNote
  <1> QED
    BY <1>1, <1>2 DEF PapersOK, PaidNotesStay, OneBusy, PaperRead

------------------------------------------------------------------------------
\* The suppliers' credit, while notes keep their supplier and are not deleted.

\* What a payment took from its supplier's credit, and what all of them did.
SpentIn(payment) == IF payment # NoRemit /\ payment.source = "credit" THEN payment.amount ELSE 0
SpentBy(all) == [n \in DOMAIN all |-> SpentIn(all[n])]
Spent(all) == SumFunctionOnSet(SpentBy(all), 1..Len(all))

CreditAddsUp ==
  /\ \A p \in Suppliers : credit[p] >= 0
  /\ SumFunctionOnSet(credit, Suppliers) + Spent(remitted) = advanced

\* Credit comes and goes with the name of a supplier.
Named ==
  /\ \A n \in DOMAIN remitted :
       remitted[n] # NoRemit /\ remitted[n].source = "credit" => remitted[n].supplier \in Suppliers
  /\ \A n \in DOMAIN handOvers : handOvers[n].way = "credit" => handOvers[n].supplier \in Suppliers

\* No note changes its supplier, and none is deleted.
NoPapers == \A s \in Sessions : phase[s] # "relabel" /\ job[s].kind # "remove"

CreditsOK == SupplyOK /\ CreditAddsUp /\ Named /\ NoPapers

LEMMA SpentInIs ==
  ASSUME NEW payment \in RemitSet \cup {NoRemit}
  PROVE  SpentIn(payment) \in Nat
  BY DEF SpentIn, RemitSet

LEMMA SpentByIs ==
  ASSUME NEW all \in Seq(RemitSet \cup {NoRemit})
  PROVE  /\ DOMAIN all = 1..Len(all) /\ Len(all) \in Nat /\ IsFiniteSet(1..Len(all))
         /\ \A n \in 1..Len(all) : SpentBy(all)[n] = SpentIn(all[n]) /\ SpentIn(all[n]) \in Nat
         /\ Spent(all) \in Nat
PROOF
  <1>1. DOMAIN all = 1..Len(all) /\ Len(all) \in Nat
    OBVIOUS
  <1>2. IsFiniteSet(1..Len(all))
    BY <1>1, FS_Interval
  <1>3. \A n \in 1..Len(all) : SpentBy(all)[n] = SpentIn(all[n])
    BY <1>1 DEF SpentBy
  <1>4. \A n \in 1..Len(all) : SpentIn(all[n]) \in Nat
    BY <1>1, SpentInIs
  <1>5. \A n \in 1..Len(all) : SpentBy(all)[n] \in Nat
    BY <1>3, <1>4
  <1>6. Spent(all) \in Nat
    BY <1>2, <1>5, SumNat DEF Spent
  <1> QED
    BY <1>1, <1>2, <1>3, <1>4, <1>6

LEMMA SpentAdded ==
  ASSUME RemitsTyped, NEW new \in Seq(RemitSet), remitted' = remitted \o new
  PROVE  Spent(remitted') = Spent(remitted) + Spent(new)
PROOF
  <1> DEFINE n == Len(remitted)
             m == Len(new)
  <1>1. /\ remitted' \in Seq(RemitSet \cup {NoRemit}) /\ remitted \in Seq(RemitSet \cup {NoRemit})
        /\ n \in Nat /\ m \in Nat
        /\ DOMAIN remitted = 1..n /\ DOMAIN remitted' = 1..(n + m)
        /\ \A k \in 1..n : remitted'[k] = remitted[k]
        /\ \A k \in 1..m : remitted'[n + k] = new[k]
    BY RemitsAdded DEF RemitsTyped
  <1>2. new \in Seq(RemitSet \cup {NoRemit})
    OBVIOUS
  <1>3. Len(remitted') = n + m
    BY <1>1
  <1> HIDE DEF n, m
  <1>4. /\ \A k \in 1..n : SpentBy(remitted)[k] = SpentIn(remitted[k]) /\ SpentIn(remitted[k]) \in Nat
        /\ \A k \in 1..m : SpentBy(new)[k] = SpentIn(new[k]) /\ SpentIn(new[k]) \in Nat
        /\ \A k \in 1..(n + m) : SpentBy(remitted')[k] = SpentIn(remitted'[k])
    BY <1>1, <1>2, <1>3, SpentByIs DEF n, m
  <1>5. \A k \in 1..n : k \in 1..(n + m) /\ 0 + k = k
    BY <1>1
  <1>6. \A k \in 1..m : n + k \in 1..(n + m)
    BY <1>1
  <1>7. Shifted(SpentBy(remitted), SpentBy(remitted'), 0, n)
    BY <1>1, <1>4, <1>5 DEF Shifted
  <1>8. Shifted(SpentBy(new), SpentBy(remitted'), n, m)
    <2>1. \A k \in 1..m : SpentBy(remitted')[n + k] = SpentIn(remitted'[n + k])
      BY <1>4, <1>6
    <2>2. \A k \in 1..m : SpentBy(new)[k] \in Int /\ SpentBy(remitted')[n + k] = SpentBy(new)[k]
      <3> TAKE k \in 1..m
      <3>1. SpentBy(new)[k] = SpentIn(new[k]) /\ SpentIn(new[k]) \in Nat
        BY <1>4
      <3>2. remitted'[n + k] = new[k]
        BY <1>1
      <3>3. SpentBy(remitted')[n + k] = SpentIn(new[k])
        BY <2>1, <3>2
      <3> QED
        BY ONLY <3>1, <3>3
    <2> QED
      BY <2>2 DEF Shifted
  <1>9. SumFunctionOnSet(SpentBy(remitted'), 1..(n + m))
          = SumFunctionOnSet(SpentBy(remitted), 1..n) + SumFunctionOnSet(SpentBy(new), 1..m)
    BY <1>1, <1>7, <1>8, SumConcat
  <1> QED
    BY <1>3, <1>9 DEF Spent, n, m

LEMMA SpentInMoney ==
  ASSUME NEW new \in Seq(RemitSet), \A k \in DOMAIN new : new[k].source = "money"
  PROVE  Spent(new) = 0
PROOF
  <1>1. new \in Seq(RemitSet \cup {NoRemit})
    OBVIOUS
  <1>2. \A k \in 1..Len(new) : SpentBy(new)[k] = 0
    BY <1>1, SpentByIs DEF SpentIn
  <1> QED
    BY <1>1, <1>2, SpentByIs, SumZero DEF Spent

LEMMA SpentDropped ==
  ASSUME RemitsTyped, NEW n \in DOMAIN remitted, remitted' = [remitted EXCEPT ![n] = NoRemit]
  PROVE  Spent(remitted') = Spent(remitted) - SpentIn(remitted[n])
PROOF
  <1>1. remitted \in Seq(RemitSet \cup {NoRemit})
    BY DEF RemitsTyped
  <1>2. /\ remitted' \in Seq(RemitSet \cup {NoRemit}) /\ Len(remitted') = Len(remitted)
        /\ remitted'[n] = NoRemit /\ \A k \in DOMAIN remitted \ {n} : remitted'[k] = remitted[k]
    BY <1>1
  <1> DEFINE S == 1..Len(remitted)
             f == SpentBy(remitted)
             g == SpentBy(remitted')
  <1>3. /\ IsFiniteSet(S) /\ n \in S /\ DOMAIN remitted = S
        /\ \A k \in S : f[k] = SpentIn(remitted[k]) /\ f[k] \in Int
        /\ \A k \in S : g[k] = SpentIn(remitted'[k]) /\ g[k] \in Int
    <2>1. /\ DOMAIN remitted = S /\ IsFiniteSet(S)
          /\ \A k \in S : f[k] = SpentIn(remitted[k]) /\ SpentIn(remitted[k]) \in Nat
      BY <1>1, SpentByIs
    <2>2. \A k \in S : g[k] = SpentIn(remitted'[k]) /\ SpentIn(remitted'[k]) \in Nat
      BY <1>2, SpentByIs
    <2> HIDE DEF S, f, g
    <2> QED
      BY <2>1, <2>2
  <1>4. SpentIn(NoRemit) = 0
    BY DEF SpentIn
  <1>5. g[n] = 0 /\ \A k \in S \ {n} : f[k] = g[k]
    BY <1>2, <1>3, <1>4
  <1>7. Spent(remitted) = SumFunctionOnSet(f, S) /\ Spent(remitted') = SumFunctionOnSet(g, S)
    BY <1>2 DEF Spent
  <1>8. SumFunctionOnSet(f, S) \in Int /\ f[n] = SpentIn(remitted[n])
    BY <1>3, SumInt
  <1> HIDE DEF S, f, g
  <1>6. SumFunctionOnSet(g, S) = SumFunctionOnSet(f, S) - f[n] + g[n]
    BY <1>3, <1>5, SumChange
  <1> QED
    BY <1>3, <1>5, <1>6, <1>7, <1>8

LEMMA CreditSum ==
  ASSUME NEW f, NEW g, NEW p \in Suppliers, \A q \in Suppliers : f[q] \in Int /\ g[q] \in Int,
         \A q \in Suppliers \ {p} : f[q] = g[q]
  PROVE  /\ SumFunctionOnSet(g, Suppliers) = SumFunctionOnSet(f, Suppliers) - f[p] + g[p]
         /\ SumFunctionOnSet(f, Suppliers) \in Int /\ SumFunctionOnSet(g, Suppliers) \in Int
PROOF
  <1>1. IsFiniteSet(Suppliers)
    BY SupplierAssumption
  <1> QED
    BY <1>1, SumChange, SumInt

\* The credit of one supplier moves.
LEMMA CreditOfOneMoves ==
  ASSUME CreditTyped, NEW p \in Suppliers, NEW v \in Int, credit' = [credit EXCEPT ![p] = v]
  PROVE  /\ SumFunctionOnSet(credit', Suppliers) = SumFunctionOnSet(credit, Suppliers) - credit[p] + v
         /\ SumFunctionOnSet(credit, Suppliers) \in Int
PROOF
  <1>1. /\ \A q \in Suppliers : credit[q] \in Int /\ credit'[q] \in Int
        /\ credit'[p] = v /\ \A q \in Suppliers \ {p} : credit[q] = credit'[q]
    BY DEF CreditTyped
  <1>2. /\ SumFunctionOnSet(credit', Suppliers)
              = SumFunctionOnSet(credit, Suppliers) - credit[p] + credit'[p]
        /\ SumFunctionOnSet(credit, Suppliers) \in Int
    BY ONLY <1>1, p \in Suppliers, CreditSum
  <1> QED
    BY <1>1, <1>2

\* The shares of a sum come to the sum, as far as the notes owe it.
LEMMA SharesComeTo ==
  ASSUME NotesTyped, NEW open \in SUBSET Notes, NEW x \in Nat, NEW order \in PaidOnes(open, x),
         NEW part, \A k \in 1..Len(order) : part[k] = Share(order[k], open, x)
  PROVE  SumFunctionOnSet(part, 1..Len(order)) + OrZero(x - OwedOn(open)) = x
PROOF
  <1> DEFINE owed == [r \in open |-> Owed(r)]
             t == [r \in open |-> Share(r, open, x)]
             S == {r \in open : Share(r, open, x) > 0}
             L == Len(order)
  <1>1. IsFiniteSet(open) /\ IsFiniteSet(S) /\ S \in SUBSET open /\ open \subseteq Nat \ {0}
    BY SupplierAssumption, FS_Subset
  <1>2. /\ \A r \in open : owed[r] = Owed(r) /\ owed[r] \in Nat
        /\ \A r \in open : t[r] = Share(r, open, x) /\ t[r] \in Nat
    BY OwedIsNumber
  <1>3. \A set \in SUBSET open : OwedOn(set) = SumFunctionOnSet(owed, set)
    <2> TAKE set \in SUBSET open
    <2> DEFINE g == [r \in set |-> Owed(r)]
    <2>1. DOMAIN g = set /\ \A r \in set : g[r] = owed[r]
      BY <1>2
    <2>2. IsFiniteSet(set)
      BY <1>1, FS_Subset
    <2> HIDE DEF g, owed
    <2>3. SumFunctionOnSet(g, set) = SumFunctionOnSet(owed, set)
      BY <2>1, <2>2, SumEqual
    <2> QED
      BY <2>1, <2>3 DEF OwedOn, SumFunction, g
  <1>4. \A r \in open : t[r] = Least(owed[r], OrZero(x - SumFunctionOnSet(owed, {q \in open : q < r})))
    <2> TAKE r \in open
    <2>1. {q \in open : q < r} \in SUBSET open
      OBVIOUS
    <2> HIDE DEF owed, t
    <2>2. OwedOn({q \in open : q < r}) = SumFunctionOnSet(owed, {q \in open : q < r})
      BY <1>3, <2>1
    <2> QED
      BY <1>2, <2>2 DEF Share
  <1>5. OwedOn(open) = SumFunctionOnSet(owed, open) /\ OwedOn(open) \in Nat
    BY <1>3, OwedIsNumber
  <1>6. order \in Ascending(S) /\ S \subseteq Int
    <2>1. order \in Ascending(S)
      BY DEF PaidOnes
    <2> HIDE DEF S
    <2> QED
      BY <1>1, <2>1
  <1>7. /\ order \in Seq(S) /\ L \in Nat /\ DOMAIN order = 1..L
        /\ \A q \in S : \E k \in 1..L : order[k] = q
        /\ \A j, k \in 1..L : order[j] = order[k] => j = k
    <2> HIDE DEF S
    <2>1. order \in Seq(S) /\ L \in Nat /\ DOMAIN order = 1..L
      BY ONLY <1>1, <1>6, InOrderOf
    <2>2. /\ \A q \in S : \E k \in 1..L : order[k] = q
          /\ \A j, k \in 1..L : order[j] = order[k] => j = k
      BY ONLY <1>1, <1>6, AllInOrder
    <2> QED
      BY <2>1, <2>2
  <1>8. SumFunctionOnSet(t, open) = SumFunctionOnSet(t, S)
    <2>1. \A r \in S : t[r] \in Int /\ t[r] = t[r]
      BY <1>2
    <2>2. \A r \in open \ S : t[r] = 0
      BY <1>2
    <2> HIDE DEF t, S
    <2> QED
      BY <1>1, <2>1, <2>2, SumSupport, ZenonT(60)
  <1>9. \A r \in S : r \in open
    OBVIOUS
  <1> HIDE DEF owed, t, S, L
  <1>10. SumFunctionOnSet(t, open) = Least(x, SumFunctionOnSet(owed, open))
    <2>1. CASE open = {}
      BY <2>1, SumEmpty DEF Least
    <2>2. CASE open # {}
      <3> DEFINE id == [r \in open |-> r]
      <3>1. \A r \in open : id[r] = r /\ id[r] \in Int
        BY <1>1
      <3> HIDE DEF id
      <3>2. PICK n \in open : \A r \in open : id[r] <= id[n]
        BY <1>1, <2>2, <3>1, Greatest
      <3>3. n \in Nat /\ \A r \in open : r \in 1..n
        BY <1>1, <3>1, <3>2
      <3>4. open \in SUBSET (1..n)
        BY <3>3
      <3> QED
        BY <1>2, <1>4, <3>3, <3>4, TakenInAll
    <2> QED
      BY <2>1, <2>2
  <1>11. SumFunctionOnSet(part, 1..L) = SumFunctionOnSet(t, S)
    <2> DEFINE To(m) == {order[k] : k \in 1..m}
               W == {m \in Nat : m <= L => SumFunctionOnSet(part, 1..m) = SumFunctionOnSet(t, To(m))}
    <2>1. \A k \in 1..L : order[k] \in S /\ order[k] \in open
      BY <1>7, <1>9
    <2>2. \A k \in 1..L : part[k] = t[order[k]] /\ part[k] \in Int
      BY <1>2, <2>1 DEF L
    <2>3. 0 \in W
      <3>1. 1..0 = {} /\ To(0) = {}
        OBVIOUS
      <3> HIDE DEF To
      <3> QED
        BY <3>1, SumEmpty
    <2>4. ASSUME NEW m \in Nat, m \in W PROVE m + 1 \in W
      <3> SUFFICES ASSUME m + 1 <= L
                   PROVE  SumFunctionOnSet(part, 1..(m + 1)) = SumFunctionOnSet(t, To(m + 1))
        OBVIOUS
      <3> DEFINE p == m + 1
                 a == order[p]
      <3>1. /\ 1..p = 1..m \cup {p} /\ p \notin 1..m /\ 1..p \subseteq 1..L /\ p \in 1..L
            /\ 1..m \subseteq 1..L
        BY <1>7
      <3>2. To(p) = To(m) \cup {a}
        BY <3>1
      <3>3. a \notin To(m)
        BY <1>7, <3>1
      <3>4. To(m) \subseteq S /\ a \in S
        BY <2>1, <3>1
      <3>5. IsFiniteSet(To(m)) /\ IsFiniteSet(1..m)
        BY <1>1, <3>4, FS_Subset, FS_Interval
      <3>6. \A r \in To(m) \cup {a} : t[r] \in Int
        BY <1>2, <1>9, <3>4
      <3>7. \A k \in 1..m \cup {p} : part[k] \in Int
        BY <2>2, <3>1
      <3>8. SumFunctionOnSet(part, 1..m) = SumFunctionOnSet(t, To(m)) /\ part[p] = t[a]
        <4>1. part[p] = t[a] /\ m <= L
          BY <2>2, <3>1, <1>7
        <4> HIDE DEF To, p, a
        <4> QED
          BY <2>4, <4>1
      <3> HIDE DEF To, p, a
      <3>9. SumFunctionOnSet(part, 1..m \cup {p}) = SumFunctionOnSet(part, 1..m) + part[p]
        BY <3>1, <3>5, <3>7, SumAdd
      <3>10. SumFunctionOnSet(t, To(m) \cup {a}) = SumFunctionOnSet(t, To(m)) + t[a]
        BY <3>3, <3>5, <3>6, SumAdd
      <3> QED
        BY <3>1, <3>2, <3>8, <3>9, <3>10 DEF p
    <2>5. To(L) = S
      BY <1>7, <2>1
    <2> HIDE DEF To
    <2>6. L \in W
      <3> HIDE DEF W
      <3> QED
        BY <1>7, <2>3, <2>4, CountUp
    <2> QED
      BY <1>7, <2>5, <2>6
  <1>12. SumFunctionOnSet(part, 1..L) = Least(x, OwedOn(open))
    BY <1>5, <1>8, <1>10, <1>11
  <1> QED
    BY <1>5, <1>12 DEF Least, OrZero, L

------------------------------------------------------------------------------
\* How a step treats the credit.

CreditStays == UNCHANGED <<remitted, credit, advanced>>

\* Payments are made, from their suppliers' credit or in money.
CreditPays(new) ==
  /\ new \in Seq(RemitSet) /\ remitted' = remitted \o new
  /\ \A k \in DOMAIN new : new[k].source = "credit" => new[k].supplier \in Suppliers

LEMMA CreditKept ==
  ASSUME CreditAddsUp, CreditStays
  PROVE  CreditAddsUp'
  BY DEF CreditAddsUp, CreditStays

LEMMA NamedPays ==
  ASSUME RemitsTyped, Named, NEW new, CreditPays(new), handOvers' = handOvers
  PROVE  Named'
PROOF
  <1>1. /\ new \in Seq(RemitSet) /\ remitted' = remitted \o new
        /\ \A k \in DOMAIN new : new[k].source = "credit" => new[k].supplier \in Suppliers
    BY DEF CreditPays
  <1>2. /\ DOMAIN new = 1..Len(new)
        /\ \A n \in DOMAIN remitted : n \in DOMAIN remitted' /\ remitted'[n] = remitted[n]
        /\ \A k \in 1..Len(new) : remitted'[Len(remitted) + k] = new[k]
        /\ \A n \in DOMAIN remitted' : n \in DOMAIN remitted
                                       \/ \E k \in 1..Len(new) : n = Len(remitted) + k
    BY <1>1, RemitsAdded
  <1>3. \A n \in DOMAIN remitted' : remitted'[n] # NoRemit /\ remitted'[n].source = "credit"
                                        => remitted'[n].supplier \in Suppliers
    BY <1>1, <1>2 DEF Named
  <1> QED
    BY <1>3 DEF Named

LEMMA NoteSupplier ==
  ASSUME NotesTyped, NEW r \in Notes
  PROVE  notes[r].supplier \in Parties
  BY DEF NotesTyped, NoteSet, NoteFields

LEMMA PayNoteCredit ==
  ASSUME SupplyOK, CreditAddsUp, PayNote
  PROVE  CreditAddsUp' /\ \E new : CreditPays(new)
PROOF
  <1>1. NotesTyped /\ RemitsTyped /\ LedgerOK(rows, Payers)
    BY DEF SupplyOK, AccountTyped
  <1>2. PICK r \in Notes, x \in Remits, a \in Accounts :
          /\ remitted' = Append(remitted, Remit(r, x, "money", ExpenseRow(a)))
          /\ UNCHANGED <<credit, advanced>>
    BY DEF PayNote
  <1> DEFINE p == Remit(r, x, "money", ExpenseRow(a))
             new == <<p>>
  <1>3. x \in Nat \ {0} /\ ExpenseRow(a) \in Nat
    BY <1>1, SupplierAssumption DEF LedgerOK, ExpenseRow, Width
  <1>4. p \in RemitSet
    BY <1>1, <1>3, RemitTyped
  <1>5. p.source = "money"
    BY DEF Remit
  <1>6. remitted' = Append(remitted, p)
    BY <1>2
  <1> HIDE DEF p
  <1>7. /\ new \in Seq(RemitSet) /\ DOMAIN new = {1} /\ new[1] = p
        /\ remitted' = remitted \o new
    BY <1>4, <1>6
  <1> HIDE DEF new
  <1>8. \A k \in DOMAIN new : new[k].source = "money"
    BY <1>5, <1>7
  <1>9. Spent(new) = 0 /\ Spent(remitted') = Spent(remitted) + Spent(new)
    BY <1>1, <1>7, <1>8, SpentInMoney, SpentAdded
  <1>10. Spent(remitted) \in Nat
    BY <1>1, SpentByIs DEF RemitsTyped
  <1>11. Spent(remitted') = Spent(remitted)
    BY <1>9, <1>10
  <1>12. CreditAddsUp'
    BY <1>2, <1>11 DEF CreditAddsUp
  <1>13. CreditPays(new)
    BY <1>7, <1>8 DEF CreditPays
  <1> QED
    BY <1>12, <1>13

LEMMA FromCreditCredit ==
  ASSUME SupplyOK, CreditAddsUp, PayFromCredit
  PROVE  CreditAddsUp' /\ \E new : CreditPays(new)
PROOF
  <1>1. NotesTyped /\ RemitsTyped /\ CreditTyped
    BY DEF SupplyOK, AccountTyped
  <1>2. PICK r \in Notes, x \in Remits :
          /\ notes[r].supplier # "none" /\ x <= credit[notes[r].supplier]
          /\ remitted' = Append(remitted, Remit(r, x, "credit", 0))
          /\ credit' = [credit EXCEPT ![notes[r].supplier] = @ - x]
          /\ UNCHANGED <<advanced, books>>
    BY DEF PayFromCredit
  <1> DEFINE p == Remit(r, x, "credit", 0)
             new == <<p>>
             q == notes[r].supplier
  <1>3. x \in Nat \ {0} /\ q \in Suppliers
    BY <1>1, <1>2, SupplierAssumption, NoteSupplier DEF Parties
  <1>4. p \in RemitSet
    BY <1>1, <1>3, RemitTyped
  <1>5. p.source = "credit" /\ p.supplier = q /\ p.amount = x
    BY DEF Remit
  <1>6. remitted' = Append(remitted, p)
    BY <1>2
  <1>20. p # NoRemit
    BY <1>1, <1>3, RemitTyped
  <1> HIDE DEF p
  <1>7. /\ new \in Seq(RemitSet) /\ DOMAIN new = {1} /\ new[1] = p /\ Len(new) = 1
        /\ remitted' = remitted \o new
    BY <1>4, <1>6
  <1> HIDE DEF new
  <1>8. Spent(remitted') = Spent(remitted) + Spent(new)
    BY <1>1, <1>7, SpentAdded
  <1>9. Spent(new) = x
    <2>1. SpentBy(new)[1] = x
      BY <1>5, <1>7, <1>20 DEF SpentBy, SpentIn
    <2>2. 1..1 = {} \cup {1} /\ 1 \notin {} /\ IsFiniteSet({})
      BY FS_EmptySet
    <2>3. \A k \in {} \cup {1} : SpentBy(new)[k] \in Int
      BY <1>3, <2>1
    <2>4. SumFunctionOnSet(SpentBy(new), {} \cup {1})
            = SumFunctionOnSet(SpentBy(new), {}) + SpentBy(new)[1]
      BY ONLY <2>2, <2>3, SumAdd
    <2> QED
      BY <1>3, <1>7, <2>1, <2>2, <2>4, SumEmpty DEF Spent
  <1>10. Spent(remitted) \in Nat
    BY <1>1, SpentByIs DEF RemitsTyped
  <1>11. credit[q] - x \in Int /\ credit \in [Suppliers -> Int] /\ credit[q] \in Int /\ credit[q] >= x
    BY <1>1, <1>2, <1>3 DEF CreditTyped
  <1>12. credit' = [credit EXCEPT ![q] = credit[q] - x]
    BY <1>2
  <1>15. CreditPays(new)
    BY <1>3, <1>5, <1>7 DEF CreditPays
  <1> HIDE DEF q
  <1>13. /\ SumFunctionOnSet(credit', Suppliers)
              = SumFunctionOnSet(credit, Suppliers) - credit[q] + (credit[q] - x)
         /\ SumFunctionOnSet(credit, Suppliers) \in Int
    BY <1>1, <1>3, <1>11, <1>12, CreditOfOneMoves
  <1>16. \A c \in Suppliers : credit'[c] >= 0
    BY <1>3, <1>11, <1>12 DEF CreditAddsUp
  <1>14. CreditAddsUp'
    <2>1. advanced' = advanced
      BY <1>2
    <2> QED
      BY <1>3, <1>8, <1>9, <1>10, <1>11, <1>13, <1>16, <2>1 DEF CreditAddsUp
  <1> QED
    BY <1>14, <1>15

RemitsOf(order, open, x, source, row) ==
  [k \in 1..Len(order) |-> Remit(order[k], Share(order[k], open, x), source, row[k])]

\* The payments of a sum shared out over the notes of one supplier.
LEMMA SharedRemits ==
  ASSUME NotesTyped, NEW open, NEW x, NEW order, NEW source, NEW row, NEW p, NEW new,
         open \in SUBSET Notes, x \in Nat, order \in PaidOnes(open, x),
         source \in {"money", "credit"}, \A k \in 1..Len(order) : row[k] \in Nat,
         p \in Suppliers, \A r \in open : notes[r].supplier = p,
         new = RemitsOf(order, open, x, source, row)
  PROVE  /\ new \in Seq(RemitSet) /\ DOMAIN new = 1..Len(order) /\ Len(new) = Len(order)
         /\ \A k \in DOMAIN new : new[k].source = source /\ new[k].supplier = p
         /\ source = "credit" => Spent(new) + OrZero(x - OwedOn(open)) = x
PROOF
  <1> DEFINE L == Len(order)
  <1>1. /\ L \in Nat /\ DOMAIN order = 1..L
        /\ \A k \in 1..L : /\ order[k] \in open /\ order[k] \in Notes
                           /\ Share(order[k], open, x) \in Nat \ {0}
    BY SharedOut
  <1> HIDE DEF L
  <1>2. \A k \in 1..L : /\ new[k] \in RemitSet /\ new[k] # NoRemit
                        /\ new[k].source = source /\ new[k].supplier = p
                        /\ new[k].amount = Share(order[k], open, x)
    <2> TAKE k \in 1..L
    <2> DEFINE v == Share(order[k], open, x)
    <2>1. Remit(order[k], v, source, row[k]) \in RemitSet /\ Remit(order[k], v, source, row[k]) # NoRemit
      BY <1>1, RemitTyped DEF L
    <2>2. new[k] = Remit(order[k], v, source, row[k])
      BY DEF L, RemitsOf
    <2> HIDE DEF v
    <2>3. notes[order[k]].supplier = p
      BY <1>1
    <2> QED
      BY <2>1, <2>2, <2>3 DEF Remit, v
  <1>3. new \in Seq(RemitSet) /\ DOMAIN new = 1..L /\ Len(new) = L
    <2>1. DOMAIN new = 1..L /\ new = [k \in 1..L |-> new[k]]
      BY DEF RemitsOf, L
    <2>2. \A k \in 1..L : new[k] \in RemitSet
      BY <1>2
    <2> QED
      BY ONLY <1>1, <2>1, <2>2, Mapped
  <1>4. ASSUME source = "credit" PROVE Spent(new) + OrZero(x - OwedOn(open)) = x
    <2>1. \A k \in 1..L : SpentBy(new)[k] = Share(order[k], open, x)
      BY <1>2, <1>3, <1>4 DEF SpentBy, SpentIn
    <2>2. SumFunctionOnSet(SpentBy(new), 1..Len(order)) + OrZero(x - OwedOn(open)) = x
      BY <2>1, SharesComeTo DEF L
    <2> QED
      BY <1>3, <2>2 DEF Spent, L
  <1> QED
    BY <1>2, <1>3, <1>4 DEF L

LEMMA PaySupplierCredit ==
  ASSUME SupplyOK, CreditAddsUp, PaySupplier
  PROVE  CreditAddsUp' /\ \E new : CreditPays(new)
PROOF
  <1>1. NotesTyped /\ RemitsTyped /\ CreditTyped /\ Len(rows) \in Nat
    BY DEF SupplyOK, AccountTyped, LedgerOK
  <1>2. PICK p \in Suppliers, x \in Remits, a \in Accounts :
          LET open == OpenNotes(p)
              left == OrZero(x - OwedOn(open))
          IN  \E order \in PaidOnes(open, x) :
                /\ remitted' = remitted \o [k \in 1..Len(order) |->
                         Remit(order[k], Share(order[k], open, x), "money", Len(rows) + k * Width(a))]
                /\ credit' = [credit EXCEPT ![p] = @ + left]
                /\ advanced' = advanced + left
    BY ZenonT(60) DEF PaySupplier
  <1> DEFINE open == OpenNotes(p)
             left == OrZero(x - OwedOn(open))
  <1>3. open \in SUBSET Notes /\ \A r \in open : notes[r].supplier = p
    BY DEF OpenNotes
  <1>4. x \in Nat
    BY SupplierAssumption
  <1>5. left \in Nat /\ left \in Int
    BY <1>1, <1>3, <1>4, OwedIsNumber
  <1>6. PICK order \in PaidOnes(open, x) :
          /\ remitted' = remitted \o [k \in 1..Len(order) |->
                         Remit(order[k], Share(order[k], open, x), "money", Len(rows) + k * Width(a))]
          /\ credit' = [credit EXCEPT ![p] = @ + left]
          /\ advanced' = advanced + left
    BY <1>2
  <1> HIDE DEF open, left
  <1> DEFINE row == [k \in 1..Len(order) |-> Len(rows) + k * Width(a)]
             new == RemitsOf(order, open, x, "money", row)
  <1>7. \A k \in 1..Len(order) : row[k] \in Nat
    BY <1>1 DEF Width
  <1>8. remitted' = remitted \o new
    BY <1>6 DEF RemitsOf
  <1> HIDE DEF row
  <1>9. new = RemitsOf(order, open, x, "money", row)
    OBVIOUS
  <1> HIDE DEF new
  <1>10. "money" \in {"money", "credit"}
    OBVIOUS
  <1>11. new \in Seq(RemitSet) /\ \A k \in DOMAIN new : new[k].source = "money"
    BY ONLY <1>1, <1>3, <1>4, <1>7, <1>9, <1>10, order \in PaidOnes(open, x), p \in Suppliers,
            SharedRemits
  <1>12. Spent(new) = 0 /\ Spent(remitted') = Spent(remitted) + Spent(new) /\ Spent(remitted) \in Nat
    BY <1>1, <1>8, <1>11, SpentInMoney, SpentAdded, SpentByIs DEF RemitsTyped
  <1>13. credit \in [Suppliers -> Int] /\ credit[p] \in Int /\ credit[p] + left \in Int
    BY <1>1, <1>5 DEF CreditTyped
  <1>14. credit' = [credit EXCEPT ![p] = credit[p] + left]
    BY <1>6
  <1>15. /\ SumFunctionOnSet(credit', Suppliers)
               = SumFunctionOnSet(credit, Suppliers) - credit[p] + (credit[p] + left)
         /\ SumFunctionOnSet(credit, Suppliers) \in Int
    BY <1>1, <1>13, <1>14, CreditOfOneMoves
  <1>16. \A c \in Suppliers : credit'[c] >= 0
    BY <1>5, <1>13, <1>14 DEF CreditAddsUp
  <1>17. CreditAddsUp'
    <2>1. advanced' = advanced + left
      BY <1>6
    <2> QED
      BY <1>5, <1>12, <1>13, <1>15, <1>16, <2>1 DEF CreditAddsUp
  <1>18. CreditPays(new)
    BY <1>8, <1>11 DEF CreditPays
  <1> QED
    BY <1>17, <1>18

LEMMA TransferCredit ==
  ASSUME SupplyOK, CreditAddsUp, TransferAdvance
  PROVE  CreditAddsUp' /\ \E new : CreditPays(new)
PROOF
  <1>1. NotesTyped /\ RemitsTyped /\ CreditTyped
    BY DEF SupplyOK, AccountTyped
  <1>2. PICK p \in Suppliers, q \in Suppliers, x \in Remits, settle \in BOOLEAN :
          LET open == IF settle THEN OpenNotes(q) ELSE {}
              left == OrZero(x - OwedOn(open))
          IN  \E order \in PaidOnes(open, x) :
                /\ p # q /\ x <= credit[p]
                /\ Len(remitted) + Len(order) <= MaxRemits
                /\ credit' = [credit EXCEPT ![p] = @ - x, ![q] = @ + left]
                /\ remitted' = remitted \o [k \in 1..Len(order) |->
                                 Remit(order[k], Share(order[k], open, x), "credit", 0)]
                /\ SharesPaid(open, x)
                /\ UNCHANGED <<advanced, books>>
    BY Zenon DEF TransferAdvance
  <1> DEFINE open == IF settle THEN OpenNotes(q) ELSE {}
             left == OrZero(x - OwedOn(open))
  <1>3. open \in SUBSET Notes /\ \A r \in open : notes[r].supplier = q
    BY DEF OpenNotes
  <1>4. x \in Nat
    BY SupplierAssumption
  <1>5. left \in Nat /\ left \in Int
    BY <1>1, <1>3, <1>4, OwedIsNumber
  <1>6. PICK order \in PaidOnes(open, x) :
          /\ p # q /\ x <= credit[p]
          /\ credit' = [credit EXCEPT ![p] = @ - x, ![q] = @ + left]
          /\ remitted' = remitted \o [k \in 1..Len(order) |->
                           Remit(order[k], Share(order[k], open, x), "credit", 0)]
          /\ advanced' = advanced
    BY <1>2
  <1>19. left = OrZero(x - OwedOn(open))
    OBVIOUS
  <1> HIDE DEF open, left
  <1> DEFINE row == [k \in 1..Len(order) |-> 0]
             new == RemitsOf(order, open, x, "credit", row)
  <1>7. \A k \in 1..Len(order) : row[k] \in Nat
    OBVIOUS
  <1>8. remitted' = remitted \o new
    BY <1>6 DEF RemitsOf
  <1> HIDE DEF row
  <1>9. new = RemitsOf(order, open, x, "credit", row)
    OBVIOUS
  <1> HIDE DEF new
  <1>10. "credit" \in {"money", "credit"}
    OBVIOUS
  <1>11. /\ new \in Seq(RemitSet) /\ \A k \in DOMAIN new : new[k].supplier = q
         /\ Spent(new) + OrZero(x - OwedOn(open)) = x
    BY ONLY <1>1, <1>3, <1>4, <1>7, <1>9, <1>10, order \in PaidOnes(open, x), q \in Suppliers,
            SharedRemits
  <1>12. /\ Spent(remitted') = Spent(remitted) + Spent(new) /\ Spent(remitted) \in Nat
         /\ Spent(new) \in Nat
    <2>1. Spent(remitted') = Spent(remitted) + Spent(new)
      BY <1>1, <1>8, <1>11, SpentAdded
    <2>2. Spent(remitted) \in Nat
      BY <1>1, SpentByIs DEF RemitsTyped
    <2>3. new \in Seq(RemitSet \cup {NoRemit})
      BY <1>11
    <2>4. Spent(new) \in Nat
      BY ONLY <2>3, SpentByIs
    <2> QED
      BY <2>1, <2>2, <2>4
  <1>13. /\ credit \in [Suppliers -> Int] /\ credit[p] \in Int /\ credit[q] \in Int
         /\ credit[p] - x \in Int /\ credit[q] + left \in Int
    BY <1>1, <1>4, <1>5 DEF CreditTyped
  <1> DEFINE half == [credit EXCEPT ![p] = credit[p] - x]
  <1>14. /\ credit' = [half EXCEPT ![q] = credit[q] + left] /\ half \in [Suppliers -> Int]
         /\ half = [credit EXCEPT ![p] = credit[p] - x] /\ half[q] = credit[q] /\ half[p] = credit[p] - x
    BY <1>6, <1>13
  <1>20. \A c \in Suppliers : c # p => half[c] = credit[c]
    BY <1>13
  <1> HIDE DEF half
  <1>22. /\ \A c \in Suppliers : credit[c] \in Int /\ half[c] \in Int /\ credit'[c] \in Int
         /\ credit'[q] = credit[q] + left /\ \A c \in Suppliers \ {q} : half[c] = credit'[c]
    BY <1>13, <1>14
  <1>23. \A c \in Suppliers \ {p} : credit[c] = half[c]
    BY <1>20
  <1>15. /\ SumFunctionOnSet(half, Suppliers)
               = SumFunctionOnSet(credit, Suppliers) - credit[p] + half[p]
         /\ SumFunctionOnSet(credit, Suppliers) \in Int
    BY ONLY <1>22, <1>23, p \in Suppliers, CreditSum
  <1>21. /\ SumFunctionOnSet(credit', Suppliers)
               = SumFunctionOnSet(half, Suppliers) - half[q] + credit'[q]
         /\ SumFunctionOnSet(half, Suppliers) \in Int
    BY ONLY <1>22, q \in Suppliers, CreditSum
  <1>16. \A c \in Suppliers : credit'[c] >= 0
    <2> TAKE c \in Suppliers
    <2>1. credit[c] \in Int /\ credit[c] >= 0 /\ credit[q] >= 0 /\ credit[p] >= x
      BY <1>1, <1>6 DEF CreditAddsUp, CreditTyped
    <2>2. CASE c = q
      BY <1>5, <1>13, <1>14, <2>1, <2>2
    <2>3. CASE c # q
      <3>1. credit'[c] = half[c]
        BY <1>14, <2>3
      <3> QED
        BY <1>4, <1>13, <1>14, <1>20, <2>1, <3>1
    <2> QED
      BY <2>2, <2>3
  <1>17. CreditAddsUp'
    <2>1. /\ advanced = SumFunctionOnSet(credit, Suppliers) + Spent(remitted)
          /\ advanced' = advanced
      BY <1>6 DEF CreditAddsUp
    <2>2. Spent(new) + left = x
      BY <1>11, <1>19
    <2>3. SumFunctionOnSet(credit', Suppliers) + Spent(remitted') = advanced'
      BY <1>4, <1>5, <1>12, <1>13, <1>14, <1>15, <1>21, <1>22, <2>1, <2>2
    <2> QED
      BY <1>16, <2>3 DEF CreditAddsUp
  <1>18. CreditPays(new)
    BY <1>8, <1>11 DEF CreditPays
  <1> QED
    BY <1>17, <1>18

LEMMA CancelCredit ==
  ASSUME SupplyOK, CreditAddsUp, Named, CancelPayment, handOvers' = handOvers
  PROVE  CreditAddsUp' /\ Named'
PROOF
  <1>1. RemitsTyped /\ CreditTyped /\ remitted \in Seq(RemitSet \cup {NoRemit})
    BY DEF SupplyOK, AccountTyped, RemitsTyped
  <1>2. PICK n \in DOMAIN remitted :
          /\ remitted[n] # NoRemit /\ CreditBack(remitted[n])
          /\ remitted' = [remitted EXCEPT ![n] = NoRemit]
          /\ UNCHANGED advanced
    BY DEF CancelPayment
  <1> DEFINE q == remitted[n]
             p == q.supplier
             x == q.amount
  <1>3. q \in RemitSet /\ x \in Nat
    BY <1>1, <1>2 DEF RemitSet
  <1>4. Spent(remitted') = Spent(remitted) - SpentIn(q) /\ Spent(remitted) \in Nat
    BY <1>1, <1>2, SpentDropped, SpentByIs
  <1>5. /\ DOMAIN remitted' = DOMAIN remitted
        /\ \A k \in DOMAIN remitted : remitted'[k] = IF k = n THEN NoRemit ELSE remitted[k]
    BY <1>1, <1>2
  <1>6. Named'
    BY <1>5 DEF Named
  <1>7. CASE q.source = "credit"
    <2>1. p \in Suppliers /\ p # "none"
      BY <1>2, <1>7, SupplierAssumption DEF Named
    <2>2. credit' = [credit EXCEPT ![p] = @ + x] /\ SpentIn(q) = x
      BY <1>2, <1>7, <2>1 DEF CreditBack, SpentIn
    <2> HIDE DEF q, p, x
    <2>3. credit \in [Suppliers -> Int] /\ credit[p] \in Int /\ credit[p] + x \in Int
      BY <1>1, <1>3, <2>1 DEF CreditTyped
    <2>4. credit' = [credit EXCEPT ![p] = credit[p] + x]
      BY <2>2
    <2>5. /\ SumFunctionOnSet(credit', Suppliers)
                = SumFunctionOnSet(credit, Suppliers) - credit[p] + (credit[p] + x)
          /\ SumFunctionOnSet(credit, Suppliers) \in Int
      BY <1>1, <2>1, <2>3, <2>4, CreditOfOneMoves
    <2>6. \A c \in Suppliers : credit'[c] >= 0
      BY <1>3, <2>3, <2>4 DEF CreditAddsUp
    <2>7. CreditAddsUp'
      BY <1>2, <1>3, <1>4, <2>2, <2>3, <2>5, <2>6 DEF CreditAddsUp
    <2> QED
      BY <1>6, <2>7
  <1>8. CASE q.source # "credit"
    <2>1. credit' = credit /\ SpentIn(q) = 0
      BY <1>2, <1>8 DEF CreditBack, SpentIn
    <2>2. Spent(remitted') = Spent(remitted)
      BY <1>4, <2>1
    <2> QED
      BY <1>2, <1>6, <2>1, <2>2 DEF CreditAddsUp
  <1> QED
    BY <1>7, <1>8

LEMMA DeskCredit ==
  ASSUME SupplyOK, CreditAddsUp, Named, AccountNext, handOvers' = handOvers
  PROVE  CreditAddsUp' /\ Named'
PROOF
  <1>1. RemitsTyped
    BY DEF SupplyOK, AccountTyped
  <1>2. ASSUME NEW new, CreditPays(new) PROVE Named'
    BY <1>1, <1>2, NamedPays
  <1> QED
    BY <1>2, PayNoteCredit, FromCreditCredit, PaySupplierCredit, TransferCredit, CancelCredit
       DEF AccountNext

------------------------------------------------------------------------------
\* Goods handed over, and taken back again.

LEMMA HandsNamed ==
  ASSUME Named, remitted' = remitted, NEW way, NEW r, NEW p, NEW b, NEW q, NEW value, NEW row,
         HandOverAdded(way, r, p, b, q, value, row), way = "credit" => p \in Suppliers
  PROVE  Named'
PROOF
  <1>1. \A n \in DOMAIN handOvers' : n \in DOMAIN handOvers \/ n = Len(handOvers) + 1
    BY DEF HandOverAdded
  <1>2. \A n \in DOMAIN handOvers' : handOvers'[n].way = "credit"
                                       => handOvers'[n].supplier \in Suppliers
    BY <1>1 DEF HandOverAdded, Named
  <1> QED
    BY <1>2 DEF Named

LEMMA ForCreditCredit ==
  ASSUME SupplyOK, CreditAddsUp, Named, HandOverForCredit
  PROVE  CreditAddsUp' /\ Named'
PROOF
  <1>1. StoreTyped /\ RemitsTyped /\ CreditTyped
    BY DEF SupplyOK, AccountTyped
  <1>2. PICK b \in Branches, p \in Suppliers, q \in Cuts, x \in Remits :
          /\ HandOver("credit", 0, p, b, q, x, 0)
          /\ credit' = [credit EXCEPT ![p] = @ + x]
          /\ advanced' = advanced + x
          /\ UNCHANGED <<notes, remitted, books, desk>>
    BY DEF HandOverForCredit
  <1>3. q \in Nat /\ x \in Nat /\ 0 \in Payers /\ p \in Parties /\ 0 \in Nat
    BY DeliveryAssumption, SupplierAssumption DEF Payers, Parties
  <1>4. HandOverAdded("credit", 0, p, b, q, x, 0)
    BY <1>1, <1>2, <1>3, HandedOver
  <1>5. Named'
    BY <1>2, <1>4, HandsNamed
  <1>6. credit \in [Suppliers -> Int] /\ credit[p] \in Int /\ credit[p] + x \in Int /\ advanced \in Int
    BY <1>1, <1>3 DEF CreditTyped
  <1>7. credit' = [credit EXCEPT ![p] = credit[p] + x]
    BY <1>2
  <1>8. /\ SumFunctionOnSet(credit', Suppliers)
              = SumFunctionOnSet(credit, Suppliers) - credit[p] + (credit[p] + x)
        /\ SumFunctionOnSet(credit, Suppliers) \in Int
    BY <1>1, <1>6, <1>7, CreditOfOneMoves
  <1>9. \A c \in Suppliers : credit'[c] >= 0
    BY <1>3, <1>6, <1>7 DEF CreditAddsUp
  <1>10. Spent(remitted') = Spent(remitted) /\ Spent(remitted) \in Nat
    BY <1>1, <1>2, SpentByIs DEF RemitsTyped
  <1>11. CreditAddsUp'
    BY <1>2, <1>3, <1>6, <1>8, <1>9, <1>10 DEF CreditAddsUp
  <1> QED
    BY <1>5, <1>11

LEMMA UndoCredit ==
  ASSUME SupplyOK, CreditAddsUp, Named, UndoHandOver
  PROVE  CreditAddsUp' /\ Named'
PROOF
  <1>1. /\ RemitsTyped /\ CreditTyped /\ handOvers \in Seq(HandOverSet)
    BY DEF SupplyOK, AccountTyped, StoreTyped
  <1>2. PICK n \in DOMAIN handOvers :
          LET h == handOvers[n]
          IN  /\ handOvers' = [handOvers EXCEPT ![n].undone = TRUE]
              /\ \/ /\ h.way = "credit" /\ CreditStill(h.supplier, h.value)
                    /\ credit' = [credit EXCEPT ![h.supplier] = @ - h.value]
                    /\ advanced' = advanced - h.value
                    /\ UNCHANGED <<notes, remitted, books>>
                 \/ UNCHANGED account
                 \/ UNCHANGED <<remitted, credit, advanced, books>>
    BY DEF UndoHandOver
  <1> DEFINE h == handOvers[n]
             p == h.supplier
             x == h.value
  <1>3. h \in HandOverSet /\ x \in Nat
    <2>1. h \in HandOverSet
      BY <1>1
    <2> HIDE DEF h
    <2> QED
      BY <2>1 DEF HandOverSet
  <1>4. \A m \in DOMAIN handOvers : handOvers'[m].way = handOvers[m].way
                                    /\ handOvers'[m].supplier = handOvers[m].supplier
    <2> TAKE m \in DOMAIN handOvers
    <2>1. handOvers[m] \in HandOverSet
      BY <1>1
    <2> QED
      BY <1>1, <1>2, <2>1 DEF HandOverSet
  <1>5. DOMAIN handOvers' = DOMAIN handOvers
    BY <1>1, <1>2
  <1>6. remitted' = remitted
    BY <1>2 DEF account
  <1>7. Named'
    BY <1>4, <1>5, <1>6 DEF Named
  <1>8. CASE CreditStays
    BY <1>7, <1>8, CreditKept
  <1>9. CASE /\ h.way = "credit" /\ CreditStill(p, x)
             /\ credit' = [credit EXCEPT ![p] = @ - x]
             /\ advanced' = advanced - x
    <2>1. p \in Suppliers
      BY <1>9 DEF Named
    <2> HIDE DEF h, p, x
    <2>2. /\ credit \in [Suppliers -> Int] /\ credit[p] \in Int /\ credit[p] - x \in Int
          /\ credit[p] >= x /\ advanced \in Int
      BY <1>1, <1>3, <1>9, <2>1 DEF CreditTyped, CreditStill
    <2>3. credit' = [credit EXCEPT ![p] = credit[p] - x]
      BY <1>9
    <2>4. /\ SumFunctionOnSet(credit', Suppliers)
                = SumFunctionOnSet(credit, Suppliers) - credit[p] + (credit[p] - x)
          /\ SumFunctionOnSet(credit, Suppliers) \in Int
      BY <1>1, <2>1, <2>2, <2>3, CreditOfOneMoves
    <2>5. \A c \in Suppliers : credit'[c] >= 0
      BY <1>3, <2>2, <2>3 DEF CreditAddsUp
    <2>6. Spent(remitted') = Spent(remitted) /\ Spent(remitted) \in Nat
      BY <1>1, <1>6, SpentByIs DEF RemitsTyped
    <2>7. CreditAddsUp'
      BY <1>3, <1>9, <2>2, <2>4, <2>5, <2>6 DEF CreditAddsUp
    <2> QED
      BY <1>7, <2>7
  <1> QED
    BY <1>2, <1>8, <1>9 DEF CreditStays, account

------------------------------------------------------------------------------
\* The other steps leave the credit alone.

LEMMA DefectsCredit ==
  ASSUME SupplyOK, CreditAddsUp, Named, DefectsNext
  PROVE  CreditAddsUp' /\ Named'
PROOF
  <1>1. StoreTyped /\ LedgerOK(rows, Payers) /\ DeskTyped
    BY DEF SupplyOK, AccountTyped
  <1>2. ASSUME CreditStays, Named' PROVE CreditAddsUp' /\ Named'
    BY <1>2, CreditKept
  <1>3. CASE CreditStays /\ handOvers' = handOvers
    <2>1. Named'
      BY <1>3 DEF CreditStays, Named
    <2> QED
      BY <1>2, <1>3, <2>1
  <1>4. CASE FromShelf \/ FromCustomer \/ OpeningStore \/ WriteOff \/ BackOnShelf
             \/ \E s \in Sessions : LookToHandOver(s)
    <2>1. CreditStays /\ handOvers' = handOvers
      BY <1>4 DEF FromShelf, FromCustomer, OpeningStore, WriteOff, BackOnShelf, LookToHandOver,
                  CreditStays, account, store
    <2> QED
      BY <1>3, <2>1
  <1>5. CASE HandOverForCash
    <2>1. PICK b \in Branches, p \in Suppliers, q \in Cuts, x \in Remits :
            HandOver("cash", 0, p, b, q, x, Len(rows) + 1) /\ UNCHANGED account
      BY <1>5 DEF HandOverForCash
    <2>2. q \in Nat /\ x \in Nat /\ 0 \in Payers /\ p \in Parties /\ Len(rows) + 1 \in Nat
      BY <1>1, DeliveryAssumption, SupplierAssumption DEF Payers, Parties, LedgerOK
    <2>3. HandOverAdded("cash", 0, p, b, q, x, Len(rows) + 1)
      BY <1>1, <2>1, <2>2, HandedOver
    <2>4. CreditStays
      BY <2>1 DEF CreditStays, account
    <2>5. Named'
      BY <2>3, <2>4, HandsNamed DEF CreditStays
    <2> QED
      BY <1>2, <2>4, <2>5
  <1>6. ASSUME NEW s \in Sessions, HandOverOffDebt(s) PROVE CreditAddsUp' /\ Named'
    <2> DEFINE r == job[s].note
               q == job[s].units
               p == seen[s].supplier
               b == job[s].branch
    <2>1. Leave(s, "hand") /\ HandOver("debt", r, p, b, q, q, 0) /\ CreditStays
      BY <1>6 DEF HandOverOffDebt, CreditStays
    <2>2. r \in Payers /\ q \in Nat /\ p \in Parties /\ b \in Branches /\ 0 \in Nat
      BY <1>1, <2>1, HeldBy DEF Payers
    <2> HIDE DEF r, q, p, b
    <2>3. HandOverAdded("debt", r, p, b, q, q, 0)
      BY <1>1, <2>1, <2>2, HandedOver
    <2>4. Named'
      BY <2>1, <2>3, HandsNamed DEF CreditStays
    <2> QED
      BY <1>2, <2>1, <2>4
  <1> QED
    BY <1>4, <1>5, <1>6, ForCreditCredit, UndoCredit DEF DefectsNext

\* Deliveries without deletions and changes of supplier do not touch it.
LEMMA GoodsCredit ==
  ASSUME SupplyOK, CreditAddsUp, Named, NoPapers, GoodsNext, handOvers' = handOvers
  PROVE  CreditAddsUp' /\ Named'
PROOF
  <1>1. CASE CreditStays
    <2>1. Named'
      BY <1>1 DEF CreditStays, Named
    <2> QED
      BY <1>1, <2>1, CreditKept
  <1>2. CASE CreateNote \/ Sale
    BY <1>1, <1>2, ZenonT(60) DEF CreateNote, Sale, CreditStays, account
  <1>3. ASSUME NEW s \in Sessions, Looks(s) PROVE CreditStays
    BY <1>3 DEF Looks, LookToReceive, LookToEdit, LookToReverse, LookToRelabel, LookToSendBack,
                CreditStays, account
  <1>4. ASSUME NEW s \in Sessions,
               ReceiveNote(s) \/ EditNote(s) \/ Unreceive(s) \/ SendBack(s) \/ DeliveryGivesUp(s)
        PROVE  CreditStays
    BY <1>4, Zenon DEF ReceiveNote, EditNote, Unreceive, SendBack, DeliveryGivesUp, CreditStays, account
  <1>5. ASSUME NEW s \in Sessions PROVE ~RemoveNote(s) /\ ~Relabel(s)
    BY DEF NoPapers, RemoveNote, Relabel, Leave
  <1> QED
    BY <1>1, <1>2, <1>3, <1>4, <1>5 DEF GoodsNext, Looks

\* Nobody is let in to delete a note or change its header.
LEMMA NoPapersStays ==
  ASSUME DeskTyped, NoPapers, StoreNext, OnlyKinds({}) \/ OnlyKinds({"hand"})
  PROVE  NoPapers'
PROOF
  <1>1. \A s \in Sessions : job'[s].kind # "remove" /\ job'[s].kind \notin {"supplier", "branch"}
    BY DEF OnlyKinds
  <1>2. ASSUME NEW s \in Sessions, NEW there, there # "relabel", NEW asked, NEW read,
               Enter(s, there, asked, read)
        PROVE  NoPapers'
    BY <1>1, <1>2 DEF NoPapers, Enter, DeskTyped
  <1>3. ASSUME NEW s \in Sessions, NEW here, Leave(s, here)
        PROVE  NoPapers'
    BY <1>1, <1>3 DEF NoPapers, Leave, DeskTyped
  <1>4. CASE UNCHANGED desk
    BY <1>4 DEF NoPapers, desk
  <1>5. ASSUME NEW s \in Sessions PROVE ~LookToRelabel(s)
    <2> SUFFICES ASSUME LookToRelabel(s) PROVE FALSE
      OBVIOUS
    <2>1. PICK r \in Notes :
            \/ \E p \in Parties : Enter(s, "relabel", [kind |-> "supplier", note |-> r,
                                     supplier |-> p, branch |-> notes[r].branch], notes[r])
            \/ \E b \in Branches : Enter(s, "relabel", [kind |-> "branch", note |-> r,
                                      supplier |-> notes[r].supplier, branch |-> b], notes[r])
      BY DEF LookToRelabel, Parties
    <2>2. ASSUME NEW asked, NEW read, Enter(s, "relabel", asked, read)
          PROVE  asked.kind \notin {"supplier", "branch"}
      BY <1>1, <2>2 DEF Enter, DeskTyped
    <2>3. ASSUME NEW p, Enter(s, "relabel", [kind |-> "supplier", note |-> r, supplier |-> p,
                                             branch |-> notes[r].branch], notes[r])
          PROVE  FALSE
      BY <2>2, <2>3
    <2>4. ASSUME NEW b, Enter(s, "relabel", [kind |-> "branch", note |-> r,
                                             supplier |-> notes[r].supplier, branch |-> b], notes[r])
          PROVE  FALSE
      BY <2>2, <2>4
    <2> QED
      BY <2>1, <2>3, <2>4
  <1>6. ASSUME NEW s \in Sessions, LookToReceive(s) \/ LookToEdit(s) \/ LookToReverse(s)
                                   \/ LookToSendBack(s) \/ LookToHandOver(s)
        PROVE  NoPapers'
    <2>1. \E there, asked, read : there # "relabel" /\ Enter(s, there, asked, read)
      BY <1>6, Zenon DEF LookToReceive, LookToEdit, LookToReverse, LookToSendBack, LookToHandOver
    <2> QED
      BY <1>2, <2>1
  <1>7. ASSUME NEW s \in Sessions,
               \/ ReceiveNote(s) \/ EditNote(s) \/ Unreceive(s) \/ RemoveNote(s) \/ Relabel(s)
               \/ SendBack(s) \/ DeliveryGivesUp(s) \/ HandOverOffDebt(s)
        PROVE  NoPapers'
    <2>1. \E here : Leave(s, here)
      BY <1>7, Zenon DEF ReceiveNote, EditNote, Unreceive, RemoveNote, Relabel, SendBack, DeliveryGivesUp,
                  Abandon, HandOverOffDebt
    <2> QED
      BY <1>3, <2>1
  <1>8. CASE CreateNote \/ Sale \/ PayDesk \/ FromShelf \/ FromCustomer \/ OpeningStore \/ WriteOff
             \/ BackOnShelf \/ HandOverForCredit \/ HandOverForCash \/ UndoHandOver
    <2>1. UNCHANGED desk
      BY <1>8 DEF CreateNote, Sale, PayDesk, FromShelf, FromCustomer, OpeningStore, WriteOff,
                  BackOnShelf, HandOverForCredit, HandOverForCash, UndoHandOver
    <2> QED
      BY <1>4, <2>1, SMTT(60)
  <1> QED
    BY <1>5, <1>6, <1>7, <1>8 DEF StoreNext, DefectsNext, Deliver, DeliveryNext, GoodsNext

LEMMA CreditsMove ==
  ASSUME CreditsOK, StoreNext, NoPapers'
  PROVE  CreditsOK'
PROOF
  <1>1. SupplyOK /\ CreditAddsUp /\ Named /\ NoPapers
    BY DEF CreditsOK
  <1>2. SupplyOK'
    BY <1>1, SupplySteps
  <1>3. Deliver => /\ GoodsNext \/ AccountNext
                   /\ handOvers' = handOvers
    BY DEF Deliver, DeliveryNext, PayDesk, store
  <1>4. CreditAddsUp' /\ Named'
    BY <1>1, <1>3, GoodsCredit, DeskCredit, DefectsCredit DEF StoreNext
  <1> QED
    BY <1>2, <1>4 DEF CreditsOK

LEMMA CreditsSteps ==
  ASSUME CreditsOK, SupplyNext, supplyLoad \in {"accounts", "defects"}
  PROVE  CreditsOK'
PROOF
  <1>1. StoreNext /\ (OnlyKinds({}) \/ OnlyKinds({"hand"}))
    BY LoadSteps DEF AccountsOnly, Defects
  <1>2. NoPapers'
    BY <1>1, NoPapersStays DEF CreditsOK, SupplyOK
  <1> QED
    BY <1>1, <1>2, CreditsMove

LEMMA CreditsStart == ASSUME StoreInit PROVE CreditsOK
PROOF
  <1>1. /\ SupplyOK /\ remitted = <<>> /\ handOvers = <<>> /\ advanced = 0
        /\ credit = [p \in Suppliers |-> 0]
        /\ \A s \in Sessions : phase[s] = "idle" /\ job[s] = NoJob
    BY SupplyStart DEF StoreInit, DeliveryInit, AccountInit, DeskInit
  <1>2. NoPapers
    <2>1. NoJob.kind = "none"
      BY DEF NoJob
    <2> QED
      BY <1>1, <2>1 DEF NoPapers
  <1>3. Named
    BY <1>1 DEF Named
  <1>4. SumFunctionOnSet(credit, Suppliers) = 0
    <2>1. IsFiniteSet(Suppliers) /\ \A p \in Suppliers : credit[p] = 0
      BY <1>1, SupplierAssumption
    <2> QED
      BY <2>1, SumZero
  <1>5. Spent(remitted) = 0
    <2>1. 1..Len(remitted) = {}
      BY <1>1
    <2> QED
      BY <2>1, SumEmpty DEF Spent
  <1>6. CreditAddsUp
    BY <1>1, <1>4, <1>5 DEF CreditAddsUp
  <1> QED
    BY <1>1, <1>2, <1>3, <1>6 DEF CreditsOK

LEMMA CreditsTell ==
  ASSUME CreditsOK
  PROVE  CreditAccounted
PROOF
  <1>1. RemitsTyped /\ CreditTyped /\ CreditAddsUp /\ remitted \in Seq(RemitSet \cup {NoRemit})
    BY DEF CreditsOK, SupplyOK, AccountTyped, RemitsTyped
  <1> DEFINE from == [n \in FromCredit |-> remitted[n].amount]
             S == 1..Len(remitted)
  <1>2. /\ DOMAIN remitted = S /\ IsFiniteSet(S)
        /\ \A n \in S : SpentBy(remitted)[n] = SpentIn(remitted[n]) /\ SpentIn(remitted[n]) \in Nat
    BY <1>1, SpentByIs
  <1>3. FromCredit \in SUBSET S
    BY <1>2 DEF FromCredit
  <1>4. \A n \in FromCredit : from[n] \in Int /\ SpentBy(remitted)[n] = from[n]
    <2> TAKE n \in FromCredit
    <2>1. n \in S /\ SpentIn(remitted[n]) = remitted[n].amount
      BY <1>2, <1>3 DEF FromCredit, SpentIn
    <2>2. from[n] = remitted[n].amount
      OBVIOUS
    <2> HIDE DEF from
    <2>3. SpentBy(remitted)[n] = SpentIn(remitted[n]) /\ SpentIn(remitted[n]) \in Nat
      BY <1>2, <2>1
    <2> QED
      BY ONLY <2>1, <2>2, <2>3
  <1>5. \A n \in S \ FromCredit : SpentBy(remitted)[n] = 0
    BY <1>2 DEF FromCredit, SpentIn
  <1>6. DOMAIN from = FromCredit
    OBVIOUS
  <1> HIDE DEF from, S
  <1>7. SumFunctionOnSet(SpentBy(remitted), S) = SumFunctionOnSet(from, FromCredit)
    BY <1>2, <1>3, <1>4, <1>5, SumSupport
  <1>8. SumFunction(from) = Spent(remitted)
    BY <1>6, <1>7 DEF SumFunction, Spent, S
  <1>9. SumFunction(credit) = SumFunctionOnSet(credit, Suppliers)
    BY <1>1 DEF CreditTyped, SumFunction
  <1> QED
    BY <1>1, <1>8, <1>9 DEF CreditAddsUp, CreditAccounted, from

------------------------------------------------------------------------------
\* The goods of deliveries, one request at a time: what each note brought in,
\* and what each shelf holds, as sums over the lots.

\* What a lot counts for: the units a note brought, those a shelf holds.
InOf(r) == [l \in KeptLots |-> IF ~l.gone /\ l.note = r THEN l.in ELSE 0]
LeftAt(b) == [l \in KeptLots |-> IF ~l.gone /\ l.branch = b THEN l.left ELSE 0]

Weighed(all, w) == [k \in DOMAIN all |-> w[all[k]]]
Weigh(all, w) == SumFunctionOnSet(Weighed(all, w), DOMAIN all)

LEMMA LotFields ==
  ASSUME NEW l \in KeptLots
  PROVE  /\ l.note \in Nat /\ l.item \in Nat /\ l.branch \in Places /\ l.in \in Nat /\ l.left \in Nat
         /\ l.sold \in Nat /\ l.back \in Nat /\ l.off \in Nat /\ l.gone \in BOOLEAN
         /\ l.left + l.sold + l.back + l.off = l.in
  BY DEF KeptLots, LotSet

LEMMA WeightsAre ==
  ASSUME NEW r, NEW b
  PROVE  InOf(r) \in [KeptLots -> Nat] /\ LeftAt(b) \in [KeptLots -> Nat]
  BY LotFields DEF InOf, LeftAt

LEMMA WeighedIs ==
  ASSUME NEW all \in Seq(KeptLots), NEW w \in [KeptLots -> Nat]
  PROVE  /\ IsFiniteSet(DOMAIN all) /\ DOMAIN all = 1..Len(all) /\ Len(all) \in Nat
         /\ \A k \in DOMAIN all : Weighed(all, w)[k] = w[all[k]] /\ w[all[k]] \in Nat
         /\ Weigh(all, w) \in Nat
PROOF
  <1>1. DOMAIN all = 1..Len(all) /\ Len(all) \in Nat
    OBVIOUS
  <1>2. IsFiniteSet(DOMAIN all)
    BY <1>1, FS_Interval
  <1>3. \A k \in DOMAIN all : Weighed(all, w)[k] = w[all[k]]
    BY DEF Weighed
  <1>4. \A k \in DOMAIN all : w[all[k]] \in Nat
    OBVIOUS
  <1>5. \A k \in DOMAIN all : Weighed(all, w)[k] \in Nat
    BY <1>3, <1>4
  <1>6. Weigh(all, w) \in Nat
    BY <1>2, <1>5, SumNat DEF Weigh
  <1> QED
    BY <1>1, <1>2, <1>3, <1>4, <1>6

LEMMA WeighChange ==
  ASSUME NEW all \in Seq(KeptLots), NEW after \in Seq(KeptLots), NEW w \in [KeptLots -> Nat],
         DOMAIN after = DOMAIN all, NEW d,
         \A k \in DOMAIN all : d[k] \in Int /\ w[after[k]] = w[all[k]] - d[k]
  PROVE  /\ Weigh(after, w) = Weigh(all, w) - SumFunctionOnSet(d, DOMAIN all)
         /\ SumFunctionOnSet(d, DOMAIN all) \in Int
PROOF
  <1> DEFINE S == DOMAIN all
             f == Weighed(after, w)
             h == Weighed(all, w)
  <1>1. /\ IsFiniteSet(S)
        /\ \A k \in S : h[k] = w[all[k]] /\ w[all[k]] \in Nat
        /\ \A k \in S : f[k] = w[after[k]] /\ w[after[k]] \in Nat
        /\ Weigh(after, w) = SumFunctionOnSet(f, S) /\ Weigh(after, w) \in Nat
        /\ Weigh(all, w) = SumFunctionOnSet(h, S)
    BY WeighedIs DEF Weigh
  <1> HIDE DEF f, h
  <1>2. \A k \in S : f[k] \in Int /\ d[k] \in Int /\ h[k] = f[k] + d[k]
    BY <1>1
  <1> HIDE DEF S
  <1>3. SumFunctionOnSet(h, S) = SumFunctionOnSet(f, S) + SumFunctionOnSet(d, S)
    BY <1>1, <1>2, SumPlus
  <1>4. SumFunctionOnSet(d, S) \in Int
    BY <1>1, <1>2, SumInt
  <1> QED
    BY <1>1, <1>3, <1>4 DEF S

LEMMA WeighSame ==
  ASSUME NEW all \in Seq(KeptLots), NEW after \in Seq(KeptLots), NEW w \in [KeptLots -> Nat],
         DOMAIN after = DOMAIN all, \A k \in DOMAIN all : w[after[k]] = w[all[k]]
  PROVE  Weigh(after, w) = Weigh(all, w)
PROOF
  <1>1. \A k \in DOMAIN all : Weighed(all, w)[k] = Weighed(after, w)[k]
    BY WeighedIs
  <1> QED
    BY <1>1, WeighedIs, SumEqual DEF Weigh

LEMMA WeighJoin ==
  ASSUME NEW all \in Seq(KeptLots), NEW new \in Seq(KeptLots), NEW w \in [KeptLots -> Nat]
  PROVE  Weigh(all \o new, w) = Weigh(all, w) + Weigh(new, w)
PROOF
  <1> DEFINE both == all \o new
             n == Len(all)
             m == Len(new)
  <1>1. /\ n \in Nat /\ m \in Nat /\ both \in Seq(KeptLots) /\ Len(both) = n + m
        /\ DOMAIN all = 1..n /\ DOMAIN new = 1..m /\ DOMAIN both = 1..(n + m)
        /\ \A k \in 1..n : both[k] = all[k]
        /\ \A k \in 1..m : both[n + k] = new[k]
    OBVIOUS
  <1> HIDE DEF both, n, m
  <1>2. /\ \A k \in 1..n : Weighed(all, w)[k] = w[all[k]] /\ w[all[k]] \in Nat
        /\ \A k \in 1..m : Weighed(new, w)[k] = w[new[k]] /\ w[new[k]] \in Nat
        /\ \A k \in 1..(n + m) : Weighed(both, w)[k] = w[both[k]]
    <2>1. \A k \in DOMAIN all : Weighed(all, w)[k] = w[all[k]] /\ w[all[k]] \in Nat
      BY WeighedIs
    <2>2. \A k \in DOMAIN new : Weighed(new, w)[k] = w[new[k]] /\ w[new[k]] \in Nat
      BY WeighedIs
    <2>3. \A k \in DOMAIN both : Weighed(both, w)[k] = w[both[k]]
      BY DEF Weighed
    <2> QED
      BY <1>1, <2>1, <2>2, <2>3
  <1>3. \A k \in 1..n : k \in 1..(n + m) /\ 0 + k = k
    BY <1>1
  <1>4. \A k \in 1..m : n + k \in 1..(n + m)
    BY <1>1
  <1>5. Shifted(Weighed(all, w), Weighed(both, w), 0, n)
    BY <1>1, <1>2, <1>3 DEF Shifted
  <1>6. \A k \in 1..m : Weighed(new, w)[k] \in Int /\ Weighed(both, w)[n + k] = Weighed(new, w)[k]
    <2> TAKE k \in 1..m
    <2>1. Weighed(both, w)[n + k] = w[both[n + k]]
      BY <1>2, <1>4
    <2>2. both[n + k] = new[k] /\ Weighed(new, w)[k] = w[new[k]] /\ w[new[k]] \in Nat
      BY <1>1, <1>2
    <2> QED
      BY ONLY <2>1, <2>2
  <1>7. Shifted(Weighed(new, w), Weighed(both, w), n, m)
    BY <1>6 DEF Shifted
  <1>8. SumFunctionOnSet(Weighed(both, w), 1..(n + m))
          = SumFunctionOnSet(Weighed(all, w), 1..n) + SumFunctionOnSet(Weighed(new, w), 1..m)
    BY <1>1, <1>5, <1>7, SumConcat
  <1> QED
    BY <1>1, <1>8 DEF Weigh, both

LEMMA WeighOne ==
  ASSUME NEW l \in KeptLots, NEW w \in [KeptLots -> Nat]
  PROVE  <<l>> \in Seq(KeptLots) /\ Weigh(<<l>>, w) = w[l]
PROOF
  <1> DEFINE one == <<l>>
             f == Weighed(one, w)
  <1>1. one \in Seq(KeptLots) /\ DOMAIN one = {1} /\ one[1] = l
    OBVIOUS
  <1>2. f[1] = w[l] /\ w[l] \in Int
    BY <1>1 DEF Weighed
  <1> HIDE DEF f, one
  <1>3. IsFiniteSet({}) /\ 1 \notin {} /\ \A k \in {} \cup {1} : f[k] \in Int
    BY <1>2, FS_EmptySet
  <1>4. SumFunctionOnSet(f, {} \cup {1}) = SumFunctionOnSet(f, {}) + f[1]
    BY ONLY <1>3, SumAdd
  <1>5. {} \cup {1} = {1} /\ SumFunctionOnSet(f, {}) = 0
    BY SumEmpty
  <1> QED
    BY <1>1, <1>2, <1>4, <1>5 DEF Weigh, f, one

\* A sum over a set taken in order.
LEMMA SumInTurn ==
  ASSUME NEW S, IsFiniteSet(S), S \subseteq Int, NEW order \in Ascending(S), NEW t, NEW part,
         \A k \in S : t[k] \in Int,
         \A j \in 1..Len(order) : part[j] = t[order[j]]
  PROVE  /\ Len(order) \in Nat /\ DOMAIN order = 1..Len(order)
         /\ \A j \in 1..Len(order) : order[j] \in S
         /\ SumFunctionOnSet(part, 1..Len(order)) = SumFunctionOnSet(t, S)
PROOF
  <1> DEFINE L == Len(order)
  <1>1. /\ order \in Seq(S) /\ L \in Nat /\ DOMAIN order = 1..L
        /\ \A q \in S : \E k \in 1..L : order[k] = q
        /\ \A j, k \in 1..L : order[j] = order[k] => j = k
    <2>1. order \in Seq(S) /\ L \in Nat /\ DOMAIN order = 1..L
      BY InOrderOf
    <2>2. /\ \A q \in S : \E k \in 1..L : order[k] = q
          /\ \A j, k \in 1..L : order[j] = order[k] => j = k
      BY AllInOrder
    <2> QED
      BY <2>1, <2>2
  <1> DEFINE To(m) == {order[k] : k \in 1..m}
             W == {m \in Nat : m <= L => SumFunctionOnSet(part, 1..m) = SumFunctionOnSet(t, To(m))}
  <1>2. \A k \in 1..L : order[k] \in S
    BY <1>1
  <1>3. \A k \in 1..L : part[k] = t[order[k]] /\ part[k] \in Int
    BY <1>2 DEF L
  <1> HIDE DEF L
  <1>4. 0 \in W
    <2>1. 1..0 = {} /\ To(0) = {}
      OBVIOUS
    <2> HIDE DEF To
    <2> QED
      BY <2>1, SumEmpty
  <1>5. ASSUME NEW m \in Nat, m \in W PROVE m + 1 \in W
    <2> SUFFICES ASSUME m + 1 <= L
                 PROVE  SumFunctionOnSet(part, 1..(m + 1)) = SumFunctionOnSet(t, To(m + 1))
      OBVIOUS
    <2> DEFINE p == m + 1
               a == order[p]
    <2>1. /\ 1..p = 1..m \cup {p} /\ p \notin 1..m /\ 1..p \subseteq 1..L /\ p \in 1..L
          /\ 1..m \subseteq 1..L
      BY <1>1
    <2>2. To(p) = To(m) \cup {a}
      BY <2>1
    <2>3. a \notin To(m)
      BY <1>1, <2>1
    <2>4. To(m) \subseteq S /\ a \in S
      BY <1>2, <2>1
    <2>5. IsFiniteSet(To(m)) /\ IsFiniteSet(1..m)
      BY <2>4, FS_Subset, FS_Interval
    <2>6. \A r \in To(m) \cup {a} : t[r] \in Int
      BY <2>4
    <2>7. \A k \in 1..m \cup {p} : part[k] \in Int
      BY <1>3, <2>1
    <2>8. SumFunctionOnSet(part, 1..m) = SumFunctionOnSet(t, To(m)) /\ part[p] = t[a]
      <3>1. part[p] = t[a] /\ m <= L
        BY <1>3, <2>1, <1>1
      <3> HIDE DEF To, p, a
      <3> QED
        BY <1>5, <3>1
    <2> HIDE DEF To, p, a
    <2>9. SumFunctionOnSet(part, 1..m \cup {p}) = SumFunctionOnSet(part, 1..m) + part[p]
      BY <2>1, <2>5, <2>7, SumAdd
    <2>10. SumFunctionOnSet(t, To(m) \cup {a}) = SumFunctionOnSet(t, To(m)) + t[a]
      BY <2>3, <2>5, <2>6, SumAdd
    <2> QED
      BY <2>1, <2>2, <2>8, <2>9, <2>10 DEF p
  <1>6. To(L) = S
    BY <1>1, <1>2
  <1> HIDE DEF To
  <1>7. L \in W
    <2> HIDE DEF W
    <2> QED
      BY <1>1, <1>4, <1>5, CountUp
  <1>8. SumFunctionOnSet(part, 1..L) = SumFunctionOnSet(t, S)
    BY <1>1, <1>6, <1>7
  <1> QED
    BY <1>1, <1>2, <1>8 DEF L

\* A lot that is there names a note that was received, by its line; what is
\* left of it is where the note is.
LotKnown(l, all) ==
  ~l.gone => /\ l.note \in Notes /\ all[l.note].status = "received" /\ l.item = all[l.note].item
             /\ l.in > 0 /\ (l.left > 0 => l.branch = all[l.note].branch)

LotsNamed == \A k \in DOMAIN lots : LotKnown(lots[k], notes)
Brought(note) == IF note.status = "received" THEN note.total ELSE 0
AllBrought == \A r \in Notes : Weigh(lots, InOf(r)) = Brought(notes[r])
Shelved == \A b \in Branches : shelf[b] = Weigh(lots, LeftAt(b))
Stocked == stock = SumFunctionOnSet(shelf, Branches)

GoodsTold == LotsNamed /\ AllBrought /\ Shelved /\ Stocked

LEMMA LeftInIs ==
  ASSUME GoodsTyped, NEW set \in SUBSET DOMAIN lots
  PROVE  /\ LeftIn(set) = SumFunctionOnSet(Lefts(lots), set) /\ LeftIn(set) \in Nat
         /\ IsFiniteSet(set) /\ \A k \in set : Lefts(lots)[k] = lots[k].left /\ lots[k].left \in Nat
PROOF
  <1> DEFINE f == [k \in set |-> lots[k].left]
             g == Lefts(lots)
  <1>1. IsFiniteSet(set) /\ \A k \in set : lots[k].left \in Nat
    BY LotsInPlace, FS_Subset
  <1>2. \A k \in set : f[k] = lots[k].left /\ g[k] = lots[k].left
    BY DEF Lefts
  <1>3. DOMAIN f = set /\ LeftIn(set) = SumFunction(f)
    BY DEF LeftIn
  <1> HIDE DEF f, g
  <1>4. SumFunctionOnSet(f, set) = SumFunctionOnSet(g, set)
    BY <1>1, <1>2, SumEqual
  <1>5. SumFunctionOnSet(g, set) \in Nat
    BY <1>1, <1>2, SumNat
  <1> QED
    BY <1>1, <1>2, <1>3, <1>4, <1>5 DEF SumFunction, g

\* A delivery to a shelf that nothing was sold ahead of is not trimmed.
LEMMA TrimNothing ==
  ASSUME NEW all \in Seq(KeptLots), NEW b, NEW onHand \in Nat, Weigh(all, LeftAt(b)) <= onHand
  PROVE  Trimmed(all, b, onHand) = all
PROOF
  <1> DEFINE held(set) == SumFunction([k \in set |-> all[k].left])
             here == {k \in DOMAIN all : ~all[k].gone /\ all[k].branch = b}
             excess == OrZero(held(here) - OrZero(onHand))
             cut(k) == Least(all[k].left, OrZero(excess - held({j \in here : j < k})))
             after(k) == IF k \in here THEN [all[k] EXCEPT !.left = @ - cut(k), !.off = @ + cut(k)]
                         ELSE all[k]
             w == LeftAt(b)
  <1>1. /\ w \in [KeptLots -> Nat] /\ IsFiniteSet(DOMAIN all) /\ DOMAIN all = 1..Len(all)
        /\ \A k \in DOMAIN all : Weighed(all, w)[k] = w[all[k]]
        /\ Weigh(all, w) \in Nat /\ Weigh(all, w) <= onHand
    BY WeightsAre, WeighedIs
  <1>2. \A k \in DOMAIN all : all[k] \in KeptLots
    OBVIOUS
  <1>3. \A k \in DOMAIN all : all[k].left \in Nat
    BY <1>2, LotFields
  <1>4. \A k \in DOMAIN all : held({j \in here : j < k}) \in Nat
    <2> TAKE k \in DOMAIN all
    <2>1. IsFiniteSet({j \in here : j < k})
      BY <1>1, FS_Subset
    <2> QED
      BY <2>1, <1>3, HeldIsNumber
  <1>5. held(here) = Weigh(all, w)
    <2> DEFINE f == [k \in here |-> all[k].left]
    <2>1. here \in SUBSET DOMAIN all /\ DOMAIN f = here
      OBVIOUS
    <2>2. \A k \in DOMAIN all : w[all[k]] = IF k \in here THEN all[k].left ELSE 0
      BY <1>2 DEF LeftAt
    <2>3. \A k \in here : f[k] = all[k].left
      OBVIOUS
    <2>4. held(here) = SumFunction(f)
      OBVIOUS
    <2> HIDE DEF f, here, w
    <2>5. \A k \in here : f[k] \in Int /\ Weighed(all, w)[k] = f[k]
      BY <1>1, <1>3, <2>1, <2>2, <2>3
    <2>6. \A k \in DOMAIN all \ here : Weighed(all, w)[k] = 0
      BY <1>1, <2>2
    <2>7. SumFunctionOnSet(Weighed(all, w), DOMAIN all) = SumFunctionOnSet(f, here)
      BY <1>1, <2>1, <2>5, <2>6, SumSupport
    <2> QED
      BY <2>1, <2>4, <2>7 DEF SumFunction, Weigh
  <1> HIDE DEF held, w
  <1>6. excess = 0
    BY <1>1, <1>5 DEF OrZero
  <1>7. \A k \in DOMAIN all : cut(k) = 0
    BY <1>3, <1>4, <1>6 DEF Least, OrZero
  <1>10. Trimmed(all, b, onHand) = [k \in DOMAIN all |-> after(k)]
    BY DEF Trimmed, held
  <1> HIDE DEF cut, excess, here
  <1>8. \A k \in DOMAIN all : after(k) = all[k]
    <2> TAKE k \in DOMAIN all
    <2> DEFINE l == all[k]
               c == cut(k)
    <2>1. l \in KeptLots /\ c = 0
      BY <1>2, <1>7
    <2> HIDE DEF l, c
    <2>2. l \in LotSet /\ l.left - c = l.left /\ l.off + c = l.off
      BY <2>1, LotFields DEF KeptLots
    <2>3. [l EXCEPT !.left = l.left - c, !.off = l.off + c] = l
      BY <2>2 DEF LotSet
    <2> QED
      BY <2>3 DEF l, c
  <1> HIDE DEF after
  <1>9. all = [k \in DOMAIN all |-> all[k]]
    OBVIOUS
  <1> QED
    BY <1>8, <1>9, <1>10

\* One shelf's quantity moves.
LEMMA OneShelf ==
  ASSUME NEW f, NEW g, NEW b \in Branches, \A c \in Branches : f[c] \in Int /\ g[c] \in Int,
         \A c \in Branches \ {b} : f[c] = g[c]
  PROVE  /\ SumFunctionOnSet(g, Branches) = SumFunctionOnSet(f, Branches) - f[b] + g[b]
         /\ SumFunctionOnSet(f, Branches) \in Int /\ SumFunctionOnSet(g, Branches) \in Int
PROOF
  <1>1. IsFiniteSet(Branches)
    BY DeliveryAssumption
  <1> QED
    BY <1>1, SumChange, SumInt

\* A note that was not received is received: its goods come onto its shelf.
LEMMA ShelfGains ==
  ASSUME GoodsTyped, GoodsTold, NEW r \in Notes, NEW item \in Nat, NEW b \in Branches, NEW q \in Nat,
         q > 0, PutOnShelf(r, item, b, q), notes[r].status # "received",
         notes'[r].status = "received", notes'[r].item = item, notes'[r].branch = b,
         notes'[r].total = q, \A p \in Notes \ {r} : notes'[p] = notes[p]
  PROVE  GoodsTold'
PROOF
  <1> DEFINE l == Lot(r, item, b, q)
             all == lots \o <<l>>
  <1>1. /\ LotsNamed /\ AllBrought /\ Shelved /\ Stocked
        /\ lots \in Seq(KeptLots) /\ shelf \in [Branches -> Int] /\ stock \in Int
    BY DEF GoodsTold, GoodsTyped
  <1>2. l \in KeptLots
    <2>1. r \in Nat /\ b \in Places
      BY SupplierAssumption DEF Places
    <2> QED
      BY <2>1, FreshLot
  <1>3. /\ l.note = r /\ l.item = item /\ l.branch = b /\ l.in = q /\ l.left = q /\ l.gone = FALSE
        /\ \A p : InOf(p)[l] = IF p = r THEN q ELSE 0
        /\ \A c : LeftAt(c)[l] = IF c = b THEN q ELSE 0
    <2>1. /\ l.note = r /\ l.item = item /\ l.branch = b /\ l.in = q /\ l.left = q /\ l.gone = FALSE
      BY DEF Lot
    <2> HIDE DEF l
    <2> QED
      BY <1>2, <2>1 DEF InOf, LeftAt
  <1>4. lots' = Trimmed(Append(lots, l), b, shelf[b] + q)
    BY DEF PutOnShelf
  <1> HIDE DEF l
  <1>5. <<l>> \in Seq(KeptLots) /\ all \in Seq(KeptLots) /\ all = Append(lots, l)
    BY <1>1, <1>2
  <1>6. \A w \in [KeptLots -> Nat] : /\ Weigh(all, w) = Weigh(lots, w) + w[l] /\ Weigh(lots, w) \in Nat
    <2> TAKE w \in [KeptLots -> Nat]
    <2>1. Weigh(all, w) = Weigh(lots, w) + Weigh(<<l>>, w)
      BY <1>1, <1>5, WeighJoin
    <2>2. Weigh(<<l>>, w) = w[l] /\ Weigh(lots, w) \in Nat
      BY <1>1, <1>2, WeighOne, WeighedIs
    <2> QED
      BY <2>1, <2>2
  <1> HIDE DEF all
  <1>7. lots' = all
    <2>1. shelf[b] = Weigh(lots, LeftAt(b)) /\ LeftAt(b) \in [KeptLots -> Nat]
      BY <1>1, WeightsAre DEF Shelved
    <2>2. shelf[b] + q \in Nat /\ Weigh(all, LeftAt(b)) <= shelf[b] + q
      BY <1>3, <1>6, <2>1
    <2> QED
      BY <1>4, <1>5, <2>2, TrimNothing
  <1>8. LotsNamed'
    <2> SUFFICES ASSUME NEW k \in DOMAIN lots' PROVE LotKnown(lots'[k], notes')
      BY DEF LotsNamed
    <2>1. CASE k \in DOMAIN lots
      <3>1. lots'[k] = lots[k] /\ LotKnown(lots[k], notes)
        BY <1>1, <1>5, <1>7, <2>1 DEF LotsNamed
      <3> QED
        BY <3>1 DEF LotKnown
    <2>2. CASE k \notin DOMAIN lots
      <3>1. lots'[k] = l
        BY <1>1, <1>5, <1>7, <2>2
      <3> QED
        BY <1>3, <3>1 DEF LotKnown
    <2> QED
      BY <2>1, <2>2
  <1>9. AllBrought'
    <2> SUFFICES ASSUME NEW p \in Notes
                 PROVE  Weigh(lots', InOf(p)) = Brought(notes'[p])
      BY DEF AllBrought
    <2>1. /\ Weigh(lots', InOf(p)) = Weigh(lots, InOf(p)) + InOf(p)[l]
          /\ Weigh(lots, InOf(p)) \in Nat /\ Weigh(lots, InOf(p)) = Brought(notes[p])
      BY <1>1, <1>6, <1>7, WeightsAre DEF AllBrought
    <2>2. CASE p = r
      BY <1>3, <2>1, <2>2 DEF Brought
    <2>3. CASE p # r
      BY <1>3, <2>1, <2>3
    <2> QED
      BY <2>2, <2>3
  <1>10. shelf' = [shelf EXCEPT ![b] = @ + q] /\ stock' = stock + q
    BY DEF PutOnShelf
  <1>11. \A c \in Branches : shelf'[c] = IF c = b THEN shelf[c] + q ELSE shelf[c]
    BY <1>1, <1>10
  <1>12. Shelved'
    <2> SUFFICES ASSUME NEW c \in Branches PROVE shelf'[c] = Weigh(lots', LeftAt(c))
      BY DEF Shelved
    <2>1. /\ Weigh(lots', LeftAt(c)) = Weigh(lots, LeftAt(c)) + LeftAt(c)[l]
          /\ Weigh(lots, LeftAt(c)) \in Nat /\ Weigh(lots, LeftAt(c)) = shelf[c]
      BY <1>1, <1>6, <1>7, WeightsAre DEF Shelved
    <2> QED
      BY <1>3, <1>11, <2>1
  <1>13. Stocked'
    <2>1. \A c \in Branches : shelf[c] \in Int /\ shelf'[c] \in Int
      BY <1>1, <1>11
    <2>2. \A c \in Branches \ {b} : shelf[c] = shelf'[c]
      BY <1>11
    <2>3. /\ SumFunctionOnSet(shelf', Branches) = SumFunctionOnSet(shelf, Branches) - shelf[b] + shelf'[b]
          /\ SumFunctionOnSet(shelf, Branches) \in Int
      BY <2>1, <2>2, OneShelf
    <2> QED
      BY <1>1, <1>10, <1>11, <2>1, <2>3 DEF Stocked
  <1> QED
    BY <1>8, <1>9, <1>12, <1>13 DEF GoodsTold

\* Units leave one shelf, out of lots that stand there.
LEMMA ShelfLoses ==
  ASSUME GoodsTyped, GoodsTold, lots' \in Seq(KeptLots), DOMAIN lots' = DOMAIN lots,
         NEW b \in Branches, NEW q \in Nat, NEW which \in SUBSET DOMAIN lots,
         \A k \in which : ~lots[k].gone /\ (lots[k].left > 0 => lots[k].branch = b),
         q <= LeftIn(which),
         \A k \in DOMAIN lots :
           /\ lots'[k].left = lots[k].left - Take(k, which, q)
           /\ lots'[k].note = lots[k].note /\ lots'[k].item = lots[k].item
           /\ lots'[k].branch = lots[k].branch /\ lots'[k].in = lots[k].in
           /\ lots'[k].gone = lots[k].gone,
         \A c \in Branches : shelf'[c] = IF c = b THEN shelf[c] - q ELSE shelf[c],
         stock' = stock - q,
         \A r \in Notes : /\ notes'[r].status = notes[r].status /\ notes'[r].total = notes[r].total
                          /\ notes'[r].item = notes[r].item /\ notes'[r].branch = notes[r].branch
  PROVE  GoodsTold'
PROOF
  <1> DEFINE S == DOMAIN lots
             t == [k \in S |-> Take(k, which, q)]
             f == Lefts(lots)
  <1>1. /\ LotsNamed /\ AllBrought /\ Shelved /\ Stocked
        /\ lots \in Seq(KeptLots) /\ shelf \in [Branches -> Int] /\ stock \in Int
    BY DEF GoodsTold, GoodsTyped
  <1>2. /\ S = 1..Len(lots) /\ Len(lots) \in Nat /\ IsFiniteSet(S)
        /\ \A k \in S : lots[k] \in KeptLots /\ lots[k].left \in Nat /\ lots'[k] \in KeptLots
    BY LotsInPlace
  <1>3. \A k \in S : t[k] = Take(k, which, q) /\ t[k] \in 0..lots[k].left /\ (k \notin which => t[k] = 0)
    BY TakenIsLeft
  <1>4. \A set \in SUBSET S : LeftIn(set) = SumFunctionOnSet(f, set)
    BY LeftInIs
  <1>5. LeftIn(which) \in Nat /\ IsFiniteSet(which) /\ \A k \in which : f[k] = lots[k].left /\ f[k] \in Nat
    BY LeftInIs
  <1> HIDE DEF f, t
  <1>6. SumFunctionOnSet(t, which) = q
    <2>1. \A k \in which : t[k] = Least(f[k], OrZero(q - SumFunctionOnSet(f, {j \in which : j < k})))
      <3> TAKE k \in which
      <3>1. {j \in which : j < k} \in SUBSET S
        OBVIOUS
      <3>2. LeftIn({j \in which : j < k}) = SumFunctionOnSet(f, {j \in which : j < k})
        BY <1>4, <3>1
      <3>3. k \in S
        OBVIOUS
      <3> QED
        BY <1>3, <1>5, <3>2, <3>3 DEF Take
    <2>2. which \in SUBSET (1..Len(lots)) /\ \A k \in which : f[k] \in Nat
      BY <1>2, <1>5
    <2>3. SumFunctionOnSet(t, which) = Least(q, SumFunctionOnSet(f, which))
      BY <1>2, <2>1, <2>2, TakenInAll
    <2>4. q <= SumFunctionOnSet(f, which)
      BY <1>4
    <2> QED
      BY <1>4, <1>5, <2>3, <2>4 DEF Least
  <1>7. SumFunctionOnSet(t, S) = q
    <2>1. \A k \in which : t[k] \in Int /\ t[k] = t[k]
      BY <1>2, <1>3
    <2>2. \A k \in S \ which : t[k] = 0
      BY <1>3
    <2>3. SumFunctionOnSet(t, S) = SumFunctionOnSet(t, which)
      BY ONLY <1>2, <2>1, <2>2, which \in SUBSET S, SumSupport
    <2> QED
      BY <1>6, <2>3
  <1>8. ASSUME NEW k \in S
        PROVE  /\ \A r : InOf(r)[lots'[k]] = InOf(r)[lots[k]]
               /\ \A c \in Branches \ {b} : LeftAt(c)[lots'[k]] = LeftAt(c)[lots[k]]
               /\ LeftAt(b)[lots'[k]] = LeftAt(b)[lots[k]] - t[k] /\ t[k] \in Int
    <2> DEFINE l == lots[k]
               m == lots'[k]
               x == t[k]
    <2>1. /\ l \in KeptLots /\ m \in KeptLots /\ l.left \in Nat /\ x \in 0..l.left
          /\ m.left = l.left - x /\ m.note = l.note /\ m.branch = l.branch /\ m.in = l.in
          /\ m.gone = l.gone
      BY <1>2, <1>3
    <2>2. x > 0 => ~l.gone /\ l.branch = b
      BY <1>2, <1>3
    <2> HIDE DEF l, m, x
    <2>3. x \in Nat /\ x <= l.left
      BY <2>1
    <2>4. \A r : InOf(r)[m] = InOf(r)[l]
      BY <2>1 DEF InOf
    <2>5. LeftAt(b)[m] = LeftAt(b)[l] - x
      BY <2>1, <2>2, <2>3 DEF LeftAt
    <2>6. \A c \in Branches \ {b} : LeftAt(c)[m] = LeftAt(c)[l]
      BY <2>1, <2>2, <2>3 DEF LeftAt
    <2> QED
      BY <2>3, <2>4, <2>5, <2>6 DEF l, m, x
  <1>9. LotsNamed'
    <2> SUFFICES ASSUME NEW k \in S PROVE LotKnown(lots'[k], notes')
      BY DEF LotsNamed
    <2>1. LotKnown(lots[k], notes)
      BY <1>1 DEF LotsNamed
    <2>2. lots'[k].left > 0 => lots[k].left > 0
      BY <1>2, <1>3
    <2> QED
      BY <2>1, <2>2 DEF LotKnown
  <1>10. AllBrought'
    <2> SUFFICES ASSUME NEW r \in Notes PROVE Weigh(lots', InOf(r)) = Brought(notes'[r])
      BY DEF AllBrought
    <2>1. InOf(r) \in [KeptLots -> Nat] /\ \A k \in S : InOf(r)[lots'[k]] = InOf(r)[lots[k]]
      BY <1>8, WeightsAre
    <2>2. Weigh(lots', InOf(r)) = Weigh(lots, InOf(r))
      BY <1>1, <2>1, WeighSame
    <2> QED
      BY <1>1, <2>2 DEF AllBrought, Brought
  <1>11. Shelved'
    <2> SUFFICES ASSUME NEW c \in Branches PROVE shelf'[c] = Weigh(lots', LeftAt(c))
      BY DEF Shelved
    <2>1. LeftAt(c) \in [KeptLots -> Nat] /\ shelf[c] = Weigh(lots, LeftAt(c))
      BY <1>1, WeightsAre DEF Shelved
    <2>2. CASE c = b
      <3>1. \A k \in S : t[k] \in Int /\ LeftAt(c)[lots'[k]] = LeftAt(c)[lots[k]] - t[k]
        BY <1>8, <2>2
      <3>2. Weigh(lots', LeftAt(c)) = Weigh(lots, LeftAt(c)) - SumFunctionOnSet(t, S)
        BY <1>1, <2>1, <3>1, WeighChange
      <3> QED
        BY <1>7, <2>1, <2>2, <3>2
    <2>3. CASE c # b
      <3>1. \A k \in S : LeftAt(c)[lots'[k]] = LeftAt(c)[lots[k]]
        BY <1>8, <2>3
      <3>2. Weigh(lots', LeftAt(c)) = Weigh(lots, LeftAt(c))
        BY <1>1, <2>1, <3>1, WeighSame
      <3> QED
        BY <2>1, <2>3, <3>2
    <2> QED
      BY <2>2, <2>3
  <1>12. Stocked'
    <2>1. \A c \in Branches : shelf[c] \in Int /\ shelf'[c] \in Int
      BY <1>1
    <2>2. \A c \in Branches \ {b} : shelf[c] = shelf'[c]
      OBVIOUS
    <2>3. /\ SumFunctionOnSet(shelf', Branches) = SumFunctionOnSet(shelf, Branches) - shelf[b] + shelf'[b]
          /\ SumFunctionOnSet(shelf, Branches) \in Int
      BY ONLY <2>1, <2>2, b \in Branches, OneShelf
    <2> QED
      BY <1>1, <2>1, <2>3 DEF Stocked
  <1> QED
    BY <1>9, <1>10, <1>11, <1>12 DEF GoodsTold

\* A received note's goods are all there, and leave with it.
LEMMA ShelfCleared ==
  ASSUME GoodsTyped, NotesTyped, GoodsTold, NEW r \in Notes, notes[r].status = "received",
         LotsWhole(LotsOf(r, notes[r].item)), OffShelf(r, notes[r].item, notes[r].total),
         notes'[r].status # "received", \A p \in Notes \ {r} : notes'[p] = notes[p]
  PROVE  GoodsTold'
PROOF
  <1> DEFINE S == DOMAIN lots
             which == LotsOf(r, notes[r].item)
             b == notes[r].branch
             q == notes[r].total
             d == Weighed(lots, InOf(r))
  <1>1. /\ LotsNamed /\ AllBrought /\ Shelved /\ Stocked
        /\ lots \in Seq(KeptLots) /\ shelf \in [Branches -> Int] /\ stock \in Int
        /\ IsFiniteSet(S) /\ \A k \in S : lots[k] \in KeptLots
    BY LotsInPlace DEF GoodsTold, GoodsTyped
  <1>2. q \in Nat /\ b \in Branches
    BY DEF NotesTyped, NoteSet, NoteFields
  <1>3. \A k \in S : LotKnown(lots[k], notes)
    BY <1>1 DEF LotsNamed
  <1>4. \A k \in S : k \in which <=> ~lots[k].gone /\ lots[k].note = r
    BY <1>3 DEF LotsOf, LotKnown
  <1>5. \A k \in which : k \in S /\ lots[k].left = lots[k].in /\ lots[k].in > 0 /\ lots[k].branch = b
    BY <1>3, <1>4 DEF LotKnown, LotsWhole, LotsOf
  <1>6. /\ shelf' = [shelf EXCEPT ![b] = OrZero(@ - q)] /\ stock' = OrZero(stock - q)
        /\ lots' = [k \in S |-> IF k \in which THEN [lots[k] EXCEPT !.gone = TRUE] ELSE lots[k]]
    BY <1>5 DEF OffShelf
  <1>7. lots' \in Seq(KeptLots) /\ DOMAIN lots' = S
    BY <1>6, DroppedLots
  <1>8. \A k \in S : /\ lots'[k] \in KeptLots
                     /\ k \in which => lots'[k].gone
                     /\ k \notin which => lots'[k] = lots[k]
    <2> TAKE k \in S
    <2>1. lots'[k] \in KeptLots
      BY <1>7
    <2>2. lots[k] \in KeptLots
      BY <1>1
    <2> QED
      BY <1>6, <2>1, <2>2 DEF KeptLots, LotSet
  <1>9. d = Weighed(lots, InOf(r)) /\ \A k \in S : d[k] = InOf(r)[lots[k]] /\ d[k] \in Nat
    <2>1. InOf(r) \in [KeptLots -> Nat]
      BY WeightsAre
    <2>2. \A k \in S : /\ Weighed(lots, InOf(r))[k] = InOf(r)[lots[k]]
                       /\ InOf(r)[lots[k]] \in Nat
      BY <1>1, <2>1, WeighedIs
    <2> QED
      BY <2>2
  <1>10. SumFunctionOnSet(d, S) = q
    BY <1>1, <1>9 DEF AllBrought, Brought, Weigh
  <1> HIDE DEF which, b, q, d
  <1>11. ASSUME NEW k \in S
         PROVE  /\ InOf(r)[lots'[k]] = InOf(r)[lots[k]] - d[k]
                /\ \A p \in Notes \ {r} : InOf(p)[lots'[k]] = InOf(p)[lots[k]]
                /\ LeftAt(b)[lots'[k]] = LeftAt(b)[lots[k]] - d[k]
                /\ \A c \in Branches \ {b} : LeftAt(c)[lots'[k]] = LeftAt(c)[lots[k]]
    <2> DEFINE l == lots[k]
               m == lots'[k]
               x == d[k]
    <2>1. /\ l \in KeptLots /\ m \in KeptLots /\ x = InOf(r)[l]
          /\ x = IF ~l.gone /\ l.note = r THEN l.in ELSE 0
      BY <1>1, <1>8, <1>9 DEF InOf
    <2>5. l.in \in Nat /\ l.left \in Nat
      BY <2>1, LotFields
    <2>2. CASE k \in which
      <3>1. /\ ~l.gone /\ l.note = r /\ l.left = l.in /\ l.branch = b /\ m.gone /\ x = l.in
        BY <1>4, <1>5, <1>8, <2>1, <2>2
      <3> HIDE DEF l, m, x
      <3>2. InOf(r)[m] = 0 /\ InOf(r)[l] = l.in /\ LeftAt(b)[m] = 0 /\ LeftAt(b)[l] = l.in
        BY <2>1, <3>1 DEF InOf, LeftAt
      <3>3. \A p \in Notes \ {r} : InOf(p)[m] = InOf(p)[l]
        BY <2>1, <3>1 DEF InOf
      <3>4. \A c \in Branches \ {b} : LeftAt(c)[m] = LeftAt(c)[l]
        BY <2>1, <3>1 DEF LeftAt
      <3> QED
        BY <2>5, <3>1, <3>2, <3>3, <3>4 DEF l, m, x
    <2>3. CASE k \notin which
      <3>1. m = l /\ x = 0
        BY <1>4, <1>8, <2>1, <2>3
      <3>2. InOf(r)[l] \in Nat /\ LeftAt(b)[l] \in Nat
        BY <2>1, WeightsAre
      <3> HIDE DEF l, m, x
      <3>3. InOf(r)[m] = InOf(r)[l] - x /\ LeftAt(b)[m] = LeftAt(b)[l] - x
        BY <3>1, <3>2
      <3> QED
        BY <3>1, <3>3 DEF l, m, x
    <2> QED
      BY <2>2, <2>3
  <1>12. LotsNamed'
    <2> SUFFICES ASSUME NEW k \in S PROVE LotKnown(lots'[k], notes')
      BY <1>7 DEF LotsNamed
    <2>1. CASE k \in which
      BY <1>8, <2>1 DEF LotKnown
    <2>2. CASE k \notin which
      BY <1>3, <1>4, <1>8, <2>2 DEF LotKnown
    <2> QED
      BY <2>1, <2>2
  <1>13. AllBrought'
    <2> SUFFICES ASSUME NEW p \in Notes PROVE Weigh(lots', InOf(p)) = Brought(notes'[p])
      BY DEF AllBrought
    <2>1. InOf(p) \in [KeptLots -> Nat] /\ Weigh(lots, InOf(p)) = Brought(notes[p])
      BY <1>1, WeightsAre DEF AllBrought
    <2>2. CASE p = r
      <3>1. \A k \in S : d[k] \in Int /\ InOf(p)[lots'[k]] = InOf(p)[lots[k]] - d[k]
        BY <1>9, <1>11, <2>2
      <3>2. Weigh(lots', InOf(p)) = Weigh(lots, InOf(p)) - SumFunctionOnSet(d, S)
        BY <1>1, <1>7, <2>1, <3>1, WeighChange
      <3>3. Brought(notes[p]) = q /\ Brought(notes'[p]) = 0
        BY <2>2 DEF Brought, q
      <3> QED
        BY <1>2, <1>10, <2>1, <3>2, <3>3 DEF q
    <2>3. CASE p # r
      <3>1. \A k \in S : InOf(p)[lots'[k]] = InOf(p)[lots[k]]
        BY <1>11, <2>3
      <3>2. Weigh(lots', InOf(p)) = Weigh(lots, InOf(p))
        BY <1>1, <1>7, <2>1, <3>1, WeighSame
      <3> QED
        BY <2>1, <2>3, <3>2
    <2> QED
      BY <2>2, <2>3
  <1>14. q \in Nat /\ b \in Branches
    BY <1>2 DEF q, b
  <1>15. \A c \in Branches : shelf[c] = Weigh(lots, LeftAt(c)) /\ shelf[c] \in Nat
    BY <1>1, WeightsAre, WeighedIs DEF Shelved
  <1>16. Weigh(lots', LeftAt(b)) = shelf[b] - q /\ shelf[b] - q \in Nat
    <2>1. LeftAt(b) \in [KeptLots -> Nat]
      BY WeightsAre
    <2>2. \A k \in S : d[k] \in Int /\ LeftAt(b)[lots'[k]] = LeftAt(b)[lots[k]] - d[k]
      BY <1>9, <1>11
    <2>3. Weigh(lots', LeftAt(b)) = Weigh(lots, LeftAt(b)) - SumFunctionOnSet(d, S)
      BY <1>1, <1>7, <2>1, <2>2, WeighChange
    <2>4. Weigh(lots', LeftAt(b)) \in Nat
      BY <1>7, <2>1, WeighedIs
    <2> QED
      BY <1>10, <1>14, <1>15, <2>3, <2>4
  <1>17. \A c \in Branches : shelf'[c] = IF c = b THEN shelf[c] - q ELSE shelf[c]
    BY <1>1, <1>6, <1>14, <1>16 DEF OrZero
  <1>18. Shelved'
    <2> SUFFICES ASSUME NEW c \in Branches PROVE shelf'[c] = Weigh(lots', LeftAt(c))
      BY DEF Shelved
    <2>1. CASE c = b
      BY <1>16, <1>17, <2>1
    <2>2. CASE c # b
      <3>1. LeftAt(c) \in [KeptLots -> Nat] /\ \A k \in S : LeftAt(c)[lots'[k]] = LeftAt(c)[lots[k]]
        BY <1>11, <2>2, WeightsAre
      <3>2. Weigh(lots', LeftAt(c)) = Weigh(lots, LeftAt(c))
        BY <1>1, <1>7, <3>1, WeighSame
      <3> QED
        BY <1>15, <1>17, <2>2, <3>2
    <2> QED
      BY <2>1, <2>2
  <1>19. Stocked'
    <2>1. \A c \in Branches : shelf[c] \in Int /\ shelf'[c] \in Int
      BY <1>14, <1>15, <1>17
    <2>2. \A c \in Branches \ {b} : shelf[c] = shelf'[c]
      BY <1>17
    <2>3. /\ SumFunctionOnSet(shelf', Branches) = SumFunctionOnSet(shelf, Branches) - shelf[b] + shelf'[b]
          /\ SumFunctionOnSet(shelf, Branches) \in Int
      BY <1>14, <2>1, <2>2, OneShelf
    <2>4. shelf[b] <= SumFunctionOnSet(shelf, Branches)
      BY <1>14, <1>15, DeliveryAssumption, SumMember
    <2> QED
      BY <1>1, <1>6, <1>14, <1>15, <1>16, <1>17, <2>3, <2>4 DEF Stocked, OrZero
  <1> QED
    BY <1>12, <1>13, <1>18, <1>19 DEF GoodsTold

\* The lots of a note that change their branch, and those sold in part.
Leaving(r, from) == {k \in LotsOf(r, notes[r].item) : lots[k].branch = from /\ lots[k].left > 0}
Begun(r, from) == {k \in Leaving(r, from) : lots[k].left < lots[k].in}

\* Lots stay in their places, whole ones at another branch, and new ones hold
\* what was left of those that are split.
LotsSplit(r, from, to, pre, new, split) ==
  /\ pre \in Seq(KeptLots) /\ DOMAIN pre = DOMAIN lots /\ new \in Seq(KeptLots)
  /\ lots' = pre \o new
  /\ split \in Ascending(Begun(r, from)) /\ DOMAIN new = 1..Len(split)
  /\ \A k \in DOMAIN lots :
       /\ pre[k].note = lots[k].note /\ pre[k].item = lots[k].item /\ pre[k].gone = lots[k].gone
       /\ k \in Begun(r, from) => /\ pre[k].left = 0 /\ pre[k].branch = lots[k].branch
                                  /\ pre[k].in = lots[k].in - lots[k].left
       /\ k \in Leaving(r, from) \ Begun(r, from) =>
            /\ pre[k].branch = to /\ pre[k].in = lots[k].in /\ pre[k].left = lots[k].left
       /\ k \notin Leaving(r, from) => pre[k] = lots[k]
  /\ \A j \in 1..Len(split) :
       /\ new[j].note = r /\ new[j].item = notes[r].item /\ new[j].branch = to
       /\ new[j].in = lots[split[j]].left /\ new[j].left = lots[split[j]].left
       /\ new[j].gone = FALSE

LEMMA LotsAreSplit ==
  ASSUME GoodsTyped, NotesTyped, NEW r \in Notes, NEW from, NEW to \in Branches,
         MoveLots(r, from, to)
  PROVE  \E pre, new, split : LotsSplit(r, from, to, pre, new, split)
PROOF
  <1> DEFINE which == Leaving(r, from)
             begun == Begun(r, from)
             after(k) == CASE k \in begun -> [lots[k] EXCEPT !.in = @ - lots[k].left, !.left = 0]
                           [] k \in which \ begun -> [lots[k] EXCEPT !.branch = to]
                           [] OTHER -> lots[k]
  <1>1. which \subseteq DOMAIN lots /\ begun \subseteq which
    BY DEF LotsOf, Leaving, Begun
  <1>2. IsFiniteSet(begun)
    BY <1>1, LotsInPlace, FS_Subset, SMTT(60)
  <1>4. PICK split \in Ascending(begun) :
          lots' = [k \in DOMAIN lots |-> after(k)]
                  \o [j \in DOMAIN split |-> Lot(r, notes[r].item, to, lots[split[j]].left)]
    BY Zenon DEF MoveLots, Leaving, Begun
  <1> HIDE DEF which, begun
  <1>6. ASSUME NEW k \in DOMAIN lots
        PROVE  /\ after(k) \in KeptLots
               /\ after(k).note = lots[k].note /\ after(k).item = lots[k].item
               /\ after(k).gone = lots[k].gone
               /\ k \in begun => /\ after(k).left = 0 /\ after(k).branch = lots[k].branch
                                 /\ after(k).in = lots[k].in - lots[k].left
               /\ k \in which \ begun =>
                    /\ after(k).branch = to /\ after(k).in = lots[k].in
                    /\ after(k).left = lots[k].left
               /\ k \notin which => after(k) = lots[k]
    <2> DEFINE l == lots[k]
    <2>1. l \in KeptLots
      BY LotsInPlace
    <2>2. /\ l \in LotSet /\ l.left + l.sold + l.back + l.off = l.in
          /\ l.gone => l.sold + l.back = 0
      BY <2>1 DEF KeptLots
    <2> HIDE DEF l
    <2>3. /\ l.left \in Nat /\ l.sold \in Nat /\ l.back \in Nat /\ l.off \in Nat /\ l.in \in Nat
      BY <2>2 DEF LotSet
    <2> DEFINE d == l.in - l.left
    <2>4. d \in Nat /\ 0 + l.sold + l.back + l.off = d
      BY <2>2, <2>3
    <2>5. [l EXCEPT !.in = @ - l.left, !.left = 0] = [l EXCEPT !.in = d, !.left = 0]
      BY Zenon
    <2>11. d = l.in - l.left
      OBVIOUS
    <2> HIDE DEF d
    <2>6. /\ [l EXCEPT !.in = d, !.left = 0] \in KeptLots
          /\ [l EXCEPT !.in = d, !.left = 0].note = l.note
          /\ [l EXCEPT !.in = d, !.left = 0].item = l.item
          /\ [l EXCEPT !.in = d, !.left = 0].gone = l.gone
          /\ [l EXCEPT !.in = d, !.left = 0].branch = l.branch
          /\ [l EXCEPT !.in = d, !.left = 0].in = d
          /\ [l EXCEPT !.in = d, !.left = 0].left = 0
      BY <2>2, <2>4 DEF KeptLots, LotSet
    <2>7. /\ [l EXCEPT !.branch = to] \in KeptLots
          /\ [l EXCEPT !.branch = to].note = l.note
          /\ [l EXCEPT !.branch = to].item = l.item
          /\ [l EXCEPT !.branch = to].gone = l.gone
          /\ [l EXCEPT !.branch = to].branch = to
          /\ [l EXCEPT !.branch = to].in = l.in
          /\ [l EXCEPT !.branch = to].left = l.left
      BY <2>2 DEF KeptLots, LotSet, Places
    <2>8. CASE k \in begun
      <3>1. after(k) = [l EXCEPT !.in = d, !.left = 0] /\ k \in which
        BY <1>1, <2>5, <2>8 DEF l
      <3> HIDE DEF after
      <3> QED
        BY <2>6, <2>8, <2>11, <3>1 DEF l
    <2>9. CASE k \notin begun /\ k \in which
      <3>1. after(k) = [l EXCEPT !.branch = to]
        BY <2>9 DEF l
      <3> HIDE DEF after
      <3> QED
        BY <2>7, <2>9, <3>1 DEF l
    <2>10. CASE k \notin begun /\ k \notin which
      <3>1. after(k) = l
        BY <2>10 DEF l
      <3> HIDE DEF after
      <3> QED
        BY <2>1, <2>10, <3>1 DEF l
    <2> QED
      BY <2>8, <2>9, <2>10
  <1> HIDE DEF after
  <1> DEFINE pre == [k \in DOMAIN lots |-> after(k)]
             new == [j \in DOMAIN split |-> Lot(r, notes[r].item, to, lots[split[j]].left)]
  <1>7. /\ pre \in Seq(KeptLots) /\ DOMAIN pre = DOMAIN lots
        /\ \A k \in DOMAIN lots : pre[k] = after(k)
    BY <1>6, LotsInPlace
  <1>8. /\ new \in Seq(KeptLots) /\ DOMAIN new = 1..Len(split)
        /\ \A j \in 1..Len(split) : new[j] = Lot(r, notes[r].item, to, lots[split[j]].left)
    <2>1. split \in Seq(begun) /\ Len(split) \in Nat /\ DOMAIN split = 1..Len(split)
      BY <1>2, <1>4, InOrderOf
    <2>2. \A j \in 1..Len(split) : split[j] \in DOMAIN lots
      BY <2>1, <1>1
    <2>3. \A j \in 1..Len(split) : lots[split[j]].left \in Nat
      BY <2>2, LotsInPlace
    <2>4. r \in Nat /\ notes[r].item \in Nat /\ to \in Places
      BY SupplierAssumption DEF NotesTyped, NoteSet, NoteFields, Places
    <2>5. \A j \in 1..Len(split) : Lot(r, notes[r].item, to, lots[split[j]].left) \in KeptLots
      BY <2>3, <2>4, FreshLot
    <2> QED
      BY <2>1, <2>5
  <1>9. lots' = pre \o new
    BY <1>4
  <1> HIDE DEF pre, new
  <1>10. \A j \in 1..Len(split) :
           /\ new[j].note = r /\ new[j].item = notes[r].item /\ new[j].branch = to
           /\ new[j].in = lots[split[j]].left /\ new[j].left = lots[split[j]].left
           /\ new[j].gone = FALSE
    BY <1>8 DEF Lot
  <1>11. \A k \in DOMAIN lots :
           /\ pre[k].note = lots[k].note /\ pre[k].item = lots[k].item /\ pre[k].gone = lots[k].gone
           /\ k \in begun => /\ pre[k].left = 0 /\ pre[k].branch = lots[k].branch
                             /\ pre[k].in = lots[k].in - lots[k].left
           /\ k \in which \ begun =>
                /\ pre[k].branch = to /\ pre[k].in = lots[k].in /\ pre[k].left = lots[k].left
           /\ k \notin which => pre[k] = lots[k]
    BY <1>6, <1>7
  <1>12. LotsSplit(r, from, to, pre, new, split)
    BY <1>4, <1>7, <1>8, <1>9, <1>10, <1>11 DEF LotsSplit, which, begun
  <1> QED
    BY <1>12

\* A received note moves to another branch, with all that is left of it.
LEMMA ShelfMoves ==
  ASSUME GoodsTyped, NotesTyped, GoodsTold, NEW r \in Notes, notes[r].status = "received",
         NEW to \in Branches, to # notes[r].branch, MoveLots(r, notes[r].branch, to),
         notes'[r].status = "received", notes'[r].item = notes[r].item,
         notes'[r].total = notes[r].total, notes'[r].branch = to,
         \A p \in Notes \ {r} : notes'[p] = notes[p]
  PROVE  GoodsTold'
PROOF
  <1> DEFINE S == DOMAIN lots
             from == notes[r].branch
             which == Leaving(r, from)
             begun == Begun(r, from)
             f == Lefts(lots)
             x == SumFunctionOnSet(f, which)
             y == SumFunctionOnSet(f, begun)
             d == [k \in S |-> IF k \in which THEN lots[k].left ELSE 0]
             e == [k \in S |-> IF k \in begun THEN lots[k].left ELSE 0]
             h == [k \in S |-> e[k] - d[k]]
  <1>1. /\ LotsNamed /\ AllBrought /\ Shelved /\ Stocked
        /\ lots \in Seq(KeptLots) /\ shelf \in [Branches -> Int] /\ stock \in Int
        /\ IsFiniteSet(S) /\ S = 1..Len(lots)
        /\ \A k \in S : lots[k] \in KeptLots /\ lots[k].left \in Nat
    BY LotsInPlace DEF GoodsTold, GoodsTyped
  <1>2. from \in Branches /\ from # to
    BY DEF NotesTyped, NoteSet
  <1>3. PICK pre, new, split : LotsSplit(r, from, to, pre, new, split)
    BY LotsAreSplit
  <1>4. /\ pre \in Seq(KeptLots) /\ DOMAIN pre = S /\ new \in Seq(KeptLots)
        /\ lots' = pre \o new /\ DOMAIN new = 1..Len(split) /\ split \in Ascending(begun)
    BY <1>3 DEF LotsSplit
  <1>5. which \in SUBSET S /\ begun \in SUBSET which /\ begun \in SUBSET S
    BY DEF Leaving, Begun, LotsOf
  <1>6. \A k \in S : LotKnown(lots[k], notes)
    BY <1>1 DEF LotsNamed
  <1>7. \A k \in S : k \in which <=> ~lots[k].gone /\ lots[k].note = r /\ lots[k].left > 0
    BY <1>6 DEF Leaving, LotsOf, LotKnown
  <1>8. \A k \in which : lots[k].branch = from
    BY DEF Leaving
  <1>9. \A k \in which : k \in begun <=> lots[k].left < lots[k].in
    BY DEF Begun
  <1>10. /\ IsFiniteSet(which) /\ IsFiniteSet(begun)
         /\ \A k \in which : f[k] = lots[k].left /\ f[k] \in Nat
         /\ x = LeftIn(which) /\ x \in Nat /\ y \in Nat
    BY <1>5, LeftInIs
  <1>11. \A k \in S : /\ d[k] = IF k \in which THEN lots[k].left ELSE 0
                      /\ e[k] = IF k \in begun THEN lots[k].left ELSE 0
                      /\ h[k] = e[k] - d[k]
    OBVIOUS
  <1>12. /\ shelf' = [shelf EXCEPT ![from] = OrZero(@ - x), ![to] = @ + x] /\ stock' = stock
    <2>1. shelf' = [shelf EXCEPT ![from] = OrZero(@ - LeftIn(which)), ![to] = @ + LeftIn(which)]
          /\ stock' = stock
      BY Zenon DEF MoveLots, Leaving
    <2> HIDE DEF x, which
    <2> QED
      BY <1>10, <2>1, SMTT(60)
  <1> HIDE DEF from, f, d, e, h
  <1>13. \A k \in S : d[k] \in Int /\ e[k] \in Int /\ h[k] \in Int
    BY <1>1, <1>11
  <1>14. /\ SumFunctionOnSet(d, S) = x /\ SumFunctionOnSet(e, S) = y
         /\ SumFunctionOnSet(h, S) = y - x
    <2> HIDE DEF which, begun
    <2>1. SumFunctionOnSet(d, S) = x
      <3>1. \A k \in which : f[k] \in Int /\ d[k] = f[k]
        BY <1>5, <1>10, <1>11
      <3>2. \A k \in S \ which : d[k] = 0
        BY <1>11
      <3>3. which \in SUBSET S /\ IsFiniteSet(S)
        BY <1>1, <1>5
      <3>4. SumFunctionOnSet(d, S) = SumFunctionOnSet(f, which)
        BY ONLY <3>1, <3>2, <3>3, SumSupport
      <3> QED
        BY <3>4
    <2>2. SumFunctionOnSet(e, S) = y
      <3>1. \A k \in begun : f[k] \in Int /\ e[k] = f[k]
        BY <1>5, <1>10, <1>11
      <3>2. \A k \in S \ begun : e[k] = 0
        BY <1>11
      <3>3. begun \in SUBSET S /\ IsFiniteSet(S)
        BY <1>1, <1>5
      <3>4. SumFunctionOnSet(e, S) = SumFunctionOnSet(f, begun)
        BY ONLY <3>1, <3>2, <3>3, SumSupport
      <3> QED
        BY <3>4
    <2>3. \A k \in S : h[k] \in Int /\ d[k] \in Int /\ e[k] = h[k] + d[k]
      BY <1>11, <1>13
    <2>4. SumFunctionOnSet(e, S) = SumFunctionOnSet(h, S) + SumFunctionOnSet(d, S)
      BY <1>1, <2>3, SumPlus
    <2>5. SumFunctionOnSet(h, S) \in Int
      BY <1>1, <1>13, SumInt
    <2> QED
      BY <1>10, <2>1, <2>2, <2>4, <2>5
  <1> HIDE DEF x, y
  <1>15. /\ Len(split) \in Nat /\ \A j \in 1..Len(split) : split[j] \in begun
         /\ \A w \in [KeptLots -> Nat] :
              /\ (\A j \in 1..Len(split) : w[new[j]] = lots[split[j]].left) => Weigh(new, w) = y
              /\ (\A j \in 1..Len(split) : w[new[j]] = 0) => Weigh(new, w) = 0
    <2> HIDE DEF which, begun
    <2>1. /\ begun \subseteq Int /\ \A k \in begun : f[k] \in Int
          /\ IsFiniteSet(begun) /\ split \in Ascending(begun)
      <3>1. begun \subseteq S /\ S \subseteq Int
        BY <1>1, <1>5
      <3> QED
        BY <1>4, <1>5, <1>10, <3>1
    <2>2. Len(split) \in Nat /\ \A j \in 1..Len(split) : split[j] \in begun
      <3>1. split \in Seq(begun) /\ Len(split) \in Nat /\ DOMAIN split = 1..Len(split)
        BY ONLY <2>1, InOrderOf
      <3> QED
        BY ONLY <3>1
    <2>3. ASSUME NEW w \in [KeptLots -> Nat], \A j \in 1..Len(split) : w[new[j]] = lots[split[j]].left
          PROVE  Weigh(new, w) = y
      <3> DEFINE part == Weighed(new, w)
      <3>1. \A j \in 1..Len(split) : part[j] = w[new[j]]
        BY <1>4, WeighedIs, ZenonT(60)
      <3> HIDE DEF part
      <3>2. \A j \in 1..Len(split) : part[j] = f[split[j]]
        BY <1>5, <1>10, <2>2, <2>3, <3>1
      <3>3. SumFunctionOnSet(part, 1..Len(split)) = SumFunctionOnSet(f, begun)
        BY ONLY <2>1, <3>2, SumInTurn
      <3> QED
        BY <1>4, <3>3 DEF Weigh, part, y
    <2>4. ASSUME NEW w \in [KeptLots -> Nat], \A j \in 1..Len(split) : w[new[j]] = 0
          PROVE  Weigh(new, w) = 0
      <3> DEFINE part == Weighed(new, w)
      <3>1. \A j \in 1..Len(split) : part[j] = w[new[j]]
        BY <1>4, WeighedIs
      <3>2. IsFiniteSet(1..Len(split))
        BY <1>4, <2>4, WeighedIs
      <3> HIDE DEF part
      <3>3. SumFunctionOnSet(part, 1..Len(split)) = 0
        BY <2>4, <3>1, <3>2, SumZero
      <3> QED
        BY <1>4, <3>3 DEF Weigh, part
    <2> QED
      BY <2>2, <2>3, <2>4
  <1>16. ASSUME NEW k \in S
         PROVE  /\ pre[k] \in KeptLots /\ pre[k].note = lots[k].note /\ pre[k].item = lots[k].item
                /\ pre[k].gone = lots[k].gone
                /\ k \in begun => /\ pre[k].left = 0 /\ pre[k].branch = from
                                  /\ pre[k].in = lots[k].in - lots[k].left
                /\ k \in which \ begun => /\ pre[k].branch = to /\ pre[k].in = lots[k].in
                                          /\ pre[k].left = lots[k].left
                /\ k \notin which => pre[k] = lots[k]
    BY <1>3, <1>4, <1>5, <1>8 DEF LotsSplit
  <1>17. ASSUME NEW j \in 1..Len(split)
         PROVE  /\ new[j] \in KeptLots /\ new[j].note = r /\ new[j].item = notes[r].item
                /\ new[j].branch = to /\ new[j].in = lots[split[j]].left
                /\ new[j].left = lots[split[j]].left /\ new[j].gone = FALSE
    BY <1>3, <1>4 DEF LotsSplit
  <1> HIDE DEF which, begun
  <1>18. ASSUME NEW k \in S
         PROVE  /\ InOf(r)[pre[k]] = InOf(r)[lots[k]] - e[k]
                /\ \A p \in Notes \ {r} : InOf(p)[pre[k]] = InOf(p)[lots[k]]
                /\ LeftAt(from)[pre[k]] = LeftAt(from)[lots[k]] - d[k]
                /\ LeftAt(to)[pre[k]] = LeftAt(to)[lots[k]] - h[k]
                /\ \A c \in Branches \ {from, to} : LeftAt(c)[pre[k]] = LeftAt(c)[lots[k]]
    <2> DEFINE l == lots[k]
               m == pre[k]
               u == d[k]
               v == e[k]
               z == h[k]
    <2>1. /\ l \in KeptLots /\ m \in KeptLots /\ m.note = l.note /\ m.gone = l.gone
          /\ k \in begun => m.left = 0 /\ m.branch = from /\ m.in = l.in - l.left
          /\ k \in which \ begun => m.branch = to /\ m.in = l.in /\ m.left = l.left
          /\ k \notin which => m = l
      BY <1>1, <1>16
    <2>2. /\ u = IF k \in which THEN l.left ELSE 0
          /\ v = IF k \in begun THEN l.left ELSE 0
          /\ z = v - u
      BY <1>11
    <2>3. k \in which => ~l.gone /\ l.note = r /\ l.branch = from
      BY <1>7, <1>8
    <2>4. l.in \in Nat /\ l.left \in Nat
      BY <2>1, LotFields
    <2>5. InOf(r)[l] \in Nat /\ LeftAt(from)[l] \in Nat /\ LeftAt(to)[l] \in Nat
      BY <2>1, WeightsAre
    <2> HIDE DEF l, m, u, v, z
    <2>6. CASE k \in begun
      <3>1. k \in which
        BY <1>5, <2>6
      <3>2. /\ ~l.gone /\ ~m.gone /\ l.note = r /\ m.note = r /\ l.branch = from /\ m.branch = from
            /\ m.left = 0 /\ m.in = l.in - l.left /\ u = l.left /\ v = l.left /\ z = 0
        BY <2>1, <2>2, <2>3, <2>4, <2>6, <3>1
      <3>3. InOf(r)[m] = InOf(r)[l] - v
        BY <2>1, <2>4, <3>2 DEF InOf
      <3>4. \A p \in Notes \ {r} : InOf(p)[m] = InOf(p)[l]
        BY <2>1, <3>2 DEF InOf
      <3>5. LeftAt(from)[m] = LeftAt(from)[l] - u
        BY <2>1, <2>4, <3>2 DEF LeftAt
      <3>6. \A c \in Branches \ {from} : LeftAt(c)[m] = 0 /\ LeftAt(c)[l] = 0
        BY <2>1, <3>2 DEF LeftAt
      <3>7. LeftAt(to)[m] = LeftAt(to)[l] - z
        BY <1>2, <3>2, <3>6
      <3> QED
        BY <3>3, <3>4, <3>5, <3>6, <3>7 DEF l, m, u, v, z
    <2>7. CASE k \in which /\ k \notin begun
      <3>2. /\ ~l.gone /\ ~m.gone /\ l.note = r /\ m.note = r /\ l.branch = from /\ m.branch = to
            /\ m.left = l.left /\ m.in = l.in /\ u = l.left /\ v = 0 /\ z = 0 - l.left
        BY <2>1, <2>2, <2>3, <2>4, <2>7
      <3>3. \A p \in Notes : InOf(p)[m] = InOf(p)[l]
        BY <2>1, <3>2 DEF InOf
      <3>4. InOf(r)[m] = InOf(r)[l] - v
        BY <2>5, <3>2, <3>3
      <3>5. LeftAt(from)[m] = 0 /\ LeftAt(from)[l] = l.left /\ LeftAt(to)[m] = l.left /\ LeftAt(to)[l] = 0
        BY <1>2, <2>1, <3>2 DEF LeftAt
      <3>6. LeftAt(from)[m] = LeftAt(from)[l] - u /\ LeftAt(to)[m] = LeftAt(to)[l] - z
        BY <2>4, <3>2, <3>5
      <3>7. \A c \in Branches \ {from, to} : LeftAt(c)[m] = 0 /\ LeftAt(c)[l] = 0
        BY <2>1, <3>2 DEF LeftAt
      <3> QED
        BY <3>3, <3>4, <3>6, <3>7 DEF l, m, u, v, z
    <2>8. CASE k \notin which
      <3>1. m = l /\ u = 0 /\ v = 0 /\ z = 0
        BY <1>5, <2>1, <2>2, <2>8
      <3>2. InOf(r)[m] = InOf(r)[l] - v /\ LeftAt(from)[m] = LeftAt(from)[l] - u
            /\ LeftAt(to)[m] = LeftAt(to)[l] - z
        BY <2>5, <3>1
      <3> QED
        BY <3>1, <3>2 DEF l, m, u, v, z
    <2> QED
      BY <2>6, <2>7, <2>8
  <1>19. ASSUME NEW j \in 1..Len(split)
         PROVE  /\ InOf(r)[new[j]] = lots[split[j]].left /\ LeftAt(to)[new[j]] = lots[split[j]].left
                /\ \A p \in Notes \ {r} : InOf(p)[new[j]] = 0
                /\ \A c \in Branches \ {to} : LeftAt(c)[new[j]] = 0
    BY <1>17 DEF InOf, LeftAt
  <1>20. \A w \in [KeptLots -> Nat] : /\ Weigh(lots', w) = Weigh(pre, w) + Weigh(new, w)
                                      /\ Weigh(pre, w) \in Nat /\ Weigh(lots, w) \in Nat
    BY <1>1, <1>4, WeighJoin, WeighedIs
  <1>21. AllBrought'
    <2> SUFFICES ASSUME NEW p \in Notes PROVE Weigh(lots', InOf(p)) = Brought(notes'[p])
      BY DEF AllBrought
    <2>1. /\ InOf(p) \in [KeptLots -> Nat] /\ Weigh(lots, InOf(p)) = Brought(notes[p])
          /\ Brought(notes'[p]) = Brought(notes[p])
      BY <1>1, WeightsAre DEF AllBrought, Brought
    <2>2. CASE p = r
      <3>1. \A k \in S : e[k] \in Int /\ InOf(p)[pre[k]] = InOf(p)[lots[k]] - e[k]
        BY <1>13, <1>18, <2>2
      <3>2. Weigh(pre, InOf(p)) = Weigh(lots, InOf(p)) - SumFunctionOnSet(e, S)
        BY <1>1, <1>4, <2>1, <3>1, WeighChange
      <3>3. Weigh(new, InOf(p)) = y
        BY <1>15, <1>19, <2>1, <2>2
      <3> QED
        BY <1>10, <1>14, <1>20, <2>1, <3>2, <3>3
    <2>3. CASE p # r
      <3>1. \A k \in S : InOf(p)[pre[k]] = InOf(p)[lots[k]]
        BY <1>18, <2>3
      <3>2. Weigh(pre, InOf(p)) = Weigh(lots, InOf(p))
        BY <1>1, <1>4, <2>1, <3>1, WeighSame
      <3>3. Weigh(new, InOf(p)) = 0
        BY <1>15, <1>19, <2>1, <2>3
      <3> QED
        BY <1>20, <2>1, <3>2, <3>3
    <2> QED
      BY <2>2, <2>3
  <1>22. \A c \in Branches : /\ LeftAt(c) \in [KeptLots -> Nat] /\ shelf[c] = Weigh(lots, LeftAt(c))
                             /\ shelf[c] \in Nat /\ Weigh(lots', LeftAt(c)) \in Nat
    <2> TAKE c \in Branches
    <2>1. LeftAt(c) \in [KeptLots -> Nat] /\ shelf[c] = Weigh(lots, LeftAt(c))
      BY <1>1, WeightsAre DEF Shelved
    <2>2. lots' \in Seq(KeptLots)
      BY <1>4
    <2> QED
      BY <1>1, <2>1, <2>2, WeighedIs
  <1>23. Weigh(lots', LeftAt(from)) = shelf[from] - x
    <2>1. \A k \in S : d[k] \in Int /\ LeftAt(from)[pre[k]] = LeftAt(from)[lots[k]] - d[k]
      BY <1>13, <1>18
    <2>4. LeftAt(from) \in [KeptLots -> Nat]
      BY WeightsAre
    <2>2. Weigh(pre, LeftAt(from)) = Weigh(lots, LeftAt(from)) - SumFunctionOnSet(d, S)
      BY <1>1, <1>4, <2>1, <2>4, WeighChange
    <2>3. Weigh(new, LeftAt(from)) = 0
      BY <1>2, <1>15, <1>19, <1>22
    <2> QED
      BY <1>2, <1>10, <1>14, <1>20, <1>22, <2>2, <2>3
  <1>24. Weigh(lots', LeftAt(to)) = shelf[to] + x
    <2>1. \A k \in S : h[k] \in Int /\ LeftAt(to)[pre[k]] = LeftAt(to)[lots[k]] - h[k]
      BY <1>13, <1>18
    <2>4. LeftAt(to) \in [KeptLots -> Nat]
      BY WeightsAre
    <2>2. Weigh(pre, LeftAt(to)) = Weigh(lots, LeftAt(to)) - SumFunctionOnSet(h, S)
      BY <1>1, <1>4, <2>1, <2>4, WeighChange, ZenonT(60)
    <2>3. Weigh(new, LeftAt(to)) = y
      BY <1>15, <1>19, <1>22
    <2> QED
      BY <1>10, <1>14, <1>20, <1>22, <2>2, <2>3
  <1>25. \A c \in Branches \ {from, to} : Weigh(lots', LeftAt(c)) = shelf[c]
    <2> TAKE c \in Branches \ {from, to}
    <2>1. \A k \in S : LeftAt(c)[pre[k]] = LeftAt(c)[lots[k]]
      BY <1>18
    <2>2. Weigh(pre, LeftAt(c)) = Weigh(lots, LeftAt(c))
      BY <1>1, <1>4, <1>22, <2>1, WeighSame, ZenonT(60)
    <2>3. Weigh(new, LeftAt(c)) = 0
      BY <1>15, <1>19, <1>22
    <2> QED
      BY <1>20, <1>22, <2>2, <2>3
  <1>26. \A c \in Branches : shelf'[c] = IF c = from THEN shelf[c] - x
                                         ELSE IF c = to THEN shelf[c] + x ELSE shelf[c]
    <2>1. shelf[from] - x \in Nat
      BY <1>2, <1>22, <1>23
    <2> QED
      BY <1>1, <1>2, <1>12, <2>1 DEF OrZero
  <1>27. Shelved'
    BY <1>2, <1>23, <1>24, <1>25, <1>26 DEF Shelved
  <1>28. Stocked'
    <2> DEFINE half == [c \in Branches |-> IF c = from THEN shelf[c] - x ELSE shelf[c]]
    <2>1. \A c \in Branches : half[c] = IF c = from THEN shelf[c] - x ELSE shelf[c]
      OBVIOUS
    <2> HIDE DEF half
    <2>2. \A c \in Branches : shelf[c] \in Int /\ half[c] \in Int /\ shelf'[c] \in Int
      BY <1>10, <1>22, <1>26, <2>1
    <2>3. \A c \in Branches \ {from} : shelf[c] = half[c]
      BY <2>1
    <2>4. \A c \in Branches \ {to} : half[c] = shelf'[c]
      BY <1>26, <2>1
    <2>5. /\ SumFunctionOnSet(half, Branches) = SumFunctionOnSet(shelf, Branches) - shelf[from] + half[from]
          /\ SumFunctionOnSet(shelf, Branches) \in Int
      BY <1>2, <2>2, <2>3, OneShelf
    <2>6. SumFunctionOnSet(shelf', Branches) = SumFunctionOnSet(half, Branches) - half[to] + shelf'[to]
      BY <2>2, <2>4, OneShelf
    <2>7. half[from] = shelf[from] - x /\ half[to] = shelf[to] /\ shelf'[to] = shelf[to] + x
      BY <1>2, <1>26, <2>1
    <2>8. SumFunctionOnSet(shelf', Branches) = SumFunctionOnSet(shelf, Branches)
      BY <1>2, <1>10, <1>22, <2>5, <2>6, <2>7
    <2> QED
      BY <1>1, <1>12, <2>8 DEF Stocked
  <1>29. LotsNamed'
    <2> SUFFICES ASSUME NEW k \in DOMAIN lots' PROVE LotKnown(lots'[k], notes')
      BY DEF LotsNamed
    <2>1. CASE k \in S
      <3>1. lots'[k] = pre[k]
        BY <1>1, <1>4, <2>1
      <3>2. LotKnown(lots[k], notes) /\ lots[k].left \in Nat /\ lots[k].in \in Nat
        BY <1>1, <1>6, <2>1, LotFields
      <3>3. CASE k \in begun
        <4>1. /\ pre[k].left = 0 /\ pre[k].in = lots[k].in - lots[k].left
              /\ lots[k].left < lots[k].in /\ pre[k].note = r /\ pre[k].item = notes[r].item
          BY <1>5, <1>6, <1>7, <1>9, <1>16, <2>1, <3>3 DEF LotKnown
        <4>2. pre[k].in > 0
          BY ONLY <3>2, <4>1
        <4> QED
          BY <3>1, <4>1, <4>2 DEF LotKnown
      <3>4. CASE k \in which /\ k \notin begun
        <4>1. /\ pre[k].left = lots[k].left /\ pre[k].in = lots[k].in /\ pre[k].note = r
              /\ pre[k].item = lots[k].item /\ pre[k].branch = to /\ lots[k].note = r /\ ~lots[k].gone
          BY <1>7, <1>16, <2>1, <3>4
        <4> QED
          BY <3>1, <3>2, <4>1 DEF LotKnown
      <3>5. CASE k \notin which
        <4>1. pre[k] = lots[k]
          BY <1>16, <2>1, <3>5
        <4>2. ~lots[k].gone /\ lots[k].note = r => ~(lots[k].left > 0)
          BY <1>7, <2>1, <3>5
        <4> QED
          BY <3>1, <3>2, <4>1, <4>2 DEF LotKnown
      <3> QED
        BY <3>3, <3>4, <3>5
    <2>2. CASE k \notin S
      <3>1. PICK j \in 1..Len(split) : lots'[k] = new[j]
        <4>1. /\ Len(pre) \in Nat /\ DOMAIN pre = 1..Len(pre) /\ Len(new) \in Nat
              /\ DOMAIN new = 1..Len(new) /\ DOMAIN lots' = 1..(Len(pre) + Len(new))
              /\ \A i \in 1..Len(new) : lots'[Len(pre) + i] = new[i]
          BY <1>4
        <4>2. k - Len(pre) \in 1..Len(new) /\ Len(pre) + (k - Len(pre)) = k
          BY <1>4, <2>2, <4>1
        <4> QED
          BY <1>4, <4>1, <4>2
      <3>2. split[j] \in which /\ split[j] \in S
        BY <1>5, <1>15
      <3>3. new[j].in > 0
        BY <1>7, <1>17, <3>2
      <3> QED
        BY <1>17, <3>1, <3>3 DEF LotKnown
    <2> QED
      BY <2>1, <2>2
  <1> QED
    BY <1>21, <1>27, <1>28, <1>29 DEF GoodsTold

\* A shelf is what its lots hold, and no more than the product's stock.
LEMMA ShelfHolds ==
  ASSUME GoodsTyped, GoodsTold, NEW b \in Branches
  PROVE  /\ \A c \in Branches : shelf[c] \in Nat
         /\ shelf[b] <= stock /\ stock \in Nat
         /\ shelf[b] = LeftIn(OnShelf(b))
         /\ \A which \in SUBSET DOMAIN lots :
              (\A k \in which : ~lots[k].gone /\ (lots[k].left > 0 => lots[k].branch = b))
                => LeftIn(which) <= shelf[b]
PROOF
  <1> DEFINE S == DOMAIN lots
             f == Lefts(lots)
             g == Weighed(lots, LeftAt(b))
             here == OnShelf(b)
  <1>1. /\ Shelved /\ Stocked /\ lots \in Seq(KeptLots) /\ IsFiniteSet(Branches)
        /\ IsFiniteSet(S) /\ \A k \in S : lots[k] \in KeptLots /\ lots[k].left \in Nat
    BY DeliveryAssumption, LotsInPlace DEF GoodsTold, GoodsTyped
  <1>2. \A c \in Branches : LeftAt(c) \in [KeptLots -> Nat]
    BY WeightsAre
  <1>3. \A c \in Branches : shelf[c] \in Nat
    BY <1>1, <1>2, WeighedIs DEF Shelved
  <1>4. shelf[b] <= stock /\ stock \in Nat
    <2>1. SumFunctionOnSet(shelf, Branches) \in Nat /\ shelf[b] <= SumFunctionOnSet(shelf, Branches)
      BY <1>1, <1>3, SumNat, SumMember
    <2> QED
      BY <1>1, <2>1 DEF Stocked
  <1>5. /\ \A k \in S : g[k] \in Nat
        /\ \A k \in S : g[k] = IF ~lots[k].gone /\ lots[k].branch = b THEN lots[k].left ELSE 0
        /\ SumFunctionOnSet(g, S) = shelf[b]
    <2>1. \A k \in S : g[k] = LeftAt(b)[lots[k]] /\ g[k] \in Nat
      BY <1>1, <1>2, WeighedIs
    <2>2. \A k \in S : LeftAt(b)[lots[k]] = IF ~lots[k].gone /\ lots[k].branch = b THEN lots[k].left ELSE 0
      BY <1>1 DEF LeftAt
    <2>3. SumFunctionOnSet(g, S) = shelf[b]
      BY <1>1 DEF Shelved, Weigh
    <2> HIDE DEF g
    <2> QED
      BY <2>1, <2>2, <2>3
  <1>6. here \in SUBSET S
    BY DEF OnShelf
  <1>7. shelf[b] = LeftIn(here)
    <2>1. /\ IsFiniteSet(here) /\ LeftIn(here) = SumFunctionOnSet(f, here)
          /\ \A k \in here : f[k] = lots[k].left /\ f[k] \in Nat
      BY <1>6, LeftInIs
    <2>2. \A k \in S : k \in here <=> ~lots[k].gone /\ lots[k].branch = b /\ lots[k].left > 0
      BY DEF OnShelf
    <2> HIDE DEF f, g, here
    <2>3. \A k \in here : f[k] \in Int /\ g[k] = f[k]
      BY <1>5, <1>6, <2>1, <2>2
    <2>4. \A k \in S \ here : g[k] = 0
      BY <1>1, <1>5, <2>2
    <2>5. IsFiniteSet(S) /\ here \in SUBSET S
      BY <1>1, <1>6
    <2>6. SumFunctionOnSet(g, S) = SumFunctionOnSet(f, here)
      BY ONLY <2>3, <2>4, <2>5, SumSupport
    <2> QED
      BY <1>5, <2>1, <2>6
  <1>8. ASSUME NEW which \in SUBSET S,
               \A k \in which : ~lots[k].gone /\ (lots[k].left > 0 => lots[k].branch = b)
        PROVE  LeftIn(which) <= shelf[b]
    <2>1. /\ IsFiniteSet(which) /\ LeftIn(which) = SumFunctionOnSet(f, which)
          /\ \A k \in which : f[k] = lots[k].left /\ f[k] \in Nat
      BY LeftInIs
    <2> HIDE DEF f, g, here
    <2>2. \A k \in which : g[k] = f[k]
      BY <1>1, <1>5, <1>8, <2>1
    <2>3. SumFunctionOnSet(g, which) = SumFunctionOnSet(f, which)
      BY <2>1, <2>2, SumEqual
    <2>4. SumFunctionOnSet(g, which) <= SumFunctionOnSet(g, S)
      BY <1>1, <1>5, SumSubset
    <2> QED
      BY <1>5, <2>1, <2>3, <2>4
  <1> QED
    BY <1>3, <1>4, <1>7, <1>8

\* The goods stay, and what changes of a note is not about goods that are there.
LEMMA GoodsUntouched ==
  ASSUME GoodsTyped, GoodsTold, UNCHANGED goods,
         \A p \in Notes : \/ /\ notes'[p].status = notes[p].status /\ notes'[p].total = notes[p].total
                             /\ notes'[p].item = notes[p].item /\ notes'[p].branch = notes[p].branch
                          \/ notes[p].status # "received" /\ notes'[p].status # "received"
  PROVE  GoodsTold'
PROOF
  <1>1. lots' = lots /\ shelf' = shelf /\ stock' = stock
    BY DEF goods
  <1>2. LotsNamed /\ AllBrought /\ Shelved /\ Stocked
    BY DEF GoodsTold
  <1>3. LotsNamed'
    <2>1. \A k \in DOMAIN lots : LotKnown(lots[k], notes')
      BY <1>2 DEF LotsNamed, LotKnown
    <2> QED
      BY <1>1, <2>1 DEF LotsNamed
  <1>4. AllBrought'
    <2>1. \A r \in Notes : Brought(notes'[r]) = Brought(notes[r])
      BY DEF Brought
    <2> QED
      BY <1>1, <1>2, <2>1 DEF AllBrought
  <1>5. Shelved' /\ Stocked'
    BY <1>1, <1>2 DEF Shelved, Stocked
  <1> QED
    BY <1>3, <1>4, <1>5 DEF GoodsTold

\* What a request on its way read is still so.
RequestTold(s) ==
  LET note == notes[job[s].note]
  IN  phase[s] # "idle" =>
        /\ phase[s] \in {"receive", "edit", "reverse", "relabel", "send"}
        /\ phase[s] # "edit" => seen[s] = note
        /\ phase[s] \in {"receive", "edit"} => note.status = "draft"
        /\ phase[s] = "receive" => note.total > 0
        /\ phase[s] = "send" => note.status = "received"
        /\ phase[s] = "relabel" => (job[s].kind = "branch" <=> job[s].branch # note.branch)

\* The invariant of the goods.
GoodsOK == SupplyOK /\ GoodsTold /\ OneBusy /\ \A s \in Sessions : RequestTold(s)

LEMMA RequestLooks ==
  ASSUME GoodsOK, OneByOne, NEW s \in Sessions, Looks(s)
  PROVE  UNCHANGED <<notes, goods>> /\ OneBusy' /\ \A t \in Sessions : RequestTold(t)'
PROOF
  <1>1. DeskTyped /\ NotesTyped
    BY DEF GoodsOK, SupplyOK, AccountTyped
  <1>2. UNCHANGED <<notes, goods>>
    BY DEF Looks, LookToReceive, LookToEdit, LookToReverse, LookToRelabel, LookToSendBack, account
  <1>4. ASSUME NEW there \in {"receive", "edit", "reverse", "relabel", "send"}, NEW asked, NEW read,
               NEW r \in Notes, asked.note = r, Enter(s, there, asked, read),
               there # "edit" => read = notes[r],
               there \in {"receive", "edit"} => notes[r].status = "draft",
               there = "receive" => notes[r].total > 0,
               there = "send" => notes[r].status = "received",
               there = "relabel" => (asked.kind = "branch" <=> asked.branch # notes[r].branch)
        PROVE  OneBusy' /\ \A t \in Sessions : RequestTold(t)'
    <2>1. /\ OneBusy' /\ phase'[s] = there /\ job'[s] = asked /\ seen'[s] = read
          /\ \A t \in Sessions \ {s} : phase'[t] = "idle"
      BY <1>1, <1>4, AloneStarts
    <2>2. RequestTold(s)'
      BY <1>2, <1>4, <2>1 DEF RequestTold
    <2>3. \A t \in Sessions \ {s} : RequestTold(t)'
      BY <2>1 DEF RequestTold
    <2> QED
      BY <2>1, <2>2, <2>3
  <1>5. CASE LookToReceive(s)
    <2>1. PICK r \in Notes :
            /\ notes[r].status = "draft" /\ notes[r].total > 0
            /\ Enter(s, "receive", [kind |-> "receive", note |-> r], notes[r])
      BY <1>5 DEF LookToReceive
    <2> DEFINE asked == [kind |-> "receive", note |-> r]
    <2>2. asked.note = r /\ Enter(s, "receive", asked, notes[r])
      BY <2>1
    <2> HIDE DEF asked
    <2> QED
      BY <1>2, <1>4, <2>1, <2>2
  <1>6. CASE LookToEdit(s)
    <2>1. PICK r \in Notes, q \in Lines, b \in Branches :
            /\ notes[r].status = "draft"
            /\ Enter(s, "edit", [kind |-> "edit", note |-> r, total |-> q, branch |-> b], NothingSeen)
      BY <1>6 DEF LookToEdit
    <2> DEFINE asked == [kind |-> "edit", note |-> r, total |-> q, branch |-> b]
    <2>2. asked.note = r /\ Enter(s, "edit", asked, NothingSeen)
      BY <2>1
    <2> HIDE DEF asked
    <2> QED
      BY <1>2, <1>4, <2>1, <2>2
  <1>7. CASE LookToReverse(s)
    <2>1. PICK r \in Notes, end \in {"unreceive", "remove"} :
            Enter(s, "reverse", [kind |-> end, note |-> r], notes[r])
      BY <1>7 DEF LookToReverse
    <2> DEFINE asked == [kind |-> end, note |-> r]
    <2>2. asked.note = r /\ Enter(s, "reverse", asked, notes[r])
      BY <2>1
    <2> HIDE DEF asked
    <2> QED
      BY <1>2, <1>4, <2>1, <2>2
  <1>8. CASE LookToSendBack(s)
    <2>1. PICK r \in Notes, q \in Cuts :
            /\ notes[r].status = "received"
            /\ Enter(s, "send", [kind |-> "send", note |-> r, units |-> q], notes[r])
      BY <1>8 DEF LookToSendBack
    <2> DEFINE asked == [kind |-> "send", note |-> r, units |-> q]
    <2>2. asked.note = r /\ Enter(s, "send", asked, notes[r])
      BY <2>1
    <2> HIDE DEF asked
    <2> QED
      BY <1>2, <1>4, <2>1, <2>2
  <1>9. CASE LookToRelabel(s)
    <2>1. PICK r \in Notes :
            \/ \E p \in Parties \ {notes[r].supplier} :
                 Enter(s, "relabel", [kind |-> "supplier", note |-> r,
                                      supplier |-> p, branch |-> notes[r].branch], notes[r])
            \/ \E b \in Branches \ {notes[r].branch} :
                 Enter(s, "relabel", [kind |-> "branch", note |-> r,
                                      supplier |-> notes[r].supplier, branch |-> b], notes[r])
      BY <1>9 DEF LookToRelabel, Parties
    <2>2. ASSUME NEW p, Enter(s, "relabel", [kind |-> "supplier", note |-> r, supplier |-> p,
                                             branch |-> notes[r].branch], notes[r])
          PROVE  OneBusy' /\ \A t \in Sessions : RequestTold(t)'
      <3> DEFINE asked == [kind |-> "supplier", note |-> r, supplier |-> p, branch |-> notes[r].branch]
      <3>1. asked.note = r /\ asked.kind # "branch" /\ asked.branch = notes[r].branch
        OBVIOUS
      <3>2. Enter(s, "relabel", asked, notes[r])
        BY <2>2
      <3> HIDE DEF asked
      <3> QED
        BY <1>4, <3>1, <3>2
    <2>3. ASSUME NEW b \in Branches \ {notes[r].branch},
                 Enter(s, "relabel", [kind |-> "branch", note |-> r,
                                      supplier |-> notes[r].supplier, branch |-> b], notes[r])
          PROVE  OneBusy' /\ \A t \in Sessions : RequestTold(t)'
      <3> DEFINE asked == [kind |-> "branch", note |-> r, supplier |-> notes[r].supplier, branch |-> b]
      <3>1. asked.note = r /\ asked.kind = "branch" /\ asked.branch # notes[r].branch
        OBVIOUS
      <3>2. Enter(s, "relabel", asked, notes[r])
        BY <2>3
      <3> HIDE DEF asked
      <3> QED
        BY <1>4, <3>1, <3>2
    <2> QED
      BY <1>2, <2>1, <2>2, <2>3, Zenon
  <1> QED
    BY <1>2, <1>5, <1>6, <1>7, <1>8, <1>9 DEF Looks

LEMMA NoteEdited ==
  ASSUME NotesTyped, NEW r \in Notes, NEW n, notes' = [notes EXCEPT ![r] = n]
  PROVE  notes'[r] = n /\ \A p \in Notes \ {r} : notes'[p] = notes[p]
  BY DEF NotesTyped

\* What a request in hand knows of its note.
LEMMA InHand ==
  ASSUME GoodsOK, NEW s \in Sessions, NEW here \in {"receive", "reverse", "relabel", "send"},
         Leave(s, here)
  PROVE  /\ GoodsTyped /\ NotesTyped /\ GoodsTold /\ job[s].note \in Notes
         /\ seen[s] = notes[job[s].note] /\ notes[job[s].note] \in NoteSet
         /\ notes[job[s].note].item \in Nat /\ notes[job[s].note].total \in Nat
         /\ notes[job[s].note].branch \in Branches
         /\ here = "receive" => notes[job[s].note].status = "draft" /\ notes[job[s].note].total > 0
         /\ here = "send" => notes[job[s].note].status = "received" /\ job[s].units \in Nat
         /\ here = "relabel" => /\ job[s].branch \in Branches
                                /\ job[s].kind = "branch" <=> job[s].branch # notes[job[s].note].branch
PROOF
  <1>1. GoodsTyped /\ NotesTyped /\ GoodsTold /\ DeskTyped /\ RequestTold(s)
    BY DEF GoodsOK, SupplyOK, AccountTyped
  <1>2. phase[s] = here
    BY DEF Leave
  <1>3. /\ job[s].note \in Notes /\ seen[s] \in NoteSet /\ seen[s].branch \in Branches
        /\ seen[s].item \in Nat /\ seen[s].total \in Nat
        /\ here = "send" => job[s].units \in Nat
        /\ here = "relabel" => job[s].branch \in Branches
    BY <1>1, HeldBy
  <1> QED
    BY <1>1, <1>2, <1>3 DEF RequestTold

LEMMA ReceivedTold ==
  ASSUME GoodsOK, NEW s \in Sessions, ReceiveNote(s)
  PROVE  GoodsTold'
PROOF
  <1> DEFINE r == job[s].note
             note == notes[r]
  <1>1. /\ Leave(s, "receive") /\ PutOnShelf(r, seen[s].item, seen[s].branch, seen[s].total)
        /\ notes' = [notes EXCEPT ![r] = [notes[r] EXCEPT !.status = "received"]]
    BY DEF ReceiveNote
  <1>2. /\ GoodsTyped /\ NotesTyped /\ GoodsTold /\ r \in Notes /\ seen[s] = note /\ note \in NoteSet
        /\ note.item \in Nat /\ note.total \in Nat /\ note.branch \in Branches
        /\ note.status = "draft" /\ note.total > 0
    BY <1>1, InHand
  <1> HIDE DEF r
  <1>3. notes'[r] = [note EXCEPT !.status = "received"] /\ \A p \in Notes \ {r} : notes'[p] = notes[p]
    BY <1>1, <1>2, NoteEdited
  <1>4. /\ notes'[r].status = "received" /\ notes'[r].item = note.item
        /\ notes'[r].branch = note.branch /\ notes'[r].total = note.total
    BY <1>2, <1>3 DEF NoteSet, NoteFields
  <1>5. PutOnShelf(r, note.item, note.branch, note.total)
    BY <1>1, <1>2
  <1> QED
    BY <1>2, <1>3, <1>4, <1>5, ShelfGains

LEMMA EditedTold ==
  ASSUME GoodsOK, NEW s \in Sessions, EditNote(s)
  PROVE  GoodsTold'
PROOF
  <1> DEFINE r == job[s].note
             n == [notes[r] EXCEPT !.item = @ + 1, !.total = job[s].total, !.branch = job[s].branch]
             which == LotsOf(r, notes[r].item)
  <1>1. /\ Leave(s, "edit") /\ notes' = [notes EXCEPT ![r] = n]
        /\ lots' = Orphaned(which) /\ UNCHANGED <<shelf, stock>>
    BY DEF EditNote
  <1>2. /\ GoodsTyped /\ NotesTyped /\ GoodsTold /\ DeskTyped /\ RequestTold(s)
    BY DEF GoodsOK, SupplyOK, AccountTyped
  <1>3. r \in Notes
    BY <1>1, <1>2, HeldBy
  <1>4. notes[r].status = "draft" /\ notes[r] \in NoteSet
    BY <1>1, <1>2, <1>3 DEF RequestTold, Leave, NotesTyped
  <1>5. n.status = "draft"
    BY <1>4 DEF NoteSet, NoteFields
  <1>6. which = {}
    BY <1>2, <1>4 DEF GoodsTold, LotsNamed, LotKnown, LotsOf
  <1>7. UNCHANGED goods
    <2>1. lots' = [k \in DOMAIN lots |-> lots[k]]
      BY <1>1, <1>6 DEF Orphaned
    <2>2. lots = [k \in DOMAIN lots |-> lots[k]]
      BY <1>2 DEF GoodsTyped
    <2> QED
      BY <1>1, <2>1, <2>2 DEF goods
  <1> HIDE DEF r, n
  <1>8. notes'[r] = n /\ \A p \in Notes \ {r} : notes'[p] = notes[p]
    BY <1>1, <1>2, <1>3, NoteEdited
  <1> QED
    BY <1>2, <1>4, <1>5, <1>7, <1>8, GoodsUntouched

LEMMA UnreceivedTold ==
  ASSUME GoodsOK, NEW s \in Sessions, Unreceive(s)
  PROVE  GoodsTold'
PROOF
  <1> DEFINE r == job[s].note
             note == notes[r]
  <1>1. /\ Leave(s, "reverse") /\ note.status = "received"
        /\ LotsWhole(LotsOf(r, seen[s].item)) /\ OffShelf(r, seen[s].item, seen[s].total)
        /\ notes' = [notes EXCEPT ![r] = [notes[r] EXCEPT !.status = "draft"]]
    BY DEF Unreceive
  <1>2. /\ GoodsTyped /\ NotesTyped /\ GoodsTold /\ r \in Notes /\ seen[s] = note /\ note \in NoteSet
    BY <1>1, InHand
  <1> HIDE DEF r
  <1>3. notes'[r] = [note EXCEPT !.status = "draft"] /\ \A p \in Notes \ {r} : notes'[p] = notes[p]
    BY <1>1, <1>2, NoteEdited
  <1>4. notes'[r].status # "received"
    BY <1>2, <1>3 DEF NoteSet, NoteFields
  <1> QED
    BY <1>1, <1>2, <1>3, <1>4, ShelfCleared

LEMMA RemovedTold ==
  ASSUME GoodsOK, NEW s \in Sessions, RemoveNote(s)
  PROVE  GoodsTold'
PROOF
  <1> DEFINE r == job[s].note
             note == notes[r]
             n == [BlankNote EXCEPT !.item = notes[r].item]
  <1>1. /\ Leave(s, "reverse")
        /\ note.status = "received" =>
             LotsWhole(LotsOf(r, seen[s].item)) /\ OffShelf(r, seen[s].item, seen[s].total)
        /\ note.status # "received" => UNCHANGED goods
        /\ notes' = [notes EXCEPT ![r] = n]
    BY DEF RemoveNote
  <1>2. /\ GoodsTyped /\ NotesTyped /\ GoodsTold /\ r \in Notes /\ seen[s] = note
    BY <1>1, InHand
  <1>3. n.status = "none"
    BY DEF BlankNote
  <1> HIDE DEF r, n
  <1>4. notes'[r] = n /\ \A p \in Notes \ {r} : notes'[p] = notes[p]
    BY <1>1, <1>2, NoteEdited
  <1>5. CASE note.status = "received"
    BY <1>1, <1>2, <1>3, <1>4, <1>5, ShelfCleared
  <1>6. CASE note.status # "received"
    BY <1>1, <1>2, <1>3, <1>4, <1>6, GoodsUntouched
  <1> QED
    BY <1>5, <1>6

LEMMA RelabelledTold ==
  ASSUME GoodsOK, NEW s \in Sessions, Relabel(s)
  PROVE  GoodsTold'
PROOF
  <1> DEFINE r == job[s].note
             note == notes[r]
             to == job[s].branch
             n == [notes[r] EXCEPT !.supplier = job[s].supplier, !.branch = to]
  <1>1. /\ Leave(s, "relabel") /\ notes' = [notes EXCEPT ![r] = n]
        /\ IF job[s].kind = "branch" /\ seen[s].status = "received"
             THEN MoveLots(r, seen[s].branch, to) ELSE UNCHANGED goods
    BY DEF Relabel
  <1>2. /\ GoodsTyped /\ NotesTyped /\ GoodsTold /\ r \in Notes /\ seen[s] = note /\ note \in NoteSet
        /\ job[s].kind = "branch" <=> to # note.branch
        /\ to \in Branches
    BY <1>1, InHand
  <1>3. /\ n.status = note.status /\ n.item = note.item /\ n.total = note.total /\ n.branch = to
    BY <1>2 DEF NoteSet, NoteFields
  <1> HIDE DEF r, n, to
  <1>4. notes'[r] = n /\ \A p \in Notes \ {r} : notes'[p] = notes[p]
    BY <1>1, <1>2, NoteEdited
  <1>5. CASE note.status = "received" /\ job[s].kind = "branch"
    <2>1. MoveLots(r, note.branch, to)
      BY <1>1, <1>2, <1>5
    <2> QED
      BY <1>2, <1>3, <1>4, <1>5, <2>1, ShelfMoves
  <1>6. CASE note.status # "received" \/ job[s].kind # "branch"
    <2>1. UNCHANGED goods
      BY <1>1, <1>2, <1>6, SMTT(60)
    <2> QED
      BY <1>2, <1>3, <1>4, <1>6, <2>1, GoodsUntouched
  <1> QED
    BY <1>5, <1>6

\* What leaves the lots of a shelf, sold or sent back.
LEMMA DrawnTold ==
  ASSUME GoodsTyped, GoodsTold, NEW b \in Branches, NEW q \in Nat, NEW which \in SUBSET DOMAIN lots,
         \A k \in which : ~lots[k].gone /\ (lots[k].left > 0 => lots[k].branch = b),
         q <= LeftIn(which),
         \/ lots' = [k \in DOMAIN lots |-> [lots[k] EXCEPT !.left = @ - Take(k, which, q),
                                                           !.sold = @ + Take(k, which, q)]]
         \/ lots' = [k \in DOMAIN lots |-> [lots[k] EXCEPT !.left = @ - Take(k, which, q),
                                                           !.back = @ + Take(k, which, q)]],
         shelf' = [shelf EXCEPT ![b] = @ - q], stock' = stock - q,
         \A r \in Notes : /\ notes'[r].status = notes[r].status /\ notes'[r].total = notes[r].total
                          /\ notes'[r].item = notes[r].item /\ notes'[r].branch = notes[r].branch
  PROVE  GoodsTold'
PROOF
  <1>1. lots' \in Seq(KeptLots)
    BY DrawnLots
  <1>2. DOMAIN lots' = DOMAIN lots
    OBVIOUS
  <1>3. \A k \in DOMAIN lots :
          /\ lots'[k].left = lots[k].left - Take(k, which, q)
          /\ lots'[k].note = lots[k].note /\ lots'[k].item = lots[k].item
          /\ lots'[k].branch = lots[k].branch /\ lots'[k].in = lots[k].in
          /\ lots'[k].gone = lots[k].gone
    <2> TAKE k \in DOMAIN lots
    <2> DEFINE x == Take(k, which, q)
    <2>1. lots[k] \in LotSet
      BY LotsInPlace DEF KeptLots
    <2>2. \/ lots'[k] = [lots[k] EXCEPT !.left = @ - x, !.sold = @ + x]
          \/ lots'[k] = [lots[k] EXCEPT !.left = @ - x, !.back = @ + x]
      OBVIOUS
    <2> HIDE DEF x
    <2>3. lots'[k].left = lots[k].left - x
      BY <2>1, <2>2 DEF LotSet
    <2>4. /\ lots'[k].note = lots[k].note /\ lots'[k].item = lots[k].item
          /\ lots'[k].branch = lots[k].branch /\ lots'[k].in = lots[k].in
          /\ lots'[k].gone = lots[k].gone
      BY <2>1, <2>2 DEF LotSet
    <2> QED
      BY <2>3, <2>4 DEF x
  <1>4. \A c \in Branches : shelf'[c] = IF c = b THEN shelf[c] - q ELSE shelf[c]
    BY ZenonT(60) DEF GoodsTyped
  <1> QED
    BY <1>1, <1>2, <1>3, <1>4, ShelfLoses

LEMMA SentBackTold ==
  ASSUME GoodsOK, NEW s \in Sessions, SendBack(s)
  PROVE  GoodsTold'
PROOF
  <1> DEFINE r == job[s].note
             q == job[s].units
             note == notes[r]
             b == note.branch
             which == LotsOf(r, note.item)
             n == [notes[r] EXCEPT !.sentBack = @ + q, !.returns = TRUE]
  <1>1. Leave(s, "send")
    BY DEF SendBack
  <1>2. /\ GoodsTyped /\ NotesTyped /\ GoodsTold /\ r \in Notes /\ seen[s] = note /\ note \in NoteSet
        /\ q \in Nat /\ b \in Branches /\ note.status = "received"
    BY <1>1, InHand
  <1>3. /\ q <= LeftIn(which)
        /\ lots' = [k \in DOMAIN lots |-> [lots[k] EXCEPT !.left = @ - Take(k, which, q),
                                                          !.back = @ + Take(k, which, q)]]
        /\ shelf' = [shelf EXCEPT ![b] = @ - q]
        /\ stock' = OrZero(stock - q) /\ notes' = [notes EXCEPT ![r] = n]
    BY <1>2 DEF SendBack, Holds
  <1>4. which \in SUBSET DOMAIN lots
    BY DEF LotsOf
  <1>5. \A k \in which : ~lots[k].gone /\ (lots[k].left > 0 => lots[k].branch = b)
    <2>1. \A k \in DOMAIN lots : LotKnown(lots[k], notes)
      BY <1>2 DEF GoodsTold, LotsNamed
    <2> QED
      BY <2>1 DEF LotsOf, LotKnown
  <1>6. /\ n.status = note.status /\ n.item = note.item /\ n.total = note.total
        /\ n.branch = note.branch
    BY <1>2 DEF NoteSet, NoteFields
  <1> HIDE DEF which, n, q, r
  <1>7. stock' = stock - q
    <2>1. LeftIn(which) <= shelf[b] /\ shelf[b] <= stock /\ stock \in Nat /\ shelf[b] \in Nat
      BY <1>2, <1>4, <1>5, ShelfHolds
    <2>2. LeftIn(which) \in Nat
      BY <1>2, <1>4, LeftInIs
    <2>3. stock' = OrZero(stock - q) /\ q <= LeftIn(which) /\ q \in Nat
      BY <1>2, <1>3
    <2> DEFINE held == LeftIn(which)
               here == shelf[b]
    <2> HIDE DEF held, here
    <2>4. q <= held /\ held <= here /\ here <= stock /\ stock \in Nat /\ here \in Nat /\ held \in Nat
      BY <2>1, <2>2, <2>3 DEF held, here
    <2>5. q <= stock
      BY ONLY <2>3, <2>4
    <2> QED
      BY ONLY <2>3, <2>4, <2>5 DEF OrZero
  <1>8. notes'[r] = n /\ \A p \in Notes \ {r} : notes'[p] = notes[p]
    BY <1>2, <1>3, NoteEdited
  <1>9. \A p \in Notes : /\ notes'[p].status = notes[p].status /\ notes'[p].total = notes[p].total
                         /\ notes'[p].item = notes[p].item /\ notes'[p].branch = notes[p].branch
    BY <1>6, <1>8, SMTT(60)
  <1> QED
    BY <1>2, <1>3, <1>4, <1>5, <1>7, <1>9, DrawnTold, ZenonT(60)

LEMMA SoldTold ==
  ASSUME GoodsTyped, GoodsTold, Sale, NotOversold
  PROVE  GoodsTold'
PROOF
  <1>1. PICK b \in Branches, q \in Cuts :
          /\ lots' = [k \in DOMAIN lots |-> [lots[k] EXCEPT !.left = @ - Take(k, OnShelf(b), q),
                                                            !.sold = @ + Take(k, OnShelf(b), q)]]
          /\ shelf' = [shelf EXCEPT ![b] = @ - q]
          /\ stock' = stock - q
          /\ UNCHANGED <<account, books, desk>>
    BY DEF Sale
  <1>2. q \in Nat /\ OnShelf(b) \in SUBSET DOMAIN lots
    BY DeliveryAssumption DEF OnShelf
  <1>3. \A k \in OnShelf(b) : ~lots[k].gone /\ (lots[k].left > 0 => lots[k].branch = b)
    BY DEF OnShelf
  <1>4. q <= LeftIn(OnShelf(b))
    <2>1. shelf'[b] >= 0 /\ shelf'[b] = shelf[b] - q /\ shelf[b] \in Int
      BY <1>1 DEF NotOversold, GoodsTyped
    <2>2. shelf[b] = LeftIn(OnShelf(b))
      BY ShelfHolds
    <2> QED
      BY <1>2, <2>1, <2>2
  <1>5. notes' = notes
    BY <1>1 DEF account
  <1> QED
    BY <1>1, <1>2, <1>3, <1>4, <1>5, DrawnTold, ZenonT(60)

LEMMA EnteredTold ==
  ASSUME GoodsTyped, NotesTyped, GoodsTold, CreateNote
  PROVE  GoodsTold'
PROOF
  <1>1. PICK r \in Notes, b \in Branches, p \in Suppliers \union {"none"}, q \in Lines,
             draft \in BOOLEAN :
          /\ ~There(r) /\ notes[r].item = 0
          /\ \A earlier \in Notes : earlier < r => notes[earlier].item # 0
          /\ ~draft => q > 0
          /\ notes' = [notes EXCEPT ![r] =
                   [BlankNote EXCEPT !.status = IF draft THEN "draft" ELSE "received",
                                     !.supplier = p, !.branch = b, !.total = q, !.item = 1]]
          /\ IF draft THEN UNCHANGED goods ELSE PutOnShelf(r, 1, b, q)
          /\ UNCHANGED <<remitted, credit, advanced, books, desk>>
    BY Zenon DEF CreateNote
  <1> DEFINE status == IF draft THEN "draft" ELSE "received"
             n == [BlankNote EXCEPT !.status = status, !.supplier = p, !.branch = b, !.total = q,
                                    !.item = 1]
  <1>2. notes' = [notes EXCEPT ![r] = n]
    BY <1>1
  <1>3. draft => status = "draft"
    OBVIOUS
  <1>4. ~draft => status = "received"
    OBVIOUS
  <1> HIDE DEF status
  <1>5. n.status = status /\ n.item = 1 /\ n.branch = b /\ n.total = q
    BY DEF BlankNote
  <1> HIDE DEF n
  <1>6. notes'[r] = n /\ \A e \in Notes \ {r} : notes'[e] = notes[e]
    BY <1>2, NoteEdited
  <1>7. q \in Nat /\ notes[r].status # "received" /\ 1 \in Nat
    BY <1>1, DeliveryAssumption DEF There
  <1>8. CASE draft
    <2>1. UNCHANGED goods
      BY <1>1, <1>8
    <2>2. notes'[r].status # "received"
      BY <1>3, <1>5, <1>6, <1>8
    <2> QED
      BY <1>6, <1>7, <2>1, <2>2, GoodsUntouched
  <1>9. CASE ~draft
    <2>1. PutOnShelf(r, 1, b, q) /\ q > 0
      BY <1>1, <1>9
    <2>2. notes'[r].status = "received"
      BY <1>4, <1>5, <1>6, <1>9
    <2>3. notes'[r].item = 1 /\ notes'[r].branch = b /\ notes'[r].total = q
      BY <1>5, <1>6
    <2> QED
      BY <1>6, <1>7, <2>1, <2>2, <2>3, ShelfGains
  <1> QED
    BY <1>8, <1>9

LEMMA GoodsMove ==
  ASSUME GoodsOK, Deliver, OneByOne, NotOversold
  PROVE  GoodsOK'
PROOF
  <1>1. StoreNext /\ (GoodsNext \/ PayDesk)
    BY DEF StoreNext, Deliver, DeliveryNext
  <1>2. SupplyOK /\ AccountTyped /\ GoodsTyped /\ NotesTyped /\ DeskTyped /\ GoodsTold /\ OneBusy
    BY DEF GoodsOK, SupplyOK, AccountTyped
  <1>3. SupplyOK'
    BY <1>1, <1>2, SupplySteps
  <1>4. ASSUME UNCHANGED desk, GoodsTold'
        PROVE  GoodsOK'
    <2>1. AllIdle' /\ OneBusy'
      BY <1>1, <1>4, AloneRests
    <2>2. \A s \in Sessions : RequestTold(s)'
      BY <2>1 DEF AllIdle, RequestTold
    <2> QED
      BY <1>3, <1>4, <2>1, <2>2 DEF GoodsOK
  <1>5. CASE CreateNote
    <2>1. UNCHANGED desk
      BY <1>5 DEF CreateNote
    <2> QED
      BY <1>2, <1>4, <1>5, <2>1, EnteredTold
  <1>6. CASE Sale
    <2>1. UNCHANGED desk
      BY <1>6 DEF Sale
    <2> QED
      BY <1>2, <1>4, <1>6, <2>1, SoldTold
  <1>7. ASSUME NEW s \in Sessions, Looks(s)
        PROVE  GoodsOK'
    <2>1. UNCHANGED <<notes, goods>> /\ OneBusy' /\ \A t \in Sessions : RequestTold(t)'
      BY <1>1, <1>7, RequestLooks
    <2>2. GoodsTold'
      BY <1>2, <2>1, GoodsUntouched
    <2> QED
      BY <1>3, <2>1, <2>2 DEF GoodsOK
  <1>8. CASE PayDesk
    <2>1. /\ AccountNext /\ UNCHANGED <<goods, desk>> /\ RemitsTyped
          /\ \A r \in Notes : notes'[r].branch = notes[r].branch
      BY <1>2, <1>8, PaymentsKeepReturns DEF PayDesk, AccountTyped
    <2>2. OnlyPaidMoves
      BY <1>2, <2>1, DeskPays DEF PaysStep, CancelStep
    <2>3. GoodsTold'
      BY <1>2, <2>1, <2>2, GoodsUntouched DEF OnlyPaidMoves
    <2> QED
      BY <1>4, <2>1, <2>3
  <1>9. ASSUME NEW s \in Sessions,
               \/ ReceiveNote(s) \/ EditNote(s) \/ Unreceive(s) \/ RemoveNote(s) \/ Relabel(s)
               \/ SendBack(s) \/ DeliveryGivesUp(s)
        PROVE  GoodsOK'
    <2>1. PICK here : here # "idle" /\ Leave(s, here)
      BY <1>9, Zenon DEF ReceiveNote, EditNote, Unreceive, RemoveNote, Relabel, SendBack, DeliveryGivesUp, Abandon
    <2>2. AllIdle' /\ OneBusy'
      BY <1>2, <2>1, AloneEnds
    <2>3. \A t \in Sessions : RequestTold(t)'
      BY <2>2 DEF AllIdle, RequestTold
    <2>4. CASE DeliveryGivesUp(s)
      <3>1. UNCHANGED goods /\ notes' = notes
        BY <2>4 DEF DeliveryGivesUp, account
      <3> QED
        BY <1>2, <1>3, <2>2, <2>3, <3>1, GoodsUntouched DEF GoodsOK
    <2>5. CASE ~DeliveryGivesUp(s)
      <3>1. GoodsTold'
        BY <1>9, <2>5, ReceivedTold, EditedTold, UnreceivedTold, RemovedTold, RelabelledTold, SentBackTold
      <3> QED
        BY <1>3, <2>2, <2>3, <3>1 DEF GoodsOK
    <2> QED
      BY <2>4, <2>5, ZenonT(60)
  <1> QED
    BY <1>1, <1>5, <1>6, <1>7, <1>8, <1>9 DEF GoodsNext, Looks

LEMMA GoodsSteps ==
  ASSUME GoodsOK, SupplyNext, supplyLoad = "goods alone"
  PROVE  GoodsOK'
  BY LoadSteps, GoodsMove DEF GoodsAlone, Deliver, DeliveryNext, StoreShut

LEMMA GoodsStart == ASSUME StoreInit PROVE GoodsOK
PROOF
  <1>1. SupplyOK
    BY SupplyStart
  <1>2. /\ lots = <<>> /\ shelf = [b \in Branches |-> 0] /\ stock = 0
        /\ notes = [r \in Notes |-> BlankNote] /\ BlankNote.status = "none"
        /\ phase = [s \in Sessions |-> "idle"]
    BY DEF StoreInit, DeliveryInit, AccountInit, DeskInit, BlankNote
  <1>3. \A w : Weigh(lots, w) = 0
    <2> TAKE w
    <2>1. DOMAIN lots = {}
      BY <1>2
    <2> QED
      BY <2>1, SumEmpty DEF Weigh
  <1>4. LotsNamed
    BY <1>2 DEF LotsNamed
  <1>5. AllBrought
    BY <1>2, <1>3 DEF AllBrought, Brought
  <1>6. Shelved
    BY <1>2, <1>3 DEF Shelved
  <1>7. Stocked
    <2>1. IsFiniteSet(Branches) /\ \A b \in Branches : shelf[b] = 0
      BY <1>2, DeliveryAssumption
    <2> QED
      BY <1>2, <2>1, SumZero DEF Stocked
  <1> QED
    BY <1>1, <1>2, <1>4, <1>5, <1>6, <1>7 DEF GoodsOK, GoodsTold, OneBusy, RequestTold

LEMMA GoodsTell == ASSUME GoodsOK PROVE NotesOnShelf /\ ShelvesAddUp
PROOF
  <1>1. /\ GoodsTyped /\ GoodsTold /\ AllBrought /\ Shelved /\ Stocked
        /\ lots \in Seq(KeptLots) /\ shelf \in [Branches -> Int]
        /\ IsFiniteSet(DOMAIN lots) /\ \A k \in DOMAIN lots : lots[k] \in KeptLots
    BY LotsInPlace DEF GoodsOK, SupplyOK, GoodsTold, GoodsTyped
  <1>2. ShelvesAddUp
    <2>1. DOMAIN shelf = Branches
      BY <1>1
    <2>2. stock = SumFunction(shelf)
      BY <1>1, <2>1 DEF SumFunction, Stocked
    <2>3. \A b \in Branches : shelf[b] = LeftIn(OnShelf(b))
      BY <1>1, ShelfHolds
    <2> QED
      BY <2>2, <2>3 DEF ShelvesAddUp
  <1>3. ASSUME NEW r \in Notes
        PROVE  SumFunction([k \in {k \in DOMAIN lots : ~lots[k].gone /\ lots[k].note = r} |-> lots[k].in])
                 = Brought(notes[r])
    <2> DEFINE S == DOMAIN lots
               there == {k \in S : ~lots[k].gone /\ lots[k].note = r}
               f == [k \in there |-> lots[k].in]
               g == Weighed(lots, InOf(r))
    <2>1. DOMAIN f = there /\ there \in SUBSET S /\ \A k \in there : f[k] = lots[k].in
      OBVIOUS
    <2>2. \A k \in S : lots[k].in \in Nat
      BY <1>1, LotFields
    <2>3. InOf(r) \in [KeptLots -> Nat]
      BY WeightsAre
    <2>4. \A k \in S : g[k] = InOf(r)[lots[k]]
      BY <1>1, <2>3, WeighedIs
    <2>5. \A k \in S : InOf(r)[lots[k]] = IF k \in there THEN lots[k].in ELSE 0
      BY <1>1 DEF InOf
    <2>6. SumFunctionOnSet(g, S) = Brought(notes[r])
      BY <1>1 DEF AllBrought, Weigh
    <2> HIDE DEF f, g, there
    <2>7. \A k \in there : f[k] \in Int /\ g[k] = f[k]
      BY <2>1, <2>2, <2>4, <2>5
    <2>8. \A k \in S \ there : g[k] = 0
      BY <2>4, <2>5
    <2>9. IsFiniteSet(S) /\ there \in SUBSET S
      BY <1>1, <2>1
    <2>10. SumFunctionOnSet(g, S) = SumFunctionOnSet(f, there)
      BY ONLY <2>7, <2>8, <2>9, SumSupport
    <2>11. SumFunction(f) = Brought(notes[r])
      BY <2>1, <2>6, <2>10 DEF SumFunction
    <2> QED
      BY <2>11 DEF f, there
  <1>4. NotesOnShelf
    BY <1>3 DEF NotesOnShelf, Brought
  <1> QED
    BY <1>2, <1>4

------------------------------------------------------------------------------
\* Nothing happens, and nothing is lost of what holds.
LEMMA AllRests ==
  ASSUME UNCHANGED storeVars
  PROVE  (GoodsOK => GoodsOK') /\ (PapersOK => PapersOK') /\ (CreditsOK => CreditsOK')
PROOF
  <1>1. /\ UNCHANGED <<storeVars, goods>> /\ notes' = notes
        /\ remitted' = remitted /\ credit' = credit /\ advanced' = advanced /\ handOvers' = handOvers
        /\ phase' = phase /\ job' = job /\ seen' = seen
    BY DEF storeVars, store, account, goods, desk
  <1>2. SupplyOK => SupplyOK'
    BY <1>1, SupplySteps
  <1>3. PaidOK => PaidOK'
    BY <1>1, PaidSteps
  <1>4. OneBusy => OneBusy'
    BY <1>1 DEF OneBusy
  <1>5. GoodsOK => GoodsOK'
    <2>1. GoodsTyped /\ GoodsTold => GoodsTold'
      BY <1>1, GoodsUntouched
    <2>2. \A s \in Sessions : RequestTold(s) => RequestTold(s)'
      BY <1>1 DEF RequestTold
    <2> QED
      BY <1>2, <1>4, <2>1, <2>2 DEF GoodsOK, SupplyOK
  <1>6. PapersOK => PapersOK'
    BY <1>1, <1>3, <1>4 DEF PapersOK, PaidNotesStay, PaperRead
  <1>7. CreditsOK => CreditsOK'
    BY <1>1, <1>2 DEF CreditsOK, CreditAddsUp, Named, NoPapers
  <1> QED
    BY <1>5, <1>6, <1>7

\* Deliveries, payments, returns and sales one request at a time, with nothing
\* oversold: the open lots of a received note are its lines, once, a draft has
\* none, and each branch's stock and the total are what the lots hold.
THEOREM GoodsOnShelfThm ==
  StoreInit /\ [][Deliver /\ OneByOne /\ NotOversold]_storeVars => [](NotesOnShelf /\ ShelvesAddUp)
PROOF
  <1>1. StoreInit => GoodsOK
    BY GoodsStart
  <1>2. GoodsOK /\ [Deliver /\ OneByOne /\ NotOversold]_storeVars => GoodsOK'
    BY GoodsMove, AllRests
  <1>3. GoodsOK => NotesOnShelf /\ ShelvesAddUp
    BY GoodsTell
  <1> QED
    BY <1>1, <1>2, <1>3, PTL

\* One request at a time, however much is oversold, a note on which a payment or
\* a return stands is never taken back to a draft nor deleted.
THEOREM PaidNotesStayThm ==
  StoreInit /\ [][Deliver /\ OneByOne]_storeVars => []PaidNotesStay
PROOF
  <1>1. StoreInit => PapersOK
    BY PapersStart
  <1>2. PapersOK /\ [Deliver /\ OneByOne]_storeVars => PapersOK'
    BY PapersMove, AllRests
  <1>3. PapersOK => PaidNotesStay
    BY DEF PapersOK
  <1> QED
    BY <1>1, <1>2, <1>3, PTL

\* Whatever overlaps, as long as no note is relabelled or deleted: suppliers'
\* credit is never overdrawn, and what they hold and what stands paid from credit
\* is all the credit they were given.
THEOREM CreditAccountedThm == StoreSpec /\ []NoPapers => []CreditAccounted
PROOF
  <1>1. StoreInit => CreditsOK
    BY CreditsStart
  <1>2. CreditsOK /\ NoPapers' /\ [StoreNext]_storeVars => CreditsOK'
    BY CreditsMove, AllRests
  <1>3. CreditsOK => CreditAccounted
    BY CreditsTell
  <1> QED
    BY <1>1, <1>2, <1>3, PTL DEF StoreSpec

\* What holds throughout each load.
LoadTold ==
  /\ supplyLoad = "goods alone" => GoodsOK
  /\ supplyLoad = "papers alone" => PapersOK
  /\ supplyLoad \in {"accounts", "defects"} => CreditsOK

\* Requests of the back office that come one after another leave the supply
\* side in order: with nothing oversold, received notes are on the shelf with
\* exactly their lines and the shelves add up (NotesOnShelf, ShelvesAddUp); with
\* payments, notes that were paid or sent back stay received (PaidNotesStay);
\* and as long as no note changes its supplier or is deleted, a supplier's
\* credit is what was given less what was spent (CreditAccounted).
THEOREM AloneSupplyThm == SupplySpec => []AloneSupplyTrue
PROOF
  <1>1. SupplyInit => LoadTold
    BY GoodsStart, PapersStart, CreditsStart DEF SupplyInit, LoadTold
  <1>2. ASSUME LoadTold, [SupplyNext]_<<storeVars, supplyLoad>>
        PROVE  LoadTold'
    <2>1. CASE SupplyNext
      <3>1. supplyLoad' = supplyLoad
        BY <2>1, LoadSteps
      <3>2. CASE supplyLoad = "goods alone"
        BY <1>2, <2>1, <3>1, <3>2, GoodsSteps DEF LoadTold
      <3>3. CASE supplyLoad = "papers alone"
        BY <1>2, <2>1, <3>1, <3>3, PapersSteps DEF LoadTold
      <3>4. CASE supplyLoad \in {"accounts", "defects"}
        BY <1>2, <2>1, <3>1, <3>4, CreditsSteps DEF LoadTold
      <3>5. CASE supplyLoad \notin {"goods alone", "papers alone", "accounts", "defects"}
        BY <3>1, <3>5 DEF LoadTold
      <3> QED
        BY <3>2, <3>3, <3>4, <3>5
    <2>2. CASE UNCHANGED <<storeVars, supplyLoad>>
      BY <1>2, <2>2, AllRests DEF LoadTold
    <2> QED
      BY <1>2, <2>1, <2>2
  <1>3. LoadTold => AloneSupplyTrue
    BY GoodsTell, CreditsTell DEF LoadTold, AloneSupplyTrue, PapersOK
  <1> QED
    BY <1>1, <1>2, <1>3, PTL DEF SupplySpec
==============================================================================
