------------------------------ MODULE MCSupply ------------------------------
(***************************************************************************)
(* Deliveries, the suppliers' accounts and the store of defective goods.   *)
(* Each load looks at one side of them and leaves the rest out; in those   *)
(* named "alone" requests come one after another.                          *)
(***************************************************************************)
EXTENDS DefectiveStore, TLC

CONSTANTS SupplyLoads, cashbox, shop, main, spare
VARIABLE supplyLoad

SupplySymmetric == Permutations(Sessions)

\* One request at a time, and nothing else while it runs.
OneByOne ==
  /\ \A s, t \in Sessions : phase'[s] # "idle" /\ phase'[t] # "idle" => s = t
  /\ desk' = desk => \A s \in Sessions : phase'[s] = "idle"

OnlyKinds(kinds) == \A s \in Sessions : job'[s].kind \in kinds \union {"none"}
Entered == {r \in Notes : notes'[r].status # "none"}
OneNote == notes'[2].item = 0
AtShop == \A r \in Entered : notes'[r].branch = shop
FromMain == \A r \in Entered : notes'[r].supplier = main
OfTwo == \A r \in Entered : notes'[r].total = 2
StoreShut == UNCHANGED store
NotOversold == \A b \in Branches : shelf'[b] >= 0
UnitsGone == SumFunction([k \in DOMAIN lots' |-> lots'[k].sold + lots'[k].back])

\* What each load leaves out.
GoodsAlone == /\ OneByOne /\ FromMain /\ OfTwo /\ NotOversold
              /\ OnlyKinds({"receive", "unreceive", "remove", "branch", "send"})
              /\ notes'[2].status # "draft"

GoodsTogether == /\ FromMain /\ OfTwo /\ OneNote
                 /\ OnlyKinds({"receive", "unreceive", "remove", "branch", "send"})
                 /\ UnitsGone <= 1 /\ \A b \in Branches : shelf'[b] >= -1
                 /\ stock' >= -1

PapersAlone == /\ OneByOne /\ OneNote /\ AtShop /\ NotOversold
               /\ \A r \in Entered : notes'[r].supplier # spare
               /\ Len(rows') <= 2 /\ Len(lots') <= 2 /\ Len(remitted') <= 1
               /\ credit'[spare] = 0 /\ advanced' <= 1

AccountsOnly ==
  /\ OnlyKinds({}) /\ AtShop /\ UnitsGone = 0 /\ NotOversold
  /\ \A r \in Entered : notes'[r].status = "received" /\ notes'[r].supplier # "none"
  /\ \A k \in DOMAIN rows' : rows'[k].account = cashbox
  /\ Len(rows') <= 3 /\ advanced' <= 2

Defects == /\ OneByOne /\ OneNote /\ AtShop /\ FromMain /\ OfTwo /\ NotOversold /\ UnitsGone = 0
           /\ OnlyKinds({"hand"}) /\ \A r \in Entered : notes'[r].status = "received"
           /\ Len(rows') <= 2 /\ Len(remitted') <= 1
           /\ \A k \in DOMAIN rows' : rows'[k].account = cashbox
           /\ \A k \in DOMAIN defects' : defects'[k].branch = shop
           /\ advanced' <= 1 /\ credit'[spare] = 0 /\ Len(lots') <= 2
           /\ (\E k \in DOMAIN defects' : defects'[k].source = "opening")
                => \A n \in DOMAIN handOvers' : ~handOvers'[n].undone

SupplyInit == StoreInit /\ supplyLoad \in SupplyLoads

SupplyNext ==
  /\ supplyLoad' = supplyLoad
  /\ \/ GoodsNext /\ StoreShut
     \/ supplyLoad \in {"papers alone", "accounts", "defects"} /\ PayDesk /\ StoreShut
     \/ supplyLoad = "defects" /\ DefectsNext
  /\ CASE supplyLoad = "goods alone"    -> GoodsAlone
       [] supplyLoad = "goods together" -> GoodsTogether
       [] supplyLoad = "papers alone"   -> PapersAlone
       [] supplyLoad = "accounts"       -> AccountsOnly
       [] supplyLoad = "defects"        -> Defects

------------------------------------------------------------------------------
\* What each load shows.
AloneSupplyTrue == /\ supplyLoad = "goods alone" => NotesOnShelf /\ ShelvesAddUp
                   /\ supplyLoad = "papers alone" => PaidNotesStay
                   /\ supplyLoad \in {"accounts", "defects"} => CreditAccounted

SupplySpec == SupplyInit /\ [][SupplyNext]_<<storeVars, supplyLoad>>
=============================================================================
