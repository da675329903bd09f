----------------------------- MODULE MarketProofs -----------------------------
(***************************************************************************)
(* Theorems about Market for every number of workers, users, items,        *)
(* listings and requests of every kind, with failing statements and kills; *)
(* of requests to list and to buy, that a sale is whole (remove_listing    *)
(* works outside a transaction, so its statements can fall into the sale   *)
(* of another worker: no requests to remove there); and, while requests do *)
(* not overlap, that money is neither made nor lost and that every         *)
(* purchase counts.                                                        *)
(***************************************************************************)
EXTENDS Market, SumProofs, TLAPS

ConnectionType ==
  /\ tables \in Tables
  /\ durable \in Tables
  /\ inTx \in BOOLEAN
  /\ changes \in {0, 1}
  /\ lastRow \in ListingIds \cup {OtherRow}

JobsType == job \in [Workers -> Job]

WellTyped == ConnectionType /\ JobsType

Labels == OutsideTx \cup InsideTx

-----------------------------------------------------------------------------
(* Money.                                                                  *)

(* The market's fee is at most the price, and a payout is positive. *)
LEMMA FeeIsPart ==
  ASSUME NEW p \in Nat
  PROVE  Fee(p) \in Nat /\ Fee(p) <= p
BY DEF Fee

LEMMA PayoutPositive ==
  ASSUME NEW p \in Nat
  PROVE  Payout(p) \in Nat \ {0}
<1>1. Fee(p) \in Nat /\ Fee(p) <= p
  BY FeeIsPart
<1> QED
  BY <1>1 DEF Payout, LISTING_FEE

-----------------------------------------------------------------------------
(* Rows and locals are well typed.                                         *)

LEMMA SomeUserItem ==
  /\ (CHOOSE u \in Users : TRUE) \in Users
  /\ (CHOOSE i \in Items : TRUE) \in Items
BY MarketAssumption

LEMMA IdleType == Idle \in Job
BY SomeUserItem, MarketAssumption DEF Idle, Job, OutsideTx, ListingIds

LEMMA AtType ==
  ASSUME NEW j \in Job, NEW label \in Labels
  PROVE  At(j, label) \in Job
BY DEF At, Job, Labels

LEMMA NextCallType == ASSUME NEW j \in Job PROVE NextCall(j) \in Job
<1>1. CASE j.call = 4
  BY <1>1, IdleType DEF NextCall
<1>2. CASE j.call # 4
  <2>1. j.call + 1 \in 1 .. 4
    BY <1>2 DEF Job
  <2> QED
    BY <1>2, <2>1 DEF NextCall, Job, OutsideTx
<1> QED
  BY <1>1, <1>2

LEMMA CallOfJob ==
  ASSUME NEW j \in Job
  PROVE  /\ Subject(j) \in Users
         /\ QuestOf(j) \in Quests
         /\ Increment(j) \in Nat
<1>1. j.price \in Nat /\ j.user \in Users /\ j.seller \in Users
  BY DEF Job
<1>2. Payout(j.price) \in Nat
  BY <1>1, PayoutPositive
<1> QED
  BY <1>1, <1>2 DEF Subject, QuestOf, Quests, Increment

LEMMA BecomeType ==
  ASSUME JobsType, NEW w \in Workers, NEW j \in Job, Become(w, j)
  PROVE  JobsType'
BY DEF JobsType, Become

-----------------------------------------------------------------------------
(* Every use of the connection keeps it well typed.                        *)

LEMMA UpdateType ==
  ASSUME ConnectionType, NEW rows \in Tables, NEW n \in {0, 1},
         Update(rows, n)
  PROVE  ConnectionType'
BY DEF ConnectionType, Update, Store

LEMMA InsertType ==
  ASSUME ConnectionType, NEW rows \in Tables,
         NEW r \in ListingIds \cup {OtherRow}, Insert(rows, r)
  PROVE  ConnectionType'
BY DEF ConnectionType, Insert, Store

LEMMA ControlType ==
  ASSUME ConnectionType,
         \/ UNCHANGED connection \/ Begin \/ BeginRefused
         \/ Commit \/ CommitRefused \/ Rollback \/ Reopen
  PROVE  ConnectionType'
BY DEF ConnectionType, connection, Begin, BeginRefused, Commit, CommitRefused,
       Rollback, Reopen

(* A step that only changes locals, or also the transaction. *)
LEMMA LocalType ==
  ASSUME WellTyped, NEW w \in Workers, NEW j \in Job, Become(w, j),
         \/ UNCHANGED connection \/ Begin \/ BeginRefused
         \/ Commit \/ CommitRefused \/ Rollback
  PROVE  WellTyped'
BY ControlType, BecomeType DEF WellTyped

LEMMA WriteType ==
  ASSUME WellTyped, NEW w \in Workers, NEW rows \in Tables, NEW n \in {0, 1},
         NEW next \in Job, NEW failed \in Job,
         Write(w, rows, n, next, failed)
  PROVE  WellTyped'
<1>1. CASE Update(rows, n) /\ Become(w, next)
  BY <1>1, UpdateType, BecomeType DEF WellTyped
<1>2. CASE UNCHANGED connection /\ Become(w, failed)
  BY <1>2, LocalType
<1> QED
  BY <1>1, <1>2 DEF Write

LEMMA WriteNewType ==
  ASSUME WellTyped, NEW w \in Workers, NEW rows \in Tables,
         NEW next \in Job, NEW failed \in Job,
         WriteNew(w, rows, next, failed)
  PROVE  WellTyped'
<1>1. CASE Insert(rows, OtherRow) /\ Become(w, next)
  BY <1>1, InsertType, BecomeType DEF WellTyped
<1>2. CASE UNCHANGED connection /\ Become(w, failed)
  BY <1>2, LocalType
<1> QED
  BY <1>1, <1>2 DEF WriteNew

(* The rows the handlers write. *)
LEMMA RowsType ==
  ASSUME ConnectionType, NEW u \in Users, NEW i \in Items
  PROVE  /\ tables \in Tables
         /\ [tables EXCEPT !.inventory = @ \cup {<<u, i>>}] \in Tables
         /\ [tables EXCEPT !.inventory = @ \ {<<u, i>>}] \in Tables
         /\ [tables EXCEPT !.owner[i] = u] \in Tables
         /\ \A n \in Int : [tables EXCEPT !.balance[u] = n] \in Tables
         /\ \A q \in Quests, n \in Nat :
              [tables EXCEPT !.progress[u][q] = n] \in Tables
         /\ \A l \in ListingIds, s \in ListingStates :
              [tables EXCEPT !.listings[l].state = s] \in Tables
         /\ \A l \in ListingIds, row \in Listing :
              [tables EXCEPT !.listings[l] = row] \in Tables
<1> USE DEF ConnectionType
<1>1. tables \in Tables
  OBVIOUS
<1>2. [tables EXCEPT !.owner[i] = u] \in Tables
  BY DEF Tables
<1>7. /\ [tables EXCEPT !.inventory = @ \cup {<<u, i>>}] \in Tables
      /\ [tables EXCEPT !.inventory = @ \ {<<u, i>>}] \in Tables
  <2>1. /\ tables.inventory \cup {<<u, i>>} \subseteq Users \X Items
        /\ tables.inventory \ {<<u, i>>} \subseteq Users \X Items
    BY DEF Tables
  <2> QED
    BY <2>1 DEF Tables
<1>3. \A n \in Int : [tables EXCEPT !.balance[u] = n] \in Tables
  BY DEF Tables
<1>4. \A q \in Quests, n \in Nat :
        [tables EXCEPT !.progress[u][q] = n] \in Tables
  BY DEF Tables
<1>6. \A l \in ListingIds, row \in Listing :
        [tables EXCEPT !.listings[l] = row] \in Tables
  BY DEF Tables
<1>5. ASSUME NEW l \in ListingIds, NEW s \in ListingStates
      PROVE  [tables EXCEPT !.listings[l].state = s] \in Tables
  <2>1. tables.listings[l] \in Listing
    BY DEF Tables
  <2>2. [tables.listings[l] EXCEPT !.state = s] \in Listing
    BY <2>1 DEF Listing
  <2> QED
    BY <1>6, <2>2 DEF Tables
<1> QED
  BY <1>1, <1>2, <1>3, <1>4, <1>5, <1>6, <1>7

LEMMA GiveType ==
  ASSUME WellTyped, NEW w \in Workers, NEW u \in Users, NEW i \in Items,
         NEW next \in Job, NEW failed \in Job, Give(w, u, i, next, failed)
  PROVE  WellTyped'
BY RowsType, WriteType, WriteNewType DEF WellTyped, Give

LEMMA TakeType ==
  ASSUME WellTyped, NEW w \in Workers, NEW u \in Users, NEW i \in Items,
         NEW next \in Job, NEW failed \in Job, Take(w, u, i, next, failed)
  PROVE  WellTyped'
BY RowsType, WriteType DEF WellTyped, Take

LEMMA PayType ==
  ASSUME WellTyped, NEW w \in Workers, NEW u \in Users, NEW n \in Int,
         NEW next \in Job, NEW failed \in Job, Pay(w, u, n, next, failed)
  PROVE  WellTyped'
<1>1. PICK i \in Items : TRUE
  BY MarketAssumption
<1>2. [tables EXCEPT !.balance[u] = n] \in Tables
  BY <1>1, RowsType DEF WellTyped
<1> QED
  BY <1>2, WriteType DEF Pay

LEMMA BeginAtType ==
  ASSUME WellTyped, NEW w \in Workers, NEW label, NEW next \in Job,
         NEW refused \in Job, BeginAt(w, label, next, refused)
  PROVE  WellTyped'
BY LocalType DEF BeginAt

-----------------------------------------------------------------------------
(* Each step of a handler keeps the connection and the locals well typed.  *)

LEMMA ListKeepsTypes ==
  ASSUME WellTyped, NEW w \in Workers, List(w)
  PROVE  WellTyped'
<1>j. job[w] \in Job /\ job[w].user \in Users /\ job[w].item \in Items
  BY DEF WellTyped, JobsType, Job
<1>l. {"list_begin", "list_fee", "list_take", "list_save", "commit", "rollback"}
        \subseteq Labels
  BY DEF Labels, OutsideTx, InsideTx
<1>1. CASE ListSkinOnMarket(w)
  <2>1. PICK i \in Items, p \in Prices :
          Become(w, [Idle EXCEPT !.pc = "list_funds", !.user = tables.owner[i],
                                 !.item = i, !.price = p])
    BY <1>1 DEF ListSkinOnMarket
  <2>2. tables.owner[i] \in Users /\ p \in Nat
    BY MarketAssumption DEF WellTyped, ConnectionType, Tables
  <2>3. [Idle EXCEPT !.pc = "list_funds", !.user = tables.owner[i],
                     !.item = i, !.price = p] \in Job
    BY <2>2, IdleType DEF Job, OutsideTx
  <2> QED
    BY <1>1, <2>1, <2>3, LocalType DEF ListSkinOnMarket
<1>2. CASE ListLoadUser(w)
  <2>1. tables.balance[job[w].user] \in Int
    BY <1>j DEF WellTyped, ConnectionType, Tables
  <2>2. [job[w] EXCEPT !.pc = "list_begin",
                       !.balance = tables.balance[job[w].user]] \in Job
    BY <1>j, <2>1 DEF Job, OutsideTx
  <2> QED
    BY <1>2, <2>2, IdleType, LocalType DEF ListLoadUser
<1>3. CASE ListBegin(w)
  BY <1>3, <1>j, <1>l, IdleType, AtType, BeginAtType DEF ListBegin
<1>4. CASE ListDeductFee(w)
  <2>1. job[w].balance - LISTING_FEE \in Int
    BY <1>j DEF Job, LISTING_FEE
  <2> QED
    BY <1>4, <1>j, <1>l, <2>1, AtType, PayType DEF ListDeductFee
<1>5. CASE ListRemoveFromInventory(w)
  BY <1>5, <1>j, <1>l, AtType, TakeType DEF ListRemoveFromInventory
<1>6. CASE SaveListing(w)
  <2> DEFINE row == [seller |-> job[w].user, item |-> job[w].item,
                     price |-> job[w].price, state |-> "active"]
  <2>1. row \in Listing
    BY <1>j DEF Job, Listing, ListingStates
  <2>2. \A l \in ListingIds : [tables EXCEPT !.listings[l] = row] \in Tables
    BY <1>j, <2>1, RowsType DEF WellTyped
  <2>3. CASE \E l \in ListingIds :
               /\ Insert([tables EXCEPT !.listings[l] = row], l)
               /\ Become(w, At(job[w], "commit"))
    BY <1>j, <1>l, <2>2, <2>3, AtType, InsertType, BecomeType DEF WellTyped
  <2>4. CASE UNCHANGED connection /\ Become(w, At(job[w], "rollback"))
    BY <1>j, <1>l, <2>4, AtType, LocalType
  <2> QED
    BY <1>6, <2>3, <2>4 DEF SaveListing
<1> QED
  BY <1>1, <1>2, <1>3, <1>4, <1>5, <1>6 DEF List

LEMMA BuyKeepsTypes ==
  ASSUME WellTyped, NEW w \in Workers, Buy(w)
  PROVE  WellTyped'
<1>j. /\ job[w] \in Job
      /\ job[w].user \in Users
      /\ job[w].seller \in Users
      /\ job[w].item \in Items
  BY DEF WellTyped, JobsType, Job
<1>l. {"find", "mark", "marked", "buyer", "seller", "pay_buyer", "pay_seller",
       "own", "take", "give", "lock", "history", "commit", "rollback", "call"}
        \subseteq Labels
  BY DEF Labels, OutsideTx, InsideTx
<1>r. \A label \in Labels : At(job[w], label) \in Job
  BY <1>j, AtType
<1>1. CASE BuyFromMarket(w)
  <2>1. PICK u \in Users, l \in ListingIds :
          Become(w, [Idle EXCEPT !.pc = "buy_begin", !.user = u,
                                 !.listing = l, !.kind = "buy"])
    BY <1>1 DEF BuyFromMarket
  <2>2. [Idle EXCEPT !.pc = "buy_begin", !.user = u, !.listing = l,
                     !.kind = "buy"] \in Job
    BY IdleType DEF Job, OutsideTx
  <2> QED
    BY <1>1, <2>1, <2>2, LocalType DEF BuyFromMarket
<1>2. CASE BuyBegin(w)
  BY <1>2, <1>l, <1>r, IdleType, BeginAtType DEF BuyBegin
<1>3. CASE FindListing(w)
  <2> DEFINE row == tables.listings[job[w].listing]
             found == [job[w] EXCEPT !.pc = "mark", !.seller = row.seller,
                                     !.item = row.item, !.price = row.price]
  <2>1. row \in Listing
    BY <1>j DEF WellTyped, ConnectionType, Tables, Job
  <2>2. found \in Job
    BY <1>j, <2>1 DEF Job, Listing, InsideTx
  <2> QED
    BY <1>3, <1>l, <1>r, <2>2, LocalType DEF FindListing
<1>4. CASE MarkSold(w)
  <2>1. job[w].listing \in ListingIds /\ "sold" \in ListingStates
    BY <1>j DEF Job, ListingStates
  <2>2. /\ tables \in Tables
        /\ [tables EXCEPT !.listings[job[w].listing].state = "sold"] \in Tables
    BY <1>j, <2>1, RowsType DEF WellTyped
  <2> QED
    BY <1>4, <1>l, <1>r, <2>2, WriteType DEF MarkSold
<1>5. CASE BuyReadChanges(w)
  BY <1>5, <1>l, <1>r, LocalType DEF BuyReadChanges
<1>6. CASE LoadBuyer(w)
  <2>1. tables.balance[job[w].user] \in Int
    BY <1>j DEF WellTyped, ConnectionType, Tables
  <2>2. [job[w] EXCEPT !.pc = "seller",
                       !.balance = tables.balance[job[w].user]] \in Job
    BY <1>j, <2>1 DEF Job, InsideTx
  <2> QED
    BY <1>6, <1>l, <1>r, <2>2, LocalType DEF LoadBuyer
<1>7. CASE LoadSeller(w)
  <2>1. tables.balance[job[w].seller] \in Int
    BY <1>j DEF WellTyped, ConnectionType, Tables
  <2>2. [job[w] EXCEPT !.pc = "pay_buyer",
                       !.seller_balance = tables.balance[job[w].seller]] \in Job
    BY <1>j, <2>1 DEF Job, InsideTx
  <2> QED
    BY <1>7, <2>2, LocalType DEF LoadSeller
<1>8. CASE PayBuyer(w)
  <2>1. job[w].balance - job[w].price \in Int
    BY <1>j DEF Job
  <2> QED
    BY <1>8, <1>j, <1>l, <1>r, <2>1, PayType DEF PayBuyer
<1>9. CASE PaySeller(w)
  <2>1. job[w].price \in Nat /\ job[w].seller_balance \in Int
    BY <1>j DEF Job
  <2>2. job[w].seller_balance + Payout(job[w].price) \in Int
    BY <2>1, PayoutPositive
  <2> QED
    BY <1>9, <1>j, <1>l, <1>r, <2>2, PayType DEF PaySeller
<1>10. CASE BuyUpdateOwner(w)
  <2>1. [tables EXCEPT !.owner[job[w].item] = job[w].user] \in Tables
    BY <1>j, RowsType DEF WellTyped
  <2> QED
    BY <1>10, <1>l, <1>r, <2>1, WriteType DEF BuyUpdateOwner
<1>11. CASE BuyRemoveFromInventory(w)
  BY <1>11, <1>j, <1>l, <1>r, TakeType DEF BuyRemoveFromInventory
<1>12. CASE BuyAddToInventory(w)
  BY <1>12, <1>j, <1>l, <1>r, GiveType DEF BuyAddToInventory
<1>13. CASE BuyApplyTradeLock(w)
  BY <1>13, <1>l, <1>r, WriteType DEF BuyApplyTradeLock, WellTyped, ConnectionType
<1>14. CASE SavePriceHistory(w) \/ BuyLogTransactions(w)
  BY <1>14, <1>l, <1>r, WriteNewType
     DEF SavePriceHistory, BuyLogTransactions, WellTyped, ConnectionType
<1> QED
  BY <1>1, <1>2, <1>3, <1>4, <1>5, <1>6, <1>7, <1>8, <1>9, <1>10, <1>11,
     <1>12, <1>13, <1>14 DEF Buy

LEMMA FollowUpKeepsTypes ==
  ASSUME WellTyped, NEW w \in Workers, FollowUp(w)
  PROVE  WellTyped'
<1>j. job[w] \in Job /\ NextCall(job[w]) \in Job
  BY NextCallType DEF WellTyped, JobsType
<1>l. {"call_load", "call_write", "call_commit", "call_rollback"} \subseteq Labels
  BY DEF Labels, InsideTx
<1>r. \A label \in Labels : At(job[w], label) \in Job
  BY <1>j, AtType
<1>s. /\ Subject(job[w]) \in Users
      /\ QuestOf(job[w]) \in Quests
      /\ Increment(job[w]) \in Nat
  BY <1>j, CallOfJob
<1>1. CASE CallBegin(w)
  BY <1>1, <1>j, <1>l, <1>r, BeginAtType DEF CallBegin
<1>2. CASE CallLoad(w)
  <2> DEFINE has == tables.progress[Subject(job[w])][QuestOf(job[w])]
  <2>1. has \in Nat
    BY <1>s DEF WellTyped, ConnectionType, Tables
  <2>2. [job[w] EXCEPT !.pc = "call_write",
                       !.progress = has + Increment(job[w])] \in Job
    <3>1. has + Increment(job[w]) \in Nat
      BY <1>s, <2>1
    <3> HIDE DEF has
    <3> QED
      BY <1>j, <3>1 DEF Job, InsideTx
  <2> QED
    BY <1>2, <1>l, <1>r, <2>2, LocalType DEF CallLoad
<1>3. CASE CallWrite(w)
  <2>1. PICK i \in Items : TRUE
    BY MarketAssumption
  <2>2. job[w].progress \in Nat
    BY <1>j DEF Job
  <2>3. [tables EXCEPT !.progress[Subject(job[w])][QuestOf(job[w])]
                         = job[w].progress] \in Tables
    BY <1>s, <2>1, <2>2, RowsType DEF WellTyped
  <2> QED
    BY <1>3, <1>l, <1>r, <2>3, WriteType DEF CallWrite
<1>4. CASE CallCommit(w) \/ CallRollback(w)
  BY <1>4, <1>j, <1>l, <1>r, LocalType DEF CallCommit, CallRollback
<1>5. CASE UpdateChallenges(w)
  <2>1. CASE Update(tables, 1)
    BY <1>5, <1>j, <2>1, UpdateType, BecomeType
       DEF UpdateChallenges, WellTyped, ConnectionType
  <2>2. CASE UNCHANGED connection
    BY <1>5, <1>j, <2>2, LocalType DEF UpdateChallenges
  <2> QED
    BY <1>5, <2>1, <2>2 DEF UpdateChallenges
<1> QED
  BY <1>1, <1>2, <1>3, <1>4, <1>5 DEF FollowUp

LEMMA RemoveKeepsTypes ==
  ASSUME WellTyped, NEW w \in Workers, Remove(w)
  PROVE  WellTyped'
<1>j. /\ job[w] \in Job
      /\ job[w].user \in Users
      /\ job[w].item \in Items
      /\ job[w].listing \in ListingIds
  BY DEF WellTyped, JobsType, Job
<1>l. {"return", "delete"} \subseteq Labels
  BY DEF Labels, OutsideTx
<1>r. \A label \in Labels : At(job[w], label) \in Job
  BY <1>j, AtType
<1>1. CASE RemoveListing(w)
  <2>1. PICK l \in ListingIds :
          Become(w, [Idle EXCEPT !.pc = "remove_load",
                                 !.user = tables.listings[l].seller,
                                 !.item = tables.listings[l].item,
                                 !.listing = l, !.kind = "remove"])
    BY <1>1 DEF RemoveListing
  <2>2. tables.listings[l] \in Listing
    BY DEF WellTyped, ConnectionType, Tables
  <2>3. [Idle EXCEPT !.pc = "remove_load", !.user = tables.listings[l].seller,
                     !.item = tables.listings[l].item, !.listing = l,
                     !.kind = "remove"] \in Job
    BY <2>2, IdleType DEF Job, Listing, OutsideTx
  <2> QED
    BY <1>1, <2>1, <2>3, LocalType DEF RemoveListing
<1>2. CASE RemoveLoadSeller(w)
  <2>1. tables.balance[job[w].user] \in Int
    BY <1>j DEF WellTyped, ConnectionType, Tables
  <2>2. [job[w] EXCEPT !.pc = "refund",
                       !.balance = tables.balance[job[w].user]] \in Job
    BY <1>j, <2>1 DEF Job, OutsideTx
  <2> QED
    BY <1>2, <2>2, LocalType DEF RemoveLoadSeller
<1>3. CASE RemoveRefund(w)
  <2>1. job[w].balance + LISTING_FEE \in Int
    BY <1>j DEF Job, LISTING_FEE
  <2> QED
    BY <1>3, <1>j, <1>l, <1>r, <2>1, PayType DEF RemoveRefund
<1>4. CASE RemoveReturnItem(w)
  BY <1>4, <1>j, <1>l, <1>r, GiveType DEF RemoveReturnItem
<1>5. CASE RemoveDelete(w)
  <2>1. /\ tables \in Tables
        /\ [tables EXCEPT !.listings[job[w].listing].state = "removed"] \in Tables
    BY <1>j, RowsType DEF WellTyped, ListingStates
  <2> QED
    BY <1>5, <2>1, IdleType, WriteType DEF RemoveDelete
<1> QED
  BY <1>1, <1>2, <1>3, <1>4, <1>5 DEF Remove

LEMMA EndKeepsTypes ==
  ASSUME WellTyped, NEW w \in Workers,
         CommitTransaction(w) \/ RollbackTransaction(w)
  PROVE  WellTyped'
<1>1. job[w] \in Job /\ {"log", "rollback"} \subseteq Labels
  BY DEF WellTyped, JobsType, Labels, OutsideTx, InsideTx
<1> QED
  BY <1>1, IdleType, AtType, LocalType DEF CommitTransaction, RollbackTransaction

(* What a worker can do. *)
Handler(w) == \/ List(w) \/ Buy(w) \/ FollowUp(w) \/ Remove(w)
              \/ CommitTransaction(w) \/ RollbackTransaction(w)

LEMMA HandlerKeepsTypes ==
  ASSUME WellTyped, NEW w \in Workers, Handler(w)
  PROVE  WellTyped'
BY ListKeepsTypes, BuyKeepsTypes, FollowUpKeepsTypes, RemoveKeepsTypes,
   EndKeepsTypes DEF Handler

LEMMA HandlerKeepsRequests ==
  ASSUME requests \in Nat, NEW w \in Workers, Handler(w)
  PROVE  requests' \in Nat
<1>0. CASE ListSkinOnMarket(w) \/ BuyFromMarket(w) \/ RemoveListing(w)
  <2>1. requests' = requests + 1
    BY <1>0 DEF ListSkinOnMarket, BuyFromMarket, RemoveListing, Request
  <2> QED
    BY <2>1
<1>1. CASE List(w) /\ ~ListSkinOnMarket(w)
  BY <1>1 DEF List, Running, BeginAt, ListLoadUser, ListBegin, ListDeductFee,
     ListRemoveFromInventory, SaveListing
<1>2. CASE Buy(w) /\ ~BuyFromMarket(w)
  BY <1>2 DEF Buy, Running, BeginAt, BuyBegin, FindListing, MarkSold,
     BuyReadChanges, LoadBuyer, LoadSeller, PayBuyer, PaySeller,
     BuyUpdateOwner, BuyRemoveFromInventory, BuyAddToInventory,
     BuyApplyTradeLock, SavePriceHistory, BuyLogTransactions
<1>3. CASE FollowUp(w)
  BY <1>3 DEF FollowUp, Running, BeginAt, CallBegin, CallLoad, CallWrite,
     CallCommit, CallRollback, UpdateChallenges
<1>4. CASE Remove(w) /\ ~RemoveListing(w)
  BY <1>4 DEF Remove, Running, RemoveLoadSeller, RemoveRefund,
     RemoveReturnItem, RemoveDelete
<1>5. CASE CommitTransaction(w) \/ RollbackTransaction(w)
  BY <1>5 DEF Running, CommitTransaction, RollbackTransaction
<1> QED
  BY <1>0, <1>1, <1>2, <1>3, <1>4, <1>5 DEF Handler

-----------------------------------------------------------------------------
LEMMA OpeningType == OpeningRows \in Tables
<1>1. OpeningRows.inventory \subseteq Users \X Items
  BY MarketAssumption DEF OpeningRows
<1>2. Purse \in [Users -> Int]
  BY MarketAssumption
<1>3. [u \in Users |-> [q \in Quests |-> 0]] \in [Users -> [Quests -> Nat]]
  OBVIOUS
<1> QED
  BY <1>1, <1>2, <1>3, MarketAssumption DEF OpeningRows, Tables

LEMMA TypeInit == Init => TypeOK
<1> SUFFICES ASSUME Init PROVE TypeOK
  OBVIOUS
<1>1. OpeningRows \in Tables
  BY OpeningType
<1>2. ConnectionType
  BY <1>1 DEF Init, ConnectionInit, ConnectionType
<1> QED
  BY <1>2, IdleType DEF Init, TypeOK, ConnectionType

LEMMA TypeStep == TypeOK /\ [Next]_vars => TypeOK'
<1> SUFFICES ASSUME TypeOK, [Next]_vars PROVE TypeOK'
  OBVIOUS
<1>1. WellTyped
  BY DEF TypeOK, WellTyped, ConnectionType, JobsType
<1>2. ASSUME NEW w \in Workers, Handler(w)
      PROVE  TypeOK'
  <2>1. WellTyped' /\ (requests \in Nat)'
    BY <1>1, <1>2, HandlerKeepsTypes, HandlerKeepsRequests DEF TypeOK
  <2> QED
    BY <2>1 DEF TypeOK, WellTyped, ConnectionType, JobsType
<1>3. CASE Crash
  <2>1. ConnectionType'
    BY <1>1, <1>3, ControlType DEF Crash, WellTyped
  <2> QED
    BY <1>3, <2>1, IdleType DEF TypeOK, ConnectionType, Crash
<1>4. CASE UNCHANGED vars
  BY <1>4 DEF TypeOK, vars, connection
<1> QED
  BY <1>2, <1>3, <1>4 DEF Next, Handler

(* The tables, the counters of the connection and the locals of every      *)
(* worker keep their types, whatever the interleaving.                     *)
THEOREM TypeCorrect == Spec => []TypeOK
BY TypeInit, TypeStep, PTL DEF Spec

-----------------------------------------------------------------------------
(* Transactions.                                                           *)

LEMMA AtPc == ASSUME NEW j \in Job, NEW label PROVE At(j, label).pc = label
BY DEF At, Job

LEMMA NextCallPc ==
  ASSUME NEW j \in Job PROVE NextCall(j).pc \in {"idle", "call"}
BY DEF NextCall, Idle, Job

LEMMA LabelsApart == OutsideTx \cap InsideTx = {}
BY DEF OutsideTx, InsideTx

(* Worker w has taken a step to the locals j. *)
Moved(w, j) == job'[w] = j /\ \A v \in Workers \ {w} : job'[v] = job[v]

LEMMA BecomeMoves ==
  ASSUME JobsType, NEW w \in Workers, NEW j, Become(w, j)
  PROVE  Moved(w, j)
BY DEF JobsType, Become, Moved

(* A step that leaves the transaction as it is. *)
Keeps(w, next) ==
  /\ inTx' = inTx
  /\ \E j \in next : Moved(w, j)

LEMMA WriteKeeps ==
  ASSUME JobsType, NEW w \in Workers, NEW rows, NEW n, NEW next, NEW failed,
         Write(w, rows, n, next, failed) \/ WriteNew(w, rows, next, failed)
  PROVE  Keeps(w, {next, failed})
BY BecomeMoves
   DEF Write, WriteNew, Keeps, Update, Insert, Store, connection

LEMMA RowWriteKeeps ==
  ASSUME JobsType, NEW w \in Workers, NEW u, NEW i, NEW n,
         NEW next, NEW failed,
         \/ Give(w, u, i, next, failed) \/ Take(w, u, i, next, failed)
         \/ Pay(w, u, n, next, failed)
  PROVE  Keeps(w, {next, failed})
BY WriteKeeps DEF Give, Take, Pay

(* The four kinds of steps. *)
StaysOut(w) == /\ job[w].pc \in OutsideTx /\ job'[w].pc \in OutsideTx
               /\ inTx' = inTx
Enters(w) == /\ job[w].pc \in OutsideTx /\ job'[w].pc \in InsideTx
             /\ ~inTx /\ inTx'
StaysIn(w) == /\ job[w].pc \in InsideTx /\ job'[w].pc \in InsideTx
              /\ inTx' = inTx
Leaves(w) == /\ job[w].pc \in InsideTx /\ job'[w].pc \in OutsideTx
             /\ ~inTx'

TxStep(w) ==
  /\ StaysOut(w) \/ Enters(w) \/ StaysIn(w) \/ Leaves(w)
  /\ \A v \in Workers \ {w} : job'[v] = job[v]

LEMMA KeepsOut ==
  ASSUME NEW w \in Workers, NEW next, Keeps(w, next),
         job[w].pc \in OutsideTx, \A j \in next : j.pc \in OutsideTx
  PROVE  TxStep(w)
BY DEF Keeps, Moved, TxStep, StaysOut

LEMMA KeepsIn ==
  ASSUME NEW w \in Workers, NEW next, Keeps(w, next),
         job[w].pc \in InsideTx, \A j \in next : j.pc \in InsideTx
  PROVE  TxStep(w)
BY DEF Keeps, Moved, TxStep, StaysIn

(* A step that changes only the locals of w. *)
LEMMA LocalStep ==
  ASSUME JobsType, NEW w \in Workers, NEW j, Become(w, j),
         UNCHANGED connection,
         \/ job[w].pc \in OutsideTx /\ j.pc \in OutsideTx
         \/ job[w].pc \in InsideTx /\ j.pc \in InsideTx
  PROVE  TxStep(w)
BY BecomeMoves DEF connection, Moved, TxStep, StaysOut, StaysIn

LEMMA BeginSteps ==
  ASSUME JobsType, NEW w \in Workers, NEW label \in OutsideTx, NEW next,
         NEW refused, BeginAt(w, label, next, refused),
         next.pc \in InsideTx, refused.pc \in OutsideTx
  PROVE  TxStep(w)
<1>1. job[w].pc \in OutsideTx
  BY DEF BeginAt, Running
<1>2. CASE Begin /\ Become(w, next)
  BY <1>1, <1>2, BecomeMoves DEF Begin, Moved, TxStep, Enters
<1>3. CASE BeginRefused /\ Become(w, refused)
  BY <1>1, <1>3, BecomeMoves
     DEF BeginRefused, connection, Moved, TxStep, StaysOut
<1> QED
  BY <1>2, <1>3 DEF BeginAt

LEMMA ListTxStep ==
  ASSUME JobsType, NEW w \in Workers, List(w)
  PROVE  TxStep(w)
<1>j. job[w] \in Job /\ \A label : At(job[w], label).pc = label
  BY AtPc DEF JobsType
<1>1. CASE ListSkinOnMarket(w)
  <2>1. PICK i \in Items, p \in Prices :
          Become(w, [Idle EXCEPT !.pc = "list_funds", !.user = tables.owner[i],
                                 !.item = i, !.price = p])
    BY <1>1 DEF ListSkinOnMarket
  <2>2. [Idle EXCEPT !.pc = "list_funds", !.user = tables.owner[i],
                     !.item = i, !.price = p].pc = "list_funds"
    BY DEF Idle
  <2> QED
    BY <1>1, <2>1, <2>2, LocalStep DEF ListSkinOnMarket, Request, OutsideTx
<1>2. CASE ListLoadUser(w)
  <2> DEFINE j == [job[w] EXCEPT !.pc = "list_begin",
                                 !.balance = tables.balance[job[w].user]]
  <2>1. j.pc \in OutsideTx /\ Idle.pc \in OutsideTx
    BY <1>j DEF Job, Idle, OutsideTx
  <2>2. Become(w, Idle) \/ Become(w, j)
    BY <1>2 DEF ListLoadUser
  <2> QED
    BY <1>2, <2>1, <2>2, LocalStep DEF ListLoadUser, Running, OutsideTx
<1>3. CASE ListBegin(w)
  BY <1>j, <1>3, BeginSteps DEF ListBegin, Idle, OutsideTx, InsideTx
<1>4. CASE ListDeductFee(w) \/ ListRemoveFromInventory(w)
  <2>1. \E a, b \in {"list_take", "list_save", "rollback"} :
          Keeps(w, {At(job[w], a), At(job[w], b)})
    BY <1>4, RowWriteKeeps DEF ListDeductFee, ListRemoveFromInventory
  <2> QED
    BY <1>j, <1>4, <2>1, KeepsIn
       DEF ListDeductFee, ListRemoveFromInventory, Running, InsideTx
<1>5. CASE SaveListing(w)
  <2>1. Keeps(w, {At(job[w], "commit"), At(job[w], "rollback")})
    BY <1>5, BecomeMoves DEF SaveListing, Keeps, Insert, Store, connection
  <2> QED
    BY <1>j, <1>5, <2>1, KeepsIn DEF SaveListing, Running, InsideTx
<1> QED
  BY <1>1, <1>2, <1>3, <1>4, <1>5 DEF List

LEMMA BuyTxStep ==
  ASSUME JobsType, NEW w \in Workers, Buy(w)
  PROVE  TxStep(w)
<1>j. job[w] \in Job /\ \A label : At(job[w], label).pc = label
  BY AtPc DEF JobsType
<1>1. CASE BuyFromMarket(w)
  <2>1. PICK u \in Users, l \in ListingIds :
          Become(w, [Idle EXCEPT !.pc = "buy_begin", !.user = u,
                                 !.listing = l, !.kind = "buy"])
    BY <1>1 DEF BuyFromMarket
  <2>2. [Idle EXCEPT !.pc = "buy_begin", !.user = u, !.listing = l,
                     !.kind = "buy"].pc = "buy_begin"
    BY DEF Idle
  <2> QED
    BY <1>1, <2>1, <2>2, LocalStep DEF BuyFromMarket, Request, OutsideTx
<1>2. CASE BuyBegin(w)
  BY <1>j, <1>2, BeginSteps DEF BuyBegin, Idle, OutsideTx, InsideTx
<1>3. CASE FindListing(w)
  <2> DEFINE row == tables.listings[job[w].listing]
             j == [job[w] EXCEPT !.pc = "mark", !.seller = row.seller,
                                 !.item = row.item, !.price = row.price]
  <2>1. Become(w, At(job[w], "rollback")) \/ Become(w, j)
    BY <1>3 DEF FindListing
  <2>2. j.pc \in InsideTx
    BY <1>j DEF Job, InsideTx
  <2> QED
    BY <1>3, <1>j, <2>1, <2>2, LocalStep DEF FindListing, Running, InsideTx
<1>7. CASE BuyReadChanges(w)
  BY <1>7, <1>j, LocalStep DEF BuyReadChanges, Running, InsideTx
<1>8. CASE LoadBuyer(w)
  <2> DEFINE j == [job[w] EXCEPT !.pc = "seller",
                                 !.balance = tables.balance[job[w].user]]
  <2>1. Become(w, At(job[w], "rollback")) \/ Become(w, j)
    BY <1>8 DEF LoadBuyer
  <2>2. j.pc \in InsideTx
    BY <1>j DEF Job, InsideTx
  <2> QED
    BY <1>8, <1>j, <2>1, <2>2, LocalStep DEF LoadBuyer, Running, InsideTx
<1>9. CASE LoadSeller(w)
  <2>1. [job[w] EXCEPT !.pc = "pay_buyer",
           !.seller_balance = tables.balance[job[w].seller]].pc = "pay_buyer"
    BY <1>j DEF Job
  <2> QED
    BY <1>9, <2>1, LocalStep DEF LoadSeller, Running, InsideTx
<1>4. CASE \/ PayBuyer(w) \/ PaySeller(w) \/ BuyRemoveFromInventory(w)
           \/ BuyAddToInventory(w)
  <2>1. \E a, b \in {"pay_seller", "own", "give", "lock", "rollback"} :
          Keeps(w, {At(job[w], a), At(job[w], b)})
    BY <1>4, RowWriteKeeps
       DEF PayBuyer, PaySeller, BuyRemoveFromInventory, BuyAddToInventory
  <2> QED
    BY <1>j, <1>4, <2>1, KeepsIn
       DEF PayBuyer, PaySeller, BuyRemoveFromInventory, BuyAddToInventory,
           Running, InsideTx
<1>5. CASE \/ MarkSold(w) \/ BuyUpdateOwner(w) \/ BuyApplyTradeLock(w)
           \/ SavePriceHistory(w)
  <2>1. \E a, b \in {"marked", "take", "history", "commit", "rollback"} :
          Keeps(w, {At(job[w], a), At(job[w], b)})
    BY <1>5, WriteKeeps
       DEF MarkSold, BuyUpdateOwner, BuyApplyTradeLock, SavePriceHistory
  <2> QED
    BY <1>j, <1>5, <2>1, KeepsIn
       DEF MarkSold, BuyUpdateOwner, BuyApplyTradeLock, SavePriceHistory,
           Running, InsideTx
<1>6. CASE BuyLogTransactions(w)
  <2>1. Keeps(w, {At(job[w], "call")})
    BY <1>6, WriteKeeps DEF BuyLogTransactions, Keeps
  <2> QED
    BY <1>j, <1>6, <2>1, KeepsOut DEF BuyLogTransactions, Running, OutsideTx
<1> QED
  BY <1>1, <1>2, <1>3, <1>4, <1>5, <1>6, <1>7, <1>8, <1>9 DEF Buy

LEMMA FollowUpTxStep ==
  ASSUME JobsType, NEW w \in Workers, FollowUp(w)
  PROVE  TxStep(w)
<1>j. /\ job[w] \in Job
      /\ \A label : At(job[w], label).pc = label
      /\ NextCall(job[w]).pc \in OutsideTx
  BY AtPc, NextCallPc DEF JobsType, OutsideTx
<1>1. CASE CallBegin(w)
  BY <1>j, <1>1, BeginSteps DEF CallBegin, OutsideTx, InsideTx
<1>2. CASE CallLoad(w)
  <2> DEFINE has == tables.progress[Subject(job[w])][QuestOf(job[w])]
             j == [job[w] EXCEPT !.pc = "call_write",
                                 !.progress = has + Increment(job[w])]
  <2>1. Become(w, At(job[w], "call_rollback")) \/ Become(w, j)
    BY <1>2 DEF CallLoad
  <2>2. j.pc \in InsideTx
    BY <1>j DEF Job, InsideTx
  <2> QED
    BY <1>2, <1>j, <2>1, <2>2, LocalStep DEF CallLoad, Running, InsideTx
<1>3. CASE CallWrite(w)
  <2>1. Keeps(w, {At(job[w], "call_commit"), At(job[w], "call_rollback")})
    BY <1>3, WriteKeeps DEF CallWrite
  <2> QED
    BY <1>j, <1>3, <2>1, KeepsIn DEF CallWrite, Running, InsideTx
<1>4. CASE CallCommit(w)
  <2>1. CASE Commit /\ Become(w, NextCall(job[w]))
    BY <1>j, <1>4, <2>1, BecomeMoves
       DEF CallCommit, Running, Commit, Moved, TxStep, Leaves, InsideTx
  <2>2. CASE CommitRefused /\ Become(w, At(job[w], "call_rollback"))
    BY <1>j, <1>4, <2>2, BecomeMoves
       DEF CallCommit, Running, CommitRefused, connection, Moved, TxStep,
           StaysIn, InsideTx
  <2> QED
    BY <1>4, <2>1, <2>2 DEF CallCommit
<1>5. CASE CallRollback(w)
  BY <1>j, <1>5, BecomeMoves
     DEF CallRollback, Running, Rollback, Moved, TxStep, Leaves, InsideTx
<1>6. CASE UpdateChallenges(w)
  <2>1. Keeps(w, {NextCall(job[w])})
    BY <1>6, BecomeMoves
       DEF UpdateChallenges, Keeps, Update, Store, connection
  <2> QED
    BY <1>j, <1>6, <2>1, KeepsOut DEF UpdateChallenges, Running, OutsideTx
<1> QED
  BY <1>1, <1>2, <1>3, <1>4, <1>5, <1>6 DEF FollowUp

LEMMA RemoveTxStep ==
  ASSUME JobsType, NEW w \in Workers, Remove(w)
  PROVE  TxStep(w)
<1>j. job[w] \in Job /\ \A label : At(job[w], label).pc = label
  BY AtPc DEF JobsType
<1>1. CASE RemoveListing(w)
  <2>1. PICK l \in ListingIds :
          Become(w, [Idle EXCEPT !.pc = "remove_load",
                                 !.user = tables.listings[l].seller,
                                 !.item = tables.listings[l].item,
                                 !.listing = l, !.kind = "remove"])
    BY <1>1 DEF RemoveListing
  <2>2. [Idle EXCEPT !.pc = "remove_load", !.user = tables.listings[l].seller,
                     !.item = tables.listings[l].item, !.listing = l,
                     !.kind = "remove"].pc = "remove_load"
    BY DEF Idle
  <2> QED
    BY <1>1, <2>1, <2>2, LocalStep DEF RemoveListing, Request, OutsideTx
<1>4. CASE RemoveLoadSeller(w)
  <2>1. [job[w] EXCEPT !.pc = "refund",
                       !.balance = tables.balance[job[w].user]].pc = "refund"
    BY <1>j DEF Job
  <2> QED
    BY <1>4, <2>1, LocalStep DEF RemoveLoadSeller, Running, OutsideTx
<1>2. CASE RemoveRefund(w) \/ RemoveReturnItem(w)
  <2>1. \E a \in {"return", "delete"} : Keeps(w, {At(job[w], a)})
    BY <1>2, RowWriteKeeps DEF RemoveRefund, RemoveReturnItem, Keeps
  <2> QED
    BY <1>j, <1>2, <2>1, KeepsOut
       DEF RemoveRefund, RemoveReturnItem, Running, OutsideTx
<1>3. CASE RemoveDelete(w)
  <2>1. Keeps(w, {Idle})
    BY <1>3, WriteKeeps DEF RemoveDelete, Keeps
  <2> QED
    BY <1>3, <2>1, KeepsOut DEF RemoveDelete, Running, OutsideTx, Idle
<1> QED
  BY <1>1, <1>2, <1>3, <1>4 DEF Remove

LEMMA EndTxStep ==
  ASSUME JobsType, NEW w \in Workers,
         CommitTransaction(w) \/ RollbackTransaction(w)
  PROVE  TxStep(w)
<1>j. job[w] \in Job /\ \A label : At(job[w], label).pc = label
  BY AtPc DEF JobsType
<1>1. CASE RollbackTransaction(w)
  BY <1>1, BecomeMoves DEF RollbackTransaction, Running, Rollback, Moved,
     TxStep, Leaves, InsideTx, OutsideTx, Idle
<1>2. ASSUME Running(w, "commit"), Commit,
             Become(w, IF job[w].kind = "list" THEN Idle ELSE At(job[w], "log"))
      PROVE  TxStep(w)
  BY <1>j, <1>2, BecomeMoves DEF Running, Commit, Moved, TxStep, Leaves,
     InsideTx, OutsideTx, Idle
<1>3. ASSUME Running(w, "commit"), CommitRefused,
             Become(w, At(job[w], "rollback"))
      PROVE  TxStep(w)
  BY <1>j, <1>3, BecomeMoves DEF Running, CommitRefused, connection, Moved,
     TxStep, StaysIn, InsideTx
<1> QED
  BY <1>1, <1>2, <1>3 DEF CommitTransaction

(* In the market a transaction is open exactly while one worker is inside: *)
(* no interleaving of its handlers, failing statement or kill makes two    *)
(* workers share one, end one another's, or leave one open.                *)
THEOREM MarketTransactions == Spec => []TransactionsExclusive
<1>0. Idle.pc \notin InsideTx
  BY DEF Idle, InsideTx
<1>1. Init => TransactionsExclusive
  BY <1>0 DEF Init, ConnectionInit, TransactionsExclusive
<1>2. TypeOK /\ TransactionsExclusive /\ [Next]_vars => TransactionsExclusive'
  <2> SUFFICES ASSUME TypeOK, TransactionsExclusive, [Next]_vars
               PROVE  TransactionsExclusive'
    OBVIOUS
  <2>1. ASSUME NEW w \in Workers, Handler(w)
        PROVE  TransactionsExclusive'
    <3>1. TxStep(w)
      BY <2>1, ListTxStep, BuyTxStep, FollowUpTxStep, RemoveTxStep, EndTxStep
         DEF Handler, TypeOK, JobsType
    <3> QED
      BY <3>1, LabelsApart
         DEF TxStep, StaysOut, Enters, StaysIn, Leaves, TransactionsExclusive
  <2>2. CASE Crash
    BY <2>2, <1>0 DEF Crash, Reopen, TransactionsExclusive
  <2>3. CASE UNCHANGED vars
    BY <2>3 DEF vars, connection, TransactionsExclusive
  <2> QED
    BY <2>1, <2>2, <2>3 DEF Next, Handler
<1> QED
  BY <1>1, <1>2, TypeCorrect, PTL DEF Spec

-----------------------------------------------------------------------------
(* Balances.  What a handler will write it has computed from a balance it  *)
(* read earlier, perhaps before its transaction: the amounts its locals    *)
(* hold must cover what it is about to deduct.                             *)

Funded(j) ==
  /\ j.balance >= 0
  /\ j.seller_balance >= 0
  /\ j.pc \in {"list_begin", "list_fee"} => j.balance >= LISTING_FEE
  /\ j.pc \in {"seller", "pay_buyer"} => j.balance >= j.price

JobsFunded == \A v \in Workers : Funded(job[v])

Deducting == {"list_begin", "list_fee", "seller", "pay_buyer"}

LEMMA IdleFunded == Funded(Idle)
BY DEF Funded, Idle

LEMMA AtFunded ==
  ASSUME NEW j \in Job, Funded(j), NEW label, label \notin Deducting
  PROVE  Funded(At(j, label))
BY DEF Funded, At, Job, Deducting

LEMMA NextCallFunded ==
  ASSUME NEW j \in Job, Funded(j)
  PROVE  Funded(NextCall(j))
BY IdleFunded DEF Funded, NextCall, Job

LEMMA BecomeFunded ==
  ASSUME JobsType, JobsFunded, NEW w \in Workers, NEW j, Funded(j),
         Become(w, j)
  PROVE  JobsFunded'
<1>1. \A v \in Workers : Funded(job'[v])
  BY BecomeMoves DEF Moved, JobsFunded
<1> QED
  BY <1>1 DEF JobsFunded, Funded

LEMMA KeepsFunded ==
  ASSUME JobsFunded, NEW w \in Workers, NEW next, Keeps(w, next),
         \A j \in next : Funded(j)
  PROVE  JobsFunded'
<1>1. \A v \in Workers : Funded(job'[v])
  BY DEF Keeps, Moved, JobsFunded
<1> QED
  BY <1>1 DEF JobsFunded, Funded

Covered(rows) == \A u \in Users : rows.balance[u] >= 0

LEMMA StoreCovered ==
  ASSUME BalancesNeverNegative, NEW rows, Covered(rows), Store(rows)
  PROVE  BalancesNeverNegative'
BY DEF BalancesNeverNegative, Covered, Store

LEMMA WriteCovered ==
  ASSUME BalancesNeverNegative, NEW w, NEW rows, Covered(rows), NEW n,
         NEW next, NEW failed,
         Write(w, rows, n, next, failed) \/ WriteNew(w, rows, next, failed)
  PROVE  BalancesNeverNegative'
<1>1. Store(rows) \/ UNCHANGED connection
  BY DEF Write, WriteNew, Update, Insert
<1> QED
  BY <1>1, StoreCovered DEF connection, BalancesNeverNegative

LEMMA ControlCovered ==
  ASSUME BalancesNeverNegative,
         \/ UNCHANGED connection \/ Begin \/ BeginRefused
         \/ Commit \/ CommitRefused \/ Rollback \/ Reopen
  PROVE  BalancesNeverNegative'
BY DEF BalancesNeverNegative, connection, Begin, BeginRefused, Commit,
       CommitRefused, Rollback, Reopen

(* Statements that write other columns.                                    *)
LEMMA RowsCovered ==
  ASSUME ConnectionType, BalancesNeverNegative
  PROVE  /\ Covered(tables)
         /\ \A inv : Covered([tables EXCEPT !.inventory = inv])
         /\ \A i, u : Covered([tables EXCEPT !.owner[i] = u])
         /\ \A l, st : Covered([tables EXCEPT !.listings[l].state = st])
         /\ \A l, row : Covered([tables EXCEPT !.listings[l] = row])
         /\ \A u, q, n : Covered([tables EXCEPT !.progress[u][q] = n])
<1>1. tables \in Tables /\ Covered(tables)
  BY DEF ConnectionType, BalancesNeverNegative, Covered
<1> QED
  BY <1>1 DEF Tables, Covered

LEMMA PayCovered ==
  ASSUME ConnectionType, BalancesNeverNegative, NEW w, NEW u \in Users,
         NEW amount \in Int, amount >= 0, NEW next, NEW failed,
         Pay(w, u, amount, next, failed)
  PROVE  BalancesNeverNegative'
<1>1. Covered([tables EXCEPT !.balance[u] = amount])
  <2>1. tables \in Tables /\ Covered(tables)
    BY DEF ConnectionType, BalancesNeverNegative, Covered
  <2> QED
    BY <2>1 DEF Tables, Covered
<1> QED
  BY <1>1, WriteCovered DEF Pay

LEMMA InventoryCovered ==
  ASSUME ConnectionType, BalancesNeverNegative, NEW w, NEW u, NEW i,
         NEW next, NEW failed,
         Give(w, u, i, next, failed) \/ Take(w, u, i, next, failed)
  PROVE  BalancesNeverNegative'
BY RowsCovered, WriteCovered DEF Give, Take

MoneyInv == JobsFunded /\ BalancesNeverNegative

MoneyPre == WellTyped /\ MoneyInv

(* A step that changes only the locals of w, or also the transaction. *)
LEMMA LocalMoney ==
  ASSUME MoneyPre, NEW w \in Workers, NEW j, Funded(j), Become(w, j),
         \/ UNCHANGED connection \/ Begin \/ BeginRefused
         \/ Commit \/ CommitRefused \/ Rollback
  PROVE  MoneyInv'
BY BecomeFunded, ControlCovered DEF MoneyPre, MoneyInv, WellTyped

LEMMA InventoryMoney ==
  ASSUME MoneyPre, NEW w \in Workers, NEW u, NEW i,
         NEW next, NEW failed, Funded(next), Funded(failed),
         Give(w, u, i, next, failed) \/ Take(w, u, i, next, failed)
  PROVE  MoneyInv'
<1>1. Keeps(w, {next, failed})
  BY RowWriteKeeps DEF MoneyPre, WellTyped
<1> QED
  BY <1>1, KeepsFunded, InventoryCovered DEF MoneyPre, MoneyInv, WellTyped

LEMMA PayMoney ==
  ASSUME MoneyPre, NEW w \in Workers, NEW u \in Users, NEW amount \in Int,
         amount >= 0, NEW next, NEW failed, Funded(next), Funded(failed),
         Pay(w, u, amount, next, failed)
  PROVE  MoneyInv'
<1>1. Keeps(w, {next, failed})
  BY RowWriteKeeps DEF MoneyPre, WellTyped
<1> QED
  BY <1>1, KeepsFunded, PayCovered DEF MoneyPre, MoneyInv, WellTyped

LEMMA WriteMoney ==
  ASSUME MoneyPre, NEW w \in Workers, NEW rows, Covered(rows), NEW n,
         NEW next, NEW failed, Funded(next), Funded(failed),
         Write(w, rows, n, next, failed) \/ WriteNew(w, rows, next, failed)
  PROVE  MoneyInv'
<1>1. Keeps(w, {next, failed})
  BY WriteKeeps DEF MoneyPre, WellTyped
<1> QED
  BY <1>1, KeepsFunded, WriteCovered DEF MoneyPre, MoneyInv

LEMMA JobMoney ==
  ASSUME MoneyPre, NEW w \in Workers
  PROVE  /\ job[w] \in Job
         /\ job[w].user \in Users /\ job[w].seller \in Users
         /\ job[w].price \in Nat
         /\ job[w].balance \in Int /\ job[w].seller_balance \in Int
         /\ Funded(job[w])
         /\ \A u \in Users : tables.balance[u] \in Int /\ tables.balance[u] >= 0
BY DEF MoneyPre, WellTyped, JobsType, ConnectionType, Tables, Job, MoneyInv,
       JobsFunded, BalancesNeverNegative

LEMMA ListMoney ==
  ASSUME MoneyPre, NEW w \in Workers, List(w)
  PROVE  MoneyInv'
<1>j. /\ job[w] \in Job
      /\ job[w].user \in Users
      /\ job[w].balance \in Int
      /\ Funded(job[w])
      /\ \A u \in Users : tables.balance[u] \in Int /\ tables.balance[u] >= 0
  BY JobMoney
<1>1. CASE ListSkinOnMarket(w)
  <2>1. PICK i \in Items, p \in Prices :
          Become(w, [Idle EXCEPT !.pc = "list_funds", !.user = tables.owner[i],
                                 !.item = i, !.price = p])
    BY <1>1 DEF ListSkinOnMarket
  <2>2. Funded([Idle EXCEPT !.pc = "list_funds", !.user = tables.owner[i],
                            !.item = i, !.price = p])
    BY DEF Funded, Idle
  <2> QED
    BY <1>1, <2>1, <2>2, LocalMoney DEF ListSkinOnMarket
<1>2. CASE ListLoadUser(w)
  <2> DEFINE has == tables.balance[job[w].user]
             j == [job[w] EXCEPT !.pc = "list_begin", !.balance = has]
  <2>1. \/ Become(w, Idle)
        \/ ~(has < LISTING_FEE) /\ Become(w, j)
    BY <1>2 DEF ListLoadUser
  <2>2. CASE Become(w, Idle)
    BY <1>2, <2>2, IdleFunded, LocalMoney DEF ListLoadUser
  <2>3. CASE ~(has < LISTING_FEE) /\ Become(w, j)
    <3>1. Funded(j)
      BY <1>j, <2>3 DEF Funded, Job, LISTING_FEE
    <3> QED
      BY <1>2, <2>3, <3>1, LocalMoney DEF ListLoadUser
  <2> QED
    BY <2>1, <2>2, <2>3
<1>3. CASE ListBegin(w)
  <2>1. Funded(At(job[w], "list_fee"))
    BY <1>j, <1>3 DEF ListBegin, BeginAt, Running, Funded, At, Job
  <2> QED
    BY <1>3, <2>1, IdleFunded, LocalMoney DEF ListBegin, BeginAt
<1>4. CASE ListDeductFee(w)
  <2>1. job[w].balance - LISTING_FEE \in Int /\ job[w].balance - LISTING_FEE >= 0
    BY <1>j, <1>4 DEF ListDeductFee, Running, Funded, LISTING_FEE
  <2>2. Funded(At(job[w], "list_take")) /\ Funded(At(job[w], "rollback"))
    BY <1>j, AtFunded DEF Deducting
  <2> QED
    BY <1>j, <1>4, <2>1, <2>2, PayMoney DEF ListDeductFee
<1>5. CASE ListRemoveFromInventory(w)
  <2>1. Funded(At(job[w], "list_save")) /\ Funded(At(job[w], "rollback"))
    BY <1>j, AtFunded DEF Deducting
  <2> QED
    BY <1>5, <2>1, InventoryMoney DEF ListRemoveFromInventory
<1>6. CASE SaveListing(w)
  <2>1. Funded(At(job[w], "commit")) /\ Funded(At(job[w], "rollback"))
    BY <1>j, AtFunded DEF Deducting
  <2>2. CASE UNCHANGED connection /\ Become(w, At(job[w], "rollback"))
    BY <2>1, <2>2, LocalMoney
  <2>3. ASSUME NEW l \in ListingIds, NEW row, Become(w, At(job[w], "commit")),
               Insert([tables EXCEPT !.listings[l] = row], l)
        PROVE  MoneyInv'
    <3>1. BalancesNeverNegative'
      BY <2>3, RowsCovered, StoreCovered
         DEF Insert, MoneyPre, MoneyInv, WellTyped
    <3>2. JobsFunded'
      BY <2>1, <2>3, BecomeFunded DEF MoneyPre, MoneyInv, WellTyped
    <3> QED
      BY <3>1, <3>2 DEF MoneyInv
  <2> QED
    BY <1>6, <2>2, <2>3 DEF SaveListing
<1> QED
  BY <1>1, <1>2, <1>3, <1>4, <1>5, <1>6 DEF List

LEMMA BuyMoney ==
  ASSUME MoneyPre, NEW w \in Workers, Buy(w)
  PROVE  MoneyInv'
<1>j. /\ job[w] \in Job
      /\ job[w].user \in Users /\ job[w].seller \in Users
      /\ job[w].price \in Nat
      /\ job[w].balance \in Int /\ job[w].seller_balance \in Int
      /\ Funded(job[w])
      /\ \A u \in Users : tables.balance[u] \in Int /\ tables.balance[u] >= 0
  BY JobMoney
<1>at. \A label : label \notin Deducting => Funded(At(job[w], label))
  BY <1>j, AtFunded
<1>1. CASE BuyFromMarket(w)
  <2>1. PICK u \in Users, l \in ListingIds :
          Become(w, [Idle EXCEPT !.pc = "buy_begin", !.user = u, !.listing = l,
                                 !.kind = "buy"])
    BY <1>1 DEF BuyFromMarket
  <2>2. Funded([Idle EXCEPT !.pc = "buy_begin", !.user = u, !.listing = l,
                            !.kind = "buy"])
    BY DEF Funded, Idle
  <2> QED
    BY <1>1, <2>1, <2>2, LocalMoney DEF BuyFromMarket
<1>2. CASE BuyBegin(w)
  BY <1>2, <1>at, IdleFunded, LocalMoney DEF BuyBegin, BeginAt, Deducting
<1>3. CASE FindListing(w)
  <2> DEFINE row == tables.listings[job[w].listing]
             j == [job[w] EXCEPT !.pc = "mark", !.seller = row.seller,
                                 !.item = row.item, !.price = row.price]
  <2>1. Become(w, At(job[w], "rollback")) \/ Become(w, j)
    BY <1>3 DEF FindListing
  <2>2. Funded(j) /\ Funded(At(job[w], "rollback"))
    BY <1>j, <1>at DEF Funded, Job, Deducting
  <2> QED
    BY <1>3, <2>1, <2>2, LocalMoney DEF FindListing
<1>4. CASE BuyReadChanges(w)
  <2>1. Become(w, At(job[w], "rollback")) \/ Become(w, At(job[w], "buyer"))
    BY <1>4 DEF BuyReadChanges
  <2> QED
    BY <1>4, <2>1, <1>at, LocalMoney DEF BuyReadChanges, Deducting
<1>5. CASE LoadBuyer(w)
  <2> DEFINE has == tables.balance[job[w].user]
             j == [job[w] EXCEPT !.pc = "seller", !.balance = has]
  <2>1. \/ Become(w, At(job[w], "rollback"))
        \/ ~(has < job[w].price) /\ Become(w, j)
    BY <1>5 DEF LoadBuyer
  <2>2. CASE Become(w, At(job[w], "rollback"))
    BY <1>5, <2>2, <1>at, LocalMoney DEF LoadBuyer, Deducting
  <2>3. CASE ~(has < job[w].price) /\ Become(w, j)
    <3>1. Funded(j)
      BY <1>j, <2>3 DEF Funded, Job
    <3> QED
      BY <1>5, <2>3, <3>1, LocalMoney DEF LoadBuyer
  <2> QED
    BY <2>1, <2>2, <2>3
<1>6. CASE LoadSeller(w)
  <2>1. Funded([job[w] EXCEPT !.pc = "pay_buyer",
                  !.seller_balance = tables.balance[job[w].seller]])
    BY <1>j, <1>6 DEF LoadSeller, Running, Funded, Job
  <2> QED
    BY <1>6, <2>1, LocalMoney DEF LoadSeller
<1>7. CASE PayBuyer(w)
  <2>1. /\ job[w].balance - job[w].price \in Int
        /\ job[w].balance - job[w].price >= 0
    BY <1>j, <1>7 DEF PayBuyer, Running, Funded
  <2> QED
    BY <1>j, <1>at, <1>7, <2>1, PayMoney DEF PayBuyer, Deducting
<1>8. CASE PaySeller(w)
  <2>1. Payout(job[w].price) \in Nat
    BY <1>j, PayoutPositive
  <2>2. /\ job[w].seller_balance + Payout(job[w].price) \in Int
        /\ job[w].seller_balance + Payout(job[w].price) >= 0
    BY <1>j, <2>1 DEF Funded
  <2> QED
    BY <1>j, <1>at, <1>8, <2>2, PayMoney DEF PaySeller, Deducting
<1>9. CASE BuyRemoveFromInventory(w) \/ BuyAddToInventory(w)
  BY <1>9, <1>at, InventoryMoney
     DEF BuyRemoveFromInventory, BuyAddToInventory, Deducting
<1>10. CASE \/ MarkSold(w) \/ BuyUpdateOwner(w) \/ BuyApplyTradeLock(w)
            \/ SavePriceHistory(w) \/ BuyLogTransactions(w)
  <2>1. /\ Covered(tables)
        /\ \A u : Covered([tables EXCEPT !.owner[job[w].item] = u])
        /\ \A l : Covered([tables EXCEPT !.listings[l].state = "sold"])
    BY RowsCovered DEF MoneyPre, MoneyInv, WellTyped
  <2>2. CASE MarkSold(w)
    BY <2>1, <2>2, <1>at, WriteMoney DEF MarkSold, Deducting
  <2>3. CASE BuyUpdateOwner(w)
    BY <2>1, <2>3, <1>at, WriteMoney DEF BuyUpdateOwner, Deducting
  <2>4. CASE \/ BuyApplyTradeLock(w) \/ SavePriceHistory(w)
             \/ BuyLogTransactions(w)
    BY <2>1, <2>4, <1>at, WriteMoney
       DEF BuyApplyTradeLock, SavePriceHistory, BuyLogTransactions, Deducting
  <2> QED
    BY <1>10, <2>2, <2>3, <2>4
<1> QED
  BY <1>1, <1>2, <1>3, <1>4, <1>5, <1>6, <1>7, <1>8, <1>9, <1>10 DEF Buy

LEMMA FollowUpMoney ==
  ASSUME MoneyPre, NEW w \in Workers, FollowUp(w)
  PROVE  MoneyInv'
<1>j. job[w] \in Job /\ Funded(job[w])
  BY JobMoney
<1>n. Funded(NextCall(job[w]))
  BY <1>j, NextCallFunded
<1>at. \A label : label \notin Deducting => Funded(At(job[w], label))
  BY <1>j, AtFunded
<1>1. CASE CallBegin(w)
  BY <1>1, <1>at, <1>n, LocalMoney DEF CallBegin, BeginAt, Deducting
<1>2. CASE CallLoad(w)
  <2> DEFINE has == tables.progress[Subject(job[w])][QuestOf(job[w])]
             j == [job[w] EXCEPT !.pc = "call_write",
                                 !.progress = has + Increment(job[w])]
  <2>1. Become(w, At(job[w], "call_rollback")) \/ Become(w, j)
    BY <1>2 DEF CallLoad
  <2>2. Funded(j) /\ Funded(At(job[w], "call_rollback"))
    BY <1>j, <1>at DEF Funded, Job, Deducting
  <2> QED
    BY <1>2, <2>1, <2>2, LocalMoney DEF CallLoad
<1>3. CASE CallWrite(w)
  <2>1. \A u, q, n : Covered([tables EXCEPT !.progress[u][q] = n])
    BY RowsCovered DEF MoneyPre, MoneyInv, WellTyped
  <2> QED
    BY <1>3, <1>at, <2>1, WriteMoney DEF CallWrite, Deducting
<1>4. CASE CallCommit(w)
  BY <1>4, <1>at, <1>n, LocalMoney DEF CallCommit, Deducting
<1>5. CASE CallRollback(w)
  BY <1>5, <1>n, LocalMoney DEF CallRollback
<1>6. CASE UpdateChallenges(w)
  <2>1. BalancesNeverNegative'
    BY <1>6, RowsCovered, StoreCovered
       DEF UpdateChallenges, Update, connection, BalancesNeverNegative,
           MoneyPre, MoneyInv, WellTyped
  <2>2. JobsFunded'
    BY <1>6, <1>n, BecomeFunded
       DEF UpdateChallenges, MoneyPre, MoneyInv, WellTyped
  <2> QED
    BY <2>1, <2>2 DEF MoneyInv
<1> QED
  BY <1>1, <1>2, <1>3, <1>4, <1>5, <1>6 DEF FollowUp

LEMMA RemoveMoney ==
  ASSUME MoneyPre, NEW w \in Workers, Remove(w)
  PROVE  MoneyInv'
<1>j. /\ job[w] \in Job
      /\ job[w].user \in Users
      /\ job[w].balance \in Int
      /\ Funded(job[w])
      /\ \A u \in Users : tables.balance[u] \in Int /\ tables.balance[u] >= 0
  BY JobMoney
<1>at. \A label : label \notin Deducting => Funded(At(job[w], label))
  BY <1>j, AtFunded
<1>1. CASE RemoveListing(w)
  <2>1. PICK l \in ListingIds :
          Become(w, [Idle EXCEPT !.pc = "remove_load",
                                 !.user = tables.listings[l].seller,
                                 !.item = tables.listings[l].item,
                                 !.listing = l, !.kind = "remove"])
    BY <1>1 DEF RemoveListing
  <2>2. Funded([Idle EXCEPT !.pc = "remove_load",
                            !.user = tables.listings[l].seller,
                            !.item = tables.listings[l].item,
                            !.listing = l, !.kind = "remove"])
    BY DEF Funded, Idle
  <2> QED
    BY <1>1, <2>1, <2>2, LocalMoney DEF RemoveListing
<1>2. CASE RemoveLoadSeller(w)
  <2>1. Funded([job[w] EXCEPT !.pc = "refund",
                              !.balance = tables.balance[job[w].user]])
    BY <1>j DEF Funded, Job
  <2> QED
    BY <1>2, <2>1, LocalMoney DEF RemoveLoadSeller
<1>3. CASE RemoveRefund(w)
  <2>1. job[w].balance + LISTING_FEE \in Int /\ job[w].balance + LISTING_FEE >= 0
    BY <1>j DEF Funded, LISTING_FEE
  <2> QED
    BY <1>j, <1>at, <1>3, <2>1, PayMoney DEF RemoveRefund, Deducting
<1>4. CASE RemoveReturnItem(w)
  BY <1>4, <1>at, InventoryMoney DEF RemoveReturnItem, Deducting
<1>5. CASE RemoveDelete(w)
  <2>1. \A l, st : Covered([tables EXCEPT !.listings[l].state = st])
    BY RowsCovered DEF MoneyPre, MoneyInv, WellTyped
  <2> QED
    BY <1>5, <2>1, IdleFunded, RowsCovered, WriteMoney
       DEF RemoveDelete, MoneyPre, MoneyInv, WellTyped
<1> QED
  BY <1>1, <1>2, <1>3, <1>4, <1>5 DEF Remove

LEMMA EndMoney ==
  ASSUME MoneyPre, NEW w \in Workers,
         CommitTransaction(w) \/ RollbackTransaction(w)
  PROVE  MoneyInv'
<1>1. \A label : label \notin Deducting => Funded(At(job[w], label))
  BY JobMoney, AtFunded
<1>2. CASE RollbackTransaction(w)
  BY <1>2, IdleFunded, LocalMoney DEF RollbackTransaction
<1>3. CASE CommitTransaction(w)
  BY <1>1, <1>3, IdleFunded, LocalMoney DEF CommitTransaction, Deducting
<1> QED
  BY <1>2, <1>3

(* No interleaving of listings, purchases and removals, failing statement  *)
(* or kill makes a balance negative, in the tables or on disk, although    *)
(* handlers write absolute balances they have read before.                 *)
THEOREM MarketNeverOverdrawn == Spec => []BalancesNeverNegative
<1>1. Init => MoneyInv
  <2>1. Init => JobsFunded
    BY IdleFunded DEF Init, JobsFunded
  <2>2. Init => BalancesNeverNegative
    BY MarketAssumption
       DEF Init, ConnectionInit, OpeningRows, BalancesNeverNegative
  <2> QED
    BY <2>1, <2>2 DEF MoneyInv
<1>2. TypeOK /\ MoneyInv /\ [Next]_vars => MoneyInv'
  <2> SUFFICES ASSUME TypeOK, MoneyInv, [Next]_vars
               PROVE  MoneyInv'
    OBVIOUS
  <2>0. MoneyPre
    BY DEF MoneyPre, WellTyped, ConnectionType, JobsType, TypeOK
  <2>1. ASSUME NEW w \in Workers, Handler(w)
        PROVE  MoneyInv'
    BY <2>0, <2>1, ListMoney, BuyMoney, FollowUpMoney, RemoveMoney, EndMoney
       DEF Handler
  <2>2. CASE Crash
    <3>1. BalancesNeverNegative'
      BY <2>2, ControlCovered DEF Crash, MoneyInv
    <3>2. JobsFunded'
      BY <2>2, IdleFunded DEF Crash, JobsFunded, Funded
    <3> QED
      BY <3>1, <3>2 DEF MoneyInv
  <2>3. CASE UNCHANGED vars
    BY <2>3 DEF vars, connection, MoneyInv, JobsFunded, Funded,
       BalancesNeverNegative
  <2> QED
    BY <2>1, <2>2, <2>3 DEF Next, Handler
<1>3. MoneyInv => BalancesNeverNegative
  BY DEF MoneyInv
<1> QED
  BY <1>1, <1>2, <1>3, TypeCorrect, PTL DEF Spec

-----------------------------------------------------------------------------
(* How far the sale of the handler with the locals j has come: t are the   *)
(* rows in the open transaction and d those on disk.                       *)

NothingSold(t, d) ==
  \A l \in ListingIds :
    d.listings[l].state = "active" => t.listings[l].state # "sold"

ListingRead(j, d) ==
  /\ d.listings[j.listing].state = "active"
  /\ d.listings[j.listing].seller = j.seller
  /\ d.listings[j.listing].item = j.item
  /\ d.listings[j.listing].price = j.price

Marked(j, t, d) ==
  /\ ListingRead(j, d)
  /\ t.listings = [d.listings EXCEPT ![j.listing].state = "sold"]

Fair(j, d) == j.seller # j.user /\ d.balance[j.user] >= j.price

Unpaid(t, d) == t.balance = d.balance
BuyerPaid(j, t, d) == t.balance = [d.balance EXCEPT ![j.user] = @ - j.price]
Paid(j, t, d) ==
  t.balance = [d.balance EXCEPT ![j.user] = @ - j.price,
                                ![j.seller] = @ + Payout(j.price)]

NotOwned(t, d) == t.owner = d.owner
Owned(j, t, d) == t.owner = [d.owner EXCEPT ![j.item] = j.user]

NotTaken(t, d) == t.inventory = d.inventory
Taken(j, t, d) ==
  \/ t.inventory = d.inventory \ {<<j.seller, j.item>>}
  \/ Faults /\ t.inventory = d.inventory
Given(j, t, d) ==
  \/ t.inventory = (d.inventory \ {<<j.seller, j.item>>}) \cup {<<j.user, j.item>>}
  \/ Faults /\ t.inventory = d.inventory \cup {<<j.user, j.item>>}

Untouched(t, d) == Unpaid(t, d) /\ NotOwned(t, d) /\ NotTaken(t, d)

Done(j, t, d) ==
  Marked(j, t, d) /\ Fair(j, d) /\ Paid(j, t, d) /\ Owned(j, t, d) /\ Given(j, t, d)

Selling == {"list_fee", "list_take", "list_save"}
Calling == {"call_load", "call_write", "call_commit"}

Stage(j, t, d) ==
  /\ j.pc \in Selling \cup Calling => NothingSold(t, d)
  /\ j.pc \in {"find", "mark"} => t = d
  /\ j.pc = "mark" => ListingRead(j, d)
  /\ j.pc \in {"marked", "buyer", "seller", "pay_buyer"} =>
       Marked(j, t, d) /\ Untouched(t, d)
  /\ j.pc = "buyer" => j.seller # j.user
  /\ j.pc \in {"seller", "pay_buyer"} =>
       Fair(j, d) /\ j.balance = d.balance[j.user]
  /\ j.pc \in {"pay_buyer", "pay_seller"} => j.seller_balance = d.balance[j.seller]
  /\ j.pc = "pay_seller" =>
       /\ Marked(j, t, d) /\ Fair(j, d)
       /\ BuyerPaid(j, t, d) /\ NotOwned(t, d) /\ NotTaken(t, d)
  /\ j.pc = "own" =>
       /\ Marked(j, t, d) /\ Fair(j, d)
       /\ Paid(j, t, d) /\ NotOwned(t, d) /\ NotTaken(t, d)
  /\ j.pc = "take" =>
       /\ Marked(j, t, d) /\ Fair(j, d)
       /\ Paid(j, t, d) /\ Owned(j, t, d) /\ NotTaken(t, d)
  /\ j.pc = "give" =>
       /\ Marked(j, t, d) /\ Fair(j, d)
       /\ Paid(j, t, d) /\ Owned(j, t, d) /\ Taken(j, t, d)
  /\ j.pc \in {"lock", "history"} => Done(j, t, d)
  /\ j.pc = "commit" => NothingSold(t, d) \/ Done(j, t, d)

Removing == {"remove_load", "refund", "return", "delete"}

(* The inductive invariant, beside TypeOK and TransactionsExclusive.       *)
SaleInv ==
  /\ ~inTx => tables = durable
  /\ \A v \in Workers : job[v].pc \notin Removing
  /\ \A v \in Workers : Stage(job[v], tables, durable)

SalePre == WellTyped /\ TransactionsExclusive /\ SaleInv

-----------------------------------------------------------------------------
(* Steps of a sale, as facts about the locals and the rows.                *)

Unbound == (OutsideTx \ Removing) \cup {"rollback", "call_rollback"}

LEMMA UnboundStage ==
  ASSUME NEW j, j.pc \in Unbound, NEW t, NEW d
  PROVE  Stage(j, t, d)
BY DEF Unbound, OutsideTx, Stage, Selling, Calling

LEMMA AtFields ==
  ASSUME NEW j \in Job, NEW label
  PROVE  /\ At(j, label).pc = label
         /\ At(j, label).user = j.user
         /\ At(j, label).listing = j.listing
         /\ At(j, label).seller = j.seller
         /\ At(j, label).item = j.item
         /\ At(j, label).price = j.price
         /\ At(j, label).balance = j.balance
         /\ At(j, label).seller_balance = j.seller_balance
BY DEF At, Job

(* The sale does not depend on the label. *)
LEMMA AtSale ==
  ASSUME NEW j \in Job, NEW label, NEW t, NEW d
  PROVE  /\ Fair(j, d) => Fair(At(j, label), d)
         /\ Marked(j, t, d) => Marked(At(j, label), t, d)
         /\ BuyerPaid(j, t, d) => BuyerPaid(At(j, label), t, d)
         /\ Paid(j, t, d) => Paid(At(j, label), t, d)
         /\ Owned(j, t, d) => Owned(At(j, label), t, d)
         /\ Taken(j, t, d) => Taken(At(j, label), t, d)
         /\ Given(j, t, d) => Given(At(j, label), t, d)
         /\ Done(j, t, d) => Done(At(j, label), t, d)
<1>f. /\ At(j, label).user = j.user
      /\ At(j, label).listing = j.listing
      /\ At(j, label).seller = j.seller
      /\ At(j, label).item = j.item
      /\ At(j, label).price = j.price
  BY AtFields
<1>1. Fair(j, d) => Fair(At(j, label), d)
  BY <1>f DEF Fair
<1>2. Marked(j, t, d) => Marked(At(j, label), t, d)
  BY <1>f DEF Marked, ListingRead
<1>3. BuyerPaid(j, t, d) => BuyerPaid(At(j, label), t, d)
  BY <1>f DEF BuyerPaid
<1>4. Paid(j, t, d) => Paid(At(j, label), t, d)
  BY <1>f DEF Paid
<1>5. Owned(j, t, d) => Owned(At(j, label), t, d)
  BY <1>f DEF Owned
<1>6. Taken(j, t, d) => Taken(At(j, label), t, d)
  BY <1>f DEF Taken
<1>7. Given(j, t, d) => Given(At(j, label), t, d)
  BY <1>f DEF Given
<1> QED
  BY <1>1, <1>2, <1>3, <1>4, <1>5, <1>6, <1>7 DEF Done

LEMMA AtRollback ==
  ASSUME NEW j \in Job, NEW t, NEW d
  PROVE  Stage(At(j, "rollback"), t, d) /\ Stage(At(j, "call_rollback"), t, d)
BY AtFields, UnboundStage DEF Unbound

(* A listing that is not there or is put up again is not sold. *)
LEMMA SellingStage ==
  ASSUME NEW j \in Job, NEW t \in Tables, NEW d \in Tables, NothingSold(t, d)
  PROVE  /\ \A b : NothingSold([t EXCEPT !.balance = b], d)
         /\ \A u, n : NothingSold([t EXCEPT !.balance[u] = n], d)
         /\ \A inv : NothingSold([t EXCEPT !.inventory = inv], d)
         /\ \A u, q, n : NothingSold([t EXCEPT !.progress[u][q] = n], d)
         /\ \A row : row.state = "active" =>
              \A l \in ListingIds : NothingSold([t EXCEPT !.listings[l] = row], d)
         /\ \A label \in Selling \cup Calling \cup {"commit"} :
              Stage(At(j, label), t, d)
<1>1. /\ \A b : NothingSold([t EXCEPT !.balance = b], d)
      /\ \A u, n : NothingSold([t EXCEPT !.balance[u] = n], d)
      /\ \A inv : NothingSold([t EXCEPT !.inventory = inv], d)
      /\ \A u, q, n : NothingSold([t EXCEPT !.progress[u][q] = n], d)
  BY DEF NothingSold, Tables
<1>2. ASSUME NEW l \in ListingIds, NEW row, row.state = "active"
      PROVE  NothingSold([t EXCEPT !.listings[l] = row], d)
  BY <1>2 DEF NothingSold, Tables
<1>3. ASSUME NEW label \in Selling \cup Calling \cup {"commit"}
      PROVE  Stage(At(j, label), t, d)
  BY <1>3, AtFields DEF Stage, Selling, Calling
<1> QED
  BY <1>1, <1>2, <1>3

LEMMA MarkStage ==
  ASSUME NEW j \in Job, NEW d \in Tables, ListingRead(j, d),
         NEW t, t = [d EXCEPT !.listings[j.listing].state = "sold"]
  PROVE  Stage(At(j, "marked"), t, d)
<1>1. Marked(j, t, d) /\ Untouched(t, d)
  <2>1. /\ j.listing \in ListingIds
        /\ d.listings \in [ListingIds -> Listing]
    BY DEF Job, Tables
  <2> QED
    BY <2>1 DEF Marked, Untouched, Unpaid, NotOwned, NotTaken, Tables
<1> QED
  BY <1>1, AtFields, AtSale DEF Stage, Selling, Calling

LEMMA BuyerStage ==
  ASSUME NEW j \in Job, NEW t, NEW d, Stage(j, t, d),
         j.pc = "marked", j.seller # j.user
  PROVE  Stage(At(j, "buyer"), t, d)
BY AtFields, AtSale DEF Stage, Selling, Calling

LEMMA SellerStage ==
  ASSUME NEW j \in Job, NEW t \in Tables, NEW d \in Tables, Stage(j, t, d),
         j.pc = "buyer", t.balance[j.user] >= j.price
  PROVE  Stage([j EXCEPT !.pc = "seller", !.balance = t.balance[j.user]], t, d)
<1>1. Marked(j, t, d) /\ Untouched(t, d) /\ j.seller # j.user
  BY DEF Stage
<1>2. t.balance = d.balance
  BY <1>1 DEF Untouched, Unpaid
<1> DEFINE k == [j EXCEPT !.pc = "seller", !.balance = t.balance[j.user]]
<1>3. /\ k.pc = "seller" /\ k.balance = d.balance[j.user]
      /\ k.user = j.user /\ k.listing = j.listing /\ k.seller = j.seller
      /\ k.item = j.item /\ k.price = j.price
  BY <1>2 DEF Job
<1> HIDE DEF k
<1> QED
  BY <1>1, <1>2, <1>3 DEF Stage, Selling, Calling, Marked, ListingRead, Fair, k

LEMMA PayBuyerStage ==
  ASSUME NEW j \in Job, NEW t \in Tables, NEW d \in Tables, Stage(j, t, d),
         j.pc = "seller"
  PROVE  Stage([j EXCEPT !.pc = "pay_buyer",
                         !.seller_balance = t.balance[j.seller]], t, d)
<1>1. /\ Marked(j, t, d) /\ Untouched(t, d)
      /\ Fair(j, d) /\ j.balance = d.balance[j.user]
  BY DEF Stage
<1>2. t.balance = d.balance
  BY <1>1 DEF Untouched, Unpaid
<1> DEFINE k == [j EXCEPT !.pc = "pay_buyer",
                          !.seller_balance = t.balance[j.seller]]
<1>3. /\ k.pc = "pay_buyer" /\ k.seller_balance = d.balance[j.seller]
      /\ k.user = j.user /\ k.listing = j.listing /\ k.seller = j.seller
      /\ k.item = j.item /\ k.price = j.price /\ k.balance = j.balance
  BY <1>2 DEF Job
<1> HIDE DEF k
<1> QED
  BY <1>1, <1>2, <1>3 DEF Stage, Selling, Calling, Marked, ListingRead, Fair, k

LEMMA PaySellerStage ==
  ASSUME NEW j \in Job, NEW t \in Tables, NEW d \in Tables, Stage(j, t, d),
         j.pc = "pay_buyer"
  PROVE  Stage(At(j, "pay_seller"),
               [t EXCEPT !.balance[j.user] = j.balance - j.price], d)
<1>1. /\ Marked(j, t, d) /\ Untouched(t, d) /\ Fair(j, d)
      /\ j.balance = d.balance[j.user] /\ j.seller_balance = d.balance[j.seller]
  BY DEF Stage
<1> DEFINE r == [t EXCEPT !.balance[j.user] = j.balance - j.price]
<1>2. /\ r.balance = [d.balance EXCEPT ![j.user] = @ - j.price]
      /\ r.listings = t.listings /\ r.owner = t.owner
      /\ r.inventory = t.inventory
  BY <1>1 DEF Tables, Untouched, Unpaid
<1> HIDE DEF r
<1>3. Marked(j, r, d) /\ BuyerPaid(j, r, d) /\ NotOwned(r, d) /\ NotTaken(r, d)
  BY <1>1, <1>2 DEF Marked, Untouched, BuyerPaid, NotOwned, NotTaken
<1>4. Stage(At(j, "pay_seller"), r, d)
  BY <1>1, <1>3, AtFields, AtSale
     DEF Stage, Selling, Calling
<1> QED
  BY <1>4 DEF r

LEMMA OwnStage ==
  ASSUME NEW j \in Job, NEW t \in Tables, NEW d \in Tables, Stage(j, t, d),
         j.pc = "pay_seller"
  PROVE  Stage(At(j, "own"),
               [t EXCEPT !.balance[j.seller] =
                           j.seller_balance + Payout(j.price)], d)
<1>1. /\ Marked(j, t, d) /\ Fair(j, d)
      /\ BuyerPaid(j, t, d) /\ NotOwned(t, d) /\ NotTaken(t, d)
      /\ j.seller_balance = d.balance[j.seller]
  BY DEF Stage
<1> DEFINE r == [t EXCEPT !.balance[j.seller] =
                            j.seller_balance + Payout(j.price)]
<1>2. /\ r.balance = [d.balance EXCEPT ![j.user] = @ - j.price,
                                       ![j.seller] = @ + Payout(j.price)]
      /\ r.listings = t.listings /\ r.owner = t.owner
      /\ r.inventory = t.inventory
  BY <1>1 DEF Tables, Job, BuyerPaid, Fair
<1> HIDE DEF r
<1>3. Marked(j, r, d) /\ Paid(j, r, d) /\ NotOwned(r, d) /\ NotTaken(r, d)
  BY <1>1, <1>2 DEF Marked, Paid, NotOwned, NotTaken
<1>4. Stage(At(j, "own"), r, d)
  BY <1>1, <1>3, AtFields, AtSale
     DEF Stage, Selling, Calling
<1> QED
  BY <1>4 DEF r

LEMMA TakeStage ==
  ASSUME NEW j \in Job, NEW t \in Tables, NEW d \in Tables, Stage(j, t, d),
         j.pc = "own"
  PROVE  Stage(At(j, "take"), [t EXCEPT !.owner[j.item] = j.user], d)
<1>1. /\ Marked(j, t, d) /\ Fair(j, d)
      /\ Paid(j, t, d) /\ NotOwned(t, d) /\ NotTaken(t, d)
  BY DEF Stage
<1> DEFINE r == [t EXCEPT !.owner[j.item] = j.user]
<1>2. /\ r.owner = [d.owner EXCEPT ![j.item] = j.user]
      /\ r.listings = t.listings /\ r.balance = t.balance
      /\ r.inventory = t.inventory
  BY <1>1 DEF Tables, NotOwned
<1> HIDE DEF r
<1>3. Marked(j, r, d) /\ Paid(j, r, d) /\ Owned(j, r, d) /\ NotTaken(r, d)
  BY <1>1, <1>2 DEF Marked, Paid, Owned, NotTaken
<1>4. Stage(At(j, "take"), r, d)
  BY <1>1, <1>3, AtFields, AtSale
     DEF Stage, Selling, Calling
<1> QED
  BY <1>4 DEF r

(* The DELETE, or its failure, which stops nothing. *)
LEMMA GiveStage ==
  ASSUME NEW j \in Job, NEW t \in Tables, NEW d \in Tables, Stage(j, t, d),
         j.pc = "take"
  PROVE  /\ Stage(At(j, "give"),
                  [t EXCEPT !.inventory = @ \ {<<j.seller, j.item>>}], d)
         /\ Faults => Stage(At(j, "give"), t, d)
<1>1. /\ Marked(j, t, d) /\ Fair(j, d)
      /\ Paid(j, t, d) /\ Owned(j, t, d) /\ NotTaken(t, d)
  BY DEF Stage
<1>a. ASSUME NEW r, r.owner = t.owner, r.listings = t.listings,
             r.balance = t.balance, Taken(j, r, d)
      PROVE  Stage(At(j, "give"), r, d)
  <2>1. Marked(j, r, d) /\ Paid(j, r, d) /\ Owned(j, r, d)
    BY <1>1, <1>a DEF Marked, Paid, Owned
  <2> QED
    BY <1>1, <1>a, <2>1, AtFields, AtSale
       DEF Stage, Selling, Calling
<1>2. ASSUME Faults
      PROVE  Stage(At(j, "give"), t, d)
  BY <1>1, <1>2, <1>a DEF NotTaken, Taken
<1> DEFINE r == [t EXCEPT !.inventory = @ \ {<<j.seller, j.item>>}]
<1>3. /\ r.owner = t.owner /\ r.listings = t.listings
      /\ r.balance = t.balance /\ Taken(j, r, d)
  BY <1>1 DEF Tables, NotTaken, Taken
<1>4. Stage(At(j, "give"), r, d)
  BY <1>3, <1>a
<1> QED
  BY <1>2, <1>4

LEMMA DoneStage ==
  ASSUME NEW j \in Job, NEW t, NEW d, Done(j, t, d),
         NEW label \in {"lock", "history", "commit"}
  PROVE  Stage(At(j, label), t, d)
BY AtFields, AtSale DEF Stage, Selling, Calling

LEMMA LockStage ==
  ASSUME NEW j \in Job, NEW t \in Tables, NEW d \in Tables, Stage(j, t, d),
         j.pc = "give", NEW r \in Tables,
         \/ r = [t EXCEPT !.inventory = @ \cup {<<j.user, j.item>>}]
         \/ <<j.user, j.item>> \in t.inventory /\ r = t
  PROVE  Stage(At(j, "lock"), r, d)
<1>1. /\ Marked(j, t, d) /\ Fair(j, d)
      /\ Paid(j, t, d) /\ Owned(j, t, d) /\ Taken(j, t, d)
  BY DEF Stage
<1>2. /\ r.owner = t.owner /\ r.listings = t.listings /\ r.balance = t.balance
      /\ r.inventory = t.inventory \cup {<<j.user, j.item>>}
  BY DEF Tables
<1>3. Given(j, r, d)
  BY <1>1, <1>2 DEF Given, Taken
<1>4. Done(j, r, d)
  BY <1>1, <1>2, <1>3 DEF Done, Marked, Paid, Owned
<1> QED
  BY <1>4, DoneStage

-----------------------------------------------------------------------------
(* What a step of one worker does to the sale in the open transaction.     *)

SaleStep(w) ==
  /\ job'[w].pc \notin Removing
  /\ Stage(job'[w], tables', durable')
  /\ \/ job[w].pc \in OutsideTx /\ UNCHANGED <<tables, durable>>
     \/ job[w].pc \in InsideTx /\ UNCHANGED <<durable, inTx>>
     \/ /\ job[w].pc \in InsideTx
        /\ tables' = durable'
        /\ \/ NothingSold(durable', durable)
           \/ Done(job[w], durable', durable)

LEMMA SaleJob ==
  ASSUME SalePre, NEW w \in Workers
  PROVE  /\ job[w] \in Job
         /\ job[w].pc \notin Removing
         /\ Stage(job[w], tables, durable)
         /\ tables \in Tables /\ durable \in Tables
         /\ job[w].pc \in InsideTx => inTx
         /\ ~inTx => tables = durable
BY DEF SalePre, SaleInv, WellTyped, ConnectionType, JobsType,
       TransactionsExclusive

LEMMA Outside ==
  ASSUME SalePre, NEW v \in Workers, job[v].pc \notin InsideTx
  PROVE  \A t, d : Stage(job[v], t, d)
<1>1. job[v].pc \in Unbound
  BY SaleJob DEF Unbound, Job
<1> QED
  BY <1>1, UnboundStage

LEMMA SaleKept ==
  ASSUME SalePre, NEW w \in Workers, TxStep(w), SaleStep(w)
  PROVE  SaleInv'
<1>1. /\ \A v \in Workers : job'[v].pc \notin Removing
      /\ \A v \in Workers \ {w} : job'[v] = job[v]
  BY DEF SaleStep, TxStep, SalePre, SaleInv
<1>2. CASE job[w].pc \in OutsideTx
  <2>1. UNCHANGED <<tables, durable>>
    BY <1>2, LabelsApart DEF SaleStep
  <2>2. \A v \in Workers : Stage(job'[v], tables', durable')
    BY <1>1, <2>1 DEF SaleStep, SalePre, SaleInv
  <2>3. ~inTx' => ~inTx
    BY <1>2, LabelsApart DEF TxStep, StaysOut, Enters, StaysIn, Leaves
  <2>4. ~inTx' => tables' = durable'
    BY <2>1, <2>3 DEF SalePre, SaleInv
  <2> QED
    BY <1>1, <2>2, <2>4 DEF SaleInv
<1>3. CASE job[w].pc \in InsideTx
  <2>1. \A v \in Workers \ {w} : job[v].pc \notin InsideTx
    BY <1>3 DEF SalePre, TransactionsExclusive
  <2>2. \A v \in Workers : Stage(job'[v], tables', durable')
    BY <1>1, <2>1, Outside DEF SaleStep
  <2>3. inTx
    BY <1>3, SaleJob
  <2>4. ~inTx' => tables' = durable'
    BY <1>3, <2>3, LabelsApart DEF SaleStep
  <2> QED
    BY <1>1, <2>2, <2>4 DEF SaleInv
<1> QED
  BY <1>2, <1>3 DEF SaleStep

(* What Done says of the rows that a COMMIT makes durable. *)
LEMMA DoneIsWhole ==
  ASSUME NEW w \in Workers, job[w] \in Job, durable \in Tables,
         Done(job[w], durable', durable), NEW l \in ListingIds, Sold(l)
  PROVE  Whole(l)
<1> DEFINE j == job[w]
           row == durable.listings[l]
<1>1. /\ ListingRead(j, durable) /\ Fair(j, durable)
      /\ durable'.listings = [durable.listings EXCEPT ![j.listing].state = "sold"]
  BY DEF Done, Marked
<1>2. l = j.listing
  BY <1>1 DEF Sold, Tables
<1>3. j.seller = row.seller /\ j.item = row.item /\ j.price = row.price
  BY <1>1, <1>2 DEF ListingRead
<1>4. /\ durable'.owner = [durable.owner EXCEPT ![row.item] = j.user]
      /\ row.item \in Items
      /\ durable'.owner[row.item] = j.user
  BY <1>3 DEF Done, Owned, Tables, Listing
<1>5. durable'.balance = [durable.balance EXCEPT ![j.user] = @ - row.price,
                             ![row.seller] = @ + Payout(row.price)]
  BY <1>3 DEF Done, Paid
<1>6. \/ durable'.inventory =
           (durable.inventory \ {<<row.seller, row.item>>})
             \cup {<<j.user, row.item>>}
      \/ Faults /\ durable'.inventory =
                     durable.inventory \cup {<<j.user, row.item>>}
  BY <1>3 DEF Done, Given
<1>7. j.user # row.seller /\ durable.balance[j.user] >= row.price
  BY <1>1, <1>3 DEF Fair
<1> HIDE DEF j
<1> QED
  BY <1>1, <1>2, <1>4, <1>5, <1>6, <1>7 DEF Whole

LEMMA SaleStepIsWhole ==
  ASSUME SalePre, NEW w \in Workers, SaleStep(w),
         NEW l \in ListingIds, Sold(l)
  PROVE  Whole(l)
<1>1. durable' # durable /\ ~NothingSold(durable', durable)
  BY DEF Sold, NothingSold
<1>2. Done(job[w], durable', durable)
  BY <1>1 DEF SaleStep
<1> QED
  BY <1>2, SaleJob, DoneIsWhole

-----------------------------------------------------------------------------
(* The kinds of steps, and each step of a handler.                         *)

(* A write inside the transaction: it leaves rows, or fails. *)
LEMMA InsideWrite ==
  ASSUME SalePre, NEW w \in Workers, job[w].pc \in InsideTx,
         NEW rows, NEW n, NEW next, NEW failed,
         Write(w, rows, n, next, failed) \/ WriteNew(w, rows, next, failed),
         next.pc \notin Removing, failed.pc \notin Removing,
         Stage(next, rows, durable),
         Faults => Stage(failed, tables, durable)
  PROVE  SaleStep(w)
<1>1. inTx /\ JobsType
  BY SaleJob DEF SalePre, WellTyped
<1>2. CASE Store(rows) /\ Become(w, next)
  <2>1. job'[w] = next /\ tables' = rows /\ UNCHANGED <<durable, inTx>>
    BY <1>1, <1>2, BecomeMoves DEF Store, Moved
  <2> QED
    BY <2>1 DEF SaleStep
<1>3. CASE Faults /\ UNCHANGED connection /\ Become(w, failed)
  <2>1. job'[w] = failed /\ UNCHANGED <<tables, durable, inTx>>
    BY <1>1, <1>3, BecomeMoves DEF connection, Moved
  <2> QED
    BY <1>3, <2>1 DEF SaleStep
<1>4. FALSE \in Outcomes => Faults
  BY DEF Outcomes
<1> QED
  BY <1>2, <1>3, <1>4, FaultsAssumption
     DEF Write, WriteNew, Update, Insert, Outcomes

LEMMA InsideLocal ==
  ASSUME SalePre, NEW w \in Workers, job[w].pc \in InsideTx,
         NEW j, Become(w, j), UNCHANGED connection,
         j.pc \notin Removing, Stage(j, tables, durable)
  PROVE  SaleStep(w)
<1>1. job'[w] = j /\ UNCHANGED <<tables, durable, inTx>>
  BY BecomeMoves DEF connection, Moved, SalePre, WellTyped
<1> QED
  BY <1>1 DEF SaleStep

LEMMA OutsideStep ==
  ASSUME SalePre, NEW w \in Workers, job[w].pc \in OutsideTx,
         NEW j, Become(w, j), j.pc \notin Removing, Stage(j, tables, durable),
         UNCHANGED connection \/ Begin \/ BeginRefused \/ Store(tables)
  PROVE  SaleStep(w)
<1>1. job'[w] = j
  BY BecomeMoves DEF Moved, SalePre, WellTyped
<1>2. UNCHANGED <<tables, durable>>
  BY DEF connection, Begin, BeginRefused, Store, SalePre, SaleInv
<1> QED
  BY <1>1, <1>2 DEF SaleStep

(* COMMIT and ROLLBACK. *)
LEMMA EndStep ==
  ASSUME SalePre, NEW w \in Workers, job[w].pc \in InsideTx,
         NEW j, Become(w, j), j.pc \in Unbound,
         \/ Rollback
         \/ Commit /\ (\/ NothingSold(tables, durable)
                       \/ Done(job[w], tables, durable))
  PROVE  SaleStep(w)
<1>1. job'[w] = j /\ j.pc \notin Removing /\ inTx
  BY SaleJob, BecomeMoves
     DEF Moved, SalePre, WellTyped, Unbound, Removing
<1>2. Stage(job'[w], tables', durable')
  BY <1>1, UnboundStage
<1>3. CASE Rollback
  <2>1. tables' = durable' /\ durable' = durable
    BY <1>1, <1>3 DEF Rollback
  <2>2. NothingSold(durable', durable)
    BY <2>1 DEF NothingSold
  <2> QED
    BY <1>1, <1>2, <2>1, <2>2 DEF SaleStep
<1>4. CASE Commit /\ (\/ NothingSold(tables, durable)
                     \/ Done(job[w], tables, durable))
  <2>1. tables' = durable' /\ durable' = tables
    BY <1>4 DEF Commit
  <2> QED
    BY <1>1, <1>2, <1>4, <2>1 DEF SaleStep
<1> QED
  BY <1>3, <1>4

LEMMA ListSale ==
  ASSUME SalePre, NEW w \in Workers, List(w)
  PROVE  SaleStep(w)
<1>j. /\ job[w] \in Job
      /\ Stage(job[w], tables, durable)
      /\ tables \in Tables /\ durable \in Tables
      /\ ~inTx => tables = durable
      /\ \A label : At(job[w], label).pc = label
  BY SaleJob, AtPc
<1>i. Stage(Idle, tables, durable) /\ Idle.pc \notin Removing
  BY UnboundStage DEF Idle, Unbound, OutsideTx, Removing
<1>r. Stage(At(job[w], "rollback"), tables, durable)
  BY <1>j, AtRollback
<1>1. CASE ListSkinOnMarket(w)
  <2>1. PICK i \in Items, p \in Prices :
          Become(w, [Idle EXCEPT !.pc = "list_funds", !.user = tables.owner[i],
                                 !.item = i, !.price = p])
    BY <1>1 DEF ListSkinOnMarket
  <2> DEFINE k == [Idle EXCEPT !.pc = "list_funds", !.user = tables.owner[i],
                               !.item = i, !.price = p]
  <2>2. k.pc \in Unbound /\ k.pc \notin Removing
    BY DEF Idle, Unbound, OutsideTx, Removing
  <2>3. job[w].pc \in OutsideTx
    BY <1>1 DEF ListSkinOnMarket, Request, OutsideTx
  <2> QED
    BY <1>1, <2>1, <2>2, <2>3, UnboundStage, OutsideStep DEF ListSkinOnMarket
<1>2. CASE ListLoadUser(w)
  <2> DEFINE k == [job[w] EXCEPT !.pc = "list_begin",
                                 !.balance = tables.balance[job[w].user]]
  <2>1. Become(w, Idle) \/ Become(w, k)
    BY <1>2 DEF ListLoadUser
  <2>2. k.pc \in Unbound /\ k.pc \notin Removing
    BY <1>j DEF Job, Unbound, OutsideTx, Removing
  <2>3. job[w].pc \in OutsideTx
    BY <1>2 DEF ListLoadUser, Running, OutsideTx
  <2>4. Stage(k, tables, durable)
    BY <2>2, UnboundStage
  <2> QED
    BY <1>2, <1>i, <2>1, <2>2, <2>3, <2>4, OutsideStep DEF ListLoadUser
<1>3. CASE ListBegin(w)
  <2>1. job[w].pc \in OutsideTx
    BY <1>3 DEF ListBegin, BeginAt, Running, OutsideTx
  <2>2. CASE Begin /\ Become(w, At(job[w], "list_fee"))
    <3>1. NothingSold(tables, durable)
      BY <1>j, <2>2 DEF Begin, NothingSold
    <3>2. Stage(At(job[w], "list_fee"), tables, durable)
      BY <1>j, <3>1, SellingStage DEF Selling
    <3> QED
      BY <1>j, <2>1, <2>2, <3>2, OutsideStep DEF Removing
  <2>3. CASE BeginRefused /\ Become(w, Idle)
    BY <1>i, <2>1, <2>3, OutsideStep
  <2> QED
    BY <1>3, <2>2, <2>3 DEF ListBegin, BeginAt
<1> DEFINE fee == [tables EXCEPT !.balance[job[w].user] =
                                   job[w].balance - LISTING_FEE]
           gone == [tables EXCEPT !.inventory =
                                    @ \ {<<job[w].user, job[w].item>>}]
<1>4. CASE ListDeductFee(w)
  <2>1. job[w].pc = "list_fee"
    BY <1>4 DEF ListDeductFee, Running
  <2>2. fee \in Tables
    <3>1. job[w].user \in Users /\ job[w].balance - LISTING_FEE \in Int
      BY <1>j DEF Job, LISTING_FEE
    <3>2. PICK i \in Items : TRUE
      BY MarketAssumption
    <3> QED
      BY <3>1, <3>2, RowsType DEF SalePre, WellTyped
  <2>3. NothingSold(fee, durable)
    BY <1>j, <2>1, SellingStage DEF Stage, Selling
  <2>4. Stage(At(job[w], "list_take"), fee, durable)
    BY <1>j, <2>2, <2>3, SellingStage DEF Selling
  <2>5. Write(w, fee, 1, At(job[w], "list_take"), At(job[w], "rollback"))
    BY <1>4 DEF ListDeductFee, Pay
  <2> QED
    BY <1>j, <1>r, <2>1, <2>4, <2>5, InsideWrite DEF InsideTx, Removing
<1>5. CASE ListRemoveFromInventory(w)
  <2>1. job[w].pc = "list_take"
    BY <1>5 DEF ListRemoveFromInventory, Running
  <2>2. gone \in Tables
    BY <1>j, RowsType DEF SalePre, WellTyped, Job
  <2>3. NothingSold(gone, durable)
    BY <1>j, <2>1, SellingStage DEF Stage, Selling
  <2>4. Stage(At(job[w], "list_save"), gone, durable)
    BY <1>j, <2>2, <2>3, SellingStage DEF Selling
  <2>5. \E n : Write(w, gone, n, At(job[w], "list_save"), At(job[w], "rollback"))
    BY <1>5 DEF ListRemoveFromInventory, Take
  <2> QED
    BY <1>j, <1>r, <2>1, <2>4, <2>5, InsideWrite DEF InsideTx, Removing
<1>6. CASE SaveListing(w)
  <2>1. job[w].pc = "list_save" /\ inTx
    BY <1>6, SaleJob DEF SaveListing, Running, InsideTx
  <2>2. CASE UNCHANGED connection /\ Become(w, At(job[w], "rollback"))
    BY <1>j, <1>r, <2>1, <2>2, InsideLocal DEF InsideTx, Removing
  <2>3. ASSUME NEW l \in ListingIds, Become(w, At(job[w], "commit")),
               Insert([tables EXCEPT !.listings[l] =
                         [seller |-> job[w].user, item |-> job[w].item,
                          price |-> job[w].price, state |-> "active"]], l)
        PROVE  SaleStep(w)
    <3> DEFINE row == [seller |-> job[w].user, item |-> job[w].item,
                       price |-> job[w].price, state |-> "active"]
               up == [tables EXCEPT !.listings[l] = row]
    <3>1. row \in Listing /\ row.state = "active"
      BY <1>j DEF Job, Listing, ListingStates
    <3>2. up \in Tables
      <4>1. PICK u \in Users, i \in Items : TRUE
        BY MarketAssumption
      <4> HIDE DEF row
      <4> QED
        BY <3>1, <4>1, RowsType DEF SalePre, WellTyped
    <3>3. NothingSold(tables, durable)
      BY <1>j, <2>1 DEF Stage, Selling
    <3>4. NothingSold(up, durable)
      BY <1>j, <3>1, <3>3, SellingStage
    <3>5. Stage(At(job[w], "commit"), up, durable)
      BY <1>j, <3>2, <3>4, SellingStage
    <3>6. tables' = up /\ UNCHANGED <<durable, inTx>>
      BY <2>1, <2>3 DEF Insert, Store
    <3>7. job'[w] = At(job[w], "commit")
      BY <2>3, BecomeMoves DEF Moved, SalePre, WellTyped
    <3> HIDE DEF up
    <3> QED
      BY <1>j, <2>1, <3>5, <3>6, <3>7 DEF SaleStep, InsideTx, Removing
  <2> QED
    BY <1>6, <2>2, <2>3 DEF SaveListing
<1> QED
  BY <1>1, <1>2, <1>3, <1>4, <1>5, <1>6 DEF List

(* The rows the writes of a purchase leave. *)
LEMMA BuyRows ==
  ASSUME SalePre, NEW w \in Workers
  PROVE  /\ [tables EXCEPT !.balance[job[w].user] = job[w].balance - job[w].price]
              \in Tables
         /\ [tables EXCEPT !.inventory = @ \cup {<<job[w].user, job[w].item>>}]
              \in Tables
<1>1. /\ job[w].user \in Users /\ job[w].item \in Items
      /\ job[w].balance - job[w].price \in Int
  BY SaleJob DEF Job
<1> QED
  BY <1>1, RowsType DEF SalePre, WellTyped

LEMMA BuySale ==
  ASSUME SalePre, NEW w \in Workers, Buy(w)
  PROVE  SaleStep(w)
<1> DEFINE j == job[w]
<1>j. /\ j \in Job
      /\ Stage(j, tables, durable)
      /\ tables \in Tables /\ durable \in Tables
      /\ ~inTx => tables = durable
      /\ \A label : At(j, label).pc = label
  BY SaleJob, AtPc
<1>i. Stage(Idle, tables, durable) /\ Idle.pc \notin Removing
  BY UnboundStage DEF Idle, Unbound, OutsideTx, Removing
<1>r. Stage(At(j, "rollback"), tables, durable)
  BY <1>j, AtRollback
<1>1. CASE BuyFromMarket(w)
  <2>1. PICK u \in Users, l \in ListingIds :
          Become(w, [Idle EXCEPT !.pc = "buy_begin", !.user = u, !.listing = l,
                                 !.kind = "buy"])
    BY <1>1 DEF BuyFromMarket
  <2> DEFINE k == [Idle EXCEPT !.pc = "buy_begin", !.user = u, !.listing = l,
                               !.kind = "buy"]
  <2>2. k.pc \in Unbound /\ k.pc \notin Removing
    BY DEF Idle, Unbound, OutsideTx, Removing
  <2>3. job[w].pc \in OutsideTx
    BY <1>1 DEF BuyFromMarket, Request, OutsideTx
  <2> QED
    BY <1>1, <2>1, <2>2, <2>3, UnboundStage, OutsideStep DEF BuyFromMarket
<1>2. CASE BuyBegin(w)
  <2>1. job[w].pc \in OutsideTx
    BY <1>2 DEF BuyBegin, BeginAt, Running, OutsideTx
  <2>2. CASE Begin /\ Become(w, At(j, "find"))
    <3>1. Stage(At(j, "find"), tables, durable)
      BY <1>j, <2>2 DEF Begin, Stage, Selling, Calling
    <3> QED
      BY <1>j, <2>1, <2>2, <3>1, OutsideStep DEF Removing
  <2>3. CASE BeginRefused /\ Become(w, Idle)
    BY <1>i, <2>1, <2>3, OutsideStep
  <2> QED
    BY <1>2, <2>2, <2>3 DEF BuyBegin, BeginAt
<1>3. CASE FindListing(w)
  <2> DEFINE row == tables.listings[j.listing]
             k == [j EXCEPT !.pc = "mark", !.seller = row.seller,
                            !.item = row.item, !.price = row.price]
  <2>1. j.pc = "find" /\ tables = durable
    BY <1>3, <1>j DEF FindListing, Running, Stage
  <2>2. \/ Become(w, At(j, "rollback"))
        \/ row.state = "active" /\ Become(w, k)
    BY <1>3 DEF FindListing
  <2>3. /\ k.pc = "mark" /\ k.listing = j.listing /\ k.seller = row.seller
        /\ k.item = row.item /\ k.price = row.price
    BY <1>j DEF Job
  <2> HIDE DEF k
  <2>4. row.state = "active" => Stage(k, tables, durable)
    BY <2>1, <2>3 DEF Stage, Selling, Calling, ListingRead
  <2>5. UNCHANGED connection
    BY <1>3 DEF FindListing
  <2>6. k.pc \notin Removing /\ At(j, "rollback").pc \notin Removing
        /\ j.pc \in InsideTx
    BY <1>j, <2>1, <2>3 DEF Removing, InsideTx
  <2> QED
    BY <1>r, <2>2, <2>4, <2>5, <2>6, InsideLocal
<1>4. CASE MarkSold(w)
  <2> DEFINE rows == [tables EXCEPT !.listings[j.listing].state = "sold"]
  <2>1. j.pc = "mark" /\ tables = durable /\ ListingRead(j, durable)
    BY <1>4, <1>j DEF MarkSold, Running, Stage
  <2>2. Write(w, rows, 1, At(j, "marked"), At(j, "rollback"))
    BY <1>4, <2>1 DEF MarkSold, ListingRead
  <2>3. Stage(At(j, "marked"), rows, durable)
    BY <1>j, <2>1, MarkStage
  <2> QED
    BY <1>j, <1>r, <2>1, <2>2, <2>3, InsideWrite DEF InsideTx, Removing
<1>5. CASE BuyReadChanges(w)
  <2>1. j.pc = "marked"
    BY <1>5 DEF BuyReadChanges, Running
  <2>2. \/ Become(w, At(j, "rollback"))
        \/ j.seller # j.user /\ Become(w, At(j, "buyer"))
    BY <1>5 DEF BuyReadChanges
  <2>3. j.seller # j.user => Stage(At(j, "buyer"), tables, durable)
    BY <1>j, <2>1, BuyerStage
  <2>4. UNCHANGED connection
    BY <1>5 DEF BuyReadChanges
  <2> QED
    BY <1>j, <1>r, <2>1, <2>2, <2>3, <2>4, InsideLocal DEF InsideTx, Removing
<1>6. CASE LoadBuyer(w)
  <2> DEFINE k == [j EXCEPT !.pc = "seller", !.balance = tables.balance[j.user]]
  <2>1. j.pc = "buyer" /\ UNCHANGED connection
    BY <1>6 DEF LoadBuyer, Running
  <2>2. \/ Become(w, At(j, "rollback"))
        \/ ~(tables.balance[j.user] < j.price) /\ Become(w, k)
    BY <1>6 DEF LoadBuyer
  <2>3. tables.balance[j.user] \in Int /\ j.price \in Int
    BY <1>j DEF Tables, Job
  <2>4. ASSUME ~(tables.balance[j.user] < j.price)
        PROVE  Stage(k, tables, durable)
    <3>1. tables.balance[j.user] >= j.price
      BY <2>3, <2>4
    <3> QED
      BY <1>j, <2>1, <3>1, SellerStage
  <2>5. k.pc \notin Removing /\ At(j, "rollback").pc \notin Removing
        /\ j.pc \in InsideTx
    BY <1>j, <2>1 DEF Removing, InsideTx, Job
  <2> HIDE DEF k
  <2> QED
    BY <1>r, <2>1, <2>2, <2>4, <2>5, InsideLocal
<1>7. CASE LoadSeller(w)
  <2> DEFINE k == [j EXCEPT !.pc = "pay_buyer",
                            !.seller_balance = tables.balance[j.seller]]
  <2>1. j.pc = "seller" /\ UNCHANGED connection /\ Become(w, k)
    BY <1>7 DEF LoadSeller, Running
  <2>2. Stage(k, tables, durable)
    BY <1>j, <2>1, PayBuyerStage
  <2>3. k.pc \notin Removing /\ j.pc \in InsideTx
    BY <1>j, <2>1 DEF Removing, InsideTx, Job
  <2> HIDE DEF k
  <2> QED
    BY <2>1, <2>2, <2>3, InsideLocal
<1>8. CASE PayBuyer(w)
  <2> DEFINE rows == [tables EXCEPT !.balance[j.user] = j.balance - j.price]
  <2>1. /\ j.pc = "pay_buyer"
        /\ Write(w, rows, 1, At(j, "pay_seller"), At(j, "rollback"))
    BY <1>8 DEF PayBuyer, Running, Pay
  <2>2. Stage(At(j, "pay_seller"), rows, durable)
    BY <1>j, <2>1, PaySellerStage
  <2> QED
    BY <1>j, <1>r, <2>1, <2>2, InsideWrite DEF InsideTx, Removing
<1>9. CASE PaySeller(w)
  <2> DEFINE rows == [tables EXCEPT !.balance[j.seller] =
                                      j.seller_balance + Payout(j.price)]
  <2>1. /\ j.pc = "pay_seller"
        /\ Write(w, rows, 1, At(j, "own"), At(j, "rollback"))
    BY <1>9 DEF PaySeller, Running, Pay
  <2>2. Stage(At(j, "own"), rows, durable)
    BY <1>j, <2>1, OwnStage
  <2> QED
    BY <1>j, <1>r, <2>1, <2>2, InsideWrite DEF InsideTx, Removing
<1>10. CASE BuyUpdateOwner(w)
  <2> DEFINE rows == [tables EXCEPT !.owner[j.item] = j.user]
  <2>1. /\ j.pc = "own"
        /\ Write(w, rows, 1, At(j, "take"), At(j, "rollback"))
    BY <1>10 DEF BuyUpdateOwner, Running
  <2>2. Stage(At(j, "take"), rows, durable)
    BY <1>j, <2>1, TakeStage
  <2> QED
    BY <1>j, <1>r, <2>1, <2>2, InsideWrite DEF InsideTx, Removing
<1>11. CASE BuyRemoveFromInventory(w)
  <2> DEFINE rows == [tables EXCEPT !.inventory = @ \ {<<j.seller, j.item>>}]
  <2>1. /\ j.pc = "take"
        /\ \E n : Write(w, rows, n, At(j, "give"), At(j, "give"))
    BY <1>11 DEF BuyRemoveFromInventory, Running, Take
  <2>2. /\ Stage(At(j, "give"), rows, durable)
        /\ Faults => Stage(At(j, "give"), tables, durable)
    BY <1>j, <2>1, GiveStage
  <2> QED
    BY <1>j, <2>1, <2>2, InsideWrite DEF InsideTx, Removing
<1>12. CASE BuyAddToInventory(w)
  <2> DEFINE rows == [tables EXCEPT !.inventory = @ \cup {<<j.user, j.item>>}]
  <2>1. /\ j.pc = "give"
        /\ Give(w, j.user, j.item, At(j, "lock"), At(j, "rollback"))
    BY <1>12 DEF BuyAddToInventory, Running
  <2>2. CASE /\ <<j.user, j.item>> \in tables.inventory
             /\ Write(w, tables, 0, At(j, "lock"), At(j, "rollback"))
    <3>1. Stage(At(j, "lock"), tables, durable)
      BY <1>j, <2>1, <2>2, LockStage
    <3> QED
      BY <1>j, <1>r, <2>1, <2>2, <3>1, InsideWrite DEF InsideTx, Removing
  <2>3. CASE WriteNew(w, rows, At(j, "lock"), At(j, "rollback"))
    <3>1. Stage(At(j, "lock"), rows, durable)
      BY <1>j, <2>1, BuyRows, LockStage
    <3> QED
      BY <1>j, <1>r, <2>1, <2>3, <3>1, InsideWrite DEF InsideTx, Removing
  <2> QED
    BY <2>1, <2>2, <2>3 DEF Give
<1>13. CASE BuyApplyTradeLock(w) \/ SavePriceHistory(w)
  <2>1. j.pc \in {"lock", "history"} /\ Done(j, tables, durable)
    BY <1>13, <1>j
       DEF BuyApplyTradeLock, SavePriceHistory, Running, Stage
  <2>2. \E label \in {"history", "commit"} :
          \/ Write(w, tables, 1, At(j, label), At(j, label))
          \/ WriteNew(w, tables, At(j, label), At(j, label))
    BY <1>13 DEF BuyApplyTradeLock, SavePriceHistory
  <2>3. \A label \in {"history", "commit"} :
          Stage(At(j, label), tables, durable)
    BY <1>j, <2>1, DoneStage
  <2> QED
    BY <1>j, <2>1, <2>2, <2>3, InsideWrite DEF InsideTx, Removing
<1>14. CASE BuyLogTransactions(w)
  <2>1. j.pc \in OutsideTx
    BY <1>14 DEF BuyLogTransactions, Running, OutsideTx
  <2>2. Become(w, At(j, "call")) /\ (UNCHANGED connection \/ Store(tables))
    BY <1>14 DEF BuyLogTransactions, WriteNew, Insert
  <2>3. At(j, "call").pc \in Unbound /\ At(j, "call").pc \notin Removing
    BY <1>j DEF Unbound, OutsideTx, Removing
  <2> QED
    BY <2>1, <2>2, <2>3, UnboundStage, OutsideStep
<1> QED
  BY <1>1, <1>2, <1>3, <1>4, <1>5, <1>6, <1>7, <1>8, <1>9, <1>10, <1>11,
     <1>12, <1>13, <1>14 DEF Buy

LEMMA FollowUpSale ==
  ASSUME SalePre, NEW w \in Workers, FollowUp(w)
  PROVE  SaleStep(w)
<1> DEFINE j == job[w]
<1>j. /\ j \in Job
      /\ Stage(j, tables, durable)
      /\ tables \in Tables /\ durable \in Tables
      /\ ~inTx => tables = durable
      /\ \A label : At(j, label).pc = label
  BY SaleJob, AtPc
<1>n. NextCall(j).pc \in Unbound /\ NextCall(j).pc \notin Removing
  <2>1. NextCall(j).pc \in {"idle", "call"}
    BY <1>j, NextCallPc
  <2> QED
    BY <2>1 DEF Unbound, OutsideTx, Removing
<1>s. Stage(NextCall(j), tables, durable)
  BY <1>n, UnboundStage
<1>r. Stage(At(j, "call_rollback"), tables, durable)
  BY <1>j, AtRollback
<1>1. CASE CallBegin(w)
  <2>1. j.pc \in OutsideTx
    BY <1>1 DEF CallBegin, BeginAt, Running, OutsideTx
  <2>2. CASE Begin /\ Become(w, At(j, "call_load"))
    <3>1. NothingSold(tables, durable)
      BY <1>j, <2>2 DEF Begin, NothingSold
    <3>2. Stage(At(j, "call_load"), tables, durable)
      BY <1>j, <3>1, SellingStage DEF Calling
    <3> QED
      BY <1>j, <2>1, <2>2, <3>2, OutsideStep DEF Removing
  <2>3. CASE BeginRefused /\ Become(w, NextCall(j))
    BY <1>n, <1>s, <2>1, <2>3, OutsideStep
  <2> QED
    BY <1>1, <2>2, <2>3 DEF CallBegin, BeginAt
<1>2. CASE CallLoad(w)
  <2> DEFINE has == tables.progress[Subject(j)][QuestOf(j)]
             k == [j EXCEPT !.pc = "call_write", !.progress = has + Increment(j)]
  <2>1. j.pc = "call_load" /\ UNCHANGED connection
    BY <1>2 DEF CallLoad, Running
  <2>2. Become(w, At(j, "call_rollback")) \/ Become(w, k)
    BY <1>2 DEF CallLoad
  <2>3. NothingSold(tables, durable)
    BY <1>j, <2>1 DEF Stage, Calling
  <2>4. k.pc = "call_write"
    BY <1>j DEF Job
  <2> HIDE DEF k
  <2>5. Stage(k, tables, durable)
    BY <2>3, <2>4 DEF Stage, Selling, Calling
  <2> QED
    BY <1>j, <1>r, <2>1, <2>2, <2>4, <2>5, InsideLocal DEF InsideTx, Removing
<1>3. CASE CallWrite(w)
  <2> DEFINE rows == [tables EXCEPT !.progress[Subject(j)][QuestOf(j)] = j.progress]
  <2>1. /\ j.pc = "call_write"
        /\ Write(w, rows, 1, At(j, "call_commit"), At(j, "call_rollback"))
    BY <1>3 DEF CallWrite, Running
  <2>2. rows \in Tables
    <3>1. /\ Subject(j) \in Users /\ QuestOf(j) \in Quests
          /\ j.progress \in Nat
      BY <1>j, CallOfJob DEF Job
    <3>2. PICK i \in Items : TRUE
      BY MarketAssumption
    <3> QED
      BY <3>1, <3>2, RowsType DEF SalePre, WellTyped
  <2>3. NothingSold(rows, durable)
    BY <1>j, <2>1, SellingStage DEF Stage, Calling
  <2>4. Stage(At(j, "call_commit"), rows, durable)
    BY <1>j, <2>2, <2>3, SellingStage DEF Calling
  <2> QED
    BY <1>j, <1>r, <2>1, <2>4, InsideWrite DEF InsideTx, Removing
<1>4. CASE CallCommit(w)
  <2>1. j.pc = "call_commit"
    BY <1>4 DEF CallCommit, Running
  <2>2. CASE Commit /\ Become(w, NextCall(j))
    <3>1. NothingSold(tables, durable)
      BY <1>j, <2>1 DEF Stage, Calling
    <3> QED
      BY <1>n, <2>1, <2>2, <3>1, EndStep DEF InsideTx
  <2>3. CASE CommitRefused /\ Become(w, At(j, "call_rollback"))
    BY <1>j, <1>r, <2>1, <2>3, InsideLocal DEF CommitRefused, InsideTx, Removing
  <2> QED
    BY <1>4, <2>2, <2>3 DEF CallCommit
<1>5. CASE CallRollback(w)
  BY <1>n, <1>5, EndStep DEF CallRollback, Running, InsideTx
<1>6. CASE UpdateChallenges(w)
  <2>1. j.pc \in OutsideTx
    BY <1>6 DEF UpdateChallenges, Running, OutsideTx
  <2>2. Become(w, NextCall(j)) /\ (UNCHANGED connection \/ Store(tables))
    BY <1>6 DEF UpdateChallenges, Update
  <2> QED
    BY <1>n, <1>s, <2>1, <2>2, OutsideStep
<1> QED
  BY <1>1, <1>2, <1>3, <1>4, <1>5, <1>6 DEF FollowUp

LEMMA EndSale ==
  ASSUME SalePre, NEW w \in Workers,
         CommitTransaction(w) \/ RollbackTransaction(w)
  PROVE  SaleStep(w)
<1> DEFINE j == job[w]
<1>j. /\ j \in Job
      /\ Stage(j, tables, durable)
      /\ \A label : At(j, label).pc = label
  BY SaleJob, AtPc
<1>i. Idle.pc \in Unbound
  BY DEF Idle, Unbound, OutsideTx, Removing
<1>1. CASE RollbackTransaction(w)
  BY <1>1, <1>i, EndStep DEF RollbackTransaction, Running, InsideTx
<1>2. CASE CommitTransaction(w)
  <2>1. j.pc = "commit"
    BY <1>2 DEF CommitTransaction, Running
  <2>2. ASSUME Commit, Become(w, IF j.kind = "list" THEN Idle ELSE At(j, "log"))
        PROVE  SaleStep(w)
    <3>1. NothingSold(tables, durable) \/ Done(j, tables, durable)
      BY <1>j, <2>1 DEF Stage
    <3>2. At(j, "log").pc \in Unbound
      BY <1>j DEF Unbound, OutsideTx, Removing
    <3>3. Become(w, Idle) \/ Become(w, At(j, "log"))
      BY <2>2
    <3> QED
      BY <1>i, <2>1, <2>2, <3>1, <3>2, <3>3, EndStep DEF InsideTx
  <2>3. ASSUME CommitRefused, Become(w, At(j, "rollback"))
        PROVE  SaleStep(w)
    <3>1. Stage(At(j, "rollback"), tables, durable)
      BY <1>j, AtRollback
    <3> QED
      BY <1>j, <2>1, <2>3, <3>1, InsideLocal DEF CommitRefused, InsideTx, Removing
  <2> QED
    BY <1>2, <2>2, <2>3 DEF CommitTransaction
<1> QED
  BY <1>1, <1>2

LEMMA NoRemoval ==
  ASSUME "remove" \notin Kinds, SalePre, NEW w \in Workers, Remove(w)
  PROVE  FALSE
BY SaleJob
   DEF Remove, RemoveListing, Request, RemoveLoadSeller, RemoveRefund,
       RemoveReturnItem, RemoveDelete, Running, Removing

LEMMA HandlerSale ==
  ASSUME "remove" \notin Kinds, SalePre, NEW w \in Workers, Handler(w)
  PROVE  TxStep(w) /\ SaleStep(w)
<1>1. TxStep(w)
  BY ListTxStep, BuyTxStep, FollowUpTxStep, RemoveTxStep, EndTxStep
     DEF Handler, SalePre, WellTyped
<1>2. SaleStep(w)
  BY ListSale, BuySale, FollowUpSale, NoRemoval, EndSale DEF Handler
<1> QED
  BY <1>1, <1>2

-----------------------------------------------------------------------------
(* As long as nobody removes a listing, every sale that reaches the disk   *)
(* is whole: whatever lists and purchases of the other workers fall        *)
(* between its statements, whichever of them fail, whenever the process is *)
(* killed, a listing is sold on disk together with its item and its money. *)
THEOREM MarketSaleIsWhole ==
  ASSUME "remove" \notin Kinds
  PROVE  Spec => SaleIsWhole
<1>i. Idle.pc \in Unbound /\ Idle.pc \notin Removing
  BY DEF Idle, Unbound, OutsideTx, Removing
<1>1. Init => SaleInv
  <2> SUFFICES ASSUME Init PROVE SaleInv
    OBVIOUS
  <2>1. \A v \in Workers : job[v] = Idle
    BY DEF Init
  <2>2. tables = durable
    BY DEF Init, ConnectionInit
  <2> QED
    BY <1>i, <2>1, <2>2, UnboundStage DEF SaleInv
<1>2. TypeOK /\ TransactionsExclusive /\ SaleInv => SalePre
  BY DEF TypeOK, SalePre, WellTyped, ConnectionType, JobsType
<1>3. SalePre /\ [Next]_vars => SaleInv'
  <2> SUFFICES ASSUME SalePre, [Next]_vars PROVE SaleInv'
    OBVIOUS
  <2>1. ASSUME NEW w \in Workers, Handler(w)
        PROVE  SaleInv'
    BY <2>1, HandlerSale, SaleKept
  <2>2. CASE Crash
    <3>1. /\ \A v \in Workers : job'[v] = Idle
          /\ tables' = durable'
      BY <2>2 DEF Crash, Reopen
    <3> QED
      BY <1>i, <3>1, UnboundStage DEF SaleInv
  <2>3. CASE UNCHANGED vars
    BY <2>3 DEF vars, connection, SalePre, SaleInv
  <2> QED
    BY <2>1, <2>2, <2>3 DEF Next, Handler
<1>4. SalePre /\ [Next]_vars =>
        [\A l \in ListingIds : Sold(l) => Whole(l)]_vars
  <2> SUFFICES ASSUME SalePre, Next, NEW l \in ListingIds, Sold(l)
               PROVE  Whole(l)
    OBVIOUS
  <2>1. ASSUME NEW w \in Workers, Handler(w)
        PROVE  Whole(l)
    BY <2>1, HandlerSale, SaleStepIsWhole
  <2>2. CASE Crash
    BY <2>2 DEF Crash, Reopen, Sold
  <2> QED
    BY <2>1, <2>2 DEF Next, Handler
<1> QED
  BY <1>1, <1>2, <1>3, <1>4, TypeCorrect, MarketTransactions, PTL
     DEF Spec, SaleIsWhole
-----------------------------------------------------------------------------
(* What the tables are worth, and what the writes do to it.                *)

LEMMA FiniteRows == IsFiniteSet(Users) /\ IsFiniteSet(ListingIds)
BY MarketAssumption, FS_Interval DEF ListingIds

LEMMA RowsOf ==
  ASSUME NEW t \in Tables
  PROVE  /\ \A u \in Users : t.balance[u] \in Int
         /\ \A l \in ListingIds :
              /\ t.listings[l] \in Listing
              /\ t.listings[l].price \in Nat
              /\ t.listings[l].state \in ListingStates
              /\ Fee(t.listings[l].price) \in Int
<1>1. \A l \in ListingIds : t.listings[l] \in Listing
  BY DEF Tables
<1>2. \A l \in ListingIds : t.listings[l].price \in Nat
                              /\ t.listings[l].state \in ListingStates
  BY <1>1 DEF Listing
<1> QED
  BY <1>1, <1>2, FeeIsPart DEF Tables

LEMMA InStateFinite ==
  ASSUME NEW t, NEW st
  PROVE  /\ InState(t, st) \subseteq ListingIds
         /\ IsFiniteSet(InState(t, st))
         /\ Cardinality(InState(t, st)) \in Nat
<1>1. InState(t, st) \subseteq ListingIds
  BY DEF InState
<1> QED
  BY <1>1, FiniteRows, FS_Subset, FS_CardinalityType

FeesOf(t) == [l \in ListingIds |-> Fee(t.listings[l].price)]

LEMMA WorthInt == ASSUME NEW t \in Tables PROVE Worth(t) \in Int
<1>1. Total(t.balance, Users) \in Int
  BY RowsOf, FiniteRows, TotalInt
<1>2. Total(FeesOf(t), InState(t, "sold")) \in Int
  BY RowsOf, InStateFinite, TotalInt DEF FeesOf
<1> QED
  BY <1>1, <1>2, InStateFinite DEF Worth, FeesOf, LISTING_FEE

(* Inventories, owners and progress are worth nothing. *)
LEMMA WorthSame ==
  ASSUME NEW t, NEW r, r.balance = t.balance, r.listings = t.listings
  PROVE  Worth(r) = Worth(t)
BY DEF Worth, InState

LEMMA WorthPaid ==
  ASSUME NEW t \in Tables, NEW u \in Users, NEW n \in Int
  PROVE  Worth([t EXCEPT !.balance[u] = n]) = Worth(t) + n - t.balance[u]
<1> DEFINE r == [t EXCEPT !.balance[u] = n]
<1>1. /\ r.listings = t.listings
      /\ r.balance[u] = n
      /\ \A v \in Users : v # u => r.balance[v] = t.balance[v]
      /\ \A v \in Users : r.balance[v] \in Int /\ t.balance[v] \in Int
  BY DEF Tables
<1> HIDE DEF r
<1>2. Total(r.balance, Users) = Total(t.balance, Users) + n - t.balance[u]
  BY <1>1, FiniteRows, TotalChange
<1>3. InState(r, "active") = InState(t, "active")
        /\ InState(r, "sold") = InState(t, "sold") /\ FeesOf(r) = FeesOf(t)
  BY <1>1 DEF InState, FeesOf
<1>4. Total(t.balance, Users) \in Int
  BY RowsOf, FiniteRows, TotalInt
<1>5. Total(FeesOf(t), InState(t, "sold")) \in Int
  BY RowsOf, InStateFinite, TotalInt DEF FeesOf
<1>6. t.balance[u] \in Int
  BY <1>1
<1>7. Worth(r) = Worth(t) + n - t.balance[u]
  BY <1>2, <1>3, <1>4, <1>5, <1>6, InStateFinite DEF Worth, FeesOf, LISTING_FEE
<1> QED
  BY <1>7 DEF r

LEMMA WorthMoved ==
  ASSUME NEW t \in Tables, NEW u \in Users, NEW n \in Int, NEW k \in Int,
         n = t.balance[u] + k
  PROVE  Worth([t EXCEPT !.balance[u] = n]) = Worth(t) + k
<1>1. Worth([t EXCEPT !.balance[u] = n]) = Worth(t) + n - t.balance[u]
  BY WorthPaid
<1>2. Worth(t) \in Int /\ t.balance[u] \in Int
  BY WorthInt, RowsOf
<1> QED
  BY <1>1, <1>2

(* A listing that becomes active is worth its fee, one that is sold the    *)
(* fee of the market, and a removed one nothing.                           *)
LEMMA WorthListed ==
  ASSUME NEW t \in Tables, NEW l \in ListingIds, NEW row \in Listing,
         t.listings[l].state = "none", row.state = "active"
  PROVE  Worth([t EXCEPT !.listings[l] = row]) = Worth(t) + 1
<1> DEFINE r == [t EXCEPT !.listings[l] = row]
<1>1. /\ r.balance = t.balance
      /\ r.listings[l] = row
      /\ \A k \in ListingIds : k # l => r.listings[k] = t.listings[k]
  BY DEF Tables
<1>t. r \in Tables
  BY DEF Tables
<1> HIDE DEF r
<1>2. /\ InState(r, "active") = InState(t, "active") \cup {l}
      /\ l \notin InState(t, "active")
      /\ InState(r, "sold") = InState(t, "sold")
  BY <1>1 DEF InState
<1>3. Cardinality(InState(r, "active")) = Cardinality(InState(t, "active")) + 1
  BY <1>2, InStateFinite, FS_AddElement
<1>4. \A k \in InState(t, "sold") : FeesOf(r)[k] = FeesOf(t)[k]
  BY <1>1 DEF InState, FeesOf
<1>5. Total(FeesOf(r), InState(r, "sold")) = Total(FeesOf(t), InState(t, "sold"))
  BY <1>2, <1>4, InStateFinite, TotalSame
<1>6. Total(t.balance, Users) \in Int /\ Total(FeesOf(t), InState(t, "sold")) \in Int
  BY RowsOf, FiniteRows, InStateFinite, TotalInt DEF FeesOf
<1>7. Worth(r) = Worth(t) + 1
  BY <1>1, <1>3, <1>5, <1>6, InStateFinite DEF Worth, FeesOf, LISTING_FEE
<1> QED
  BY <1>7 DEF r

LEMMA WorthClosed ==
  ASSUME NEW t \in Tables, NEW l \in ListingIds, NEW st \in {"sold", "removed"},
         t.listings[l].state = "active"
  PROVE  Worth([t EXCEPT !.listings[l].state = st]) =
           Worth(t) - 1 + (IF st = "sold" THEN Fee(t.listings[l].price) ELSE 0)
<1> DEFINE r == [t EXCEPT !.listings[l].state = st]
<1>1. /\ r.balance = t.balance
      /\ r.listings[l].state = st
      /\ r.listings[l].price = t.listings[l].price
      /\ \A k \in ListingIds : k # l => r.listings[k] = t.listings[k]
  BY DEF Tables, Listing
<1> HIDE DEF r
<1>2. /\ InState(r, "active") = InState(t, "active") \ {l}
      /\ l \in InState(t, "active")
      /\ l \notin InState(t, "sold")
      /\ st = "sold" => InState(r, "sold") = InState(t, "sold") \cup {l}
      /\ st # "sold" => InState(r, "sold") = InState(t, "sold")
  BY <1>1 DEF InState
<1>3. Cardinality(InState(r, "active")) = Cardinality(InState(t, "active")) - 1
  BY <1>2, InStateFinite, FS_RemoveElement
<1>4. FeesOf(r) = FeesOf(t) /\ FeesOf(t)[l] = Fee(t.listings[l].price)
  BY <1>1 DEF FeesOf
<1>5. \A k \in ListingIds : FeesOf(t)[k] \in Int
  BY RowsOf DEF FeesOf
<1>6. Total(t.balance, Users) \in Int /\ Total(FeesOf(t), InState(t, "sold")) \in Int
  BY <1>5, RowsOf, FiniteRows, InStateFinite, TotalInt
<1>f. FeesOf(t)[l] \in Int
  BY <1>5
<1>w. Worth(r) = Total(t.balance, Users) + Cardinality(InState(t, "active")) - 1
                   + Total(FeesOf(t), InState(r, "sold"))
  BY <1>1, <1>3, <1>4, InStateFinite DEF Worth, FeesOf, LISTING_FEE
<1>o. Worth(t) = Total(t.balance, Users) + Cardinality(InState(t, "active"))
                   + Total(FeesOf(t), InState(t, "sold"))
  BY InStateFinite DEF Worth, FeesOf, LISTING_FEE
<1>7. CASE st = "sold"
  <2>1. \A k \in InState(t, "sold") \cup {l} : FeesOf(t)[k] \in Int
    BY <1>5, InStateFinite
  <2>2. Total(FeesOf(t), InState(t, "sold") \cup {l}) =
          FeesOf(t)[l] + Total(FeesOf(t), InState(t, "sold"))
    BY <1>2, <2>1, InStateFinite, TotalAdd
  <2>3. Total(FeesOf(t), InState(r, "sold")) =
          FeesOf(t)[l] + Total(FeesOf(t), InState(t, "sold"))
    BY <1>2, <1>7, <2>2
  <2>4. Worth(r) = Worth(t) - 1 + FeesOf(t)[l]
    BY <1>6, <1>f, <1>o, <1>w, <2>3, InStateFinite
  <2> QED
    BY <1>4, <1>7, <2>4 DEF r
<1>8. CASE st # "sold"
  <2>1. Total(FeesOf(t), InState(r, "sold")) = Total(FeesOf(t), InState(t, "sold"))
    BY <1>2, <1>8
  <2>2. Worth(r) = Worth(t) - 1
    BY <1>6, <1>o, <1>w, <2>1, InStateFinite
  <2>3. Worth(t) \in Int
    BY WorthInt
  <2> QED
    BY <1>8, <2>2, <2>3 DEF r
<1> QED
  BY <1>7, <1>8

-----------------------------------------------------------------------------
(* Requests that do not overlap: while a worker is in the middle of one,   *)
(* the others are idle.                                                    *)

Serial ==
  \A v, w \in Workers : job[v].pc # "idle" /\ job[w].pc # "idle" => v = w

(* A pool of one worker is serial. *)
LEMMA OneWorkerIsSerial ==
  ASSUME \A v, w \in Workers : v = w
  PROVE  []Serial
<1>1. Serial
  BY DEF Serial
<1> QED
  BY <1>1, PTL

Alone(w) == \A v \in Workers \ {w} : job[v].pc = "idle"

(* It is the turn of worker w to take a step. *)
Turn(w) ==
  /\ WellTyped /\ TransactionsExclusive
  /\ w \in Workers /\ Alone(w)
  /\ job[w].pc \in OutsideTx => tables = durable

LEMMA TurnFacts ==
  ASSUME NEW w, Turn(w)
  PROVE  /\ w \in Workers /\ job[w] \in Job
         /\ tables \in Tables /\ durable \in Tables
         /\ job[w].pc \in InsideTx => inTx
         /\ job[w].pc \in OutsideTx => ~inTx /\ tables = durable
<1>1. /\ WellTyped /\ TransactionsExclusive /\ w \in Workers /\ Alone(w)
      /\ job[w].pc \in OutsideTx => tables = durable
  BY DEF Turn
<1>2. job[w] \in Job /\ tables \in Tables /\ durable \in Tables /\ inTx \in BOOLEAN
  BY <1>1 DEF WellTyped, ConnectionType, JobsType
<1>3. job[w].pc \in InsideTx => inTx
  BY <1>1 DEF TransactionsExclusive
<1>4. job[w].pc \in OutsideTx => ~inTx
  <2>1. \A v \in Workers \ {w} : job[v].pc \notin InsideTx
    BY <1>1 DEF Alone, InsideTx
  <2>2. job[w].pc \in OutsideTx => job[w].pc \notin InsideTx
    BY LabelsApart
  <2>3. job[w].pc \in OutsideTx => ~ \E v \in Workers : job[v].pc \in InsideTx
    BY <2>1, <2>2
  <2> QED
    BY <1>1, <2>3 DEF TransactionsExclusive
<1> QED
  BY <1>1, <1>2, <1>3, <1>4

(* Where a step takes the worker and the rows. *)
Lands(w, k, t, d) == job'[w] = k /\ tables' = t /\ durable' = d

LEMMA WriteLands ==
  ASSUME NEW w, Turn(w), NEW rows, NEW n, NEW next, NEW failed,
         Write(w, rows, n, next, failed) \/ WriteNew(w, rows, next, failed)
  PROVE  \/ Lands(w, next, rows, IF inTx THEN durable ELSE rows)
         \/ Faults /\ Lands(w, failed, tables, durable)
<1>0. JobsType /\ w \in Workers
  BY DEF Turn, WellTyped
<1>1. CASE Store(rows) /\ Become(w, next)
  BY <1>0, <1>1, BecomeMoves DEF Store, Moved, Lands
<1>2. CASE Faults /\ UNCHANGED connection /\ Become(w, failed)
  BY <1>0, <1>2, BecomeMoves DEF connection, Moved, Lands
<1>3. Faults \/ (Store(rows) /\ Become(w, next))
  BY DEF Write, WriteNew, Update, Insert, Outcomes
<1>4. \/ Store(rows) /\ Become(w, next)
      \/ UNCHANGED connection /\ Become(w, failed)
  BY DEF Write, WriteNew, Update, Insert
<1> QED
  BY <1>1, <1>2, <1>3, <1>4

(* Gives and takes change the inventory only. *)
LEMMA ItemLands ==
  ASSUME NEW w, Turn(w), NEW u, NEW i, NEW next, NEW failed,
         Give(w, u, i, next, failed) \/ Take(w, u, i, next, failed)
  PROVE  \E r : /\ r.balance = tables.balance /\ r.listings = tables.listings
                /\ r.owner = tables.owner /\ r.progress = tables.progress
                /\ \/ Lands(w, next, r, IF inTx THEN durable ELSE r)
                   \/ Faults /\ Lands(w, failed, tables, durable)
<1>1. PICK a : \E n : \/ Write(w, [tables EXCEPT !.inventory = a], n, next, failed)
                      \/ WriteNew(w, [tables EXCEPT !.inventory = a], next, failed)
  <2>1. tables = [tables EXCEPT !.inventory = tables.inventory]
    BY TurnFacts DEF Tables
  <2>2. CASE Give(w, u, i, next, failed)
    <3>1. CASE <<u, i>> \in tables.inventory
      <4>1. Write(w, [tables EXCEPT !.inventory = tables.inventory], 0, next, failed)
        BY <2>1, <2>2, <3>1 DEF Give
      <4> QED
        BY <4>1
    <3>2. CASE <<u, i>> \notin tables.inventory
      <4>1. WriteNew(w, [tables EXCEPT !.inventory = tables.inventory \cup {<<u, i>>}],
                     next, failed)
        BY <2>2, <3>2 DEF Give
      <4> QED
        BY <4>1
    <3> QED
      BY <3>1, <3>2
  <2>3. CASE Take(w, u, i, next, failed)
    <3>1. Write(w, [tables EXCEPT !.inventory = tables.inventory \ {<<u, i>>}],
                IF <<u, i>> \in tables.inventory THEN 1 ELSE 0, next, failed)
      BY <2>3 DEF Take
    <3> QED
      BY <3>1
  <2> QED
    BY <2>2, <2>3
<1> DEFINE r == [tables EXCEPT !.inventory = a]
<1>2. /\ r.balance = tables.balance /\ r.listings = tables.listings
      /\ r.owner = tables.owner /\ r.progress = tables.progress
  BY TurnFacts DEF Tables
<1>3. \/ Lands(w, next, r, IF inTx THEN durable ELSE r)
      \/ Faults /\ Lands(w, failed, tables, durable)
  BY <1>1, WriteLands
<1> QED
  BY <1>2, <1>3

LEMMA LocalLands ==
  ASSUME NEW w, Turn(w), NEW k, Become(w, k), UNCHANGED connection
  PROVE  Lands(w, k, tables, durable)
<1>0. JobsType /\ w \in Workers
  BY DEF Turn, WellTyped
<1> QED
  BY <1>0, BecomeMoves DEF connection, Moved, Lands

LEMMA BeginLands ==
  ASSUME NEW w, Turn(w), NEW label \in OutsideTx, NEW next, NEW refused,
         BeginAt(w, label, next, refused)
  PROVE  \/ Lands(w, next, tables, durable)
         \/ Faults /\ Lands(w, refused, tables, durable)
<1>0. JobsType /\ w \in Workers /\ ~inTx
  BY TurnFacts DEF Turn, WellTyped, BeginAt, Running
<1>1. CASE Begin /\ Become(w, next)
  BY <1>0, <1>1, BecomeMoves DEF Begin, Moved, Lands
<1>2. CASE BeginRefused /\ Become(w, refused)
  BY <1>0, <1>2, BecomeMoves DEF BeginRefused, connection, Moved, Lands
<1> QED
  BY <1>1, <1>2 DEF BeginAt

LEMMA CommitLands ==
  ASSUME NEW w, Turn(w), job[w].pc \in InsideTx, NEW k, NEW refused,
         \/ Commit /\ Become(w, k)
         \/ CommitRefused /\ Become(w, refused)
  PROVE  \/ Lands(w, k, tables, tables)
         \/ Faults /\ Lands(w, refused, tables, durable)
<1>0. JobsType /\ w \in Workers /\ inTx
  BY TurnFacts DEF Turn, WellTyped
<1>1. CASE Commit /\ Become(w, k)
  BY <1>0, <1>1, BecomeMoves DEF Commit, Moved, Lands
<1>2. CASE CommitRefused /\ Become(w, refused)
  BY <1>0, <1>2, BecomeMoves DEF CommitRefused, connection, Moved, Lands
<1> QED
  BY <1>1, <1>2

LEMMA RollbackLands ==
  ASSUME NEW w, Turn(w), job[w].pc \in InsideTx, NEW k, Rollback, Become(w, k)
  PROVE  Lands(w, k, durable, durable)
<1>0. JobsType /\ w \in Workers /\ inTx
  BY TurnFacts DEF Turn, WellTyped
<1> QED
  BY <1>0, BecomeMoves DEF Rollback, Moved, Lands

-----------------------------------------------------------------------------
(* The books of the market: what the tables t and the disk d are worth     *)
(* while the handler with the locals j is under way.                       *)

Capital == Worth(OpeningRows)

LEMMA CapitalInt == Capital \in Int
<1>1. OpeningRows \in Tables
  BY OpeningType
<1> QED
  BY <1>1, WorthInt DEF Capital

(* Inside a transaction: where the money is all there. *)
Balanced == {"list_fee", "find", "mark", "own", "take", "give", "lock",
             "history", "commit", "call_load", "call_write", "call_commit"}

Books(j, t, d) ==
  /\ j.pc \in OutsideTx => t = d
  /\ j.pc \in {"return", "delete"} => Worth(d) = Capital + 1
  /\ j.pc \notin {"return", "delete"} => Worth(d) = Capital
  /\ j.pc \in Balanced => Worth(t) = Capital
  /\ j.pc \in {"list_take", "list_save"} => Worth(t) = Capital - 1
  /\ j.pc \in {"marked", "buyer", "seller", "pay_buyer"} =>
       Worth(t) = Capital + Fee(j.price) - 1
  /\ j.pc = "pay_seller" => Worth(t) = Capital + Fee(j.price) - 1 - j.price
  /\ j.pc \in {"list_begin", "list_fee", "seller", "pay_buyer", "refund"} =>
       j.balance = t.balance[j.user]
  /\ j.pc = "mark" =>
       /\ t.listings[j.listing].state = "active"
       /\ t.listings[j.listing].price = j.price
  /\ j.pc \in {"buyer", "seller", "pay_buyer", "pay_seller"} => j.seller # j.user
  /\ j.pc \in {"pay_buyer", "pay_seller"} => j.seller_balance = t.balance[j.seller]
  /\ j.pc \in Removing =>
       "remove" \in Kinds /\ t.listings[j.listing].state = "active"

Open(w) == Turn(w) /\ Books(job[w], tables, durable)
BooksAfter(w) == Books(job'[w], tables', durable')

(* Labels at which only the rows on disk matter. *)
Settled == (OutsideTx \ (Removing \cup {"list_begin"}))

LEMMA SettledBooks ==
  ASSUME NEW j, j.pc \in Settled, NEW d, Worth(d) = Capital
  PROVE  Books(j, d, d)
BY DEF Settled, Books, OutsideTx, Removing, Balanced

(* What an error path gives up. *)
LEMMA AbortBooks ==
  ASSUME NEW j \in Job, NEW label \in {"rollback", "call_rollback"},
         NEW t, NEW d, Worth(d) = Capital
  PROVE  Books(At(j, label), t, d)
BY AtPc DEF Books, OutsideTx, Removing, Balanced

LEMMA BalancedBooks ==
  ASSUME NEW j, j.pc \in Balanced \ {"list_fee", "mark"},
         NEW t, NEW d, Worth(t) = Capital, Worth(d) = Capital
  PROVE  Books(j, t, d)
BY DEF Books, OutsideTx, Removing, Balanced

LEMMA ListBooks ==
  ASSUME NEW w, Open(w), List(w)
  PROVE  BooksAfter(w)
<1> DEFINE j == job[w]
<1>t. Turn(w) /\ Books(j, tables, durable)
  BY DEF Open
<1>j. /\ w \in Workers /\ j \in Job
      /\ tables \in Tables /\ durable \in Tables
      /\ j.pc \in InsideTx => inTx
      /\ j.pc \in OutsideTx => ~inTx /\ tables = durable
  BY <1>t, TurnFacts
<1>l. j.user \in Users /\ j.balance \in Int /\ j.item \in Items /\ j.price \in Nat
  BY <1>j DEF Job
<1>i. Idle.pc \in Settled
  BY DEF Idle, Settled, OutsideTx, Removing
<1> HIDE DEF j
<1>1. CASE ListSkinOnMarket(w)
  <2>1. PICK i \in Items, p \in Prices :
          Become(w, [Idle EXCEPT !.pc = "list_funds", !.user = tables.owner[i],
                                 !.item = i, !.price = p])
    BY <1>1 DEF ListSkinOnMarket
  <2> DEFINE k == [Idle EXCEPT !.pc = "list_funds", !.user = tables.owner[i],
                               !.item = i, !.price = p]
  <2>2. k.pc \in Settled
    BY DEF Idle, Settled, OutsideTx, Removing
  <2>3. Lands(w, k, tables, durable)
    BY <1>1, <1>t, <2>1, LocalLands DEF ListSkinOnMarket
  <2>4. j.pc = "idle"
    BY <1>1 DEF ListSkinOnMarket, Request, j
  <2>5. Worth(durable) = Capital /\ tables = durable
    BY <1>t, <1>j, <2>4 DEF Books, OutsideTx
  <2> HIDE DEF k
  <2> QED
    BY <2>2, <2>3, <2>5, SettledBooks DEF Lands, BooksAfter
<1>2. CASE ListLoadUser(w)
  <2> DEFINE k == [j EXCEPT !.pc = "list_begin",
                            !.balance = tables.balance[j.user]]
  <2>1. j.pc = "list_funds"
    BY <1>2 DEF ListLoadUser, Running, j
  <2>2. Worth(durable) = Capital /\ tables = durable
    BY <1>t, <1>j, <2>1 DEF Books, OutsideTx
  <2>3. k.pc = "list_begin" /\ k.balance = tables.balance[k.user]
    BY <1>j DEF Job
  <2>4. Become(w, Idle) \/ Become(w, k)
    BY <1>2 DEF ListLoadUser, j
  <2>5. Lands(w, Idle, tables, durable) \/ Lands(w, k, tables, durable)
    BY <1>2, <1>t, <2>4, LocalLands DEF ListLoadUser
  <2>6. Books(k, tables, durable)
    BY <2>2, <2>3 DEF Books, OutsideTx, Removing, Balanced
  <2> HIDE DEF k
  <2> QED
    BY <1>i, <2>2, <2>5, <2>6, SettledBooks DEF Lands, BooksAfter
<1>3. CASE ListBegin(w)
  <2>1. j.pc = "list_begin"
    BY <1>3 DEF ListBegin, BeginAt, Running, j
  <2>2. /\ Worth(durable) = Capital /\ tables = durable
        /\ j.balance = tables.balance[j.user]
    BY <1>t, <1>j, <2>1 DEF Books, OutsideTx
  <2>3. \/ Lands(w, At(j, "list_fee"), tables, durable)
        \/ Lands(w, Idle, tables, durable)
    <3>1. "list_begin" \in OutsideTx
      BY DEF OutsideTx
    <3> QED
      BY <1>3, <1>t, <3>1, BeginLands DEF ListBegin, j
  <2>4. Books(At(j, "list_fee"), tables, durable)
    BY <1>j, <2>2, AtFields DEF Books, OutsideTx, Removing, Balanced
  <2> QED
    BY <1>i, <2>2, <2>3, <2>4, SettledBooks DEF Lands, BooksAfter
<1>4. CASE ListDeductFee(w)
  <2> DEFINE r == [tables EXCEPT !.balance[j.user] = j.balance - LISTING_FEE]
  <2>1. j.pc = "list_fee" /\ inTx
    BY <1>4, <1>j DEF ListDeductFee, Running, j, InsideTx
  <2>2. /\ Worth(durable) = Capital /\ Worth(tables) = Capital
        /\ j.balance = tables.balance[j.user]
    BY <1>t, <2>1 DEF Books, Balanced
  <2>3. \/ Lands(w, At(j, "list_take"), r, durable)
        \/ Lands(w, At(j, "rollback"), tables, durable)
    BY <1>4, <1>t, <2>1, WriteLands DEF ListDeductFee, Pay, j
  <2>4. Worth(r) = Capital - 1
    <3>1. /\ j.balance - LISTING_FEE \in Int
          /\ j.balance - LISTING_FEE = tables.balance[j.user] + (-1)
      BY <1>l, <2>2 DEF LISTING_FEE
    <3>2. Worth(r) = Worth(tables) + (-1) /\ Worth(tables) \in Int
      BY <1>l, <1>j, <3>1, WorthMoved, WorthInt
    <3> QED
      BY <2>2, <3>2
  <2>5. Books(At(j, "list_take"), r, durable)
    BY <1>j, <2>2, <2>4, AtFields DEF Books, OutsideTx, Removing, Balanced
  <2> HIDE DEF r
  <2> QED
    BY <1>j, <2>2, <2>3, <2>5, AbortBooks DEF Lands, BooksAfter
<1>5. CASE ListRemoveFromInventory(w)
  <2>1. j.pc = "list_take" /\ inTx
    BY <1>5, <1>j DEF ListRemoveFromInventory, Running, j, InsideTx
  <2>2. Worth(durable) = Capital /\ Worth(tables) = Capital - 1
    BY <1>t, <2>1 DEF Books
  <2>3. PICK r : /\ r.balance = tables.balance /\ r.listings = tables.listings
                 /\ \/ Lands(w, At(j, "list_save"), r, durable)
                    \/ Lands(w, At(j, "rollback"), tables, durable)
    BY <1>5, <1>t, <2>1, ItemLands DEF ListRemoveFromInventory, j
  <2>4. Books(At(j, "list_save"), r, durable)
    BY <1>j, <2>2, <2>3, WorthSame, AtFields DEF Books, OutsideTx, Removing, Balanced
  <2> QED
    BY <1>j, <2>2, <2>3, <2>4, AbortBooks DEF Lands, BooksAfter
<1>6. CASE SaveListing(w)
  <2>1. j.pc = "list_save" /\ inTx
    BY <1>6, <1>j DEF SaveListing, Running, j, InsideTx
  <2>2. Worth(durable) = Capital /\ Worth(tables) = Capital - 1
    BY <1>t, <2>1 DEF Books
  <2>3. CASE UNCHANGED connection /\ Become(w, At(j, "rollback"))
    BY <1>j, <1>t, <2>2, <2>3, LocalLands, AbortBooks DEF Lands, BooksAfter
  <2> DEFINE row == [seller |-> j.user, item |-> j.item,
                     price |-> j.price, state |-> "active"]
             r(l) == [tables EXCEPT !.listings[l] = row]
  <2>4. ASSUME NEW l \in ListingIds, tables.listings[l].state = "none",
               Insert(r(l), l), Become(w, At(j, "commit"))
        PROVE  BooksAfter(w)
    <3>1. row \in Listing /\ row.state = "active"
      BY <1>l DEF Listing, ListingStates
    <3>2. Worth(r(l)) = Capital
      <4> HIDE DEF row
      <4>1. Worth(r(l)) = Worth(tables) + 1
        BY <1>j, <2>4, <3>1, WorthListed
      <4>2. Capital \in Int
        BY <1>j, <2>2, WorthInt
      <4> HIDE DEF r
      <4> QED
        BY <2>2, <4>1, <4>2
    <3>3. Lands(w, At(j, "commit"), r(l), durable)
      BY <1>t, <1>j, <2>1, <2>4, BecomeMoves
         DEF Turn, WellTyped, Moved, Insert, Store, Lands
    <3> HIDE DEF r
    <3>4. Books(At(j, "commit"), r(l), durable)
      BY <1>j, <2>2, <3>2, AtFields, BalancedBooks DEF Balanced
    <3> QED
      BY <3>3, <3>4 DEF Lands, BooksAfter
  <2> QED
    BY <1>6, <2>3, <2>4 DEF SaveListing, j
<1> QED
  BY <1>1, <1>2, <1>3, <1>4, <1>5, <1>6 DEF List

(* The sale, up to the COMMIT. *)
LEMMA SaleBooks ==
  ASSUME NEW w, Open(w), Buy(w)
  PROVE  BooksAfter(w)
<1> DEFINE j == job[w]
<1>t. Turn(w) /\ Books(j, tables, durable)
  BY DEF Open
<1>j. /\ w \in Workers /\ j \in Job
      /\ tables \in Tables /\ durable \in Tables
      /\ j.pc \in InsideTx => inTx
      /\ j.pc \in OutsideTx => ~inTx /\ tables = durable
  BY <1>t, TurnFacts
<1>l. /\ j.user \in Users /\ j.seller \in Users
      /\ j.item \in Items /\ j.listing \in ListingIds
      /\ j.price \in Nat /\ j.balance \in Int /\ j.seller_balance \in Int
  BY <1>j DEF Job
<1>f. Fee(j.price) \in Int
  BY <1>l, FeeIsPart
<1>i. Idle.pc \in Settled
  BY DEF Idle, Settled, OutsideTx, Removing
<1>c. Capital \in Int
  <2>1. j.pc \notin {"return", "delete"}
    BY DEF Buy, BuyFromMarket, Request, BuyBegin, BeginAt, FindListing, MarkSold,
       BuyReadChanges, LoadBuyer, LoadSeller, PayBuyer, PaySeller, BuyUpdateOwner,
       BuyRemoveFromInventory, BuyAddToInventory, BuyApplyTradeLock,
       SavePriceHistory, BuyLogTransactions, Running
  <2> QED
    BY <1>t, <1>j, <2>1, WorthInt DEF Books
<1> HIDE DEF j
<1>1. CASE BuyFromMarket(w)
  <2>1. PICK u \in Users, l \in ListingIds :
          Become(w, [Idle EXCEPT !.pc = "buy_begin", !.user = u, !.listing = l,
                                 !.kind = "buy"])
    BY <1>1 DEF BuyFromMarket
  <2> DEFINE k == [Idle EXCEPT !.pc = "buy_begin", !.user = u, !.listing = l,
                               !.kind = "buy"]
  <2>2. k.pc \in Settled
    BY DEF Idle, Settled, OutsideTx, Removing
  <2>3. Lands(w, k, tables, durable)
    BY <1>1, <1>t, <2>1, LocalLands DEF BuyFromMarket
  <2>4. j.pc = "idle"
    BY <1>1 DEF BuyFromMarket, Request, j
  <2>5. Worth(durable) = Capital /\ tables = durable
    BY <1>t, <1>j, <2>4 DEF Books, OutsideTx
  <2> HIDE DEF k
  <2> QED
    BY <2>2, <2>3, <2>5, SettledBooks DEF Lands, BooksAfter
<1>2. CASE BuyBegin(w)
  <2>1. j.pc = "buy_begin"
    BY <1>2 DEF BuyBegin, BeginAt, Running, j
  <2>2. Worth(durable) = Capital /\ tables = durable
    BY <1>t, <1>j, <2>1 DEF Books, OutsideTx
  <2>3. \/ Lands(w, At(j, "find"), tables, durable)
        \/ Lands(w, Idle, tables, durable)
    <3>1. "buy_begin" \in OutsideTx
      BY DEF OutsideTx
    <3> QED
      BY <1>2, <1>t, <3>1, BeginLands DEF BuyBegin, j
  <2>4. Books(At(j, "find"), tables, durable)
    BY <1>j, <2>2, AtPc, BalancedBooks DEF Balanced
  <2> QED
    BY <1>i, <2>2, <2>3, <2>4, SettledBooks DEF Lands, BooksAfter
<1>3. CASE FindListing(w)
  <2> DEFINE row == tables.listings[j.listing]
             k == [j EXCEPT !.pc = "mark", !.seller = row.seller,
                            !.item = row.item, !.price = row.price]
  <2>1. j.pc = "find"
    BY <1>3 DEF FindListing, Running, j
  <2>2. Worth(durable) = Capital /\ Worth(tables) = Capital
    BY <1>t, <2>1 DEF Books, Balanced
  <2>3. \/ Lands(w, At(j, "rollback"), tables, durable)
        \/ row.state = "active" /\ Lands(w, k, tables, durable)
    BY <1>3, <1>t, LocalLands DEF FindListing, j
  <2>4. k.pc = "mark" /\ k.listing = j.listing /\ k.price = row.price
    BY <1>j DEF Job
  <2> HIDE DEF k
  <2>5. row.state = "active" => Books(k, tables, durable)
    BY <2>2, <2>4 DEF Books, OutsideTx, Removing, Balanced
  <2> QED
    BY <1>j, <2>2, <2>3, <2>5, AbortBooks DEF Lands, BooksAfter
<1>4. CASE MarkSold(w)
  <2> DEFINE r == [tables EXCEPT !.listings[j.listing].state = "sold"]
  <2>1. j.pc = "mark" /\ inTx
    BY <1>4, <1>j DEF MarkSold, Running, j, InsideTx
  <2>2. /\ Worth(durable) = Capital /\ Worth(tables) = Capital
        /\ tables.listings[j.listing].state = "active"
        /\ tables.listings[j.listing].price = j.price
    BY <1>t, <2>1 DEF Books, Balanced
  <2>3. \/ Lands(w, At(j, "marked"), r, durable)
        \/ Lands(w, At(j, "rollback"), tables, durable)
    BY <1>4, <1>t, <2>1, <2>2, WriteLands DEF MarkSold, j
  <2>4. Worth(r) = Worth(tables) - 1 + Fee(j.price)
    BY <1>j, <1>l, <2>2, WorthClosed
  <2> HIDE DEF r
  <2>5. Worth(r) = Capital + Fee(j.price) - 1
    BY <1>c, <1>f, <2>2, <2>4
  <2>6. Books(At(j, "marked"), r, durable)
    BY <1>j, <2>2, <2>5, AtFields DEF Books, OutsideTx, Removing, Balanced
  <2> QED
    BY <1>j, <2>2, <2>3, <2>6, AbortBooks DEF Lands, BooksAfter
<1>5. CASE BuyReadChanges(w)
  <2>1. j.pc = "marked"
    BY <1>5 DEF BuyReadChanges, Running, j
  <2>2. Worth(durable) = Capital /\ Worth(tables) = Capital + Fee(j.price) - 1
    BY <1>t, <2>1 DEF Books
  <2>3. \/ Lands(w, At(j, "rollback"), tables, durable)
        \/ j.seller # j.user /\ Lands(w, At(j, "buyer"), tables, durable)
    BY <1>5, <1>t, LocalLands DEF BuyReadChanges, j
  <2>4. j.seller # j.user => Books(At(j, "buyer"), tables, durable)
    BY <1>j, <2>2, AtFields DEF Books, OutsideTx, Removing, Balanced
  <2> QED
    BY <1>j, <2>2, <2>3, <2>4, AbortBooks DEF Lands, BooksAfter
<1>6. CASE LoadBuyer(w)
  <2> DEFINE k == [j EXCEPT !.pc = "seller", !.balance = tables.balance[j.user]]
  <2>1. j.pc = "buyer"
    BY <1>6 DEF LoadBuyer, Running, j
  <2>2. /\ Worth(durable) = Capital /\ Worth(tables) = Capital + Fee(j.price) - 1
        /\ j.seller # j.user
    BY <1>t, <2>1 DEF Books
  <2>3. \/ Lands(w, At(j, "rollback"), tables, durable)
        \/ Lands(w, k, tables, durable)
    BY <1>6, <1>t, LocalLands DEF LoadBuyer, j
  <2>4. /\ k.pc = "seller" /\ k.user = j.user /\ k.seller = j.seller
        /\ k.price = j.price /\ k.balance = tables.balance[j.user]
    BY <1>j DEF Job
  <2> HIDE DEF k
  <2>5. Books(k, tables, durable)
    BY <2>2, <2>4 DEF Books, OutsideTx, Removing, Balanced
  <2> QED
    BY <1>j, <2>2, <2>3, <2>5, AbortBooks DEF Lands, BooksAfter
<1>7. CASE LoadSeller(w)
  <2> DEFINE k == [j EXCEPT !.pc = "pay_buyer",
                            !.seller_balance = tables.balance[j.seller]]
  <2>1. j.pc = "seller"
    BY <1>7 DEF LoadSeller, Running, j
  <2>2. /\ Worth(durable) = Capital /\ Worth(tables) = Capital + Fee(j.price) - 1
        /\ j.seller # j.user /\ j.balance = tables.balance[j.user]
    BY <1>t, <2>1 DEF Books
  <2>3. Lands(w, k, tables, durable)
    BY <1>7, <1>t, LocalLands DEF LoadSeller, j
  <2>4. /\ k.pc = "pay_buyer" /\ k.user = j.user /\ k.seller = j.seller
        /\ k.price = j.price /\ k.balance = j.balance
        /\ k.seller_balance = tables.balance[j.seller]
    BY <1>j DEF Job
  <2> HIDE DEF k
  <2>5. Books(k, tables, durable)
    BY <2>2, <2>4 DEF Books, OutsideTx, Removing, Balanced
  <2> QED
    BY <2>3, <2>5 DEF Lands, BooksAfter
<1>8. CASE PayBuyer(w)
  <2> DEFINE r == [tables EXCEPT !.balance[j.user] = j.balance - j.price]
  <2>1. j.pc = "pay_buyer" /\ inTx
    BY <1>8, <1>j DEF PayBuyer, Running, j, InsideTx
  <2>2. /\ Worth(durable) = Capital /\ Worth(tables) = Capital + Fee(j.price) - 1
        /\ j.seller # j.user /\ j.balance = tables.balance[j.user]
        /\ j.seller_balance = tables.balance[j.seller]
    BY <1>t, <2>1 DEF Books
  <2>3. \/ Lands(w, At(j, "pay_seller"), r, durable)
        \/ Lands(w, At(j, "rollback"), tables, durable)
    BY <1>8, <1>t, <2>1, WriteLands DEF PayBuyer, Pay, j
  <2>4. Worth(r) = Worth(tables) + (- j.price)
    <3>1. /\ j.balance - j.price \in Int /\ - j.price \in Int
          /\ j.balance - j.price = tables.balance[j.user] + (- j.price)
      BY <1>l, <2>2
    <3> QED
      BY <1>l, <1>j, <3>1, WorthMoved
  <2>5. r.balance[j.seller] = tables.balance[j.seller]
    BY <1>j, <1>l, <2>2 DEF Tables
  <2> HIDE DEF r
  <2>6. Worth(r) = Capital + Fee(j.price) - 1 - j.price
    BY <1>c, <1>f, <1>l, <2>2, <2>4
  <2>7. Books(At(j, "pay_seller"), r, durable)
    BY <1>j, <2>2, <2>5, <2>6, AtFields DEF Books, OutsideTx, Removing, Balanced
  <2> QED
    BY <1>j, <2>2, <2>3, <2>7, AbortBooks DEF Lands, BooksAfter
<1>9. CASE PaySeller(w)
  <2> DEFINE n == Payout(j.price)
             r == [tables EXCEPT !.balance[j.seller] = j.seller_balance + n]
  <2>1. j.pc = "pay_seller" /\ inTx
    BY <1>9, <1>j DEF PaySeller, Running, j, InsideTx
  <2>2. /\ Worth(durable) = Capital
        /\ Worth(tables) = Capital + Fee(j.price) - 1 - j.price
        /\ j.seller_balance = tables.balance[j.seller]
    BY <1>t, <2>1 DEF Books
  <2>3. \/ Lands(w, At(j, "own"), r, durable)
        \/ Lands(w, At(j, "rollback"), tables, durable)
    BY <1>9, <1>t, <2>1, WriteLands DEF PaySeller, Pay, j
  <2>4. n \in Int /\ n = j.price - Fee(j.price) + 1
    BY <1>f, <1>l DEF Payout, LISTING_FEE
  <2>5. Worth(r) = Worth(tables) + n
    <3>1. j.seller_balance + n \in Int /\ j.seller_balance + n = tables.balance[j.seller] + n
      BY <1>l, <2>2, <2>4
    <3> HIDE DEF n
    <3> QED
      BY <1>l, <1>j, <2>4, <3>1, WorthMoved
  <2> HIDE DEF r, n
  <2>6. Worth(r) = Capital
    BY <1>c, <1>f, <1>l, <2>2, <2>4, <2>5
  <2>7. Books(At(j, "own"), r, durable)
    BY <1>j, <2>2, <2>6, AtPc, BalancedBooks DEF Balanced
  <2> QED
    BY <1>j, <2>2, <2>3, <2>7, AbortBooks DEF Lands, BooksAfter
<1>10. CASE BuyUpdateOwner(w)
  <2> DEFINE r == [tables EXCEPT !.owner[j.item] = j.user]
  <2>1. j.pc = "own" /\ inTx
    BY <1>10, <1>j DEF BuyUpdateOwner, Running, j, InsideTx
  <2>2. Worth(durable) = Capital /\ Worth(tables) = Capital
    BY <1>t, <2>1 DEF Books, Balanced
  <2>3. \/ Lands(w, At(j, "take"), r, durable)
        \/ Lands(w, At(j, "rollback"), tables, durable)
    BY <1>10, <1>t, <2>1, WriteLands DEF BuyUpdateOwner, j
  <2>4. r.balance = tables.balance /\ r.listings = tables.listings
    BY <1>j DEF Tables
  <2> HIDE DEF r
  <2>5. Books(At(j, "take"), r, durable)
    BY <1>j, <2>2, <2>4, WorthSame, AtPc, BalancedBooks DEF Balanced
  <2> QED
    BY <1>j, <2>2, <2>3, <2>5, AbortBooks DEF Lands, BooksAfter
<1>11. CASE BuyRemoveFromInventory(w)
  <2>1. j.pc = "take" /\ inTx
    BY <1>11, <1>j DEF BuyRemoveFromInventory, Running, j, InsideTx
  <2>2. Worth(durable) = Capital /\ Worth(tables) = Capital
    BY <1>t, <2>1 DEF Books, Balanced
  <2>3. PICK r : /\ r.balance = tables.balance /\ r.listings = tables.listings
                 /\ \/ Lands(w, At(j, "give"), r, durable)
                    \/ Lands(w, At(j, "give"), tables, durable)
    BY <1>11, <1>t, <2>1, ItemLands DEF BuyRemoveFromInventory, j
  <2>4. \A t : Worth(t) = Capital => Books(At(j, "give"), t, durable)
    BY <1>j, <2>2, AtPc, BalancedBooks DEF Balanced
  <2> QED
    BY <2>2, <2>3, <2>4, WorthSame DEF Lands, BooksAfter
<1>12. CASE BuyAddToInventory(w)
  <2>1. j.pc = "give" /\ inTx
    BY <1>12, <1>j DEF BuyAddToInventory, Running, j, InsideTx
  <2>2. Worth(durable) = Capital /\ Worth(tables) = Capital
    BY <1>t, <2>1 DEF Books, Balanced
  <2>3. PICK r : /\ r.balance = tables.balance /\ r.listings = tables.listings
                 /\ \/ Lands(w, At(j, "lock"), r, durable)
                    \/ Lands(w, At(j, "rollback"), tables, durable)
    BY <1>12, <1>t, <2>1, ItemLands DEF BuyAddToInventory, j
  <2>4. Books(At(j, "lock"), r, durable)
    BY <1>j, <2>2, <2>3, WorthSame, AtPc, BalancedBooks DEF Balanced
  <2> QED
    BY <1>j, <2>2, <2>3, <2>4, AbortBooks DEF Lands, BooksAfter
<1>13. CASE BuyApplyTradeLock(w) \/ SavePriceHistory(w)
  <2>1. j.pc \in {"lock", "history"} /\ inTx
    BY <1>13, <1>j DEF BuyApplyTradeLock, SavePriceHistory, Running, j, InsideTx
  <2>2. Worth(durable) = Capital /\ Worth(tables) = Capital
    BY <1>t, <2>1 DEF Books, Balanced
  <2>3. \/ Lands(w, At(j, "history"), tables, durable)
        \/ Lands(w, At(j, "commit"), tables, durable)
    BY <1>13, <1>t, <2>1, WriteLands DEF BuyApplyTradeLock, SavePriceHistory, j
  <2>4. \A label \in {"history", "commit"} : Books(At(j, label), tables, durable)
    BY <1>j, <2>2, AtPc, BalancedBooks DEF Balanced
  <2> QED
    BY <2>3, <2>4 DEF Lands, BooksAfter
<1>14. CASE BuyLogTransactions(w)
  <2>1. j.pc = "log" /\ ~inTx
    BY <1>14, <1>j DEF BuyLogTransactions, Running, j, OutsideTx
  <2>2. Worth(durable) = Capital /\ tables = durable
    BY <1>t, <1>j, <2>1 DEF Books, OutsideTx
  <2>3. Lands(w, At(j, "call"), tables, durable)
    BY <1>14, <1>t, <2>1, <2>2, WriteLands DEF BuyLogTransactions, j
  <2>4. At(j, "call").pc \in Settled
    BY <1>j, AtPc DEF Settled, OutsideTx, Removing
  <2> QED
    BY <2>2, <2>3, <2>4, SettledBooks DEF Lands, BooksAfter
<1> QED
  BY <1>1, <1>2, <1>3, <1>4, <1>5, <1>6, <1>7, <1>8, <1>9, <1>10, <1>11,
     <1>12, <1>13, <1>14 DEF Buy

LEMMA FollowUpBooks ==
  ASSUME NEW w, Open(w), FollowUp(w)
  PROVE  BooksAfter(w)
<1> DEFINE j == job[w]
<1>t. Turn(w) /\ Books(j, tables, durable)
  BY DEF Open
<1>j. /\ w \in Workers /\ j \in Job
      /\ tables \in Tables /\ durable \in Tables
      /\ j.pc \in InsideTx => inTx
      /\ j.pc \in OutsideTx => ~inTx /\ tables = durable
  BY <1>t, TurnFacts
<1>n. NextCall(j).pc \in Settled
  BY <1>j, NextCallPc DEF Settled, OutsideTx, Removing
<1>d. Worth(durable) = Capital
  <2>1. j.pc \in {"call", "call_load", "call_write", "call_commit", "call_rollback"}
    BY DEF FollowUp, CallBegin, BeginAt, CallLoad, CallWrite, CallCommit,
       CallRollback, UpdateChallenges, Running
  <2> QED
    BY <1>t, <2>1 DEF Books
<1> HIDE DEF j
<1>1. CASE CallBegin(w)
  <2>1. j.pc = "call"
    BY <1>1 DEF CallBegin, BeginAt, Running, j
  <2>2. tables = durable
    BY <1>j, <2>1 DEF OutsideTx
  <2>3. \/ Lands(w, At(j, "call_load"), tables, durable)
        \/ Lands(w, NextCall(j), tables, durable)
    <3>1. "call" \in OutsideTx
      BY DEF OutsideTx
    <3> QED
      BY <1>1, <1>t, <3>1, BeginLands DEF CallBegin, j
  <2>4. Books(At(j, "call_load"), tables, durable)
    BY <1>j, <1>d, <2>2, AtPc, BalancedBooks DEF Balanced
  <2> QED
    BY <1>d, <1>n, <2>2, <2>3, <2>4, SettledBooks DEF Lands, BooksAfter
<1>2. CASE CallLoad(w)
  <2> DEFINE k == [j EXCEPT !.pc = "call_write",
                     !.progress = tables.progress[Subject(j)][QuestOf(j)] + Increment(j)]
  <2>1. j.pc = "call_load"
    BY <1>2 DEF CallLoad, Running, j
  <2>2. Worth(tables) = Capital
    BY <1>t, <2>1 DEF Books, Balanced
  <2>3. Become(w, At(j, "call_rollback")) \/ Become(w, k)
    BY <1>2 DEF CallLoad, j
  <2>4. k.pc = "call_write"
    BY <1>j DEF Job
  <2> HIDE DEF k
  <2>5. Lands(w, At(j, "call_rollback"), tables, durable) \/ Lands(w, k, tables, durable)
    BY <1>2, <1>t, <2>3, LocalLands DEF CallLoad
  <2>6. Books(k, tables, durable)
    BY <1>d, <2>2, <2>4, BalancedBooks DEF Balanced
  <2> QED
    BY <1>j, <1>d, <2>5, <2>6, AbortBooks DEF Lands, BooksAfter
<1>3. CASE CallWrite(w)
  <2> DEFINE r == [tables EXCEPT !.progress[Subject(j)][QuestOf(j)] = j.progress]
  <2>1. j.pc = "call_write" /\ inTx
    BY <1>3, <1>j DEF CallWrite, Running, j, InsideTx
  <2>2. Worth(tables) = Capital
    BY <1>t, <2>1 DEF Books, Balanced
  <2>3. \/ Lands(w, At(j, "call_commit"), r, durable)
        \/ Lands(w, At(j, "call_rollback"), tables, durable)
    BY <1>3, <1>t, <2>1, WriteLands DEF CallWrite, j
  <2>4. r.balance = tables.balance /\ r.listings = tables.listings
    BY <1>j DEF Tables
  <2> HIDE DEF r
  <2>5. Books(At(j, "call_commit"), r, durable)
    BY <1>j, <1>d, <2>2, <2>4, WorthSame, AtPc, BalancedBooks DEF Balanced
  <2> QED
    BY <1>j, <1>d, <2>3, <2>5, AbortBooks DEF Lands, BooksAfter
<1>4. CASE CallCommit(w)
  <2>1. j.pc = "call_commit" /\ j.pc \in InsideTx
    BY <1>4 DEF CallCommit, Running, j, InsideTx
  <2>2. Worth(tables) = Capital
    BY <1>t, <2>1 DEF Books, Balanced
  <2>3. \/ Lands(w, NextCall(j), tables, tables)
        \/ Lands(w, At(j, "call_rollback"), tables, durable)
    BY <1>4, <1>t, <2>1, CommitLands DEF CallCommit, j
  <2> QED
    BY <1>j, <1>d, <1>n, <2>2, <2>3, SettledBooks, AbortBooks DEF Lands, BooksAfter
<1>5. CASE CallRollback(w)
  <2>1. j.pc \in InsideTx
    BY <1>5 DEF CallRollback, Running, j, InsideTx
  <2>2. Lands(w, NextCall(j), durable, durable)
    BY <1>5, <1>t, <2>1, RollbackLands DEF CallRollback, j
  <2> QED
    BY <1>d, <1>n, <2>2, SettledBooks DEF Lands, BooksAfter
<1>6. CASE UpdateChallenges(w)
  <2>1. tables = durable /\ ~inTx
    BY <1>6, <1>j DEF UpdateChallenges, Running, j, OutsideTx
  <2>2. Become(w, NextCall(j)) /\ (UNCHANGED connection \/ Store(tables))
    BY <1>6 DEF UpdateChallenges, Update, j
  <2>3. Lands(w, NextCall(j), durable, durable)
    BY <1>t, <2>1, <2>2, BecomeMoves
       DEF Turn, WellTyped, Store, connection, Moved, Lands
  <2> QED
    BY <1>d, <1>n, <2>3, SettledBooks DEF Lands, BooksAfter
<1> QED
  BY <1>1, <1>2, <1>3, <1>4, <1>5, <1>6 DEF FollowUp

LEMMA RemoveBooks ==
  ASSUME "remove" \in Kinds => ~Faults /\ ~Crashes,
         NEW w, Open(w), Remove(w)
  PROVE  BooksAfter(w)
<1> DEFINE j == job[w]
<1>t. Turn(w) /\ Books(j, tables, durable)
  BY DEF Open
<1>j. /\ w \in Workers /\ j \in Job
      /\ tables \in Tables /\ durable \in Tables
      /\ j.pc \in OutsideTx => ~inTx /\ tables = durable
  BY <1>t, TurnFacts
<1>l. j.user \in Users /\ j.listing \in ListingIds /\ j.balance \in Int
  BY <1>j DEF Job
<1> HIDE DEF j
<1>1. CASE RemoveListing(w)
  <2>1. PICK l \in ListingIds :
          /\ tables.listings[l].state = "active"
          /\ Become(w, [Idle EXCEPT !.pc = "remove_load",
                                    !.user = tables.listings[l].seller,
                                    !.item = tables.listings[l].item,
                                    !.listing = l, !.kind = "remove"])
    BY <1>1 DEF RemoveListing
  <2> DEFINE k == [Idle EXCEPT !.pc = "remove_load",
                               !.user = tables.listings[l].seller,
                               !.item = tables.listings[l].item,
                               !.listing = l, !.kind = "remove"]
  <2>2. k.pc = "remove_load" /\ k.listing = l
    BY DEF Idle
  <2>3. Lands(w, k, tables, durable)
    BY <1>1, <1>t, <2>1, LocalLands DEF RemoveListing
  <2>4. j.pc = "idle" /\ "remove" \in Kinds
    BY <1>1 DEF RemoveListing, Request, j
  <2>5. Worth(durable) = Capital /\ tables = durable
    BY <1>t, <1>j, <2>4 DEF Books, OutsideTx
  <2> HIDE DEF k
  <2>6. Books(k, tables, durable)
    BY <2>1, <2>2, <2>4, <2>5 DEF Books, OutsideTx, Removing, Balanced
  <2> QED
    BY <2>3, <2>6 DEF Lands, BooksAfter
<1>r. CASE j.pc \in Removing
  <2>r. /\ ~inTx /\ tables = durable /\ ~Faults
        /\ tables.listings[j.listing].state = "active" /\ "remove" \in Kinds
    BY <1>t, <1>j, <1>r DEF Books, Removing, OutsideTx
  <2>i. Idle.pc \in Settled
    BY DEF Idle, Settled, OutsideTx, Removing
  <2>2. CASE RemoveLoadSeller(w)
    <3> DEFINE k == [j EXCEPT !.pc = "refund", !.balance = tables.balance[j.user]]
    <3>1. Worth(durable) = Capital
      BY <1>t, <2>2 DEF RemoveLoadSeller, Running, Books, j
    <3>2. Lands(w, k, tables, durable)
      BY <1>t, <2>2, LocalLands DEF RemoveLoadSeller, j
    <3>3. /\ k.pc = "refund" /\ k.listing = j.listing /\ k.user = j.user
          /\ k.balance = tables.balance[j.user]
      BY <1>j DEF Job
    <3> HIDE DEF k
    <3>4. Books(k, tables, durable)
      BY <2>r, <3>1, <3>3 DEF Books, OutsideTx, Removing, Balanced
    <3> QED
      BY <3>2, <3>4 DEF Lands, BooksAfter
  <2>3. CASE RemoveRefund(w)
    <3> DEFINE r == [tables EXCEPT !.balance[j.user] = j.balance + LISTING_FEE]
    <3>1. j.pc = "refund"
      BY <2>3 DEF RemoveRefund, Running, j
    <3>2. Worth(durable) = Capital /\ j.balance = tables.balance[j.user]
      BY <1>t, <3>1 DEF Books
    <3>3. Lands(w, At(j, "return"), r, r)
      BY <1>t, <2>3, <2>r, WriteLands DEF RemoveRefund, Pay, j
    <3>4. Worth(r) = Worth(tables) + 1
      <4>1. /\ j.balance + LISTING_FEE \in Int
            /\ j.balance + LISTING_FEE = tables.balance[j.user] + 1
        BY <1>l, <3>2 DEF LISTING_FEE
      <4> QED
        BY <1>l, <1>j, <4>1, WorthMoved
    <3>5. r.listings = tables.listings
      BY <1>j DEF Tables
    <3> HIDE DEF r
    <3>6. Books(At(j, "return"), r, r)
      BY <1>j, <2>r, <3>2, <3>4, <3>5, AtFields DEF Books, OutsideTx, Removing, Balanced
    <3> QED
      BY <3>3, <3>6 DEF Lands, BooksAfter
  <2>4. CASE RemoveReturnItem(w)
    <3>1. j.pc = "return"
      BY <2>4 DEF RemoveReturnItem, Running, j
    <3>2. Worth(durable) = Capital + 1
      BY <1>t, <3>1 DEF Books
    <3>3. PICK r : /\ r.balance = tables.balance /\ r.listings = tables.listings
                   /\ Lands(w, At(j, "delete"), r, r)
      BY <1>t, <2>4, <2>r, ItemLands DEF RemoveReturnItem, j
    <3>4. Worth(r) = Capital + 1
      BY <2>r, <3>2, <3>3, WorthSame
    <3>5. Books(At(j, "delete"), r, r)
      BY <1>j, <2>r, <3>3, <3>4, AtFields DEF Books, OutsideTx, Removing, Balanced
    <3> QED
      BY <3>3, <3>5 DEF Lands, BooksAfter
  <2>5. CASE RemoveDelete(w)
    <3> DEFINE r == [tables EXCEPT !.listings[j.listing].state = "removed"]
    <3>1. j.pc = "delete"
      BY <2>5 DEF RemoveDelete, Running, j
    <3>2. Worth(durable) = Capital + 1
      BY <1>t, <3>1 DEF Books
    <3>3. Lands(w, Idle, r, r)
      BY <1>t, <2>5, <2>r, WriteLands DEF RemoveDelete, j
    <3>4. Worth(r) = Worth(tables) - 1 + 0
      BY <1>j, <1>l, <2>r, WorthClosed
    <3>5. Capital \in Int
      BY CapitalInt
    <3> HIDE DEF r
    <3>6. Worth(r) = Capital
      BY <2>r, <3>2, <3>4, <3>5
    <3> QED
      BY <2>i, <3>3, <3>6, SettledBooks DEF Lands, BooksAfter
  <2> QED
    BY <1>r, <2>2, <2>3, <2>4, <2>5
       DEF Remove, RemoveListing, Request, Removing, j
<1> QED
  BY <1>1, <1>r
     DEF Remove, RemoveLoadSeller, RemoveRefund, RemoveReturnItem,
         RemoveDelete, Running, Removing, j

LEMMA EndBooks ==
  ASSUME NEW w, Open(w), CommitTransaction(w) \/ RollbackTransaction(w)
  PROVE  BooksAfter(w)
<1> DEFINE j == job[w]
<1>t. Turn(w) /\ Books(j, tables, durable)
  BY DEF Open
<1>j. j \in Job
  BY <1>t, TurnFacts
<1>p. j.pc \in InsideTx /\ j.pc \in {"commit", "rollback"}
  BY DEF CommitTransaction, RollbackTransaction, Running, InsideTx
<1>d. Worth(durable) = Capital
  BY <1>t, <1>p DEF Books
<1>i. Idle.pc \in Settled /\ At(j, "log").pc \in Settled
  BY <1>j, AtPc DEF Idle, Settled, OutsideTx, Removing
<1> HIDE DEF j
<1>1. CASE RollbackTransaction(w)
  <2>1. Lands(w, Idle, durable, durable)
    BY <1>1, <1>t, <1>p, RollbackLands DEF RollbackTransaction, j
  <2> QED
    BY <1>d, <1>i, <2>1, SettledBooks DEF Lands, BooksAfter
<1>2. CASE CommitTransaction(w)
  <2>1. Worth(tables) = Capital
    BY <1>2, <1>t DEF CommitTransaction, Running, Books, Balanced, j
  <2>2. PICK k \in {Idle, At(j, "log")} :
          \/ Commit /\ Become(w, k)
          \/ CommitRefused /\ Become(w, At(j, "rollback"))
    BY <1>2 DEF CommitTransaction, j
  <2>3. Lands(w, k, tables, tables) \/ Lands(w, At(j, "rollback"), tables, durable)
    BY <1>t, <1>p, <2>2, CommitLands DEF j
  <2> QED
    BY <1>j, <1>d, <1>i, <2>1, <2>2, <2>3, SettledBooks, AbortBooks
       DEF Lands, BooksAfter
<1> QED
  BY <1>1, <1>2

(* The inductive invariant, beside TypeOK and TransactionsExclusive: the   *)
(* books of the only worker that may be busy.                              *)
BooksInv == \A w \in Workers : Alone(w) => Books(job[w], tables, durable)

LEMMA SomebodyAlone ==
  ASSUME Serial
  PROVE  \E w \in Workers : Alone(w)
<1>1. CASE \E w \in Workers : job[w].pc # "idle"
  BY <1>1 DEF Serial, Alone
<1>2. CASE \A w \in Workers : job[w].pc = "idle"
  BY <1>2, MarketAssumption DEF Alone
<1> QED
  BY <1>1, <1>2

(* The worker that takes a step is alone. *)
LEMMA StepperAlone ==
  ASSUME WellTyped, Serial, Serial', NEW w \in Workers, Handler(w)
  PROVE  Alone(w) /\ \A v \in Workers \ {w} : job'[v] = job[v]
<1>1. TxStep(w)
  BY ListTxStep, BuyTxStep, FollowUpTxStep, RemoveTxStep, EndTxStep
     DEF Handler, WellTyped
<1>2. job[w].pc # "idle" \/ job'[w].pc # "idle"
  <2>1. CASE ListSkinOnMarket(w) \/ BuyFromMarket(w) \/ RemoveListing(w)
    <3>1. PICK k : Become(w, k) /\ k.pc # "idle"
      <4>1. \A i, p : [Idle EXCEPT !.pc = "list_funds", !.user = tables.owner[i],
                                   !.item = i, !.price = p].pc = "list_funds"
        BY DEF Idle
      <4>2. \A u, l : [Idle EXCEPT !.pc = "buy_begin", !.user = u, !.listing = l,
                                   !.kind = "buy"].pc = "buy_begin"
        BY DEF Idle
      <4>3. \A u, i, l : [Idle EXCEPT !.pc = "remove_load", !.user = u, !.item = i,
                            !.listing = l, !.kind = "remove"].pc = "remove_load"
        BY DEF Idle
      <4> QED
        BY <2>1, <4>1, <4>2, <4>3 DEF ListSkinOnMarket, BuyFromMarket, RemoveListing
    <3> QED
      BY <3>1, BecomeMoves DEF Moved, WellTyped
  <2>2. CASE ~(ListSkinOnMarket(w) \/ BuyFromMarket(w) \/ RemoveListing(w))
    BY <2>2
       DEF Handler, List, ListLoadUser, ListBegin, ListDeductFee,
           ListRemoveFromInventory, SaveListing, Buy, BuyBegin, FindListing,
           MarkSold, BuyReadChanges, LoadBuyer, LoadSeller, PayBuyer, PaySeller,
           BuyUpdateOwner, BuyRemoveFromInventory, BuyAddToInventory,
           BuyApplyTradeLock, SavePriceHistory, BuyLogTransactions, FollowUp,
           CallBegin, CallLoad, CallWrite, CallCommit, CallRollback,
           UpdateChallenges, Remove, RemoveLoadSeller, RemoveRefund,
           RemoveReturnItem, RemoveDelete, CommitTransaction,
           RollbackTransaction, BeginAt, Running
  <2> QED
    BY <2>1, <2>2
<1>3. \A v \in Workers \ {w} : job'[v] = job[v]
  BY <1>1 DEF TxStep
<1> QED
  BY <1>2, <1>3 DEF Serial, Alone

LEMMA BooksStep ==
  ASSUME "remove" \in Kinds => ~Faults /\ ~Crashes,
         TypeOK, TransactionsExclusive, BooksInv, Serial, Serial', [Next]_vars
  PROVE  BooksInv'
<1>0. WellTyped
  BY DEF TypeOK, WellTyped, ConnectionType, JobsType
<1>1. ASSUME NEW w \in Workers, Handler(w) PROVE BooksInv'
  <2>1. Alone(w) /\ \A v \in Workers \ {w} : job'[v] = job[v]
    BY <1>0, <1>1, StepperAlone
  <2>2. Books(job[w], tables, durable)
    BY <2>1 DEF BooksInv
  <2>3. Open(w)
    BY <1>0, <2>1, <2>2 DEF Open, Turn, Books
  <2>4. Books(job'[w], tables', durable')
    BY <1>1, <2>3, ListBooks, SaleBooks, FollowUpBooks, RemoveBooks, EndBooks
       DEF Handler, BooksAfter
  <2>5. ASSUME NEW v \in Workers, v # w, Alone(v)'
        PROVE  Books(job'[v], tables', durable')
    <3>1. job'[w].pc = "idle" /\ job'[v].pc = "idle"
      BY <2>1, <2>5 DEF Alone
    <3>2. Worth(durable') = Capital /\ tables' = durable'
      BY <2>4, <3>1 DEF Books, OutsideTx
    <3>3. job'[v].pc \in Settled
      BY <3>1 DEF Settled, OutsideTx, Removing
    <3> QED
      BY <3>2, <3>3, SettledBooks
  <2> QED
    BY <2>4, <2>5 DEF BooksInv
<1>2. CASE Crash
  <2>1. PICK w \in Workers : Alone(w)
    BY SomebodyAlone
  <2>2. Crashes /\ durable' = durable /\ tables' = durable
    BY <1>2 DEF Crash, Reopen
  <2>3. Worth(durable') = Capital
    BY <2>1, <2>2 DEF BooksInv, Books, Removing
  <2>4. \A v \in Workers : job'[v].pc \in Settled
    BY <1>2 DEF Crash, Idle, Settled, OutsideTx, Removing
  <2> QED
    BY <2>2, <2>3, <2>4, SettledBooks DEF BooksInv
<1>3. CASE UNCHANGED vars
  BY <1>3 DEF vars, connection, BooksInv, Alone
<1> QED
  BY <1>1, <1>2, <1>3 DEF Next, Handler

(* Between requests that do not overlap, no money is made or lost: what    *)
(* the users own, what they have paid for active listings and what the     *)
(* market has kept of the sales is what the users brought.  It takes       *)
(* listings and purchases that statements fail in and kills interrupt;     *)
(* remove_listing, which writes outside a transaction, can afford neither. *)
THEOREM MarketAccountsForMoney ==
  ASSUME "remove" \in Kinds => ~Faults /\ ~Crashes
  PROVE  Spec /\ []Serial => []MoneyAccounted
<1>1. Init => BooksInv
  <2> SUFFICES ASSUME Init PROVE BooksInv
    OBVIOUS
  <2>1. tables = OpeningRows /\ durable = OpeningRows
    BY DEF Init, ConnectionInit
  <2>2. \A w \in Workers : job[w].pc \in Settled
    BY DEF Init, Idle, Settled, OutsideTx, Removing
  <2> QED
    BY <2>1, <2>2, SettledBooks DEF BooksInv, Capital
<1>2. TypeOK /\ TransactionsExclusive /\ BooksInv /\ Serial /\ Serial' /\ [Next]_vars
        => BooksInv'
  BY BooksStep
<1>3. BooksInv /\ Serial => MoneyAccounted
  <2> SUFFICES ASSUME BooksInv, \A w \in Workers : job[w].pc = "idle"
               PROVE  Worth(durable) = Capital
    BY DEF MoneyAccounted, Capital
  <2>1. PICK w \in Workers : Alone(w)
    BY MarketAssumption DEF Alone
  <2> QED
    BY <2>1 DEF BooksInv, Books
<1> QED
  BY <1>1, <1>2, <1>3, TypeCorrect, MarketTransactions, PTL DEF Spec

-----------------------------------------------------------------------------
(* The quests of the buyers, when no statement fails and nothing is killed.*)

(* In the rows d every purchase has counted, but one of each user in S.    *)
Explored(d, u) == d.progress[u]["market_explorer"]
Credited(d, u, n) ==
  \/ Explored(d, u) >= QuestTarget
  \/ Explored(d, u) + n >= Cardinality(Bought(d, u))
Credits(d, S) == \A u \in Users : Credited(d, u, IF u \in S THEN 1 ELSE 0)

LEMMA BoughtFinite ==
  ASSUME NEW d, NEW u
  PROVE  /\ IsFiniteSet(Bought(d, u))
         /\ Cardinality(Bought(d, u)) \in Nat
<1>1. Bought(d, u) \subseteq Items
  BY DEF Bought
<1> QED
  BY <1>1, MarketAssumption, FS_Subset, FS_CardinalityType

LEMMA ExploredNat ==
  ASSUME NEW d \in Tables, NEW u \in Users
  PROVE  Explored(d, u) \in Nat
BY DEF Tables, Quests, Explored

LEMMA CreditsSame ==
  ASSUME NEW d, NEW r, NEW S, Credits(d, S), r.owner = d.owner,
         \A u \in Users : Explored(r, u) = Explored(d, u)
  PROVE  Credits(r, S)
BY DEF Credits, Credited, Bought

(* A purchase is owed to the quest of its buyer. *)
LEMMA CreditsOwed ==
  ASSUME NEW d \in Tables, NEW r, NEW i \in Items, NEW u \in Users,
         Credits(d, {}), r.owner = [d.owner EXCEPT ![i] = u],
         r.progress = d.progress
  PROVE  Credits(r, {u})
<1> SUFFICES ASSUME NEW v \in Users
             PROVE  Credited(r, v, IF v \in {u} THEN 1 ELSE 0)
  BY DEF Credits
<1>1. Credited(d, v, 0)
  BY DEF Credits
<1>2. Explored(r, v) = Explored(d, v) /\ Explored(d, v) \in Nat
  BY ExploredNat DEF Explored
<1>3. CASE v # u
  <2>1. Bought(r, v) \subseteq Bought(d, v)
    BY <1>3 DEF Bought, Tables
  <2>2. Cardinality(Bought(r, v)) <= Cardinality(Bought(d, v))
    BY <2>1, BoughtFinite, FS_Subset
  <2> QED
    BY <1>1, <1>2, <1>3, <2>2, BoughtFinite, MarketAssumption DEF Credited
<1>4. CASE v = u
  <2>1. Bought(r, u) \subseteq Bought(d, u) \cup {i}
    BY DEF Bought, Tables
  <2>2. /\ IsFiniteSet(Bought(d, u) \cup {i})
        /\ Cardinality(Bought(d, u) \cup {i}) <= Cardinality(Bought(d, u)) + 1
    <3>1. IsFiniteSet(Bought(d, u)) /\ Cardinality(Bought(d, u)) \in Nat
      BY BoughtFinite
    <3>2. CASE i \in Bought(d, u)
      <4>1. Bought(d, u) \cup {i} = Bought(d, u)
        BY <3>2
      <4> QED
        BY <3>1, <4>1
    <3>3. CASE i \notin Bought(d, u)
      <4>1. /\ IsFiniteSet(Bought(d, u) \cup {i})
            /\ Cardinality(Bought(d, u) \cup {i}) = Cardinality(Bought(d, u)) + 1
        BY <3>1, <3>3, FS_AddElement
      <4> QED
        BY <3>1, <4>1
    <3> QED
      BY <3>2, <3>3
  <2>3. Cardinality(Bought(r, u)) <= Cardinality(Bought(d, u) \cup {i})
    BY <2>1, <2>2, FS_Subset
  <2>4. Cardinality(Bought(d, u) \cup {i}) \in Nat
    BY <2>2, FS_CardinalityType
  <2> QED
    BY <1>1, <1>2, <1>4, <2>2, <2>3, <2>4, BoughtFinite, MarketAssumption
       DEF Credited
<1> QED
  BY <1>3, <1>4

(* The quest of the buyer pays it back, ... *)
LEMMA CreditsPaid ==
  ASSUME NEW d \in Tables, NEW r, NEW u \in Users, Credits(d, {u}),
         r.owner = d.owner, Explored(r, u) = Explored(d, u) + 1,
         \A v \in Users \ {u} : Explored(r, v) = Explored(d, v)
  PROVE  Credits(r, {})
<1> SUFFICES ASSUME NEW v \in Users PROVE Credited(r, v, 0)
  BY DEF Credits
<1>1. Bought(r, v) = Bought(d, v)
  BY DEF Bought
<1>2. Credited(d, v, IF v \in {u} THEN 1 ELSE 0)
  BY DEF Credits
<1>3. Explored(d, v) \in Nat /\ Cardinality(Bought(d, v)) \in Nat
  BY ExploredNat, BoughtFinite
<1>4. CASE v = u
  BY <1>1, <1>2, <1>3, <1>4, MarketAssumption DEF Credited
<1>5. CASE v # u
  BY <1>1, <1>2, <1>3, <1>5, MarketAssumption DEF Credited
<1> QED
  BY <1>4, <1>5

(* ... or is complete. *)
LEMMA CreditsComplete ==
  ASSUME NEW d, NEW u, Credits(d, {u}), Explored(d, u) >= QuestTarget
  PROVE  Credits(d, {})
BY DEF Credits, Credited

CallLabels == {"call", "call_load", "call_write", "call_commit", "call_rollback"}
ListLabels == {"list_funds", "list_begin", "list_fee", "list_take", "list_save"}
Before == {"list_fee", "list_take", "list_save", "find", "mark", "marked",
           "buyer", "seller", "pay_buyer", "pay_seller", "own"}
After == {"take", "give", "lock", "history"}
BuyLabels == ((Before \ ListLabels) \cup After) \cup {"buy_begin"}

(* The purchase of the handler with the locals j, not yet counted. *)
Owes(j) ==
  j.pc \in {"log", "call", "call_load", "call_write", "call_commit"} /\ j.call = 1
Debtors(j) == IF Owes(j) THEN {j.user} ELSE {}

Tally(j, t, d) ==
  /\ j.pc \in OutsideTx => t = d
  /\ Credits(d, Debtors(j))
  /\ j.pc \notin CallLabels => j.call = 1
  /\ j.pc \in ListLabels => j.kind = "list"
  /\ j.pc \in BuyLabels => j.kind = "buy"
  /\ j.pc = "commit" => j.kind \in {"list", "buy"}
  /\ j.pc \in Before \/ (j.pc = "commit" /\ j.kind = "list") =>
       t.owner = d.owner /\ t.progress = d.progress
  /\ j.pc \in After \/ (j.pc = "commit" /\ j.kind = "buy") =>
       Owned(j, t, d) /\ t.progress = d.progress
  /\ j.pc \in {"call_load", "call_write"} =>
       t.owner = d.owner /\ t.progress = d.progress
  /\ j.pc = "call_write" /\ j.call = 1 => j.progress = Explored(d, j.user) + 1
  /\ j.pc = "call_commit" =>
       /\ t.owner = d.owner
       /\ \A u \in Users : Explored(t, u) =
            IF j.call = 1 /\ u = j.user THEN Explored(d, u) + 1 ELSE Explored(d, u)

LEMMA AtCall ==
  ASSUME NEW j \in Job, NEW label
  PROVE  /\ At(j, label).call = j.call
         /\ At(j, label).kind = j.kind
         /\ At(j, label).progress = j.progress
BY DEF At, Job

LEMMA OutsideTally ==
  ASSUME NEW k, NEW d, k.pc \in OutsideTx, Credits(d, Debtors(k)),
         k.pc # "call" => k.call = 1,
         k.pc \in ListLabels => k.kind = "list",
         k.pc \in BuyLabels => k.kind = "buy"
  PROVE  Tally(k, d, d)
BY DEF Tally, OutsideTx, CallLabels, ListLabels, BuyLabels, Before, After

LEMMA IdleTally ==
  ASSUME NEW d, Credits(d, {})
  PROVE  Tally(Idle, d, d)
<1>1. Idle.pc = "idle" /\ Idle.call = 1
  BY DEF Idle
<1>2. Debtors(Idle) = {}
  BY <1>1 DEF Debtors, Owes
<1> QED
  BY <1>1, <1>2, OutsideTally DEF OutsideTx, ListLabels, BuyLabels, Before, After

LEMMA NextCallTally ==
  ASSUME NEW j \in Job, NEW d, Credits(d, {})
  PROVE  Tally(NextCall(j), d, d)
<1>1. CASE j.call = 4
  BY <1>1, IdleTally DEF NextCall
<1>2. CASE j.call # 4
  <2> DEFINE k == [j EXCEPT !.pc = "call", !.call = @ + 1, !.progress = 0]
  <2>1. k.pc = "call" /\ k.call = j.call + 1 /\ j.call \in 1 .. 4
    BY DEF Job
  <2> HIDE DEF k
  <2>2. Debtors(k) = {}
    BY <2>1 DEF Debtors, Owes
  <2>3. Tally(k, d, d)
    BY <2>1, <2>2, OutsideTally DEF OutsideTx, ListLabels, BuyLabels, Before, After
  <2> QED
    BY <1>2, <2>3 DEF NextCall, k
<1> QED
  BY <1>1, <1>2

LEMMA BeforeTally ==
  ASSUME NEW k, NEW t, NEW d, k.pc \in Before, k.call = 1, Credits(d, {}),
         t.owner = d.owner, t.progress = d.progress,
         k.kind = IF k.pc \in ListLabels THEN "list" ELSE "buy"
  PROVE  Tally(k, t, d)
<1>1. Debtors(k) = {}
  BY DEF Debtors, Owes, Before
<1> QED
  BY <1>1
     DEF Tally, OutsideTx, CallLabels, ListLabels, BuyLabels, Before, After

LEMMA AfterTally ==
  ASSUME NEW k, NEW t, NEW d, k.pc \in After \cup {"commit"}, k.call = 1,
         Credits(d, {}), Owned(k, t, d), t.progress = d.progress,
         k.kind = "buy"
  PROVE  Tally(k, t, d)
<1>1. Debtors(k) = {}
  BY DEF Debtors, Owes, After
<1> QED
  BY <1>1
     DEF Tally, OutsideTx, CallLabels, ListLabels, BuyLabels, Before, After

LEMMA AbortTally ==
  ASSUME NEW k, NEW t, NEW d, Credits(d, {}),
         \/ k.pc = "rollback" /\ k.call = 1
         \/ k.pc = "call_rollback"
  PROVE  Tally(k, t, d)
<1>1. Debtors(k) = {}
  BY DEF Debtors, Owes
<1> QED
  BY <1>1
     DEF Tally, OutsideTx, CallLabels, ListLabels, BuyLabels, Before, After

Counting(w) == Turn(w) /\ Tally(job[w], tables, durable)
TallyAfter(w) == Tally(job'[w], tables', durable')

(* A step of a request that has not given the item away yet. *)
LEMMA BeforeStep ==
  ASSUME NEW w, Counting(w), NEW k, NEW r, Lands(w, k, r, durable),
         job[w].pc \in Before,
         r.owner = tables.owner, r.progress = tables.progress,
         k.call = job[w].call, k.kind = job[w].kind,
         \/ k.pc = "rollback"
         \/ /\ k.pc \in Before
            /\ k.pc \in ListLabels <=> job[w].pc \in ListLabels
  PROVE  TallyAfter(w)
<1> DEFINE j == job[w]
<1>1. /\ j.call = 1 /\ tables.owner = durable.owner
      /\ tables.progress = durable.progress
      /\ j.kind = IF j.pc \in ListLabels THEN "list" ELSE "buy"
  BY DEF Counting, Tally, Before, CallLabels, ListLabels, BuyLabels
<1>2. Credits(durable, {})
  <2>1. Debtors(j) = {}
    BY DEF Debtors, Owes, Before
  <2> QED
    BY <2>1 DEF Counting, Tally
<1>3. job'[w] = k /\ tables' = r /\ durable' = durable
  BY DEF Lands
<1> HIDE DEF j
<1>4. CASE k.pc = "rollback"
  BY <1>1, <1>2, <1>3, <1>4, AbortTally DEF TallyAfter, j
<1>5. CASE k.pc \in Before /\ (k.pc \in ListLabels <=> j.pc \in ListLabels)
  BY <1>1, <1>2, <1>3, <1>5, BeforeTally DEF TallyAfter, j
<1> QED
  BY <1>4, <1>5 DEF j

LEMMA ListTally ==
  ASSUME ~Faults, NEW w, Counting(w), List(w)
  PROVE  TallyAfter(w)
<1> DEFINE j == job[w]
<1>t. Turn(w) /\ Tally(j, tables, durable)
  BY DEF Counting
<1>j. /\ w \in Workers /\ j \in Job
      /\ tables \in Tables /\ durable \in Tables
      /\ j.pc \in InsideTx => inTx
      /\ j.pc \in OutsideTx => ~inTx /\ tables = durable
  BY <1>t, TurnFacts
<1> HIDE DEF j
<1>1. CASE ListSkinOnMarket(w)
  <2>1. PICK i \in Items, p \in Prices :
          Become(w, [Idle EXCEPT !.pc = "list_funds", !.user = tables.owner[i],
                                 !.item = i, !.price = p])
    BY <1>1 DEF ListSkinOnMarket
  <2> DEFINE k == [Idle EXCEPT !.pc = "list_funds", !.user = tables.owner[i],
                               !.item = i, !.price = p]
  <2>2. k.pc = "list_funds" /\ k.call = 1 /\ k.kind = "list"
    BY DEF Idle
  <2>3. Lands(w, k, tables, durable)
    BY <1>1, <1>t, <2>1, LocalLands DEF ListSkinOnMarket
  <2>4. j.pc = "idle"
    BY <1>1 DEF ListSkinOnMarket, Request, j
  <2> HIDE DEF k
  <2>5. Debtors(j) = {} /\ Debtors(k) = {} /\ k.pc \in OutsideTx
    BY <2>2, <2>4 DEF Debtors, Owes, OutsideTx
  <2>6. Credits(durable, {}) /\ tables = durable
    BY <1>t, <1>j, <2>4, <2>5 DEF Tally, OutsideTx
  <2>7. Tally(k, durable, durable)
    BY <2>2, <2>5, <2>6, OutsideTally DEF BuyLabels, Before, After
  <2> QED
    BY <2>3, <2>6, <2>7 DEF Lands, TallyAfter
<1>2. CASE ListLoadUser(w)
  <2> DEFINE k == [j EXCEPT !.pc = "list_begin",
                            !.balance = tables.balance[j.user]]
  <2>1. j.pc = "list_funds"
    BY <1>2 DEF ListLoadUser, Running, j
  <2>2. Debtors(j) = {} /\ j.call = 1 /\ j.kind = "list" /\ tables = durable
    BY <1>t, <1>j, <2>1
       DEF Debtors, Owes, Tally, CallLabels, ListLabels, OutsideTx
  <2>3. k.pc = "list_begin" /\ k.call = j.call /\ k.kind = j.kind
    BY <1>j DEF Job
  <2>4. Become(w, Idle) \/ Become(w, k)
    BY <1>2 DEF ListLoadUser, j
  <2>5. Lands(w, Idle, durable, durable) \/ Lands(w, k, durable, durable)
    BY <1>2, <1>t, <2>2, <2>4, LocalLands DEF ListLoadUser
  <2> HIDE DEF k
  <2>6. Credits(durable, {})
    BY <1>t, <2>2 DEF Tally
  <2>7. Debtors(k) = {}
    BY <2>3 DEF Debtors, Owes
  <2>8. Tally(k, durable, durable)
    BY <2>2, <2>3, <2>6, <2>7, OutsideTally
       DEF OutsideTx, BuyLabels, Before, After
  <2> QED
    BY <2>5, <2>6, <2>8, IdleTally DEF Lands, TallyAfter
<1>3. CASE ListBegin(w)
  <2>1. j.pc = "list_begin"
    BY <1>3 DEF ListBegin, BeginAt, Running, j
  <2>2. Debtors(j) = {} /\ j.call = 1 /\ j.kind = "list" /\ tables = durable
    BY <1>t, <1>j, <2>1
       DEF Debtors, Owes, Tally, CallLabels, ListLabels, OutsideTx
  <2>3. Lands(w, At(j, "list_fee"), tables, durable)
    <3>1. "list_begin" \in OutsideTx
      BY DEF OutsideTx
    <3> QED
      BY <1>3, <1>t, <3>1, BeginLands DEF ListBegin, j
  <2>4. Credits(durable, {})
    BY <1>t, <2>2 DEF Tally
  <2>5. Tally(At(j, "list_fee"), tables, durable)
    BY <1>j, <2>2, <2>4, AtPc, AtCall, BeforeTally DEF Before, ListLabels
  <2> QED
    BY <2>3, <2>5 DEF Lands, TallyAfter
<1>4. CASE ListDeductFee(w)
  <2> DEFINE r == [tables EXCEPT !.balance[j.user] = j.balance - LISTING_FEE]
  <2>1. j.pc = "list_fee" /\ inTx
    BY <1>4, <1>j DEF ListDeductFee, Running, j, InsideTx
  <2>2. Lands(w, At(j, "list_take"), r, durable)
    BY <1>4, <1>t, <2>1, WriteLands DEF ListDeductFee, Pay, j
  <2>3. r.owner = tables.owner /\ r.progress = tables.progress
    BY <1>j DEF Tables
  <2> HIDE DEF r
  <2> QED
    BY <1>j, <2>1, <2>2, <2>3, AtPc, AtCall, BeforeStep DEF Before, ListLabels, j
<1>5. CASE ListRemoveFromInventory(w)
  <2>1. j.pc = "list_take" /\ inTx
    BY <1>5, <1>j DEF ListRemoveFromInventory, Running, j, InsideTx
  <2>2. PICK r : /\ r.owner = tables.owner /\ r.progress = tables.progress
                 /\ Lands(w, At(j, "list_save"), r, durable)
    BY <1>5, <1>t, <2>1, ItemLands DEF ListRemoveFromInventory, j
  <2> QED
    BY <1>j, <2>1, <2>2, AtPc, AtCall, BeforeStep DEF Before, ListLabels, j
<1>6. CASE SaveListing(w)
  <2>1. j.pc = "list_save" /\ inTx
    BY <1>6, <1>j DEF SaveListing, Running, j, InsideTx
  <2>2. CASE UNCHANGED connection /\ Become(w, At(j, "rollback"))
    BY <1>j, <1>t, <2>1, <2>2, LocalLands, AtPc, AtCall, BeforeStep DEF Before, j
  <2>3. ASSUME NEW l \in ListingIds, NEW row,
               Insert([tables EXCEPT !.listings[l] = row], l),
               Become(w, At(j, "commit"))
        PROVE  TallyAfter(w)
    <3> DEFINE r == [tables EXCEPT !.listings[l] = row]
    <3>1. Lands(w, At(j, "commit"), r, durable)
      BY <1>t, <1>j, <2>1, <2>3, BecomeMoves
         DEF Turn, WellTyped, Moved, Insert, Store, Lands
    <3>2. r.owner = tables.owner /\ r.progress = tables.progress
      BY <1>j DEF Tables
    <3> HIDE DEF r
    <3>3. /\ Debtors(j) = {} /\ j.call = 1 /\ j.kind = "list"
          /\ tables.owner = durable.owner /\ tables.progress = durable.progress
      BY <1>t, <2>1
         DEF Debtors, Owes, Tally, CallLabels, ListLabels, Before
    <3>4. Credits(durable, {})
      BY <1>t, <3>3 DEF Tally
    <3> DEFINE k == At(j, "commit")
    <3>5. k.pc = "commit" /\ k.call = 1 /\ k.kind = "list"
      BY <1>j, <3>3, AtPc, AtCall
    <3> HIDE DEF k
    <3>6. Debtors(k) = {}
      BY <3>5 DEF Debtors, Owes
    <3>7. Tally(k, r, durable)
      BY <3>2, <3>3, <3>4, <3>5, <3>6
         DEF Tally, OutsideTx, CallLabels, ListLabels, BuyLabels, Before, After
    <3> QED
      BY <3>1, <3>7 DEF Lands, TallyAfter, k
  <2> QED
    BY <1>6, <2>2, <2>3 DEF SaveListing, j
<1> QED
  BY <1>1, <1>2, <1>3, <1>4, <1>5, <1>6 DEF List

(* A step of a request that has given the item away. *)
LEMMA AfterStep ==
  ASSUME NEW w, Counting(w), job[w].pc \in After,
         NEW label \in After \cup {"commit"}, NEW r,
         Lands(w, At(job[w], label), r, durable),
         r.owner = tables.owner, r.progress = tables.progress
  PROVE  TallyAfter(w)
<1> DEFINE j == job[w]
<1>j. j \in Job
  BY TurnFacts DEF Counting
<1>1. /\ j.call = 1 /\ tables.progress = durable.progress
      /\ j.kind = "buy" /\ Owned(j, tables, durable)
  BY DEF Counting, Tally, After, CallLabels, BuyLabels
<1>2. Credits(durable, {})
  <2>1. Debtors(j) = {}
    BY DEF Debtors, Owes, After
  <2> QED
    BY <2>1 DEF Counting, Tally
<1> HIDE DEF j
<1>3. /\ At(j, label).pc = label /\ At(j, label).call = 1
      /\ At(j, label).kind = "buy" /\ Owned(At(j, label), r, durable)
  BY <1>j, <1>1, AtPc, AtCall, AtFields DEF Owned
<1>4. Tally(At(j, label), r, durable)
  BY <1>1, <1>2, <1>3, AfterTally
<1> QED
  BY <1>4 DEF Lands, TallyAfter, j

LEMMA SaleTally ==
  ASSUME ~Faults, NEW w, Counting(w), Buy(w)
  PROVE  TallyAfter(w)
<1> DEFINE j == job[w]
<1>t. Turn(w) /\ Tally(j, tables, durable)
  BY DEF Counting
<1>j. /\ w \in Workers /\ j \in Job
      /\ tables \in Tables /\ durable \in Tables
      /\ j.pc \in InsideTx => inTx
      /\ j.pc \in OutsideTx => ~inTx /\ tables = durable
  BY <1>t, TurnFacts
<1>l. /\ j.user \in Users /\ j.seller \in Users
      /\ j.item \in Items /\ j.listing \in ListingIds
  BY <1>j DEF Job
<1> HIDE DEF j
<1>1. CASE BuyFromMarket(w)
  <2>1. PICK u \in Users, l \in ListingIds :
          Become(w, [Idle EXCEPT !.pc = "buy_begin", !.user = u, !.listing = l,
                                 !.kind = "buy"])
    BY <1>1 DEF BuyFromMarket
  <2> DEFINE k == [Idle EXCEPT !.pc = "buy_begin", !.user = u, !.listing = l,
                               !.kind = "buy"]
  <2>2. k.pc = "buy_begin" /\ k.call = 1 /\ k.kind = "buy"
    BY DEF Idle
  <2>3. Lands(w, k, tables, durable)
    BY <1>1, <1>t, <2>1, LocalLands DEF BuyFromMarket
  <2>4. j.pc = "idle"
    BY <1>1 DEF BuyFromMarket, Request, j
  <2> HIDE DEF k
  <2>5. Debtors(j) = {} /\ Debtors(k) = {} /\ k.pc \in OutsideTx
    BY <2>2, <2>4 DEF Debtors, Owes, OutsideTx
  <2>6. Credits(durable, {}) /\ tables = durable
    BY <1>t, <1>j, <2>4, <2>5 DEF Tally, OutsideTx
  <2>7. Tally(k, durable, durable)
    BY <2>2, <2>5, <2>6, OutsideTally DEF ListLabels
  <2> QED
    BY <2>3, <2>6, <2>7 DEF Lands, TallyAfter
<1>2. CASE BuyBegin(w)
  <2>1. j.pc = "buy_begin"
    BY <1>2 DEF BuyBegin, BeginAt, Running, j
  <2>2. Debtors(j) = {} /\ j.call = 1 /\ j.kind = "buy" /\ tables = durable
    BY <1>t, <1>j, <2>1
       DEF Debtors, Owes, Tally, CallLabels, BuyLabels, OutsideTx
  <2>3. Lands(w, At(j, "find"), tables, durable)
    <3>1. "buy_begin" \in OutsideTx
      BY DEF OutsideTx
    <3> QED
      BY <1>2, <1>t, <3>1, BeginLands DEF BuyBegin, j
  <2>4. Credits(durable, {})
    BY <1>t, <2>2 DEF Tally
  <2>5. Tally(At(j, "find"), tables, durable)
    BY <1>j, <2>2, <2>4, AtPc, AtCall, BeforeTally DEF Before, ListLabels
  <2> QED
    BY <2>3, <2>5 DEF Lands, TallyAfter
<1>3. CASE FindListing(w)
  <2> DEFINE row == tables.listings[j.listing]
             k == [j EXCEPT !.pc = "mark", !.seller = row.seller,
                            !.item = row.item, !.price = row.price]
  <2>1. j.pc = "find"
    BY <1>3 DEF FindListing, Running, j
  <2>2. Lands(w, At(j, "rollback"), tables, durable) \/ Lands(w, k, tables, durable)
    BY <1>3, <1>t, LocalLands DEF FindListing, j
  <2>3. k.pc = "mark" /\ k.call = j.call /\ k.kind = j.kind
    BY <1>j DEF Job
  <2> HIDE DEF k
  <2> QED
    BY <1>j, <2>1, <2>2, <2>3, AtPc, AtCall, BeforeStep DEF Before, ListLabels, j
<1>4. CASE MarkSold(w)
  <2> DEFINE r == [tables EXCEPT !.listings[j.listing].state = "sold"]
  <2>1. j.pc = "mark" /\ inTx
    BY <1>4, <1>j DEF MarkSold, Running, j, InsideTx
  <2>2. Lands(w, At(j, "marked"), r, durable) \/ Lands(w, At(j, "marked"), tables, durable)
    BY <1>4, <1>t, <2>1, WriteLands DEF MarkSold, j
  <2>3. r.owner = tables.owner /\ r.progress = tables.progress
    BY <1>j DEF Tables
  <2> HIDE DEF r
  <2> QED
    BY <1>j, <2>1, <2>2, <2>3, AtPc, AtCall, BeforeStep DEF Before, ListLabels, j
<1>5. CASE BuyReadChanges(w)
  <2>1. j.pc = "marked"
    BY <1>5 DEF BuyReadChanges, Running, j
  <2>2. \/ Lands(w, At(j, "rollback"), tables, durable)
        \/ Lands(w, At(j, "buyer"), tables, durable)
    BY <1>5, <1>t, LocalLands DEF BuyReadChanges, j
  <2> QED
    BY <1>j, <2>1, <2>2, AtPc, AtCall, BeforeStep DEF Before, ListLabels, j
<1>6. CASE LoadBuyer(w)
  <2> DEFINE k == [j EXCEPT !.pc = "seller", !.balance = tables.balance[j.user]]
  <2>1. j.pc = "buyer"
    BY <1>6 DEF LoadBuyer, Running, j
  <2>2. Lands(w, At(j, "rollback"), tables, durable) \/ Lands(w, k, tables, durable)
    BY <1>6, <1>t, LocalLands DEF LoadBuyer, j
  <2>3. k.pc = "seller" /\ k.call = j.call /\ k.kind = j.kind
    BY <1>j DEF Job
  <2> HIDE DEF k
  <2> QED
    BY <1>j, <2>1, <2>2, <2>3, AtPc, AtCall, BeforeStep DEF Before, ListLabels, j
<1>7. CASE LoadSeller(w)
  <2> DEFINE k == [j EXCEPT !.pc = "pay_buyer",
                            !.seller_balance = tables.balance[j.seller]]
  <2>1. j.pc = "seller"
    BY <1>7 DEF LoadSeller, Running, j
  <2>2. Lands(w, k, tables, durable)
    BY <1>7, <1>t, LocalLands DEF LoadSeller, j
  <2>3. k.pc = "pay_buyer" /\ k.call = j.call /\ k.kind = j.kind
    BY <1>j DEF Job
  <2> HIDE DEF k
  <2> QED
    BY <1>j, <2>1, <2>2, <2>3, AtPc, AtCall, BeforeStep DEF Before, ListLabels, j
<1>8. CASE PayBuyer(w) \/ PaySeller(w)
  <2>1. j.pc \in {"pay_buyer", "pay_seller"} /\ inTx
    BY <1>8, <1>j DEF PayBuyer, PaySeller, Running, j, InsideTx
  <2>2. ASSUME NEW u, NEW n, NEW label \in {"pay_seller", "own"},
               Lands(w, At(j, label), [tables EXCEPT !.balance[u] = n], durable)
        PROVE  TallyAfter(w)
    <3> DEFINE r == [tables EXCEPT !.balance[u] = n]
    <3>1. r.owner = tables.owner /\ r.progress = tables.progress
      BY <1>j DEF Tables
    <3> HIDE DEF r
    <3> QED
      BY <1>j, <2>1, <2>2, <3>1, AtPc, AtCall, BeforeStep
         DEF Before, ListLabels, j, r
  <2>3. CASE PayBuyer(w)
    <3>1. Lands(w, At(j, "pay_seller"),
                [tables EXCEPT !.balance[j.user] = j.balance - j.price], durable)
      BY <1>t, <2>1, <2>3, WriteLands DEF PayBuyer, Pay, j
    <3> QED
      BY <2>2, <3>1
  <2>4. CASE PaySeller(w)
    <3>1. Lands(w, At(j, "own"),
                [tables EXCEPT !.balance[j.seller] =
                   j.seller_balance + Payout(j.price)], durable)
      BY <1>t, <2>1, <2>4, WriteLands DEF PaySeller, Pay, j
    <3> QED
      BY <2>2, <3>1
  <2> QED
    BY <1>8, <2>3, <2>4
<1>9. CASE BuyUpdateOwner(w)
  <2> DEFINE r == [tables EXCEPT !.owner[j.item] = j.user]
  <2>1. j.pc = "own" /\ inTx
    BY <1>9, <1>j DEF BuyUpdateOwner, Running, j, InsideTx
  <2>2. Lands(w, At(j, "take"), r, durable)
    BY <1>9, <1>t, <2>1, WriteLands DEF BuyUpdateOwner, j
  <2>3. /\ r.owner = [tables.owner EXCEPT ![j.item] = j.user]
        /\ r.progress = tables.progress
    BY <1>j DEF Tables
  <2>4. /\ Debtors(j) = {} /\ j.call = 1 /\ j.kind = "buy"
        /\ tables.owner = durable.owner /\ tables.progress = durable.progress
    BY <1>t, <2>1
       DEF Debtors, Owes, Tally, CallLabels, BuyLabels, Before, ListLabels
  <2>5. Credits(durable, {})
    BY <1>t, <2>4 DEF Tally
  <2> HIDE DEF r
  <2>6. Owned(At(j, "take"), r, durable)
    BY <1>j, <2>3, <2>4, AtFields DEF Owned
  <2>7. Tally(At(j, "take"), r, durable)
    BY <1>j, <2>3, <2>4, <2>5, <2>6, AtPc, AtCall, AfterTally DEF After
  <2> QED
    BY <2>2, <2>7 DEF Lands, TallyAfter
<1>10. CASE BuyRemoveFromInventory(w) \/ BuyAddToInventory(w)
  <2>1. j.pc \in {"take", "give"} /\ inTx
    BY <1>10, <1>j DEF BuyRemoveFromInventory, BuyAddToInventory, Running, j, InsideTx
  <2>2. CASE BuyRemoveFromInventory(w)
    <3>1. PICK r : /\ r.owner = tables.owner /\ r.progress = tables.progress
                   /\ Lands(w, At(j, "give"), r, durable)
      BY <1>t, <2>1, <2>2, ItemLands DEF BuyRemoveFromInventory, j
    <3> QED
      BY <2>1, <3>1, AfterStep DEF After, j
  <2>3. CASE BuyAddToInventory(w)
    <3>1. PICK r : /\ r.owner = tables.owner /\ r.progress = tables.progress
                   /\ Lands(w, At(j, "lock"), r, durable)
      BY <1>t, <2>1, <2>3, ItemLands DEF BuyAddToInventory, j
    <3> QED
      BY <2>1, <3>1, AfterStep DEF After, j
  <2> QED
    BY <1>10, <2>2, <2>3
<1>11. CASE BuyApplyTradeLock(w) \/ SavePriceHistory(w)
  <2>1. j.pc \in {"lock", "history"} /\ inTx
    BY <1>11, <1>j DEF BuyApplyTradeLock, SavePriceHistory, Running, j, InsideTx
  <2>2. PICK label \in {"history", "commit"} : Lands(w, At(j, label), tables, durable)
    BY <1>11, <1>t, <2>1, WriteLands DEF BuyApplyTradeLock, SavePriceHistory, j
  <2> QED
    BY <2>1, <2>2, AfterStep DEF After, j
<1>12. CASE BuyLogTransactions(w)
  <2> DEFINE k == At(j, "call")
  <2>1. j.pc = "log" /\ ~inTx /\ tables = durable
    BY <1>12, <1>j DEF BuyLogTransactions, Running, j, OutsideTx
  <2>2. Lands(w, k, durable, durable)
    BY <1>12, <1>t, <2>1, WriteLands DEF BuyLogTransactions, j
  <2>3. j.call = 1 /\ Credits(durable, {j.user})
    BY <1>t, <2>1 DEF Tally, CallLabels, Debtors, Owes
  <2>4. k.pc = "call" /\ k.call = 1 /\ k.user = j.user
    BY <1>j, <2>3, AtPc, AtCall, AtFields
  <2> HIDE DEF k
  <2>5. Debtors(k) = {j.user}
    BY <2>4 DEF Debtors, Owes
  <2>6. Tally(k, durable, durable)
    BY <2>3, <2>4, <2>5, OutsideTally
       DEF OutsideTx, ListLabels, BuyLabels, Before, After
  <2> QED
    BY <2>2, <2>6 DEF Lands, TallyAfter
<1> QED
  BY <1>1, <1>2, <1>3, <1>4, <1>5, <1>6, <1>7, <1>8, <1>9, <1>10, <1>11, <1>12
     DEF Buy

LEMMA FollowUpTally ==
  ASSUME ~Faults, NEW w, Counting(w), FollowUp(w)
  PROVE  TallyAfter(w)
<1> DEFINE j == job[w]
<1>t. Turn(w) /\ Tally(j, tables, durable)
  BY DEF Counting
<1>j. /\ w \in Workers /\ j \in Job
      /\ tables \in Tables /\ durable \in Tables
      /\ j.pc \in InsideTx => inTx
      /\ j.pc \in OutsideTx => ~inTx /\ tables = durable
  BY <1>t, TurnFacts
<1>l. j.user \in Users /\ j.call \in 1 .. 4 /\ j.progress \in Nat
  BY <1>j DEF Job
<1>c. Credits(durable, IF j.call = 1 /\ j.pc # "call_rollback" THEN {j.user} ELSE {})
  <2>1. j.pc \in CallLabels
    BY DEF FollowUp, CallBegin, BeginAt, CallLoad, CallWrite, CallCommit,
       CallRollback, UpdateChallenges, Running, CallLabels
  <2> QED
    BY <1>t, <2>1 DEF Tally, Debtors, Owes, CallLabels
<1> HIDE DEF j
<1>1. CASE CallBegin(w)
  <2> DEFINE k == At(j, "call_load")
  <2>1. j.pc = "call" /\ tables = durable
    BY <1>1, <1>j DEF CallBegin, BeginAt, Running, OutsideTx, j
  <2>2. Lands(w, k, durable, durable)
    <3>1. "call" \in OutsideTx
      BY DEF OutsideTx
    <3> QED
      BY <1>1, <1>t, <2>1, <3>1, BeginLands DEF CallBegin, j
  <2>3. k.pc = "call_load" /\ k.call = j.call /\ k.user = j.user
    BY <1>j, AtPc, AtCall, AtFields
  <2> HIDE DEF k
  <2>4. Credits(durable, Debtors(k))
    BY <1>c, <2>1, <2>3 DEF Debtors, Owes
  <2>5. Tally(k, durable, durable)
    BY <2>3, <2>4
       DEF Tally, OutsideTx, CallLabels, ListLabels, BuyLabels, Before, After
  <2> QED
    BY <2>2, <2>5 DEF Lands, TallyAfter
<1>2. CASE CallLoad(w)
  <2> DEFINE has == tables.progress[Subject(j)][QuestOf(j)]
             k == [j EXCEPT !.pc = "call_write", !.progress = has + Increment(j)]
  <2>1. /\ j.pc = "call_load"
        /\ tables.owner = durable.owner /\ tables.progress = durable.progress
    BY <1>2, <1>t DEF CallLoad, Running, Tally, j
  <2>2. j.call = 1 => has = Explored(durable, j.user) /\ Increment(j) = 1
    BY <2>1 DEF Subject, QuestOf, Increment, Explored
  <2>3. \/ has >= QuestTarget /\ Lands(w, At(j, "call_rollback"), tables, durable)
        \/ Lands(w, k, tables, durable)
    BY <1>2, <1>t, LocalLands DEF CallLoad, j
  <2>4. /\ k.pc = "call_write" /\ k.call = j.call /\ k.user = j.user
        /\ k.progress = has + Increment(j)
    BY <1>j DEF Job
  <2> HIDE DEF k
  <2>5. Tally(k, tables, durable)
    <3>1. Credits(durable, Debtors(k))
      BY <1>c, <2>1, <2>4 DEF Debtors, Owes
    <3>2. k.call = 1 => k.progress = Explored(durable, k.user) + 1
      BY <2>2, <2>4
    <3> QED
      BY <2>1, <2>4, <3>1, <3>2
         DEF Tally, OutsideTx, CallLabels, ListLabels, BuyLabels, Before, After
  <2>6. ASSUME has >= QuestTarget PROVE Tally(At(j, "call_rollback"), tables, durable)
    <3>1. Credits(durable, {})
      <4> HIDE DEF has
      <4> QED
        BY <1>c, <2>1, <2>2, <2>6, CreditsComplete
    <3> QED
      BY <1>j, <3>1, AtPc, AbortTally
  <2> HIDE DEF has
  <2> QED
    BY <2>3, <2>5, <2>6 DEF Lands, TallyAfter
<1>3. CASE CallWrite(w)
  <2> DEFINE r == [tables EXCEPT !.progress[Subject(j)][QuestOf(j)] = j.progress]
             k == At(j, "call_commit")
  <2>1. j.pc = "call_write" /\ inTx
    BY <1>3, <1>j DEF CallWrite, Running, j, InsideTx
  <2>2. /\ tables.owner = durable.owner /\ tables.progress = durable.progress
        /\ j.call = 1 => j.progress = Explored(durable, j.user) + 1
    BY <1>t, <2>1 DEF Tally
  <2>3. Lands(w, k, r, durable)
    BY <1>3, <1>t, <2>1, WriteLands DEF CallWrite, j
  <2>4. r.owner = durable.owner
    BY <1>j, <2>2 DEF Tables
  <2>5. \A u \in Users : Explored(r, u) =
          IF j.call = 1 /\ u = j.user THEN Explored(durable, u) + 1
          ELSE Explored(durable, u)
    <3>1. Subject(j) \in Users /\ QuestOf(j) \in Quests
      BY <1>j, CallOfJob
    <3>2. r.progress = [tables.progress EXCEPT ![Subject(j)][QuestOf(j)] = j.progress]
      BY <1>j DEF Tables
    <3>3. durable.progress \in [Users -> [Quests -> Nat]]
      BY <1>j DEF Tables
    <3> HIDE DEF r
    <3>4. CASE j.call = 1
      <4>1. Subject(j) = j.user /\ QuestOf(j) = "market_explorer"
        BY <3>4 DEF Subject, QuestOf
      <4> QED
        BY <1>l, <2>2, <3>1, <3>2, <3>3, <3>4, <4>1 DEF Explored
    <3>5. CASE j.call # 1
      <4>1. QuestOf(j) = "profit_maker"
        BY <3>5 DEF QuestOf
      <4>2. \A u \in Users : Explored(r, u) = Explored(durable, u)
        BY <2>2, <3>1, <3>2, <3>3, <4>1 DEF Explored
      <4> QED
        BY <3>5, <4>2
    <3> QED
      BY <3>4, <3>5
  <2>6. k.pc = "call_commit" /\ k.call = j.call /\ k.user = j.user
    BY <1>j, AtPc, AtCall, AtFields
  <2> HIDE DEF r, k
  <2>7. Credits(durable, Debtors(k))
    BY <1>c, <2>1, <2>6 DEF Debtors, Owes
  <2>8. Tally(k, r, durable)
    BY <2>4, <2>5, <2>6, <2>7
       DEF Tally, OutsideTx, CallLabels, ListLabels, BuyLabels, Before, After
  <2> QED
    BY <2>3, <2>8 DEF Lands, TallyAfter
<1>4. CASE CallCommit(w)
  <2>1. j.pc = "call_commit" /\ j.pc \in InsideTx
    BY <1>4 DEF CallCommit, Running, j, InsideTx
  <2>2. Lands(w, NextCall(j), tables, tables)
    BY <1>4, <1>t, <2>1, CommitLands DEF CallCommit, j
  <2>3. /\ tables.owner = durable.owner
        /\ \A u \in Users : Explored(tables, u) =
             IF j.call = 1 /\ u = j.user THEN Explored(durable, u) + 1
             ELSE Explored(durable, u)
    BY <1>t, <2>1 DEF Tally
  <2>4. Credits(tables, {})
    <3>1. CASE j.call = 1
      BY <1>c, <1>j, <1>l, <2>1, <2>3, <3>1, CreditsPaid
    <3>2. CASE j.call # 1
      BY <1>c, <2>3, <3>2, CreditsSame
    <3> QED
      BY <3>1, <3>2
  <2> QED
    BY <1>j, <2>2, <2>4, NextCallTally DEF Lands, TallyAfter
<1>5. CASE CallRollback(w)
  <2>1. j.pc = "call_rollback" /\ j.pc \in InsideTx
    BY <1>5 DEF CallRollback, Running, j, InsideTx
  <2>2. Lands(w, NextCall(j), durable, durable)
    BY <1>5, <1>t, <2>1, RollbackLands DEF CallRollback, j
  <2> QED
    BY <1>c, <1>j, <2>1, <2>2, NextCallTally DEF Lands, TallyAfter
<1>6. CASE UpdateChallenges(w)
  <2>1. tables = durable /\ ~inTx /\ j.call # 1
    BY <1>6, <1>j DEF UpdateChallenges, Running, j, OutsideTx
  <2>2. Become(w, NextCall(j)) /\ (UNCHANGED connection \/ Store(tables))
    BY <1>6 DEF UpdateChallenges, Update, j
  <2>3. Lands(w, NextCall(j), durable, durable)
    BY <1>t, <2>1, <2>2, BecomeMoves
       DEF Turn, WellTyped, Store, connection, Moved, Lands
  <2> QED
    BY <1>c, <1>j, <2>1, <2>3, NextCallTally DEF Lands, TallyAfter
<1> QED
  BY <1>1, <1>2, <1>3, <1>4, <1>5, <1>6 DEF FollowUp

(* A removal touches no owner and no quest. *)
LEMMA RemoveTally ==
  ASSUME ~Faults, NEW w, Counting(w), Remove(w)
  PROVE  TallyAfter(w)
<1> DEFINE j == job[w]
<1>t. Turn(w) /\ Tally(j, tables, durable)
  BY DEF Counting
<1>j. /\ w \in Workers /\ j \in Job
      /\ tables \in Tables /\ durable \in Tables
      /\ j.pc \in OutsideTx => ~inTx /\ tables = durable
  BY <1>t, TurnFacts
<1>p. j.pc \in Removing \cup {"idle"}
  BY DEF Remove, RemoveListing, Request, RemoveLoadSeller, RemoveRefund,
     RemoveReturnItem, RemoveDelete, Running, Removing
<1>s. /\ ~inTx /\ tables = durable /\ j.call = 1
      /\ Credits(durable, {})
  <2>1. Debtors(j) = {} /\ j.pc \in OutsideTx
    BY <1>p DEF Debtors, Owes, Removing, OutsideTx
  <2> QED
    BY <1>t, <1>j, <1>p, <2>1 DEF Tally, CallLabels, Removing
<1> HIDE DEF j
<1>0. SUFFICES \E k, r : /\ Lands(w, k, r, r) /\ k.call = 1
                         /\ k.pc \in Removing \cup {"idle"}
                         /\ r.owner = durable.owner /\ r.progress = durable.progress
  <2>1. ASSUME NEW k, NEW r, Lands(w, k, r, r), k.call = 1,
               k.pc \in Removing \cup {"idle"},
               r.owner = durable.owner, r.progress = durable.progress
        PROVE  TallyAfter(w)
    <3>1. Debtors(k) = {} /\ k.pc \in OutsideTx
      BY <2>1 DEF Debtors, Owes, Removing, OutsideTx
    <3>2. Credits(r, {})
      BY <1>s, <2>1, CreditsSame DEF Explored
    <3>3. Tally(k, r, r)
      BY <2>1, <3>1, <3>2, OutsideTally
         DEF Removing, ListLabels, BuyLabels, Before, After
    <3> QED
      BY <2>1, <3>3 DEF Lands, TallyAfter
  <2> QED
    BY <2>1
<1>1. CASE RemoveListing(w)
  <2>1. PICK l \in ListingIds :
          Become(w, [Idle EXCEPT !.pc = "remove_load",
                                 !.user = tables.listings[l].seller,
                                 !.item = tables.listings[l].item,
                                 !.listing = l, !.kind = "remove"])
    BY <1>1 DEF RemoveListing
  <2> DEFINE k == [Idle EXCEPT !.pc = "remove_load",
                               !.user = tables.listings[l].seller,
                               !.item = tables.listings[l].item,
                               !.listing = l, !.kind = "remove"]
  <2>2. k.pc = "remove_load" /\ k.call = 1
    BY DEF Idle
  <2>3. Lands(w, k, durable, durable)
    BY <1>1, <1>t, <1>s, <2>1, LocalLands DEF RemoveListing
  <2> HIDE DEF k
  <2> QED
    BY <2>2, <2>3 DEF Removing
<1>2. CASE RemoveLoadSeller(w)
  <2> DEFINE k == [j EXCEPT !.pc = "refund", !.balance = tables.balance[j.user]]
  <2>1. Lands(w, k, durable, durable)
    BY <1>2, <1>t, <1>s, LocalLands DEF RemoveLoadSeller, j
  <2>2. k.pc = "refund" /\ k.call = 1
    BY <1>j, <1>s DEF Job
  <2> HIDE DEF k
  <2> QED
    BY <2>1, <2>2 DEF Removing
<1>3. CASE RemoveRefund(w)
  <2> DEFINE r == [tables EXCEPT !.balance[j.user] = j.balance + LISTING_FEE]
             k == At(j, "return")
  <2>1. Lands(w, k, r, r)
    BY <1>3, <1>t, <1>s, WriteLands DEF RemoveRefund, Pay, j
  <2>2. r.owner = durable.owner /\ r.progress = durable.progress
    BY <1>j, <1>s DEF Tables
  <2>3. k.pc = "return" /\ k.call = 1
    BY <1>j, <1>s, AtPc, AtCall
  <2> HIDE DEF k, r
  <2> QED
    BY <2>1, <2>2, <2>3 DEF Removing
<1>4. CASE RemoveReturnItem(w)
  <2> DEFINE k == At(j, "delete")
  <2>1. PICK r : /\ r.owner = tables.owner /\ r.progress = tables.progress
                 /\ Lands(w, k, r, r)
    BY <1>4, <1>t, <1>s, ItemLands DEF RemoveReturnItem, j
  <2>2. k.pc = "delete" /\ k.call = 1
    BY <1>j, <1>s, AtPc, AtCall
  <2> HIDE DEF k
  <2> QED
    BY <1>s, <2>1, <2>2 DEF Removing
<1>5. CASE RemoveDelete(w)
  <2> DEFINE r == [tables EXCEPT !.listings[j.listing].state = "removed"]
  <2>1. Lands(w, Idle, r, r) \/ Lands(w, Idle, durable, durable)
    BY <1>5, <1>t, <1>s, WriteLands DEF RemoveDelete, j
  <2>2. r.owner = durable.owner /\ r.progress = durable.progress
    BY <1>j, <1>s DEF Tables
  <2>3. Idle.pc = "idle" /\ Idle.call = 1
    BY DEF Idle
  <2> HIDE DEF r
  <2> QED
    BY <2>1, <2>2, <2>3
<1> QED
  BY <1>1, <1>2, <1>3, <1>4, <1>5 DEF Remove

LEMMA EndTally ==
  ASSUME ~Faults, NEW w, Counting(w),
         CommitTransaction(w) \/ RollbackTransaction(w)
  PROVE  TallyAfter(w)
<1> DEFINE j == job[w]
<1>t. Turn(w) /\ Tally(j, tables, durable)
  BY DEF Counting
<1>j. j \in Job /\ j.item \in Items /\ j.user \in Users /\ durable \in Tables
  BY <1>t, TurnFacts DEF Job
<1>p. j.pc \in InsideTx /\ j.pc \in {"commit", "rollback"}
  BY DEF CommitTransaction, RollbackTransaction, Running, InsideTx
<1>d. Credits(durable, {}) /\ j.call = 1
  <2>1. Debtors(j) = {}
    BY <1>p DEF Debtors, Owes
  <2> QED
    BY <1>t, <1>p, <2>1 DEF Tally, CallLabels
<1> HIDE DEF j
<1>1. CASE RollbackTransaction(w)
  <2>1. Lands(w, Idle, durable, durable)
    BY <1>1, <1>t, <1>p, RollbackLands DEF RollbackTransaction, j
  <2> QED
    BY <1>d, <2>1, IdleTally DEF Lands, TallyAfter
<1>2. CASE CommitTransaction(w)
  <2>1. j.pc = "commit"
    BY <1>2 DEF CommitTransaction, Running, j
  <2>2. Lands(w, IF j.kind = "list" THEN Idle ELSE At(j, "log"), tables, tables)
    BY <1>2, <1>t, <1>p, CommitLands DEF CommitTransaction, j
  <2>3. j.kind \in {"list", "buy"}
    BY <1>t, <2>1 DEF Tally
  <2>4. CASE j.kind = "list"
    <3>1. Credits(tables, {})
      BY <1>t, <1>d, <2>1, <2>4, CreditsSame DEF Tally, Explored
    <3> QED
      BY <2>2, <2>4, <3>1, IdleTally DEF Lands, TallyAfter
  <2>5. CASE j.kind = "buy"
    <3> DEFINE k == At(j, "log")
    <3>1. Credits(tables, {j.user})
      BY <1>t, <1>d, <1>j, <2>1, <2>5, CreditsOwed DEF Tally, Owned
    <3>2. k.pc = "log" /\ k.call = 1 /\ k.user = j.user
      BY <1>j, <1>d, AtPc, AtCall, AtFields
    <3>3. Lands(w, k, tables, tables)
      BY <2>2, <2>5
    <3> HIDE DEF k
    <3>4. Debtors(k) = {j.user}
      BY <3>2 DEF Debtors, Owes
    <3>5. Tally(k, tables, tables)
      BY <3>1, <3>2, <3>4, OutsideTally
         DEF OutsideTx, ListLabels, BuyLabels, Before, After
    <3> QED
      BY <3>3, <3>5 DEF Lands, TallyAfter
  <2> QED
    BY <2>3, <2>4, <2>5
<1> QED
  BY <1>1, <1>2

(* The inductive invariant, beside TypeOK and TransactionsExclusive. *)
TallyInv ==
  /\ \A w \in Workers : job[w].pc = "idle" => job[w].call = 1
  /\ \A w \in Workers : Alone(w) => Tally(job[w], tables, durable)

LEMMA TallyStep ==
  ASSUME ~Faults, ~Crashes, TypeOK, TransactionsExclusive, TallyInv,
         Serial, Serial', [Next]_vars
  PROVE  TallyInv'
<1>0. WellTyped
  BY DEF TypeOK, WellTyped, ConnectionType, JobsType
<1>1. ASSUME NEW w \in Workers, Handler(w) PROVE TallyInv'
  <2>1. Alone(w) /\ \A v \in Workers \ {w} : job'[v] = job[v]
    BY <1>0, <1>1, StepperAlone
  <2>2. Counting(w)
    BY <1>0, <2>1 DEF TallyInv, Counting, Turn, Tally
  <2>3. Tally(job'[w], tables', durable')
    BY <1>1, <2>2, ListTally, SaleTally, FollowUpTally, RemoveTally, EndTally
       DEF Handler, TallyAfter
  <2>4. ASSUME NEW v \in Workers, v # w, Alone(v)'
        PROVE  Tally(job'[v], tables', durable')
    <3>1. job'[w].pc = "idle" /\ job'[v].pc = "idle"
      BY <2>1, <2>4 DEF Alone
    <3>2. Debtors(job'[w]) = {} /\ Debtors(job'[v]) = {}
      BY <3>1 DEF Debtors, Owes
    <3>3. Credits(durable', {}) /\ tables' = durable'
      BY <2>3, <3>1, <3>2 DEF Tally, OutsideTx
    <3>4. job'[v].call = 1
      BY <2>1, <2>4, <3>1 DEF TallyInv
    <3> QED
      BY <3>1, <3>2, <3>3, <3>4, OutsideTally
         DEF OutsideTx, ListLabels, BuyLabels, Before, After
  <2>5. \A v \in Workers : job'[v].pc = "idle" => job'[v].call = 1
    BY <2>1, <2>3 DEF TallyInv, Tally, CallLabels
  <2> QED
    BY <2>3, <2>4, <2>5 DEF TallyInv
<1>2. ~Crash
  BY DEF Crash
<1>3. CASE UNCHANGED vars
  BY <1>3 DEF vars, connection, TallyInv, Alone
<1> QED
  BY <1>1, <1>2, <1>3 DEF Next, Handler

(* Every item that a user has bought and still has counts in his quest,    *)
(* until it is complete: between requests that do not overlap, when no     *)
(* statement fails and nothing is killed.                                  *)
THEOREM MarketCountsPurchases ==
  ASSUME ~Faults, ~Crashes
  PROVE  Spec /\ []Serial => []PurchasesCount
<1>1. Init => TallyInv
  <2> SUFFICES ASSUME Init PROVE TallyInv
    OBVIOUS
  <2>1. tables = OpeningRows /\ durable = OpeningRows
    BY DEF Init, ConnectionInit
  <2>2. \A w \in Workers : job[w] = Idle
    BY DEF Init
  <2>3. Credits(OpeningRows, {})
    <3> SUFFICES ASSUME NEW u \in Users PROVE Credited(OpeningRows, u, 0)
      BY DEF Credits
    <3>1. Bought(OpeningRows, u) = {} /\ Explored(OpeningRows, u) = 0
      BY DEF Bought, OpeningRows, Explored, Quests
    <3>2. Cardinality(Bought(OpeningRows, u)) = 0
      BY <3>1, FS_EmptySet
    <3> QED
      BY <3>1, <3>2 DEF Credited
  <2>4. Idle.call = 1
    BY DEF Idle
  <2> QED
    BY <2>1, <2>2, <2>3, <2>4, IdleTally DEF TallyInv
<1>2. TypeOK /\ TransactionsExclusive /\ TallyInv /\ Serial /\ Serial' /\ [Next]_vars
        => TallyInv'
  BY TallyStep
<1>3. TypeOK /\ TallyInv => PurchasesCount
  <2> SUFFICES ASSUME TypeOK, TallyInv, \A w \in Workers : job[w].pc = "idle",
                      NEW u \in Users
               PROVE  \/ Explored(durable, u) >= QuestTarget
                      \/ Explored(durable, u) >= Cardinality(Bought(durable, u))
    BY DEF PurchasesCount, Explored
  <2>1. PICK w \in Workers : Alone(w)
    BY MarketAssumption DEF Alone
  <2>2. Credits(durable, {})
    <3>1. Debtors(job[w]) = {}
      BY DEF Debtors, Owes
    <3> QED
      BY <2>1, <3>1 DEF TallyInv, Tally
  <2>3. Explored(durable, u) \in Nat
    BY ExploredNat DEF TypeOK
  <2> QED
    BY <2>2, <2>3, BoughtFinite DEF Credits, Credited
<1> QED
  BY <1>1, <1>2, <1>3, TypeCorrect, MarketTransactions, PTL DEF Spec
=============================================================================
