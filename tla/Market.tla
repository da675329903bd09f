------------------------------- MODULE Market -------------------------------
(***************************************************************************)
(* The market (market.c) as the worker threads execute it: one action per  *)
(* SQL statement on the shared connection.  Money is in units of the       *)
(* listing fee, and prices are such that the market's fee is whole.        *)
(***************************************************************************)
EXTENDS Connection, Sums

CONSTANTS
  Workers,       \* the threads of the pool
  Users,         \* registered accounts
  Items,         \* skin instances
  MaxListings,   \* bound on the rows of market_listings_v2
  MaxRequests,   \* bound on the requests the workers take
  Kinds,         \* the requests clients make: "list", "buy", "remove"
  Prices,        \* the prices they ask
  Opening,       \* the listings the server starts with
  Holder,        \* the owner of each item at the start
  Purse,         \* the balance of each user at the start
  QuestTarget,   \* progress at which a quest is completed
  Crashes        \* TRUE iff the process may be killed

ListingIds == 1 .. MaxListings

LISTING_FEE == 1
Fee(price) == (15 * price) \div 100

(* A row that is not there has state "none" before AUTOINCREMENT reaches   *)
(* it and "removed" after db_remove_listing_v2.                            *)
ListingStates == {"none", "active", "sold", "removed"}
Listing == [seller : Users, item : Items, price : Nat, state : ListingStates]

NoListing == [seller |-> CHOOSE u \in Users : TRUE,
              item |-> CHOOSE i \in Items : TRUE,
              price |-> 0, state |-> "none"]

ASSUME MarketAssumption ==
  /\ Workers # {}
  /\ Users # {} /\ IsFiniteSet(Users)
  /\ Items # {} /\ IsFiniteSet(Items)
  /\ MaxListings \in Nat \ {0}
  /\ MaxRequests \in Nat
  /\ Kinds \subseteq {"list", "buy", "remove"}
  /\ Prices \subseteq Nat \ {0}
  /\ Opening \in [ListingIds -> Listing]
  /\ Holder \in [Items -> Users]
  /\ Purse \in [Users -> Nat]
  /\ QuestTarget \in Nat \ {0}
  /\ Crashes \in BOOLEAN

Quests == {"market_explorer", "profit_maker"}

VARIABLES
  job,       \* what each worker executes: the locals of the handler it is in
  requests   \* requests taken so far

vars == <<connection, job, requests>>

-----------------------------------------------------------------------------
OutsideTx == {"idle", "list_funds", "list_begin", "buy_begin", "log", "call",
              "remove_load", "refund", "return", "delete"}
InsideTx == {"list_fee", "list_take", "list_save", "find", "mark", "marked",
             "buyer", "seller", "pay_buyer", "pay_seller", "own", "take",
             "give", "lock", "history", "commit", "rollback",
             "call_load", "call_write", "call_commit", "call_rollback"}

(* Locals: user_id, listing_id, the columns seller_id, instance_id and     *)
(* price read or given, the balances of the User structs, the follow-up    *)
(* reached and the progress it has read; then what follows the COMMIT.     *)
Job == [pc : OutsideTx \cup InsideTx, user : Users, listing : ListingIds,
        seller : Users, item : Items, price : Nat,
        balance : Int, seller_balance : Int, call : 1 .. 4, progress : Nat,
        kind : {"list", "buy", "remove"}]

Idle == [pc |-> "idle", user |-> CHOOSE u \in Users : TRUE, listing |-> 1,
         seller |-> CHOOSE u \in Users : TRUE, item |-> CHOOSE i \in Items : TRUE,
         price |-> 0, balance |-> 0, seller_balance |-> 0, call |-> 1,
         progress |-> 0, kind |-> "list"]

Become(w, j) == job' = [job EXCEPT ![w] = j]
At(j, label) == [j EXCEPT !.pc = label]
Running(w, label) == job[w].pc = label /\ UNCHANGED requests

(* A request that a worker takes from the queue. *)
Request(w, kind) ==
  /\ job[w].pc = "idle"
  /\ kind \in Kinds
  /\ requests < MaxRequests
  /\ requests' = requests + 1

(* A statement that writes rows, touching n of them, and a handler that    *)
(* goes on at next, or at failed when the statement fails.                 *)
Write(w, rows, n, next, failed) ==
  \E ok \in Outcomes :
    IF ok THEN Update(rows, n) /\ Become(w, next)
          ELSE UNCHANGED connection /\ Become(w, failed)

(* The same for an INSERT of a row whose id nobody uses. *)
WriteNew(w, rows, next, failed) ==
  \E ok \in Outcomes :
    IF ok THEN Insert(rows, OtherRow) /\ Become(w, next)
          ELSE UNCHANGED connection /\ Become(w, failed)

(* INSERT OR IGNORE INTO inventories. *)
Give(w, u, i, next, failed) ==
  IF <<u, i>> \in tables.inventory
  THEN Write(w, tables, 0, next, failed)
  ELSE WriteNew(w, [tables EXCEPT !.inventory = @ \cup {<<u, i>>}], next, failed)

(* DELETE FROM inventories: without the row it succeeds all the same. *)
Take(w, u, i, next, failed) ==
  Write(w, [tables EXCEPT !.inventory = @ \ {<<u, i>>}],
        IF <<u, i>> \in tables.inventory THEN 1 ELSE 0, next, failed)

(* db_update_user writes the absolute balance of the struct. *)
Pay(w, u, amount, next, failed) ==
  Write(w, [tables EXCEPT !.balance[u] = amount], 1, next, failed)

BeginAt(w, label, next, refused) ==
  /\ Running(w, label)
  /\ \/ Begin /\ Become(w, next)
     \/ BeginRefused /\ Become(w, refused)

-----------------------------------------------------------------------------
(* list_skin_on_market.  A request that is refused by its first reads      *)
(* changes nothing and is left out, here and in remove_listing.  Neither   *)
(* an active listing of the item nor its absence from the inventory stops  *)
(* this one.  Items in a pending trade are refused; trades are not in this *)
(* module.                                                                 *)

ListSkinOnMarket(w) ==
  /\ Request(w, "list")
  /\ \E i \in Items, p \in Prices :
       Become(w, [Idle EXCEPT !.pc = "list_funds", !.user = tables.owner[i],
                              !.item = i, !.price = p])
  /\ UNCHANGED connection

ListLoadUser(w) ==
  /\ Running(w, "list_funds")
  /\ LET has == tables.balance[job[w].user] IN
     Become(w, IF has < LISTING_FEE THEN Idle
               ELSE [job[w] EXCEPT !.pc = "list_begin", !.balance = has])
  /\ UNCHANGED connection

ListBegin(w) == BeginAt(w, "list_begin", At(job[w], "list_fee"), Idle)

ListDeductFee(w) ==
  /\ Running(w, "list_fee")
  /\ Pay(w, job[w].user, job[w].balance - LISTING_FEE, At(job[w], "list_take"),
         At(job[w], "rollback"))

ListRemoveFromInventory(w) ==
  /\ Running(w, "list_take")
  /\ Take(w, job[w].user, job[w].item, At(job[w], "list_save"),
          At(job[w], "rollback"))

(* The INSERT fails once the bound MaxListings is reached. *)
SaveListing(w) ==
  /\ Running(w, "list_save")
  /\ \/ \E l \in ListingIds :
          /\ tables.listings[l].state = "none"
          /\ \A k \in ListingIds : tables.listings[k].state = "none" => l <= k
          /\ Insert([tables EXCEPT !.listings[l] =
                       [seller |-> job[w].user, item |-> job[w].item,
                        price |-> job[w].price, state |-> "active"]], l)
          /\ Become(w, At(job[w], "commit"))
     \/ /\ Faults \/ \A l \in ListingIds : tables.listings[l].state # "none"
        /\ UNCHANGED connection
        /\ Become(w, At(job[w], "rollback"))

-----------------------------------------------------------------------------
(* buy_from_market *)

BuyFromMarket(w) ==
  /\ Request(w, "buy")
  /\ \E u \in Users, l \in ListingIds :
       Become(w, [Idle EXCEPT !.pc = "buy_begin", !.user = u, !.listing = l,
                              !.kind = "buy"])
  /\ UNCHANGED connection

BuyBegin(w) == BeginAt(w, "buy_begin", At(job[w], "find"), Idle)

(* db_atomic_mark_listing_sold: the SELECT, ... *)
FindListing(w) ==
  /\ Running(w, "find")
  /\ LET row == tables.listings[job[w].listing] IN
     Become(w, IF row.state # "active" THEN At(job[w], "rollback")
               ELSE [job[w] EXCEPT !.pc = "mark", !.seller = row.seller,
                                   !.item = row.item, !.price = row.price])
  /\ UNCHANGED connection

(* ... the UPDATE WHERE is_sold = 0 ... *)
MarkSold(w) ==
  /\ Running(w, "mark")
  /\ LET l == job[w].listing IN
     IF tables.listings[l].state = "active"
     THEN Write(w, [tables EXCEPT !.listings[l].state = "sold"], 1,
                At(job[w], "marked"), At(job[w], "rollback"))
     ELSE Write(w, tables, 0, At(job[w], "marked"), At(job[w], "rollback"))

(* ... and the number of rows it touched; then the buyer's own listing.    *)
BuyReadChanges(w) ==
  /\ Running(w, "marked")
  /\ Become(w, At(job[w], IF changes = 0 \/ job[w].seller = job[w].user
                          THEN "rollback" ELSE "buyer"))
  /\ UNCHANGED connection

(* Mutant of LoadBuyer: no check for funds. *)
LoadBuyerUnchecked(w) ==
  /\ Running(w, "buyer")
  /\ Become(w, [job[w] EXCEPT !.pc = "seller",
                              !.balance = tables.balance[job[w].user]])
  /\ UNCHANGED connection

LoadBuyer(w) ==
  /\ Running(w, "buyer")
  /\ LET has == tables.balance[job[w].user] IN
     Become(w, IF has < job[w].price THEN At(job[w], "rollback")
               ELSE [job[w] EXCEPT !.pc = "seller", !.balance = has])
  /\ UNCHANGED connection

LoadSeller(w) ==
  /\ Running(w, "seller")
  /\ Become(w, [job[w] EXCEPT !.pc = "pay_buyer",
                  !.seller_balance = tables.balance[job[w].seller]])
  /\ UNCHANGED connection

PayBuyer(w) ==
  /\ Running(w, "pay_buyer")
  /\ Pay(w, job[w].user, job[w].balance - job[w].price,
         At(job[w], "pay_seller"), At(job[w], "rollback"))

(* The price less the market's fee, and the listing fee back. *)
Payout(price) == price - Fee(price) + LISTING_FEE

PaySeller(w) ==
  /\ Running(w, "pay_seller")
  /\ Pay(w, job[w].seller, job[w].seller_balance + Payout(job[w].price),
         At(job[w], "own"), At(job[w], "rollback"))

(* Mutant of BuyUpdateOwner: a failure does not stop the sale. *)
BuyOwnerUnchecked(w) ==
  /\ Running(w, "own")
  /\ Write(w, [tables EXCEPT !.owner[job[w].item] = job[w].user], 1,
           At(job[w], "take"), At(job[w], "take"))

BuyUpdateOwner(w) ==
  /\ Running(w, "own")
  /\ Write(w, [tables EXCEPT !.owner[job[w].item] = job[w].user], 1,
           At(job[w], "take"), At(job[w], "rollback"))

(* The result of this DELETE is ignored. *)
BuyRemoveFromInventory(w) ==
  /\ Running(w, "take")
  /\ Take(w, job[w].seller, job[w].item, At(job[w], "give"), At(job[w], "give"))

BuyAddToInventory(w) ==
  /\ Running(w, "give")
  /\ Give(w, job[w].user, job[w].item, At(job[w], "lock"), At(job[w], "rollback"))

(* db_apply_trade_lock, whose result is ignored, sets columns that no      *)
(* handler reads.                                                          *)
BuyApplyTradeLock(w) ==
  /\ Running(w, "lock")
  /\ Write(w, tables, 1, At(job[w], "history"), At(job[w], "history"))

(* The two INSERTs of save_price_history, as one. *)
SavePriceHistory(w) ==
  /\ Running(w, "history")
  /\ WriteNew(w, tables, At(job[w], "commit"), At(job[w], "commit"))

-----------------------------------------------------------------------------
(* The end of both transactions.                                           *)

CommitTransaction(w) ==
  /\ Running(w, "commit")
  /\ \/ Commit /\ Become(w, IF job[w].kind = "list" THEN Idle
                            ELSE At(job[w], "log"))
     \/ CommitRefused /\ Become(w, At(job[w], "rollback"))

(* Mutant of RollbackTransaction: the error path returns without it. *)
ReturnWithoutRollback(w) ==
  /\ Running(w, "rollback")
  /\ Become(w, Idle)
  /\ UNCHANGED connection

RollbackTransaction(w) ==
  /\ Running(w, "rollback")
  /\ Rollback
  /\ Become(w, Idle)

-----------------------------------------------------------------------------
(* buy_from_market after its COMMIT: two log rows, as one INSERT, then     *)
(* update_quest_progress for the buyer (call 1) and the seller (call 2),   *)
(* and update_user_active_challenges for both (calls 3 and 4).             *)
(* check_quest_completion finds nothing to do: every write of a quest sets *)
(* is_completed together with a progress that reaches the target.          *)

BuyLogTransactions(w) ==
  /\ Running(w, "log")
  /\ WriteNew(w, tables, At(job[w], "call"), At(job[w], "call"))

Subject(j) == IF j.call % 2 = 1 THEN j.user ELSE j.seller

(* Mutant of QuestOf: the quests change places. *)
QuestSwapped(j) == IF j.call = 2 THEN "market_explorer" ELSE "profit_maker"

QuestOf(j) == IF j.call = 1 THEN "market_explorer" ELSE "profit_maker"
Increment(j) == IF j.call = 1 THEN 1 ELSE Payout(j.price)

NextCall(j) ==
  IF j.call = 4 THEN Idle
                ELSE [j EXCEPT !.pc = "call", !.call = @ + 1, !.progress = 0]

CallBegin(w) ==
  /\ job[w].call <= 2
  /\ BeginAt(w, "call", At(job[w], "call_load"), NextCall(job[w]))

CallLoad(w) ==
  /\ Running(w, "call_load")
  /\ LET j   == job[w]
         has == tables.progress[Subject(j)][QuestOf(j)]
     IN  Become(w, IF has >= QuestTarget THEN At(j, "call_rollback")
                   ELSE [j EXCEPT !.pc = "call_write",
                                  !.progress = has + Increment(j)])
  /\ UNCHANGED connection

CallWrite(w) ==
  /\ Running(w, "call_write")
  /\ LET j == job[w] IN
     Write(w, [tables EXCEPT !.progress[Subject(j)][QuestOf(j)] = j.progress], 1,
           At(j, "call_commit"), At(j, "call_rollback"))

CallCommit(w) ==
  /\ Running(w, "call_commit")
  /\ \/ Commit /\ Become(w, NextCall(job[w]))
     \/ CommitRefused /\ Become(w, At(job[w], "call_rollback"))

CallRollback(w) ==
  /\ Running(w, "call_rollback")
  /\ Rollback
  /\ Become(w, NextCall(job[w]))

(* An UPDATE for each active challenge, in a table this module leaves out. *)
UpdateChallenges(w) ==
  /\ Running(w, "call")
  /\ job[w].call > 2
  /\ Update(tables, 1) \/ UNCHANGED connection
  /\ Become(w, NextCall(job[w]))

-----------------------------------------------------------------------------
(* remove_listing, without a transaction *)

RemoveListing(w) ==
  /\ Request(w, "remove")
  /\ \E l \in ListingIds :
       LET row == tables.listings[l] IN
       /\ row.state = "active"
       /\ Become(w, [Idle EXCEPT !.pc = "remove_load", !.user = row.seller,
                                 !.item = row.item, !.listing = l,
                                 !.kind = "remove"])
  /\ UNCHANGED connection

RemoveLoadSeller(w) ==
  /\ Running(w, "remove_load")
  /\ Become(w, [job[w] EXCEPT !.pc = "refund",
                              !.balance = tables.balance[job[w].user]])
  /\ UNCHANGED connection

(* Mutant of RemoveRefund: the listing fee is added twice. *)
RemoveRefundTwice(w) ==
  /\ Running(w, "refund")
  /\ Pay(w, job[w].user, job[w].balance + 2 * LISTING_FEE,
         At(job[w], "return"), At(job[w], "return"))

(* The result of db_update_user is ignored. *)
RemoveRefund(w) ==
  /\ Running(w, "refund")
  /\ Pay(w, job[w].user, job[w].balance + LISTING_FEE,
         At(job[w], "return"), At(job[w], "return"))

(* Whether the item is back or not, the listing goes. *)
RemoveReturnItem(w) ==
  /\ Running(w, "return")
  /\ Give(w, job[w].user, job[w].item, At(job[w], "delete"), At(job[w], "delete"))

RemoveDelete(w) ==
  /\ Running(w, "delete")
  /\ LET l == job[w].listing IN
     IF tables.listings[l].state \in {"active", "sold"}
     THEN Write(w, [tables EXCEPT !.listings[l].state = "removed"], 1, Idle, Idle)
     ELSE Write(w, tables, 0, Idle, Idle)

-----------------------------------------------------------------------------
(* The process is killed and restarted. *)
Crash ==
  /\ Crashes
  /\ Reopen
  /\ job' = [w \in Workers |-> Idle]
  /\ UNCHANGED requests

(* A listed item is in no inventory and still belongs to its seller. *)
OpeningRows ==
  [listings |-> Opening,
   owner |-> Holder,
   inventory |-> {<<Holder[i], i>> : i \in Items}
                   \ {<<Opening[l].seller, Opening[l].item>> :
                        l \in {k \in ListingIds : Opening[k].state = "active"}},
   balance |-> Purse,
   progress |-> [u \in Users |-> [q \in Quests |-> 0]]]

Init ==
  /\ ConnectionInit(OpeningRows)
  /\ job = [w \in Workers |-> Idle]
  /\ requests = 0

List(w) == \/ ListSkinOnMarket(w) \/ ListLoadUser(w) \/ ListBegin(w)
           \/ ListDeductFee(w) \/ ListRemoveFromInventory(w) \/ SaveListing(w)

Buy(w) == \/ BuyFromMarket(w) \/ BuyBegin(w) \/ FindListing(w) \/ MarkSold(w)
          \/ BuyReadChanges(w) \/ LoadBuyer(w) \/ LoadSeller(w) \/ PayBuyer(w)
          \/ PaySeller(w) \/ BuyUpdateOwner(w) \/ BuyRemoveFromInventory(w)
          \/ BuyAddToInventory(w) \/ BuyApplyTradeLock(w) \/ SavePriceHistory(w)
          \/ BuyLogTransactions(w)

FollowUp(w) == \/ CallBegin(w) \/ CallLoad(w) \/ CallWrite(w) \/ CallCommit(w)
               \/ CallRollback(w) \/ UpdateChallenges(w)

Remove(w) == \/ RemoveListing(w) \/ RemoveLoadSeller(w) \/ RemoveRefund(w)
             \/ RemoveReturnItem(w) \/ RemoveDelete(w)

Next ==
  \/ \E w \in Workers : \/ List(w) \/ Buy(w) \/ FollowUp(w) \/ Remove(w)
                        \/ CommitTransaction(w) \/ RollbackTransaction(w)
  \/ Crash

Spec == Init /\ [][Next]_vars

-----------------------------------------------------------------------------
(* Properties *)

Tables == [listings : [ListingIds -> Listing],
           owner : [Items -> Users],
           inventory : SUBSET (Users \X Items),
           balance : [Users -> Int],
           progress : [Users -> [Quests -> Nat]]]

(* Every table, connection counter and local keeps the type the C code     *)
(* gives it.                                                               *)
TypeOK ==
  /\ tables \in Tables
  /\ durable \in Tables
  /\ inTx \in BOOLEAN
  /\ changes \in {0, 1}
  /\ lastRow \in ListingIds \cup {OtherRow}
  /\ job \in [Workers -> Job]
  /\ requests \in Nat

(* A balance never becomes negative, although buying, listing and removing *)
(* write absolute balances they computed from reads made earlier, outside  *)
(* a transaction for two of them.                                          *)
BalancesNeverNegative ==
  \A u \in Users : tables.balance[u] >= 0 /\ durable.balance[u] >= 0

(* In the market alone (its handlers never roll back twice) transactions   *)
(* are exclusive although the connection is shared: one is open exactly    *)
(* while one worker is between its BEGIN and its COMMIT or ROLLBACK.       *)
TransactionsExclusive ==
  /\ inTx <=> \E w \in Workers : job[w].pc \in InsideTx
  /\ \A v, w \in Workers :
       job[v].pc \in InsideTx /\ job[w].pc \in InsideTx => v = w

Sold(l) == durable.listings[l].state = "active" /\ durable'.listings[l].state = "sold"

(* The step that writes the sale of listing l to the disk moves the item   *)
(* to a buyer who could pay and the money, less the fee, to the seller,    *)
(* and changes no other listing, owner, inventory or balance.  (A DELETE   *)
(* from the seller's inventory that fails is ignored: an item that is      *)
(* there, because it was listed twice and bought back, may then stay.)     *)
Whole(l) ==
  LET row == durable.listings[l]
      buyer == durable'.owner[row.item]
      sold == <<row.seller, row.item>>
      bought == <<buyer, row.item>>
  IN  /\ buyer # row.seller
      /\ durable.balance[buyer] >= row.price
      /\ durable'.listings = [durable.listings EXCEPT ![l].state = "sold"]
      /\ durable'.owner = [durable.owner EXCEPT ![row.item] = buyer]
      /\ \/ durable'.inventory = (durable.inventory \ {sold}) \cup {bought}
         \/ Faults /\ durable'.inventory = durable.inventory \cup {bought}
      /\ durable'.balance = [durable.balance EXCEPT ![buyer] = @ - row.price,
                                 ![row.seller] = @ + Payout(row.price)]

(* No listing becomes sold on disk unless the same step writes all of the  *)
(* sale, whatever interleaves, fails or is killed between the statements.  *)
SaleIsWhole == [][\A l \in ListingIds : Sold(l) => Whole(l)]_vars

(* What the users own, what they have paid for active listings and what    *)
(* the market has kept of the sales.                                       *)
InState(rows, st) == {l \in ListingIds : rows.listings[l].state = st}

Worth(rows) ==
  Total(rows.balance, Users)
  + LISTING_FEE * Cardinality(InState(rows, "active"))
  + Total([l \in ListingIds |-> Fee(rows.listings[l].price)], InState(rows, "sold"))

(* Money is neither made nor lost: between requests all of it is accounted *)
(* for.                                                                    *)
MoneyAccounted ==
  (\A w \in Workers : job[w].pc = "idle") => Worth(durable) = Worth(OpeningRows)

(* A purchase counts in the buyer's Market Explorer quest as long as that  *)
(* is not complete: a user holds no more items that were somebody else's   *)
(* at the start than the quest has counted.                                *)
Bought(rows, u) == {i \in Items : rows.owner[i] = u /\ Holder[i] # u}

PurchasesCount ==
  (\A w \in Workers : job[w].pc = "idle") =>
    \A u \in Users :
      \/ durable.progress[u]["market_explorer"] >= QuestTarget
      \/ durable.progress[u]["market_explorer"] >= Cardinality(Bought(durable, u))
=============================================================================
