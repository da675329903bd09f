------------------------------- MODULE Trading -------------------------------
(***************************************************************************)
(* Trade offers (trading.c) as the worker threads execute them: one action *)
(* per SQL statement on the shared connection, because between any two     *)
(* statements of a handler another worker may run one of its own.          *)
(***************************************************************************)
EXTENDS Connection

CONSTANTS
  Workers,      \* the threads of the pool
  Users,        \* registered accounts
  Items,        \* skin instances
  MaxTrades,    \* bound on the rows of the trades table
  MaxRequests,  \* bound on the requests the workers take
  Balances,     \* the balances the accounts may start with
  Offers,       \* the offers clients send
  Opening,      \* the trades table the server starts with
  QuestTarget,  \* progress at which the trade quests are completed
  Crashes       \* TRUE iff the process may be killed

TradeIds == 1 .. MaxTrades

Statuses == {"none", "pending", "accepted", "declined", "cancelled", "expired"}

(* TradeOffer of types.h, with the two item arrays as sets.                *)
Trade == [from_user : Users, to_user : Users,
          offered : SUBSET Items, requested : SUBSET Items,
          offered_cash : Nat, requested_cash : Nat,
          status : Statuses]

(* What handle_trading_request lets through, and what validate_trade asks  *)
(* of an offer without looking at the database.                            *)
WellFormed(o) ==
  /\ o.from_user # o.to_user
  /\ \/ o.offered # {} \/ o.requested # {}
     \/ o.offered_cash > 0 \/ o.requested_cash > 0

(* Status "none" marks an id that AUTOINCREMENT has not given out. *)
NoTrade == [from_user |-> CHOOSE u \in Users : TRUE,
            to_user   |-> CHOOSE u \in Users : TRUE,
            offered |-> {}, requested |-> {},
            offered_cash |-> 0, requested_cash |-> 0,
            status |-> "none"]

ASSUME TradingAssumption ==
  /\ Workers # {}
  /\ Users # {}
  /\ MaxTrades \in Nat
  /\ MaxRequests \in Nat
  /\ Balances \subseteq Nat
  /\ Offers \subseteq {o \in Trade : WellFormed(o) /\ o.status = "pending"}
  /\ Opening \in [TradeIds -> Offers \cup {NoTrade}]
  /\ QuestTarget \in Nat \ {0}
  /\ Crashes \in BOOLEAN

(* The two quests a trade is meant to advance. *)
Quests == {"first_steps", "social_trader"}

VARIABLES
  job,       \* what each worker executes: the locals of the handler it is in
  late,      \* trades whose expires_at has passed
  requests   \* requests taken so far

vars == <<connection, job, late, requests>>

-----------------------------------------------------------------------------
(* Where a handler is: before its first BEGIN or without any, and between  *)
(* a BEGIN that succeeded and the COMMIT or ROLLBACK that is to end it.    *)
OutsideTx == {"idle", "send_owner", "send_pending", "send_from_cash",
              "send_to_cash", "save", "rowid", "log", "log_receiver",
              "accept_owner", "accept_inventory", "expire", "begin", "close"}
Executing == {"take", "own", "give", "lock", "from_cash", "to_cash",
              "pay_from", "pay_to", "call", "call_load", "call_write",
              "call_commit", "call_rollback", "commit"}
InsideTx == Executing \cup {"mark", "marked", "exec_rollback", "rollback"}
Labels == OutsideTx \cup InsideTx

(* Locals of a handler: trade_id and the TradeOffer it works on, the array *)
(* it goes through with the items left in it and the one being moved, the  *)
(* balances of its two User structs, the follow-up call it has reached and *)
(* the progress that call has read.                                        *)
Job == [pc : Labels, trade_id : TradeIds \cup {OtherRow}, offer : Trade,
        side : {"offered", "requested"}, todo : SUBSET Items,
        moving : SUBSET Items, from_balance : Int, to_balance : Int,
        call : 1 .. 8, progress : Nat]

Idle == [pc |-> "idle", trade_id |-> OtherRow, offer |-> NoTrade,
         side |-> "offered", todo |-> {}, moving |-> {},
         from_balance |-> 0, to_balance |-> 0, call |-> 1, progress |-> 0]

Become(w, j) == job' = [job EXCEPT ![w] = j]
At(j, label) == [j EXCEPT !.pc = label]

(* A step of a handler that has reached label. *)
Running(w, label) == job[w].pc = label /\ UNCHANGED <<late, requests>>

(* Who gives and who gets the items of the array being moved. *)
Giver(j) == IF j.side = "offered" THEN j.offer.from_user ELSE j.offer.to_user
Getter(j) == IF j.side = "offered" THEN j.offer.to_user ELSE j.offer.from_user

(* The money from_user pays to to_user; negative when it goes back. *)
Payment(j) == IF j.side = "offered" THEN j.offer.offered_cash
                                    ELSE -j.offer.requested_cash

(* The next round of the two loops over the arrays: label while items are  *)
(* left, and otherwise what follows the loops.                             *)
Loop(j, label, after) ==
  IF j.todo # {} THEN At(j, label)
  ELSE IF j.side = "offered" /\ j.offer.requested # {}
       THEN [j EXCEPT !.pc = label, !.side = "requested",
                      !.todo = j.offer.requested]
       ELSE after

StartLoop(j, label, after) ==
  Loop([j EXCEPT !.side = "offered", !.todo = j.offer.offered], label, after)

(* A write that sets the row of trade t: db_update_trade writes the whole  *)
(* struct over whatever the row holds by now.                              *)
WriteTrade(t, row) ==
  IF tables.trades[t].status = "none"
  THEN Update(tables, 0)
  ELSE Update([tables EXCEPT !.trades[t] = row], 1)

(* db_log_transaction: an INSERT into a log no handler of this module reads. *)
InsertLog ==
  \E ok \in Outcomes : IF ok THEN Insert(tables, OtherRow)
                             ELSE UNCHANGED connection

-----------------------------------------------------------------------------
(* send_trade_offer *)

(* The offer is checked array by array and then for cash. *)
SendCash(j) ==
  IF j.offer.offered_cash > 0 THEN At(j, "send_from_cash")
  ELSE IF j.offer.requested_cash > 0 THEN At(j, "send_to_cash")
  ELSE At(j, "save")

SendTradeOffer(w) ==
  /\ job[w].pc = "idle"
  /\ requests < MaxRequests
  /\ requests' = requests + 1
  /\ \E o \in Offers :
       LET j == [Idle EXCEPT !.offer = o] IN
       Become(w, StartLoop(j, "send_owner", SendCash(j)))
  /\ UNCHANGED <<connection, late>>

(* validate_trade: the skin instance belongs to the one who gives it. *)
SendOwner(w) ==
  /\ Running(w, "send_owner")
  /\ \E i \in job[w].todo :
       Become(w, IF tables.owner[i] = Giver(job[w])
                 THEN [job[w] EXCEPT !.pc = "send_pending", !.moving = {i}]
                 ELSE Idle)
  /\ UNCHANGED connection

(* db_is_instance_in_pending_trade compares the stored array with LIKE and *)
(* patterns that have no wildcard: only the array that holds this item and *)
(* nothing else equals one of them.                                        *)
InPendingTrade(i) ==
  \E t \in TradeIds :
    /\ tables.trades[t].status = "pending"
    /\ tables.trades[t].offered = {i} \/ tables.trades[t].requested = {i}

SendPending(w) ==
  /\ Running(w, "send_pending")
  /\ \E i \in job[w].moving :
       LET j == [job[w] EXCEPT !.todo = @ \ {i}, !.moving = {}] IN
       Become(w, IF InPendingTrade(i) THEN Idle
                 ELSE Loop(j, "send_owner", SendCash(j)))
  /\ UNCHANGED connection

SendFromCash(w) ==
  /\ Running(w, "send_from_cash")
  /\ LET j == job[w] IN
     Become(w, IF tables.balance[j.offer.from_user] < j.offer.offered_cash
               THEN Idle
               ELSE At(j, IF j.offer.requested_cash > 0 THEN "send_to_cash"
                                                        ELSE "save"))
  /\ UNCHANGED connection

SendToCash(w) ==
  /\ Running(w, "send_to_cash")
  /\ LET j == job[w] IN
     Become(w, IF tables.balance[j.offer.to_user] < j.offer.requested_cash
               THEN Idle
               ELSE At(j, "save"))
  /\ UNCHANGED connection

(* db_save_trade, the INSERT: AUTOINCREMENT gives the id after the last,   *)
(* and the INSERT fails once the bound MaxTrades is reached.               *)
SaveTrade(w) ==
  /\ job[w].pc = "save"
  /\ \/ \E t \in TradeIds :
          /\ tables.trades[t].status = "none"
          /\ \A s \in TradeIds : tables.trades[s].status = "none" => t <= s
          /\ Insert([tables EXCEPT !.trades[t] = job[w].offer], t)
          /\ Become(w, At(job[w], "rowid"))
          /\ late' = late \ {t}
     \/ /\ Faults \/ \A t \in TradeIds : tables.trades[t].status # "none"
        /\ Become(w, Idle)
        /\ UNCHANGED <<connection, late>>
  /\ UNCHANGED requests

(* db_save_trade, after the INSERT: the id comes from the connection. *)
TakeRowId(w) ==
  /\ Running(w, "rowid")
  /\ Become(w, [job[w] EXCEPT !.pc = "log", !.trade_id = lastRow])
  /\ UNCHANGED connection

(* The db_log_transaction that ends send, decline and cancel.              *)
LogTransaction(w) ==
  /\ Running(w, "log")
  /\ InsertLog
  /\ Become(w, Idle)

-----------------------------------------------------------------------------
(* accept_trade, up to BEGIN *)

(* The load and the checks on the loaded row.  Requests for a trade that   *)
(* is not there, is processed or is not the caller's change nothing and    *)
(* are left out.                                                           *)
AcceptTrade(w) ==
  /\ job[w].pc = "idle"
  /\ requests < MaxRequests
  /\ requests' = requests + 1
  /\ \E t \in TradeIds :
       /\ tables.trades[t].status = "pending"
       /\ LET j == [Idle EXCEPT !.trade_id = t, !.offer = tables.trades[t]] IN
          Become(w, IF t \in late
                    THEN [j EXCEPT !.pc = "expire", !.offer.status = "expired"]
                    ELSE StartLoop(j, "accept_owner", At(j, "begin")))
  /\ UNCHANGED <<connection, late>>

GiveUp(j) == [j EXCEPT !.pc = "expire", !.offer.status = "expired"]

(* "Validate items are still available": first the owner of the instance, *)
AcceptOwner(w) ==
  /\ Running(w, "accept_owner")
  /\ \E i \in job[w].todo :
       Become(w, IF tables.owner[i] = Giver(job[w])
                 THEN [job[w] EXCEPT !.pc = "accept_inventory", !.moving = {i}]
                 ELSE GiveUp(job[w]))
  /\ UNCHANGED connection

(* then the inventory of the owner. *)
AcceptInventory(w) ==
  /\ Running(w, "accept_inventory")
  /\ \E i \in job[w].moving :
       LET j == [job[w] EXCEPT !.todo = @ \ {i}, !.moving = {}] IN
       Become(w, IF <<Giver(j), i>> \in tables.inventory
                 THEN Loop(j, "accept_owner", At(j, "begin"))
                 ELSE GiveUp(j))
  /\ UNCHANGED connection

(* db_update_trade with the status TRADE_EXPIRED in the loaded struct. *)
ExpireTrade(w) ==
  /\ Running(w, "expire")
  /\ \/ WriteTrade(job[w].trade_id, job[w].offer)
     \/ Faults /\ UNCHANGED connection
  /\ Become(w, Idle)

BeginTransaction(w) ==
  /\ Running(w, "begin")
  /\ \/ Begin /\ Become(w, At(job[w], "mark"))
     \/ BeginRefused /\ Become(w, Idle)

(* db_atomic_accept_trade, the UPDATE with its WHERE ... status = pending. *)
AtomicAccept(w) ==
  /\ Running(w, "mark")
  /\ \E ok \in Outcomes :
       IF ok
       THEN /\ LET t == job[w].trade_id IN
               IF tables.trades[t].status = "pending"
               THEN Update([tables EXCEPT !.trades[t].status = "accepted"], 1)
               ELSE Update(tables, 0)
            /\ Become(w, At(job[w], "marked"))
       ELSE /\ Become(w, At(job[w], "rollback"))
            /\ UNCHANGED connection

-----------------------------------------------------------------------------
(* execute_trade_internal: the items, then the cash *)

CashLoop(j) ==
  IF j.side = "offered" /\ j.offer.offered_cash > 0 THEN At(j, "from_cash")
  ELSE IF j.offer.requested_cash > 0
       THEN [j EXCEPT !.pc = "from_cash", !.side = "requested"]
       ELSE At(j, "call")

StartCash(j) == CashLoop([j EXCEPT !.side = "offered"])

(* Mutant of ReadChanges: a refused accept returns without ROLLBACK. *)
ReadChangesAndReturn(w) ==
  /\ Running(w, "marked")
  /\ Become(w, IF changes = 0 THEN Idle
               ELSE StartLoop(job[w], "take", StartCash(job[w])))
  /\ UNCHANGED connection

(* db_atomic_accept_trade, after the UPDATE: did it touch a row? *)
ReadChanges(w) ==
  /\ Running(w, "marked")
  /\ Become(w, IF changes = 0 THEN At(job[w], "rollback")
               ELSE StartLoop(job[w], "take", StartCash(job[w])))
  /\ UNCHANGED connection

(* Mutant of RemoveFromInventory: the result of the DELETE is ignored. *)
RemoveUnchecked(w) ==
  /\ Running(w, "take")
  /\ \E i \in job[w].todo, ok \in Outcomes :
       LET row == <<Giver(job[w]), i>> IN
       /\ IF ok THEN Update([tables EXCEPT !.inventory = @ \ {row}], 1)
                ELSE UNCHANGED connection
       /\ Become(w, [job[w] EXCEPT !.pc = "own", !.moving = {i}])

(* A DELETE that finds no row succeeds all the same. *)
RemoveFromInventory(w) ==
  /\ Running(w, "take")
  /\ \E i \in job[w].todo, ok \in Outcomes :
       LET row == <<Giver(job[w]), i>> IN
       IF ok
       THEN /\ Update([tables EXCEPT !.inventory = @ \ {row}],
                      IF row \in tables.inventory THEN 1 ELSE 0)
            /\ Become(w, [job[w] EXCEPT !.pc = "own", !.moving = {i}])
       ELSE Become(w, At(job[w], "exec_rollback")) /\ UNCHANGED connection

UpdateOwner(w) ==
  /\ Running(w, "own")
  /\ \E i \in job[w].moving, ok \in Outcomes :
       IF ok
       THEN /\ Update([tables EXCEPT !.owner[i] = Getter(job[w])], 1)
            /\ Become(w, At(job[w], "give"))
       ELSE Become(w, At(job[w], "exec_rollback")) /\ UNCHANGED connection

(* INSERT OR IGNORE. *)
AddToInventory(w) ==
  /\ Running(w, "give")
  /\ \E i \in job[w].moving, ok \in Outcomes :
       LET row == <<Getter(job[w]), i>> IN
       IF ok
       THEN /\ IF row \in tables.inventory
               THEN Update(tables, 0)
               ELSE Insert([tables EXCEPT !.inventory = @ \cup {row}], OtherRow)
            /\ Become(w, At(job[w], "lock"))
       ELSE Become(w, At(job[w], "exec_rollback")) /\ UNCHANGED connection

(* db_apply_trade_lock, whose result is ignored, sets columns that no      *)
(* handler reads; then the next round of the loops.                        *)
ApplyTradeLock(w) ==
  /\ Running(w, "lock")
  /\ \/ Update(tables, 1)
     \/ Faults /\ UNCHANGED connection
  /\ LET j == [job[w] EXCEPT !.todo = @ \ job[w].moving, !.moving = {}] IN
     Become(w, Loop(j, "take", StartCash(j)))

LoadFromUser(w) ==
  /\ Running(w, "from_cash")
  /\ LET j == job[w] IN
     Become(w, [j EXCEPT !.pc = "to_cash",
                         !.from_balance = tables.balance[j.offer.from_user]])
  /\ UNCHANGED connection

(* Mutant of LoadToUser: no check for funds. *)
LoadToUserUnchecked(w) ==
  /\ Running(w, "to_cash")
  /\ LET j == job[w] IN
     Become(w, [j EXCEPT !.pc = "pay_from",
                  !.from_balance = @ - Payment(j),
                  !.to_balance = tables.balance[j.offer.to_user] + Payment(j)])
  /\ UNCHANGED connection

(* The second load, the check for funds and the arithmetic on the structs. *)
LoadToUser(w) ==
  /\ Running(w, "to_cash")
  /\ LET j  == job[w]
         to == tables.balance[j.offer.to_user]
     IN  Become(w, IF j.from_balance < Payment(j) \/ to < -Payment(j)
                   THEN At(j, "exec_rollback")
                   ELSE [j EXCEPT !.pc = "pay_from",
                                  !.from_balance = @ - Payment(j),
                                  !.to_balance = to + Payment(j)])
  /\ UNCHANGED connection

(* Mutant of UpdateFromUser: the result of db_update_user is ignored. *)
UpdateFromUnchecked(w) ==
  /\ Running(w, "pay_from")
  /\ Become(w, At(job[w], "pay_to"))
  /\ \/ Update([tables EXCEPT
                 !.balance[job[w].offer.from_user] = job[w].from_balance], 1)
     \/ Faults /\ UNCHANGED connection

(* db_update_user writes the absolute balance of the struct. *)
UpdateFromUser(w) ==
  /\ Running(w, "pay_from")
  /\ \E ok \in Outcomes :
       IF ok
       THEN /\ Update([tables EXCEPT
                        !.balance[job[w].offer.from_user] = job[w].from_balance], 1)
            /\ Become(w, At(job[w], "pay_to"))
       ELSE Become(w, At(job[w], "exec_rollback")) /\ UNCHANGED connection

UpdateToUser(w) ==
  /\ Running(w, "pay_to")
  /\ \E ok \in Outcomes :
       IF ok
       THEN /\ Update([tables EXCEPT
                        !.balance[job[w].offer.to_user] = job[w].to_balance], 1)
            /\ Become(w, IF job[w].side = "offered"
                         THEN CashLoop([job[w] EXCEPT !.side = "requested"])
                         ELSE At(job[w], "call"))
       ELSE Become(w, At(job[w], "exec_rollback")) /\ UNCHANGED connection

-----------------------------------------------------------------------------
(* execute_trade_internal: the calls that follow the transfers.  1 to 4    *)
(* update_quest_progress, 5 and 6 unlock_achievement, 7 and 8              *)
(* update_user_active_challenges, in turn for from_user and to_user.       *)
(* check_quest_completion finds nothing to do: every write of a quest sets *)
(* is_completed together with a progress that reaches the target.          *)

Subject(j) == IF j.call % 2 = 1 THEN j.offer.from_user ELSE j.offer.to_user
QuestOf(j) == IF j.call \in {1, 2} THEN "first_steps" ELSE "social_trader"

NextCall(j) ==
  IF j.call = 8 THEN At(j, "commit")
                ELSE [j EXCEPT !.pc = "call", !.call = @ + 1, !.progress = 0]

(* Both begin a transaction of their own and give up when BEGIN fails. *)
CallBegin(w) ==
  /\ Running(w, "call")
  /\ job[w].call <= 6
  /\ \/ Begin /\ Become(w, At(job[w], "call_load"))
     \/ BeginRefused /\ Become(w, NextCall(job[w]))

CallLoad(w) ==
  /\ Running(w, "call_load")
  /\ LET j    == job[w]
         done == IF j.call <= 4
                 THEN tables.progress[Subject(j)][QuestOf(j)] >= QuestTarget
                 ELSE Subject(j) \in tables.first_trade
     IN  Become(w, IF done THEN At(j, "call_rollback")
                   ELSE [j EXCEPT !.pc = "call_write",
                          !.progress = IF j.call <= 4
                             THEN tables.progress[Subject(j)][QuestOf(j)] + 1
                             ELSE 0])
  /\ UNCHANGED connection

CallWrite(w) ==
  /\ Running(w, "call_write")
  /\ LET j == job[w] IN
     \E ok \in Outcomes :
       /\ IF ~ok THEN UNCHANGED connection
          ELSE IF j.call <= 4
          THEN Update([tables EXCEPT
                         !.progress[Subject(j)][QuestOf(j)] = j.progress], 1)
          ELSE Insert([tables EXCEPT !.first_trade = @ \cup {Subject(j)}],
                      OtherRow)
       /\ Become(w, At(j, IF ok THEN "call_commit" ELSE "call_rollback"))

CallCommit(w) ==
  /\ Running(w, "call_commit")
  /\ \/ Commit /\ Become(w, NextCall(job[w]))
     \/ CommitRefused /\ Become(w, At(job[w], "call_rollback"))

CallRollback(w) ==
  /\ Running(w, "call_rollback")
  /\ Rollback
  /\ Become(w, NextCall(job[w]))

(* Reads, and an UPDATE of each active challenge; challenges are rows of a *)
(* table this module leaves out.                                           *)
UpdateChallenges(w) ==
  /\ Running(w, "call")
  /\ job[w].call > 6
  /\ Update(tables, 1) \/ UNCHANGED connection
  /\ Become(w, NextCall(job[w]))

-----------------------------------------------------------------------------
(* accept_trade, from the end of execute_trade_internal *)

CommitTransaction(w) ==
  /\ Running(w, "commit")
  /\ \/ Commit /\ Become(w, At(job[w], "log_receiver"))
     \/ CommitRefused /\ Become(w, At(job[w], "rollback"))

LogReceiver(w) ==
  /\ Running(w, "log_receiver")
  /\ InsertLog
  /\ Become(w, At(job[w], "log"))

(* The ROLLBACK of execute_trade_internal on each of its error paths, ... *)
ExecRollback(w) ==
  /\ Running(w, "exec_rollback")
  /\ Rollback
  /\ Become(w, At(job[w], "rollback"))

(* ... which accept_trade follows with one of its own. *)
RollbackTransaction(w) ==
  /\ Running(w, "rollback")
  /\ Rollback
  /\ Become(w, Idle)

-----------------------------------------------------------------------------
(* Mutant of CloseTrade: the status of the struct is not set. *)
CloseKeepingStatus(w) ==
  /\ job[w].pc = "idle"
  /\ requests < MaxRequests
  /\ requests' = requests + 1
  /\ \E t \in TradeIds :
       /\ tables.trades[t].status = "pending"
       /\ Become(w, [Idle EXCEPT !.pc = "close", !.trade_id = t,
                                 !.offer = tables.trades[t]])
  /\ UNCHANGED <<connection, late>>

(* decline_trade and cancel_trade: load, check, then write the whole row.  *)
CloseTrade(w) ==
  /\ job[w].pc = "idle"
  /\ requests < MaxRequests
  /\ requests' = requests + 1
  /\ \E t \in TradeIds, status \in {"declined", "cancelled"} :
       /\ tables.trades[t].status = "pending"
       /\ Become(w, [Idle EXCEPT !.pc = "close", !.trade_id = t,
                                 !.offer = [tables.trades[t] EXCEPT
                                              !.status = status]])
  /\ UNCHANGED <<connection, late>>

WriteClosed(w) ==
  /\ Running(w, "close")
  /\ \/ WriteTrade(job[w].trade_id, job[w].offer)
     \/ Faults /\ UNCHANGED connection
  /\ Become(w, At(job[w], "log"))

-----------------------------------------------------------------------------
(* The fifteen minutes of a trade pass. *)
Expire ==
  /\ \E t \in TradeIds \ late :
       /\ tables.trades[t].status = "pending"
       /\ late' = late \cup {t}
  /\ UNCHANGED <<connection, job, requests>>

(* The process is killed and restarted: the workers' locals are gone, and  *)
(* sqlite3 discards what was not committed.                                *)
Crash ==
  /\ Crashes
  /\ Reopen
  /\ job' = [w \in Workers |-> Idle]
  /\ UNCHANGED <<late, requests>>

Rows(holder, balance) ==
  [trades |-> Opening,
   owner |-> holder,
   inventory |-> {<<holder[i], i>> : i \in Items},
   balance |-> balance,
   progress |-> [u \in Users |-> [q \in Quests |-> 0]],
   first_trade |-> {}]

Init ==
  /\ \E holder \in [Items -> Users], balance \in [Users -> Balances] :
       ConnectionInit(Rows(holder, balance))
  /\ job = [w \in Workers |-> Idle]
  /\ late = {}
  /\ requests = 0

Handler(w) ==
  \/ SendTradeOffer(w) \/ SendOwner(w) \/ SendPending(w) \/ SendFromCash(w)
  \/ SendToCash(w) \/ SaveTrade(w) \/ TakeRowId(w) \/ LogTransaction(w)
  \/ AcceptTrade(w) \/ AcceptOwner(w) \/ AcceptInventory(w) \/ ExpireTrade(w)
  \/ BeginTransaction(w) \/ AtomicAccept(w) \/ ReadChanges(w)
  \/ RemoveFromInventory(w) \/ UpdateOwner(w) \/ AddToInventory(w)
  \/ ApplyTradeLock(w) \/ LoadFromUser(w) \/ LoadToUser(w)
  \/ UpdateFromUser(w) \/ UpdateToUser(w) \/ CallBegin(w) \/ CallLoad(w)
  \/ CallWrite(w) \/ CallCommit(w) \/ CallRollback(w) \/ UpdateChallenges(w)
  \/ CommitTransaction(w) \/ LogReceiver(w) \/ ExecRollback(w)
  \/ RollbackTransaction(w) \/ CloseTrade(w) \/ WriteClosed(w)

Next == (\E w \in Workers : Handler(w)) \/ Expire \/ Crash

Spec == Init /\ [][Next]_vars

-----------------------------------------------------------------------------
(* Properties *)

Tables == [trades : [TradeIds -> Trade],
           owner : [Items -> Users],
           inventory : SUBSET (Users \X Items),
           balance : [Users -> Int],
           progress : [Users -> [Quests -> Nat]],
           first_trade : SUBSET Users]

(* Every table, connection counter and local keeps the type the C code     *)
(* gives it, and a row has no column the schema lacks.                     *)
TypeOK ==
  /\ tables \in Tables
  /\ durable \in Tables
  /\ inTx \in BOOLEAN
  /\ changes \in {0, 1}
  /\ lastRow \in TradeIds \cup {OtherRow}
  /\ job \in [Workers -> Job]
  /\ late \in SUBSET TradeIds
  /\ requests \in Nat

(* No interleaving, failing statement or crash makes a balance negative:   *)
(* execute_trade_internal writes an absolute balance it computed from an   *)
(* earlier read, and the check for funds was made on that same read.       *)
BalancesNeverNegative ==
  \A u \in Users : tables.balance[u] >= 0 /\ durable.balance[u] >= 0

(* An open transaction always has a worker that is still going to end it,  *)
(* on every error path of accept_trade and of the calls it makes.  A       *)
(* transaction without one would refuse every later BEGIN for good.        *)
OpenTransactionHasOwner ==
  inTx => \E w \in Workers : job[w].pc \in InsideTx

Processed(rows, t) == rows.trades[t].status \notin {"none", "pending"}

(* On disk a processed trade never becomes pending or free again, although *)
(* decline, cancel and expiry write back a whole row they read before and  *)
(* a ROLLBACK may take back what another worker wrote.                     *)
NeverPendingAgain ==
  [][\A t \in TradeIds : Processed(durable, t) => Processed(durable', t)]_vars

(* accept_trade moves an item from one inventory to the other and changes  *)
(* its owner; on disk each item is in the inventory of its owner and in no *)
(* other.                                                                  *)
HeldOnce ==
  \A u \in Users, i \in Items :
    <<u, i>> \in durable.inventory <=> durable.owner[i] = u

(* Requests taken one at a time, the handlers implement TradeBook on disk: *)
(* an offer is settled whole or not at all, closed at most once, and       *)
(* nothing else moves items or money.                                      *)
Book == INSTANCE TradeBook WITH trades  <- durable.trades,
                                holder  <- durable.owner,
                                balance <- durable.balance

SettlesAsAWhole == Book!Spec
=============================================================================
