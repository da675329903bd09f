---------------------------- MODULE TradingProofs ----------------------------
(***************************************************************************)
(* Theorems about Trading for every number of workers, users, items,       *)
(* trades and requests, with failing statements and crashes: types, who    *)
(* ends an open transaction, which balances can be written, that a         *)
(* processed trade stays processed, and, while requests do not overlap,    *)
(* that the handlers implement TradeBook.                                  *)
(***************************************************************************)
EXTENDS Trading, TLAPS

(* The part of TypeOK that speaks of the connection. *)
ConnectionType ==
  /\ tables \in Tables
  /\ durable \in Tables
  /\ inTx \in BOOLEAN
  /\ changes \in {0, 1}
  /\ lastRow \in TradeIds \cup {OtherRow}

JobsType == job \in [Workers -> Job]

-----------------------------------------------------------------------------
(* Rows and locals are well typed.                                         *)

LEMMA NoTradeType == NoTrade \in Trade
<1>1. (CHOOSE u \in Users : TRUE) \in Users
  BY TradingAssumption
<1> QED
  BY <1>1 DEF NoTrade, Trade, Statuses

LEMMA IdleType == Idle \in Job
BY NoTradeType DEF Idle, Job, Labels, OutsideTx, OtherRow

LEMMA OfferType == ASSUME NEW o \in Offers PROVE o \in Trade
BY TradingAssumption

LEMMA AtType ==
  ASSUME NEW j \in Job, NEW label \in Labels
  PROVE  At(j, label) \in Job
BY DEF At, Job

LEMMA LoopType ==
  ASSUME NEW j \in Job, NEW label \in Labels, NEW after \in Job
  PROVE  Loop(j, label, after) \in Job
<1>1. j.offer.requested \in SUBSET Items
  BY DEF Job, Trade
<1>2. [j EXCEPT !.pc = label, !.side = "requested",
                !.todo = j.offer.requested] \in Job
  BY <1>1 DEF Job
<1> QED
  BY <1>2, AtType DEF Loop

LEMMA StartLoopType ==
  ASSUME NEW j \in Job, NEW label \in Labels, NEW after \in Job
  PROVE  StartLoop(j, label, after) \in Job
<1>1. j.offer.offered \in SUBSET Items
  BY DEF Job, Trade
<1>2. [j EXCEPT !.side = "offered", !.todo = j.offer.offered] \in Job
  BY <1>1 DEF Job
<1> QED
  BY <1>2, LoopType DEF StartLoop

LEMMA SendCashType == ASSUME NEW j \in Job PROVE SendCash(j) \in Job
BY AtType DEF SendCash, Labels, OutsideTx

LEMMA CashLoopType == ASSUME NEW j \in Job PROVE CashLoop(j) \in Job
<1>1. "from_cash" \in Labels /\ "call" \in Labels
  BY DEF Labels, InsideTx, Executing
<1>2. [j EXCEPT !.pc = "from_cash", !.side = "requested"] \in Job
  BY <1>1 DEF Job
<1>3. At(j, "from_cash") \in Job /\ At(j, "call") \in Job
  BY <1>1, AtType
<1> QED
  BY <1>2, <1>3 DEF CashLoop

LEMMA StartCashType == ASSUME NEW j \in Job PROVE StartCash(j) \in Job
<1>1. [j EXCEPT !.side = "offered"] \in Job
  BY DEF Job
<1> QED
  BY <1>1, CashLoopType DEF StartCash

LEMMA GiveUpType == ASSUME NEW j \in Job PROVE GiveUp(j) \in Job
<1>1. [j.offer EXCEPT !.status = "expired"] \in Trade
  BY DEF Job, Trade, Statuses
<1> QED
  BY <1>1 DEF GiveUp, Job, Labels, OutsideTx

LEMMA NextCallType == ASSUME NEW j \in Job PROVE NextCall(j) \in Job
<1>1. CASE j.call = 8
  BY <1>1, AtType DEF NextCall, Labels, InsideTx, Executing
<1>2. CASE j.call # 8
  <2>1. j.call + 1 \in 1 .. 8
    BY <1>2 DEF Job
  <2> QED
    BY <1>2, <2>1 DEF NextCall, Job, Labels, InsideTx, Executing
<1> QED
  BY <1>1, <1>2

LEMMA UsersOfJob ==
  ASSUME NEW j \in Job
  PROVE  /\ Giver(j) \in Users
         /\ Getter(j) \in Users
         /\ Subject(j) \in Users
         /\ QuestOf(j) \in Quests
         /\ Payment(j) \in Int
BY DEF Job, Trade, Giver, Getter, Subject, QuestOf, Quests, Payment

LEMMA BecomeType ==
  ASSUME JobsType, NEW w \in Workers, NEW j \in Job, Become(w, j)
  PROVE  JobsType'
BY DEF JobsType, Become

-----------------------------------------------------------------------------
(* Every use of the connection keeps it well typed.                        *)

LEMMA UpdateType ==
  ASSUME ConnectionType, NEW rows \in Tables, NEW n \in {0, 1},
         Update(rows, n)
  PROVE  ConnectionType'
BY DEF ConnectionType, Update, Store

LEMMA InsertType ==
  ASSUME ConnectionType, NEW rows \in Tables,
         NEW r \in TradeIds \cup {OtherRow}, Insert(rows, r)
  PROVE  ConnectionType'
BY DEF ConnectionType, Insert, Store

LEMMA ControlType ==
  ASSUME ConnectionType,
         \/ UNCHANGED connection \/ Begin \/ BeginRefused
         \/ Commit \/ CommitRefused \/ Rollback \/ Reopen
  PROVE  ConnectionType'
BY DEF ConnectionType, connection, Begin, BeginRefused, Commit, CommitRefused,
       Rollback, Reopen

LEMMA InsertLogType == ASSUME ConnectionType, InsertLog PROVE ConnectionType'
BY InsertType, ControlType DEF InsertLog, ConnectionType

LEMMA WriteTradeType ==
  ASSUME ConnectionType, NEW t, NEW row \in Trade, WriteTrade(t, row)
  PROVE  ConnectionType'
<1>1. tables \in Tables /\ [tables EXCEPT !.trades[t] = row] \in Tables
  BY DEF ConnectionType, Tables
<1> QED
  BY <1>1, UpdateType DEF WriteTrade

-----------------------------------------------------------------------------
(* Each step of a handler keeps the connection and the locals well typed.  *)

WellTyped == ConnectionType /\ JobsType

LEMMA SendKeepsTypes ==
  ASSUME WellTyped, NEW w \in Workers,
         \/ SendTradeOffer(w) \/ SendOwner(w) \/ SendPending(w)
         \/ SendFromCash(w) \/ SendToCash(w) \/ SaveTrade(w) \/ TakeRowId(w)
         \/ LogTransaction(w)
  PROVE  WellTyped'
<1> USE DEF WellTyped
<1>j. job[w] \in Job
  BY DEF JobsType
<1>1. CASE SendTradeOffer(w)
  <2>1. PICK o \in Offers :
          Become(w, StartLoop([Idle EXCEPT !.offer = o], "send_owner",
                              SendCash([Idle EXCEPT !.offer = o])))
    BY <1>1 DEF SendTradeOffer
  <2>2. [Idle EXCEPT !.offer = o] \in Job
    BY IdleType, OfferType DEF Job
  <2>3. "send_owner" \in Labels
    BY DEF Labels, OutsideTx
  <2>4. JobsType'
    BY <2>1, <2>2, <2>3, SendCashType, StartLoopType, BecomeType
  <2> QED
    BY <1>1, <2>4, ControlType DEF SendTradeOffer
<1>2. CASE SendOwner(w)
  <2>1. PICK i \in job[w].todo :
          Become(w, IF tables.owner[i] = Giver(job[w])
                    THEN [job[w] EXCEPT !.pc = "send_pending", !.moving = {i}]
                    ELSE Idle)
    BY <1>2 DEF SendOwner
  <2>2. [job[w] EXCEPT !.pc = "send_pending", !.moving = {i}] \in Job
    BY <1>j DEF Job, Labels, OutsideTx
  <2>3. JobsType'
    BY <2>1, <2>2, IdleType, BecomeType
  <2> QED
    BY <1>2, <2>3, ControlType DEF SendOwner
<1>3. CASE SendPending(w)
  <2>1. PICK i \in job[w].moving :
          LET j == [job[w] EXCEPT !.todo = @ \ {i}, !.moving = {}] IN
          Become(w, IF InPendingTrade(i) THEN Idle
                    ELSE Loop(j, "send_owner", SendCash(j)))
    BY <1>3 DEF SendPending
  <2>2. [job[w] EXCEPT !.todo = @ \ {i}, !.moving = {}] \in Job
    BY <1>j DEF Job
  <2>3. "send_owner" \in Labels
    BY DEF Labels, OutsideTx
  <2>4. JobsType'
    BY <2>1, <2>2, <2>3, IdleType, SendCashType, LoopType, BecomeType
  <2> QED
    BY <1>3, <2>4, ControlType DEF SendPending
<1>4. CASE SendFromCash(w) \/ SendToCash(w)
  <2>1. JobsType'
    BY <1>4, <1>j, IdleType, AtType, BecomeType
       DEF SendFromCash, SendToCash, Labels, OutsideTx
  <2> QED
    BY <1>4, <2>1, ControlType DEF SendFromCash, SendToCash
<1>5. CASE SaveTrade(w)
  <2>1. JobsType'
    BY <1>5, <1>j, IdleType, AtType, BecomeType DEF SaveTrade, Labels, OutsideTx
  <2>2. ASSUME NEW t \in TradeIds
        PROVE  [tables EXCEPT !.trades[t] = job[w].offer] \in Tables
    BY <1>j DEF ConnectionType, Tables, Job
  <2>3. ConnectionType'
    BY <1>5, <2>2, InsertType, ControlType DEF SaveTrade, connection
  <2> QED
    BY <2>1, <2>3
<1>6. CASE TakeRowId(w)
  <2>1. [job[w] EXCEPT !.pc = "log", !.trade_id = lastRow] \in Job
    BY <1>j DEF Job, ConnectionType, Labels, OutsideTx
  <2>2. JobsType'
    BY <1>6, <2>1, BecomeType DEF TakeRowId
  <2> QED
    BY <1>6, <2>2, ControlType DEF TakeRowId
<1>7. CASE LogTransaction(w)
  BY <1>7, IdleType, BecomeType, InsertLogType DEF LogTransaction
<1> QED
  BY <1>1, <1>2, <1>3, <1>4, <1>5, <1>6, <1>7

LEMMA AcceptKeepsTypes ==
  ASSUME WellTyped, NEW w \in Workers,
         \/ AcceptTrade(w) \/ AcceptOwner(w) \/ AcceptInventory(w)
         \/ ExpireTrade(w) \/ BeginTransaction(w) \/ AtomicAccept(w)
         \/ ReadChanges(w) \/ CloseTrade(w) \/ WriteClosed(w)
  PROVE  WellTyped'
<1> USE DEF WellTyped
<1>j. job[w] \in Job /\ job[w].offer \in Trade
  BY DEF JobsType, Job
<1>t. \A t \in TradeIds : tables.trades[t] \in Trade
  BY DEF ConnectionType, Tables
<1>1. CASE AcceptTrade(w)
  <2>1. PICK t \in TradeIds :
          LET j == [Idle EXCEPT !.trade_id = t, !.offer = tables.trades[t]] IN
          Become(w, IF t \in late
                    THEN [j EXCEPT !.pc = "expire", !.offer.status = "expired"]
                    ELSE StartLoop(j, "accept_owner", At(j, "begin")))
    BY <1>1 DEF AcceptTrade
  <2> DEFINE j == [Idle EXCEPT !.trade_id = t, !.offer = tables.trades[t]]
  <2>2. j \in Job
    BY <1>t, IdleType DEF Job
  <2>3. [j EXCEPT !.pc = "expire", !.offer.status = "expired"] \in Job
    BY <2>2, GiveUpType DEF GiveUp
  <2>4. "accept_owner" \in Labels /\ "begin" \in Labels
    BY DEF Labels, OutsideTx
  <2>5. JobsType'
    <3> HIDE DEF j
    <3> QED
      BY <2>1, <2>2, <2>3, <2>4, AtType, StartLoopType, BecomeType DEF j
  <2> QED
    BY <1>1, <2>5, ControlType DEF AcceptTrade
<1>2. CASE AcceptOwner(w)
  <2>1. PICK i \in job[w].todo :
          Become(w, IF tables.owner[i] = Giver(job[w])
                    THEN [job[w] EXCEPT !.pc = "accept_inventory",
                                        !.moving = {i}]
                    ELSE GiveUp(job[w]))
    BY <1>2 DEF AcceptOwner
  <2>2. [job[w] EXCEPT !.pc = "accept_inventory", !.moving = {i}] \in Job
    BY <1>j DEF Job, Labels, OutsideTx
  <2>3. JobsType'
    BY <1>j, <2>1, <2>2, GiveUpType, BecomeType
  <2> QED
    BY <1>2, <2>3, ControlType DEF AcceptOwner
<1>3. CASE AcceptInventory(w)
  <2>1. PICK i \in job[w].moving :
          LET j == [job[w] EXCEPT !.todo = @ \ {i}, !.moving = {}] IN
          Become(w, IF <<Giver(j), i>> \in tables.inventory
                    THEN Loop(j, "accept_owner", At(j, "begin"))
                    ELSE GiveUp(j))
    BY <1>3 DEF AcceptInventory
  <2>2. [job[w] EXCEPT !.todo = @ \ {i}, !.moving = {}] \in Job
    BY <1>j DEF Job
  <2>3. "accept_owner" \in Labels /\ "begin" \in Labels
    BY DEF Labels, OutsideTx
  <2>4. JobsType'
    BY <2>1, <2>2, <2>3, AtType, LoopType, GiveUpType, BecomeType
  <2> QED
    BY <1>3, <2>4, ControlType DEF AcceptInventory
<1>4. CASE ExpireTrade(w)
  BY <1>4, <1>j, IdleType, BecomeType, WriteTradeType, ControlType
     DEF ExpireTrade
<1>5. CASE BeginTransaction(w)
  BY <1>5, <1>j, IdleType, AtType, BecomeType, ControlType
     DEF BeginTransaction, Labels, InsideTx
<1>6. CASE AtomicAccept(w)
  <2>1. JobsType'
    BY <1>6, <1>j, AtType, BecomeType DEF AtomicAccept, Labels, InsideTx
  <2>2. ASSUME NEW t \in TradeIds
        PROVE  [tables EXCEPT !.trades[t].status = "accepted"] \in Tables
    <3>1. [tables.trades[t] EXCEPT !.status = "accepted"] \in Trade
      BY <1>t DEF Trade, Statuses
    <3> QED
      BY <3>1 DEF ConnectionType, Tables
  <2>3. job[w].trade_id \in TradeIds
        \/ [tables EXCEPT !.trades[job[w].trade_id].status = "accepted"] = tables
    <3>1. CASE job[w].trade_id \notin TradeIds
      <4>1. tables.trades = [t \in TradeIds |-> tables.trades[t]]
        BY DEF ConnectionType, Tables
      <4>2. [tables.trades EXCEPT ![job[w].trade_id].status = "accepted"]
              = tables.trades
        BY <3>1, <4>1
      <4> QED
        BY <4>2 DEF ConnectionType, Tables
    <3> QED
      BY <3>1
  <2>4. ConnectionType'
    <3>1. tables \in Tables
      BY DEF ConnectionType
    <3> QED
      BY <1>6, <2>2, <2>3, <3>1, UpdateType, ControlType DEF AtomicAccept
  <2> QED
    BY <2>1, <2>4
<1>7. CASE ReadChanges(w)
  <2>1. "rollback" \in Labels /\ "take" \in Labels
    BY DEF Labels, InsideTx, Executing
  <2>2. JobsType'
    BY <1>7, <1>j, <2>1, AtType, StartCashType, StartLoopType, BecomeType
       DEF ReadChanges
  <2> QED
    BY <1>7, <2>2, ControlType DEF ReadChanges
<1>8. CASE CloseTrade(w)
  <2>1. PICK t \in TradeIds, status \in {"declined", "cancelled"} :
          Become(w, [Idle EXCEPT !.pc = "close", !.trade_id = t,
                                 !.offer = [tables.trades[t] EXCEPT
                                              !.status = status]])
    BY <1>8 DEF CloseTrade
  <2>2. [tables.trades[t] EXCEPT !.status = status] \in Trade
    BY <1>t DEF Trade, Statuses
  <2>3. [Idle EXCEPT !.pc = "close", !.trade_id = t,
                     !.offer = [tables.trades[t] EXCEPT !.status = status]]
          \in Job
    BY <2>2, IdleType DEF Job, Labels, OutsideTx
  <2>4. JobsType'
    BY <2>1, <2>3, BecomeType
  <2> QED
    BY <1>8, <2>4, ControlType DEF CloseTrade
<1>9. CASE WriteClosed(w)
  BY <1>9, <1>j, AtType, BecomeType, WriteTradeType, ControlType
     DEF WriteClosed, Labels, OutsideTx
<1> QED
  BY <1>1, <1>2, <1>3, <1>4, <1>5, <1>6, <1>7, <1>8, <1>9

LEMMA ExecuteKeepsTypes ==
  ASSUME WellTyped, NEW w \in Workers,
         \/ RemoveFromInventory(w) \/ UpdateOwner(w) \/ AddToInventory(w)
         \/ ApplyTradeLock(w) \/ LoadFromUser(w) \/ LoadToUser(w)
         \/ UpdateFromUser(w) \/ UpdateToUser(w)
  PROVE  WellTyped'
<1> USE DEF WellTyped
<1>j. /\ job[w] \in Job
      /\ job[w].offer \in Trade
      /\ job[w].offer.from_user \in Users
      /\ job[w].offer.to_user \in Users
      /\ job[w].todo \subseteq Items
      /\ job[w].moving \subseteq Items
      /\ job[w].from_balance \in Int
      /\ job[w].to_balance \in Int
  BY DEF JobsType, Job, Trade
<1>l. {"own", "give", "lock", "take", "to_cash", "pay_from", "pay_to", "call",
       "exec_rollback"} \subseteq Labels
  BY DEF Labels, InsideTx, Executing
<1>1. CASE RemoveFromInventory(w)
  <2>1. PICK i \in job[w].todo, ok \in Outcomes :
          LET row == <<Giver(job[w]), i>> IN
          IF ok
          THEN /\ Update([tables EXCEPT !.inventory = @ \ {row}],
                         IF row \in tables.inventory THEN 1 ELSE 0)
               /\ Become(w, [job[w] EXCEPT !.pc = "own", !.moving = {i}])
          ELSE Become(w, At(job[w], "exec_rollback")) /\ UNCHANGED connection
    BY <1>1 DEF RemoveFromInventory
  <2>2. [job[w] EXCEPT !.pc = "own", !.moving = {i}] \in Job
    BY <1>j, <1>l DEF Job
  <2>3. JobsType'
    BY <1>j, <1>l, <2>1, <2>2, AtType, BecomeType
  <2>4. [tables EXCEPT !.inventory = @ \ {<<Giver(job[w]), i>>}] \in Tables
    BY DEF ConnectionType, Tables
  <2>5. ConnectionType'
    BY <2>1, <2>4, UpdateType, ControlType
  <2> QED
    BY <2>3, <2>5
<1>2. CASE UpdateOwner(w)
  <2>1. PICK i \in job[w].moving, ok \in Outcomes :
          IF ok
          THEN /\ Update([tables EXCEPT !.owner[i] = Getter(job[w])], 1)
               /\ Become(w, At(job[w], "give"))
          ELSE Become(w, At(job[w], "exec_rollback")) /\ UNCHANGED connection
    BY <1>2 DEF UpdateOwner
  <2>2. JobsType'
    BY <1>j, <1>l, <2>1, AtType, BecomeType
  <2>3. [tables EXCEPT !.owner[i] = Getter(job[w])] \in Tables
    BY <1>j, UsersOfJob DEF ConnectionType, Tables
  <2>4. ConnectionType'
    BY <2>1, <2>3, UpdateType, ControlType
  <2> QED
    BY <2>2, <2>4
<1>3. CASE AddToInventory(w)
  <2>1. PICK i \in job[w].moving, ok \in Outcomes :
          LET row == <<Getter(job[w]), i>> IN
          IF ok
          THEN /\ IF row \in tables.inventory
                  THEN Update(tables, 0)
                  ELSE Insert([tables EXCEPT !.inventory = @ \cup {row}],
                              OtherRow)
               /\ Become(w, At(job[w], "lock"))
          ELSE Become(w, At(job[w], "exec_rollback")) /\ UNCHANGED connection
    BY <1>3 DEF AddToInventory
  <2>2. JobsType'
    BY <1>j, <1>l, <2>1, AtType, BecomeType
  <2>3. <<Getter(job[w]), i>> \in Users \X Items
    BY <1>j, UsersOfJob
  <2>4. /\ tables \in Tables
        /\ [tables EXCEPT !.inventory = @ \cup {<<Getter(job[w]), i>>}] \in Tables
    BY <2>3 DEF ConnectionType, Tables
  <2>5. ConnectionType'
    BY <2>1, <2>4, UpdateType, InsertType, ControlType
  <2> QED
    BY <2>2, <2>5
<1>4. CASE ApplyTradeLock(w)
  <2>1. [job[w] EXCEPT !.todo = @ \ job[w].moving, !.moving = {}] \in Job
    BY <1>j DEF Job
  <2>2. JobsType'
    BY <1>4, <1>l, <2>1, StartCashType, LoopType, BecomeType DEF ApplyTradeLock
  <2>3. tables \in Tables
    BY DEF ConnectionType
  <2>4. ConnectionType'
    BY <1>4, <2>3, UpdateType, ControlType DEF ApplyTradeLock
  <2> QED
    BY <2>2, <2>4
<1>5. CASE LoadFromUser(w)
  <2>1. tables.balance[job[w].offer.from_user] \in Int
    BY <1>j DEF ConnectionType, Tables
  <2>2. [job[w] EXCEPT !.pc = "to_cash",
           !.from_balance = tables.balance[job[w].offer.from_user]] \in Job
    BY <1>j, <1>l, <2>1 DEF Job
  <2>3. JobsType'
    BY <1>5, <2>2, BecomeType DEF LoadFromUser
  <2> QED
    BY <1>5, <2>3, ControlType DEF LoadFromUser
<1>6. CASE LoadToUser(w)
  <2>1. tables.balance[job[w].offer.to_user] \in Int
    BY <1>j DEF ConnectionType, Tables
  <2>2. ASSUME NEW from \in Int, NEW to \in Int
        PROVE  [job[w] EXCEPT !.pc = "pay_from", !.from_balance = from,
                              !.to_balance = to] \in Job
    BY <1>j, <1>l DEF Job
  <2>4. /\ job[w].from_balance - Payment(job[w]) \in Int
        /\ tables.balance[job[w].offer.to_user] + Payment(job[w]) \in Int
    BY <1>j, <2>1, UsersOfJob
  <2>3. JobsType'
    BY <1>6, <1>j, <1>l, <2>2, <2>4, AtType, BecomeType DEF LoadToUser
  <2> QED
    BY <1>6, <2>3, ControlType DEF LoadToUser
<1>7. CASE UpdateFromUser(w)
  <2>1. JobsType'
    BY <1>7, <1>j, <1>l, AtType, BecomeType DEF UpdateFromUser
  <2>2. [tables EXCEPT !.balance[job[w].offer.from_user] = job[w].from_balance]
          \in Tables
    BY <1>j DEF ConnectionType, Tables
  <2>3. ConnectionType'
    BY <1>7, <2>2, UpdateType, ControlType DEF UpdateFromUser
  <2> QED
    BY <2>1, <2>3
<1>8. CASE UpdateToUser(w)
  <2>1. [job[w] EXCEPT !.side = "requested"] \in Job
    BY <1>j DEF Job
  <2>2. JobsType'
    BY <1>8, <1>j, <1>l, <2>1, AtType, CashLoopType, BecomeType
       DEF UpdateToUser
  <2>3. [tables EXCEPT !.balance[job[w].offer.to_user] = job[w].to_balance]
          \in Tables
    BY <1>j DEF ConnectionType, Tables
  <2>4. ConnectionType'
    BY <1>8, <2>3, UpdateType, ControlType DEF UpdateToUser
  <2> QED
    BY <2>2, <2>4
<1> QED
  BY <1>1, <1>2, <1>3, <1>4, <1>5, <1>6, <1>7, <1>8

LEMMA CallsKeepTypes ==
  ASSUME WellTyped, NEW w \in Workers,
         \/ CallBegin(w) \/ CallLoad(w) \/ CallWrite(w) \/ CallCommit(w)
         \/ CallRollback(w) \/ UpdateChallenges(w)
  PROVE  WellTyped'
<1> USE DEF WellTyped
<1>j. job[w] \in Job /\ job[w].progress \in Nat
  BY DEF JobsType, Job
<1>l. {"call_load", "call_rollback", "call_write", "call_commit"} \subseteq Labels
  BY DEF Labels, InsideTx, Executing
<1>t. tables \in Tables
  BY DEF ConnectionType
<1>1. CASE CallBegin(w) \/ CallCommit(w) \/ CallRollback(w)
  BY <1>1, <1>j, <1>l, AtType, NextCallType, BecomeType, ControlType
     DEF CallBegin, CallCommit, CallRollback
<1>2. CASE CallLoad(w)
  <2>1. ASSUME NEW p \in Nat
        PROVE  [job[w] EXCEPT !.pc = "call_write", !.progress = p] \in Job
    BY <1>j, <1>l DEF Job
  <2>2. tables.progress[Subject(job[w])][QuestOf(job[w])] + 1 \in Nat
    BY <1>j, <1>t, UsersOfJob DEF Tables
  <2>3. JobsType'
    BY <1>2, <1>j, <1>l, <2>1, <2>2, AtType, BecomeType DEF CallLoad
  <2> QED
    BY <1>2, <2>3, ControlType DEF CallLoad
<1>3. CASE CallWrite(w)
  <2>1. JobsType'
    BY <1>3, <1>j, <1>l, AtType, BecomeType DEF CallWrite
  <2>2. [tables EXCEPT
           !.progress[Subject(job[w])][QuestOf(job[w])] = job[w].progress]
             \in Tables
    BY <1>j, <1>t, UsersOfJob DEF Tables
  <2>3. [tables EXCEPT !.first_trade = @ \cup {Subject(job[w])}] \in Tables
    BY <1>j, <1>t, UsersOfJob DEF Tables
  <2>4. ConnectionType'
    BY <1>3, <2>2, <2>3, UpdateType, InsertType, ControlType DEF CallWrite
  <2> QED
    BY <2>1, <2>4
<1>4. CASE UpdateChallenges(w)
  BY <1>4, <1>j, <1>t, NextCallType, BecomeType, UpdateType, ControlType
     DEF UpdateChallenges
<1> QED
  BY <1>1, <1>2, <1>3, <1>4

LEMMA EndKeepsTypes ==
  ASSUME WellTyped, NEW w \in Workers,
         \/ CommitTransaction(w) \/ LogReceiver(w) \/ ExecRollback(w)
         \/ RollbackTransaction(w)
  PROVE  WellTyped'
<1>1. job[w] \in Job
  BY DEF WellTyped, JobsType
<1>2. {"log_receiver", "rollback", "log"} \subseteq Labels
  BY DEF Labels, InsideTx, OutsideTx
<1> QED
  BY <1>1, <1>2, IdleType, AtType, BecomeType, ControlType, InsertLogType
     DEF WellTyped, CommitTransaction, LogReceiver, ExecRollback,
         RollbackTransaction

LEMMA HandlerKeepsTypes ==
  ASSUME WellTyped, NEW w \in Workers, Handler(w)
  PROVE  WellTyped'
BY SendKeepsTypes, AcceptKeepsTypes, ExecuteKeepsTypes, CallsKeepTypes,
   EndKeepsTypes DEF Handler

LEMMA HandlerKeepsRest ==
  ASSUME NEW w \in Workers, Handler(w)
  PROVE  /\ late' \subseteq late
         /\ requests' \in {requests, requests + 1}
<1>1. CASE SendTradeOffer(w) \/ AcceptTrade(w) \/ CloseTrade(w)
  BY <1>1 DEF SendTradeOffer, AcceptTrade, CloseTrade
<1>2. CASE SaveTrade(w)
  BY <1>2 DEF SaveTrade
<1>3. CASE \/ SendOwner(w) \/ SendPending(w) \/ SendFromCash(w)
           \/ SendToCash(w) \/ TakeRowId(w) \/ LogTransaction(w)
           \/ AcceptOwner(w) \/ AcceptInventory(w) \/ ExpireTrade(w)
           \/ BeginTransaction(w) \/ AtomicAccept(w) \/ ReadChanges(w)
           \/ WriteClosed(w)
  BY <1>3 DEF Running, SendOwner, SendPending, SendFromCash, SendToCash,
     TakeRowId, LogTransaction, AcceptOwner, AcceptInventory, ExpireTrade,
     BeginTransaction, AtomicAccept, ReadChanges, WriteClosed
<1>4. CASE \/ RemoveFromInventory(w) \/ UpdateOwner(w) \/ AddToInventory(w)
           \/ ApplyTradeLock(w) \/ LoadFromUser(w) \/ LoadToUser(w)
           \/ UpdateFromUser(w) \/ UpdateToUser(w) \/ CallBegin(w)
           \/ CallLoad(w) \/ CallWrite(w) \/ CallCommit(w)
           \/ CallRollback(w) \/ UpdateChallenges(w)
           \/ CommitTransaction(w) \/ LogReceiver(w) \/ ExecRollback(w)
           \/ RollbackTransaction(w)
  BY <1>4 DEF Running, RemoveFromInventory, UpdateOwner, AddToInventory,
     ApplyTradeLock, LoadFromUser, LoadToUser, UpdateFromUser, UpdateToUser,
     CallBegin, CallLoad, CallWrite, CallCommit, CallRollback,
     UpdateChallenges, CommitTransaction, LogReceiver, ExecRollback,
     RollbackTransaction
<1> QED
  BY <1>1, <1>2, <1>3, <1>4 DEF Handler

-----------------------------------------------------------------------------
LEMMA TypeInit == Init => TypeOK
<1> SUFFICES ASSUME Init PROVE TypeOK
  OBVIOUS
<1>1. PICK holder \in [Items -> Users], balance \in [Users -> Balances] :
        ConnectionInit(Rows(holder, balance))
  BY DEF Init
<1>2. balance \in [Users -> Int]
  <2>1. Balances \subseteq Int
    BY TradingAssumption
  <2> QED
    BY <2>1
<1>3. Opening \in [TradeIds -> Trade]
  BY TradingAssumption, OfferType, NoTradeType
<1>4. {<<holder[i], i>> : i \in Items} \subseteq Users \X Items
  OBVIOUS
<1>5. Rows(holder, balance) \in Tables
  BY <1>2, <1>3, <1>4 DEF Rows, Tables
<1>6. ConnectionType
  BY <1>1, <1>5 DEF ConnectionInit, ConnectionType
<1> QED
  BY <1>6, IdleType DEF Init, TypeOK, ConnectionType

LEMMA TypeStep == TypeOK /\ [Next]_vars => TypeOK'
<1> SUFFICES ASSUME TypeOK, [Next]_vars PROVE TypeOK'
  OBVIOUS
<1>1. WellTyped
  BY DEF TypeOK, WellTyped, ConnectionType, JobsType
<1>2. ASSUME NEW w \in Workers, Handler(w)
      PROVE  TypeOK'
  <2>1. WellTyped'
    BY <1>1, <1>2, HandlerKeepsTypes
  <2>2. (late \in SUBSET TradeIds)' /\ (requests \in Nat)'
    BY <1>2, HandlerKeepsRest DEF TypeOK
  <2> QED
    BY <2>1, <2>2 DEF TypeOK, WellTyped, ConnectionType, JobsType
<1>3. CASE Expire
  BY <1>3 DEF TypeOK, Expire, connection
<1>4. CASE Crash
  <2>1. ConnectionType'
    BY <1>1, <1>4, ControlType DEF Crash, WellTyped
  <2> QED
    BY <1>4, <2>1, IdleType DEF TypeOK, ConnectionType, Crash
<1>5. CASE UNCHANGED vars
  BY <1>5 DEF TypeOK, vars, connection
<1> QED
  BY <1>2, <1>3, <1>4, <1>5 DEF Next

(* The tables, the counters of the connection and the locals of every      *)
(* worker keep their types, whatever the interleaving.                     *)
THEOREM TypeCorrect == Spec => []TypeOK
BY TypeInit, TypeStep, PTL DEF Spec

-----------------------------------------------------------------------------
(* Where the helpers of the handlers send control.                         *)

LEMMA AtPc == ASSUME NEW j \in Job, NEW label PROVE At(j, label).pc = label
BY DEF At, Job

LEMMA LoopPc ==
  ASSUME NEW j \in Job, NEW label, NEW after
  PROVE  Loop(j, label, after).pc \in {label, after.pc}
BY DEF Loop, At, Job

LEMMA StartLoopPc ==
  ASSUME NEW j \in Job, NEW label, NEW after
  PROVE  StartLoop(j, label, after).pc \in {label, after.pc}
<1>1. j.offer.offered \in SUBSET Items
  BY DEF Job, Trade
<1>2. [j EXCEPT !.side = "offered", !.todo = j.offer.offered] \in Job
  BY <1>1 DEF Job
<1> QED
  BY <1>2, LoopPc DEF StartLoop

LEMMA CashLoopPc ==
  ASSUME NEW j \in Job PROVE CashLoop(j).pc \in {"from_cash", "call"}
BY DEF CashLoop, At, Job

LEMMA StartCashPc ==
  ASSUME NEW j \in Job PROVE StartCash(j).pc \in {"from_cash", "call"}
<1>1. [j EXCEPT !.side = "offered"] \in Job
  BY DEF Job
<1> QED
  BY <1>1, CashLoopPc DEF StartCash

LEMMA NextCallPc ==
  ASSUME NEW j \in Job PROVE NextCall(j).pc \in {"call", "commit"}
BY DEF NextCall, At, Job

(* What Become does to the two kinds of workers. *)
LEMMA BecomePc ==
  ASSUME JobsType, NEW w \in Workers, NEW j, Become(w, j)
  PROVE  job'[w] = j /\ \A v \in Workers \ {w} : job'[v] = job[v]
BY DEF JobsType, Become

-----------------------------------------------------------------------------
(* A step taken before BEGIN leaves the transaction as it is, or opens one *)
(* for the worker that took it.                                            *)
LEMMA OutsideStep ==
  ASSUME JobsType, NEW w \in Workers,
         \/ SendTradeOffer(w) \/ SendOwner(w) \/ SendPending(w)
         \/ SendFromCash(w) \/ SendToCash(w) \/ SaveTrade(w) \/ TakeRowId(w)
         \/ LogTransaction(w) \/ AcceptTrade(w) \/ AcceptOwner(w)
         \/ AcceptInventory(w) \/ ExpireTrade(w) \/ BeginTransaction(w)
         \/ CloseTrade(w) \/ WriteClosed(w) \/ LogReceiver(w)
  PROVE  /\ job[w].pc \notin InsideTx
         /\ \A v \in Workers \ {w} : job'[v] = job[v]
         /\ inTx' = inTx \/ job'[w].pc \in InsideTx
<1>1. \A v \in Workers \ {w} : job'[v] = job[v]
  <2>1. \E j : Become(w, j)
    BY DEF SendTradeOffer, SendOwner, SendPending, SendFromCash, SendToCash,
       SaveTrade, TakeRowId, LogTransaction, AcceptTrade, AcceptOwner,
       AcceptInventory, ExpireTrade, BeginTransaction, CloseTrade, WriteClosed,
       LogReceiver
  <2> QED
    BY <2>1, BecomePc
<1>2. job[w].pc \in OutsideTx
  BY DEF Running, OutsideTx, SendTradeOffer, SendOwner, SendPending,
     SendFromCash, SendToCash, SaveTrade, TakeRowId, LogTransaction,
     AcceptTrade, AcceptOwner, AcceptInventory, ExpireTrade, BeginTransaction,
     CloseTrade, WriteClosed, LogReceiver
<1>3. OutsideTx \cap InsideTx = {}
  BY DEF OutsideTx, InsideTx, Executing
<1>4. inTx' = inTx \/ job'[w].pc \in InsideTx
  <2>1. CASE BeginTransaction(w)
    <3>1. job[w] \in Job
      BY DEF JobsType
    <3> QED
      BY <2>1, <3>1, BecomePc, AtPc
         DEF BeginTransaction, BeginRefused, connection, InsideTx
  <2>2. CASE \/ SaveTrade(w) \/ LogTransaction(w) \/ ExpireTrade(w)
             \/ WriteClosed(w) \/ LogReceiver(w)
    BY <2>2 DEF SaveTrade, LogTransaction, ExpireTrade, WriteClosed,
       LogReceiver, InsertLog, WriteTrade, Insert, Update, Store, connection
  <2>3. CASE \/ SendTradeOffer(w) \/ SendOwner(w) \/ SendPending(w)
             \/ SendFromCash(w) \/ SendToCash(w) \/ TakeRowId(w)
             \/ AcceptTrade(w) \/ AcceptOwner(w) \/ AcceptInventory(w)
             \/ CloseTrade(w)
    BY <2>3 DEF SendTradeOffer, SendOwner, SendPending, SendFromCash,
       SendToCash, TakeRowId, AcceptTrade, AcceptOwner, AcceptInventory,
       CloseTrade, connection
  <2> QED
    BY <2>1, <2>2, <2>3
<1> QED
  BY <1>1, <1>2, <1>3, <1>4

(* A step taken after BEGIN ends the transaction, or leaves its worker     *)
(* where it still has to.                                                  *)
LEMMA InsideStep ==
  ASSUME JobsType, NEW w \in Workers,
         \/ AtomicAccept(w) \/ ReadChanges(w) \/ RemoveFromInventory(w)
         \/ UpdateOwner(w) \/ AddToInventory(w) \/ ApplyTradeLock(w)
         \/ LoadFromUser(w) \/ LoadToUser(w) \/ UpdateFromUser(w)
         \/ UpdateToUser(w) \/ CallBegin(w) \/ CallLoad(w) \/ CallWrite(w)
         \/ CallCommit(w) \/ CallRollback(w) \/ UpdateChallenges(w)
         \/ CommitTransaction(w) \/ ExecRollback(w) \/ RollbackTransaction(w)
  PROVE  \/ job'[w].pc \in InsideTx
         \/ ~inTx' /\ job'[w].pc \in {"idle", "log_receiver"}
<1>j. job[w] \in Job
  BY DEF JobsType
<1>l. {"take", "own", "give", "lock", "to_cash", "pay_from", "pay_to", "rollback",
       "exec_rollback", "call_write", "call_commit", "call_rollback"}
         \subseteq InsideTx
  BY DEF InsideTx, Executing
<1>1. CASE RemoveFromInventory(w)
  <2>1. PICK i \in Items \cup job[w].todo :
          \/ Become(w, [job[w] EXCEPT !.pc = "own", !.moving = {i}])
          \/ Become(w, At(job[w], "exec_rollback"))
    BY <1>1 DEF RemoveFromInventory
  <2>2. [job[w] EXCEPT !.pc = "own", !.moving = {i}].pc = "own"
    BY <1>j DEF Job
  <2>3. At(job[w], "exec_rollback").pc = "exec_rollback"
    BY <1>j, AtPc
  <2>4. \/ job'[w] = [job[w] EXCEPT !.pc = "own", !.moving = {i}]
        \/ job'[w] = At(job[w], "exec_rollback")
    BY <2>1, BecomePc
  <2> QED
    BY <2>2, <2>3, <2>4, <1>l
<1>2. CASE AtomicAccept(w) \/ UpdateOwner(w) \/ AddToInventory(w)
            \/ UpdateFromUser(w) \/ CallWrite(w)
  <2>1. PICK label \in InsideTx : Become(w, At(job[w], label))
    <3>1. "marked" \in InsideTx
      BY DEF InsideTx
    <3> QED
      BY <1>2, <1>l, <3>1
         DEF AtomicAccept, UpdateOwner, AddToInventory, UpdateFromUser,
             CallWrite
  <2>2. At(job[w], label).pc = label
    BY <1>j, AtPc
  <2>3. job'[w] = At(job[w], label)
    BY <2>1, BecomePc
  <2> QED
    BY <2>2, <2>3
<1>3. CASE ReadChanges(w)
  <2>1. StartLoop(job[w], "take", StartCash(job[w])).pc \in InsideTx
    BY <1>j, StartLoopPc, StartCashPc DEF InsideTx, Executing
  <2> QED
    BY <1>3, <1>j, <2>1, BecomePc, AtPc DEF ReadChanges, InsideTx
<1>4. CASE ApplyTradeLock(w)
  <2> DEFINE j == [job[w] EXCEPT !.todo = @ \ job[w].moving, !.moving = {}]
  <2>1. j \in Job
    BY <1>j DEF Job
  <2>2. Loop(j, "take", StartCash(j)).pc \in InsideTx
    BY <2>1, LoopPc, StartCashPc DEF InsideTx, Executing
  <2> QED
    BY <1>4, <2>2, BecomePc DEF ApplyTradeLock
<1>5. CASE LoadFromUser(w) \/ LoadToUser(w)
  <2>1. ASSUME NEW from, NEW to
        PROVE  /\ [job[w] EXCEPT !.pc = "to_cash", !.from_balance = from].pc
                    = "to_cash"
               /\ [job[w] EXCEPT !.pc = "pay_from", !.from_balance = from,
                                 !.to_balance = to].pc = "pay_from"
    BY <1>j DEF Job
  <2>2. PICK from, to :
          \/ Become(w, [job[w] EXCEPT !.pc = "to_cash", !.from_balance = from])
          \/ Become(w, [job[w] EXCEPT !.pc = "pay_from", !.from_balance = from,
                                     !.to_balance = to])
          \/ Become(w, At(job[w], "exec_rollback"))
    BY <1>5 DEF LoadFromUser, LoadToUser
  <2>3. At(job[w], "exec_rollback").pc = "exec_rollback"
    BY <1>j, AtPc
  <2>4. job'[w].pc \in {"to_cash", "pay_from", "exec_rollback"}
    <3>1. CASE Become(w, [job[w] EXCEPT !.pc = "to_cash",
                                        !.from_balance = from])
      <4>1. job'[w] = [job[w] EXCEPT !.pc = "to_cash", !.from_balance = from]
        BY <3>1, BecomePc
      <4> QED
        BY <2>1, <4>1
    <3>2. CASE Become(w, [job[w] EXCEPT !.pc = "pay_from",
                            !.from_balance = from, !.to_balance = to])
      <4>1. job'[w] = [job[w] EXCEPT !.pc = "pay_from",
                                     !.from_balance = from, !.to_balance = to]
        BY <3>2, BecomePc
      <4> QED
        BY <2>1, <4>1
    <3>3. CASE Become(w, At(job[w], "exec_rollback"))
      BY <2>3, <3>3, BecomePc
    <3> QED
      BY <2>2, <3>1, <3>2, <3>3
  <2> QED
    BY <2>4, <1>l
<1>6. CASE UpdateToUser(w)
  <2>1. [job[w] EXCEPT !.side = "requested"] \in Job
    BY <1>j DEF Job
  <2>2. CashLoop([job[w] EXCEPT !.side = "requested"]).pc \in InsideTx
    BY <2>1, CashLoopPc DEF InsideTx, Executing
  <2> QED
    BY <1>6, <1>j, <2>2, BecomePc, AtPc DEF UpdateToUser, InsideTx, Executing
<1>7. CASE CallBegin(w) \/ CallCommit(w) \/ CallRollback(w)
           \/ UpdateChallenges(w)
  <2>1. NextCall(job[w]).pc \in InsideTx
    BY <1>j, NextCallPc DEF InsideTx, Executing
  <2> QED
    BY <1>7, <1>j, <2>1, BecomePc, AtPc
       DEF CallBegin, CallCommit, CallRollback, UpdateChallenges, InsideTx,
           Executing
<1>8. CASE CallLoad(w)
  <2>1. PICK p :
          \/ Become(w, [job[w] EXCEPT !.pc = "call_write", !.progress = p])
          \/ Become(w, At(job[w], "call_rollback"))
    BY <1>8 DEF CallLoad
  <2>2. [job[w] EXCEPT !.pc = "call_write", !.progress = p].pc = "call_write"
    BY <1>j DEF Job
  <2>3. At(job[w], "call_rollback").pc = "call_rollback"
    BY <1>j, AtPc
  <2>4. \/ job'[w] = [job[w] EXCEPT !.pc = "call_write", !.progress = p]
        \/ job'[w] = At(job[w], "call_rollback")
    BY <2>1, BecomePc
  <2> QED
    BY <2>2, <2>3, <2>4, <1>l
<1>9. CASE CommitTransaction(w) \/ ExecRollback(w) \/ RollbackTransaction(w)
  <2>1. "rollback" \in InsideTx
    BY DEF InsideTx
  <2>2. ~inTx' \/ Become(w, At(job[w], "rollback"))
    BY <1>9 DEF CommitTransaction, ExecRollback, RollbackTransaction, Commit,
                Rollback
  <2>3. \/ Become(w, Idle)
        \/ Become(w, At(job[w], "rollback"))
        \/ Become(w, At(job[w], "log_receiver"))
    BY <1>9 DEF CommitTransaction, ExecRollback, RollbackTransaction
  <2>4. /\ Idle.pc = "idle"
        /\ At(job[w], "rollback").pc = "rollback"
        /\ At(job[w], "log_receiver").pc = "log_receiver"
    BY <1>j, AtPc DEF Idle
  <2>5. \/ job'[w] = Idle
        \/ job'[w] = At(job[w], "rollback")
        \/ job'[w] = At(job[w], "log_receiver")
    BY <2>3, BecomePc
  <2>6. ~inTx' \/ job'[w] = At(job[w], "rollback")
    BY <2>2, BecomePc
  <2>7. CASE job'[w] = At(job[w], "rollback")
    BY <2>1, <2>4, <2>7
  <2>8. CASE ~inTx' /\ job'[w] = Idle
    BY <2>4, <2>8
  <2>9. CASE ~inTx' /\ job'[w] = At(job[w], "log_receiver")
    BY <2>4, <2>9
  <2> QED
    BY <2>5, <2>6, <2>7, <2>8, <2>9
<1> QED
  BY <1>1, <1>2, <1>3, <1>4, <1>5, <1>6, <1>7, <1>8, <1>9

(* Whatever the interleaving and whatever fails, some worker still has to  *)
(* end the open transaction: none is left open by a handler that returned. *)
THEOREM TransactionOwned == Spec => []OpenTransactionHasOwner
<1>1. Init => OpenTransactionHasOwner
  BY DEF Init, ConnectionInit, OpenTransactionHasOwner
<1>2. TypeOK /\ OpenTransactionHasOwner /\ [Next]_vars
        => OpenTransactionHasOwner'
  <2> SUFFICES ASSUME TypeOK, OpenTransactionHasOwner, [Next]_vars, inTx'
               PROVE  \E v \in Workers : job'[v].pc \in InsideTx
    BY DEF OpenTransactionHasOwner
  <2>1. JobsType
    BY DEF TypeOK, JobsType
  <2>2. ASSUME NEW w \in Workers, Handler(w)
        PROVE  \E v \in Workers : job'[v].pc \in InsideTx
    <3>1. \/ job'[w].pc \in InsideTx
          \/ /\ inTx
             /\ job[w].pc \notin InsideTx
             /\ \A v \in Workers \ {w} : job'[v] = job[v]
      BY <2>1, <2>2, OutsideStep, InsideStep DEF Handler, TypeOK
    <3> QED
      BY <3>1 DEF OpenTransactionHasOwner
  <2>3. CASE Expire \/ UNCHANGED vars
    BY <2>3 DEF Expire, vars, connection, OpenTransactionHasOwner
  <2>4. CASE Crash
    BY <2>4 DEF Crash, Reopen
  <2> QED
    BY <2>2, <2>3, <2>4 DEF Next
<1> QED
  BY <1>1, <1>2, TypeCorrect, PTL DEF Spec

-----------------------------------------------------------------------------
(* Balances.  Besides the rows, the invariant speaks of the two User       *)
(* structs of every handler: what UpdateFromUser and UpdateToUser write.   *)

Funded(j) == j.from_balance >= 0 /\ j.to_balance >= 0

(* k has the balances of j in its User structs. *)
SameFunds(j, k) ==
  k.from_balance = j.from_balance /\ k.to_balance = j.to_balance

LEMMA HelpersKeepFunds ==
  ASSUME NEW j \in Job, NEW label
  PROVE  /\ SameFunds(j, At(j, label))
         /\ SameFunds(j, SendCash(j))
         /\ SameFunds(j, CashLoop(j))
         /\ SameFunds(j, GiveUp(j))
         /\ SameFunds(j, NextCall(j))
BY DEF SameFunds, At, SendCash, CashLoop, GiveUp, NextCall, Job

LEMMA LoopKeepsFunds ==
  ASSUME NEW j \in Job, NEW label, NEW after, SameFunds(j, after)
  PROVE  SameFunds(j, Loop(j, label, after))
BY DEF SameFunds, Loop, At, Job

LEMMA StartLoopKeepsFunds ==
  ASSUME NEW j \in Job, NEW label, NEW after, SameFunds(j, after)
  PROVE  SameFunds(j, StartLoop(j, label, after))
<1> DEFINE k == [j EXCEPT !.side = "offered", !.todo = j.offer.offered]
<1>1. j.offer.offered \in SUBSET Items
  BY DEF Job, Trade
<1>2. k \in Job
  BY <1>1 DEF Job
<1>3. SameFunds(j, k) /\ SameFunds(k, after)
  BY DEF SameFunds, Job
<1>4. SameFunds(k, Loop(k, label, after))
  BY <1>2, <1>3, LoopKeepsFunds
<1> QED
  BY <1>3, <1>4 DEF StartLoop, SameFunds

LEMMA StartCashKeepsFunds ==
  ASSUME NEW j \in Job
  PROVE  SameFunds(j, StartCash(j))
<1>1. [j EXCEPT !.side = "offered"] \in Job
  BY DEF Job
<1>2. SameFunds(j, [j EXCEPT !.side = "offered"])
  BY DEF Job, SameFunds
<1> QED
  BY <1>1, <1>2, HelpersKeepFunds DEF StartCash, SameFunds

JobsFunded == \A v \in Workers : Funded(job[v])

LEMMA IdleFunded == Funded(Idle)
BY DEF Funded, Idle

LEMMA BecomeFunded ==
  ASSUME JobsType, JobsFunded, NEW w \in Workers, NEW j, Become(w, j),
         Funded(j) \/ SameFunds(job[w], j)
  PROVE  JobsFunded'
<1>1. Funded(j)
  BY DEF JobsFunded, Funded, SameFunds
<1>2. \A v \in Workers : job'[v] = IF v = w THEN j ELSE job[v]
  BY BecomePc
<1> QED
  BY <1>1, <1>2 DEF JobsFunded

LEMMA SendKeepsFunded ==
  ASSUME JobsType, JobsFunded, NEW w \in Workers,
         \/ SendTradeOffer(w) \/ SendOwner(w) \/ SendPending(w)
         \/ SendFromCash(w) \/ SendToCash(w) \/ SaveTrade(w) \/ TakeRowId(w)
         \/ LogTransaction(w)
  PROVE  JobsFunded'
<1>j. job[w] \in Job
  BY DEF JobsType
<1>1. CASE SendTradeOffer(w)
  <2>1. PICK o \in Offers :
          Become(w, StartLoop([Idle EXCEPT !.offer = o], "send_owner",
                              SendCash([Idle EXCEPT !.offer = o])))
    BY <1>1 DEF SendTradeOffer
  <2> DEFINE j == [Idle EXCEPT !.offer = o]
             k == StartLoop(j, "send_owner", SendCash(j))
  <2>2. j \in Job
    BY IdleType, OfferType DEF Job
  <2>3. Funded(j)
    BY IdleFunded, IdleType DEF Funded, Job
  <2> HIDE DEF j
  <2>4. SameFunds(j, k)
    BY <2>2, HelpersKeepFunds, StartLoopKeepsFunds
  <2>5. Funded(k)
    BY <2>3, <2>4 DEF Funded, SameFunds
  <2>6. Become(w, k)
    BY <2>1 DEF j
  <2> QED
    BY <2>5, <2>6, BecomeFunded
<1>2. CASE SendOwner(w)
  <2>1. PICK i \in job[w].todo :
          Become(w, IF tables.owner[i] = Giver(job[w])
                    THEN [job[w] EXCEPT !.pc = "send_pending", !.moving = {i}]
                    ELSE Idle)
    BY <1>2 DEF SendOwner
  <2>2. SameFunds(job[w],
                  [job[w] EXCEPT !.pc = "send_pending", !.moving = {i}])
    BY <1>j DEF SameFunds, Job
  <2> QED
    BY <2>1, <2>2, IdleFunded, BecomeFunded
<1>3. CASE SendPending(w)
  <2>1. PICK i \in job[w].moving :
          LET j == [job[w] EXCEPT !.todo = @ \ {i}, !.moving = {}] IN
          Become(w, IF InPendingTrade(i) THEN Idle
                    ELSE Loop(j, "send_owner", SendCash(j)))
    BY <1>3 DEF SendPending
  <2> DEFINE j == [job[w] EXCEPT !.todo = @ \ {i}, !.moving = {}]
             k == Loop(j, "send_owner", SendCash(j))
  <2>2. j \in Job /\ SameFunds(job[w], j)
    BY <1>j DEF Job, SameFunds
  <2>3. Become(w, Idle) \/ Become(w, k)
    BY <2>1
  <2> HIDE DEF j
  <2>4. SameFunds(job[w], k)
    BY <2>2, HelpersKeepFunds, LoopKeepsFunds DEF SameFunds
  <2> QED
    BY <2>3, <2>4, IdleFunded, BecomeFunded
<1>4. CASE SendFromCash(w) \/ SendToCash(w) \/ SaveTrade(w)
  <2>1. Become(w, Idle) \/ \E label : Become(w, At(job[w], label))
    BY <1>4 DEF SendFromCash, SendToCash, SaveTrade
  <2> QED
    BY <2>1, <1>j, HelpersKeepFunds, IdleFunded, BecomeFunded
<1>5. CASE TakeRowId(w)
  <2>1. SameFunds(job[w], [job[w] EXCEPT !.pc = "log", !.trade_id = lastRow])
    BY <1>j DEF SameFunds, Job
  <2> QED
    BY <1>5, <2>1, BecomeFunded DEF TakeRowId
<1>6. CASE LogTransaction(w)
  BY <1>6, IdleFunded, BecomeFunded DEF LogTransaction
<1> QED
  BY <1>1, <1>2, <1>3, <1>4, <1>5, <1>6

LEMMA AcceptKeepsFunded ==
  ASSUME JobsType, ConnectionType, JobsFunded, NEW w \in Workers,
         \/ AcceptTrade(w) \/ AcceptOwner(w) \/ AcceptInventory(w)
         \/ ExpireTrade(w) \/ BeginTransaction(w) \/ AtomicAccept(w)
         \/ ReadChanges(w) \/ CloseTrade(w) \/ WriteClosed(w)
  PROVE  JobsFunded'
<1>j. job[w] \in Job
  BY DEF JobsType
<1>1. CASE AcceptTrade(w)
  <2>1. PICK t \in TradeIds :
          LET j == [Idle EXCEPT !.trade_id = t, !.offer = tables.trades[t]] IN
          Become(w, IF t \in late
                    THEN [j EXCEPT !.pc = "expire", !.offer.status = "expired"]
                    ELSE StartLoop(j, "accept_owner", At(j, "begin")))
    BY <1>1 DEF AcceptTrade
  <2> DEFINE j == [Idle EXCEPT !.trade_id = t, !.offer = tables.trades[t]]
             k == StartLoop(j, "accept_owner", At(j, "begin"))
  <2>2. j \in Job
    BY IdleType DEF ConnectionType, Tables, Job
  <2>3. Funded(j)
    BY IdleFunded, IdleType DEF Funded, Job
  <2>4. Become(w, GiveUp(j)) \/ Become(w, k)
    BY <2>1 DEF GiveUp
  <2> HIDE DEF j
  <2>5. SameFunds(j, k) /\ SameFunds(j, GiveUp(j))
    BY <2>2, HelpersKeepFunds, StartLoopKeepsFunds
  <2>6. Funded(k) /\ Funded(GiveUp(j))
    BY <2>3, <2>5 DEF Funded, SameFunds
  <2> QED
    BY <2>4, <2>6, BecomeFunded
<1>2. CASE AcceptOwner(w)
  <2>1. PICK i \in job[w].todo :
          Become(w, IF tables.owner[i] = Giver(job[w])
                    THEN [job[w] EXCEPT !.pc = "accept_inventory",
                                        !.moving = {i}]
                    ELSE GiveUp(job[w]))
    BY <1>2 DEF AcceptOwner
  <2>2. SameFunds(job[w],
                  [job[w] EXCEPT !.pc = "accept_inventory", !.moving = {i}])
    BY <1>j DEF SameFunds, Job
  <2> QED
    BY <1>j, <2>1, <2>2, HelpersKeepFunds, BecomeFunded
<1>3. CASE AcceptInventory(w)
  <2>1. PICK i \in job[w].moving :
          LET j == [job[w] EXCEPT !.todo = @ \ {i}, !.moving = {}] IN
          Become(w, IF <<Giver(j), i>> \in tables.inventory
                    THEN Loop(j, "accept_owner", At(j, "begin"))
                    ELSE GiveUp(j))
    BY <1>3 DEF AcceptInventory
  <2> DEFINE j == [job[w] EXCEPT !.todo = @ \ {i}, !.moving = {}]
             k == Loop(j, "accept_owner", At(j, "begin"))
  <2>2. j \in Job /\ SameFunds(job[w], j)
    BY <1>j DEF Job, SameFunds
  <2>3. Become(w, GiveUp(j)) \/ Become(w, k)
    BY <2>1
  <2> HIDE DEF j
  <2>4. SameFunds(job[w], k) /\ SameFunds(job[w], GiveUp(j))
    BY <2>2, HelpersKeepFunds, LoopKeepsFunds DEF SameFunds
  <2> QED
    BY <2>3, <2>4, BecomeFunded
<1>4. CASE \/ ExpireTrade(w) \/ BeginTransaction(w) \/ AtomicAccept(w)
           \/ WriteClosed(w)
  <2>1. Become(w, Idle) \/ \E label : Become(w, At(job[w], label))
    BY <1>4 DEF ExpireTrade, BeginTransaction, AtomicAccept, WriteClosed
  <2> QED
    BY <2>1, <1>j, HelpersKeepFunds, IdleFunded, BecomeFunded
<1>5. CASE ReadChanges(w)
  <2>1. SameFunds(job[w], StartLoop(job[w], "take", StartCash(job[w])))
    BY <1>j, StartCashKeepsFunds, StartLoopKeepsFunds
  <2> QED
    BY <1>5, <1>j, <2>1, HelpersKeepFunds, BecomeFunded DEF ReadChanges
<1>6. CASE CloseTrade(w)
  <2>1. PICK t, row :
          Become(w, [Idle EXCEPT !.pc = "close", !.trade_id = t, !.offer = row])
    BY <1>6 DEF CloseTrade
  <2>2. Funded([Idle EXCEPT !.pc = "close", !.trade_id = t, !.offer = row])
    BY IdleFunded, IdleType DEF Funded, Job
  <2> QED
    BY <2>1, <2>2, BecomeFunded
<1> QED
  BY <1>1, <1>2, <1>3, <1>4, <1>5, <1>6

LEMMA ExecuteKeepsFunded ==
  ASSUME JobsType, ConnectionType, JobsFunded, BalancesNeverNegative,
         NEW w \in Workers,
         \/ RemoveFromInventory(w) \/ UpdateOwner(w) \/ AddToInventory(w)
         \/ ApplyTradeLock(w) \/ LoadFromUser(w) \/ LoadToUser(w)
         \/ UpdateFromUser(w) \/ UpdateToUser(w)
  PROVE  JobsFunded'
<1>j. /\ job[w] \in Job
      /\ job[w].offer.from_user \in Users
      /\ job[w].offer.to_user \in Users
      /\ job[w].from_balance \in Int
      /\ Funded(job[w])
  BY DEF JobsType, Job, Trade, JobsFunded
<1>1. CASE RemoveFromInventory(w)
  <2>1. PICK i :
          \/ Become(w, [job[w] EXCEPT !.pc = "own", !.moving = {i}])
          \/ Become(w, At(job[w], "exec_rollback"))
    BY <1>1 DEF RemoveFromInventory
  <2>2. SameFunds(job[w], [job[w] EXCEPT !.pc = "own", !.moving = {i}])
    BY <1>j DEF SameFunds, Job
  <2> QED
    BY <1>j, <2>1, <2>2, HelpersKeepFunds, BecomeFunded
<1>2. CASE UpdateOwner(w) \/ AddToInventory(w) \/ UpdateFromUser(w)
  <2>1. \E label : Become(w, At(job[w], label))
    BY <1>2 DEF UpdateOwner, AddToInventory, UpdateFromUser
  <2> QED
    BY <2>1, <1>j, HelpersKeepFunds, BecomeFunded
<1>3. CASE ApplyTradeLock(w)
  <2> DEFINE j == [job[w] EXCEPT !.todo = @ \ job[w].moving, !.moving = {}]
             k == Loop(j, "take", StartCash(j))
  <2>1. j \in Job /\ SameFunds(job[w], j)
    BY <1>j DEF Job, SameFunds
  <2>2. Become(w, k)
    BY <1>3 DEF ApplyTradeLock
  <2> HIDE DEF j
  <2>3. SameFunds(job[w], k)
    BY <2>1, StartCashKeepsFunds, LoopKeepsFunds DEF SameFunds
  <2> QED
    BY <2>2, <2>3, BecomeFunded
<1>4. CASE LoadFromUser(w)
  <2> DEFINE k == [job[w] EXCEPT !.pc = "to_cash",
                     !.from_balance = tables.balance[job[w].offer.from_user]]
  <2>1. tables.balance[job[w].offer.from_user] >= 0
    BY <1>j DEF BalancesNeverNegative
  <2>2. Funded(k)
    BY <1>j, <2>1 DEF Funded, Job
  <2>3. Become(w, k)
    BY <1>4 DEF LoadFromUser
  <2> QED
    BY <2>2, <2>3, BecomeFunded
<1>5. CASE LoadToUser(w)
  <2> DEFINE pays == Payment(job[w])
             to   == tables.balance[job[w].offer.to_user]
             k(f, t) == [job[w] EXCEPT !.pc = "pay_from", !.from_balance = f,
                                       !.to_balance = t]
  <2>1. pays \in Int /\ to \in Int
    BY <1>j, UsersOfJob DEF ConnectionType, Tables
  <2>2. ASSUME NEW f, NEW t, f >= 0, t >= 0
        PROVE  Funded(k(f, t))
    BY <1>j, <2>2 DEF Funded, Job
  <2>3. CASE job[w].from_balance < pays \/ to < -pays
    <3>1. Become(w, At(job[w], "exec_rollback"))
      BY <1>5, <2>3 DEF LoadToUser
    <3> QED
      BY <1>j, <3>1, HelpersKeepFunds, BecomeFunded
  <2>4. CASE ~(job[w].from_balance < pays \/ to < -pays)
    <3>1. Become(w, k(job[w].from_balance - pays, to + pays))
      BY <1>5, <1>j, <2>4 DEF LoadToUser
    <3>2. job[w].from_balance - pays >= 0 /\ to + pays >= 0
      BY <1>j, <2>1, <2>4
    <3>3. Funded(k(job[w].from_balance - pays, to + pays))
      BY <2>2, <3>2
    <3> QED
      BY <3>1, <3>3, BecomeFunded
  <2> QED
    BY <2>3, <2>4
<1>6. CASE UpdateToUser(w)
  <2> DEFINE j == [job[w] EXCEPT !.side = "requested"]
  <2>1. j \in Job /\ SameFunds(job[w], j)
    BY <1>j DEF Job, SameFunds
  <2>2. \/ Become(w, CashLoop(j))
        \/ \E label : Become(w, At(job[w], label))
    BY <1>6 DEF UpdateToUser
  <2> HIDE DEF j
  <2>3. SameFunds(job[w], CashLoop(j))
    BY <2>1, HelpersKeepFunds DEF SameFunds
  <2> QED
    BY <1>j, <2>2, <2>3, HelpersKeepFunds, BecomeFunded
<1> QED
  BY <1>1, <1>2, <1>3, <1>4, <1>5, <1>6

LEMMA CallsKeepFunded ==
  ASSUME JobsType, JobsFunded, NEW w \in Workers,
         \/ CallBegin(w) \/ CallLoad(w) \/ CallWrite(w) \/ CallCommit(w)
         \/ CallRollback(w) \/ UpdateChallenges(w) \/ CommitTransaction(w)
         \/ LogReceiver(w) \/ ExecRollback(w) \/ RollbackTransaction(w)
  PROVE  JobsFunded'
<1>j. job[w] \in Job
  BY DEF JobsType
<1>1. CASE CallLoad(w)
  <2>1. PICK p :
          \/ Become(w, [job[w] EXCEPT !.pc = "call_write", !.progress = p])
          \/ Become(w, At(job[w], "call_rollback"))
    BY <1>1 DEF CallLoad
  <2>2. SameFunds(job[w], [job[w] EXCEPT !.pc = "call_write", !.progress = p])
    BY <1>j DEF SameFunds, Job
  <2> QED
    BY <1>j, <2>1, <2>2, HelpersKeepFunds, BecomeFunded
<1>2. CASE \/ CallBegin(w) \/ CallWrite(w) \/ CallCommit(w)
           \/ CallRollback(w) \/ UpdateChallenges(w) \/ CommitTransaction(w)
           \/ LogReceiver(w) \/ ExecRollback(w) \/ RollbackTransaction(w)
  <2>1. \/ Become(w, Idle)
        \/ Become(w, NextCall(job[w]))
        \/ \E label : Become(w, At(job[w], label))
    BY <1>2 DEF CallBegin, CallWrite, CallCommit, CallRollback,
       UpdateChallenges, CommitTransaction, LogReceiver, ExecRollback,
       RollbackTransaction
  <2> QED
    BY <1>j, <2>1, HelpersKeepFunds, IdleFunded, BecomeFunded
<1> QED
  BY <1>1, <1>2

-----------------------------------------------------------------------------
(* Rows.  What a step may leave in the tables: balances that are not       *)
(* negative, and processed trades that stay processed.  The latter needs   *)
(* to know what ExpireTrade and WriteClosed are about to write.            *)

Solvent(rows) == \A u \in Users : rows.balance[u] >= 0

KeepsProcessed(rows) ==
  \A t \in TradeIds : Processed(tables, t) => Processed(rows, t)

Closing == {"expire", "close"}

ClosesRow(j) == j.pc \in Closing => j.offer.status \notin {"none", "pending"}

JobsClose == \A w \in Workers : ClosesRow(job[w])

SafeWrite ==
  \E rows : Store(rows) /\ Solvent(rows) /\ KeepsProcessed(rows)

NoWrite ==
  \/ tables' = tables /\ durable' \in {tables, durable}
  \/ tables' = durable /\ durable' = durable

LEMMA ControlIsNoWrite ==
  ASSUME \/ UNCHANGED connection \/ Begin \/ BeginRefused
         \/ Commit \/ CommitRefused \/ Rollback \/ Reopen
  PROVE  NoWrite
BY DEF NoWrite, connection, Begin, BeginRefused, Commit, CommitRefused,
       Rollback, Reopen

LEMMA SameRowsSafe ==
  ASSUME ConnectionType, BalancesNeverNegative, NEW rows,
         rows.trades = tables.trades, rows.balance = tables.balance
  PROVE  Solvent(rows) /\ KeepsProcessed(rows)
BY DEF Solvent, KeepsProcessed, Processed, BalancesNeverNegative

LEMMA TradeRowSafe ==
  ASSUME ConnectionType, BalancesNeverNegative, NEW t, NEW row,
         row.status \notin {"none", "pending"}
           \/ (t \in TradeIds => tables.trades[t].status = "none")
  PROVE  /\ Solvent([tables EXCEPT !.trades[t] = row])
         /\ KeepsProcessed([tables EXCEPT !.trades[t] = row])
<1>1. /\ tables \in Tables
      /\ tables.trades \in [TradeIds -> Trade]
  BY DEF ConnectionType, Tables
<1>2. /\ [tables EXCEPT !.trades[t] = row].balance = tables.balance
      /\ [tables EXCEPT !.trades[t] = row].trades
           = [tables.trades EXCEPT ![t] = row]
  BY <1>1 DEF Tables
<1>3. \A s \in TradeIds : [tables.trades EXCEPT ![t] = row][s]
                            = IF s = t THEN row ELSE tables.trades[s]
  BY <1>1
<1> QED
  BY <1>2, <1>3 DEF Solvent, KeepsProcessed, Processed, BalancesNeverNegative

LEMMA WriteTradeSafe ==
  ASSUME ConnectionType, BalancesNeverNegative, NEW t, NEW row,
         row.status \notin {"none", "pending"}, WriteTrade(t, row)
  PROVE  SafeWrite
<1>1. Solvent(tables) /\ KeepsProcessed(tables)
  BY SameRowsSafe
<1> QED
  BY <1>1, TradeRowSafe DEF WriteTrade, Update, SafeWrite

LEMMA InsertLogSafe ==
  ASSUME ConnectionType, BalancesNeverNegative, InsertLog
  PROVE  SafeWrite \/ NoWrite
BY SameRowsSafe, ControlIsNoWrite DEF InsertLog, Insert, SafeWrite

(* The handlers up to BEGIN, and what they log afterwards. *)
LEMMA OutsideWrites ==
  ASSUME ConnectionType, JobsType, BalancesNeverNegative, JobsClose,
         NEW w \in Workers,
         \/ SendTradeOffer(w) \/ SendOwner(w) \/ SendPending(w)
         \/ SendFromCash(w) \/ SendToCash(w) \/ SaveTrade(w) \/ TakeRowId(w)
         \/ LogTransaction(w) \/ AcceptTrade(w) \/ AcceptOwner(w)
         \/ AcceptInventory(w) \/ ExpireTrade(w) \/ BeginTransaction(w)
         \/ CloseTrade(w) \/ WriteClosed(w) \/ LogReceiver(w)
  PROVE  SafeWrite \/ NoWrite
<1>1. CASE \/ SendTradeOffer(w) \/ SendOwner(w) \/ SendPending(w)
           \/ SendFromCash(w) \/ SendToCash(w) \/ TakeRowId(w)
           \/ AcceptTrade(w) \/ AcceptOwner(w) \/ AcceptInventory(w)
           \/ BeginTransaction(w) \/ CloseTrade(w)
  BY <1>1, ControlIsNoWrite
     DEF SendTradeOffer, SendOwner, SendPending, SendFromCash, SendToCash,
         TakeRowId, AcceptTrade, AcceptOwner, AcceptInventory,
         BeginTransaction, CloseTrade
<1>2. CASE SaveTrade(w)
  <2>1. CASE UNCHANGED connection
    BY <2>1, ControlIsNoWrite
  <2>2. CASE ~UNCHANGED connection
    <3>1. PICK t \in TradeIds :
            /\ tables.trades[t].status = "none"
            /\ Insert([tables EXCEPT !.trades[t] = job[w].offer], t)
      BY <1>2, <2>2 DEF SaveTrade, connection
    <3> QED
      BY <3>1, TradeRowSafe DEF Insert, SafeWrite
  <2> QED
    BY <2>1, <2>2
<1>3. CASE LogTransaction(w) \/ LogReceiver(w)
  BY <1>3, InsertLogSafe DEF LogTransaction, LogReceiver
<1>4. CASE ExpireTrade(w) \/ WriteClosed(w)
  <2>1. job[w].offer.status \notin {"none", "pending"}
    BY <1>4
       DEF ExpireTrade, WriteClosed, Running, JobsClose, ClosesRow, Closing
  <2> QED
    BY <1>4, <2>1, WriteTradeSafe, ControlIsNoWrite DEF ExpireTrade, WriteClosed
<1> QED
  BY <1>1, <1>2, <1>3, <1>4

(* The handler inside its transaction. *)
LEMMA InsideWrites ==
  ASSUME ConnectionType, JobsType, JobsFunded, BalancesNeverNegative,
         NEW w \in Workers,
         \/ AtomicAccept(w) \/ ReadChanges(w) \/ RemoveFromInventory(w)
         \/ UpdateOwner(w) \/ AddToInventory(w) \/ ApplyTradeLock(w)
         \/ LoadFromUser(w) \/ LoadToUser(w) \/ UpdateFromUser(w)
         \/ UpdateToUser(w) \/ CallBegin(w) \/ CallLoad(w) \/ CallWrite(w)
         \/ CallCommit(w) \/ CallRollback(w) \/ UpdateChallenges(w)
         \/ CommitTransaction(w) \/ ExecRollback(w) \/ RollbackTransaction(w)
  PROVE  SafeWrite \/ NoWrite
<1> USE DEF Update, Insert
<1>t. tables \in Tables
  BY DEF ConnectionType
<1>s. Solvent(tables) /\ KeepsProcessed(tables)
  BY SameRowsSafe
<1>1. CASE \/ ReadChanges(w) \/ LoadFromUser(w) \/ LoadToUser(w)
           \/ CallBegin(w) \/ CallLoad(w) \/ CallCommit(w) \/ CallRollback(w)
           \/ CommitTransaction(w) \/ ExecRollback(w) \/ RollbackTransaction(w)
  BY <1>1, ControlIsNoWrite
     DEF ReadChanges, LoadFromUser, LoadToUser, CallBegin, CallLoad,
         CallCommit, CallRollback, CommitTransaction, ExecRollback,
         RollbackTransaction
<1>2. CASE AtomicAccept(w)
  <2> DEFINE t    == job[w].trade_id
             rows == [tables EXCEPT !.trades[t].status = "accepted"]
  <2>1. Solvent(rows) /\ KeepsProcessed(rows)
    <3>1. /\ rows.balance = tables.balance
          /\ rows.trades = [tables.trades EXCEPT ![t].status = "accepted"]
      BY <1>t DEF Tables
    <3>2. \A s \in TradeIds :
            rows.trades[s].status
              = IF s = t THEN "accepted" ELSE tables.trades[s].status
      BY <1>t, <3>1 DEF Tables, Trade
    <3> HIDE DEF rows
    <3> QED
      BY <3>1, <3>2
         DEF Solvent, KeepsProcessed, Processed, BalancesNeverNegative
  <2>2. Store(rows) \/ Store(tables) \/ UNCHANGED connection
    BY <1>2 DEF AtomicAccept
  <2> HIDE DEF rows
  <2> QED
    BY <2>1, <2>2, <1>s, ControlIsNoWrite DEF SafeWrite
<1>3. CASE RemoveFromInventory(w) \/ UpdateOwner(w) \/ AddToInventory(w)
  <2>1. \/ UNCHANGED connection
        \/ \E x : Store([tables EXCEPT !.inventory = x])
        \/ \E x : Store([tables EXCEPT !.owner = x])
        \/ Store(tables)
    <3>1. CASE RemoveFromInventory(w)
      BY <3>1, <1>t DEF RemoveFromInventory, Tables
    <3>2. CASE UpdateOwner(w)
      BY <3>2, <1>t DEF UpdateOwner, Tables
    <3>3. CASE AddToInventory(w)
      BY <3>3, <1>t DEF AddToInventory, Tables
    <3> QED
      BY <1>3, <3>1, <3>2, <3>3
  <2>2. ASSUME NEW x
        PROVE  /\ Solvent([tables EXCEPT !.inventory = x])
               /\ KeepsProcessed([tables EXCEPT !.inventory = x])
               /\ Solvent([tables EXCEPT !.owner = x])
               /\ KeepsProcessed([tables EXCEPT !.owner = x])
    BY <1>t, SameRowsSafe DEF Tables
  <2> QED
    BY <1>s, <2>1, <2>2, ControlIsNoWrite DEF SafeWrite
<1>4. CASE ApplyTradeLock(w) \/ UpdateChallenges(w)
  BY <1>4, <1>s, ControlIsNoWrite DEF ApplyTradeLock, UpdateChallenges, SafeWrite
<1>5. CASE UpdateFromUser(w) \/ UpdateToUser(w)
  <2>1. PICK u \in Users, n \in {job[w].from_balance, job[w].to_balance} :
          UNCHANGED connection \/ Store([tables EXCEPT !.balance[u] = n])
    <3>1. job[w].offer.from_user \in Users /\ job[w].offer.to_user \in Users
      BY DEF JobsType, Job, Trade
    <3> QED
      BY <1>5, <3>1 DEF UpdateFromUser, UpdateToUser
  <2>2. n >= 0
    BY <2>1 DEF JobsFunded, Funded
  <2> DEFINE rows == [tables EXCEPT !.balance[u] = n]
  <2>3. /\ rows.trades = tables.trades
        /\ \A v \in Users : rows.balance[v]
                               = IF v = u THEN n ELSE tables.balance[v]
    BY <1>t DEF Tables
  <2>4. UNCHANGED connection \/ Store(rows)
    BY <2>1
  <2> HIDE DEF rows
  <2>5. Solvent(rows) /\ KeepsProcessed(rows)
    BY <2>2, <2>3
       DEF Solvent, KeepsProcessed, Processed, BalancesNeverNegative
  <2> QED
    BY <2>4, <2>5, ControlIsNoWrite DEF SafeWrite
<1>6. CASE CallWrite(w)
  <2>1. \/ UNCHANGED connection
        \/ \E x : Store([tables EXCEPT !.progress = x])
        \/ \E x : Store([tables EXCEPT !.first_trade = x])
    BY <1>6, <1>t DEF CallWrite, Tables
  <2>2. ASSUME NEW x
        PROVE  /\ Solvent([tables EXCEPT !.progress = x])
               /\ KeepsProcessed([tables EXCEPT !.progress = x])
               /\ Solvent([tables EXCEPT !.first_trade = x])
               /\ KeepsProcessed([tables EXCEPT !.first_trade = x])
    BY <1>t, SameRowsSafe DEF Tables
  <2> QED
    BY <2>1, <2>2, ControlIsNoWrite DEF SafeWrite
<1> QED
  BY <1>1, <1>2, <1>3, <1>4, <1>5, <1>6

-----------------------------------------------------------------------------
(* A handler that is about to write a row back writes a processed one.     *)

LEMMA BecomeCloses ==
  ASSUME JobsType, JobsClose, NEW w \in Workers, NEW j, Become(w, j),
         ClosesRow(j)
  PROVE  JobsClose'
<1>1. \A v \in Workers : job'[v] = IF v = w THEN j ELSE job[v]
  BY BecomePc
<1> QED
  BY <1>1 DEF JobsClose

LEMMA OpenPcCloses ==
  ASSUME NEW j, j.pc \notin Closing
  PROVE  ClosesRow(j)
BY DEF ClosesRow

LEMMA SendCashPc ==
  ASSUME NEW j \in Job
  PROVE  SendCash(j).pc \in {"send_from_cash", "send_to_cash", "save"}
BY DEF SendCash, At, Job

LEMMA GiveUpCloses == ASSUME NEW j \in Job PROVE ClosesRow(GiveUp(j))
<1>1. GiveUp(j).offer.status = "expired"
  BY DEF GiveUp, Job, Trade
<1> QED
  BY <1>1 DEF ClosesRow

LEMMA OutsideCloses ==
  ASSUME ConnectionType, JobsType, JobsClose, NEW w \in Workers,
         \/ SendTradeOffer(w) \/ SendOwner(w) \/ SendPending(w)
         \/ SendFromCash(w) \/ SendToCash(w) \/ SaveTrade(w) \/ TakeRowId(w)
         \/ LogTransaction(w) \/ AcceptTrade(w) \/ AcceptOwner(w)
         \/ AcceptInventory(w) \/ ExpireTrade(w) \/ BeginTransaction(w)
         \/ CloseTrade(w) \/ WriteClosed(w) \/ LogReceiver(w)
  PROVE  JobsClose'
<1>j. job[w] \in Job
  BY DEF JobsType
<1>i. ClosesRow(Idle)
  BY DEF ClosesRow, Idle, Closing
<1>1. CASE SendTradeOffer(w)
  <2>1. PICK o \in Offers :
          Become(w, StartLoop([Idle EXCEPT !.offer = o], "send_owner",
                              SendCash([Idle EXCEPT !.offer = o])))
    BY <1>1 DEF SendTradeOffer
  <2> DEFINE j == [Idle EXCEPT !.offer = o]
             k == StartLoop(j, "send_owner", SendCash(j))
  <2>2. j \in Job
    BY IdleType, OfferType DEF Job
  <2>3. Become(w, k)
    BY <2>1
  <2> HIDE DEF j
  <2>4. k.pc \notin Closing
    BY <2>2, SendCashPc, StartLoopPc DEF Closing
  <2> QED
    BY <2>3, <2>4, OpenPcCloses, BecomeCloses
<1>2. CASE SendOwner(w) \/ AcceptOwner(w)
  <2>1. PICK i \in job[w].todo, label \in {"send_pending", "accept_inventory"} :
          \/ Become(w, [job[w] EXCEPT !.pc = label, !.moving = {i}])
          \/ Become(w, Idle)
          \/ Become(w, GiveUp(job[w]))
    BY <1>2 DEF SendOwner, AcceptOwner
  <2>2. [job[w] EXCEPT !.pc = label, !.moving = {i}].pc \notin Closing
    BY <1>j, <2>1 DEF Job, Closing
  <2> QED
    BY <1>j, <1>i, <2>1, <2>2, GiveUpCloses, OpenPcCloses, BecomeCloses
<1>3. CASE SendPending(w) \/ AcceptInventory(w)
  <2>1. PICK i :
          LET j == [job[w] EXCEPT !.todo = @ \ {i}, !.moving = {}] IN
          \/ Become(w, Idle)
          \/ Become(w, Loop(j, "send_owner", SendCash(j)))
          \/ Become(w, GiveUp(j))
          \/ Become(w, Loop(j, "accept_owner", At(j, "begin")))
    BY <1>3 DEF SendPending, AcceptInventory
  <2> DEFINE j == [job[w] EXCEPT !.todo = @ \ {i}, !.moving = {}]
             k == Loop(j, "send_owner", SendCash(j))
             l == Loop(j, "accept_owner", At(j, "begin"))
  <2>2. j \in Job
    BY <1>j DEF Job
  <2>3. Become(w, Idle) \/ Become(w, k) \/ Become(w, GiveUp(j)) \/ Become(w, l)
    BY <2>1
  <2> HIDE DEF j
  <2>4. k.pc \notin Closing
    BY <2>2, SendCashPc, LoopPc DEF Closing
  <2>5. l.pc \notin Closing
    BY <2>2, AtPc, LoopPc DEF Closing
  <2> QED
    BY <1>i, <2>2, <2>3, <2>4, <2>5, GiveUpCloses, OpenPcCloses, BecomeCloses
<1>4. CASE \/ SendFromCash(w) \/ SendToCash(w) \/ SaveTrade(w)
           \/ LogTransaction(w) \/ ExpireTrade(w) \/ BeginTransaction(w)
           \/ WriteClosed(w) \/ LogReceiver(w)
  <2>1. \/ Become(w, Idle)
        \/ \E label \in {"send_to_cash", "save", "rowid", "mark", "log"} :
             Become(w, At(job[w], label))
    BY <1>4 DEF SendFromCash, SendToCash, SaveTrade, LogTransaction,
       ExpireTrade, BeginTransaction, WriteClosed, LogReceiver
  <2>2. \A label \in {"send_to_cash", "save", "rowid", "mark", "log"} :
          ClosesRow(At(job[w], label))
    BY <1>j, AtPc, OpenPcCloses DEF Closing
  <2> QED
    BY <1>i, <2>1, <2>2, BecomeCloses
<1>5. CASE TakeRowId(w)
  <2>1. [job[w] EXCEPT !.pc = "log", !.trade_id = lastRow].pc \notin Closing
    BY <1>j DEF Job, Closing
  <2> QED
    BY <1>5, <2>1, OpenPcCloses, BecomeCloses DEF TakeRowId
<1>6. CASE AcceptTrade(w)
  <2>1. PICK t \in TradeIds :
          LET j == [Idle EXCEPT !.trade_id = t, !.offer = tables.trades[t]] IN
          Become(w, IF t \in late
                    THEN [j EXCEPT !.pc = "expire", !.offer.status = "expired"]
                    ELSE StartLoop(j, "accept_owner", At(j, "begin")))
    BY <1>6 DEF AcceptTrade
  <2> DEFINE j == [Idle EXCEPT !.trade_id = t, !.offer = tables.trades[t]]
             k == StartLoop(j, "accept_owner", At(j, "begin"))
  <2>2. j \in Job
    BY IdleType DEF ConnectionType, Tables, Job
  <2>3. Become(w, GiveUp(j)) \/ Become(w, k)
    BY <2>1 DEF GiveUp
  <2> HIDE DEF j
  <2>4. k.pc \notin Closing
    BY <2>2, AtPc, StartLoopPc DEF Closing
  <2> QED
    BY <2>2, <2>3, <2>4, GiveUpCloses, OpenPcCloses, BecomeCloses
<1>7. CASE CloseTrade(w)
  <2>1. PICK t \in TradeIds, status \in {"declined", "cancelled"} :
          Become(w, [Idle EXCEPT !.pc = "close", !.trade_id = t,
                                 !.offer = [tables.trades[t] EXCEPT
                                              !.status = status]])
    BY <1>7 DEF CloseTrade
  <2> DEFINE row == [tables.trades[t] EXCEPT !.status = status]
  <2>2. row.status = status
    BY DEF ConnectionType, Tables, Trade
  <2>3. [Idle EXCEPT !.pc = "close", !.trade_id = t, !.offer = row].offer = row
    BY DEF Idle
  <2>4. ClosesRow([Idle EXCEPT !.pc = "close", !.trade_id = t, !.offer = row])
    BY <2>2, <2>3 DEF ClosesRow
  <2> QED
    BY <2>1, <2>4, BecomeCloses
<1> QED
  BY <1>1, <1>2, <1>3, <1>4, <1>5, <1>6, <1>7

LEMMA InsideCloses ==
  ASSUME JobsType, JobsClose, NEW w \in Workers,
         \/ AtomicAccept(w) \/ ReadChanges(w) \/ RemoveFromInventory(w)
         \/ UpdateOwner(w) \/ AddToInventory(w) \/ ApplyTradeLock(w)
         \/ LoadFromUser(w) \/ LoadToUser(w) \/ UpdateFromUser(w)
         \/ UpdateToUser(w) \/ CallBegin(w) \/ CallLoad(w) \/ CallWrite(w)
         \/ CallCommit(w) \/ CallRollback(w) \/ UpdateChallenges(w)
         \/ CommitTransaction(w) \/ ExecRollback(w) \/ RollbackTransaction(w)
  PROVE  JobsClose'
<1>1. job'[w].pc \in InsideTx \cup {"idle", "log_receiver"}
  BY InsideStep
<1>2. job'[w].pc \notin Closing
  BY <1>1 DEF InsideTx, Executing, Closing
<1>3. PICK j : Become(w, j)
  BY DEF AtomicAccept, ReadChanges, RemoveFromInventory, UpdateOwner,
     AddToInventory, ApplyTradeLock, LoadFromUser, LoadToUser, UpdateFromUser,
     UpdateToUser, CallBegin, CallLoad, CallWrite, CallCommit, CallRollback,
     UpdateChallenges, CommitTransaction, ExecRollback, RollbackTransaction
<1>4. job'[w] = j
  BY <1>3, BecomePc
<1> QED
  BY <1>2, <1>3, <1>4, OpenPcCloses, BecomeCloses

-----------------------------------------------------------------------------
(* What is inductive: the types, balances that are not negative in the     *)
(* tables and in the User structs, processed rows in the handlers that     *)
(* close a trade, and no processed trade on disk that is open in the       *)
(* tables.                                                                 *)
SafetyInv ==
  /\ TypeOK
  /\ BalancesNeverNegative
  /\ JobsFunded
  /\ JobsClose
  /\ \A t \in TradeIds : Processed(durable, t) => Processed(tables, t)

LEMMA SafetyInit == Init => SafetyInv
<1> SUFFICES ASSUME Init PROVE SafetyInv
  OBVIOUS
<1>1. PICK holder \in [Items -> Users], balance \in [Users -> Balances] :
        ConnectionInit(Rows(holder, balance))
  BY DEF Init
<1>2. Balances \subseteq Nat
  BY TradingAssumption
<1>3. BalancesNeverNegative
  <2>1. tables.balance = balance /\ durable.balance = balance
    BY <1>1 DEF ConnectionInit, Rows
  <2>2. \A u \in Users : balance[u] \in Nat
    BY <1>2
  <2> QED
    BY <2>1, <2>2 DEF BalancesNeverNegative
<1>4. TypeOK
  BY TypeInit
<1>5. JobsFunded /\ JobsClose
  BY IdleFunded DEF Init, JobsFunded, JobsClose, ClosesRow, Idle, Closing
<1>6. tables = durable
  BY <1>1 DEF ConnectionInit
<1> QED
  BY <1>3, <1>4, <1>5, <1>6 DEF SafetyInv, Processed

LEMMA SafetyStep ==
  ASSUME SafetyInv, [Next]_vars
  PROVE  /\ SafetyInv'
         /\ \A t \in TradeIds : Processed(durable, t) => Processed(durable', t)
<1> USE DEF SafetyInv
<1>t. ConnectionType /\ JobsType
  BY DEF TypeOK, ConnectionType, JobsType
<1>1. TypeOK'
  BY TypeStep
<1>2. SafeWrite \/ NoWrite
  <2>1. ASSUME NEW w \in Workers, Handler(w)
        PROVE  SafeWrite \/ NoWrite
    BY <1>t, <2>1, OutsideWrites, InsideWrites DEF Handler
  <2>2. CASE Expire \/ UNCHANGED vars
    BY <2>2, ControlIsNoWrite DEF Expire, vars
  <2>3. CASE Crash
    BY <2>3, ControlIsNoWrite DEF Crash
  <2> QED
    BY <2>1, <2>2, <2>3 DEF Next
<1>3. JobsFunded' /\ JobsClose'
  <2>1. ASSUME NEW w \in Workers, Handler(w)
        PROVE  JobsFunded' /\ JobsClose'
    <3>1. JobsFunded'
      BY <1>t, <2>1, SendKeepsFunded, AcceptKeepsFunded, ExecuteKeepsFunded,
         CallsKeepFunded DEF Handler
    <3>2. JobsClose'
      BY <1>t, <2>1, OutsideCloses, InsideCloses DEF Handler
    <3> QED
      BY <3>1, <3>2
  <2>2. CASE Expire \/ UNCHANGED vars
    BY <2>2 DEF Expire, vars, JobsFunded, JobsClose
  <2>3. CASE Crash
    BY <2>3, IdleFunded
       DEF Crash, JobsFunded, JobsClose, ClosesRow, Idle, Closing
  <2> QED
    BY <2>1, <2>2, <2>3 DEF Next
<1>4. BalancesNeverNegative'
  <2>1. CASE NoWrite
    BY <2>1 DEF NoWrite, BalancesNeverNegative
  <2>2. CASE SafeWrite
    BY <2>2 DEF SafeWrite, Store, Solvent, BalancesNeverNegative
  <2> QED
    BY <1>2, <2>1, <2>2
<1>5. /\ \A t \in TradeIds : Processed(durable', t) => Processed(tables', t)
      /\ \A t \in TradeIds : Processed(durable, t) => Processed(durable', t)
  <2>1. CASE NoWrite
    BY <2>1 DEF NoWrite
  <2>2. CASE SafeWrite
    BY <2>2 DEF SafeWrite, Store, KeepsProcessed
  <2> QED
    BY <1>2, <2>1, <2>2
<1> QED
  BY <1>1, <1>3, <1>4, <1>5 DEF Processed

LEMMA Safety == Spec => []SafetyInv
BY SafetyInit, SafetyStep, PTL DEF Spec

(* No interleaving of the handlers, no failing statement and no crash      *)
(* makes a balance negative in the tables or on disk, although every       *)
(* transfer writes absolute balances computed from earlier reads.          *)
THEOREM NeverOverdrawn == Spec => []BalancesNeverNegative
BY Safety, PTL DEF SafetyInv

(* On disk a trade that was accepted, declined, cancelled or expired never *)
(* becomes pending or free again.                                          *)
THEOREM ProcessedStaysProcessed == Spec => NeverPendingAgain
<1>1. SafetyInv /\ [Next]_vars
        => [\A t \in TradeIds : Processed(durable, t)
                                => Processed(durable', t)]_vars
  BY SafetyStep
<1> QED
  BY <1>1, Safety, PTL DEF Spec, NeverPendingAgain

-----------------------------------------------------------------------------
(* Requests that do not overlap: while a worker is in the middle of one,   *)
(* the others are idle, as with a pool of one worker.  Then, on disk,      *)
(* every item is held once, and the handlers implement TradeBook.  Two     *)
(* accepts at once break both: each checks the owners before it begins its *)
(* transaction and moves the items without looking again.                  *)

Serial ==
  \A v, w \in Workers : job[v].pc # "idle" /\ job[w].pc # "idle" => v = w

(* A pool of one worker is serial. *)
LEMMA OneWorkerIsSerial ==
  ASSUME \A v, w \in Workers : v = w
  PROVE  []Serial
<1>1. Serial
  BY DEF Serial
<1> QED
  BY <1>1, PTL

(* Of the array it goes through, what a handler has behind it. *)
Array(j) == IF j.side = "offered" THEN j.offer.offered ELSE j.offer.requested
InArray(j) == j.todo \subseteq Array(j)
PassedOffered(j) ==
  IF j.side = "offered" THEN j.offer.offered \ j.todo ELSE j.offer.offered
PassedRequested(j) ==
  IF j.side = "offered" THEN {} ELSE j.offer.requested \ j.todo
One(j) == \E i \in j.todo : j.moving = {i}

(* In what follows r are the rows as the connection sees them, d those on  *)
(* disk.  A handler on its way to BEGIN has loaded a pending trade and     *)
(* checked who owns the items behind it.                                   *)
Accepts(j, d) ==
  /\ j.trade_id \in TradeIds
  /\ j.offer = d.trades[j.trade_id]
  /\ j.offer.status = "pending"
Checked(j, d) ==
  /\ \A i \in PassedOffered(j) : d.owner[i] = j.offer.from_user
  /\ \A i \in PassedRequested(j) : d.owner[i] = j.offer.to_user
Owned(o, d) ==
  /\ \A i \in o.offered : d.owner[i] = o.from_user
  /\ \A i \in o.requested : d.owner[i] = o.to_user

(* One that closes a trade is about to write back the row it has loaded. *)
Closes(j, d) ==
  /\ j.trade_id \in TradeIds
  /\ d.trades[j.trade_id].status = "pending"
  /\ \E status \in {"declined", "cancelled", "expired"} :
       j.offer = [d.trades[j.trade_id] EXCEPT !.status = status]

(* The transaction of accept_trade: the trade is marked, ... *)
TradeMarked(j, r, d) ==
  r.trades = [d.trades EXCEPT ![j.trade_id].status = "accepted"]

(* ... the items change hands one by one, ... *)
HeldBy(r, away) ==
  \A u \in Users, i \in Items :
    <<u, i>> \in r.inventory <=> r.owner[i] = u /\ i \notin away
OwnersMoved(o, given, taken, r, d) ==
  \A i \in Items : r.owner[i] = IF i \in given THEN o.to_user
                                ELSE IF i \in taken THEN o.from_user
                                ELSE d.owner[i]
Handed(j) == IF j.pc \in {"give", "lock"} THEN j.moving ELSE {}
Away(j) == IF j.pc \in {"own", "give"} THEN j.moving ELSE {}
Moving(j, r, d) ==
  /\ InArray(j)
  /\ j.pc # "take" => One(j)
  /\ OwnersMoved(j.offer,
                 PassedOffered(j) \cup (IF j.side = "offered" THEN Handed(j) ELSE {}),
                 PassedRequested(j) \cup (IF j.side = "offered" THEN {} ELSE Handed(j)),
                 r, d)
  /\ HeldBy(r, Away(j))
  /\ r.balance = d.balance

(* ... and then the money, first what from_user pays, then what to_user    *)
(* pays: from_user has given x in all, and to_user has got y.              *)
Transferred(o, x, y, r, d) ==
  \A u \in Users : r.balance[u] = IF u = o.from_user THEN d.balance[u] - x
                                  ELSE IF u = o.to_user THEN d.balance[u] + y
                                  ELSE d.balance[u]
Before(j) == IF j.side = "offered" THEN 0 ELSE j.offer.offered_cash
CanPay(o, d) == d.balance[o.from_user] >= o.offered_cash
CanPayBack(o, d) == d.balance[o.to_user] + o.offered_cash >= o.requested_cash
Exchanged(o, r, d) ==
  OwnersMoved(o, o.offered, o.requested, r, d) /\ HeldBy(r, {})
Paying(j, r, d) ==
  /\ Exchanged(j.offer, r, d)
  /\ j.side = "offered" => j.offer.offered_cash > 0
  /\ j.side = "requested" \/ j.pc \in {"pay_from", "pay_to"} => CanPay(j.offer, d)
  /\ j.side = "requested" /\ j.pc \in {"pay_from", "pay_to"} => CanPayBack(j.offer, d)
  /\ Transferred(j.offer,
                 IF j.pc = "pay_to" THEN Before(j) + Payment(j) ELSE Before(j),
                 Before(j), r, d)
  /\ j.pc = "to_cash" => j.from_balance = r.balance[j.offer.from_user]
  /\ j.pc = "pay_from" => j.from_balance = r.balance[j.offer.from_user] - Payment(j)
  /\ j.pc \in {"pay_from", "pay_to"} =>
       j.to_balance = r.balance[j.offer.to_user] + Payment(j)
Paid(j, r, d) ==
  /\ Exchanged(j.offer, r, d)
  /\ CanPay(j.offer, d) /\ CanPayBack(j.offer, d)
  /\ LET net == j.offer.offered_cash - j.offer.requested_cash IN
     Transferred(j.offer, net, net, r, d)

Sending == {"send_owner", "send_pending", "send_from_cash", "send_to_cash", "save"}
Checking == {"accept_owner", "accept_inventory"}
MovingSteps == {"take", "own", "give", "lock"}
PayingSteps == {"from_cash", "to_cash", "pay_from", "pay_to"}
PaidSteps == {"call", "commit"}
Marking == {"marked"} \cup MovingSteps \cup PayingSteps \cup PaidSteps

(* What the locals j of a handler know about the rows, when x says whether *)
(* a transaction is open and n is sqlite3_changes.                         *)
Stage(j, r, d, x, n) ==
  /\ j.pc \in Sending => j.offer \in Offers
  /\ j.pc \in Checking => Accepts(j, d) /\ InArray(j) /\ Checked(j, d)
  /\ j.pc = "accept_inventory" => One(j) /\ \A i \in j.moving : d.owner[i] = Giver(j)
  /\ j.pc \in {"begin", "mark"} \cup Marking => Accepts(j, d) /\ Owned(j.offer, d)
  /\ j.pc \in Closing => Closes(j, d)
  /\ j.pc \in {"mark", "exec_rollback"} \cup Marking => x
  /\ j.pc = "mark" => r = d
  /\ j.pc \in Marking => TradeMarked(j, r, d)
  /\ j.pc = "marked" => n = 1 /\ r.owner = d.owner /\ r.inventory = d.inventory
                              /\ r.balance = d.balance
  /\ j.pc \in MovingSteps => Moving(j, r, d)
  /\ j.pc \in PayingSteps => Paying(j, r, d)
  /\ j.pc \in PaidSteps => Paid(j, r, d)
  /\ j.pc \notin {"call_load", "call_write", "call_commit", "call_rollback"}

(* Nobody trades with himself. *)
TwoParties(d) ==
  \A t \in TradeIds : d.trades[t].status = "pending"
                      => d.trades[t].from_user # d.trades[t].to_user

SerialInv ==
  /\ HeldBy(durable, {})
  /\ TwoParties(durable)
  /\ ~inTx => tables = durable
  /\ \A w \in Workers : Stage(job[w], tables, durable, inTx, changes)

-----------------------------------------------------------------------------
(* What the helpers of the handlers keep of the locals.                    *)

(* The locals work on the same offer. *)
Same(j, k) == k.offer = j.offer /\ k.trade_id = j.trade_id

(* l is where the loops go on after round j: at label with the same items  *)
(* behind, or past both arrays.                                            *)
GoesOn(j, l, label) ==
  /\ l.pc = label
  /\ Same(j, l)
  /\ InArray(l)
  /\ l.moving = j.moving
  /\ PassedOffered(l) = PassedOffered(j)
  /\ PassedRequested(l) = PassedRequested(j)
ThroughBoth(j) ==
  /\ PassedOffered(j) = j.offer.offered
  /\ PassedRequested(j) = j.offer.requested

LEMMA LoopCases ==
  ASSUME NEW j \in Job, InArray(j), NEW label, NEW after
  PROVE  \/ GoesOn(j, Loop(j, label, after), label)
         \/ Loop(j, label, after) = after /\ ThroughBoth(j)
<1> DEFINE k == [j EXCEPT !.pc = label, !.side = "requested",
                          !.todo = j.offer.requested]
<1>1. CASE j.todo # {}
  <2>1. Loop(j, label, after) = At(j, label)
    BY <1>1 DEF Loop
  <2>2. /\ At(j, label).pc = label /\ At(j, label).offer = j.offer
        /\ At(j, label).trade_id = j.trade_id /\ At(j, label).todo = j.todo
        /\ At(j, label).side = j.side /\ At(j, label).moving = j.moving
    BY DEF At, Job
  <2> QED
    BY <2>1, <2>2
    DEF GoesOn, Same, InArray, Array, PassedOffered, PassedRequested
<1>2. CASE j.todo = {} /\ j.side = "offered" /\ j.offer.requested # {}
  <2>1. Loop(j, label, after) = k
    BY <1>2 DEF Loop
  <2>2. /\ k.pc = label /\ k.offer = j.offer /\ k.trade_id = j.trade_id
        /\ k.todo = j.offer.requested /\ k.side = "requested"
        /\ k.moving = j.moving
    BY DEF Job
  <2> HIDE DEF k
  <2> QED
    BY <1>2, <2>1, <2>2
    DEF GoesOn, Same, InArray, Array, PassedOffered, PassedRequested
<1>3. CASE j.todo = {} /\ ~(j.side = "offered" /\ j.offer.requested # {})
  <2>1. Loop(j, label, after) = after
    BY <1>3 DEF Loop
  <2>2. ThroughBoth(j)
    BY <1>3 DEF ThroughBoth, PassedOffered, PassedRequested
  <2> QED
    BY <2>1, <2>2
<1> QED
  BY <1>1, <1>2, <1>3

(* The loops start with everything ahead. *)
LEMMA StartLoopCases ==
  ASSUME NEW j \in Job, NEW label, NEW after
  PROVE  \E k \in Job :
           /\ Same(j, k) /\ InArray(k) /\ k.moving = j.moving
           /\ PassedOffered(k) = {} /\ PassedRequested(k) = {}
           /\ \/ GoesOn(k, StartLoop(j, label, after), label)
              \/ StartLoop(j, label, after) = after /\ ThroughBoth(k)
<1> DEFINE k == [j EXCEPT !.side = "offered", !.todo = j.offer.offered]
<1>1. j.offer.offered \in SUBSET Items
  BY DEF Job, Trade
<1>2. k \in Job
  BY <1>1 DEF Job
<1>3. /\ k.offer = j.offer /\ k.trade_id = j.trade_id /\ k.side = "offered"
      /\ k.todo = j.offer.offered /\ k.moving = j.moving
  BY DEF Job
<1>4. StartLoop(j, label, after) = Loop(k, label, after)
  BY DEF StartLoop
<1> HIDE DEF k
<1>5. /\ Same(j, k) /\ InArray(k)
      /\ PassedOffered(k) = {} /\ PassedRequested(k) = {}
  BY <1>3 DEF Same, InArray, Array, PassedOffered, PassedRequested
<1> QED
  BY <1>2, <1>3, <1>4, <1>5, LoopCases

(* SendPending, AcceptInventory and ApplyTradeLock put an item behind. *)
LEMMA PutBehind ==
  ASSUME NEW j \in Job, NEW m, m \subseteq j.todo, InArray(j)
  PROVE  LET k == [j EXCEPT !.todo = @ \ m, !.moving = {}] IN
         /\ k \in Job /\ Same(j, k) /\ InArray(k)
         /\ k.side = j.side /\ k.pc = j.pc /\ k.moving = {}
         /\ PassedOffered(k)
              = PassedOffered(j) \cup (IF j.side = "offered" THEN m ELSE {})
         /\ PassedRequested(k)
              = PassedRequested(j) \cup (IF j.side = "offered" THEN {} ELSE m)
<1> DEFINE k == [j EXCEPT !.todo = @ \ m, !.moving = {}]
<1>1. k \in Job
  BY DEF Job
<1>2. /\ k.offer = j.offer /\ k.trade_id = j.trade_id /\ k.side = j.side
      /\ k.todo = j.todo \ m /\ k.moving = {} /\ k.pc = j.pc
  BY DEF Job
<1> HIDE DEF k
<1>3. Same(j, k) /\ InArray(k)
  BY <1>2 DEF Same, InArray, Array
<1>4. /\ PassedOffered(k)
           = PassedOffered(j) \cup (IF j.side = "offered" THEN m ELSE {})
      /\ PassedRequested(k)
           = PassedRequested(j) \cup (IF j.side = "offered" THEN {} ELSE m)
  BY <1>2 DEF PassedOffered, PassedRequested, InArray, Array
<1> QED
  BY <1>1, <1>2, <1>3, <1>4 DEF k

-----------------------------------------------------------------------------
(* Stage, label by label.                                                  *)

FreeSteps == {"idle", "rowid", "log", "log_receiver", "rollback"}

LEMMA FreeStage ==
  ASSUME NEW j, NEW r, NEW d, NEW x, NEW n, j.pc \in FreeSteps
  PROVE  Stage(j, r, d, x, n)
BY DEF Stage, FreeSteps, Sending, Checking, Marking, Closing, MovingSteps,
       PayingSteps, PaidSteps

LEMMA SendingStage ==
  ASSUME NEW j, NEW r, NEW d, NEW x, NEW n, j.pc \in Sending, j.offer \in Offers
  PROVE  Stage(j, r, d, x, n)
BY DEF Stage, Sending, Checking, Marking, Closing, MovingSteps, PayingSteps,
       PaidSteps

LEMMA CheckingStage ==
  ASSUME NEW j, NEW r, NEW d, NEW x, NEW n,
         Accepts(j, d), InArray(j), Checked(j, d),
         \/ j.pc = "accept_owner"
         \/ /\ j.pc = "accept_inventory" /\ One(j)
            /\ \A i \in j.moving : d.owner[i] = Giver(j)
  PROVE  Stage(j, r, d, x, n)
BY DEF Stage, Sending, Checking, Marking, Closing, MovingSteps, PayingSteps,
       PaidSteps

LEMMA ReadyStage ==
  ASSUME NEW j, NEW r, NEW d, NEW x, NEW n,
         Accepts(j, d), Owned(j.offer, d),
         j.pc = "begin" \/ (j.pc = "mark" /\ x /\ r = d)
  PROVE  Stage(j, r, d, x, n)
BY DEF Stage, Sending, Checking, Marking, Closing, MovingSteps, PayingSteps,
       PaidSteps

LEMMA ClosingStage ==
  ASSUME NEW j, NEW r, NEW d, NEW x, NEW n, j.pc \in Closing, Closes(j, d)
  PROVE  Stage(j, r, d, x, n)
BY DEF Stage, Sending, Checking, Marking, Closing, MovingSteps, PayingSteps,
       PaidSteps

LEMMA UndoStage ==
  ASSUME NEW j, NEW r, NEW d, NEW x, NEW n, j.pc = "exec_rollback", x
  PROVE  Stage(j, r, d, x, n)
BY DEF Stage, Sending, Checking, Marking, Closing, MovingSteps, PayingSteps,
       PaidSteps

(* What every step of the transaction knows. *)
Begun(j, r, d) == Accepts(j, d) /\ Owned(j.offer, d) /\ TradeMarked(j, r, d)

LEMMA MarkingStage ==
  ASSUME NEW j, NEW r, NEW d, NEW x, NEW n, x, Begun(j, r, d),
         \/ j.pc \in MovingSteps /\ Moving(j, r, d)
         \/ j.pc \in PayingSteps /\ Paying(j, r, d)
         \/ j.pc \in PaidSteps /\ Paid(j, r, d)
  PROVE  Stage(j, r, d, x, n)
BY DEF Stage, Begun, Sending, Checking, Marking, Closing, MovingSteps,
       PayingSteps, PaidSteps

LEMMA StageBegun ==
  ASSUME NEW j, NEW r, NEW d, NEW x, NEW n, j.pc \in Marking,
         Stage(j, r, d, x, n)
  PROVE  /\ x /\ Begun(j, r, d)
         /\ j.pc \in MovingSteps => Moving(j, r, d)
         /\ j.pc \in PayingSteps => Paying(j, r, d)
         /\ j.pc \in PaidSteps => Paid(j, r, d)
BY DEF Stage, Begun

LEMMA SameBegun ==
  ASSUME NEW j, NEW k, NEW r, NEW s, NEW d,
         Begun(j, r, d), Same(j, k), s.trades = r.trades
  PROVE  Begun(k, s, d)
BY DEF Begun, Same, Accepts, TradeMarked

-----------------------------------------------------------------------------
(* It is the turn of worker w: no other is in the middle of a request.     *)
Turn(w) ==
  /\ w \in Workers
  /\ ConnectionType /\ JobsType
  /\ BalancesNeverNegative
  /\ \A v \in Workers \ {w} : job[v].pc = "idle"
  /\ HeldBy(durable, {})
  /\ TwoParties(durable)
  /\ ~inTx => tables = durable
  /\ inTx => job[w].pc \in InsideTx
  /\ Stage(job[w], tables, durable, inTx, changes)

LEMMA TurnFacts ==
  ASSUME NEW w, Turn(w)
  PROVE  /\ w \in Workers
         /\ job[w] \in Job
         /\ JobsType
         /\ tables \in Tables
         /\ durable \in Tables
         /\ job[w].offer \in Trade
         /\ Stage(job[w], tables, durable, inTx, changes)
         /\ ~inTx => tables = durable
BY DEF Turn, ConnectionType, JobsType, Job

LEMMA TurnOutside ==
  ASSUME NEW w, Turn(w), job[w].pc \in OutsideTx
  PROVE  ~inTx /\ tables = durable
BY DEF Turn, OutsideTx, InsideTx, Executing

(* What the step is to keep, and what it is to be for TradeBook. *)
BookStep == [Book!Next]_(Book!book)
Kept == SerialInv' /\ BookStep

(* The worker whose turn it is goes on at i. *)
LEMMA StagesKept ==
  ASSUME NEW w, Turn(w), NEW i, Become(w, i),
         Stage(i, tables', durable', inTx', changes')
  PROVE  \A v \in Workers : Stage(job[v]', tables', durable', inTx', changes')
<1>1. job'[w] = i /\ \A v \in Workers \ {w} : job'[v] = job[v]
  BY TurnFacts, BecomePc
<1>2. \A v \in Workers \ {w} : job'[v].pc \in FreeSteps
  BY <1>1 DEF Turn, FreeSteps
<1>3. ASSUME NEW v \in Workers \ {w}
      PROVE  Stage(job[v]', tables', durable', inTx', changes')
  BY <1>2, FreeStage
<1> QED
  BY <1>1, <1>3

(* A step that leaves the disk alone. *)
LEMMA QuietKept ==
  ASSUME NEW w, Turn(w), NEW i, Become(w, i),
         Stage(i, tables', durable', inTx', changes'),
         durable' = durable, ~inTx' => tables' = durable
  PROVE  Kept
<1>1. HeldBy(durable', {}) /\ TwoParties(durable')
  BY DEF Turn
<1>2. \A v \in Workers : Stage(job[v]', tables', durable', inTx', changes')
  BY StagesKept
<1>3. (~inTx => tables = durable)'
  OBVIOUS
<1>4. UNCHANGED Book!book
  BY DEF Book!book
<1> QED
  BY <1>1, <1>2, <1>3, <1>4 DEF Kept, SerialInv, BookStep

LEMMA IdleStage == ASSUME NEW r, NEW d, NEW x, NEW n PROVE Stage(Idle, r, d, x, n)
<1>1. Idle.pc \in FreeSteps
  BY DEF Idle, FreeSteps
<1> QED
  BY <1>1, FreeStage

LEMMA AtFree ==
  ASSUME NEW j \in Job, NEW label \in FreeSteps, NEW r, NEW d, NEW x, NEW n
  PROVE  Stage(At(j, label), r, d, x, n)
BY AtPc, FreeStage

(* A step that does not touch the connection. *)
LEMMA StillKept ==
  ASSUME NEW w, Turn(w), NEW i, Become(w, i), UNCHANGED connection,
         Stage(i, tables, durable, inTx, changes)
  PROVE  Kept
<1>1. UNCHANGED <<tables, durable, inTx, changes>>
  BY DEF connection
<1> QED
  BY <1>1, QuietKept DEF Turn

(* A write of rows that are not to reach the disk yet, or that the disk    *)
(* has already.                                                            *)
LEMMA StoreKept ==
  ASSUME NEW w, Turn(w), NEW i, Become(w, i), NEW rows, Store(rows),
         inTx \/ rows = tables,
         Stage(i, rows, durable, inTx, changes')
  PROVE  Kept
<1>1. tables' = rows /\ durable' = durable /\ inTx' = inTx
  BY DEF Store, Turn
<1>2. ~inTx' => tables' = durable
  BY <1>1 DEF Turn
<1> QED
  BY <1>1, <1>2, QuietKept

LEMMA SameHeld ==
  ASSUME NEW r, NEW s, NEW away, HeldBy(r, away),
         s.owner = r.owner, s.inventory = r.inventory
  PROVE  HeldBy(s, away)
BY DEF HeldBy

-----------------------------------------------------------------------------
(* send_trade_offer.                                                       *)

LEMMA SendCashStage ==
  ASSUME NEW j \in Job, j.offer \in Offers, NEW r, NEW d, NEW x, NEW n
  PROVE  Stage(SendCash(j), r, d, x, n)
<1>1. SendCash(j).pc \in Sending
  BY SendCashPc DEF Sending
<1>2. SendCash(j).offer = j.offer
  BY DEF SendCash, At, Job
<1> QED
  BY <1>1, <1>2, SendingStage

LEMMA SendStepKept ==
  ASSUME NEW w, Turn(w),
         SendOwner(w) \/ SendFromCash(w) \/ SendToCash(w)
  PROVE  Kept
<1>1. job[w] \in Job /\ job[w].pc \in Sending /\ UNCHANGED connection
  BY TurnFacts DEF SendOwner, SendFromCash, SendToCash, Running, Sending
<1>2. job[w].offer \in Offers
  BY <1>1, TurnFacts DEF Stage
<1>3. CASE SendOwner(w)
  <2>1. PICK i \in job[w].todo :
          \/ Become(w, [job[w] EXCEPT !.pc = "send_pending", !.moving = {i}])
          \/ Become(w, Idle)
    BY <1>3 DEF SendOwner
  <2> DEFINE k == [job[w] EXCEPT !.pc = "send_pending", !.moving = {i}]
  <2>2. k.pc \in Sending /\ k.offer = job[w].offer
    BY <1>1 DEF Job, Sending
  <2>3. Become(w, k) \/ Become(w, Idle)
    BY <2>1
  <2> HIDE DEF k
  <2>4. Stage(k, tables, durable, inTx, changes)
    BY <1>2, <2>2, SendingStage
  <2> QED
    BY <1>1, <2>3, <2>4, IdleStage, StillKept
<1>4. CASE SendFromCash(w) \/ SendToCash(w)
  <2>1. \/ Become(w, Idle)
        \/ \E label \in {"send_to_cash", "save"} : Become(w, At(job[w], label))
    BY <1>4 DEF SendFromCash, SendToCash
  <2>2. ASSUME NEW label \in {"send_to_cash", "save"}
        PROVE  Stage(At(job[w], label), tables, durable, inTx, changes)
    <3>1. At(job[w], label).pc \in Sending /\ At(job[w], label).offer = job[w].offer
      BY <1>1 DEF At, Job, Sending
    <3> QED
      BY <1>2, <3>1, SendingStage
  <2> QED
    BY <1>1, <2>1, <2>2, IdleStage, StillKept
<1> QED
  BY <1>3, <1>4

LEMMA LoopSends ==
  ASSUME NEW j \in Job, j.offer \in Offers, NEW r, NEW d, NEW x, NEW n
  PROVE  Stage(Loop(j, "send_owner", SendCash(j)), r, d, x, n)
<1> DEFINE l == Loop(j, "send_owner", SendCash(j))
<1>1. l = SendCash(j) \/ (l.pc = "send_owner" /\ l.offer = j.offer)
  BY DEF Loop, At, Job
<1> HIDE DEF l
<1>2. Stage(l, r, d, x, n)
  <2>1. CASE l = SendCash(j)
    BY <2>1, SendCashStage
  <2>2. CASE l.pc = "send_owner" /\ l.offer = j.offer
    BY <2>2, SendingStage DEF Sending
  <2> QED
    BY <1>1, <2>1, <2>2
<1> QED
  BY <1>2 DEF l

LEMMA SendPendingKept ==
  ASSUME NEW w, Turn(w), SendPending(w)
  PROVE  Kept
<1>1. job[w] \in Job /\ job[w].pc \in Sending /\ UNCHANGED connection
  BY TurnFacts DEF SendPending, Running, Sending
<1>2. job[w].offer \in Offers
  BY <1>1, TurnFacts DEF Stage
<1>3. PICK i : LET j == [job[w] EXCEPT !.todo = @ \ {i}, !.moving = {}] IN
               \/ Become(w, Idle)
               \/ Become(w, Loop(j, "send_owner", SendCash(j)))
  BY DEF SendPending
<1> DEFINE j == [job[w] EXCEPT !.todo = @ \ {i}, !.moving = {}]
<1>4. j \in Job /\ j.offer = job[w].offer
  BY <1>1 DEF Job
<1>5. Become(w, Idle) \/ Become(w, Loop(j, "send_owner", SendCash(j)))
  BY <1>3
<1> HIDE DEF j
<1>6. Stage(Loop(j, "send_owner", SendCash(j)), tables, durable, inTx, changes)
  BY <1>2, <1>4, LoopSends
<1> QED
  BY <1>1, <1>5, <1>6, IdleStage, StillKept

LEMMA SendTradeOfferKept ==
  ASSUME NEW w, Turn(w), SendTradeOffer(w)
  PROVE  Kept
<1>1. PICK o \in Offers :
        Become(w, StartLoop([Idle EXCEPT !.offer = o], "send_owner",
                            SendCash([Idle EXCEPT !.offer = o])))
  BY DEF SendTradeOffer
<1> DEFINE j == [Idle EXCEPT !.offer = o]
           k == [j EXCEPT !.side = "offered", !.todo = j.offer.offered]
           l == StartLoop(j, "send_owner", SendCash(j))
<1>2. j \in Job /\ j.offer = o
  BY IdleType, OfferType DEF Job
<1>3. Become(w, l)
  BY <1>1
<1> HIDE DEF j
<1>4. SendCash(k) \in Job /\ k \in Job /\ k.offer = o
  BY <1>2, SendCashType DEF Job, Trade
<1>5. l = SendCash(j) \/ (l.pc = "send_owner" /\ l.offer = o)
  BY <1>2, <1>4 DEF StartLoop, Loop, At, Job
<1>6. Stage(l, tables, durable, inTx, changes)
  <2> HIDE DEF l
  <2>1. CASE l = SendCash(j)
    BY <1>2, <2>1, SendCashStage
  <2>2. CASE l.pc = "send_owner" /\ l.offer = o
    BY <2>2, SendingStage DEF Sending
  <2> QED
    BY <1>5, <2>1, <2>2
<1>7. UNCHANGED connection
  BY DEF SendTradeOffer
<1> HIDE DEF l
<1> QED
  BY <1>3, <1>6, <1>7, StillKept

(* The row that the INSERT leaves is the offer the client sent. *)
LEMMA SaveTradeKept ==
  ASSUME NEW w, Turn(w), SaveTrade(w)
  PROVE  Kept
<1>1. job[w] \in Job /\ job[w].pc = "save" /\ tables \in Tables
  BY TurnFacts DEF SaveTrade
<1>2. job[w].offer \in Offers
  BY <1>1, TurnFacts DEF Stage, Sending
<1>3. ~inTx /\ tables = durable
  BY <1>1, TurnOutside DEF OutsideTx
<1>4. CASE Become(w, Idle) /\ UNCHANGED connection
  BY <1>4, IdleStage, StillKept
<1>5. ASSUME NEW t \in TradeIds, tables.trades[t].status = "none",
             Insert([tables EXCEPT !.trades[t] = job[w].offer], t),
             Become(w, At(job[w], "rowid"))
      PROVE  Kept
  <2> DEFINE o == job[w].offer
  <2>1. /\ durable' = tables' /\ inTx' = inTx
        /\ tables'.trades = [durable.trades EXCEPT ![t] = o]
        /\ tables'.owner = durable.owner
        /\ tables'.inventory = durable.inventory
        /\ tables'.balance = durable.balance
    BY <1>1, <1>3, <1>5 DEF Insert, Store, Tables
  <2>2. HeldBy(durable', {})
    <3>1. /\ durable'.owner = durable.owner
          /\ durable'.inventory = durable.inventory
      BY <2>1
    <3>2. HeldBy(durable, {})
      BY DEF Turn
    <3> QED
      BY <3>1, <3>2, SameHeld
  <2>3. TwoParties(durable')
    <3>1. o.from_user # o.to_user
      BY <1>2, TradingAssumption DEF WellFormed
    <3>2. \A s \in TradeIds : durable'.trades[s]
                                = IF s = t THEN o ELSE durable.trades[s]
      BY <1>1, <1>3, <2>1 DEF Tables
    <3> HIDE DEF o
    <3> QED
      BY <3>1, <3>2 DEF Turn, TwoParties
  <2>4. \A v \in Workers : Stage(job[v]', tables', durable', inTx', changes')
    BY <1>1, <1>5, AtFree, StagesKept DEF FreeSteps
  <2>5. Book!Offer(t, o)
    BY <1>3, <1>5, <2>1 DEF Book!Offer
  <2>6. Book!Next
    BY <1>2, <2>5 DEF Book!Next
  <2> QED
    BY <2>1, <2>2, <2>3, <2>4, <2>6 DEF Kept, SerialInv, BookStep
<1> QED
  BY <1>4, <1>5 DEF SaveTrade

LEMMA LogKept ==
  ASSUME NEW w, Turn(w),
         TakeRowId(w) \/ LogTransaction(w) \/ LogReceiver(w)
  PROVE  Kept
<1>1. job[w] \in Job
  BY TurnFacts
<1>2. CASE TakeRowId(w)
  <2>1. [job[w] EXCEPT !.pc = "log", !.trade_id = lastRow].pc \in FreeSteps
    BY <1>1 DEF Job, FreeSteps
  <2> QED
    BY <1>2, <2>1, FreeStage, StillKept DEF TakeRowId
<1>3. CASE LogTransaction(w) \/ LogReceiver(w)
  <2>1. Become(w, Idle) \/ Become(w, At(job[w], "log"))
    BY <1>3 DEF LogTransaction, LogReceiver
  <2>2. UNCHANGED connection \/ Store(tables)
    BY <1>3 DEF LogTransaction, LogReceiver, InsertLog, Insert
  <2>3. ASSUME NEW r, NEW n
        PROVE  /\ Stage(Idle, r, durable, inTx, n)
               /\ Stage(At(job[w], "log"), r, durable, inTx, n)
    BY <1>1, IdleStage, AtFree DEF FreeSteps
  <2> QED
    BY <2>1, <2>2, <2>3, StillKept, StoreKept
<1> QED
  BY <1>2, <1>3

-----------------------------------------------------------------------------
(* accept_trade up to BEGIN.                                               *)

LEMMA SameAccepts ==
  ASSUME NEW j, NEW k, NEW d, Same(j, k)
  PROVE  /\ Accepts(j, d) => Accepts(k, d)
         /\ Owned(j.offer, d) => Owned(k.offer, d)
BY DEF Same, Accepts

(* The next round of the checks, or BEGIN when all have been made. *)
LEMMA LoopAccepts ==
  ASSUME NEW j \in Job, NEW d, Accepts(j, d), InArray(j), Checked(j, d),
         NEW l, NEW b, Same(j, b), b.pc = "begin",
         \/ GoesOn(j, l, "accept_owner")
         \/ l = b /\ ThroughBoth(j),
         NEW r, NEW x, NEW n
  PROVE  Stage(l, r, d, x, n)
<1>1. CASE GoesOn(j, l, "accept_owner")
  <2>1. Accepts(l, d)
    BY <1>1, SameAccepts DEF GoesOn
  <2>2. Checked(l, d)
    BY <1>1 DEF GoesOn, Same, Checked
  <2> QED
    BY <1>1, <2>1, <2>2, CheckingStage DEF GoesOn
<1>2. CASE l = b /\ ThroughBoth(j)
  <2>1. Owned(j.offer, d)
    BY <1>2 DEF ThroughBoth, Checked, Owned
  <2> QED
    BY <1>2, <2>1, SameAccepts, ReadyStage
<1> QED
  BY <1>1, <1>2

LEMMA AtSame ==
  ASSUME NEW j \in Job, NEW label
  PROVE  /\ At(j, label).pc = label
         /\ Same(j, At(j, label))
         /\ At(j, label).todo = j.todo
         /\ At(j, label).side = j.side
         /\ At(j, label).moving = j.moving
         /\ At(j, label).from_balance = j.from_balance
         /\ At(j, label).to_balance = j.to_balance
BY DEF At, Job, Same

LEMMA GiveUpStage ==
  ASSUME NEW j \in Job, NEW r, NEW d, NEW x, NEW n, Accepts(j, d)
  PROVE  Stage(GiveUp(j), r, d, x, n)
<1>1. /\ GiveUp(j).pc = "expire" /\ GiveUp(j).trade_id = j.trade_id
      /\ GiveUp(j).offer = [j.offer EXCEPT !.status = "expired"]
  BY DEF GiveUp, Job
<1>2. Closes(GiveUp(j), d)
  BY <1>1 DEF Closes, Accepts
<1> QED
  BY <1>1, <1>2, ClosingStage DEF Closing

LEMMA AcceptTradeKept ==
  ASSUME NEW w, Turn(w), AcceptTrade(w)
  PROVE  Kept
<1>1. PICK t \in TradeIds :
        /\ tables.trades[t].status = "pending"
        /\ LET j == [Idle EXCEPT !.trade_id = t, !.offer = tables.trades[t]] IN
           Become(w, IF t \in late
                     THEN [j EXCEPT !.pc = "expire", !.offer.status = "expired"]
                     ELSE StartLoop(j, "accept_owner", At(j, "begin")))
  BY DEF AcceptTrade
<1> DEFINE j == [Idle EXCEPT !.trade_id = t, !.offer = tables.trades[t]]
           l == StartLoop(j, "accept_owner", At(j, "begin"))
<1>2. j \in Job /\ j.trade_id = t /\ j.offer = tables.trades[t]
  BY IdleType, TurnFacts DEF Tables, Job
<1>3. tables = durable
  <2>1. job[w].pc \in OutsideTx
    BY DEF AcceptTrade, OutsideTx
  <2> QED
    BY <2>1, TurnOutside
<1>4. Become(w, GiveUp(j)) \/ Become(w, l)
  BY <1>1 DEF GiveUp
<1> HIDE DEF j
<1>5. Accepts(j, durable)
  BY <1>1, <1>2, <1>3 DEF Accepts
<1>6. Stage(l, tables, durable, inTx, changes)
  <2>1. PICK k \in Job :
           /\ Same(j, k) /\ InArray(k)
           /\ PassedOffered(k) = {} /\ PassedRequested(k) = {}
           /\ \/ GoesOn(k, l, "accept_owner")
              \/ l = At(j, "begin") /\ ThroughBoth(k)
    BY <1>2, StartLoopCases
  <2>2. Accepts(k, durable)
    BY <1>5, <2>1, SameAccepts
  <2>3. Checked(k, durable)
    BY <2>1 DEF Checked
  <2>4. At(j, "begin").pc = "begin" /\ Same(k, At(j, "begin"))
    BY <1>2, <2>1, AtSame DEF Same
  <2> HIDE DEF l
  <2> QED
    BY <2>1, <2>2, <2>3, <2>4, LoopAccepts
<1> HIDE DEF l
<1>7. UNCHANGED connection
  BY DEF AcceptTrade
<1> QED
  BY <1>2, <1>4, <1>5, <1>6, <1>7, GiveUpStage, StillKept

LEMMA CheckingFacts ==
  ASSUME NEW w, Turn(w), job[w].pc \in Checking
  PROVE  /\ job[w] \in Job /\ tables = durable
         /\ Accepts(job[w], durable) /\ InArray(job[w]) /\ Checked(job[w], durable)
         /\ job[w].pc = "accept_inventory" =>
              /\ One(job[w])
              /\ \A i \in job[w].moving : durable.owner[i] = Giver(job[w])
<1>1. job[w].pc \in OutsideTx
  BY DEF Checking, OutsideTx
<1> QED
  BY <1>1, TurnOutside, TurnFacts DEF Stage

LEMMA AcceptOwnerKept ==
  ASSUME NEW w, Turn(w), AcceptOwner(w)
  PROVE  Kept
<1>1. job[w].pc \in Checking /\ UNCHANGED connection
  BY DEF AcceptOwner, Running, Checking
<1>2. /\ job[w] \in Job /\ tables = durable
      /\ Accepts(job[w], durable) /\ InArray(job[w]) /\ Checked(job[w], durable)
  BY <1>1, CheckingFacts
<1>3. PICK i \in job[w].todo :
        Become(w, IF tables.owner[i] = Giver(job[w])
                  THEN [job[w] EXCEPT !.pc = "accept_inventory", !.moving = {i}]
                  ELSE GiveUp(job[w]))
  BY DEF AcceptOwner
<1> DEFINE k == [job[w] EXCEPT !.pc = "accept_inventory", !.moving = {i}]
<1>4. CASE durable.owner[i] # Giver(job[w])
  <2>1. Become(w, GiveUp(job[w]))
    BY <1>2, <1>3, <1>4
  <2> QED
    BY <1>1, <1>2, <2>1, GiveUpStage, StillKept
<1>5. CASE durable.owner[i] = Giver(job[w])
  <2>1. Become(w, k)
    BY <1>2, <1>3, <1>5
  <2>2. /\ k.pc = "accept_inventory" /\ k.moving = {i} /\ k.todo = job[w].todo
        /\ k.side = job[w].side
        /\ k.offer = job[w].offer /\ k.trade_id = job[w].trade_id
    BY <1>2 DEF Job
  <2> HIDE DEF k
  <2>3. Accepts(k, durable) /\ InArray(k) /\ Checked(k, durable)
    BY <1>2, <2>2
    DEF Accepts, InArray, Array, Checked, PassedOffered, PassedRequested
  <2>4. One(k) /\ \A m \in k.moving : durable.owner[m] = Giver(k)
    BY <1>3, <1>5, <2>2 DEF One, Giver
  <2>5. Stage(k, tables, durable, inTx, changes)
    BY <2>2, <2>3, <2>4, CheckingStage
  <2> QED
    BY <1>1, <2>1, <2>5, StillKept
<1> QED
  BY <1>4, <1>5

LEMMA AcceptInventoryKept ==
  ASSUME NEW w, Turn(w), AcceptInventory(w)
  PROVE  Kept
<1>1. /\ job[w].pc = "accept_inventory" /\ job[w].pc \in Checking
      /\ UNCHANGED connection
  BY DEF AcceptInventory, Running, Checking
<1>2. /\ job[w] \in Job /\ tables = durable
      /\ Accepts(job[w], durable) /\ InArray(job[w]) /\ Checked(job[w], durable)
      /\ One(job[w])
      /\ \A i \in job[w].moving : durable.owner[i] = Giver(job[w])
  BY <1>1, CheckingFacts
<1>3. PICK i \in job[w].moving :
        LET j == [job[w] EXCEPT !.todo = @ \ {i}, !.moving = {}] IN
        \/ Become(w, Loop(j, "accept_owner", At(j, "begin")))
        \/ Become(w, GiveUp(j))
  BY DEF AcceptInventory
<1> DEFINE j == [job[w] EXCEPT !.todo = @ \ {i}, !.moving = {}]
           l == Loop(j, "accept_owner", At(j, "begin"))
<1>4. {i} \subseteq job[w].todo
  BY <1>2, <1>3 DEF One
<1>5. /\ j \in Job /\ Same(job[w], j) /\ InArray(j)
      /\ PassedOffered(j) = PassedOffered(job[w])
           \cup (IF job[w].side = "offered" THEN {i} ELSE {})
      /\ PassedRequested(j) = PassedRequested(job[w])
           \cup (IF job[w].side = "offered" THEN {} ELSE {i})
  BY <1>2, <1>4, PutBehind
<1>6. Become(w, l) \/ Become(w, GiveUp(j))
  BY <1>3
<1> HIDE DEF j
<1>7. Accepts(j, durable)
  BY <1>2, <1>5, SameAccepts
<1>8. Checked(j, durable)
  BY <1>2, <1>3, <1>5 DEF Checked, Same, Giver
<1>9. Stage(l, tables, durable, inTx, changes)
  <2>1. \/ GoesOn(j, l, "accept_owner")
        \/ l = At(j, "begin") /\ ThroughBoth(j)
    BY <1>5, LoopCases
  <2>2. Same(j, At(j, "begin")) /\ At(j, "begin").pc = "begin"
    BY <1>5, AtSame
  <2> HIDE DEF l
  <2> QED
    BY <1>5, <1>7, <1>8, <2>1, <2>2, LoopAccepts
<1> HIDE DEF l
<1> QED
  BY <1>1, <1>5, <1>6, <1>7, <1>9, GiveUpStage, StillKept

LEMMA BeginKept ==
  ASSUME NEW w, Turn(w), BeginTransaction(w)
  PROVE  Kept
<1>1. job[w] \in Job /\ job[w].pc = "begin"
  BY TurnFacts DEF BeginTransaction, Running
<1>2. ~inTx /\ tables = durable
  BY <1>1, TurnOutside DEF OutsideTx
<1>3. Accepts(job[w], durable) /\ Owned(job[w].offer, durable)
  BY <1>1, TurnFacts DEF Stage
<1>4. CASE Begin /\ Become(w, At(job[w], "mark"))
  <2> DEFINE k == At(job[w], "mark")
  <2>1. k.pc = "mark" /\ Same(job[w], k)
    BY <1>1, AtSame
  <2> HIDE DEF k
  <2>2. tables' = tables /\ durable' = durable /\ inTx'
    BY <1>4 DEF Begin
  <2>3. Stage(k, tables', durable', inTx', changes')
    BY <1>2, <1>3, <2>1, <2>2, SameAccepts, ReadyStage
  <2> QED
    BY <1>4, <2>2, <2>3, QuietKept DEF k
<1>5. CASE BeginRefused /\ Become(w, Idle)
  BY <1>5, IdleStage, StillKept DEF BeginRefused
<1> QED
  BY <1>4, <1>5 DEF BeginTransaction

-----------------------------------------------------------------------------
(* decline_trade, cancel_trade and the expiry found by accept_trade.       *)

LEMMA CloseTradeKept ==
  ASSUME NEW w, Turn(w), CloseTrade(w)
  PROVE  Kept
<1>1. PICK t \in TradeIds, status \in {"declined", "cancelled"} :
        /\ tables.trades[t].status = "pending"
        /\ Become(w, [Idle EXCEPT !.pc = "close", !.trade_id = t,
                                  !.offer = [tables.trades[t] EXCEPT
                                               !.status = status]])
  BY DEF CloseTrade
<1> DEFINE row == [tables.trades[t] EXCEPT !.status = status]
           k == [Idle EXCEPT !.pc = "close", !.trade_id = t, !.offer = row]
<1>2. k.pc = "close" /\ k.trade_id = t /\ k.offer = row
  BY DEF Idle
<1>3. tables = durable
  <2>1. job[w].pc \in OutsideTx
    BY DEF CloseTrade, OutsideTx
  <2> QED
    BY <2>1, TurnOutside
<1>4. Become(w, k) /\ UNCHANGED connection
  BY <1>1 DEF CloseTrade
<1> HIDE DEF k
<1>5. Closes(k, durable)
  BY <1>1, <1>2, <1>3 DEF Closes
<1>6. Stage(k, tables, durable, inTx, changes)
  BY <1>2, <1>5, ClosingStage DEF Closing
<1> QED
  BY <1>4, <1>6, StillKept

(* The whole row that is written back is the one on disk but for the       *)
(* status.                                                                 *)
LEMMA WriteBackKept ==
  ASSUME NEW w, Turn(w), ExpireTrade(w) \/ WriteClosed(w)
  PROVE  Kept
<1>1. job[w] \in Job /\ job[w].pc \in Closing /\ tables \in Tables
  BY TurnFacts DEF ExpireTrade, WriteClosed, Running, Closing
<1>2. ~inTx /\ tables = durable
  BY <1>1, TurnOutside DEF OutsideTx, Closing
<1>3. PICK i : Become(w, i) /\ i.pc \in FreeSteps
  <2>1. Idle.pc \in FreeSteps /\ At(job[w], "log").pc \in FreeSteps
    BY <1>1, AtPc DEF Idle, FreeSteps
  <2> QED
    BY <2>1 DEF ExpireTrade, WriteClosed
<1>4. \A r, x, n : Stage(i, r, durable, x, n)
  BY <1>3, FreeStage
<1>5. CASE UNCHANGED connection
  BY <1>3, <1>4, <1>5, StillKept
<1>6. CASE WriteTrade(job[w].trade_id, job[w].offer)
  <2> DEFINE t == job[w].trade_id
             o == job[w].offer
  <2>1. Closes(job[w], durable)
    BY <1>1, TurnFacts DEF Stage
  <2>2. PICK status \in {"declined", "cancelled", "expired"} :
          /\ t \in TradeIds
          /\ durable.trades[t].status = "pending"
          /\ o = [durable.trades[t] EXCEPT !.status = status]
    BY <2>1 DEF Closes
  <2>3. /\ durable' = tables' /\ inTx' = inTx
        /\ tables' = [durable EXCEPT !.trades[t] = o]
    BY <1>2, <1>6, <2>2 DEF WriteTrade, Update, Store
  <2>4. /\ tables'.trades = [durable.trades EXCEPT ![t] = o]
        /\ tables'.owner = durable.owner
        /\ tables'.inventory = durable.inventory
        /\ tables'.balance = durable.balance
    BY <1>1, <1>2, <2>3 DEF Tables
  <2>5. HeldBy(durable', {})
    <3>1. /\ durable'.owner = durable.owner
          /\ durable'.inventory = durable.inventory
      BY <2>3, <2>4
    <3>2. HeldBy(durable, {})
      BY DEF Turn
    <3> QED
      BY <3>1, <3>2, SameHeld
  <2>6. TwoParties(durable')
    <3>1. \A s \in TradeIds : durable'.trades[s]
                                = IF s = t THEN o ELSE durable.trades[s]
      BY <1>1, <1>2, <2>3, <2>4 DEF Tables
    <3>2. durable.trades[t] \in Trade
      BY <1>1, <1>2, <2>2 DEF Tables
    <3>3. o.status # "pending"
      BY <2>2, <3>2 DEF Trade
    <3> HIDE DEF o
    <3> QED
      BY <3>1, <3>3 DEF Turn, TwoParties
  <2>7. \A v \in Workers : Stage(job[v]', tables', durable', inTx', changes')
    BY <1>3, FreeStage, StagesKept
  <2>8. durable'.trades = [durable.trades EXCEPT ![t].status = status]
    BY <2>2, <2>3, <2>4
  <2>9. Book!Close(t, status)
    BY <2>2, <2>3, <2>4, <2>8 DEF Book!Close
  <2>10. Book!Next
    BY <2>2, <2>9 DEF Book!Next
  <2> QED
    BY <2>3, <2>5, <2>6, <2>7, <2>10 DEF Kept, SerialInv, BookStep
<1> QED
  BY <1>5, <1>6 DEF ExpireTrade, WriteClosed

-----------------------------------------------------------------------------
(* The rows inside the transaction: data only, no actions.                 *)

(* What the rows r under a transaction and d on disk are like. *)
Rowed(j, r, d) ==
  /\ j \in Job /\ r \in Tables /\ d \in Tables
  /\ j.offer.from_user # j.offer.to_user
  /\ Owned(j.offer, d)
  /\ \A u \in Users : d.balance[u] >= 0

LEMMA RowedTypes ==
  ASSUME NEW j, NEW r, NEW d, Rowed(j, r, d)
  PROVE  /\ j \in Job /\ j.offer \in Trade
         /\ j.offer.from_user \in Users /\ j.offer.to_user \in Users
         /\ j.offer.from_user # j.offer.to_user
         /\ j.offer.offered \subseteq Items /\ j.offer.requested \subseteq Items
         /\ j.offer.offered_cash \in Nat /\ j.offer.requested_cash \in Nat
         /\ j.side \in {"offered", "requested"}
         /\ j.todo \subseteq Items
         /\ j.from_balance \in Int /\ j.to_balance \in Int
         /\ \A u \in Users : r.balance[u] \in Int /\ d.balance[u] \in Nat
         /\ \A i \in Items : r.owner[i] \in Users /\ d.owner[i] \in Users
BY DEF Rowed, Job, Trade, Tables

(* No item is in both arrays. *)
LEMMA ArraysApart ==
  ASSUME NEW j, NEW r, NEW d, Rowed(j, r, d), NEW i,
         i \in j.offer.offered, i \in j.offer.requested
  PROVE  FALSE
BY DEF Rowed, Owned

(* The item being moved is still with the one who gives it. *)
LEMMA GiverHolds ==
  ASSUME NEW j, NEW r, NEW d, Rowed(j, r, d), InArray(j),
         OwnersMoved(j.offer, PassedOffered(j), PassedRequested(j), r, d),
         NEW i \in j.todo
  PROVE  i \in Items /\ r.owner[i] = Giver(j)
<1>1. i \in Items /\ i \in Array(j)
  BY RowedTypes DEF InArray
<1>2. d.owner[i] = Giver(j)
  BY <1>1, RowedTypes DEF Rowed, Owned, Array, Giver
<1>3. i \notin PassedOffered(j) /\ i \notin PassedRequested(j)
  BY <1>1, ArraysApart, RowedTypes DEF PassedOffered, PassedRequested, Array
<1> QED
  BY <1>1, <1>2, <1>3 DEF OwnersMoved

(* k goes through the same array as j and is at the same place in it. *)
Beside(j, k) ==
  k.offer = j.offer /\ k.trade_id = j.trade_id /\ k.side = j.side /\ k.todo = j.todo

LEMMA BesideFacts ==
  ASSUME NEW j, NEW k, Beside(j, k)
  PROVE  /\ Same(j, k)
         /\ Array(k) = Array(j) /\ (InArray(j) => InArray(k))
         /\ PassedOffered(k) = PassedOffered(j)
         /\ PassedRequested(k) = PassedRequested(j)
         /\ Giver(k) = Giver(j) /\ Getter(k) = Getter(j)
         /\ Payment(k) = Payment(j) /\ Before(k) = Before(j)
BY DEF Beside, Same, Array, InArray, PassedOffered, PassedRequested, Giver, Getter,
       Payment, Before

(* Which owners have changed at each step of moving an item. *)
GivenNow(j) ==
  PassedOffered(j) \cup (IF j.side = "offered" THEN Handed(j) ELSE {})
TakenNow(j) ==
  PassedRequested(j) \cup (IF j.side = "offered" THEN {} ELSE Handed(j))

LEMMA MovingParts ==
  ASSUME NEW j, NEW r, NEW d
  PROVE  Moving(j, r, d) <=>
           /\ InArray(j)
           /\ j.pc # "take" => One(j)
           /\ OwnersMoved(j.offer, GivenNow(j), TakenNow(j), r, d)
           /\ HeldBy(r, Away(j))
           /\ r.balance = d.balance
BY DEF Moving, GivenNow, TakenNow

(* An item leaves the inventory of its owner, and enters that of one. *)
LEMMA TakenFrom ==
  ASSUME NEW r, NEW s, NEW i, NEW g, r.owner[i] = g, HeldBy(r, {}),
         s.owner = r.owner, s.inventory = r.inventory \ {<<g, i>>}
  PROVE  HeldBy(s, {i})
<1> SUFFICES ASSUME NEW u \in Users, NEW m \in Items
             PROVE  <<u, m>> \in s.inventory <=> s.owner[m] = u /\ m \notin {i}
  BY DEF HeldBy
<1>1. <<u, m>> \in r.inventory <=> r.owner[m] = u
  BY DEF HeldBy
<1>2. <<u, m>> = <<g, i>> <=> u = g /\ m = i
  OBVIOUS
<1>3. <<u, m>> \in s.inventory <=> <<u, m>> \in r.inventory /\ <<u, m>> # <<g, i>>
  OBVIOUS
<1> QED
  BY <1>1, <1>2, <1>3

LEMMA GivenTo ==
  ASSUME NEW r, NEW s, NEW i, NEW g, r.owner[i] = g, HeldBy(r, {i}),
         s.owner = r.owner, s.inventory = r.inventory \cup {<<g, i>>}
  PROVE  HeldBy(s, {})
<1> SUFFICES ASSUME NEW u \in Users, NEW m \in Items
             PROVE  <<u, m>> \in s.inventory <=> s.owner[m] = u
  BY DEF HeldBy
<1>1. <<u, m>> \in r.inventory <=> r.owner[m] = u /\ m # i
  BY DEF HeldBy
<1>2. <<u, m>> = <<g, i>> <=> u = g /\ m = i
  OBVIOUS
<1>3. <<u, m>> \in s.inventory <=> <<u, m>> \in r.inventory \/ <<u, m>> = <<g, i>>
  OBVIOUS
<1> QED
  BY <1>1, <1>2, <1>3

(* DELETE FROM inventories. *)
LEMMA TakeMoves ==
  ASSUME NEW j, NEW r, NEW d, Rowed(j, r, d), j.pc = "take", Moving(j, r, d),
         NEW i \in j.todo,
         NEW k, Beside(j, k), k.pc = "own", k.moving = {i},
         NEW s, s.owner = r.owner, s.balance = r.balance,
         s.inventory = r.inventory \ {<<Giver(j), i>>}
  PROVE  Moving(k, s, d)
<1>1. GivenNow(j) = PassedOffered(j) /\ TakenNow(j) = PassedRequested(j)
  BY DEF GivenNow, TakenNow, Handed
<1>2. i \in Items /\ r.owner[i] = Giver(j)
  BY <1>1, MovingParts, GiverHolds
<1>3. /\ InArray(k) /\ PassedOffered(k) = PassedOffered(j)
      /\ PassedRequested(k) = PassedRequested(j) /\ k.offer = j.offer
  BY BesideFacts, MovingParts DEF Beside
<1>4. One(k)
  BY DEF One, Beside
<1>5. GivenNow(k) = PassedOffered(j) /\ TakenNow(k) = PassedRequested(j)
  BY <1>3 DEF GivenNow, TakenNow, Handed
<1>6. Away(j) = {} /\ Away(k) = {i}
  BY DEF Away
<1>7. HeldBy(s, {i})
  <2>1. HeldBy(r, {})
    BY <1>6, MovingParts
  <2> QED
    BY <1>2, <2>1, TakenFrom
<1>8. OwnersMoved(k.offer, GivenNow(k), TakenNow(k), s, d)
  <2>1. OwnersMoved(j.offer, PassedOffered(j), PassedRequested(j), r, d)
    BY <1>1, MovingParts
  <2> QED
    BY <1>3, <1>5, <2>1 DEF OwnersMoved
<1>9. s.balance = d.balance
  BY MovingParts
<1> QED
  BY <1>3, <1>4, <1>6, <1>7, <1>8, <1>9, MovingParts

(* The owner column. *)
LEMMA OwnMoves ==
  ASSUME NEW j, NEW r, NEW d, Rowed(j, r, d), j.pc = "own", Moving(j, r, d),
         NEW i, j.moving = {i},
         NEW k, Beside(j, k), k.pc = "give", k.moving = {i},
         NEW s, s.balance = r.balance, s.inventory = r.inventory,
         \A m \in Items : s.owner[m] = IF m = i THEN Getter(j) ELSE r.owner[m]
  PROVE  Moving(k, s, d)
<1>1. GivenNow(j) = PassedOffered(j) /\ TakenNow(j) = PassedRequested(j)
  BY DEF GivenNow, TakenNow, Handed
<1>2. i \in j.todo /\ InArray(j)
  BY MovingParts DEF One
<1>3. /\ InArray(k) /\ PassedOffered(k) = PassedOffered(j)
      /\ PassedRequested(k) = PassedRequested(j)
      /\ k.offer = j.offer /\ k.side = j.side
  BY BesideFacts, MovingParts DEF Beside
<1>4. One(k)
  BY <1>2 DEF One, Beside
<1>5. /\ GivenNow(k) = PassedOffered(j) \cup (IF j.side = "offered" THEN {i} ELSE {})
      /\ TakenNow(k) = PassedRequested(j) \cup (IF j.side = "offered" THEN {} ELSE {i})
  BY <1>3 DEF GivenNow, TakenNow, Handed
<1>6. Away(j) = {i} /\ Away(k) = {i}
  BY DEF Away
<1>7. HeldBy(s, {i})
  <2>1. HeldBy(r, {i})
    BY <1>6, MovingParts
  <2> QED
    BY <2>1 DEF HeldBy
<1>8. OwnersMoved(k.offer, GivenNow(k), TakenNow(k), s, d)
  <2>1. OwnersMoved(j.offer, PassedOffered(j), PassedRequested(j), r, d)
    BY <1>1, MovingParts
  <2>2. CASE j.side = "offered"
    BY <1>3, <1>5, <2>1, <2>2 DEF OwnersMoved, Getter
  <2>3. CASE j.side # "offered"
    <3>1. i \notin j.offer.offered
      BY <1>2, <2>3, ArraysApart DEF InArray, Array
    <3>2. i \notin PassedOffered(j)
      BY <2>3, <3>1 DEF PassedOffered
    <3> QED
      BY <1>3, <1>5, <2>1, <2>3, <3>2 DEF OwnersMoved, Getter
  <2> QED
    BY <2>2, <2>3
<1>9. s.balance = d.balance
  BY MovingParts
<1> QED
  BY <1>3, <1>4, <1>6, <1>7, <1>8, <1>9, MovingParts

(* INSERT OR IGNORE INTO inventories: the row cannot be there. *)
LEMMA GiveMoves ==
  ASSUME NEW j, NEW r, NEW d, Rowed(j, r, d), j.pc = "give", Moving(j, r, d),
         NEW i, j.moving = {i},
         NEW k, Beside(j, k), k.pc = "lock", k.moving = {i},
         NEW s, s.balance = r.balance, s.owner = r.owner,
         s.inventory = r.inventory \cup {<<Getter(j), i>>}
  PROVE  Moving(k, s, d)
<1>2. i \in j.todo /\ InArray(j) /\ i \in Items
  BY MovingParts, RowedTypes DEF One
<1>3. /\ InArray(k) /\ PassedOffered(k) = PassedOffered(j)
      /\ PassedRequested(k) = PassedRequested(j)
      /\ k.offer = j.offer /\ k.side = j.side
  BY BesideFacts, MovingParts DEF Beside
<1>4. One(k)
  BY <1>2 DEF One, Beside
<1>5. /\ GivenNow(j) = PassedOffered(j) \cup (IF j.side = "offered" THEN {i} ELSE {})
      /\ TakenNow(j) = PassedRequested(j) \cup (IF j.side = "offered" THEN {} ELSE {i})
  BY DEF GivenNow, TakenNow, Handed
<1>6. GivenNow(k) = GivenNow(j) /\ TakenNow(k) = TakenNow(j)
  BY <1>3 DEF GivenNow, TakenNow, Handed
<1>7. Away(j) = {i} /\ Away(k) = {}
  BY DEF Away
<1>8. OwnersMoved(j.offer, GivenNow(j), TakenNow(j), r, d)
  BY MovingParts
<1>9. r.owner[i] = Getter(j)
  <2>2. CASE j.side = "offered"
    BY <1>2, <1>5, <1>8, <2>2 DEF OwnersMoved, Getter
  <2>3. CASE j.side # "offered"
    <3>1. i \notin j.offer.offered
      BY <1>2, <2>3, ArraysApart DEF InArray, Array
    <3>2. i \notin PassedOffered(j)
      BY <2>3, <3>1 DEF PassedOffered
    <3> QED
      BY <1>2, <1>5, <1>8, <2>3, <3>2 DEF OwnersMoved, Getter
  <2> QED
    BY <2>2, <2>3
<1>10. HeldBy(s, {})
  <2>1. HeldBy(r, {i})
    BY <1>7, MovingParts
  <2> QED
    BY <1>9, <2>1, GivenTo
<1>11. OwnersMoved(k.offer, GivenNow(k), TakenNow(k), s, d)
  BY <1>3, <1>6, <1>8 DEF OwnersMoved
<1>12. s.balance = d.balance
  BY MovingParts
<1> QED
  BY <1>3, <1>4, <1>7, <1>10, <1>11, <1>12, MovingParts

(* The lock columns: an item has been moved, and the loops go on. *)
LEMMA LockMoves ==
  ASSUME NEW j, NEW r, NEW d, Rowed(j, r, d), j.pc = "lock", Moving(j, r, d),
         NEW k, Same(j, k), InArray(k),
         PassedOffered(k)
           = PassedOffered(j) \cup (IF j.side = "offered" THEN j.moving ELSE {}),
         PassedRequested(k)
           = PassedRequested(j) \cup (IF j.side = "offered" THEN {} ELSE j.moving),
         NEW l, GoesOn(k, l, "take")
  PROVE  Moving(l, r, d)
<1>1. GivenNow(j) = PassedOffered(k) /\ TakenNow(j) = PassedRequested(k)
  BY DEF GivenNow, TakenNow, Handed
<1>2. GivenNow(l) = PassedOffered(k) /\ TakenNow(l) = PassedRequested(k)
  BY DEF GivenNow, TakenNow, Handed, GoesOn
<1>3. InArray(l) /\ l.pc = "take" /\ l.offer = j.offer
  BY DEF GoesOn, Same
<1>4. Away(j) = {} /\ Away(l) = {}
  BY <1>3 DEF Away
<1> QED
  BY <1>1, <1>2, <1>3, <1>4, MovingParts

LEMMA LockExchanges ==
  ASSUME NEW j, NEW r, NEW d, Rowed(j, r, d), j.pc = "lock", Moving(j, r, d),
         NEW k, Same(j, k), ThroughBoth(k),
         PassedOffered(k)
           = PassedOffered(j) \cup (IF j.side = "offered" THEN j.moving ELSE {}),
         PassedRequested(k)
           = PassedRequested(j) \cup (IF j.side = "offered" THEN {} ELSE j.moving)
  PROVE  Exchanged(j.offer, r, d) /\ r.balance = d.balance
<1>1. GivenNow(j) = PassedOffered(k) /\ TakenNow(j) = PassedRequested(k)
  BY DEF GivenNow, TakenNow, Handed
<1>2. Away(j) = {}
  BY DEF Away
<1> QED
  BY <1>1, <1>2, MovingParts DEF Exchanged, ThroughBoth, Same

(* The loops start with nothing moved. *)
LEMMA StartMoves ==
  ASSUME NEW j, NEW r, NEW d, NEW k, Same(j, k), InArray(k),
         PassedOffered(k) = {}, PassedRequested(k) = {},
         r.owner = d.owner, r.inventory = d.inventory, r.balance = d.balance,
         HeldBy(d, {})
  PROVE  /\ \A l : GoesOn(k, l, "take") => Moving(l, r, d)
         /\ ThroughBoth(k) => Exchanged(j.offer, r, d)
<1>1. HeldBy(r, {})
  BY DEF HeldBy
<1>2. OwnersMoved(j.offer, {}, {}, r, d)
  BY DEF OwnersMoved
<1>3. ASSUME NEW l, GoesOn(k, l, "take")
      PROVE  Moving(l, r, d)
  <2>1. GivenNow(l) = {} /\ TakenNow(l) = {} /\ Away(l) = {}
    BY <1>3 DEF GivenNow, TakenNow, Handed, GoesOn, Away
  <2>2. InArray(l) /\ l.pc = "take" /\ l.offer = j.offer
    BY <1>3 DEF GoesOn, Same
  <2> QED
    BY <1>1, <1>2, <2>1, <2>2, MovingParts
<1>4. ThroughBoth(k) => Exchanged(j.offer, r, d)
  BY <1>1, <1>2 DEF ThroughBoth, Same, Exchanged
<1> QED
  BY <1>3, <1>4

-----------------------------------------------------------------------------
(* The money, also data only.                                              *)

LEMMA SameExchanged ==
  ASSUME NEW o, NEW r, NEW s, NEW d, Exchanged(o, r, d),
         s.owner = r.owner, s.inventory = r.inventory
  PROVE  Exchanged(o, s, d)
BY DEF Exchanged, OwnersMoved, HeldBy

(* What from_user has paid when the handler starts on the money and when   *)
(* it comes to what to_user pays.                                          *)
AtCash(j, r, d) ==
  /\ Exchanged(j.offer, r, d)
  /\ \/ j.side = "offered" /\ Transferred(j.offer, 0, 0, r, d)
     \/ /\ j.side = "requested" /\ CanPay(j.offer, d)
        /\ Transferred(j.offer, j.offer.offered_cash, j.offer.offered_cash, r, d)

LEMMA CashLoopPays ==
  ASSUME NEW j, NEW r, NEW d, Rowed(j, r, d), AtCash(j, r, d)
  PROVE  /\ Same(j, CashLoop(j))
         /\ \/ CashLoop(j).pc = "from_cash" /\ Paying(CashLoop(j), r, d)
            \/ CashLoop(j).pc = "call" /\ Paid(CashLoop(j), r, d)
<1> DEFINE l == CashLoop(j)
           o == j.offer
<1>t. /\ j \in Job /\ o.offered_cash \in Nat /\ o.requested_cash \in Nat
      /\ o.from_user \in Users /\ o.to_user \in Users
      /\ j.side \in {"offered", "requested"}
      /\ d.balance[o.from_user] \in Nat /\ d.balance[o.to_user] \in Nat
  BY RowedTypes
<1>1. l.offer = o /\ l.trade_id = j.trade_id
  BY <1>t DEF CashLoop, At, Job
<1>2. CASE j.side = "offered" /\ o.offered_cash > 0
  <2>1. l.pc = "from_cash" /\ l.side = "offered"
    BY <1>2, <1>t DEF CashLoop, At, Job
  <2> HIDE DEF l
  <2>2. Transferred(o, Before(l), Before(l), r, d)
    BY <1>2, <2>1 DEF AtCash, Before
  <2>3. Paying(l, r, d)
    BY <1>1, <1>2, <2>1, <2>2 DEF AtCash, Paying
  <2> QED
    BY <1>1, <2>1, <2>3 DEF Same, l
<1>3. CASE ~(j.side = "offered" /\ o.offered_cash > 0) /\ o.requested_cash > 0
  <2>1. l.pc = "from_cash" /\ l.side = "requested"
    BY <1>3, <1>t DEF CashLoop, At, Job
  <2> HIDE DEF l
  <2>2. Transferred(o, o.offered_cash, o.offered_cash, r, d)
    <3>1. j.side = "requested" \/ o.offered_cash = 0
      BY <1>3, <1>t
    <3> QED
      BY <3>1 DEF AtCash
  <2>3. CanPay(o, d)
    BY <1>3, <1>t DEF AtCash, CanPay
  <2>4. Transferred(o, Before(l), Before(l), r, d)
    BY <1>1, <2>1, <2>2 DEF Before
  <2>5. Paying(l, r, d)
    BY <1>1, <2>1, <2>3, <2>4 DEF AtCash, Paying
  <2> QED
    BY <1>1, <2>1, <2>5 DEF Same, l
<1>4. CASE ~(j.side = "offered" /\ o.offered_cash > 0) /\ ~(o.requested_cash > 0)
  <2>1. l.pc = "call"
    BY <1>4, <1>t DEF CashLoop, At, Job
  <2> HIDE DEF l
  <2>2. CanPay(o, d) /\ CanPayBack(o, d)
    BY <1>4, <1>t DEF AtCash, CanPay, CanPayBack
  <2>3. o.offered_cash - o.requested_cash = o.offered_cash
    BY <1>4, <1>t
  <2>4. Transferred(o, o.offered_cash, o.offered_cash, r, d)
    <3>1. j.side = "requested" \/ o.offered_cash = 0
      BY <1>4, <1>t
    <3> QED
      BY <3>1 DEF AtCash
  <2>5. Paid(l, r, d)
    BY <1>1, <2>2, <2>3, <2>4 DEF AtCash, Paid
  <2> QED
    BY <1>1, <2>1, <2>5 DEF Same, l
<1> QED
  BY <1>2, <1>3, <1>4

LEMMA StartCashPays ==
  ASSUME NEW j, NEW r, NEW d, Rowed(j, r, d),
         Exchanged(j.offer, r, d), r.balance = d.balance
  PROVE  /\ Same(j, StartCash(j))
         /\ \/ StartCash(j).pc = "from_cash" /\ Paying(StartCash(j), r, d)
            \/ StartCash(j).pc = "call" /\ Paid(StartCash(j), r, d)
<1> DEFINE k == [j EXCEPT !.side = "offered"]
<1>t. /\ j \in Job /\ j.offer.from_user \in Users /\ j.offer.to_user \in Users
      /\ \A u \in Users : d.balance[u] \in Nat
  BY RowedTypes
<1>1. /\ k \in Job /\ k.offer = j.offer /\ k.trade_id = j.trade_id
      /\ k.side = "offered"
  BY <1>t DEF Job
<1>2. StartCash(j) = CashLoop(k)
  BY DEF StartCash
<1> HIDE DEF k
<1>3. Transferred(k.offer, 0, 0, r, d)
  BY <1>1, <1>t DEF Transferred
<1>4. AtCash(k, r, d)
  BY <1>1, <1>3 DEF AtCash
<1>5. Rowed(k, r, d)
  BY <1>1 DEF Rowed
<1> QED
  BY <1>1, <1>2, <1>4, <1>5, CashLoopPays DEF Same

(* The two loads, and the check for funds. *)
LEMMA FromLoads ==
  ASSUME NEW j, NEW r, NEW d, Rowed(j, r, d), j.pc = "from_cash", Paying(j, r, d),
         NEW k, Beside(j, k), k.pc = "to_cash",
         k.from_balance = r.balance[j.offer.from_user]
  PROVE  Paying(k, r, d)
<1>1. k.offer = j.offer /\ k.side = j.side /\ Before(k) = Before(j)
  BY BesideFacts DEF Beside
<1>2. /\ Exchanged(j.offer, r, d)
      /\ j.side = "offered" => j.offer.offered_cash > 0
      /\ j.side = "requested" => CanPay(j.offer, d)
      /\ Transferred(j.offer, Before(j), Before(j), r, d)
  BY DEF Paying
<1> QED
  BY <1>1, <1>2 DEF Paying

LEMMA ToLoads ==
  ASSUME NEW j, NEW r, NEW d, Rowed(j, r, d), j.pc = "to_cash", Paying(j, r, d),
         j.from_balance >= Payment(j),
         r.balance[j.offer.to_user] >= -Payment(j),
         NEW k, Beside(j, k), k.pc = "pay_from",
         k.from_balance = j.from_balance - Payment(j),
         k.to_balance = r.balance[j.offer.to_user] + Payment(j)
  PROVE  Paying(k, r, d)
<1> DEFINE o == j.offer
<1>t. /\ o.offered_cash \in Nat /\ o.requested_cash \in Nat
      /\ o.from_user \in Users /\ o.to_user \in Users /\ o.from_user # o.to_user
      /\ j.side \in {"offered", "requested"}
      /\ d.balance[o.from_user] \in Nat /\ d.balance[o.to_user] \in Nat
  BY RowedTypes
<1>1. /\ k.offer = o /\ k.side = j.side /\ Before(k) = Before(j)
      /\ Payment(k) = Payment(j)
  BY BesideFacts DEF Beside
<1>2. /\ Exchanged(o, r, d)
      /\ j.side = "offered" => o.offered_cash > 0
      /\ j.side = "requested" => CanPay(o, d)
      /\ Transferred(o, Before(j), Before(j), r, d)
      /\ j.from_balance = r.balance[o.from_user]
  BY DEF Paying
<1>3. /\ r.balance[o.from_user] = d.balance[o.from_user] - Before(j)
      /\ r.balance[o.to_user] = d.balance[o.to_user] + Before(j)
  BY <1>t, <1>2 DEF Transferred
<1>4. CanPay(o, d)
  <2>1. CASE j.side = "offered"
    <3>1. Before(j) = 0 /\ Payment(j) = o.offered_cash
      BY <2>1 DEF Before, Payment
    <3> QED
      BY <1>t, <1>2, <1>3, <3>1 DEF CanPay
  <2> QED
    BY <1>t, <1>2, <2>1
<1>5. j.side = "requested" => CanPayBack(o, d)
  <2>1. CASE j.side = "requested"
    <3>1. Before(j) = o.offered_cash /\ Payment(j) = -o.requested_cash
      BY <2>1 DEF Before, Payment
    <3> QED
      BY <1>t, <1>3, <3>1 DEF CanPayBack
  <2> QED
    BY <2>1
<1> QED
  BY <1>1, <1>2, <1>4, <1>5 DEF Paying

(* The two writes of absolute balances. *)
LEMMA FromPays ==
  ASSUME NEW j, NEW r, NEW d, Rowed(j, r, d), j.pc = "pay_from", Paying(j, r, d),
         NEW k, Beside(j, k), k.pc = "pay_to", k.to_balance = j.to_balance,
         NEW s, s.owner = r.owner, s.inventory = r.inventory,
         \A u \in Users : s.balance[u] = IF u = j.offer.from_user
                                         THEN j.from_balance ELSE r.balance[u]
  PROVE  Paying(k, s, d)
<1> DEFINE o == j.offer
<1>t. /\ o.offered_cash \in Nat /\ o.requested_cash \in Nat
      /\ o.from_user \in Users /\ o.to_user \in Users /\ o.from_user # o.to_user
      /\ \A u \in Users : d.balance[u] \in Nat
      /\ j.from_balance \in Int
  BY RowedTypes
<1>1. /\ k.offer = o /\ k.side = j.side /\ Before(k) = Before(j)
      /\ Payment(k) = Payment(j)
  BY BesideFacts DEF Beside
<1>2. /\ Exchanged(o, r, d)
      /\ j.side = "offered" => o.offered_cash > 0
      /\ CanPay(o, d) /\ (j.side = "requested" => CanPayBack(o, d))
      /\ Transferred(o, Before(j), Before(j), r, d)
      /\ j.from_balance = r.balance[o.from_user] - Payment(j)
      /\ j.to_balance = r.balance[o.to_user] + Payment(j)
  BY DEF Paying
<1>3. Before(j) \in Int /\ Payment(j) \in Int
  BY <1>t DEF Before, Payment
<1>4. r.balance[o.from_user] = d.balance[o.from_user] - Before(j)
  BY <1>t, <1>2 DEF Transferred
<1>5. j.from_balance = d.balance[o.from_user] - (Before(j) + Payment(j))
  BY <1>t, <1>2, <1>3, <1>4
<1>6. Transferred(o, Before(j) + Payment(j), Before(j), s, d)
  BY <1>t, <1>2, <1>5 DEF Transferred
<1>7. s.balance[o.to_user] = r.balance[o.to_user]
  BY <1>t
<1>8. Exchanged(o, s, d)
  BY <1>2, SameExchanged
<1> QED
  BY <1>1, <1>2, <1>6, <1>7, <1>8 DEF Paying

LEMMA ToPays ==
  ASSUME NEW j, NEW r, NEW d, Rowed(j, r, d), j.pc = "pay_to", Paying(j, r, d),
         NEW s, s.owner = r.owner, s.inventory = r.inventory,
         \A u \in Users : s.balance[u] = IF u = j.offer.to_user
                                         THEN j.to_balance ELSE r.balance[u]
  PROVE  /\ Exchanged(j.offer, s, d)
         /\ CanPay(j.offer, d) /\ (j.side = "requested" => CanPayBack(j.offer, d))
         /\ Transferred(j.offer, Before(j) + Payment(j), Before(j) + Payment(j), s, d)
<1> DEFINE o == j.offer
<1>t. /\ o.offered_cash \in Nat /\ o.requested_cash \in Nat
      /\ o.from_user \in Users /\ o.to_user \in Users /\ o.from_user # o.to_user
      /\ \A u \in Users : d.balance[u] \in Nat
      /\ j.to_balance \in Int
  BY RowedTypes
<1>2. /\ Exchanged(o, r, d)
      /\ CanPay(o, d) /\ (j.side = "requested" => CanPayBack(o, d))
      /\ Transferred(o, Before(j) + Payment(j), Before(j), r, d)
      /\ j.to_balance = r.balance[o.to_user] + Payment(j)
  BY DEF Paying
<1>3. Before(j) \in Int /\ Payment(j) \in Int
  BY <1>t DEF Before, Payment
<1>4. r.balance[o.to_user] = d.balance[o.to_user] + Before(j)
  BY <1>t, <1>2 DEF Transferred
<1>5. j.to_balance = d.balance[o.to_user] + (Before(j) + Payment(j))
  BY <1>t, <1>2, <1>3, <1>4
<1>6. Transferred(o, Before(j) + Payment(j), Before(j) + Payment(j), s, d)
  BY <1>t, <1>2, <1>5 DEF Transferred
<1>8. Exchanged(o, s, d)
  BY <1>2, SameExchanged
<1> QED
  BY <1>2, <1>6, <1>8

LEMMA SamePaid ==
  ASSUME NEW j, NEW k, NEW r, NEW s, NEW d, Paid(j, r, d), k.offer = j.offer,
         s.owner = r.owner, s.inventory = r.inventory, s.balance = r.balance
  PROVE  Paid(k, s, d)
<1>1. Exchanged(k.offer, s, d)
  BY SameExchanged DEF Paid
<1> QED
  BY <1>1 DEF Paid, Transferred

-----------------------------------------------------------------------------
(* accept_trade from BEGIN to COMMIT.                                      *)

LEMMA InTransaction ==
  ASSUME NEW w, Turn(w), job[w].pc \in Marking
  PROVE  /\ inTx
         /\ Begun(job[w], tables, durable)
         /\ Rowed(job[w], tables, durable)
<1>1. inTx /\ Begun(job[w], tables, durable)
  BY TurnFacts, StageBegun
<1>2. job[w].offer.from_user # job[w].offer.to_user
  BY <1>1 DEF Begun, Accepts, Turn, TwoParties
<1>3. \A u \in Users : durable.balance[u] >= 0
  BY DEF Turn, BalancesNeverNegative
<1> QED
  BY <1>1, <1>2, <1>3, TurnFacts DEF Rowed, Begun

(* One step on from j: at k, over the rows s. *)
LEMMA NextMark ==
  ASSUME NEW w, Turn(w), job[w].pc \in Marking,
         NEW k, Become(w, k), Same(job[w], k),
         NEW s, s.trades = tables.trades,
         Store(s) \/ (s = tables /\ UNCHANGED connection),
         \/ k.pc \in MovingSteps /\ Moving(k, s, durable)
         \/ k.pc \in PayingSteps /\ Paying(k, s, durable)
         \/ k.pc \in PaidSteps /\ Paid(k, s, durable)
  PROVE  Kept
<1>1. inTx /\ Begun(job[w], tables, durable)
  BY InTransaction
<1>2. Begun(k, s, durable)
  BY <1>1, SameBegun
<1>3. \A n : Stage(k, s, durable, inTx, n)
  BY <1>1, <1>2, MarkingStage
<1> QED
  BY <1>1, <1>3, StoreKept, StillKept

(* A statement has failed. *)
LEMMA UndoKept ==
  ASSUME NEW w, Turn(w), inTx, UNCHANGED connection,
         NEW label \in {"exec_rollback", "rollback"},
         Become(w, At(job[w], label))
  PROVE  Kept
<1>1. job[w] \in Job
  BY TurnFacts
<1>2. At(job[w], label).pc = label
  BY <1>1, AtPc
<1>3. Stage(At(job[w], label), tables, durable, inTx, changes)
  <2>1. CASE label = "exec_rollback"
    BY <1>2, <2>1, UndoStage
  <2>2. CASE label = "rollback"
    BY <1>1, <2>2, AtFree DEF FreeSteps
  <2> QED
    BY <2>1, <2>2
<1> QED
  BY <1>3, StillKept

LEMMA AtomicAcceptKept ==
  ASSUME NEW w, Turn(w), AtomicAccept(w)
  PROVE  Kept
<1>1. job[w] \in Job /\ job[w].pc = "mark" /\ tables \in Tables
  BY TurnFacts DEF AtomicAccept, Running
<1>2. /\ inTx /\ tables = durable
      /\ Accepts(job[w], durable) /\ Owned(job[w].offer, durable)
  BY <1>1, TurnFacts DEF Stage
<1> DEFINE t    == job[w].trade_id
           k    == At(job[w], "marked")
           rows == [tables EXCEPT !.trades[t].status = "accepted"]
<1>3. durable.trades[t].status = "pending"
  BY <1>2 DEF Accepts
<1>4. CASE Update(rows, 1) /\ Become(w, k)
  <2>1. k.pc = "marked" /\ Same(job[w], k)
    BY <1>1, AtSame
  <2>2. /\ rows.trades = [durable.trades EXCEPT ![t].status = "accepted"]
        /\ rows.owner = durable.owner /\ rows.inventory = durable.inventory
        /\ rows.balance = durable.balance
    BY <1>1, <1>2 DEF Tables
  <2>3. Store(rows) /\ changes' = 1
    BY <1>4 DEF Update
  <2> HIDE DEF k, rows
  <2>4. Accepts(k, durable) /\ Owned(k.offer, durable)
    BY <1>2, <2>1, SameAccepts
  <2>5. TradeMarked(k, rows, durable)
    BY <2>1, <2>2 DEF TradeMarked, Same
  <2>6. Stage(k, rows, durable, inTx, changes')
    BY <1>2, <2>1, <2>2, <2>3, <2>4, <2>5
    DEF Stage, Sending, Checking, Marking, Closing, MovingSteps, PayingSteps,
        PaidSteps
  <2> QED
    BY <1>2, <1>4, <2>3, <2>6, StoreKept
<1>5. CASE Become(w, At(job[w], "rollback")) /\ UNCHANGED connection
  BY <1>2, <1>5, UndoKept
<1> QED
  BY <1>2, <1>3, <1>4, <1>5 DEF AtomicAccept

LEMMA ReadChangesKept ==
  ASSUME NEW w, Turn(w), ReadChanges(w)
  PROVE  Kept
<1>1. job[w] \in Job /\ job[w].pc = "marked" /\ job[w].pc \in Marking
  BY TurnFacts DEF ReadChanges, Running, Marking
<1>2. /\ inTx /\ Begun(job[w], tables, durable)
      /\ Rowed(job[w], tables, durable)
  BY <1>1, InTransaction
<1>3. /\ changes = 1 /\ tables.owner = durable.owner
      /\ tables.inventory = durable.inventory /\ tables.balance = durable.balance
  BY <1>1, TurnFacts DEF Stage
<1> DEFINE c == StartCash(job[w])
           l == StartLoop(job[w], "take", c)
<1>4. Become(w, l) /\ UNCHANGED connection
  BY <1>3 DEF ReadChanges
<1>5. PICK k \in Job :
         /\ Same(job[w], k) /\ InArray(k)
         /\ PassedOffered(k) = {} /\ PassedRequested(k) = {}
         /\ \/ GoesOn(k, l, "take")
            \/ l = c /\ ThroughBoth(k)
  BY <1>1, StartLoopCases
<1> HIDE DEF l
<1>6. HeldBy(durable, {})
  BY DEF Turn
<1>7. CASE GoesOn(k, l, "take")
  <2>1. Moving(l, tables, durable)
    BY <1>3, <1>5, <1>6, <1>7, StartMoves
  <2>2. l.pc = "take" /\ Same(job[w], l)
    BY <1>5, <1>7 DEF GoesOn, Same
  <2> QED
    BY <1>1, <1>4, <2>1, <2>2, NextMark DEF MovingSteps
<1>8. CASE l = c /\ ThroughBoth(k)
  <2>1. Exchanged(job[w].offer, tables, durable)
    BY <1>3, <1>5, <1>6, <1>8, StartMoves
  <2>2. /\ Same(job[w], c)
        /\ \/ c.pc = "from_cash" /\ Paying(c, tables, durable)
           \/ c.pc = "call" /\ Paid(c, tables, durable)
    BY <1>2, <1>3, <2>1, StartCashPays
  <2> HIDE DEF c
  <2> QED
    BY <1>1, <1>4, <1>8, <2>2, NextMark DEF PayingSteps, PaidSteps
<1> QED
  BY <1>5, <1>7, <1>8

LEMMA MovingFacts ==
  ASSUME NEW w, Turn(w), job[w].pc \in MovingSteps
  PROVE  /\ job[w].pc \in Marking /\ job[w] \in Job /\ tables \in Tables
         /\ inTx
         /\ Rowed(job[w], tables, durable)
         /\ Moving(job[w], tables, durable)
         /\ InArray(job[w]) /\ (job[w].pc # "take" => One(job[w]))
<1>1. job[w].pc \in Marking
  BY DEF Marking
<1>2. Moving(job[w], tables, durable)
  BY <1>1, TurnFacts, StageBegun
<1> QED
  BY <1>1, <1>2, TurnFacts, InTransaction, MovingParts

LEMMA RemoveKept ==
  ASSUME NEW w, Turn(w), RemoveFromInventory(w)
  PROVE  Kept
<1>1. job[w].pc = "take" /\ job[w].pc \in MovingSteps
  BY DEF RemoveFromInventory, Running, MovingSteps
<1>2. /\ job[w].pc \in Marking /\ job[w] \in Job /\ tables \in Tables /\ inTx
      /\ Rowed(job[w], tables, durable) /\ Moving(job[w], tables, durable)
  BY <1>1, MovingFacts
<1>3. PICK i \in job[w].todo :
        \/ /\ Store([tables EXCEPT !.inventory = @ \ {<<Giver(job[w]), i>>}])
           /\ Become(w, [job[w] EXCEPT !.pc = "own", !.moving = {i}])
        \/ Become(w, At(job[w], "exec_rollback")) /\ UNCHANGED connection
  BY DEF RemoveFromInventory, Update
<1> DEFINE k == [job[w] EXCEPT !.pc = "own", !.moving = {i}]
           s == [tables EXCEPT !.inventory = @ \ {<<Giver(job[w]), i>>}]
<1>4. CASE Store(s) /\ Become(w, k)
  <2>1. /\ s.trades = tables.trades /\ s.owner = tables.owner
        /\ s.balance = tables.balance
        /\ s.inventory = tables.inventory \ {<<Giver(job[w]), i>>}
    BY <1>2 DEF Tables
  <2>2. Beside(job[w], k) /\ k.pc = "own" /\ k.moving = {i}
    BY <1>2 DEF Beside, Job
  <2> HIDE DEF k, s
  <2>3. Moving(k, s, durable)
    BY <1>1, <1>2, <2>1, <2>2, TakeMoves
  <2> QED
    BY <1>2, <1>4, <2>1, <2>2, <2>3, BesideFacts, NextMark DEF MovingSteps
<1>5. CASE Become(w, At(job[w], "exec_rollback")) /\ UNCHANGED connection
  BY <1>2, <1>5, UndoKept
<1> QED
  BY <1>3, <1>4, <1>5

LEMMA AtBeside ==
  ASSUME NEW j \in Job, NEW label
  PROVE  /\ Beside(j, At(j, label)) /\ At(j, label).pc = label
         /\ At(j, label).moving = j.moving
         /\ At(j, label).from_balance = j.from_balance
         /\ At(j, label).to_balance = j.to_balance
BY AtSame DEF Beside, Same

LEMMA UpdateOwnerKept ==
  ASSUME NEW w, Turn(w), UpdateOwner(w)
  PROVE  Kept
<1>1. job[w].pc = "own" /\ job[w].pc \in MovingSteps
  BY DEF UpdateOwner, Running, MovingSteps
<1>2. /\ job[w].pc \in Marking /\ job[w] \in Job /\ tables \in Tables /\ inTx
      /\ Rowed(job[w], tables, durable) /\ Moving(job[w], tables, durable)
      /\ One(job[w])
  BY <1>1, MovingFacts
<1>3. PICK i \in job[w].moving :
        \/ /\ Store([tables EXCEPT !.owner[i] = Getter(job[w])])
           /\ Become(w, At(job[w], "give"))
        \/ Become(w, At(job[w], "exec_rollback")) /\ UNCHANGED connection
  BY DEF UpdateOwner, Update
<1> DEFINE k == At(job[w], "give")
           s == [tables EXCEPT !.owner[i] = Getter(job[w])]
<1>4. CASE Store(s) /\ Become(w, k)
  <2>1. /\ s.trades = tables.trades /\ s.inventory = tables.inventory
        /\ s.balance = tables.balance
        /\ \A m \in Items : s.owner[m] = IF m = i THEN Getter(job[w])
                                                 ELSE tables.owner[m]
    BY <1>2 DEF Tables
  <2>2. job[w].moving = {i}
    BY <1>2, <1>3 DEF One
  <2>3. Beside(job[w], k) /\ k.pc = "give" /\ k.moving = {i}
    BY <1>2, <2>2, AtBeside
  <2> HIDE DEF k, s
  <2>4. Moving(k, s, durable)
    BY <1>1, <1>2, <2>1, <2>2, <2>3, OwnMoves
  <2> QED
    BY <1>2, <1>4, <2>1, <2>3, <2>4, BesideFacts, NextMark DEF MovingSteps
<1>5. CASE Become(w, At(job[w], "exec_rollback")) /\ UNCHANGED connection
  BY <1>2, <1>5, UndoKept
<1> QED
  BY <1>3, <1>4, <1>5

LEMMA AddKept ==
  ASSUME NEW w, Turn(w), AddToInventory(w)
  PROVE  Kept
<1>1. job[w].pc = "give" /\ job[w].pc \in MovingSteps
  BY DEF AddToInventory, Running, MovingSteps
<1>2. /\ job[w].pc \in Marking /\ job[w] \in Job /\ tables \in Tables /\ inTx
      /\ Rowed(job[w], tables, durable) /\ Moving(job[w], tables, durable)
      /\ One(job[w])
  BY <1>1, MovingFacts
<1>3. PICK i \in job[w].moving :
        \/ /\ \/ /\ <<Getter(job[w]), i>> \in tables.inventory
                 /\ Store(tables)
              \/ Store([tables EXCEPT
                          !.inventory = @ \cup {<<Getter(job[w]), i>>}])
           /\ Become(w, At(job[w], "lock"))
        \/ Become(w, At(job[w], "exec_rollback")) /\ UNCHANGED connection
  BY DEF AddToInventory, Update, Insert
<1> DEFINE k == At(job[w], "lock")
           s == [tables EXCEPT !.inventory = @ \cup {<<Getter(job[w]), i>>}]
<1>r. job[w].moving = {i}
  BY <1>2, <1>3 DEF One
<1>k. Beside(job[w], k) /\ k.pc = "lock" /\ k.moving = {i}
  BY <1>2, <1>r, AtBeside
<1>4. ASSUME NEW rows, Store(rows), Become(w, k), rows.trades = tables.trades,
             rows.owner = tables.owner, rows.balance = tables.balance,
             rows.inventory = tables.inventory \cup {<<Getter(job[w]), i>>}
      PROVE  Kept
  <2> HIDE DEF k
  <2>1. Moving(k, rows, durable)
    BY <1>1, <1>2, <1>4, <1>r, <1>k, GiveMoves
  <2> QED
    BY <1>2, <1>4, <1>k, <2>1, BesideFacts, NextMark DEF MovingSteps
<1>5. /\ s.trades = tables.trades /\ s.owner = tables.owner
      /\ s.balance = tables.balance
      /\ s.inventory = tables.inventory \cup {<<Getter(job[w]), i>>}
  BY <1>2 DEF Tables
<1>6. CASE Become(w, k) /\ Store(s)
  <2> HIDE DEF k, s
  <2> QED
    BY <1>4, <1>5, <1>6
<1>7. CASE /\ Become(w, k) /\ Store(tables)
           /\ <<Getter(job[w]), i>> \in tables.inventory
  <2>1. tables.inventory = tables.inventory \cup {<<Getter(job[w]), i>>}
    BY <1>7
  <2> HIDE DEF k
  <2> QED
    BY <1>4, <1>7, <2>1
<1>8. CASE Become(w, At(job[w], "exec_rollback")) /\ UNCHANGED connection
  BY <1>2, <1>8, UndoKept
<1> QED
  BY <1>3, <1>6, <1>7, <1>8

LEMMA LockKept ==
  ASSUME NEW w, Turn(w), ApplyTradeLock(w)
  PROVE  Kept
<1>1. job[w].pc = "lock" /\ job[w].pc \in MovingSteps
  BY DEF ApplyTradeLock, Running, MovingSteps
<1>2. /\ job[w].pc \in Marking /\ job[w] \in Job /\ tables \in Tables /\ inTx
      /\ Rowed(job[w], tables, durable) /\ Moving(job[w], tables, durable)
      /\ One(job[w]) /\ InArray(job[w])
  BY <1>1, MovingFacts
<1> DEFINE j == [job[w] EXCEPT !.todo = @ \ job[w].moving, !.moving = {}]
           c == StartCash(j)
           l == Loop(j, "take", c)
<1>3. job[w].moving \subseteq job[w].todo
  BY <1>2 DEF One
<1>4. /\ j \in Job /\ Same(job[w], j) /\ InArray(j)
      /\ PassedOffered(j) = PassedOffered(job[w])
           \cup (IF job[w].side = "offered" THEN job[w].moving ELSE {})
      /\ PassedRequested(j) = PassedRequested(job[w])
           \cup (IF job[w].side = "offered" THEN {} ELSE job[w].moving)
  BY <1>2, <1>3, PutBehind
<1>5. Become(w, l) /\ (Store(tables) \/ UNCHANGED connection)
  BY DEF ApplyTradeLock, Update
<1> HIDE DEF j
<1>6. GoesOn(j, l, "take") \/ (l = c /\ ThroughBoth(j))
  BY <1>4, LoopCases
<1> HIDE DEF l
<1>7. CASE GoesOn(j, l, "take")
  <2>1. Moving(l, tables, durable)
    BY <1>1, <1>2, <1>4, <1>7, LockMoves
  <2>2. l.pc = "take" /\ Same(job[w], l)
    BY <1>4, <1>7 DEF GoesOn, Same
  <2> QED
    BY <1>2, <1>5, <2>1, <2>2, NextMark DEF MovingSteps
<1>8. CASE l = c /\ ThroughBoth(j)
  <2>1. Exchanged(j.offer, tables, durable) /\ tables.balance = durable.balance
    BY <1>1, <1>2, <1>4, <1>8, LockExchanges DEF Same
  <2>2. Rowed(j, tables, durable)
    BY <1>2, <1>4 DEF Rowed, Same
  <2>3. /\ Same(j, c)
        /\ \/ c.pc = "from_cash" /\ Paying(c, tables, durable)
           \/ c.pc = "call" /\ Paid(c, tables, durable)
    BY <2>1, <2>2, StartCashPays
  <2>4. Same(job[w], c)
    BY <1>4, <2>3 DEF Same
  <2> HIDE DEF c
  <2> QED
    BY <1>2, <1>5, <1>8, <2>3, <2>4, NextMark DEF PayingSteps, PaidSteps
<1> QED
  BY <1>6, <1>7, <1>8

LEMMA PayingFacts ==
  ASSUME NEW w, Turn(w), job[w].pc \in PayingSteps
  PROVE  /\ job[w].pc \in Marking /\ job[w] \in Job /\ tables \in Tables
         /\ job[w].offer.from_user \in Users /\ job[w].offer.to_user \in Users
         /\ inTx
         /\ Rowed(job[w], tables, durable)
         /\ Paying(job[w], tables, durable)
<1>1. job[w].pc \in Marking
  BY DEF Marking
<1>2. Paying(job[w], tables, durable)
  BY <1>1, TurnFacts, StageBegun
<1>3. Rowed(job[w], tables, durable) /\ inTx
  BY <1>1, InTransaction
<1> QED
  BY <1>1, <1>2, <1>3, TurnFacts, RowedTypes

LEMMA LoadFromKept ==
  ASSUME NEW w, Turn(w), LoadFromUser(w)
  PROVE  Kept
<1>1. job[w].pc = "from_cash" /\ job[w].pc \in PayingSteps
  BY DEF LoadFromUser, Running, PayingSteps
<1>2. /\ job[w].pc \in Marking /\ job[w] \in Job
      /\ Rowed(job[w], tables, durable) /\ Paying(job[w], tables, durable)
  BY <1>1, PayingFacts
<1> DEFINE k == [job[w] EXCEPT !.pc = "to_cash",
                   !.from_balance = tables.balance[job[w].offer.from_user]]
<1>3. Become(w, k) /\ UNCHANGED connection
  BY DEF LoadFromUser
<1>4. /\ Beside(job[w], k) /\ k.pc = "to_cash"
      /\ k.from_balance = tables.balance[job[w].offer.from_user]
  BY <1>2 DEF Beside, Job
<1> HIDE DEF k
<1>5. Paying(k, tables, durable)
  BY <1>1, <1>2, <1>4, FromLoads
<1> QED
  BY <1>2, <1>3, <1>4, <1>5, BesideFacts, NextMark DEF PayingSteps

LEMMA LoadToKept ==
  ASSUME NEW w, Turn(w), LoadToUser(w)
  PROVE  Kept
<1>1. job[w].pc = "to_cash" /\ job[w].pc \in PayingSteps
  BY DEF LoadToUser, Running, PayingSteps
<1>2. /\ job[w].pc \in Marking /\ job[w] \in Job /\ inTx /\ tables \in Tables
      /\ job[w].offer.to_user \in Users
      /\ Rowed(job[w], tables, durable) /\ Paying(job[w], tables, durable)
  BY <1>1, PayingFacts
<1> DEFINE p  == Payment(job[w])
           to == tables.balance[job[w].offer.to_user]
           k  == [job[w] EXCEPT !.pc = "pay_from", !.from_balance = @ - p,
                                !.to_balance = to + p]
<1>3. /\ UNCHANGED connection
      /\ Become(w, IF job[w].from_balance < p \/ to < -p
                   THEN At(job[w], "exec_rollback") ELSE k)
  BY DEF LoadToUser
<1>t. job[w].from_balance \in Int /\ p \in Int /\ to \in Int
  <2>1. p \in Int
    BY <1>2, UsersOfJob
  <2>2. to \in Int
    BY <1>2 DEF Tables
  <2> QED
    BY <1>2, <2>1, <2>2 DEF Job
<1>4. /\ Beside(job[w], k) /\ k.pc = "pay_from"
      /\ k.from_balance = job[w].from_balance - p /\ k.to_balance = to + p
  BY <1>2 DEF Beside, Job
<1> HIDE DEF k
<1>5. CASE job[w].from_balance < p \/ to < -p
  <2>1. Become(w, At(job[w], "exec_rollback"))
    BY <1>3, <1>5
  <2> QED
    BY <1>2, <1>3, <2>1, UndoKept
<1>6. CASE ~(job[w].from_balance < p \/ to < -p)
  <2>1. job[w].from_balance >= p /\ to >= -p
    BY <1>6, <1>t
  <2>2. Become(w, k)
    BY <1>3, <1>6
  <2>3. Paying(k, tables, durable)
    BY <1>1, <1>2, <1>4, <2>1, ToLoads
  <2> QED
    BY <1>2, <1>3, <1>4, <2>2, <2>3, BesideFacts, NextMark DEF PayingSteps
<1> QED
  BY <1>5, <1>6

LEMMA PayFromKept ==
  ASSUME NEW w, Turn(w), UpdateFromUser(w)
  PROVE  Kept
<1>1. job[w].pc = "pay_from" /\ job[w].pc \in PayingSteps
  BY DEF UpdateFromUser, Running, PayingSteps
<1>2. /\ job[w].pc \in Marking /\ job[w] \in Job /\ inTx /\ tables \in Tables
      /\ Rowed(job[w], tables, durable) /\ Paying(job[w], tables, durable)
  BY <1>1, PayingFacts
<1> DEFINE k == At(job[w], "pay_to")
           s == [tables EXCEPT
                   !.balance[job[w].offer.from_user] = job[w].from_balance]
<1>3. \/ Store(s) /\ Become(w, k)
      \/ Become(w, At(job[w], "exec_rollback")) /\ UNCHANGED connection
  BY DEF UpdateFromUser, Update
<1>4. CASE Store(s) /\ Become(w, k)
  <2>1. /\ s.trades = tables.trades /\ s.inventory = tables.inventory
        /\ s.owner = tables.owner
        /\ \A u \in Users : s.balance[u] = IF u = job[w].offer.from_user
                                           THEN job[w].from_balance
                                           ELSE tables.balance[u]
    BY <1>2 DEF Tables
  <2>2. Beside(job[w], k) /\ k.pc = "pay_to" /\ k.to_balance = job[w].to_balance
    BY <1>2, AtBeside
  <2> HIDE DEF k, s
  <2>3. Paying(k, s, durable)
    BY <1>1, <1>2, <2>1, <2>2, FromPays
  <2> QED
    BY <1>2, <1>4, <2>1, <2>2, <2>3, BesideFacts, NextMark DEF PayingSteps
<1>5. CASE Become(w, At(job[w], "exec_rollback")) /\ UNCHANGED connection
  BY <1>2, <1>5, UndoKept
<1> QED
  BY <1>3, <1>4, <1>5

LEMMA PayToKept ==
  ASSUME NEW w, Turn(w), UpdateToUser(w)
  PROVE  Kept
<1>1. job[w].pc = "pay_to" /\ job[w].pc \in PayingSteps
  BY DEF UpdateToUser, Running, PayingSteps
<1>2. /\ job[w].pc \in Marking /\ job[w] \in Job /\ inTx /\ tables \in Tables
      /\ Rowed(job[w], tables, durable) /\ Paying(job[w], tables, durable)
  BY <1>1, PayingFacts
<1> DEFINE j == job[w]
           h == [j EXCEPT !.side = "requested"]
           c == CashLoop(h)
           k == At(j, "call")
           s == [tables EXCEPT !.balance[j.offer.to_user] = j.to_balance]
<1>3. \/ Store(s) /\ Become(w, IF j.side = "offered" THEN c ELSE k)
      \/ Become(w, At(j, "exec_rollback")) /\ UNCHANGED connection
  BY DEF UpdateToUser, Update
<1>4. CASE Store(s) /\ Become(w, IF j.side = "offered" THEN c ELSE k)
  <2>1. /\ s.trades = tables.trades /\ s.inventory = tables.inventory
        /\ s.owner = tables.owner
        /\ \A u \in Users : s.balance[u] = IF u = j.offer.to_user
                                           THEN j.to_balance
                                           ELSE tables.balance[u]
    BY <1>2 DEF Tables
  <2>s. s \in Tables
    BY <1>2 DEF Tables, Job
  <2> HIDE DEF s
  <2>2. /\ Exchanged(j.offer, s, durable)
        /\ CanPay(j.offer, durable)
        /\ j.side = "requested" => CanPayBack(j.offer, durable)
        /\ Transferred(j.offer, Before(j) + Payment(j), Before(j) + Payment(j),
                       s, durable)
    BY <1>1, <1>2, <2>1, ToPays
  <2>t. /\ j.offer.offered_cash \in Nat /\ j.offer.requested_cash \in Nat
        /\ j.side \in {"offered", "requested"}
    BY <1>2, RowedTypes
  <2>3. CASE j.side = "offered"
    <3>1. Before(j) + Payment(j) = j.offer.offered_cash
      BY <2>3, <2>t DEF Before, Payment
    <3>2. /\ h \in Job /\ h.offer = j.offer /\ h.trade_id = j.trade_id
          /\ h.side = "requested"
      BY <1>2 DEF Job
    <3> HIDE DEF h
    <3>3. AtCash(h, s, durable)
      BY <2>2, <3>1, <3>2 DEF AtCash
    <3>4. Rowed(h, s, durable)
      BY <1>2, <2>s, <3>2 DEF Rowed
    <3>5. /\ Same(h, c)
          /\ \/ c.pc = "from_cash" /\ Paying(c, s, durable)
             \/ c.pc = "call" /\ Paid(c, s, durable)
      BY <3>3, <3>4, CashLoopPays
    <3>6. Same(j, c) /\ Become(w, c)
      BY <1>4, <2>3, <3>2, <3>5 DEF Same
    <3> HIDE DEF c
    <3> QED
      BY <1>2, <1>4, <2>1, <3>5, <3>6, NextMark DEF PayingSteps, PaidSteps
  <2>4. CASE j.side = "requested"
    <3>1. Before(j) + Payment(j)
            = j.offer.offered_cash - j.offer.requested_cash
      BY <2>4, <2>t DEF Before, Payment
    <3>2. k.pc = "call" /\ Same(j, k) /\ k.offer = j.offer
      BY <1>2, AtSame DEF Same
    <3>3. Become(w, k)
      BY <1>4, <2>4
    <3> HIDE DEF k
    <3>4. Paid(k, s, durable)
      BY <2>2, <2>4, <3>1, <3>2 DEF Paid
    <3> QED
      BY <1>2, <1>4, <2>1, <3>2, <3>3, <3>4, NextMark DEF PaidSteps
  <2> QED
    BY <2>t, <2>3, <2>4
<1>5. CASE Become(w, At(j, "exec_rollback")) /\ UNCHANGED connection
  BY <1>2, <1>5, UndoKept
<1> QED
  BY <1>3, <1>4, <1>5

LEMMA PaidFacts ==
  ASSUME NEW w, Turn(w), job[w].pc \in PaidSteps
  PROVE  /\ job[w].pc \in Marking /\ job[w] \in Job /\ tables \in Tables
         /\ inTx
         /\ Begun(job[w], tables, durable)
         /\ Rowed(job[w], tables, durable)
         /\ Paid(job[w], tables, durable)
<1>1. job[w].pc \in Marking
  BY DEF Marking
<1> QED
  BY <1>1, InTransaction, TurnFacts, StageBegun

(* The follow-up calls find the transaction open and do nothing; the       *)
(* challenges they update are in no table of the module.                   *)
LEMMA CallsKept ==
  ASSUME NEW w, Turn(w),
         \/ CallBegin(w) \/ CallLoad(w) \/ CallWrite(w) \/ CallCommit(w)
         \/ CallRollback(w) \/ UpdateChallenges(w)
  PROVE  Kept
<1>1. job[w].pc \notin {"call_load", "call_write", "call_commit", "call_rollback"}
  BY TurnFacts DEF Stage
<1>2. CallBegin(w) \/ UpdateChallenges(w)
  BY <1>1 DEF CallLoad, CallWrite, CallCommit, CallRollback, Running
<1>3. job[w].pc \in PaidSteps
  BY <1>2 DEF CallBegin, UpdateChallenges, Running, PaidSteps
<1>4. /\ job[w].pc \in Marking /\ job[w] \in Job /\ inTx
      /\ Paid(job[w], tables, durable)
  BY <1>3, PaidFacts
<1> DEFINE k == NextCall(job[w])
<1>5. Become(w, k) /\ (Store(tables) \/ UNCHANGED connection)
  BY <1>2, <1>4 DEF CallBegin, UpdateChallenges, Begin, BeginRefused, Update
<1>6. k.pc \in PaidSteps /\ Same(job[w], k) /\ k.offer = job[w].offer
  BY <1>4 DEF NextCall, At, Job, Same, PaidSteps
<1> HIDE DEF k
<1>7. Paid(k, tables, durable)
  BY <1>4, <1>6, SamePaid
<1> QED
  BY <1>4, <1>5, <1>6, <1>7, NextMark

(* What Paid says is what TradeBook does in one step. *)
LEMMA PaidExchanges ==
  ASSUME NEW w, Turn(w), job[w].pc \in PaidSteps, durable' = tables
  PROVE  Book!Next
<1> DEFINE j == job[w]
           o == j.offer
           t == j.trade_id
<1>1. /\ Begun(j, tables, durable) /\ Paid(j, tables, durable)
      /\ Rowed(j, tables, durable) /\ tables \in Tables /\ durable \in Tables
  BY PaidFacts, TurnFacts
<1>2. /\ t \in TradeIds /\ o = durable.trades[t] /\ o.status = "pending"
      /\ Owned(o, durable)
      /\ tables.trades = [durable.trades EXCEPT ![t].status = "accepted"]
  BY <1>1 DEF Begun, Accepts, TradeMarked
<1>t. /\ o.offered_cash \in Nat /\ o.requested_cash \in Nat
      /\ o.from_user \in Users /\ o.to_user \in Users /\ o.from_user # o.to_user
      /\ \A u \in Users : durable.balance[u] \in Nat
  BY <1>1, RowedTypes
<1>3. /\ OwnersMoved(o, o.offered, o.requested, tables, durable)
      /\ CanPay(o, durable) /\ CanPayBack(o, durable)
      /\ Transferred(o, o.offered_cash - o.requested_cash,
                     o.offered_cash - o.requested_cash, tables, durable)
  BY <1>1 DEF Paid, Exchanged
<1>4. durable'.owner = [i \in Items |-> CASE i \in o.offered   -> o.to_user
                                          [] i \in o.requested -> o.from_user
                                          [] OTHER             -> durable.owner[i]]
  <2>1. tables.owner = [i \in Items |-> tables.owner[i]]
    BY <1>1 DEF Tables
  <2>2. ASSUME NEW i \in Items
        PROVE  tables.owner[i] = CASE i \in o.offered   -> o.to_user
                                   [] i \in o.requested -> o.from_user
                                   [] OTHER             -> durable.owner[i]
    <3>1. ~(i \in o.offered /\ i \in o.requested)
      BY <1>1, ArraysApart
    <3>2. tables.owner[i] = IF i \in o.offered THEN o.to_user
                            ELSE IF i \in o.requested THEN o.from_user
                            ELSE durable.owner[i]
      BY <1>3 DEF OwnersMoved
    <3> HIDE DEF o
    <3> QED
      BY <3>1, <3>2
  <2> QED
    BY <2>1, <2>2
<1>5. durable'.balance = [durable.balance EXCEPT
                            ![o.from_user] = @ - o.offered_cash + o.requested_cash,
                            ![o.to_user]   = @ + o.offered_cash - o.requested_cash]
  <2>1. /\ tables.balance = [u \in Users |-> tables.balance[u]]
        /\ durable.balance = [u \in Users |-> durable.balance[u]]
    BY <1>1 DEF Tables
  <2>2. /\ tables.balance[o.from_user] = durable.balance[o.from_user]
             - o.offered_cash + o.requested_cash
        /\ tables.balance[o.to_user] = durable.balance[o.to_user]
             + o.offered_cash - o.requested_cash
        /\ \A u \in Users \ {o.from_user, o.to_user} :
             tables.balance[u] = durable.balance[u]
    BY <1>3, <1>t DEF Transferred
  <2>3. /\ o.from_user \in Users /\ o.to_user \in Users
        /\ o.from_user # o.to_user
    BY <1>t
  <2> DEFINE b == [durable.balance EXCEPT
                     ![o.from_user] = @ - o.offered_cash + o.requested_cash,
                     ![o.to_user]   = @ + o.offered_cash - o.requested_cash]
  <2> HIDE DEF o
  <2>4. b = [u \in Users |-> b[u]] /\ \A u \in Users : tables.balance[u] = b[u]
    BY <2>1, <2>2, <2>3
  <2> HIDE DEF b
  <2>5. tables.balance = b
    BY <2>1, <2>4
  <2> QED
    BY <1>t, <2>5 DEF b
<1>6. Book!Exchange(o)
  BY <1>2, <1>3, <1>4, <1>5 DEF Book!Exchange, Owned, CanPay, CanPayBack
<1>7. Book!Settle(t)
  BY <1>2, <1>6 DEF Book!Settle
<1> QED
  BY <1>2, <1>7 DEF Book!Next

LEMMA CommitKept ==
  ASSUME NEW w, Turn(w), CommitTransaction(w)
  PROVE  Kept
<1>1. job[w].pc \in PaidSteps
  BY DEF CommitTransaction, Running, PaidSteps
<1>2. /\ job[w] \in Job /\ inTx
      /\ Begun(job[w], tables, durable) /\ Paid(job[w], tables, durable)
  BY <1>1, PaidFacts
<1>3. CASE CommitRefused /\ Become(w, At(job[w], "rollback"))
  BY <1>2, <1>3, UndoKept DEF CommitRefused
<1>4. CASE Commit /\ Become(w, At(job[w], "log_receiver"))
  <2>1. durable' = tables /\ tables' = tables
    BY <1>4 DEF Commit
  <2>2. HeldBy(durable', {})
    BY <1>2, <2>1 DEF Paid, Exchanged
  <2>3. TwoParties(durable')
    <3>1. TradeMarked(job[w], tables, durable)
      BY <1>2 DEF Begun
    <3>2. durable.trades \in [TradeIds -> Trade]
      BY TurnFacts DEF Tables
    <3>3. \A t \in TradeIds :
            /\ tables.trades[t].status = "pending"
                 => durable.trades[t].status = "pending"
            /\ tables.trades[t].from_user = durable.trades[t].from_user
            /\ tables.trades[t].to_user = durable.trades[t].to_user
      BY <3>1, <3>2 DEF TradeMarked, Trade
    <3> QED
      BY <2>1, <3>3 DEF Turn, TwoParties
  <2>4. \A v \in Workers : Stage(job[v]', tables', durable', inTx', changes')
    BY <1>2, <1>4, AtFree, StagesKept DEF FreeSteps
  <2>5. Book!Next
    BY <1>1, <2>1, PaidExchanges
  <2> QED
    BY <2>1, <2>2, <2>3, <2>4, <2>5 DEF Kept, SerialInv, BookStep
<1> QED
  BY <1>3, <1>4 DEF CommitTransaction

LEMMA RollbackKept ==
  ASSUME NEW w, Turn(w), ExecRollback(w) \/ RollbackTransaction(w)
  PROVE  Kept
<1>1. job[w] \in Job
  BY TurnFacts
<1>2. PICK i : Become(w, i) /\ i.pc \in FreeSteps
  <2>1. Idle.pc \in FreeSteps /\ At(job[w], "rollback").pc \in FreeSteps
    BY <1>1, AtPc DEF Idle, FreeSteps
  <2> QED
    BY <2>1 DEF ExecRollback, RollbackTransaction
<1>3. durable' = durable /\ tables' = durable
  BY DEF ExecRollback, RollbackTransaction, Rollback, Turn
<1> QED
  BY <1>2, <1>3, FreeStage, QuietKept

-----------------------------------------------------------------------------
(* Every step, when requests do not overlap.                               *)

(* A worker that was idle is not when it has taken a request. *)
LEMMA RequestTaken ==
  ASSUME JobsType, ConnectionType, NEW w \in Workers,
         SendTradeOffer(w) \/ AcceptTrade(w) \/ CloseTrade(w)
  PROVE  job'[w].pc # "idle"
<1>1. CASE SendTradeOffer(w)
  <2>1. PICK o \in Offers :
          Become(w, StartLoop([Idle EXCEPT !.offer = o], "send_owner",
                              SendCash([Idle EXCEPT !.offer = o])))
    BY <1>1 DEF SendTradeOffer
  <2> DEFINE j == [Idle EXCEPT !.offer = o]
             l == StartLoop(j, "send_owner", SendCash(j))
  <2>2. j \in Job
    BY IdleType, OfferType DEF Job
  <2>3. Become(w, l)
    BY <2>1
  <2> HIDE DEF j
  <2>4. l.pc # "idle"
    BY <2>2, SendCashPc, StartLoopPc
  <2> HIDE DEF l
  <2> QED
    BY <2>3, <2>4, BecomePc
<1>2. CASE AcceptTrade(w)
  <2>1. PICK t \in TradeIds :
          LET j == [Idle EXCEPT !.trade_id = t, !.offer = tables.trades[t]] IN
          Become(w, IF t \in late
                    THEN [j EXCEPT !.pc = "expire", !.offer.status = "expired"]
                    ELSE StartLoop(j, "accept_owner", At(j, "begin")))
    BY <1>2 DEF AcceptTrade
  <2> DEFINE j == [Idle EXCEPT !.trade_id = t, !.offer = tables.trades[t]]
             l == StartLoop(j, "accept_owner", At(j, "begin"))
  <2>2. j \in Job
    BY IdleType DEF ConnectionType, Tables, Job
  <2>3. Become(w, GiveUp(j)) \/ Become(w, l)
    BY <2>1 DEF GiveUp
  <2> HIDE DEF j
  <2>4. l.pc # "idle"
    BY <2>2, AtPc, StartLoopPc
  <2>5. GiveUp(j).pc # "idle"
    BY <2>2 DEF GiveUp, Job
  <2> HIDE DEF l
  <2> QED
    BY <2>3, <2>4, <2>5, BecomePc
<1>3. CASE CloseTrade(w)
  <2>1. PICK t, status :
          Become(w, [Idle EXCEPT !.pc = "close", !.trade_id = t,
                                 !.offer = [tables.trades[t] EXCEPT
                                              !.status = status]])
    BY <1>3 DEF CloseTrade
  <2> DEFINE k == [Idle EXCEPT !.pc = "close", !.trade_id = t,
                               !.offer = [tables.trades[t] EXCEPT
                                            !.status = status]]
  <2>2. k.pc # "idle"
    BY DEF Idle
  <2>3. Become(w, k)
    BY <2>1
  <2> HIDE DEF k
  <2> QED
    BY <2>2, <2>3, BecomePc
<1> QED
  BY <1>1, <1>2, <1>3

LEMMA OthersIdle ==
  ASSUME JobsType, ConnectionType, Serial, Serial', NEW w \in Workers, Handler(w)
  PROVE  \A v \in Workers \ {w} : job[v].pc = "idle"
<1>1. CASE job[w].pc # "idle"
  BY <1>1 DEF Serial
<1>2. CASE job[w].pc = "idle"
  <2>1. SendTradeOffer(w) \/ AcceptTrade(w) \/ CloseTrade(w)
    BY <1>2 DEF Handler, Running, SendOwner, SendPending, SendFromCash, SendToCash,
       SaveTrade, TakeRowId, LogTransaction, AcceptOwner, AcceptInventory,
       ExpireTrade, BeginTransaction, AtomicAccept, ReadChanges,
       RemoveFromInventory, UpdateOwner, AddToInventory, ApplyTradeLock,
       LoadFromUser, LoadToUser, UpdateFromUser, UpdateToUser, CallBegin, CallLoad,
       CallWrite, CallCommit, CallRollback, UpdateChallenges, CommitTransaction,
       LogReceiver, ExecRollback, RollbackTransaction, WriteClosed
  <2>2. job'[w].pc # "idle"
    BY <2>1, RequestTaken
  <2>3. \A v \in Workers \ {w} : job'[v] = job[v]
    <3>1. PICK j : Become(w, j)
      BY <2>1 DEF SendTradeOffer, AcceptTrade, CloseTrade
    <3> QED
      BY <3>1, BecomePc
  <2> QED
    BY <2>2, <2>3 DEF Serial
<1> QED
  BY <1>1, <1>2

LEMMA HandlerTurn ==
  ASSUME SafetyInv, OpenTransactionHasOwner, SerialInv, Serial, Serial',
         NEW w \in Workers, Handler(w)
  PROVE  Turn(w)
<1>1. ConnectionType /\ JobsType /\ BalancesNeverNegative
  BY DEF SafetyInv, TypeOK, ConnectionType, JobsType
<1>2. \A v \in Workers \ {w} : job[v].pc = "idle"
  BY <1>1, OthersIdle
<1>3. inTx => job[w].pc \in InsideTx
  BY <1>2 DEF OpenTransactionHasOwner, InsideTx, Executing
<1> QED
  BY <1>1, <1>2, <1>3 DEF Turn, SerialInv

LEMMA SerialStep ==
  ASSUME SafetyInv, OpenTransactionHasOwner, SerialInv, Serial, Serial',
         [Next]_vars
  PROVE  Kept
<1>1. ASSUME NEW w \in Workers, Handler(w)
      PROVE  Kept
  <2>1. Turn(w)
    BY <1>1, HandlerTurn
  <2> QED
    BY <1>1, <2>1, SendTradeOfferKept, SendStepKept, SendPendingKept, SaveTradeKept,
       LogKept, AcceptTradeKept, AcceptOwnerKept, AcceptInventoryKept, BeginKept,
       CloseTradeKept, WriteBackKept, AtomicAcceptKept, ReadChangesKept,
       RemoveKept, UpdateOwnerKept, AddKept, LockKept, LoadFromKept, LoadToKept,
       PayFromKept, PayToKept, CallsKept, CommitKept, RollbackKept
    DEF Handler
<1>2. CASE Expire \/ UNCHANGED vars
  <2>1. UNCHANGED <<tables, durable, inTx, changes, job>>
    BY <1>2 DEF Expire, vars, connection
  <2>2. SerialInv'
    BY <2>1 DEF SerialInv
  <2>3. UNCHANGED Book!book
    BY <2>1 DEF Book!book
  <2> QED
    BY <2>2, <2>3 DEF Kept, BookStep
<1>3. CASE Crash
  <2>1. /\ tables' = durable /\ durable' = durable
        /\ \A w \in Workers : job'[w] = Idle
    BY <1>3 DEF Crash, Reopen
  <2>2. \A w \in Workers : Stage(job[w]', tables', durable', inTx', changes')
    BY <2>1, IdleStage
  <2>3. SerialInv'
    BY <2>1, <2>2 DEF SerialInv
  <2>4. UNCHANGED Book!book
    BY <2>1 DEF Book!book
  <2> QED
    BY <2>3, <2>4 DEF Kept, BookStep
<1> QED
  BY <1>1, <1>2, <1>3 DEF Next

LEMMA SerialInit == Init => SerialInv /\ Book!Init
<1> SUFFICES ASSUME Init PROVE SerialInv /\ Book!Init
  OBVIOUS
<1>1. PICK holder \in [Items -> Users], balance \in [Users -> Balances] :
        ConnectionInit(Rows(holder, balance))
  BY DEF Init
<1>2. /\ tables = durable /\ durable.trades = Opening /\ durable.owner = holder
      /\ durable.balance = balance
      /\ durable.inventory = {<<holder[i], i>> : i \in Items}
  BY <1>1 DEF ConnectionInit, Rows
<1>3. HeldBy(durable, {})
  BY <1>2 DEF HeldBy
<1>4. TwoParties(durable)
  <2>1. ASSUME NEW t \in TradeIds, Opening[t].status = "pending"
        PROVE  Opening[t].from_user # Opening[t].to_user
    <3>1. NoTrade.status # "pending"
      BY DEF NoTrade
    <3>2. Opening[t] \in Offers
      BY <2>1, <3>1, TradingAssumption
    <3> QED
      BY <3>2, TradingAssumption DEF WellFormed
  <2> QED
    BY <1>2, <2>1 DEF TwoParties
<1>5. \A w \in Workers : Stage(job[w], tables, durable, inTx, changes)
  BY IdleStage DEF Init
<1>6. Book!Init
  <2>1. Balances \subseteq Nat
    BY TradingAssumption
  <2>2. \A u \in Users : balance[u] \in Nat
    BY <2>1
  <2>3. \A u \in Users : durable.balance[u] >= 0
    BY <1>2, <2>2
  <2> QED
    BY <2>3 DEF Book!Init
<1> QED
  BY <1>2, <1>3, <1>4, <1>5, <1>6 DEF SerialInv

LEMMA SerialBehavior ==
  Spec /\ []Serial => [](SafetyInv /\ OpenTransactionHasOwner /\ SerialInv)
<1>1. SafetyInv /\ OpenTransactionHasOwner /\ SerialInv /\ Serial /\ Serial'
        /\ [Next]_vars => SerialInv'
  BY SerialStep DEF Kept
<1> QED
  BY <1>1, Safety, TransactionOwned, SerialInit, PTL DEF Spec

(* accept_trade moves items one by one between inventories and changes     *)
(* their owners in statements of their own.  As long as one request is     *)
(* served at a time, on disk every item is in the inventory of its owner   *)
(* and in no other, for every number of users and items, whatever          *)
(* statement fails and whenever the process is killed.                     *)
THEOREM HeldByOwners == Spec /\ []Serial => []HeldOnce
<1>1. SerialInv => HeldOnce
  BY DEF SerialInv, HeldBy, HeldOnce
<1> QED
  BY <1>1, SerialBehavior, PTL

(* The handlers of trading.c implement TradeBook on disk: an offer is made *)
(* as the client sent it, and is then settled, all its items and all its   *)
(* money, or closed without an effect, at most once; nothing else moves an *)
(* item or a balance.  This too while requests do not overlap.             *)
THEOREM TradesSettleAsAWhole == Spec /\ []Serial => SettlesAsAWhole
<1>1. Init => Book!Init
  BY SerialInit
<1>2. SafetyInv /\ OpenTransactionHasOwner /\ SerialInv /\ Serial /\ Serial'
        /\ [Next]_vars => [Book!Next]_(Book!book)
  BY SerialStep DEF Kept, BookStep
<1> QED
  BY <1>1, <1>2, SerialBehavior, PTL DEF Spec, SettlesAsAWhole, Book!Spec
=============================================================================
