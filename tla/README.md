# A verification project for the CS2 skin trading server

The repository is a C client/server program: players register, unbox and trade
weapon skins, put them on a market, and collect quests, achievements and daily
rewards. One server process keeps everything in one SQLite file. This directory
holds TLA+ models of its core, TLC configurations that check them on small
instances, and proofs checked by TLAPS that hold for every size.

File names below without a path are under `src/src/server/`.

## 1. The system

| Component | State it keeps | Operations | Talks to |
|---|---|---|---|
| Server main loop (`server.c`, ends of `request_handler.c`) | `g_client_fds`, `g_client_count`, `g_client_mutex`, `server_running`, the sockets | select, accept, receive a message, add a job, drop a client, stop | adds jobs to the pool, is walked by broadcasts |
| Thread pool (`thread_pool.c`) | `g_job_queue`: a circular array with `head`, `tail`, `count`, `shutdown`, a mutex, two condition variables | create, add a job, take a job, shut down | hands jobs from the main thread to `handle_client_request` |
| Request dispatch (`request_handler.c`) | none | parse, call a component, answer | all components, the client's socket |
| Database (`database_sqlite.c`) | the global connection `db` and the tables | one function per statement, begin/commit/rollback | every component, through the one connection |
| Trading (`trading.c`) | rows of `trades` | send, accept, decline, cancel an offer | owners, inventories, balances, quests, achievements, challenges |
| Market (`market.c`, `price_tracking.c`) | rows of `market_listings_v2`, price history | list, buy, remove | owners, inventories, balances, quests, challenges |
| Quests (`quests.c`) | rows of `quests` | daily reset, progress, claim | balances; progress is called by trades, purchases, unboxings, the reset by registration and login |
| Achievements (`achievements.c`) | rows of `achievements` | unlock, claim | balances |
| Login rewards (`login_rewards.c`) | streaks | streak, daily claim | balances |
| Trading challenges (`trading_challenges.c`) | rows of `trading_challenges` | create, accept, progress, complete, cancel by vote | net worth, balances; progress is called by trades, purchases, unboxings |
| Unboxing (`unbox.c`) | skin instances | roll, pay, create, broadcast | balances, inventories, quests, all clients |
| Accounts (`auth.c`) | users, sessions | register, login, logout | quests, login streak, the free skin; registration through a second connection |
| Chat, reports | chat log | insert, select | |
| Leaderboards, analytics | none | aggregate | read only |
| Client (`src/src/client/`) | one socket | ask, wait for the answer | the server |
| Logging, utilities, tools | log file | | |

How they interact. The main thread reads one whole message while it holds
`g_client_mutex` and adds (descriptor, message) to the pool's queue, waiting
there while the queue is full. Workers take jobs, execute the handler and write
the answer to the descriptor. All handlers use one SQLite connection that is
serialized (a statement is atomic), but a transaction, `sqlite3_changes` and
`sqlite3_last_insert_rowid` belong to the connection and not to the thread.
Components share the tables `users` (balances), `skin_instances` (owners) and
`inventories`, and call each other: a trade or a purchase updates quests,
achievements and challenges.

What is hard here: handlers interleave statement by statement in one another's
transactions; balances are read, then written as absolute values; validation
happens outside the transaction; any statement can fail and the process can be
killed between any two; a transaction that an error path forgets would block
every later one; what decides about rewards and penalties is the clock; the queue is bounded and its producer holds a mutex that its
consumers need; descriptors are reused; a signal may arrive anywhere; answers and broadcasts
share a socket, and the client takes the next message for its answer.

What correctness means, by component:

- Database: only what was committed survives a kill. A transaction has a worker
  that ends it.
- Trading: an offer is settled whole or not at all, closed once. Items are in
  one inventory. Balances do not go negative. Processed offers stay processed.
- Market: a sale is whole, money is conserved, an item is listed once.
- Pool: a bounded FIFO queue, each job taken once, no lost wakeup, shutdown
  drains and returns.
- Server: the client list is exact, each request is answered once and to its
  client while clients stay, nobody who waits is forgotten when they do not, a
  stop request stops it.
- Quests, achievements, login rewards: each reward is paid once, and marked as
  claimed only when paid; quests live for a day.
- Challenges: reward and completion are one, a penalty is due after a day, two
  votes end a race, what is over stays over.
- Unboxing: paid for, exactly one item for each payment, and each rarity drawn as
  often as its tier says.
- Accounts: a new account has its free skin and its quests, a token stays with
  its user.
- Client: each answer belongs to its question, and a read returns.

## 2. The modules

Money is an integer. Where time decides, it is a small list of instants
(`Hours` gives the hour of each second that happens); elsewhere it appears only
as "has expired".

**Connection** is the shared connection, and the base of every module whose
handlers use it. `tables` is what statements see, `durable` what a restart
finds. `Update` and `Insert` store rows at once in `durable` when no
transaction is open, and set `changes` and `lastRow`. `Begin`, `Commit` and
`Rollback` act on the connection whoever calls them: a COMMIT commits what
another worker has written. `BEGIN IMMEDIATE` inside a transaction fails.
`Reopen` is a kill and a restart. `Faults` lets statements fail.

In the modules that EXTEND it, `job[w]` holds the locals of the handler that
worker w is in, `pc` the statement it comes to next, and an action is one SQL
statement or one read. Reads do not fail, nor does ROLLBACK. Refusals that change
nothing are left out where the first read decides them.

**Trading** EXTENDS Connection: `send_trade_offer`, `accept_trade` with
`execute_trade_internal`, `decline_trade` and `cancel_trade`. Item arrays are
sets, so an item may be moved in any order. Follow-up calls are the two quests
and the achievement of both parties and the challenges (`CallBegin` to
`UpdateChallenges`). `Crash` kills the process, `Expire` lets an offer's time
pass. Left out: trade locks (a column no handler reads: `is_trade_locked` has no
caller), the content of logs, and `clean_expired_trades`, which has no caller. A
row read is one step, also when it fetches several rows. `MAX_INVENTORY_SIZE` is
not reached.

**TradeBook** is what trading promises: offers, each settled by one exchange of
items and money or closed without an effect.

**Market** EXTENDS Connection: `list_skin_on_market`, `buy_from_market`,
`remove_listing` and the calls after a purchase. Money is in units of the
listing fee ($0.50), the fee on a sale is 15 per cent of the price, and a payout
refunds the listing fee, as `market.c` does. The refusal of items in pending
trades is left out with the table of trades.

**Accounts** EXTENDS Connection: `register_user` with its free skin,
`init_daily_quests`, `login_user` with session, streak and quest reset,
`logout_user`, `update_quest_progress`, `unlock_achievement`, and the three
claims. A token is the second of its login, as `generate_session_token` makes
it. The DELETE of `init_daily_quests` goes through a second connection: it is
durable at once, does not touch the counters of the first, and fails while the
first has a transaction open. Failed statements and kills are counted as
mishaps. `Clobbered` says whether another thread is seen to overwrite the buffer
that `localtime` returns. `NextType`, `Due`, `StreakDay`, `Days` are the
computations of `quests.c` and `login_rewards.c`.

**RewardBook** is what rewards promise: each is paid, then marked, and paid again
only when a mishap came in between.

**Sums** is the sum of a function's values over a set, which the accounts of the
market and the weights of the preview need.

**Unboxing** holds the pure part of `unbox.c`: `Drop` (the rarity a roll gives,
with thresholds in hundredths of a per cent and the fall-through of a case that
lacks a rarity), `Pool`, `Price`, and the weighted choice of the preview.

**Challenges** EXTENDS Connection and Unboxing: `unbox_case` with its
transaction and everything it calls after its COMMIT, and creation, acceptance,
progress, completion, votes and penalty of `trading_challenges.c`. They are in
one module because unboxings are what changes a net worth while a race lasts.
The duration of a race is looked at nowhere in the code, so the model has none.
The skin drawn is nondeterministic over `Dice` and `Pool`; the wear is one of
`Wears`.

**ThreadPool** is `thread_pool.c`: the array with `head`, `tail` and `count`,
what the main thread does inside the pool's functions (`caller`) and each worker.
A critical section is one action. The exception is a worker's test before it
waits, which is split (`Check`, `Wait`) because `thread_pool_init` sets
`shutdown` without the mutex when a thread cannot be created. Workers wake
spuriously. A spurious wakeup of the main thread would only test again and is
left out, and so is the path of `thread_pool_add_job` for a pool that is shut
down: the one caller never calls it then.

**JobQueue** is what the pool promises: a bounded FIFO queue.

**Server** EXTENDS ThreadPool: the main loop with one action per call that can
block or that another thread can observe, the client list, the sockets seen
from both ends, and workers that may broadcast and then answer. The loop that
closes the gaps in the list after each round (`CleanUp`, `KeepEntry`,
`EndCleanUp`) moves one entry per step, in place, as the code does. A job carries
the descriptor; the model adds the client that sent it so that properties can
compare. `Leaving`, `Signals` and `CreateFails` switch what the environment may
do. A client leaves only once it has been accepted. A socket holds one message at a
time (a bound in `SendHeader`), which matters only to a client that took an answer
to another for its own and asks again. Left out: parsing, failures
at start-up, bytes on the wire (a message is header, then whole).

**ClientProtocol** is one client program and its connection: requests, answers
and broadcasts as units of a byte stream (a header is two, a payload as many as
it is long), written header and payload apart because `send_response` and
`broadcast_to_all_clients` share no lock for the socket; `g_user_id`, the loops
of `main` and `authenticate` that decide what is asked next, the checks of magic
number, size and checksum, and a server that may end. All screens that send a
request and print its answer are one action (`HandleMenu`).

**TradingProofs, MarketProofs, AccountsProofs, ChallengesProofs,
ThreadPoolProofs, ServerProofs, ClientProofs** hold the proofs, and **SumProofs**
the lemmas about sums they share. The **MC** modules hold the small instances. A
definition whose comment begins with "Mutant of" is a plausible bug, used only to
see that a property notices it.

## 3. The runs

| Run | Question | Bounds |
|---|---|---|
| TradingSerial | Does trading, one request at a time, implement TradeBook on disk, with statements failing and kills everywhere? | 1 worker, 2 users, 2 items, 2 offers filed of 4 shapes (one item, two items, item and money for item, money both ways), 4 requests, balances 1 or 2 |
| TradingRace | What holds when handlers interleave? | 2 workers, 2 offers of one seller: a present of money, and an item its receiver can pay for only with that money; 3 requests, kills |
| MarketRace | Are transactions exclusive and sales whole? | 2 workers, 3 users, 2 items, 2 listings, 3 requests (list, buy), faults, kills |
| MarketSerial | Is money conserved, does a purchase count? | 1 worker, 3 users, 2 items, 3 listings, all requests, 4 of them, no faults and no kills |
| AccountsSerial | Is an account equipped, does a token stay with its user, do quests last a day, is each reward paid once? | 1 worker, 2 names, 2 quest types, 6 quest rows, 1 achievement, 3 instants (hours 0, 23 and 48 apart), all 8 requests, 4 of them, 1 mishap |
| AccountsRace | Is a quest marked as claimed only when it is paid? No. | 2 workers, 1 user, 2 quests, 4 requests, no mishap |
| ChallengesSerial | Do money, skins and the state of a challenge change together, and do votes count? | 1 worker, 2 players, a cheap skin and a knife, rolls on both sides of the knife's threshold, 2 items, 1 challenge, instants 0, 23 and 24 hours, all 6 requests, 5 of them, 1 mishap |
| PoolRun | Is the pool a FIFO queue that loses nothing and stops? | 3 workers, 3 slots, 2 jobs added any number of times, creation may fail |
| ServerServes | Is every request of clients that stay answered, once, to its client? | 2 clients that stay, 2 workers, 2 slots, broadcasts |
| ServerChurn | Is the client list exact, and nobody forgotten, when descriptors are reused under waiting jobs? | 3 clients for 2 places, that leave and return, signals, SIGPIPE |
| ServerFull | Does a main thread that meets a full queue go on? No. | 1 client, 1 worker, 1 slot |
| ClientRun | What does the client take for an answer, and does its read return? | 2 accounts, 4 requests, 1 broadcast, answers without payload or longer than the largest payload, a server that may end |

Why the bounds are enough. Two workers show every interleaving of two handlers;
the hazards listed are all races of two. The runs with one worker ask about
failures, kills and the order of whole requests, and catch no race: what two workers
break there (a settlement, a balance, a reward, a challenge) is listed below and in
the notes of the hazards, because no property that excludes it holds. Two items make a settlement have an
inside, two users are the parties of a trade or a race, and a third one is needed
only for a second buyer. Three queue slots make the array wrap while it is
neither empty nor full, three workers let a woken one find its job gone. Three
clients for two places refuse one, and leave a gap before an entry that is kept.
In ServerFull a client may fill a queue of one slot by leaving and returning. The
real queue has 1000 slots (`MAX_QUEUE_SIZE`), as many as there may be clients at a
time (`MAX_CLIENTS`): clients that leave while their jobs wait, and return, fill it
in the same way. In AccountsSerial the second instant is on
the next day but less than 24 hours later, which is what tells the two readings
of "a day" in the code apart; in ChallengesSerial the last two are on either side
of the 24 hours after which a vote costs a penalty. The purses are such that one
player can pay one case and not two, and less than the penalty. One broadcast
is enough for the client to be one message behind; what a second one would do
is the same again. Request counts are bounded by `MaxRequests`, failures and kills
by `MaxMishaps`, rows by `MaxTrades`, `MaxListings`, `MaxUsers`, `MaxQuests`,
`MaxItems` and `MaxChallenges`, broadcasts to the client by `MaxBroadcasts`;
nothing else is bounded. An insert beyond the bound of rows fails, except in
Trading, where it is not requested.

ServerChurn uses symmetry over its clients. It checks invariants only, and none
of them, nor any action, tells one client from another; the first value of
`request` and `job`, which `CHOOSE` takes from one of them, is read by nothing.

`CHECK_DEADLOCK FALSE` is set because bounded requests end, and the pool and
the server stop after a shutdown. That somebody who should go on does go on is
stated by the liveness properties.

Fairness. In the server: `WF` for the main thread: it is a thread, and every call
it makes is enabled until made. `SF` for workers and for the main thread inside
the pool: they wait for mutexes that others may take in between, and the pthread
mutexes are assumed not to starve one. Handlers return. `WF` for a client that
has sent a header to send the payload: `send_message_to_server` does both.
Nothing makes a client ask, leave, or a signal arrive. In ClientRun: `WF` for a
client to read what has come, for the main thread to read a request (broadcasts
are finitely many), and for the threads that answer and broadcast to go on; the
user may stop typing and the server may end or not.

### What the runs show

Hold: on disk a trade is settled whole, also across failures and kills, when
one request is executed at a time (TradingSerial). With two workers balances
stay non-negative, an open transaction always has a worker that ends it, and a
processed offer stays processed (TradingRace). A sale is whole and transactions
are exclusive even with two workers (MarketRace): `buy_from_market` and
`list_skin_on_market` never roll back twice and do not write outside their
transactions. With one worker rewards are paid once unless a mishap comes between
payment and mark (AccountsSerial refines RewardBook), and an unboxing, a
completion and a penalty each change money and state in one step of the disk,
and two votes end a challenge as long as no statement fails and nothing is killed
(ChallengesSerial). The pool implements its queue (PoolRun). While clients stay,
every request is answered once, to its client (ServerServes). The client list is
exact through every reuse of a descriptor, and a client that waits has its request
in its socket or in a job that carries its present descriptor, also when others'
jobs carry that number too (ServerChurn). A client is as many
messages behind as broadcasts have reached it, acts for the account it named last
while that is none, and is never left waiting (ClientRun).

Do not hold, each with a counterexample of TLC:

- ServerFull: the main thread waits for room with `g_client_mutex` held, the
  workers that could make room wait for that mutex in a broadcast.
- AccountsRace: `claim_quest_reward` pays in whatever transaction another worker
  has open, its verification reads what is not committed, that worker rolls
  back, and the mark that follows is durable. The reward is gone.

### What the models also show

Behaviour that differs from what the code or its documents say or suggest, which
the models have and no run is spent on. The hazards in PROJECT.json name the
weaker property that covers each, where there is one.

Trading and market:

- The second ROLLBACK of `accept_trade` (trading.c:209) may end the transaction
  another worker has begun since; that worker's settlement then becomes durable
  statement by statement.
- Quests and achievements are called inside the transaction of the trade
  (trading.c:666-679), where their own BEGIN always fails: no trade ever counts.
- The owner of a listed item can list it again (market.c:56), since listing does
  not change the owner. After the first of the two sales the seller may buy the
  item back; if the other listing is then sold and the DELETE from the seller's
  inventory fails, whose result `buy_from_market` ignores (market.c:200), the item
  stays in two inventories. `SaleIsWhole` allows this one deviation where
  statements fail.
- `remove_listing` is not a transaction: a purchase or a kill between its
  statements refunds a fee twice or leaves the item with two people. A balance
  read before BEGIN (market.c:66, unbox.c:98) is overwritten when two handlers of
  one user interleave.
- `sqlite3_changes` and `last_insert_rowid` are read in calls of their own.

Accounts and rewards:

- `TokensUnshared` is stated of one worker: with two, a logout and the login of
  another user in the same second may both run inside a third request's
  transaction, whose COMMIT makes the exchange durable in one step.
- `update_login_streak` stores the date of the login before the claim reads it
  (login_rewards.c:123): a player who logs in before claiming stays on the same
  day of the streak, and a missed day does not reset it (docs/intro.txt:98-100
  promise both).
- `localtime` returns one buffer for all threads, and logging overwrites it
  (logger.c:57); a date that keeps its time of day lets the reward of a day be
  claimed again. With `Clobbered = TRUE` BookKept fails.
- The client logs out with its user id (client.c:3400), the server deletes by
  token (request_handler.c:427): sessions stay for ever.

Challenges and unboxing:

- A race has no end of its own: its duration (docs/intro.txt:105-106) is stored
  and never read; either player may complete it at any time.
- A vote is weighed once, when given (trading_challenges.c:433): one given before
  the 24 hours is never looked at again, and when the penalty fails the vote
  stays. When the UPDATE after the second vote fails, or the process is killed
  before it, the challenge keeps both votes and its status, and neither player can
  vote again: `VotesDecide` is stated up to the first mishap. With two workers a challenge can be completed twice, and an accept can
  revive a cancelled one.
- The preview weighs each skin of the case (unbox.c:482-518) by its rarity, while
  the roll chooses a rarity first. A rarity is therefore shown in proportion to the
  number of its skins and drawn whatever that number is (`PreviewShares`,
  `RollShares`). "Matches actual drop rates" and "reflects actual drop rates"
  (unbox.c:428 and 506) would be true of a case with one skin of each rarity; the
  seeded cases (database_sqlite.c:60-130) have several skins of one rarity.
- The chat message of a rare unboxing is from user 0, which the foreign key
  refuses.

Server and client:

- A signal inside `select` leaves the descriptor sets as given: `accept` or
  `recv` then block and the pool is never shut down (server.c:236; server.c:37
  promises a graceful shutdown). ReadsOnlyReady is stated up to the signal.
- An answer may go to the next owner of a descriptor, who takes it for the answer
  to what it has asked itself (`NoWaiterForgotten` says only that its own is still
  to come, and not which of the two it reads first); and sending to a client
  that has left raises SIGPIPE, which ends the process.
- `thread_pool_init` sets `shutdown` without the mutex (thread_pool.c:115): a
  worker about to wait misses it and the join never returns.
- A broadcast that arrives while the client waits is taken for the answer. From
  then on every answer is read one request late, and a retried login may be
  answered by the one before it, for another name.
- An answer longer than `MAX_PAYLOAD_SIZE` keeps its length and loses its data
  (request_handler.c:328): the client refuses it and never finds a header again.
  It believes to be connected after the server has closed, and its next send
  raises SIGPIPE.

## 4. The proofs

Assumptions: the ASSUME of each module (finite workers for the pool, a queue of
at least one slot, finitely many users and items in the market, non-negative
opening balances, offers as the request handler
lets them through, at least one case, finite clients). TLC evaluates them in
every run. Where a theorem needs more, its ASSUME says so.

One request at a time. Several properties hold only while requests do not
overlap: handlers test a status or read a balance before BEGIN and do not look
again inside. The theorems about them have the form `Spec /\ []Serial => ...`,
where `Serial` says that while one worker is in the middle of a request the others
are idle. That is weaker than a pool of one worker, which satisfies it (the lemma
`OneWorkerIsSerial` of each module): any number of workers may take turns, and
requests may still fail, roll back and be killed at any statement. These proofs
share one argument. Without a transaction `tables` and `durable` are equal; inside
one they differ by exactly what its one handler has written so far. `Stage(j, ...)`
says what, label by label, as a function of the locals `j` of the handler, and what
the handler has read and not yet used; `SerialInv` says that every worker is at its
stage. `Turn(w)` collects what may be assumed when worker w acts. Then a lemma for
every group of handlers (`...Kept`) shows that each of its steps reaches the stage
of the next label and does to the disk only what it may; clock, kill and stuttering
are treated apart. `SerialInv` is inductive only together with the type or
transaction invariant of its module, which needs no such hypothesis.

**SumProofs**. A sum is a fold of the community modules, a recursive function
over the subsets of its set. The library's induction theorems cannot be used, but
the well-foundedness of inclusion among finite sets can: it is stated of sets, and
a property of sets is given to it as the set of the sets that have it
(`SubsetInduction`). From it follow that a sum of integers is an integer
(`TotalInt`), that it does not depend on the order in which the fold takes the
elements (`TotalRemove`), and what it becomes when one value changes
(`TotalChange`) or an element is added (`TotalAdd`).

**TradingProofs**:

- `TypeCorrect`, by one lemma per group of handlers and one per helper that
  computes the next state of a handler.
- `TransactionOwned`. A step outside a transaction leaves it as it is or opens
  one for the worker that took it (`OutsideStep`); a step inside ends it or stays
  inside (`InsideStep`). No strengthening beyond the types is needed, because
  nobody but a worker inside can leave a transaction open.
- `NeverOverdrawn` and `ProcessedStaysProcessed` follow from `SafetyInv`.
  Non-negative balances are not inductive: a handler writes what it computed
  earlier, so every handler must hold amounts that are covered by the balance it
  has read (`JobsFunded`). A ROLLBACK takes back other workers' writes, so
  the claim is needed for `durable` too. For processed trades, the row a handler
  is about to write must have a closing status (`JobsClose`), and what is
  processed on disk must be processed in `tables`, or a COMMIT could undo it.
- `HeldByOwners` (`HeldOnce`), while requests do not overlap: on disk each item is
  in the inventory of its owner and in no other. Inside the transaction the
  invariant knows the items already taken from one inventory, given a new owner and
  put into the other, for items moved in any order.
- `TradesSettleAsAWhole` (`SettlesAsAWhole`), while requests do not overlap: the
  handlers implement TradeBook on disk. A BEGIN, a write inside and a ROLLBACK are
  stutters; the COMMIT is one `Settle`, because at that label the difference of
  `tables` and `durable` is the whole exchange of the offer that was read as pending.

**MarketProofs**: types as in TradingProofs, and

- `MarketTransactions`. Every step of a worker stays out of the transaction,
  enters it when nobody is inside, stays inside or leaves it (`TxStep`), so the
  property is inductive. In Trading it is not: there handlers roll back twice.
- `MarketNeverOverdrawn`. What is deducted was read before, for a listing even
  before its BEGIN; the strengthening says that the balance a handler holds covers
  its next deduction (`JobsFunded`). The claim is about non-negative balances only:
  that no money is lost is false for two workers.
- `MarketSaleIsWhole`, for requests to list and to buy. `remove_listing` is left out
  by the assumption `"remove" \notin Kinds`: it writes outside a transaction, so
  its statements can become part of another worker's. The invariant (`SaleInv`)
  rests on `MarketTransactions`: without a transaction `tables` and `durable` are
  equal; inside one they differ by exactly what its one worker has written so far,
  which `Stage` gives for every label from the SELECT of the listing to the
  COMMIT. Whatever a step of that worker does, its next label's stage holds of the
  rows it leaves; the steps of all others leave the rows alone. A COMMIT is then
  reached either with nothing sold or with the sale done (`Done`), and `Done` is
  what `SaleIsWhole` asks of the step on disk.
- `MarketAccountsForMoney` (`MoneyAccounted`), while requests do not overlap.
  `Worth` is what balances, active listings and the fees of sales add up to.
  `BooksInv` says how far the tables are from the opening capital at every label of
  the handler in progress (`Books`): a listing fee is taken before its listing is
  inserted, a price before it is paid out, and `remove_listing` pays the fee back
  before it deletes the listing; on disk the books balance until a COMMIT, which is
  reached with nothing owed. The market's cut and the payout are the price together
  (`FeeIsPart`). A failed statement or a kill between two statements of
  `remove_listing`, which has no transaction, leaves a fee paid back and its listing
  active, so the theorem assumes that there are no faults and kills if
  `"remove" \in Kinds`; listing and buying may fail and be killed anywhere.
- `MarketCountsPurchases` (`PurchasesCount`), while requests do not overlap, when
  nothing fails and nothing is killed: `update_quest_progress` is called after the
  COMMIT of the sale, and `buy_from_market` ignores whether it succeeds. `TallyInv`
  says who may own, on disk, one item more than his quest has counted: the buyer, from
  the COMMIT of the sale until the quest is updated (`Credits`, `Debtors`).

**AccountsProofs**: `AccountsTransactions`. Control does not depend on the tables,
so the invariant types nothing of them: it says which fields the locals have, that
labels are labels, and that a worker at a claim has a kind of claim. Every step is
then `Legal`: it keeps the worker in or out, begins a transaction when none is open,
or ends the one it is in. While requests do not overlap also:

- `TokensAreUnshared` (`TokensUnshared`): `save_session` refuses a token that is
  there, and what a transaction has written never concerns sessions (`Alike`), so
  its COMMIT or ROLLBACK cannot exchange one.
- `QuestsLast` (`QuestsLastADay`): the reset looks at one quest and deletes all that
  are not claimed. Until the first mishap the open quests of a player were given out
  together (`OneBatch`), so between the test and the DELETE all of them are known to
  be a day old (`DayOld`).
- `RewardsKeepTheBook` (`BookKept`): the handlers implement RewardBook. The reward
  that is paid and not marked is the one its handler holds (`Pending`), and what a
  claim has found is still to be claimed when it is marked (`Found`). The theorem
  assumes `~Clobbered`: with an overwritten buffer of `localtime` TLC finds a day's
  reward paid twice.
- `AccountsAreEquipped` (`AccountsEquipped`): registration takes the user's number
  and then the skin's from `last_insert_rowid` in calls of their own. Users and
  skins are numbered alike (`Numbered`), since each user is followed by one skin:
  that is why the number read is the new one's, and why no skin passes from one user
  to another. `Outfit` says label by label who still has no skin (`Bare`) and which
  quest types the handler has dealt; the DELETE before the new quests leaves none
  open (`NoneOpen`). `EquipInv` makes the claims about other users and quests only
  as the property does, until a mishap or the last quest row; that owners and
  inventories are the same on disk, which a ROLLBACK needs, it says always.

**ChallengesProofs**: `ChallengesTransactions` and `ChallengesNeverOverdrawn`. A net
worth decides who wins and by how much, and none of these properties depends on
how. The invariant therefore says of rows and locals which fields they have, and
types only what balances and control depend on: players, balances, winners and
who is at which label. A balance to be written is covered: the price of the
case by what the handler has read before its BEGIN, the penalty by the `Max` with
0. `EveryRollDraws` is about `Pool` alone: whatever a case holds, the
fall-through ends at a rarity it has.

Two more theorems are about the computations of an unboxing, for every case.
`RollShares`: the rolls that have one tier as their rarest are an interval as long as
the weight of the tier (`BandWidth`), a case gives for each tier the rarity that
stands in for it (`Heir`), so a rarity is given by as many rolls as the weights of the
tiers it stands in for add up to. `PreviewShares`: for any list of weights the numbers
that choose an entry are an interval as long as its weight. They compare the code's
two sets of constants and say where its two draws differ.

`VotesAreCounted` (`VotesDecide`), while requests do not overlap: a challenge on disk
that has both votes and is not over is one whose handler is between the UPDATE of the
votes and that of the status (`VotesInv`). No other statement adds a vote
(`NoVote`), and the stages of the handlers say that a challenge about to be saved
as created has none.

Four theorems say what a step may do to the disk while requests do not overlap:
`OverIsOver` (`FinalIsFinal`), `RewardsComeWithCompletion` (`RewardWithCompletion`),
`PenaltiesAfterADay` (`PenaltyAfterADay`) and `UnboxingIsWhole` (`UnboxIsWhole`).
Their formulas are kept by every step together (`Lawful`), which is immediate for a
step that leaves the disk alone (`QuietKept`) and for a single statement that moves no
balance, no skin and ends no challenge (`Peaceful`). What is left are four steps, with
one lemma each about the two sets of rows: the UPDATE that cancels by both votes
(`BothLawful`) and the COMMITs of an unboxing, a completion and a penalty
(`UnboxLawful`, `CompleteLawful`, `PenaltyLawful`). Two things were needed for the
invariant to be inductive. The profits from which a winner is taken are those of the
net worths on disk only until the first mishap, since `complete_challenge` ignores a
failed update of them: `Stage` says so with the number of mishaps. And a vote that was
given a day after the start stays a day old while the clock goes on (`Older`), which is
what makes it safe to test the time before BEGIN.

**ThreadPoolProofs**: `PoolInv` says that `tail` lies `count` after `head`, that
while somebody sleeps the awake workers are at least as many as the jobs, that
the main thread sleeps only on a full queue, and that workers leave only a closed
empty one. From it follow the invariants of PoolRun, and the refinement
`PoolImplementsQueue`: the contents of the array from `head` on are the queue of
JobQueue, and every step is a Put, a Take, a Close or a stutter.

**ServerProofs** rests on `ServerInv`: the pool's `PoolInv`, the types, where
`index` and `kept` are at each label (`Loops`), that a connection has one
descriptor (`Connections`), that select watches what is in the list (`Watched`),
the exactness of the list, and that what select has reported stays readable
until it is read (`StaysReadable`). `accept` needs a free descriptor; that there
is one is a pigeonhole argument (`DescriptorLeft`), and that there is a lowest one
comes from the well-foundedness of `<`, used on a set (`Least`). `ListIsExact`
follows the compaction entry by entry: the entries that count are those kept and
those still to be looked at. Every step of the server is a step of the pool or
leaves it alone, so `ServerQueues` inherits the refinement of JobQueue.
`NoWaiterLost` (`NoWaiterForgotten`) holds with clients that leave and return. A job
keeps the number it was added under while its client may lose it, and the client then
waits no more. What has to be shown is that a step which
takes a job out of the main thread's hands, the queue or a worker's puts it into the
next (`JobStays`) or answers the client that has the descriptor (`AnswerReaches`), so
that a client which goes on waiting keeps what is under way for it (`KeepsWaiting`). `OneRequestAnswered`
assumes `~Leaving`, for with clients that leave a client may be answered by another's
answer: it counts a client's requests in its socket, with the main thread, in the queue
(lemmas `PlacesAppend`, `PlacesTail`) and with the workers, and every step keeps the
sum equal to whether the client waits. It rests on `StayInv`: a descriptor, once given,
keeps its client, and every job names it.

**ClientProofs** rests on `ProtocolInv`. `ActsForItsAccount` (`ActsAsLoggedIn`) holds
because every message that names an account in answer to a login is one the server
built for that login (`Messages`, `AnswerFacts`), whatever the threads write between
its header and its payload: a message that was torn fails its checks. Its second half
needs `InStep`: until a broadcast comes or a read fails, the client has one request on
the way or none, and the request, the job or the answer, whole or cut off by the end
of the server, is at exactly one place. `OneMessageBehind` (`LagsByBroadcasts`) counts
what begins in the stream, what the server has to read and what it has to answer:
the sum is the number of broadcasts, and one more while the client waits for a header
(`Counts`). A read that succeeds takes one beginning out of the stream, which needs
the counting lemma `BegunConcat`; that a request taken from the socket is a job the
server does not have yet needs the requests to be in order (`Numbered`).

Only model-checked: the liveness properties `ReadReturns`, `JobAccepted`,
`ShutdownReturns` and `Answered`, since fairness and ENABLED are out of the provers'
reach. Every other property of a passing run is a theorem, some under the
hypotheses named above. The failing properties are counterexamples and need no
proof.

Two formulas became what they are in the proofs. `PurchasesCount` used to count
the sold listings of items a user owns; for three users that is false, because an
item that is sold, bought and sold again has two such listings for its last buyer,
who bought it once. It now counts the items, and MarketSerial has the third user.
`MoneyAccounted` needs finitely many users and items to be a sum at all.

## 5. Not modelled

Chat and reports (one INSERT or SELECT each, no state of their own; `report_user`
has no message type), price tracking, leaderboards and analytics (aggregations
that only read), the client's screens, which print what an answer holds, logging,
the tools, payload formats and parsing, the choice of error codes, password
hashing, failures at start-up. `validate_session`, `clean_expired_trades`,
`check_expired_locks`, `check_achievements` and `db_atomic_claim_daily_reward`
have no caller in the server.

## 6. Plan

Done: Connection, Trading with TradeBook, Market, ThreadPool with JobQueue, Server,
Accounts with RewardBook, Unboxing, Challenges, ClientProtocol; the proofs listed
above.

What is left: a composition of ClientProtocol with Server for two clients, in
which a broadcast to one is caused by an unboxing of the other.

Runs are limited to one for each question.
