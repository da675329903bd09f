----------------------------- MODULE Challenges -----------------------------
(***************************************************************************)
(* Trading challenges (trading_challenges.c) and the unboxings that change *)
(* the players' net worth while they last (unbox.c), one action per SQL    *)
(* statement on the shared connection.  Money is in half dollars.          *)
(***************************************************************************)
EXTENDS Connection, Unboxing, Functions

CONSTANTS
  Workers,        \* the threads of the pool
  Users,          \* registered accounts
  Nobody,         \* the user of a row that is not there, the winner of a tie
  Purse,          \* their balances at the start
  Cases,          \* the cases
  CaseSkins,      \* the skin definitions in each
  CasePrice,      \* the price of each
  Dice,           \* the rolls that happen
  MaxItems,       \* bound on the rows of skin_instances
  MaxChallenges,  \* bound on the rows of trading_challenges
  QuestTarget,    \* progress at which a quest is completed
  Hours,          \* the hour of each second that happens
  Kinds,          \* the requests clients make
  MaxRequests,    \* bound on the requests the workers take
  MaxMishaps      \* bound on failed statements and kills

CASE_KEY_PRICE == 5
CHALLENGE_CANCEL_TIMEOUT_HOURS == 24
CHALLENGE_CANCEL_PENALTY_AMOUNT == 200
CHALLENGE_WINNER_REWARD_AMOUNT == 1000

ItemIds == 1 .. MaxItems
ChallengeIds == 1 .. MaxChallenges
Seconds == DOMAIN Hours
AllKinds == {"unbox", "create", "accept", "progress", "complete", "cancel"}
Quests == {"lucky_gambler", "profit_maker"}

Final == {"completed", "cancelled"}

(* Rows that are not there. *)
NoRow == 0
NoItem == [owner |-> Nobody, skin |-> CHOOSE s \in Skins : TRUE,
           wear |-> CHOOSE r \in Wears : TRUE]
NoChallenge == [challenger |-> Nobody, opponent |-> Nobody, status |-> "none",
                challenger_start |-> 0, opponent_start |-> 0,
                challenger_profit |-> 0, opponent_profit |-> 0,
                started |-> 1, votes |-> {}]

ASSUME ChallengesAssumption ==
  /\ Workers # {}
  /\ Nobody \notin Users
  /\ Cases # {}
  /\ Purse \in [Users -> Nat]
  /\ CaseSkins \in [Cases -> SUBSET Skins]
  /\ CasePrice \in [Cases -> Nat]
  /\ Dice \subseteq 0 .. 10000
  /\ MaxItems \in Nat \ {0} /\ MaxChallenges \in Nat \ {0}
  /\ QuestTarget \in Nat \ {0}
  /\ Hours \in [1 .. Cardinality(Seconds) -> Nat] /\ 1 \in Seconds
  /\ \A s, t \in Seconds : s <= t => Hours[s] <= Hours[t]
  /\ Kinds \subseteq AllKinds
  /\ MaxRequests \in Nat /\ MaxMishaps \in Nat
  /\ Faults = (MaxMishaps > 0)

VARIABLES
  job,       \* what each worker executes: the locals of the handler it is in
  now,       \* the clock: time(NULL)
  requests,  \* requests taken so far
  mishaps    \* failed statements and kills so far

vars == <<connection, job, now, requests, mishaps>>

-----------------------------------------------------------------------------
OutsideTx == {"idle", "unbox_user", "unbox_begin", "log", "call", "list", "next",
              "broadcast", "create_a", "create_b", "create_save",
              "accept_load", "accept_write", "progress_load", "worth_a",
              "worth_b", "progress_write", "complete_load", "reload",
              "complete_begin", "vote_load", "vote", "votes", "cancel",
              "penalty_begin"}
InsideTx == {"deduct", "draw", "create_item", "item_id", "give",
             "winner_load", "winner_pay", "complete_write",
             "penalty_load", "penalty_pay", "penalty_write",
             "commit", "rollback",
             "call_load", "call_write", "call_commit", "call_rollback"}

(* Locals: user_id, the case, what is drawn, the balance of the User       *)
(* struct, the follow-up reached and the progress it has read; the         *)
(* TradingChallenge struct and its id, a net worth, the challenges still   *)
(* to be updated, the winner.                                              *)
Idle == [pc |-> "idle", kind |-> "unbox", user |-> Nobody,
         case |-> CHOOSE c \in Cases : TRUE, item |-> NoItem, row |-> NoRow,
         balance |-> 0, call |-> 0, progress |-> 0,
         challenge |-> NoChallenge, id |-> NoRow, worth |-> 0, rest |-> {},
         winner |-> Nobody]

Become(w, j) == job' = [job EXCEPT ![w] = j]
At(j, label) == [j EXCEPT !.pc = label]
Running(w, label) == job[w].pc = label /\ UNCHANGED <<now, requests>>
Smooth == UNCHANGED mishaps
Mishap == mishaps < MaxMishaps /\ mishaps' = mishaps + 1

(* A request that a worker takes from the queue. *)
Request(w, kind) ==
  /\ job[w].pc = "idle"
  /\ kind \in Kinds
  /\ requests < MaxRequests
  /\ requests' = requests + 1
  /\ UNCHANGED <<connection, now, mishaps>>

(* A step that only reads. *)
Read(w, j) == Become(w, j) /\ Smooth /\ UNCHANGED connection

(* A statement that writes one row, or fails. *)
Write(w, rows, next, failed) ==
  \/ Update(rows, 1) /\ Become(w, next) /\ Smooth
  \/ Mishap /\ UNCHANGED connection /\ Become(w, failed)

WriteNew(w, rows, rowid, next, failed) ==
  \/ Insert(rows, rowid) /\ Become(w, next) /\ Smooth
  \/ Mishap /\ UNCHANGED connection /\ Become(w, failed)

BeginAt(w, label, next, refused) ==
  /\ Running(w, label)
  /\ \/ Begin /\ Become(w, next) /\ Smooth
     \/ BeginRefused /\ Become(w, refused) /\ (IF inTx THEN Smooth ELSE Mishap)

CommitAt(w, label, next, refused) ==
  /\ Running(w, label)
  /\ \/ Commit /\ Become(w, next) /\ Smooth
     \/ CommitRefused /\ Become(w, refused) /\ (IF inTx THEN Mishap ELSE Smooth)

(* UPDATE of a challenge by its id; one that is not there stays away.      *)
WriteChallenge(w, id, row, next, failed) ==
  IF tables.challenges[id].status = "none"
  THEN Write(w, tables, next, failed)
  ELSE Write(w, [tables EXCEPT !.challenges[id] = row], next, failed)

(* db_update_user writes the balance of the struct, not a difference.      *)
Pay(w, u, amount, next, failed) ==
  Write(w, [tables EXCEPT !.balance[u] = amount], next, failed)

-----------------------------------------------------------------------------
(* unbox_case *)

Cost(case) == CasePrice[case] + CASE_KEY_PRICE

UnboxCase(w) ==
  /\ Request(w, "unbox")
  /\ \E u \in Users, c \in Cases :
       Become(w, [Idle EXCEPT !.pc = "unbox_user", !.kind = "unbox", !.user = u,
                              !.case = c])

UnboxLoadUser(w) ==
  /\ Running(w, "unbox_user")
  /\ LET has == tables.balance[job[w].user] IN
     Read(w, IF has < Cost(job[w].case) THEN Idle
             ELSE [job[w] EXCEPT !.pc = "unbox_begin", !.balance = has])

UnboxBegin(w) == BeginAt(w, "unbox_begin", At(job[w], "deduct"), Idle)

DeductBalance(w) ==
  /\ Running(w, "deduct")
  /\ LET j == job[w] IN
     Pay(w, j.user, j.balance - Cost(j.case), At(j, "draw"), At(j, "rollback"))

(* The rarities the case has, the roll, the choice among the skins of the  *)
(* rarity drawn, the wear.                                                 *)
DrawSkin(w) ==
  /\ Running(w, "draw")
  /\ LET j == job[w] IN
     IF CaseSkins[j.case] = {}
     THEN Read(w, At(j, "rollback"))
     ELSE \E roll \in Dice, wear \in Wears :
            \E s \in Pool(CaseSkins[j.case], roll) :
              Read(w, [j EXCEPT !.pc = "create_item",
                         !.item = [owner |-> j.user, skin |-> s, wear |-> wear]])

NextItem == {i \in ItemIds :
               /\ tables.items[i].owner = Nobody
               /\ \A k \in ItemIds : k < i => tables.items[k].owner # Nobody}

(* The table is full once the bound MaxItems is reached. *)
CreateSkinInstance(w) ==
  /\ Running(w, "create_item")
  /\ LET j == job[w] IN
     IF NextItem = {}
     THEN Read(w, At(j, "rollback"))
     ELSE \E i \in NextItem :
            WriteNew(w, [tables EXCEPT !.items[i] = j.item], i,
                     At(j, "item_id"), At(j, "rollback"))

TakeItemId(w) ==
  /\ Running(w, "item_id")
  /\ Read(w, [job[w] EXCEPT !.pc = "give", !.row = lastRow])

(* Mutant of AddToInventory: a failure is ignored. *)
AddUnchecked(w) ==
  /\ Running(w, "give")
  /\ LET j == job[w] IN
     WriteNew(w, [tables EXCEPT !.inventory = @ \cup {<<j.user, j.row>>}],
              OtherRow, At(j, "commit"), At(j, "commit"))

(* The foreign key demands a row of skin_instances; INSERT OR IGNORE lets  *)
(* be what is there.                                                       *)
AddToInventory(w) ==
  /\ Running(w, "give")
  /\ LET j == job[w] IN
     IF j.row \notin ItemIds \/ tables.items[j.row].owner = Nobody
     THEN Read(w, At(j, "rollback"))
     ELSE IF <<j.user, j.row>> \in tables.inventory
     THEN Write(w, tables, At(j, "commit"), At(j, "rollback"))
     ELSE WriteNew(w, [tables EXCEPT !.inventory = @ \cup {<<j.user, j.row>>}],
                   OtherRow, At(j, "commit"), At(j, "rollback"))

-----------------------------------------------------------------------------
(* unbox_case after its COMMIT: a log row, the quests Lucky Gambler (call  *)
(* 1) and, with a profit, Profit Maker (call 2), the achievement First     *)
(* Knife (call 3), the active challenges, the broadcast.                   *)

UnboxLog(w) ==
  /\ Running(w, "log")
  /\ WriteNew(w, tables, OtherRow, At(job[w], "call"), At(job[w], "call"))

Profit(j) == Price(j.item.skin, j.item.wear) - Cost(j.case)

Applies(j, call) ==
  CASE call = 1 -> TRUE
    [] call = 2 -> Profit(j) \div 2 > 0
    [] call = 3 -> RarityOf[j.item.skin] = CONTRABAND

QuestOf(call) == IF call = 1 THEN "lucky_gambler" ELSE "profit_maker"
Increment(j) == IF j.call = 1 THEN 1 ELSE Profit(j) \div 2

NextCall(w) ==
  /\ Running(w, "call")
  /\ LET j    == job[w]
         more == {c \in 1 .. 3 : c > j.call /\ Applies(j, c)}
     IN  /\ more = {}
         /\ Read(w, At(j, "list"))

CallBegin(w) ==
  LET j    == job[w]
      more == {c \in 1 .. 3 : c > j.call /\ Applies(j, c)}
  IN  /\ more # {}
      /\ LET called == [j EXCEPT !.call = Min(more)] IN
         BeginAt(w, "call", At(called, "call_load"), called)

CallLoad(w) ==
  /\ Running(w, "call_load")
  /\ LET j == job[w] IN
     IF j.call = 3
     THEN Read(w, At(j, IF j.user \in tables.knife THEN "call_rollback"
                        ELSE "call_write"))
     ELSE LET has == tables.progress[j.user][QuestOf(j.call)] IN
          Read(w, IF has >= QuestTarget THEN At(j, "call_rollback")
                  ELSE [j EXCEPT !.pc = "call_write",
                                 !.progress = has + Increment(j)])

CallWrite(w) ==
  /\ Running(w, "call_write")
  /\ LET j == job[w] IN
     IF j.call = 3
     THEN WriteNew(w, [tables EXCEPT !.knife = @ \cup {j.user}], OtherRow,
                   At(j, "call_commit"), At(j, "call_rollback"))
     ELSE Write(w, [tables EXCEPT !.progress[j.user][QuestOf(j.call)] = j.progress],
                At(j, "call_commit"), At(j, "call_rollback"))

CallCommit(w) ==
  CommitAt(w, "call_commit", At(job[w], "call"), At(job[w], "call_rollback"))

CallRollback(w) ==
  /\ Running(w, "call_rollback")
  /\ Rollback
  /\ Become(w, At(job[w], "call"))
  /\ Smooth

(* A log row for Covert and Contraband.  The chat message that follows is  *)
(* from user 0, whom the foreign key does not admit; then comes the        *)
(* broadcast (module Server).                                              *)
BroadcastRareUnbox(w) ==
  /\ Running(w, "broadcast")
  /\ WriteNew(w, tables, OtherRow, Idle, Idle)

-----------------------------------------------------------------------------
(* update_challenge_progress, as unbox_case (for each active challenge of  *)
(* the player), complete_challenge and a request of its own call it.       *)

Return(j) == CASE j.kind = "unbox"    -> At(j, "next")
               [] j.kind = "complete" -> At(j, "reload")
               [] j.kind = "progress" -> Idle

ListChallenges(w) ==
  /\ Running(w, "list")
  /\ Read(w, [job[w] EXCEPT !.pc = "next",
                !.rest = {c \in ChallengeIds :
                            /\ tables.challenges[c].status = "active"
                            /\ job[w].user \in {tables.challenges[c].challenger,
                                                 tables.challenges[c].opponent}}])

NextChallenge(w) ==
  /\ Running(w, "next")
  /\ LET j == job[w] IN
     \/ /\ j.rest = {}
        /\ Read(w, IF RarityOf[j.item.skin] \in {COVERT, CONTRABAND}
                   THEN At(j, "broadcast") ELSE Idle)
     \/ \E c \in j.rest :
          Read(w, [j EXCEPT !.pc = "progress_load", !.id = c, !.rest = @ \ {c}])

UpdateChallengeProgress(w) ==
  /\ Request(w, "progress")
  /\ \E c \in ChallengeIds :
       /\ tables.challenges[c].status = "active"
       /\ Become(w, [Idle EXCEPT !.pc = "progress_load", !.kind = "progress",
                                 !.id = c])

LoadForProgress(w) ==
  /\ Running(w, "progress_load")
  /\ LET row == tables.challenges[job[w].id] IN
     Read(w, IF row.status # "active" THEN Return(job[w])
             ELSE [job[w] EXCEPT !.pc = "worth_a", !.challenge = row])

(* calculate_net_worth: the balance and the skins in the inventory.  The   *)
(* reads it makes are one step here.                                       *)
Value(items, inventory, u) ==
  MapThenSumSet(LAMBDA i : Price(items[i].skin, items[i].wear),
                {i \in ItemIds : <<u, i>> \in inventory})

NetWorth(rows, u) == rows.balance[u] + Value(rows.items, rows.inventory, u)

WorthOfChallenger(w) ==
  /\ Running(w, "worth_a")
  /\ Read(w, [job[w] EXCEPT !.pc = "worth_b",
                            !.worth = NetWorth(tables, job[w].challenge.challenger)])

WorthOfOpponent(w) ==
  /\ Running(w, "worth_b")
  /\ LET j == job[w]
         row == j.challenge
     IN  Read(w, [j EXCEPT !.pc = "progress_write",
                    !.challenge.challenger_profit = j.worth - row.challenger_start,
                    !.challenge.opponent_profit =
                        NetWorth(tables, row.opponent) - row.opponent_start])

SaveProgress(w) ==
  /\ Running(w, "progress_write")
  /\ LET j == job[w] IN
     WriteChallenge(w, j.id,
       [tables.challenges[j.id] EXCEPT
          !.challenger_profit = j.challenge.challenger_profit,
          !.opponent_profit = j.challenge.opponent_profit],
       Return(j), Return(j))

-----------------------------------------------------------------------------
(* create_profit_race_challenge and accept_challenge *)

CreateChallenge(w) ==
  /\ Request(w, "create")
  /\ \E u, v \in Users :
       /\ u # v
       /\ Become(w, [Idle EXCEPT !.pc = "create_a", !.kind = "create",
                       !.challenge = [NoChallenge EXCEPT !.challenger = u,
                                        !.opponent = v, !.status = "pending"]])

StartOfChallenger(w) ==
  /\ Running(w, "create_a")
  /\ LET row == job[w].challenge IN
     Read(w, [job[w] EXCEPT !.pc = "create_b",
                !.challenge.challenger_start = NetWorth(tables, row.challenger)])

StartOfOpponent(w) ==
  /\ Running(w, "create_b")
  /\ LET row == job[w].challenge IN
     Read(w, [job[w] EXCEPT !.pc = "create_save",
                !.challenge.opponent_start = NetWorth(tables, row.opponent)])

NextId == {c \in ChallengeIds :
             /\ tables.challenges[c].status = "none"
             /\ \A k \in ChallengeIds : k < c => tables.challenges[k].status # "none"}

(* The table is full once the bound MaxChallenges is reached. *)
SaveChallenge(w) ==
  /\ Running(w, "create_save")
  /\ IF NextId = {}
     THEN Read(w, Idle)
     ELSE \E c \in NextId :
            WriteNew(w, [tables EXCEPT !.challenges[c] =
                           [job[w].challenge EXCEPT !.started = now]],
                     c, Idle, Idle)

AcceptChallenge(w) ==
  /\ Request(w, "accept")
  /\ \E c \in ChallengeIds :
       /\ tables.challenges[c].status = "pending"
       /\ Become(w, [Idle EXCEPT !.pc = "accept_load", !.kind = "accept", !.id = c])

AcceptLoad(w) ==
  /\ Running(w, "accept_load")
  /\ Read(w, IF tables.challenges[job[w].id].status = "pending"
             THEN At(job[w], "accept_write") ELSE Idle)

(* The race begins when the opponent accepts. *)
AcceptWrite(w) ==
  /\ Running(w, "accept_write")
  /\ LET row == tables.challenges[job[w].id] IN
     WriteChallenge(w, job[w].id,
                    [row EXCEPT !.status = "active", !.started = now], Idle, Idle)

-----------------------------------------------------------------------------
(* complete_challenge.  The duration of the race is looked at nowhere.     *)

CompleteChallenge(w) ==
  /\ Request(w, "complete")
  /\ \E c \in ChallengeIds :
       /\ tables.challenges[c].status # "none"
       /\ Become(w, [Idle EXCEPT !.pc = "complete_load", !.kind = "complete",
                                 !.id = c])

Winner(row) ==
  CASE row.challenger_profit > row.opponent_profit -> row.challenger
    [] row.challenger_profit < row.opponent_profit -> row.opponent
    [] OTHER -> Nobody

(* Mutant of CompleteLoad: the status is not looked at. *)
CompleteLoadUnchecked(w) ==
  /\ Running(w, "complete_load")
  /\ Read(w, [job[w] EXCEPT !.pc = "progress_load",
                            !.winner = Winner(tables.challenges[job[w].id])])

CompleteLoad(w) ==
  /\ Running(w, "complete_load")
  /\ LET row == tables.challenges[job[w].id] IN
     Read(w, IF row.status = "active"
             THEN [job[w] EXCEPT !.pc = "progress_load", !.winner = Winner(row)]
             ELSE Idle)

(* The profits are updated in between; when the row cannot be read again,  *)
(* the winner is that of the first reading.                                *)
Reload(w) ==
  /\ Running(w, "reload")
  /\ LET row == tables.challenges[job[w].id] IN
     Read(w, [job[w] EXCEPT !.pc = "complete_begin",
                            !.winner = IF row.status = "none" THEN @
                                       ELSE Winner(row)])

CompleteBegin(w) ==
  BeginAt(w, "complete_begin",
          At(job[w], IF job[w].winner = Nobody THEN "complete_write"
                     ELSE "winner_load"), Idle)

LoadWinner(w) ==
  /\ Running(w, "winner_load")
  /\ Read(w, [job[w] EXCEPT !.pc = "winner_pay",
                            !.balance = tables.balance[job[w].winner]])

PayWinner(w) ==
  /\ Running(w, "winner_pay")
  /\ LET j == job[w] IN
     Pay(w, j.winner, j.balance + CHALLENGE_WINNER_REWARD_AMOUNT,
         At(j, "complete_write"), At(j, "rollback"))

(* Mutant of CompleteWrite: a failure is ignored. *)
CompleteWriteUnchecked(w) ==
  /\ Running(w, "complete_write")
  /\ WriteChallenge(w, job[w].id,
                    [tables.challenges[job[w].id] EXCEPT !.status = "completed"],
                    At(job[w], "commit"), At(job[w], "commit"))

CompleteWrite(w) ==
  /\ Running(w, "complete_write")
  /\ WriteChallenge(w, job[w].id,
                    [tables.challenges[job[w].id] EXCEPT !.status = "completed"],
                    At(job[w], "commit"), At(job[w], "rollback"))

-----------------------------------------------------------------------------
(* cancel_challenge: a vote, and what the votes then amount to.            *)

CancelChallenge(w) ==
  /\ Request(w, "cancel")
  /\ \E c \in ChallengeIds, u \in Users :
       /\ u \in {tables.challenges[c].challenger, tables.challenges[c].opponent}
       /\ Become(w, [Idle EXCEPT !.pc = "vote_load", !.kind = "cancel",
                                 !.id = c, !.user = u])

VoteLoad(w) ==
  /\ Running(w, "vote_load")
  /\ LET row == tables.challenges[job[w].id] IN
     Read(w, IF row.status \in Final \cup {"none"} \/ job[w].user \in row.votes
             THEN Idle ELSE At(job[w], "vote"))

Vote(w) ==
  /\ Running(w, "vote")
  /\ LET j == job[w] IN
     WriteChallenge(w, j.id,
                    [tables.challenges[j.id] EXCEPT !.votes = @ \cup {j.user}],
                    At(j, "votes"), Idle)

(* Mutant of Overdue: half a day is enough. *)
OverdueTooSoon(row) == Hours[now] - Hours[row.started] >= 12

Overdue(row) == Hours[now] - Hours[row.started] >= CHALLENGE_CANCEL_TIMEOUT_HOURS

(* Mutant of CountVotes: both votes count only once the race has begun. *)
CountVotesOfActive(w) ==
  /\ Running(w, "votes")
  /\ LET row == tables.challenges[job[w].id]
         j   == [job[w] EXCEPT !.challenge = row]
     IN  Read(w, IF row.status # "active" THEN Idle
                 ELSE IF row.votes = {row.challenger, row.opponent} THEN At(j, "cancel")
                 ELSE IF Overdue(row) THEN At(j, "penalty_begin") ELSE Idle)

(* The vote is weighed once, when it is given. *)
CountVotes(w) ==
  /\ Running(w, "votes")
  /\ LET row == tables.challenges[job[w].id]
         j   == [job[w] EXCEPT !.challenge = row]
     IN  Read(w, CASE row.votes = {row.challenger, row.opponent} -> At(j, "cancel")
                   [] row.votes # {row.challenger, row.opponent}
                      /\ row.status = "active" /\ Overdue(row) -> At(j, "penalty_begin")
                   [] OTHER -> Idle)

(* The result is ignored, and the status is not looked at again. *)
CancelByBoth(w) ==
  /\ Running(w, "cancel")
  /\ WriteChallenge(w, job[w].id,
                    [tables.challenges[job[w].id] EXCEPT !.status = "cancelled"],
                    Idle, Idle)

PenaltyBegin(w) == BeginAt(w, "penalty_begin", At(job[w], "penalty_load"), Idle)

PenaltyLoad(w) ==
  /\ Running(w, "penalty_load")
  /\ Read(w, [job[w] EXCEPT !.pc = "penalty_pay",
                !.balance = tables.balance[job[w].challenge.challenger]])

(* Mutant of PayPenalty: the balance is not checked. *)
PayPenaltyUnchecked(w) ==
  /\ Running(w, "penalty_pay")
  /\ LET j == job[w] IN
     Pay(w, j.challenge.challenger, j.balance - CHALLENGE_CANCEL_PENALTY_AMOUNT,
         At(j, "penalty_write"), At(j, "rollback"))

PayPenalty(w) ==
  /\ Running(w, "penalty_pay")
  /\ LET j == job[w] IN
     Pay(w, j.challenge.challenger,
         Max({0, j.balance - CHALLENGE_CANCEL_PENALTY_AMOUNT}),
         At(j, "penalty_write"), At(j, "rollback"))

CancelByOne(w) ==
  /\ Running(w, "penalty_write")
  /\ WriteChallenge(w, job[w].id,
                    [tables.challenges[job[w].id] EXCEPT !.status = "cancelled"],
                    At(job[w], "commit"), At(job[w], "rollback"))

-----------------------------------------------------------------------------
(* The end of the transactions, the clock, and the process killed. *)

CommitTransaction(w) ==
  CommitAt(w, "commit",
           IF job[w].kind = "unbox" THEN At(job[w], "log") ELSE Idle,
           At(job[w], "rollback"))

(* Mutant of RollbackTransaction: the error path returns without it. *)
ReturnWithoutRollback(w) ==
  /\ Running(w, "rollback")
  /\ Read(w, Idle)

RollbackTransaction(w) ==
  /\ Running(w, "rollback")
  /\ Rollback
  /\ Become(w, Idle)
  /\ Smooth

Tick ==
  /\ now + 1 \in Seconds
  /\ now' = now + 1
  /\ UNCHANGED <<connection, job, requests, mishaps>>

Crash ==
  /\ Mishap
  /\ Reopen
  /\ job' = [w \in Workers |-> Idle]
  /\ UNCHANGED <<now, requests>>

FirstRows ==
  [balance    |-> Purse,
   items      |-> [i \in ItemIds |-> NoItem],
   inventory  |-> {},
   progress   |-> [u \in Users |-> [q \in Quests |-> 0]],
   knife      |-> {},
   challenges |-> [c \in ChallengeIds |-> NoChallenge]]

Init ==
  /\ ConnectionInit(FirstRows)
  /\ job = [w \in Workers |-> Idle]
  /\ now = 1
  /\ requests = 0
  /\ mishaps = 0

Unbox(w) == \/ UnboxCase(w) \/ UnboxLoadUser(w) \/ UnboxBegin(w)
            \/ DeductBalance(w) \/ DrawSkin(w) \/ CreateSkinInstance(w)
            \/ TakeItemId(w) \/ AddToInventory(w)

AfterUnbox(w) == \/ UnboxLog(w) \/ NextCall(w) \/ CallBegin(w) \/ CallLoad(w)
                 \/ CallWrite(w) \/ CallCommit(w) \/ CallRollback(w)
                 \/ ListChallenges(w) \/ NextChallenge(w) \/ BroadcastRareUnbox(w)

Progress(w) == \/ UpdateChallengeProgress(w) \/ LoadForProgress(w)
               \/ WorthOfChallenger(w) \/ WorthOfOpponent(w) \/ SaveProgress(w)

Arrange(w) == \/ CreateChallenge(w) \/ StartOfChallenger(w) \/ StartOfOpponent(w)
              \/ SaveChallenge(w) \/ AcceptChallenge(w) \/ AcceptLoad(w)
              \/ AcceptWrite(w)

Complete(w) == \/ CompleteChallenge(w) \/ CompleteLoad(w) \/ Reload(w)
               \/ CompleteBegin(w) \/ LoadWinner(w) \/ PayWinner(w)
               \/ CompleteWrite(w)

Cancel(w) == \/ CancelChallenge(w) \/ VoteLoad(w) \/ Vote(w) \/ CountVotes(w)
             \/ CancelByBoth(w) \/ PenaltyBegin(w) \/ PenaltyLoad(w)
             \/ PayPenalty(w) \/ CancelByOne(w)

End(w) == CommitTransaction(w) \/ RollbackTransaction(w)

Next ==
  \/ \E w \in Workers : \/ Unbox(w) \/ AfterUnbox(w) \/ Progress(w) \/ Arrange(w)
                        \/ Complete(w) \/ Cancel(w) \/ End(w)
  \/ Tick
  \/ Crash

Spec == Init /\ [][Next]_vars

-----------------------------------------------------------------------------
(* Properties *)

(* Neither a case nor a penalty costs more than there is: no balance falls *)
(* below zero.                                                             *)
BalancesNeverNegative ==
  \A u \in Users : tables.balance[u] >= 0 /\ durable.balance[u] >= 0

(* An unboxing has up to four transactions, and completing or cancelling a *)
(* challenge one; every way out of each ends it: a transaction is open     *)
(* exactly while one worker is inside it.                                  *)
TransactionsExclusive ==
  /\ inTx <=> \E w \in Workers : job[w].pc \in InsideTx
  /\ \A v, w \in Workers :
       job[v].pc \in InsideTx /\ job[w].pc \in InsideTx => v = w

(* "Both voted - cancel challenge immediately": a vote is weighed once, by *)
(* the call that saves it, and nobody can vote again, so two votes that    *)
(* did not end a challenge never would.  Between two requests there is no  *)
(* such challenge, unless a statement failed (nobody looks at the result   *)
(* of the UPDATE of the status) or the process was killed in between.      *)
VotesDecide ==
  mishaps = 0 /\ (\A w \in Workers : job[w].pc = "idle") =>
    \A c \in ChallengeIds :
      LET row == durable.challenges[c] IN
      row.votes = {row.challenger, row.opponent} => row.status \in Final

(* What a step adds to a balance for good. *)
Change(u) == durable'.balance[u] - durable.balance[u]

Turns(c, status) == /\ durable.challenges[c].status # status
                    /\ durable'.challenges[c].status = status

(* What a step may do to the challenges that are over, ... *)
LeavesFinal ==
  \A c \in ChallengeIds :
    durable.challenges[c].status \in Final =>
      durable'.challenges[c].status = durable.challenges[c].status

(* ... when it pays a reward, ... *)
RewardsTheWinner ==
  /\ \A u \in Users : Change(u) > 0 =>
       \E c \in ChallengeIds :
         Turns(c, "completed") /\ Winner(durable'.challenges[c]) = u
  /\ \A c \in ChallengeIds : Turns(c, "completed") =>
       LET row == durable'.challenges[c]
           a   == NetWorth(durable, row.challenger) - row.challenger_start
           b   == NetWorth(durable, row.opponent) - row.opponent_start
       IN  /\ \A u \in Users :
                Change(u) = IF u = Winner(row)
                            THEN CHALLENGE_WINNER_REWARD_AMOUNT ELSE 0
           /\ mishaps' = 0 =>
                Winner(row) = CASE a > b -> row.challenger
                                [] a < b -> row.opponent
                                [] OTHER -> Nobody

(* ... when it cancels a challenge, ... *)
CancelsInTime ==
  \A c \in ChallengeIds : Turns(c, "cancelled") =>
    LET row == durable.challenges[c] IN
    IF row.votes = {row.challenger, row.opponent}
    THEN \A u \in Users : Change(u) = 0
    ELSE /\ row.status = "active"
         /\ row.votes # {}
         /\ Hours[now] - Hours[row.started] >= 24
         /\ Change(row.opponent) = 0
         /\ Change(row.challenger) = -Min({200, durable.balance[row.challenger]})

(* ... and when it makes skins or takes money. *)
SellsSkins ==
  LET new == {i \in ItemIds : /\ durable.items[i].owner = Nobody
                              /\ durable'.items[i].owner # Nobody}
  IN  /\ \A i \in new :
           LET item == durable'.items[i] IN
           /\ <<item.owner, i>> \in durable'.inventory
           /\ \E c \in Cases : /\ item.skin \in CaseSkins[c]
                               /\ Change(item.owner) = -Cost(c)
      /\ \A u \in Users : Change(u) < 0 =>
           \/ \E i \in new : durable'.items[i].owner = u
           \/ \E c \in ChallengeIds :
                /\ Turns(c, "cancelled")
                /\ durable.challenges[c].challenger = u

(* "Cannot cancel completed/cancelled challenge": a challenge that is over *)
(* is neither played, completed nor cancelled again.                       *)
FinalIsFinal == [][LeavesFinal]_vars

(* "Reward awarded and challenge completed" are one: no balance rises but  *)
(* by the reward of a race that is completed in the same step.  The winner *)
(* is who has gained most since it was arranged, by balance and skins.     *)
(* After a mishap it may be who had gained most when that was last saved:  *)
(* complete_challenge ignores the result of the update.                    *)
RewardWithCompletion == [][RewardsTheWinner]_vars

(* "requires vote from both players.  If only one player votes and         *)
(* challenge is active for >24 hours, challenger (runner) loses money":    *)
(* a challenge is cancelled by both for nothing, or by one, a day after    *)
(* the opponent has accepted, for what the challenger has of the penalty.  *)
PenaltyAfterADay == [][CancelsInTime]_vars

(* "All operations must succeed or all rollback": a skin comes to be when  *)
(* its owner pays for a case that holds it, and is then in the inventory;  *)
(* nothing but that and a penalty lowers a balance.                        *)
UnboxIsWhole == [][SellsSkins]_vars
=============================================================================
