------------------------------ MODULE Accounts ------------------------------
(***************************************************************************)
(* Accounts, sessions and rewards (auth.c, quests.c, achievements.c and    *)
(* login_rewards.c) as the worker threads execute them: one action per SQL *)
(* statement on the shared connection.  What decides and writes in these   *)
(* handlers is time(NULL), so there is a clock; it moves between any two   *)
(* statements.  Statements that write may fail and the process may be      *)
(* killed; both are counted as mishaps, and MaxMishaps bounds them.        *)
(***************************************************************************)
EXTENDS Connection, Sequences, FiniteSetsExt, Functions

CONSTANTS
  Workers,           \* the threads of the pool
  Names,             \* usernames
  NoName,            \* the name in a row of users that is not there
  MaxUsers,          \* bound on the rows of users
  MaxQuests,         \* bound on the rowids of quests
  QuestTypes,        \* the daily quests are the types 1 .. QuestTypes
  Target,            \* progress at which a quest of a type is completed
  QuestReward,       \* what it is worth
  Achievements,      \* achievement types
  AchievementReward, \* what one is worth
  DayReward,         \* the daily reward for each of the 7 days of a streak
  Hours,             \* the hour (since 1970) of each second that happens
  Kinds,             \* the requests clients make
  MaxRequests,       \* bound on the requests the workers take
  MaxMishaps,        \* bound on failed statements and kills
  Clobbered          \* TRUE iff localtime's buffer is seen to be overwritten

STARTING_BALANCE == 100

UserIds == 1 .. MaxUsers
QuestIds == 1 .. MaxQuests
ItemIds == 1 .. MaxUsers
Types == 1 .. QuestTypes
Seconds == DOMAIN Hours

(* The rowid of a row that is not there. *)
NoRow == 0

AllKinds == {"register", "login", "logout", "progress", "quest", "unlock",
             "achievement", "daily"}

ASSUME AccountsAssumption ==
  /\ Workers # {}
  /\ NoName \notin Names
  /\ MaxUsers \in Nat \ {0}
  /\ QuestTypes \in Nat \ {0}
  /\ MaxQuests \in Nat /\ MaxQuests >= QuestTypes
  /\ Target \in [Types -> Nat \ {0}]
  /\ QuestReward \in [Types -> Nat]
  /\ AchievementReward \in [Achievements -> Nat]
  /\ DayReward \in [1 .. 7 -> Nat]
  /\ Hours \in Seq(Nat) /\ Hours # <<>>
  /\ \A s, t \in Seconds : s <= t => Hours[s] <= Hours[t]
  /\ \A s \in Seconds : Hours[s] >= 48
  /\ Kinds \subseteq AllKinds
  /\ MaxRequests \in Nat
  /\ MaxMishaps \in Nat
  /\ Faults = (MaxMishaps > 0)
  /\ Clobbered \in BOOLEAN

VARIABLES
  job,       \* what each worker executes: the locals of the handler it is in
  now,       \* the clock: time(NULL)
  requests,  \* requests taken so far
  mishaps    \* failed statements and kills so far

vars == <<connection, job, now, requests, mishaps>>

-----------------------------------------------------------------------------
OutsideTx == {"idle", "reg_exists", "reg_save", "reg_id", "reg_item",
              "reg_item_id", "reg_give", "init_delete", "init_insert",
              "login_load", "login_session", "login_row", "streak_load",
              "streak_save", "reset_check", "logout", "begin",
              "claim_load", "claim_user", "claim_pay", "claim_verify",
              "claim_mark"}
InsideTx == {"load", "write", "commit", "rollback"}

(* No row. *)
NoUser == [name |-> NoName, balance |-> 0]
NoQuest == [user |-> NoRow, type |-> 1, progress |-> 0, claimed |-> FALSE,
            started |-> 1]
NewStreak == [current |-> 0, login |-> 0, reward |-> 0]

(* Locals: name and user_id, a rowid or token, the balance of the User     *)
(* struct, the quest or achievement type, the progress and the reward      *)
(* computed, the LoginStreak struct, the second a set of quests starts.    *)
Idle == [pc |-> "idle", kind |-> "login", name |-> NoName, user |-> NoRow,
         row |-> NoRow, balance |-> 0, type |-> 1, progress |-> 0, reward |-> 0,
         streak |-> NewStreak, second |-> 1]

Become(w, j) == job' = [job EXCEPT ![w] = j]
At(j, label) == [j EXCEPT !.pc = label]
Running(w, label) == job[w].pc = label /\ UNCHANGED <<now, requests>>
Smooth == UNCHANGED mishaps
Mishap == mishaps < MaxMishaps /\ mishaps' = mishaps + 1

(* A request that a worker takes from the queue. *)
Request(w, kind) ==
  /\ job[w].pc = "idle"
  /\ kind \in Kinds
  /\ requests < MaxRequests
  /\ requests' = requests + 1
  /\ UNCHANGED <<connection, now, mishaps>>

(* A step that only reads. *)
Read(w, j) == Become(w, j) /\ Smooth /\ UNCHANGED connection

(* A statement that fails: by chance, or because a constraint forbids it.  *)
Fail(w, failed) == Mishap /\ UNCHANGED connection /\ Become(w, failed)
Forbidden(w, failed) == Smooth /\ UNCHANGED connection /\ Become(w, failed)

(* UPDATE or DELETE of n rows; the handler goes on at next, or at failed.  *)
Write(w, rows, n, next, failed) ==
  \/ Update(rows, n) /\ Become(w, next) /\ Smooth
  \/ Fail(w, failed)

(* INSERT of a row with this rowid. *)
WriteNew(w, rows, rowid, next, failed) ==
  \/ Insert(rows, rowid) /\ Become(w, next) /\ Smooth
  \/ Fail(w, failed)

Exists(u) == u \in UserIds /\ tables.users[u].name # NoName

(* INSERT of a row of this user, whom the foreign key demands. *)
WriteFor(w, u, rows, rowid, next, failed) ==
  IF Exists(u) THEN WriteNew(w, rows, rowid, next, failed)
               ELSE Forbidden(w, failed)

(* db_update_user writes the balance of the struct, not a difference.      *)
UpdateUser(w, u, balance, next, failed) ==
  IF Exists(u)
  THEN Write(w, [tables EXCEPT !.users[u].balance = balance], 1, next, failed)
  ELSE Write(w, tables, 0, next, failed)

-----------------------------------------------------------------------------
(* register_user.  Names and passwords of a wrong length are refused       *)
(* before anything is read and are left out.                               *)

RegisterUser(w) ==
  /\ Request(w, "register")
  /\ \E n \in Names :
       Become(w, [Idle EXCEPT !.pc = "reg_exists", !.kind = "register", !.name = n])

Taken(name) == \E u \in UserIds : tables.users[u].name = name

UserExists(w) ==
  /\ Running(w, "reg_exists")
  /\ Read(w, IF Taken(job[w].name) THEN Idle ELSE At(job[w], "reg_save"))

(* AUTOINCREMENT: users are never deleted. *)
NextUser == {u \in UserIds : /\ ~Exists(u)
                             /\ \A v \in UserIds : v < u => Exists(v)}

(* db_save_user: the column username is UNIQUE.  The table is full once    *)
(* the bound MaxUsers is reached.                                          *)
SaveUser(w) ==
  /\ Running(w, "reg_save")
  /\ IF Taken(job[w].name) \/ NextUser = {}
     THEN Forbidden(w, Idle)
     ELSE \E u \in NextUser :
            WriteNew(w, [tables EXCEPT !.users[u] =
                           [name |-> job[w].name, balance |-> STARTING_BALANCE]],
                     u, At(job[w], "reg_id"), Idle)

(* last_insert_rowid, in a call of its own. *)
TakeUserId(w) ==
  /\ Running(w, "reg_id")
  /\ Read(w, [job[w] EXCEPT !.pc = "reg_item", !.user = lastRow])

(* The free skin: db_create_skin_instance, whose owner must be a user.     *)
NextItem == {i \in ItemIds : /\ tables.owner[i] = NoRow
                             /\ \A k \in ItemIds : k < i => tables.owner[k] # NoRow}

CreateStarterSkin(w) ==
  /\ Running(w, "reg_item")
  /\ LET j == job[w] IN
     IF ~Exists(j.user) \/ NextItem = {}
     THEN Forbidden(w, At(j, "init_delete"))
     ELSE \E i \in NextItem :
            WriteNew(w, [tables EXCEPT !.owner[i] = j.user], i,
                     At(j, "reg_item_id"), At(j, "init_delete"))

TakeItemId(w) ==
  /\ Running(w, "reg_item_id")
  /\ Read(w, [job[w] EXCEPT !.pc = "reg_give", !.row = lastRow])

(* db_add_to_inventory, whose result is ignored; the row is a new one. *)
GiveStarterSkin(w) ==
  /\ Running(w, "reg_give")
  /\ LET j == job[w] IN
     IF j.row \in ItemIds /\ tables.owner[j.row] # NoRow
     THEN WriteNew(w, [tables EXCEPT !.inventory = @ \cup {<<j.user, j.row>>}],
                   OtherRow, At(j, "init_delete"), At(j, "init_delete"))
     ELSE Forbidden(w, At(j, "init_delete"))

-----------------------------------------------------------------------------
(* init_daily_quests: from registration and, when they are due, at login.  *)

Unclaimed(u) ==
  {q \in QuestIds : tables.quests[q].user = u /\ ~tables.quests[q].claimed}

Without(quests, ids) ==
  [q \in QuestIds |-> IF q \in ids THEN NoQuest ELSE quests[q]]

(* The DELETE goes through a second connection, which has no busy timeout: *)
(* it fails, unnoticed, while the shared connection has a transaction      *)
(* open; otherwise it is durable at once, and the counters of the shared   *)
(* connection do not change.                                               *)
DeleteUnclaimed(w) ==
  /\ Running(w, "init_delete")
  /\ Become(w, [job[w] EXCEPT !.pc = "init_insert", !.type = 1, !.second = now])
  /\ IF inTx THEN UNCHANGED connection /\ Smooth
     ELSE \/ /\ Store([tables EXCEPT !.quests = Without(@, Unclaimed(job[w].user))])
             /\ UNCHANGED <<changes, lastRow>>
             /\ Smooth
          \/ Mishap /\ UNCHANGED connection

(* Mutant of NextType: the last type is left out. *)
NextTypeButLast(j) ==
  IF j.type + 1 >= QuestTypes THEN Idle ELSE [j EXCEPT !.type = @ + 1]

NextType(j) == IF j.type = QuestTypes THEN Idle ELSE [j EXCEPT !.type = @ + 1]

(* db_save_quest for each type in turn; results are ignored.  Ids are      *)
(* never used twice, and run out at the bound MaxQuests.                   *)
SaveQuest(w) ==
  /\ Running(w, "init_insert")
  /\ LET j == job[w]
         q == tables.lastQuest + 1
     IN  IF ~Exists(j.user) \/ q \notin QuestIds
         THEN Forbidden(w, NextType(j))
         ELSE WriteNew(w, [tables EXCEPT
                             !.lastQuest = q,
                             !.quests[q] = [user |-> j.user, type |-> j.type,
                                            progress |-> 0, claimed |-> FALSE,
                                            started |-> j.second]],
                       q, NextType(j), NextType(j))

-----------------------------------------------------------------------------
(* login_user, with the right password, and logout_user.                   *)

LoginUser(w) ==
  /\ Request(w, "login")
  /\ \E n \in Names :
       Become(w, [Idle EXCEPT !.pc = "login_load", !.kind = "login", !.name = n])

LoadUserByName(w) ==
  /\ Running(w, "login_load")
  /\ \/ /\ ~Taken(job[w].name)
        /\ Read(w, Idle)
     \/ \E u \in UserIds :
          /\ tables.users[u].name = job[w].name
          /\ Read(w, [job[w] EXCEPT !.pc = "login_session", !.user = u,
                                    !.balance = tables.users[u].balance])

(* Mutant of SaveSession: INSERT OR REPLACE. *)
ReplaceSession(w) ==
  /\ Running(w, "login_session")
  /\ WriteNew(w, [tables EXCEPT !.sessions[now] = job[w].user], OtherRow,
              At(job[w], "login_row"), Idle)

(* generate_session_token seeds rand with the second, so that the second   *)
(* is the token; it is the primary key of sessions.                        *)
SaveSession(w) ==
  /\ Running(w, "login_session")
  /\ IF tables.sessions[now] # NoRow
     THEN Forbidden(w, Idle)
     ELSE WriteFor(w, job[w].user, [tables EXCEPT !.sessions[now] = job[w].user],
                   OtherRow, At(job[w], "login_row"), Idle)

(* last_login is stored with the whole row as it was loaded. *)
StoreLastLogin(w) ==
  /\ Running(w, "login_row")
  /\ UpdateUser(w, job[w].user, job[w].balance,
                At(job[w], "streak_load"), At(job[w], "streak_load"))

(* The hour of midnight.  localtime returns a buffer that every thread     *)
(* shares and every line of the log overwrites: what mktime then makes of  *)
(* it may keep the time of day.                                            *)
Today == {(Hours[now] \div 24) * 24} \cup (IF Clobbered THEN {Hours[now]} ELSE {})

(* update_login_streak: get_login_streak, ... *)
LoadStreak(w) ==
  /\ Running(w, "streak_load")
  /\ Read(w, [job[w] EXCEPT !.pc = "streak_save",
                            !.streak = tables.streaks[job[w].user]])

(* ... and the date of the login, whose result is ignored. *)
SaveStreak(w) ==
  /\ Running(w, "streak_save")
  /\ \E today \in Today :
       LET j == job[w] IN
       WriteFor(w, j.user, [tables EXCEPT !.streaks[j.user] =
                              [j.streak EXCEPT !.login = today]],
                j.user, At(j, "reset_check"), At(j, "reset_check"))

(* Mutant of Due: a quest is due the day after. *)
DueByDate(u) ==
  \/ Unclaimed(u) = {}
  \/ \E q \in Unclaimed(u) :
       Hours[now] \div 24 > Hours[tables.quests[q].started] \div 24

(* should_reset_quests *)
Due(u) ==
  \/ Unclaimed(u) = {}
  \/ \E q \in Unclaimed(u) : Hours[now] - Hours[tables.quests[q].started] >= 24

ResetCheck(w) ==
  /\ Running(w, "reset_check")
  /\ Read(w, IF Due(job[w].user) THEN At(job[w], "init_delete") ELSE Idle)

LogoutUser(w) ==
  /\ Request(w, "logout")
  /\ \E t \in Seconds :
       /\ tables.sessions[t] # NoRow
       /\ Become(w, [Idle EXCEPT !.pc = "logout", !.kind = "logout", !.row = t])

DeleteSession(w) ==
  /\ Running(w, "logout")
  /\ LET t == job[w].row IN
     Write(w, [tables EXCEPT !.sessions[t] = NoRow],
           IF tables.sessions[t] = NoRow THEN 0 ELSE 1, Idle, Idle)

-----------------------------------------------------------------------------
(* update_quest_progress and unlock_achievement, as trading, market and    *)
(* unboxing call them for a user: a transaction each.                      *)

UpdateQuestProgress(w) ==
  /\ Request(w, "progress")
  /\ \E u \in UserIds, t \in Types :
       /\ Exists(u)
       /\ Become(w, [Idle EXCEPT !.pc = "begin", !.kind = "progress",
                                 !.user = u, !.type = t])

UnlockAchievement(w) ==
  /\ Request(w, "unlock")
  /\ \E u \in UserIds, a \in Achievements :
       /\ Exists(u)
       /\ Become(w, [Idle EXCEPT !.pc = "begin", !.kind = "unlock",
                                 !.user = u, !.type = a])

BeginTransaction(w) ==
  /\ Running(w, "begin")
  /\ \/ Begin /\ Become(w, At(job[w], "load")) /\ Smooth
     \/ BeginRefused /\ Become(w, Idle) /\ (IF inTx THEN Smooth ELSE Mishap)

Completed(row) == row.progress >= Target[row.type]

(* The quest that progresses: of this type and not completed. *)
InProgress(u, t) ==
  {q \in Unclaimed(u) : tables.quests[q].type = t /\ ~Completed(tables.quests[q])}

LoadInTransaction(w) ==
  /\ Running(w, "load")
  /\ LET j == job[w] IN
     IF j.kind = "unlock"
     THEN Read(w, At(j, IF tables.achievements[j.user][j.type] = "none"
                        THEN "write" ELSE "rollback"))
     ELSE IF InProgress(j.user, j.type) = {} THEN Read(w, At(j, "rollback"))
     ELSE \E q \in InProgress(j.user, j.type) :
            Read(w, [j EXCEPT !.pc = "write", !.row = q,
                              !.progress = tables.quests[q].progress + 1])

WriteInTransaction(w) ==
  /\ Running(w, "write")
  /\ LET j == job[w] IN
     IF j.kind = "unlock"
     THEN WriteFor(w, j.user,
                   [tables EXCEPT !.achievements[j.user][j.type] = "unlocked"],
                   OtherRow, At(j, "commit"), At(j, "rollback"))
     ELSE IF tables.quests[j.row].user = NoRow
     THEN Write(w, tables, 0, At(j, "commit"), At(j, "rollback"))
     ELSE Write(w, [tables EXCEPT !.quests[j.row].progress = j.progress,
                                  !.quests[j.row].claimed = FALSE], 1,
                At(j, "commit"), At(j, "rollback"))

CommitTransaction(w) ==
  /\ Running(w, "commit")
  /\ \/ Commit /\ Become(w, Idle) /\ Smooth
     \/ CommitRefused /\ Become(w, At(job[w], "rollback"))
          /\ (IF inTx THEN Mishap ELSE Smooth)

(* Mutant of RollbackTransaction: the error path returns without it. *)
ReturnWithoutRollback(w) ==
  /\ Running(w, "rollback")
  /\ Read(w, Idle)

RollbackTransaction(w) ==
  /\ Running(w, "rollback")
  /\ Rollback
  /\ Become(w, Idle)
  /\ Smooth

-----------------------------------------------------------------------------
(* claim_quest_reward, claim_achievement_reward and claim_daily_reward:    *)
(* read what is to be claimed, pay, mark.  No transaction.  A claim that   *)
(* its first read refuses changes nothing.                                 *)

ClaimQuestReward(w) ==
  /\ Request(w, "quest")
  /\ \E q \in QuestIds :
       /\ tables.quests[q].user # NoRow
       /\ Become(w, [Idle EXCEPT !.pc = "claim_load", !.kind = "quest",
                                 !.user = tables.quests[q].user, !.row = q])

ClaimAchievementReward(w) ==
  /\ Request(w, "achievement")
  /\ \E u \in UserIds, a \in Achievements :
       /\ tables.achievements[u][a] # "none"
       /\ Become(w, [Idle EXCEPT !.pc = "claim_load", !.kind = "achievement",
                                 !.user = u, !.type = a])

ClaimDailyReward(w) ==
  /\ Request(w, "daily")
  /\ \E u \in UserIds :
       /\ Exists(u)
       /\ Become(w, [Idle EXCEPT !.pc = "claim_load", !.kind = "daily", !.user = u])

(* Mutant of LoadQuest: the first row of the type, claimed ones included. *)
LoadClaimedQuest(w) ==
  LET j == job[w]
      row == tables.quests[j.row]
  IN  Read(w, IF row.user # j.user \/ ~Completed(row) THEN Idle
              ELSE [j EXCEPT !.pc = "claim_user", !.type = row.type,
                             !.progress = row.progress,
                             !.reward = QuestReward[row.type]])

LoadQuest(w) ==
  LET j == job[w]
      row == tables.quests[j.row]
  IN  Read(w, IF j.row \notin Unclaimed(j.user) \/ ~Completed(row) THEN Idle
              ELSE [j EXCEPT !.pc = "claim_user", !.type = row.type,
                             !.progress = row.progress,
                             !.reward = QuestReward[row.type]])

LoadAchievement(w) ==
  LET j == job[w] IN
  Read(w, IF tables.achievements[j.user][j.type] # "unlocked" THEN Idle
          ELSE [j EXCEPT !.pc = "claim_user", !.reward = AchievementReward[j.type]])

(* Whole days from one hour to another; C rounds towards zero. *)
Days(from, to) == IF from <= to THEN (to - from) \div 24
                                ELSE -((from - to) \div 24)

(* The day of the streak that a claim today makes.  The day after the 7th  *)
(* is the first again.                                                     *)
StreakDay(streak, today) ==
  LET days == Days(streak.login, today) IN
  CASE days = 1 -> (streak.current % 7) + 1
    [] days > 1 -> 1
    [] OTHER    -> IF streak.current = 0 THEN 1 ELSE streak.current

LoadDaily(w) ==
  LET j == job[w]
      streak == tables.streaks[j.user]
  IN  \E today \in Today :
        LET day == StreakDay(streak, today) IN
        Read(w, IF streak.reward = today THEN Idle
                ELSE [j EXCEPT !.pc = "claim_user", !.reward = DayReward[day],
                               !.streak = [current |-> day, login |-> today,
                                           reward |-> today]])

LoadClaim(w) ==
  /\ Running(w, "claim_load")
  /\ CASE job[w].kind = "quest"       -> LoadQuest(w)
       [] job[w].kind = "achievement" -> LoadAchievement(w)
       [] job[w].kind = "daily"       -> LoadDaily(w)

ClaimLoadUser(w) ==
  /\ Running(w, "claim_user")
  /\ LET j == job[w] IN
     Read(w, IF Exists(j.user)
             THEN [j EXCEPT !.pc = "claim_pay",
                            !.balance = tables.users[j.user].balance + j.reward]
             ELSE Idle)

PayReward(w) ==
  /\ Running(w, "claim_pay")
  /\ LET j == job[w] IN
     UpdateUser(w, j.user, j.balance,
                At(j, IF j.kind = "quest" THEN "claim_verify" ELSE "claim_mark"),
                Idle)

(* A quest reward is read back; when the balance is not what was written,  *)
(* the quest stays unmarked.                                               *)
VerifyBalance(w) ==
  /\ Running(w, "claim_verify")
  /\ LET j == job[w] IN
     Read(w, IF Exists(j.user) /\ tables.users[j.user].balance # j.balance
             THEN Idle ELSE At(j, "claim_mark"))

MarkQuest(w) ==
  LET j == job[w] IN
  IF tables.quests[j.row].user = NoRow
  THEN Write(w, tables, 0, Idle, Idle)
  ELSE Write(w, [tables EXCEPT !.quests[j.row].progress = j.progress,
                               !.quests[j.row].claimed = TRUE], 1, Idle, Idle)

MarkAchievement(w) ==
  LET j == job[w] IN
  IF tables.achievements[j.user][j.type] = "none"
  THEN Write(w, tables, 0, Idle, Idle)
  ELSE Write(w, [tables EXCEPT !.achievements[j.user][j.type] = "claimed"], 1,
             Idle, Idle)

MarkDaily(w) ==
  LET j == job[w] IN
  WriteFor(w, j.user, [tables EXCEPT !.streaks[j.user] = j.streak], j.user,
           Idle, Idle)

MarkClaimed(w) ==
  /\ Running(w, "claim_mark")
  /\ CASE job[w].kind = "quest"       -> MarkQuest(w)
       [] job[w].kind = "achievement" -> MarkAchievement(w)
       [] job[w].kind = "daily"       -> MarkDaily(w)

-----------------------------------------------------------------------------
(* The clock, and the process killed and restarted. *)

Tick ==
  /\ now + 1 \in Seconds
  /\ now' = now + 1
  /\ UNCHANGED <<connection, job, requests, mishaps>>

Crash ==
  /\ Mishap
  /\ Reopen
  /\ job' = [w \in Workers |-> Idle]
  /\ UNCHANGED <<now, requests>>

NoRows ==
  [users        |-> [u \in UserIds |-> NoUser],
   sessions     |-> [t \in Seconds |-> NoRow],
   owner        |-> [i \in ItemIds |-> NoRow],
   inventory    |-> {},
   quests       |-> [q \in QuestIds |-> NoQuest],
   lastQuest    |-> NoRow,
   achievements |-> [u \in UserIds |-> [a \in Achievements |-> "none"]],
   streaks      |-> [u \in UserIds |-> NewStreak]]

Init ==
  /\ ConnectionInit(NoRows)
  /\ job = [w \in Workers |-> Idle]
  /\ now = 1
  /\ requests = 0
  /\ mishaps = 0

Register(w) == \/ RegisterUser(w) \/ UserExists(w) \/ SaveUser(w) \/ TakeUserId(w)
               \/ CreateStarterSkin(w) \/ TakeItemId(w) \/ GiveStarterSkin(w)
               \/ DeleteUnclaimed(w) \/ SaveQuest(w)

Login(w) == \/ LoginUser(w) \/ LoadUserByName(w) \/ SaveSession(w)
            \/ StoreLastLogin(w) \/ LoadStreak(w) \/ SaveStreak(w)
            \/ ResetCheck(w) \/ LogoutUser(w) \/ DeleteSession(w)

Progress(w) == \/ UpdateQuestProgress(w) \/ UnlockAchievement(w)
               \/ BeginTransaction(w) \/ LoadInTransaction(w)
               \/ WriteInTransaction(w) \/ CommitTransaction(w)
               \/ RollbackTransaction(w)

Claim(w) == \/ ClaimQuestReward(w) \/ ClaimAchievementReward(w)
            \/ ClaimDailyReward(w) \/ LoadClaim(w) \/ ClaimLoadUser(w)
            \/ PayReward(w) \/ VerifyBalance(w) \/ MarkClaimed(w)

Next ==
  \/ \E w \in Workers : Register(w) \/ Login(w) \/ Progress(w) \/ Claim(w)
  \/ Tick
  \/ Crash

Spec == Init /\ [][Next]_vars

-----------------------------------------------------------------------------
(* Properties *)

(* Quest progress and achievements are updated in transactions of their    *)
(* own, and every way out of them ends the transaction: one is open        *)
(* exactly while one worker is inside it.                                  *)
TransactionsExclusive ==
  /\ inTx <=> \E w \in Workers : job[w].pc \in InsideTx
  /\ \A v, w \in Workers :
       job[v].pc \in InsideTx /\ job[w].pc \in InsideTx => v = w

(* What registration and the daily reset promise together: between         *)
(* requests every account has its free skin, and of each type of quest at  *)
(* most one that is open and one that has been given out - unless a        *)
(* statement failed, a kill came in between or the rowids ran out.         *)
AccountsEquipped ==
  /\ mishaps = 0
  /\ tables.lastQuest < MaxQuests
  /\ \A w \in Workers : job[w].pc = "idle"
  => \A u \in {v \in UserIds : Exists(v)} :
       /\ \E i \in ItemIds : tables.owner[i] = u /\ <<u, i>> \in tables.inventory
       /\ \A t \in Types :
            LET given == {q \in QuestIds : tables.quests[q].user = u
                                            /\ tables.quests[q].type = t}
            IN  given # {} /\ Cardinality(given \cap Unclaimed(u)) <= 1

(* A token is the second of a login; it never passes from one user to      *)
(* another, although two users may log in in the same second.              *)
TokensUnshared ==
  [][\A t \in Seconds : durable.sessions[t] # NoRow =>
       durable'.sessions[t] \in {durable.sessions[t], NoRow}]_vars

(* "Check if quests need to be reset (older than 24 hours)": what a player *)
(* has achieved in a quest is not thrown away before.                      *)
QuestsLastADay ==
  [][mishaps' = 0 =>
       \A q \in QuestIds :
         durable.quests[q].user # NoRow /\ durable'.quests[q].user = NoRow
         => Hours[now] - Hours[durable.quests[q].started] >= 24]_vars

-----------------------------------------------------------------------------
(* The rewards implement RewardBook. *)

RewardOf(j) ==
  CASE j.kind = "quest"       -> <<"quest", j.user, j.row, j.type>>
    [] j.kind = "achievement" -> <<"achievement", j.user, j.type>>
    [] j.kind = "daily"       -> <<"daily", j.user, j.streak.reward>>

WorthOf(reward) ==
  CASE reward[1] = "quest"       -> {QuestReward[reward[4]]}
    [] reward[1] = "achievement" -> {AchievementReward[reward[3]]}
    [] reward[1] = "daily"       -> Range(DayReward)

PaidNotMarked ==
  {RewardOf(job[w]) : w \in {v \in Workers : job[v].pc \in {"claim_verify", "claim_mark"}}}

Marked ==
  {<<"quest", tables.quests[q].user, q, tables.quests[q].type>> :
     q \in {r \in QuestIds : tables.quests[r].claimed}}
  \cup {<<"achievement", p[1], p[2]>> :
          p \in {x \in UserIds \X Achievements :
                   tables.achievements[x[1]][x[2]] = "claimed"}}
  \cup {<<"daily", u, tables.streaks[u].reward>> :
          u \in {v \in UserIds : tables.streaks[v].reward # 0}}

Account == INSTANCE RewardBook WITH
  Holders <- UserIds,
  Gift <- STARTING_BALANCE,
  Worth <- WorthOf,
  balance <- [u \in UserIds |-> tables.users[u].balance],
  opened <- {u \in UserIds : Exists(u)},
  pending <- PaidNotMarked,
  marked <- Marked,
  mishaps <- mishaps

(* One worker keeps the book: nothing but a reward raises a balance, a     *)
(* reward is what it should be, and it is paid once unless a statement     *)
(* fails or the process is killed between the payment and the mark.        *)
BookKept == Account!BookSpec

(* A quest is marked as claimed only when its reward is on the balance     *)
(* ("Verify balance was actually updated").                                *)
ClaimedIsPaid ==
  \A u \in UserIds :
    LET claimed == {q \in QuestIds : durable.quests[q].user = u
                                     /\ durable.quests[q].claimed}
    IN  claimed # {} =>
          durable.users[u].balance >=
            STARTING_BALANCE
            + MapThenSumSet(LAMBDA q : QuestReward[durable.quests[q].type], claimed)
=============================================================================
