--------------------------- MODULE AccountsProofs ---------------------------
(***************************************************************************)
(* Accounts, for every number of workers and users, with failing           *)
(* statements and kills.  First the transactions: every way out of         *)
(* update_quest_progress and unlock_achievement ends the one it has        *)
(* opened, and nobody ends another's.  Then what registration, login and   *)
(* the rewards promise while requests do not overlap: tokens, quests, the  *)
(* book of rewards that RewardBook specifies, and what every account owns  *)
(* between requests.                                                       *)
(***************************************************************************)
EXTENDS Accounts, FiniteSetTheorems, TLAPS

Fields(j) ==
  j = [pc |-> j.pc, kind |-> j.kind, name |-> j.name, user |-> j.user,
       row |-> j.row, balance |-> j.balance, type |-> j.type,
       progress |-> j.progress, reward |-> j.reward, streak |-> j.streak,
       second |-> j.second]

Labels == OutsideTx \cup InsideTx
ClaimLabels == {"claim_load", "claim_user", "claim_pay", "claim_verify",
                "claim_mark"}

(* A claim is of one of three kinds, whatever step it is at. *)
Sound(j) ==
  /\ Fields(j)
  /\ j.pc \in Labels
  /\ j.pc \in ClaimLabels => j.kind \in {"quest", "achievement", "daily"}

Inside(j) == j.pc \in InsideTx

Local == /\ job = [w \in Workers |-> job[w]]
         /\ \A w \in Workers : Sound(job[w])

Inv == Local /\ TransactionsExclusive

-----------------------------------------------------------------------------
(* Locals.                                                                 *)

LEMMA IdleSound == Sound(Idle) /\ ~Inside(Idle)
BY DEF Sound, Fields, Idle, Inside, Labels, ClaimLabels, OutsideTx, InsideTx

(* Where a handler may go next. *)
Leads(j, label) ==
  /\ label \in Labels
  /\ label \in ClaimLabels => j.kind \in {"quest", "achievement", "daily"}

LEMMA AtSound ==
  ASSUME NEW j, Fields(j), NEW label, Leads(j, label)
  PROVE  /\ Sound([j EXCEPT !.pc = label]) /\ [j EXCEPT !.pc = label].pc = label
         /\ Sound(At(j, label)) /\ At(j, label).pc = label
<1>1. Sound([j EXCEPT !.pc = label]) /\ [j EXCEPT !.pc = label].pc = label
  BY DEF Sound, Fields, Leads
<1> QED
  BY <1>1 DEF At

(* The locals on which control does not depend, one by one. *)
LEMMA AnyName ==
  ASSUME NEW j, Sound(j), NEW x
  PROVE  Sound([j EXCEPT !.name = x]) /\ [j EXCEPT !.name = x].pc = j.pc
BY DEF Sound, Fields

LEMMA AnyUser ==
  ASSUME NEW j, Sound(j), NEW x
  PROVE  Sound([j EXCEPT !.user = x]) /\ [j EXCEPT !.user = x].pc = j.pc
BY DEF Sound, Fields

LEMMA AnyRow ==
  ASSUME NEW j, Sound(j), NEW x
  PROVE  Sound([j EXCEPT !.row = x]) /\ [j EXCEPT !.row = x].pc = j.pc
BY DEF Sound, Fields

LEMMA AnyBalance ==
  ASSUME NEW j, Sound(j), NEW x
  PROVE  Sound([j EXCEPT !.balance = x]) /\ [j EXCEPT !.balance = x].pc = j.pc
BY DEF Sound, Fields

LEMMA AnyType ==
  ASSUME NEW j, Sound(j), NEW x
  PROVE  Sound([j EXCEPT !.type = x]) /\ [j EXCEPT !.type = x].pc = j.pc
BY DEF Sound, Fields

LEMMA AnyProgress ==
  ASSUME NEW j, Sound(j), NEW x
  PROVE  Sound([j EXCEPT !.progress = x]) /\ [j EXCEPT !.progress = x].pc = j.pc
BY DEF Sound, Fields

LEMMA AnyReward ==
  ASSUME NEW j, Sound(j), NEW x
  PROVE  Sound([j EXCEPT !.reward = x]) /\ [j EXCEPT !.reward = x].pc = j.pc
BY DEF Sound, Fields

LEMMA AnyStreak ==
  ASSUME NEW j, Sound(j), NEW x
  PROVE  Sound([j EXCEPT !.streak = x]) /\ [j EXCEPT !.streak = x].pc = j.pc
BY DEF Sound, Fields

LEMMA AnySecond ==
  ASSUME NEW j, Sound(j), NEW x
  PROVE  Sound([j EXCEPT !.second = x]) /\ [j EXCEPT !.second = x].pc = j.pc
BY DEF Sound, Fields

(* A handler starts from Idle, at a label that fits its kind. *)
LEMMA StartSound ==
  ASSUME NEW label \in Labels, NEW kind,
         label \in ClaimLabels => kind \in {"quest", "achievement", "daily"}
  PROVE  LET i == [[Idle EXCEPT !.pc = label] EXCEPT !.kind = kind] IN
         Sound(i) /\ i.pc = label
<1>1. Fields([Idle EXCEPT !.pc = label]) /\ [Idle EXCEPT !.pc = label].pc = label
  BY IdleSound DEF Sound, Fields
<1>2. ASSUME NEW j, Fields(j)
      PROVE  LET i == [j EXCEPT !.kind = kind] IN
             Fields(i) /\ i.pc = j.pc /\ i.kind = kind
  BY <1>2 DEF Fields
<1> QED
  BY <1>1, <1>2 DEF Sound

-----------------------------------------------------------------------------
(* The kinds of steps: one that neither begins nor ends a transaction, one *)
(* that begins it, one that ends it.                                       *)

Step(w, j) ==
  /\ Become(w, j)
  /\ Sound(j)
  /\ \/ UNCHANGED inTx /\ (Inside(job[w]) <=> Inside(j))
     \/ ~inTx /\ inTx' = TRUE /\ ~Inside(job[w]) /\ Inside(j)
     \/ inTx' = FALSE /\ Inside(job[w]) /\ ~Inside(j)

Legal(w) == \E j : Step(w, j)

LEMMA ReadLegal ==
  ASSUME NEW w, NEW j, Read(w, j), Sound(j), Inside(job[w]) <=> Inside(j)
  PROVE  Legal(w)
BY DEF Read, Legal, Step, connection

LEMMA WriteLegal ==
  ASSUME NEW w, NEW rows, NEW n, NEW rowid, NEW next, NEW failed,
         \/ Write(w, rows, n, next, failed)
         \/ WriteNew(w, rows, rowid, next, failed)
         \/ Forbidden(w, failed),
         Sound(next), Sound(failed),
         Inside(job[w]) <=> Inside(next), Inside(job[w]) <=> Inside(failed)
  PROVE  Legal(w)
<1>1. \E j \in {next, failed} : Become(w, j) /\ UNCHANGED inTx
  BY DEF Write, WriteNew, Fail, Forbidden, Update, Insert, Store, connection
<1> QED
  BY <1>1 DEF Legal, Step

LEMMA WriteForLegal ==
  ASSUME NEW w, NEW u, NEW rows, NEW rowid, NEW next, NEW failed,
         WriteFor(w, u, rows, rowid, next, failed),
         Sound(next), Sound(failed),
         Inside(job[w]) <=> Inside(next), Inside(job[w]) <=> Inside(failed)
  PROVE  Legal(w)
BY WriteLegal DEF WriteFor

LEMMA UpdateUserLegal ==
  ASSUME NEW w, NEW u, NEW balance, NEW next, NEW failed,
         UpdateUser(w, u, balance, next, failed),
         Sound(next), Sound(failed),
         Inside(job[w]) <=> Inside(next), Inside(job[w]) <=> Inside(failed)
  PROVE  Legal(w)
<1>1. \E rows, n : Write(w, rows, n, next, failed)
  BY DEF UpdateUser
<1> QED
  BY <1>1, WriteLegal

(* The worker that steps is the one inside, before or after, or nobody is. *)
LEMMA LegalKeepsInv ==
  ASSUME Inv, NEW w \in Workers, Legal(w)
  PROVE  Inv'
<1>1. PICK j : Step(w, j)
  BY DEF Legal
<1>2. /\ job' = [v \in Workers |-> IF v = w THEN j ELSE job[v]]
      /\ \A v \in Workers : job'[v] = IF v = w THEN j ELSE job[v]
  BY <1>1 DEF Step, Become, Inv, Local
<1>3. Local'
  BY <1>1, <1>2 DEF Step, Inv, Local
<1>4. TransactionsExclusive'
  BY <1>1, <1>2 DEF Step, Inv, TransactionsExclusive, Inside
<1> QED
  BY <1>3, <1>4 DEF Inv

-----------------------------------------------------------------------------
(* Every step of a handler is one of these.                                *)

LEMMA RegisterLegal ==
  ASSUME Inv, NEW w \in Workers, Register(w)
  PROVE  Legal(w)
<1> DEFINE j == job[w]
<1>h. Sound(j) /\ Fields(j)
  BY DEF Inv, Local, Sound
<1>i. Sound(Idle) /\ ~Inside(Idle)
  BY IdleSound
<1>a. \A label \in OutsideTx \ ClaimLabels :
         Sound(At(j, label)) /\ ~Inside(At(j, label))
  BY <1>h, AtSound DEF Leads, Labels, Inside, OutsideTx, InsideTx
<1>1. CASE RegisterUser(w)
  <2>1. PICK n \in Names :
          Become(w, [Idle EXCEPT !.pc = "reg_exists", !.kind = "register", !.name = n])
    BY <1>1 DEF RegisterUser
  <2> DEFINE k == [[Idle EXCEPT !.pc = "reg_exists"] EXCEPT !.kind = "register"]
  <2>2. [Idle EXCEPT !.pc = "reg_exists", !.kind = "register", !.name = n]
          = [k EXCEPT !.name = n]
    OBVIOUS
  <2>3. Sound(k) /\ k.pc = "reg_exists"
    BY StartSound DEF Labels, OutsideTx, ClaimLabels
  <2>4. Sound([k EXCEPT !.name = n]) /\ ~Inside([k EXCEPT !.name = n])
    BY <2>3, AnyName DEF Inside, InsideTx
  <2> QED
    BY <1>1, <2>1, <2>2, <2>4 DEF RegisterUser, Request, Legal, Step, connection,
       Inside, InsideTx
<1>2. CASE UserExists(w)
  BY <1>2, <1>i, <1>a, ReadLegal
  DEF UserExists, Running, Inside, OutsideTx, InsideTx, ClaimLabels
<1>3. CASE SaveUser(w)
  <2>1. ~Inside(j)
    BY <1>3 DEF SaveUser, Running, Inside, InsideTx
  <2>2. Sound(At(j, "reg_id")) /\ ~Inside(At(j, "reg_id"))
    BY <1>a DEF OutsideTx, ClaimLabels
  <2>3. \E rows, n, rowid :
          \/ WriteNew(w, rows, rowid, At(j, "reg_id"), Idle)
          \/ Forbidden(w, Idle)
    BY <1>3 DEF SaveUser
  <2> QED
    BY <1>i, <2>1, <2>2, <2>3, WriteLegal
<1>4. CASE TakeUserId(w)
  <2> DEFINE k == [j EXCEPT !.pc = "reg_item"]
  <2>1. [j EXCEPT !.pc = "reg_item", !.user = lastRow] = [k EXCEPT !.user = lastRow]
    OBVIOUS
  <2>2. Sound(k) /\ k.pc = "reg_item"
    BY <1>h, AtSound DEF Leads, Labels, OutsideTx, ClaimLabels
  <2>3. Sound([k EXCEPT !.user = lastRow]) /\ ~Inside([k EXCEPT !.user = lastRow])
    BY <2>2, AnyUser DEF Inside, InsideTx
  <2> QED
    BY <1>4, <2>1, <2>3, ReadLegal DEF TakeUserId, Running, Inside, InsideTx
<1>5. CASE CreateStarterSkin(w)
  <2>1. ~Inside(j)
    BY <1>5 DEF CreateStarterSkin, Running, Inside, InsideTx
  <2>2. /\ Sound(At(j, "reg_item_id")) /\ ~Inside(At(j, "reg_item_id"))
        /\ Sound(At(j, "init_delete")) /\ ~Inside(At(j, "init_delete"))
    BY <1>a DEF OutsideTx, ClaimLabels
  <2>3. \E rows, rowid :
          \/ WriteNew(w, rows, rowid, At(j, "reg_item_id"), At(j, "init_delete"))
          \/ Forbidden(w, At(j, "init_delete"))
    BY <1>5 DEF CreateStarterSkin
  <2> QED
    BY <2>1, <2>2, <2>3, WriteLegal
<1>6. CASE TakeItemId(w)
  <2> DEFINE k == [j EXCEPT !.pc = "reg_give"]
  <2>1. [j EXCEPT !.pc = "reg_give", !.row = lastRow] = [k EXCEPT !.row = lastRow]
    OBVIOUS
  <2>2. Sound(k) /\ k.pc = "reg_give"
    BY <1>h, AtSound DEF Leads, Labels, OutsideTx, ClaimLabels
  <2>3. Sound([k EXCEPT !.row = lastRow]) /\ ~Inside([k EXCEPT !.row = lastRow])
    BY <2>2, AnyRow DEF Inside, InsideTx
  <2> QED
    BY <1>6, <2>1, <2>3, ReadLegal DEF TakeItemId, Running, Inside, InsideTx
<1>7. CASE GiveStarterSkin(w)
  <2>1. ~Inside(j)
    BY <1>7 DEF GiveStarterSkin, Running, Inside, InsideTx
  <2>2. Sound(At(j, "init_delete")) /\ ~Inside(At(j, "init_delete"))
    BY <1>a DEF OutsideTx, ClaimLabels
  <2>3. \E rows, rowid :
          \/ WriteNew(w, rows, rowid, At(j, "init_delete"), At(j, "init_delete"))
          \/ Forbidden(w, At(j, "init_delete"))
    BY <1>7 DEF GiveStarterSkin
  <2> QED
    BY <2>1, <2>2, <2>3, WriteLegal
<1>8. CASE DeleteUnclaimed(w)
  <2> DEFINE k == [[j EXCEPT !.pc = "init_insert"] EXCEPT !.type = 1]
  <2>1. [j EXCEPT !.pc = "init_insert", !.type = 1, !.second = now]
          = [k EXCEPT !.second = now]
    OBVIOUS
  <2>2. LET i == [j EXCEPT !.pc = "init_insert"] IN
        Sound(i) /\ i.pc = "init_insert"
    BY <1>h, AtSound DEF Leads, Labels, OutsideTx, ClaimLabels
  <2>3. Sound(k) /\ k.pc = "init_insert"
    BY <2>2, AnyType
  <2>4. Sound([k EXCEPT !.second = now]) /\ ~Inside([k EXCEPT !.second = now])
    BY <2>3, AnySecond DEF Inside, InsideTx
  <2>5. UNCHANGED inTx
    BY <1>8 DEF DeleteUnclaimed, Store, connection
  <2>6. Become(w, [k EXCEPT !.second = now])
    BY <1>8, <2>1 DEF DeleteUnclaimed
  <2>7. ~Inside(j)
    BY <1>8 DEF DeleteUnclaimed, Running, Inside, InsideTx
  <2> QED
    BY <2>4, <2>5, <2>6, <2>7 DEF Legal, Step
<1>9. CASE SaveQuest(w)
  <2>1. j.pc = "init_insert" /\ ~Inside(j)
    BY <1>9 DEF SaveQuest, Running, Inside, InsideTx
  <2>2. Sound(NextType(j)) /\ ~Inside(NextType(j))
    BY <1>h, <1>i, <2>1, AnyType DEF NextType, Inside, InsideTx
  <2>3. \E rows, rowid :
          \/ WriteNew(w, rows, rowid, NextType(j), NextType(j))
          \/ Forbidden(w, NextType(j))
    BY <1>9 DEF SaveQuest
  <2> QED
    BY <2>1, <2>2, <2>3, WriteLegal
<1> QED
  BY <1>1, <1>2, <1>3, <1>4, <1>5, <1>6, <1>7, <1>8, <1>9 DEF Register

LEMMA LoginLegal ==
  ASSUME Inv, NEW w \in Workers, Login(w)
  PROVE  Legal(w)
<1> DEFINE j == job[w]
<1>h. Sound(j) /\ Fields(j)
  BY DEF Inv, Local, Sound
<1>i. Sound(Idle) /\ ~Inside(Idle)
  BY IdleSound
<1>a. \A label \in OutsideTx \ ClaimLabels :
         Sound(At(j, label)) /\ ~Inside(At(j, label))
  BY <1>h, AtSound DEF Leads, Labels, Inside, OutsideTx, InsideTx
<1>1. CASE LoginUser(w)
  <2>1. PICK n \in Names :
          Become(w, [Idle EXCEPT !.pc = "login_load", !.kind = "login", !.name = n])
    BY <1>1 DEF LoginUser
  <2> DEFINE k == [[Idle EXCEPT !.pc = "login_load"] EXCEPT !.kind = "login"]
  <2>2. [Idle EXCEPT !.pc = "login_load", !.kind = "login", !.name = n]
          = [k EXCEPT !.name = n]
    OBVIOUS
  <2>3. Sound(k) /\ k.pc = "login_load"
    BY StartSound DEF Labels, OutsideTx, ClaimLabels
  <2>4. Sound([k EXCEPT !.name = n]) /\ ~Inside([k EXCEPT !.name = n])
    BY <2>3, AnyName DEF Inside, InsideTx
  <2> QED
    BY <1>1, <2>1, <2>2, <2>4 DEF LoginUser, Request, Legal, Step, connection,
       Inside, InsideTx
<1>2. CASE LoadUserByName(w)
  <2>1. ~Inside(j)
    BY <1>2 DEF LoadUserByName, Running, Inside, InsideTx
  <2>2. CASE Read(w, Idle)
    BY <1>i, <2>1, <2>2, ReadLegal
  <2>3. ASSUME NEW u, NEW b,
               Read(w, [j EXCEPT !.pc = "login_session", !.user = u, !.balance = b])
        PROVE  Legal(w)
    <3> DEFINE k == [j EXCEPT !.pc = "login_session"]
    <3>1. [j EXCEPT !.pc = "login_session", !.user = u, !.balance = b]
            = [[k EXCEPT !.user = u] EXCEPT !.balance = b]
      OBVIOUS
    <3>2. Sound(k) /\ k.pc = "login_session"
      BY <1>h, AtSound DEF Leads, Labels, OutsideTx, ClaimLabels
    <3>3. LET i == [k EXCEPT !.user = u] IN Sound(i) /\ i.pc = "login_session"
      BY <3>2, AnyUser
    <3>4. LET i == [[k EXCEPT !.user = u] EXCEPT !.balance = b] IN
          Sound(i) /\ ~Inside(i)
      BY <3>3, AnyBalance DEF Inside, InsideTx
    <3> QED
      BY <2>1, <2>3, <3>1, <3>4, ReadLegal
  <2> QED
    BY <1>2, <2>2, <2>3 DEF LoadUserByName
<1>3. CASE SaveSession(w)
  <2>1. ~Inside(j)
    BY <1>3 DEF SaveSession, Running, Inside, InsideTx
  <2>2. Sound(At(j, "login_row")) /\ ~Inside(At(j, "login_row"))
    BY <1>a DEF OutsideTx, ClaimLabels
  <2>3. \E rows :
          \/ WriteFor(w, j.user, rows, OtherRow, At(j, "login_row"), Idle)
          \/ Forbidden(w, Idle)
    BY <1>3 DEF SaveSession
  <2> QED
    BY <1>i, <2>1, <2>2, <2>3, WriteLegal, WriteForLegal
<1>4. CASE StoreLastLogin(w)
  <2>1. ~Inside(j)
    BY <1>4 DEF StoreLastLogin, Running, Inside, InsideTx
  <2>2. Sound(At(j, "streak_load")) /\ ~Inside(At(j, "streak_load"))
    BY <1>a DEF OutsideTx, ClaimLabels
  <2> QED
    BY <1>4, <2>1, <2>2, UpdateUserLegal DEF StoreLastLogin
<1>5. CASE LoadStreak(w)
  <2> DEFINE k == [j EXCEPT !.pc = "streak_save"]
             s == tables.streaks[j.user]
  <2>1. [j EXCEPT !.pc = "streak_save", !.streak = s] = [k EXCEPT !.streak = s]
    OBVIOUS
  <2>2. Sound(k) /\ k.pc = "streak_save"
    BY <1>h, AtSound DEF Leads, Labels, OutsideTx, ClaimLabels
  <2>3. Sound([k EXCEPT !.streak = s]) /\ ~Inside([k EXCEPT !.streak = s])
    BY <2>2, AnyStreak DEF Inside, InsideTx
  <2> QED
    BY <1>5, <2>1, <2>3, ReadLegal DEF LoadStreak, Running, Inside, InsideTx
<1>6. CASE SaveStreak(w)
  <2>1. ~Inside(j)
    BY <1>6 DEF SaveStreak, Running, Inside, InsideTx
  <2>2. Sound(At(j, "reset_check")) /\ ~Inside(At(j, "reset_check"))
    BY <1>a DEF OutsideTx, ClaimLabels
  <2>3. \E rows : WriteFor(w, j.user, rows, j.user, At(j, "reset_check"),
                           At(j, "reset_check"))
    BY <1>6 DEF SaveStreak
  <2> QED
    BY <2>1, <2>2, <2>3, WriteForLegal
<1>7. CASE ResetCheck(w)
  <2>1. Sound(At(j, "init_delete")) /\ ~Inside(At(j, "init_delete"))
    BY <1>a DEF OutsideTx, ClaimLabels
  <2> QED
    BY <1>7, <1>i, <2>1, ReadLegal DEF ResetCheck, Running, Inside, InsideTx
<1>8. CASE LogoutUser(w)
  <2>1. PICK t \in Seconds :
          Become(w, [Idle EXCEPT !.pc = "logout", !.kind = "logout", !.row = t])
    BY <1>8 DEF LogoutUser
  <2> DEFINE k == [[Idle EXCEPT !.pc = "logout"] EXCEPT !.kind = "logout"]
  <2>2. [Idle EXCEPT !.pc = "logout", !.kind = "logout", !.row = t]
          = [k EXCEPT !.row = t]
    OBVIOUS
  <2>3. Sound(k) /\ k.pc = "logout"
    BY StartSound DEF Labels, OutsideTx, ClaimLabels
  <2>4. Sound([k EXCEPT !.row = t]) /\ ~Inside([k EXCEPT !.row = t])
    BY <2>3, AnyRow DEF Inside, InsideTx
  <2> QED
    BY <1>8, <2>1, <2>2, <2>4 DEF LogoutUser, Request, Legal, Step, connection,
       Inside, InsideTx
<1>9. CASE DeleteSession(w)
  <2>1. ~Inside(j)
    BY <1>9 DEF DeleteSession, Running, Inside, InsideTx
  <2>2. \E rows, n : Write(w, rows, n, Idle, Idle)
    BY <1>9 DEF DeleteSession
  <2> QED
    BY <1>i, <2>1, <2>2, WriteLegal
<1> QED
  BY <1>1, <1>2, <1>3, <1>4, <1>5, <1>6, <1>7, <1>8, <1>9 DEF Login

LEMMA ProgressLegal ==
  ASSUME Inv, NEW w \in Workers, Progress(w)
  PROVE  Legal(w)
<1> DEFINE j == job[w]
<1>h. Sound(j) /\ Fields(j)
  BY DEF Inv, Local, Sound
<1>i. Sound(Idle) /\ ~Inside(Idle)
  BY IdleSound
<1>b. ASSUME NEW label \in InsideTx
      PROVE  Sound(At(j, label)) /\ Inside(At(j, label))
  <2>1. Leads(j, label)
    BY DEF Leads, Labels, InsideTx, ClaimLabels
  <2> QED
    BY <1>h, <2>1, AtSound DEF Inside
<1>t. Inside(j) => inTx
  BY DEF Inv, TransactionsExclusive, Inside
<1>1. ASSUME NEW kind, NEW u, NEW t,
             Become(w, [Idle EXCEPT !.pc = "begin", !.kind = kind, !.user = u,
                                    !.type = t]),
             j.pc = "idle", UNCHANGED connection
      PROVE  Legal(w)
  <2> DEFINE k == [[Idle EXCEPT !.pc = "begin"] EXCEPT !.kind = kind]
  <2>1. [Idle EXCEPT !.pc = "begin", !.kind = kind, !.user = u, !.type = t]
          = [[k EXCEPT !.user = u] EXCEPT !.type = t]
    OBVIOUS
  <2>2. Sound(k) /\ k.pc = "begin"
    BY StartSound DEF Labels, OutsideTx, ClaimLabels
  <2>3. LET i == [k EXCEPT !.user = u] IN Sound(i) /\ i.pc = "begin"
    BY <2>2, AnyUser
  <2>4. LET i == [[k EXCEPT !.user = u] EXCEPT !.type = t] IN Sound(i) /\ ~Inside(i)
    BY <2>3, AnyType DEF Inside, InsideTx
  <2> QED
    BY <1>1, <2>1, <2>4 DEF Legal, Step, connection, Inside, InsideTx
<1>2. CASE UpdateQuestProgress(w)
  BY <1>1, <1>2 DEF UpdateQuestProgress, Request
<1>3. CASE UnlockAchievement(w)
  BY <1>1, <1>3 DEF UnlockAchievement, Request
<1>4. CASE BeginTransaction(w)
  <2>1. ~Inside(j)
    BY <1>4 DEF BeginTransaction, Running, Inside, InsideTx
  <2>2. Sound(At(j, "load")) /\ Inside(At(j, "load"))
    BY <1>b DEF InsideTx
  <2>3. CASE Begin /\ Become(w, At(j, "load"))
    BY <2>1, <2>2, <2>3 DEF Begin, Legal, Step
  <2>4. CASE BeginRefused /\ Become(w, Idle)
    BY <1>i, <2>1, <2>4 DEF BeginRefused, connection, Legal, Step
  <2> QED
    BY <1>4, <2>3, <2>4 DEF BeginTransaction
<1>5. CASE LoadInTransaction(w)
  <2>1. Inside(j)
    BY <1>5 DEF LoadInTransaction, Running, Inside, InsideTx
  <2>2. ASSUME NEW label \in {"write", "rollback"}, Read(w, At(j, label))
        PROVE  Legal(w)
    BY <1>b, <2>1, <2>2, ReadLegal DEF InsideTx
  <2>3. ASSUME NEW q, NEW n,
               Read(w, [j EXCEPT !.pc = "write", !.row = q, !.progress = n])
        PROVE  Legal(w)
    <3> DEFINE k == [j EXCEPT !.pc = "write"]
    <3>1. [j EXCEPT !.pc = "write", !.row = q, !.progress = n]
            = [[k EXCEPT !.row = q] EXCEPT !.progress = n]
      OBVIOUS
    <3>2. Sound(k) /\ k.pc = "write"
      BY <1>h, AtSound DEF Leads, Labels, InsideTx, ClaimLabels
    <3>3. LET i == [k EXCEPT !.row = q] IN Sound(i) /\ i.pc = "write"
      BY <3>2, AnyRow
    <3>4. LET i == [[k EXCEPT !.row = q] EXCEPT !.progress = n] IN
          Sound(i) /\ Inside(i)
      BY <3>3, AnyProgress DEF Inside, InsideTx
    <3> QED
      BY <2>1, <2>3, <3>1, <3>4, ReadLegal
  <2> QED
    BY <1>5, <2>2, <2>3 DEF LoadInTransaction
<1>6. CASE WriteInTransaction(w)
  <2>1. Inside(j)
    BY <1>6 DEF WriteInTransaction, Running, Inside, InsideTx
  <2>2. /\ Sound(At(j, "commit")) /\ Inside(At(j, "commit"))
        /\ Sound(At(j, "rollback")) /\ Inside(At(j, "rollback"))
    BY <1>b DEF InsideTx
  <2>3. \E rows, n :
          \/ WriteFor(w, j.user, rows, OtherRow, At(j, "commit"), At(j, "rollback"))
          \/ Write(w, rows, n, At(j, "commit"), At(j, "rollback"))
    BY <1>6 DEF WriteInTransaction
  <2> QED
    BY <2>1, <2>2, <2>3, WriteLegal, WriteForLegal
<1>7. CASE CommitTransaction(w)
  <2>1. Inside(j)
    BY <1>7 DEF CommitTransaction, Running, Inside, InsideTx
  <2>2. CASE Commit /\ Become(w, Idle)
    BY <1>i, <2>1, <2>2 DEF Commit, Legal, Step
  <2>3. CASE CommitRefused /\ Become(w, At(j, "rollback"))
    <3>1. Sound(At(j, "rollback")) /\ Inside(At(j, "rollback"))
      BY <1>b DEF InsideTx
    <3> QED
      BY <2>1, <2>3, <3>1 DEF CommitRefused, connection, Legal, Step
  <2> QED
    BY <1>7, <2>2, <2>3 DEF CommitTransaction
<1>8. CASE RollbackTransaction(w)
  BY <1>8, <1>i DEF RollbackTransaction, Running, Rollback, Inside, InsideTx,
     Legal, Step
<1> QED
  BY <1>2, <1>3, <1>4, <1>5, <1>6, <1>7, <1>8 DEF Progress

LEMMA ClaimLegal ==
  ASSUME Inv, NEW w \in Workers, Claim(w)
  PROVE  Legal(w)
<1> DEFINE j == job[w]
<1>h. Sound(j) /\ Fields(j)
  BY DEF Inv, Local, Sound
<1>i. Sound(Idle) /\ ~Inside(Idle)
  BY IdleSound
<1>a. j.pc \in ClaimLabels =>
        \A label \in ClaimLabels : /\ Sound(At(j, label)) /\ ~Inside(At(j, label))
                                   /\ Sound([j EXCEPT !.pc = label])
                                   /\ [j EXCEPT !.pc = label].pc = label
  <2> SUFFICES ASSUME j.pc \in ClaimLabels, NEW label \in ClaimLabels
               PROVE  /\ Sound(At(j, label)) /\ ~Inside(At(j, label))
                      /\ Sound([j EXCEPT !.pc = label])
                      /\ [j EXCEPT !.pc = label].pc = label
    OBVIOUS
  <2>1. Leads(j, label) /\ label \notin InsideTx
    BY <1>h DEF Sound, Leads, Labels, ClaimLabels, OutsideTx, InsideTx
  <2> QED
    BY <1>h, <2>1, AtSound DEF Inside
<1>o. j.pc \in ClaimLabels => ~Inside(j)
  BY DEF Inside, ClaimLabels, InsideTx
<1>s. \A kind \in {"quest", "achievement", "daily"} :
        LET k == [[Idle EXCEPT !.pc = "claim_load"] EXCEPT !.kind = kind] IN
        Sound(k) /\ k.pc = "claim_load"
  BY StartSound DEF Labels, OutsideTx, ClaimLabels
<1>r. ASSUME NEW kind, Request(w, kind), NEW k, Become(w, k), Sound(k), ~Inside(k)
      PROVE  Legal(w)
  BY <1>r DEF Request, Legal, Step, connection, Inside, InsideTx
<1>1. CASE ClaimQuestReward(w)
  <2>1. PICK q \in QuestIds :
          Become(w, [Idle EXCEPT !.pc = "claim_load", !.kind = "quest",
                                 !.user = tables.quests[q].user, !.row = q])
    BY <1>1 DEF ClaimQuestReward
  <2> DEFINE u == tables.quests[q].user
             k == [[Idle EXCEPT !.pc = "claim_load"] EXCEPT !.kind = "quest"]
             i == [[k EXCEPT !.user = u] EXCEPT !.row = q]
  <2>2. [Idle EXCEPT !.pc = "claim_load", !.kind = "quest", !.user = u, !.row = q] = i
    OBVIOUS
  <2>3. Sound(k) /\ k.pc = "claim_load"
    BY <1>s
  <2>4. Sound([k EXCEPT !.user = u]) /\ [k EXCEPT !.user = u].pc = "claim_load"
    BY <2>3, AnyUser
  <2>5. Sound(i) /\ ~Inside(i)
    BY <2>4, AnyRow DEF Inside, InsideTx
  <2> QED
    BY <1>1, <1>r, <2>1, <2>2, <2>5 DEF ClaimQuestReward
<1>2. CASE ClaimAchievementReward(w)
  <2>1. PICK u \in UserIds, a \in Achievements :
          Become(w, [Idle EXCEPT !.pc = "claim_load", !.kind = "achievement",
                                 !.user = u, !.type = a])
    BY <1>2 DEF ClaimAchievementReward
  <2> DEFINE k == [[Idle EXCEPT !.pc = "claim_load"] EXCEPT !.kind = "achievement"]
             i == [[k EXCEPT !.user = u] EXCEPT !.type = a]
  <2>2. [Idle EXCEPT !.pc = "claim_load", !.kind = "achievement",
                     !.user = u, !.type = a] = i
    OBVIOUS
  <2>3. Sound(k) /\ k.pc = "claim_load"
    BY <1>s
  <2>4. Sound([k EXCEPT !.user = u]) /\ [k EXCEPT !.user = u].pc = "claim_load"
    BY <2>3, AnyUser
  <2>5. Sound(i) /\ ~Inside(i)
    BY <2>4, AnyType DEF Inside, InsideTx
  <2> QED
    BY <1>2, <1>r, <2>1, <2>2, <2>5 DEF ClaimAchievementReward
<1>3. CASE ClaimDailyReward(w)
  <2>1. PICK u \in UserIds :
          Become(w, [Idle EXCEPT !.pc = "claim_load", !.kind = "daily", !.user = u])
    BY <1>3 DEF ClaimDailyReward
  <2> DEFINE k == [[Idle EXCEPT !.pc = "claim_load"] EXCEPT !.kind = "daily"]
  <2>2. [Idle EXCEPT !.pc = "claim_load", !.kind = "daily", !.user = u]
          = [k EXCEPT !.user = u]
    OBVIOUS
  <2>3. Sound(k) /\ k.pc = "claim_load"
    BY <1>s
  <2>4. Sound([k EXCEPT !.user = u]) /\ ~Inside([k EXCEPT !.user = u])
    BY <2>3, AnyUser DEF Inside, InsideTx
  <2> QED
    BY <1>3, <1>r, <2>1, <2>2, <2>4 DEF ClaimDailyReward
<1>4. CASE LoadClaim(w)
  <2>1. j.pc \in ClaimLabels /\ ~Inside(j)
        /\ j.kind \in {"quest", "achievement", "daily"}
    BY <1>4, <1>h, <1>o DEF LoadClaim, Running, ClaimLabels, Sound
  <2> DEFINE k == [j EXCEPT !.pc = "claim_user"]
  <2>2. Sound(k) /\ k.pc = "claim_user"
    BY <1>a, <2>1 DEF ClaimLabels
  <2>3. CASE LoadQuest(w)
    <3> DEFINE row == tables.quests[j.row]
               i == [[[k EXCEPT !.type = row.type] EXCEPT !.progress = row.progress]
                       EXCEPT !.reward = QuestReward[row.type]]
    <3>1. [j EXCEPT !.pc = "claim_user", !.type = row.type,
                    !.progress = row.progress, !.reward = QuestReward[row.type]] = i
      OBVIOUS
    <3>2. LET x == [k EXCEPT !.type = row.type] IN Sound(x) /\ x.pc = "claim_user"
      BY <2>2, AnyType
    <3>3. LET x == [[k EXCEPT !.type = row.type] EXCEPT !.progress = row.progress] IN
          Sound(x) /\ x.pc = "claim_user"
      BY <3>2, AnyProgress
    <3>4. Sound(i) /\ ~Inside(i)
      BY <3>3, AnyReward DEF Inside, InsideTx
    <3>5. Read(w, Idle) \/ Read(w, i)
      BY <2>3, <3>1 DEF LoadQuest
    <3> HIDE DEF i
    <3> QED
      BY <1>i, <2>1, <3>4, <3>5, ReadLegal
  <2>4. CASE LoadAchievement(w)
    <3> DEFINE a == AchievementReward[j.type]
    <3>1. [j EXCEPT !.pc = "claim_user", !.reward = a] = [k EXCEPT !.reward = a]
      OBVIOUS
    <3>2. Sound([k EXCEPT !.reward = a]) /\ ~Inside([k EXCEPT !.reward = a])
      BY <2>2, AnyReward DEF Inside, InsideTx
    <3>3. Read(w, Idle) \/ Read(w, [k EXCEPT !.reward = a])
      BY <2>4, <3>1 DEF LoadAchievement
    <3> QED
      BY <1>i, <2>1, <3>2, <3>3, ReadLegal
  <2>5. CASE LoadDaily(w)
    <3>1. PICK a, s :
            \/ Read(w, Idle)
            \/ Read(w, [j EXCEPT !.pc = "claim_user", !.reward = a, !.streak = s])
      BY <2>5 DEF LoadDaily
    <3> DEFINE i == [[k EXCEPT !.reward = a] EXCEPT !.streak = s]
    <3>2. [j EXCEPT !.pc = "claim_user", !.reward = a, !.streak = s] = i
      OBVIOUS
    <3>3. LET x == [k EXCEPT !.reward = a] IN Sound(x) /\ x.pc = "claim_user"
      BY <2>2, AnyReward
    <3>4. Sound(i) /\ ~Inside(i)
      BY <3>3, AnyStreak DEF Inside, InsideTx
    <3> QED
      BY <1>i, <2>1, <3>1, <3>2, <3>4, ReadLegal
  <2> QED
    BY <1>4, <2>1, <2>3, <2>4, <2>5 DEF LoadClaim
<1>5. CASE ClaimLoadUser(w)
  <2>1. j.pc \in ClaimLabels /\ ~Inside(j)
    BY <1>5, <1>o DEF ClaimLoadUser, Running, ClaimLabels
  <2> DEFINE k == [j EXCEPT !.pc = "claim_pay"]
             n == tables.users[j.user].balance + j.reward
  <2>2. Sound(k) /\ k.pc = "claim_pay"
    BY <1>a, <2>1 DEF ClaimLabels
  <2>3. [j EXCEPT !.pc = "claim_pay", !.balance = n] = [k EXCEPT !.balance = n]
    OBVIOUS
  <2>4. Sound([k EXCEPT !.balance = n]) /\ ~Inside([k EXCEPT !.balance = n])
    BY <2>2, AnyBalance DEF Inside, InsideTx
  <2>5. Read(w, Idle) \/ Read(w, [k EXCEPT !.balance = n])
    BY <1>5, <2>3 DEF ClaimLoadUser
  <2> QED
    BY <1>i, <2>1, <2>4, <2>5, ReadLegal
<1>6. CASE PayReward(w)
  <2>1. j.pc \in ClaimLabels /\ ~Inside(j)
    BY <1>6, <1>o DEF PayReward, Running, ClaimLabels
  <2> DEFINE next == At(j, IF j.kind = "quest" THEN "claim_verify" ELSE "claim_mark")
  <2>2. Sound(next) /\ ~Inside(next)
    BY <1>a, <2>1 DEF ClaimLabels
  <2>3. UpdateUser(w, j.user, j.balance, next, Idle)
    BY <1>6 DEF PayReward
  <2> HIDE DEF next
  <2> QED
    BY <1>i, <2>1, <2>2, <2>3, UpdateUserLegal
<1>7. CASE VerifyBalance(w)
  <2>1. j.pc \in ClaimLabels /\ ~Inside(j)
    BY <1>7, <1>o DEF VerifyBalance, Running, ClaimLabels
  <2>2. Sound(At(j, "claim_mark")) /\ ~Inside(At(j, "claim_mark"))
    BY <1>a, <2>1 DEF ClaimLabels
  <2> QED
    BY <1>7, <1>i, <2>1, <2>2, ReadLegal DEF VerifyBalance
<1>8. CASE MarkClaimed(w)
  <2>1. ~Inside(j) /\ j.kind \in {"quest", "achievement", "daily"}
    BY <1>8, <1>h, <1>o DEF MarkClaimed, Running, ClaimLabels, Sound
  <2>2. CASE MarkQuest(w) \/ MarkAchievement(w)
    <3>1. \E rows, n : Write(w, rows, n, Idle, Idle)
      BY <2>2 DEF MarkQuest, MarkAchievement
    <3> QED
      BY <1>i, <2>1, <3>1, WriteLegal
  <2>3. CASE MarkDaily(w)
    BY <1>i, <2>1, <2>3, WriteForLegal DEF MarkDaily
  <2> QED
    BY <1>8, <2>1, <2>2, <2>3 DEF MarkClaimed
<1> QED
  BY <1>1, <1>2, <1>3, <1>4, <1>5, <1>6, <1>7, <1>8 DEF Claim

-----------------------------------------------------------------------------
LEMMA InvInit == Init => Inv
BY IdleSound DEF Init, ConnectionInit, Inv, Local, TransactionsExclusive, Inside

LEMMA InvStep == Inv /\ [Next]_vars => Inv'
<1> SUFFICES ASSUME Inv, [Next]_vars PROVE Inv'
  OBVIOUS
<1>1. ASSUME NEW w \in Workers,
             Register(w) \/ Login(w) \/ Progress(w) \/ Claim(w)
      PROVE  Inv'
  BY <1>1, RegisterLegal, LoginLegal, ProgressLegal, ClaimLegal, LegalKeepsInv
<1>2. CASE Tick \/ UNCHANGED vars
  BY <1>2 DEF Tick, vars, connection, Inv, Local, TransactionsExclusive
<1>3. CASE Crash
  BY <1>3, IdleSound DEF Crash, Reopen, Inv, Local, TransactionsExclusive, Inside
<1> QED
  BY <1>1, <1>2, <1>3 DEF Next

(* update_quest_progress and unlock_achievement end what they have begun   *)
(* on every path (quests.c and achievements.c), nothing else in accounts   *)
(* and rewards begins or ends a transaction: whatever the interleaving,    *)
(* one is open exactly while one worker is inside it.                      *)
THEOREM AccountsTransactions == Spec => []TransactionsExclusive
<1>1. Inv => TransactionsExclusive
  BY DEF Inv
<1> QED
  BY <1>1, InvInit, InvStep, PTL DEF Spec
-----------------------------------------------------------------------------
(* Requests that do not overlap.  The rest of this module is about them:   *)
(* while a worker is in the middle of a request, the others are idle.      *)

Serial ==
  \A v, w \in Workers : job[v].pc # "idle" /\ job[w].pc # "idle" => v = w

(* A pool of one worker is serial. *)
LEMMA OneWorkerIsSerial ==
  ASSUME \A v, w \in Workers : v = w
  PROVE  []Serial
<1>1. Serial
  BY DEF Serial
<1> QED
  BY <1>1, PTL

User == [name : Names \cup {NoName}, balance : Nat]
Quest == [user : UserIds \cup {NoRow}, type : Types, progress : Nat,
          claimed : BOOLEAN, started : Seconds]
Streak == [current : 0 .. 7, login : Nat, reward : Nat]
Marks == {"none", "unlocked", "claimed"}

Tables ==
  [users        : [UserIds -> User],
   sessions     : [Seconds -> UserIds \cup {NoRow}],
   owner        : [ItemIds -> UserIds \cup {NoRow}],
   inventory    : SUBSET (UserIds \X ItemIds),
   quests       : [QuestIds -> Quest],
   lastQuest    : Nat,
   achievements : [UserIds -> [Achievements -> Marks]],
   streaks      : [UserIds -> Streak]]

(* Exists and Unclaimed, for the tables t. *)
Known(t, u) == u \in UserIds /\ t.users[u].name # NoName
OpenQuests(t, u) ==
  {q \in QuestIds : t.quests[q].user = u /\ ~t.quests[q].claimed}

Midnight(d) == (Hours[d] \div 24) * 24

(* What holds of the tables t at the second d, after m mishaps.            *)
QuestsOwned(t) ==
  \A q \in QuestIds :
    /\ t.quests[q].user # NoRow => Known(t, t.quests[q].user)
    /\ q > t.lastQuest => t.quests[q].user = NoRow
    /\ t.quests[q].user = NoRow => ~t.quests[q].claimed

(* The daily reset gives the quests of a day out together. *)
OneBatch(t, m) ==
  m = 0 => \A u \in UserIds : \A p, q \in OpenQuests(t, u) :
             t.quests[p].started = t.quests[q].started

Past(date, d) == ~Clobbered => date <= Midnight(d)
StreaksPast(t, d) == \A u \in UserIds : Past(t.streaks[u].reward, d)

Tidy(t, d, m) ==
  t \in Tables /\ QuestsOwned(t) /\ OneBatch(t, m) /\ StreaksPast(t, d)

(* A new user, who has no quests yet, and one whose quests are a day old.  *)
New(t, u) == Known(t, u) /\ \A q \in QuestIds : t.quests[q].user # u
SameDay(t, u, second, m) ==
  m = 0 => \A q \in OpenQuests(t, u) : t.quests[q].started = second
DayOld(t, u, d) ==
  \A q \in OpenQuests(t, u) : Hours[d] - Hours[t.quests[q].started] >= 24

(* What a claim has found, and has not marked. *)
FoundQuest(j, t) ==
  /\ j.row \in OpenQuests(t, j.user)
  /\ j.type = t.quests[j.row].type
  /\ j.reward = QuestReward[j.type]
  /\ j.progress \in Nat
FoundAchievement(j, t) ==
  /\ j.type \in Achievements
  /\ t.achievements[j.user][j.type] = "unlocked"
  /\ j.reward = AchievementReward[j.type]
FoundDay(j, t, d) ==
  /\ j.reward \in Range(DayReward)
  /\ j.streak \in Streak
  /\ ~Clobbered => /\ t.streaks[j.user].reward < j.streak.reward
                   /\ j.streak.reward <= Midnight(d)
Found(j, t, d) ==
  /\ j.kind = "quest" => FoundQuest(j, t)
  /\ j.kind = "achievement" => FoundAchievement(j, t)
  /\ j.kind = "daily" => FoundDay(j, t, d)

OfUser == {"login_session", "login_row", "streak_load", "streak_save",
           "reset_check", "init_delete", "init_insert", "begin", "load",
           "write", "claim_pay", "claim_verify", "claim_mark"}

(* What the locals j of a handler know about the tables t, at the second   *)
(* d, with l as the latest rowid and after m mishaps.                      *)
Stage(j, t, d, l, m) ==
  /\ j.pc \in {"reg_exists", "reg_save", "login_load"} => j.name \in Names
  /\ j.pc = "logout" => j.row \in Seconds
  /\ j.pc = "reg_id" => New(t, l)
  /\ j.pc \in {"reg_item", "reg_item_id", "reg_give"} => New(t, j.user)
  /\ j.pc \in OfUser => Known(t, j.user)
  /\ j.pc \in ClaimLabels => j.user \in UserIds
  /\ j.pc \in {"login_session", "login_row"} =>
       j.balance = t.users[j.user].balance
  /\ j.pc = "streak_save" => j.streak = t.streaks[j.user]
  /\ j.pc = "init_delete" => (m = 0 => DayOld(t, j.user, d))
  /\ j.pc = "init_insert" =>
       /\ j.type \in Types /\ j.second \in Seconds
       /\ SameDay(t, j.user, j.second, m)
  /\ j.pc \in {"begin", "load", "write"} =>
       \/ j.kind = "progress" /\ j.type \in Types
       \/ j.kind = "unlock" /\ j.type \in Achievements
  /\ j.pc = "write" =>
       /\ j.kind = "progress" => j.row \in OpenQuests(t, j.user) /\ j.progress \in Nat
       /\ j.kind = "unlock" => t.achievements[j.user][j.type] = "none"
  /\ j.pc = "claim_load" =>
       /\ j.kind = "quest" => j.row \in QuestIds
       /\ j.kind = "achievement" => j.type \in Achievements
  /\ j.pc \in {"claim_user", "claim_pay", "claim_verify", "claim_mark"} =>
       Found(j, t, d)
  /\ j.pc = "claim_pay" => j.balance = t.users[j.user].balance + j.reward
  /\ j.pc = "claim_verify" =>
       j.kind = "quest" /\ j.balance = t.users[j.user].balance

(* What a transaction, open for quest progress or an achievement, has not  *)
(* changed: all that the book and the daily reset look at.                 *)
Alike(t, r) ==
  /\ r.users = t.users /\ r.sessions = t.sessions
  /\ r.lastQuest = t.lastQuest /\ r.streaks = t.streaks
  /\ \A q \in QuestIds :
       /\ r.quests[q].user = t.quests[q].user
       /\ r.quests[q].type = t.quests[q].type
       /\ r.quests[q].claimed <=> t.quests[q].claimed
       /\ r.quests[q].started = t.quests[q].started
  /\ \A u \in UserIds, a \in Achievements :
       r.achievements[u][a] = "claimed" <=> t.achievements[u][a] = "claimed"

(* The inductive invariant, beside Inv. *)
SerialInv ==
  /\ now \in Seconds
  /\ mishaps \in Nat
  /\ lastRow \in Nat
  /\ Tidy(tables, now, mishaps)
  /\ durable \in Tables /\ Alike(tables, durable)
  /\ ~inTx => durable = tables
  /\ \A v \in Workers : Stage(job[v], tables, now, lastRow, mishaps)

-----------------------------------------------------------------------------
(* Steps keep the sessions, the quests of the day and the book.            *)

TokensKept(t, r) ==
  \A s \in Seconds : t.sessions[s] # NoRow => r.sessions[s] \in {t.sessions[s], NoRow}

QuestsKept(t, r, d, m) ==
  m = 0 => \A q \in QuestIds :
    t.quests[q].user # NoRow /\ r.quests[q].user = NoRow
    => Hours[d] - Hours[t.quests[q].started] >= 24

BookStep == ~Clobbered => [Account!Book]_(Account!book)

Kept ==
  /\ SerialInv'
  /\ TokensKept(durable, durable')
  /\ QuestsKept(durable, durable', now, mishaps')
  /\ BookStep

(* The marks in the tables t, and the reward that the handler with the     *)
(* locals j has paid and not marked.                                       *)
MarkedQuests(t) ==
  {<<"quest", t.quests[q].user, q, t.quests[q].type>> :
     q \in {r \in QuestIds : t.quests[r].claimed}}
MarkedAchievements(t) ==
  {<<"achievement", p[1], p[2]>> :
     p \in {x \in UserIds \X Achievements : t.achievements[x[1]][x[2]] = "claimed"}}
MarkedDays(t) ==
  {<<"daily", u, t.streaks[u].reward>> :
     u \in {v \in UserIds : t.streaks[v].reward # 0}}
MarkedIn(t) == MarkedQuests(t) \cup MarkedAchievements(t) \cup MarkedDays(t)

Pending(j) == IF j.pc \in {"claim_verify", "claim_mark"} THEN {RewardOf(j)} ELSE {}

LEMMA MarkedTables == Marked = MarkedIn(tables) /\ Marked' = MarkedIn(tables')
BY DEF Marked, MarkedIn, MarkedQuests, MarkedAchievements, MarkedDays

LEMMA AlikeMarks ==
  ASSUME NEW t, NEW r, Alike(t, r)
  PROVE  MarkedIn(r) = MarkedIn(t)
<1>1. MarkedQuests(r) = MarkedQuests(t)
  BY DEF Alike, MarkedQuests
<1>2. MarkedAchievements(r) = MarkedAchievements(t)
  <2>1. ASSUME NEW x \in UserIds \X Achievements
        PROVE  r.achievements[x[1]][x[2]] = "claimed"
               <=> t.achievements[x[1]][x[2]] = "claimed"
    BY DEF Alike
  <2> QED
    BY <2>1 DEF MarkedAchievements
<1>3. MarkedDays(r) = MarkedDays(t)
  BY DEF Alike, MarkedDays
<1> QED
  BY <1>1, <1>2, <1>3 DEF MarkedIn

LEMMA AlikeTwice ==
  ASSUME NEW t, NEW r, Alike(t, r)
  PROVE  /\ Alike(r, t) /\ Alike(t, t) /\ Alike(r, r)
         /\ \A s : Alike(r, s) => Alike(t, s)
BY DEF Alike

LEMMA AlikeTidy ==
  ASSUME NEW t, NEW r \in Tables, Alike(t, r), NEW d, NEW m, Tidy(t, d, m)
  PROVE  /\ Tidy(r, d, m)
         /\ \A u : Known(r, u) <=> Known(t, u)
         /\ \A u \in UserIds : OpenQuests(r, u) = OpenQuests(t, u)
<1>1. /\ \A u : Known(r, u) <=> Known(t, u)
      /\ \A u : OpenQuests(r, u) = OpenQuests(t, u)
  BY DEF Known, OpenQuests, Alike
<1>2. QuestsOwned(r)
  BY <1>1 DEF Tidy, QuestsOwned, Alike
<1>3. OneBatch(r, m)
  BY <1>1 DEF Tidy, OneBatch, Alike, OpenQuests
<1>4. StreaksPast(r, d)
  BY DEF Tidy, StreaksPast, Alike
<1> QED
  BY <1>1, <1>2, <1>3, <1>4 DEF Tidy

-----------------------------------------------------------------------------
(* One handler at a time.                                                  *)

LEMMA IdleStage ==
  ASSUME NEW j, j.pc = "idle", NEW t, NEW d, NEW l, NEW m
  PROVE  Stage(j, t, d, l, m) /\ Pending(j) = {}
BY DEF Stage, OfUser, ClaimLabels, Pending

LEMMA IdleLocals == Idle.pc = "idle"
BY DEF Idle

(* The worker w is in the middle of a request, or takes one. *)
Alone(w) == \A v \in Workers \ {w} : job[v].pc = "idle"

LEMMA SerialAlone ==
  ASSUME Serial, NEW w \in Workers, job[w].pc # "idle"
  PROVE  Alone(w)
BY DEF Serial, Alone

(* Outside its transaction a handler has none. *)
LEMMA AloneOutside ==
  ASSUME Inv, NEW w \in Workers, Alone(w), job[w].pc \notin InsideTx
  PROVE  ~inTx
<1>1. \A v \in Workers : job[v].pc \notin InsideTx
  BY DEF Alone, InsideTx
<1> QED
  BY <1>1 DEF Inv, TransactionsExclusive

LEMMA Becomes ==
  ASSUME Inv, NEW w \in Workers, NEW i, Become(w, i)
  PROVE  \A v \in Workers : job'[v] = IF v = w THEN i ELSE job[v]
BY DEF Inv, Local, Become

LEMMA AlonePending ==
  ASSUME Inv, NEW w \in Workers, Alone(w)
  PROVE  /\ PaidNotMarked = Pending(job[w])
         /\ \A i : Become(w, i) => PaidNotMarked' = Pending(i)
<1>1. PaidNotMarked = Pending(job[w])
  BY DEF Alone, PaidNotMarked, Pending
<1>2. ASSUME NEW i, Become(w, i)
      PROVE  PaidNotMarked' = Pending(i)
  <2>1. \A v \in Workers : job'[v] = IF v = w THEN i ELSE job[v]
    BY <1>2, Becomes
  <2>2. {v \in Workers : job'[v].pc \in {"claim_verify", "claim_mark"}}
          = IF i.pc \in {"claim_verify", "claim_mark"} THEN {w} ELSE {}
    BY <2>1 DEF Alone
  <2>3. PaidNotMarked' = {RewardOf(job'[v]) :
           v \in {u \in Workers : job'[u].pc \in {"claim_verify", "claim_mark"}}}
    BY DEF PaidNotMarked, RewardOf
  <2> QED
    BY <2>1, <2>2, <2>3 DEF Pending
<1> QED
  BY <1>1, <1>2

LEMMA AloneStage ==
  ASSUME Inv, NEW w \in Workers, Alone(w), NEW i, Become(w, i),
         NEW t, NEW d, NEW l, NEW m, Stage(i, t, d, l, m)
  PROVE  \A v \in Workers : Stage(job'[v], t, d, l, m)
<1>1. \A v \in Workers : job'[v] = IF v = w THEN i ELSE job[v]
  BY Becomes
<1>2. \A v \in Workers \ {w} : Stage(job[v], t, d, l, m)
  BY IdleStage DEF Alone
<1> QED
  BY <1>1, <1>2

(* The book where a step changes neither balances nor marks. *)
SameBalances(t, r) ==
  \A u \in UserIds : /\ r.users[u].balance = t.users[u].balance
                     /\ Known(r, u) <=> Known(t, u)

LEMMA QuietBook ==
  ASSUME SameBalances(tables, tables'), MarkedIn(tables') = MarkedIn(tables),
         \/ UNCHANGED <<PaidNotMarked, mishaps>>
         \/ mishaps' = mishaps + 1 /\ PaidNotMarked' \in {PaidNotMarked, {}}
  PROVE  BookStep
<1>1. UNCHANGED [u \in UserIds |-> tables.users[u].balance]
  BY DEF SameBalances
<1>2. UNCHANGED {u \in UserIds : Exists(u)}
  BY DEF SameBalances, Known, Exists
<1>3. UNCHANGED Marked
  BY MarkedTables
<1>4. CASE UNCHANGED <<PaidNotMarked, mishaps>>
  BY <1>1, <1>2, <1>3, <1>4 DEF BookStep, Account!book
<1>5. CASE mishaps' = mishaps + 1 /\ PaidNotMarked' \in {PaidNotMarked, {}}
  <2>1. Account!Mishap
    BY <1>1, <1>2, <1>3, <1>5 DEF Account!Mishap
  <2> QED
    BY <2>1 DEF BookStep, Account!Book
<1> QED
  BY <1>4, <1>5

LEMMA Unmoved ==
  ASSUME NEW t, NEW d, NEW m
  PROVE  TokensKept(t, t) /\ QuestsKept(t, t, d, m) /\ SameBalances(t, t)
BY DEF TokensKept, QuestsKept, SameBalances

(* A step that leaves the connection alone: a read, a statement that fails *)
(* or is refused.                                                          *)
LEMMA StageMishap ==
  ASSUME NEW m \in Nat, NEW t, NEW d
  PROVE  /\ \A j, l : Stage(j, t, d, l, m) => Stage(j, t, d, l, m + 1)
         /\ Tidy(t, d, m) => Tidy(t, d, m + 1)
<1>1. m + 1 # 0
  OBVIOUS
<1>2. \A j, l : Stage(j, t, d, l, m) => Stage(j, t, d, l, m + 1)
  BY <1>1 DEF Stage, SameDay
<1>3. Tidy(t, d, m) => Tidy(t, d, m + 1)
  BY <1>1 DEF Tidy, OneBatch
<1> QED
  BY <1>2, <1>3

LEMMA ReadKept ==
  ASSUME Inv, SerialInv, NEW w \in Workers, Alone(w), NEW i,
         UNCHANGED connection, UNCHANGED now, UNCHANGED mishaps, Become(w, i),
         Stage(i, tables, now, lastRow, mishaps), Pending(i) = Pending(job[w])
  PROVE  Kept
<1>1. UNCHANGED <<tables, durable, inTx, lastRow>>
  BY DEF connection
<1>2. SerialInv'
  BY <1>1, AloneStage DEF SerialInv
<1>3. UNCHANGED PaidNotMarked
  BY AlonePending
<1>4. BookStep
  BY <1>1, <1>3, QuietBook, Unmoved
<1> QED
  BY <1>1, <1>2, <1>4, Unmoved DEF Kept

LEMMA FailKept ==
  ASSUME Inv, SerialInv, NEW w \in Workers, Alone(w), NEW i,
         UNCHANGED connection, UNCHANGED now, mishaps' = mishaps + 1, Become(w, i),
         Stage(i, tables, now, lastRow, mishaps + 1),
         Pending(i) \in {Pending(job[w]), {}}
  PROVE  Kept
<1>1. UNCHANGED <<tables, durable, inTx, lastRow>>
  BY DEF connection
<1>2. mishaps \in Nat
  BY DEF SerialInv
<1>3. SerialInv'
  <2>1. Tidy(tables, now, mishaps + 1)
    BY <1>2, StageMishap DEF SerialInv
  <2>2. \A v \in Workers : Stage(job'[v], tables, now, lastRow, mishaps + 1)
    BY AloneStage
  <2> QED
    BY <1>1, <1>2, <2>1, <2>2 DEF SerialInv
<1>4. PaidNotMarked' \in {PaidNotMarked, {}}
  BY AlonePending
<1>5. BookStep
  BY <1>1, <1>4, QuietBook, Unmoved
<1> QED
  BY <1>1, <1>3, <1>5, Unmoved DEF Kept

(* A statement that stores the rows r. *)
LEMMA StoreKept ==
  ASSUME Inv, SerialInv, NEW w \in Workers, Alone(w), NEW i, NEW r,
         Store(r), lastRow' \in Nat, UNCHANGED now, UNCHANGED mishaps, Become(w, i),
         Tidy(r, now, mishaps), inTx => Alike(r, durable),
         Stage(i, r, now, lastRow', mishaps),
         TokensKept(tables, r), QuestsKept(tables, r, now, mishaps), BookStep
  PROVE  Kept
<1>1. tables' = r /\ durable' = (IF inTx THEN durable ELSE r) /\ UNCHANGED inTx
  BY DEF Store
<1>2. SerialInv'
  <2>1. \A v \in Workers : Stage(job'[v], r, now, lastRow', mishaps)
    BY AloneStage
  <2>2. durable' \in Tables /\ Alike(r, durable')
    BY <1>1 DEF SerialInv, Tidy, Alike
  <2> QED
    BY <1>1, <2>1, <2>2 DEF SerialInv
<1>3. TokensKept(durable, durable') /\ QuestsKept(durable, durable', now, mishaps')
  <2>1. CASE inTx
    BY <1>1, <2>1, Unmoved
  <2>2. CASE ~inTx
    BY <1>1, <2>2 DEF SerialInv
  <2> QED
    BY <2>1, <2>2
<1> QED
  BY <1>2, <1>3 DEF Kept

(* A worker that has the server to itself. *)
Turn(w) == Inv /\ SerialInv /\ w \in Workers /\ Alone(w)

LEMMA TurnTaken ==
  ASSUME Inv, SerialInv, Serial, Serial', NEW w \in Workers, NEW i, Become(w, i),
         job[w].pc # "idle" \/ i.pc # "idle"
  PROVE  Turn(w)
<1>1. \A v \in Workers : job'[v] = IF v = w THEN i ELSE job[v]
  BY Becomes
<1> QED
  BY <1>1 DEF Turn, Alone, Serial

LEMMA TurnFacts ==
  ASSUME NEW w, Turn(w)
  PROVE  /\ Sound(job[w]) /\ Fields(job[w])
         /\ Stage(job[w], tables, now, lastRow, mishaps)
         /\ Tidy(tables, now, mishaps) /\ tables \in Tables
         /\ now \in Seconds /\ mishaps \in Nat /\ lastRow \in Nat
         /\ job[w].pc \notin InsideTx => ~inTx
BY AloneOutside DEF Turn, Inv, Local, Sound, SerialInv, Tidy

LEMMA StartKept ==
  ASSUME NEW w, Turn(w), NEW kind, Request(w, kind), NEW i, Become(w, i),
         Stage(i, tables, now, lastRow, mishaps), Pending(i) = {}
  PROVE  Kept
<1>1. /\ job[w].pc = "idle" /\ UNCHANGED connection /\ UNCHANGED mishaps
      /\ UNCHANGED now
  BY DEF Request
<1>2. Pending(job[w]) = {}
  BY <1>1 DEF Pending
<1> QED
  BY <1>1, <1>2, ReadKept DEF Turn

LEMMA StepKept ==
  ASSUME NEW w, Turn(w), UNCHANGED now, NEW i,
         Stage(i, tables, now, lastRow, mishaps), Pending(i) = Pending(job[w]),
         Read(w, i) \/ Forbidden(w, i)
  PROVE  Kept
BY ReadKept DEF Turn, Read, Forbidden, Smooth

LEMMA WriteKept ==
  ASSUME NEW w, Turn(w), UNCHANGED now, NEW r, NEW n, NEW l \in Nat,
         NEW next, NEW failed,
         \/ Write(w, r, n, next, failed) /\ l = lastRow
         \/ WriteNew(w, r, l, next, failed),
         Tidy(r, now, mishaps), inTx => Alike(r, durable),
         Stage(next, r, now, l, mishaps),
         TokensKept(tables, r), QuestsKept(tables, r, now, mishaps),
         tables' = r /\ UNCHANGED mishaps /\ Become(w, next) => BookStep,
         Stage(failed, tables, now, lastRow, mishaps + 1),
         Pending(failed) \in {Pending(job[w]), {}}
  PROVE  Kept
<1>1. CASE Store(r) /\ lastRow' = l /\ Become(w, next) /\ Smooth
  <2>1. tables' = r
    BY <1>1 DEF Store
  <2> QED
    BY <1>1, <2>1, StoreKept DEF Turn, Smooth
<1>2. CASE Fail(w, failed)
  BY <1>2, FailKept DEF Fail, Turn, Mishap
<1> QED
  BY <1>1, <1>2 DEF Write, WriteNew, Update, Insert

LEMMA QuietWrite ==
  ASSUME NEW w, Turn(w), NEW r, NEW next,
         SameBalances(tables, r), MarkedIn(r) = MarkedIn(tables),
         Pending(next) = Pending(job[w])
  PROVE  tables' = r /\ UNCHANGED mishaps /\ Become(w, next) => BookStep
<1> SUFFICES ASSUME tables' = r, UNCHANGED mishaps, Become(w, next)
             PROVE  BookStep
  OBVIOUS
<1>1. UNCHANGED PaidNotMarked
  BY AlonePending DEF Turn
<1> QED
  BY <1>1, QuietBook

(* Locals under a new label. *)
LEMMA AtLocals ==
  ASSUME NEW j, Fields(j), NEW label
  PROVE  /\ At(j, label).pc = label
         /\ At(j, label).kind = j.kind
         /\ At(j, label).name = j.name
         /\ At(j, label).user = j.user
         /\ At(j, label).row = j.row
         /\ At(j, label).balance = j.balance
         /\ At(j, label).type = j.type
         /\ At(j, label).progress = j.progress
         /\ At(j, label).reward = j.reward
         /\ At(j, label).streak = j.streak
         /\ At(j, label).second = j.second
BY DEF At, Fields

Quiet == Labels \ {"claim_verify", "claim_mark"}

LEMMA NothingPending ==
  ASSUME NEW j, j.pc \in Quiet
  PROVE  Pending(j) = {}
BY DEF Pending, Quiet

(* Sessions and items are not in the book. *)
SameRows(t, r) ==
  /\ r.users = t.users /\ r.quests = t.quests
  /\ r.lastQuest = t.lastQuest /\ r.achievements = t.achievements
  /\ r.streaks = t.streaks

LEMMA SameRowsKeep ==
  ASSUME NEW t, NEW r \in Tables, SameRows(t, r), NEW d, NEW m, Tidy(t, d, m)
  PROVE  /\ Tidy(r, d, m) /\ SameBalances(t, r) /\ MarkedIn(r) = MarkedIn(t)
         /\ QuestsKept(t, r, d, m)
         /\ \A j, l : Stage(j, t, d, l, m) => Stage(j, r, d, l, m)
<1>k. /\ \A u : Known(r, u) <=> Known(t, u)
      /\ \A u : OpenQuests(r, u) = OpenQuests(t, u)
      /\ \A u : New(r, u) <=> New(t, u)
      /\ \A u : DayOld(r, u, d) <=> DayOld(t, u, d)
      /\ \A u, s : SameDay(r, u, s, m) <=> SameDay(t, u, s, m)
  BY DEF SameRows, Known, OpenQuests, New, DayOld, SameDay
<1>1. Tidy(r, d, m)
  <2>1. QuestsOwned(r)
    BY <1>k DEF SameRows, Tidy, QuestsOwned
  <2>2. OneBatch(r, m)
    BY <1>k DEF SameRows, Tidy, OneBatch
  <2>3. StreaksPast(r, d)
    BY DEF SameRows, Tidy, StreaksPast
  <2> QED
    BY <2>1, <2>2, <2>3 DEF Tidy
<1>2. SameBalances(t, r)
  BY <1>k DEF SameRows, SameBalances
<1>3. MarkedIn(r) = MarkedIn(t)
  BY DEF SameRows, MarkedIn, MarkedQuests, MarkedAchievements, MarkedDays
<1>4. QuestsKept(t, r, d, m)
  BY DEF SameRows, QuestsKept
<1>5. ASSUME NEW j, NEW l, Stage(j, t, d, l, m)
      PROVE  Stage(j, r, d, l, m)
  <2>1. Found(j, t, d) => Found(j, r, d)
    BY <1>k DEF SameRows, Found, FoundQuest, FoundAchievement, FoundDay
  <2> QED
    BY <1>k, <1>5, <2>1 DEF Stage, SameRows
<1> QED
  BY <1>1, <1>2, <1>3, <1>4, <1>5

LEMMA QuietStore ==
  ASSUME NEW w, Turn(w), job[w].pc \notin InsideTx, UNCHANGED now,
         NEW r \in Tables, SameRows(tables, r), TokensKept(tables, r),
         NEW next, NEW failed, NEW l \in Nat, NEW n,
         \/ Write(w, r, n, next, failed) /\ l = lastRow
         \/ WriteNew(w, r, l, next, failed),
         Stage(next, tables, now, l, mishaps), Pending(next) = Pending(job[w]),
         Stage(failed, tables, now, lastRow, mishaps), Pending(failed) = Pending(job[w])
  PROVE  Kept
<1>1. /\ Tidy(tables, now, mishaps) /\ mishaps \in Nat /\ ~inTx
  BY TurnFacts
<1>2. /\ Tidy(r, now, mishaps) /\ SameBalances(tables, r)
      /\ MarkedIn(r) = MarkedIn(tables)
      /\ QuestsKept(tables, r, now, mishaps)
      /\ Stage(next, r, now, l, mishaps)
  BY <1>1, SameRowsKeep
<1>3. Stage(failed, tables, now, lastRow, mishaps + 1)
  BY <1>1, StageMishap
<1>4. tables' = r /\ UNCHANGED mishaps /\ Become(w, next) => BookStep
  BY <1>2, QuietWrite
<1> QED
  BY <1>1, <1>2, <1>3, <1>4, WriteKept

-----------------------------------------------------------------------------
(* Registration and the daily reset.                                       *)

LEMMA RegisterUserKept ==
  ASSUME NEW w, Turn(w), RegisterUser(w)
  PROVE  Kept
<1>1. PICK n \in Names :
        Become(w, [Idle EXCEPT !.pc = "reg_exists", !.kind = "register", !.name = n])
  BY DEF RegisterUser
<1> DEFINE i == [Idle EXCEPT !.pc = "reg_exists", !.kind = "register", !.name = n]
<1>2. i.pc = "reg_exists" /\ i.name \in Names
  BY DEF Idle
<1> HIDE DEF i
<1>3. Stage(i, tables, now, lastRow, mishaps) /\ Pending(i) = {}
  BY <1>2 DEF Stage, OfUser, ClaimLabels, Pending
<1> QED
  BY <1>1, <1>3, StartKept DEF RegisterUser, i

LEMMA UserExistsKept ==
  ASSUME NEW w, Turn(w), UserExists(w)
  PROVE  Kept
<1> DEFINE j == job[w]
           i == At(j, "reg_save")
<1>1. Fields(j) /\ Stage(j, tables, now, lastRow, mishaps)
  BY TurnFacts
<1>2. j.pc = "reg_exists" /\ UNCHANGED now
  BY DEF UserExists, Running
<1>3. i.pc = "reg_save" /\ i.name = j.name
  BY <1>1, AtLocals
<1>4. Stage(i, tables, now, lastRow, mishaps)
  BY <1>1, <1>2, <1>3 DEF Stage, OfUser, ClaimLabels
<1>5. Pending(i) = {} /\ Pending(j) = {}
  BY <1>2, <1>3 DEF Pending
<1>6. Read(w, Idle) \/ Read(w, i)
  BY DEF UserExists
<1> QED
  BY <1>2, <1>4, <1>5, <1>6, IdleStage, IdleLocals, StepKept

LEMMA UserRow ==
  ASSUME NEW t \in Tables, NEW u \in UserIds, NEW x \in User
  PROVE  LET r == [t EXCEPT !.users[u] = x] IN
         /\ r \in Tables
         /\ r.users = [t.users EXCEPT ![u] = x]
         /\ r.sessions = t.sessions /\ r.quests = t.quests
         /\ r.lastQuest = t.lastQuest /\ r.achievements = t.achievements
         /\ r.streaks = t.streaks
BY DEF Tables

LEMMA NewUserRow ==
  ASSUME NEW t \in Tables, NEW u \in UserIds, NEW x \in User, x.name # NoName,
         ~Known(t, u), NEW d, NEW m, Tidy(t, d, m)
  PROVE  LET r == [t EXCEPT !.users[u] = x] IN
         /\ Tidy(r, d, m) /\ New(r, u) /\ MarkedIn(r) = MarkedIn(t)
         /\ TokensKept(t, r) /\ QuestsKept(t, r, d, m)
         /\ \A v : Known(r, v) <=> v = u \/ Known(t, v)
<1> DEFINE r == [t EXCEPT !.users[u] = x]
<1>1. /\ r \in Tables /\ r.users = [t.users EXCEPT ![u] = x]
      /\ r.sessions = t.sessions /\ r.quests = t.quests
      /\ r.lastQuest = t.lastQuest /\ r.achievements = t.achievements
      /\ r.streaks = t.streaks
  BY UserRow
<1> HIDE DEF r
<1>2. \A v : Known(r, v) <=> v = u \/ Known(t, v)
  BY <1>1 DEF Known, Tables
<1>3. New(r, u)
  BY <1>1, <1>2 DEF New, Tidy, QuestsOwned, UserIds, NoRow
<1>4. MarkedIn(r) = MarkedIn(t)
  BY <1>1 DEF MarkedIn, MarkedQuests, MarkedAchievements, MarkedDays
<1>5. Tidy(r, d, m)
  <2>1. QuestsOwned(r)
    BY <1>1, <1>2 DEF Tidy, QuestsOwned
  <2>2. OneBatch(r, m)
    BY <1>1 DEF Tidy, OneBatch, OpenQuests
  <2>3. StreaksPast(r, d)
    BY <1>1 DEF Tidy, StreaksPast
  <2> QED
    BY <1>1, <2>1, <2>2, <2>3 DEF Tidy
<1>6. TokensKept(t, r) /\ QuestsKept(t, r, d, m)
  BY <1>1 DEF TokensKept, QuestsKept
<1> QED
  BY <1>2, <1>3, <1>4, <1>5, <1>6 DEF r

LEMMA SaveUserKept ==
  ASSUME NEW w, Turn(w), SaveUser(w)
  PROVE  Kept
<1> DEFINE j == job[w]
           i == At(j, "reg_id")
           x == [name |-> j.name, balance |-> STARTING_BALANCE]
<1>1. /\ Fields(j) /\ Stage(j, tables, now, lastRow, mishaps)
      /\ Tidy(tables, now, mishaps) /\ tables \in Tables
      /\ mishaps \in Nat /\ (j.pc \notin InsideTx => ~inTx)
  BY TurnFacts
<1>2. j.pc = "reg_save" /\ UNCHANGED now
  BY DEF SaveUser, Running
<1>3. i.pc = "reg_id" /\ ~inTx
  BY <1>1, <1>2, AtLocals DEF InsideTx
<1>4. x \in User /\ x.name # NoName /\ x.balance = STARTING_BALANCE
  BY <1>1, <1>2, AccountsAssumption DEF Stage, User, STARTING_BALANCE
<1>5. Pending(i) = {} /\ Pending(j) = {} /\ Pending(Idle) = {}
  BY <1>2, <1>3, IdleStage, IdleLocals DEF Pending
<1>6. CASE Forbidden(w, Idle)
  BY <1>2, <1>5, <1>6, IdleStage, IdleLocals, StepKept
<1>7. ASSUME NEW u \in NextUser,
             WriteNew(w, [tables EXCEPT !.users[u] = x], u, i, Idle)
      PROVE  Kept
  <2> DEFINE r == [tables EXCEPT !.users[u] = x]
  <2>1. u \in UserIds /\ u \in Nat /\ ~Known(tables, u)
    BY DEF NextUser, UserIds, Exists, Known
  <2>2. /\ Tidy(r, now, mishaps) /\ New(r, u) /\ MarkedIn(r) = MarkedIn(tables)
        /\ TokensKept(tables, r) /\ QuestsKept(tables, r, now, mishaps)
        /\ \A v : Known(r, v) <=> v = u \/ Known(tables, v)
    BY <1>1, <1>4, <2>1, NewUserRow
  <2>3. Stage(i, r, now, u, mishaps)
    BY <1>3, <2>2 DEF Stage, OfUser, ClaimLabels
  <2>4. r.users = [tables.users EXCEPT ![u] = x] /\ r \in Tables
    BY <1>1, <1>4, <2>1, UserRow
  <2>w. WriteNew(w, r, u, i, Idle)
    BY <1>7
  <2> HIDE DEF r, x
  <2>5. ASSUME tables' = r, UNCHANGED mishaps, Become(w, i)
        PROVE  BookStep
    <3>1. UNCHANGED PaidNotMarked
      BY <1>5, <2>5, AlonePending DEF Turn
    <3>2. UNCHANGED Marked
      BY <2>2, <2>5, MarkedTables
    <3>3. {v \in UserIds : Exists(v)}' = {v \in UserIds : Exists(v)} \cup {u}
      BY <2>1, <2>2, <2>5 DEF Known, Exists
    <3>4. [v \in UserIds |-> tables.users[v].balance]'
            = [[v \in UserIds |-> tables.users[v].balance] EXCEPT ![u] = STARTING_BALANCE]
      BY <1>1, <1>4, <2>1, <2>4, <2>5 DEF Tables
    <3>5. u \notin {v \in UserIds : Exists(v)}
      BY <2>1 DEF Known, Exists
    <3>6. Account!Open(u)
      BY <2>5, <3>1, <3>2, <3>3, <3>4, <3>5 DEF Account!Open
    <3> QED
      BY <2>1, <3>6 DEF BookStep, Account!Book
  <2>6. Stage(Idle, tables, now, lastRow, mishaps + 1)
    BY IdleStage, IdleLocals
  <2> QED
    BY <1>2, <1>3, <1>5, <2>1, <2>2, <2>3, <2>5, <2>6, <2>w, WriteKept
<1> QED
  BY <1>6, <1>7 DEF SaveUser

LEMMA TakeUserIdKept ==
  ASSUME NEW w, Turn(w), TakeUserId(w)
  PROVE  Kept
<1> DEFINE j == job[w]
           i == [j EXCEPT !.pc = "reg_item", !.user = lastRow]
<1>1. Fields(j) /\ Stage(j, tables, now, lastRow, mishaps)
  BY TurnFacts
<1>2. j.pc = "reg_id" /\ UNCHANGED now /\ Read(w, i)
  BY DEF TakeUserId, Running
<1>3. i.pc = "reg_item" /\ i.user = lastRow
  BY <1>1 DEF Fields
<1> HIDE DEF i
<1>4. Stage(i, tables, now, lastRow, mishaps)
  BY <1>1, <1>2, <1>3 DEF Stage, OfUser, ClaimLabels
<1>5. Pending(i) = {} /\ Pending(j) = {}
  BY <1>2, <1>3 DEF Pending
<1> QED
  BY <1>2, <1>4, <1>5, StepKept

(* From the free skin on, registration only needs the user. *)
LEMMA NewStage ==
  ASSUME NEW j, Fields(j), NEW t, NEW d, NEW l, NEW m,
         j.pc \in {"reg_item", "reg_item_id", "reg_give"}, Stage(j, t, d, l, m)
  PROVE  /\ \A k : Stage(At(j, "reg_item_id"), t, d, k, m)
         /\ \A k : Stage(At(j, "init_delete"), t, d, k, m)
         /\ Pending(j) = {} /\ Pending(At(j, "reg_item_id")) = {}
         /\ Pending(At(j, "init_delete")) = {}
<1>1. New(t, j.user)
  BY DEF Stage
<1>2. Known(t, j.user) /\ DayOld(t, j.user, d)
  BY <1>1 DEF New, DayOld, OpenQuests
<1>3. \A k : Stage(At(j, "reg_item_id"), t, d, k, m)
  BY <1>1, AtLocals DEF Stage, OfUser, ClaimLabels
<1>4. \A k : Stage(At(j, "init_delete"), t, d, k, m)
  BY <1>2, AtLocals DEF Stage, OfUser, ClaimLabels
<1>5. /\ Pending(j) = {} /\ Pending(At(j, "reg_item_id")) = {}
      /\ Pending(At(j, "init_delete")) = {}
  BY AtLocals DEF Pending
<1> QED
  BY <1>3, <1>4, <1>5

LEMMA CreateStarterSkinKept ==
  ASSUME NEW w, Turn(w), CreateStarterSkin(w)
  PROVE  Kept
<1> DEFINE j == job[w]
           next == At(j, "reg_item_id")
           failed == At(j, "init_delete")
<1>1. /\ Fields(j) /\ Stage(j, tables, now, lastRow, mishaps) /\ tables \in Tables
  BY TurnFacts
<1>2. j.pc = "reg_item" /\ j.pc \notin InsideTx /\ UNCHANGED now
  BY DEF CreateStarterSkin, Running, InsideTx
<1>3. /\ \A k : Stage(next, tables, now, k, mishaps)
      /\ \A k : Stage(failed, tables, now, k, mishaps)
      /\ Pending(j) = {} /\ Pending(next) = {} /\ Pending(failed) = {}
  BY <1>1, <1>2, NewStage
<1>4. CASE Forbidden(w, failed)
  BY <1>2, <1>3, <1>4, StepKept
<1>5. ASSUME NEW i \in NextItem, j.user \in UserIds,
             WriteNew(w, [tables EXCEPT !.owner[i] = j.user], i, next, failed)
      PROVE  Kept
  <2> DEFINE r == [tables EXCEPT !.owner[i] = j.user]
  <2>1. i \in ItemIds /\ i \in Nat
    BY DEF NextItem, ItemIds
  <2>2. r \in Tables /\ SameRows(tables, r) /\ r.sessions = tables.sessions
    BY <1>1, <1>5, <2>1 DEF Tables, SameRows
  <2>4. TokensKept(tables, r)
    BY <2>2 DEF TokensKept
  <2> HIDE DEF r, next, failed
  <2> QED
    BY <1>2, <1>3, <1>5, <2>1, <2>2, <2>4, QuietStore DEF r
<1> QED
  BY <1>4, <1>5 DEF CreateStarterSkin, Exists

LEMMA TakeItemIdKept ==
  ASSUME NEW w, Turn(w), TakeItemId(w)
  PROVE  Kept
<1> DEFINE j == job[w]
           i == [j EXCEPT !.pc = "reg_give", !.row = lastRow]
<1>1. Fields(j) /\ Stage(j, tables, now, lastRow, mishaps)
  BY TurnFacts
<1>2. j.pc = "reg_item_id" /\ UNCHANGED now /\ Read(w, i)
  BY DEF TakeItemId, Running
<1>3. i.pc = "reg_give" /\ i.user = j.user
  BY <1>1 DEF Fields
<1> HIDE DEF i
<1>4. Stage(i, tables, now, lastRow, mishaps)
  BY <1>1, <1>2, <1>3 DEF Stage, OfUser, ClaimLabels
<1>5. Pending(i) = {} /\ Pending(j) = {}
  BY <1>2, <1>3 DEF Pending
<1> QED
  BY <1>2, <1>4, <1>5, StepKept

LEMMA GiveStarterSkinKept ==
  ASSUME NEW w, Turn(w), GiveStarterSkin(w)
  PROVE  Kept
<1> DEFINE j == job[w]
           next == At(j, "init_delete")
           r == [tables EXCEPT !.inventory = @ \cup {<<j.user, j.row>>}]
<1>1. /\ Fields(j) /\ Stage(j, tables, now, lastRow, mishaps) /\ tables \in Tables
  BY TurnFacts
<1>2. j.pc = "reg_give" /\ j.pc \notin InsideTx /\ UNCHANGED now
  BY DEF GiveStarterSkin, Running, InsideTx
<1>3. /\ \A k : Stage(next, tables, now, k, mishaps)
      /\ Pending(j) = {} /\ Pending(next) = {}
  BY <1>1, <1>2, NewStage
<1>4. CASE Forbidden(w, next)
  BY <1>2, <1>3, <1>4, StepKept
<1>5. CASE j.row \in ItemIds /\ WriteNew(w, r, OtherRow, next, next)
  <2>1. j.user \in UserIds
    BY <1>1, <1>2 DEF Stage, New, Known
  <2>2. r \in Tables /\ SameRows(tables, r) /\ r.sessions = tables.sessions
    BY <1>1, <1>5, <2>1 DEF Tables, SameRows
  <2>4. TokensKept(tables, r)
    BY <2>2 DEF TokensKept
  <2>3. OtherRow \in Nat
    BY DEF OtherRow
  <2> HIDE DEF r, next
  <2> QED
    BY <1>2, <1>3, <1>5, <2>2, <2>3, <2>4, QuietStore
<1> QED
  BY <1>4, <1>5 DEF GiveStarterSkin

LEMMA Clock ==
  /\ 1 \in Seconds /\ Seconds \subseteq Nat
  /\ \A d \in Seconds : Hours[d] \in Nat /\ Hours[d] >= 48
  /\ \A d \in Seconds : Midnight(d) \in Nat /\ Midnight(d) >= 48
  /\ \A d, e \in Seconds : d <= e => Hours[d] <= Hours[e] /\ Midnight(d) <= Midnight(e)
<1>1. Seconds = 1 .. Len(Hours) /\ Len(Hours) \in Nat /\ Hours # <<>>
      /\ \A d \in Seconds : Hours[d] \in Nat
  <2>1. Hours \in Seq(Nat) /\ Hours # <<>>
    BY AccountsAssumption
  <2> QED
    BY <2>1 DEF Seconds
<1>2. Len(Hours) # 0
  BY <1>1, AccountsAssumption
<1>3. \A d \in Seconds : Hours[d] >= 48
  BY AccountsAssumption
<1>4. \A d, e \in Seconds : d <= e => Hours[d] <= Hours[e]
  BY AccountsAssumption
<1>5. \A x \in Nat : /\ (x \div 24) * 24 \in Nat
                     /\ x >= 48 => (x \div 24) * 24 >= 48
  OBVIOUS
<1>6. \A x, y \in Nat : x <= y => (x \div 24) * 24 <= (y \div 24) * 24
  OBVIOUS
<1> QED
  BY <1>1, <1>2, <1>3, <1>4, <1>5, <1>6 DEF Midnight

LEMMA TypesFacts ==
  /\ 1 \in Types /\ Types \subseteq Nat
  /\ \A k \in Types : k # QuestTypes => k + 1 \in Types
<1>1. QuestTypes \in Nat \ {0}
  BY AccountsAssumption
<1> QED
  BY <1>1 DEF Types

LEMMA ResetRows ==
  ASSUME NEW t \in Tables, NEW u \in UserIds, Known(t, u), NEW d, NEW m, Tidy(t, d, m),
         m = 0 => DayOld(t, u, d)
  PROVE  LET r == [t EXCEPT !.quests = Without(@, OpenQuests(t, u))] IN
         /\ Tidy(r, d, m) /\ SameBalances(t, r) /\ MarkedIn(r) = MarkedIn(t)
         /\ TokensKept(t, r) /\ QuestsKept(t, r, d, m)
         /\ OpenQuests(r, u) = {} /\ Known(r, u)
<1> DEFINE r == [t EXCEPT !.quests = Without(@, OpenQuests(t, u))]
<1>1. /\ r.users = t.users /\ r.sessions = t.sessions /\ r.lastQuest = t.lastQuest
      /\ r.achievements = t.achievements /\ r.streaks = t.streaks
      /\ r.quests = Without(t.quests, OpenQuests(t, u))
      /\ r \in Tables <=> r.quests \in [QuestIds -> Quest]
  BY DEF Tables
<1> HIDE DEF r
<1>2. \A q \in QuestIds :
        r.quests[q] = IF q \in OpenQuests(t, u) THEN NoQuest ELSE t.quests[q]
  BY <1>1 DEF Without
<1>3. /\ NoQuest \in Quest /\ NoQuest.user = NoRow /\ ~NoQuest.claimed
  BY Clock, TypesFacts DEF NoQuest, Quest
<1>4. r \in Tables
  BY <1>1, <1>3 DEF Without, Tables
<1>5. \A v : Known(r, v) <=> Known(t, v)
  BY <1>1 DEF Known
<1>6. \A v \in UserIds : OpenQuests(r, v) \subseteq OpenQuests(t, v)
  BY <1>2, <1>3 DEF OpenQuests, UserIds, NoRow
<1>7. OpenQuests(r, u) = {}
  BY <1>2, <1>3 DEF OpenQuests, UserIds, NoRow
<1>8. \A v \in UserIds : \A q \in OpenQuests(r, v) : r.quests[q] = t.quests[q]
  BY <1>2, <1>3 DEF OpenQuests, UserIds, NoRow
<1>9. Tidy(r, d, m)
  <2>1. QuestsOwned(r)
    BY <1>1, <1>2, <1>3, <1>5 DEF Tidy, QuestsOwned
  <2>2. OneBatch(r, m)
    BY <1>6, <1>8 DEF Tidy, OneBatch
  <2>3. StreaksPast(r, d)
    BY <1>1 DEF Tidy, StreaksPast
  <2> QED
    BY <1>4, <2>1, <2>2, <2>3 DEF Tidy
<1>10. MarkedIn(r) = MarkedIn(t)
  <2>1. \A q \in QuestIds : /\ r.quests[q].claimed <=> t.quests[q].claimed
                            /\ t.quests[q].claimed => r.quests[q] = t.quests[q]
    BY <1>2, <1>3 DEF OpenQuests
  <2>2. MarkedQuests(r) = MarkedQuests(t)
    BY <2>1 DEF MarkedQuests
  <2> QED
    BY <1>1, <2>2 DEF MarkedIn, MarkedAchievements, MarkedDays
<1>11. TokensKept(t, r) /\ QuestsKept(t, r, d, m)
  BY <1>1, <1>2 DEF TokensKept, QuestsKept, DayOld
<1>12. SameBalances(t, r)
  BY <1>1, <1>5 DEF SameBalances
<1> QED
  BY <1>5, <1>7, <1>9, <1>10, <1>11, <1>12 DEF r

LEMMA DeleteUnclaimedKept ==
  ASSUME NEW w, Turn(w), DeleteUnclaimed(w)
  PROVE  Kept
<1> DEFINE j == job[w]
           i == [j EXCEPT !.pc = "init_insert", !.type = 1, !.second = now]
           r == [tables EXCEPT !.quests = Without(@, OpenQuests(tables, j.user))]
<1>1. /\ Fields(j) /\ Stage(j, tables, now, lastRow, mishaps)
      /\ Tidy(tables, now, mishaps) /\ tables \in Tables /\ now \in Seconds
      /\ mishaps \in Nat /\ (j.pc \notin InsideTx => ~inTx) /\ lastRow \in Nat
  BY TurnFacts
<1>2. j.pc = "init_delete" /\ UNCHANGED now /\ Become(w, i)
  BY DEF DeleteUnclaimed, Running
<1>3. ~inTx
  BY <1>1, <1>2 DEF InsideTx
<1>4. i.pc = "init_insert" /\ i.user = j.user /\ i.type = 1 /\ i.second = now
  BY <1>1 DEF Fields
<1>5. \/ Store(r) /\ UNCHANGED lastRow /\ UNCHANGED mishaps
      \/ UNCHANGED connection /\ mishaps' = mishaps + 1
  BY <1>3 DEF DeleteUnclaimed, Smooth, Mishap, Unclaimed, OpenQuests
<1>6. Known(tables, j.user) /\ (mishaps = 0 => DayOld(tables, j.user, now))
  BY <1>1, <1>2 DEF Stage, OfUser
<1>7. j.user \in UserIds
  BY <1>6 DEF Known
<1>8. /\ Tidy(r, now, mishaps) /\ SameBalances(tables, r)
      /\ MarkedIn(r) = MarkedIn(tables)
      /\ TokensKept(tables, r) /\ QuestsKept(tables, r, now, mishaps)
      /\ OpenQuests(r, j.user) = {} /\ Known(r, j.user)
  BY <1>1, <1>6, <1>7, ResetRows
<1>9. Pending(i) = {} /\ Pending(j) = {}
  BY <1>2, <1>4 DEF Pending
<1> HIDE DEF i, r
<1>10. CASE Store(r) /\ UNCHANGED lastRow /\ UNCHANGED mishaps
  <2>1. Stage(i, r, now, lastRow', mishaps)
    BY <1>1, <1>4, <1>8, TypesFacts DEF Stage, OfUser, ClaimLabels, SameDay
  <2>2. BookStep
    BY <1>2, <1>8, <1>9, <1>10, QuietWrite DEF Store
  <2> QED
    BY <1>1, <1>2, <1>3, <1>8, <1>10, <2>1, <2>2, StoreKept DEF Turn
<1>11. CASE UNCHANGED connection /\ mishaps' = mishaps + 1
  <2>1. Stage(i, tables, now, lastRow, mishaps + 1)
    BY <1>1, <1>4, <1>6, TypesFacts DEF Stage, OfUser, ClaimLabels, SameDay
  <2> QED
    BY <1>2, <1>9, <1>11, <2>1, FailKept DEF Turn
<1> QED
  BY <1>5, <1>10, <1>11

QuestAdded(t, r, q, x) ==
  /\ r \in Tables
  /\ r.users = t.users /\ r.sessions = t.sessions /\ r.lastQuest = q
  /\ r.achievements = t.achievements /\ r.streaks = t.streaks
  /\ r.quests = [t.quests EXCEPT ![q] = x]

LEMMA QuestAdds ==
  ASSUME NEW t \in Tables, NEW q \in QuestIds, NEW x \in Quest
  PROVE  QuestAdded(t, [t EXCEPT !.lastQuest = q, !.quests[q] = x], q, x)
<1> DEFINE r == [t EXCEPT !.lastQuest = q, !.quests[q] = x]
<1>1. /\ r.users = t.users /\ r.sessions = t.sessions /\ r.lastQuest = q
      /\ r.achievements = t.achievements /\ r.streaks = t.streaks
      /\ r.quests = [t.quests EXCEPT ![q] = x]
  BY DEF Tables
<1>2. q \in Nat
  BY DEF QuestIds
<1>3. [t.quests EXCEPT ![q] = x] \in [QuestIds -> Quest]
  BY DEF Tables
<1>4. r = [[t EXCEPT !.lastQuest = q] EXCEPT !.quests = [t.quests EXCEPT ![q] = x]]
  BY DEF Tables
<1>5. r \in Tables
  BY <1>2, <1>3, <1>4 DEF Tables
<1> QED
  BY <1>1, <1>5 DEF QuestAdded

LEMMA NewQuestRow ==
  ASSUME NEW t \in Tables, NEW u \in UserIds, Known(t, u), NEW d, NEW m, Tidy(t, d, m),
         NEW q \in QuestIds, q = t.lastQuest + 1, NEW x \in Quest,
         x.user = u, ~x.claimed,
         SameDay(t, u, x.started, m),
         NEW r, QuestAdded(t, r, q, x)
  PROVE  /\ Tidy(r, d, m) /\ SameBalances(t, r) /\ MarkedIn(r) = MarkedIn(t)
         /\ TokensKept(t, r) /\ QuestsKept(t, r, d, m)
         /\ OpenQuests(r, u) = OpenQuests(t, u) \cup {q}
         /\ r.quests = [t.quests EXCEPT ![q] = x] /\ Known(r, u)
<1>1. /\ r.users = t.users /\ r.sessions = t.sessions /\ r.lastQuest = q
      /\ r.achievements = t.achievements /\ r.streaks = t.streaks
      /\ r.quests = [t.quests EXCEPT ![q] = x]
      /\ r \in Tables
  BY DEF QuestAdded
<1>2. \A p \in QuestIds : r.quests[p] = IF p = q THEN x ELSE t.quests[p]
  BY <1>1 DEF Tables
<1>3. \A v : Known(r, v) <=> Known(t, v)
  BY <1>1 DEF Known
<1>4. t.quests[q].user = NoRow /\ ~t.quests[q].claimed
  BY DEF Tidy, QuestsOwned, Tables, QuestIds
<1>5. u # NoRow
  BY DEF UserIds, NoRow
<1>6. /\ OpenQuests(r, u) = OpenQuests(t, u) \cup {q}
      /\ \A v \in UserIds : v # u => OpenQuests(r, v) = OpenQuests(t, v)
      /\ \A v \in UserIds : q \notin OpenQuests(t, v)
  <2>1. \A p \in QuestIds : p \in OpenQuests(r, u) <=> p \in OpenQuests(t, u) \/ p = q
    BY <1>2, <1>4, <1>5 DEF OpenQuests
  <2>2. ASSUME NEW v \in UserIds, v # u, NEW p \in QuestIds
        PROVE  p \in OpenQuests(r, v) <=> p \in OpenQuests(t, v)
    <3>1. v # NoRow
      BY DEF UserIds, NoRow
    <3> QED
      BY <1>2, <1>4, <2>2, <3>1 DEF OpenQuests
  <2>3. \A v : OpenQuests(r, v) \subseteq QuestIds /\ OpenQuests(t, v) \subseteq QuestIds
    BY DEF OpenQuests
  <2>4. \A v \in UserIds : q \notin OpenQuests(t, v)
    BY <1>4 DEF OpenQuests, UserIds, NoRow
  <2> QED
    BY <2>1, <2>2, <2>3, <2>4
<1>7. Tidy(r, d, m)
  <2>1. QuestsOwned(r)
    <3>1. \A p \in QuestIds : p > q => p > t.lastQuest
      BY DEF QuestIds, Tables
    <3> QED
      BY <1>1, <1>2, <1>3, <1>5, <3>1 DEF Tidy, QuestsOwned, QuestIds
  <2>2. OneBatch(r, m)
    <3> SUFFICES ASSUME m = 0, NEW v \in UserIds, NEW p \in OpenQuests(r, v),
                        NEW o \in OpenQuests(r, v)
                 PROVE  r.quests[p].started = r.quests[o].started
      BY DEF OneBatch
    <3>1. p \in QuestIds /\ o \in QuestIds
      BY DEF OpenQuests
    <3>2. CASE v # u
      <4>1. p \in OpenQuests(t, v) /\ o \in OpenQuests(t, v) /\ p # q /\ o # q
        BY <1>6, <3>2
      <4>2. t.quests[p].started = t.quests[o].started
        BY <4>1 DEF Tidy, OneBatch
      <4> QED
        BY <1>2, <3>1, <4>1, <4>2
    <3>3. CASE v = u
      <4>1. \A k \in OpenQuests(r, u) : r.quests[k].started = x.started
        BY <1>2, <1>6, <3>3 DEF OpenQuests, SameDay
      <4> QED
        BY <3>3, <4>1
    <3> QED
      BY <3>2, <3>3
  <2>3. StreaksPast(r, d)
    BY <1>1 DEF Tidy, StreaksPast
  <2> QED
    BY <1>1, <2>1, <2>2, <2>3 DEF Tidy
<1>8. MarkedIn(r) = MarkedIn(t)
  <2>1. \A p \in QuestIds : /\ r.quests[p].claimed <=> t.quests[p].claimed
                            /\ t.quests[p].claimed => r.quests[p] = t.quests[p]
    BY <1>2, <1>4
  <2>2. MarkedQuests(r) = MarkedQuests(t)
    BY <2>1 DEF MarkedQuests
  <2> QED
    BY <1>1, <2>2 DEF MarkedIn, MarkedAchievements, MarkedDays
<1>9. TokensKept(t, r) /\ QuestsKept(t, r, d, m)
  BY <1>1, <1>2, <1>5 DEF TokensKept, QuestsKept
<1>10. SameBalances(t, r)
  BY <1>1, <1>3 DEF SameBalances
<1> QED
  BY <1>1, <1>3, <1>6, <1>7, <1>8, <1>9, <1>10

LEMMA NextTypeLocals ==
  ASSUME NEW j, Fields(j), j.pc = "init_insert", j.type \in Types
  PROVE  \/ NextType(j) = Idle
         \/ /\ NextType(j).pc = "init_insert" /\ NextType(j).user = j.user
            /\ NextType(j).type = j.type + 1 /\ NextType(j).second = j.second
            /\ NextType(j).type \in Types
<1>1. CASE j.type = QuestTypes
  BY <1>1 DEF NextType
<1>2. CASE j.type # QuestTypes
  <2>1. NextType(j) = [j EXCEPT !.type = @ + 1]
    BY <1>2 DEF NextType
  <2>2. j.type + 1 \in Types
    BY <1>2, TypesFacts
  <2> QED
    BY <2>1, <2>2 DEF Fields
<1> QED
  BY <1>1, <1>2

LEMMA NextTypeStage ==
  ASSUME NEW j, Fields(j), j.pc = "init_insert", j.type \in Types, j.second \in Seconds,
         NEW t, NEW d, NEW l, NEW m, Known(t, j.user),
         SameDay(t, j.user, j.second, m)
  PROVE  Stage(NextType(j), t, d, l, m) /\ Pending(NextType(j)) = {}
<1>1. CASE NextType(j) = Idle
  BY <1>1, IdleStage, IdleLocals
<1>2. CASE NextType(j) # Idle
  <2>1. /\ NextType(j).pc = "init_insert" /\ NextType(j).user = j.user
        /\ NextType(j).second = j.second /\ NextType(j).type \in Types
    BY <1>2, NextTypeLocals
  <2> QED
    BY <2>1 DEF Stage, OfUser, ClaimLabels, Pending
<1> QED
  BY <1>1, <1>2

LEMMA SaveQuestKept ==
  ASSUME NEW w, Turn(w), SaveQuest(w)
  PROVE  Kept
<1> DEFINE j == job[w]
           q == tables.lastQuest + 1
           x == [user |-> j.user, type |-> j.type, progress |-> 0,
                 claimed |-> FALSE, started |-> j.second]
           r == [tables EXCEPT !.lastQuest = q, !.quests[q] = x]
           i == NextType(j)
<1>1. /\ Fields(j) /\ Stage(j, tables, now, lastRow, mishaps)
      /\ Tidy(tables, now, mishaps) /\ tables \in Tables
      /\ mishaps \in Nat /\ (j.pc \notin InsideTx => ~inTx)
  BY TurnFacts
<1>2. j.pc = "init_insert" /\ UNCHANGED now /\ ~inTx
  BY <1>1 DEF SaveQuest, Running, InsideTx
<1>3. /\ Known(tables, j.user) /\ j.type \in Types /\ j.second \in Seconds
      /\ SameDay(tables, j.user, j.second, mishaps)
  BY <1>1, <1>2 DEF Stage, OfUser
<1>4. Stage(i, tables, now, lastRow, mishaps) /\ Pending(i) = {} /\ Pending(j) = {}
  BY <1>1, <1>2, <1>3, NextTypeStage DEF Pending
<1>5. CASE Forbidden(w, i)
  BY <1>2, <1>4, <1>5, StepKept
<1>6. CASE q \in QuestIds /\ WriteNew(w, r, q, i, i)
  <2>1. j.user \in UserIds /\ q \in Nat
    BY <1>3, <1>6 DEF Known, QuestIds
  <2>2. x \in Quest /\ x.user = j.user /\ ~x.claimed /\ x.started = j.second
    BY <1>3, <2>1 DEF Quest
  <2>w. WriteNew(w, r, q, i, i)
    BY <1>6
  <2>q. q \in QuestIds /\ q = tables.lastQuest + 1
    BY <1>6
  <2> HIDE DEF x, q
  <2>3. /\ Tidy(r, now, mishaps) /\ SameBalances(tables, r)
        /\ MarkedIn(r) = MarkedIn(tables)
        /\ TokensKept(tables, r) /\ QuestsKept(tables, r, now, mishaps)
        /\ OpenQuests(r, j.user) = OpenQuests(tables, j.user) \cup {q}
        /\ r.quests = [tables.quests EXCEPT ![q] = x] /\ Known(r, j.user)
    <3>1. SameDay(tables, j.user, x.started, mishaps)
      BY <1>3, <2>2
    <3>2. QuestAdded(tables, r, q, x)
      BY <1>1, <2>q, <2>2, QuestAdds
    <3> HIDE DEF r
    <3> QED
      BY <1>1, <1>3, <2>q, <2>1, <2>2, <3>1, <3>2, NewQuestRow
  <2> HIDE DEF r
  <2>4. SameDay(r, j.user, j.second, mishaps)
    BY <1>1, <1>3, <2>q, <2>2, <2>3 DEF Tables, OpenQuests, SameDay
  <2>5. Stage(i, r, now, q, mishaps)
    BY <1>1, <1>2, <1>3, <2>3, <2>4, NextTypeStage
  <2>6. Stage(i, tables, now, lastRow, mishaps + 1)
    BY <1>1, <1>4, StageMishap
  <2>7. tables' = r /\ UNCHANGED mishaps /\ Become(w, i) => BookStep
    BY <1>4, <2>3, QuietWrite
  <2> HIDE DEF i
  <2> QED
    BY <1>2, <1>4, <2>1, <2>3, <2>5, <2>6, <2>7, <2>w, WriteKept
<1> QED
  BY <1>5, <1>6 DEF SaveQuest

-----------------------------------------------------------------------------
(* Login and logout.                                                       *)

LEMMA LoginUserKept ==
  ASSUME NEW w, Turn(w), LoginUser(w)
  PROVE  Kept
<1>1. PICK n \in Names :
        Become(w, [Idle EXCEPT !.pc = "login_load", !.kind = "login", !.name = n])
  BY DEF LoginUser
<1> DEFINE i == [Idle EXCEPT !.pc = "login_load", !.kind = "login", !.name = n]
<1>2. i.pc = "login_load" /\ i.name \in Names
  BY DEF Idle
<1> HIDE DEF i
<1>3. Stage(i, tables, now, lastRow, mishaps) /\ Pending(i) = {}
  BY <1>2 DEF Stage, OfUser, ClaimLabels, Pending
<1> QED
  BY <1>1, <1>3, StartKept DEF LoginUser, i

LEMMA LoadUserByNameKept ==
  ASSUME NEW w, Turn(w), LoadUserByName(w)
  PROVE  Kept
<1> DEFINE j == job[w]
<1>1. Fields(j) /\ Stage(j, tables, now, lastRow, mishaps)
  BY TurnFacts
<1>2. j.pc = "login_load" /\ UNCHANGED now
  BY DEF LoadUserByName, Running
<1>3. Pending(j) = {} /\ j.name \in Names
  BY <1>1, <1>2 DEF Pending, Stage
<1>4. CASE Read(w, Idle)
  BY <1>2, <1>3, <1>4, IdleStage, IdleLocals, StepKept
<1>5. ASSUME NEW u \in UserIds, tables.users[u].name = j.name,
             Read(w, [j EXCEPT !.pc = "login_session", !.user = u,
                               !.balance = tables.users[u].balance])
      PROVE  Kept
  <2> DEFINE i == [j EXCEPT !.pc = "login_session", !.user = u,
                            !.balance = tables.users[u].balance]
  <2>1. i.pc = "login_session" /\ i.user = u /\ i.balance = tables.users[u].balance
    BY <1>1 DEF Fields
  <2>r. Read(w, i)
    BY <1>5
  <2> HIDE DEF i
  <2>2. Known(tables, u)
    BY <1>3, <1>5, AccountsAssumption DEF Known
  <2>3. Stage(i, tables, now, lastRow, mishaps) /\ Pending(i) = {}
    BY <2>1, <2>2 DEF Stage, OfUser, ClaimLabels, Pending
  <2> QED
    BY <1>2, <1>3, <2>r, <2>3, StepKept
<1> QED
  BY <1>4, <1>5 DEF LoadUserByName

LEMMA SessionRow ==
  ASSUME NEW t \in Tables, NEW s \in Seconds, NEW x \in UserIds \cup {NoRow},
         t.sessions[s] = NoRow \/ x = NoRow
  PROVE  LET r == [t EXCEPT !.sessions[s] = x] IN
         r \in Tables /\ SameRows(t, r) /\ TokensKept(t, r)
<1> DEFINE r == [t EXCEPT !.sessions[s] = x]
<1>1. r \in Tables /\ SameRows(t, r) /\ r.sessions = [t.sessions EXCEPT ![s] = x]
  BY DEF Tables, SameRows
<1> HIDE DEF r
<1>2. TokensKept(t, r)
  BY <1>1 DEF Tables, TokensKept
<1> QED
  BY <1>1, <1>2 DEF r

LEMMA SaveSessionKept ==
  ASSUME NEW w, Turn(w), SaveSession(w)
  PROVE  Kept
<1> DEFINE j == job[w]
           next == At(j, "login_row")
           r == [tables EXCEPT !.sessions[now] = j.user]
<1>1. /\ Fields(j) /\ Stage(j, tables, now, lastRow, mishaps) /\ tables \in Tables
      /\ now \in Seconds
  BY TurnFacts
<1>2. j.pc = "login_session" /\ j.pc \notin InsideTx /\ UNCHANGED now
  BY DEF SaveSession, Running, InsideTx
<1>3. Known(tables, j.user) /\ j.balance = tables.users[j.user].balance
  BY <1>1, <1>2 DEF Stage, OfUser
<1>n. next.pc = "login_row" /\ next.user = j.user /\ next.balance = j.balance
  BY <1>1, AtLocals
<1> HIDE DEF next
<1>4. /\ \A l : Stage(next, tables, now, l, mishaps)
      /\ Pending(next) = {} /\ Pending(j) = {}
  BY <1>2, <1>3, <1>n DEF Stage, OfUser, ClaimLabels, Pending
<1>5. /\ \A l : Stage(Idle, tables, now, l, mishaps)
      /\ Pending(Idle) = {}
  BY IdleStage, IdleLocals
<1>6. CASE Forbidden(w, Idle)
  BY <1>2, <1>4, <1>5, <1>6, StepKept
<1>7. CASE tables.sessions[now] = NoRow /\ WriteNew(w, r, OtherRow, next, Idle)
  <2>1. j.user \in UserIds /\ OtherRow \in Nat
    BY <1>3 DEF Known, OtherRow
  <2>2. r \in Tables /\ SameRows(tables, r) /\ TokensKept(tables, r)
    BY <1>1, <1>7, <2>1, SessionRow
  <2> HIDE DEF r
  <2> QED
    BY <1>2, <1>4, <1>5, <1>7, <2>1, <2>2, QuietStore
<1> QED
  BY <1>6, <1>7 DEF SaveSession, WriteFor, next

(* What is stored is what was loaded. *)
LEMMA SameUserRow ==
  ASSUME NEW t \in Tables, NEW u \in UserIds
  PROVE  [t EXCEPT !.users[u].balance = t.users[u].balance] = t
<1>1. [t.users[u] EXCEPT !.balance = t.users[u].balance] = t.users[u]
  BY DEF Tables, User
<1>2. [t.users EXCEPT ![u] = t.users[u]] = t.users
  BY DEF Tables
<1>3. [t EXCEPT !.users = t.users] = t
  BY DEF Tables
<1> QED
  BY <1>1, <1>2, <1>3

LEMMA StoreLastLoginKept ==
  ASSUME NEW w, Turn(w), StoreLastLogin(w)
  PROVE  Kept
<1> DEFINE j == job[w]
           next == At(j, "streak_load")
<1>1. /\ Fields(j) /\ Stage(j, tables, now, lastRow, mishaps) /\ tables \in Tables
      /\ lastRow \in Nat
  BY TurnFacts
<1>2. j.pc = "login_row" /\ j.pc \notin InsideTx /\ UNCHANGED now
  BY DEF StoreLastLogin, Running, InsideTx
<1>3. Known(tables, j.user) /\ j.balance = tables.users[j.user].balance
  BY <1>1, <1>2 DEF Stage, OfUser
<1>n. next.pc = "streak_load" /\ next.user = j.user
  BY <1>1, AtLocals
<1>w. StoreLastLogin(w) => UpdateUser(w, j.user, j.balance, next, next)
  BY DEF StoreLastLogin
<1> HIDE DEF next
<1>4. /\ \A l : Stage(next, tables, now, l, mishaps)
      /\ Pending(next) = {} /\ Pending(j) = {}
  BY <1>2, <1>3, <1>n DEF Stage, OfUser, ClaimLabels, Pending
<1>5. Write(w, [tables EXCEPT !.users[j.user].balance = j.balance], 1, next, next)
  BY <1>3, <1>w DEF UpdateUser, Exists, Known
<1>6. Write(w, tables, 1, next, next)
  BY <1>1, <1>3, <1>5, SameUserRow DEF Known
<1>7. SameRows(tables, tables) /\ TokensKept(tables, tables)
  BY Unmoved DEF SameRows
<1> QED
  BY <1>1, <1>2, <1>4, <1>6, <1>7, QuietStore

LEMMA LoadStreakKept ==
  ASSUME NEW w, Turn(w), LoadStreak(w)
  PROVE  Kept
<1> DEFINE j == job[w]
           i == [j EXCEPT !.pc = "streak_save", !.streak = tables.streaks[j.user]]
<1>1. Fields(j) /\ Stage(j, tables, now, lastRow, mishaps)
  BY TurnFacts
<1>2. j.pc = "streak_load" /\ UNCHANGED now /\ Read(w, i)
  BY DEF LoadStreak, Running
<1>3. i.pc = "streak_save" /\ i.user = j.user /\ i.streak = tables.streaks[j.user]
  BY <1>1 DEF Fields
<1> HIDE DEF i
<1>4. Stage(i, tables, now, lastRow, mishaps)
  BY <1>1, <1>2, <1>3 DEF Stage, OfUser, ClaimLabels
<1>5. Pending(i) = {} /\ Pending(j) = {}
  BY <1>2, <1>3 DEF Pending
<1> QED
  BY <1>2, <1>4, <1>5, StepKept

LEMMA TodayFacts ==
  ASSUME NEW today \in Today, now \in Seconds
  PROVE  today \in Nat /\ today >= 48 /\ (~Clobbered => today = Midnight(now))
BY Clock DEF Today, Midnight

StreakSet(t, r, u, x) ==
  /\ r \in Tables
  /\ r.users = t.users /\ r.sessions = t.sessions /\ r.lastQuest = t.lastQuest
  /\ r.achievements = t.achievements /\ r.quests = t.quests
  /\ r.streaks = [t.streaks EXCEPT ![u] = x]

LEMMA StreakSets ==
  ASSUME NEW t \in Tables, NEW u \in UserIds, NEW x \in Streak
  PROVE  StreakSet(t, [t EXCEPT !.streaks[u] = x], u, x)
BY DEF Tables, StreakSet

LEMMA StreakRow ==
  ASSUME NEW t \in Tables, NEW r, NEW u \in UserIds, NEW x \in Streak,
         StreakSet(t, r, u, x), NEW d, NEW m, Tidy(t, d, m),
         Past(x.reward, d)
  PROVE  /\ Tidy(r, d, m) /\ SameBalances(t, r)
         /\ TokensKept(t, r) /\ QuestsKept(t, r, d, m)
         /\ \A v : Known(r, v) <=> Known(t, v)
<1>1. /\ \A v : Known(r, v) <=> Known(t, v)
      /\ \A v : OpenQuests(r, v) = OpenQuests(t, v)
  BY DEF Known, OpenQuests, StreakSet
<1>2. \A v \in UserIds : r.streaks[v] = IF v = u THEN x ELSE t.streaks[v]
  BY DEF StreakSet, Tables
<1>3. QuestsOwned(r)
  BY <1>1 DEF Tidy, QuestsOwned, StreakSet
<1>4. OneBatch(r, m)
  BY <1>1 DEF Tidy, OneBatch, StreakSet
<1>5. StreaksPast(r, d)
  BY <1>2 DEF Tidy, StreaksPast
<1>6. TokensKept(t, r) /\ QuestsKept(t, r, d, m)
  BY DEF TokensKept, QuestsKept, StreakSet
<1>7. SameBalances(t, r)
  BY <1>1 DEF SameBalances, StreakSet
<1> QED
  BY <1>1, <1>2, <1>3, <1>4, <1>5, <1>6, <1>7 DEF Tidy, StreakSet

LEMMA SaveStreakKept ==
  ASSUME NEW w, Turn(w), SaveStreak(w)
  PROVE  Kept
<1> DEFINE j == job[w]
           next == At(j, "reset_check")
<1>1. /\ Fields(j) /\ Stage(j, tables, now, lastRow, mishaps)
      /\ Tidy(tables, now, mishaps) /\ tables \in Tables /\ now \in Seconds
      /\ mishaps \in Nat /\ (j.pc \notin InsideTx => ~inTx)
  BY TurnFacts
<1>2. j.pc = "streak_save" /\ UNCHANGED now /\ ~inTx
  BY <1>1 DEF SaveStreak, Running, InsideTx
<1>3. Known(tables, j.user) /\ j.streak = tables.streaks[j.user] /\ j.user \in UserIds
  BY <1>1, <1>2 DEF Stage, OfUser, Known
<1>4. PICK today \in Today :
        WriteFor(w, j.user, [tables EXCEPT !.streaks[j.user] =
                               [j.streak EXCEPT !.login = today]],
                 j.user, next, next)
  BY DEF SaveStreak
<1> DEFINE x == [j.streak EXCEPT !.login = today]
           r == [tables EXCEPT !.streaks[j.user] = x]
<1>5. x \in Streak /\ x.reward = tables.streaks[j.user].reward
  <2>1. tables.streaks[j.user] \in Streak /\ today \in Nat
    BY <1>1, <1>3, <1>4, TodayFacts DEF Tables
  <2> QED
    BY <1>3, <2>1 DEF Streak
<1>6. WriteNew(w, r, j.user, next, next)
  BY <1>3, <1>4 DEF WriteFor, Exists, Known
<1> HIDE DEF x
<1>7. StreakSet(tables, r, j.user, x)
  BY <1>1, <1>3, <1>5, StreakSets
<1> HIDE DEF r
<1>8. Past(x.reward, now)
  BY <1>1, <1>3, <1>5 DEF Tidy, StreaksPast
<1>9. /\ Tidy(r, now, mishaps) /\ SameBalances(tables, r)
      /\ TokensKept(tables, r) /\ QuestsKept(tables, r, now, mishaps)
      /\ \A v : Known(r, v) <=> Known(tables, v)
  BY <1>1, <1>3, <1>5, <1>7, <1>8, StreakRow
<1>10. MarkedIn(r) = MarkedIn(tables)
  <2>1. \A v \in UserIds : r.streaks[v].reward = tables.streaks[v].reward
    BY <1>1, <1>3, <1>5, <1>7 DEF StreakSet, Tables
  <2>2. MarkedDays(r) = MarkedDays(tables)
    BY <2>1 DEF MarkedDays
  <2> QED
    BY <1>7, <2>2 DEF MarkedIn, MarkedQuests, MarkedAchievements, StreakSet
<1>n. next.pc = "reset_check" /\ next.user = j.user
  BY <1>1, AtLocals
<1> HIDE DEF next
<1>11. /\ \A l, m : Stage(next, r, now, l, m)
       /\ \A l, m : Stage(next, tables, now, l, m)
       /\ Pending(next) = {} /\ Pending(j) = {}
  <2>1. Known(r, j.user)
    BY <1>3, <1>9
  <2> QED
    BY <1>2, <1>3, <1>n, <2>1 DEF Stage, OfUser, ClaimLabels, Pending
<1>12. tables' = r /\ UNCHANGED mishaps /\ Become(w, next) => BookStep
  BY <1>9, <1>10, <1>11, QuietWrite
<1>13. j.user \in Nat
  BY <1>3 DEF UserIds
<1> QED
  BY <1>2, <1>6, <1>9, <1>11, <1>12, <1>13, WriteKept

(* When one quest of a batch is a day old, all are. *)
LEMMA DueMeansOld ==
  ASSUME NEW u \in UserIds, Due(u), NEW m, m = 0, Tidy(tables, now, m)
  PROVE  DayOld(tables, u, now)
<1>1. Unclaimed(u) = OpenQuests(tables, u)
  BY DEF Unclaimed, OpenQuests
<1> QED
  BY <1>1 DEF Due, DayOld, Tidy, OneBatch

LEMMA ResetCheckKept ==
  ASSUME NEW w, Turn(w), ResetCheck(w)
  PROVE  Kept
<1> DEFINE j == job[w]
           i == At(j, "init_delete")
<1>1. /\ Fields(j) /\ Stage(j, tables, now, lastRow, mishaps)
      /\ Tidy(tables, now, mishaps)
  BY TurnFacts
<1>2. j.pc = "reset_check" /\ UNCHANGED now
  BY DEF ResetCheck, Running
<1>3. Known(tables, j.user) /\ j.user \in UserIds
  BY <1>1, <1>2 DEF Stage, OfUser, Known
<1>4. Pending(j) = {} /\ Pending(i) = {} /\ i.pc = "init_delete" /\ i.user = j.user
  BY <1>1, <1>2, AtLocals DEF Pending
<1>5. CASE Due(j.user) /\ Read(w, i)
  <2>1. mishaps = 0 => DayOld(tables, j.user, now)
    BY <1>1, <1>3, <1>5, DueMeansOld
  <2>2. Stage(i, tables, now, lastRow, mishaps)
    BY <1>3, <1>4, <2>1 DEF Stage, OfUser, ClaimLabels
  <2> QED
    BY <1>2, <1>4, <1>5, <2>2, StepKept
<1>6. CASE Read(w, Idle)
  BY <1>2, <1>4, <1>6, IdleStage, IdleLocals, StepKept
<1> QED
  BY <1>5, <1>6 DEF ResetCheck

LEMMA LogoutUserKept ==
  ASSUME NEW w, Turn(w), LogoutUser(w)
  PROVE  Kept
<1>1. PICK t \in Seconds :
        Become(w, [Idle EXCEPT !.pc = "logout", !.kind = "logout", !.row = t])
  BY DEF LogoutUser
<1> DEFINE i == [Idle EXCEPT !.pc = "logout", !.kind = "logout", !.row = t]
<1>2. i.pc = "logout" /\ i.row \in Seconds
  BY DEF Idle
<1> HIDE DEF i
<1>3. Stage(i, tables, now, lastRow, mishaps) /\ Pending(i) = {}
  BY <1>2 DEF Stage, OfUser, ClaimLabels, Pending
<1> QED
  BY <1>1, <1>3, StartKept DEF LogoutUser, i

LEMMA DeleteSessionKept ==
  ASSUME NEW w, Turn(w), DeleteSession(w)
  PROVE  Kept
<1> DEFINE j == job[w]
           r == [tables EXCEPT !.sessions[j.row] = NoRow]
<1>1. /\ Stage(j, tables, now, lastRow, mishaps) /\ tables \in Tables /\ lastRow \in Nat
  BY TurnFacts
<1>2. j.pc = "logout" /\ j.pc \notin InsideTx /\ UNCHANGED now /\ Pending(j) = {}
  BY DEF DeleteSession, Running, InsideTx, Pending
<1>3. j.row \in Seconds
  BY <1>1, <1>2 DEF Stage
<1>4. \E n : Write(w, r, n, Idle, Idle)
  BY DEF DeleteSession
<1>5. r \in Tables /\ SameRows(tables, r) /\ TokensKept(tables, r)
  BY <1>1, <1>3, SessionRow
<1>6. /\ \A l : Stage(Idle, tables, now, l, mishaps)
      /\ Pending(Idle) = {}
  BY IdleStage, IdleLocals
<1> HIDE DEF r
<1> QED
  BY <1>1, <1>2, <1>4, <1>5, <1>6, QuietStore

-----------------------------------------------------------------------------
(* The transactions of quest progress and achievements.                    *)

LEMMA AlikeKeep ==
  ASSUME NEW t, NEW r \in Tables, Alike(t, r), NEW d, NEW m, Tidy(t, d, m)
  PROVE  /\ Tidy(r, d, m) /\ SameBalances(t, r) /\ MarkedIn(r) = MarkedIn(t)
         /\ TokensKept(t, r) /\ QuestsKept(t, r, d, m)
<1>1. Tidy(r, d, m) /\ \A u : Known(r, u) <=> Known(t, u)
  BY AlikeTidy
<1>2. SameBalances(t, r)
  BY <1>1 DEF Alike, SameBalances
<1>3. TokensKept(t, r) /\ QuestsKept(t, r, d, m)
  BY DEF Alike, TokensKept, QuestsKept
<1> QED
  BY <1>1, <1>2, <1>3, AlikeMarks

(* BEGIN, COMMIT and ROLLBACK. *)
LEMMA TransactionKept ==
  ASSUME NEW w, Turn(w), UNCHANGED <<now, mishaps, lastRow>>, NEW i, Become(w, i),
         tables' \in {tables, durable}, durable' \in {tables, durable},
         ~inTx' => durable' = tables',
         \A t : Stage(i, t, now, lastRow, mishaps),
         Pending(i) = {}, Pending(job[w]) = {}
  PROVE  Kept
<1>1. /\ SerialInv /\ Tidy(tables, now, mishaps) /\ tables \in Tables
      /\ durable \in Tables /\ Alike(tables, durable)
  BY DEF Turn, SerialInv, Tidy
<1>2. /\ Alike(durable, tables) /\ Alike(tables, tables) /\ Alike(durable, durable)
  BY <1>1, AlikeTwice
<1>3. Tidy(durable, now, mishaps)
  BY <1>1, AlikeTidy
<1>4. /\ Alike(tables, tables') /\ Alike(durable, durable') /\ Alike(tables', durable')
      /\ tables' \in Tables /\ durable' \in Tables /\ Tidy(tables', now, mishaps)
  BY <1>1, <1>2, <1>3
<1>5. SerialInv'
  <2>1. \A v \in Workers : Stage(job'[v], tables', now, lastRow, mishaps)
    BY AloneStage DEF Turn
  <2> QED
    BY <1>1, <1>4, <2>1 DEF SerialInv
<1>6. TokensKept(durable, durable') /\ QuestsKept(durable, durable', now, mishaps')
  BY <1>3, <1>4, AlikeKeep
<1>7. BookStep
  <2>1. SameBalances(tables, tables') /\ MarkedIn(tables') = MarkedIn(tables)
    BY <1>1, <1>4, AlikeKeep
  <2>2. UNCHANGED PaidNotMarked
    BY AlonePending DEF Turn
  <2> QED
    BY <2>1, <2>2, QuietBook
<1> QED
  BY <1>5, <1>6, <1>7 DEF Kept

InTransaction(kind, k) ==
  \/ kind = "progress" /\ k \in Types
  \/ kind = "unlock" /\ k \in Achievements

LEMMA StartInTransaction ==
  ASSUME NEW w, Turn(w), NEW kind, Request(w, kind), NEW u, Known(tables, u), NEW k,
         InTransaction(kind, k),
         Become(w, [Idle EXCEPT !.pc = "begin", !.kind = kind, !.user = u, !.type = k])
  PROVE  Kept
<1> DEFINE i == [Idle EXCEPT !.pc = "begin", !.kind = kind, !.user = u, !.type = k]
<1>1. i.pc = "begin" /\ i.kind = kind /\ i.user = u /\ i.type = k
  BY DEF Idle
<1>b. Become(w, i)
  OBVIOUS
<1> HIDE DEF i
<1>2. Stage(i, tables, now, lastRow, mishaps) /\ Pending(i) = {}
  BY <1>1 DEF Stage, OfUser, ClaimLabels, Pending, InTransaction
<1> QED
  BY <1>b, <1>2, StartKept

LEMMA UpdateQuestProgressKept ==
  ASSUME NEW w, Turn(w), UpdateQuestProgress(w)
  PROVE  Kept
<1>1. PICK u \in UserIds, t \in Types :
        /\ Exists(u)
        /\ Become(w, [Idle EXCEPT !.pc = "begin", !.kind = "progress",
                                  !.user = u, !.type = t])
  BY DEF UpdateQuestProgress
<1>2. Known(tables, u) /\ Request(w, "progress") /\ InTransaction("progress", t)
  BY <1>1 DEF UpdateQuestProgress, Exists, Known, InTransaction
<1> QED
  BY <1>1, <1>2, StartInTransaction

LEMMA UnlockAchievementKept ==
  ASSUME NEW w, Turn(w), UnlockAchievement(w)
  PROVE  Kept
<1>1. PICK u \in UserIds, a \in Achievements :
        /\ Exists(u)
        /\ Become(w, [Idle EXCEPT !.pc = "begin", !.kind = "unlock",
                                  !.user = u, !.type = a])
  BY DEF UnlockAchievement
<1>2. Known(tables, u) /\ Request(w, "unlock") /\ InTransaction("unlock", a)
  BY <1>1 DEF UnlockAchievement, Exists, Known, InTransaction
<1> QED
  BY <1>1, <1>2, StartInTransaction

LEMMA BeginTransactionKept ==
  ASSUME NEW w, Turn(w), BeginTransaction(w)
  PROVE  Kept
<1> DEFINE j == job[w]
           i == At(j, "load")
<1>1. /\ Fields(j) /\ Stage(j, tables, now, lastRow, mishaps)
      /\ (j.pc \notin InsideTx => ~inTx)
  BY TurnFacts
<1>2. j.pc = "begin" /\ UNCHANGED now /\ ~inTx
  BY <1>1 DEF BeginTransaction, Running, InsideTx
<1>3. /\ Stage(i, tables, now, lastRow, mishaps)
      /\ Pending(i) = {} /\ Pending(j) = {}
  <2>1. i.pc = "load"
    BY <1>1, AtLocals
  <2>2. Pending(i) = {} /\ Pending(j) = {}
    BY <1>2, <2>1 DEF Pending
  <2>3. Stage(i, tables, now, lastRow, mishaps)
    BY <1>1, <1>2, <2>1, AtLocals DEF Stage, OfUser, ClaimLabels
  <2> QED
    BY <2>2, <2>3
<1>4. /\ \A m : Stage(Idle, tables, now, lastRow, m)
      /\ Pending(Idle) = {}
  BY IdleStage, IdleLocals
<1>5. CASE Begin /\ Become(w, i) /\ Smooth
  <2>1. UNCHANGED <<tables, durable, lastRow, mishaps>> /\ inTx'
    BY <1>5 DEF Begin, Smooth
  <2>2. SerialInv'
    <3>1. \A v \in Workers : Stage(job'[v], tables, now, lastRow, mishaps)
      BY <1>3, <1>5, AloneStage DEF Turn
    <3> QED
      BY <1>2, <2>1, <3>1 DEF Turn, SerialInv
  <2>3. UNCHANGED PaidNotMarked
    BY <1>3, <1>5, AlonePending DEF Turn
  <2>4. BookStep
    BY <2>1, <2>3, QuietBook, Unmoved
  <2> QED
    BY <2>1, <2>2, <2>4, Unmoved DEF Kept
<1>6. CASE BeginRefused /\ Become(w, Idle) /\ mishaps' = mishaps + 1
  BY <1>2, <1>4, <1>6, FailKept DEF BeginRefused, Turn
<1> QED
  BY <1>2, <1>5, <1>6 DEF BeginTransaction, Mishap

LEMMA LoadInTransactionKept ==
  ASSUME NEW w, Turn(w), LoadInTransaction(w)
  PROVE  Kept
<1> DEFINE j == job[w]
<1>1. /\ Fields(j) /\ Stage(j, tables, now, lastRow, mishaps) /\ tables \in Tables
  BY TurnFacts
<1>2. j.pc = "load" /\ UNCHANGED now /\ Pending(j) = {}
  BY DEF LoadInTransaction, Running, Pending
<1>3. /\ Known(tables, j.user)
      /\ \/ j.kind = "progress" /\ j.type \in Types
         \/ j.kind = "unlock" /\ j.type \in Achievements
  BY <1>1, <1>2 DEF Stage, OfUser
<1>4. CASE Read(w, At(j, "rollback"))
  <2> DEFINE k == At(j, "rollback")
  <2>1. k.pc = "rollback" /\ Read(w, k)
    BY <1>1, <1>4, AtLocals
  <2> HIDE DEF k
  <2>2. Stage(k, tables, now, lastRow, mishaps) /\ Pending(k) = {}
    BY <2>1 DEF Stage, OfUser, ClaimLabels, Pending
  <2> QED
    BY <1>2, <2>1, <2>2, StepKept
<1>5. CASE /\ j.kind = "unlock" /\ tables.achievements[j.user][j.type] = "none"
           /\ Read(w, At(j, "write"))
  <2> DEFINE k == At(j, "write")
  <2>1. /\ k.pc = "write" /\ k.user = j.user /\ k.kind = j.kind
        /\ k.type = j.type /\ Read(w, k)
    BY <1>1, <1>5, AtLocals
  <2> HIDE DEF k
  <2>2. Stage(k, tables, now, lastRow, mishaps) /\ Pending(k) = {}
    BY <1>3, <1>5, <2>1 DEF Stage, OfUser, ClaimLabels, Pending
  <2> QED
    BY <1>2, <2>1, <2>2, StepKept
<1>6. ASSUME j.kind # "unlock", NEW q \in InProgress(j.user, j.type),
             Read(w, [j EXCEPT !.pc = "write", !.row = q,
                               !.progress = tables.quests[q].progress + 1])
      PROVE  Kept
  <2> DEFINE i == [j EXCEPT !.pc = "write", !.row = q,
                            !.progress = tables.quests[q].progress + 1]
  <2>1. /\ i.pc = "write" /\ i.row = q /\ i.user = j.user /\ i.kind = j.kind
        /\ i.type = j.type /\ i.progress = tables.quests[q].progress + 1
    BY <1>1 DEF Fields
  <2>r. Read(w, i)
    BY <1>6
  <2> HIDE DEF i
  <2>2. q \in OpenQuests(tables, j.user) /\ q \in QuestIds
    BY <1>6 DEF InProgress, Unclaimed, OpenQuests
  <2>3. i.progress \in Nat
    BY <1>1, <2>1, <2>2 DEF Tables, Quest
  <2>4. Stage(i, tables, now, lastRow, mishaps) /\ Pending(i) = {}
    BY <1>3, <1>6, <2>1, <2>2, <2>3 DEF Stage, OfUser, ClaimLabels, Pending
  <2> QED
    BY <1>2, <2>r, <2>4, StepKept
<1> QED
  BY <1>4, <1>5, <1>6 DEF LoadInTransaction

LEMMA UnlockedRow ==
  ASSUME NEW t \in Tables, NEW u \in UserIds, NEW a \in Achievements,
         t.achievements[u][a] = "none"
  PROVE  LET r == [t EXCEPT !.achievements[u][a] = "unlocked"] IN
         r \in Tables /\ Alike(t, r)
<1> DEFINE r == [t EXCEPT !.achievements[u][a] = "unlocked"]
<1>1. /\ r.users = t.users /\ r.sessions = t.sessions
      /\ r.lastQuest = t.lastQuest /\ r.streaks = t.streaks /\ r.quests = t.quests
      /\ r.achievements = [t.achievements EXCEPT ![u] =
                             [t.achievements[u] EXCEPT ![a] = "unlocked"]]
  BY DEF Tables
<1>2. r \in Tables
  BY DEF Tables, Marks
<1> HIDE DEF r
<1>3. \A v \in UserIds, b \in Achievements :
        r.achievements[v][b] = "claimed" <=> t.achievements[v][b] = "claimed"
  BY <1>1 DEF Tables
<1>4. Alike(t, r)
  BY <1>1, <1>3 DEF Alike
<1> QED
  BY <1>2, <1>4 DEF r

LEMMA QuestsRow ==
  ASSUME NEW t \in Tables, NEW f \in [QuestIds -> Quest]
  PROVE  LET r == [t EXCEPT !.quests = f] IN
         /\ r \in Tables
         /\ r.users = t.users /\ r.sessions = t.sessions
         /\ r.lastQuest = t.lastQuest /\ r.streaks = t.streaks
         /\ r.achievements = t.achievements /\ r.quests = f
BY DEF Tables

LEMMA ProgressedRow ==
  ASSUME NEW t \in Tables, NEW u, NEW q \in OpenQuests(t, u), NEW n \in Nat
  PROVE  LET r == [t EXCEPT !.quests[q].progress = n, !.quests[q].claimed = FALSE] IN
         r \in Tables /\ Alike(t, r)
<1> DEFINE r == [t EXCEPT !.quests[q].progress = n, !.quests[q].claimed = FALSE]
           x == [[t.quests[q] EXCEPT !.progress = n] EXCEPT !.claimed = FALSE]
<1>1. q \in QuestIds /\ ~t.quests[q].claimed /\ t.quests[q] \in Quest
  BY DEF OpenQuests, Tables
<1>2. /\ x \in Quest /\ x.user = t.quests[q].user /\ x.type = t.quests[q].type
      /\ ~x.claimed /\ x.started = t.quests[q].started
  BY <1>1 DEF Quest
<1>3. r = [t EXCEPT !.quests = [t.quests EXCEPT ![q] = x]]
  BY <1>1 DEF Tables, Quest
<1> HIDE DEF x
<1> HIDE DEF r
<1>4. /\ r.users = t.users /\ r.sessions = t.sessions
      /\ r.lastQuest = t.lastQuest /\ r.streaks = t.streaks
      /\ r.achievements = t.achievements
      /\ r.quests = [t.quests EXCEPT ![q] = x]
      /\ r \in Tables
  <2>1. [t.quests EXCEPT ![q] = x] \in [QuestIds -> Quest]
    BY <1>1, <1>2 DEF Tables
  <2> QED
    BY <1>3, <2>1, QuestsRow
<1>6. \A p \in QuestIds : r.quests[p] = IF p = q THEN x ELSE t.quests[p]
  BY <1>1, <1>4 DEF Tables
<1>7. Alike(t, r)
  BY <1>1, <1>2, <1>4, <1>6 DEF Alike
<1> QED
  BY <1>4, <1>7 DEF r

LEMMA AlikeWrite ==
  ASSUME NEW w, Turn(w), UNCHANGED now, NEW r \in Tables, Alike(tables, r),
         NEW n, NEW l \in Nat, NEW next, NEW failed,
         \/ Write(w, r, n, next, failed) /\ l = lastRow
         \/ WriteNew(w, r, l, next, failed),
         \A t, k, m : Stage(next, t, now, k, m), \A t, k, m : Stage(failed, t, now, k, m),
         Pending(next) = {}, Pending(failed) = {}, Pending(job[w]) = {}
  PROVE  Kept
<1>1. Tidy(tables, now, mishaps) /\ Alike(tables, durable)
  BY DEF Turn, SerialInv
<1>2. /\ Tidy(r, now, mishaps) /\ SameBalances(tables, r)
      /\ MarkedIn(r) = MarkedIn(tables)
      /\ TokensKept(tables, r) /\ QuestsKept(tables, r, now, mishaps)
  BY <1>1, AlikeKeep
<1>3. Alike(r, durable)
  BY <1>1, AlikeTwice
<1>4. tables' = r /\ UNCHANGED mishaps /\ Become(w, next) => BookStep
  BY <1>2, QuietWrite
<1> QED
  BY <1>2, <1>3, <1>4, WriteKept

LEMMA EndingStage ==
  ASSUME NEW j, Fields(j), NEW label \in {"commit", "rollback"}
  PROVE  /\ \A t, d, k, m : Stage(At(j, label), t, d, k, m)
         /\ Pending(At(j, label)) = {}
BY AtLocals DEF Stage, OfUser, ClaimLabels, Pending

LEMMA WriteInTransactionKept ==
  ASSUME NEW w, Turn(w), WriteInTransaction(w)
  PROVE  Kept
<1> DEFINE j == job[w]
           next == At(j, "commit")
           failed == At(j, "rollback")
<1>1. /\ Fields(j) /\ Stage(j, tables, now, lastRow, mishaps) /\ tables \in Tables
      /\ lastRow \in Nat
  BY TurnFacts
<1>2. j.pc = "write" /\ UNCHANGED now /\ Pending(j) = {}
  BY DEF WriteInTransaction, Running, Pending
<1>3. /\ Known(tables, j.user) /\ j.user \in UserIds
      /\ j.kind = "unlock" => /\ j.type \in Achievements
                              /\ tables.achievements[j.user][j.type] = "none"
      /\ j.kind # "unlock" => j.row \in OpenQuests(tables, j.user) /\ j.progress \in Nat
  BY <1>1, <1>2 DEF Stage, OfUser, Known
<1>4. /\ \A t, k, m : Stage(next, t, now, k, m)
      /\ \A t, k, m : Stage(failed, t, now, k, m)
      /\ Pending(next) = {} /\ Pending(failed) = {}
  BY <1>1, EndingStage
<1>5. CASE j.kind = "unlock"
  <2> DEFINE r == [tables EXCEPT !.achievements[j.user][j.type] = "unlocked"]
  <2>1. WriteNew(w, r, OtherRow, next, failed)
    BY <1>3, <1>5 DEF WriteInTransaction, WriteFor, Exists, Known
  <2>2. r \in Tables /\ Alike(tables, r) /\ OtherRow \in Nat
    BY <1>1, <1>3, <1>5, UnlockedRow DEF OtherRow
  <2> HIDE DEF r, next, failed
  <2> QED
    BY <1>2, <1>4, <2>1, <2>2, AlikeWrite
<1>6. CASE j.kind # "unlock"
  <2> DEFINE r == [tables EXCEPT !.quests[j.row].progress = j.progress,
                                 !.quests[j.row].claimed = FALSE]
  <2>1. tables.quests[j.row].user # NoRow
    BY <1>3, <1>6 DEF OpenQuests, UserIds, NoRow
  <2>2. Write(w, r, 1, next, failed)
    BY <1>6, <2>1 DEF WriteInTransaction
  <2>3. r \in Tables /\ Alike(tables, r)
    BY <1>1, <1>3, <1>6, ProgressedRow
  <2> HIDE DEF r, next, failed
  <2> QED
    BY <1>1, <1>2, <1>4, <2>2, <2>3, AlikeWrite
<1> QED
  BY <1>5, <1>6

LEMMA CommitTransactionKept ==
  ASSUME NEW w, Turn(w), CommitTransaction(w)
  PROVE  Kept
<1> DEFINE j == job[w]
           failed == At(j, "rollback")
<1>1. Fields(j)
  BY TurnFacts
<1>2. j.pc = "commit" /\ UNCHANGED now /\ Pending(j) = {}
  BY DEF CommitTransaction, Running, Pending
<1>3. /\ \A t, k, m : Stage(failed, t, now, k, m)
      /\ \A t, k, m : Stage(Idle, t, now, k, m)
      /\ Pending(failed) = {} /\ Pending(Idle) = {}
  BY <1>1, EndingStage, IdleStage, IdleLocals
<1>4. CASE Commit /\ Become(w, Idle) /\ Smooth
  BY <1>2, <1>3, <1>4, TransactionKept DEF Commit, Smooth
<1>5. CASE CommitRefused /\ Become(w, failed) /\ Smooth
  BY <1>2, <1>3, <1>5, ReadKept DEF CommitRefused, Smooth, Turn
<1>6. CASE CommitRefused /\ Become(w, failed) /\ mishaps' = mishaps + 1
  BY <1>2, <1>3, <1>6, FailKept DEF CommitRefused, Turn
<1> QED
  BY <1>4, <1>5, <1>6 DEF CommitTransaction, Mishap

LEMMA RollbackTransactionKept ==
  ASSUME NEW w, Turn(w), RollbackTransaction(w)
  PROVE  Kept
<1>2. job[w].pc = "rollback" /\ UNCHANGED now /\ Pending(job[w]) = {}
  BY DEF RollbackTransaction, Running, Pending
<1>3. /\ \A t, k, m : Stage(Idle, t, now, k, m)
      /\ Pending(Idle) = {}
  BY IdleStage, IdleLocals
<1>4. /\ UNCHANGED <<mishaps, lastRow, durable>> /\ Become(w, Idle)
      /\ tables' \in {tables, durable} /\ tables' = (IF inTx THEN durable ELSE tables)
  BY DEF RollbackTransaction, Rollback, Smooth
<1>5. durable' = tables'
  BY <1>4 DEF Turn, SerialInv
<1> QED
  BY <1>2, <1>3, <1>4, <1>5, TransactionKept

-----------------------------------------------------------------------------
(* Claims.                                                                 *)

LEMMA ClaimQuestRewardKept ==
  ASSUME NEW w, Turn(w), ClaimQuestReward(w)
  PROVE  Kept
<1>1. PICK q \in QuestIds :
        /\ tables.quests[q].user # NoRow
        /\ Become(w, [Idle EXCEPT !.pc = "claim_load", !.kind = "quest",
                                  !.user = tables.quests[q].user, !.row = q])
  BY DEF ClaimQuestReward
<1> DEFINE i == [Idle EXCEPT !.pc = "claim_load", !.kind = "quest",
                             !.user = tables.quests[q].user, !.row = q]
<1>2. /\ i.pc = "claim_load" /\ i.row = q /\ i.kind = "quest"
      /\ i.user = tables.quests[q].user
  BY DEF Idle
<1>b. Become(w, i) /\ Request(w, "quest")
  BY <1>1 DEF ClaimQuestReward
<1> HIDE DEF i
<1>3. i.user \in UserIds
  BY <1>1, <1>2, TurnFacts DEF Tidy, QuestsOwned, Known
<1>4. Stage(i, tables, now, lastRow, mishaps) /\ Pending(i) = {}
  BY <1>2, <1>3 DEF Stage, OfUser, ClaimLabels, Pending
<1> QED
  BY <1>b, <1>4, StartKept

LEMMA ClaimAchievementRewardKept ==
  ASSUME NEW w, Turn(w), ClaimAchievementReward(w)
  PROVE  Kept
<1>1. PICK u \in UserIds, a \in Achievements :
        Become(w, [Idle EXCEPT !.pc = "claim_load", !.kind = "achievement",
                               !.user = u, !.type = a])
  BY DEF ClaimAchievementReward
<1> DEFINE i == [Idle EXCEPT !.pc = "claim_load", !.kind = "achievement",
                             !.user = u, !.type = a]
<1>2. i.pc = "claim_load" /\ i.kind = "achievement" /\ i.user = u /\ i.type = a
  BY DEF Idle
<1>b. Become(w, i) /\ Request(w, "achievement")
  BY <1>1 DEF ClaimAchievementReward
<1> HIDE DEF i
<1>4. Stage(i, tables, now, lastRow, mishaps) /\ Pending(i) = {}
  BY <1>2 DEF Stage, OfUser, ClaimLabels, Pending
<1> QED
  BY <1>b, <1>4, StartKept

LEMMA ClaimDailyRewardKept ==
  ASSUME NEW w, Turn(w), ClaimDailyReward(w)
  PROVE  Kept
<1>1. PICK u \in UserIds :
        Become(w, [Idle EXCEPT !.pc = "claim_load", !.kind = "daily", !.user = u])
  BY DEF ClaimDailyReward
<1> DEFINE i == [Idle EXCEPT !.pc = "claim_load", !.kind = "daily", !.user = u]
<1>2. i.pc = "claim_load" /\ i.kind = "daily" /\ i.user = u
  BY DEF Idle
<1>b. Become(w, i) /\ Request(w, "daily")
  BY <1>1 DEF ClaimDailyReward
<1> HIDE DEF i
<1>4. Stage(i, tables, now, lastRow, mishaps) /\ Pending(i) = {}
  BY <1>2 DEF Stage, OfUser, ClaimLabels, Pending
<1> QED
  BY <1>b, <1>4, StartKept

(* The next day of a streak is one of the seven. *)
LEMMA StreakDays ==
  ASSUME NEW s \in Streak, NEW today \in Nat
  PROVE  StreakDay(s, today) \in 1 .. 7
<1>1. s.current \in 0 .. 7
  BY DEF Streak
<1>2. (s.current % 7) + 1 \in 1 .. 7
  BY <1>1
<1>3. s.current # 0 => s.current \in 1 .. 7
  BY <1>1
<1>4. \/ StreakDay(s, today) = (s.current % 7) + 1
      \/ StreakDay(s, today) = 1
      \/ s.current # 0 /\ StreakDay(s, today) = s.current
  BY DEF StreakDay
<1> QED
  BY <1>2, <1>3, <1>4

LEMMA LoadClaimKept ==
  ASSUME NEW w, Turn(w), LoadClaim(w)
  PROVE  Kept
<1> DEFINE j == job[w]
<1>1. /\ Fields(j) /\ Stage(j, tables, now, lastRow, mishaps)
      /\ Tidy(tables, now, mishaps) /\ tables \in Tables /\ now \in Seconds
  BY TurnFacts
<1>2. j.pc = "claim_load" /\ UNCHANGED now /\ Pending(j) = {}
  BY DEF LoadClaim, Running, Pending
<1>3. /\ j.user \in UserIds
      /\ j.kind = "quest" => j.row \in QuestIds
      /\ j.kind = "achievement" => j.type \in Achievements
  BY <1>1, <1>2 DEF Stage, ClaimLabels
<1>k. j.kind \in {"quest", "achievement", "daily"}
  <2>1. Sound(j)
    BY TurnFacts
  <2> QED
    BY <1>2, <2>1 DEF Sound, ClaimLabels
<1>4. CASE Read(w, Idle)
  BY <1>2, <1>4, IdleStage, IdleLocals, StepKept
<1>5. ASSUME NEW i, Read(w, i), i.pc = "claim_user", i.user \in UserIds,
             Found(i, tables, now)
      PROVE  Kept
  <2>1. Stage(i, tables, now, lastRow, mishaps) /\ Pending(i) = {}
    BY <1>5 DEF Stage, OfUser, ClaimLabels, Pending
  <2> QED
    BY <1>2, <1>5, <2>1, StepKept
<1>6. CASE j.kind = "quest" /\ LoadQuest(w) /\ ~Read(w, Idle)
  <2> DEFINE row == tables.quests[j.row]
             i == [j EXCEPT !.pc = "claim_user", !.type = row.type,
                            !.progress = row.progress, !.reward = QuestReward[row.type]]
  <2>1. /\ i.pc = "claim_user" /\ i.user = j.user /\ i.kind = j.kind /\ i.row = j.row
        /\ i.type = row.type /\ i.progress = row.progress
        /\ i.reward = QuestReward[row.type]
    BY <1>1 DEF Fields
  <2>2. Read(w, i) /\ j.row \in OpenQuests(tables, j.user)
    BY <1>6 DEF LoadQuest, Unclaimed, OpenQuests
  <2> HIDE DEF i
  <2>3. row.progress \in Nat
    BY <1>1, <1>3, <1>6 DEF Tables, Quest
  <2>4. Found(i, tables, now)
    BY <1>6, <2>1, <2>2, <2>3 DEF Found, FoundQuest
  <2> QED
    BY <1>3, <1>5, <2>1, <2>2, <2>4
<1>7. CASE j.kind = "achievement" /\ LoadAchievement(w) /\ ~Read(w, Idle)
  <2> DEFINE i == [j EXCEPT !.pc = "claim_user", !.reward = AchievementReward[j.type]]
  <2>1. /\ i.pc = "claim_user" /\ i.user = j.user /\ i.kind = j.kind
        /\ i.type = j.type /\ i.reward = AchievementReward[j.type]
    BY <1>1 DEF Fields
  <2>2. Read(w, i) /\ tables.achievements[j.user][j.type] = "unlocked"
    BY <1>7 DEF LoadAchievement
  <2> HIDE DEF i
  <2>4. Found(i, tables, now)
    BY <1>3, <1>7, <2>1, <2>2 DEF Found, FoundAchievement
  <2> QED
    BY <1>3, <1>5, <2>1, <2>2, <2>4
<1>8. CASE j.kind = "daily" /\ LoadDaily(w) /\ ~Read(w, Idle)
  <2> DEFINE streak == tables.streaks[j.user]
  <2>1. PICK today \in Today :
          Read(w, IF streak.reward = today THEN Idle
                  ELSE [j EXCEPT !.pc = "claim_user",
                                 !.reward = DayReward[StreakDay(streak, today)],
                                 !.streak = [current |-> StreakDay(streak, today),
                                             login |-> today, reward |-> today]])
    BY <1>8 DEF LoadDaily
  <2> DEFINE day == StreakDay(streak, today)
             x == [current |-> day, login |-> today, reward |-> today]
             i == [j EXCEPT !.pc = "claim_user", !.reward = DayReward[day],
                            !.streak = x]
  <2>2. Read(w, i) /\ streak.reward # today
    BY <1>8, <2>1
  <2>3. /\ i.pc = "claim_user" /\ i.user = j.user /\ i.kind = j.kind
        /\ i.reward = DayReward[day] /\ i.streak = x
    BY <1>1 DEF Fields
  <2>4. streak \in Streak /\ today \in Nat /\ (~Clobbered => today = Midnight(now))
    BY <1>1, <1>3, <2>1, TodayFacts DEF Tables
  <2>5. day \in 1 .. 7
    BY <2>4, StreakDays
  <2>6. x \in Streak /\ x.reward = today
    BY <2>4, <2>5 DEF Streak
  <2>7. DayReward[day] \in Range(DayReward)
    BY <2>5, AccountsAssumption DEF Range
  <2>8. ~Clobbered => streak.reward < today /\ today <= Midnight(now)
    <3>1. streak.reward \in Nat
      BY <2>4 DEF Streak
    <3>2. Past(streak.reward, now)
      BY <1>1, <1>3 DEF Tidy, StreaksPast
    <3>3. ~Clobbered => streak.reward <= Midnight(now) /\ today = Midnight(now)
      BY <2>4, <3>2 DEF Past
    <3> HIDE DEF streak
    <3> QED
      BY <2>2, <2>4, <3>1, <3>3
  <2>s. i.streak \in Streak /\ i.streak.reward = today
    BY <2>3, <2>6
  <2> HIDE DEF i, x, day
  <2>9. Found(i, tables, now)
    BY <1>8, <2>3, <2>s, <2>7, <2>8 DEF Found, FoundDay
  <2> QED
    BY <1>3, <1>5, <2>2, <2>3, <2>9
<1> QED
  BY <1>k, <1>4, <1>6, <1>7, <1>8 DEF LoadClaim

(* What a claim has found does not depend on the label or the balance. *)
SameClaim(i, j) ==
  /\ i.kind = j.kind /\ i.user = j.user /\ i.row = j.row /\ i.type = j.type
  /\ i.progress = j.progress /\ i.reward = j.reward /\ i.streak = j.streak

LEMMA FoundStill ==
  ASSUME NEW i, NEW j, SameClaim(i, j), NEW t, NEW d, Found(j, t, d)
  PROVE  Found(i, t, d)
BY DEF SameClaim, Found, FoundQuest, FoundAchievement, FoundDay

LEMMA ClaimLoadUserKept ==
  ASSUME NEW w, Turn(w), ClaimLoadUser(w)
  PROVE  Kept
<1> DEFINE j == job[w]
           i == [j EXCEPT !.pc = "claim_pay",
                          !.balance = tables.users[j.user].balance + j.reward]
<1>1. Fields(j) /\ Stage(j, tables, now, lastRow, mishaps)
  BY TurnFacts
<1>2. j.pc = "claim_user" /\ UNCHANGED now /\ Pending(j) = {}
  BY DEF ClaimLoadUser, Running, Pending
<1>3. Found(j, tables, now)
  BY <1>1, <1>2 DEF Stage
<1>4. CASE Read(w, Idle)
  BY <1>2, <1>4, IdleStage, IdleLocals, StepKept
<1>5. CASE Exists(j.user) /\ Read(w, i)
  <2>1. /\ i.pc = "claim_pay" /\ SameClaim(i, j)
        /\ i.balance = tables.users[j.user].balance + j.reward
        /\ i.user = j.user /\ i.reward = j.reward
    BY <1>1 DEF Fields, SameClaim
  <2>r. Read(w, i) /\ Known(tables, j.user) /\ j.user \in UserIds
    BY <1>5 DEF Exists, Known
  <2> HIDE DEF i
  <2>2. Found(i, tables, now)
    BY <1>3, <2>1, FoundStill
  <2>3. Stage(i, tables, now, lastRow, mishaps) /\ Pending(i) = {}
    BY <2>1, <2>2, <2>r DEF Stage, OfUser, ClaimLabels, Pending
  <2> QED
    BY <1>2, <2>r, <2>3, StepKept
<1> QED
  BY <1>4, <1>5 DEF ClaimLoadUser

LEMMA RewardRange ==
  ASSUME NEW j, NEW t \in Tables, NEW d, Found(j, t, d),
         j.kind \in {"quest", "achievement", "daily"}
  PROVE  j.reward \in Nat
<1>1. CASE j.kind = "quest"
  <2>1. j.type \in Types /\ j.reward = QuestReward[j.type]
    BY <1>1 DEF Found, FoundQuest, OpenQuests, Tables, Quest
  <2>2. QuestReward \in [Types -> Nat]
    BY AccountsAssumption
  <2> QED
    BY <2>1, <2>2
<1>2. CASE j.kind = "achievement"
  <2>1. j.type \in Achievements /\ j.reward = AchievementReward[j.type]
    BY <1>2 DEF Found, FoundAchievement
  <2>2. AchievementReward \in [Achievements -> Nat]
    BY AccountsAssumption
  <2> QED
    BY <2>1, <2>2
<1>3. CASE j.kind = "daily"
  <2>1. j.reward \in Range(DayReward)
    BY <1>3 DEF Found, FoundDay
  <2>2. DayReward \in [1 .. 7 -> Nat]
    BY AccountsAssumption
  <2> QED
    BY <2>1, <2>2 DEF Range
<1> QED
  BY <1>1, <1>2, <1>3

(* What is to be paid is worth what is paid, and is not marked. *)
LEMMA RewardWorth ==
  ASSUME NEW j, NEW t \in Tables, NEW d, Found(j, t, d), j.user \in UserIds,
         j.kind \in {"quest", "achievement", "daily"}, ~Clobbered
  PROVE  /\ RewardOf(j)[2] = j.user
         /\ j.reward \in WorthOf(RewardOf(j))
         /\ RewardOf(j) \notin MarkedIn(t)
         /\ Account!Daily(RewardOf(j)) =>
              \A r \in MarkedIn(t) :
                Account!Daily(r) /\ r[2] = j.user => r[3] < RewardOf(j)[3]
<1>m. \A r \in MarkedIn(t) :
        \/ r[1] = "quest" /\ \E q \in QuestIds : r[3] = q /\ t.quests[q].claimed
        \/ /\ r[1] = "achievement"
           /\ \E p \in UserIds \X Achievements :
                r[2] = p[1] /\ r[3] = p[2] /\ t.achievements[p[1]][p[2]] = "claimed"
        \/ r[1] = "daily" /\ r[2] \in UserIds /\ r[3] = t.streaks[r[2]].reward
  BY DEF MarkedIn, MarkedQuests, MarkedAchievements, MarkedDays
<1>1. CASE j.kind = "quest"
  <2>1. RewardOf(j) = <<"quest", j.user, j.row, j.type>>
    BY <1>1 DEF RewardOf
  <2>2. j.reward = QuestReward[j.type] /\ j.row \in QuestIds /\ ~t.quests[j.row].claimed
    BY <1>1 DEF Found, FoundQuest, OpenQuests
  <2>3. WorthOf(RewardOf(j)) = {QuestReward[j.type]}
    BY <2>1 DEF WorthOf
  <2>4. RewardOf(j)[1] = "quest" /\ RewardOf(j)[2] = j.user /\ RewardOf(j)[3] = j.row
    BY <2>1
  <2>5. RewardOf(j) \notin MarkedIn(t)
    BY <1>m, <2>2, <2>4
  <2> QED
    BY <2>2, <2>3, <2>4, <2>5 DEF Account!Daily
<1>2. CASE j.kind = "achievement"
  <2>1. RewardOf(j) = <<"achievement", j.user, j.type>>
    BY <1>2 DEF RewardOf
  <2>2. /\ j.reward = AchievementReward[j.type]
        /\ t.achievements[j.user][j.type] = "unlocked"
    BY <1>2 DEF Found, FoundAchievement
  <2>3. WorthOf(RewardOf(j)) = {AchievementReward[j.type]}
    BY <2>1 DEF WorthOf
  <2>4. /\ RewardOf(j)[1] = "achievement" /\ RewardOf(j)[2] = j.user
        /\ RewardOf(j)[3] = j.type
    BY <2>1
  <2>5. RewardOf(j) \notin MarkedIn(t)
    BY <1>m, <2>2, <2>4
  <2> QED
    BY <2>2, <2>3, <2>4, <2>5 DEF Account!Daily
<1>3. CASE j.kind = "daily"
  <2>1. RewardOf(j) = <<"daily", j.user, j.streak.reward>>
    BY <1>3 DEF RewardOf
  <2>2. /\ j.reward \in Range(DayReward)
        /\ t.streaks[j.user].reward < j.streak.reward
        /\ j.streak.reward \in Nat /\ t.streaks[j.user].reward \in Nat
    BY <1>3 DEF Found, FoundDay, Streak, Tables
  <2>3. WorthOf(RewardOf(j)) = Range(DayReward)
    BY <2>1 DEF WorthOf
  <2>4. /\ RewardOf(j)[1] = "daily" /\ RewardOf(j)[2] = j.user
        /\ RewardOf(j)[3] = j.streak.reward
    BY <2>1
  <2>5. RewardOf(j) \notin MarkedIn(t)
    BY <1>m, <2>2, <2>4
  <2>6. \A r \in MarkedIn(t) :
          Account!Daily(r) /\ r[2] = j.user => r[3] < RewardOf(j)[3]
    BY <1>m, <2>2, <2>4 DEF Account!Daily
  <2> QED
    BY <2>2, <2>3, <2>4, <2>5, <2>6
<1> QED
  BY <1>1, <1>2, <1>3

BalanceSet(t, r, u, n) ==
  /\ r \in Tables
  /\ r.sessions = t.sessions /\ r.lastQuest = t.lastQuest
  /\ r.achievements = t.achievements /\ r.quests = t.quests /\ r.streaks = t.streaks
  /\ \A v \in UserIds : r.users[v].name = t.users[v].name
  /\ \A v \in UserIds : r.users[v].balance = IF v = u THEN n ELSE t.users[v].balance

LEMMA BalanceSets ==
  ASSUME NEW t \in Tables, NEW u \in UserIds, NEW n \in Nat
  PROVE  BalanceSet(t, [t EXCEPT !.users[u].balance = n], u, n)
<1> DEFINE x == [t.users[u] EXCEPT !.balance = n]
           r == [t EXCEPT !.users[u].balance = n]
<1>1. x \in User /\ x.name = t.users[u].name /\ x.balance = n
  BY DEF Tables, User
<1>2. r = [t EXCEPT !.users[u] = x]
  BY DEF Tables
<1> HIDE DEF x, r
<1>3. /\ r.sessions = t.sessions /\ r.lastQuest = t.lastQuest
      /\ r.achievements = t.achievements /\ r.quests = t.quests
      /\ r.streaks = t.streaks /\ r.users = [t.users EXCEPT ![u] = x]
      /\ r \in Tables
  BY <1>1, <1>2, UserRow
<1>4. \A v \in UserIds : r.users[v] = IF v = u THEN x ELSE t.users[v]
  BY <1>3 DEF Tables
<1>5. BalanceSet(t, r, u, n)
  BY <1>1, <1>3, <1>4 DEF BalanceSet
<1> QED
  BY <1>5 DEF r

LEMMA BalanceRow ==
  ASSUME NEW t \in Tables, NEW r, NEW u \in UserIds, NEW n,
         BalanceSet(t, r, u, n), NEW d, NEW m, Tidy(t, d, m)
  PROVE  /\ Tidy(r, d, m) /\ MarkedIn(r) = MarkedIn(t)
         /\ TokensKept(t, r) /\ QuestsKept(t, r, d, m)
         /\ \A v : Known(r, v) <=> Known(t, v)
         /\ \A j : Found(j, t, d) => Found(j, r, d)
<1>1. /\ \A v : Known(r, v) <=> Known(t, v)
      /\ \A v : OpenQuests(r, v) = OpenQuests(t, v)
  BY DEF Known, OpenQuests, BalanceSet
<1>3. QuestsOwned(r)
  BY <1>1 DEF Tidy, QuestsOwned, BalanceSet
<1>4. OneBatch(r, m)
  BY <1>1 DEF Tidy, OneBatch, BalanceSet
<1>5. StreaksPast(r, d)
  BY DEF Tidy, StreaksPast, BalanceSet
<1>6. TokensKept(t, r) /\ QuestsKept(t, r, d, m)
  BY DEF TokensKept, QuestsKept, BalanceSet
<1>7. MarkedIn(r) = MarkedIn(t)
  BY DEF MarkedIn, MarkedQuests, MarkedAchievements, MarkedDays, BalanceSet
<1>8. \A j : Found(j, t, d) => Found(j, r, d)
  BY <1>1 DEF Found, FoundQuest, FoundAchievement, FoundDay, BalanceSet
<1> QED
  BY <1>1, <1>3, <1>4, <1>5, <1>6, <1>7, <1>8 DEF Tidy, BalanceSet

LEMMA PaidStep ==
  ASSUME NEW w, Turn(w), NEW next, Become(w, next), NEW r, tables' = r,
         UNCHANGED mishaps, Pending(job[w]) = {}, Pending(next) = {RewardOf(next)},
         Found(next, tables, now), Known(tables, next.user), next.reward \in Nat,
         next.kind \in {"quest", "achievement", "daily"},
         BalanceSet(tables, r, next.user, tables.users[next.user].balance + next.reward)
  PROVE  BookStep
<1> SUFFICES ASSUME ~Clobbered
             PROVE  Account!Book
  BY DEF BookStep
<1> DEFINE x == RewardOf(next)
           b == [v \in UserIds |-> tables.users[v].balance]
           known == {v \in UserIds : Exists(v)}
<1>1. /\ tables \in Tables /\ Tidy(tables, now, mishaps) /\ next.user \in UserIds
      /\ MarkedIn(r) = MarkedIn(tables) /\ \A v : Known(r, v) <=> Known(tables, v)
  BY TurnFacts, BalanceRow DEF Known
<1>2. PaidNotMarked = {} /\ PaidNotMarked' = {x}
  BY AlonePending DEF Turn
<1>3. UNCHANGED Marked /\ Marked = MarkedIn(tables)
  BY <1>1, MarkedTables
<1>4. UNCHANGED known
  BY <1>1 DEF Known, Exists
<1>5. /\ x[2] = next.user /\ next.reward \in WorthOf(x) /\ x \notin MarkedIn(tables)
      /\ Account!Daily(x) =>
           \A y \in MarkedIn(tables) :
             Account!Daily(y) /\ y[2] = next.user => y[3] < x[3]
  BY <1>1, RewardWorth
<1> HIDE DEF x
<1>6. b' = [b EXCEPT ![next.user] = @ + next.reward]
  BY <1>1 DEF BalanceSet
<1>7. next.user \in known
  BY <1>1 DEF Known, Exists
<1>8. \A y \in Account!Replaced(x) : y[3] < x[3]
  BY <1>3, <1>5 DEF Account!Replaced, Account!Holder
<1> HIDE DEF b, known
<1>9. Account!Pay(x, next.reward)
  BY <1>2, <1>3, <1>4, <1>5, <1>6, <1>7, <1>8
  DEF Account!Pay, Account!Holder, b, known
<1> QED
  BY <1>2, <1>5, <1>9 DEF Account!Book

LEMMA PayRewardKept ==
  ASSUME NEW w, Turn(w), PayReward(w)
  PROVE  Kept
<1> DEFINE j == job[w]
           next == At(j, IF j.kind = "quest" THEN "claim_verify" ELSE "claim_mark")
           r == [tables EXCEPT !.users[j.user].balance = j.balance]
<1>1. /\ Sound(j) /\ Fields(j) /\ Stage(j, tables, now, lastRow, mishaps)
      /\ Tidy(tables, now, mishaps) /\ tables \in Tables
      /\ (j.pc \notin InsideTx => ~inTx) /\ lastRow \in Nat
  BY TurnFacts
<1>2. j.pc = "claim_pay" /\ UNCHANGED now /\ ~inTx /\ Pending(j) = {}
  BY <1>1 DEF PayReward, Running, InsideTx, Pending
<1>3. /\ Known(tables, j.user) /\ j.user \in UserIds
      /\ j.balance = tables.users[j.user].balance + j.reward
      /\ Found(j, tables, now)
      /\ j.kind \in {"quest", "achievement", "daily"}
  BY <1>1, <1>2 DEF Sound, ClaimLabels, Stage, OfUser, Known
<1>4. j.reward \in Nat /\ j.balance \in Nat
  <2>1. j.reward \in Nat
    BY <1>1, <1>3, RewardRange
  <2> QED
    BY <1>1, <1>3, <2>1 DEF Tables, User
<1>5. Write(w, r, 1, next, Idle)
  BY <1>3 DEF PayReward, UpdateUser, Exists, Known
<1>6. /\ next.pc = (IF j.kind = "quest" THEN "claim_verify" ELSE "claim_mark")
      /\ next.kind = j.kind /\ next.user = j.user /\ next.balance = j.balance
      /\ next.reward = j.reward /\ SameClaim(next, j)
  BY <1>1, AtLocals DEF SameClaim
<1>7. BalanceSet(tables, r, j.user, j.balance)
  BY <1>1, <1>3, <1>4, BalanceSets
<1> HIDE DEF next, r
<1>8. /\ Tidy(r, now, mishaps) /\ Known(r, j.user)
      /\ TokensKept(tables, r) /\ QuestsKept(tables, r, now, mishaps)
      /\ Found(next, tables, now) /\ Found(next, r, now)
  BY <1>1, <1>3, <1>6, <1>7, BalanceRow, FoundStill
<1>9. Stage(next, r, now, lastRow, mishaps)
  <2>1. r.users[j.user].balance = j.balance
    BY <1>3, <1>7 DEF BalanceSet
  <2> QED
    BY <1>3, <1>6, <1>8, <2>1 DEF Stage, OfUser, ClaimLabels
<1>10. Pending(next) = {RewardOf(next)}
  BY <1>6 DEF Pending
<1>11. tables' = r /\ UNCHANGED mishaps /\ Become(w, next) => BookStep
  BY <1>2, <1>3, <1>4, <1>6, <1>7, <1>8, <1>10, PaidStep
<1>12. /\ \A m : Stage(Idle, tables, now, lastRow, m)
       /\ Pending(Idle) = {}
  BY IdleStage, IdleLocals
<1> QED
  BY <1>1, <1>2, <1>5, <1>8, <1>9, <1>11, <1>12, WriteKept

LEMMA VerifyBalanceKept ==
  ASSUME NEW w, Turn(w), VerifyBalance(w)
  PROVE  Kept
<1> DEFINE j == job[w]
           next == At(j, "claim_mark")
<1>1. Fields(j) /\ Stage(j, tables, now, lastRow, mishaps)
  BY TurnFacts
<1>2. j.pc = "claim_verify" /\ UNCHANGED now
  BY DEF VerifyBalance, Running
<1>3. /\ Known(tables, j.user) /\ j.user \in UserIds /\ Found(j, tables, now)
      /\ j.balance = tables.users[j.user].balance
  BY <1>1, <1>2 DEF Stage, OfUser, Known
<1>4. Read(w, next)
  BY <1>3 DEF VerifyBalance
<1>5. next.pc = "claim_mark" /\ next.user = j.user /\ SameClaim(next, j)
  BY <1>1, AtLocals DEF SameClaim
<1> HIDE DEF next
<1>6. Found(next, tables, now)
  BY <1>3, <1>5, FoundStill
<1>7. Stage(next, tables, now, lastRow, mishaps)
  BY <1>3, <1>5, <1>6 DEF Stage, OfUser, ClaimLabels
<1>8. Pending(next) = Pending(j)
  BY <1>2, <1>5 DEF Pending, RewardOf, SameClaim
<1> QED
  BY <1>2, <1>4, <1>7, <1>8, StepKept

(* The mark of a reward; that of a day replaces those of earlier days. *)
MarkAdded(t, r, reward) ==
  ~Clobbered =>
    MarkedIn(r) = {y \in MarkedIn(t) : ~(reward[1] = "daily" /\ y[1] = "daily"
                                          /\ y[2] = reward[2])} \cup {reward}

LEMMA MarkStep ==
  ASSUME NEW w, Turn(w), NEW next, Become(w, next), NEW r, tables' = r,
         UNCHANGED mishaps, Pending(job[w]) = {RewardOf(job[w])}, Pending(next) = {},
         SameBalances(tables, r), MarkAdded(tables, r, RewardOf(job[w]))
  PROVE  BookStep
<1> SUFFICES ASSUME ~Clobbered
             PROVE  Account!Book
  BY DEF BookStep
<1> DEFINE x == RewardOf(job[w])
<1>1. PaidNotMarked = {x} /\ PaidNotMarked' = {}
  BY AlonePending DEF Turn
<1>2. Marked' = (Marked \ Account!Replaced(x)) \cup {x}
  <2>1. Marked = MarkedIn(tables) /\ Marked' = MarkedIn(r)
    BY MarkedTables
  <2>2. Account!Replaced(x) = {y \in Marked : x[1] = "daily" /\ y[1] = "daily" /\ y[2] = x[2]}
    BY DEF Account!Replaced, Account!Holder, Account!Daily
  <2>3. MarkedIn(r) = {y \in MarkedIn(tables) : ~(x[1] = "daily" /\ y[1] = "daily"
                                                   /\ y[2] = x[2])} \cup {x}
    BY DEF MarkAdded
  <2> HIDE DEF x
  <2> QED
    BY <2>1, <2>2, <2>3
<1>3. UNCHANGED [v \in UserIds |-> tables.users[v].balance]
  BY DEF SameBalances
<1>4. UNCHANGED {v \in UserIds : Exists(v)}
  BY DEF SameBalances, Known, Exists
<1> HIDE DEF x
<1>5. Account!Mark(x)
  BY <1>1, <1>2, <1>3, <1>4 DEF Account!Mark
<1> QED
  BY <1>1, <1>5 DEF Account!Book

LEMMA MarkKept ==
  ASSUME NEW w, Turn(w), job[w].pc = "claim_mark", UNCHANGED now,
         NEW r, NEW n, NEW l \in Nat,
         \/ Write(w, r, n, Idle, Idle) /\ l = lastRow
         \/ WriteNew(w, r, l, Idle, Idle),
         Tidy(r, now, mishaps), SameBalances(tables, r),
         TokensKept(tables, r), QuestsKept(tables, r, now, mishaps),
         MarkAdded(tables, r, RewardOf(job[w]))
  PROVE  Kept
<1>1. ~inTx
  BY TurnFacts DEF InsideTx
<1>2. /\ \A t, k, m : Stage(Idle, t, now, k, m)
      /\ Pending(Idle) = {}
  BY IdleStage, IdleLocals
<1>3. Pending(job[w]) = {RewardOf(job[w])}
  BY DEF Pending
<1>4. tables' = r /\ UNCHANGED mishaps /\ Become(w, Idle) => BookStep
  BY <1>2, <1>3, MarkStep
<1> QED
  BY <1>1, <1>2, <1>4, WriteKept

QuestMarked(t, r, q) ==
  /\ r \in Tables
  /\ r.users = t.users /\ r.sessions = t.sessions /\ r.lastQuest = t.lastQuest
  /\ r.achievements = t.achievements /\ r.streaks = t.streaks
  /\ \A p \in QuestIds : /\ r.quests[p].user = t.quests[p].user
                         /\ r.quests[p].type = t.quests[p].type
                         /\ r.quests[p].started = t.quests[p].started
                         /\ r.quests[p].claimed <=> p = q \/ t.quests[p].claimed

LEMMA QuestMarks ==
  ASSUME NEW t \in Tables, NEW q \in QuestIds, NEW n \in Nat
  PROVE  QuestMarked(t, [t EXCEPT !.quests[q].progress = n,
                                  !.quests[q].claimed = TRUE], q)
<1> DEFINE r == [t EXCEPT !.quests[q].progress = n, !.quests[q].claimed = TRUE]
           x == [[t.quests[q] EXCEPT !.progress = n] EXCEPT !.claimed = TRUE]
<1>1. t.quests[q] \in Quest
  BY DEF Tables
<1>2. /\ x \in Quest /\ x.user = t.quests[q].user /\ x.type = t.quests[q].type
      /\ x.claimed /\ x.started = t.quests[q].started
  BY <1>1 DEF Quest
<1>3. r = [t EXCEPT !.quests = [t.quests EXCEPT ![q] = x]]
  BY <1>1 DEF Tables, Quest
<1> HIDE DEF x
<1> HIDE DEF r
<1>4. /\ r.users = t.users /\ r.sessions = t.sessions
      /\ r.lastQuest = t.lastQuest /\ r.streaks = t.streaks
      /\ r.achievements = t.achievements
      /\ r.quests = [t.quests EXCEPT ![q] = x]
      /\ r \in Tables
  <2>1. [t.quests EXCEPT ![q] = x] \in [QuestIds -> Quest]
    BY <1>1, <1>2 DEF Tables
  <2> QED
    BY <1>3, <2>1, QuestsRow
<1>6. \A p \in QuestIds : r.quests[p] = IF p = q THEN x ELSE t.quests[p]
  BY <1>4 DEF Tables
<1>7. QuestMarked(t, r, q)
  BY <1>2, <1>4, <1>6 DEF QuestMarked
<1> QED
  BY <1>7 DEF r

LEMMA MarkQuestKept ==
  ASSUME NEW w, Turn(w), job[w].pc = "claim_mark", UNCHANGED now,
         job[w].kind = "quest", MarkQuest(w)
  PROVE  Kept
<1> DEFINE j == job[w]
           r == [tables EXCEPT !.quests[j.row].progress = j.progress,
                               !.quests[j.row].claimed = TRUE]
<1>1. /\ Stage(j, tables, now, lastRow, mishaps) /\ Tidy(tables, now, mishaps)
      /\ tables \in Tables /\ lastRow \in Nat
  BY TurnFacts
<1>2. /\ Known(tables, j.user) /\ j.row \in QuestIds /\ j.progress \in Nat
      /\ tables.quests[j.row].user = j.user /\ ~tables.quests[j.row].claimed
      /\ j.type = tables.quests[j.row].type
  BY <1>1 DEF Stage, OfUser, Found, FoundQuest, OpenQuests
<1>3. j.user # NoRow
  BY <1>2 DEF Known, UserIds, NoRow
<1>4. Write(w, r, 1, Idle, Idle)
  BY <1>2, <1>3 DEF MarkQuest
<1>5. QuestMarked(tables, r, j.row)
  BY <1>1, <1>2, QuestMarks
<1> HIDE DEF r
<1>6. \A v : Known(r, v) <=> Known(tables, v)
  BY <1>5 DEF Known, QuestMarked
<1>7. Tidy(r, now, mishaps)
  <2>1. QuestsOwned(r)
    BY <1>1, <1>2, <1>3, <1>5, <1>6 DEF Tidy, QuestsOwned, QuestMarked
  <2>2. OneBatch(r, mishaps)
    BY <1>1, <1>5 DEF Tidy, OneBatch, QuestMarked, OpenQuests
  <2>3. StreaksPast(r, now)
    BY <1>1, <1>5 DEF Tidy, StreaksPast, QuestMarked
  <2> QED
    BY <1>5, <2>1, <2>2, <2>3 DEF Tidy, QuestMarked
<1>8. SameBalances(tables, r)
  BY <1>5, <1>6 DEF SameBalances, QuestMarked
<1>9. TokensKept(tables, r) /\ QuestsKept(tables, r, now, mishaps)
  BY <1>5 DEF TokensKept, QuestsKept, QuestMarked
<1>10. MarkAdded(tables, r, RewardOf(j))
  <2>1. RewardOf(j) = <<"quest", j.user, j.row, j.type>>
    BY DEF RewardOf
  <2>2. {p \in QuestIds : r.quests[p].claimed}
          = {p \in QuestIds : tables.quests[p].claimed} \cup {j.row}
    BY <1>2, <1>5 DEF QuestMarked
  <2>3. MarkedQuests(r) = MarkedQuests(tables) \cup {RewardOf(j)}
    <3>1. \A p \in QuestIds : r.quests[p].user = tables.quests[p].user
                             /\ r.quests[p].type = tables.quests[p].type
      BY <1>5 DEF QuestMarked
    <3>2. /\ j.row \in QuestIds /\ tables.quests[j.row].user = j.user
          /\ tables.quests[j.row].type = j.type
      BY <1>2
    <3> QED
      BY <2>1, <2>2, <3>1, <3>2 DEF MarkedQuests
  <2>4. MarkedAchievements(r) = MarkedAchievements(tables)
        /\ MarkedDays(r) = MarkedDays(tables)
    BY <1>5 DEF MarkedAchievements, MarkedDays, QuestMarked
  <2>5. RewardOf(j)[1] # "daily"
    BY <2>1
  <2> QED
    BY <2>3, <2>4, <2>5 DEF MarkAdded, MarkedIn
<1> QED
  BY <1>1, <1>4, <1>7, <1>8, <1>9, <1>10, MarkKept

AchievementMarked(t, r, u, a) ==
  /\ r \in Tables
  /\ r.users = t.users /\ r.sessions = t.sessions /\ r.lastQuest = t.lastQuest
  /\ r.quests = t.quests /\ r.streaks = t.streaks
  /\ \A v \in UserIds, b \in Achievements :
       r.achievements[v][b] = "claimed"
       <=> (v = u /\ b = a) \/ t.achievements[v][b] = "claimed"

LEMMA AchievementMarks ==
  ASSUME NEW t \in Tables, NEW u \in UserIds, NEW a \in Achievements
  PROVE  AchievementMarked(t, [t EXCEPT !.achievements[u][a] = "claimed"], u, a)
<1> DEFINE r == [t EXCEPT !.achievements[u][a] = "claimed"]
<1>1. /\ r.users = t.users /\ r.sessions = t.sessions
      /\ r.lastQuest = t.lastQuest /\ r.streaks = t.streaks /\ r.quests = t.quests
      /\ r.achievements = [t.achievements EXCEPT ![u] =
                             [t.achievements[u] EXCEPT ![a] = "claimed"]]
  BY DEF Tables
<1>2. r \in Tables
  BY DEF Tables, Marks
<1> HIDE DEF r
<1>3. \A v \in UserIds, b \in Achievements :
        r.achievements[v][b] = IF v = u /\ b = a THEN "claimed" ELSE t.achievements[v][b]
  BY <1>1 DEF Tables
<1>4. AchievementMarked(t, r, u, a)
  BY <1>1, <1>2, <1>3 DEF AchievementMarked
<1> QED
  BY <1>4 DEF r

LEMMA MarkAchievementKept ==
  ASSUME NEW w, Turn(w), job[w].pc = "claim_mark", UNCHANGED now,
         job[w].kind = "achievement", MarkAchievement(w)
  PROVE  Kept
<1> DEFINE j == job[w]
           r == [tables EXCEPT !.achievements[j.user][j.type] = "claimed"]
<1>1. /\ Stage(j, tables, now, lastRow, mishaps) /\ Tidy(tables, now, mishaps)
      /\ tables \in Tables /\ lastRow \in Nat
  BY TurnFacts
<1>2. /\ Known(tables, j.user) /\ j.user \in UserIds /\ j.type \in Achievements
      /\ tables.achievements[j.user][j.type] = "unlocked"
  BY <1>1 DEF Stage, OfUser, Found, FoundAchievement, Known
<1>3. Write(w, r, 1, Idle, Idle)
  BY <1>2 DEF MarkAchievement
<1>4. AchievementMarked(tables, r, j.user, j.type)
  BY <1>1, <1>2, AchievementMarks
<1> HIDE DEF r
<1>5. /\ \A v : Known(r, v) <=> Known(tables, v)
      /\ \A v : OpenQuests(r, v) = OpenQuests(tables, v)
  BY <1>4 DEF Known, OpenQuests, AchievementMarked
<1>6. Tidy(r, now, mishaps)
  <2>1. QuestsOwned(r)
    BY <1>1, <1>4, <1>5 DEF Tidy, QuestsOwned, AchievementMarked
  <2>2. OneBatch(r, mishaps)
    BY <1>1, <1>4, <1>5 DEF Tidy, OneBatch, AchievementMarked
  <2>3. StreaksPast(r, now)
    BY <1>1, <1>4 DEF Tidy, StreaksPast, AchievementMarked
  <2> QED
    BY <1>4, <2>1, <2>2, <2>3 DEF Tidy, AchievementMarked
<1>7. SameBalances(tables, r)
  BY <1>4, <1>5 DEF SameBalances, AchievementMarked
<1>8. TokensKept(tables, r) /\ QuestsKept(tables, r, now, mishaps)
  BY <1>4 DEF TokensKept, QuestsKept, AchievementMarked
<1>9. MarkAdded(tables, r, RewardOf(j))
  <2>1. RewardOf(j) = <<"achievement", j.user, j.type>>
    BY DEF RewardOf
  <2> DEFINE pairs(t) == {x \in UserIds \X Achievements :
                            t.achievements[x[1]][x[2]] = "claimed"}
  <2>2. pairs(r) = pairs(tables) \cup {<<j.user, j.type>>}
    <3>1. ASSUME NEW x \in UserIds \X Achievements
          PROVE  x \in pairs(r) <=> x \in pairs(tables) \/ x = <<j.user, j.type>>
      BY <1>4 DEF AchievementMarked
    <3>2. <<j.user, j.type>> \in UserIds \X Achievements
      BY <1>2
    <3>3. pairs(r) \subseteq UserIds \X Achievements
          /\ pairs(tables) \subseteq UserIds \X Achievements
      OBVIOUS
    <3> HIDE DEF pairs
    <3> QED
      BY <3>1, <3>2, <3>3
  <2>3. \A t : MarkedAchievements(t) = {<<"achievement", p[1], p[2]>> : p \in pairs(t)}
    BY DEF MarkedAchievements
  <2>4. MarkedAchievements(r) = MarkedAchievements(tables) \cup {RewardOf(j)}
    <3> DEFINE mark(p) == <<"achievement", p[1], p[2]>>
    <3>1. mark(<<j.user, j.type>>) = RewardOf(j)
      BY <2>1
    <3>2. \A t : MarkedAchievements(t) = {mark(p) : p \in pairs(t)}
      BY <2>3
    <3> HIDE DEF pairs, mark
    <3> QED
      BY <2>2, <3>1, <3>2
  <2>5. MarkedQuests(r) = MarkedQuests(tables) /\ MarkedDays(r) = MarkedDays(tables)
    BY <1>4 DEF MarkedQuests, MarkedDays, AchievementMarked
  <2>6. RewardOf(j)[1] # "daily"
    BY <2>1
  <2> QED
    BY <2>4, <2>5, <2>6 DEF MarkAdded, MarkedIn
<1> QED
  BY <1>1, <1>3, <1>6, <1>7, <1>8, <1>9, MarkKept

LEMMA MarkDailyKept ==
  ASSUME NEW w, Turn(w), job[w].pc = "claim_mark", UNCHANGED now,
         job[w].kind = "daily", MarkDaily(w)
  PROVE  Kept
<1> DEFINE j == job[w]
           u == j.user
           r == [tables EXCEPT !.streaks[u] = j.streak]
<1>1. /\ Stage(j, tables, now, lastRow, mishaps) /\ Tidy(tables, now, mishaps)
      /\ tables \in Tables
  BY TurnFacts
<1>2. /\ Known(tables, u) /\ u \in UserIds /\ u \in Nat /\ j.streak \in Streak
      /\ ~Clobbered => /\ tables.streaks[u].reward < j.streak.reward
                       /\ j.streak.reward <= Midnight(now)
  BY <1>1 DEF Stage, OfUser, Found, FoundDay, Known, UserIds
<1>3. WriteNew(w, r, u, Idle, Idle)
  BY <1>2 DEF MarkDaily, WriteFor, Exists, Known
<1>4. StreakSet(tables, r, u, j.streak)
  BY <1>1, <1>2, StreakSets
<1> HIDE DEF r
<1>5. Past(j.streak.reward, now)
  BY <1>2 DEF Past
<1>6. /\ Tidy(r, now, mishaps) /\ SameBalances(tables, r)
      /\ TokensKept(tables, r) /\ QuestsKept(tables, r, now, mishaps)
  BY <1>1, <1>2, <1>4, <1>5, StreakRow
<1>7. MarkAdded(tables, r, RewardOf(j))
  <2> SUFFICES ASSUME ~Clobbered
               PROVE  MarkedIn(r) = {y \in MarkedIn(tables) :
                                       ~(RewardOf(j)[1] = "daily" /\ y[1] = "daily"
                                         /\ y[2] = RewardOf(j)[2])} \cup {RewardOf(j)}
    BY DEF MarkAdded
  <2> DEFINE x == RewardOf(j)
             date(v) == tables.streaks[v].reward
  <2>1. x = <<"daily", u, j.streak.reward>> /\ x[1] = "daily" /\ x[2] = u
    BY DEF RewardOf
  <2>2. \A v \in UserIds : r.streaks[v].reward = IF v = u THEN j.streak.reward ELSE date(v)
    BY <1>1, <1>4 DEF StreakSet, Tables
  <2>3. j.streak.reward # 0
    BY <1>1, <1>2 DEF Tables, Streak
  <2>4. MarkedDays(r) = {y \in MarkedDays(tables) : y[2] # u} \cup {x}
    <3>1. \A v \in UserIds \ {u} : r.streaks[v].reward = date(v)
      BY <2>2
    <3>2. r.streaks[u].reward = j.streak.reward
      BY <1>2, <2>2
    <3> DEFINE days(t) == {v \in UserIds : t.streaks[v].reward # 0}
    <3>3. days(r) = (days(tables) \ {u}) \cup {u}
      BY <1>2, <2>3, <3>1, <3>2
    <3>4. \A v \in days(tables) \ {u} :
            <<"daily", v, r.streaks[v].reward>> = <<"daily", v, date(v)>>
      BY <3>1
    <3>5. MarkedDays(r) = {<<"daily", v, date(v)>> : v \in days(tables) \ {u}} \cup {x}
      BY <2>1, <3>2, <3>3, <3>4 DEF MarkedDays
    <3>6. {<<"daily", v, date(v)>> : v \in days(tables) \ {u}}
            = {y \in MarkedDays(tables) : y[2] # u}
      BY DEF MarkedDays
    <3> QED
      BY <3>5, <3>6
  <2>5. \A y \in MarkedDays(tables) : y[1] = "daily"
    BY DEF MarkedDays
  <2>6. \A y \in MarkedQuests(tables) \cup MarkedAchievements(tables) : y[1] # "daily"
    BY DEF MarkedQuests, MarkedAchievements
  <2>7. MarkedQuests(r) = MarkedQuests(tables)
        /\ MarkedAchievements(r) = MarkedAchievements(tables)
    BY <1>4 DEF MarkedQuests, MarkedAchievements, StreakSet
  <2> HIDE DEF x
  <2>8. MarkedIn(r) = {y \in MarkedIn(tables) :
                         ~(x[1] = "daily" /\ y[1] = "daily" /\ y[2] = x[2])} \cup {x}
    BY <2>1, <2>4, <2>5, <2>6, <2>7 DEF MarkedIn
  <2> QED
    BY <2>8 DEF x
<1> QED
  BY <1>2, <1>3, <1>6, <1>7, MarkKept

LEMMA MarkClaimedKept ==
  ASSUME NEW w, Turn(w), MarkClaimed(w)
  PROVE  Kept
<1>1. job[w].pc = "claim_mark" /\ UNCHANGED now
  BY DEF MarkClaimed, Running
<1>2. job[w].kind \in {"quest", "achievement", "daily"}
  <2>1. Sound(job[w])
    BY TurnFacts
  <2> QED
    BY <1>1, <2>1 DEF Sound, ClaimLabels
<1> QED
  BY <1>1, <1>2, MarkQuestKept, MarkAchievementKept, MarkDailyKept DEF MarkClaimed

-----------------------------------------------------------------------------
(* The clock and the kill.                                                 *)

LEMMA LaterStage ==
  ASSUME NEW j, NEW t \in Tables, NEW d \in Seconds, NEW e \in Seconds, d <= e,
         NEW l, NEW m, Stage(j, t, d, l, m)
  PROVE  Stage(j, t, e, l, m)
<1>1. \A u : DayOld(t, u, d) => DayOld(t, u, e)
  <2>1. \A u : \A q \in OpenQuests(t, u) : t.quests[q].started \in Seconds
    BY DEF OpenQuests, Tables, Quest
  <2>2. \A s \in Seconds : Hours[s] \in Nat
    BY Clock
  <2>3. Hours[d] <= Hours[e]
    BY Clock
  <2> QED
    BY <2>1, <2>2, <2>3 DEF DayOld
<1>2. FoundDay(j, t, d) => FoundDay(j, t, e)
  <2>1. Midnight(d) <= Midnight(e) /\ Midnight(d) \in Nat /\ Midnight(e) \in Nat
    BY Clock
  <2>2. j.streak \in Streak => j.streak.reward \in Nat
    BY DEF Streak
  <2> QED
    BY <2>1, <2>2 DEF FoundDay
<1>3. Found(j, t, d) => Found(j, t, e)
  BY <1>2 DEF Found
<1> QED
  BY <1>1, <1>3 DEF Stage

LEMMA LaterTidy ==
  ASSUME NEW t, NEW d \in Seconds, NEW e \in Seconds, d <= e, NEW m, Tidy(t, d, m)
  PROVE  Tidy(t, e, m)
<1>1. Midnight(d) <= Midnight(e) /\ Midnight(d) \in Nat /\ Midnight(e) \in Nat
  BY Clock
<1>2. \A u \in UserIds : t.streaks[u].reward \in Nat
  BY DEF Tidy, Tables, Streak
<1>3. StreaksPast(t, e)
  BY <1>1, <1>2 DEF Tidy, StreaksPast, Past
<1> QED
  BY <1>3 DEF Tidy

LEMMA TickKept ==
  ASSUME Inv, SerialInv, Tick
  PROVE  Kept
<1>1. /\ UNCHANGED <<tables, durable, inTx, lastRow, job, mishaps>>
      /\ now' = now + 1 /\ now' \in Seconds
  BY DEF Tick, connection
<1>2. /\ now \in Seconds /\ tables \in Tables /\ Tidy(tables, now, mishaps)
      /\ \A v \in Workers : Stage(job[v], tables, now, lastRow, mishaps)
  BY DEF SerialInv, Tidy
<1>3. now <= now'
  BY <1>1, <1>2, Clock
<1>4. Tidy(tables, now', mishaps)
  BY <1>1, <1>2, <1>3, LaterTidy
<1>5. \A v \in Workers : Stage(job[v], tables, now', lastRow, mishaps)
  BY <1>1, <1>2, <1>3, LaterStage
<1>6. SerialInv'
  BY <1>1, <1>4, <1>5 DEF SerialInv
<1>7. UNCHANGED PaidNotMarked
  BY <1>1 DEF PaidNotMarked, RewardOf
<1>8. BookStep
  BY <1>1, <1>7, QuietBook, Unmoved
<1> QED
  BY <1>1, <1>6, <1>8, Unmoved DEF Kept

LEMMA CrashKept ==
  ASSUME Inv, SerialInv, Crash
  PROVE  Kept
<1>1. /\ tables' = durable /\ UNCHANGED <<durable, now>> /\ ~inTx' /\ lastRow' \in Nat
      /\ mishaps' = mishaps + 1 /\ job' = [v \in Workers |-> Idle]
  BY DEF Crash, Reopen, Mishap, OtherRow
<1>2. /\ Tidy(tables, now, mishaps) /\ mishaps \in Nat /\ now \in Seconds
      /\ durable \in Tables /\ Alike(tables, durable)
  BY DEF SerialInv
<1>3. Tidy(durable, now, mishaps) /\ Alike(durable, durable)
  BY <1>2, AlikeTidy, AlikeTwice
<1>4. Tidy(durable, now, mishaps + 1) /\ mishaps + 1 \in Nat
  BY <1>2, <1>3, StageMishap
<1>5. SerialInv'
  <2>1. \A v \in Workers : Stage(job'[v], durable, now, lastRow', mishaps + 1)
    BY <1>1, IdleStage, IdleLocals
  <2> QED
    BY <1>1, <1>2, <1>3, <1>4, <2>1 DEF SerialInv
<1>6. SameBalances(tables, durable) /\ MarkedIn(durable) = MarkedIn(tables)
  BY <1>2, AlikeKeep
<1>7. PaidNotMarked' = {}
  BY <1>1, IdleLocals DEF PaidNotMarked
<1>8. BookStep
  BY <1>1, <1>6, <1>7, QuietBook
<1> QED
  BY <1>1, <1>5, <1>8, Unmoved DEF Kept

-----------------------------------------------------------------------------
(* Every step.                                                             *)

LEMMA RunningTurn ==
  ASSUME Inv, SerialInv, Serial, NEW w \in Workers, NEW label, label # "idle",
         Running(w, label)
  PROVE  Turn(w)
BY SerialAlone DEF Running, Turn

(* A worker that takes a request is in the middle of it from then on. *)
Started(w) == job'[w].pc # "idle" /\ \A v \in Workers \ {w} : job'[v] = job[v]

LEMMA RequestTurn ==
  ASSUME Inv, SerialInv, Serial', NEW w \in Workers, Started(w)
  PROVE  Turn(w)
BY DEF Started, Turn, Alone, Serial

LEMMA BecomesStarted ==
  ASSUME Inv, NEW w \in Workers, NEW i, Become(w, i), i.pc # "idle"
  PROVE  Started(w)
BY Becomes DEF Started

LEMMA RegisterKept ==
  ASSUME Inv, SerialInv, Serial, Serial', NEW w \in Workers, Register(w)
  PROVE  Kept
<1>1. CASE RegisterUser(w)
  <2>1. Started(w)
    BY <1>1, BecomesStarted DEF RegisterUser, Idle
  <2> QED
    BY <1>1, <2>1, RequestTurn, RegisterUserKept
<1>2. CASE ~RegisterUser(w)
  <2>1. \E label : label # "idle" /\ Running(w, label)
    BY <1>2 DEF Register, UserExists, SaveUser, TakeUserId, CreateStarterSkin,
                TakeItemId, GiveStarterSkin, DeleteUnclaimed, SaveQuest, Running
  <2>2. Turn(w)
    BY <2>1, RunningTurn
  <2> QED
    BY <1>2, <2>2, UserExistsKept, SaveUserKept, TakeUserIdKept, CreateStarterSkinKept,
       TakeItemIdKept, GiveStarterSkinKept, DeleteUnclaimedKept, SaveQuestKept
    DEF Register
<1> QED
  BY <1>1, <1>2

LEMMA LoginKept ==
  ASSUME Inv, SerialInv, Serial, Serial', NEW w \in Workers, Login(w)
  PROVE  Kept
<1>1. CASE LoginUser(w) \/ LogoutUser(w)
  <2>1. Started(w)
    BY <1>1, BecomesStarted DEF LoginUser, LogoutUser, Idle
  <2> QED
    BY <1>1, <2>1, RequestTurn, LoginUserKept, LogoutUserKept
<1>2. CASE ~LoginUser(w) /\ ~LogoutUser(w)
  <2>1. \E label : label # "idle" /\ Running(w, label)
    BY <1>2 DEF Login, LoadUserByName, SaveSession, StoreLastLogin, LoadStreak,
                SaveStreak, ResetCheck, DeleteSession, Running
  <2>2. Turn(w)
    BY <2>1, RunningTurn
  <2> QED
    BY <1>2, <2>2, LoadUserByNameKept, SaveSessionKept, StoreLastLoginKept,
       LoadStreakKept, SaveStreakKept, ResetCheckKept, DeleteSessionKept
    DEF Login
<1> QED
  BY <1>1, <1>2

LEMMA ProgressKept ==
  ASSUME Inv, SerialInv, Serial, Serial', NEW w \in Workers, Progress(w)
  PROVE  Kept
<1>1. CASE UpdateQuestProgress(w) \/ UnlockAchievement(w)
  <2>1. Started(w)
    BY <1>1, BecomesStarted DEF UpdateQuestProgress, UnlockAchievement, Idle
  <2> QED
    BY <1>1, <2>1, RequestTurn, UpdateQuestProgressKept, UnlockAchievementKept
<1>2. CASE ~UpdateQuestProgress(w) /\ ~UnlockAchievement(w)
  <2>1. \E label : label # "idle" /\ Running(w, label)
    BY <1>2 DEF Progress, BeginTransaction, LoadInTransaction, WriteInTransaction,
                CommitTransaction, RollbackTransaction, Running
  <2>2. Turn(w)
    BY <2>1, RunningTurn
  <2> QED
    BY <1>2, <2>2, BeginTransactionKept, LoadInTransactionKept,
       WriteInTransactionKept, CommitTransactionKept, RollbackTransactionKept
    DEF Progress
<1> QED
  BY <1>1, <1>2

LEMMA ClaimKept ==
  ASSUME Inv, SerialInv, Serial, Serial', NEW w \in Workers, Claim(w)
  PROVE  Kept
<1>1. CASE ClaimQuestReward(w) \/ ClaimAchievementReward(w) \/ ClaimDailyReward(w)
  <2>1. Started(w)
    BY <1>1, BecomesStarted DEF ClaimQuestReward, ClaimAchievementReward, ClaimDailyReward, Idle
  <2> QED
    BY <1>1, <2>1, RequestTurn, ClaimQuestRewardKept, ClaimAchievementRewardKept,
       ClaimDailyRewardKept
<1>2. CASE ~(ClaimQuestReward(w) \/ ClaimAchievementReward(w) \/ ClaimDailyReward(w))
  <2>1. \E label : label # "idle" /\ Running(w, label)
    BY <1>2 DEF Claim, LoadClaim, ClaimLoadUser, PayReward, VerifyBalance,
                MarkClaimed, Running
  <2>2. Turn(w)
    BY <2>1, RunningTurn
  <2> QED
    BY <1>2, <2>2, LoadClaimKept, ClaimLoadUserKept, PayRewardKept,
       VerifyBalanceKept, MarkClaimedKept
    DEF Claim
<1> QED
  BY <1>1, <1>2

LEMMA SerialStep ==
  ASSUME Inv, SerialInv, Serial, Serial', [Next]_vars
  PROVE  Kept
<1>1. CASE UNCHANGED vars
  <2>1. UNCHANGED <<tables, durable, inTx, lastRow, job, now, mishaps>>
    BY <1>1 DEF vars, connection
  <2>2. SerialInv'
    BY <2>1 DEF SerialInv
  <2>3. UNCHANGED PaidNotMarked
    BY <2>1 DEF PaidNotMarked, RewardOf
  <2>4. BookStep
    BY <2>1, <2>3, QuietBook, Unmoved
  <2> QED
    BY <2>1, <2>2, <2>4, Unmoved DEF Kept
<1> QED
  BY <1>1, RegisterKept, LoginKept, ProgressKept, ClaimKept, TickKept, CrashKept
  DEF Next

LEMMA SerialInit ==
  ASSUME Init
  PROVE  SerialInv /\ Account!BookInit
<1>1. /\ tables = NoRows /\ durable = NoRows /\ now = 1 /\ mishaps = 0
      /\ lastRow = OtherRow /\ job = [w \in Workers |-> Idle]
  BY DEF Init, ConnectionInit
<1>2. 1 \in Seconds
  BY Clock
<1>3. NoUser \in User /\ NoQuest \in Quest /\ NewStreak \in Streak /\ NoRow \in Nat
  BY <1>2, AccountsAssumption DEF NoUser, User, NoQuest, Quest, NewStreak, Streak,
                                  Types, NoRow
<1>4. NoRows \in Tables
  BY <1>3 DEF NoRows, Tables, Marks
<1>5. /\ \A u \in UserIds : NoRows.users[u] = NoUser /\ NoRows.streaks[u] = NewStreak
      /\ \A q \in QuestIds : NoRows.quests[q] = NoQuest
      /\ \A u \in UserIds, a \in Achievements : NoRows.achievements[u][a] = "none"
  BY DEF NoRows
<1>6. \A u : ~Known(NoRows, u)
  BY <1>5 DEF Known, NoUser
<1>7. Tidy(NoRows, 1, 0)
  <2>1. QuestsOwned(NoRows)
    BY <1>5 DEF QuestsOwned, NoQuest
  <2>2. OneBatch(NoRows, 0)
    BY <1>5 DEF OneBatch, OpenQuests, NoQuest
  <2>3. StreaksPast(NoRows, 1)
    BY <1>2, <1>5, Clock DEF StreaksPast, Past, NewStreak
  <2> QED
    BY <1>4, <2>1, <2>2, <2>3 DEF Tidy
<1>8. SerialInv
  <2>1. Alike(NoRows, NoRows)
    BY DEF Alike
  <2>2. \A v \in Workers : Stage(job[v], NoRows, 1, OtherRow, 0)
    BY <1>1, IdleStage, IdleLocals
  <2> QED
    BY <1>1, <1>2, <1>4, <1>7, <2>1, <2>2 DEF SerialInv, OtherRow
<1>9. PaidNotMarked = {}
  BY <1>1, IdleLocals DEF PaidNotMarked
<1>10. Marked = {}
  <2>1. MarkedQuests(NoRows) = {}
    BY <1>5 DEF MarkedQuests, NoQuest
  <2>2. MarkedAchievements(NoRows) = {}
    BY <1>5 DEF MarkedAchievements
  <2>3. MarkedDays(NoRows) = {}
    BY <1>5 DEF MarkedDays, NewStreak
  <2> QED
    BY <1>1, <2>1, <2>2, <2>3, MarkedTables DEF MarkedIn
<1>11. [u \in UserIds |-> tables.users[u].balance] = [u \in UserIds |-> 0]
  BY <1>1, <1>5 DEF NoUser
<1>12. {u \in UserIds : Exists(u)} = {}
  BY <1>1, <1>6 DEF Known, Exists
<1> QED
  BY <1>1, <1>8, <1>9, <1>10, <1>11, <1>12 DEF Account!BookInit

LEMMA SerialBehavior == Spec /\ []Serial => [](Inv /\ SerialInv /\ Serial)
<1>1. Inv /\ SerialInv /\ Serial /\ Serial' /\ [Next]_vars => SerialInv'
  BY SerialStep DEF Kept
<1> QED
  BY <1>1, InvInit, InvStep, SerialInit, PTL DEF Spec

(* login_user: the seconds are the tokens, and the sessions of other users *)
(* keep theirs.  save_session refuses a token that is taken, so as long as *)
(* one request is served at a time, whatever fails and whenever the server *)
(* is killed, no session ever passes from one user to another.             *)
THEOREM TokensAreUnshared == Spec /\ []Serial => TokensUnshared
<1>1. Inv /\ SerialInv /\ Serial /\ Serial' /\ [Next]_vars
      => [\A t \in Seconds : durable.sessions[t] # NoRow =>
            durable'.sessions[t] \in {durable.sessions[t], NoRow}]_vars
  BY SerialStep DEF Kept, TokensKept
<1> QED
  BY <1>1, SerialBehavior, PTL DEF Spec, TokensUnshared

(* should_reset_quests and init_daily_quests: what a player has achieved   *)
(* in a quest is thrown away after a day at the earliest, while requests   *)
(* do not overlap and no statement fails.                                  *)
THEOREM QuestsLast == Spec /\ []Serial => QuestsLastADay
<1>1. Inv /\ SerialInv /\ Serial /\ Serial' /\ [Next]_vars
      => [mishaps' = 0 =>
            \A q \in QuestIds :
              durable.quests[q].user # NoRow /\ durable'.quests[q].user = NoRow
              => Hours[now] - Hours[durable.quests[q].started] >= 24]_vars
  BY SerialStep DEF Kept, QuestsKept
<1> QED
  BY <1>1, SerialBehavior, PTL DEF Spec, QuestsLastADay

(* claim_quest_reward, claim_achievement_reward and claim_daily_reward pay *)
(* what a reward is worth, once, and then mark it; a reward is paid again  *)
(* only after a mishap between the two.  For every number of users,        *)
(* quests, rewards, failed statements and kills, while requests do not     *)
(* overlap and localtime's buffer is not overwritten under mktime.         *)
THEOREM RewardsKeepTheBook ==
  ASSUME ~Clobbered
  PROVE  Spec /\ []Serial => BookKept
<1>1. Init => Account!BookInit
  BY SerialInit
<1>2. Inv /\ SerialInv /\ Serial /\ Serial' /\ [Next]_vars
      => [Account!Book]_(Account!book)
  BY SerialStep DEF Kept, BookStep
<1> QED
  BY <1>1, <1>2, SerialBehavior, PTL DEF Spec, BookKept, Account!BookSpec

-----------------------------------------------------------------------------
(* What registration and the daily reset leave behind.                     *)

HasSkin(t, u) == \E i \in ItemIds : t.owner[i] = u /\ <<u, i>> \in t.inventory
Given(t, u, k) ==
  {q \in QuestIds : t.quests[q].user = u /\ t.quests[q].type = k}

(* Of the quests of type k, u has been given one, and at most one is open. *)
Dealt(t, u, k) ==
  /\ Given(t, u, k) # {}
  /\ \A p, q \in Given(t, u, k) :
       ~t.quests[p].claimed /\ ~t.quests[q].claimed => p = q
NoneOpen(t, u, k) == \A q \in Given(t, u, k) : t.quests[q].claimed
Ready(t, u) == HasSkin(t, u) /\ \A k \in Types : Dealt(t, u, k)

(* The user who has no skin yet, and the one who is not ready yet, of a    *)
(* handler with the locals j, with l as the latest rowid.                  *)
Resetting == {"init_delete", "init_insert"}
Equipping == {"reg_id", "reg_item", "reg_item_id", "reg_give"} \cup Resetting
Bare(j, l) ==
  IF j.pc = "reg_id" THEN l ELSE IF j.pc = "reg_item" THEN j.user ELSE NoRow
Served(j, l) ==
  IF j.pc = "reg_id" THEN l ELSE IF j.pc \in Equipping THEN j.user ELSE NoRow

(* Users and skins are numbered alike, since each user is followed by a    *)
(* skin: this is why the last rowid is the skin that was just made.        *)
Numbered(t, bare) ==
  /\ \A u, v \in UserIds : Known(t, u) /\ v < u => Known(t, v)
  /\ \A u \in UserIds : t.owner[u] # NoRow <=> Known(t, u) /\ u # bare

Outfit(j, t, l) ==
  /\ Numbered(t, Bare(j, l))
  /\ \A u \in UserIds : Known(t, u) /\ u # Served(j, l) => Ready(t, u)
  /\ j.pc = "reg_item_id" => l = j.user /\ t.owner[j.user] = j.user
  /\ j.pc = "reg_give" => j.row = j.user /\ t.owner[j.user] = j.user
  /\ j.pc \in Resetting => HasSkin(t, j.user)
  /\ j.pc = "init_insert" =>
       \A k \in Types : /\ k < j.type => Dealt(t, j.user, k)
                        /\ k >= j.type => NoneOpen(t, j.user, k)

(* The inductive invariant, beside Inv and SerialInv. *)
EquipInv ==
  /\ durable.owner = tables.owner /\ durable.inventory = tables.inventory
  /\ mishaps = 0 /\ tables.lastQuest < MaxQuests =>
       \A w \in Workers : Alone(w) => Outfit(job[w], tables, lastRow)

(* Rows that are not about skins, or that only mark quests as claimed.     *)
SameOutfit(t, r) ==
  /\ \A u \in UserIds : Known(r, u) <=> Known(t, u)
  /\ r.owner = t.owner /\ r.inventory = t.inventory /\ r.lastQuest = t.lastQuest
  /\ \A q \in QuestIds : /\ r.quests[q].user = t.quests[q].user
                         /\ r.quests[q].type = t.quests[q].type
                         /\ t.quests[q].claimed => r.quests[q].claimed

LEMMA OutfitOfIdle ==
  ASSUME NEW i, NEW j, i.pc \notin Equipping, j.pc \notin Equipping,
         NEW t, NEW k, NEW l, Outfit(i, t, k)
  PROVE  Outfit(j, t, l)
BY DEF Outfit, Equipping, Resetting, Bare, Served

LEMMA OutfitStays ==
  ASSUME NEW t, NEW r, SameOutfit(t, r), NEW j, NEW l, Outfit(j, t, l)
  PROVE  Outfit(j, r, l)
<1>1. ASSUME NEW u
      PROVE  /\ HasSkin(t, u) => HasSkin(r, u)
             /\ \A k : /\ Given(r, u, k) = Given(t, u, k)
                       /\ Dealt(t, u, k) => Dealt(r, u, k)
                       /\ NoneOpen(t, u, k) => NoneOpen(r, u, k)
  <2>1. HasSkin(t, u) => HasSkin(r, u)
    BY DEF SameOutfit, HasSkin
  <2>2. \A k : Given(r, u, k) = Given(t, u, k) /\ Given(t, u, k) \subseteq QuestIds
    BY DEF SameOutfit, Given
  <2>3. ASSUME NEW k
        PROVE  /\ Dealt(t, u, k) => Dealt(r, u, k)
               /\ NoneOpen(t, u, k) => NoneOpen(r, u, k)
    BY <2>2 DEF SameOutfit, Dealt, NoneOpen
  <2> QED
    BY <2>1, <2>2, <2>3
<1>2. \A b : Numbered(t, b) => Numbered(r, b)
  BY DEF SameOutfit, Numbered
<1>3. \A u \in UserIds : Ready(t, u) => Ready(r, u)
  BY <1>1 DEF Ready
<1>4. r.owner = t.owner /\ \A u \in UserIds : Known(r, u) => Known(t, u)
  BY DEF SameOutfit
<1> QED
  BY <1>1, <1>2, <1>3, <1>4 DEF Outfit

LEMMA OutfitTold ==
  ASSUME NEW w, Turn(w), EquipInv, mishaps = 0, tables.lastQuest < MaxQuests
  PROVE  Outfit(job[w], tables, lastRow)
BY DEF Turn, EquipInv

(* The worker that is alone takes a step; the others stay idle. *)
LEMMA EquipStep ==
  ASSUME NEW w, Turn(w), NEW i, Become(w, i),
         durable'.owner = tables'.owner, durable'.inventory = tables'.inventory,
         mishaps' = 0 /\ tables'.lastQuest < MaxQuests => Outfit(i, tables', lastRow')
  PROVE  EquipInv'
<1>1. \A v \in Workers : job'[v] = IF v = w THEN i ELSE job[v]
  BY Becomes DEF Turn
<1>2. SUFFICES ASSUME mishaps' = 0, tables'.lastQuest < MaxQuests,
                      NEW v \in Workers, Alone(v)'
               PROVE  Outfit(job'[v], tables', lastRow')
  BY DEF EquipInv
<1>3. Outfit(i, tables', lastRow')
  BY <1>2
<1>4. CASE v = w
  BY <1>1, <1>3, <1>4 DEF Turn
<1>5. CASE v # w
  <2>1. w \in Workers \ {v} /\ v \in Workers \ {w} /\ w \in Workers
    BY <1>5 DEF Turn
  <2>2. job'[w].pc = "idle" /\ job[v].pc = "idle"
    BY <1>2, <2>1 DEF Alone, Turn
  <2>3. i.pc = "idle" /\ job'[v].pc = "idle"
    BY <1>1, <1>5, <2>1, <2>2
  <2> QED
    BY <1>3, <2>3, OutfitOfIdle DEF Equipping, Resetting
<1> QED
  BY <1>4, <1>5

(* Steps of the other requests. *)
LEMMA OtherRead ==
  ASSUME NEW w, Turn(w), EquipInv, job[w].pc \notin Equipping,
         UNCHANGED connection, mishaps' = mishaps \/ mishaps' = mishaps + 1,
         NEW i, i.pc \notin Equipping, Become(w, i)
  PROVE  EquipInv'
<1>1. UNCHANGED <<tables, durable, lastRow>>
  BY DEF connection
<1>2. mishaps \in Nat
  BY TurnFacts
<1>3. mishaps' = 0 => mishaps = 0
  BY <1>2
<1>4. mishaps' = 0 /\ tables'.lastQuest < MaxQuests => Outfit(i, tables', lastRow')
  BY <1>1, <1>3, OutfitTold, OutfitOfIdle
<1> QED
  BY <1>1, <1>4, EquipStep DEF EquipInv

LEMMA OtherStore ==
  ASSUME NEW w, Turn(w), EquipInv, job[w].pc \notin Equipping,
         NEW r, SameOutfit(tables, r), tables' = r, durable' \in {durable, tables, r},
         UNCHANGED mishaps, NEW i, i.pc \notin Equipping, Become(w, i)
  PROVE  EquipInv'
<1>1. durable'.owner = tables'.owner /\ durable'.inventory = tables'.inventory
  BY DEF EquipInv, SameOutfit
<1>2. mishaps' = 0 /\ tables'.lastQuest < MaxQuests => Outfit(i, tables', lastRow')
  BY OutfitTold, OutfitStays, OutfitOfIdle DEF SameOutfit
<1> QED
  BY <1>1, <1>2, EquipStep

LEMMA OtherWrite ==
  ASSUME NEW w, Turn(w), EquipInv, job[w].pc \notin Equipping,
         NEW r, SameOutfit(tables, r), NEW n, NEW next, NEW failed,
         \/ Write(w, r, n, next, failed) \/ WriteNew(w, r, n, next, failed)
         \/ Forbidden(w, failed),
         next.pc \notin Equipping, failed.pc \notin Equipping
  PROVE  EquipInv'
<1>1. CASE Store(r) /\ Become(w, next) /\ Smooth
  <2>1. tables' = r /\ durable' \in {durable, tables, r} /\ UNCHANGED mishaps
    BY <1>1 DEF Store, Smooth
  <2> QED
    BY <1>1, <2>1, OtherStore
<1>2. CASE Fail(w, failed)
  BY <1>2, OtherRead DEF Fail, Mishap
<1>3. CASE Forbidden(w, failed)
  BY <1>3, OtherRead DEF Forbidden, Smooth
<1> QED
  BY <1>1, <1>2, <1>3 DEF Write, WriteNew, Update, Insert

-----------------------------------------------------------------------------
(* Requests that are not about skins or the daily reset.                   *)

LEMMA OtherLabels ==
  /\ "idle" \notin Equipping
  /\ \A label \in {"reg_exists", "reg_save", "login_load", "login_session",
                   "login_row", "streak_load", "streak_save", "reset_check",
                   "logout"} \cup InsideTx \cup {"begin"} \cup ClaimLabels :
       label \notin Equipping
BY DEF Equipping, Resetting, InsideTx, ClaimLabels

LEMMA OtherRequest ==
  ASSUME NEW w, Turn(w), EquipInv, NEW kind, Request(w, kind),
         NEW i, i.pc \notin Equipping, Become(w, i)
  PROVE  EquipInv'
BY OtherRead, OtherLabels DEF Request

LEMMA RequestEquips ==
  ASSUME NEW w, Turn(w), EquipInv,
         \/ RegisterUser(w) \/ LoginUser(w) \/ LogoutUser(w)
         \/ UpdateQuestProgress(w) \/ UnlockAchievement(w) \/ ClaimQuestReward(w)
         \/ ClaimAchievementReward(w) \/ ClaimDailyReward(w)
  PROVE  EquipInv'
<1>1. ASSUME RegisterUser(w) \/ LoginUser(w) \/ LogoutUser(w)
      PROVE  \E kind, i : Request(w, kind) /\ i.pc \notin Equipping /\ Become(w, i)
  BY <1>1, OtherLabels DEF RegisterUser, LoginUser, LogoutUser, Idle
<1>2. ASSUME UpdateQuestProgress(w) \/ UnlockAchievement(w)
      PROVE  \E kind, i : Request(w, kind) /\ i.pc \notin Equipping /\ Become(w, i)
  BY <1>2, OtherLabels DEF UpdateQuestProgress, UnlockAchievement, Idle
<1>3. ASSUME ClaimQuestReward(w) \/ ClaimAchievementReward(w) \/ ClaimDailyReward(w)
      PROVE  \E kind, i : Request(w, kind) /\ i.pc \notin Equipping /\ Become(w, i)
  BY <1>3, OtherLabels DEF ClaimQuestReward, ClaimAchievementReward, ClaimDailyReward,
                           Idle, ClaimLabels
<1> QED
  BY <1>1, <1>2, <1>3, OtherRequest

LEMMA ReadEquips ==
  ASSUME NEW w, Turn(w), EquipInv,
         \/ UserExists(w) \/ LoadUserByName(w) \/ LoadStreak(w)
         \/ LoadInTransaction(w) \/ LoadClaim(w) \/ ClaimLoadUser(w)
         \/ VerifyBalance(w)
  PROVE  EquipInv'
<1> DEFINE j == job[w]
<1>1. Fields(j) /\ \A label : At(j, label).pc = label
  <2>1. Fields(j)
    BY TurnFacts
  <2> QED
    BY <2>1, AtLocals
<1>2. Idle.pc \notin Equipping
  BY OtherLabels DEF Idle
<1>3. ASSUME j.pc \notin Equipping, NEW i, i.pc \notin Equipping, Read(w, i)
      PROVE  EquipInv'
  BY <1>3, OtherRead DEF Read, Smooth
<1>4. CASE UserExists(w)
  <2>1. j.pc \notin Equipping /\ (Read(w, Idle) \/ Read(w, At(j, "reg_save")))
    BY <1>4, OtherLabels DEF UserExists, Running
  <2> QED
    BY <1>1, <1>2, <1>3, <2>1, OtherLabels
<1>5. CASE LoadUserByName(w)
  <2>1. \E i : i.pc \notin Equipping /\ Read(w, i)
    <3>1. CASE Read(w, Idle)
      BY <1>2, <3>1
    <3>2. ASSUME NEW u \in UserIds,
                 Read(w, [j EXCEPT !.pc = "login_session", !.user = u,
                                   !.balance = tables.users[u].balance])
          PROVE  \E i : i.pc \notin Equipping /\ Read(w, i)
      <4>1. [j EXCEPT !.pc = "login_session", !.user = u,
                      !.balance = tables.users[u].balance].pc = "login_session"
        BY <1>1 DEF Fields
      <4> QED
        BY <3>2, <4>1, OtherLabels
    <3> QED
      BY <1>5, <3>1, <3>2 DEF LoadUserByName
  <2> QED
    BY <1>3, <1>5, <2>1, OtherLabels DEF LoadUserByName, Running
<1>6. CASE LoadStreak(w)
  <2>1. [j EXCEPT !.pc = "streak_save", !.streak = tables.streaks[j.user]].pc
          = "streak_save"
    BY <1>1 DEF Fields
  <2> QED
    BY <1>3, <1>6, <2>1, OtherLabels DEF LoadStreak, Running
<1>7. CASE LoadInTransaction(w)
  <2>1. CASE Read(w, At(j, "rollback")) \/ Read(w, At(j, "write"))
    <3>1. {"rollback", "write"} \subseteq InsideTx /\ j.pc = "load" /\ "load" \in InsideTx
      BY <1>7 DEF LoadInTransaction, Running, InsideTx
    <3> QED
      BY <1>1, <1>3, <2>1, <3>1, OtherLabels
  <2>2. ASSUME NEW q,
               Read(w, [j EXCEPT !.pc = "write", !.row = q,
                                 !.progress = tables.quests[q].progress + 1])
        PROVE  EquipInv'
    <3>1. [j EXCEPT !.pc = "write", !.row = q,
                    !.progress = tables.quests[q].progress + 1].pc = "write"
      BY <1>1 DEF Fields
    <3>2. "write" \in InsideTx /\ j.pc = "load" /\ "load" \in InsideTx
      BY <1>7 DEF LoadInTransaction, Running, InsideTx
    <3> QED
      BY <1>3, <2>2, <3>1, <3>2, OtherLabels
  <2> QED
    BY <1>7, <2>1, <2>2 DEF LoadInTransaction
<1>8. CASE LoadClaim(w)
  <2>1. j.pc = "claim_load" /\ j.kind \in {"quest", "achievement", "daily"}
    <3>1. Sound(j)
      BY TurnFacts
    <3>2. j.pc = "claim_load"
      BY <1>8 DEF LoadClaim, Running
    <3> QED
      BY <3>1, <3>2 DEF Sound, ClaimLabels
  <2>2. j.pc \notin Equipping /\ "claim_user" \notin Equipping
    BY <2>1, OtherLabels DEF ClaimLabels
  <2>3. ASSUME NEW k, NEW m, NEW n,
               \/ Read(w, [j EXCEPT !.pc = "claim_user", !.type = k, !.progress = m,
                                    !.reward = n])
               \/ Read(w, [j EXCEPT !.pc = "claim_user", !.reward = n])
               \/ Read(w, [j EXCEPT !.pc = "claim_user", !.reward = n, !.streak = m])
        PROVE  EquipInv'
    <3>1. /\ [j EXCEPT !.pc = "claim_user", !.type = k, !.progress = m,
                       !.reward = n].pc = "claim_user"
          /\ [j EXCEPT !.pc = "claim_user", !.reward = n].pc = "claim_user"
          /\ [j EXCEPT !.pc = "claim_user", !.reward = n, !.streak = m].pc = "claim_user"
      BY <1>1 DEF Fields
    <3> QED
      BY <1>3, <2>2, <2>3, <3>1
  <2>4. Read(w, Idle) => EquipInv'
    BY <1>2, <1>3, <2>2
  <2>5. LoadQuest(w) => EquipInv'
    BY <2>3, <2>4 DEF LoadQuest
  <2>6. LoadAchievement(w) => EquipInv'
    BY <2>3, <2>4 DEF LoadAchievement
  <2>7. LoadDaily(w) => EquipInv'
    BY <2>3, <2>4 DEF LoadDaily
  <2> QED
    BY <1>8, <2>1, <2>5, <2>6, <2>7 DEF LoadClaim
<1>9. CASE ClaimLoadUser(w)
  <2> DEFINE i == [j EXCEPT !.pc = "claim_pay",
                            !.balance = tables.users[j.user].balance + j.reward]
  <2>1. i.pc = "claim_pay"
    BY <1>1 DEF Fields
  <2>2. j.pc \notin Equipping /\ "claim_pay" \notin Equipping
    BY <1>9, OtherLabels DEF ClaimLoadUser, Running, ClaimLabels
  <2>3. Read(w, Idle) \/ Read(w, i)
    BY <1>9 DEF ClaimLoadUser
  <2> QED
    BY <1>2, <1>3, <2>1, <2>2, <2>3
<1>10. CASE VerifyBalance(w)
  <2>1. j.pc \notin Equipping /\ "claim_mark" \notin Equipping
    BY <1>10, OtherLabels DEF VerifyBalance, Running, ClaimLabels
  <2> QED
    BY <1>1, <1>2, <1>3, <1>10, <2>1 DEF VerifyBalance
<1> QED
  BY <1>4, <1>5, <1>6, <1>7, <1>8, <1>9, <1>10

LEMMA OtherRows ==
  ASSUME NEW t \in Tables
  PROVE  /\ SameOutfit(t, t)
         /\ \A u \in UserIds : \A b : SameOutfit(t, [t EXCEPT !.users[u].balance = b])
         /\ \A s, x : SameOutfit(t, [t EXCEPT !.sessions[s] = x])
         /\ \A u, x : SameOutfit(t, [t EXCEPT !.streaks[u] = x])
         /\ \A u, a, x : SameOutfit(t, [t EXCEPT !.achievements[u][a] = x])
<1>1. ASSUME NEW r, r.users = t.users, r.owner = t.owner, r.inventory = t.inventory,
             r.quests = t.quests, r.lastQuest = t.lastQuest
      PROVE  SameOutfit(t, r)
  BY <1>1 DEF SameOutfit, Known
<1>2. ASSUME NEW u \in UserIds, NEW b
      PROVE  SameOutfit(t, [t EXCEPT !.users[u].balance = b])
  <2> DEFINE x == [t.users[u] EXCEPT !.balance = b]
             r == [t EXCEPT !.users = [t.users EXCEPT ![u] = x]]
  <2>1. x.name = t.users[u].name
    BY DEF Tables, User
  <2>2. /\ r.users = [t.users EXCEPT ![u] = x] /\ r.owner = t.owner
        /\ r.inventory = t.inventory /\ r.quests = t.quests /\ r.lastQuest = t.lastQuest
    BY DEF Tables
  <2> HIDE DEF x, r
  <2>3. \A v \in UserIds : r.users[v].name = t.users[v].name
    BY <2>1, <2>2 DEF Tables
  <2>4. SameOutfit(t, r)
    BY <2>2, <2>3 DEF SameOutfit, Known
  <2> QED
    BY <2>4 DEF r, x
<1>3. \A s, x : SameOutfit(t, [t EXCEPT !.sessions[s] = x])
  BY <1>1 DEF Tables
<1>4. \A u, x : SameOutfit(t, [t EXCEPT !.streaks[u] = x])
  BY <1>1 DEF Tables
<1>5. \A u, a, x : SameOutfit(t, [t EXCEPT !.achievements[u][a] = x])
  BY <1>1 DEF Tables
<1> QED
  BY <1>1, <1>2, <1>3, <1>4, <1>5

LEMMA AlikeOutfit ==
  ASSUME NEW t, NEW r, Alike(t, r), r.owner = t.owner, r.inventory = t.inventory
  PROVE  SameOutfit(t, r)
BY DEF Alike, SameOutfit, Known

LEMMA LoginWriteEquips ==
  ASSUME NEW w, Turn(w), EquipInv,
         StoreLastLogin(w) \/ SaveSession(w) \/ SaveStreak(w) \/ DeleteSession(w)
  PROVE  EquipInv'
<1> DEFINE j == job[w]
<1>1. /\ Fields(j) /\ Stage(j, tables, now, lastRow, mishaps) /\ tables \in Tables
      /\ \A label : At(j, label).pc = label
  <2>1. Fields(j) /\ Stage(j, tables, now, lastRow, mishaps) /\ tables \in Tables
    BY TurnFacts
  <2> QED
    BY <2>1, AtLocals
<1>2. Idle.pc \notin Equipping
  BY OtherLabels DEF Idle
<1>3. CASE StoreLastLogin(w)
  <2> DEFINE next == At(j, "streak_load")
  <2>1. j.pc = "login_row" /\ UpdateUser(w, j.user, j.balance, next, next)
    BY <1>3 DEF StoreLastLogin, Running
  <2>2. j.pc \notin Equipping /\ next.pc \notin Equipping
    BY <1>1, <2>1, OtherLabels
  <2>3. j.user \in UserIds
    BY <1>1, <2>1 DEF Stage, OfUser, Known
  <2> HIDE DEF next
  <2> QED
    BY <1>1, <2>1, <2>2, <2>3, OtherRows, OtherWrite DEF UpdateUser
<1>4. CASE SaveSession(w)
  <2> DEFINE next == At(j, "login_row")
             r == [tables EXCEPT !.sessions[now] = j.user]
  <2>1. /\ j.pc = "login_session"
        /\ WriteNew(w, r, OtherRow, next, Idle) \/ Forbidden(w, Idle)
    BY <1>4 DEF SaveSession, Running, WriteFor
  <2>2. j.pc \notin Equipping /\ next.pc \notin Equipping
    BY <1>1, <2>1, OtherLabels
  <2>3. SameOutfit(tables, r)
    BY <1>1, OtherRows
  <2> HIDE DEF next, r
  <2> QED
    BY <1>2, <2>1, <2>2, <2>3, OtherWrite
<1>5. CASE SaveStreak(w)
  <2> DEFINE next == At(j, "reset_check")
  <2>1. PICK x : LET r == [tables EXCEPT !.streaks[j.user] = x] IN
                 WriteNew(w, r, j.user, next, next) \/ Forbidden(w, next)
    BY <1>5 DEF SaveStreak, WriteFor
  <2> DEFINE r == [tables EXCEPT !.streaks[j.user] = x]
  <2>2. j.pc \notin Equipping /\ next.pc \notin Equipping
    BY <1>1, <1>5, OtherLabels DEF SaveStreak, Running
  <2>3. SameOutfit(tables, r)
    BY <1>1, OtherRows
  <2>4. WriteNew(w, r, j.user, next, next) \/ Forbidden(w, next)
    BY <2>1
  <2> HIDE DEF next, r
  <2> QED
    BY <2>2, <2>3, <2>4, OtherWrite
<1>6. CASE DeleteSession(w)
  <2> DEFINE r == [tables EXCEPT !.sessions[j.row] = NoRow]
  <2>1. j.pc = "logout" /\ \E n : Write(w, r, n, Idle, Idle)
    BY <1>6 DEF DeleteSession, Running
  <2>2. SameOutfit(tables, r) /\ j.pc \notin Equipping
    BY <1>1, <2>1, OtherRows, OtherLabels
  <2> HIDE DEF r
  <2> QED
    BY <1>2, <2>1, <2>2, OtherWrite
<1> QED
  BY <1>3, <1>4, <1>5, <1>6

LEMMA TransactionEquips ==
  ASSUME NEW w, Turn(w), EquipInv,
         \/ BeginTransaction(w) \/ WriteInTransaction(w)
         \/ CommitTransaction(w) \/ RollbackTransaction(w)
  PROVE  EquipInv'
<1> DEFINE j == job[w]
<1>1. /\ Fields(j) /\ Stage(j, tables, now, lastRow, mishaps) /\ tables \in Tables
      /\ \A label : At(j, label).pc = label
  <2>1. Fields(j) /\ Stage(j, tables, now, lastRow, mishaps) /\ tables \in Tables
    BY TurnFacts
  <2> QED
    BY <2>1, AtLocals
<1>2. /\ Idle.pc \notin Equipping /\ j.pc \notin Equipping
      /\ \A label \in InsideTx : At(j, label).pc \notin Equipping
  <2>1. j.pc \in {"begin"} \cup InsideTx
    BY DEF BeginTransaction, WriteInTransaction, CommitTransaction,
           RollbackTransaction, Running, InsideTx
  <2> QED
    BY <1>1, <2>1, OtherLabels DEF Idle
<1>3. SameOutfit(tables, tables) /\ SameOutfit(tables, durable)
  <2>1. Alike(tables, durable)
    BY DEF Turn, SerialInv
  <2> QED
    BY <1>1, <2>1, OtherRows, AlikeOutfit DEF EquipInv
<1>4. CASE BeginTransaction(w)
  <2>1. CASE Begin /\ Become(w, At(j, "load")) /\ Smooth
    <3>1. UNCHANGED <<tables, durable, mishaps>> /\ "load" \in InsideTx
      BY <2>1 DEF Begin, Smooth, InsideTx
    <3> QED
      BY <1>2, <1>3, <2>1, <3>1, OtherStore
  <2>2. CASE BeginRefused /\ Become(w, Idle) /\ (Smooth \/ Mishap)
    BY <1>2, <2>2, OtherRead DEF BeginRefused, Smooth, Mishap
  <2> QED
    BY <1>4, <2>1, <2>2 DEF BeginTransaction
<1>5. CASE WriteInTransaction(w)
  <2> DEFINE next == At(j, "commit")
             failed == At(j, "rollback")
  <2>1. next.pc \notin Equipping /\ failed.pc \notin Equipping
    BY <1>2 DEF InsideTx
  <2>2. j.kind # "unlock" => j.row \in OpenQuests(tables, j.user) /\ j.progress \in Nat
    BY <1>1, <1>5 DEF WriteInTransaction, Running, Stage
  <2>3. CASE j.kind = "unlock"
    <3> DEFINE r == [tables EXCEPT !.achievements[j.user][j.type] = "unlocked"]
    <3>1. WriteNew(w, r, OtherRow, next, failed) \/ Forbidden(w, failed)
      BY <1>5, <2>3 DEF WriteInTransaction, WriteFor
    <3>2. SameOutfit(tables, r)
      BY <1>1, OtherRows
    <3> HIDE DEF r, next, failed
    <3> QED
      BY <1>2, <2>1, <3>1, <3>2, OtherWrite
  <2>4. CASE j.kind # "unlock"
    <3> DEFINE r == [tables EXCEPT !.quests[j.row].progress = j.progress,
                                   !.quests[j.row].claimed = FALSE]
    <3>1. Write(w, r, 1, next, failed) \/ Write(w, tables, 0, next, failed)
      BY <1>5, <2>4 DEF WriteInTransaction
    <3>2. Alike(tables, r) /\ r.owner = tables.owner /\ r.inventory = tables.inventory
      BY <1>1, <2>2, <2>4, ProgressedRow DEF Tables
    <3>3. SameOutfit(tables, r)
      BY <3>2, AlikeOutfit
    <3> HIDE DEF r, next, failed
    <3> QED
      BY <1>2, <1>3, <2>1, <3>1, <3>3, OtherWrite
  <2> QED
    BY <2>3, <2>4
<1>6. CASE CommitTransaction(w)
  <2>1. CASE Commit /\ Become(w, Idle) /\ Smooth
    <3>1. UNCHANGED <<tables, mishaps>> /\ durable' = tables
      BY <2>1 DEF Commit, Smooth
    <3> QED
      BY <1>2, <1>3, <2>1, <3>1, OtherStore
  <2>2. CASE CommitRefused /\ Become(w, At(j, "rollback")) /\ (Smooth \/ Mishap)
    <3>1. "rollback" \in InsideTx
      BY DEF InsideTx
    <3> QED
      BY <1>2, <2>2, <3>1, OtherRead DEF CommitRefused, Smooth, Mishap
  <2> QED
    BY <1>6, <2>1, <2>2 DEF CommitTransaction
<1>7. CASE RollbackTransaction(w)
  <2>1. /\ tables' \in {tables, durable} /\ UNCHANGED <<durable, mishaps>>
        /\ Become(w, Idle)
    BY <1>7 DEF RollbackTransaction, Rollback, Smooth
  <2> QED
    BY <1>2, <1>3, <2>1, OtherStore
<1> QED
  BY <1>4, <1>5, <1>6, <1>7

LEMMA ClaimWriteEquips ==
  ASSUME NEW w, Turn(w), EquipInv, PayReward(w) \/ MarkClaimed(w)
  PROVE  EquipInv'
<1> DEFINE j == job[w]
<1>1. /\ Sound(j) /\ Fields(j) /\ Stage(j, tables, now, lastRow, mishaps)
      /\ tables \in Tables /\ \A label : At(j, label).pc = label
  <2>1. /\ Sound(j) /\ Fields(j) /\ Stage(j, tables, now, lastRow, mishaps)
        /\ tables \in Tables
    BY TurnFacts
  <2> QED
    BY <2>1, AtLocals
<1>2. /\ Idle.pc \notin Equipping /\ j.pc \notin Equipping
      /\ \A label \in ClaimLabels : At(j, label).pc \notin Equipping
  <2>1. j.pc \in ClaimLabels
    BY DEF PayReward, MarkClaimed, Running, ClaimLabels
  <2> QED
    BY <1>1, <2>1, OtherLabels DEF Idle
<1>3. SameOutfit(tables, tables)
  BY <1>1, OtherRows
<1>4. CASE PayReward(w)
  <2> DEFINE next == At(j, IF j.kind = "quest" THEN "claim_verify" ELSE "claim_mark")
             r == [tables EXCEPT !.users[j.user].balance = j.balance]
  <2>1. next.pc \notin Equipping
    BY <1>2 DEF ClaimLabels
  <2>2. j.user \in UserIds
    BY <1>1, <1>4 DEF PayReward, Running, Stage, ClaimLabels
  <2>3. SameOutfit(tables, r)
    BY <1>1, <2>2, OtherRows
  <2>4. Write(w, r, 1, next, Idle) \/ Write(w, tables, 0, next, Idle)
    BY <1>4 DEF PayReward, UpdateUser
  <2> HIDE DEF r, next
  <2> QED
    BY <1>2, <1>3, <2>1, <2>3, <2>4, OtherWrite
<1>5. CASE MarkClaimed(w)
  <2>1. j.pc = "claim_mark" /\ j.kind \in {"quest", "achievement", "daily"}
    BY <1>1, <1>5 DEF MarkClaimed, Running, Sound, ClaimLabels
  <2>2. ASSUME j.kind = "quest", MarkQuest(w)
        PROVE  EquipInv'
    <3> DEFINE r == [tables EXCEPT !.quests[j.row].progress = j.progress,
                                   !.quests[j.row].claimed = TRUE]
    <3>1. j.row \in QuestIds /\ j.progress \in Nat
      BY <1>1, <2>1, <2>2 DEF Stage, Found, FoundQuest, OpenQuests
    <3>2. Write(w, r, 1, Idle, Idle) \/ Write(w, tables, 0, Idle, Idle)
      BY <2>2 DEF MarkQuest
    <3>3. SameOutfit(tables, r)
      <4>1. QuestMarked(tables, r, j.row)
        BY <1>1, <3>1, QuestMarks
      <4>2. r.owner = tables.owner /\ r.inventory = tables.inventory
        BY <1>1 DEF Tables
      <4> HIDE DEF r
      <4> QED
        BY <4>1, <4>2 DEF QuestMarked, SameOutfit, Known
    <3> HIDE DEF r
    <3> QED
      BY <1>2, <1>3, <3>2, <3>3, OtherWrite
  <2>3. ASSUME j.kind = "achievement", MarkAchievement(w)
        PROVE  EquipInv'
    <3> DEFINE r == [tables EXCEPT !.achievements[j.user][j.type] = "claimed"]
    <3>1. SameOutfit(tables, r)
      BY <1>1, OtherRows
    <3>2. Write(w, r, 1, Idle, Idle) \/ Write(w, tables, 0, Idle, Idle)
      BY <2>3 DEF MarkAchievement
    <3> HIDE DEF r
    <3> QED
      BY <1>2, <1>3, <3>1, <3>2, OtherWrite
  <2>4. ASSUME j.kind = "daily", MarkDaily(w)
        PROVE  EquipInv'
    <3> DEFINE r == [tables EXCEPT !.streaks[j.user] = j.streak]
    <3>1. SameOutfit(tables, r)
      BY <1>1, OtherRows
    <3>2. WriteNew(w, r, j.user, Idle, Idle) \/ Forbidden(w, Idle)
      BY <2>4 DEF MarkDaily, WriteFor
    <3> HIDE DEF r
    <3> QED
      BY <1>2, <3>1, <3>2, OtherWrite
  <2> QED
    BY <1>5, <2>1, <2>2, <2>3, <2>4 DEF MarkClaimed
<1> QED
  BY <1>4, <1>5

-----------------------------------------------------------------------------
(* Registration and the daily reset.                                       *)

(* Rows that leave the skins and the quests of u alone. *)
Untouched(t, r, u) ==
  /\ \A i \in ItemIds : t.owner[i] = u => r.owner[i] = u
  /\ t.inventory \subseteq r.inventory
  /\ \A q \in QuestIds : /\ r.quests[q].user = u <=> t.quests[q].user = u
                         /\ t.quests[q].user = u => r.quests[q] = t.quests[q]

LEMMA UntouchedReady ==
  ASSUME NEW t, NEW r, NEW u, Untouched(t, r, u)
  PROVE  /\ HasSkin(t, u) => HasSkin(r, u)
         /\ Ready(t, u) => Ready(r, u)
<1>1. HasSkin(t, u) => HasSkin(r, u)
  BY DEF Untouched, HasSkin
<1>2. ASSUME NEW k
      PROVE  Dealt(t, u, k) => Dealt(r, u, k)
  <2>1. Given(r, u, k) = Given(t, u, k)
    BY DEF Untouched, Given
  <2>2. \A q \in Given(t, u, k) : r.quests[q] = t.quests[q]
    BY DEF Untouched, Given
  <2> QED
    BY <2>1, <2>2 DEF Dealt
<1> QED
  BY <1>1, <1>2 DEF Ready

LEMMA EquipFail ==
  ASSUME NEW w, Turn(w), EquipInv, NEW i, Become(w, i), UNCHANGED connection,
         mishaps' = mishaps + 1
  PROVE  EquipInv'
<1>1. mishaps' # 0
  BY TurnFacts
<1>2. UNCHANGED <<tables, durable>>
  BY DEF connection
<1> QED
  BY <1>1, <1>2, EquipStep DEF EquipInv

LEMMA EquipRead ==
  ASSUME NEW w, Turn(w), EquipInv, NEW i, Read(w, i) \/ Forbidden(w, i),
         mishaps = 0 /\ tables.lastQuest < MaxQuests => Outfit(i, tables, lastRow)
  PROVE  EquipInv'
<1>1. UNCHANGED <<tables, durable, lastRow, mishaps>> /\ Become(w, i)
  BY DEF Read, Forbidden, Smooth, connection
<1> QED
  BY <1>1, EquipStep DEF EquipInv

LEMMA EquipWrite ==
  ASSUME NEW w, Turn(w), EquipInv, ~inTx, NEW r, NEW l, NEW next, NEW failed,
         WriteNew(w, r, l, next, failed),
         mishaps = 0 /\ r.lastQuest < MaxQuests => Outfit(next, r, l)
  PROVE  EquipInv'
<1>1. CASE Insert(r, l) /\ Become(w, next) /\ Smooth
  <2>1. tables' = r /\ durable' = r /\ lastRow' = l /\ UNCHANGED mishaps
    BY <1>1 DEF Insert, Store, Smooth
  <2> QED
    BY <1>1, <2>1, EquipStep
<1>2. CASE Fail(w, failed)
  BY <1>2, EquipFail DEF Fail, Mishap
<1> QED
  BY <1>1, <1>2 DEF WriteNew

LEMMA ResetCheckEquips ==
  ASSUME NEW w, Turn(w), EquipInv, ResetCheck(w)
  PROVE  EquipInv'
<1> DEFINE j == job[w]
           i == At(j, "init_delete")
<1>1. Fields(j) /\ Stage(j, tables, now, lastRow, mishaps)
  BY TurnFacts
<1>2. j.pc = "reset_check"
  BY DEF ResetCheck, Running
<1>3. j.pc \notin Equipping /\ Idle.pc \notin Equipping
  BY <1>2, OtherLabels DEF Idle
<1>4. i.pc = "init_delete" /\ i.user = j.user
  BY <1>1, AtLocals
<1>5. Known(tables, j.user) /\ j.user \in UserIds /\ j.user # NoRow
  BY <1>1, <1>2 DEF Stage, OfUser, Known, UserIds, NoRow
<1>6. CASE Read(w, i)
  <2>1. ASSUME mishaps = 0, tables.lastQuest < MaxQuests
        PROVE  Outfit(i, tables, lastRow)
    <3>1. Outfit(j, tables, lastRow)
      BY <2>1, OutfitTold
    <3>2. Bare(j, lastRow) = NoRow /\ Bare(i, lastRow) = NoRow
      BY <1>2, <1>4 DEF Bare
    <3>3. Served(j, lastRow) = NoRow /\ Served(i, lastRow) = j.user
      BY <1>2, <1>4 DEF Served, Equipping, Resetting
    <3>4. Ready(tables, j.user)
      BY <1>5, <3>1, <3>3 DEF Outfit
    <3>5. \A u \in UserIds : Known(tables, u) => Ready(tables, u)
      BY <3>1, <3>3 DEF Outfit, UserIds, NoRow
    <3> HIDE DEF i
    <3> QED
      BY <1>4, <3>1, <3>2, <3>3, <3>4, <3>5 DEF Outfit, Ready
  <2> QED
    BY <1>6, <2>1, EquipRead
<1>7. CASE Read(w, Idle)
  <2>1. UNCHANGED connection /\ UNCHANGED mishaps /\ Become(w, Idle)
    BY <1>7 DEF Read, Smooth
  <2> QED
    BY <1>3, <2>1, OtherRead
<1> QED
  BY <1>6, <1>7 DEF ResetCheck

LEMMA SaveUserEquips ==
  ASSUME NEW w, Turn(w), EquipInv, SaveUser(w)
  PROVE  EquipInv'
<1> DEFINE j == job[w]
           i == At(j, "reg_id")
           x == [name |-> j.name, balance |-> STARTING_BALANCE]
<1>1. /\ Fields(j) /\ Stage(j, tables, now, lastRow, mishaps)
      /\ tables \in Tables /\ (j.pc \notin InsideTx => ~inTx)
  BY TurnFacts
<1>2. j.pc = "reg_save"
  BY DEF SaveUser, Running
<1>3. i.pc = "reg_id" /\ ~inTx
  BY <1>1, <1>2, AtLocals DEF InsideTx
<1>4. x.name # NoName /\ x.name = j.name
  BY <1>1, <1>2, AccountsAssumption DEF Stage
<1>5. CASE Forbidden(w, Idle)
  <2>1. j.pc \notin Equipping /\ Idle.pc \notin Equipping
    BY <1>2, OtherLabels DEF Idle
  <2> QED
    BY <1>5, <2>1, OtherRead DEF Forbidden, Smooth
<1>6. ASSUME NEW u \in NextUser,
             WriteNew(w, [tables EXCEPT !.users[u] = x], u, i, Idle)
      PROVE  EquipInv'
  <2> DEFINE r == [tables EXCEPT !.users[u] = x]
  <2>1. /\ u \in UserIds /\ ~Known(tables, u) /\ u # NoRow
        /\ \A v \in UserIds : v < u => Known(tables, v)
    BY DEF NextUser, Exists, Known, UserIds, NoRow
  <2>2. /\ r.users = [tables.users EXCEPT ![u] = x] /\ r.quests = tables.quests
        /\ r.owner = tables.owner /\ r.inventory = tables.inventory
        /\ r.lastQuest = tables.lastQuest
    BY <1>1 DEF Tables
  <2>w. WriteNew(w, r, u, i, Idle)
    BY <1>6
  <2> HIDE DEF r, x, i
  <2>3. \A v \in UserIds : Known(r, v) <=> v = u \/ Known(tables, v)
    BY <1>1, <1>4, <2>1, <2>2 DEF Known, Tables
  <2>4. ASSUME mishaps = 0, r.lastQuest < MaxQuests
        PROVE  Outfit(i, r, u)
    <3>1. Outfit(j, tables, lastRow)
      BY <2>2, <2>4, OutfitTold
    <3>2. Bare(j, lastRow) = NoRow /\ Bare(i, u) = u
      BY <1>2, <1>3 DEF Bare
    <3>3. Served(j, lastRow) = NoRow /\ Served(i, u) = u
      BY <1>2, <1>3 DEF Served, Equipping, Resetting
    <3>4. Numbered(r, u)
      <4>1. Numbered(tables, NoRow)
        BY <3>1, <3>2 DEF Outfit
      <4>2. \A a, v \in UserIds : Known(r, a) /\ v < a => Known(r, v)
        BY <2>1, <2>3, <4>1 DEF Numbered
      <4>3. \A a \in UserIds : r.owner[a] # NoRow <=> Known(r, a) /\ a # u
        BY <2>1, <2>2, <2>3, <4>1 DEF Numbered, UserIds, NoRow
      <4> QED
        BY <4>2, <4>3 DEF Numbered
    <3>5. ASSUME NEW v \in UserIds, Known(r, v), v # u
          PROVE  Ready(r, v)
      <4>1. Ready(tables, v)
        BY <2>3, <3>1, <3>3, <3>5 DEF Outfit, UserIds, NoRow
      <4>2. Untouched(tables, r, v)
        BY <2>2 DEF Untouched
      <4> QED
        BY <4>1, <4>2, UntouchedReady
    <3> QED
      BY <1>3, <3>2, <3>3, <3>4, <3>5 DEF Outfit, Resetting
  <2> QED
    BY <1>3, <2>w, <2>4, EquipWrite
<1> QED
  BY <1>5, <1>6 DEF SaveUser

LEMMA TakeUserIdEquips ==
  ASSUME NEW w, Turn(w), EquipInv, TakeUserId(w)
  PROVE  EquipInv'
<1> DEFINE j == job[w]
           i == [j EXCEPT !.pc = "reg_item", !.user = lastRow]
<1>1. Fields(j)
  BY TurnFacts
<1>2. j.pc = "reg_id" /\ Read(w, i)
  BY DEF TakeUserId, Running
<1>3. i.pc = "reg_item" /\ i.user = lastRow
  BY <1>1 DEF Fields
<1> HIDE DEF i
<1>4. Bare(i, lastRow) = Bare(j, lastRow) /\ Served(i, lastRow) = Served(j, lastRow)
  BY <1>2, <1>3 DEF Bare, Served, Equipping
<1>5. Outfit(j, tables, lastRow) => Outfit(i, tables, lastRow)
  BY <1>3, <1>4 DEF Outfit, Resetting
<1> QED
  BY <1>2, <1>5, OutfitTold, EquipRead

(* The number of the new skin is that of the new user. *)
LEMMA NewSkin ==
  ASSUME NEW u \in UserIds, Known(tables, u), Numbered(tables, u), tables \in Tables
  PROVE  NextItem = {u}
<1>1. /\ \A a, v \in UserIds : Known(tables, a) /\ v < a => Known(tables, v)
      /\ \A v \in UserIds : tables.owner[v] # NoRow <=> Known(tables, v) /\ v # u
  BY DEF Numbered
<1>2. u \in NextItem
  BY <1>1 DEF NextItem, ItemIds, UserIds
<1>3. ASSUME NEW i \in NextItem
      PROVE  i = u
  <2>1. /\ i \in UserIds /\ tables.owner[i] = NoRow
        /\ \A k \in UserIds : k < i => tables.owner[k] # NoRow
    BY DEF NextItem, ItemIds, UserIds
  <2>2. ~(u < i)
    BY <1>1, <2>1
  <2>3. ~(i < u)
    BY <1>1, <2>1 DEF UserIds
  <2> QED
    BY <2>1, <2>2, <2>3 DEF UserIds
<1> QED
  BY <1>2, <1>3

LEMMA CreateStarterSkinEquips ==
  ASSUME NEW w, Turn(w), EquipInv, CreateStarterSkin(w)
  PROVE  EquipInv'
<1> DEFINE j == job[w]
           next == At(j, "reg_item_id")
           failed == At(j, "init_delete")
<1>1. /\ Fields(j) /\ Stage(j, tables, now, lastRow, mishaps)
      /\ tables \in Tables /\ (j.pc \notin InsideTx => ~inTx)
  BY TurnFacts
<1>2. j.pc = "reg_item" /\ ~inTx
  BY <1>1 DEF CreateStarterSkin, Running, InsideTx
<1>3. Known(tables, j.user) /\ j.user \in UserIds /\ j.user # NoRow
  BY <1>1, <1>2 DEF Stage, New, Known, UserIds, NoRow
<1>4. next.pc = "reg_item_id" /\ next.user = j.user
  BY <1>1, AtLocals
<1>5. ASSUME mishaps = 0, tables.lastQuest < MaxQuests
      PROVE  Outfit(j, tables, lastRow) /\ NextItem = {j.user}
  <2>1. Outfit(j, tables, lastRow)
    BY <1>5, OutfitTold
  <2>2. Numbered(tables, j.user)
    BY <1>2, <2>1 DEF Outfit, Bare
  <2> QED
    BY <1>1, <1>3, <2>1, <2>2, NewSkin
<1>6. CASE NextItem = {} /\ Forbidden(w, failed)
  <2>1. ~(mishaps = 0 /\ tables.lastQuest < MaxQuests)
    BY <1>5, <1>6
  <2> HIDE DEF failed
  <2> QED
    BY <1>6, <2>1, EquipRead
<1>7. ASSUME NEW k \in NextItem,
             WriteNew(w, [tables EXCEPT !.owner[k] = j.user], k, next, failed)
      PROVE  EquipInv'
  <2> DEFINE r == [tables EXCEPT !.owner[k] = j.user]
  <2>1. /\ r.users = tables.users /\ r.quests = tables.quests
        /\ r.owner = [tables.owner EXCEPT ![k] = j.user]
        /\ r.inventory = tables.inventory /\ r.lastQuest = tables.lastQuest
    BY <1>1 DEF Tables
  <2>w. WriteNew(w, r, k, next, failed)
    BY <1>7
  <2> HIDE DEF r, next, failed
  <2>2. ASSUME mishaps = 0, r.lastQuest < MaxQuests
        PROVE  Outfit(next, r, k)
    <3>1. Outfit(j, tables, lastRow) /\ k = j.user
      BY <1>5, <1>7, <2>1, <2>2
    <3>2. Bare(j, lastRow) = j.user /\ Bare(next, k) = NoRow
      BY <1>2, <1>4 DEF Bare
    <3>3. Served(j, lastRow) = j.user /\ Served(next, k) = j.user
      BY <1>2, <1>4 DEF Served, Equipping
    <3>4. \A v \in UserIds : r.owner[v] = IF v = j.user THEN j.user ELSE tables.owner[v]
      BY <1>1, <1>3, <2>1, <3>1 DEF Tables, UserIds, ItemIds
    <3>5. Numbered(r, NoRow)
      <4>1. Numbered(tables, j.user)
        BY <3>1, <3>2 DEF Outfit
      <4>2. \A v : Known(r, v) <=> Known(tables, v)
        BY <2>1 DEF Known
      <4>3. \A v \in UserIds : r.owner[v] # NoRow <=> Known(r, v) /\ v # NoRow
        BY <1>3, <3>4, <4>1, <4>2 DEF Numbered, UserIds, NoRow
      <4> QED
        BY <4>1, <4>2, <4>3 DEF Numbered
    <3>6. ASSUME NEW v \in UserIds, Known(r, v), v # j.user
          PROVE  Ready(r, v)
      <4>1. Ready(tables, v)
        BY <2>1, <3>1, <3>3, <3>6 DEF Outfit, Known
      <4>2. tables.owner[j.user] = NoRow
        BY <1>3, <3>1, <3>2 DEF Outfit, Numbered
      <4>3. \A a \in ItemIds : tables.owner[a] = v => r.owner[a] = v
        BY <3>4, <4>2 DEF UserIds, ItemIds, NoRow
      <4>4. Untouched(tables, r, v)
        BY <2>1, <4>3 DEF Untouched
      <4> QED
        BY <4>1, <4>4, UntouchedReady
    <3> QED
      BY <1>3, <1>4, <3>1, <3>2, <3>3, <3>4, <3>5, <3>6 DEF Outfit, Resetting
  <2> QED
    BY <1>2, <2>w, <2>2, EquipWrite
<1> QED
  BY <1>3, <1>6, <1>7 DEF CreateStarterSkin, Exists, Known

LEMMA TakeItemIdEquips ==
  ASSUME NEW w, Turn(w), EquipInv, TakeItemId(w)
  PROVE  EquipInv'
<1> DEFINE j == job[w]
           i == [j EXCEPT !.pc = "reg_give", !.row = lastRow]
<1>1. Fields(j)
  BY TurnFacts
<1>2. j.pc = "reg_item_id" /\ Read(w, i)
  BY DEF TakeItemId, Running
<1>3. i.pc = "reg_give" /\ i.user = j.user /\ i.row = lastRow
  BY <1>1 DEF Fields
<1> HIDE DEF i
<1>4. Bare(i, lastRow) = Bare(j, lastRow) /\ Served(i, lastRow) = Served(j, lastRow)
  BY <1>2, <1>3 DEF Bare, Served, Equipping
<1>5. Outfit(j, tables, lastRow) => Outfit(i, tables, lastRow)
  BY <1>2, <1>3, <1>4 DEF Outfit, Resetting
<1> QED
  BY <1>2, <1>5, OutfitTold, EquipRead

LEMMA GiveStarterSkinEquips ==
  ASSUME NEW w, Turn(w), EquipInv, GiveStarterSkin(w)
  PROVE  EquipInv'
<1> DEFINE j == job[w]
           next == At(j, "init_delete")
           r == [tables EXCEPT !.inventory = @ \cup {<<j.user, j.row>>}]
<1>1. /\ Fields(j) /\ Stage(j, tables, now, lastRow, mishaps)
      /\ tables \in Tables /\ (j.pc \notin InsideTx => ~inTx)
  BY TurnFacts
<1>2. j.pc = "reg_give" /\ ~inTx
  BY <1>1 DEF GiveStarterSkin, Running, InsideTx
<1>3. j.user \in UserIds /\ j.user \in ItemIds /\ j.user # NoRow
  BY <1>1, <1>2 DEF Stage, New, Known, UserIds, ItemIds, NoRow
<1>4. next.pc = "init_delete" /\ next.user = j.user
  BY <1>1, AtLocals
<1>5. CASE /\ ~(j.row \in ItemIds /\ tables.owner[j.row] # NoRow)
           /\ Forbidden(w, next)
  <2>1. ~(mishaps = 0 /\ tables.lastQuest < MaxQuests)
    BY <1>2, <1>3, <1>5, OutfitTold DEF Outfit
  <2> HIDE DEF next
  <2> QED
    BY <1>5, <2>1, EquipRead
<1>6. CASE WriteNew(w, r, OtherRow, next, next)
  <2>1. /\ r.users = tables.users /\ r.quests = tables.quests /\ r.owner = tables.owner
        /\ r.inventory = tables.inventory \cup {<<j.user, j.row>>}
        /\ r.lastQuest = tables.lastQuest
    BY <1>1 DEF Tables
  <2> HIDE DEF r, next
  <2>2. ASSUME mishaps = 0, r.lastQuest < MaxQuests
        PROVE  Outfit(next, r, OtherRow)
    <3>1. Outfit(j, tables, lastRow)
      BY <2>1, <2>2, OutfitTold
    <3>2. Bare(j, lastRow) = NoRow /\ Bare(next, OtherRow) = NoRow
      BY <1>2, <1>4 DEF Bare
    <3>3. Served(j, lastRow) = j.user /\ Served(next, OtherRow) = j.user
      BY <1>2, <1>4 DEF Served, Equipping, Resetting
    <3>4. \A v : Known(r, v) <=> Known(tables, v)
      BY <2>1 DEF Known
    <3>5. Numbered(r, NoRow)
      BY <2>1, <3>1, <3>2, <3>4 DEF Outfit, Numbered
    <3>6. ASSUME NEW v \in UserIds, Known(r, v), v # j.user
          PROVE  Ready(r, v)
      <4>1. Ready(tables, v)
        BY <3>1, <3>3, <3>4, <3>6 DEF Outfit
      <4>2. Untouched(tables, r, v)
        BY <2>1 DEF Untouched
      <4> QED
        BY <4>1, <4>2, UntouchedReady
    <3>7. HasSkin(r, j.user)
      BY <1>2, <1>3, <2>1, <3>1 DEF Outfit, HasSkin
    <3> QED
      BY <1>4, <3>2, <3>3, <3>5, <3>6, <3>7 DEF Outfit
  <2> QED
    BY <1>2, <1>6, <2>2, EquipWrite
<1> QED
  BY <1>5, <1>6 DEF GiveStarterSkin

LEMMA DeleteUnclaimedEquips ==
  ASSUME NEW w, Turn(w), EquipInv, DeleteUnclaimed(w)
  PROVE  EquipInv'
<1> DEFINE j == job[w]
           i == [j EXCEPT !.pc = "init_insert", !.type = 1, !.second = now]
           r == [tables EXCEPT !.quests = Without(@, OpenQuests(tables, j.user))]
<1>1. /\ Fields(j) /\ Stage(j, tables, now, lastRow, mishaps)
      /\ tables \in Tables /\ (j.pc \notin InsideTx => ~inTx)
  BY TurnFacts
<1>2. j.pc = "init_delete" /\ Become(w, i) /\ ~inTx
  BY <1>1 DEF DeleteUnclaimed, Running, InsideTx
<1>3. i.pc = "init_insert" /\ i.user = j.user /\ i.type = 1
  BY <1>1 DEF Fields
<1>4. j.user \in UserIds /\ j.user # NoRow
  BY <1>1, <1>2 DEF Stage, OfUser, Known, UserIds, NoRow
<1>5. \/ Store(r) /\ UNCHANGED lastRow /\ UNCHANGED mishaps
      \/ UNCHANGED connection /\ mishaps' = mishaps + 1
  BY <1>2 DEF DeleteUnclaimed, Smooth, Mishap, Unclaimed, OpenQuests
<1>6. /\ r.users = tables.users /\ r.owner = tables.owner
      /\ r.inventory = tables.inventory /\ r.lastQuest = tables.lastQuest
      /\ r.quests = Without(tables.quests, OpenQuests(tables, j.user))
  BY <1>1 DEF Tables
<1> HIDE DEF i, r
<1>7. \A q \in QuestIds :
        r.quests[q] = IF q \in OpenQuests(tables, j.user) THEN NoQuest
                                                          ELSE tables.quests[q]
  BY <1>6 DEF Without
<1>8. CASE Store(r) /\ UNCHANGED lastRow /\ UNCHANGED mishaps
  <2>1. tables' = r /\ durable' = r
    BY <1>2, <1>8 DEF Store
  <2>2. ASSUME mishaps = 0, r.lastQuest < MaxQuests
        PROVE  Outfit(i, r, lastRow)
    <3>1. Outfit(j, tables, lastRow)
      BY <1>6, <2>2, OutfitTold
    <3>2. Bare(j, lastRow) = NoRow /\ Bare(i, lastRow) = NoRow
      BY <1>2, <1>3 DEF Bare
    <3>3. Served(j, lastRow) = j.user /\ Served(i, lastRow) = j.user
      BY <1>2, <1>3 DEF Served, Equipping, Resetting
    <3>4. \A v : Known(r, v) <=> Known(tables, v)
      BY <1>6 DEF Known
    <3>5. Numbered(r, NoRow)
      BY <1>6, <3>1, <3>2, <3>4 DEF Outfit, Numbered
    <3>6. ASSUME NEW v \in UserIds, Known(r, v), v # j.user
          PROVE  Ready(r, v)
      <4>1. Ready(tables, v) /\ v # NoRow
        BY <3>1, <3>3, <3>4, <3>6 DEF Outfit, UserIds, NoRow
      <4>2. Untouched(tables, r, v)
        BY <1>6, <1>7, <3>6, <4>1 DEF Untouched, OpenQuests, NoQuest
      <4> QED
        BY <4>1, <4>2, UntouchedReady
    <3>7. HasSkin(r, j.user)
      BY <1>2, <1>6, <3>1 DEF Outfit, Resetting, HasSkin
    <3>8. \A k \in Types : NoneOpen(r, j.user, k) /\ ~(k < 1)
      BY <1>4, <1>7 DEF NoneOpen, Given, OpenQuests, NoQuest, Types
    <3> QED
      BY <1>3, <3>2, <3>3, <3>5, <3>6, <3>7, <3>8 DEF Outfit
  <2> QED
    BY <1>2, <1>8, <2>1, <2>2, EquipStep
<1>9. CASE UNCHANGED connection /\ mishaps' = mishaps + 1
  BY <1>2, <1>9, EquipFail
<1> QED
  BY <1>5, <1>8, <1>9

(* The quest q is the new one of its type. *)
LEMMA NewQuestDealt ==
  ASSUME NEW t \in Tables, NEW q \in QuestIds, NEW x \in Quest,
         t.quests[q].user = NoRow, NEW u \in UserIds, x.user = u, ~x.claimed,
         NEW r, QuestAdded(t, r, q, x), NoneOpen(t, u, x.type)
  PROVE  /\ Dealt(r, u, x.type)
         /\ \A k : k # x.type => /\ Dealt(t, u, k) => Dealt(r, u, k)
                                 /\ NoneOpen(t, u, k) => NoneOpen(r, u, k)
<1>1. \A p \in QuestIds : r.quests[p] = IF p = q THEN x ELSE t.quests[p]
  BY DEF QuestAdded, Tables
<1>2. u # NoRow
  BY DEF UserIds, NoRow
<1>3. Given(r, u, x.type) = Given(t, u, x.type) \cup {q}
  BY <1>1, <1>2 DEF Given
<1>4. Dealt(r, u, x.type)
  <2>1. ASSUME NEW p \in Given(r, u, x.type), ~r.quests[p].claimed
        PROVE  p = q
    <3>1. p \in Given(t, u, x.type) \/ p = q
      BY <1>3
    <3>2. p \in QuestIds
      BY DEF Given
    <3> QED
      BY <1>1, <2>1, <3>1, <3>2 DEF NoneOpen
  <2> QED
    BY <1>3, <2>1 DEF Dealt
<1>5. ASSUME NEW k, k # x.type
      PROVE  /\ Dealt(t, u, k) => Dealt(r, u, k)
             /\ NoneOpen(t, u, k) => NoneOpen(r, u, k)
  <2>1. Given(r, u, k) = Given(t, u, k)
    BY <1>1, <1>2, <1>5 DEF Given
  <2>2. \A p \in Given(t, u, k) : r.quests[p] = t.quests[p]
    BY <1>1, <1>2 DEF Given
  <2> QED
    BY <2>1, <2>2 DEF Dealt, NoneOpen
<1> QED
  BY <1>4, <1>5

LEMMA SaveQuestEquips ==
  ASSUME NEW w, Turn(w), EquipInv, SaveQuest(w)
  PROVE  EquipInv'
<1> DEFINE j == job[w]
           u == j.user
           q == tables.lastQuest + 1
           x == [user |-> j.user, type |-> j.type, progress |-> 0,
                 claimed |-> FALSE, started |-> j.second]
           r == [tables EXCEPT !.lastQuest = q, !.quests[q] = x]
           i == NextType(j)
<1>1. /\ Fields(j) /\ Stage(j, tables, now, lastRow, mishaps)
      /\ Tidy(tables, now, mishaps) /\ tables \in Tables
      /\ (j.pc \notin InsideTx => ~inTx)
  BY TurnFacts
<1>2. j.pc = "init_insert" /\ ~inTx
  BY <1>1 DEF SaveQuest, Running, InsideTx
<1>3. /\ Known(tables, u) /\ u \in UserIds /\ u # NoRow
      /\ j.type \in Types /\ j.second \in Seconds
  BY <1>1, <1>2 DEF Stage, OfUser, Known, UserIds, NoRow
<1>4. CASE q \notin QuestIds /\ Forbidden(w, i)
  <2>1. ~(tables.lastQuest < MaxQuests)
    BY <1>1, <1>4, AccountsAssumption DEF Tables, QuestIds
  <2> HIDE DEF i
  <2> QED
    BY <1>4, <2>1, EquipRead
<1>5. CASE q \in QuestIds /\ WriteNew(w, r, q, i, i)
  <2>1. x \in Quest /\ x.user = u /\ ~x.claimed /\ x.type = j.type
    BY <1>3 DEF Quest
  <2>2. q \in QuestIds /\ WriteNew(w, r, q, i, i)
    BY <1>5
  <2>3. tables.quests[q].user = NoRow /\ tables.lastQuest \in Nat /\ q > tables.lastQuest
    BY <1>1, <2>2 DEF Tidy, QuestsOwned, Tables
  <2>4. r.owner = tables.owner /\ r.inventory = tables.inventory
    BY <1>1 DEF Tables
  <2>5. q > tables.lastQuest /\ MaxQuests \in Nat
    BY <2>3, AccountsAssumption
  <2> HIDE DEF x, q
  <2>6. QuestAdded(tables, r, q, x)
    BY <1>1, <2>1, <2>2, QuestAdds
  <2> HIDE DEF r
  <2>7. ASSUME mishaps = 0, r.lastQuest < MaxQuests
        PROVE  Outfit(i, r, q)
    <3>1. Outfit(j, tables, lastRow)
      <4>1. r.lastQuest = q /\ q \in Nat
        BY <2>2, <2>6 DEF QuestAdded, QuestIds
      <4> QED
        BY <2>3, <2>5, <2>7, <4>1, OutfitTold
    <3>2. Bare(j, lastRow) = NoRow /\ Served(j, lastRow) = u
      BY <1>2 DEF Bare, Served, Equipping, Resetting
    <3>3. \A v : Known(r, v) <=> Known(tables, v)
      BY <2>6 DEF Known, QuestAdded
    <3>4. Numbered(r, NoRow)
      BY <2>4, <3>1, <3>2, <3>3 DEF Outfit, Numbered
    <3>5. ASSUME NEW v \in UserIds, Known(r, v), v # u
          PROVE  Ready(r, v)
      <4>1. Ready(tables, v) /\ v # NoRow
        BY <3>1, <3>2, <3>3, <3>5 DEF Outfit, UserIds, NoRow
      <4>2. \A p \in QuestIds : r.quests[p] = IF p = q THEN x ELSE tables.quests[p]
        BY <1>1, <2>6 DEF QuestAdded, Tables
      <4>3. Untouched(tables, r, v)
        BY <2>1, <2>3, <2>4, <3>5, <4>1, <4>2 DEF Untouched
      <4> QED
        BY <4>1, <4>3, UntouchedReady
    <3>6. HasSkin(r, u)
      BY <1>2, <2>4, <3>1 DEF Outfit, Resetting, HasSkin
    <3>7. \A k \in Types : /\ k < j.type \/ k = j.type => Dealt(r, u, k)
                           /\ k > j.type => NoneOpen(r, u, k)
      <4>1. \A k \in Types : /\ k < j.type => Dealt(tables, u, k)
                             /\ k >= j.type => NoneOpen(tables, u, k)
        BY <1>2, <3>1 DEF Outfit
      <4>2. NoneOpen(tables, u, j.type)
        BY <1>3, <4>1 DEF Types
      <4>3. /\ Dealt(r, u, j.type)
            /\ \A k : k # j.type => /\ Dealt(tables, u, k) => Dealt(r, u, k)
                                    /\ NoneOpen(tables, u, k) => NoneOpen(r, u, k)
        BY <1>1, <1>3, <2>1, <2>2, <2>3, <2>6, <4>2, NewQuestDealt
      <4> QED
        BY <1>3, <4>1, <4>3 DEF Types
    <3>8. CASE j.type = QuestTypes
      <4>1. i = Idle /\ i.pc = "idle"
        BY <3>8 DEF NextType, Idle
      <4>2. Bare(i, q) = NoRow /\ Served(i, q) = NoRow
        BY <4>1 DEF Bare, Served, Equipping, Resetting
      <4>3. Ready(r, u)
        BY <1>3, <3>6, <3>7, <3>8 DEF Ready, Types
      <4>4. \A v \in UserIds : Known(r, v) => Ready(r, v)
        BY <3>5, <4>3
      <4> HIDE DEF i
      <4> QED
        BY <3>4, <4>1, <4>2, <4>4 DEF Outfit, Resetting
    <3>9. CASE j.type # QuestTypes
      <4>1. i.pc = "init_insert" /\ i.user = u /\ i.type = j.type + 1
        BY <1>1, <1>2, <3>9 DEF NextType, Fields
      <4> HIDE DEF i
      <4>2. Bare(i, q) = NoRow /\ Served(i, q) = u
        BY <4>1 DEF Bare, Served, Equipping, Resetting
      <4>3. \A k \in Types : /\ k < i.type => Dealt(r, u, k)
                             /\ k >= i.type => NoneOpen(r, u, k)
        BY <1>3, <3>7, <4>1 DEF Types
      <4> HIDE DEF u
      <4> QED
        BY <3>4, <3>5, <3>6, <4>1, <4>2, <4>3 DEF Outfit
    <3> QED
      BY <3>8, <3>9
  <2> HIDE DEF i
  <2> QED
    BY <1>2, <2>2, <2>7, EquipWrite
<1> QED
  BY <1>3, <1>4, <1>5 DEF SaveQuest, Exists, Known

-----------------------------------------------------------------------------
(* Every step, and the state between requests.                             *)

LEMMA StepEquips ==
  ASSUME Inv, SerialInv, EquipInv, Serial, Serial', [Next]_vars
  PROVE  EquipInv'
<1>1. ASSUME NEW w \in Workers,
             \/ RegisterUser(w) \/ LoginUser(w) \/ LogoutUser(w)
             \/ UpdateQuestProgress(w) \/ UnlockAchievement(w) \/ ClaimQuestReward(w)
             \/ ClaimAchievementReward(w) \/ ClaimDailyReward(w)
      PROVE  EquipInv'
  <2>1. Started(w)
    <3>1. CASE RegisterUser(w) \/ LoginUser(w) \/ LogoutUser(w)
      BY <3>1, BecomesStarted DEF RegisterUser, LoginUser, LogoutUser, Idle
    <3>2. CASE UpdateQuestProgress(w) \/ UnlockAchievement(w)
      BY <3>2, BecomesStarted DEF UpdateQuestProgress, UnlockAchievement, Idle
    <3>3. CASE \/ ClaimQuestReward(w) \/ ClaimAchievementReward(w)
               \/ ClaimDailyReward(w)
      BY <3>3, BecomesStarted DEF ClaimQuestReward, ClaimAchievementReward,
                                  ClaimDailyReward, Idle
    <3> QED
      BY <1>1, <3>1, <3>2, <3>3
  <2> QED
    BY <1>1, <2>1, RequestTurn, RequestEquips
<1>2. ASSUME NEW w \in Workers,
             \/ UserExists(w) \/ SaveUser(w) \/ TakeUserId(w) \/ CreateStarterSkin(w)
             \/ TakeItemId(w) \/ GiveStarterSkin(w) \/ DeleteUnclaimed(w)
             \/ SaveQuest(w)
      PROVE  EquipInv'
  <2>1. \E label : label # "idle" /\ Running(w, label)
    BY <1>2 DEF UserExists, SaveUser, TakeUserId, CreateStarterSkin, TakeItemId,
                GiveStarterSkin, DeleteUnclaimed, SaveQuest, Running
  <2>2. Turn(w)
    BY <2>1, RunningTurn
  <2> QED
    BY <1>2, <2>2, ReadEquips, SaveUserEquips, TakeUserIdEquips, CreateStarterSkinEquips,
       TakeItemIdEquips, GiveStarterSkinEquips, DeleteUnclaimedEquips, SaveQuestEquips
<1>3. ASSUME NEW w \in Workers,
             \/ LoadUserByName(w) \/ SaveSession(w) \/ StoreLastLogin(w)
             \/ LoadStreak(w) \/ SaveStreak(w) \/ ResetCheck(w) \/ DeleteSession(w)
      PROVE  EquipInv'
  <2>1. \E label : label # "idle" /\ Running(w, label)
    BY <1>3 DEF LoadUserByName, SaveSession, StoreLastLogin, LoadStreak, SaveStreak,
                ResetCheck, DeleteSession, Running
  <2>2. Turn(w)
    BY <2>1, RunningTurn
  <2> QED
    BY <1>3, <2>2, ReadEquips, LoginWriteEquips, ResetCheckEquips
<1>4. ASSUME NEW w \in Workers,
             \/ BeginTransaction(w) \/ LoadInTransaction(w) \/ WriteInTransaction(w)
             \/ CommitTransaction(w) \/ RollbackTransaction(w)
      PROVE  EquipInv'
  <2>1. \E label : label # "idle" /\ Running(w, label)
    BY <1>4 DEF BeginTransaction, LoadInTransaction, WriteInTransaction,
                CommitTransaction, RollbackTransaction, Running
  <2>2. Turn(w)
    BY <2>1, RunningTurn
  <2> QED
    BY <1>4, <2>2, ReadEquips, TransactionEquips
<1>5. ASSUME NEW w \in Workers,
             \/ LoadClaim(w) \/ ClaimLoadUser(w) \/ PayReward(w)
             \/ VerifyBalance(w) \/ MarkClaimed(w)
      PROVE  EquipInv'
  <2>1. \E label : label # "idle" /\ Running(w, label)
    BY <1>5 DEF LoadClaim, ClaimLoadUser, PayReward, VerifyBalance, MarkClaimed, Running
  <2>2. Turn(w)
    BY <2>1, RunningTurn
  <2> QED
    BY <1>5, <2>2, ReadEquips, ClaimWriteEquips
<1>6. CASE Tick \/ UNCHANGED vars
  <2>1. UNCHANGED <<tables, durable, lastRow, job, mishaps>>
    BY <1>6 DEF Tick, vars, connection
  <2> QED
    BY <2>1 DEF EquipInv, Alone
<1>7. CASE Crash
  <2>1. tables' = durable /\ durable' = durable /\ mishaps' = mishaps + 1
    BY <1>7 DEF Crash, Mishap, Reopen
  <2>2. mishaps' # 0
    BY <2>1 DEF SerialInv
  <2> QED
    BY <2>1, <2>2 DEF EquipInv
<1>8. \A w \in Workers : Register(w) \/ Login(w) => EquipInv'
  BY <1>1, <1>2, <1>3 DEF Register, Login
<1>9. \A w \in Workers : Progress(w) \/ Claim(w) => EquipInv'
  BY <1>1, <1>4, <1>5 DEF Progress, Claim
<1> QED
  BY <1>6, <1>7, <1>8, <1>9 DEF Next

LEMMA InitEquips ==
  ASSUME Init
  PROVE  EquipInv
<1>1. tables = NoRows /\ durable = NoRows /\ \A w \in Workers : job[w] = Idle
  BY DEF Init, ConnectionInit
<1>2. \A u : ~Known(NoRows, u)
  BY DEF Known, NoRows, NoUser
<1>3. \A i \in ItemIds : NoRows.owner[i] = NoRow
  BY DEF NoRows
<1>4. Numbered(NoRows, NoRow)
  BY <1>2, <1>3 DEF Numbered, UserIds, ItemIds
<1>5. Outfit(Idle, NoRows, lastRow)
  <2>1. Idle.pc = "idle"
    BY DEF Idle
  <2>2. Bare(Idle, lastRow) = NoRow
    BY <2>1 DEF Bare
  <2> QED
    BY <1>2, <1>4, <2>1, <2>2 DEF Outfit, Resetting
<1> QED
  BY <1>1, <1>5 DEF EquipInv

LEMMA AtMostOne ==
  ASSUME NEW S, \A p, q \in S : p = q
  PROVE  Cardinality(S) <= 1
<1>1. CASE S = {}
  BY <1>1, FS_EmptySet
<1>2. ASSUME NEW p \in S
      PROVE  Cardinality(S) <= 1
  <2>1. S = {p}
    OBVIOUS
  <2>2. Cardinality({p}) = 1
    BY FS_Singleton
  <2> QED
    BY <2>1, <2>2
<1> QED
  BY <1>1, <1>2

LEMMA EquippedBetweenRequests ==
  ASSUME EquipInv
  PROVE  AccountsEquipped
<1>1. SUFFICES ASSUME mishaps = 0, tables.lastQuest < MaxQuests,
                      \A w \in Workers : job[w].pc = "idle",
                      NEW u \in UserIds, Exists(u)
               PROVE  /\ \E i \in ItemIds : /\ tables.owner[i] = u
                                            /\ <<u, i>> \in tables.inventory
                      /\ \A t \in Types :
                           LET given == {q \in QuestIds : tables.quests[q].user = u
                                                           /\ tables.quests[q].type = t}
                           IN  given # {} /\ Cardinality(given \cap Unclaimed(u)) <= 1
  BY DEF AccountsEquipped
<1>2. PICK w \in Workers : TRUE
  BY AccountsAssumption
<1>3. Outfit(job[w], tables, lastRow) /\ job[w].pc = "idle"
  BY <1>1 DEF EquipInv, Alone
<1>4. Ready(tables, u)
  BY <1>1, <1>3 DEF Outfit, Served, Equipping, Resetting, Known, Exists, UserIds, NoRow
<1>5. ASSUME NEW t \in Types
      PROVE  /\ Given(tables, u, t) # {}
             /\ Cardinality(Given(tables, u, t) \cap Unclaimed(u)) <= 1
  <2>1. Dealt(tables, u, t)
    BY <1>4 DEF Ready
  <2>2. \A p, q \in Given(tables, u, t) \cap Unclaimed(u) : p = q
    BY <2>1 DEF Dealt, Unclaimed
  <2> QED
    BY <2>1, <2>2, AtMostOne DEF Dealt
<1> QED
  BY <1>4, <1>5 DEF Ready, HasSkin, Given

(* register_user and login_user, through init_daily_quests: between        *)
(* requests, every account has its free skin and has been given a quest of *)
(* each type, of which at most one is open.  For every number of users,    *)
(* quest types and requests, as long as requests do not overlap, unless a  *)
(* statement failed or a kill came in between.                             *)
THEOREM AccountsAreEquipped == Spec /\ []Serial => []AccountsEquipped
<1>1. Inv /\ SerialInv /\ Serial /\ Serial' /\ EquipInv /\ [Next]_vars => EquipInv'
  BY StepEquips
<1> QED
  BY <1>1, InitEquips, SerialBehavior, EquippedBetweenRequests, PTL DEF Spec
=============================================================================
