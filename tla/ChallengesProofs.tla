-------------------------- MODULE ChallengesProofs --------------------------
(***************************************************************************)
(* Theorems about Challenges for every number of workers, users, cases,    *)
(* items and challenges, with failing statements and kills: no balance     *)
(* falls below zero, and no two workers are inside a transaction at once;  *)
(* and, while one request is served at a time, what a step may do to the   *)
(* disk: races end once, rewards and penalties come with their end, an     *)
(* unboxing happens as a whole, and votes decide; and, of any case, how    *)
(* many rolls give a rarity and how many numbers of the preview a skin.    *)
(***************************************************************************)
EXTENDS Challenges, SumProofs, Sequences

(* The parts of the assumption, each on its own.                           *)

LEMMA NobodyApart == Nobody \notin Users
BY ChallengesAssumption

LEMMA PursesAndSkins ==
  Purse \in [Users -> Nat] /\ MaxItems \in Nat \ {0} /\ MaxChallenges \in Nat \ {0}
BY ChallengesAssumption

LEMMA Prices == CasePrice \in [Cases -> Nat]
BY ChallengesAssumption

LEMMA Clock == Hours \in [1 .. Cardinality(Seconds) -> Nat] /\ 1 \in Seconds
BY ChallengesAssumption

LEMMA ClockAdvances == \A s, t \in Seconds : s <= t => Hours[s] <= Hours[t]
BY ChallengesAssumption

(* A net worth is a sum over the inventory, and no prover here can give    *)
(* that a type.  So the invariant does not: it says which fields the rows  *)
(* and locals have, and types those that balances and control depend on.   *)

(* A row of trading_challenges has players once it is there. *)
Columns(r) ==
  r = [challenger |-> r.challenger, opponent |-> r.opponent,
       status |-> r.status, challenger_start |-> r.challenger_start,
       opponent_start |-> r.opponent_start,
       challenger_profit |-> r.challenger_profit,
       opponent_profit |-> r.opponent_profit,
       started |-> r.started, votes |-> r.votes]

Seated(r) == r.challenger \in Users /\ r.opponent \in Users

Row(r) == Columns(r) /\ (r.status # "none" => Seated(r))

Rows(t) ==
  /\ t = [balance |-> t.balance, items |-> t.items, inventory |-> t.inventory,
          progress |-> t.progress, knife |-> t.knife,
          challenges |-> t.challenges]
  /\ t.balance \in [Users -> Nat]
  /\ t.challenges = [c \in ChallengeIds |-> t.challenges[c]]
  /\ \A c \in ChallengeIds : Row(t.challenges[c])

Fields(j) ==
  j = [pc |-> j.pc, kind |-> j.kind, user |-> j.user, case |-> j.case,
       item |-> j.item, row |-> j.row, balance |-> j.balance, call |-> j.call,
       progress |-> j.progress, challenge |-> j.challenge, id |-> j.id,
       worth |-> j.worth, rest |-> j.rest, winner |-> j.winner]

Labels == OutsideTx \cup InsideTx

(* The labels at which a worker works on a challenge, at which it updates  *)
(* the progress of one, and at which it arranges one.                      *)
OnProgress == {"progress_load", "worth_a", "worth_b", "progress_write"}
OnChallenge == OnProgress \cup
  {"accept_load", "accept_write", "complete_load", "reload", "complete_begin",
   "winner_load", "winner_pay", "complete_write", "vote_load", "vote", "votes",
   "cancel", "penalty_begin", "penalty_load", "penalty_pay", "penalty_write"}
AfterCommit == {"log", "call", "call_load", "call_write", "call_commit",
                "call_rollback", "list", "next"}
OnCreation == {"create_a", "create_b", "create_save"}

Shape(j) ==
  /\ Fields(j)
  /\ j.balance \in Nat
  /\ j.rest \subseteq ChallengeIds
  /\ j.winner \in Users \cup {Nobody}

(* What a handler has read holds what it will need at a label: an          *)
(* unboxing the price of its case, a race its players, a reward its winner.*)
Ready(j, label) ==
  /\ label \in Labels
  /\ label \in {"unbox_user", "unbox_begin"} => j.user \in Users
  /\ label \in {"unbox_user", "unbox_begin", "deduct"} => j.case \in Cases
  /\ label \in {"unbox_begin", "deduct"} => j.balance >= Cost(j.case)
  /\ label \in AfterCommit => j.kind = "unbox"
  /\ label \in OnProgress => j.kind \in {"unbox", "complete", "progress"}
  /\ label = "complete_load" => j.kind = "complete"
  /\ label \in OnChallenge => j.id \in ChallengeIds
  /\ label \in OnCreation => Columns(j.challenge)
  /\ label \in OnCreation \cup {"penalty_begin", "penalty_load"} =>
       Seated(j.challenge)
  /\ label \in {"winner_load", "winner_pay"} => j.winner \in Users

Sound(j) == Shape(j) /\ Ready(j, j.pc)

Inside(j) == j.pc \in InsideTx

Local == /\ job = [w \in Workers |-> job[w]]
         /\ \A w \in Workers : Sound(job[w])

WellFormed == Rows(tables) /\ Rows(durable) /\ Local

Inv == WellFormed /\ TransactionsExclusive

-----------------------------------------------------------------------------
(* Rows.                                                                   *)

LEMMA BalanceRows ==
  ASSUME NEW t, Rows(t), NEW u, NEW n \in Nat
  PROVE  Rows([t EXCEPT !.balance[u] = n])
<1>1. [t.balance EXCEPT ![u] = n] \in [Users -> Nat]
  BY DEF Rows
<1>2. [t EXCEPT !.balance[u] = n]
        = [balance |-> [t.balance EXCEPT ![u] = n], items |-> t.items,
           inventory |-> t.inventory, progress |-> t.progress,
           knife |-> t.knife, challenges |-> t.challenges]
  BY DEF Rows
<1> QED
  BY <1>1, <1>2 DEF Rows

LEMMA OtherRows ==
  ASSUME NEW t, Rows(t)
  PROVE  /\ \A i, x : Rows([t EXCEPT !.items[i] = x])
         /\ \A s : Rows([t EXCEPT !.inventory = s])
         /\ \A u, q, n : Rows([t EXCEPT !.progress[u][q] = n])
         /\ \A s : Rows([t EXCEPT !.knife = s])
BY DEF Rows

LEMMA ChallengeRows ==
  ASSUME NEW t, Rows(t), NEW c \in ChallengeIds, NEW r, Row(r)
  PROVE  Rows([t EXCEPT !.challenges[c] = r])
BY DEF Rows

(* What does not touch the players of a row leaves them in their seats. *)
LEMMA StaysSeated ==
  ASSUME NEW r, Columns(r), Seated(r), NEW x
  PROVE  /\ Columns([r EXCEPT !.votes = x]) /\ Seated([r EXCEPT !.votes = x])
         /\ Columns([r EXCEPT !.status = x]) /\ Seated([r EXCEPT !.status = x])
         /\ Columns([r EXCEPT !.started = x]) /\ Seated([r EXCEPT !.started = x])
         /\ Columns([r EXCEPT !.challenger_start = x])
         /\ Seated([r EXCEPT !.challenger_start = x])
         /\ Columns([r EXCEPT !.opponent_start = x])
         /\ Seated([r EXCEPT !.opponent_start = x])
         /\ Columns([r EXCEPT !.challenger_profit = x])
         /\ Seated([r EXCEPT !.challenger_profit = x])
         /\ Columns([r EXCEPT !.opponent_profit = x])
         /\ Seated([r EXCEPT !.opponent_profit = x])
<1>1. Columns([r EXCEPT !.votes = x]) /\ Seated([r EXCEPT !.votes = x])
  BY DEF Columns, Seated
<1>2. Columns([r EXCEPT !.status = x]) /\ Seated([r EXCEPT !.status = x])
  BY DEF Columns, Seated
<1>3. Columns([r EXCEPT !.started = x]) /\ Seated([r EXCEPT !.started = x])
  BY DEF Columns, Seated
<1>4. /\ Columns([r EXCEPT !.challenger_start = x])
      /\ Seated([r EXCEPT !.challenger_start = x])
  BY DEF Columns, Seated
<1>5. /\ Columns([r EXCEPT !.opponent_start = x])
      /\ Seated([r EXCEPT !.opponent_start = x])
  BY DEF Columns, Seated
<1>6. /\ Columns([r EXCEPT !.challenger_profit = x])
      /\ Seated([r EXCEPT !.challenger_profit = x])
  BY DEF Columns, Seated
<1>7. /\ Columns([r EXCEPT !.opponent_profit = x])
      /\ Seated([r EXCEPT !.opponent_profit = x])
  BY DEF Columns, Seated
<1> QED
  BY <1>1, <1>2, <1>3, <1>4, <1>5, <1>6, <1>7

LEMMA SetPlayers ==
  ASSUME NEW r, Columns(r), NEW x
  PROVE  /\ Columns([r EXCEPT !.challenger = x])
         /\ Columns([r EXCEPT !.opponent = x])
         /\ Columns([r EXCEPT !.status = x])
<1>1. Columns([r EXCEPT !.challenger = x])
  BY DEF Columns
<1>2. Columns([r EXCEPT !.opponent = x])
  BY DEF Columns
<1>3. Columns([r EXCEPT !.status = x])
  BY DEF Columns
<1> QED
  BY <1>1, <1>2, <1>3

(* The UPDATEs of a challenge that is there. *)
LEMMA UpdatedRow ==
  ASSUME NEW r, Row(r), r.status # "none", NEW x, NEW y
  PROVE  /\ Row([r EXCEPT !.votes = x])
         /\ Row([r EXCEPT !.status = x])
         /\ Row([r EXCEPT !.status = x, !.started = y])
         /\ Row([r EXCEPT !.challenger_profit = x, !.opponent_profit = y])
<1>1. Columns(r) /\ Seated(r)
  BY DEF Row
<1>2. [r EXCEPT !.status = x, !.started = y]
        = [[r EXCEPT !.status = x] EXCEPT !.started = y]
  OBVIOUS
<1>3. [r EXCEPT !.challenger_profit = x, !.opponent_profit = y]
        = [[r EXCEPT !.challenger_profit = x] EXCEPT !.opponent_profit = y]
  OBVIOUS
<1> QED
  BY <1>1, <1>2, <1>3, StaysSeated DEF Row

-----------------------------------------------------------------------------
(* Locals.                                                                 *)

LEMMA IdleSound == Sound(Idle) /\ ~Inside(Idle)
<1>1. 0 \in Nat /\ {} \subseteq ChallengeIds
  OBVIOUS
<1> QED
  BY <1>1 DEF Sound, Shape, Ready, Fields, Idle, Inside, Labels, OutsideTx, InsideTx,
     OnProgress, OnChallenge, OnCreation, AfterCommit

(* Setting a local leaves the others there. *)
LEMMA SetFields ==
  ASSUME NEW j, Fields(j), NEW x
  PROVE  /\ Fields([j EXCEPT !.pc = x])
         /\ Fields([j EXCEPT !.kind = x])
         /\ Fields([j EXCEPT !.user = x])
         /\ Fields([j EXCEPT !.case = x])
         /\ Fields([j EXCEPT !.challenge = x])
         /\ Fields([j EXCEPT !.id = x])
<1>1. Fields([j EXCEPT !.pc = x])
  BY DEF Fields
<1>2. Fields([j EXCEPT !.kind = x])
  BY DEF Fields
<1>3. Fields([j EXCEPT !.user = x])
  BY DEF Fields
<1>4. Fields([j EXCEPT !.case = x])
  BY DEF Fields
<1>5. Fields([j EXCEPT !.challenge = x])
  BY DEF Fields
<1>6. Fields([j EXCEPT !.id = x])
  BY DEF Fields
<1> QED
  BY <1>1, <1>2, <1>3, <1>4, <1>5, <1>6

(* A handler starts from Idle. *)
LEMMA StartShape ==
  /\ Fields(Idle)
  /\ \A j : /\ Fields(j) /\ j.balance = Idle.balance /\ j.rest = Idle.rest
            /\ j.winner = Idle.winner
            => Shape(j)
<1>1. Idle.balance \in Nat /\ Idle.rest \subseteq ChallengeIds
  BY DEF Idle
<1> QED
  BY <1>1, IdleSound DEF Sound, Shape, Idle

LEMMA AtSound ==
  ASSUME NEW j, Shape(j), NEW label, Ready(j, label)
  PROVE  Sound(At(j, label)) /\ At(j, label).pc = label
BY DEF Sound, Shape, Ready, Fields, At

LEMMA AtShape ==
  ASSUME NEW j, Shape(j), NEW label
  PROVE  /\ Shape(At(j, label)) /\ At(j, label).pc = label
         /\ At(j, label).challenge = j.challenge
BY DEF Shape, Fields, At

(* The locals on which neither balances nor control depend. *)
LEMMA AnyValue ==
  ASSUME NEW j, Sound(j), NEW x
  PROVE  /\ Sound([j EXCEPT !.item = x]) /\ [j EXCEPT !.item = x].pc = j.pc
         /\ Sound([j EXCEPT !.row = x]) /\ [j EXCEPT !.row = x].pc = j.pc
         /\ Sound([j EXCEPT !.call = x]) /\ [j EXCEPT !.call = x].pc = j.pc
         /\ Sound([j EXCEPT !.progress = x])
         /\ [j EXCEPT !.progress = x].pc = j.pc
         /\ Sound([j EXCEPT !.worth = x]) /\ [j EXCEPT !.worth = x].pc = j.pc
<1>1. Sound([j EXCEPT !.item = x]) /\ [j EXCEPT !.item = x].pc = j.pc
  BY DEF Sound, Shape, Ready, Fields
<1>2. Sound([j EXCEPT !.row = x]) /\ [j EXCEPT !.row = x].pc = j.pc
  BY DEF Sound, Shape, Ready, Fields
<1>3. Sound([j EXCEPT !.call = x]) /\ [j EXCEPT !.call = x].pc = j.pc
  BY DEF Sound, Shape, Ready, Fields
<1>4. Sound([j EXCEPT !.progress = x]) /\ [j EXCEPT !.progress = x].pc = j.pc
  BY DEF Sound, Shape, Ready, Fields
<1>5. Sound([j EXCEPT !.worth = x]) /\ [j EXCEPT !.worth = x].pc = j.pc
  BY DEF Sound, Shape, Ready, Fields
<1> QED
  BY <1>1, <1>2, <1>3, <1>4, <1>5

(* The others. *)
LEMMA NewBalance ==
  ASSUME NEW j, Shape(j), NEW n \in Nat
  PROVE  LET i == [j EXCEPT !.balance = n] IN
         /\ Shape(i) /\ i.balance = n
         /\ \A label : label \notin {"unbox_begin", "deduct"} /\ Ready(j, label)
              => Ready(i, label)
         /\ i.user = j.user /\ i.case = j.case
BY DEF Shape, Ready, Fields

LEMMA NewChallenge ==
  ASSUME NEW j, Shape(j), NEW x
  PROVE  LET i == [j EXCEPT !.challenge = x] IN
         /\ Shape(i) /\ i.challenge = x /\ i.id = j.id
         /\ \A label : /\ Ready(j, label)
                       /\ label \notin OnCreation \cup {"penalty_begin", "penalty_load"}
              => Ready(i, label)
BY DEF Shape, Ready, Fields

LEMMA NewId ==
  ASSUME NEW j, Shape(j), NEW c \in ChallengeIds
  PROVE  LET i == [j EXCEPT !.id = c] IN
         Shape(i) /\ i.id = c /\ i.kind = j.kind
BY DEF Shape, Ready, Fields

LEMMA NewRest ==
  ASSUME NEW j, Shape(j), NEW s \in SUBSET ChallengeIds
  PROVE  LET i == [j EXCEPT !.rest = s] IN
         /\ Shape(i) /\ \A label : Ready(j, label) => Ready(i, label)
BY DEF Shape, Ready, Fields

LEMMA NewWinner ==
  ASSUME NEW j, Shape(j), NEW u \in Users \cup {Nobody}
  PROVE  LET i == [j EXCEPT !.winner = u] IN
         /\ Shape(i)
         /\ \A label : label \notin {"winner_load", "winner_pay"} /\ Ready(j, label)
              => Ready(i, label)
BY DEF Shape, Ready, Fields

-----------------------------------------------------------------------------
(* The kinds of steps: one that neither begins nor ends a transaction, and *)
(* leaves good rows; one that begins it; one that ends it.                 *)

Keeps(rows) == UNCHANGED connection \/ (Rows(rows) /\ Store(rows))

Step(w, j) ==
  /\ Become(w, j)
  /\ Sound(j)
  /\ \/ (\E rows : Keeps(rows)) /\ (Inside(job[w]) <=> Inside(j))
     \/ Begin /\ ~Inside(job[w]) /\ Inside(j)
     \/ (Commit \/ Rollback) /\ Inside(job[w]) /\ ~Inside(j)

Legal(w) == \E j : Step(w, j)

LEMMA ReadLegal ==
  ASSUME NEW w, NEW j, Read(w, j), Sound(j), Inside(job[w]) <=> Inside(j)
  PROVE  Legal(w)
BY DEF Read, Legal, Step, Keeps

LEMMA WriteLegal ==
  ASSUME NEW w, NEW rows, Rows(rows), NEW rowid, NEW next, NEW failed,
         Write(w, rows, next, failed) \/ WriteNew(w, rows, rowid, next, failed),
         Sound(next), Sound(failed),
         Inside(job[w]) <=> Inside(next), Inside(job[w]) <=> Inside(failed)
  PROVE  Legal(w)
<1>1. \E j \in {next, failed} : Become(w, j) /\ Keeps(rows)
  BY DEF Write, WriteNew, Update, Insert, Keeps
<1> QED
  BY <1>1 DEF Legal, Step

LEMMA PayLegal ==
  ASSUME Rows(tables), NEW w, NEW u, NEW n \in Nat, NEW next, NEW failed,
         Pay(w, u, n, next, failed), Sound(next), Sound(failed),
         Inside(job[w]) <=> Inside(next), Inside(job[w]) <=> Inside(failed)
  PROVE  Legal(w)
BY BalanceRows, WriteLegal DEF Pay

LEMMA WriteChallengeLegal ==
  ASSUME Rows(tables), NEW w, NEW c \in ChallengeIds, NEW r,
         tables.challenges[c].status # "none" => Row(r), NEW next, NEW failed,
         WriteChallenge(w, c, r, next, failed), Sound(next), Sound(failed),
         Inside(job[w]) <=> Inside(next), Inside(job[w]) <=> Inside(failed)
  PROVE  Legal(w)
<1>1. CASE tables.challenges[c].status = "none"
  BY <1>1, WriteLegal DEF WriteChallenge
<1>2. CASE tables.challenges[c].status # "none"
  BY <1>2, ChallengeRows, WriteLegal DEF WriteChallenge
<1> QED
  BY <1>1, <1>2

LEMMA BeginLegal ==
  ASSUME NEW w, NEW label, NEW next, NEW refused,
         BeginAt(w, label, next, refused), Sound(next), Sound(refused),
         ~Inside(job[w]), Inside(next), ~Inside(refused)
  PROVE  Legal(w)
<1>1. CASE Begin /\ Become(w, next)
  BY <1>1 DEF Legal, Step
<1>2. CASE BeginRefused /\ Become(w, refused)
  BY <1>2 DEF Legal, Step, Keeps, BeginRefused
<1> QED
  BY <1>1, <1>2 DEF BeginAt

LEMMA CommitLegal ==
  ASSUME NEW w, NEW label, NEW next, NEW refused,
         CommitAt(w, label, next, refused), Sound(next), Sound(refused),
         Inside(job[w]), ~Inside(next), Inside(refused)
  PROVE  Legal(w)
<1>1. CASE Commit /\ Become(w, next)
  BY <1>1 DEF Legal, Step
<1>2. CASE CommitRefused /\ Become(w, refused)
  BY <1>2 DEF Legal, Step, Keeps, CommitRefused
<1> QED
  BY <1>1, <1>2 DEF CommitAt

(* Whatever kind of step a worker takes, the invariant survives it.        *)
LEMMA LegalKeepsInv ==
  ASSUME Inv, NEW w \in Workers, Legal(w)
  PROVE  Inv'
<1>1. PICK j : Step(w, j)
  BY DEF Legal
<1>2. Sound(job[w]) /\ job'[w] = j /\ \A v \in Workers \ {w} : job'[v] = job[v]
  BY <1>1 DEF Inv, WellFormed, Local, Step, Become
<1>3. Local'
  <2>1. \A v \in Workers : Sound(job'[v])
    BY <1>1, <1>2 DEF Inv, WellFormed, Local, Step
  <2>2. job' = [v \in Workers |-> job'[v]]
    BY <1>1 DEF Inv, WellFormed, Local, Step, Become
  <2> QED
    BY <2>1, <2>2 DEF Local
<1>4. Rows(tables') /\ Rows(durable')
  BY <1>1 DEF Inv, WellFormed, Step, Keeps, connection, Store, Begin, Commit,
     Rollback
<1>5. TransactionsExclusive'
  <2>1. CASE (\E rows : Keeps(rows)) /\ (Inside(job[w]) <=> Inside(j))
    <3>1. inTx' = inTx
      BY <2>1 DEF Keeps, connection, Store
    <3> QED
      BY <1>2, <2>1, <3>1 DEF Inv, TransactionsExclusive, Inside
  <2>2. CASE Begin /\ ~Inside(job[w]) /\ Inside(j)
    BY <1>2, <2>2 DEF Inv, TransactionsExclusive, Inside, Begin
  <2>3. CASE (Commit \/ Rollback) /\ Inside(job[w]) /\ ~Inside(j)
    BY <1>2, <2>3 DEF Inv, TransactionsExclusive, Inside, Commit, Rollback
  <2> QED
    BY <1>1, <2>1, <2>2, <2>3 DEF Step
<1> QED
  BY <1>3, <1>4, <1>5 DEF Inv, WellFormed, Rows, Row, Columns, Seated

-----------------------------------------------------------------------------
(* Every step of a handler is one of these.                                *)

LEMMA Handling ==
  ASSUME Inv, NEW w \in Workers
  PROVE  /\ Sound(job[w]) /\ Shape(job[w]) /\ Ready(job[w], job[w].pc)
         /\ Rows(tables)
         /\ \A c \in ChallengeIds : Row(tables.challenges[c])
         /\ \A u \in Users : tables.balance[u] \in Nat
BY DEF Inv, WellFormed, Local, Sound, Rows

LEMMA CostType == ASSUME NEW c \in Cases PROVE Cost(c) \in Nat
BY Prices DEF Cost, CASE_KEY_PRICE

(* Labels that ask nothing of the locals. *)
Free == {"idle", "broadcast", "draw", "create_item", "item_id", "give",
         "commit", "rollback"}

LEMMA FreeSound ==
  ASSUME NEW j, Shape(j), NEW label \in Free
  PROVE  Sound(At(j, label)) /\ At(j, label).pc = label
<1>1. Ready(j, label)
  BY DEF Free, Ready, Labels, OutsideTx, InsideTx, OnProgress, OnChallenge,
     OnCreation, AfterCommit
<1> QED
  BY <1>1, AtSound

LEMMA UnboxLegal ==
  ASSUME Inv, NEW w \in Workers, Unbox(w)
  PROVE  Legal(w)
<1>h. /\ Sound(job[w]) /\ Shape(job[w]) /\ Ready(job[w], job[w].pc)
      /\ Rows(tables)
      /\ \A u \in Users : tables.balance[u] \in Nat
  BY Handling
<1>f. \A label \in Free : /\ Sound(At(job[w], label))
                          /\ At(job[w], label).pc = label
  BY <1>h, FreeSound
<1>i. Sound(Idle) /\ ~Inside(Idle)
  BY IdleSound
<1>1. CASE UnboxCase(w)
  <2>1. PICK u \in Users, c \in Cases :
          Become(w, [Idle EXCEPT !.pc = "unbox_user", !.kind = "unbox",
                                 !.user = u, !.case = c])
    BY <1>1 DEF UnboxCase
  <2> DEFINE j == [Idle EXCEPT !.pc = "unbox_user", !.kind = "unbox",
                               !.user = u, !.case = c]
  <2>5. j = [[[[Idle EXCEPT !.pc = "unbox_user"] EXCEPT !.kind = "unbox"]
                EXCEPT !.user = u] EXCEPT !.case = c]
    OBVIOUS
  <2>6. Fields(j)
    BY <2>5, StartShape, SetFields
  <2>7. /\ j.pc = "unbox_user" /\ j.user = u /\ j.case = c
        /\ j.balance = Idle.balance /\ j.rest = Idle.rest
        /\ j.winner = Idle.winner
    BY DEF Idle
  <2>2. Shape(j) /\ j.pc = "unbox_user" /\ j.user = u /\ j.case = c
    BY <2>6, <2>7, StartShape
  <2>4. Sound(j) /\ ~Inside(j)
    BY <2>2 DEF Sound, Ready, Inside, Labels, OutsideTx, InsideTx, OnProgress,
       OnChallenge, OnCreation, AfterCommit
  <2>3. ~Inside(job[w]) /\ Keeps(tables)
    BY <1>1 DEF UnboxCase, Request, Inside, InsideTx, Keeps, connection
  <2> QED
    BY <2>1, <2>3, <2>4 DEF Legal, Step
<1>2. CASE UnboxLoadUser(w)
  <2> DEFINE has == tables.balance[job[w].user]
             i == [job[w] EXCEPT !.balance = has]
  <2>1. job[w].pc = "unbox_user" /\ ~Inside(job[w])
    BY <1>2 DEF UnboxLoadUser, Running, Inside, InsideTx
  <2>2. has \in Nat /\ job[w].user \in Users /\ job[w].case \in Cases
    BY <1>h, <2>1 DEF Ready
  <2>3. CASE Read(w, Idle)
    BY <1>i, <2>1, <2>3, ReadLegal
  <2>4. CASE ~(has < Cost(job[w].case)) /\ Read(w, At(i, "unbox_begin"))
    <3>1. /\ Shape(i) /\ i.balance = has
          /\ i.user = job[w].user /\ i.case = job[w].case
      BY <1>h, <2>2, NewBalance
    <3>2. Cost(job[w].case) \in Nat
      BY <2>2, CostType
    <3>3. i.balance >= Cost(i.case)
      BY <2>2, <2>4, <3>1, <3>2
    <3>4. Ready(i, "unbox_begin")
      BY <2>2, <3>1, <3>3 DEF Ready, Labels, OutsideTx, OnProgress,
         OnChallenge, OnCreation, AfterCommit
    <3>5. Sound(At(i, "unbox_begin")) /\ At(i, "unbox_begin").pc = "unbox_begin"
      BY <3>1, <3>4, AtSound
    <3> QED
      BY <2>1, <2>4, <3>5, ReadLegal DEF Inside, InsideTx
  <2>5. [job[w] EXCEPT !.pc = "unbox_begin", !.balance = has]
          = At(i, "unbox_begin")
    BY <1>h DEF At, Shape, Fields
  <2> QED
    BY <1>2, <2>3, <2>4, <2>5 DEF UnboxLoadUser
<1>3. CASE UnboxBegin(w)
  <2>1. job[w].pc = "unbox_begin" /\ ~Inside(job[w])
    BY <1>3 DEF UnboxBegin, BeginAt, Running, Inside, InsideTx
  <2>2. Ready(job[w], "deduct")
    BY <1>h, <2>1 DEF Ready, Labels, InsideTx, OnProgress, OnChallenge, OnCreation, AfterCommit
  <2>3. Sound(At(job[w], "deduct")) /\ At(job[w], "deduct").pc = "deduct"
    BY <1>h, <2>2, AtSound
  <2> QED
    BY <1>3, <1>i, <2>1, <2>3, BeginLegal DEF UnboxBegin, Inside, InsideTx
<1>4. CASE DeductBalance(w)
  <2>1. job[w].pc = "deduct" /\ Inside(job[w])
    BY <1>4 DEF DeductBalance, Running, Inside, InsideTx
  <2>2. job[w].case \in Cases /\ job[w].balance >= Cost(job[w].case)
    BY <1>h, <2>1 DEF Ready
  <2>3. job[w].balance - Cost(job[w].case) \in Nat
    BY <1>h, <2>2, CostType DEF Shape
  <2> QED
    BY <1>4, <1>h, <1>f, <2>1, <2>3, PayLegal
       DEF DeductBalance, Inside, InsideTx, Free
<1>5. CASE DrawSkin(w)
  <2>1. Inside(job[w])
    BY <1>5 DEF DrawSkin, Running, Inside, InsideTx
  <2>2. CASE Read(w, At(job[w], "rollback"))
    BY <1>f, <2>1, <2>2, ReadLegal DEF Inside, InsideTx, Free
  <2>3. ASSUME NEW x,
               Read(w, [job[w] EXCEPT !.pc = "create_item", !.item = x])
        PROVE  Legal(w)
    <3> DEFINE i == At(job[w], "create_item")
               k == [i EXCEPT !.item = x]
    <3>1. Sound(i) /\ i.pc = "create_item"
      BY <1>f DEF Free
    <3>2. Read(w, k)
      BY <2>3 DEF At
    <3> HIDE DEF i
    <3>3. Sound(k) /\ k.pc = i.pc
      BY <3>1, AnyValue
    <3> HIDE DEF k
    <3>4. Inside(k)
      BY <3>1, <3>3 DEF Inside, InsideTx
    <3> QED
      BY <2>1, <3>2, <3>3, <3>4, ReadLegal
  <2> QED
    BY <1>5, <2>2, <2>3 DEF DrawSkin
<1>6. CASE CreateSkinInstance(w)
  <2>1. Inside(job[w])
    BY <1>6 DEF CreateSkinInstance, Running, Inside, InsideTx
  <2>2. CASE Read(w, At(job[w], "rollback"))
    BY <1>f, <2>1, <2>2, ReadLegal DEF Inside, InsideTx, Free
  <2>3. \A k, x : Rows([tables EXCEPT !.items[k] = x])
    BY <1>h, OtherRows
  <2> QED
    BY <1>6, <1>f, <2>1, <2>2, <2>3, WriteLegal
       DEF CreateSkinInstance, Inside, InsideTx, Free
<1>7. CASE TakeItemId(w)
  <2> DEFINE i == At(job[w], "give")
  <2>4. Sound(i) /\ i.pc = "give"
    BY <1>f DEF Free
  <2>1. Sound([i EXCEPT !.row = lastRow]) /\ Inside([i EXCEPT !.row = lastRow])
    BY <2>4, AnyValue DEF Inside, InsideTx
  <2>2. [job[w] EXCEPT !.pc = "give", !.row = lastRow] = [i EXCEPT !.row = lastRow]
    BY DEF At
  <2>3. Inside(job[w])
    BY <1>7 DEF TakeItemId, Running, Inside, InsideTx
  <2> QED
    BY <1>7, <2>1, <2>2, <2>3, ReadLegal DEF TakeItemId
<1>8. CASE AddToInventory(w)
  <2>1. Inside(job[w])
    BY <1>8 DEF AddToInventory, Running, Inside, InsideTx
  <2>2. Rows([tables EXCEPT !.inventory = @ \cup {<<job[w].user, job[w].row>>}])
    BY <1>h, OtherRows
  <2>3. /\ Sound(At(job[w], "commit")) /\ Inside(At(job[w], "commit"))
        /\ Sound(At(job[w], "rollback")) /\ Inside(At(job[w], "rollback"))
    BY <1>f DEF Inside, InsideTx, Free
  <2>4. CASE Read(w, At(job[w], "rollback"))
    BY <2>1, <2>3, <2>4, ReadLegal
  <2>5. CASE Write(w, tables, At(job[w], "commit"), At(job[w], "rollback"))
    BY <1>h, <2>1, <2>3, <2>5, WriteLegal
  <2>6. CASE WriteNew(w,
               [tables EXCEPT !.inventory = @ \cup {<<job[w].user, job[w].row>>}],
               OtherRow, At(job[w], "commit"), At(job[w], "rollback"))
    BY <2>1, <2>2, <2>3, <2>6, WriteLegal
  <2> QED
    BY <1>8, <2>4, <2>5, <2>6 DEF AddToInventory
<1> QED
  BY <1>1, <1>2, <1>3, <1>4, <1>5, <1>6, <1>7, <1>8 DEF Unbox

LEMMA AfterCommitSound ==
  ASSUME NEW j, Shape(j), j.kind = "unbox", NEW label \in AfterCommit
  PROVE  Sound(At(j, label)) /\ At(j, label).pc = label
<1>1. Ready(j, label)
  BY DEF AfterCommit, Ready, Labels, OutsideTx, InsideTx, OnProgress,
     OnChallenge, OnCreation
<1> QED
  BY <1>1, AtSound

LEMMA AfterUnboxLegal ==
  ASSUME Inv, NEW w \in Workers, AfterUnbox(w)
  PROVE  Legal(w)
<1>h. /\ Sound(job[w]) /\ Shape(job[w]) /\ Ready(job[w], job[w].pc)
      /\ Rows(tables)
  BY Handling
<1>k. job[w].pc \in AfterCommit => job[w].kind = "unbox"
  BY <1>h DEF Ready
<1>a. job[w].pc \in AfterCommit =>
        \A label \in AfterCommit : /\ Sound(At(job[w], label))
                                   /\ At(job[w], label).pc = label
  BY <1>h, <1>k, AfterCommitSound
<1>f. \A label \in Free : /\ Sound(At(job[w], label))
                          /\ At(job[w], label).pc = label
  BY <1>h, FreeSound
<1>i. Sound(Idle) /\ ~Inside(Idle)
  BY IdleSound
<1>1. CASE UnboxLog(w)
  BY <1>1, <1>a, <1>h, WriteLegal
     DEF UnboxLog, Running, AfterCommit, Inside, InsideTx
<1>2. CASE NextCall(w)
  BY <1>2, <1>a, ReadLegal DEF NextCall, Running, AfterCommit, Inside, InsideTx
<1>3. CASE CallBegin(w)
  <2>1. PICK c :
          LET called == [job[w] EXCEPT !.call = c] IN
          BeginAt(w, "call", At(called, "call_load"), called)
    BY <1>3 DEF CallBegin
  <2> DEFINE called == [job[w] EXCEPT !.call = c]
  <2>2. job[w].pc = "call" /\ ~Inside(job[w])
    BY <2>1 DEF BeginAt, Running, Inside, InsideTx
  <2>3. Sound(called) /\ called.pc = "call"
    BY <1>h, <2>2, AnyValue
  <2>4. Shape(called) /\ called.kind = "unbox"
    BY <2>3 DEF Sound, Ready, AfterCommit
  <2>5. Sound(At(called, "call_load")) /\ At(called, "call_load").pc = "call_load"
    BY <2>4, AfterCommitSound DEF AfterCommit
  <2> QED
    BY <2>1, <2>2, <2>3, <2>5, BeginLegal DEF Inside, InsideTx
<1>4. CASE CallLoad(w)
  <2>1. job[w].pc \in AfterCommit /\ Inside(job[w])
    BY <1>4 DEF CallLoad, Running, AfterCommit, Inside, InsideTx
  <2>2. /\ Sound(At(job[w], "call_rollback")) /\ Inside(At(job[w], "call_rollback"))
        /\ Sound(At(job[w], "call_write")) /\ Inside(At(job[w], "call_write"))
        /\ At(job[w], "call_write").pc = "call_write"
    BY <1>a, <2>1 DEF AfterCommit, Inside, InsideTx
  <2>3. CASE \/ Read(w, At(job[w], "call_rollback"))
             \/ Read(w, At(job[w], "call_write"))
    BY <2>1, <2>2, <2>3, ReadLegal
  <2>4. ASSUME NEW x,
               Read(w, [job[w] EXCEPT !.pc = "call_write", !.progress = x])
        PROVE  Legal(w)
    <3> DEFINE i == At(job[w], "call_write")
    <3>1. Sound([i EXCEPT !.progress = x]) /\ [i EXCEPT !.progress = x].pc = i.pc
      BY <2>2, AnyValue
    <3>2. [job[w] EXCEPT !.pc = "call_write", !.progress = x]
            = [i EXCEPT !.progress = x]
      BY DEF At
    <3> QED
      BY <2>1, <2>2, <2>4, <3>1, <3>2, ReadLegal DEF Inside
  <2> QED
    BY <1>4, <2>3, <2>4 DEF CallLoad
<1>5. CASE CallWrite(w)
  <2>1. job[w].pc \in AfterCommit /\ Inside(job[w])
    BY <1>5 DEF CallWrite, Running, AfterCommit, Inside, InsideTx
  <2>2. /\ Sound(At(job[w], "call_rollback")) /\ Inside(At(job[w], "call_rollback"))
        /\ Sound(At(job[w], "call_commit")) /\ Inside(At(job[w], "call_commit"))
    BY <1>a, <2>1 DEF AfterCommit, Inside, InsideTx
  <2>3. /\ Rows([tables EXCEPT !.knife = @ \cup {job[w].user}])
        /\ Rows([tables EXCEPT
                   !.progress[job[w].user][QuestOf(job[w].call)] = job[w].progress])
    BY <1>h, OtherRows
  <2> QED
    BY <1>5, <2>1, <2>2, <2>3, WriteLegal DEF CallWrite
<1>6. CASE CallCommit(w)
  BY <1>6, <1>a, CommitLegal
     DEF CallCommit, CommitAt, Running, AfterCommit, Inside, InsideTx
<1>7. CASE CallRollback(w)
  BY <1>7, <1>a
     DEF CallRollback, Running, AfterCommit, Inside, InsideTx, Legal, Step
<1>8. CASE ListChallenges(w)
  <2> DEFINE s == {c \in ChallengeIds :
                     /\ tables.challenges[c].status = "active"
                     /\ job[w].user \in {tables.challenges[c].challenger,
                                          tables.challenges[c].opponent}}
             i == At(job[w], "next")
  <2>1. job[w].pc \in AfterCommit /\ ~Inside(job[w])
    BY <1>8 DEF ListChallenges, Running, AfterCommit, Inside, InsideTx
  <2>2. Sound(i) /\ i.pc = "next"
    BY <1>a, <2>1 DEF AfterCommit
  <2>3. Shape([i EXCEPT !.rest = s]) /\ Ready([i EXCEPT !.rest = s], "next")
    BY <2>2, NewRest DEF Sound
  <2>4. [i EXCEPT !.rest = s].pc = "next"
    BY <2>2 DEF Sound, Shape, Fields
  <2>5. [job[w] EXCEPT !.pc = "next", !.rest = s] = [i EXCEPT !.rest = s]
    BY DEF At
  <2>6. Read(w, [i EXCEPT !.rest = s])
    BY <1>8, <2>5 DEF ListChallenges
  <2> QED
    BY <2>1, <2>3, <2>4, <2>6, ReadLegal DEF Sound, Inside, InsideTx
<1>9. CASE NextChallenge(w)
  <2>1. job[w].pc = "next" /\ job[w].kind = "unbox" /\ ~Inside(job[w])
    BY <1>9, <1>k DEF NextChallenge, Running, AfterCommit, Inside, InsideTx
  <2>2. CASE Read(w, At(job[w], "broadcast")) \/ Read(w, Idle)
    BY <1>f, <1>i, <2>1, <2>2, ReadLegal DEF Free, Inside, InsideTx
  <2>3. ASSUME NEW c \in job[w].rest,
               Read(w, [job[w] EXCEPT !.pc = "progress_load", !.id = c,
                                      !.rest = @ \ {c}])
        PROVE  Legal(w)
    <3> DEFINE i == [job[w] EXCEPT !.id = c]
               k == [i EXCEPT !.rest = job[w].rest \ {c}]
    <3>1. c \in ChallengeIds /\ job[w].rest \ {c} \in SUBSET ChallengeIds
      BY <1>h DEF Shape
    <3>2. Shape(i) /\ i.id = c /\ i.kind = "unbox"
      BY <1>h, <2>1, <3>1, NewId
    <3>3. Ready(i, "progress_load")
      BY <3>1, <3>2 DEF Ready, Labels, OutsideTx, OnProgress, OnChallenge,
         OnCreation, AfterCommit
    <3>4. Shape(k) /\ Ready(k, "progress_load")
      BY <3>1, <3>2, <3>3, NewRest
    <3>5. /\ Sound(At(k, "progress_load"))
          /\ At(k, "progress_load").pc = "progress_load"
      BY <3>4, AtSound
    <3>6. [job[w] EXCEPT !.pc = "progress_load", !.id = c, !.rest = @ \ {c}]
            = At(k, "progress_load")
      BY <1>h DEF At, Shape, Fields
    <3> QED
      BY <2>1, <2>3, <3>5, <3>6, ReadLegal DEF Inside, InsideTx
  <2> QED
    BY <1>9, <2>2, <2>3 DEF NextChallenge
<1>10. CASE BroadcastRareUnbox(w)
  BY <1>10, <1>h, <1>i, WriteLegal DEF BroadcastRareUnbox, Running, Inside, InsideTx
<1> QED
  BY <1>1, <1>2, <1>3, <1>4, <1>5, <1>6, <1>7, <1>8, <1>9, <1>10 DEF AfterUnbox

(* Labels at which a handler needs no more than the id of the challenge. *)
WithId == {"accept_load", "accept_write", "reload", "complete_begin",
           "complete_write", "vote_load", "vote", "votes", "cancel",
           "penalty_pay", "penalty_write"}

LEMMA WithIdSound ==
  ASSUME NEW j, Shape(j), j.id \in ChallengeIds, NEW label \in WithId
  PROVE  Sound(At(j, label)) /\ At(j, label).pc = label
<1>1. Ready(j, label)
  BY DEF WithId, Ready, Labels, OutsideTx, InsideTx, OnProgress, OnChallenge,
     OnCreation, AfterCommit
<1> QED
  BY <1>1, AtSound

LEMMA OnProgressSound ==
  ASSUME NEW j, Shape(j), j.id \in ChallengeIds,
         j.kind \in {"unbox", "complete", "progress"}, NEW label \in OnProgress
  PROVE  Sound(At(j, label)) /\ At(j, label).pc = label
<1>1. Ready(j, label)
  BY DEF OnProgress, Ready, Labels, OutsideTx, InsideTx, OnChallenge,
     OnCreation, AfterCommit
<1> QED
  BY <1>1, AtSound

(* update_challenge_progress returns to who called it. *)
LEMMA ReturnSound ==
  ASSUME NEW j, Shape(j), j.id \in ChallengeIds,
         j.kind \in {"unbox", "complete", "progress"}
  PROVE  Sound(Return(j)) /\ ~Inside(Return(j))
<1>1. CASE j.kind = "unbox"
  <2>1. Sound(At(j, "next")) /\ At(j, "next").pc = "next"
    BY <1>1, AfterCommitSound DEF AfterCommit
  <2> QED
    BY <1>1, <2>1 DEF Return, Inside, InsideTx
<1>2. CASE j.kind = "complete"
  <2>1. Sound(At(j, "reload")) /\ At(j, "reload").pc = "reload"
    BY WithIdSound DEF WithId
  <2> QED
    BY <1>2, <2>1 DEF Return, Inside, InsideTx
<1>3. CASE j.kind = "progress"
  BY <1>3, IdleSound DEF Return
<1> QED
  BY <1>1, <1>2, <1>3

LEMMA ProgressLegal ==
  ASSUME Inv, NEW w \in Workers, Progress(w)
  PROVE  Legal(w)
<1>h. /\ Sound(job[w]) /\ Shape(job[w]) /\ Ready(job[w], job[w].pc)
      /\ Rows(tables)
      /\ \A c \in ChallengeIds : Row(tables.challenges[c])
  BY Handling
<1>k. job[w].pc \in OnProgress =>
        /\ job[w].id \in ChallengeIds
        /\ job[w].kind \in {"unbox", "complete", "progress"}
        /\ \A label \in OnProgress : /\ Sound(At(job[w], label))
                                     /\ At(job[w], label).pc = label
        /\ Sound(Return(job[w])) /\ ~Inside(Return(job[w]))
  BY <1>h, OnProgressSound, ReturnSound DEF Ready, OnChallenge
<1>1. CASE UpdateChallengeProgress(w)
  <2>1. PICK c \in ChallengeIds :
          Become(w, [Idle EXCEPT !.pc = "progress_load", !.kind = "progress",
                                 !.id = c])
    BY <1>1 DEF UpdateChallengeProgress
  <2> DEFINE j == [Idle EXCEPT !.pc = "progress_load", !.kind = "progress", !.id = c]
  <2>2. j = [[[Idle EXCEPT !.pc = "progress_load"] EXCEPT !.kind = "progress"]
               EXCEPT !.id = c]
    OBVIOUS
  <2>3. Fields(j)
    BY <2>2, StartShape, SetFields
  <2>4. /\ j.pc = "progress_load" /\ j.kind = "progress" /\ j.id = c
        /\ j.balance = Idle.balance /\ j.rest = Idle.rest
        /\ j.winner = Idle.winner
    BY DEF Idle
  <2>5. Shape(j)
    BY <2>3, <2>4, StartShape
  <2>6. Sound(j) /\ ~Inside(j)
    BY <2>4, <2>5 DEF Sound, Ready, Inside, Labels, OutsideTx, InsideTx,
       OnProgress, OnChallenge, OnCreation, AfterCommit
  <2>7. ~Inside(job[w]) /\ Keeps(tables)
    BY <1>1 DEF UpdateChallengeProgress, Request, Inside, InsideTx, Keeps, connection
  <2> QED
    BY <2>1, <2>6, <2>7 DEF Legal, Step
<1>2. CASE LoadForProgress(w)
  <2>1. job[w].pc \in OnProgress /\ ~Inside(job[w])
    BY <1>2 DEF LoadForProgress, Running, OnProgress, Inside, InsideTx
  <2>2. CASE Read(w, Return(job[w]))
    BY <1>k, <2>1, <2>2, ReadLegal
  <2>3. ASSUME NEW x, Read(w, [job[w] EXCEPT !.pc = "worth_a", !.challenge = x])
        PROVE  Legal(w)
    <3> DEFINE i == At(job[w], "worth_a")
               k == [i EXCEPT !.challenge = x]
    <3>1. Sound(i) /\ i.pc = "worth_a"
      BY <1>k, <2>1 DEF OnProgress
    <3>2. Shape(k) /\ Ready(k, "worth_a")
      BY <3>1, NewChallenge DEF Sound, OnCreation
    <3>3. k.pc = "worth_a"
      BY <3>1 DEF Sound, Shape, Fields
    <3>4. [job[w] EXCEPT !.pc = "worth_a", !.challenge = x] = k
      BY DEF At
    <3> QED
      BY <2>1, <2>3, <3>2, <3>3, <3>4, ReadLegal DEF Sound, Inside, InsideTx
  <2> QED
    BY <1>2, <2>2, <2>3 DEF LoadForProgress
<1>3. CASE WorthOfChallenger(w)
  <2> DEFINE i == At(job[w], "worth_b")
             x == NetWorth(tables, job[w].challenge.challenger)
  <2>1. job[w].pc \in OnProgress /\ ~Inside(job[w])
    BY <1>3 DEF WorthOfChallenger, Running, OnProgress, Inside, InsideTx
  <2>2. Sound(i) /\ i.pc = "worth_b"
    BY <1>k, <2>1 DEF OnProgress
  <2>3. Sound([i EXCEPT !.worth = x]) /\ [i EXCEPT !.worth = x].pc = "worth_b"
    BY <2>2, AnyValue
  <2>4. [job[w] EXCEPT !.pc = "worth_b", !.worth = x] = [i EXCEPT !.worth = x]
    BY DEF At
  <2>5. Read(w, [i EXCEPT !.worth = x])
    BY <1>3, <2>4 DEF WorthOfChallenger
  <2> QED
    BY <2>1, <2>3, <2>5, ReadLegal DEF Inside, InsideTx
<1>4. CASE WorthOfOpponent(w)
  <2>1. job[w].pc \in OnProgress /\ ~Inside(job[w])
    BY <1>4 DEF WorthOfOpponent, Running, OnProgress, Inside, InsideTx
  <2>2. PICK x, y :
          Read(w, [job[w] EXCEPT !.pc = "progress_write",
                                 !.challenge.challenger_profit = x,
                                 !.challenge.opponent_profit = y])
    BY <1>4 DEF WorthOfOpponent
  <2> DEFINE i == At(job[w], "progress_write")
             j == [i EXCEPT !.challenge = [i.challenge EXCEPT !.challenger_profit = x]]
             k == [j EXCEPT !.challenge = [j.challenge EXCEPT !.opponent_profit = y]]
  <2>3. Sound(i) /\ i.pc = "progress_write"
    BY <1>k, <2>1 DEF OnProgress
  <2>4. Shape(j) /\ Ready(j, "progress_write")
    BY <2>3, NewChallenge DEF Sound, OnCreation
  <2>5. j.pc = "progress_write"
    BY <2>3 DEF Sound, Shape, Fields
  <2> HIDE DEF j
  <2>6. Shape(k) /\ Ready(k, "progress_write")
    BY <2>4, NewChallenge DEF OnCreation
  <2>7. k.pc = "progress_write"
    BY <2>4, <2>5 DEF Shape, Fields
  <2>8. [job[w] EXCEPT !.pc = "progress_write",
                       !.challenge.challenger_profit = x,
                       !.challenge.opponent_profit = y] = k
    BY DEF At, j
  <2> QED
    BY <2>1, <2>2, <2>6, <2>7, <2>8, ReadLegal DEF Sound, Inside, InsideTx
<1>5. CASE SaveProgress(w)
  <2>1. job[w].pc \in OnProgress /\ ~Inside(job[w])
    BY <1>5 DEF SaveProgress, Running, OnProgress, Inside, InsideTx
  <2>2. PICK x, y :
          WriteChallenge(w, job[w].id,
            [tables.challenges[job[w].id] EXCEPT !.challenger_profit = x,
                                                 !.opponent_profit = y],
            Return(job[w]), Return(job[w]))
    BY <1>5 DEF SaveProgress
  <2>3. tables.challenges[job[w].id].status # "none" =>
          Row([tables.challenges[job[w].id] EXCEPT !.challenger_profit = x,
                                                   !.opponent_profit = y])
    BY <1>h, <1>k, <2>1, UpdatedRow
  <2> QED
    BY <1>h, <1>k, <2>1, <2>2, <2>3, WriteChallengeLegal
<1> QED
  BY <1>1, <1>2, <1>3, <1>4, <1>5 DEF Progress

LEMMA ArrangeLegal ==
  ASSUME Inv, NEW w \in Workers, Arrange(w)
  PROVE  Legal(w)
<1>h. /\ Sound(job[w]) /\ Shape(job[w]) /\ Ready(job[w], job[w].pc)
      /\ Rows(tables)
      /\ \A c \in ChallengeIds : Row(tables.challenges[c])
  BY Handling
<1>i. Sound(Idle) /\ ~Inside(Idle)
  BY IdleSound
<1>k. job[w].pc \in OnCreation =>
        Columns(job[w].challenge) /\ Seated(job[w].challenge)
  BY <1>h DEF Ready
<1>r. ASSUME NEW j, Shape(j), Columns(j.challenge), Seated(j.challenge),
             NEW label \in OnCreation, j.pc = label
      PROVE  Sound(j) /\ ~Inside(j)
  BY <1>r DEF Sound, Ready, OnCreation, Inside, Labels, OutsideTx, InsideTx,
     OnProgress, OnChallenge, AfterCommit
<1>1. CASE CreateChallenge(w)
  <2>1. PICK u \in Users, v \in Users :
          Become(w, [Idle EXCEPT !.pc = "create_a", !.kind = "create",
                       !.challenge = [NoChallenge EXCEPT !.challenger = u,
                                        !.opponent = v, !.status = "pending"]])
    BY <1>1 DEF CreateChallenge
  <2> DEFINE r == [NoChallenge EXCEPT !.challenger = u, !.opponent = v,
                                      !.status = "pending"]
             j == [Idle EXCEPT !.pc = "create_a", !.kind = "create", !.challenge = r]
  <2>2. Columns(r) /\ Seated(r)
    <3>1. r = [[[NoChallenge EXCEPT !.challenger = u] EXCEPT !.opponent = v]
                 EXCEPT !.status = "pending"]
      OBVIOUS
    <3>2. Columns(NoChallenge)
      BY DEF Columns, NoChallenge
    <3>3. r.challenger = u /\ r.opponent = v
      BY DEF NoChallenge
    <3> QED
      BY <3>1, <3>2, <3>3, SetPlayers DEF Seated
  <2> HIDE DEF r
  <2>3. j = [[[Idle EXCEPT !.pc = "create_a"] EXCEPT !.kind = "create"]
               EXCEPT !.challenge = r]
    OBVIOUS
  <2>4. Fields(j)
    BY <2>3, StartShape, SetFields
  <2>5. /\ j.pc = "create_a" /\ j.challenge = r
        /\ j.balance = Idle.balance /\ j.rest = Idle.rest
        /\ j.winner = Idle.winner
    BY DEF Idle
  <2>6. Shape(j)
    BY <2>4, <2>5, StartShape
  <2>7. Sound(j) /\ ~Inside(j)
    BY <1>r, <2>2, <2>5, <2>6 DEF OnCreation
  <2>8. ~Inside(job[w]) /\ Keeps(tables)
    BY <1>1 DEF CreateChallenge, Request, Inside, InsideTx, Keeps, connection
  <2>9. Become(w, j)
    BY <2>1 DEF r
  <2> QED
    BY <2>7, <2>8, <2>9 DEF Legal, Step
<1>2. CASE StartOfChallenger(w)
  <2>1. PICK x : Read(w, [job[w] EXCEPT !.pc = "create_b",
                                        !.challenge.challenger_start = x])
    BY <1>2 DEF StartOfChallenger
  <2>2. job[w].pc \in OnCreation /\ ~Inside(job[w])
    BY <1>2 DEF StartOfChallenger, Running, OnCreation, Inside, InsideTx
  <2> DEFINE r == [job[w].challenge EXCEPT !.challenger_start = x]
             i == [job[w] EXCEPT !.challenge = r]
  <2>3. Columns(r) /\ Seated(r)
    BY <1>k, <2>2, StaysSeated
  <2> HIDE DEF r
  <2>4. Shape(i) /\ i.challenge = r
    BY <1>h, NewChallenge
  <2>5. Shape(At(i, "create_b")) /\ At(i, "create_b").pc = "create_b"
        /\ At(i, "create_b").challenge = r
    BY <2>4, AtShape
  <2>6. [job[w] EXCEPT !.pc = "create_b", !.challenge.challenger_start = x]
          = At(i, "create_b")
    BY <1>h DEF At, Shape, Fields, r
  <2> QED
    BY <1>r, <2>1, <2>2, <2>3, <2>5, <2>6, ReadLegal DEF OnCreation
<1>3. CASE StartOfOpponent(w)
  <2>1. PICK x : Read(w, [job[w] EXCEPT !.pc = "create_save",
                                        !.challenge.opponent_start = x])
    BY <1>3 DEF StartOfOpponent
  <2>2. job[w].pc \in OnCreation /\ ~Inside(job[w])
    BY <1>3 DEF StartOfOpponent, Running, OnCreation, Inside, InsideTx
  <2> DEFINE r == [job[w].challenge EXCEPT !.opponent_start = x]
             i == [job[w] EXCEPT !.challenge = r]
  <2>3. Columns(r) /\ Seated(r)
    BY <1>k, <2>2, StaysSeated
  <2> HIDE DEF r
  <2>4. Shape(i) /\ i.challenge = r
    BY <1>h, NewChallenge
  <2>5. Shape(At(i, "create_save")) /\ At(i, "create_save").pc = "create_save"
        /\ At(i, "create_save").challenge = r
    BY <2>4, AtShape
  <2>6. [job[w] EXCEPT !.pc = "create_save", !.challenge.opponent_start = x]
          = At(i, "create_save")
    BY <1>h DEF At, Shape, Fields, r
  <2> QED
    BY <1>r, <2>1, <2>2, <2>3, <2>5, <2>6, ReadLegal DEF OnCreation
<1>4. CASE SaveChallenge(w)
  <2>1. job[w].pc \in OnCreation /\ ~Inside(job[w])
    BY <1>4 DEF SaveChallenge, Running, OnCreation, Inside, InsideTx
  <2>2. Row([job[w].challenge EXCEPT !.started = now])
    BY <1>k, <2>1, StaysSeated DEF Row
  <2>3. \A c \in ChallengeIds :
          Rows([tables EXCEPT !.challenges[c] =
                  [job[w].challenge EXCEPT !.started = now]])
    BY <1>h, <2>2, ChallengeRows
  <2>4. CASE Read(w, Idle)
    BY <1>i, <2>1, <2>4, ReadLegal
  <2>5. ASSUME NEW c \in ChallengeIds,
               WriteNew(w, [tables EXCEPT !.challenges[c] =
                              [job[w].challenge EXCEPT !.started = now]],
                        c, Idle, Idle)
        PROVE  Legal(w)
    BY <1>i, <2>1, <2>3, <2>5, WriteLegal
  <2> QED
    BY <1>4, <2>4, <2>5 DEF SaveChallenge, NextId
<1>5. CASE AcceptChallenge(w)
  <2>1. PICK c \in ChallengeIds :
          Become(w, [Idle EXCEPT !.pc = "accept_load", !.kind = "accept", !.id = c])
    BY <1>5 DEF AcceptChallenge
  <2> DEFINE j == [Idle EXCEPT !.pc = "accept_load", !.kind = "accept", !.id = c]
  <2>2. j = [[[Idle EXCEPT !.pc = "accept_load"] EXCEPT !.kind = "accept"]
               EXCEPT !.id = c]
    OBVIOUS
  <2>3. Fields(j)
    BY <2>2, StartShape, SetFields
  <2>4. /\ j.pc = "accept_load" /\ j.id = c
        /\ j.balance = Idle.balance /\ j.rest = Idle.rest
        /\ j.winner = Idle.winner
    BY DEF Idle
  <2>5. Shape(j)
    BY <2>3, <2>4, StartShape
  <2>6. Sound(j) /\ ~Inside(j)
    BY <2>4, <2>5 DEF Sound, Ready, Inside, Labels, OutsideTx, InsideTx,
       OnProgress, OnChallenge, OnCreation, AfterCommit
  <2>7. ~Inside(job[w]) /\ Keeps(tables)
    BY <1>5 DEF AcceptChallenge, Request, Inside, InsideTx, Keeps, connection
  <2> QED
    BY <2>1, <2>6, <2>7 DEF Legal, Step
<1>6. CASE AcceptLoad(w)
  <2>1. job[w].pc = "accept_load" /\ ~Inside(job[w])
    BY <1>6 DEF AcceptLoad, Running, Inside, InsideTx
  <2>2. job[w].id \in ChallengeIds
    BY <1>h, <2>1 DEF Ready, OnChallenge
  <2>3. /\ Sound(At(job[w], "accept_write"))
        /\ At(job[w], "accept_write").pc = "accept_write"
    BY <1>h, <2>2, WithIdSound DEF WithId
  <2>4. Read(w, At(job[w], "accept_write")) \/ Read(w, Idle)
    BY <1>6 DEF AcceptLoad
  <2> QED
    BY <1>i, <2>1, <2>3, <2>4, ReadLegal DEF Inside, InsideTx
<1>7. CASE AcceptWrite(w)
  <2>1. job[w].pc = "accept_write" /\ ~Inside(job[w])
    BY <1>7 DEF AcceptWrite, Running, Inside, InsideTx
  <2>2. job[w].id \in ChallengeIds
    BY <1>h, <2>1 DEF Ready, OnChallenge
  <2>3. tables.challenges[job[w].id].status # "none" =>
          Row([tables.challenges[job[w].id] EXCEPT !.status = "active",
                                                   !.started = now])
    BY <1>h, <2>2, UpdatedRow
  <2> QED
    BY <1>7, <1>h, <1>i, <2>1, <2>2, <2>3, WriteChallengeLegal DEF AcceptWrite
<1> QED
  BY <1>1, <1>2, <1>3, <1>4, <1>5, <1>6, <1>7 DEF Arrange

LEMMA WinnerIsPlayer ==
  ASSUME NEW r, Row(r), r.status # "none"
  PROVE  Winner(r) \in Users \cup {Nobody}
BY DEF Winner, Row, Seated

LEMMA CompleteLegal ==
  ASSUME Inv, NEW w \in Workers, Complete(w)
  PROVE  Legal(w)
<1>h. /\ Sound(job[w]) /\ Shape(job[w]) /\ Ready(job[w], job[w].pc)
      /\ Rows(tables)
      /\ \A c \in ChallengeIds : Row(tables.challenges[c])
      /\ \A u \in Users : tables.balance[u] \in Nat
  BY Handling
<1>i. Sound(Idle) /\ ~Inside(Idle)
  BY IdleSound
<1>f. \A label \in Free : /\ Sound(At(job[w], label))
                          /\ At(job[w], label).pc = label
  BY <1>h, FreeSound
<1>w. job[w].pc \in OnChallenge =>
        /\ job[w].id \in ChallengeIds
        /\ \A label \in WithId : /\ Sound(At(job[w], label))
                                 /\ At(job[w], label).pc = label
  BY <1>h, WithIdSound DEF Ready
<1>1. CASE CompleteChallenge(w)
  <2>1. PICK c \in ChallengeIds :
          Become(w, [Idle EXCEPT !.pc = "complete_load", !.kind = "complete",
                                 !.id = c])
    BY <1>1 DEF CompleteChallenge
  <2> DEFINE j == [Idle EXCEPT !.pc = "complete_load", !.kind = "complete", !.id = c]
  <2>2. j = [[[Idle EXCEPT !.pc = "complete_load"] EXCEPT !.kind = "complete"]
               EXCEPT !.id = c]
    OBVIOUS
  <2>3. Fields(j)
    BY <2>2, StartShape, SetFields
  <2>4. /\ j.pc = "complete_load" /\ j.kind = "complete" /\ j.id = c
        /\ j.balance = Idle.balance /\ j.rest = Idle.rest
        /\ j.winner = Idle.winner
    BY DEF Idle
  <2>5. Shape(j)
    BY <2>3, <2>4, StartShape
  <2>6. Sound(j) /\ ~Inside(j)
    BY <2>4, <2>5 DEF Sound, Ready, Inside, Labels, OutsideTx, InsideTx,
       OnProgress, OnChallenge, OnCreation, AfterCommit
  <2>7. ~Inside(job[w]) /\ Keeps(tables)
    BY <1>1 DEF CompleteChallenge, Request, Inside, InsideTx, Keeps, connection
  <2> QED
    BY <2>1, <2>6, <2>7 DEF Legal, Step
<1>2. CASE CompleteLoad(w)
  <2> DEFINE row == tables.challenges[job[w].id]
             i == [job[w] EXCEPT !.winner = Winner(row)]
  <2>1. job[w].pc = "complete_load" /\ ~Inside(job[w])
    BY <1>2 DEF CompleteLoad, Running, Inside, InsideTx
  <2>2. job[w].id \in ChallengeIds /\ job[w].kind = "complete"
    BY <1>h, <2>1 DEF Ready, OnChallenge
  <2>3. CASE Read(w, Idle)
    BY <1>i, <2>1, <2>3, ReadLegal
  <2>4. CASE /\ row.status = "active"
             /\ Read(w, [job[w] EXCEPT !.pc = "progress_load", !.winner = Winner(row)])
    <3>1. Ready(job[w], "progress_load")
      BY <2>2 DEF Ready, Labels, OutsideTx, OnProgress, OnChallenge, OnCreation,
         AfterCommit
    <3>2. Winner(row) \in Users \cup {Nobody}
      BY <1>h, <2>2, <2>4, WinnerIsPlayer
    <3>3. Shape(i) /\ Ready(i, "progress_load")
      BY <1>h, <3>1, <3>2, NewWinner
    <3>4. Sound(At(i, "progress_load")) /\ At(i, "progress_load").pc = "progress_load"
      BY <3>3, AtSound
    <3>5. [job[w] EXCEPT !.pc = "progress_load", !.winner = Winner(row)]
            = At(i, "progress_load")
      BY <1>h DEF At, Shape, Fields
    <3> QED
      BY <2>1, <2>4, <3>4, <3>5, ReadLegal DEF Inside, InsideTx
  <2> QED
    BY <1>2, <2>3, <2>4 DEF CompleteLoad
<1>3. CASE Reload(w)
  <2> DEFINE row == tables.challenges[job[w].id]
             x == IF row.status = "none" THEN job[w].winner ELSE Winner(row)
             i == [job[w] EXCEPT !.winner = x]
  <2>1. job[w].pc = "reload" /\ ~Inside(job[w])
    BY <1>3 DEF Reload, Running, Inside, InsideTx
  <2>2. job[w].id \in ChallengeIds
    BY <1>h, <2>1 DEF Ready, OnChallenge
  <2>3. x \in Users \cup {Nobody}
    BY <1>h, <2>2, WinnerIsPlayer DEF Shape
  <2>4. Ready(job[w], "complete_begin")
    BY <2>2 DEF Ready, Labels, OutsideTx, OnProgress, OnChallenge, OnCreation,
       AfterCommit
  <2>5. [job[w] EXCEPT !.pc = "complete_begin",
                       !.winner = IF row.status = "none" THEN @ ELSE Winner(row)]
          = At(i, "complete_begin")
    BY <1>h DEF At, Shape, Fields
  <2>6. Read(w, At(i, "complete_begin"))
    BY <1>3, <2>5 DEF Reload
  <2> HIDE DEF x
  <2>7. Shape(i) /\ Ready(i, "complete_begin")
    BY <1>h, <2>3, <2>4, NewWinner
  <2>8. Sound(At(i, "complete_begin")) /\ At(i, "complete_begin").pc = "complete_begin"
    BY <2>7, AtSound
  <2> QED
    BY <2>1, <2>6, <2>8, ReadLegal DEF Inside, InsideTx
<1>4. CASE CompleteBegin(w)
  <2> DEFINE label == IF job[w].winner = Nobody THEN "complete_write"
                      ELSE "winner_load"
  <2>1. job[w].pc = "complete_begin" /\ ~Inside(job[w])
    BY <1>4 DEF CompleteBegin, BeginAt, Running, Inside, InsideTx
  <2>2. job[w].id \in ChallengeIds
    BY <1>h, <2>1 DEF Ready, OnChallenge
  <2>3. job[w].winner # Nobody => job[w].winner \in Users
    BY <1>h DEF Shape
  <2>4. Ready(job[w], label)
    BY <2>2, <2>3 DEF Ready, Labels, InsideTx, OnProgress, OnChallenge,
       OnCreation, AfterCommit
  <2>5. Sound(At(job[w], label)) /\ At(job[w], label).pc = label
    BY <1>h, <2>4, AtSound
  <2> QED
    BY <1>4, <1>i, <2>1, <2>5, BeginLegal DEF CompleteBegin, Inside, InsideTx
<1>5. CASE LoadWinner(w)
  <2> DEFINE has == tables.balance[job[w].winner]
             i == [job[w] EXCEPT !.balance = has]
  <2>1. job[w].pc = "winner_load" /\ Inside(job[w])
    BY <1>5 DEF LoadWinner, Running, Inside, InsideTx
  <2>2. job[w].id \in ChallengeIds /\ job[w].winner \in Users
    BY <1>h, <2>1 DEF Ready, OnChallenge
  <2>3. Ready(job[w], "winner_pay")
    BY <2>2 DEF Ready, Labels, InsideTx, OnProgress, OnChallenge, OnCreation,
       AfterCommit
  <2>4. Shape(i) /\ Ready(i, "winner_pay")
    BY <1>h, <2>2, <2>3, NewBalance
  <2>5. Sound(At(i, "winner_pay")) /\ At(i, "winner_pay").pc = "winner_pay"
    BY <2>4, AtSound
  <2>6. [job[w] EXCEPT !.pc = "winner_pay", !.balance = has] = At(i, "winner_pay")
    BY <1>h DEF At, Shape, Fields
  <2>7. Read(w, At(i, "winner_pay"))
    BY <1>5, <2>6 DEF LoadWinner
  <2> QED
    BY <2>1, <2>5, <2>7, ReadLegal DEF Inside, InsideTx
<1>6. CASE PayWinner(w)
  <2>1. job[w].pc = "winner_pay" /\ Inside(job[w])
    BY <1>6 DEF PayWinner, Running, Inside, InsideTx
  <2>2. job[w].balance + CHALLENGE_WINNER_REWARD_AMOUNT \in Nat
    BY <1>h DEF Shape, CHALLENGE_WINNER_REWARD_AMOUNT
  <2>3. /\ Sound(At(job[w], "complete_write")) /\ Inside(At(job[w], "complete_write"))
        /\ Sound(At(job[w], "rollback")) /\ Inside(At(job[w], "rollback"))
    BY <1>w, <1>f, <2>1 DEF WithId, OnChallenge, Free, Inside, InsideTx
  <2> QED
    BY <1>6, <1>h, <2>1, <2>2, <2>3, PayLegal DEF PayWinner
<1>7. CASE CompleteWrite(w)
  <2>1. job[w].pc = "complete_write" /\ Inside(job[w])
    BY <1>7 DEF CompleteWrite, Running, Inside, InsideTx
  <2>2. job[w].id \in ChallengeIds
    BY <1>w, <2>1 DEF OnChallenge
  <2>3. tables.challenges[job[w].id].status # "none" =>
          Row([tables.challenges[job[w].id] EXCEPT !.status = "completed"])
    BY <1>h, <2>2, UpdatedRow
  <2>4. /\ Sound(At(job[w], "commit")) /\ Inside(At(job[w], "commit"))
        /\ Sound(At(job[w], "rollback")) /\ Inside(At(job[w], "rollback"))
    BY <1>f DEF Free, Inside, InsideTx
  <2> QED
    BY <1>7, <1>h, <2>1, <2>2, <2>3, <2>4, WriteChallengeLegal DEF CompleteWrite
<1> QED
  BY <1>1, <1>2, <1>3, <1>4, <1>5, <1>6, <1>7 DEF Complete

LEMMA PenaltyType ==
  ASSUME NEW b \in Nat
  PROVE  Max({0, b - CHALLENGE_CANCEL_PENALTY_AMOUNT}) \in Nat
<1> DEFINE d == b - CHALLENGE_CANCEL_PENALTY_AMOUNT
<1>1. d \in Int
  BY DEF CHALLENGE_CANCEL_PENALTY_AMOUNT
<1> HIDE DEF d
<1>2. CASE d >= 0
  <2>1. d \in {0, d} /\ \A y \in {0, d} : d >= y
    BY <1>1, <1>2
  <2>2. \A x \in {0, d} : (\A y \in {0, d} : x >= y) => x \in Nat
    BY <1>1, <1>2
  <2> QED
    BY <2>1, <2>2 DEF Max, d
<1>3. CASE ~(d >= 0)
  <2>1. 0 \in {0, d} /\ \A y \in {0, d} : 0 >= y
    BY <1>1, <1>3
  <2>2. \A x \in {0, d} : (\A y \in {0, d} : x >= y) => x \in Nat
    BY <1>1, <1>3
  <2> QED
    BY <2>1, <2>2 DEF Max, d
<1> QED
  BY <1>2, <1>3

LEMMA CancelLegal ==
  ASSUME Inv, NEW w \in Workers, Cancel(w)
  PROVE  Legal(w)
<1>h. /\ Sound(job[w]) /\ Shape(job[w]) /\ Ready(job[w], job[w].pc)
      /\ Rows(tables)
      /\ \A c \in ChallengeIds : Row(tables.challenges[c])
      /\ \A u \in Users : tables.balance[u] \in Nat
  BY Handling
<1>i. Sound(Idle) /\ ~Inside(Idle)
  BY IdleSound
<1>f. \A label \in Free : /\ Sound(At(job[w], label))
                          /\ At(job[w], label).pc = label
  BY <1>h, FreeSound
<1>w. job[w].pc \in OnChallenge =>
        /\ job[w].id \in ChallengeIds
        /\ \A label \in WithId : /\ Sound(At(job[w], label))
                                 /\ At(job[w], label).pc = label
  BY <1>h, WithIdSound DEF Ready
<1>1. CASE CancelChallenge(w)
  <2>1. PICK c \in ChallengeIds, u \in Users :
          Become(w, [Idle EXCEPT !.pc = "vote_load", !.kind = "cancel",
                                 !.id = c, !.user = u])
    BY <1>1 DEF CancelChallenge
  <2> DEFINE j == [Idle EXCEPT !.pc = "vote_load", !.kind = "cancel",
                               !.id = c, !.user = u]
  <2>2. j = [[[[Idle EXCEPT !.pc = "vote_load"] EXCEPT !.kind = "cancel"]
               EXCEPT !.id = c] EXCEPT !.user = u]
    OBVIOUS
  <2>3. Fields(j)
    BY <2>2, StartShape, SetFields
  <2>4. /\ j.pc = "vote_load" /\ j.id = c
        /\ j.balance = Idle.balance /\ j.rest = Idle.rest
        /\ j.winner = Idle.winner
    BY DEF Idle
  <2>5. Shape(j)
    BY <2>3, <2>4, StartShape
  <2>6. Sound(j) /\ ~Inside(j)
    BY <2>4, <2>5 DEF Sound, Ready, Inside, Labels, OutsideTx, InsideTx,
       OnProgress, OnChallenge, OnCreation, AfterCommit
  <2>7. ~Inside(job[w]) /\ Keeps(tables)
    BY <1>1 DEF CancelChallenge, Request, Inside, InsideTx, Keeps, connection
  <2> QED
    BY <2>1, <2>6, <2>7 DEF Legal, Step
<1>2. CASE VoteLoad(w)
  <2>1. job[w].pc \in OnChallenge /\ ~Inside(job[w])
    BY <1>2 DEF VoteLoad, Running, OnChallenge, Inside, InsideTx
  <2>2. Sound(At(job[w], "vote")) /\ ~Inside(At(job[w], "vote"))
    BY <1>w, <2>1 DEF WithId, Inside, InsideTx
  <2>3. Read(w, At(job[w], "vote")) \/ Read(w, Idle)
    BY <1>2 DEF VoteLoad
  <2> QED
    BY <1>i, <2>1, <2>2, <2>3, ReadLegal
<1>3. CASE Vote(w)
  <2>1. job[w].pc \in OnChallenge /\ ~Inside(job[w])
    BY <1>3 DEF Vote, Running, OnChallenge, Inside, InsideTx
  <2>2. Sound(At(job[w], "votes")) /\ ~Inside(At(job[w], "votes"))
    BY <1>w, <2>1 DEF WithId, Inside, InsideTx
  <2>3. tables.challenges[job[w].id].status # "none" =>
          Row([tables.challenges[job[w].id] EXCEPT !.votes = @ \cup {job[w].user}])
    BY <1>h, <1>w, <2>1, UpdatedRow
  <2> QED
    BY <1>3, <1>h, <1>i, <1>w, <2>1, <2>2, <2>3, WriteChallengeLegal DEF Vote
<1>4. CASE CountVotes(w)
  <2> DEFINE row == tables.challenges[job[w].id]
             j == [job[w] EXCEPT !.challenge = row]
  <2>1. job[w].pc = "votes" /\ ~Inside(job[w])
    BY <1>4 DEF CountVotes, Running, Inside, InsideTx
  <2>2. job[w].id \in ChallengeIds
    BY <1>w, <2>1 DEF OnChallenge
  <2>3. Shape(j) /\ j.id = job[w].id /\ j.challenge = row
    BY <1>h, NewChallenge
  <2>4. CASE Read(w, Idle)
    BY <1>i, <2>1, <2>4, ReadLegal
  <2>5. CASE Read(w, At(j, "cancel"))
    <3>1. Sound(At(j, "cancel")) /\ At(j, "cancel").pc = "cancel"
      BY <2>2, <2>3, WithIdSound DEF WithId
    <3> QED
      BY <2>1, <2>5, <3>1, ReadLegal DEF Inside, InsideTx
  <2>6. CASE row.status = "active" /\ Read(w, At(j, "penalty_begin"))
    <3>1. Seated(j.challenge)
      BY <1>h, <2>2, <2>3, <2>6 DEF Row
    <3>2. Ready(j, "penalty_begin")
      BY <2>2, <2>3, <3>1 DEF Ready, Labels, OutsideTx, OnProgress, OnChallenge,
         OnCreation, AfterCommit
    <3>3. Sound(At(j, "penalty_begin")) /\ At(j, "penalty_begin").pc = "penalty_begin"
      BY <2>3, <3>2, AtSound
    <3> QED
      BY <2>1, <2>6, <3>3, ReadLegal DEF Inside, InsideTx
  <2> QED
    BY <1>4, <2>4, <2>5, <2>6 DEF CountVotes
<1>5. CASE CancelByBoth(w)
  <2>1. job[w].pc \in OnChallenge /\ ~Inside(job[w])
    BY <1>5 DEF CancelByBoth, Running, OnChallenge, Inside, InsideTx
  <2>2. tables.challenges[job[w].id].status # "none" =>
          Row([tables.challenges[job[w].id] EXCEPT !.status = "cancelled"])
    BY <1>h, <1>w, <2>1, UpdatedRow
  <2> QED
    BY <1>5, <1>h, <1>i, <1>w, <2>1, <2>2, WriteChallengeLegal DEF CancelByBoth
<1>6. CASE PenaltyBegin(w)
  <2>1. job[w].pc = "penalty_begin" /\ ~Inside(job[w])
    BY <1>6 DEF PenaltyBegin, BeginAt, Running, Inside, InsideTx
  <2>2. Ready(job[w], "penalty_load")
    BY <1>h, <2>1 DEF Ready, Labels, InsideTx, OnProgress, OnChallenge,
       OnCreation, AfterCommit
  <2>3. /\ Sound(At(job[w], "penalty_load"))
        /\ At(job[w], "penalty_load").pc = "penalty_load"
    BY <1>h, <2>2, AtSound
  <2> QED
    BY <1>6, <1>i, <2>1, <2>3, BeginLegal DEF PenaltyBegin, Inside, InsideTx
<1>7. CASE PenaltyLoad(w)
  <2> DEFINE has == tables.balance[job[w].challenge.challenger]
             i == [job[w] EXCEPT !.balance = has]
  <2>1. job[w].pc = "penalty_load" /\ Inside(job[w])
    BY <1>7 DEF PenaltyLoad, Running, Inside, InsideTx
  <2>2. job[w].id \in ChallengeIds /\ has \in Nat
    BY <1>h, <2>1 DEF Ready, OnChallenge, OnCreation, Seated
  <2>3. Ready(job[w], "penalty_pay")
    BY <2>2 DEF Ready, Labels, InsideTx, OnProgress, OnChallenge, OnCreation,
       AfterCommit
  <2>4. Shape(i) /\ Ready(i, "penalty_pay")
    BY <1>h, <2>2, <2>3, NewBalance
  <2>5. Sound(At(i, "penalty_pay")) /\ At(i, "penalty_pay").pc = "penalty_pay"
    BY <2>4, AtSound
  <2>6. [job[w] EXCEPT !.pc = "penalty_pay", !.balance = has] = At(i, "penalty_pay")
    BY <1>h DEF At, Shape, Fields
  <2>7. Read(w, At(i, "penalty_pay"))
    BY <1>7, <2>6 DEF PenaltyLoad
  <2> QED
    BY <2>1, <2>5, <2>7, ReadLegal DEF Inside, InsideTx
<1>8. CASE PayPenalty(w)
  <2>1. job[w].pc \in OnChallenge /\ Inside(job[w])
    BY <1>8 DEF PayPenalty, Running, OnChallenge, Inside, InsideTx
  <2>2. Max({0, job[w].balance - CHALLENGE_CANCEL_PENALTY_AMOUNT}) \in Nat
    BY <1>h, PenaltyType DEF Shape
  <2>3. /\ Sound(At(job[w], "penalty_write")) /\ Inside(At(job[w], "penalty_write"))
        /\ Sound(At(job[w], "rollback")) /\ Inside(At(job[w], "rollback"))
    BY <1>w, <1>f, <2>1 DEF WithId, Free, Inside, InsideTx
  <2> QED
    BY <1>8, <1>h, <2>1, <2>2, <2>3, PayLegal DEF PayPenalty
<1>9. CASE CancelByOne(w)
  <2>1. job[w].pc \in OnChallenge /\ Inside(job[w])
    BY <1>9 DEF CancelByOne, Running, OnChallenge, Inside, InsideTx
  <2>2. tables.challenges[job[w].id].status # "none" =>
          Row([tables.challenges[job[w].id] EXCEPT !.status = "cancelled"])
    BY <1>h, <1>w, <2>1, UpdatedRow
  <2>3. /\ Sound(At(job[w], "commit")) /\ Inside(At(job[w], "commit"))
        /\ Sound(At(job[w], "rollback")) /\ Inside(At(job[w], "rollback"))
    BY <1>f DEF Free, Inside, InsideTx
  <2> QED
    BY <1>9, <1>h, <1>w, <2>1, <2>2, <2>3, WriteChallengeLegal DEF CancelByOne
<1> QED
  BY <1>1, <1>2, <1>3, <1>4, <1>5, <1>6, <1>7, <1>8, <1>9 DEF Cancel

LEMMA EndLegal ==
  ASSUME Inv, NEW w \in Workers, End(w)
  PROVE  Legal(w)
<1>h. Shape(job[w])
  BY Handling
<1>i. Sound(Idle) /\ ~Inside(Idle)
  BY IdleSound
<1>f. Sound(At(job[w], "rollback")) /\ Inside(At(job[w], "rollback"))
  BY <1>h, FreeSound DEF Free, Inside, InsideTx
<1>1. CASE CommitTransaction(w)
  <2> DEFINE next == IF job[w].kind = "unbox" THEN At(job[w], "log") ELSE Idle
  <2>1. Inside(job[w])
    BY <1>1 DEF CommitTransaction, CommitAt, Running, Inside, InsideTx
  <2>2. job[w].kind = "unbox" =>
          Sound(At(job[w], "log")) /\ At(job[w], "log").pc = "log"
    BY <1>h, AfterCommitSound DEF AfterCommit
  <2>3. Sound(next) /\ ~Inside(next)
    BY <1>i, <2>2 DEF Inside, InsideTx
  <2> QED
    BY <1>1, <1>f, <2>1, <2>3, CommitLegal DEF CommitTransaction
<1>2. CASE RollbackTransaction(w)
  BY <1>2, <1>i DEF RollbackTransaction, Running, Inside, InsideTx, Legal, Step
<1> QED
  BY <1>1, <1>2 DEF End

-----------------------------------------------------------------------------
LEMMA InvInit == Init => Inv
<1> SUFFICES ASSUME Init PROVE Inv
  OBVIOUS
<1>1. Rows(FirstRows)
  <2>1. Row(NoChallenge)
    BY DEF Row, Columns, NoChallenge
  <2> QED
    BY <2>1, PursesAndSkins, NobodyApart DEF Rows, FirstRows
<1>2. Local
  BY IdleSound DEF Init, Local
<1>3. TransactionsExclusive
  BY IdleSound DEF Init, ConnectionInit, TransactionsExclusive, Inside
<1> QED
  BY <1>1, <1>2, <1>3 DEF Init, ConnectionInit, Inv, WellFormed

LEMMA InvStep == Inv /\ [Next]_vars => Inv'
<1> SUFFICES ASSUME Inv, [Next]_vars PROVE Inv'
  OBVIOUS
<1>1. ASSUME NEW w \in Workers,
             \/ Unbox(w) \/ AfterUnbox(w) \/ Progress(w) \/ Arrange(w)
             \/ Complete(w) \/ Cancel(w) \/ End(w)
      PROVE  Inv'
  BY <1>1, UnboxLegal, AfterUnboxLegal, ProgressLegal, ArrangeLegal,
     CompleteLegal, CancelLegal, EndLegal, LegalKeepsInv
<1>2. CASE Tick \/ UNCHANGED vars
  <2>1. UNCHANGED <<tables, durable, inTx, job>>
    BY <1>2 DEF Tick, vars, connection
  <2>2. WellFormed'
    BY <2>1 DEF Inv, WellFormed, Local
  <2>3. TransactionsExclusive'
    BY <2>1 DEF Inv, TransactionsExclusive
  <2> QED
    BY <2>2, <2>3 DEF Inv
<1>3. CASE Crash
  <2>1. Rows(tables') /\ Rows(durable')
    BY <1>3 DEF Crash, Reopen, Inv, WellFormed
  <2>2. Local'
    BY <1>3, IdleSound DEF Crash, Local
  <2>3. TransactionsExclusive'
    BY <1>3, IdleSound DEF Crash, Reopen, TransactionsExclusive, Inside
  <2> QED
    BY <2>1, <2>2, <2>3 DEF Inv, WellFormed
<1> QED
  BY <1>1, <1>2, <1>3 DEF Next

(* Unboxing opens up to four transactions in a row, completing and         *)
(* cancelling a challenge one each, with statements in between that run    *)
(* on their own: whatever the workers' interleaving, the failing           *)
(* statements and the kills, one is open exactly while one worker is       *)
(* inside it.                                                              *)
THEOREM ChallengesTransactions == Spec => []TransactionsExclusive
<1>1. Inv => TransactionsExclusive
  BY DEF Inv
<1> QED
  BY <1>1, InvInit, InvStep, PTL DEF Spec

(* No interleaving of unboxings, races and cancellations takes a balance   *)
(* below zero, in the tables or on disk, although the price is checked     *)
(* before the transaction and balances are written as absolute numbers.    *)
THEOREM ChallengesNeverOverdrawn == Spec => []BalancesNeverNegative
<1>1. Inv => BalancesNeverNegative
  BY DEF Inv, WellFormed, Rows, BalancesNeverNegative
<1> QED
  BY <1>1, InvInit, InvStep, PTL DEF Spec

-----------------------------------------------------------------------------
(* What a roll draws.                                                      *)

LEMMA Extremes ==
  ASSUME NEW S \in SUBSET Rarities, S # {}
  PROVE  Max(S) \in S /\ Min(S) \in S
<1>1. Rarities = {0, 1, 2, 3, 4, 5, 6}
  BY DEF Rarities, CONSUMER, CONTRABAND
<1>2. \E x \in S : \A y \in S : x >= y
  <2>1. CASE 6 \in S
    BY <1>1, <2>1
  <2>2. CASE 5 \in S /\ 6 \notin S
    BY <1>1, <2>2
  <2>3. CASE 4 \in S /\ 6 \notin S /\ 5 \notin S
    BY <1>1, <2>3
  <2>4. CASE 3 \in S /\ 6 \notin S /\ 5 \notin S /\ 4 \notin S
    BY <1>1, <2>4
  <2>5. CASE 2 \in S /\ S \cap {6, 5, 4, 3} = {}
    BY <1>1, <2>5
  <2>6. CASE 1 \in S /\ S \cap {6, 5, 4, 3, 2} = {}
    BY <1>1, <2>6
  <2>7. CASE 0 \in S /\ S \cap {6, 5, 4, 3, 2, 1} = {}
    BY <1>1, <2>7
  <2> QED
    BY <1>1, <2>1, <2>2, <2>3, <2>4, <2>5, <2>6, <2>7
<1>3. \E x \in S : \A y \in S : x <= y
  <2>1. CASE 0 \in S
    BY <1>1, <2>1
  <2>2. CASE 1 \in S /\ 0 \notin S
    BY <1>1, <2>2
  <2>3. CASE 2 \in S /\ 0 \notin S /\ 1 \notin S
    BY <1>1, <2>3
  <2>4. CASE 3 \in S /\ 0 \notin S /\ 1 \notin S /\ 2 \notin S
    BY <1>1, <2>4
  <2>5. CASE 4 \in S /\ S \cap {0, 1, 2, 3} = {}
    BY <1>1, <2>5
  <2>6. CASE 5 \in S /\ S \cap {0, 1, 2, 3, 4} = {}
    BY <1>1, <2>6
  <2>7. CASE 6 \in S /\ S \cap {0, 1, 2, 3, 4, 5} = {}
    BY <1>1, <2>7
  <2> QED
    BY <1>1, <2>1, <2>2, <2>3, <2>4, <2>5, <2>6, <2>7
<1> QED
  BY <1>2, <1>3 DEF Max, Min

(* Whatever rarities a case has and whatever the dice show, there is a     *)
(* skin to draw: the roll falls through to a rarity that the case holds.   *)
THEOREM EveryRollDraws ==
  ASSUME NEW case \in SUBSET Skins, case # {}, NEW roll \in Int
  PROVE  Pool(case, roll) # {}
<1> DEFINE available == Available(case)
           allowed == {t \in available \cap Tiers : roll < Threshold[t]}
<1>1. available \in SUBSET Rarities /\ available # {}
  BY UnboxingAssumption DEF Available
<1>2. Drop(available, roll) \in available
  <2>1. CASE allowed # {}
    <3>1. allowed \in SUBSET Rarities /\ allowed \subseteq available
      BY <1>1
    <3>2. Max(allowed) \in allowed
      BY <2>1, <3>1, Extremes
    <3> QED
      BY <2>1, <3>1, <3>2 DEF Drop
  <2>2. CASE allowed = {} /\ MIL_SPEC \in available
    BY <2>2 DEF Drop
  <2>3. CASE allowed = {} /\ MIL_SPEC \notin available
    BY <1>1, <2>3, Extremes DEF Drop
  <2> QED
    BY <2>1, <2>2, <2>3
<1>3. \E s \in case : RarityOf[s] = Drop(available, roll)
  BY <1>2 DEF Available
<1> QED
  BY <1>3 DEF Pool, SkinsOfRarity

-----------------------------------------------------------------------------
(* Requests that do not overlap: while a worker is in the middle of one,   *)
(* the others are idle, as with a pool of one worker.  Then what a step    *)
(* may do to the disk is known (the four last properties of Challenges).   *)
(* Two requests at once break all four: statuses, votes and balances are   *)
(* read before the transaction and not again inside it.                    *)

Serial ==
  \A v, w \in Workers : job[v].pc # "idle" /\ job[w].pc # "idle" => v = w

(* A pool of one worker is serial. *)
LEMMA OneWorkerIsSerial ==
  ASSUME \A v, w \in Workers : v = w
  PROVE  []Serial
<1>1. Serial
  BY DEF Serial
<1> QED
  BY <1>1, PTL

(* In what follows r are the rows as the connection sees them, d those on  *)
(* disk.  Inside a transaction they differ by what it has written so far:  *)
(* a balance by n, ...                                                     *)
Paid(u, n, r, d) ==
  \A v \in Users : r.balance[v] = d.balance[v] + (IF v = u THEN n ELSE 0)
SameSkins(r, d) == r.items = d.items /\ r.inventory = d.inventory
SameChallenges(r, d) == r.challenges = d.challenges
SameRows(r, d) == r.balance = d.balance /\ SameSkins(r, d) /\ SameChallenges(r, d)

(* ... a new skin, drawn from the case that was paid for, in row i, ...    *)
Buyer(j) == j.kind = "unbox" /\ j.user \in Users /\ j.case \in Cases
Bought(j, r, d) == Paid(j.user, -Cost(j.case), r, d) /\ SameChallenges(r, d)
Drawn(j) == j.item.owner = j.user /\ j.item.skin \in CaseSkins[j.case]
Created(j, i, r, d) ==
  /\ Drawn(j)
  /\ i \in ItemIds
  /\ d.items[i].owner = Nobody
  /\ r.items = [d.items EXCEPT ![i] = j.item]

(* ... or the status of the challenge that is worked on.                   *)
Race(j, d) == d.challenges[j.id]
Ended(j, status, r, d) ==
  r.challenges = [d.challenges EXCEPT ![j.id].status = status]

(* What the players of a challenge have gained, by the rows on disk, and   *)
(* what its row p says they have.                                          *)
Measured(row, p, d) ==
  /\ p.challenger_profit = NetWorth(d, row.challenger) - row.challenger_start
  /\ p.opponent_profit = NetWorth(d, row.opponent) - row.opponent_start

(* A challenge that one player may cancel at time s, and what it costs.    *)
BothVoted(row) == row.votes = {row.challenger, row.opponent}
Open(row) == row.status \notin Final \cup {"none"}
Abandoned(row, s) ==
  /\ row.status = "active"
  /\ row.votes # {}
  /\ ~BothVoted(row)
  /\ Hours[s] - Hours[row.started] >= 24
Penalty(row, d) == Min({200, d.balance[row.challenger]})

Commits(j, kind) == j.pc = "commit" /\ j.kind = kind
OnPurchase == {"unbox_user", "unbox_begin", "deduct", "draw", "create_item",
               "item_id", "give"}
Purchased == {"draw", "create_item", "item_id", "give"}
OnCall == {"call_load", "call_write", "call_commit", "call_rollback"}
OnReward == {"winner_load", "winner_pay", "complete_write"}
OnVote == {"vote_load", "vote", "votes", "cancel"}
OnPenalty == {"penalty_begin", "penalty_load", "penalty_pay", "penalty_write"}
Completing(j) ==
  j.pc \in {"reload", "complete_begin"} \cup OnReward \/ Commits(j, "complete")
Judged(j) ==
  j.pc \in {"complete_begin"} \cup OnReward \/ Commits(j, "complete")
Punishing(j) == j.pc \in OnPenalty \/ Commits(j, "cancel")

(* What the locals j of a handler know about the rows, where n is the last *)
(* rowid, m the number of mishaps and s the time.                          *)
StageOfUnboxing(j, r, d, n) ==
  /\ j.pc \in OnPurchase => Buyer(j)
  /\ j.pc \in {"unbox_begin", "deduct"} => j.balance = d.balance[j.user]
  /\ j.pc = "deduct" => r = d
  /\ j.pc \in Purchased => Bought(j, r, d) /\ r.inventory = d.inventory
  /\ j.pc \in {"draw", "create_item"} => r.items = d.items
  /\ j.pc = "create_item" => Drawn(j)
  /\ j.pc = "item_id" => Created(j, n, r, d)
  /\ j.pc = "give" => Created(j, j.row, r, d)
  /\ Commits(j, "unbox") => /\ Buyer(j) /\ Bought(j, r, d)
                            /\ Created(j, j.row, r, d)
                            /\ <<j.user, j.row>> \in r.inventory
  /\ j.pc \in OnCall => SameRows(r, d)

StageOfProgress(j, d) ==
  /\ j.pc \in OnCreation => /\ j.challenge.status = "pending"
                            /\ j.challenge.challenger # j.challenge.opponent
                            /\ j.challenge.votes = {}
  /\ j.pc = "accept_write" => Race(j, d).status = "pending"
  /\ j.pc \in OnProgress /\ j.kind = "complete" => Race(j, d).status = "active"
  /\ j.pc \in {"worth_a", "worth_b"} => j.challenge = Race(j, d)
  /\ j.pc = "worth_b" => j.worth = NetWorth(d, Race(j, d).challenger)
  /\ j.pc = "progress_write" => Measured(Race(j, d), j.challenge, d)

StageOfReward(j, r, d, m) ==
  /\ Completing(j) => /\ j.kind = "complete"
                      /\ Race(j, d).status = "active"
                      /\ m = 0 => Measured(Race(j, d), Race(j, d), d)
  /\ Judged(j) => j.winner = Winner(Race(j, d))
  /\ j.pc \in {"winner_load", "winner_pay"} => r = d
  /\ j.pc = "winner_pay" => j.balance = d.balance[j.winner]
  /\ j.pc = "complete_write" \/ Commits(j, "complete") =>
       /\ SameSkins(r, d)
       /\ Paid(j.winner, CHALLENGE_WINNER_REWARD_AMOUNT, r, d)
  /\ j.pc = "complete_write" => SameChallenges(r, d)
  /\ Commits(j, "complete") => /\ j.id \in ChallengeIds
                               /\ Ended(j, "completed", r, d)

StageOfCancel(j, r, d, s) ==
  /\ j.pc \in OnVote => j.kind = "cancel"
  /\ j.pc \in OnVote \ {"vote_load"} => Open(Race(j, d))
  /\ j.pc = "votes" => Race(j, d).votes # {}
  /\ j.pc = "cancel" => BothVoted(Race(j, d))
  /\ Punishing(j) => /\ j.kind = "cancel"
                     /\ j.challenge = Race(j, d)
                     /\ Abandoned(Race(j, d), s)
  /\ j.pc \in {"penalty_load", "penalty_pay"} => r = d
  /\ j.pc = "penalty_pay" => j.balance = d.balance[Race(j, d).challenger]
  /\ j.pc = "penalty_write" \/ Commits(j, "cancel") =>
       /\ SameSkins(r, d)
       /\ Paid(Race(j, d).challenger, -Penalty(Race(j, d), d), r, d)
  /\ j.pc = "penalty_write" => SameChallenges(r, d)
  /\ Commits(j, "cancel") => /\ j.id \in ChallengeIds
                             /\ Ended(j, "cancelled", r, d)

Stage(j, r, d, n, m, s) ==
  /\ StageOfUnboxing(j, r, d, n)
  /\ StageOfProgress(j, d)
  /\ StageOfReward(j, r, d, m)
  /\ StageOfCancel(j, r, d, s)
  /\ j.pc = "commit" => j.kind \in {"unbox", "complete", "cancel"}

(* Nobody races himself, and a race begins at an instant there was. *)
Filed(row) == /\ row.started \in Seconds
              /\ row.status # "none" => row.challenger # row.opponent

Files(d) == /\ d.items = [i \in ItemIds |-> d.items[i]]
            /\ \A c \in ChallengeIds : Filed(d.challenges[c])

SerialInv ==
  /\ now \in Seconds
  /\ mishaps \in Nat
  /\ Files(durable)
  /\ ~inTx => tables = durable
  /\ \A w \in Workers : Stage(job[w], tables, durable, lastRow, mishaps, now)

-----------------------------------------------------------------------------
(* Stage, label by label.                                                  *)

(* Labels at which nothing need be known. *)
Carefree == {"idle", "rollback", "log", "call", "list", "next", "broadcast",
             "accept_load", "complete_load"}

LEMMA CarefreeStage ==
  ASSUME NEW j, NEW r, NEW d, NEW n, NEW m, NEW s, j.pc \in Carefree
  PROVE  Stage(j, r, d, n, m, s)
<1>1. StageOfUnboxing(j, r, d, n)
  BY DEF StageOfUnboxing, Carefree, OnPurchase, Purchased, OnCall, Commits
<1>2. StageOfProgress(j, d)
  BY DEF StageOfProgress, Carefree, OnCreation, OnProgress
<1>3. StageOfReward(j, r, d, m)
  BY DEF StageOfReward, Carefree, Completing, Judged, OnReward, Commits
<1>4. StageOfCancel(j, r, d, s)
  BY DEF StageOfCancel, Carefree, Punishing, OnVote, OnPenalty, Commits
<1> QED
  BY <1>1, <1>2, <1>3, <1>4 DEF Stage, Carefree

(* Of each part, the labels that are none of its business. *)
LEMMA NoUnboxing ==
  ASSUME NEW j, NEW r, NEW d, NEW n,
         j.pc \notin OnPurchase, j.pc \notin OnCall, ~Commits(j, "unbox")
  PROVE  StageOfUnboxing(j, r, d, n)
BY DEF StageOfUnboxing, OnPurchase, Purchased

LEMMA NoProgress ==
  ASSUME NEW j, NEW d,
         j.pc \notin OnCreation, j.pc \notin OnProgress, j.pc # "accept_write"
  PROVE  StageOfProgress(j, d)
BY DEF StageOfProgress, OnProgress

LEMMA NoReward ==
  ASSUME NEW j, NEW r, NEW d, NEW m, ~Completing(j)
  PROVE  StageOfReward(j, r, d, m)
BY DEF StageOfReward, Completing, Judged, OnReward

LEMMA NoCancel ==
  ASSUME NEW j, NEW r, NEW d, NEW s,
         j.pc \notin OnVote, ~Punishing(j)
  PROVE  StageOfCancel(j, r, d, s)
BY DEF StageOfCancel, Punishing, OnVote, OnPenalty

LEMMA UnboxingStage ==
  ASSUME NEW j, NEW r, NEW d, NEW n, NEW m, NEW s,
         StageOfUnboxing(j, r, d, n),
         j.pc \in OnPurchase \cup OnCall \/ Commits(j, "unbox")
  PROVE  Stage(j, r, d, n, m, s)
<1>1. StageOfProgress(j, d)
  BY NoProgress DEF OnPurchase, OnCall, OnCreation, OnProgress, Commits
<1>2. StageOfReward(j, r, d, m)
  BY NoReward DEF OnPurchase, OnCall, Completing, OnReward, Commits
<1>3. StageOfCancel(j, r, d, s)
  BY NoCancel DEF OnPurchase, OnCall, Punishing, OnVote, OnPenalty, Commits
<1> QED
  BY <1>1, <1>2, <1>3 DEF Stage, OnPurchase, OnCall, Commits

LEMMA ProgressStage ==
  ASSUME NEW j, NEW r, NEW d, NEW n, NEW m, NEW s,
         StageOfProgress(j, d),
         j.pc \in OnCreation \cup OnProgress \cup {"accept_write"}
  PROVE  Stage(j, r, d, n, m, s)
<1>1. StageOfUnboxing(j, r, d, n)
  BY NoUnboxing DEF OnPurchase, OnCall, OnCreation, OnProgress, Commits
<1>2. StageOfReward(j, r, d, m)
  BY NoReward DEF OnCreation, OnProgress, Completing, OnReward, Commits
<1>3. StageOfCancel(j, r, d, s)
  BY NoCancel DEF OnCreation, OnProgress, Punishing, OnVote, OnPenalty, Commits
<1> QED
  BY <1>1, <1>2, <1>3 DEF Stage, OnCreation, OnProgress

LEMMA RewardStage ==
  ASSUME NEW j, NEW r, NEW d, NEW n, NEW m, NEW s,
         StageOfReward(j, r, d, m), Completing(j)
  PROVE  Stage(j, r, d, n, m, s)
<1>1. StageOfUnboxing(j, r, d, n)
  BY NoUnboxing DEF Completing, OnReward, OnPurchase, OnCall, Commits
<1>2. StageOfProgress(j, d)
  BY NoProgress DEF Completing, OnReward, OnCreation, OnProgress, Commits
<1>3. StageOfCancel(j, r, d, s)
  BY NoCancel DEF Completing, OnReward, Punishing, OnVote, OnPenalty, Commits
<1> QED
  BY <1>1, <1>2, <1>3 DEF Stage, Completing, OnReward, Commits

LEMMA CancelStage ==
  ASSUME NEW j, NEW r, NEW d, NEW n, NEW m, NEW s,
         StageOfCancel(j, r, d, s),
         j.pc \in OnVote \/ Punishing(j)
  PROVE  Stage(j, r, d, n, m, s)
<1>1. StageOfUnboxing(j, r, d, n)
  BY NoUnboxing DEF Punishing, OnVote, OnPenalty, OnPurchase, OnCall, Commits
<1>2. StageOfProgress(j, d)
  BY NoProgress DEF Punishing, OnVote, OnPenalty, OnCreation, OnProgress, Commits
<1>3. StageOfReward(j, r, d, m)
  BY NoReward DEF Punishing, OnVote, OnPenalty, Completing, OnReward, Commits
<1> QED
  BY <1>1, <1>2, <1>3 DEF Stage, Punishing, OnVote, OnPenalty, Commits

-----------------------------------------------------------------------------
(* What the steps that write the disk amount to.                           *)

Lawful == LeavesFinal /\ RewardsTheWinner /\ CancelsInTime /\ SellsSkins

(* From rows d to rows r skins and balances stay, and no challenge ends. *)
Peaceful(r, d) ==
  /\ r.balance = d.balance
  /\ r.items = d.items
  /\ \A c \in ChallengeIds :
       \/ r.challenges[c].status = d.challenges[c].status
       \/ /\ d.challenges[c].status \notin Final
          /\ r.challenges[c].status \notin Final

LEMMA NoChange ==
  ASSUME Rows(durable), durable'.balance = durable.balance
  PROVE  \A u \in Users : Change(u) = 0
BY DEF Rows, Change

LEMMA PeacefulLawful ==
  ASSUME Rows(durable), Peaceful(durable', durable)
  PROVE  Lawful
<1>1. \A u \in Users : Change(u) = 0
  BY NoChange DEF Peaceful
<1>2. \A c \in ChallengeIds : ~Turns(c, "completed") /\ ~Turns(c, "cancelled")
  BY DEF Peaceful, Turns, Final
<1>3. LeavesFinal
  BY DEF LeavesFinal, Peaceful
<1>4. RewardsTheWinner
  BY <1>1, <1>2 DEF RewardsTheWinner
<1>5. CancelsInTime
  BY <1>2 DEF CancelsInTime
<1>6. SellsSkins
  BY <1>1 DEF SellsSkins, Peaceful
<1> QED
  BY <1>3, <1>4, <1>5, <1>6 DEF Lawful

(* A step that ends a challenge changes its status and no other's.         *)
LEMMA EndedRows ==
  ASSUME NEW j, j.id \in ChallengeIds, NEW status, NEW r, NEW d, Rows(d),
         Ended(j, status, r, d)
  PROVE  r.challenges[j.id] = [Race(j, d) EXCEPT !.status = status]
BY DEF Ended, Rows, Race

LEMMA EndedStatus ==
  ASSUME NEW j, j.id \in ChallengeIds, NEW status, NEW r, NEW d, Rows(d),
         Ended(j, status, r, d)
  PROVE  \A c \in ChallengeIds : r.challenges[c].status =
           IF c = j.id THEN status ELSE d.challenges[c].status
<1>1. Columns(Race(j, d))
  BY DEF Rows, Row, Race
<1> DEFINE row == [Race(j, d) EXCEPT !.status = status]
<1>2. row.status = status
  BY <1>1 DEF Columns
<1>3. r.challenges[j.id] = row
  BY EndedRows
<1>4. \A c \in ChallengeIds \ {j.id} : r.challenges[c] = d.challenges[c]
  BY DEF Ended, Rows, Race
<1> HIDE DEF row
<1> QED
  BY <1>2, <1>3, <1>4

(* cancel_challenge by both players. *)
LEMMA BothLawful ==
  ASSUME Rows(durable), NEW j, j.id \in ChallengeIds,
         Open(Race(j, durable)), BothVoted(Race(j, durable)),
         durable'.balance = durable.balance, durable'.items = durable.items,
         Ended(j, "cancelled", durable', durable)
  PROVE  Lawful
<1>1. \A u \in Users : Change(u) = 0
  BY NoChange
<1>2. \A c \in ChallengeIds : durable'.challenges[c].status =
        IF c = j.id THEN "cancelled" ELSE durable.challenges[c].status
  BY EndedStatus
<1>3. \A c \in ChallengeIds : /\ ~Turns(c, "completed")
                              /\ Turns(c, "cancelled") => c = j.id
  BY <1>2 DEF Turns
<1>4. LeavesFinal
  BY <1>2 DEF LeavesFinal, Open, Race
<1>5. RewardsTheWinner
  BY <1>1, <1>3 DEF RewardsTheWinner
<1>6. CancelsInTime
  BY <1>1, <1>3 DEF CancelsInTime, BothVoted, Race
<1>7. SellsSkins
  BY <1>1 DEF SellsSkins
<1> QED
  BY <1>4, <1>5, <1>6, <1>7 DEF Lawful

LEMMA PaidChange ==
  ASSUME Rows(durable), NEW u, NEW n \in Int, Paid(u, n, durable', durable)
  PROVE  \A v \in Users : Change(v) = IF v = u THEN n ELSE 0
BY DEF Rows, Paid, Change

(* The COMMIT of unbox_case. *)
LEMMA UnboxLawful ==
  ASSUME Rows(durable), Files(durable), NEW j,
         Buyer(j), Bought(j, durable', durable),
         Created(j, j.row, durable', durable),
         <<j.user, j.row>> \in durable'.inventory
  PROVE  Lawful
<1>1. Cost(j.case) \in Nat
  BY CostType DEF Buyer
<1>2. \A v \in Users : Change(v) = IF v = j.user THEN -Cost(j.case) ELSE 0
  BY <1>1, PaidChange DEF Bought
<1>3. \A c \in ChallengeIds : /\ ~Turns(c, "completed") /\ ~Turns(c, "cancelled")
                              /\ durable'.challenges[c] = durable.challenges[c]
  BY DEF Bought, SameChallenges, Turns
<1>4. /\ j.row \in ItemIds
      /\ durable'.items[j.row] = j.item
      /\ \A i \in ItemIds \ {j.row} : durable'.items[i] = durable.items[i]
      /\ durable.items[j.row].owner = Nobody
  BY DEF Created, Files
<1>5. j.item.owner = j.user /\ j.item.owner # Nobody
  BY NobodyApart DEF Created, Drawn, Buyer
<1>6. {i \in ItemIds : /\ durable.items[i].owner = Nobody
                       /\ durable'.items[i].owner # Nobody} = {j.row}
  BY <1>4, <1>5
<1>7. LeavesFinal
  BY <1>3 DEF LeavesFinal
<1>8. RewardsTheWinner
  BY <1>1, <1>2, <1>3 DEF RewardsTheWinner
<1>9. CancelsInTime
  BY <1>3 DEF CancelsInTime
<1>10. SellsSkins
  <2>1. j.user \in Users /\ j.case \in Cases /\ j.item.skin \in CaseSkins[j.case]
    BY DEF Buyer, Created, Drawn
  <2>2. \A u \in Users : Change(u) < 0 => u = j.user
    BY <1>1, <1>2
  <2>3. Change(j.user) = -Cost(j.case)
    BY <1>2, <2>1
  <2> QED
    BY <1>4, <1>5, <1>6, <2>1, <2>2, <2>3 DEF SellsSkins
<1> QED
  BY <1>7, <1>8, <1>9, <1>10 DEF Lawful

(* The COMMIT of complete_challenge. *)
LEMMA SameWinner ==
  ASSUME NEW r, Columns(r), NEW status
  PROVE  LET s == [r EXCEPT !.status = status] IN
         /\ Winner(s) = Winner(r)
         /\ s.challenger = r.challenger /\ s.opponent = r.opponent
         /\ s.challenger_start = r.challenger_start
         /\ s.opponent_start = r.opponent_start
         /\ s.challenger_profit = r.challenger_profit
         /\ s.opponent_profit = r.opponent_profit
<1> DEFINE s == [r EXCEPT !.status = status]
<1>1. /\ s.challenger = r.challenger /\ s.opponent = r.opponent
      /\ s.challenger_start = r.challenger_start
      /\ s.opponent_start = r.opponent_start
      /\ s.challenger_profit = r.challenger_profit
      /\ s.opponent_profit = r.opponent_profit
  BY DEF Columns
<1> HIDE DEF s
<1>2. Winner(s) = Winner(r)
  BY <1>1 DEF Winner
<1> QED
  BY <1>1, <1>2 DEF s

LEMMA CompleteLawful ==
  ASSUME Rows(durable), NEW j, j.id \in ChallengeIds,
         Race(j, durable).status = "active",
         mishaps' # 0 \/ Measured(Race(j, durable), Race(j, durable), durable),
         j.winner = Winner(Race(j, durable)),
         SameSkins(durable', durable),
         Paid(j.winner, CHALLENGE_WINNER_REWARD_AMOUNT, durable', durable),
         Ended(j, "completed", durable', durable)
  PROVE  Lawful
<1> DEFINE race == Race(j, durable)
           row == durable'.challenges[j.id]
           a == NetWorth(durable, row.challenger) - row.challenger_start
           b == NetWorth(durable, row.opponent) - row.opponent_start
<1>1. CHALLENGE_WINNER_REWARD_AMOUNT \in Nat /\ CHALLENGE_WINNER_REWARD_AMOUNT > 0
  BY DEF CHALLENGE_WINNER_REWARD_AMOUNT
<1>2. \A v \in Users : Change(v) = IF v = j.winner
                                   THEN CHALLENGE_WINNER_REWARD_AMOUNT ELSE 0
  BY <1>1, PaidChange
<1>3. \A c \in ChallengeIds : durable'.challenges[c].status =
        IF c = j.id THEN "completed" ELSE durable.challenges[c].status
  BY EndedStatus
<1>4. /\ Turns(j.id, "completed")
      /\ \A c \in ChallengeIds : /\ ~Turns(c, "cancelled")
                                 /\ Turns(c, "completed") => c = j.id
  BY <1>3 DEF Turns, Race
<1>5. Columns(race)
  BY DEF Rows, Row, Race
<1>6. /\ Winner(row) = Winner(race)
      /\ row.challenger = race.challenger /\ row.opponent = race.opponent
      /\ row.challenger_start = race.challenger_start
      /\ row.opponent_start = race.opponent_start
      /\ row.challenger_profit = race.challenger_profit
      /\ row.opponent_profit = race.opponent_profit
  <2> DEFINE s == [Race(j, durable) EXCEPT !.status = "completed"]
  <2>1. row = s
    BY EndedRows
  <2>2. /\ Winner(s) = Winner(race)
        /\ s.challenger = race.challenger /\ s.opponent = race.opponent
        /\ s.challenger_start = race.challenger_start
        /\ s.opponent_start = race.opponent_start
        /\ s.challenger_profit = race.challenger_profit
        /\ s.opponent_profit = race.opponent_profit
    BY <1>5, SameWinner
  <2> HIDE DEF s
  <2> QED
    BY <2>1, <2>2
<1>7. LeavesFinal
  BY <1>3 DEF LeavesFinal, Final, Race
<1>8. mishaps' = 0 => Winner(row) = CASE a > b -> row.challenger
                                      [] a < b -> row.opponent
                                      [] OTHER -> Nobody
  <2>1. ASSUME Measured(race, race, durable)
        PROVE  row.challenger_profit = a /\ row.opponent_profit = b
    BY <1>6, <2>1 DEF Measured
  <2> HIDE DEF a, b
  <2> QED
    BY <2>1 DEF Winner
<1>9. RewardsTheWinner
  <2>1. \A u \in Users : Change(u) > 0 => Winner(row) = u
    BY <1>1, <1>2, <1>6
  <2>2. \A u \in Users :
          Change(u) = IF u = Winner(row) THEN CHALLENGE_WINNER_REWARD_AMOUNT ELSE 0
    BY <1>2, <1>6
  <2>3. \A c \in ChallengeIds : Turns(c, "completed") => durable'.challenges[c] = row
    BY <1>4
  <2> HIDE DEF row
  <2>4. \A u \in Users : Change(u) > 0 =>
          \E c \in ChallengeIds :
            Turns(c, "completed") /\ Winner(durable'.challenges[c]) = u
    BY <1>4, <2>1 DEF row
  <2> QED
    BY <1>8, <2>2, <2>3, <2>4 DEF RewardsTheWinner
<1>10. CancelsInTime
  BY <1>4 DEF CancelsInTime
<1>11. SellsSkins
  <2>1. \A u \in Users : ~(Change(u) < 0)
    BY <1>1, <1>2
  <2> QED
    BY <2>1 DEF SellsSkins, SameSkins
<1> QED
  BY <1>7, <1>9, <1>10, <1>11 DEF Lawful

(* The COMMIT of cancel_challenge by one player. *)
LEMMA PenaltyTaken ==
  ASSUME NEW b \in Nat
  PROVE  /\ Min({200, b}) \in Nat
         /\ Max({0, b - CHALLENGE_CANCEL_PENALTY_AMOUNT}) = b + -Min({200, b})
<1> DEFINE d == b - CHALLENGE_CANCEL_PENALTY_AMOUNT
<1>0. d \in Int /\ d = b - 200
  BY DEF CHALLENGE_CANCEL_PENALTY_AMOUNT
<1> HIDE DEF d
<1>1. CASE b >= 200
  <2>1. \A x \in {200, b} : (\A y \in {200, b} : x <= y) <=> x = 200
    BY <1>1
  <2>2. \A x \in {0, d} : (\A y \in {0, d} : x >= y) <=> x = d
    BY <1>0, <1>1
  <2>3. Min({200, b}) = 200
    BY <2>1 DEF Min
  <2>4. Max({0, d}) = d
    BY <2>2 DEF Max
  <2> QED
    BY <1>0, <2>3, <2>4 DEF d
<1>2. CASE b < 200
  <2>1. \A x \in {200, b} : (\A y \in {200, b} : x <= y) <=> x = b
    BY <1>2
  <2>2. \A x \in {0, d} : (\A y \in {0, d} : x >= y) <=> x = 0
    BY <1>0, <1>2
  <2>3. Min({200, b}) = b
    BY <2>1 DEF Min
  <2>4. Max({0, d}) = 0
    BY <2>2 DEF Max
  <2> QED
    BY <2>3, <2>4 DEF d
<1> QED
  BY <1>1, <1>2

LEMMA PenaltyLawful ==
  ASSUME Rows(durable), Files(durable), NEW j, j.id \in ChallengeIds,
         Abandoned(Race(j, durable), now),
         SameSkins(durable', durable),
         Paid(Race(j, durable).challenger, -Penalty(Race(j, durable), durable),
              durable', durable),
         Ended(j, "cancelled", durable', durable)
  PROVE  Lawful
<1> DEFINE race == durable.challenges[j.id]
           cost == Min({200, durable.balance[race.challenger]})
<1>1. /\ race.status = "active" /\ race.votes # {}
      /\ race.votes # {race.challenger, race.opponent}
      /\ Hours[now] - Hours[race.started] >= 24
  BY DEF Abandoned, BothVoted, Race
<1>2. /\ race.challenger \in Users /\ race.opponent \in Users
      /\ race.challenger # race.opponent
  BY <1>1 DEF Rows, Row, Seated, Files, Filed
<1>3. cost \in Nat
  BY <1>2, PenaltyTaken DEF Rows
<1>r. Race(j, durable) = race /\ Penalty(race, durable) = cost
  BY DEF Penalty, Race
<1> HIDE DEF cost
<1>4. \A v \in Users : Change(v) = IF v = race.challenger THEN -cost ELSE 0
  <2> HIDE DEF race
  <2>1. Paid(race.challenger, -cost, durable', durable)
    BY <1>r
  <2> QED
    BY <1>3, <2>1, PaidChange
<1>5. \A c \in ChallengeIds : durable'.challenges[c].status =
        IF c = j.id THEN "cancelled" ELSE durable.challenges[c].status
  BY EndedStatus
<1>6. /\ Turns(j.id, "cancelled")
      /\ \A c \in ChallengeIds : /\ ~Turns(c, "completed")
                                 /\ Turns(c, "cancelled") => c = j.id
  BY <1>1, <1>5 DEF Turns
<1>7. LeavesFinal
  BY <1>1, <1>5 DEF LeavesFinal, Final
<1>8. RewardsTheWinner
  <2>1. \A u \in Users : ~(Change(u) > 0)
    BY <1>3, <1>4
  <2> QED
    BY <1>6, <2>1 DEF RewardsTheWinner
<1>9. CancelsInTime
  <2>1. Change(race.opponent) = 0 /\ Change(race.challenger) = -cost
    BY <1>2, <1>4
  <2> QED
    BY <1>1, <1>6, <2>1 DEF CancelsInTime, cost
<1>10. SellsSkins
  <2>1. \A u \in Users : Change(u) < 0 => u = race.challenger
    BY <1>4
  <2> QED
    BY <1>6, <2>1 DEF SellsSkins, SameSkins
<1> QED
  BY <1>7, <1>8, <1>9, <1>10 DEF Lawful

-----------------------------------------------------------------------------
(* It is the turn of worker w: no other is in the middle of a request.     *)
Turn(w) ==
  /\ w \in Workers
  /\ Inv
  /\ \A v \in Workers \ {w} : job[v].pc = "idle"
  /\ now \in Seconds
  /\ mishaps \in Nat
  /\ Files(durable)
  /\ ~inTx => tables = durable
  /\ Stage(job[w], tables, durable, lastRow, mishaps, now)

LEMMA TurnFacts ==
  ASSUME NEW w, Turn(w)
  PROVE  /\ w \in Workers /\ Inv
         /\ Sound(job[w]) /\ Shape(job[w]) /\ Fields(job[w])
         /\ Ready(job[w], job[w].pc)
         /\ Rows(tables) /\ Rows(durable) /\ Files(durable)
         /\ Stage(job[w], tables, durable, lastRow, mishaps, now)
         /\ now \in Seconds /\ mishaps \in Nat
BY Handling DEF Turn, Inv, WellFormed, Shape

LEMMA TurnOutside ==
  ASSUME NEW w, Turn(w), ~Inside(job[w])
  PROVE  ~inTx /\ tables = durable
<1>1. \A v \in Workers : ~Inside(job[v])
  BY DEF Turn, Inside, InsideTx
<1> QED
  BY <1>1 DEF Turn, Inv, TransactionsExclusive, Inside

LEMMA TurnInside ==
  ASSUME NEW w, Turn(w), Inside(job[w])
  PROVE  inTx
BY DEF Turn, Inv, TransactionsExclusive, Inside

(* What a step keeps, and what it may do to the disk. *)
Kept == SerialInv' /\ Lawful

(* The worker whose turn it is goes on at i. *)
LEMMA StagesKept ==
  ASSUME NEW w, Turn(w), NEW i, Become(w, i),
         Stage(i, tables', durable', lastRow', mishaps', now')
  PROVE  \A v \in Workers :
           Stage(job[v]', tables', durable', lastRow', mishaps', now')
<1>1. job'[w] = i /\ \A v \in Workers \ {w} : job'[v] = job[v]
  BY DEF Turn, Inv, WellFormed, Local, Become
<1>2. \A v \in Workers \ {w} : job'[v].pc \in Carefree
  BY <1>1 DEF Turn, Carefree
<1>3. ASSUME NEW v \in Workers \ {w}
      PROVE  Stage(job[v]', tables', durable', lastRow', mishaps', now')
  BY <1>2, CarefreeStage
<1> QED
  BY <1>1, <1>3

LEMMA KeptBy ==
  ASSUME NEW w, Turn(w), NEW i, Become(w, i), UNCHANGED now,
         mishaps' \in Nat, Files(durable'), inTx' \/ tables' = durable', Lawful,
         Stage(i, tables', durable', lastRow', mishaps', now')
  PROVE  Kept
<1>1. \A v \in Workers :
        Stage(job[v]', tables', durable', lastRow', mishaps', now')
  BY StagesKept
<1>2. now' \in Seconds
  BY TurnFacts
<1> QED
  BY <1>1, <1>2 DEF Kept, SerialInv, Files, Filed, Seconds

(* A step that leaves the disk alone. *)
LEMMA QuietKept ==
  ASSUME NEW w, Turn(w), NEW i, Become(w, i), UNCHANGED now,
         mishaps' \in Nat, durable' = durable, inTx' \/ tables' = durable,
         Stage(i, tables', durable, lastRow', mishaps', now)
  PROVE  Kept
<1>1. Rows(durable) /\ Files(durable)
  BY TurnFacts
<1>2. Peaceful(durable', durable)
  BY DEF Peaceful
<1>3. Lawful
  BY <1>1, <1>2, PeacefulLawful
<1>4. Files(durable')
  BY <1>1
<1> QED
  BY <1>3, <1>4, KeptBy

(* What a handler knows when a statement of its own has failed. *)
Hurt(i, r, d, n, s) == \A m \in Nat \ {0} : Stage(i, r, d, n, m, s)

LEMMA CarefreeHurt ==
  ASSUME NEW i, NEW r, NEW d, NEW n, NEW s, i.pc \in Carefree
  PROVE  Hurt(i, r, d, n, s)
BY CarefreeStage DEF Hurt

LEMMA FailedKept ==
  ASSUME NEW w, Turn(w), NEW i, Become(w, i), UNCHANGED now, Mishap,
         UNCHANGED connection, Hurt(i, tables, durable, lastRow, now)
  PROVE  Kept
<1>1. mishaps' \in Nat \ {0}
  BY TurnFacts DEF Mishap
<1>2. /\ tables' = tables /\ durable' = durable /\ inTx' = inTx
      /\ lastRow' = lastRow
  BY DEF connection
<1>3. Stage(i, tables, durable, lastRow, mishaps', now)
  BY <1>1 DEF Hurt
<1>4. inTx' \/ tables' = durable
  BY <1>2 DEF Turn
<1> QED
  BY <1>1, <1>2, <1>3, <1>4, QuietKept

LEMMA ReadKept ==
  ASSUME NEW w, Turn(w), NEW i, Read(w, i), UNCHANGED now,
         Stage(i, tables, durable, lastRow, mishaps, now)
  PROVE  Kept
<1>1. /\ tables' = tables /\ durable' = durable /\ inTx' = inTx
      /\ lastRow' = lastRow /\ mishaps' = mishaps
  BY DEF Read, Smooth, connection
<1>2. inTx' \/ tables' = durable
  BY <1>1 DEF Turn
<1> QED
  BY <1>1, <1>2, TurnFacts, QuietKept DEF Read

(* A write inside a transaction. *)
LEMMA WriteInside ==
  ASSUME NEW w, Turn(w), Inside(job[w]), UNCHANGED now, NEW rows, NEW rowid,
         NEW next, NEW failed,
         \/ Write(w, rows, next, failed) /\ rowid = lastRow
         \/ WriteNew(w, rows, rowid, next, failed),
         Stage(next, rows, durable, rowid, mishaps, now),
         Hurt(failed, tables, durable, lastRow, now)
  PROVE  Kept
<1>1. CASE /\ Become(w, next) /\ Smooth /\ Store(rows)
           /\ lastRow' = rowid
  <2>1. tables' = rows /\ durable' = durable /\ inTx' /\ mishaps' = mishaps
    BY <1>1, TurnInside DEF Store, Smooth
  <2> QED
    BY <1>1, <2>1, TurnFacts, QuietKept
<1>2. CASE Mishap /\ UNCHANGED connection /\ Become(w, failed)
  BY <1>2, FailedKept
<1> QED
  BY <1>1, <1>2 DEF Write, WriteNew, Update, Insert

(* A write outside, which is on disk at once. *)
LEMMA WriteOutside ==
  ASSUME NEW w, Turn(w), ~Inside(job[w]), UNCHANGED now, NEW rows, NEW rowid,
         NEW next, NEW failed,
         \/ Write(w, rows, next, failed)
         \/ WriteNew(w, rows, rowid, next, failed),
         Peaceful(rows, durable), Files(rows),
         Stage(next, rows, rows, lastRow', mishaps, now),
         Hurt(failed, durable, durable, lastRow, now)
  PROVE  Kept
<1>1. CASE Become(w, next) /\ Smooth /\ Store(rows)
  <2>1. tables' = rows /\ durable' = rows /\ mishaps' = mishaps
    BY <1>1, TurnOutside DEF Store, Smooth
  <2>2. Lawful
    BY <2>1, TurnFacts, PeacefulLawful
  <2>3. Files(durable')
    BY <2>1
  <2> QED
    BY <1>1, <2>1, <2>2, <2>3, TurnFacts, KeptBy
<1>2. CASE Mishap /\ UNCHANGED connection /\ Become(w, failed)
  BY <1>2, FailedKept, TurnOutside
<1> QED
  BY <1>1, <1>2 DEF Write, WriteNew, Update, Insert

LEMMA LogKept ==
  ASSUME NEW w, Turn(w), ~Inside(job[w]), UNCHANGED now, NEW rowid,
         NEW next, NEW failed,
         \/ Write(w, tables, next, failed)
         \/ WriteNew(w, tables, rowid, next, failed),
         next.pc \in Carefree, failed.pc \in Carefree
  PROVE  Kept
<1>1. Peaceful(tables, durable) /\ Files(tables)
  BY TurnOutside, TurnFacts DEF Peaceful
<1>2. Stage(next, tables, tables, lastRow', mishaps, now)
  BY CarefreeStage
<1>3. Hurt(failed, durable, durable, lastRow, now)
  BY CarefreeHurt
<1> QED
  BY <1>1, <1>2, <1>3, WriteOutside

LEMMA BeginKept ==
  ASSUME NEW w, Turn(w), ~Inside(job[w]), NEW label, NEW next, NEW refused,
         BeginAt(w, label, next, refused),
         Stage(next, durable, durable, lastRow, mishaps, now),
         refused.pc \in Carefree
  PROVE  Kept
<1>1. UNCHANGED now
  BY DEF BeginAt, Running
<1>2. CASE Begin /\ Become(w, next) /\ Smooth
  <2>1. /\ tables' = durable /\ durable' = durable /\ inTx'
        /\ lastRow' = lastRow /\ mishaps' = mishaps
    BY <1>2, TurnOutside DEF Begin, Smooth
  <2> QED
    BY <1>1, <1>2, <2>1, TurnFacts, QuietKept
<1>3. CASE BeginRefused /\ Become(w, refused) /\ Mishap
  BY <1>1, <1>3, CarefreeHurt, FailedKept DEF BeginRefused
<1> QED
  BY <1>2, <1>3, TurnOutside DEF BeginAt

(* A COMMIT: what it does, and its refusal. *)
LEMMA CommitCases ==
  ASSUME NEW w, Turn(w), Inside(job[w]), NEW label, NEW next, NEW refused,
         CommitAt(w, label, next, refused)
  PROVE  /\ UNCHANGED now
         /\ \/ /\ Become(w, next) /\ tables' = tables /\ durable' = tables
               /\ inTx' = FALSE /\ mishaps' = mishaps /\ lastRow' = lastRow
            \/ Become(w, refused) /\ Mishap /\ UNCHANGED connection
<1>1. inTx
  BY TurnInside
<1> QED
  BY <1>1 DEF CommitAt, Running, Commit, CommitRefused, Smooth

LEMMA RollbackKept ==
  ASSUME NEW w, Turn(w), Inside(job[w]), UNCHANGED now, Rollback, Smooth,
         NEW i, Become(w, i), i.pc \in Carefree
  PROVE  Kept
<1>1. tables' = durable /\ durable' = durable /\ mishaps' = mishaps
  BY TurnInside DEF Rollback, Smooth
<1>2. Stage(i, durable, durable, lastRow', mishaps, now)
  BY CarefreeStage
<1> QED
  BY <1>1, <1>2, TurnFacts, QuietKept

(* A worker takes a request. *)
LEMMA RequestKept ==
  ASSUME NEW w, Turn(w), NEW kind, Request(w, kind), NEW i, Become(w, i),
         Stage(i, tables, durable, lastRow, mishaps, now)
  PROVE  Kept
<1>1. Read(w, i) /\ UNCHANGED now
  BY DEF Request, Read, Smooth
<1> QED
  BY <1>1, ReadKept

-----------------------------------------------------------------------------
(* What the statements write.                                              *)

LEMMA PaidRows ==
  ASSUME NEW t, Rows(t), NEW u \in Users, NEW a \in Int,
         NEW n, n = t.balance[u] + a
  PROVE  LET s == [t EXCEPT !.balance[u] = n] IN
         /\ SameSkins(s, t) /\ SameChallenges(s, t) /\ Paid(u, a, s, t)
<1> DEFINE s == [t EXCEPT !.balance[u] = n]
<1>1. /\ s.items = t.items /\ s.inventory = t.inventory
      /\ s.challenges = t.challenges /\ s.balance = [t.balance EXCEPT ![u] = n]
  BY DEF Rows
<1>2. t.balance \in [Users -> Nat]
  BY DEF Rows
<1> HIDE DEF s
<1>3. Paid(u, a, s, t)
  BY <1>1, <1>2 DEF Paid
<1>4. SameSkins(s, t) /\ SameChallenges(s, t)
  BY <1>1 DEF SameSkins, SameChallenges
<1> QED
  BY <1>3, <1>4 DEF s

LEMMA SkinRows ==
  ASSUME NEW t, Rows(t), NEW i, NEW x
  PROVE  LET s == [t EXCEPT !.items[i] = x] IN
         /\ s.items = [t.items EXCEPT ![i] = x]
         /\ s.inventory = t.inventory /\ s.balance = t.balance
         /\ s.challenges = t.challenges
BY DEF Rows

LEMMA InventoryRows ==
  ASSUME NEW t, Rows(t), NEW x
  PROVE  LET s == [t EXCEPT !.inventory = x] IN
         /\ s.items = t.items /\ s.inventory = x
         /\ s.balance = t.balance /\ s.challenges = t.challenges
BY DEF Rows

LEMMA CallRows ==
  ASSUME NEW t, Rows(t), NEW x, NEW u, NEW q
  PROVE  /\ SameRows([t EXCEPT !.progress[u][q] = x], t)
         /\ SameRows([t EXCEPT !.knife = x], t)
<1>1. SameRows([t EXCEPT !.progress[u][q] = x], t)
  BY DEF Rows, SameRows, SameSkins, SameChallenges
<1>2. SameRows([t EXCEPT !.knife = x], t)
  BY DEF Rows, SameRows, SameSkins, SameChallenges
<1> QED
  BY <1>1, <1>2

LEMMA AmendedRows ==
  ASSUME NEW t, Rows(t), Files(t), NEW c \in ChallengeIds, NEW row, Filed(row)
  PROVE  LET s == [t EXCEPT !.challenges[c] = row] IN
         /\ Files(s) /\ SameSkins(s, t) /\ s.balance = t.balance
         /\ s.challenges = [t.challenges EXCEPT ![c] = row]
         /\ s.challenges[c] = row
         /\ \A k \in ChallengeIds \ {c} : s.challenges[k] = t.challenges[k]
<1> DEFINE s == [t EXCEPT !.challenges[c] = row]
<1>1. /\ s.items = t.items /\ s.inventory = t.inventory
      /\ s.balance = t.balance
      /\ s.challenges = [t.challenges EXCEPT ![c] = row]
  BY DEF Rows
<1>2. t.challenges = [k \in ChallengeIds |-> t.challenges[k]]
  BY DEF Rows
<1> HIDE DEF s
<1>3. /\ s.challenges[c] = row
      /\ \A k \in ChallengeIds \ {c} : s.challenges[k] = t.challenges[k]
  BY <1>1, <1>2
<1>4. Files(s)
  BY <1>1, <1>3 DEF Files
<1>5. SameSkins(s, t)
  BY <1>1 DEF SameSkins
<1> QED
  BY <1>1, <1>3, <1>4, <1>5 DEF s

LEMMA FilesSame ==
  ASSUME NEW r, NEW d, Files(d), r.items = d.items, SameChallenges(r, d)
  PROVE  Files(r)
BY DEF Files, SameChallenges

LEMMA FilesCreated ==
  ASSUME NEW r, NEW d, Files(d), NEW i, NEW x, r.items = [d.items EXCEPT ![i] = x],
         SameChallenges(r, d)
  PROVE  Files(r)
BY DEF Files, SameChallenges

LEMMA FilesEnded ==
  ASSUME NEW r, NEW d, Rows(d), Files(d), r.items = d.items,
         NEW j, j.id \in ChallengeIds, Race(j, d).status # "none",
         NEW status, Ended(j, status, r, d)
  PROVE  Files(r)
<1> DEFINE row == [Race(j, d) EXCEPT !.status = status]
<1>1. Columns(Race(j, d)) /\ Filed(Race(j, d))
  BY DEF Rows, Row, Files, Race
<1>2. /\ row.started = Race(j, d).started
      /\ row.challenger = Race(j, d).challenger
      /\ row.opponent = Race(j, d).opponent
  BY <1>1 DEF Columns
<1>3. r.challenges[j.id] = row
  BY EndedRows
<1>4. \A c \in ChallengeIds \ {j.id} : r.challenges[c] = d.challenges[c]
  BY DEF Ended, Rows, Race
<1> HIDE DEF row
<1>5. Filed(row)
  BY <1>1, <1>2 DEF Filed
<1> QED
  BY <1>3, <1>4, <1>5 DEF Files

LEMMA SameWorth ==
  ASSUME NEW r, NEW d, r.balance = d.balance, SameSkins(r, d), NEW u
  PROVE  NetWorth(r, u) = NetWorth(d, u)
BY DEF NetWorth, SameSkins

(* What a handler keeps of its locals when it goes on at a label. *)
Alike(j, k) ==
  /\ k.kind = j.kind /\ k.user = j.user /\ k.case = j.case /\ k.item = j.item
  /\ k.row = j.row /\ k.balance = j.balance /\ k.call = j.call
  /\ k.progress = j.progress /\ k.challenge = j.challenge /\ k.id = j.id
  /\ k.worth = j.worth /\ k.rest = j.rest /\ k.winner = j.winner

LEMMA AtAlike ==
  ASSUME NEW j, Fields(j), NEW label
  PROVE  At(j, label).pc = label /\ Alike(j, At(j, label))
BY DEF At, Fields, Alike

LEMMA AtCarefree ==
  ASSUME NEW j, Fields(j), NEW label \in Carefree
  PROVE  At(j, label).pc \in Carefree
BY AtAlike

-----------------------------------------------------------------------------
(* unbox_case.                                                             *)

LEMMA IdleCarefree == Idle.pc \in Carefree
BY DEF Idle, Carefree

LEMMA UnboxKept ==
  ASSUME NEW w, Turn(w), Unbox(w)
  PROVE  Kept
<1> DEFINE j == job[w]
<1>h. /\ Fields(j) /\ Shape(j) /\ Ready(j, j.pc)
      /\ Rows(tables) /\ Rows(durable) /\ Files(durable)
      /\ Stage(j, tables, durable, lastRow, mishaps, now)
  BY TurnFacts
<1>u. StageOfUnboxing(j, tables, durable, lastRow)
  BY <1>h DEF Stage
<1>b. /\ At(j, "rollback").pc \in Carefree
      /\ Hurt(At(j, "rollback"), tables, durable, lastRow, now)
  BY <1>h, AtCarefree, CarefreeHurt DEF Carefree
<1>1. CASE UnboxCase(w)
  <2>1. PICK u \in Users, c \in Cases :
          Become(w, [Idle EXCEPT !.pc = "unbox_user", !.kind = "unbox",
                                 !.user = u, !.case = c])
    BY <1>1 DEF UnboxCase
  <2> DEFINE k == [Idle EXCEPT !.pc = "unbox_user", !.kind = "unbox",
                               !.user = u, !.case = c]
  <2>2. k.pc = "unbox_user" /\ k.kind = "unbox" /\ k.user = u /\ k.case = c
    BY DEF Idle
  <2>3. Request(w, "unbox") /\ Become(w, k)
    BY <1>1, <2>1 DEF UnboxCase
  <2> HIDE DEF k
  <2>4. StageOfUnboxing(k, tables, durable, lastRow)
    BY <2>2 DEF StageOfUnboxing, OnPurchase, Purchased, OnCall, Commits, Buyer
  <2>5. Stage(k, tables, durable, lastRow, mishaps, now)
    BY <2>2, <2>4, UnboxingStage DEF OnPurchase
  <2> QED
    BY <2>3, <2>5, RequestKept
<1>2. CASE UnboxLoadUser(w)
  <2> DEFINE k == [j EXCEPT !.pc = "unbox_begin", !.balance = tables.balance[j.user]]
  <2>1. j.pc = "unbox_user" /\ UNCHANGED now /\ ~Inside(j)
    BY <1>2 DEF UnboxLoadUser, Running, Inside, InsideTx
  <2>2. Buyer(j)
    BY <1>u, <2>1 DEF StageOfUnboxing, OnPurchase
  <2>3. tables = durable
    BY <2>1, TurnOutside
  <2>4. /\ k.pc = "unbox_begin" /\ k.kind = j.kind /\ k.user = j.user
        /\ k.case = j.case /\ k.balance = tables.balance[j.user]
    BY <1>h DEF Fields
  <2>5. Read(w, Idle) \/ Read(w, k)
    BY <1>2 DEF UnboxLoadUser
  <2> HIDE DEF k, j
  <2>6. StageOfUnboxing(k, tables, durable, lastRow)
    BY <2>2, <2>3, <2>4
       DEF StageOfUnboxing, OnPurchase, Purchased, OnCall, Commits, Buyer
  <2>7. Stage(k, tables, durable, lastRow, mishaps, now)
    BY <2>4, <2>6, UnboxingStage DEF OnPurchase
  <2>8. Stage(Idle, tables, durable, lastRow, mishaps, now)
    BY IdleCarefree, CarefreeStage
  <2> QED
    BY <2>1, <2>5, <2>7, <2>8, ReadKept
<1>3. CASE UnboxBegin(w)
  <2> DEFINE k == At(j, "deduct")
  <2>1. j.pc = "unbox_begin" /\ ~Inside(j)
    BY <1>3 DEF UnboxBegin, BeginAt, Running, Inside, InsideTx
  <2>2. Buyer(j) /\ j.balance = durable.balance[j.user]
    BY <1>u, <2>1 DEF StageOfUnboxing, OnPurchase
  <2>3. k.pc = "deduct" /\ Alike(j, k)
    BY <1>h, AtAlike
  <2>4. BeginAt(w, "unbox_begin", k, Idle)
    BY <1>3 DEF UnboxBegin
  <2> HIDE DEF k
  <2>5. StageOfUnboxing(k, durable, durable, lastRow)
    BY <2>2, <2>3 DEF StageOfUnboxing, OnPurchase, Purchased, OnCall, Commits,
       Buyer, Alike
  <2>6. Stage(k, durable, durable, lastRow, mishaps, now)
    BY <2>3, <2>5, UnboxingStage DEF OnPurchase
  <2> QED
    BY <2>1, <2>4, <2>6, IdleCarefree, BeginKept
<1>4. CASE DeductBalance(w)
  <2> DEFINE k == At(j, "draw")
             n == j.balance - Cost(j.case)
             rows == [tables EXCEPT !.balance[j.user] = n]
  <2>1. j.pc = "deduct" /\ UNCHANGED now /\ Inside(j)
    BY <1>4 DEF DeductBalance, Running, Inside, InsideTx
  <2>2. Buyer(j) /\ j.balance = durable.balance[j.user] /\ tables = durable
    BY <1>u, <2>1 DEF StageOfUnboxing, OnPurchase
  <2>3. k.pc = "draw" /\ Alike(j, k)
    BY <1>h, AtAlike
  <2>4. j.user \in Users /\ Cost(j.case) \in Nat /\ j.balance \in Nat
    BY <1>h, <2>2, CostType DEF Buyer, Shape
  <2>5. -Cost(j.case) \in Int /\ n = tables.balance[j.user] + -Cost(j.case)
    BY <2>2, <2>4
  <2>6. Write(w, rows, k, At(j, "rollback"))
    BY <1>4 DEF DeductBalance, Pay
  <2> HIDE DEF n
  <2>7. /\ SameSkins(rows, tables) /\ SameChallenges(rows, tables)
        /\ Paid(j.user, -Cost(j.case), rows, tables)
    BY <1>h, <2>4, <2>5, PaidRows
  <2> HIDE DEF k, rows
  <2>8. StageOfUnboxing(k, rows, durable, lastRow)
    BY <2>2, <2>3, <2>7 DEF StageOfUnboxing, OnPurchase, Purchased, OnCall,
       Commits, Buyer, Alike, Bought, SameSkins
  <2>9. Stage(k, rows, durable, lastRow, mishaps, now)
    BY <2>3, <2>8, UnboxingStage DEF OnPurchase
  <2> QED
    BY <1>b, <2>1, <2>6, <2>9, WriteInside
<1>5. CASE DrawSkin(w)
  <2>1. j.pc = "draw" /\ UNCHANGED now
    BY <1>5 DEF DrawSkin, Running
  <2>2. /\ Buyer(j) /\ Bought(j, tables, durable)
        /\ tables.inventory = durable.inventory /\ tables.items = durable.items
    BY <1>u, <2>1 DEF StageOfUnboxing, OnPurchase, Purchased
  <2>3. CASE Read(w, At(j, "rollback"))
    BY <1>b, <2>1, <2>3, CarefreeStage, ReadKept
  <2>4. ASSUME NEW s \in CaseSkins[j.case], NEW wear,
               Read(w, [j EXCEPT !.pc = "create_item",
                          !.item = [owner |-> j.user, skin |-> s, wear |-> wear]])
        PROVE  Kept
    <3> DEFINE x == [owner |-> j.user, skin |-> s, wear |-> wear]
               k == [j EXCEPT !.pc = "create_item", !.item = x]
    <3>1. x.owner = j.user /\ x.skin = s
      OBVIOUS
    <3> HIDE DEF x
    <3>2. /\ k.pc = "create_item" /\ k.kind = j.kind /\ k.user = j.user
          /\ k.case = j.case /\ k.item = x
      BY <1>h DEF Fields
    <3>3. Read(w, k)
      BY <2>4 DEF x
    <3> HIDE DEF k, j
    <3>4. Drawn(k) /\ Bought(k, tables, durable) /\ Buyer(k)
      BY <2>2, <2>4, <3>1, <3>2 DEF Drawn, Bought, Buyer
    <3>5. StageOfUnboxing(k, tables, durable, lastRow)
      BY <2>2, <3>2, <3>4
         DEF StageOfUnboxing, OnPurchase, Purchased, OnCall, Commits
    <3>6. Stage(k, tables, durable, lastRow, mishaps, now)
      BY <3>2, <3>5, UnboxingStage DEF OnPurchase
    <3> QED
      BY <2>1, <3>3, <3>6, ReadKept
  <2>5. \A roll \in Dice : Pool(CaseSkins[j.case], roll) \subseteq CaseSkins[j.case]
    BY DEF Pool, SkinsOfRarity
  <2> HIDE DEF j
  <2>6. \/ Read(w, At(j, "rollback"))
        \/ \E wear \in Wears : \E s \in CaseSkins[j.case] :
             Read(w, [j EXCEPT !.pc = "create_item",
                        !.item = [owner |-> j.user, skin |-> s, wear |-> wear]])
    BY <1>5, <2>5 DEF DrawSkin, j
  <2> QED
    BY <2>3, <2>4, <2>6
<1>6. CASE CreateSkinInstance(w)
  <2>1. j.pc = "create_item" /\ UNCHANGED now /\ Inside(j)
    BY <1>6 DEF CreateSkinInstance, Running, Inside, InsideTx
  <2>2. /\ Buyer(j) /\ Bought(j, tables, durable) /\ Drawn(j)
        /\ tables.inventory = durable.inventory /\ tables.items = durable.items
    BY <1>u, <2>1 DEF StageOfUnboxing, OnPurchase, Purchased
  <2>3. CASE Read(w, At(j, "rollback"))
    BY <1>b, <2>1, <2>3, CarefreeStage, ReadKept
  <2>4. ASSUME NEW i \in NextItem,
               WriteNew(w, [tables EXCEPT !.items[i] = j.item], i,
                        At(j, "item_id"), At(j, "rollback"))
        PROVE  Kept
    <3> DEFINE k == At(j, "item_id")
               rows == [tables EXCEPT !.items[i] = j.item]
    <3>1. k.pc = "item_id" /\ Alike(j, k)
      BY <1>h, AtAlike
    <3>2. /\ rows.items = [tables.items EXCEPT ![i] = j.item]
          /\ rows.inventory = tables.inventory /\ rows.balance = tables.balance
          /\ rows.challenges = tables.challenges
      BY <1>h, SkinRows
    <3>3. i \in ItemIds /\ durable.items[i].owner = Nobody
      BY <2>2 DEF NextItem
    <3>4. WriteNew(w, rows, i, k, At(j, "rollback"))
      BY <2>4
    <3> HIDE DEF k, rows, j
    <3>5. Bought(k, rows, durable) /\ Buyer(k) /\ Created(k, i, rows, durable)
      BY <2>2, <3>1, <3>2, <3>3
         DEF Bought, Buyer, Created, Drawn, Paid, SameChallenges, Alike
    <3>6. StageOfUnboxing(k, rows, durable, i)
      BY <2>2, <3>1, <3>2, <3>5
         DEF StageOfUnboxing, OnPurchase, Purchased, OnCall, Commits
    <3>7. Stage(k, rows, durable, i, mishaps, now)
      BY <3>1, <3>6, UnboxingStage DEF OnPurchase
    <3> QED
      BY <1>b, <2>1, <3>4, <3>7, WriteInside DEF j
  <2> QED
    BY <1>6, <2>3, <2>4 DEF CreateSkinInstance
<1>7. CASE TakeItemId(w)
  <2> DEFINE k == [j EXCEPT !.pc = "give", !.row = lastRow]
  <2>1. j.pc = "item_id" /\ UNCHANGED now
    BY <1>7 DEF TakeItemId, Running
  <2>2. /\ Buyer(j) /\ Bought(j, tables, durable)
        /\ Created(j, lastRow, tables, durable)
        /\ tables.inventory = durable.inventory
    BY <1>u, <2>1 DEF StageOfUnboxing, OnPurchase, Purchased
  <2>3. /\ k.pc = "give" /\ k.kind = j.kind /\ k.user = j.user
        /\ k.case = j.case /\ k.item = j.item /\ k.row = lastRow
    BY <1>h DEF Fields
  <2>4. Read(w, k)
    BY <1>7 DEF TakeItemId
  <2> HIDE DEF k, j
  <2>5. /\ Bought(k, tables, durable) /\ Buyer(k)
        /\ Created(k, k.row, tables, durable)
    BY <2>2, <2>3 DEF Bought, Buyer, Created, Drawn
  <2>6. StageOfUnboxing(k, tables, durable, lastRow)
    BY <2>2, <2>3, <2>5
       DEF StageOfUnboxing, OnPurchase, Purchased, OnCall, Commits
  <2>7. Stage(k, tables, durable, lastRow, mishaps, now)
    BY <2>3, <2>6, UnboxingStage DEF OnPurchase
  <2> QED
    BY <2>1, <2>4, <2>7, ReadKept
<1>8. CASE AddToInventory(w)
  <2> DEFINE k == At(j, "commit")
             rows == [tables EXCEPT !.inventory = @ \cup {<<j.user, j.row>>}]
  <2>1. j.pc = "give" /\ UNCHANGED now /\ Inside(j)
    BY <1>8 DEF AddToInventory, Running, Inside, InsideTx
  <2>2. /\ Buyer(j) /\ Bought(j, tables, durable)
        /\ Created(j, j.row, tables, durable)
    BY <1>u, <2>1 DEF StageOfUnboxing, OnPurchase, Purchased
  <2>3. k.pc = "commit" /\ Alike(j, k)
    BY <1>h, AtAlike
  <2>4. CASE Read(w, At(j, "rollback"))
    BY <1>b, <2>1, <2>4, CarefreeStage, ReadKept
  <2>5. ASSUME NEW r, r.items = tables.items, r.balance = tables.balance,
               r.challenges = tables.challenges,
               <<j.user, j.row>> \in r.inventory, NEW n
        PROVE  Stage(k, r, durable, n, mishaps, now)
    <3> HIDE DEF k, j
    <3>1. /\ Bought(k, r, durable) /\ Buyer(k)
          /\ Created(k, k.row, r, durable)
          /\ <<k.user, k.row>> \in r.inventory
      BY <2>2, <2>3, <2>5
         DEF Bought, Buyer, Created, Drawn, Paid, SameChallenges, Alike
    <3>2. Commits(k, "unbox")
      BY <2>3, <3>1 DEF Commits, Buyer
    <3>3. StageOfUnboxing(k, r, durable, n)
      BY <2>3, <3>1 DEF StageOfUnboxing, OnPurchase, Purchased, OnCall
    <3> QED
      BY <3>2, <3>3, UnboxingStage
  <2>6. CASE /\ <<j.user, j.row>> \in tables.inventory
             /\ Write(w, tables, k, At(j, "rollback"))
    <3>1. Stage(k, tables, durable, lastRow, mishaps, now)
      BY <2>5, <2>6
    <3> QED
      BY <1>b, <2>1, <2>6, <3>1, WriteInside
  <2>7. CASE WriteNew(w, rows, OtherRow, k, At(j, "rollback"))
    <3>1. /\ rows.items = tables.items /\ rows.balance = tables.balance
          /\ rows.challenges = tables.challenges
          /\ rows.inventory = tables.inventory \cup {<<j.user, j.row>>}
      BY <1>h, InventoryRows
    <3>2. <<j.user, j.row>> \in rows.inventory
      BY <3>1
    <3> HIDE DEF rows
    <3>3. Stage(k, rows, durable, OtherRow, mishaps, now)
      BY <2>5, <3>1, <3>2
    <3> QED
      BY <1>b, <2>1, <2>7, <3>3, WriteInside
  <2> QED
    BY <1>8, <2>4, <2>6, <2>7 DEF AddToInventory
<1> QED
  BY <1>1, <1>2, <1>3, <1>4, <1>5, <1>6, <1>7, <1>8 DEF Unbox

-----------------------------------------------------------------------------
(* What follows an unboxing.                                               *)

LEMMA CallStage ==
  ASSUME NEW k, k.pc \in OnCall, NEW r, NEW d, SameRows(r, d), NEW n, NEW m, NEW s
  PROVE  Stage(k, r, d, n, m, s)
<1>1. StageOfUnboxing(k, r, d, n)
  BY DEF StageOfUnboxing, OnPurchase, Purchased, OnCall, Commits
<1> QED
  BY <1>1, UnboxingStage

LEMMA CallHurt ==
  ASSUME NEW k, k.pc \in OnCall, NEW r, NEW d, SameRows(r, d), NEW n, NEW s
  PROVE  Hurt(k, r, d, n, s)
BY CallStage DEF Hurt

LEMMA OnDisk == ASSUME NEW d PROVE SameRows(d, d)
BY DEF SameRows, SameSkins, SameChallenges

LEMMA AfterUnboxKept ==
  ASSUME NEW w, Turn(w), AfterUnbox(w)
  PROVE  Kept
<1> DEFINE j == job[w]
<1>h. /\ Fields(j) /\ Shape(j) /\ Ready(j, j.pc)
      /\ Rows(tables) /\ Rows(durable) /\ Files(durable)
      /\ Stage(j, tables, durable, lastRow, mishaps, now)
  BY TurnFacts
<1>c. j.pc \in OnCall => SameRows(tables, durable) /\ Inside(j)
  BY <1>h DEF Stage, StageOfUnboxing, OnCall, Inside, InsideTx
<1>a. \A label \in Carefree : At(j, label).pc \in Carefree
  BY <1>h, AtCarefree
<1>l. \A label : At(j, label).pc = label
  BY <1>h, AtAlike
<1>r. j.pc \in OnCall =>
        /\ At(j, "call_rollback").pc \in OnCall
        /\ Hurt(At(j, "call_rollback"), tables, durable, lastRow, now)
  BY <1>c, <1>l, CallHurt DEF OnCall
<1>1. CASE UnboxLog(w)
  <2>1. j.pc = "log" /\ UNCHANGED now /\ ~Inside(j)
    BY <1>1 DEF UnboxLog, Running, Inside, InsideTx
  <2>2. At(j, "call").pc \in Carefree
    BY <1>a DEF Carefree
  <2>3. WriteNew(w, tables, OtherRow, At(j, "call"), At(j, "call"))
    BY <1>1 DEF UnboxLog
  <2> QED
    BY <2>1, <2>2, <2>3, LogKept
<1>2. CASE NextCall(w)
  <2>1. UNCHANGED now /\ Read(w, At(j, "list"))
    BY <1>2 DEF NextCall, Running
  <2>2. At(j, "list").pc \in Carefree
    BY <1>a DEF Carefree
  <2> QED
    BY <2>1, <2>2, CarefreeStage, ReadKept
<1>3. CASE CallBegin(w)
  <2>1. PICK c :
          LET called == [j EXCEPT !.call = c] IN
          BeginAt(w, "call", At(called, "call_load"), called)
    BY <1>3 DEF CallBegin
  <2> DEFINE called == [j EXCEPT !.call = c]
             k == At(called, "call_load")
  <2>2. j.pc = "call" /\ ~Inside(j)
    BY <2>1 DEF BeginAt, Running, Inside, InsideTx
  <2>3. called.pc = "call" /\ Fields(called)
    BY <1>h, <2>2 DEF Fields
  <2>4. k.pc = "call_load"
    BY <2>3, AtAlike
  <2>5. BeginAt(w, "call", k, called)
    BY <2>1
  <2> HIDE DEF k, called
  <2>6. Stage(k, durable, durable, lastRow, mishaps, now)
    BY <2>4, CallStage, OnDisk DEF OnCall
  <2>7. called.pc \in Carefree
    BY <2>3 DEF Carefree
  <2> QED
    BY <2>2, <2>5, <2>6, <2>7, BeginKept
<1>4. CASE CallLoad(w)
  <2>1. j.pc \in OnCall /\ UNCHANGED now
    BY <1>4 DEF CallLoad, Running, OnCall
  <2>2. ASSUME NEW k, k.pc \in OnCall, Read(w, k)
        PROVE  Kept
    BY <1>c, <2>1, <2>2, CallStage, ReadKept
  <2>3. CASE Read(w, At(j, "call_rollback")) \/ Read(w, At(j, "call_write"))
    BY <1>l, <2>2, <2>3 DEF OnCall
  <2>4. ASSUME NEW x, Read(w, [j EXCEPT !.pc = "call_write", !.progress = x])
        PROVE  Kept
    <3> DEFINE k == [j EXCEPT !.pc = "call_write", !.progress = x]
    <3>1. k.pc = "call_write"
      BY <1>h DEF Fields
    <3>2. Read(w, k)
      BY <2>4
    <3> HIDE DEF k
    <3> QED
      BY <2>2, <3>1, <3>2 DEF OnCall
  <2> QED
    BY <1>4, <2>3, <2>4 DEF CallLoad
<1>5. CASE CallWrite(w)
  <2>1. j.pc \in OnCall /\ UNCHANGED now
    BY <1>5 DEF CallWrite, Running, OnCall
  <2>2. At(j, "call_commit").pc \in OnCall
    BY <1>l DEF OnCall
  <2>3. ASSUME NEW rows, SameRows(rows, tables), NEW rowid,
               \/ Write(w, rows, At(j, "call_commit"), At(j, "call_rollback"))
                  /\ rowid = lastRow
               \/ WriteNew(w, rows, rowid, At(j, "call_commit"),
                           At(j, "call_rollback"))
        PROVE  Kept
    <3>1. SameRows(rows, durable)
      BY <1>c, <2>1, <2>3 DEF SameRows, SameSkins, SameChallenges
    <3>2. Stage(At(j, "call_commit"), rows, durable, rowid, mishaps, now)
      BY <2>2, <3>1, CallStage
    <3> QED
      BY <1>c, <1>r, <2>1, <2>3, <3>2, WriteInside
  <2>4. /\ SameRows([tables EXCEPT !.knife = @ \cup {j.user}], tables)
        /\ SameRows([tables EXCEPT !.progress[j.user][QuestOf(j.call)] = j.progress],
                    tables)
    BY <1>h, CallRows
  <2> QED
    BY <1>5, <2>3, <2>4 DEF CallWrite
<1>6. CASE CallCommit(w)
  <2>1. j.pc \in OnCall
    BY <1>6 DEF CallCommit, CommitAt, Running, OnCall
  <2>2. CommitAt(w, "call_commit", At(j, "call"), At(j, "call_rollback"))
    BY <1>6 DEF CallCommit
  <2>3. CASE /\ Become(w, At(j, "call")) /\ tables' = tables /\ durable' = tables
             /\ inTx' = FALSE /\ mishaps' = mishaps /\ lastRow' = lastRow
             /\ UNCHANGED now
    <3>1. Peaceful(durable', durable) /\ Files(durable')
      BY <1>c, <1>h, <2>1, <2>3, FilesSame
         DEF Peaceful, SameRows, SameSkins, SameChallenges
    <3>2. Lawful
      BY <1>h, <3>1, PeacefulLawful
    <3>3. Stage(At(j, "call"), tables', durable', lastRow', mishaps', now')
      BY <1>a, CarefreeStage DEF Carefree
    <3> QED
      BY <2>3, <3>1, <3>2, <3>3, TurnFacts, KeptBy
  <2>4. CASE /\ Become(w, At(j, "call_rollback")) /\ Mishap
             /\ UNCHANGED connection /\ UNCHANGED now
    BY <1>r, <2>1, <2>4, FailedKept
  <2> QED
    BY <1>c, <2>1, <2>2, <2>3, <2>4, CommitCases
<1>7. CASE CallRollback(w)
  <2>1. j.pc \in OnCall /\ UNCHANGED now /\ Rollback /\ Smooth
        /\ Become(w, At(j, "call"))
    BY <1>7 DEF CallRollback, Running, OnCall
  <2>2. At(j, "call").pc \in Carefree
    BY <1>a DEF Carefree
  <2> QED
    BY <1>c, <2>1, <2>2, RollbackKept
<1>8. CASE ListChallenges(w)
  <2>1. PICK s : Read(w, [j EXCEPT !.pc = "next", !.rest = s])
    BY <1>8 DEF ListChallenges
  <2>2. [j EXCEPT !.pc = "next", !.rest = s].pc \in Carefree
    BY <1>h DEF Fields, Carefree
  <2>3. UNCHANGED now
    BY <1>8 DEF ListChallenges, Running
  <2> QED
    BY <2>1, <2>2, <2>3, CarefreeStage, ReadKept
<1>9. CASE NextChallenge(w)
  <2>1. j.pc = "next" /\ UNCHANGED now
    BY <1>9 DEF NextChallenge, Running
  <2>2. j.kind = "unbox"
    BY <1>h, <2>1 DEF Ready, AfterCommit
  <2>3. At(j, "broadcast").pc \in Carefree
    BY <1>a DEF Carefree
  <2>4. CASE Read(w, At(j, "broadcast")) \/ Read(w, Idle)
    BY <2>1, <2>3, <2>4, IdleCarefree, CarefreeStage, ReadKept
  <2>5. ASSUME NEW c \in j.rest,
               Read(w, [j EXCEPT !.pc = "progress_load", !.id = c,
                                 !.rest = @ \ {c}])
        PROVE  Kept
    <3> DEFINE k == [j EXCEPT !.pc = "progress_load", !.id = c, !.rest = @ \ {c}]
    <3>1. k.pc = "progress_load" /\ k.kind = "unbox"
      BY <1>h, <2>2 DEF Fields
    <3>2. Read(w, k)
      BY <2>5
    <3> HIDE DEF k
    <3>3. StageOfProgress(k, durable)
      BY <3>1 DEF StageOfProgress, OnCreation
    <3>4. Stage(k, tables, durable, lastRow, mishaps, now)
      BY <3>1, <3>3, ProgressStage DEF OnProgress
    <3> QED
      BY <2>1, <3>2, <3>4, ReadKept
  <2> QED
    BY <1>9, <2>4, <2>5 DEF NextChallenge
<1>10. CASE BroadcastRareUnbox(w)
  <2>1. j.pc = "broadcast" /\ UNCHANGED now /\ ~Inside(j)
        /\ WriteNew(w, tables, OtherRow, Idle, Idle)
    BY <1>10 DEF BroadcastRareUnbox, Running, Inside, InsideTx
  <2> QED
    BY <2>1, IdleCarefree, LogKept
<1> QED
  BY <1>1, <1>2, <1>3, <1>4, <1>5, <1>6, <1>7, <1>8, <1>9, <1>10 DEF AfterUnbox

-----------------------------------------------------------------------------
(* update_challenge_progress.                                              *)

LEMMA ReturnStage ==
  ASSUME NEW j, Fields(j), j.kind \in {"unbox", "complete", "progress"},
         NEW r, NEW d, NEW n, NEW m, NEW s,
         \/ j.kind # "complete"
         \/ /\ Race(j, d).status = "active"
            /\ m # 0 \/ Measured(Race(j, d), Race(j, d), d)
  PROVE  Stage(Return(j), r, d, n, m, s)
<1>1. CASE j.kind = "unbox"
  <2>1. Return(j).pc \in Carefree
    BY <1>1, AtAlike DEF Return, Carefree
  <2> QED
    BY <2>1, CarefreeStage
<1>2. CASE j.kind = "progress"
  <2>1. Return(j).pc \in Carefree
    BY <1>2, IdleCarefree DEF Return
  <2> QED
    BY <2>1, CarefreeStage
<1>3. CASE j.kind = "complete"
  <2> DEFINE k == At(j, "reload")
  <2>1. k.pc = "reload" /\ Alike(j, k)
    BY AtAlike
  <2>2. Return(j) = k
    BY <1>3 DEF Return
  <2> HIDE DEF k
  <2>3. Race(k, d) = Race(j, d)
    BY <2>1 DEF Race, Alike
  <2>4. StageOfReward(k, r, d, m)
    BY <1>3, <2>1, <2>3
       DEF StageOfReward, Completing, Judged, OnReward, Commits, Alike
  <2>5. Stage(k, r, d, n, m, s)
    BY <2>1, <2>4, RewardStage DEF Completing
  <2> QED
    BY <2>2, <2>5
<1> QED
  BY <1>1, <1>2, <1>3

LEMMA ReturnHurt ==
  ASSUME NEW j, Fields(j), j.kind \in {"unbox", "complete", "progress"},
         NEW r, NEW d, NEW n, NEW s,
         j.kind # "complete" \/ Race(j, d).status = "active"
  PROVE  Hurt(Return(j), r, d, n, s)
<1>1. ASSUME NEW m \in Nat \ {0} PROVE Stage(Return(j), r, d, n, m, s)
  <2>1. m # 0
    OBVIOUS
  <2> QED
    BY <2>1, ReturnStage
<1> QED
  BY <1>1 DEF Hurt

LEMMA ProgressKept ==
  ASSUME NEW w, Turn(w), Progress(w)
  PROVE  Kept
<1> DEFINE j == job[w]
<1>h. /\ Fields(j) /\ Shape(j) /\ Ready(j, j.pc)
      /\ Rows(tables) /\ Rows(durable) /\ Files(durable)
      /\ Stage(j, tables, durable, lastRow, mishaps, now)
  BY TurnFacts
<1>p. StageOfProgress(j, durable)
  BY <1>h DEF Stage
<1>o. j.pc \in OnProgress => /\ ~Inside(j) /\ tables = durable
                             /\ j.id \in ChallengeIds
                             /\ j.kind \in {"unbox", "complete", "progress"}
                             /\ j.kind = "complete" => Race(j, durable).status = "active"
  BY <1>h, <1>p, TurnOutside
     DEF Inside, InsideTx, OnProgress, Ready, OnChallenge, StageOfProgress
<1>1. CASE UpdateChallengeProgress(w)
  <2>1. PICK c \in ChallengeIds :
          Become(w, [Idle EXCEPT !.pc = "progress_load", !.kind = "progress",
                                 !.id = c])
    BY <1>1 DEF UpdateChallengeProgress
  <2> DEFINE k == [Idle EXCEPT !.pc = "progress_load", !.kind = "progress", !.id = c]
  <2>2. k.pc = "progress_load" /\ k.kind = "progress"
    BY DEF Idle
  <2>3. Request(w, "progress") /\ Become(w, k)
    BY <1>1, <2>1 DEF UpdateChallengeProgress
  <2> HIDE DEF k
  <2>4. StageOfProgress(k, durable)
    BY <2>2 DEF StageOfProgress, OnCreation
  <2>5. Stage(k, tables, durable, lastRow, mishaps, now)
    BY <2>2, <2>4, ProgressStage DEF OnProgress
  <2> QED
    BY <2>3, <2>5, RequestKept
<1>2. CASE LoadForProgress(w)
  <2> DEFINE row == tables.challenges[j.id]
             k == [j EXCEPT !.pc = "worth_a", !.challenge = row]
  <2>1. j.pc \in OnProgress /\ UNCHANGED now
    BY <1>2 DEF LoadForProgress, Running, OnProgress
  <2>2. row = Race(j, durable)
    BY <1>o, <2>1 DEF Race
  <2>3. CASE row.status # "active" /\ Read(w, Return(j))
    <3>1. j.kind # "complete"
      BY <1>o, <2>1, <2>2, <2>3
    <3>2. Stage(Return(j), tables, durable, lastRow, mishaps, now)
      BY <1>h, <1>o, <2>1, <3>1, ReturnStage
    <3> QED
      BY <2>1, <2>3, <3>2, ReadKept
  <2>4. CASE Read(w, k)
    <3>1. /\ k.pc = "worth_a" /\ k.kind = j.kind /\ k.id = j.id
          /\ k.challenge = row
      BY <1>h DEF Fields
    <3> HIDE DEF k, row
    <3>2. Race(k, durable) = Race(j, durable)
      BY <3>1 DEF Race
    <3>3. StageOfProgress(k, durable)
      BY <1>o, <2>1, <2>2, <3>1, <3>2 DEF StageOfProgress, OnCreation
    <3>4. Stage(k, tables, durable, lastRow, mishaps, now)
      BY <3>1, <3>3, ProgressStage DEF OnProgress
    <3> QED
      BY <2>1, <2>4, <3>4, ReadKept
  <2> QED
    BY <1>2, <2>3, <2>4 DEF LoadForProgress
<1>3. CASE WorthOfChallenger(w)
  <2> DEFINE x == NetWorth(tables, j.challenge.challenger)
             k == [j EXCEPT !.pc = "worth_b", !.worth = x]
  <2>1. j.pc \in OnProgress /\ j.pc = "worth_a" /\ UNCHANGED now /\ Read(w, k)
    BY <1>3 DEF WorthOfChallenger, Running, OnProgress
  <2>2. j.challenge = Race(j, durable)
    BY <1>p, <2>1 DEF StageOfProgress
  <2>3. x = NetWorth(durable, Race(j, durable).challenger)
    BY <1>o, <2>1, <2>2
  <2> HIDE DEF x
  <2>4. /\ k.pc = "worth_b" /\ k.kind = j.kind /\ k.id = j.id
        /\ k.challenge = j.challenge /\ k.worth = x
    BY <1>h DEF Fields
  <2> HIDE DEF k
  <2>5. Race(k, durable) = Race(j, durable)
    BY <2>4 DEF Race
  <2>6. StageOfProgress(k, durable)
    BY <1>o, <2>1, <2>2, <2>3, <2>4, <2>5 DEF StageOfProgress, OnCreation
  <2>7. Stage(k, tables, durable, lastRow, mishaps, now)
    BY <2>4, <2>6, ProgressStage DEF OnProgress
  <2> QED
    BY <2>1, <2>7, ReadKept
<1>4. CASE WorthOfOpponent(w)
  <2> DEFINE row == j.challenge
             x == j.worth - row.challenger_start
             y == NetWorth(tables, row.opponent) - row.opponent_start
             k == [j EXCEPT !.pc = "progress_write",
                            !.challenge.challenger_profit = x,
                            !.challenge.opponent_profit = y]
  <2>1. j.pc \in OnProgress /\ j.pc = "worth_b" /\ UNCHANGED now /\ Read(w, k)
    BY <1>4 DEF WorthOfOpponent, Running, OnProgress
  <2>2. row = Race(j, durable) /\ j.worth = NetWorth(durable, row.challenger)
    BY <1>p, <2>1 DEF StageOfProgress
  <2>3. /\ x = NetWorth(durable, row.challenger) - row.challenger_start
        /\ y = NetWorth(durable, row.opponent) - row.opponent_start
    BY <1>o, <2>1, <2>2
  <2>4. Columns(row)
    BY <1>h, <1>o, <2>1, <2>2 DEF Rows, Row, Race
  <2> HIDE DEF x, y
  <2> DEFINE gains == [row EXCEPT !.challenger_profit = x, !.opponent_profit = y]
  <2>5. /\ k.pc = "progress_write" /\ k.kind = j.kind /\ k.id = j.id
        /\ k.challenge = gains
    BY <1>h DEF Fields
  <2> HIDE DEF row
  <2>6. gains.challenger_profit = x /\ gains.opponent_profit = y
    BY <2>4 DEF Columns
  <2> HIDE DEF gains, k
  <2>7. /\ k.challenge.challenger_profit = x
        /\ k.challenge.opponent_profit = y
    BY <2>5, <2>6
  <2>8. Race(k, durable) = row
    BY <2>2, <2>5 DEF Race
  <2>9. Measured(row, k.challenge, durable)
    BY <2>3, <2>7 DEF Measured
  <2>10. StageOfProgress(k, durable)
    BY <1>o, <2>1, <2>2, <2>5, <2>8, <2>9 DEF StageOfProgress, OnCreation
  <2>11. Stage(k, tables, durable, lastRow, mishaps, now)
    BY <2>5, <2>10, ProgressStage DEF OnProgress
  <2> QED
    BY <2>1, <2>11, ReadKept
<1>5. CASE SaveProgress(w)
  <2> DEFINE race == Race(j, durable)
             x == j.challenge.challenger_profit
             y == j.challenge.opponent_profit
             row == [race EXCEPT !.challenger_profit = x, !.opponent_profit = y]
             rows == [tables EXCEPT !.challenges[j.id] = row]
  <2>1. /\ j.pc \in OnProgress /\ j.pc = "progress_write" /\ UNCHANGED now
    BY <1>5 DEF SaveProgress, Running, OnProgress
  <2>2. Measured(race, j.challenge, durable)
    BY <1>p, <2>1 DEF StageOfProgress
  <2>3. race = tables.challenges[j.id] /\ tables = durable
    BY <1>o, <2>1 DEF Race
  <2>4. Hurt(Return(j), durable, durable, lastRow, now)
    BY <1>h, <1>o, <2>1, ReturnHurt
  <2>5. CASE /\ race.status = "none"
             /\ Write(w, tables, Return(j), Return(j))
    <3>1. j.kind # "complete"
      BY <1>o, <2>1, <2>5
    <3>2. Return(j).pc \in Carefree
      BY <1>h, <1>o, <2>1, <3>1, AtAlike, IdleCarefree DEF Return, Carefree
    <3> QED
      BY <1>o, <2>1, <2>5, <3>2, LogKept
  <2>6. CASE /\ race.status # "none"
             /\ Write(w, rows, Return(j), Return(j))
    <3>1. Columns(race) /\ Filed(race)
      BY <1>h, <1>o, <2>1 DEF Rows, Row, Files, Race
    <3>2. /\ row.status = race.status /\ row.started = race.started
          /\ row.challenger = race.challenger /\ row.opponent = race.opponent
          /\ row.challenger_start = race.challenger_start
          /\ row.opponent_start = race.opponent_start
          /\ row.challenger_profit = x /\ row.opponent_profit = y
      BY <3>1 DEF Columns
    <3> HIDE DEF row
    <3>3. Filed(row)
      BY <3>1, <3>2 DEF Filed
    <3>4. /\ Files(rows) /\ SameSkins(rows, tables)
          /\ rows.balance = tables.balance /\ rows.challenges[j.id] = row
          /\ \A c \in ChallengeIds \ {j.id} : rows.challenges[c] = tables.challenges[c]
      BY <1>h, <1>o, <2>1, <2>3, <3>3, AmendedRows
    <3> HIDE DEF rows, race
    <3>5. Peaceful(rows, durable)
      BY <2>3, <3>2, <3>4 DEF Peaceful, SameSkins
    <3>6. \A u : NetWorth(rows, u) = NetWorth(durable, u)
      BY <2>3, <3>4, SameWorth
    <3>7. Measured(row, row, rows) /\ Race(j, rows) = row
      BY <2>2, <3>2, <3>4, <3>6 DEF Measured, Race
    <3>8. j.kind # "complete" \/ Race(j, rows).status = "active"
      BY <1>o, <2>1, <3>2, <3>7 DEF race
    <3>9. Stage(Return(j), rows, rows, lastRow', mishaps, now)
      BY <1>h, <1>o, <2>1, <3>7, <3>8, ReturnStage
    <3> QED
      BY <1>o, <2>1, <2>4, <2>6, <3>4, <3>5, <3>9, WriteOutside
  <2> QED
    BY <1>5, <2>3, <2>5, <2>6 DEF SaveProgress, WriteChallenge
<1> QED
  BY <1>1, <1>2, <1>3, <1>4, <1>5 DEF Progress

-----------------------------------------------------------------------------
(* create_profit_race_challenge and accept_challenge.                      *)

LEMMA CreationStage ==
  ASSUME NEW k, k.pc \in OnCreation, k.challenge.status = "pending",
         k.challenge.challenger # k.challenge.opponent, k.challenge.votes = {},
         NEW r, NEW d, NEW n, NEW m, NEW s
  PROVE  Stage(k, r, d, n, m, s)
<1>1. StageOfProgress(k, d)
  BY DEF StageOfProgress, OnCreation, OnProgress
<1> QED
  BY <1>1, ProgressStage

LEMMA ArrangeKept ==
  ASSUME NEW w, Turn(w), Arrange(w)
  PROVE  Kept
<1> DEFINE j == job[w]
<1>h. /\ Fields(j) /\ Shape(j) /\ Ready(j, j.pc)
      /\ Rows(tables) /\ Rows(durable) /\ Files(durable)
      /\ Stage(j, tables, durable, lastRow, mishaps, now) /\ now \in Seconds
  BY TurnFacts
<1>p. StageOfProgress(j, durable)
  BY <1>h DEF Stage
<1>k. j.pc \in OnCreation =>
        /\ ~Inside(j) /\ Columns(j.challenge)
        /\ j.challenge.status = "pending"
        /\ j.challenge.challenger # j.challenge.opponent
        /\ j.challenge.votes = {}
  BY <1>h, <1>p DEF Ready, StageOfProgress, OnCreation, Inside, InsideTx
<1>1. CASE CreateChallenge(w)
  <2>1. PICK u \in Users, v \in Users :
          /\ u # v
          /\ Become(w, [Idle EXCEPT !.pc = "create_a", !.kind = "create",
                          !.challenge = [NoChallenge EXCEPT !.challenger = u,
                                           !.opponent = v, !.status = "pending"]])
    BY <1>1 DEF CreateChallenge
  <2> DEFINE row == [NoChallenge EXCEPT !.challenger = u, !.opponent = v,
                                        !.status = "pending"]
             k == [Idle EXCEPT !.pc = "create_a", !.kind = "create",
                               !.challenge = row]
  <2>2. /\ row.challenger = u /\ row.opponent = v
        /\ row.status = "pending" /\ row.votes = {}
    BY DEF NoChallenge
  <2>3. Request(w, "create") /\ Become(w, k)
    BY <1>1, <2>1 DEF CreateChallenge
  <2> HIDE DEF row
  <2>4. k.pc = "create_a" /\ k.challenge = row
    BY DEF Idle
  <2> HIDE DEF k
  <2>5. Stage(k, tables, durable, lastRow, mishaps, now)
    BY <2>1, <2>2, <2>4, CreationStage DEF OnCreation
  <2> QED
    BY <2>3, <2>5, RequestKept
<1>2. CASE StartOfChallenger(w)
  <2>1. PICK x : Read(w, [j EXCEPT !.pc = "create_b",
                                   !.challenge.challenger_start = x])
    BY <1>2 DEF StartOfChallenger
  <2> DEFINE row == [j.challenge EXCEPT !.challenger_start = x]
             k == [j EXCEPT !.pc = "create_b", !.challenge.challenger_start = x]
  <2>2. j.pc \in OnCreation /\ UNCHANGED now
    BY <1>2 DEF StartOfChallenger, Running, OnCreation
  <2>3. /\ row.challenger = j.challenge.challenger
        /\ row.opponent = j.challenge.opponent /\ row.status = j.challenge.status
        /\ row.votes = j.challenge.votes
    BY <1>k, <2>2 DEF Columns
  <2>4. k.pc = "create_b" /\ k.challenge = row
    BY <1>h DEF Fields
  <2>5. Read(w, k)
    BY <2>1
  <2> HIDE DEF k, row
  <2>6. Stage(k, tables, durable, lastRow, mishaps, now)
    BY <1>k, <2>2, <2>3, <2>4, CreationStage DEF OnCreation
  <2> QED
    BY <2>2, <2>5, <2>6, ReadKept
<1>3. CASE StartOfOpponent(w)
  <2>1. PICK x : Read(w, [j EXCEPT !.pc = "create_save",
                                   !.challenge.opponent_start = x])
    BY <1>3 DEF StartOfOpponent
  <2> DEFINE row == [j.challenge EXCEPT !.opponent_start = x]
             k == [j EXCEPT !.pc = "create_save", !.challenge.opponent_start = x]
  <2>2. j.pc \in OnCreation /\ UNCHANGED now
    BY <1>3 DEF StartOfOpponent, Running, OnCreation
  <2>3. /\ row.challenger = j.challenge.challenger
        /\ row.opponent = j.challenge.opponent /\ row.status = j.challenge.status
        /\ row.votes = j.challenge.votes
    BY <1>k, <2>2 DEF Columns
  <2>4. k.pc = "create_save" /\ k.challenge = row
    BY <1>h DEF Fields
  <2>5. Read(w, k)
    BY <2>1
  <2> HIDE DEF k, row
  <2>6. Stage(k, tables, durable, lastRow, mishaps, now)
    BY <1>k, <2>2, <2>3, <2>4, CreationStage DEF OnCreation
  <2> QED
    BY <2>2, <2>5, <2>6, ReadKept
<1>4. CASE SaveChallenge(w)
  <2> DEFINE row == [j.challenge EXCEPT !.started = now]
  <2>1. j.pc \in OnCreation /\ UNCHANGED now
    BY <1>4 DEF SaveChallenge, Running, OnCreation
  <2>2. /\ row.challenger = j.challenge.challenger
        /\ row.opponent = j.challenge.opponent
        /\ row.status = j.challenge.status /\ row.started = now
    BY <1>k, <2>1 DEF Columns
  <2>3. CASE Read(w, Idle)
    BY <2>1, <2>3, IdleCarefree, CarefreeStage, ReadKept
  <2>4. ASSUME NEW c \in NextId,
               WriteNew(w, [tables EXCEPT !.challenges[c] = row], c, Idle, Idle)
        PROVE  Kept
    <3> DEFINE rows == [tables EXCEPT !.challenges[c] = row]
    <3> HIDE DEF row
    <3>1. Filed(row)
      BY <1>h, <1>k, <2>1, <2>2 DEF Filed
    <3>2. tables = durable /\ c \in ChallengeIds
          /\ tables.challenges[c].status = "none"
      BY <1>k, <2>1, TurnOutside DEF NextId
    <3>3. /\ Files(rows) /\ SameSkins(rows, tables)
          /\ rows.balance = tables.balance /\ rows.challenges[c] = row
          /\ \A k \in ChallengeIds \ {c} : rows.challenges[k] = tables.challenges[k]
      BY <1>h, <3>1, <3>2, AmendedRows
    <3>4. WriteNew(w, rows, c, Idle, Idle)
      BY <2>4
    <3> HIDE DEF rows
    <3>5. Peaceful(rows, durable)
      BY <1>k, <2>1, <2>2, <3>2, <3>3 DEF Peaceful, SameSkins, Final
    <3>6. /\ Stage(Idle, rows, rows, lastRow', mishaps, now)
          /\ Hurt(Idle, durable, durable, lastRow, now)
      BY IdleCarefree, CarefreeStage, CarefreeHurt
    <3> QED
      BY <1>k, <2>1, <3>3, <3>4, <3>5, <3>6, WriteOutside
  <2> QED
    BY <1>4, <2>3, <2>4 DEF SaveChallenge
<1>5. CASE AcceptChallenge(w)
  <2>1. PICK c \in ChallengeIds :
          Become(w, [Idle EXCEPT !.pc = "accept_load", !.kind = "accept", !.id = c])
    BY <1>5 DEF AcceptChallenge
  <2> DEFINE k == [Idle EXCEPT !.pc = "accept_load", !.kind = "accept", !.id = c]
  <2>2. k.pc \in Carefree
    BY DEF Idle, Carefree
  <2>3. Request(w, "accept") /\ Become(w, k)
    BY <1>5, <2>1 DEF AcceptChallenge
  <2> HIDE DEF k
  <2> QED
    BY <2>2, <2>3, CarefreeStage, RequestKept
<1>6. CASE AcceptLoad(w)
  <2> DEFINE k == At(j, "accept_write")
  <2>1. UNCHANGED now /\ ~Inside(j)
    BY <1>6 DEF AcceptLoad, Running, Inside, InsideTx
  <2>2. \/ Read(w, Idle)
        \/ Read(w, k) /\ tables.challenges[j.id].status = "pending"
    BY <1>6 DEF AcceptLoad
  <2>3. k.pc = "accept_write" /\ k.id = j.id
    BY <1>h, AtAlike DEF Alike
  <2> HIDE DEF k
  <2>4. CASE Read(w, k) /\ tables.challenges[j.id].status = "pending"
    <3>1. Race(k, durable).status = "pending"
      BY <2>1, <2>3, <2>4, TurnOutside DEF Race
    <3>2. StageOfProgress(k, durable)
      BY <2>3, <3>1 DEF StageOfProgress, OnCreation, OnProgress
    <3>3. Stage(k, tables, durable, lastRow, mishaps, now)
      BY <2>3, <3>2, ProgressStage
    <3> QED
      BY <2>1, <2>4, <3>3, ReadKept
  <2> QED
    BY <2>1, <2>2, <2>4, IdleCarefree, CarefreeStage, ReadKept
<1>7. CASE AcceptWrite(w)
  <2> DEFINE race == Race(j, durable)
             row == [race EXCEPT !.status = "active", !.started = now]
             rows == [tables EXCEPT !.challenges[j.id] = row]
  <2>1. j.pc = "accept_write" /\ UNCHANGED now /\ ~Inside(j)
    BY <1>7 DEF AcceptWrite, Running, Inside, InsideTx
  <2>2. race.status = "pending" /\ j.id \in ChallengeIds /\ tables = durable
    BY <1>h, <1>p, <2>1, TurnOutside DEF StageOfProgress, Ready, OnChallenge
  <2>3. Write(w, rows, Idle, Idle)
    BY <1>7, <2>2 DEF AcceptWrite, WriteChallenge, Race
  <2>4. Columns(race) /\ Filed(race)
    BY <1>h, <2>2 DEF Rows, Row, Files, Race
  <2>5. /\ row.status = "active" /\ row.started = now
        /\ row.challenger = race.challenger /\ row.opponent = race.opponent
    BY <2>4 DEF Columns
  <2> HIDE DEF row
  <2>6. Filed(row)
    BY <1>h, <2>2, <2>4, <2>5 DEF Filed
  <2>7. /\ Files(rows) /\ SameSkins(rows, tables)
        /\ rows.balance = tables.balance /\ rows.challenges[j.id] = row
        /\ \A c \in ChallengeIds \ {j.id} : rows.challenges[c] = tables.challenges[c]
    BY <1>h, <2>2, <2>6, AmendedRows
  <2> HIDE DEF rows
  <2>8. Peaceful(rows, durable)
    BY <2>2, <2>5, <2>7 DEF Peaceful, SameSkins, Final, Race
  <2>9. /\ Stage(Idle, rows, rows, lastRow', mishaps, now)
        /\ Hurt(Idle, durable, durable, lastRow, now)
    BY IdleCarefree, CarefreeStage, CarefreeHurt
  <2> QED
    BY <2>1, <2>3, <2>7, <2>8, <2>9, WriteOutside
<1> QED
  BY <1>1, <1>2, <1>3, <1>4, <1>5, <1>6, <1>7 DEF Arrange

-----------------------------------------------------------------------------
(* complete_challenge.                                                     *)

LEMMA CompleteKept ==
  ASSUME NEW w, Turn(w), Complete(w)
  PROVE  Kept
<1> DEFINE j == job[w]
           race == Race(j, durable)
<1>h. /\ Fields(j) /\ Shape(j) /\ Ready(j, j.pc)
      /\ Rows(tables) /\ Rows(durable) /\ Files(durable)
      /\ Stage(j, tables, durable, lastRow, mishaps, now)
  BY TurnFacts
<1>r. StageOfReward(j, tables, durable, mishaps)
  BY <1>h DEF Stage
<1>c. Completing(j) /\ j.pc # "commit" =>
        /\ j.kind = "complete" /\ race.status = "active" /\ j.id \in ChallengeIds
        /\ mishaps # 0 \/ Measured(race, race, durable)
  BY <1>h, <1>r DEF StageOfReward, Completing, OnReward, Ready, OnChallenge, Commits
<1>b. /\ At(j, "rollback").pc \in Carefree
      /\ Hurt(At(j, "rollback"), tables, durable, lastRow, now)
  BY <1>h, AtCarefree, CarefreeHurt DEF Carefree
<1>i. Stage(Idle, tables, durable, lastRow, mishaps, now)
  BY IdleCarefree, CarefreeStage
<1>1. CASE CompleteChallenge(w)
  <2>1. PICK c \in ChallengeIds :
          Become(w, [Idle EXCEPT !.pc = "complete_load", !.kind = "complete",
                                 !.id = c])
    BY <1>1 DEF CompleteChallenge
  <2> DEFINE k == [Idle EXCEPT !.pc = "complete_load", !.kind = "complete", !.id = c]
  <2>2. k.pc \in Carefree
    BY DEF Idle, Carefree
  <2>3. Request(w, "complete") /\ Become(w, k)
    BY <1>1, <2>1 DEF CompleteChallenge
  <2> HIDE DEF k
  <2> QED
    BY <2>2, <2>3, CarefreeStage, RequestKept
<1>2. CASE CompleteLoad(w)
  <2> DEFINE x == Winner(tables.challenges[j.id])
             k == [j EXCEPT !.pc = "progress_load", !.winner = x]
  <2>1. UNCHANGED now /\ tables = durable
    BY <1>2, TurnOutside DEF CompleteLoad, Running, Inside, InsideTx
  <2>2. \/ Read(w, Idle)
        \/ Read(w, k) /\ tables.challenges[j.id].status = "active"
    BY <1>2 DEF CompleteLoad
  <2>3. k.pc = "progress_load" /\ k.id = j.id
    BY <1>h DEF Fields
  <2> HIDE DEF k, x
  <2>4. CASE Read(w, k) /\ tables.challenges[j.id].status = "active"
    <3>1. Race(k, durable).status = "active"
      BY <2>1, <2>3, <2>4 DEF Race
    <3>2. StageOfProgress(k, durable)
      BY <2>3, <3>1 DEF StageOfProgress, OnCreation
    <3>3. Stage(k, tables, durable, lastRow, mishaps, now)
      BY <2>3, <3>2, ProgressStage DEF OnProgress
    <3> QED
      BY <2>1, <2>4, <3>3, ReadKept
  <2> QED
    BY <1>i, <2>1, <2>2, <2>4, ReadKept
<1>3. CASE Reload(w)
  <2> DEFINE row == tables.challenges[j.id]
             x == IF row.status = "none" THEN j.winner ELSE Winner(row)
             k == [j EXCEPT !.pc = "complete_begin", !.winner = x]
  <2>1. j.pc = "reload" /\ UNCHANGED now /\ tables = durable
    BY <1>3, TurnOutside DEF Reload, Running, Inside, InsideTx
  <2>2. Read(w, k)
    BY <1>3 DEF Reload
  <2>3. Completing(j) /\ j.pc # "commit"
    BY <2>1 DEF Completing
  <2>4. x = Winner(race)
    BY <1>c, <2>1, <2>3 DEF Race
  <2> HIDE DEF x
  <2>5. /\ k.pc = "complete_begin" /\ k.id = j.id /\ k.kind = j.kind
        /\ k.winner = x
    BY <1>h DEF Fields
  <2> HIDE DEF k
  <2>6. Race(k, durable) = race
    BY <2>5 DEF Race
  <2>7. StageOfReward(k, tables, durable, mishaps)
    BY <1>c, <2>3, <2>4, <2>5, <2>6
       DEF StageOfReward, Completing, Judged, OnReward, Commits
  <2>8. Stage(k, tables, durable, lastRow, mishaps, now)
    BY <2>5, <2>7, RewardStage DEF Completing
  <2> QED
    BY <2>1, <2>2, <2>8, ReadKept
<1>4. CASE CompleteBegin(w)
  <2> DEFINE label == IF j.winner = Nobody THEN "complete_write" ELSE "winner_load"
             k == At(j, label)
  <2>1. j.pc = "complete_begin" /\ ~Inside(j)
    BY <1>4 DEF CompleteBegin, BeginAt, Running, Inside, InsideTx
  <2>2. Completing(j) /\ j.pc # "commit" /\ j.winner = Winner(race)
    BY <1>r, <2>1 DEF Completing, StageOfReward, Judged
  <2>3. BeginAt(w, "complete_begin", k, Idle)
    BY <1>4 DEF CompleteBegin
  <2>4. k.pc = label /\ Alike(j, k)
    BY <1>h, AtAlike
  <2> HIDE DEF k
  <2>5. Race(k, durable) = race
    BY <2>4 DEF Race, Alike
  <2>6. j.winner = Nobody =>
          Paid(k.winner, CHALLENGE_WINNER_REWARD_AMOUNT, durable, durable)
    BY <1>h, <2>4, NobodyApart DEF Paid, Alike, Rows
  <2>7. StageOfReward(k, durable, durable, mishaps)
    BY <1>c, <2>2, <2>4, <2>5, <2>6
       DEF StageOfReward, Completing, Judged, OnReward, Commits, Alike, SameSkins,
           SameChallenges
  <2>8. Stage(k, durable, durable, lastRow, mishaps, now)
    BY <2>4, <2>7, RewardStage DEF Completing, OnReward
  <2> QED
    BY <2>1, <2>3, <2>8, IdleCarefree, BeginKept
<1>5. CASE LoadWinner(w)
  <2> DEFINE k == [j EXCEPT !.pc = "winner_pay", !.balance = tables.balance[j.winner]]
  <2>1. j.pc = "winner_load" /\ UNCHANGED now /\ Read(w, k)
    BY <1>5 DEF LoadWinner, Running
  <2>2. Completing(j) /\ j.pc # "commit" /\ j.winner = Winner(race)
        /\ tables = durable
    BY <1>r, <2>1 DEF Completing, StageOfReward, Judged, OnReward
  <2>3. /\ k.pc = "winner_pay" /\ k.id = j.id /\ k.kind = j.kind
        /\ k.winner = j.winner /\ k.balance = tables.balance[j.winner]
    BY <1>h DEF Fields
  <2> HIDE DEF k
  <2>4. Race(k, durable) = race
    BY <2>3 DEF Race
  <2>5. StageOfReward(k, tables, durable, mishaps)
    BY <1>c, <2>2, <2>3, <2>4
       DEF StageOfReward, Completing, Judged, OnReward, Commits
  <2>6. Stage(k, tables, durable, lastRow, mishaps, now)
    BY <2>3, <2>5, RewardStage DEF Completing, OnReward
  <2> QED
    BY <2>1, <2>6, ReadKept
<1>6. CASE PayWinner(w)
  <2> DEFINE k == At(j, "complete_write")
             n == j.balance + CHALLENGE_WINNER_REWARD_AMOUNT
             rows == [tables EXCEPT !.balance[j.winner] = n]
  <2>1. j.pc = "winner_pay" /\ UNCHANGED now /\ Inside(j)
    BY <1>6 DEF PayWinner, Running, Inside, InsideTx
  <2>2. Completing(j) /\ j.pc # "commit" /\ j.winner = Winner(race)
        /\ tables = durable /\ j.balance = durable.balance[j.winner]
    BY <1>r, <2>1 DEF Completing, StageOfReward, Judged, OnReward
  <2>3. j.winner \in Users
    BY <1>h, <2>1 DEF Ready
  <2>4. Write(w, rows, k, At(j, "rollback"))
    BY <1>6 DEF PayWinner, Pay
  <2>5. CHALLENGE_WINNER_REWARD_AMOUNT \in Int
    BY DEF CHALLENGE_WINNER_REWARD_AMOUNT
  <2>6. k.pc = "complete_write" /\ Alike(j, k)
    BY <1>h, AtAlike
  <2>7. n = tables.balance[j.winner] + CHALLENGE_WINNER_REWARD_AMOUNT
    BY <2>2
  <2> HIDE DEF n
  <2>8. /\ SameSkins(rows, tables) /\ SameChallenges(rows, tables)
        /\ Paid(j.winner, CHALLENGE_WINNER_REWARD_AMOUNT, rows, tables)
    BY <1>h, <2>3, <2>5, <2>7, PaidRows
  <2> HIDE DEF k, rows
  <2>9. Race(k, durable) = race
    BY <2>6 DEF Race, Alike
  <2>10. StageOfReward(k, rows, durable, mishaps)
    BY <1>c, <2>2, <2>6, <2>8, <2>9
       DEF StageOfReward, Completing, Judged, OnReward, Commits, Alike
  <2>11. Stage(k, rows, durable, lastRow, mishaps, now)
    BY <2>6, <2>10, RewardStage DEF Completing, OnReward
  <2> QED
    BY <1>b, <2>1, <2>4, <2>11, WriteInside
<1>7. CASE CompleteWrite(w)
  <2> DEFINE k == At(j, "commit")
             row == [tables.challenges[j.id] EXCEPT !.status = "completed"]
             rows == [tables EXCEPT !.challenges[j.id] = row]
  <2>1. j.pc = "complete_write" /\ UNCHANGED now /\ Inside(j)
    BY <1>7 DEF CompleteWrite, Running, Inside, InsideTx
  <2>2. /\ Completing(j) /\ j.pc # "commit" /\ j.winner = Winner(race)
        /\ SameSkins(tables, durable) /\ SameChallenges(tables, durable)
        /\ Paid(j.winner, CHALLENGE_WINNER_REWARD_AMOUNT, tables, durable)
    BY <1>r, <2>1 DEF Completing, StageOfReward, Judged, OnReward
  <2>3. tables.challenges[j.id] = race /\ race.status = "active"
    BY <1>c, <2>2 DEF SameChallenges, Race
  <2>4. Write(w, rows, k, At(j, "rollback"))
    BY <1>7, <2>3 DEF CompleteWrite, WriteChallenge
  <2>5. k.pc = "commit" /\ Alike(j, k)
    BY <1>h, AtAlike
  <2>6. /\ rows.items = tables.items /\ rows.inventory = tables.inventory
        /\ rows.balance = tables.balance
        /\ rows.challenges = [tables.challenges EXCEPT ![j.id] = row]
    BY <1>h DEF Rows
  <2>7. Ended(j, "completed", rows, durable)
    BY <2>2, <2>6 DEF Ended, SameChallenges
  <2> HIDE DEF k, rows, row
  <2>8. /\ SameSkins(rows, durable) /\ Ended(k, "completed", rows, durable)
        /\ Paid(k.winner, CHALLENGE_WINNER_REWARD_AMOUNT, rows, durable)
        /\ Race(k, durable) = race
    BY <2>2, <2>5, <2>6, <2>7 DEF SameSkins, Paid, Ended, Race, Alike
  <2>9. Commits(k, "complete")
    BY <1>c, <2>2, <2>5 DEF Commits, Alike
  <2>10. StageOfReward(k, rows, durable, mishaps)
    BY <1>c, <2>2, <2>5, <2>8
       DEF StageOfReward, Completing, Judged, OnReward, Commits, Alike
  <2>11. Stage(k, rows, durable, lastRow, mishaps, now)
    BY <2>9, <2>10, RewardStage DEF Completing
  <2> QED
    BY <1>b, <2>1, <2>4, <2>11, WriteInside
<1> QED
  BY <1>1, <1>2, <1>3, <1>4, <1>5, <1>6, <1>7 DEF Complete

-----------------------------------------------------------------------------
(* cancel_challenge.                                                       *)

(* On the way to the penalty. *)
LEMMA PenaltyStage ==
  ASSUME NEW k, NEW r, NEW d, NEW n, NEW m, NEW s, k.pc \in OnPenalty,
         k.kind = "cancel", k.challenge = Race(k, d), Abandoned(Race(k, d), s),
         k.pc \in {"penalty_load", "penalty_pay"} => r = d,
         k.pc = "penalty_pay" => k.balance = d.balance[Race(k, d).challenger],
         k.pc = "penalty_write" =>
           /\ SameSkins(r, d) /\ SameChallenges(r, d)
           /\ Paid(Race(k, d).challenger, -Penalty(Race(k, d), d), r, d)
  PROVE  Stage(k, r, d, n, m, s)
<1>1. StageOfCancel(k, r, d, s)
  BY DEF StageOfCancel, Punishing, OnVote, OnPenalty, Commits
<1> QED
  BY <1>1, CancelStage DEF Punishing

LEMMA PenalizedStage ==
  ASSUME NEW k, NEW r, NEW d, NEW n, NEW m, NEW s, k.pc = "commit",
         k.kind = "cancel", k.challenge = Race(k, d), Abandoned(Race(k, d), s),
         SameSkins(r, d), Paid(Race(k, d).challenger, -Penalty(Race(k, d), d), r, d),
         k.id \in ChallengeIds, Ended(k, "cancelled", r, d)
  PROVE  Stage(k, r, d, n, m, s)
<1>1. k.pc \notin OnVote /\ Punishing(k)
  BY DEF Punishing, OnVote, OnPenalty, Commits
<1>2. StageOfCancel(k, r, d, s)
  BY <1>1 DEF StageOfCancel
<1> QED
  BY <1>1, <1>2, CancelStage

LEMMA CancelKept ==
  ASSUME NEW w, Turn(w), Cancel(w)
  PROVE  Kept
<1> DEFINE j == job[w]
           race == Race(j, durable)
<1>h. /\ Fields(j) /\ Shape(j) /\ Ready(j, j.pc)
      /\ Rows(tables) /\ Rows(durable) /\ Files(durable)
      /\ Stage(j, tables, durable, lastRow, mishaps, now)
  BY TurnFacts
<1>s. StageOfCancel(j, tables, durable, now)
  BY <1>h DEF Stage
<1>v. j.pc \in OnVote =>
        /\ j.kind = "cancel" /\ j.id \in ChallengeIds
        /\ ~Inside(j) /\ tables = durable
        /\ tables.challenges[j.id] = race
  <2> SUFFICES ASSUME j.pc \in OnVote
               PROVE  /\ j.kind = "cancel" /\ j.id \in ChallengeIds
                      /\ ~Inside(j) /\ tables = durable
                      /\ tables.challenges[j.id] = race
    OBVIOUS
  <2>1. j.kind = "cancel"
    BY <1>s DEF StageOfCancel
  <2>2. j.id \in ChallengeIds
    BY <1>h DEF Ready, OnChallenge, OnVote
  <2>3. ~Inside(j)
    BY DEF Inside, InsideTx, OnVote
  <2> QED
    BY <2>1, <2>2, <2>3, TurnOutside DEF Race
<1>o. j.pc \in {"vote", "votes", "cancel"} => Open(race)
  BY <1>s DEF StageOfCancel, OnVote
<1>p. j.pc \in OnPenalty =>
        /\ j.kind = "cancel" /\ j.id \in ChallengeIds /\ j.challenge = race
        /\ Abandoned(race, now) /\ race.challenger \in Users
        /\ Penalty(race, durable) \in Nat
  <2> SUFFICES ASSUME j.pc \in OnPenalty
               PROVE  /\ j.kind = "cancel" /\ j.id \in ChallengeIds
                      /\ j.challenge = race
                      /\ Abandoned(race, now) /\ race.challenger \in Users
                      /\ Penalty(race, durable) \in Nat
    OBVIOUS
  <2>1. j.kind = "cancel" /\ j.challenge = race /\ Abandoned(race, now)
    BY <1>s DEF StageOfCancel, Punishing
  <2>2. j.id \in ChallengeIds
    BY <1>h DEF Ready, OnChallenge, OnPenalty
  <2>3. race.challenger \in Users
    BY <1>h, <2>1, <2>2 DEF Rows, Row, Seated, Race, Abandoned
  <2>4. Penalty(race, durable) \in Nat
    BY <1>h, <2>3, PenaltyTaken DEF Rows, Penalty
  <2> QED
    BY <2>1, <2>2, <2>3, <2>4
<1>b. /\ At(j, "rollback").pc \in Carefree
      /\ Hurt(At(j, "rollback"), tables, durable, lastRow, now)
  BY <1>h, AtCarefree, CarefreeHurt DEF Carefree
<1>i. Stage(Idle, tables, durable, lastRow, mishaps, now)
  BY IdleCarefree, CarefreeStage
<1>1. CASE CancelChallenge(w)
  <2>1. PICK c \in ChallengeIds, u \in Users :
          Become(w, [Idle EXCEPT !.pc = "vote_load", !.kind = "cancel",
                                 !.id = c, !.user = u])
    BY <1>1 DEF CancelChallenge
  <2> DEFINE k == [Idle EXCEPT !.pc = "vote_load", !.kind = "cancel",
                               !.id = c, !.user = u]
  <2>2. k.pc = "vote_load" /\ k.kind = "cancel"
    BY DEF Idle
  <2>3. Request(w, "cancel") /\ Become(w, k)
    BY <1>1, <2>1 DEF CancelChallenge
  <2> HIDE DEF k
  <2>4. StageOfCancel(k, tables, durable, now)
    BY <2>2 DEF StageOfCancel, OnVote, Punishing, OnPenalty, Commits
  <2>5. Stage(k, tables, durable, lastRow, mishaps, now)
    BY <2>2, <2>4, CancelStage DEF OnVote
  <2> QED
    BY <2>3, <2>5, RequestKept
<1>2. CASE VoteLoad(w)
  <2> DEFINE k == At(j, "vote")
  <2>1. j.pc \in OnVote /\ UNCHANGED now
    BY <1>2 DEF VoteLoad, Running, OnVote
  <2>2. \/ Read(w, Idle)
        \/ Read(w, k) /\ Open(race)
    BY <1>2, <1>v, <2>1 DEF VoteLoad, Open
  <2>3. k.pc = "vote" /\ Alike(j, k)
    BY <1>h, AtAlike
  <2> HIDE DEF k
  <2>4. CASE Read(w, k) /\ Open(race)
    <3>1. Race(k, durable) = race /\ k.kind = "cancel"
      BY <1>v, <2>1, <2>3 DEF Race, Alike
    <3>2. StageOfCancel(k, tables, durable, now)
      BY <2>3, <2>4, <3>1 DEF StageOfCancel, OnVote, Punishing, OnPenalty, Commits
    <3>3. Stage(k, tables, durable, lastRow, mishaps, now)
      BY <2>3, <3>2, CancelStage DEF OnVote
    <3> QED
      BY <2>1, <2>4, <3>3, ReadKept
  <2> QED
    BY <1>i, <2>1, <2>2, <2>4, ReadKept
<1>3. CASE Vote(w)
  <2> DEFINE k == At(j, "votes")
             x == race.votes \cup {j.user}
             row == [race EXCEPT !.votes = x]
             rows == [tables EXCEPT !.challenges[j.id] = row]
  <2>1. j.pc = "vote" /\ j.pc \in OnVote /\ UNCHANGED now
    BY <1>3 DEF Vote, Running, OnVote
  <2>2. Open(race)
    BY <1>o, <2>1
  <2>3. Columns(race) /\ Filed(race)
    BY <1>h, <1>v, <2>1 DEF Rows, Row, Files, Race
  <2>4. row = [race EXCEPT !.votes = @ \cup {j.user}]
    OBVIOUS
  <2>5. Write(w, rows, k, Idle)
    BY <1>3, <1>v, <2>1, <2>2, <2>4 DEF Vote, WriteChallenge, Open
  <2>6. /\ row.status = race.status /\ row.started = race.started
        /\ row.challenger = race.challenger /\ row.opponent = race.opponent
        /\ row.votes = x
    BY <2>3 DEF Columns
  <2>7. x # {}
    OBVIOUS
  <2> HIDE DEF row, x
  <2>8. Filed(row)
    BY <2>3, <2>6 DEF Filed
  <2>9. /\ Files(rows) /\ SameSkins(rows, tables)
        /\ rows.balance = tables.balance /\ rows.challenges[j.id] = row
        /\ \A c \in ChallengeIds \ {j.id} : rows.challenges[c] = tables.challenges[c]
    BY <1>h, <1>v, <2>1, <2>8, AmendedRows
  <2>10. k.pc = "votes" /\ Alike(j, k)
    BY <1>h, AtAlike
  <2> HIDE DEF rows, k
  <2>11. Peaceful(rows, durable)
    BY <1>v, <2>1, <2>6, <2>9 DEF Peaceful, SameSkins, Race
  <2>12. Race(k, rows) = row /\ k.kind = "cancel"
    BY <1>v, <2>1, <2>9, <2>10 DEF Race, Alike
  <2>13. Open(row) /\ row.votes # {}
    BY <2>2, <2>6, <2>7 DEF Open
  <2>14. StageOfCancel(k, rows, rows, now)
    BY <2>10, <2>12, <2>13 DEF StageOfCancel, OnVote, Punishing, OnPenalty, Commits
  <2>15. /\ Stage(k, rows, rows, lastRow', mishaps, now)
         /\ Hurt(Idle, durable, durable, lastRow, now)
    BY <2>10, <2>14, CancelStage, IdleCarefree, CarefreeHurt DEF OnVote
  <2> QED
    BY <1>v, <2>1, <2>5, <2>9, <2>11, <2>15, WriteOutside
<1>4. CASE CountVotes(w)
  <2> DEFINE i == [j EXCEPT !.challenge = race]
             a == At(i, "cancel")
             b == At(i, "penalty_begin")
  <2>1. j.pc = "votes" /\ j.pc \in OnVote /\ UNCHANGED now
    BY <1>4 DEF CountVotes, Running, OnVote
  <2>2. /\ Fields(i) /\ i.id = j.id /\ i.kind = j.kind /\ i.challenge = race
    BY <1>h DEF Fields
  <2>3. \/ Read(w, Idle)
        \/ Read(w, a) /\ BothVoted(race)
        \/ Read(w, b) /\ ~BothVoted(race) /\ race.status = "active" /\ Overdue(race)
    BY <1>4, <1>v, <2>1 DEF CountVotes, BothVoted
  <2> HIDE DEF i
  <2>4. a.pc = "cancel" /\ Alike(i, a) /\ b.pc = "penalty_begin" /\ Alike(i, b)
    BY <2>2, AtAlike
  <2> HIDE DEF a, b
  <2>5. /\ Race(a, durable) = race /\ a.kind = "cancel"
        /\ Race(b, durable) = race /\ b.kind = "cancel" /\ b.challenge = race
    BY <1>v, <2>1, <2>2, <2>4 DEF Race, Alike
  <2>6. Open(race) /\ race.votes # {}
    BY <1>s, <2>1 DEF StageOfCancel, OnVote
  <2>7. CASE Read(w, a) /\ BothVoted(race)
    <3>1. StageOfCancel(a, tables, durable, now)
      BY <2>4, <2>5, <2>6, <2>7
         DEF StageOfCancel, OnVote, Punishing, OnPenalty, Commits
    <3>2. Stage(a, tables, durable, lastRow, mishaps, now)
      BY <2>4, <3>1, CancelStage DEF OnVote
    <3> QED
      BY <2>1, <2>7, <3>2, ReadKept
  <2>8. CASE /\ Read(w, b) /\ ~BothVoted(race) /\ race.status = "active"
             /\ Overdue(race)
    <3>1. Abandoned(race, now)
      BY <2>6, <2>8
         DEF Abandoned, Overdue, CHALLENGE_CANCEL_TIMEOUT_HOURS
    <3>2. Stage(b, tables, durable, lastRow, mishaps, now)
      BY <2>4, <2>5, <3>1, PenaltyStage DEF OnPenalty
    <3> QED
      BY <2>1, <2>8, <3>2, ReadKept
  <2> QED
    BY <1>i, <2>1, <2>3, <2>7, <2>8, ReadKept
<1>5. CASE CancelByBoth(w)
  <2> DEFINE row == [race EXCEPT !.status = "cancelled"]
             rows == [tables EXCEPT !.challenges[j.id] = row]
  <2>1. j.pc = "cancel" /\ j.pc \in OnVote /\ UNCHANGED now
    BY <1>5 DEF CancelByBoth, Running, OnVote
  <2>2. Open(race) /\ BothVoted(race)
    BY <1>s, <2>1 DEF StageOfCancel, OnVote
  <2>3. Write(w, rows, Idle, Idle)
    BY <1>5, <1>v, <2>1, <2>2 DEF CancelByBoth, WriteChallenge, Open
  <2>4. /\ rows.items = durable.items /\ rows.balance = durable.balance
        /\ rows.challenges = [durable.challenges EXCEPT ![j.id] = row]
    BY <1>h, <1>v, <2>1 DEF Rows
  <2>5. Ended(j, "cancelled", rows, durable)
    BY <1>h, <1>v, <2>1, <2>4 DEF Ended, Rows, Race
  <2> HIDE DEF row, rows
  <2>6. race.status # "none"
    BY <2>2 DEF Open
  <2>7. Files(rows)
    BY <1>h, <1>v, <2>1, <2>4, <2>5, <2>6, FilesEnded
  <2>8. CASE Become(w, Idle) /\ Smooth /\ Store(rows)
    <3>1. tables' = rows /\ durable' = rows /\ mishaps' = mishaps
      BY <1>v, <2>1, <2>8, TurnOutside DEF Store, Smooth
    <3>2. Lawful
      BY <1>h, <1>v, <2>1, <2>2, <2>4, <2>5, <3>1, BothLawful
    <3>3. Stage(Idle, tables', durable', lastRow', mishaps', now')
      BY IdleCarefree, CarefreeStage
    <3>4. Files(durable')
      BY <2>7, <3>1
    <3> QED
      BY <2>1, <2>8, <3>1, <3>2, <3>3, <3>4, TurnFacts, KeptBy
  <2>9. CASE Mishap /\ UNCHANGED connection /\ Become(w, Idle)
    BY <2>1, <2>9, IdleCarefree, CarefreeHurt, FailedKept
  <2> QED
    BY <2>3, <2>8, <2>9 DEF Write, Update
<1>6. CASE PenaltyBegin(w)
  <2> DEFINE k == At(j, "penalty_load")
  <2>1. j.pc \in OnPenalty /\ ~Inside(j)
    BY <1>6 DEF PenaltyBegin, BeginAt, Running, OnPenalty, Inside, InsideTx
  <2>2. BeginAt(w, "penalty_begin", k, Idle)
    BY <1>6 DEF PenaltyBegin
  <2>3. k.pc = "penalty_load" /\ Alike(j, k)
    BY <1>h, AtAlike
  <2> HIDE DEF k
  <2>4. Race(k, durable) = race /\ k.kind = "cancel" /\ k.challenge = race
    BY <1>p, <2>1, <2>3 DEF Race, Alike
  <2>5. Stage(k, durable, durable, lastRow, mishaps, now)
    BY <1>p, <2>1, <2>3, <2>4, PenaltyStage DEF OnPenalty
  <2> QED
    BY <2>1, <2>2, <2>5, IdleCarefree, BeginKept
<1>7. CASE PenaltyLoad(w)
  <2> DEFINE k == [j EXCEPT !.pc = "penalty_pay",
                     !.balance = tables.balance[j.challenge.challenger]]
  <2>1. j.pc = "penalty_load" /\ j.pc \in OnPenalty /\ UNCHANGED now /\ Read(w, k)
    BY <1>7 DEF PenaltyLoad, Running, OnPenalty
  <2>2. tables = durable
    BY <1>s, <2>1 DEF StageOfCancel
  <2>3. /\ k.pc = "penalty_pay" /\ k.id = j.id /\ k.kind = j.kind
        /\ k.challenge = j.challenge
        /\ k.balance = tables.balance[j.challenge.challenger]
    BY <1>h DEF Fields
  <2> HIDE DEF k
  <2>4. Race(k, durable) = race
    BY <2>3 DEF Race
  <2>5. Stage(k, tables, durable, lastRow, mishaps, now)
    BY <1>p, <2>1, <2>2, <2>3, <2>4, PenaltyStage DEF OnPenalty
  <2> QED
    BY <2>1, <2>5, ReadKept
<1>8. CASE PayPenalty(w)
  <2> DEFINE k == At(j, "penalty_write")
             n == Max({0, j.balance - CHALLENGE_CANCEL_PENALTY_AMOUNT})
             u == race.challenger
             rows == [tables EXCEPT !.balance[u] = n]
  <2>1. j.pc = "penalty_pay" /\ j.pc \in OnPenalty /\ UNCHANGED now /\ Inside(j)
    BY <1>8 DEF PayPenalty, Running, OnPenalty, Inside, InsideTx
  <2>2. tables = durable /\ j.balance = durable.balance[u]
    BY <1>s, <2>1 DEF StageOfCancel
  <2>3. j.balance \in Nat
    BY <1>h DEF Shape
  <2>4. Write(w, rows, k, At(j, "rollback"))
    BY <1>8, <1>p, <2>1 DEF PayPenalty, Pay
  <2>5. n = tables.balance[u] + -Penalty(race, durable)
    BY <2>2, <2>3, PenaltyTaken DEF Penalty
  <2>6. u \in Users /\ -Penalty(race, durable) \in Int
    BY <1>p, <2>1
  <2>7. k.pc = "penalty_write" /\ Alike(j, k)
    BY <1>h, AtAlike
  <2> HIDE DEF n
  <2>8. /\ SameSkins(rows, tables) /\ SameChallenges(rows, tables)
        /\ Paid(u, -Penalty(race, durable), rows, tables)
    BY <1>h, <2>5, <2>6, PaidRows
  <2> HIDE DEF k, rows
  <2>9. Race(k, durable) = race /\ k.kind = "cancel" /\ k.challenge = race
    BY <1>p, <2>1, <2>7 DEF Race, Alike
  <2>10. Stage(k, rows, durable, lastRow, mishaps, now)
    BY <1>p, <2>1, <2>2, <2>7, <2>8, <2>9, PenaltyStage DEF OnPenalty
  <2> QED
    BY <1>b, <2>1, <2>4, <2>10, WriteInside
<1>9. CASE CancelByOne(w)
  <2> DEFINE k == At(j, "commit")
             row == [tables.challenges[j.id] EXCEPT !.status = "cancelled"]
             rows == [tables EXCEPT !.challenges[j.id] = row]
  <2>1. j.pc = "penalty_write" /\ j.pc \in OnPenalty /\ UNCHANGED now /\ Inside(j)
    BY <1>9 DEF CancelByOne, Running, OnPenalty, Inside, InsideTx
  <2>2. /\ SameSkins(tables, durable) /\ SameChallenges(tables, durable)
        /\ Paid(race.challenger, -Penalty(race, durable), tables, durable)
    BY <1>s, <2>1 DEF StageOfCancel
  <2>3. tables.challenges[j.id] = race /\ race.status = "active"
    BY <1>p, <2>1, <2>2 DEF SameChallenges, Race, Abandoned
  <2>4. Write(w, rows, k, At(j, "rollback"))
    BY <1>9, <2>3 DEF CancelByOne, WriteChallenge
  <2>5. k.pc = "commit" /\ Alike(j, k)
    BY <1>h, AtAlike
  <2>6. /\ rows.items = tables.items /\ rows.inventory = tables.inventory
        /\ rows.balance = tables.balance
        /\ rows.challenges = [tables.challenges EXCEPT ![j.id] = row]
    BY <1>h DEF Rows
  <2>7. Ended(j, "cancelled", rows, durable)
    BY <2>2, <2>6 DEF Ended, SameChallenges
  <2> HIDE DEF k, rows, row
  <2>8. /\ SameSkins(rows, durable) /\ Ended(k, "cancelled", rows, durable)
        /\ Paid(race.challenger, -Penalty(race, durable), rows, durable)
        /\ Race(k, durable) = race /\ k.challenge = race
    <3>1. SameSkins(rows, durable)
      BY <2>2, <2>6 DEF SameSkins
    <3>2. Paid(race.challenger, -Penalty(race, durable), rows, durable)
      BY <2>2, <2>6 DEF Paid
    <3>3. k.id = j.id /\ k.challenge = race
      BY <1>p, <2>1, <2>5 DEF Alike
    <3>4. Ended(k, "cancelled", rows, durable) /\ Race(k, durable) = race
      BY <2>7, <3>3 DEF Ended, Race
    <3> QED
      BY <3>1, <3>2, <3>3, <3>4
  <2>9. Commits(k, "cancel") /\ k.kind = "cancel"
    BY <1>p, <2>1, <2>5 DEF Commits, Alike
  <2>10. /\ k.pc = "commit" /\ k.id \in ChallengeIds
         /\ Abandoned(Race(k, durable), now) /\ k.challenge = Race(k, durable)
    BY <1>p, <2>1, <2>5, <2>8 DEF Alike
  <2>11. Stage(k, rows, durable, lastRow, mishaps, now)
    BY <2>8, <2>9, <2>10, PenalizedStage
  <2> QED
    BY <1>b, <2>1, <2>4, <2>11, WriteInside
<1> QED
  BY <1>1, <1>2, <1>3, <1>4, <1>5, <1>6, <1>7, <1>8, <1>9 DEF Cancel

-----------------------------------------------------------------------------
(* The end of the transactions.                                            *)

LEMMA EndKept ==
  ASSUME NEW w, Turn(w), End(w)
  PROVE  Kept
<1> DEFINE j == job[w]
<1>h. /\ Fields(j) /\ Rows(tables) /\ Rows(durable) /\ Files(durable)
      /\ Stage(j, tables, durable, lastRow, mishaps, now) /\ mishaps \in Nat
  BY TurnFacts
<1>1. CASE CommitTransaction(w)
  <2> DEFINE i == IF j.kind = "unbox" THEN At(j, "log") ELSE Idle
             b == At(j, "rollback")
  <2>1. j.pc = "commit" /\ Inside(j) /\ CommitAt(w, "commit", i, b)
    BY <1>1 DEF CommitTransaction, CommitAt, Running, Inside, InsideTx
  <2>2. i.pc \in Carefree /\ b.pc \in Carefree
    BY <1>h, AtCarefree, IdleCarefree DEF Carefree
  <2> HIDE DEF i, b
  <2>3. /\ UNCHANGED now
        /\ \/ /\ Become(w, i) /\ tables' = tables /\ durable' = tables
              /\ inTx' = FALSE /\ mishaps' = mishaps /\ lastRow' = lastRow
           \/ Become(w, b) /\ Mishap /\ UNCHANGED connection
    BY <2>1, CommitCases
  <2>4. CASE Become(w, b) /\ Mishap /\ UNCHANGED connection
    BY <2>2, <2>3, <2>4, CarefreeHurt, FailedKept
  <2>5. CASE /\ Become(w, i) /\ tables' = tables /\ durable' = tables
             /\ inTx' = FALSE /\ mishaps' = mishaps /\ lastRow' = lastRow
    <3>1. j.kind \in {"unbox", "complete", "cancel"}
      BY <1>h, <2>1 DEF Stage
    <3>2. ASSUME j.kind = "unbox"
          PROVE  Lawful /\ Files(tables)
      <4>1. StageOfUnboxing(j, tables, durable, lastRow) /\ Commits(j, "unbox")
        BY <1>h, <2>1, <3>2 DEF Stage, Commits
      <4>2. /\ Buyer(j) /\ Bought(j, tables, durable)
            /\ Created(j, j.row, tables, durable)
            /\ <<j.user, j.row>> \in tables.inventory
        BY <4>1 DEF StageOfUnboxing
      <4>3. Lawful
        BY <1>h, <2>5, <4>2, UnboxLawful
      <4>4. tables.items = [durable.items EXCEPT ![j.row] = j.item]
            /\ SameChallenges(tables, durable)
        BY <4>2 DEF Bought, Created
      <4>5. Files(tables)
        BY <1>h, <4>4, FilesCreated
      <4> QED
        BY <4>3, <4>5
    <3>3. ASSUME j.kind = "complete"
          PROVE  Lawful /\ Files(tables)
      <4>1. /\ StageOfReward(j, tables, durable, mishaps)
            /\ Commits(j, "complete") /\ Completing(j) /\ Judged(j)
        BY <1>h, <2>1, <3>3 DEF Stage, Commits, Completing, Judged
      <4>2. /\ j.id \in ChallengeIds /\ Race(j, durable).status = "active"
            /\ mishaps # 0 \/ Measured(Race(j, durable), Race(j, durable), durable)
            /\ j.winner = Winner(Race(j, durable))
            /\ SameSkins(tables, durable)
            /\ Paid(j.winner, CHALLENGE_WINNER_REWARD_AMOUNT, tables, durable)
            /\ Ended(j, "completed", tables, durable)
        BY <4>1 DEF StageOfReward
      <4>3. mishaps' # 0 \/ Measured(Race(j, durable), Race(j, durable), durable)
        BY <2>5, <4>2
      <4>4. Lawful
        BY <1>h, <2>5, <4>2, <4>3, CompleteLawful
      <4>5. tables.items = durable.items /\ Race(j, durable).status # "none"
        BY <4>2 DEF SameSkins
      <4>6. Files(tables)
        BY <1>h, <4>2, <4>5, FilesEnded
      <4> QED
        BY <4>4, <4>6
    <3>4. ASSUME j.kind = "cancel"
          PROVE  Lawful /\ Files(tables)
      <4>1. /\ StageOfCancel(j, tables, durable, now)
            /\ Commits(j, "cancel") /\ Punishing(j)
        BY <1>h, <2>1, <3>4 DEF Stage, Commits, Punishing
      <4>2. /\ j.id \in ChallengeIds /\ Abandoned(Race(j, durable), now)
            /\ SameSkins(tables, durable)
            /\ Paid(Race(j, durable).challenger,
                    -Penalty(Race(j, durable), durable), tables, durable)
            /\ Ended(j, "cancelled", tables, durable)
        BY <4>1 DEF StageOfCancel
      <4>3. Lawful
        BY <1>h, <2>5, <4>2, PenaltyLawful
      <4>4. tables.items = durable.items /\ Race(j, durable).status # "none"
        BY <4>2 DEF SameSkins, Abandoned
      <4>5. Files(tables)
        BY <1>h, <4>2, <4>4, FilesEnded
      <4> QED
        BY <4>3, <4>5
    <3>5. Lawful /\ Files(tables)
      BY <3>1, <3>2, <3>3, <3>4
    <3>6. Stage(i, tables', durable', lastRow', mishaps', now')
      BY <2>2, CarefreeStage
    <3>7. Files(durable')
      BY <2>5, <3>5
    <3> QED
      BY <1>h, <2>3, <2>5, <3>5, <3>6, <3>7, KeptBy
  <2> QED
    BY <2>3, <2>4, <2>5
<1>2. CASE RollbackTransaction(w)
  <2>1. Inside(j) /\ UNCHANGED now /\ Rollback /\ Smooth /\ Become(w, Idle)
    BY <1>2 DEF RollbackTransaction, Running, Inside, InsideTx
  <2> QED
    BY <2>1, IdleCarefree, RollbackKept
<1> QED
  BY <1>1, <1>2 DEF End

-----------------------------------------------------------------------------
(* Every step, when requests do not overlap.                               *)

Requests(w) == \/ UnboxCase(w) \/ UpdateChallengeProgress(w)
               \/ CreateChallenge(w) \/ AcceptChallenge(w)
               \/ CompleteChallenge(w) \/ CancelChallenge(w)

Handler(w) == \/ Unbox(w) \/ AfterUnbox(w) \/ Progress(w) \/ Arrange(w)
              \/ Complete(w) \/ Cancel(w) \/ End(w)

(* A worker that was idle is not when it has taken a request. *)
LEMMA RequestTaken ==
  ASSUME NEW w, Requests(w)
  PROVE  \E i : Become(w, i) /\ i.pc # "idle"
<1>1. CASE UnboxCase(w)
  <2>1. PICK u, c : Become(w, [Idle EXCEPT !.pc = "unbox_user", !.kind = "unbox",
                                           !.user = u, !.case = c])
    BY <1>1 DEF UnboxCase
  <2>2. [Idle EXCEPT !.pc = "unbox_user", !.kind = "unbox",
                     !.user = u, !.case = c].pc = "unbox_user"
    BY DEF Idle
  <2> QED
    BY <2>1, <2>2
<1>2. CASE UpdateChallengeProgress(w)
  <2>1. PICK c : Become(w, [Idle EXCEPT !.pc = "progress_load",
                                        !.kind = "progress", !.id = c])
    BY <1>2 DEF UpdateChallengeProgress
  <2>2. [Idle EXCEPT !.pc = "progress_load", !.kind = "progress",
                     !.id = c].pc = "progress_load"
    BY DEF Idle
  <2> QED
    BY <2>1, <2>2
<1>3. CASE CreateChallenge(w)
  <2>1. PICK u, v :
          Become(w, [Idle EXCEPT !.pc = "create_a", !.kind = "create",
                          !.challenge = [NoChallenge EXCEPT !.challenger = u,
                                           !.opponent = v, !.status = "pending"]])
    BY <1>3 DEF CreateChallenge
  <2>2. [Idle EXCEPT !.pc = "create_a", !.kind = "create",
                     !.challenge = [NoChallenge EXCEPT !.challenger = u,
                                      !.opponent = v, !.status = "pending"]].pc
          = "create_a"
    BY DEF Idle
  <2> QED
    BY <2>1, <2>2
<1>4. CASE AcceptChallenge(w)
  <2>1. PICK c : Become(w, [Idle EXCEPT !.pc = "accept_load",
                                        !.kind = "accept", !.id = c])
    BY <1>4 DEF AcceptChallenge
  <2>2. [Idle EXCEPT !.pc = "accept_load", !.kind = "accept", !.id = c].pc
          = "accept_load"
    BY DEF Idle
  <2> QED
    BY <2>1, <2>2
<1>5. CASE CompleteChallenge(w)
  <2>1. PICK c : Become(w, [Idle EXCEPT !.pc = "complete_load",
                                        !.kind = "complete", !.id = c])
    BY <1>5 DEF CompleteChallenge
  <2>2. [Idle EXCEPT !.pc = "complete_load", !.kind = "complete", !.id = c].pc
          = "complete_load"
    BY DEF Idle
  <2> QED
    BY <2>1, <2>2
<1>6. CASE CancelChallenge(w)
  <2>1. PICK c, u : Become(w, [Idle EXCEPT !.pc = "vote_load", !.kind = "cancel",
                                           !.id = c, !.user = u])
    BY <1>6 DEF CancelChallenge
  <2>2. [Idle EXCEPT !.pc = "vote_load", !.kind = "cancel", !.id = c,
                     !.user = u].pc = "vote_load"
    BY DEF Idle
  <2> QED
    BY <2>1, <2>2
<1> QED
  BY <1>1, <1>2, <1>3, <1>4, <1>5, <1>6 DEF Requests

LEMMA OthersIdle ==
  ASSUME Inv, Serial, Serial', NEW w \in Workers, Handler(w)
  PROVE  \A v \in Workers \ {w} : job[v].pc = "idle"
<1>1. CASE job[w].pc # "idle"
  BY <1>1 DEF Serial
<1>2. CASE job[w].pc = "idle"
  <2>1. Requests(w)
    <3>1. ~Complete(w) \/ CompleteChallenge(w)
      BY <1>2 DEF Complete, CompleteLoad, Reload, CompleteBegin, LoadWinner,
         PayWinner, CompleteWrite, BeginAt, Running
    <3>2. ~Cancel(w) \/ CancelChallenge(w)
      BY <1>2 DEF Cancel, VoteLoad, Vote, CountVotes, CancelByBoth, PenaltyBegin,
         PenaltyLoad, PayPenalty, CancelByOne, BeginAt, Running
    <3>3. ~Unbox(w) \/ UnboxCase(w)
      BY <1>2 DEF Unbox, UnboxLoadUser, UnboxBegin, DeductBalance, DrawSkin,
         CreateSkinInstance, TakeItemId, AddToInventory, BeginAt, Running
    <3>4. ~AfterUnbox(w)
      BY <1>2 DEF AfterUnbox, UnboxLog, NextCall, CallBegin, CallLoad, CallWrite,
         CallCommit, CallRollback, ListChallenges, NextChallenge,
         BroadcastRareUnbox, BeginAt, CommitAt, Running
    <3>5. ~Progress(w) \/ UpdateChallengeProgress(w)
      BY <1>2 DEF Progress, LoadForProgress, WorthOfChallenger, WorthOfOpponent,
         SaveProgress, Running
    <3>6. ~Arrange(w) \/ CreateChallenge(w) \/ AcceptChallenge(w)
      BY <1>2 DEF Arrange, StartOfChallenger, StartOfOpponent, SaveChallenge,
         AcceptLoad, AcceptWrite, Running
    <3>7. ~End(w)
      BY <1>2 DEF End, CommitTransaction, RollbackTransaction, CommitAt, Running
    <3> QED
      BY <3>1, <3>2, <3>3, <3>4, <3>5, <3>6, <3>7 DEF Handler, Requests
  <2>2. PICK i : Become(w, i) /\ i.pc # "idle"
    BY <2>1, RequestTaken
  <2>3. job'[w] = i /\ \A v \in Workers \ {w} : job'[v] = job[v]
    BY <2>2 DEF Become, Inv, WellFormed, Local
  <2> QED
    BY <2>2, <2>3 DEF Serial
<1> QED
  BY <1>1, <1>2

LEMMA HandlerKept ==
  ASSUME Inv, SerialInv, Serial, Serial', NEW w \in Workers, Handler(w)
  PROVE  Kept
<1>1. \A v \in Workers \ {w} : job[v].pc = "idle"
  BY OthersIdle
<1>2. Turn(w)
  BY <1>1 DEF Turn, SerialInv
<1> QED
  BY <1>2, UnboxKept, AfterUnboxKept, ProgressKept, ArrangeKept, CompleteKept,
     CancelKept, EndKept DEF Handler

(* Time only makes a vote older. *)
LEMMA Older ==
  ASSUME NEW j, NEW r, NEW d, NEW n, NEW m, NEW s \in Seconds, s + 1 \in Seconds,
         Files(d), j.pc \in OnChallenge => j.id \in ChallengeIds,
         Stage(j, r, d, n, m, s)
  PROVE  Stage(j, r, d, n, m, s + 1)
<1>1. StageOfCancel(j, r, d, s)
  BY DEF Stage
<1>2. CASE ~Punishing(j)
  <2>1. StageOfCancel(j, r, d, s + 1)
    BY <1>1, <1>2 DEF StageOfCancel, Punishing, OnPenalty, OnVote, Commits
  <2> QED
    BY <2>1 DEF Stage
<1>3. CASE Punishing(j)
  <2>1. j.id \in ChallengeIds /\ Abandoned(Race(j, d), s)
    BY <1>1, <1>3 DEF StageOfCancel, Punishing, OnPenalty, OnChallenge
  <2>2. Race(j, d).started \in Seconds
    BY <2>1 DEF Files, Filed, Race
  <2>3. PICK last : Hours \in [1 .. last -> Nat]
    BY Clock
  <2>4. Seconds = 1 .. last /\ \A x \in Seconds : Hours[x] \in Nat
    BY <2>3 DEF Seconds
  <2>5. s <= s + 1
    BY <2>4
  <2>6. Hours[s] <= Hours[s + 1]
    BY <2>5, ClockAdvances
  <2>7. Abandoned(Race(j, d), s + 1)
    BY <2>1, <2>2, <2>4, <2>6 DEF Abandoned
  <2>8. StageOfCancel(j, r, d, s + 1)
    BY <1>1, <2>7 DEF StageOfCancel
  <2> QED
    BY <2>8 DEF Stage
<1> QED
  BY <1>2, <1>3

LEMMA SerialStep ==
  ASSUME Inv, SerialInv, Serial, Serial', [Next]_vars
  PROVE  SerialInv' /\ [Lawful]_vars
<1>1. ASSUME NEW w \in Workers, Handler(w)
      PROVE  SerialInv' /\ Lawful
  BY <1>1, HandlerKept DEF Kept
<1>r. Rows(durable)
  BY DEF Inv, WellFormed
<1>l. ASSUME durable' = durable PROVE Lawful
  <2>1. Peaceful(durable', durable)
    BY <1>l DEF Peaceful
  <2> QED
    BY <1>r, <2>1, PeacefulLawful
<1>2. CASE Tick
  <2>1. /\ UNCHANGED <<tables, durable, inTx, lastRow, job, mishaps>>
        /\ now' = now + 1 /\ now + 1 \in Seconds /\ now \in Seconds
    BY <1>2 DEF Tick, connection, SerialInv
  <2>2. ASSUME NEW w \in Workers
        PROVE  Stage(job[w]', tables', durable', lastRow', mishaps', now')
    <3>1. job[w].pc \in OnChallenge => job[w].id \in ChallengeIds
      BY DEF Inv, WellFormed, Local, Sound, Ready
    <3>2. Stage(job[w], tables, durable, lastRow, mishaps, now + 1)
      BY <2>1, <3>1, Older DEF SerialInv
    <3> QED
      BY <2>1, <3>2
  <2>3. Files(durable')
    BY <2>1 DEF SerialInv, Files, Filed, Seconds
  <2>4. SerialInv'
    BY <2>1, <2>2, <2>3 DEF SerialInv, Seconds, Files, Filed
  <2> QED
    BY <1>l, <2>1, <2>4
<1>3. CASE Crash
  <2>1. /\ tables' = durable /\ durable' = durable /\ now' = now
        /\ mishaps' = mishaps + 1 /\ \A w \in Workers : job'[w] = Idle
    BY <1>3 DEF Crash, Reopen, Mishap
  <2>2. \A w \in Workers :
          Stage(job[w]', tables', durable', lastRow', mishaps', now')
    BY <2>1, IdleCarefree, CarefreeStage
  <2>3. SerialInv'
    BY <2>1, <2>2 DEF SerialInv, Seconds, Files, Filed
  <2> QED
    BY <1>l, <2>1, <2>3
<1>4. CASE UNCHANGED vars
  <2>1. UNCHANGED <<tables, durable, inTx, lastRow, job, mishaps, now>>
    BY <1>4 DEF vars, connection
  <2> QED
    BY <1>4, <2>1 DEF SerialInv, Seconds, Files, Filed
<1> QED
  <2>1. Next => (\E w \in Workers : Handler(w)) \/ Tick \/ Crash
    BY DEF Next, Handler
  <2> QED
    BY <1>1, <1>2, <1>3, <1>4, <2>1

LEMMA SerialInit == Init => SerialInv
<1> SUFFICES ASSUME Init PROVE SerialInv
  OBVIOUS
<1>1. now \in Seconds /\ mishaps \in Nat
  BY Clock DEF Init
<1>2. /\ tables = durable /\ durable.challenges = [c \in ChallengeIds |-> NoChallenge]
      /\ durable.items = [i \in ItemIds |-> NoItem]
  BY DEF Init, ConnectionInit, FirstRows
<1>3. Filed(NoChallenge)
  BY <1>1 DEF Filed, NoChallenge, Init
<1>4. Files(durable)
  BY <1>2, <1>3 DEF Files
<1>5. \A w \in Workers : Stage(job[w], tables, durable, lastRow, mishaps, now)
  BY IdleCarefree, CarefreeStage DEF Init
<1> QED
  BY <1>1, <1>2, <1>4, <1>5 DEF SerialInv

(* What every step does to the disk, as long as requests do not overlap.   *)
LEMMA SerialBehavior == Spec /\ []Serial => [][Lawful]_vars
<1>1. Inv /\ SerialInv /\ Serial /\ Serial' /\ [Next]_vars
        => SerialInv' /\ [Lawful]_vars
  BY SerialStep
<1> QED
  BY <1>1, InvInit, InvStep, SerialInit, PTL DEF Spec

(* complete_challenge, cancel_challenge and accept_challenge test the      *)
(* status in a SELECT of their own, before the transaction.  As long as    *)
(* one request is served at a time that is enough, for every number of     *)
(* challenges, wherever a statement fails and whenever the process is      *)
(* killed: a challenge that is over is not taken up again.                 *)
THEOREM OverIsOver == Spec /\ []Serial => FinalIsFinal
<1>1. [Lawful]_vars => [LeavesFinal]_vars
  BY DEF Lawful
<1> QED
  BY <1>1, SerialBehavior, PTL DEF FinalIsFinal

(* The reward of complete_challenge and the status are two UPDATEs, the    *)
(* profits a third in between: one request at a time, a balance rises only *)
(* in the COMMIT that completes the race, by the reward, and it is the     *)
(* balance of the player who has gained most.                              *)
THEOREM RewardsComeWithCompletion == Spec /\ []Serial => RewardWithCompletion
<1>1. [Lawful]_vars => [RewardsTheWinner]_vars
  BY DEF Lawful
<1> QED
  BY <1>1, SerialBehavior, PTL DEF RewardWithCompletion

(* cancel_challenge saves the vote, reads the votes back, weighs them and  *)
(* writes in further steps: one request at a time, a challenge ends by     *)
(* both votes for nothing, or by one vote a day after its start for what   *)
(* the challenger has of the penalty.                                      *)
THEOREM PenaltiesAfterADay == Spec /\ []Serial => PenaltyAfterADay
<1>1. [Lawful]_vars => [CancelsInTime]_vars
  BY DEF Lawful
<1> QED
  BY <1>1, SerialBehavior, PTL DEF PenaltyAfterADay

(* unbox_case pays, creates the skin and puts it in the inventory in       *)
(* statements of one transaction: one request at a time, a skin appears on *)
(* disk with its payment and its place in the inventory or not at all, and *)
(* no balance falls but by that and by a penalty.                          *)
THEOREM UnboxingIsWhole == Spec /\ []Serial => UnboxIsWhole
<1>1. [Lawful]_vars => [SellsSkins]_vars
  BY DEF Lawful
<1> QED
  BY <1>1, SerialBehavior, PTL DEF UnboxIsWhole

-----------------------------------------------------------------------------
(* Two votes end a challenge.                                              *)

(* Worker w has saved a vote on challenge c, and what the votes amount to  *)
(* is still to be written.                                                 *)
Weighing(w, c) == job[w].id = c /\ job[w].pc \in {"votes", "cancel"}

VotesInv ==
  mishaps = 0 =>
    \A c \in ChallengeIds :
      BothVoted(durable.challenges[c]) =>
        \/ durable.challenges[c].status \in Final
        \/ \E w \in Workers : Weighing(w, c)

(* The rows of challenges d are those of e, but for a status, the profits, *)
(* the start, or a new row without votes: nobody has voted.                *)
NoVote(d, e) ==
  \A c \in ChallengeIds :
    BothVoted(d.challenges[c]) => BothVoted(e.challenges[c])

LEMMA SameNoVote ==
  ASSUME NEW d, NEW e, d.challenges = e.challenges
  PROVE  NoVote(d, e)
BY DEF NoVote

LEMMA AmendedNoVote ==
  ASSUME NEW e, Rows(e), NEW k \in ChallengeIds, NEW row,
         BothVoted(row) => BothVoted(e.challenges[k])
  PROVE  NoVote([e EXCEPT !.challenges[k] = row], e)
<1>1. e.challenges = [c \in ChallengeIds |-> e.challenges[c]]
  BY DEF Rows
<1>2. [e EXCEPT !.challenges[k] = row].challenges
        = [e.challenges EXCEPT ![k] = row]
  BY DEF Rows
<1>3. ASSUME NEW c \in ChallengeIds
      PROVE  [e.challenges EXCEPT ![k] = row][c]
               = IF c = k THEN row ELSE e.challenges[c]
  BY <1>1
<1> QED
  BY <1>2, <1>3 DEF NoVote

(* A statement that writes the row of a challenge leaves its votes. *)
LEMMA WriteNoVote ==
  ASSUME NEW w, Turn(w), ~Inside(job[w]), NEW k \in ChallengeIds, NEW row,
         NEW next, NEW failed, WriteChallenge(w, k, row, next, failed),
         BothVoted(row) => BothVoted(tables.challenges[k])
  PROVE  NoVote(durable', durable)
<1>1. tables = durable /\ ~inTx /\ Rows(tables)
  BY TurnOutside, TurnFacts
<1>2. \/ durable' = durable
      \/ durable' = [durable EXCEPT !.challenges[k] = row]
  BY <1>1 DEF WriteChallenge, Write, Update, Store, connection
<1> QED
  BY <1>1, <1>2, AmendedNoVote, SameNoVote

(* What ends in a COMMIT of an unboxing or of a challenge, and what only   *)
(* other tables see, brings no vote to the disk.                           *)
LEMMA QuietVotes ==
  ASSUME NEW w, Turn(w), \/ Unbox(w) \/ AfterUnbox(w) \/ Complete(w) \/ End(w)
  PROVE  NoVote(durable', durable)
<1> DEFINE j == job[w]
<1>1. Inside(j) => inTx
  BY TurnInside
<1>2. ~Inside(j) => tables = durable
  BY TurnOutside
<1>3. Rows(tables) /\ Rows(durable) /\ Stage(j, tables, durable, lastRow, mishaps, now)
  BY TurnFacts
<1>4. ASSUME durable' = durable PROVE NoVote(durable', durable)
  BY <1>4, SameNoVote
<1> USE DEF Running, Read, Request, Write, WriteNew, WriteChallenge, Pay, Update,
            Insert, Store, BeginAt, CommitAt, Begin, BeginRefused, Commit,
            CommitRefused, Rollback, connection, Inside, InsideTx
<1>5. CASE Unbox(w)
  <2>1. CASE UnboxCase(w) \/ UnboxLoadUser(w) \/ UnboxBegin(w) \/ DrawSkin(w)
             \/ TakeItemId(w)
    BY <1>4, <2>1 DEF UnboxCase, UnboxLoadUser, UnboxBegin, DrawSkin, TakeItemId
  <2>2. CASE DeductBalance(w) \/ CreateSkinInstance(w) \/ AddToInventory(w)
    BY <1>1, <1>4, <2>2 DEF DeductBalance, CreateSkinInstance, AddToInventory
  <2> QED
    BY <1>5, <2>1, <2>2 DEF Unbox
<1>6. CASE AfterUnbox(w)
  <2>1. CASE UnboxLog(w) \/ BroadcastRareUnbox(w)
    BY <1>2, <1>4, <2>1 DEF UnboxLog, BroadcastRareUnbox
  <2>2. CASE NextCall(w) \/ CallLoad(w) \/ ListChallenges(w) \/ NextChallenge(w)
    BY <1>4, <2>2 DEF NextCall, CallLoad, ListChallenges, NextChallenge
  <2>3. CASE CallBegin(w) \/ CallRollback(w)
    BY <1>4, <2>3 DEF CallBegin, CallRollback
  <2>4. CASE CallWrite(w)
    BY <1>1, <1>4, <2>4 DEF CallWrite
  <2>5. CASE CallCommit(w)
    <3>1. j.pc \in OnCall
      BY <2>5 DEF CallCommit, OnCall
    <3>2. SameChallenges(tables, durable)
      BY <1>3, <3>1 DEF Stage, StageOfUnboxing, SameRows
    <3>3. durable' \in {tables, durable}
      BY <2>5 DEF CallCommit
    <3> QED
      BY <3>2, <3>3, SameNoVote DEF SameChallenges
  <2> QED
    BY <1>6, <2>1, <2>2, <2>3, <2>4, <2>5 DEF AfterUnbox
<1>7. CASE Complete(w)
  <2>1. CASE CompleteChallenge(w) \/ CompleteLoad(w) \/ Reload(w) \/ CompleteBegin(w)
             \/ LoadWinner(w)
    BY <1>4, <2>1 DEF CompleteChallenge, CompleteLoad, Reload, CompleteBegin, LoadWinner
  <2>2. CASE PayWinner(w) \/ CompleteWrite(w)
    BY <1>1, <1>4, <2>2 DEF PayWinner, CompleteWrite
  <2> QED
    BY <1>7, <2>1, <2>2 DEF Complete
<1>8. CASE RollbackTransaction(w)
  BY <1>4, <1>8 DEF RollbackTransaction
<1>9. CASE CommitTransaction(w)
  <2>1. j.pc = "commit" /\ durable' \in {tables, durable}
    BY <1>9 DEF CommitTransaction
  <2>2. CASE j.kind = "unbox"
    <3>1. SameChallenges(tables, durable)
      BY <1>3, <2>1, <2>2 DEF Stage, StageOfUnboxing, Commits, Bought
    <3> QED
      BY <2>1, <3>1, SameNoVote DEF SameChallenges
  <2>3. ASSUME NEW status, j.id \in ChallengeIds, Ended(j, status, tables, durable)
        PROVE  NoVote(tables, durable)
    <3>1. Columns(durable.challenges[j.id])
      BY <1>3, <2>3 DEF Rows, Row
    <3>2. BothVoted([durable.challenges[j.id] EXCEPT !.status = status])
            => BothVoted(durable.challenges[j.id])
      BY <3>1 DEF BothVoted, Columns
    <3>3. NoVote([durable EXCEPT !.challenges[j.id] =
                    [durable.challenges[j.id] EXCEPT !.status = status]], durable)
      BY <1>3, <2>3, <3>2, AmendedNoVote
    <3>4. tables.challenges = [durable EXCEPT !.challenges[j.id] =
            [durable.challenges[j.id] EXCEPT !.status = status]].challenges
      BY <1>3, <2>3 DEF Ended, Rows
    <3> QED
      BY <3>3, <3>4 DEF NoVote
  <2>4. CASE j.kind = "complete"
    <3>1. j.id \in ChallengeIds /\ Ended(j, "completed", tables, durable)
      BY <1>3, <2>1, <2>4 DEF Stage, StageOfReward, Commits
    <3> QED
      BY <1>4, <2>1, <2>3, <3>1
  <2>5. CASE j.kind = "cancel"
    <3>1. j.id \in ChallengeIds /\ Ended(j, "cancelled", tables, durable)
      BY <1>3, <2>1, <2>5 DEF Stage, StageOfCancel, Commits
    <3> QED
      BY <1>4, <2>1, <2>3, <3>1
  <2> QED
    BY <1>3, <2>1, <2>2, <2>4, <2>5 DEF Stage
<1> QED
  BY <1>5, <1>6, <1>7, <1>8, <1>9 DEF End

LEMMA ProgressVotes ==
  ASSUME NEW w, Turn(w), Progress(w) \/ Arrange(w)
  PROVE  NoVote(durable', durable)
<1> DEFINE j == job[w]
<1>1. /\ Rows(tables) /\ Ready(j, j.pc)
      /\ Stage(j, tables, durable, lastRow, mishaps, now)
  BY TurnFacts
<1>2. CASE \/ UpdateChallengeProgress(w) \/ LoadForProgress(w)
           \/ WorthOfChallenger(w) \/ WorthOfOpponent(w)
           \/ CreateChallenge(w) \/ StartOfChallenger(w) \/ StartOfOpponent(w)
           \/ AcceptChallenge(w) \/ AcceptLoad(w)
  <2>1. durable' = durable
    BY <1>2 DEF UpdateChallengeProgress, LoadForProgress, WorthOfChallenger,
       WorthOfOpponent, CreateChallenge, StartOfChallenger, StartOfOpponent,
       AcceptChallenge, AcceptLoad, Read, Request, connection
  <2> QED
    BY <2>1, SameNoVote
<1>3. CASE SaveProgress(w)
  <2> DEFINE row == [tables.challenges[j.id] EXCEPT
                       !.challenger_profit = j.challenge.challenger_profit,
                       !.opponent_profit = j.challenge.opponent_profit]
  <2>1. ~Inside(j) /\ j.pc = "progress_write"
    BY <1>3 DEF SaveProgress, Running, Inside, InsideTx
  <2>2. j.id \in ChallengeIds
    BY <1>1, <2>1 DEF Ready, OnChallenge, OnProgress
  <2>3. Columns(tables.challenges[j.id])
    BY <1>1, <2>2 DEF Rows, Row
  <2>4. BothVoted(row) => BothVoted(tables.challenges[j.id])
    BY <2>3 DEF BothVoted, Columns
  <2>5. WriteChallenge(w, j.id, row, Return(j), Return(j))
    BY <1>3 DEF SaveProgress
  <2> QED
    BY <2>1, <2>2, <2>4, <2>5, WriteNoVote
<1>4. CASE SaveChallenge(w)
  <2> DEFINE row == [j.challenge EXCEPT !.started = now]
  <2>1. ~Inside(j) /\ j.pc = "create_save"
    BY <1>4 DEF SaveChallenge, Running, Inside, InsideTx
  <2>2. tables = durable /\ ~inTx
    BY <2>1, TurnOutside
  <2>3. Columns(j.challenge) /\ j.challenge.votes = {}
    BY <1>1, <2>1 DEF Ready, OnCreation, Stage, StageOfProgress
  <2>4. ~BothVoted(row)
    BY <2>3 DEF BothVoted, Columns
  <2>5. \/ durable' = durable
        \/ \E c \in ChallengeIds : durable' = [durable EXCEPT !.challenges[c] = row]
    BY <1>4, <2>2 DEF SaveChallenge, NextId, Read, WriteNew, Insert, Store, connection
  <2> HIDE DEF row
  <2> QED
    BY <1>1, <2>2, <2>4, <2>5, AmendedNoVote, SameNoVote
<1>5. CASE AcceptWrite(w)
  <2> DEFINE row == [tables.challenges[j.id] EXCEPT !.status = "active", !.started = now]
  <2>1. ~Inside(j) /\ j.pc = "accept_write"
    BY <1>5 DEF AcceptWrite, Running, Inside, InsideTx
  <2>2. j.id \in ChallengeIds
    BY <1>1, <2>1 DEF Ready, OnChallenge
  <2>3. Columns(tables.challenges[j.id])
    BY <1>1, <2>2 DEF Rows, Row
  <2>4. BothVoted(row) => BothVoted(tables.challenges[j.id])
    BY <2>3 DEF BothVoted, Columns
  <2>5. WriteChallenge(w, j.id, row, Idle, Idle)
    BY <1>5 DEF AcceptWrite
  <2> QED
    BY <2>1, <2>2, <2>4, <2>5, WriteNoVote
<1> QED
  BY <1>2, <1>3, <1>4, <1>5 DEF Progress, Arrange

(* Before another's statement the two votes on disk have ended their       *)
(* challenge, and after it they still have.                                *)
LEMMA VotesKept ==
  ASSUME NEW w, Turn(w), VotesInv, mishaps = 0, LeavesFinal,
         NoVote(durable', durable), job[w].pc \notin {"votes", "cancel"}
  PROVE  VotesInv'
<1> SUFFICES ASSUME NEW c \in ChallengeIds, BothVoted(durable'.challenges[c])
             PROVE  durable'.challenges[c].status \in Final
  BY DEF VotesInv, BothVoted
<1>1. BothVoted(durable.challenges[c])
  BY DEF NoVote
<1>2. \A v \in Workers : ~Weighing(v, c)
  BY DEF Turn, Weighing
<1>3. durable.challenges[c].status \in Final
  BY <1>1, <1>2 DEF VotesInv
<1> QED
  BY <1>3 DEF LeavesFinal

LEMMA CancelVotes ==
  ASSUME NEW w, Turn(w), Cancel(w), VotesInv, mishaps = 0, mishaps' = 0, LeavesFinal
  PROVE  VotesInv'
<1> DEFINE j == job[w]
<1>1. /\ Rows(tables) /\ Rows(durable) /\ Ready(j, j.pc) /\ Fields(j)
      /\ Stage(j, tables, durable, lastRow, mishaps, now)
  BY TurnFacts
<1>2. Inside(j) => inTx
  BY TurnInside
<1>3. ~Inside(j) => tables = durable /\ ~inTx
  BY TurnOutside
<1>4. ~Mishap
  BY DEF Mishap
<1>5. ASSUME NEW i, Become(w, i)
      PROVE  job'[w] = i
  BY <1>5 DEF Become, Turn, Inv, WellFormed, Local
<1>6. \A v \in Workers, c \in ChallengeIds :
        Weighing(v, c) => v = w /\ c = j.id /\ j.pc \in {"votes", "cancel"}
  BY DEF Turn, Weighing
<1>7. CASE \/ CancelChallenge(w) \/ VoteLoad(w) \/ PenaltyBegin(w) \/ PenaltyLoad(w)
           \/ PayPenalty(w) \/ CancelByOne(w)
  <2>1. durable' = durable
    <3>1. CASE CancelChallenge(w) \/ VoteLoad(w) \/ PenaltyBegin(w) \/ PenaltyLoad(w)
      BY <3>1 DEF CancelChallenge, VoteLoad, PenaltyBegin, PenaltyLoad, Read, Request,
         BeginAt, Begin, BeginRefused, connection
    <3>2. CASE PayPenalty(w) \/ CancelByOne(w)
      BY <1>2, <3>2 DEF PayPenalty, CancelByOne, Running, Inside, InsideTx, Pay,
         WriteChallenge, Write, Update, Store, connection
    <3> QED
      BY <1>7, <3>1, <3>2
  <2>2. j.pc \notin {"votes", "cancel"}
    BY <1>7 DEF CancelChallenge, VoteLoad, PenaltyBegin, PenaltyLoad, PayPenalty,
       CancelByOne, Request, BeginAt, Running
  <2> QED
    BY <2>1, <2>2, SameNoVote, VotesKept
<1>8. CASE Vote(w)
  <2> DEFINE i == At(j, "votes")
             row == [tables.challenges[j.id] EXCEPT !.votes = @ \cup {j.user}]
  <2>1. j.pc = "vote" /\ ~Inside(j)
    BY <1>8 DEF Vote, Running, Inside, InsideTx
  <2>2. j.id \in ChallengeIds /\ i.pc = "votes" /\ i.id = j.id
    BY <1>1, <2>1 DEF Ready, OnChallenge, At, Fields
  <2>3. WriteChallenge(w, j.id, row, i, Idle)
    BY <1>8 DEF Vote
  <2> HIDE DEF row, i
  <2>4. /\ Become(w, i)
        /\ \/ durable' = durable
           \/ durable' = [durable EXCEPT !.challenges[j.id] = row]
    BY <1>3, <1>4, <2>1, <2>3 DEF WriteChallenge, Write, Update, Store
  <2>5. job'[w].pc = "votes" /\ job'[w].id = j.id
    BY <1>5, <2>2, <2>4
  <2>6. ASSUME NEW c \in ChallengeIds, c # j.id
        PROVE  durable'.challenges[c] = durable.challenges[c]
    BY <1>1, <2>4, <2>6 DEF Rows
  <2>7. ASSUME NEW c \in ChallengeIds, BothVoted(durable.challenges[c])
        PROVE  durable.challenges[c].status \in Final
    BY <1>6, <2>1, <2>7 DEF VotesInv
  <2>8. w \in Workers
    BY DEF Turn
  <2> QED
    BY <2>5, <2>6, <2>7, <2>8 DEF VotesInv, Weighing, BothVoted
<1>9. CASE CountVotes(w)
  <2> DEFINE row == tables.challenges[j.id]
             k == [j EXCEPT !.challenge = row]
             i == At(k, "cancel")
  <2>1. j.pc = "votes" /\ ~Inside(j) /\ w \in Workers
    BY <1>9 DEF CountVotes, Running, Inside, InsideTx, Turn
  <2>2. durable' = durable
    BY <1>9 DEF CountVotes, Read, connection
  <2>3. i.pc = "cancel" /\ i.id = j.id
    BY <1>1 DEF At, Fields
  <2>4. BothVoted(row) => Become(w, i)
    BY <1>9 DEF CountVotes, Read, BothVoted
  <2> HIDE DEF i
  <2>5. BothVoted(durable.challenges[j.id]) =>
          job'[w].pc = "cancel" /\ job'[w].id = j.id
    BY <1>3, <1>5, <2>1, <2>3, <2>4
  <2>6. ASSUME NEW c \in ChallengeIds, BothVoted(durable.challenges[c]), c # j.id
        PROVE  durable.challenges[c].status \in Final
    BY <1>6, <2>6 DEF VotesInv
  <2> QED
    BY <2>1, <2>2, <2>5, <2>6 DEF VotesInv, Weighing, BothVoted
<1>10. CASE CancelByBoth(w)
  <2> DEFINE row == [tables.challenges[j.id] EXCEPT !.status = "cancelled"]
  <2>1. j.pc = "cancel" /\ ~Inside(j)
    BY <1>10 DEF CancelByBoth, Running, Inside, InsideTx
  <2>2. j.id \in ChallengeIds
    BY <1>1, <2>1 DEF Ready, OnChallenge, OnVote
  <2>3. Columns(tables.challenges[j.id]) /\ tables.challenges[j.id].status # "none"
    BY <1>1, <1>3, <2>1, <2>2 DEF Rows, Row, Stage, StageOfCancel, OnVote, Open, Race
  <2>4. row.status = "cancelled"
    BY <2>3 DEF Columns
  <2>5. WriteChallenge(w, j.id, row, Idle, Idle)
    BY <1>10 DEF CancelByBoth
  <2> HIDE DEF row
  <2>6. durable' = [durable EXCEPT !.challenges[j.id] = row]
    BY <1>3, <1>4, <2>1, <2>3, <2>5 DEF WriteChallenge, Write, Update, Store
  <2>7. /\ durable'.challenges[j.id] = row
        /\ \A c \in ChallengeIds : c # j.id =>
             durable'.challenges[c] = durable.challenges[c]
    BY <1>1, <2>2, <2>6 DEF Rows
  <2>8. ASSUME NEW c \in ChallengeIds, BothVoted(durable.challenges[c]), c # j.id
        PROVE  durable.challenges[c].status \in Final
    BY <1>6, <2>8 DEF VotesInv
  <2> QED
    BY <2>4, <2>7, <2>8 DEF VotesInv, BothVoted, Final
<1> QED
  BY <1>7, <1>8, <1>9, <1>10 DEF Cancel

(* What fails is counted, and not forgotten. *)
LEMMA MishapsGrow ==
  ASSUME [Next]_vars, mishaps \in Nat, mishaps' = 0
  PROVE  mishaps = 0
<1>s. Smooth \/ Mishap => mishaps = 0
  BY DEF Smooth, Mishap
<1>r. \A w, i : Read(w, i) => mishaps = 0
  BY <1>s DEF Read
<1>q. \A w, kind : Request(w, kind) => mishaps = 0
  BY DEF Request
<1>w. /\ \A w, rows, i, f : Write(w, rows, i, f) => mishaps = 0
      /\ \A w, rows, n, i, f : WriteNew(w, rows, n, i, f) => mishaps = 0
  BY <1>s DEF Write, WriteNew
<1>c. /\ \A w, id, row, i, f : WriteChallenge(w, id, row, i, f) => mishaps = 0
      /\ \A w, u, a, i, f : Pay(w, u, a, i, f) => mishaps = 0
  BY <1>w DEF WriteChallenge, Pay
<1>b. /\ \A w, l, i, f : BeginAt(w, l, i, f) => mishaps = 0
      /\ \A w, l, i, f : CommitAt(w, l, i, f) => mishaps = 0
  BY <1>s DEF BeginAt, CommitAt
<1>1. ASSUME NEW w \in Workers, Unbox(w) PROVE mishaps = 0
  BY <1>1, <1>r, <1>q, <1>w, <1>c, <1>b DEF Unbox, UnboxCase, UnboxLoadUser, UnboxBegin,
     DeductBalance, DrawSkin, CreateSkinInstance, TakeItemId, AddToInventory
<1>2. ASSUME NEW w \in Workers, AfterUnbox(w) PROVE mishaps = 0
  BY <1>2, <1>r, <1>w, <1>b, <1>s DEF AfterUnbox, UnboxLog, NextCall,
     CallBegin, CallLoad, CallWrite, CallCommit, CallRollback, ListChallenges,
     NextChallenge, BroadcastRareUnbox
<1>3. ASSUME NEW w \in Workers, Progress(w) PROVE mishaps = 0
  BY <1>3, <1>r, <1>q, <1>c DEF Progress, UpdateChallengeProgress, LoadForProgress,
     WorthOfChallenger, WorthOfOpponent, SaveProgress
<1>4. ASSUME NEW w \in Workers, Arrange(w) PROVE mishaps = 0
  BY <1>4, <1>r, <1>q, <1>w, <1>c DEF Arrange, CreateChallenge, StartOfChallenger,
     StartOfOpponent, SaveChallenge, AcceptChallenge, AcceptLoad, AcceptWrite
<1>5. ASSUME NEW w \in Workers, Complete(w) PROVE mishaps = 0
  BY <1>5, <1>r, <1>q, <1>c, <1>b DEF Complete, CompleteChallenge, CompleteLoad, Reload,
     CompleteBegin, LoadWinner, PayWinner, CompleteWrite
<1>6. ASSUME NEW w \in Workers, Cancel(w) PROVE mishaps = 0
  BY <1>6, <1>r, <1>q, <1>c, <1>b DEF Cancel, CancelChallenge, VoteLoad, Vote,
     CountVotes, CancelByBoth, PenaltyBegin, PenaltyLoad, PayPenalty, CancelByOne
<1>7. ASSUME NEW w \in Workers, End(w) PROVE mishaps = 0
  BY <1>7, <1>b, <1>s DEF End, CommitTransaction, RollbackTransaction
<1>8. CASE Tick \/ Crash \/ UNCHANGED vars
  BY <1>s, <1>8 DEF Tick, Crash, vars
<1> QED
  BY <1>1, <1>2, <1>3, <1>4, <1>5, <1>6, <1>7, <1>8 DEF Next

LEMMA VotesStep ==
  ASSUME Inv, SerialInv, Serial, Serial', [Next]_vars, [Lawful]_vars, VotesInv
  PROVE  VotesInv'
<1> SUFFICES ASSUME mishaps' = 0 PROVE VotesInv'
  BY DEF VotesInv
<1>1. mishaps = 0
  BY MishapsGrow DEF SerialInv
<1>2. CASE Tick \/ UNCHANGED vars
  BY <1>2 DEF Tick, vars, connection, VotesInv, Weighing, BothVoted
<1>3. CASE Crash
  BY <1>1, <1>3 DEF Crash, Mishap
<1>4. ASSUME NEW w \in Workers, Handler(w)
      PROVE  VotesInv'
  <2>1. Turn(w)
    BY <1>4, OthersIdle DEF Turn, SerialInv
  <2>2. LeavesFinal
    <3>1. Lawful
      BY <1>4, HandlerKept DEF Kept
    <3> QED
      BY <3>1 DEF Lawful
  <2>3. CASE Cancel(w)
    BY <1>1, <2>1, <2>2, <2>3, CancelVotes
  <2>4. CASE Unbox(w) \/ AfterUnbox(w) \/ Complete(w) \/ End(w)
    <3>1. job[w].pc \notin {"votes", "cancel"}
      BY <2>4 DEF Unbox, UnboxCase, UnboxLoadUser, UnboxBegin, DeductBalance, DrawSkin,
         CreateSkinInstance, TakeItemId, AddToInventory, AfterUnbox, UnboxLog, NextCall,
         CallBegin, CallLoad, CallWrite, CallCommit, CallRollback, ListChallenges,
         NextChallenge, BroadcastRareUnbox, Complete, CompleteChallenge, CompleteLoad,
         Reload, CompleteBegin, LoadWinner, PayWinner, CompleteWrite, End,
         CommitTransaction, RollbackTransaction, Request, Running, BeginAt, CommitAt
    <3> QED
      BY <1>1, <2>1, <2>2, <2>4, <3>1, QuietVotes, VotesKept
  <2>5. CASE Progress(w) \/ Arrange(w)
    <3>1. job[w].pc \notin {"votes", "cancel"}
      BY <2>5 DEF Progress, UpdateChallengeProgress, LoadForProgress,
         WorthOfChallenger, WorthOfOpponent, SaveProgress, Arrange, CreateChallenge,
         StartOfChallenger, StartOfOpponent, SaveChallenge, AcceptChallenge,
         AcceptLoad, AcceptWrite, Request, Running
    <3> QED
      BY <1>1, <2>1, <2>2, <2>5, <3>1, ProgressVotes, VotesKept
  <2> QED
    BY <1>4, <2>3, <2>4, <2>5 DEF Handler
<1> QED
  BY <1>2, <1>3, <1>4 DEF Next, Handler

(* cancel_challenge saves a vote, reads the votes back and writes the      *)
(* status in a third statement, and refuses a second vote of a player: one *)
(* request at a time, and unless a statement fails or the process is       *)
(* killed, no challenge is left that both players have voted to cancel and *)
(* that is not over, whatever else becomes of it between the two votes.    *)
THEOREM VotesAreCounted == Spec /\ []Serial => []VotesDecide
<1>1. Init => VotesInv
  <2> SUFFICES ASSUME Init, NEW c \in ChallengeIds
               PROVE  ~BothVoted(durable.challenges[c])
    BY DEF VotesInv
  <2>1. durable.challenges[c] = NoChallenge
    BY DEF Init, ConnectionInit, FirstRows
  <2>2. NoChallenge.votes = {} /\ NoChallenge.challenger = Nobody
    BY DEF NoChallenge
  <2> QED
    BY <2>1, <2>2 DEF BothVoted
<1>2. Inv /\ SerialInv /\ Serial /\ Serial' /\ [Next]_vars /\ VotesInv
        => SerialInv' /\ VotesInv'
  BY SerialStep, VotesStep
<1>3. VotesInv => VotesDecide
  BY DEF VotesInv, VotesDecide, BothVoted, Weighing
<1> QED
  BY <1>1, <1>2, <1>3, InvInit, InvStep, SerialInit, PTL DEF Spec

-----------------------------------------------------------------------------
(* The rates: how many of the 10000 rolls give a rarity, and how many of   *)
(* the numbers that the preview takes choose a skin, in any case.          *)

LEMMA MinIs ==
  ASSUME NEW S \in SUBSET Int, NEW m \in S, \A x \in S : m <= x
  PROVE  Min(S) = m
<1>1. Min(S) \in S /\ \A y \in S : Min(S) <= y
  <2>1. \E x \in S : \A y \in S : x <= y
    OBVIOUS
  <2> QED
    BY <2>1 DEF Min
<1>2. Min(S) <= m /\ m <= Min(S) /\ Min(S) \in Int
  BY <1>1
<1> QED
  BY <1>2

(* How many numbers are from one up to, but not including, another. *)
LEMMA Between ==
  ASSUME NEW low \in Int, NEW high \in Int, low <= high
  PROVE  /\ IsFiniteSet(low .. high - 1)
         /\ Cardinality(low .. high - 1) = high - low
<1>1. high - 1 \in Int /\ (low > high - 1 => high - low = 0)
  OBVIOUS
<1>2. /\ IsFiniteSet(low .. high - 1)
      /\ Cardinality(low .. high - 1)
           = IF low > high - 1 THEN 0 ELSE (high - 1) - low + 1
  BY <1>1, FS_Interval
<1> QED
  BY <1>1, <1>2

LEMMA Thresholds ==
  Threshold[3] = 2008 /\ Threshold[4] = 410 /\ Threshold[5] = 90 /\ Threshold[6] = 26
BY DEF Threshold, Tiers, RESTRICTED, CLASSIFIED, COVERT, CONTRABAND

(* The rarest tier that a roll allows, and the rarity a case gives in its  *)
(* place when it has no skin of that tier.                                 *)
TierOf(roll) == IF roll < 26 THEN CONTRABAND ELSE IF roll < 90 THEN COVERT
                ELSE IF roll < 410 THEN CLASSIFIED
                ELSE IF roll < 2008 THEN RESTRICTED ELSE MIL_SPEC

Heir(available, t) ==
  LET below == {s \in available \cap Tiers : s <= t} IN
  IF below # {} THEN Max(below)
  ELSE IF MIL_SPEC \in available THEN MIL_SPEC ELSE Min(available)

DropTiers == MIL_SPEC .. CONTRABAND
WeightOf == [t \in DropTiers |-> VisualWeight(t)]

LEMMA TierNumbers ==
  /\ Tiers = {3, 4, 5, 6} /\ DropTiers = {2, 3, 4, 5, 6}
  /\ MIL_SPEC = 2 /\ RESTRICTED = 3 /\ CLASSIFIED = 4 /\ COVERT = 5 /\ CONTRABAND = 6
BY DEF Tiers, DropTiers, MIL_SPEC, RESTRICTED, CLASSIFIED, COVERT, CONTRABAND

LEMMA DropByTier ==
  ASSUME NEW available, NEW roll \in Rolls
  PROVE  Drop(available, roll) = Heir(available, TierOf(roll))
<1>1. roll \in Int
  BY DEF Rolls
<1>2. \A s \in Tiers : roll < Threshold[s] <=> s <= TierOf(roll)
  BY <1>1, TierNumbers, Thresholds DEF TierOf
<1>3. {s \in available \cap Tiers : roll < Threshold[s]}
        = {s \in available \cap Tiers : s <= TierOf(roll)}
  BY <1>2
<1> QED
  BY <1>3 DEF Drop, Heir

(* A tier is the rarest allowed for as many rolls as its weight says. *)
Band(t) == {roll \in Rolls : TierOf(roll) = t}

LEMMA BandWidth ==
  ASSUME NEW t \in DropTiers
  PROVE  /\ IsFiniteSet(Band(t)) /\ Cardinality(Band(t)) = WeightOf[t]
         /\ WeightOf[t] \in Int
<1>1. ASSUME NEW a \in Nat, NEW b \in Nat, a < b, b <= 10000,
             \A roll \in Rolls : TierOf(roll) = t <=> a <= roll /\ roll < b
      PROVE  IsFiniteSet(Band(t)) /\ Cardinality(Band(t)) = b - a
  <2>1. Band(t) = a .. b - 1
    <3>1. ASSUME NEW roll \in Band(t) PROVE roll \in a .. b - 1
      <4>1. roll \in Rolls /\ TierOf(roll) = t
        BY DEF Band
      <4>2. a <= roll /\ roll < b
        BY <1>1, <4>1
      <4>3. roll \in Int
        BY <4>1 DEF Rolls
      <4> QED
        BY <4>2, <4>3
    <3>2. ASSUME NEW roll \in a .. b - 1 PROVE roll \in Band(t)
      <4>1. roll \in Rolls /\ a <= roll /\ roll < b
        BY <1>1 DEF Rolls
      <4> QED
        BY <1>1, <4>1 DEF Band
    <3> QED
      BY <3>1, <3>2
  <2>2. IsFiniteSet(a .. b - 1) /\ Cardinality(a .. b - 1) = b - a
    BY <1>1, Between
  <2> QED
    BY <2>1, <2>2
<1>2. WeightOf[t] = VisualWeight(t)
  BY DEF WeightOf
<1>3. CASE t = 6
  <2>1. \A roll \in Rolls : TierOf(roll) = t <=> 0 <= roll /\ roll < 26
    BY <1>3, TierNumbers DEF TierOf, Rolls
  <2>2. VisualWeight(t) = 26
    BY <1>3, TierNumbers DEF VisualWeight
  <2> QED
    BY <1>1, <1>2, <2>1, <2>2
<1>4. CASE t = 5
  <2>1. \A roll \in Rolls : TierOf(roll) = t <=> 26 <= roll /\ roll < 90
    BY <1>4, TierNumbers DEF TierOf, Rolls
  <2>2. VisualWeight(t) = 64
    BY <1>4, TierNumbers DEF VisualWeight
  <2> QED
    BY <1>1, <1>2, <2>1, <2>2
<1>5. CASE t = 4
  <2>1. \A roll \in Rolls : TierOf(roll) = t <=> 90 <= roll /\ roll < 410
    BY <1>5, TierNumbers DEF TierOf, Rolls
  <2>2. VisualWeight(t) = 320
    BY <1>5, TierNumbers DEF VisualWeight
  <2> QED
    BY <1>1, <1>2, <2>1, <2>2
<1>6. CASE t = 3
  <2>1. \A roll \in Rolls : TierOf(roll) = t <=> 410 <= roll /\ roll < 2008
    BY <1>6, TierNumbers DEF TierOf, Rolls
  <2>2. VisualWeight(t) = 1598
    BY <1>6, TierNumbers DEF VisualWeight
  <2> QED
    BY <1>1, <1>2, <2>1, <2>2
<1>7. CASE t = 2
  <2>1. \A roll \in Rolls : TierOf(roll) = t <=> 2008 <= roll /\ roll < 10000
    BY <1>7, TierNumbers DEF TierOf, Rolls
  <2>2. VisualWeight(t) = 7992
    BY <1>7, TierNumbers DEF VisualWeight
  <2> QED
    BY <1>1, <1>2, <2>1, <2>2
<1> QED
  BY TierNumbers, <1>3, <1>4, <1>5, <1>6, <1>7

LEMMA BandsTogether ==
  ASSUME NEW U \in SUBSET DropTiers
  PROVE  Cardinality({roll \in Rolls : TierOf(roll) \in U}) = Total(WeightOf, U)
<1> DEFINE Rolled(T) == {roll \in Rolls : TierOf(roll) \in T}
           G == {T \in SUBSET U : Cardinality(Rolled(T)) = Total(WeightOf, T)}
<1>1. IsFiniteSet(U) /\ IsFiniteSet(Rolls)
  <2> DEFINE last == 9999
  <2>1. MIL_SPEC \in Int /\ CONTRABAND \in Int /\ last \in Int /\ Rolls = 0 .. last
    BY DEF Rolls, MIL_SPEC, CONTRABAND
  <2> HIDE DEF last
  <2>2. IsFiniteSet(DropTiers) /\ IsFiniteSet(Rolls)
    BY <2>1, FS_Interval DEF DropTiers
  <2> QED
    BY <2>2, FS_Subset
<1>2. {} \in G
  <2>1. Rolled({}) = {}
    OBVIOUS
  <2> QED
    BY <2>1, FS_EmptySet, TotalEmpty
<1>3. ASSUME NEW T \in SUBSET U, T # {}, T \ {Chosen(T)} \in G
      PROVE  T \in G
  <2> DEFINE t == Chosen(T)
             R == T \ {t}
  <2>1. t \in T /\ t \in DropTiers
    BY <1>3, ChosenIn
  <2> HIDE DEF t
  <2>2. /\ Rolled(T) = Rolled(R) \cup Band(t)
        /\ Rolled(R) \cap Band(t) = {}
    BY <2>1 DEF Band
  <2>3. IsFiniteSet(Rolled(R))
    BY <1>1, FS_Subset
  <2>4. /\ IsFiniteSet(Band(t)) /\ Cardinality(Band(t)) = WeightOf[t]
        /\ WeightOf[t] \in Int
    BY <2>1, BandWidth
  <2>5. Cardinality(Rolled(T)) = Cardinality(Rolled(R)) + Cardinality(Band(t))
                                   - Cardinality(Rolled(R) \cap Band(t))
    BY <2>2, <2>3, <2>4, FS_Union
  <2>6. Cardinality(Rolled(R) \cap Band(t)) = 0
    BY <2>2, FS_EmptySet
  <2>7. Cardinality(Rolled(R)) = Total(WeightOf, R)
    BY <1>3 DEF t
  <2>8. IsFiniteSet(T) /\ \A x \in T : WeightOf[x] \in Int
    BY <1>1, BandWidth, FS_Subset
  <2>9. Total(WeightOf, T) = WeightOf[t] + Total(WeightOf, R)
    BY <2>1, <2>8, TotalRemove
  <2>10. Total(WeightOf, R) \in Int
    <3>1. IsFiniteSet(R) /\ \A x \in R : WeightOf[x] \in Int
      BY <2>8, FS_Subset
    <3> QED
      BY <3>1, TotalInt
  <2> QED
    BY <2>4, <2>5, <2>6, <2>7, <2>9, <2>10
<1>4. U \in G
  <2> HIDE DEF G
  <2>1. G \in SUBSET (SUBSET U)
    BY DEF G
  <2> QED
    BY <1>1, <1>2, <1>3, <2>1, SetsGrow
<1> QED
  BY <1>4

(* determine_rarity with the fallback of unbox_case (Drop) against the     *)
(* weights of get_visual_weight: whatever rarities a case has, each of     *)
(* them is given by as many of the 10000 rolls as the weights of the tiers *)
(* say for which it stands in, its own and those above it that the case    *)
(* does not have.  How many skins the case has of it makes no difference.  *)
THEOREM RollShares ==
  ASSUME NEW available, NEW rarity
  PROVE  Cardinality({roll \in Rolls : Drop(available, roll) = rarity})
           = Total(WeightOf, {t \in DropTiers : Heir(available, t) = rarity})
<1> DEFINE U == {t \in DropTiers : Heir(available, t) = rarity}
<1>1. \A roll \in Rolls : TierOf(roll) \in DropTiers
  BY TierNumbers DEF TierOf
<1>2. {roll \in Rolls : Drop(available, roll) = rarity}
        = {roll \in Rolls : TierOf(roll) \in U}
  BY <1>1, DropByTier
<1>3. U \in SUBSET DropTiers
  OBVIOUS
<1> HIDE DEF U
<1>4. Cardinality({roll \in Rolls : TierOf(roll) \in U}) = Total(WeightOf, U)
  BY <1>3, BandsTogether
<1> QED
  BY <1>2, <1>4 DEF U

(* A sum does not become less by what is added to it. *)
LEMMA TotalMore ==
  ASSUME NEW f, NEW S, NEW T, IsFiniteSet(T), S \subseteq T, \A x \in T : f[x] \in Nat
  PROVE  Total(f, S) <= Total(f, T)
<1> DEFINE D == T \ S
           G == {U \in SUBSET D : Total(f, S) <= Total(f, S \cup U)}
<1>1. IsFiniteSet(D) /\ IsFiniteSet(S)
  BY FS_Subset
<1>2. ASSUME NEW U \in SUBSET T
      PROVE  /\ IsFiniteSet(U) /\ Total(f, U) \in Int
             /\ \A x \in U : f[x] \in Int
  <2>1. IsFiniteSet(U) /\ \A x \in U : f[x] \in Int
    BY FS_Subset
  <2> QED
    BY <2>1, TotalInt
<1>3. {} \in G
  <2>1. S \cup {} = S /\ Total(f, S) \in Int
    BY <1>2
  <2> QED
    BY <2>1
<1>4. ASSUME NEW U \in SUBSET D, U # {}, U \ {Chosen(U)} \in G
      PROVE  U \in G
  <2> DEFINE x == Chosen(U)
  <2>1. x \in U /\ x \notin S /\ f[x] \in Nat
    BY <1>4, ChosenIn
  <2> HIDE DEF x
  <2>2. (S \cup U) \ {x} = S \cup (U \ {x})
    BY <2>1
  <2>3. Total(f, S \cup U) = f[x] + Total(f, (S \cup U) \ {x})
    BY <1>2, <2>1, TotalRemove
  <2>4. Total(f, S) <= Total(f, S \cup (U \ {x}))
    BY <1>4 DEF x
  <2>5. Total(f, S) \in Int /\ Total(f, S \cup (U \ {x})) \in Int
    BY <1>2
  <2> QED
    BY <2>1, <2>2, <2>3, <2>4, <2>5
<1>5. D \in G
  <2> HIDE DEF G
  <2>1. G \in SUBSET (SUBSET D)
    BY DEF G
  <2> QED
    BY <1>1, <1>3, <1>4, <2>1, SetsGrow
<1>6. S \cup D = T
  OBVIOUS
<1> QED
  BY <1>5, <1>6

LEMMA Accumulates ==
  ASSUME NEW weights \in Seq(Nat), NEW k \in 1 .. Len(weights)
  PROVE  /\ Accumulated(weights, 0) = 0
         /\ Accumulated(weights, k) = weights[k] + Accumulated(weights, k - 1)
         /\ Accumulated(weights, k) \in Nat /\ Accumulated(weights, k - 1) \in Nat
         /\ \A i \in 0 .. k : Accumulated(weights, i) <= Accumulated(weights, k)
<1>1. IsFiniteSet(1 .. k) /\ \A x \in 1 .. k : weights[x] \in Nat
  <2>1. 1 .. k \subseteq 1 .. Len(weights) /\ k \in Int
    OBVIOUS
  <2>2. \A x \in 1 .. Len(weights) : weights[x] \in Nat
    OBVIOUS
  <2> QED
    BY <2>1, <2>2, FS_Interval
<1>2. Accumulated(weights, 0) = 0
  <2>1. 1 .. 0 = {}
    OBVIOUS
  <2> QED
    BY <2>1, TotalEmpty DEF Accumulated
<1>3. ASSUME NEW i \in 0 .. k
      PROVE  Accumulated(weights, i) <= Accumulated(weights, k)
  <2>1. 1 .. i \subseteq 1 .. k
    OBVIOUS
  <2> QED
    BY <1>1, <2>1, TotalMore DEF Accumulated
<1>4. Accumulated(weights, k) = weights[k] + Accumulated(weights, k - 1)
  <2>1. (1 .. k) \ {k} = 1 .. k - 1
    OBVIOUS
  <2>2. \A x \in 1 .. k : weights[x] \in Int
    BY <1>1
  <2> QED
    BY <1>1, <2>1, <2>2, TotalRemove DEF Accumulated
<1>5. ASSUME NEW i \in 0 .. k
      PROVE  Accumulated(weights, i) \in Nat
  <2>1. IsFiniteSet(1 .. i) /\ 1 .. i \subseteq 1 .. k
    BY FS_Interval
  <2>2. Total(weights, 1 .. i) \in Int
    <3>1. \A x \in 1 .. i : weights[x] \in Int
      BY <1>1, <2>1
    <3> QED
      BY <2>1, <3>1, TotalInt
  <2>3. Total(weights, {}) <= Total(weights, 1 .. i)
    BY <1>1, <2>1, TotalMore
  <2> QED
    BY <2>2, <2>3, TotalEmpty DEF Accumulated
<1> QED
  BY <1>2, <1>3, <1>4, <1>5

LEMMA LeastOf ==
  ASSUME NEW T \in SUBSET Nat, T # {}
  PROVE  Min(T) \in T /\ \A y \in T : Min(T) <= y
<1>1. PICK x \in T : \A y \in T : <<y, x>> \notin OpToRel(<, Nat)
  BY NatLessThanWellFounded, WFMin
<1>2. ASSUME NEW y \in T, y < x
      PROVE  FALSE
  <2>1. <<y, x>> \in OpToRel(<, Nat)
    BY <1>2 DEF OpToRel
  <2> QED
    BY <1>1, <2>1
<1>3. \A y \in T : x <= y
  BY <1>2
<1>4. \E m \in T : \A y \in T : m <= y
  BY <1>3
<1> QED
  BY <1>4 DEF Min

(* The weighted choice of generate_unbox_preview: with weights of any      *)
(* number of skins, as many of the numbers below their sum choose a skin   *)
(* as its weight.  So the preview shows a rarity by its weight times the   *)
(* number of its skins, whereas the roll (RollShares) does not look at     *)
(* their number: "matches actual drop rates" is true of a case with one    *)
(* skin of each rarity only.                                               *)
THEOREM PreviewShares ==
  ASSUME NEW weights \in Seq(Nat), NEW k \in 1 .. Len(weights)
  PROVE  Cardinality({r \in 0 .. Accumulated(weights, Len(weights)) - 1 :
                        Selected(weights, r) = k}) = weights[k]
<1> DEFINE n == Len(weights)
           a(i) == Accumulated(weights, i)
           above(r) == {i \in 1 .. n : r < a(i)}
<1>1. /\ n \in Nat /\ weights[k] \in Nat /\ k - 1 \in 0 .. n
      /\ \A i \in 1 .. n : i - 1 \in 0 .. n
  OBVIOUS
<1>2. /\ a(0) = 0 /\ a(k) = weights[k] + a(k - 1)
      /\ \A i \in 0 .. n : a(i) \in Nat
      /\ \A i \in 1 .. n : \A h \in 0 .. i : a(h) <= a(i)
  <2>1. \A i \in 1 .. n : /\ a(0) = 0 /\ a(i) \in Nat
                          /\ \A h \in 0 .. i : a(h) <= a(i)
    BY Accumulates
  <2>2. a(k) = weights[k] + a(k - 1)
    BY Accumulates
  <2>3. \A i \in 0 .. n : i = 0 \/ i \in 1 .. n
    BY <1>1
  <2> QED
    BY <1>1, <2>1, <2>2, <2>3
<1>3. ASSUME NEW r
      PROVE  Selected(weights, r) = Min(above(r))
  <2>1. DOMAIN weights = 1 .. n
    OBVIOUS
  <2>2. above(r) = {i \in DOMAIN weights : r < Accumulated(weights, i)}
    BY <2>1
  <2> HIDE DEF above
  <2> QED
    BY <2>2 DEF Selected
<1> HIDE DEF a
<1>4. ASSUME NEW r \in 0 .. a(n) - 1
      PROVE  Selected(weights, r) = k <=> a(k - 1) <= r /\ r < a(k)
  <2> DEFINE m == Min(above(r))
  <2>1. r \in Nat /\ r < a(n) /\ n \in 1 .. n
    BY <1>1, <1>2
  <2>2. above(r) \in SUBSET Nat /\ n \in above(r)
    BY <2>1
  <2>3. CASE a(k - 1) <= r /\ r < a(k)
    <3>1. k \in above(r)
      BY <2>3
    <3>2. ASSUME NEW x \in above(r) PROVE k <= x
      <4> SUFFICES ASSUME x < k PROVE FALSE
        BY <1>1
      <4>1. x \in 1 .. n /\ r < a(x)
        OBVIOUS
      <4>2. k - 1 \in 1 .. n /\ x \in 0 .. k - 1
        BY <1>1, <4>1
      <4>3. a(x) <= a(k - 1)
        BY <1>2, <4>2
      <4>4. a(x) \in Nat /\ a(k - 1) \in Nat
        BY <1>1, <1>2, <4>1
      <4> QED
        BY <2>1, <2>3, <4>1, <4>3, <4>4
    <3>3. above(r) \in SUBSET Int
      BY <2>2
    <3> HIDE DEF above
    <3>4. Min(above(r)) = k
      BY <3>1, <3>2, <3>3, MinIs
    <3> QED
      BY <1>3, <2>3, <3>4
  <2>4. CASE Min(above(r)) = k
    <3>1. k \in above(r)
      <4> HIDE DEF above
      <4> QED
        BY <2>2, <2>4, LeastOf
    <3>2. r < a(k)
      BY <3>1
    <3>3. \A x \in above(r) : k <= x
      <4> HIDE DEF above
      <4> QED
        BY <2>2, <2>4, LeastOf
    <3>4. a(k - 1) <= r
      <4>1. CASE k = 1
        BY <1>2, <2>1, <4>1
      <4>2. CASE k # 1
        <5>1. k - 1 \in 1 .. n /\ k - 1 < k
          BY <1>1, <4>2
        <5>2. k - 1 \notin above(r)
          BY <3>3, <5>1
        <5>3. a(k - 1) \in Nat
          BY <1>1, <1>2
        <5> QED
          BY <2>1, <5>1, <5>2, <5>3
      <4> QED
        BY <4>1, <4>2
    <3>5. Selected(weights, r) = k
      BY <1>3, <2>4
    <3> QED
      BY <3>2, <3>4, <3>5
  <2>5. Selected(weights, r) = Min(above(r))
    BY <1>3
  <2> QED
    BY <2>3, <2>4, <2>5
<1>5. a(k) <= a(n) /\ a(k - 1) \in Nat /\ a(k) \in Nat /\ a(n) \in Nat
  <2>1. n \in 1 .. n /\ k \in 0 .. n /\ k \in 0 .. k
    BY <1>1
  <2> QED
    BY <1>1, <1>2, <2>1
<1>6. {r \in 0 .. a(n) - 1 : Selected(weights, r) = k} = a(k - 1) .. a(k) - 1
  <2> DEFINE S == {r \in 0 .. a(n) - 1 : Selected(weights, r) = k}
  <2>1. ASSUME NEW r \in S PROVE r \in a(k - 1) .. a(k) - 1
    BY <1>4, <1>5
  <2>2. ASSUME NEW r \in a(k - 1) .. a(k) - 1 PROVE r \in S
    <3>1. r \in 0 .. a(n) - 1 /\ a(k - 1) <= r /\ r < a(k)
      BY <1>5
    <3> QED
      BY <1>4, <3>1
  <2> QED
    BY <2>1, <2>2
<1>7. Cardinality(a(k - 1) .. a(k) - 1) = weights[k]
  <2>1. a(k - 1) <= a(k)
    BY <1>1, <1>2, <1>5
  <2>2. Cardinality(a(k - 1) .. a(k) - 1) = a(k) - a(k - 1)
    <3>1. a(k - 1) \in Int /\ a(k) \in Int
      BY <1>5
    <3> QED
      BY <2>1, <3>1, Between, Zenon
  <2> QED
    BY <1>1, <1>2, <1>5, <2>2
<1> QED
  BY <1>6, <1>7 DEF a
=============================================================================
