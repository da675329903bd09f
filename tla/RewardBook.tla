----------------------------- MODULE RewardBook -----------------------------
(***************************************************************************)
(* What the quests, achievements and daily logins promise: a reward is     *)
(* paid, then marked as claimed, and paid again only when a mishap (a      *)
(* failed statement or a kill) came between its payment and its mark.      *)
(***************************************************************************)
EXTENDS Integers, FiniteSets

CONSTANTS
  Holders,       \* the accounts
  Gift,          \* the balance an account starts with
  Worth(_)       \* the amounts a reward may be worth

VARIABLES
  balance,       \* of every account, 0 before it is opened
  opened,        \* the accounts there are
  pending,       \* rewards paid and not yet marked, each <<kind, holder, ...>>
  marked,        \* rewards marked as claimed
  mishaps        \* failed statements and kills so far

book == <<balance, opened, pending, marked, mishaps>>

Holder(reward) == reward[2]

(* A daily reward is <<"daily", holder, date>>; its mark replaces the mark *)
(* of the holder's earlier days.                                           *)
Daily(reward) == reward[1] = "daily"
Replaced(reward) ==
  IF Daily(reward) THEN {r \in marked : Daily(r) /\ Holder(r) = Holder(reward)}
                   ELSE {}

BookInit ==
  /\ balance = [h \in Holders |-> 0]
  /\ opened = {}
  /\ pending = {}
  /\ marked = {}
  /\ mishaps = 0

Open(h) ==
  /\ h \notin opened
  /\ opened' = opened \cup {h}
  /\ balance' = [balance EXCEPT ![h] = Gift]
  /\ UNCHANGED <<pending, marked, mishaps>>

(* The one step that raises a balance. *)
Pay(reward, amount) ==
  /\ Holder(reward) \in opened
  /\ amount \in Worth(reward)
  /\ reward \notin pending \cup marked
  /\ \A r \in Replaced(reward) : r[3] < reward[3]
  /\ balance' = [balance EXCEPT ![Holder(reward)] = @ + amount]
  /\ pending' = pending \cup {reward}
  /\ UNCHANGED <<opened, marked, mishaps>>

Mark(reward) ==
  /\ reward \in pending
  /\ pending' = pending \ {reward}
  /\ marked' = (marked \ Replaced(reward)) \cup {reward}
  /\ UNCHANGED <<balance, opened, mishaps>>

(* A mishap may make the server forget what it was about to mark. *)
Mishap ==
  /\ mishaps' = mishaps + 1
  /\ pending' \in {pending, {}}
  /\ UNCHANGED <<balance, opened, marked>>

Book ==
  \/ \E h \in Holders : Open(h)
  \/ \E reward \in (pending' \ pending) :
       \E amount \in Worth(reward) : Pay(reward, amount)
  \/ \E reward \in pending : Mark(reward)
  \/ Mishap

BookSpec == BookInit /\ [][Book]_book
=============================================================================
