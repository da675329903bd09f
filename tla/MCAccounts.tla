----------------------------- MODULE MCAccounts -----------------------------
(* Small instances of Accounts: two quest types, of which the first is     *)
(* completed by one action and the second by two; one achievement; a first *)
(* second, one on the next day but 23 hours later, one 25 hours after it.  *)
EXTENDS Accounts

Targets == [t \in Types |-> t]
Rewards == [t \in Types |-> 10 * t]
Trophies == [a \in Achievements |-> 70]
Week == [d \in 1 .. 7 |-> d]
Days3 == <<50, 73, 98>>
Instant == <<50>>
=============================================================================
