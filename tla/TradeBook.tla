------------------------------ MODULE TradeBook ------------------------------
(***************************************************************************)
(* What trading.c promises: offers are made, and each one is then settled  *)
(* as a whole or closed without an effect, once.  Holdings and balances    *)
(* change in no other way.                                                 *)
(***************************************************************************)
EXTENDS Integers

CONSTANTS Users, Items, TradeIds, Offers

VARIABLES
  trades,    \* the offer filed under each id; status "none" if the id is free
  holder,    \* who holds each item
  balance    \* the money of each user

book == <<trades, holder, balance>>

Offer(t, o) ==
  /\ trades[t].status = "none"
  /\ trades' = [trades EXCEPT ![t] = o]
  /\ UNCHANGED <<holder, balance>>

(* Items and money change hands, all of them and nothing else. *)
Exchange(o) ==
  /\ \A i \in o.offered : holder[i] = o.from_user
  /\ \A i \in o.requested : holder[i] = o.to_user
  /\ balance[o.from_user] >= o.offered_cash
  /\ balance[o.to_user] + o.offered_cash >= o.requested_cash
  /\ holder' = [i \in Items |-> CASE i \in o.offered   -> o.to_user
                                  [] i \in o.requested -> o.from_user
                                  [] OTHER             -> holder[i]]
  /\ balance' = [balance EXCEPT
                   ![o.from_user] = @ - o.offered_cash + o.requested_cash,
                   ![o.to_user]   = @ + o.offered_cash - o.requested_cash]

Settle(t) ==
  /\ trades[t].status = "pending"
  /\ trades' = [trades EXCEPT ![t].status = "accepted"]
  /\ Exchange(trades[t])

(* The receiver declines, the sender cancels, or the offer is found stale. *)
Close(t, status) ==
  /\ trades[t].status = "pending"
  /\ trades' = [trades EXCEPT ![t].status = status]
  /\ UNCHANGED <<holder, balance>>

Next ==
  \E t \in TradeIds :
    \/ \E o \in Offers : Offer(t, o)
    \/ Settle(t)
    \/ \E status \in {"declined", "cancelled", "expired"} : Close(t, status)

Init == \A u \in Users : balance[u] >= 0

Spec == Init /\ [][Next]_book
=============================================================================
