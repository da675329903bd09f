------------------------------ MODULE MCTrading ------------------------------
(* Small instances of Trading: two players, two items, three offers.       *)
EXTENDS Trading

CONSTANTS alice, bob, knife, rifle

Offer(from, to, offered, requested, pays, asks) ==
  [from_user |-> from, to_user |-> to,
   offered |-> offered, requested |-> requested,
   offered_cash |-> pays, requested_cash |-> asks, status |-> "pending"]

Sale   == Offer(alice, bob, {knife}, {}, 0, 1)
Bundle == Offer(alice, bob, {knife, rifle}, {}, 0, 2)
Swap   == Offer(bob, alice, {rifle}, {knife}, 1, 0)
Change == Offer(bob, alice, {}, {knife}, 2, 1)
Dear   == Offer(alice, bob, {knife}, {}, 0, 2)
Present == Offer(alice, bob, {}, {}, 1, 0)

Closed(n) == [t \in 1 .. n |-> NoTrade]
NoOpening1 == Closed(1)
NoOpening2 == Closed(2)

(* One request at a time: every kind of offer. *)
SerialOffers == {Sale, Bundle, Swap, Change}

(* Racing workers: bob can pay for the knife once he has the present. *)
RaceOffers == {Dear, Present}
RaceOpening == <<Dear, Present>>
=============================================================================
