------------------------------ MODULE MCMarket ------------------------------
(* Small instances of Market: two or three players, two items, one price   *)
(* of 20 listing fees, of which the market keeps 3.                        *)
EXTENDS Market

CONSTANTS alice, bob, carol, knife, rifle

OnSale(seller, item) ==
  [seller |-> seller, item |-> item, price |-> 20, state |-> "active"]

Holding == [i \in Items |-> alice]
Split == [i \in Items |-> IF i = knife THEN alice ELSE bob]

(* alice has enough for a fee, the others for a purchase and a fee. *)
Purses == [u \in Users |-> IF u = alice THEN 1 ELSE 21]
Rich == [u \in Users |-> 41]

Empty == [l \in ListingIds |-> NoListing]
KnifeOnSale == [l \in ListingIds |->
                  IF l = 1 THEN OnSale(alice, knife) ELSE NoListing]
=============================================================================
