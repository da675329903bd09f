---------------------------- MODULE MCChallenges ----------------------------
(* A small instance of Challenges: a cheap skin and a knife, in half       *)
(* dollars; rolls on both sides of the knife's threshold; the first second *)
(* of a race, one 23 hours later and one a day later.                      *)
EXTENDS Challenges

Rarity == [s \in Skins |-> IF s = "glock" THEN MIL_SPEC ELSE CONTRABAND]
Base == [s \in Skins |-> IF s = "glock" THEN 2 ELSE 20]
ByRarity == [r \in Rarities |-> IF r = CONTRABAND THEN 2 ELSE 1]
ByWear == [r \in Wears |-> 1]
Purses == [u \in Users |-> IF u = "anna" THEN 30 ELSE 240]
Content == [c \in Cases |-> Skins]
Prices == [c \in Cases |-> 10]
ThreeInstants == <<0, 23, 24>>
=============================================================================
