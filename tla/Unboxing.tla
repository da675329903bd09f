------------------------------ MODULE Unboxing ------------------------------
(***************************************************************************)
(* What an unboxing draws (unbox.c): the rarity that a roll of the dice    *)
(* gives in a case, the skin's price, and the weighted choice with which   *)
(* generate_unbox_preview fills the animation.                             *)
(***************************************************************************)
EXTENDS Sums

CONSTANTS
  Skins,             \* skin definitions
  RarityOf,          \* the rarity of each
  BasePrice,         \* and its base price
  RarityMultiplier,  \* the rows of rarity_multipliers
  Wears,             \* the ranges of wear_multipliers
  WearMultiplier     \* and their multipliers

(* SkinRarity *)
CONSUMER == 0
MIL_SPEC == 2
RESTRICTED == 3
CLASSIFIED == 4
COVERT == 5
CONTRABAND == 6
Rarities == CONSUMER .. CONTRABAND

ASSUME UnboxingAssumption ==
  /\ Skins # {} /\ Wears # {}
  /\ RarityOf \in [Skins -> Rarities]
  /\ BasePrice \in [Skins -> Nat]
  /\ RarityMultiplier \in [Rarities -> Nat]
  /\ WearMultiplier \in [Wears -> Nat]

-----------------------------------------------------------------------------
(* A roll is a percentage, here in hundredths: 0 to 10000, and as good as  *)
(* never 10000.  Each tier has a threshold below which it may be drawn.    *)
Rolls == 0 .. 9999
Tiers == RESTRICTED .. CONTRABAND

Threshold ==
  [t \in Tiers |-> CASE t = CONTRABAND -> 26  [] t = COVERT -> 90
                     [] t = CLASSIFIED -> 410 [] t = RESTRICTED -> 2008]

(* The rarest tier that the roll allows and the case has; otherwise        *)
(* Mil-Spec, or the least rare one when the case has none.                 *)
Drop(available, roll) ==
  LET allowed == {t \in available \cap Tiers : roll < Threshold[t]} IN
  IF allowed # {} THEN Max(allowed)
  ELSE IF MIL_SPEC \in available THEN MIL_SPEC ELSE Min(available)

(* db_get_case_skins_by_rarity *)
SkinsOfRarity(case, rarity) == {s \in case : RarityOf[s] = rarity}
Available(case) == {RarityOf[s] : s \in case}

(* The skins that a roll leaves to an even choice. *)
Pool(case, roll) == SkinsOfRarity(case, Drop(Available(case), roll))

(* db_calculate_skin_price *)
Price(skin, wear) ==
  BasePrice[skin] * RarityMultiplier[RarityOf[skin]] * WearMultiplier[wear]

-----------------------------------------------------------------------------
(* generate_unbox_preview: get_visual_weight, ... *)
VisualWeight(rarity) ==
  CASE rarity = MIL_SPEC   -> 7992
    [] rarity = RESTRICTED -> 1598
    [] rarity = CLASSIFIED -> 320
    [] rarity = COVERT     -> 64
    [] rarity = CONTRABAND -> 26
    [] OTHER               -> 100

(* ... and the choice of an index: the first whose accumulated weight      *)
(* exceeds r, a number below the total.                                    *)
Accumulated(weights, k) == Total(weights, 1 .. k)

Selected(weights, r) ==
  Min({k \in DOMAIN weights : r < Accumulated(weights, k)})

=============================================================================
