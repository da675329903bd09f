-------------------------------- MODULE Sums --------------------------------
(***************************************************************************)
(* The sum of the values that a function has on a finite set: of balances  *)
(* over users, of fees over listings, of weights over skins.               *)
(***************************************************************************)
EXTENDS Integers, FiniteSetsExt

Total(f, S) == MapThenSumSet(LAMBDA x : f[x], S)
=============================================================================
