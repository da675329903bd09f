------------------------------ MODULE MCServer ------------------------------
(* Small instances of Server. *)
EXTENDS Server, TLC

(* What the main thread may add: a descriptor with the message read from it. *)
Requests == Descriptors \X Clients
(* Clients are alike.  The first value of request and job is one of theirs, *)
(* but nothing reads it, and the steps and the invariants of ServerChurn    *)
(* tell no client from another.                                             *)
Alike == Permutations(Clients)
=============================================================================
