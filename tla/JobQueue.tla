------------------------------ MODULE JobQueue ------------------------------
(***************************************************************************)
(* What thread_pool.c promises the server: a bounded queue that hands every*)
(* accepted job to exactly one worker, in the order of acceptance, and     *)
(* that takes nothing more once it is closed.                              *)
(***************************************************************************)
EXTENDS Integers, Sequences

CONSTANTS Workers, Jobs, Bound

VARIABLES
  pending,   \* the accepted jobs nobody has taken, oldest first
  taken,     \* the job each worker took last
  closed     \* no job is accepted any more

Put(j) ==
  /\ ~closed
  /\ Len(pending) < Bound
  /\ pending' = Append(pending, j)
  /\ UNCHANGED <<taken, closed>>

Take(w) ==
  /\ pending # <<>>
  /\ pending' = Tail(pending)
  /\ taken' = [taken EXCEPT ![w] = Head(pending)]
  /\ UNCHANGED closed

Close ==
  /\ closed' = TRUE
  /\ UNCHANGED <<pending, taken>>

Init ==
  /\ pending = <<>>
  /\ closed = FALSE

Next == (\E j \in Jobs : Put(j)) \/ (\E w \in Workers : Take(w)) \/ Close

Spec == Init /\ [][Next]_<<pending, taken, closed>>
=============================================================================
