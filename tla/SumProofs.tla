------------------------------ MODULE SumProofs ------------------------------
(***************************************************************************)
(* What a sum over a finite set is, whatever order the fold of the         *)
(* community modules adds in.  Induction is over the subsets of the set,   *)
(* whose inclusion is well-founded: a property of sets is given to the     *)
(* lemmas as the set of the sets that have it.                             *)
(***************************************************************************)
EXTENDS Sums, FiniteSetTheorems, WellFoundedInduction, TLAPS

(* The element the fold takes next, and the equation of the fold. *)
Chosen(s) == CHOOSE x \in s : TRUE
Adds(g, f, S) ==
  g = [s \in SUBSET S |-> IF s = {} THEN 0 ELSE f[Chosen(s)] + g[s \ {Chosen(s)}]]

(* A total is the value of a function that adds so. *)
LEMMA TotalIsFold ==
  ASSUME NEW f, NEW S
  PROVE  Total(f, S) = (CHOOSE g : Adds(g, f, S))[S]
BY DEF Total, MapThenSumSet, MapThenFoldSet, Adds, Chosen

(* What is taken next is there. *)
LEMMA ChosenIn == ASSUME NEW s, s # {} PROVE Chosen(s) \in s
BY DEF Chosen

(* Among some subsets of a finite set, one has no other of them inside. *)
LEMMA SmallestSet ==
  ASSUME NEW S, IsFiniteSet(S), NEW G \in SUBSET (SUBSET S), G # {}
  PROVE  \E T \in G : \A U \in G : U \subseteq T => U = T
<1>1. IsWellFoundedOn(StrictSubsetOrdering(S), SUBSET S)
  BY FS_StrictSubsetOrderingWellFounded, FS_FiniteSubsetsOfFinite
<1>2. PICK T \in G : \A U \in G : <<U, T>> \notin StrictSubsetOrdering(S)
  BY <1>1, WFMin
<1>3. \A U \in G : U \subseteq T /\ U # T => <<U, T>> \in StrictSubsetOrdering(S)
  BY DEF StrictSubsetOrdering
<1>4. \A U \in G : U \subseteq T => U = T
  BY <1>2, <1>3
<1> WITNESS T \in G
<1> QED
  BY <1>4

(* Two functions that add the same values agree where both are defined.    *)
LEMMA FoldsAgree ==
  ASSUME NEW f, NEW S, IsFiniteSet(S), NEW T, NEW g, NEW h, Adds(g, f, S), Adds(h, f, T)
  PROVE  \A s \in SUBSET S : s \in SUBSET T => g[s] = h[s]
<1> DEFINE G == {s \in SUBSET S : s \in SUBSET T /\ g[s] # h[s]}
<1> SUFFICES ASSUME G # {} PROVE FALSE
  OBVIOUS
<1>1. PICK s \in G : \A u \in G : u \subseteq s => u = s
  <2>1. G \in SUBSET (SUBSET S)
    OBVIOUS
  <2> HIDE DEF G
  <2> QED BY <2>1, SmallestSet
<1>2. s # {}
  BY DEF Adds
<1>3. s \ {Chosen(s)} \notin G
  BY <1>1, <1>2, ChosenIn
<1>4. g[s \ {Chosen(s)}] = h[s \ {Chosen(s)}]
  BY <1>3, <1>1
<1> QED
  BY <1>1, <1>2, <1>4 DEF Adds

(* There is a function that adds so on the subsets of a finite set. *)
LEMMA FoldExists ==
  ASSUME NEW f, NEW S, IsFiniteSet(S)
  PROVE  \E g : Adds(g, f, S)
<1> DEFINE G == {T \in SUBSET S : ~ \E g : Adds(g, f, T)}
<1> SUFFICES ASSUME G # {} PROVE FALSE
  OBVIOUS
<1>1. PICK T \in G : \A U \in G : U \subseteq T => U = T
  <2>1. G \in SUBSET (SUBSET S)
    OBVIOUS
  <2> HIDE DEF G
  <2> QED BY <2>1, SmallestSet
<1> DEFINE F(U) == CHOOSE g : Adds(g, f, U)
           h == [s \in SUBSET T |-> IF s = {} THEN 0 ELSE f[Chosen(s)] + F(s \ {Chosen(s)})[s \ {Chosen(s)}]]
<1>2. \A U \in SUBSET T : U # T => Adds(F(U), f, U)
  <2> SUFFICES ASSUME NEW U \in SUBSET T, U # T PROVE Adds(F(U), f, U)
    OBVIOUS
  <2>1. \E g : Adds(g, f, U)
    BY <1>1
  <2> QED
    BY <2>1
<1>3. \A U \in SUBSET T : U # T => F(U)[U] = h[U]
  <2> SUFFICES ASSUME NEW U \in SUBSET T, U # T PROVE F(U)[U] = h[U]
    OBVIOUS
  <2>1. Adds(F(U), f, U)
    BY <1>2
  <2>2. CASE U = {}
    BY <2>1, <2>2 DEF Adds
  <2>3. CASE U # {}
    <3> DEFINE V == U \ {Chosen(U)}
    <3>1. V \in SUBSET U /\ V # U /\ V # T
      BY <2>3, ChosenIn
    <3>2. Adds(F(V), f, V)
      BY <1>2, <3>1
    <3>3. IsFiniteSet(U)
      BY FS_Subset
    <3>4. F(U)[V] = F(V)[V]
      <4> HIDE DEF F
      <4> QED BY <2>1, <3>1, <3>2, <3>3, FoldsAgree
    <3>5. F(U)[U] = f[Chosen(U)] + F(U)[V]
      <4> HIDE DEF F
      <4> QED BY <2>1, <2>3 DEF Adds
    <3> HIDE DEF F
    <3> QED
      BY <3>4, <3>5, <2>3
  <2> QED
    BY <2>2, <2>3
<1>4. Adds(h, f, T)
  <2>1. \A s \in SUBSET T : s # {} => s \ {Chosen(s)} \in SUBSET T /\ s \ {Chosen(s)} # T
    BY ChosenIn
  <2>2. \A s \in SUBSET T : h[s] = IF s = {} THEN 0 ELSE f[Chosen(s)] + h[s \ {Chosen(s)}]
    <3> HIDE DEF F
    <3> QED BY <2>1, <1>3
  <2>3. h = [s \in SUBSET T |-> h[s]]
    OBVIOUS
  <2> HIDE DEF h
  <2> QED
    BY <2>2, <2>3 DEF Adds
<1> QED
  BY <1>1, <1>4

(* Nothing adds up to 0. *)
LEMMA TotalEmpty ==
  ASSUME NEW f
  PROVE  Total(f, {}) = 0
<1>1. PICK g : Adds(g, f, {})
  BY FoldExists, FS_EmptySet
<1> QED
  BY <1>1, TotalIsFold DEF Adds

(* A total is the value that is taken next and the total of the rest. *)
LEMMA TotalChosen ==
  ASSUME NEW f, NEW S, IsFiniteSet(S), S # {}
  PROVE  Total(f, S) = f[Chosen(S)] + Total(f, S \ {Chosen(S)})
<1> DEFINE T == S \ {Chosen(S)}
           F(U) == CHOOSE g : Adds(g, f, U)
<1>1. IsFiniteSet(T)
  BY FS_Subset
<1>2. Adds(F(S), f, S) /\ Adds(F(T), f, T)
  BY <1>1, FoldExists
<1>3. F(S)[T] = F(T)[T]
  <2>1. T \in SUBSET S /\ T \in SUBSET T
    OBVIOUS
  <2> HIDE DEF F, T
  <2> QED BY <1>2, <2>1, FoldsAgree
<1>4. F(S)[S] = f[Chosen(S)] + F(S)[T]
  <2> HIDE DEF F
  <2> QED BY <1>2 DEF Adds
<1>5. Total(f, S) = F(S)[S] /\ Total(f, T) = F(T)[T]
  BY TotalIsFold
<1> HIDE DEF F
<1> QED
  BY <1>3, <1>4, <1>5

(* Induction over the subsets of a finite set, for a set of them.          *)
LEMMA SubsetInduction ==
  ASSUME NEW S, IsFiniteSet(S), NEW G \in SUBSET (SUBSET S),
         \A T \in SUBSET S : (\A U \in SUBSET T : U # T => U \in G) => T \in G
  PROVE  S \in G
<1> SUFFICES ASSUME S \notin G PROVE FALSE
  OBVIOUS
<1> DEFINE H == (SUBSET S) \ G
<1>1. PICK T \in H : \A U \in H : U \subseteq T => U = T
  <2>1. H \in SUBSET (SUBSET S) /\ H # {}
    OBVIOUS
  <2> HIDE DEF H
  <2> QED BY <2>1, SmallestSet
<1>2. \A U \in SUBSET T : U # T => U \in G
  BY <1>1
<1> QED
  BY <1>1, <1>2

(* The same, taking one element away, in the order of the fold. *)
LEMMA SetsGrow ==
  ASSUME NEW S, IsFiniteSet(S), NEW G \in SUBSET (SUBSET S), {} \in G,
         \A T \in SUBSET S : T # {} /\ T \ {Chosen(T)} \in G => T \in G
  PROVE  S \in G
<1>1. ASSUME NEW T \in SUBSET S, \A U \in SUBSET T : U # T => U \in G
      PROVE  T \in G
  <2>1. CASE T = {}
    BY <2>1
  <2>2. CASE T # {}
    <3>1. T \ {Chosen(T)} \in SUBSET T /\ T \ {Chosen(T)} # T
      BY <2>2, ChosenIn
    <3> QED
      BY <1>1, <2>2, <3>1
  <2> QED
    BY <2>1, <2>2
<1> QED
  BY <1>1, SubsetInduction

(* Integers add up to an integer. *)
LEMMA TotalInt ==
  ASSUME NEW f, NEW S, IsFiniteSet(S), \A x \in S : f[x] \in Int
  PROVE  Total(f, S) \in Int
<1> DEFINE G == {T \in SUBSET S : Total(f, T) \in Int}
<1>1. {} \in G
  BY TotalEmpty
<1>2. ASSUME NEW T \in SUBSET S, T # {}, T \ {Chosen(T)} \in G PROVE T \in G
  <2>1. Total(f, T) = f[Chosen(T)] + Total(f, T \ {Chosen(T)})
    BY <1>2, TotalChosen, FS_Subset
  <2>2. f[Chosen(T)] \in Int
    BY <1>2, ChosenIn
  <2> QED
    BY <1>2, <2>1, <2>2
<1>3. G \in SUBSET (SUBSET S)
  OBVIOUS
<1>4. S \in G
  <2> HIDE DEF G
  <2> QED BY <1>1, <1>2, <1>3, SetsGrow
<1> QED
  BY <1>4

(* Equal values add up to equal totals. *)
LEMMA TotalSame ==
  ASSUME NEW f, NEW g, NEW S, IsFiniteSet(S), \A x \in S : f[x] = g[x]
  PROVE  Total(f, S) = Total(g, S)
<1> DEFINE G == {T \in SUBSET S : Total(f, T) = Total(g, T)}
<1>1. {} \in G
  BY TotalEmpty
<1>2. ASSUME NEW T \in SUBSET S, T # {}, T \ {Chosen(T)} \in G PROVE T \in G
  <2>1. Total(f, T) = f[Chosen(T)] + Total(f, T \ {Chosen(T)})
    BY <1>2, TotalChosen, FS_Subset
  <2>2. Total(g, T) = g[Chosen(T)] + Total(g, T \ {Chosen(T)})
    BY <1>2, TotalChosen, FS_Subset
  <2>3. f[Chosen(T)] = g[Chosen(T)]
    BY <1>2, ChosenIn
  <2> QED
    BY <1>2, <2>1, <2>2, <2>3
<1>3. G \in SUBSET (SUBSET S)
  OBVIOUS
<1>4. S \in G
  <2> HIDE DEF G
  <2> QED BY <1>1, <1>2, <1>3, SetsGrow
<1> QED
  BY <1>4

(* Any element may be added last. *)
LEMMA TotalRemove ==
  ASSUME NEW f, NEW S, IsFiniteSet(S), \A y \in S : f[y] \in Int, NEW x \in S
  PROVE  Total(f, S) = f[x] + Total(f, S \ {x})
<1> DEFINE G == {T \in SUBSET S : \A y \in T : Total(f, T) = f[y] + Total(f, T \ {y})}
<1>1. ASSUME NEW T \in SUBSET S, \A U \in SUBSET T : U # T => U \in G
      PROVE  T \in G
  <2> SUFFICES ASSUME NEW y \in T PROVE Total(f, T) = f[y] + Total(f, T \ {y})
    OBVIOUS
  <2> DEFINE p == Chosen(T)
             R == (T \ {p}) \ {y}
  <2>1. p \in T /\ Total(f, T) = f[p] + Total(f, T \ {p})
    BY ChosenIn, TotalChosen, FS_Subset
  <2> SUFFICES ASSUME y # p PROVE Total(f, T) = f[y] + Total(f, T \ {y})
    BY <2>1
  <2>2. Total(f, T \ {p}) = f[y] + Total(f, R)
    BY <1>1, <2>1
  <2>3. (T \ {y}) \ {p} = R
    OBVIOUS
  <2>4. Total(f, T \ {y}) = f[p] + Total(f, R)
    BY <1>1, <2>1, <2>3
  <2>5. f[p] \in Int /\ f[y] \in Int
    BY <2>1
  <2>6. Total(f, R) \in Int
    BY TotalInt, FS_Subset
  <2> HIDE DEF p, R
  <2> QED
    BY <2>1, <2>2, <2>4, <2>5, <2>6
<1>2. G \in SUBSET (SUBSET S)
  OBVIOUS
<1>3. S \in G
  <2> HIDE DEF G
  <2> QED BY <1>1, <1>2, SubsetInduction
<1> QED
  BY <1>3

(* One value of the function changes. *)
LEMMA TotalChange ==
  ASSUME NEW f, NEW g, NEW S, IsFiniteSet(S), NEW x \in S,
         \A y \in S : f[y] \in Int /\ g[y] \in Int,
         \A y \in S : y # x => g[y] = f[y]
  PROVE  Total(g, S) = Total(f, S) + g[x] - f[x]
<1>1. Total(f, S) = f[x] + Total(f, S \ {x})
  BY TotalRemove
<1>2. Total(g, S) = g[x] + Total(g, S \ {x})
  BY TotalRemove
<1>3. Total(f, S \ {x}) = Total(g, S \ {x})
  BY TotalSame, FS_Subset
<1>4. Total(f, S \ {x}) \in Int
  BY TotalInt, FS_Subset
<1> QED
  BY <1>1, <1>2, <1>3, <1>4

(* One more element. *)
LEMMA TotalAdd ==
  ASSUME NEW f, NEW S, IsFiniteSet(S), NEW x, x \notin S,
         \A y \in S \cup {x} : f[y] \in Int
  PROVE  Total(f, S \cup {x}) = f[x] + Total(f, S)
<1>1. IsFiniteSet(S \cup {x}) /\ (S \cup {x}) \ {x} = S
  BY FS_AddElement
<1> QED
  BY <1>1, TotalRemove
=============================================================================
