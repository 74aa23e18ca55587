----------------------------- MODULE ReportsProofs -----------------------------
(***************************************************************************)
(* Proofs about Reports, for any accounts, categories and amounts, any     *)
(* years from 100 on, any page size and any number of entries and writes.  *)
(*                                                                         *)
(* The answers are sums over the entries, so the first part proves what    *)
(* sums over finite sets are, by induction over the subsets of a set.  The *)
(* second proves the calendar, from the lengths of the months and the leap *)
(* rule.  With both, BooksReconcile holds of any entries of the right      *)
(* type, and the transfers of any moment cancel out.  What is left is what *)
(* happens between the reads of a request: every step is a request that    *)
(* comes in, one of its reads, its answer, or a write (ReportsStepKinds),  *)
(* and ReportsInv says what a read returned is good for under any writes   *)
(* that follow.                                                            *)
(***************************************************************************)
EXTENDS Reports, FiniteSetTheorems, TLAPS

-----------------------------------------------------------------------------
(***************************************************************************)
(* Induction over finite sets, for a set of sets instead of a predicate:   *)
(* over all smaller subsets at once, or one element at a time.             *)
(***************************************************************************)
LEMMA SubsetInduction ==
  ASSUME NEW S, IsFiniteSet(S), NEW G \in SUBSET SUBSET S,
         \A T \in SUBSET S : (\A U \in SUBSET T : U # T => U \in G) => T \in G
  PROVE  S \in G
<1>. SUFFICES ASSUME S \notin G PROVE FALSE
  OBVIOUS
<1>. DEFINE B == (SUBSET S) \ G
<1>1. IsWellFoundedOn(StrictSubsetOrdering(S), SUBSET S)
  <2>1. IsWellFoundedOn(StrictSubsetOrdering(S), FiniteSubsetsOf(S))
    BY FS_StrictSubsetOrderingWellFounded
  <2>2. FiniteSubsetsOf(S) = SUBSET S
    BY FS_FiniteSubsetsOfFinite
  <2>. QED
    BY <2>1, <2>2
<1>a. B \subseteq SUBSET S /\ B # {}
  OBVIOUS
<1>2. PICK T \in B : \A U \in B : <<U, T>> \notin StrictSubsetOrdering(S)
  <2>. HIDE DEF B
  <2>. QED
    BY <1>1, <1>a, WFMin
<1>3. \A U \in SUBSET T : U # T => U \in G
  BY <1>2 DEF StrictSubsetOrdering
<1>. QED
  BY <1>3

LEMMA SetInduction ==
  ASSUME NEW S, IsFiniteSet(S), NEW G \in SUBSET SUBSET S,
         {} \in G, \A T \in G : \A x \in S \ T : T \cup {x} \in G
  PROVE  S \in G
<1>1. ASSUME NEW T \in SUBSET S, \A U \in SUBSET T : U # T => U \in G PROVE T \in G
  <2>1. CASE T = {}
    BY <2>1
  <2>2. ASSUME NEW x \in T PROVE T \in G
    <3>1. T \ {x} \in G /\ T = (T \ {x}) \cup {x} /\ x \in S \ (T \ {x})
      BY <1>1
    <3>. QED
      BY <3>1
  <2>. QED
    BY <2>1, <2>2
<1>. QED
  BY <1>1, SubsetInduction

-----------------------------------------------------------------------------
(* Sums over a finite set. *)

(* The element a sum takes first. *)
Chosen(s) == CHOOSE x \in s : TRUE

(* iter is the recursive function behind SumFunctionOnSet(f, S). *)
Iterates(iter, f, S) ==
  iter = [s \in SUBSET S |-> IF s = {} THEN 0 ELSE f[Chosen(s)] + iter[s \ {Chosen(s)}]]

LEMMA ChosenIn == \A s : s # {} => Chosen(s) \in s
  BY DEF Chosen

(* Removing an element makes a finite set smaller. *)
LEMMA OneLess ==
  ASSUME NEW s, IsFiniteSet(s), NEW x \in s
  PROVE  /\ IsFiniteSet(s \ {x})
         /\ Cardinality(s) \in Nat /\ Cardinality(s \ {x}) \in Nat
         /\ Cardinality(s) = Cardinality(s \ {x}) + 1
<1>1. IsFiniteSet(s \ {x}) /\ Cardinality(s \ {x}) = Cardinality(s) - 1
  BY FS_RemoveElement
<1>2. Cardinality(s) \in Nat /\ Cardinality(s \ {x}) \in Nat
  BY <1>1, FS_CardinalityType
<1>. QED
  BY <1>1, <1>2

LEMMA OneMore ==
  ASSUME NEW s, IsFiniteSet(s), NEW x, x \notin s
  PROVE  /\ IsFiniteSet(s \cup {x})
         /\ Cardinality(s) \in Nat
         /\ Cardinality(s \cup {x}) = Cardinality(s) + 1
  BY FS_AddElement, FS_CardinalityType

(* The recursion has a solution. *)
LEMMA IterExists ==
  ASSUME NEW f, NEW S, IsFiniteSet(S)
  PROVE  \E iter : Iterates(iter, f, S)
<1>. DEFINE Good(g, n) ==
         \A s \in SUBSET S : Cardinality(s) <= n =>
           g[s] = IF s = {} THEN 0 ELSE f[Chosen(s)] + g[s \ {Chosen(s)}]
     G == {T \in SUBSET S : \E g : Good(g, Cardinality(T))}
<1>0. \A s \in SUBSET S : IsFiniteSet(s) /\ Cardinality(s) \in Nat
  BY FS_Subset, FS_CardinalityType
<1>1. {} \in G
  <2>1. \A s \in SUBSET S : Cardinality(s) <= 0 => s = {}
    BY <1>0, FS_EmptySet
  <2>2. Good([s \in SUBSET S |-> 0], Cardinality({}))
    BY <2>1, FS_EmptySet
  <2>. QED
    BY <2>2
<1>2. ASSUME NEW T \in G, NEW x \in S \ T PROVE T \cup {x} \in G
  <2>1. PICK g : Good(g, Cardinality(T))
    OBVIOUS
  <2>. DEFINE h == [s \in SUBSET S |->
         IF Cardinality(s) <= Cardinality(T) THEN g[s]
         ELSE f[Chosen(s)] + g[s \ {Chosen(s)}]]
  <2>2. Cardinality(T) \in Nat /\ Cardinality(T \cup {x}) = Cardinality(T) + 1
    BY <1>0, OneMore
  <2>3. ASSUME NEW s \in SUBSET S, Cardinality(s) <= Cardinality(T) + 1
        PROVE  h[s] = IF s = {} THEN 0 ELSE f[Chosen(s)] + h[s \ {Chosen(s)}]
    <3>1. CASE s = {}
      BY <3>1, <2>1, <2>2, FS_EmptySet
    <3>2. CASE s # {}
      <4>1. Chosen(s) \in s /\ s \ {Chosen(s)} \in SUBSET S
        BY <3>2, ChosenIn
      <4>2. Cardinality(s \ {Chosen(s)}) + 1 = Cardinality(s)
            /\ Cardinality(s \ {Chosen(s)}) \in Nat /\ Cardinality(s) \in Nat
        BY <4>1, <1>0, OneLess
      <4>3. h[s \ {Chosen(s)}] = g[s \ {Chosen(s)}]
        BY <4>1, <4>2, <2>2, <2>3
      <4>4. h[s] = f[Chosen(s)] + g[s \ {Chosen(s)}]
        BY <3>2, <2>1, <4>2
      <4>. QED
        BY <3>2, <4>3, <4>4
    <3>. QED
      BY <3>1, <3>2
  <2>4. Good(h, Cardinality(T \cup {x}))
    BY <2>2, <2>3
  <2>. QED
    BY <2>4
<1>3. S \in G
  BY <1>1, <1>2, SetInduction
<1>4. PICK g : Good(g, Cardinality(S))
  BY <1>3
<1>5. Iterates([s \in SUBSET S |-> g[s]], f, S)
  <2>1. \A s \in SUBSET S : Cardinality(s) <= Cardinality(S)
    BY FS_Subset
  <2>2. \A s \in SUBSET S : s \ {Chosen(s)} \in SUBSET S
    OBVIOUS
  <2>. QED
    BY <1>4, <2>1, <2>2 DEF Iterates
<1>. QED
  BY <1>5

(* Two solutions agree wherever both are defined. *)
LEMMA IterUnique ==
  ASSUME NEW f, NEW S, NEW T, NEW g, NEW h, NEW s, IsFiniteSet(s),
         s \subseteq S, s \subseteq T, Iterates(g, f, S), Iterates(h, f, T)
  PROVE  g[s] = h[s]
<1>. DEFINE G == {u \in SUBSET s : g[u] = h[u]}
<1>1. \A u \in SUBSET s :
        /\ g[u] = IF u = {} THEN 0 ELSE f[Chosen(u)] + g[u \ {Chosen(u)}]
        /\ h[u] = IF u = {} THEN 0 ELSE f[Chosen(u)] + h[u \ {Chosen(u)}]
  BY DEF Iterates
<1>2. ASSUME NEW u \in SUBSET s, \A v \in SUBSET u : v # u => v \in G PROVE u \in G
  <2>1. CASE u = {}
    BY <2>1, <1>1
  <2>2. CASE u # {}
    <3>1. u \ {Chosen(u)} \in G
      BY <2>2, <1>2, ChosenIn
    <3>. QED
      BY <2>2, <3>1, <1>1
  <2>. QED
    BY <2>1, <2>2
<1>b. G \in SUBSET SUBSET s /\ \A u \in SUBSET s : (\A w \in SUBSET u : w # u => w \in G) => u \in G
  BY <1>2
<1>. HIDE DEF G
<1>c. s \in G
  BY <1>b, SubsetInduction
<1>. QED
  BY <1>c DEF G

(* What SumFunctionOnSet unfolds to. *)
LEMMA SumIterates ==
  ASSUME NEW f, NEW S, IsFiniteSet(S)
  PROVE  \E iter : Iterates(iter, f, S) /\ SumFunctionOnSet(f, S) = iter[S]
<1>. DEFINE iter == CHOOSE g : Iterates(g, f, S)
<1>1. Iterates(iter, f, S)
  BY IterExists
<1>2. SumFunctionOnSet(f, S) = iter[S]
  BY DEF SumFunctionOnSet, FoldFunctionOnSet, MapThenFoldSet, Iterates, Chosen
<1>. QED
  BY <1>1, <1>2

LEMMA SumOfNone == ASSUME NEW f PROVE SumFunctionOnSet(f, {}) = 0
<1>1. PICK g : Iterates(g, f, {}) /\ SumFunctionOnSet(f, {}) = g[{}]
  BY SumIterates, FS_EmptySet
<1>. QED
  BY <1>1 DEF Iterates

LEMMA SumTakesChosen ==
  ASSUME NEW f, NEW S, IsFiniteSet(S), S # {}
  PROVE  SumFunctionOnSet(f, S) = f[Chosen(S)] + SumFunctionOnSet(f, S \ {Chosen(S)})
<1>. DEFINE T == S \ {Chosen(S)}
<1>1. PICK g : Iterates(g, f, S) /\ SumFunctionOnSet(f, S) = g[S]
  BY SumIterates
<1>2. IsFiniteSet(T) /\ T \subseteq S
  BY FS_Subset
<1>3. PICK h : Iterates(h, f, T) /\ SumFunctionOnSet(f, T) = h[T]
  BY <1>2, SumIterates
<1>4. g[T] = h[T]
  BY <1>1, <1>2, <1>3, IterUnique
<1>5. g[S] = f[Chosen(S)] + g[T]
  BY <1>1 DEF Iterates
<1>. QED
  BY <1>1, <1>3, <1>4, <1>5

(* A sum of integers is one, and not negative if none of them is. *)
LEMMA SumType ==
  ASSUME NEW S, IsFiniteSet(S), NEW f, \A x \in S : f[x] \in Int
  PROVE  /\ SumFunctionOnSet(f, S) \in Int
         /\ (\A x \in S : f[x] >= 0) => SumFunctionOnSet(f, S) >= 0
<1>. DEFINE G == {u \in SUBSET S :
                   /\ SumFunctionOnSet(f, u) \in Int
                   /\ (\A x \in S : f[x] >= 0) => SumFunctionOnSet(f, u) >= 0}
<1>2. ASSUME NEW u \in SUBSET S, \A v \in SUBSET u : v # u => v \in G PROVE u \in G
  <2>1. CASE u = {}
    BY <2>1, SumOfNone
  <2>2. CASE u # {}
    <3>1. Chosen(u) \in u /\ u \ {Chosen(u)} \in G
      BY <2>2, <1>2, ChosenIn
    <3>2. SumFunctionOnSet(f, u) = f[Chosen(u)] + SumFunctionOnSet(f, u \ {Chosen(u)})
      BY <2>2, FS_Subset, SumTakesChosen
    <3>. QED
      BY <3>1, <3>2
  <2>. QED
    BY <2>1, <2>2
<1>b. G \in SUBSET SUBSET S /\ \A u \in SUBSET S : (\A w \in SUBSET u : w # u => w \in G) => u \in G
  BY <1>2
<1>. HIDE DEF G
<1>c. S \in G
  BY <1>b, SubsetInduction
<1>. QED
  BY <1>c DEF G

(* Any element may be taken first. *)
LEMMA SumTakes ==
  ASSUME NEW S, IsFiniteSet(S), NEW f, \A x \in S : f[x] \in Int
  PROVE  \A x \in S : SumFunctionOnSet(f, S) = f[x] + SumFunctionOnSet(f, S \ {x})
<1>. DEFINE G == {u \in SUBSET S :
       \A x \in u : SumFunctionOnSet(f, u) = f[x] + SumFunctionOnSet(f, u \ {x})}
<1>1. \A u \in SUBSET S : IsFiniteSet(u) /\ SumFunctionOnSet(f, u) \in Int
  BY FS_Subset, SumType
<1>2. ASSUME NEW u \in SUBSET S, \A v \in SUBSET u : v # u => v \in G, NEW x \in u
      PROVE  SumFunctionOnSet(f, u) = f[x] + SumFunctionOnSet(f, u \ {x})
  <2>. DEFINE p == Chosen(u)
  <2>1. p \in u
    BY ChosenIn
  <2>2. SumFunctionOnSet(f, u) = f[p] + SumFunctionOnSet(f, u \ {p})
    BY <1>1, SumTakesChosen
  <2>. HIDE DEF p
  <2>3. CASE x = p
    BY <2>2, <2>3
  <2>4. CASE x # p
    <3>1. u \ {p} \in G /\ x \in u \ {p} /\ u \ {x} \in G /\ p \in u \ {x}
      BY <2>1, <2>4, <1>2
    <3>2. (u \ {p}) \ {x} = (u \ {x}) \ {p}
      OBVIOUS
    <3>3. SumFunctionOnSet(f, u \ {p}) = f[x] + SumFunctionOnSet(f, (u \ {p}) \ {x})
      BY <3>1
    <3>4. SumFunctionOnSet(f, u \ {x}) = f[p] + SumFunctionOnSet(f, (u \ {p}) \ {x})
      BY <3>1, <3>2
    <3>5. f[x] \in Int /\ f[p] \in Int /\ SumFunctionOnSet(f, (u \ {p}) \ {x}) \in Int
      BY <1>1, <2>1
    <3>. QED
      BY <2>2, <3>3, <3>4, <3>5
  <2>. QED
    BY <2>3, <2>4
<1>b. G \in SUBSET SUBSET S /\ \A u \in SUBSET S : (\A w \in SUBSET u : w # u => w \in G) => u \in G
  BY <1>2
<1>. HIDE DEF G
<1>c. S \in G
  BY <1>b, SubsetInduction
<1>. QED
  BY <1>c DEF G

LEMMA SumAdds ==
  ASSUME NEW S, IsFiniteSet(S), NEW f, \A y \in S : f[y] \in Int,
         NEW x, x \notin S, f[x] \in Int
  PROVE  SumFunctionOnSet(f, S \cup {x}) = f[x] + SumFunctionOnSet(f, S)
<1>1. IsFiniteSet(S \cup {x}) /\ (S \cup {x}) \ {x} = S
  BY FS_AddElement
<1>. QED
  BY <1>1, SumTakes

(* Sums of the same terms are the same. *)
LEMMA SumSame ==
  ASSUME NEW S, IsFiniteSet(S), NEW f, NEW g, \A x \in S : f[x] = g[x]
  PROVE  SumFunctionOnSet(f, S) = SumFunctionOnSet(g, S)
<1>. DEFINE G == {u \in SUBSET S : SumFunctionOnSet(f, u) = SumFunctionOnSet(g, u)}
<1>1. ASSUME NEW u \in SUBSET S, \A v \in SUBSET u : v # u => v \in G PROVE u \in G
  <2>1. CASE u = {}
    BY <2>1, SumOfNone
  <2>2. CASE u # {}
    <3>1. Chosen(u) \in u /\ u \ {Chosen(u)} \in G
      BY <2>2, <1>1, ChosenIn
    <3>2. IsFiniteSet(u)
      BY FS_Subset
    <3>3. SumFunctionOnSet(f, u) = f[Chosen(u)] + SumFunctionOnSet(f, u \ {Chosen(u)})
      BY <2>2, <3>2, SumTakesChosen
    <3>4. SumFunctionOnSet(g, u) = g[Chosen(u)] + SumFunctionOnSet(g, u \ {Chosen(u)})
      BY <2>2, <3>2, SumTakesChosen
    <3>. QED
      BY <3>1, <3>3, <3>4
  <2>. QED
    BY <2>1, <2>2
<1>b. G \in SUBSET SUBSET S /\ \A u \in SUBSET S : (\A w \in SUBSET u : w # u => w \in G) => u \in G
  BY <1>1
<1>. HIDE DEF G
<1>c. S \in G
  BY <1>b, SubsetInduction
<1>. QED
  BY <1>c DEF G

(* A sum of differences is the difference of the sums. *)
LEMMA SumMinus ==
  ASSUME NEW S, IsFiniteSet(S), NEW f, NEW g, NEW h,
         \A x \in S : f[x] \in Int /\ g[x] \in Int /\ h[x] = f[x] - g[x]
  PROVE  SumFunctionOnSet(h, S) = SumFunctionOnSet(f, S) - SumFunctionOnSet(g, S)
<1>. DEFINE G == {u \in SUBSET S :
       SumFunctionOnSet(h, u) = SumFunctionOnSet(f, u) - SumFunctionOnSet(g, u)}
<1>1. {} \in G
  BY SumOfNone
<1>2. ASSUME NEW T \in G, NEW x \in S \ T PROVE T \cup {x} \in G
  <2>1. IsFiniteSet(T)
    BY FS_Subset
  <2>2. /\ SumFunctionOnSet(f, T \cup {x}) = f[x] + SumFunctionOnSet(f, T)
        /\ SumFunctionOnSet(g, T \cup {x}) = g[x] + SumFunctionOnSet(g, T)
        /\ SumFunctionOnSet(h, T \cup {x}) = h[x] + SumFunctionOnSet(h, T)
    BY <2>1, SumAdds
  <2>3. SumFunctionOnSet(f, T) \in Int /\ SumFunctionOnSet(g, T) \in Int
    BY <2>1, SumType
  <2>. QED
    BY <2>2, <2>3
<1>3. S \in G
  BY <1>1, <1>2, SetInduction
<1>. QED
  BY <1>3

(* The sum over a set is that over a part of it and that over the rest. *)
LEMMA SumSplits ==
  ASSUME NEW S, IsFiniteSet(S), NEW f, \A x \in S : f[x] \in Int, NEW T \in SUBSET S
  PROVE  SumFunctionOnSet(f, S) = SumFunctionOnSet(f, T) + SumFunctionOnSet(f, S \ T)
<1>. DEFINE R == S \ T
     G == {u \in SUBSET R :
       SumFunctionOnSet(f, T \cup u) = SumFunctionOnSet(f, T) + SumFunctionOnSet(f, u)}
<1>0. \A u \in SUBSET S : IsFiniteSet(u) /\ SumFunctionOnSet(f, u) \in Int
  BY FS_Subset, SumType
<1>1. {} \in G
  <2>1. T \cup {} = T /\ SumFunctionOnSet(f, T) \in Int
    BY <1>0
  <2>. QED
    BY <2>1, SumOfNone
<1>2. ASSUME NEW u \in G, NEW x \in R \ u PROVE u \cup {x} \in G
  <2>1. T \cup u \in SUBSET S /\ u \in SUBSET S /\ x \notin T \cup u /\ x \notin u
    OBVIOUS
  <2>2. SumFunctionOnSet(f, u \cup {x}) = f[x] + SumFunctionOnSet(f, u)
    BY <2>1, <1>0, SumAdds
  <2>3. SumFunctionOnSet(f, (T \cup u) \cup {x}) = f[x] + SumFunctionOnSet(f, T \cup u)
    BY <2>1, <1>0, SumAdds
  <2>4. T \cup (u \cup {x}) = (T \cup u) \cup {x}
    OBVIOUS
  <2>5. f[x] \in Int /\ SumFunctionOnSet(f, u) \in Int /\ SumFunctionOnSet(f, T) \in Int
    BY <2>1, <1>0
  <2>. QED
    <3>1. SumFunctionOnSet(f, T \cup u) = SumFunctionOnSet(f, T) + SumFunctionOnSet(f, u)
      OBVIOUS
    <3>2. SumFunctionOnSet(f, (T \cup u) \cup {x})
            = SumFunctionOnSet(f, T) + SumFunctionOnSet(f, u \cup {x})
      BY <2>2, <2>3, <2>5, <3>1
    <3>3. SumFunctionOnSet(f, T \cup (u \cup {x})) = SumFunctionOnSet(f, (T \cup u) \cup {x})
      BY <2>4, Zenon
    <3>. QED
      BY <3>2, <3>3
<1>3. G \in SUBSET SUBSET R /\ IsFiniteSet(R)
  BY <1>0
<1>4. R \in G
  <2>. HIDE DEF G, R
  <2>. QED
    BY <1>1, <1>2, <1>3, SetInduction
<1>5. T \cup R = S
  OBVIOUS
<1>. QED
  BY <1>4, <1>5

(* What one term adds when the others stay. *)
LEMMA SumChanges ==
  ASSUME NEW S, IsFiniteSet(S), NEW f, NEW g, NEW x \in S,
         \A y \in S : f[y] \in Int /\ g[y] \in Int, \A y \in S \ {x} : f[y] = g[y]
  PROVE  SumFunctionOnSet(g, S) = SumFunctionOnSet(f, S) + (g[x] - f[x])
<1>1. IsFiniteSet(S \ {x})
  BY FS_Subset
<1>2. SumFunctionOnSet(f, S \ {x}) = SumFunctionOnSet(g, S \ {x})
  BY <1>1, SumSame
<1>3. SumFunctionOnSet(f, S \ {x}) \in Int
  BY <1>1, SumType
<1>4. /\ SumFunctionOnSet(f, S) = f[x] + SumFunctionOnSet(f, S \ {x})
      /\ SumFunctionOnSet(g, S) = g[x] + SumFunctionOnSet(g, S \ {x})
  BY SumTakes
<1>. QED
  BY <1>2, <1>3, <1>4

(* A sum of zeros is zero. *)
LEMMA SumOfZeros ==
  ASSUME NEW S, IsFiniteSet(S), NEW f, \A x \in S : f[x] = 0
  PROVE  SumFunctionOnSet(f, S) = 0
<1>. DEFINE G == {u \in SUBSET S : SumFunctionOnSet(f, u) = 0}
<1>1. {} \in G
  BY SumOfNone
<1>2. ASSUME NEW T \in G, NEW x \in S \ T PROVE T \cup {x} \in G
  <2>1. IsFiniteSet(T)
    BY FS_Subset
  <2>2. SumFunctionOnSet(f, T \cup {x}) = f[x] + SumFunctionOnSet(f, T)
    BY <2>1, SumAdds
  <2>. QED
    BY <2>2
<1>3. S \in G
  BY <1>1, <1>2, SetInduction
<1>. QED
  BY <1>3

(* Those of S with the key k. *)
OfKey(S, key, k) == {x \in S : key[x] = k}

(* Summing what belongs to each key, then over the keys, is summing all.   *)
LEMMA SumByKey ==
  ASSUME NEW S, IsFiniteSet(S), NEW f, \A x \in S : f[x] \in Int,
         NEW K, IsFiniteSet(K), NEW key, \A x \in S : key[x] \in K,
         NEW sums, \A k \in K : sums[k] = SumFunctionOnSet(f, OfKey(S, key, k))
  PROVE  SumFunctionOnSet(sums, K) = SumFunctionOnSet(f, S)
<1>. DEFINE Of(u) == [k \in K |-> SumFunctionOnSet(f, {x \in u : key[x] = k})]
     G == {u \in SUBSET S : SumFunctionOnSet(Of(u), K) = SumFunctionOnSet(f, u)}
<1>0. \A u \in SUBSET S : IsFiniteSet(u) /\ SumFunctionOnSet(f, u) \in Int
  BY FS_Subset, SumType
<1>1. {} \in G
  <2>1. \A k \in K : {x \in {} : key[x] = k} = {}
    OBVIOUS
  <2>2. \A k \in K : Of({})[k] = 0
    BY <2>1, SumOfNone
  <2>. HIDE DEF Of
  <2>3. SumFunctionOnSet(Of({}), K) = 0
    BY <2>2, SumOfZeros
  <2>. QED
    BY <2>3, SumOfNone
<1>2. ASSUME NEW u \in G, NEW x \in S \ u PROVE u \cup {x} \in G
  <2>. DEFINE v == u \cup {x}  c == key[x]
  <2>1. u \in SUBSET S /\ v \in SUBSET S /\ c \in K /\ x \notin u /\ f[x] \in Int
    OBVIOUS
  <2>2. \A k \in K : {y \in u : key[y] = k} \in SUBSET S /\ {y \in v : key[y] = k} \in SUBSET S
    BY <2>1
  <2>3. \A k \in K : Of(u)[k] \in Int /\ Of(v)[k] \in Int
    BY <2>2, <1>0
  <2>4. \A k \in K \ {c} : {y \in u : key[y] = k} = {y \in v : key[y] = k}
    OBVIOUS
  <2>5. \A k \in K \ {c} : Of(u)[k] = Of(v)[k]
    BY <2>4
  <2>6. Of(v)[c] = Of(u)[c] + f[x]
    <3>. DEFINE w == {y \in u : key[y] = c}  w2 == {y \in v : key[y] = c}
    <3>1. w2 = w \cup {x} /\ x \notin w /\ w \in SUBSET S
      BY <2>1
    <3>2. Of(v)[c] = SumFunctionOnSet(f, w2) /\ Of(u)[c] = SumFunctionOnSet(f, w)
      BY <2>1
    <3>. HIDE DEF Of, v, w, w2, c
    <3>3. SumFunctionOnSet(f, w \cup {x}) = f[x] + SumFunctionOnSet(f, w)
      BY <3>1, <2>1, <1>0, SumAdds
    <3>4. SumFunctionOnSet(f, w) \in Int
      BY <3>1, <1>0
    <3>5. SumFunctionOnSet(f, w2) = SumFunctionOnSet(f, w \cup {x})
      BY <3>1, Zenon
    <3>. QED
      BY <3>2, <3>3, <3>4, <3>5, <2>1
  <2>7. SumFunctionOnSet(Of(u), K) = SumFunctionOnSet(f, u)
    OBVIOUS
  <2>8. SumFunctionOnSet(f, v) = f[x] + SumFunctionOnSet(f, u)
    BY <2>1, <1>0, SumAdds
  <2>9. SumFunctionOnSet(f, u) \in Int
    BY <1>0, <2>1
  <2>10. SumFunctionOnSet(Of(v), K) = SumFunctionOnSet(Of(u), K) + (Of(v)[c] - Of(u)[c])
    <3>. DEFINE a == Of(u)  b == Of(v)
    <3>1. \A k \in K : a[k] \in Int /\ b[k] \in Int
      BY <2>3
    <3>2. \A k \in K \ {c} : a[k] = b[k]
      BY <2>5
    <3>. HIDE DEF a, b, c, G
    <3>3. SumFunctionOnSet(b, K) = SumFunctionOnSet(a, K) + (b[c] - a[c])
      BY <2>1, <3>1, <3>2, SumChanges
    <3>. QED
      BY <3>3 DEF a, b
  <2>. HIDE DEF Of, v, c
  <2>11. SumFunctionOnSet(Of(v), K) = SumFunctionOnSet(f, v)
    BY <2>1, <2>3, <2>6, <2>7, <2>8, <2>9, <2>10
  <2>. QED
    BY <2>1, <2>11 DEF v
<1>3. S \in G
  BY <1>1, <1>2, SetInduction
<1>4. \A k \in K : Of(S)[k] = sums[k]
  BY DEF OfKey
<1>5. SumFunctionOnSet(Of(S), K) = SumFunctionOnSet(f, S)
  BY <1>3
<1>. HIDE DEF Of
<1>. QED
  BY <1>4, <1>5, SumSame

-----------------------------------------------------------------------------
(* The calendar. *)

LEMMA MonthTable ==
  /\ DaysBefore[1] = 0 /\ DaysBefore[2] = 31 /\ DaysBefore[3] = 59 /\ DaysBefore[4] = 90
  /\ DaysBefore[5] = 120 /\ DaysBefore[6] = 151 /\ DaysBefore[7] = 181 /\ DaysBefore[8] = 212
  /\ DaysBefore[9] = 243 /\ DaysBefore[10] = 273 /\ DaysBefore[11] = 304 /\ DaysBefore[12] = 334
  BY DEF DaysBefore

(* The first of January of each year. *)
YearStart(y) == 365 * (y - 1) + ((y - 1) \div 4) - ((y - 1) \div 100) + ((y - 1) \div 400)

LEMMA YearStarts ==
  ASSUME NEW y \in Nat \ {0}
  PROVE  /\ YearStart(y) \in Nat
         /\ YearStart(y + 1) = YearStart(y) + 365 + (IF Leap(y) THEN 1 ELSE 0)
  BY DEF YearStart, Leap

LEMMA YearsInOrder ==
  ASSUME NEW y \in Nat \ {0}, NEW z \in Nat \ {0}, y <= z
  PROVE  YearStart(y) <= YearStart(z)
  BY DEF YearStart

LEMMA UtcFirst ==
  ASSUME NEW y \in Nat \ {0}, NEW m \in 1 .. 12
  PROVE  /\ Utc(y, m - 1, 1) = DayNumber(y, m, 1)
         /\ m < 12 => Utc(y, m, 1) = DayNumber(y, m + 1, 1)
         /\ m = 12 => Utc(y, m, 1) = DayNumber(y + 1, 1, 1)
  BY DEF Utc

LEMMA DayNumberIs ==
  ASSUME NEW y \in Nat \ {0}, NEW m \in 1 .. 12, NEW d \in Nat
  PROVE  DayNumber(y, m, d)
           = YearStart(y) + DaysBefore[m] + (IF m > 2 /\ Leap(y) THEN 1 ELSE 0) + d
  BY DEF DayNumber, YearStart

(* A month is of at most 31 days of its year. *)
LEMMA MonthSpan ==
  ASSUME NEW y \in Nat \ {0}, NEW m \in 1 .. 12
  PROVE  /\ DayNumber(y, m, 1) \in Nat /\ Utc(y, m, 1) \in Nat
         /\ YearStart(y) < DayNumber(y, m, 1)
         /\ DayNumber(y, m, 1) < Utc(y, m, 1)
         /\ Utc(y, m, 1) <= DayNumber(y, m, 1) + 31
         /\ Utc(y, m, 1) <= YearStart(y + 1) + 1
<1>. DEFINE leap == IF Leap(y) THEN 1 ELSE 0
<1>1. YearStart(y) \in Nat /\ YearStart(y + 1) = YearStart(y) + 365 + leap /\ leap \in {0, 1}
  BY YearStarts
<1>2. DayNumber(y, m, 1) = YearStart(y) + DaysBefore[m] + (IF m > 2 THEN leap ELSE 0) + 1
  BY DayNumberIs
<1>. HIDE DEF leap
<1>3. CASE m = 12
  <2>1. Utc(y, m, 1) = YearStart(y + 1) + 1
    <3>1. Utc(y, m, 1) = DayNumber(y + 1, 1, 1) /\ y + 1 \in Nat \ {0}
      BY <1>3, UtcFirst
    <3>2. DayNumber(y + 1, 1, 1) = YearStart(y + 1) + DaysBefore[1] + 0 + 1
      BY <3>1 DEF DayNumber, YearStart
    <3>. QED
      BY <3>1, <3>2, MonthTable, YearStarts
  <2>2. DayNumber(y, m, 1) = YearStart(y) + 334 + leap + 1
    BY <1>2, <1>3, MonthTable
  <2>. QED
    BY <1>1, <2>1, <2>2
<1>4. CASE m < 12
  <2>1. Utc(y, m, 1) = YearStart(y) + DaysBefore[m + 1] + (IF m > 1 THEN leap ELSE 0) + 1
    BY <1>4, UtcFirst, DayNumberIs DEF leap
  <2>2. m \in {1, 2, 3, 4, 5, 6, 7, 8, 9, 10, 11}
    BY <1>4
  <2>. QED
    BY <1>1, <1>2, <2>1, <2>2, MonthTable
<1>. QED
  BY <1>3, <1>4

LEMMA BoundsOfMonth ==
  ASSUME NEW p, p.year \in Nat \ {0}, p.month \in 1 .. 12
  PROVE  /\ MonthBounds(p).from = DayNumber(p.year, p.month, 1)
         /\ MonthBounds(p).to = Utc(p.year, p.month, 1)
<1>1. Utc(p.year, p.month - 1, 1) = DayNumber(p.year, p.month, 1)
  BY UtcFirst
<1>. QED
  BY <1>1 DEF MonthBounds

LEMMA MonthsOfYear ==
  ASSUME NEW y \in Nat \ {0}, NEW m \in 1 .. 12, NEW n \in 1 .. 12, m < n
  PROVE  Utc(y, m, 1) <= DayNumber(y, n, 1)
<1>0. m < 12 /\ m + 1 \in 1 .. 12
  OBVIOUS
<1>1. Utc(y, m, 1) = DayNumber(y, m + 1, 1) /\ YearStart(y) \in Nat
  BY <1>0, UtcFirst, YearStarts
<1>2. DayNumber(y, m + 1, 1) = YearStart(y) + DaysBefore[m + 1] + (IF m > 1 /\ Leap(y) THEN 1 ELSE 0) + 1
  BY <1>0, DayNumberIs
<1>3. DayNumber(y, n, 1) = YearStart(y) + DaysBefore[n] + (IF n > 2 /\ Leap(y) THEN 1 ELSE 0) + 1
  BY DayNumberIs
<1>4. DaysBefore[m + 1] <= DaysBefore[n] /\ DaysBefore[m + 1] \in Nat /\ DaysBefore[n] \in Nat
  <2>1. CASE m \in {1, 2, 3, 4}
    BY <2>1, MonthTable
  <2>2. CASE m \in {5, 6, 7, 8}
    BY <2>2, MonthTable
  <2>3. CASE m \in {9, 10, 11}
    BY <2>3, MonthTable
  <2>. QED
    BY <2>1, <2>2, <2>3
<1>. QED
  BY <1>1, <1>2, <1>3, <1>4

LEMMA BoundsApart ==
  ASSUME NEW p, p.year \in Nat \ {0}, p.month \in 1 .. 12,
         NEW q, q.year \in Nat \ {0}, q.month \in 1 .. 12,
         p.year < q.year \/ (p.year = q.year /\ p.month < q.month)
  PROVE  MonthBounds(p).to <= MonthBounds(q).from
<1>1. CASE p.year < q.year
  <2>0. p.year + 1 \in Nat \ {0} /\ p.year + 1 <= q.year
    BY <1>1
  <2>1. YearStart(p.year + 1) <= YearStart(q.year)
    BY <2>0, YearsInOrder
  <2>2. YearStart(p.year + 1) \in Nat /\ YearStart(q.year) \in Nat
    BY <2>0, YearStarts
  <2>3. Utc(p.year, p.month, 1) <= YearStart(p.year + 1) + 1 /\ Utc(p.year, p.month, 1) \in Nat
    BY MonthSpan
  <2>4. YearStart(q.year) < DayNumber(q.year, q.month, 1) /\ DayNumber(q.year, q.month, 1) \in Nat
    BY MonthSpan
  <2>. QED
    BY <2>1, <2>2, <2>3, <2>4, BoundsOfMonth
<1>2. CASE p.year = q.year /\ p.month < q.month
  BY <1>2, MonthsOfYear, BoundsOfMonth
<1>. QED
  BY <1>1, <1>2

LEMMA MonthType ==
  ASSUME NEW p \in Months
  PROVE  p.year \in Nat \ {0} /\ p.month \in 1 .. 12 /\ p = [year |-> p.year, month |-> p.month]
<1>1. p.year \in Years /\ p.month \in 1 .. 12
  BY DEF Months
<1>2. p = [year |-> p.year, month |-> p.month]
  BY DEF Months
<1>4. \A y \in Years : y \in Nat /\ y > 99
  BY ReportsAssumption DEF ReportsAssumption
<1>5. \A y \in Years : y \in Nat \ {0}
  BY <1>4
<1>. QED
  BY <1>1, <1>2, <1>5, Zenon

(* A day lies in one month at most. *)
LEMMA OneMonth ==
  ASSUME NEW p \in Months, NEW q \in Months, NEW day \in Int, Within(day, p), Within(day, q)
  PROVE  p = q
<1>1. /\ DayNumber(p.year, p.month, 1) <= day /\ day < Utc(p.year, p.month, 1)
      /\ DayNumber(q.year, q.month, 1) <= day /\ day < Utc(q.year, q.month, 1)
  BY MonthType, BoundsOfMonth DEF Within
<1>0. /\ p.year \in Nat \ {0} /\ p.month \in 1 .. 12
      /\ q.year \in Nat \ {0} /\ q.month \in 1 .. 12
  BY MonthType
<1>5. /\ DayNumber(p.year, p.month, 1) \in Nat /\ Utc(p.year, p.month, 1) \in Nat
      /\ DayNumber(q.year, q.month, 1) \in Nat /\ Utc(q.year, q.month, 1) \in Nat
  BY <1>0, MonthSpan
<1>6. /\ MonthBounds(p).from = DayNumber(p.year, p.month, 1) /\ MonthBounds(p).to = Utc(p.year, p.month, 1)
      /\ MonthBounds(q).from = DayNumber(q.year, q.month, 1) /\ MonthBounds(q).to = Utc(q.year, q.month, 1)
  BY <1>0, BoundsOfMonth
<1>2. ASSUME p.year < q.year \/ (p.year = q.year /\ p.month < q.month) PROVE FALSE
  <2>1. MonthBounds(p).to <= MonthBounds(q).from
    BY <1>0, <1>2, BoundsApart
  <2>. QED
    BY <1>1, <1>5, <1>6, <2>1
<1>3. ASSUME q.year < p.year \/ (q.year = p.year /\ q.month < p.month) PROVE FALSE
  <2>1. MonthBounds(q).to <= MonthBounds(p).from
    BY <1>0, <1>3, BoundsApart
  <2>. QED
    BY <1>1, <1>5, <1>6, <2>1
<1>4. p.year = q.year /\ p.month = q.month
  <2>1. p.year \in Nat /\ p.month \in Nat /\ q.year \in Nat /\ q.month \in Nat
    BY MonthType
  <2>. QED
    BY <1>2, <1>3, <2>1
<1>. QED
  BY <1>4, MonthType

LEMMA DateInItsMonth ==
  ASSUME NEW p \in Months, NEW d \in 1 .. 31
  PROVE  /\ DayNumber(p.year, p.month, d) \in Nat
         /\ IsCalendarDate(p.year, p.month, d) <=> Within(DayNumber(p.year, p.month, d), p)
<1>. DEFINE y == p.year  m == p.month
<1>0. y \in Nat \ {0} /\ m \in 1 .. 12
  BY MonthType
<1>. HIDE DEF y, m
<1>1. DayNumber(y, m, d) = DayNumber(y, m, 1) + (d - 1)
  <2>1. DaysBefore[m] \in Nat
    BY <1>0 DEF DaysBefore
  <2>2. YearStart(y) \in Nat
    BY <1>0, YearStarts
  <2>. QED
    <3>1. /\ DayNumber(y, m, d) = YearStart(y) + DaysBefore[m] + (IF m > 2 /\ Leap(y) THEN 1 ELSE 0) + d
          /\ DayNumber(y, m, 1) = YearStart(y) + DaysBefore[m] + (IF m > 2 /\ Leap(y) THEN 1 ELSE 0) + 1
      BY <1>0, DayNumberIs
    <3>. QED
      BY <3>1, <2>1, <2>2
<1>2. Utc(y, m - 1, d) = DayNumber(y, m, d)
  <2>1. ((m - 1) \div 12) = 0 /\ ((m - 1) % 12) + 1 = m
    BY <1>0
  <2>. QED
    BY <1>0, <2>1 DEF Utc
<1>3. DayNumber(y, m, 1) \in Nat /\ Utc(y, m, 1) \in Nat
  BY <1>0, MonthSpan
<1>4. IsCalendarDate(y, m, d) <=> DayNumber(y, m, d) < Utc(y, m, 1)
  BY <1>0, <1>2 DEF IsCalendarDate
<1>5. MonthBounds(p).from = DayNumber(y, m, 1) /\ MonthBounds(p).to = Utc(y, m, 1)
  BY <1>0, BoundsOfMonth DEF y, m
<1>. QED
  BY <1>1, <1>3, <1>4, <1>5 DEF Within, y, m

(* monthBounds and isCalendarDate agree, in every year: each date lies in  *)
(* its own month and in no other, and a day past the end of its month in   *)
(* the next.                                                               *)
THEOREM CalendarParts == CalendarHolds
<1>. SUFFICES ASSUME NEW p \in Months, NEW d \in 1 .. 31
     PROVE  LET day == DayNumber(p.year, p.month, d) IN
              IsCalendarDate(p.year, p.month, d) <=> {q \in Months : Within(day, q)} = {p}
  BY DEF CalendarHolds
<1>1. DayNumber(p.year, p.month, d) \in Int
  BY DateInItsMonth
<1>. QED
  BY <1>1, DateInItsMonth, OneMonth

-----------------------------------------------------------------------------
(* Sums over the entries. *)

AmountOf == [i \in DOMAIN entries |-> entries[i].amount]

LEMMA EntryType ==
  ASSUME entries \in Seq(Entries)
  PROVE  \A i \in DOMAIN entries :
           /\ entries[i] \in Entries
           /\ entries[i].type \in {"income", "expense", "transfer"}
           /\ entries[i].amount \in Amounts /\ entries[i].day \in Days
           /\ entries[i].account \in Wallets /\ entries[i].to \in Wallets
           /\ entries[i].category \in Sorts \cup {NoSort} /\ entries[i].gone \in BOOLEAN
           /\ entries[i].at \in 0 .. MaxPosts
           /\ entries[i].type # "transfer" => entries[i].account = entries[i].to
  BY DEF Entries

LEMMA DocsFinite ==
  ASSUME entries \in Seq(Entries)
  PROVE  IsFiniteSet(DOMAIN entries) /\ DOMAIN entries \subseteq Nat
<1>1. DOMAIN entries = 1 .. Len(entries) /\ Len(entries) \in Nat
  OBVIOUS
<1>. QED
  BY <1>1, FS_Interval

LEMMA AmountsPositive == \A n \in Amounts : n \in Int /\ n >= 0
  BY ReportsAssumption DEF ReportsAssumption

LEMMA AmountOfType ==
  ASSUME entries \in Seq(Entries)
  PROVE  \A S \in SUBSET DOMAIN entries :
           /\ IsFiniteSet(S)
           /\ \A i \in S : AmountOf[i] \in Int /\ AmountOf[i] >= 0
           /\ SumOf(S) = SumFunctionOnSet(AmountOf, S)
           /\ SumOf(S) \in Int /\ SumOf(S) >= 0
<1>. TAKE S \in SUBSET DOMAIN entries
<1>1. IsFiniteSet(S)
  BY DocsFinite, FS_Subset
<1>2. \A i \in S : AmountOf[i] \in Int /\ AmountOf[i] >= 0
  BY EntryType, AmountsPositive DEF AmountOf
<1>3. SumOf(S) = SumFunctionOnSet(AmountOf, S)
  BY DEF SumOf, AmountOf
<1>. QED
  BY <1>1, <1>2, <1>3, SumType

(* A part of the entries does not add up to more than all of them. *)
LEMMA PartOfSum ==
  ASSUME entries \in Seq(Entries), NEW S \in SUBSET DOMAIN entries, NEW T \in SUBSET S
  PROVE  SumOf(T) <= SumOf(S)
<1>1. /\ IsFiniteSet(S) /\ \A i \in S : AmountOf[i] \in Int
      /\ SumOf(S) = SumFunctionOnSet(AmountOf, S)
  BY AmountOfType
<1>2. SumOf(T) = SumFunctionOnSet(AmountOf, T) /\ SumOf(T) \in Int
  BY AmountOfType
<1>3. S \ T \in SUBSET DOMAIN entries
  OBVIOUS
<1>4. SumFunctionOnSet(AmountOf, S \ T) \in Int /\ SumFunctionOnSet(AmountOf, S \ T) >= 0
  BY <1>3, AmountOfType
<1>5. SumFunctionOnSet(AmountOf, S) = SumFunctionOnSet(AmountOf, T) + SumFunctionOnSet(AmountOf, S \ T)
  BY <1>1, SumSplits
<1>. QED
  BY <1>1, <1>2, <1>4, <1>5

(* Entries summed by a key of theirs. *)
LEMMA EntriesByKey ==
  ASSUME entries \in Seq(Entries), NEW S \in SUBSET DOMAIN entries,
         NEW K, IsFiniteSet(K), NEW key, \A i \in S : key[i] \in K,
         NEW sums, \A k \in K : sums[k] = SumOf(OfKey(S, key, k))
  PROVE  SumFunctionOnSet(sums, K) = SumOf(S)
<1>1. /\ IsFiniteSet(S) /\ \A i \in S : AmountOf[i] \in Int
      /\ SumOf(S) = SumFunctionOnSet(AmountOf, S)
  BY AmountOfType
<1>2. ASSUME NEW k \in K PROVE sums[k] = SumFunctionOnSet(AmountOf, OfKey(S, key, k))
  <2>1. OfKey(S, key, k) \in SUBSET DOMAIN entries
    BY DEF OfKey
  <2>. QED
    BY <2>1, AmountOfType
<1>3. \A k \in K : sums[k] = SumFunctionOnSet(AmountOf, OfKey(S, key, k))
  BY <1>2
<1>4. SumFunctionOnSet(sums, K) = SumFunctionOnSet(AmountOf, S)
  BY <1>1, <1>3, SumByKey
<1>. QED
  BY <1>1, <1>4

LEMMA KeptDocs ==
  ASSUME entries \in Seq(Entries)
  PROVE  Kept(MovementDocs) \in SUBSET DOMAIN entries /\ Kept(TransferDocs) \in SUBSET DOMAIN entries
  BY DEF Kept, MovementDocs, TransferDocs

(* What leaves an account by a transfer arrives at another. *)
LEMMA TransfersCancel ==
  ASSUME entries \in Seq(Entries)
  PROVE  /\ SumFunction([a \in Wallets |-> TransferNet(a)]) = 0
         /\ \A a \in Wallets : TransferNet(a) \in Int
<1>. DEFINE S == Kept(TransferDocs)
     into == [a \in Wallets |-> SumOf({i \in S : entries[i].to = a})]
     outOf == [a \in Wallets |-> SumOf({i \in S : entries[i].account = a})]
     net == [a \in Wallets |-> TransferNet(a)]
     keyTo == [i \in DOMAIN entries |-> entries[i].to]
     keyFrom == [i \in DOMAIN entries |-> entries[i].account]
<1>0. S \in SUBSET DOMAIN entries /\ IsFiniteSet(Wallets)
  BY KeptDocs, ReportsAssumption DEF ReportsAssumption
<1>1. \A a \in Wallets : into[a] \in Int /\ outOf[a] \in Int /\ net[a] = into[a] - outOf[a]
  <2>. TAKE a \in Wallets
  <2>1. {i \in S : entries[i].to = a} \in SUBSET DOMAIN entries
        /\ {i \in S : entries[i].account = a} \in SUBSET DOMAIN entries
    BY <1>0
  <2>2. net[a] = into[a] - outOf[a]
    BY DEF TransferNet
  <2>. HIDE DEF S, net
  <2>. QED
    BY <2>1, <2>2, AmountOfType
<1>2. \A i \in S : keyTo[i] \in Wallets /\ keyFrom[i] \in Wallets
  BY <1>0, EntryType
<1>3. \A a \in Wallets : /\ into[a] = SumOf(OfKey(S, keyTo, a))
                         /\ outOf[a] = SumOf(OfKey(S, keyFrom, a))
  <2>. TAKE a \in Wallets
  <2>1. OfKey(S, keyTo, a) = {i \in S : entries[i].to = a}
        /\ OfKey(S, keyFrom, a) = {i \in S : entries[i].account = a}
    BY <1>0 DEF OfKey
  <2>. HIDE DEF S
  <2>. QED
    BY <2>1
<1>4. SumFunction(net) = SumFunctionOnSet(net, Wallets)
  BY DEF SumFunction
<1>5. \A a \in Wallets : TransferNet(a) = net[a] /\ net[a] \in Int
  <2>1. \A a \in Wallets : TransferNet(a) = net[a]
    OBVIOUS
  <2>. HIDE DEF net, into, outOf
  <2>. QED
    BY <1>1, <2>1
<1>. HIDE DEF S, into, outOf, net, keyTo, keyFrom
<1>6. SumFunctionOnSet(into, Wallets) = SumOf(S)
  <2>1. \A i \in S : keyTo[i] \in Wallets
    BY <1>2
  <2>2. \A a \in Wallets : into[a] = SumOf(OfKey(S, keyTo, a))
    BY <1>3
  <2>. QED
    BY <1>0, <2>1, <2>2, EntriesByKey
<1>9. SumFunctionOnSet(outOf, Wallets) = SumOf(S)
  <2>1. \A i \in S : keyFrom[i] \in Wallets
    BY <1>2
  <2>2. \A a \in Wallets : outOf[a] = SumOf(OfKey(S, keyFrom, a))
    BY <1>3
  <2>. QED
    BY <1>0, <2>1, <2>2, EntriesByKey
<1>7. SumFunctionOnSet(net, Wallets) = SumFunctionOnSet(into, Wallets) - SumFunctionOnSet(outOf, Wallets)
  BY <1>0, <1>1, SumMinus
<1>8. SumOf(S) \in Int
  BY <1>0, AmountOfType
<1>. QED
  BY <1>4, <1>5, <1>6, <1>7, <1>8, <1>9 DEF net

LEMMA MonthsAskedFinite == IsFiniteSet(MonthsAsked) /\ MonthsAsked \subseteq Months
<1>1. IsFiniteSet(Years)
  BY ReportsAssumption DEF ReportsAssumption
<1>2. IsFiniteSet(Years \X (1 .. 12))
  <2>. DEFINE one == 1  twelve == 12
  <2>1. one \in Int /\ twelve \in Int
    OBVIOUS
  <2>. HIDE DEF one, twelve
  <2>2. IsFiniteSet(one .. twelve)
    BY <2>1, FS_Interval
  <2>3. IsFiniteSet(1 .. 12)
    BY <2>2 DEF one, twelve
  <2>. QED
    BY <1>1, <2>3, FS_Product
<1>. DEFINE pair == [p \in Months |-> <<p.year, p.month>>]
<1>3. pair \in Injection(Months, Years \X (1 .. 12))
  BY DEF Injection, IsInjective, Months
<1>4. IsFiniteSet(Months)
  BY <1>2, <1>3, FS_Injection
<1>5. MonthsAsked \subseteq Months
  BY DEF MonthsAsked
<1>. QED
  BY <1>4, <1>5, FS_Subset

(* A day on which something is recorded lies in one month that is asked for. *)
LEMMA DayHasMonth ==
  ASSUME NEW day \in Days
  PROVE  day \in Nat /\ \E p \in MonthsAsked : Within(day, p)
<1>1. PICK p \in Months, d \in 1 .. 31 :
        IsCalendarDate(p.year, p.month, d) /\ day = DayNumber(p.year, p.month, d)
  BY ReportsAssumption DEF ReportsAssumption
<1>2. day \in Nat /\ Within(day, p)
  BY <1>1, DateInItsMonth
<1>. QED
  BY <1>2 DEF MonthsAsked

Gained(type) == {i \in Kept(MovementDocs) : entries[i].type = type}

LEMMA GainedIn ==
  ASSUME entries \in Seq(Entries), NEW type
  PROVE  Gained(type) \in SUBSET DOMAIN entries
  BY KeptDocs DEF Gained

(* What movements leave on the accounts is the income less the expense. *)
LEMMA AccountsAddUp ==
  ASSUME entries \in Seq(Entries)
  PROVE  /\ SumFunction([a \in Wallets |-> MovementNet(a)])
              = SumOf(Gained("income")) - SumOf(Gained("expense"))
         /\ \A a \in Wallets : MovementNet(a) \in Int
<1>. DEFINE inc == [a \in Wallets |-> SumOf({i \in Kept(MovementDocs) :
                                  entries[i].account = a /\ entries[i].type = "income"})]
     exp == [a \in Wallets |-> SumOf({i \in Kept(MovementDocs) :
                                  entries[i].account = a /\ entries[i].type = "expense"})]
     net == [a \in Wallets |-> MovementNet(a)]
     key == [i \in DOMAIN entries |-> entries[i].account]
<1>0. IsFiniteSet(Wallets) /\ Gained("income") \in SUBSET DOMAIN entries
      /\ Gained("expense") \in SUBSET DOMAIN entries
  <2>1. IsFiniteSet(Wallets)
    BY ReportsAssumption DEF ReportsAssumption
  <2>. QED
    BY <2>1, GainedIn
<1>1. \A a \in Wallets : inc[a] = SumOf(OfKey(Gained("income"), key, a))
                         /\ exp[a] = SumOf(OfKey(Gained("expense"), key, a))
  <2>. TAKE a \in Wallets
  <2>1. OfKey(Gained("income"), key, a)
          = {i \in Kept(MovementDocs) : entries[i].account = a /\ entries[i].type = "income"}
    BY <1>0 DEF OfKey, Gained
  <2>2. OfKey(Gained("expense"), key, a)
          = {i \in Kept(MovementDocs) : entries[i].account = a /\ entries[i].type = "expense"}
    BY <1>0 DEF OfKey, Gained
  <2>. QED
    BY <2>1, <2>2
<1>2. \A a \in Wallets : net[a] = inc[a] - exp[a]
  BY DEF MovementNet
<1>3. \A i \in Gained("income") \cup Gained("expense") : key[i] \in Wallets
  BY <1>0, EntryType
<1>4. SumFunction(net) = SumFunctionOnSet(net, Wallets)
  BY DEF SumFunction
<1>5. \A a \in Wallets : MovementNet(a) = net[a]
  OBVIOUS
<1>. HIDE DEF inc, exp, net, key
<1>6. \A a \in Wallets : inc[a] \in Int /\ exp[a] \in Int
  <2>. TAKE a \in Wallets
  <2>1. OfKey(Gained("income"), key, a) \in SUBSET DOMAIN entries
        /\ OfKey(Gained("expense"), key, a) \in SUBSET DOMAIN entries
    BY <1>0 DEF OfKey
  <2>. QED
    BY <1>1, <2>1, AmountOfType
<1>7. SumFunctionOnSet(inc, Wallets) = SumOf(Gained("income"))
  <2>1. \A i \in Gained("income") : key[i] \in Wallets
    BY <1>3
  <2>2. \A a \in Wallets : inc[a] = SumOf(OfKey(Gained("income"), key, a))
    BY <1>1
  <2>. QED
    BY <1>0, <2>1, <2>2, EntriesByKey
<1>8. SumFunctionOnSet(exp, Wallets) = SumOf(Gained("expense"))
  <2>1. \A i \in Gained("expense") : key[i] \in Wallets
    BY <1>3
  <2>2. \A a \in Wallets : exp[a] = SumOf(OfKey(Gained("expense"), key, a))
    BY <1>1
  <2>. QED
    BY <1>0, <2>1, <2>2, EntriesByKey
<1>9. \A a \in Wallets : inc[a] \in Int /\ exp[a] \in Int /\ net[a] = inc[a] - exp[a]
  BY <1>2, <1>6
<1>10. SumFunctionOnSet(net, Wallets) = SumFunctionOnSet(inc, Wallets) - SumFunctionOnSet(exp, Wallets)
  BY <1>0, <1>9, SumMinus
<1>11. \A a \in Wallets : net[a] \in Int
  BY <1>9
<1>. QED
  BY <1>4, <1>5, <1>7, <1>8, <1>10, <1>11 DEF net

(* So is the income less the expense of the months asked for. *)
LEMMA MonthsAddUp ==
  ASSUME entries \in Seq(Entries)
  PROVE  SumFunction([p \in MonthsAsked |-> Money(p)["income"] - Money(p)["expense"]])
           = SumOf(Gained("income")) - SumOf(Gained("expense"))
<1>. DEFINE inc == [p \in MonthsAsked |-> Money(p)["income"]]
     exp == [p \in MonthsAsked |-> Money(p)["expense"]]
     net == [p \in MonthsAsked |-> Money(p)["income"] - Money(p)["expense"]]
     key == [i \in DOMAIN entries |-> CHOOSE p \in MonthsAsked : Within(entries[i].day, p)]
<1>0. IsFiniteSet(MonthsAsked) /\ Gained("income") \in SUBSET DOMAIN entries
      /\ Gained("expense") \in SUBSET DOMAIN entries
  BY GainedIn, MonthsAskedFinite
<1>1. \A i \in DOMAIN entries :
        key[i] \in MonthsAsked /\ Within(entries[i].day, key[i]) /\ entries[i].day \in Int
  BY EntryType, DayHasMonth
<1>2. \A i \in DOMAIN entries, p \in MonthsAsked : key[i] = p <=> Within(entries[i].day, p)
  <2>. HIDE DEF key
  <2>. QED
    BY <1>1, OneMonth, MonthsAskedFinite
<1>3. \A p \in MonthsAsked : inc[p] = SumOf(OfKey(Gained("income"), key, p))
                             /\ exp[p] = SumOf(OfKey(Gained("expense"), key, p))
  <2>. TAKE p \in MonthsAsked
  <2>1. inc[p] = SumOf({i \in Kept(MovementDocs) : entries[i].type = "income" /\ Within(entries[i].day, p)})
        /\ exp[p] = SumOf({i \in Kept(MovementDocs) : entries[i].type = "expense" /\ Within(entries[i].day, p)})
    BY DEF Money
  <2>. HIDE DEF key, inc, exp
  <2>2. OfKey(Gained("income"), key, p)
          = {i \in Kept(MovementDocs) : entries[i].type = "income" /\ Within(entries[i].day, p)}
    BY <1>0, <1>2 DEF OfKey, Gained
  <2>3. OfKey(Gained("expense"), key, p)
          = {i \in Kept(MovementDocs) : entries[i].type = "expense" /\ Within(entries[i].day, p)}
    BY <1>0, <1>2 DEF OfKey, Gained
  <2>. QED
    BY <2>1, <2>2, <2>3
<1>4. SumFunction(net) = SumFunctionOnSet(net, MonthsAsked)
  BY DEF SumFunction
<1>5. \A p \in MonthsAsked : net[p] = inc[p] - exp[p]
  OBVIOUS
<1>. HIDE DEF inc, exp, net, key
<1>6. \A p \in MonthsAsked : inc[p] \in Int /\ exp[p] \in Int
  <2>. TAKE p \in MonthsAsked
  <2>1. OfKey(Gained("income"), key, p) \in SUBSET DOMAIN entries
        /\ OfKey(Gained("expense"), key, p) \in SUBSET DOMAIN entries
    BY <1>0 DEF OfKey
  <2>. QED
    BY <1>3, <2>1, AmountOfType
<1>7. SumFunctionOnSet(inc, MonthsAsked) = SumOf(Gained("income"))
  <2>1. \A i \in Gained("income") : key[i] \in MonthsAsked
    BY <1>0, <1>1
  <2>2. \A p \in MonthsAsked : inc[p] = SumOf(OfKey(Gained("income"), key, p))
    BY <1>3
  <2>. QED
    BY <1>0, <2>1, <2>2, EntriesByKey
<1>8. SumFunctionOnSet(exp, MonthsAsked) = SumOf(Gained("expense"))
  <2>1. \A i \in Gained("expense") : key[i] \in MonthsAsked
    BY <1>0, <1>1
  <2>2. \A p \in MonthsAsked : exp[p] = SumOf(OfKey(Gained("expense"), key, p))
    BY <1>3
  <2>. QED
    BY <1>0, <2>1, <2>2, EntriesByKey
<1>9. \A p \in MonthsAsked : inc[p] \in Int /\ exp[p] \in Int /\ net[p] = inc[p] - exp[p]
  BY <1>5, <1>6
<1>10. SumFunctionOnSet(net, MonthsAsked)
         = SumFunctionOnSet(inc, MonthsAsked) - SumFunctionOnSet(exp, MonthsAsked)
  BY <1>0, <1>9, SumMinus
<1>. QED
  BY <1>4, <1>7, <1>8, <1>10 DEF net

(* The expenses of a month. *)
Spent(p) ==
  {i \in Kept(MovementDocs) : entries[i].type = "expense" /\ Within(entries[i].day, p)}

LEMMA SpentIn ==
  ASSUME entries \in Seq(Entries), NEW p
  PROVE  Spent(p) \in SUBSET DOMAIN entries /\ Money(p)["expense"] = SumOf(Spent(p))
<1>1. Spent(p) \in SUBSET DOMAIN entries
  BY KeptDocs DEF Spent
<1>. QED
  BY <1>1 DEF Spent, Money

(* A budget line is a part of the expense of its month, and so are all. *)
LEMMA LinesWithinExpense ==
  ASSUME entries \in Seq(Entries), NEW p
  PROVE  /\ SumFunction([g \in Sorts |-> Spend(p, g)]) <= Money(p)["expense"]
         /\ \A g \in Sorts : Spend(p, g) \in Int /\ Spend(p, g) <= Money(p)["expense"]
         /\ Money(p)["expense"] \in Int
<1>. DEFINE lines == [g \in Sorts |-> Spend(p, g)]
     key == [i \in DOMAIN entries |-> entries[i].category]
     S == {i \in Spent(p) : entries[i].category \in Sorts}
<1>0. /\ IsFiniteSet(Sorts) /\ S \in SUBSET Spent(p) /\ S \in SUBSET DOMAIN entries
      /\ Spent(p) \in SUBSET DOMAIN entries
  <2>1. IsFiniteSet(Sorts)
    BY ReportsAssumption DEF ReportsAssumption
  <2>2. Spent(p) \in SUBSET DOMAIN entries
    BY SpentIn
  <2>. QED
    BY <2>1, <2>2
<1>1. \A g \in Sorts : lines[g] = SumOf(OfKey(S, key, g))
  <2>. TAKE g \in Sorts
  <2>1. lines[g] = SumOf({i \in Kept(MovementDocs) :
                            /\ entries[i].type = "expense" /\ entries[i].category = g
                            /\ Within(entries[i].day, p)})
    BY DEF Spend
  <2>2. OfKey(S, key, g) = {i \in Kept(MovementDocs) :
                            /\ entries[i].type = "expense" /\ entries[i].category = g
                            /\ Within(entries[i].day, p)}
    BY <1>0 DEF OfKey, Spent
  <2>. QED
    BY <2>1, <2>2
<1>2. \A i \in S : key[i] \in Sorts
  BY <1>0
<1>3. SumFunction(lines) = SumFunctionOnSet(lines, Sorts) /\ \A g \in Sorts : lines[g] = Spend(p, g)
  BY DEF SumFunction
<1>. HIDE DEF lines, key, S
<1>4. SumFunctionOnSet(lines, Sorts) = SumOf(S)
  BY <1>0, <1>1, <1>2, EntriesByKey
<1>5. SumOf(S) <= SumOf(Spent(p))
  BY <1>0, PartOfSum
<1>6. \A g \in Sorts : lines[g] \in Int /\ lines[g] <= SumOf(Spent(p))
  <2>. TAKE g \in Sorts
  <2>1. OfKey(S, key, g) \in SUBSET Spent(p) /\ OfKey(S, key, g) \in SUBSET DOMAIN entries
    BY <1>0 DEF OfKey
  <2>2. SumOf(OfKey(S, key, g)) <= SumOf(Spent(p))
    BY <1>0, <2>1, PartOfSum
  <2>3. SumOf(OfKey(S, key, g)) \in Int
    BY <2>1, AmountOfType
  <2>. QED
    BY <1>1, <2>2, <2>3
<1>7. SumOf(Spent(p)) \in Int /\ Money(p)["expense"] = SumOf(Spent(p))
  BY <1>0, AmountOfType, SpentIn
<1>. QED
  BY <1>3, <1>4, <1>5, <1>6, <1>7 DEF lines

(* A month of history lists what its summary sums. *)
LEMMA MonthOfHistory ==
  ASSUME entries \in Seq(Entries), NEW p \in MonthsAsked, NEW t \in {"income", "expense"}
  PROVE  SumOf(Matching([from |-> MonthBounds(p).from, to |-> MonthBounds(p).to - 1, type |-> t]))
           = Money(p)[t]
<1>. DEFINE b == MonthBounds(p)
<1>1. b.from \in Nat \ {0} /\ b.to \in Nat /\ b.from < b.to
  <2>1. p.year \in Nat \ {0} /\ p.month \in 1 .. 12
    BY MonthsAskedFinite, MonthType
  <2>2. YearStart(p.year) \in Nat
    BY <2>1, YearStarts
  <2>3. b.from = DayNumber(p.year, p.month, 1) /\ b.to = Utc(p.year, p.month, 1)
    BY <2>1, BoundsOfMonth
  <2>4. /\ DayNumber(p.year, p.month, 1) \in Nat /\ Utc(p.year, p.month, 1) \in Nat
        /\ YearStart(p.year) < DayNumber(p.year, p.month, 1)
        /\ DayNumber(p.year, p.month, 1) < Utc(p.year, p.month, 1)
    BY <2>1, MonthSpan
  <2>. QED
    BY <2>2, <2>3, <2>4
<1>2. \A i \in Kept(MovementDocs) : entries[i].day \in Nat
  BY EntryType, KeptDocs, DayHasMonth
<1>3. Money(p)[t] = SumOf({i \in Kept(MovementDocs) : entries[i].type = t /\ Within(entries[i].day, p)})
  BY DEF Money
<1>4. Matching([from |-> b.from, to |-> b.to - 1, type |-> t])
        = {i \in Kept(MovementDocs) : /\ b.from # 0 => entries[i].day >= b.from
                                      /\ b.to - 1 # 0 => entries[i].day <= b.to - 1
                                      /\ t # "any" => entries[i].type = t}
  BY DEF Matching
<1>5. \A i \in Kept(MovementDocs) :
        Within(entries[i].day, p) <=> b.from <= entries[i].day /\ entries[i].day < b.to
  BY DEF Within
<1>. HIDE DEF b
<1>6. \A i \in Kept(MovementDocs) :
        (/\ b.from # 0 => entries[i].day >= b.from
         /\ b.to - 1 # 0 => entries[i].day <= b.to - 1
         /\ t # "any" => entries[i].type = t)
          <=> entries[i].type = t /\ Within(entries[i].day, p)
  BY <1>1, <1>2, <1>5
<1>7. Matching([from |-> b.from, to |-> b.to - 1, type |-> t])
        = {i \in Kept(MovementDocs) : entries[i].type = t /\ Within(entries[i].day, p)}
  BY <1>4, <1>6
<1>. QED
  BY <1>3, <1>7 DEF b

LEMMA BooksAgree ==
  ASSUME entries \in Seq(Entries), planned \in [Sorts -> Amounts \cup {0}]
  PROVE  BooksReconcile
<1>1. SumFunction([a \in Wallets |-> MovementNet(a)])
        = SumFunction([p \in MonthsAsked |-> Money(p)["income"] - Money(p)["expense"]])
  BY AccountsAddUp, MonthsAddUp
<1>2. ASSUME NEW p \in MonthsAsked, NEW g \in Sorts, planned[g] > 0,
             StatusFor(planned[g], Spend(p, g)) = "over"
      PROVE  Money(p)["expense"] > planned[g]
  <2>1. planned[g] \in Int
    <3>1. planned[g] \in Amounts \cup {0}
      OBVIOUS
    <3>. QED
      BY <3>1, AmountsPositive
  <2>2. Spend(p, g) > planned[g]
    BY <1>2 DEF StatusFor
  <2>3. /\ Spend(p, g) \in Int /\ Spend(p, g) <= Money(p)["expense"]
        /\ Money(p)["expense"] \in Int
    BY LinesWithinExpense
  <2>. QED
    BY <2>1, <2>2, <2>3
<1>. QED
  BY <1>1, <1>2, MonthOfHistory, LinesWithinExpense, CalendarParts DEF BooksReconcile

-----------------------------------------------------------------------------
(* The kinds of steps: a request comes in, reads once, or goes out, or the *)
(* books are written.                                                      *)

Ops == {"list", "budget", "marks", "history", "export", "defaults"}

Asked == \E op \in Ops :
  /\ query'.op = op /\ query'.since = now /\ query'.offset \in {0, Limit}
  /\ query'.known = {entries[i].at : i \in DOMAIN entries}
  /\ pending' = Reads(op)
  /\ UNCHANGED <<wallet, shut, entries, planned, now, got>>

Responded ==
  /\ query'.op = "none" /\ query'.since = 0 /\ query'.offset = 0 /\ query'.known = {}
  /\ pending' = {} /\ got' = Blank
  /\ UNCHANGED <<wallet, shut, entries, planned, now>>

WalletType == [there : BOOLEAN, opening : Amounts, archived : BOOLEAN]

Written ==
  /\ now < MaxPosts /\ now' = now + 1
  /\ UNCHANGED <<query, pending, got>>
  /\ wallet' \in [Wallets -> WalletType] /\ shut' \subseteq Sorts
  /\ entries' \in Seq(Entries) /\ planned' \in [Sorts -> Amounts \cup {0}]
  /\ \A a \in Wallets : wallet[a].there => wallet'[a].there
  /\ \A i \in DOMAIN entries :
       /\ i \in DOMAIN entries' /\ entries'[i].at >= entries[i].at
       /\ entries'[i].type = "transfer" <=> entries[i].type = "transfer"
  /\ \A i \in DOMAIN entries' :
       /\ entries'[i].at <= now + 1
       /\ wallet'[entries'[i].account].there /\ wallet'[entries'[i].to].there

LEMMA AskIsAsked ==
  ASSUME ReportsTypeOK, AskList \/ AskMonth \/ AskHistory \/ AskDefaults
  PROVE  Asked
<1>1. CASE AskList
  BY <1>1 DEF AskList, Ask, Asked, Ops, NoQuery, NoFilter
<1>2. CASE AskMonth
  BY <1>2 DEF AskMonth, Ask, Asked, Ops, NoQuery, NoFilter
<1>3. CASE AskHistory
  <2>1. PICK filter \in Filters, page \in {[op |-> "history", at |-> 0],
                                          [op |-> "history", at |-> Limit], [op |-> "export", at |-> 0]} :
          Ask([NoQuery EXCEPT !.op = page.op, !.filter = filter, !.offset = page.at])
    BY <1>3 DEF AskHistory
  <2>2. page.op \in {"history", "export"} /\ page.at \in {0, Limit}
    OBVIOUS
  <2>. DEFINE op == page.op  at == page.at
  <2>3. Ask([NoQuery EXCEPT !.op = op, !.filter = filter, !.offset = at])
    BY <2>1
  <2>4. op \in {"history", "export"} /\ at \in {0, Limit}
    BY <2>2
  <2>. HIDE DEF op, at
  <2>. QED
    BY <2>3, <2>4 DEF Ask, Asked, Ops, NoQuery
<1>4. CASE AskDefaults
  BY <1>4 DEF AskDefaults, Ask, Asked, Ops, NoQuery, NoFilter
<1>. QED
  BY <1>1, <1>2, <1>3, <1>4

LEMMA RespondIsResponded ==
  ASSUME Respond
  PROVE  Responded
  BY DEF Respond, Responded, NoQuery, NoFilter

LEMMA WalletsKept ==
  ASSUME ReportsTypeOK, UNCHANGED wallet
  PROVE  wallet' \in [Wallets -> WalletType]
         /\ \A a \in Wallets : wallet[a].there => wallet'[a].there
  BY DEF ReportsTypeOK, WalletType

LEMMA EntriesKept ==
  ASSUME ReportsTypeOK, EntriesOK, UNCHANGED entries, now' = now + 1,
         \A a \in Wallets : wallet[a].there => wallet'[a].there
  PROVE  /\ entries' \in Seq(Entries)
         /\ \A i \in DOMAIN entries :
              /\ i \in DOMAIN entries' /\ entries'[i].at >= entries[i].at
              /\ entries'[i].type = "transfer" <=> entries[i].type = "transfer"
         /\ \A i \in DOMAIN entries' :
              /\ entries'[i].at <= now + 1
              /\ wallet'[entries'[i].account].there /\ wallet'[entries'[i].to].there
<1>1. entries \in Seq(Entries) /\ now \in Nat
  BY DEF ReportsTypeOK
<1>2. \A i \in DOMAIN entries :
        entries[i].at \in Nat /\ entries[i].account \in Wallets /\ entries[i].to \in Wallets
  BY <1>1, EntryType
<1>. QED
  BY <1>1, <1>2 DEF EntriesOK

LEMMA FreshType ==
  ASSUME ReportsTypeOK, NEW e \in Fresh
  PROVE  /\ e.at = now + 1 /\ e.account \in Wallets /\ e.to \in Wallets
         /\ wallet[e.account].there /\ wallet[e.to].there
  BY DEF Fresh, Entry, Listed

LEMMA RecordIsWritten ==
  ASSUME ReportsTypeOK, EntriesOK, NEW e \in Fresh, Record(e)
  PROVE  Written
<1>1. /\ now < MaxPosts /\ now' = now + 1 /\ e \in Entries /\ entries' = Append(entries, e)
      /\ UNCHANGED <<query, pending, got, wallet, shut, planned>>
  BY DEF Record, Post
<1>2. entries \in Seq(Entries) /\ now \in Nat
  BY DEF ReportsTypeOK
<1>3. \A i \in DOMAIN entries :
        entries[i].at \in Nat /\ entries[i].account \in Wallets /\ entries[i].to \in Wallets
  BY <1>2, EntryType
<1>4. /\ entries' \in Seq(Entries)
      /\ DOMAIN entries' = DOMAIN entries \cup {Len(entries) + 1}
      /\ \A i \in DOMAIN entries : entries'[i] = entries[i]
      /\ entries'[Len(entries) + 1] = e
  BY <1>1, <1>2
<1>5. \A i \in DOMAIN entries :
       /\ i \in DOMAIN entries' /\ entries'[i].at >= entries[i].at
       /\ entries'[i].type = "transfer" <=> entries[i].type = "transfer"
  BY <1>3, <1>4
<1>6. \A i \in DOMAIN entries' :
       /\ entries'[i].at <= now + 1
       /\ wallet'[entries'[i].account].there /\ wallet'[entries'[i].to].there
  BY <1>1, <1>2, <1>3, <1>4, FreshType DEF EntriesOK
<1>. QED
  BY <1>1, <1>4, <1>5, <1>6, WalletsKept DEF Written, ReportsTypeOK

LEMMA ReviseIsWritten ==
  ASSUME ReportsTypeOK, EntriesOK, NEW e \in Fresh, NEW i \in DOMAIN entries, Revise(i, e)
  PROVE  Written
<1>1. /\ now < MaxPosts /\ now' = now + 1 /\ e \in Entries /\ entries' = [entries EXCEPT ![i] = e]
      /\ e.type = "transfer" <=> entries[i].type = "transfer"
      /\ UNCHANGED <<query, pending, got, wallet, shut, planned>>
  BY DEF Revise, Post
<1>2. entries \in Seq(Entries) /\ now \in Nat
  BY DEF ReportsTypeOK
<1>3. \A j \in DOMAIN entries :
        entries[j].at \in Nat /\ entries[j].account \in Wallets /\ entries[j].to \in Wallets
  BY <1>2, EntryType
<1>4. /\ entries' \in Seq(Entries) /\ DOMAIN entries' = DOMAIN entries
      /\ \A j \in DOMAIN entries : entries'[j] = IF j = i THEN e ELSE entries[j]
  BY <1>1, <1>2
<1>5. \A j \in DOMAIN entries :
       /\ j \in DOMAIN entries' /\ entries'[j].at >= entries[j].at
       /\ entries'[j].type = "transfer" <=> entries[j].type = "transfer"
  BY <1>1, <1>2, <1>3, <1>4, FreshType DEF EntriesOK
<1>6. \A j \in DOMAIN entries' :
       /\ entries'[j].at <= now + 1
       /\ wallet'[entries'[j].account].there /\ wallet'[entries'[j].to].there
  BY <1>1, <1>2, <1>3, <1>4, FreshType DEF EntriesOK
<1>. QED
  BY <1>1, <1>4, <1>5, <1>6, WalletsKept DEF Written, ReportsTypeOK

(* What deleting an entry leaves of it. *)
LEMMA GoneType ==
  ASSUME NEW e \in Entries, NEW t \in 0 .. MaxPosts
  PROVE  LET g == [e EXCEPT !.gone = TRUE, !.at = t] IN
           g \in Entries /\ g.at = t /\ g.type = e.type /\ g.account = e.account /\ g.to = e.to
  BY DEF Entries

LEMMA DiscardIsWritten ==
  ASSUME ReportsTypeOK, EntriesOK, NEW i \in DOMAIN entries, Discard(i)
  PROVE  Written
<1>. DEFINE e == [entries[i] EXCEPT !.gone = TRUE, !.at = now + 1]
<1>2. entries \in Seq(Entries) /\ now \in 0 .. MaxPosts /\ MaxPosts \in Nat
  BY ReportsAssumption DEF ReportsTypeOK, ReportsAssumption
<1>0. entries[i] \in Entries
  BY <1>2
<1>1. /\ now < MaxPosts /\ now' = now + 1 /\ entries' = [entries EXCEPT ![i] = e]
      /\ UNCHANGED <<query, pending, got, wallet, shut, planned>>
  BY DEF Discard, Post
<1>3. \A j \in DOMAIN entries :
        entries[j].at \in Nat /\ entries[j].account \in Wallets /\ entries[j].to \in Wallets
  BY <1>2, EntryType
<1>7. /\ e \in Entries /\ e.at = now + 1 /\ e.type = entries[i].type
      /\ e.account = entries[i].account /\ e.to = entries[i].to
  <2>1. now + 1 \in 0 .. MaxPosts
    BY <1>1, <1>2
  <2>. QED
    BY <1>0, <2>1, GoneType
<1>. HIDE DEF e
<1>4. /\ entries' \in Seq(Entries) /\ DOMAIN entries' = DOMAIN entries
      /\ \A j \in DOMAIN entries : entries'[j] = IF j = i THEN e ELSE entries[j]
  BY <1>1, <1>2, <1>7
<1>5. \A j \in DOMAIN entries :
       /\ j \in DOMAIN entries' /\ entries'[j].at >= entries[j].at
       /\ entries'[j].type = "transfer" <=> entries[j].type = "transfer"
  BY <1>1, <1>2, <1>3, <1>4, <1>7 DEF EntriesOK
<1>6. \A j \in DOMAIN entries' :
       /\ entries'[j].at <= now + 1
       /\ wallet'[entries'[j].account].there /\ wallet'[entries'[j].to].there
  BY <1>1, <1>2, <1>3, <1>4, <1>7 DEF EntriesOK
<1>. QED
  BY <1>1, <1>4, <1>5, <1>6, WalletsKept DEF Written, ReportsTypeOK

LEMMA WalletEdited ==
  ASSUME NEW w \in WalletType
  PROVE  /\ [w EXCEPT !.there = TRUE] \in WalletType /\ [w EXCEPT !.there = TRUE].there
         /\ \A n \in Amounts :
              [w EXCEPT !.opening = n] \in WalletType /\ [w EXCEPT !.opening = n].there = w.there
         /\ [w EXCEPT !.archived = ~@] \in WalletType /\ [w EXCEPT !.archived = ~@].there = w.there
  BY DEF WalletType

LEMMA ChangeWalletIsWritten ==
  ASSUME ReportsTypeOK, EntriesOK, NEW a \in Wallets, ChangeWallet(a)
  PROVE  Written
<1>1. /\ now < MaxPosts /\ now' = now + 1
      /\ UNCHANGED <<query, pending, got, entries, shut, planned>>
  BY DEF ChangeWallet, Post
<1>2. wallet \in [Wallets -> WalletType]
  BY DEF ReportsTypeOK, WalletType
<1>3. \E w \in WalletType : wallet' = [wallet EXCEPT ![a] = w] /\ (wallet[a].there => w.there)
  <2>1. CASE wallet' = [wallet EXCEPT ![a].there = TRUE]
    <3>. DEFINE w == [wallet[a] EXCEPT !.there = TRUE]
    <3>1. w \in WalletType /\ w.there
      BY <1>2, WalletEdited
    <3>2. wallet' = [wallet EXCEPT ![a] = w]
      BY <2>1
    <3>. QED
      BY <3>1, <3>2
  <2>2. ASSUME NEW n \in Amounts, wallet' = [wallet EXCEPT ![a].opening = n]
        PROVE  \E w \in WalletType : wallet' = [wallet EXCEPT ![a] = w] /\ (wallet[a].there => w.there)
    <3>. DEFINE w == [wallet[a] EXCEPT !.opening = n]
    <3>1. w \in WalletType /\ w.there = wallet[a].there
      BY <1>2, WalletEdited
    <3>2. wallet' = [wallet EXCEPT ![a] = w]
      BY <2>2
    <3>. QED
      BY <3>1, <3>2
  <2>3. CASE wallet' = [wallet EXCEPT ![a].archived = ~@]
    <3>. DEFINE w == [wallet[a] EXCEPT !.archived = ~@]
    <3>1. w \in WalletType /\ w.there = wallet[a].there
      BY <1>2, WalletEdited
    <3>2. wallet' = [wallet EXCEPT ![a] = w]
      BY <2>3
    <3>. QED
      BY <3>1, <3>2
  <2>. QED
    BY <2>1, <2>2, <2>3 DEF ChangeWallet
<1>4. wallet' \in [Wallets -> WalletType] /\ \A b \in Wallets : wallet[b].there => wallet'[b].there
  BY <1>2, <1>3
<1>. QED
  BY <1>1, <1>4, EntriesKept DEF Written, ReportsTypeOK

LEMMA PlanIsWritten ==
  ASSUME ReportsTypeOK, EntriesOK, NEW g \in Sorts, Allocate(g) \/ Shut(g)
  PROVE  Written
<1>1. /\ now < MaxPosts /\ now' = now + 1 /\ UNCHANGED <<query, pending, got, entries, wallet>>
  BY DEF Allocate, Shut, Post
<1>2. shut' \subseteq Sorts /\ planned' \in [Sorts -> Amounts \cup {0}]
  BY DEF Allocate, Shut, ReportsTypeOK
<1>3. \A a \in Wallets : wallet[a].there => wallet'[a].there
  BY <1>1
<1>. QED
  BY <1>1, <1>2, <1>3, EntriesKept, WalletsKept DEF Written

LEMMA ReportsStepKinds ==
  ASSUME ReportsTypeOK, EntriesOK, ReportsNext
  PROVE  Asked \/ Responded \/ Written \/ \E k \in pending : Read(k)
<1>1. CASE AskList \/ AskMonth \/ AskHistory \/ AskDefaults
  BY <1>1, AskIsAsked
<1>2. CASE Respond
  BY <1>2, RespondIsResponded
<1>3. CASE \E e \in Fresh : Record(e) \/ \E i \in DOMAIN entries : Revise(i, e)
  BY <1>3, RecordIsWritten, ReviseIsWritten
<1>4. CASE \E i \in DOMAIN entries : Discard(i)
  BY <1>4, DiscardIsWritten
<1>5. CASE \E a \in Wallets : ChangeWallet(a)
  BY <1>5, ChangeWalletIsWritten
<1>6. CASE \E g \in Sorts : Allocate(g) \/ Shut(g)
  BY <1>6, PlanIsWritten
<1>. QED
  BY <1>1, <1>2, <1>3, <1>4, <1>5, <1>6 DEF ReportsNext

-----------------------------------------------------------------------------
(* What every step keeps. *)

AllReads ==
  {"accounts", "movementNets", "transferNets", "money", "allocations", "spend", "movementChange",
   "transferChange", "items", "total", "accountNames", "latest", "account", "category"}

LEMMA BlankReads ==
  DOMAIN Blank = AllReads /\ \A op \in Ops : Reads(op) \subseteq AllReads
  BY DEF Blank, AllReads, Ops, Reads

(* What a read leaves. *)
ReadDone(k) ==
  /\ k \in pending /\ pending' = pending \ {k}
  /\ DOMAIN got' = AllReads /\ got'[k] = Result(k)
  /\ \A j \in AllReads \ {k} : got'[j] = got[j]
  /\ UNCHANGED <<wallet, shut, entries, planned, now, query>>

LEMMA ReadIsDone ==
  ASSUME ReportsTypeOK, NEW k \in pending, Read(k)
  PROVE  ReadDone(k) /\ Awaited(k) \cap pending = {}
<1>1. /\ got' = [got EXCEPT ![k] = Result(k)] /\ pending' = pending \ {k}
      /\ UNCHANGED <<wallet, shut, entries, planned, now, query>>
      /\ Awaited(k) \cap pending = {}
  BY DEF Read
<1>2. DOMAIN got = AllReads /\ pending \subseteq AllReads
  BY BlankReads DEF ReportsTypeOK
<1>. HIDE DEF AllReads
<1>. QED
  BY <1>1, <1>2 DEF ReadDone

LEMMA TypesKept ==
  ASSUME ReportsTypeOK, EntriesOK, [ReportsNext]_reportVars
  PROVE  ReportsTypeOK'
<1>0. now \in Nat /\ MaxPosts \in Nat
  BY ReportsAssumption DEF ReportsTypeOK, ReportsAssumption
<1>1. CASE Asked
  <2>1. PICK op \in Ops :
     /\ query'.since = now /\ query'.offset \in {0, Limit}
     /\ query'.known = {entries[i].at : i \in DOMAIN entries}
     /\ pending' = Reads(op)
     /\ UNCHANGED <<wallet, shut, entries, planned, now, got>>
    BY <1>1 DEF Asked
  <2>2. \A i \in DOMAIN entries : entries[i].at \in 0 .. now
    BY <1>0, EntryType DEF EntriesOK, ReportsTypeOK
  <2>3. query'.known \subseteq 0 .. now
    BY <2>1, <2>2
  <2>4. pending' \subseteq DOMAIN Blank
    BY <2>1, BlankReads
  <2>. QED
    BY <1>0, <2>1, <2>3, <2>4 DEF ReportsTypeOK
<1>2. CASE Responded
  BY <1>0, <1>2 DEF Responded, ReportsTypeOK
<1>3. CASE Written
  BY <1>0, <1>3 DEF Written, ReportsTypeOK, WalletType
<1>4. ASSUME NEW k \in pending, Read(k) PROVE ReportsTypeOK'
  <2>1. ReadDone(k)
    BY <1>4, ReadIsDone
  <2>. QED
    BY <2>1, BlankReads DEF ReadDone, ReportsTypeOK
<1>5. CASE UNCHANGED reportVars
  BY <1>5 DEF reportVars, ReportsTypeOK
<1>. QED
  BY <1>1, <1>2, <1>3, <1>4, <1>5, ReportsStepKinds

LEMMA EntriesStay ==
  ASSUME ReportsTypeOK, EntriesOK, [ReportsNext]_reportVars
  PROVE  EntriesOK'
<1>1. CASE Written
  <2>1. /\ now' = now + 1
        /\ \A i \in DOMAIN entries' :
             /\ entries'[i].at <= now + 1
             /\ wallet'[entries'[i].account].there /\ wallet'[entries'[i].to].there
    BY <1>1 DEF Written
  <2>. QED
    BY <2>1 DEF EntriesOK
<1>2. CASE UNCHANGED <<entries, wallet, now>>
  BY <1>2 DEF EntriesOK
<1>3. Asked \/ Responded \/ UNCHANGED reportVars => UNCHANGED <<entries, wallet, now>>
  BY DEF Asked, Responded, reportVars
<1>4. \A k \in pending : Read(k) => UNCHANGED <<entries, wallet, now>>
  BY DEF Read
<1>. QED
  BY <1>1, <1>2, <1>3, <1>4, ReportsStepKinds

-----------------------------------------------------------------------------
(* Lists *)

LEMMA ListedAccounts ==
  ASSUME ReportsTypeOK, got'["accounts"] = Result("accounts")
  PROVE  /\ DOMAIN got'["accounts"] \subseteq Wallets
         /\ \A a \in DOMAIN got'["accounts"] : got'["accounts"][a] \in Nat
<1>. DEFINE open == [a \in Listed(query.status) |-> wallet[a].opening]
<1>1. got'["accounts"] = open
  BY DEF Result
<1>2. Listed(query.status) \subseteq Wallets
  BY DEF Listed
<1>3. \A a \in Wallets : wallet[a].opening \in Nat
  <2>1. \A a \in Wallets : wallet[a].opening \in Amounts
    BY DEF ReportsTypeOK
  <2>2. Amounts \subseteq Nat
    BY ReportsAssumption DEF ReportsAssumption
  <2>. QED
    BY <2>1, <2>2
<1>. QED
  BY <1>1, <1>2, <1>3

LEMMA ListKept ==
  ASSUME ReportsTypeOK, EntriesOK, ListHeld, [ReportsNext]_reportVars
  PROVE  ListHeld'
<1>1. CASE Asked
  <2>1. query'.op = "list" => pending' = {"accounts", "movementNets", "transferNets"}
    BY <1>1 DEF Asked, Reads, Ops
  <2>. QED
    BY <2>1 DEF ListHeld
<1>2. CASE Responded
  BY <1>2 DEF Responded, ListHeld
<1>3. CASE UNCHANGED <<query, pending, got>>
  BY <1>3 DEF ListHeld
<1>4. ASSUME NEW k \in pending, Read(k) PROVE ListHeld'
  <2>. SUFFICES ASSUME query.op = "list" PROVE ListHeld'
    BY <1>4 DEF Read, ListHeld
  <2>1. ReadDone(k)
    BY <1>4, ReadIsDone
  <2>2. entries \in Seq(Entries)
    BY DEF ReportsTypeOK
  <2>3. k = "accounts" => /\ DOMAIN got'["accounts"] \subseteq Wallets
                          /\ \A a \in DOMAIN got'["accounts"] : got'["accounts"][a] \in Nat
    BY <2>1, ListedAccounts DEF ReadDone
  <2>4. k = "movementNets" => got'["movementNets"] \in [Wallets -> Int]
    <3>1. Result("movementNets") = [a \in Wallets |-> MovementNet(a)]
      BY DEF Result
    <3>2. \A a \in Wallets : MovementNet(a) \in Int
      BY <2>2, AccountsAddUp
    <3>. QED
      BY <2>1, <3>1, <3>2 DEF ReadDone
  <2>5. k = "transferNets" => /\ got'["transferNets"] \in [Wallets -> Int]
                              /\ SumFunction(got'["transferNets"]) = 0
    <3>. DEFINE net == [a \in Wallets |-> TransferNet(a)]
    <3>1. Result("transferNets") = net
      BY DEF Result
    <3>2. \A a \in Wallets : TransferNet(a) \in Int
      BY <2>2, TransfersCancel
    <3>3. SumFunction(net) = 0
      BY <2>2, TransfersCancel
    <3>4. net \in [Wallets -> Int]
      BY <3>2
    <3>. HIDE DEF net
    <3>. QED
      BY <2>1, <3>1, <3>3, <3>4 DEF ReadDone
  <2>6. \A j \in {"accounts", "movementNets", "transferNets"} :
          j \notin pending' => j = k \/ (j \notin pending /\ got'[j] = got[j])
    BY <2>1 DEF ReadDone, AllReads
  <2>. QED
    BY <2>3, <2>4, <2>5, <2>6 DEF ListHeld
<1>5. Written \/ UNCHANGED reportVars => UNCHANGED <<query, pending, got>>
  BY DEF Written, reportVars
<1>. QED
  BY <1>1, <1>2, <1>3, <1>4, <1>5, ReportsStepKinds

(* A transfer neither makes nor loses money in an answer. *)
LEMMA ListAddsUp ==
  ASSUME ReportsTypeOK, ListHeld
  PROVE  TransfersConserve
<1>. SUFFICES ASSUME query.op = "list", pending = {}, DOMAIN got.accounts = Wallets
     PROVE  NetWorth = SumFunction([a \in Wallets |-> got.accounts[a] + got.movementNets[a]])
  BY DEF TransfersConserve, Answered
<1>. DEFINE net == [a \in Wallets |-> got.accounts[a] + got.movementNets[a]]
     total == [a \in Wallets |-> Balance(a)]
     moved == got.transferNets
<1>1. /\ \A a \in Wallets : got.accounts[a] \in Nat
      /\ got.movementNets \in [Wallets -> Int]
      /\ moved \in [Wallets -> Int] /\ SumFunction(moved) = 0
  BY DEF ListHeld
<1>2. IsFiniteSet(Wallets)
  BY ReportsAssumption DEF ReportsAssumption
<1>3. \A a \in Wallets : total[a] \in Int /\ moved[a] \in Int /\ net[a] = total[a] - moved[a]
  BY <1>1 DEF Balance
<1>4. NetWorth = SumFunctionOnSet(total, Wallets) /\ SumFunction(net) = SumFunctionOnSet(net, Wallets)
  BY DEF NetWorth, SumFunction
<1>5. SumFunctionOnSet(moved, Wallets) = 0
  BY <1>1 DEF SumFunction
<1>. HIDE DEF net, total, moved
<1>6. SumFunctionOnSet(net, Wallets) = SumFunctionOnSet(total, Wallets) - SumFunctionOnSet(moved, Wallets)
  BY <1>2, <1>3, SumMinus
<1>7. SumFunctionOnSet(total, Wallets) \in Int
  BY <1>2, <1>3, SumType
<1>. QED
  BY <1>4, <1>5, <1>6, <1>7 DEF net

-----------------------------------------------------------------------------
(* Marks *)

(* Some document is as new as any. *)
LEMMA NewestExists ==
  ASSUME entries \in Seq(Entries), NEW S \in SUBSET DOMAIN entries, S # {}
  PROVE  \E i \in S : \A j \in S : entries[j].at <= entries[i].at
<1>. DEFINE G == {T \in SUBSET S : T # {} => \E i \in T : \A j \in T : entries[j].at <= entries[i].at}
<1>1. IsFiniteSet(S) /\ \A i \in S : entries[i].at \in Nat
  BY AmountOfType, EntryType
<1>2. {} \in G
  OBVIOUS
<1>3. ASSUME NEW T \in G, NEW x \in S \ T PROVE T \cup {x} \in G
  <2>1. CASE T = {}
    BY <1>1, <2>1
  <2>2. CASE T # {}
    <3>1. PICK i \in T : \A j \in T : entries[j].at <= entries[i].at
      BY <2>2
    <3>4. T \subseteq S /\ \A j \in T \cup {x} : entries[j].at \in Nat
      BY <1>1
    <3>2. CASE entries[x].at <= entries[i].at
      BY <3>1, <3>2
    <3>3. CASE entries[i].at <= entries[x].at
      <4>1. \A j \in T \cup {x} : entries[j].at <= entries[x].at
        BY <3>1, <3>3, <3>4
      <4>. QED
        BY <4>1, <3>4
    <3>. QED
      BY <3>2, <3>3, <3>4
  <2>. QED
    BY <2>1, <2>2
<1>4. S \in G
  <2>1. G \in SUBSET SUBSET S
    OBVIOUS
  <2>. HIDE DEF G
  <2>. QED
    BY <1>1, <1>2, <1>3, <2>1, SetInduction
<1>. QED
  BY <1>4

LEMMA NewestCovers ==
  ASSUME entries \in Seq(Entries), NEW S \in SUBSET DOMAIN entries
  PROVE  LatestChange(S) \in Nat /\ \A i \in S : LatestChange(S) >= entries[i].at
<1>1. \A i \in S : entries[i].at \in Nat
  BY EntryType
<1>2. CASE S = {}
  BY <1>2 DEF LatestChange, Newest
<1>3. CASE S # {}
  <2>. DEFINE newest == CHOOSE i \in S : \A j \in S : entries[j].at <= entries[i].at
  <2>1. newest \in S /\ \A j \in S : entries[j].at <= entries[newest].at
    BY <1>3, NewestExists
  <2>2. LatestChange(S) = entries[newest].at
    BY <1>3 DEF LatestChange, Newest
  <2>. HIDE DEF newest
  <2>. QED
    BY <1>1, <2>1, <2>2
<1>. QED
  BY <1>2, <1>3

Changes == {"movementChange", "transferChange"}

LEMMA ChangeRead ==
  ASSUME ReportsTypeOK
  PROVE  /\ Result("movementChange") \in Nat
         /\ \A i \in MovementDocs : Result("movementChange") >= entries[i].at
         /\ Result("transferChange") \in Nat
         /\ \A i \in TransferDocs : Result("transferChange") >= entries[i].at
<1>1. entries \in Seq(Entries)
  BY DEF ReportsTypeOK
<1>2. MovementDocs \in SUBSET DOMAIN entries /\ TransferDocs \in SUBSET DOMAIN entries
  BY DEF MovementDocs, TransferDocs
<1>3. /\ Result("movementChange") = LatestChange(MovementDocs)
      /\ Result("transferChange") = LatestChange(TransferDocs)
  BY DEF Result
<1>. QED
  BY <1>1, <1>2, <1>3, NewestCovers

LEMMA MarksKept ==
  ASSUME ReportsTypeOK, EntriesOK, MarksHeld, [ReportsNext]_reportVars
  PROVE  MarksHeld'
<1>0. \A i \in DOMAIN entries : entries[i].at \in Nat
  BY EntryType DEF ReportsTypeOK
<1>1. CASE Asked
  <2>. SUFFICES ASSUME query'.op = "marks" PROVE MarksHeld'
    BY DEF MarksHeld
  <2>1. /\ Changes \subseteq pending' /\ query'.known = {entries[i].at : i \in DOMAIN entries}
        /\ entries' = entries
    BY <1>1 DEF Asked, Reads, Ops, Changes
  <2>2. ASSUME NEW t \in query'.known
        PROVE  (\E i \in MovementDocs : entries[i].at >= t) \/ \E i \in TransferDocs : entries[i].at >= t
    BY <1>0, <2>1 DEF MovementDocs, TransferDocs
  <2>3. MovementDocs' = MovementDocs /\ TransferDocs' = TransferDocs
    BY <2>1 DEF MovementDocs, TransferDocs
  <2>4. ASSUME NEW t \in query'.known
        PROVE  Marked(MovementDocs, "movementChange", t)' \/ Marked(TransferDocs, "transferChange", t)'
    <3>1. CASE \E i \in MovementDocs : entries[i].at >= t
      BY <2>1, <2>3, <3>1 DEF Marked, Changes
    <3>2. CASE \E i \in TransferDocs : entries[i].at >= t
      BY <2>1, <2>3, <3>2 DEF Marked, Changes
    <3>. QED
      BY <2>2, <2>4, <3>1, <3>2
  <2>. QED
    BY <2>1, <2>4 DEF MarksHeld, Changes
<1>2. CASE Responded
  BY <1>2 DEF Responded, MarksHeld
<1>3. CASE Written
  <2>. SUFFICES ASSUME query.op = "marks" PROVE MarksHeld'
    BY <1>3 DEF Written, MarksHeld
  <2>1. UNCHANGED <<query, pending, got>>
    BY <1>3 DEF Written
  <2>2. \A i \in DOMAIN entries :
          /\ i \in DOMAIN entries' /\ entries'[i].at >= entries[i].at /\ entries'[i].at \in Nat
          /\ i \in MovementDocs => i \in MovementDocs'
          /\ i \in TransferDocs => i \in TransferDocs'
    <3>1. \A i \in DOMAIN entries' : entries'[i].at \in Nat
      <4>1. entries' \in Seq(Entries)
        BY <1>3 DEF Written
      <4>2. \A i \in DOMAIN entries' : entries'[i] \in Entries
        BY <4>1
      <4>. QED
        BY <4>2 DEF Entries
    <3>. QED
      BY <1>3, <3>1 DEF Written, MovementDocs, TransferDocs
  <2>3. query.known \subseteq Nat
    BY DEF ReportsTypeOK
  <2>4. ASSUME NEW t \in query.known
        PROVE  /\ Marked(MovementDocs, "movementChange", t) => Marked(MovementDocs, "movementChange", t)'
               /\ Marked(TransferDocs, "transferChange", t) => Marked(TransferDocs, "transferChange", t)'
    <3>1. MovementDocs \subseteq DOMAIN entries /\ TransferDocs \subseteq DOMAIN entries /\ t \in Nat
      BY <2>3 DEF MovementDocs, TransferDocs
    <3>2. (\E i \in MovementDocs : entries[i].at >= t) => \E i \in MovementDocs' : entries'[i].at >= t
      BY <1>0, <2>2, <3>1
    <3>3. (\E i \in TransferDocs : entries[i].at >= t) => \E i \in TransferDocs' : entries'[i].at >= t
      BY <1>0, <2>2, <3>1
    <3>. QED
      BY <2>1, <3>2, <3>3 DEF Marked
  <2>. QED
    BY <2>1, <2>4 DEF MarksHeld
<1>4. ASSUME NEW k \in pending, Read(k) PROVE MarksHeld'
  <2>. SUFFICES ASSUME query.op = "marks" PROVE MarksHeld'
    BY <1>4 DEF Read, MarksHeld
  <2>1. ReadDone(k)
    BY <1>4, ReadIsDone
  <2>2. \A j \in Changes : j \notin pending' =>
          (j = k /\ got'[j] = Result(j)) \/ (j # k /\ j \notin pending /\ got'[j] = got[j])
    BY <2>1 DEF ReadDone, AllReads, Changes
  <2>3. \A j \in Changes : j \in pending' => j \in pending
    BY <2>1 DEF ReadDone
  <2>4. MovementDocs' = MovementDocs /\ TransferDocs' = TransferDocs /\ entries' = entries /\ query' = query
    BY <2>1 DEF ReadDone, MovementDocs, TransferDocs
  <2>5. query.known \subseteq Nat
    BY DEF ReportsTypeOK
  <2>6. MovementDocs \subseteq DOMAIN entries /\ TransferDocs \subseteq DOMAIN entries
    BY DEF MovementDocs, TransferDocs
  <2>7. ASSUME NEW t \in query.known
        PROVE  /\ Marked(MovementDocs, "movementChange", t) => Marked(MovementDocs, "movementChange", t)'
               /\ Marked(TransferDocs, "transferChange", t) => Marked(TransferDocs, "transferChange", t)'
    <3>1. (\E i \in MovementDocs : entries[i].at >= t) => Result("movementChange") >= t
      BY <1>0, <2>5, <2>6, ChangeRead
    <3>2. (\E i \in TransferDocs : entries[i].at >= t) => Result("transferChange") >= t
      BY <1>0, <2>5, <2>6, ChangeRead
    <3>. QED
      BY <2>1, <2>2, <2>3, <2>4, <3>1, <3>2 DEF Marked, Changes, ReadDone
  <2>8. \A j \in Changes : j \notin pending' => got'[j] \in Nat
    BY <2>2, ChangeRead DEF MarksHeld, Changes
  <2>. QED
    BY <2>4, <2>7, <2>8 DEF MarksHeld, Changes
<1>5. CASE UNCHANGED reportVars
  BY <1>5 DEF reportVars, MarksHeld, Marked, MovementDocs, TransferDocs
<1>. QED
  BY <1>1, <1>2, <1>3, <1>4, <1>5, ReportsStepKinds

LEMMA MarksCover ==
  ASSUME ReportsTypeOK, MarksHeld
  PROVE  LastUpdatedCovers
<1>. SUFFICES ASSUME query.op = "marks", pending = {}, NEW t \in query.known PROVE LastUpdated >= t
  BY DEF LastUpdatedCovers, Answered
<1>1. got.movementChange \in Nat /\ got.transferChange \in Nat /\ t \in Nat
  BY DEF MarksHeld, ReportsTypeOK
<1>2. got.movementChange >= t \/ got.transferChange >= t
  BY DEF MarksHeld, Marked
<1>. QED
  BY <1>1, <1>2 DEF LastUpdated

-----------------------------------------------------------------------------
(* Exports *)

(* The accounts of the rows that are read exist. *)
LEMMA RowsNamed ==
  ASSUME ReportsTypeOK, EntriesOK, query.op = "export"
  PROVE  \A row \in Result("items") : row[2] \in NamesOfAll
<1>1. Result("items") = {<<i, entries[i].account>> : i \in Matching(query.filter)}
  BY DEF Result
<1>2. Matching(query.filter) \subseteq DOMAIN entries
  BY DEF Matching, Kept, MovementDocs
<1>3. \A i \in DOMAIN entries : entries[i].account \in Wallets /\ wallet[entries[i].account].there
  BY EntryType DEF ReportsTypeOK, EntriesOK
<1>. QED
  BY <1>1, <1>2, <1>3 DEF NamesOfAll, Listed

LEMMA ExportKept ==
  ASSUME ReportsTypeOK, EntriesOK, ExportHeld, [ReportsNext]_reportVars
  PROVE  ExportHeld'
<1>1. CASE Asked
  <2>1. query'.op = "export" => pending' = {"items", "accountNames"}
    BY <1>1 DEF Asked, Reads, Ops
  <2>. QED
    BY <2>1 DEF ExportHeld
<1>2. CASE Responded
  BY <1>2 DEF Responded, ExportHeld
<1>3. CASE Written
  <2>1. UNCHANGED <<query, pending, got>> /\ \A a \in Wallets : wallet[a].there => wallet'[a].there
    BY <1>3 DEF Written
  <2>2. NamesOfAll \subseteq NamesOfAll'
    BY <2>1 DEF NamesOfAll, Listed
  <2>. QED
    BY <2>1, <2>2 DEF ExportHeld
<1>4. ASSUME NEW k \in pending, Read(k) PROVE ExportHeld'
  <2>. SUFFICES ASSUME query.op = "export" PROVE ExportHeld'
    BY <1>4 DEF Read, ExportHeld
  <2>1. ReadDone(k) /\ Awaited(k) \cap pending = {}
    BY <1>4, ReadIsDone
  <2>2. NamesOfAll' = NamesOfAll /\ query' = query
    BY <2>1 DEF ReadDone, NamesOfAll, Listed
  <2>3. CASE k = "items"
    <3>1. got'["items"] = Result("items") /\ "items" \notin pending' /\ "accountNames" \in pending'
      BY <2>1, <2>3 DEF ReadDone, ExportHeld
    <3>. QED
      BY <2>2, <3>1, RowsNamed DEF ExportHeld
  <2>4. CASE k = "accountNames"
    <3>1. "items" \notin pending
      BY <2>1, <2>4 DEF Awaited
    <3>2. got'["accountNames"] = NamesOfAll
      BY <2>1, <2>4 DEF ReadDone, Result
    <3>3. got'["items"] = got["items"] /\ "items" \notin pending' /\ "accountNames" \notin pending'
      BY <2>1, <2>4, <3>1 DEF ReadDone, AllReads
    <3>. QED
      BY <2>2, <3>1, <3>2, <3>3 DEF ExportHeld
  <2>5. CASE k \notin {"items", "accountNames"}
    <3>1. \A j \in {"items", "accountNames"} :
            got'[j] = got[j] /\ (j \in pending' <=> j \in pending)
      BY <2>1, <2>5 DEF ReadDone, AllReads
    <3>. QED
      BY <2>2, <3>1 DEF ExportHeld
  <2>. QED
    BY <2>3, <2>4, <2>5
<1>5. CASE UNCHANGED reportVars
  BY <1>5 DEF reportVars, ExportHeld, NamesOfAll, Listed
<1>. QED
  BY <1>1, <1>2, <1>3, <1>4, <1>5, ReportsStepKinds

-----------------------------------------------------------------------------
(* Pages *)

LEMMA SamePage ==
  ASSUME UNCHANGED <<entries, query>>
  PROVE  /\ Matching(query.filter)' = Matching(query.filter)
         /\ Slice(Matching(query.filter), query.offset, Limit)'
              = Slice(Matching(query.filter), query.offset, Limit)
<1>1. Matching(query.filter)' = Matching(query.filter)
  BY DEF Matching, Kept, MovementDocs
<1>. QED
  BY <1>1 DEF Slice, Before

LEMMA SameAnswers ==
  ASSUME UNCHANGED <<entries, query>>
  PROVE  Result("items")' = Result("items") /\ Result("total")' = Result("total")
<1>1. /\ Matching(query.filter)' = Matching(query.filter)
      /\ Slice(Matching(query.filter), query.offset, Limit)'
              = Slice(Matching(query.filter), query.offset, Limit)
  BY SamePage
<1>. DEFINE m == Matching(query.filter)
            s == Slice(Matching(query.filter), query.offset, Limit)
<1>2. /\ Result("items") = {<<i, entries[i].account>> : i \in IF query.op = "export" THEN m ELSE s}
      /\ Result("total") = Cardinality(m)
  BY DEF Result
<1>3. /\ Result("items")' = {<<i, entries'[i].account>> : i \in IF query'.op = "export" THEN m' ELSE s'}
      /\ Result("total")' = Cardinality(m')
  BY DEF Result
<1>4. m' = m /\ s' = s /\ entries' = entries /\ query' = query
  BY <1>1
<1>. HIDE DEF m, s
<1>. QED
  BY <1>2, <1>3, <1>4

LEMMA PageKept ==
  ASSUME ReportsTypeOK, EntriesOK, PageHeld, [ReportsNext]_reportVars
  PROVE  PageHeld'
<1>1. CASE Asked
  <2>1. query'.op = "history" => pending' = {"items", "total"}
    BY <1>1 DEF Asked, Reads, Ops
  <2>. QED
    BY <2>1 DEF PageHeld
<1>2. CASE Responded
  BY <1>2 DEF Responded, PageHeld
<1>3. CASE Written
  <2>1. now' # query'.since
    <3>1. now \in Nat /\ query.since \in 0 .. now
      BY ReportsAssumption DEF ReportsTypeOK, ReportsAssumption
    <3>2. now' = now + 1 /\ query' = query
      BY <1>3 DEF Written
    <3>. QED
      BY <3>1, <3>2
  <2>. QED
    BY <2>1 DEF PageHeld, Undisturbed
<1>4. ASSUME NEW k \in pending, Read(k) PROVE PageHeld'
  <2>. SUFFICES ASSUME query.op = "history", Undisturbed PROVE PageHeld'
    BY <1>4 DEF Read, PageHeld, Undisturbed
  <2>1. ReadDone(k)
    BY <1>4, ReadIsDone
  <2>2. UNCHANGED <<entries, query>>
    BY <2>1 DEF ReadDone
  <2>3. Result("items")' = Result("items") /\ Result("total")' = Result("total")
    BY <2>2, SameAnswers
  <2>4. \A j \in {"items", "total"} : j \notin pending' =>
          \/ j = k /\ got'[j] = Result(j)
          \/ j \notin pending /\ got'[j] = got[j]
    BY <2>1 DEF ReadDone, AllReads
  <2>5. \A j \in {"items", "total"} : j \notin pending' => got'[j] = Result(j)
    BY <2>4 DEF PageHeld
  <2>6. /\ "items" \notin pending' => got'["items"] = Result("items")'
        /\ "total" \notin pending' => got'["total"] = Result("total")'
    BY <2>3, <2>5
  <2>. QED
    BY <2>6 DEF PageHeld
<1>5. CASE UNCHANGED reportVars
  <2>1. UNCHANGED <<entries, query>> /\ pending' = pending /\ got' = got /\ now' = now
    BY <1>5 DEF reportVars
  <2>2. Result("items")' = Result("items") /\ Result("total")' = Result("total")
    BY <2>1, SameAnswers
  <2>3. ASSUME query.op = "history", Undisturbed
        PROVE  /\ "items" \notin pending' => got'["items"] = Result("items")'
               /\ "total" \notin pending' => got'["total"] = Result("total")'
    BY <2>1, <2>2, <2>3 DEF PageHeld
  <2>. QED
    BY <2>1, <2>3 DEF PageHeld, Undisturbed
<1>. QED
  BY <1>1, <1>2, <1>3, <1>4, <1>5, ReportsStepKinds

-----------------------------------------------------------------------------
(* The place of an entry among those that match: no two have the same, and *)
(* the places are 0, 1, and so on.                                         *)

Place(S) == [i \in S |-> Cardinality(Before(S, i))]

LEMMA DaysAreNumbers == \A day \in Days : day \in Int
  BY DayHasMonth

LEMMA PlaceType ==
  ASSUME entries \in Seq(Entries), NEW S \in SUBSET DOMAIN entries
  PROVE  /\ IsFiniteSet(S) /\ Cardinality(S) \in Nat
         /\ Place(S) \in [S -> 0 .. Cardinality(S) - 1]
<1>1. IsFiniteSet(S) /\ Cardinality(S) \in Nat
  BY DocsFinite, FS_Subset, FS_CardinalityType
<1>2. ASSUME NEW i \in S PROVE Cardinality(Before(S, i)) \in 0 .. Cardinality(S) - 1
  <2>1. S \in SUBSET DOMAIN entries /\ entries[i].day \in Int /\ i \in Nat
    BY EntryType, DocsFinite, DaysAreNumbers
  <2>2. Before(S, i) \in SUBSET S /\ i \notin Before(S, i)
    BY <2>1 DEF Before
  <2>3. /\ Cardinality(Before(S, i)) \in Nat /\ Cardinality(Before(S, i)) <= Cardinality(S)
        /\ Cardinality(S) = Cardinality(Before(S, i)) => S = Before(S, i)
    BY <1>1, <2>2, FS_Subset, FS_CardinalityType
  <2>. QED
    BY <1>1, <2>2, <2>3
<1>. QED
  BY <1>1, <1>2 DEF Place

LEMMA BeforeGrows ==
  ASSUME entries \in Seq(Entries), NEW S \in SUBSET DOMAIN entries,
         NEW i \in S, NEW j \in S, j \in Before(S, i)
  PROVE  Place(S)[j] < Place(S)[i]
<1>1. /\ entries[i].day \in Int /\ i \in Nat /\ entries[j].day \in Int /\ j \in Nat
      /\ \A l \in S : entries[l].day \in Int /\ l \in Nat
  BY EntryType, DocsFinite, DaysAreNumbers
<1>2. Before(S, j) \subseteq Before(S, i) /\ j \notin Before(S, j)
  BY <1>1 DEF Before
<1>3. Before(S, i) \subseteq S /\ IsFiniteSet(S)
  BY PlaceType DEF Before
<1>4. IsFiniteSet(Before(S, i))
  BY <1>3, FS_Subset
<1>5. /\ IsFiniteSet(Before(S, j)) /\ Cardinality(Before(S, j)) <= Cardinality(Before(S, i))
      /\ Cardinality(Before(S, i)) = Cardinality(Before(S, j)) => Before(S, i) = Before(S, j)
  BY <1>2, <1>4, FS_Subset
<1>6. Cardinality(Before(S, i)) \in Nat /\ Cardinality(Before(S, j)) \in Nat
  BY <1>4, <1>5, FS_CardinalityType
<1>. QED
  BY <1>2, <1>5, <1>6 DEF Place

LEMMA PlacesApart ==
  ASSUME entries \in Seq(Entries), NEW S \in SUBSET DOMAIN entries
  PROVE  \A i, j \in S : i # j => Place(S)[i] # Place(S)[j]
<1>. SUFFICES ASSUME NEW i \in S, NEW j \in S, i # j PROVE Place(S)[i] # Place(S)[j]
  OBVIOUS
<1>1. /\ entries[i].day \in Int /\ i \in Nat /\ entries[j].day \in Int /\ j \in Nat
  BY EntryType, DocsFinite, DaysAreNumbers
<1>2. j \in Before(S, i) \/ i \in Before(S, j)
  BY <1>1 DEF Before
<1>3. Place(S)[i] \in 0 .. Cardinality(S) - 1 /\ Place(S)[j] \in 0 .. Cardinality(S) - 1
      /\ Cardinality(S) \in Nat
  BY PlaceType
<1>4. Place(S)[j] < Place(S)[i] \/ Place(S)[i] < Place(S)[j]
  BY <1>2, BeforeGrows
<1>. QED
  BY <1>3, <1>4

LEMMA PlaceTaken ==
  ASSUME entries \in Seq(Entries), NEW S \in SUBSET DOMAIN entries,
         NEW n \in Nat, n < Cardinality(S)
  PROVE  \E i \in S : Place(S)[i] = n
<1>. DEFINE size == Cardinality(S)
            T == 0 .. size - 1
<1>1. IsFiniteSet(S) /\ size \in Nat /\ Place(S) \in [S -> T]
  BY PlaceType
<1>2. Place(S) \in Injection(S, T)
  BY <1>1, PlacesApart DEF Injection, IsInjective
<1>3. IsFiniteSet(T) /\ Cardinality(T) = size
  <2>. HIDE DEF size
  <2>1. size \in Nat /\ size - 1 \in Int
    BY <1>1
  <2>2. IsFiniteSet(T) /\ Cardinality(T) = IF 0 > size - 1 THEN 0 ELSE (size - 1) - 0 + 1
    BY <2>1, FS_Interval
  <2>. QED
    BY <2>1, <2>2
<1>4. Place(S) \in Surjection(S, T)
  BY <1>2, <1>3, FS_Injection
<1>5. n \in T
  BY <1>1
<1>. HIDE DEF T
<1>. QED
  BY <1>4, <1>5 DEF Surjection

(* Some places hold no more entries than there are of them. *)
LEMMA PlacesHold ==
  ASSUME entries \in Seq(Entries), NEW S \in SUBSET DOMAIN entries, NEW U \in SUBSET S,
         NEW a \in Nat, NEW n \in Nat, \A i \in U : Place(S)[i] \in a .. a + n - 1
  PROVE  IsFiniteSet(U) /\ Cardinality(U) \in Nat /\ Cardinality(U) <= n
<1>. DEFINE T == a .. a + n - 1
            f == [i \in U |-> Place(S)[i]]
<1>1. IsFiniteSet(T) /\ Cardinality(T) = n
  <2>1. IsFiniteSet(T) /\ Cardinality(T) = IF a > a + n - 1 THEN 0 ELSE (a + n - 1) - a + 1
    BY FS_Interval
  <2>. QED
    BY <2>1
<1>2. f \in [U -> T]
  OBVIOUS
<1>3. f \in Injection(U, T)
  BY <1>2, PlacesApart DEF Injection, IsInjective
<1>. HIDE DEF T, f
<1>4. IsFiniteSet(U) /\ Cardinality(U) <= Cardinality(T)
  BY <1>1, <1>3, FS_Injection
<1>. QED
  BY <1>1, <1>4, FS_CardinalityType

(* Between the entries of a page and those there are, some are left        *)
(* exactly when one comes after the page.                                  *)
LEMMA PageFull ==
  ASSUME entries \in Seq(Entries), NEW S \in SUBSET DOMAIN entries,
         NEW offset \in Nat, Limit \in Nat \ {0}
  PROVE  offset + Cardinality(Slice(S, offset, Limit)) < Cardinality(S)
           <=> Slice(S, offset + Limit, 1) # {}
<1>. DEFINE page == Slice(S, offset, Limit)
            size == Cardinality(S)
<1>1. /\ IsFiniteSet(S) /\ size \in Nat
      /\ \A i \in S : Place(S)[i] \in 0 .. size - 1 /\ Place(S)[i] = Cardinality(Before(S, i))
  BY PlaceType DEF Place
<1>2. page \in SUBSET S /\ \A i \in S : i \in page <=> Place(S)[i] \in offset .. offset + Limit - 1
  BY <1>1 DEF Slice
<1>3. Slice(S, offset + Limit, 1) # {} <=> \E i \in S : Place(S)[i] = offset + Limit
  BY <1>1 DEF Slice
<1>4. Slice(S, offset + Limit, 1) # {} <=> offset + Limit < size
  BY <1>1, <1>3, PlaceTaken
<1>. HIDE DEF page, size
<1>5. Cardinality(page) \in Nat /\ Cardinality(page) <= Limit
  BY <1>2, PlacesHold
<1>6. ASSUME size <= offset + Limit PROVE size <= offset + Cardinality(page)
  <2>1. \A i \in S \ page : Place(S)[i] \in 0 .. 0 + offset - 1
    BY <1>1, <1>2, <1>6
  <2>2. Cardinality(S \ page) <= offset
    <3>1. S \ page \in SUBSET S
      OBVIOUS
    <3>. QED
      BY <2>1, <3>1, PlacesHold
  <2>3. Cardinality(S \ page) = Cardinality(S) - Cardinality(S \cap page)
    BY <1>1, FS_Difference
  <2>4. S \cap page = page
    BY <1>2
  <2>5. Cardinality(S \cap page) = Cardinality(page)
    BY <2>4
  <2>6. Cardinality(S) = size
    BY DEF size
  <2>. QED
    BY <1>1, <1>5, <2>2, <2>3, <2>5, <2>6
<1>. QED
  BY <1>1, <1>4, <1>5, <1>6 DEF page, size

LEMMA PageTells ==
  ASSUME ReportsTypeOK, PageHeld, ExportHeld
  PROVE  HistoryTells
<1>1. ASSUME Answered("export"), NEW row \in got.items PROVE row[2] \in got.accountNames
  BY <1>1 DEF Answered, ExportHeld
<1>2. ASSUME Answered("history"), Undisturbed
      PROVE  HasMore <=> Slice(Matching(query.filter), query.offset + Limit, 1) # {}
  <2>. DEFINE m == Matching(query.filter)
              s == Slice(m, query.offset, Limit)
              f == [i \in s |-> <<i, entries[i].account>>]
  <2>0. Limit \in Nat \ {0}
    BY ReportsAssumption DEF ReportsAssumption
  <2>1. entries \in Seq(Entries) /\ query.offset \in Nat
    BY <2>0 DEF ReportsTypeOK
  <2>2. m \in SUBSET DOMAIN entries /\ s \in SUBSET m
    BY DEF Matching, Kept, MovementDocs, Slice
  <2>3. got.items = {<<i, entries[i].account>> : i \in s} /\ got.total = Cardinality(m)
    BY <1>2 DEF Answered, PageHeld, Result
  <2>4. IsFiniteSet(s)
    BY <2>1, <2>2, PlaceType
  <2>5. f \in Bijection(s, got.items)
    BY <2>3 DEF Bijection, Injection, Surjection, IsInjective
  <2>. HIDE DEF m, s, f
  <2>6. Cardinality(got.items) = Cardinality(s)
    BY <2>4, <2>5, FS_Bijection DEF ExistsBijection
  <2>7. query.offset + Cardinality(s) < Cardinality(m) <=> Slice(m, query.offset + Limit, 1) # {}
    BY <2>0, <2>1, <2>2, PageFull DEF s
  <2>. QED
    BY <2>3, <2>6, <2>7 DEF HasMore, m
<1>. QED
  BY <1>1, <1>2 DEF HistoryTells

-----------------------------------------------------------------------------
(* The invariant, and what follows from it. *)

LEMMA ReportsInitOK ==
  ASSUME ReportsInit
  PROVE  ReportsInv
<1>1. /\ shut = {} /\ entries = <<>> /\ planned = Zero(Sorts) /\ now = 0
      /\ query = NoQuery /\ pending = {} /\ got = Blank
  BY DEF ReportsInit
<1>2. wallet \in [Wallets -> [there : BOOLEAN, opening : Amounts, archived : BOOLEAN]]
  <2>1. (CHOOSE n \in Amounts : TRUE) \in Amounts
    BY ReportsAssumption DEF ReportsAssumption
  <2>. QED
    BY <2>1 DEF ReportsInit
<1>3. query.op = "none" /\ query.since = 0 /\ query.known = {} /\ query.offset = 0
  BY <1>1 DEF NoQuery
<1>4. now \in 0 .. MaxPosts
  BY <1>1, ReportsAssumption DEF ReportsAssumption
<1>5. ReportsTypeOK
  BY <1>1, <1>2, <1>3, <1>4 DEF ReportsTypeOK, Zero
<1>6. EntriesOK
  BY <1>1 DEF EntriesOK
<1>. QED
  BY <1>3, <1>5, <1>6 DEF ReportsInv, ListHeld, MarksHeld, ExportHeld, PageHeld

(* In every state the entries are of their types and no newer than the     *)
(* clock, the transfers a list has read cancel out, the marks read or      *)
(* still to be read cover what was known when they were asked for, the     *)
(* rows of an export have accounts that exist, and a page nothing was      *)
(* written into is what would be read again.                               *)
THEOREM ReportsInvariant == ReportsSpec => []ReportsInv
<1>1. ASSUME ReportsInv, [ReportsNext]_reportVars PROVE ReportsInv'
  BY <1>1, TypesKept, EntriesStay, ListKept, MarksKept, ExportKept, PageKept DEF ReportsInv
<1>. QED
  BY <1>1, ReportsInitOK, PTL DEF ReportsSpec

(* A list of all accounts (financial-accounts.service) shows the worth it  *)
(* would show without transfers, whatever is written between its reads:    *)
(* one aggregate returns both ends of every transfer.                      *)
THEOREM TransfersNeitherMakeNorLose == ReportsSpec => []TransfersConserve
<1>1. ReportsInv => TransfersConserve
  BY ListAddsUp DEF ReportsInv
<1>. QED
  BY <1>1, ReportsInvariant, PTL

(* lastUpdated of the dashboard is not older than any change, deletions    *)
(* included, that was made before the dashboard was asked for.             *)
THEOREM MarksCoverChanges == ReportsSpec => []LastUpdatedCovers
<1>1. ReportsInv => LastUpdatedCovers
  BY MarksCover DEF ReportsInv
<1>. QED
  BY <1>1, ReportsInvariant, PTL

(* The aggregates of one store agree: accounts with months, the summary of *)
(* a month with its history, budget lines with the expense of the month.   *)
THEOREM BooksAlwaysReconcile == ReportsSpec => []BooksReconcile
<1>1. ReportsInv => BooksReconcile
  BY BooksAgree DEF ReportsInv, ReportsTypeOK
<1>. QED
  BY <1>1, ReportsInvariant, PTL

(* An export names the account of each of its rows, and a page of history  *)
(* that nothing was written into says there is more exactly when there is. *)
THEOREM HistoryAlwaysTells == ReportsSpec => []HistoryTells
<1>1. ReportsInv => HistoryTells
  BY PageTells DEF ReportsInv
<1>. QED
  BY <1>1, ReportsInvariant, PTL
=============================================================================
