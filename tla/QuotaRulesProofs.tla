--------------------------- MODULE QuotaRulesProofs ---------------------------
(***************************************************************************)
(* Lemmas about the operators of QuotaRules, for any ledger and settings:  *)
(* releasing, reserving and settling keep a ledger well formed, which rows *)
(* they touch, what they do to the sums of reserved tokens, what a bucket  *)
(* hands out, and how long a denied request has to wait.  The coordinators *)
(* and the Node runtime are proved from these.                             *)
(*                                                                         *)
(* First, sums over finite sets: what SumFunctionOnSet returns when an     *)
(* element is added or taken out, when the set is split, and when the      *)
(* summands change.  The models add up tokens with it, those of the open   *)
(* reservations and of the days of a ledger, and the learners outcomes.    *)
(* Each proof by induction is one on the size of a subset: were there      *)
(* counterexamples, LeastNat would give a smallest, and without its chosen *)
(* element it would be a smaller one.                                      *)
(***************************************************************************)
EXTENDS QuotaRules, Functions, FiniteSetTheorems, WellFoundedInduction, TLAPS

-----------------------------------------------------------------------------
(* Sums.                                                                   *)

(* The element a fold takes next.                                          *)
Chosen(s) == CHOOSE x \in s : TRUE

(* The function by which the library defines a sum over the members of     *)
(* Sets.                                                                   *)
FoldOf(g, f, Sets) ==
    g = [s \in Sets |-> IF s = {} THEN 0 ELSE f[Chosen(s)] + g[s \ {Chosen(s)}]]

(* A set of naturals has a least element.                                  *)
LEMMA LeastNat ==
    ASSUME NEW S \in SUBSET Nat, S # {}
    PROVE  \E m \in S : \A n \in S : m <= n
<1>1. PICK m \in S : \A n \in S : <<n, m>> \notin OpToRel(<, Nat)
  BY WFMin, NatLessThanWellFounded, Zenon
<1>2. \A n \in S : ~(n < m)
  BY <1>1, Zenon DEF OpToRel
<1> QED
  BY <1>2

(* Without its chosen element a finite set is smaller by one.              *)
LEMMA ChosenRemoves ==
    ASSUME NEW S, IsFiniteSet(S), S # {}
    PROVE  /\ Chosen(S) \in S
           /\ IsFiniteSet(S \ {Chosen(S)})
           /\ Cardinality(S) \in Nat /\ Cardinality(S \ {Chosen(S)}) \in Nat
           /\ Cardinality(S \ {Chosen(S)}) = Cardinality(S) - 1
<1>1. Chosen(S) \in S
  BY DEF Chosen
<1> QED
  BY <1>1, FS_RemoveElement, FS_CardinalityType

(* The function that defines a sum exists.                                 *)
LEMMA FoldExists ==
    ASSUME NEW f, NEW S, IsFiniteSet(S)
    PROVE  \E g : FoldOf(g, f, SUBSET S)
<1> DEFINE Layer(n) == {s \in SUBSET S : Cardinality(s) <= n}
           Bad == {n \in Nat : ~ \E g : FoldOf(g, f, Layer(n))}
<1>0. \A s \in SUBSET S : IsFiniteSet(s) /\ Cardinality(s) \in Nat /\ Cardinality(s) <= Cardinality(S)
  BY FS_Subset, FS_CardinalityType
<1>1. CASE Bad = {}
  <2>1. Cardinality(S) \in Nat /\ SUBSET S = Layer(Cardinality(S))
    BY <1>0
  <2> QED
    BY <1>1, <2>1
<1>2. CASE Bad # {}
  <2>1. PICK m \in Bad : \A n \in Bad : m <= n
    BY <1>2, LeastNat
  <2>2. m # 0
    <3>1. Layer(0) = {{}}
      BY <1>0, FS_EmptySet
    <3> DEFINE g == [s \in {{}} |-> 0]
    <3>2. FoldOf(g, f, Layer(0))
      BY <3>1 DEF FoldOf
    <3> HIDE DEF Layer, g
    <3> QED
      BY <2>1, <3>2
  <2>3. PICK g : FoldOf(g, f, Layer(m - 1))
    <3> HIDE DEF Layer
    <3>1. m \in Nat /\ m - 1 \in Nat /\ m - 1 < m
      BY <2>1, <2>2
    <3>2. m - 1 \notin Bad
      BY <2>1, <3>1
    <3> QED
      BY <3>1, <3>2
  <2> DEFINE h == [s \in Layer(m) |-> IF s = {} THEN 0 ELSE f[Chosen(s)] + g[s \ {Chosen(s)}]]
  <2>4. Layer(m - 1) \subseteq Layer(m)
    BY <1>0, <2>1
  <2>5. \A s \in Layer(m - 1) : h[s] = g[s]
    BY <2>3, <2>4 DEF FoldOf
  <2>6. ASSUME NEW s \in Layer(m), s # {}
        PROVE  s \ {Chosen(s)} \in Layer(m - 1)
    <3>1. s \in SUBSET S /\ IsFiniteSet(s) /\ Cardinality(s) <= m /\ m \in Nat
      BY <1>0, <2>1
    <3>2. /\ Cardinality(s) \in Nat /\ Cardinality(s \ {Chosen(s)}) = Cardinality(s) - 1
          /\ s \ {Chosen(s)} \in SUBSET S
      BY <2>6, <3>1, ChosenRemoves
    <3> QED
      BY <3>1, <3>2
  <2>7. FoldOf(h, f, Layer(m))
    BY <2>5, <2>6 DEF FoldOf
  <2> QED
    BY <2>1, <2>7
<1> QED
  BY <1>1, <1>2

(* FoldOf over a set and over a part of it agree on that part.              *)
LEMMA FoldsAgree ==
    ASSUME NEW f, NEW S, IsFiniteSet(S), NEW T \in SUBSET S
    PROVE  \A g, h : FoldOf(g, f, SUBSET S) /\ FoldOf(h, f, SUBSET T) => g[T] = h[T]
<1> SUFFICES ASSUME NEW g, FoldOf(g, f, SUBSET S), NEW h, FoldOf(h, f, SUBSET T)
             PROVE  g[T] = h[T]
  OBVIOUS
<1> DEFINE Bad == {n \in Nat : \E U \in SUBSET T : Cardinality(U) = n /\ g[U] # h[U]}
<1>0. \A s \in SUBSET T : s \in SUBSET S /\ IsFiniteSet(s) /\ Cardinality(s) \in Nat
  BY FS_Subset, FS_CardinalityType
<1>1. CASE Bad = {}
  BY <1>0, <1>1
<1>2. CASE Bad # {}
  <2>1. PICK m \in Bad : \A n \in Bad : m <= n
    BY <1>2, LeastNat
  <2>2. PICK U \in SUBSET T : Cardinality(U) = m /\ g[U] # h[U]
    BY <2>1
  <2>3. U # {}
    BY <1>0, <2>2 DEF FoldOf
  <2> DEFINE V == U \ {Chosen(U)}
  <2>4. V \in SUBSET T /\ Cardinality(V) = m - 1 /\ m - 1 \in Nat
    BY <1>0, <2>2, <2>3, ChosenRemoves
  <2>5. g[V] = h[V]
    BY <2>1, <2>4
  <2>6. g[U] = f[Chosen(U)] + g[V] /\ h[U] = f[Chosen(U)] + h[V]
    BY <1>0, <2>2, <2>3 DEF FoldOf
  <2> QED
    BY <2>2, <2>5, <2>6
<1> QED
  BY <1>1, <1>2

(* A sum is the value of that function.                                    *)
LEMMA SumIsFold ==
    ASSUME NEW f, NEW S, IsFiniteSet(S)
    PROVE  \E g : FoldOf(g, f, SUBSET S) /\ SumFunctionOnSet(f, S) = g[S]
<1> DEFINE chosen ==
      CHOOSE g : g = [s \in SUBSET S |->
                        IF s = {} THEN 0
                        ELSE f[CHOOSE x \in s : TRUE] + g[s \ {CHOOSE x \in s : TRUE}]]
<1>1. SumFunctionOnSet(f, S) = chosen[S]
  BY DEF SumFunctionOnSet, FoldFunctionOnSet, MapThenFoldSet
<1>2. FoldOf(chosen, f, SUBSET S)
  <2>1. \E g : FoldOf(g, f, SUBSET S)
    BY FoldExists
  <2> QED
    BY <2>1, Zenon DEF FoldOf, Chosen
<1> HIDE DEF chosen
<1> QED
  BY <1>1, <1>2

(* The empty sum.                                                         *)
LEMMA SumEmpty == ASSUME NEW f PROVE SumFunctionOnSet(f, {}) = 0
<1>1. IsFiniteSet({})
  BY FS_EmptySet
<1>2. PICK g : FoldOf(g, f, SUBSET {}) /\ SumFunctionOnSet(f, {}) = g[{}]
  BY <1>1, SumIsFold
<1>3. g[{}] = 0
  BY <1>2 DEF FoldOf
<1> QED
  BY <1>2, <1>3

(* A sum is its chosen summand plus the rest.                              *)
LEMMA SumChosen ==
    ASSUME NEW f, NEW S, IsFiniteSet(S), S # {}
    PROVE  SumFunctionOnSet(f, S) = f[Chosen(S)] + SumFunctionOnSet(f, S \ {Chosen(S)})
<1> DEFINE T == S \ {Chosen(S)}
<1>1. IsFiniteSet(T) /\ T \in SUBSET S
  BY ChosenRemoves
<1>2. PICK g : FoldOf(g, f, SUBSET S) /\ SumFunctionOnSet(f, S) = g[S]
  BY SumIsFold
<1>3. PICK h : FoldOf(h, f, SUBSET T) /\ SumFunctionOnSet(f, T) = h[T]
  BY <1>1, SumIsFold
<1>4. g[T] = h[T]
  <2> HIDE DEF T
  <2> QED
    BY <1>1, <1>2, <1>3, FoldsAgree
<1>5. g[S] = f[Chosen(S)] + g[T]
  BY <1>2 DEF FoldOf
<1> QED
  BY <1>2, <1>3, <1>4, <1>5

(* A sum of integers is an integer; of naturals, a natural.                *)
LEMMA SumType ==
    ASSUME NEW f, NEW S, IsFiniteSet(S), \A x \in S : f[x] \in Int
    PROVE  /\ SumFunctionOnSet(f, S) \in Int
           /\ (\A x \in S : f[x] \in Nat) => SumFunctionOnSet(f, S) \in Nat
<1> DEFINE OK(T) == /\ SumFunctionOnSet(f, T) \in Int
                    /\ (\A x \in T : f[x] \in Nat) => SumFunctionOnSet(f, T) \in Nat
           Bad == {n \in Nat : \E T \in SUBSET S : Cardinality(T) = n /\ ~OK(T)}
<1>0. \A T \in SUBSET S : IsFiniteSet(T) /\ Cardinality(T) \in Nat
  BY FS_Subset, FS_CardinalityType
<1>1. CASE Bad = {}
  BY <1>0, <1>1
<1>2. CASE Bad # {}
  <2>1. PICK m \in Bad : \A n \in Bad : m <= n
    BY <1>2, LeastNat
  <2>2. PICK T \in SUBSET S : Cardinality(T) = m /\ ~OK(T)
    BY <2>1
  <2>3. T # {}
    BY <2>2, SumEmpty
  <2> DEFINE V == T \ {Chosen(T)}
  <2>4. V \in SUBSET S /\ Cardinality(V) = m - 1 /\ m - 1 \in Nat /\ Chosen(T) \in T
    BY <1>0, <2>2, <2>3, ChosenRemoves
  <2>5. OK(V)
    BY <2>1, <2>4
  <2>6. SumFunctionOnSet(f, T) = f[Chosen(T)] + SumFunctionOnSet(f, V)
    BY <1>0, <2>2, <2>3, SumChosen
  <2>7. f[Chosen(T)] \in Int
    BY <2>4
  <2> QED
    BY <2>2, <2>4, <2>5, <2>6, <2>7
<1> QED
  BY <1>1, <1>2

(* Any element may be taken out of a sum.                                  *)
LEMMA SumRemove ==
    ASSUME NEW f, NEW S, IsFiniteSet(S), \A x \in S : f[x] \in Int, NEW x \in S
    PROVE  SumFunctionOnSet(f, S) = f[x] + SumFunctionOnSet(f, S \ {x})
<1> DEFINE OK(T) == \A y \in T : SumFunctionOnSet(f, T) = f[y] + SumFunctionOnSet(f, T \ {y})
           Bad == {n \in Nat : \E T \in SUBSET S : Cardinality(T) = n /\ ~OK(T)}
<1>0. \A T \in SUBSET S : /\ IsFiniteSet(T) /\ Cardinality(T) \in Nat
                          /\ SumFunctionOnSet(f, T) \in Int
  <2>1. ASSUME NEW T \in SUBSET S
        PROVE  IsFiniteSet(T) /\ Cardinality(T) \in Nat /\ \A y \in T : f[y] \in Int
    BY FS_Subset, FS_CardinalityType
  <2>2. ASSUME NEW T \in SUBSET S
        PROVE  SumFunctionOnSet(f, T) \in Int
    BY <2>1, SumType
  <2> QED
    BY <2>1, <2>2
<1>1. CASE Bad = {}
  BY <1>0, <1>1
<1>2. CASE Bad # {}
  <2>1. PICK m \in Bad : \A n \in Bad : m <= n
    BY <1>2, LeastNat
  <2>a. PICK T \in SUBSET S : Cardinality(T) = m /\ ~OK(T)
    BY <2>1
  <2>2. PICK y \in T : /\ Cardinality(T) = m
                      /\ SumFunctionOnSet(f, T) # f[y] + SumFunctionOnSet(f, T \ {y})
    BY <2>a
  <2> DEFINE p == Chosen(T)
             V == T \ {p}
             W == T \ {y}
  <2>3. V \in SUBSET S /\ Cardinality(V) = m - 1 /\ m - 1 \in Nat /\ p \in T
    BY <1>0, <2>2, ChosenRemoves
  <2>4. SumFunctionOnSet(f, T) = f[p] + SumFunctionOnSet(f, V)
    BY <1>0, <2>2, SumChosen
  <2>5. p # y
    BY <2>2, <2>4
  <2>6. W \in SUBSET S /\ Cardinality(W) = m - 1
    BY <1>0, <2>2, FS_RemoveElement
  <2>7. OK(V) /\ OK(W)
    BY <2>1, <2>3, <2>6
  <2> HIDE DEF p
  <2>8. /\ SumFunctionOnSet(f, V) = f[y] + SumFunctionOnSet(f, V \ {y})
        /\ SumFunctionOnSet(f, W) = f[p] + SumFunctionOnSet(f, W \ {p})
    BY <2>2, <2>3, <2>5, <2>7
  <2>9. V \ {y} = W \ {p}
    OBVIOUS
  <2>10. f[y] \in Int /\ f[p] \in Int /\ SumFunctionOnSet(f, W \ {p}) \in Int
    BY <1>0, <2>2, <2>3, <2>6
  <2> DEFINE sumT == SumFunctionOnSet(f, T)
             sumV == SumFunctionOnSet(f, V)
             sumW == SumFunctionOnSet(f, W)
             sumU == SumFunctionOnSet(f, W \ {p})
  <2>11. /\ sumT = f[p] + sumV /\ sumV = f[y] + sumU /\ sumW = f[p] + sumU
         /\ sumT # f[y] + sumW
    BY <2>2, <2>4, <2>8, <2>9
  <2> HIDE DEF sumT, sumV, sumW, sumU
  <2> QED
    BY <2>10, <2>11 DEF sumU
<1> QED
  BY <1>1, <1>2

(* Summands that agree have the same sum.                                  *)
LEMMA SumAgree ==
    ASSUME NEW f, NEW g, NEW S, IsFiniteSet(S), \A x \in S : f[x] = g[x]
    PROVE  SumFunctionOnSet(f, S) = SumFunctionOnSet(g, S)
<1> DEFINE OK(T) == SumFunctionOnSet(f, T) = SumFunctionOnSet(g, T)
           Bad == {n \in Nat : \E T \in SUBSET S : Cardinality(T) = n /\ ~OK(T)}
<1>0. \A T \in SUBSET S : IsFiniteSet(T) /\ Cardinality(T) \in Nat
  BY FS_Subset, FS_CardinalityType
<1>1. CASE Bad = {}
  BY <1>0, <1>1
<1>2. CASE Bad # {}
  <2>1. PICK m \in Bad : \A n \in Bad : m <= n
    BY <1>2, LeastNat
  <2>2. PICK T \in SUBSET S : Cardinality(T) = m /\ ~OK(T)
    BY <2>1
  <2>3. T # {}
    BY <2>2, SumEmpty
  <2> DEFINE V == T \ {Chosen(T)}
  <2>4. V \in SUBSET S /\ Cardinality(V) = m - 1 /\ m - 1 \in Nat /\ Chosen(T) \in T
    BY <1>0, <2>2, <2>3, ChosenRemoves
  <2>5. OK(V)
    BY <2>1, <2>4
  <2>6. /\ SumFunctionOnSet(f, T) = f[Chosen(T)] + SumFunctionOnSet(f, V)
        /\ SumFunctionOnSet(g, T) = g[Chosen(T)] + SumFunctionOnSet(g, V)
    BY <1>0, <2>2, <2>3, SumChosen
  <2>7. f[Chosen(T)] = g[Chosen(T)]
    BY <2>4
  <2> QED
    BY <2>2, <2>5, <2>6, <2>7
<1> QED
  BY <1>1, <1>2

(* A sum of zeros is zero.                                                 *)
LEMMA SumOfZeros ==
    ASSUME NEW f, NEW S, IsFiniteSet(S), \A x \in S : f[x] = 0
    PROVE  SumFunctionOnSet(f, S) = 0
<1> DEFINE OK(T) == SumFunctionOnSet(f, T) = 0
           Bad == {n \in Nat : \E T \in SUBSET S : Cardinality(T) = n /\ ~OK(T)}
<1>0. \A T \in SUBSET S : IsFiniteSet(T) /\ Cardinality(T) \in Nat
  BY FS_Subset, FS_CardinalityType
<1>1. CASE Bad = {}
  BY <1>0, <1>1
<1>2. CASE Bad # {}
  <2>1. PICK m \in Bad : \A n \in Bad : m <= n
    BY <1>2, LeastNat
  <2>2. PICK T \in SUBSET S : Cardinality(T) = m /\ ~OK(T)
    BY <2>1
  <2>3. T # {}
    BY <2>2, SumEmpty
  <2> DEFINE V == T \ {Chosen(T)}
  <2>4. V \in SUBSET S /\ Cardinality(V) = m - 1 /\ m - 1 \in Nat /\ Chosen(T) \in T
    BY <1>0, <2>2, <2>3, ChosenRemoves
  <2>5. OK(V)
    BY <2>1, <2>4
  <2>6. SumFunctionOnSet(f, T) = f[Chosen(T)] + SumFunctionOnSet(f, V)
    BY <1>0, <2>2, <2>3, SumChosen
  <2>7. f[Chosen(T)] = 0
    BY <2>4
  <2> QED
    BY <2>2, <2>5, <2>6, <2>7
<1> QED
  BY <1>1, <1>2

(* A new element adds its summand.                                         *)
LEMMA SumAdd ==
    ASSUME NEW f, NEW S, IsFiniteSet(S), NEW x, x \notin S, \A y \in S \cup {x} : f[y] \in Int
    PROVE  SumFunctionOnSet(f, S \cup {x}) = f[x] + SumFunctionOnSet(f, S)
<1> DEFINE T == S \cup {x}
<1>1. IsFiniteSet(T) /\ x \in T /\ T \ {x} = S
  BY FS_AddElement
<1>2. \A y \in T : f[y] \in Int
  OBVIOUS
<1> HIDE DEF T
<1>3. SumFunctionOnSet(f, T) = f[x] + SumFunctionOnSet(f, T \ {x})
  BY <1>1, <1>2, SumRemove
<1> QED
  BY <1>1, <1>3 DEF T

(* A sum is the sum over a part plus the sum over the rest.                *)
LEMMA SumSplit ==
    ASSUME NEW f, NEW S, IsFiniteSet(S), \A x \in S : f[x] \in Int, NEW P \in SUBSET S
    PROVE  SumFunctionOnSet(f, S) = SumFunctionOnSet(f, P) + SumFunctionOnSet(f, S \ P)
<1> DEFINE OK(T) == SumFunctionOnSet(f, T)
                      = SumFunctionOnSet(f, T \cap P) + SumFunctionOnSet(f, T \ P)
           Bad == {n \in Nat : \E T \in SUBSET S : Cardinality(T) = n /\ ~OK(T)}
<1>0. ASSUME NEW T \in SUBSET S
      PROVE  /\ IsFiniteSet(T) /\ Cardinality(T) \in Nat /\ SumFunctionOnSet(f, T) \in Int
             /\ \A y \in T : f[y] \in Int
  <2>1. IsFiniteSet(T) /\ Cardinality(T) \in Nat /\ \A y \in T : f[y] \in Int
    BY FS_Subset, FS_CardinalityType
  <2> QED
    BY <2>1, SumType
<1>1. CASE Bad = {}
  <2>1. OK(S)
    BY <1>0, <1>1
  <2> QED
    BY <2>1, S \cap P = P
<1>2. CASE Bad # {}
  <2>1. PICK m \in Bad : \A n \in Bad : m <= n
    BY <1>2, LeastNat
  <2>2. PICK T \in SUBSET S : Cardinality(T) = m /\ ~OK(T)
    BY <2>1
  <2>3. T # {}
    <3>1. SumFunctionOnSet(f, {}) = 0 /\ {} \cap P = {} /\ {} \ P = {}
      BY SumEmpty
    <3> QED
      BY <2>2, <3>1
  <2>4. PICK x \in T : TRUE
    BY <2>3
  <2> DEFINE V == T \ {x}
  <2>5. V \in SUBSET S /\ Cardinality(V) = m - 1 /\ m - 1 \in Nat
    <3>1. V \in SUBSET S /\ IsFiniteSet(T)
      BY <1>0
    <3>2. Cardinality(V) = Cardinality(T) - 1
      BY <3>1, <2>4, FS_RemoveElement
    <3>3. Cardinality(V) \in Nat
      BY <1>0, <3>1
    <3> QED
      BY <2>2, <3>1, <3>2, <3>3
  <2>6. OK(V)
    <3> HIDE DEF OK
    <3>1. m - 1 \notin Bad /\ m \in Nat
      BY <2>1
    <3> QED
      BY <2>5, <3>1
  <2>7. SumFunctionOnSet(f, T) = f[x] + SumFunctionOnSet(f, V)
    BY <1>0, <2>4, SumRemove
  <2>8. CASE x \in P
    <3>1. x \in T \cap P /\ (T \cap P) \ {x} = V \cap P /\ T \ P = V \ P
      BY <2>4, <2>8
    <3>2. T \cap P \in SUBSET S /\ V \cap P \in SUBSET S /\ T \ P \in SUBSET S
      OBVIOUS
    <3>3. SumFunctionOnSet(f, T \cap P) = f[x] + SumFunctionOnSet(f, V \cap P)
      <4> DEFINE U == T \cap P
      <4>1. IsFiniteSet(U) /\ (\A y \in U : f[y] \in Int) /\ x \in U
        BY <1>0, <3>1, <3>2
      <4> HIDE DEF U
      <4>2. SumFunctionOnSet(f, U) = f[x] + SumFunctionOnSet(f, U \ {x})
        BY <4>1, SumRemove
      <4> QED
        BY <3>1, <4>2 DEF U
    <3>4. f[x] \in Int /\ SumFunctionOnSet(f, V \cap P) \in Int /\ SumFunctionOnSet(f, T \ P) \in Int
      BY <1>0, <2>4, <3>2
    <3> DEFINE inT == SumFunctionOnSet(f, T \cap P)
               inV == SumFunctionOnSet(f, V \cap P)
               out == SumFunctionOnSet(f, T \ P)
    <3>5. /\ SumFunctionOnSet(f, T) # inT + out
          /\ SumFunctionOnSet(f, T) = f[x] + (inV + out)
          /\ inT = f[x] + inV
      BY <2>2, <2>6, <2>7, <3>1, <3>3
    <3>6. f[x] \in Int /\ inV \in Int /\ out \in Int
      BY <3>4
    <3> HIDE DEF inT, inV, out
    <3> QED
      BY <3>5, <3>6
  <2>9. CASE x \notin P
    <3>1. x \in T \ P /\ (T \ P) \ {x} = V \ P /\ T \cap P = V \cap P
      BY <2>4, <2>9
    <3>2. T \cap P \in SUBSET S /\ V \ P \in SUBSET S /\ T \ P \in SUBSET S
      OBVIOUS
    <3>3. SumFunctionOnSet(f, T \ P) = f[x] + SumFunctionOnSet(f, V \ P)
      <4> DEFINE U == T \ P
      <4>1. IsFiniteSet(U) /\ (\A y \in U : f[y] \in Int) /\ x \in U
        BY <1>0, <3>1, <3>2
      <4> HIDE DEF U
      <4>2. SumFunctionOnSet(f, U) = f[x] + SumFunctionOnSet(f, U \ {x})
        BY <4>1, SumRemove
      <4> QED
        BY <3>1, <4>2 DEF U
    <3>4. f[x] \in Int /\ SumFunctionOnSet(f, T \cap P) \in Int /\ SumFunctionOnSet(f, V \ P) \in Int
      BY <1>0, <2>4, <3>2
    <3> DEFINE outT == SumFunctionOnSet(f, T \ P)
               outV == SumFunctionOnSet(f, V \ P)
               in   == SumFunctionOnSet(f, T \cap P)
    <3>5. /\ SumFunctionOnSet(f, T) # in + outT
          /\ SumFunctionOnSet(f, T) = f[x] + (in + outV)
          /\ outT = f[x] + outV
      BY <2>2, <2>6, <2>7, <3>1, <3>3
    <3>6. f[x] \in Int /\ outV \in Int /\ in \in Int
      BY <3>4, <3>1
    <3> HIDE DEF outT, outV, in
    <3> QED
      BY <3>5, <3>6
  <2> QED
    BY <2>8, <2>9
<1> QED
  BY <1>1, <1>2

(* A part of a sum of naturals is at most the whole.                       *)
LEMMA SumOfPart ==
    ASSUME NEW f, NEW S, IsFiniteSet(S), \A x \in S : f[x] \in Nat, NEW P \in SUBSET S
    PROVE  SumFunctionOnSet(f, P) <= SumFunctionOnSet(f, S)
<1>1. IsFiniteSet(P) /\ IsFiniteSet(S \ P)
  BY FS_Subset
<1>2. SumFunctionOnSet(f, P) \in Nat /\ SumFunctionOnSet(f, S \ P) \in Nat
  <2>1. /\ \A x \in P : f[x] \in Int /\ f[x] \in Nat
        /\ \A x \in S \ P : f[x] \in Int /\ f[x] \in Nat
    OBVIOUS
  <2> QED
    BY <1>1, <2>1, SumType
<1>3. SumFunctionOnSet(f, S) = SumFunctionOnSet(f, P) + SumFunctionOnSet(f, S \ P)
  <2>1. \A x \in S : f[x] \in Int
    OBVIOUS
  <2> QED
    BY <2>1, SumSplit
<1> QED
  BY <1>2, <1>3

-----------------------------------------------------------------------------
(* The ledgers.                                                            *)

USE DayLengthAssumption

(* A ledger whose columns hold what their types say.                       *)
LedgerType(ledger) ==
    /\ DOMAIN ledger = {"rows", "spent", "cooldown_until", "requests", "tokens"}
    /\ IsFiniteSet(DOMAIN ledger.rows) /\ IsFiniteSet(DOMAIN ledger.spent)
    /\ \A id \in DOMAIN ledger.rows :
           ledger.rows[id].tokens \in Nat /\ ledger.rows[id].created_at \in Nat
    /\ \A day \in DOMAIN ledger.spent : day \in Nat /\ ledger.spent[day] \in Nat
    /\ ledger.cooldown_until \in Nat
    /\ ledger.requests.available \in Nat /\ ledger.requests.refilled_at \in Nat
    /\ ledger.tokens.available \in Nat   /\ ledger.tokens.refilled_at \in Nat

(* A rateLimits record.                                                    *)
SettingsType(settings) ==
    /\ settings.maxConcurrent \in Nat
    /\ settings.dailySafetyBudgetTokens \in Nat
    /\ settings.reservationTtlMs \in Nat \ {0}
    /\ settings.cooldownMs \in Nat
    /\ settings.requests.limit \in Nat /\ settings.requests.windowMs \in Nat
    /\ settings.tokens.limit \in Nat   /\ settings.tokens.windowMs \in Nat

(* What settle is told.                                                    *)
OutcomeType(outcome) ==
    /\ outcome.quotaSuccess \in BOOLEAN /\ outcome.cooldown \in BOOLEAN
    /\ outcome.actualTokens \in Nat \cup {Undefined}
    /\ outcome.retryAfterMs \in Nat \cup {Undefined}

-----------------------------------------------------------------------------
(* Days.                                                                   *)

(* The day of a time is the one whose hours enclose it.                    *)
LEMMA DayOf ==
    ASSUME NEW t \in Nat
    PROVE  /\ utcDay(t) \in Nat
           /\ utcDay(t) * DayLength <= t
           /\ t < (utcDay(t) + 1) * DayLength
<1>1. /\ t \div DayLength \in Nat
      /\ (t \div DayLength) * DayLength <= t
      /\ t < (t \div DayLength) * DayLength + DayLength
  OBVIOUS
<1>2. (utcDay(t) + 1) * DayLength = utcDay(t) * DayLength + DayLength
  BY <1>1 DEF utcDay
<1> QED
  BY <1>1, <1>2 DEF utcDay

(* Days follow one another, and a day that has begun is no later.          *)
LEMMA DaysInOrder ==
    ASSUME NEW t \in Nat, NEW u \in Nat
    PROVE  /\ t <= u => utcDay(t) <= utcDay(u)
           /\ t >= utcDay(u) * DayLength <=> utcDay(t) >= utcDay(u)
           /\ t >= u - DayLength => utcDay(t) >= utcDay(u) - 1
<1>1. \A a, b \in Int : a < b => (a + 1) * DayLength <= b * DayLength
  <2>1. ASSUME NEW a \in Int, NEW b \in Int, a < b
        PROVE  (a + 1) * DayLength <= b * DayLength
    <3>1. PICK k \in Nat : b = a + 1 + k
      <4>1. b - a - 1 \in Nat /\ b = a + 1 + (b - a - 1)
        BY <2>1
      <4> QED
        BY <4>1
    <3>2. b * DayLength = (a + 1) * DayLength + k * DayLength
      BY <3>1
    <3>3. k * DayLength \in Nat /\ (a + 1) * DayLength \in Int
      OBVIOUS
    <3> QED
      BY <3>2, <3>3
  <2> QED
    BY <2>1
<1> DEFINE d == utcDay(t)  e == utcDay(u)
<1>2. /\ d \in Nat /\ e \in Nat
      /\ d * DayLength <= t /\ t < (d + 1) * DayLength
      /\ e * DayLength <= u /\ u < (e + 1) * DayLength
  BY DayOf
<1>3. /\ d * DayLength \in Int /\ e * DayLength \in Int
      /\ (d + 1) * DayLength = d * DayLength + DayLength
      /\ (e + 1) * DayLength = e * DayLength + DayLength
      /\ (e - 1) * DayLength = e * DayLength - DayLength
      /\ (e - 1) * DayLength \in Int /\ (d + 1) * DayLength \in Int
  BY <1>2
<1>4. /\ d < e => (d + 1) * DayLength <= e * DayLength
      /\ e < d => (e + 1) * DayLength <= d * DayLength
      /\ d < e - 1 => (d + 1) * DayLength <= (e - 1) * DayLength
      /\ e <= d => e * DayLength <= d * DayLength
  <2>1. e = d => e * DayLength <= d * DayLength
    BY <1>3
  <2> QED
    BY <1>1, <1>2, <1>3, <2>1
<1> DEFINE dD == d * DayLength  eD == e * DayLength
           d1D == (d + 1) * DayLength  e1D == (e + 1) * DayLength  emD == (e - 1) * DayLength
<1>5. /\ dD \in Int /\ eD \in Int /\ d1D = dD + DayLength /\ e1D = eD + DayLength
      /\ emD = eD - DayLength
      /\ dD <= t /\ t < d1D /\ eD <= u /\ u < e1D
      /\ (d < e => d1D <= eD) /\ (e < d => e1D <= dD) /\ (d < e - 1 => d1D <= emD)
      /\ (e <= d => eD <= dD)
  BY <1>2, <1>3, <1>4
<1>6. t >= utcDay(u) * DayLength <=> t >= eD
  OBVIOUS
<1> HIDE DEF dD, eD, d1D, e1D, emD
<1>7. /\ t <= u => d <= e
      /\ t >= eD <=> d >= e
      /\ t >= u - DayLength => d >= e - 1
  <2> HIDE DEF d, e
  <2> QED
    BY <1>2, <1>5
<1> QED
  BY <1>6, <1>7

-----------------------------------------------------------------------------
(* The buckets.                                                            *)

(* A refilled bucket holds a natural number of thousandths.                *)
LEMMA RefillType ==
    ASSUME NEW limit, limit.limit \in Nat, limit.windowMs \in Nat, Enforced(limit),
           NEW bucket, bucket.available \in Nat, bucket.refilled_at \in Nat,
           NEW time \in Nat
    PROVE  refilledBucket(bucket, limit, time) \in Nat
<1> DEFINE x == MaxOf(0, time - bucket.refilled_at) * limit.limit * Thousandths
<1>0. limit.windowMs \in Nat \ {0}
  BY DEF Enforced
<1>1. x \in Nat
  <2>1. MaxOf(0, time - bucket.refilled_at) \in Nat
    BY DEF MaxOf
  <2>2. MaxOf(0, time - bucket.refilled_at) * limit.limit \in Nat
    BY <2>1
  <2> QED
    BY <2>2 DEF Thousandths
<1>2. x \div limit.windowMs \in Nat
  <2> HIDE DEF x
  <2> QED BY <1>0, <1>1
<1>3. limit.limit * Thousandths \in Nat
  BY DEF Thousandths
<1> QED
  BY <1>2, <1>3 DEF refilledBucket, MinOf

(* spendBucket returns a bucket.                                           *)
LEMMA SpendType ==
    ASSUME NEW limit, limit.limit \in Nat, limit.windowMs \in Nat,
           NEW bucket, bucket.available \in Nat, bucket.refilled_at \in Nat,
           NEW amount \in Nat, NEW time \in Nat
    PROVE  /\ spendBucket(bucket, limit, amount, time).available \in Nat
           /\ spendBucket(bucket, limit, amount, time).refilled_at \in Nat
<1>1. CASE ~Enforced(limit)
  BY <1>1 DEF spendBucket
<1>2. CASE Enforced(limit)
  <2>1. refilledBucket(bucket, limit, time) \in Nat
    BY <1>2, RefillType
  <2>2. MaxOf(0, refilledBucket(bucket, limit, time) - amount * Thousandths) \in Nat
    BY <2>1 DEF MaxOf, Thousandths
  <2> QED
    BY <1>2, <2>2 DEF spendBucket
<1> QED
  BY <1>1, <1>2

-----------------------------------------------------------------------------
(* The ledger after each operation.                                        *)

(* A ledger that was never written to is well formed and empty.            *)
LEMMA EmptyLedgerType ==
    ASSUME NEW settings, SettingsType(settings)
    PROVE  /\ LedgerType(EmptyLedger(settings))
           /\ DOMAIN EmptyLedger(settings).rows = {}
           /\ DOMAIN EmptyLedger(settings).spent = {}
           /\ EmptyLedger(settings).cooldown_until = 0
<1> DEFINE ledger == EmptyLedger(settings)
<1>1. /\ DOMAIN ledger = {"rows", "spent", "cooldown_until", "requests", "tokens"}
      /\ ledger.rows = [id \in {} |-> [tokens |-> 0, created_at |-> 0]]
      /\ ledger.spent = [day \in {} |-> 0]
      /\ ledger.cooldown_until = 0
      /\ ledger.requests = FullBucket(settings.requests)
      /\ ledger.tokens = FullBucket(settings.tokens)
  BY DEF EmptyLedger
<1>2. DOMAIN ledger.rows = {} /\ DOMAIN ledger.spent = {}
  BY <1>1
<1>3. IsFiniteSet({})
  BY FS_EmptySet
<1>4. /\ ledger.requests.available \in Nat /\ ledger.requests.refilled_at \in Nat
      /\ ledger.tokens.available \in Nat   /\ ledger.tokens.refilled_at \in Nat
  <2>1. settings.requests.limit * 1000 \in Nat /\ settings.tokens.limit * 1000 \in Nat
    BY DEF SettingsType
  <2> HIDE DEF ledger
  <2> QED
    BY <1>1, <2>1 DEF FullBucket, Thousandths
<1> HIDE DEF ledger
<1>5. LedgerType(ledger)
  BY <1>1, <1>2, <1>3, <1>4 DEF LedgerType
<1> QED
  BY <1>1, <1>2, <1>5 DEF ledger

(* Releasing expired rows removes just the rows that are too old.          *)
LEMMA Releasing ==
    ASSUME NEW ledger, NEW ttlMs, NEW time, LedgerType(ledger), ttlMs \in Nat, time \in Nat
    PROVE  LET after == releaseExpiredReservations(ledger, ttlMs, time) IN
           /\ LedgerType(after)
           /\ DOMAIN after.rows = {id \in DOMAIN ledger.rows :
                                      ledger.rows[id].created_at >= time - ttlMs}
           /\ \A id \in DOMAIN after.rows : after.rows[id] = ledger.rows[id]
           /\ after.spent = ledger.spent
           /\ after.cooldown_until = ledger.cooldown_until
<1> DEFINE live  == {id \in DOMAIN ledger.rows : ~(ledger.rows[id].created_at < time - ttlMs)}
           after == releaseExpiredReservations(ledger, ttlMs, time)
<1>1. /\ after.rows = [id \in live |-> ledger.rows[id]]
      /\ DOMAIN after = DOMAIN ledger
      /\ after.spent = ledger.spent
      /\ after.cooldown_until = ledger.cooldown_until
      /\ after.requests = ledger.requests
      /\ after.tokens = ledger.tokens
  BY DEF releaseExpiredReservations, Restrict, LedgerType
<1>2. IsFiniteSet(live)
  BY FS_Subset DEF LedgerType
<1>3. LedgerType(after)
  BY <1>1, <1>2 DEF LedgerType
<1>4. live = {id \in DOMAIN ledger.rows : ledger.rows[id].created_at >= time - ttlMs}
  BY DEF LedgerType
<1> QED
  BY <1>1, <1>3, <1>4

(* A reservation adds or replaces the row of id.                           *)
LEMMA Reserving ==
    ASSUME NEW ledger, NEW settings, NEW id, NEW tokens, NEW time,
           LedgerType(ledger), SettingsType(settings), tokens \in Nat, time \in Nat
    PROVE  LET after == Reserved(ledger, id, tokens, settings, time) IN
           /\ LedgerType(after)
           /\ DOMAIN after.rows = DOMAIN ledger.rows \cup {id}
           /\ after.rows[id].tokens = tokens /\ after.rows[id].created_at = time
           /\ \A row \in DOMAIN ledger.rows \ {id} : after.rows[row] = ledger.rows[row]
           /\ reservationCount(after) <= reservationCount(ledger) + 1
           /\ after.spent = ledger.spent
           /\ after.cooldown_until = ledger.cooldown_until
<1> DEFINE after == Reserved(ledger, id, tokens, settings, time)
           D     == DOMAIN ledger.rows
<1>1. /\ DOMAIN after = DOMAIN ledger
      /\ after.rows = [row \in D \cup {id} |->
                         IF row = id THEN [tokens |-> tokens, created_at |-> time]
                                     ELSE ledger.rows[row]]
      /\ after.spent = ledger.spent
      /\ after.cooldown_until = ledger.cooldown_until
      /\ after.requests = spendBucket(ledger.requests, settings.requests, 1, time)
      /\ after.tokens = spendBucket(ledger.tokens, settings.tokens, tokens, time)
  BY DEF Reserved, LedgerType
<1>2. /\ after.requests.available \in Nat /\ after.requests.refilled_at \in Nat
      /\ after.tokens.available \in Nat   /\ after.tokens.refilled_at \in Nat
  <2>1. /\ settings.requests.limit \in Nat /\ settings.requests.windowMs \in Nat
        /\ settings.tokens.limit \in Nat   /\ settings.tokens.windowMs \in Nat
    BY DEF SettingsType
  <2>2. /\ ledger.requests.available \in Nat /\ ledger.requests.refilled_at \in Nat
        /\ ledger.tokens.available \in Nat   /\ ledger.tokens.refilled_at \in Nat
    BY DEF LedgerType
  <2>3. /\ spendBucket(ledger.requests, settings.requests, 1, time).available \in Nat
        /\ spendBucket(ledger.requests, settings.requests, 1, time).refilled_at \in Nat
    BY <2>1, <2>2, SpendType
  <2>4. /\ spendBucket(ledger.tokens, settings.tokens, tokens, time).available \in Nat
        /\ spendBucket(ledger.tokens, settings.tokens, tokens, time).refilled_at \in Nat
    BY <2>1, <2>2, SpendType
  <2> QED
    BY <1>1, <2>3, <2>4
<1>3. /\ IsFiniteSet(D \cup {id})
      /\ Cardinality(D \cup {id}) <= Cardinality(D) + 1
  <2>1. IsFiniteSet(D)
    BY DEF LedgerType
  <2>2. Cardinality(D) \in Nat
    BY <2>1, FS_CardinalityType
  <2> HIDE DEF D
  <2>3. /\ IsFiniteSet(D \cup {id})
        /\ Cardinality(D \cup {id}) = IF id \in D THEN Cardinality(D) ELSE Cardinality(D) + 1
    BY <2>1, FS_AddElement
  <2> QED
    BY <2>2, <2>3
<1>4. LedgerType(after)
  BY <1>1, <1>2, <1>3 DEF LedgerType
<1> QED
  BY <1>1, <1>3, <1>4 DEF reservationCount

(* Settling removes the row of id, and changes nothing without it.         *)
(* Otherwise a success adds its charge to today's spend, and nothing       *)
(* shortens the cooldown.                                                  *)
LEMMA Settling ==
    ASSUME NEW ledger, NEW settings, NEW outcome, NEW id, NEW time,
           LedgerType(ledger), SettingsType(settings), OutcomeType(outcome), time \in Nat
    PROVE  LET after == Settled(ledger, id, outcome, settings, time) IN
           /\ LedgerType(after)
           /\ DOMAIN after.rows = DOMAIN ledger.rows \ {id}
           /\ \A row \in DOMAIN ledger.rows \ {id} : after.rows[row] = ledger.rows[row]
           /\ after.cooldown_until >= ledger.cooldown_until
           /\ id \notin DOMAIN ledger.rows => after = ledger
           /\ ~outcome.cooldown => after.cooldown_until = ledger.cooldown_until
           /\ after.spent = IF id \in DOMAIN ledger.rows /\ outcome.quotaSuccess
                            THEN SpentAfter(ledger, ChargedTokens(outcome, ledger.rows[id].tokens),
                                            utcDay(time))
                            ELSE ledger.spent
<1> DEFINE after == Settled(ledger, id, outcome, settings, time)
           today == utcDay(time)
           left  == RowsWithout(ledger, id)
           charge == ChargedTokens(outcome, ledger.rows[id].tokens)
<1>0. DOMAIN ledger = {"rows", "spent", "cooldown_until", "requests", "tokens"}
      /\ ledger.cooldown_until \in Nat
  BY DEF LedgerType
<1>1. CASE id \notin DOMAIN ledger.rows
  <2>1. after = ledger /\ DOMAIN ledger.rows \ {id} = DOMAIN ledger.rows
    BY <1>1 DEF Settled
  <2> QED
    BY <1>0, <1>1, <2>1
<1>2. CASE id \in DOMAIN ledger.rows
  <2>1. /\ DOMAIN left = DOMAIN ledger.rows \ {id}
        /\ \A row \in DOMAIN left : left[row] = ledger.rows[row]
    BY DEF RowsWithout, Restrict
  <2>2. IsFiniteSet(DOMAIN left)
    BY <2>1, FS_Subset DEF LedgerType
  <2>3. today \in Nat
    BY DayOf
  <2>4. charge \in Nat
    <3>1. ledger.rows[id].tokens \in Nat
      BY <1>2 DEF LedgerType
    <3> QED
      BY <3>1 DEF ChargedTokens, MaxOf, OutcomeType, Undefined
  <2>5. SpentOn(ledger, today) \in Nat
    BY DEF SpentOn, LedgerType
  <2>6. Backoff(outcome, settings, time) \in Nat
    BY DEF Backoff, Undefined, OutcomeType, SettingsType
  <2>7. CASE outcome.quotaSuccess
    <3>1. /\ DOMAIN after = DOMAIN ledger
          /\ after.rows = left
          /\ after.spent = SpentAfter(ledger, charge, today)
          /\ after.cooldown_until = ledger.cooldown_until
          /\ after.requests = ledger.requests
          /\ after.tokens = ledger.tokens
      BY <1>0, <1>2, <2>7 DEF Settled
    <3>2. after.spent = [day \in DOMAIN ledger.spent \cup {today} |->
                           IF day = today THEN SpentOn(ledger, today) + charge
                           ELSE ledger.spent[day]]
      BY <3>1 DEF SpentAfter
    <3> HIDE DEF after, left, today, charge
    <3>3. \A day \in DOMAIN after.spent : day \in Nat /\ after.spent[day] \in Nat
      BY <3>2, <2>3, <2>4, <2>5 DEF LedgerType
    <3>4. IsFiniteSet(DOMAIN after.spent)
      <4>1. DOMAIN after.spent = DOMAIN ledger.spent \cup {today}
        BY <3>2
      <4> QED
        BY <4>1, FS_AddElement DEF LedgerType
    <3>5. LedgerType(after)
      BY <3>1, <3>3, <3>4, <2>1, <2>2 DEF LedgerType
    <3> QED
      BY <1>0, <1>2, <2>1, <2>7, <3>1, <3>5 DEF after, charge, today
  <2>8. CASE ~outcome.quotaSuccess /\ outcome.cooldown
    <3>1. /\ DOMAIN after = DOMAIN ledger
          /\ after.rows = left
          /\ after.spent = ledger.spent
          /\ after.cooldown_until
               = MaxOf(ledger.cooldown_until, Backoff(outcome, settings, time))
          /\ after.requests = ledger.requests
          /\ after.tokens = ledger.tokens
      BY <1>0, <1>2, <2>8 DEF Settled, CooldownAfter
    <3> HIDE DEF after, left
    <3>2. after.cooldown_until \in Nat /\ after.cooldown_until >= ledger.cooldown_until
      BY <1>0, <3>1, <2>6 DEF MaxOf
    <3>3. LedgerType(after)
      BY <3>1, <3>2, <2>1, <2>2 DEF LedgerType
    <3> QED
      BY <1>2, <2>1, <2>8, <3>1, <3>2, <3>3 DEF after
  <2>9. CASE ~outcome.quotaSuccess /\ ~outcome.cooldown
    <3>1. /\ DOMAIN after = DOMAIN ledger
          /\ after.rows = left
          /\ after.spent = ledger.spent
          /\ after.cooldown_until = ledger.cooldown_until
          /\ after.requests = ledger.requests
          /\ after.tokens = ledger.tokens
      BY <1>0, <1>2, <2>9 DEF Settled
    <3> HIDE DEF after, left
    <3>3. LedgerType(after)
      BY <3>1, <2>1, <2>2 DEF LedgerType
    <3> QED
      BY <1>0, <1>2, <2>1, <2>9, <3>1, <3>3 DEF after
  <2> QED
    BY <2>7, <2>8, <2>9 DEF OutcomeType
<1> QED
  BY <1>1, <1>2
-----------------------------------------------------------------------------
(* Sums of reserved tokens.                                                *)

(* Rows whose tokens are naturals.                                         *)
RowsType(rows) == IsFiniteSet(DOMAIN rows) /\ \A id \in DOMAIN rows : rows[id].tokens \in Nat

(* The sum over any rows is a natural, and at most that over more of them. *)
LEMMA TokensType ==
    ASSUME NEW rows, RowsType(rows), NEW ids \in SUBSET DOMAIN rows
    PROVE  /\ TokensOf(rows, ids) \in Nat
           /\ \A part \in SUBSET ids : TokensOf(rows, part) <= TokensOf(rows, ids)
<1> DEFINE f == [id \in DOMAIN rows |-> rows[id].tokens]
<1>1. IsFiniteSet(ids) /\ \A id \in ids : f[id] \in Nat
  BY FS_Subset DEF RowsType
<1>2. \A id \in ids : f[id] \in Int
  BY <1>1
<1>3. \A part \in SUBSET ids : TokensOf(rows, part) = SumFunctionOnSet(f, part)
  BY DEF TokensOf
<1> HIDE DEF f
<1>4. SumFunctionOnSet(f, ids) \in Nat
  BY <1>1, <1>2, SumType
<1>5. \A part \in SUBSET ids : SumFunctionOnSet(f, part) <= SumFunctionOnSet(f, ids)
  BY <1>1, SumOfPart
<1> QED
  BY <1>3, <1>4, <1>5

(* Rows that agree have the same sum.                                      *)
LEMMA TokensAgree ==
    ASSUME NEW rows, NEW rows2, NEW ids, RowsType(rows), ids \in SUBSET DOMAIN rows,
           ids \in SUBSET DOMAIN rows2, \A id \in ids : rows2[id] = rows[id]
    PROVE  TokensOf(rows2, ids) = TokensOf(rows, ids)
<1> DEFINE f == [id \in DOMAIN rows |-> rows[id].tokens]
           g == [id \in DOMAIN rows2 |-> rows2[id].tokens]
<1>1. IsFiniteSet(ids) /\ \A id \in ids : g[id] = f[id]
  BY FS_Subset DEF RowsType
<1>2. TokensOf(rows, ids) = SumFunctionOnSet(f, ids) /\ TokensOf(rows2, ids) = SumFunctionOnSet(g, ids)
  BY DEF TokensOf
<1> HIDE DEF f, g
<1> QED
  BY <1>1, <1>2, SumAgree

(* One row's tokens may be taken out of a sum.                             *)
LEMMA TokensWithout ==
    ASSUME NEW rows, RowsType(rows), NEW ids \in SUBSET DOMAIN rows, NEW id \in ids
    PROVE  TokensOf(rows, ids) = rows[id].tokens + TokensOf(rows, ids \ {id})
<1> DEFINE f == [x \in DOMAIN rows |-> rows[x].tokens]
<1>1. IsFiniteSet(ids) /\ (\A x \in ids : f[x] \in Int) /\ f[id] = rows[id].tokens
  BY FS_Subset DEF RowsType
<1>2. \A S \in SUBSET ids : TokensOf(rows, S) = SumFunctionOnSet(f, S)
  BY DEF TokensOf
<1> HIDE DEF f
<1>3. SumFunctionOnSet(f, ids) = f[id] + SumFunctionOnSet(f, ids \ {id})
  BY <1>1, SumRemove
<1> QED
  BY <1>1, <1>2, <1>3

(* A sum splits into those over a part and over the rest.                  *)
LEMMA TokensSplit ==
    ASSUME NEW rows, RowsType(rows), NEW ids \in SUBSET DOMAIN rows, NEW part \in SUBSET ids
    PROVE  TokensOf(rows, ids) = TokensOf(rows, part) + TokensOf(rows, ids \ part)
<1> DEFINE f == [x \in DOMAIN rows |-> rows[x].tokens]
<1>1. IsFiniteSet(ids) /\ (\A x \in ids : f[x] \in Int)
  BY FS_Subset DEF RowsType
<1>2. \A S \in SUBSET ids : TokensOf(rows, S) = SumFunctionOnSet(f, S)
  BY DEF TokensOf
<1> HIDE DEF f
<1>3. SumFunctionOnSet(f, ids) = SumFunctionOnSet(f, part) + SumFunctionOnSet(f, ids \ part)
  BY <1>1, SumSplit
<1> QED
  BY <1>2, <1>3

(* A sum over no rows.                                                     *)
LEMMA TokensNone == ASSUME NEW rows PROVE TokensOf(rows, {}) = 0
BY SumEmpty DEF TokensOf

(* What a new reservation adds to a sum, if its id was not in it.          *)
LEMMA TokensReserved ==
    ASSUME NEW ledger, NEW settings, NEW id, NEW tokens, NEW time,
           LedgerType(ledger), SettingsType(settings), tokens \in Nat, time \in Nat,
           id \notin DOMAIN ledger.rows
    PROVE  \A ids \in SUBSET DOMAIN ledger.rows :
               LET rows == Reserved(ledger, id, tokens, settings, time).rows IN
               /\ TokensOf(rows, ids) = TokensOf(ledger.rows, ids)
               /\ TokensOf(rows, ids \cup {id}) = tokens + TokensOf(ledger.rows, ids)
<1> SUFFICES ASSUME NEW ids \in SUBSET DOMAIN ledger.rows
             PROVE  LET rows == Reserved(ledger, id, tokens, settings, time).rows IN
                    /\ TokensOf(rows, ids) = TokensOf(ledger.rows, ids)
                    /\ TokensOf(rows, ids \cup {id}) = tokens + TokensOf(ledger.rows, ids)
  OBVIOUS
<1> DEFINE after == Reserved(ledger, id, tokens, settings, time)
<1>1. /\ LedgerType(after)
      /\ DOMAIN after.rows = DOMAIN ledger.rows \cup {id}
      /\ after.rows[id].tokens = tokens
      /\ \A row \in DOMAIN ledger.rows \ {id} : after.rows[row] = ledger.rows[row]
  BY Reserving
<1> HIDE DEF after
<1>2. RowsType(ledger.rows) /\ RowsType(after.rows)
  BY <1>1 DEF LedgerType, RowsType
<1>3. /\ ids \in SUBSET DOMAIN after.rows /\ ids \cup {id} \in SUBSET DOMAIN after.rows
      /\ \A x \in ids : after.rows[x] = ledger.rows[x]
  BY <1>1
<1>4. TokensOf(after.rows, ids) = TokensOf(ledger.rows, ids)
  BY <1>2, <1>3, TokensAgree
<1> DEFINE more == ids \cup {id}
<1>5. id \in more /\ more \ {id} = ids /\ more \in SUBSET DOMAIN after.rows
  BY <1>3
<1> HIDE DEF more
<1>6. TokensOf(after.rows, more) = after.rows[id].tokens + TokensOf(after.rows, more \ {id})
  BY <1>2, <1>5, TokensWithout
<1> QED
  BY <1>1, <1>4, <1>5, <1>6 DEF after, more

(* What all days were charged, together.                                   *)
SpentTotal(spent) == SumFunctionOnSet(spent, DOMAIN spent)

(* It is a natural.                                                        *)
LEMMA TotalType ==
    ASSUME NEW ledger, LedgerType(ledger)
    PROVE  SpentTotal(ledger.spent) \in Nat
<1> DEFINE spent == ledger.spent  D == DOMAIN spent
<1>1. /\ IsFiniteSet(D) /\ \A day \in D : spent[day] \in Nat
      /\ \A day \in D : spent[day] \in Int
  BY DEF LedgerType
<1> HIDE DEF spent, D
<1>2. SumFunctionOnSet(spent, D) \in Nat
  BY <1>1, SumType
<1> QED
  BY <1>2 DEF SpentTotal, spent, D

(* A charge adds to the total what it is.                                  *)
LEMMA TotalAfterCharge ==
    ASSUME NEW ledger, NEW charge, NEW today, LedgerType(ledger), charge \in Nat, today \in Nat
    PROVE  /\ SpentTotal(ledger.spent) \in Nat
           /\ SpentTotal(SpentAfter(ledger, charge, today)) = SpentTotal(ledger.spent) + charge
<1> DEFINE before == ledger.spent
           after  == SpentAfter(ledger, charge, today)
           D      == DOMAIN before
<1>1. /\ IsFiniteSet(D) /\ \A day \in D : before[day] \in Nat /\ before[day] \in Int
  BY DEF LedgerType
<1>2. /\ DOMAIN after = D \cup {today}
      /\ after[today] = SpentOn(ledger, today) + charge
      /\ \A day \in D \ {today} : after[day] = before[day]
  BY DEF SpentAfter
<1>3. SpentOn(ledger, today) = IF today \in D THEN before[today] ELSE 0
  BY DEF SpentOn
<1> HIDE DEF before, after, D
<1> DEFINE rest == D \ {today}
<1>4. IsFiniteSet(rest) /\ rest \subseteq D /\ today \notin rest
  BY <1>1, FS_Subset
<1>5. /\ SumFunctionOnSet(before, D) \in Nat /\ SumFunctionOnSet(before, rest) \in Nat
      /\ SumFunctionOnSet(after, rest) = SumFunctionOnSet(before, rest)
  <2>1. /\ \A day \in rest : before[day] \in Nat /\ before[day] \in Int
        /\ \A day \in rest : after[day] = before[day]
    BY <1>1, <1>2, <1>4
  <2>2. SumFunctionOnSet(before, D) \in Nat
    BY <1>1, SumType
  <2>3. SumFunctionOnSet(before, rest) \in Nat
    BY <1>4, <2>1, SumType
  <2>4. SumFunctionOnSet(after, rest) = SumFunctionOnSet(before, rest)
    BY <1>4, <2>1, SumAgree
  <2> QED
    BY <2>2, <2>3, <2>4
<1>6. SumFunctionOnSet(before, D)
        = (IF today \in D THEN before[today] ELSE 0) + SumFunctionOnSet(before, rest)
  <2>1. CASE today \in D
    <3>1. \A day \in D : before[day] \in Int
      BY <1>1
    <3>2. \A x \in D : SumFunctionOnSet(before, D)
                         = before[x] + SumFunctionOnSet(before, D \ {x})
      BY <1>1, <3>1, SumRemove
    <3> QED
      BY <2>1, <3>2
  <2>2. CASE today \notin D
    <3>1. rest = D
      BY <2>2
    <3> QED
      BY <1>5, <2>2, <3>1
  <2> QED
    BY <2>1, <2>2
<1>7. /\ \A day \in rest \cup {today} : after[day] \in Int
      /\ after[today] \in Nat /\ (IF today \in D THEN before[today] ELSE 0) \in Nat
  BY <1>1, <1>2, <1>3, <1>4
<1>8. SumFunctionOnSet(after, rest \cup {today}) = after[today] + SumFunctionOnSet(after, rest)
  BY <1>4, <1>7, SumAdd
<1>9. DOMAIN after = rest \cup {today}
  BY <1>2
<1>10. SumFunctionOnSet(after, DOMAIN after) = SumFunctionOnSet(before, D) + charge
  BY <1>2, <1>3, <1>5, <1>6, <1>7, <1>8, <1>9
<1> QED
  BY <1>5, <1>10 DEF SpentTotal, before, after, D


-----------------------------------------------------------------------------
(* The daily budget.                                                       *)

(* The rows that weigh on a day's budget.                                  *)
RowsOfDay(rows, day) == {id \in DOMAIN rows : utcDay(rows[id].created_at) = day}

(* Nothing in the ledger is dated after time.                              *)
NotAhead(ledger, time) ==
    /\ \A id \in DOMAIN ledger.rows : ledger.rows[id].created_at <= time
    /\ \A day \in DOMAIN ledger.spent : day <= utcDay(time)

(* The reservations of any one day, as taken, fit the budget.              *)
DaysFit(ledger, budget) ==
    \A day \in Int : TokensOf(ledger.rows, RowsOfDay(ledger.rows, day)) <= budget

(* Today's spend and all open reservations stay within bound.              *)
AllFit(ledger, bound, time) ==
    SpentOn(ledger, utcDay(time)) + TokensOf(ledger.rows, DOMAIN ledger.rows) <= bound

(* Fewer rows fit as well.                                                 *)
LEMMA FewerRowsFit ==
    ASSUME NEW ledger, NEW after, NEW budget, NEW time, budget \in Nat, time \in Nat,
           LedgerType(ledger), LedgerType(after),
           DOMAIN after.rows \subseteq DOMAIN ledger.rows,
           \A id \in DOMAIN after.rows : after.rows[id] = ledger.rows[id],
           NotAhead(ledger, time), DaysFit(ledger, budget)
    PROVE  /\ \A id \in DOMAIN after.rows :
                  after.rows[id].created_at <= time
           /\ DaysFit(after, budget)
           /\ TokensOf(after.rows, DOMAIN after.rows) = TokensOf(ledger.rows, DOMAIN after.rows)
<1>1. RowsType(ledger.rows) /\ RowsType(after.rows)
  BY DEF RowsType, LedgerType
<1>2. ASSUME NEW ids \in SUBSET DOMAIN after.rows
      PROVE  TokensOf(after.rows, ids) = TokensOf(ledger.rows, ids)
  <2>1. /\ ids \in SUBSET DOMAIN ledger.rows
        /\ \A id \in ids : after.rows[id] = ledger.rows[id]
    BY <1>2
  <2> QED
    BY <1>1, <2>1, TokensAgree
<1>3. ASSUME NEW day \in Int
      PROVE  TokensOf(after.rows, RowsOfDay(after.rows, day)) <= budget
  <2> DEFINE mine   == RowsOfDay(after.rows, day)
             theirs == RowsOfDay(ledger.rows, day)
  <2>1. mine \in SUBSET theirs /\ theirs \in SUBSET DOMAIN ledger.rows
        /\ mine \in SUBSET DOMAIN after.rows
    BY DEF RowsOfDay
  <2> HIDE DEF mine, theirs
  <2>2. TokensOf(after.rows, mine) = TokensOf(ledger.rows, mine)
    BY <1>2, <2>1
  <2>3. TokensOf(ledger.rows, theirs) \in Nat /\ TokensOf(ledger.rows, mine) \in Nat
        /\ TokensOf(ledger.rows, mine) <= TokensOf(ledger.rows, theirs)
    <3>1. mine \in SUBSET DOMAIN ledger.rows
      BY <2>1
    <3> QED
      BY <1>1, <2>1, <3>1, TokensType
  <2>4. TokensOf(ledger.rows, theirs) <= budget
    BY DEF theirs, DaysFit
  <2> QED
    BY <2>2, <2>3, <2>4 DEF mine
<1>4. TokensOf(after.rows, DOMAIN after.rows) = TokensOf(ledger.rows, DOMAIN after.rows)
  BY <1>2
<1> QED
  BY <1>3, <1>4 DEF DaysFit, NotAhead

(* Releasing expired rows keeps the books.                                 *)
LEMMA ReleasingFits ==
    ASSUME NEW ledger, NEW budget, NEW bound, NEW ttlMs, NEW time,
           budget \in Nat, bound \in Nat, ttlMs \in Nat, time \in Nat, LedgerType(ledger),
           NotAhead(ledger, time), DaysFit(ledger, budget), AllFit(ledger, bound, time)
    PROVE  LET after == releaseExpiredReservations(ledger, ttlMs, time) IN
           NotAhead(after, time) /\ DaysFit(after, budget) /\ AllFit(after, bound, time)
<1> DEFINE after == releaseExpiredReservations(ledger, ttlMs, time)
<1>1. /\ LedgerType(after)
      /\ DOMAIN after.rows \subseteq DOMAIN ledger.rows
      /\ \A id \in DOMAIN after.rows : after.rows[id] = ledger.rows[id]
      /\ after.spent = ledger.spent
  BY Releasing
<1> HIDE DEF after
<1>2. /\ \A id \in DOMAIN after.rows :
             after.rows[id].created_at <= time
      /\ DaysFit(after, budget)
      /\ TokensOf(after.rows, DOMAIN after.rows) = TokensOf(ledger.rows, DOMAIN after.rows)
  BY <1>1, FewerRowsFit
<1>3. /\ TokensOf(ledger.rows, DOMAIN after.rows) \in Nat
      /\ TokensOf(ledger.rows, DOMAIN ledger.rows) \in Nat
      /\ TokensOf(ledger.rows, DOMAIN after.rows) <= TokensOf(ledger.rows, DOMAIN ledger.rows)
  <2>1. RowsType(ledger.rows) /\ DOMAIN after.rows \in SUBSET DOMAIN ledger.rows
    BY <1>1 DEF RowsType, LedgerType
  <2> QED
    BY <2>1, TokensType
<1>4. /\ SpentOn(after, utcDay(time)) = SpentOn(ledger, utcDay(time))
      /\ SpentOn(ledger, utcDay(time)) \in Nat
  BY <1>1 DEF SpentOn, LedgerType
<1>5. AllFit(after, bound, time)
  BY <1>2, <1>3, <1>4 DEF AllFit
<1>6. NotAhead(after, time)
  BY <1>1, <1>2 DEF NotAhead
<1> QED
  BY <1>2, <1>5, <1>6 DEF after

(* So does settling, as long as the provider charges no more than was      *)
(* reserved: what leaves the reservations comes back as today's spend.     *)
LEMMA SettlingFits ==
    ASSUME NEW ledger, NEW settings, NEW outcome, NEW id, NEW budget, NEW bound, NEW time,
           budget \in Nat, bound \in Nat, time \in Nat, LedgerType(ledger),
           SettingsType(settings), OutcomeType(outcome),
           id \in DOMAIN ledger.rows =>
               ChargedTokens(outcome, ledger.rows[id].tokens) <= ledger.rows[id].tokens,
           NotAhead(ledger, time), DaysFit(ledger, budget), AllFit(ledger, bound, time)
    PROVE  LET after == Settled(ledger, id, outcome, settings, time) IN
           NotAhead(after, time) /\ DaysFit(after, budget) /\ AllFit(after, bound, time)
<1> DEFINE after == Settled(ledger, id, outcome, settings, time)
           today == utcDay(time)
           charge == ChargedTokens(outcome, ledger.rows[id].tokens)
<1>1. /\ LedgerType(after)
      /\ DOMAIN after.rows = DOMAIN ledger.rows \ {id}
      /\ \A row \in DOMAIN ledger.rows \ {id} : after.rows[row] = ledger.rows[row]
      /\ id \notin DOMAIN ledger.rows => after = ledger
      /\ after.spent = IF id \in DOMAIN ledger.rows /\ outcome.quotaSuccess
                       THEN SpentAfter(ledger, charge, today) ELSE ledger.spent
  BY Settling
<1>2. CASE id \notin DOMAIN ledger.rows
  BY <1>1, <1>2
<1>3. CASE id \in DOMAIN ledger.rows
  <2> HIDE DEF after
  <2>1. /\ \A row \in DOMAIN after.rows :
               after.rows[row].created_at <= time
        /\ DaysFit(after, budget)
        /\ TokensOf(after.rows, DOMAIN after.rows) = TokensOf(ledger.rows, DOMAIN after.rows)
    <3>1. /\ DOMAIN after.rows \subseteq DOMAIN ledger.rows
          /\ \A row \in DOMAIN after.rows : after.rows[row] = ledger.rows[row]
      BY <1>1
    <3> QED
      BY <1>1, <3>1, FewerRowsFit
  <2>2. /\ TokensOf(ledger.rows, DOMAIN ledger.rows)
             = ledger.rows[id].tokens + TokensOf(ledger.rows, DOMAIN after.rows)
        /\ TokensOf(ledger.rows, DOMAIN after.rows) \in Nat
    <3>1. /\ RowsType(ledger.rows) /\ DOMAIN ledger.rows \in SUBSET DOMAIN ledger.rows
          /\ DOMAIN after.rows \in SUBSET DOMAIN ledger.rows
      BY <1>1 DEF RowsType, LedgerType
    <3>2. TokensOf(ledger.rows, DOMAIN ledger.rows)
            = ledger.rows[id].tokens + TokensOf(ledger.rows, DOMAIN ledger.rows \ {id})
      BY <1>3, <3>1, TokensWithout
    <3> QED
      BY <1>1, <3>1, <3>2, TokensType
  <2>3. /\ ledger.rows[id].tokens \in Nat
        /\ charge <= ledger.rows[id].tokens /\ charge \in Nat
    <3>1. ledger.rows[id].tokens \in Nat /\ charge <= ledger.rows[id].tokens
      BY <1>3 DEF LedgerType
    <3> QED
      BY <3>1 DEF ChargedTokens, OutcomeType, MaxOf, Undefined
  <2>4. today \in Nat /\ SpentOn(ledger, today) \in Nat
    BY DayOf DEF SpentOn, LedgerType
  <2>5. CASE outcome.quotaSuccess
    <3>1. /\ DOMAIN after.spent = DOMAIN ledger.spent \cup {today}
          /\ after.spent[today] = SpentOn(ledger, today) + charge
      <4> HIDE DEF today, charge
      <4> QED
        BY <1>1, <1>3, <2>3, <2>4, <2>5 DEF SpentAfter
    <3>2. SpentOn(after, today) = SpentOn(ledger, today) + charge
      BY <3>1 DEF SpentOn
    <3>3. NotAhead(after, time)
      <4>1. \A day \in DOMAIN after.spent : day <= today
        <5>1. \A day \in DOMAIN ledger.spent : day <= today
          BY DEF NotAhead
        <5> HIDE DEF today
        <5> QED
          BY <2>4, <3>1, <5>1
      <4> QED
        BY <2>1, <4>1 DEF NotAhead
    <3>4. AllFit(after, bound, time)
      <4>1. SpentOn(ledger, today) + TokensOf(ledger.rows, DOMAIN ledger.rows) <= bound
        BY DEF AllFit
      <4> HIDE DEF today, charge
      <4>2. SpentOn(after, today) + TokensOf(after.rows, DOMAIN after.rows) <= bound
        BY <2>1, <2>2, <2>3, <2>4, <3>2, <4>1
      <4> QED
        BY <4>2 DEF AllFit, today
    <3> QED
      BY <2>1, <3>3, <3>4 DEF after
  <2>6. CASE ~outcome.quotaSuccess
    <3>1. after.spent = ledger.spent
      BY <1>1, <2>6
    <3>2. SpentOn(after, today) = SpentOn(ledger, today)
      BY <3>1 DEF SpentOn
    <3>3. NotAhead(after, time)
      BY <2>1, <3>1 DEF NotAhead
    <3>4. AllFit(after, bound, time)
      <4>1. SpentOn(ledger, today) + TokensOf(ledger.rows, DOMAIN ledger.rows) <= bound
        BY DEF AllFit
      <4> HIDE DEF today, charge
      <4>2. SpentOn(after, today) + TokensOf(after.rows, DOMAIN after.rows) <= bound
        BY <2>1, <2>2, <2>3, <2>4, <3>2, <4>1
      <4> QED
        BY <4>2 DEF AllFit, today
    <3> QED
      BY <2>1, <3>3, <3>4 DEF after
  <2> QED
    BY <2>5, <2>6
<1> QED
  BY <1>2, <1>3

(* And so does a reservation that the budget admits, which all open        *)
(* reservations of other days are too few to spoil: those fit other, the   *)
(* reservation and today's fit the budget.                                 *)
LEMMA ReservingFits ==
    ASSUME NEW ledger, NEW settings, NEW id, NEW tokens, NEW other, NEW time,
           other \in Nat, tokens \in Nat, time \in Nat,
           LedgerType(ledger), SettingsType(settings),
           id \notin DOMAIN ledger.rows,
           settings.dailySafetyBudgetTokens > 0, ~OverBudget(ledger, tokens, settings, time),
           NotAhead(ledger, time), DaysFit(ledger, settings.dailySafetyBudgetTokens),
           TokensOf(ledger.rows, DOMAIN ledger.rows \ RowsOfDay(ledger.rows, utcDay(time)))
               <= other
    PROVE  LET after == Reserved(ledger, id, tokens, settings, time) IN
           /\ NotAhead(after, time)
           /\ DaysFit(after, settings.dailySafetyBudgetTokens)
           /\ AllFit(after, settings.dailySafetyBudgetTokens + other, time)
<1> DEFINE after  == Reserved(ledger, id, tokens, settings, time)
           budget == settings.dailySafetyBudgetTokens
           today  == utcDay(time)
           D      == DOMAIN ledger.rows
           mine   == RowsOfDay(ledger.rows, today)
<1>0. budget \in Nat /\ today \in Nat /\ SpentOn(ledger, today) \in Nat
  BY DayOf DEF SettingsType, SpentOn, LedgerType
<1>1. /\ LedgerType(after)
      /\ DOMAIN after.rows = D \cup {id}
      /\ after.rows[id].tokens = tokens /\ after.rows[id].created_at = time
      /\ \A row \in D \ {id} : after.rows[row] = ledger.rows[row]
      /\ after.spent = ledger.spent
  BY Reserving
<1>2. ASSUME NEW ids \in SUBSET D
      PROVE  /\ TokensOf(after.rows, ids) = TokensOf(ledger.rows, ids)
             /\ TokensOf(after.rows, ids \cup {id}) = tokens + TokensOf(ledger.rows, ids)
  BY <1>2, TokensReserved
<1>3. \A row \in D : after.rows[row] = ledger.rows[row]
  BY <1>1
<1> HIDE DEF after
<1>4. mine = {row \in D : ledger.rows[row].created_at >= today * DayLength}
  <2>1. ASSUME NEW row \in D
        PROVE  utcDay(ledger.rows[row].created_at) = today
                 <=> ledger.rows[row].created_at >= today * DayLength
    <3> DEFINE at == ledger.rows[row].created_at
    <3>1. at \in Nat /\ at <= time
      BY <2>1 DEF NotAhead, LedgerType
    <3> HIDE DEF at
    <3>2. utcDay(at) <= today /\ (at >= today * DayLength <=> utcDay(at) >= today)
          /\ utcDay(at) \in Nat
      BY <3>1, DaysInOrder, DayOf
    <3> HIDE DEF today
    <3> QED
      BY <1>0, <3>2 DEF at
  <2> QED
    BY <2>1 DEF RowsOfDay
<1>5. /\ mine \in SUBSET D
      /\ TokensOf(ledger.rows, mine) \in Nat
      /\ SpentOn(ledger, today) + TokensOf(ledger.rows, mine) + tokens <= budget
  <2>1. mine \in SUBSET D /\ RowsType(ledger.rows)
    BY DEF RowsOfDay, RowsType, LedgerType
  <2>2. TokensOf(ledger.rows, mine) \in Nat
    BY <2>1, TokensType
  <2>3. reservedTokensForDay(ledger, time) = TokensOf(ledger.rows, mine)
    BY <1>4 DEF reservedTokensForDay
  <2>4. ~(SpentOn(ledger, today) + TokensOf(ledger.rows, mine) + tokens > budget)
    BY <2>3 DEF OverBudget
  <2> HIDE DEF mine, budget, today
  <2> QED
    BY <1>0, <2>1, <2>2, <2>4
<1>6. RowsOfDay(after.rows, today) = mine \cup {id}
  <2>1. utcDay(after.rows[id].created_at) = today
    BY <1>1
  <2>2. \A row \in D : utcDay(after.rows[row].created_at) = utcDay(ledger.rows[row].created_at)
    BY <1>3
  <2> HIDE DEF today
  <2> QED
    BY <1>1, <2>1, <2>2 DEF RowsOfDay
<1>7. ASSUME NEW day \in Int, day # today
      PROVE  RowsOfDay(after.rows, day) = RowsOfDay(ledger.rows, day)
  BY <1>1, <1>3, <1>7 DEF RowsOfDay
<1>8. NotAhead(after, time)
  <2>1. \A row \in DOMAIN after.rows :
            after.rows[row].created_at <= time
    BY <1>1, <1>3 DEF NotAhead
  <2> QED
    BY <1>1, <2>1 DEF NotAhead
<1>9. DaysFit(after, budget)
  <2>1. TokensOf(after.rows, RowsOfDay(after.rows, today)) <= budget
    <3> HIDE DEF mine, budget, today
    <3>1. TokensOf(after.rows, mine \cup {id}) = tokens + TokensOf(ledger.rows, mine)
      BY <1>2, <1>5
    <3> QED
      BY <1>0, <1>5, <1>6, <3>1
  <2>2. ASSUME NEW day \in Int, day # today
        PROVE  TokensOf(after.rows, RowsOfDay(after.rows, day)) <= budget
    <3>1. RowsOfDay(ledger.rows, day) \in SUBSET D
      BY DEF RowsOfDay
    <3>2. TokensOf(after.rows, RowsOfDay(ledger.rows, day))
            = TokensOf(ledger.rows, RowsOfDay(ledger.rows, day))
      BY <1>2, <3>1
    <3> QED
      BY <1>7, <2>2, <3>2 DEF DaysFit
  <2> QED
    BY <2>1, <2>2 DEF DaysFit
<1>10. AllFit(after, budget + other, time)
  <2>1. /\ TokensOf(ledger.rows, D)
              = TokensOf(ledger.rows, mine) + TokensOf(ledger.rows, D \ mine)
        /\ TokensOf(ledger.rows, D \ mine) \in Nat
    <3>1. RowsType(ledger.rows) /\ D \in SUBSET D /\ mine \in SUBSET D /\ D \ mine \in SUBSET D
      BY <1>5 DEF RowsType, LedgerType
    <3> HIDE DEF mine
    <3> QED
      BY <3>1, TokensSplit, TokensType
  <2>2. TokensOf(after.rows, DOMAIN after.rows) = tokens + TokensOf(ledger.rows, D)
    BY <1>1, <1>2
  <2>3. SpentOn(after, today) = SpentOn(ledger, today)
    BY <1>1 DEF SpentOn
  <2>4. TokensOf(ledger.rows, D \ mine) <= other
    OBVIOUS
  <2> HIDE DEF mine, budget, today, D
  <2>5. SpentOn(after, today) + TokensOf(after.rows, DOMAIN after.rows) <= budget + other
    BY <1>0, <1>5, <2>1, <2>2, <2>3, <2>4
  <2> QED
    BY <2>5 DEF AllFit, today
<1> QED
  BY <1>8, <1>9, <1>10 DEF after

-----------------------------------------------------------------------------
(* The buckets.                                                            *)

(* What a refilled bucket holds: the limit, or what it held plus the whole *)
(* thousandths that the time since has earned.                             *)
LEMMA RefillIs ==
    ASSUME NEW limit, limit.limit \in Nat, limit.windowMs \in Nat, Enforced(limit),
           NEW bucket, bucket.available \in Nat, bucket.refilled_at \in Nat,
           NEW time \in Nat, bucket.refilled_at <= time
    PROVE  \E gained \in Nat :
               LET full   == limit.limit * Thousandths
                   earned == (time - bucket.refilled_at) * full
               IN  /\ gained * limit.windowMs <= earned
                   /\ earned < gained * limit.windowMs + limit.windowMs
                   /\ refilledBucket(bucket, limit, time)
                        = MinOf(full, bucket.available + gained)
<1> DEFINE W == limit.windowMs  full == limit.limit * Thousandths
           since == time - bucket.refilled_at
           earned == since * full  gained == earned \div W
<1>1. W \in Nat \ {0} /\ full \in Nat \ {0} /\ since \in Nat
  BY DEF Enforced, Thousandths
<1>2. earned \in Nat
  <2> HIDE DEF full, since
  <2> QED BY <1>1
<1>3. gained \in Nat /\ gained * W <= earned /\ earned < gained * W + W
  <2> HIDE DEF earned, W
  <2> QED BY <1>1, <1>2
<1>4. since * limit.limit * Thousandths = earned
  <2> HIDE DEF since
  <2> QED BY <1>1 DEF Thousandths
<1>5. MaxOf(0, time - bucket.refilled_at) = since
  BY <1>1 DEF MaxOf
<1>6. refilledBucket(bucket, limit, time) = MinOf(full, bucket.available + gained)
  BY <1>4, <1>5 DEF refilledBucket
<1> HIDE DEF gained
<1> QED
  BY <1>3, <1>6

(* Products of naturals compare as their factors do.                       *)
LEMMA Cancel ==
    ASSUME NEW a \in Int, NEW b \in Int, NEW w \in Nat \ {0}, a * w < b * w + w
    PROVE  a <= b
<1>1. SUFFICES ASSUME b + 1 <= a PROVE FALSE
  OBVIOUS
<1>2. PICK k \in Nat : a = b + 1 + k
  <2>1. a - b - 1 \in Nat /\ a = b + 1 + (a - b - 1)
    BY <1>1
  <2> QED BY <2>1
<1>3. a * w = b * w + w + k * w
  BY <1>2
<1>4. k * w \in Nat /\ a * w \in Int /\ b * w \in Int
  OBVIOUS
<1> QED
  BY <1>3, <1>4

(* A bucket that is short has enough once the wait it quotes is over,      *)
(* unless the amount is more than it can ever hold.                        *)
LEMMA WaitIsEnough ==
    ASSUME NEW limit, limit.limit \in Nat, limit.windowMs \in Nat,
           NEW bucket, bucket.available \in Nat, bucket.refilled_at \in Nat,
           NEW time \in Nat, bucket.refilled_at <= time,
           NEW amount \in Nat, amount <= limit.limit,
           BucketShort(bucket, limit, amount, time)
    PROVE  /\ BucketWait(bucket, limit, amount, time) \in Nat \ {0}
           /\ ~BucketShort(bucket, limit, amount, time + BucketWait(bucket, limit, amount, time))
<1> DEFINE W == limit.windowMs  full == limit.limit * Thousandths
           ref == refilledBucket(bucket, limit, time)
           lack == amount * Thousandths - ref
           wait == BucketWait(bucket, limit, amount, time)
           later == time + wait
           since == time - bucket.refilled_at
<1>0. Enforced(limit)
  BY DEF BucketShort
<1>1. /\ W \in Nat \ {0} /\ full \in Nat \ {0} /\ since \in Nat /\ ref \in Nat
      /\ amount * Thousandths \in Nat /\ amount * Thousandths <= full
      /\ ref < amount * Thousandths
  BY <1>0, RefillType DEF Enforced, Thousandths, BucketShort
<1>2. lack \in Nat \ {0}
  <2> HIDE DEF ref
  <2> QED BY <1>1
<1>3. wait \in Nat \ {0} /\ wait * full >= lack * W
  <2>1. wait = CeilDiv(lack * W, full)
    BY DEF BucketWait
  <2>2. \A n \in Nat \ {0}, f \in Nat \ {0} :
            /\ CeilDiv(n, f) \in Nat \ {0}
            /\ CeilDiv(n, f) * f >= n
    <3>1. ASSUME NEW n \in Nat \ {0}, NEW f \in Nat \ {0}
          PROVE  CeilDiv(n, f) \in Nat \ {0} /\ CeilDiv(n, f) * f >= n
      <4> DEFINE up == n + f - 1  q == up \div f
      <4>1. up \in Nat /\ up = n + f - 1
        OBVIOUS
      <4> HIDE DEF up
      <4>2. q \in Nat /\ q * f <= up /\ up < q * f + f
        BY <4>1
      <4>3. CeilDiv(n, f) = q
        BY DEF CeilDiv, up
      <4> HIDE DEF q
      <4>4. q * f >= n
        BY <4>1, <4>2
      <4>5. q # 0
        <5>1. SUFFICES ASSUME q = 0 PROVE FALSE
          OBVIOUS
        <5>2. q * f = 0
          BY <5>1
        <5> QED
          BY <4>4, <5>2
      <4> QED
        BY <4>2, <4>3, <4>4, <4>5
    <3> QED
      BY <3>1
  <2>3. lack * W \in Nat \ {0}
    <3> HIDE DEF lack, W
    <3>1. PICK k \in Nat : lack = k + 1
      <4>1. lack - 1 \in Nat /\ lack = (lack - 1) + 1
        BY <1>2
      <4> QED BY <4>1
    <3>2. lack * W = k * W + W /\ k * W \in Nat
      BY <1>1, <3>1
    <3> QED BY <1>1, <3>2
  <2> HIDE DEF lack, W, full, wait
  <2> QED
    BY <1>1, <2>1, <2>2, <2>3
<1>4. PICK gained \in Nat :
        /\ gained * W <= since * full
        /\ ref = MinOf(full, bucket.available + gained)
  BY <1>0, RefillIs
<1>5. /\ later \in Nat /\ bucket.refilled_at <= later
      /\ later - bucket.refilled_at = since + wait
  <2> HIDE DEF wait
  <2> QED BY <1>3
<1>6. PICK gained2 \in Nat :
        /\ (since + wait) * full < gained2 * W + W
        /\ refilledBucket(bucket, limit, later) = MinOf(full, bucket.available + gained2)
  <2>1. \E g \in Nat :
          /\ g * W <= (later - bucket.refilled_at) * full
          /\ (later - bucket.refilled_at) * full < g * W + W
          /\ refilledBucket(bucket, limit, later) = MinOf(full, bucket.available + g)
    <3> HIDE DEF later
    <3> QED BY <1>0, <1>5, RefillIs
  <2> QED
    BY <1>5, <2>1
<1>7. ref = bucket.available + gained
  <2> HIDE DEF ref, full
  <2> QED BY <1>1, <1>4 DEF MinOf
<1>8. gained + lack <= gained2
  <2> HIDE DEF lack, W, full, wait, since, ref, later
  <2>1. (gained + lack) * W = gained * W + lack * W
    BY <1>1, <1>2
  <2>2. (since + wait) * full = since * full + wait * full
    BY <1>1, <1>3
  <2>3. /\ gained * W \in Int /\ lack * W \in Int /\ since * full \in Int /\ wait * full \in Int
        /\ gained2 * W \in Int
    BY <1>1, <1>2, <1>3
  <2>4. (gained + lack) * W < gained2 * W + W
    BY <1>1, <1>3, <1>4, <1>6, <2>1, <2>2, <2>3
  <2> QED
    BY <1>1, <1>2, <2>4, Cancel
<1>9. refilledBucket(bucket, limit, later) >= amount * Thousandths
  <2>1. lack = amount * Thousandths - ref
    OBVIOUS
  <2> DEFINE need == amount * Thousandths
  <2> HIDE DEF lack, full, ref, later, need
  <2> QED
    BY <1>1, <1>2, <1>6, <1>7, <1>8, <2>1 DEF MinOf, need
<1>10. refilledBucket(bucket, limit, later) \in Nat
  <2> HIDE DEF later
  <2> QED BY <1>0, <1>5, RefillType
<1> QED
  <2> DEFINE there == refilledBucket(bucket, limit, later)  need == amount * Thousandths
  <2>1. ~(there < need)
    <3> HIDE DEF there, need
    <3>1. there >= need /\ there \in Nat /\ need \in Nat
      BY <1>1, <1>9, <1>10 DEF there, need
    <3> QED BY <3>1
  <2> QED
    BY <1>3, <2>1 DEF BucketShort

(* Spending from a bucket that has enough: what is spent and what is left  *)
(* were there, and came from what was left last time and the time since.   *)
LEMMA SpendingAccounts ==
    ASSUME NEW limit, limit.limit \in Nat, limit.windowMs \in Nat, Enforced(limit),
           NEW bucket, bucket.available \in Nat, bucket.refilled_at \in Nat,
           NEW time \in Nat, bucket.refilled_at <= time,
           NEW amount \in Nat, ~BucketShort(bucket, limit, amount, time)
    PROVE  LET after == spendBucket(bucket, limit, amount, time)
               full  == limit.limit * Thousandths
               W     == limit.windowMs
               kept  == amount * Thousandths + after.available
           IN  /\ after.refilled_at = time
               /\ after.available \in Nat
               /\ kept * W <= full * W
               /\ kept * W <= bucket.available * W + (time - bucket.refilled_at) * full
<1> DEFINE after == spendBucket(bucket, limit, amount, time)
           full == limit.limit * Thousandths  W == limit.windowMs
           spent == amount * Thousandths
           kept == amount * Thousandths + after.available
           ref == refilledBucket(bucket, limit, time)
           since == time - bucket.refilled_at
<1>1. /\ W \in Nat \ {0} /\ full \in Nat /\ since \in Nat /\ ref \in Nat /\ spent \in Nat
  BY RefillType DEF Enforced, Thousandths
<1>2. ref >= spent
  <2>1. ~(ref < spent)
    BY DEF BucketShort
  <2> HIDE DEF ref, spent
  <2> QED BY <1>1, <2>1
<1>3. after = [available |-> MaxOf(0, ref - spent), refilled_at |-> time]
  BY DEF spendBucket
<1>4. after.refilled_at = time /\ after.available = ref - spent
  <2> HIDE DEF ref, spent, after
  <2> QED BY <1>1, <1>2, <1>3 DEF MaxOf
<1>5. kept = ref /\ after.available \in Nat
  <2>1. kept = spent + after.available
    OBVIOUS
  <2> HIDE DEF ref, spent, after, kept
  <2> QED BY <1>1, <1>2, <1>4, <2>1
<1>6. PICK gained \in Nat :
        /\ gained * W <= since * full
        /\ ref = MinOf(full, bucket.available + gained)
  BY RefillIs
<1>7. ref <= full /\ ref <= bucket.available + gained
  <2> HIDE DEF ref, full
  <2> QED BY <1>1, <1>6 DEF MinOf
<1>8. \A a, b \in Nat : a <= b => a * W <= b * W
  <2> SUFFICES ASSUME NEW a \in Nat, NEW b \in Nat, a <= b PROVE a * W <= b * W
    OBVIOUS
  <2>1. PICK k \in Nat : b = a + k
    <3>1. b - a \in Nat /\ b = a + (b - a)
      OBVIOUS
    <3> QED BY <3>1
  <2> HIDE DEF W
  <2>2. b * W = a * W + k * W /\ a * W \in Nat /\ k * W \in Nat
    BY <1>1, <2>1
  <2> QED BY <2>2
<1>9. ref * W <= full * W /\ ref * W <= (bucket.available + gained) * W
  <2> HIDE DEF ref, full, W
  <2> QED BY <1>1, <1>7, <1>8
<1>10. ref * W <= bucket.available * W + since * full
  <2> HIDE DEF ref, full, W, since
  <2>1. (bucket.available + gained) * W = bucket.available * W + gained * W
    BY <1>1
  <2>2. /\ bucket.available * W \in Nat /\ gained * W \in Nat /\ since * full \in Nat
        /\ ref * W \in Nat
    BY <1>1
  <2> QED
    BY <1>6, <1>9, <2>1, <2>2
<1> HIDE DEF kept, ref, after, since
<1> QED
  BY <1>4, <1>5, <1>9, <1>10 DEF kept, after, since

-----------------------------------------------------------------------------
(* The wait a denial quotes.                                               *)

(* A request that fits the budget and the tokens limit of its credential.  *)
FitsLimits(tokens, settings) ==
    /\ settings.dailySafetyBudgetTokens > 0 => tokens <= settings.dailySafetyBudgetTokens
    /\ Enforced(settings.tokens) => tokens <= settings.tokens.limit

(* No bucket was refilled after time.                                      *)
BucketsNotAhead(ledger, time) ==
    ledger.requests.refilled_at <= time /\ ledger.tokens.refilled_at <= time

(* Releasing touches neither bucket.                                       *)
LEMMA ReleaseKeepsBuckets ==
    ASSUME NEW ledger, NEW ttlMs, NEW time, LedgerType(ledger)
    PROVE  LET after == releaseExpiredReservations(ledger, ttlMs, time) IN
           after.requests = ledger.requests /\ after.tokens = ledger.tokens
BY DEF releaseExpiredReservations, LedgerType

(* And so does settling.                                                   *)
LEMMA SettleKeepsBuckets ==
    ASSUME NEW ledger, NEW id, NEW outcome, NEW settings, NEW time, LedgerType(ledger)
    PROVE  LET after == Settled(ledger, id, outcome, settings, time) IN
           after.requests = ledger.requests /\ after.tokens = ledger.tokens
BY DEF Settled, LedgerType

(* The next day begins after now, and nothing is charged to it or reserved *)
(* on it yet.                                                              *)
LEMMA NextDayIsFree ==
    ASSUME NEW ledger, LedgerType(ledger), NEW after, LedgerType(after),
           NEW time \in Nat, NotAhead(ledger, time),
           after.spent = ledger.spent, DOMAIN after.rows \subseteq DOMAIN ledger.rows,
           \A id \in DOMAIN after.rows : after.rows[id] = ledger.rows[id]
    PROVE  LET wait  == msUntilNextUtcDay(time)
               later == time + wait
           IN  /\ wait \in Nat \ {0}
               /\ SpentOn(after, utcDay(later)) = 0
               /\ reservedTokensForDay(after, later) = 0
<1> DEFINE wait == msUntilNextUtcDay(time)  later == time + wait
           d == utcDay(time)  e == utcDay(later)  dawn == (d + 1) * DayLength
<1>1. /\ d \in Nat /\ time < dawn /\ dawn \in Nat
  BY DayOf
<1>2. wait = dawn - time
  BY DEF msUntilNextUtcDay
<1>3. wait \in Nat \ {0} /\ later = dawn
  <2> HIDE DEF dawn, wait
  <2> QED BY <1>1, <1>2 DEF wait
<1>4. /\ e \in Nat /\ e * DayLength <= dawn /\ dawn < (e + 1) * DayLength
  <2> HIDE DEF later
  <2> QED BY <1>1, <1>3, DayOf
<1>5. e = d + 1
  <2>1. DayLength \in Nat \ {0}
    OBVIOUS
  <2>2. (e + 1) * DayLength = e * DayLength + DayLength
        /\ (d + 1 + 1) * DayLength = (d + 1) * DayLength + DayLength
    BY <1>1, <1>4
  <2>3. e * DayLength < (d + 1) * DayLength + DayLength
        /\ (d + 1) * DayLength < e * DayLength + DayLength
    <3>1. dawn = (d + 1) * DayLength /\ e * DayLength \in Int
      BY <1>4
    <3> HIDE DEF d, e, dawn, later
    <3> QED BY <1>1, <1>4, <2>2, <3>1
  <2> HIDE DEF d, e, later
  <2>4. e <= d + 1 /\ d + 1 <= e
    BY <1>1, <1>4, <2>1, <2>3, Cancel
  <2> QED BY <1>1, <1>4, <2>4
<1>6. SpentOn(after, e) = 0
  <2>1. \A day \in DOMAIN ledger.spent : day \in Nat /\ day <= d
    BY DEF NotAhead, LedgerType
  <2> HIDE DEF e, d, later
  <2>2. e \notin DOMAIN after.spent
    BY <1>1, <1>5, <2>1
  <2> QED BY <2>2 DEF SpentOn
<1>7. reservedTokensForDay(after, later) = 0
  <2> DEFINE mine == {id \in DOMAIN after.rows : after.rows[id].created_at >= e * DayLength}
  <2>1. e * DayLength = dawn
    BY <1>5
  <2>2. \A id \in DOMAIN after.rows :
            after.rows[id].created_at \in Nat /\ after.rows[id].created_at <= time
    BY DEF NotAhead, LedgerType
  <2>3. mine = {}
    <3> HIDE DEF dawn, d, e, later
    <3> QED BY <1>1, <2>1, <2>2
  <2>4. reservedTokensForDay(after, later) = TokensOf(after.rows, mine)
    BY DEF reservedTokensForDay
  <2> HIDE DEF mine
  <2> QED BY <2>3, <2>4, TokensNone
<1> HIDE DEF wait, later, d, e
<1> QED
  BY <1>3, <1>6, <1>7 DEF e, later, wait

(* The least of a set of naturals is its minimum.                          *)
LEMMA MinIs ==
    ASSUME NEW S, S \subseteq Nat, NEW m \in S, \A n \in S : m <= n
    PROVE  Min(S) = m
<1>1. Min(S) \in S /\ \A n \in S : Min(S) <= n
  BY DEF Min
<1>2. Min(S) <= m /\ m <= Min(S) /\ Min(S) \in Nat /\ m \in Nat
  BY <1>1
<1> QED
  BY <1>2

(* The oldest of the rows is gone a millisecond after the quoted wait.     *)
LEMMA OldestRowGoes ==
    ASSUME NEW ledger, LedgerType(ledger), NEW ttlMs \in Nat, NEW time \in Nat,
           LET seen == releaseExpiredReservations(ledger, ttlMs, time) IN
               DOMAIN seen.rows # {}
    PROVE  LET seen == releaseExpiredReservations(ledger, ttlMs, time)
               wait == retryAfterForConcurrency(seen, ttlMs, time)
               after == releaseExpiredReservations(ledger, ttlMs, time + wait + 1)
           IN  /\ wait \in Nat \ {0}
               /\ reservationCount(after) < reservationCount(seen)
<1> DEFINE seen == releaseExpiredReservations(ledger, ttlMs, time)
           wait == retryAfterForConcurrency(seen, ttlMs, time)
           later == time + wait + 1
           after == releaseExpiredReservations(ledger, ttlMs, later)
           dates == {seen.rows[id].created_at : id \in DOMAIN seen.rows}
           oldest == Min(dates)
<1>1. /\ LedgerType(seen)
      /\ DOMAIN seen.rows = {id \in DOMAIN ledger.rows : ledger.rows[id].created_at >= time - ttlMs}
      /\ \A id \in DOMAIN seen.rows : seen.rows[id] = ledger.rows[id]
  BY Releasing
<1>2. PICK id0 \in DOMAIN seen.rows :
          \A id \in DOMAIN seen.rows : seen.rows[id0].created_at <= seen.rows[id].created_at
  <2>1. dates \in SUBSET Nat /\ dates # {}
    BY <1>1 DEF LedgerType
  <2>2. PICK n \in dates : \A k \in dates : n <= k
    <3> HIDE DEF dates
    <3> QED BY <2>1, LeastNat
  <2> QED BY <2>2
<1>3. oldest = seen.rows[id0].created_at
  <2>1. seen.rows[id0].created_at \in dates
        /\ \A k \in dates : seen.rows[id0].created_at <= k
    BY <1>2
  <2>2. dates \subseteq Nat
    BY <1>1 DEF LedgerType
  <2> DEFINE first == seen.rows[id0].created_at
  <2> HIDE DEF dates, first
  <2>3. first \in dates /\ \A k \in dates : first <= k
    BY <2>1 DEF first
  <2>4. Min(dates) = first
    BY <2>2, <2>3, MinIs
  <2> QED BY <2>4 DEF first
<1>4. /\ oldest \in Nat /\ oldest >= time - ttlMs
  BY <1>1, <1>3 DEF LedgerType
<1>5. wait = MaxOf(1, oldest + ttlMs - time)
  BY DEF retryAfterForConcurrency
<1>6. wait \in Nat \ {0} /\ wait >= oldest + ttlMs - time
  <2> HIDE DEF oldest, wait
  <2> QED BY <1>4, <1>5 DEF MaxOf
<1>7. later \in Nat /\ later > time /\ later - ttlMs > oldest
  <2> HIDE DEF oldest, wait
  <2> QED BY <1>4, <1>6
<1>8. /\ LedgerType(after)
      /\ DOMAIN after.rows = {id \in DOMAIN ledger.rows : ledger.rows[id].created_at >= later - ttlMs}
  <2> HIDE DEF later
  <2> QED BY <1>7, Releasing
<1>9. DOMAIN after.rows \subseteq DOMAIN seen.rows \ {id0}
  <2>1. \A id \in DOMAIN ledger.rows : ledger.rows[id].created_at \in Nat
    BY DEF LedgerType
  <2>2. id0 \in DOMAIN ledger.rows /\ ledger.rows[id0].created_at = oldest
    BY <1>1, <1>2, <1>3
  <2> HIDE DEF later, oldest, seen, after
  <2> QED BY <1>1, <1>4, <1>7, <1>8, <2>1, <2>2
<1>10. reservationCount(after) < reservationCount(seen)
  <2>1. IsFiniteSet(DOMAIN seen.rows)
    BY <1>1 DEF LedgerType
  <2> HIDE DEF seen, after
  <2>2. /\ IsFiniteSet(DOMAIN seen.rows \ {id0})
        /\ Cardinality(DOMAIN seen.rows \ {id0}) = Cardinality(DOMAIN seen.rows) - 1
    BY <1>2, <2>1, FS_RemoveElement
  <2>3. Cardinality(DOMAIN after.rows) <= Cardinality(DOMAIN seen.rows \ {id0})
        /\ IsFiniteSet(DOMAIN after.rows)
    BY <1>9, <2>2, FS_Subset
  <2>4. Cardinality(DOMAIN after.rows) \in Nat /\ Cardinality(DOMAIN seen.rows) \in Nat
    BY <2>1, <2>3, FS_CardinalityType
  <2> QED
    BY <2>2, <2>3, <2>4 DEF reservationCount
<1> HIDE DEF wait, after, seen
<1> QED
  BY <1>6, <1>10 DEF wait, after, seen

(* The verdict at a later time, once the expired rows are gone.            *)
QuoteOn(ledger, tokens, settings, time) ==
    Quote(releaseExpiredReservations(ledger, settings.reservationTtlMs, time),
          tokens, settings, time)

(* The wait quoted at time outlasts the objection.                         *)
HintSuffices(ledger, tokens, settings, time) ==
    LET quote == QuoteOn(ledger, tokens, settings, time)
        slack == IF quote.reason = "concurrency_limit" THEN 1 ELSE 0
    IN  QuoteOn(ledger, tokens, settings, time + quote.retryAfterMs + slack).reason
          # quote.reason

(* When the quoted wait is over, the objection it was quoted for is gone,  *)
(* if nothing but time touched the ledger and the request fits.            *)
LEMMA QuotedWaitSuffices ==
    ASSUME NEW ledger, NEW settings, NEW tokens \in Nat, NEW time \in Nat,
           LedgerType(ledger), SettingsType(settings), FitsLimits(tokens, settings),
           NotAhead(ledger, time), BucketsNotAhead(ledger, time),
           settings.maxConcurrent > 0 => reservationCount(ledger) <= settings.maxConcurrent,
           ~QuoteOn(ledger, tokens, settings, time).allowed
    PROVE  HintSuffices(ledger, tokens, settings, time)
<1> DEFINE ttlMs == settings.reservationTtlMs
           seen  == releaseExpiredReservations(ledger, ttlMs, time)
           quote == Quote(seen, tokens, settings, time)
           After(later) == releaseExpiredReservations(ledger, ttlMs, later)
           Then(later) == Quote(After(later), tokens, settings, later)
           slack == IF quote.reason = "concurrency_limit" THEN 1 ELSE 0
<1>0. ~quote.allowed
  BY DEF QuoteOn
<1> SUFFICES Then(time + quote.retryAfterMs + slack).reason # quote.reason
  BY DEF HintSuffices, QuoteOn
<1>1. /\ ttlMs \in Nat
      /\ settings.requests.limit \in Nat /\ settings.requests.windowMs \in Nat
      /\ settings.tokens.limit \in Nat /\ settings.tokens.windowMs \in Nat
      /\ settings.dailySafetyBudgetTokens \in Nat /\ settings.maxConcurrent \in Nat
  BY DEF SettingsType
<1>2. \A later \in Nat :
          /\ LedgerType(After(later))
          /\ DOMAIN After(later).rows \subseteq DOMAIN ledger.rows
          /\ \A id \in DOMAIN After(later).rows : After(later).rows[id] = ledger.rows[id]
          /\ After(later).spent = ledger.spent
          /\ After(later).cooldown_until = ledger.cooldown_until
          /\ After(later).requests = ledger.requests
          /\ After(later).tokens = ledger.tokens
  BY <1>1, Releasing, ReleaseKeepsBuckets
<1>3. /\ LedgerType(seen) /\ seen.cooldown_until = ledger.cooldown_until
      /\ seen.requests = ledger.requests /\ seen.tokens = ledger.tokens
  BY <1>2
<1>4. /\ ledger.cooldown_until \in Nat
      /\ ledger.requests.available \in Nat /\ ledger.requests.refilled_at \in Nat
      /\ ledger.tokens.available \in Nat /\ ledger.tokens.refilled_at \in Nat
      /\ ledger.requests.refilled_at <= time /\ ledger.tokens.refilled_at <= time
  BY DEF LedgerType, BucketsNotAhead
<1>5. CASE CoolingDown(seen, time)
  <2>1. quote.reason = "cooldown" /\ quote.retryAfterMs = MaxOf(1, seen.cooldown_until - time)
    BY <1>5 DEF Quote, denied
  <2> DEFINE later == time + quote.retryAfterMs
  <2>2. later \in Nat /\ ~CoolingDown(After(later), later)
    <3> HIDE DEF quote, seen, After
    <3>1. quote.retryAfterMs = ledger.cooldown_until - time /\ later = ledger.cooldown_until
      BY <1>3, <1>4, <1>5, <2>1 DEF CoolingDown, MaxOf
    <3>2. After(later).cooldown_until = ledger.cooldown_until
      BY <1>2, <1>4, <3>1
    <3> QED BY <1>4, <3>1, <3>2 DEF CoolingDown
  <2>3. Then(later).reason # "cooldown"
    BY <2>2 DEF Quote, denied, Granted
  <2> HIDE DEF Then, quote
  <2>4. Then(time + quote.retryAfterMs + 0).reason # "cooldown"
    BY <2>1, <2>2, <2>3
  <2> QED BY <2>1, <2>4 DEF Then, quote
<1>6. CASE ~CoolingDown(seen, time) /\ OverBudget(seen, tokens, settings, time)
  <2>1. quote.reason = "safety_budget"
        /\ quote.retryAfterMs = MaxOf(1, msUntilNextUtcDay(time))
    BY <1>6 DEF Quote, denied
  <2> DEFINE wait == msUntilNextUtcDay(time)  later == time + wait
  <2>2. wait \in Nat \ {0} /\ later \in Nat
    <3> HIDE DEF wait
    <3>1. wait \in Nat \ {0}
      BY NextDayIsFree, <1>2 DEF wait
    <3> QED BY <3>1
  <2>3. /\ SpentOn(After(later), utcDay(later)) = 0
        /\ reservedTokensForDay(After(later), later) = 0
    <3> DEFINE after == After(later)
    <3>1. /\ LedgerType(after) /\ after.spent = ledger.spent
          /\ DOMAIN after.rows \subseteq DOMAIN ledger.rows
          /\ \A id \in DOMAIN after.rows : after.rows[id] = ledger.rows[id]
      <4> HIDE DEF After, later
      <4> QED BY <1>2, <2>2
    <3> HIDE DEF after
    <3>2. SpentOn(after, utcDay(later)) = 0 /\ reservedTokensForDay(after, later) = 0
      BY <3>1, NextDayIsFree
    <3> QED BY <3>2 DEF after
  <2>4. ~OverBudget(After(later), tokens, settings, later)
    <3> HIDE DEF After, later
    <3> QED BY <1>1, <2>3 DEF OverBudget, FitsLimits
  <2>5. Then(later).reason # "safety_budget"
    BY <2>4 DEF Quote, denied, Granted
  <2>6. quote.retryAfterMs = wait
    <3> HIDE DEF wait, quote
    <3> QED BY <2>1, <2>2 DEF MaxOf, wait
  <2>7. time + quote.retryAfterMs + 0 = later
    <3> HIDE DEF wait, quote
    <3> QED BY <2>2, <2>6
  <2> HIDE DEF Then, quote, later
  <2> QED BY <2>1, <2>5, <2>7 DEF Then, quote
<1>7. CASE /\ ~CoolingDown(seen, time) /\ ~OverBudget(seen, tokens, settings, time)
           /\ BucketShort(seen.requests, settings.requests, 1, time)
  <2> DEFINE wait == BucketWait(ledger.requests, settings.requests, 1, time)
             later == time + wait
  <2>1. quote.reason = "request_rate_limit" /\ quote.retryAfterMs = MaxOf(1, wait)
    BY <1>3, <1>7 DEF Quote, denied
  <2>2. /\ wait \in Nat \ {0}
        /\ ~BucketShort(ledger.requests, settings.requests, 1, later)
    <3>1. 1 <= settings.requests.limit
      BY <1>1, <1>7 DEF BucketShort, Enforced
    <3>2. BucketShort(ledger.requests, settings.requests, 1, time)
      BY <1>3, <1>7
    <3> QED BY <1>1, <1>4, <3>1, <3>2, WaitIsEnough
  <2>3. quote.retryAfterMs = wait /\ later \in Nat /\ time + quote.retryAfterMs + 0 = later
    <3> HIDE DEF wait, quote
    <3> QED BY <2>1, <2>2 DEF MaxOf
  <2>4. ~BucketShort(After(later).requests, settings.requests, 1, later)
    <3> HIDE DEF After, later
    <3> QED BY <1>2, <2>2, <2>3
  <2>5. Then(later).reason # "request_rate_limit"
    BY <2>4 DEF Quote, denied, Granted
  <2> HIDE DEF Then, quote, later
  <2> QED BY <2>1, <2>3, <2>5 DEF Then, quote
<1>8. CASE /\ ~CoolingDown(seen, time) /\ ~OverBudget(seen, tokens, settings, time)
           /\ ~BucketShort(seen.requests, settings.requests, 1, time)
           /\ BucketShort(seen.tokens, settings.tokens, tokens, time)
  <2> DEFINE wait == BucketWait(ledger.tokens, settings.tokens, tokens, time)
             later == time + wait
  <2>1. quote.reason = "token_rate_limit" /\ quote.retryAfterMs = MaxOf(1, wait)
    BY <1>3, <1>8 DEF Quote, denied
  <2>2. /\ wait \in Nat \ {0}
        /\ ~BucketShort(ledger.tokens, settings.tokens, tokens, later)
    <3>1. tokens <= settings.tokens.limit
      BY <1>8 DEF BucketShort, FitsLimits
    <3>2. BucketShort(ledger.tokens, settings.tokens, tokens, time)
      BY <1>3, <1>8
    <3> QED BY <1>1, <1>4, <3>1, <3>2, WaitIsEnough
  <2>3. quote.retryAfterMs = wait /\ later \in Nat /\ time + quote.retryAfterMs + 0 = later
    <3> HIDE DEF wait, quote
    <3> QED BY <2>1, <2>2 DEF MaxOf
  <2>4. ~BucketShort(After(later).tokens, settings.tokens, tokens, later)
    <3> HIDE DEF After, later
    <3> QED BY <1>2, <2>2, <2>3
  <2>5. Then(later).reason # "token_rate_limit"
    BY <2>4 DEF Quote, denied, Granted
  <2> HIDE DEF Then, quote, later
  <2> QED BY <2>1, <2>3, <2>5 DEF Then, quote
<1>9. CASE /\ ~CoolingDown(seen, time) /\ ~OverBudget(seen, tokens, settings, time)
           /\ ~BucketShort(seen.requests, settings.requests, 1, time)
           /\ ~BucketShort(seen.tokens, settings.tokens, tokens, time)
           /\ AtConcurrencyLimit(seen, settings)
  <2> DEFINE wait == retryAfterForConcurrency(seen, ttlMs, time)
             later == time + wait + 1
  <2>1. quote.reason = "concurrency_limit" /\ quote.retryAfterMs = MaxOf(1, wait)
    BY <1>9 DEF Quote, denied
  <2>2. DOMAIN seen.rows # {}
    <3>1. settings.maxConcurrent > 0 /\ reservationCount(seen) >= settings.maxConcurrent
      BY <1>9 DEF AtConcurrencyLimit
    <3> HIDE DEF seen
    <3>2. DOMAIN seen.rows = {} => reservationCount(seen) = 0
      BY FS_EmptySet DEF reservationCount
    <3> QED BY <1>1, <3>1, <3>2
  <2>3. wait \in Nat \ {0} /\ reservationCount(After(later)) < reservationCount(seen)
    BY <1>1, <2>2, OldestRowGoes
  <2>4. quote.retryAfterMs = wait /\ later \in Nat /\ time + quote.retryAfterMs + 1 = later
    <3> HIDE DEF wait, quote
    <3> QED BY <2>1, <2>3 DEF MaxOf
  <2>5. /\ reservationCount(seen) <= reservationCount(ledger)
        /\ reservationCount(seen) \in Nat /\ reservationCount(ledger) \in Nat
        /\ reservationCount(After(later)) \in Nat
    <3>1. /\ DOMAIN seen.rows \subseteq DOMAIN ledger.rows /\ IsFiniteSet(DOMAIN ledger.rows)
      BY <1>2 DEF LedgerType
    <3>2. IsFiniteSet(DOMAIN After(later).rows)
      <4> HIDE DEF After, later
      <4> QED BY <1>2, <2>4 DEF LedgerType
    <3> HIDE DEF seen, After, later
    <3>3. /\ IsFiniteSet(DOMAIN seen.rows)
          /\ Cardinality(DOMAIN seen.rows) <= Cardinality(DOMAIN ledger.rows)
      BY <3>1, FS_Subset
    <3> QED BY <3>1, <3>2, <3>3, FS_CardinalityType DEF reservationCount
  <2>6. ~AtConcurrencyLimit(After(later), settings)
    <3>1. settings.maxConcurrent > 0
      BY <1>9 DEF AtConcurrencyLimit
    <3> HIDE DEF seen, After, later
    <3>2. reservationCount(After(later)) < settings.maxConcurrent
      BY <1>1, <2>3, <2>5, <3>1
    <3> QED BY <1>1, <2>5, <3>2 DEF AtConcurrencyLimit
  <2>7. Then(later).reason # "concurrency_limit"
    BY <2>6 DEF Quote, denied, Granted
  <2> HIDE DEF Then, quote, later
  <2> QED BY <2>1, <2>4, <2>7 DEF Then, quote
<1>10. CASE /\ ~CoolingDown(seen, time) /\ ~OverBudget(seen, tokens, settings, time)
            /\ ~BucketShort(seen.requests, settings.requests, 1, time)
            /\ ~BucketShort(seen.tokens, settings.tokens, tokens, time)
            /\ ~AtConcurrencyLimit(seen, settings)
  <2>1. quote = Granted
    BY <1>10 DEF Quote
  <2> HIDE DEF quote
  <2> QED BY <1>0, <2>1 DEF Granted
<1> HIDE DEF seen
<1> QED
  BY <1>5, <1>6, <1>7, <1>8, <1>9, <1>10

(* Nothing an operation writes is dated after its time.                    *)
Dated(ledger, time) == NotAhead(ledger, time) /\ BucketsNotAhead(ledger, time)

(* Releasing, reserving and settling keep a ledger dated.                  *)
LEMMA OperationsDated ==
    ASSUME NEW ledger, NEW settings, NEW time \in Nat,
           LedgerType(ledger), SettingsType(settings), Dated(ledger, time)
    PROVE  /\ \A ttlMs \in Nat : Dated(releaseExpiredReservations(ledger, ttlMs, time), time)
           /\ \A id, tokens : tokens \in Nat
                => Dated(Reserved(ledger, id, tokens, settings, time), time)
           /\ \A id, outcome : OutcomeType(outcome)
                => Dated(Settled(ledger, id, outcome, settings, time), time)
<1>0. /\ \A id \in DOMAIN ledger.rows :
            ledger.rows[id].created_at \in Nat /\ ledger.rows[id].created_at <= time
      /\ \A day \in DOMAIN ledger.spent : day \in Nat /\ day <= utcDay(time)
      /\ ledger.requests.refilled_at <= time /\ ledger.tokens.refilled_at <= time
      /\ utcDay(time) \in Nat
  BY DayOf DEF Dated, NotAhead, BucketsNotAhead, LedgerType
<1>1. ASSUME NEW ttlMs \in Nat
      PROVE  Dated(releaseExpiredReservations(ledger, ttlMs, time), time)
  <2> DEFINE after == releaseExpiredReservations(ledger, ttlMs, time)
  <2>1. /\ DOMAIN after.rows \subseteq DOMAIN ledger.rows
        /\ \A id \in DOMAIN after.rows : after.rows[id] = ledger.rows[id]
        /\ after.spent = ledger.spent
        /\ after.requests = ledger.requests /\ after.tokens = ledger.tokens
    BY Releasing, ReleaseKeepsBuckets
  <2> HIDE DEF after
  <2>2. Dated(after, time)
    BY <1>0, <2>1 DEF Dated, NotAhead, BucketsNotAhead
  <2> QED BY <2>2 DEF after
<1>2. ASSUME NEW id, NEW tokens \in Nat
      PROVE  Dated(Reserved(ledger, id, tokens, settings, time), time)
  <2> DEFINE after == Reserved(ledger, id, tokens, settings, time)
  <2>1. /\ DOMAIN after.rows = DOMAIN ledger.rows \cup {id}
        /\ after.rows[id].created_at = time
        /\ \A row \in DOMAIN ledger.rows \ {id} : after.rows[row] = ledger.rows[row]
        /\ after.spent = ledger.spent
    BY Reserving
  <2>2. /\ after.requests = spendBucket(ledger.requests, settings.requests, 1, time)
        /\ after.tokens = spendBucket(ledger.tokens, settings.tokens, tokens, time)
    BY DEF Reserved, LedgerType
  <2>3. /\ after.requests.refilled_at \in {ledger.requests.refilled_at, time}
        /\ after.tokens.refilled_at \in {ledger.tokens.refilled_at, time}
    <3> HIDE DEF after
    <3> QED BY <2>2 DEF spendBucket
  <2> HIDE DEF after
  <2>4. NotAhead(after, time)
    BY <1>0, <2>1 DEF NotAhead
  <2>5. BucketsNotAhead(after, time)
    BY <1>0, <2>3 DEF BucketsNotAhead
  <2> QED BY <2>4, <2>5 DEF Dated, after
<1>3. ASSUME NEW id, NEW outcome, OutcomeType(outcome)
      PROVE  Dated(Settled(ledger, id, outcome, settings, time), time)
  <2> DEFINE after == Settled(ledger, id, outcome, settings, time)
  <2>0. /\ DOMAIN after.rows = DOMAIN ledger.rows \ {id}
        /\ \A row \in DOMAIN ledger.rows \ {id} : after.rows[row] = ledger.rows[row]
        /\ after.spent = IF id \in DOMAIN ledger.rows /\ outcome.quotaSuccess
                         THEN SpentAfter(ledger, ChargedTokens(outcome, ledger.rows[id].tokens),
                                         utcDay(time))
                         ELSE ledger.spent
    BY <1>3, Settling
  <2>1. /\ DOMAIN after.rows \subseteq DOMAIN ledger.rows
        /\ \A row \in DOMAIN after.rows : after.rows[row] = ledger.rows[row]
        /\ DOMAIN after.spent \subseteq DOMAIN ledger.spent \cup {utcDay(time)}
    <3> HIDE DEF after
    <3> QED BY <2>0 DEF SpentAfter
  <2>2. after.requests = ledger.requests /\ after.tokens = ledger.tokens
    BY SettleKeepsBuckets
  <2> HIDE DEF after
  <2>3. Dated(after, time)
    BY <1>0, <2>1, <2>2 DEF Dated, NotAhead, BucketsNotAhead
  <2> QED BY <2>3 DEF after
<1> QED
  BY <1>1, <1>2, <1>3

(* What is dated is dated later, too.                                      *)
LEMMA LaterDated ==
    ASSUME NEW ledger, LedgerType(ledger), NEW time \in Nat, NEW later \in Nat, time <= later,
           Dated(ledger, time)
    PROVE  Dated(ledger, later)
<1>1. utcDay(time) <= utcDay(later) /\ utcDay(time) \in Nat /\ utcDay(later) \in Nat
  BY DayOf, DaysInOrder
<1>2. /\ \A id \in DOMAIN ledger.rows : ledger.rows[id].created_at \in Nat
      /\ \A day \in DOMAIN ledger.spent : day \in Nat
      /\ ledger.requests.refilled_at \in Nat /\ ledger.tokens.refilled_at \in Nat
  BY DEF LedgerType
<1> QED
  BY <1>1, <1>2 DEF Dated, NotAhead, BucketsNotAhead
=============================================================================
