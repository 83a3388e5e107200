---------------------------- MODULE Collections ----------------------------
(***************************************************************************)
(* What the proofs need of sequences and of sums.  The promises of a       *)
(* contract that are out are a sequence: a call appends one, its callback  *)
(* takes it out.  The amounts the contracts keep are sums over sets that   *)
(* grow and shrink by one element at a time.                               *)
(***************************************************************************)
EXTENDS Integers, Sequences, SequencesExt, SequenceTheorems,
        FiniteSetTheorems, WellFoundedInduction, TLAPS

----------------------------------------------------------------------------
(* Sequences.                                                              *)

(* Appending leaves what was there where it was (Send).                    *)
LEMMA AppendKeeps ==
  ASSUME NEW S, NEW q \in Seq(S), NEW e \in S
  PROVE  /\ Append(q, e) \in Seq(S)
         /\ Len(Append(q, e)) = Len(q) + 1
         /\ Append(q, e)[Len(q) + 1] = e
         /\ \A j \in 1 .. Len(q) : Append(q, e)[j] = q[j]
OBVIOUS

(* Taking one out moves those after it by one place (Answered).            *)
LEMMA RemoveAtKeeps ==
  ASSUME NEW S, NEW q \in Seq(S), NEW i \in 1 .. Len(q)
  PROVE  /\ RemoveAt(q, i) \in Seq(S)
         /\ Len(RemoveAt(q, i)) = Len(q) - 1
         /\ \A j \in 1 .. Len(q) - 1 :
              RemoveAt(q, i)[j] = q[IF j < i THEN j ELSE j + 1]
<1> DEFINE head == SubSeq(q, 1, i - 1)
           tail == SubSeq(q, i + 1, Len(q))
<1>1. /\ Len(q) \in Nat /\ i \in Int
      /\ \A m \in 1 .. Len(q) : q[m] \in S
  OBVIOUS
<1>2. /\ head \in Seq(S) /\ Len(head) = i - 1
      /\ \A m \in 1 .. i - 1 : head[m] = q[m]
  BY <1>1
<1>3. /\ tail \in Seq(S) /\ Len(tail) = Len(q) - i
      /\ \A m \in 1 .. Len(q) - i : tail[m] = q[m + i]
  <2>1. \A m \in i + 1 .. Len(q) : q[m] \in S
    BY <1>1
  <2>2. /\ tail \in Seq(S)
        /\ Len(tail) = IF i + 1 <= Len(q) THEN Len(q) - (i + 1) + 1 ELSE 0
        /\ \A m \in 1 .. Len(q) - (i + 1) + 1 : tail[m] = q[i + 1 + m - 1]
    BY <1>1, <2>1, SubSeqProperties
  <2> HIDE DEF tail
  <2>3. Len(tail) = Len(q) - i
    BY <1>1, <2>2
  <2>4. ASSUME NEW m \in 1 .. Len(q) - i
        PROVE  tail[m] = q[m + i]
    <3>1. m \in 1 .. Len(q) - (i + 1) + 1 /\ i + 1 + m - 1 = m + i
      BY <1>1
    <3>2. tail[m] = q[i + 1 + m - 1]
      BY <2>2, <3>1
    <3> QED BY <3>1, <3>2
  <2> QED BY <2>2, <2>3, <2>4
<1>4. RemoveAt(q, i) = head \o tail
  BY DEF RemoveAt
<1> HIDE DEF head, tail
<1>5. /\ head \o tail \in Seq(S)
      /\ Len(head \o tail) = Len(head) + Len(tail)
      /\ \A m \in 1 .. Len(head) + Len(tail) : (head \o tail)[m] =
           IF m <= Len(head) THEN head[m] ELSE tail[m - Len(head)]
  BY <1>2, <1>3, ConcatProperties
<1>6. Len(RemoveAt(q, i)) = Len(q) - 1
  BY <1>1, <1>2, <1>3, <1>4, <1>5
<1>7. ASSUME NEW j \in 1 .. Len(q) - 1
      PROVE  RemoveAt(q, i)[j] = q[IF j < i THEN j ELSE j + 1]
  <2>1. /\ j \in Int /\ j \in 1 .. Len(head) + Len(tail)
        /\ j <= Len(head) <=> j < i
        /\ j - Len(head) = j - i + 1
    BY <1>1, <1>2, <1>3, <1>7
  <2>2. RemoveAt(q, i)[j] = IF j <= Len(head) THEN head[j]
                                              ELSE tail[j - Len(head)]
    BY <1>4, <1>5, <2>1
  <2>3. CASE j < i
    <3>1. j \in 1 .. i - 1
      BY <1>1, <1>7, <2>3
    <3> QED BY <1>2, <2>1, <2>2, <2>3, <3>1
  <2>4. CASE ~(j < i)
    <3>1. /\ j - i + 1 \in 1 .. Len(q) - i
          /\ (j - i + 1) + i = j + 1
      BY <1>1, <1>7, <2>1, <2>4
    <3>2. tail[j - i + 1] = q[j + 1]
      BY <1>3, <3>1
    <3> QED BY <2>1, <2>2, <2>4, <3>2
  <2> QED BY <2>3, <2>4
<1> QED BY <1>4, <1>5, <1>6, <1>7

(* What is left after taking one out was there before.                     *)
LEMMA RemoveAtFrom ==
  ASSUME NEW S, NEW q \in Seq(S), NEW i \in 1 .. Len(q),
         NEW j \in 1 .. Len(RemoveAt(q, i))
  PROVE  \E m \in 1 .. Len(q) : RemoveAt(q, i)[j] = q[m]
<1> DEFINE m == IF j < i THEN j ELSE j + 1
<1>1. Len(q) \in Nat /\ j \in 1 .. Len(q) - 1
  BY RemoveAtKeeps
<1>2. RemoveAt(q, i)[j] = q[m]
  BY <1>1, RemoveAtKeeps
<1>3. m \in 1 .. Len(q)
  BY <1>1
<1> QED BY <1>2, <1>3

----------------------------------------------------------------------------
(* Sums over finite sets.                                                  *)

(* One of T, if there is any; the same one each time.                      *)
Pick(T) == CHOOSE x \in T : TRUE

(* g has the sums of f over the subsets of S, computed one by one.         *)
Summed(f, g, S) ==
  g = [T \in SUBSET S |->
         IF T = {} THEN 0 ELSE f[Pick(T)] + g[T \ {Pick(T)}]]

(* The sum of f over S.                                                    *)
Total(f, S) == (CHOOSE g : Summed(f, g, S))[S]

(* f is an integer on all of S.                                            *)
Counts(f, S) == \A x \in S : f[x] \in Int

(* Among sets of elements of a finite set there is one that has none of    *)
(* the others as a part: what fails for some subset fails for a smallest.  *)
LEMMA Smallest ==
  ASSUME NEW S, IsFiniteSet(S), NEW bad \in SUBSET (SUBSET S), bad # {}
  PROVE  \E T \in bad : \A U \in bad : U \subseteq T => U = T
<1>1. IsWellFoundedOn(StrictSubsetOrdering(S), FiniteSubsetsOf(S))
  BY FS_StrictSubsetOrderingWellFounded
<1>2. bad \subseteq FiniteSubsetsOf(S)
  BY FS_FiniteSubsetsOfFinite
<1>3. PICK T \in bad : \A U \in bad : ~(<<U, T>> \in StrictSubsetOrdering(S))
  BY <1>1, <1>2, WFMin
<1> QED BY <1>3 DEF StrictSubsetOrdering

(* The one that is picked is one of the set.                               *)
LEMMA PickIn == \A T : T # {} => Pick(T) \in T
BY DEF Pick

(* What the sums over the subsets are at one of them.                      *)
LEMMA SummedAt ==
  ASSUME NEW f, NEW g, NEW S, Summed(f, g, S), NEW T \in SUBSET S
  PROVE  g[T] = IF T = {} THEN 0 ELSE f[Pick(T)] + g[T \ {Pick(T)}]
BY Zenon DEF Summed

(* The sums over the subsets are the same whatever they are subsets of.    *)
LEMMA SummedOnce ==
  ASSUME NEW S, IsFiniteSet(S), NEW f, NEW g, NEW h, NEW R,
         Summed(f, g, S), Summed(f, h, R), S \subseteq R,
         NEW T \in SUBSET S
  PROVE  g[T] = h[T]
<1> DEFINE bad == {U \in SUBSET S : g[U] # h[U]}
<1>0. bad \subseteq SUBSET S
  OBVIOUS
<1> HIDE DEF bad
<1>1. ASSUME bad # {}
      PROVE  FALSE
  <2>1. PICK U \in bad : \A V \in bad : V \subseteq U => V = U
    <3>1. bad \in SUBSET (SUBSET S)
      BY <1>0
    <3> QED BY <1>1, <3>1, Smallest
  <2>2. U \in SUBSET S /\ U \in SUBSET R /\ g[U] # h[U]
    BY <1>0, <2>1 DEF bad
  <2>3. /\ g[U] = IF U = {} THEN 0 ELSE f[Pick(U)] + g[U \ {Pick(U)}]
        /\ h[U] = IF U = {} THEN 0 ELSE f[Pick(U)] + h[U \ {Pick(U)}]
    <3>0. U \in SUBSET S /\ Summed(f, g, S)
      BY <2>2
    <3>1. g[U] = IF U = {} THEN 0 ELSE f[Pick(U)] + g[U \ {Pick(U)}]
      BY <3>0, SummedAt
    <3>2. h[U] = IF U = {} THEN 0 ELSE f[Pick(U)] + h[U \ {Pick(U)}]
      BY <2>2, SummedAt
    <3> QED BY <3>1, <3>2
  <2>4. U # {}
    BY <2>2, <2>3
  <2>5. /\ U \ {Pick(U)} \subseteq U /\ U \ {Pick(U)} # U
        /\ U \ {Pick(U)} \in SUBSET S
    BY <2>2, <2>4, PickIn
  <2>6. g[U \ {Pick(U)}] = h[U \ {Pick(U)}]
    BY <2>1, <2>5 DEF bad
  <2> QED BY <2>2, <2>3, <2>6
<1> QED BY <1>1 DEF bad

(* The sums over the subsets exist.                                        *)
LEMMA SummedExists ==
  ASSUME NEW S, IsFiniteSet(S), NEW f
  PROVE  \E g : Summed(f, g, S)
<1> DEFINE bad == {U \in SUBSET S : ~(\E g : Summed(f, g, U))}
<1>0. bad \subseteq SUBSET S
  OBVIOUS
<1> HIDE DEF bad
<1>1. ASSUME bad # {}
      PROVE  FALSE
  <2>1. PICK U \in bad : \A V \in bad : V \subseteq U => V = U
    <3>1. bad \in SUBSET (SUBSET S)
      BY <1>0
    <3> QED BY <1>1, <3>1, Smallest
  <2>2. U \in SUBSET S /\ IsFiniteSet(U)
    BY <1>0, <2>1, FS_Subset
  <2> USE DEF bad
  <2> DEFINE own == [V \in SUBSET U |-> CHOOSE g : Summed(f, g, V)]
             g == [V \in SUBSET U |->
                     IF V = {} THEN 0
                     ELSE f[Pick(V)] + own[V \ {Pick(V)}][V \ {Pick(V)}]]
  <2>3. ASSUME NEW V \in SUBSET U, V # U
        PROVE  Summed(f, own[V], V)
    <3>1. V \notin bad
      BY <2>1, <2>3
    <3>2. \E h : Summed(f, h, V)
      BY <2>2, <3>1
    <3>3. own[V] = CHOOSE h : Summed(f, h, V)
      OBVIOUS
    <3> HIDE DEF own
    <3> QED BY <3>2, <3>3
  <2> HIDE DEF own
  <2>4. ASSUME NEW V \in SUBSET U, V # U
        PROVE  g[V] = own[V][V]
    <3>1. own[V][V] = IF V = {} THEN 0
                      ELSE f[Pick(V)] + own[V][V \ {Pick(V)}]
      BY <2>3, <2>4, SummedAt
    <3>2. CASE V = {}
      BY <3>1, <3>2
    <3>3. CASE V # {}
      <4> DEFINE W == V \ {Pick(V)}
      <4>1. W \in SUBSET U /\ W # U /\ W \subseteq V
        BY <3>3, PickIn
      <4>2. IsFiniteSet(W)
        BY <2>2, <4>1, FS_Subset
      <4>3. Summed(f, own[W], W) /\ Summed(f, own[V], V)
        BY <2>3, <2>4, <4>1
      <4>4. own[W][W] = own[V][W]
        BY <4>1, <4>2, <4>3, SummedOnce
      <4>5. g[V] = f[Pick(V)] + own[W][W]
        BY <3>3
      <4> QED BY <3>1, <3>3, <4>4, <4>5
    <3> QED BY <3>2, <3>3
  <2>5. ASSUME NEW V \in SUBSET U
        PROVE  g[V] = IF V = {} THEN 0 ELSE f[Pick(V)] + g[V \ {Pick(V)}]
    <3>1. CASE V # {}
      <4> DEFINE W == V \ {Pick(V)}
      <4>1. W \in SUBSET U /\ W # U
        BY <3>1, PickIn
      <4>2. g[W] = own[W][W]
        BY <2>4, <4>1
      <4>3. g[V] = f[Pick(V)] + own[W][W]
        BY <3>1
      <4> QED BY <3>1, <4>2, <4>3
    <3> QED BY <3>1
  <2>6. g = [V \in SUBSET U |->
               IF V = {} THEN 0 ELSE f[Pick(V)] + g[V \ {Pick(V)}]]
    <3>1. g = [V \in SUBSET U |-> g[V]]
      OBVIOUS
    <3> HIDE DEF g
    <3> QED BY <2>5, <3>1
  <2> HIDE DEF g
  <2>7. Summed(f, g, U)
    BY <2>6 DEF Summed
  <2> QED BY <2>1, <2>7
<1> QED BY <1>1 DEF bad

(* One function has the sums over all subsets of a finite set.             *)
LEMMA TotalSummed ==
  ASSUME NEW S, IsFiniteSet(S), NEW f
  PROVE  \E g : Summed(f, g, S) /\ \A T \in SUBSET S : Total(f, T) = g[T]
<1> DEFINE g == CHOOSE g : Summed(f, g, S)
<1>1. Summed(f, g, S)
  BY SummedExists
<1> HIDE DEF g
<1>2. ASSUME NEW T \in SUBSET S
      PROVE  Total(f, T) = g[T]
  <2> DEFINE h == CHOOSE h : Summed(f, h, T)
  <2>1. IsFiniteSet(T)
    BY FS_Subset
  <2>2. Summed(f, h, T)
    BY <2>1, SummedExists
  <2>3. Total(f, T) = h[T]
    BY DEF Total
  <2> HIDE DEF h
  <2>4. h[T] = g[T]
    BY <1>1, <2>1, <2>2, SummedOnce
  <2> QED BY <2>3, <2>4
<1> QED BY <1>1, <1>2

(* The sum, one element after the other.                                   *)
LEMMA TotalStep ==
  ASSUME NEW S, IsFiniteSet(S), NEW f
  PROVE  Total(f, S) =
           IF S = {} THEN 0 ELSE f[Pick(S)] + Total(f, S \ {Pick(S)})
<1>1. PICK g : Summed(f, g, S) /\ \A T \in SUBSET S : Total(f, T) = g[T]
  BY TotalSummed
<1>2. g[S] = IF S = {} THEN 0 ELSE f[Pick(S)] + g[S \ {Pick(S)}]
  BY <1>1, SummedAt
<1> QED BY <1>1, <1>2

(* The sum is an integer.                                                  *)
LEMMA TotalType ==
  ASSUME NEW S, IsFiniteSet(S), NEW f, Counts(f, S)
  PROVE  Total(f, S) \in Int
<1> DEFINE bad == {U \in SUBSET S : Total(f, U) \notin Int}
<1>0. bad \subseteq SUBSET S
  OBVIOUS
<1> HIDE DEF bad
<1>1. ASSUME bad # {}
      PROVE  FALSE
  <2>1. PICK U \in bad : \A V \in bad : V \subseteq U => V = U
    <3>1. bad \in SUBSET (SUBSET S)
      BY <1>0
    <3> QED BY <1>1, <3>1, Smallest
  <2>2. U \in SUBSET S /\ IsFiniteSet(U)
    BY <1>0, <2>1, FS_Subset
  <2> USE DEF bad
  <2>3. Total(f, U) = IF U = {} THEN 0 ELSE f[Pick(U)] + Total(f, U \ {Pick(U)})
    BY <2>2, TotalStep
  <2>4. CASE U # {}
    <3>1. Pick(U) \in U
      BY <2>4, PickIn
    <3>2. Total(f, U \ {Pick(U)}) \in Int
      BY <2>1, <2>2, <3>1
    <3>3. f[Pick(U)] \in Int
      BY <2>2, <3>1 DEF Counts
    <3> QED BY <2>1, <2>3, <2>4, <3>2, <3>3
  <2>5. CASE U = {}
    BY <2>1, <2>3, <2>5
  <2> QED BY <2>4, <2>5
<1> QED BY <1>1 DEF bad

(* Any element may be taken out first.                                     *)
LEMMA TotalWithout ==
  ASSUME NEW S, IsFiniteSet(S), NEW f, Counts(f, S), NEW x \in S
  PROVE  Total(f, S) = f[x] + Total(f, S \ {x})
<1> DEFINE bad == {U \in SUBSET S :
                     \E y \in U : Total(f, U) # f[y] + Total(f, U \ {y})}
<1>0. bad \subseteq SUBSET S
  OBVIOUS
<1> HIDE DEF bad
<1>1. ASSUME bad # {}
      PROVE  FALSE
  <2>1. PICK U \in bad : \A V \in bad : V \subseteq U => V = U
    <3>1. bad \in SUBSET (SUBSET S)
      BY <1>0
    <3> QED BY <1>1, <3>1, Smallest
  <2>2. U \in SUBSET S /\ IsFiniteSet(U)
    BY <1>0, <2>1, FS_Subset
  <2> USE DEF bad
  <2>3. PICK y \in U : Total(f, U) # f[y] + Total(f, U \ {y})
    BY <2>1
  <2>4. PICK p : p = Pick(U)
    OBVIOUS
  <2>5. p \in U /\ Total(f, U) = f[p] + Total(f, U \ {p})
    BY <2>2, <2>3, <2>4, PickIn, TotalStep
  <2>6. p # y
    BY <2>3, <2>5
  <2> DEFINE W == U \ {p, y}
  <2>7. Total(f, U \ {p}) = f[y] + Total(f, (U \ {p}) \ {y})
    <3>1. U \ {p} \in SUBSET S /\ U \ {p} # U /\ y \in U \ {p}
      BY <2>2, <2>3, <2>5, <2>6
    <3> QED BY <2>1, <3>1
  <2>8. Total(f, U \ {y}) = f[p] + Total(f, (U \ {y}) \ {p})
    <3>1. U \ {y} \in SUBSET S /\ U \ {y} # U /\ p \in U \ {y}
      BY <2>2, <2>3, <2>5, <2>6
    <3> QED BY <2>1, <3>1
  <2>9. (U \ {p}) \ {y} = W /\ (U \ {y}) \ {p} = W
    OBVIOUS
  <2>10. /\ f[p] \in Int /\ f[y] \in Int /\ Total(f, W) \in Int
    <3>1. W \in SUBSET S /\ IsFiniteSet(W) /\ Counts(f, W)
      BY <2>2, FS_Subset DEF Counts
    <3> QED BY <2>2, <2>3, <2>5, <3>1, TotalType DEF Counts
  <2>11. /\ Total(f, U \ {p}) = f[y] + Total(f, W)
         /\ Total(f, U \ {y}) = f[p] + Total(f, W)
    BY <2>7, <2>8, <2>9
  <2> HIDE DEF W, bad
  <2>12. PICK w : w = Total(f, W)
    OBVIOUS
  <2>13. Total(f, U) = f[y] + Total(f, U \ {y})
    <3>1. Total(f, U) = f[p] + (f[y] + w)
      BY <2>5, <2>11, <2>12
    <3>2. Total(f, U \ {y}) = f[p] + w
      BY <2>11, <2>12
    <3> QED BY <2>10, <2>12, <3>1, <3>2
  <2> QED BY <2>3, <2>13
<1> QED BY <1>1 DEF bad

(* The sum depends on what f is on S.                                      *)
LEMMA TotalSame ==
  ASSUME NEW S, IsFiniteSet(S), NEW f, NEW h, \A x \in S : f[x] = h[x]
  PROVE  Total(f, S) = Total(h, S)
<1> DEFINE bad == {U \in SUBSET S : Total(f, U) # Total(h, U)}
<1>0. bad \subseteq SUBSET S
  OBVIOUS
<1> HIDE DEF bad
<1>1. ASSUME bad # {}
      PROVE  FALSE
  <2>1. PICK U \in bad : \A V \in bad : V \subseteq U => V = U
    <3>1. bad \in SUBSET (SUBSET S)
      BY <1>0
    <3> QED BY <1>1, <3>1, Smallest
  <2>2. U \in SUBSET S /\ IsFiniteSet(U)
    BY <1>0, <2>1, FS_Subset
  <2> USE DEF bad
  <2>3. Total(f, U) = IF U = {} THEN 0 ELSE f[Pick(U)] + Total(f, U \ {Pick(U)})
    BY <2>2, TotalStep
  <2>4. Total(h, U) = IF U = {} THEN 0 ELSE h[Pick(U)] + Total(h, U \ {Pick(U)})
    BY <2>2, TotalStep
  <2>5. CASE U # {}
    <3>1. Pick(U) \in U
      BY <2>5, PickIn
    <3>2. Total(f, U \ {Pick(U)}) = Total(h, U \ {Pick(U)})
      BY <2>1, <2>2, <3>1
    <3>3. f[Pick(U)] = h[Pick(U)]
      BY <2>2, <3>1
    <3> QED BY <2>1, <2>3, <2>4, <2>5, <3>2, <3>3
  <2>6. CASE U = {}
    BY <2>1, <2>3, <2>4, <2>6
  <2> QED BY <2>5, <2>6
<1> QED BY <1>1 DEF bad

(* The sum grows by one when one of the terms does, or is new and is 1.    *)
LEMMA TotalRaised ==
  ASSUME NEW S, IsFiniteSet(S), NEW f, Counts(f, S), NEW x, NEW g,
         \A y \in S \ {x} : g[y] = f[y],
         g[x] = IF x \in S THEN f[x] + 1 ELSE 1
  PROVE  Total(g, S \cup {x}) = Total(f, S) + 1
<1>1. IsFiniteSet(S \cup {x}) /\ IsFiniteSet(S \ {x})
  BY FS_AddElement, FS_RemoveElement
<1>2. Counts(g, S \cup {x}) /\ Counts(f, S \ {x})
  BY DEF Counts
<1>3. (S \cup {x}) \ {x} = S \ {x}
  OBVIOUS
<1>4. Total(g, S \cup {x}) = g[x] + Total(g, S \ {x})
  BY <1>1, <1>2, <1>3, TotalWithout
<1>5. Total(g, S \ {x}) = Total(f, S \ {x})
  BY <1>1, TotalSame
<1>6. Total(f, S \ {x}) \in Int
  BY <1>1, <1>2, TotalType
<1>7. CASE x \in S
  <2>1. Total(f, S) = f[x] + Total(f, S \ {x}) /\ f[x] \in Int
    BY <1>7, TotalWithout DEF Counts
  <2> QED BY <1>4, <1>5, <1>6, <1>7, <2>1
<1>8. CASE x \notin S
  <2>1. S \ {x} = S
    BY <1>8
  <2> QED BY <1>4, <1>5, <1>6, <1>8, <2>1
<1> QED BY <1>7, <1>8

(* A sum of numbers is one.                                                *)
LEMMA TotalNat ==
  ASSUME NEW S, IsFiniteSet(S), NEW f, \A x \in S : f[x] \in Nat
  PROVE  Total(f, S) \in Nat
<1> DEFINE bad == {U \in SUBSET S : Total(f, U) \notin Nat}
<1>0. bad \subseteq SUBSET S
  OBVIOUS
<1> HIDE DEF bad
<1>1. ASSUME bad # {}
      PROVE  FALSE
  <2>1. PICK U \in bad : \A V \in bad : V \subseteq U => V = U
    <3>1. bad \in SUBSET (SUBSET S)
      BY <1>0
    <3> QED BY <1>1, <3>1, Smallest
  <2>2. U \in SUBSET S /\ IsFiniteSet(U)
    BY <1>0, <2>1, FS_Subset
  <2> USE DEF bad
  <2>3. Total(f, U) = IF U = {} THEN 0 ELSE f[Pick(U)] + Total(f, U \ {Pick(U)})
    BY <2>2, TotalStep
  <2>4. CASE U # {}
    <3>1. Pick(U) \in U
      BY <2>4, PickIn
    <3>2. Total(f, U \ {Pick(U)}) \in Nat /\ f[Pick(U)] \in Nat
      BY <2>1, <2>2, <3>1
    <3> QED BY <2>1, <2>3, <2>4, <3>2
  <2>5. CASE U = {}
    BY <2>1, <2>3, <2>5
  <2> QED BY <2>4, <2>5
<1> QED BY <1>1 DEF bad

(* A sum of zeros is zero.                                                 *)
LEMMA TotalNone ==
  ASSUME NEW S, IsFiniteSet(S), NEW f, \A x \in S : f[x] = 0
  PROVE  Total(f, S) = 0
<1> DEFINE bad == {U \in SUBSET S : Total(f, U) # 0}
<1>0. bad \subseteq SUBSET S
  OBVIOUS
<1> HIDE DEF bad
<1>1. ASSUME bad # {}
      PROVE  FALSE
  <2>1. PICK U \in bad : \A V \in bad : V \subseteq U => V = U
    <3>1. bad \in SUBSET (SUBSET S)
      BY <1>0
    <3> QED BY <1>1, <3>1, Smallest
  <2>2. U \in SUBSET S /\ IsFiniteSet(U)
    BY <1>0, <2>1, FS_Subset
  <2> USE DEF bad
  <2>3. Total(f, U) = IF U = {} THEN 0 ELSE f[Pick(U)] + Total(f, U \ {Pick(U)})
    BY <2>2, TotalStep
  <2>4. CASE U # {}
    <3>1. Pick(U) \in U
      BY <2>4, PickIn
    <3>2. Total(f, U \ {Pick(U)}) = 0 /\ f[Pick(U)] = 0
      BY <2>1, <2>2, <3>1
    <3> QED BY <2>1, <2>3, <2>4, <3>2
  <2>5. CASE U = {}
    BY <2>1, <2>3, <2>5
  <2> QED BY <2>4, <2>5
<1> QED BY <1>1 DEF bad

(* When no term is greater, neither is the sum.                            *)
LEMMA TotalFalls ==
  ASSUME NEW S, IsFiniteSet(S), NEW f, NEW g, Counts(f, S), Counts(g, S),
         \A x \in S : g[x] <= f[x]
  PROVE  Total(g, S) <= Total(f, S)
<1> DEFINE bad == {U \in SUBSET S : ~(Total(g, U) <= Total(f, U))}
<1>0. bad \subseteq SUBSET S
  OBVIOUS
<1> HIDE DEF bad
<1>1. ASSUME bad # {}
      PROVE  FALSE
  <2>1. PICK U \in bad : \A V \in bad : V \subseteq U => V = U
    <3>1. bad \in SUBSET (SUBSET S)
      BY <1>0
    <3> QED BY <1>1, <3>1, Smallest
  <2>2. U \in SUBSET S /\ IsFiniteSet(U)
    BY <1>0, <2>1, FS_Subset
  <2> USE DEF bad
  <2>3. ~(Total(g, U) <= Total(f, U))
    BY <2>1
  <2>4. CASE U = {}
    BY <2>2, <2>3, <2>4, TotalStep
  <2>5. CASE U # {}
    <3>1. PICK x \in U : TRUE
      BY <2>5
    <3>2. U \ {x} \in SUBSET S /\ U \ {x} \notin bad /\ IsFiniteSet(U \ {x})
      BY <2>1, <2>2, <3>1, FS_RemoveElement
    <3>3. Total(g, U \ {x}) <= Total(f, U \ {x})
      BY <3>2
    <3> HIDE DEF bad
    <3>4. Counts(f, U) /\ Counts(g, U) /\ Counts(f, U \ {x}) /\ Counts(g, U \ {x})
      BY <2>2 DEF Counts
    <3>5. PICK p \in Int, q \in Int :
            p = Total(f, U \ {x}) /\ q = Total(g, U \ {x})
      BY <3>2, <3>4, TotalType
    <3>6. /\ Total(f, U) = f[x] + p
          /\ Total(g, U) = g[x] + q
          /\ f[x] \in Int /\ g[x] \in Int /\ g[x] <= f[x]
      BY <2>2, <3>1, <3>4, <3>5, TotalWithout DEF Counts
    <3> QED BY <2>3, <3>3, <3>5, <3>6
  <2> QED BY <2>4, <2>5
<1> QED BY <1>1 DEF bad

(* When one term falls by d and no other is greater, the sum falls by d.   *)
LEMMA TotalDrops ==
  ASSUME NEW S, IsFiniteSet(S), NEW f, NEW g, Counts(f, S), Counts(g, S),
         NEW x \in S, NEW d \in Int, g[x] + d <= f[x],
         \A y \in S \ {x} : g[y] <= f[y]
  PROVE  Total(g, S) + d <= Total(f, S)
<1>1. /\ IsFiniteSet(S \ {x}) /\ Counts(f, S \ {x}) /\ Counts(g, S \ {x})
  BY FS_RemoveElement DEF Counts
<1>2. PICK p \in Int, q \in Int :
        p = Total(f, S \ {x}) /\ q = Total(g, S \ {x})
  BY <1>1, TotalType
<1>3. q <= p
  BY <1>1, <1>2, TotalFalls
<1>4. /\ Total(f, S) = f[x] + p /\ Total(g, S) = g[x] + q
      /\ f[x] \in Int /\ g[x] \in Int
  BY <1>2, TotalWithout DEF Counts
<1> QED BY <1>3, <1>4

(* The sum over two parts.                                                 *)
LEMMA TotalParted ==
  ASSUME NEW S, IsFiniteSet(S), NEW f, Counts(f, S), NEW A \in SUBSET S
  PROVE  Total(f, S) = Total(f, A) + Total(f, S \ A)
<1> DEFINE bad == {U \in SUBSET A : Total(f, S) # Total(f, U) + Total(f, S \ U)}
<1>0. bad \subseteq SUBSET A
  OBVIOUS
<1> HIDE DEF bad
<1>1. IsFiniteSet(A)
  BY FS_Subset
<1>2. ASSUME bad # {}
      PROVE  FALSE
  <2>1. PICK U \in bad : \A V \in bad : V \subseteq U => V = U
    <3>1. bad \in SUBSET (SUBSET A)
      BY <1>0
    <3> QED BY <1>1, <1>2, <3>1, Smallest
  <2>2. U \in SUBSET A /\ IsFiniteSet(U) /\ IsFiniteSet(S \ U)
    BY <1>0, <1>1, <2>1, FS_Subset
  <2> USE DEF bad
  <2>3. Total(f, S) # Total(f, U) + Total(f, S \ U)
    BY <2>1
  <2>4. CASE U = {}
    <3>1. Total(f, {}) = 0 /\ S \ U = S
      BY <2>4, FS_EmptySet, TotalStep
    <3>2. Total(f, S) \in Int
      BY TotalType
    <3> QED BY <2>3, <2>4, <3>1, <3>2
  <2>5. CASE U # {}
    <3>1. PICK x \in U : TRUE
      BY <2>5
    <3> DEFINE V == U \ {x}
    <3>2. V \in SUBSET A /\ V \notin bad /\ IsFiniteSet(V) /\ IsFiniteSet(S \ V)
      BY <2>1, <2>2, <3>1, FS_Subset
    <3>3. Total(f, S) = Total(f, V) + Total(f, S \ V)
      BY <3>2
    <3>4. x \in S \ V /\ (S \ V) \ {x} = S \ U
      BY <2>2, <3>1
    <3> HIDE DEF bad, V
    <3>5. Counts(f, U) /\ Counts(f, V) /\ Counts(f, S \ V) /\ Counts(f, S \ U)
      BY <2>2, <3>2 DEF Counts
    <3>6. PICK v \in Int, w \in Int : v = Total(f, V) /\ w = Total(f, S \ U)
      BY <2>2, <3>2, <3>5, TotalType
    <3>7. Total(f, S \ V) = f[x] + w
      BY <3>2, <3>4, <3>5, <3>6, TotalWithout
    <3>8. Total(f, U) = f[x] + v
      BY <2>2, <3>1, <3>5, <3>6, TotalWithout DEF V
    <3>9. f[x] \in Int
      BY <3>1, <3>5 DEF Counts
    <3> QED BY <2>3, <3>3, <3>6, <3>7, <3>8, <3>9
  <2> QED BY <2>4, <2>5
<1> QED BY <1>2 DEF bad

(* A part of y, rounded down, is no more than the part.                    *)
LEMMA Rounded ==
  ASSUME NEW y \in Nat, NEW n \in Nat, n > 0
  PROVE  y \div n \in Nat /\ (y \div n) * n <= y
OBVIOUS

(* The two laws of distribution that the sum needs.                        *)
LEMMA Spread ==
  ASSUME NEW a \in Nat, NEW x \in Nat, NEW y \in Nat
  PROVE  a * (x + y) = a * x + a * y /\ a * x \in Nat
OBVIOUS

LEMMA Gathered ==
  ASSUME NEW n \in Nat, NEW x \in Nat, NEW y \in Nat
  PROVE  (x + y) * n = x * n + y * n /\ x * n \in Nat
OBVIOUS

(* f gives what h, in n-ths, is of the amount a, rounded down.             *)
Parts(f, h, a, n, R) ==
  \A x \in R : h[x] \in Nat /\ f[x] = (a * h[x]) \div n

(* Parts of an amount a, each rounded down to f of n-ths of it, are        *)
(* together no more than the n-ths they are parts of.                      *)
LEMMA PartsFit ==
  ASSUME NEW R, IsFiniteSet(R), NEW a \in Nat, NEW n \in Nat, n > 0,
         NEW f, NEW h, Parts(f, h, a, n, R), NEW S \in SUBSET R
  PROVE  /\ Total(f, S) \in Nat /\ Total(h, R) \in Nat
         /\ Total(f, S) * n <= a * Total(h, R)
         /\ \A x \in S : f[x] \in Nat
<1>1. \A x \in R : f[x] \in Nat /\ h[x] \in Nat /\ f[x] * n <= a * h[x]
  <2> TAKE x \in R
  <2>1. PICK y \in Nat : y = a * h[x]
    BY Spread DEF Parts
  <2> QED BY <2>1, Rounded DEF Parts
<1>2. ASSUME NEW T \in SUBSET R
      PROVE  IsFiniteSet(T) /\ Total(f, T) \in Nat /\ Total(h, T) \in Nat
  <2>1. IsFiniteSet(T)
    BY FS_Subset
  <2>2. /\ \A x \in T : f[x] \in Nat
        /\ \A x \in T : h[x] \in Nat
    BY <1>1
  <2> QED BY <2>1, <2>2, TotalNat
<1> DEFINE bad == {T \in SUBSET R : \E U \in SUBSET T :
                     ~(Total(f, U) * n <= a * Total(h, T))}
<1>3. bad \subseteq SUBSET R
  OBVIOUS
<1> HIDE DEF bad
<1>4. ASSUME bad # {}
      PROVE  FALSE
  <2>1. PICK T \in bad : \A V \in bad : V \subseteq T => V = T
    <3>1. bad \in SUBSET (SUBSET R)
      BY <1>3
    <3> QED BY <1>4, <3>1, Smallest
  <2>2. T \in SUBSET R
    BY <1>3, <2>1
  <2> USE DEF bad
  <2>3. PICK U \in SUBSET T : ~(Total(f, U) * n <= a * Total(h, T))
    BY <2>1
  <2> HIDE DEF bad
  <2>4. CASE T = {}
    <3>1. U = {} /\ Total(f, {}) = 0 /\ Total(h, {}) = 0
      BY <2>4, TotalStep, FS_EmptySet
    <3> QED BY <2>3, <2>4, <3>1
  <2>5. CASE T # {}
    <3>1. PICK x \in T : TRUE
      BY <2>5
    <3>2. T \ {x} \in SUBSET R /\ T \ {x} \notin bad
      BY <2>1, <2>2, <3>1
    <3>3. PICK r \in Nat : r = Total(h, T \ {x})
      BY <1>2, <3>2
    <3>4. Total(h, T) = h[x] + r /\ h[x] \in Nat
      <4>1. Counts(h, T) /\ IsFiniteSet(T) /\ h[x] \in Nat
        BY <1>1, <1>2, <2>2 DEF Counts
      <4> QED BY <3>1, <3>3, <4>1, TotalWithout
    <3>5. \A V \in SUBSET (T \ {x}) : Total(f, V) * n <= a * r
      BY <3>2, <3>3 DEF bad
    <3>6. /\ a * (h[x] + r) = a * h[x] + a * r
          /\ a * h[x] \in Nat /\ a * r \in Nat
      BY <3>3, <3>4, Spread
    <3>7. CASE x \notin U
      <4>1. Total(f, U) * n <= a * r
        BY <3>5, <3>7
      <4>2. U \in SUBSET R
        BY <2>2, <2>3
      <4>3. Total(f, U) \in Nat /\ Total(f, U) * n \in Nat
        BY <1>2, <4>2, Gathered
      <4> QED BY <2>3, <3>4, <3>6, <4>1, <4>3
    <3>8. CASE x \in U
      <4>1. PICK s \in Nat : s = Total(f, U \ {x})
        <5>1. U \ {x} \in SUBSET R
          BY <2>2
        <5> QED BY <1>2, <5>1
      <4>2. Total(f, U) = f[x] + s /\ f[x] \in Nat
        <5>1. U \in SUBSET R
          BY <2>2, <2>3
        <5>2. Counts(f, U) /\ IsFiniteSet(U) /\ f[x] \in Nat
          BY <1>1, <1>2, <2>2, <5>1 DEF Counts
        <5> QED BY <3>8, <4>1, <5>2, TotalWithout
      <4>3. s * n <= a * r
        BY <3>5, <4>1
      <4>4. (f[x] + s) * n = f[x] * n + s * n
            /\ f[x] * n \in Nat /\ s * n \in Nat
        BY <4>1, <4>2, Gathered
      <4>5. f[x] * n <= a * h[x]
        BY <1>1, <2>2
      <4> QED BY <2>3, <3>4, <3>6, <4>2, <4>3, <4>4, <4>5
    <3> QED BY <3>7, <3>8
  <2> QED BY <2>4, <2>5
<1>5. Total(f, S) * n <= a * Total(h, R)
  <2>1. R \notin bad
    BY <1>4
  <2> QED BY <2>1 DEF bad
<1>6. Total(f, S) \in Nat /\ Total(h, R) \in Nat
  BY <1>2
<1>7. \A x \in S : f[x] \in Nat
  BY <1>1
<1> QED BY <1>5, <1>6, <1>7

============================================================================
