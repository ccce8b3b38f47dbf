------------------------------- MODULE SetSums -------------------------------
(***************************************************************************)
(* Sums over finite sets: what MapThenSumSet computes, for any set and any *)
(* weights.  The ledgers of Accounts and OrderProcessing are such sums.    *)
(*                                                                         *)
(* MapThenSumSet is a recursive function on the subsets of its argument    *)
(* that takes some element first.  Each fact is shown for a set that would *)
(* be a smallest exception, as inclusion is well-founded on the subsets of *)
(* a finite set.                                                           *)
(***************************************************************************)
EXTENDS FiniteSetsExt, FiniteSetTheorems, TLAPS

Total(w, S) == MapThenSumSet(LAMBDA x : w[x], S)

Pick(s) == CHOOSE x \in s : TRUE

\* g is the function on the subsets of S by which Total is defined.
Sums(g, w, S) ==
  g = [s \in SUBSET S |-> IF s = {} THEN 0 ELSE w[Pick(s)] + g[s \ {Pick(s)}]]

\* A set of subsets of a finite set has a smallest member.
LEMMA Smallest ==
  ASSUME NEW U, IsFiniteSet(U), NEW T, T \subseteq SUBSET U, T # {}
  PROVE  \E V \in T : \A W \in T : W \subseteq V => W = V
<1>1. IsWellFoundedOn(StrictSubsetOrdering(U), SUBSET U)
  BY FS_StrictSubsetOrderingWellFounded, FS_FiniteSubsetsOfFinite
<1>2. PICK V \in T : \A W \in T : <<W, V>> \notin StrictSubsetOrdering(U)
  <2> HIDE DEF StrictSubsetOrdering
  <2> QED BY <1>1, WFMin
<1>3. ASSUME NEW W \in T, W \subseteq V, W # V PROVE FALSE
  <2>1. <<W, V>> \in (SUBSET U) \X (SUBSET U)
    BY <1>2
  <2>2. <<W, V>> \in StrictSubsetOrdering(U)
    BY <1>3, <2>1 DEF StrictSubsetOrdering
  <2> QED BY <1>2, <2>2
<1> QED BY <1>2, <1>3

LEMMA PickIn ==
  ASSUME NEW s, s # {}
  PROVE  Pick(s) \in s /\ s \ {Pick(s)} \subseteq s /\ s \ {Pick(s)} # s
<1>1. \E x : x \in s
  OBVIOUS
<1>2. Pick(s) \in s
  BY <1>1 DEF Pick
<1> QED BY <1>2

\* Two such functions agree where both are defined, if the weights do.
LEMMA SumsAgree ==
  ASSUME NEW V, IsFiniteSet(V), NEW W, NEW g, NEW h, NEW w, NEW v, NEW s,
         Sums(g, w, V), Sums(h, v, W), s \subseteq V, s \subseteq W,
         \A x \in s : w[x] = v[x]
  PROVE  g[s] = h[s]
<1> DEFINE T == {t \in SUBSET s : g[t] # h[t]}
<1> SUFFICES ASSUME T # {} PROVE FALSE
  OBVIOUS
<1>1. PICK t \in T : \A t1 \in T : t1 \subseteq t => t1 = t
  <2>1. IsFiniteSet(s) /\ T \subseteq SUBSET s
    BY FS_Subset
  <2> HIDE DEF T
  <2> QED BY <2>1, Smallest
<1>2. t \subseteq s /\ t \in SUBSET V /\ t \in SUBSET W
  BY <1>1
<1>3. /\ g[t] = IF t = {} THEN 0 ELSE w[Pick(t)] + g[t \ {Pick(t)}]
      /\ h[t] = IF t = {} THEN 0 ELSE v[Pick(t)] + h[t \ {Pick(t)}]
  BY <1>2 DEF Sums
<1>4. CASE t = {}
  BY <1>1, <1>3, <1>4
<1>5. CASE t # {}
  <2>1. Pick(t) \in t /\ t \ {Pick(t)} \subseteq t /\ t \ {Pick(t)} # t
    BY <1>5, PickIn
  <2>2. t \ {Pick(t)} \notin T
    BY <1>1, <2>1
  <2>3. g[t \ {Pick(t)}] = h[t \ {Pick(t)}] /\ w[Pick(t)] = v[Pick(t)]
    BY <1>2, <2>1, <2>2
  <2> QED BY <1>1, <1>3, <1>5, <2>3
<1> QED BY <1>4, <1>5

\* There is such a function.
LEMMA SumsExist ==
  ASSUME NEW U, IsFiniteSet(U), NEW w
  PROVE  \E g : Sums(g, w, U)
<1> DEFINE T == {V \in SUBSET U : ~ \E g : Sums(g, w, V)}
<1> SUFFICES ASSUME T # {} PROVE FALSE
  OBVIOUS
<1>1. PICK V \in T : \A W \in T : W \subseteq V => W = V
  <2>1. T \subseteq SUBSET U
    OBVIOUS
  <2> HIDE DEF T
  <2> QED BY <2>1, Smallest
<1>2. ASSUME NEW W, W \subseteq V, W # V PROVE \E g : Sums(g, w, W)
  BY <1>1, <1>2
<1> DEFINE f(W) == CHOOSE g : Sums(g, w, W)
           rest(s) == s \ {Pick(s)}
           step(s) == IF s = {} THEN 0 ELSE w[Pick(s)] + f(rest(s))[rest(s)]
           g == [s \in SUBSET V |-> step(s)]
<1>3. ASSUME NEW W, W \subseteq V, W # V PROVE Sums(f(W), w, W)
  BY <1>2, <1>3
<1>4. ASSUME NEW s \in SUBSET V, s # V PROVE g[s] = f(s)[s]
  <2>1. Sums(f(s), w, s)
    BY <1>3, <1>4
  <2> HIDE DEF f
  <2>2. f(s)[s] = IF s = {} THEN 0 ELSE w[Pick(s)] + f(s)[rest(s)]
    BY <2>1 DEF Sums
  <2>3. CASE s = {}
    BY <2>2, <2>3
  <2>4. CASE s # {}
    <3>1. rest(s) \subseteq s /\ rest(s) # V /\ rest(s) \subseteq V
      BY <2>4, PickIn
    <3>2. Sums(f(rest(s)), w, rest(s))
      BY <1>3, <3>1
    <3>3. IsFiniteSet(s)
      BY FS_Subset
    <3>4. f(s)[rest(s)] = f(rest(s))[rest(s)]
      BY <2>1, <3>1, <3>2, <3>3, SumsAgree
    <3> QED BY <2>2, <2>4, <3>4
  <2> QED BY <2>3, <2>4
<1>5. ASSUME NEW s \in SUBSET V, s # {}
      PROVE  step(s) = w[Pick(s)] + g[rest(s)]
  <2>1. rest(s) \in SUBSET V /\ rest(s) # V
    BY <1>5, PickIn
  <2>2. g[rest(s)] = f(rest(s))[rest(s)]
    BY <1>4, <2>1
  <2> QED BY <1>5, <2>2
<1>6. Sums(g, w, V)
  <2> HIDE DEF f
  <2>1. \A s \in SUBSET V :
          step(s) = IF s = {} THEN 0 ELSE w[Pick(s)] + g[s \ {Pick(s)}]
    BY <1>5
  <2> HIDE DEF step
  <2>2. g = [s \in SUBSET V |-> IF s = {} THEN 0 ELSE w[Pick(s)] + g[s \ {Pick(s)}]]
    BY <2>1
  <2> HIDE DEF g
  <2> QED BY <2>2 DEF Sums
<1> QED BY <1>1, <1>6
-----------------------------------------------------------------------------
(* What a sum is.                                                          *)

LEMMA TotalSums ==
  ASSUME NEW U, IsFiniteSet(U), NEW w
  PROVE  \E g : Sums(g, w, U) /\ Total(w, U) = g[U]
<1>1. Total(w, U) = (CHOOSE g : Sums(g, w, U))[U]
  BY DEF Total, MapThenSumSet, MapThenFoldSet, Sums, Pick
<1>2. Sums(CHOOSE g : Sums(g, w, U), w, U)
  BY SumsExist
<1> QED BY <1>1, <1>2

LEMMA TotalPick ==
  ASSUME NEW U, IsFiniteSet(U), NEW w
  PROVE  Total(w, U) = IF U = {} THEN 0
                       ELSE w[Pick(U)] + Total(w, U \ {Pick(U)})
<1>1. PICK g : Sums(g, w, U) /\ Total(w, U) = g[U]
  BY TotalSums
<1>2. g[U] = IF U = {} THEN 0 ELSE w[Pick(U)] + g[U \ {Pick(U)}]
  BY <1>1 DEF Sums
<1>3. IsFiniteSet(U \ {Pick(U)})
  BY FS_Subset
<1>4. PICK h : Sums(h, w, U \ {Pick(U)}) /\ Total(w, U \ {Pick(U)}) = h[U \ {Pick(U)}]
  BY <1>3, TotalSums
<1>5. g[U \ {Pick(U)}] = h[U \ {Pick(U)}]
  BY <1>1, <1>4, SumsAgree
<1> QED BY <1>1, <1>2, <1>4, <1>5

\* The weights outside the set do not matter.
LEMMA TotalSame ==
  ASSUME NEW U, IsFiniteSet(U), NEW w, NEW v, \A x \in U : w[x] = v[x]
  PROVE  Total(w, U) = Total(v, U)
<1>1. PICK g : Sums(g, w, U) /\ Total(w, U) = g[U]
  BY TotalSums
<1>2. PICK h : Sums(h, v, U) /\ Total(v, U) = h[U]
  BY TotalSums
<1> QED BY <1>1, <1>2, SumsAgree

\* A sum of natural numbers is one.
LEMMA TotalNat ==
  ASSUME NEW U, IsFiniteSet(U), NEW w, \A x \in U : w[x] \in Nat
  PROVE  Total(w, U) \in Nat
<1> DEFINE T == {V \in SUBSET U : Total(w, V) \notin Nat}
<1> SUFFICES ASSUME T # {} PROVE FALSE
  OBVIOUS
<1>1. PICK V \in T : \A W \in T : W \subseteq V => W = V
  <2>1. T \subseteq SUBSET U
    OBVIOUS
  <2> HIDE DEF T
  <2> QED BY <2>1, Smallest
<1>2. IsFiniteSet(V) /\ V \subseteq U
  BY FS_Subset
<1>3. Total(w, V) = IF V = {} THEN 0 ELSE w[Pick(V)] + Total(w, V \ {Pick(V)})
  BY <1>2, TotalPick
<1>4. V # {}
  BY <1>1, <1>3
<1>5. Pick(V) \in V /\ V \ {Pick(V)} \notin T
  BY <1>1, <1>4, PickIn
<1>6. Total(w, V \ {Pick(V)}) \in Nat /\ w[Pick(V)] \in Nat
  BY <1>2, <1>5
<1> QED BY <1>1, <1>3, <1>4, <1>6

\* Any element may be taken first.
LEMMA TotalWithout ==
  ASSUME NEW U, IsFiniteSet(U), NEW w, \A x \in U : w[x] \in Nat, NEW c \in U
  PROVE  Total(w, U) = w[c] + Total(w, U \ {c})
<1> DEFINE T == {V \in SUBSET U : \E d \in V : Total(w, V) # w[d] + Total(w, V \ {d})}
<1> SUFFICES ASSUME T # {} PROVE FALSE
  OBVIOUS
<1>1. PICK V \in T : \A W \in T : W \subseteq V => W = V
  <2>1. T \subseteq SUBSET U
    OBVIOUS
  <2> HIDE DEF T
  <2> QED BY <2>1, Smallest
<1>2. PICK d \in V : Total(w, V) # w[d] + Total(w, V \ {d})
  BY <1>1
<1> DEFINE p == Pick(V)
           Vp == V \ {p}
           Vd == V \ {d}
           Vpd == V \ {p, d}
<1>3. V \subseteq U /\ IsFiniteSet(V) /\ IsFiniteSet(Vpd)
  BY FS_Subset
<1>4. p \in V /\ Total(w, V) = w[p] + Total(w, Vp)
  BY <1>2, <1>3, TotalPick, PickIn
<1>5. p # d
  BY <1>2, <1>4
<1>6. Vp \notin T /\ Vd \notin T
  BY <1>1, <1>2, <1>4
<1>7. Total(w, Vp) = w[d] + Total(w, Vpd)
  <2>1. d \in Vp /\ Vp \in SUBSET U /\ Vp \ {d} = Vpd
    BY <1>2, <1>3, <1>5
  <2>2. \A e \in Vp : Total(w, Vp) = w[e] + Total(w, Vp \ {e})
    BY <1>6, <2>1
  <2> HIDE DEF Vp, Vpd
  <2> QED BY <2>1, <2>2
<1>8. Total(w, Vd) = w[p] + Total(w, Vpd)
  <2>1. p \in Vd /\ Vd \in SUBSET U /\ Vd \ {p} = Vpd
    BY <1>3, <1>4, <1>5
  <2>2. \A e \in Vd : Total(w, Vd) = w[e] + Total(w, Vd \ {e})
    BY <1>6, <2>1
  <2> HIDE DEF Vd, Vpd
  <2> QED BY <2>1, <2>2
<1>9. w[p] \in Nat /\ w[d] \in Nat /\ Total(w, Vpd) \in Nat
  <2>1. \A x \in Vpd : w[x] \in Nat
    BY <1>3
  <2> HIDE DEF Vpd
  <2> QED BY <1>2, <1>3, <1>4, <2>1, TotalNat
<1> QED BY <1>2, <1>4, <1>7, <1>8, <1>9

\* One element more.
LEMMA TotalWith ==
  ASSUME NEW U, IsFiniteSet(U), NEW w, NEW c, c \notin U,
         \A x \in U \cup {c} : w[x] \in Nat
  PROVE  Total(w, U \cup {c}) = Total(w, U) + w[c]
<1>1. IsFiniteSet(U \cup {c}) /\ (U \cup {c}) \ {c} = U
  BY FS_AddElement
<1>2. Total(w, U \cup {c}) = w[c] + Total(w, U)
  BY <1>1, TotalWithout
<1>3. Total(w, U) \in Nat /\ w[c] \in Nat
  BY TotalNat
<1> QED BY <1>2, <1>3

\* One weight changes.
LEMMA TotalChange ==
  ASSUME NEW U, IsFiniteSet(U), NEW w, NEW v, NEW c \in U,
         \A x \in U : w[x] \in Nat /\ v[x] \in Nat,
         \A x \in U \ {c} : w[x] = v[x]
  PROVE  /\ Total(w, U) \in Nat /\ Total(v, U) \in Nat
         /\ Total(v, U) = (Total(w, U) - w[c]) + v[c]
<1>1. IsFiniteSet(U \ {c})
  BY FS_RemoveElement
<1>2. Total(w, U) = w[c] + Total(w, U \ {c}) /\ Total(v, U) = v[c] + Total(v, U \ {c})
  BY TotalWithout
<1>3. Total(w, U \ {c}) = Total(v, U \ {c})
  BY <1>1, TotalSame
<1>4. Total(w, U \ {c}) \in Nat
  BY <1>1, TotalNat
<1> QED BY <1>2, <1>3, <1>4
=============================================================================
