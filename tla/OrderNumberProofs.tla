-------------------------- MODULE OrderNumberProofs --------------------------
(***************************************************************************)
(* Proofs about OrderNumber for numbers of every length: the loop of       *)
(* OrderNumValidation decides as Luhn's algorithm does, and finds the      *)
(* mistakes the check digit is for.                                        *)
(*                                                                         *)
(* The loop is a fold, a recursive function on the sets of places.  Its    *)
(* value has a closed form on every such set, not only on the suffixes     *)
(* the loop goes through: a digit is doubled where an odd number of the    *)
(* places of the set follows its own.  So no induction is needed but the   *)
(* one that two functions with that recursion are the same.                *)
(***************************************************************************)
EXTENDS OrderNumber, SetSums, SequenceTheorems, WellFoundedInduction

Start == [sum |-> 0, double |-> FALSE]

\* g is the function on the sets of places by which FoldRight is defined.
Loop(g, number, S) ==
  g = [s \in SUBSET S |-> IF s = {} THEN Start
                          ELSE Step(number[Min(s)], g[s \ {Min(s)}])]

\* The places of s that the loop has passed when it comes to i, what it then
\* adds, and its value at the end.
After(i, s)    == {j \in s : j > i}
Odd(s)         == Cardinality(s) % 2 = 1
Addend(d, odd) == IF odd THEN Doubled(d) ELSE d
Addends(number, s) == [i \in s |-> Addend(number[i], Odd(After(i, s)))]
Closed(number, s)  == [sum |-> Total(Addends(number, s), s), double |-> Odd(s)]

LEMMA AddendDigit ==
  ASSUME NEW d \in Digits, NEW odd \in BOOLEAN
  PROVE  Addend(d, odd) \in Digits
BY DEF Addend, Doubled, Digits

LEMMA PlacesFinite ==
  ASSUME NEW n \in Nat, NEW s \in SUBSET (1..n)
  PROVE  IsFiniteSet(s) /\ Cardinality(s) \in Nat /\ Odd(s) \in BOOLEAN
<1>1. IsFiniteSet(1..n)
  BY FS_Interval
<1>2. IsFiniteSet(s)
  BY <1>1, FS_Subset
<1> QED BY <1>2, FS_CardinalityType DEF Odd

\* A set of places has a first one.
LEMMA FirstPlace ==
  ASSUME NEW n \in Nat, NEW s \in SUBSET (1..n), s # {}
  PROVE  /\ Min(s) \in s
         /\ After(Min(s), s) = s \ {Min(s)}
<1>1. PICK x \in s : \A y \in s : <<y, x>> \notin OpToRel(<, Nat)
  <2>1. s \subseteq Nat
    OBVIOUS
  <2>2. IsWellFoundedOn(OpToRel(<, Nat), Nat)
    BY NatLessThanWellFounded
  <2> HIDE DEF OpToRel
  <2> QED BY <2>1, <2>2, WFMin
<1>2. \A y \in s : x =< y
  <2>1. ASSUME NEW y \in s, y < x PROVE FALSE
    <3>1. <<y, x>> \in Nat \X Nat
      OBVIOUS
    <3>2. <<y, x>> \in OpToRel(<, Nat)
      BY <2>1, <3>1 DEF OpToRel
    <3> QED BY <1>1, <3>2
  <2> QED BY <2>1
<1>3. Min(s) \in s /\ \A y \in s : Min(s) =< y
  BY <1>2 DEF Min
<1>4. \A y \in s : y \in Int
  OBVIOUS
<1>5. ASSUME NEW m \in Int, NEW y \in Int, m =< y PROVE y > m <=> y # m
  BY <1>5
<1>6. \A y \in s : y > Min(s) <=> y # Min(s)
  BY <1>3, <1>4, <1>5, Zenon
<1> QED BY <1>3, <1>6 DEF After

\* The closed form obeys the recursion.
LEMMA ClosedStep ==
  ASSUME NEW n \in Nat, NEW number \in [1..n -> Digits], NEW s \in SUBSET (1..n), s # {}
  PROVE  Closed(number, s) = Step(number[Min(s)], Closed(number, s \ {Min(s)}))
<1> DEFINE m == Min(s)
           r == s \ {m}
           w == Addends(number, s)
           v == Addends(number, r)
<1>1. m \in s /\ After(m, s) = r /\ r \in SUBSET (1..n)
  BY FirstPlace
<1>2. IsFiniteSet(s) /\ IsFiniteSet(r) /\ Cardinality(s) \in Nat /\ Cardinality(r) = Cardinality(s) - 1
  BY <1>1, PlacesFinite, FS_RemoveElement
<1>3. \A i \in r : w[i] = v[i]
  <2>1. ASSUME NEW i \in r PROVE After(i, s) = After(i, r)
    <3>1. i > m
      BY <1>1 DEF After
    <3>2. \A j \in s : j > i => j # m
      BY <1>1, <3>1
    <3> QED BY <3>2 DEF After
  <2> QED BY <2>1 DEF Addends
<1>4. w[m] = Addend(number[m], Odd(r))
  BY <1>1 DEF Addends
<1>5. \A i \in s : w[i] \in Nat
  <2>1. ASSUME NEW i \in s PROVE w[i] \in Nat
    <3>1. number[i] \in Digits /\ After(i, s) \in SUBSET (1..n)
      BY DEF After
    <3>2. Addend(number[i], Odd(After(i, s))) \in Digits
      BY <3>1, PlacesFinite, AddendDigit
    <3> QED BY <3>2 DEF Addends, Digits
  <2> QED BY <2>1
<1>6. Total(w, s) = w[m] + Total(w, r)
  <2> HIDE DEF w
  <2> QED BY <1>1, <1>2, <1>5, TotalWithout
<1>7. Total(w, r) = Total(v, r)
  <2> HIDE DEF w, v, r
  <2> QED BY <1>2, <1>3, TotalSame
<1>8. Total(v, r) \in Nat /\ w[m] \in Nat
  <2>1. \A i \in r : v[i] \in Nat
    BY <1>3, <1>5
  <2> HIDE DEF w, v, r
  <2> QED BY <1>1, <1>2, <1>5, <2>1, TotalNat
<1>9. Odd(s) = ~Odd(r)
  BY <1>2 DEF Odd
<1> QED BY <1>4, <1>6, <1>7, <1>8, <1>9 DEF Closed, Step, Addend

\* There is such a function: the closed form.
LEMMA LoopExists ==
  ASSUME NEW n \in Nat, NEW number \in [1..n -> Digits]
  PROVE  Loop([s \in SUBSET (1..n) |-> Closed(number, s)], number, 1..n)
<1> DEFINE g == [s \in SUBSET (1..n) |-> Closed(number, s)]
<1>1. Closed(number, {}) = Start
  <2>1. Total(Addends(number, {}), {}) = 0
    BY FS_EmptySet, TotalPick
  <2>2. Odd({}) = FALSE
    BY FS_EmptySet DEF Odd
  <2> QED BY <2>1, <2>2 DEF Closed, Start
<1>2. ASSUME NEW s \in SUBSET (1..n), s # {}
      PROVE  Closed(number, s) = Step(number[Min(s)], g[s \ {Min(s)}])
  BY <1>2, ClosedStep
<1>3. \A s \in SUBSET (1..n) :
        Closed(number, s) = IF s = {} THEN Start ELSE Step(number[Min(s)], g[s \ {Min(s)}])
  BY <1>1, <1>2
<1>4. g = [s \in SUBSET (1..n) |-> IF s = {} THEN Start
                                   ELSE Step(number[Min(s)], g[s \ {Min(s)}])]
  BY <1>3
<1> HIDE DEF g
<1>5. Loop(g, number, 1..n)
  BY <1>4 DEF Loop
<1> QED BY <1>5 DEF g

\* There is only one.
LEMMA LoopUnique ==
  ASSUME NEW n \in Nat, NEW number, NEW g, NEW h,
         Loop(g, number, 1..n), Loop(h, number, 1..n)
  PROVE  g[1..n] = h[1..n]
<1> DEFINE T == {s \in SUBSET (1..n) : g[s] # h[s]}
<1> SUFFICES ASSUME T # {} PROVE FALSE
  OBVIOUS
<1>1. PICK s \in T : \A t \in T : t \subseteq s => t = s
  <2> DEFINE U == 1..n
  <2>1. IsFiniteSet(U)
    BY FS_Interval
  <2>2. T \subseteq SUBSET U
    OBVIOUS
  <2> HIDE DEF T, U
  <2> QED BY <2>1, <2>2, Smallest
<1>2. /\ g[s] = IF s = {} THEN Start ELSE Step(number[Min(s)], g[s \ {Min(s)}])
      /\ h[s] = IF s = {} THEN Start ELSE Step(number[Min(s)], h[s \ {Min(s)}])
  BY <1>1 DEF Loop
<1>3. s # {}
  BY <1>1, <1>2
<1>4. Min(s) \in s
  BY <1>3, FirstPlace
<1>5. s \ {Min(s)} \notin T
  BY <1>1, <1>4
<1>6. g[s \ {Min(s)}] = h[s \ {Min(s)}]
  BY <1>5
<1> QED BY <1>1, <1>2, <1>6

\* What the loop adds for each place of a number, and the sum it ends with.
Weights(number)  == [i \in 1..Len(number) |-> Addend(number[i], (Len(number) - i) % 2 = 1)]
LoopSum(number)  == FoldRight(Step, number, [sum |-> 0, double |-> FALSE]).sum

LEMMA WeightsDigits ==
  ASSUME NEW number \in Seq(Digits), NEW i \in 1..Len(number)
  PROVE  Weights(number)[i] \in Digits
<1>1. number[i] \in Digits /\ ((Len(number) - i) % 2 = 1) \in BOOLEAN
  OBVIOUS
<1>2. Addend(number[i], (Len(number) - i) % 2 = 1) \in Digits
  BY <1>1, AddendDigit
<1> QED BY <1>2 DEF Weights

\* The sum of the loop: every second digit from the right is doubled.
LEMMA LoopSumIs ==
  ASSUME NEW number \in Seq(Digits)
  PROVE  LoopSum(number) = Total(Weights(number), 1..Len(number))
<1> DEFINE n == Len(number)
           S == 1..n
           f == CHOOSE g : Loop(g, number, S)
           c == [s \in SUBSET S |-> Closed(number, s)]
<1>1. n \in Nat /\ number \in [1..n -> Digits] /\ DOMAIN number = S
  OBVIOUS
<1>2. LoopSum(number) = f[S].sum
  <2>1. LoopSum(number) = (CHOOSE g : Loop(g, number, DOMAIN number))[DOMAIN number].sum
    BY DEF LoopSum, FoldRight, MapThenFoldSet, Loop, Start
  <2> QED BY <1>1, <2>1
<1>3. Loop(c, number, S)
  BY <1>1, LoopExists
<1>4. Loop(f, number, S)
  <2> HIDE DEF c
  <2> QED BY <1>3
<1>5. f[S] = c[S]
  <2> HIDE DEF c, f, n
  <2> QED BY <1>1, <1>3, <1>4, LoopUnique
<1>6. f[S].sum = Total(Addends(number, S), S)
  <2>1. c[S] = Closed(number, S)
    OBVIOUS
  <2> QED BY <1>5, <2>1 DEF Closed
<1>7. Addends(number, S) = Weights(number)
  <2>1. ASSUME NEW i \in S PROVE Odd(After(i, S)) <=> (n - i) % 2 = 1
    <3>1. i \in Int /\ i + 1 \in Int /\ n \in Int /\ i =< n
      BY <1>1
    <3>2. Cardinality((i + 1)..n) = IF i + 1 > n THEN 0 ELSE n - (i + 1) + 1
      BY <3>1, FS_Interval
    <3>3. After(i, S) = (i + 1)..n
      BY <3>1 DEF After
    <3>4. Cardinality(After(i, S)) = n - i
      BY <3>1, <3>2, <3>3
    <3> QED BY <3>4 DEF Odd
  <2> QED BY <2>1 DEF Addends, Weights, Addend
<1> QED BY <1>2, <1>6, <1>7

\* The last digit is never doubled.
LEMMA LastCounts ==
  ASSUME NEW number \in Seq(Digits), Len(number) > 0
  PROVE  LET n == Len(number)
             rest == Total(Weights(number), 1..(n - 1))
         IN  rest \in Nat /\ LoopSum(number) = rest + number[n]
<1> DEFINE n == Len(number)
           U == 1..(n - 1)
           w == Weights(number)
<1>1. n \in Nat /\ n > 0 /\ n \notin U /\ 1..n = U \cup {n}
  OBVIOUS
<1>2. IsFiniteSet(U)
  BY <1>1, FS_Interval
<1>3. \A i \in U \cup {n} : w[i] \in Nat
  BY <1>1, WeightsDigits DEF Digits
<1>4. w[n] = number[n]
  BY <1>1 DEF Weights, Addend
<1>5. LoopSum(number) = Total(w, U \cup {n})
  BY <1>1, LoopSumIs
<1> HIDE DEF n, U, w
<1>6. Total(w, U) \in Nat /\ Total(w, U \cup {n}) = Total(w, U) + w[n]
  BY <1>1, <1>2, <1>3, TotalNat, TotalWith
<1> QED BY <1>4, <1>5, <1>6 DEF n, U, w

\* A digit's double counts for the sum of its digits.
LEMMA DoubledIs == \A d \in Digits : DigitSum(2 * d) = Doubled(d)
BY DEF Digits, DigitSum, Doubled

\* The sum in CheckDigit is the one of the loop.
LEMMA WeightSum ==
  ASSUME NEW number \in Seq(Digits)
  PROVE  MapThenSumSet(LAMBDA i : Weight(number, i), DOMAIN number) = LoopSum(number)
<1> DEFINE S == 1..Len(number)
           w == Weights(number)
           P(g) == g = [s \in SUBSET S |-> IF s = {} THEN 0
                                           ELSE Weight(number, Pick(s)) + g[s \ {Pick(s)}]]
<1>1. MapThenSumSet(LAMBDA i : Weight(number, i), DOMAIN number) = (CHOOSE g : P(g))[S]
  <2>1. DOMAIN number = S
    OBVIOUS
  <2> QED BY <2>1 DEF MapThenSumSet, MapThenFoldSet, Pick
<1>2. \A i \in S : Weight(number, i) = w[i]
  <2>1. ASSUME NEW i \in S PROVE DigitSum(2 * number[i]) = Doubled(number[i])
    BY DoubledIs
  <2> QED BY <2>1 DEF Weight, Weights, Addend
<1>3. ASSUME NEW g PROVE P(g) <=> Sums(g, w, S)
  <2>1. ASSUME NEW s \in SUBSET S, s # {} PROVE Weight(number, Pick(s)) = w[Pick(s)]
    BY <1>2, <2>1, PickIn
  <2> HIDE DEF w, S
  <2> QED BY <2>1 DEF Sums
<1>4. IsFiniteSet(S)
  BY FS_Interval
<1> HIDE DEF w, S
<1>5. \E g : P(g)
  BY <1>3, <1>4, SumsExist
<1>6. P(CHOOSE g : P(g))
  <2> HIDE DEF P
  <2> QED BY <1>5
<1>7. Sums(CHOOSE g : P(g), w, S)
  BY <1>3, <1>6
<1>8. PICK h : Sums(h, w, S) /\ Total(w, S) = h[S]
  BY <1>4, TotalSums
<1> HIDE DEF P
<1>9. (CHOOSE g : P(g))[S] = h[S]
  BY <1>4, <1>7, <1>8, SumsAgree
<1> QED BY <1>1, <1>8, <1>9, LoopSumIs DEF w, S

\* The digit that CheckDigit puts after what is before the last.
LEMMA CheckDigitIs ==
  ASSUME NEW number \in Seq(Digits), Len(number) > 0
  PROVE  CheckDigit(Front(number))
           = (10 - (Total(Weights(number), 1..(Len(number) - 1)) % 10)) % 10
<1> DEFINE n == Len(number)
           padded == Append(Front(number), 0)
           U == 1..(n - 1)
<1>1. padded \in Seq(Digits) /\ Len(padded) = n /\ padded[n] = 0
  <2>1. Front(number) \in Seq(Digits) /\ Len(Front(number)) = n - 1
    BY DEF Front
  <2>2. 0 \in Digits
    BY DEF Digits
  <2> QED BY <2>1, <2>2, AppendProperties
<1>2. \A i \in U : padded[i] = number[i]
  BY DEF Front
<1>3. CheckDigit(Front(number)) = (10 - (LoopSum(padded) % 10)) % 10
  BY <1>1, WeightSum DEF CheckDigit
<1> HIDE DEF padded
<1>4. /\ Total(Weights(padded), U) \in Nat
      /\ LoopSum(padded) = Total(Weights(padded), U) + 0
  BY <1>1, LastCounts
<1>5. Total(Weights(padded), U) = Total(Weights(number), U)
  <2>1. \A i \in U : Weights(padded)[i] = Weights(number)[i]
    BY <1>1, <1>2 DEF Weights
  <2>2. IsFiniteSet(U)
    BY FS_Interval
  <2> HIDE DEF U
  <2> QED BY <2>1, <2>2, TotalSame
<1> QED BY <1>3, <1>4, <1>5
-----------------------------------------------------------------------------
(* The theorems.                                                           *)

\* OrderNumValidation accepts the numbers that Luhn's algorithm accepts,
\* however long, and no number with another byte in it.
THEOREM ValidationIsLuhnAtAnyLength ==
  ASSUME NEW number \in Seq(Digits \cup {NonDigit})
  PROVE  OrderNumValidation(number) <=> Luhn(number)
<1> DEFINE n == Len(number)
<1>1. n \in Nat /\ DOMAIN number = 1..n /\ (number # <<>> <=> n > 0)
  OBVIOUS
<1>2. \A i \in 1..n : number[i] # NonDigit <=> number[i] \in Digits
  BY DEF NonDigit, Digits
<1>3. CASE n = 0 \/ \E i \in 1..n : number[i] = NonDigit
  BY <1>1, <1>2, <1>3 DEF OrderNumValidation, Luhn
<1>4. CASE n > 0 /\ \A i \in 1..n : number[i] # NonDigit
  <2> DEFINE rest == Total(Weights(number), 1..(n - 1))
  <2>1. number \in Seq(Digits) /\ number[n] \in Digits
    BY <1>1, <1>2, <1>4
  <2>2. OrderNumValidation(number) <=> LoopSum(number) % 10 = 0
    BY <1>1, <1>4 DEF OrderNumValidation, LoopSum
  <2>3. rest \in Nat /\ LoopSum(number) = rest + number[n]
    BY <1>4, <2>1, LastCounts
  <2>4. Luhn(number) <=> number[n] = (10 - (rest % 10)) % 10
    BY <1>1, <1>2, <1>4, <2>1, CheckDigitIs DEF Luhn, Last
  <2> HIDE DEF rest, n
  <2>5. ASSUME NEW a \in Nat, NEW d \in Digits
        PROVE  (a + d) % 10 = 0 <=> d = (10 - (a % 10)) % 10
    BY DEF Digits
  <2> QED BY <2>1, <2>2, <2>3, <2>4, <2>5
<1> QED BY <1>1, <1>3, <1>4

\* What OrderNumValidation computes of digits.
LEMMA ValidationOfDigits ==
  ASSUME NEW number \in Seq(Digits), Len(number) > 0
  PROVE  OrderNumValidation(number) <=> LoopSum(number) % 10 = 0
<1>1. number # <<>> /\ \A i \in DOMAIN number : number[i] # NonDigit
  BY DEF Digits, NonDigit
<1> QED BY <1>1 DEF OrderNumValidation, LoopSum

\* The places of S apart.
LEMMA LoopSumSplit ==
  ASSUME NEW number \in Seq(Digits), NEW i \in 1..Len(number)
  PROVE  LET w == Weights(number)
             rest == Total(w, 1..Len(number) \ {i})
         IN  /\ w[i] \in Digits /\ rest \in Nat
             /\ LoopSum(number) = w[i] + rest
<1> DEFINE w == Weights(number)
           S == 1..Len(number)
<1>1. IsFiniteSet(S) /\ IsFiniteSet(S \ {i})
  <2>1. Len(number) \in Nat /\ S \in SUBSET S /\ S \ {i} \in SUBSET S
    OBVIOUS
  <2> QED BY <2>1, PlacesFinite
<1>2. \A j \in S : w[j] \in Digits
  BY WeightsDigits
<1>3. \A j \in S : w[j] \in Nat
  BY <1>2 DEF Digits
<1>4. LoopSum(number) = Total(w, S)
  BY LoopSumIs
<1> HIDE DEF w, S
<1>5. i \in S
  BY DEF S
<1>6. Total(w, S) = w[i] + Total(w, S \ {i}) /\ Total(w, S \ {i}) \in Nat
  BY <1>1, <1>3, <1>5, TotalWithout, TotalNat
<1> QED BY <1>2, <1>4, <1>5, <1>6 DEF w, S

\* One wrong digit, whichever and wherever, makes a valid number invalid.
THEOREM WrongDigitIsRefused ==
  ASSUME NEW number \in Seq(Digits), OrderNumValidation(number),
         NEW i \in DOMAIN number, NEW d \in Digits \ {number[i]}
  PROVE  ~OrderNumValidation([number EXCEPT ![i] = d])
<1> DEFINE n == Len(number)
           typed == [number EXCEPT ![i] = d]
           w == Weights(number)
           v == Weights(typed)
           U == 1..n \ {i}
<1>1. n \in Nat /\ i \in 1..n /\ n > 0 /\ number[i] \in Digits /\ d \in Digits
  OBVIOUS
<1>2. typed \in Seq(Digits) /\ Len(typed) = n
  BY <1>1, ExceptSeq
<1>3. typed[i] = d /\ \A j \in U : typed[j] = number[j]
  BY <1>1
<1> HIDE DEF typed
<1>4. Total(w, U) = Total(v, U)
  <2>1. \A j \in U : w[j] = v[j]
    BY <1>2, <1>3 DEF Weights
  <2>2. IsFiniteSet(U)
    <3>1. U \in SUBSET (1..n)
      OBVIOUS
    <3> QED BY <1>1, <3>1, PlacesFinite
  <2> HIDE DEF w, v, U
  <2> QED BY <2>1, <2>2, TotalSame
<1>5. w[i] # v[i]
  <2>1. \A odd \in BOOLEAN, a, b \in Digits : a # b => Addend(a, odd) # Addend(b, odd)
    BY DEF Addend, Doubled, Digits
  <2>2. w[i] = Addend(number[i], (n - i) % 2 = 1) /\ v[i] = Addend(d, (n - i) % 2 = 1)
    BY <1>1, <1>2, <1>3 DEF Weights
  <2> QED BY <1>1, <2>1, <2>2
<1>6. /\ w[i] \in Digits /\ Total(w, U) \in Nat /\ LoopSum(number) = w[i] + Total(w, U)
      /\ v[i] \in Digits /\ LoopSum(typed) = v[i] + Total(v, U)
  BY <1>1, <1>2, LoopSumSplit
<1>7. /\ LoopSum(number) % 10 = 0
      /\ OrderNumValidation(typed) <=> LoopSum(typed) % 10 = 0
  BY <1>1, <1>2, ValidationOfDigits
<1>8. ASSUME NEW a \in Nat, NEW x \in Digits, NEW y \in Digits, x # y, (x + a) % 10 = 0
      PROVE  (y + a) % 10 # 0
  BY <1>8 DEF Digits
<1> QED BY <1>4, <1>5, <1>6, <1>7, <1>8 DEF typed

\* The exchange of two digits of which one counts double is noticed, unless
\* they are equal or 0 and 9.
LEMMA ExchangeShows ==
  ASSUME NEW a \in Digits, NEW b \in Digits, NEW c \in Nat,
         (Doubled(a) + b + c) % 10 = 0
  PROVE  (Doubled(b) + a + c) % 10 = 0 <=> a = b \/ {a, b} = {0, 9}
<1>1. ASSUME NEW x \in Nat, NEW y \in Nat, x % 10 = 0, x - y < 10, y - x < 10
      PROVE  y % 10 = 0 <=> y = x
  BY <1>1
<1>2. Doubled(b) + a = Doubled(a) + b <=> a = b \/ (a = 0 /\ b = 9) \/ (a = 9 /\ b = 0)
  BY DEF Digits, Doubled
<1>3. {a, b} = {0, 9} <=> (a = 0 /\ b = 9) \/ (a = 9 /\ b = 0)
  OBVIOUS
<1> DEFINE x == Doubled(a) + b + c
           y == Doubled(b) + a + c
<1>4. x \in Nat /\ y \in Nat /\ x - y < 10 /\ y - x < 10
  BY DEF Digits, Doubled
<1>5. y = x <=> Doubled(b) + a = Doubled(a) + b
  BY DEF Digits, Doubled
<1> HIDE DEF x, y
<1>6. x % 10 = 0
  BY DEF x
<1>7. y % 10 = 0 <=> y = x
  BY <1>1, <1>4, <1>6
<1> QED BY <1>2, <1>3, <1>5, <1>7 DEF y

\* Two places of S apart.
LEMMA LoopSumSplit2 ==
  ASSUME NEW number \in Seq(Digits), NEW i \in 1..Len(number), NEW k \in 1..Len(number), i # k
  PROVE  LET w == Weights(number)
             rest == Total(w, 1..Len(number) \ {i, k})
         IN  rest \in Nat /\ LoopSum(number) = w[i] + w[k] + rest
<1> DEFINE w == Weights(number)
           S == 1..Len(number)
           U == S \ {i}
           R == S \ {i, k}
<1>1. w[i] \in Digits /\ LoopSum(number) = w[i] + Total(w, U)
  BY LoopSumSplit
<1>2. Len(number) \in Nat /\ U \in SUBSET S /\ R \in SUBSET S /\ k \in U /\ U \ {k} = R
  OBVIOUS
<1>3. IsFiniteSet(U) /\ IsFiniteSet(R)
  BY <1>2, PlacesFinite
<1>4. \A j \in S : w[j] \in Digits
  BY WeightsDigits
<1> HIDE DEF w, S, U, R
<1>5. (\A j \in U : w[j] \in Nat) /\ (\A j \in R : w[j] \in Nat)
  BY <1>2, <1>4 DEF Digits
<1>6. Total(w, U) = w[k] + Total(w, R) /\ Total(w, R) \in Nat
  BY <1>2, <1>3, <1>5, TotalWithout, TotalNat
<1>7. w[i] \in Nat /\ w[k] \in Nat
  BY <1>1, <1>2, <1>5 DEF Digits
<1>8. Total(w, R) \in Nat /\ LoopSum(number) = w[i] + w[k] + Total(w, R)
  BY <1>1, <1>6, <1>7
<1> QED BY <1>8 DEF w, S, R

\* Two neighbours exchanged make a valid number invalid, unless they are equal
\* or 0 and 9: that exchange is never noticed.
THEOREM ExchangeIsRefused ==
  ASSUME NEW number \in Seq(Digits), OrderNumValidation(number),
         NEW i \in DOMAIN number, i < Len(number)
  PROVE  OrderNumValidation([number EXCEPT ![i] = number[i + 1], ![i + 1] = number[i]])
           <=> number[i] = number[i + 1] \/ {number[i], number[i + 1]} = {0, 9}
<1> DEFINE n == Len(number)
           k == i + 1
           a == number[i]
           b == number[k]
           typed == [number EXCEPT ![i] = b, ![k] = a]
           w == Weights(number)
           v == Weights(typed)
           R == 1..n \ {i, k}
<1>1. n \in Nat /\ n > 0 /\ i \in 1..n /\ k \in 1..n /\ i # k /\ a \in Digits /\ b \in Digits
  OBVIOUS
<1>2. typed \in Seq(Digits) /\ Len(typed) = n
  <2>1. [number EXCEPT ![i] = b] \in Seq(Digits) /\ Len([number EXCEPT ![i] = b]) = n
    BY <1>1, ExceptSeq
  <2>2. typed = [[number EXCEPT ![i] = b] EXCEPT ![k] = a]
    OBVIOUS
  <2> QED BY <1>1, <2>1, <2>2, ExceptSeq
<1>3. typed[i] = b /\ typed[k] = a /\ \A j \in R : typed[j] = number[j]
  BY <1>1
<1>4. i \in Int /\ k = i + 1
  OBVIOUS
<1> HIDE DEF typed, k
<1>5. Total(w, R) = Total(v, R)
  <2>1. \A j \in R : w[j] = v[j]
    BY <1>2, <1>3 DEF Weights
  <2>2. IsFiniteSet(R)
    <3>1. R \in SUBSET (1..n)
      OBVIOUS
    <3> QED BY <1>1, <3>1, PlacesFinite
  <2> HIDE DEF w, v, R
  <2> QED BY <2>1, <2>2, TotalSame
<1>6. /\ Total(w, R) \in Nat /\ LoopSum(number) = w[i] + w[k] + Total(w, R)
      /\ Total(v, R) \in Nat /\ LoopSum(typed) = v[i] + v[k] + Total(v, R)
  BY <1>1, <1>2, LoopSumSplit2
<1>7. \/ /\ w[i] = Doubled(a) /\ w[k] = b
         /\ v[i] = Doubled(b) /\ v[k] = a
      \/ /\ w[i] = a /\ w[k] = Doubled(b)
         /\ v[i] = b /\ v[k] = Doubled(a)
  <2>1. (n - i) % 2 = 1 <=> (n - k) % 2 # 1
    <3>1. ASSUME NEW x \in Nat, x > 0 PROVE x % 2 = 1 <=> (x - 1) % 2 # 1
      BY <3>1
    <3>2. n - i \in Nat /\ n - i > 0 /\ n - k = (n - i) - 1
      BY <1>1, <1>4
    <3> HIDE DEF n
    <3> QED BY <3>1, <3>2
  <2>2. /\ w[i] = Addend(a, (n - i) % 2 = 1) /\ w[k] = Addend(b, (n - k) % 2 = 1)
        /\ v[i] = Addend(b, (n - i) % 2 = 1) /\ v[k] = Addend(a, (n - k) % 2 = 1)
    BY <1>1, <1>2, <1>3 DEF Weights
  <2> QED BY <2>1, <2>2 DEF Addend
<1>8. /\ LoopSum(number) % 10 = 0
      /\ OrderNumValidation(typed) <=> LoopSum(typed) % 10 = 0
  BY <1>1, <1>2, ValidationOfDigits
<1>9. Doubled(a) \in Nat /\ Doubled(b) \in Nat /\ a \in Nat /\ b \in Nat
  <2>1. \A d \in Digits : Doubled(d) \in Nat /\ d \in Nat
    BY DEF Doubled, Digits
  <2> QED BY <1>1, <2>1
<1> DEFINE c == Total(w, R)
<1>10. c \in Nat
  BY <1>6
<1>11. LoopSum(typed) % 10 = 0 <=> a = b \/ {a, b} = {0, 9}
  <2> HIDE DEF n, a, b, w, v, c, R
  <2>1. LoopSum(number) = w[i] + w[k] + c /\ LoopSum(typed) = v[i] + v[k] + c
    BY <1>5, <1>6 DEF c
  <2>2. CASE w[i] = Doubled(a) /\ w[k] = b /\ v[i] = Doubled(b) /\ v[k] = a
    <3>1. (Doubled(a) + b + c) % 10 = 0 /\ LoopSum(typed) = Doubled(b) + a + c
      BY <1>8, <2>1, <2>2
    <3>2. a \in Digits /\ b \in Digits
      BY <1>1
    <3>3. (Doubled(b) + a + c) % 10 = 0 <=> a = b \/ {a, b} = {0, 9}
      BY <1>10, <3>1, <3>2, ExchangeShows, Zenon
    <3> QED BY <3>1, <3>3
  <2>3. CASE w[i] = a /\ w[k] = Doubled(b) /\ v[i] = b /\ v[k] = Doubled(a)
    <3>1. a + Doubled(b) + c = Doubled(b) + a + c /\ b + Doubled(a) + c = Doubled(a) + b + c
      BY <1>9, <1>10
    <3>2. (Doubled(b) + a + c) % 10 = 0 /\ LoopSum(typed) = Doubled(a) + b + c
      BY <1>8, <2>1, <2>3, <3>1
    <3>3. a \in Digits /\ b \in Digits
      BY <1>1
    <3>4. (Doubled(a) + b + c) % 10 = 0 <=> b = a \/ {b, a} = {0, 9}
      BY <1>10, <3>2, <3>3, ExchangeShows, Zenon
    <3>5. {a, b} = {b, a}
      OBVIOUS
    <3> QED BY <3>2, <3>4, <3>5
  <2> QED BY <1>7, <2>2, <2>3
<1>12. OrderNumValidation(typed) <=> a = b \/ {a, b} = {0, 9}
  BY <1>8, <1>11
<1> QED BY <1>12 DEF typed, k
=============================================================================
