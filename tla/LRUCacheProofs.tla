---------------------------- MODULE LRUCacheProofs ----------------------------
(* The byte-bounded LRU, for any keys, values, sizes, limit and number of     *)
(* goroutines in Get: its list, its map, its expiries and its byte count      *)
(* agree after every step.                                                    *)
EXTENDS LRUCache, SequenceTheorems, FiniteSetTheorems, TLAPS

-----------------------------------------------------------------------------
\* The least of some natural numbers, and induction over them, for a set.
LEMMA Least ==
  ASSUME NEW set \in SUBSET Nat, set # {}
  PROVE  \E least \in set : \A other \in set : least <= other
<1>1. PICK least \in set : \A other \in set : <<other, least>> \notin OpToRel(<, Nat)
  BY NatLessThanWellFounded, WFMin
<1>2. \A other \in set : ~(other < least)
  BY <1>1 DEF OpToRel
<1> QED BY <1>2

LEMMA SetInduction ==
  ASSUME NEW set, 0 \in set, \A i \in Nat : i \in set => i+1 \in set
  PROVE  \A i \in Nat : i \in set
<1> SUFFICES ASSUME \E i \in Nat : i \notin set PROVE FALSE
  OBVIOUS
<1> DEFINE out == {i \in Nat : i \notin set}
<1>1. out \in SUBSET Nat /\ out # {}
  OBVIOUS
<1> HIDE DEF out
<1>2. PICK least \in out : \A other \in out : least <= other
  BY <1>1, Least
<1>3. least \in Nat /\ least # 0 /\ least - 1 \in Nat /\ (least - 1) + 1 = least
  BY <1>1 DEF out
<1>4. least - 1 \notin out
  BY <1>2, <1>3
<1> QED BY <1>3, <1>4 DEF out

\* A function defined by recursion over 0..n exists.
Iterates(S, base, n, step) ==
  \E f \in [0..n -> S] : f[0] = base /\ \A i \in 1..n : f[i] = step[i][f[i-1]]

LEMMA Iterated ==
  ASSUME NEW S, NEW base \in S, NEW n \in Nat, NEW step \in [1..n -> [S -> S]]
  PROVE  Iterates(S, base, n, step)
<1> DEFINE IsUpTo(f, m) == f \in [0..m -> S] /\ f[0] = base /\ \A i \in 1..m : f[i] = step[i][f[i-1]]
           set == {m \in Nat : m <= n => \E f : IsUpTo(f, m)}
<1>1. 0 \in set
  <2>1. IsUpTo([i \in 0..0 |-> base], 0)
    OBVIOUS
  <2> QED BY <2>1
<1>2. ASSUME NEW m \in Nat, m \in set PROVE m+1 \in set
  <2> SUFFICES ASSUME m+1 <= n PROVE \E f : IsUpTo(f, m+1)
    OBVIOUS
  <2>1. PICK f : IsUpTo(f, m)
    BY <1>2
  <2> DEFINE g == [i \in 0..m+1 |-> IF i = m+1 THEN step[m+1][f[m]] ELSE f[i]]
  <2>2. m+1 \in 1..n /\ f[m] \in S
    BY <2>1
  <2>3. g \in [0..m+1 -> S] /\ g[0] = base
    BY <2>1, <2>2
  <2>4. ASSUME NEW i \in 1..m+1 PROVE g[i] = step[i][g[i-1]]
    <3>1. CASE i = m+1
      BY <2>1, <3>1
    <3>2. CASE i # m+1
      BY <2>1, <3>2
    <3> QED BY <3>1, <3>2
  <2> QED BY <2>3, <2>4
<1> HIDE DEF set
<1>3. n \in set
  BY <1>1, <1>2, SetInduction
<1> QED BY <1>3 DEF set, Iterates

-----------------------------------------------------------------------------
\* Lists of elements, and what is in them.
Lists == Seq(Elems)
Distinct(list) == \A i, j \in 1..Len(list) : list[i] = list[j] => i = j

LEMMA InList ==
  ASSUME NEW list \in Lists
  PROVE  /\ Len(list) \in Nat /\ DOMAIN list = 1..Len(list)
         /\ \A i \in 1..Len(list) : list[i] \in Elems
         /\ ToSet(list) = {list[i] : i \in 1..Len(list)} /\ ToSet(list) \subseteq Elems
BY LenProperties, ElementOfSeq DEF ToSet, Lists

\* <<e>> \o list and Append(list, e), index by index.
LEMMA ConsList ==
  ASSUME NEW list \in Lists, NEW e \in Elems
  PROVE  /\ <<e>> \o list \in Lists /\ Len(<<e>> \o list) = Len(list) + 1
         /\ (<<e>> \o list)[1] = e
         /\ \A i \in 1..Len(list) : (<<e>> \o list)[i+1] = list[i]
         /\ ToSet(<<e>> \o list) = ToSet(list) \cup {e}
         /\ Distinct(list) /\ e \notin ToSet(list) => Distinct(<<e>> \o list)
<1> DEFINE n == Len(list)  more == <<e>> \o list
<1>0. list \in Seq(Elems) /\ n \in Nat
  BY InList DEF Lists
<1>1. /\ more \in Lists /\ Len(more) = n + 1 /\ more[1] = e
      /\ \A i \in 1..n : more[i+1] = list[i]
  BY <1>0 DEF Lists
<1> HIDE DEF more
<1>2. \A i \in 1..n+1 : i = 1 \/ (i-1 \in 1..n /\ more[i] = list[i-1])
  <2> SUFFICES ASSUME NEW i \in 1..n+1, i # 1 PROVE i-1 \in 1..n /\ more[i] = list[i-1]
    OBVIOUS
  <2>1. i-1 \in 1..n /\ (i-1)+1 = i
    BY <1>0
  <2> QED BY <1>1, <2>1
<1>3. \A i \in 1..n : i+1 \in 1..n+1
  BY <1>0
<1>4. 1 \in 1..n+1
  BY <1>0
<1>5. ToSet(list) = {list[i] : i \in 1..n} /\ ToSet(more) = {more[i] : i \in 1..n+1}
  BY <1>1, InList
<1>6. ToSet(more) = ToSet(list) \cup {e}
  BY <1>1, <1>2, <1>3, <1>4, <1>5
<1>7. ASSUME Distinct(list), e \notin ToSet(list) PROVE Distinct(more)
  <2> SUFFICES ASSUME NEW i \in 1..n+1, NEW j \in 1..n+1, more[i] = more[j] PROVE i = j
    BY <1>1 DEF Distinct
  <2>1. CASE i = 1 \/ j = 1
    BY <1>1, <1>2, <1>5, <1>7, <2>1
  <2>2. CASE i # 1 /\ j # 1
    <3>1. i-1 = j-1
      BY <1>2, <1>7, <2>2 DEF Distinct
    <3> QED BY <3>1
  <2> QED BY <2>1, <2>2
<1> QED BY <1>1, <1>6, <1>7 DEF more

LEMMA AppendList ==
  ASSUME NEW list \in Lists, NEW e \in Elems
  PROVE  /\ Append(list, e) \in Lists /\ Len(Append(list, e)) = Len(list) + 1
         /\ Append(list, e)[Len(list) + 1] = e
         /\ \A i \in 1..Len(list) : Append(list, e)[i] = list[i]
         /\ ToSet(Append(list, e)) = ToSet(list) \cup {e}
         /\ Distinct(list) /\ e \notin ToSet(list) => Distinct(Append(list, e))
<1> DEFINE n == Len(list)  more == Append(list, e)
<1>0. list \in Seq(Elems) /\ n \in Nat
  BY InList DEF Lists
<1>1. /\ more \in Lists /\ Len(more) = n + 1 /\ more[n+1] = e
      /\ \A i \in 1..n : more[i] = list[i]
  BY <1>0, AppendProperties DEF Lists
<1> HIDE DEF more
<1>2. /\ \A i \in 1..n+1 : i \in 1..n \/ i = n+1
      /\ \A i \in 1..n : i \in 1..n+1 /\ n+1 \in 1..n+1
      /\ n+1 \in 1..n+1
  BY <1>0
<1>5. ToSet(list) = {list[i] : i \in 1..n} /\ ToSet(more) = {more[i] : i \in 1..n+1}
  BY <1>1, InList
<1>6. ToSet(more) = ToSet(list) \cup {e}
  BY <1>1, <1>2, <1>5
<1>7. ASSUME Distinct(list), e \notin ToSet(list) PROVE Distinct(more)
  BY <1>1, <1>2, <1>5, <1>7 DEF Distinct
<1> QED BY <1>1, <1>6, <1>7 DEF more

-----------------------------------------------------------------------------
\* x is the sum of the weights of a list.
Weights == [Elems -> Nat]
Adds(sums, list, w) ==
  /\ sums \in [0..Len(list) -> Nat] /\ sums[0] = 0
  /\ \A i \in 1..Len(list) : sums[i] = sums[i-1] + w[list[i]]
IsSum(x, list, w) == \E sums : Adds(sums, list, w) /\ x = sums[Len(list)]

LEMMA SumExists ==
  ASSUME NEW list \in Lists, NEW w \in Weights
  PROVE  \E x \in Nat : IsSum(x, list, w)
<1> DEFINE n == Len(list)
           step == [i \in 1..n |-> [x \in Nat |-> x + w[list[i]]]]
<1>1. n \in Nat /\ \A i \in 1..n : w[list[i]] \in Nat
  BY InList DEF Weights
<1> HIDE DEF n
<1>2. step \in [1..n -> [Nat -> Nat]] /\ 0 \in Nat
  BY <1>1
<1>3. \A i \in 1..n, x \in Nat : step[i][x] = x + w[list[i]]
  OBVIOUS
<1> HIDE DEF step
<1>4. Iterates(Nat, 0, n, step)
  BY <1>1, <1>2, Iterated
<1>5. PICK sums \in [0..n -> Nat] : sums[0] = 0 /\ \A i \in 1..n : sums[i] = step[i][sums[i-1]]
  BY <1>4 DEF Iterates
<1>6. \A i \in 1..n : i-1 \in 0..n
  BY <1>1
<1>7. Adds(sums, list, w)
  BY <1>3, <1>5, <1>6 DEF Adds, n
<1>8. sums[n] \in Nat
  BY <1>1, <1>5
<1> QED BY <1>7, <1>8 DEF IsSum, n

LEMMA SumUnique ==
  ASSUME NEW list \in Lists, NEW w, NEW x, NEW y, IsSum(x, list, w), IsSum(y, list, w)
  PROVE  x = y /\ x \in Nat
<1> DEFINE n == Len(list)
<1>1. PICK a : Adds(a, list, w) /\ x = a[n]
  BY DEF IsSum
<1>2. PICK b : Adds(b, list, w) /\ y = b[n]
  BY DEF IsSum
<1>3. n \in Nat
  BY InList
<1>4. a[0] = 0 /\ b[0] = 0 /\ \A i \in 1..n : a[i] = a[i-1] + w[list[i]] /\ b[i] = b[i-1] + w[list[i]]
  BY <1>1, <1>2 DEF Adds
<1>5. x \in Nat
  BY <1>1, <1>3 DEF Adds
<1> HIDE DEF n
<1> DEFINE set == {m \in Nat : m <= n => a[m] = b[m]}
<1>6. 0 \in set
  BY <1>4
<1>7. \A m \in Nat : m \in set => m+1 \in set
  <2> SUFFICES ASSUME NEW m \in Nat, m \in set, m+1 <= n PROVE a[m+1] = b[m+1]
    OBVIOUS
  <2>1. m+1 \in 1..n /\ (m+1)-1 = m /\ m <= n
    BY <1>3
  <2> QED BY <1>4, <2>1
<1> HIDE DEF set
<1>8. n \in set
  BY <1>3, <1>6, <1>7, SetInduction
<1> QED BY <1>1, <1>2, <1>3, <1>5, <1>8 DEF set

LEMMA SumSame ==
  ASSUME NEW list \in Lists, NEW w, NEW v, NEW x, IsSum(x, list, w),
         \A e \in ToSet(list) : v[e] = w[e]
  PROVE  IsSum(x, list, v)
<1>1. \A i \in 1..Len(list) : v[list[i]] = w[list[i]]
  BY InList
<1> QED BY <1>1 DEF IsSum, Adds

LEMMA SumOfNone ==
  ASSUME NEW list \in Lists, NEW w, \A e \in ToSet(list) : w[e] = 0
  PROVE  IsSum(0, list, w)
<1> DEFINE sums == [i \in 0..Len(list) |-> 0]
<1>1. Len(list) \in Nat /\ \A i \in 1..Len(list) : w[list[i]] = 0
  BY InList
<1>2. Adds(sums, list, w) /\ sums[Len(list)] = 0
  BY <1>1 DEF Adds
<1> HIDE DEF sums
<1> QED BY <1>2 DEF IsSum

LEMMA SumOfBoth ==
  ASSUME NEW list \in Lists, NEW u \in Weights, NEW v \in Weights, NEW w,
         NEW x, NEW y, IsSum(x, list, u), IsSum(y, list, v),
         \A e \in ToSet(list) : w[e] = u[e] + v[e]
  PROVE  IsSum(x + y, list, w)
<1> DEFINE n == Len(list)
<1>1. PICK a : Adds(a, list, u) /\ x = a[n]
  BY DEF IsSum
<1>2. PICK b : Adds(b, list, v) /\ y = b[n]
  BY DEF IsSum
<1>3. n \in Nat /\ \A i \in 1..n : /\ w[list[i]] = u[list[i]] + v[list[i]]
                                   /\ u[list[i]] \in Nat /\ v[list[i]] \in Nat
  BY InList DEF Weights
<1>4. /\ a \in [0..n -> Nat] /\ b \in [0..n -> Nat] /\ a[0] = 0 /\ b[0] = 0
      /\ \A i \in 1..n : a[i] = a[i-1] + u[list[i]] /\ b[i] = b[i-1] + v[list[i]]
  BY <1>1, <1>2 DEF Adds
<1> HIDE DEF n
<1> DEFINE sums == [i \in 0..n |-> a[i] + b[i]]
<1>5. sums \in [0..n -> Nat] /\ sums[0] = 0 /\ sums[n] = x + y
  BY <1>1, <1>2, <1>3, <1>4
<1>6. ASSUME NEW i \in 1..n PROVE sums[i] = sums[i-1] + w[list[i]]
  <2>1. i \in 0..n /\ i-1 \in 0..n
    BY <1>3
  <2>2. sums[i] = a[i] + b[i] /\ sums[i-1] = a[i-1] + b[i-1]
    BY <2>1
  <2>3. a[i-1] \in Nat /\ b[i-1] \in Nat
    BY <1>4, <2>1
  <2>4. a[i] = a[i-1] + u[list[i]] /\ b[i] = b[i-1] + v[list[i]]
    BY <1>4
  <2>5. w[list[i]] = u[list[i]] + v[list[i]] /\ u[list[i]] \in Nat /\ v[list[i]] \in Nat
    BY <1>3
  <2> HIDE DEF sums
  <2> QED BY <2>2, <2>3, <2>4, <2>5
<1> HIDE DEF sums
<1>7. Adds(sums, list, w)
  BY <1>5, <1>6 DEF Adds, n
<1> QED BY <1>5, <1>7 DEF IsSum, n

LEMMA SumOfCons ==
  ASSUME NEW list \in Lists, NEW e \in Elems, NEW w \in Weights, NEW x, IsSum(x, list, w)
  PROVE  IsSum(w[e] + x, <<e>> \o list, w)
<1> DEFINE n == Len(list)  more == <<e>> \o list
<1>1. PICK a : Adds(a, list, w) /\ x = a[n]
  BY DEF IsSum
<1>2. /\ n \in Nat /\ Len(more) = n+1 /\ more[1] = e /\ \A i \in 1..n : more[i+1] = list[i]
      /\ w[e] \in Nat /\ \A i \in 1..n : w[list[i]] \in Nat
  BY InList, ConsList DEF Weights
<1>3. a \in [0..n -> Nat] /\ a[0] = 0 /\ \A i \in 1..n : a[i] = a[i-1] + w[list[i]]
  BY <1>1 DEF Adds
<1> HIDE DEF n, more
<1> DEFINE sums == [i \in 0..n+1 |-> IF i = 0 THEN 0 ELSE w[e] + a[i-1]]
<1>4. \A i \in 1..n+1 : i \in 0..n+1 /\ i # 0 /\ i-1 \in 0..n /\ i-1 \in 0..n+1
  BY <1>2
<1>5. /\ sums[0] = 0 /\ \A i \in 1..n+1 : sums[i] = w[e] + a[i-1]
  BY <1>2, <1>4
<1>6. \A i \in 0..n+1 : i = 0 \/ i \in 1..n+1
  BY <1>2
<1>7. sums \in [0..n+1 -> Nat]
  <2>1. \A i \in 1..n+1 : w[e] + a[i-1] \in Nat
    BY <1>2, <1>3, <1>4
  <2> QED BY <1>6, <2>1
<1> HIDE DEF sums
<1>8. ASSUME NEW i \in 1..n+1 PROVE sums[i] = sums[i-1] + w[more[i]]
  <2>1. CASE i = 1
    <3>1. sums[1] = w[e] + a[0] /\ sums[1-1] = 0 /\ more[1] = e
      BY <1>2, <1>5, <2>1
    <3> QED BY <1>2, <1>3, <2>1, <3>1
  <2>2. CASE i # 1
    <3>1. i-1 \in 1..n /\ (i-1)+1 = i /\ i-1 \in 1..n+1 /\ (i-1)-1 \in 0..n
      BY <1>2, <2>2
    <3>2. more[i] = list[i-1] /\ a[i-1] = a[(i-1)-1] + w[list[i-1]]
      BY <1>2, <1>3, <3>1
    <3>3. sums[i] = w[e] + a[i-1] /\ sums[i-1] = w[e] + a[(i-1)-1]
      BY <1>5, <3>1
    <3>4. a[(i-1)-1] \in Nat /\ w[list[i-1]] \in Nat
      BY <1>2, <1>3, <3>1
    <3> QED BY <1>2, <3>2, <3>3, <3>4
  <2> QED BY <2>1, <2>2
<1>9. sums[n+1] = w[e] + x
  <2>1. n+1 \in 1..n+1 /\ (n+1)-1 = n
    BY <1>2
  <2> QED BY <1>1, <1>5, <2>1
<1>10. Adds(sums, more, w)
  BY <1>2, <1>5, <1>7, <1>8 DEF Adds
<1> QED BY <1>2, <1>9, <1>10 DEF IsSum, more

LEMMA SumOfAppend ==
  ASSUME NEW list \in Lists, NEW e \in Elems, NEW w \in Weights, NEW x, IsSum(x, list, w)
  PROVE  IsSum(x + w[e], Append(list, e), w)
<1> DEFINE n == Len(list)  more == Append(list, e)
<1>1. PICK a : Adds(a, list, w) /\ x = a[n]
  BY DEF IsSum
<1>2. /\ n \in Nat /\ Len(more) = n+1 /\ more[n+1] = e /\ \A i \in 1..n : more[i] = list[i]
      /\ w[e] \in Nat
  BY InList, AppendList DEF Weights
<1>3. a \in [0..n -> Nat] /\ a[0] = 0 /\ \A i \in 1..n : a[i] = a[i-1] + w[list[i]]
  BY <1>1 DEF Adds
<1> HIDE DEF n, more
<1> DEFINE sums == [i \in 0..n+1 |-> IF i = n+1 THEN x + w[e] ELSE a[i]]
<1>4. /\ \A i \in 0..n+1 : i \in 0..n \/ i = n+1
      /\ \A i \in 0..n : i \in 0..n+1 /\ i # n+1
      /\ n+1 \in 0..n+1 /\ n \in 0..n /\ 0 \in 0..n
  BY <1>2
<1>5. sums[n+1] = x + w[e] /\ \A i \in 0..n : sums[i] = a[i]
  BY <1>4
<1>6. sums \in [0..n+1 -> Nat]
  <2>1. x + w[e] \in Nat /\ \A i \in 0..n : a[i] \in Nat
    BY <1>1, <1>2, <1>3, <1>4
  <2> QED BY <1>4, <2>1
<1> HIDE DEF sums
<1>7. ASSUME NEW i \in 1..n+1 PROVE sums[i] = sums[i-1] + w[more[i]]
  <2>1. CASE i = n+1
    <3>1. i-1 = n
      BY <1>2, <2>1
    <3> QED BY <1>1, <1>2, <1>4, <1>5, <2>1, <3>1
  <2>2. CASE i # n+1
    <3>1. i \in 1..n /\ i \in 0..n /\ i-1 \in 0..n
      BY <1>2, <2>2
    <3> QED BY <1>2, <1>3, <1>5, <3>1
  <2> QED BY <2>1, <2>2
<1>8. Adds(sums, more, w)
  BY <1>2, <1>3, <1>4, <1>5, <1>6, <1>7 DEF Adds
<1> QED BY <1>2, <1>5, <1>8 DEF IsSum, more

-----------------------------------------------------------------------------
\* w of what is in elems, and of what is not.
Only(w, elems) == [e \in Elems |-> IF e \in elems THEN w[e] ELSE 0]
But(w, elems) == [e \in Elems |-> IF e \in elems THEN 0 ELSE w[e]]

LEMMA OnlyBut ==
  ASSUME NEW w \in Weights, NEW elems
  PROVE  /\ Only(w, elems) \in Weights /\ But(w, elems) \in Weights
         /\ \A e \in Elems : w[e] = Only(w, elems)[e] + But(w, elems)[e]
BY DEF Only, But, Weights

\* Once in the list, an element counts once.
LEMMA SumOfOne ==
  ASSUME NEW list \in Lists, Distinct(list), NEW e \in ToSet(list), NEW w \in Weights
  PROVE  IsSum(w[e], list, Only(w, {e}))
<1> DEFINE n == Len(list)
<1>1. n \in Nat /\ w[e] \in Nat /\ \A i \in 1..n : list[i] \in Elems
  BY InList DEF Weights
<1>2. PICK p \in 1..n : list[p] = e
  BY InList
<1>3. \A i \in 1..n : Only(w, {e})[list[i]] = IF i = p THEN w[e] ELSE 0
  BY <1>1, <1>2 DEF Only, Distinct
<1> HIDE DEF n
<1> DEFINE sums == [i \in 0..n |-> IF i < p THEN 0 ELSE w[e]]
<1>4. sums \in [0..n -> Nat] /\ sums[0] = 0 /\ sums[n] = w[e]
  BY <1>1, <1>2
<1>5. ASSUME NEW i \in 1..n PROVE sums[i] = sums[i-1] + Only(w, {e})[list[i]]
  <2>1. i \in 0..n /\ i-1 \in 0..n
    BY <1>1
  <2>2. sums[i] = (IF i < p THEN 0 ELSE w[e]) /\ sums[i-1] = (IF i-1 < p THEN 0 ELSE w[e])
    BY <2>1
  <2>3. Only(w, {e})[list[i]] = IF i = p THEN w[e] ELSE 0
    BY <1>3
  <2> HIDE DEF sums
  <2>4. CASE i < p
    <3>1. i-1 < p /\ i # p
      BY <1>1, <1>2, <2>4
    <3> QED BY <2>2, <2>3, <2>4, <3>1
  <2>5. CASE i = p
    <3>1. i-1 < p /\ ~(i < p)
      BY <1>1, <1>2, <2>5
    <3> QED BY <1>1, <2>2, <2>3, <2>5, <3>1
  <2>6. CASE i > p
    <3>1. ~(i-1 < p) /\ ~(i < p) /\ i # p
      BY <1>1, <1>2, <2>6
    <3> QED BY <1>1, <2>2, <2>3, <3>1
  <2> QED BY <1>1, <1>2, <2>4, <2>5, <2>6
<1> HIDE DEF sums
<1>6. Adds(sums, list, Only(w, {e}))
  BY <1>4, <1>5 DEF Adds, n
<1> QED BY <1>4, <1>6 DEF IsSum, n

-----------------------------------------------------------------------------
\* The list without some elements: the others, in order, with their sum.
LEMMA KeptFacts ==
  ASSUME NEW list \in Lists, NEW elems
  PROVE  LET rest == Kept(list, elems)
         IN /\ rest \in Lists
            /\ ToSet(rest) = ToSet(list) \ elems
            /\ Distinct(list) => Distinct(rest)
            /\ \A w \in Weights : \A x : IsSum(x, list, But(w, elems)) => IsSum(x, rest, w)
<1> DEFINE n == Len(list)
           kept == CHOOSE kept : kept = [i \in 0..n |->
                     IF i = 0 THEN <<>>
                     ELSE IF list[i] \in elems THEN kept[i-1] ELSE Append(kept[i-1], list[i])]
           step == [i \in 1..n |-> [s \in Lists |->
                      IF list[i] \in elems THEN s ELSE Append(s, list[i])]]
<1>0. Kept(list, elems) = kept[n]
  BY DEF Kept
<1>1. n \in Nat /\ \A i \in 1..n : list[i] \in Elems
  BY InList
<1>e. <<>> \in Lists /\ Len(<<>>) = 0 /\ ToSet(<<>>) = {}
  BY DEF Lists, ToSet
<1> HIDE DEF n
<1>2. step \in [1..n -> [Lists -> Lists]]
  BY <1>1, AppendList
<1>3. \E f \in [0..n -> Lists] : f[0] = <<>> /\ \A i \in 1..n : f[i] = step[i][f[i-1]]
  <2> HIDE DEF step
  <2>1. Iterates(Lists, <<>>, n, step)
    BY <1>1, <1>2, <1>e, Iterated
  <2> QED BY <2>1 DEF Iterates
<1>4. PICK f \in [0..n -> Lists] : f[0] = <<>> /\ \A i \in 1..n : f[i] = step[i][f[i-1]]
  BY <1>3
<1>5. \A i \in 1..n : f[i] = IF list[i] \in elems THEN f[i-1] ELSE Append(f[i-1], list[i])
  <2>1. \A i \in 1..n : f[i-1] \in Lists
    BY <1>1, <1>4
  <2> QED BY <1>4, <2>1
<1>6. f = [i \in 0..n |->
             IF i = 0 THEN <<>>
             ELSE IF list[i] \in elems THEN f[i-1] ELSE Append(f[i-1], list[i])]
  <2> DEFINE g == [i \in 0..n |->
             IF i = 0 THEN <<>>
             ELSE IF list[i] \in elems THEN f[i-1] ELSE Append(f[i-1], list[i])]
  <2>1. ASSUME NEW i \in 0..n PROVE f[i] = g[i]
    <3>1. CASE i = 0
      BY <1>4, <3>1
    <3>2. CASE i \in 1..n
      <4>1. i # 0 /\ g[i] = IF list[i] \in elems THEN f[i-1] ELSE Append(f[i-1], list[i])
        BY <1>1, <3>2
      <4> HIDE DEF g
      <4> QED BY <1>5, <3>2, <4>1
    <3> QED BY <1>1, <3>1, <3>2
  <2>2. DOMAIN f = 0..n /\ f = [i \in 0..n |-> f[i]]
    OBVIOUS
  <2> QED BY <2>1, <2>2
<1>7. kept = [i \in 0..n |->
                IF i = 0 THEN <<>>
                ELSE IF list[i] \in elems THEN kept[i-1] ELSE Append(kept[i-1], list[i])]
  BY <1>6
<1> HIDE DEF kept, step
<1>8. kept[0] = <<>> /\ \A i \in 1..n :
        kept[i] = IF list[i] \in elems THEN kept[i-1] ELSE Append(kept[i-1], list[i])
  <2>1. kept[0] = <<>>
    BY <1>1, <1>7
  <2>2. ASSUME NEW i \in 1..n
        PROVE  kept[i] = IF list[i] \in elems THEN kept[i-1] ELSE Append(kept[i-1], list[i])
    <3>1. i # 0 /\ i \in 0..n
      BY <1>1
    <3> QED BY <1>7, <3>1
  <2> QED BY <2>1, <2>2
<1> DEFINE Keeps(m) ==
             /\ kept[m] \in Lists
             /\ ToSet(kept[m]) = {list[i] : i \in 1..m} \ elems
             /\ Distinct(list) => Distinct(kept[m])
             /\ \A w \in Weights : \A sums : Adds(sums, list, But(w, elems)) => IsSum(sums[m], kept[m], w)
           set == {m \in Nat : m <= n => Keeps(m)}
<1>9. 0 \in set
  <2>1. Distinct(<<>>)
    BY <1>e DEF Distinct
  <2>2. ASSUME NEW w \in Weights, NEW sums, Adds(sums, list, But(w, elems))
        PROVE  IsSum(sums[0], <<>>, w)
    <3>1. IsSum(0, <<>>, w)
      BY <1>e, SumOfNone
    <3> QED BY <2>2, <3>1 DEF Adds
  <2>3. Keeps(0)
    BY <1>8, <1>e, <2>1, <2>2
  <2> QED BY <2>3
<1>10. ASSUME NEW m \in Nat, Keeps(m), m+1 <= n PROVE Keeps(m+1)
  <2> DEFINE s == kept[m]  e == list[m+1]
  <2>1. /\ m+1 \in 1..n /\ (m+1)-1 = m /\ e \in Elems
        /\ \A i \in 1..m+1 : i \in 1..m \/ i = m+1
        /\ \A i \in 1..m : i \in 1..m+1
        /\ m+1 \in 1..m+1
    BY <1>1, <1>10
  <2>a. ASSUME NEW w \in Weights, NEW sums, Adds(sums, list, But(w, elems))
        PROVE  /\ sums[m+1] = sums[m] + But(w, elems)[e]
               /\ But(w, elems)[e] = IF e \in elems THEN 0 ELSE w[e]
               /\ sums[m] \in Nat /\ IsSum(sums[m], s, w)
    <3>1. m \in 0..n
      BY <1>1, <1>10
    <3>2. sums \in [0..n -> Nat] /\ \A i \in 1..n : sums[i] = sums[i-1] + But(w, elems)[list[i]]
      BY <2>a DEF Adds, n
    <3> QED BY <1>10, <2>1, <2>a, <3>1, <3>2 DEF But
  <2>2. CASE e \in elems
    <3>1. kept[m+1] = s
      BY <1>8, <2>1, <2>2
    <3>2. ASSUME NEW w \in Weights, NEW sums, Adds(sums, list, But(w, elems))
          PROVE  IsSum(sums[m+1], s, w)
      <4>1. sums[m+1] = sums[m]
        BY <2>2, <2>a, <3>2
      <4> QED BY <2>a, <3>2, <4>1
    <3>3. {list[i] : i \in 1..m+1} \ elems = {list[i] : i \in 1..m} \ elems
      BY <2>1, <2>2
    <3> QED BY <1>10, <3>1, <3>2, <3>3
  <2>3. CASE e \notin elems
    <3>1. kept[m+1] = Append(s, e)
      BY <1>8, <2>1, <2>3
    <3> HIDE DEF s
    <3>0. s \in Lists /\ ToSet(s) = {list[i] : i \in 1..m} \ elems /\ (Distinct(list) => Distinct(s))
      BY <1>10 DEF s
    <3>2. ASSUME NEW w \in Weights, NEW sums, Adds(sums, list, But(w, elems))
          PROVE  IsSum(sums[m+1], Append(s, e), w)
      <4>1. sums[m+1] = sums[m] + w[e] /\ IsSum(sums[m], s, w)
        BY <2>3, <2>a, <3>2 DEF s
      <4> QED BY <2>1, <3>0, <4>1, SumOfAppend
    <3>3. Distinct(list) => e \notin ToSet(s)
      <4>1. Distinct(list) => \A i \in 1..m : list[i] # e
        BY <1>1, <1>10 DEF Distinct, n
      <4> QED BY <3>0, <4>1
    <3>4. /\ Append(s, e) \in Lists /\ ToSet(Append(s, e)) = ToSet(s) \cup {e}
          /\ Distinct(list) => Distinct(Append(s, e))
      BY <2>1, <3>0, <3>3, AppendList
    <3>5. {list[i] : i \in 1..m+1} \ elems = ({list[i] : i \in 1..m} \ elems) \cup {e}
      BY <2>1, <2>3
    <3> QED BY <3>0, <3>1, <3>2, <3>4, <3>5
  <2> QED BY <2>2, <2>3
<1>11. \A m \in Nat : m \in set => m+1 \in set
  <2> HIDE DEF Keeps
  <2> SUFFICES ASSUME NEW m \in Nat, m \in set, m+1 <= n PROVE Keeps(m+1)
    OBVIOUS
  <2>1. m <= n
    BY <1>1
  <2> QED BY <1>10, <2>1
<1>12. Keeps(n)
  <2> HIDE DEF set
  <2>1. n \in set
    BY <1>1, <1>9, <1>11, SetInduction
  <2> QED BY <1>1, <2>1 DEF set
<1>13. ToSet(list) = {list[i] : i \in 1..n}
  BY InList DEF n
<1>14. \A w \in Weights : \A x : IsSum(x, list, But(w, elems)) => IsSum(x, kept[n], w)
  BY <1>12 DEF IsSum, n
<1> QED BY <1>0, <1>12, <1>13, <1>14

-----------------------------------------------------------------------------
(* What is under the lock, as a record: the type, and what its parts have to  *)
(* do with each other after every operation.                                  *)
Entry == [k : Keys, v : Values]

CacheType == [list : Seq(Elems), items : [Keys -> Elems \cup {NoElem}], expires : [Keys -> Nat],
              usedBytes : Int, drift : Nat, entry : [Elems -> Entry \cup {NoEntry}]]

\* The bytes of each element.
Weight(c) == [e \in Elems |-> IF c.entry[e] = NoEntry THEN 0 ELSE Size[c.entry[e].v]]

ItemsListed(c) ==
  /\ Distinct(c.list)
  /\ ToSet(c.list) = {c.items[key] : key \in Keys} \ {NoElem}
  /\ \A key \in Keys : c.items[key] # NoElem => /\ c.entry[c.items[key]] # NoEntry
                                                /\ c.entry[c.items[key]].k = key

ExpiriesOfItems(c) == \A key \in Keys : c.items[key] = NoElem => c.expires[key] = 0

Accounted(c) == IsSum(c.usedBytes + c.drift, c.list, Weight(c))

Consistent(c) == c \in CacheType /\ ItemsListed(c) /\ ExpiriesOfItems(c) /\ Accounted(c)

LEMMA Fields ==
  ASSUME NEW c \in CacheType
  PROVE  /\ c.list \in Lists /\ c.items \in [Keys -> Elems \cup {NoElem}]
         /\ c.expires \in [Keys -> Nat] /\ c.usedBytes \in Int /\ c.drift \in Nat
         /\ c.entry \in [Elems -> Entry \cup {NoEntry}]
         /\ Weight(c) \in Weights
<1>1. /\ c.list \in Lists /\ c.items \in [Keys -> Elems \cup {NoElem}]
      /\ c.expires \in [Keys -> Nat] /\ c.usedBytes \in Int /\ c.drift \in Nat
      /\ c.entry \in [Elems -> Entry \cup {NoEntry}]
  BY DEF CacheType, Lists
<1>2. ASSUME NEW e \in Elems, c.entry[e] # NoEntry PROVE Size[c.entry[e].v] \in Nat
  <2>1. c.entry[e] \in Entry
    BY <1>1, <1>2
  <2>2. c.entry[e].v \in Values
    BY <2>1 DEF Entry
  <2> QED BY <2>2, LRUAssumption
<1>3. Weight(c) \in Weights
  BY <1>2 DEF Weight, Weights
<1> QED BY <1>1, <1>3

\* What is in the list has an entry, and the entry names the one key that holds it.
LEMMA Listed ==
  ASSUME NEW c, c \in CacheType, ItemsListed(c), NEW e \in ToSet(c.list)
  PROVE  /\ c.entry[e] # NoEntry /\ c.entry[e] \in Entry /\ e \in Elems
         /\ c.entry[e].k \in Keys /\ c.items[c.entry[e].k] = e
         /\ \A key \in Keys : c.items[key] = e => key = c.entry[e].k
<1>1. PICK key \in Keys : c.items[key] = e /\ e # NoElem
  BY DEF ItemsListed
<1>2. e \in Elems
  BY Fields, InList
<1>3. \A k \in Keys : c.items[k] = e => c.entry[e].k = k /\ c.entry[e] # NoEntry
  BY <1>1 DEF ItemsListed
<1>4. c.entry[e] \in Entry
  BY <1>1, <1>2, <1>3, Fields
<1> QED BY <1>1, <1>2, <1>3, <1>4

\* The sum that removeElement and evict take off.
LEMMA BytesSum ==
  ASSUME NEW c, Consistent(c), NEW elems
  PROVE  /\ Bytes(c, elems) \in Nat
         /\ IsSum(Bytes(c, elems), c.list, Only(Weight(c), elems))
<1> DEFINE n == Len(c.list)  w == Only(Weight(c), elems)
           bytes == CHOOSE bytes : bytes = [i \in 0..n |->
                      IF i = 0 THEN 0
                      ELSE bytes[i-1] + IF c.list[i] \in elems THEN Size[c.entry[c.list[i]].v] ELSE 0]
<1>0. Bytes(c, elems) = bytes[n]
  BY DEF Bytes
<1>1. c.list \in Lists /\ w \in Weights /\ n \in Nat
  BY Fields, OnlyBut, InList DEF Consistent
<1>2. ASSUME NEW i \in 1..n
      PROVE  w[c.list[i]] = IF c.list[i] \in elems THEN Size[c.entry[c.list[i]].v] ELSE 0
  <2>1. c.list[i] \in ToSet(c.list)
    BY <1>1, InList
  <2>2. c.entry[c.list[i]] # NoEntry /\ c.list[i] \in Elems
    BY <2>1, Listed DEF Consistent
  <2> QED BY <2>2 DEF Only, Weight
<1>3. PICK x \in Nat : IsSum(x, c.list, w)
  <2> HIDE DEF w
  <2> QED BY <1>1, SumExists
<1>4. PICK f : Adds(f, c.list, w) /\ x = f[n]
  BY <1>3 DEF IsSum
<1> HIDE DEF n, w
<1>5. f \in [0..n -> Nat] /\ f[0] = 0 /\ \A i \in 1..n : f[i] = f[i-1] + w[c.list[i]]
  BY <1>4 DEF Adds, n
<1>6. f = [i \in 0..n |->
             IF i = 0 THEN 0
             ELSE f[i-1] + IF c.list[i] \in elems THEN Size[c.entry[c.list[i]].v] ELSE 0]
  <2> DEFINE g == [i \in 0..n |->
             IF i = 0 THEN 0
             ELSE f[i-1] + IF c.list[i] \in elems THEN Size[c.entry[c.list[i]].v] ELSE 0]
  <2>1. ASSUME NEW i \in 0..n PROVE f[i] = g[i]
    <3>1. CASE i = 0
      BY <1>5, <3>1
    <3>2. CASE i \in 1..n
      <4>1. i # 0 /\ g[i] = f[i-1] + IF c.list[i] \in elems THEN Size[c.entry[c.list[i]].v] ELSE 0
        BY <1>1, <3>2
      <4> HIDE DEF g
      <4>2. f[i] = f[i-1] + w[c.list[i]]
        BY <1>5, <3>2
      <4>3. w[c.list[i]] = IF c.list[i] \in elems THEN Size[c.entry[c.list[i]].v] ELSE 0
        BY <1>2, <3>2
      <4> QED BY <4>1, <4>2, <4>3
    <3> QED BY <1>1, <3>1, <3>2
  <2>2. DOMAIN f = 0..n /\ f = [i \in 0..n |-> f[i]]
    BY <1>5
  <2> QED BY <2>1, <2>2
<1>7. bytes = [i \in 0..n |->
                 IF i = 0 THEN 0
                 ELSE bytes[i-1] + IF c.list[i] \in elems THEN Size[c.entry[c.list[i]].v] ELSE 0]
  BY <1>6
<1> HIDE DEF bytes
<1>8. bytes[0] = 0 /\ \A i \in 1..n : bytes[i] = bytes[i-1] + w[c.list[i]]
  <2>1. bytes[0] = 0
    BY <1>1, <1>7
  <2>2. ASSUME NEW i \in 1..n PROVE bytes[i] = bytes[i-1] + w[c.list[i]]
    <3>1. i # 0 /\ i \in 0..n
      BY <1>1
    <3>2. bytes[i] = bytes[i-1] + IF c.list[i] \in elems THEN Size[c.entry[c.list[i]].v] ELSE 0
      BY <1>7, <3>1
    <3> QED BY <1>2, <3>2
  <2> QED BY <2>1, <2>2
<1> DEFINE set == {m \in Nat : m <= n => bytes[m] = f[m]}
<1>9. 0 \in set
  BY <1>5, <1>8
<1>10. \A m \in Nat : m \in set => m+1 \in set
  <2> SUFFICES ASSUME NEW m \in Nat, m \in set, m+1 <= n PROVE bytes[m+1] = f[m+1]
    OBVIOUS
  <2>1. m+1 \in 1..n /\ (m+1)-1 = m /\ m <= n
    BY <1>1
  <2> QED BY <1>5, <1>8, <2>1
<1> HIDE DEF set
<1>11. n \in set
  BY <1>1, <1>9, <1>10, SetInduction
<1>12. bytes[n] = x
  BY <1>1, <1>4, <1>11 DEF set, n
<1> QED BY <1>0, <1>3, <1>12 DEF w

\* What the bytes of some elements have to do with the count.
LEMMA BytesAndCount ==
  ASSUME NEW c, Consistent(c), NEW elems
  PROVE  /\ IsSum(c.usedBytes + c.drift - Bytes(c, elems), c.list, But(Weight(c), elems))
         /\ ToSet(c.list) \subseteq elems => Bytes(c, elems) = c.usedBytes + c.drift
<1> DEFINE w == Weight(c)  list == c.list
<1>0. list \in Lists /\ w \in Weights /\ c.usedBytes \in Int /\ c.drift \in Nat
  BY Fields DEF Consistent
<1>1. Only(w, elems) \in Weights /\ But(w, elems) \in Weights
      /\ \A e \in Elems : w[e] = Only(w, elems)[e] + But(w, elems)[e]
  BY <1>0, OnlyBut
<1>2. Bytes(c, elems) \in Nat /\ IsSum(Bytes(c, elems), list, Only(w, elems))
  BY BytesSum
<1>3. IsSum(c.usedBytes + c.drift, list, w)
  BY DEF Consistent, Accounted
<1>4. \A e \in ToSet(list) : e \in Elems
  BY <1>0, InList
<1> HIDE DEF w, list
<1>5. PICK y \in Nat : IsSum(y, list, But(w, elems))
  BY <1>0, <1>1, SumExists
<1>6. \A e \in ToSet(list) : w[e] = Only(w, elems)[e] + But(w, elems)[e]
  BY <1>1, <1>4
<1>7. IsSum(Bytes(c, elems) + y, list, w)
  BY <1>0, <1>1, <1>2, <1>5, <1>6, SumOfBoth
<1>8. Bytes(c, elems) + y = c.usedBytes + c.drift
  BY <1>0, <1>3, <1>7, SumUnique
<1>9. y = c.usedBytes + c.drift - Bytes(c, elems)
  <2> DEFINE b == Bytes(c, elems)  u == c.usedBytes  d == c.drift
  <2>1. b \in Nat /\ y \in Nat /\ u \in Int /\ d \in Nat /\ b + y = u + d
    BY <1>0, <1>2, <1>5, <1>8
  <2> HIDE DEF b, u, d
  <2>2. y = u + d - b
    BY <2>1
  <2> QED BY <2>2 DEF b, u, d
<1>10. ASSUME ToSet(list) \subseteq elems PROVE Bytes(c, elems) = c.usedBytes + c.drift
  <2>1. \A e \in ToSet(list) : w[e] = Only(w, elems)[e]
    BY <1>4, <1>10 DEF Only
  <2>2. IsSum(Bytes(c, elems), list, w)
    BY <1>0, <1>2, <2>1, SumSame
  <2> QED BY <1>0, <1>3, <2>2, SumUnique
<1> QED BY <1>5, <1>9, <1>10 DEF w, list

-----------------------------------------------------------------------------
\* What an operation leaves of the elements that a Get may hold: a removed one
\* does not come back, no entry changes its key, and a key that keeps its
\* element keeps its expiry, but for those in set.
Follows(c, d, set) ==
  /\ \A e \in Elems : c.entry[e] # NoEntry =>
       /\ e \in ToSet(d.list) => e \in ToSet(c.list)
       /\ d.entry[e] # NoEntry => d.entry[e].k = c.entry[e].k
  /\ \A key \in Keys \ set :
       c.items[key] # NoElem /\ d.items[key] = c.items[key] => d.expires[key] = c.expires[key]

\* removeElement of some elements, by whatever is taken off the count.
LEMMA Removed ==
  ASSUME NEW c, Consistent(c), NEW elems, NEW d, d \in CacheType,
         d.list = Kept(c.list, elems), d.entry = c.entry,
         \A key \in Keys : /\ d.items[key] = IF c.items[key] \in elems THEN NoElem ELSE c.items[key]
                           /\ d.expires[key] = IF c.items[key] \in elems THEN 0 ELSE c.expires[key],
         d.usedBytes + d.drift = c.usedBytes + c.drift - Bytes(c, elems)
  PROVE  Consistent(d) /\ Follows(c, d, {}) /\ ToSet(d.list) = ToSet(c.list) \ elems
<1>0. c.list \in Lists /\ Weight(c) \in Weights /\ ItemsListed(c) /\ ExpiriesOfItems(c)
  BY Fields DEF Consistent
<1>1. /\ ToSet(d.list) = ToSet(c.list) \ elems
      /\ Distinct(d.list)
      /\ \A w \in Weights : \A x : IsSum(x, c.list, But(w, elems)) => IsSum(x, d.list, w)
  BY <1>0, KeptFacts DEF ItemsListed
<1>2. \A key \in Keys : d.items[key] # NoElem => d.items[key] = c.items[key] /\ c.items[key] \notin elems
  OBVIOUS
<1>3. ToSet(d.list) = {d.items[key] : key \in Keys} \ {NoElem}
  BY <1>0, <1>1 DEF ItemsListed
<1>4. ItemsListed(d)
  BY <1>0, <1>1, <1>2, <1>3 DEF ItemsListed
<1>5. ExpiriesOfItems(d)
  BY <1>0 DEF ExpiriesOfItems
<1>6. Accounted(d)
  <2>1. IsSum(c.usedBytes + c.drift - Bytes(c, elems), c.list, But(Weight(c), elems))
    BY BytesAndCount
  <2>2. Weight(d) = Weight(c)
    BY DEF Weight
  <2>3. IsSum(d.usedBytes + d.drift, d.list, Weight(c))
    BY <1>0, <1>1, <2>1
  <2> QED BY <2>2, <2>3 DEF Accounted
<1>7. Follows(c, d, {})
  BY <1>1, <1>2 DEF Follows
<1> QED BY <1>1, <1>4, <1>5, <1>6, <1>7 DEF Consistent

\* The fields of RemovedAll.
LEMMA RemovedAllIs ==
  ASSUME NEW c, c \in CacheType, NEW elems, NEW charge \in {1, 2}, Bytes(c, elems) \in Nat
  PROVE  LET d == RemovedAll(c, elems, charge)
         IN /\ d \in CacheType /\ d.list = Kept(c.list, elems) /\ d.entry = c.entry /\ d.drift = c.drift
            /\ \A key \in Keys :
                 /\ d.items[key] = IF c.items[key] \in elems THEN NoElem ELSE c.items[key]
                 /\ d.expires[key] = IF c.items[key] \in elems THEN 0 ELSE c.expires[key]
            /\ d.usedBytes = c.usedBytes - charge * Bytes(c, elems)
<1> DEFINE list == Kept(c.list, elems)
           items == [key \in Keys |-> IF c.items[key] \in elems THEN NoElem ELSE c.items[key]]
           expires == [key \in Keys |-> IF c.items[key] \in elems THEN 0 ELSE c.expires[key]]
           bytes == Bytes(c, elems)
           d == [c EXCEPT !.list = list, !.items = items, !.expires = expires,
                          !.usedBytes = @ - charge * bytes]
<1>1. d = RemovedAll(c, elems, charge)
  BY DEF RemovedAll, CacheType
<1>2. list \in Seq(Elems)
  BY Fields, KeptFacts DEF Lists
<1>3. items \in [Keys -> Elems \cup {NoElem}] /\ expires \in [Keys -> Nat]
  BY Fields
<1>4. c.usedBytes - charge * bytes \in Int
  BY Fields
<1>5. /\ \A key \in Keys : items[key] = IF c.items[key] \in elems THEN NoElem ELSE c.items[key]
      /\ \A key \in Keys : expires[key] = IF c.items[key] \in elems THEN 0 ELSE c.expires[key]
  OBVIOUS
<1> HIDE DEF list, items, expires, bytes
<1>6. d \in CacheType /\ d.list = list /\ d.entry = c.entry /\ d.drift = c.drift
      /\ d.items = items /\ d.expires = expires /\ d.usedBytes = c.usedBytes - charge * bytes
  BY <1>2, <1>3, <1>4 DEF CacheType
<1> HIDE DEF d
<1> QED BY <1>1, <1>5, <1>6 DEF list, bytes

\* removeElement, by Delete and by the cleanup.
LEMMA RemovedOnce ==
  ASSUME NEW c, Consistent(c), NEW elems
  PROVE  LET d == RemovedAll(c, elems, 1)
         IN /\ Consistent(d) /\ Follows(c, d, {}) /\ d.entry = c.entry /\ d.drift = c.drift
            /\ ToSet(d.list) = ToSet(c.list) \ elems
            /\ d.usedBytes <= c.usedBytes
<1> DEFINE d == RemovedAll(c, elems, 1)
<1>1. c \in CacheType /\ Bytes(c, elems) \in Nat /\ c.usedBytes \in Int /\ c.drift \in Nat
  BY BytesSum, Fields DEF Consistent
<1>2. /\ d \in CacheType /\ d.list = Kept(c.list, elems) /\ d.entry = c.entry /\ d.drift = c.drift
      /\ \A key \in Keys :
           /\ d.items[key] = IF c.items[key] \in elems THEN NoElem ELSE c.items[key]
           /\ d.expires[key] = IF c.items[key] \in elems THEN 0 ELSE c.expires[key]
      /\ d.usedBytes = c.usedBytes - 1 * Bytes(c, elems)
  BY <1>1, RemovedAllIs
<1> HIDE DEF d
<1>3. d.usedBytes + d.drift = c.usedBytes + c.drift - Bytes(c, elems) /\ d.usedBytes <= c.usedBytes
  BY <1>1, <1>2
<1>4. Consistent(d) /\ Follows(c, d, {}) /\ ToSet(d.list) = ToSet(c.list) \ elems
  BY <1>2, <1>3, Removed
<1> QED BY <1>2, <1>3, <1>4 DEF d

\* evict: the limit holds afterwards, and what was subtracted too often is in
\* drift.
LEMMA EvictedFacts ==
  ASSUME NEW c, Consistent(c)
  PROVE  LET d == Evicted(c)
         IN /\ Consistent(d) /\ Follows(c, d, {}) /\ d.entry = c.entry
            /\ ToSet(d.list) \subseteq ToSet(c.list)
            /\ MaxBytes > 0 => d.usedBytes <= MaxBytes
<1>0. /\ c \in CacheType /\ c.list \in Lists /\ c.usedBytes \in Int /\ c.drift \in Nat
      /\ MaxBytes \in Nat
  BY Fields, LRUAssumption DEF Consistent
<1>f. Follows(c, c, {})
  BY DEF Follows
<1> DEFINE n == Len(c.list)
           Back(i) == {c.list[j] : j \in n-i+1..n}
           Over(i) == c.usedBytes - 2 * Bytes(c, Back(i)) > MaxBytes
           enough == {i \in 1..n : (i = n \/ ~Over(i)) /\ \A j \in 1..i-1 : Over(j)}
           last == CHOOSE i \in 1..n : (i = n \/ ~Over(i)) /\ \A j \in 1..i-1 : Over(j)
           out == Back(last)
           over == MaxBytes > 0 /\ c.usedBytes > MaxBytes /\ n > 0
           d == [RemovedAll(c, out, 2) EXCEPT !.drift = @ + Bytes(c, out)]
<1>1. n \in Nat /\ ToSet(c.list) = {c.list[i] : i \in 1..n}
  BY <1>0, InList
<1>2. Evicted(c) = IF over THEN d ELSE c
  BY DEF Evicted
<1>3. CASE ~over
  <2>1. n = 0 => c.usedBytes <= 0
    <3> SUFFICES ASSUME n = 0 PROVE c.usedBytes <= 0
      OBVIOUS
    <3>1. ToSet(c.list) = {}
      BY <1>1
    <3>2. IsSum(0, c.list, Weight(c))
      BY <1>0, <3>1, SumOfNone
    <3>3. IsSum(c.usedBytes + c.drift, c.list, Weight(c))
      BY DEF Consistent, Accounted
    <3>4. c.usedBytes + c.drift = 0
      BY <1>0, <3>2, <3>3, SumUnique
    <3> QED BY <1>0, <3>4
  <2>2. MaxBytes > 0 => c.usedBytes <= MaxBytes
    BY <1>0, <1>1, <1>3, <2>1
  <2> QED BY <1>2, <1>3, <1>f, <2>2
<1>4. CASE over
  <2>1. \E i \in 1..n : (i = n \/ ~Over(i)) /\ \A j \in 1..i-1 : Over(j)
    <3> DEFINE stops == {i \in 1..n : i = n \/ ~Over(i)}
    <3>1. stops \in SUBSET Nat /\ n \in stops
      BY <1>1, <1>4
    <3>2. \A i \in 1..n : i \notin stops => Over(i)
      OBVIOUS
    <3>3. \A i \in stops : i \in 1..n /\ (i = n \/ ~Over(i))
      OBVIOUS
    <3> HIDE DEF stops, Over
    <3>4. PICK least \in stops : \A other \in stops : least <= other
      BY <3>1, Least
    <3>5. \A j \in 1..least-1 : j \in 1..n /\ ~(least <= j)
      BY <1>1, <3>1, <3>3, <3>4
    <3>6. \A j \in 1..least-1 : Over(j)
      BY <3>2, <3>4, <3>5
    <3> QED BY <3>3, <3>4, <3>6
  <2>2. last \in 1..n /\ (last = n \/ ~Over(last))
    <3> HIDE DEF Over
    <3> QED BY <2>1
  <2> HIDE DEF last
  <2>3. Bytes(c, out) \in Nat
    BY BytesSum
  <2>4. c.usedBytes - 2 * Bytes(c, out) <= MaxBytes
    <3>1. CASE ~Over(last)
      BY <1>0, <2>3, <3>1
    <3>2. CASE last = n
      <4>1. ToSet(c.list) \subseteq out
        BY <1>1, <3>2
      <4>2. Bytes(c, out) = c.usedBytes + c.drift
        BY <4>1, BytesAndCount
      <4> HIDE DEF out
      <4> QED BY <1>0, <2>3, <4>2
    <3> QED BY <2>2, <3>1, <3>2
  <2> HIDE DEF out
  <2> DEFINE r == RemovedAll(c, out, 2)
  <2>5. /\ r \in CacheType /\ r.list = Kept(c.list, out) /\ r.entry = c.entry /\ r.drift = c.drift
        /\ \A key \in Keys :
             /\ r.items[key] = IF c.items[key] \in out THEN NoElem ELSE c.items[key]
             /\ r.expires[key] = IF c.items[key] \in out THEN 0 ELSE c.expires[key]
        /\ r.usedBytes = c.usedBytes - 2 * Bytes(c, out)
    BY <1>0, <2>3, RemovedAllIs
  <2> HIDE DEF r
  <2>6. d = [r EXCEPT !.drift = @ + Bytes(c, out)]
    BY DEF r
  <2> HIDE DEF d
  <2>7. c.drift + Bytes(c, out) \in Nat
    BY <1>0, <2>3
  <2>8. /\ d \in CacheType /\ d.list = r.list /\ d.entry = r.entry /\ d.items = r.items
        /\ d.expires = r.expires /\ d.usedBytes = r.usedBytes /\ d.drift = c.drift + Bytes(c, out)
    BY <2>5, <2>6, <2>7 DEF CacheType
  <2>9. d.usedBytes + d.drift = c.usedBytes + c.drift - Bytes(c, out)
    BY <1>0, <2>3, <2>5, <2>8
  <2>10. Consistent(d) /\ Follows(c, d, {}) /\ ToSet(d.list) = ToSet(c.list) \ out
    BY <2>5, <2>8, <2>9, Removed
  <2>11. d.usedBytes <= MaxBytes
    BY <2>4, <2>5, <2>8
  <2> QED BY <1>2, <1>4, <2>5, <2>8, <2>10, <2>11
<1> QED BY <1>3, <1>4

-----------------------------------------------------------------------------
\* The entries of what nobody refers to any more are dropped.
Held(gets) == {gets[p].elem : p \in Getters}

LEMMA CollectedFacts ==
  ASSUME NEW c, Consistent(c), NEW gets
  PROVE  LET d == Collected(c, gets)
         IN /\ Consistent(d) /\ Follows(c, d, {})
            /\ d.list = c.list /\ d.items = c.items /\ d.expires = c.expires
            /\ d.usedBytes = c.usedBytes
            /\ \A e \in Elems : d.entry[e] = IF e \in ToSet(c.list) \cup Held(gets)
                                             THEN c.entry[e] ELSE NoEntry
<1> DEFINE used == ToSet(c.list) \cup Held(gets)
           entry == [e \in Elems |-> IF e \in used THEN c.entry[e] ELSE NoEntry]
           d == Collected(c, gets)
<1>1. c \in CacheType /\ ItemsListed(c) /\ ExpiriesOfItems(c) /\ c.list \in Lists
  BY Fields DEF Consistent
<1>2. d = [c EXCEPT !.entry = entry]
  BY <1>1 DEF Collected, Held, CacheType
<1> HIDE DEF d
<1>3. entry \in [Elems -> Entry \cup {NoEntry}]
  BY <1>1, Fields
<1>4. \A e \in Elems : entry[e] = IF e \in used THEN c.entry[e] ELSE NoEntry
  OBVIOUS
<1> HIDE DEF entry
<1>5. /\ d \in CacheType /\ d.list = c.list /\ d.items = c.items /\ d.expires = c.expires
      /\ d.usedBytes = c.usedBytes /\ d.drift = c.drift /\ d.entry = entry
  BY <1>1, <1>2, <1>3 DEF CacheType
<1>6. \A e \in ToSet(c.list) : e \in Elems /\ d.entry[e] = c.entry[e]
  BY <1>1, <1>4, <1>5, InList
<1>7. \A key \in Keys : c.items[key] # NoElem => c.items[key] \in ToSet(c.list)
  BY <1>1 DEF ItemsListed
<1>8. ItemsListed(d) /\ ExpiriesOfItems(d)
  BY <1>1, <1>5, <1>6, <1>7 DEF ItemsListed, ExpiriesOfItems
<1>9. Accounted(d)
  <2>1. \A e \in ToSet(c.list) : Weight(d)[e] = Weight(c)[e]
    BY <1>6 DEF Weight
  <2>2. IsSum(c.usedBytes + c.drift, c.list, Weight(c))
    BY DEF Consistent, Accounted
  <2>3. IsSum(c.usedBytes + c.drift, c.list, Weight(d))
    BY <1>1, <2>1, <2>2, SumSame
  <2> QED BY <1>5, <2>3 DEF Accounted
<1>10. Follows(c, d, {})
  BY <1>4, <1>5 DEF Follows
<1> QED BY <1>4, <1>5, <1>8, <1>9, <1>10 DEF Consistent, d

\* An element of the list in front of the others, whatever it weighs from now on.
LEMMA InFront ==
  ASSUME NEW c, Consistent(c), NEW e \in ToSet(c.list), NEW v \in Weights,
         \A x \in Elems \ {e} : v[x] = Weight(c)[x]
  PROVE  LET list == <<e>> \o Kept(c.list, {e})
         IN /\ list \in Lists /\ Distinct(list) /\ ToSet(list) = ToSet(c.list)
            /\ IsSum(c.usedBytes + c.drift - Weight(c)[e] + v[e], list, v)
<1> DEFINE w == Weight(c)  rest == Kept(c.list, {e})
<1>1. /\ c.list \in Lists /\ Distinct(c.list) /\ w \in Weights /\ e \in Elems
      /\ c.usedBytes \in Int /\ c.drift \in Nat
  BY Fields, InList DEF Consistent, ItemsListed
<1>2. /\ rest \in Lists /\ Distinct(rest) /\ ToSet(rest) = ToSet(c.list) \ {e}
      /\ \A x : IsSum(x, c.list, But(w, {e})) => IsSum(x, rest, w)
  BY <1>1, KeptFacts
<1>3. IsSum(c.usedBytes + c.drift, c.list, w)
  BY DEF Consistent, Accounted
<1>4. IsSum(w[e], c.list, Only(w, {e}))
  BY <1>1, SumOfOne
<1> HIDE DEF w, rest
<1>5. /\ Only(w, {e}) \in Weights /\ But(w, {e}) \in Weights
      /\ \A x \in Elems : w[x] = Only(w, {e})[x] + But(w, {e})[x]
  BY <1>1, OnlyBut
<1>6. PICK y \in Nat : IsSum(y, c.list, But(w, {e}))
  BY <1>1, <1>5, SumExists
<1>7. \A x \in ToSet(c.list) : w[x] = Only(w, {e})[x] + But(w, {e})[x]
  BY <1>1, <1>5, InList
<1>8. IsSum(w[e] + y, c.list, w)
  BY <1>1, <1>4, <1>5, <1>6, <1>7, SumOfBoth
<1>9. w[e] + y = c.usedBytes + c.drift
  BY <1>1, <1>3, <1>8, SumUnique
<1>10. IsSum(y, rest, v)
  <2>1. \A x \in ToSet(rest) : v[x] = w[x]
    BY <1>1, <1>2, InList DEF w
  <2> QED BY <1>2, <1>6, <2>1, SumSame
<1>11. IsSum(v[e] + y, <<e>> \o rest, v)
  BY <1>1, <1>2, <1>10, SumOfCons
<1>12. v[e] + y = c.usedBytes + c.drift - w[e] + v[e]
  <2>1. \A a, b, d, z \in Nat, u \in Int : a + z = u + d => b + z = u + d - a + b
    OBVIOUS
  <2>2. v[e] \in Nat /\ w[e] \in Nat
    BY <1>1 DEF Weights
  <2> QED BY <1>1, <1>6, <1>9, <2>1, <2>2
<1>13. /\ <<e>> \o rest \in Lists /\ Distinct(<<e>> \o rest)
       /\ ToSet(<<e>> \o rest) = ToSet(c.list)
  <2>1. ToSet(<<e>> \o rest) = ToSet(rest) \cup {e}
    BY <1>1, <1>2, ConsList
  <2>2. e \notin ToSet(rest)
    BY <1>2
  <2>3. <<e>> \o rest \in Lists /\ Distinct(<<e>> \o rest)
    BY <1>1, <1>2, <2>2, ConsList
  <2> QED BY <1>2, <2>1, <2>3
<1> QED BY <1>11, <1>12, <1>13 DEF w, rest

\* MoveToFront.
LEMMA MovedToFrontFacts ==
  ASSUME NEW c, Consistent(c), NEW e \in ToSet(c.list)
  PROVE  LET d == MovedToFront(c, e)
         IN /\ Consistent(d) /\ Follows(c, d, {}) /\ ToSet(d.list) = ToSet(c.list)
            /\ d.items = c.items /\ d.expires = c.expires /\ d.entry = c.entry
            /\ d.usedBytes = c.usedBytes
<1> DEFINE w == Weight(c)  list == <<e>> \o Kept(c.list, {e})  d == MovedToFront(c, e)
<1>1. /\ c \in CacheType /\ ItemsListed(c) /\ ExpiriesOfItems(c) /\ w \in Weights
      /\ c.usedBytes \in Int /\ c.drift \in Nat /\ e \in Elems
  BY Fields, InList DEF Consistent
<1>2. /\ list \in Lists /\ Distinct(list) /\ ToSet(list) = ToSet(c.list)
      /\ IsSum(c.usedBytes + c.drift - w[e] + w[e], list, w)
  BY <1>1, InFront
<1>3. c.usedBytes + c.drift - w[e] + w[e] = c.usedBytes + c.drift
  <2>1. w[e] \in Nat
    BY <1>1 DEF Weights
  <2>2. \A a, b \in Nat, u \in Int : u + b - a + a = u + b
    OBVIOUS
  <2> QED BY <1>1, <2>1, <2>2
<1>4. d = [c EXCEPT !.list = list]
  BY <1>1 DEF MovedToFront, CacheType
<1> HIDE DEF d, list
<1>5. /\ d \in CacheType /\ d.list = list /\ d.items = c.items /\ d.expires = c.expires
      /\ d.usedBytes = c.usedBytes /\ d.drift = c.drift /\ d.entry = c.entry
  BY <1>1, <1>2, <1>4 DEF CacheType, Lists
<1>6. ItemsListed(d) /\ ExpiriesOfItems(d)
  BY <1>1, <1>2, <1>5 DEF ItemsListed, ExpiriesOfItems
<1>7. Accounted(d)
  BY <1>2, <1>3, <1>5 DEF Accounted, Weight
<1>8. Follows(c, d, {})
  BY <1>2, <1>5 DEF Follows
<1> QED BY <1>2, <1>5, <1>6, <1>7, <1>8 DEF Consistent, d

\* There is an element to make, by counting: fewer are listed than there are
\* keys when one is not held, and no more are held than there are Gets.
LEMMA OneIsFree ==
  ASSUME NEW c, Consistent(c), NEW gets,
         \A e \in Elems : c.entry[e] # NoEntry => e \in ToSet(c.list) \cup Held(gets),
         NEW key \in Keys, c.items[key] = NoElem
  PROVE  \E x \in Elems : c.entry[x] = NoEntry
<1> DEFINE items == {c.items[k] : k \in Keys}  held == Held(gets)
<1>1. ToSet(c.list) = items \ {NoElem} /\ NoElem \in items
  BY DEF Consistent, ItemsListed
<1>2. /\ IsFiniteSet(Keys) /\ IsFiniteSet(Elems) /\ IsFiniteSet(Getters) /\ NoElem \notin Elems
      /\ Cardinality(Elems) >= Cardinality(Keys) + Cardinality(Getters)
  BY LRUAssumption, ElemsAssumption
<1>3. IsFiniteSet(items) /\ Cardinality(items) <= Cardinality(Keys)
  <2> DEFINE f == [k \in Keys |-> c.items[k]]
  <2>1. f \in Surjection(Keys, items)
    BY DEF Surjection
  <2> HIDE DEF f, items
  <2> QED BY <1>2, <2>1, FS_Surjection
<1>4. IsFiniteSet(held) /\ Cardinality(held) <= Cardinality(Getters)
  <2> DEFINE f == [p \in Getters |-> gets[p].elem]
  <2>1. f \in Surjection(Getters, held)
    BY DEF Surjection, Held
  <2> HIDE DEF f, held
  <2> QED BY <1>2, <2>1, FS_Surjection
<1> HIDE DEF items, held
<1>5. SUFFICES ASSUME \A x \in Elems : c.entry[x] # NoEntry PROVE FALSE
  OBVIOUS
<1>6. Elems \cup {NoElem} \in SUBSET (items \cup held)
  BY <1>1, <1>5 DEF held
<1>7. IsFiniteSet(items \cup held)
      /\ Cardinality(items \cup held) = Cardinality(items) + Cardinality(held) - Cardinality(items \cap held)
  BY <1>3, <1>4, FS_Union
<1>8. Cardinality(Elems \cup {NoElem}) <= Cardinality(items \cup held)
  BY <1>6, <1>7, FS_Subset
<1>9. Cardinality(Elems \cup {NoElem}) = Cardinality(Elems) + 1
  BY <1>2, FS_AddElement
<1>10. items \cap held \in SUBSET items
  OBVIOUS
<1>11. IsFiniteSet(items \cap held)
  BY <1>3, <1>10, FS_Subset
<1>12. /\ Cardinality(Elems) \in Nat /\ Cardinality(Keys) \in Nat /\ Cardinality(Getters) \in Nat
       /\ Cardinality(items) \in Nat /\ Cardinality(held) \in Nat
       /\ Cardinality(items \cap held) \in Nat
  BY <1>2, <1>3, <1>4, <1>11, FS_CardinalityType
<1> QED BY <1>2, <1>3, <1>4, <1>7, <1>8, <1>9, <1>12

\* Set and SetWithExpiration, before evict: of a key that is held, and of one
\* that is not.
LEMMA PutHeld ==
  ASSUME NEW c, Consistent(c), NEW key \in Keys, NEW val \in Values, NEW t \in Nat,
         c.items[key] # NoElem
  PROVE  LET d == Put([c EXCEPT !.expires[key] = t], key, val)
         IN /\ Consistent(d) /\ Follows(c, d, {key}) /\ ToSet(d.list) = ToSet(c.list)
            /\ d.items = c.items /\ d.expires = [c.expires EXCEPT ![key] = t]
            /\ \A x \in Elems : c.entry[x] = NoEntry <=> d.entry[x] = NoEntry
<1> DEFINE timed == [c EXCEPT !.expires[key] = t]
           d == Put(timed, key, val)
           e == c.items[key]
           w == Weight(c)
           list == <<e>> \o Kept(c.list, {e})
           expires == [c.expires EXCEPT ![key] = t]
           entry == [c.entry EXCEPT ![e].v = val]
           v == [w EXCEPT ![e] = Size[val]]
<1>1. /\ c \in CacheType /\ ItemsListed(c) /\ ExpiriesOfItems(c) /\ w \in Weights
      /\ c.usedBytes \in Int /\ c.drift \in Nat
      /\ c.expires \in [Keys -> Nat] /\ c.entry \in [Elems -> Entry \cup {NoEntry}]
  BY Fields DEF Consistent
<1>2. e \in ToSet(c.list)
  BY <1>1 DEF ItemsListed
<1>3. /\ c.entry[e] # NoEntry /\ c.entry[e] \in Entry /\ e \in Elems /\ c.entry[e].k = key
  BY <1>1, <1>2, Listed
<1>4. w[e] = Size[c.entry[e].v] /\ w[e] \in Nat /\ Size[val] \in Nat
  BY <1>1, <1>3, LRUAssumption DEF Weight, Weights
<1>5. timed \in CacheType /\ timed.items = c.items /\ timed.list = c.list
      /\ timed.entry = c.entry /\ timed.usedBytes = c.usedBytes /\ timed.drift = c.drift
      /\ timed.expires = expires
  <2>1. expires \in [Keys -> Nat]
    BY <1>1
  <2>2. timed = [c EXCEPT !.expires = expires]
    BY <1>1 DEF CacheType
  <2> HIDE DEF expires, timed
  <2> QED BY <1>1, <2>1, <2>2 DEF CacheType
<1> HIDE DEF timed
<1>6. d = [timed EXCEPT !.list = list, !.entry = entry,
                        !.usedBytes = c.usedBytes + Size[val] - Size[c.entry[e].v]]
  BY <1>5 DEF Put, MovedToFront, CacheType
<1>7. /\ entry \in [Elems -> Entry \cup {NoEntry}]
      /\ \A x \in Elems \ {e} : entry[x] = c.entry[x]
      /\ entry[e].k = key /\ entry[e].v = val /\ entry[e] \in Entry
  BY <1>1, <1>3 DEF Entry
<1>8. entry[e] # NoEntry
  BY <1>7, LRUAssumption DEF Entry
<1>9. v \in Weights /\ v[e] = Size[val] /\ \A x \in Elems \ {e} : v[x] = w[x]
  BY <1>1, <1>3, <1>4 DEF Weights
<1> HIDE DEF v, w
<1>10. /\ list \in Lists /\ Distinct(list) /\ ToSet(list) = ToSet(c.list)
       /\ IsSum(c.usedBytes + c.drift - w[e] + v[e], list, v)
  BY <1>2, <1>9, InFront DEF w
<1> HIDE DEF d, list, entry, expires
<1>11. /\ d \in CacheType /\ d.list = list /\ d.items = c.items /\ d.expires = expires
       /\ d.usedBytes = c.usedBytes + Size[val] - Size[c.entry[e].v] /\ d.drift = c.drift
       /\ d.entry = entry
  <2>1. c.usedBytes + Size[val] - Size[c.entry[e].v] \in Int
    BY <1>1, <1>4
  <2> QED BY <1>5, <1>6, <1>7, <1>10, <2>1 DEF CacheType, Lists
<1>12. ItemsListed(d)
  <2>1. \A k \in Keys : c.items[k] # NoElem => /\ c.entry[c.items[k]] # NoEntry
                                               /\ c.entry[c.items[k]].k = k
                                               /\ c.items[k] \in Elems
    BY <1>1, Fields DEF ItemsListed
  <2>2. ASSUME NEW k \in Keys, c.items[k] # NoElem
        PROVE  entry[c.items[k]] # NoEntry /\ entry[c.items[k]].k = k
    <3>1. CASE c.items[k] = e
      BY <1>3, <1>7, <1>8, <2>1, <2>2, <3>1
    <3>2. CASE c.items[k] # e
      BY <1>7, <2>1, <2>2, <3>2
    <3> QED BY <3>1, <3>2
  <2> QED BY <1>1, <1>10, <1>11, <2>2 DEF ItemsListed
<1>13. ExpiriesOfItems(d)
  BY <1>1, <1>11 DEF ExpiriesOfItems, expires
<1>14. Weight(d) = v
  <2>1. ASSUME NEW x \in Elems PROVE Weight(d)[x] = v[x]
    BY <1>7, <1>8, <1>9, <1>11 DEF Weight, w
  <2>2. Weight(d) = [x \in Elems |-> Weight(d)[x]] /\ v = [x \in Elems |-> v[x]]
    BY <1>9 DEF Weight, Weights
  <2> QED BY <2>1, <2>2
<1>15. Accounted(d)
  <2>1. \A a, b, q \in Nat, u \in Int : u + q - a + b = (u + b - a) + q
    OBVIOUS
  <2>2. d.usedBytes + d.drift = c.usedBytes + c.drift - w[e] + v[e]
    BY <1>1, <1>4, <1>9, <1>11, <2>1
  <2> QED BY <1>10, <1>11, <1>14, <2>2 DEF Accounted
<1>16. Follows(c, d, {key})
  BY <1>1, <1>3, <1>7, <1>10, <1>11 DEF Follows, expires
<1>17. \A x \in Elems : c.entry[x] = NoEntry <=> d.entry[x] = NoEntry
  BY <1>3, <1>7, <1>8, <1>11
<1> QED BY <1>10, <1>11, <1>12, <1>13, <1>15, <1>16, <1>17 DEF Consistent, d, timed, expires

LEMMA PutNew ==
  ASSUME NEW c, Consistent(c), NEW key \in Keys, NEW val \in Values, NEW t \in Nat,
         c.items[key] = NoElem, \E x \in Elems : c.entry[x] = NoEntry
  PROVE  LET d == Put([c EXCEPT !.expires[key] = t], key, val)
         IN /\ Consistent(d) /\ Follows(c, d, {key}) /\ ToSet(c.list) \subseteq ToSet(d.list)
            /\ d.expires = [c.expires EXCEPT ![key] = t]
            /\ \A x \in Elems : /\ c.entry[x] # NoEntry => d.entry[x] # NoEntry
                                /\ d.entry[x] # NoEntry => c.entry[x] # NoEntry \/ x \in ToSet(d.list)
<1> DEFINE timed == [c EXCEPT !.expires[key] = t]
           d == Put(timed, key, val)
           e == CHOOSE x \in Elems : c.entry[x] = NoEntry
           w == Weight(c)
           list == <<e>> \o c.list
           expires == [c.expires EXCEPT ![key] = t]
           items == [c.items EXCEPT ![key] = e]
           entry == [c.entry EXCEPT ![e] = [k |-> key, v |-> val]]
           v == [w EXCEPT ![e] = Size[val]]
<1>1. /\ c \in CacheType /\ ItemsListed(c) /\ ExpiriesOfItems(c) /\ w \in Weights
      /\ c.usedBytes \in Int /\ c.drift \in Nat /\ c.list \in Lists
      /\ c.items \in [Keys -> Elems \cup {NoElem}]
      /\ c.expires \in [Keys -> Nat] /\ c.entry \in [Elems -> Entry \cup {NoEntry}]
  BY Fields DEF Consistent
<1>2. e \in Elems /\ c.entry[e] = NoEntry
  OBVIOUS
<1>3. e \notin ToSet(c.list) /\ e # NoElem
  BY <1>1, <1>2, Listed, ElemsAssumption
<1>4. Size[val] \in Nat
  BY LRUAssumption
<1>5. timed \in CacheType /\ timed.items = c.items /\ timed.list = c.list
      /\ timed.entry = c.entry /\ timed.usedBytes = c.usedBytes /\ timed.drift = c.drift
      /\ timed.expires = expires
  <2>1. expires \in [Keys -> Nat]
    BY <1>1
  <2>2. timed = [c EXCEPT !.expires = expires]
    BY <1>1 DEF CacheType
  <2> HIDE DEF expires, timed
  <2> QED BY <1>1, <2>1, <2>2 DEF CacheType
<1> HIDE DEF timed
<1>6. d = [timed EXCEPT !.list = list, !.entry = entry, !.items = items,
                        !.usedBytes = c.usedBytes + Size[val]]
  <2>1. (CHOOSE x \in Elems : timed.entry[x] = NoEntry) = e
    BY <1>5
  <2>2. Put(timed, key, val) =
          [timed EXCEPT !.list = <<e>> \o @, !.entry[e] = [k |-> key, v |-> val],
                        !.items[key] = e, !.usedBytes = @ + Size[val]]
    BY <1>5, <2>1 DEF Put
  <2> HIDE DEF e
  <2> QED BY <1>5, <2>2 DEF CacheType
<1> HIDE DEF e
<1>7. /\ entry \in [Elems -> Entry \cup {NoEntry}]
      /\ \A x \in Elems \ {e} : entry[x] = c.entry[x]
      /\ entry[e] = [k |-> key, v |-> val] /\ entry[e].k = key /\ entry[e].v = val
      /\ entry[e] \in Entry
  BY <1>1, <1>2 DEF Entry
<1>8. entry[e] # NoEntry
  BY <1>7, LRUAssumption DEF Entry
<1>9. v \in Weights /\ v[e] = Size[val] /\ \A x \in Elems \ {e} : v[x] = w[x]
  BY <1>1, <1>2, <1>4 DEF Weights
<1>i. /\ items \in [Keys -> Elems \cup {NoElem}] /\ items[key] = e
      /\ \A k \in Keys \ {key} : items[k] = c.items[k]
  BY <1>1, <1>2
<1> HIDE DEF v, w
<1>l. /\ list \in Lists /\ Distinct(list) /\ ToSet(list) = ToSet(c.list) \cup {e}
  BY <1>1, <1>2, <1>3, ConsList DEF ItemsListed
<1>10. IsSum(v[e] + (c.usedBytes + c.drift), list, v)
  <2>1. IsSum(c.usedBytes + c.drift, c.list, w)
    BY DEF Consistent, Accounted, w
  <2>2. \A x \in ToSet(c.list) : v[x] = w[x]
    BY <1>1, <1>3, <1>9, InList
  <2>3. IsSum(c.usedBytes + c.drift, c.list, v)
    BY <1>1, <2>1, <2>2, SumSame
  <2> QED BY <1>1, <1>2, <1>9, <2>3, SumOfCons
<1> HIDE DEF d, list, entry, expires, items
<1>11. /\ d \in CacheType /\ d.list = list /\ d.items = items /\ d.expires = expires
       /\ d.usedBytes = c.usedBytes + Size[val] /\ d.drift = c.drift /\ d.entry = entry
  <2>1. c.usedBytes + Size[val] \in Int
    BY <1>1, <1>4
  <2> QED BY <1>5, <1>6, <1>7, <1>i, <1>l, <2>1 DEF CacheType, Lists
<1>12. ItemsListed(d)
  <2>1. \A k \in Keys : c.items[k] # NoElem => /\ c.entry[c.items[k]] # NoEntry
                                               /\ c.entry[c.items[k]].k = k
                                               /\ c.items[k] \in Elems
    BY <1>1 DEF ItemsListed
  <2>2. ASSUME NEW k \in Keys, items[k] # NoElem
        PROVE  entry[items[k]] # NoEntry /\ entry[items[k]].k = k
    <3>1. CASE k = key
      BY <1>7, <1>8, <1>i, <3>1
    <3>2. CASE k # key
      <4>1. items[k] = c.items[k] /\ c.entry[c.items[k]] # NoEntry /\ c.items[k] # e
        BY <1>2, <1>i, <2>1, <2>2, <3>2
      <4> QED BY <1>7, <2>1, <2>2, <4>1
    <3> QED BY <3>1, <3>2
  <2>3. {items[k] : k \in Keys} \ {NoElem} = ({c.items[k] : k \in Keys} \ {NoElem}) \cup {e}
    <3>1. \A k \in Keys : items[k] = IF k = key THEN e ELSE c.items[k]
      BY <1>i
    <3> QED BY <1>3, <3>1
  <2>4. ToSet(list) = {items[k] : k \in Keys} \ {NoElem}
    BY <1>1, <1>l, <2>3 DEF ItemsListed
  <2> QED BY <1>l, <1>11, <2>2, <2>4 DEF ItemsListed
<1>13. ExpiriesOfItems(d)
  BY <1>1, <1>3, <1>i, <1>11 DEF ExpiriesOfItems, expires
<1>14. Weight(d) = v
  <2>1. ASSUME NEW x \in Elems PROVE Weight(d)[x] = v[x]
    BY <1>7, <1>8, <1>9, <1>11 DEF Weight, w
  <2>2. Weight(d) = [x \in Elems |-> Weight(d)[x]] /\ v = [x \in Elems |-> v[x]]
    BY <1>9 DEF Weight, Weights
  <2> QED BY <2>1, <2>2
<1>15. Accounted(d)
  <2>1. \A b, q \in Nat, u \in Int : b + (u + q) = (u + b) + q
    OBVIOUS
  <2>2. d.usedBytes + d.drift = v[e] + (c.usedBytes + c.drift)
    BY <1>1, <1>4, <1>9, <1>11, <2>1
  <2> QED BY <1>10, <1>11, <1>14, <2>2 DEF Accounted
<1>16. Follows(c, d, {key})
  BY <1>1, <1>2, <1>7, <1>l, <1>11 DEF Follows, expires
<1>17. \A x \in Elems : /\ c.entry[x] # NoEntry => d.entry[x] # NoEntry
                        /\ d.entry[x] # NoEntry => c.entry[x] # NoEntry \/ x \in ToSet(d.list)
  BY <1>2, <1>7, <1>8, <1>l, <1>11
<1> QED BY <1>l, <1>11, <1>12, <1>13, <1>15, <1>16, <1>17 DEF Consistent, d, timed, expires

-----------------------------------------------------------------------------
(* The invariant: the cache is consistent and below the limit, an entry is    *)
(* listed or held by a Get, and a Get is right about its element: the entry   *)
(* is that of its key, and when it had expired the element is out of the list *)
(* or, as long as the expiry is still to be read, the key is still due.       *)
GetType == [at : {"out", "check", "drop", "touch", "read"}, key : Keys \cup {NoKey},
            elem : Elems \cup {NoElem}, late : BOOLEAN]

Due(c, key, time) == c.expires[key] # 0 /\ time > c.expires[key]

GetOK(c, g, time) ==
  /\ g.at = "out" => g.elem = NoElem
  /\ g.at # "out" => /\ g.key \in Keys /\ g.elem \in Elems
                     /\ c.entry[g.elem] # NoEntry /\ c.entry[g.elem].k = g.key
  /\ g.at = "check" /\ g.late => g.elem \notin ToSet(c.list) \/ Due(c, g.key, time)
  /\ g.at \in {"touch", "read"} /\ g.late => g.elem \notin ToSet(c.list)

Good(c, gets, time) ==
  /\ Consistent(c)
  /\ MaxBytes > 0 => c.usedBytes <= MaxBytes
  /\ gets \in [Getters -> GetType]
  /\ \A p \in Getters : GetOK(c, gets[p], time)
  /\ \A e \in Elems : c.entry[e] # NoEntry => e \in ToSet(c.list) \cup Held(gets)

Inv ==
  /\ clock \in 1..MaxClock /\ ticking \in BOOLEAN
  /\ Good(cache, get, clock)

\* One operation after another, when the first drops no entry.
LEMMA FollowsTwice ==
  ASSUME NEW a, Consistent(a), NEW b, Consistent(b), NEW c, Consistent(c), NEW set,
         Follows(a, b, set), Follows(b, c, {}),
         \A e \in Elems : a.entry[e] # NoEntry => b.entry[e] # NoEntry
  PROVE  Follows(a, c, set)
<1>1. ASSUME NEW e \in Elems, a.entry[e] # NoEntry
      PROVE  /\ e \in ToSet(c.list) => e \in ToSet(a.list)
             /\ c.entry[e] # NoEntry => c.entry[e].k = a.entry[e].k
  BY <1>1 DEF Follows
<1>2. ASSUME NEW key \in Keys \ set, a.items[key] # NoElem, c.items[key] = a.items[key]
      PROVE  c.expires[key] = a.expires[key]
  <2> DEFINE e == a.items[key]
  <2>1. /\ e \in ToSet(a.list) /\ e \in ToSet(c.list)
        /\ a.entry[e] # NoEntry /\ a.entry[e].k = key
    BY <1>2 DEF Consistent, ItemsListed
  <2>2. e \in Elems
    BY <2>1, Listed DEF Consistent
  <2>3. b.entry[e] # NoEntry /\ e \in ToSet(b.list) /\ b.entry[e].k = key
    BY <2>1, <2>2 DEF Follows
  <2>4. b.items[key] = e
    BY <2>3, Listed DEF Consistent
  <2> QED BY <1>2, <2>4 DEF Follows
<1> QED BY <1>1, <1>2 DEF Follows

\* A Get that an operation does not touch stays right.
LEMMA StillOK ==
  ASSUME NEW c, Consistent(c), NEW d, Consistent(d), NEW set, Follows(c, d, set),
         NEW g, NEW time, GetOK(c, g, time),
         g.at # "out" => d.entry[g.elem] # NoEntry,
         g.at # "out" /\ g.late /\ g.elem \in ToSet(c.list) => g.key \notin set
  PROVE  GetOK(d, g, time)
<1>1. g.at # "out" => /\ g.key \in Keys /\ g.elem \in Elems
                      /\ c.entry[g.elem] # NoEntry /\ c.entry[g.elem].k = g.key
  BY DEF GetOK
<1>2. g.at # "out" => d.entry[g.elem] # NoEntry /\ d.entry[g.elem].k = g.key
  BY <1>1 DEF Follows
<1>3. ASSUME g.at = "check", g.late, g.elem \in ToSet(d.list) PROVE Due(d, g.key, time)
  <2>0. g.at # "out"
    BY <1>3
  <2>1. g.elem \in ToSet(c.list)
    BY <1>1, <1>3, <2>0 DEF Follows
  <2>2. Due(c, g.key, time) /\ g.key \notin set
    BY <1>3, <2>0, <2>1 DEF GetOK
  <2>3. c.items[g.key] = g.elem
    BY <1>1, <2>0, <2>1, Listed DEF Consistent
  <2>4. d.items[g.key] = g.elem
    BY <1>2, <1>3, <2>0, Listed DEF Consistent
  <2>5. g.elem # NoElem
    BY <1>1, <2>0, ElemsAssumption
  <2>6. d.expires[g.key] = c.expires[g.key]
    BY <1>1, <2>0, <2>2, <2>3, <2>4, <2>5 DEF Follows
  <2> QED BY <2>2, <2>6 DEF Due
<1>4. ASSUME g.at \in {"touch", "read"}, g.late PROVE g.elem \notin ToSet(d.list)
  <2>1. g.at # "out" /\ g.elem \notin ToSet(c.list)
    BY <1>4 DEF GetOK
  <2> QED BY <1>1, <2>1 DEF Follows
<1> QED BY <1>1, <1>2, <1>3, <1>4 DEF GetOK

\* The end of every operation that may leave garbage.
LEMMA Concluded ==
  ASSUME NEW c, NEW gets, NEW time, Good(c, gets, time),
         NEW m, Consistent(m), NEW set, Follows(c, m, set),
         \A e \in Elems : c.entry[e] # NoEntry => m.entry[e] # NoEntry,
         MaxBytes > 0 => m.usedBytes <= MaxBytes,
         NEW next, next \in [Getters -> GetType],
         \A p \in Getters : next[p].at = "out" => next[p].elem = NoElem,
         \A p \in Getters :
           next[p].at # "out" =>
             /\ next[p].at = gets[p].at /\ next[p].key = gets[p].key /\ next[p].elem = gets[p].elem
             /\ next[p].late => /\ gets[p].late
                                /\ gets[p].elem \in ToSet(c.list) => gets[p].key \notin set
  PROVE  Good(Collected(m, next), next, time)
<1> DEFINE d == Collected(m, next)
<1>1. /\ Consistent(d) /\ Follows(m, d, {}) /\ d.list = m.list /\ d.usedBytes = m.usedBytes
      /\ \A e \in Elems : d.entry[e] = IF e \in ToSet(m.list) \cup Held(next)
                                       THEN m.entry[e] ELSE NoEntry
  BY CollectedFacts
<1> HIDE DEF d
<1>2. Consistent(c)
  BY DEF Good
<1>3. Follows(c, d, set)
  BY <1>1, <1>2, FollowsTwice
<1>4. ASSUME NEW p \in Getters PROVE GetOK(d, next[p], time)
  <2>1. CASE next[p].at = "out"
    BY <2>1 DEF GetOK
  <2>2. CASE next[p].at # "out"
    <3>1. /\ next[p].at = gets[p].at /\ next[p].key = gets[p].key /\ next[p].elem = gets[p].elem
          /\ next[p].late => /\ gets[p].late
                             /\ gets[p].elem \in ToSet(c.list) => gets[p].key \notin set
      BY <2>2
    <3>2. GetOK(c, gets[p], time)
      BY DEF Good
    <3>3. GetOK(c, next[p], time)
      BY <3>1, <3>2 DEF GetOK
    <3>4. next[p].elem \in Elems /\ c.entry[next[p].elem] # NoEntry /\ next[p].elem \in Held(next)
      BY <2>2, <3>3 DEF GetOK, Held
    <3>5. d.entry[next[p].elem] # NoEntry
      BY <1>1, <3>4
    <3> QED BY <1>1, <1>2, <1>3, <3>1, <3>3, <3>5, StillOK
  <2> QED BY <2>1, <2>2
<1>5. \A e \in Elems : d.entry[e] # NoEntry => e \in ToSet(d.list) \cup Held(next)
  BY <1>1
<1> QED BY <1>1, <1>4, <1>5 DEF Good, d

\* Set and SetWithExpiration, up to and including evict.
LEMMA SetFacts ==
  ASSUME NEW c, NEW gets, NEW time, Good(c, gets, time),
         NEW key \in Keys, NEW val \in Values, NEW t \in Nat
  PROVE  LET d == Evicted(Put([c EXCEPT !.expires[key] = t], key, val))
         IN /\ Consistent(d) /\ Follows(c, d, {key})
            /\ t = c.expires[key] => Follows(c, d, {})
            /\ \A e \in Elems : c.entry[e] # NoEntry => d.entry[e] # NoEntry
            /\ MaxBytes > 0 => d.usedBytes <= MaxBytes
<1> DEFINE b == Put([c EXCEPT !.expires[key] = t], key, val)  d == Evicted(b)
<1>1. Consistent(c) /\ \A e \in Elems : c.entry[e] # NoEntry => e \in ToSet(c.list) \cup Held(gets)
  BY DEF Good
<1>2. /\ Consistent(b) /\ Follows(c, b, {key}) /\ b.expires = [c.expires EXCEPT ![key] = t]
      /\ \A e \in Elems : c.entry[e] # NoEntry => b.entry[e] # NoEntry
  <2>1. CASE c.items[key] # NoElem
    <3> HIDE DEF b
    <3>1. /\ Consistent(b) /\ Follows(c, b, {key}) /\ b.expires = [c.expires EXCEPT ![key] = t]
          /\ \A x \in Elems : c.entry[x] = NoEntry <=> b.entry[x] = NoEntry
      BY <1>1, <2>1, PutHeld DEF b
    <3> QED BY <3>1
  <2>2. CASE c.items[key] = NoElem
    <3> HIDE DEF b
    <3>1. \E x \in Elems : c.entry[x] = NoEntry
      BY <1>1, <2>2, OneIsFree
    <3>2. /\ Consistent(b) /\ Follows(c, b, {key}) /\ b.expires = [c.expires EXCEPT ![key] = t]
          /\ \A x \in Elems : c.entry[x] # NoEntry => b.entry[x] # NoEntry
      BY <1>1, <2>2, <3>1, PutNew DEF b
    <3> QED BY <3>2
  <2> QED BY <2>1, <2>2
<1> HIDE DEF b
<1>3. Consistent(d) /\ Follows(b, d, {}) /\ d.entry = b.entry /\ (MaxBytes > 0 => d.usedBytes <= MaxBytes)
  BY <1>2, EvictedFacts
<1> HIDE DEF d
<1>4. Follows(c, d, {key})
  BY <1>1, <1>2, <1>3, FollowsTwice
<1>5. ASSUME t = c.expires[key] PROVE Follows(c, d, {})
  <2>1. c.expires \in [Keys -> Nat]
    BY <1>1, Fields DEF Consistent
  <2>2. b.expires = c.expires
    BY <1>2, <1>5, <2>1
  <2>3. Follows(c, b, {})
    BY <1>2, <2>2 DEF Follows
  <2> QED BY <1>1, <1>2, <1>3, <2>3, FollowsTwice
<1> QED BY <1>2, <1>3, <1>4, <1>5 DEF b, d

-----------------------------------------------------------------------------
\* The invariant holds of every step.
LEMMA InitInv == Init => Inv
<1> SUFFICES ASSUME Init PROVE Inv
  OBVIOUS
<1>1. cache = Empty /\ clock = 1 /\ ticking = TRUE /\ get = [p \in Getters |-> NoGet]
  BY DEF Init
<1>2. clock \in 1..MaxClock
  BY <1>1, LRUAssumption
<1>3. /\ Empty.list = <<>> /\ Empty.items = [key \in Keys |-> NoElem]
      /\ Empty.expires = [key \in Keys |-> 0] /\ Empty.usedBytes = 0 /\ Empty.drift = 0
      /\ Empty.entry = [e \in Elems |-> NoEntry]
  BY DEF Empty
<1>4. Empty \in CacheType /\ <<>> \in Lists /\ Len(<<>>) = 0
  BY DEF Empty, CacheType, Lists
<1>5. ToSet(<<>>) = {}
  BY DEF ToSet
<1>6. ItemsListed(Empty) /\ ExpiriesOfItems(Empty)
  BY <1>3, <1>4, <1>5 DEF ItemsListed, ExpiriesOfItems, Distinct
<1>7. Accounted(Empty)
  <2>1. IsSum(0, <<>>, Weight(Empty))
    BY <1>4, <1>5, SumOfNone
  <2> QED BY <1>3, <2>1 DEF Accounted
<1>8. get \in [Getters -> GetType] /\ \A p \in Getters : GetOK(cache, get[p], clock)
  BY <1>1 DEF NoGet, GetType, GetOK
<1>9. MaxBytes > 0 => Empty.usedBytes <= MaxBytes
  BY <1>3, LRUAssumption
<1>10. \A e \in Elems : Empty.entry[e] = NoEntry
  BY <1>3
<1> QED BY <1>1, <1>2, <1>4, <1>6, <1>7, <1>8, <1>9, <1>10 DEF Inv, Good, Consistent

\* What a Get may do to the record of itself.
LEMMA GetStep ==
  ASSUME NEW gets \in [Getters -> GetType], NEW p \in Getters, NEW g \in GetType
  PROVE  /\ [gets EXCEPT ![p] = g] \in [Getters -> GetType]
         /\ \A q \in Getters : [gets EXCEPT ![p] = g][q] = IF q = p THEN g ELSE gets[q]
         /\ g.elem = gets[p].elem => Held([gets EXCEPT ![p] = g]) = Held(gets)
<1>1. \A q \in Getters : [gets EXCEPT ![p] = g][q] = IF q = p THEN g ELSE gets[q]
  OBVIOUS
<1>2. [gets EXCEPT ![p] = g] \in [Getters -> GetType]
  OBVIOUS
<1> DEFINE new == [gets EXCEPT ![p] = g]
<1> HIDE DEF new
<1>3. ASSUME g.elem = gets[p].elem PROVE Held(new) = Held(gets)
  <2>1. \A q \in Getters : new[q].elem = gets[q].elem
    BY <1>1, <1>3 DEF new
  <2> QED BY <2>1 DEF Held
<1> QED BY <1>1, <1>2, <1>3 DEF new

\* The clock: what is due stays due.
LEMMA TickInv == ASSUME Inv, Tick PROVE Inv'
<1>1. /\ clock \in 1..MaxClock /\ clock < MaxClock /\ clock' = clock + 1 /\ MaxClock \in Nat
      /\ cache' = cache /\ get' = get /\ ticking' = ticking
  BY LRUAssumption DEF Inv, Tick
<1>2. clock' \in 1..MaxClock /\ clock' > clock
  BY <1>1
<1>3. Good(cache, get, clock)
  BY DEF Inv
<1>4. \A key \in Keys : cache.expires[key] \in Nat
  BY <1>3, Fields DEF Good, Consistent
<1>5. \A key \in Keys : Due(cache, key, clock) => Due(cache, key, clock')
  <2> SUFFICES ASSUME NEW key \in Keys, Due(cache, key, clock) PROVE Due(cache, key, clock')
    OBVIOUS
  <2>1. cache.expires[key] # 0 /\ clock > cache.expires[key] /\ cache.expires[key] \in Nat
    BY <1>4 DEF Due
  <2>2. clock' > cache.expires[key]
    BY <1>1, <2>1
  <2> QED BY <2>1, <2>2 DEF Due
<1>6. \A p \in Getters : GetOK(cache, get[p], clock')
  BY <1>3, <1>5 DEF Good, GetOK
<1>7. Good(cache, get, clock')
  BY <1>3, <1>6 DEF Good
<1> QED BY <1>1, <1>2, <1>7 DEF Inv

LEMMA SetInv ==
  ASSUME Inv, NEW key \in Keys, NEW val \in Values, Set(key, val) PROVE Inv'
<1> DEFINE c == cache  t == cache.expires[key]
           m == Evicted(Put([cache EXCEPT !.expires[key] = t], key, val))
<1>1. /\ Good(c, get, clock) /\ get' = get /\ clock' = clock /\ ticking' = ticking
      /\ cache' = Collected(Evicted(Put(cache, key, val)), get)
  BY DEF Inv, Set
<1>2. t \in Nat /\ c \in CacheType /\ c.expires \in [Keys -> Nat]
  BY <1>1, Fields DEF Good, Consistent
<1>3. [cache EXCEPT !.expires[key] = t] = cache
  <2>1. [cache.expires EXCEPT ![key] = t] = cache.expires
    BY <1>2
  <2>2. [cache EXCEPT !.expires[key] = t] = [cache EXCEPT !.expires = [cache.expires EXCEPT ![key] = t]]
    BY <1>2 DEF CacheType
  <2>3. [cache EXCEPT !.expires = cache.expires] = cache
    BY <1>2 DEF CacheType
  <2> QED BY <2>1, <2>2, <2>3
<1>4. cache' = Collected(m, get)
  BY <1>1, <1>3
<1> HIDE DEF m, c, t
<1>5. /\ Consistent(m) /\ Follows(c, m, {})
      /\ \A e \in Elems : c.entry[e] # NoEntry => m.entry[e] # NoEntry
      /\ MaxBytes > 0 => m.usedBytes <= MaxBytes
  BY <1>1, <1>2, SetFacts DEF m, c, t
<1>6. get \in [Getters -> GetType] /\ \A p \in Getters : get[p].at = "out" => get[p].elem = NoElem
  BY <1>1 DEF Good, GetOK
<1>7. Good(Collected(m, get), get, clock)
  BY <1>1, <1>5, <1>6, Concluded
<1> QED BY <1>1, <1>4, <1>7 DEF Inv

\* The Gets that held the element of the key are no longer late; the expiries
\* of the other keys stay.
LEMMA SetWithExpirationInv ==
  ASSUME Inv, NEW key \in Keys, NEW val \in Values, NEW duration \in Durations,
         SetWithExpiration(key, val, duration)
  PROVE  Inv'
<1> DEFINE c == cache  t == IF duration > 0 THEN clock + duration ELSE 0
           m == Evicted(Put([cache EXCEPT !.expires[key] = t], key, val))
<1>1. /\ Good(c, get, clock) /\ clock' = clock /\ ticking' = ticking /\ clock \in 1..MaxClock
      /\ cache' = Collected(m, get)
      /\ get' = [p \in Getters |-> IF get[p].elem # NoElem /\ get[p].elem = c.items[key]
                                   THEN [get[p] EXCEPT !.late = FALSE] ELSE get[p]]
  BY DEF Inv, SetWithExpiration
<1>2. t \in Nat
  BY <1>1, LRUAssumption
<1> HIDE DEF m, c, t
<1>3. /\ Consistent(m) /\ Follows(c, m, {key})
      /\ \A e \in Elems : c.entry[e] # NoEntry => m.entry[e] # NoEntry
      /\ MaxBytes > 0 => m.usedBytes <= MaxBytes
  BY <1>1, <1>2, SetFacts DEF m, c
<1>4. get \in [Getters -> GetType] /\ Consistent(c) /\ \A p \in Getters : GetOK(c, get[p], clock)
  BY <1>1 DEF Good
<1>5. ASSUME NEW p \in Getters
      PROVE  /\ get'[p] \in GetType
             /\ get'[p].at = get[p].at /\ get'[p].key = get[p].key /\ get'[p].elem = get[p].elem
             /\ get'[p].late => get[p].late /\ ~(get[p].elem # NoElem /\ get[p].elem = c.items[key])
  <2>1. get[p] \in GetType
    BY <1>4
  <2>2. CASE get[p].elem # NoElem /\ get[p].elem = c.items[key]
    <3>1. get'[p] = [get[p] EXCEPT !.late = FALSE]
      BY <1>1, <2>2
    <3> QED BY <2>1, <3>1 DEF GetType
  <2>3. CASE ~(get[p].elem # NoElem /\ get[p].elem = c.items[key])
    <3>1. get'[p] = get[p]
      BY <1>1, <2>3
    <3> QED BY <2>1, <2>3, <3>1
  <2> QED BY <2>2, <2>3
<1>6. get' \in [Getters -> GetType]
  BY <1>1, <1>5
<1>7. ASSUME NEW p \in Getters, get'[p].at # "out", get'[p].late, get[p].elem \in ToSet(c.list)
      PROVE  get[p].key \notin {key}
  <2>1. get[p].elem # NoElem /\ c.entry[get[p].elem].k = get[p].key
    BY <1>4, <1>5, <1>7, ElemsAssumption DEF GetOK
  <2>2. c.items[get[p].key] = get[p].elem
    BY <1>4, <1>7, <2>1, Listed DEF Consistent
  <2> QED BY <1>5, <1>7, <2>1, <2>2
<1>8. \A p \in Getters :
        get'[p].at # "out" =>
          /\ get'[p].at = get[p].at /\ get'[p].key = get[p].key /\ get'[p].elem = get[p].elem
          /\ get'[p].late => /\ get[p].late
                             /\ get[p].elem \in ToSet(c.list) => get[p].key \notin {key}
  BY <1>5, <1>7
<1>9. Collected(m, get') = Collected(m, get)
  <2>1. {get'[p].elem : p \in Getters} = {get[p].elem : p \in Getters}
    BY <1>5
  <2> QED BY <2>1 DEF Collected
<1>10. \E next \in [Getters -> GetType] : next = get'
  BY <1>6
<1>11. PICK next \in [Getters -> GetType] : next = get'
  BY <1>10
<1>12. \A p \in Getters : next[p].at = "out" => next[p].elem = NoElem
  BY <1>4, <1>5, <1>11 DEF GetOK
<1>13. Good(Collected(m, next), next, clock)
  BY <1>1, <1>3, <1>8, <1>11, <1>12, Concluded
<1> QED BY <1>1, <1>9, <1>11, <1>13 DEF Inv

\* Delete, Clear and the cleanup, and the Delete of a Get: they remove some
\* elements, and no one goes on with a Get.
LEMMA RemovalInv ==
  ASSUME Inv, NEW next \in [Getters -> GetType],
         \A p \in Getters : next[p] = get[p] \/ next[p] = NoGet,
         NEW m, \/ m = cache
                \/ \E elems : m = RemovedAll(cache, elems, 1)
                \/ m = [Empty EXCEPT !.entry = cache.entry]
  PROVE  Good(Collected(m, next), next, clock)
<1> DEFINE c == cache
<1>1. Good(c, get, clock) /\ Consistent(c) /\ (MaxBytes > 0 => c.usedBytes <= MaxBytes)
  BY DEF Inv, Good
<1>2. c \in CacheType /\ c.usedBytes \in Int /\ c.entry \in [Elems -> Entry \cup {NoEntry}] /\ MaxBytes \in Nat
  BY <1>1, Fields, LRUAssumption DEF Consistent
<1>3. Consistent(m) /\ Follows(c, m, {}) /\ m.entry = c.entry /\ (MaxBytes > 0 => m.usedBytes <= MaxBytes)
  <2>1. CASE m = c
    BY <1>1, <2>1 DEF Follows
  <2>2. ASSUME NEW elems, m = RemovedAll(c, elems, 1)
        PROVE  Consistent(m) /\ Follows(c, m, {}) /\ m.entry = c.entry /\ (MaxBytes > 0 => m.usedBytes <= MaxBytes)
    <3>1. Consistent(m) /\ Follows(c, m, {}) /\ m.entry = c.entry /\ m.usedBytes <= c.usedBytes
      BY <1>1, <2>2, RemovedOnce
    <3>2. m.usedBytes \in Int
      BY <3>1, Fields DEF Consistent
    <3> QED BY <1>1, <1>2, <3>1, <3>2
  <2>3. CASE m = [Empty EXCEPT !.entry = c.entry]
    <3>1. /\ m.list = <<>> /\ m.items = [key \in Keys |-> NoElem]
          /\ m.expires = [key \in Keys |-> 0] /\ m.usedBytes = 0 /\ m.drift = 0
          /\ m.entry = c.entry
      BY <2>3 DEF Empty
    <3>2. m \in CacheType /\ <<>> \in Lists /\ Len(<<>>) = 0
      <4>1. <<>> \in Seq(Elems) /\ Len(<<>>) = 0
        OBVIOUS
      <4>2. Empty \in CacheType
        BY <4>1 DEF Empty, CacheType
      <4> QED BY <1>2, <2>3, <4>1, <4>2 DEF CacheType, Lists
    <3>3. ToSet(<<>>) = {}
      BY DEF ToSet
    <3>4. ItemsListed(m) /\ ExpiriesOfItems(m)
      BY <3>1, <3>2, <3>3 DEF ItemsListed, ExpiriesOfItems, Distinct
    <3>5. IsSum(0, <<>>, Weight(m))
      BY <3>2, <3>3, SumOfNone
    <3>6. Accounted(m)
      BY <3>1, <3>5 DEF Accounted
    <3>7. Follows(c, m, {})
      BY <3>1, <3>3 DEF Follows
    <3> QED BY <1>2, <3>1, <3>2, <3>4, <3>6, <3>7 DEF Consistent
  <2> QED BY <2>1, <2>2, <2>3
<1>4. \A p \in Getters :
        next[p].at # "out" =>
          /\ next[p].at = get[p].at /\ next[p].key = get[p].key /\ next[p].elem = get[p].elem
          /\ next[p].late => /\ get[p].late
                             /\ get[p].elem \in ToSet(c.list) => get[p].key \notin {}
  BY DEF NoGet
<1>5. \A p \in Getters : next[p].at = "out" => next[p].elem = NoElem
  BY <1>1 DEF Good, GetOK, NoGet
<1> HIDE DEF c
<1> QED BY <1>1, <1>3, <1>4, <1>5, Concluded

LEMMA RemovalsInv ==
  ASSUME Inv
  PROVE  /\ Clear => Inv'
         /\ Cleanup => Inv'
         /\ \A key \in Keys : Delete(key) => Inv'
         /\ \A p \in Getters : GetDrop(p) => Inv'
<1>0. get \in [Getters -> GetType]
  BY DEF Inv, Good
<1> DEFINE c == cache  g == get  time == clock
<1>d. \A key : \/ DeleteIn(c, key) = c
               \/ \E elems : DeleteIn(c, key) = RemovedAll(c, elems, 1)
  BY DEF DeleteIn
<1>1. ASSUME Clear PROVE Inv'
  <2>1. Good(Collected([Empty EXCEPT !.entry = c.entry], g), g, time)
    BY <1>0, RemovalInv
  <2> QED BY <1>1, <2>1 DEF Clear, Inv
<1>2. ASSUME Cleanup PROVE Inv'
  <2> DEFINE due == {cache.items[key] : key \in {k \in Keys : Expired(cache, k)}} \ {NoElem}
  <2>1. Good(Collected(RemovedAll(c, due, 1), g), g, time)
    <3> HIDE DEF due
    <3> QED BY <1>0, RemovalInv
  <2>2. cache' = Collected(RemovedAll(c, due, 1), g) /\ get' = g /\ clock' = time /\ ticking' = ticking
    BY <1>2 DEF Cleanup
  <2> HIDE DEF due
  <2> QED BY <2>1, <2>2 DEF Inv
<1>3. ASSUME NEW key \in Keys, Delete(key) PROVE Inv'
  <2>1. Good(Collected(DeleteIn(c, key), g), g, time)
    BY <1>0, <1>d, RemovalInv
  <2> QED BY <1>3, <2>1 DEF Delete, Inv
<1>4. ASSUME NEW p \in Getters, GetDrop(p) PROVE Inv'
  <2>0. NoGet \in GetType
    BY DEF NoGet, GetType
  <2> DEFINE next == [get EXCEPT ![p] = NoGet]
  <2>1. next \in [Getters -> GetType] /\ \A q \in Getters : next[q] = get[q] \/ next[q] = NoGet
    BY <1>0, <2>0
  <2>2. /\ cache' = Collected(DeleteIn(cache, get[p].key), next) /\ get' = next
        /\ clock' = clock /\ ticking' = ticking
    BY <1>4 DEF GetDrop
  <2> HIDE DEF next
  <2>3. Good(Collected(DeleteIn(c, get[p].key), next), next, time)
    BY <1>d, <2>1, RemovalInv
  <2> QED BY <2>2, <2>3 DEF Inv
<1> QED BY <1>1, <1>2, <1>3, <1>4

LEMMA GetsInv ==
  ASSUME Inv, NEW p \in Getters
  PROVE  /\ \A key \in Keys : GetFind(p, key) => Inv'
         /\ GetExpiry(p) => Inv'
         /\ GetTouch(p) => Inv'
         /\ GetReturn(p) => Inv'
<1> DEFINE g == get[p]
<1>0. /\ Good(cache, get, clock) /\ get \in [Getters -> GetType] /\ Consistent(cache)
      /\ g \in GetType /\ GetOK(cache, g, clock)
      /\ MaxBytes > 0 => cache.usedBytes <= MaxBytes
  BY DEF Inv, Good
<1>d. \A key : Expired(cache, key) <=> Due(cache, key, clock)
  BY DEF Expired, Due
<1>f. ASSUME NEW c, Consistent(c), Follows(cache, c, {}), MaxBytes > 0 => c.usedBytes <= MaxBytes,
             c.entry = cache.entry, ToSet(c.list) = ToSet(cache.list),
             NEW new \in GetType, new.elem = g.elem \/ g.elem = NoElem \/ g.elem \in ToSet(c.list),
             GetOK(c, new, clock)
      PROVE  Good(c, [get EXCEPT ![p] = new], clock)
  <2> DEFINE gets == [get EXCEPT ![p] = new]
  <2>1. gets \in [Getters -> GetType] /\ \A q \in Getters : gets[q] = IF q = p THEN new ELSE get[q]
    BY <1>0
  <2> HIDE DEF gets
  <2>2. ASSUME NEW q \in Getters PROVE GetOK(c, gets[q], clock)
    <3>1. CASE q = p
      BY <1>f, <2>1, <3>1
    <3>2. CASE q # p
      <4>1. gets[q] = get[q] /\ GetOK(cache, get[q], clock)
        BY <1>0, <2>1, <3>2 DEF Good
      <4>2. get[q].at # "out" => c.entry[get[q].elem] # NoEntry
        BY <1>f, <4>1 DEF GetOK
      <4>3. GetOK(c, get[q], clock)
        BY <1>0, <1>f, <4>1, <4>2, StillOK
      <4> QED BY <4>1, <4>3
    <3> QED BY <3>1, <3>2
  <2>3. ASSUME NEW e \in Elems, c.entry[e] # NoEntry PROVE e \in ToSet(c.list) \cup Held(gets)
    <3>1. e \in ToSet(cache.list) \cup Held(get)
      BY <1>0, <1>f, <2>3 DEF Good
    <3>2. CASE e \in ToSet(cache.list)
      BY <1>f, <3>2
    <3>3. CASE e \in Held(get)
      <4>1. PICK q \in Getters : get[q].elem = e
        BY <3>3 DEF Held
      <4>2. CASE q # p
        BY <2>1, <4>1, <4>2 DEF Held
      <4>3. CASE q = p
        <5>1. gets[p] = new /\ e # NoElem
          BY <2>1, ElemsAssumption
        <5> QED BY <1>f, <4>1, <4>3, <5>1 DEF Held
      <4> QED BY <4>2, <4>3
    <3> QED BY <3>1, <3>2, <3>3
  <2> QED BY <1>f, <2>1, <2>2, <2>3 DEF Good, gets
<1>s. Follows(cache, cache, {})
  BY DEF Follows
<1>1. ASSUME NEW key \in Keys, GetFind(p, key) PROVE Inv'
  <2> DEFINE new == [at |-> "check", key |-> key, elem |-> cache.items[key], late |-> Expired(cache, key)]
  <2>1. /\ g.at = "out" /\ cache.items[key] # NoElem /\ get' = [get EXCEPT ![p] = new]
        /\ cache' = cache /\ clock' = clock /\ ticking' = ticking
    BY <1>1 DEF GetFind
  <2>2. /\ cache.items[key] \in ToSet(cache.list) /\ cache.entry[cache.items[key]] # NoEntry
        /\ cache.entry[cache.items[key]].k = key
    BY <1>0, <2>1 DEF Consistent, ItemsListed
  <2>3. cache.items[key] \in Elems
    BY <1>0, <2>2, Listed DEF Consistent
  <2>4. new \in GetType
    BY <2>3 DEF GetType, Expired
  <2>5. GetOK(cache, new, clock)
    BY <1>d, <2>2, <2>3 DEF GetOK
  <2> HIDE DEF new
  <2>6. g.elem = NoElem
    BY <1>0, <2>1 DEF GetOK
  <2>7. Good(cache, [get EXCEPT ![p] = new], clock)
    BY <1>0, <1>f, <1>s, <2>4, <2>5, <2>6
  <2> QED BY <2>1, <2>7 DEF Inv
<1>2. ASSUME GetExpiry(p) PROVE Inv'
  <2> DEFINE new == [g EXCEPT !.at = IF Expired(cache, g.key) THEN "drop" ELSE "touch"]
  <2>1. /\ g.at = "check" /\ get' = [get EXCEPT ![p] = new]
        /\ cache' = cache /\ clock' = clock /\ ticking' = ticking
    BY <1>0, <1>2 DEF GetExpiry
  <2>2. /\ new \in GetType /\ new.key = g.key /\ new.elem = g.elem /\ new.late = g.late
        /\ new.at = IF Expired(cache, g.key) THEN "drop" ELSE "touch"
    BY <1>0 DEF GetType
  <2> HIDE DEF new, g
  <2>3. GetOK(cache, new, clock)
    BY <1>0, <1>d, <2>1, <2>2 DEF GetOK
  <2>4. Good(cache, [get EXCEPT ![p] = new], clock)
    BY <1>0, <1>f, <1>s, <2>2, <2>3
  <2> QED BY <2>1, <2>4 DEF Inv
<1>3. ASSUME GetTouch(p) PROVE Inv'
  <2> DEFINE new == [g EXCEPT !.at = "read"]
             moved == cache.items[g.key] # NoElem /\ Contains(cache.list, g.elem)
             c == IF moved THEN MovedToFront(cache, g.elem) ELSE cache
  <2>1. /\ g.at = "touch" /\ get' = [get EXCEPT ![p] = new]
        /\ cache' = c /\ clock' = clock /\ ticking' = ticking
    BY <1>0, <1>3 DEF GetTouch
  <2>2. /\ new \in GetType /\ new.key = g.key /\ new.elem = g.elem /\ new.late = g.late
        /\ new.at = "read"
    BY <1>0 DEF GetType
  <2>3. /\ Consistent(c) /\ Follows(cache, c, {}) /\ ToSet(c.list) = ToSet(cache.list)
        /\ c.entry = cache.entry /\ c.usedBytes = cache.usedBytes
    <3>1. CASE moved
      <4>1. g.elem \in ToSet(cache.list)
        <5>1. cache.list \in Lists
          BY <1>0, Fields DEF Consistent
        <5> QED BY <3>1, <5>1, InList DEF Contains
      <4>2. c = MovedToFront(cache, g.elem)
        BY <3>1
      <4> HIDE DEF c
      <4> QED BY <1>0, <4>1, <4>2, MovedToFrontFacts
    <3>2. CASE ~moved
      BY <1>0, <1>s, <3>2
    <3> QED BY <3>1, <3>2
  <2> HIDE DEF new, c, g
  <2>4. GetOK(c, new, clock)
    BY <1>0, <2>1, <2>2, <2>3 DEF GetOK
  <2>5. Good(c, [get EXCEPT ![p] = new], clock)
    BY <1>0, <1>f, <2>2, <2>3, <2>4
  <2> QED BY <2>1, <2>5 DEF Inv
<1>4. ASSUME GetReturn(p) PROVE Inv'
  <2>0. NoGet \in GetType
    BY DEF NoGet, GetType
  <2> DEFINE next == [get EXCEPT ![p] = NoGet]
  <2>1. next \in [Getters -> GetType] /\ \A q \in Getters : next[q] = get[q] \/ next[q] = NoGet
    BY <1>0, <2>0
  <2>2. cache' = Collected(cache, next) /\ get' = next /\ clock' = clock /\ ticking' = ticking
    BY <1>4 DEF GetReturn
  <2> HIDE DEF next
  <2>3. Good(Collected(cache, next), next, clock)
    BY <2>1, RemovalInv
  <2> QED BY <2>2, <2>3 DEF Inv
<1> QED BY <1>1, <1>2, <1>3, <1>4

LEMMA InvStep == Inv /\ [Next]_vars => Inv'
<1> SUFFICES ASSUME Inv, [Next]_vars PROVE Inv'
  OBVIOUS
<1>1. CASE Tick
  BY <1>1, TickInv
<1>2. CASE Close
  BY <1>2 DEF Close, Inv
<1>3. CASE Clear \/ Cleanup \/ \E key \in Keys : Delete(key)
  BY <1>3, RemovalsInv
<1>4. ASSUME NEW key \in Keys, NEW val \in Values, Set(key, val) PROVE Inv'
  BY <1>4, SetInv
<1>5. ASSUME NEW key \in Keys, NEW val \in Values, NEW duration \in Durations,
             SetWithExpiration(key, val, duration)
      PROVE  Inv'
  BY <1>5, SetWithExpirationInv
<1>6. ASSUME NEW p \in Getters,
             \/ \E key \in Keys : GetFind(p, key)
             \/ GetExpiry(p) \/ GetDrop(p) \/ GetTouch(p) \/ GetReturn(p)
      PROVE  Inv'
  <2>1. CASE GetDrop(p)
    BY <2>1, RemovalsInv
  <2>2. CASE (\E key \in Keys : GetFind(p, key)) \/ GetExpiry(p) \/ GetTouch(p) \/ GetReturn(p)
    BY <2>2, GetsInv
  <2> QED BY <1>6, <2>1, <2>2
<1>7. CASE UNCHANGED vars
  BY <1>7 DEF vars, Inv
<1> QED BY <1>1, <1>2, <1>3, <1>4, <1>5, <1>6, <1>7 DEF Next

LEMMA AlwaysInv == Spec => []Inv
<1> QED BY InitInv, InvStep, PTL DEF Spec

-----------------------------------------------------------------------------
(* A Get that is under way has an entry to read: the element it found is not  *)
(* made into another before the Get has returned, whatever is set, evicted or *)
(* cleared between its steps (lines 80-109); and everything has its type.     *)
THEOREM TypeCorrect == Spec => []TypeOK
<1>1. ASSUME Inv PROVE TypeOK
  <2>1. /\ cache \in CacheType /\ get \in [Getters -> GetType]
        /\ \A p \in Getters : GetOK(cache, get[p], clock)
    BY <1>1 DEF Inv, Good, Consistent
  <2>2. clock \in 1..MaxClock /\ ticking \in BOOLEAN
    BY <1>1 DEF Inv
  <2> QED BY <2>1, <2>2 DEF TypeOK, CacheType, Entry, GetType, GetOK
<1> QED BY <1>1, AlwaysInv, PTL

(* The list and the map hold the same elements, each once and under its own   *)
(* key, and no key that is not held has an expiry, after any operation and in *)
(* the middle of any number of Gets (lines 53-77, 101-105, 157-168).          *)
THEOREM ListMatchesItemsHolds == Spec => []ListMatchesItems
<1>1. ASSUME Inv PROVE ListMatchesItems
  <2>1. Consistent(cache) /\ cache.list \in Lists
    BY <1>1, Fields DEF Inv, Good, Consistent
  <2>2. DOMAIN cache.list = 1..Len(cache.list)
    BY <2>1, InList
  <2> QED BY <2>1, <2>2 DEF ListMatchesItems, Consistent, ItemsListed, ExpiriesOfItems, Distinct
<1> QED BY <1>1, AlwaysInv, PTL

(* The count is what the list holds less what evict subtracted twice, whatever *)
(* the sizes, and it stays within the limit (lines 61-77, 164, 171-181).      *)
THEOREM BytesAccountedHolds == Spec => []BytesAccounted
<1>1. ASSUME Inv PROVE BytesAccounted
  <2> DEFINE c == cache  held == ToSet(cache.list)
  <2>1. Consistent(c) /\ (MaxBytes > 0 => c.usedBytes <= MaxBytes)
    BY <1>1 DEF Inv, Good
  <2>2. c.usedBytes \in Int /\ c.drift \in Nat
    BY <2>1, Fields DEF Consistent
  <2>3. held \subseteq held
    OBVIOUS
  <2>4. Bytes(c, held) = c.usedBytes + c.drift
    <3> HIDE DEF c
    <3> QED BY <2>1, <2>3, BytesAndCount DEF c
  <2>5. c.usedBytes = Bytes(c, held) - c.drift
    BY <2>2, <2>4
  <2> QED BY <2>1, <2>5 DEF BytesAccounted
<1> QED BY <1>1, AlwaysInv, PTL

(* A Get goes on to answer a value that had expired when it found it only if  *)
(* the element was removed in between: the expiry it reads is still that of   *)
(* the element as long as the key keeps it (lines 91-98).                     *)
THEOREM LateAnswerHolds == Spec => []LateAnswerOnlyIfRemoved
<1>1. ASSUME Inv PROVE LateAnswerOnlyIfRemoved
  <2>1. cache.list \in Lists /\ \A p \in Getters : GetOK(cache, get[p], clock)
    BY <1>1, Fields DEF Inv, Good, Consistent
  <2>2. ToSet(cache.list) = {cache.list[i] : i \in 1..Len(cache.list)}
    BY <2>1, InList
  <2> QED BY <2>1, <2>2 DEF LateAnswerOnlyIfRemoved, GetOK, Contains
<1> QED BY <1>1, AlwaysInv, PTL
=============================================================================
