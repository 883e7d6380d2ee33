---------------------------- MODULE LRU2StoreProofs ----------------------------
(* The two-level store keeps its promise: for any keys, capacities, clients   *)
(* and durations, it implements LossyCache.                                   *)
EXTENDS LRU2StorePromise, SequenceTheorems, FiniteSetTheorems, TLAPS

\* No Set is given a duration of 0, whose expiry time is the mark of a deleted
\* node (line 165).
DurationsPositive == 0 \notin Durations

-----------------------------------------------------------------------------
\* Induction over the natural numbers, for a set.
LEMMA SetInduction ==
  ASSUME NEW set, 0 \in set, \A i \in Nat : i \in set => i+1 \in set
  PROVE  \A i \in Nat : i \in set
<1> SUFFICES ASSUME \E i \in Nat : i \notin set PROVE FALSE
  OBVIOUS
<1> DEFINE out == {i \in Nat : i \notin set}
<1>1. out \subseteq Nat /\ out # {}
  OBVIOUS
<1>2. PICK least \in out : \A other \in out : <<other, least>> \notin OpToRel(<, Nat)
  BY <1>1, NatLessThanWellFounded, WFMin
<1>3. \A other \in out : ~(other < least)
  BY <1>1, <1>2 DEF OpToRel
<1>4. least \in Nat /\ least # 0 /\ least - 1 \in Nat /\ (least - 1) + 1 = least
  BY <1>1
<1>5. least - 1 \notin out
  BY <1>3, <1>4
<1> QED BY <1>4, <1>5

\* A function defined by recursion over 0..n exists.
Iterates(S, base, n, step) ==
  \E f \in [0..n -> S] : f[0] = base /\ \A i \in 1..n : f[i] = step[i][f[i-1]]

LEMMA Iterated ==
  ASSUME NEW S, NEW base \in S, NEW n \in Nat, NEW step \in [1..n -> [S -> S]]
  PROVE  Iterates(S, base, n, step)
<1> DEFINE IsUpTo(f, m) == f \in [0..m -> S] /\ f[0] = base /\ \A i \in 1..m : f[i] = step[i][f[i-1]]
           set == {m \in Nat : m <= n => \E f : IsUpTo(f, m)}
<1>1. 0 \in set
  <2>1. IsUpTo([i \in 0..0 |-> base], 0)
    OBVIOUS
  <2> QED BY <2>1
<1>2. ASSUME NEW m \in Nat, m \in set PROVE m+1 \in set
  <2> SUFFICES ASSUME m+1 <= n PROVE \E f : IsUpTo(f, m+1)
    OBVIOUS
  <2>1. PICK f : IsUpTo(f, m)
    BY <1>2
  <2> DEFINE g == [i \in 0..m+1 |-> IF i = m+1 THEN step[m+1][f[m]] ELSE f[i]]
  <2>2. m+1 \in 1..n /\ f[m] \in S
    BY <2>1
  <2>3. g \in [0..m+1 -> S] /\ g[0] = base
    BY <2>1, <2>2
  <2>4. ASSUME NEW i \in 1..m+1 PROVE g[i] = step[i][g[i-1]]
    <3>1. CASE i = m+1
      BY <2>1, <3>1
    <3>2. CASE i # m+1
      BY <2>1, <3>2
    <3> QED BY <3>1, <3>2
  <2> QED BY <2>3, <2>4
<1> HIDE DEF set
<1>3. n \in set
  BY <1>1, <1>2, SetInduction
<1> QED BY <1>3 DEF set, Iterates

-----------------------------------------------------------------------------
\* What ToSet is of, for each way to build a sequence.
LEMMA SetOfSeq ==
  ASSUME NEW S, NEW seq \in Seq(S)
  PROVE  ToSet(seq) = {seq[i] : i \in 1..Len(seq)} /\ ToSet(seq) \subseteq S
BY LenProperties, ElementOfSeq DEF ToSet

LEMMA SetOfEmpty == ToSet(<<>>) = {}
BY DEF ToSet

LEMMA SetOfConcat ==
  ASSUME NEW S, NEW s \in Seq(S), NEW t \in Seq(S)
  PROVE  ToSet(s \o t) = ToSet(s) \cup ToSet(t)
<1> DEFINE m == Len(s)  n == Len(t)  u == s \o t
<1>1. m \in Nat /\ n \in Nat /\ u \in Seq(S) /\ Len(u) = m + n
      /\ \A i \in 1..m+n : u[i] = IF i <= m THEN s[i] ELSE t[i-m]
  BY ConcatProperties, LenProperties
<1>2. ToSet(s) = {s[i] : i \in 1..m} /\ ToSet(t) = {t[i] : i \in 1..n} /\ ToSet(u) = {u[i] : i \in 1..m+n}
  BY <1>1, SetOfSeq
<1> HIDE DEF m, n, u
<1>3. \A i \in 1..m : i \in 1..m+n /\ u[i] = s[i]
  BY <1>1
<1>4. ASSUME NEW i \in 1..n PROVE m+i \in 1..m+n /\ u[m+i] = t[i]
  <2>1. m+i \in 1..m+n /\ ~(m+i <= m) /\ (m+i)-m = i
    BY <1>1
  <2> QED BY <1>1, <2>1
<1>5. ASSUME NEW i \in 1..m+n, ~(i <= m) PROVE i-m \in 1..n /\ u[i] = t[i-m]
  BY <1>1, <1>5
<1>6. ASSUME NEW i \in 1..m+n, i <= m PROVE i \in 1..m /\ u[i] = s[i]
  BY <1>1, <1>6
<1> QED BY <1>2, <1>3, <1>4, <1>5, <1>6 DEF u

LEMMA SetOfAppend ==
  ASSUME NEW S, NEW seq \in Seq(S), NEW elt \in S
  PROVE  ToSet(Append(seq, elt)) = ToSet(seq) \cup {elt}
<1>1. <<elt>> \in Seq(S)
  OBVIOUS
<1>2. ToSet(<<elt>>) = {elt}
  BY DEF ToSet
<1>3. Append(seq, elt) = seq \o <<elt>>
  BY AppendIsConcat
<1>4. ToSet(seq \o <<elt>>) = ToSet(seq) \cup ToSet(<<elt>>)
  <2> DEFINE one == <<elt>>
  <2> HIDE DEF one
  <2>1. one \in Seq(S)
    BY <1>1 DEF one
  <2>2. ToSet(seq \o one) = ToSet(seq) \cup ToSet(one)
    BY <2>1, SetOfConcat
  <2> QED BY <2>2 DEF one
<1> QED BY <1>2, <1>3, <1>4

\* No element twice.
Distinct(seq) == \A i, j \in 1..Len(seq) : seq[i] = seq[j] => i = j

LEMMA DistinctAppend ==
  ASSUME NEW S, NEW seq \in Seq(S), Distinct(seq), NEW elt \in S, elt \notin ToSet(seq)
  PROVE  Distinct(Append(seq, elt))
<1> DEFINE n == Len(seq)  s == Append(seq, elt)
<1>1. n \in Nat /\ Len(s) = n+1 /\ s[n+1] = elt /\ \A i \in 1..n : s[i] = seq[i] /\ seq[i] # elt
  BY AppendProperties, LenProperties, SetOfSeq
<1> HIDE DEF s
<1>2. \A i \in 1..n+1 : i \in 1..n \/ i = n+1
  BY <1>1
<1> QED BY <1>1, <1>2 DEF Distinct, s

LEMMA DistinctConcat ==
  ASSUME NEW S, NEW s \in Seq(S), NEW t \in Seq(S), Distinct(s), Distinct(t),
         ToSet(s) \cap ToSet(t) = {}
  PROVE  Distinct(s \o t)
<1> DEFINE m == Len(s)  n == Len(t)  u == s \o t
<1>1. m \in Nat /\ n \in Nat /\ Len(u) = m + n
      /\ \A i \in 1..m+n : u[i] = IF i <= m THEN s[i] ELSE t[i-m]
  BY ConcatProperties, LenProperties
<1>2. ToSet(s) = {s[i] : i \in 1..m} /\ ToSet(t) = {t[i] : i \in 1..n}
  BY SetOfSeq
<1>3. \A i \in 1..m, j \in 1..n : s[i] # t[j]
  BY <1>2
<1>4. (\A i, j \in 1..m : s[i] = s[j] => i = j) /\ \A i, j \in 1..n : t[i] = t[j] => i = j
  BY DEF Distinct
<1> HIDE DEF m, n, u
<1>5. ASSUME NEW i \in 1..m+n PROVE (i \in 1..m /\ u[i] = s[i]) \/ (i-m \in 1..n /\ u[i] = t[i-m])
  BY <1>1
<1> SUFFICES ASSUME NEW i \in 1..m+n, NEW j \in 1..m+n, u[i] = u[j] PROVE i = j
  BY <1>1 DEF Distinct, u
<1> QED BY <1>1, <1>3, <1>4, <1>5

-----------------------------------------------------------------------------
\* A level: a sequence of nodes that holds a key once.
IsLevel(order) ==
  order \in Seq(Node) /\ \A i, j \in 1..Len(order) : order[i].k = order[j].k => i = j

LEMMA LevelFacts ==
  ASSUME NEW order \in Seq(Node)
  PROVE  /\ Len(order) \in Nat /\ DOMAIN order = 1..Len(order)
         /\ \A i \in 1..Len(order) : order[i] \in Node /\ order[i].k \in Keys /\ order[i].v \in Values
                                     /\ order[i].expireAt \in Nat
         /\ ToSet(order) = {order[i] : i \in 1..Len(order)}
<1>1. Len(order) \in Nat /\ DOMAIN order = 1..Len(order)
  BY LenProperties
<1>2. \A i \in 1..Len(order) : order[i] \in Node
  BY ElementOfSeq
<1>3. \A nd \in Node : nd.k \in Keys /\ nd.v \in Values /\ nd.expireAt \in Nat
  BY DEF Node
<1>4. ToSet(order) = {order[i] : i \in 1..Len(order)}
  BY <1>1 DEF ToSet
<1> QED BY <1>1, <1>2, <1>3, <1>4

\* The keys that a walk collects, and nothing twice.
LEMMA CollectedKeys ==
  ASSUME NEW order, IsLevel(order), NEW nodes
  PROVE  LET keys == Collected(order, nodes)
         IN /\ keys \in Seq(Keys)
            /\ \A key : key \in ToSet(keys) <=> \E nd \in ToSet(order) : nd \in nodes /\ nd.k = key
            /\ Distinct(keys)
<1> DEFINE n == Len(order)
           keys == CHOOSE keys : keys = [i \in 0..n |->
                     IF i = 0 THEN <<>>
                     ELSE IF order[i] \in nodes THEN Append(keys[i-1], order[i].k) ELSE keys[i-1]]
           step == [i \in 1..n |-> [s \in Seq(Keys) |->
                      IF order[i] \in nodes THEN Append(s, order[i].k) ELSE s]]
<1>0. Collected(order, nodes) = keys[n]
  BY DEF Collected
<1>1. n \in Nat /\ \A i \in 1..n : order[i] \in Node /\ order[i].k \in Keys
  BY LevelFacts DEF IsLevel
<1> HIDE DEF n
<1>2. step \in [1..n -> [Seq(Keys) -> Seq(Keys)]]
  BY <1>1
<1>3. \E f \in [0..n -> Seq(Keys)] : f[0] = <<>> /\ \A i \in 1..n : f[i] = step[i][f[i-1]]
  <2> DEFINE S == Seq(Keys)
  <2>1. <<>> \in S /\ step \in [1..n -> [S -> S]]
    BY <1>2, EmptySeq
  <2> HIDE DEF step, S
  <2>2. Iterates(S, <<>>, n, step)
    BY <1>1, <2>1, Iterated
  <2> QED BY <2>2 DEF S, Iterates
<1>4. PICK f \in [0..n -> Seq(Keys)] : f[0] = <<>> /\ \A i \in 1..n : f[i] = step[i][f[i-1]]
  BY <1>3
<1>5. \A i \in 1..n : f[i] = IF order[i] \in nodes THEN Append(f[i-1], order[i].k) ELSE f[i-1]
  <2>1. \A i \in 1..n : f[i-1] \in Seq(Keys)
    BY <1>1, <1>4
  <2> QED BY <1>4, <2>1
<1>6. f = [i \in 0..n |->
             IF i = 0 THEN <<>>
             ELSE IF order[i] \in nodes THEN Append(f[i-1], order[i].k) ELSE f[i-1]]
  <2> DEFINE g == [i \in 0..n |->
             IF i = 0 THEN <<>>
             ELSE IF order[i] \in nodes THEN Append(f[i-1], order[i].k) ELSE f[i-1]]
  <2>1. ASSUME NEW i \in 0..n PROVE f[i] = g[i]
    <3>1. CASE i = 0
      BY <1>4, <3>1
    <3>2. CASE i \in 1..n
      <4>1. i # 0 /\ g[i] = IF order[i] \in nodes THEN Append(f[i-1], order[i].k) ELSE f[i-1]
        BY <1>1, <3>2
      <4> HIDE DEF g
      <4> QED BY <1>5, <3>2, <4>1
    <3> QED BY <1>1, <3>1, <3>2
  <2>2. DOMAIN f = 0..n /\ f = [i \in 0..n |-> f[i]]
    OBVIOUS
  <2> QED BY <2>1, <2>2
<1>7. keys = [i \in 0..n |->
                IF i = 0 THEN <<>>
                ELSE IF order[i] \in nodes THEN Append(keys[i-1], order[i].k) ELSE keys[i-1]]
  BY <1>6
<1> HIDE DEF keys, step
<1>8. keys[0] = <<>> /\ \A m \in Nat : m+1 <= n =>
        keys[m+1] = IF order[m+1] \in nodes THEN Append(keys[m], order[m+1].k) ELSE keys[m]
  <2>1. keys[0] = <<>>
    BY <1>1, <1>7
  <2>2. ASSUME NEW i \in 1..n
        PROVE  keys[i] = IF order[i] \in nodes THEN Append(keys[i-1], order[i].k) ELSE keys[i-1]
    <3>1. i # 0 /\ i \in 0..n
      BY <1>1
    <3> QED BY <1>7, <3>1
  <2>3. ASSUME NEW m \in Nat, m+1 <= n PROVE m+1 \in 1..n /\ (m+1) - 1 = m
    BY <1>1, <2>3
  <2> QED BY <2>1, <2>2, <2>3
<1> DEFINE Walks(m) ==
             /\ keys[m] \in Seq(Keys)
             /\ \A key : key \in ToSet(keys[m]) <=> \E i \in 1..m : order[i] \in nodes /\ order[i].k = key
             /\ Distinct(keys[m])
           set == {m \in Nat : m <= n => Walks(m)}
<1>9. 0 \in set
  <2>1. <<>> \in Seq(Keys) /\ Len(<<>>) = 0
    BY EmptySeq
  <2>2. Distinct(<<>>)
    BY <2>1 DEF Distinct
  <2>3. Walks(0)
    BY <1>8, <2>1, <2>2, SetOfEmpty
  <2> QED BY <2>3
<1>10. ASSUME NEW m \in Nat, Walks(m), m+1 <= n PROVE Walks(m+1)
  <2> DEFINE s == keys[m]  key == order[m+1].k
  <2>1. m+1 \in 1..n /\ key \in Keys /\ \A i \in 1..m+1 : i \in 1..m \/ i = m+1
    BY <1>1, <1>10
  <2>2. CASE order[m+1] \notin nodes
    <3>1. keys[m+1] = keys[m]
      BY <1>8, <1>10, <2>2
    <3> QED BY <1>10, <2>1, <2>2, <3>1
  <2>3. CASE order[m+1] \in nodes
    <3>1. keys[m+1] = Append(s, key)
      BY <1>8, <1>10, <2>3
    <3>2. \A i \in 1..m : order[i].k # key
      BY <1>1, <1>10 DEF IsLevel, n
    <3>3. key \notin ToSet(s) /\ s \in Seq(Keys) /\ Distinct(s)
      BY <1>10, <3>2
    <3>4. keys[m+1] \in Seq(Keys) /\ Distinct(keys[m+1]) /\ ToSet(keys[m+1]) = ToSet(s) \cup {key}
      BY <2>1, <3>1, <3>3, AppendProperties, DistinctAppend, SetOfAppend
    <3> HIDE DEF key
    <3>5. \A i \in 1..m : i \in 1..m+1
      BY <1>10
    <3>6. m+1 \in 1..m+1 /\ order[m+1].k = key
      BY <1>10 DEF key
    <3> QED BY <1>10, <2>1, <2>3, <3>4, <3>5, <3>6
  <2> QED BY <2>2, <2>3
<1>11. \A m \in Nat : m \in set => m+1 \in set
  <2> HIDE DEF Walks
  <2> SUFFICES ASSUME NEW m \in Nat, m \in set, m+1 <= n PROVE Walks(m+1)
    OBVIOUS
  <2>1. m <= n
    BY <1>1
  <2> QED BY <1>10, <2>1
<1>12. Walks(n)
  <2> HIDE DEF set
  <2>1. n \in set
    BY <1>1, <1>9, <1>11, SetInduction
  <2> QED BY <1>1, <2>1 DEF set
<1>13. ToSet(order) = {order[i] : i \in 1..n}
  BY LevelFacts DEF IsLevel, n
<1> QED BY <1>0, <1>12, <1>13

-----------------------------------------------------------------------------
\* The node of a key is the only one of that key.
LEMMA Found ==
  ASSUME NEW order, IsLevel(order)
  PROVE  /\ \A key : Holds(order, key) =>
              /\ Position(order, key) \in 1..Len(order) /\ order[Position(order, key)].k = key
              /\ NodeOf(order, key) \in ToSet(order) /\ NodeOf(order, key) \in Node
              /\ NodeOf(order, key).k = key
         /\ \A nd \in ToSet(order) : Holds(order, nd.k) /\ NodeOf(order, nd.k) = nd /\ nd \in Node
<1>1. DOMAIN order = 1..Len(order) /\ ToSet(order) = {order[i] : i \in 1..Len(order)}
      /\ \A i \in 1..Len(order) : order[i] \in Node
  BY LevelFacts DEF IsLevel
<1>2. ASSUME NEW key, Holds(order, key)
      PROVE  Position(order, key) \in 1..Len(order) /\ order[Position(order, key)].k = key
  BY <1>1, <1>2 DEF Holds, Position
<1>3. ASSUME NEW i \in 1..Len(order)
      PROVE  Holds(order, order[i].k) /\ NodeOf(order, order[i].k) = order[i]
  <2>1. Holds(order, order[i].k)
    BY <1>1 DEF Holds
  <2>2. Position(order, order[i].k) = i
    BY <1>2, <2>1 DEF IsLevel
  <2> QED BY <2>1, <2>2 DEF NodeOf
<1> QED BY <1>1, <1>2, <1>3 DEF NodeOf

\* A live entry is a node the walk visits.
LEMMA LiveNode ==
  ASSUME NEW order, IsLevel(order)
  PROVE  /\ \A key : Live(order, key) <=> \E nd \in Walked(order) : nd.k = key
         /\ \A nd \in Walked(order) :
              Live(order, nd.k) /\ NodeOf(order, nd.k) = nd /\ nd \in Node /\ nd \in ToSet(order)
BY Found DEF Live, Walked

\* The node of key taken out: the others, in order.
LEMMA WithoutIndex ==
  ASSUME NEW order, IsLevel(order), NEW key, Holds(order, key)
  PROVE  LET w == Without(order, key)  p == Position(order, key)
         IN /\ w \in Seq(Node) /\ Len(w) = Len(order) - 1 /\ Len(order) # 0
            /\ \A i \in 1..Len(order)-1 : w[i] = order[IF i < p THEN i ELSE i+1]
<1> DEFINE n == Len(order)  p == Position(order, key)
           a == SubSeq(order, 1, p-1)  z == SubSeq(order, p+1, n)
<1>1. n \in Nat /\ p \in 1..n /\ \A i \in 1..n : order[i] \in Node
  BY Found, LevelFacts DEF IsLevel
<1>2. Without(order, key) = a \o z
  BY DEF Without, RemoveAt
<1> HIDE DEF n, p
<1>3. a \in Seq(Node) /\ Len(a) = p-1 /\ \A i \in 1..p-1 : a[i] = order[i]
  <2>1. 1 \in Int /\ p-1 \in Int /\ \A i \in 1..p-1 : order[i] \in Node
    BY <1>1
  <2>2. /\ a \in Seq(Node) /\ Len(a) = IF 1 <= p-1 THEN (p-1)-1+1 ELSE 0
        /\ \A i \in 1..(p-1)-1+1 : a[i] = order[1+i-1]
    BY <2>1, SubSeqProperties
  <2> HIDE DEF a
  <2>3. \A i \in 1..p-1 : i \in 1..(p-1)-1+1 /\ 1+i-1 = i
    BY <1>1
  <2> QED BY <1>1, <2>2, <2>3
<1>4. z \in Seq(Node) /\ Len(z) = n-p /\ \A i \in 1..n-p : z[i] = order[p+i]
  <2>1. p+1 \in Int /\ n \in Int /\ \A i \in p+1..n : order[i] \in Node
    BY <1>1
  <2>2. /\ z \in Seq(Node) /\ Len(z) = IF p+1 <= n THEN n-(p+1)+1 ELSE 0
        /\ \A i \in 1..n-(p+1)+1 : z[i] = order[(p+1)+i-1]
    BY <2>1, SubSeqProperties
  <2> HIDE DEF z
  <2>3. \A i \in 1..n-p : i \in 1..n-(p+1)+1 /\ (p+1)+i-1 = p+i
    BY <1>1
  <2> QED BY <1>1, <2>2, <2>3
<1> HIDE DEF a, z
<1>5. /\ a \o z \in Seq(Node) /\ Len(a \o z) = Len(a) + Len(z)
      /\ \A i \in 1..Len(a) + Len(z) : (a \o z)[i] = IF i <= Len(a) THEN a[i] ELSE z[i - Len(a)]
  BY <1>3, <1>4, ConcatProperties
<1>6. Len(a) + Len(z) = n-1 /\ n # 0
  BY <1>1, <1>3, <1>4
<1>7. ASSUME NEW i \in 1..n-1 PROVE (a \o z)[i] = order[IF i < p THEN i ELSE i+1]
  <2>1. (a \o z)[i] = IF i <= p-1 THEN a[i] ELSE z[i - (p-1)]
    BY <1>3, <1>5, <1>6
  <2>2. CASE i < p
    BY <1>1, <1>3, <2>1, <2>2
  <2>3. CASE ~(i < p)
    <3>1. i-(p-1) \in 1..n-p /\ p + (i-(p-1)) = i+1 /\ ~(i <= p-1)
      BY <1>1, <2>3
    <3>2. z[i-(p-1)] = order[i+1]
      BY <1>4, <3>1
    <3> QED BY <2>1, <2>3, <3>1, <3>2
  <2> QED BY <2>2, <2>3
<1> QED BY <1>2, <1>5, <1>6, <1>7 DEF n, p

LEMMA WithoutLevel ==
  ASSUME NEW order, IsLevel(order), NEW key, Holds(order, key)
  PROVE  LET w == Without(order, key)
         IN /\ IsLevel(w) /\ Len(w) = Len(order) - 1 /\ Len(order) \in Nat \ {0}
            /\ ToSet(w) = {nd \in ToSet(order) : nd.k # key}
            /\ DeletedReusedFirst(order) => DeletedReusedFirst(w)
<1> DEFINE n == Len(order)  p == Position(order, key)  w == Without(order, key)
           at(i) == IF i < p THEN i ELSE i+1
<1>1. n \in Nat /\ p \in 1..n /\ order[p].k = key
      /\ ToSet(order) = {order[i] : i \in 1..n}
      /\ \A i \in 1..n : order[i].k = key => i = p
  BY Found, LevelFacts DEF IsLevel
<1>2. w \in Seq(Node) /\ Len(w) = n-1 /\ n # 0 /\ \A i \in 1..n-1 : w[i] = order[at(i)]
  BY WithoutIndex
<1>3. \A i, j \in 1..n : order[i].k = order[j].k => i = j
  BY DEF IsLevel
<1>4. DOMAIN w = 1..n-1 /\ DOMAIN order = 1..n /\ ToSet(w) = {w[i] : i \in 1..n-1}
  BY <1>2, LevelFacts DEF IsLevel
<1>5. \A i \in 1..n-1 : at(i) \in 1..n /\ at(i) # p
  BY <1>1
<1>6. \A i, j \in 1..n-1 : (i < j => at(i) < at(j)) /\ (at(i) = at(j) => i = j)
  BY <1>1
<1>7. ASSUME NEW i \in 1..n, i # p PROVE \E j \in 1..n-1 : at(j) = i
  <2>1. CASE i < p
    BY <1>1, <2>1
  <2>2. CASE i > p
    <3>1. i-1 \in 1..n-1 /\ at(i-1) = i
      BY <1>1, <2>2
    <3> QED BY <3>1
  <2> QED BY <1>1, <1>7, <2>1, <2>2
<1> HIDE DEF n, p, w, at
<1>8. IsLevel(w)
  BY <1>2, <1>3, <1>5, <1>6 DEF IsLevel
<1>9. ToSet(w) = {nd \in ToSet(order) : nd.k # key}
  <2>1. \A i \in 1..n-1 : w[i] \in ToSet(order) /\ w[i].k # key
    BY <1>1, <1>2, <1>5
  <2>2. ASSUME NEW i \in 1..n, order[i].k # key PROVE order[i] \in ToSet(w)
    BY <1>1, <1>2, <1>4, <1>7, <2>2
  <2> QED BY <1>1, <1>4, <2>1, <2>2
<1>10. DeletedReusedFirst(order) => DeletedReusedFirst(w)
  BY <1>2, <1>4, <1>5, <1>6 DEF DeletedReusedFirst
<1> QED BY <1>1, <1>2, <1>8, <1>9, <1>10 DEF n, w

\* A node in front of a level that does not have its key.
LEMMA ConsLevel ==
  ASSUME NEW order, IsLevel(order), NEW nd \in Node, \A other \in ToSet(order) : other.k # nd.k
  PROVE  LET w == <<nd>> \o order
         IN /\ IsLevel(w) /\ Len(w) = Len(order) + 1
            /\ ToSet(w) = {nd} \cup ToSet(order)
            /\ DeletedReusedFirst(order) /\ nd.expireAt > 0 => DeletedReusedFirst(w)
<1> DEFINE n == Len(order)  one == <<nd>>  w == one \o order
<1>1. /\ n \in Nat /\ DOMAIN order = 1..n /\ \A i \in 1..n : order[i] \in Node /\ order[i] \in ToSet(order)
      /\ order \in Seq(Node)
  BY LevelFacts DEF IsLevel
<1>2. one \in Seq(Node) /\ Len(one) = 1 /\ one[1] = nd /\ ToSet(one) = {nd}
  BY DEF ToSet
<1> HIDE DEF one
<1>3. /\ w \in Seq(Node) /\ Len(w) = 1 + n
      /\ \A i \in 1..1+n : w[i] = IF i <= 1 THEN one[i] ELSE order[i-1]
  <2>1. /\ w \in Seq(Node) /\ Len(w) = Len(one) + n
        /\ \A i \in 1..Len(one)+n : w[i] = IF i <= Len(one) THEN one[i] ELSE order[i-Len(one)]
    <3>1. one \in Seq(Node) /\ order \in Seq(Node)
      BY <1>1, <1>2
    <3> QED BY <3>1, ConcatProperties
  <2> QED BY <1>2, <2>1
<1>4. ToSet(w) = {nd} \cup ToSet(order)
  BY <1>1, <1>2, SetOfConcat
<1>5. DOMAIN w = 1..1+n
  BY <1>3, LevelFacts
<1>6. \A i, j \in 1..n : order[i].k = order[j].k => i = j
  BY DEF IsLevel
<1> HIDE DEF n, w
<1>7. \A i \in 1..1+n : (i = 1 /\ w[i] = nd) \/ (i-1 \in 1..n /\ w[i] = order[i-1])
  BY <1>1, <1>2, <1>3
<1>8. IsLevel(w)
  <2> SUFFICES ASSUME NEW i \in 1..1+n, NEW j \in 1..1+n, w[i].k = w[j].k PROVE i = j
    BY <1>3 DEF IsLevel
  <2> QED BY <1>1, <1>6, <1>7
<1>9. DeletedReusedFirst(order) /\ nd.expireAt > 0 => DeletedReusedFirst(w)
  <2> SUFFICES ASSUME DeletedReusedFirst(order), nd.expireAt > 0,
                      NEW i \in 1..1+n, NEW j \in 1..1+n, i < j, w[i].expireAt = 0
               PROVE  w[j].expireAt = 0
    BY <1>5 DEF DeletedReusedFirst
  <2>1. i-1 \in 1..n /\ w[i] = order[i-1] /\ j-1 \in 1..n /\ w[j] = order[j-1] /\ i-1 < j-1
    BY <1>1, <1>7
  <2> QED BY <1>1, <2>1 DEF DeletedReusedFirst
<1> QED BY <1>1, <1>3, <1>4, <1>8, <1>9 DEF n, w, one

\* A node behind a level that does not have its key.
LEMMA AppendLevel ==
  ASSUME NEW order, IsLevel(order), NEW nd \in Node, \A other \in ToSet(order) : other.k # nd.k
  PROVE  LET w == Append(order, nd)
         IN /\ IsLevel(w) /\ Len(w) = Len(order) + 1
            /\ ToSet(w) = ToSet(order) \cup {nd}
            /\ DeletedReusedFirst(order) /\ nd.expireAt = 0 => DeletedReusedFirst(w)
<1> DEFINE n == Len(order)  w == Append(order, nd)
<1>1. /\ n \in Nat /\ DOMAIN order = 1..n /\ \A i \in 1..n : order[i] \in Node /\ order[i] \in ToSet(order)
      /\ order \in Seq(Node)
  BY LevelFacts DEF IsLevel
<1>2. /\ w \in Seq(Node) /\ Len(w) = n+1 /\ w[n+1] = nd /\ \A i \in 1..n : w[i] = order[i]
  BY <1>1, AppendProperties
<1>3. ToSet(w) = ToSet(order) \cup {nd}
  BY <1>1, SetOfAppend
<1>4. DOMAIN w = 1..n+1
  BY <1>2, LevelFacts
<1>5. \A i, j \in 1..n : order[i].k = order[j].k => i = j
  BY DEF IsLevel
<1> HIDE DEF n, w
<1>6. \A i \in 1..n+1 : (i = n+1 /\ w[i] = nd) \/ (i \in 1..n /\ w[i] = order[i])
  BY <1>1, <1>2
<1>7. IsLevel(w)
  <2> SUFFICES ASSUME NEW i \in 1..n+1, NEW j \in 1..n+1, w[i].k = w[j].k PROVE i = j
    BY <1>2 DEF IsLevel
  <2> QED BY <1>1, <1>5, <1>6
<1>8. DeletedReusedFirst(order) /\ nd.expireAt = 0 => DeletedReusedFirst(w)
  <2> SUFFICES ASSUME DeletedReusedFirst(order), nd.expireAt = 0,
                      NEW i \in 1..n+1, NEW j \in 1..n+1, i < j, w[i].expireAt = 0
               PROVE  w[j].expireAt = 0
    BY <1>4 DEF DeletedReusedFirst
  <2>1. CASE j = n+1
    BY <1>2, <2>1
  <2>2. CASE j \in 1..n
    <3>1. i \in 1..n /\ w[i] = order[i] /\ w[j] = order[j]
      BY <1>1, <1>6, <2>2
    <3> QED BY <1>1, <2>2, <3>1 DEF DeletedReusedFirst
  <2> QED BY <1>6, <2>1, <2>2
<1> QED BY <1>1, <1>2, <1>3, <1>7, <1>8 DEF n, w

\* A level without its tail.
LEMMA FrontLevel ==
  ASSUME NEW order, IsLevel(order), Len(order) # 0
  PROVE  LET w == Front(order)
         IN /\ IsLevel(w) /\ Len(w) = Len(order) - 1 /\ Last(order) \in ToSet(order)
            /\ ToSet(w) = ToSet(order) \ {Last(order)}
            /\ DeletedReusedFirst(order) => DeletedReusedFirst(w)
<1> DEFINE n == Len(order)  w == Front(order)
<1>1. /\ n \in Nat /\ DOMAIN order = 1..n /\ \A i \in 1..n : order[i] \in Node
      /\ order \in Seq(Node) /\ ToSet(order) = {order[i] : i \in 1..n} /\ n # 0
  BY LevelFacts DEF IsLevel
<1>2. /\ w \in Seq(Node) /\ Len(w) = n-1 /\ \A i \in 1..n-1 : w[i] = order[i]
  <2>1. 1 \in Int /\ n-1 \in Int /\ \A i \in 1..n-1 : order[i] \in Node
    BY <1>1
  <2>2. /\ w \in Seq(Node) /\ Len(w) = IF 1 <= n-1 THEN (n-1)-1+1 ELSE 0
        /\ \A i \in 1..(n-1)-1+1 : w[i] = order[1+i-1]
    BY <2>1, SubSeqProperties DEF Front
  <2> HIDE DEF w, n
  <2>3. \A i \in 1..n-1 : i \in 1..(n-1)-1+1 /\ 1+i-1 = i
    BY <1>1
  <2> QED BY <1>1, <2>2, <2>3
<1>3. DOMAIN w = 1..n-1 /\ ToSet(w) = {w[i] : i \in 1..n-1}
  BY <1>2, LevelFacts
<1>4. \A i, j \in 1..n : order[i].k = order[j].k => i = j
  BY DEF IsLevel
<1>5. Last(order) = order[n]
  BY DEF Last
<1> HIDE DEF n, w
<1>6. \A i \in 1..n-1 : i \in 1..n /\ i # n
  BY <1>1
<1>7. IsLevel(w)
  BY <1>2, <1>4, <1>6 DEF IsLevel
<1>8. ToSet(w) = ToSet(order) \ {Last(order)}
  <2>1. \A i \in 1..n-1 : w[i] \in ToSet(order) /\ w[i] # order[n]
    BY <1>1, <1>2, <1>4, <1>6
  <2>2. \A i \in 1..n : order[i] # order[n] => i \in 1..n-1
    BY <1>1
  <2> QED BY <1>1, <1>2, <1>3, <1>5, <2>1, <2>2
<1>9. DeletedReusedFirst(order) => DeletedReusedFirst(w)
  BY <1>1, <1>2, <1>3, <1>6 DEF DeletedReusedFirst
<1>10. n \in 1..n
  BY <1>1
<1> QED BY <1>1, <1>2, <1>5, <1>7, <1>8, <1>9, <1>10 DEF n, w

-----------------------------------------------------------------------------
(* What put, get and del do to a level: its size, and its live nodes.         *)

LEMMA LevelPut ==
  ASSUME NEW order, IsLevel(order), NEW cap \in Nat \ {0}, Len(order) <= cap, NEW nd \in Node
  PROVE  LET w == PutIn(order, cap, nd)
         IN /\ IsLevel(w) /\ Len(w) <= cap
            /\ ToSet(w) \subseteq {nd} \cup ToSet(order)
            /\ Walked(w) = {new \in {nd} : nd.expireAt > 0}
                           \cup {old \in Walked(order) : old.k # nd.k
                                                         /\ old \notin Displaced(order, cap, nd.k)}
            /\ DeletedReusedFirst(order) /\ nd.expireAt > 0 => DeletedReusedFirst(w)
<1> DEFINE w == PutIn(order, cap, nd)  key == nd.k
           kept == {old \in Walked(order) : old.k # key /\ old \notin Displaced(order, cap, key)}
<1>0. Len(order) \in Nat /\ \A other \in ToSet(order) : Holds(order, other.k) /\ other \in Node
  BY LevelFacts, Found DEF IsLevel
<1>1. CASE Holds(order, key)
  <2> DEFINE s == Without(order, key)
  <2>1. /\ IsLevel(s) /\ Len(s) = Len(order) - 1 /\ ToSet(s) = {other \in ToSet(order) : other.k # key}
        /\ DeletedReusedFirst(order) => DeletedReusedFirst(s)
    BY <1>1, WithoutLevel
  <2>2. w = <<nd>> \o s
    BY <1>1 DEF PutIn
  <2>3. Displaced(order, cap, key) = {}
    BY <1>1 DEF Displaced
  <2> HIDE DEF s, w, key
  <2>4. /\ IsLevel(w) /\ Len(w) = Len(s) + 1 /\ ToSet(w) = {nd} \cup ToSet(s)
        /\ DeletedReusedFirst(s) /\ nd.expireAt > 0 => DeletedReusedFirst(w)
    BY <2>1, <2>2, ConsLevel DEF key
  <2>5. Walked(w) = {new \in {nd} : nd.expireAt > 0} \cup kept
    BY <2>1, <2>3, <2>4 DEF Walked
  <2> QED BY <1>0, <2>1, <2>4, <2>5 DEF w, key
<1>2. CASE ~Holds(order, key) /\ Len(order) = cap
  <2> DEFINE s == Front(order)
  <2>1. /\ IsLevel(s) /\ Len(s) = Len(order) - 1 /\ ToSet(s) = ToSet(order) \ {Last(order)}
        /\ Last(order) \in ToSet(order)
        /\ DeletedReusedFirst(order) => DeletedReusedFirst(s)
    BY <1>2, FrontLevel
  <2>2. w = <<nd>> \o s
    BY <1>2 DEF PutIn
  <2>3. Displaced(order, cap, key) = {other \in {Last(order)} : other.expireAt > 0}
    BY <1>2 DEF Displaced, Last
  <2>4. \A other \in ToSet(order) : other.k # key
    BY <1>0, <1>2
  <2> HIDE DEF s, w
  <2>5. /\ IsLevel(w) /\ Len(w) = Len(s) + 1 /\ ToSet(w) = {nd} \cup ToSet(s)
        /\ DeletedReusedFirst(s) /\ nd.expireAt > 0 => DeletedReusedFirst(w)
    BY <2>1, <2>2, <2>4, ConsLevel
  <2>6. Walked(w) = {new \in {nd} : nd.expireAt > 0} \cup kept
    BY <2>1, <2>3, <2>4, <2>5 DEF Walked
  <2> QED BY <1>0, <2>1, <2>5, <2>6 DEF w
<1>3. CASE ~Holds(order, key) /\ Len(order) # cap
  <2>2. w = <<nd>> \o order
    BY <1>3 DEF PutIn
  <2>3. Displaced(order, cap, key) = {}
    BY <1>3 DEF Displaced
  <2>4. \A other \in ToSet(order) : other.k # key
    BY <1>0, <1>3
  <2> HIDE DEF w
  <2>5. /\ IsLevel(w) /\ Len(w) = Len(order) + 1 /\ ToSet(w) = {nd} \cup ToSet(order)
        /\ DeletedReusedFirst(order) /\ nd.expireAt > 0 => DeletedReusedFirst(w)
    BY <2>2, <2>4, ConsLevel
  <2>6. Walked(w) = {new \in {nd} : nd.expireAt > 0} \cup kept
    BY <2>3, <2>4, <2>5 DEF Walked
  <2> QED BY <1>0, <1>3, <2>5, <2>6 DEF w
<1> QED BY <1>1, <1>2, <1>3

\* What a full level pushes out: at most its tail, and another key.
LEMMA LevelDisplaced ==
  ASSUME NEW order, IsLevel(order), NEW cap, NEW key
  PROVE  /\ Displaced(order, cap, key) \subseteq {Last(order)}
         /\ Displaced(order, cap, key) # {} =>
              /\ Displaced(order, cap, key) = {Last(order)}
              /\ Last(order) \in Walked(order) /\ Last(order).k # key /\ Last(order) \in Node
<1>1. ToSet(order) = {order[i] : i \in 1..Len(order)} /\ Len(order) \in Nat
  BY LevelFacts DEF IsLevel
<1>2. Displaced(order, cap, key) \subseteq {Last(order)}
  BY DEF Displaced, Last
<1>3. ASSUME Displaced(order, cap, key) # {}
      PROVE  Len(order) # 0 /\ ~Holds(order, key) /\ Last(order).expireAt > 0
  BY <1>3 DEF Displaced, Last
<1>4. ASSUME Displaced(order, cap, key) # {}
      PROVE  Last(order) \in ToSet(order) /\ Last(order).k # key /\ Last(order) \in Node
  <2>1. Last(order) \in ToSet(order)
    BY <1>1, <1>3, <1>4 DEF Last
  <2> QED BY <1>3, <1>4, <2>1, Found
<1> QED BY <1>2, <1>3, <1>4 DEF Walked

LEMMA LevelTouch ==
  ASSUME NEW order, IsLevel(order), NEW key
  PROVE  LET w == Touch(order, key)
         IN IsLevel(w) /\ Len(w) = Len(order) /\ ToSet(w) = ToSet(order) /\ Walked(w) = Walked(order)
<1>1. CASE Holds(order, key)
  <2> DEFINE s == Without(order, key)  nd == NodeOf(order, key)  w == Touch(order, key)
  <2>1. /\ IsLevel(s) /\ Len(s) = Len(order) - 1 /\ ToSet(s) = {other \in ToSet(order) : other.k # key}
        /\ Len(order) \in Nat
    BY <1>1, WithoutLevel
  <2>2. nd \in Node /\ nd.k = key /\ nd \in ToSet(order)
    BY <1>1, Found
  <2>3. \A other \in ToSet(order) : other.k = key => other = nd
    BY Found
  <2>4. w = <<nd>> \o s
    BY <1>1 DEF Touch
  <2> HIDE DEF s, w, nd
  <2>5. IsLevel(w) /\ Len(w) = Len(s) + 1 /\ ToSet(w) = {nd} \cup ToSet(s)
    BY <2>1, <2>2, <2>4, ConsLevel
  <2>6. ToSet(w) = ToSet(order)
    BY <2>1, <2>2, <2>3, <2>5
  <2> QED BY <2>1, <2>5, <2>6 DEF w, Walked
<1>2. CASE ~Holds(order, key)
  BY <1>2 DEF Touch
<1> QED BY <1>1, <1>2

LEMMA LevelDel ==
  ASSUME NEW order, IsLevel(order), NEW key
  PROVE  LET w == DelIn(order, key)
         IN /\ IsLevel(w) /\ Len(w) = Len(order)
            /\ Walked(w) = {old \in Walked(order) : old.k # key}
            /\ \A nd \in ToSet(w) : \E old \in ToSet(order) : nd.k = old.k
            /\ DeletedReusedFirst(order) => DeletedReusedFirst(w)
<1>1. CASE Live(order, key)
  <2> DEFINE s == Without(order, key)  nd == NodeOf(order, key)  w == DelIn(order, key)
             gone == [nd EXCEPT !.expireAt = 0]
  <2>1. /\ IsLevel(s) /\ Len(s) = Len(order) - 1 /\ ToSet(s) = {other \in ToSet(order) : other.k # key}
        /\ Len(order) \in Nat /\ DeletedReusedFirst(order) => DeletedReusedFirst(s)
    BY <1>1, WithoutLevel DEF Live
  <2>2. nd \in Node /\ nd.k = key /\ nd \in ToSet(order)
    BY <1>1, Found DEF Live
  <2>3. w = Append(s, gone)
    BY <1>1 DEF DelIn
  <2> HIDE DEF s, w, nd
  <2>4. gone \in Node /\ gone.k = key /\ gone.expireAt = 0
    BY <2>2 DEF Node
  <2> HIDE DEF gone
  <2>5. /\ IsLevel(w) /\ Len(w) = Len(s) + 1 /\ ToSet(w) = ToSet(s) \cup {gone}
        /\ DeletedReusedFirst(s) => DeletedReusedFirst(w)
    BY <2>1, <2>3, <2>4, AppendLevel
  <2>6. Walked(w) = {old \in Walked(order) : old.k # key}
    BY <2>1, <2>4, <2>5 DEF Walked
  <2>7. \A other \in ToSet(w) : \E old \in ToSet(order) : other.k = old.k
    BY <2>1, <2>2, <2>4, <2>5
  <2> QED BY <2>1, <2>5, <2>6, <2>7 DEF w
<1>2. CASE ~Live(order, key)
  <2>1. DelIn(order, key) = order
    BY <1>2 DEF DelIn
  <2>2. \A old \in Walked(order) : old.k # key
    BY <1>2, LiveNode
  <2> QED BY <2>1, <2>2
<1> QED BY <1>1, <1>2

-----------------------------------------------------------------------------
(* Two levels: what a Get of a key would answer, and how that changes.        *)

IsBucket(levels, b) ==
  /\ levels \in [1..2 -> Seq(Node)]
  /\ IsLevel(levels[1]) /\ Len(levels[1]) <= L1Cap
  /\ IsLevel(levels[2]) /\ Len(levels[2]) <= L2Cap
  /\ \A nd \in ToSet(levels[1]) \cup ToSet(levels[2]) : BucketOf[nd.k] = b

InTime(nd, now) == IF now >= nd.expireAt THEN None ELSE nd.v

ValueAt(level, key, now) ==
  IF Live(level, key) /\ ~Expired(NodeOf(level, key), now) THEN NodeOf(level, key).v ELSE None

ReadAt(levels, key, now) ==
  IF Live(levels[1], key) THEN ValueAt(levels[1], key, now) ELSE ValueAt(levels[2], key, now)

\* The live nodes of key, the same in both.
SameNodes(old, new, key) == \A nd : nd.k = key => (nd \in Walked(old) <=> nd \in Walked(new))

LEMMA ReadFacts ==
  ASSUME NEW levels, IsLevel(levels[1]), IsLevel(levels[2]), NEW key, NEW now
  PROVE  /\ \A nd \in Walked(levels[1]) : nd.k = key => ReadAt(levels, key, now) = InTime(nd, now)
         /\ (\A nd \in Walked(levels[1]) : nd.k # key) =>
              \A nd \in Walked(levels[2]) : nd.k = key => ReadAt(levels, key, now) = InTime(nd, now)
         /\ (\A nd \in Walked(levels[1]) \cup Walked(levels[2]) : nd.k # key) =>
              ReadAt(levels, key, now) = None
<1>1. ASSUME NEW order, IsLevel(order), NEW nd \in Walked(order), nd.k = key
      PROVE  Live(order, key) /\ ValueAt(order, key, now) = InTime(nd, now)
  <2>1. Live(order, key) /\ NodeOf(order, key) = nd
    BY <1>1, LiveNode
  <2>2. nd.expireAt > 0
    BY <1>1 DEF Walked
  <2> QED BY <2>1, <2>2 DEF ValueAt, InTime, Expired
<1>2. ASSUME NEW order, IsLevel(order), \A nd \in Walked(order) : nd.k # key
      PROVE  ~Live(order, key) /\ ValueAt(order, key, now) = None
  BY <1>2, LiveNode DEF ValueAt
<1> QED BY <1>1, <1>2 DEF ReadAt

LEMMA SameRead ==
  ASSUME NEW levels, IsLevel(levels[1]), IsLevel(levels[2]),
         NEW new, IsLevel(new[1]), IsLevel(new[2]), NEW key, NEW now,
         SameNodes(levels[1], new[1], key),
         SameNodes(levels[2], new[2], key) \/ \E nd \in Walked(levels[1]) : nd.k = key
  PROVE  ReadAt(new, key, now) = ReadAt(levels, key, now)
<1>1. CASE \E nd \in Walked(levels[1]) : nd.k = key
  <2>1. PICK nd \in Walked(levels[1]) : nd.k = key
    BY <1>1
  <2>2. nd \in Walked(new[1])
    BY <2>1 DEF SameNodes
  <2> QED BY <2>1, <2>2, ReadFacts
<1>2. CASE \A nd \in Walked(levels[1]) : nd.k # key
  <2>1. (\A nd \in Walked(new[1]) : nd.k # key) /\ SameNodes(levels[2], new[2], key)
    BY <1>2 DEF SameNodes
  <2>2. CASE \E nd \in Walked(levels[2]) : nd.k = key
    <3>1. PICK nd \in Walked(levels[2]) : nd.k = key
      BY <2>2
    <3>2. nd \in Walked(new[2])
      BY <2>1, <3>1 DEF SameNodes
    <3> QED BY <1>2, <2>1, <3>1, <3>2, ReadFacts
  <2>3. CASE \A nd \in Walked(levels[2]) : nd.k # key
    <3>1. \A nd \in Walked(new[2]) : nd.k # key
      BY <2>1, <2>3 DEF SameNodes
    <3> QED BY <1>2, <2>1, <2>3, <3>1, ReadFacts
  <2> QED BY <2>2, <2>3
<1> QED BY <1>1, <1>2

\* What a full level 2 reports: the only live node of its key, which is gone.
LEMMA ReportFacts ==
  ASSUME NEW level, IsLevel(level), Len(level) <= L2Cap, NEW nd \in Node
  PROVE  \/ Displaced(level, L2Cap, nd.k) = {} /\ EvictionReport(level, nd.k) = <<>>
         \/ \E out \in Walked(level) :
              /\ Displaced(level, L2Cap, nd.k) = {out} /\ EvictionReport(level, nd.k) = <<Entry(out)>>
              /\ out.k # nd.k /\ out \in Node
              /\ \A other \in Walked(level) : other.k = out.k => other = out
<1>1. CASE Displaced(level, L2Cap, nd.k) = {}
  BY <1>1 DEF EvictionReport
<1>2. CASE Displaced(level, L2Cap, nd.k) # {}
  <2>1. /\ Displaced(level, L2Cap, nd.k) = {Last(level)}
        /\ Last(level) \in Walked(level) /\ Last(level).k # nd.k /\ Last(level) \in Node
    BY <1>2, LevelDisplaced
  <2>2. EvictionReport(level, nd.k) = <<Entry(Last(level))>>
    BY <1>2 DEF EvictionReport
  <2>3. \A other \in Walked(level) : other.k = Last(level).k => other = Last(level)
    BY <2>1, LiveNode
  <2> QED BY <2>1, <2>2, <2>3
<1> QED BY <1>1, <1>2

\* A live node of level 1 is moved to level 2: a Get still finds it, and what
\* level 2 pushes out is reported when a Get found it.
LEMMA MovedDown ==
  ASSUME NEW levels, NEW b, IsBucket(levels, b), NEW nd \in Walked(levels[1]),
         NEW new, IsLevel(new[1]), new[2] = PutIn(levels[2], L2Cap, nd),
         \A other \in Walked(new[1]) : other.k # nd.k,
         NEW key, key # nd.k => SameNodes(levels[1], new[1], key), NEW now
  PROVE  \/ ReadAt(new, key, now) = ReadAt(levels, key, now)
         \/ /\ ReadAt(new, key, now) = None
            /\ EvictionReport(levels[2], nd.k) = <<[k |-> key, v |-> ReadAt(levels, key, now)]>>
<1> DEFINE W1 == Walked(levels[1])  W2 == Walked(levels[2])  V1 == Walked(new[1])  V2 == Walked(new[2])
           D == Displaced(levels[2], L2Cap, nd.k)
<1>1. IsLevel(levels[1]) /\ IsLevel(levels[2]) /\ Len(levels[2]) <= L2Cap /\ L2Cap \in Nat \ {0}
  BY StoreAssumption DEF IsBucket
<1>2. nd \in Node /\ nd.expireAt > 0
  BY <1>1, LiveNode DEF Walked
<1>3. IsLevel(new[2]) /\ V2 = {nd} \cup {old \in W2 : old.k # nd.k /\ old \notin D}
  BY <1>1, <1>2, LevelPut
<1>4. CASE key = nd.k
  BY <1>1, <1>3, <1>4, ReadFacts
<1>5. CASE key # nd.k /\ \A old \in D : old.k # key
  <2>1. SameNodes(levels[2], new[2], key)
    BY <1>3, <1>5 DEF SameNodes
  <2> QED BY <1>1, <1>3, <1>5, <2>1, SameRead
<1>6. CASE key # nd.k /\ \E old \in D : old.k = key
  <2>1. PICK out \in W2 :
          /\ D = {out} /\ EvictionReport(levels[2], nd.k) = <<Entry(out)>>
          /\ \A other \in W2 : other.k = out.k => other = out
    <3> DEFINE level == levels[2]
    <3>1. IsLevel(level) /\ Len(level) <= L2Cap
      BY <1>1
    <3> HIDE DEF level
    <3>2. \/ Displaced(level, L2Cap, nd.k) = {} /\ EvictionReport(level, nd.k) = <<>>
          \/ \E out \in Walked(level) :
               /\ Displaced(level, L2Cap, nd.k) = {out} /\ EvictionReport(level, nd.k) = <<Entry(out)>>
               /\ out.k # nd.k /\ out \in Node
               /\ \A other \in Walked(level) : other.k = out.k => other = out
      BY <1>2, <3>1, ReportFacts
    <3>3. Displaced(level, L2Cap, nd.k) # {}
      BY <1>6 DEF level
    <3> QED BY <3>2, <3>3 DEF level
  <2>2. out.k = key /\ \A other \in V2 : other.k # key
    BY <1>3, <1>6, <2>1
  <2>3. CASE \E other \in W1 : other.k = key
    BY <1>1, <1>3, <1>6, <2>3, SameRead
  <2>4. CASE \A other \in W1 : other.k # key
    <3>1. \A other \in V1 : other.k # key
      BY <1>6, <2>4 DEF SameNodes
    <3>2. ReadAt(new, key, now) = None
      BY <1>1, <1>3, <2>2, <3>1, ReadFacts
    <3>3. ReadAt(levels, key, now) = InTime(out, now)
      BY <1>1, <2>2, <2>4, ReadFacts
    <3> QED BY <2>1, <2>2, <3>2, <3>3 DEF Entry, InTime
  <2> QED BY <2>3, <2>4
<1> QED BY <1>4, <1>5, <1>6

-----------------------------------------------------------------------------
(* The operations of the store on one bucket: each keeps the bucket, changes  *)
(* what a Get answers only as it should, tells what it drops, makes no other  *)
(* key live, and keeps deleted slots of level 1 at its tail.                  *)

IsPair(levels) == levels = [i \in 1..2 |-> levels[i]]

LEMMA PairExcept ==
  ASSUME NEW S, NEW levels \in [1..2 -> S], NEW first, NEW second
  PROVE  LET new == [levels EXCEPT ![1] = first, ![2] = second]
         IN new[1] = first /\ new[2] = second /\ IsPair(new)
<1> DEFINE new == [levels EXCEPT ![1] = first, ![2] = second]
<1>1. DOMAIN new = 1..2 /\ new[1] = first /\ new[2] = second
  OBVIOUS
<1>2. new = [i \in 1..2 |-> new[i]]
  BY <1>1
<1> QED BY <1>1, <1>2 DEF IsPair

LEMMA PairExcept2 ==
  ASSUME NEW S, NEW levels \in [1..2 -> S], NEW second
  PROVE  [levels EXCEPT ![2] = second] = <<levels[1], second>>
OBVIOUS

LEMMA BucketFrom ==
  ASSUME NEW levels, NEW b, IsBucket(levels, b), NEW new, IsPair(new),
         IsLevel(new[1]), Len(new[1]) <= L1Cap, IsLevel(new[2]), Len(new[2]) <= L2Cap,
         \A nd \in ToSet(new[1]) \cup ToSet(new[2]) : BucketOf[nd.k] = b
  PROVE  IsBucket(new, b)
<1>1. \A i \in 1..2 : i = 1 \/ i = 2
  OBVIOUS
<1>2. new[1] \in Seq(Node) /\ new[2] \in Seq(Node)
  BY DEF IsLevel
<1>3. new \in [1..2 -> Seq(Node)]
  BY <1>1, <1>2 DEF IsPair
<1> QED BY <1>3 DEF IsBucket

LiveKeys(levels) == {nd.k : nd \in Walked(levels[1]) \cup Walked(levels[2])}

Report == [k : Keys, v : Values]

\* A Get of key is answered as before, or its entry is gone and was reported.
ReadOrReported(levels, new, rep, key, now) ==
  \/ ReadAt(new, key, now) = ReadAt(levels, key, now)
  \/ ReadAt(new, key, now) = None /\ rep = <<[k |-> key, v |-> ReadAt(levels, key, now)]>>

\* The key of a report has left level 2, and level 1 still has the node of it
\* that it had.
GoneFrom(levels, new, key) ==
  /\ \A nd \in Walked(new[2]) : nd.k # key
  /\ \A nd \in Walked(new[1]) : nd.k = key => nd \in Walked(levels[1])

\* At most one report, typed.
LEMMA ReportTyped ==
  ASSUME NEW level, IsLevel(level), Len(level) <= L2Cap, NEW nd \in Node
  PROVE  LET rep == EvictionReport(level, nd.k)
         IN /\ rep \in Seq(Report) /\ Len(rep) \in {0, 1} /\ (Len(rep) = 0 => rep = <<>>)
            /\ \A i \in 1..Len(rep) :
                 \E out \in Displaced(level, L2Cap, nd.k) : rep[i] = Entry(out) /\ out \in Walked(level)
<1>1. CASE EvictionReport(level, nd.k) = <<>>
  <2>1. <<>> \in Seq(Report) /\ Len(<<>>) = 0
    BY EmptySeq
  <2> QED BY <1>1, <2>1
<1>2. CASE \E out \in Walked(level) :
              /\ Displaced(level, L2Cap, nd.k) = {out} /\ EvictionReport(level, nd.k) = <<Entry(out)>>
              /\ out \in Node
  <2>1. PICK out \in Walked(level) :
              /\ Displaced(level, L2Cap, nd.k) = {out} /\ EvictionReport(level, nd.k) = <<Entry(out)>>
              /\ out \in Node
    BY <1>2
  <2> DEFINE e == Entry(out)
  <2>2. e \in Report
    BY <2>1 DEF Entry, Report, Node
  <2> HIDE DEF e
  <2>3. <<e>> \in Seq(Report) /\ Len(<<e>>) = 1 /\ <<e>>[1] = e /\ \A i \in 1..1 : i = 1
    BY <2>2
  <2> QED BY <2>1, <2>3 DEF e
<1> QED BY <1>1, <1>2, ReportFacts

\* SetWithExpiration under the lock: what it leaves, and what it reports.
AfterPut(levels, nd) ==
  [levels EXCEPT ![1] = PutIn(levels[1], L1Cap, nd),
                 ![2] = IF Displaced(levels[1], L1Cap, nd.k) = {} THEN levels[2]
                        ELSE PutIn(levels[2], L2Cap, Last(levels[1]))]

PutReport(levels, nd) ==
  IF Displaced(levels[1], L1Cap, nd.k) = {} THEN <<>>
  ELSE EvictionReport(levels[2], Last(levels[1]).k)

LEMMA BucketPut ==
  ASSUME NEW levels, NEW b, IsBucket(levels, b), NEW nd \in Node, BucketOf[nd.k] = b, NEW now \in Nat
  PROVE  LET new == AfterPut(levels, nd)  rep == PutReport(levels, nd)
         IN /\ IsBucket(new, b)
            /\ nd.expireAt > 0 => ReadAt(new, nd.k, now) = InTime(nd, now)
            /\ \A key : key # nd.k => ReadOrReported(levels, new, rep, key, now)
            /\ rep \in Seq(Report) /\ Len(rep) \in {0, 1}
            /\ \A i \in 1..Len(rep) : rep[i].k = nd.k \/ GoneFrom(levels, new, rep[i].k)
            /\ \A i \in 1..Len(rep) : BucketOf[rep[i].k] = b /\ \A other \in Walked(new[2]) : other.k # rep[i].k
            /\ LiveKeys(new) \subseteq {nd.k} \cup LiveKeys(levels)
            /\ nd.expireAt > 0 /\ DeletedReusedFirst(levels[1]) => DeletedReusedFirst(new[1])
<1> DEFINE new == AfterPut(levels, nd)  rep == PutReport(levels, nd)
<1>0. /\ new[1] = PutIn(levels[1], L1Cap, nd)
      /\ new[2] = IF Displaced(levels[1], L1Cap, nd.k) = {} THEN levels[2]
                  ELSE PutIn(levels[2], L2Cap, Last(levels[1]))
      /\ IsPair(new)
  <2>1. levels \in [1..2 -> Seq(Node)]
    BY DEF IsBucket
  <2> DEFINE first == PutIn(levels[1], L1Cap, nd)
             second == IF Displaced(levels[1], L1Cap, nd.k) = {} THEN levels[2]
                       ELSE PutIn(levels[2], L2Cap, Last(levels[1]))
             pair == [levels EXCEPT ![1] = first, ![2] = second]
  <2>2. new = pair
    BY DEF AfterPut
  <2> HIDE DEF first, second, new
  <2>3. pair[1] = first /\ pair[2] = second /\ IsPair(pair)
    BY <2>1, PairExcept
  <2> HIDE DEF pair
  <2> QED BY <2>2, <2>3 DEF first, second
<1> HIDE DEF new, rep
<1> DEFINE W1 == Walked(levels[1])  W2 == Walked(levels[2])  V1 == Walked(new[1])  V2 == Walked(new[2])
           D1 == Displaced(levels[1], L1Cap, nd.k)  e == Last(levels[1])
<1>1. /\ IsLevel(levels[1]) /\ IsLevel(levels[2]) /\ Len(levels[1]) <= L1Cap /\ Len(levels[2]) <= L2Cap
      /\ L1Cap \in Nat \ {0} /\ L2Cap \in Nat \ {0}
      /\ \A other \in ToSet(levels[1]) \cup ToSet(levels[2]) : BucketOf[other.k] = b
  BY StoreAssumption DEF IsBucket
<1>2. /\ IsLevel(new[1]) /\ Len(new[1]) <= L1Cap /\ ToSet(new[1]) \subseteq {nd} \cup ToSet(levels[1])
      /\ V1 = {other \in {nd} : nd.expireAt > 0} \cup {old \in W1 : old.k # nd.k /\ old \notin D1}
      /\ nd.expireAt > 0 /\ DeletedReusedFirst(levels[1]) => DeletedReusedFirst(new[1])
  BY <1>0, <1>1, LevelPut
<1>3. CASE D1 = {}
  <2>1. new[2] = levels[2] /\ rep = <<>>
    BY <1>0, <1>3 DEF PutReport, rep
  <2>2. IsBucket(new, b)
    BY <1>0, <1>1, <1>2, <2>1, BucketFrom
  <2>3. nd.expireAt > 0 => ReadAt(new, nd.k, now) = InTime(nd, now)
    BY <1>1, <1>2, <2>1, ReadFacts
  <2>4. ASSUME NEW key, key # nd.k PROVE ReadAt(new, key, now) = ReadAt(levels, key, now)
    <3>1. SameNodes(levels[1], new[1], key) /\ SameNodes(levels[2], new[2], key)
      BY <1>2, <1>3, <2>1, <2>4 DEF SameNodes
    <3> QED BY <1>1, <1>2, <2>1, <3>1, SameRead
  <2>5. rep \in Seq(Report) /\ Len(rep) = 0
    BY <2>1, EmptySeq
  <2>6. LiveKeys(new) \subseteq {nd.k} \cup LiveKeys(levels)
    BY <1>2, <2>1 DEF LiveKeys
  <2> QED BY <1>2, <2>2, <2>3, <2>4, <2>5, <2>6 DEF ReadOrReported, new, rep
<1>4. CASE D1 # {}
  <2>1. D1 = {e} /\ e \in W1 /\ e.k # nd.k /\ e \in Node
    BY <1>1, <1>4, LevelDisplaced
  <2> DEFINE D2 == Displaced(levels[2], L2Cap, e.k)
  <2>2. new[2] = PutIn(levels[2], L2Cap, e) /\ rep = EvictionReport(levels[2], e.k)
    BY <1>0, <1>4 DEF PutReport, rep
  <2>3. /\ IsLevel(new[2]) /\ Len(new[2]) <= L2Cap /\ ToSet(new[2]) \subseteq {e} \cup ToSet(levels[2])
        /\ V2 = {other \in {e} : e.expireAt > 0} \cup {old \in W2 : old.k # e.k /\ old \notin D2}
    <3> DEFINE level == levels[2]  after == PutIn(level, L2Cap, e)
    <3>1. IsLevel(level) /\ Len(level) <= L2Cap /\ e \in Node /\ L2Cap \in Nat \ {0} /\ new[2] = after
      BY <1>1, <2>1, <2>2
    <3> HIDE DEF level, e
    <3>2. /\ IsLevel(after) /\ Len(after) <= L2Cap /\ ToSet(after) \subseteq {e} \cup ToSet(level)
          /\ Walked(after) = {other \in {e} : e.expireAt > 0}
                             \cup {old \in Walked(level) :
                                     old.k # e.k /\ old \notin Displaced(level, L2Cap, e.k)}
      BY <3>1, LevelPut
    <3> HIDE DEF after
    <3> QED BY <3>1, <3>2 DEF level
  <2>4. e \in ToSet(levels[1]) /\ e.expireAt > 0
    BY <2>1 DEF Walked
  <2>5. IsBucket(new, b)
    BY <1>0, <1>1, <1>2, <2>3, <2>4, BucketFrom
  <2>6. nd.expireAt > 0 => ReadAt(new, nd.k, now) = InTime(nd, now)
    BY <1>1, <1>2, <2>3, ReadFacts
  <2>7. \A other \in V1 : other.k # e.k
    BY <1>1, <1>2, <2>1, LiveNode
  <2>8. ASSUME NEW key, key # nd.k PROVE ReadOrReported(levels, new, rep, key, now)
    <3>1. key # e.k => SameNodes(levels[1], new[1], key)
      BY <1>2, <2>1, <2>8 DEF SameNodes
    <3> QED BY <1>2, <2>1, <2>2, <2>7, <3>1, MovedDown DEF ReadOrReported
  <2>9. /\ rep \in Seq(Report) /\ Len(rep) \in {0, 1}
        /\ \A i \in 1..Len(rep) : \E out \in D2 : rep[i] = Entry(out) /\ out \in W2
    BY <1>1, <2>1, <2>2, ReportTyped
  <2>10. D2 \subseteq {Last(levels[2])} /\ \A out \in D2 : out.k # e.k
    BY <1>1, LevelDisplaced
  <2>11. ASSUME NEW i \in 1..Len(rep)
         PROVE  /\ BucketOf[rep[i].k] = b /\ \A other \in V2 : other.k # rep[i].k
                /\ rep[i].k = nd.k \/ GoneFrom(levels, new, rep[i].k)
    <3>1. PICK out \in D2 : rep[i] = Entry(out) /\ out \in W2
      BY <2>9
    <3>2. rep[i].k = out.k
      BY <3>1 DEF Entry
    <3>3. \A other \in V2 : other.k # out.k
      BY <1>1, <2>3, <2>10, <3>1, LiveNode
    <3>4. \A other \in V1 : other.k = out.k => other \in W1 \/ out.k = nd.k
      BY <1>2
    <3>5. BucketOf[out.k] = b
      BY <1>1, <3>1, LiveNode
    <3> QED BY <3>2, <3>3, <3>4, <3>5 DEF GoneFrom
  <2>12. LiveKeys(new) \subseteq {nd.k} \cup LiveKeys(levels)
    BY <1>2, <2>1, <2>3 DEF LiveKeys
  <2> QED BY <1>2, <2>5, <2>6, <2>8, <2>9, <2>11, <2>12 DEF new, rep
<1> QED BY <1>3, <1>4

\* Get of a live entry of level 1 in time.
AfterHit(levels, key) ==
  <<DelIn(levels[1], key), PutIn(levels[2], L2Cap, NodeOf(levels[1], key))>>

LEMMA BucketHit ==
  ASSUME NEW levels, NEW b, IsBucket(levels, b), NEW key, Live(levels[1], key), NEW now \in Nat
  PROVE  LET new == AfterHit(levels, key)  rep == EvictionReport(levels[2], key)
         IN /\ IsBucket(new, b)
            /\ NodeOf(levels[1], key) \in Walked(levels[1]) /\ NodeOf(levels[1], key).k = key
            /\ ReadAt(new, key, now) = ReadAt(levels, key, now)
            /\ ReadAt(levels, key, now) = InTime(NodeOf(levels[1], key), now)
            /\ \A other : ReadOrReported(levels, new, rep, other, now)
            /\ rep \in Seq(Report) /\ Len(rep) \in {0, 1}
            /\ \A i \in 1..Len(rep) : BucketOf[rep[i].k] = b /\ GoneFrom(levels, new, rep[i].k)
            /\ LiveKeys(new) \subseteq LiveKeys(levels)
            /\ DeletedReusedFirst(levels[1]) => DeletedReusedFirst(new[1])
<1> DEFINE new == AfterHit(levels, key)  rep == EvictionReport(levels[2], key)
<1>0. /\ new[1] = DelIn(levels[1], key) /\ new[2] = PutIn(levels[2], L2Cap, NodeOf(levels[1], key))
      /\ IsPair(new)
  BY DEF AfterHit, IsPair
<1> HIDE DEF new
<1> DEFINE W1 == Walked(levels[1])  W2 == Walked(levels[2])  V1 == Walked(new[1])  V2 == Walked(new[2])
           e == NodeOf(levels[1], key)  D2 == Displaced(levels[2], L2Cap, key)
<1>1. /\ IsLevel(levels[1]) /\ IsLevel(levels[2]) /\ Len(levels[1]) <= L1Cap /\ Len(levels[2]) <= L2Cap
      /\ L2Cap \in Nat \ {0}
      /\ \A other \in ToSet(levels[1]) \cup ToSet(levels[2]) : BucketOf[other.k] = b
  BY StoreAssumption DEF IsBucket
<1>2. e \in W1 /\ e.k = key /\ e \in Node /\ e \in ToSet(levels[1]) /\ e.expireAt > 0
  <2>1. PICK nd \in W1 : nd.k = key
    BY <1>1, LiveNode
  <2>2. e = nd /\ nd \in Node /\ nd \in ToSet(levels[1])
    BY <1>1, <2>1, LiveNode
  <2> QED BY <2>1, <2>2 DEF Walked
<1> HIDE DEF e
<1>3. /\ IsLevel(new[1]) /\ Len(new[1]) <= L1Cap /\ V1 = {old \in W1 : old.k # key}
      /\ \A nd \in ToSet(new[1]) : \E old \in ToSet(levels[1]) : nd.k = old.k
      /\ DeletedReusedFirst(levels[1]) => DeletedReusedFirst(new[1])
  BY <1>0, <1>1, LevelDel
<1>4. /\ IsLevel(new[2]) /\ Len(new[2]) <= L2Cap /\ ToSet(new[2]) \subseteq {e} \cup ToSet(levels[2])
      /\ V2 = {other \in {e} : e.expireAt > 0} \cup {old \in W2 : old.k # key /\ old \notin D2}
  <2> DEFINE level == levels[2]  after == PutIn(level, L2Cap, e)
  <2>1. IsLevel(level) /\ Len(level) <= L2Cap /\ L2Cap \in Nat \ {0} /\ new[2] = after
    BY <1>0, <1>1 DEF e
  <2> HIDE DEF level
  <2>2. /\ IsLevel(after) /\ Len(after) <= L2Cap /\ ToSet(after) \subseteq {e} \cup ToSet(level)
        /\ Walked(after) = {other \in {e} : e.expireAt > 0}
                           \cup {old \in Walked(level) :
                                   old.k # e.k /\ old \notin Displaced(level, L2Cap, e.k)}
    BY <1>2, <2>1, LevelPut
  <2> HIDE DEF after
  <2> QED BY <1>2, <2>1, <2>2 DEF level
<1>5. IsBucket(new, b)
  BY <1>0, <1>1, <1>2, <1>3, <1>4, BucketFrom
<1>6. ASSUME NEW other PROVE ReadOrReported(levels, new, rep, other, now)
  <2>1. other # e.k => SameNodes(levels[1], new[1], other)
    BY <1>2, <1>3 DEF SameNodes
  <2>2. new[2] = PutIn(levels[2], L2Cap, e) /\ rep = EvictionReport(levels[2], e.k)
    BY <1>0, <1>2 DEF e
  <2> QED BY <1>2, <1>3, <2>1, <2>2, MovedDown DEF ReadOrReported
<1>7. ReadAt(levels, key, now) = InTime(e, now) /\ ReadAt(new, key, now) = InTime(e, now)
  BY <1>1, <1>2, <1>3, <1>4, ReadFacts
<1>8. /\ rep \in Seq(Report) /\ Len(rep) \in {0, 1}
      /\ \A i \in 1..Len(rep) : \E out \in D2 : rep[i] = Entry(out) /\ out \in W2
  BY <1>1, <1>2, ReportTyped
<1>9. D2 \subseteq {Last(levels[2])} /\ \A out \in D2 : out.k # key
  BY <1>1, LevelDisplaced
<1>10. ASSUME NEW i \in 1..Len(rep) PROVE BucketOf[rep[i].k] = b /\ GoneFrom(levels, new, rep[i].k)
  <2>1. PICK out \in D2 : rep[i] = Entry(out) /\ out \in W2
    BY <1>8
  <2>2. rep[i].k = out.k
    BY <2>1 DEF Entry
  <2>3. \A other \in V2 : other.k # out.k
    BY <1>1, <1>2, <1>4, <1>9, <2>1, LiveNode
  <2>4. BucketOf[out.k] = b
    BY <1>1, <2>1, LiveNode
  <2> QED BY <1>3, <2>2, <2>3, <2>4 DEF GoneFrom
<1>11. LiveKeys(new) \subseteq LiveKeys(levels)
  BY <1>2, <1>3, <1>4 DEF LiveKeys
<1> QED BY <1>2, <1>3, <1>5, <1>6, <1>7, <1>8, <1>10, <1>11 DEF e, new

\* Get of a key that level 1 has no live entry of.
AfterTouch(levels, key) == <<levels[1], Touch(levels[2], key)>>

LEMMA BucketTouch ==
  ASSUME NEW levels, NEW b, IsBucket(levels, b), NEW key, NEW now \in Nat
  PROVE  LET new == AfterTouch(levels, key)
         IN /\ IsBucket(new, b)
            /\ \A other : ReadAt(new, other, now) = ReadAt(levels, other, now)
            /\ LiveKeys(new) \subseteq LiveKeys(levels)
<1> DEFINE new == AfterTouch(levels, key)
<1>0. new[1] = levels[1] /\ new[2] = Touch(levels[2], key) /\ IsPair(new)
  BY DEF AfterTouch, IsPair
<1> HIDE DEF new
<1>1. /\ IsLevel(levels[1]) /\ IsLevel(levels[2]) /\ Len(levels[1]) <= L1Cap /\ Len(levels[2]) <= L2Cap
      /\ \A other \in ToSet(levels[1]) \cup ToSet(levels[2]) : BucketOf[other.k] = b
  BY DEF IsBucket
<1>2. /\ IsLevel(new[2]) /\ Len(new[2]) = Len(levels[2]) /\ ToSet(new[2]) = ToSet(levels[2])
      /\ Walked(new[2]) = Walked(levels[2])
  BY <1>0, <1>1, LevelTouch
<1>3. IsBucket(new, b)
  BY <1>0, <1>1, <1>2, BucketFrom
<1>4. \A other : SameNodes(levels[1], new[1], other) /\ SameNodes(levels[2], new[2], other)
  BY <1>0, <1>2 DEF SameNodes
<1> QED BY <1>0, <1>1, <1>2, <1>3, <1>4, SameRead DEF LiveKeys, new

\* delete of one key.
LEMMA BucketDelete ==
  ASSUME NEW levels, NEW b, IsBucket(levels, b), NEW key \in Keys, NEW now \in Nat
  PROVE  LET new == DeleteFrom(levels, key)  rep == DeleteReport(levels, key)
         IN /\ IsBucket(new, b)
            /\ Walked(new[1]) = {old \in Walked(levels[1]) : old.k # key}
            /\ Walked(new[2]) = {old \in Walked(levels[2]) : old.k # key}
            /\ ReadAt(new, key, now) = None
            /\ \A other : other # key => ReadAt(new, other, now) = ReadAt(levels, other, now)
            /\ rep \in Seq(Report) /\ Len(rep) \in {0, 1} /\ \A i \in 1..Len(rep) : rep[i].k = key
            /\ ReadAt(levels, key, now) # None => rep = <<[k |-> key, v |-> ReadAt(levels, key, now)]>>
            /\ ReadAt(levels, key, now) # None => Live(levels[1], key) \/ Live(levels[2], key)
            /\ LiveKeys(new) = LiveKeys(levels) \ {key}
            /\ DeletedReusedFirst(levels[1]) => DeletedReusedFirst(new[1])
<1> DEFINE new == DeleteFrom(levels, key)  rep == DeleteReport(levels, key)
<1>1. /\ IsLevel(levels[1]) /\ IsLevel(levels[2]) /\ Len(levels[1]) <= L1Cap /\ Len(levels[2]) <= L2Cap
      /\ \A other \in ToSet(levels[1]) \cup ToSet(levels[2]) : BucketOf[other.k] = b
  BY DEF IsBucket
<1>2. new[1] = DelIn(levels[1], key) /\ new[2] = DelIn(levels[2], key) /\ IsPair(new)
  BY DEF DeleteFrom, IsPair
<1> HIDE DEF new
<1>3. /\ IsLevel(new[1]) /\ Len(new[1]) = Len(levels[1])
      /\ Walked(new[1]) = {old \in Walked(levels[1]) : old.k # key}
      /\ \A nd \in ToSet(new[1]) : \E old \in ToSet(levels[1]) : nd.k = old.k
      /\ DeletedReusedFirst(levels[1]) => DeletedReusedFirst(new[1])
  BY <1>1, <1>2, LevelDel
<1>4. /\ IsLevel(new[2]) /\ Len(new[2]) = Len(levels[2])
      /\ Walked(new[2]) = {old \in Walked(levels[2]) : old.k # key}
      /\ \A nd \in ToSet(new[2]) : \E old \in ToSet(levels[2]) : nd.k = old.k
  BY <1>1, <1>2, LevelDel
<1>5. IsBucket(new, b)
  BY <1>1, <1>2, <1>3, <1>4, BucketFrom
<1>6. ReadAt(new, key, now) = None
  BY <1>3, <1>4, ReadFacts
<1>7. ASSUME NEW other, other # key PROVE ReadAt(new, other, now) = ReadAt(levels, other, now)
  <2>1. SameNodes(levels[1], new[1], other) /\ SameNodes(levels[2], new[2], other)
    BY <1>3, <1>4, <1>7 DEF SameNodes
  <2> QED BY <1>1, <1>3, <1>4, <2>1, SameRead
<1>8. rep = <<>> \/ \E nd \in Node : nd.k = key /\ rep = <<Entry(nd)>>
  BY <1>1, Found DEF DeleteReport, Live
<1>9. rep \in Seq(Report) /\ Len(rep) \in {0, 1} /\ \A i \in 1..Len(rep) : rep[i].k = key
  <2>1. CASE rep = <<>>
    <3>1. <<>> \in Seq(Report) /\ Len(<<>>) = 0
      BY EmptySeq
    <3> QED BY <2>1, <3>1
  <2>2. CASE \E nd \in Node : nd.k = key /\ rep = <<Entry(nd)>>
    <3>1. PICK nd \in Node : nd.k = key /\ rep = <<Entry(nd)>>
      BY <2>2
    <3> DEFINE e == Entry(nd)
    <3>2. e \in Report /\ e.k = key
      BY <3>1 DEF Entry, Report, Node
    <3> HIDE DEF e
    <3>3. <<e>> \in Seq(Report) /\ Len(<<e>>) = 1 /\ <<e>>[1] = e /\ \A i \in 1..1 : i = 1
      BY <3>2
    <3> QED BY <3>1, <3>2, <3>3 DEF e
  <2> QED BY <1>8, <2>1, <2>2
<1>10. ASSUME ReadAt(levels, key, now) # None
       PROVE  /\ Live(levels[1], key) \/ Live(levels[2], key)
              /\ rep = <<[k |-> key, v |-> ReadAt(levels, key, now)]>>
  <2>1. CASE Live(levels[1], key)
    <3>1. ReadAt(levels, key, now) = NodeOf(levels[1], key).v /\ NodeOf(levels[1], key).k = key
      BY <1>1, <1>10, <2>1, Found DEF ReadAt, ValueAt, Live
    <3> QED BY <2>1, <3>1 DEF DeleteReport, Entry
  <2>2. CASE ~Live(levels[1], key)
    <3>1. Live(levels[2], key)
      BY <1>10, <2>2 DEF ReadAt, ValueAt
    <3>2. ReadAt(levels, key, now) = NodeOf(levels[2], key).v /\ NodeOf(levels[2], key).k = key
      BY <1>1, <1>10, <2>2, <3>1, Found DEF ReadAt, ValueAt, Live
    <3> QED BY <2>2, <3>1, <3>2 DEF DeleteReport, Entry
  <2> QED BY <2>1, <2>2
<1>11. LiveKeys(new) = LiveKeys(levels) \ {key}
  BY <1>3, <1>4 DEF LiveKeys
<1> QED BY <1>3, <1>4, <1>5, <1>6, <1>7, <1>9, <1>10, <1>11 DEF new

-----------------------------------------------------------------------------
(* The cleanup of one bucket.                                                 *)

OncePerKey(rep) == \A i, j \in 1..Len(rep) : rep[i].k = rep[j].k => i = j

ReportedKeys(rep) == {rep[i].k : i \in 1..Len(rep)}

LEMMA ReportsConcat ==
  ASSUME NEW s \in Seq(Report), NEW t \in Seq(Report), OncePerKey(s), OncePerKey(t),
         ReportedKeys(s) \cap ReportedKeys(t) = {}
  PROVE  /\ s \o t \in Seq(Report) /\ OncePerKey(s \o t)
         /\ ReportedKeys(s \o t) = ReportedKeys(s) \cup ReportedKeys(t)
         /\ ToSet(s \o t) = ToSet(s) \cup ToSet(t)
<1> DEFINE m == Len(s)  n == Len(t)  u == s \o t
<1>1. m \in Nat /\ n \in Nat /\ u \in Seq(Report) /\ Len(u) = m + n
      /\ \A i \in 1..m+n : u[i] = IF i <= m THEN s[i] ELSE t[i-m]
  BY ConcatProperties, LenProperties
<1>2. ToSet(u) = ToSet(s) \cup ToSet(t)
  BY SetOfConcat
<1>3. \A i \in 1..m, j \in 1..n : s[i].k # t[j].k
  BY DEF ReportedKeys
<1>4. (\A i, j \in 1..m : s[i].k = s[j].k => i = j) /\ \A i, j \in 1..n : t[i].k = t[j].k => i = j
  BY DEF OncePerKey
<1> HIDE DEF m, n, u
<1>5. ASSUME NEW i \in 1..m+n PROVE (i \in 1..m /\ u[i] = s[i]) \/ (i-m \in 1..n /\ u[i] = t[i-m])
  BY <1>1
<1>6. OncePerKey(u)
  <2> SUFFICES ASSUME NEW i \in 1..m+n, NEW j \in 1..m+n, u[i].k = u[j].k PROVE i = j
    BY <1>1 DEF OncePerKey
  <2>1. CASE i \in 1..m /\ u[i] = s[i] /\ j \in 1..m /\ u[j] = s[j]
    BY <1>4, <2>1
  <2>2. CASE i-m \in 1..n /\ u[i] = t[i-m] /\ j-m \in 1..n /\ u[j] = t[j-m]
    <3>1. i-m = j-m
      BY <1>4, <2>2
    <3> QED BY <1>1, <3>1
  <2>3. CASE i \in 1..m /\ u[i] = s[i] /\ j-m \in 1..n /\ u[j] = t[j-m]
    BY <1>3, <2>3
  <2>4. CASE i-m \in 1..n /\ u[i] = t[i-m] /\ j \in 1..m /\ u[j] = s[j]
    BY <1>3, <2>4
  <2> QED BY <1>5, <2>1, <2>2, <2>3, <2>4
<1>7. ReportedKeys(u) = ReportedKeys(s) \cup ReportedKeys(t)
  <2>1. \A i \in 1..m : i \in 1..m+n /\ u[i] = s[i]
    BY <1>1
  <2>2. ASSUME NEW i \in 1..n PROVE m+i \in 1..m+n /\ u[m+i] = t[i]
    <3>1. m+i \in 1..m+n /\ ~(m+i <= m) /\ (m+i)-m = i
      BY <1>1
    <3> QED BY <1>1, <3>1
  <2>3. /\ ReportedKeys(s) = {s[i].k : i \in 1..m} /\ ReportedKeys(t) = {t[i].k : i \in 1..n}
        /\ ReportedKeys(u) = {u[i].k : i \in 1..m+n}
    BY <1>1 DEF ReportedKeys, m, n
  <2>4. ReportedKeys(u) \subseteq ReportedKeys(s) \cup ReportedKeys(t)
    BY <1>5, <2>3
  <2>5. ReportedKeys(s) \subseteq ReportedKeys(u)
    BY <2>1, <2>3
  <2>6. ReportedKeys(t) \subseteq ReportedKeys(u)
    BY <2>2, <2>3
  <2> QED BY <2>4, <2>5, <2>6
<1> QED BY <1>1, <1>2, <1>6, <1>7 DEF u

\* Deleting a list of distinct keys, one after the other.
LEMMA BucketDeletedAll ==
  ASSUME NEW levels, NEW b, IsBucket(levels, b), NEW keys \in Seq(Keys), Distinct(keys), NEW now \in Nat
  PROVE  LET new == DeletedAll(levels, keys).levels  rep == DeletedAll(levels, keys).reported
         IN /\ IsBucket(new, b)
            /\ LiveKeys(new) = LiveKeys(levels) \ ToSet(keys)
            /\ \A key \in ToSet(keys) : ReadAt(new, key, now) = None
            /\ \A key : key \notin ToSet(keys) => ReadAt(new, key, now) = ReadAt(levels, key, now)
            /\ rep \in Seq(Report) /\ OncePerKey(rep) /\ ReportedKeys(rep) \subseteq ToSet(keys)
            /\ \A key \in ToSet(keys) : ReadAt(levels, key, now) # None =>
                  [k |-> key, v |-> ReadAt(levels, key, now)] \in ToSet(rep)
            /\ DeletedReusedFirst(levels[1]) => DeletedReusedFirst(new[1])
<1> DEFINE n == Len(keys)
           S == [levels : {some \in [1..2 -> Seq(Node)] : IsBucket(some, b)}, reported : Seq(Report)]
           start == [levels |-> levels, reported |-> <<>>]
           Next1(before, key) == [levels   |-> DeleteFrom(before.levels, key),
                                  reported |-> before.reported \o DeleteReport(before.levels, key)]
           after == CHOOSE after : after = [i \in 0..n |->
                      IF i = 0 THEN start ELSE Next1(after[i-1], keys[i])]
           step == [i \in 1..n |-> [s \in S |-> Next1(s, keys[i])]]
<1>1. n \in Nat /\ \A i \in 1..n : keys[i] \in Keys
  BY LenProperties, ElementOfSeq
<1>2. DeletedAll(levels, keys) = after[n]
  BY DEF DeletedAll
<1>3. start \in S
  <2>1. <<>> \in Seq(Report)
    BY EmptySeq
  <2> QED BY <2>1 DEF IsBucket
<1>4. ASSUME NEW s \in S, NEW key \in Keys PROVE Next1(s, key) \in S
  <2>1. IsBucket(s.levels, b) /\ s.reported \in Seq(Report)
    OBVIOUS
  <2> HIDE DEF S
  <2>2. /\ IsBucket(DeleteFrom(s.levels, key), b) /\ DeleteReport(s.levels, key) \in Seq(Report)
    BY <2>1, BucketDelete
  <2>3. s.reported \o DeleteReport(s.levels, key) \in Seq(Report)
    BY <2>1, <2>2, ConcatProperties
  <2>4. DeleteFrom(s.levels, key) \in [1..2 -> Seq(Node)]
    BY <2>2 DEF IsBucket
  <2> QED BY <2>2, <2>3, <2>4 DEF S
<1> HIDE DEF n, start, Next1
<1>5. step \in [1..n -> [S -> S]]
  <2> HIDE DEF S
  <2> QED BY <1>1, <1>4
<1>6. \E f \in [0..n -> S] : f[0] = start /\ \A i \in 1..n : f[i] = step[i][f[i-1]]
  <2> HIDE DEF step, S
  <2>1. n \in Nat /\ start \in S /\ step \in [1..n -> [S -> S]]
    BY <1>1, <1>3, <1>5
  <2>2. Iterates(S, start, n, step)
    BY <2>1, Iterated
  <2> QED BY <2>2 DEF Iterates
<1>7. PICK f \in [0..n -> S] : f[0] = start /\ \A i \in 1..n : f[i] = step[i][f[i-1]]
  BY <1>6
<1>8. f = [i \in 0..n |-> IF i = 0 THEN start ELSE Next1(f[i-1], keys[i])]
  <2> HIDE DEF S
  <2>1. ASSUME NEW i \in 1..n PROVE f[i] = Next1(f[i-1], keys[i])
    <3>1. i-1 \in 0..n
      BY <1>1
    <3>2. f[i-1] \in S
      BY <3>1
    <3> QED BY <1>7, <3>2
  <2> DEFINE g == [i \in 0..n |-> IF i = 0 THEN start ELSE Next1(f[i-1], keys[i])]
  <2>2. ASSUME NEW i \in 0..n PROVE f[i] = g[i]
    <3>1. CASE i = 0
      BY <1>7, <3>1
    <3>2. CASE i \in 1..n
      <4>1. i # 0 /\ g[i] = Next1(f[i-1], keys[i])
        BY <1>1, <3>2
      <4> HIDE DEF g
      <4> QED BY <2>1, <3>2, <4>1
    <3> QED BY <1>1, <3>1, <3>2
  <2>3. f = [i \in 0..n |-> f[i]]
    OBVIOUS
  <2> QED BY <2>2, <2>3
<1>9. after = [i \in 0..n |-> IF i = 0 THEN start ELSE Next1(after[i-1], keys[i])]
  BY <1>8
<1> HIDE DEF after, step
<1>10. after[0] = start /\ \A m \in Nat : m+1 <= n => after[m+1] = Next1(after[m], keys[m+1])
  <2>1. after[0] = start
    BY <1>1, <1>9
  <2>2. ASSUME NEW i \in 1..n PROVE after[i] = Next1(after[i-1], keys[i])
    <3>1. i # 0 /\ i \in 0..n
      BY <1>1
    <3> QED BY <1>9, <3>1
  <2>3. ASSUME NEW m \in Nat, m+1 <= n PROVE m+1 \in 1..n /\ (m+1) - 1 = m
    BY <1>1, <2>3
  <2> QED BY <2>1, <2>2, <2>3
<1> DEFINE First(m) == {keys[i] : i \in 1..m}
           DeletedUpTo(m) ==
             LET new == after[m].levels  rep == after[m].reported
             IN /\ IsBucket(new, b)
                /\ LiveKeys(new) = LiveKeys(levels) \ First(m)
                /\ \A key \in First(m) : ReadAt(new, key, now) = None
                /\ \A key : key \notin First(m) => ReadAt(new, key, now) = ReadAt(levels, key, now)
                /\ rep \in Seq(Report) /\ OncePerKey(rep) /\ ReportedKeys(rep) \subseteq First(m)
                /\ \A key \in First(m) : ReadAt(levels, key, now) # None =>
                      [k |-> key, v |-> ReadAt(levels, key, now)] \in ToSet(rep)
                /\ DeletedReusedFirst(levels[1]) => DeletedReusedFirst(new[1])
           set == {m \in Nat : m <= n => DeletedUpTo(m)}
<1>11. DeletedUpTo(0)
  <2>1. after[0].levels = levels /\ after[0].reported = <<>>
    BY <1>10 DEF start
  <2>2. <<>> \in Seq(Report) /\ Len(<<>>) = 0
    BY EmptySeq
  <2>3. OncePerKey(<<>>) /\ ReportedKeys(<<>>) = {}
    BY <2>2 DEF OncePerKey, ReportedKeys
  <2>4. First(0) = {}
    OBVIOUS
  <2> HIDE DEF First
  <2> QED BY <2>1, <2>2, <2>3, <2>4
<1>12. ASSUME NEW m \in Nat, DeletedUpTo(m), m+1 <= n PROVE DeletedUpTo(m+1)
  <2> DEFINE old == after[m].levels  said == after[m].reported  key == keys[m+1]
             new == DeleteFrom(old, key)  more == DeleteReport(old, key)
             done == First(m)
  <2>1. key \in Keys /\ m+1 \in 1..n /\ \A i \in 1..m : i \in 1..n /\ i # m+1
    BY <1>1, <1>12
  <2>2. key \notin done /\ First(m+1) = done \cup {key}
    <3>1. \A i \in 1..m : keys[i] # key
      BY <2>1 DEF Distinct, n
    <3>2. \A i \in 1..m+1 : i \in 1..m \/ i = m+1
      BY <1>12
    <3>3. \A i \in 1..m : i \in 1..m+1
      BY <1>12
    <3>4. m+1 \in 1..m+1
      BY <1>12
    <3> QED BY <3>1, <3>2, <3>3, <3>4
  <2>3. after[m+1].levels = new /\ after[m+1].reported = said \o more
    <3>1. after[m+1] = Next1(after[m], keys[m+1])
      BY <1>10, <1>12
    <3>2. after[m+1] = [levels |-> new, reported |-> said \o more]
      BY <3>1, Zenon DEF Next1
    <3> DEFINE joined == said \o more
    <3>3. after[m+1] = [levels |-> new, reported |-> joined]
      BY <3>2
    <3> HIDE DEF new, joined
    <3>4. after[m+1].levels = new /\ after[m+1].reported = joined
      BY <3>3
    <3> QED BY <3>4 DEF joined
  <2>4. /\ IsBucket(old, b) /\ LiveKeys(old) = LiveKeys(levels) \ done
        /\ \A other \in done : ReadAt(old, other, now) = None
        /\ \A other : other \notin done => ReadAt(old, other, now) = ReadAt(levels, other, now)
        /\ said \in Seq(Report) /\ OncePerKey(said) /\ ReportedKeys(said) \subseteq done
        /\ \A other \in done : ReadAt(levels, other, now) # None =>
              [k |-> other, v |-> ReadAt(levels, other, now)] \in ToSet(said)
        /\ DeletedReusedFirst(levels[1]) => DeletedReusedFirst(old[1])
    BY <1>12
  <2> HIDE DEF First, old, said, key
  <2>5. /\ IsBucket(new, b)
        /\ ReadAt(new, key, now) = None
        /\ \A other : other # key => ReadAt(new, other, now) = ReadAt(old, other, now)
        /\ more \in Seq(Report) /\ Len(more) \in {0, 1} /\ \A i \in 1..Len(more) : more[i].k = key
        /\ ReadAt(old, key, now) # None => more = <<[k |-> key, v |-> ReadAt(old, key, now)]>>
        /\ LiveKeys(new) = LiveKeys(old) \ {key}
        /\ DeletedReusedFirst(old[1]) => DeletedReusedFirst(new[1])
    <3>1. IsBucket(old, b) /\ key \in Keys
      BY <2>1, <2>4
    <3>2. IsBucket(new, b) /\ ReadAt(new, key, now) = None
      BY <3>1, BucketDelete
    <3>3. ASSUME NEW other, other # key PROVE ReadAt(new, other, now) = ReadAt(old, other, now)
      BY <3>1, <3>2, <3>3, BucketDelete
    <3>4. /\ more \in Seq(Report) /\ Len(more) \in {0, 1} /\ \A i \in 1..Len(more) : more[i].k = key
      BY <3>1, BucketDelete
    <3>5. ReadAt(old, key, now) # None => more = <<[k |-> key, v |-> ReadAt(old, key, now)]>>
      BY <3>1, BucketDelete
    <3>6. /\ LiveKeys(new) = LiveKeys(old) \ {key}
          /\ DeletedReusedFirst(old[1]) => DeletedReusedFirst(new[1])
      BY <3>1, BucketDelete
    <3> QED BY <3>2, <3>3, <3>4, <3>5, <3>6
  <2> HIDE DEF new, more, done
  <2>6. OncePerKey(more) /\ ReportedKeys(more) \subseteq {key}
    <3>1. \A i, j \in 1..Len(more) : i = j
      BY <2>5
    <3> QED BY <2>5, <3>1 DEF OncePerKey, ReportedKeys
  <2>7. /\ said \o more \in Seq(Report) /\ OncePerKey(said \o more)
        /\ ReportedKeys(said \o more) = ReportedKeys(said) \cup ReportedKeys(more)
        /\ ToSet(said \o more) = ToSet(said) \cup ToSet(more)
    <3>1. ReportedKeys(said) \cap ReportedKeys(more) = {}
      BY <2>2, <2>4, <2>6
    <3> QED BY <2>4, <2>5, <2>6, <3>1, ReportsConcat
  <2> DEFINE rep == said \o more
  <2> HIDE DEF rep
  <2>8. LiveKeys(new) = LiveKeys(levels) \ (done \cup {key})
    BY <2>4, <2>5
  <2>9. \A other \in done \cup {key} : ReadAt(new, other, now) = None
    BY <2>2, <2>4, <2>5
  <2>10. \A other : other \notin done \cup {key} => ReadAt(new, other, now) = ReadAt(levels, other, now)
    BY <2>4, <2>5
  <2>11. ASSUME NEW other \in done \cup {key}, ReadAt(levels, other, now) # None
         PROVE  [k |-> other, v |-> ReadAt(levels, other, now)] \in ToSet(said) \cup ToSet(more)
    <3>1. CASE other \in done
      BY <2>4, <2>11, <3>1
    <3>2. CASE other = key
      <4> DEFINE r == [k |-> key, v |-> ReadAt(levels, key, now)]
      <4>1. more = <<r>>
        BY <2>2, <2>4, <2>5, <2>11, <3>2
      <4> HIDE DEF r
      <4>2. r \in ToSet(more)
        BY <4>1 DEF ToSet
      <4> QED BY <3>2, <4>2 DEF r
    <3> QED BY <3>1, <3>2
  <2> QED BY <2>2, <2>3, <2>4, <2>5, <2>6, <2>7, <2>8, <2>9, <2>10, <2>11
<1> HIDE DEF First, DeletedUpTo
<1>13. 0 \in set
  BY <1>11
<1>14. \A m \in Nat : m \in set => m+1 \in set
  <2> SUFFICES ASSUME NEW m \in Nat, m \in set, m+1 <= n PROVE DeletedUpTo(m+1)
    OBVIOUS
  <2>1. m <= n
    BY <1>1
  <2> QED BY <1>12, <2>1
<1>15. DeletedUpTo(n)
  <2> HIDE DEF set
  <2>1. n \in set
    BY <1>1, <1>13, <1>14, SetInduction
  <2> QED BY <1>1, <2>1 DEF set
<1>16. First(n) = ToSet(keys)
  BY <1>1, SetOfSeq DEF First, n
<1> QED BY <1>2, <1>15, <1>16 DEF DeletedUpTo

\* The keys of a sweep: those of the expired nodes, each once.
LEMMA ExpiredKeysFacts ==
  ASSUME NEW levels, NEW b, IsBucket(levels, b), NEW now \in Nat
  PROVE  LET keys == ExpiredKeys(levels, now)
         IN /\ keys \in Seq(Keys) /\ Distinct(keys)
            /\ \A key \in ToSet(keys) : BucketOf[key] = b
<1> DEFINE due(level) == {nd \in ToSet(level) : Expired(nd, now)}
           keys1 == Collected(levels[1], due(levels[1]))
           nodes2 == Beyond(due(levels[2]), keys1)
           keys2 == Collected(levels[2], nodes2)
<1>1. /\ IsLevel(levels[1]) /\ IsLevel(levels[2])
      /\ \A nd \in ToSet(levels[1]) \cup ToSet(levels[2]) : BucketOf[nd.k] = b
  BY DEF IsBucket
<1>2. ExpiredKeys(levels, now) = keys1 \o keys2
  BY DEF ExpiredKeys
<1>3. \A nd \in nodes2 : nd.k \notin ToSet(keys1)
  BY DEF Beyond
<1> HIDE DEF nodes2, due
<1>4. /\ keys1 \in Seq(Keys) /\ Distinct(keys1)
      /\ \A key : key \in ToSet(keys1) <=> \E nd \in ToSet(levels[1]) : nd \in due(levels[1]) /\ nd.k = key
  BY <1>1, CollectedKeys
<1>5. /\ keys2 \in Seq(Keys) /\ Distinct(keys2)
      /\ \A key : key \in ToSet(keys2) <=> \E nd \in ToSet(levels[2]) : nd \in nodes2 /\ nd.k = key
  BY <1>1, CollectedKeys
<1> HIDE DEF keys1, keys2
<1>6. ToSet(keys1) \cap ToSet(keys2) = {}
  BY <1>3, <1>5
<1>7. keys1 \o keys2 \in Seq(Keys) /\ Distinct(keys1 \o keys2) /\ ToSet(keys1 \o keys2) = ToSet(keys1) \cup ToSet(keys2)
  BY <1>4, <1>5, <1>6, ConcatProperties, DistinctConcat, SetOfConcat
<1>8. \A key \in ToSet(keys1) \cup ToSet(keys2) : BucketOf[key] = b
  BY <1>1, <1>4, <1>5
<1> QED BY <1>2, <1>7, <1>8

-----------------------------------------------------------------------------
(* The store: what one step does to every key.                                *)

IsStore(c) ==
  c \in [1..Buckets -> [1..2 -> Seq(Node)]] /\ \A b \in 1..Buckets : IsBucket(c[b], b)

LEMMA StoreIs ==
  ASSUME NEW c
  PROVE  IsStore(c) <=>
           /\ c \in [1..Buckets -> [1..2 -> Seq(Node)]]
           /\ \A b \in 1..Buckets :
                /\ Len(c[b][1]) <= L1Cap /\ Len(c[b][2]) <= L2Cap
                /\ \A level \in 1..2 : \A i, j \in DOMAIN c[b][level] :
                      /\ BucketOf[c[b][level][i].k] = b
                      /\ c[b][level][i].k = c[b][level][j].k => i = j
<1> SUFFICES ASSUME c \in [1..Buckets -> [1..2 -> Seq(Node)]], NEW b \in 1..Buckets
             PROVE  IsBucket(c[b], b) <=>
                      /\ Len(c[b][1]) <= L1Cap /\ Len(c[b][2]) <= L2Cap
                      /\ \A level \in 1..2 : \A i, j \in DOMAIN c[b][level] :
                            /\ BucketOf[c[b][level][i].k] = b
                            /\ c[b][level][i].k = c[b][level][j].k => i = j
  BY DEF IsStore
<1> DEFINE levels == c[b]
<1> DEFINE Good(order) == \A i, j \in DOMAIN order :
                            /\ BucketOf[order[i].k] = b
                            /\ order[i].k = order[j].k => i = j
<1>1. levels \in [1..2 -> Seq(Node)]
  OBVIOUS
<1> HIDE DEF levels
<1>2. ASSUME NEW order \in Seq(Node)
      PROVE  Good(order) <=> IsLevel(order) /\ \A nd \in ToSet(order) : BucketOf[nd.k] = b
  <2>1. DOMAIN order = 1..Len(order) /\ ToSet(order) = {order[i] : i \in 1..Len(order)}
    BY LevelFacts
  <2> QED BY <2>1 DEF IsLevel
<1> HIDE DEF Good
<1>3. 1..2 = {1, 2}
  OBVIOUS
<1>4. IsBucket(levels, b) <=>
        /\ Len(levels[1]) <= L1Cap /\ Len(levels[2]) <= L2Cap
        /\ \A level \in 1..2 : Good(levels[level])
  <2>1. levels[1] \in Seq(Node) /\ levels[2] \in Seq(Node)
    BY <1>1, <1>3
  <2>2. (\A level \in 1..2 : Good(levels[level])) <=> Good(levels[1]) /\ Good(levels[2])
    BY <1>3
  <2> QED BY <1>1, <1>2, <2>1, <2>2 DEF IsBucket
<1> QED BY <1>4 DEF levels, Good

LEMMA StoreChange ==
  ASSUME IsStore(caches), NEW b \in 1..Buckets, NEW new, IsBucket(new, b),
         caches' = [caches EXCEPT ![b] = new]
  PROVE  /\ IsStore(caches')
         /\ caches'[b] = new
         /\ \A key : BucketOf[key] = b => L1(key)' = new[1] /\ L2(key)' = new[2]
         /\ \A key \in Keys : BucketOf[key] # b => /\ caches'[BucketOf[key]] = caches[BucketOf[key]]
                                                   /\ L1(key)' = L1(key) /\ L2(key)' = L2(key)
         /\ \A other \in 1..Buckets : other # b => caches'[other] = caches[other]
<1>1. caches \in [1..Buckets -> [1..2 -> Seq(Node)]] /\ new \in [1..2 -> Seq(Node)]
  BY DEF IsStore, IsBucket
<1>2. /\ caches' \in [1..Buckets -> [1..2 -> Seq(Node)]] /\ caches'[b] = new
      /\ \A other \in 1..Buckets : other # b => caches'[other] = caches[other]
  BY <1>1
<1>3. \A key \in Keys : BucketOf[key] \in 1..Buckets
  BY StoreAssumption
<1> QED BY <1>2, <1>3 DEF IsStore, L1, L2

LEMMA ReadableIs ==
  \A key : /\ Readable(key) = ReadAt(caches[BucketOf[key]], key, clock)
           /\ Readable(key)' = ReadAt(caches'[BucketOf[key]], key, clock')
BY DEF Readable, ReadAt, ValueIn, ValueAt, L1, L2

Stored(key) == Live(L1(key), key) \/ Live(L2(key), key)

LEMMA StoredIs ==
  ASSUME NEW levels, NEW b, IsBucket(levels, b), NEW key
  PROVE  key \in LiveKeys(levels) <=> Live(levels[1], key) \/ Live(levels[2], key)
BY LiveNode DEF LiveKeys, IsBucket

\* A step that takes no time, for every key but those a Set wrote in it: what
\* a Get answers stays, or is gone and was reported; a report is of a key that
\* is gone, or that level 1 keeps as it was; and no key comes back.
Effect(written) ==
  /\ IsStore(caches')
  /\ reported' \in Seq(Report) /\ OncePerKey(reported')
  /\ \A key \in Keys \ written :
       \/ Readable(key)' = Readable(key)
       \/ Readable(key)' = None /\ [k |-> key, v |-> Readable(key)] \in ToSet(reported')
  /\ \A key \in ReportedKeys(reported') :
       /\ ~Live(L2(key), key)'
       /\ Live(L1(key), key)' =>
            key \in written \/ (Live(L1(key), key) /\ NodeOf(L1(key), key)' = NodeOf(L1(key), key))
  /\ \A key \in Keys \ written : Stored(key)' => Stored(key)

\* The step of one bucket is such a step.
LEMMA BucketEffect ==
  ASSUME IsStore(caches), NEW b \in 1..Buckets, NEW new, IsBucket(new, b),
         caches' = [caches EXCEPT ![b] = new], clock' = clock,
         NEW written, reported' \in Seq(Report), OncePerKey(reported'),
         \A key \in Keys \ written :
           \/ ReadAt(new, key, clock) = ReadAt(caches[b], key, clock)
           \/ /\ ReadAt(new, key, clock) = None
              /\ [k |-> key, v |-> ReadAt(caches[b], key, clock)] \in ToSet(reported'),
         \A key \in ReportedKeys(reported') :
           /\ BucketOf[key] = b /\ \A nd \in Walked(new[2]) : nd.k # key
           /\ key \in written \/ GoneFrom(caches[b], new, key),
         LiveKeys(new) \subseteq LiveKeys(caches[b]) \cup written
  PROVE  /\ Effect(written)
         /\ \A key \in Keys : BucketOf[key] = b =>
              Readable(key) = ReadAt(caches[b], key, clock) /\ Readable(key)' = ReadAt(new, key, clock)
         /\ \A key \in Keys : BucketOf[key] # b => Readable(key)' = Readable(key)
<1>1. /\ IsStore(caches') /\ caches'[b] = new
      /\ \A key : BucketOf[key] = b => L1(key)' = new[1] /\ L2(key)' = new[2]
      /\ \A key \in Keys : BucketOf[key] # b => /\ caches'[BucketOf[key]] = caches[BucketOf[key]]
                                                /\ L1(key)' = L1(key) /\ L2(key)' = L2(key)
  BY StoreChange
<1>2. IsBucket(caches[b], b)
  BY DEF IsStore
<1>3. /\ \A key \in Keys : BucketOf[key] = b =>
           Readable(key) = ReadAt(caches[b], key, clock) /\ Readable(key)' = ReadAt(new, key, clock)
      /\ \A key \in Keys : BucketOf[key] # b => Readable(key)' = Readable(key)
  BY <1>1, ReadableIs
<1>4. ASSUME NEW key \in Keys \ written
      PROVE  \/ Readable(key)' = Readable(key)
             \/ Readable(key)' = None /\ [k |-> key, v |-> Readable(key)] \in ToSet(reported')
  BY <1>3
<1>5. ASSUME NEW key \in ReportedKeys(reported')
      PROVE  /\ ~Live(L2(key), key)'
             /\ Live(L1(key), key)' =>
                  key \in written \/ (Live(L1(key), key) /\ NodeOf(L1(key), key)' = NodeOf(L1(key), key))
  <2>1. /\ Live(L2(key), key)' <=> Live(new[2], key)
        /\ Live(L1(key), key)' <=> Live(new[1], key)
        /\ NodeOf(L1(key), key)' = NodeOf(new[1], key)
        /\ Live(L1(key), key) <=> Live(caches[b][1], key)
        /\ NodeOf(L1(key), key) = NodeOf(caches[b][1], key)
    BY <1>1 DEF L1, L2
  <2>2. ~Live(new[2], key)
    BY LiveNode DEF IsBucket
  <2>3. ASSUME Live(new[1], key), key \notin written
        PROVE  Live(caches[b][1], key) /\ NodeOf(new[1], key) = NodeOf(caches[b][1], key)
    <3>1. PICK nd \in Walked(new[1]) : nd.k = key
      BY <2>3, LiveNode DEF IsBucket
    <3>2. nd \in Walked(caches[b][1])
      BY <2>3, <3>1 DEF GoneFrom
    <3> QED BY <1>2, <3>1, <3>2, LiveNode DEF IsBucket
  <2> QED BY <2>1, <2>2, <2>3
<1>6. ASSUME NEW key \in Keys \ written, Stored(key)' PROVE Stored(key)
  <2>1. CASE BucketOf[key] = b
    <3>1. /\ Stored(key)' <=> Live(new[1], key) \/ Live(new[2], key)
          /\ Stored(key) <=> Live(caches[b][1], key) \/ Live(caches[b][2], key)
      BY <1>1, <2>1 DEF Stored, L1, L2
    <3> QED BY <1>2, <1>6, <3>1, StoredIs
  <2>2. CASE BucketOf[key] # b
    <3>1. Stored(key)' <=> Stored(key)
      BY <1>1, <2>2 DEF Stored
    <3> QED BY <1>6, <3>1
  <2> QED BY <2>1, <2>2
<1> QED BY <1>1, <1>3, <1>4, <1>5, <1>6 DEF Effect

-----------------------------------------------------------------------------
(* The operations of the store.                                               *)

LEMMA OpCases ==
  ASSUME NEW o \in OpType
  PROVE  \/ o = Idle /\ o.kind = "idle"
         \/ o.kind = "set" /\ o.k \in Keys /\ o.v \in Values /\ o.expireAt \in Nat
         \/ o.kind = "scan" /\ o \in [kind : {"scan"}, bucket : 1..Buckets, keys : Seq(Keys), since : SUBSET Keys]
         \/ o.kind = "delete" /\ o \in [kind : {"delete"}, keys : Seq(Keys), since : SUBSET Keys]
BY DEF OpType, Idle

LEMMA TypeOKStore == TypeOK => IsStore(caches)
BY StoreIs DEF TypeOK, LevelsBounded

\* At most one report: at most one key but those written is forgotten.
LEMMA OneForgotten ==
  ASSUME NEW written, Effect(written), Len(reported') \in {0, 1}
  PROVE  \E lost : \A key \in Keys \ written : key # lost => Readable(key)' = Readable(key)
<1>1. ToSet(reported') = {reported'[i] : i \in 1..Len(reported')}
  BY SetOfSeq DEF Effect
<1>2. \A i \in 1..Len(reported') : i = 1
  OBVIOUS
<1>3. \A r \in ToSet(reported') : r = reported'[1]
  BY <1>1, <1>2
<1> DEFINE lost == reported'[1].k
<1>4. ASSUME NEW key \in Keys \ written, key # lost PROVE Readable(key)' = Readable(key)
  <2> DEFINE r == [k |-> key, v |-> Readable(key)]
  <2>1. r.k = key
    OBVIOUS
  <2>2. r \notin ToSet(reported')
    BY <1>3, <1>4, <2>1
  <2> QED BY <2>2 DEF Effect
<1> QED BY <1>4

\* One report, or none, is of each key at most once.
LEMMA OneReport ==
  ASSUME NEW rep \in Seq(Report), Len(rep) \in {0, 1}
  PROVE  OncePerKey(rep) /\ (\A i \in 1..Len(rep) : i = 1)
BY DEF OncePerKey

LEMMA BucketEffectOne ==
  ASSUME IsStore(caches), NEW b \in 1..Buckets, NEW new, IsBucket(new, b),
         caches' = [caches EXCEPT ![b] = new], clock' = clock,
         NEW rep, reported' = rep, rep \in Seq(Report), Len(rep) \in {0, 1},
         NEW written, \A key \in Keys \ written : ReadOrReported(caches[b], new, rep, key, clock),
         \A key \in ReportedKeys(rep) :
           /\ BucketOf[key] = b /\ \A nd \in Walked(new[2]) : nd.k # key
           /\ key \in written \/ GoneFrom(caches[b], new, key),
         LiveKeys(new) \subseteq LiveKeys(caches[b]) \cup written
  PROVE  /\ Effect(written)
         /\ \A key \in Keys : BucketOf[key] = b =>
              Readable(key) = ReadAt(caches[b], key, clock) /\ Readable(key)' = ReadAt(new, key, clock)
         /\ \A key \in Keys : BucketOf[key] # b => Readable(key)' = Readable(key)
<1>1. OncePerKey(rep)
  BY OneReport
<1>2. ASSUME NEW key \in Keys \ written
      PROVE  \/ ReadAt(new, key, clock) = ReadAt(caches[b], key, clock)
             \/ /\ ReadAt(new, key, clock) = None
                /\ [k |-> key, v |-> ReadAt(caches[b], key, clock)] \in ToSet(rep)
  <2> DEFINE r == [k |-> key, v |-> ReadAt(caches[b], key, clock)]
  <2>1. \/ ReadAt(new, key, clock) = ReadAt(caches[b], key, clock)
        \/ ReadAt(new, key, clock) = None /\ rep = <<r>>
    BY DEF ReadOrReported
  <2> HIDE DEF r
  <2>2. r \in ToSet(<<r>>)
    BY DEF ToSet
  <2> QED BY <2>1, <2>2 DEF r
<1> QED BY <1>1, <1>2, BucketEffect

LEMMA SetApplyEffect ==
  ASSUME IsStore(caches), clock \in Nat, NEW c \in Clients, SetApply(c),
         NEW nd \in Node, op[c].k = nd.k, op[c].v = nd.v, op[c].expireAt = nd.expireAt
  PROVE  /\ Effect({nd.k}) /\ Len(reported') \in {0, 1}
         /\ nd.expireAt > 0 =>
              /\ did' = Did("set", nd.k, Readable(nd.k)')
              /\ Level1ReusesDeletedFirst => Level1ReusesDeletedFirst'
<1> DEFINE b == BucketOf[nd.k]
           levels == caches[b]
           new == AfterPut(levels, nd)
           rep == PutReport(levels, nd)
<1>1. nd.k \in Keys /\ nd.expireAt \in Nat /\ nd = [k |-> op[c].k, v |-> op[c].v, expireAt |-> op[c].expireAt]
  BY DEF Node
<1>2. /\ b \in 1..Buckets /\ IsBucket(levels, b) /\ levels \in [1..2 -> Seq(Node)]
      /\ caches \in [1..Buckets -> [1..2 -> Seq(Node)]]
  BY <1>1, StoreAssumption DEF IsStore
<1>3. /\ caches' = [caches EXCEPT ![b] = new] /\ reported' = rep /\ clock' = clock
      /\ did' = Did("set", nd.k, IF Expired(nd, clock) THEN None ELSE nd.v)
  <2> DEFINE first == PutIn(levels[1], L1Cap, nd)
             second == IF Displaced(levels[1], L1Cap, nd.k) = {} THEN levels[2]
                       ELSE PutIn(levels[2], L2Cap, Last(levels[1]))
  <2>1. caches' = [caches EXCEPT ![b][1] = first, ![b][2] = second] /\ reported' = rep
    BY <1>1 DEF SetApply, L1, L2, PutReport
  <2>2. did' = Did("set", nd.k, IF Expired(nd, clock) THEN None ELSE nd.v) /\ clock' = clock
    BY <1>1 DEF SetApply
  <2>3. new = [levels EXCEPT ![1] = first, ![2] = second]
    BY DEF AfterPut
  <2> HIDE DEF first, second, b, new
  <2>4. caches' = [caches EXCEPT ![b] = new]
    BY <1>2, <2>1, <2>3
  <2> QED BY <2>1, <2>2, <2>4
<1> HIDE DEF new, rep
<1>4. /\ IsBucket(new, b)
      /\ nd.expireAt > 0 => ReadAt(new, nd.k, clock) = InTime(nd, clock)
      /\ \A key : key # nd.k => ReadOrReported(levels, new, rep, key, clock)
      /\ rep \in Seq(Report) /\ Len(rep) \in {0, 1}
      /\ \A i \in 1..Len(rep) : rep[i].k = nd.k \/ GoneFrom(levels, new, rep[i].k)
      /\ \A i \in 1..Len(rep) : BucketOf[rep[i].k] = b /\ \A other \in Walked(new[2]) : other.k # rep[i].k
      /\ LiveKeys(new) \subseteq {nd.k} \cup LiveKeys(levels)
      /\ nd.expireAt > 0 /\ DeletedReusedFirst(levels[1]) => DeletedReusedFirst(new[1])
  BY <1>2, BucketPut DEF new, rep
<1> HIDE DEF b, levels
<1>5. /\ IsStore(caches') /\ caches'[b] = new
      /\ \A other \in 1..Buckets : other # b => caches'[other] = caches[other]
  BY <1>2, <1>3, <1>4, StoreChange
<1>6. /\ Effect({nd.k})
      /\ \A key \in Keys : BucketOf[key] = b => Readable(key)' = ReadAt(new, key, clock)
  <2>1. \A key \in Keys \ {nd.k} : ReadOrReported(caches[b], new, rep, key, clock)
    BY <1>4 DEF levels
  <2>2. ASSUME NEW key \in ReportedKeys(rep)
        PROVE  /\ BucketOf[key] = b /\ \A other \in Walked(new[2]) : other.k # key
               /\ key \in {nd.k} \/ GoneFrom(caches[b], new, key)
    BY <1>4 DEF ReportedKeys, levels
  <2>3. LiveKeys(new) \subseteq LiveKeys(caches[b]) \cup {nd.k}
    BY <1>4 DEF levels
  <2>4. /\ b \in 1..Buckets /\ IsBucket(new, b) /\ caches' = [caches EXCEPT ![b] = new]
        /\ clock' = clock /\ reported' = rep /\ rep \in Seq(Report) /\ Len(rep) \in {0, 1}
    BY <1>2, <1>3, <1>4
  <2> DEFINE written == {nd.k}
  <2>5. /\ \A key \in Keys \ written : ReadOrReported(caches[b], new, rep, key, clock)
        /\ \A key \in ReportedKeys(rep) :
             /\ BucketOf[key] = b /\ \A other \in Walked(new[2]) : other.k # key
             /\ key \in written \/ GoneFrom(caches[b], new, key)
        /\ LiveKeys(new) \subseteq LiveKeys(caches[b]) \cup written
    BY <2>1, <2>2, <2>3
  <2> HIDE DEF written
  <2>6. /\ Effect(written)
        /\ \A key \in Keys : BucketOf[key] = b =>
             Readable(key) = ReadAt(caches[b], key, clock) /\ Readable(key)' = ReadAt(new, key, clock)
    BY <2>4, <2>5, BucketEffectOne
  <2> QED BY <2>6 DEF written
<1>7. ASSUME nd.expireAt > 0
      PROVE  /\ did' = Did("set", nd.k, Readable(nd.k)')
             /\ Level1ReusesDeletedFirst => Level1ReusesDeletedFirst'
  <2>1. Readable(nd.k)' = InTime(nd, clock)
    BY <1>1, <1>4, <1>6, <1>7 DEF b
  <2>2. InTime(nd, clock) = IF Expired(nd, clock) THEN None ELSE nd.v
    BY <1>7 DEF InTime, Expired
  <2>3. Level1ReusesDeletedFirst => Level1ReusesDeletedFirst'
    BY <1>2, <1>4, <1>5, <1>7 DEF Level1ReusesDeletedFirst, levels
  <2> QED BY <1>3, <2>1, <2>2, <2>3
<1> QED BY <1>3, <1>4, <1>6, <1>7

LEMMA GetLevel1HitEffect ==
  ASSUME IsStore(caches), clock \in Nat, NEW key \in Keys, GetLevel1Hit(key)
  PROVE  /\ Effect({}) /\ Len(reported') \in {0, 1}
         /\ Readable(key)' = Readable(key) /\ did' = Did("get", key, Readable(key))
         /\ Level1ReusesDeletedFirst => Level1ReusesDeletedFirst'
<1> DEFINE b == BucketOf[key]
           levels == caches[b]
           new == AfterHit(levels, key)
           rep == EvictionReport(levels[2], key)
           nd == NodeOf(levels[1], key)
<1>1. b \in 1..Buckets /\ IsBucket(levels, b)
  BY StoreAssumption DEF IsStore
<1>2. /\ Live(levels[1], key) /\ ~Expired(nd, clock)
      /\ caches' = [caches EXCEPT ![b] = new] /\ reported' = rep /\ clock' = clock
      /\ did' = Did("get", key, nd.v)
  BY DEF GetLevel1Hit, L1, L2, AfterHit
<1> HIDE DEF new, rep, levels
<1>3. /\ IsBucket(new, b)
      /\ nd \in Walked(levels[1]) /\ nd.k = key
      /\ ReadAt(new, key, clock) = ReadAt(levels, key, clock)
      /\ ReadAt(levels, key, clock) = InTime(nd, clock)
      /\ \A other : ReadOrReported(levels, new, rep, other, clock)
      /\ rep \in Seq(Report) /\ Len(rep) \in {0, 1}
      /\ \A i \in 1..Len(rep) : BucketOf[rep[i].k] = b /\ GoneFrom(levels, new, rep[i].k)
      /\ LiveKeys(new) \subseteq LiveKeys(levels)
      /\ DeletedReusedFirst(levels[1]) => DeletedReusedFirst(new[1])
  BY <1>1, <1>2, BucketHit DEF new, rep
<1> HIDE DEF b, nd
<1>4. /\ IsStore(caches') /\ caches'[b] = new
      /\ \A other \in 1..Buckets : other # b => caches'[other] = caches[other]
  BY <1>1, <1>2, <1>3, StoreChange
<1>5. /\ Effect({})
      /\ Readable(key) = ReadAt(levels, key, clock) /\ Readable(key)' = ReadAt(new, key, clock)
  <2> DEFINE written == {}
  <2>1. /\ b \in 1..Buckets /\ IsBucket(new, b) /\ caches' = [caches EXCEPT ![b] = new]
        /\ clock' = clock /\ reported' = rep /\ rep \in Seq(Report) /\ Len(rep) \in {0, 1}
    BY <1>1, <1>2, <1>3
  <2>2. /\ \A other \in Keys \ written : ReadOrReported(caches[b], new, rep, other, clock)
        /\ \A other \in ReportedKeys(rep) :
             /\ BucketOf[other] = b /\ \A node \in Walked(new[2]) : node.k # other
             /\ other \in written \/ GoneFrom(caches[b], new, other)
        /\ LiveKeys(new) \subseteq LiveKeys(caches[b]) \cup written
    BY <1>3 DEF levels, ReportedKeys, GoneFrom
  <2> HIDE DEF written
  <2>3. /\ Effect(written)
        /\ \A other \in Keys : BucketOf[other] = b =>
             Readable(other) = ReadAt(caches[b], other, clock) /\ Readable(other)' = ReadAt(new, other, clock)
    BY <2>1, <2>2, BucketEffectOne
  <2> QED BY <2>3 DEF written, b, levels
<1>6. InTime(nd, clock) = nd.v
  BY <1>2, <1>3 DEF InTime, Expired, Walked
<1>7. Level1ReusesDeletedFirst => Level1ReusesDeletedFirst'
  BY <1>1, <1>3, <1>4 DEF Level1ReusesDeletedFirst, levels
<1> QED BY <1>2, <1>3, <1>5, <1>6, <1>7

LEMMA GetLevel2Effect ==
  ASSUME IsStore(caches), clock \in Nat, NEW key \in Keys, GetLevel2(key)
  PROVE  /\ Effect({}) /\ reported' = <<>>
         /\ \A other \in Keys : Readable(other)' = Readable(other)
         /\ did' = Did("get", key, Readable(key))
         /\ Level1ReusesDeletedFirst => Level1ReusesDeletedFirst'
<1> DEFINE b == BucketOf[key]
           levels == caches[b]
           new == AfterTouch(levels, key)
<1>1. /\ b \in 1..Buckets /\ IsBucket(levels, b) /\ levels \in [1..2 -> Seq(Node)]
      /\ caches \in [1..Buckets -> [1..2 -> Seq(Node)]]
  BY StoreAssumption DEF IsStore
<1>2. /\ caches' = [caches EXCEPT ![b] = new] /\ reported' = <<>> /\ clock' = clock
      /\ did' = Did("get", key, Readable(key))
  <2> DEFINE second == Touch(levels[2], key)
  <2>1. caches' = [caches EXCEPT ![b][2] = second]
    BY DEF GetLevel2
  <2>2. new = [levels EXCEPT ![2] = second]
    <3> HIDE DEF second, levels
    <3>1. [levels EXCEPT ![2] = second] = <<levels[1], second>>
      BY <1>1, PairExcept2
    <3> QED BY <3>1 DEF AfterTouch, second
  <2>3. did' = Did("get", key, Readable(key)) /\ reported' = <<>> /\ clock' = clock
    BY DEF GetLevel2, Readable
  <2> HIDE DEF second, b, new
  <2>4. caches' = [caches EXCEPT ![b] = new]
    BY <1>1, <2>1, <2>2
  <2> QED BY <2>3, <2>4
<1>3. /\ IsBucket(new, b) /\ LiveKeys(new) \subseteq LiveKeys(levels)
      /\ \A other : ReadAt(new, other, clock) = ReadAt(levels, other, clock)
      /\ new[1] = levels[1]
  <2>1. new[1] = levels[1]
    BY DEF AfterTouch
  <2> QED BY <1>1, <2>1, BucketTouch
<1> HIDE DEF new, levels, b
<1>4. /\ IsStore(caches') /\ caches'[b] = new
      /\ \A other \in 1..Buckets : other # b => caches'[other] = caches[other]
  BY <1>1, <1>2, <1>3, StoreChange
<1>5. <<>> \in Seq(Report) /\ Len(<<>>) = 0
  BY EmptySeq
<1>6. /\ Effect({})
      /\ \A other \in Keys : Readable(other)' = Readable(other)
  <2> DEFINE written == {}  rep == <<>>
  <2>1. /\ b \in 1..Buckets /\ IsBucket(new, b) /\ caches' = [caches EXCEPT ![b] = new]
        /\ clock' = clock /\ reported' = rep /\ rep \in Seq(Report) /\ Len(rep) \in {0, 1}
    BY <1>1, <1>2, <1>3, <1>5
  <2>2. /\ \A other \in Keys \ written : ReadOrReported(caches[b], new, rep, other, clock)
        /\ \A other \in ReportedKeys(rep) :
             /\ BucketOf[other] = b /\ \A node \in Walked(new[2]) : node.k # other
             /\ other \in written \/ GoneFrom(caches[b], new, other)
        /\ LiveKeys(new) \subseteq LiveKeys(caches[b]) \cup written
    BY <1>3, <1>5 DEF levels, ReportedKeys, ReadOrReported
  <2> HIDE DEF written, rep
  <2>3. /\ Effect(written)
        /\ \A other \in Keys : BucketOf[other] = b =>
             Readable(other) = ReadAt(caches[b], other, clock) /\ Readable(other)' = ReadAt(new, other, clock)
        /\ \A other \in Keys : BucketOf[other] # b => Readable(other)' = Readable(other)
    BY <2>1, <2>2, BucketEffectOne
  <2> QED BY <1>3, <2>3 DEF written, levels
<1>7. Level1ReusesDeletedFirst => Level1ReusesDeletedFirst'
  BY <1>1, <1>3, <1>4 DEF Level1ReusesDeletedFirst, levels
<1> QED BY <1>2, <1>6, <1>7

\* delete, on the bucket of its key as it is or as del left it.
LEMMA DeleteEffect ==
  ASSUME IsStore(caches), clock \in Nat, NEW key \in Keys, NEW from, IsBucket(from, BucketOf[key]),
         \A other : other # key => ReadAt(from, other, clock) = ReadAt(caches[BucketOf[key]], other, clock),
         ReadAt(caches[BucketOf[key]], key, clock) \in {None, ReadAt(from, key, clock)},
         LiveKeys(from) \subseteq LiveKeys(caches[BucketOf[key]]),
         DeletedReusedFirst(caches[BucketOf[key]][1]) => DeletedReusedFirst(from[1]),
         caches' = [caches EXCEPT ![BucketOf[key]] = DeleteFrom(from, key)],
         reported' = DeleteReport(from, key), clock' = clock
  PROVE  /\ Effect({}) /\ Len(reported') \in {0, 1}
         /\ Readable(key)' = None /\ \A other \in Keys \ {key} : Readable(other)' = Readable(other)
         /\ ~Stored(key)'
         /\ Level1ReusesDeletedFirst => Level1ReusesDeletedFirst'
<1> DEFINE b == BucketOf[key]
           levels == caches[b]
           new == DeleteFrom(from, key)
           rep == DeleteReport(from, key)
<1>1. b \in 1..Buckets /\ IsBucket(levels, b) /\ IsBucket(from, b)
  BY StoreAssumption DEF IsStore
<1>2. /\ IsBucket(new, b)
      /\ Walked(new[1]) = {old \in Walked(from[1]) : old.k # key}
      /\ Walked(new[2]) = {old \in Walked(from[2]) : old.k # key}
      /\ ReadAt(new, key, clock) = None
      /\ \A other : other # key => ReadAt(new, other, clock) = ReadAt(from, other, clock)
      /\ rep \in Seq(Report) /\ Len(rep) \in {0, 1} /\ \A i \in 1..Len(rep) : rep[i].k = key
      /\ ReadAt(from, key, clock) # None => rep = <<[k |-> key, v |-> ReadAt(from, key, clock)]>>
      /\ LiveKeys(new) = LiveKeys(from) \ {key}
      /\ DeletedReusedFirst(from[1]) => DeletedReusedFirst(new[1])
  <2>1. IsBucket(from, b) /\ key \in Keys /\ clock \in Nat
    BY <1>1
  <2> HIDE DEF b
  <2> QED BY ONLY <2>1, BucketDelete
<1>3. /\ caches' = [caches EXCEPT ![b] = new] /\ reported' = rep /\ clock' = clock
      /\ \A other : other # key => ReadAt(from, other, clock) = ReadAt(levels, other, clock)
      /\ ReadAt(levels, key, clock) \in {None, ReadAt(from, key, clock)}
      /\ LiveKeys(from) \subseteq LiveKeys(levels)
      /\ DeletedReusedFirst(levels[1]) => DeletedReusedFirst(from[1])
  OBVIOUS
<1> HIDE DEF new, rep, levels
<1>4. b = BucketOf[key]
  OBVIOUS
<1> HIDE DEF b
<1>5. /\ IsStore(caches') /\ caches'[b] = new
      /\ \A other \in 1..Buckets : other # b => caches'[other] = caches[other]
      /\ \A other : BucketOf[other] = b => L1(other)' = new[1] /\ L2(other)' = new[2]
  BY <1>1, <1>2, <1>3, StoreChange
<1>6. /\ Effect({})
      /\ \A other \in Keys : BucketOf[other] = b =>
           Readable(other) = ReadAt(levels, other, clock) /\ Readable(other)' = ReadAt(new, other, clock)
      /\ \A other \in Keys : BucketOf[other] # b => Readable(other)' = Readable(other)
  <2> DEFINE written == {}
  <2>1. /\ b \in 1..Buckets /\ IsBucket(new, b) /\ caches' = [caches EXCEPT ![b] = new]
        /\ clock' = clock /\ reported' = rep /\ rep \in Seq(Report) /\ Len(rep) \in {0, 1}
    BY <1>1, <1>2, <1>3
  <2>2. ASSUME NEW other PROVE ReadOrReported(levels, new, rep, other, clock)
    <3>1. CASE other = key
      BY <1>2, <1>3, <3>1 DEF ReadOrReported
    <3>2. CASE other # key
      BY <1>2, <1>3, <3>2 DEF ReadOrReported
    <3> QED BY <3>1, <3>2
  <2>3. ASSUME NEW other \in ReportedKeys(rep)
        PROVE  BucketOf[other] = b /\ (\A node \in Walked(new[2]) : node.k # other) /\ GoneFrom(levels, new, other)
    <3>1. other = key
      BY <1>2 DEF ReportedKeys
    <3> QED BY <1>2, <1>4, <3>1 DEF GoneFrom
  <2>4. /\ \A other \in Keys \ written : ReadOrReported(caches[b], new, rep, other, clock)
        /\ \A other \in ReportedKeys(rep) :
             /\ BucketOf[other] = b /\ \A node \in Walked(new[2]) : node.k # other
             /\ other \in written \/ GoneFrom(caches[b], new, other)
        /\ LiveKeys(new) \subseteq LiveKeys(caches[b]) \cup written
    BY <1>2, <1>3, <2>2, <2>3 DEF levels
  <2> HIDE DEF written
  <2>5. /\ Effect(written)
        /\ \A other \in Keys : BucketOf[other] = b =>
             Readable(other) = ReadAt(caches[b], other, clock) /\ Readable(other)' = ReadAt(new, other, clock)
        /\ \A other \in Keys : BucketOf[other] # b => Readable(other)' = Readable(other)
    BY <2>1, <2>4, BucketEffectOne
  <2> QED BY <2>5 DEF written, levels
<1>7. Readable(key)' = None /\ \A other \in Keys \ {key} : Readable(other)' = Readable(other)
  BY <1>2, <1>3, <1>4, <1>6
<1>8. ~Stored(key)'
  <2>1. Stored(key)' <=> Live(new[1], key) \/ Live(new[2], key)
    BY <1>4, <1>5 DEF Stored, L1, L2
  <2>2. key \notin LiveKeys(new)
    BY <1>2
  <2> QED BY <1>2, <2>1, <2>2, StoredIs
<1>9. Level1ReusesDeletedFirst => Level1ReusesDeletedFirst'
  BY <1>1, <1>2, <1>3, <1>5 DEF Level1ReusesDeletedFirst, levels
<1> QED BY <1>2, <1>3, <1>6, <1>7, <1>8, <1>9

\* Delete, and the deletion of one key by Clear.
LEMMA DeleteKeyEffect ==
  ASSUME IsStore(caches), clock \in Nat, NEW key \in Keys,
         caches' = [caches EXCEPT ![BucketOf[key]] = DeleteFrom(@, key)],
         reported' = DeleteReport(caches[BucketOf[key]], key), clock' = clock
  PROVE  /\ Effect({}) /\ Len(reported') \in {0, 1}
         /\ Readable(key)' = None /\ \A other \in Keys \ {key} : Readable(other)' = Readable(other)
         /\ ~Stored(key)'
         /\ Level1ReusesDeletedFirst => Level1ReusesDeletedFirst'
         /\ Readable(key) # None => Stored(key)
<1> DEFINE b == BucketOf[key]  levels == caches[b]
<1>1. IsBucket(levels, b)
  BY StoreAssumption DEF IsStore
<1>2. caches' = [caches EXCEPT ![b] = DeleteFrom(levels, key)]
  OBVIOUS
<1>3. Readable(key) # None => Stored(key)
  BY DEF Readable, ValueIn, Stored
<1> QED BY <1>1, <1>2, <1>3, DeleteEffect

LEMMA GetLevel1ExpiredEffect ==
  ASSUME IsStore(caches), clock \in Nat, NEW key \in Keys, GetLevel1Expired(key)
  PROVE  /\ Effect({}) /\ Len(reported') \in {0, 1}
         /\ \A other \in Keys : Readable(other)' = Readable(other)
         /\ did' = Did("get", key, Readable(key))
         /\ Level1ReusesDeletedFirst => Level1ReusesDeletedFirst'
<1> DEFINE b == BucketOf[key]
           levels == caches[b]
           first == DelIn(levels[1], key)
           from == [levels EXCEPT ![1] = first]
           nd == NodeOf(levels[1], key)
<1>1. b \in 1..Buckets /\ IsBucket(levels, b) /\ levels \in [1..2 -> Seq(Node)]
  BY StoreAssumption DEF IsStore
<1>2. /\ Live(levels[1], key) /\ Expired(nd, clock)
      /\ caches' = [caches EXCEPT ![b] = DeleteFrom(from, key)]
      /\ reported' = DeleteReport(from, key) /\ clock' = clock /\ did' = Did("get", key, None)
  BY DEF GetLevel1Expired, L1
<1> HIDE DEF b, levels, first
<1>3. from[1] = first /\ from[2] = levels[2] /\ IsPair(from)
  <2>1. DOMAIN from = 1..2 /\ from[1] = first /\ from[2] = levels[2]
    BY <1>1
  <2>2. from = [i \in 1..2 |-> from[i]]
    BY <2>1
  <2> QED BY <2>1, <2>2 DEF IsPair
<1> HIDE DEF from
<1>4. /\ IsLevel(levels[1]) /\ IsLevel(levels[2]) /\ Len(levels[1]) <= L1Cap /\ Len(levels[2]) <= L2Cap
      /\ \A other \in ToSet(levels[1]) \cup ToSet(levels[2]) : BucketOf[other.k] = b
  BY <1>1 DEF IsBucket
<1>5. /\ IsLevel(first) /\ Len(first) = Len(levels[1])
      /\ Walked(first) = {old \in Walked(levels[1]) : old.k # key}
      /\ \A other \in ToSet(first) : \E old \in ToSet(levels[1]) : other.k = old.k
      /\ DeletedReusedFirst(levels[1]) => DeletedReusedFirst(first)
  BY <1>4, LevelDel DEF first
<1>6. IsBucket(from, b)
  BY <1>1, <1>3, <1>4, <1>5, BucketFrom
<1>7. nd \in Walked(levels[1]) /\ nd.k = key
  BY <1>2, <1>4, LiveNode
<1>8. ReadAt(levels, key, clock) = None
  <2>1. ReadAt(levels, key, clock) = InTime(nd, clock)
    BY <1>4, <1>7, ReadFacts
  <2> QED BY <1>2, <2>1 DEF InTime, Expired
<1>9. ASSUME NEW other, other # key PROVE ReadAt(from, other, clock) = ReadAt(levels, other, clock)
  <2>1. SameNodes(levels[1], from[1], other) /\ SameNodes(levels[2], from[2], other)
    BY <1>3, <1>5, <1>9 DEF SameNodes
  <2> QED BY <1>3, <1>4, <1>5, <2>1, SameRead
<1>10. LiveKeys(from) \subseteq LiveKeys(levels)
  BY <1>3, <1>5 DEF LiveKeys
<1>11. /\ Effect({}) /\ Len(reported') \in {0, 1}
       /\ Readable(key)' = None /\ \A other \in Keys \ {key} : Readable(other)' = Readable(other)
       /\ Level1ReusesDeletedFirst => Level1ReusesDeletedFirst'
  BY <1>2, <1>3, <1>5, <1>6, <1>8, <1>9, <1>10, DeleteEffect DEF b, levels
<1>12. Readable(key) = None
  BY <1>8, ReadableIs DEF levels, b
<1> QED BY <1>2, <1>11, <1>12

LEMMA CleanupEffect ==
  ASSUME IsStore(caches), clock \in Nat, sweep.bucket \in 1..Buckets, sweep.now \in Nat,
         CleanupBucket
  PROVE  /\ Effect({})
         /\ Level1ReusesDeletedFirst => Level1ReusesDeletedFirst'
<1> PICK b \in 1..Buckets : b = sweep.bucket
  OBVIOUS
<1> DEFINE levels == caches[b]
           keys == ExpiredKeys(levels, sweep.now)
           new == DeletedAll(levels, keys).levels
           rep == DeletedAll(levels, keys).reported
<1>1. IsBucket(levels, b)
  BY DEF IsStore
<1>2. keys \in Seq(Keys) /\ Distinct(keys) /\ \A key \in ToSet(keys) : BucketOf[key] = b
  BY <1>1, ExpiredKeysFacts
<1>3. caches' = [caches EXCEPT ![b] = new] /\ reported' = rep /\ clock' = clock
  BY DEF CleanupBucket
<1> HIDE DEF keys
<1>4. /\ IsBucket(new, b)
      /\ LiveKeys(new) = LiveKeys(levels) \ ToSet(keys)
      /\ \A key \in ToSet(keys) : ReadAt(new, key, clock) = None
      /\ \A key : key \notin ToSet(keys) => ReadAt(new, key, clock) = ReadAt(levels, key, clock)
      /\ rep \in Seq(Report) /\ OncePerKey(rep) /\ ReportedKeys(rep) \subseteq ToSet(keys)
      /\ \A key \in ToSet(keys) : ReadAt(levels, key, clock) # None =>
            [k |-> key, v |-> ReadAt(levels, key, clock)] \in ToSet(rep)
      /\ DeletedReusedFirst(levels[1]) => DeletedReusedFirst(new[1])
  BY <1>1, <1>2, BucketDeletedAll
<1> HIDE DEF new, rep
<1>5. /\ IsStore(caches') /\ caches'[b] = new
      /\ \A other \in 1..Buckets : other # b => caches'[other] = caches[other]
  <2>1. b \in 1..Buckets /\ IsStore(caches) /\ IsBucket(new, b) /\ caches' = [caches EXCEPT ![b] = new]
    BY <1>3, <1>4
  <2> QED BY ONLY <2>1, StoreChange
<1>6. Effect({})
  <2> DEFINE written == {}
  <2>1. /\ IsBucket(new, b) /\ caches' = [caches EXCEPT ![b] = new]
        /\ clock' = clock /\ reported' \in Seq(Report) /\ OncePerKey(reported')
    BY <1>3, <1>4
  <2>2. ASSUME NEW key \in Keys \ written
        PROVE  \/ ReadAt(new, key, clock) = ReadAt(levels, key, clock)
               \/ /\ ReadAt(new, key, clock) = None
                  /\ [k |-> key, v |-> ReadAt(levels, key, clock)] \in ToSet(reported')
    BY <1>3, <1>4
  <2>3. ASSUME NEW key \in ReportedKeys(reported')
        PROVE  /\ BucketOf[key] = b /\ \A nd \in Walked(new[2]) : nd.k # key
               /\ key \in written \/ GoneFrom(levels, new, key)
    <3>1. key \in ToSet(keys)
      BY <1>3, <1>4
    <3>2. key \notin LiveKeys(new)
      BY <1>4, <3>1
    <3> QED BY <1>2, <3>1, <3>2 DEF LiveKeys, GoneFrom
  <2>4. LiveKeys(new) \subseteq LiveKeys(levels) \cup written
    BY <1>4
  <2> HIDE DEF written
  <2>5. Effect(written)
    BY <2>1, <2>2, <2>3, <2>4, BucketEffect
  <2> QED BY <2>5 DEF written
<1>7. Level1ReusesDeletedFirst => Level1ReusesDeletedFirst'
  BY <1>1, <1>4, <1>5 DEF Level1ReusesDeletedFirst
<1> QED BY <1>6, <1>7

\* A step that leaves the buckets and the clock alone.
LEMMA NoEffect ==
  ASSUME IsStore(caches), caches' = caches, clock' = clock, reported' = <<>>
  PROVE  /\ Effect({}) /\ \A key \in Keys : Readable(key)' = Readable(key)
         /\ Level1ReusesDeletedFirst => Level1ReusesDeletedFirst'
<1>1. <<>> \in Seq(Report) /\ Len(<<>>) = 0
  BY EmptySeq
<1>2. OncePerKey(<<>>) /\ ReportedKeys(<<>>) = {}
  BY <1>1 DEF OncePerKey, ReportedKeys
<1>3. \A key : Readable(key)' = Readable(key) /\ (Stored(key)' <=> Stored(key))
  BY ReadableIs DEF Stored, L1, L2
<1> QED BY <1>1, <1>2, <1>3 DEF Effect, Level1ReusesDeletedFirst

\* Time passes: what a Get answers stays, or has expired.
LEMMA TickEffect ==
  ASSUME TypeOK, Tick
  PROVE  /\ \A key \in Keys : Readable(key)' \in {Readable(key), None}
         /\ \A key \in Keys : Stored(key)' <=> Stored(key)
         /\ IsStore(caches')
         /\ Level1ReusesDeletedFirst => Level1ReusesDeletedFirst'
<1>1. caches' = caches /\ clock' = clock + 1 /\ clock \in Nat /\ IsStore(caches)
  BY StoreAssumption, TypeOKStore DEF Tick, TypeOK
<1>2. ASSUME NEW key \in Keys
      PROVE  Readable(key)' \in {Readable(key), None} /\ (Stored(key)' <=> Stored(key))
  <2> DEFINE levels == caches[BucketOf[key]]
  <2>1. IsLevel(levels[1]) /\ IsLevel(levels[2])
    BY <1>1, StoreAssumption DEF IsStore, IsBucket
  <2>2. Readable(key) = ReadAt(levels, key, clock) /\ Readable(key)' = ReadAt(levels, key, clock + 1)
    BY <1>1, ReadableIs
  <2>3. Stored(key)' <=> Stored(key)
    BY <1>1 DEF Stored, L1, L2
  <2> HIDE DEF levels
  <2>4. ASSUME NEW level \in {levels[1], levels[2]}, Live(level, key)
        PROVE  NodeOf(level, key).expireAt \in Nat
    BY <2>1, <2>4, Found DEF Live, Node
  <2>5. ASSUME NEW level \in {levels[1], levels[2]}
        PROVE  ValueAt(level, key, clock + 1) \in {ValueAt(level, key, clock), None}
    BY <1>1, <2>4 DEF ValueAt, Expired
  <2> QED BY <2>2, <2>3, <2>5 DEF ReadAt
<1> QED BY <1>1, <1>2 DEF Level1ReusesDeletedFirst

-----------------------------------------------------------------------------
(* The type invariant.                                                        *)

LEMMA ReadableType ==
  ASSUME TypeOK, NEW key \in Keys
  PROVE  Readable(key) \in Values \cup {None}
<1> DEFINE levels == caches[BucketOf[key]]
<1>1. IsLevel(levels[1]) /\ IsLevel(levels[2])
  BY TypeOKStore, StoreAssumption DEF IsStore, IsBucket
<1>2. Readable(key) = ReadAt(levels, key, clock)
  BY ReadableIs
<1> HIDE DEF levels
<1>3. ASSUME NEW level \in {levels[1], levels[2]}, Live(level, key)
      PROVE  NodeOf(level, key).v \in Values
  BY <1>1, <1>3, Found DEF Live, Node
<1> QED BY <1>2, <1>3 DEF ReadAt, ValueAt

\* The parts of TypeOK that the buckets are not in.
RestTyped ==
  /\ clock \in 1..MaxClock
  /\ op \in [Clients -> OpType]
  /\ sweep = Waiting \/ sweep \in [bucket : 1..Buckets, now : 1..MaxClock]
  /\ ticking \in BOOLEAN
  /\ did = None \/ did \in [call : {"get", "set", "delete"}, k : Keys, v : Values \cup {None} \cup BOOLEAN]

LEMMA TypeParts == /\ TypeOK <=> RestTyped /\ IsStore(caches) /\ reported \in Seq(Report)
                   /\ TypeOK' <=> RestTyped' /\ IsStore(caches') /\ reported' \in Seq(Report)
BY StoreIs DEF TypeOK, RestTyped, LevelsBounded, Report

\* Setting a key is noted by the clients that are clearing.
LEMMA NoteSetType ==
  ASSUME NEW ops \in [Clients -> OpType], NEW key \in Keys
  PROVE  NoteSet(ops, key) \in [Clients -> OpType]
<1> SUFFICES ASSUME NEW c \in Clients, ops[c].kind \in {"scan", "delete"}
             PROVE  [ops[c] EXCEPT !.since = @ \cup {key}] \in OpType
  BY DEF NoteSet
<1>1. CASE ops[c] \in [kind : {"scan"}, bucket : 1..Buckets, keys : Seq(Keys), since : SUBSET Keys]
  BY <1>1 DEF OpType
<1>2. CASE ops[c] \in [kind : {"delete"}, keys : Seq(Keys), since : SUBSET Keys]
  BY <1>2 DEF OpType
<1> QED BY <1>1, <1>2, OpCases

\* What Clear collects of one bucket.
LEMMA ScanKeys ==
  ASSUME NEW levels, NEW b, IsBucket(levels, b), NEW keys \in Seq(Keys)
  PROVE  LET keys1 == keys \o Collected(levels[1], Walked(levels[1]))
             keys2 == keys1 \o Collected(levels[2], Beyond(Walked(levels[2]), keys1))
         IN keys2 \in Seq(Keys) /\ ToSet(keys2) = ToSet(keys) \cup LiveKeys(levels)
<1> DEFINE more1 == Collected(levels[1], Walked(levels[1]))
           keys1 == keys \o more1
           nodes2 == Beyond(Walked(levels[2]), keys1)
           more2 == Collected(levels[2], nodes2)
<1>1. IsLevel(levels[1]) /\ IsLevel(levels[2])
  BY DEF IsBucket
<1>2. /\ \A nd \in nodes2 : nd \in Walked(levels[2])
      /\ \A nd \in Walked(levels[2]) : nd \in nodes2 \/ nd.k \in ToSet(keys1)
  BY DEF Beyond
<1> HIDE DEF nodes2
<1>3. /\ more1 \in Seq(Keys)
      /\ \A key : key \in ToSet(more1) <=> \E nd \in ToSet(levels[1]) : nd \in Walked(levels[1]) /\ nd.k = key
  BY <1>1, CollectedKeys
<1>4. /\ more2 \in Seq(Keys)
      /\ \A key : key \in ToSet(more2) <=> \E nd \in ToSet(levels[2]) : nd \in nodes2 /\ nd.k = key
  BY <1>1, CollectedKeys
<1> HIDE DEF more1, more2
<1>5. keys1 \in Seq(Keys) /\ ToSet(keys1) = ToSet(keys) \cup ToSet(more1)
  BY <1>3, ConcatProperties, SetOfConcat
<1> HIDE DEF keys1
<1>6. keys1 \o more2 \in Seq(Keys) /\ ToSet(keys1 \o more2) = ToSet(keys1) \cup ToSet(more2)
  BY <1>4, <1>5, ConcatProperties, SetOfConcat
<1>7. (\A nd \in Walked(levels[1]) : nd \in ToSet(levels[1])) /\ \A nd \in Walked(levels[2]) : nd \in ToSet(levels[2])
  BY DEF Walked
<1>8. ToSet(more1) = {nd.k : nd \in Walked(levels[1])}
  BY <1>3, <1>7
<1>9. ToSet(keys1) \cup ToSet(more2) = ToSet(keys1) \cup {nd.k : nd \in Walked(levels[2])}
  BY <1>2, <1>4, <1>7
<1> QED BY <1>5, <1>6, <1>8, <1>9 DEF LiveKeys, keys1, more1, more2, nodes2

LEMMA TypeOKClock == TypeOK => clock \in Nat /\ clock > 0 /\ IsStore(caches)
BY StoreAssumption, TypeOKStore DEF TypeOK

\* A pending Set, as the node it will put.
LEMMA SetPending ==
  ASSUME TypeOK, NEW c \in Clients, op[c].kind = "set"
  PROVE  \E nd \in Node : op[c].k = nd.k /\ op[c].v = nd.v /\ op[c].expireAt = nd.expireAt
<1>1. op[c] \in OpType
  BY DEF TypeOK
<1>2. op[c].k \in Keys /\ op[c].v \in Values /\ op[c].expireAt \in Nat
  BY <1>1, OpCases
<1> DEFINE nd == [k |-> op[c].k, v |-> op[c].v, expireAt |-> op[c].expireAt]
<1>3. nd \in Node /\ op[c].k = nd.k /\ op[c].v = nd.v /\ op[c].expireAt = nd.expireAt
  BY <1>2 DEF Node
<1> QED BY <1>3

LEMMA ClearPending ==
  ASSUME TypeOK, NEW c \in Clients
  PROVE  /\ op[c].kind = "scan" => /\ op[c].bucket \in 1..Buckets /\ op[c].keys \in Seq(Keys)
                                   /\ op[c].since \subseteq Keys
         /\ op[c].kind = "delete" => op[c].keys \in Seq(Keys) /\ op[c].since \subseteq Keys
<1>1. op[c] \in OpType
  BY DEF TypeOK
<1> QED BY <1>1, OpCases

LEMMA SweepType == TypeOK /\ sweep # Waiting => sweep.bucket \in 1..Buckets /\ sweep.now \in Nat
BY StoreAssumption DEF TypeOK

\* Clear's next key.
LEMMA HeadOfKeys ==
  ASSUME NEW keys \in Seq(Keys), keys # <<>>
  PROVE  /\ Head(keys) \in Keys /\ Tail(keys) \in Seq(Keys)
         /\ ToSet(keys) = {Head(keys)} \cup ToSet(Tail(keys))
<1>1. /\ Head(keys) \in Keys /\ Tail(keys) \in Seq(Keys) /\ Len(keys) \in Nat \ {0}
      /\ Head(keys) = keys[1] /\ Len(Tail(keys)) = Len(keys) - 1
      /\ \A i \in 1..Len(Tail(keys)) : Tail(keys)[i] = keys[i+1]
  BY HeadTailProperties, EmptySeq
<1>2. /\ ToSet(keys) = {keys[i] : i \in 1..Len(keys)}
      /\ ToSet(Tail(keys)) = {Tail(keys)[i] : i \in 1..Len(Tail(keys))}
  BY <1>1, SetOfSeq
<1>3. ASSUME NEW i \in 1..Len(keys) PROVE keys[i] \in {Head(keys)} \cup ToSet(Tail(keys))
  <2>1. CASE i = 1
    BY <1>1, <2>1
  <2>2. CASE i # 1
    <3>1. i - 1 \in 1..Len(Tail(keys)) /\ (i - 1) + 1 = i
      BY <1>1, <2>2
    <3> QED BY <1>1, <1>2, <3>1
  <2> QED BY <2>1, <2>2
<1>4. ASSUME NEW i \in 1..Len(Tail(keys)) PROVE Tail(keys)[i] \in ToSet(keys)
  <2>1. i + 1 \in 1..Len(keys)
    BY <1>1
  <2> QED BY <1>1, <1>2, <2>1
<1>5. Head(keys) \in ToSet(keys)
  BY <1>1, <1>2
<1> QED BY <1>1, <1>2, <1>3, <1>4, <1>5

LEMMA ClearDeleteEffect ==
  ASSUME TypeOK, NEW c \in Clients, ClearDelete(c), NEW key, key = Head(op[c].keys)
  PROVE  /\ key \in Keys /\ Tail(op[c].keys) \in Seq(Keys)
         /\ ToSet(op[c].keys) = {key} \cup ToSet(Tail(op[c].keys))
         /\ Effect({})
         /\ Readable(key)' = None /\ \A other \in Keys \ {key} : Readable(other)' = Readable(other)
         /\ ~Stored(key)'
         /\ Level1ReusesDeletedFirst => Level1ReusesDeletedFirst'
<1>1. op[c].keys \in Seq(Keys) /\ op[c].keys # <<>>
  BY ClearPending DEF ClearDelete
<1>2. key \in Keys /\ Tail(op[c].keys) \in Seq(Keys) /\ ToSet(op[c].keys) = {key} \cup ToSet(Tail(op[c].keys))
  BY <1>1, HeadOfKeys
<1>3. /\ caches' = [caches EXCEPT ![BucketOf[key]] = DeleteFrom(@, key)]
      /\ reported' = DeleteReport(caches[BucketOf[key]], key) /\ clock' = clock
  BY DEF ClearDelete
<1> QED BY <1>2, <1>3, TypeOKClock, DeleteKeyEffect

LEMMA InitType == Init => TypeOK
<1> SUFFICES ASSUME Init PROVE TypeOK
  OBVIOUS
<1> DEFINE empty == <<<<>>, <<>>>>
<1>1. <<>> \in Seq(Node) /\ Len(<<>>) = 0 /\ <<>> \in Seq(Report)
  BY EmptySeq
<1>2. empty \in [1..2 -> Seq(Node)] /\ empty[1] = <<>> /\ empty[2] = <<>>
  <2> DEFINE none == <<>>
  <2>1. none \in Seq(Node)
    BY <1>1
  <2> HIDE DEF none
  <2>2. <<none, none>> \in [1..2 -> Seq(Node)] /\ <<none, none>>[1] = none /\ <<none, none>>[2] = none
    BY <2>1
  <2> QED BY <2>2 DEF none
<1> HIDE DEF empty
<1>3. ToSet(<<>>) = {} /\ IsLevel(<<>>)
  BY <1>1, SetOfEmpty DEF IsLevel
<1>4. \A b \in 1..Buckets : IsBucket(empty, b)
  BY <1>1, <1>2, <1>3, StoreAssumption DEF IsBucket
<1>5. caches = [b \in 1..Buckets |-> empty]
  BY DEF Init, empty
<1>6. IsStore(caches)
  BY <1>2, <1>4, <1>5 DEF IsStore
<1>7. RestTyped
  BY StoreAssumption DEF Init, RestTyped, OpType
<1> QED BY <1>1, <1>6, <1>7, TypeParts DEF Init

\* The buckets, and the calls of onEvicted.
LEMMA StepStore ==
  ASSUME TypeOK, [Next]_vars
  PROVE  IsStore(caches') /\ reported' \in Seq(Report)
<1>0. IsStore(caches) /\ clock \in Nat /\ <<>> \in Seq(Report)
  BY TypeOKClock, EmptySeq
<1>1. CASE UNCHANGED vars
  BY <1>0, <1>1, TypeParts DEF vars
<1>2. CASE caches' = caches /\ reported' = <<>>
  BY <1>0, <1>2
<1>3. CASE \E c \in Clients : SetApply(c)
  <2>1. PICK c \in Clients : SetApply(c)
    BY <1>3
  <2>2. PICK nd \in Node : op[c].k = nd.k /\ op[c].v = nd.v /\ op[c].expireAt = nd.expireAt
    BY <2>1, SetPending DEF SetApply
  <2> QED BY <1>0, <2>1, <2>2, SetApplyEffect DEF Effect
<1>4. CASE \E c \in Clients : ClearDelete(c)
  BY <1>4, ClearDeleteEffect DEF Effect
<1>5. CASE \E key \in Keys : \/ GetLevel1Hit(key) \/ GetLevel1Expired(key) \/ GetLevel2(key)
  BY <1>0, <1>5, GetLevel1HitEffect, GetLevel1ExpiredEffect, GetLevel2Effect DEF Effect
<1>6. CASE \E key \in Keys : Delete(key)
  <2>1. PICK key \in Keys : Delete(key)
    BY <1>6
  <2>2. /\ caches' = [caches EXCEPT ![BucketOf[key]] = DeleteFrom(@, key)]
        /\ reported' = DeleteReport(caches[BucketOf[key]], key) /\ clock' = clock
    BY <2>1 DEF Delete
  <2> QED BY <1>0, <2>2, DeleteKeyEffect DEF Effect
<1>7. CASE CleanupBucket
  BY <1>0, <1>7, SweepType, CleanupEffect DEF Effect, CleanupBucket
<1>8. ASSUME Next PROVE \/ caches' = caches /\ reported' = <<>>
                        \/ \E c \in Clients : SetApply(c) \/ ClearDelete(c)
                        \/ \E key \in Keys : \/ GetLevel1Hit(key) \/ GetLevel1Expired(key)
                                             \/ GetLevel2(key) \/ Delete(key)
                        \/ CleanupBucket
  BY <1>8 DEF Next, Tick, SetStart, ClearStart, ClearScan, ClearReturn, Close, CleanupStart
<1> QED BY <1>1, <1>2, <1>3, <1>4, <1>5, <1>6, <1>7, <1>8

\* What a call answers.
LEMMA AnswerType ==
  ASSUME NEW call \in {"get", "set", "delete"}, NEW key \in Keys,
         NEW v \in Values \cup {None} \cup BOOLEAN
  PROVE  Did(call, key, v) \in [call : {"get", "set", "delete"}, k : Keys,
                                v : Values \cup {None} \cup BOOLEAN]
BY DEF Did

\* A read of key answers what was readable.
LEMMA GetAnswers ==
  ASSUME TypeOK, NEW key \in Keys,
         GetLevel1Hit(key) \/ GetLevel1Expired(key) \/ GetLevel2(key)
  PROVE  /\ Effect({}) /\ Len(reported') \in {0, 1}
         /\ Readable(key)' = Readable(key) /\ did' = Did("get", key, Readable(key))
         /\ Level1ReusesDeletedFirst => Level1ReusesDeletedFirst'
<1>1. IsStore(caches) /\ clock \in Nat /\ Len(<<>>) = 0
  BY TypeOKClock, EmptySeq
<1> QED BY <1>1, GetLevel1HitEffect, GetLevel1ExpiredEffect, GetLevel2Effect

\* Where Next leads, apart from the buckets.
LEMMA RestStep ==
  ASSUME TypeOK, [Next]_vars
  PROVE  RestTyped'
<1>0. RestTyped /\ clock \in Nat
  BY TypeParts, TypeOKClock
<1>1. CASE UNCHANGED vars
  BY <1>0, <1>1 DEF vars, RestTyped
<1>2. CASE Tick
  <2>1. clock' \in 1..MaxClock
    BY <1>0, <1>2, StoreAssumption DEF Tick, RestTyped
  <2> QED BY <1>0, <1>2, <2>1 DEF Tick, RestTyped
<1>3. ASSUME NEW c \in Clients, NEW key \in Keys, NEW val \in Values, NEW duration \in Durations,
             SetStart(c, key, val, duration)
      PROVE  RestTyped'
  <2> DEFINE pending == [kind |-> "set", k |-> key, v |-> val,
                         expireAt |-> IF duration > 0 THEN clock + duration ELSE 0]
  <2>1. pending \in OpType
    BY <1>0, StoreAssumption DEF OpType
  <2>2. op' = [op EXCEPT ![c] = pending]
    BY <1>3 DEF SetStart
  <2> HIDE DEF pending
  <2>3. op' \in [Clients -> OpType]
    BY <1>0, <2>1, <2>2 DEF RestTyped
  <2> QED BY <1>0, <1>3, <2>3 DEF SetStart, RestTyped
<1>4. ASSUME NEW c \in Clients, SetApply(c) PROVE RestTyped'
  <2>1. PICK nd \in Node : op[c].k = nd.k /\ op[c].v = nd.v /\ op[c].expireAt = nd.expireAt
    BY <1>4, SetPending DEF SetApply
  <2> DEFINE ops == [op EXCEPT ![c] = Idle]
             answer == IF Expired(nd, clock) THEN None ELSE nd.v
  <2>2. nd.k \in Keys /\ answer \in Values \cup {None} \cup BOOLEAN
    BY DEF Node
  <2>3. ops \in [Clients -> OpType]
    BY <1>0 DEF RestTyped, OpType
  <2>4. op' = NoteSet(ops, nd.k)
    BY <1>4, <2>1 DEF SetApply
  <2>5. did' = Did("set", nd.k, answer)
    BY <1>4, <2>1 DEF SetApply, Expired
  <2> HIDE DEF ops, answer
  <2>6. op' \in [Clients -> OpType]
    BY <2>2, <2>3, <2>4, NoteSetType
  <2>7. did' \in [call : {"get", "set", "delete"}, k : Keys, v : Values \cup {None} \cup BOOLEAN]
    BY <2>2, <2>5, AnswerType
  <2> QED BY <1>0, <1>4, <2>6, <2>7 DEF SetApply, RestTyped
<1>5. ASSUME NEW c \in Clients, ClearStart(c) PROVE RestTyped'
  <2> DEFINE o == [kind |-> "scan", bucket |-> 1, keys |-> <<>>, since |-> {}]
  <2>1. o \in OpType
    BY EmptySeq, StoreAssumption DEF OpType
  <2>2. op' = [op EXCEPT ![c] = o]
    BY <1>5 DEF ClearStart
  <2> HIDE DEF o
  <2>3. op' \in [Clients -> OpType]
    BY <1>0, <2>1, <2>2 DEF RestTyped
  <2> QED BY <1>0, <1>5, <2>3 DEF ClearStart, RestTyped
<1>6. ASSUME NEW c \in Clients, ClearScan(c) PROVE RestTyped'
  <2>1. /\ op[c].bucket \in 1..Buckets /\ op[c].keys \in Seq(Keys) /\ op[c].since \subseteq Keys
        /\ IsBucket(caches[op[c].bucket], op[c].bucket)
    BY <1>6, ClearPending, TypeOKClock DEF ClearScan, IsStore
  <2>2. PICK keys \in Seq(Keys) :
          op' = [op EXCEPT ![c] =
                   IF op[c].bucket < Buckets
                   THEN [kind |-> "scan", bucket |-> op[c].bucket + 1, keys |-> keys,
                         since |-> op[c].since]
                   ELSE [kind |-> "delete", keys |-> keys, since |-> op[c].since]]
    BY <1>6, <2>1, ScanKeys DEF ClearScan
  <2> DEFINE scan == [kind |-> "scan", bucket |-> op[c].bucket + 1, keys |-> keys, since |-> op[c].since]
             delete == [kind |-> "delete", keys |-> keys, since |-> op[c].since]
  <2>3. (op[c].bucket < Buckets => scan \in OpType) /\ delete \in OpType
    BY <2>1, StoreAssumption DEF OpType
  <2>4. op' = [op EXCEPT ![c] = IF op[c].bucket < Buckets THEN scan ELSE delete]
    BY <2>2
  <2> HIDE DEF scan, delete
  <2>5. op' \in [Clients -> OpType]
    BY <1>0, <2>3, <2>4 DEF RestTyped
  <2> QED BY <1>0, <1>6, <2>5 DEF ClearScan, RestTyped
<1>7. ASSUME NEW c \in Clients, ClearDelete(c) PROVE RestTyped'
  <2> DEFINE o == [op[c] EXCEPT !.keys = Tail(@)]
  <2>1. op[c] \in [kind : {"delete"}, keys : Seq(Keys), since : SUBSET Keys]
    BY <1>0, <1>7, OpCases DEF RestTyped, ClearDelete
  <2>2. Tail(op[c].keys) \in Seq(Keys)
    BY <1>7, ClearDeleteEffect
  <2>3. o \in OpType
    BY <2>1, <2>2 DEF OpType
  <2>4. op' = [op EXCEPT ![c] = o]
    BY <1>7 DEF ClearDelete
  <2> HIDE DEF o
  <2>5. op' \in [Clients -> OpType]
    BY <1>0, <2>3, <2>4 DEF RestTyped
  <2> QED BY <1>0, <1>7, <2>5 DEF ClearDelete, RestTyped
<1>8. ASSUME NEW c \in Clients, ClearReturn(c) PROVE RestTyped'
  <2>1. op' \in [Clients -> OpType]
    BY <1>0, <1>8 DEF ClearReturn, RestTyped, OpType
  <2> QED BY <1>0, <1>8, <2>1 DEF ClearReturn, RestTyped
<1>9. ASSUME NEW key \in Keys, GetLevel1Hit(key) \/ GetLevel1Expired(key) \/ GetLevel2(key)
      PROVE  RestTyped'
  <2>1. did' = Did("get", key, Readable(key)) /\ Readable(key) \in Values \cup {None} \cup BOOLEAN
    BY <1>9, GetAnswers, ReadableType
  <2>2. did' \in [call : {"get", "set", "delete"}, k : Keys, v : Values \cup {None} \cup BOOLEAN]
    BY <2>1, AnswerType
  <2> QED BY <1>0, <1>9, <2>2 DEF GetLevel1Hit, GetLevel1Expired, GetLevel2, RestTyped
<1>10. ASSUME NEW key \in Keys, Delete(key) PROVE RestTyped'
  <2>1. did' = Did("delete", key, Stored(key))
    BY <1>10 DEF Delete, Stored
  <2>2. Stored(key) \in BOOLEAN
    BY Zenon DEF Stored, Live
  <2>3. did' \in [call : {"get", "set", "delete"}, k : Keys, v : Values \cup {None} \cup BOOLEAN]
    BY <2>1, <2>2, AnswerType
  <2> QED BY <1>0, <1>10, <2>3 DEF Delete, RestTyped
<1>11. CASE Close
  BY <1>0, <1>11 DEF Close, RestTyped
<1>12. CASE CleanupStart
  <2>1. sweep' \in [bucket : 1..Buckets, now : 1..MaxClock]
    BY <1>0, <1>12, StoreAssumption DEF CleanupStart, RestTyped
  <2> QED BY <1>0, <1>12, <2>1 DEF CleanupStart, RestTyped
<1>13. CASE CleanupBucket
  <2>1. sweep \in [bucket : 1..Buckets, now : 1..MaxClock]
    BY <1>0, <1>13 DEF CleanupBucket, RestTyped
  <2>2. sweep' = Waiting \/ sweep' \in [bucket : 1..Buckets, now : 1..MaxClock]
    BY <1>13, <2>1, StoreAssumption DEF CleanupBucket
  <2> QED BY <1>0, <1>13, <2>2 DEF CleanupBucket, RestTyped
<1> QED BY <1>1, <1>2, <1>3, <1>4, <1>5, <1>6, <1>7, <1>8, <1>9, <1>10, <1>11, <1>12, <1>13 DEF Next

(* Whatever clients, clock, cleanup and Close do in whatever order, for any   *)
(* number of keys, clients and buckets and any capacities: no level exceeds   *)
(* its capacity, none holds a key twice, every node is in the bucket of its   *)
(* key, and what a client is in the middle of is what lines 102-251 hold      *)
(* between two acquisitions of the lock.                                      *)
THEOREM TypeCorrect == Spec => []TypeOK
<1>1. ASSUME TypeOK, [Next]_vars PROVE TypeOK'
  BY <1>1, StepStore, RestStep, TypeParts
<1> QED BY <1>1, InitType, PTL DEF Spec

-----------------------------------------------------------------------------
(* What holds when no duration is 0, so that no Set puts a node that reads as *)
(* deleted (line 165: a duration of 0 leaves the expiry time at 0).           *)

SetsInTime == \A c \in Clients : op[c].kind = "set" => op[c].expireAt > 0

StoreInv == TypeOK /\ SetsInTime

LEMMA StoreInvStep ==
  ASSUME DurationsPositive, StoreInv, [Next]_vars
  PROVE  StoreInv'
<1>0. TypeOK /\ SetsInTime /\ TypeOK' /\ clock \in Nat /\ op \in [Clients -> OpType]
  <2>1. TypeOK /\ SetsInTime
    BY DEF StoreInv
  <2>2. TypeOK'
    BY <2>1, StepStore, RestStep, TypeParts
  <2> QED BY <2>1, <2>2, TypeOKClock DEF TypeOK
<1>1. CASE op' = op
  BY <1>0, <1>1 DEF StoreInv, SetsInTime
<1>2. ASSUME NEW c \in Clients, NEW o, op' = [op EXCEPT ![c] = o],
             o.kind = "set" => o.expireAt > 0
      PROVE  SetsInTime'
  <2>1. op'[c] = o /\ \A other \in Clients : other # c => op'[other] = op[other]
    BY <1>0, <1>2
  <2> QED BY <1>0, <1>2, <2>1 DEF SetsInTime
<1>3. ASSUME NEW c \in Clients, NEW key \in Keys, NEW val \in Values, NEW duration \in Durations,
             SetStart(c, key, val, duration)
      PROVE  SetsInTime'
  <2> DEFINE o == [kind |-> "set", k |-> key, v |-> val,
                   expireAt |-> IF duration > 0 THEN clock + duration ELSE 0]
  <2>1. o.expireAt > 0
    BY <1>0, StoreAssumption DEF DurationsPositive
  <2>2. op' = [op EXCEPT ![c] = o]
    BY <1>3 DEF SetStart
  <2> QED BY <1>2, <2>1, <2>2
<1>4. ASSUME NEW c \in Clients, SetApply(c) PROVE SetsInTime'
  <2> DEFINE ops == [op EXCEPT ![c] = Idle]
  <2>1. op' = NoteSet(ops, op[c].k)
    BY <1>4 DEF SetApply
  <2>2. ops[c] = Idle /\ \A other \in Clients : other # c => ops[other] = op[other]
    BY <1>0
  <2> HIDE DEF ops
  <2>3. ASSUME NEW other \in Clients, op'[other].kind = "set" PROVE op'[other].expireAt > 0
    <3>1. CASE ops[other].kind \in {"scan", "delete"}
      <4>1. op'[other] = [ops[other] EXCEPT !.since = @ \cup {op[c].k}]
        BY <2>1, <3>1 DEF NoteSet
      <4>2. op'[other].kind = ops[other].kind
        <5>1. ops[other] \in OpType
          BY <1>0, <2>2 DEF OpType
        <5>2. "kind" \in DOMAIN ops[other]
          BY <5>1 DEF OpType, Idle
        <5> QED BY <4>1, <5>2
      <4> QED BY <2>3, <3>1, <4>2
    <3>2. CASE ops[other].kind \notin {"scan", "delete"}
      <4>1. op'[other] = ops[other]
        BY <2>1, <3>2 DEF NoteSet
      <4>2. other # c
        BY <2>2, <2>3, <4>1 DEF Idle
      <4> QED BY <1>0, <2>2, <2>3, <4>1, <4>2 DEF SetsInTime
    <3> QED BY <3>1, <3>2
  <2> QED BY <2>3 DEF SetsInTime
<1>5. ASSUME NEW c \in Clients, ClearStart(c) \/ ClearScan(c) \/ ClearDelete(c) \/ ClearReturn(c)
      PROVE  SetsInTime'
  <2>1. CASE ClearStart(c)
    <3> DEFINE o == [kind |-> "scan", bucket |-> 1, keys |-> <<>>, since |-> {}]
    <3>1. op' = [op EXCEPT ![c] = o] /\ o.kind # "set"
      BY <2>1 DEF ClearStart
    <3> QED BY <1>2, <3>1
  <2>2. CASE ClearScan(c)
    <3>1. PICK keys : op' = [op EXCEPT ![c] =
                 IF op[c].bucket < Buckets
                 THEN [kind |-> "scan", bucket |-> op[c].bucket + 1, keys |-> keys,
                       since |-> op[c].since]
                 ELSE [kind |-> "delete", keys |-> keys, since |-> op[c].since]]
      BY <2>2 DEF ClearScan
    <3> DEFINE o == IF op[c].bucket < Buckets
                    THEN [kind |-> "scan", bucket |-> op[c].bucket + 1, keys |-> keys,
                          since |-> op[c].since]
                    ELSE [kind |-> "delete", keys |-> keys, since |-> op[c].since]
    <3>2. op' = [op EXCEPT ![c] = o] /\ o.kind # "set"
      BY <3>1
    <3> QED BY <1>2, <3>2
  <2>3. CASE ClearDelete(c)
    <3> DEFINE o == [op[c] EXCEPT !.keys = Tail(@)]
    <3>1. op' = [op EXCEPT ![c] = o] /\ op[c].kind = "delete"
      BY <2>3 DEF ClearDelete
    <3>2. op[c] \in [kind : {"delete"}, keys : Seq(Keys), since : SUBSET Keys]
      BY <1>0, <3>1, OpCases
    <3>3. o.kind = "delete"
      BY <3>2
    <3> QED BY <1>2, <3>1, <3>3
  <2>4. CASE ClearReturn(c)
    <3>1. op' = [op EXCEPT ![c] = Idle] /\ Idle.kind # "set"
      BY <2>4 DEF ClearReturn, Idle
    <3> QED BY <1>2, <3>1
  <2> QED BY <1>5, <2>1, <2>2, <2>3, <2>4
<1>6. op' = op \/ \E c \in Clients :
        \/ \E key \in Keys, val \in Values, duration \in Durations :
              SetStart(c, key, val, duration)
        \/ SetApply(c)
        \/ ClearStart(c) \/ ClearScan(c) \/ ClearDelete(c) \/ ClearReturn(c)
  BY DEF Next, vars, Tick, GetLevel1Hit, GetLevel1Expired, GetLevel2, Delete, Close, CleanupStart,
         CleanupBucket
<1> QED BY <1>0, <1>1, <1>3, <1>4, <1>5, <1>6 DEF StoreInv

LEMMA StoreInvInit == Init => StoreInv
BY InitType DEF StoreInv, Init, SetsInTime, Idle

\* The Set of one client takes effect.
LEMMA SetEffect ==
  ASSUME TypeOK, NEW c \in Clients, SetApply(c), NEW key, key = op[c].k
  PROVE  /\ op[c].kind = "set" /\ key \in Keys /\ op'[c] = Idle
         /\ Effect({key}) /\ Len(reported') \in {0, 1}
         /\ SetsInTime => /\ did' = Did("set", key, Readable(key)')
                          /\ Level1ReusesDeletedFirst => Level1ReusesDeletedFirst'
<1>1. /\ IsStore(caches) /\ clock \in Nat /\ op[c].kind = "set" /\ op \in [Clients -> OpType]
      /\ SetsInTime => op[c].expireAt > 0
  BY TypeOKClock DEF SetsInTime, SetApply, TypeOK
<1>2. PICK nd \in Node : op[c].k = nd.k /\ op[c].v = nd.v /\ op[c].expireAt = nd.expireAt
  BY <1>1, SetPending
<1>3. nd.k \in Keys /\ nd.k = key
  BY <1>2 DEF Node
<1>4. op'[c] = Idle
  <2> DEFINE ops == [op EXCEPT ![c] = Idle]
  <2>1. op' = NoteSet(ops, op[c].k) /\ ops[c] = Idle
    BY <1>1 DEF SetApply
  <2> HIDE DEF ops
  <2> QED BY <2>1 DEF NoteSet, Idle
<1>5. /\ Effect({key}) /\ Len(reported') \in {0, 1}
      /\ SetsInTime => /\ did' = Did("set", key, Readable(key)')
                       /\ Level1ReusesDeletedFirst => Level1ReusesDeletedFirst'
  BY <1>1, <1>2, <1>3, SetApplyEffect
<1> QED BY <1>1, <1>3, <1>4, <1>5

\* Deletion by Delete.
LEMMA DeleteAnswers ==
  ASSUME TypeOK, NEW key \in Keys, Delete(key)
  PROVE  /\ Effect({}) /\ Len(reported') \in {0, 1}
         /\ Readable(key)' = None /\ \A other \in Keys \ {key} : Readable(other)' = Readable(other)
         /\ did' = Did("delete", key, Stored(key)) /\ (Readable(key) # None => Stored(key))
         /\ Level1ReusesDeletedFirst => Level1ReusesDeletedFirst'
<1>1. /\ caches' = [caches EXCEPT ![BucketOf[key]] = DeleteFrom(@, key)]
      /\ reported' = DeleteReport(caches[BucketOf[key]], key) /\ clock' = clock
      /\ did' = Did("delete", key, Stored(key))
  BY DEF Delete, Stored
<1> QED BY <1>1, TypeOKClock, DeleteKeyEffect

\* Clear and the cleanup forget, and answer nobody.
LEMMA OwnStep ==
  ASSUME TypeOK, Next, ~Tick, ~\E c \in Clients : SetApply(c),
         ~\E key \in Keys : \/ GetLevel1Hit(key) \/ GetLevel1Expired(key) \/ GetLevel2(key)
                            \/ Delete(key)
  PROVE  /\ Effect({}) /\ did' = None
         /\ Level1ReusesDeletedFirst => Level1ReusesDeletedFirst'
<1>0. IsStore(caches) /\ clock \in Nat
  BY TypeOKClock
<1>1. CASE caches' = caches /\ clock' = clock /\ reported' = <<>> /\ did' = None
  BY <1>0, <1>1, NoEffect
<1>2. ASSUME NEW c \in Clients, ClearDelete(c)
      PROVE  /\ Effect({}) /\ did' = None
             /\ Level1ReusesDeletedFirst => Level1ReusesDeletedFirst'
  <2>1. did' = None
    BY <1>2 DEF ClearDelete
  <2> QED BY <1>0, <1>2, <2>1, ClearDeleteEffect
<1>3. CASE CleanupBucket
  <2>1. did' = None /\ sweep # Waiting
    BY <1>3 DEF CleanupBucket
  <2> QED BY <1>0, <1>3, <2>1, SweepType, CleanupEffect
<1>4. \/ caches' = caches /\ clock' = clock /\ reported' = <<>> /\ did' = None
      \/ \E c \in Clients : ClearDelete(c)
      \/ CleanupBucket
  BY DEF Next, SetStart, ClearStart, ClearScan, ClearReturn, Close, CleanupStart
<1> QED BY <1>1, <1>2, <1>3, <1>4

\* One step, for the keys that no Set wrote in it.
LEMMA StepEffect ==
  ASSUME TypeOK, Next, ~Tick
  PROVE  /\ \E written \in SUBSET Keys :
              /\ Effect(written)
              /\ \A key \in written :
                   \E c \in Clients : op[c].kind = "set" /\ op[c].k = key /\ op'[c] = Idle
         /\ SetsInTime /\ Level1ReusesDeletedFirst => Level1ReusesDeletedFirst'
<1>1. CASE \E c \in Clients : SetApply(c)
  <2>1. PICK c \in Clients : SetApply(c)
    BY <1>1
  <2> PICK key : key = op[c].k
    OBVIOUS
  <2> DEFINE written == {key}
  <2>2. /\ op[c].kind = "set" /\ key \in Keys /\ op'[c] = Idle /\ Effect(written)
        /\ SetsInTime /\ Level1ReusesDeletedFirst => Level1ReusesDeletedFirst'
    BY <2>1, SetEffect
  <2>3. written \in SUBSET Keys /\ \A other \in written : other = op[c].k
    BY <2>2
  <2> HIDE DEF written
  <2> QED BY <2>2, <2>3
<1>2. CASE Effect({}) /\ (Level1ReusesDeletedFirst => Level1ReusesDeletedFirst')
  BY <1>2
<1>3. CASE \E key \in Keys : GetLevel1Hit(key) \/ GetLevel1Expired(key) \/ GetLevel2(key)
  BY <1>2, <1>3, GetAnswers
<1>4. CASE \E key \in Keys : Delete(key)
  BY <1>2, <1>4, DeleteAnswers
<1> QED BY <1>1, <1>2, <1>3, <1>4, OwnStep

(* A full level 1 that has a deleted slot reuses it and pushes nothing out:   *)
(* what del promises with "moved to the tail, to be reused first" (lines      *)
(* 488-489), for every order of calls, as long as no Set is given a duration  *)
(* of 0 (line 165), which would put a node that reads as deleted at the head. *)
THEOREM Level1ReusesDeletedSlots ==
  ASSUME DurationsPositive
  PROVE  Spec => []Level1ReusesDeletedFirst
<1> DEFINE Inv == StoreInv /\ Level1ReusesDeletedFirst
<1>1. ASSUME Init PROVE Inv
  <2>1. \A b \in 1..Buckets : caches[b][1] = <<>>
    BY <1>1 DEF Init
  <2>2. DeletedReusedFirst(<<>>)
    BY EmptySeq DEF DeletedReusedFirst
  <2> QED BY <1>1, <2>1, <2>2, StoreInvInit DEF Level1ReusesDeletedFirst
<1>2. ASSUME Inv, [Next]_vars PROVE Inv'
  <2>1. StoreInv'
    BY <1>2, StoreInvStep
  <2>2. CASE UNCHANGED vars
    BY <1>2, <2>1, <2>2 DEF vars, Level1ReusesDeletedFirst
  <2>3. CASE Tick
    BY <1>2, <2>1, <2>3, TickEffect DEF StoreInv
  <2>4. CASE Next /\ ~Tick
    BY <1>2, <2>1, <2>4, StepEffect DEF StoreInv
  <2> QED BY <1>2, <2>2, <2>3, <2>4
<1>3. Inv => Level1ReusesDeletedFirst
  OBVIOUS
<1> QED BY <1>1, <1>2, <1>3, PTL DEF Spec

LEMMA AlwaysStoreInv ==
  ASSUME DurationsPositive
  PROVE  Spec => []StoreInv
<1>1. Init => StoreInv
  BY StoreInvInit
<1>2. StoreInv /\ [Next]_vars => StoreInv'
  BY StoreInvStep
<1> QED BY <1>1, <1>2, PTL DEF Spec

(* Nothing that could be read is dropped silently, however evictions at       *)
(* either level, deletions, Clear and the cleanup interleave: time or a Set   *)
(* of the key took it, or it was passed to onEvicted in that step (lines      *)
(* 27-30, 196-199, 576-588).                                                  *)
THEOREM LossesReported == Spec => EveryLossReported
<1> DEFINE Step == \A key \in Keys :
             (Readable(key) # None /\ Readable(key)' = None /\ clock' = clock
                /\ ~\E c \in Clients : op[c].kind = "set" /\ op'[c] = Idle /\ op[c].k = key)
             => [k |-> key, v |-> Readable(key)] \in ToSet(reported')
<1>1. ASSUME TypeOK, [Next]_vars PROVE [Step]_vars
  <2> SUFFICES ASSUME Next, NEW key \in Keys,
                      Readable(key) # None, Readable(key)' = None, clock' = clock,
                      ~\E c \in Clients : op[c].kind = "set" /\ op'[c] = Idle /\ op[c].k = key
               PROVE  [k |-> key, v |-> Readable(key)] \in ToSet(reported')
    BY <1>1
  <2>1. ~Tick
    BY <1>1, TypeOKClock DEF Tick
  <2>2. PICK written \in SUBSET Keys :
          /\ Effect(written)
          /\ \A other \in written :
               \E c \in Clients : op[c].kind = "set" /\ op[c].k = other /\ op'[c] = Idle
    BY <1>1, <2>1, StepEffect
  <2>3. key \notin written
    BY <2>2
  <2> QED BY <2>2, <2>3 DEF Effect
<1> HIDE DEF Step
<1>2. Spec => [][Step]_vars
  BY <1>1, TypeCorrect, PTL DEF Spec
<1> QED BY <1>2 DEF EveryLossReported, Step

(* A callback speaks of a value that is gone, and of a key once: after the    *)
(* step the key is in no level, or only in level 1, with the node that hid    *)
(* the reported copy or that a Set put there in this very step (lines         *)
(* 196-199, 434, 577-588).                                                    *)
THEOREM ReportsOnceAndOfTheGone == Spec => ReportedOnceAndGone
<1> DEFINE Step ==
             /\ \A i, j \in DOMAIN reported' : reported'[i].k = reported'[j].k => i = j
             /\ \A key \in {reported'[i].k : i \in DOMAIN reported'} :
                  /\ ~Live(L2(key), key)'
                  /\ Live(L1(key), key)' =>
                       \/ Live(L1(key), key) /\ NodeOf(L1(key), key)' = NodeOf(L1(key), key)
                       \/ \E c \in Clients : op[c].kind = "set" /\ op[c].k = key /\ op'[c] = Idle
<1>1. ASSUME TypeOK, [Next]_vars PROVE [Step]_vars
  <2> SUFFICES ASSUME Next PROVE Step
    BY <1>1
  <2>1. CASE Tick
    <3>1. reported' = <<>> /\ DOMAIN <<>> = {}
      BY <2>1 DEF Tick
    <3> QED BY <3>1
  <2>2. CASE ~Tick
    <3>1. PICK written \in SUBSET Keys :
            /\ Effect(written)
            /\ \A other \in written :
                 \E c \in Clients : op[c].kind = "set" /\ op[c].k = other /\ op'[c] = Idle
      BY <1>1, <2>2, StepEffect
    <3>2. /\ DOMAIN reported' = 1..Len(reported') /\ OncePerKey(reported')
          /\ ReportedKeys(reported') = {reported'[i].k : i \in DOMAIN reported'}
      BY <3>1 DEF Effect, ReportedKeys
    <3> QED BY <3>1, <3>2 DEF Effect, OncePerKey
  <2> QED BY <2>1, <2>2
<1> HIDE DEF Step
<1>2. Spec => [][Step]_vars
  BY <1>1, TypeCorrect, PTL DEF Spec
<1> QED BY <1>2, PTL DEF ReportedOnceAndGone, Step

-----------------------------------------------------------------------------
(* Clear: a key that is still in a level, and was not set since Clear began,  *)
(* is in a bucket Clear has yet to scan or among the keys it has yet to       *)
(* delete.                                                                    *)

LeftToClear(o) ==
  \A key \in Keys \ o.since :
    Stored(key) /\ (o.kind = "scan" => BucketOf[key] < o.bucket) => key \in ToSet(o.keys)

ClearInv == \A c \in Clients : op[c].kind \in {"scan", "delete"} => LeftToClear(op[c])

\* Setting a key leaves a Clear where it was, and is noted.
LEMMA NoteSetFields ==
  ASSUME NEW o \in OpType, o.kind \in {"scan", "delete"}, NEW key \in Keys,
         NEW new, new = [o EXCEPT !.since = @ \cup {key}]
  PROVE  /\ new.kind = o.kind /\ new.keys = o.keys /\ new.since = o.since \cup {key}
         /\ o.kind = "scan" => new.bucket = o.bucket
<1>1. CASE o \in [kind : {"scan"}, bucket : 1..Buckets, keys : Seq(Keys), since : SUBSET Keys]
  BY <1>1
<1>2. CASE o \in [kind : {"delete"}, keys : Seq(Keys), since : SUBSET Keys]
  BY <1>2
<1> QED BY <1>1, <1>2, OpCases

\* The Clear of client c, in a step of others that puts no key into a level
\* without telling it.
LEMMA ClearUndisturbed ==
  ASSUME ClearInv, NEW c \in Clients, op'[c] = op[c],
         \A key \in Keys : Stored(key)' => Stored(key),
         op'[c].kind \in {"scan", "delete"}
  PROVE  LeftToClear(op[c])'
BY DEF ClearInv, LeftToClear

LEMMA ClearInvStep ==
  ASSUME TypeOK, ClearInv, [Next]_vars, NEW c \in Clients, op'[c].kind \in {"scan", "delete"}
  PROVE  LeftToClear(op[c])'
<1>0. /\ op \in [Clients -> OpType] /\ op[c] \in OpType /\ IsStore(caches) /\ clock \in Nat
      /\ \A key \in Keys : BucketOf[key] \in 1..Buckets
  BY TypeOKClock, StoreAssumption DEF TypeOK
<1>1. CASE op'[c] = op[c] /\ \A key \in Keys : Stored(key)' => Stored(key)
  BY <1>1, ClearUndisturbed
<1>2. CASE caches' = caches /\ op'[c] = op[c]
  BY <1>1, <1>2 DEF Stored, L1, L2
<1>3. CASE Effect({}) /\ op'[c] = op[c]
  BY <1>1, <1>3 DEF Effect
<1>4. ASSUME NEW d \in Clients, SetApply(d) PROVE LeftToClear(op[c])'
  <2> PICK key : key = op[d].k
    OBVIOUS
  <2>1. key \in Keys /\ Effect({key}) /\ op'[d] = Idle
    BY <1>4, SetEffect
  <2>2. c # d
    BY <2>1 DEF Idle
  <2> DEFINE ops == [op EXCEPT ![d] = Idle]
  <2>3. op' = NoteSet(ops, key) /\ ops[c] = op[c]
    BY <1>0, <1>4, <2>2 DEF SetApply
  <2> HIDE DEF ops
  <2>4. op[c].kind \in {"scan", "delete"} /\ op'[c] = [op[c] EXCEPT !.since = @ \cup {key}]
    BY <2>3 DEF NoteSet
  <2>5. /\ op'[c].kind = op[c].kind /\ op'[c].keys = op[c].keys /\ op'[c].since = op[c].since \cup {key}
        /\ op[c].kind = "scan" => op'[c].bucket = op[c].bucket
    BY <1>0, <2>1, <2>4, NoteSetFields
  <2>6. \A other \in Keys \ {key} : Stored(other)' => Stored(other)
    BY <2>1 DEF Effect
  <2>7. LeftToClear(op[c])
    BY <2>4 DEF ClearInv
  <2> QED BY <2>5, <2>6, <2>7 DEF LeftToClear
<1>5. CASE ClearStart(c)
  <2>1. op'[c] = [kind |-> "scan", bucket |-> 1, keys |-> <<>>, since |-> {}]
    BY <1>0, <1>5 DEF ClearStart
  <2>2. op'[c].kind = "scan" /\ op'[c].bucket = 1
    BY <2>1
  <2> QED BY <1>0, <2>2 DEF LeftToClear
<1>6. CASE ClearScan(c)
  <2> PICK b : b = op[c].bucket
    OBVIOUS
  <2>1. /\ op[c].kind = "scan" /\ b \in 1..Buckets /\ op[c].keys \in Seq(Keys)
        /\ IsBucket(caches[b], b) /\ caches' = caches /\ LeftToClear(op[c])
    BY <1>0, <1>6, ClearPending DEF ClearScan, IsStore, ClearInv
  <2>2. PICK keys \in Seq(Keys) :
          /\ ToSet(keys) = ToSet(op[c].keys) \cup LiveKeys(caches[b])
          /\ op'[c] = IF b < Buckets
                      THEN [kind |-> "scan", bucket |-> b + 1, keys |-> keys, since |-> op[c].since]
                      ELSE [kind |-> "delete", keys |-> keys, since |-> op[c].since]
    BY <1>0, <1>6, <2>1, ScanKeys DEF ClearScan
  <2>3. /\ op'[c].keys = keys /\ op'[c].since = op[c].since
        /\ op'[c].kind = "scan" => op'[c].bucket = b + 1
        /\ op'[c].kind # "scan" => b = Buckets
    BY <2>1, <2>2, StoreAssumption
  <2>4. ASSUME NEW key \in Keys, Stored(key)', key \notin op[c].since,
               op'[c].kind = "scan" => BucketOf[key] < op'[c].bucket
        PROVE  key \in ToSet(keys)
    <3>1. Stored(key) /\ BucketOf[key] \in 1..b
      BY <1>0, <2>1, <2>3, <2>4, StoreAssumption DEF Stored, L1, L2
    <3>2. CASE BucketOf[key] = b
      BY <2>1, <2>2, <3>1, <3>2, StoredIs DEF Stored, L1, L2
    <3>3. CASE BucketOf[key] < b
      BY <2>1, <2>2, <2>4, <3>1, <3>3 DEF LeftToClear
    <3> QED BY <2>1, <3>1, <3>2, <3>3
  <2> QED BY <2>3, <2>4 DEF LeftToClear
<1>7. CASE ClearDelete(c)
  <2> PICK first : first = Head(op[c].keys)
    OBVIOUS
  <2>1. /\ ToSet(op[c].keys) = {first} \cup ToSet(Tail(op[c].keys))
        /\ Effect({}) /\ ~Stored(first)'
    BY <1>7, ClearDeleteEffect
  <2>2. /\ op[c] \in [kind : {"delete"}, keys : Seq(Keys), since : SUBSET Keys]
        /\ op'[c] = [op[c] EXCEPT !.keys = Tail(op[c].keys)] /\ LeftToClear(op[c])
    BY <1>0, <1>7, OpCases DEF ClearDelete, ClearInv
  <2>3. /\ op'[c].keys = Tail(op[c].keys) /\ op'[c].since = op[c].since
        /\ op'[c].kind = "delete" /\ op[c].kind = "delete"
    BY <2>2
  <2>4. \A key \in Keys : Stored(key)' => Stored(key) /\ key # first
    BY <2>1 DEF Effect
  <2> QED BY <2>1, <2>2, <2>3, <2>4 DEF LeftToClear
<1>8. ASSUME NEW d \in Clients, d # c,
             ClearStart(d) \/ ClearScan(d) \/ ClearDelete(d) \/ ClearReturn(d)
      PROVE  LeftToClear(op[c])'
  <2>1. op'[c] = op[c]
    BY <1>0, <1>8 DEF ClearStart, ClearScan, ClearDelete, ClearReturn
  <2>2. CASE ClearDelete(d)
    BY <1>3, <2>1, <2>2, ClearDeleteEffect
  <2>3. CASE ~ClearDelete(d)
    BY <1>2, <1>8, <2>1, <2>3 DEF ClearStart, ClearScan, ClearReturn
  <2> QED BY <2>2, <2>3
<1>9. CASE ClearReturn(c)
  <2>1. op'[c] = Idle
    BY <1>0, <1>9 DEF ClearReturn
  <2> QED BY <2>1 DEF Idle
<1>10. ASSUME NEW d \in Clients, NEW key \in Keys, NEW val \in Values, NEW duration \in Durations,
              SetStart(d, key, val, duration)
       PROVE  LeftToClear(op[c])'
  <2>1. CASE d = c
    <3>1. op'[c].kind = "set"
      BY <1>0, <1>10, <2>1 DEF SetStart
    <3> QED BY <3>1
  <2>2. CASE d # c
    BY <1>0, <1>2, <1>10, <2>2 DEF SetStart
  <2> QED BY <2>1, <2>2
<1>11. CASE UNCHANGED vars \/ Tick \/ Close \/ CleanupStart
  BY <1>2, <1>11 DEF vars, Tick, Close, CleanupStart
<1>12. CASE \E key \in Keys : GetLevel1Hit(key) \/ GetLevel1Expired(key) \/ GetLevel2(key)
  <2>1. op' = op
    BY <1>12 DEF GetLevel1Hit, GetLevel1Expired, GetLevel2
  <2> QED BY <1>3, <1>12, <2>1, GetAnswers
<1>13. CASE \E key \in Keys : Delete(key)
  <2>1. op' = op
    BY <1>13 DEF Delete
  <2> QED BY <1>3, <1>13, <2>1, DeleteAnswers
<1>14. CASE CleanupBucket
  <2>1. op' = op /\ sweep # Waiting
    BY <1>14 DEF CleanupBucket
  <2> QED BY <1>0, <1>3, <1>14, <2>1, SweepType, CleanupEffect
<1> QED BY <1>4, <1>5, <1>6, <1>7, <1>8, <1>9, <1>10, <1>11, <1>12, <1>13, <1>14 DEF Next

(* When Clear returns, no key is left in either level but those set while it  *)
(* ran, however reads move entries between the levels and sets, deletions and *)
(* the cleanup run between the scans and the deletions (lines 224-251).       *)
THEOREM ClearLeavesNothing == Spec => ClearEmpties
<1> DEFINE Step == \A c \in Clients, key \in Keys :
             ClearReturn(c) /\ key \notin op[c].since => ~Live(L1(key), key) /\ ~Live(L2(key), key)
<1>1. Init => ClearInv
  BY DEF Init, ClearInv, Idle
<1>2. ASSUME TypeOK, ClearInv, [Next]_vars PROVE ClearInv' /\ [Step]_vars
  <2>1. ClearInv'
    BY <1>2, ClearInvStep DEF ClearInv
  <2>2. ASSUME NEW c \in Clients, NEW key \in Keys, ClearReturn(c), key \notin op[c].since
        PROVE  ~Stored(key)
    <3>1. op[c].kind = "delete" /\ op[c].keys = <<>> /\ LeftToClear(op[c])
      BY <1>2, <2>2 DEF ClearReturn, ClearInv
    <3> QED BY <2>2, <3>1, SetOfEmpty DEF LeftToClear
  <2> QED BY <2>1, <2>2 DEF Stored
<1> HIDE DEF Step
<1>3. Spec => [][Step]_vars
  BY <1>1, <1>2, TypeCorrect, PTL DEF Spec
<1> QED BY <1>3, PTL DEF ClearEmpties, Step

-----------------------------------------------------------------------------
(* The store implements LossyCache.                                           *)

LEMMA PromiseForgets ==
  ASSUME NEW keys \in SUBSET Keys, NEW written, keys \cap written = {},
         Effect(written), Len(reported') \in {0, 1}
  PROVE  Promise!ForgetAtMostOne(keys)
<1> DEFINE stored == [key \in Keys |-> Readable(key)]
<1>1. /\ \A key \in Keys : stored[key] = Readable(key)
      /\ \A key \in Keys : stored'[key] = Readable(key)'
  OBVIOUS
<1>2. \A key \in keys : Readable(key)' \in {Readable(key), None}
  BY DEF Effect
<1>3. PICK lost : \A key \in Keys \ written : key # lost => Readable(key)' = Readable(key)
  BY OneForgotten
<1> HIDE DEF stored
<1>4. \A key \in keys : stored'[key] \in {stored[key], None}
  BY <1>1, <1>2
<1>5. \A key \in keys : key # lost => stored'[key] = stored[key]
  BY <1>1, <1>3
<1> QED BY <1>4, <1>5 DEF Promise!ForgetAtMostOne, Promise!KeepOrForget, stored

LEMMA PromiseForget ==
  ASSUME \A key \in Keys : Readable(key)' \in {Readable(key), None}, did' = None
  PROVE  Promise!Forget
<1> DEFINE stored == [key \in Keys |-> Readable(key)]
<1>1. \A key \in Keys : stored'[key] = Readable(key)' /\ stored[key] = Readable(key)
  OBVIOUS
<1>2. \A key \in Keys : stored'[key] \in {stored[key], None}
  BY <1>1
<1> QED BY <1>2 DEF Promise!Forget, Promise!KeepOrForget

LEMMA PromiseStep ==
  ASSUME StoreInv, Next
  PROVE  Promise!Next
<1> DEFINE stored == [key \in Keys |-> Readable(key)]
<1>0. TypeOK /\ TypeOK'
  BY StepStore, RestStep, TypeParts DEF StoreInv
<1>1. /\ \A key \in Keys : stored[key] = Readable(key)
      /\ \A key \in Keys : stored'[key] = Readable(key)'
  OBVIOUS
<1>2. CASE Tick
  <2>1. did' = None
    BY <1>2 DEF Tick
  <2> QED BY <1>0, <1>2, <2>1, TickEffect, PromiseForget DEF Promise!Next
<1>3. ASSUME NEW c \in Clients, SetApply(c) PROVE Promise!Next
  <2> PICK key : key = op[c].k
    OBVIOUS
  <2>1. /\ key \in Keys /\ Effect({key}) /\ Len(reported') \in {0, 1}
        /\ did' = Did("set", key, Readable(key)')
    BY <1>0, <1>3, SetEffect DEF StoreInv
  <2> PICK val : val = Readable(key)'
    OBVIOUS
  <2>2. val \in Values \cup {None}
    <3>1. PICK nd \in Node : op[c].k = nd.k /\ op[c].v = nd.v /\ op[c].expireAt = nd.expireAt
      BY <1>0, <1>3, SetPending DEF SetApply
    <3> DEFINE answer == IF Expired(nd, clock) THEN None ELSE nd.v
    <3>2. answer \in Values \cup {None}
      BY DEF Node
    <3>3. did' = Did("set", key, answer)
      BY <1>3, <3>1 DEF SetApply, Expired
    <3> HIDE DEF answer
    <3>4. Did("set", key, val).v = val /\ Did("set", key, answer).v = answer
      BY DEF Did
    <3> QED BY <2>1, <3>2, <3>3, <3>4
  <2>3. Promise!ForgetAtMostOne(Keys \ {key})
    BY <2>1, PromiseForgets
  <2>4. Promise!Set(key, val)
    BY <1>1, <2>1, <2>3 DEF Promise!Set, Did
  <2> QED BY <2>1, <2>2, <2>4 DEF Promise!Next
<1>4. ASSUME NEW key \in Keys, GetLevel1Hit(key) \/ GetLevel1Expired(key) \/ GetLevel2(key)
      PROVE  Promise!Next
  <2>1. /\ Effect({}) /\ Len(reported') \in {0, 1}
        /\ Readable(key)' = Readable(key) /\ did' = Did("get", key, Readable(key))
    BY <1>0, <1>4, GetAnswers
  <2>2. Promise!ForgetAtMostOne(Keys \ {key})
    BY <2>1, PromiseForgets
  <2>3. Promise!Get(key)
    BY <1>1, <2>1, <2>2 DEF Promise!Get, Did
  <2> QED BY <2>3 DEF Promise!Next
<1>5. ASSUME NEW key \in Keys, Delete(key) PROVE Promise!Next
  <2>1. /\ Readable(key)' = None /\ \A other \in Keys \ {key} : Readable(other)' = Readable(other)
        /\ did' = Did("delete", key, Stored(key)) /\ (Readable(key) # None => Stored(key))
    BY <1>0, <1>5, DeleteAnswers
  <2>2. Stored(key) \in BOOLEAN
    BY Zenon DEF Stored, Live
  <2>3. \E found \in BOOLEAN : /\ did' = [call |-> "delete", k |-> key, v |-> found]
                               /\ stored[key] # None => found
    BY <1>1, <2>1, <2>2 DEF Did
  <2>4. stored' = [stored EXCEPT ![key] = None]
    BY <2>1
  <2>5. Promise!Delete(key)
    BY <2>3, <2>4 DEF Promise!Delete
  <2> QED BY <2>5 DEF Promise!Next
<1>6. CASE /\ ~Tick /\ ~\E c \in Clients : SetApply(c)
           /\ ~\E key \in Keys : \/ GetLevel1Hit(key) \/ GetLevel1Expired(key) \/ GetLevel2(key)
                                 \/ Delete(key)
  <2>1. Effect({}) /\ did' = None
    BY <1>0, <1>6, OwnStep
  <2>2. \A key \in Keys : Readable(key)' \in {Readable(key), None}
    BY <2>1 DEF Effect
  <2> QED BY <2>1, <2>2, PromiseForget DEF Promise!Next
<1> QED BY <1>2, <1>3, <1>4, <1>5, <1>6

(* Get answers what was last set for the key, or a miss, whatever the         *)
(* capacities, the buckets, the clients and the order of their calls: no copy *)
(* left in level 2 comes back after a Set, a Delete, an expiry, an eviction   *)
(* or a cleanup; a Set or a Get pushes out at most one other key and a Delete *)
(* none (lines 102-215, 600-637).                                             *)
THEOREM StoreIsLossyCache ==
  ASSUME DurationsPositive
  PROVE  Spec => IsLossyCache
<1>1. ASSUME Init PROVE Promise!Init
  <2>1. ASSUME NEW key \in Keys PROVE Readable(key) = None
    <3>1. L1(key) = <<>> /\ L2(key) = <<>>
      BY <1>1, StoreAssumption DEF Init, L1, L2
    <3>2. ~Live(<<>>, key)
      BY EmptySeq DEF Live, Holds
    <3> QED BY <3>1, <3>2 DEF Readable, ValueIn
  <2>2. [key \in Keys |-> Readable(key)] = [key \in Keys |-> None]
    BY <2>1
  <2> QED BY <1>1, <2>2 DEF Promise!Init, Init
<1>2. ASSUME StoreInv, [Next]_vars PROVE [Promise!Next]_(Promise!vars)
  <2>1. CASE Next
    BY <1>2, <2>1, PromiseStep
  <2>2. CASE UNCHANGED vars
    <3>1. \A key \in Keys : Readable(key)' = Readable(key)
      BY <2>2, ReadableIs DEF vars
    <3>2. [key \in Keys |-> Readable(key)]' = [key \in Keys |-> Readable(key)]
      BY <3>1
    <3> QED BY <2>2, <3>2 DEF Promise!vars, vars
  <2> QED BY <1>2, <2>1, <2>2
<1> QED BY <1>1, <1>2, AlwaysStoreInv, PTL DEF Spec, IsLossyCache, Promise!Spec
=============================================================================
