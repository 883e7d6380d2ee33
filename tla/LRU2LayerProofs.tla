--------------------------- MODULE LRU2LayerProofs ---------------------------
(* One level of lru2Store, for every set of keys and values and every         *)
(* capacity: the linked list and the index stay coherent through every put,   *)
(* get and del, the list is one chain over the slots in use, and what the     *)
(* arrays do is what RecencyList does with its sequence of nodes.             *)
EXTENDS LRU2LayerRefinement, SequenceTheorems, WellFoundedInduction, TLAPS

DlnkType == [0..Cap -> [{0, 1} -> 0..Cap]]

\* One assignment to dlnk[i][s].
WithLink(d, i, s, j) == [d EXCEPT ![i][s] = j]

(* What adjust leaves in every link, when slot idx is not already where it is *)
(* sent (lines 537-544).                                                      *)
LEMMA AdjustPointwise ==
  ASSUME NEW d \in DlnkType, NEW idx \in 1..Cap, NEW f \in {0, 1}, NEW t \in {0, 1}, f # t,
         d[idx][f] # 0, d[0][t] # idx
  PROVE  /\ Adjust(d, idx, f, t) \in DlnkType
         /\ \A i \in 0..Cap :
              /\ Adjust(d, idx, f, t)[i][f] =
                   IF i = d[0][t] THEN idx ELSE IF i = idx THEN 0
                   ELSE IF i = d[idx][t] THEN d[idx][f] ELSE d[i][f]
              /\ Adjust(d, idx, f, t)[i][t] =
                   IF i = 0 THEN idx ELSE IF i = idx THEN d[0][t]
                   ELSE IF i = d[idx][f] THEN d[idx][t] ELSE d[i][t]
<1> DEFINE a == d[idx][t]
           b == d[idx][f]
           h == d[0][t]
<1>0. /\ 0 \in 0..Cap /\ idx \in 0..Cap /\ b # 0 /\ idx # 0 /\ h # idx
      /\ a \in 0..Cap /\ b \in 0..Cap /\ h \in 0..Cap
      /\ a = d[idx][t] /\ b = d[idx][f] /\ h = d[0][t]
  <2>1. 0 \in 0..Cap /\ idx \in 0..Cap /\ idx # 0
    BY CapAssumption
  <2>2. d[idx] \in [{0, 1} -> 0..Cap] /\ d[0] \in [{0, 1} -> 0..Cap]
    BY <2>1 DEF DlnkType
  <2> QED BY <2>1, <2>2
<1> HIDE DEF a, b, h
<1> DEFINE d1 == WithLink(d, a, f, b)
           d2 == WithLink(d1, b, t, a)
           d3 == WithLink(d2, idx, f, 0)
           d4 == WithLink(d3, idx, t, h)
           d5 == WithLink(d4, h, f, idx)
           d6 == WithLink(d5, 0, t, idx)
<1>1. d1 \in DlnkType
      /\ \A i \in 0..Cap : /\ d1[i][f] = IF i = a THEN b ELSE d[i][f]
                           /\ d1[i][t] = d[i][t]
  BY <1>0 DEF WithLink, DlnkType
<1>2. d2 \in DlnkType
      /\ \A i \in 0..Cap : /\ d2[i][f] = IF i = a THEN b ELSE d[i][f]
                           /\ d2[i][t] = IF i = b THEN a ELSE d[i][t]
  <2> DEFINE row == [d1[b] EXCEPT ![t] = a]
  <2>1. d2 = [d1 EXCEPT ![b] = row]
    BY DEF WithLink
  <2> HIDE DEF d1, d2
  <2>2. d1 \in [0..Cap -> [{0, 1} -> 0..Cap]] /\ d1[b] \in [{0, 1} -> 0..Cap]
    BY <1>0, <1>1 DEF DlnkType
  <2>3. row \in [{0, 1} -> 0..Cap] /\ row[t] = a /\ row[f] = d1[b][f]
    BY <1>0, <2>2
  <2> HIDE DEF row
  <2>4. d2 \in DlnkType /\ d2[b] = row /\ \A i \in 0..Cap : i # b => d2[i] = d1[i]
    BY <1>0, <2>1, <2>2, <2>3 DEF DlnkType
  <2> QED BY <1>0, <1>1, <2>3, <2>4
<1>3. d3 \in DlnkType
      /\ \A i \in 0..Cap : /\ d3[i][f] = IF i = idx THEN 0 ELSE IF i = a THEN b ELSE d[i][f]
                           /\ d3[i][t] = IF i = b THEN a ELSE d[i][t]
  <2> HIDE DEF d2
  <2> QED BY <1>0, <1>2 DEF WithLink, DlnkType
<1>4. d4 \in DlnkType
      /\ \A i \in 0..Cap : /\ d4[i][f] = IF i = idx THEN 0 ELSE IF i = a THEN b ELSE d[i][f]
                           /\ d4[i][t] = IF i = idx THEN h ELSE IF i = b THEN a ELSE d[i][t]
  <2> HIDE DEF d3
  <2> QED BY <1>0, <1>3 DEF WithLink, DlnkType
<1>5. d5 \in DlnkType
      /\ \A i \in 0..Cap : /\ d5[i][f] = IF i = h THEN idx ELSE IF i = idx THEN 0
                                         ELSE IF i = a THEN b ELSE d[i][f]
                           /\ d5[i][t] = IF i = idx THEN h ELSE IF i = b THEN a ELSE d[i][t]
  <2> HIDE DEF d4
  <2> QED BY <1>0, <1>4 DEF WithLink, DlnkType
<1>6. d6 \in DlnkType
      /\ \A i \in 0..Cap : /\ d6[i][f] = IF i = h THEN idx ELSE IF i = idx THEN 0
                                         ELSE IF i = a THEN b ELSE d[i][f]
                           /\ d6[i][t] = IF i = 0 THEN idx ELSE IF i = idx THEN h
                                         ELSE IF i = b THEN a ELSE d[i][t]
  <2> HIDE DEF d5
  <2> QED BY <1>0, <1>5 DEF WithLink, DlnkType
<1>7. d1[idx][f] = b /\ d1[idx][t] = a /\ d3[0][t] = h /\ d4[0][t] = h
  <2> HIDE DEF d1, d3, d4
  <2> QED BY <1>0, <1>1, <1>3, <1>4
<1>8. Adjust(d, idx, f, t) = d6
  BY <1>0, <1>7 DEF Adjust, WithLink
<1> QED
  <2> HIDE DEF d6
  <2> QED BY <1>0, <1>6, <1>8

\* Links for a list d over the slots 0..top: what adjust has to preserve.
LinksIn(d, top) ==
  /\ d \in DlnkType
  /\ \A i \in 0..top, s \in {P, N} : d[i][s] \in 0..top /\ d[d[i][s]][1 - s] = i

(* adjust keeps the list closed and doubly linked, in either direction, and   *)
(* leaves the moved slot at the end it was sent to (lines 533-546).           *)
LEMMA AdjustLinks ==
  ASSUME NEW d, NEW top \in 0..Cap, NEW idx \in 1..top,
         NEW f \in {P, N}, NEW t \in {P, N}, f # t,
         LinksIn(d, top), d[0][N] # 0
  PROVE  LinksIn(Adjust(d, idx, f, t), top) /\ Adjust(d, idx, f, t)[0][N] # 0
<1>0. top \in Nat /\ Cap \in Nat /\ 0..top \subseteq 0..Cap /\ idx \in 0..top /\ 0 \in 0..top
  BY CapAssumption
<1>1. CASE d[idx][f] = 0
  BY <1>1 DEF Adjust
<1>2. CASE d[idx][f] # 0
  <2> DEFINE a == d[idx][t]
             b == d[idx][f]
             h == d[0][t]
             e == Adjust(d, idx, f, t)
  <2>1. /\ f \in {0, 1} /\ t = 1 - f /\ f = 1 - t /\ t \in {0, 1}
        /\ d \in DlnkType
        /\ \A i \in 0..top : /\ d[i][f] \in 0..top /\ d[d[i][f]][t] = i
                             /\ d[i][t] \in 0..top /\ d[d[i][t]][f] = i
    <3>1. f \in {0, 1} /\ t \in {0, 1} /\ f # t
      BY DEF P, N
    <3>2. t = 1 - f /\ f = 1 - t
      BY <3>1
    <3> QED BY <3>1, <3>2 DEF LinksIn, P, N
  <2>2. a \in 0..top /\ b \in 0..top /\ h \in 0..top /\ d[a][f] = idx /\ d[b][t] = idx
        /\ d[h][f] = 0 /\ b # 0 /\ h # idx /\ idx # 0
    BY <1>0, <1>2, <2>1
  <2>3. /\ e \in DlnkType
        /\ \A i \in 0..Cap :
             /\ e[i][f] = IF i = h THEN idx ELSE IF i = idx THEN 0
                          ELSE IF i = a THEN b ELSE d[i][f]
             /\ e[i][t] = IF i = 0 THEN idx ELSE IF i = idx THEN h
                          ELSE IF i = b THEN a ELSE d[i][t]
    BY <1>0, <1>2, <2>1, <2>2, AdjustPointwise
  <2>4. ASSUME NEW i \in 0..top
        PROVE  /\ e[i][f] \in 0..top /\ e[e[i][f]][t] = i
               /\ e[i][t] \in 0..top /\ e[e[i][t]][f] = i
    <3> HIDE DEF a, b, h, e
    <3>1. /\ d[i][f] \in 0..top /\ d[d[i][f]][t] = i
          /\ d[i][t] \in 0..top /\ d[d[i][t]][f] = i
      BY <2>1
    <3>2. d[idx][t] = a /\ d[idx][f] = b /\ d[0][t] = h
      BY DEF a, b, h
    <3>3. e[i][f] \in 0..top /\ e[i][t] \in 0..top
      BY <1>0, <2>2, <2>3, <3>1
    <3>4. e[e[i][f]][t] = i
      BY <1>0, <2>2, <2>3, <3>1, <3>2
    <3>5. e[e[i][t]][f] = i
      BY <1>0, <2>2, <2>3, <3>1, <3>2
    <3> QED BY <3>3, <3>4, <3>5
  <2>5. e[0][N] # 0
    <3> HIDE DEF a, b, h, e
    <3>1. e[0][t] = idx /\ e[0][f] \in {idx, b, d[0][f]}
      BY <1>0, <2>2, <2>3
    <3>2. t = N \/ f = N
      BY <2>1 DEF N
    <3> QED BY <2>2, <3>1, <3>2
  <2> QED BY <2>1, <2>3, <2>4, <2>5 DEF LinksIn, DlnkType, P, N
<1> QED BY <1>1, <1>2

(* A fresh slot linked in by put is the new head of a list that is closed and *)
(* doubly linked over one slot more (lines 448-464).                          *)
LEMMA LinkFreshLinks ==
  ASSUME NEW d, NEW top \in 0..Cap, top # Cap, NEW first \in BOOLEAN,
         LinksIn(d, top), first => d[0][N] = 0
  PROVE  LinksIn(LinkFresh(d, top + 1, first), top + 1)
         /\ LinkFresh(d, top + 1, first)[0][N] # 0
         /\ \A i \in 0..Cap :
              LinkFresh(d, top + 1, first)[i][N] =
                IF i = 0 THEN top + 1 ELSE IF i = top + 1 THEN d[0][N] ELSE d[i][N]
<1> DEFINE slot == top + 1
           h == d[0][N]
           d1 == IF first THEN [d EXCEPT ![0][P] = slot] ELSE [d EXCEPT ![h][P] = slot]
           d2 == [d1 EXCEPT ![slot] = [s \in {P, N} |-> IF s = P THEN 0 ELSE h]]
           d3 == [d2 EXCEPT ![0][N] = slot]
<1>0. /\ top \in Nat /\ Cap \in Nat /\ slot \in 1..Cap /\ 0 \in 0..top /\ slot # 0
      /\ slot \notin 0..top /\ 0..top \subseteq 0..Cap /\ 0..slot = (0..top) \cup {slot}
  <2>1. top \in Nat /\ Cap \in Nat /\ top < Cap
    BY CapAssumption
  <2>2. 0..slot = (0..top) \cup {slot}
    BY <2>1
  <2> QED BY <2>1, <2>2
<1>1. d \in DlnkType /\ h \in 0..top
      /\ \A i \in 0..top : /\ d[i][0] \in 0..top /\ d[d[i][0]][1] = i
                           /\ d[i][1] \in 0..top /\ d[d[i][1]][0] = i
  BY <1>0 DEF LinksIn, P, N
<1>a. slot \in 0..Cap /\ h \in 0..Cap /\ 0 \in 0..Cap /\ d \in DlnkType
  BY <1>0, <1>1
<1>2. d1 = [d EXCEPT ![h][P] = slot]
  OBVIOUS
<1>3. d1 \in DlnkType /\ d1[0][N] = h
      /\ \A i \in 0..Cap : /\ d1[i][0] = IF i = h THEN slot ELSE d[i][0]
                           /\ d1[i][1] = d[i][1]
  <2> HIDE DEF d1
  <2> QED BY <1>a, <1>2 DEF DlnkType, P, N
<1>4. d2 \in DlnkType
      /\ \A i \in 0..Cap : /\ d2[i][0] = IF i = slot THEN 0 ELSE IF i = h THEN slot ELSE d[i][0]
                           /\ d2[i][1] = IF i = slot THEN h ELSE d[i][1]
  <2> HIDE DEF d1, h, slot
  <2> QED BY <1>a, <1>3 DEF DlnkType, P, N
<1>5. d3 \in DlnkType
      /\ \A i \in 0..Cap : /\ d3[i][0] = IF i = slot THEN 0 ELSE IF i = h THEN slot ELSE d[i][0]
                           /\ d3[i][1] = IF i = 0 THEN slot ELSE IF i = slot THEN h ELSE d[i][1]
  <2> HIDE DEF d2, h, slot
  <2>1. d3 \in DlnkType
        /\ \A i \in 0..Cap : d3[i][0] = d2[i][0] /\ d3[i][1] = IF i = 0 THEN slot ELSE d2[i][1]
    <3>1. d2 \in DlnkType
      BY <1>4
    <3> QED BY <1>a, <3>1 DEF DlnkType, N
  <2> QED BY <1>a, <1>4, <2>1
<1>6. LinkFresh(d, slot, first) = d3
  <2>1. [s \in {P, N} |-> IF s = P THEN 0 ELSE d1[0][N]] = [s \in {P, N} |-> IF s = P THEN 0 ELSE h]
    <3> HIDE DEF d1, h
    <3> QED BY <1>3
  <2>2. LinkFresh(d, slot, first)
          = [[d1 EXCEPT ![slot] = [s \in {P, N} |-> IF s = P THEN 0 ELSE d1[0][N]]]
                EXCEPT ![0][N] = slot]
    BY DEF LinkFresh
  <2> HIDE DEF d1, h
  <2> QED BY <2>1, <2>2
<1>7. ASSUME NEW i \in 0..slot
      PROVE  /\ d3[i][0] \in 0..slot /\ d3[d3[i][0]][1] = i
             /\ d3[i][1] \in 0..slot /\ d3[d3[i][1]][0] = i
  <2>0. d[0][1] = h
    BY DEF N
  <2> HIDE DEF d3, h, slot
  <2>1. CASE i = slot
    BY <2>0, <2>1, <1>0, <1>1, <1>5
  <2>2. CASE i \in 0..top
    BY <2>0, <2>2, <1>0, <1>1, <1>5
  <2> QED BY <1>0, <2>1, <2>2
<1>8. d3[0][N] # 0
  <2>1. slot # 0 /\ 0 \in 0..Cap
    BY <1>0
  <2> HIDE DEF d3, slot
  <2> QED BY <2>1, <1>5 DEF N
<1>9. LinksIn(d3, slot)
  <2> HIDE DEF d3, slot
  <2>1. ASSUME NEW i \in 0..slot, NEW s \in {P, N}
        PROVE  d3[i][s] \in 0..slot /\ d3[d3[i][s]][1 - s] = i
    <3>1. CASE s = 0
      BY <3>1, <1>7
    <3>2. CASE s = 1
      BY <3>2, <1>7
    <3> QED BY <3>1, <3>2 DEF P, N
  <2> QED BY <2>1, <1>5 DEF LinksIn
<1> QED
  <2> HIDE DEF d3
  <2>1. \A i \in 0..Cap : d3[i][N] = IF i = 0 THEN slot ELSE IF i = slot THEN h ELSE d[i][N]
    BY <1>5 DEF N
  <2> QED BY <1>6, <1>8, <1>9, <2>1

LEMMA LinksAsLinksIn ==
  ASSUME TypeOK
  PROVE  Links <=> LinksIn(dlnk, last) /\ (last > 0 => dlnk[0][N] # 0)
<1>1. dlnk \in DlnkType
  BY DEF TypeOK, DlnkType, P, N
<1> QED BY <1>1 DEF Links, LinksIn

LEMMA InitIInv == Init => IInv
<1> SUFFICES ASSUME Init PROVE IInv
  OBVIOUS
<1>1. TypeOK
  <2>1. 0 \in 0..Cap /\ NoNode \in Node
    BY CapAssumption DEF NoNode, Node
  <2> QED BY <2>1 DEF Init, TypeOK, Returned
<1>2. Links
  <2>1. last = 0 /\ 0 \in 0..Cap
    BY CapAssumption DEF Init
  <2>2. \A s \in {P, N} : dlnk[0][s] = 0
    BY <2>1 DEF Init
  <2>3. ASSUME NEW i \in 0..last, NEW s \in {P, N}
        PROVE  dlnk[i][s] \in 0..last /\ dlnk[dlnk[i][s]][1 - s] = i
    <3>1. i = 0 /\ 1 - s \in {P, N}
      BY <2>1 DEF P, N
    <3> QED BY <2>1, <2>2, <3>1
  <2> QED BY <2>1, <2>3 DEF Links
<1>3. Index
  BY DEF Init, Index
<1> QED BY <1>1, <1>2, <1>3 DEF IInv

(* The moves to the head or the tail made by put, get and del on a slot in use*)
LEMMA MoveLinks ==
  ASSUME IInv, NEW idx \in 1..last, NEW f \in {P, N}, NEW t \in {P, N}, f # t,
         dlnk' = Adjust(dlnk, idx, f, t), last' = last
  PROVE  LinksIn(dlnk, last)' /\ (dlnk[0][N] # 0)' /\ dlnk' \in DlnkType
<1>1. last \in 0..Cap /\ last > 0
  BY CapAssumption DEF IInv, TypeOK
<1>2. LinksIn(dlnk, last) /\ dlnk[0][N] # 0
  BY <1>1, LinksAsLinksIn DEF IInv
<1>3. LinksIn(Adjust(dlnk, idx, f, t), last) /\ Adjust(dlnk, idx, f, t)[0][N] # 0
  BY <1>1, <1>2, AdjustLinks
<1> QED BY <1>3 DEF LinksIn

LEMMA NextIInv == IInv /\ [Next]_vars => IInv'
<1> SUFFICES ASSUME IInv, [Next]_vars PROVE IInv'
  OBVIOUS
<1>0. /\ Cap \in Nat /\ Cap > 0 /\ last \in 0..Cap /\ last \in Nat
      /\ m \in [1..Cap -> Node] /\ hmap \in [Keys -> 0..Cap]
      /\ \A key \in Keys : hmap[key] # 0 => hmap[key] \in 1..last
      /\ NoNode \in Node
  <2>1. Cap \in Nat /\ Cap > 0 /\ NoNode \in Node
    BY CapAssumption DEF NoNode, Node
  <2>2. TypeOK /\ Index
    BY DEF IInv
  <2>3. last \in 0..Cap /\ last \in Nat /\ m \in [1..Cap -> Node] /\ hmap \in [Keys -> 0..Cap]
    <3>1. last \in 0..Cap /\ m \in [1..Cap -> Node] /\ hmap \in [Keys -> 0..Cap]
      BY <2>2, Zenon DEF TypeOK
    <3> QED BY <2>1, <3>1
  <2>4. ASSUME NEW key \in Keys, hmap[key] # 0 PROVE hmap[key] \in 1..last
    BY <2>2, <2>3, <2>4 DEF Index
  <2> QED BY <2>1, <2>3, <2>4
\* What is left to show of an action that moves a slot in use.
<1>m. ASSUME NEW idx \in 1..last, NEW f \in {P, N}, NEW t \in {P, N}, f # t,
             dlnk' = Adjust(dlnk, idx, f, t), last' = last,
             m' \in [1..Cap -> Node], hmap' \in [Keys -> 0..Cap],
             ret' \in [status : {0, 1}, node : Node], Index'
      PROVE  IInv'
  <2>1. LinksIn(dlnk, last)' /\ (dlnk[0][N] # 0)' /\ dlnk' \in DlnkType
    BY <1>m, MoveLinks
  <2>2. TypeOK'
    <3>1. dlnk' \in [0..Cap -> [{P, N} -> 0..Cap]]
      BY <2>1 DEF DlnkType, P, N
    <3> QED BY <1>0, <1>m, <3>1 DEF TypeOK
  <2>3. Links'
    BY <2>1 DEF LinksIn, Links
  <2> QED BY <1>m, <2>2, <2>3 DEF IInv
\* A miss changes nothing but the result.
<1>u. ASSUME UNCHANGED <<dlnk, m, hmap, last>>, ret' \in [status : {0, 1}, node : Node]
      PROVE  IInv'
  BY <1>u DEF IInv, TypeOK, Links, Index
<1>n. ASSUME NEW val \in Values, NEW expireAt \in Expiries, NEW key \in Keys
      PROVE  [k |-> key, v |-> val, expireAt |-> expireAt] \in Node
  BY DEF Node
<1>r. ASSUME NEW status \in {0, 1}, NEW nd \in Node
      PROVE  Returned(status, nd) \in [status : {0, 1}, node : Node]
  BY DEF Returned
<1>1. ASSUME NEW key \in Keys, NEW val \in Values, NEW expireAt \in Expiries,
             PutUpdate(key, val, expireAt)
      PROVE  IInv'
  <2> DEFINE idx == hmap[key]
  <2>1. idx \in 1..last /\ idx \in 1..Cap
    BY <1>0, <1>1 DEF PutUpdate
  <2>2. /\ m' \in [1..Cap -> Node]
        /\ \A i \in 1..Cap : m'[i].k = m[i].k
    BY <1>0, <1>1, <2>1 DEF PutUpdate, Node
  <2>3. Index'
    BY <1>0, <1>1, <2>2 DEF PutUpdate, Index, IInv
  <2>4. ret' \in [status : {0, 1}, node : Node]
    BY <1>0, <1>1, <1>r DEF PutUpdate
  <2>5. dlnk' = Adjust(dlnk, idx, P, N) /\ last' = last /\ hmap' = hmap
    BY <1>1 DEF PutUpdate
  <2> QED BY <1>0, <1>m, <2>1, <2>2, <2>3, <2>4, <2>5 DEF P, N
<1>2. ASSUME NEW key \in Keys, NEW val \in Values, NEW expireAt \in Expiries,
             PutReuse(key, val, expireAt)
      PROVE  IInv'
  <2> DEFINE idx == dlnk[0][P]
             nd == [k |-> key, v |-> val, expireAt |-> expireAt]
  <2>1. last = Cap /\ hmap[key] = 0 /\ 0 \in 0..last /\ P \in {P, N} /\ N \in {P, N}
    BY <1>0, <1>2 DEF PutReuse
  <2>2. idx \in 1..last /\ idx \in 1..Cap
    <3>1. Links
      BY DEF IInv
    <3>2. idx \in 0..last /\ dlnk[idx][1 - P] = 0 /\ dlnk[0][N] # 0
      BY <1>0, <2>1, <3>1 DEF Links
    <3>3. idx # 0
      BY <3>2 DEF P, N
    <3> QED BY <1>0, <2>1, <3>2, <3>3
  <2>3. m[idx].k \in Keys /\ hmap[m[idx].k] = idx /\ m[idx].k # key
    BY <2>1, <2>2 DEF IInv, Index
  <2>4. nd \in Node
    BY <1>n
  <2>5. /\ m' = [m EXCEPT ![idx] = nd]
        /\ hmap' = [hmap EXCEPT ![m[idx].k] = 0, ![key] = idx]
        /\ dlnk' = Adjust(dlnk, idx, P, N) /\ last' = last
        /\ ret' = Returned(1, IF m[idx].expireAt > 0 THEN m[idx] ELSE NoNode)
    BY <1>2 DEF PutReuse
  <2> HIDE DEF idx, nd
  <2>6. m' \in [1..Cap -> Node] /\ hmap' \in [Keys -> 0..Cap]
        /\ ret' \in [status : {0, 1}, node : Node]
    BY <1>0, <1>r, <2>2, <2>3, <2>4, <2>5
  <2>7. Index'
    <3>1. nd.k = key
      BY DEF nd
    <3>2. \A i \in 1..last : m'[i] = IF i = idx THEN nd ELSE m[i]
      BY <1>0, <2>1, <2>5
    <3>3. \A k \in Keys : hmap'[k] = IF k = key THEN idx ELSE IF k = m[idx].k THEN 0 ELSE hmap[k]
      BY <1>0, <2>3, <2>5
    <3>4. ASSUME NEW i \in 1..last PROVE m'[i].k \in Keys /\ hmap'[m'[i].k] = i
      <4>1. m[i].k \in Keys /\ hmap[m[i].k] = i /\ i # 0
        BY DEF IInv, Index
      <4> QED BY <2>1, <2>3, <3>1, <3>2, <3>3, <4>1
    <3>5. ASSUME NEW k \in Keys
          PROVE  hmap'[k] \in 0..last /\ (hmap'[k] # 0 => m'[hmap'[k]].k = k)
      <4>1. hmap[k] \in 0..last /\ (hmap[k] # 0 => m[hmap[k]].k = k)
        BY DEF IInv, Index
      <4> QED BY <1>0, <2>1, <2>2, <2>3, <3>1, <3>2, <3>3, <4>1
    <3> QED BY <2>5, <3>4, <3>5 DEF Index
  <2> QED BY <1>m, <2>2, <2>5, <2>6, <2>7 DEF P, N
<1>3. ASSUME NEW key \in Keys, NEW val \in Values, NEW expireAt \in Expiries,
             PutAlloc(key, val, expireAt)
      PROVE  IInv'
  <2> DEFINE slot == last + 1
             nd == [k |-> key, v |-> val, expireAt |-> expireAt]
             first == \A other \in Keys : hmap[other] = 0
  <2>1. /\ last # Cap /\ hmap[key] = 0 /\ last' = slot
        /\ m' = [m EXCEPT ![slot] = nd] /\ hmap' = [hmap EXCEPT ![key] = slot]
        /\ dlnk' = LinkFresh(dlnk, slot, first) /\ ret' = Returned(1, NoNode)
    BY <1>3 DEF PutAlloc
  <2>2. slot \in 1..Cap /\ slot \notin 0..last /\ 1..slot = (1..last) \cup {slot} /\ slot # 0
        /\ 0..last \subseteq 0..slot
    BY <1>0, <2>1
  <2>3. LinksIn(dlnk, last) /\ (first => dlnk[0][N] = 0)
    <3>1. TypeOK /\ Links /\ Index
      BY DEF IInv
    <3>2. first => last = 0
      BY <1>0, <3>1 DEF Index
    <3>3. last = 0 => dlnk[0][N] = 0
      BY <3>1 DEF Links, P, N
    <3> QED BY <3>1, <3>2, <3>3, LinksAsLinksIn
  <2>4. nd \in Node
    BY <1>n
  <2>5. first \in BOOLEAN
    OBVIOUS
  <2> HIDE DEF first, nd
  <2>6. LinksIn(dlnk', slot) /\ dlnk'[0][N] # 0
    BY <2>1, <2>3, <2>5, <1>0, LinkFreshLinks
  <2> HIDE DEF slot
  <2>7. TypeOK'
    <3>1. dlnk' \in [0..Cap -> [{P, N} -> 0..Cap]]
      BY <2>6 DEF LinksIn, DlnkType, P, N
    <3>2. m' \in [1..Cap -> Node] /\ hmap' \in [Keys -> 0..Cap] /\ last' \in 0..Cap
          /\ ret' \in [status : {0, 1}, node : Node]
      BY <1>0, <1>r, <2>1, <2>2, <2>4
    <3> QED BY <3>1, <3>2 DEF TypeOK
  <2>8. Links'
    BY <2>1, <2>6 DEF LinksIn, Links
  <2>9. Index'
    <3>1. nd.k = key
      BY DEF nd
    <3>2. \A i \in 1..slot : m'[i] = IF i = slot THEN nd ELSE m[i]
      <4>1. 1..slot \subseteq 1..Cap
        BY <1>0, <2>2
      <4> QED BY <1>0, <2>1, <4>1
    <3>3. \A k \in Keys : hmap'[k] = IF k = key THEN slot ELSE hmap[k]
      BY <1>0, <2>1
    <3>4. ASSUME NEW i \in 1..slot PROVE m'[i].k \in Keys /\ hmap'[m'[i].k] = i
      <4>1. CASE i = slot
        BY <3>1, <3>2, <3>3, <4>1
      <4>2. CASE i \in 1..last
        <5>1. m[i].k \in Keys /\ hmap[m[i].k] = i /\ i # 0 /\ i # slot
          BY <2>2, <4>2 DEF IInv, Index
        <5> QED BY <2>1, <3>1, <3>2, <3>3, <5>1
      <4> QED BY <2>2, <4>1, <4>2
    <3>5. ASSUME NEW k \in Keys
          PROVE  hmap'[k] \in 0..slot /\ (hmap'[k] # 0 => m'[hmap'[k]].k = k)
      <4>1. hmap[k] \in 0..last /\ (hmap[k] # 0 => m[hmap[k]].k = k)
        BY DEF IInv, Index
      <4> QED BY <1>0, <2>1, <2>2, <3>1, <3>2, <3>3, <4>1
    <3> QED BY <2>1, <3>4, <3>5 DEF Index
  <2> QED BY <2>7, <2>8, <2>9 DEF IInv
<1>4. ASSUME NEW key \in Keys, GetHit(key) PROVE IInv'
  <2>1. hmap[key] \in 1..last /\ dlnk' = Adjust(dlnk, hmap[key], P, N)
        /\ last' = last /\ m' = m /\ hmap' = hmap
    BY <1>0, <1>4 DEF GetHit
  <2>2. Index'
    BY <2>1 DEF Index, IInv
  <2>3. ret' \in [status : {0, 1}, node : Node]
    BY <1>0, <1>4, <1>r, <2>1 DEF GetHit
  <2> QED BY <1>0, <1>m, <2>1, <2>2, <2>3 DEF P, N
<1>5. ASSUME NEW key \in Keys, GetMiss(key) PROVE IInv'
  <2>1. UNCHANGED <<dlnk, m, hmap, last>> /\ ret' \in [status : {0, 1}, node : Node]
    BY <1>0, <1>5, <1>r DEF GetMiss
  <2> QED BY <1>u, <2>1
<1>6. ASSUME NEW key \in Keys, DelHit(key) PROVE IInv'
  <2> DEFINE idx == hmap[key]
  <2>1. idx \in 1..last /\ idx \in 1..Cap
    BY <1>0, <1>6 DEF DelHit
  <2>2. /\ m' \in [1..Cap -> Node]
        /\ \A i \in 1..Cap : m'[i].k = m[i].k
    BY <1>0, <1>6, <2>1 DEF DelHit, Node
  <2>3. Index'
    BY <1>0, <1>6, <2>2 DEF DelHit, Index, IInv
  <2>4. ret' \in [status : {0, 1}, node : Node]
    BY <1>0, <1>6, <1>r, <2>1 DEF DelHit
  <2>5. dlnk' = Adjust(dlnk, idx, N, P) /\ last' = last /\ hmap' = hmap
    BY <1>6 DEF DelHit
  <2> QED BY <1>0, <1>m, <2>1, <2>2, <2>3, <2>4, <2>5 DEF P, N
<1>7. ASSUME NEW key \in Keys, DelMiss(key) PROVE IInv'
  <2>1. UNCHANGED <<dlnk, m, hmap, last>> /\ ret' \in [status : {0, 1}, node : Node]
    BY <1>0, <1>7, <1>r DEF DelMiss
  <2> QED BY <1>u, <2>1
<1>8. CASE UNCHANGED vars
  BY <1>8 DEF vars, IInv, TypeOK, Links, Index
<1> QED BY <1>1, <1>2, <1>3, <1>4, <1>5, <1>6, <1>7, <1>8 DEF Next

(* The arrays, the index and the list of a level keep their types and stay    *)
(* coherent through every put, get and del (lines 420-546).                   *)
THEOREM IInvHolds == Spec => []IInv
<1>1. Init => IInv
  BY InitIInv
<1>2. IInv /\ [Next]_vars => IInv'
  BY NextIInv
<1> QED BY <1>1, <1>2, PTL DEF Spec

(* Every variable of a level keeps its type: indices stay within the arrays.  *)
THEOREM TypeCorrect == Spec => []TypeOK
<1>1. IInv => TypeOK
  BY DEF IInv
<1> QED BY <1>1, IInvHolds, PTL

(* The linked list of a level is closed and doubly linked in every state.     *)
THEOREM LinksHold == Spec => []Links
<1>1. IInv => Links
  BY DEF IInv
<1> QED BY <1>1, IInvHolds, PTL

(* hmap and the slots name each other in every state: one slot for each key,  *)
(* and no entry for a key whose slot was reused.                              *)
THEOREM IndexHolds == Spec => []Index
<1>1. IInv => Index
  BY DEF IInv
<1> QED BY <1>1, IInvHolds, PTL

-----------------------------------------------------------------------------
\* The slots 1..top, each at one position.
Enumerates(s, top) ==
  /\ s \in [1..top -> 1..top]
  /\ \A j, k \in 1..top : s[j] = s[k] => j = k
  /\ \A i \in 1..top : \E j \in 1..top : s[j] = i

(* The order of the slots from head to tail, as a function on positions, of a *)
(* list d over the slots 1..top.                                              *)
IsOrder(s, d, top) ==
  /\ Enumerates(s, top)
  /\ top > 0 => d[0][N] = s[1] /\ d[s[top]][N] = 0
  /\ \A j \in 1..top - 1 : d[s[j]][N] = s[j + 1]

\* The p-th slot of an order moved to the head or to the tail.
ToHead(s, p) == [j \in DOMAIN s |-> IF j = 1 THEN s[p] ELSE IF j <= p THEN s[j-1] ELSE s[j]]
ToTail(s, p, top) == [j \in 1..top |-> IF j = top THEN s[p] ELSE IF j < p THEN s[j] ELSE s[j+1]]

\* The back links of a list in a given order.
LEMMA OrderBack ==
  ASSUME NEW d, NEW top \in 1..Cap, LinksIn(d, top), NEW s, IsOrder(s, d, top)
  PROVE  /\ d[0][P] = s[top] /\ d[s[1]][P] = 0
         /\ \A j \in 1..top-1 : d[s[j+1]][P] = s[j]
<1>0. top \in Nat /\ top > 0 /\ Cap \in Nat /\ top-1 \in Nat
  BY CapAssumption
<1>1. ASSUME NEW i \in 0..top PROVE d[d[i][N]][P] = i
  <2>1. N \in {P, N} /\ 1 - N = P
    BY DEF P, N
  <2> QED BY <2>1 DEF LinksIn
<1>2. \A j \in 1..top : s[j] \in 0..top
  <2>1. 1..top \subseteq 0..top
    BY <1>0
  <2> QED BY <2>1 DEF IsOrder, Enumerates
<1>3. d[0][N] = s[1] /\ d[s[top]][N] = 0 /\ \A j \in 1..top-1 : d[s[j]][N] = s[j+1]
  BY <1>0 DEF IsOrder
<1>4. 0 \in 0..top /\ s[top] \in 0..top /\ \A j \in 1..top-1 : s[j] \in 0..top
  BY <1>0, <1>2
<1> QED BY <1>1, <1>3, <1>4

\* A permutation of the positions, and its inverse.
Permutes(at, back, top) ==
  \A j \in 1..top : at[j] \in 1..top /\ back[j] \in 1..top /\ at[back[j]] = j /\ back[at[j]] = j

LEMMA Rearranged ==
  ASSUME NEW top \in Nat, NEW s, Enumerates(s, top), NEW at, NEW back, Permutes(at, back, top)
  PROVE  Enumerates([j \in 1..top |-> s[at[j]]], top)
<1> DEFINE r == [j \in 1..top |-> s[at[j]]]
<1>1. /\ \A j \in 1..top : r[j] = s[at[j]] /\ r[j] \in 1..top
      /\ r \in [1..top -> 1..top]
  BY DEF Enumerates, Permutes
<1> HIDE DEF r
<1>2. ASSUME NEW j \in 1..top, NEW k \in 1..top, r[j] = r[k] PROVE j = k
  <2>1. at[j] = at[k]
    <3>1. s[at[j]] = s[at[k]] /\ at[j] \in 1..top /\ at[k] \in 1..top
      BY <1>1, <1>2 DEF Permutes
    <3>2. \A a, b \in 1..top : s[a] = s[b] => a = b
      BY DEF Enumerates
    <3> QED BY <3>1, <3>2
  <2>2. back[at[j]] = j /\ back[at[k]] = k
    BY DEF Permutes
  <2> QED BY <2>1, <2>2
<1>3. ASSUME NEW i \in 1..top PROVE \E j \in 1..top : r[j] = i
  <2>1. PICK k \in 1..top : s[k] = i
    BY DEF Enumerates
  <2>2. r[back[k]] = i /\ back[k] \in 1..top
    BY <1>1, <2>1 DEF Permutes
  <2> QED BY <2>2
<1> QED BY <1>1, <1>2, <1>3 DEF Enumerates, r

(* Moving a slot to the head moves it to the front of the order (lines        *)
(* 533-546, from put and get).                                                *)
LEMMA HeadOrder ==
  ASSUME NEW d, NEW top \in 1..Cap, LinksIn(d, top), NEW s, IsOrder(s, d, top),
         NEW p \in 1..top
  PROVE  IsOrder(ToHead(s, p), Adjust(d, s[p], P, N), top)
<1> DEFINE idx == s[p]
           e == Adjust(d, idx, P, N)
           r == ToHead(s, p)
           at == [j \in 1..top |-> IF j = 1 THEN p ELSE IF j <= p THEN j-1 ELSE j]
           back == [j \in 1..top |-> IF j = p THEN 1 ELSE IF j < p THEN j+1 ELSE j]
<1>0. top \in Nat /\ top > 0 /\ Cap \in Nat /\ top-1 \in Nat /\ p \in Nat /\ p >= 1 /\ p <= top
      /\ top <= Cap
  BY CapAssumption
<1>1. /\ s \in [1..top -> 1..top]
      /\ \A j, k \in 1..top : s[j] = s[k] => j = k
      /\ \A i \in 1..top : \E j \in 1..top : s[j] = i
      /\ d[0][N] = s[1] /\ d[s[top]][N] = 0
      /\ \A j \in 1..top-1 : d[s[j]][N] = s[j + 1]
  BY <1>0 DEF IsOrder, Enumerates
<1>s. \A j \in 1..top : s[j] \in 1..top /\ s[j] \in 1..Cap /\ s[j] \in 0..Cap /\ s[j] # 0
  <2>1. \A i \in 1..top : i \in 1..Cap /\ i \in 0..Cap /\ i # 0
    BY <1>0
  <2>2. \A j \in 1..top : s[j] \in 1..top
    BY <1>1
  <2> QED BY <2>1, <2>2
<1>t. 1 \in 1..top /\ top \in 1..top
  BY <1>0
<1>2. r = [j \in 1..top |-> s[at[j]]]
  BY <1>0, <1>1 DEF ToHead
<1>3. \A j \in 1..top : at[j] \in 1..top /\ back[j] \in 1..top /\ at[back[j]] = j /\ back[at[j]] = j
  BY <1>0
<1>4. Enumerates(r, top)
  <2> HIDE DEF r, at, back
  <2>1. Permutes(at, back, top)
    BY <1>3 DEF Permutes
  <2>2. Enumerates([j \in 1..top |-> s[at[j]]], top)
    BY <1>0, <2>1, Rearranged DEF IsOrder
  <2> QED BY <1>2, <2>2
<1>5. \A j \in 1..top : r[j] = IF j = 1 THEN idx ELSE IF j <= p THEN s[j-1] ELSE s[j]
  BY <1>1 DEF ToHead
<1>b. /\ d[0][P] = s[top] /\ d[s[1]][P] = 0
      /\ \A j \in 1..top-1 : d[s[j+1]][P] = s[j]
  BY OrderBack
<1> HIDE DEF r, at, back, e
<1>6. CASE p = 1
  <2>1. e = d
    BY <1>6, <1>b DEF Adjust, e
  <2>2. \A j \in 1..top : r[j] = s[j]
    BY <1>0, <1>5, <1>6
  <2>3. ASSUME NEW j \in 1..top-1 PROVE d[r[j]][N] = r[j + 1]
    <3>1. j \in 1..top /\ j+1 \in 1..top
      BY <1>0
    <3>2. r[j] = s[j] /\ r[j+1] = s[j+1]
      BY <2>2, <3>1
    <3> QED BY <1>1, <3>2
  <2>4. d[0][N] = r[1] /\ d[r[top]][N] = 0
    BY <1>1, <1>t, <2>2
  <2> QED BY <1>4, <2>1, <2>3, <2>4 DEF IsOrder, r, e
<1>7. CASE p # 1
  <2>1. p-1 \in 1..top-1 /\ p-1 \in 1..top /\ 1 \in 1..top /\ top \in 1..top
    BY <1>0, <1>7
  <2>2. d[idx][P] = s[p-1]
    BY <1>0, <1>b, <2>1
  <2>3. idx \in 1..top /\ idx \in 1..Cap /\ s[p-1] \in 1..top /\ s[1] # idx /\ s[p-1] # idx
    <3>1. p-1 # p
      BY <1>0
    <3> QED BY <1>1, <1>s, <1>7, <2>1, <3>1
  <2>4. \A i \in 0..Cap : e[i][N] = IF i = 0 THEN idx ELSE IF i = idx THEN s[1]
                                  ELSE IF i = s[p-1] THEN d[idx][N] ELSE d[i][N]
    <3>1. d \in DlnkType /\ P \in {0, 1} /\ N \in {0, 1} /\ P # N /\ d[idx][P] # 0 /\ d[0][N] # idx
      BY <1>1, <1>s, <2>1, <2>2, <2>3 DEF LinksIn, P, N
    <3>2. \A i \in 0..Cap : e[i][N] = IF i = 0 THEN idx ELSE IF i = idx THEN d[0][N]
                                    ELSE IF i = d[idx][P] THEN d[idx][N] ELSE d[i][N]
      BY <2>3, <3>1, AdjustPointwise DEF e
    <3>3. d[0][N] = s[1]
      BY <1>1
    <3> QED BY <2>2, <3>2, <3>3
  <2>5. \A j \in 1..top : e[s[j]][N] = IF j = p THEN s[1] ELSE IF j = p-1 THEN d[idx][N] ELSE d[s[j]][N]
    <3>2. \A j \in 1..top : (s[j] = idx <=> j = p) /\ (s[j] = s[p-1] <=> j = p-1)
      BY <1>0, <1>1, <2>1
    <3> QED BY <2>4, <1>s, <3>2
  <2>6. e[0][N] = r[1]
    BY <1>0, <1>5, <2>1, <2>4
  <2>7. ASSUME NEW j \in 1..top-1 PROVE e[r[j]][N] = r[j+1]
    <3>0. j \in 1..top /\ j+1 \in 1..top /\ j \in Nat
      BY <1>0
    <3>d. d[s[j]][N] = s[j+1]
      BY <1>1
    <3>1. CASE j = 1
      <4>1. r[j] = idx /\ r[j+1] = s[1]
        BY <1>0, <1>5, <1>7, <3>0, <3>1
      <4> QED BY <2>5, <4>1
    <3>2. CASE j # 1 /\ j < p
      <4>1. r[j] = s[j-1] /\ r[j+1] = s[j] /\ j-1 \in 1..top /\ j-1 \in 1..top-1 /\ j-1 # p /\ j-1 # p-1
        BY <1>0, <1>5, <3>0, <3>2
      <4>2. e[s[j-1]][N] = d[s[j-1]][N]
        BY <2>5, <4>1
      <4>3. d[s[j-1]][N] = s[j]
        <5>1. \A k \in 1..top-1 : d[s[k]][N] = s[k+1]
          BY <1>1
        <5>2. d[s[j-1]][N] = s[(j-1)+1] /\ (j-1)+1 = j
          BY <3>0, <4>1, <5>1
        <5> QED BY <5>2
      <4> QED BY <4>1, <4>2, <4>3
    <3>3. CASE j = p
      <4>1. r[j] = s[j-1] /\ r[j+1] = s[j+1] /\ j-1 = p-1 /\ j-1 # p
        BY <1>0, <1>5, <1>7, <3>0, <3>3
      <4>2. e[s[j-1]][N] = d[idx][N]
        BY <2>1, <2>5, <4>1
      <4>3. d[idx][N] = s[j+1]
        BY <1>1, <3>3
      <4> QED BY <4>1, <4>2, <4>3
    <3>4. CASE j > p
      <4>1. r[j] = s[j] /\ r[j+1] = s[j+1] /\ j # p /\ j # p-1
        BY <1>0, <1>5, <3>0, <3>4
      <4>2. e[s[j]][N] = d[s[j]][N]
        BY <2>5, <3>0, <4>1
      <4> QED BY <1>1, <4>1, <4>2
    <3> QED BY <1>0, <3>0, <3>1, <3>2, <3>3, <3>4
  <2>8. e[r[top]][N] = 0
    <3>1. CASE p = top
      <4>1. top # 1 /\ p-1 # p
        BY <1>0, <1>7, <3>1
      <4>2. r[top] = s[p-1]
        BY <1>5, <1>t, <3>1, <4>1
      <4>3. d[idx][N] = 0
        BY <1>1, <3>1
      <4> QED BY <2>1, <2>5, <4>1, <4>2, <4>3
    <3>2. CASE p # top
      <4>1. r[top] = s[top] /\ top # p /\ top # p-1
        BY <1>0, <1>5, <1>7, <1>t, <2>1, <3>2
      <4>2. e[s[top]][N] = d[s[top]][N]
        BY <1>t, <2>5, <4>1
      <4> QED BY <1>1, <4>1, <4>2
    <3> QED BY <3>1, <3>2
  <2> QED BY <1>4, <2>6, <2>7, <2>8 DEF IsOrder, r, e
<1> QED BY <1>6, <1>7

(* Moving a slot to the tail moves it to the end of the order (lines 533-546, *)
(* from del).                                                                 *)
LEMMA TailOrder ==
  ASSUME NEW d, NEW top \in 1..Cap, LinksIn(d, top), NEW s, IsOrder(s, d, top),
         NEW p \in 1..top
  PROVE  IsOrder(ToTail(s, p, top), Adjust(d, s[p], N, P), top)
<1> DEFINE idx == s[p]
           e == Adjust(d, idx, N, P)
           r == ToTail(s, p, top)
           at == [j \in 1..top |-> IF j = top THEN p ELSE IF j < p THEN j ELSE j+1]
           back == [j \in 1..top |-> IF j = p THEN top ELSE IF j < p THEN j ELSE j-1]
<1>0. top \in Nat /\ top > 0 /\ Cap \in Nat /\ top-1 \in Nat /\ p \in Nat /\ p >= 1 /\ p <= top
      /\ top <= Cap
  BY CapAssumption
<1>1. /\ s \in [1..top -> 1..top]
      /\ \A j, k \in 1..top : s[j] = s[k] => j = k
      /\ d[0][N] = s[1] /\ d[s[top]][N] = 0
      /\ \A j \in 1..top-1 : d[s[j]][N] = s[j + 1]
  BY <1>0 DEF IsOrder, Enumerates
<1>s. \A j \in 1..top : s[j] \in 1..top /\ s[j] \in 1..Cap /\ s[j] \in 0..Cap /\ s[j] # 0
  <2>1. \A i \in 1..top : i \in 1..Cap /\ i \in 0..Cap /\ i # 0
    BY <1>0
  <2>2. \A j \in 1..top : s[j] \in 1..top
    BY <1>1
  <2> QED BY <2>1, <2>2
<1>t. 1 \in 1..top /\ top \in 1..top
  BY <1>0
<1>2. r = [j \in 1..top |-> s[at[j]]]
  BY <1>0, <1>1 DEF ToTail
<1>3. \A j \in 1..top : at[j] \in 1..top /\ back[j] \in 1..top /\ at[back[j]] = j /\ back[at[j]] = j
  BY <1>0
<1>4. Enumerates(r, top)
  <2> HIDE DEF r, at, back
  <2>1. Permutes(at, back, top)
    BY <1>3 DEF Permutes
  <2>2. Enumerates([j \in 1..top |-> s[at[j]]], top)
    BY <1>0, <2>1, Rearranged DEF IsOrder
  <2> QED BY <1>2, <2>2
<1>5. \A j \in 1..top : r[j] = IF j = top THEN idx ELSE IF j < p THEN s[j] ELSE s[j+1]
  BY DEF ToTail
<1>b. /\ d[0][P] = s[top] /\ d[s[1]][P] = 0
      /\ \A j \in 1..top-1 : d[s[j+1]][P] = s[j]
  BY OrderBack
<1> HIDE DEF r, at, back, e
<1>6. CASE p = top
  <2>1. e = d
    BY <1>6, <1>1 DEF Adjust, e
  <2>2. \A j \in 1..top : r[j] = s[j]
    BY <1>0, <1>5, <1>6
  <2>3. ASSUME NEW j \in 1..top-1 PROVE d[r[j]][N] = r[j + 1]
    <3>1. j \in 1..top /\ j+1 \in 1..top
      BY <1>0
    <3>2. r[j] = s[j] /\ r[j+1] = s[j+1]
      BY <2>2, <3>1
    <3> QED BY <1>1, <3>2
  <2>4. d[0][N] = r[1] /\ d[r[top]][N] = 0
    BY <1>1, <1>t, <2>2
  <2> QED BY <1>4, <2>1, <2>3, <2>4 DEF IsOrder, r, e
<1>7. CASE p # top
  <2>1. p \in 1..top-1 /\ p+1 \in 1..top /\ p # p+1
    BY <1>0, <1>7
  <2>2. d[idx][N] = s[p+1]
    BY <1>1, <2>1
  <2>3. idx \in 1..top /\ idx \in 1..Cap /\ s[p+1] # 0 /\ s[top] # idx
    BY <1>1, <1>s, <1>t, <1>7, <2>1
  <2>4. \A i \in 0..Cap : e[i][N] = IF i = s[top] THEN idx ELSE IF i = idx THEN 0
                                  ELSE IF i = d[idx][P] THEN s[p+1] ELSE d[i][N]
    <3>1. d \in DlnkType /\ P \in {0, 1} /\ N \in {0, 1} /\ P # N /\ d[idx][N] # 0 /\ d[0][P] # idx
      BY <1>b, <2>2, <2>3 DEF LinksIn, P, N
    <3>2. \A i \in 0..Cap : e[i][N] = IF i = d[0][P] THEN idx ELSE IF i = idx THEN 0
                                    ELSE IF i = d[idx][P] THEN d[idx][N] ELSE d[i][N]
      BY <2>3, <3>1, AdjustPointwise DEF e
    <3> QED BY <1>b, <2>2, <3>2
  <2>5. \A j \in 1..top : e[s[j]][N] = IF j = top THEN idx ELSE IF j = p THEN 0
                                     ELSE IF j+1 = p THEN s[p+1] ELSE s[j+1]
    <3> SUFFICES ASSUME NEW j \in 1..top
                 PROVE  e[s[j]][N] = IF j = top THEN idx ELSE IF j = p THEN 0
                                     ELSE IF j+1 = p THEN s[p+1] ELSE s[j+1]
      OBVIOUS
    <3>1. e[s[j]][N] = IF j = top THEN idx ELSE IF j = p THEN 0
                       ELSE IF s[j] = d[idx][P] THEN s[p+1] ELSE d[s[j]][N]
      <4>1. (s[j] = s[top] <=> j = top) /\ (s[j] = idx <=> j = p)
        BY <1>1, <1>t
      <4> QED BY <1>s, <2>4, <4>1
    <3>2. j # top => d[s[j]][N] = s[j+1]
      <4>1. j # top => j \in 1..top-1
        BY <1>0
      <4> QED BY <1>1, <4>1
    <3>3. j # top => (s[j] = d[idx][P] <=> j+1 = p)
      <4>1. CASE p = 1
        <5>1. d[idx][P] = 0 /\ (j+1 = p => j = 0) /\ j # 0
          BY <1>b, <4>1
        <5> QED BY <1>s, <5>1
      <4>2. CASE p # 1
        <5>1. p-1 \in 1..top-1 /\ p-1 \in 1..top /\ (p-1)+1 = p /\ (j+1 = p <=> j = p-1)
          BY <1>0, <4>2
        <5>2. d[idx][P] = s[p-1]
          BY <1>b, <5>1
        <5>3. s[j] = s[p-1] <=> j = p-1
          BY <1>1, <5>1
        <5> QED BY <5>1, <5>2, <5>3
      <4> QED BY <4>1, <4>2
    <3> QED BY <3>1, <3>2, <3>3
  <2>6. e[0][N] = r[1]
    <3>0. 0 \in 0..Cap /\ 0 # s[top] /\ 0 # idx /\ 1 # top
      BY <1>0, <1>s, <1>t, <1>7
    <3>1. e[0][N] = IF 0 = d[idx][P] THEN s[p+1] ELSE s[1]
      BY <1>1, <2>4, <3>0
    <3>2. CASE p = 1
      <4>1. r[1] = s[p+1] /\ d[idx][P] = 0
        BY <1>5, <1>b, <1>t, <3>0, <3>2
      <4> QED BY <3>1, <4>1
    <3>3. CASE p # 1
      <4>1. p-1 \in 1..top-1 /\ p-1 \in 1..top /\ (p-1)+1 = p /\ 1 < p
        BY <1>0, <3>3
      <4>2. d[idx][P] = s[p-1] /\ s[p-1] # 0
        BY <1>b, <1>s, <4>1
      <4> QED BY <1>5, <1>t, <3>0, <3>1, <4>1, <4>2
    <3> QED BY <3>2, <3>3
  <2>7. ASSUME NEW j \in 1..top-1 PROVE e[r[j]][N] = r[j+1]
    <3>0. j \in 1..top /\ j+1 \in 1..top /\ j \in Nat /\ j # top
      BY <1>0
    <3>1. CASE j < p
      <4>1. r[j] = s[j] /\ j # p
        BY <1>5, <3>0, <3>1
      <4>2. r[j+1] = IF j+1 = p THEN s[p+1] ELSE s[j+1]
        BY <1>0, <1>5, <1>7, <3>0, <3>1
      <4> QED BY <2>5, <3>0, <4>1, <4>2
    <3>2. CASE ~(j < p)
      <4>1. r[j] = s[j+1] /\ j+1 # p /\ (j+1)+1 # p
        BY <1>0, <1>5, <3>0, <3>2
      <4>2. r[j+1] = IF j+1 = top THEN idx ELSE s[(j+1)+1]
        BY <1>0, <1>5, <3>0, <3>2
      <4>3. e[s[j+1]][N] = IF j+1 = top THEN idx ELSE s[(j+1)+1]
        BY <2>5, <3>0, <4>1
      <4> QED BY <4>1, <4>2, <4>3
    <3> QED BY <3>1, <3>2
  <2>8. e[r[top]][N] = 0
    <3>1. r[top] = s[p]
      BY <1>5, <1>t
    <3> QED BY <1>7, <2>5, <3>1
  <2> QED BY <1>4, <2>6, <2>7, <2>8 DEF IsOrder, r, e
<1> QED BY <1>6, <1>7

\* A slot in front of an order.
InFrontOf(s, slot) == [j \in 1..slot |-> IF j = 1 THEN slot ELSE s[j-1]]

(* A fresh slot comes in front of the order (lines 448-464).                  *)
LEMMA FreshOrder ==
  ASSUME NEW d, NEW top \in 0..Cap, top # Cap, NEW first \in BOOLEAN,
         LinksIn(d, top), first => d[0][N] = 0, NEW s, IsOrder(s, d, top)
  PROVE  IsOrder(InFrontOf(s, top + 1), LinkFresh(d, top + 1, first), top + 1)
<1> DEFINE slot == top + 1
           e == LinkFresh(d, slot, first)
           r == InFrontOf(s, slot)
<1>0. /\ top \in Nat /\ Cap \in Nat /\ top < Cap /\ slot \in Nat /\ slot \in 1..Cap /\ slot # 0
      /\ slot \notin 1..top /\ (top = 0 <=> slot = 1) /\ 1 \in 1..slot /\ slot \in 1..slot
  BY CapAssumption
<1>1. \A i \in 0..Cap : e[i][N] = IF i = 0 THEN slot ELSE IF i = slot THEN d[0][N] ELSE d[i][N]
  BY LinkFreshLinks
<1>2. /\ s \in [1..top -> 1..top]
      /\ \A j, k \in 1..top : s[j] = s[k] => j = k
      /\ \A i \in 1..top : \E j \in 1..top : s[j] = i
      /\ top > 0 => d[0][N] = s[1] /\ d[s[top]][N] = 0
      /\ \A j \in 1..top-1 : d[s[j]][N] = s[j + 1]
  BY DEF IsOrder, Enumerates
<1>3. \A j \in 1..slot : r[j] = IF j = 1 THEN slot ELSE s[j-1]
  BY DEF InFrontOf
<1>4. \A j \in 1..slot : j # 1 => j-1 \in 1..top
  BY <1>0
<1>5. \A j \in 1..top : s[j] \in 1..top /\ s[j] \in 1..slot /\ s[j] \in 0..Cap /\ s[j] # 0 /\ s[j] # slot
  <2>1. \A i \in 1..top : i \in 1..slot /\ i \in 0..Cap /\ i # 0 /\ i # slot
    BY <1>0
  <2>2. \A j \in 1..top : s[j] \in 1..top
    BY <1>2
  <2> QED BY <2>1, <2>2
<1>6. r \in [1..slot -> 1..slot]
  <2>1. \A j \in 1..slot : r[j] \in 1..slot
    BY <1>0, <1>3, <1>4, <1>5
  <2>2. r = [j \in 1..slot |-> r[j]]
    BY DEF InFrontOf
  <2> HIDE DEF r
  <2> QED BY <2>1, <2>2
<1> HIDE DEF r, e, slot
<1>7. ASSUME NEW j \in 1..slot, NEW k \in 1..slot, r[j] = r[k] PROVE j = k
  <2>1. CASE j = 1
    <3>1. k # 1 => r[k] # slot
      BY <1>3, <1>4, <1>5
    <3> QED BY <1>3, <1>7, <2>1, <3>1
  <2>2. CASE k = 1
    <3>1. j # 1 => r[j] # slot
      BY <1>3, <1>4, <1>5
    <3> QED BY <1>3, <1>7, <2>2, <3>1
  <2>3. CASE j # 1 /\ k # 1
    <3>1. j-1 \in 1..top /\ k-1 \in 1..top /\ s[j-1] = s[k-1]
      BY <1>3, <1>4, <1>7, <2>3
    <3>2. j-1 = k-1
      BY <1>2, <3>1
    <3> QED BY <1>0, <3>2
  <2> QED BY <2>1, <2>2, <2>3
<1>8. ASSUME NEW i \in 1..slot PROVE \E j \in 1..slot : r[j] = i
  <2>1. CASE i = slot
    BY <1>0, <1>3, <2>1
  <2>2. CASE i # slot
    <3>1. i \in 1..top
      BY <1>0, <2>2 DEF slot
    <3>2. PICK j \in 1..top : s[j] = i
      BY <1>2, <3>1
    <3>3. j+1 \in 1..slot /\ j+1 # 1 /\ (j+1)-1 = j
      BY <1>0 DEF slot
    <3>4. r[j+1] = i
      BY <1>3, <3>2, <3>3
    <3> QED BY <3>3, <3>4
  <2> QED BY <2>1, <2>2
<1>9. e[0][N] = r[1]
  <2>1. 0 \in 0..Cap
    BY <1>0
  <2> QED BY <1>0, <1>1, <1>3, <2>1
<1>10. e[slot][N] = IF top = 0 THEN 0 ELSE s[1]
  <2>1. slot \in 0..Cap /\ slot # 0
    BY <1>0
  <2>2. e[slot][N] = d[0][N]
    BY <1>1, <2>1
  <2>3. top = 0 => d[0][N] = 0
    <3>1. 0 \in 0..top /\ N \in {P, N} /\ d[0][N] \in 0..top
      BY <1>0 DEF LinksIn, N
    <3> QED BY <3>1
  <2> QED BY <1>0, <1>2, <2>2, <2>3
<1>11. e[r[slot]][N] = 0
  <2>1. CASE top = 0
    BY <1>0, <1>3, <1>10, <2>1
  <2>2. CASE top # 0
    <3>1. top \in 1..top /\ slot # 1 /\ slot-1 = top
      BY <1>0, <2>2 DEF slot
    <3>2. r[slot] = s[top]
      BY <1>0, <1>3, <3>1
    <3>3. d[s[top]][N] = 0
      BY <1>0, <1>2, <3>1
    <3> QED BY <1>1, <1>5, <3>1, <3>2, <3>3
  <2> QED BY <2>1, <2>2
<1>12. ASSUME NEW j \in 1..slot-1 PROVE e[r[j]][N] = r[j+1]
  <2>1. j \in 1..top /\ j \in 1..slot /\ j+1 \in 1..slot /\ j+1 # 1 /\ (j+1)-1 = j /\ top # 0
    BY <1>0 DEF slot
  <2>2. r[j+1] = s[j]
    BY <1>3, <2>1
  <2>3. CASE j = 1
    BY <1>3, <1>10, <2>1, <2>2, <2>3
  <2>4. CASE j # 1
    <3>1. r[j] = s[j-1] /\ j-1 \in 1..top /\ j-1 \in 1..top-1 /\ (j-1)+1 = j
      BY <1>0, <1>3, <1>4, <2>1, <2>4
    <3>2. e[s[j-1]][N] = d[s[j-1]][N]
      BY <1>1, <1>5, <3>1
    <3>3. d[s[j-1]][N] = s[(j-1)+1]
      BY <1>2, <3>1
    <3> QED BY <2>2, <3>1, <3>2, <3>3
  <2> QED BY <2>3, <2>4
<1> QED BY <1>6, <1>7, <1>8, <1>9, <1>11, <1>12 DEF IsOrder, Enumerates, r, e, slot

-----------------------------------------------------------------------------
(* The walk of LRU2LayerRefinement follows the order.                         *)

\* Induction over the natural numbers, for a set.
LEMMA SetInduction ==
  ASSUME NEW set, 0 \in set, \A i \in Nat : i \in set => i+1 \in set
  PROVE  \A i \in Nat : i \in set
<1> SUFFICES ASSUME \E i \in Nat : i \notin set PROVE FALSE
  OBVIOUS
<1> DEFINE out == {i \in Nat : i \notin set}
<1>1. out \subseteq Nat /\ out # {}
  OBVIOUS
<1>2. PICK least \in out : \A other \in out : <<other, least>> \notin OpToRel(<, Nat)
  BY <1>1, NatLessThanWellFounded, WFMin
<1>3. \A other \in out : ~(other < least)
  BY <1>1, <1>2 DEF OpToRel
<1>4. least \in Nat /\ least # 0 /\ least - 1 \in Nat /\ (least - 1) + 1 = least
  BY <1>1
<1>5. least - 1 \notin out
  BY <1>3, <1>4
<1> QED BY <1>4, <1>5

LEMMA VisitedIs ==
  ASSUME dlnk \in DlnkType
  PROVE  /\ Visited[1] = dlnk[0][N]
         /\ \A j \in 2..Cap : Visited[j] = dlnk[Visited[j-1]][N]
<1> DEFINE Walk(g) == [j \in 1..Cap |-> IF j = 1 THEN dlnk[0][N] ELSE dlnk[g[j-1]][N]]
           visited == CHOOSE g : g = Walk(g)
           Upto(g, n) == \A j \in 1..Cap : j <= n => g[j] = Walk(g)[j]
           set == {n \in Nat : \E g : Upto(g, n)}
<1>0. Visited = visited
  BY DEF Visited
<1>1. Cap \in Nat /\ Cap > 0
  BY CapAssumption
<1>2. \A g : Walk(g) = [j \in 1..Cap |-> Walk(g)[j]]
  OBVIOUS
<1>3. \A g : \A j \in 1..Cap : Walk(g)[j] = IF j = 1 THEN dlnk[0][N] ELSE dlnk[g[j-1]][N]
  OBVIOUS
<1> HIDE DEF Walk
<1>4. 0 \in set
  BY <1>1
<1>5. ASSUME NEW n \in Nat, n \in set PROVE n+1 \in set
  <2>1. PICK g : Upto(g, n)
    BY <1>5
  <2> DEFINE h == Walk(g)
  <2>2. ASSUME NEW j \in 1..Cap, j <= n+1 PROVE h[j] = Walk(h)[j]
    <3>1. CASE j = 1
      BY <1>3, <3>1
    <3>2. CASE j # 1
      <4>1. j-1 \in 1..Cap /\ j-1 <= n
        BY <2>2, <3>2, <1>1
      <4>2. g[j-1] = h[j-1]
        BY <2>1, <4>1
      <4> QED BY <1>3, <3>2, <4>2
    <3> QED BY <3>1, <3>2
  <2> HIDE DEF h
  <2> QED BY <2>2
<1> HIDE DEF set
<1>6. Cap \in set
  BY <1>1, <1>4, <1>5, SetInduction
<1>7. PICK g : Upto(g, Cap)
  BY <1>6 DEF set
<1>8. Walk(g) = Walk(Walk(g))
  <2> DEFINE h == Walk(g)
  <2>1. ASSUME NEW j \in 1..Cap PROVE h[j] = Walk(h)[j]
    <3>1. CASE j = 1
      BY <1>3, <3>1
    <3>2. CASE j # 1
      <4>1. j-1 \in 1..Cap /\ j-1 <= Cap
        BY <3>2, <1>1
      <4>2. g[j-1] = h[j-1]
        BY <1>7, <4>1
      <4> QED BY <1>3, <3>2, <4>2
    <3> QED BY <3>1, <3>2
  <2> QED BY <1>2, <2>1
<1>9. visited = Walk(visited)
  BY <1>8
<1> HIDE DEF visited
<1>10. 1 \in 1..Cap /\ \A j \in 2..Cap : j \in 1..Cap /\ j # 1
  BY <1>1
<1> QED BY <1>0, <1>3, <1>9, <1>10

LEMMA SlotsTyped ==
  ASSUME TypeOK
  PROVE  last \in Nat /\ last \in 0..Cap /\ Cap \in Nat /\ last <= Cap /\ dlnk \in DlnkType
<1>1. last \in 0..Cap /\ dlnk \in [0..Cap -> [{P, N} -> 0..Cap]]
  BY Zenon DEF TypeOK
<1>2. last \in Nat /\ Cap \in Nat /\ last <= Cap
  BY <1>1, CapAssumption
<1>3. dlnk \in DlnkType
  BY <1>1 DEF DlnkType, P, N
<1> QED BY <1>1, <1>2, <1>3

LEMMA VisitedInOrder ==
  ASSUME TypeOK, NEW s, IsOrder(s, dlnk, last)
  PROVE  \A j \in 1..last : Visited[j] = s[j]
<1> DEFINE set == {n \in Nat : \A j \in 1..last : j <= n => Visited[j] = s[j]}
<1>0. last \in Nat /\ Cap \in Nat /\ last <= Cap /\ dlnk \in DlnkType
  BY SlotsTyped
<1>1. /\ Visited[1] = dlnk[0][N]
      /\ \A j \in 2..Cap : Visited[j] = dlnk[Visited[j-1]][N]
  BY <1>0, VisitedIs
<1>2. /\ last > 0 => dlnk[0][N] = s[1]
      /\ \A j \in 1..last-1 : dlnk[s[j]][N] = s[j + 1]
  BY DEF IsOrder
<1>3. 0 \in set
  BY <1>0
<1>4. ASSUME NEW n \in Nat, n \in set PROVE n+1 \in set
  <2> SUFFICES ASSUME NEW j \in 1..last, j <= n+1 PROVE Visited[j] = s[j]
    OBVIOUS
  <2>1. CASE j = 1
    BY <1>0, <1>1, <1>2, <2>1
  <2>2. CASE j # 1
    <3>1. j-1 \in 1..last /\ j-1 <= n /\ j \in 2..Cap /\ j-1 \in 1..last-1 /\ (j-1)+1 = j
      BY <1>0, <2>2
    <3>2. Visited[j-1] = s[j-1]
      BY <1>4, <3>1
    <3>3. dlnk[s[j-1]][N] = s[j]
      <4>1. dlnk[s[j-1]][N] = s[(j-1) + 1]
        BY <1>2, <3>1
      <4> QED BY <3>1, <4>1
    <3> QED BY <1>1, <3>1, <3>2, <3>3
  <2> QED BY <2>1, <2>2
<1> HIDE DEF set
<1>5. last \in set
  BY <1>0, <1>3, <1>4, SetInduction
<1> QED BY <1>0, <1>5 DEF set

(* The inductive invariant of the walk: besides what IInv says of single      *)
(* links, the slots in use are one chain from head to tail.                   *)
OrderInv == IInv /\ \E s \in [1..last -> 1..last] : IsOrder(s, dlnk, last)

LEMMA OrderInvSpans == OrderInv => WalkSpansSlots
<1> SUFFICES ASSUME OrderInv PROVE WalkSpansSlots
  OBVIOUS
<1>1. PICK s \in [1..last -> 1..last] : IsOrder(s, dlnk, last)
  BY DEF OrderInv
<1>2. TypeOK /\ Links /\ last \in Nat /\ last \in 0..Cap /\ Cap \in Nat /\ last <= Cap
  BY SlotsTyped DEF OrderInv, IInv
<1>3. \A j \in 1..last : Visited[j] = s[j]
  BY <1>1, <1>2, VisitedInOrder
<1>4. {Visited[j] : j \in 1..last} = 1..last
  <2>1. \A i \in 1..last : \E j \in 1..last : s[j] = i
    BY <1>1 DEF IsOrder, Enumerates
  <2> QED BY <1>3, <2>1
<1>5. ASSUME last > 0 PROVE Visited[last] = dlnk[0][P] /\ dlnk[dlnk[0][P]][N] = 0
  <2>1. last \in 1..last /\ last \in 1..Cap
    BY <1>2, <1>5
  <2>2. LinksIn(dlnk, last)
    BY <1>2, LinksAsLinksIn
  <2>3. dlnk[0][P] = s[last]
    BY <1>1, <2>1, <2>2, OrderBack
  <2>4. dlnk[s[last]][N] = 0
    BY <1>1, <1>5 DEF IsOrder
  <2> QED BY <1>3, <2>1, <2>3, <2>4
<1> QED BY <1>4, <1>5 DEF WalkSpansSlots

-----------------------------------------------------------------------------
\* What each operation does to the order.

\* The position of the slot of a key.
LEMMA SlotOf ==
  ASSUME IInv, NEW s, IsOrder(s, dlnk, last), NEW key \in Keys, hmap[key] # 0
  PROVE  /\ hmap[key] \in 1..last /\ last \in 1..Cap /\ LinksIn(dlnk, last) /\ dlnk[0][N] # 0
         /\ \E p \in 1..last : s[p] = hmap[key]
<1>1. TypeOK /\ Links /\ Index
  BY DEF IInv
<1>2. last \in Nat /\ last \in 0..Cap /\ Cap \in Nat /\ last <= Cap
  BY <1>1, SlotsTyped
<1>3. hmap[key] \in 0..last
  BY <1>1 DEF Index
<1>4. hmap[key] \in 1..last /\ last \in 1..Cap /\ last > 0
  BY <1>2, <1>3
<1>5. LinksIn(dlnk, last) /\ dlnk[0][N] # 0
  BY <1>1, <1>4, LinksAsLinksIn
<1>6. \E p \in 1..last : s[p] = hmap[key]
  BY <1>4 DEF IsOrder, Enumerates
<1> QED BY <1>4, <1>5, <1>6

\* An order has its own type.
LEMMA OrderTyped ==
  ASSUME NEW s, NEW d, NEW top, IsOrder(s, d, top)
  PROVE  s \in [1..top -> 1..top]
BY DEF IsOrder, Enumerates

\* A level is empty when hmap is: then the list is, too (line 453).
LEMMA FirstFact ==
  ASSUME IInv
  PROVE  /\ LinksIn(dlnk, last)
         /\ (\A other \in Keys : hmap[other] = 0) => dlnk[0][N] = 0
<1>1. TypeOK /\ Links /\ Index
  BY DEF IInv
<1>2. last \in Nat
  BY <1>1, SlotsTyped
<1>3. (\A other \in Keys : hmap[other] = 0) => last = 0
  <2> SUFFICES ASSUME \A other \in Keys : hmap[other] = 0, last # 0 PROVE FALSE
    OBVIOUS
  <2>1. 1 \in 1..last
    BY <1>2
  <2>2. m[1].k \in Keys /\ hmap[m[1].k] = 1
    BY <1>1, <2>1 DEF Index
  <2> QED BY <2>2
<1>4. last = 0 => dlnk[0][N] = 0
  BY <1>1 DEF Links, P, N
<1> QED BY <1>1, <1>3, <1>4, LinksAsLinksIn

LEMMA NextOrderInv == OrderInv /\ [Next]_vars => OrderInv'
<1> SUFFICES ASSUME OrderInv, [Next]_vars PROVE OrderInv'
  OBVIOUS
<1>0. IInv /\ IInv'
  BY NextIInv DEF OrderInv
<1>1. PICK s \in [1..last -> 1..last] : IsOrder(s, dlnk, last)
  BY DEF OrderInv
<1>2. ASSUME NEW r, IsOrder(r, dlnk', last') PROVE OrderInv'
  <2>1. r \in [1..last' -> 1..last']
    BY <1>2, OrderTyped
  <2> QED BY <1>0, <1>2, <2>1 DEF OrderInv
<1>3. ASSUME NEW key \in Keys, hmap[key] # 0, dlnk' = Adjust(dlnk, hmap[key], P, N), last' = last
      PROVE  OrderInv'
  <2>1. PICK p \in 1..last : s[p] = hmap[key]
    BY <1>0, <1>1, <1>3, SlotOf
  <2>2. IsOrder(ToHead(s, p), Adjust(dlnk, s[p], P, N), last)
    BY <1>0, <1>1, <1>3, SlotOf, HeadOrder
  <2> QED BY <1>2, <1>3, <2>1, <2>2
<1>4. ASSUME NEW key \in Keys, DelHit(key) PROVE OrderInv'
  <2>1. hmap[key] # 0 /\ dlnk' = Adjust(dlnk, hmap[key], N, P) /\ last' = last
    BY <1>4 DEF DelHit
  <2>2. PICK p \in 1..last : s[p] = hmap[key]
    BY <1>0, <1>1, <2>1, SlotOf
  <2>3. IsOrder(ToTail(s, p, last), Adjust(dlnk, s[p], N, P), last)
    BY <1>0, <1>1, <2>1, SlotOf, TailOrder
  <2> QED BY <1>2, <2>1, <2>2, <2>3
<1>5. ASSUME NEW key \in Keys, NEW val \in Values, NEW expireAt \in Expiries,
             PutReuse(key, val, expireAt)
      PROVE  OrderInv'
  <2>1. last = Cap /\ dlnk' = Adjust(dlnk, dlnk[0][P], P, N) /\ last' = last
    BY <1>5 DEF PutReuse
  <2>2. last \in 1..Cap /\ last \in 1..last /\ LinksIn(dlnk, last)
    BY <1>0, <2>1, FirstFact, CapAssumption
  <2>3. dlnk[0][P] = s[last]
    BY <1>1, <2>2, OrderBack
  <2>4. IsOrder(ToHead(s, last), Adjust(dlnk, s[last], P, N), last)
    BY <1>1, <2>2, HeadOrder
  <2> QED BY <1>2, <2>1, <2>3, <2>4
<1>6. ASSUME NEW key \in Keys, NEW val \in Values, NEW expireAt \in Expiries,
             PutAlloc(key, val, expireAt)
      PROVE  OrderInv'
  <2> DEFINE first == \A other \in Keys : hmap[other] = 0
  <2>1. last # Cap /\ dlnk' = LinkFresh(dlnk, last + 1, first) /\ last' = last + 1
    BY <1>6 DEF PutAlloc
  <2>2. LinksIn(dlnk, last) /\ (first => dlnk[0][N] = 0) /\ first \in BOOLEAN
    BY <1>0, FirstFact
  <2>3. last \in 0..Cap
    BY <1>0, SlotsTyped DEF IInv
  <2> HIDE DEF first
  <2>4. IsOrder(InFrontOf(s, last + 1), LinkFresh(dlnk, last + 1, first), last + 1)
    BY <1>1, <2>1, <2>2, <2>3, FreshOrder
  <2> QED BY <1>2, <2>1, <2>4
<1>7. ASSUME UNCHANGED <<dlnk, last>> PROVE OrderInv'
  BY <1>1, <1>2, <1>7
<1>8. CASE UNCHANGED vars
  BY <1>7, <1>8 DEF vars
<1>9. ASSUME NEW key \in Keys, GetMiss(key) \/ DelMiss(key) PROVE OrderInv'
  BY <1>7, <1>9 DEF GetMiss, DelMiss
<1>10. ASSUME NEW key \in Keys, GetHit(key) PROVE OrderInv'
  BY <1>3, <1>10 DEF GetHit
<1>11. ASSUME NEW key \in Keys, NEW val \in Values, NEW expireAt \in Expiries,
              PutUpdate(key, val, expireAt)
       PROVE  OrderInv'
  BY <1>3, <1>11 DEF PutUpdate
<1> QED BY <1>4, <1>5, <1>6, <1>8, <1>9, <1>10, <1>11 DEF Next

LEMMA InitOrderInv == Init => OrderInv
<1> SUFFICES ASSUME Init PROVE OrderInv
  OBVIOUS
<1>1. IInv /\ last = 0
  BY InitIInv DEF Init
<1> DEFINE s == [j \in 1..0 |-> j]
<1>2. s \in [1..0 -> 1..0] /\ IsOrder(s, dlnk, 0)
  BY DEF IsOrder, Enumerates
<1> QED BY <1>1, <1>2 DEF OrderInv

(* A walk from the head meets every slot in use once and ends at the tail:    *)
(* nothing is outside the list, where walk, Len, Clear and the cleanup would  *)
(* miss it, and there is no cycle (lines 510-516), for any capacity.          *)
THEOREM WalkSpansSlotsHolds == Spec => []WalkSpansSlots
<1>1. Spec => []OrderInv
  BY InitOrderInv, NextOrderInv, PTL DEF Spec
<1> QED BY <1>1, OrderInvSpans, PTL

-----------------------------------------------------------------------------
(* The level implements RecencyList.                                          *)

LEMMA OrderIs ==
  ASSUME IInv, NEW s, IsOrder(s, dlnk, last)
  PROVE  /\ Order = [j \in 1..last |-> m[s[j]]]
         /\ Order \in Seq(Node) /\ Len(Order) = last /\ DOMAIN Order = 1..last
         /\ \A j \in 1..last : Order[j] = m[s[j]] /\ s[j] \in 1..last /\ m[s[j]] \in Node
<1>1. TypeOK
  BY DEF IInv
<1>2. last \in Nat /\ Cap \in Nat /\ last <= Cap
  BY <1>1, SlotsTyped
<1>3. \A j \in 1..last : Visited[j] = s[j]
  BY <1>1, VisitedInOrder
<1>4. Order = [j \in 1..last |-> m[s[j]]]
  BY <1>3 DEF Order
<1>5. m \in [1..Cap -> Node]
  BY <1>1, Zenon DEF TypeOK
<1>6. \A j \in 1..last : s[j] \in 1..last /\ m[s[j]] \in Node
  <2>1. \A j \in 1..last : s[j] \in 1..last
    BY OrderTyped
  <2>2. \A i \in 1..last : i \in 1..Cap
    BY <1>2
  <2> QED BY <1>5, <2>1, <2>2
<1>7. Order \in [1..last -> Node]
  BY <1>4, <1>6
<1>8. Order \in Seq(Node) /\ Len(Order) = last /\ DOMAIN Order = 1..last
  BY <1>2, <1>7
<1> QED BY <1>4, <1>6, <1>8

LEMMA HeldIs ==
  ASSUME IInv, NEW s, IsOrder(s, dlnk, last), NEW key \in Keys
  PROVE  /\ Abstract!Holds(Order, key) <=> hmap[key] # 0
         /\ hmap[key] # 0 =>
              /\ Abstract!Position(Order, key) \in 1..last
              /\ s[Abstract!Position(Order, key)] = hmap[key]
              /\ Abstract!NodeOf(Order, key) = m[hmap[key]]
              /\ m[hmap[key]].k = key /\ m[hmap[key]] \in Node
<1>1. /\ Len(Order) = last /\ DOMAIN Order = 1..last
      /\ \A j \in 1..last : Order[j] = m[s[j]] /\ s[j] \in 1..last /\ m[s[j]] \in Node
  BY OrderIs
<1>2. /\ \A i \in 1..last : m[i].k \in Keys /\ hmap[m[i].k] = i
      /\ hmap[key] # 0 => m[hmap[key]].k = key
  BY DEF IInv, Index
<1>3. ASSUME NEW j \in 1..last, Order[j].k = key PROVE s[j] = hmap[key] /\ hmap[key] # 0
  <2>1. hmap[m[s[j]].k] = s[j] /\ s[j] # 0
    BY <1>1, <1>2
  <2> QED BY <1>1, <1>3, <2>1
<1>4. ASSUME hmap[key] # 0 PROVE Abstract!Holds(Order, key)
  <2>1. PICK p \in 1..last : s[p] = hmap[key]
    BY <1>4, SlotOf
  <2>2. Order[p].k = key
    BY <1>1, <1>2, <1>4, <2>1
  <2> QED BY <1>1, <2>2 DEF Abstract!Holds
<1>5. Abstract!Holds(Order, key) => hmap[key] # 0
  BY <1>1, <1>3 DEF Abstract!Holds
<1>6. ASSUME hmap[key] # 0
      PROVE  /\ Abstract!Position(Order, key) \in 1..last
             /\ s[Abstract!Position(Order, key)] = hmap[key]
             /\ Abstract!NodeOf(Order, key) = m[hmap[key]]
             /\ m[hmap[key]].k = key /\ m[hmap[key]] \in Node
  <2> DEFINE p == Abstract!Position(Order, key)
  <2>1. p \in 1..last /\ Order[p].k = key
    BY <1>1, <1>4, <1>6 DEF Abstract!Position, Abstract!Holds
  <2>2. s[p] = hmap[key]
    BY <1>3, <2>1
  <2>3. Abstract!NodeOf(Order, key) = Order[p]
    BY DEF Abstract!NodeOf
  <2> HIDE DEF p
  <2>4. Order[p] = m[hmap[key]] /\ m[hmap[key]] \in Node
    BY <1>1, <2>1, <2>2
  <2> QED BY <1>2, <1>6, <2>1, <2>2, <2>3, <2>4 DEF p
<1> QED BY <1>4, <1>5, <1>6

\* A node in front of a sequence.
LEMMA Cons ==
  ASSUME NEW nd \in Node, NEW seq \in Seq(Node)
  PROVE  /\ <<nd>> \o seq \in Seq(Node) /\ Len(<<nd>> \o seq) = Len(seq) + 1
         /\ \A i \in 1..Len(seq) + 1 : (<<nd>> \o seq)[i] = IF i = 1 THEN nd ELSE seq[i-1]
<1> DEFINE one == <<nd>>  n == Len(seq)
<1>1. one \in Seq(Node) /\ Len(one) = 1 /\ one[1] = nd /\ n \in Nat
  BY LenProperties
<1> HIDE DEF one
<1>2. /\ one \o seq \in Seq(Node) /\ Len(one \o seq) = Len(one) + n
      /\ \A i \in 1..Len(one)+n : (one \o seq)[i] = IF i <= Len(one) THEN one[i] ELSE seq[i-Len(one)]
  BY <1>1, ConcatProperties
<1> HIDE DEF n
<1>3. ASSUME NEW i \in 1..n+1 PROVE (one \o seq)[i] = IF i = 1 THEN nd ELSE seq[i-1]
  BY <1>1, <1>2
<1> QED BY <1>1, <1>2, <1>3 DEF one, n

\* The node of key taken out of the sequence: the others, in order.
LEMMA WithoutAt ==
  ASSUME NEW order \in Seq(Node), NEW key, Abstract!Position(order, key) \in 1..Len(order)
  PROVE  LET w == Abstract!Without(order, key)  p == Abstract!Position(order, key)
         IN /\ w \in Seq(Node) /\ Len(w) = Len(order) - 1 /\ Len(order) # 0
            /\ \A i \in 1..Len(order)-1 : w[i] = order[IF i < p THEN i ELSE i+1]
<1> DEFINE n == Len(order)  p == Abstract!Position(order, key)
           a == SubSeq(order, 1, p-1)  z == SubSeq(order, p+1, n)
<1>1. n \in Nat /\ p \in 1..n /\ \A i \in 1..n : order[i] \in Node
  BY LenProperties, ElementOfSeq
<1>2. Abstract!Without(order, key) = a \o z
  BY DEF Abstract!Without, Abstract!RemoveAt
<1> HIDE DEF n, p
<1>3. a \in Seq(Node) /\ Len(a) = p-1 /\ \A i \in 1..p-1 : a[i] = order[i]
  <2>1. 1 \in Int /\ p-1 \in Int /\ \A i \in 1..p-1 : order[i] \in Node
    BY <1>1
  <2>2. /\ a \in Seq(Node) /\ Len(a) = IF 1 <= p-1 THEN (p-1)-1+1 ELSE 0
        /\ \A i \in 1..(p-1)-1+1 : a[i] = order[1+i-1]
    BY <2>1, SubSeqProperties
  <2> HIDE DEF a
  <2>3. \A i \in 1..p-1 : i \in 1..(p-1)-1+1 /\ 1+i-1 = i
    BY <1>1
  <2> QED BY <1>1, <2>2, <2>3
<1>4. z \in Seq(Node) /\ Len(z) = n-p /\ \A i \in 1..n-p : z[i] = order[p+i]
  <2>1. p+1 \in Int /\ n \in Int /\ \A i \in p+1..n : order[i] \in Node
    BY <1>1
  <2>2. /\ z \in Seq(Node) /\ Len(z) = IF p+1 <= n THEN n-(p+1)+1 ELSE 0
        /\ \A i \in 1..n-(p+1)+1 : z[i] = order[(p+1)+i-1]
    BY <2>1, SubSeqProperties
  <2> HIDE DEF z
  <2>3. \A i \in 1..n-p : i \in 1..n-(p+1)+1 /\ (p+1)+i-1 = p+i
    BY <1>1
  <2> QED BY <1>1, <2>2, <2>3
<1> HIDE DEF a, z
<1>5. /\ a \o z \in Seq(Node) /\ Len(a \o z) = Len(a) + Len(z)
      /\ \A i \in 1..Len(a) + Len(z) : (a \o z)[i] = IF i <= Len(a) THEN a[i] ELSE z[i - Len(a)]
  BY <1>3, <1>4, ConcatProperties
<1>6. Len(a) + Len(z) = n-1 /\ n # 0
  BY <1>1, <1>3, <1>4
<1>7. ASSUME NEW i \in 1..n-1 PROVE (a \o z)[i] = order[IF i < p THEN i ELSE i+1]
  <2>1. (a \o z)[i] = IF i <= p-1 THEN a[i] ELSE z[i - (p-1)]
    BY <1>3, <1>5, <1>6
  <2>2. CASE i < p
    BY <1>1, <1>3, <2>1, <2>2
  <2>3. CASE ~(i < p)
    <3>1. i-(p-1) \in 1..n-p /\ p + (i-(p-1)) = i+1 /\ ~(i <= p-1)
      BY <1>1, <2>3
    <3>2. z[i-(p-1)] = order[i+1]
      BY <1>4, <3>1
    <3> QED BY <2>1, <2>3, <3>1, <3>2
  <2> QED BY <2>2, <2>3
<1> QED BY <1>2, <1>5, <1>6, <1>7 DEF n, p

\* The sequence when the p-th node comes first, or last, and is then nd.
HeadMoved(seq, order, p, nd) ==
  /\ Len(seq) = Len(order) /\ seq[1] = nd
  /\ \A j \in 2..Len(order) : seq[j] = order[IF j <= p THEN j-1 ELSE j]

TailMoved(seq, order, p, nd) ==
  /\ Len(seq) = Len(order) /\ seq[Len(order)] = nd
  /\ \A j \in 1..Len(order)-1 : seq[j] = order[IF j < p THEN j ELSE j+1]

LEMMA BecomesHead ==
  ASSUME NEW order \in Seq(Node), NEW key, Abstract!Position(order, key) \in 1..Len(order),
         NEW seq \in Seq(Node), NEW nd \in Node,
         HeadMoved(seq, order, Abstract!Position(order, key), nd)
  PROVE  seq = <<nd>> \o Abstract!Without(order, key)
<1> DEFINE p == Abstract!Position(order, key)  n == Len(order)  w == Abstract!Without(order, key)  t == <<nd>> \o w
<1>1. /\ w \in Seq(Node) /\ Len(w) = n-1
      /\ \A i \in 1..n-1 : w[i] = order[IF i < p THEN i ELSE i+1]
  BY WithoutAt
<1>2. n \in Nat /\ p \in 1..n
  BY LenProperties
<1>0. Len(seq) = n /\ seq[1] = nd /\ \A j \in 2..n : seq[j] = order[IF j <= p THEN j-1 ELSE j]
  BY DEF HeadMoved
<1> HIDE DEF p, n, w
<1>3. /\ t \in Seq(Node) /\ Len(t) = n
      /\ \A i \in 1..n : t[i] = IF i = 1 THEN nd ELSE w[i-1]
  <2>1. /\ t \in Seq(Node) /\ Len(t) = Len(w) + 1
        /\ \A i \in 1..Len(w) + 1 : t[i] = IF i = 1 THEN nd ELSE w[i-1]
    BY <1>1, Cons
  <2>2. Len(w) + 1 = n
    BY <1>1, <1>2
  <2> QED BY <2>1, <2>2
<1> HIDE DEF t
<1>4. ASSUME NEW j \in 1..n PROVE seq[j] = t[j]
  <2>1. CASE j = 1
    BY <1>0, <1>3, <2>1
  <2>2. CASE j # 1
    <3>1. j \in 2..n /\ j-1 \in 1..n-1 /\ (j-1 < p <=> j <= p) /\ (j-1)+1 = j
      BY <1>2, <2>2
    <3>2. t[j] = order[IF j <= p THEN j-1 ELSE j]
      BY <1>1, <1>3, <2>2, <3>1
    <3>3. seq[j] = order[IF j <= p THEN j-1 ELSE j]
      BY <1>0, <3>1
    <3> QED BY <3>2, <3>3
  <2> QED BY <2>1, <2>2
<1>5. seq = t
  BY <1>0, <1>3, <1>4, SeqEqual
<1> QED BY <1>5 DEF t, w

LEMMA BecomesTail ==
  ASSUME NEW order \in Seq(Node), NEW key, Abstract!Position(order, key) \in 1..Len(order),
         NEW seq \in Seq(Node), NEW nd \in Node,
         TailMoved(seq, order, Abstract!Position(order, key), nd)
  PROVE  seq = Append(Abstract!Without(order, key), nd)
<1> DEFINE p == Abstract!Position(order, key)  n == Len(order)  w == Abstract!Without(order, key)  t == Append(w, nd)
<1>1. /\ w \in Seq(Node) /\ Len(w) = n-1
      /\ \A i \in 1..n-1 : w[i] = order[IF i < p THEN i ELSE i+1]
  BY WithoutAt
<1>2. n \in Nat /\ p \in 1..n
  BY LenProperties
<1>0. Len(seq) = n /\ seq[n] = nd /\ \A j \in 1..n-1 : seq[j] = order[IF j < p THEN j ELSE j+1]
  BY DEF TailMoved
<1> HIDE DEF p, n, w
<1>3. /\ t \in Seq(Node) /\ Len(t) = n /\ t[n] = nd
      /\ \A i \in 1..n-1 : t[i] = w[i]
  <2>1. /\ t \in Seq(Node) /\ Len(t) = Len(w) + 1 /\ t[Len(w) + 1] = nd
        /\ \A i \in 1..Len(w) : t[i] = w[i]
    BY <1>1, AppendProperties
  <2>2. Len(w) + 1 = n /\ Len(w) = n-1
    BY <1>1, <1>2
  <2> QED BY <2>1, <2>2
<1> HIDE DEF t
<1>4. ASSUME NEW j \in 1..n PROVE seq[j] = t[j]
  <2>1. CASE j = n
    BY <1>0, <1>3, <2>1
  <2>2. CASE j # n
    <3>1. j \in 1..n-1
      BY <1>2, <2>2
    <3> QED BY <1>0, <1>1, <1>3, <3>1
  <2> QED BY <2>1, <2>2
<1>5. seq = t
  BY <1>0, <1>3, <1>4, SeqEqual
<1> QED BY <1>5 DEF t, w

\* OrderIs, in a form that holds of the next state too.
OrderNow ==
  \A s : IInv /\ IsOrder(s, dlnk, last) =>
    /\ Order \in Seq(Node) /\ Len(Order) = last
    /\ \A j \in 1..last : Order[j] = m[s[j]] /\ s[j] \in 1..last /\ m[s[j]] \in Node

LEMMA OrderAlways == OrderNow
BY OrderIs DEF OrderNow

LEMMA OrderNext ==
  ASSUME IInv', NEW s, IsOrder(s, dlnk', last')
  PROVE  /\ Order' \in Seq(Node) /\ Len(Order') = last'
         /\ \A j \in 1..last' : Order'[j] = m'[s[j]] /\ s[j] \in 1..last' /\ m'[s[j]] \in Node
<1>1. OrderNow'
  BY OrderAlways, PTL
<1>2. \A q : IInv' /\ IsOrder(q, dlnk', last') =>
        /\ Order' \in Seq(Node) /\ Len(Order') = last'
        /\ \A j \in 1..last' : Order'[j] = m'[q[j]] /\ q[j] \in 1..last' /\ m'[q[j]] \in Node
  BY <1>1 DEF OrderNow, IsOrder
<1> QED BY <1>2

\* What is rewritten in a slot that becomes the head.
LEMMA HeadStep ==
  ASSUME IInv, IInv', NEW s, IsOrder(s, dlnk, last), NEW key \in Keys, hmap[key] # 0,
         dlnk' = Adjust(dlnk, hmap[key], P, N), last' = last,
         \A i \in 1..last : i # hmap[key] => m'[i] = m[i]
  PROVE  Order' = <<m'[hmap[key]]>> \o Abstract!Without(Order, key)
<1> DEFINE p == Abstract!Position(Order, key)  nd == m'[hmap[key]]  r == ToHead(s, p)
<1>1. /\ Order \in Seq(Node) /\ Len(Order) = last
      /\ \A j \in 1..last : Order[j] = m[s[j]] /\ s[j] \in 1..last
  BY OrderIs
<1>2. p \in 1..last /\ s[p] = hmap[key]
  BY HeldIs
<1>3. last \in 1..Cap /\ LinksIn(dlnk, last) /\ last \in Nat
  BY SlotOf, CapAssumption
<1> HIDE DEF p, nd
<1>4. IsOrder(r, dlnk', last')
  <2>1. IsOrder(ToHead(s, p), Adjust(dlnk, s[p], P, N), last)
    BY <1>2, <1>3, HeadOrder
  <2> QED BY <1>2, <2>1
<1>5. /\ Order' \in Seq(Node) /\ Len(Order') = last
      /\ \A j \in 1..last : Order'[j] = m'[r[j]] /\ m'[r[j]] \in Node
  <2> HIDE DEF r
  <2> QED BY <1>4, OrderNext
<1>6. /\ s \in [1..last -> 1..last]
      /\ \A j, k \in 1..last : s[j] = s[k] => j = k
  BY DEF IsOrder, Enumerates
<1>7. \A j \in 1..last : r[j] = IF j = 1 THEN s[p] ELSE IF j <= p THEN s[j-1] ELSE s[j]
  BY <1>6 DEF ToHead
<1> HIDE DEF r
<1>8. 1 \in 1..last
  BY <1>3
<1>9. Order'[1] = nd /\ nd \in Node
  BY <1>2, <1>5, <1>7, <1>8 DEF nd
<1>10. ASSUME NEW j \in 2..last PROVE Order'[j] = Order[IF j <= p THEN j-1 ELSE j]
  <2> DEFINE k == IF j <= p THEN j-1 ELSE j
  <2>1. k \in 1..last /\ k # p /\ j \in 1..last /\ j # 1
    BY <1>2, <1>3
  <2>2. r[j] = s[k]
    BY <1>7, <2>1
  <2> HIDE DEF k
  <2>3. s[k] # hmap[key] /\ s[k] \in 1..last
    <3>1. s[k] = s[p] => k = p
      BY <1>2, <1>6, <2>1
    <3>2. s[k] \in 1..last
      BY <1>1, <2>1
    <3> QED BY <1>2, <2>1, <3>1, <3>2
  <2>4. m'[s[k]] = m[s[k]]
    BY <2>3
  <2>5. Order'[j] = Order[k]
    BY <1>1, <1>5, <2>1, <2>2, <2>4
  <2> QED BY <2>5 DEF k
<1>11. Abstract!Position(Order, key) = p
  BY DEF p
<1>12. Order' = <<nd>> \o Abstract!Without(Order, key)
  <2> DEFINE seq == Order'  old == Order
  <2>1. /\ old \in Seq(Node) /\ seq \in Seq(Node) /\ nd \in Node
        /\ Abstract!Position(old, key) = p /\ p \in 1..Len(old)
    BY <1>1, <1>2, <1>5, <1>9, <1>11
  <2>2. HeadMoved(seq, old, p, nd)
    BY <1>1, <1>5, <1>9, <1>10 DEF HeadMoved
  <2> HIDE DEF seq, old
  <2>3. seq = <<nd>> \o Abstract!Without(old, key)
    BY <2>1, <2>2, BecomesHead
  <2> QED BY <2>3 DEF seq, old
<1> QED BY <1>12 DEF nd

\* What is rewritten in a slot that becomes the tail.
LEMMA TailStep ==
  ASSUME IInv, IInv', NEW s, IsOrder(s, dlnk, last), NEW key \in Keys, hmap[key] # 0,
         dlnk' = Adjust(dlnk, hmap[key], N, P), last' = last,
         \A i \in 1..last : i # hmap[key] => m'[i] = m[i]
  PROVE  Order' = Append(Abstract!Without(Order, key), m'[hmap[key]])
<1> DEFINE p == Abstract!Position(Order, key)  nd == m'[hmap[key]]  r == ToTail(s, p, last)
<1>1. /\ Order \in Seq(Node) /\ Len(Order) = last
      /\ \A j \in 1..last : Order[j] = m[s[j]] /\ s[j] \in 1..last
  BY OrderIs
<1>2. p \in 1..last /\ s[p] = hmap[key]
  BY HeldIs
<1>3. last \in 1..Cap /\ LinksIn(dlnk, last) /\ last \in Nat
  BY SlotOf, CapAssumption
<1> HIDE DEF p, nd
<1>4. IsOrder(r, dlnk', last')
  <2>1. IsOrder(ToTail(s, p, last), Adjust(dlnk, s[p], N, P), last)
    BY <1>2, <1>3, TailOrder
  <2> QED BY <1>2, <2>1
<1>5. /\ Order' \in Seq(Node) /\ Len(Order') = last
      /\ \A j \in 1..last : Order'[j] = m'[r[j]] /\ m'[r[j]] \in Node
  <2> HIDE DEF r
  <2> QED BY <1>4, OrderNext
<1>6. /\ s \in [1..last -> 1..last]
      /\ \A j, k \in 1..last : s[j] = s[k] => j = k
  BY DEF IsOrder, Enumerates
<1>7. \A j \in 1..last : r[j] = IF j = last THEN s[p] ELSE IF j < p THEN s[j] ELSE s[j+1]
  BY <1>6 DEF ToTail
<1> HIDE DEF r
<1>8. last \in 1..last
  BY <1>3
<1>9. Order'[last] = nd /\ nd \in Node
  BY <1>2, <1>5, <1>7, <1>8 DEF nd
<1>10. ASSUME NEW j \in 1..last-1 PROVE Order'[j] = Order[IF j < p THEN j ELSE j+1]
  <2> DEFINE k == IF j < p THEN j ELSE j+1
  <2>1. k \in 1..last /\ k # p /\ j \in 1..last /\ j # last
    BY <1>2, <1>3
  <2>2. r[j] = s[k]
    BY <1>7, <2>1
  <2> HIDE DEF k
  <2>3. s[k] # hmap[key] /\ s[k] \in 1..last
    <3>1. s[k] = s[p] => k = p
      BY <1>2, <1>6, <2>1
    <3>2. s[k] \in 1..last
      BY <1>1, <2>1
    <3> QED BY <1>2, <2>1, <3>1, <3>2
  <2>4. m'[s[k]] = m[s[k]]
    BY <2>3
  <2>5. Order'[j] = Order[k]
    BY <1>1, <1>5, <2>1, <2>2, <2>4
  <2> QED BY <2>5 DEF k
<1>11. Abstract!Position(Order, key) = p
  BY DEF p
<1>12. Order' = Append(Abstract!Without(Order, key), nd)
  <2> DEFINE seq == Order'  old == Order
  <2>1. /\ old \in Seq(Node) /\ seq \in Seq(Node) /\ nd \in Node
        /\ Abstract!Position(old, key) = p /\ p \in 1..Len(old)
    BY <1>1, <1>2, <1>5, <1>9, <1>11
  <2>2. TailMoved(seq, old, p, nd)
    BY <1>1, <1>5, <1>9, <1>10 DEF TailMoved
  <2> HIDE DEF seq, old
  <2>3. seq = Append(Abstract!Without(old, key), nd)
    BY <2>1, <2>2, BecomesTail
  <2> QED BY <2>3 DEF seq, old
<1> QED BY <1>12 DEF nd

\* Without the last node: the front of the sequence.
LEMMA WithoutLast ==
  ASSUME NEW order \in Seq(Node), NEW key,
         Len(order) # 0, Abstract!Position(order, key) = Len(order)
  PROVE  Abstract!Without(order, key) = Abstract!Front(order)
<1> DEFINE n == Len(order)  front == SubSeq(order, 1, n-1)
<1>1. n \in Nat /\ n # 0 /\ \A i \in 1..n : order[i] \in Node
  BY LenProperties, ElementOfSeq
<1>2. SubSeq(order, n+1, n) = <<>>
  BY <1>1, SubSeqEmpty
<1>3. Abstract!Without(order, key) = front \o SubSeq(order, n+1, n)
  BY DEF Abstract!Without, Abstract!RemoveAt
<1>4. Abstract!Front(order) = front
  BY DEF Abstract!Front
<1> HIDE DEF n
<1>5. front \in Seq(Node)
  <2>1. \A i \in 1..n-1 : order[i] \in Node
    BY <1>1
  <2> QED BY <1>1, <2>1, SubSeqProperties
<1> HIDE DEF front
<1>6. front \o <<>> = front
  BY <1>5, ConcatEmptySeq
<1> QED BY <1>2, <1>3, <1>4, <1>6

\* What a put reports of a level that is not full, or holds the key.
LEMMA NothingReported ==
  ASSUME NEW key, Abstract!Holds(Order, key) \/ Len(Order) # Cap
  PROVE  Abstract!Reported(key) = NoNode
BY DEF Abstract!Reported, Abstract!Displaced, Abstract!NoNode, NoNode

LEMMA PutUpdateRefines ==
  ASSUME OrderInv, OrderInv', NEW key \in Keys, NEW val \in Values, NEW expireAt \in Expiries,
         PutUpdate(key, val, expireAt)
  PROVE  Abstract!Put(key, val, expireAt)
<1> DEFINE nd == [k |-> key, v |-> val, expireAt |-> expireAt]  h == hmap[key]
<1>1. IInv /\ IInv'
  BY DEF OrderInv
<1>2. PICK s \in [1..last -> 1..last] : IsOrder(s, dlnk, last)
  BY DEF OrderInv
<1>3. /\ h # 0 /\ dlnk' = Adjust(dlnk, h, P, N) /\ last' = last /\ ret' = Returned(0, NoNode)
      /\ m' = [m EXCEPT ![h].v = val, ![h].expireAt = expireAt]
  BY DEF PutUpdate
<1>4. h \in 1..last /\ \A i \in 1..last : i \in 1..Cap
  BY <1>1, <1>2, <1>3, SlotOf, SlotsTyped DEF IInv
<1>5. m \in [1..Cap -> Node] /\ m[h].k = key
  <2>1. TypeOK
    BY <1>1 DEF IInv
  <2> QED BY <1>1, <1>2, <1>3, <2>1, HeldIs, Zenon DEF TypeOK
<1> HIDE DEF h
<1>6. m'[h] = nd /\ \A i \in 1..last : i # h => m'[i] = m[i]
  BY <1>3, <1>4, <1>5 DEF Node
<1>7. Order' = <<nd>> \o Abstract!Without(Order, key)
  BY <1>1, <1>2, <1>3, <1>6, HeadStep DEF h
<1>8. Abstract!Holds(Order, key)
  BY <1>1, <1>2, <1>3, HeldIs DEF h
<1>9. Abstract!PutIn(Order, Cap, nd) = <<nd>> \o Abstract!Without(Order, key)
  BY <1>8 DEF Abstract!PutIn
<1>10. Abstract!Reported(key) = NoNode
  BY <1>8, NothingReported
<1> HIDE DEF nd
<1>11. ret' = Abstract!Returned(IF Abstract!Holds(Order, key) THEN 0 ELSE 1, Abstract!Reported(key))
  BY <1>3, <1>8, <1>10 DEF Returned, Abstract!Returned
<1> QED BY <1>7, <1>9, <1>11 DEF Abstract!Put, nd

LEMMA GetHitRefines ==
  ASSUME OrderInv, OrderInv', NEW key \in Keys, GetHit(key)
  PROVE  Abstract!Get(key)
<1>1. IInv /\ IInv'
  BY DEF OrderInv
<1>2. PICK s \in [1..last -> 1..last] : IsOrder(s, dlnk, last)
  BY DEF OrderInv
<1>3. /\ hmap[key] # 0 /\ dlnk' = Adjust(dlnk, hmap[key], P, N) /\ last' = last /\ m' = m
      /\ ret' = Returned(1, m[hmap[key]])
  BY DEF GetHit
<1>4. Abstract!Holds(Order, key) /\ Abstract!NodeOf(Order, key) = m[hmap[key]]
  BY <1>1, <1>2, <1>3, HeldIs
<1>5. Order' = <<m[hmap[key]]>> \o Abstract!Without(Order, key)
  BY <1>1, <1>2, <1>3, HeadStep
<1> QED BY <1>3, <1>4, <1>5 DEF Abstract!Get, Abstract!Touch, Returned, Abstract!Returned

LEMMA DelHitRefines ==
  ASSUME OrderInv, OrderInv', NEW key \in Keys, DelHit(key)
  PROVE  Abstract!Del(key)
<1> DEFINE h == hmap[key]
<1>1. IInv /\ IInv'
  BY DEF OrderInv
<1>2. PICK s \in [1..last -> 1..last] : IsOrder(s, dlnk, last)
  BY DEF OrderInv
<1>3. /\ h # 0 /\ dlnk' = Adjust(dlnk, h, N, P) /\ last' = last /\ ret' = Returned(1, m[h])
      /\ m' = [m EXCEPT ![h].expireAt = 0] /\ m[h].expireAt > 0
  BY DEF DelHit
<1>4. h \in 1..last /\ \A i \in 1..last : i \in 1..Cap
  BY <1>1, <1>2, <1>3, SlotOf, SlotsTyped DEF IInv
<1>5. m \in [1..Cap -> Node]
  <2>1. TypeOK
    BY <1>1 DEF IInv
  <2> QED BY <2>1, Zenon DEF TypeOK
<1>6. Abstract!Holds(Order, key) /\ Abstract!NodeOf(Order, key) = m[h]
  BY <1>1, <1>2, <1>3, HeldIs
<1> HIDE DEF h
<1>7. m'[h] = [m[h] EXCEPT !.expireAt = 0] /\ \A i \in 1..last : i # h => m'[i] = m[i]
  BY <1>3, <1>4, <1>5
<1>8. Order' = Append(Abstract!Without(Order, key), m'[h])
  BY <1>1, <1>2, <1>3, <1>7, TailStep DEF h
<1>9. Abstract!Live(Order, key)
  BY <1>3, <1>6 DEF Abstract!Live
<1>10. Abstract!DelIn(Order, key) = Append(Abstract!Without(Order, key), m'[h])
  BY <1>6, <1>7, <1>9 DEF Abstract!DelIn
<1> QED BY <1>3, <1>6, <1>8, <1>9, <1>10 DEF Abstract!Del, Returned, Abstract!Returned

\* A miss leaves the order.
LEMMA SameOrder ==
  ASSUME OrderInv, OrderInv', UNCHANGED <<dlnk, m, last>>
  PROVE  Order' = Order
<1>1. IInv /\ IInv'
  BY DEF OrderInv
<1>2. PICK s \in [1..last -> 1..last] : IsOrder(s, dlnk, last)
  BY DEF OrderInv
<1>3. /\ Order \in Seq(Node) /\ Len(Order) = last /\ \A j \in 1..last : Order[j] = m[s[j]]
  BY <1>1, <1>2, OrderIs
<1>4. IsOrder(s, dlnk', last')
  BY <1>2
<1>5. /\ Order' \in Seq(Node) /\ Len(Order') = last /\ \A j \in 1..last : Order'[j] = m[s[j]]
  BY <1>1, <1>4, OrderNext
<1> QED BY <1>3, <1>5, SeqEqual

LEMMA GetMissRefines ==
  ASSUME OrderInv, OrderInv', NEW key \in Keys, GetMiss(key)
  PROVE  Abstract!Get(key)
<1>1. Order' = Order
  BY SameOrder DEF GetMiss
<1>2. ~Abstract!Holds(Order, key)
  BY HeldIs DEF GetMiss, OrderInv
<1> QED BY <1>1, <1>2 DEF GetMiss, Abstract!Get, Abstract!Touch, Returned, Abstract!Returned, NoNode,
                          Abstract!NoNode

LEMMA DelMissRefines ==
  ASSUME OrderInv, OrderInv', NEW key \in Keys, DelMiss(key)
  PROVE  Abstract!Del(key)
<1>1. Order' = Order /\ ret' = Returned(0, NoNode)
  BY SameOrder DEF DelMiss
<1>2. ~Abstract!Live(Order, key)
  <2>1. hmap[key] # 0 => m[hmap[key]].expireAt = 0
    BY DEF DelMiss
  <2>2. /\ Abstract!Holds(Order, key) => hmap[key] # 0
        /\ hmap[key] # 0 => Abstract!NodeOf(Order, key) = m[hmap[key]]
    BY HeldIs DEF OrderInv
  <2> QED BY <2>1, <2>2 DEF Abstract!Live
<1> QED BY <1>1, <1>2 DEF Abstract!Del, Abstract!DelIn, Returned, Abstract!Returned, NoNode,
                          Abstract!NoNode

\* What a put reports of a full level without the key: its last node, if live.
LEMMA TailReported ==
  ASSUME NEW key, ~Abstract!Holds(Order, key), Len(Order) = Cap, NEW tail, tail = Order[Cap]
  PROVE  Abstract!Reported(key) = IF tail.expireAt > 0 THEN tail ELSE NoNode
<1>1. Abstract!Displaced(Order, Cap, key) = IF tail.expireAt > 0 THEN {tail} ELSE {}
  <2>1. {Len(Order)} \ {0} = {Cap}
    BY CapAssumption
  <2>2. {Order[i] : i \in {Len(Order)} \ {0}} = {tail}
    BY <2>1
  <2>3. Abstract!Displaced(Order, Cap, key) = {nd \in {tail} : nd.expireAt > 0}
    BY <2>2 DEF Abstract!Displaced
  <2> QED BY <2>3
<1>2. (CHOOSE nd \in {tail} : TRUE) = tail
  OBVIOUS
<1>3. {tail} # {}
  OBVIOUS
<1> QED BY <1>1, <1>2, <1>3 DEF Abstract!Reported, Abstract!NoNode, NoNode

LEMMA PutReuseRefines ==
  ASSUME OrderInv, OrderInv', NEW key \in Keys, NEW val \in Values, NEW expireAt \in Expiries,
         PutReuse(key, val, expireAt)
  PROVE  Abstract!Put(key, val, expireAt)
<1> DEFINE nd == [k |-> key, v |-> val, expireAt |-> expireAt]
           slot == dlnk[0][P]  tail == m[slot]
<1>1. IInv /\ IInv'
  BY DEF OrderInv
<1>2. PICK s \in [1..last -> 1..last] : IsOrder(s, dlnk, last)
  BY DEF OrderInv
<1>3. /\ hmap[key] = 0 /\ last = Cap /\ last' = last
      /\ ret' = Returned(1, IF tail.expireAt > 0 THEN tail ELSE NoNode)
      /\ m' = [m EXCEPT ![slot] = nd] /\ dlnk' = Adjust(dlnk, slot, P, N)
  BY DEF PutReuse
<1>4. last \in 1..Cap /\ last \in 1..last /\ LinksIn(dlnk, last) /\ last # 0
  BY <1>1, <1>3, FirstFact, CapAssumption
<1>5. slot = s[last] /\ slot \in 1..last
  <2>1. slot = s[last]
    BY <1>2, <1>4, OrderBack
  <2> QED BY <1>2, <1>4, <2>1
<1>6. tail.k \in Keys /\ hmap[tail.k] = slot /\ slot # 0
  BY <1>1, <1>5 DEF IInv, Index
<1>7. m \in [1..Cap -> Node]
  <2>1. TypeOK
    BY <1>1 DEF IInv
  <2> QED BY <2>1, Zenon DEF TypeOK
<1>8. /\ Order \in Seq(Node) /\ Len(Order) = last
      /\ \A j \in 1..last : Order[j] = m[s[j]]
  BY <1>1, <1>2, OrderIs
<1>9. ~Abstract!Holds(Order, key)
  BY <1>1, <1>2, <1>3, HeldIs
<1>10. Abstract!Position(Order, tail.k) \in 1..last /\ s[Abstract!Position(Order, tail.k)] = slot
  BY <1>1, <1>2, <1>6, HeldIs
<1> HIDE DEF slot, nd
<1>11. m'[slot] = nd /\ \A i \in 1..last : i # slot => m'[i] = m[i]
  BY <1>3, <1>5, <1>7
<1>12. tail = Order[Cap]
  BY <1>3, <1>4, <1>5, <1>8
<1> HIDE DEF tail
<1>13. Abstract!Position(Order, tail.k) = last
  BY <1>2, <1>4, <1>5, <1>10 DEF IsOrder, Enumerates
<1>14. Order' = <<nd>> \o Abstract!Without(Order, tail.k)
  BY <1>1, <1>2, <1>3, <1>6, <1>11, HeadStep
<1>15. Abstract!Without(Order, tail.k) = Abstract!Front(Order)
  BY <1>4, <1>8, <1>13, WithoutLast
<1>16. Abstract!PutIn(Order, Cap, nd) = <<nd>> \o Abstract!Front(Order)
  BY <1>3, <1>8, <1>9 DEF Abstract!PutIn, nd
<1>17. Abstract!Reported(key) = IF tail.expireAt > 0 THEN tail ELSE NoNode
  BY <1>3, <1>8, <1>9, <1>12, TailReported
<1>18. ret' = Abstract!Returned(IF Abstract!Holds(Order, key) THEN 0 ELSE 1, Abstract!Reported(key))
  BY <1>3, <1>9, <1>17 DEF Returned, Abstract!Returned
<1> QED BY <1>14, <1>15, <1>16, <1>18 DEF Abstract!Put, nd

LEMMA PutAllocRefines ==
  ASSUME OrderInv, OrderInv', NEW key \in Keys, NEW val \in Values, NEW expireAt \in Expiries,
         PutAlloc(key, val, expireAt)
  PROVE  Abstract!Put(key, val, expireAt)
<1> DEFINE nd == [k |-> key, v |-> val, expireAt |-> expireAt]
           slot == last + 1
           first == \A other \in Keys : hmap[other] = 0
<1>1. IInv /\ IInv'
  BY DEF OrderInv
<1>2. PICK s \in [1..last -> 1..last] : IsOrder(s, dlnk, last)
  BY DEF OrderInv
<1>3. /\ hmap[key] = 0 /\ last # Cap /\ last' = slot /\ ret' = Returned(1, NoNode)
      /\ m' = [m EXCEPT ![slot] = nd] /\ dlnk' = LinkFresh(dlnk, slot, first)
  BY DEF PutAlloc
<1>4. last \in Nat /\ last \in 0..Cap /\ Cap \in Nat /\ slot \in 1..Cap /\ slot \notin 1..last
  <2>1. last \in Nat /\ last \in 0..Cap /\ Cap \in Nat
    BY <1>1, SlotsTyped DEF IInv
  <2> QED BY <1>3, <2>1
<1>5. LinksIn(dlnk, last) /\ (first => dlnk[0][N] = 0) /\ first \in BOOLEAN
  BY <1>1, FirstFact
<1> HIDE DEF first
<1>6. IsOrder(InFrontOf(s, slot), dlnk', last')
  BY <1>2, <1>3, <1>4, <1>5, FreshOrder
<1>7. \A j \in 1..slot : InFrontOf(s, slot)[j] = IF j = 1 THEN slot ELSE s[j-1]
  BY DEF InFrontOf
<1>8. m \in [1..Cap -> Node]
  <2>1. TypeOK
    BY <1>1 DEF IInv
  <2> QED BY <2>1, Zenon DEF TypeOK
<1>9. /\ Order \in Seq(Node) /\ Len(Order) = last
      /\ \A j \in 1..last : Order[j] = m[s[j]] /\ s[j] \in 1..last
  BY <1>1, <1>2, OrderIs
<1>10. /\ Order' \in Seq(Node) /\ Len(Order') = slot
       /\ \A j \in 1..slot : Order'[j] = m'[InFrontOf(s, slot)[j]]
  BY <1>1, <1>3, <1>6, OrderNext
<1>11. ~Abstract!Holds(Order, key)
  BY <1>1, <1>2, <1>3, HeldIs
<1>12. nd \in Node
  BY DEF Node
<1> HIDE DEF nd
<1>13. m'[slot] = nd /\ \A i \in 1..last : m'[i] = m[i]
  <2>1. \A i \in 1..last : i # slot /\ i \in 1..Cap
    BY <1>4
  <2> QED BY <1>3, <1>4, <1>8, <2>1
<1>14. Order' = <<nd>> \o Order
  <2> DEFINE old == Order  seq == Order'  t == <<nd>> \o old
  <2>1. /\ t \in Seq(Node) /\ Len(t) = Len(old) + 1
        /\ \A i \in 1..Len(old) + 1 : t[i] = IF i = 1 THEN nd ELSE old[i-1]
    BY <1>9, <1>12, Cons
  <2>2. ASSUME NEW j \in 1..slot PROVE seq[j] = t[j]
    <3>1. CASE j = 1
      <4>1. seq[1] = m'[slot]
        BY <1>7, <1>10, <3>1
      <4>2. 1 \in 1..Len(old) + 1
        BY <1>9
      <4> QED BY <1>13, <2>1, <3>1, <4>1, <4>2
    <3>2. CASE j # 1
      <4>1. j-1 \in 1..last
        BY <1>4, <3>2
      <4>2. seq[j] = m'[s[j-1]]
        BY <1>7, <1>10, <3>2
      <4>3. j \in 1..Len(old) + 1
        BY <1>9
      <4>4. t[j] = old[j-1]
        BY <2>1, <3>2, <4>3
      <4>5. m'[s[j-1]] = m[s[j-1]] /\ old[j-1] = m[s[j-1]]
        BY <1>9, <1>13, <4>1
      <4> QED BY <4>2, <4>4, <4>5
    <3> QED BY <3>1, <3>2
  <2>3. seq \in Seq(Node) /\ Len(seq) = slot /\ Len(t) = slot
    BY <1>9, <1>10, <2>1
  <2> HIDE DEF old, seq, t
  <2>4. seq = t
    BY <2>1, <2>2, <2>3, SeqEqual
  <2> QED BY <2>4 DEF old, seq, t
<1>15. Len(Order) # Cap
  BY <1>3, <1>9
<1>16. Abstract!PutIn(Order, Cap, nd) = <<nd>> \o Order
  BY <1>11, <1>15 DEF Abstract!PutIn, nd
<1>17. Abstract!Reported(key) = NoNode
  BY <1>15, NothingReported
<1>18. ret' = Abstract!Returned(IF Abstract!Holds(Order, key) THEN 0 ELSE 1, Abstract!Reported(key))
  BY <1>3, <1>11, <1>17 DEF Returned, Abstract!Returned
<1> QED BY <1>14, <1>16, <1>18 DEF Abstract!Put, nd

(* The refinement: for any keys and any capacity, each put, get and del of    *)
(* the arrays (lines 420-507) is one on the recency sequence.  What is        *)
(* displaced is the least recently used node, a deleted node is the next to   *)
(* be reused, and the same is returned.                                       *)
THEOREM LevelIsRecencyList == Spec => ImplementsRecencyList
<1>1. ASSUME Init PROVE Abstract!Init
  <2>1. IInv /\ last = 0 /\ ret = Returned(0, NoNode)
    BY <1>1, InitIInv DEF Init
  <2>2. Order = <<>>
    BY <2>1 DEF Order
  <2> QED BY <2>1, <2>2 DEF Abstract!Init, Abstract!Returned, Returned, Abstract!NoNode, NoNode
<1>2. ASSUME OrderInv, OrderInv', [Next]_vars PROVE [Abstract!Next]_(Abstract!vars)
  <2>1. ASSUME NEW key \in Keys, NEW val \in Values, NEW expireAt \in Expiries,
               \/ PutUpdate(key, val, expireAt)
               \/ PutReuse(key, val, expireAt)
               \/ PutAlloc(key, val, expireAt)
        PROVE  Abstract!Next
    <3>1. Abstract!Put(key, val, expireAt)
      BY <1>2, <2>1, PutUpdateRefines, PutReuseRefines, PutAllocRefines
    <3> QED BY <3>1 DEF Abstract!Next
  <2>2. ASSUME NEW key \in Keys, GetHit(key) \/ GetMiss(key) PROVE Abstract!Next
    <3>1. Abstract!Get(key)
      BY <1>2, <2>2, GetHitRefines, GetMissRefines
    <3> QED BY <3>1 DEF Abstract!Next
  <2>3. ASSUME NEW key \in Keys, DelHit(key) \/ DelMiss(key) PROVE Abstract!Next
    <3>1. Abstract!Del(key)
      BY <1>2, <2>3, DelHitRefines, DelMissRefines
    <3> QED BY <3>1 DEF Abstract!Next
  <2>4. CASE UNCHANGED vars
    BY <1>2, <2>4, SameOrder DEF vars, Abstract!vars
  <2> QED BY <1>2, <2>1, <2>2, <2>3, <2>4 DEF Next
<1>3. OrderInv /\ [Next]_vars => OrderInv'
  BY NextOrderInv
<1> QED BY <1>1, <1>2, <1>3, InitOrderInv, PTL DEF Spec, ImplementsRecencyList, Abstract!Spec

=============================================================================
