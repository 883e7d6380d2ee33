------------------------------- MODULE LRUCache -------------------------------
(* LruCache of pkg/store/lru.go: a list of elements in recency order, a map   *)
(* from keys to elements, expiry times and a byte count, under one lock.  All *)
(* operations but Get hold it throughout; Get looks the element up, checks    *)
(* the expiry, moves the element to the front and reads its value in separate *)
(* steps, all with the element of the first (lines 80-109).                   *)
EXTENDS Integers, FiniteSets, SequencesExt

CONSTANTS Keys, Values,
          Size,             \* value -> the bytes of an entry with it, key included
          MaxBytes,         \* 0: no limit
          Getters,          \* the goroutines that call Get
          Elems,            \* the list elements
          Durations,        \* what SetWithExpiration is given, 0: no expiry
          MaxClock,         \* bound on the clock
          MaxDrift,         \* bound on drift
          NoElem, NoEntry, NoKey

ASSUME LRUAssumption ==
  /\ IsFiniteSet(Keys) /\ NoKey \notin Keys
  /\ Size \in [Values -> Nat \ {0}] /\ MaxBytes \in Nat
  /\ Durations \subseteq Nat /\ MaxClock \in Nat \ {0} /\ MaxDrift \in Nat
  /\ NoEntry \notin [k : Keys, v : Values]

\* An element for every key, and one that was removed for every Get: there is
\* always a new one to make.
ASSUME ElemsAssumption ==
  /\ IsFiniteSet(Elems) /\ IsFiniteSet(Getters) /\ NoElem \notin Elems
  /\ Cardinality(Elems) >= Cardinality(Keys) + Cardinality(Getters)

VARIABLES clock,
          cache,            \* list, entry, items, expires, usedBytes; see Init
          get,              \* getter -> where it is in Get
          ticking           \* Close was not called

vars == <<clock, cache, get, ticking>>

NoGet == [at |-> "out", key |-> NoKey, elem |-> NoElem, late |-> FALSE]

\* drift (history): the bytes that evict has subtracted once too often.
Empty == [list      |-> <<>>,
          items     |-> [key \in Keys |-> NoElem],
          expires   |-> [key \in Keys |-> 0],
          usedBytes |-> 0,
          drift     |-> 0,
          entry     |-> [e \in Elems |-> NoEntry]]

Init ==
  /\ clock = 1
  /\ cache = Empty
  /\ get = [p \in Getters |-> NoGet]
  /\ ticking = TRUE

\* Bytes of some elements of the list.
Bytes(c, elems) ==
  LET bytes[i \in 0..Len(c.list)] ==
        IF i = 0 THEN 0
        ELSE bytes[i-1] + IF c.list[i] \in elems THEN Size[c.entry[c.list[i]].v] ELSE 0
  IN bytes[Len(c.list)]

\* The list without some elements.
Kept(list, elems) ==
  LET kept[i \in 0..Len(list)] ==
        IF i = 0 THEN <<>>
        ELSE IF list[i] \in elems THEN kept[i-1] ELSE Append(kept[i-1], list[i])
  IN kept[Len(list)]

Expired(c, key) == c.expires[key] # 0 /\ clock > c.expires[key]

\* What neither the list nor a Get refers to any more is garbage.
Collected(c, gets) ==
  LET used == ToSet(c.list) \cup {gets[p].elem : p \in Getters}
  IN [c EXCEPT !.entry = [e \in Elems |-> IF e \in used THEN @[e] ELSE NoEntry]]

\* removeElement, for a set of elements of the list; evict takes charge times
\* their bytes off the count.
RemovedAll(c, elems, charge) ==
  [c EXCEPT !.list      = Kept(@, elems),
            !.items     = [key \in Keys |-> IF @[key] \in elems THEN NoElem ELSE @[key]],
            !.expires   = [key \in Keys |-> IF c.items[key] \in elems THEN 0 ELSE @[key]],
            !.usedBytes = @ - charge * Bytes(c, elems)]

\* evict: as many elements from the back as it takes, each subtracted twice.
Evicted(c) ==
  LET n       == Len(c.list)
      Back(i) == {c.list[j] : j \in n-i+1..n}
      Over(i) == c.usedBytes - 2 * Bytes(c, Back(i)) > MaxBytes
      out     == Back(CHOOSE i \in 1..n : (i = n \/ ~Over(i)) /\ \A j \in 1..i-1 : Over(j))
  IN IF MaxBytes > 0 /\ c.usedBytes > MaxBytes /\ n > 0
     THEN [RemovedAll(c, out, 2) EXCEPT !.drift = @ + Bytes(c, out)]
     ELSE c

MovedToFront(c, e) == [c EXCEPT !.list = <<e>> \o Kept(@, {e})]

-----------------------------------------------------------------------------
(* Faulty variants of the definitions below, each the shape of a plausible    *)
(* slip: the runs use them to show that the properties can fail.              *)

\* The count of the old value stays.
PutRecounted(c, key, val) ==
  IF c.items[key] # NoElem
  THEN [MovedToFront(c, c.items[key]) EXCEPT !.entry[c.items[key]].v = val,
                                             !.usedBytes = @ + Size[val]]
  ELSE LET e == CHOOSE x \in Elems : c.entry[x] = NoEntry
       IN [c EXCEPT !.list = <<e>> \o @, !.entry[e] = [k |-> key, v |-> val],
                    !.items[key] = e, !.usedBytes = @ + Size[val]]

\* The ok of the lookup is not checked.
GetFindUnchecked(p, key) ==
  /\ get[p].at = "out"
  /\ get' = [get EXCEPT ![p] = [at |-> "check", key |-> key, elem |-> cache.items[key],
                                late |-> Expired(cache, key)]]
  /\ UNCHANGED <<clock, cache, ticking>>

\* MoveToFront as a removal and a push, which brings a removed element back.
GetTouchPushing(p) ==
  /\ get[p].at = "touch"
  /\ cache' = IF cache.items[get[p].key] # NoElem THEN MovedToFront(cache, get[p].elem) ELSE cache
  /\ get' = [get EXCEPT ![p].at = "read"]
  /\ UNCHANGED <<clock, ticking>>

\* An expiry that has come is not looked at.
GetExpiryIgnored(p) ==
  /\ get[p].at = "check"
  /\ get' = [get EXCEPT ![p].at = "touch"]
  /\ UNCHANGED <<clock, cache, ticking>>

\* The keys that have expired, but for the last used.
CleanupSparesFront ==
  /\ ticking
  /\ LET due   == {cache.items[key] : key \in {k \in Keys : Expired(cache, k)}} \ {NoElem}
         front == {cache.list[i] : i \in DOMAIN cache.list \cap {1}}
     IN cache' = Collected(RemovedAll(cache, due \ front, 1), get)
  /\ UNCHANGED <<clock, get, ticking>>

-----------------------------------------------------------------------------
Tick ==
  /\ clock < MaxClock
  /\ clock' = clock + 1
  /\ UNCHANGED <<cache, get, ticking>>

\* The body of Set and SetWithExpiration, before evict.
Put(c, key, val) ==
  IF c.items[key] # NoElem
  THEN [MovedToFront(c, c.items[key]) EXCEPT
          !.entry[c.items[key]].v = val,
          !.usedBytes = @ + Size[val] - Size[c.entry[c.items[key]].v]]
  ELSE LET e == CHOOSE x \in Elems : c.entry[x] = NoEntry
       IN [c EXCEPT !.list = <<e>> \o @, !.entry[e] = [k |-> key, v |-> val],
                    !.items[key] = e, !.usedBytes = @ + Size[val]]

\* Set leaves the expiry of an existing key as it is.
Set(key, val) ==
  /\ cache' = Collected(Evicted(Put(cache, key, val)), get)
  /\ cache'.drift <= MaxDrift
  /\ UNCHANGED <<clock, get, ticking>>

\* History: a Get that met the expired value may answer the new one.
SetWithExpiration(key, val, duration) ==
  /\ LET timed == [cache EXCEPT !.expires[key] = IF duration > 0 THEN clock + duration ELSE 0]
     IN cache' = Collected(Evicted(Put(timed, key, val)), get)
  /\ cache'.drift <= MaxDrift
  /\ get' = [p \in Getters |-> IF get[p].elem # NoElem /\ get[p].elem = cache.items[key]
                               THEN [get[p] EXCEPT !.late = FALSE] ELSE get[p]]
  /\ UNCHANGED <<clock, ticking>>

DeleteIn(c, key) == IF c.items[key] = NoElem THEN c ELSE RemovedAll(c, {c.items[key]}, 1)

Delete(key) ==
  /\ cache' = Collected(DeleteIn(cache, key), get)
  /\ UNCHANGED <<clock, get, ticking>>

Clear ==
  /\ cache' = Collected([Empty EXCEPT !.entry = cache.entry], get)
  /\ UNCHANGED <<clock, get, ticking>>

\* The cleanup goroutine, under the lock.
Cleanup ==
  /\ ticking
  /\ LET due == {cache.items[key] : key \in {k \in Keys : Expired(cache, k)}} \ {NoElem}
     IN cache' = Collected(RemovedAll(cache, due, 1), get)
  /\ UNCHANGED <<clock, get, ticking>>

Close ==
  /\ ticking
  /\ ticking' = FALSE
  /\ UNCHANGED <<clock, cache, get>>

-----------------------------------------------------------------------------
\* Get finds an element; late (history): it had expired by then.
GetFind(p, key) ==
  /\ get[p].at = "out"
  /\ cache.items[key] # NoElem
  /\ get' = [get EXCEPT ![p] = [at |-> "check", key |-> key, elem |-> cache.items[key],
                                late |-> Expired(cache, key)]]
  /\ UNCHANGED <<clock, cache, ticking>>

\* The expiry of the key, whichever element the key has by now.
GetExpiry(p) ==
  /\ get[p].at = "check"
  /\ get' = [get EXCEPT ![p].at = IF Expired(cache, get[p].key) THEN "drop" ELSE "touch"]
  /\ UNCHANGED <<clock, cache, ticking>>

\* Delete, of whatever the key holds by now, and a miss.
GetDrop(p) ==
  /\ get[p].at = "drop"
  /\ get' = [get EXCEPT ![p] = NoGet]
  /\ cache' = Collected(DeleteIn(cache, get[p].key), get')
  /\ UNCHANGED <<clock, ticking>>

\* MoveToFront ignores an element that is not, or no longer, in the list.
GetTouch(p) ==
  /\ get[p].at = "touch"
  /\ cache' = IF cache.items[get[p].key] # NoElem /\ Contains(cache.list, get[p].elem)
              THEN MovedToFront(cache, get[p].elem) ELSE cache
  /\ get' = [get EXCEPT ![p].at = "read"]
  /\ UNCHANGED <<clock, ticking>>

\* The value is read from the element, under no lock.
GetReturn(p) ==
  /\ get[p].at = "read"
  /\ get' = [get EXCEPT ![p] = NoGet]
  /\ cache' = Collected(cache, get')
  /\ UNCHANGED <<clock, ticking>>

Next ==
  \/ Tick \/ Clear \/ Cleanup \/ Close
  \/ \E key \in Keys :
       \/ Delete(key)
       \/ \E val \in Values : \/ Set(key, val)
                              \/ \E duration \in Durations : SetWithExpiration(key, val, duration)
  \/ \E p \in Getters :
       \/ \E key \in Keys : GetFind(p, key)
       \/ GetExpiry(p) \/ GetDrop(p) \/ GetTouch(p) \/ GetReturn(p)

Spec == Init /\ [][Next]_vars

\* The cleanup goroutine runs as long as the ticker fires.
FairSpec == Spec /\ WF_vars(Cleanup)
-----------------------------------------------------------------------------
\* A Get always holds an element with a value to read, removed or not.
TypeOK ==
  /\ clock \in 1..MaxClock
  /\ cache \in [list : Seq(Elems), items : [Keys -> Elems \cup {NoElem}], expires : [Keys -> Nat],
                usedBytes : Int, drift : Nat,
                entry : [Elems -> [k : Keys, v : Values] \cup {NoEntry}]]
  /\ get \in [Getters -> [at : {"out", "check", "drop", "touch", "read"}, key : Keys \cup {NoKey},
                          elem : Elems \cup {NoElem}, late : BOOLEAN]]
  /\ \A p \in Getters : get[p].at # "out" =>
       get[p].elem \in Elems /\ cache.entry[get[p].elem] # NoEntry
  /\ ticking \in BOOLEAN

(* The list and the map hold the same elements, once each, each under its own *)
(* key, and only a key that is held has an expiry: no Get that still holds an *)
(* element which was removed, or whose key was set again, brings it back, and *)
(* a key set anew does not inherit the expiry of its earlier life             *)
(* (lines 53-77, 101-105, 157-168).                                           *)
ListMatchesItems ==
  /\ \A i, j \in DOMAIN cache.list : cache.list[i] = cache.list[j] => i = j
  /\ ToSet(cache.list) = {cache.items[key] : key \in Keys} \ {NoElem}
  /\ \A key \in Keys :
       /\ cache.items[key] # NoElem => cache.entry[cache.items[key]].k = key
       /\ cache.items[key] = NoElem => cache.expires[key] = 0

(* The count is the bytes held less those that evict subtracted a second time *)
(* (lines 177, 164), and it is what the limit applies to: the cache exceeds   *)
(* MaxBytes by no more than what it has evicted since it was last cleared.    *)
BytesAccounted ==
  /\ cache.usedBytes = Bytes(cache, ToSet(cache.list)) - cache.drift
  /\ MaxBytes > 0 => cache.usedBytes <= MaxBytes

(* A Get that finds an entry already expired answers its value only when the  *)
(* entry was removed before the Get read the expiry, which went with it:      *)
(* while the entry is held, the check of line 93 stands before the answer.    *)
LateAnswerOnlyIfRemoved ==
  \A p \in Getters :
    get[p].at \in {"touch", "read"} /\ get[p].late => ~Contains(cache.list, get[p].elem)

(* An entry that has expired is removed, read or not, as long as the ticker   *)
(* runs, unless the key is given a new expiry (lines 184-208).                *)
ExpiredRemoved ==
  \A key \in Keys, e \in 2..MaxClock-1 :
    (clock > e /\ cache.expires[key] = e) ~> (cache.expires[key] # e \/ ~ticking)
=============================================================================
