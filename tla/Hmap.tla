--------------------------------- MODULE Hmap ---------------------------------
(***************************************************************************)
(* The hash map of libnodegl (libnodegl/hmap.c): buckets of entries, each  *)
(* bucket an array of its own, doubled in number when the map fills up.    *)
(* It holds the nodes of the dictionaries of the scene, the uniforms,      *)
(* attributes and blocks of the programs, and the nodes already written of *)
(* a serialised scene.                                                     *)
(*                                                                         *)
(* A map is used by one thread at a time and every operation is one step;  *)
(* the allocations inside of it may fail.  The array of a bucket is null,  *)
(* allocated, or freed with its pointer still in the bucket.               *)
(***************************************************************************)
EXTENDS Integers, SequencesExt, FiniteSets

CONSTANTS
  Key,            \* the names the clients use
  Hash,           \* the CRC of each of them, a natural number
  InitSize,       \* 1 << HMAP_SIZE_NBIT
  SizeLimit,      \* the number of buckets the map does not go beyond
  EmptiesBuckets  \* whether a client deletes the only entry of a bucket

ASSUME HmapAssumption ==
  /\ Hash \in [Key -> Nat]
  /\ InitSize \in Nat \ {0} /\ SizeLimit \in Nat
  /\ EmptiesBuckets \in BOOLEAN

(* A client passes with a key one of two objects, the one it still owns.   *)
Data == Key \X {0, 1}

VARIABLES
  hm,       \* struct hmap: its buckets and count; Closed when there is none
  held,     \* the objects given to the map and not yet given back to user_free_func
  last_set, \* the last call to ngli_hmap_set on hm: its arguments and its result
  misused   \* a freed array was read, freed or reallocated, or an object released twice

vars == <<hm, held, last_set, misused>>

Closed == [buckets |-> <<>>, count |-> 0]

(***************************************************************************)
(* Buckets, numbered from 0 as in the code; entries from 1.                *)
(***************************************************************************)
NoBucket == [entries |-> <<>>, array |-> "null"]

NewBuckets(n) == [i \in 0 .. n - 1 |-> NoBucket]

Size(h) == Cardinality(DOMAIN h.buckets)

(* hash & mask: the number of buckets is a power of two.                   *)
BucketOf(h, k) == Hash[k] % Size(h)

Entry(k, d, id) == [key |-> k, data |-> d, bucket_id |-> id]

(* What a realloc or a free of the array of b does wrong.                  *)
Touches(b) == b.array = "freed"

(* The realloc of the array and the entry put at its end.                  *)
Appended(h, k, d) ==
  LET id == BucketOf(h, k)
  IN  [h EXCEPT !.buckets[id] = [entries |-> Append(@.entries, Entry(k, d, id)),
                                 array |-> "allocated"],
                !.count = @ + 1]

Found(b, k) == {i \in DOMAIN b.entries : b.entries[i].key = k}

(* ngli_hmap_get: the data of the first entry of that key, a sequence of   *)
(* at most one.                                                            *)
Get(h, k) ==
  LET b == h.buckets[BucketOf(h, k)]
      f == Found(b, k)
  IN  IF f = {} THEN <<>> ELSE <<b.entries[Min(f)].data>>

(***************************************************************************)
(* ngli_hmap_next: a position is a bucket and an index in it, <<>> is the  *)
(* end.  The successor goes by the bucket_id recorded in the entry.        *)
(***************************************************************************)
FirstEntry(h, start) ==
  LET used == {i \in DOMAIN h.buckets : i >= start /\ h.buckets[i].entries # <<>>}
  IN  IF used = {} THEN <<>> ELSE <<Min(used), 1>>

EntryAt(h, pos) == h.buckets[pos[1]].entries[pos[2]]

NextEntry(h, pos) ==
  LET id == EntryAt(h, pos).bucket_id
  IN  IF pos[2] < Len(h.buckets[id].entries) THEN <<id, pos[2] + 1>>
      ELSE FirstEntry(h, id + 1)

(* The entries in the order a loop over ngli_hmap_next meets them.         *)
Walk(h) ==
  LET Positions == UNION {{i} \X DOMAIN h.buckets[i].entries : i \in DOMAIN h.buckets}
      From[pos \in Positions \union {<<>>}] ==
        IF pos = <<>> THEN <<>> ELSE <<EntryAt(h, pos)>> \o From[NextEntry(h, pos)]
  IN  IF h.count = 0 THEN <<>> ELSE From[FirstEntry(h, 0)]

(***************************************************************************)
(* The resize.  Its transfer goes through the old map with Walk and keeps  *)
(* the keys and the data; then the arrays of the old buckets are freed, up *)
(* to the one that brings the old count to zero.                           *)
(***************************************************************************)
IsFull(h) == (h.count * 3) \div 4 >= Size(h)

Transferred(h, e) == Appended(h, e.key, e.data)

Doubled(h) ==
  FoldLeft(Transferred, [buckets |-> NewBuckets(2 * Size(h)), count |-> 0], Walk(h))

(* The buckets a loop frees that stops when it has met every entry.        *)
Visited(h) ==
  IF h.count = 0 THEN {}
  ELSE {i \in DOMAIN h.buckets :
          \E j \in DOMAIN h.buckets : j >= i /\ h.buckets[j].entries # <<>>}

FreesFreed(h) == \E i \in Visited(h) : Touches(h.buckets[i])

(***************************************************************************)
(* Operations                                                              *)
(***************************************************************************)
Init == hm = Closed /\ held = {} /\ last_set = <<>> /\ misused = FALSE

Create ==
  /\ hm = Closed
  /\ hm' = [buckets |-> NewBuckets(InitSize), count |-> 0]
  /\ UNCHANGED <<held, last_set, misused>>

Open == hm # Closed

Fresh(k) == ({k} \X {0, 1}) \ held

(* The call ends: data is <<>> for NULL, and every failure returns -1.     *)
Returns(k, data, ret) == last_set' = [key |-> k, data |-> data, ret |-> ret]

(* ngli_hmap_set with NULL.  The array shrinks, or stays when that fails,  *)
(* which the result does not tell from a key that is not there.            *)
(* Mutant: the entry is dropped without the count.                         *)
Delete_KeepsCount(k) ==
  /\ Open
  /\ LET id == BucketOf(hm, k)
         b  == hm.buckets[id]
     IN  \E i \in Found(b, k) :
           /\ EmptiesBuckets \/ Len(b.entries) > 1
           /\ held' = held \ {b.entries[i].data}
           /\ hm' = [hm EXCEPT !.buckets[id] =
                        [entries |-> RemoveAt(b.entries, i),
                         array |-> IF Len(b.entries) = 1 THEN "freed" ELSE b.array]]
           /\ misused' = (misused \/ Touches(b))
           /\ \E ret \in IF Len(b.entries) = 1 THEN {1} ELSE {0, 1} : Returns(k, <<>>, ret)

Delete(k) ==
  /\ Open
  /\ LET id == BucketOf(hm, k)
         b  == hm.buckets[id]
     IN  \E i \in Found(b, k) :
           /\ EmptiesBuckets \/ Len(b.entries) > 1
           /\ held' = held \ {b.entries[i].data}
           /\ hm' = [hm EXCEPT !.count = @ - 1,
                               !.buckets[id] =
                        [entries |-> RemoveAt(b.entries, i),
                         array |-> IF Len(b.entries) = 1 THEN "freed" ELSE b.array]]
           /\ misused' = (misused \/ Touches(b))
           /\ \E ret \in IF Len(b.entries) = 1 THEN {1} ELSE {0, 1} : Returns(k, <<>>, ret)

Replace(k, d) ==
  /\ Open
  /\ LET id == BucketOf(hm, k)
         b  == hm.buckets[id]
     IN  \E i \in Found(b, k) :
           /\ held' = (held \ {b.entries[i].data}) \union {d}
           /\ hm' = [hm EXCEPT !.buckets[id].entries[i].data = d]
  /\ Returns(k, <<d>>, 0)
  /\ UNCHANGED misused

Absent(k) == Open /\ Get(hm, k) = <<>>

DeleteAbsent(k) ==
  /\ Absent(k)
  /\ Returns(k, <<>>, 0)
  /\ UNCHANGED <<hm, held, misused>>

(* The addition proper, to the map a resize left.                          *)
AddTo(h, k, d) ==
  /\ hm' = Appended(h, k, d)
  /\ held' = held \union {d}
  /\ Returns(k, <<d>>, 0)

Add(k, d) ==
  /\ Absent(k)
  /\ ~IsFull(hm)
  /\ AddTo(hm, k, d)
  /\ misused' = (misused \/ Touches(hm.buckets[BucketOf(hm, k)]))

(* The addition that doubles the map first.                                *)
AddResized(k, d) ==
  /\ Absent(k)
  /\ IsFull(hm) /\ Size(hm) < SizeLimit
  /\ AddTo(Doubled(hm), k, d)
  /\ misused' = (misused \/ FreesFreed(hm))

(* The new buckets cannot be allocated: the map goes on with those it has. *)
AddCrowded(k, d) ==
  /\ Absent(k)
  /\ IsFull(hm) /\ Size(hm) < SizeLimit
  /\ AddTo(hm, k, d)
  /\ misused' = (misused \/ Touches(hm.buckets[BucketOf(hm, k)]))

(* The key or its place cannot be allocated, after a resize or without     *)
(* one; the failed realloc of a freed array is one too many.               *)
AddFails(k, d) ==
  /\ Absent(k)
  /\ \/ /\ ~IsFull(hm)
        /\ hm' = hm
        /\ misused' = (misused \/ Touches(hm.buckets[BucketOf(hm, k)]))
     \/ /\ IsFull(hm) /\ Size(hm) < SizeLimit
        /\ hm' = Doubled(hm)
        /\ misused' = (misused \/ FreesFreed(hm))
  /\ Returns(k, <<d>>, -1)
  /\ UNCHANGED held

(* The transfer lacks memory, and the map is put back, or the map is too   *)
(* large already.                                                          *)
(* Mutant: the map in the making is kept, which lacks the last entry.      *)
ResizeFails_KeepsPartial(k, d) ==
  /\ Absent(k)
  /\ IsFull(hm)
  /\ hm' = FoldLeft(Transferred, [buckets |-> NewBuckets(2 * Size(hm)), count |-> 0], Front(Walk(hm)))
  /\ Returns(k, <<d>>, -1)
  /\ UNCHANGED <<held, misused>>

ResizeFails(k, d) ==
  /\ Absent(k)
  /\ IsFull(hm)
  /\ Returns(k, <<d>>, -1)
  /\ UNCHANGED <<hm, held, misused>>

(* ngli_hmap_freep                                                         *)
Freep ==
  /\ Open
  /\ held' = held \ UNION {{e.data : e \in ToSet(hm.buckets[i].entries)} : i \in Visited(hm)}
  /\ hm' = Closed
  /\ last_set' = <<>>
  /\ misused' = (misused \/ FreesFreed(hm))

Next ==
  \/ Create
  \/ Freep
  \/ \E k \in Key :
       \/ Delete(k)
       \/ DeleteAbsent(k)
       \/ \E d \in Fresh(k) :
            \/ Replace(k, d)
            \/ Add(k, d)
            \/ AddResized(k, d)
            \/ AddCrowded(k, d)
            \/ AddFails(k, d)
            \/ ResizeFails(k, d)

Spec == Init /\ [][Next]_vars

(***************************************************************************)
(* Properties                                                              *)
(***************************************************************************)

(* Whatever the resizes and their failures, the lookups find for each key  *)
(* what the last call on it that did not fail has set, and nothing else: a *)
(* call changes the map of KeyMap at its own key, to its own data, and one *)
(* that fails changes nothing (hmap.c:71-192, 227-238).                    *)
KM == INSTANCE KeyMap WITH
        open <- Open,
        map <- IF Open THEN UNION {{<<k, d>> : d \in ToSet(Get(hm, k))} : k \in Key} ELSE {}

IsAMap == KM!Spec

(* A loop over ngli_hmap_next meets every key a lookup finds, once, and    *)
(* ngli_hmap_count tells how many there are: the dictionaries, the         *)
(* serialiser and the passes go through maps that way.                     *)
WalkMeetsEachKey ==
  Open =>
    LET w == Walk(hm)
    IN  /\ Len(w) = hm.count
        /\ \A k \in Key : Cardinality({i \in DOMAIN w : w[i].key = k}) = Len(Get(hm, k))
        /\ \A i \in DOMAIN w : Get(hm, w[i].key) = <<w[i].data>>

(* An object given to the map is in one of its entries until it is given   *)
(* to user_free_func: none leaks and none is released twice.               *)
HeldIsInMap ==
  /\ Open => held = {e.data : e \in ToSet(Walk(hm))}
  /\ ~Open => held = {}

(* EntriesAreExact: no entry is met twice, missed, leaked or freed twice.  *)
EntriesAreExact == WalkMeetsEachKey /\ HeldIsInMap

(* No array of a bucket is used after it was freed.                        *)
NoFreedArrayUsed == ~misused

=============================================================================
