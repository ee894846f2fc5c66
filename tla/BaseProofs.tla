------------------------------ MODULE BaseProofs ------------------------------
(***************************************************************************)
(* Theorems about what the rest of the library is built on: its hash maps, *)
(* its animations and the dispatch of the calls to the worker thread.      *)
(*                                                                         *)
(* The hash map, for any keys, any hash and any sizes: the walk over the   *)
(* entries and the lookups agree whatever the history of resizes and       *)
(* failures, and the map is the one its clients think of.  Then two calls  *)
(* of a client: those the worker carries out, and ngl_anim_evaluate, which *)
(* the client's own thread does, for any number of calls, every list of    *)
(* key frames and every sequence of times.                                 *)
(***************************************************************************)
EXTENDS Hmap, Animation, WorkerDispatch, Functions, FiniteSetTheorems, SequenceTheorems, TLAPS
INSTANCE DataTheorems WITH Vertex <- {}, CallFrame <- {}

(***************************************************************************)
(* What a map is made of                                                   *)
(***************************************************************************)
(* An entry holds one of the two objects of its key.                       *)
Entries == {e \in [key : Key, data : Data, bucket_id : Nat] : e.data[1] = e.key}

(* No array is freed unless a client empties its bucket.                   *)
Arrays == {"null", "allocated"} \union (IF EmptiesBuckets THEN {"freed"} ELSE {})

Buckets == [entries : Seq(Entries), array : Arrays]

(* An entry is in the bucket of its hash and records which one it is.      *)
IsIn(e, i, n) == e.bucket_id = i /\ Hash[e.key] % n = i

(* The maps of n buckets.                                                  *)
Tables(n) ==
  {h \in [buckets : [0 .. n - 1 -> Buckets], count : Nat] :
     \A i \in 0 .. n - 1 : \A j \in DOMAIN h.buckets[i].entries : IsIn(h.buckets[i].entries[j], i, n)}

(* The positions of the entries of a map.                                  *)
Places(h) == UNION {{i} \X DOMAIN h.buckets[i].entries : i \in DOMAIN h.buckets}

(* One entry for each key, and as many as the map says.                    *)
Sound(h) ==
  /\ IsFiniteSet(Places(h)) /\ h.count = Cardinality(Places(h))
  /\ \A p, q \in Places(h) : EntryAt(h, p).key = EntryAt(h, q).key => p = q

PairOf(h, p) == <<EntryAt(h, p).key, EntryAt(h, p).data>>

Pairs(h) == {PairOf(h, p) : p \in Places(h)}

DataOf(P) == {q[2] : q \in P}

Objects(h) == DataOf(Pairs(h))

Counts == Nat \ {0}

(* A map and the objects its entries hold.                                 *)
Holds(h, objects) == \E n \in Counts : h \in Tables(n) /\ Sound(h) /\ objects = Objects(h)

(* The inductive invariant.                                                *)
Exact ==
  /\ Open => Holds(hm, held)
  /\ ~Open => held = {}

(***************************************************************************)
(* Tables                                                                  *)
(***************************************************************************)
LEMMA PlacesOf ==
  ASSUME NEW n \in Counts, NEW h \in Tables(n)
  PROVE  /\ DOMAIN h.buckets = 0 .. n - 1 /\ Size(h) = n
         /\ \A i \in 0 .. n - 1 : /\ h.buckets[i].entries \in Seq(Entries)
                                  /\ h.buckets[i].array \in Arrays
         /\ \A p : p \in Places(h) <=> \E i \in 0 .. n - 1 :
                                         \E j \in 1 .. Len(h.buckets[i].entries) : p = <<i, j>>
         /\ \A i \in 0 .. n - 1 : \A j \in 1 .. Len(h.buckets[i].entries) :
              /\ <<i, j>> \in Places(h)
              /\ EntryAt(h, <<i, j>>) = h.buckets[i].entries[j]
              /\ EntryAt(h, <<i, j>>) \in Entries /\ IsIn(EntryAt(h, <<i, j>>), i, n)
<1>1. DOMAIN h.buckets = 0 .. n - 1 /\ Size(h) = n
  <2>1. DOMAIN h.buckets = 0 .. n - 1 /\ n \in Nat /\ 0 \in Int /\ n - 1 \in Int /\ ~ (0 > n - 1) /\ n - 1 - 0 + 1 = n
    BY DEF Tables, Counts
  <2> QED
    BY <2>1, FS_Interval DEF Size
<1>2. \A i \in 0 .. n - 1 : h.buckets[i] \in Buckets
  BY DEF Tables
<1>3. \A i \in 0 .. n - 1 : /\ h.buckets[i].entries \in Seq(Entries)
                            /\ h.buckets[i].array \in Arrays
                            /\ DOMAIN h.buckets[i].entries = 1 .. Len(h.buckets[i].entries)
  BY <1>2 DEF Buckets
<1>4. \A p : p \in Places(h) <=> \E i \in 0 .. n - 1 : p \in {i} \X (1 .. Len(h.buckets[i].entries))
  BY <1>1, <1>3 DEF Places
<1>5. \A p : p \in Places(h) <=> \E i \in 0 .. n - 1 :
                                         \E j \in 1 .. Len(h.buckets[i].entries) : p = <<i, j>>
  BY <1>4
<1>6. ASSUME NEW i \in 0 .. n - 1, NEW j \in 1 .. Len(h.buckets[i].entries)
      PROVE  /\ <<i, j>> \in Places(h)
             /\ EntryAt(h, <<i, j>>) = h.buckets[i].entries[j]
             /\ EntryAt(h, <<i, j>>) \in Entries /\ IsIn(EntryAt(h, <<i, j>>), i, n)
  <2>1. h.buckets[i].entries[j] \in Entries /\ IsIn(h.buckets[i].entries[j], i, n)
    BY <1>3 DEF Tables
  <2> QED
    BY <1>5, <2>1 DEF EntryAt
<1> QED
  BY <1>1, <1>3, <1>5, <1>6

LEMMA EntryOf ==
  ASSUME NEW n \in Counts, NEW h \in Tables(n), NEW i \in 0 .. n - 1, NEW j \in 1 .. Len(h.buckets[i].entries)
  PROVE  h.buckets[i].entries[j] \in Entries /\ IsIn(h.buckets[i].entries[j], i, n)
<1>1. h.buckets[i].entries \in Seq(Entries)
  BY PlacesOf
<1>2. j \in DOMAIN h.buckets[i].entries /\ h.buckets[i].entries[j] \in Entries
  BY <1>1
<1> QED
  BY <1>2 DEF Tables

LEMMA PlaceOf ==
  ASSUME NEW n \in Counts, NEW h \in Tables(n), NEW p \in Places(h)
  PROVE  /\ p = <<p[1], p[2]>> /\ p[1] \in 0 .. n - 1 /\ p[2] \in 1 .. Len(h.buckets[p[1]].entries)
         /\ EntryAt(h, p) = h.buckets[p[1]].entries[p[2]]
         /\ EntryAt(h, p) \in Entries /\ IsIn(EntryAt(h, p), p[1], n)
<1>1. PICK i \in 0 .. n - 1 : \E j \in 1 .. Len(h.buckets[i].entries) : p = <<i, j>>
  BY PlacesOf
<1>2. PICK j \in 1 .. Len(h.buckets[i].entries) : p = <<i, j>>
  BY <1>1
<1>3. p[1] = i /\ p[2] = j
  BY <1>2
<1> QED
  BY <1>2, <1>3, PlacesOf

(* The bucket of a key is one of the buckets.                              *)
LEMMA BucketIsOne ==
  ASSUME NEW n \in Counts, NEW h \in Tables(n), NEW k \in Key
  PROVE  BucketOf(h, k) \in 0 .. n - 1 /\ BucketOf(h, k) = Hash[k] % n
<1>1. Size(h) = n /\ n \in Nat /\ n > 0 /\ Hash[k] \in Nat
  BY PlacesOf, HmapAssumption DEF Counts
<1> QED
  BY <1>1 DEF BucketOf

(* What is found in the bucket of a key are the entries of that key.       *)
LEMMA FoundIn ==
  ASSUME NEW n \in Counts, NEW h \in Tables(n), NEW k \in Key,
         NEW j \in Found(h.buckets[BucketOf(h, k)], k)
  PROVE  /\ j \in 1 .. Len(h.buckets[BucketOf(h, k)].entries)
         /\ <<BucketOf(h, k), j>> \in Places(h)
         /\ EntryAt(h, <<BucketOf(h, k), j>>) = h.buckets[BucketOf(h, k)].entries[j]
         /\ EntryAt(h, <<BucketOf(h, k), j>>).key = k
<1>1. BucketOf(h, k) \in 0 .. n - 1
  BY BucketIsOne
<1>2. j \in 1 .. Len(h.buckets[BucketOf(h, k)].entries) /\ h.buckets[BucketOf(h, k)].entries[j].key = k
  BY <1>1, PlacesOf DEF Found
<1> QED
  BY <1>1, <1>2, PlacesOf

(* A lookup finds the entry of its key.                                    *)
LEMMA LookupFinds ==
  ASSUME NEW n \in Counts, NEW h \in Tables(n), Sound(h), NEW p \in Places(h), NEW k \in Key,
         EntryAt(h, p).key = k
  PROVE  /\ p = <<BucketOf(h, k), p[2]>>
         /\ Found(h.buckets[BucketOf(h, k)], k) = {p[2]}
         /\ Get(h, k) = <<EntryAt(h, p).data>>
<1> DEFINE id == BucketOf(h, k)
<1> DEFINE i == p[1]  j == p[2]
<1>1. p = <<i, j>> /\ i \in 0 .. n - 1 /\ j \in 1 .. Len(h.buckets[i].entries)
  BY PlaceOf
<1>2. EntryAt(h, p) = h.buckets[i].entries[j] /\ IsIn(EntryAt(h, p), i, n)
  BY PlaceOf
<1>3. i = id
  BY <1>2, BucketIsOne DEF IsIn
<1> HIDE DEF i, j
<1>5. j \in Found(h.buckets[id], k)
  BY <1>1, <1>2, <1>3, PlacesOf DEF Found
<1>6. ASSUME NEW m \in Found(h.buckets[id], k)
      PROVE  m = j
  <2>1. <<id, m>> \in Places(h) /\ EntryAt(h, <<id, m>>).key = k
    BY <1>6, FoundIn
  <2>2. <<id, m>> = p
    BY <2>1 DEF Sound
  <2> QED
    BY <1>1, <2>2
<1>7. Found(h.buckets[id], k) = {j}
  BY <1>5, <1>6
<1>8. Min({j}) = j
  <2>1. j \in Nat
    BY <1>1, PlacesOf
  <2> QED
    BY <2>1 DEF Min
<1> QED
  BY <1>1, <1>2, <1>3, <1>7, <1>8 DEF Get, i, j

LEMMA LookupMisses ==
  ASSUME NEW n \in Counts, NEW h \in Tables(n), NEW k \in Key,
         \A p \in Places(h) : EntryAt(h, p).key # k
  PROVE  Found(h.buckets[BucketOf(h, k)], k) = {} /\ Get(h, k) = <<>>
<1>1. Found(h.buckets[BucketOf(h, k)], k) = {}
  BY FoundIn
<1> QED
  BY <1>1 DEF Get

(* The pairs of the keys looked up one by one are those of the entries.    *)
PairsFound(h) == UNION {{<<k, d>> : d \in ToSet(Get(h, k))} : k \in Key}

LEMMA LookupsFindAll ==
  ASSUME NEW n \in Counts, NEW h \in Tables(n), Sound(h)
  PROVE  PairsFound(h) = Pairs(h)
<1>1. ASSUME NEW p \in Places(h)
      PROVE  PairOf(h, p) \in PairsFound(h)
  <2> DEFINE k == EntryAt(h, p).key
  <2>1. k \in Key
    BY PlaceOf DEF Entries
  <2>2. Get(h, k) = <<EntryAt(h, p).data>>
    BY <2>1, LookupFinds
  <2>3. EntryAt(h, p).data \in ToSet(Get(h, k))
    BY <2>2 DEF ToSet
  <2> QED
    BY <2>1, <2>3 DEF PairOf, PairsFound
<1>2. ASSUME NEW k \in Key, NEW d \in ToSet(Get(h, k))
      PROVE  <<k, d>> \in Pairs(h)
  <2>1. CASE \A p \in Places(h) : EntryAt(h, p).key # k
    <3>1. Get(h, k) = <<>>
      BY <2>1, LookupMisses
    <3> QED
      BY <3>1 DEF ToSet
  <2>2. CASE \E p \in Places(h) : EntryAt(h, p).key = k
    <3>1. PICK p \in Places(h) : EntryAt(h, p).key = k
      BY <2>2
    <3>2. Get(h, k) = <<EntryAt(h, p).data>>
      BY <3>1, LookupFinds
    <3>3. d = EntryAt(h, p).data
      BY <3>2 DEF ToSet
    <3> QED
      BY <3>1, <3>3 DEF Pairs, PairOf
  <2> QED
    BY <2>1, <2>2
<1> QED
  BY <1>1, <1>2 DEF PairsFound, Pairs

(***************************************************************************)
(* The change of a bucket                                                  *)
(***************************************************************************)
Changed(h, id, b, c) == [buckets |-> [h.buckets EXCEPT ![id] = b], count |-> c]

LEMMA ChangedOf ==
  ASSUME NEW n \in Counts, NEW h \in Tables(n), NEW id \in 0 .. n - 1, NEW b \in Buckets, NEW c \in Nat,
         \A j \in DOMAIN b.entries : IsIn(b.entries[j], id, n)
  PROVE  /\ Changed(h, id, b, c) \in Tables(n)
         /\ \A p \in Places(h) : p[1] # id => /\ p \in Places(Changed(h, id, b, c))
                                              /\ EntryAt(Changed(h, id, b, c), p) = EntryAt(h, p)
         /\ \A j \in 1 .. Len(b.entries) :
              /\ <<id, j>> \in Places(Changed(h, id, b, c))
              /\ EntryAt(Changed(h, id, b, c), <<id, j>>) = b.entries[j]
         /\ \A p \in Places(Changed(h, id, b, c)) :
              \/ p[1] # id /\ p \in Places(h)
              \/ p = <<id, p[2]>> /\ p[2] \in 1 .. Len(b.entries)
<1> DEFINE g == Changed(h, id, b, c)
<1>1. g.buckets = [h.buckets EXCEPT ![id] = b] /\ g.count = c /\ g = [buckets |-> g.buckets, count |-> g.count]
  BY DEF Changed
<1>2. h.buckets \in [0 .. n - 1 -> Buckets]
  BY DEF Tables
<1> HIDE DEF g
<1>3. g.buckets \in [0 .. n - 1 -> Buckets]
  BY <1>1, <1>2
<1>4. g.buckets[id] = b /\ \A i \in 0 .. n - 1 : i # id => g.buckets[i] = h.buckets[i]
  BY <1>1, <1>2
<1>5. g \in Tables(n)
  <2>1. g \in [buckets : [0 .. n - 1 -> Buckets], count : Nat]
    BY <1>1, <1>3
  <2>2. ASSUME NEW i \in 0 .. n - 1, NEW j \in DOMAIN g.buckets[i].entries
        PROVE  IsIn(g.buckets[i].entries[j], i, n)
    BY <1>4, <2>2 DEF Tables
  <2> QED
    BY <2>1, <2>2 DEF Tables
<1>6. ASSUME NEW p \in Places(h), p[1] # id
      PROVE  p \in Places(g) /\ EntryAt(g, p) = EntryAt(h, p)
  <2>1. p = <<p[1], p[2]>> /\ p[1] \in 0 .. n - 1 /\ p[2] \in 1 .. Len(g.buckets[p[1]].entries)
    BY <1>4, <1>6, PlaceOf
  <2>2. p \in Places(g)
    BY <1>5, <2>1, PlacesOf
  <2> QED
    BY <1>4, <1>6, <2>1, <2>2 DEF EntryAt
<1>7. ASSUME NEW j \in 1 .. Len(b.entries)
      PROVE  <<id, j>> \in Places(g) /\ EntryAt(g, <<id, j>>) = b.entries[j]
  BY <1>4, <1>5, PlacesOf
<1>8. ASSUME NEW p \in Places(g)
      PROVE  \/ p[1] # id /\ p \in Places(h)
             \/ p = <<id, p[2]>> /\ p[2] \in 1 .. Len(b.entries)
  <2>1. p = <<p[1], p[2]>> /\ p[1] \in 0 .. n - 1 /\ p[2] \in 1 .. Len(g.buckets[p[1]].entries)
    BY <1>5, PlaceOf
  <2>2. CASE p[1] = id
    BY <1>4, <2>1, <2>2
  <2>3. CASE p[1] # id
    <3>1. p[2] \in 1 .. Len(h.buckets[p[1]].entries)
      BY <1>4, <2>1, <2>3
    <3> QED
      BY <2>1, <2>3, <3>1, PlacesOf
  <2> QED
    BY <2>2, <2>3
<1> QED
  BY <1>5, <1>6, <1>7, <1>8 DEF g

LEMMA ObjectsOf ==
  ASSUME NEW n \in Counts, NEW h \in Tables(n)
  PROVE  \A q \in Pairs(h) : q[1] \in Key /\ q[2] \in Data /\ q[2][1] = q[1] /\ q = <<q[1], q[2]>>
  BY PlaceOf DEF Pairs, PairOf, Entries

(* The entry put at the end of its bucket is the one that is added.        *)
LEMMA AppendedIs ==
  ASSUME NEW n \in Counts, NEW h \in Tables(n), NEW k \in Key, NEW d \in Data, d[1] = k
  PROVE  /\ Appended(h, k, d) \in Tables(n) /\ Appended(h, k, d).count = h.count + 1
         /\ \E new : /\ new \notin Places(h) /\ Places(Appended(h, k, d)) = Places(h) \union {new}
                      /\ PairOf(Appended(h, k, d), new) = <<k, d>>
                      /\ EntryAt(Appended(h, k, d), new).key = k
         /\ \A p \in Places(h) : EntryAt(Appended(h, k, d), p) = EntryAt(h, p)
<1> DEFINE id == BucketOf(h, k)
           e == Entry(k, d, id)
           old == h.buckets[id].entries
           b == [entries |-> Append(old, e), array |-> "allocated"]
           new == <<id, Len(old) + 1>>
           g == Appended(h, k, d)
<1>1. id \in 0 .. n - 1 /\ id = Hash[k] % n
  BY BucketIsOne
<1>2. old \in Seq(Entries) /\ h.count \in Nat /\ id \in Nat
  BY <1>1, PlacesOf DEF Tables
<1>3. e \in Entries /\ e.key = k /\ e.data = d /\ IsIn(e, id, n)
  BY <1>1, <1>2 DEF Entries, Entry, IsIn
<1> HIDE DEF e
<1>4. g = Changed(h, id, b, h.count + 1)
  <2>1. h = [buckets |-> h.buckets, count |-> h.count]
    BY DEF Tables
  <2>2. g = [h EXCEPT !.buckets = [h.buckets EXCEPT ![id] = b], !.count = h.count + 1]
    BY DEF Appended, e
  <2> HIDE DEF b, id, g
  <2> QED
    BY <2>1, <2>2 DEF Changed
<1> HIDE DEF id
<1>5. b \in Buckets /\ \A j \in DOMAIN b.entries : IsIn(b.entries[j], id, n)
  <2>1. Append(old, e) \in Seq(Entries)
    BY <1>2, <1>3
  <2>2. \A j \in 1 .. Len(old) : IsIn(old[j], id, n)
    BY <1>1, EntryOf
  <2> HIDE DEF old
  <2>3. ASSUME NEW j \in DOMAIN Append(old, e)
        PROVE  IsIn(Append(old, e)[j], id, n)
    BY <1>2, <1>3, <2>2
  <2> QED
    BY <2>1, <2>3 DEF Buckets, Arrays
<1> HIDE DEF old
<1>6. /\ Len(b.entries) = Len(old) + 1 /\ b.entries[Len(old) + 1] = e /\ Len(old) \in Nat
      /\ \A j \in 1 .. Len(old) : j \in 1 .. Len(b.entries) /\ b.entries[j] = old[j]
      /\ \A j \in 1 .. Len(b.entries) : j \in 1 .. Len(old) \/ j = Len(old) + 1
  BY <1>2
<1> HIDE DEF b, g
<1>7. g \in Tables(n) /\ g.count = h.count + 1
  <2>1. h.count + 1 \in Nat
    BY <1>2
  <2>2. Changed(h, id, b, h.count + 1) \in Tables(n)
    BY <1>1, <1>5, <2>1, ChangedOf
  <2> QED
    BY <1>4, <2>2 DEF Changed
<1>8. ASSUME NEW p \in Places(h)
      PROVE  p \in Places(g) /\ EntryAt(g, p) = EntryAt(h, p) /\ p # new
  <2>1. p = <<p[1], p[2]>> /\ p[2] \in 1 .. Len(h.buckets[p[1]].entries) /\ EntryAt(h, p) = h.buckets[p[1]].entries[p[2]]
    BY PlaceOf
  <2>2. CASE p[1] # id
    BY <1>1, <1>2, <1>4, <1>5, <2>2, ChangedOf
  <2>3. CASE p[1] = id
    <3>1. p = <<id, p[2]>> /\ p[2] \in 1 .. Len(old) /\ EntryAt(h, p) = old[p[2]]
      BY <2>1, <2>3 DEF old
    <3>2. p[2] \in 1 .. Len(b.entries) /\ b.entries[p[2]] = old[p[2]] /\ p[2] # Len(old) + 1
      BY <1>6, <3>1
    <3>3. <<id, p[2]>> \in Places(g) /\ EntryAt(g, <<id, p[2]>>) = b.entries[p[2]]
      BY <1>1, <1>2, <1>4, <1>5, <3>2, ChangedOf, SMTT(30)
    <3> QED
      BY <3>1, <3>2, <3>3
  <2> QED
    BY <2>2, <2>3
<1>9. new \in Places(g) /\ EntryAt(g, new) = e
  <2>1. Len(old) + 1 \in 1 .. Len(b.entries)
    BY <1>6
  <2> QED
    BY <1>1, <1>2, <1>4, <1>5, <1>6, <2>1, ChangedOf
<1>10. ASSUME NEW p \in Places(g)
       PROVE  p \in Places(h) \/ p = new
  <2>1. \/ p[1] # id /\ p \in Places(h)
        \/ p = <<id, p[2]>> /\ p[2] \in 1 .. Len(b.entries)
    BY <1>1, <1>2, <1>4, <1>5, ChangedOf
  <2>2. CASE p = <<id, p[2]>> /\ p[2] \in 1 .. Len(old)
    BY <1>1, <2>2, PlacesOf DEF old
  <2> QED
    BY <1>6, <2>1, <2>2
<1>11. Places(g) = Places(h) \union {new} /\ new \notin Places(h)
  BY <1>8, <1>9, <1>10
<1> HIDE DEF new
<1>12. PairOf(g, new) = <<k, d>> /\ EntryAt(g, new).key = k
  BY <1>3, <1>9 DEF PairOf
<1> QED
  BY <1>7, <1>8, <1>11, <1>12 DEF g

(* Addition of a key that is not there: one more pair.                     *)
LEMMA AppendedOf ==
  ASSUME NEW n \in Counts, NEW h \in Tables(n), Sound(h), NEW k \in Key, NEW d \in Data, d[1] = k,
         \A p \in Places(h) : EntryAt(h, p).key # k
  PROVE  /\ Appended(h, k, d) \in Tables(n) /\ Sound(Appended(h, k, d))
         /\ Pairs(Appended(h, k, d)) = Pairs(h) \union {<<k, d>>}
         /\ Appended(h, k, d).count = h.count + 1
<1> DEFINE g == Appended(h, k, d)
<1>1. g \in Tables(n) /\ g.count = h.count + 1
  BY AppendedIs
<1>2. PICK new : /\ new \notin Places(h) /\ Places(g) = Places(h) \union {new}
                 /\ PairOf(g, new) = <<k, d>> /\ EntryAt(g, new).key = k
  BY AppendedIs
<1>3. \A p \in Places(h) : EntryAt(g, p) = EntryAt(h, p)
  BY AppendedIs
<1> HIDE DEF g
<1>4. IsFiniteSet(Places(g)) /\ g.count = Cardinality(Places(g))
  BY <1>1, <1>2, FS_AddElement DEF Sound
<1>5. Sound(g)
  <2>1. ASSUME NEW p \in Places(g), NEW q \in Places(g), EntryAt(g, p).key = EntryAt(g, q).key
        PROVE  p = q
    BY <1>2, <1>3, <2>1 DEF Sound
  <2> QED
    BY <1>4, <2>1 DEF Sound
<1>6. Pairs(g) = Pairs(h) \union {<<k, d>>}
  <2>1. \A p \in Places(h) : PairOf(g, p) = PairOf(h, p)
    BY <1>3 DEF PairOf
  <2> QED
    BY <1>2, <2>1 DEF Pairs
<1> QED
  BY <1>1, <1>5, <1>6 DEF g

(* Replacement of the object of a key: one pair for another.               *)
Replaced(h, id, i, d) == [h EXCEPT !.buckets[id].entries[i].data = d]

LEMMA ReplacedOf ==
  ASSUME NEW n \in Counts, NEW h \in Tables(n), Sound(h), NEW k \in Key, NEW d \in Data, d[1] = k,
         NEW i \in Found(h.buckets[BucketOf(h, k)], k)
  PROVE  /\ Replaced(h, BucketOf(h, k), i, d) \in Tables(n) /\ Sound(Replaced(h, BucketOf(h, k), i, d))
         /\ <<k, h.buckets[BucketOf(h, k)].entries[i].data>> \in Pairs(h)
         /\ Pairs(Replaced(h, BucketOf(h, k), i, d)) =
              (Pairs(h) \ {<<k, h.buckets[BucketOf(h, k)].entries[i].data>>}) \union {<<k, d>>}
<1> DEFINE id == BucketOf(h, k)
           old == h.buckets[id].entries
           e == [old[i] EXCEPT !.data = d]
           b == [entries |-> [old EXCEPT ![i] = e], array |-> h.buckets[id].array]
           g == Replaced(h, id, i, d)
           place == <<id, i>>
<1>1. id \in 0 .. n - 1 /\ h.count \in Nat
  BY BucketIsOne DEF Tables
<1>2. old \in Seq(Entries) /\ h.buckets[id].array \in Arrays
  BY <1>1, PlacesOf
<1>3. i \in 1 .. Len(old) /\ place \in Places(h) /\ EntryAt(h, place) = old[i] /\ old[i].key = k
  BY FoundIn
<1>4. IsIn(old[i], id, n) /\ old[i] \in Entries
  BY <1>1, <1>3, EntryOf
<1>5. e \in Entries /\ e.key = k /\ e.data = d /\ IsIn(e, id, n)
  BY <1>3, <1>4 DEF Entries, IsIn
<1>6. h = [buckets |-> h.buckets, count |-> h.count]
  BY DEF Tables
<1>7. g = Changed(h, id, b, h.count)
  <2>1. h.buckets[id] = [entries |-> old, array |-> h.buckets[id].array]
    <3>1. h.buckets[id] \in Buckets
      BY <1>1 DEF Tables
    <3> QED
      BY <3>1 DEF Buckets
  <2>2. g = [h EXCEPT !.buckets = [h.buckets EXCEPT ![id] = [h.buckets[id] EXCEPT !.entries = [old EXCEPT ![i] = e]]]]
    BY DEF Replaced
  <2>3. [h.buckets[id] EXCEPT !.entries = [old EXCEPT ![i] = e]] = b
    <3> HIDE DEF id, old, e
    <3> QED
      BY <2>1
  <2>4. g = [h EXCEPT !.buckets = [h.buckets EXCEPT ![id] = b]]
    BY <2>2, <2>3, Zenon
  <2> HIDE DEF b, id, g
  <2> QED
    BY <1>6, <2>4 DEF Changed
<1> HIDE DEF e
<1>8. b \in Buckets /\ \A j \in DOMAIN b.entries : IsIn(b.entries[j], id, n)
  <2>1. \A j \in 1 .. Len(old) : IsIn(old[j], id, n)
    BY <1>1, EntryOf
  <2> HIDE DEF old, id
  <2>2. [old EXCEPT ![i] = e] \in Seq(Entries)
    BY <1>2, <1>3, <1>5
  <2>3. ASSUME NEW j \in DOMAIN [old EXCEPT ![i] = e]
        PROVE  IsIn([old EXCEPT ![i] = e][j], id, n)
    BY <1>2, <1>3, <1>5, <2>1
  <2> QED
    BY <1>2, <2>2, <2>3 DEF Buckets
<1> HIDE DEF old, id
<1>9. /\ Len(b.entries) = Len(old) /\ b.entries[i] = e
      /\ \A j \in 1 .. Len(old) : j # i => b.entries[j] = old[j]
  BY <1>2, <1>3
<1> HIDE DEF b, g, place
<1>10. g \in Tables(n) /\ g.count = h.count
  <2>1. Changed(h, id, b, h.count) \in Tables(n)
    BY <1>1, <1>8, ChangedOf
  <2> QED
    BY <1>7, <2>1 DEF Changed
<1>11. ASSUME NEW p \in Places(h)
       PROVE  p \in Places(g) /\ (p # place => EntryAt(g, p) = EntryAt(h, p)) /\ (p = place => EntryAt(g, p) = e)
  <2>1. p = <<p[1], p[2]>> /\ p[2] \in 1 .. Len(h.buckets[p[1]].entries) /\ EntryAt(h, p) = h.buckets[p[1]].entries[p[2]]
    BY PlaceOf
  <2>2. CASE p[1] # id
    <3>1. p # place
      BY <2>2 DEF place
    <3> QED
      BY <1>1, <1>7, <1>8, <2>2, <3>1, ChangedOf
  <2>3. CASE p[1] = id
    <3>1. p = <<id, p[2]>> /\ p[2] \in 1 .. Len(old) /\ EntryAt(h, p) = old[p[2]]
      BY <2>1, <2>3 DEF old
    <3>2. <<id, p[2]>> \in Places(g) /\ EntryAt(g, <<id, p[2]>>) = b.entries[p[2]]
      BY <1>1, <1>7, <1>8, <1>9, <3>1, ChangedOf
    <3>3. p = place <=> p[2] = i
      BY <3>1 DEF place
    <3> QED
      BY <1>9, <3>1, <3>2, <3>3
  <2> QED
    BY <2>2, <2>3
<1>12. ASSUME NEW p \in Places(g)
       PROVE  p \in Places(h)
  <2>1. \/ p[1] # id /\ p \in Places(h)
        \/ p = <<id, p[2]>> /\ p[2] \in 1 .. Len(b.entries)
    BY <1>1, <1>7, <1>8, ChangedOf
  <2>2. CASE p = <<id, p[2]>> /\ p[2] \in 1 .. Len(old)
    BY <1>1, <2>2, PlacesOf DEF old
  <2> QED
    BY <1>9, <2>1, <2>2
<1>13. Places(g) = Places(h)
  BY <1>11, <1>12
<1>14. \A p \in Places(h) : EntryAt(g, p).key = EntryAt(h, p).key
  BY <1>3, <1>5, <1>11
<1>15. Sound(g)
  BY <1>10, <1>13, <1>14 DEF Sound
<1>16. PairOf(h, place) = <<k, old[i].data>> /\ PairOf(g, place) = <<k, d>>
  BY <1>3, <1>5, <1>11 DEF PairOf
<1>17. \A p \in Places(h) : p # place => PairOf(g, p) = PairOf(h, p) /\ PairOf(h, p) # <<k, old[i].data>>
  <2>1. \A p \in Places(h) : p # place => EntryAt(h, p).key # k
    BY <1>3 DEF Sound
  <2> QED
    BY <1>11, <2>1 DEF PairOf
<1>18. Pairs(g) = (Pairs(h) \ {<<k, old[i].data>>}) \union {<<k, d>>} /\ <<k, old[i].data>> \in Pairs(h)
  BY <1>3, <1>13, <1>16, <1>17 DEF Pairs
<1> QED
  BY <1>10, <1>15, <1>18 DEF g, id, old

LEMMA RemoveAtOf ==
  ASSUME NEW T, NEW s \in Seq(T), NEW i \in 1 .. Len(s)
  PROVE  /\ RemoveAt(s, i) \in Seq(T) /\ Len(RemoveAt(s, i)) = Len(s) - 1
         /\ \A j \in 1 .. Len(s) - 1 : RemoveAt(s, i)[j] = IF j < i THEN s[j] ELSE s[j + 1]
<1> DEFINE a == SubSeq(s, 1, i - 1)
           b == SubSeq(s, i + 1, Len(s))
<1>1. Len(s) \in Nat /\ i \in 1 .. Len(s)
  OBVIOUS
<1>2. a \in Seq(T) /\ Len(a) = i - 1 /\ \A j \in 1 .. i - 1 : a[j] = s[j]
  BY <1>1
<1>3. b \in Seq(T) /\ Len(b) = Len(s) - i /\ \A j \in 1 .. Len(s) - i : b[j] = s[i + j]
  BY <1>1
<1>4. RemoveAt(s, i) = a \o b
  BY DEF RemoveAt
<1> HIDE DEF a, b
<1>5. a \o b \in Seq(T) /\ Len(a \o b) = Len(s) - 1
  <2>1. a \o b \in Seq(T) /\ Len(a \o b) = Len(a) + Len(b)
    <3>1. a \in Seq(T) /\ b \in Seq(T)
      BY <1>2, <1>3
    <3> QED
      BY <3>1
  <2>2. Len(a) = i - 1 /\ Len(b) = Len(s) - i /\ i \in Int
    BY <1>2, <1>3
  <2> HIDE DEF RemoveAt
  <2> QED
    BY <1>1, <2>1, <2>2
<1>6. ASSUME NEW j \in 1 .. Len(s) - 1
      PROVE  (a \o b)[j] = IF j < i THEN s[j] ELSE s[j + 1]
  <2>1. CASE j < i
    BY <1>1, <1>2, <1>3, <2>1
  <2>2. CASE ~ (j < i)
    <3>1. j - (i - 1) \in 1 .. Len(s) - i /\ i + (j - (i - 1)) = j + 1
      BY <1>1, <2>2
    <3>2. (a \o b)[j] = b[j - (i - 1)]
      BY <1>1, <1>2, <1>3, <2>2
    <3> QED
      BY <1>3, <2>2, <3>1, <3>2
  <2> QED
    BY <2>1, <2>2
<1> QED
  BY <1>4, <1>5, <1>6

(* Deletion of a key: one pair less.                                       *)
Deleted(h, id, i, array) ==
  [h EXCEPT !.count = @ - 1,
            !.buckets[id] = [entries |-> RemoveAt(h.buckets[id].entries, i), array |-> array]]

LEMMA DeletedOf ==
  ASSUME NEW n \in Counts, NEW h \in Tables(n), Sound(h), NEW k \in Key, NEW array \in Arrays,
         NEW i \in Found(h.buckets[BucketOf(h, k)], k)
  PROVE  /\ Deleted(h, BucketOf(h, k), i, array) \in Tables(n) /\ Sound(Deleted(h, BucketOf(h, k), i, array))
         /\ <<k, h.buckets[BucketOf(h, k)].entries[i].data>> \in Pairs(h)
         /\ Pairs(Deleted(h, BucketOf(h, k), i, array)) =
              Pairs(h) \ {<<k, h.buckets[BucketOf(h, k)].entries[i].data>>}
<1> DEFINE id == BucketOf(h, k)
           old == h.buckets[id].entries
           b == [entries |-> RemoveAt(old, i), array |-> array]
           g == Deleted(h, id, i, array)
           place == <<id, i>>
           last == <<id, Len(old)>>
           up == [p \in Places(g) |-> IF p[1] = id /\ p[2] >= i THEN <<id, p[2] + 1>> ELSE p]
<1>1. id \in 0 .. n - 1 /\ h.count \in Nat
  BY BucketIsOne DEF Tables
<1>2. old \in Seq(Entries)
  BY <1>1, PlacesOf
<1>3. i \in 1 .. Len(old) /\ place \in Places(h) /\ EntryAt(h, place) = old[i] /\ old[i].key = k
  BY FoundIn
<1>4. g = Changed(h, id, b, h.count - 1)
  <2>1. h = [buckets |-> h.buckets, count |-> h.count]
    BY DEF Tables
  <2>2. g = [h EXCEPT !.count = h.count - 1, !.buckets = [h.buckets EXCEPT ![id] = b]]
    BY DEF Deleted
  <2> HIDE DEF b, id, g
  <2> QED
    BY <2>1, <2>2 DEF Changed
<1>5. h.count - 1 \in Nat /\ IsFiniteSet(Places(h)) /\ h.count = Cardinality(Places(h))
  <2>1. h.count # 0 /\ IsFiniteSet(Places(h)) /\ h.count = Cardinality(Places(h))
    BY <1>3, FS_EmptySet DEF Sound
  <2> QED
    BY <1>1, <2>1
<1>6. \A j \in 1 .. Len(old) : IsIn(old[j], id, n)
  BY <1>1, EntryOf
<1> HIDE DEF old, id
<1>7. /\ RemoveAt(old, i) \in Seq(Entries) /\ Len(b.entries) = Len(old) - 1 /\ Len(old) \in Nat \ {0}
      /\ \A j \in 1 .. Len(old) - 1 : b.entries[j] = IF j < i THEN old[j] ELSE old[j + 1]
  <2>1. Len(old) \in Nat \ {0}
    BY <1>2, <1>3
  <2>2. RemoveAt(old, i) \in Seq(Entries) /\ Len(RemoveAt(old, i)) = Len(old) - 1
        /\ \A j \in 1 .. Len(old) - 1 : RemoveAt(old, i)[j] = IF j < i THEN old[j] ELSE old[j + 1]
    BY <1>2, <1>3, RemoveAtOf
  <2> QED
    BY <2>1, <2>2
<1>8. b \in Buckets /\ \A j \in DOMAIN b.entries : IsIn(b.entries[j], id, n)
  <2>1. b \in Buckets
    BY <1>7 DEF Buckets
  <2>2. ASSUME NEW j \in DOMAIN b.entries
        PROVE  IsIn(b.entries[j], id, n)
    <3>1. j \in 1 .. Len(old) - 1
      BY <1>7, <2>2
    <3>2. b.entries[j] = old[j] \/ b.entries[j] = old[j + 1]
      BY <1>7, <3>1
    <3> QED
      BY <1>6, <1>7, <3>1, <3>2
  <2> QED
    BY <2>1, <2>2
<1> HIDE DEF b, g
<1>9. g \in Tables(n) /\ g.count = h.count - 1
  <2>1. Changed(h, id, b, h.count - 1) \in Tables(n)
    BY <1>1, <1>5, <1>8, ChangedOf
  <2> QED
    BY <1>4, <2>1 DEF Changed
<1>10. \A p \in Places(h) : p[1] # id => p \in Places(g) /\ EntryAt(g, p) = EntryAt(h, p)
  BY <1>1, <1>4, <1>5, <1>8, ChangedOf
<1>11. \A j \in 1 .. Len(old) - 1 :
         <<id, j>> \in Places(g) /\ EntryAt(g, <<id, j>>) = IF j < i THEN old[j] ELSE old[j + 1]
  <2>1. \A j \in 1 .. Len(b.entries) : <<id, j>> \in Places(g) /\ EntryAt(g, <<id, j>>) = b.entries[j]
    BY <1>1, <1>4, <1>5, <1>8, ChangedOf
  <2> QED
    BY <1>7, <2>1
<1>12. \A p \in Places(g) : \/ p[1] # id /\ p \in Places(h)
                            \/ p = <<id, p[2]>> /\ p[2] \in 1 .. Len(old) - 1
  BY <1>1, <1>4, <1>5, <1>7, <1>8, ChangedOf
<1>13. \A j \in 1 .. Len(old) : <<id, j>> \in Places(h) /\ EntryAt(h, <<id, j>>) = old[j]
  BY <1>1, PlacesOf DEF old
<1>14. \A p \in Places(h) : p[1] = id => p = <<id, p[2]>> /\ p[2] \in 1 .. Len(old)
  BY PlaceOf DEF old
<1> HIDE DEF place, last
<1>15. Places(g) = Places(h) \ {last} /\ last \in Places(h)
  <2>1. last \in Places(h) /\ last \notin Places(g)
    BY <1>7, <1>12, <1>13 DEF last
  <2>2. ASSUME NEW p \in Places(h), p # last
        PROVE  p \in Places(g)
    <3>1. CASE p[1] = id
      <4>1. p = <<id, p[2]>> /\ p[2] \in 1 .. Len(old) - 1
        BY <1>7, <1>14, <2>2, <3>1 DEF last
      <4> QED
        BY <1>11, <4>1
    <3> QED
      BY <1>10, <3>1
  <2>3. ASSUME NEW p \in Places(g)
        PROVE  p \in Places(h)
    BY <1>7, <1>12, <1>13
  <2> QED
    BY <2>1, <2>2, <2>3
<1>16. IsFiniteSet(Places(g)) /\ g.count = Cardinality(Places(g))
  BY <1>5, <1>9, <1>15, FS_RemoveElement
<1>17. ASSUME NEW p \in Places(g)
       PROVE  /\ up[p] \in Places(h) /\ up[p] # place /\ EntryAt(g, p) = EntryAt(h, up[p])
              /\ up[p] = IF p[1] = id /\ p[2] >= i THEN <<id, p[2] + 1>> ELSE p
  <2>1. CASE p[1] # id
    BY <1>10, <1>12, <2>1 DEF place
  <2>2. CASE p[1] = id
    <3>1. p = <<id, p[2]>> /\ p[2] \in 1 .. Len(old) - 1 /\ p[2] \in Nat /\ i \in Nat
      BY <1>3, <1>7, <1>12, <2>2
    <3>2. EntryAt(g, p) = IF p[2] < i THEN old[p[2]] ELSE old[p[2] + 1]
      BY <1>11, <3>1
    <3>3. CASE p[2] < i
      <4>1. up[p] = p /\ p # place /\ p[2] \in 1 .. Len(old)
        BY <1>7, <3>1, <3>3 DEF place
      <4> QED
        BY <1>13, <3>1, <3>2, <3>3, <4>1
    <3>4. CASE p[2] >= i
      <4>1. up[p] = <<id, p[2] + 1>> /\ <<id, p[2] + 1>> # place /\ p[2] + 1 \in 1 .. Len(old) /\ ~ (p[2] < i)
        BY <1>7, <2>2, <3>1, <3>4 DEF place
      <4> QED
        BY <1>13, <2>2, <3>2, <3>4, <4>1
    <3> QED
      BY <3>1, <3>3, <3>4
  <2> QED
    BY <2>1, <2>2
<1>18. ASSUME NEW q \in Places(h), q # place
       PROVE  \E p \in Places(g) : up[p] = q
  <2>1. CASE q[1] = id /\ q[2] > i
    <3> DEFINE p == <<id, q[2] - 1>>
    <3>1. q = <<id, q[2]>> /\ q[2] \in 1 .. Len(old) /\ q[2] - 1 \in 1 .. Len(old) - 1 /\ q[2] - 1 >= i
      BY <1>3, <1>7, <1>14, <2>1
    <3>2. p \in Places(g)
      BY <1>11, <3>1
    <3>3. up[p] = <<id, q[2] - 1 + 1>> /\ q[2] - 1 + 1 = q[2]
      BY <3>1, <3>2
    <3> QED
      BY <3>1, <3>2, <3>3
  <2>2. CASE ~ (q[1] = id /\ q[2] > i)
    <3>1. q[1] = id => q = <<id, q[2]>> /\ q[2] \in Nat /\ i \in Nat /\ q[2] < i /\ q[2] \in 1 .. Len(old) - 1
      BY <1>3, <1>7, <1>14, <1>18, <2>2 DEF place
    <3>2. q \in Places(g)
      BY <1>10, <1>11, <3>1
    <3>3. ~ (q[1] = id /\ q[2] >= i)
      BY <3>1
    <3>4. up[q] = q
      BY <3>2, <3>3
    <3> QED
      BY <3>2, <3>4
  <2> QED
    BY <2>1, <2>2
<1>19. ASSUME NEW p \in Places(g), NEW q \in Places(g), up[p] = up[q]
       PROVE  p = q
  <2>1. \A r \in Places(g) : r[1] = id => r = <<id, r[2]>> /\ r[2] \in Nat /\ i \in Nat
    BY <1>3, <1>7, <1>12
  <2>2. /\ up[p] = IF p[1] = id /\ p[2] >= i THEN <<id, p[2] + 1>> ELSE p
        /\ up[q] = IF q[1] = id /\ q[2] >= i THEN <<id, q[2] + 1>> ELSE q
    BY <1>17
  <2>3. i \in Nat
    BY <1>3
  <2> HIDE DEF up
  <2>4. CASE p[1] = id /\ p[2] >= i /\ q[1] = id /\ q[2] >= i
    <3>1. <<id, p[2] + 1>> = <<id, q[2] + 1>>
      BY <1>19, <2>2, <2>4
    <3>2. p[2] + 1 = q[2] + 1
      BY <3>1
    <3>3. p = <<id, p[2]>> /\ q = <<id, q[2]>> /\ p[2] \in Nat /\ q[2] \in Nat
      BY <2>1, <2>4
    <3>4. p[2] = q[2]
      BY <3>2, <3>3
    <3> QED
      BY <3>3, <3>4
  <2>5. CASE p[1] = id /\ p[2] >= i /\ ~ (q[1] = id /\ q[2] >= i)
    <3>1. q = <<id, p[2] + 1>> /\ p[2] \in Nat
      BY <1>19, <2>1, <2>2, <2>5
    <3> QED
      BY <2>3, <2>5, <3>1
  <2>6. CASE ~ (p[1] = id /\ p[2] >= i) /\ q[1] = id /\ q[2] >= i
    <3>1. p = <<id, q[2] + 1>> /\ q[2] \in Nat
      BY <1>19, <2>1, <2>2, <2>6
    <3> QED
      BY <2>3, <2>6, <3>1
  <2>7. CASE ~ (p[1] = id /\ p[2] >= i) /\ ~ (q[1] = id /\ q[2] >= i)
    BY <1>19, <2>2, <2>7
  <2> QED
    BY <2>4, <2>5, <2>6, <2>7
<1> HIDE DEF up
<1>20. Sound(g)
  <2>1. ASSUME NEW p \in Places(g), NEW q \in Places(g), EntryAt(g, p).key = EntryAt(g, q).key
        PROVE  p = q
    <3>1. /\ up[p] \in Places(h) /\ EntryAt(g, p) = EntryAt(h, up[p])
          /\ up[q] \in Places(h) /\ EntryAt(g, q) = EntryAt(h, up[q])
      BY <1>17
    <3>2. up[p] = up[q]
      BY <2>1, <3>1 DEF Sound
    <3> QED
      BY <1>19, <3>2
  <2> QED
    BY <1>16, <2>1 DEF Sound
<1>21. PairOf(h, place) = <<k, old[i].data>>
  BY <1>3 DEF PairOf, place
<1>22. \A q \in Places(h) : q # place => PairOf(h, q) # <<k, old[i].data>>
  <2>1. \A q \in Places(h) : q # place => EntryAt(h, q).key # k
    BY <1>3 DEF Sound, place
  <2> QED
    BY <2>1 DEF PairOf
<1>23. \A p \in Places(g) : PairOf(g, p) = PairOf(h, up[p])
  BY <1>17 DEF PairOf
<1>24. Pairs(g) = Pairs(h) \ {<<k, old[i].data>>} /\ <<k, old[i].data>> \in Pairs(h)
  <2>1. place \in Places(h)
    BY <1>3 DEF place
  <2>2. <<k, old[i].data>> \in Pairs(h)
    BY <1>21, <2>1 DEF Pairs
  <2>3. ASSUME NEW p \in Places(g)
        PROVE  PairOf(g, p) \in Pairs(h) \ {<<k, old[i].data>>}
    <3>1. up[p] \in Places(h) /\ up[p] # place
      BY <1>17
    <3> QED
      BY <1>22, <1>23, <3>1 DEF Pairs
  <2>4. ASSUME NEW q \in Places(h), PairOf(h, q) # <<k, old[i].data>>
        PROVE  PairOf(h, q) \in Pairs(g)
    <3>1. PICK p \in Places(g) : up[p] = q
      BY <1>18, <1>21, <2>4
    <3> QED
      BY <1>23, <3>1 DEF Pairs
  <2> QED
    BY <2>2, <2>3, <2>4 DEF Pairs
<1> QED
  BY <1>9, <1>20, <1>24 DEF g, id, old

(***************************************************************************)
(* The walk                                                                *)
(***************************************************************************)
(* The entries still to meet from a position on.                           *)
After(h, pos) ==
  IF pos = <<>> THEN {}
  ELSE {q \in Places(h) : q[1] > pos[1] \/ (q[1] = pos[1] /\ q[2] >= pos[2])}

LEMMA FirstEntryOf ==
  ASSUME NEW n \in Counts, NEW h \in Tables(n), NEW start \in 0 .. n
  PROVE  /\ FirstEntry(h, start) \in Places(h) \union {<<>>}
         /\ After(h, FirstEntry(h, start)) = {q \in Places(h) : q[1] >= start}
<1> DEFINE used == {i \in 0 .. n - 1 : i >= start /\ h.buckets[i].entries # <<>>}
<1>1. FirstEntry(h, start) = IF used = {} THEN <<>> ELSE <<Min(used), 1>>
  BY PlacesOf DEF FirstEntry
<1>2. \A q \in Places(h) : q = <<q[1], q[2]>> /\ q[1] \in 0 .. n - 1 /\ q[2] \in 1 .. Len(h.buckets[q[1]].entries)
  BY PlaceOf
<1>3. \A i \in 0 .. n - 1 : h.buckets[i].entries \in Seq(Entries) /\ Len(h.buckets[i].entries) \in Nat
  BY PlacesOf
<1>4. \A q \in Places(h) : q[1] >= start => q[1] \in used
  <2>1. ASSUME NEW q \in Places(h), q[1] >= start
        PROVE  q[1] \in used
    <3>1. q[1] \in 0 .. n - 1 /\ q[2] \in 1 .. Len(h.buckets[q[1]].entries)
      BY <1>2
    <3>2. h.buckets[q[1]].entries # <<>>
      BY <3>1
    <3> QED
      BY <2>1, <3>1, <3>2
  <2> QED
    BY <2>1
<1>5. CASE used = {}
  BY <1>1, <1>4, <1>5 DEF After
<1>6. CASE used # {}
  <2>1. \E m \in used : \A i \in used : m <= i
    <3>1. used \in SUBSET Nat
      BY DEF Counts
    <3> HIDE DEF used
    <3> QED
      BY <1>6, <3>1, LeastExists
  <2> DEFINE m == Min(used)
  <2>2. m \in used /\ \A i \in used : m <= i
    BY <2>1 DEF Min
  <2> HIDE DEF m
  <2>3. m \in 0 .. n - 1 /\ m >= start /\ h.buckets[m].entries # <<>>
    BY <2>2
  <2>4. 1 \in 1 .. Len(h.buckets[m].entries)
    BY <1>3, <2>3
  <2>5. <<m, 1>> \in Places(h)
    BY <2>3, <2>4, PlacesOf
  <2>6. FirstEntry(h, start) = <<m, 1>> /\ <<m, 1>> # <<>>
    BY <1>1, <1>6 DEF m
  <2>7. ASSUME NEW q \in Places(h)
        PROVE  q[1] >= start <=> q[1] > m \/ (q[1] = m /\ q[2] >= 1)
    <3>1. q[1] \in 0 .. n - 1 /\ q[2] \in 1 .. Len(h.buckets[q[1]].entries) /\ q[2] >= 1
      BY <1>2
    <3>2. q[1] >= start => m <= q[1]
      BY <1>4, <2>2
    <3>3. start \in Int /\ n \in Int /\ m \in Int /\ q[1] \in Int /\ m >= start
      BY <2>3, <3>1 DEF Counts
    <3> QED
      BY <3>1, <3>2, <3>3
  <2>8. After(h, <<m, 1>>) = {q \in Places(h) : q[1] > m \/ (q[1] = m /\ q[2] >= 1)}
    BY <2>6 DEF After
  <2> QED
    BY <2>5, <2>6, <2>7, <2>8
<1> QED
  BY <1>5, <1>6

(* The successor of an entry leaves just that one behind.                  *)
LEMMA NextEntryOf ==
  ASSUME NEW n \in Counts, NEW h \in Tables(n), NEW pos \in Places(h)
  PROVE  /\ NextEntry(h, pos) \in Places(h) \union {<<>>}
         /\ After(h, NextEntry(h, pos)) = After(h, pos) \ {pos} /\ pos \in After(h, pos)
<1> DEFINE i == pos[1]  j == pos[2]
<1>1. pos = <<i, j>> /\ i \in 0 .. n - 1 /\ j \in 1 .. Len(h.buckets[i].entries) /\ EntryAt(h, pos).bucket_id = i
  BY PlaceOf DEF IsIn
<1>2. n \in Int /\ i \in Int /\ Len(h.buckets[i].entries) \in Nat /\ pos # <<>>
  <2>1. h.buckets[i].entries \in Seq(Entries)
    BY <1>1, PlacesOf
  <2>2. \A a, b : <<a, b>> # <<>>
    OBVIOUS
  <2> HIDE DEF i, j
  <2>3. pos # <<>>
    BY <1>1, <2>2
  <2> QED
    BY <1>1, <2>1, <2>3 DEF Counts
<1>3. NextEntry(h, pos) = IF j < Len(h.buckets[i].entries) THEN <<i, j + 1>> ELSE FirstEntry(h, i + 1)
  BY <1>1 DEF NextEntry
<1>4. After(h, pos) = {q \in Places(h) : q[1] > i \/ (q[1] = i /\ q[2] >= j)}
  BY <1>2 DEF After
<1>5. \A q \in Places(h) : /\ q = <<q[1], q[2]>> /\ q[1] \in Int /\ q[2] \in Int
                           /\ q[1] = i => q[2] <= Len(h.buckets[i].entries)
  <2>1. \A q \in Places(h) : q = <<q[1], q[2]>> /\ q[1] \in 0 .. n - 1 /\ q[2] \in 1 .. Len(h.buckets[q[1]].entries)
    BY PlaceOf
  <2> QED
    BY <2>1
<1>6. \A q \in Places(h) : q = pos <=> q[1] = i /\ q[2] = j
  BY <1>1, <1>5
<1>7. CASE j < Len(h.buckets[i].entries)
  <2>1. j + 1 \in 1 .. Len(h.buckets[i].entries) /\ j \in Int
    BY <1>1, <1>2, <1>7
  <2>2. <<i, j + 1>> \in Places(h)
    BY <1>1, <2>1, PlacesOf
  <2>3. After(h, <<i, j + 1>>) = {q \in Places(h) : q[1] > i \/ (q[1] = i /\ q[2] >= j + 1)}
    BY DEF After
  <2> HIDE DEF i, j
  <2>4. {q \in Places(h) : q[1] > i \/ (q[1] = i /\ q[2] >= j + 1)} =
          {q \in Places(h) : q[1] > i \/ (q[1] = i /\ q[2] >= j)} \ {pos}
    BY <1>2, <1>5, <1>6, <2>1
  <2>5. pos \in {q \in Places(h) : q[1] > i \/ (q[1] = i /\ q[2] >= j)}
    BY <1>6, <2>1
  <2> QED
    BY <1>3, <1>4, <1>7, <2>2, <2>3, <2>4, <2>5
<1>8. CASE ~ (j < Len(h.buckets[i].entries))
  <2>1. i + 1 \in 0 .. n /\ j \in Int /\ j = Len(h.buckets[i].entries)
    BY <1>1, <1>2, <1>8
  <2>2. /\ FirstEntry(h, i + 1) \in Places(h) \union {<<>>}
        /\ After(h, FirstEntry(h, i + 1)) = {q \in Places(h) : q[1] >= i + 1}
    BY <2>1, FirstEntryOf
  <2> HIDE DEF i, j
  <2>3. {q \in Places(h) : q[1] >= i + 1} = {q \in Places(h) : q[1] > i \/ (q[1] = i /\ q[2] >= j)} \ {pos}
    BY <1>2, <1>5, <1>6, <2>1
  <2>4. pos \in {q \in Places(h) : q[1] > i \/ (q[1] = i /\ q[2] >= j)}
    BY <1>6, <2>1
  <2> QED
    BY <1>3, <1>4, <1>8, <2>2, <2>3, <2>4
<1> QED
  BY <1>7, <1>8

(* A sequence of the entries at the positions of Q, each once.             *)
Lists(w, h, Q) ==
  /\ w \in Seq(Entries)
  /\ \E f \in Bijection(1 .. Len(w), Q) : \A i \in 1 .. Len(w) : w[i] = EntryAt(h, f[i])

LEMMA ListsMore ==
  ASSUME NEW h, NEW Q, NEW w, Lists(w, h, Q), NEW p, p \notin Q, EntryAt(h, p) \in Entries
  PROVE  Lists(<<EntryAt(h, p)>> \o w, h, Q \union {p})
<1> DEFINE e == EntryAt(h, p)
           v == <<e>> \o w
<1>1. PICK f \in Bijection(1 .. Len(w), Q) : \A i \in 1 .. Len(w) : w[i] = EntryAt(h, f[i])
  BY DEF Lists
<1>2. w \in Seq(Entries) /\ Len(w) \in Nat
  BY DEF Lists
<1>3. e \in Entries /\ e = EntryAt(h, p)
  OBVIOUS
<1> HIDE DEF e
<1>4. /\ v \in Seq(Entries) /\ Len(v) = Len(w) + 1 /\ v[1] = e
      /\ \A i \in 2 .. Len(w) + 1 : v[i] = w[i - 1]
  BY <1>2, <1>3
<1> HIDE DEF v
<1> DEFINE g == [i \in 1 .. Len(v) |-> IF i = 1 THEN p ELSE f[i - 1]]
<1>5. f \in [1 .. Len(w) -> Q] /\ (\A a, b \in 1 .. Len(w) : a # b => f[a] # f[b])
      /\ \A q \in Q : \E a \in 1 .. Len(w) : f[a] = q
  BY <1>1 DEF Bijection, Injection, IsInjective, Surjection
<1>6. \A i \in 2 .. Len(v) : i - 1 \in 1 .. Len(w)
  BY <1>2, <1>4
<1>7. g \in Bijection(1 .. Len(v), Q \union {p})
  <2>1. g \in [1 .. Len(v) -> Q \union {p}]
    <3>1. ASSUME NEW i \in 1 .. Len(v), i # 1
          PROVE  f[i - 1] \in Q
      <4>1. i - 1 \in 1 .. Len(w)
        BY <1>2, <1>4, <3>1
      <4> QED
        BY <1>5, <4>1
    <3> QED
      BY <3>1
  <2>2. ASSUME NEW a \in 1 .. Len(v), NEW b \in 1 .. Len(v), g[a] = g[b]
        PROVE  a = b
    <3>1. \A i \in 1 .. Len(v) : i # 1 => i - 1 \in 1 .. Len(w) /\ f[i - 1] \in Q /\ g[i] = f[i - 1]
      <4>1. \A i \in 1 .. Len(v) : i # 1 => i - 1 \in 1 .. Len(w)
        BY <1>2, <1>4
      <4>2. \A i \in 1 .. Len(v) : i # 1 => g[i] = f[i - 1]
        OBVIOUS
      <4> HIDE DEF g
      <4> QED
        BY <1>5, <4>1, <4>2
    <3>2. 1 \in 1 .. Len(v) /\ g[1] = p
      BY <1>2, <1>4
    <3> HIDE DEF g
    <3>3. CASE a = 1 \/ b = 1
      BY <2>2, <3>1, <3>2, <3>3
    <3>4. CASE a # 1 /\ b # 1
      <4>1. a - 1 = b - 1
        BY <1>5, <2>2, <3>1, <3>4
      <4> QED
        BY <4>1
    <3> QED
      BY <3>3, <3>4
  <2>3. ASSUME NEW q \in Q \union {p}
        PROVE  \E a \in 1 .. Len(v) : g[a] = q
    <3>1. CASE q = p
      <4>1. 1 \in 1 .. Len(v) /\ g[1] = p
        BY <1>2, <1>4
      <4> QED
        BY <3>1, <4>1
    <3>2. CASE q # p
      <4>1. PICK a \in 1 .. Len(w) : f[a] = q
        BY <1>5, <3>2
      <4>2. a + 1 \in 1 .. Len(v) /\ a + 1 # 1 /\ a + 1 - 1 = a
        BY <1>2, <1>4
      <4>3. g[a + 1] = f[a + 1 - 1]
        BY <4>2
      <4> QED
        BY <4>1, <4>2, <4>3
    <3> QED
      BY <3>1, <3>2
  <2> HIDE DEF g
  <2> QED
    BY <2>1, <2>2, <2>3 DEF Bijection, Injection, IsInjective, Surjection
<1>8. ASSUME NEW i \in 1 .. Len(v)
      PROVE  v[i] = EntryAt(h, g[i])
  <2>1. CASE i = 1
    BY <1>3, <1>4, <2>1
  <2>2. CASE i # 1
    <3>1. i \in 2 .. Len(w) + 1 /\ i - 1 \in 1 .. Len(w) /\ g[i] = f[i - 1]
      BY <1>2, <1>4, <2>2
    <3> QED
      BY <1>1, <1>4, <3>1
  <2> QED
    BY <2>1, <2>2
<1> HIDE DEF g
<1>9. Lists(v, h, Q \union {p})
  BY <1>4, <1>7, <1>8 DEF Lists
<1> QED
  BY <1>9 DEF v, e

LEMMA ListsNone ==
  ASSUME NEW h
  PROVE  Lists(<<>>, h, {})
<1> DEFINE f == [i \in 1 .. 0 |-> 0]
<1>1. <<>> \in Seq(Entries) /\ Len(<<>>) = 0
  OBVIOUS
<1>2. f \in Bijection(1 .. 0, {}) /\ \A i \in 1 .. 0 : <<>>[i] = EntryAt(h, f[i])
  <2>1. 1 .. 0 = {}
    OBVIOUS
  <2>2. f \in [1 .. 0 -> {}]
    BY <2>1
  <2> HIDE DEF f
  <2> QED
    BY <2>1, <2>2 DEF Bijection, Injection, IsInjective, Surjection
<1> HIDE DEF f
<1> QED
  BY <1>1, <1>2 DEF Lists

(* The walk meets every entry, once.                                       *)
LEMMA WalkOf ==
  ASSUME NEW n \in Counts, NEW h \in Tables(n), Sound(h)
  PROVE  Lists(Walk(h), h, Places(h))
<1> DEFINE S == Places(h) \union {<<>>}
           V == Seq(Entries)
           next == [x \in S \ {<<>>} |-> NextEntry(h, x)]
           step == [p \in (S \ {<<>>}) \X V |-> <<EntryAt(h, p[1])>> \o p[2]]
           rank == [x \in S |-> Cardinality(After(h, x))]
           N == Cardinality(Places(h))
           Walks(f) == f = [x \in S |-> IF x = <<>> THEN <<>> ELSE <<EntryAt(h, x)>> \o f[NextEntry(h, x)]]
           From == CHOOSE f : Walks(f)
<1>1. <<>> \notin Places(h) /\ \A x \in Places(h) : EntryAt(h, x) \in Entries
  <2>1. ASSUME NEW x \in Places(h)
        PROVE  x # <<>>
    <3>1. \A a, b : <<a, b>> # <<>>
      OBVIOUS
    <3> QED
      BY <3>1, PlaceOf
  <2> QED
    BY <2>1, PlaceOf
<1>2. S \ {<<>>} = Places(h) /\ <<>> \in S /\ IsFiniteSet(Places(h)) /\ N \in Nat
  BY <1>1, FS_CardinalityType DEF Sound
<1>3. \A x \in S : /\ After(h, x) \in SUBSET Places(h) /\ IsFiniteSet(After(h, x))
                   /\ Cardinality(After(h, x)) \in Nat /\ Cardinality(After(h, x)) <= N
  <2>1. \A x \in S : After(h, x) \in SUBSET Places(h)
    BY DEF After
  <2> HIDE DEF S
  <2> QED
    BY <1>2, <2>1, FS_Subset, FS_CardinalityType
<1>4. \A x \in Places(h) : /\ NextEntry(h, x) \in S
                           /\ After(h, NextEntry(h, x)) = After(h, x) \ {x} /\ x \in After(h, x)
                           /\ Cardinality(After(h, NextEntry(h, x))) = Cardinality(After(h, x)) - 1
  <2>1. ASSUME NEW x \in Places(h)
        PROVE  /\ NextEntry(h, x) \in S
               /\ After(h, NextEntry(h, x)) = After(h, x) \ {x} /\ x \in After(h, x)
    BY NextEntryOf
  <2> HIDE DEF S
  <2>2. ASSUME NEW x \in Places(h)
        PROVE  Cardinality(After(h, NextEntry(h, x))) = Cardinality(After(h, x)) - 1
    BY <1>2, <1>3, <2>1, FS_RemoveElement
  <2> QED
    BY <2>1, <2>2
<1>5. \E f \in [S -> V] : Walks(f)
  <2>1. next \in [S \ {<<>>} -> S]
    BY <1>2, <1>4
  <2>2. step \in [(S \ {<<>>}) \X V -> V]
    <3>1. ASSUME NEW p \in (S \ {<<>>}) \X V
          PROVE  <<EntryAt(h, p[1])>> \o p[2] \in V
      <4>1. EntryAt(h, p[1]) \in Entries /\ p[2] \in Seq(Entries)
        BY <1>1
      <4> QED
        BY <4>1
    <3> QED
      BY <3>1
  <2>3. rank \in [S -> Nat] /\ \A x \in S : rank[x] <= N
    BY <1>3
  <2>4. \A x \in S \ {<<>>} : rank[next[x]] < rank[x]
    <3>1. ASSUME NEW x \in S \ {<<>>}
          PROVE  rank[next[x]] < rank[x]
      <4>1. x \in Places(h) /\ next[x] = NextEntry(h, x) /\ next[x] \in S /\ x \in S
        BY <1>4
      <4>2. rank[next[x]] = Cardinality(After(h, NextEntry(h, x))) /\ rank[x] = Cardinality(After(h, x))
        BY <4>1
      <4>3. Cardinality(After(h, x)) \in Nat
        BY <1>3
      <4> HIDE DEF rank, next, S
      <4> QED
        BY <1>4, <4>1, <4>2, <4>3
    <3> QED
      BY <3>1
  <2>5. <<>> \in V
    OBVIOUS
  <2>6. PICK f \in [S -> V] : IsWalk(f, S, <<>>, <<>>, next, step)
    <3> HIDE DEF S, V, next, step, rank, N
    <3> QED
      BY <1>2, <2>1, <2>2, <2>3, <2>4, <2>5, WalkExists, Zenon
  <2>7. ASSUME NEW x \in S, x # <<>>
        PROVE  step[<<x, f[next[x]]>>] = <<EntryAt(h, x)>> \o f[NextEntry(h, x)]
    <3>1. next[x] = NextEntry(h, x) /\ next[x] \in S /\ f[next[x]] \in V
      BY <1>4, <2>6, <2>7
    <3> QED
      BY <2>7, <3>1
  <2>8. Walks(f)
    <3> HIDE DEF S, V, next, step
    <3> QED
      BY <2>6, <2>7 DEF IsWalk
  <2> QED
    BY <2>6, <2>8
<1>6. Walks(From)
  <2> HIDE DEF Walks
  <2> QED
    BY <1>5, Zenon
<1>7. Walk(h) = IF h.count = 0 THEN <<>> ELSE From[FirstEntry(h, 0)]
  BY DEF Walk, Places
<1> HIDE DEF From
<1>8. From[<<>>] = <<>> /\ \A x \in Places(h) : From[x] = <<EntryAt(h, x)>> \o From[NextEntry(h, x)]
  BY <1>1, <1>6
<1> DEFINE G == {m \in Nat : \A x \in S : Cardinality(After(h, x)) = m => Lists(From[x], h, After(h, x))}
<1>9. \A m \in 0 .. N : m \in G
  <2>1. ASSUME NEW x \in S, x = <<>>
        PROVE  Lists(From[x], h, After(h, x))
    BY <1>8, <2>1, ListsNone DEF After
  <2>2. 0 \in G
    <3>1. ASSUME NEW x \in S, Cardinality(After(h, x)) = 0
          PROVE  x = <<>>
      BY <1>3, <1>4, <3>1, FS_EmptySet
    <3> QED
      BY <2>1, <3>1
  <2>3. ASSUME NEW m \in 0 .. N - 1, m \in G
        PROVE  m + 1 \in G
    <3>1. ASSUME NEW x \in S, Cardinality(After(h, x)) = m + 1
          PROVE  Lists(From[x], h, After(h, x))
      <4>1. CASE x = <<>>
        BY <2>1, <4>1
      <4>2. CASE x # <<>>
        <5> DEFINE y == NextEntry(h, x)
        <5>1. x \in Places(h) /\ y \in S /\ Cardinality(After(h, y)) = m + 1 - 1 /\ m + 1 - 1 = m
          BY <1>4, <3>1, <4>2
        <5>2. Lists(From[y], h, After(h, y))
          BY <2>3, <5>1
        <5>3. x \notin After(h, y) /\ After(h, y) \union {x} = After(h, x)
          BY <1>4, <5>1
        <5>4. Lists(<<EntryAt(h, x)>> \o From[y], h, After(h, y) \union {x})
          BY <1>1, <5>1, <5>2, <5>3, ListsMore
        <5> QED
          BY <1>8, <5>1, <5>3, <5>4
      <4> QED
        BY <4>1, <4>2
    <3>2. m + 1 \in Nat
      OBVIOUS
    <3> QED
      BY <3>1, <3>2
  <2> HIDE DEF G
  <2> QED
    BY <1>2, <2>2, <2>3, CountingUp
<1>10. CASE h.count = 0
  <2>1. Places(h) = {}
    BY <1>10, FS_EmptySet DEF Sound
  <2> QED
    BY <1>7, <1>10, <2>1, ListsNone
<1>11. CASE h.count # 0
  <2> DEFINE x == FirstEntry(h, 0)
  <2>1. x \in S /\ After(h, x) = {q \in Places(h) : q[1] >= 0}
    <3>1. 0 \in 0 .. n
      BY DEF Counts
    <3> QED
      BY <3>1, FirstEntryOf
  <2>2. After(h, x) = Places(h)
    <3>1. \A q \in Places(h) : q[1] \in 0 .. n - 1
      BY PlaceOf
    <3> HIDE DEF x
    <3> QED
      BY <2>1, <3>1
  <2>3. Cardinality(After(h, x)) \in 0 .. N
    BY <1>3, <2>1
  <2>4. Lists(From[x], h, After(h, x))
    BY <1>9, <2>1, <2>3
  <2> QED
    BY <1>7, <1>11, <2>2, <2>4
<1> QED
  BY <1>10, <1>11

LEMMA TransferredOf ==
  ASSUME NEW n \in Counts, NEW h \in Tables(n), NEW e \in Entries
  PROVE  Transferred(h, e) \in Tables(n)
<1>1. e.key \in Key /\ e.data \in Data /\ e.data[1] = e.key
  BY DEF Entries
<1> QED
  BY <1>1, AppendedIs DEF Transferred

(***************************************************************************)
(* The resize                                                              *)
(***************************************************************************)
(* Entries transferred one after the other.                                *)
TransferSteps(g, e, seq) ==
  /\ g[0] = e /\ FoldLeft(Transferred, e, seq) = g[Len(seq)]
  /\ \A k \in 0 .. Len(seq) - 1 : g[k + 1] = Transferred(g[k], seq[k + 1])

LEMMA TransfersStepwise ==
  ASSUME NEW n \in Counts, NEW seq \in Seq(Entries), NEW e \in Tables(n)
  PROVE  \E g \in [0 .. Len(seq) -> Tables(n)] : TransferSteps(g, e, seq)
<1> DEFINE step == [p \in Tables(n) \X Entries |-> Transferred(p[1], p[2])]
           Folds(it) == it = [s \in SUBSET DOMAIN seq |-> IF s = {} THEN e ELSE Transferred(it[s \ {Max(s)}], seq[Max(s)])]
           it == CHOOSE it : Folds(it)
<1>1. Len(seq) \in Nat /\ DOMAIN seq = 1 .. Len(seq) /\ \A i \in DOMAIN seq : seq[i] \in Entries
  OBVIOUS
<1>2. \A s \in SUBSET DOMAIN seq : s # {} => LastIn(s) = Max(s) /\ LastIn(s) \in DOMAIN seq
  BY <1>1, LastIsIn DEF LastIn, Max
<1>3. step \in [Tables(n) \X Entries -> Tables(n)] /\ \A a \in Tables(n), b \in Entries : step[<<a, b>>] = Transferred(a, b)
  <2>1. \A a \in Tables(n), b \in Entries : Transferred(a, b) \in Tables(n)
    BY TransferredOf
  <2> QED
    BY <2>1
<1> HIDE DEF step
<1>4. \E i : Folds(i)
  <2>1. PICK i \in [SUBSET DOMAIN seq -> Tables(n)] : IsLeftFold(i, seq, e, step)
    BY <1>3, LeftFoldExists, Zenon
  <2>2. ASSUME NEW s \in SUBSET DOMAIN seq, s # {}
        PROVE  i[s] = Transferred(i[s \ {Max(s)}], seq[Max(s)])
    <3>1. seq[Max(s)] \in Entries /\ i[s \ {Max(s)}] \in Tables(n) /\ i[s] = step[<<i[s \ {Max(s)}], seq[Max(s)]>>]
      BY <1>1, <1>2, <2>1, <2>2 DEF IsLeftFold
    <3> QED
      BY <1>3, <3>1
  <2> QED
    BY <2>1, <2>2 DEF IsLeftFold
<1>5. Folds(it)
  <2> HIDE DEF Folds
  <2> QED
    BY <1>4, Zenon
<1>6. FoldLeft(Transferred, e, seq) = it[DOMAIN seq]
  BY DEF FoldLeft, MapThenFoldSet
<1> HIDE DEF it
<1>7. TakesSteps(it, seq, Tables(n), e, step)
  <2>1. ASSUME NEW s \in SUBSET DOMAIN seq, s # {}, it[s \ {LastIn(s)}] \in Tables(n)
        PROVE  it[s] = step[<<it[s \ {LastIn(s)}], seq[LastIn(s)]>>]
    <3>1. seq[Max(s)] \in Entries /\ it[s] = Transferred(it[s \ {Max(s)}], seq[Max(s)])
      BY <1>1, <1>2, <1>5, <2>1
    <3> QED
      BY <1>2, <1>3, <2>1, <3>1
  <2> QED
    BY <1>5, <2>1 DEF TakesSteps
<1>8. PICK g \in [0 .. Len(seq) -> Tables(n)] : IsStepwise(g, seq, e, step, it[DOMAIN seq])
  BY <1>3, <1>7, LeftFoldSteps, Zenon
<1>9. \A k \in 0 .. Len(seq) - 1 : g[k] \in Tables(n) /\ seq[k + 1] \in Entries
  BY <1>1
<1> QED
  BY <1>3, <1>6, <1>8, <1>9, ZenonT(60) DEF IsStepwise, TransferSteps

(* An empty map.                                                           *)
LEMMA EmptyOf ==
  ASSUME NEW n \in Counts
  PROVE  /\ [buckets |-> NewBuckets(n), count |-> 0] \in Tables(n)
         /\ Sound([buckets |-> NewBuckets(n), count |-> 0])
         /\ Pairs([buckets |-> NewBuckets(n), count |-> 0]) = {}
<1> DEFINE h == [buckets |-> NewBuckets(n), count |-> 0]
<1>1. h.buckets = [i \in 0 .. n - 1 |-> NoBucket] /\ h.count = 0
  BY DEF NewBuckets
<1>2. NoBucket \in Buckets /\ NoBucket.entries = <<>> /\ DOMAIN NoBucket.entries = {}
  <2>1. <<>> \in Seq(Entries)
    OBVIOUS
  <2> QED
    BY <2>1 DEF NoBucket, Buckets, Arrays
<1>3. h \in Tables(n)
  <2>1. h \in [buckets : [0 .. n - 1 -> Buckets], count : Nat]
    BY <1>1, <1>2
  <2> HIDE DEF h
  <2>2. \A i \in 0 .. n - 1 : DOMAIN h.buckets[i].entries = {}
    BY <1>1, <1>2
  <2> QED
    BY <2>1, <2>2 DEF Tables
<1> HIDE DEF h
<1>4. Places(h) = {}
  <2>1. ASSUME NEW p \in Places(h)
        PROVE  FALSE
    <3>1. p[1] \in 0 .. n - 1 /\ p[2] \in 1 .. Len(h.buckets[p[1]].entries)
      BY <1>3, PlaceOf
    <3>2. h.buckets[p[1]].entries = <<>>
      BY <1>1, <1>2, <3>1
    <3> QED
      BY <3>1, <3>2
  <2> QED
    BY <2>1
<1>5. Sound(h) /\ Pairs(h) = {}
  BY <1>1, <1>4, FS_EmptySet DEF Sound, Pairs
<1> QED
  BY <1>3, <1>5 DEF h

(* What there is to say of a sequence that lists the entries of a map.     *)
LEMMA ListOf ==
  ASSUME NEW n \in Counts, NEW h \in Tables(n), Sound(h), NEW w, Lists(w, h, Places(h))
  PROVE  /\ w \in Seq(Entries) /\ Len(w) \in Nat /\ Len(w) = h.count
         /\ \A i \in 1 .. Len(w) : \E p \in Places(h) : w[i] = EntryAt(h, p)
         /\ \A p \in Places(h) : \E i \in 1 .. Len(w) : w[i] = EntryAt(h, p)
         /\ \A i, j \in 1 .. Len(w) : w[i].key = w[j].key => i = j
<1>1. PICK f \in Bijection(1 .. Len(w), Places(h)) : \A i \in 1 .. Len(w) : w[i] = EntryAt(h, f[i])
  BY DEF Lists
<1>2. w \in Seq(Entries) /\ Len(w) \in Nat
  BY DEF Lists
<1>3. Len(w) = h.count
  <2>1. ExistsBijection(1 .. Len(w), Places(h))
    BY <1>1 DEF ExistsBijection
  <2>2. Cardinality(Places(h)) = Len(w)
    BY <1>2, <2>1, FS_CountingElements
  <2> QED
    BY <2>2 DEF Sound
<1>4. f \in [1 .. Len(w) -> Places(h)] /\ (\A a, b \in 1 .. Len(w) : a # b => f[a] # f[b])
      /\ \A q \in Places(h) : \E a \in 1 .. Len(w) : f[a] = q
  BY <1>1 DEF Bijection, Injection, IsInjective, Surjection
<1>5. ASSUME NEW i \in 1 .. Len(w), NEW j \in 1 .. Len(w), w[i].key = w[j].key
      PROVE  i = j
  <2>1. f[i] = f[j]
    BY <1>1, <1>4, <1>5 DEF Sound
  <2> QED
    BY <1>4, <2>1
<1>6. ASSUME NEW p \in Places(h)
      PROVE  \E i \in 1 .. Len(w) : w[i] = EntryAt(h, p)
  BY <1>1, <1>4
<1>7. ASSUME NEW i \in 1 .. Len(w)
      PROVE  \E p \in Places(h) : w[i] = EntryAt(h, p)
  BY <1>1, <1>4
<1> QED
  BY <1>2, <1>3, <1>5, <1>6, <1>7

(* The doubled map has the entries of the one it was made from.            *)
LEMMA DoubledOf ==
  ASSUME NEW n \in Counts, NEW h \in Tables(n), Sound(h)
  PROVE  /\ 2 * n \in Counts /\ Doubled(h) \in Tables(2 * n) /\ Sound(Doubled(h))
         /\ Pairs(Doubled(h)) = Pairs(h)
<1> DEFINE m == 2 * n
           empty == [buckets |-> NewBuckets(m), count |-> 0]
           w == Walk(h)
           Met(j) == {<<w[i].key, w[i].data>> : i \in 1 .. j}
<1>1. m \in Counts /\ Size(h) = n
  <2>1. m \in Counts
    BY DEF Counts
  <2> QED
    BY <2>1, PlacesOf
<1>2. Doubled(h) = FoldLeft(Transferred, empty, w)
  BY <1>1 DEF Doubled
<1> HIDE DEF m
<1>3. empty \in Tables(m) /\ Sound(empty) /\ Pairs(empty) = {}
  BY <1>1, EmptyOf
<1>4. /\ w \in Seq(Entries) /\ Len(w) \in Nat /\ Len(w) = h.count
      /\ \A i \in 1 .. Len(w) : \E p \in Places(h) : w[i] = EntryAt(h, p)
      /\ \A p \in Places(h) : \E i \in 1 .. Len(w) : w[i] = EntryAt(h, p)
      /\ \A i, j \in 1 .. Len(w) : w[i].key = w[j].key => i = j
  <2>1. Lists(w, h, Places(h))
    BY WalkOf
  <2> HIDE DEF w
  <2> QED
    BY <2>1, ListOf
<1> HIDE DEF empty, w
<1>5. PICK g \in [0 .. Len(w) -> Tables(m)] : TransferSteps(g, empty, w)
  BY <1>1, <1>3, <1>4, TransfersStepwise
<1> DEFINE G == {j \in 0 .. Len(w) : Sound(g[j]) /\ Pairs(g[j]) = Met(j)}
<1>6. 0 \in G
  <2>1. g[0] = empty /\ 0 \in 0 .. Len(w)
    BY <1>4, <1>5 DEF TransferSteps
  <2>2. Met(0) = {}
    OBVIOUS
  <2> QED
    BY <1>3, <2>1, <2>2
<1>7. ASSUME NEW j \in 0 .. Len(w) - 1, j \in G
      PROVE  j + 1 \in G
  <2> DEFINE e == w[j + 1]
  <2>1. j + 1 \in 1 .. Len(w) /\ j + 1 \in 0 .. Len(w) /\ j \in 0 .. Len(w)
    BY <1>4
  <2>2. e \in Entries /\ e.key \in Key /\ e.data \in Data /\ e.data[1] = e.key
    BY <1>4, <2>1 DEF Entries
  <2>3. g[j] \in Tables(m) /\ Sound(g[j]) /\ Pairs(g[j]) = Met(j)
    BY <1>5, <1>7, <2>1
  <2>4. g[j + 1] = Appended(g[j], e.key, e.data)
    BY <1>5 DEF TransferSteps, Transferred
  <2>5. ASSUME NEW p \in Places(g[j])
        PROVE  EntryAt(g[j], p).key # e.key
    <3>1. PairOf(g[j], p) \in Met(j)
      BY <2>3 DEF Pairs
    <3>2. PICK i \in 1 .. j : PairOf(g[j], p) = <<w[i].key, w[i].data>>
      BY <3>1
    <3>3. i \in 1 .. Len(w) /\ i # j + 1
      BY <1>4, <2>1
    <3>4. EntryAt(g[j], p).key = w[i].key
      BY <3>2 DEF PairOf
    <3> QED
      BY <1>4, <2>1, <3>3, <3>4
  <2> HIDE DEF e, Met
  <2>6. Sound(g[j + 1]) /\ Pairs(g[j + 1]) = Pairs(g[j]) \union {<<e.key, e.data>>}
    BY <1>1, <2>2, <2>3, <2>4, <2>5, AppendedOf
  <2>7. Met(j + 1) = Met(j) \union {<<e.key, e.data>>}
    <3>1. 1 .. j + 1 = (1 .. j) \union {j + 1}
      BY <2>1
    <3> QED
      BY <3>1 DEF Met, e
  <2> QED
    BY <2>1, <2>3, <2>6, <2>7
<1>8. Len(w) \in G
  <2> HIDE DEF G
  <2>1. \A j \in 0 .. Len(w) : j \in G
    BY <1>4, <1>6, <1>7, CountingUp
  <2> QED
    BY <1>4, <2>1
<1>9. Doubled(h) = g[Len(w)] /\ g[Len(w)] \in Tables(m)
  BY <1>2, <1>4, <1>5 DEF TransferSteps
<1>10. Met(Len(w)) = Pairs(h)
  <2>1. ASSUME NEW i \in 1 .. Len(w)
        PROVE  <<w[i].key, w[i].data>> \in Pairs(h)
    BY <1>4 DEF Pairs, PairOf
  <2>2. ASSUME NEW p \in Places(h)
        PROVE  PairOf(h, p) \in Met(Len(w))
    <3>1. PICK i \in 1 .. Len(w) : w[i] = EntryAt(h, p)
      BY <1>4
    <3> QED
      BY <3>1 DEF PairOf
  <2> QED
    BY <2>1, <2>2 DEF Pairs
<1> HIDE DEF Met
<1>11. Sound(Doubled(h)) /\ Pairs(Doubled(h)) = Pairs(h) /\ Doubled(h) \in Tables(m)
  BY <1>8, <1>9, <1>10
<1> QED
  BY <1>1, <1>11 DEF m

(***************************************************************************)
(* The operations                                                          *)
(***************************************************************************)
LEMMA HoldsIsOpen ==
  ASSUME NEW h, NEW objects, Holds(h, objects)
  PROVE  h # Closed
<1>1. PICK n \in Counts : h \in Tables(n)
  BY DEF Holds
<1>2. DOMAIN h.buckets = 0 .. n - 1 /\ 0 \in 0 .. n - 1
  BY <1>1, PlacesOf DEF Counts
<1>3. DOMAIN Closed.buckets = {}
  <2>1. Closed.buckets = <<>> /\ DOMAIN <<>> = {}
    BY DEF Closed
  <2> QED
    BY <2>1
<1> QED
  BY <1>2, <1>3

LEMMA PairsAreUnique ==
  ASSUME NEW h, Sound(h), NEW q \in Pairs(h), NEW r \in Pairs(h), q[1] = r[1]
  PROVE  q = r
<1>1. PICK a \in Places(h) : q = PairOf(h, a)
  BY DEF Pairs
<1>2. PICK b \in Places(h) : r = PairOf(h, b)
  BY DEF Pairs
<1>3. EntryAt(h, a).key = EntryAt(h, b).key
  BY <1>1, <1>2 DEF PairOf
<1> QED
  BY <1>1, <1>2, <1>3 DEF Sound

(* A key is looked up in vain when no pair has it.                         *)
LEMMA VainIsAbsent ==
  ASSUME NEW n \in Counts, NEW h \in Tables(n), Sound(h), NEW k \in Key, Get(h, k) = <<>>
  PROVE  (\A p \in Places(h) : EntryAt(h, p).key # k) /\ \A q \in Pairs(h) : q[1] # k
<1>1. ASSUME NEW p \in Places(h), EntryAt(h, p).key = k
      PROVE  FALSE
  <2>1. Get(h, k) = <<EntryAt(h, p).data>>
    BY <1>1, LookupFinds
  <2>2. \A x : <<x>> # <<>>
    OBVIOUS
  <2> QED
    BY <2>1, <2>2
<1> QED
  BY <1>1 DEF Pairs, PairOf

LEMMA AbsentIsVain ==
  ASSUME NEW n \in Counts, NEW h \in Tables(n), Sound(h), NEW k \in Key, \A q \in Pairs(h) : q[1] # k
  PROVE  Get(h, k) = <<>>
<1>1. ASSUME NEW p \in Places(h)
      PROVE  EntryAt(h, p).key # k
  <2>1. PairOf(h, p) \in Pairs(h)
    BY DEF Pairs
  <2>2. PairOf(h, p)[1] = EntryAt(h, p).key
    BY DEF PairOf
  <2> QED
    BY <2>1, <2>2
<1> QED
  BY <1>1, LookupMisses

(* The pairs of other keys.                                                *)
Others(h, k) == {q \in Pairs(h) : q[1] # k}

LEMMA OneMoreObject ==
  ASSUME NEW P, NEW k, NEW d
  PROVE  DataOf(P \union {<<k, d>>}) = DataOf(P) \union {d}
<1>1. <<k, d>>[2] = d
  OBVIOUS
<1> QED
  BY <1>1 DEF DataOf

LEMMA AddHolds ==
  ASSUME NEW h, NEW objects, Holds(h, objects), NEW k \in Key, Get(h, k) = <<>>, NEW d \in Data, d[1] = k
  PROVE  /\ Holds(Appended(h, k, d), objects \union {d})
         /\ Pairs(Appended(h, k, d)) = Others(h, k) \union {<<k, d>>} /\ <<k, d>> \notin Pairs(h)
<1>1. PICK n \in Counts : h \in Tables(n) /\ Sound(h) /\ objects = Objects(h)
  BY DEF Holds
<1>2. (\A p \in Places(h) : EntryAt(h, p).key # k) /\ \A q \in Pairs(h) : q[1] # k
  BY <1>1, VainIsAbsent
<1> DEFINE g == Appended(h, k, d)
<1>3. g \in Tables(n) /\ Sound(g) /\ Pairs(g) = Pairs(h) \union {<<k, d>>}
  BY <1>1, <1>2, AppendedOf
<1> HIDE DEF g
<1>4. Objects(g) = Objects(h) \union {d}
  <2>1. DataOf(Pairs(h) \union {<<k, d>>}) = DataOf(Pairs(h)) \union {d}
    BY OneMoreObject
  <2> QED
    BY <1>3, <2>1 DEF Objects
<1>5. <<k, d>> \notin Pairs(h) /\ Pairs(h) = Others(h, k)
  BY <1>2 DEF Others
<1>6. Holds(g, objects \union {d})
  BY <1>1, <1>3, <1>4 DEF Holds
<1> QED
  BY <1>3, <1>5, <1>6 DEF g

LEMMA DoubleHolds ==
  ASSUME NEW h, NEW objects, Holds(h, objects)
  PROVE  /\ Holds(Doubled(h), objects) /\ Pairs(Doubled(h)) = Pairs(h)
         /\ \A k \in Key : Get(h, k) = <<>> => Get(Doubled(h), k) = <<>>
<1>1. PICK n \in Counts : h \in Tables(n) /\ Sound(h) /\ objects = Objects(h)
  BY DEF Holds
<1> DEFINE g == Doubled(h)
           m == 2 * n
<1>2. m \in Counts /\ g \in Tables(m) /\ Sound(g) /\ Pairs(g) = Pairs(h)
  BY <1>1, DoubledOf
<1> HIDE DEF g, m
<1>3. Holds(g, objects)
  BY <1>1, <1>2 DEF Holds, Objects
<1>4. ASSUME NEW k \in Key, Get(h, k) = <<>>
      PROVE  Get(g, k) = <<>>
  <2>1. \A q \in Pairs(h) : q[1] # k
    BY <1>1, <1>4, VainIsAbsent
  <2> QED
    BY <1>2, <2>1, AbsentIsVain
<1> QED
  BY <1>2, <1>3, <1>4 DEF g

(* What becomes of the pairs when that of k with the object a goes.        *)
LEMMA OthersAre ==
  ASSUME NEW n \in Counts, NEW h \in Tables(n), Sound(h), NEW k \in Key, NEW a, <<k, a>> \in Pairs(h)
  PROVE  /\ Pairs(h) \ {<<k, a>>} = Others(h, k)
         /\ Objects(h) \ {a} = DataOf(Others(h, k))
<1>1. \A q \in Pairs(h) : q[1] = k => q = <<k, a>>
  <2>1. ASSUME NEW q \in Pairs(h), q[1] = k
        PROVE  q = <<k, a>>
    <3>1. <<k, a>>[1] = k
      OBVIOUS
    <3> QED
      BY <2>1, <3>1, PairsAreUnique
  <2> QED
    BY <2>1
<1>2. \A q \in Pairs(h) : q[2][1] = q[1]
  BY ObjectsOf
<1>3. a[1] = k
  BY <1>2
<1>4. Pairs(h) \ {<<k, a>>} = Others(h, k)
  BY <1>1 DEF Others
<1>5. \A q \in Pairs(h) : q[2] = a <=> q[1] = k
  BY <1>1, <1>2, <1>3
<1> QED
  BY <1>4, <1>5 DEF Objects, DataOf, Others

LEMMA ReplaceHolds ==
  ASSUME NEW h, NEW objects, Holds(h, objects), NEW k \in Key, NEW d \in Data, d[1] = k, d \notin objects,
         NEW i \in Found(h.buckets[BucketOf(h, k)], k)
  PROVE  /\ Holds(Replaced(h, BucketOf(h, k), i, d),
                  (objects \ {h.buckets[BucketOf(h, k)].entries[i].data}) \union {d})
         /\ Pairs(Replaced(h, BucketOf(h, k), i, d)) = Others(h, k) \union {<<k, d>>}
         /\ <<k, d>> \notin Pairs(h)
<1>1. PICK n \in Counts : h \in Tables(n) /\ Sound(h) /\ objects = Objects(h)
  BY DEF Holds
<1> DEFINE g == Replaced(h, BucketOf(h, k), i, d)
           a == h.buckets[BucketOf(h, k)].entries[i].data
<1>2. /\ g \in Tables(n) /\ Sound(g) /\ <<k, a>> \in Pairs(h)
      /\ Pairs(g) = (Pairs(h) \ {<<k, a>>}) \union {<<k, d>>}
  BY <1>1, ReplacedOf
<1> HIDE DEF g, a
<1>3. Pairs(h) \ {<<k, a>>} = Others(h, k) /\ Objects(h) \ {a} = DataOf(Others(h, k))
  BY <1>1, <1>2, OthersAre
<1>4. Objects(g) = (objects \ {a}) \union {d}
  <2>1. Pairs(g) = Others(h, k) \union {<<k, d>>}
    BY <1>2, <1>3
  <2>2. DataOf(Others(h, k) \union {<<k, d>>}) = DataOf(Others(h, k)) \union {d}
    BY OneMoreObject, ZenonT(60)
  <2> QED
    BY <1>1, <1>3, <2>1, <2>2 DEF Objects
<1>5. <<k, d>> \notin Pairs(h)
  <2>1. <<k, d>>[2] = d
    OBVIOUS
  <2> QED
    BY <1>1, <2>1 DEF Objects, DataOf
<1>6. Holds(g, (objects \ {a}) \union {d})
  BY <1>1, <1>2, <1>4 DEF Holds
<1> QED
  BY <1>2, <1>3, <1>5, <1>6 DEF g, a

LEMMA DeleteHolds ==
  ASSUME NEW h, NEW objects, Holds(h, objects), NEW k \in Key, NEW array \in Arrays,
         NEW i \in Found(h.buckets[BucketOf(h, k)], k)
  PROVE  /\ Holds(Deleted(h, BucketOf(h, k), i, array),
                  objects \ {h.buckets[BucketOf(h, k)].entries[i].data})
         /\ Pairs(Deleted(h, BucketOf(h, k), i, array)) = Others(h, k)
         /\ \E q \in Pairs(h) : q[1] = k
<1>1. PICK n \in Counts : h \in Tables(n) /\ Sound(h) /\ objects = Objects(h)
  BY DEF Holds
<1> DEFINE g == Deleted(h, BucketOf(h, k), i, array)
           a == h.buckets[BucketOf(h, k)].entries[i].data
<1>2. g \in Tables(n) /\ Sound(g) /\ <<k, a>> \in Pairs(h) /\ Pairs(g) = Pairs(h) \ {<<k, a>>}
  BY <1>1, DeletedOf
<1> HIDE DEF g, a
<1>3. Pairs(h) \ {<<k, a>>} = Others(h, k) /\ Objects(h) \ {a} = DataOf(Others(h, k))
  BY <1>1, <1>2, OthersAre
<1>4. Objects(g) = objects \ {a}
  BY <1>1, <1>2, <1>3 DEF Objects
<1>5. \E q \in Pairs(h) : q[1] = k
  <2>1. <<k, a>>[1] = k
    OBVIOUS
  <2> QED
    BY <1>2, <2>1
<1>6. Holds(g, objects \ {a})
  BY <1>1, <1>2, <1>4 DEF Holds
<1> QED
  BY <1>2, <1>3, <1>5, <1>6 DEF g, a

LEMMA InitExact == Init => Exact
  BY DEF Init, Exact, Open

(* What a step makes of the pairs of the map.                              *)
Opens == ~Open /\ Open' /\ Pairs(hm') = {} /\ UNCHANGED last_set

Closes == Open /\ ~Open' /\ last_set' = <<>>

Puts(k, d) ==
  /\ Open /\ Open'
  /\ Pairs(hm') = Others(hm, k) \union {<<k, d>>}
  /\ Returns(k, <<d>>, 0)

Refuses(k, d) ==
  /\ Open /\ Open' /\ \A q \in Pairs(hm) : q[1] # k
  /\ Pairs(hm') = Pairs(hm)
  /\ Returns(k, <<d>>, -1)

Drops(k) ==
  /\ Open /\ Open'
  /\ Pairs(hm') = Others(hm, k)
  /\ \E ret \in {0, 1} :
       /\ ret = 1 => \E q \in Pairs(hm) : q[1] = k
       /\ Returns(k, <<>>, ret)

Changes == Opens \/ Closes \/ \E k \in Key : Drops(k) \/ \E d \in Data : Puts(k, d) \/ Refuses(k, d)

LEMMA HeldIsExact ==
  ASSUME NEW h, NEW objects, Holds(h, objects), hm' = h, held' = objects
  PROVE  Exact' /\ Open'
  BY HoldsIsOpen DEF Exact, Open

LEMMA NextExact == Exact /\ [Next]_vars => Exact' /\ (Changes \/ UNCHANGED vars)
<1> SUFFICES ASSUME Exact, [Next]_vars
             PROVE  Exact' /\ (Changes \/ UNCHANGED vars)
  OBVIOUS
<1>1. Open => Holds(hm, held)
  BY DEF Exact
<1>2. \A k \in Key : \A d \in Fresh(k) : d \in Data /\ d[1] = k /\ d \notin held
  BY DEF Fresh, Data
<1>3. CASE Create
  <2> DEFINE h == [buckets |-> NewBuckets(InitSize), count |-> 0]
  <2>1. hm' = h /\ held' = held /\ last_set' = last_set /\ ~Open /\ held = {}
    BY <1>3 DEF Create, Open, Exact
  <2>2. h \in Tables(InitSize) /\ Sound(h) /\ Pairs(h) = {} /\ InitSize \in Counts
    BY EmptyOf, HmapAssumption DEF Counts
  <2> HIDE DEF h
  <2>3. Holds(h, {})
    BY <2>2 DEF Holds, Objects, DataOf
  <2>4. Exact' /\ Open'
    BY <2>1, <2>3, HeldIsExact
  <2> QED
    BY <2>1, <2>2, <2>4 DEF Changes, Opens
<1>4. CASE Freep
  <2>1. PICK n \in Counts : hm \in Tables(n) /\ Sound(hm) /\ held = Objects(hm)
    BY <1>1, <1>4 DEF Freep, Holds
  <2>2. ASSUME NEW o \in held'
        PROVE  FALSE
    <3>1. o \in held
      BY <1>4, <2>2 DEF Freep
    <3>2. PICK p \in Places(hm) : o = EntryAt(hm, p).data
      BY <2>1, <3>1 DEF Objects, DataOf, Pairs, PairOf
    <3> DEFINE i == p[1]  j == p[2]
    <3>3. /\ i \in 0 .. n - 1 /\ j \in 1 .. Len(hm.buckets[i].entries) /\ EntryAt(hm, p) = hm.buckets[i].entries[j]
          /\ hm.buckets[i].entries \in Seq(Entries) /\ DOMAIN hm.buckets = 0 .. n - 1
      BY <2>1, PlaceOf, PlacesOf
    <3> HIDE DEF i, j
    <3>4. hm.count # 0
      BY <2>1, FS_EmptySet DEF Sound
    <3>5. i \in Visited(hm)
      <4>1. hm.buckets[i].entries # <<>> /\ i >= i
        BY <3>3
      <4> QED
        BY <3>3, <3>4, <4>1 DEF Visited
    <3>6. EntryAt(hm, p) \in ToSet(hm.buckets[i].entries)
      BY <3>3 DEF ToSet
    <3>7. o \in UNION {{e.data : e \in ToSet(hm.buckets[m].entries)} : m \in Visited(hm)}
      BY <3>2, <3>5, <3>6
    <3> QED
      BY <1>4, <2>2, <3>7 DEF Freep
  <2>3. Open /\ ~Open' /\ held' = {} /\ last_set' = <<>>
    BY <1>4, <2>2 DEF Freep, Open
  <2> QED
    BY <2>3 DEF Exact, Changes, Closes
<1>5. ASSUME NEW k \in Key, Delete(k)
      PROVE  Exact' /\ Changes
  <2> DEFINE id == BucketOf(hm, k)
             b == hm.buckets[id]
  <2>1. Open /\ Holds(hm, held)
    BY <1>1, <1>5 DEF Delete
  <2>2. PICK i \in Found(b, k) :
          /\ EmptiesBuckets \/ Len(b.entries) > 1
          /\ held' = held \ {b.entries[i].data}
          /\ hm' = Deleted(hm, id, i, IF Len(b.entries) = 1 THEN "freed" ELSE b.array)
          /\ \E ret \in {0, 1} : Returns(k, <<>>, ret)
    BY <1>5 DEF Delete, Deleted
  <2> DEFINE array == IF Len(b.entries) = 1 THEN "freed" ELSE b.array
  <2>3. array \in Arrays
    <3>1. PICK n \in Counts : hm \in Tables(n)
      BY <2>1 DEF Holds
    <3>2. b.array \in Arrays
      BY <3>1, BucketIsOne, PlacesOf
    <3>3. Len(b.entries) = 1 => EmptiesBuckets
      BY <2>2
    <3> HIDE DEF b
    <3> QED
      BY <3>2, <3>3, HmapAssumption DEF Arrays
  <2>0. \E ret \in {0, 1} : Returns(k, <<>>, ret)
    BY <2>2
  <2> HIDE DEF array
  <2>4. /\ Holds(Deleted(hm, id, i, array), held \ {b.entries[i].data})
        /\ Pairs(Deleted(hm, id, i, array)) = Others(hm, k) /\ \E q \in Pairs(hm) : q[1] = k
    BY <2>1, <2>3, DeleteHolds
  <2>5. hm' = Deleted(hm, id, i, array) /\ held' = held \ {b.entries[i].data}
    BY <2>2 DEF array
  <2> HIDE DEF id, b
  <2>6. Exact' /\ Open'
    BY <2>4, <2>5, HeldIsExact
  <2> QED
    BY <2>0, <2>1, <2>4, <2>5, <2>6 DEF Changes, Drops
<1>5a. ASSUME NEW k \in Key, DeleteAbsent(k)
       PROVE  Exact' /\ Changes
  <2>1. /\ Open /\ Holds(hm, held) /\ Get(hm, k) = <<>>
        /\ hm' = hm /\ held' = held /\ Returns(k, <<>>, 0)
    BY <1>1, <1>5a DEF DeleteAbsent, Absent
  <2>2. Exact' /\ Open'
    BY <2>1, HeldIsExact
  <2>3. \A q \in Pairs(hm) : q[1] # k
    BY <2>1, VainIsAbsent DEF Holds
  <2>4. Pairs(hm') = Others(hm, k)
    BY <2>1, <2>3 DEF Others
  <2> QED
    BY <2>1, <2>2, <2>4 DEF Changes, Drops
<1>6. ASSUME NEW k \in Key, NEW d \in Fresh(k), Replace(k, d)
      PROVE  Exact' /\ Changes
  <2> DEFINE id == BucketOf(hm, k)
             b == hm.buckets[id]
  <2>1. Open /\ Holds(hm, held)
    BY <1>1, <1>6 DEF Replace
  <2>2. PICK i \in Found(b, k) :
          /\ held' = (held \ {b.entries[i].data}) \union {d}
          /\ hm' = Replaced(hm, id, i, d)
    BY <1>6 DEF Replace, Replaced
  <2>5. Returns(k, <<d>>, 0)
    BY <1>6 DEF Replace
  <2>3. /\ Holds(Replaced(hm, id, i, d), (held \ {b.entries[i].data}) \union {d})
        /\ Pairs(Replaced(hm, id, i, d)) = Others(hm, k) \union {<<k, d>>} /\ <<k, d>> \notin Pairs(hm)
    BY <1>2, <2>1, ReplaceHolds
  <2> HIDE DEF id, b
  <2>4. Exact' /\ Open'
    BY <2>2, <2>3, HeldIsExact
  <2> QED
    BY <1>2, <2>1, <2>2, <2>3, <2>4, <2>5 DEF Changes, Puts
<1>7. ASSUME NEW k \in Key, NEW d \in Fresh(k), Add(k, d) \/ AddCrowded(k, d)
      PROVE  Exact' /\ Changes
  <2>1. /\ Open /\ Holds(hm, held) /\ Get(hm, k) = <<>>
        /\ hm' = Appended(hm, k, d) /\ held' = held \union {d} /\ Returns(k, <<d>>, 0)
    BY <1>1, <1>7 DEF Add, AddCrowded, Absent, AddTo
  <2>2. /\ Holds(Appended(hm, k, d), held \union {d})
        /\ Pairs(Appended(hm, k, d)) = Others(hm, k) \union {<<k, d>>} /\ <<k, d>> \notin Pairs(hm)
    BY <1>2, <2>1, AddHolds
  <2>3. Exact' /\ Open'
    BY <2>1, <2>2, HeldIsExact
  <2> QED
    BY <1>2, <2>1, <2>2, <2>3 DEF Changes, Puts
<1>8. ASSUME NEW k \in Key, NEW d \in Fresh(k), AddResized(k, d)
      PROVE  Exact' /\ Changes
  <2> DEFINE h == Doubled(hm)
  <2>1. /\ Open /\ Holds(hm, held) /\ Get(hm, k) = <<>>
        /\ hm' = Appended(h, k, d) /\ held' = held \union {d} /\ Returns(k, <<d>>, 0)
    BY <1>1, <1>8 DEF AddResized, Absent, AddTo
  <2>2. Holds(h, held) /\ Pairs(h) = Pairs(hm) /\ Get(h, k) = <<>>
    BY <2>1, DoubleHolds
  <2> HIDE DEF h
  <2>3. /\ Holds(Appended(h, k, d), held \union {d})
        /\ Pairs(Appended(h, k, d)) = Others(h, k) \union {<<k, d>>} /\ <<k, d>> \notin Pairs(h)
    BY <1>2, <2>2, AddHolds
  <2>4. Exact' /\ Open'
    BY <2>1, <2>3, HeldIsExact
  <2>5. Others(h, k) = Others(hm, k)
    BY <2>2 DEF Others
  <2> QED
    BY <1>2, <2>1, <2>2, <2>3, <2>4, <2>5 DEF Changes, Puts
<1>9. ASSUME NEW k \in Key, NEW d \in Fresh(k), AddFails(k, d) \/ ResizeFails(k, d)
      PROVE  Exact' /\ Changes
  <2>1. /\ Open /\ Holds(hm, held) /\ Get(hm, k) = <<>> /\ held' = held /\ (hm' = hm \/ hm' = Doubled(hm))
        /\ Returns(k, <<d>>, -1)
    BY <1>1, <1>9 DEF AddFails, ResizeFails, Absent
  <2>2. Holds(Doubled(hm), held) /\ Pairs(Doubled(hm)) = Pairs(hm)
    BY <2>1, DoubleHolds
  <2>3. Exact' /\ Open'
    BY <2>1, <2>2, HeldIsExact
  <2>4. \A q \in Pairs(hm) : q[1] # k
    BY <2>1, VainIsAbsent DEF Holds
  <2> QED
    BY <1>2, <2>1, <2>2, <2>3, <2>4 DEF Changes, Refuses
<1>10. CASE UNCHANGED vars
  BY <1>10 DEF vars, Exact, Open
<1> QED
  BY <1>3, <1>4, <1>5, <1>5a, <1>6, <1>7, <1>8, <1>9, <1>10 DEF Next

(***************************************************************************)
(* Theorems                                                                *)
(***************************************************************************)
LEMMA AlwaysExact == Spec => []Exact
  BY InitExact, NextExact, PTL DEF Spec

(* EntriesAreExact: whatever the additions, the replacements, the          *)
(* deletions, the resizes and the allocations that fail in them, a walk    *)
(* meets each entry once, as many as the map counts, with the data a       *)
(* lookup of its key gives, and the objects the map was given and did not  *)
(* give back are those of its entries (hmap.c:153-288).                    *)
THEOREM EveryEntryIsMetOnce == Spec => []EntriesAreExact
<1>1. ASSUME Exact
      PROVE  EntriesAreExact
  <2>1. CASE ~Open
    BY <1>1, <2>1 DEF Exact, EntriesAreExact, WalkMeetsEachKey, HeldIsInMap
  <2>2. CASE Open
    <3> DEFINE w == Walk(hm)
    <3>1. PICK n \in Counts : hm \in Tables(n) /\ Sound(hm) /\ held = Objects(hm)
      BY <1>1, <2>2 DEF Exact, Holds
    <3>2. /\ w \in Seq(Entries) /\ Len(w) \in Nat /\ Len(w) = hm.count
          /\ \A i \in 1 .. Len(w) : \E p \in Places(hm) : w[i] = EntryAt(hm, p)
          /\ \A p \in Places(hm) : \E i \in 1 .. Len(w) : w[i] = EntryAt(hm, p)
          /\ \A i, j \in 1 .. Len(w) : w[i].key = w[j].key => i = j
      <4>1. Lists(w, hm, Places(hm))
        BY <3>1, WalkOf
      <4> HIDE DEF w
      <4> QED
        BY <3>1, <4>1, ListOf
    <3> HIDE DEF w
    <3>3. DOMAIN w = 1 .. Len(w)
      BY <3>2
    <3>4. ASSUME NEW i \in DOMAIN w
          PROVE  w[i].key \in Key /\ Get(hm, w[i].key) = <<w[i].data>>
      <4>1. PICK p \in Places(hm) : w[i] = EntryAt(hm, p)
        BY <3>2, <3>3
      <4>2. w[i].key \in Key
        BY <3>1, <4>1, PlaceOf DEF Entries
      <4> QED
        BY <3>1, <4>1, <4>2, LookupFinds
    <3>5. ASSUME NEW k \in Key
          PROVE  Cardinality({i \in DOMAIN w : w[i].key = k}) = Len(Get(hm, k))
      <4> DEFINE met == {i \in DOMAIN w : w[i].key = k}
      <4>1. CASE \A p \in Places(hm) : EntryAt(hm, p).key # k
        <5>1. met = {}
          BY <3>2, <3>3, <4>1
        <5>2. Get(hm, k) = <<>>
          BY <3>1, <4>1, LookupMisses
        <5> QED
          BY <5>1, <5>2, FS_EmptySet
      <4>2. CASE \E p \in Places(hm) : EntryAt(hm, p).key = k
        <5>1. PICK p \in Places(hm) : EntryAt(hm, p).key = k
          BY <4>2
        <5>2. PICK i \in 1 .. Len(w) : w[i] = EntryAt(hm, p)
          BY <3>2
        <5>3. met = {i}
          BY <3>2, <3>3, <5>1, <5>2
        <5>4. Get(hm, k) = <<EntryAt(hm, p).data>>
          BY <3>1, <5>1, LookupFinds
        <5> QED
          BY <5>3, <5>4, FS_Singleton
      <4> QED
        BY <4>1, <4>2
    <3>6. held = {e.data : e \in ToSet(w)}
      <4>1. held = {EntryAt(hm, p).data : p \in Places(hm)}
        <5>1. \A p \in Places(hm) : PairOf(hm, p)[2] = EntryAt(hm, p).data
          BY DEF PairOf
        <5> QED
          BY <3>1, <5>1 DEF Objects, DataOf, Pairs
      <4> QED
        BY <3>2, <3>3, <4>1 DEF ToSet
    <3> QED
      BY <2>2, <3>2, <3>4, <3>5, <3>6 DEF EntriesAreExact, WalkMeetsEachKey, HeldIsInMap, w
  <2> QED
    BY <2>1, <2>2
<1> QED
  BY <1>1, AlwaysExact, PTL

(* IsAMap: the hash map is the finite map its clients think of: a call     *)
(* changes what is found for its own key, to its own data, and nothing     *)
(* else; one that fails, after a resize or in it, changes nothing.         *)
THEOREM IsTheMapOfItsClients == Spec => IsAMap
<1>1. Init => KM!Init
  BY DEF Init, Open, KM!Init
<1>2. ASSUME NEW h, NEW objects, Holds(h, objects)
      PROVE  /\ PairsFound(h) = Pairs(h)
             /\ \A q \in Pairs(h) : q = <<q[1], q[2]>> /\ q[1] \in Key /\ q[2] \in Data
  <2>1. PICK n \in Counts : h \in Tables(n) /\ Sound(h)
    BY <1>2 DEF Holds
  <2>2. PairsFound(h) = Pairs(h)
    BY <2>1, LookupsFindAll
  <2>3. \A q \in Pairs(h) : q[1] \in Key /\ q[2] \in Data /\ q[2][1] = q[1] /\ q = <<q[1], q[2]>>
    BY <2>1, ObjectsOf
  <2> QED
    BY <2>2, <2>3
<1>3. ASSUME Exact, Exact', [Next]_vars
      PROVE  [KM!Next]_(KM!vars)
  <2> DEFINE map == IF Open THEN PairsFound(hm) ELSE {}
  <2>1. /\ Open => map = Pairs(hm) /\ \A q \in Pairs(hm) : q \in Key \X Data
        /\ ~Open => map = {}
    BY <1>2, <1>3 DEF Exact
  <2>2. /\ Open' => map' = Pairs(hm') /\ \A q \in Pairs(hm') : q \in Key \X Data
        /\ ~Open' => map' = {}
    BY <1>2, <1>3 DEF Exact
  <2>3. CASE Opens
    <3>1. KM!Create
      BY <2>1, <2>2, <2>3 DEF Opens, KM!Create, PairsFound
    <3> QED
      BY <3>1 DEF KM!Next
  <2>4. CASE Closes
    <3>1. KM!Destroy
      BY <2>2, <2>4 DEF Closes, KM!Destroy, PairsFound
    <3> QED
      BY <3>1 DEF KM!Next
  <2>5. CASE UNCHANGED vars
    BY <2>5 DEF vars, Open, PairsFound, KM!vars
  <2>6. ASSUME NEW k \in Key, NEW d \in Data, Puts(k, d)
        PROVE  KM!Next
    <3>1. Open /\ Open' /\ map = Pairs(hm) /\ map' = Others(hm, k) \union {<<k, d>>}
      BY <2>1, <2>2, <2>6 DEF Puts
    <3> HIDE DEF map
    <3>2. map' = (map \ {q \in map : q[1] = k}) \union {<<k, d>>}
      BY <3>1 DEF Others
    <3>3. Open' = Open
      BY <3>1 DEF Open
    <3> USE DEF map
    <3>4. KM!Put(k, d)
      BY <2>6, <3>1, <3>2, <3>3 DEF Puts, Returns, KM!Put, KM!At, KM!Called, PairsFound
    <3> QED
      BY <3>4 DEF KM!Next
  <2>7. ASSUME NEW k \in Key, NEW d \in Data, Refuses(k, d)
        PROVE  KM!Next
    <3>1. Open /\ Open' /\ map' = map /\ \A q \in map : q[1] # k
      BY <2>1, <2>2, <2>7 DEF Refuses
    <3> HIDE DEF map
    <3>2. {q \in map : q[1] = k} = {} /\ Open' = Open
      BY <3>1 DEF Open
    <3> USE DEF map
    <3>3. KM!Refuse(k, d)
      BY <2>7, <3>1, <3>2 DEF Refuses, Returns, KM!Refuse, KM!At, KM!Called, PairsFound
    <3> QED
      BY <3>3 DEF KM!Next
  <2>8. ASSUME NEW k \in Key, Drops(k)
        PROVE  KM!Next
    <3>1. PICK ret \in {0, 1} : (ret = 1 => \E q \in Pairs(hm) : q[1] = k) /\ Returns(k, <<>>, ret)
      BY <2>8 DEF Drops
    <3>2. Open /\ Open' /\ map = Pairs(hm) /\ map' = Others(hm, k)
      BY <2>1, <2>2, <2>8 DEF Drops
    <3> HIDE DEF map
    <3>3. /\ map' = map \ {q \in map : q[1] = k} /\ Open' = Open
          /\ ret = 1 => {q \in map : q[1] = k} # {}
      BY <3>1, <3>2 DEF Others, Open
    <3> USE DEF map
    <3>4. KM!Remove(k)
      BY <3>1, <3>2, <3>3 DEF Returns, KM!Remove, KM!At, KM!Called, PairsFound
    <3> QED
      BY <3>4 DEF KM!Next
  <2> QED
    BY <1>3, <2>3, <2>4, <2>5, <2>6, <2>7, <2>8, NextExact DEF Changes
<1> QED
  BY <1>1, <1>3, AlwaysExact, PTL DEF Spec, IsAMap, KM!Spec

(* NoFreedArrayUsed: as long as no client deletes the last entry of a      *)
(* bucket, no array of a bucket is reallocated, read or freed after it was *)
(* freed, through resizes and the allocations that fail (hmap.c:91-148).   *)
THEOREM FreedArraysAreLeftAlone ==
  ASSUME ~EmptiesBuckets
  PROVE  Spec => []NoFreedArrayUsed
<1>1. \A a \in Arrays : a # "freed"
  BY DEF Arrays
<1>2. ASSUME Exact, Open
      PROVE  /\ \A k \in Key : ~Touches(hm.buckets[BucketOf(hm, k)])
             /\ ~FreesFreed(hm)
  <2>1. PICK n \in Counts : hm \in Tables(n)
    BY <1>2 DEF Exact, Holds
  <2>2. DOMAIN hm.buckets = 0 .. n - 1 /\ \A i \in 0 .. n - 1 : ~Touches(hm.buckets[i])
    BY <1>1, <2>1, PlacesOf DEF Touches
  <2>3. \A k \in Key : BucketOf(hm, k) \in 0 .. n - 1
    BY <2>1, BucketIsOne
  <2>4. Visited(hm) \subseteq DOMAIN hm.buckets
    BY DEF Visited
  <2> QED
    BY <2>2, <2>3, <2>4 DEF FreesFreed
<1>3. Init => NoFreedArrayUsed
  BY DEF Init, NoFreedArrayUsed
<1>4. ASSUME Exact, NoFreedArrayUsed, [Next]_vars
      PROVE  NoFreedArrayUsed'
  <2> USE <1>2, <1>4 DEF NoFreedArrayUsed
  <2>1. CASE Create
    BY <2>1 DEF Create
  <2>2. CASE Freep
    BY <2>2 DEF Freep
  <2>3. ASSUME NEW k \in Key, Delete(k)
        PROVE  ~misused'
    BY <2>3 DEF Delete
  <2>4. ASSUME NEW k \in Key, NEW d \in Fresh(k), AddFails(k, d) \/ ResizeFails(k, d)
        PROVE  ~misused'
    BY <2>4 DEF AddFails, ResizeFails, Absent
  <2>4a. ASSUME NEW k \in Key, DeleteAbsent(k)
         PROVE  ~misused'
    BY <2>4a DEF DeleteAbsent
  <2>5. ASSUME NEW k \in Key, NEW d \in Fresh(k),
               Replace(k, d) \/ Add(k, d) \/ AddResized(k, d) \/ AddCrowded(k, d)
        PROVE  ~misused'
    BY <2>5 DEF Replace, Add, AddResized, AddCrowded, Absent
  <2>6. CASE UNCHANGED vars
    BY <2>6 DEF vars
  <2> QED
    BY <2>1, <2>2, <2>3, <2>4, <2>4a, <2>5, <2>6 DEF Next
<1> QED
  BY <1>3, <1>4, AlwaysExact, PTL DEF Spec

(***************************************************************************)
(* The animations                                                          *)
(***************************************************************************)
(* The search finds the last key frame reached, if it is not before the    *)
(* one it starts from.                                                     *)
LEMMA SearchFindsLast ==
  ASSUME NEW kfs \in Seq(KeyFrame), InOrder(kfs), NEW t \in Int, NEW start \in Nat \ {0},
         NEW m \in Reached(kfs, t), \A j \in Reached(kfs, t) : j <= m
  PROVE  KfId(kfs, start, t) = IF start <= m THEN m ELSE 0
<1> DEFINE found == {i \in start .. Len(kfs) : \A j \in start .. i : TimeOf[kfs[j]] <= t}
<1>1. Len(kfs) \in Nat /\ DOMAIN kfs = 1 .. Len(kfs) /\ m \in 1 .. Len(kfs)
  BY LenProperties DEF Reached
<1>2. \A i \in 1 .. Len(kfs) : TimeOf[kfs[i]] \in Int
  BY <1>1, AnimationAssumption, ElementOfSeq
<1>3. ASSUME NEW i \in found
      PROVE  i \in Reached(kfs, t) /\ i <= m /\ start <= m
  BY <1>1 DEF Reached
<1>4. CASE start <= m
  <2>1. m \in found
    <3>1. ASSUME NEW j \in start .. m
          PROVE  TimeOf[kfs[j]] <= t
      <4>1. j \in 1 .. Len(kfs) /\ j <= m
        BY <1>1
      <4>2. TimeOf[kfs[j]] <= TimeOf[kfs[m]] /\ TimeOf[kfs[m]] <= t
        BY <1>1, <4>1 DEF InOrder, Reached
      <4> QED
        BY <1>1, <1>2, <4>1, <4>2
    <3> QED
      BY <1>1, <1>4, <3>1
  <2>2. \A i \in found : i \in Int /\ i <= m
    BY <1>1, <1>3
  <2> HIDE DEF found
  <2>3. \A i \in found : (\A j \in found : j <= i) => i = m
    BY <1>1, <2>1, <2>2
  <2>4. (CHOOSE i \in found : \A j \in found : j <= i) = m
    BY <2>1, <2>2, <2>3
  <2> QED
    BY <1>4, <2>1, <2>4 DEF KfId, found
<1>5. CASE ~(start <= m)
  <2>1. found = {}
    BY <1>3, <1>5
  <2> QED
    BY <1>5, <2>1 DEF KfId
<1> QED
  BY <1>4, <1>5

(* Going on from the current key frame finds what a search from the first  *)
(* one would.                                                              *)
LEMMA CacheIsHarmless ==
  ASSUME NEW s \in Animations, InOrder(s.kfs), NEW t \in Int
  PROVE  /\ Reached(s.kfs, t) = {} => CachedKfId(s, t) = 0
         /\ \A m \in Reached(s.kfs, t) :
              (\A j \in Reached(s.kfs, t) : j <= m) => CachedKfId(s, t) = m
<1>1. /\ s.kfs \in Seq(KeyFrame) /\ s.current \in Nat \ {0}
      /\ Len(s.kfs) \in Nat /\ DOMAIN s.kfs = 1 .. Len(s.kfs)
  BY LenProperties DEF Animations
<1>2. CASE Reached(s.kfs, t) = {}
  <2>1. ASSUME NEW start \in Nat \ {0}
        PROVE  KfId(s.kfs, start, t) = 0
    <3> DEFINE found == {i \in start .. Len(s.kfs) : \A j \in start .. i : TimeOf[s.kfs[j]] <= t}
    <3>1. found = {}
      <4>1. ASSUME NEW i \in found
            PROVE  i \in Reached(s.kfs, t)
        BY <1>1 DEF Reached
      <4> QED
        BY <1>2, <4>1
    <3> QED
      BY <3>1 DEF KfId
  <2> QED
    BY <1>1, <1>2, <2>1 DEF CachedKfId
<1>3. ASSUME NEW m \in Reached(s.kfs, t), \A j \in Reached(s.kfs, t) : j <= m
      PROVE  CachedKfId(s, t) = m
  <2>1. m \in 1 .. Len(s.kfs)
    BY <1>1 DEF Reached
  <2>2. /\ KfId(s.kfs, s.current, t) = IF s.current <= m THEN m ELSE 0
        /\ KfId(s.kfs, 1, t) = IF 1 <= m THEN m ELSE 0
    BY <1>1, <1>3, SearchFindsLast
  <2> QED
    BY <1>1, <2>1, <2>2 DEF CachedKfId
<1> QED
  BY <1>2, <1>3

(* The key frames reached have a last one.                                 *)
LEMMA LastReached ==
  ASSUME NEW kfs \in Seq(KeyFrame), NEW t \in Int, Reached(kfs, t) # {}
  PROVE  \E m \in Reached(kfs, t) : \A j \in Reached(kfs, t) : j <= m
<1>1. Len(kfs) \in Int /\ Reached(kfs, t) \in SUBSET (1 .. Len(kfs))
  BY LenProperties DEF Reached
<1> DEFINE S == Reached(kfs, t)
<1> HIDE DEF S
<1>2. 1 \in Int /\ S \in SUBSET (1 .. Len(kfs)) /\ S # {}
  BY <1>1 DEF S
<1>3. \E m \in S : \A j \in S : j <= m
  BY <1>1, <1>2, GreatestExists
<1> QED
  BY <1>3 DEF S

(* An evaluation computes what is expected of it when its key frames are   *)
(* initialised.                                                            *)
LEMMA EvaluationIsExact ==
  ASSUME NEW s \in Animations, s.kfs # <<>>, InOrder(s.kfs), NEW t \in Int,
         NEW callable, KeyFramesOf(s.kfs) \subseteq callable
  PROVE  Evaluation(s, t, callable) = Expected(s.kfs, t)
<1> DEFINE kfs == s.kfs
<1>1. /\ kfs \in Seq(KeyFrame) /\ Len(kfs) \in Nat \ {0} /\ DOMAIN kfs = 1 .. Len(kfs)
  BY LenProperties, EmptySeq DEF Animations
<1>2. \A i \in 1 .. Len(kfs) : TimeOf[kfs[i]] \in Int
  BY <1>1, AnimationAssumption, ElementOfSeq
<1>3. CASE Reached(kfs, t) = {}
  <2>1. ~Between(s, t)
    BY <1>1, <1>3, CacheIsHarmless DEF Between
  <2>2. t < TimeOf[kfs[1]]
    BY <1>1, <1>2, <1>3 DEF Reached
  <2> QED
    BY <1>3, <2>1, <2>2 DEF Evaluation, Expected
<1>4. CASE Reached(kfs, t) # {}
  <2>1. PICK m \in Reached(kfs, t) : \A j \in Reached(kfs, t) : j <= m
    BY <1>1, <1>4, LastReached
  <2>2. CachedKfId(s, t) = m
    BY <2>1, CacheIsHarmless
  <2>3. m \in 1 .. Len(kfs) /\ TimeOf[kfs[m]] <= t
    BY <1>1 DEF Reached
  <2> DEFINE id == CHOOSE i \in Reached(kfs, t) : \A j \in Reached(kfs, t) : j <= i
  <2>4. id = m
    <3>1. \A i \in Reached(kfs, t) : i \in Int
      BY <1>1 DEF Reached
    <3>2. \A i \in Reached(kfs, t) : (\A j \in Reached(kfs, t) : j <= i) => i = m
      BY <2>1, <3>1
    <3> QED
      BY <2>1, <3>2
  <2>5. Expected(kfs, t) = IF m = Len(kfs) THEN Copy(kfs[m]) ELSE Result("mix", kfs[m], kfs[m + 1])
    <3>1. Expected(kfs, t) = IF id = Len(kfs) THEN Copy(kfs[id]) ELSE Result("mix", kfs[id], kfs[id + 1])
      BY <1>4 DEF Expected
    <3> HIDE DEF id
    <3> QED
      BY <2>4, <3>1
  <2>6. CASE m = Len(kfs)
    <3>1. ~Between(s, t)
      BY <1>1, <2>2, <2>6 DEF Between
    <3>2. TimeOf[kfs[1]] <= TimeOf[kfs[m]]
      BY <1>1, <2>3 DEF InOrder
    <3>3. ~(t < TimeOf[kfs[1]])
      BY <1>1, <1>2, <2>3, <3>2
    <3> QED
      BY <2>5, <2>6, <3>1, <3>3 DEF Evaluation
  <2>7. CASE m # Len(kfs)
    <3>1. Between(s, t) /\ m + 1 \in DOMAIN kfs
      BY <1>1, <2>2, <2>3, <2>7 DEF Between
    <3>2. kfs[m + 1] \in callable
      BY <3>1 DEF KeyFramesOf
    <3> QED
      BY <2>2, <2>5, <2>7, <3>1, <3>2 DEF Evaluation
  <2> QED
    BY <2>6, <2>7
<1> QED
  BY <1>3, <1>4

(* What an evaluation returns, and what it leaves of its animation.        *)
LEMMA EvaluationType ==
  ASSUME NEW s \in Animations, s.kfs # <<>>, InOrder(s.kfs), NEW t \in Int, NEW callable
  PROVE  /\ Evaluation(s, t, callable) \in Results
         /\ Evaluated(s, t) \in Animations
         /\ Evaluated(s, t).kfs = s.kfs
         /\ Evaluation(s, t, callable).kind = "mix" =>
              /\ TimeOf[Evaluation(s, t, callable).from] <= t
              /\ t < TimeOf[Evaluation(s, t, callable).to]
<1> DEFINE kfs == s.kfs
           id == CachedKfId(s, t)
<1>1. /\ kfs \in Seq(KeyFrame) /\ Len(kfs) \in Nat \ {0} /\ DOMAIN kfs = 1 .. Len(kfs)
  BY LenProperties, EmptySeq DEF Animations
<1>2. \A i \in 1 .. Len(kfs) : kfs[i] \in KeyFrame /\ TimeOf[kfs[i]] \in Int
  BY <1>1, AnimationAssumption, ElementOfSeq
<1>3. CASE Between(s, t)
  <2>1. id \in 1 .. Len(kfs) - 1 /\ id \in Nat \ {0}
    BY <1>1, <1>3 DEF Between
  <2>2. Reached(kfs, t) # {}
    BY <2>1, CacheIsHarmless
  <2>3. PICK m \in Reached(kfs, t) : \A j \in Reached(kfs, t) : j <= m
    BY <1>1, <2>2, LastReached
  <2>4. id = m
    BY <2>3, CacheIsHarmless
  <2>5. TimeOf[kfs[id]] <= t
    BY <2>4 DEF Reached
  <2>6. t < TimeOf[kfs[id + 1]]
    <3>1. id + 1 \notin Reached(kfs, t) /\ id + 1 \in DOMAIN kfs
      BY <1>1, <2>1, <2>3, <2>4
    <3> QED
      BY <1>1, <1>2, <3>1 DEF Reached
  <2>7. kfs[id] \in KeyFrame /\ kfs[id + 1] \in KeyFrame
    BY <1>1, <1>2, <2>1
  <2> DEFINE kind == IF kfs[id + 1] \in callable THEN "mix" ELSE "crash"
  <2>8. Evaluation(s, t, callable) = Result(kind, kfs[id], kfs[id + 1])
    BY <1>3 DEF Evaluation
  <2>9. kind \in Kind
    BY DEF Kind
  <2>10. Evaluated(s, t) = [s EXCEPT !.current = id]
    BY <1>3 DEF Evaluated
  <2> HIDE DEF kind, id
  <2>11. Evaluated(s, t) \in Animations /\ Evaluated(s, t).kfs = s.kfs
    BY <2>1, <2>10 DEF Animations
  <2> QED
    BY <2>5, <2>6, <2>7, <2>8, <2>9, <2>11 DEF Results, Result
<1>4. CASE ~Between(s, t)
  <2>1. PICK k \in KeyFrame : Evaluation(s, t, callable) = Copy(k)
    BY <1>1, <1>2, <1>4 DEF Evaluation
  <2>2. Copy(k) \in Results /\ Copy(k).kind = "copy"
    BY DEF Copy, Result, Results, Kind
  <2> QED
    BY <1>4, <2>1, <2>2 DEF Evaluated
<1> QED
  BY <1>3, <1>4

(***************************************************************************)
(* The evaluation of an animation: the inductive invariant                 *)
(***************************************************************************)

(* The lists that were accepted are in order, and the scene evaluates its  *)
(* own key frames, all of them initialised.                                *)
Accepted ==
  /\ \A a \in Anim : InOrder(anim[a].kfs) /\ InOrder(anim_eval[a].kfs)
  /\ scene # NoAnim => anim[scene].kfs = animkf[scene] /\ KeyFramesOf(animkf[scene]) \subseteq function

AnimationInvariant == TypeOK /\ Accepted /\ RatioDefined

LEMMA ZeroedType == Zeroed \in Animations /\ InOrder(Zeroed.kfs)
  BY DEF Zeroed, Animations, InOrder

LEMMA AnimationEstablishes == AnimationInit => AnimationInvariant
<1> SUFFICES ASSUME AnimationInit PROVE AnimationInvariant
  OBVIOUS
<1> USE DEF AnimationInit
<1>1. value \in [by : {"none", "draw", "evaluate"}, anim : Anim \union {NoAnim}, t : Int,
                 out : Results] /\ value.out.kind # "mix"
  BY DEF Nothing, Result, Results, Kind
<1>2. TypeOK
  BY <1>1, AnimationAssumption, ZeroedType DEF TypeOK
<1> QED
  BY <1>1, <1>2, ZeroedType DEF AnimationInvariant, Accepted, RatioDefined

LEMMA SetScenePreserves ==
  ASSUME AnimationInvariant, NEW a \in Anim \union {NoAnim}, SetScene(a)
  PROVE  AnimationInvariant'
<1> USE DEF AnimationInvariant
<1> DEFINE refused == a # NoAnim /\ ~InOrder(animkf[a])
           attached == IF refused THEN NoAnim ELSE a
           reset == {scene} \union (IF refused THEN {a} ELSE {})
           uninit == UNION {KeyFramesOf(animkf[b]) : b \in reset \intersect Anim}
           started == [kfs |-> animkf[attached], current |-> 1]
<1>1. /\ UNCHANGED <<animkf, value>> /\ scene' = attached
      /\ anim' = [b \in Anim |-> IF b = attached THEN [kfs |-> animkf[b], current |-> 1]
                                 ELSE IF b \in reset THEN Zeroed ELSE anim[b]]
      /\ anim_eval' = [b \in Anim |-> IF b \in reset THEN Zeroed ELSE anim_eval[b]]
      /\ function' = (function \ uninit)
                     \union (IF attached = NoAnim THEN {} ELSE KeyFramesOf(animkf[attached]))
  BY DEF SetScene
<1>2. attached \in Anim \union {NoAnim} /\ (attached # NoAnim => InOrder(animkf[attached]))
  OBVIOUS
<1> HIDE DEF attached, reset, uninit
<1>3. \A b \in Anim : KeyFramesOf(animkf[b]) \subseteq KeyFrame
  BY ElementOfSeq, LenProperties DEF TypeOK, KeyFramesOf
<1>4. \A b \in Anim : [kfs |-> animkf[b], current |-> 1] \in Animations
  BY DEF TypeOK, Animations
<1>5. TypeOK'
  <2>1. anim' \in [Anim -> Animations] /\ anim_eval' \in [Anim -> Animations]
    BY <1>1, <1>4, ZeroedType DEF TypeOK
  <2>2. function' \subseteq KeyFrame
    BY <1>1, <1>2, <1>3 DEF TypeOK
  <2> QED
    BY <1>1, <1>2, <2>1, <2>2 DEF TypeOK
<1>6. Accepted'
  <2>1. ASSUME NEW b \in Anim
        PROVE  InOrder(anim'[b].kfs) /\ InOrder(anim_eval'[b].kfs)
    <3>1. CASE b = attached
      <4>1. anim'[b].kfs = animkf[b] /\ InOrder(animkf[b])
        BY <1>1, <1>2, <3>1, AnimationAssumption
      <4> QED
        BY <1>1, <4>1, ZeroedType DEF Accepted
    <3>2. CASE b # attached
      BY <1>1, <3>2, ZeroedType DEF Accepted
    <3> QED
      BY <3>1, <3>2
  <2>2. ASSUME attached # NoAnim
        PROVE  anim'[attached].kfs = animkf[attached] /\ KeyFramesOf(animkf[attached]) \subseteq function'
    BY <1>1, <1>2, <2>2
  <2>3. \A b \in Anim : InOrder(anim[b].kfs)' /\ InOrder(anim_eval[b].kfs)'
    BY <2>1 DEF InOrder
  <2> QED
    BY <1>1, <2>2, <2>3 DEF Accepted, KeyFramesOf
<1>7. RatioDefined'
  BY <1>1 DEF RatioDefined
<1> QED
  BY <1>5, <1>6, <1>7

LEMMA AnimationPreserves == AnimationInvariant /\ [AnimationNext]_animationVars => AnimationInvariant'
<1> SUFFICES ASSUME AnimationInvariant, [AnimationNext]_animationVars
             PROVE  AnimationInvariant'
  OBVIOUS
<1> USE DEF AnimationInvariant
<1>1. ASSUME NEW a \in Anim \union {NoAnim}, SetScene(a)
      PROVE  AnimationInvariant'
  BY <1>1, SetScenePreserves
<1>2. ASSUME NEW t \in Time, Draw(t)
      PROVE  AnimationInvariant'
  <2> DEFINE s == anim[scene]
             out == Evaluation(s, t, function)
  <2>1. /\ scene \in Anim /\ s \in Animations /\ s.kfs # <<>> /\ InOrder(s.kfs) /\ t \in Int
        /\ anim' = [anim EXCEPT ![scene] = Evaluated(s, t)]
        /\ value' = [by |-> "draw", anim |-> scene, t |-> t, out |-> out]
        /\ UNCHANGED <<animkf, anim_eval, function, scene>>
    BY <1>2, AnimationAssumption DEF Draw, TypeOK, Accepted
  <2>2. /\ out \in Results /\ Evaluated(s, t) \in Animations /\ Evaluated(s, t).kfs = s.kfs
        /\ out.kind = "mix" => TimeOf[out.from] <= t /\ t < TimeOf[out.to]
    BY <2>1, EvaluationType
  <2> HIDE DEF s, out
  <2>3. TypeOK'
    BY <2>1, <2>2 DEF TypeOK
  <2>4. Accepted'
    <3>1. \A a \in Anim : anim'[a].kfs = anim[a].kfs
      BY <2>1, <2>2 DEF TypeOK, s
    <3> QED
      BY <2>1, <3>1 DEF Accepted, InOrder, KeyFramesOf
  <2> QED
    BY <2>1, <2>2, <2>3, <2>4 DEF RatioDefined
<1>3. ASSUME NEW t \in Time, NEW a \in Anim, Evaluate(a, t)
      PROVE  AnimationInvariant'
  <2> DEFINE s == SetUp(a)
             callable == Callable(a)
  <2>1. s \in Animations /\ s.kfs # <<>> /\ InOrder(s.kfs)
    BY <1>3 DEF Evaluate, SetUp, TypeOK, Accepted, Animations
  <2>2. callable \subseteq KeyFrame /\ function \subseteq callable
    BY ElementOfSeq, LenProperties DEF Callable, TypeOK, KeyFramesOf
  <2>3. PICK out \in {Evaluation(s, t, callable)} \union (IF s.kfs = animkf[a] THEN {} ELSE {Garbage}) :
          value' = [by |-> "evaluate", anim |-> a, t |-> t, out |-> out]
    BY <1>3 DEF Evaluate
  <2>4. /\ function' = callable /\ anim_eval' = [anim_eval EXCEPT ![a] = Evaluated(s, t)]
        /\ UNCHANGED <<animkf, anim, scene>> /\ t \in Int
    BY <1>3, AnimationAssumption DEF Evaluate
  <2> HIDE DEF s, callable
  <2>5. /\ out \in Results /\ Evaluated(s, t) \in Animations /\ Evaluated(s, t).kfs = s.kfs
        /\ out.kind = "mix" => TimeOf[out.from] <= t /\ t < TimeOf[out.to]
    <3>1. Garbage \in Results /\ Garbage.kind # "mix"
      BY DEF Garbage, Result, Results, Kind
    <3> QED
      BY <2>1, <2>3, <2>4, <3>1, EvaluationType, SMTT(30)
  <2>6. TypeOK'
    BY <2>2, <2>3, <2>4, <2>5 DEF TypeOK
  <2>7. Accepted'
    <3>1. \A b \in Anim : InOrder(anim_eval'[b].kfs)
      BY <2>1, <2>4, <2>5 DEF TypeOK, Accepted
    <3> QED
      BY <2>2, <2>4, <3>1 DEF Accepted, InOrder, KeyFramesOf
  <2> QED
    BY <2>3, <2>5, <2>6, <2>7 DEF RatioDefined
<1>4. ASSUME NEW a \in Anim, NEW k \in KeyFrame, AddKeyFrame(a, k)
      PROVE  AnimationInvariant'
  <2>1. Append(animkf[a], k) \in Seq(KeyFrame)
    BY DEF TypeOK
  <2>2. animkf' = [animkf EXCEPT ![a] = Append(@, k)] /\ scene # a
        /\ UNCHANGED <<anim, anim_eval, function, scene, value>>
    BY <1>4 DEF AddKeyFrame
  <2>3. TypeOK'
    BY <2>1, <2>2 DEF TypeOK
  <2>4. scene # NoAnim => animkf'[scene] = animkf[scene]
    BY <2>2 DEF TypeOK
  <2> QED
    BY <2>2, <2>3, <2>4 DEF Accepted, InOrder, KeyFramesOf, RatioDefined
<1>5. CASE UNCHANGED animationVars
  BY <1>5 DEF animationVars, TypeOK, Accepted, InOrder, KeyFramesOf, RatioDefined
<1> QED
  BY <1>1, <1>2, <1>3, <1>4, <1>5, AnimationAssumption DEF AnimationNext

LEMMA AnimationHolds == AnimationSpec => []AnimationInvariant
  BY AnimationEstablishes, AnimationPreserves, PTL DEF AnimationSpec

(***************************************************************************)
(* The theorems about the evaluations                                      *)
(***************************************************************************)

(* MixIsDefined: no evaluation divides by a zero distance between two key  *)
(* frames, nor extrapolates (animation.c:50-64), though key frames may     *)
(* share a time and the search may start from any of them.                 *)
THEOREM MixIsDefined == AnimationSpec => []RatioDefined
<1>1. AnimationInvariant => RatioDefined
  BY DEF AnimationInvariant
<1> QED
  BY <1>1, AnimationHolds, PTL

(* DrawsAreExact: for any key frames and any sequence of draws, seeks,     *)
(* evaluations and scene changes, the value a draw computes is the one its *)
(* time and the key frames of the node determine (animation.c:41-72).      *)
THEOREM DrawsAreExact == AnimationSpec => DrawExact
<1> DEFINE AsExpected == value'.by = "draw" /\ value' # value
                    => value'.out = Expected(animkf[value'.anim], value'.t)
<1>1. AnimationInvariant /\ [AnimationNext]_animationVars => [AsExpected]_animationVars
  <2> SUFFICES ASSUME AnimationInvariant, AnimationNext
               PROVE  AsExpected
    OBVIOUS
  <2> USE DEF AnimationInvariant
  <2>1. ASSUME NEW t \in Time, Draw(t)
        PROVE  AsExpected
    <3>1. /\ scene \in Anim /\ anim[scene] \in Animations /\ anim[scene].kfs # <<>>
          /\ InOrder(anim[scene].kfs) /\ anim[scene].kfs = animkf[scene]
          /\ KeyFramesOf(anim[scene].kfs) \subseteq function /\ t \in Int
      BY <2>1, AnimationAssumption DEF Draw, TypeOK, Accepted
    <3>2. Evaluation(anim[scene], t, function) = Expected(animkf[scene], t)
      BY <3>1, EvaluationIsExact
    <3> QED
      BY <2>1, <3>2 DEF Draw
  <2>2. CASE \E a \in Anim \union {NoAnim} : SetScene(a)
    BY <2>2 DEF SetScene
  <2>3. CASE \E t \in Time, a \in Evaluable : Evaluate(a, t)
    BY <2>3 DEF Evaluate
  <2>4. CASE \E a \in Extensible, k \in KeyFrame : AddKeyFrame(a, k)
    BY <2>4 DEF AddKeyFrame
  <2> QED
    BY <2>1, <2>2, <2>3, <2>4, AnimationAssumption DEF AnimationNext
<1> HIDE DEF AsExpected
<1>2. AnimationSpec => [][AsExpected]_animationVars
  BY <1>1, AnimationHolds, PTL DEF AnimationSpec
<1> QED
  BY <1>2, Zenon DEF DrawExact, AsExpected

(***************************************************************************)
(* The dispatch of a command: the invariant of the two threads             *)
(***************************************************************************)

(* A thread that works under the lock holds it.                            *)
LockHeld ==
  /\ ctl = "checking" <=> lock = "controller"
  /\ wkr \in {"checking", "ran", "leaving"} <=> lock = "worker"

InDispatch == ctl \in {"checking", "waiting", "woken"}

(* What the controller may rely on at each point of dispatch_cmd, before   *)
(* and after the worker has run the command of the current call.           *)
ControllerPhase ==
  /\ ctl = "idle" => request = "work"
  /\ ctl \in {"idle", "locking", "reading", "joining", "freed"} => cmd_func = "null"
  /\ ctl \in {"idle", "joining", "freed"} => runs = call /\ cmd_ret = call /\ returned = call
  /\ ctl = "locking" => runs = call - 1 /\ cmd_ret = call - 1
  /\ ctl = "reading" => runs = call /\ cmd_ret = call
  /\ ctl \in {"locking", "checking", "waiting", "woken", "reading"}
       => call >= 1 /\ returned = call - 1
  /\ ctl \in {"joining", "freed"} => request = "stop"
  /\ InDispatch /\ cmd_func = "null" => runs = call /\ cmd_ret = call
  /\ InDispatch /\ cmd_func # "null" =>
        /\ cmd_arg = call /\ cmd_func = request
        /\ wkr = "ran" => runs = call /\ cmd_ret = call
        /\ wkr # "ran" => runs = call - 1 /\ cmd_ret = call - 1

(* What the worker has seen of the commands.                               *)
WorkerPhase ==
  /\ wkr = "ran" => cmd_func # "null" /\ ctl \in {"waiting", "woken"}
  /\ wkr \in {"leaving", "unlocking", "exited"} =>
        /\ request = "stop" /\ cmd_func = "null"
        /\ ctl \notin {"idle", "locking"}
  /\ ctl = "freed" => wkr = "exited"
  /\ live <=> ctl # "freed"

DispatchInvariant == DispatchTypeOK /\ LockHeld /\ ControllerPhase /\ WorkerPhase

LEMMA DispatchEstablishes == DispatchInit => DispatchInvariant
  BY CallsAssumption
  DEF DispatchInit, DispatchInvariant, DispatchTypeOK, Thread, LockHeld, InDispatch,
      ControllerPhase, WorkerPhase

(* Every step of either thread keeps the invariant.                        *)
LEMMA DispatchPreserves == DispatchInvariant /\ [DispatchNext]_dispatchVars => DispatchInvariant'
<1> SUFFICES ASSUME DispatchInvariant, [DispatchNext]_dispatchVars
             PROVE  DispatchInvariant'
  OBVIOUS
<1> USE CallsAssumption
    DEF DispatchInvariant, DispatchTypeOK, Thread, LockHeld, InDispatch, ControllerPhase,
        WorkerPhase, shared
<1>1. ASSUME NEW f \in {"work", "stop"}, Dispatch(f)
      PROVE  DispatchInvariant'
  BY <1>1 DEF Dispatch
<1>2. CASE SetCommand
  BY <1>2 DEF SetCommand, WorkerSignalled
<1>3. CASE WaitForResult
  BY <1>3 DEF WaitForResult
<1>4. CASE ControllerRelocks
  BY <1>4 DEF ControllerRelocks
<1>5. CASE ResultThere
  BY <1>5 DEF ResultThere
<1>6. CASE ReturnResult
  BY <1>6 DEF ReturnResult
<1>7. CASE JoinWorker
  BY <1>7 DEF JoinWorker
<1>8. CASE WorkerLocks
  BY <1>8 DEF WorkerLocks
<1>9. CASE WaitForCommand
  BY <1>9 DEF WaitForCommand
<1>10. CASE RunCommand
  BY <1>10 DEF RunCommand
<1>11. CASE CommandDone
  BY <1>11 DEF CommandDone, ControllerSignalled
<1>12. CASE WorkerUnlocks
  BY <1>12 DEF WorkerUnlocks
<1>13. CASE WorkerExits
  BY <1>13 DEF WorkerExits
<1>14. CASE Spurious
  BY <1>14 DEF Spurious
<1>15. CASE UNCHANGED dispatchVars
  BY <1>15 DEF dispatchVars
<1> QED
  BY <1>1, <1>2, <1>3, <1>4, <1>5, <1>6, <1>7, <1>8, <1>9, <1>10, <1>11, <1>12, <1>13, <1>14,
     <1>15
  DEF DispatchNext, Controller, Worker

LEMMA DispatchHolds == DispatchSpec => []DispatchInvariant
  BY DispatchEstablishes, DispatchPreserves, PTL DEF DispatchSpec

(***************************************************************************)
(* The theorems about the dispatch                                         *)
(***************************************************************************)

(* ControllerIsBlocked: whatever the interleaving of the two threads and   *)
(* the spurious wake-ups, the controller waits in dispatch_cmd for the     *)
(* very command that runs (api.c:217-251), so its argument is still there. *)
THEOREM ControllerIsBlocked == DispatchSpec => []ControllerWaits
<1>1. DispatchInvariant => ControllerWaits
  BY DEF DispatchInvariant, DispatchTypeOK, InDispatch, ControllerPhase, WorkerPhase,
     ControllerWaits
<1> QED
  BY <1>1, DispatchHolds, PTL

(* SafeDestruction: the lock and the conditions are destroyed when the     *)
(* worker has left them for good (stop_thread, api.c:289-296).             *)
THEOREM SafeDestruction == DispatchSpec => []DestroyedUnused
<1>1. DispatchInvariant => DestroyedUnused
  BY DEF DispatchInvariant, DispatchTypeOK, Thread, LockHeld, WorkerPhase, DestroyedUnused
<1> QED
  BY <1>1, DispatchHolds, PTL

(* CallsAreSynchronous: the two threads together implement a synchronous   *)
(* call: each command runs once, in order, before its call returns, and    *)
(* the call returns the result of its own command (api.c:217-251).         *)
THEOREM CallsAreSynchronous == DispatchSpec => Synchronous
<1>1. DispatchInit => Caller!Init
  BY DEF DispatchInit, Caller!Init
<1>2. DispatchInvariant /\ [DispatchNext]_dispatchVars => [Caller!Next]_(Caller!vars)
  <2> SUFFICES ASSUME DispatchInvariant, [DispatchNext]_dispatchVars
               PROVE  [Caller!Next]_(Caller!vars)
    OBVIOUS
  <2> USE DEF DispatchInvariant, DispatchTypeOK, Caller!vars
  <2>1. ASSUME NEW f \in {"work", "stop"}, Dispatch(f)
        PROVE  Caller!Request
    BY <2>1 DEF Dispatch, Caller!Request, ControllerPhase, shared
  <2>2. CASE RunCommand
    <3>1. wkr = "checking" /\ cmd_func # "null"
      BY <2>2 DEF RunCommand
    <3>2. InDispatch
      BY <3>1 DEF ControllerPhase, InDispatch
    <3>3. cmd_arg = call /\ runs = call - 1 /\ call \in Nat /\ returned = call - 1
      BY <3>1, <3>2, CallsAssumption DEF ControllerPhase, InDispatch
    <3>4. runs < call
      BY <3>3
    <3>5. cmd_ret' = call /\ runs' = runs + 1 /\ UNCHANGED <<call, returned>>
      BY <2>2, <3>3 DEF RunCommand
    <3> QED
      BY <3>4, <3>5 DEF Caller!Execute, Caller!Next
  <2>3. CASE ReturnResult
    <3>1. ctl = "reading" /\ returned' = cmd_ret /\ UNCHANGED <<call, runs, cmd_ret>>
      BY <2>3 DEF ReturnResult, shared
    <3>2. runs = call /\ cmd_ret = call /\ returned = call - 1 /\ call \in Nat
      BY <3>1, CallsAssumption DEF ControllerPhase
    <3> QED
      BY <3>1, <3>2 DEF Caller!Respond, Caller!Next
  <2>4. CASE \/ SetCommand \/ WaitForResult \/ ControllerRelocks
             \/ ResultThere \/ JoinWorker \/ WorkerLocks \/ WaitForCommand
             \/ CommandDone \/ WorkerUnlocks \/ WorkerExits
             \/ Spurious \/ UNCHANGED dispatchVars
    BY <2>4 DEF SetCommand, WaitForResult, ControllerRelocks, ResultThere,
       JoinWorker, WorkerLocks, WaitForCommand, CommandDone, WorkerUnlocks,
       WorkerExits, Spurious, dispatchVars, shared
  <2> QED
    BY <2>1, <2>2, <2>3, <2>4 DEF DispatchNext, Controller, Worker, Caller!Next
<1> QED
  BY <1>1, <1>2, DispatchHolds, PTL DEF DispatchSpec, Synchronous, Caller!Spec

=============================================================================
