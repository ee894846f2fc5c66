-------------------------------- MODULE KeyMap --------------------------------
(***************************************************************************)
(* What the clients of a hash map rely on (libnodegl/hmap.h): a finite map *)
(* from keys to data.  A call to ngli_hmap_set changes it at the key of    *)
(* the call only, to the data of the call; a call that fails changes       *)
(* nothing, and only one that adds a key may fail.                         *)
(***************************************************************************)
EXTENDS Integers

CONSTANTS Key, Data

VARIABLES
  open,     \* whether there is a map
  map,      \* its pairs of a key and its data
  last_set  \* the last call to ngli_hmap_set on it, with its result

vars == <<open, map, last_set>>

(* data is <<>> for a deletion; ret is negative for a failure.             *)
Called(k, data, ret) == [key |-> k, data |-> data, ret |-> ret]

Init == ~open /\ map = {} /\ last_set = <<>>

At(k) == {p \in map : p[1] = k}

Create == ~open /\ open' /\ UNCHANGED <<map, last_set>>

Put(k, d) ==
  /\ open
  /\ map' = (map \ At(k)) \union {<<k, d>>}
  /\ last_set' = Called(k, <<d>>, 0)
  /\ UNCHANGED open

Refuse(k, d) ==
  /\ open
  /\ At(k) = {}
  /\ last_set' = Called(k, <<d>>, -1)
  /\ UNCHANGED <<open, map>>

(* 1 tells that a pair was deleted; 0 tells nothing.                       *)
Remove(k) ==
  /\ open
  /\ map' = map \ At(k)
  /\ \E ret \in {0, 1} :
       /\ ret = 1 => At(k) # {}
       /\ last_set' = Called(k, <<>>, ret)
  /\ UNCHANGED open

Destroy == open /\ ~open' /\ map' = {} /\ last_set' = <<>>

Next ==
  \/ Create
  \/ \E k \in Key : Remove(k) \/ \E d \in Data : Put(k, d) \/ Refuse(k, d)
  \/ Destroy

Spec == Init /\ [][Next]_vars

=============================================================================
