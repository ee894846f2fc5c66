------------------------------- MODULE GpuData -------------------------------
(***************************************************************************)
(* The data of the nodes that feed the shaders, and their copies in GL     *)
(* buffers (libnodegl/node_uniform.c, node_animated.c, node_streamed.c,    *)
(* node_buffer.c, node_animatedbuffer.c, node_block.c, buffer.c): how each *)
(* node is updated for a time, what a block copies of its fields, and when *)
(* the buffer of a block or of a buffer node is created, uploaded, deleted.*)
(*                                                                         *)
(* The operators map a store d (see Stored) to the one the function leaves;*)
(* module Passes calls them in the order of pass.c.                        *)
(***************************************************************************)
EXTENDS Integers, SequencesExt

CONSTANTS
  Uniform,     \* the Uniform nodes: constant but for live changes
  Animated,    \* the nodes evaluated from key frames, variables and buffers
  Streamed,    \* the Streamed nodes
  Static,      \* the Buffer nodes with constant data
  Block,       \* the Block nodes
  Fields,      \* the fields of each block
  Buffer,      \* the animated and constant nodes that are buffers
  BlockOf,     \* the block of each buffer node that references one
  Timestamps,  \* the timestamps of each streamed node
  Time         \* the times of the frames

DataNode == Uniform \union Animated \union Streamed \union Static
Node     == DataNode \union Block \union DOMAIN BlockOf
Resource == Block \union Buffer
Never    == -1    \* last_update_time of a node that has none
NoBuffer == <<>>  \* no GL buffer

(* check_timestamps_buffer: there are some, in order.                      *)
TimestampsInOrder(ts) == ts # <<>> /\ \A i \in DOMAIN ts : \A j \in 1 .. i : ts[j] <= ts[i]

(* A node is of one class.                                                 *)
Classes == <<Uniform, Animated, Streamed, Static, Block, DOMAIN BlockOf>>

ASSUME GpuDataAssumption ==
  /\ \A i, j \in DOMAIN Classes : i # j => Classes[i] \intersect Classes[j] = {}
  /\ Buffer \subseteq Animated \union Static
  /\ Fields \in [Block -> Seq(DataNode)]
  /\ BlockOf \in [DOMAIN BlockOf -> Block]
  /\ \A n \in DOMAIN BlockOf : Fields[BlockOf[n]] # <<>>
  /\ Timestamps \in [Streamed -> Seq(Nat)]
  /\ \A n \in Streamed : TimestampsInOrder(Timestamps[n])
  /\ Time \subseteq Nat

(* has_changed_uniform and has_changed_buffer: the dynamic nodes.          *)
Dynamic == Animated \union Streamed

(***************************************************************************)
(* The value of a node, told apart as far as the properties need: the      *)
(* frame time of what was evaluated, the chunk of a streamed node, the     *)
(* version of a parameter.  Data that were never written are 0.            *)
(***************************************************************************)
ChunkAt(n, t) ==
  LET due == {i \in DOMAIN Timestamps[n] : Timestamps[n][i] <= t}
  IN  IF due = {} THEN 1 ELSE CHOOSE i \in due : \A j \in due : j <= i

ValueAt(n, t, param) ==
  CASE n \in Animated -> t + 1
    [] n \in Streamed -> ChunkAt(n, t)
    [] OTHER          -> param[n]

(* What a compute shader stores in a field.                                *)
Computed == -1

Stored == [
  last     : [Node -> Time \union {Never}],      \* node->last_update_time
  val      : [DataNode -> Nat],                  \* the data of the node
  live     : SUBSET Uniform,                     \* variable_priv.live_changed
  index    : [Streamed -> Nat \ {0}],            \* variable_priv.last_index
  data     : [Block -> Seq(Nat)],                \* block_priv.data, by field
  changed  : SUBSET Block,                       \* block_priv.has_changed
  refs     : [Resource -> Nat],                  \* buffer_refcount
  gpu      : [Resource -> Seq(Int)],             \* the content of the GL buffer
  uploaded : [Resource -> Nat \union {Never}],   \* buffer_last_upload_time
  failed   : BOOLEAN]                            \* the function returned an error

NoData ==
  [last     |-> [n \in Node |-> Never],
   val      |-> [n \in DataNode |-> 0],
   live     |-> {},
   index    |-> [n \in Streamed |-> 1],
   data     |-> [b \in Block |-> [i \in DOMAIN Fields[b] |-> 0]],
   changed  |-> {},
   refs     |-> [r \in Resource |-> 0],
   gpu      |-> [r \in Resource |-> NoBuffer],
   uploaded |-> [r \in Resource |-> 0],
   failed   |-> FALSE]

(***************************************************************************)
(* The initialisation.  A uniform takes its parameter and a buffer its     *)
(* data; animated and streamed nodes wait for their first update.          *)
(***************************************************************************)
UniformInit(param, n) == param[n]
BufferInit(param, n)  == param[n]

InitialValue(d, n, param) ==
  CASE n \in Uniform -> UniformInit(param, n)
    [] n \in Static  -> BufferInit(param, n)
    [] OTHER         -> d.val[n]

(* A block copies all its fields (update_block_data, forced).              *)
BlockInit(val, b) == [i \in DOMAIN Fields[b] |-> val[Fields[b][i]]]

(* The nodes S, children first.                                            *)
InitNodes(d, S, param) ==
  LET val == [n \in DataNode |-> IF n \in S THEN InitialValue(d, n, param) ELSE d.val[n]]
  IN  [d EXCEPT !.val = val,
                !.data = [b \in Block |-> IF b \in S THEN BlockInit(val, b) ELSE d.data[b]],
                !.changed = @ \union (S \intersect Block)]

(* Their private data are zeroed.                                          *)
UninitNodes(d, S) ==
  [d EXCEPT !.last = [n \in Node |-> IF n \in S THEN Never ELSE @[n]],
            !.val = [n \in DataNode |-> IF n \in S THEN 0 ELSE @[n]],
            !.live = @ \ S,
            !.index = [n \in Streamed |-> IF n \in S THEN 1 ELSE @[n]],
            !.data = [b \in Block |-> IF b \in S THEN NoData.data[b] ELSE @[b]],
            !.changed = @ \ S,
            !.uploaded = [r \in Resource |-> IF r \in S THEN 0 ELSE @[r]]]

(* node_release: an idle node has no update time.                          *)
ReleaseNodes(d, S) ==
  [d EXCEPT !.last = [n \in Node |-> IF n \in S THEN Never ELSE @[n]]]

(***************************************************************************)
(* The buffers                                                             *)
(***************************************************************************)
(* A buffer node that references a block has the buffer of the block.      *)
Target(n) == IF n \in DOMAIN BlockOf THEN BlockOf[n] ELSE n

Content(d, r) == IF r \in Block THEN d.data[r] ELSE <<d.val[r]>>

(* Mutant: the buffer that is created keeps the upload time of the last.   *)
Ref_KeepsUploadTime(d, n) ==
  LET r == Target(n)
  IN  IF d.refs[r] = 0
        THEN [d EXCEPT !.refs[r] = 1, !.gpu[r] = Content(d, r)]
        ELSE [d EXCEPT !.refs[r] = @ + 1]

(* ngli_node_buffer_ref and ngli_node_block_ref.                           *)
Ref(d, n) ==
  LET r == Target(n)
  IN  IF d.refs[r] = 0
        THEN [d EXCEPT !.refs[r] = 1, !.gpu[r] = Content(d, r), !.uploaded[r] = Never]
        ELSE [d EXCEPT !.refs[r] = @ + 1]

(* ngli_node_buffer_unref and ngli_node_block_unref.                       *)
Unref(d, n) ==
  LET r == Target(n)
  IN  [d EXCEPT !.refs[r] = @ - 1, !.gpu[r] = IF d.refs[r] = 1 THEN NoBuffer ELSE @]

(* Mutant: a block is uploaded whether its data have changed or not.       *)
UploadBlock_Always(d, b) ==
  IF d.uploaded[b] # d.last[b]
    THEN [d EXCEPT !.gpu[b] = Content(d, b), !.uploaded[b] = d.last[b]]
    ELSE d

(* ngli_node_block_upload.                                                 *)
UploadBlock(d, b) ==
  IF b \in d.changed /\ d.uploaded[b] # d.last[b]
    THEN [d EXCEPT !.gpu[b] = Content(d, b), !.uploaded[b] = d.last[b], !.changed = @ \ {b}]
    ELSE d

(* ngli_node_buffer_upload of a node with data of its own.                 *)
UploadBuffer(d, n) ==
  IF n \in Animated /\ d.uploaded[n] # d.last[n]
    THEN [d EXCEPT !.gpu[n] = Content(d, n), !.uploaded[n] = d.last[n]]
    ELSE d

Upload(d, n) == IF Target(n) \in Block THEN UploadBlock(d, Target(n)) ELSE UploadBuffer(d, n)

(***************************************************************************)
(* The updates                                                             *)
(***************************************************************************)
(* get_data_index from a starting point; 0 stands for -1.                  *)
DataIndex(n, start, t) ==
  LET end == {i \in start .. Len(Timestamps[n]) : Timestamps[n][i] > t}
  IN  IF end = {} THEN Len(Timestamps[n])
      ELSE LET i == CHOOSE i \in end : \A j \in end : i <= j
           IN  IF i = start THEN 0 ELSE i - 1

StreamedIndex(n, last, t) ==
  LET i == DataIndex(n, last, t)
      j == IF i # 0 THEN i ELSE DataIndex(n, 1, t)
  IN  IF j # 0 THEN j ELSE 1

(* uniform_update: a live change was seen by the blocks of its last frame. *)
UniformUpdate(d, n) == [d EXCEPT !.live = @ \ {n}]

(* animatedbuffer_update and the updates of the animated variables.        *)
AnimatedUpdate(d, n, t) == [d EXCEPT !.val[n] = t + 1]

(* streamed_update.                                                        *)
StreamedUpdate(d, n, t) ==
  LET i == StreamedIndex(n, d.index[n], t) IN [d EXCEPT !.index[n] = i, !.val[n] = i]

Evaluate(d, n, t) ==
  CASE n \in Uniform  -> UniformUpdate(d, n)
    [] n \in Animated -> AnimatedUpdate(d, n, t)
    [] n \in Streamed -> StreamedUpdate(d, n, t)

(* ngli_node_update of such a node, which fails when it is one of bad; a   *)
(* constant buffer has no update callback.                                 *)
UpdateData(d, n, t, bad) ==
  IF d.failed \/ n \in Static \/ d.last[n] = t THEN d
  ELSE IF n \in bad THEN [d EXCEPT !.failed = TRUE]
  ELSE [Evaluate(d, n, t) EXCEPT !.last[n] = t]

(* update_block_data after the update of the fields.                       *)
CopyFields(d, b) ==
  LET copied == {i \in DOMAIN Fields[b] : Fields[b][i] \in Dynamic \union d.live}
  IN  [d EXCEPT !.data[b] = [i \in DOMAIN Fields[b] |->
                                IF i \in copied THEN d.val[Fields[b][i]] ELSE @[i]],
                !.changed = IF copied = {} THEN @ ELSE @ \union {b}]

(* The update of the fields of a block, in order.                          *)
UpdateFields(d, fields, t, bad) == FoldLeft(LAMBDA e, n : UpdateData(e, n, t, bad), d, fields)

(* ngli_node_update of a block.                                            *)
UpdateBlock(d, b, t, bad) ==
  IF d.failed \/ d.last[b] = t THEN d
  ELSE LET fields == UpdateFields(d, Fields[b], t, bad)
       IN  IF fields.failed THEN fields
           ELSE [CopyFields(fields, b) EXCEPT !.last[b] = t]

(* A buffer node that references a block has no update callback: the block *)
(* is left as the passes that declare it have updated it.                  *)
UpdateNode(d, n, t, bad) ==
  CASE n \in Block           -> UpdateBlock(d, n, t, bad)
    [] n \in DOMAIN BlockOf  -> d
    [] OTHER                 -> UpdateData(d, n, t, bad)

(***************************************************************************)
(* ngl_node_param_set on a uniform of the scene (set_live_changed): the    *)
(* data are written at once, last_update_time is left alone.               *)
(***************************************************************************)
SetLive(d, n, v) == [d EXCEPT !.val[n] = v, !.live = @ \union {n}]

=============================================================================
