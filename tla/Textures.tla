------------------------------- MODULE Textures -------------------------------
(***************************************************************************)
(* The texture structures and the GL textures they stand for               *)
(* (libnodegl/texture.c, image.c).  A structure is known by its address: a *)
(* texture node has one of its own, an upload class allocates others.      *)
(* The operators take and return the part t of the state they are about:   *)
(*                                                                         *)
(*   t.mem     the structures that are allocated                           *)
(*   t.names   the GL textures that exist                                  *)
(*   t.units   what each texture unit has bound to each target             *)
(*   t.images  the textures bound to the image units                       *)
(*   t.active  the active texture unit                                     *)
(*   t.row_length  whether GL can be told the stride of the rows           *)
(*                                                                         *)
(* The content of a texture is where each of its rows was read, as offsets *)
(* in bytes into the data it was last filled with.                         *)
(***************************************************************************)
EXTENDS Integers, FiniteSetsExt, Functions

CONSTANTS
  Unit      \* the texture units a pipeline may take: 64 in the code

ASSUME TexturesAssumption == IsFiniteSet(Unit) /\ Unit \subseteq Nat /\ 0 \in Unit

Target == {"2d", "3d", "cube", "oes", "rectangle"}

(* struct texture_params: depth is 0 in two dimensions.  external textures *)
(* get their storage from elsewhere.                                       *)
Params2d(w, h, bpp) == [dimensions |-> 2, width |-> w, height |-> h, depth |-> 0,
                        bytes_per_pixel |-> bpp, cubemap |-> FALSE, external |-> FALSE]

External2d == [Params2d(0, 0, 1) EXCEPT !.external = TRUE]

NoParams  == [Params2d(0, 0, 0) EXCEPT !.dimensions = 0]
NoContent == <<>>

(* A zeroed structure; its target is none of GL's.                         *)
ZeroTexture == [target |-> "none", id |-> 0, params |-> NoParams, content |-> NoContent]

NewTextures(addresses, image_units, row_length) ==
  [mem    |-> [a \in addresses |-> ZeroTexture],
   names  |-> {},
   units  |-> [u \in Unit |-> [g \in Target |-> 0]],
   images |-> [b \in image_units |-> 0],
   active |-> 0,
   row_length |-> row_length]

(* glBindTexture, of the active unit.  A target that is none fails.        *)
Bound(t, target, id) ==
  IF target \in Target THEN [t EXCEPT !.units[t.active][target] = id] ELSE t

(* glGenTextures gives the smallest name that is free.                     *)
FreshTexture(t) == Min(1..(Cardinality(t.names) + 1) \ t.names)

(***************************************************************************)
(* ngli_texture_init, whose parameters are those of an image with a size,  *)
(* or of one that is filled by others                                      *)
(***************************************************************************)
TargetOf(params) == IF params.cubemap THEN "cube" ELSE IF params.dimensions = 3 THEN "3d" ELSE "2d"

HasStorage(params) ==
  params.external \/ (params.width > 0 /\ params.height > 0 /\ (params.dimensions = 3 => params.depth > 0))

(* texture_init_fields.                                                    *)
InitFields(params) ==
  [ZeroTexture EXCEPT !.target = TargetOf(params), !.params = params]

InitTexture(t, a, params) ==
  LET id == FreshTexture(t)
      s  == [InitFields(params) EXCEPT !.id = id]
  IN  Bound([t EXCEPT !.mem[a] = s, !.names = @ \union {id}], s.target, id)

(***************************************************************************)
(* ngli_texture_reset: a name that is deleted is bound nowhere any more,   *)
(* and the name 0 of a structure that is zeroed is ignored                 *)
(***************************************************************************)
Unbound(f, gone) == [i \in DOMAIN f |-> IF f[i] \in gone THEN 0 ELSE f[i]]

(* Several, one after the other.                                           *)
ResetTextures(t, S) ==
  LET gone == {t.mem[a].id : a \in S} IN
  [t EXCEPT !.mem = [a \in DOMAIN @ |-> IF a \in S THEN ZeroTexture ELSE @[a]], !.names = @ \ gone,
            !.units = [u \in Unit |-> Unbound(@[u], gone)], !.images = Unbound(@, gone)]

(***************************************************************************)
(* texture_set_sub_image: the rows are uploaded one by one when GL cannot  *)
(* be told their stride.  linesize is in pixels, 0 for that of the width.  *)
(***************************************************************************)
Layer(params) ==
  IF params.cubemap THEN 0..5 ELSE IF params.dimensions = 3 THEN 0..params.depth - 1 ELSE {0}

LowestBit(x) == Max({b \in {1, 2, 4, 8} : x % b = 0})

(* What GL skips from a row to the next within one call.                   *)
UnpackStride(row, alignment) == ((row + alignment - 1) \div alignment) * alignment

(* Mutant: the rows are given to GL in one call, whatever their stride.    *)
SubImage_InOneCall(params, linesize, row_length) ==
  LET pixels == IF linesize = 0 THEN params.width ELSE linesize
      bytes  == pixels * params.bytes_per_pixel
      given  == IF row_length THEN bytes ELSE params.width * params.bytes_per_pixel
      skip   == UnpackStride(given, LowestBit(bytes))
  IN  [r \in Layer(params) \X (0..params.height - 1) |-> r[1] * bytes * params.height + r[2] * skip]

SubImage(params, linesize, row_length) ==
  LET pixels    == IF linesize = 0 THEN params.width ELSE linesize
      bytes     == pixels * params.bytes_per_pixel
      alignment == LowestBit(bytes)
      one_call  == row_length \/ pixels = params.width
      skip      == IF one_call THEN UnpackStride(bytes, alignment) ELSE bytes
  IN  [r \in Layer(params) \X (0..params.height - 1) |-> r[1] * bytes * params.height + r[2] * skip]

(* ngli_texture_upload, of data whose rows are linesize pixels long.       *)
UploadTexture(t, a, linesize) ==
  LET s == t.mem[a] IN
  Bound([t EXCEPT !.mem[a].content = SubImage(s.params, linesize, t.row_length)], s.target, 0)

(* ngli_texture_upload with no data.                                       *)
TouchTexture(t, a) == Bound(t, t.mem[a].target, 0)

(***************************************************************************)
(* Images                                                                  *)
(***************************************************************************)
NoImage == [layout |-> "none", planes |-> <<>>, size |-> <<0, 0, 0>>]

(* ngli_image_init.                                                        *)
ImageOf(layout, planes, size) == [layout |-> layout, planes |-> planes, size |-> size]

SizeOf(params) == <<params.width, params.height, params.depth>>

=============================================================================
