------------------------------- MODULE HwUpload -------------------------------
(***************************************************************************)
(* The frames of a Media and the textures they are uploaded to             *)
(* (libnodegl/node_media.c, node_texture.c, hwupload.c and its classes,    *)
(* hwconv.c, image.c, texture.c): who holds a frame between the player     *)
(* that hands it out and its release, and what the image of a texture      *)
(* points to.                                                              *)
(*                                                                         *)
(* The scene is reduced to its Texture and Media nodes; modules NodeGraph  *)
(* and NodeActivity say when their callbacks are called.  A step is a      *)
(* callback, or a part of an upload that may fail on its own.              *)
(***************************************************************************)
EXTENDS Integers, FiniteSetsExt

CONSTANTS
  Tex,              \* the Texture nodes
  Media,            \* the Media nodes
  NoTex,            \* no texture
  Frame,            \* the frames of the players
  NoFrame,          \* the NULL frame
  KindOf,           \* the class that uploads a frame, and its dimensions
  DataSrcs,         \* the ways the textures name their media
  Streams,          \* what the players may hand out, sets of frames
  InitMayFail,      \* the classes whose init may fail before any plane is there
  HalfInitMayFail,  \* the classes whose init may fail after the first plane
  MapMayFail,       \* the classes whose map_frame may fail
  ConvMayFail       \* the classes whose images may fail to be converted

(* The classes of hwupload_class_map; "unsupported" is a pixel format of   *)
(* the player without a class, "unexpected" one that media_update refuses. *)
Class   == {"common", "mediacodec", "vaapi", "vt_darwin", "vt_ios"}
Owner   == {"vaapi", "vt_darwin"}   \* HWMAP_FLAG_FRAME_OWNER
Private == Owner \union {"vt_ios"}  \* the planes are private data of the class

ClassOf(f) == KindOf[f].class
SizeOf(f)  == KindOf[f].size

ASSUME UploadAssumption ==
  /\ NoTex \notin Tex
  /\ Tex \intersect Media = {}
  /\ NoFrame \notin Frame
  /\ IsFiniteSet(Tex) /\ IsFiniteSet(Media)
  /\ KindOf \in [Frame -> [class : Class \union {"unsupported", "unexpected"}, size : Nat \ {0}]]
  /\ DataSrcs \subseteq [Tex -> Media]
  /\ Streams \subseteq SUBSET Frame
  /\ InitMayFail \subseteq Class
  /\ HalfInitMayFail \subseteq Owner
  /\ MapMayFail \subseteq Private
  /\ ConvMayFail \subseteq Class \ {"common"}

VARIABLES
  data_src,        \* the media of each texture
  stream,          \* the frames the players hand out
  direct,          \* the textures whose shaders sample every layout themselves
  state,           \* node->state
  active,          \* the textures that are active in the frame of the scene
  todo,            \* those the frame still has to update
  updated,         \* the media it has updated
  pc,              \* where the command in progress stands
  cur,             \* the texture in texture_update
  frame,           \* the local variable frame of ngli_hwupload_upload_frame
  out,             \* the frames each player has handed out and not got back
  released_twice,  \* TRUE once a frame was given back that was not out
  media_frame,     \* media_priv.frame
  hwupload,        \* texture_priv.hwupload
  texture,         \* the textures whose texture_priv.texture is initialised
  image,           \* texture_priv.image
  gl_textures,     \* the number of GL textures that exist
  latest,          \* the last frame of each media since it was prefetched
  failed           \* the textures whose last upload failed

params     == <<data_src, stream, direct>>
frameVars  == <<out, released_twice, media_frame, latest>>
uploadVars == <<hwupload, texture, image, gl_textures, failed>>
sceneVars  == <<active, todo, updated>>
vars       == <<params, frameVars, uploadVars, sceneVars, state, pc, cur, frame>>

(* A zeroed struct hwupload.  planes is the number of GL textures of its   *)
(* private data, frame the one they map, size that of mapped_image.        *)
Zeroed == [class |-> "none", size |-> 0, planes |-> 0, frame |-> NoFrame,
           require_hwconv |-> FALSE, hwconv |-> FALSE]

(* What the planes of an image are: the texture of the node, the private   *)
(* ones of the upload class, or the android_texture of the media.          *)
NoImage == [planes |-> "none", ts |-> NoFrame]

Init ==
  /\ data_src \in DataSrcs
  /\ stream \in Streams
  /\ direct \in SUBSET Tex
  /\ state = [n \in Tex \union Media |-> "UNINITIALIZED"]
  /\ active = {} /\ todo = {} /\ updated = {}
  /\ pc = "idle" /\ cur = NoTex
  /\ frame = NoFrame
  /\ out = [m \in Media |-> {}]
  /\ released_twice = FALSE
  /\ media_frame = [m \in Media |-> NoFrame]
  /\ latest = [m \in Media |-> NoFrame]
  /\ hwupload = [x \in Tex |-> Zeroed]
  /\ texture = {}
  /\ image = [x \in Tex |-> NoImage]
  /\ gl_textures = 0
  /\ failed = {}

TexturesOf(m) == {x \in Tex : data_src[x] = m}
Wanted(m)     == TexturesOf(m) \intersect active # {}

(* On Android a Media owns the texture its surface renders to.             *)
Android == \E f \in stream : ClassOf(f) = "mediacodec"

(* sxplayer_release_frame, which accepts NULL.                             *)
Release(m, f) ==
  /\ out' = [out EXCEPT ![m] = @ \ {f}]
  /\ released_twice' = (released_twice \/ (f # NoFrame /\ f \notin out[m]))

(***************************************************************************)
(* ngli_hwupload_uninit: uninit is only called on a class whose init       *)
(* succeeded, the private data are freed in any case.                      *)
(***************************************************************************)
Initialized(x) == hwupload[x].class # "none"
PlanesFreed(x) == IF Initialized(x) THEN hwupload[x].planes ELSE 0

(* Mutant: the next image is taken for one that can be converted already.  *)
HwuploadUninit_KeepsHwconv(x) ==
  /\ hwupload' = [hwupload EXCEPT ![x] = [Zeroed EXCEPT !.hwconv = hwupload[x].hwconv]]
  /\ Release(data_src[x], IF Initialized(x) THEN hwupload[x].frame ELSE NoFrame)

HwuploadUninit(x) ==
  /\ hwupload' = [hwupload EXCEPT ![x] = Zeroed]
  /\ Release(data_src[x], IF Initialized(x) THEN hwupload[x].frame ELSE NoFrame)

(* The number of GL textures behind s->texture.                            *)
Own(x) == IF x \in texture THEN 1 ELSE 0

(***************************************************************************)
(* The scene: attach, detach, and the choice of the active textures        *)
(***************************************************************************)
(* media_init and texture2d_init.                                          *)
Attach ==
  /\ pc = "idle"
  /\ \A n \in DOMAIN state : state[n] = "UNINITIALIZED"
  /\ state' = [n \in DOMAIN state |-> "INITIALIZED"]
  /\ gl_textures' = gl_textures + (IF Android THEN Cardinality(Media) ELSE 0)
  /\ UNCHANGED <<params, frameVars, hwupload, texture, image, failed, sceneVars, pc, cur, frame>>

Attached == \A n \in DOMAIN state : state[n] # "UNINITIALIZED"

Detach ==
  /\ pc = "idle"
  /\ Attached
  /\ pc' = "detach"
  /\ UNCHANGED <<params, frameVars, uploadVars, sceneVars, state, cur, frame>>

(* A frame needs the textures of "wanted" and updates those of "drawn":    *)
(* an idle TimeRangeFilter keeps a texture that is not updated.            *)
Visit(wanted, drawn) ==
  /\ pc = "idle"
  /\ Attached
  /\ active' = wanted
  /\ todo' = drawn
  /\ updated' = {}
  /\ pc' = "honor"
  /\ UNCHANGED <<params, frameVars, uploadVars, state, cur, frame>>

(* The children of a node are queued before it, and detached after it.     *)
MediaHonored(m) == state[m] = "READY" <=> Wanted(m)
Honored(x)      == state[x] = "READY" <=> x \in active

FrameHonored ==
  /\ pc = "honor"
  /\ \A m \in Media : MediaHonored(m)
  /\ \A x \in Tex : Honored(x)
  /\ pc' = "update"
  /\ UNCHANGED <<params, frameVars, uploadVars, sceneVars, state, cur, frame>>

SceneDetached ==
  /\ pc = "detach"
  /\ \A n \in DOMAIN state : state[n] = "UNINITIALIZED"
  /\ pc' = "idle"
  /\ UNCHANGED <<params, frameVars, uploadVars, sceneVars, state, cur, frame>>

(* The frame ends, or is given up as another node failed to update.        *)
EndFrame ==
  /\ pc = "update"
  /\ todo' = {}
  /\ pc' = "idle"
  /\ UNCHANGED <<params, frameVars, uploadVars, active, updated, state, cur, frame>>

(***************************************************************************)
(* Media                                                                   *)
(***************************************************************************)
MediaPrefetch(m) ==
  /\ pc = "honor" /\ Wanted(m)
  /\ state[m] = "INITIALIZED"
  /\ state' = [state EXCEPT ![m] = "READY"]
  /\ UNCHANGED <<params, frameVars, uploadVars, sceneVars, pc, cur, frame>>

MediaRelease(m) ==
  /\ pc = "honor" /\ ~Wanted(m)
  /\ state[m] = "READY"
  /\ state' = [state EXCEPT ![m] = "INITIALIZED"]
  /\ Release(m, media_frame[m])
  /\ media_frame' = [media_frame EXCEPT ![m] = NoFrame]
  /\ latest' = [latest EXCEPT ![m] = NoFrame]
  /\ UNCHANGED <<params, uploadVars, sceneVars, pc, cur, frame>>

(* media_uninit, after media_release for a media that is ready.            *)
MediaUninit(m) ==
  /\ pc = "detach"
  /\ state[m] # "UNINITIALIZED"
  /\ \A x \in TexturesOf(m) : state[x] = "UNINITIALIZED"
  /\ state' = [state EXCEPT ![m] = "UNINITIALIZED"]
  /\ Release(m, IF state[m] = "READY" THEN media_frame[m] ELSE NoFrame)
  /\ media_frame' = [media_frame EXCEPT ![m] = IF state[m] = "READY" THEN NoFrame ELSE @]
  /\ latest' = [latest EXCEPT ![m] = NoFrame]
  /\ gl_textures' = gl_textures - (IF Android THEN 1 ELSE 0)
  /\ UNCHANGED <<params, hwupload, texture, image, failed, sceneVars, pc, cur, frame>>

(* media_update: the frame nobody took goes back, and the player may have  *)
(* a new one.  One of an unexpected kind is not stored, and the pointer to *)
(* the frame that was just released stays.                                 *)
MediaUpdate(got) ==
  LET m == data_src[cur]
      old == media_frame[m]
      refused == got # NoFrame /\ ClassOf(got) = "unexpected"
  IN
  /\ pc = "media"
  /\ got \notin UNION {out[n] : n \in Media}
  /\ out' = [out EXCEPT ![m] = (@ \ {old}) \union ({got} \ {NoFrame})]
  /\ released_twice' = (released_twice \/ (old # NoFrame /\ old \notin out[m]))
  /\ media_frame' = [media_frame EXCEPT ![m] = IF refused THEN @ ELSE got]
  /\ latest' = [latest EXCEPT ![m] = IF refused \/ got = NoFrame THEN @ ELSE got]
  /\ updated' = IF refused THEN updated ELSE updated \union {m}
  /\ todo' = IF refused THEN {} ELSE todo
  /\ pc' = IF refused THEN "idle" ELSE "take"
  /\ UNCHANGED <<params, uploadVars, active, state, cur, frame>>

(***************************************************************************)
(* Texture                                                                 *)
(***************************************************************************)
(* texture_prefetch leaves a texture fed by a media as it is.              *)
TexturePrefetch(x) ==
  /\ pc = "honor" /\ x \in active
  /\ MediaHonored(data_src[x])
  /\ state[x] = "INITIALIZED"
  /\ state' = [state EXCEPT ![x] = "READY"]
  /\ UNCHANGED <<params, frameVars, uploadVars, sceneVars, pc, cur, frame>>

(* texture_release.                                                        *)
ReleaseTexture(x) ==
  /\ HwuploadUninit(x)
  /\ texture' = texture \ {x}
  /\ image' = [image EXCEPT ![x] = NoImage]
  /\ gl_textures' = gl_textures - PlanesFreed(x) - Own(x)
  /\ failed' = failed \ {x}

TextureRelease(x) ==
  /\ pc = "honor" /\ x \notin active
  /\ MediaHonored(data_src[x])
  /\ state[x] = "READY"
  /\ state' = [state EXCEPT ![x] = "INITIALIZED"]
  /\ ReleaseTexture(x)
  /\ UNCHANGED <<params, media_frame, latest, sceneVars, pc, cur, frame>>

TextureUninit(x) ==
  /\ pc = "detach"
  /\ state[x] # "UNINITIALIZED"
  /\ state' = [state EXCEPT ![x] = "UNINITIALIZED"]
  /\ IF state[x] = "READY" THEN ReleaseTexture(x) ELSE UNCHANGED <<uploadVars, out, released_twice>>
  /\ UNCHANGED <<params, media_frame, latest, sceneVars, pc, cur, frame>>

(* texture_update, which first updates the media unless another texture    *)
(* did in this frame.                                                      *)
TextureUpdate(x) ==
  /\ pc = "update"
  /\ x \in todo
  /\ cur' = x
  /\ todo' = todo \ {x}
  /\ pc' = IF data_src[x] \in updated THEN "take" ELSE "media"
  /\ UNCHANGED <<params, frameVars, uploadVars, active, updated, state, frame>>

(***************************************************************************)
(* ngli_hwupload_upload_frame                                              *)
(***************************************************************************)
(* The upload ends; nothing but a log tells the scene that it failed.      *)
UploadReturns == pc' = "update" /\ cur' = NoTex /\ frame' = NoFrame
UploadFails   == UploadReturns /\ failed' = failed \union {cur}

NoFrameToTake ==
  /\ pc = "take"
  /\ media_frame[data_src[cur]] = NoFrame
  /\ UploadReturns
  /\ UNCHANGED <<params, frameVars, uploadVars, sceneVars, state>>

MediaGivesFrame(m) == media_frame' = [media_frame EXCEPT ![m] = NoFrame]

UnsupportedFrame ==
  LET m == data_src[cur] IN
  /\ pc = "take"
  /\ media_frame[m] # NoFrame
  /\ ClassOf(media_frame[m]) \notin Class
  /\ MediaGivesFrame(m)
  /\ Release(m, media_frame[m])
  /\ UploadFails
  /\ UNCHANGED <<params, latest, hwupload, texture, image, gl_textures, sceneVars, state>>

(* The class of the frame, or its dimensions, are not those of the last.   *)
NeedsInit(x, f) == ClassOf(f) # hwupload[x].class \/ SizeOf(f) # hwupload[x].size

(* Mutant: the image still points to the planes of the class before.       *)
TakeFrame_KeepsImage ==
  LET m == data_src[cur]
      f == media_frame[m]
  IN
  /\ pc = "take"
  /\ f # NoFrame
  /\ ClassOf(f) \in Class
  /\ MediaGivesFrame(m)
  /\ frame' = f
  /\ IF NeedsInit(cur, f)
     THEN /\ HwuploadUninit(cur)
          /\ gl_textures' = gl_textures - PlanesFreed(cur)
          /\ pc' = "init"
     ELSE /\ pc' = "map"
          /\ UNCHANGED <<hwupload, gl_textures, out, released_twice>>
  /\ failed' = failed \ {cur}
  /\ UNCHANGED <<params, latest, texture, image, sceneVars, state, cur>>

TakeFrame ==
  LET m == data_src[cur]
      f == media_frame[m]
  IN
  /\ pc = "take"
  /\ f # NoFrame
  /\ ClassOf(f) \in Class
  /\ MediaGivesFrame(m)
  /\ frame' = f
  /\ IF NeedsInit(cur, f)
     THEN /\ HwuploadUninit(cur)
          /\ image' = [image EXCEPT ![cur] = NoImage]
          /\ gl_textures' = gl_textures - PlanesFreed(cur)
          /\ pc' = "init"
     ELSE /\ pc' = "map"
          /\ UNCHANGED <<hwupload, image, gl_textures, out, released_twice>>
  /\ failed' = failed \ {cur}
  /\ UNCHANGED <<params, latest, texture, sceneVars, state, cur>>

(* The init of the class: the common one sets the texture of the node up,  *)
(* whether it already was or not, the others planes of their own.          *)
PlanesOf(c) == IF c \in Owner THEN 2 ELSE 0

ClassInit ==
  LET c == ClassOf(frame) IN
  /\ pc = "init"
  /\ hwupload' = [hwupload EXCEPT ![cur] =
                    [@ EXCEPT !.class = c, !.size = SizeOf(frame), !.planes = PlanesOf(c),
                              !.require_hwconv = c # "common" /\ cur \notin direct]]
  /\ texture' = IF c = "common" THEN texture \union {cur} ELSE texture
  /\ gl_textures' = gl_textures + (IF c = "common" THEN 1 ELSE PlanesOf(c))
  /\ pc' = "map"
  /\ UNCHANGED <<params, frameVars, image, failed, sceneVars, state, cur, frame>>

ClassInitFails ==
  LET c == ClassOf(frame) IN
  /\ pc = "init"
  /\ \E created \in (IF c \in InitMayFail THEN {0} ELSE {}) \union
                    (IF c \in HalfInitMayFail THEN {1} ELSE {}) :
       /\ hwupload' = [hwupload EXCEPT ![cur].planes = created]
       /\ gl_textures' = gl_textures + created
  /\ Release(data_src[cur], frame)
  /\ UploadFails
  /\ UNCHANGED <<params, media_frame, latest, texture, image, sceneVars, state>>

(* Mutant: the class keeps the frame, but does not give the last one back. *)
MapFrame_Overwrites ==
  LET c == ClassOf(frame) IN
  /\ pc = "map"
  /\ IF c \in Owner
     THEN hwupload' = [hwupload EXCEPT ![cur].frame = frame] /\ UNCHANGED <<out, released_twice>>
     ELSE UNCHANGED <<hwupload, out, released_twice>>
  /\ \/ /\ pc' = IF hwupload[cur].require_hwconv THEN "convert" ELSE "mapped"
        /\ UNCHANGED failed
     \/ /\ c \in MapMayFail
        /\ pc' = "end"
        /\ failed' = failed \union {cur}
  /\ UNCHANGED <<params, media_frame, latest, texture, image, gl_textures, sceneVars, state, cur, frame>>

(* map_frame: a class that owns its frame gives the last one back first.   *)
MapFrame ==
  LET c == ClassOf(frame) IN
  /\ pc = "map"
  /\ IF c \in Owner
     THEN /\ Release(data_src[cur], hwupload[cur].frame)
          /\ hwupload' = [hwupload EXCEPT ![cur].frame = frame]
     ELSE UNCHANGED <<hwupload, out, released_twice>>
  /\ \/ /\ pc' = IF hwupload[cur].require_hwconv THEN "convert" ELSE "mapped"
        /\ UNCHANGED failed
     \/ /\ c \in MapMayFail
        /\ pc' = "end"
        /\ failed' = failed \union {cur}
  /\ UNCHANGED <<params, media_frame, latest, texture, image, gl_textures, sceneVars, state, cur, frame>>

(* Without a conversion the image is the mapped one.                       *)
UseMapped ==
  LET c == hwupload[cur].class IN
  /\ pc = "mapped"
  /\ image' = [image EXCEPT ![cur].planes = CASE c = "common" -> "texture"
                                              [] c = "mediacodec" -> "media"
                                              [] OTHER -> "private"]
  /\ pc' = "end"
  /\ UNCHANGED <<params, frameVars, hwupload, texture, gl_textures, failed, sceneVars, state, cur, frame>>

(* Mutant: the texture of the node is set up without being reset.          *)
InitHwconv_NoReset ==
  /\ pc = "convert"
  /\ ~hwupload[cur].hwconv
  /\ hwupload' = [hwupload EXCEPT ![cur].hwconv = TRUE]
  /\ texture' = texture \union {cur}
  /\ gl_textures' = gl_textures + 1
  /\ image' = [image EXCEPT ![cur] = [planes |-> "texture", ts |-> NoFrame]]
  /\ pc' = "end"
  /\ UNCHANGED <<params, frameVars, failed, sceneVars, state, cur, frame>>

(* init_hwconv: the texture of the node is set up again.                   *)
InitHwconv ==
  /\ pc = "convert"
  /\ ~hwupload[cur].hwconv
  /\ hwupload' = [hwupload EXCEPT ![cur].hwconv = TRUE]
  /\ texture' = texture \union {cur}
  /\ gl_textures' = gl_textures - Own(cur) + 1
  /\ image' = [image EXCEPT ![cur] = [planes |-> "texture", ts |-> NoFrame]]
  /\ pc' = "end"
  /\ UNCHANGED <<params, frameVars, failed, sceneVars, state, cur, frame>>

(* Nobody gives the frame back, unless its class has kept it.              *)
InitHwconvFails ==
  /\ pc = "convert"
  /\ ~hwupload[cur].hwconv
  /\ ClassOf(frame) \in ConvMayFail
  /\ texture' = texture \ {cur}
  /\ gl_textures' = gl_textures - Own(cur)
  /\ image' = [image EXCEPT ![cur] = NoImage]
  /\ UploadFails
  /\ UNCHANGED <<params, frameVars, hwupload, sceneVars, state>>

ExecHwconv ==
  /\ pc = "convert"
  /\ hwupload[cur].hwconv
  /\ pc' = "end"
  /\ UNCHANGED <<params, frameVars, uploadVars, sceneVars, state, cur, frame>>

UploadEnds ==
  /\ pc = "end"
  /\ image' = [image EXCEPT ![cur].ts = frame]
  /\ Release(data_src[cur], IF ClassOf(frame) \in Owner THEN NoFrame ELSE frame)
  /\ UploadReturns
  /\ UNCHANGED <<params, media_frame, latest, hwupload, texture, gl_textures, failed, sceneVars, state>>

(***************************************************************************)
(* The whole                                                               *)
(***************************************************************************)
Scene ==
  \/ Attach \/ Detach \/ SceneDetached \/ FrameHonored \/ EndFrame
  \/ \E wanted \in SUBSET Tex : \E drawn \in SUBSET wanted : Visit(wanted, drawn)

Callback ==
  \/ \E m \in Media : MediaPrefetch(m) \/ MediaRelease(m) \/ MediaUninit(m)
  \/ \E got \in stream \union {NoFrame} : MediaUpdate(got)
  \/ \E x \in Tex : TexturePrefetch(x) \/ TextureRelease(x) \/ TextureUninit(x) \/ TextureUpdate(x)

Upload ==
  \/ NoFrameToTake \/ UnsupportedFrame \/ TakeFrame
  \/ ClassInit \/ ClassInitFails \/ MapFrame \/ UseMapped
  \/ InitHwconv \/ InitHwconvFails \/ ExecHwconv \/ UploadEnds

Next == Scene \/ Callback \/ Upload

Spec == Init /\ [][Next]_vars

(***************************************************************************)
(* Properties                                                              *)
(***************************************************************************)

(* FrameConserved: a frame the player handed out is held by exactly one of *)
(* the media, the class of a texture and the upload in progress, until it  *)
(* goes back, once: none is lost and none is given back twice, whichever   *)
(* texture takes it and wherever an upload fails (hwupload.c:129-192); and *)
(* sxplayer_free (node_media.c:267) is called when every frame of the      *)
(* player is back, those the textures keep included.                       *)
Uploading(m)  == cur # NoTex /\ data_src[cur] = m
HandedOver(x) == hwupload[x].frame = frame
Holders(m, f) ==
  Cardinality({x \in TexturesOf(m) : hwupload[x].frame = f})
  + (IF media_frame[m] = f THEN 1 ELSE 0)
  + (IF Uploading(m) /\ frame = f /\ ~HandedOver(cur) THEN 1 ELSE 0)

FrameConserved ==
  /\ ~released_twice
  /\ \A m \in Media : \A f \in Frame : Holders(m, f) = (IF f \in out[m] THEN 1 ELSE 0)
  /\ \A m \in Media : state[m] = "UNINITIALIZED" => out[m] = {}

(* TextureConserved: the GL textures that exist are those the nodes point  *)
(* to: none is lost when a texture is set up again for another kind of     *)
(* frame, and none is deleted twice (texture.c:311-471).                   *)
TextureConserved ==
  gl_textures = Cardinality(texture)
                + MapThenSumSet(LAMBDA x : hwupload[x].planes, Tex)
                + (IF Android THEN Cardinality({m \in Media : state[m] # "UNINITIALIZED"}) ELSE 0)

(* PlanesExist: what a render samples exists: the image of a texture that  *)
(* is not being uploaded to points to a texture of the node that is set up,*)
(* to the planes of the class in place or to the texture of a media that   *)
(* is attached; the conversion renders to a texture that is set up.        *)
PlanesExist ==
  \A x \in Tex \ {cur} :
    /\ image[x].planes # "none" => state[x] = "READY"
    /\ image[x].planes = "texture" \/ hwupload[x].hwconv => x \in texture
    /\ image[x].planes = "private" => hwupload[x].class \in Private
    /\ image[x].planes = "media" => state[data_src[x]] # "UNINITIALIZED"

(* ShownFrameHeld: the decoder does not get a surface back while the image *)
(* of a texture is mapped from it without a copy (hwupload.h:32,           *)
(* HWMAP_FLAG_FRAME_OWNER).                                                *)
ShownFrameHeld ==
  \A x \in Tex \ ({cur} \union failed) :
    image[x].planes = "private" /\ hwupload[x].class \in Owner =>
      hwupload[x].frame = image[x].ts /\ image[x].ts \in out[data_src[x]]

(* ImageBacked: an image is never left on memory that is gone, neither     *)
(* that of the library nor that of the decoder.                            *)
ImageBacked == PlanesExist /\ ShownFrameHeld

(* ImageIsLatest: a texture that does not share its media shows the last   *)
(* frame the player handed out since the media was started, unless its     *)
(* upload failed, whatever the classes and the sizes of the frames before. *)
ImageIsLatest ==
  \A x \in Tex \ ({cur} \union failed) :
    LET m == data_src[x] IN
    state[x] = "READY" /\ TexturesOf(m) = {x} /\ latest[m] # NoFrame =>
      image[x].planes # "none" /\ image[x].ts = latest[m]

=============================================================================
