---------------------------- MODULE HwUploadProofs ----------------------------
(***************************************************************************)
(* Theorems about the frames of the players, for any textures and media,   *)
(* shared in any way, any frames and any failure but those of Conserving.  *)
(***************************************************************************)
EXTENDS HwUpload, FiniteSetTheorems, TLAPS
INSTANCE DataTheorems WITH Vertex <- {}, CallFrame <- {}

(* The failures that lose a frame or give it back twice are left out: a    *)
(* conversion that cannot be set up for a class that does not own its      *)
(* frames (hwupload.c:175-181), a frame media_update refuses once it has   *)
(* released the one before (node_media.c:230-247).                         *)
Conserving ==
  /\ ConvMayFail \subseteq Owner
  /\ \A s \in Streams : \A f \in s : ClassOf(f) # "unexpected"

(***************************************************************************)
(* The invariant                                                           *)
(***************************************************************************)
InUpload  == {"init", "map", "mapped", "convert", "end"}
InTexture == {"media", "take"} \union InUpload
Updating  == {"update"} \union InTexture

UploadState ==
  [class : Class \union {"none"}, size : Nat, planes : Nat, frame : Frame \union {NoFrame},
   require_hwconv : BOOLEAN, hwconv : BOOLEAN]

TypeOK ==
  /\ data_src \in [Tex -> Media]
  /\ stream \subseteq Frame /\ \A f \in stream : ClassOf(f) # "unexpected"
  /\ state \in [Tex \union Media -> {"UNINITIALIZED", "INITIALIZED", "READY"}]
  /\ active \subseteq Tex /\ todo \subseteq active
  /\ pc \in {"idle", "detach", "honor"} \union Updating
  /\ cur \in Tex \union {NoTex}
  /\ frame \in Frame \union {NoFrame}
  /\ out \in [Media -> SUBSET Frame]
  /\ media_frame \in [Media -> Frame \union {NoFrame}]
  /\ hwupload \in [Tex -> UploadState]

(* Where the command stands: what an upload may rely on, and the states of *)
(* the nodes between the walks.                                            *)
Control ==
  /\ cur # NoTex <=> pc \in InTexture
  /\ frame # NoFrame <=> pc \in InUpload
  /\ pc \in InTexture => cur \in active
  /\ pc \in Updating => (\A m \in Media : MediaHonored(m)) /\ (\A x \in Tex : Honored(x))
  /\ pc \in {"honor"} \union Updating => Attached
  /\ pc = "idle" => Attached \/ \A n \in Tex \union Media : state[n] = "UNINITIALIZED"
  /\ \A x \in Tex : state[x] # "UNINITIALIZED" => state[data_src[x]] # "UNINITIALIZED"
  /\ pc \in InUpload => ClassOf(frame) \in Class
  /\ pc = "init" => hwupload[cur].frame = NoFrame
  /\ pc \in InUpload \ {"init"} => hwupload[cur].class = ClassOf(frame)

(* Who holds a frame holds one that is out, and may hold it; the class of  *)
(* an upload in progress holds its frame as soon as it has mapped it.      *)
HoldersAreReady ==
  /\ ~released_twice
  /\ \A m \in Media : media_frame[m] # NoFrame => media_frame[m] \in out[m] /\ state[m] = "READY"
  /\ \A x \in Tex : hwupload[x].frame # NoFrame =>
       /\ hwupload[x].frame \in out[data_src[x]]
       /\ state[x] = "READY" /\ hwupload[x].class \in Owner
  /\ pc \in InUpload =>
       /\ frame \in out[data_src[cur]]
       /\ hwupload[cur].frame = frame <=> pc \notin {"init", "map"} /\ ClassOf(frame) \in Owner

(* No frame has two holders.                                               *)
OneHolder ==
  /\ \A x, y \in Tex : x # y /\ data_src[x] = data_src[y] /\ hwupload[x].frame # NoFrame =>
       hwupload[x].frame # hwupload[y].frame
  /\ \A x \in Tex : hwupload[x].frame # NoFrame => hwupload[x].frame # media_frame[data_src[x]]
  /\ pc \in InUpload =>
       /\ frame # media_frame[data_src[cur]]
       /\ \A x \in Tex \ {cur} : data_src[x] = data_src[cur] => hwupload[x].frame # frame

(* No frame that is out is without one.                                    *)
SomeHolder ==
  \A m \in Media : \A f \in out[m] :
    \/ media_frame[m] = f
    \/ \E x \in TexturesOf(m) : hwupload[x].frame = f
    \/ pc \in InUpload /\ data_src[cur] = m /\ frame = f

Invariant == TypeOK /\ Control /\ HoldersAreReady /\ OneHolder /\ SomeHolder

(***************************************************************************)
(* Lemmas                                                                  *)
(***************************************************************************)
(* A frame that is out, or NULL, is given back once.                       *)
LEMMA ReleaseOnce ==
  ASSUME NoFrame \notin Frame, out \in [Media -> SUBSET Frame], NEW m \in Media, NEW f,
         f = NoFrame \/ f \in out[m], ~released_twice, Release(m, f)
  PROVE  /\ out' \in [Media -> SUBSET Frame]
         /\ \A n \in Media : out'[n] = IF n = m THEN out[n] \ {f} ELSE out[n]
         /\ ~released_twice'
  BY DEF Release

(* Nothing of the invariant depends on what this step changes.             *)
LEMMA NoFrameMoves ==
  ASSUME Invariant, TypeOK', Control',
         UNCHANGED <<out, released_twice, media_frame, hwupload, data_src>>,
         \A n \in Tex \union Media : state[n] = "READY" => state'[n] = "READY",
         pc \notin InUpload, pc' \notin InUpload
  PROVE  Invariant'
  BY DEF Invariant, TypeOK, HoldersAreReady, OneHolder, SomeHolder, TexturesOf

LEMMA InitEstablishes == UploadAssumption /\ Conserving /\ Init => Invariant
<1> SUFFICES ASSUME UploadAssumption, Conserving, Init
             PROVE  Invariant
  OBVIOUS
<1>1. TypeOK
  BY DEF UploadAssumption, Conserving, Init, TypeOK, Updating, InTexture, InUpload, UploadState, Zeroed
<1>2. Control
  BY <1>1 DEF Init, TypeOK, Control, Updating, InTexture, InUpload, Zeroed
<1>3. HoldersAreReady /\ OneHolder /\ SomeHolder
  BY DEF Init, Zeroed, InUpload, HoldersAreReady, OneHolder, SomeHolder
<1> QED
  BY <1>1, <1>2, <1>3 DEF Invariant

(***************************************************************************)
(* The scene and its visits                                                *)
(***************************************************************************)
LEMMA ScenePreserves ==
  ASSUME UploadAssumption, Invariant, Scene
  PROVE  Invariant'
<1> USE DEF Invariant, TypeOK, Control, params, frameVars, uploadVars, sceneVars,
            Updating, InTexture, InUpload
<1>1. CASE Attach
  <2>1. TypeOK' /\ Control'
    BY <1>1 DEF Attach, UploadAssumption, Attached
  <2> QED
    BY <1>1, <2>1, NoFrameMoves DEF Attach
<1>2. CASE Detach
  <2>1. TypeOK' /\ Control'
    BY <1>2 DEF Detach
  <2> QED
    BY <1>2, <2>1, NoFrameMoves DEF Detach
<1>3. CASE SceneDetached
  <2>1. TypeOK' /\ Control'
    BY <1>3 DEF SceneDetached
  <2> QED
    BY <1>3, <2>1, NoFrameMoves DEF SceneDetached
<1>4. CASE FrameHonored
  <2>1. TypeOK' /\ Control'
    BY <1>4 DEF FrameHonored, MediaHonored, Honored, Wanted, TexturesOf, Attached
  <2> QED
    BY <1>4, <2>1, NoFrameMoves DEF FrameHonored
<1>5. CASE EndFrame
  <2>1. TypeOK' /\ Control'
    BY <1>5 DEF EndFrame, Attached
  <2> QED
    BY <1>5, <2>1, NoFrameMoves DEF EndFrame
<1>6. ASSUME NEW wanted \in SUBSET Tex, NEW drawn \in SUBSET wanted, Visit(wanted, drawn)
      PROVE  Invariant'
  <2>1. TypeOK' /\ Control'
    BY <1>6 DEF Visit, Attached
  <2> QED
    BY <1>6, <2>1, NoFrameMoves DEF Visit
<1> QED
  BY <1>1, <1>2, <1>3, <1>4, <1>5, <1>6 DEF Scene

(***************************************************************************)
(* The callbacks of the media                                              *)
(***************************************************************************)
(* A media that lets its frame go is the only one to have held it.         *)
LEMMA MediaLetsGo ==
  ASSUME UploadAssumption, Invariant, NEW m \in Media, pc \notin InUpload, pc' = pc,
         Release(m, media_frame[m]), media_frame' = [media_frame EXCEPT ![m] = NoFrame],
         UNCHANGED <<hwupload, data_src, cur, frame>>,
         \A n \in Tex \union Media : n # m => state'[n] = state[n]
  PROVE  HoldersAreReady' /\ OneHolder' /\ SomeHolder' /\ out' \in [Media -> SUBSET Frame]
<1>1. /\ out' \in [Media -> SUBSET Frame]
      /\ \A n \in Media : out'[n] = IF n = m THEN out[n] \ {media_frame[m]} ELSE out[n]
      /\ ~released_twice'
  BY ReleaseOnce DEF UploadAssumption, Invariant, TypeOK, HoldersAreReady
<1>2. media_frame' \in [Media -> Frame \union {NoFrame}]
      /\ \A n \in Media : media_frame'[n] = IF n = m THEN NoFrame ELSE media_frame[n]
  BY DEF Invariant, TypeOK
<1>3. HoldersAreReady'
  BY <1>1, <1>2 DEF Invariant, TypeOK, HoldersAreReady, OneHolder, UploadAssumption
<1>4. OneHolder'
  BY <1>1, <1>2 DEF Invariant, TypeOK, OneHolder
<1>5. SomeHolder'
  BY <1>1, <1>2 DEF Invariant, TypeOK, SomeHolder, TexturesOf
<1> QED
  BY <1>1, <1>3, <1>4, <1>5

LEMMA MediaCallbackPreserves ==
  ASSUME UploadAssumption, Invariant, NEW m \in Media,
         MediaPrefetch(m) \/ MediaRelease(m) \/ MediaUninit(m)
  PROVE  Invariant'
<1> USE DEF Control, params, frameVars, uploadVars, sceneVars, Updating, InTexture, InUpload
<1>1. CASE MediaPrefetch(m)
  <2>1. TypeOK' /\ Control'
    BY <1>1 DEF MediaPrefetch, Invariant, TypeOK, Attached, UploadAssumption
  <2> QED
    BY <1>1, <2>1, NoFrameMoves DEF MediaPrefetch, Invariant, TypeOK
<1>2. CASE MediaRelease(m)
  <2>1. HoldersAreReady' /\ OneHolder' /\ SomeHolder' /\ out' \in [Media -> SUBSET Frame]
    BY <1>2, MediaLetsGo DEF MediaRelease, Invariant, TypeOK
  <2>2. TypeOK' /\ Control'
    BY <1>2, <2>1 DEF MediaRelease, Invariant, TypeOK, Attached, UploadAssumption
  <2> QED
    BY <2>1, <2>2 DEF Invariant
<1>3. CASE MediaUninit(m)
  <2>1. media_frame[m] = NoFrame \/ state[m] = "READY"
    BY DEF Invariant, HoldersAreReady
  <2>2. Release(m, media_frame[m]) /\ media_frame' = [media_frame EXCEPT ![m] = NoFrame]
    BY <1>3, <2>1 DEF MediaUninit, Release, Invariant, TypeOK
  <2>3. HoldersAreReady' /\ OneHolder' /\ SomeHolder' /\ out' \in [Media -> SUBSET Frame]
    BY <1>3, <2>2, MediaLetsGo DEF MediaUninit, Invariant, TypeOK
  <2>4. TypeOK' /\ Control'
    BY <1>3, <2>2, <2>3 DEF MediaUninit, Invariant, TypeOK, Attached, UploadAssumption, TexturesOf
  <2> QED
    BY <2>3, <2>4 DEF Invariant
<1> QED
  BY <1>1, <1>2, <1>3

LEMMA MediaUpdatePreserves ==
  ASSUME UploadAssumption, Invariant, NEW got \in stream \union {NoFrame}, MediaUpdate(got)
  PROVE  Invariant'
<1> DEFINE m == data_src[cur]
<1> USE DEF Updating, InTexture, InUpload
<1>1. /\ pc = "media" /\ pc' = "take" /\ UNCHANGED <<params, uploadVars, active, todo, state, cur, frame>>
      /\ out' = [out EXCEPT ![m] = (@ \ {media_frame[m]}) \union ({got} \ {NoFrame})]
      /\ media_frame' = [media_frame EXCEPT ![m] = got]
      /\ got # NoFrame => \A n \in Media : got \notin out[n]
      /\ released_twice' = (released_twice \/ (media_frame[m] # NoFrame /\ media_frame[m] \notin out[m]))
  BY ZenonT(60) DEF MediaUpdate, Invariant, TypeOK
<1>2. cur \in Tex /\ m \in Media /\ m = data_src[cur] /\ state[m] = "READY"
  BY <1>1 DEF Invariant, TypeOK, Control, MediaHonored, Wanted, TexturesOf
<1> HIDE DEF m
<1>3. /\ out' \in [Media -> SUBSET Frame] /\ media_frame' \in [Media -> Frame \union {NoFrame}]
      /\ \A n \in Media \ {m} : out'[n] = out[n] /\ media_frame'[n] = media_frame[n]
      /\ out'[m] = (out[m] \ {media_frame[m]}) \union ({got} \ {NoFrame}) /\ media_frame'[m] = got
      /\ ~released_twice'
  <2>1. got \in Frame \union {NoFrame} /\ out \in [Media -> SUBSET Frame]
        /\ media_frame \in [Media -> Frame \union {NoFrame}]
    BY DEF Invariant, TypeOK
  <2>2. ~released_twice'
    BY <1>1, <1>2 DEF Invariant, HoldersAreReady
  <2> QED
    BY <1>1, <1>2, <2>1, <2>2
<1>4. TypeOK' /\ Control'
  BY <1>1, <1>2, <1>3
  DEF params, uploadVars, Invariant, TypeOK, Control, MediaHonored, Honored, Wanted, TexturesOf, Attached
<1>5. HoldersAreReady'
  BY <1>1, <1>2, <1>3 DEF params, uploadVars, Invariant, TypeOK, HoldersAreReady, OneHolder
<1>6. OneHolder'
  BY <1>1, <1>2, <1>3 DEF params, uploadVars, Invariant, TypeOK, HoldersAreReady, OneHolder
<1>7. SomeHolder'
  BY <1>1, <1>2, <1>3 DEF params, uploadVars, Invariant, TypeOK, SomeHolder, TexturesOf
<1> QED
  BY <1>4, <1>5, <1>6, <1>7 DEF Invariant

(***************************************************************************)
(* The callbacks of the textures                                           *)
(***************************************************************************)
(* The class of a texture gives back the frame it holds.                   *)
LEMMA ClassLetsGo ==
  ASSUME UploadAssumption, Invariant, NEW x \in Tex, pc \notin InUpload,
         HwuploadUninit(x), UNCHANGED data_src
  PROVE  /\ out' \in [Media -> SUBSET Frame] /\ hwupload' \in [Tex -> UploadState]
         /\ \A m \in Media : out'[m] = IF m = data_src[x] THEN out[m] \ {hwupload[x].frame} ELSE out[m]
         /\ \A y \in Tex : hwupload'[y] = IF y = x THEN Zeroed ELSE hwupload[y]
         /\ Zeroed.frame = NoFrame /\ ~released_twice'
<1>1. hwupload[x].frame # NoFrame => hwupload[x].frame \in out[data_src[x]] /\ Initialized(x)
  BY DEF Invariant, HoldersAreReady, Initialized, Owner
<1>2. Release(data_src[x], hwupload[x].frame) /\ data_src[x] \in Media
  BY <1>1 DEF HwuploadUninit, Invariant, TypeOK
<1>3. /\ out' \in [Media -> SUBSET Frame] /\ ~released_twice'
      /\ \A m \in Media : out'[m] = IF m = data_src[x] THEN out[m] \ {hwupload[x].frame} ELSE out[m]
  <2> DEFINE f == hwupload[x].frame
             m == data_src[x]
  <2>1. m \in Media /\ (f = NoFrame \/ f \in out[m]) /\ Release(m, f)
    BY <1>1, <1>2
  <2>2. NoFrame \notin Frame /\ out \in [Media -> SUBSET Frame] /\ ~released_twice
    BY DEF UploadAssumption, Invariant, TypeOK, HoldersAreReady
  <2> HIDE DEF f, m
  <2>3. /\ out' \in [Media -> SUBSET Frame] /\ ~released_twice'
        /\ \A n \in Media : out'[n] = IF n = m THEN out[n] \ {f} ELSE out[n]
    BY <2>1, <2>2, ReleaseOnce
  <2> QED
    BY <2>3 DEF f, m
<1>4. Zeroed \in UploadState /\ Zeroed.frame = NoFrame
  BY DEF Zeroed, UploadState
<1> QED
  BY <1>3, <1>4 DEF HwuploadUninit, Invariant, TypeOK

(* So whatever it held, the holders stay as they must be.                  *)
LEMMA HoldersAfterClass ==
  ASSUME UploadAssumption, Invariant, NEW x \in Tex, pc \notin InUpload, pc' \notin InUpload,
         HwuploadUninit(x), UNCHANGED <<data_src, media_frame>>,
         \A n \in Tex \union Media : n # x => state'[n] = state[n]
  PROVE  HoldersAreReady' /\ OneHolder' /\ SomeHolder'
<1>1. /\ \A m \in Media : out'[m] = IF m = data_src[x] THEN out[m] \ {hwupload[x].frame} ELSE out[m]
      /\ \A y \in Tex : hwupload'[y] = IF y = x THEN Zeroed ELSE hwupload[y]
      /\ Zeroed.frame = NoFrame /\ ~released_twice'
  BY ClassLetsGo
<1> DEFINE d == data_src[x]
           g == hwupload[x].frame
<1>1a. /\ d \in Media /\ data_src[x] = d /\ hwupload[x].frame = g
      /\ out'[d] = out[d] \ {g} /\ \A m \in Media \ {d} : out'[m] = out[m]
  BY <1>1 DEF Invariant, TypeOK
<1> HIDE DEF d, g
<1>2. HoldersAreReady'
  <2>1. ASSUME NEW m \in Media, media_frame[m] # NoFrame
        PROVE  media_frame[m] \in out'[m] /\ state'[m] = "READY"
    <3>1. m # x /\ data_src[x] \in Media /\ media_frame[m] \in out[m] /\ state[m] = "READY"
      BY <2>1 DEF Invariant, TypeOK, HoldersAreReady, UploadAssumption
    <3>2. m = d => media_frame[m] # g
      BY <2>1, <1>1a DEF Invariant, OneHolder
    <3>3. media_frame[m] \in out'[m]
      BY <1>1a, <3>1, <3>2
    <3> QED
      BY <3>1, <3>3
  <2>2. ASSUME NEW y \in Tex, hwupload'[y].frame # NoFrame
        PROVE  /\ hwupload'[y].frame \in out'[data_src[y]]
               /\ state'[y] = "READY" /\ hwupload'[y].class \in Owner
    <3>1. y # x /\ hwupload'[y] = hwupload[y]
      BY <1>1, <2>2
    <3>2. /\ data_src[y] \in Media /\ hwupload[y].frame \in out[data_src[y]]
          /\ state[y] = "READY" /\ hwupload[y].class \in Owner
      BY <2>2, <3>1 DEF Invariant, TypeOK, HoldersAreReady
    <3>3. data_src[y] = d => hwupload[y].frame # g
      BY <1>1a, <2>2, <3>1 DEF Invariant, OneHolder
    <3>4. hwupload[y].frame \in out'[data_src[y]]
      BY <1>1a, <3>2, <3>3
    <3> QED
      BY <3>1, <3>2, <3>4
  <2> QED
    BY <1>1, <2>1, <2>2 DEF HoldersAreReady
<1>3. OneHolder'
  BY <1>1 DEF Invariant, TypeOK, OneHolder
<1>4. SomeHolder'
  <2>1. ASSUME NEW m \in Media, NEW f \in out'[m]
        PROVE  media_frame[m] = f \/ \E y \in TexturesOf(m) : hwupload'[y].frame = f
    <3>1. f \in out[m] /\ (m = d => f # g)
      BY <1>1a, <2>1
    <3>2. media_frame[m] = f \/ \E y \in TexturesOf(m) : hwupload[y].frame = f
      BY <3>1 DEF Invariant, SomeHolder
    <3>3. ASSUME NEW y \in TexturesOf(m), hwupload[y].frame = f
          PROVE  hwupload'[y].frame = f
      BY <1>1a, <1>1, <3>1, <3>3 DEF TexturesOf
    <3> QED
      BY <3>2, <3>3
  <2> QED
    BY <2>1 DEF SomeHolder, TexturesOf
<1> QED
  BY <1>2, <1>3, <1>4

LEMMA TextureCallbackPreserves ==
  ASSUME UploadAssumption, Invariant, NEW x \in Tex,
         TexturePrefetch(x) \/ TextureRelease(x) \/ TextureUninit(x) \/ TextureUpdate(x)
  PROVE  Invariant'
<1> USE DEF Control, params, frameVars, uploadVars, sceneVars, Updating, InTexture, InUpload
<1>1. CASE TexturePrefetch(x)
  <2>1. TypeOK' /\ Control'
    BY <1>1 DEF TexturePrefetch, Invariant, TypeOK, Attached, UploadAssumption
  <2> QED
    BY <1>1, <2>1, NoFrameMoves DEF TexturePrefetch, Invariant, TypeOK
<1>2. CASE TextureRelease(x)
  <2>1. HwuploadUninit(x) /\ HoldersAreReady' /\ OneHolder' /\ SomeHolder'
    BY <1>2, HoldersAfterClass DEF TextureRelease, ReleaseTexture, Invariant, TypeOK
  <2>2. TypeOK' /\ Control'
    BY <1>2, <2>1, ClassLetsGo DEF TextureRelease, Invariant, TypeOK, Attached, UploadAssumption
  <2> QED
    BY <2>1, <2>2 DEF Invariant
<1>3. CASE TextureUninit(x) /\ state[x] = "READY"
  <2>1. HwuploadUninit(x) /\ HoldersAreReady' /\ OneHolder' /\ SomeHolder'
    BY <1>3, HoldersAfterClass DEF TextureUninit, ReleaseTexture, Invariant, TypeOK
  <2>2. TypeOK' /\ Control'
    BY <1>3, <2>1, ClassLetsGo DEF TextureUninit, Invariant, TypeOK, Attached, UploadAssumption
  <2> QED
    BY <2>1, <2>2 DEF Invariant
<1>4. CASE TextureUninit(x) /\ state[x] # "READY"
  <2>1. TypeOK' /\ Control'
    BY <1>4 DEF TextureUninit, Invariant, TypeOK, Attached, UploadAssumption
  <2> QED
    BY <1>4, <2>1, NoFrameMoves DEF TextureUninit, Invariant, TypeOK
<1>5. CASE TextureUpdate(x)
  <2>1. TypeOK' /\ Control'
    BY <1>5 DEF TextureUpdate, Invariant, TypeOK, Attached, UploadAssumption, MediaHonored, Honored, Wanted, TexturesOf
  <2> QED
    BY <1>5, <2>1, NoFrameMoves DEF TextureUpdate, Invariant, TypeOK
<1> QED
  BY <1>1, <1>2, <1>3, <1>4, <1>5

(***************************************************************************)
(* ngli_hwupload_upload_frame                                              *)
(***************************************************************************)
(* The texture and the media of the upload in progress.                    *)
LEMMA UploadOf ==
  ASSUME UploadAssumption, Invariant, pc \in InTexture
  PROVE  /\ cur \in Tex /\ cur # NoTex /\ data_src[cur] \in Media
         /\ state[cur] = "READY" /\ state[data_src[cur]] = "READY"
         /\ hwupload[cur] \in UploadState
BY DEF Invariant, TypeOK, Control, InTexture, InUpload, Updating, MediaHonored, Honored, Wanted, TexturesOf,
       UploadAssumption

(* What a step of an upload leaves as it is.                               *)
Frozen == UNCHANGED <<data_src, stream, active, todo, state>>

LEMMA NoFrameToTakePreserves ==
  ASSUME UploadAssumption, Invariant, NoFrameToTake
  PROVE  Invariant'
<1>1. frame = NoFrame /\ frame' = NoFrame
  BY DEF NoFrameToTake, UploadReturns, Invariant, Control, InUpload
<1>2. TypeOK' /\ Control'
  BY <1>1
  DEF NoFrameToTake, UploadReturns, params, frameVars, uploadVars, sceneVars, Invariant, TypeOK, Control,
      Updating, InTexture, InUpload, MediaHonored, Honored, Wanted, TexturesOf, Attached
<1> QED
  BY <1>2, NoFrameMoves
  DEF NoFrameToTake, UploadReturns, params, frameVars, uploadVars, InUpload, Invariant, TypeOK

LEMMA UnsupportedFramePreserves ==
  ASSUME UploadAssumption, Invariant, UnsupportedFrame
  PROVE  Invariant'
<1> DEFINE m == data_src[cur]
<1>1. /\ pc = "take" /\ pc' = "update" /\ cur' = NoTex /\ frame' = NoFrame /\ Frozen
      /\ Release(m, media_frame[m]) /\ media_frame' = [media_frame EXCEPT ![m] = NoFrame]
      /\ UNCHANGED hwupload
  BY DEF UnsupportedFrame, MediaGivesFrame, UploadFails, UploadReturns, params, sceneVars, Frozen
<1>2. m \in Media
  BY <1>1, UploadOf DEF InTexture
<1> HIDE DEF m
<1>3. /\ out' \in [Media -> SUBSET Frame] /\ media_frame' \in [Media -> Frame \union {NoFrame}]
      /\ \A n \in Media : /\ out'[n] = IF n = m THEN out[n] \ {media_frame[m]} ELSE out[n]
                          /\ media_frame'[n] = IF n = m THEN NoFrame ELSE media_frame[n]
      /\ ~released_twice'
  <2>1. media_frame[m] = NoFrame \/ media_frame[m] \in out[m]
    BY <1>2 DEF Invariant, HoldersAreReady
  <2>2. NoFrame \notin Frame /\ out \in [Media -> SUBSET Frame] /\ ~released_twice
        /\ media_frame \in [Media -> Frame \union {NoFrame}]
    BY DEF UploadAssumption, Invariant, TypeOK, HoldersAreReady
  <2> QED
    BY <1>1, <1>2, <2>1, <2>2, ReleaseOnce, ZenonT(60)
<1>4. TypeOK' /\ Control'
  BY <1>1, <1>2, <1>3
  DEF Frozen, Invariant, TypeOK, Control, Updating, InTexture, InUpload, MediaHonored, Honored, Wanted,
      TexturesOf, Attached
<1>5. HoldersAreReady'
  BY <1>1, <1>2, <1>3 DEF Frozen, InUpload, Invariant, TypeOK, HoldersAreReady, OneHolder
<1>6. OneHolder'
  BY <1>1, <1>2, <1>3 DEF Frozen, InUpload, Invariant, TypeOK, OneHolder
<1>7. SomeHolder'
  BY <1>1, <1>2, <1>3 DEF Frozen, InUpload, Invariant, TypeOK, SomeHolder, TexturesOf
<1> QED
  BY <1>4, <1>5, <1>6, <1>7 DEF Invariant

LEMMA TakeFramePreserves ==
  ASSUME UploadAssumption, Invariant, TakeFrame
  PROVE  Invariant'
<1> DEFINE m == data_src[cur]
           f == media_frame[m]
<1>1. /\ pc = "take" /\ f # NoFrame /\ ClassOf(f) \in Class /\ frame' = f /\ cur' = cur /\ Frozen
      /\ media_frame' = [media_frame EXCEPT ![m] = NoFrame]
  BY DEF TakeFrame, MediaGivesFrame, params, sceneVars, Frozen
<1>2. cur \in Tex /\ cur # NoTex /\ m \in Media /\ m = data_src[cur]
  BY <1>1, UploadOf DEF InTexture
<1>3. f \in out[m] /\ f \in Frame /\ f = media_frame[m] /\ (hwupload[cur].frame # f)
  BY <1>1, <1>2 DEF Invariant, TypeOK, HoldersAreReady, OneHolder, UploadAssumption
<1>4. /\ out' \in [Media -> SUBSET Frame] /\ hwupload' \in [Tex -> UploadState]
      /\ \A n \in Media \ {m} : out'[n] = out[n]
      /\ \A x \in Tex \ {cur} : hwupload'[x] = hwupload[x]
      /\ ~released_twice'
      /\ \/ /\ pc' = "init" /\ hwupload'[cur].frame = NoFrame /\ out'[m] = out[m] \ {hwupload[cur].frame}
         \/ /\ pc' = "map" /\ hwupload'[cur] = hwupload[cur] /\ out'[m] = out[m]
            /\ hwupload[cur].class = ClassOf(f)
  <2>1. CASE NeedsInit(cur, f)
    <3>1. HwuploadUninit(cur) /\ pc' = "init" /\ UNCHANGED data_src /\ pc \notin InUpload
      BY <1>1, <2>1 DEF TakeFrame, Frozen, InUpload
    <3> QED
      BY <1>2, <3>1, ClassLetsGo, ZenonT(60)
  <2>2. CASE ~NeedsInit(cur, f)
    BY <1>1, <1>2, <2>2 DEF TakeFrame, NeedsInit, Invariant, TypeOK, HoldersAreReady
  <2> QED
    BY <2>1, <2>2
<1> HIDE DEF m, f
<1>5. /\ media_frame' \in [Media -> Frame \union {NoFrame}]
      /\ \A n \in Media : media_frame'[n] = IF n = m THEN NoFrame ELSE media_frame[n]
  BY <1>1, <1>2 DEF Invariant, TypeOK
<1>6. TypeOK' /\ Control'
  BY <1>1, <1>2, <1>3, <1>4, <1>5
  DEF Frozen, Invariant, TypeOK, Control, Updating, InTexture, InUpload, MediaHonored, Honored, Wanted,
      TexturesOf, Attached
<1>7. HoldersAreReady'
  <2>1. ASSUME NEW n \in Media, media_frame'[n] # NoFrame
        PROVE  media_frame'[n] \in out'[n] /\ state[n] = "READY"
    BY <1>2, <1>4, <1>5, <2>1 DEF Invariant, HoldersAreReady
  <2>2. ASSUME NEW x \in Tex, hwupload'[x].frame # NoFrame
        PROVE  hwupload'[x].frame \in out'[data_src[x]] /\ state[x] = "READY" /\ hwupload'[x].class \in Owner
    <3>1. hwupload'[x] = hwupload[x]
      BY <1>4, <2>2
    <3>2. /\ hwupload[x].frame \in out[data_src[x]] /\ data_src[x] \in Media
          /\ state[x] = "READY" /\ hwupload[x].class \in Owner
      BY <2>2, <3>1 DEF Invariant, TypeOK, HoldersAreReady
    <3>3. x # cur /\ data_src[x] = m => hwupload[x].frame # hwupload[cur].frame
      BY <1>2, <2>2, <3>1 DEF Invariant, OneHolder
    <3>4. hwupload[x].frame \in out'[data_src[x]]
      BY <1>2, <1>4, <2>2, <3>2, <3>3
    <3> QED
      BY <3>1, <3>2, <3>4
  <2>3. frame' \in out'[data_src[cur]]
    BY <1>1, <1>2, <1>3, <1>4
  <2>4. pc' \in {"init", "map"} /\ hwupload'[cur].frame # frame'
    BY <1>1, <1>3, <1>4 DEF Invariant, TypeOK, UploadAssumption
  <2> QED
    BY <1>1, <1>4, <2>1, <2>2, <2>3, <2>4 DEF Frozen, HoldersAreReady
<1>8. OneHolder'
  <2>1. \A x \in Tex : hwupload'[x].frame \in {NoFrame, hwupload[x].frame}
    BY <1>4
  <2>2. \A x \in Tex : data_src[x] = m => hwupload[x].frame # f
    BY <1>1, <1>2, <1>3 DEF Invariant, OneHolder
  <2> QED
    BY <1>1, <1>2, <1>5, <2>1, <2>2 DEF Frozen, InUpload, Invariant, TypeOK, OneHolder
<1>9. SomeHolder'
  BY <1>1, <1>2, <1>3, <1>4, <1>5 DEF Frozen, InUpload, Invariant, TypeOK, SomeHolder, TexturesOf
<1> QED
  BY <1>6, <1>7, <1>8, <1>9 DEF Invariant

(* A step of an upload that moves no frame: what it changes of the class   *)
(* is not the frame it holds.                                              *)
LEMMA UploadMovesOn ==
  ASSUME UploadAssumption, Invariant, Frozen, pc \in InUpload, pc' \in InUpload,
         UNCHANGED <<out, released_twice, media_frame, cur, frame>>,
         hwupload' \in [Tex -> UploadState],
         \A x \in Tex : hwupload'[x].frame = hwupload[x].frame,
         \A x \in Tex \ {cur} : hwupload'[x].class = hwupload[x].class,
         hwupload'[cur].class = ClassOf(frame),
         pc' # "init", pc \in {"init", "map"} <=> pc' = "map"
  PROVE  Invariant'
<1>1. cur \in Tex
  BY UploadOf DEF InTexture
<1>2. TypeOK'
  BY <1>1 DEF Frozen, Invariant, TypeOK, Updating, InTexture
<1>3. Control'
  BY <1>1
  DEF Frozen, Invariant, Control, Updating, InTexture, InUpload, MediaHonored, Honored, Wanted, TexturesOf,
      Attached
<1>4. HoldersAreReady'
  <2>1. ASSUME NEW x \in Tex, hwupload'[x].frame # NoFrame
        PROVE  hwupload'[x].class \in Owner
    BY <1>1, <2>1 DEF Invariant, HoldersAreReady, Control, InUpload
  <2> QED
    BY <1>1, <2>1 DEF Frozen, Invariant, HoldersAreReady, InUpload
<1>5. OneHolder'
  BY <1>1 DEF Frozen, Invariant, OneHolder
<1>6. SomeHolder'
  <2>1. ASSUME NEW m \in Media, NEW f \in out[m]
        PROVE  \/ media_frame[m] = f
               \/ \E x \in TexturesOf(m) : hwupload'[x].frame = f
               \/ data_src[cur] = m /\ frame = f
    BY DEF Invariant, SomeHolder, TexturesOf
  <2> QED
    BY <2>1 DEF Frozen, SomeHolder, TexturesOf
<1> QED
  BY <1>2, <1>3, <1>4, <1>5, <1>6 DEF Invariant

LEMMA ClassInitPreserves ==
  ASSUME UploadAssumption, Invariant, ClassInit
  PROVE  Invariant'
<1> DEFINE c == ClassOf(frame)
           h == [hwupload[cur] EXCEPT !.class = c, !.size = SizeOf(frame), !.planes = PlanesOf(c),
                                      !.require_hwconv = c # "common" /\ cur \notin direct]
<1>1. /\ pc = "init" /\ pc' = "map" /\ Frozen
      /\ UNCHANGED <<out, released_twice, media_frame, cur, frame>>
      /\ hwupload' = [hwupload EXCEPT ![cur] = h]
  BY UploadOf DEF ClassInit, params, frameVars, sceneVars, Frozen, InTexture, InUpload, Invariant, TypeOK
<1>2. cur \in Tex /\ hwupload[cur] \in UploadState /\ c \in Class /\ frame \in Frame
  BY <1>1, UploadOf DEF InTexture, InUpload, Invariant, TypeOK, Control
<1>3. SizeOf(frame) \in Nat /\ PlanesOf(c) \in Nat
  BY <1>2 DEF SizeOf, PlanesOf, UploadAssumption
<1>4. h \in UploadState /\ h.class = c /\ h.frame = hwupload[cur].frame
  BY <1>2, <1>3 DEF UploadState
<1> HIDE DEF h
<1>5. /\ hwupload' \in [Tex -> UploadState] /\ hwupload'[cur] = h
      /\ \A x \in Tex \ {cur} : hwupload'[x] = hwupload[x]
  BY <1>1, <1>2, <1>4 DEF Invariant, TypeOK
<1> QED
  BY <1>1, <1>2, <1>4, <1>5, UploadMovesOn DEF InUpload

(* The frame goes back when the class cannot be set up, and was held by    *)
(* the upload only.                                                        *)
LEMMA UploadLetsGo ==
  ASSUME UploadAssumption, Invariant, Frozen, pc \in InUpload, hwupload[cur].frame # frame,
         Release(data_src[cur], frame), UploadReturns, UNCHANGED media_frame,
         hwupload' \in [Tex -> UploadState],
         \A x \in Tex : hwupload'[x].frame = hwupload[x].frame /\ hwupload'[x].class = hwupload[x].class
  PROVE  Invariant'
<1> DEFINE m == data_src[cur]
<1>1. cur \in Tex /\ m \in Media /\ m = data_src[cur] /\ frame \in Frame /\ frame \in out[m]
  BY UploadOf DEF InTexture, Invariant, TypeOK, Control, HoldersAreReady
<1> HIDE DEF m
<1>2. /\ out' \in [Media -> SUBSET Frame] /\ ~released_twice'
      /\ out'[m] = out[m] \ {frame} /\ \A n \in Media \ {m} : out'[n] = out[n]
  BY <1>1, ReleaseOnce, ZenonT(60) DEF UploadAssumption, Invariant, TypeOK, HoldersAreReady
<1>3. pc' = "update" /\ cur' = NoTex /\ frame' = NoFrame
  BY DEF UploadReturns
<1>4. TypeOK'
  BY <1>2, <1>3 DEF Frozen, Invariant, TypeOK, Updating, InTexture
<1>5. Control'
  BY <1>3
  DEF Frozen, Invariant, TypeOK, Control, Updating, InTexture, InUpload, MediaHonored, Honored, Wanted,
      TexturesOf, Attached
<1>6. HoldersAreReady'
  <2>1. ASSUME NEW n \in Media, media_frame[n] # NoFrame
        PROVE  media_frame[n] \in out'[n] /\ state[n] = "READY"
    BY <1>1, <1>2, <2>1 DEF Invariant, HoldersAreReady, OneHolder
  <2>2. ASSUME NEW x \in Tex, hwupload[x].frame # NoFrame
        PROVE  hwupload[x].frame \in out'[data_src[x]] /\ state[x] = "READY" /\ hwupload[x].class \in Owner
    <3>1. hwupload[x].frame \in out[data_src[x]] /\ data_src[x] \in Media
          /\ state[x] = "READY" /\ hwupload[x].class \in Owner
      BY <2>2 DEF Invariant, TypeOK, HoldersAreReady
    <3>2. data_src[x] = m => hwupload[x].frame # frame
      BY <1>1 DEF Invariant, OneHolder
    <3> QED
      BY <1>2, <3>1, <3>2
  <2> QED
    BY <1>2, <1>3, <2>1, <2>2 DEF Frozen, HoldersAreReady, InUpload
<1>7. OneHolder'
  BY <1>3 DEF Frozen, Invariant, OneHolder, InUpload
<1>8. SomeHolder'
  <2>1. ASSUME NEW n \in Media, NEW f \in out'[n]
        PROVE  media_frame[n] = f \/ \E x \in TexturesOf(n) : hwupload[x].frame = f
    BY <1>1, <1>2 DEF Invariant, SomeHolder
  <2> QED
    BY <2>1 DEF Frozen, SomeHolder, TexturesOf
<1> QED
  BY <1>4, <1>5, <1>6, <1>7, <1>8 DEF Invariant

LEMMA ClassInitFailsPreserves ==
  ASSUME UploadAssumption, Invariant, ClassInitFails
  PROVE  Invariant'
<1>1. pc = "init" /\ cur \in Tex /\ hwupload[cur] \in UploadState
  BY UploadOf DEF ClassInitFails, InTexture, InUpload
<1>2. PICK created \in {0, 1} : hwupload' = [hwupload EXCEPT ![cur].planes = created]
  BY DEF ClassInitFails
<1>3. /\ hwupload' \in [Tex -> UploadState]
      /\ \A x \in Tex : hwupload'[x].frame = hwupload[x].frame /\ hwupload'[x].class = hwupload[x].class
  <2> DEFINE h == [hwupload[cur] EXCEPT !.planes = created]
  <2>1. h \in UploadState /\ h.class = hwupload[cur].class /\ h.frame = hwupload[cur].frame
    BY <1>1 DEF UploadState
  <2>2. hwupload' = [hwupload EXCEPT ![cur] = h] /\ hwupload \in [Tex -> UploadState]
    BY <1>1, <1>2 DEF Invariant, TypeOK
  <2> HIDE DEF h
  <2> QED
    BY <1>1, <2>1, <2>2
<1>4. hwupload[cur].frame # frame
  BY <1>1 DEF Invariant, Control, InUpload
<1> QED
  BY <1>1, <1>3, <1>4, UploadLetsGo
  DEF ClassInitFails, UploadFails, params, sceneVars, Frozen, InUpload

LEMMA MapFramePreserves ==
  ASSUME UploadAssumption, Invariant, MapFrame
  PROVE  Invariant'
<1> DEFINE m == data_src[cur]
<1>1. /\ pc = "map" /\ pc' \in {"mapped", "convert", "end"} /\ Frozen
      /\ UNCHANGED <<media_frame, cur, frame>>
  BY DEF MapFrame, params, sceneVars, Frozen
<1>2. /\ cur \in Tex /\ m \in Media /\ state[cur] = "READY" /\ hwupload[cur] \in UploadState
      /\ hwupload[cur].class = ClassOf(frame) /\ ClassOf(frame) \in Class
      /\ frame \in Frame /\ frame # NoFrame /\ frame \in out[m] /\ hwupload[cur].frame # frame
  BY <1>1, UploadOf DEF InTexture, InUpload, Invariant, TypeOK, Control, HoldersAreReady, UploadAssumption
<1>3. CASE ClassOf(frame) \notin Owner
  <2>1. UNCHANGED <<hwupload, out, released_twice>>
    BY <1>3 DEF MapFrame
  <2>2. TypeOK'
    BY <1>1, <2>1 DEF Frozen, Invariant, TypeOK, Updating, InTexture, InUpload
  <2>3. Control'
    BY <1>1, <1>2, <2>1
    DEF Frozen, Invariant, Control, Updating, InTexture, InUpload, MediaHonored, Honored, Wanted, TexturesOf,
        Attached
  <2>4. HoldersAreReady'
    BY <1>1, <1>2, <1>3, <2>1 DEF Frozen, Invariant, HoldersAreReady, InUpload
  <2>5. OneHolder' /\ SomeHolder'
    BY <1>1, <2>1 DEF Frozen, Invariant, OneHolder, SomeHolder, TexturesOf, InUpload
  <2> QED
    BY <2>2, <2>3, <2>4, <2>5 DEF Invariant
<1>4. CASE ClassOf(frame) \in Owner
  <2> DEFINE old == hwupload[cur].frame
             h   == [hwupload[cur] EXCEPT !.frame = frame]
  <2>1. Release(m, old) /\ hwupload' = [hwupload EXCEPT ![cur] = h] /\ (old = NoFrame \/ old \in out[m])
    BY <1>2, <1>4 DEF MapFrame, Invariant, TypeOK, HoldersAreReady
  <2>2. h \in UploadState /\ h.frame = frame /\ h.class = ClassOf(frame) /\ old = hwupload[cur].frame
    BY <1>2 DEF UploadState
  <2> HIDE DEF h, old
  <2>3. /\ hwupload' \in [Tex -> UploadState] /\ hwupload'[cur] = h
        /\ \A x \in Tex \ {cur} : hwupload'[x] = hwupload[x]
    BY <1>2, <2>1, <2>2 DEF Invariant, TypeOK
  <2>4. m = data_src[cur]
    OBVIOUS
  <2> HIDE DEF m
  <2>5. /\ out' \in [Media -> SUBSET Frame] /\ ~released_twice'
        /\ out'[m] = out[m] \ {old} /\ \A n \in Media \ {m} : out'[n] = out[n]
    BY <1>2, <2>1, ReleaseOnce DEF UploadAssumption, Invariant, TypeOK, HoldersAreReady
  <2>6. TypeOK'
    BY <1>1, <2>3, <2>5 DEF Frozen, Invariant, TypeOK, Updating, InTexture, InUpload
  <2>7. Control'
    BY <1>1, <1>2, <2>2, <2>3
    DEF Frozen, Invariant, Control, Updating, InTexture, InUpload, MediaHonored, Honored, Wanted, TexturesOf,
        Attached
  <2>8. HoldersAreReady'
    <3>1. ASSUME NEW n \in Media, media_frame[n] # NoFrame
          PROVE  media_frame[n] \in out'[n] /\ state[n] = "READY"
      BY <1>2, <2>2, <2>4, <2>5, <3>1 DEF Invariant, HoldersAreReady, OneHolder
    <3>2. ASSUME NEW x \in Tex \ {cur}, hwupload[x].frame # NoFrame
          PROVE  hwupload[x].frame \in out'[data_src[x]] /\ state[x] = "READY" /\ hwupload[x].class \in Owner
      <4>1. hwupload[x].frame \in out[data_src[x]] /\ data_src[x] \in Media
            /\ state[x] = "READY" /\ hwupload[x].class \in Owner
        BY <3>2 DEF Invariant, TypeOK, HoldersAreReady
      <4>2. data_src[x] = m => hwupload[x].frame # old
        BY <1>2, <2>2, <2>4, <3>2 DEF Invariant, OneHolder
      <4> QED
        BY <2>5, <4>1, <4>2
    <3>3. frame \in out'[m]
      BY <1>2, <2>2, <2>5
    <3> QED
      BY <1>1, <1>2, <1>4, <2>2, <2>3, <2>4, <2>5, <3>1, <3>2, <3>3 DEF Frozen, HoldersAreReady, InUpload
  <2>9. OneHolder'
    <3>1. \A x \in Tex \ {cur} : data_src[x] = m => hwupload[x].frame # frame
      BY <1>1, <2>4 DEF Invariant, OneHolder, InUpload
    <3>2. frame # media_frame[m]
      BY <1>1, <2>4 DEF Invariant, OneHolder, InUpload
    <3> QED
      BY <1>1, <1>2, <2>2, <2>3, <2>4, <3>1, <3>2 DEF Frozen, Invariant, OneHolder, InUpload
  <2>10. SomeHolder'
    <3>1. ASSUME NEW n \in Media, NEW f \in out'[n]
          PROVE  \/ media_frame[n] = f
                 \/ \E x \in TexturesOf(n) : hwupload'[x].frame = f
                 \/ m = n /\ frame = f
      <4>1. f \in out[n] /\ (n = m => f # old)
        BY <1>2, <2>5, <3>1
      <4>2. ASSUME NEW x \in TexturesOf(n), hwupload[x].frame = f
            PROVE  hwupload'[x].frame = f
        BY <2>2, <2>3, <2>4, <4>1, <4>2 DEF TexturesOf
      <4> QED
        BY <1>1, <2>4, <4>1, <4>2 DEF Invariant, SomeHolder
    <3> QED
      BY <1>1, <2>4, <3>1 DEF Frozen, SomeHolder, TexturesOf, InUpload
  <2> QED
    BY <2>6, <2>7, <2>8, <2>9, <2>10 DEF Invariant
<1> QED
  BY <1>3, <1>4

LEMMA ConversionPreserves ==
  ASSUME UploadAssumption, Invariant, UseMapped \/ InitHwconv \/ ExecHwconv
  PROVE  Invariant'
<1>1. /\ pc \in {"mapped", "convert"} /\ pc' = "end" /\ Frozen
      /\ UNCHANGED <<out, released_twice, media_frame, cur, frame>>
      /\ \/ UNCHANGED hwupload
         \/ hwupload' = [hwupload EXCEPT ![cur].hwconv = TRUE]
  BY DEF UseMapped, InitHwconv, ExecHwconv, params, frameVars, uploadVars, sceneVars, Frozen
<1>2. cur \in Tex /\ hwupload[cur] \in UploadState /\ hwupload[cur].class = ClassOf(frame)
  BY <1>1, UploadOf DEF InTexture, InUpload, Invariant, Control
<1>3. /\ hwupload' \in [Tex -> UploadState]
      /\ \A x \in Tex : hwupload'[x].frame = hwupload[x].frame /\ hwupload'[x].class = hwupload[x].class
  <2> DEFINE h == [hwupload[cur] EXCEPT !.hwconv = TRUE]
  <2>1. h \in UploadState /\ h.class = hwupload[cur].class /\ h.frame = hwupload[cur].frame
    BY <1>2 DEF UploadState
  <2>2. hwupload \in [Tex -> UploadState] /\ (UNCHANGED hwupload \/ hwupload' = [hwupload EXCEPT ![cur] = h])
    BY <1>1, <1>2 DEF Invariant, TypeOK
  <2> HIDE DEF h
  <2> QED
    BY <1>2, <2>1, <2>2
<1> QED
  BY <1>1, <1>2, <1>3, UploadMovesOn DEF InUpload

(* Its class has kept the frame, as ConvMayFail has only such classes.     *)
LEMMA InitHwconvFailsPreserves ==
  ASSUME UploadAssumption, Conserving, Invariant, InitHwconvFails
  PROVE  Invariant'
<1>1. /\ pc = "convert" /\ pc' = "update" /\ cur' = NoTex /\ frame' = NoFrame /\ Frozen
      /\ ClassOf(frame) \in Owner
      /\ UNCHANGED <<out, released_twice, media_frame, hwupload>>
  BY DEF Conserving, InitHwconvFails, UploadFails, UploadReturns, params, frameVars, sceneVars, Frozen
<1>2. cur \in Tex /\ hwupload[cur].frame = frame
  BY <1>1, UploadOf DEF InTexture, InUpload, Invariant, HoldersAreReady
<1>3. TypeOK'
  BY <1>1 DEF Frozen, Invariant, TypeOK, Updating, InTexture, InUpload
<1>4. Control'
  BY <1>1
  DEF Frozen, Invariant, TypeOK, Control, Updating, InTexture, InUpload, MediaHonored, Honored, Wanted,
      TexturesOf, Attached
<1>5. HoldersAreReady'
  BY <1>1 DEF Frozen, Invariant, HoldersAreReady, InUpload
<1>6. OneHolder'
  BY <1>1 DEF Frozen, Invariant, OneHolder, InUpload
<1>7. SomeHolder'
  BY <1>1, <1>2 DEF Frozen, Invariant, SomeHolder, TexturesOf, InUpload
<1> QED
  BY <1>3, <1>4, <1>5, <1>6, <1>7 DEF Invariant

LEMMA UploadEndsPreserves ==
  ASSUME UploadAssumption, Invariant, UploadEnds
  PROVE  Invariant'
<1>1. /\ pc = "end" /\ pc' = "update" /\ cur' = NoTex /\ frame' = NoFrame /\ Frozen
      /\ Release(data_src[cur], IF ClassOf(frame) \in Owner THEN NoFrame ELSE frame)
      /\ UploadReturns /\ UNCHANGED <<media_frame, hwupload>>
  BY DEF UploadEnds, UploadReturns, params, sceneVars, Frozen
<1>2. cur \in Tex /\ data_src[cur] \in Media
      /\ (hwupload[cur].frame = frame <=> ClassOf(frame) \in Owner)
  BY <1>1, UploadOf DEF InTexture, InUpload, Invariant, HoldersAreReady
<1>3. CASE ClassOf(frame) \notin Owner
  BY <1>1, <1>2, <1>3, UploadLetsGo DEF Invariant, TypeOK, InUpload
<1>4. CASE ClassOf(frame) \in Owner
  <2>1. Release(data_src[cur], NoFrame) /\ NoFrame \notin Frame /\ out \in [Media -> SUBSET Frame]
        /\ ~released_twice
    BY <1>1, <1>4 DEF UploadAssumption, Invariant, TypeOK, HoldersAreReady
  <2>2. /\ out' \in [Media -> SUBSET Frame] /\ ~released_twice'
        /\ \A m \in Media : out'[m] = out[m]
    <3>1. out' = [out EXCEPT ![data_src[cur]] = @ \ {NoFrame}] /\ ~released_twice'
      BY <2>1 DEF Release
    <3>2. out[data_src[cur]] \ {NoFrame} = out[data_src[cur]]
      BY <1>2, <2>1
    <3> QED
      BY <1>2, <2>1, <3>1, <3>2
  <2>3. TypeOK'
    BY <1>1, <2>2 DEF Frozen, Invariant, TypeOK, Updating, InTexture, InUpload
  <2>4. Control'
    BY <1>1
    DEF Frozen, Invariant, TypeOK, Control, Updating, InTexture, InUpload, MediaHonored, Honored, Wanted,
        TexturesOf, Attached
  <2>5. HoldersAreReady'
    BY <1>1, <2>2 DEF Frozen, Invariant, TypeOK, HoldersAreReady, InUpload
  <2>6. OneHolder'
    BY <1>1 DEF Frozen, Invariant, OneHolder, InUpload
  <2>7. SomeHolder'
    BY <1>1, <1>2, <1>4, <2>2 DEF Frozen, Invariant, SomeHolder, TexturesOf, InUpload
  <2> QED
    BY <2>3, <2>4, <2>5, <2>6, <2>7 DEF Invariant
<1> QED
  BY <1>3, <1>4

(***************************************************************************)
(* Theorems                                                                *)
(***************************************************************************)
LEMMA NextPreserves ==
  ASSUME UploadAssumption, Conserving, Invariant, [Next]_vars
  PROVE  Invariant'
<1>1. CASE Scene
  BY <1>1, ScenePreserves
<1>2. CASE Callback
  BY <1>2, MediaCallbackPreserves, MediaUpdatePreserves, TextureCallbackPreserves DEF Callback
<1>3. CASE Upload
  BY <1>3, NoFrameToTakePreserves, UnsupportedFramePreserves, TakeFramePreserves, ClassInitPreserves,
     ClassInitFailsPreserves, MapFramePreserves, ConversionPreserves, InitHwconvFailsPreserves,
     UploadEndsPreserves
  DEF Upload
<1>4. CASE UNCHANGED vars
  <2>1. TypeOK'
    BY <1>4 DEF vars, params, frameVars, uploadVars, sceneVars, Invariant, TypeOK
  <2>2. Control'
    BY <1>4
    DEF vars, params, frameVars, uploadVars, sceneVars, Invariant, Control, MediaHonored, Honored, Wanted,
        TexturesOf, Attached
  <2>3. HoldersAreReady' /\ OneHolder' /\ SomeHolder'
    BY <1>4
    DEF vars, params, frameVars, uploadVars, sceneVars, Invariant, HoldersAreReady, OneHolder, SomeHolder,
        TexturesOf
  <2> QED
    BY <2>1, <2>2, <2>3 DEF Invariant
<1> QED
  BY <1>1, <1>2, <1>3, <1>4 DEF Next

(* The invariant counts to one.                                            *)
LEMMA HoldersCounted == UploadAssumption /\ Invariant => FrameConserved
<1> SUFFICES ASSUME UploadAssumption, Invariant
             PROVE  FrameConserved
  OBVIOUS
<1>1. ASSUME NEW m \in Media, NEW f \in Frame
      PROVE  Holders(m, f) = IF f \in out[m] THEN 1 ELSE 0
  <2> DEFINE holding == {x \in TexturesOf(m) : hwupload[x].frame = f}
             uploads == Uploading(m) /\ frame = f /\ ~HandedOver(cur)
  <2>1. f # NoFrame
    BY DEF UploadAssumption
  <2>2. ASSUME NEW x \in holding
        PROVE  /\ holding = {x} /\ f \in out[m] /\ media_frame[m] # f /\ ~uploads
    <3>1. x \in Tex /\ data_src[x] = m /\ hwupload[x].frame = f
      BY DEF TexturesOf
    <3>2. \A y \in holding : y = x
      BY <2>1, <3>1 DEF Invariant, OneHolder, TexturesOf
    <3>3. f \in out[m] /\ media_frame[m] # f
      BY <2>1, <3>1 DEF Invariant, HoldersAreReady, OneHolder
    <3>4. ~uploads
      BY <2>1, <3>1 DEF Uploading, HandedOver, Invariant, OneHolder, Control
    <3> QED
      BY <3>2, <3>3, <3>4
  <2>3. media_frame[m] = f => f \in out[m] /\ ~uploads
    BY <2>1 DEF Uploading, Invariant, HoldersAreReady, OneHolder, Control
  <2>4. uploads => f \in out[m]
    BY <2>1 DEF Uploading, Invariant, HoldersAreReady, Control
  <2>5. f \in out[m] => holding # {} \/ media_frame[m] = f \/ uploads
    <3>1. SUFFICES ASSUME f \in out[m], media_frame[m] # f, pc \in InUpload, data_src[cur] = m, frame = f
                   PROVE  holding # {} \/ uploads
      BY DEF Invariant, SomeHolder
    <3>2. cur \in Tex /\ cur # NoTex
      BY <3>1, UploadOf DEF InTexture
    <3> QED
      BY <3>1, <3>2 DEF Uploading, HandedOver, TexturesOf
  <2>6. Cardinality(holding) = IF holding = {} THEN 0 ELSE 1
    <3>1. CASE holding = {}
      BY <3>1, FS_EmptySet
    <3>2. CASE holding # {}
      <4>1. PICK x : x \in holding
        BY <3>2
      <4>2. holding = {x} /\ Cardinality({x}) = 1
        BY <2>2, <4>1, FS_Singleton
      <4> QED
        BY <3>2, <4>2
    <3> QED
      BY <3>1, <3>2
  <2>7. Holders(m, f) = Cardinality(holding) + (IF media_frame[m] = f THEN 1 ELSE 0) + (IF uploads THEN 1 ELSE 0)
    BY DEF Holders
  <2> HIDE DEF holding, uploads
  <2> QED
    BY <2>2, <2>3, <2>4, <2>5, <2>6, <2>7
<1>2. ASSUME NEW m \in Media, state[m] = "UNINITIALIZED"
      PROVE  out[m] = {}
  <2>1. SUFFICES ASSUME NEW f \in out[m]
                 PROVE  FALSE
    OBVIOUS
  <2>2. f # NoFrame /\ f \in Frame
    BY DEF Invariant, TypeOK, UploadAssumption
  <2>3. media_frame[m] # f
    BY <1>2, <2>2 DEF Invariant, HoldersAreReady
  <2>4. \A x \in TexturesOf(m) : hwupload[x].frame # f
    BY <1>2, <2>2 DEF TexturesOf, Invariant, HoldersAreReady, Control
  <2>5. pc \in InUpload => data_src[cur] # m
    BY <1>2, UploadOf DEF InTexture
  <2> QED
    BY <2>3, <2>4, <2>5 DEF Invariant, SomeHolder
<1> QED
  BY <1>1, <1>2 DEF FrameConserved, Invariant, HoldersAreReady

(* FramesAreConserved: but for the failures Conserving excludes, a decoded *)
(* frame has exactly one holder until it goes back to its player, once,    *)
(* and no player is freed while a frame is out (hwupload.c:129-192,        *)
(* node_media.c:203-270).                                                  *)
THEOREM FramesAreConserved ==
  ASSUME Conserving
  PROVE  Spec => []FrameConserved
<1>1. Init => Invariant
  BY InitEstablishes, UploadAssumption
<1>2. Invariant /\ [Next]_vars => Invariant'
  BY NextPreserves, UploadAssumption
<1>3. Invariant => FrameConserved
  BY HoldersCounted, UploadAssumption
<1> QED
  BY <1>1, <1>2, <1>3, PTL DEF Spec

(***************************************************************************)
(* The images                                                              *)
(***************************************************************************)
(* What an image points to is there, for the texture being uploaded to as  *)
(* well, and an upload sets an image by the time it succeeds.              *)
Images ==
  /\ image \in [Tex -> [planes : {"none", "texture", "private", "media"}, ts : Frame \union {NoFrame}]]
  /\ texture \subseteq Tex
  /\ failed \subseteq Tex
  /\ \A x \in Tex :
       /\ image[x].planes # "none" => state[x] = "READY"
       /\ image[x].planes = "texture" => x \in texture
       /\ image[x].planes = "private" => hwupload[x].class \in Private
       /\ hwupload[x].hwconv => image[x].planes = "texture" /\ hwupload[x].require_hwconv
       /\ hwupload[x].require_hwconv => hwupload[x].class # "common"
       /\ hwupload[x].class = "common" => x \in texture
  /\ pc = "init" => image[cur].planes = "none" /\ hwupload[cur].class = "none"
  /\ pc = "mapped" => ~hwupload[cur].require_hwconv
  /\ pc = "convert" => hwupload[cur].require_hwconv
  /\ pc = "end" /\ cur \notin failed => image[cur].planes # "none"

(* A class that keeps its frame keeps the one its image shows.             *)
KeptIsShown ==
  \A x \in Tex \ failed :
    (x # cur \/ pc \in {"media", "take"}) /\ image[x].planes = "private" /\ hwupload[x].class \in Owner =>
      hwupload[x].frame = image[x].ts /\ image[x].ts # NoFrame

(* Most steps leave what the images rest on as it is.                      *)
LEMMA ImagesStay ==
  ASSUME Images, UNCHANGED <<image, texture, hwupload>>, failed' \subseteq Tex,
         \A x \in Tex : state[x] = "READY" => state'[x] = "READY",
         pc' \notin {"init", "mapped", "convert", "end"}
  PROVE  Images'
BY DEF Images

(* A texture that is released has no image, and nothing of a class.        *)
LEMMA ReleaseClears ==
  ASSUME UploadAssumption, Invariant, Images, NEW x \in Tex, ReleaseTexture(x),
         pc \notin InTexture, pc' = pc, \A y \in Tex \ {x} : state'[y] = state[y]
  PROVE  Images'
<1>1. /\ \A y \in Tex : hwupload'[y] = IF y = x THEN Zeroed ELSE hwupload[y]
      /\ \A y \in Tex : image'[y] = IF y = x THEN NoImage ELSE image[y]
      /\ texture' = texture \ {x} /\ failed' = failed \ {x}
      /\ image' \in [Tex -> [planes : {"none", "texture", "private", "media"}, ts : Frame \union {NoFrame}]]
  BY DEF ReleaseTexture, HwuploadUninit, Images, NoImage, Invariant, TypeOK
<1>2. ~Zeroed.hwconv /\ ~Zeroed.require_hwconv /\ Zeroed.class # "common" /\ NoImage.planes = "none"
  BY DEF Zeroed, NoImage
<1> HIDE DEF Zeroed, NoImage
<1> QED
  BY <1>1, <1>2 DEF Images, InTexture, InUpload

LEMMA SceneKeepsImages ==
  ASSUME UploadAssumption, Invariant, Images, Scene
  PROVE  Images'
<1> USE DEF params, frameVars, uploadVars, sceneVars
<1>1. failed \subseteq Tex
  BY DEF Images
<1>2. CASE Attach
  BY <1>1, <1>2, ImagesStay DEF Attach, Invariant, TypeOK
<1>3. CASE Detach \/ SceneDetached \/ FrameHonored \/ EndFrame
  BY <1>1, <1>3, ImagesStay DEF Detach, SceneDetached, FrameHonored, EndFrame
<1>4. ASSUME NEW wanted \in SUBSET Tex, NEW drawn \in SUBSET wanted, Visit(wanted, drawn)
      PROVE  Images'
  BY <1>1, <1>4, ImagesStay DEF Visit
<1> QED
  BY <1>2, <1>3, <1>4 DEF Scene

LEMMA CallbackKeepsImages ==
  ASSUME UploadAssumption, Invariant, Images, Callback
  PROVE  Images'
<1> USE DEF params, frameVars, uploadVars, sceneVars
<1>1. failed \subseteq Tex
  BY DEF Images
<1>2. ASSUME NEW m \in Media, MediaPrefetch(m) \/ MediaRelease(m) \/ MediaUninit(m)
      PROVE  Images'
  <2>1. \A x \in Tex : x # m
    BY DEF UploadAssumption
  <2> QED
    BY <1>1, <1>2, <2>1, ImagesStay DEF MediaPrefetch, MediaRelease, MediaUninit, Invariant, TypeOK
<1>3. ASSUME NEW got \in stream \union {NoFrame}, MediaUpdate(got)
      PROVE  Images'
  BY <1>1, <1>3, ImagesStay DEF MediaUpdate
<1>4. ASSUME NEW x \in Tex
      PROVE  /\ TexturePrefetch(x) => Images'
             /\ TextureRelease(x) => Images'
             /\ TextureUninit(x) => Images'
             /\ TextureUpdate(x) => Images'
  <2>1. CASE TexturePrefetch(x)
    BY <1>1, <2>1, ImagesStay DEF TexturePrefetch, Invariant, TypeOK
  <2>2. CASE TextureRelease(x)
    BY <2>2, ReleaseClears DEF TextureRelease, Invariant, TypeOK, InTexture, InUpload
  <2>3. CASE TextureUninit(x)
    <3>1. CASE state[x] = "READY"
      BY <2>3, <3>1, ReleaseClears DEF TextureUninit, Invariant, TypeOK, InTexture, InUpload
    <3>2. CASE state[x] # "READY"
      BY <1>1, <2>3, <3>2, ImagesStay DEF TextureUninit, Invariant, TypeOK
    <3> QED
      BY <3>1, <3>2
  <2>4. CASE TextureUpdate(x)
    BY <1>1, <2>4, ImagesStay DEF TextureUpdate
  <2> QED
    BY <2>1, <2>2, <2>3, <2>4
<1> QED
  BY <1>2, <1>3, <1>4 DEF Callback

(* The steps of an upload: the class is replaced once the image is gone.   *)
LEMMA UploadKeepsImages ==
  ASSUME UploadAssumption, Invariant, Images, Upload
  PROVE  Images'
<1> USE DEF params, frameVars, uploadVars, sceneVars
<1>1. pc \in InTexture /\ cur \in Tex /\ hwupload \in [Tex -> UploadState] /\ state[cur] = "READY"
      /\ image \in [Tex -> [planes : {"none", "texture", "private", "media"}, ts : Frame \union {NoFrame}]]
      /\ frame \in Frame \union {NoFrame} /\ failed \subseteq Tex
  <2>1. pc \in InTexture
    BY DEF Upload, NoFrameToTake, UnsupportedFrame, TakeFrame, ClassInit, ClassInitFails, MapFrame, UseMapped,
           InitHwconv, InitHwconvFails, ExecHwconv, UploadEnds, InTexture, InUpload
  <2> QED
    BY <2>1, UploadOf DEF Images, Invariant, TypeOK
<1>2. CASE NoFrameToTake \/ UnsupportedFrame
  BY <1>1, <1>2, ImagesStay DEF NoFrameToTake, UnsupportedFrame, UploadFails, UploadReturns
<1>3. CASE TakeFrame
  <2>1. pc' \in {"init", "map"} /\ UNCHANGED <<state, texture, cur>> /\ failed' = failed \ {cur}
    BY <1>3 DEF TakeFrame
  <2>2. CASE NeedsInit(cur, media_frame[data_src[cur]])
    <3>1. /\ \A y \in Tex : hwupload'[y] = IF y = cur THEN Zeroed ELSE hwupload[y]
          /\ \A y \in Tex : image'[y] = IF y = cur THEN NoImage ELSE image[y]
          /\ image' \in [Tex -> [planes : {"none", "texture", "private", "media"}, ts : Frame \union {NoFrame}]]
      BY <1>1, <1>3, <2>2 DEF TakeFrame, HwuploadUninit, NoImage
    <3>2. ~Zeroed.hwconv /\ ~Zeroed.require_hwconv /\ Zeroed.class = "none" /\ NoImage.planes = "none"
      BY DEF Zeroed, NoImage
    <3> HIDE DEF Zeroed, NoImage
    <3> QED
      BY <1>1, <2>1, <3>1, <3>2 DEF Images
  <2>3. CASE ~NeedsInit(cur, media_frame[data_src[cur]])
    <3>1. UNCHANGED <<image, hwupload>> /\ pc' = "map"
      BY <1>3, <2>3 DEF TakeFrame
    <3> QED
      BY <1>1, <2>1, <3>1, ImagesStay
  <2> QED
    BY <2>2, <2>3
<1>4. CASE ClassInit
  <2> DEFINE r == ClassOf(frame) # "common" /\ cur \notin direct
             h == [hwupload[cur] EXCEPT !.class = ClassOf(frame), !.size = SizeOf(frame),
                                        !.planes = PlanesOf(ClassOf(frame)), !.require_hwconv = r]
  <2>1. h.hwconv = hwupload[cur].hwconv /\ h.class = ClassOf(frame) /\ (h.require_hwconv => ClassOf(frame) # "common")
    <3>1. r => ClassOf(frame) # "common"
      OBVIOUS
    <3> HIDE DEF r
    <3>2. h.hwconv = hwupload[cur].hwconv /\ h.class = ClassOf(frame) /\ h.require_hwconv = r
      BY <1>1 DEF UploadState
    <3> QED
      BY <3>1, <3>2
  <2>2. hwupload' = [hwupload EXCEPT ![cur] = h] /\ pc = "init" /\ pc' = "map"
        /\ UNCHANGED <<state, image, failed, cur>>
        /\ texture' = IF ClassOf(frame) = "common" THEN texture \union {cur} ELSE texture
    BY <1>4 DEF ClassInit
  <2> HIDE DEF h
  <2>3. hwupload'[cur] = h /\ \A y \in Tex \ {cur} : hwupload'[y] = hwupload[y]
    BY <1>1, <2>2
  <2> QED
    BY <1>1, <2>1, <2>2, <2>3 DEF Images
<1>5. CASE ClassInitFails
  <2>1. PICK created \in {0, 1} : hwupload' = [hwupload EXCEPT ![cur].planes = created]
    BY <1>5 DEF ClassInitFails
  <2> DEFINE h == [hwupload[cur] EXCEPT !.planes = created]
  <2>2. h.hwconv = hwupload[cur].hwconv /\ h.class = hwupload[cur].class /\ h.require_hwconv = hwupload[cur].require_hwconv
    BY <1>1 DEF UploadState
  <2>3. hwupload' = [hwupload EXCEPT ![cur] = h] /\ pc = "init" /\ pc' = "update" /\ failed' = failed \union {cur}
        /\ UNCHANGED <<state, image, texture>>
    BY <1>5, <2>1 DEF ClassInitFails, UploadFails, UploadReturns
  <2> HIDE DEF h
  <2>4. hwupload'[cur] = h /\ \A y \in Tex \ {cur} : hwupload'[y] = hwupload[y]
    BY <1>1, <2>3
  <2> QED
    BY <1>1, <2>2, <2>3, <2>4 DEF Images
<1>6. CASE MapFrame
  <2> DEFINE h == [hwupload[cur] EXCEPT !.frame = frame]
  <2>1. h.hwconv = hwupload[cur].hwconv /\ h.class = hwupload[cur].class /\ h.require_hwconv = hwupload[cur].require_hwconv
    BY <1>1 DEF UploadState
  <2>2. /\ hwupload' = [hwupload EXCEPT ![cur] = h] \/ hwupload' = hwupload
        /\ UNCHANGED <<state, image, texture, cur>> /\ failed' \in {failed, failed \union {cur}}
        /\ \/ pc' = IF hwupload[cur].require_hwconv THEN "convert" ELSE "mapped"
           \/ pc' = "end" /\ cur \in failed'
    BY <1>6 DEF MapFrame
  <2> HIDE DEF h
  <2>3. /\ \A y \in Tex \ {cur} : hwupload'[y] = hwupload[y]
        /\ hwupload'[cur] = h \/ hwupload'[cur] = hwupload[cur]
    BY <1>1, <2>2
  <2> QED
    BY <1>1, <2>1, <2>2, <2>3 DEF Images
<1>7. CASE UseMapped
  <2> DEFINE c == hwupload[cur].class
             p == CASE c = "common" -> "texture" [] c = "mediacodec" -> "media" [] OTHER -> "private"
             i == [image[cur] EXCEPT !.planes = p]
  <2>1. i \in [planes : {"none", "texture", "private", "media"}, ts : Frame \union {NoFrame}] /\ i.planes = p
    BY <1>1
  <2>2. image' = [image EXCEPT ![cur] = i] /\ pc = "mapped" /\ pc' = "end" /\ UNCHANGED <<hwupload, texture, failed, state, cur>>
    BY <1>7 DEF UseMapped
  <2> HIDE DEF i
  <2>3. image' \in [Tex -> [planes : {"none", "texture", "private", "media"}, ts : Frame \union {NoFrame}]]
        /\ image'[cur] = i /\ \A y \in Tex \ {cur} : image'[y] = image[y]
    BY <1>1, <2>1, <2>2
  <2>4. c \in Class
    BY <2>2 DEF Invariant, Control, InUpload
  <2>5. p # "none" /\ (p = "private" => c \in Private) /\ (p = "texture" => c = "common")
    BY <2>4 DEF Class, Private, Owner
  <2> QED
    BY <1>1, <2>1, <2>2, <2>3, <2>4, <2>5 DEF Images
<1>8. CASE InitHwconv
  <2> DEFINE h == [hwupload[cur] EXCEPT !.hwconv = TRUE]
             i == [planes |-> "texture", ts |-> NoFrame]
  <2>1. h.hwconv /\ h.class = hwupload[cur].class /\ h.require_hwconv = hwupload[cur].require_hwconv
    BY <1>1 DEF UploadState
  <2>2. /\ hwupload' = [hwupload EXCEPT ![cur] = h] /\ image' = [image EXCEPT ![cur] = i]
        /\ texture' = texture \union {cur} /\ pc = "convert" /\ pc' = "end" /\ UNCHANGED <<failed, state, cur>>
    BY <1>8 DEF InitHwconv
  <2>3. i.planes = "texture" /\ i \in [planes : {"none", "texture", "private", "media"}, ts : Frame \union {NoFrame}]
    OBVIOUS
  <2> HIDE DEF h, i
  <2>4. /\ hwupload'[cur] = h /\ \A y \in Tex \ {cur} : hwupload'[y] = hwupload[y]
        /\ image'[cur] = i /\ \A y \in Tex \ {cur} : image'[y] = image[y]
        /\ image' \in [Tex -> [planes : {"none", "texture", "private", "media"}, ts : Frame \union {NoFrame}]]
    BY <1>1, <2>2, <2>3
  <2> QED
    BY <1>1, <2>1, <2>2, <2>3, <2>4 DEF Images
<1>9. CASE InitHwconvFails
  <2>1. /\ image' = [image EXCEPT ![cur] = NoImage] /\ pc = "convert" /\ pc' = "update"
        /\ ~hwupload[cur].hwconv /\ texture' = texture \ {cur} /\ failed' = failed \union {cur} /\ UNCHANGED <<state, hwupload>>
    BY <1>9 DEF InitHwconvFails, UploadFails, UploadReturns
  <2>2. NoImage.planes = "none" /\ NoImage \in [planes : {"none", "texture", "private", "media"}, ts : Frame \union {NoFrame}]
    BY DEF NoImage
  <2> HIDE DEF NoImage
  <2>3. /\ image'[cur] = NoImage /\ \A y \in Tex \ {cur} : image'[y] = image[y]
        /\ image' \in [Tex -> [planes : {"none", "texture", "private", "media"}, ts : Frame \union {NoFrame}]]
    BY <1>1, <2>1, <2>2
  <2> QED
    BY <1>1, <2>1, <2>2, <2>3 DEF Images
<1>10. CASE ExecHwconv
  BY <1>1, <1>10 DEF ExecHwconv, Images
<1>11. CASE UploadEnds
  <2> DEFINE i == [image[cur] EXCEPT !.ts = frame]
  <2>1. i.planes = image[cur].planes /\ i \in [planes : {"none", "texture", "private", "media"}, ts : Frame \union {NoFrame}]
    BY <1>1
  <2>2. image' = [image EXCEPT ![cur] = i] /\ pc' = "update" /\ UNCHANGED <<hwupload, texture, failed, state>>
    BY <1>11 DEF UploadEnds, UploadReturns
  <2> HIDE DEF i
  <2>3. /\ image'[cur] = i /\ \A y \in Tex \ {cur} : image'[y] = image[y]
        /\ image' \in [Tex -> [planes : {"none", "texture", "private", "media"}, ts : Frame \union {NoFrame}]]
    BY <1>1, <2>1, <2>2
  <2> QED
    BY <1>1, <2>1, <2>2, <2>3 DEF Images
<1> QED
  BY <1>2, <1>3, <1>4, <1>5, <1>6, <1>7, <1>8, <1>9, <1>10, <1>11 DEF Upload

(* What does not touch the texture being uploaded to changes no other.     *)
LEMMA ShownStays ==
  ASSUME KeptIsShown,
         \A x \in Tex : x # cur => image'[x] = image[x] /\ hwupload'[x] = hwupload[x],
         \A x \in Tex : x \in failed => x \in failed' \/ x = cur,
         cur' = cur, pc' \notin {"media", "take"}
  PROVE  KeptIsShown'
BY DEF KeptIsShown

(* A texture that is released shows no frame.                              *)
LEMMA ReleaseShowsNone ==
  ASSUME UploadAssumption, Invariant, Images, KeptIsShown, NEW x \in Tex, ReleaseTexture(x),
         pc \notin InTexture, UNCHANGED <<pc, cur>>
  PROVE  KeptIsShown'
<1>1. \A y \in Tex \ {x} : hwupload'[y] = hwupload[y] /\ image'[y] = image[y]
  BY DEF ReleaseTexture, HwuploadUninit, Images, Invariant, TypeOK
<1>2. image'[x].planes = "none" /\ failed' = failed \ {x}
  BY DEF ReleaseTexture, Images, NoImage
<1> QED
  BY <1>1, <1>2 DEF KeptIsShown, InTexture

LEMMA SceneKeepsShown ==
  ASSUME UploadAssumption, Invariant, Images, KeptIsShown, Scene \/ Callback
  PROVE  KeptIsShown'
<1> USE DEF params, frameVars, uploadVars, sceneVars
<1>1. CASE Scene
  BY <1>1
  DEF Scene, Attach, Detach, SceneDetached, FrameHonored, EndFrame, Visit, Invariant, Control, KeptIsShown,
      InTexture, InUpload
<1>2. ASSUME NEW m \in Media, MediaPrefetch(m) \/ MediaRelease(m) \/ MediaUninit(m)
      PROVE  KeptIsShown'
  BY <1>2 DEF MediaPrefetch, MediaRelease, MediaUninit, KeptIsShown
<1>3. ASSUME NEW got \in stream \union {NoFrame}, MediaUpdate(got)
      PROVE  UNCHANGED <<image, hwupload, failed, cur>> /\ pc = "media"
  BY <1>3 DEF MediaUpdate
<1>4. ASSUME NEW got \in stream \union {NoFrame}, MediaUpdate(got)
      PROVE  pc' = "take"
  BY <1>4 DEF MediaUpdate, Invariant, TypeOK
<1>5. ASSUME NEW x \in Tex, TexturePrefetch(x) \/ TextureUpdate(x)
      PROVE  KeptIsShown'
  BY <1>5 DEF TexturePrefetch, TextureUpdate, KeptIsShown, Invariant, Control, InTexture, InUpload, UploadAssumption
<1>6. ASSUME NEW x \in Tex, TextureRelease(x)
      PROVE  KeptIsShown'
  BY <1>6, ReleaseShowsNone DEF TextureRelease, InTexture, InUpload
<1>7. ASSUME NEW x \in Tex, TextureUninit(x)
      PROVE  KeptIsShown'
  BY <1>7, ReleaseShowsNone DEF TextureUninit, InTexture, InUpload, KeptIsShown
<1>8. ASSUME NEW got \in stream \union {NoFrame}, MediaUpdate(got)
      PROVE  KeptIsShown'
  BY <1>3, <1>4, <1>8 DEF KeptIsShown
<1> QED
  BY <1>1, <1>2, <1>5, <1>6, <1>7, <1>8 DEF Callback

LEMMA UploadKeepsShown ==
  ASSUME UploadAssumption, Invariant, Images, KeptIsShown, Upload
  PROVE  KeptIsShown'
<1> USE DEF params, frameVars, uploadVars, sceneVars
<1>1. pc \in InTexture /\ cur \in Tex /\ hwupload \in [Tex -> UploadState]
      /\ image \in [Tex -> [planes : {"none", "texture", "private", "media"}, ts : Frame \union {NoFrame}]]
  <2>1. pc \in InTexture
    BY DEF Upload, NoFrameToTake, UnsupportedFrame, TakeFrame, ClassInit, ClassInitFails, MapFrame, UseMapped,
           InitHwconv, InitHwconvFails, ExecHwconv, UploadEnds, InTexture, InUpload
  <2> QED
    BY <2>1, UploadOf DEF Images, Invariant, TypeOK
<1>2. CASE NoFrameToTake
  BY <1>2 DEF NoFrameToTake, UploadReturns, KeptIsShown
<1>3. CASE UnsupportedFrame
  BY <1>3 DEF UnsupportedFrame, UploadFails, UploadReturns, KeptIsShown
<1>4. CASE TakeFrame
  <2>1. pc' \in {"init", "map"} /\ cur' = cur /\ failed' = failed \ {cur}
    BY <1>4 DEF TakeFrame
  <2>2. \A x \in Tex : x # cur => image'[x] = image[x] /\ hwupload'[x] = hwupload[x]
    BY <1>1, <1>4 DEF TakeFrame, HwuploadUninit
  <2> QED
    BY <2>1, <2>2, ShownStays
<1>5. CASE ClassInit \/ MapFrame \/ UseMapped \/ InitHwconv \/ ExecHwconv
  <2>1. pc' \in {"map", "mapped", "convert", "end"} /\ cur' = cur /\ failed' \in {failed, failed \union {cur}}
    BY <1>5 DEF ClassInit, MapFrame, UseMapped, InitHwconv, ExecHwconv
  <2>2. \A x \in Tex : x # cur => image'[x] = image[x] /\ hwupload'[x] = hwupload[x]
    BY <1>1, <1>5 DEF ClassInit, MapFrame, UseMapped, InitHwconv, ExecHwconv
  <2> QED
    BY <2>1, <2>2, ShownStays
<1>6. CASE ClassInitFails \/ InitHwconvFails
  <2>1. failed' = failed \union {cur}
    BY <1>6 DEF ClassInitFails, InitHwconvFails, UploadFails
  <2>2. \A x \in Tex : x # cur => image'[x] = image[x] /\ hwupload'[x] = hwupload[x]
    BY <1>1, <1>6 DEF ClassInitFails, InitHwconvFails
  <2> QED
    BY <2>1, <2>2 DEF KeptIsShown
<1>7. CASE UploadEnds
  <2> DEFINE i == [image[cur] EXCEPT !.ts = frame]
  <2>1. i.planes = image[cur].planes /\ i.ts = frame
    BY <1>1
  <2>2. pc = "end" /\ image' = [image EXCEPT ![cur] = i] /\ UNCHANGED <<hwupload, failed>>
    BY <1>7 DEF UploadEnds
  <2> HIDE DEF i
  <2>3. image'[cur] = i /\ \A x \in Tex \ {cur} : image'[x] = image[x]
    BY <1>1, <2>2
  <2>4. frame # NoFrame /\ (hwupload[cur].class \in Owner => hwupload[cur].frame = frame)
    BY <2>2 DEF Invariant, Control, HoldersAreReady, InUpload
  <2> QED
    BY <2>1, <2>2, <2>3, <2>4 DEF KeptIsShown
<1> QED
  BY <1>2, <1>3, <1>4, <1>5, <1>6, <1>7 DEF Upload

(***************************************************************************)
(* The frame an image shows                                                *)
(***************************************************************************)
Sole(x) == TexturesOf(data_src[x]) = {x}

(* The upload in progress has the last frame of the media in its hands.    *)
OnItsWay(x) == cur = x /\ (pc \in InUpload \/ media_frame[data_src[x]] # NoFrame)

(* A texture that does not share its media is updated right after it, once *)
(* a frame, and goes idle with it.                                         *)
Follows ==
  /\ latest \in [Media -> Frame \union {NoFrame}]
  /\ pc \in InTexture => cur \notin todo
  /\ pc = "honor" => updated = {}
  /\ \A m \in Media : latest[m] # NoFrame => state[m] = "READY"
  /\ \A x \in Tex : Sole(x) =>
       /\ pc \in Updating /\ data_src[x] \in updated => x \notin todo
       /\ latest[data_src[x]] # NoFrame => state[x] # "INITIALIZED"
       /\ media_frame[data_src[x]] # NoFrame =>
            pc = "take" /\ cur = x /\ media_frame[data_src[x]] = latest[data_src[x]]
       /\ pc \in InUpload /\ cur = x => frame = latest[data_src[x]]
       /\ x \notin failed /\ latest[data_src[x]] # NoFrame /\ state[x] = "READY" /\ ~OnItsWay(x) =>
            image[x].planes # "none" /\ image[x].ts = latest[data_src[x]]

LEMMA SceneFollows ==
  ASSUME UploadAssumption, Invariant, Follows, Scene
  PROVE  Follows'
<1> USE DEF params, frameVars, uploadVars, sceneVars, InTexture, InUpload, Updating
<1>1. cur = NoTex /\ \A x \in Tex : x # NoTex
  BY DEF Scene, Attach, Detach, SceneDetached, FrameHonored, EndFrame, Visit, Invariant, Control, UploadAssumption
<1>2. CASE Attach
  <2>1. \A m \in Media : latest[m] = NoFrame
    BY <1>2 DEF Attach, Follows, Invariant, TypeOK
  <2> QED
    BY <1>1, <1>2, <2>1 DEF Attach, Follows, Sole, OnItsWay, TexturesOf, Invariant, TypeOK
<1>3. CASE Detach \/ SceneDetached
  BY <1>1, <1>3 DEF Detach, SceneDetached, Follows, Sole, OnItsWay, TexturesOf
<1>4. CASE FrameHonored
  BY <1>1, <1>4 DEF FrameHonored, Follows, Sole, OnItsWay, TexturesOf
<1>5. CASE EndFrame
  BY <1>1, <1>5 DEF EndFrame, Follows, Sole, OnItsWay, TexturesOf
<1>6. ASSUME NEW wanted \in SUBSET Tex, NEW drawn \in SUBSET wanted, Visit(wanted, drawn)
      PROVE  Follows'
  BY <1>1, <1>6 DEF Visit, Follows, Sole, OnItsWay, TexturesOf
<1> QED
  BY <1>2, <1>3, <1>4, <1>5, <1>6 DEF Scene

LEMMA MediaFollows ==
  ASSUME UploadAssumption, Invariant, Follows, NEW m \in Media,
         MediaPrefetch(m) \/ MediaRelease(m) \/ MediaUninit(m)
  PROVE  Follows'
<1> USE DEF params, frameVars, uploadVars, sceneVars, InTexture, InUpload, Updating
<1>1. cur = NoTex /\ \A x \in Tex : x # NoTex /\ x # m /\ state'[x] = state[x] /\ data_src[x] \in Media
  BY DEF MediaPrefetch, MediaRelease, MediaUninit, Invariant, TypeOK, Control, UploadAssumption
<1>2. CASE MediaPrefetch(m)
  BY <1>1, <1>2 DEF MediaPrefetch, Follows, Sole, OnItsWay, TexturesOf, Invariant, TypeOK
<1>3. CASE MediaRelease(m)
  <2>1. /\ \A n \in Media : latest'[n] = IF n = m THEN NoFrame ELSE latest[n]
        /\ \A n \in Media : media_frame'[n] = IF n = m THEN NoFrame ELSE media_frame[n]
        /\ \A n \in Media : n # m => state'[n] = state[n]
        /\ latest' \in [Media -> Frame \union {NoFrame}]
    BY <1>3 DEF MediaRelease, Follows, Invariant, TypeOK
  <2> QED
    BY <1>1, <1>3, <2>1 DEF MediaRelease, Follows, Sole, OnItsWay, TexturesOf
<1>4. CASE MediaUninit(m)
  <2>1. /\ \A n \in Media : latest'[n] = IF n = m THEN NoFrame ELSE latest[n]
        /\ \A n \in Media : media_frame'[n] \in {NoFrame, media_frame[n]}
        /\ \A n \in Media : n # m => state'[n] = state[n]
        /\ latest' \in [Media -> Frame \union {NoFrame}]
    BY <1>4 DEF MediaUninit, Follows, Invariant, TypeOK
  <2> QED
    BY <1>1, <1>4, <2>1 DEF MediaUninit, Follows, Sole, OnItsWay, TexturesOf
<1> QED
  BY <1>2, <1>3, <1>4

LEMMA MediaUpdateFollows ==
  ASSUME UploadAssumption, Invariant, Follows, NEW got \in stream \union {NoFrame}, MediaUpdate(got)
  PROVE  Follows'
<1> DEFINE m == data_src[cur]
<1> USE DEF InTexture, InUpload, Updating
<1>1. /\ pc = "media" /\ pc' = "take" /\ UNCHANGED <<data_src, failed, image, todo, state, cur, frame>>
      /\ media_frame' = [media_frame EXCEPT ![m] = got] /\ updated' = updated \union {m}
      /\ latest' = [latest EXCEPT ![m] = IF got = NoFrame THEN @ ELSE got]
      /\ got \in Frame \union {NoFrame}
  BY DEF MediaUpdate, params, uploadVars, Invariant, TypeOK
<1>2. cur \in Tex /\ m \in Media /\ m = data_src[cur] /\ state[m] = "READY" /\ state[cur] = "READY"
      /\ \A x \in Tex : data_src[x] \in Media
  BY <1>1, UploadOf DEF Invariant, TypeOK
<1> HIDE DEF m
<1>3. /\ latest'[m] = (IF got = NoFrame THEN latest[m] ELSE got) /\ media_frame'[m] = got
      /\ \A n \in Media \ {m} : latest'[n] = latest[n] /\ media_frame'[n] = media_frame[n]
      /\ latest' \in [Media -> Frame \union {NoFrame}]
  BY <1>1, <1>2 DEF Follows, Invariant, TypeOK
<1>4. ASSUME NEW x \in Tex, Sole(x)
      PROVE  data_src[x] = m => x = cur
  BY <1>2, <1>4 DEF Sole, TexturesOf
<1> QED
  BY <1>1, <1>2, <1>3, <1>4 DEF Follows, Sole, OnItsWay, TexturesOf

LEMMA TextureFollows ==
  ASSUME UploadAssumption, Invariant, Images, Follows, NEW x \in Tex,
         TexturePrefetch(x) \/ TextureRelease(x) \/ TextureUninit(x) \/ TextureUpdate(x)
  PROVE  Follows'
<1> USE DEF params, frameVars, uploadVars, sceneVars, InTexture, InUpload, Updating
<1>1. /\ cur = NoTex /\ pc \notin InTexture /\ x \notin Media
      /\ \A y \in Tex : y # NoTex /\ data_src[y] \in Media
  BY DEF TexturePrefetch, TextureRelease, TextureUninit, TextureUpdate, Invariant, TypeOK, Control, UploadAssumption
<1>2. UNCHANGED <<latest, media_frame, updated, data_src, frame>>
  BY DEF TexturePrefetch, TextureRelease, TextureUninit, TextureUpdate
<1>3. CASE TexturePrefetch(x)
  BY <1>1, <1>3 DEF TexturePrefetch, Follows, Sole, OnItsWay, TexturesOf, Invariant, TypeOK
<1>4. CASE TextureRelease(x)
  <2>1. /\ pc = "honor" /\ pc' = pc /\ cur' = cur /\ todo' = todo /\ state' = [state EXCEPT ![x] = "INITIALIZED"]
        /\ \A y \in Tex \ {x} : image'[y] = image[y] /\ (y \in failed' <=> y \in failed)
    BY <1>4 DEF TextureRelease, ReleaseTexture
  <2>2. Sole(x) => latest[data_src[x]] = NoFrame
    BY <1>1, <1>4 DEF TextureRelease, MediaHonored, Wanted, Sole, Follows
  <2> QED
    BY <1>1, <1>2, <2>1, <2>2 DEF Follows, Sole, OnItsWay, TexturesOf, Invariant, TypeOK
<1>5. CASE TextureUninit(x)
  <2>1. /\ pc = "detach" /\ pc' = pc /\ cur' = cur /\ todo' = todo /\ state' = [state EXCEPT ![x] = "UNINITIALIZED"]
        /\ \A y \in Tex \ {x} : image'[y] = image[y] /\ (y \in failed' <=> y \in failed)
    <3>1. CASE state[x] = "READY"
      BY <1>5, <3>1 DEF TextureUninit, ReleaseTexture, Images
    <3>2. CASE state[x] # "READY"
      BY <1>5, <3>2 DEF TextureUninit
    <3> QED
      BY <3>1, <3>2
  <2> QED
    BY <1>1, <1>2, <2>1 DEF Follows, Sole, OnItsWay, TexturesOf, Invariant, TypeOK
<1>6. CASE TextureUpdate(x)
  BY <1>1, <1>6 DEF TextureUpdate, Follows, Sole, OnItsWay, TexturesOf
<1> QED
  BY <1>3, <1>4, <1>5, <1>6

(* An upload ends in failure, or with an image of its frame.               *)
LEMMA UploadFollows ==
  ASSUME UploadAssumption, Invariant, Images, Follows, Upload
  PROVE  Follows'
<1> DEFINE m == data_src[cur]
<1> USE DEF InTexture, InUpload, Updating
<1>1. /\ pc \in InTexture
      /\ UNCHANGED <<data_src, state, updated, todo, latest>>
      /\ \A x \in Tex \ {cur} : image'[x] = image[x] /\ (x \in failed' <=> x \in failed)
  <2>1. pc \in InTexture
    BY DEF Upload, NoFrameToTake, UnsupportedFrame, TakeFrame, ClassInit, ClassInitFails, MapFrame, UseMapped,
           InitHwconv, InitHwconvFails, ExecHwconv, UploadEnds
  <2>2. cur \in Tex
    BY <2>1, UploadOf
  <2>3. UNCHANGED <<data_src, state, updated, todo, latest>>
    BY DEF Upload, NoFrameToTake, UnsupportedFrame, TakeFrame, ClassInit, ClassInitFails, MapFrame, UseMapped,
           InitHwconv, InitHwconvFails, ExecHwconv, UploadEnds, params, frameVars, sceneVars
  <2>4. \A x \in Tex \ {cur} : image'[x] = image[x]
    BY <2>2 DEF Upload, NoFrameToTake, UnsupportedFrame, TakeFrame, ClassInit, ClassInitFails, MapFrame, UseMapped,
           InitHwconv, InitHwconvFails, ExecHwconv, UploadEnds, uploadVars, Images
  <2>5. failed' \in {failed, failed \union {cur}, failed \ {cur}}
    BY DEF Upload, NoFrameToTake, UnsupportedFrame, TakeFrame, ClassInit, ClassInitFails, MapFrame, UseMapped,
           InitHwconv, InitHwconvFails, ExecHwconv, UploadEnds, UploadFails, uploadVars
  <2> QED
    BY <2>1, <2>3, <2>4, <2>5
<1>2. /\ cur \in Tex /\ cur # NoTex /\ m \in Media /\ state[m] = "READY" /\ state[cur] = "READY"
      /\ \A x \in Tex : x # NoTex /\ data_src[x] \in Media
  BY <1>1, UploadOf DEF Invariant, TypeOK, UploadAssumption
<1>3. \A x \in Tex : Sole(x) /\ data_src[x] = m => x = cur
  BY <1>2 DEF Sole, TexturesOf
<1>4. ASSUME cur' = NoTex, pc' = "update", cur \in failed',
             (UNCHANGED media_frame /\ pc # "take") \/ media_frame' = [media_frame EXCEPT ![m] = NoFrame]
      PROVE  Follows'
  <2>1. \A n \in Media : n # m => media_frame'[n] = media_frame[n]
    BY <1>4 DEF Invariant, TypeOK
  <2>2. media_frame'[m] = NoFrame \/ (media_frame'[m] = media_frame[m] /\ pc # "take")
    BY <1>2, <1>4 DEF Invariant, TypeOK
  <2> QED
    BY <1>1, <1>2, <1>3, <1>4, <2>1, <2>2 DEF Follows, Sole, OnItsWay, TexturesOf
<1>5. CASE NoFrameToTake
  BY <1>1, <1>2, <1>3, <1>5 DEF NoFrameToTake, UploadReturns, frameVars, uploadVars, Follows, Sole, OnItsWay, TexturesOf
<1>6. CASE UnsupportedFrame
  BY <1>4, <1>6 DEF UnsupportedFrame, MediaGivesFrame, UploadFails, UploadReturns
<1>7. CASE ClassInitFails \/ InitHwconvFails
  <2>1. UNCHANGED media_frame /\ pc # "take"
    BY <1>7 DEF ClassInitFails, InitHwconvFails, frameVars
  <2>2. cur' = NoTex /\ pc' = "update" /\ cur \in failed'
    BY <1>7 DEF ClassInitFails, InitHwconvFails, UploadFails, UploadReturns
  <2> QED
    BY <1>4, <2>1, <2>2
<1>8. CASE TakeFrame
  <2>1. /\ pc = "take" /\ pc' \in {"init", "map"} /\ cur' = cur /\ frame' = media_frame[m] /\ media_frame[m] # NoFrame
        /\ media_frame' = [media_frame EXCEPT ![m] = NoFrame]
    BY <1>8 DEF TakeFrame, MediaGivesFrame
  <2>2. \A n \in Media : media_frame'[n] = IF n = m THEN NoFrame ELSE media_frame[n]
    BY <1>2, <2>1 DEF Invariant, TypeOK
  <2> QED
    BY <1>1, <1>2, <1>3, <2>1, <2>2 DEF Follows, Sole, OnItsWay, TexturesOf
<1>9. CASE ClassInit \/ MapFrame \/ UseMapped \/ InitHwconv \/ ExecHwconv
  <2>1. /\ pc \in InUpload /\ pc' \in InUpload /\ UNCHANGED <<cur, frame, media_frame>>
    BY <1>9 DEF ClassInit, MapFrame, UseMapped, InitHwconv, ExecHwconv, frameVars
  <2> QED
    BY <1>1, <1>2, <1>3, <2>1 DEF Follows, Sole, OnItsWay, TexturesOf
<1>10. CASE UploadEnds
  <2> DEFINE i == [image[cur] EXCEPT !.ts = frame]
  <2>1. i.planes = image[cur].planes /\ i.ts = frame
    BY <1>2 DEF Images
  <2>2. /\ pc = "end" /\ pc' = "update" /\ cur' = NoTex /\ frame' = NoFrame /\ image' = [image EXCEPT ![cur] = i]
        /\ UNCHANGED <<failed, media_frame>>
    BY <1>10 DEF UploadEnds, UploadReturns
  <2> HIDE DEF i
  <2>3. image'[cur] = i
    BY <1>2, <2>2 DEF Images
  <2>4. cur \notin failed => image[cur].planes # "none"
    BY <2>2 DEF Images
  <2> QED
    BY <1>1, <1>2, <1>3, <2>1, <2>2, <2>3, <2>4 DEF Follows, Sole, OnItsWay, TexturesOf
<1> QED
  BY <1>5, <1>6, <1>7, <1>8, <1>9, <1>10 DEF Upload

(***************************************************************************)
(* The GL textures                                                         *)
(***************************************************************************)
(* The uploads that lose a GL texture are left out: a class that fails     *)
(* after its first plane, and software frames of several sizes, or mixed   *)
(* with others, for which the texture of the node is set up over the one   *)
(* it has (hwupload_common.c).                                             *)
Reclaiming ==
  /\ HalfInitMayFail = {}
  /\ \A s \in Streams : \A f, g \in s :
       ClassOf(f) = "common" /\ ClassOf(g) \in Class => KindOf[g] = KindOf[f]

(* Counted: what TextureConserved says, and why no texture of a node is    *)
(* set up twice.                                                           *)
Counted ==
  /\ TextureConserved
  /\ \A x \in Tex : hwupload[x].class = "none" => hwupload[x].planes = 0
  /\ \A m \in Media : media_frame[m] \in stream \union {NoFrame}
  /\ frame \in stream \union {NoFrame}
  /\ \A f, g \in stream : ClassOf(f) = "common" /\ ClassOf(g) \in Class => KindOf[g] = KindOf[f]
  /\ \A x \in texture : \A f \in stream :
       ClassOf(f) = "common" => hwupload[x].class = "common" /\ hwupload[x].size = SizeOf(f)

(* The planes of the classes, in all.                                      *)
Planes(h)    == [x \in Tex |-> h[x].planes]
AllPlanes(h) == MapThenSumSet(LAMBDA x : h[x].planes, Tex)

LEMMA PlanesAreSummed ==
  ASSUME IsFiniteSet(Tex), NEW h \in [Tex -> UploadState]
  PROVE  \E it : IsSum(it, Planes(h), Tex) /\ AllPlanes(h) = it[Tex]
<1>1. Planes(h) \in [Tex -> Int]
  BY DEF Planes, UploadState
<1>2. PICK i : IsSum(i, Planes(h), Tex)
  BY <1>1, SumExists
<1> DEFINE it == CHOOSE it : it = [s \in SUBSET Tex |-> IF s = {} THEN 0 ELSE
                   LET x == CHOOSE x \in s : TRUE IN h[x].planes + it[s \ {x}]]
<1>3. i = [s \in SUBSET Tex |-> IF s = {} THEN 0 ELSE
                   LET x == CHOOSE x \in s : TRUE IN h[x].planes + i[s \ {x}]]
  BY <1>2 DEF IsSum, Planes
<1>4. it = [s \in SUBSET Tex |-> IF s = {} THEN 0 ELSE
                   LET x == CHOOSE x \in s : TRUE IN h[x].planes + it[s \ {x}]]
  BY <1>3
<1>5. AllPlanes(h) = it[Tex]
  BY DEF AllPlanes, MapThenSumSet, MapThenFoldSet
<1> HIDE DEF it
<1>6. IsSum(it, Planes(h), Tex)
  BY <1>4 DEF IsSum, Planes
<1> QED
  BY <1>5, <1>6

(* A step changes the planes of one class, if any.                         *)
LEMMA PlanesChange ==
  ASSUME IsFiniteSet(Tex), NEW h \in [Tex -> UploadState], NEW k \in [Tex -> UploadState], NEW x \in Tex,
         \A y \in Tex \ {x} : k[y].planes = h[y].planes
  PROVE  AllPlanes(h) \in Int /\ AllPlanes(k) = AllPlanes(h) + (k[x].planes - h[x].planes)
<1>1. PICK i : IsSum(i, Planes(h), Tex) /\ AllPlanes(h) = i[Tex]
  BY PlanesAreSummed
<1>2. PICK j : IsSum(j, Planes(k), Tex) /\ AllPlanes(k) = j[Tex]
  BY PlanesAreSummed
<1>3. Planes(h) \in [Tex -> Int] /\ Planes(k) \in [Tex -> Int]
  BY DEF Planes, UploadState
<1>4. \A y \in Tex \ {x} : Planes(k)[y] = Planes(h)[y]
  BY DEF Planes
<1>5. j[Tex] = i[Tex] + (Planes(k)[x] - Planes(h)[x]) /\ i[Tex] \in Int
  BY <1>1, <1>2, <1>3, <1>4, SumChanges, SumType
<1> QED
  BY <1>1, <1>2, <1>5 DEF Planes

LEMMA PlanesStay ==
  ASSUME IsFiniteSet(Tex), NEW h \in [Tex -> UploadState], NEW k \in [Tex -> UploadState],
         \A y \in Tex : k[y].planes = h[y].planes
  PROVE  AllPlanes(h) \in Int /\ AllPlanes(k) = AllPlanes(h)
<1>1. PICK i : IsSum(i, Planes(h), Tex) /\ AllPlanes(h) = i[Tex]
  BY PlanesAreSummed
<1>2. PICK j : IsSum(j, Planes(k), Tex) /\ AllPlanes(k) = j[Tex]
  BY PlanesAreSummed
<1>3. Planes(h) \in [Tex -> Int] /\ Planes(k) = Planes(h)
  BY DEF Planes, UploadState
<1> QED
  BY <1>1, <1>2, <1>3, SumOfEquals, SumType

LEMMA PlanesAreNone ==
  ASSUME IsFiniteSet(Tex), NEW h \in [Tex -> UploadState], \A x \in Tex : h[x].planes = 0
  PROVE  AllPlanes(h) = 0
<1>1. PICK i : IsSum(i, Planes(h), Tex) /\ AllPlanes(h) = i[Tex]
  BY PlanesAreSummed
<1>2. Planes(h) \in [Tex -> Int] /\ \A x \in Tex : Planes(h)[x] = 0
  BY DEF Planes, UploadState
<1> QED
  BY <1>1, <1>2, SumOfZeros

(* The textures of the media.                                              *)
MediaTextures == IF Android THEN Cardinality({m \in Media : state[m] # "UNINITIALIZED"}) ELSE 0

LEMMA CountType ==
  ASSUME UploadAssumption, Invariant, Images, TextureConserved
  PROVE  gl_textures \in Int
<1>1. hwupload \in [Tex -> UploadState] /\ IsFiniteSet(Tex) /\ IsFiniteSet(Media)
  BY DEF Invariant, TypeOK, UploadAssumption
<1>2. AllPlanes(hwupload) \in Int /\ Cardinality(texture) \in Int
  BY <1>1, PlanesStay, FS_Subset, FS_CardinalityType DEF Images
<1>3. Cardinality({m \in Media : state[m] # "UNINITIALIZED"}) \in Int
  BY <1>1, FS_Subset, FS_CardinalityType
<1> QED
  BY <1>2, <1>3 DEF TextureConserved, AllPlanes

(* What is created and deleted is counted, if the textures set up, the     *)
(* planes and the media change as said.                                    *)
LEMMA CountChanges ==
  ASSUME UploadAssumption, Invariant, Images, TextureConserved, NEW x \in Tex,
         hwupload' \in [Tex -> UploadState], \A y \in Tex \ {x} : hwupload'[y].planes = hwupload[y].planes,
         texture' \in {texture, texture \union {x}, texture \ {x}},
         UNCHANGED stream, \A m \in Media : state'[m] = state[m],
         gl_textures' = gl_textures + (hwupload'[x].planes - hwupload[x].planes)
                          + ((IF x \in texture' THEN 1 ELSE 0) - (IF x \in texture THEN 1 ELSE 0))
  PROVE  TextureConserved'
<1>1. hwupload \in [Tex -> UploadState] /\ IsFiniteSet(Tex) /\ IsFiniteSet(Media)
  BY DEF Invariant, TypeOK, UploadAssumption
<1>2. AllPlanes(hwupload) \in Int /\ AllPlanes(hwupload') = AllPlanes(hwupload) + (hwupload'[x].planes - hwupload[x].planes)
  BY <1>1, PlanesChange
<1>3. IsFiniteSet(texture) /\ Cardinality(texture) \in Int
  BY <1>1, FS_Subset, FS_CardinalityType DEF Images
<1>4. Cardinality(texture') = Cardinality(texture) + ((IF x \in texture' THEN 1 ELSE 0) - (IF x \in texture THEN 1 ELSE 0))
  <2>1. Cardinality(texture \union {x}) = IF x \in texture THEN Cardinality(texture) ELSE Cardinality(texture) + 1
    BY <1>3, FS_AddElement
  <2>2. Cardinality(texture \ {x}) = IF x \in texture THEN Cardinality(texture) - 1 ELSE Cardinality(texture)
    BY <1>3, FS_RemoveElement
  <2>3. CASE texture' = texture
    BY <1>3, <2>3
  <2>4. CASE texture' = texture \union {x}
    <3>1. x \in texture'
      BY <2>4
    <3> QED
      BY <1>3, <2>1, <2>4, <3>1
  <2>5. CASE texture' = texture \ {x}
    <3>1. x \notin texture'
      BY <2>5
    <3> QED
      BY <1>3, <2>2, <2>5, <3>1
  <2> QED
    BY <2>3, <2>4, <2>5
<1>5. MediaTextures \in Int /\ MediaTextures' = MediaTextures
  <2> DEFINE attached == {m \in Media : state[m] # "UNINITIALIZED"}
  <2>1. attached = {m \in Media : state'[m] # "UNINITIALIZED"}
    OBVIOUS
  <2>2. attached \in SUBSET Media
    OBVIOUS
  <2>3. MediaTextures = (IF Android THEN Cardinality(attached) ELSE 0)
        /\ MediaTextures' = (IF Android THEN Cardinality(attached) ELSE 0)
    BY <2>1 DEF MediaTextures, Android
  <2> HIDE DEF attached
  <2>4. Cardinality(attached) \in Int
    BY <1>1, <2>2, FS_Subset, FS_CardinalityType
  <2> QED
    BY <2>3, <2>4
<1>6. hwupload'[x].planes \in Int /\ hwupload[x].planes \in Int
  BY <1>1 DEF UploadState
<1>7. gl_textures = Cardinality(texture) + AllPlanes(hwupload) + MediaTextures
  BY DEF TextureConserved, AllPlanes, MediaTextures
<1>8. gl_textures' = Cardinality(texture') + AllPlanes(hwupload') + MediaTextures'
  BY <1>2, <1>3, <1>4, <1>5, <1>6, <1>7
<1> QED
  BY <1>8 DEF TextureConserved, AllPlanes, MediaTextures, MapThenSumSet, MapThenFoldSet

(* The media have their textures from Attach to MediaUninit.               *)
LEMMA MediaCountChanges ==
  ASSUME UploadAssumption, Invariant, Images, TextureConserved, UNCHANGED <<stream, texture, hwupload>>,
         gl_textures' = gl_textures + (MediaTextures' - MediaTextures)
  PROVE  TextureConserved'
<1>1. hwupload \in [Tex -> UploadState] /\ IsFiniteSet(Tex) /\ IsFiniteSet(Media)
  BY DEF Invariant, TypeOK, UploadAssumption
<1>2. AllPlanes(hwupload) \in Int
  BY <1>1, PlanesStay
<1>3. Cardinality(texture) \in Int
  BY <1>1, FS_Subset, FS_CardinalityType DEF Images
<1>4. MediaTextures \in Int /\ MediaTextures' \in Int
  <2>1. Cardinality({m \in Media : state[m] # "UNINITIALIZED"}) \in Int
        /\ Cardinality({m \in Media : state'[m] # "UNINITIALIZED"}) \in Int
    BY <1>1, FS_Subset, FS_CardinalityType
  <2> QED
    BY <2>1 DEF MediaTextures, Android
<1>5. gl_textures = Cardinality(texture) + AllPlanes(hwupload) + MediaTextures
  BY DEF TextureConserved, AllPlanes, MediaTextures
<1>6. gl_textures' = Cardinality(texture') + AllPlanes(hwupload') + MediaTextures'
  BY <1>2, <1>3, <1>4, <1>5
<1> QED
  BY <1>6 DEF TextureConserved, AllPlanes, MediaTextures, MapThenSumSet, MapThenFoldSet

LEMMA CountStays ==
  ASSUME TextureConserved, UNCHANGED <<stream, texture, hwupload, gl_textures>>,
         \A m \in Media : state[m] # "UNINITIALIZED" <=> state'[m] # "UNINITIALIZED"
  PROVE  TextureConserved'
<1>1. {m \in Media : state[m] # "UNINITIALIZED"} = {m \in Media : state'[m] # "UNINITIALIZED"}
  OBVIOUS
<1> QED
  BY <1>1 DEF TextureConserved, Android, MapThenSumSet, MapThenFoldSet

LEMMA SceneCounts ==
  ASSUME UploadAssumption, Invariant, Images, Counted, Scene
  PROVE  Counted'
<1> USE DEF params, frameVars, uploadVars, sceneVars
<1>1. UNCHANGED <<stream, texture, hwupload, media_frame, frame>>
  BY DEF Scene, Attach, Detach, SceneDetached, FrameHonored, EndFrame, Visit
<1>2. TextureConserved'
  <2>1. CASE Attach
    <3>1. /\ {m \in Media : state[m] # "UNINITIALIZED"} = {}
          /\ {m \in Media : state'[m] # "UNINITIALIZED"} = Media
      BY <2>1 DEF Attach, Invariant, TypeOK
    <3>2. MediaTextures = 0 /\ MediaTextures' = (IF Android THEN Cardinality(Media) ELSE 0)
      BY <1>1, <3>1, FS_EmptySet DEF MediaTextures, Android
    <3>3. gl_textures' = gl_textures + (IF Android THEN Cardinality(Media) ELSE 0)
      BY <2>1 DEF Attach
    <3>4. Cardinality(Media) \in Int
      BY FS_CardinalityType DEF UploadAssumption
    <3>5. gl_textures' = gl_textures + (MediaTextures' - MediaTextures)
      BY <3>2, <3>3, <3>4
    <3> QED
      BY <1>1, <3>5, MediaCountChanges DEF Counted
  <2>2. CASE ~Attach
    <3>1. UNCHANGED <<gl_textures, state>>
      BY <2>2 DEF Scene, Detach, SceneDetached, FrameHonored, EndFrame, Visit
    <3> QED
      BY <1>1, <3>1, CountStays DEF Counted
  <2> QED
    BY <2>1, <2>2
<1> QED
  BY <1>1, <1>2 DEF Counted

LEMMA MediaCounts ==
  ASSUME UploadAssumption, Invariant, Images, Counted, NEW m \in Media,
         MediaPrefetch(m) \/ MediaRelease(m) \/ MediaUninit(m)
  PROVE  Counted'
<1> USE DEF params, frameVars, uploadVars, sceneVars
<1>1. UNCHANGED <<stream, texture, hwupload, frame>> /\ \A n \in Media : media_frame'[n] \in {media_frame[n], NoFrame}
  BY DEF MediaPrefetch, MediaRelease, MediaUninit, Invariant, TypeOK
<1>2. CASE MediaPrefetch(m) \/ MediaRelease(m)
  <2>1. UNCHANGED gl_textures /\ \A n \in Media : state[n] # "UNINITIALIZED" <=> state'[n] # "UNINITIALIZED"
    BY <1>2 DEF MediaPrefetch, MediaRelease, Invariant, TypeOK
  <2> QED
    BY <1>1, <2>1, CountStays DEF Counted
<1>3. CASE MediaUninit(m)
  <2> DEFINE attached == {n \in Media : state[n] # "UNINITIALIZED"}
  <2>1. m \in attached /\ {n \in Media : state'[n] # "UNINITIALIZED"} = attached \ {m}
    BY <1>3 DEF MediaUninit, Invariant, TypeOK
  <2>2. IsFiniteSet(attached) /\ Cardinality(attached) \in Int
    BY FS_Subset, FS_CardinalityType DEF UploadAssumption
  <2>3. /\ MediaTextures = (IF Android THEN Cardinality(attached) ELSE 0)
        /\ MediaTextures' = (IF Android THEN Cardinality(attached \ {m}) ELSE 0)
    BY <1>1, <2>1 DEF MediaTextures, Android
  <2> HIDE DEF attached
  <2>4. Cardinality(attached \ {m}) = Cardinality(attached) - 1
    BY <2>1, <2>2, FS_RemoveElement
  <2>5. gl_textures' = gl_textures - (IF Android THEN 1 ELSE 0)
    BY <1>3 DEF MediaUninit
  <2>6. gl_textures \in Int
    BY CountType DEF Counted
  <2>7. gl_textures' = gl_textures + (MediaTextures' - MediaTextures)
    BY <2>2, <2>3, <2>4, <2>5, <2>6
  <2>8. TextureConserved'
    BY <1>1, <2>7, MediaCountChanges DEF Counted
  <2> QED
    BY <1>1, <2>8 DEF Counted
<1> QED
  BY <1>2, <1>3

(* A texture that is released has no plane left.                           *)
LEMMA ReleaseCounts ==
  ASSUME UploadAssumption, Invariant, Invariant', Images, Counted, NEW x \in Tex, ReleaseTexture(x),
         UNCHANGED <<stream, frame, media_frame>>, \A m \in Media : state'[m] = state[m]
  PROVE  Counted'
<1>1. /\ hwupload' \in [Tex -> UploadState] /\ hwupload \in [Tex -> UploadState]
      /\ \A y \in Tex : hwupload'[y] = IF y = x THEN Zeroed ELSE hwupload[y]
  BY DEF ReleaseTexture, HwuploadUninit, Invariant, TypeOK
<1>2. Zeroed.planes = 0 /\ PlanesFreed(x) = hwupload[x].planes /\ hwupload[x].planes \in Int
  BY <1>1 DEF Zeroed, PlanesFreed, Initialized, Counted, UploadState
<1>3. /\ texture' = texture \ {x} /\ UNCHANGED stream
      /\ gl_textures' = gl_textures - PlanesFreed(x) - (IF x \in texture THEN 1 ELSE 0)
  BY DEF ReleaseTexture, Own
<1>4. gl_textures \in Int
  BY CountType DEF Counted
<1>5. gl_textures' = gl_textures + (hwupload'[x].planes - hwupload[x].planes)
                       + ((IF x \in texture' THEN 1 ELSE 0) - (IF x \in texture THEN 1 ELSE 0))
  BY <1>1, <1>2, <1>3, <1>4
<1>6. TextureConserved'
  BY <1>1, <1>3, <1>5, CountChanges DEF Counted
<1>7. ASSUME NEW y \in Tex
      PROVE  hwupload'[y].class = "none" => hwupload'[y].planes = 0
  BY <1>1, <1>2 DEF Counted
<1>8. ASSUME NEW y \in texture', NEW f \in stream, ClassOf(f) = "common"
      PROVE  hwupload'[y].class = "common" /\ hwupload'[y].size = SizeOf(f)
  BY <1>1, <1>3, <1>8 DEF Counted, Images
<1> QED
  BY <1>3, <1>6, <1>7, <1>8 DEF Counted

LEMMA CallbackCounts ==
  ASSUME UploadAssumption, Invariant, Invariant', Images, Counted, Callback
  PROVE  Counted'
<1> USE DEF params, frameVars, uploadVars, sceneVars
<1>1. ASSUME NEW m \in Media, MediaPrefetch(m) \/ MediaRelease(m) \/ MediaUninit(m)
      PROVE  Counted'
  BY <1>1, MediaCounts
<1>2. ASSUME NEW got \in stream \union {NoFrame}, MediaUpdate(got)
      PROVE  Counted'
  <2>1. UNCHANGED <<stream, texture, hwupload, gl_textures, state, frame>>
        /\ \A m \in Media : media_frame'[m] \in {media_frame[m], got}
    BY <1>2 DEF MediaUpdate, Invariant, TypeOK
  <2> QED
    BY <2>1, CountStays DEF Counted
<1>3. ASSUME NEW x \in Tex, TexturePrefetch(x) \/ TextureUpdate(x) \/ (TextureUninit(x) /\ state[x] # "READY")
      PROVE  Counted'
  <2>1. UNCHANGED <<stream, texture, hwupload, gl_textures, media_frame, frame>>
    BY <1>3 DEF TexturePrefetch, TextureUpdate, TextureUninit
  <2>2. \A m \in Media : state'[m] = state[m]
    BY <1>3 DEF TexturePrefetch, TextureUpdate, TextureUninit, UploadAssumption, Invariant, TypeOK
  <2> QED
    BY <2>1, <2>2, CountStays DEF Counted
<1>4. ASSUME NEW x \in Tex, TextureRelease(x) \/ (TextureUninit(x) /\ state[x] = "READY")
      PROVE  Counted'
  <2>1. ReleaseTexture(x) /\ UNCHANGED <<stream, frame, media_frame>>
    BY <1>4 DEF TextureRelease, TextureUninit
  <2>2. \A m \in Media : state'[m] = state[m]
    BY <1>4 DEF TextureRelease, TextureUninit, UploadAssumption, Invariant, TypeOK
  <2> QED
    BY <2>1, <2>2, ReleaseCounts
<1> QED
  BY <1>1, <1>2, <1>3, <1>4 DEF Callback

LEMMA TakeFrameCounts ==
  ASSUME UploadAssumption, Invariant, Invariant', Images, Counted, TakeFrame
  PROVE  Counted'
<1> DEFINE m == data_src[cur]
           f == media_frame[m]
<1>1. /\ pc = "take" /\ f # NoFrame /\ ClassOf(f) \in Class /\ frame' = f
      /\ media_frame' = [media_frame EXCEPT ![m] = NoFrame] /\ UNCHANGED <<stream, texture, state>>
  BY DEF TakeFrame, MediaGivesFrame, params
<1>2. cur \in Tex /\ m \in Media /\ hwupload \in [Tex -> UploadState] /\ hwupload' \in [Tex -> UploadState]
  BY <1>1, UploadOf DEF InTexture, Invariant, TypeOK
<1>3. f \in stream /\ \A n \in Media : media_frame'[n] \in stream \union {NoFrame}
  BY <1>1, <1>2 DEF Counted, Invariant, TypeOK
<1>4. CASE NeedsInit(cur, f)
  <2>1. /\ \A y \in Tex : hwupload'[y] = IF y = cur THEN Zeroed ELSE hwupload[y]
        /\ gl_textures' = gl_textures - PlanesFreed(cur)
    BY <1>2, <1>4 DEF TakeFrame, HwuploadUninit
  <2>2. Zeroed.planes = 0 /\ PlanesFreed(cur) = hwupload[cur].planes /\ hwupload[cur].planes \in Int /\ gl_textures \in Int
    BY <1>2, CountType DEF Zeroed, PlanesFreed, Initialized, Counted, UploadState
  <2>3. gl_textures' = gl_textures + (hwupload'[cur].planes - hwupload[cur].planes)
                         + ((IF cur \in texture' THEN 1 ELSE 0) - (IF cur \in texture THEN 1 ELSE 0))
    BY <1>1, <1>2, <2>1, <2>2
  <2>4. TextureConserved'
    BY <1>1, <1>2, <2>1, <2>3, CountChanges DEF Counted
  <2>5. ASSUME NEW y \in texture, NEW g \in stream, ClassOf(g) = "common"
        PROVE  y # cur
    <3> SUFFICES ASSUME y = cur
                 PROVE  FALSE
      OBVIOUS
    <3>1. KindOf[f] = KindOf[g] /\ hwupload[cur].class = "common" /\ hwupload[cur].size = SizeOf(g)
      BY <1>1, <1>3, <2>5 DEF Counted
    <3> QED
      BY <1>4, <2>5, <3>1 DEF NeedsInit, ClassOf, SizeOf
  <2>6. \A y \in Tex : hwupload'[y].class = "none" => hwupload'[y].planes = 0
    BY <2>1, <2>2 DEF Counted
  <2>7. ASSUME NEW y \in texture', NEW g \in stream, ClassOf(g) = "common"
        PROVE  hwupload'[y].class = "common" /\ hwupload'[y].size = SizeOf(g)
    BY <1>1, <2>1, <2>5, <2>7 DEF Counted, Images
  <2> QED
    BY <1>1, <1>3, <2>4, <2>6, <2>7 DEF Counted
<1>5. CASE ~NeedsInit(cur, f)
  <2>1. UNCHANGED <<hwupload, gl_textures>>
    BY <1>5 DEF TakeFrame
  <2>2. TextureConserved'
    BY <1>1, <2>1, CountStays DEF Counted
  <2> QED
    BY <1>1, <1>3, <2>1, <2>2 DEF Counted
<1> QED
  BY <1>4, <1>5

(* The class that is set up had no plane, and no texture if it is common.  *)
LEMMA ClassInitCounts ==
  ASSUME UploadAssumption, Invariant, Invariant', Images, Counted, ClassInit
  PROVE  Counted'
<1> DEFINE r == ClassOf(frame) # "common" /\ cur \notin direct
           h == [hwupload[cur] EXCEPT !.class = ClassOf(frame), !.size = SizeOf(frame),
                                      !.planes = PlanesOf(ClassOf(frame)), !.require_hwconv = r]
<1>1. /\ pc = "init" /\ UNCHANGED <<stream, state, media_frame, frame>> /\ hwupload' = [hwupload EXCEPT ![cur] = h]
      /\ texture' = IF ClassOf(frame) = "common" THEN texture \union {cur} ELSE texture
      /\ gl_textures' = gl_textures + (IF ClassOf(frame) = "common" THEN 1 ELSE PlanesOf(ClassOf(frame)))
  BY DEF ClassInit, params, frameVars
<1>2. /\ cur \in Tex /\ hwupload \in [Tex -> UploadState] /\ hwupload' \in [Tex -> UploadState]
      /\ frame \in stream /\ ClassOf(frame) \in Class /\ hwupload[cur].class = "none" /\ hwupload[cur].planes = 0
  BY <1>1, UploadOf DEF InTexture, InUpload, Invariant, TypeOK, Control, Images, Counted
<1>3. h.class = ClassOf(frame) /\ h.size = SizeOf(frame) /\ h.planes = PlanesOf(ClassOf(frame))
  <2> HIDE DEF r
  <2> QED
    BY <1>2 DEF UploadState
<1> HIDE DEF h
<1>4. hwupload'[cur] = h /\ \A y \in Tex \ {cur} : hwupload'[y] = hwupload[y]
  BY <1>1, <1>2
<1>5. ASSUME NEW g \in stream, ClassOf(g) = "common"
      PROVE  cur \notin texture /\ KindOf[frame] = KindOf[g]
  BY <1>2, <1>5 DEF Counted
<1>6. gl_textures' = gl_textures + (hwupload'[cur].planes - hwupload[cur].planes)
                       + ((IF cur \in texture' THEN 1 ELSE 0) - (IF cur \in texture THEN 1 ELSE 0))
  <2>1. gl_textures \in Int
    BY CountType DEF Counted
  <2>2. CASE ClassOf(frame) = "common"
    <3>1. cur \notin texture /\ cur \in texture' /\ h.planes = 0
      BY <1>1, <1>2, <1>3, <1>5, <2>2 DEF PlanesOf, Owner
    <3> QED
      BY <1>1, <1>2, <1>4, <2>1, <2>2, <3>1
  <2>3. CASE ClassOf(frame) # "common"
    <3>1. texture' = texture /\ gl_textures' = gl_textures + PlanesOf(ClassOf(frame)) /\ PlanesOf(ClassOf(frame)) \in Int
      BY <1>1, <2>3 DEF PlanesOf
    <3> QED
      BY <1>2, <1>3, <1>4, <2>1, <3>1
  <2> QED
    BY <2>2, <2>3
<1>7. TextureConserved'
  <2>1. texture' \in {texture, texture \union {cur}, texture \ {cur}} /\ \A n \in Media : state'[n] = state[n]
    BY <1>1
  <2> QED
    BY <1>1, <1>2, <1>4, <1>6, <2>1, CountChanges DEF Counted
<1>8. ASSUME NEW y \in texture', NEW g \in stream, ClassOf(g) = "common"
      PROVE  hwupload'[y].class = "common" /\ hwupload'[y].size = SizeOf(g)
  <2>1. CASE y = cur
    BY <1>3, <1>4, <1>5, <1>8, <2>1 DEF ClassOf, SizeOf
  <2>2. CASE y # cur
    BY <1>1, <1>4, <1>8, <2>2 DEF Counted, Images
  <2> QED
    BY <2>1, <2>2
<1>9. \A y \in Tex : hwupload'[y].class = "none" => hwupload'[y].planes = 0
  BY <1>2, <1>3, <1>4 DEF Counted, Class
<1> QED
  BY <1>1, <1>7, <1>8, <1>9 DEF Counted

(* The planes of every texture, and the kind of frame they are for, stay:  *)
(* only the texture of the node being uploaded to may come or go.          *)
SameLayout ==
  \A y \in Tex : /\ hwupload'[y].planes = hwupload[y].planes
                 /\ hwupload'[y].class = hwupload[y].class
                 /\ hwupload'[y].size = hwupload[y].size

LEMMA SameLayoutCounts ==
  ASSUME UploadAssumption, Invariant, Images, Counted, SameLayout, cur \in Tex,
         hwupload' \in [Tex -> UploadState], UNCHANGED <<stream, state, media_frame>>, frame' \in {frame, NoFrame},
         texture' \in {texture, texture \union {cur}, texture \ {cur}},
         texture' = texture \/ \A f \in stream : ClassOf(f) # "common",
         gl_textures' = gl_textures + ((IF cur \in texture' THEN 1 ELSE 0) - (IF cur \in texture THEN 1 ELSE 0))
  PROVE  Counted'
<1>1. /\ gl_textures \in Int /\ hwupload \in [Tex -> UploadState] /\ hwupload[cur].planes \in Int
      /\ texture \subseteq Tex
  BY CountType DEF Counted, Invariant, TypeOK, UploadState, Images
<1>2. gl_textures' = gl_textures + (hwupload'[cur].planes - hwupload[cur].planes)
                       + ((IF cur \in texture' THEN 1 ELSE 0) - (IF cur \in texture THEN 1 ELSE 0))
  BY <1>1 DEF SameLayout
<1>3. TextureConserved'
  BY <1>2, CountChanges DEF Counted, SameLayout
<1>4. \A y \in Tex : hwupload'[y].class = "none" => hwupload'[y].planes = 0
  BY DEF Counted, SameLayout
<1>5. ASSUME NEW y \in texture', NEW g \in stream, ClassOf(g) = "common"
      PROVE  hwupload'[y].class = "common" /\ hwupload'[y].size = SizeOf(g)
  BY <1>1, <1>5 DEF Counted, SameLayout
<1> QED
  BY <1>3, <1>4, <1>5 DEF Counted

LEMMA UploadCounts ==
  ASSUME UploadAssumption, Reclaiming, Invariant, Invariant', Images, Counted, Upload
  PROVE  Counted'
<1> USE DEF params, frameVars, uploadVars, sceneVars
<1>1. /\ pc \in InTexture /\ cur \in Tex /\ hwupload \in [Tex -> UploadState] /\ hwupload' \in [Tex -> UploadState]
      /\ gl_textures \in Int /\ hwupload[cur].planes \in Int
  <2>1. pc \in InTexture
    BY DEF Upload, NoFrameToTake, UnsupportedFrame, TakeFrame, ClassInit, ClassInitFails, MapFrame, UseMapped,
           InitHwconv, InitHwconvFails, ExecHwconv, UploadEnds, InTexture, InUpload
  <2> QED
    BY <2>1, UploadOf, CountType DEF Counted, Invariant, TypeOK, UploadState
<1>2. CASE NoFrameToTake \/ UseMapped \/ ExecHwconv \/ UploadEnds
  <2>1. UNCHANGED <<stream, texture, hwupload, gl_textures, state, media_frame>> /\ frame' \in {frame, NoFrame}
    BY <1>2 DEF NoFrameToTake, UseMapped, ExecHwconv, UploadEnds, UploadReturns
  <2> QED
    BY <2>1, CountStays DEF Counted
<1>3. CASE UnsupportedFrame
  <2>1. UNCHANGED <<stream, texture, hwupload, gl_textures, state>> /\ frame' = NoFrame
        /\ \A m \in Media : media_frame'[m] \in {media_frame[m], NoFrame}
    BY <1>3 DEF UnsupportedFrame, MediaGivesFrame, UploadFails, UploadReturns, Invariant, TypeOK
  <2> QED
    BY <2>1, CountStays DEF Counted
<1>4. CASE TakeFrame
  BY <1>4, TakeFrameCounts
<1>5. CASE ClassInit
  BY <1>5, ClassInitCounts
<1>7. CASE ClassInitFails
  <2> DEFINE h == [hwupload[cur] EXCEPT !.planes = 0]
  <2>1. hwupload[cur].planes = 0
    BY <1>1, <1>7 DEF ClassInitFails, Images, Counted
  <2>2. /\ hwupload' = [hwupload EXCEPT ![cur] = h] /\ gl_textures' = gl_textures + 0 /\ UNCHANGED <<stream, state, texture>>
        /\ UNCHANGED media_frame /\ frame' = NoFrame
    <3>1. PICK created \in {0} : /\ hwupload' = [hwupload EXCEPT ![cur].planes = created]
                                 /\ gl_textures' = gl_textures + created
      BY <1>7 DEF ClassInitFails, Reclaiming
    <3>2. UNCHANGED <<stream, state, texture, media_frame>> /\ frame' = NoFrame
      BY <1>7 DEF ClassInitFails, UploadFails, UploadReturns
    <3> QED
      BY <3>1, <3>2
  <2>3. h.planes = hwupload[cur].planes /\ h.class = hwupload[cur].class /\ h.size = hwupload[cur].size
    BY <1>1, <2>1 DEF UploadState
  <2> HIDE DEF h
  <2>4. SameLayout
    BY <1>1, <2>2, <2>3 DEF SameLayout
  <2>5. gl_textures' = gl_textures + ((IF cur \in texture' THEN 1 ELSE 0) - (IF cur \in texture THEN 1 ELSE 0))
    BY <1>1, <2>2
  <2> QED
    BY <1>1, <2>2, <2>4, <2>5, SameLayoutCounts
<1>8. CASE MapFrame
  <2> DEFINE h == [hwupload[cur] EXCEPT !.frame = frame]
  <2>1. /\ hwupload' = [hwupload EXCEPT ![cur] = h] \/ UNCHANGED hwupload
        /\ UNCHANGED <<stream, state, texture, media_frame, gl_textures, frame>>
    BY <1>8 DEF MapFrame
  <2>2. h.planes = hwupload[cur].planes /\ h.class = hwupload[cur].class /\ h.size = hwupload[cur].size
    BY <1>1 DEF UploadState
  <2> HIDE DEF h
  <2>3. SameLayout
    BY <1>1, <2>1, <2>2 DEF SameLayout
  <2>4. gl_textures' = gl_textures + ((IF cur \in texture' THEN 1 ELSE 0) - (IF cur \in texture THEN 1 ELSE 0))
    BY <1>1, <2>1
  <2> QED
    BY <1>1, <2>1, <2>3, <2>4, SameLayoutCounts
<1>9. ASSUME pc = "convert"
      PROVE  \A f \in stream : ClassOf(f) # "common"
  <2> SUFFICES ASSUME NEW f \in stream, ClassOf(f) = "common"
               PROVE  FALSE
    OBVIOUS
  <2>1. /\ hwupload[cur].class # "common" /\ hwupload[cur].class = ClassOf(frame)
        /\ frame \in stream /\ ClassOf(frame) \in Class
    BY <1>1, <1>9 DEF Images, Invariant, Control, Counted, InUpload
  <2>2. KindOf[frame] = KindOf[f]
    BY <2>1 DEF Counted
  <2> QED
    BY <2>1, <2>2 DEF ClassOf
<1>10. CASE InitHwconv
  <2> DEFINE h == [hwupload[cur] EXCEPT !.hwconv = TRUE]
  <2>1. /\ hwupload' = [hwupload EXCEPT ![cur] = h] /\ texture' = texture \union {cur}
        /\ UNCHANGED <<stream, state, media_frame, frame>> /\ gl_textures' = gl_textures - Own(cur) + 1 /\ pc = "convert"
    BY <1>10 DEF InitHwconv
  <2>2. h.planes = hwupload[cur].planes /\ h.class = hwupload[cur].class /\ h.size = hwupload[cur].size
    BY <1>1 DEF UploadState
  <2> HIDE DEF h
  <2>3. SameLayout
    BY <1>1, <2>1, <2>2 DEF SameLayout
  <2>4. gl_textures' = gl_textures + ((IF cur \in texture' THEN 1 ELSE 0) - (IF cur \in texture THEN 1 ELSE 0))
    BY <1>1, <2>1 DEF Own
  <2> QED
    BY <1>1, <1>9, <2>1, <2>3, <2>4, SameLayoutCounts
<1>11. CASE InitHwconvFails
  <2>1. /\ hwupload' = hwupload /\ texture' = texture \ {cur} /\ frame' = NoFrame
        /\ UNCHANGED <<stream, state, media_frame>> /\ gl_textures' = gl_textures - Own(cur) /\ pc = "convert"
    BY <1>11 DEF InitHwconvFails, UploadFails, UploadReturns
  <2>2. SameLayout
    BY <2>1 DEF SameLayout
  <2>3. gl_textures' = gl_textures + ((IF cur \in texture' THEN 1 ELSE 0) - (IF cur \in texture THEN 1 ELSE 0))
    BY <1>1, <2>1 DEF Own
  <2> QED
    BY <1>1, <1>9, <2>1, <2>2, <2>3, SameLayoutCounts
<1> QED
  BY <1>2, <1>3, <1>4, <1>5, <1>7, <1>8, <1>10, <1>11 DEF Upload

(***************************************************************************)
(* The specification                                                       *)
(***************************************************************************)
(* All of the above holds as the command starts, and stays when nothing    *)
(* happens.                                                                *)
LEMMA InitShows ==
  ASSUME UploadAssumption, Conserving, Init
  PROVE  Images /\ KeptIsShown /\ Follows
<1>1. \A x \in Tex : hwupload[x] = Zeroed /\ image[x] = NoImage
  BY DEF Init
<1>2. Images
  BY <1>1 DEF Init, Images, NoImage, Zeroed
<1>3. KeptIsShown
  BY <1>1 DEF KeptIsShown, NoImage
<1>4. Follows
  BY DEF Init, Follows, Sole, OnItsWay, TypeOK, InUpload, InTexture, Updating, UploadAssumption
<1> QED
  BY <1>2, <1>3, <1>4

LEMMA InitCounts ==
  ASSUME UploadAssumption, Reclaiming, Init
  PROVE  Counted
<1>1. \A x \in Tex : hwupload[x].planes = 0
  BY DEF Init, Zeroed
<1>2. TextureConserved
  <2>1. hwupload \in [Tex -> UploadState]
    BY DEF Init, Zeroed, UploadState
  <2>2. AllPlanes(hwupload) = 0
    BY <1>1, <2>1, PlanesAreNone DEF UploadAssumption
  <2>3. {m \in Media : state[m] # "UNINITIALIZED"} = {}
    BY DEF Init
  <2>4. MediaTextures = 0 /\ Cardinality(texture) = 0
    BY <2>3, FS_EmptySet DEF MediaTextures, Init
  <2> QED
    BY <2>2, <2>4 DEF TextureConserved, AllPlanes, MediaTextures, Init
<1>3. \A f, g \in stream : ClassOf(f) = "common" /\ ClassOf(g) \in Class => KindOf[g] = KindOf[f]
  BY DEF Init, Reclaiming
<1> QED
  BY <1>1, <1>2, <1>3 DEF Counted, Init

LEMMA NextShows ==
  ASSUME UploadAssumption, Invariant, Images, KeptIsShown, Follows, [Next]_vars
  PROVE  Images' /\ KeptIsShown' /\ Follows'
<1>1. CASE Scene
  BY <1>1, SceneKeepsImages, SceneKeepsShown, SceneFollows
<1>2. CASE Callback
  <2>1. Images' /\ KeptIsShown'
    BY <1>2, CallbackKeepsImages, SceneKeepsShown
  <2>2. Follows'
    BY <1>2, MediaFollows, MediaUpdateFollows, TextureFollows DEF Callback
  <2> QED
    BY <2>1, <2>2
<1>3. CASE Upload
  BY <1>3, UploadKeepsImages, UploadKeepsShown, UploadFollows
<1>4. CASE UNCHANGED vars
  BY <1>4
  DEF vars, params, frameVars, uploadVars, sceneVars, Images, KeptIsShown, Follows, Sole, OnItsWay, TexturesOf
<1> QED
  BY <1>1, <1>2, <1>3, <1>4 DEF Next

LEMMA NextCounts ==
  ASSUME UploadAssumption, Reclaiming, Invariant, Invariant', Images, Counted, [Next]_vars
  PROVE  Counted'
<1>1. CASE Scene
  BY <1>1, SceneCounts
<1>2. CASE Callback
  BY <1>2, CallbackCounts
<1>3. CASE Upload
  BY <1>3, UploadCounts
<1>4. CASE UNCHANGED vars
  BY <1>4, CountStays DEF vars, params, frameVars, uploadVars, Counted
<1> QED
  BY <1>1, <1>2, <1>3, <1>4 DEF Next

(* What the invariants say of the images.                                  *)
LEMMA ShownIsBacked ==
  ASSUME UploadAssumption, Invariant, Images, KeptIsShown
  PROVE  ImageBacked
<1>1. ASSUME NEW x \in Tex, state[x] = "READY"
      PROVE  state[data_src[x]] # "UNINITIALIZED"
  BY <1>1 DEF Invariant, Control, TypeOK
<1>2. PlanesExist
  BY <1>1 DEF PlanesExist, Images
<1>3. ASSUME NEW x \in Tex \ ({cur} \union failed), image[x].planes = "private", hwupload[x].class \in Owner
      PROVE  hwupload[x].frame = image[x].ts /\ image[x].ts \in out[data_src[x]]
  BY <1>3 DEF KeptIsShown, Invariant, HoldersAreReady
<1> QED
  BY <1>2, <1>3 DEF ImageBacked, ShownFrameHeld

LEMMA FollowsTheLatest == Follows => ImageIsLatest
BY DEF Follows, ImageIsLatest, Sole, OnItsWay

(* ImagesAreBacked: but for the failures Conserving excludes, what a       *)
(* render samples is there: the image of a texture points to GL textures   *)
(* that are set up, for as long as it points to them, and the decoder has  *)
(* not got back the surface they are mapped from (hwupload.c:129-192,      *)
(* node_texture.c:326-420, texture.c:311-471).                             *)
THEOREM ImagesAreBacked ==
  ASSUME Conserving
  PROVE  Spec => []ImageBacked
<1> DEFINE I == Invariant /\ Images /\ KeptIsShown /\ Follows
<1>1. Init => I
  BY InitEstablishes, InitShows, UploadAssumption
<1>2. I /\ [Next]_vars => I'
  BY NextPreserves, NextShows, UploadAssumption
<1>3. I => ImageBacked
  BY ShownIsBacked, UploadAssumption
<1> QED
  BY <1>1, <1>2, <1>3, PTL DEF Spec

(* LatestIsShown: but for the failures Conserving excludes, a texture that *)
(* does not share its media shows the last frame the player handed out, or *)
(* its last upload failed (node_texture.c:337-385, hwupload.c:129-192).    *)
THEOREM LatestIsShown ==
  ASSUME Conserving
  PROVE  Spec => []ImageIsLatest
<1> DEFINE I == Invariant /\ Images /\ KeptIsShown /\ Follows
<1>1. Init => I
  BY InitEstablishes, InitShows, UploadAssumption
<1>2. I /\ [Next]_vars => I'
  BY NextPreserves, NextShows, UploadAssumption
<1>3. I => ImageIsLatest
  BY FollowsTheLatest
<1> QED
  BY <1>1, <1>2, <1>3, PTL DEF Spec

(* TexturesAreConserved: but for the uploads Conserving and Reclaiming     *)
(* exclude, the GL textures that exist are at any time those of the nodes, *)
(* of the classes in place and of the media: none is lost, and none is     *)
(* deleted twice (texture.c:311-471, hwupload.c:94-127).                   *)
THEOREM TexturesAreConserved ==
  ASSUME Conserving, Reclaiming
  PROVE  Spec => []TextureConserved
<1> DEFINE I == Invariant /\ Images /\ KeptIsShown /\ Follows /\ Counted
<1>1. Init => I
  BY InitEstablishes, InitShows, InitCounts, UploadAssumption
<1>2. I /\ [Next]_vars => I'
  BY NextPreserves, NextShows, NextCounts, UploadAssumption
<1>3. I => TextureConserved
  BY DEF Counted
<1> QED
  BY <1>1, <1>2, <1>3, PTL DEF Spec

===============================================================================
