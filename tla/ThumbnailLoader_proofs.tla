----------------------- MODULE ThumbnailLoader_proofs -----------------------
(***************************************************************************)
(* Proofs about the file manager's ThumbnailLoader, for every set of      *)
(* sizes and dimensions, up to three Drive apps and any number of calls.  *)
(***************************************************************************)
EXTENDS ThumbnailLoader, SequenceTheorems, FiniteSetTheorems, TLAPS

-----------------------------------------------------------------------------
(* The constructor resolves URLs the loader can fetch.                     *)
-----------------------------------------------------------------------------

(* The Drive-app loop picks the icon of an app of the list, or none.      *)
LEMMA DriveFallbackType ==
    ASSUME NEW apps \in AppLists
    PROVE  DriveFallback(apps) \in Urls \cup {"none"}
<1> DEFINE qual == {i \in DOMAIN apps : apps[i].docIcon /\ apps[i].isPrimary}
<1>1. PICK n \in 0..MaxApps : apps \in [1..n -> DriveApp]
  BY DEF AppLists
<1>2. qual \subseteq 1..n /\ n <= 3
  BY <1>1, ThumbnailAssumption
<1>6. \A x \in qual : x \in 1..MaxApps
  BY <1>1, <1>2, ThumbnailAssumption
<1>3. CASE qual # {}
  <2>1. \E i \in qual : \A j \in qual : i <= j
    <3>1. CASE 1 \in qual
      BY <1>2, <3>1
    <3>2. CASE 1 \notin qual /\ 2 \in qual
      BY <1>2, <3>2
    <3>3. CASE 1 \notin qual /\ 2 \notin qual
      BY <1>2, <1>3, <3>3
    <3>4. QED
      BY <3>1, <3>2, <3>3
  <2> DEFINE c == CHOOSE i \in qual : \A j \in qual : i <= j
  <2>6. c \in qual
    BY <2>1, Zenon
  <2>2. c \in 1..MaxApps
    BY <1>6, <2>6, Zenon
  <2>3. IconUrl(c) \in Urls
    BY <2>2, Zenon DEF Urls
  <2>4. DriveFallback(apps) = IconUrl(c)
    BY <1>3 DEF DriveFallback
  <2>5. QED
    BY <2>3, <2>4
<1>4. CASE qual = {}
  BY <1>4 DEF DriveFallback
<1>5. QED
  BY <1>3, <1>4

(* The constructor's three fields.                                         *)
LEMMA ResolveType ==
    ASSUME NEW md \in Metadata
    PROVE  /\ Resolve(md).thumb \in Urls \cup {"none"}
           /\ Resolve(md).fallback \in Urls \cup {"none"}
           /\ Resolve(md).tr \in Transforms
<1>1. CASE md = None
  BY <1>1 DEF Resolve, Urls, Transforms
<1>2. CASE md # None
  <2>1. md.driveApps \in AppLists
    BY <1>2 DEF Metadata
  <2>2. DriveFallback(md.driveApps) \in Urls \cup {"none"}
    BY <2>1, DriveFallbackType
  <2>3. QED
    BY <1>2, <2>2 DEF Resolve, Urls, Transforms
<1>3. QED
  BY <1>1, <1>2

LEMMA InitTypeOK == Init => TypeOK
<1> SUFFICES ASSUME Init PROVE TypeOK
  OBVIOUS
<1>1. /\ thumbnailUrl \in Urls \cup {"none"}
      /\ fallbackUrl \in Urls \cup {"none"}
      /\ transform \in Transforms
  BY ResolveType DEF Init
<1>2. images \in Seq(ImageRec) /\ Len(images) = 0
  BY DEF Init
<1>3. /\ {successes, errors, generics} \subseteq Nat
      /\ loads \in 0..MaxLoads
      /\ canvasOf \in 0..Len(images) /\ mainImage \in 0..Len(images)
      /\ attached \in 0..Len(images) /\ lastSuccess \in 0..Len(images)
  BY <1>2, ThumbnailAssumption DEF Init
<1>4. /\ metadata \in Metadata /\ loaderType \in LoaderTypes
      /\ urlOk \in [Urls -> BOOLEAN] /\ lastCall \in CallKinds
      /\ canvasUpToDate \in BOOLEAN /\ generic \in BOOLEAN
  BY DEF Init, CallKinds
<1>5. QED
  BY <1>1, <1>2, <1>3, <1>4 DEF TypeOK

-----------------------------------------------------------------------------
(* Every step keeps the loader, its images and the box in their types.    *)
-----------------------------------------------------------------------------

(* The tuples of variables an action leaves alone are read through.       *)
USE DEF canvasVars, constVars

(* attachImage(box) of image k attaches an existing image or the canvas    *)
(* copy of one.                                                            *)
LEMMA AttachType ==
    ASSUME TypeOK, NEW k \in 0..Len(images), NEW imgs, AttachImage(k, imgs)
    PROVE  /\ canvasOf' \in 0..Len(images) /\ canvasUpToDate' \in BOOLEAN
           /\ attached' \in 0..Len(images) /\ generic' \in BOOLEAN
BY DEF AttachImage, TypeOK

(* onload and onerror record the end of a fetch in place.                  *)
LEMMA SetStatusType ==
    \A imgs \in Seq(ImageRec), i \in Nat, st \in Status :
        i \in 1..Len(imgs) =>
            LET u == [imgs EXCEPT ![i].status = st] IN
            /\ u \in Seq(ImageRec)
            /\ Len(u) = Len(imgs)
            /\ u[i].status = st /\ u[i].owner = imgs[i].owner
            /\ \A j \in 1..Len(imgs) : j # i => u[j] = imgs[j]
<1> SUFFICES ASSUME NEW imgs \in Seq(ImageRec), NEW i \in 1..Len(imgs),
                    NEW st \in Status
             PROVE  LET u == [imgs EXCEPT ![i].status = st] IN
                    /\ u \in Seq(ImageRec)
                    /\ Len(u) = Len(imgs)
                    /\ u[i].status = st /\ u[i].owner = imgs[i].owner
                    /\ \A j \in 1..Len(imgs) : j # i => u[j] = imgs[j]
  OBVIOUS
<1>0. imgs[i] \in ImageRec
  OBVIOUS
<1>1. [imgs[i] EXCEPT !.status = st] \in ImageRec
  BY <1>0 DEF ImageRec
<1>2. [imgs EXCEPT ![i].status = st] = [imgs EXCEPT ![i] = [imgs[i] EXCEPT !.status = st]]
  OBVIOUS
<1>3. [imgs[i] EXCEPT !.status = st].owner = imgs[i].owner
  BY <1>0 DEF ImageRec
<1>4. QED
  BY <1>1, <1>2, <1>3, ExceptSeq

(* A new Image for a URL the loader can fetch.                             *)
LEMMA NewImageType ==
    ASSUME NEW imgs \in Seq(ImageRec), NEW u \in Urls,
           NEW o \in {"main", "fallback", "detached"}
    PROVE  /\ Append(imgs, NewImage(u, o)) \in Seq(ImageRec)
           /\ Len(Append(imgs, NewImage(u, o))) = Len(imgs) + 1
<1>1. NewImage(u, o) \in ImageRec
  BY DEF NewImage, ImageRec, Status
<1>2. QED
  BY <1>1, AppendProperties

(* The part of TypeOK about what the loader writes after its constructor. *)
VarTypeOK ==
    /\ canvasUpToDate \in BOOLEAN /\ images \in Seq(ImageRec)
    /\ {canvasOf, mainImage, attached, lastSuccess} \subseteq 0..Len(images)
    /\ generic \in BOOLEAN /\ {successes, errors, generics} \subseteq Nat
    /\ loads \in 0..MaxLoads /\ lastCall \in CallKinds

(* The constructor's fields never change after it: a step is well typed   *)
(* when the variables it writes are.                                        *)
LEMMA TypeFrame == TypeOK /\ UNCHANGED constVars /\ VarTypeOK' => TypeOK'
<1> SUFFICES ASSUME TypeOK, UNCHANGED constVars, VarTypeOK' PROVE TypeOK'
  OBVIOUS
<1>1. /\ metadata' \in Metadata /\ loaderType' \in LoaderTypes
      /\ thumbnailUrl' \in Urls \cup {"none"}
      /\ fallbackUrl' \in Urls \cup {"none"}
      /\ transform' \in Transforms /\ urlOk' \in [Urls -> BOOLEAN]
  BY Zenon DEF TypeOK
<1>2. QED
  BY <1>1, Zenon DEF TypeOK, VarTypeOK

LEMMA NextTypeOK == TypeOK /\ [Next]_vars => TypeOK'
<1> SUFFICES ASSUME TypeOK, [Next]_vars PROVE TypeOK'
  OBVIOUS
<1> USE ThumbnailAssumption
<1>0. VarTypeOK
  BY DEF TypeOK, VarTypeOK
<1>a. UNCHANGED constVars
  BY DEF Next, Load, LoadDetachedImage, AttachCall, ImageLoaded, ImageFailed,
         Finished, vars
<1> SUFFICES VarTypeOK'
  BY <1>a, TypeFrame
<1>1. CASE Load
  <2>1. loads' \in 0..MaxLoads /\ lastCall' \in CallKinds
    BY <1>0, <1>1 DEF Load, MayCall, CallKinds, VarTypeOK
  <2>2. CASE thumbnailUrl = "none"
    BY <1>0, <1>1, <2>1, <2>2 DEF Load, VarTypeOK
  <2>3. CASE thumbnailUrl # "none"
    <3>1. thumbnailUrl \in Urls
      BY <2>3 DEF TypeOK
    <3>2. /\ images' \in Seq(ImageRec) /\ Len(images') = Len(images) + 1
      BY <1>0, <1>1, <2>3, <3>1, NewImageType DEF Load, VarTypeOK
    <3>3. /\ mainImage' = Len(images')
          /\ UNCHANGED <<canvasOf, attached, lastSuccess, successes, errors>>
          /\ canvasUpToDate' = FALSE /\ UNCHANGED <<generic, generics>>
      BY <1>1, <2>3 DEF Load
    <3>4. {canvasOf', mainImage', attached', lastSuccess'} \subseteq 0..Len(images')
      BY <1>0, <3>2, <3>3 DEF VarTypeOK
    <3>5. QED
      BY <1>0, <2>1, <3>2, <3>3, <3>4 DEF VarTypeOK
  <2>4. QED
    BY <2>2, <2>3
<1>2. CASE LoadDetachedImage
  <2>1. loads' \in 0..MaxLoads /\ lastCall' \in CallKinds
    BY <1>0, <1>2 DEF LoadDetachedImage, MayCall, CallKinds, VarTypeOK
  <2>2. CASE thumbnailUrl = "none"
    BY <1>0, <1>2, <2>1, <2>2 DEF LoadDetachedImage, VarTypeOK
  <2>3. CASE thumbnailUrl # "none"
    <3>1. thumbnailUrl \in Urls
      BY <2>3 DEF TypeOK
    <3>2. /\ images' \in Seq(ImageRec) /\ Len(images') = Len(images) + 1
      BY <1>0, <1>2, <2>3, <3>1, NewImageType DEF LoadDetachedImage, VarTypeOK
    <3>3. /\ mainImage' = Len(images')
          /\ UNCHANGED <<canvasOf, attached, lastSuccess, successes, errors>>
          /\ canvasUpToDate' = FALSE /\ UNCHANGED <<generic, generics>>
      BY <1>2, <2>3 DEF LoadDetachedImage
    <3>4. {canvasOf', mainImage', attached', lastSuccess'} \subseteq 0..Len(images')
      BY <1>0, <3>2, <3>3 DEF VarTypeOK
    <3>5. QED
      BY <1>0, <2>1, <3>2, <3>3, <3>4 DEF VarTypeOK
  <2>4. QED
    BY <2>2, <2>3
<1>3. CASE AttachCall
  <2>1. /\ canvasOf' \in 0..Len(images) /\ canvasUpToDate' \in BOOLEAN
        /\ attached' \in 0..Len(images) /\ generic' \in BOOLEAN
    BY <1>0, <1>3, AttachType DEF AttachCall, VarTypeOK
  <2>2. loads' \in 0..MaxLoads /\ lastCall' \in CallKinds
    BY <1>0, <1>3 DEF AttachCall, MayCall, CallKinds, VarTypeOK
  <2>3. QED
    BY <1>0, <1>3, <2>1, <2>2 DEF AttachCall, VarTypeOK
<1>4. ASSUME NEW i \in DOMAIN images, ImageLoaded(i) PROVE VarTypeOK'
  <2>0. i \in 1..Len(images) /\ i \in Nat /\ "loaded" \in Status
    BY <1>0 DEF VarTypeOK, Status
  <2>1. /\ images' \in Seq(ImageRec) /\ Len(images') = Len(images)
    <3>1. images' = [images EXCEPT ![i].status = "loaded"]
      BY <1>4 DEF ImageLoaded
    <3>2. QED
      BY <1>0, <2>0, <3>1, SetStatusType DEF VarTypeOK
  <2>2. CASE images[i].owner = "main"
    <3>1. /\ canvasOf' \in 0..Len(images) /\ canvasUpToDate' \in BOOLEAN
          /\ attached' \in 0..Len(images) /\ generic' \in BOOLEAN
      BY <1>0, <1>4, <2>2, AttachType DEF ImageLoaded, VarTypeOK
    <3>2. QED
      BY <1>0, <1>4, <2>1, <2>2, <3>1 DEF ImageLoaded, VarTypeOK
  <2>3. CASE images[i].owner = "fallback"
    BY <1>0, <1>4, <2>0, <2>1, <2>3 DEF ImageLoaded, VarTypeOK
  <2>4. CASE images[i].owner \notin {"main", "fallback"}
    BY <1>0, <1>4, <2>1, <2>4 DEF ImageLoaded, VarTypeOK
  <2>5. QED
    BY <2>2, <2>3, <2>4
<1>5. ASSUME NEW i \in DOMAIN images, ImageFailed(i) PROVE VarTypeOK'
  <2> DEFINE failed == [images EXCEPT ![i].status = "failed"]
  <2>0. i \in 1..Len(images) /\ i \in Nat /\ "failed" \in Status
    BY <1>0 DEF VarTypeOK, Status
  <2>1. failed \in Seq(ImageRec) /\ Len(failed) = Len(images)
    BY <1>0, <2>0, SetStatusType DEF VarTypeOK
  <2>2. errors' \in Nat
    BY <1>0, <1>5 DEF ImageFailed, VarTypeOK
  <2>3. CASE images[i].owner = "main" /\ fallbackUrl # "none"
    <3>1. fallbackUrl \in Urls
      BY <2>3 DEF TypeOK
    <3>2. /\ images' \in Seq(ImageRec) /\ Len(images') = Len(images) + 1
      BY <1>5, <2>1, <2>3, <3>1, NewImageType DEF ImageFailed
    <3>3. QED
      BY <1>0, <1>5, <2>2, <2>3, <3>2 DEF ImageFailed, VarTypeOK
  <2>4. CASE ~(images[i].owner = "main" /\ fallbackUrl # "none")
    BY <1>0, <1>5, <2>1, <2>2, <2>4 DEF ImageFailed, VarTypeOK
  <2>5. QED
    BY <2>3, <2>4
<1>6. CASE Finished \/ UNCHANGED vars
  BY <1>0, <1>6 DEF Finished, vars, VarTypeOK
<1>7. QED
  BY <1>1, <1>2, <1>3, <1>4, <1>5, <1>6 DEF Next

(* Every variable keeps its type.                                           *)
THEOREM TypeCorrect == Spec => []TypeOK
BY InitTypeOK, NextTypeOK, PTL DEF Spec

-----------------------------------------------------------------------------
(* CanvasShowsImage reads images[canvasOf], which needs canvasOf to be an *)
(* index: the copy is only ever made from an image that exists.           *)
CanvasKept ==
    canvasUpToDate =>
        /\ canvasOf \in 1..Len(images)
        /\ canvasOf = mainImage
        /\ images[canvasOf].status = "loaded"

(* When the caller never calls the loader while a fetch is in flight, the *)
(* only image of load's still loading is the loader's image_: onload then *)
(* reads this.image_ and finds its own image.                              *)
MainLoadingIsCurrent ==
    ~Overlap =>
        \A i \in DOMAIN images :
            images[i].status = "loading" /\ images[i].owner = "main" =>
                i = mainImage

ThumbInv == TypeOK /\ CanvasKept /\ MainLoadingIsCurrent

LEMMA InitThumb == Init => ThumbInv
BY InitTypeOK DEF Init, ThumbInv, CanvasKept, MainLoadingIsCurrent

(* The end of fetch i changes that image's status and nothing else of the *)
(* images before it; the fallback fetch onerror may start comes after them. *)
LEMMA EndFetch ==
    ASSUME TypeOK, NEW i \in DOMAIN images,
           ImageLoaded(i) \/ ImageFailed(i)
    PROVE  /\ Len(images') >= Len(images)
           /\ images'[i].status # "loading"
           /\ images'[i].owner = images[i].owner
           /\ \A j \in 1..Len(images) : j # i => images'[j] = images[j]
           /\ \A j \in Len(images) + 1..Len(images') :
                 images'[j].owner = "fallback"
           /\ UNCHANGED <<mainImage, loads, lastCall>>
<1>0. /\ images \in Seq(ImageRec) /\ i \in 1..Len(images) /\ i \in Nat
  BY DEF TypeOK
<1>1. CASE ImageLoaded(i)
  <2> DEFINE u == [images EXCEPT ![i].status = "loaded"]
  <2>1. /\ Len(u) = Len(images)
        /\ u[i].status = "loaded" /\ u[i].owner = images[i].owner
        /\ \A j \in 1..Len(images) : j # i => u[j] = images[j]
    BY <1>0, SetStatusType DEF Status
  <2>2. QED
    BY <1>1, <2>1 DEF ImageLoaded
<1>2. CASE ImageFailed(i) /\ images[i].owner = "main" /\ fallbackUrl # "none"
  <2> DEFINE u == [images EXCEPT ![i].status = "failed"]
  <2>1. /\ u \in Seq(ImageRec) /\ Len(u) = Len(images)
        /\ u[i].status = "failed" /\ u[i].owner = images[i].owner
        /\ \A j \in 1..Len(images) : j # i => u[j] = images[j]
    BY <1>0, SetStatusType DEF Status
  <2>2. images' = Append(u, NewImage(fallbackUrl, "fallback"))
    BY <1>2 DEF ImageFailed
  <2>3. /\ Len(images') = Len(images) + 1
        /\ \A j \in 1..Len(images) : images'[j] = u[j]
        /\ images'[Len(images) + 1] = NewImage(fallbackUrl, "fallback")
    BY <2>1, <2>2, AppendProperties
  <2>4. \A j \in Len(images) + 1..Len(images') : images'[j].owner = "fallback"
    BY <2>3 DEF NewImage
  <2>5. QED
    BY <1>0, <1>2, <2>1, <2>3, <2>4 DEF ImageFailed
<1>3. CASE ImageFailed(i) /\ ~(images[i].owner = "main" /\ fallbackUrl # "none")
  <2> DEFINE u == [images EXCEPT ![i].status = "failed"]
  <2>1. /\ Len(u) = Len(images)
        /\ u[i].status = "failed" /\ u[i].owner = images[i].owner
        /\ \A j \in 1..Len(images) : j # i => u[j] = images[j]
    BY <1>0, SetStatusType DEF Status
  <2>2. QED
    BY <1>3, <2>1 DEF ImageFailed
<1>4. QED
  BY <1>1, <1>2, <1>3

(* attachImage(box) of image_: it copies image_ to the canvas only when it *)
(* has loaded, and then the canvas holds image_.                           *)
LEMMA AttachCanvas ==
    ASSUME TypeOK, TypeOK', CanvasKept, NEW imgs, AttachImage(mainImage, imgs),
           canvasUpToDate => imgs[canvasOf].status = "loaded",
           mainImage \in Nat, Len(images) <= Len(images')
    PROVE  canvasUpToDate' =>
               /\ canvasOf' \in 1..Len(images') /\ canvasOf' = mainImage
               /\ imgs[canvasOf'].status = "loaded"
<1>0. UNCHANGED canvasVars =>
        (canvasUpToDate' =>
               /\ canvasOf' \in 1..Len(images') /\ canvasOf' = mainImage
               /\ imgs[canvasOf'].status = "loaded")
  BY DEF CanvasKept, TypeOK
<1>1. CASE mainImage = 0 \/ imgs[mainImage].status # "loaded"
  <2>1. UNCHANGED canvasVars
    BY <1>1 DEF AttachImage
  <2>2. QED
    BY <1>0, <2>1
<1>2. CASE ~(mainImage = 0 \/ imgs[mainImage].status # "loaded")
            /\ loaderType = "IMAGE"
  <2>1. UNCHANGED canvasVars
    BY <1>2 DEF AttachImage
  <2>2. QED
    BY <1>0, <2>1
<1>3. CASE ~(mainImage = 0 \/ imgs[mainImage].status # "loaded")
            /\ loaderType # "IMAGE"
  <2>1. canvasOf' = (IF canvasUpToDate THEN canvasOf ELSE mainImage)
    BY <1>3 DEF AttachImage
  <2>2. CASE canvasUpToDate
    <3>1. canvasOf' = canvasOf /\ canvasOf \in 1..Len(images) /\ canvasOf = mainImage
      BY <2>1, <2>2 DEF CanvasKept
    <3>2. QED
      BY <2>2, <3>1 DEF TypeOK
  <2>3. CASE ~canvasUpToDate
    <3>1. canvasOf' = mainImage /\ imgs[mainImage].status = "loaded"
      BY <1>3, <2>1, <2>3
    <3>2. canvasOf' \in 1..Len(images')
      BY <1>3, <3>1 DEF TypeOK
    <3>3. QED
      BY <3>1, <3>2
  <2>4. QED
    BY <2>2, <2>3
<1>4. QED
  BY <1>1, <1>2, <1>3


(* A call of the caller starts at most one fetch, as image_: the canvas is *)
(* outdated with it, and without overlap every earlier fetch has ended.    *)
LEMMA StartFetch ==
    ASSUME ThumbInv, NEW o \in {"main", "detached"}, NEW kind,
           MayCall(kind),
           \/ UNCHANGED <<images, mainImage, canvasUpToDate, canvasOf>>
           \/ /\ thumbnailUrl # "none"
              /\ images' = Append(images, NewImage(thumbnailUrl, o))
              /\ mainImage' = Len(images')
              /\ canvasUpToDate' = FALSE
    PROVE  CanvasKept' /\ MainLoadingIsCurrent'
<1>1. CASE UNCHANGED <<images, mainImage, canvasUpToDate, canvasOf>>
  BY <1>1 DEF ThumbInv, CanvasKept, MainLoadingIsCurrent
<1>2. CASE /\ thumbnailUrl # "none"
           /\ images' = Append(images, NewImage(thumbnailUrl, o))
           /\ mainImage' = Len(images')
           /\ canvasUpToDate' = FALSE
  <2>1. CanvasKept'
    BY <1>2 DEF CanvasKept
  <2>2. /\ Len(images') = Len(images) + 1
        /\ \A j \in 1..Len(images) : images'[j] = images[j]
        /\ images'[Len(images) + 1] = NewImage(thumbnailUrl, o)
    BY <1>2, AppendProperties DEF ThumbInv, TypeOK
  <2>3. ~Overlap => \A j \in 1..Len(images) : images[j].status # "loading"
    BY DEF MayCall, Settled, ThumbInv, TypeOK
  <2>4. MainLoadingIsCurrent'
    BY <1>2, <2>2, <2>3 DEF MainLoadingIsCurrent, NewImage, ThumbInv, TypeOK
  <2>5. QED
    BY <2>1, <2>4
<1>3. QED
  BY <1>1, <1>2

LEMMA NextThumb == ThumbInv /\ [Next]_vars => ThumbInv'
<1> SUFFICES ASSUME ThumbInv, [Next]_vars PROVE ThumbInv'
  OBVIOUS
<1>0. TypeOK'
  BY NextTypeOK DEF ThumbInv
<1> SUFFICES CanvasKept' /\ MainLoadingIsCurrent'
  BY <1>0 DEF ThumbInv
<1>1. CASE Load
  BY <1>1, StartFetch DEF Load
<1>2. CASE LoadDetachedImage
  BY <1>2, StartFetch DEF LoadDetachedImage
<1>3. CASE AttachCall
  <2>1. CanvasKept'
    <3>1. mainImage \in Nat
      BY DEF ThumbInv, TypeOK
    <3>2. QED
      BY <1>0, <1>3, <3>1, AttachCanvas DEF AttachCall, ThumbInv, CanvasKept
  <2>2. MainLoadingIsCurrent'
    BY <1>3 DEF AttachCall, ThumbInv, MainLoadingIsCurrent
  <2>3. QED
    BY <2>1, <2>2
<1>4. ASSUME NEW i \in DOMAIN images, ImageLoaded(i) \/ ImageFailed(i)
      PROVE  CanvasKept' /\ MainLoadingIsCurrent'
  <2>1. /\ Len(images') >= Len(images)
        /\ images'[i].status # "loading"
        /\ images'[i].owner = images[i].owner
        /\ \A j \in 1..Len(images) : j # i => images'[j] = images[j]
        /\ \A j \in Len(images) + 1..Len(images') :
              images'[j].owner = "fallback"
        /\ UNCHANGED <<mainImage, loads, lastCall>>
    BY <1>4, EndFetch DEF ThumbInv
  <2>2. images[i].status = "loading"
    BY <1>4 DEF ImageLoaded, ImageFailed
  <2>3. canvasUpToDate => canvasOf # i /\ images'[canvasOf].status = "loaded"
    BY <2>1, <2>2 DEF ThumbInv, CanvasKept, TypeOK
  <2>4. MainLoadingIsCurrent'
    <3> SUFFICES ASSUME ~Overlap, NEW j \in DOMAIN images',
                        images'[j].status = "loading", images'[j].owner = "main"
                 PROVE  j = mainImage'
      BY DEF MainLoadingIsCurrent
    <3>0. images' \in Seq(ImageRec) /\ images \in Seq(ImageRec)
      BY <1>0, Zenon DEF TypeOK, ThumbInv
    <3>1. j \in 1..Len(images) \/ j \in Len(images) + 1..Len(images')
      BY <3>0
    <3>2. CASE j \in 1..Len(images)
      <4>1. j # i /\ images'[j] = images[j]
        BY <2>1, <3>2
      <4>2. QED
        BY <2>1, <3>2, <4>1 DEF ThumbInv, MainLoadingIsCurrent, TypeOK
    <3>3. CASE j \in Len(images) + 1..Len(images')
      BY <2>1, <3>3
    <3>4. QED
      BY <3>1, <3>2, <3>3
  <2>5. CASE ImageLoaded(i) /\ images[i].owner = "main"
    <3>1. mainImage \in Nat /\ AttachImage(mainImage, images')
      BY <2>5 DEF ImageLoaded, ThumbInv, TypeOK
    <3>2. QED
      BY <1>0, <2>1, <2>3, <2>4, <3>1, AttachCanvas DEF ThumbInv, CanvasKept
  <2>6. CASE ~(ImageLoaded(i) /\ images[i].owner = "main")
    <3>1. UNCHANGED canvasVars
      BY <1>4, <2>6 DEF ImageLoaded, ImageFailed
    <3>2. QED
      BY <2>1, <2>3, <2>4, <3>1 DEF ThumbInv, CanvasKept, TypeOK
  <2>7. QED
    BY <2>5, <2>6
<1>5. CASE Finished \/ UNCHANGED vars
  BY <1>5 DEF Finished, vars, ThumbInv, CanvasKept, MainLoadingIsCurrent
<1>6. QED
  BY <1>1, <1>2, <1>3, <1>4, <1>5 DEF Next

(* Whenever canvasUpToDate_ is set, canvas_ holds the pixels of the       *)
(* loader's current image_, and that image has loaded, for every metadata *)
(* and every order of the caller's calls and the fetches' events: load     *)
(* and loadDetachedImage outdate the copy when they replace image_.         *)
THEOREM CanvasShowsImageHolds == Spec => []CanvasShowsImage
<1>1. ThumbInv => CanvasShowsImage
  BY DEF ThumbInv, CanvasKept, CanvasShowsImage
<1>2. QED
  BY <1>1, InitThumb, NextThumb, PTL DEF Spec


-----------------------------------------------------------------------------
(* The constructor and the resolution of spec.md section 4.1.              *)
-----------------------------------------------------------------------------

(* The loop's break makes the first primary app with an icon win, which   *)
(* is the entry no earlier candidate precedes.                             *)
LEMMA FallbackMatchesSpec ==
    ASSUME NEW apps \in AppLists
    PROVE  DriveFallback(apps) = SpecFallback(apps)
<1> DEFINE Cand(i) == apps[i].docIcon /\ apps[i].isPrimary
           qual == {i \in DOMAIN apps : Cand(i)}
           first == {i \in DOMAIN apps :
                       Cand(i) /\ \A j \in 1..(i - 1) : ~Cand(j)}
<1>1. PICK n \in 0..MaxApps : apps \in [1..n -> DriveApp]
  BY DEF AppLists
<1>2. DOMAIN apps = 1..n /\ n \in Nat
  BY <1>1, ThumbnailAssumption
<1>3. CASE qual = {}
  <2>1. first = {}
    BY <1>3
  <2>2. QED
    BY <1>3, <2>1 DEF DriveFallback, SpecFallback
<1>4. CASE qual # {}
  <2>1. PICK m \in qual : \A j \in qual : m <= j
    <3>1. n <= 3
      BY <1>1, ThumbnailAssumption
    <3>2. CASE 1 \in qual
      BY <1>2, <3>2
    <3>3. CASE 1 \notin qual /\ 2 \in qual
      BY <1>2, <3>3
    <3>4. CASE 1 \notin qual /\ 2 \notin qual
      BY <1>2, <1>4, <3>1, <3>4
    <3>5. QED
      BY <3>2, <3>3, <3>4
  <2>2. first = {m}
    BY <1>2, <2>1
  <2>3. (CHOOSE i \in qual : \A j \in qual : i <= j) = m
    BY <1>2, <2>1
  <2>4. (CHOOSE i \in first : TRUE) = m
    BY <2>2
  <2>5. DriveFallback(apps) = IconUrl(m)
    BY <1>4, <2>3, Zenon DEF DriveFallback
  <2>6. SpecFallback(apps) = IconUrl(m)
    <3>1. first # {}
      BY <2>2
    <3>2. QED
      BY <2>4, <3>1, Zenon DEF SpecFallback
  <2>7. QED
    BY <2>5, <2>6
<1>5. QED
  BY <1>3, <1>4

(* Without a size or dimension of 0, a JavaScript-truthy value is a known *)
(* one, and canUseImageUrl_ is the specification's test.                   *)
LEMMA SafeMatchesSpec ==
    ASSUME 0 \notin Sizes, 0 \notin Dims, NEW md \in Metadata, md # None
    PROVE  CanUseImageUrl(md) = SpecSafeToUse(md)
<1>1. /\ md.size \in Sizes /\ md.width \in Dims /\ md.height \in Dims
  BY DEF Metadata
<1>2. /\ Truthy(md.size) = (md.size # None)
      /\ Truthy(md.width) = (md.width # None)
      /\ Truthy(md.height) = (md.height # None)
  BY <1>1 DEF Truthy
<1>3. QED
  BY <1>2 DEF CanUseImageUrl, SpecSafeToUse

(* The constructor's resolution is the specification's.                    *)
LEMMA ResolveMatchesSpec ==
    ASSUME 0 \notin Sizes, 0 \notin Dims, NEW md \in Metadata
    PROVE  Resolve(md) = SpecSource(md)
<1>1. CASE md = None
  BY <1>1 DEF Resolve, SpecSource
<1>2. CASE md # None
  <2>1. md.driveApps \in AppLists
    BY <1>2 DEF Metadata
  <2>2. DriveFallback(md.driveApps) = SpecFallback(md.driveApps)
    BY <2>1, FallbackMatchesSpec
  <2>3. CanUseImageUrl(md) = SpecSafeToUse(md)
    BY <1>2, SafeMatchesSpec
  <2>4. QED
    BY <1>2, <2>2, <2>3 DEF Resolve, SpecSource
<1>3. QED
  BY <1>1, <1>2

(* For every metadata whose sizes and dimensions are not 0, the loader     *)
(* resolves its thumbnail URL, fallback URL and transform by the priority  *)
(* order of the specification: embedded thumbnail, then the file itself    *)
(* when it is an image small enough, then the first primary Drive app      *)
(* icon.  A size or dimension of 0 is falsy to canUseImageUrl_ and known   *)
(* to the specification (THUMB_SourceZero.cfg), hence the hypothesis.      *)
THEOREM SourceMatchesSpecHolds ==
    ASSUME 0 \notin Sizes, 0 \notin Dims
    PROVE  Spec => []SourceMatchesSpec
<1> DEFINE Inv == TypeOK /\ SourceMatchesSpec
<1>1. Init => Inv
  <2> SUFFICES ASSUME Init PROVE Inv
    OBVIOUS
  <2>1. metadata \in Metadata
    BY DEF Init
  <2>2. Resolve(metadata) = SpecSource(metadata)
    BY <2>1, ResolveMatchesSpec
  <2>3. Resolve(metadata) = [thumb |-> Resolve(metadata).thumb,
                             fallback |-> Resolve(metadata).fallback,
                             tr |-> Resolve(metadata).tr]
    BY DEF Resolve
  <2>4. QED
    BY <2>2, <2>3, InitTypeOK DEF Init, SourceMatchesSpec
<1>2. Inv /\ [Next]_vars => Inv'
  <2> SUFFICES ASSUME Inv, [Next]_vars PROVE Inv'
    OBVIOUS
  <2>1. UNCHANGED constVars
    BY DEF Next, Load, LoadDetachedImage, AttachCall, ImageLoaded,
           ImageFailed, Finished, vars
  <2>2. QED
    BY <2>1, NextTypeOK DEF SourceMatchesSpec
<1>3. QED
  BY <1>1, <1>2, PTL DEF Spec



-----------------------------------------------------------------------------
(* A call fetches at most two images: its own, and the fallback its        *)
(* onerror may construct.                                                  *)
-----------------------------------------------------------------------------

(* The images of load still in flight: each may yet fail and append a     *)
(* fallback image.                                                         *)
LoadingMain(imgs) ==
    {i \in 1..Len(imgs) : imgs[i].owner = "main" /\ imgs[i].status = "loading"}

(* Every call has paid for its image and for the fallback its image may   *)
(* still add.                                                              *)
FetchInv == TypeOK /\ Len(images) + Cardinality(LoadingMain(images)) <= 2 * loads


LEMMA LoadingMainFinite ==
    ASSUME NEW imgs \in Seq(ImageRec)
    PROVE  /\ IsFiniteSet(LoadingMain(imgs))
           /\ Cardinality(LoadingMain(imgs)) \in Nat
<1>1. IsFiniteSet(1..Len(imgs))
  BY FS_Interval
<1>2. LoadingMain(imgs) \subseteq 1..Len(imgs)
  BY DEF LoadingMain
<1>3. IsFiniteSet(LoadingMain(imgs))
  BY <1>1, <1>2, FS_Subset
<1>4. QED
  BY <1>3, FS_CardinalityType

(* A new Image is in flight; it counts when load created it.               *)
LEMMA LoadingAppend ==
    ASSUME NEW imgs \in Seq(ImageRec), NEW u \in Urls,
           NEW o \in {"main", "fallback", "detached"}
    PROVE  Cardinality(LoadingMain(Append(imgs, NewImage(u, o)))) =
               Cardinality(LoadingMain(imgs)) + (IF o = "main" THEN 1 ELSE 0)
<1> DEFINE m == NewImage(u, o)
           L == LoadingMain(imgs)
           n == Len(imgs) + 1
<1>0. m \in ImageRec
  BY DEF NewImage, ImageRec, Status
<1>1. /\ Len(Append(imgs, m)) = n
      /\ Append(imgs, m)[n] = m
      /\ \A j \in 1..Len(imgs) : Append(imgs, m)[j] = imgs[j]
  BY <1>0, AppendProperties
<1>2. LoadingMain(Append(imgs, m)) = IF o = "main" THEN L \cup {n} ELSE L
  BY <1>1 DEF LoadingMain, NewImage
<1>3. IsFiniteSet(L) /\ n \notin L
  BY LoadingMainFinite DEF LoadingMain
<1>4. Cardinality(L \cup {n}) = Cardinality(L) + 1
  <2>1. Cardinality(L \cup {n}) =
            IF n \in L THEN Cardinality(L) ELSE Cardinality(L) + 1
    BY <1>3, FS_AddElement, Zenon
  <2>2. QED
    BY <1>3, <2>1
<1>5. CASE o = "main"
  BY <1>2, <1>4, <1>5
<1>6. CASE o # "main"
  BY <1>2, <1>6, LoadingMainFinite
<1>7. QED
  BY <1>5, <1>6

(* The end of a fetch takes its image out of flight.                       *)
LEMMA LoadingEnd ==
    ASSUME NEW imgs \in Seq(ImageRec), NEW i \in 1..Len(imgs),
           NEW st \in Status, st # "loading"
    PROVE  LoadingMain([imgs EXCEPT ![i].status = st]) = LoadingMain(imgs) \ {i}
<1> DEFINE u == [imgs EXCEPT ![i].status = st]
<1>1. /\ Len(u) = Len(imgs)
      /\ u[i].status = st
      /\ \A j \in 1..Len(imgs) : j # i => u[j] = imgs[j]
  BY SetStatusType
<1>2. QED
  BY <1>1, st # "loading" DEF LoadingMain


LEMMA LoadingEndCard ==
    ASSUME NEW imgs \in Seq(ImageRec), NEW i \in 1..Len(imgs),
           NEW st \in Status, st # "loading"
    PROVE  /\ [imgs EXCEPT ![i].status = st] \in Seq(ImageRec)
           /\ Len([imgs EXCEPT ![i].status = st]) = Len(imgs)
           /\ Cardinality(LoadingMain([imgs EXCEPT ![i].status = st])) =
                  IF i \in LoadingMain(imgs)
                    THEN Cardinality(LoadingMain(imgs)) - 1
                    ELSE Cardinality(LoadingMain(imgs))
<1>1. /\ [imgs EXCEPT ![i].status = st] \in Seq(ImageRec)
      /\ Len([imgs EXCEPT ![i].status = st]) = Len(imgs)
  BY SetStatusType
<1>2. IsFiniteSet(LoadingMain(imgs))
  BY LoadingMainFinite
<1>3. Cardinality(LoadingMain(imgs) \ {i}) =
          IF i \in LoadingMain(imgs)
            THEN Cardinality(LoadingMain(imgs)) - 1
            ELSE Cardinality(LoadingMain(imgs))
  BY <1>2, FS_RemoveElement, Zenon
<1>4. LoadingMain([imgs EXCEPT ![i].status = st]) = LoadingMain(imgs) \ {i}
  BY LoadingEnd
<1>5. QED
  BY <1>1, <1>3, <1>4, Zenon

(* Count of the images of load still in flight.                            *)
InFlight(imgs) == Cardinality(LoadingMain(imgs))

LEMMA NextFetch == FetchInv /\ [Next]_vars => FetchInv'
<1> SUFFICES ASSUME FetchInv, [Next]_vars PROVE FetchInv'
  OBVIOUS
<1>0. TypeOK'
  BY NextTypeOK DEF FetchInv
<1>1. /\ images \in Seq(ImageRec)
      /\ InFlight(images) \in Nat
      /\ loads \in Nat
      /\ Len(images) + InFlight(images) <= 2 * loads
  BY LoadingMainFinite DEF FetchInv, TypeOK, InFlight
<1> SUFFICES Len(images') + InFlight(images') <= 2 * loads'
  BY <1>0 DEF FetchInv, InFlight
<1>2. ASSUME NEW o \in {"main", "detached"},
             thumbnailUrl # "none",
             images' = Append(images, NewImage(thumbnailUrl, o)),
             loads' = loads + 1
      PROVE  Len(images') + InFlight(images') <= 2 * loads'
  <2>1. thumbnailUrl \in Urls
    BY <1>2 DEF FetchInv, TypeOK
  <2>2. Len(images') = Len(images) + 1
    BY <1>1, <1>2, <2>1, NewImageType
  <2>3. InFlight(images') = InFlight(images) + (IF o = "main" THEN 1 ELSE 0)
    BY <1>1, <1>2, <2>1, LoadingAppend DEF InFlight
  <2>4. QED
    BY <1>1, <1>2, <2>2, <2>3
<1>3. CASE Load
  <2>1. loads' = loads + 1
    BY <1>3 DEF Load, MayCall
  <2>2. CASE thumbnailUrl = "none"
    BY <1>1, <1>3, <2>1, <2>2 DEF Load
  <2>3. CASE thumbnailUrl # "none"
    BY <1>3, <2>1, <2>3, <1>2 DEF Load
  <2>4. QED
    BY <2>2, <2>3
<1>4. CASE LoadDetachedImage
  <2>1. loads' = loads + 1
    BY <1>4 DEF LoadDetachedImage, MayCall
  <2>2. CASE thumbnailUrl = "none"
    BY <1>1, <1>4, <2>1, <2>2 DEF LoadDetachedImage
  <2>3. CASE thumbnailUrl # "none"
    BY <1>4, <2>1, <2>3, <1>2 DEF LoadDetachedImage
  <2>4. QED
    BY <2>2, <2>3
<1>5. CASE AttachCall
  BY <1>1, <1>5 DEF AttachCall, MayCall
<1>6. ASSUME NEW i \in DOMAIN images, ImageLoaded(i) \/ ImageFailed(i)
      PROVE  Len(images') + InFlight(images') <= 2 * loads'
  <2>0. i \in 1..Len(images) /\ loads' = loads
    BY <1>1, <1>6 DEF ImageLoaded, ImageFailed
  <2>1. ASSUME NEW st \in Status, st # "loading",
               images' = [images EXCEPT ![i].status = st]
        PROVE  Len(images') + InFlight(images') <= 2 * loads'
    <3>1. /\ images' \in Seq(ImageRec)
          /\ Len(images') = Len(images)
          /\ InFlight(images') =
                 IF i \in LoadingMain(images)
                   THEN InFlight(images) - 1 ELSE InFlight(images)
      <4>1. /\ [images EXCEPT ![i].status = st] \in Seq(ImageRec)
            /\ Len([images EXCEPT ![i].status = st]) = Len(images)
            /\ Cardinality(LoadingMain([images EXCEPT ![i].status = st])) =
                   IF i \in LoadingMain(images)
                     THEN Cardinality(LoadingMain(images)) - 1
                     ELSE Cardinality(LoadingMain(images))
        BY <1>1, <2>0, <2>1, LoadingEndCard, Zenon
      <4>2. QED
        BY <4>1, <2>1 DEF InFlight
    <3>2. QED
      BY <1>1, <2>0, <3>1
  <2>2. CASE ImageLoaded(i)
    BY <2>1, <2>2 DEF ImageLoaded, Status
  <2>3. CASE ImageFailed(i) /\ images[i].owner = "main" /\ fallbackUrl # "none"
    <3> DEFINE u == [images EXCEPT ![i].status = "failed"]
    <3>1. images' = Append(u, NewImage(fallbackUrl, "fallback"))
      BY <2>3 DEF ImageFailed
    <3>2. i \in LoadingMain(images)
      BY <2>0, <2>3 DEF ImageFailed, LoadingMain
    <3>3. /\ u \in Seq(ImageRec)
          /\ Len(u) = Len(images)
          /\ InFlight(u) = InFlight(images) - 1
      <4>1. "failed" \in Status /\ "failed" # "loading"
        BY DEF Status
      <4>2. /\ u \in Seq(ImageRec)
            /\ Len(u) = Len(images)
            /\ InFlight(u) = IF i \in LoadingMain(images)
                                THEN InFlight(images) - 1
                                ELSE InFlight(images)
        BY <1>1, <2>0, <4>1, LoadingEndCard, Zenon DEF InFlight
      <4>3. QED
        BY <3>2, <4>2
    <3>4. fallbackUrl \in Urls
      BY <2>3 DEF FetchInv, TypeOK
    <3>5. Len(images') = Len(images) + 1
      BY <3>1, <3>3, <3>4, NewImageType
    <3>6. InFlight(images') = InFlight(u) + 0
      <4>1. Cardinality(LoadingMain(Append(u, NewImage(fallbackUrl, "fallback")))) =
                Cardinality(LoadingMain(u)) + (IF "fallback" = "main" THEN 1 ELSE 0)
        BY <3>3, <3>4, LoadingAppend, Zenon
      <4>2. QED
        BY <3>1, <4>1 DEF InFlight
    <3>7. QED
      BY <1>1, <2>0, <3>3, <3>5, <3>6
  <2>4. CASE ImageFailed(i) /\ ~(images[i].owner = "main" /\ fallbackUrl # "none")
    BY <2>1, <2>4 DEF ImageFailed, Status
  <2>5. QED
    BY <1>6, <2>2, <2>3, <2>4
<1>7. CASE Finished \/ UNCHANGED vars
  BY <1>1, <1>7 DEF Finished, vars
<1>8. QED
  BY <1>3, <1>4, <1>5, <1>6, <1>7 DEF Next

(* Every call of load or loadDetachedImage creates at most one Image, and *)
(* the onerror of load's Image at most one fallback loader, whatever the  *)
(* metadata and the order of the calls and of the load and error events:  *)
(* the fetches started stay within twice the calls made.                    *)
THEOREM FetchesBoundedHolds == Spec => []FetchesBounded
<1>1. Init => FetchInv
  <2> SUFFICES ASSUME Init PROVE FetchInv
    OBVIOUS
  <2>1. images = << >> /\ loads = 0 /\ TypeOK
    BY InitTypeOK DEF Init
  <2>2. LoadingMain(images) = {}
    BY <2>1 DEF LoadingMain
  <2>3. QED
    BY <2>1, <2>2, FS_EmptySet DEF FetchInv
<1>2. FetchInv => FetchesBounded
  BY LoadingMainFinite DEF FetchInv, TypeOK, FetchesBounded
<1>3. QED
  BY <1>1, <1>2, NextFetch, PTL DEF Spec

=============================================================================
