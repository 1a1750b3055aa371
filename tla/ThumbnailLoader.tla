--------------------------- MODULE ThumbnailLoader ---------------------------
(***************************************************************************)
(* The file manager's ThumbnailLoader (media_util.js): the constructor     *)
(* that resolves thumbnailUrl_, fallbackUrl_ and transform_ from the       *)
(* metadata, and load(box, ...) with its onload and onerror callbacks,     *)
(* the fallback loader that onerror constructs, loadDetachedImage and      *)
(* attachImage, called by onload or by the caller after a detached load.   *)
(*                                                                         *)
(* One loader is constructed from a metadata value chosen in Init.  Every  *)
(* Image object is an element of the sequence images; its fetch ends with  *)
(* the load or the error event according to urlOk, the validity of its    *)
(* URL, also chosen in Init.  Events of different images come in any       *)
(* order.  The box is the container: the image attached to it and its      *)
(* 'generic-thumbnail' attribute; attached is the image whose pixels it    *)
(* shows, through the Image itself (IMAGE) or the loader's canvas copy     *)
(* (CANVAS).  The layout of centerImage_ is in CenterImage.                *)
(***************************************************************************)
EXTENDS Naturals, Sequences

CONSTANTS
    None,      \* an absent field of the metadata
    Sizes,     \* values of metadata.filesystem.size
    Dims,      \* values of metadata.media.width and height
    MaxApps,   \* bound on the length of metadata.drive.driveApps
    MaxLoads,  \* bound on the calls of load
    Overlap    \* whether a caller may call load while a fetch is in flight

ASSUME ThumbnailAssumption ==
    /\ MaxApps \in 0..3 /\ MaxLoads \in Nat /\ Overlap \in BOOLEAN
    /\ Sizes \subseteq Nat \cup {None} /\ Dims \subseteq Nat \cup {None}

(* ThumbnailLoader.MAX_FILE_SIZE and MAX_PIXEL_COUNT, lines 55-60.         *)
MAX_FILE_SIZE == 2^20
MAX_PIXEL_COUNT == 2^21

(* The URLs a loader can fetch: the file itself, the embedded thumbnail,  *)
(* and the docIcon of the i-th Drive app.                                  *)
IconUrl(i) == <<"icon1", "icon2", "icon3">>[i]
Urls == {"file", "thumb"} \cup {IconUrl(i) : i \in 1..MaxApps}

DriveApp == [docIcon : BOOLEAN, isPrimary : BOOLEAN]
AppLists == UNION {[1..n -> DriveApp] : n \in 0..MaxApps}

(* opt_metadata: absent, or the fields the constructor reads.  isImage is *)
(* FileType.isImage(url) of the file.                                      *)
Metadata ==
    {None} \cup
    [thumbnail : BOOLEAN, isImage : BOOLEAN, size : Sizes, width : Dims,
     height : Dims, driveApps : AppLists]

Transforms == {"none", "thumbnail", "media"}

Status == {"loading", "loaded", "failed"}

(* The loaders' own images: load's, the fallback loader's and            *)
(* loadDetachedImage's.                                                    *)
ImageRec == [url : Urls, owner : {"main", "fallback", "detached"}, status : Status]

LoaderTypes == {"IMAGE", "CANVAS"}

(* The caller's calls: load, loadDetachedImage, attachImage.               *)
CallKinds == {"none", "load", "detached", "attach"}

VARIABLES
    metadata,      \* the metadata the loader was constructed from
    loaderType,    \* loaderType_
    canvasUpToDate, \* canvasUpToDate_
    canvasOf,      \* index of the image drawn on canvas_ (0: no canvas)
    thumbnailUrl,  \* thumbnailUrl_ ("none": null)
    fallbackUrl,   \* fallbackUrl_ ("none": null)
    transform,     \* transform_
    urlOk,         \* which URLs load
    images,        \* the Image objects created, in order
    mainImage,     \* index of the loader's image_ (0: none yet)
    attached,      \* index of the image attached to the box (0: none)
    generic,       \* the box has the 'generic-thumbnail' attribute
    successes,     \* calls of opt_onSuccess so far
    lastSuccess,   \* index of the image the last one was given
    errors,        \* calls of opt_onError so far
    generics,      \* calls of opt_onGeneric so far
    loads,         \* calls of the loader so far
    lastCall       \* the caller's last call

canvasVars == <<canvasUpToDate, canvasOf>>
constVars == <<metadata, loaderType, thumbnailUrl, fallbackUrl, transform, urlOk>>
vars == <<metadata, loaderType, canvasVars, thumbnailUrl, fallbackUrl,
          transform, urlOk, images, mainImage, attached, generic, successes,
          lastSuccess, errors, generics, loads, lastCall>>

TypeOK ==
    /\ metadata \in Metadata
    /\ loaderType \in LoaderTypes
    /\ canvasUpToDate \in BOOLEAN
    /\ canvasOf \in 0..Len(images)
    /\ thumbnailUrl \in Urls \cup {"none"}
    /\ fallbackUrl \in Urls \cup {"none"}
    /\ transform \in Transforms
    /\ urlOk \in [Urls -> BOOLEAN]
    /\ images \in Seq(ImageRec)
    /\ mainImage \in 0..Len(images)
    /\ attached \in 0..Len(images)
    /\ generic \in BOOLEAN
    /\ lastSuccess \in 0..Len(images)
    /\ {successes, errors, generics} \subseteq Nat
    /\ loads \in 0..MaxLoads
    /\ lastCall \in CallKinds

-----------------------------------------------------------------------------
(* JavaScript truthiness of an optional number.                            *)
Truthy(x) == x # None /\ x # 0

(* canUseImageUrl_(metadata).                                              *)
CanUseImageUrl(md) ==
    \/ Truthy(md.size) /\ md.size <= MAX_FILE_SIZE
    \/ /\ Truthy(md.width) /\ Truthy(md.height)
       /\ md.width * md.height <= MAX_PIXEL_COUNT

(* A variant of the Drive-app loop without its break: the last primary    *)
(* app with an icon wins.                                                  *)
DriveFallbackLast(apps) ==
    LET qual == {i \in DOMAIN apps : apps[i].docIcon /\ apps[i].isPrimary}
    IN  IF qual = {} THEN "none"
        ELSE IconUrl(CHOOSE i \in qual : \A j \in qual : j <= i)

(* The loop over metadata.drive.driveApps: the docIcon of the first app   *)
(* that has one and is primary.                                            *)
DriveFallback(apps) ==
    LET qual == {i \in DOMAIN apps : apps[i].docIcon /\ apps[i].isPrimary}
    IN  IF qual = {} THEN "none"
        ELSE IconUrl(CHOOSE i \in qual : \A j \in qual : i <= j)

(* A variant of the constructor that takes metadata.media for the         *)
(* transform instead of metadata.media.imageTransform.                     *)
ResolveMediaObject(md) ==
    IF md = None THEN [thumb |-> "file", fallback |-> "none", tr |-> "none"]
    ELSE LET fb == DriveFallback(md.driveApps) IN
         IF md.thumbnail
           THEN [thumb |-> "thumb", fallback |-> fb, tr |-> "thumbnail"]
         ELSE IF md.isImage /\ CanUseImageUrl(md)
           THEN [thumb |-> "file", fallback |-> fb, tr |-> "mediaObject"]
         ELSE IF fb # "none"
           THEN [thumb |-> fb, fallback |-> "none", tr |-> "none"]
         ELSE [thumb |-> "none", fallback |-> "none", tr |-> "none"]

(* The constructor: thumbnailUrl_, fallbackUrl_ and transform_.            *)
Resolve(md) ==
    IF md = None THEN [thumb |-> "file", fallback |-> "none", tr |-> "none"]
    ELSE LET fb == DriveFallback(md.driveApps) IN
         IF md.thumbnail
           THEN [thumb |-> "thumb", fallback |-> fb, tr |-> "thumbnail"]
         ELSE IF md.isImage /\ CanUseImageUrl(md)
           THEN [thumb |-> "file", fallback |-> fb, tr |-> "media"]
         ELSE IF fb # "none"
           THEN [thumb |-> fb, fallback |-> "none", tr |-> "none"]
         ELSE [thumb |-> "none", fallback |-> "none", tr |-> "none"]

Init ==
    /\ metadata \in Metadata
    /\ loaderType \in LoaderTypes
    /\ canvasUpToDate = FALSE
    /\ canvasOf = 0
    /\ thumbnailUrl = Resolve(metadata).thumb
    /\ fallbackUrl = Resolve(metadata).fallback
    /\ transform = Resolve(metadata).tr
    /\ urlOk \in [Urls -> BOOLEAN]
    /\ images = << >>
    /\ mainImage = 0
    /\ attached = 0
    /\ generic = FALSE
    /\ successes = 0
    /\ lastSuccess = 0
    /\ errors = 0
    /\ generics = 0
    /\ loads = 0
    /\ lastCall = "none"

-----------------------------------------------------------------------------
(* No fetch is in flight.                                                  *)
Settled == \A i \in DOMAIN images : images[i].status # "loading"

(* A fetch of url by the loader of the given owner: new Image(), then     *)
(* util.loadImage.                                                         *)
NewImage(url, owner) == [url |-> url, owner |-> owner, status |-> "loading"]

(* The caller may call the loader: within the bound and, unless it may   *)
(* overlap its calls, only when no fetch is in flight.                     *)
MayCall(kind) ==
    /\ loads < MaxLoads
    /\ Overlap \/ Settled
    /\ loads' = loads + 1
    /\ lastCall' = kind

(* A variant of load that attaches the image and reports success at once, *)
(* before its load event.                                                  *)
LoadAttachesEarly ==
    /\ MayCall("load")
    /\ IF thumbnailUrl = "none"
         THEN /\ generic' = TRUE
              /\ generics' = generics + 1
              /\ UNCHANGED <<images, mainImage, attached, successes,
                             lastSuccess, canvasUpToDate>>
         ELSE /\ canvasUpToDate' = FALSE
              /\ images' = Append(images, NewImage(thumbnailUrl, "main"))
              /\ mainImage' = Len(images')
              /\ attached' = Len(images')
              /\ successes' = successes + 1
              /\ lastSuccess' = Len(images')
              /\ UNCHANGED <<generic, generics>>
    /\ UNCHANGED <<constVars, canvasOf, errors>>

(* load(box, fillMode, ...): without a thumbnail URL the box is marked    *)
(* generic and opt_onGeneric runs; otherwise the canvas is outdated and a *)
(* new Image becomes image_ and is fetched.  The "already loaded" check   *)
(* compares the src of the Image just created, which is empty, with       *)
(* thumbnailUrl_, so it never returns.                                     *)
Load ==
    /\ MayCall("load")
    /\ IF thumbnailUrl = "none"
         THEN /\ generic' = TRUE
              /\ generics' = generics + 1
              /\ UNCHANGED <<images, mainImage, canvasUpToDate>>
         ELSE /\ canvasUpToDate' = FALSE
              /\ images' = Append(images, NewImage(thumbnailUrl, "main"))
              /\ mainImage' = Len(images')
              /\ UNCHANGED <<generic, generics>>
    /\ UNCHANGED <<constVars, canvasOf, attached, successes, lastSuccess,
                   errors>>

(* A variant of loadDetachedImage that leaves canvasUpToDate_ alone.       *)
LoadDetachedImageKeepsCanvas ==
    /\ MayCall("detached")
    /\ IF thumbnailUrl = "none"
         THEN UNCHANGED <<images, mainImage>>
         ELSE /\ images' = Append(images, NewImage(thumbnailUrl, "detached"))
              /\ mainImage' = Len(images')
    /\ UNCHANGED <<constVars, canvasVars, attached, generic, successes,
                   lastSuccess, errors, generics>>

(* loadDetachedImage(callback): without a thumbnail URL callback(true) at *)
(* once; otherwise the canvas is outdated and a new Image becomes image_, *)
(* whose events call callback(true) or callback(false).  Nothing is       *)
(* attached.                                                               *)
LoadDetachedImage ==
    /\ MayCall("detached")
    /\ IF thumbnailUrl = "none"
         THEN UNCHANGED <<images, mainImage, canvasUpToDate>>
         ELSE /\ canvasUpToDate' = FALSE
              /\ images' = Append(images, NewImage(thumbnailUrl, "detached"))
              /\ mainImage' = Len(images')
    /\ UNCHANGED <<constVars, canvasOf, attached, generic, successes,
                   lastSuccess, errors, generics>>

(* attachImage(box) of the loader whose image_ is image k, with imgs the  *)
(* statuses of the images: an image_ without dimensions marks the box     *)
(* generic; IMAGE attaches the Image, CANVAS first copies it to canvas_   *)
(* unless canvasUpToDate_, then attaches the canvas.                       *)
AttachImage(k, imgs) ==
    IF k = 0 \/ imgs[k].status # "loaded"
      THEN generic' = TRUE /\ UNCHANGED <<attached, canvasVars>>
    ELSE IF loaderType = "IMAGE"
      THEN attached' = k /\ UNCHANGED <<generic, canvasVars>>
    ELSE /\ canvasOf' = IF canvasUpToDate THEN canvasOf ELSE k
         /\ canvasUpToDate' = TRUE
         /\ attached' = canvasOf'
         /\ UNCHANGED generic

(* The caller's attachImage(box), once the detached load has called       *)
(* callback(true): its image has loaded or there is no URL to load.        *)
AttachCall ==
    /\ lastCall = "detached"
    /\ thumbnailUrl # "none" => images[mainImage].status = "loaded"
    /\ MayCall("attach")
    /\ AttachImage(mainImage, images)
    /\ UNCHANGED <<constVars, images, mainImage, successes, lastSuccess,
                   errors, generics>>

(* The load event of image i.  The onload of load's images reads          *)
(* this.image_ when it runs, so it attaches and reports the current       *)
(* image_, which is image i only if the loader has not been called again. *)
(* A fallback loader is used once and has a canvas of its own, so it      *)
(* shows image i.  A detached image calls callback(true).                  *)
ImageLoaded(i) ==
    /\ images[i].status = "loading"
    /\ urlOk[images[i].url]
    /\ images' = [images EXCEPT ![i].status = "loaded"]
    /\ CASE images[i].owner = "main" ->
              /\ AttachImage(mainImage, images')
              /\ successes' = successes + 1
              /\ lastSuccess' = mainImage
         [] images[i].owner = "fallback" ->
              /\ attached' = i
              /\ successes' = successes + 1
              /\ lastSuccess' = i
              /\ UNCHANGED <<generic, canvasVars>>
         [] OTHER ->
              UNCHANGED <<attached, generic, canvasVars, successes, lastSuccess>>
    /\ UNCHANGED <<constVars, mainImage, errors, generics, loads, lastCall>>

(* A variant of onerror that ignores fallbackUrl_.                         *)
ImageFailedNoFallback(i) ==
    /\ images[i].status = "loading"
    /\ ~urlOk[images[i].url]
    /\ images' = [images EXCEPT ![i].status = "failed"]
    /\ errors' = IF images[i].owner = "main" THEN errors + 1 ELSE errors
    /\ generic' = (generic \/ images[i].owner # "detached")
    /\ UNCHANGED <<constVars, canvasVars, mainImage, attached, successes,
                   lastSuccess, generics, loads, lastCall>>

(* A variant of onerror whose fallback loader is constructed with the     *)
(* metadata, so that it has the same fallback URL again.                   *)
ImageFailedRetries(i) ==
    /\ images[i].status = "loading"
    /\ ~urlOk[images[i].url]
    /\ errors' = IF images[i].owner = "main" THEN errors + 1 ELSE errors
    /\ IF images[i].owner # "detached" /\ fallbackUrl # "none"
         THEN /\ images' = Append([images EXCEPT ![i].status = "failed"],
                                  NewImage(fallbackUrl, "fallback"))
              /\ UNCHANGED generic
         ELSE /\ images' = [images EXCEPT ![i].status = "failed"]
              /\ generic' = (generic \/ images[i].owner # "detached")
    /\ UNCHANGED <<constVars, canvasVars, mainImage, attached, successes,
                   lastSuccess, generics, loads, lastCall>>

(* The error event of image i.  Load's onerror calls opt_onError and,     *)
(* with a fallbackUrl_, constructs a loader for it without metadata and   *)
(* loads it into the same box with opt_onSuccess only; without one it     *)
(* marks the box generic.  The fallback loader has neither opt_onError    *)
(* nor a fallbackUrl_ of its own: it marks the box generic.  A detached   *)
(* image calls callback(false) and tries no fallback.                     *)
ImageFailed(i) ==
    /\ images[i].status = "loading"
    /\ ~urlOk[images[i].url]
    /\ IF images[i].owner = "main" /\ fallbackUrl # "none"
         THEN /\ images' = Append([images EXCEPT ![i].status = "failed"],
                                  NewImage(fallbackUrl, "fallback"))
              /\ UNCHANGED generic
         ELSE /\ images' = [images EXCEPT ![i].status = "failed"]
              /\ generic' = (generic \/ images[i].owner # "detached")
    /\ errors' = IF images[i].owner = "main" THEN errors + 1 ELSE errors
    /\ UNCHANGED <<constVars, canvasVars, mainImage, attached, successes,
                   lastSuccess, generics, loads, lastCall>>

(* The caller has made its calls and every fetch has ended.                *)
Finished ==
    /\ loads = MaxLoads
    /\ Settled
    /\ UNCHANGED vars

Next ==
    \/ Load
    \/ LoadDetachedImage
    \/ AttachCall
    \/ \E i \in DOMAIN images : ImageLoaded(i) \/ ImageFailed(i)
    \/ Finished

Spec == Init /\ [][Next]_vars

-----------------------------------------------------------------------------
(* The source resolution of spec.md section 4.1, as a reference: a size   *)
(* or a pair of dimensions counts when it is known.                        *)
SpecSafeToUse(md) ==
    \/ md.size # None /\ md.size <= MAX_FILE_SIZE
    \/ md.width # None /\ md.height # None
       /\ md.width * md.height <= MAX_PIXEL_COUNT

(* Step 2: the icon of the entry with an icon and primary that no earlier *)
(* entry precedes.                                                         *)
SpecFallback(apps) ==
    LET Candidate(i) == apps[i].docIcon /\ apps[i].isPrimary
        first == {i \in DOMAIN apps :
                    Candidate(i) /\ \A j \in 1..(i - 1) : ~Candidate(j)}
    IN  IF first = {} THEN "none" ELSE IconUrl(CHOOSE i \in first : TRUE)

SpecSource(md) ==
    IF md = None THEN [thumb |-> "file", fallback |-> "none", tr |-> "none"]
    ELSE LET fb == SpecFallback(md.driveApps) IN
         IF md.thumbnail
           THEN [thumb |-> "thumb", fallback |-> fb, tr |-> "thumbnail"]
         ELSE IF md.isImage /\ SpecSafeToUse(md)
           THEN [thumb |-> "file", fallback |-> fb, tr |-> "media"]
         ELSE IF fb # "none"
           THEN [thumb |-> fb, fallback |-> "none", tr |-> "none"]
         ELSE [thumb |-> "none", fallback |-> "none", tr |-> "none"]

(* The constructor resolves the thumbnail URL, the fallback URL and the   *)
(* transform by the priority order of the specification: embedded         *)
(* thumbnail, then the file itself when it is an image small enough, then *)
(* the first primary Drive app icon, then none; the icon stays a fallback *)
(* only behind one of the first two.                                       *)
SourceMatchesSpec ==
    [thumb |-> thumbnailUrl, fallback |-> fallbackUrl, tr |-> transform]
        = SpecSource(metadata)

(* opt_onSuccess is only ever given an image that has loaded, and it is   *)
(* the image attached to the box at that moment.                           *)
SuccessWithLoadedImage ==
    [][successes' # successes =>
         /\ images'[lastSuccess'].status = "loaded"
         /\ attached' = lastSuccess']_vars

(* The best thumbnail available: the primary URL if it loads, else the    *)
(* fallback URL if there is one and it loads, else none.                   *)
BestUrl ==
    IF thumbnailUrl = "none" THEN "none"
    ELSE IF urlOk[thumbnailUrl] THEN thumbnailUrl
    ELSE IF fallbackUrl # "none" /\ urlOk[fallbackUrl] THEN fallbackUrl
    ELSE "none"

(* Once the caller's last call was load and every fetch has ended, the    *)
(* box shows the best thumbnail available and is not marked generic, or   *)
(* is marked generic when no URL loads.                                    *)
SettledBoxShowsBest ==
    lastCall = "load" /\ Settled =>
        IF BestUrl = "none"
          THEN generic
          ELSE /\ attached # 0
               /\ images[attached].url = BestUrl
               /\ ~generic

(* Whenever canvasUpToDate_ is set, canvas_ holds the pixels of the       *)
(* loader's current image_, which has loaded: load and loadDetachedImage   *)
(* outdate the copy when they replace image_, so no attachImage, by onload *)
(* or by the caller, puts an earlier image on screen.                      *)
CanvasShowsImage ==
    canvasUpToDate =>
        /\ canvasOf = mainImage
        /\ images[canvasOf].status = "loaded"

(* Each load fetches at most twice, the primary URL and then at most one  *)
(* fallback: a failed fallback is not retried.                             *)
FetchesBounded == Len(images) <= 2 * loads

=============================================================================
