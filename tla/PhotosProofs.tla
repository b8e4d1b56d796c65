----------------------------- MODULE PhotosProofs -----------------------------
(***************************************************************************)
(* Theorems about Photos: for any folders, any failing calls and any       *)
(* length of time.                                                         *)
(***************************************************************************)
EXTENDS Photos, WellFoundedInduction, TLAPS

-------------------------------------------------------------------------------
(* The last file of a folder that has photos is one of them and none is    *)
(* later.                                                                  *)

LEMMA MinimalIsLeast ==
  ASSUME NEW R, IsWellFoundedOn(R, Nat),
         \A x, y \in Nat : y < x => <<y, x>> \in R,
         NEW T \in SUBSET Nat, T # {}
  PROVE  \E x \in T : \A y \in T : x <= y
  <1>1. PICK x \in T : \A y \in T : <<y, x>> \notin R
    BY WFMin
  <1>2. ASSUME NEW y \in T PROVE x <= y
    <2>1. x \in Nat /\ y \in Nat /\ ~(y < x)
      BY <1>1
    <2> QED BY <2>1
  <1> QED BY <1>2

LEMMA LeastElement ==
  ASSUME NEW T \in SUBSET Nat, T # {}
  PROVE  \E x \in T : \A y \in T : x <= y
  <1>1. \A x, y \in Nat : y < x => <<y, x>> \in OpToRel(<, Nat)
    BY DEF OpToRel
  <1> QED BY <1>1, NatLessThanWellFounded, MinimalIsLeast

LEMMA LastIsLatest ==
  ASSUME PhotosTypeOK, files # {}
  PROVE  LastFile \in files /\ \A f \in files : f <= LastFile
  <1> DEFINE Before == {MaxTime - f : f \in files}
  <1>0. MaxTime \in Nat /\ files \subseteq 0 .. MaxTime
    BY PhotosAssumption DEF PhotosTypeOK, Time
  <1>1. Before \in SUBSET Nat
    BY <1>0
  <1>2. Before # {}
    OBVIOUS
  <1>3. PICK b \in Before : \A c \in Before : b <= c
    BY <1>1, <1>2, LeastElement
  <1>4. PICK s \in files : b = MaxTime - s
    BY <1>3
  <1>5. \A f \in files : s >= f
    BY <1>0, <1>3, <1>4
  <1> QED BY <1>0, <1>4, <1>5 DEF LastFile, Max

-------------------------------------------------------------------------------
(* The inductive invariant.  OpensWhatItShows needs that the thumbnail is  *)
(* the latest photo, which holds of the next one too only because no photo *)
(* lies in the future.                                                     *)

LatestShown ==
  steady => /\ \A f \in files : f <= clock
            /\ thumbnail \in files => \A f \in files : f <= thumbnail

PhotosInv ==
  /\ PhotosTypeOK
  /\ BlankOnlyWithoutPhotos
  /\ LatestShown

LEMMA PhotosInit == Init => PhotosInv
  BY PhotosAssumption
  DEF Init, PhotosInv, PhotosTypeOK, BlankOnlyWithoutPhotos,
      LatestShown, Time, None, NoImage

(* Whatever ended the search, the thumbnail is loaded.                     *)
LEMMA PhotosReturn ==
  ASSUME PhotosInv, NEW result \in {"ok", "failed"}, Return(result),
         folder' \in Folders \cup {"NULL"}
  PROVE  PhotosInv'
  <1> USE DEF PhotosInv
  <1>1. CASE folder' # "NULL" /\ files # {}
    <2>1. /\ thumbnail' = LastFile
          /\ LastFile \in files
          /\ \A f \in files : f <= LastFile
      BY <1>1, LastIsLatest DEF Return, ThumbnailLoaded
    <2>2. LastFile \in Time /\ LastFile # NoImage
      BY <2>1 DEF PhotosTypeOK, Time, NoImage
    <2>3. PhotosTypeOK'
      BY <2>1, <2>2 DEF Return, PhotosTypeOK, world
    <2>4. BlankOnlyWithoutPhotos'
      BY <2>1, <2>2 DEF BlankOnlyWithoutPhotos
    <2>5. LatestShown'
      BY <2>1 DEF Return, world, LatestShown
    <2> QED BY <2>3, <2>4, <2>5
  <1>2. CASE ~(folder' # "NULL" /\ files # {})
    <2>1. thumbnail' = NoImage /\ NoImage \notin files
      BY <1>2 DEF Return, ThumbnailLoaded, PhotosTypeOK, Time, NoImage
    <2>2. PhotosTypeOK'
      BY <2>1 DEF Return, PhotosTypeOK, world
    <2>3. BlankOnlyWithoutPhotos'
      BY <1>2 DEF Return, BlankOnlyWithoutPhotos
    <2>4. LatestShown'
      BY <2>1 DEF Return, world, LatestShown
    <2> QED BY <2>2, <2>3, <2>4
  <1> QED BY <1>1, <1>2

LEMMA PhotosNext == PhotosInv /\ [Next]_vars => PhotosInv'
  <1> SUFFICES ASSUME PhotosInv, [Next]_vars PROVE PhotosInv'
    OBVIOUS
  <1> USE DEF PhotosInv
  <1>1. CASE Create
    BY <1>1 DEF Create, world, PhotosTypeOK, BlankOnlyWithoutPhotos, LatestShown
  <1>2. CASE ListFails
    <2>1. Return("failed") /\ folder' = folder
      BY <1>2 DEF ListFails
    <2> QED BY <2>1, PhotosReturn DEF PhotosTypeOK
  <1>3. CASE NoMoreFolders
    <2>1. PICK result \in {"ok", "failed"} : Return(result)
      BY <1>3 DEF NoMoreFolders, LoopEnds
    <2>2. folder' = folder
      BY <1>3 DEF NoMoreFolders
    <2> QED BY <2>1, <2>2, PhotosReturn DEF PhotosTypeOK
  <1>4. CASE OtherFolder
    BY <1>4 DEF OtherFolder, world, PhotosTypeOK, BlankOnlyWithoutPhotos,
                LatestShown
  <1>5. CASE CameraFolder
    <2>1. PICK result \in {"ok", "failed"} : Return(result)
      BY <1>5 DEF CameraFolder, LoopEnds
    <2>2. PICK name \in todo : /\ IsCameraFolder(name)
                               /\ folder' \in {name, "NULL"}
      BY <1>5 DEF CameraFolder
    <2> QED BY <2>1, <2>2, PhotosReturn DEF PhotosTypeOK, IsCameraFolder
  <1>6. CASE UnnamedFolder
    <2>1. PICK result \in {"ok", "failed"} : Return(result)
      BY <1>6 DEF UnnamedFolder, LoopEnds
    <2>2. folder' = folder
      BY <1>6 DEF UnnamedFolder
    <2> QED BY <2>1, <2>2, PhotosReturn DEF PhotosTypeOK
  <1>7. CASE TakePhoto
    <2>1. clock \in Time /\ clock # NoImage
      BY DEF PhotosTypeOK, Time, NoImage
    <2>2. PhotosTypeOK'
      BY <1>7, <2>1 DEF TakePhoto, FileName, PhotosTypeOK, searchVars, world
    <2>3. BlankOnlyWithoutPhotos'
      BY <1>7, <2>1
      DEF TakePhoto, FileName, BlankOnlyWithoutPhotos, searchVars, world
    <2>4. LatestShown'
      BY <1>7, <2>1, PhotosAssumption DEF TakePhoto, world, FileName, LatestShown, Time
    <2> QED BY <2>2, <2>3, <2>4
  <1>8. CASE ClickThumbnail
    <2>1. LastFile \in Time
      BY <1>8, LastIsLatest DEF ClickThumbnail, PhotosTypeOK
    <2> QED BY <1>8, <2>1
            DEF ClickThumbnail, PhotosTypeOK, BlankOnlyWithoutPhotos,
                LatestShown, searchVars, world
  <1>9. CASE Destroy
    BY <1>9 DEF Destroy, world, PhotosTypeOK, BlankOnlyWithoutPhotos,
                LatestShown, None, Time
  <1>10. CASE DeletePhoto
    BY <1>10 DEF DeletePhoto, PhotosTypeOK, BlankOnlyWithoutPhotos,
                 LatestShown, searchVars, world
  <1>11. CASE Tick
    <2>1. \A f \in files : f \in Nat
      BY DEF PhotosTypeOK, Time
    <2> QED BY <1>11, <2>1, PhotosAssumption
            DEF Tick, PhotosTypeOK, BlankOnlyWithoutPhotos, LatestShown,
                searchVars, world, Time
  <1>12. CASE SetBack
    BY <1>12, PhotosAssumption
    DEF SetBack, PhotosTypeOK, BlankOnlyWithoutPhotos, LatestShown,
        searchVars, world, Time
  <1>13. CASE UNCHANGED vars
    BY <1>13 DEF vars, PhotosTypeOK, BlankOnlyWithoutPhotos, LatestShown,
                 searchVars, world
  <1> QED BY <1>1, <1>2, <1>3, <1>4, <1>5, <1>6, <1>7, <1>8, <1>9, <1>10, <1>11,
             <1>12, <1>13 DEF Next

LEMMA PhotosInvariant == Spec => []PhotosInv
  BY PhotosInit, PhotosNext, PTL DEF Spec

(* Every variable of Photos keeps its type.                                *)
THEOREM PhotosTypesCorrect == Spec => []PhotosTypeOK
  <1>1. PhotosInv => PhotosTypeOK
    BY DEF PhotosInv
  <1> QED BY <1>1, PhotosInvariant, PTL

(* The empty background never hides photos.                                *)
THEOREM BlankSafe == Spec => []BlankOnlyWithoutPhotos
  <1>1. PhotosInv => BlankOnlyWithoutPhotos
    BY DEF PhotosInv
  <1> QED BY <1>1, PhotosInvariant, PTL

(* While the clock only goes forward, the viewer gets the photo that the   *)
(* thumbnail shows.                                                        *)
THEOREM OpensSafe == Spec => OpensWhatItShows
  <1>1. ASSUME PhotosInv, Next, opened' # opened, opened' \in files, steady,
               thumbnail \in files
        PROVE  opened' = thumbnail
    <2>1. opened' # None
      BY <1>1 DEF PhotosInv, PhotosTypeOK, Time, None
    <2>2. CASE ClickThumbnail
      <3>1. /\ opened' = LastFile /\ LastFile \in files
            /\ thumbnail <= LastFile
        BY <1>1, <2>2, LastIsLatest DEF ClickThumbnail, PhotosInv
      <3>2. LastFile <= thumbnail
        BY <1>1, <3>1 DEF PhotosInv, LatestShown
      <3>3. LastFile \in Nat /\ thumbnail \in Nat
        BY <1>1, <3>1 DEF PhotosInv, PhotosTypeOK, Time
      <3> QED BY <3>1, <3>2, <3>3
    <2>3. CASE ~ClickThumbnail
      BY <1>1, <2>1, <2>3
      DEF Next, Create, ListFails, NoMoreFolders, OtherFolder, CameraFolder, UnnamedFolder,
          LoopEnds, Return, TakePhoto, Destroy, DeletePhoto, Tick, SetBack
    <2> QED BY <2>2, <2>3
  <1>2. PhotosInv /\ [Next]_vars
          => [opened' \in files /\ opened' # opened /\ steady /\ thumbnail \in files
                => opened' = thumbnail]_vars
    BY <1>1
  <1> QED BY <1>2, PhotosInvariant, PTL DEF Spec, OpensWhatItShows

-------------------------------------------------------------------------------
(* What _list_media_folders may say.                                       *)

(* Why true means that the folder was found: while it has not been, the    *)
(* camera folder is still to come, and no folder ends the search unseen.   *)
SearchInv ==
  /\ app = "listing" =>
       /\ folder = "NULL" /\ listed = "no"
       /\ CAMERA_DIRECTORY_NAME \in folders => CAMERA_DIRECTORY_NAME \in todo
  /\ app = "off" => folder = "NULL" /\ listed = "no"
  /\ ListReported

LEMMA SearchInit == Init => SearchInv
  BY DEF Init, SearchInv, ListReported

LEMMA SearchNext ==
  ASSUME "name" \notin Faults, "path" \notin Faults, PhotosTypeOK, SearchInv, [Next]_vars
  PROVE  SearchInv'
  <1> USE DEF SearchInv, ListReported
  <1>0. "NULL" # CAMERA_DIRECTORY_NAME
    BY DEF CAMERA_DIRECTORY_NAME
  <1>1. CASE Create
    BY <1>1 DEF Create, world
  <1>2. CASE ListFails
    BY <1>2 DEF ListFails, Return, world
  <1>3. CASE NoMoreFolders
    <2>1. CAMERA_DIRECTORY_NAME \notin folders
      BY <1>3 DEF NoMoreFolders
    <2> QED BY <1>3, <2>1 DEF NoMoreFolders, LoopEnds, Return, world
  <1>4. CASE OtherFolder
    BY <1>4 DEF OtherFolder, IsCameraFolder, world
  <1>5. CASE CameraFolder
    <2>1. folder' = CAMERA_DIRECTORY_NAME
      BY <1>5 DEF CameraFolder, IsCameraFolder, Oks
    <2> QED BY <1>0, <1>5, <2>1 DEF CameraFolder, LoopEnds, Return
  <1>6. CASE UnnamedFolder
    BY <1>6 DEF UnnamedFolder, Oks
  <1>7. CASE Destroy
    BY <1>7 DEF Destroy
  <1>8. CASE TakePhoto \/ ClickThumbnail \/ DeletePhoto \/ Tick \/ SetBack
    BY <1>8 DEF TakePhoto, ClickThumbnail, DeletePhoto, Tick, SetBack, searchVars, world
  <1>9. CASE UNCHANGED vars
    BY <1>9 DEF vars, searchVars, world
  <1> QED BY <1>1, <1>2, <1>3, <1>4, <1>5, <1>6, <1>7, <1>8, <1>9 DEF Next

(* "True otherwise" of _list_media_folders is kept but for two calls: if   *)
(* the names of folders and the path of the camera's can be read, then     *)
(* after true a camera folder that exists is known, in whatever order the  *)
(* folders come and whatever connecting, searching and disconnecting do.   *)
THEOREM ListSafe ==
  "name" \notin Faults /\ "path" \notin Faults => (Spec => []ListReported)
  <1> SUFFICES ASSUME "name" \notin Faults, "path" \notin Faults
               PROVE  Spec => []ListReported
    OBVIOUS
  <1>1. PhotosTypeOK /\ SearchInv /\ [Next]_vars => SearchInv'
    BY SearchNext
  <1>2. SearchInv => ListReported
    BY DEF SearchInv
  <1> QED BY <1>1, <1>2, SearchInit, PhotosTypesCorrect, PTL DEF Spec

===============================================================================
