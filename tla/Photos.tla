-------------------------------- MODULE Photos --------------------------------
(***************************************************************************)
(* The photos on disk: the search for the media folder when the view is    *)
(* created, the files a capture writes, the thumbnail, and what a click on *)
(* it opens.  Other applications and the user share the folder and the     *)
(* clock: files vanish, and local time may be set back.  That they also    *)
(* add files whose names begin like a photo's is left out.  Restarts       *)
(* forget everything but the files.                                        *)
(*                                                                         *)
(* A file is named after the second of local time at which it was written, *)
(* with fixed-width fields from the year down, so names sort as the times  *)
(* do: a file is that second.                                              *)
(***************************************************************************)
EXTENDS Integers, FiniteSetsExt

CONSTANTS
  Folders,          \* names that folders in the media database may have
  MaxTime,          \* bound: last second
  Faults            \* the calls that may fail

Fault == {"connect", "foreach", "name", "path", "disconnect"}

CAMERA_DIRECTORY_NAME == "Images"

ASSUME PhotosAssumption ==
  /\ Folders \subseteq STRING
  /\ MaxTime \in Nat
  /\ Faults \subseteq Fault

VARIABLES
  app,              \* "off", "listing" (in _list_media_folders) or "running"
  todo,             \* folders the search has not seen
  listed,           \* "no", or whether _list_media_folders returned true
  folder,           \* media_content_folder, "NULL" if it was not found
  files,            \* the photos in the folder
  thumbnail,        \* the photo shown, or None, or NoImage
  opened,           \* the photo last sent to the viewer, or None
  clock,            \* local time in seconds
  folders,          \* the folders in the media database
  steady            \* the clock is never set back

searchVars == <<todo, listed, folder>>
world == <<folders, steady>>
vars == <<app, searchVars, files, thumbnail, opened, clock, world>>

Time == 0 .. MaxTime

None == -1          \* no view
NoImage == -2       \* the background for an empty folder

Oks(call) == IF call \in Faults THEN BOOLEAN ELSE {TRUE}

(* Mutant of FileName: a field that counts from one is not corrected.      *)
FileNameNext(t) == t + 1

(* _main_view_get_file_path: a file is named after the local time.         *)
FileName(t) == t

(* Mutant of LastFile: the first entry of the sorted directory.            *)
FirstFile == Min(files)

(* _main_view_get_last_file_path, when the folder has photos.              *)
LastFile == Max(files)

(* The strncmp and strlen of _folder_cb.                                   *)
IsCameraFolder(name) == name = CAMERA_DIRECTORY_NAME

(* Mutant of ThumbnailLoaded: the result is tested the wrong way round.    *)
ThumbnailSwapped ==
  IF folder' # "NULL" /\ files # {} THEN NoImage
  ELSE IF files # {} THEN LastFile ELSE NoImage

(* scandir finds nothing in a folder that is not known.                    *)
ThumbnailLoaded ==
  IF folder' # "NULL" /\ files # {} THEN LastFile ELSE NoImage

-------------------------------------------------------------------------------

Init ==
  /\ app = "off"
  /\ todo = {}
  /\ listed = "no"
  /\ folder = "NULL"
  /\ files = {}
  /\ thumbnail = None
  /\ opened = None
  /\ clock = 0
  /\ folders \in SUBSET Folders
  /\ steady \in BOOLEAN

(* _main_view_add calls _list_media_folders: connect, and start the loop.  *)
Create ==
  /\ app = "off"
  /\ app' = "listing"
  /\ todo' = folders
  /\ UNCHANGED <<listed, folder, files, thumbnail, opened, clock, world>>

(* _list_media_folders returns; _main_view_add goes on, whatever it        *)
(* returns, and loads the thumbnail.                                       *)
Return(result) ==
  /\ app' = "running"
  /\ todo' = {}
  /\ listed' = result
  /\ thumbnail' = ThumbnailLoaded
  /\ UNCHANGED <<files, opened, clock, world>>

(* The loop ends with the folders or because _folder_cb returned false;    *)
(* the disconnection may fail.                                             *)
LoopEnds == \E ok \in Oks("disconnect") : Return(IF ok THEN "ok" ELSE "failed")

(* The connection fails, or the loop fails before its first folder.        *)
ListFails ==
  /\ app = "listing" /\ todo = folders
  /\ FALSE \in Oks("connect") \cup Oks("foreach")
  /\ UNCHANGED folder
  /\ Return("failed")

NoMoreFolders ==
  /\ app = "listing" /\ todo = {}
  /\ UNCHANGED folder
  /\ LoopEnds

(* _folder_cb, for the folders in any order: another folder is passed by.  *)
OtherFolder ==
  /\ app = "listing"
  /\ \E name \in todo :
       /\ ~IsCameraFolder(name)
       /\ todo' = todo \ {name}
  /\ UNCHANGED <<app, listed, folder, files, thumbnail, opened, clock, world>>

(* The camera folder ends the search; its path may not be had.             *)
CameraFolder ==
  /\ app = "listing"
  /\ \E name \in todo, ok \in Oks("path") :
       /\ IsCameraFolder(name)
       /\ folder' = IF ok THEN name ELSE "NULL"
  /\ LoopEnds

(* A folder whose name cannot be read ends the search.                     *)
UnnamedFolder ==
  /\ app = "listing" /\ todo # {}
  /\ FALSE \in Oks("name")
  /\ UNCHANGED folder
  /\ LoopEnds

(* The capture of SelfCamera, where its Encode succeeds: the file is       *)
(* written, over an older one of the same second, and shown.  One that     *)
(* fails changes nothing here.                                             *)
TakePhoto ==
  /\ app = "running" /\ folder # "NULL"
  /\ files' = files \cup {FileName(clock)}
  /\ thumbnail' = FileName(clock)
  /\ UNCHANGED <<app, searchVars, opened, clock, world>>

(* _main_view_thumbnail_click_cb: opens the last photo, not the one shown. *)
(* A launch that fails changes nothing here.                               *)
ClickThumbnail ==
  /\ app = "running" /\ thumbnail # NoImage
  /\ folder # "NULL" /\ files # {}
  /\ opened' = LastFile
  /\ UNCHANGED <<app, searchVars, files, thumbnail, clock, world>>

Destroy ==
  /\ app = "running"
  /\ app' = "off"
  /\ folder' = "NULL"
  /\ listed' = "no"
  /\ thumbnail' = None
  /\ opened' = None
  /\ UNCHANGED <<todo, files, clock, world>>

(* The world outside.                                                      *)
DeletePhoto ==
  /\ \E f \in files : files' = files \ {f}
  /\ UNCHANGED <<app, searchVars, thumbnail, opened, clock, world>>

Tick ==
  /\ clock < MaxTime
  /\ clock' = clock + 1
  /\ UNCHANGED <<app, searchVars, files, thumbnail, opened, world>>

SetBack ==
  /\ ~steady
  /\ \E t \in 0 .. clock - 1 : clock' = t
  /\ UNCHANGED <<app, searchVars, files, thumbnail, opened, world>>

Next ==
  \/ Create \/ ListFails \/ NoMoreFolders \/ OtherFolder \/ CameraFolder
  \/ UnnamedFolder \/ TakePhoto \/ ClickThumbnail \/ Destroy
  \/ DeletePhoto \/ Tick \/ SetBack

Spec == Init /\ [][Next]_vars

-------------------------------------------------------------------------------
(* Properties.                                                             *)

(* Every variable has its type; in particular every photo is named after a *)
(* time at which it can have been taken.                                   *)
PhotosTypeOK ==
  /\ app \in {"off", "listing", "running"}
  /\ todo \subseteq folders
  /\ folders \subseteq Folders
  /\ listed \in {"no", "ok", "failed"}
  /\ folder \in Folders \cup {"NULL"}
  /\ files \subseteq Time
  /\ thumbnail \in Time \cup {None, NoImage}
  /\ opened \in Time \cup {None}
  /\ clock \in Time
  /\ steady \in BOOLEAN

(* While the clock only goes forward, a click opens the photo that the     *)
(* thumbnail shows, if it still exists, although the one comes from the    *)
(* last capture and the other from sorting the names in the folder.        *)
OpensWhatItShows ==
  [][opened' \in files /\ opened' # opened /\ steady /\ thumbnail \in files
       => opened' = thumbnail]_vars

(* The view never shows the empty background over a known folder that has  *)
(* photos, whatever was taken, deleted or left by an earlier run.          *)
BlankOnlyWithoutPhotos ==
  app = "running" /\ folder # "NULL" /\ thumbnail = NoImage => files = {}

(* "@return false in case of any problems, otherwise true" of              *)
(* _list_media_folders: after true a camera folder that exists is known.   *)
ListReported ==
  listed = "ok" /\ CAMERA_DIRECTORY_NAME \in folders => folder # "NULL"

===============================================================================
