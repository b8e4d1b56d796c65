# SelfCamera in TLA+

SelfCamera is a camera application for Tizen (C++ on the EFL toolkit). It shows
the camera preview, recolours it with filters, draws stickers on the faces it
detects, follows gestures of the face, and takes photos. This directory holds
TLA+ modules that model the application, the TLC configurations that check
them, and proofs checked with TLAPS. Line numbers refer to
`SelfCamera/src/view.cpp` unless another file is named.

## Inventory

Everything the application knows is in one static struct, `s_info` (57-79),
without locks. What runs:

- the **main loop** of EFL: application callbacks, buttons, `enable_sticker`;
- the **loader**, an Ecore thread started by `view_create`;
- the **camera's callbacks**: a preview frame, a face detection result. The
  repository does not say in which thread the camera runs them. Both answers
  are modelled: the main loop's in `SelfCamera`, a thread of the camera's own in
  `CameraThreads`.

| component | state | operations | modelled in |
| --- | --- | --- | --- |
| Application life cycle (`main.cpp`, 117-163, 362-366) | what the framework called last | create, resume, pause, terminate | `SelfCamera`, `CameraThreads` |
| Camera control (219-293, 437-472) | `camera`, `camera_enabled` | `view_pause`, `view_resume`, `_main_view_init_camera`, `_main_view_destroy_cb` | `SelfCamera`, `CameraThreads`, `CameraDevice` |
| Shape predictor loader (89-106) | global `sp`, `fin` | `load_shape_predictor`, `enable_sticker` | `SelfCamera`, `CameraThreads` |
| Buttons (729-736, 1016-1097) | `filter`, `sticker`, `motion`, `flag_facerunning`, `flag_capturing` | shutter, effect, sticker, motion | `SelfCamera`, `CameraThreads`, `CameraApp` |
| Preview callbacks and landmarks (812-1014) | `faces`, `timer`, `nose` | `_sticker_preview_callback`, `_filter_preview_callback`, `_camera_face_detected_cb`, `face_landmark` | `SelfCamera`, `CameraThreads` |
| Photo capture (684-720) | `flag_capturing`, the preview | `_main_view_mycapture_cb` | `SelfCamera`, `CameraThreads`, `CaptureSession` |
| Photo files and thumbnail (475-514, 571-682) | files of the media folder, the thumbnail | file name, last file, thumbnail, click | `Photos` |
| Media folder discovery (746-810) | `media_content_folder` | `_list_media_folders`, `_folder_cb` | `Photos` |
| Layout programs (`res/edc/main.edc`) | states of the parts, Edje's queue | touches become the signals the buttons handle | `Layout`, `CameraApp` |
| Chroma filters (948-1003) | the chroma plane of a frame | `apply_filter` with the factors of each filter | when it runs: `SelfCamera`; arithmetic: no |
| Sticker images and blitting (`imageutils.cpp`) | the decoded stickers | `_image_util_yuvcpy`, `_image_util_santacpy` | `Pixels` |
| Sticker placement (`landmark.cpp`, 829-840) | none | anchors from landmarks, `draw_landmark` | `Pixels` |
| Windows, navigation, popup; dlib | of libraries | | not modelled |

### How they interact

- A button never takes a photo. The shutter sets `flag_capturing`; the preview
  callback that runs next consumes it, **stops the very preview that called
  it**, encodes the frame, and restarts the preview (`view_pause` ...
  `view_resume`).
- `view_resume` restarts detection from `flag_facerunning` and chooses between
  the two preview callbacks from `sticker`. The sticker button, the effect
  button and the gesture each change part of that state, and each calls the
  camera for part of what changed.
- `face_landmark` takes the number of faces from a copy of the list and the
  rectangles from the list itself.
- A touch is not a call. Edje turns it into mouse signals, their programs set
  the states of parts and emit the application's signals, and all of them wait
  in one queue until the main loop is free. The sticker button signals twice for
  one tap; the switch of `face_landmark` draws for the even numbers below
  `MAX_STICKER` only, while a gesture may stop at `MAX_STICKER` itself.
- The predictor sees the frame turned by a quarter. `landmark.cpp` turns its
  points back, `imageutils.cpp` copies a sticker around each, a capture then
  exchanges the bytes of every chroma pair before it encodes the frame.
- The loader tells the main loop that it is done by a synchronous call; until
  then the sticker button returns early. That flag (`fin`) is the only thing
  between a preview callback and a half-loaded predictor.

### What is hard here

Four places register or remove the preview callback, three switch detection
off, two stop the preview, and all use one flag each to remember it. Taking a
photo is a pause and a resume inside a frame, next to the pauses and resumes of
the framework. Every camera call may fail, and the code logs that or ignores it
and goes on: a flag then says one thing and the device another. `PROJECT.json`
lists each hazard at its line with the properties that watch it.

### What makes each component correct

- Life cycle and camera control: an application that is paused does not
  preview, if the preview can be stopped; one in front previews between frames;
  the preview has a callback.
- Loader: the predictor is evaluated only when loaded; stickers are enabled in
  the end.
- Buttons and gestures: taps end on a sticker that is drawn or on none; the
  device detects faces exactly while the flag says so; the registered callback
  and the hardware effect fit the sticker and the filter.
- Landmarks: the index stays within the list of faces.
- Capture: one photo per request, of a running preview that stands still
  meanwhile; nothing restarts it; every request is served and every photo ends.
- Photo files: a click on the thumbnail opens the photo it shows; the empty
  background never hides photos.
- Media folder: the search says so when it could not find the camera folder.
- Layout: one touch of a button is one change of what it controls (for the
  sticker: one change to a number that is drawn); the menu opens and closes as a
  whole; no button stays pressed.
- Blitting, placement: every index stays in its plane; a sticker lies on its
  landmark, covers what it should and nothing else; a pixel and its chroma come
  from the same place of the sticker, also in the photo.

## Modules

**`CameraDevice`** — the external camera as a record: state, registered
callback, face detection on or off, hardware effect. One operator per call that
`view.cpp` makes, each with its outcome: any of them may fail, the calls that stop
something included. A call in the wrong state, or one that fails, changes nothing.
`StateRead` is what a caller of `camera_get_state` finds that does not look at the
result: after an error, whatever its local variable held before. This module is
external: the library is not in the repository.

**`SelfCamera`** — the core. Variables carry the names of the `s_info` fields.
`faces` is the length of the list; `nose` says whether both stored coordinates
are non-zero. `lifecycle` stands for the framework, `loader` for the Ecore
thread, `pc`, `idx`, `count` for the preview callback in progress.

| in the model | in the code |
| --- | --- |
| `AppCreate` (with `InitCamera`) | `view_create`, `_main_view_add`, `_main_view_init_camera` |
| `AppResume`, `AppPause`, `AppTerminate` | `app_resume`, `app_pause`, the window's deletion down to `_main_view_destroy_cb` |
| `Paused`, `Resumed` | `view_pause`, `view_resume` |
| `LoadModel`, `LoadModelFails`, `EnableSticker` | `load_shape_predictor`, dlib's uncaught exception, `enable_sticker` |
| `ShutterButton`, `EffectButton`, `StickerButton`, `MotionButton` | the `_main_view_*_button_cb` |
| `FaceDetected` | `_camera_face_detected_cb` |
| `StickerFrame`, `PlainStickerFrame` | `_sticker_preview_callback` up to the loop; the second where no sticker is placed |
| `PlaceSticker`, `NoseGesture`, `BoundSticker`, `FollowFace` | a round of the loop of `face_landmark`, split where it reads `sticker` again |
| `FilterFrame`, `ApplyFilter` | `_filter_preview_callback`, `apply_filter` |
| `TakeRequest`, `Encode`, `RestartPreview`, `EndFrame` | `_main_view_mycapture_cb` and the test of `flag_capturing` that leads to it |

Granularity: a handler of the main loop is one step; so are `view_pause` and
`view_resume`, also inside a capture. A preview callback is one step per point
at which it reads shared state again; no handler of the main loop runs between
these steps, only the loader does.

What the environment may do: any frame at any time while the preview runs; any
number of faces up to `MaxFaces`; any gesture; any life-cycle callback in the
order the framework allows; the calls in `Faults` fail or succeed each time
independently (the two starts of one `view_resume` share an outcome, and so do
its two stops: a preview runs in the end or does not). A button's handler runs
whenever the application exists and its main loop is free (`Touchable`), in front
or not: a touch made in front may be handled after a pause.

**`CameraThreads`** — the same handlers if the camera calls back in a thread of its
own. Two threads, `main` and `camera`, and the loader; `at` says at which call or
shared field each stands, and **a step is one call of the camera or one access of
a shared field**: `view_resume` tests `flag_facerunning` in one step and starts
detection in another, the sticker button increments the number in one and wraps
it in another, so whatever one thread can do to the other between two lines it
does here. `ViewPause` and `ViewResume` take the thread as a parameter, for
`view_pause` and `view_resume` run in both. What threads do not change is left to
`SelfCamera`: filters and effects, failures of `camera_create` and
`camera_get_state`, gesture timing. The sticker's number is abstracted to whether
it is zero, and whether a step goes past its end is open.

**`CaptureSession`** — what taking a photo means, without frames, faces or
callbacks: `Request`, `Shoot`, `Finish`, and the framework's `Suspend` and
`Resume`, which may not come while a photo is being written. `SelfCamera`
instantiates it (`Session`) with `preview <- cam.state = "PREVIEW"`, `pending <-
flag_capturing`, `shooting <- pc \in {"encode", "resume"}`. What it allows to go
wrong it allows for two kinds of failing calls only. `Stops`: stopping the preview
and reading its state do not fail, so that `Shoot` and `Suspend` leave no preview
running. `Starts`: creating and starting the camera, setting its display, reading
its state, encoding and loading the model do not fail, so that `Finish` and
`Resume` leave one running and the process does not end. A face detection, an
effect or a callback that cannot be set up is no excuse for a photo.

**`MCSelfCamera`** — the constants of the runs.

**`SelfCameraProofs`, `DeviceProofs`, `ThreadsProofs`, `PhotosProofs`,
`CameraAppProofs`, `TapProofs`, `ShowProofs`, `PixelsProofs`** — theorems; see below.

**`Photos`** — the files. The search for the media folder goes folder by
folder, in any order, with every error path of `_list_media_folders` and
`_folder_cb`; `Return` is the rest of `_main_view_add` after it, down to the
thumbnail. A file is the second of local time it is named after: the fixed-width
fields of the name sort as the times do, so `alphasort` takes the latest.
`TakePhoto` is the end of a capture whose `Encode` succeeds in `SelfCamera`;
`Destroy` forgets everything but the files. Outside the application, files
vanish and local time advances or is set back (`steady` says that it never is).
The modules share no variable: to `SelfCamera` a folder that was not found is
one of the failures of `Encode`. `MCPhotos` gives the constants.

**`Layout`** — the five buttons of `main.edc`. `parts` holds the state of each
part, `queue` the signals that wait. A program is a record: the mouse signal it
answers, the states its filter admits, the states it sets, what it emits
(`MotionPrograms`, `EffectPrograms`, `FacePrograms`, `ModePrograms`,
`ShutterPrograms`, in the order of the file). `Press` and `Release` are the
finger, which may leave a part before it is lifted; `RunPrograms` takes the next
mouse signal from the queue, `Notify` the next one that `view.cpp` handles.
Edje is not in the repository. Four facts are taken from how `main.edc` uses it:
signals queue up and the main loop empties the queue at one go; a release emits
"up" before "clicked"; the filter of a program is looked up in the states that
the parts have when the signal is taken from the queue, before any of its
programs runs (otherwise `clicked_mode2` would undo `clicked_mode` at once, and
`up_motion2` `up_motion`); a part is hit by what is shown at the time of the
press. `owed`, `batched` and `strayed` are history variables for the properties.

**`CameraApp`** — `SelfCamera` and `Layout` together. Each application signal is
taken from the queue by the step of its handler (`HandleEffect`, ...), the early
returns of the sticker and shutter handlers included; the life cycle, the
camera's callbacks and the loader go on as before, but not while the main loop
empties the queue. Closing the window takes the layout along. `MCCameraApp`
gives the constants.

**`StickerShow`** — what taps and gestures mean to the user, without signals,
queues, frames, faces or callbacks. `Pictures` are the numbers that the switch of
`face_landmark` draws; `Tap` is one step among them and none; `Gesture` the next
even number, which after the last picture is `MAX_STICKER`, a number without a
picture, and after that none; `Recolour` is the
effect button, which ends the search for faces; `Retry` the second signal of a
tap when detection could not start at the first. `CameraApp` instantiates it
(`Show`). The sticker in effect, `ChosenSticker`, is the even number that
`sticker` is or will be once the tap being handled is done, and 0 for a gesture
past the last: so the first signal of a tap is the step and the second, when all
goes well, a stutter; a gesture's addition is the step and the test after it a
stutter. A press that ends off the button (`Stray`) is half a tap; nothing is
promised after one.

**`Pixels`** — one landmark, one sticker or dot, one frame, byte by byte.
`CopyPixel` and `SkipPixel` are a round of the loop that `_image_util_yuvcpy` and
`_image_util_santacpy` share: every `continue` and the last test are conjuncts of
`Painted`. `DrawDot` and `SkipDot` are a round of `draw_landmark`, `Turned` is
the quarter turn of `face_landmark`, `Capture` the exchange of chroma bytes. A
byte is represented by its origin: the frame, a dot, or an index of the
sticker's data, so that a property can say where it came from. The landmark lies
anywhere within `Reach` of the image: that stands for all the anchors that
`draw_santa`, `draw_nyan` and `draw_rudolph` compute, some from sums and
differences of landmarks. Every call draws over the frame independently, so one
is enough. `MCPixels` gives the constants.

An operator with the comment "Mutant of X" is a plausible mistake in X. No
behaviour uses it: replacing the body of X by it makes the property named in
`PROJECT.json` fail, which shows that the property can fail.

## Runs

| run | callbacks in | failing calls | checks |
| --- | --- | --- | --- |
| `serial` | main loop | none | the state properties of the whole core, with the source's 10 sticker steps and 14 filters |
| `faults` | main loop | all but stopping detection and registering a callback | the predictor is loaded, detection is never forgotten, the preview has a callback, photos as `CaptureSession` allows |
| `sure_stops` | main loop | all but stopping the preview and reading its state | a paused application does not preview, the preview stands still during a photo |
| `live` | main loop | none | requests served, photos end, stickers enabled |
| `own_thread` | own thread | stopping preview or detection, starting detection, unsetting a callback, the model | what does not depend on the main loop's order: predictor, callback present, preview restored, requests served |
| `start_fails` | main loop | `camera_start_preview` | violated: see findings |
| `pause_during_capture` | own thread | none | violated: see findings |
| `faces_shrink` | own thread | none | violated: see findings |
| `photos` | — | media database | the click opens what the thumbnail shows, the empty background |
| `folder_lost` | — | reading a folder's name | violated: see findings |
| `taps` | main loop | `camera_create` | the application under the user's finger: menu, pressed buttons, one change per touch, stickers that follow taps and gestures as `StickerShow` says |
| `pixels` | — | — | where the bytes of a sticker, a dot and a photo land and come from |

Why the failing calls differ: a property is checked with every call failing but
those without which the code plainly cannot keep it. When stopping detection
fails (863, 1023, 1075) the flag is cleared all the same; when stopping the
preview fails (230), or `camera_get_state` does, a paused application goes on
previewing; when registering a callback fails (284-290, 1028, 1067) there is none.
The code ignores or logs these and has no answer to them. In `faults` a stop may
fail, and `SessionSafe` then says only what the other calls still give; in
`sure_stops` it may not, and `SessionSafe` says that the preview stands still.

Every run of the core is finite without constraints; TLC explores it all.
`CHECK_DEADLOCK FALSE` because a terminated or aborted application has no
further step; `pixels` ends with the photo.

What `taps` shows, beyond a single touch: the two signals of a sticker tap may
straddle the end of the loader's work, a pause, a gesture or a capture, and
still every quiet state has the number of a picture, none, or the `MAX_STICKER`
of a gesture (`StickerDrawn`), and no detection for sticker 0
(`NoIdleDetection`); only a press on the sticker part
that is released off it (one signal) breaks both, and is excepted by `strayed`.
`ShowSafe` says more than each quiet state: every step the user sees is a step
of `StickerShow`. Two things follow that the code does not say anywhere
(`StickersSound`). Taps never reach `MAX_STICKER`: they go round modulo it, so
from `MAX_STICKER - 2` to 0, while the test of a gesture is `>` and lets
`MAX_STICKER` itself pass. The switch has no case for it: faces are looked for and
nothing is drawn, until another gesture ends it or a tap leads to sticker 2. And no
tap and no gesture moves a sticker before the predictor is loaded.
Presses that come while others wait are where the layout is weakest: a menu
button can be hit although the press that closes the menu waits before it. Its
programs then run on a hidden part; `effect` and `face` come back alone and
`motion` ignores its touch. `MenuConsistent` excepts this (`batched`), so it does
not catch it; `OneChangePerTouch` excepts the touch of `motion`.

What `own_thread` shows, and does not: with the two threads interleaved line by
line no frame meets a half-loaded predictor, no running preview is left without a
callback, an application in front previews whenever both threads are done, and
no request is lost. `PauseStopsPreview` and `FacesInBounds` fail (see findings).
Flag and device need not agree: the effect button clears `flag_facerunning`
between the test at 279 and the start at 280 of a capture's `view_resume`, and
detection runs behind a cleared flag until the next pause. So
`DetectionFollowsFlag` and `DetectionNeverForgotten` are stated, checked and
proved for the main loop only.

What `pixels` shows: one test of two indices, after the skips, is enough to keep
a sticker's copy inside both planes wherever the landmark lies
(`CopyInPlanes`), but not to keep it inside its columns: past the right edge it
wraps into the next row (`RowsBounded` bounds the damage; `PlacedExactly` needs
the sticker to end before that edge). `draw_landmark` can write the byte after
the luma plane, which in the model is a cell of its own; `DotNearPlane` says
from which landmarks.

### Bounds

- `MaxFaces = 2`, also in `CameraThreads`: one face with gestures, one without,
  and a list that can shrink under the loop. Faces beyond the second behave as the
  second.
- `TIMER = 1` for 8: the timer only distinguishes "at its reload value" from
  "not", and counts down in between.
- `MAX_STICKER = 4`, `MAX_FILTER = 6` in the runs other than `serial`: the
  sticker switch distinguishes 0 from the rest and the bound, and 6 filters keep
  all four hardware values, one software filter, and the last number that no
  case handles. `serial` uses the source's 10 and 14.
- `MaxTime = 4` in `photos`: five seconds hold a photo before, at and after
  any clock change, with a deletion and a restart between. Three folders: the
  camera folder, one whose name it prefixes, and another.
- `taps`: `MAX_STICKER = 4`, `MAX_FILTER = 2` (no filter and another, which is what
  the motion button tells apart), one face, no timer, frames of the right format only. `MaxQueue = 2`: a press may be
  added to two waiting signals, those of a release, and at most one such press
  until the menu is whole again; two touches in a row at the mode button and a
  menu button, in either order, are what can disturb the menu.
- `pixels`: a frame of 8 by 6 and a sticker of 4 by 4, so that a sticker fits
  in, or hangs over every edge and two corners; `Reach = 4` puts it outside
  altogether. Five paintings: plain dark, middle and bright, an outline, and all
  three kinds of pixels in one pair of columns.
- `CameraThreads` has no other bound: each thread runs one handler at a time.
- What is proved holds for every value of these constants.

### Fairness

`FairSpec` of `SelfCamera` assumes weak fairness of the preview callback (a
camera that previews keeps delivering frames, and a callback that has begun runs
on), weak fairness of the loader's work, and strong fairness of `EnableSticker`:
that call is possible only between frames, and a main loop that serves its queue
gets to it. Nothing is assumed of user or framework: `RequestServed` lets the
application leave the front, and `StickersEnabled` lets it be closed.

`FairSpec` of `CameraThreads` assumes weak fairness of a main-loop handler that
has begun (it runs on; none need begin) and strong fairness of the preview
callback: a button takes the callback away for a moment and sets it again, and a
camera that previews again and again delivers a frame in between.

## Findings

1. **`start_fails`.** `view_resume` logs a failed `camera_start_preview` and
   returns true; `_main_view_init_camera` passes that on. The camera counts as
   initialised and shows nothing. The doc of `_main_view_init_camera` promises
   `EINA_FALSE` on error (433-436). `InitHonest` proves that this call is the
   only one to blame for a dark camera that counts as initialised, with any other
   calls failing.
2. **`pause_during_capture`** (callbacks in their own thread). `app_pause` comes
   while a frame is worked on whose capture has not yet run its `view_resume`. The
   pause of the application and that of the capture find one preview to stop
   between them; the capture's `view_resume` then starts it in a paused
   application, since nothing records that it is paused, and it runs until the
   application comes back.
3. **`faces_shrink`** (callbacks in their own thread). The list of faces is
   cleared or replaced while `face_landmark` indexes it with the length of an
   earlier copy.

2 and 3 depend on where the camera runs its callbacks. In the main loop neither
can happen, which `serial` and `sure_stops` check and `PauseSafe` and `FacesSafe`
prove. The
copy made at 902 suggests that its author did not count on it.

4. **`folder_lost`.** When the name of a folder cannot be read (or the path of
   the camera folder), `_folder_cb` ends the loop the way it does on success.
   `_list_media_folders` returns true although its doc promises "false in case
   of any problems" (781), `media_content_folder` stays NULL, and no capture can
   write its file: with the early return at 714 the preview then stays dark after each.
   `ListSafe` proves that these two calls are the only ones: the failures of
   connecting, of the search itself and of disconnecting do not matter.

## Proofs

From `ConstantsAssumption` (as weak as the code allows: at least two stickers
and two filters; any timer, any number of faces, any subset of failing calls)
and nothing else, unless a theorem names a condition. A condition on `Faults`
names the calls that the theorem needs to succeed; **every other call may fail**,
each time it is made. All but `ThreadsProofs` is about callbacks in the main loop.

`SelfCameraProofs`:

- `TypesCorrect` — `[]TypeOK`. One lemma per action.
- `PredictorSafe` — `[]PredictorLoaded`. Not inductive: the frame that enters
  the face loop tests detection and faces, not the loader. `LoadedInv` adds the
  chain from the loader to the loop: the loop runs, and the flag that admits a frame to it is set, only
  once `fin = 1`, and `fin = 1` only once the loader is through.
- `DetectionSafe` — `[]DetectionNeverForgotten`, if stopping detection does not
  fail. `DetectionInv` adds that detection ends before the preview does: that is
  why clearing the flag with a stopped preview is harmless, also when
  `camera_get_state` fails and the effect button guesses.

`DeviceProofs`:

- `PauseSafe` — `[]PauseStopsPreview`, if stopping the preview and reading its
  state do not fail; `FacesSafe` — `[]FacesInBounds`, without a condition.
  `SerialInv` says what is true in the middle of a callback: the application is
  not paused, the count does not exceed the faces, the preview is off between the
  pause and the resume of a capture if it can be stopped.
- `PreviewSafe` — `[]PreviewRestored`, if creating and starting the camera,
  setting its display, reading its state and encoding do not fail (`ReliableInv`);
  stopping it, detection, callbacks, effects and the predictor may.
- `InitHonest` — the action property `InitReported`, if `camera_start_preview`
  does not fail.
- `SessionImplemented` — `SessionSafe`: initial states map to initial states
  and every step to a step of `CaptureSession` or a stutter. No condition: `Starts`
  and `Stops` of the abstract specification are what the set of failing calls
  makes of them.
- `PhotoStill` — the camera of a photo being written is in use and, under the
  condition of `PauseSafe`, does not preview: `Still`, proved of the few steps of
  `CaptureSession` and carried over by the refinement.
- `CallbackSafe` — `[]PreviewHasCallback`, if registering a callback does not
  fail. Inductive as it stands.
- `FollowsSafe` — `[]DetectionFollowsFlag`, if detection starts and stops and the
  preview stops: every way to clear the flag reaches the device or finds no
  preview.
- `ServedSafe` — `[]StickerServed`, if registering a callback does not fail.
  `SearchInv` adds that the sticker callback stays registered while a frame is
  searched for landmarks: a gesture may step on from there.
- `EffectSafe` — `[]EffectShown`, if setting an effect does not fail. `EffectInv`
  adds that the filter is 0 before the camera starts and that a frame being treated
  has a software filter.

`ThreadsProofs`, for two threads that interleave at every call and field, from
`ThreadsAssumption` (any number of faces, any failing calls):

- `ThreadsTypesCorrect` — `[]ThreadsTypeOK`: each thread stays within its own
  labels. The steps are instances of four forms (`Test`, `Call`, `SetSticker`,
  `SetRunning`), and one lemma per form (`TestType`, `CallType`, `StoreType`, and
  the like in each part) does for all of them.
- `ThreadsPredictorSafe` — `[]PredictorLoaded`. `LoadedInv` follows `fin` through
  the sticker button, standing at any of its steps, to the flag and from there to
  the frame that has tested it.
- `ThreadsCallbackSafe` — `[]PreviewHasCallback`, if registering a callback does
  not fail: a preview without one has a thread that stands between unsetting and
  setting it (`Rewiring`). Inductive as it stands, for no other thread's step can
  take the last callback away without standing there itself.
- `ThreadsPreviewSafe` — `[]PreviewRestored`, if starting the preview and encoding
  do not fail. `RestoredInv`: when an application in front does not preview, one
  of the threads stands where it will start the preview (`Restarting`).

`PhotosProofs`, for any folders, failing calls and length of time, from
`PhotosAssumption`:

- `PhotosTypesCorrect`, `BlankSafe`.
- `OpensSafe` — the action property `OpensWhatItShows`. `LatestShown` adds that
  with a steady clock no photo lies in the future: without it the next photo
  need not be the last in the folder. That a folder with photos has a last one
  (`LastIsLatest`) comes from the well-foundedness of the naturals.
- `ListSafe` — `[]ListReported`, if the names of folders and the path of the
  camera's can be read, whatever else fails. The strengthening: until the search
  returns true, the camera folder is known or still among the folders to come.

`CameraAppProofs`, for any length of the queue and any interleaving of touches:

- `AppImplementsCamera` — `AppSpec => Spec` of `SelfCamera`: the layout only
  restricts when handlers run, so every theorem about the core holds of the
  application.
- `LayoutTypesCorrect`, `StuckSafe` — `StuckSafe` needs to know what waits: a
  pressed button is under the finger or has its release in the queue after its
  press.
- `MenuSafe` — as long as no press joins waiting signals, all of them are of one
  part (`MenuInv`), the one under the finger if there is one, and that part is
  shown.

`TapProofs`, which follows signals through a queue of any length, from
`StickerAssumption` (an even number of stickers) besides:

- `StickerSettles` — `[]StickerDrawn`, any failing calls. `PairInv`: the sticker
  signals of taps wait in pairs, side by side, since the programs of a release and of its click run in one go and the signals
  they emit join behind all mouse signals (`OrderInv`, `WholeInv`); between the
  two handlers of a pair the sticker is odd, otherwise even, and `RangeInv` bounds
  it. Gestures, which step
  by two, never come between, and the loader's `fin` neither.
- `DetectionSettles` — `[]NoIdleDetection`, if detection can be started: the
  first handler of a pair finds detection on or starts it (or finds no preview),
  so the second never starts it on the step to 0.
- `TouchesSettle` — `[]OneChangePerTouch`. `OwedInv` counts: what
  is owed for a part is the number of its signals under way that stand for a
  change. For the effect button, where release and click have a program each, it
  needs `EffectReady`: when the release is handled the part looks pressed, and
  right after it is visible, so exactly one of the two programs answers, also
  for touches that pile up and for a menu that closes in between.

`ShowProofs`, where all of the above but `ThreadsProofs` meets, from
`StickerAssumption` besides:

- `ShowImplemented` — `AppSpec => Show!Spec`, any failing calls; `Reliable` of
  `StickerShow` (starting detection and reading the state do not fail) says what
  they take away. Its invariant is that of the
  pairs of signals (`PairInv`), of the core (`SerialInv`, `ReliableInv`,
  `LoadedInv`) and of detection, and two more. `GestureInv`: a gesture is looked
  for only while detection is on, since with callbacks in the main loop nothing
  ends it between the frame's test and the first face. `UsableInv`: detection is
  on only over a camera that exists, so that the effect button can ask for its
  state and ends detection when there is a preview. The steps are taken one by one
  (`FirstSignal`, `SecondSignal`, `NoseShow`, `BoundShow`, `EffectShow`,
  `StrayedSteps`); the arithmetic of going round is in `Wrapped` and `Rounds`.
- `StickersSound` — `ShowSound` and `BlankByGesture`, proved of `StickerShow` and
  carried over: the number in effect is 0, a picture or `MAX_STICKER`, and 0 before
  the predictor is loaded; only a gesture leads to `MAX_STICKER`.
- `TouchedSafe` — the refinement of `CaptureSession`, `FacesInBounds` and
  `PredictorLoaded` for any failing calls, and four more invariants of the core,
  each under the condition of its theorem, of the application as it is touched, by
  `AppImplementsCamera`.

`PixelsProofs`, from `PixelsAssumption` (even sizes of the frame and of the
sticker, a frame not narrower than a dot):

- `PixelTypesCorrect`, `CopySafe`, `DotSafe`, `RowsSafe`, `LandmarkSafe` — with
  lemmas about quotients and remainders of the row and column of an index.
- `PlacementExact` — `LoopInv`: after `k` rounds the planes are what the first
  `k` pixels of the sticker make of them (`PaintedSoFar`).
- `ColoursSafe` — `ColourInv`: each opaque pixel of the rounds done has its pair;
  since positions are even the pixels of one block write the same pair, and no
  other block does. The exchange of a capture comes last.

Only model-checked: liveness (`RequestServed`, `StickersEnabled`,
`SessionLive`), which is out of the prover's reach.

## Not modelled

- dlib: vendored, and nearly all lines of the repository (over 300 000; the
  application itself has fewer than 2 000): a third party's library, of which
  the program calls two functions. Its deserialisation is the loader's work or its exception,
  its predictor a step of the face loop. Landmark geometry decides only whether
  a gesture is seen: either may happen.
- Windows, navigation, popup: calls of EFL. The back key lowers the window,
  which the framework turns into `app_pause`.
- The arithmetic of `apply_filter`: a byte times a factor, cut off at 0 and 255
  in the statement before the store; the factors are a matter of taste. The
  repository does not say in which order the camera delivers the chroma bytes,
  and the code takes it both ways: `apply_filter` calls the odd bytes Cr, the
  stickers and the capture exchange them.
- Files of the media folder that are not the application's own: the filter at 480
  admits any name that begins with IMAGE, and `Photos` has only those the
  application wrote.
- Decoding of the sticker files. If it fails the sticker's size stays 0 and the
  copy has no rounds.
- Which landmarks a sticker hangs on, and the rectangle of a detected face
  (820-823): a landmark may lie anywhere.
- The change button: no program of `main.edc` emits its signal and nothing
  reads the field that its handler toggles.
- `_main_view_rotate_image_preview`, `_main_view_set_image_rotation_exif`,
  `_image_util_imgcpy`, `_map_colorspace`: never called.

## Plan

Done: the core and its abstract view (`SelfCamera`, `CaptureSession`), the files
(`Photos`), the layout and its composition with the core (`Layout`,
`CameraApp`) with the abstract view of its stickers (`StickerShow`), drawing
(`Pixels`), and the proofs above: every invariant and action property that a run
checks is proved, the two refinements included; those that a run finds violated
are proved under the condition that excludes the finding (the callbacks in the
main loop, or a call that does not fail).

Left: the touches with callbacks in a thread of their own. `StickerSettles` is
about the main loop for a reason: between the two signals of a tap the sticker is
odd, a gesture that comes just then may take it past the last one to 0, and the
second signal leaves it at 1 for good, a number without a picture. Which stickers
such a program owes its user the repository does not say, so `CameraThreads` leaves
the number out. Nor does it say when a hardware effect must show that a filter's
frame in progress (949) switches off after a tap has set it (1038-1047).
