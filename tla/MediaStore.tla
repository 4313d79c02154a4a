---------------------------- MODULE MediaStore ----------------------------
(***************************************************************************)
(* The directory of images (msd/image.rs) and the requests that fill and   *)
(* use it: uploads and their multipart bodies, downloads that run on as    *)
(* tasks (MsdController::download_image) and can be cancelled, files put   *)
(* on the virtual drive (msd/ventoy_drive.rs), the Redfish InsertMedia     *)
(* action, which looks up or downloads an image between its check of the   *)
(* slot and the mount (redfish/routes/virtual_media.rs), and mounts,       *)
(* deletions and mode switches of the web interface                        *)
(* (web/handlers/msd_api.rs).                                              *)
(*                                                                         *)
(* A body is a number of chunks.  Everything is written to a file of its   *)
(* own first, `.upload_*` or `.download_*`, which list() shows like any    *)
(* other; the name asked for is looked for before and taken by a rename    *)
(* afterwards.  A client that leaves ends a handler wherever it waits.     *)
(***************************************************************************)
EXTENDS Integers, FiniteSets

CONSTANTS
    MsJobs,      \* requests that carry a body; each is made at most once
    MsNames,     \* names of images
    MsLuns,      \* 0 .. the slots of the multi-disk mode less one
    MsNothing,   \* no file, no medium
    MsLimit,     \* MAX_IMAGE_SIZE, in chunks
    MsSizes,     \* chunks of a body
    MaxMsOps, MaxMsFaults

\* The value for nothing is none of the sizes, names and files it stands in for,
\* and the file of a request has a name no image can have: it starts with a
\* dot, which the names of images are not allowed to.
ASSUME MsAssumption ==
    /\ MsNames \cap MsJobs = {}
    /\ MsLuns \subseteq Nat /\ MsSizes \subseteq Nat
    /\ MsNothing \notin Nat /\ MsNothing \notin MsNames \cup MsJobs
    /\ MsNothing \notin [got : Nat, of : Nat]
    /\ MsNothing \notin [got : Nat, of : Nat, known : BOOLEAN]

VARIABLES
    msJob,       \* the requests under way
    msTemp,      \* the size of a request's own file, or MsNothing
    msFile,      \* the images: how much there is, and of what
    msDrive,     \* the same of the file uploads put on the virtual drive
    msSlot,      \* the image in each slot
    msCapacity,  \* slots of the disk mode
    msDownloads, \* MsdController.downloads
    msEvent,     \* the last progress event of a download
    msAlarm,     \* MsdHealthMonitor: Error
    msLast,      \* the last mount tried: "ok", "failed", or "cut": the medium is
                 \* in its slot, and the client left before the rest
    msCancelled, \* the downloads whose cancellation was answered with success
    msLeft       \* operations and faults still to come

msVars == <<msJob, msTemp, msFile, msDrive, msSlot, msCapacity, msDownloads,
            msEvent, msAlarm, msLast, msCancelled, msLeft>>
msMounts == <<msSlot, msCapacity, msAlarm, msLast>>
msTasks  == <<msDownloads, msEvent, msCancelled>>

NoJob == [kind |-> "none", at |-> "none", name |-> MsNothing, lun |-> 0,
          got |-> 0, of |-> 0, known |-> TRUE]

MsInit ==
    /\ msJob = [j \in MsJobs |-> NoJob]
    /\ msTemp = [j \in MsJobs |-> MsNothing]
    /\ msFile = [n \in MsNames |-> MsNothing] /\ msDrive = MsNothing
    /\ msSlot = [l \in MsLuns |-> MsNothing]
    /\ msCapacity = 1
    /\ msDownloads = {} /\ msEvent = [j \in MsJobs |-> "none"]
    /\ msAlarm = FALSE /\ msLast = "ok" /\ msCancelled = {}
    /\ msLeft = [ops |-> MaxMsOps, faults |-> MaxMsFaults]

MsFault == msLeft.faults > 0 /\ msLeft' = [msLeft EXCEPT !.faults = @ - 1]
MsOp == msLeft.ops > 0 /\ msLeft' = [msLeft EXCEPT !.ops = @ - 1]

\* A request that is past its body does not know of it any more, and one that
\* has ended leaves nothing but, perhaps, its file.
Ended(kind) == [NoJob EXCEPT !.at = "end",
                             !.kind = IF kind = "drive" THEN kind ELSE "upload"]
JobGoes(j, at) ==
    msJob' = [msJob EXCEPT ![j] =
                CASE at = "end" -> Ended(@.kind)
                  [] at \in {"done", "failed", "mount"} ->
                        [NoJob EXCEPT !.kind = msJob[j].kind, !.at = at,
                             !.name = msJob[j].name, !.lun = msJob[j].lun]
                  [] OTHER -> [@ EXCEPT !.at = at]]
TempIs(j, x) == msTemp' = [msTemp EXCEPT ![j] = x]

\* What follows the end of a body: a download reports, an insertion mounts or
\* is refused, an upload is answered.
After(j, ok) ==
    CASE msJob[j].kind = "download" -> IF ok THEN "done" ELSE "failed"
      [] msJob[j].kind = "insert" /\ ok -> "mount"
      [] OTHER -> "end"

-----------------------------------------------------------------------------
(***************************************************************************)
(* Bodies                                                                  *)
(***************************************************************************)

\* create_from_multipart_field looks for the name before anything is written.
NameTaken(n) == msFile[n] # MsNothing

\* The upload of an image of s chunks arrives.
UploadBegins(j, n, s) ==
    /\ msJob[j] = NoJob
    /\ msJob' = [msJob EXCEPT ![j] = IF NameTaken(n) THEN Ended("upload") ELSE
                    [@ EXCEPT !.kind = "upload", !.name = n, !.of = s, !.at = "body"]]
    /\ TempIs(j, IF NameTaken(n) THEN MsNothing ELSE 0)
    /\ UNCHANGED <<msFile, msDrive, msMounts, msTasks, msLeft>>

\* The upload of a file to the virtual drive, which may replace one there.
DriveUploadBegins(j, s) ==
    /\ msJob[j] = NoJob
    /\ msJob' = [msJob EXCEPT ![j] = [@ EXCEPT !.kind = "drive", !.of = s, !.at = "body"]]
    /\ TempIs(j, 0)
    /\ UNCHANGED <<msFile, msDrive, msMounts, msTasks, msLeft>>

\* The next chunk is read and written.  Only the upload of an image is
\* measured against the limit as it goes, and its file is then removed.
Chunk(j) ==
    /\ msJob[j].at = "body" /\ msJob[j].got < msJob[j].of
    /\ LET got == msJob[j].got + 1
           large == msJob[j].kind = "upload" /\ got > MsLimit IN
       /\ msJob' = [msJob EXCEPT ![j] = IF large THEN Ended("upload")
                                         ELSE [@ EXCEPT !.got = got]]
       /\ TempIs(j, IF large \/ msTemp[j] = MsNothing THEN MsNothing ELSE got)
    /\ UNCHANGED <<msFile, msDrive, msMounts, msTasks, msLeft>>

\* The body is fetched from a URL, and is shorter than was announced.
Remote(j) == msJob[j].kind \in {"download", "insert"}
Short(j) == Remote(j) /\ msJob[j].known /\ msTemp[j] # msJob[j].of

\* The body cannot be read on, the file cannot be written, or the client has
\* left.  Only a download that could not write removes its file.
BodyBreaks(j) ==
    /\ msJob[j].at = "body" /\ MsFault
    /\ JobGoes(j, After(j, FALSE))
    /\ \/ TempIs(j, msTemp[j])
       \/ Remote(j) /\ TempIs(j, MsNothing)
    /\ UNCHANGED <<msFile, msDrive, msMounts, msTasks>>

\* Mutant of BodyDone: the length announced for a download is not compared.
BodyDone_NoCompare(j) ==
    /\ msJob[j].at = "body" /\ msJob[j].kind # "drive"
    /\ \/ msJob[j].got = msJob[j].of /\ UNCHANGED msLeft
       \/ Remote(j) /\ MsFault
    /\ \/ /\ msTemp[j] # MsNothing
          /\ msFile' = [msFile EXCEPT ![msJob[j].name] =
                  [got |-> msTemp[j], of |-> msJob[j].of, known |-> msJob[j].known]]
          /\ JobGoes(j, After(j, TRUE))
       \/ /\ msTemp[j] = MsNothing
          /\ JobGoes(j, After(j, FALSE)) /\ UNCHANGED msFile
    /\ TempIs(j, MsNothing)
    /\ UNCHANGED <<msDrive, msMounts, msTasks>>

\* The body has ended: for a download perhaps early and without an error.  A
\* length that was announced is compared with the size of the file, and the
\* file takes the name of the image, whoever has it by now.  A file that is
\* gone cannot be renamed, and one that is short is removed.
BodyDone(j) ==
    /\ msJob[j].at = "body" /\ msJob[j].kind # "drive"
    /\ \/ msJob[j].got = msJob[j].of /\ UNCHANGED msLeft
       \/ Remote(j) /\ MsFault
    /\ \/ /\ ~Short(j) /\ msTemp[j] # MsNothing
          /\ msFile' = [msFile EXCEPT ![msJob[j].name] =
                  [got |-> msTemp[j], of |-> msJob[j].of, known |-> msJob[j].known]]
          /\ JobGoes(j, After(j, TRUE))
       \/ /\ Short(j) \/ msTemp[j] = MsNothing
          /\ JobGoes(j, After(j, FALSE)) /\ UNCHANGED msFile
    /\ TempIs(j, MsNothing)
    /\ UNCHANGED <<msDrive, msMounts, msTasks>>

\* The file is copied to the drive, which may fail, and removed.
DriveUploadEnds(j) ==
    /\ msJob[j].at = "body" /\ msJob[j].kind = "drive" /\ msJob[j].got = msJob[j].of
    /\ msDrive' \in {msDrive, [got |-> msTemp[j], of |-> msJob[j].of]}
    /\ JobGoes(j, "end") /\ TempIs(j, MsNothing)
    /\ UNCHANGED <<msFile, msMounts, msTasks, msLeft>>

\* The rename is refused by the file system: the request's own file goes.
CommitFails(j) ==
    /\ msJob[j].at = "body" /\ msJob[j].got = msJob[j].of /\ MsFault
    /\ msJob[j].kind # "drive"
    /\ JobGoes(j, After(j, FALSE)) /\ TempIs(j, MsNothing)
    /\ UNCHANGED <<msFile, msDrive, msMounts, msTasks>>

-----------------------------------------------------------------------------
(***************************************************************************)
(* Downloads                                                               *)
(***************************************************************************)

\* download_image: the download is entered and announced ...
DownloadAsked(j, n, s, known) ==
    /\ msJob[j] = NoJob
    /\ msJob' = [msJob EXCEPT ![j] = [@ EXCEPT !.kind = "download", !.name = n,
                                !.of = s, !.known = known, !.at = "asked"]]
    /\ msDownloads' = msDownloads \cup {j}
    /\ msEvent' = [msEvent EXCEPT ![j] = "started"]
    /\ UNCHANGED <<msTemp, msFile, msDrive, msMounts, msCancelled, msLeft>>

\* ... and its task starts, unless the client left in between.
TaskStarts(j) ==
    /\ msJob[j].at = "asked"
    /\ \/ JobGoes(j, "head") /\ UNCHANGED msLeft
       \/ JobGoes(j, "end") /\ MsFault
    /\ UNCHANGED <<msTemp, msFile, msDrive, msMounts, msTasks>>

\* The HEAD request: it may fail, announce too much, or name what exists.
HeadReply(j) ==
    /\ msJob[j].at = "head"
    /\ LET bad == \/ msJob[j].known /\ msJob[j].of > MsLimit
                  \/ NameTaken(msJob[j].name) IN
       \/ JobGoes(j, IF bad THEN After(j, FALSE) ELSE "get") /\ UNCHANGED msLeft
       \/ JobGoes(j, After(j, FALSE)) /\ MsFault
    /\ UNCHANGED <<msTemp, msFile, msDrive, msMounts, msTasks>>

\* The GET request: it may fail; otherwise the file is created.
Get(j) ==
    /\ msJob[j].at = "get"
    /\ \/ JobGoes(j, "body") /\ TempIs(j, 0) /\ UNCHANGED msLeft
       \/ JobGoes(j, After(j, FALSE)) /\ MsFault /\ UNCHANGED msTemp
    /\ UNCHANGED <<msFile, msDrive, msMounts, msTasks>>

\* The task is over: its entry goes first ...
Forget(j) ==
    /\ msJob[j].at \in {"done", "failed"}
    /\ JobGoes(j, IF msJob[j].at = "done" THEN "tell_done" ELSE "tell_failed")
    /\ msDownloads' = msDownloads \ {j}
    /\ UNCHANGED <<msTemp, msFile, msDrive, msMounts, msEvent, msCancelled, msLeft>>

\* ... and the outcome is published.
Tell(j) ==
    /\ msJob[j].at \in {"tell_done", "tell_failed"}
    /\ JobGoes(j, "end")
    /\ msEvent' = [msEvent EXCEPT ![j] =
                     IF msJob[j].at = "tell_done" THEN "completed" ELSE "failed"]
    /\ UNCHANGED <<msTemp, msFile, msDrive, msMounts, msDownloads, msCancelled, msLeft>>

\* cancel_download: the entry is taken out and its token cancelled, which
\* nobody looks at.
CancelDownload(j) ==
    /\ j \in msDownloads /\ MsOp
    /\ msDownloads' = msDownloads \ {j}
    /\ msCancelled' = msCancelled \cup {j}
    /\ UNCHANGED <<msJob, msTemp, msFile, msDrive, msMounts, msEvent>>

-----------------------------------------------------------------------------
(***************************************************************************)
(* Slots                                                                   *)
(***************************************************************************)

\* list() shows the images and the files of requests alike.
Listed == {n \in MsNames : msFile[n] # MsNothing}
            \cup {j \in MsJobs : msJob[j].kind # "drive" /\ msTemp[j] # MsNothing}
Mounted == {msSlot[l] : l \in MsLuns} \ {MsNothing}
FreeSlots == {l \in MsLuns : l < msCapacity /\ msSlot[l] = MsNothing}

\* resolve_image: what is found is mounted next, and a URL is fetched first.
Resolve(j, asked, n) ==
    \/ \E s \in MsSizes, known \in BOOLEAN :
         msJob' = [msJob EXCEPT ![j] =
                     [asked EXCEPT !.of = s, !.known = known, !.at = "head"]]
    \/ /\ n \in Listed
       /\ msJob' = [msJob EXCEPT ![j] = [asked EXCEPT !.at = "mount"]]

\* InsertMedia into slot l: the slot is looked at before the image is.
InsertBegins(j, l, n) ==
    /\ msJob[j] = NoJob
    /\ l \in FreeSlots
    /\ Resolve(j, [NoJob EXCEPT !.kind = "insert", !.lun = l, !.name = n], n)
    /\ UNCHANGED <<msTemp, msFile, msDrive, msMounts, msTasks, msLeft>>

\* mount_image_inner, under the controller's locks: the file is there, it is
\* in no slot, and the slot is one of the mode's and free (select_lun).
MountAt(n, l) == n \in Listed /\ n \notin Mounted /\ l \in FreeSlots

\* report_error: a file that is gone raises the alarm, and it stays raised.
Alarmed(n) == msAlarm \/ n \notin Listed

\* The mount of an insertion.  The file that is gone and the gadget that
\* refuses raise the alarm, the other refusals do not.
InsertMounts(j) ==
    LET n == msJob[j].name  l == msJob[j].lun IN
    /\ msJob[j].at = "mount"
    /\ \/ /\ MountAt(n, l)
          /\ msSlot' = [msSlot EXCEPT ![l] = n]
          /\ JobGoes(j, "mounted") /\ msLast' = "ok"
          /\ UNCHANGED <<msAlarm, msLeft>>
       \/ /\ MountAt(n, l) /\ MsFault
          /\ JobGoes(j, "end") /\ msAlarm' = TRUE /\ msLast' = "failed"
          /\ UNCHANGED msSlot
       \/ /\ ~MountAt(n, l)
          /\ JobGoes(j, "end")
          /\ msAlarm' = Alarmed(n)
          /\ msLast' = IF n \in Listed THEN msLast ELSE "failed"
          /\ UNCHANGED <<msSlot, msLeft>>
    /\ UNCHANGED <<msTemp, msFile, msDrive, msCapacity, msTasks>>

\* finish_connect_success, after the locks: the alarm is withdrawn.
Connected(j) ==
    /\ msJob[j].at = "mounted" /\ JobGoes(j, "end")
    /\ msAlarm' = FALSE
    /\ UNCHANGED <<msTemp, msFile, msDrive, msSlot, msCapacity, msLast, msTasks, msLeft>>

\* The client of an insertion leaves: before the mount, or while the locks of
\* the monitor are awaited behind it (report_recovered).
ClientLeaves(j) ==
    /\ msJob[j].kind = "insert"
    /\ msJob[j].at \in {"head", "get", "mount", "mounted"}
    /\ MsFault /\ JobGoes(j, "end")
    /\ msLast' = IF msJob[j].at = "mounted" /\ msLast = "ok" THEN "cut" ELSE msLast
    /\ UNCHANGED <<msTemp, msFile, msDrive, msSlot, msCapacity, msAlarm, msTasks>>

\* The web interface mounts whatever is listed, in the lowest free slot.
Puts(n) ==
    /\ \E l \in FreeSlots :
         /\ \A k \in FreeSlots : l <= k
         /\ MountAt(n, l)
         /\ msSlot' = [msSlot EXCEPT ![l] = n]
    /\ UNCHANGED <<msJob, msTemp, msFile, msDrive, msCapacity, msTasks>>

\* It holds AppState.msd for writing until the alarm is withdrawn.
WebMount(n) ==
    /\ MsOp /\ Puts(n)
    /\ msAlarm' = FALSE /\ msLast' = "ok"

\* Its client leaves when the medium is in, before the alarm is withdrawn.
WebMountCut(n) ==
    /\ MsFault /\ Puts(n)
    /\ msLast' = "cut" /\ UNCHANGED msAlarm

\* EjectMedia of slot l, if the mode still has it.
Eject(l) ==
    /\ MsOp /\ msSlot[l] # MsNothing /\ l < msCapacity
    /\ msSlot' = [msSlot EXCEPT ![l] = MsNothing]
    /\ UNCHANGED <<msJob, msTemp, msFile, msDrive, msCapacity, msAlarm, msLast, msTasks>>

\* The web interface unmounts an image, wherever it is.
Unmount(l) ==
    /\ MsOp /\ msSlot[l] # MsNothing
    /\ msSlot' = [msSlot EXCEPT ![l] = MsNothing]
    /\ UNCHANGED <<msJob, msTemp, msFile, msDrive, msCapacity, msAlarm, msLast, msTasks>>

\* The other disk mode: everything is unmounted.
SwitchMode ==
    /\ MsOp
    /\ msCapacity' = IF msCapacity = 1 THEN Cardinality(MsLuns) ELSE 1
    /\ msSlot' = [l \in MsLuns |-> MsNothing]
    /\ UNCHANGED <<msJob, msTemp, msFile, msDrive, msAlarm, msLast, msTasks>>

\* What is listed is deleted unless it is mounted: the file of a request that
\* is still being written too, which that request finds out at its end.
Delete(n) ==
    /\ MsOp /\ n \in Listed \ Mounted
    /\ msFile' = [m \in MsNames |-> IF m = n THEN MsNothing ELSE msFile[m]]
    /\ msTemp' = [j \in MsJobs |-> IF j = n THEN MsNothing ELSE msTemp[j]]
    /\ UNCHANGED <<msJob, msDrive, msMounts, msTasks>>

MsNext ==
    \/ \E j \in MsJobs :
         \/ \E n \in MsNames, s \in MsSizes :
              \/ UploadBegins(j, n, s)
              \/ \E known \in BOOLEAN : DownloadAsked(j, n, s, known)
         \/ \E l \in MsLuns, n \in MsNames : InsertBegins(j, l, n)
         \/ \E s \in MsSizes : DriveUploadBegins(j, s)
         \/ Chunk(j) \/ BodyBreaks(j) \/ BodyDone(j) \/ CommitFails(j)
         \/ DriveUploadEnds(j)
         \/ TaskStarts(j) \/ HeadReply(j) \/ Get(j) \/ Forget(j) \/ Tell(j)
         \/ CancelDownload(j)
         \/ InsertMounts(j) \/ Connected(j) \/ ClientLeaves(j)
    \/ \E n \in MsNames \cup MsJobs : WebMount(n) \/ WebMountCut(n) \/ Delete(n)
    \/ \E l \in MsLuns : Unmount(l) \/ Eject(l)
    \/ SwitchMode

MsSpec == MsInit /\ [][MsNext]_msVars

-----------------------------------------------------------------------------
\* An image carries its name only when its whole body has been written, however
\* its upload or download ended, and a file on the drive likewise: a body whose
\* length nobody announced is the one exception (image.rs, ventoy_drive.rs).
ImagesAreWhole ==
    /\ \A n \in MsNames : msFile[n] # MsNothing /\ msFile[n].known =>
                             msFile[n].got = msFile[n].of
    /\ msDrive # MsNothing => msDrive.got = msDrive.of

\* A medium in a slot is not ousted by an insertion that looked at the slot
\* before its download and mounts after it, nor put in a slot the disk mode no
\* longer has (virtual_media_insert, select_lun).
SlotsHold ==
    [][\A l \in MsLuns :
         /\ msSlot[l] # MsNothing => msSlot'[l] \in {msSlot[l], MsNothing}
         /\ msSlot'[l] # MsNothing => l < msCapacity']_msVars

\* An image in a slot keeps its file: deletions, uploads and downloads never
\* take it away (delete_image).  The file of a request that was mounted while
\* it was being written is the exception: its rename takes it.
MountedKeepsFile == \A n \in Mounted \cap MsNames : msFile[n] # MsNothing

\* A download whose outcome was published is not entered any more, so that it
\* cannot be cancelled with success afterwards (download_image).
EndedIsForgotten ==
    \A j \in MsJobs : msEvent[j] \in {"completed", "failed"} => j \notin msDownloads

\* After a mount that worked, and whose client waited for its end, nobody is told
\* of an error that came before it, whatever other mounts are under way
\* (finish_connect_success, MsdHealthMonitor).
SuccessClearsAlarm ==
    msLast = "ok" /\ (\A j \in MsJobs : msJob[j].at # "mounted") => ~msAlarm

\* Claimed where the request is answered with "Download cancelled": a download
\* that was cancelled adds no image.
CancelledAddsNothing ==
    \A j \in msCancelled : msEvent[j] # "completed"

\* What the store of images promises: an image that is listed is whole, one that
\* is mounted keeps its file, jobs that ended are forgotten, a success clears the
\* alarm, and a slot that holds a medium is not given another.
StorePromise ==
    /\ [](ImagesAreWhole /\ MountedKeepsFile /\ EndedIsForgotten /\ SuccessClearsAlarm)
    /\ SlotsHold
=============================================================================
