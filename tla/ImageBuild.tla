----------------------------- MODULE ImageBuild -----------------------------
(***************************************************************************)
(* The SD card image of a site (lib/server/gateway-image.js): built in the *)
(* background out of a checked base image and the site's own files, kept   *)
(* as three files that are written one after the other, deleted when the   *)
(* gateway reports fertig, and shown to the operator as fresh, stale or    *)
(* failed (getImageStatus).  The lock is a variable of the process, taken  *)
(* some awaits after it was looked at.                                     *)
(*                                                                         *)
(* One site; a build of another one differs in the file names only.        *)
(* Contents are told apart by provision code, Linux password and release.  *)
(***************************************************************************)
EXTENDS Integers

CONSTANTS
    REQUESTS,       \* operators that press "Image erstellen"
    RELEASES,       \* openHABian releases
    MAX_CODES,      \* bound of the model: codes of the site
    MAX_CRASHES     \* bound of the model: restarts of the platform

ASSUME ImageBuildAssumption ==
    /\ MAX_CODES \in Nat \ {0} /\ MAX_CRASHES \in Nat

VARIABLES
    siteRow,    \* battery_site: code (0: null) and whether it has expired, Linux password
    current,    \* a build is running, as far as the process knows
    job,        \* the requests, and the builds they start
    files,      \* site-<id>.*: image, json, error, work image and .part
    baseDir,    \* base/: the content of each .img.xz, and the .sha256 markers
    deleting,   \* deleteImage on its way: the next of its files
    codes, crashes,
    lastBuild,  \* history: how the last build ended: "none", "ok", "failed", or
                \* "unheard" when it failed and could not write its error either
    doubled,    \* history: two requests have passed the check together
    orphaned    \* history: a marker has outlived its base image

imageVars == <<siteRow, current, job, files, baseDir, deleting, codes, crashes,
               lastBuild, doubled, orphaned>>

Missing == [code |-> 0, secret |-> 0, base |-> "none"]
Resting == [at |-> "idle", code |-> 0, secret |-> 0, release |-> 0, old |-> {}]
NoFile == "none"

ImageInit ==
    /\ siteRow = [code |-> 1, expired |-> FALSE, secret |-> 0] /\ codes = 1
    /\ current = FALSE /\ job = [r \in REQUESTS |-> Resting]
    /\ files = [image |-> Missing, meta |-> 0, error |-> "none", work |-> Missing, part |-> Missing]
    /\ baseDir = [file |-> [v \in RELEASES |-> NoFile], marked |-> {}]
    /\ deleting = "no" /\ crashes = 0
    /\ lastBuild = "none" /\ doubled = FALSE /\ orphaned = FALSE

\* The answer getImageStatus gives to "is there an image, and is it of now": the
\* metadata with the current, unexpired code.
ShownFresh == files.meta # 0 /\ files.meta = siteRow.code /\ ~siteRow.expired

\* imageDownload: the file that is there, whatever the page says of it.
Downloadable == files.image # Missing

\* An error is shown when nothing is built and it is younger than the image.
ShownError == ~current /\ files.error = "newer"

-----------------------------------------------------------------------------
(***************************************************************************)
(* startImageBuild.                                                        *)
(***************************************************************************)

\* The checks on the row and on the lock.
MayStart == siteRow.code # 0 /\ ~siteRow.expired /\ ~current

\* On its way; a build that has given back the lock only sweeps up behind it.
Busy(r) == job[r].at \notin {"idle", "sweep"}

Request(r) ==
    /\ job[r].at = "idle" /\ MayStart
    /\ job' = [job EXCEPT ![r] =
          [Resting EXCEPT !.at = IF siteRow.secret = 0 THEN "secret" ELSE "space",
                          !.code = siteRow.code, !.secret = siteRow.secret]]
    /\ doubled' = (doubled \/ \E q \in REQUESTS : Busy(q))
    /\ UNCHANGED <<siteRow, current, files, baseDir, deleting, codes, crashes, lastBuild, orphaned>>

\* A site from before the passwords gets one, without a look at what is there now.
MakeSecret(r) ==
    /\ job[r].at = "secret"
    /\ siteRow' = [siteRow EXCEPT !.secret = @ + 1]
    /\ job' = [job EXCEPT ![r].at = "space", ![r].secret = siteRow'.secret]
    /\ UNCHANGED <<current, files, baseDir, deleting, codes, crashes, lastBuild, doubled, orphaned>>

\* statfs, which may refuse; then the lock is taken and the build goes on in the
\* background.  Its temporary directory is made before its try: where that fails
\* nobody gives the lock back, and nothing is written of the failure.
BeginBuild(r) ==
    /\ job[r].at = "space"
    /\ \/ current' = TRUE /\ job' = [job EXCEPT ![r].at = "release"] /\ UNCHANGED lastBuild
       \/ UNCHANGED <<current, lastBuild>> /\ job' = [job EXCEPT ![r] = Resting]
       \/ current' = TRUE /\ job' = [job EXCEPT ![r] = Resting] /\ lastBuild' = "unheard"
    /\ UNCHANGED <<siteRow, files, baseDir, deleting, codes, crashes, doubled, orphaned>>

-----------------------------------------------------------------------------
(***************************************************************************)
(* ensureBaseImage.                                                        *)
(***************************************************************************)
Cached == {v \in RELEASES : baseDir.file[v] # NoFile}

\* Variant no code has: a file in the cache is as good as a checked one.
VerifiedByName == Cached

\* A cached image counts with its marker only.
Verified == Cached \cap baseDir.marked

Fails(r) == job' = [job EXCEPT ![r] = [Resting EXCEPT !.at = "failed"]]

\* GitHub names a release, or is out of reach and the newest checked one serves.
\* A release that is there and checked is taken; another one needs a checksum and,
\* where its file is not there, a download.
ChooseRelease(r) ==
    /\ job[r].at = "release"
    /\ \/ \E v \in Verified : job' = [job EXCEPT ![r].at = "unpack", ![r].release = v]
       \/ \E v \in RELEASES \ Verified :
             job' = [job EXCEPT ![r].at = IF v \in Cached THEN "hash" ELSE "download",
                       ![r].release = v]
       \/ Fails(r)
    /\ UNCHANGED <<siteRow, current, files, baseDir, deleting, codes, crashes, lastBuild, doubled, orphaned>>

\* The download is renamed when it is complete, right or wrong.
Download(r) ==
    /\ job[r].at = "download"
    /\ \/ \E content \in {"good", "bad"} :
             baseDir' = [baseDir EXCEPT !.file[job[r].release] = content]
          /\ job' = [job EXCEPT ![r].at = "hash"]
       \/ Fails(r) /\ UNCHANGED baseDir
    /\ UNCHANGED <<siteRow, current, files, deleting, codes, crashes, lastBuild, doubled, orphaned>>

\* sha256File against what is expected: the marker, or away with it.  The file of
\* the marker may be there although it could not be written, the wrong image may
\* stay.
Hash(r) ==
    LET v == job[r].release
    IN  /\ job[r].at = "hash"
        /\ \/ /\ baseDir.file[v] = "good"
              /\ baseDir' = [baseDir EXCEPT !.marked = @ \cup {v}]
              /\ \/ job' = [job EXCEPT ![r].at = "tidy", ![r].old = Cached \ {v}]
                 \/ Fails(r)
           \/ /\ baseDir.file[v] # "good"
              /\ baseDir' = [baseDir EXCEPT !.file[v] = NoFile] /\ Fails(r)
           \/ UNCHANGED baseDir /\ Fails(r)
    /\ UNCHANGED <<siteRow, current, files, deleting, codes, crashes, lastBuild, doubled, orphaned>>

\* Markers whose image the clean-up has removed.
Orphans(r) == {v \in job[r].old \cap baseDir.marked : baseDir.file[v] = NoFile}

\* The others that were there go: first the image, then its marker.
Tidy(r) ==
    /\ job[r].at = "tidy"
    /\ \/ /\ job[r].old = {}
          /\ job' = [job EXCEPT ![r].at = "unpack"] /\ UNCHANGED <<baseDir, orphaned>>
       \/ \E v \in job[r].old :
             /\ IF baseDir.file[v] # NoFile
                THEN baseDir' = [baseDir EXCEPT !.file[v] = NoFile] /\ UNCHANGED job
                ELSE /\ baseDir' = [baseDir EXCEPT !.marked = @ \ {v}]
                     /\ job' = [job EXCEPT ![r].old = @ \ {v}]
             /\ UNCHANGED orphaned
       \/ Fails(r) /\ UNCHANGED baseDir /\ orphaned' = (orphaned \/ Orphans(r) # {})
    /\ UNCHANGED <<siteRow, current, files, deleting, codes, crashes, lastBuild, doubled>>

-----------------------------------------------------------------------------
(***************************************************************************)
(* build.                                                                  *)
(***************************************************************************)

\* The order of the stages.
Then(stage) ==
    [unpack |-> "inject", inject |-> "compress", compress |-> "rename", rename |-> "open",
     open |-> "meta", meta |-> "clear", clear |-> "finally"][stage]

\* What a stage makes of the files; the ones it reads must be there.  A file is
\* emptied when it is opened and then written.
StageDone(r) ==
    LET j == job[r]
    IN  CASE j.at = "unpack" ->
               /\ baseDir.file[j.release] # NoFile
               /\ files' = [files EXCEPT !.work =
                     [Missing EXCEPT !.base = baseDir.file[j.release]]]
          [] j.at = "inject" ->
               /\ files.work # Missing
               /\ files' = [files EXCEPT !.work.code = j.code, !.work.secret = j.secret]
          [] j.at = "compress" ->
               files.work # Missing /\ files' = [files EXCEPT !.part = files.work]
          [] j.at = "rename" ->
               files.part # Missing /\ files' = [files EXCEPT !.image = files.part, !.part = Missing]
          [] j.at = "open" ->
               files' = [files EXCEPT !.meta = 0,
                                      !.error = IF @ = "older" THEN "newer" ELSE @]
          [] j.at = "meta" ->
               files' = [files EXCEPT !.meta = j.code,
                                      !.error = IF @ = "newer" THEN "older" ELSE @]
          [] j.at = "clear" -> files' = [files EXCEPT !.error = "none"]

Stages == {"unpack", "inject", "compress", "rename", "open", "meta", "clear"}

Build(r) ==
    /\ job[r].at \in Stages
    /\ \/ /\ StageDone(r)
          /\ job' = [job EXCEPT ![r].at = Then(@), ![r].release = 0,
                       ![r].secret = IF job[r].at = "unpack" THEN @ ELSE 0]
          /\ lastBuild' = IF Then(job[r].at) = "clear" THEN "ok" ELSE lastBuild
       \/ Fails(r) /\ UNCHANGED <<files, lastBuild>>
    /\ UNCHANGED <<siteRow, current, baseDir, deleting, codes, crashes, doubled, orphaned>>

\* catch: the error file is emptied and written, over whatever is there; neither
\* has to work, and nobody hears of it.
Report(r) ==
    /\ \/ /\ job[r].at = "failed" /\ lastBuild' = "unheard"
          /\ \/ /\ files' = [files EXCEPT !.error = "none"]
                /\ job' = [job EXCEPT ![r].at = "report"]
             \/ UNCHANGED files /\ job' = [job EXCEPT ![r].at = "finally"]
       \/ /\ job[r].at = "report" /\ job' = [job EXCEPT ![r].at = "finally"]
          /\ \/ files' = [files EXCEPT !.error = "newer"] /\ lastBuild' = "failed"
             \/ UNCHANGED <<files, lastBuild>>
    /\ UNCHANGED <<siteRow, current, baseDir, deleting, codes, crashes, doubled, orphaned>>

\* finally: the lock is given back, whoever holds it.
Finally(r) ==
    /\ job[r].at = "finally"
    /\ current' = FALSE /\ job' = [job EXCEPT ![r] = [Resting EXCEPT !.at = "sweep"]]
    /\ UNCHANGED <<siteRow, files, baseDir, deleting, codes, crashes, lastBuild, doubled, orphaned>>

\* Then the work files go, whoever's they are by now.  (One that cannot be removed
\* is written anew by the next build before it is read.)
Sweep(r) ==
    /\ job[r].at = "sweep" /\ job' = [job EXCEPT ![r] = Resting]
    /\ files' = [files EXCEPT !.work = Missing, !.part = Missing]
    /\ UNCHANGED <<siteRow, current, baseDir, deleting, codes, crashes, lastBuild, doubled, orphaned>>

\* The platform is restarted: builds and lock are gone, the files stay.  (Work files
\* too, which the next build writes anew before it reads them; here they are gone.)
CrashImage ==
    /\ crashes < MAX_CRASHES /\ crashes' = crashes + 1
    /\ current' = FALSE /\ deleting' = "no" /\ job' = [r \in REQUESTS |-> Resting]
    /\ orphaned' = (orphaned \/ \E r \in REQUESTS : Orphans(r) # {})
    /\ files' = [files EXCEPT !.work = Missing, !.part = Missing]
    /\ UNCHANGED <<siteRow, baseDir, codes, lastBuild, doubled>>

-----------------------------------------------------------------------------
(***************************************************************************)
(* The code of the site.                                                   *)
(***************************************************************************)

\* code_erneuern
NewCode ==
    /\ codes < MAX_CODES /\ codes' = codes + 1
    /\ siteRow' = [siteRow EXCEPT !.code = codes', !.expired = FALSE]
    /\ UNCHANGED <<current, job, files, baseDir, deleting, crashes, lastBuild, doubled, orphaned>>

Expire ==
    /\ siteRow.code # 0 /\ ~siteRow.expired /\ siteRow' = [siteRow EXCEPT !.expired = TRUE]
    /\ UNCHANGED <<current, job, files, baseDir, deleting, codes, crashes, lastBuild, doubled, orphaned>>

\* The gateway, or the old one in a package update, reports fertig: the code dies,
\* then the three files go, the rest staying behind one that cannot be removed.
Fertig ==
    /\ siteRow.code # 0 /\ deleting = "no"
    /\ siteRow' = [siteRow EXCEPT !.code = 0, !.expired = FALSE] /\ deleting' = "image"
    /\ UNCHANGED <<current, job, files, baseDir, codes, crashes, lastBuild, doubled, orphaned>>

DeleteFile ==
    /\ deleting # "no"
    /\ \/ /\ deleting' = [image |-> "meta", meta |-> "error", error |-> "no"][deleting]
          /\ files' = CASE deleting = "image" -> [files EXCEPT !.image = Missing]
                        [] deleting = "meta" -> [files EXCEPT !.meta = 0,
                                                   !.error = IF @ = "older" THEN "newer" ELSE @]
                        [] deleting = "error" -> [files EXCEPT !.error = "none"]
          /\ lastBuild' = IF deleting = "error" THEN "none" ELSE lastBuild
       \/ deleting' = "no" /\ UNCHANGED <<files, lastBuild>>
    /\ UNCHANGED <<siteRow, current, job, baseDir, codes, crashes, doubled, orphaned>>

\* Bound of the model: two builds at once are not followed.  They share the work
\* files and give back each other's lock; nothing holds of what they leave.
NotFollowed == doubled /\ UNCHANGED imageVars

ImageNext ==
    \/ /\ ~doubled
       /\ \/ \E r \in REQUESTS :
                \/ Request(r) \/ MakeSecret(r) \/ BeginBuild(r)
                \/ ChooseRelease(r) \/ Download(r) \/ Hash(r) \/ Tidy(r)
                \/ Build(r) \/ Report(r) \/ Finally(r) \/ Sweep(r)
          \/ CrashImage \/ NewCode \/ Expire \/ Fertig \/ DeleteFile
    \/ NotFollowed

ImageSpec == ImageInit /\ [][ImageNext]_imageVars

-----------------------------------------------------------------------------
\* An image that is shown as fresh is the one to flash: it carries the site's code
\* and the password the site has now, on a base image that was checked - wherever
\* a build fails, the platform restarts, a code is replaced or the old gateway
\* reports fertig in between.  Not so after two requests that looked at the lock
\* together; the base is unchecked only where a restart, or an image that could not be
\* removed with its marker, left a marker behind.
FreshImageFits ==
    ShownFresh /\ Downloadable /\ ~doubled =>
        /\ files.image.code = siteRow.code /\ files.image.secret = siteRow.secret
        /\ files.image.base = "good" \/ orphaned

\* A build that failed and could write its error is shown until one succeeds, also
\* where the next ones are cut off by a restart; and beside an image no error is
\* shown unless the last build failed.  A failure whose error could not be written
\* (catch ends in another catch, as on a full disk) is shown as none.
ErrorIsOfTheLastBuild ==
    (\A r \in REQUESTS : ~Busy(r)) /\ ~current /\ deleting = "no" /\ ~doubled =>
        /\ lastBuild = "failed" => ShownError
        /\ ShownError /\ files.meta # 0 => lastBuild \in {"failed", "unheard"}

\* What the operator is shown of the image is true, the good news and the bad.
ImageAsShown == FreshImageFits /\ ErrorIsOfTheLastBuild
=============================================================================
