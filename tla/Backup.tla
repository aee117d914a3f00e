-------------------------------- MODULE Backup --------------------------------
(***************************************************************************)
(* Backups and restores of the two stores, the database and the images.    *)
(*                                                                         *)
(* backup.sh dumps the database, backs the images up (an fs store as a     *)
(* tar, an s3 store object by object into the backup store with an         *)
(* inventory last), seals the artifacts, moves them into the backup        *)
(* directory and publishes the set off the box with a marker last; an      *)
(* operator may publish by hand what an interrupted run left.  A restore   *)
(* fetches a set or takes a local directory, verifies it, guards its       *)
(* target, restores the database and then the images.  The application     *)
(* captures and deletes images meanwhile, stored objects decay, and any    *)
(* command may die or fail at any step.                                    *)
(*                                                                         *)
(* Ciphertexts are told apart by the job that sealed them, images by their *)
(* key; a hash or MAC check compares exactly that.                         *)
(***************************************************************************)
EXTENDS RestoreTarget

CONSTANTS
  Jobs,      \* runs of backup.sh started in the same second: they share the stamp
  Images,    \* keys of images
  Starts,    \* the media store, the images it holds, and where each run stands at first:
             \* "idle", "publish" with a sealed set of images that were deleted since, or
             \* "local" for a run that never was
  MaxFaults  \* crashes, failing calls and decayed objects

Bad == "bad"

ASSUME BackupOK ==
  /\ Starts \subseteq [kind : {"s3", "fs"}, live : SUBSET Images,
                      at : [Jobs -> {"idle", "publish", "local"}]]
  /\ MaxFaults \in Nat /\ {None, Bad} \cap Jobs = {}

Artifacts == {"db", "media", "manifest", "inventory"}

VARIABLES
  kind,     \* NOVA_MEDIA_STORE
  life,     \* each image on the primary; "lost" and "erasing" have a row and no blob
  job,      \* runs of backup.sh: program counter, locals and backup directory
  remote,   \* what the backup store holds of the stamp
  rest,     \* the restore
  faults,   \* faults so far
  between,  \* history: images being deleted at a job's dump, or since and before its listing
  lost      \* history: images whose blob the primary store lost

vars == <<kind, life, job, remote, rest, faults, between, lost>>
history == <<between, lost>>
-----------------------------------------------------------------------------
(* Initial state *)

\* A marker or an inventory is known by its job and what it lists.
NoMarker == [job |-> None, names |-> {}]

\* rows: the images the dump refers to; keys: those listed or tarred; made: the
\* artifacts of the run; dir: those moved to the backup directory.
IdleJob == [pc |-> "idle", rows |-> {}, keys |-> {}, made |-> {}, todo |-> {}, dir |-> {},
            seen |-> NoMarker, hand |-> FALSE]
\* A run that has its sealed set, of images deleted since; of an s3 store it has
\* committed its inventory.
ReadyJob == [IdleJob EXCEPT !.pc = "publish", !.rows = Images, !.keys = Images,
  !.made = IF kind = "s3" THEN {"db"} ELSE {"db", "media"},
  !.dir = {"db", "manifest", IF kind = "s3" THEN "inventory" ELSE "media"}]
IdleRest == [pc |-> "idle", todo |-> {}, seen |-> NoMarker,
             got |-> [a \in Artifacts |-> None], mode |-> None, overPrimary |-> FALSE,
             dest |-> {}, inventory |-> None, media |-> [k \in Images |-> None],
             short |-> FALSE]

Init ==
  /\ \E start \in Starts :
       LET ready == {j \in Jobs : start.at[j] = "publish"}
       IN /\ kind = start.kind
          /\ job = [j \in Jobs |-> IF j \in ready THEN ReadyJob
                                  ELSE [IdleJob EXCEPT !.pc = start.at[j]]]
          /\ life = [k \in Images |-> IF ready # {} THEN "gone"
                                      ELSE IF k \in start.live THEN "live" ELSE "unborn"]
          /\ \E i \in IF ready # {} /\ kind = "s3" THEN ready ELSE {None} :
               remote = [media |-> [k \in Images |-> IF i = None THEN None ELSE "ok"],
                         inventory |-> i, sealed |-> [a \in Artifacts |-> None],
                         marker |-> NoMarker]
  /\ rest = IdleRest
  /\ faults = 0
  /\ between = [j \in Jobs |-> {}] /\ lost = {}
-----------------------------------------------------------------------------
(* Helpers *)

\* moment_media and the primary store.
Rows == {k \in Images : life[k] \in {"live", "lost", "erasing"}}
Blobs == {k \in Images : life[k] = "live"}

At(j, pc) == job[j].pc = pc
Become(j, new) == job' = [job EXCEPT ![j] = new]
To(j, pc) == Become(j, [job[j] EXCEPT !.pc = pc])
JobFails(j) == Become(j, [job[j] EXCEPT !.pc = "failed", !.todo = {}, !.seen = NoMarker])
\* A loop over objects: its next object in a fixed order, and where it goes on.
First(todo) == CHOOSE x \in todo : TRUE
Loop(todo, pc, next) == IF todo = {} THEN next ELSE pc
Works(j, pc, todo, next) ==
  Become(j, [job[j] EXCEPT !.pc = Loop(todo, pc, next), !.todo = todo])
Handled(j, x, next) == Works(j, job[j].pc, job[j].todo \ {x}, next)

\* A MAC or an authentication tag verifies under NOVA_BACKUP_KEY.
Authentic(x) == x \in Jobs

LeaveRemote == UNCHANGED <<kind, life, remote, rest, faults, history>>
ButRemote == UNCHANGED <<kind, life, rest, faults, history>>
-----------------------------------------------------------------------------
(* backup.sh: the database and the images *)

\* pg_dump: one snapshot.
Dump(j) == /\ At(j, "idle")
           /\ Become(j, [job[j] EXCEPT !.pc = "list", !.rows = Rows])
           /\ between' = [between EXCEPT ![j] = {k \in Images : life[k] = "erasing"}]
           /\ UNCHANGED <<kind, life, remote, rest, faults, lost>>

\* An s3 store: the keys moment_media references now ...
List(j) == /\ At(j, "list") /\ kind = "s3"
           /\ Become(j, [job[j] EXCEPT !.pc = Loop(Rows, "scan", "commit"), !.keys = Rows,
                                       !.todo = Rows, !.made = {"db"}])
           /\ LeaveRemote

\* ... an fs store: a tar of its root, if anything was ever stored there.
Tar(j) == /\ At(j, "list") /\ kind = "fs"
          /\ Become(j, [job[j] EXCEPT !.pc = "artifacts", !.keys = Blobs,
               !.made = IF \A k \in Images : life[k] = "unborn" THEN {"db"} ELSE {"db", "media"}])
          /\ LeaveRemote

\* Phase A reads every object; one that is missing ends the backup uncommitted.
NextScan(j, todo, keys) ==
  IF todo = {} THEN Become(j, [job[j] EXCEPT !.pc = Loop(keys, "copy", "commit"),
                                             !.todo = keys, !.keys = keys])
  ELSE Become(j, [job[j] EXCEPT !.todo = todo, !.keys = keys])
Scan_Skip(j) ==
  /\ At(j, "scan")
  /\ LET k == First(job[j].todo)
     IN NextScan(j, job[j].todo \ {k}, IF k \in Blobs THEN job[j].keys ELSE job[j].keys \ {k})
  /\ LeaveRemote
Scan(j) ==
  /\ At(j, "scan")
  /\ LET k == First(job[j].todo)
     IN IF k \in Blobs THEN NextScan(j, job[j].todo \ {k}, job[j].keys) ELSE JobFails(j)
  /\ LeaveRemote

\* Phase B copies what was read, unless the object is there already ...
Copy(j) ==
  /\ At(j, "copy")
  /\ LET k == First(job[j].todo)
         left == job[j].todo \ {k}
     IN /\ remote' = [remote EXCEPT !.media[k] = "ok"]
        /\ IF left = {} THEN Works(j, "recheck", job[j].keys, "commit") ELSE Handled(j, k, "")
  /\ ButRemote

\* ... re-reads every object ...
Recheck(j) ==
  /\ At(j, "recheck")
  /\ LET k == First(job[j].todo)
     IN IF remote.media[k] = "ok" THEN Handled(j, k, "commit") ELSE JobFails(j)
  /\ LeaveRemote

\* ... and publishes the inventory last.
Commit(j) == /\ At(j, "commit")
             /\ To(j, "artifacts")
             /\ remote' = [remote EXCEPT !.inventory = j]
             /\ ButRemote

\* What the manifest lists: every artifact that was sealed.
Listed(j) == job[j].made

\* backup:seal encrypts the artifacts in a private workspace and writes their
\* manifest; mv takes the set into the backup directory, the manifest after the
\* artifacts, and the inventory of an s3 store last.
Seal(j) == /\ At(j, "artifacts")
           /\ Become(j, [job[j] EXCEPT !.pc = "manifest", !.dir = Listed(j)])
           /\ LeaveRemote

Move(j) ==
  /\ \/ At(j, "manifest") /\ Become(j, [job[j] EXCEPT !.dir = @ \cup {"manifest"},
                                 !.pc = IF kind = "s3" THEN "inventory" ELSE "publish"])
     \/ At(j, "inventory") /\ Become(j, [job[j] EXCEPT !.dir = @ \cup {"inventory"},
          !.pc = Loop(job[j].keys, "verifymedia", "publish"), !.todo = job[j].keys])
  /\ LeaveRemote

\* media:verify-backup-s3 over the local inventory.
VerifyMedia(j) ==
  /\ At(j, "verifymedia")
  /\ LET k == First(job[j].todo)
     IN IF remote.media[k] = "ok" THEN Handled(j, k, "publish") ELSE JobFails(j)
  /\ LeaveRemote
-----------------------------------------------------------------------------
(* backup.sh: publishing the set *)

\* verifyBackup of the local directory: the manifest and every file it lists.
LocalOk(j) == "manifest" \in job[j].dir /\ Listed(j) \subseteq job[j].dir

\* localArtifacts: what the manifest lists, itself, and the inventory if present.
localArtifacts_Sealed(j) == Listed(j) \cup {"manifest"}
localArtifacts(j) == Listed(j) \cup {"manifest"} \cup (job[j].dir \cap {"inventory"})

\* Without NOVA_BACKUP_PUBLISH_S3 the set stays local.
Publish(j) ==
  /\ At(j, "publish")
  /\ \/ LocalOk(j) /\ Works(j, "upload", localArtifacts(j), "marker")
     \/ To(j, "local")
  /\ LeaveRemote

\* backup:publish-s3 by hand over the directory of an interrupted run.
PublishByHand(j) ==
  /\ At(j, "failed") /\ LocalOk(j) /\ ~job[j].hand
  /\ Become(j, [job[j] EXCEPT !.pc = "upload", !.todo = localArtifacts(j), !.hand = TRUE])
  /\ LeaveRemote

\* Each artifact is put and read back ...
Upload(j) ==
  /\ At(j, "upload")
  /\ To(j, "reread")
  /\ remote' = [remote EXCEPT !.sealed[First(job[j].todo)] = j]
  /\ ButRemote

Reread_Retry(j) ==
  /\ At(j, "reread") /\ remote.sealed[First(job[j].todo)] = j
  /\ Works(j, "upload", job[j].todo \ {First(job[j].todo)}, "marker")
  /\ LeaveRemote
Reread(j) ==
  /\ At(j, "reread")
  /\ LET a == First(job[j].todo)
     IN IF remote.sealed[a] = j THEN Works(j, "upload", job[j].todo \ {a}, "marker")
        ELSE JobFails(j)
  /\ LeaveRemote

\* ... and the authenticated marker written last.
PutMarker_First(j) ==
  /\ At(j, "upload")
  /\ To(j, "marker")
  /\ remote' = [remote EXCEPT !.marker = [job |-> j, names |-> localArtifacts(j)]]
  /\ ButRemote
PutMarker(j) ==
  /\ At(j, "marker")
  /\ To(j, "verify")
  /\ remote' = [remote EXCEPT !.marker = [job |-> j, names |-> localArtifacts(j)]]
  /\ ButRemote

\* backup:verify-s3: the marker authenticates and every artifact is the one it
\* names; only then is the backup reported durable.
VerifyRemote(j) ==
  /\ \/ /\ At(j, "verify")
        /\ IF Authentic(remote.marker.job)
           THEN Become(j, [job[j] EXCEPT !.pc = "check", !.seen = remote.marker,
                                         !.todo = remote.marker.names])
           ELSE JobFails(j)
     \/ /\ At(j, "check")
        /\ LET a == First(job[j].todo)
           IN IF remote.sealed[a] # job[j].seen.job THEN JobFails(j)
              ELSE IF job[j].todo = {a}
              THEN Become(j, [job[j] EXCEPT !.pc = "durable", !.todo = {}, !.seen = NoMarker])
              ELSE Handled(j, a, "check")
  /\ LeaveRemote

Step(j) ==
  \/ Dump(j) \/ List(j) \/ Tar(j) \/ Scan(j) \/ Copy(j) \/ Recheck(j) \/ Commit(j)
  \/ Seal(j) \/ Move(j) \/ VerifyMedia(j)
  \/ Publish(j) \/ Upload(j) \/ Reread(j) \/ PutMarker(j) \/ VerifyRemote(j)
-----------------------------------------------------------------------------
(* Restore *)

RestAt(pc) == rest.pc = pc
RestTo(pc) == rest' = [rest EXCEPT !.pc = pc]
RestFails == rest' = [IdleRest EXCEPT !.pc = "failed"]
RestHandled(x, next) ==
  rest' = [rest EXCEPT !.todo = @ \ {x}, !.pc = Loop(rest.todo \ {x}, @, next)]
ButRest == UNCHANGED <<kind, life, job, remote, faults, history>>

\* backup:fetch-s3 of the stamp, or a restore from the directory of a job.
Fetch == RestAt("idle") /\ RestTo("marker") /\ ButRest
TakeLocal(j) ==
  /\ RestAt("idle") /\ job[j].pc \in {"local", "durable", "failed"} /\ job[j].dir # {}
  /\ rest' = [rest EXCEPT !.pc = "verify",
       !.got = [a \in Artifacts |-> IF a \in job[j].dir THEN j ELSE None]]
  /\ ButRest

\* The marker must authenticate.
TakeMarker(marker, next) ==
  rest' = [rest EXCEPT !.pc = next, !.seen = marker, !.todo = marker.names]
FetchMarker ==
  /\ RestAt("marker")
  /\ IF Authentic(remote.marker.job) THEN TakeMarker(remote.marker, "check") ELSE RestFails
  /\ ButRest

\* After verifying, the fetch reads it again and only parses it: of a marker that
\* decayed in between, it takes the entries of a run that are still legible.
FetchMarkerAgain ==
  /\ RestAt("again")
  /\ IF Authentic(remote.marker.job) THEN TakeMarker(remote.marker, "get")
     ELSE \/ RestFails
          \/ \E i \in Jobs : \E names \in (SUBSET localArtifacts(i)) \ {{}} :
               TakeMarker([job |-> i, names |-> names], "get")
  /\ ButRest

\* verifySealedBackupRemote: every artifact is the one the marker names.
FetchCheck ==
  /\ RestAt("check")
  /\ LET a == First(rest.todo)
     IN IF remote.sealed[a] = rest.seen.job THEN RestHandled(a, "again") ELSE RestFails
  /\ ButRest

\* Each artifact is downloaded, checked again, and written to the directory.
Download(a, what) ==
  rest' = [rest EXCEPT !.todo = @ \ {a}, !.pc = Loop(rest.todo \ {a}, "get", "verify"),
                       !.got[a] = what]
FetchGet_Unchecked ==
  /\ RestAt("get")
  /\ LET a == First(rest.todo) IN Download(a, remote.sealed[a])
  /\ ButRest
FetchGet ==
  /\ RestAt("get")
  /\ LET a == First(rest.todo)
     IN IF remote.sealed[a] = rest.seen.job THEN Download(a, rest.seen.job) ELSE RestFails
  /\ ButRest

\* verifyBackup: the manifest authenticates and every file it lists is the one
\* it was written for.
VerifySet ==
  /\ RestAt("verify")
  /\ LET m == rest.got["manifest"]
     IN IF Authentic(m) /\ \A a \in Listed(m) : rest.got[a] = m
        THEN rest' = [rest EXCEPT !.pc = "restore", !.seen = NoMarker] ELSE RestFails
  /\ ButRest

\* A restore that is over writes nowhere.
Over(r) == IF r.pc = "done" THEN [r EXCEPT !.mode = None, !.dest = {}] ELSE r

\* restore.sh: the guard passes the target, the operator confirms, the set is
\* verified and unsealed, the guard passes again, pg_restore drops and recreates
\* every object; an fs store is overlaid with the tar next, if there is one.
HasTar == Authentic(rest.got["media"])
RestoreDb(mode, overPrimary) ==
  /\ RestAt("restore")
  /\ \E root \in Roots :
       rest' = Over([rest EXCEPT !.mode = mode,
         !.overPrimary = mode = "authorized-scratch" /\ overPrimary,
         !.dest = IF kind = "fs" THEN {root} ELSE {},
         !.pc = IF kind = "s3" THEN "media" ELSE IF HasTar THEN "untar" ELSE "done"])
  /\ ButRest
Untar ==
  /\ RestAt("untar")
  /\ rest' = Over([rest EXCEPT !.pc = "done",
       !.media = [k \in Images |-> IF k \in job[rest.got["media"]].keys THEN "ok" ELSE None]])
  /\ ButRest

\* media:restore-s3 takes the inventory of the directory, or the one the backup
\* store holds, once it authenticates.
Verifying(i, keys) ==
  rest' = Over([rest EXCEPT !.pc = Loop(keys, "verifymedia", "done"), !.inventory = i,
                            !.todo = keys])
MediaStart ==
  /\ RestAt("media")
  /\ \E i \in {rest.got["inventory"], remote.inventory} :
       IF Authentic(i) THEN Verifying(i, job[i].keys) ELSE RestFails
  /\ ButRest

\* verifyMediaBackup, and then the guard of the destination.  The gate starts no
\* drill with the escape hatch over the primary store set.
MediaVerify ==
  /\ RestAt("verifymedia")
  /\ LET k == First(rest.todo)
     IN \/ remote.media[k] # "ok" /\ RestFails
        \/ /\ remote.media[k] = "ok" /\ rest.todo # {k}
           /\ RestHandled(k, "copy")
        \/ /\ remote.media[k] = "ok" /\ rest.todo = {k}
           /\ \E dest \in Identities :
                IF MayWrite(dest, rest.mode = "manual")
                THEN rest' = [rest EXCEPT !.pc = "copy", !.todo = job[rest.inventory].keys,
                                          !.dest = {canonicalizeIdentity(dest)}]
                ELSE RestFails
  /\ ButRest

\* Each object is read again, checked and written; one that is wrong by now is left
\* out and reported.
MediaCopied(k, got, short) ==
  LET left == rest.todo \ {k}
  IN IF left = {} /\ short THEN RestFails
     ELSE rest' = Over([rest EXCEPT !.todo = left, !.media[k] = got, !.short = short,
                                    !.pc = Loop(left, "copy", "done")])
MediaCopy ==
  /\ RestAt("copy")
  /\ LET k == First(rest.todo)
     IN IF remote.media[k] = "ok" THEN MediaCopied(k, "ok", rest.short)
        ELSE MediaCopied(k, None, TRUE)
  /\ ButRest

RestStep ==
  \/ Fetch
  \/ \E j \in Jobs : TakeLocal(j)
  \/ FetchMarker \/ FetchCheck \/ FetchMarkerAgain \/ FetchGet
  \/ VerifySet
  \/ \E over \in DrillTargets : RestoreDb("authorized-scratch", over)
  \/ \E over \in ManualTargets : RestoreDb("manual", over)
  \/ Untar \/ MediaStart \/ MediaVerify \/ MediaCopy
-----------------------------------------------------------------------------
(* The application, and faults *)

Capture(k) == /\ life[k] = "unborn"
              /\ life' = [life EXCEPT ![k] = "live"]
              /\ UNCHANGED <<kind, job, remote, rest, faults, history>>

\* A deletion erases the blob, and later, or never if it dies, the row.
Erase(k) ==
  /\ life[k] \in {"live", "lost"}
  /\ life' = [life EXCEPT ![k] = "erasing"]
  /\ between' = [j \in Jobs |-> IF At(j, "list") THEN between[j] \cup {k} ELSE between[j]]
  /\ UNCHANGED <<kind, job, remote, rest, faults, lost>>

Forget(k) == /\ life[k] = "erasing"
             /\ life' = [life EXCEPT ![k] = "gone"]
             /\ UNCHANGED <<kind, job, remote, rest, faults, history>>

Fault == faults < MaxFaults /\ faults' = faults + 1

\* The primary store loses a blob.
LoseBlob(k) ==
  /\ Fault /\ life[k] = "live"
  /\ life' = [life EXCEPT ![k] = "lost"] /\ lost' = lost \cup {k}
  /\ UNCHANGED <<kind, job, remote, rest, between>>

\* An object of the backup store is lost or altered.
Decay ==
  /\ Fault
  /\ \/ \E k \in Images : /\ remote.media[k] = "ok"
                          /\ remote' = [remote EXCEPT !.media[k] = Bad]
     \/ \E a \in Artifacts : /\ remote.sealed[a] \in Jobs
                             /\ remote' = [remote EXCEPT !.sealed[a] = Bad]
     \/ /\ remote.marker.job \in Jobs
        /\ remote' = [remote EXCEPT !.marker = [NoMarker EXCEPT !.job = Bad]]
     \/ /\ remote.inventory \in Jobs
        /\ remote' = [remote EXCEPT !.inventory = Bad]
  /\ UNCHANGED <<kind, life, job, rest, history>>

\* A command or its machine dies, or a call throws; what it wrote stays.
Ended == {"local", "durable", "failed"}
JobDies(j) ==
  /\ Fault /\ job[j].pc \notin Ended \cup {"idle"}
  /\ JobFails(j)
  /\ UNCHANGED <<kind, life, remote, rest, history>>

RestDies ==
  /\ Fault /\ rest.pc \notin {"idle", "done", "failed"}
  /\ RestFails
  /\ UNCHANGED <<kind, life, job, remote, history>>

\* The operator starts the restore over.
RestAgain == RestAt("failed") /\ rest' = IdleRest /\ ButRest

Next ==
  \/ \E j \in Jobs : Step(j) \/ PublishByHand(j) \/ JobDies(j)
  \/ RestStep \/ RestDies \/ RestAgain
  \/ \E k \in Images : Capture(k) \/ Erase(k) \/ Forget(k) \/ LoseBlob(k)
  \/ Decay

Spec == Init /\ [][Next]_vars

\* A command that was started goes on: it is one sequential program.
FairSpec == Spec /\ \A j \in Jobs : WF_vars(Step(j) /\ ~At(j, "idle"))
-----------------------------------------------------------------------------
(* Properties *)

\* No other run of that second has uploaded anything or listed other images.
Alone(j) == \A i \in Jobs \ {j} : /\ job[i].pc \in {"idle", "publish", "local"}
                                  /\ job[i].made = {} \/ job[i].keys = job[j].keys

\* SAFETY: "without a valid marker a partial upload is never a valid backup", and
\* the same of an inventory: whatever a marker or an inventory lists was there
\* when it was written, whoever died or published again under the same stamp.
NoPartialCommit ==
     /\ \A a \in remote.marker.names : remote.sealed[a] # None
     /\ remote.inventory \in Jobs =>
          \A k \in job[remote.inventory].keys : remote.media[k] # None

\* SAFETY: a backup reported durable off the box stays whole there, its dump,
\* manifest, inventory and images, except for what decays, whatever other jobs
\* and manual publications do; only a run of the same second may replace it.
DurableHolds ==
  \A j \in Jobs : At(j, "durable") /\ Alone(j) =>
     /\ remote.marker.job \in {j, Bad}
     /\ \A a \in job[j].made \cup {"manifest"} : remote.sealed[a] \in {j, Bad}
     /\ kind = "s3" => /\ remote.inventory = Bad \/ job[remote.inventory].keys = job[j].keys
                       /\ \A k \in job[j].keys : remote.media[k] \in {"ok", Bad}
                       /\ ~job[j].hand => remote.sealed["inventory"] \in {j, Bad}

\* SAFETY: a restore that passed verification works on the files of one run of
\* backup.sh, even if the set was published over between the two readings of its
\* marker or between two downloads; the manifest does not bind the inventory.  When
\* it reports success, every image its database refers to is there as it was
\* captured, except one whose deletion was under way at the dump or began before the
\* images were listed, or, from an fs store, one whose blob was already lost.
RestoredWhole ==
  LET j == rest.got["db"] IN
  /\ rest.pc \in {"restore", "untar", "media", "verifymedia", "copy", "done"} =>
       \E i \in Jobs : \A a \in Artifacts : rest.got[a] \in {i, None}
  /\ rest.pc = "done" /\ Alone(j) =>
       \A k \in job[j].rows : \/ rest.media[k] = "ok"
                              \/ k \in between[j]
                              \/ kind = "fs" /\ k \in lost

\* SAFETY: a drill never writes to the primary database, however its URL is
\* spelled, nor by media:restore-s3 to the primary store, and no restore to the
\* backup store it reads, however oddly they are spelled, but for an alias of their
\* host or scheme, which the guards take for another store.  Of the root a drill
\* unpacks an fs store into it says nothing: restore.sh does not look at it.
DrillSparesPrimary ==
  /\ ~rest.overPrimary
  /\ kind = "s3" => \A d \in rest.dest :
       \/ d.alias
       \/ d.store # "backup" /\ (rest.mode = "authorized-scratch" => d.store # "primary")

\* LIVENESS: while the stores answer, a backup that was started ends, with a claim or an
\* error: time and again none is under way, and each is started once and published by
\* hand once at most.
JobEnds == []<>(\A j \in Jobs : job[j].pc \in Ended \cup {"idle"})
=============================================================================
