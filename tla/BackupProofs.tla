----------------------------- MODULE BackupProofs -----------------------------
(***************************************************************************)
(* Proofs about Backup, for any number of runs of backup.sh of one second, *)
(* any images, any starting point and any number of faults.                *)
(*                                                                         *)
(* Two facts carry the argument.  What a run lists is settled when it has  *)
(* dumped and listed: from then on (made is not empty) its rows, keys and  *)
(* artifacts never change, so an inventory, a marker or a downloaded file  *)
(* that names the run keeps naming the same images.  And what a run wrote  *)
(* off the box is never withdrawn: a decayed object is Bad, not None.  So  *)
(* it suffices that each loop has written what is no longer on its list    *)
(* when the commit record that ends it is put.                             *)
(***************************************************************************)
EXTENDS Backup, TLAPS

Lives == {"unborn", "live", "lost", "erasing", "gone"}
Marks == {None, "ok", Bad}
Owners == Jobs \cup {None, Bad}
Markers == [job : Owners, names : SUBSET Artifacts]

Publishing == {"upload", "reread", "marker", "verify", "check", "durable"}
JobPlaces == {"idle", "list", "scan", "copy", "recheck", "commit", "artifacts", "manifest",
              "inventory", "verifymedia", "publish", "local", "failed"} \cup Publishing
RestPlaces == {"idle", "marker", "check", "again", "get", "verify", "restore", "untar", "media",
               "verifymedia", "copy", "done", "failed"}

JobType == [pc : JobPlaces, rows : SUBSET Images, keys : SUBSET Images,
            made : SUBSET {"db", "media"}, todo : SUBSET (Images \cup Artifacts),
            dir : SUBSET Artifacts, seen : Markers, hand : BOOLEAN]
RemoteType == [media : [Images -> Marks], inventory : Owners, sealed : [Artifacts -> Owners],
               marker : Markers]
RestType == [pc : RestPlaces, todo : SUBSET (Images \cup Artifacts), seen : Markers,
             got : [Artifacts -> Owners], mode : {None, "authorized-scratch", "manual"},
             overPrimary : BOOLEAN, dest : SUBSET Identities, inventory : Owners,
             media : [Images -> Marks], short : BOOLEAN]

TypeInv ==
  /\ kind \in {"s3", "fs"} /\ life \in [Images -> Lives]
  /\ job \in [Jobs -> JobType] /\ remote \in RemoteType /\ rest \in RestType
  /\ between \in [Jobs -> SUBSET Images]

\* What a backup owes an image of its dump, before and after the images are listed.
Pending(j, q) ==
  \A k \in q.rows : /\ life[k] # "unborn"
                    /\ k \in between[j] \/ life[k] = "live" \/ (life[k] = "lost" /\ k \in lost)
Covers(j, q) ==
  /\ \A k \in q.rows : k \in q.keys \/ k \in between[j] \/ (kind = "fs" /\ k \in lost)
  /\ kind = "fs" => "media" \in q.made \/ q.rows = {}

\* A run by itself: it has its database first, moves what it sealed, and publishes a
\* set with a manifest, of an s3 store with the inventory unless an operator does it.
Ordered(q) ==
  /\ q.pc \in {"idle", "list"} => q.made = {}
  /\ q.pc \in {"scan", "copy", "recheck", "commit", "artifacts"} => "db" \in q.made /\ q.dir = {}
  /\ q.pc \in {"manifest", "inventory", "verifymedia", "publish"} \cup Publishing => q.dir # {}
  /\ q.pc = "inventory" => kind = "s3"
  /\ q.dir # {} => "db" \in q.made
  /\ q.pc \in {"verifymedia", "publish"} \cup Publishing /\ ~q.hand /\ kind = "s3"
       => "inventory" \in q.dir

\* The loops of a run, and what they have written so far.
Copied(q) ==
  /\ q.pc \in {"scan", "copy", "recheck"} => q.todo # {} /\ q.todo \subseteq q.keys
  /\ q.pc = "copy" => \A k \in q.keys \ q.todo : remote.media[k] # None
  /\ q.pc \in {"recheck", "commit"} => \A k \in q.keys : remote.media[k] # None
  /\ kind = "s3" /\ (q.pc = "artifacts" \/ q.dir # {})
       => remote.inventory # None /\ \A k \in q.keys : remote.media[k] # None

Names(q) == q.made \cup {"manifest"} \cup (q.dir \cap {"inventory"})
Uploaded(q) ==
  /\ q.pc \in {"upload", "reread"} =>
       /\ q.todo # {} /\ q.todo \subseteq Names(q)
       /\ \A a \in Names(q) \ q.todo : remote.sealed[a] # None
  /\ q.pc \in {"marker", "verify", "check", "durable"} =>
       \A a \in Names(q) : remote.sealed[a] # None
  /\ q.pc \in {"verify", "check", "durable"} => remote.marker.job # None

JobGood(j, q) ==
  /\ q.pc = "list" => Pending(j, q)
  /\ q.made # {} => Covers(j, q)
  /\ Ordered(q) /\ Copied(q) /\ Uploaded(q)

\* What the backup store says of a run is what the run did.
HasPublished(x) ==
  x \in Jobs => job[x].pc \in Publishing \cup {"failed"} /\ "db" \in job[x].made
RemoteOK ==
  /\ remote.inventory \in Jobs =>
       /\ job[remote.inventory].made # {}
       /\ \A k \in job[remote.inventory].keys : remote.media[k] # None
  /\ \A a \in Artifacts : HasPublished(remote.sealed[a])
  /\ HasPublished(remote.marker.job)
  /\ remote.marker.job \in Jobs => remote.marker.names # {}
  /\ \A a \in remote.marker.names : remote.sealed[a] # None

\* The files a restore has are one run's; what it restored is what they list.
Unpacking == {"restore", "untar", "media", "verifymedia", "copy", "done"}
OneRun(r, x) == \A a \in Artifacts : r.got[a] \in {x, None}
FilesOK(r) ==
  /\ \A a \in Artifacts : r.got[a] \in Jobs => "db" \in job[r.got[a]].made
  /\ r.pc \in {"idle", "marker", "check", "again"} => OneRun(r, None)
  /\ r.pc \in {"check", "get"} => /\ r.seen.job \in Jobs
                                  /\ r.todo # {} /\ r.todo \subseteq Artifacts
  /\ r.pc = "get" => OneRun(r, r.seen.job)
  /\ r.pc \in {"verify"} \cup Unpacking => \E i \in Jobs : OneRun(r, i)
  /\ r.pc \in Unpacking => \E m \in Jobs : /\ OneRun(r, m) /\ r.got["db"] = m
                                          /\ \A a \in job[m].made : r.got[a] = m
ImagesOK(r) ==
  /\ r.inventory \in Jobs => job[r.inventory].made # {}
  /\ r.pc \in {"media", "verifymedia", "copy"} => kind = "s3"
  /\ r.pc = "untar" => kind = "fs" /\ r.got["media"] \in Jobs
  /\ r.pc \in {"verifymedia", "copy"} =>
       /\ r.inventory \in Jobs
       /\ r.todo # {} /\ r.todo \subseteq job[r.inventory].keys
  /\ r.pc = "copy" => \A k \in job[r.inventory].keys \ r.todo : r.media[k] = "ok" \/ r.short
  /\ r.pc = "done" /\ kind = "s3" => /\ r.inventory \in Jobs
                                     /\ \A k \in job[r.inventory].keys : r.media[k] = "ok"
  /\ r.pc = "done" /\ kind = "fs" /\ r.got["media"] \in Jobs =>
       \A k \in job[r.got["media"]].keys : r.media[k] = "ok"

BackupInv ==
  /\ TypeInv
  /\ \A k \in Images : life[k] = "lost" => k \in lost
  /\ \A j \in Jobs : JobGood(j, job[j])
  /\ RemoteOK /\ FilesOK(rest) /\ ImagesOK(rest)

LEMMA NotJobs == None \notin Jobs /\ Bad \notin Jobs /\ None # Bad
  BY BackupOK DEF BackupOK, None, Bad

LEMMA FirstIn ==
  ASSUME NEW S, S # {}
  PROVE  First(S) \in S
  BY DEF First

LEMMA Typed ==
  ASSUME BackupInv
  PROVE  /\ kind \in {"s3", "fs"} /\ life \in [Images -> Lives]
         /\ job \in [Jobs -> JobType] /\ remote \in RemoteType /\ rest \in RestType
         /\ between \in [Jobs -> SUBSET Images]
         /\ \A j \in Jobs : job[j] \in JobType /\ JobGood(j, job[j])
  BY DEF BackupInv, TypeInv
-----------------------------------------------------------------------------
(* The initial states *)

LEMMA InitBackup == Init => BackupInv
  <1> SUFFICES ASSUME Init PROVE BackupInv
    OBVIOUS
  <1> DEFINE ready(start) == {j \in Jobs : start.at[j] = "publish"}
  <1>1. PICK start \in Starts :
          /\ kind = start.kind
          /\ job = [j \in Jobs |-> IF j \in ready(start) THEN ReadyJob
                                   ELSE [IdleJob EXCEPT !.pc = start.at[j]]]
          /\ life = [k \in Images |-> IF ready(start) # {} THEN "gone"
                                      ELSE IF k \in start.live THEN "live" ELSE "unborn"]
          /\ \E i \in IF ready(start) # {} /\ kind = "s3" THEN ready(start) ELSE {None} :
               remote = [media |-> [k \in Images |-> IF i = None THEN None ELSE "ok"],
                         inventory |-> i, sealed |-> [a \in Artifacts |-> None],
                         marker |-> NoMarker]
    BY DEF Init
  <1>2. PICK i \in IF ready(start) # {} /\ kind = "s3" THEN ready(start) ELSE {None} :
          remote = [media |-> [k \in Images |-> IF i = None THEN None ELSE "ok"],
                    inventory |-> i, sealed |-> [a \in Artifacts |-> None],
                    marker |-> NoMarker]
    BY <1>1
  <1>3. start.kind \in {"s3", "fs"} /\ \A j \in Jobs : start.at[j] \in {"idle", "publish", "local"}
    BY BackupOK DEF BackupOK
  <1>4. NoMarker \in Markers /\ NoMarker.job = None /\ NoMarker.names = {}
    BY DEF NoMarker, Markers, Owners
  <1>5. kind \in {"s3", "fs"} /\ life \in [Images -> Lives]
    BY <1>1, <1>3 DEF Lives
  <1>6. i \in Jobs \cup {None}
    BY <1>2
  <1>7. /\ remote \in RemoteType /\ remote.inventory = i /\ remote.marker = NoMarker
        /\ \A a \in Artifacts : remote.sealed[a] = None
        /\ \A k \in Images : remote.media[k] = IF i = None THEN None ELSE "ok"
    BY <1>2, <1>4, <1>6 DEF RemoteType, Owners, Marks
  <1>8. /\ IdleJob \in JobType /\ \A pc \in JobPlaces : [IdleJob EXCEPT !.pc = pc] \in JobType
        /\ \A pc \in JobPlaces : LET q == [IdleJob EXCEPT !.pc = pc]
                                 IN  q.pc = pc /\ q.rows = {} /\ q.made = {} /\ q.dir = {}
    BY <1>4 DEF IdleJob, JobType, JobPlaces, Artifacts
  <1>9. /\ ReadyJob \in JobType /\ ReadyJob.pc = "publish" /\ ReadyJob.rows = Images
        /\ ReadyJob.keys = Images /\ ReadyJob.hand = FALSE
        /\ ReadyJob.made = (IF kind = "s3" THEN {"db"} ELSE {"db", "media"})
        /\ ReadyJob.dir = {"db", "manifest", IF kind = "s3" THEN "inventory" ELSE "media"}
    BY <1>4 DEF ReadyJob, IdleJob, JobType, JobPlaces, Artifacts
  <1>10. ASSUME NEW j \in Jobs
         PROVE  job[j] \in JobType /\ JobGood(j, job[j])
    <2>1. CASE j \in ready(start)
      <3>1. job[j] = ReadyJob
        BY <1>1, <2>1
      <3>2. kind = "s3" => i \in Jobs /\ i # None
        BY <1>2, <2>1, NotJobs
      <3>3. kind = "s3" => remote.inventory # None /\ \A k \in Images : remote.media[k] # None
        BY <1>7, <3>2 DEF None
      <3>4. Ordered(ReadyJob)
        BY <1>9 DEF Ordered, Publishing
      <3>5. Copied(ReadyJob) /\ Uploaded(ReadyJob)
        BY <1>9, <3>3 DEF Copied, Uploaded
      <3>6. Covers(j, ReadyJob)
        BY <1>5, <1>9 DEF Covers
      <3> QED
        BY <1>9, <3>1, <3>4, <3>5, <3>6 DEF JobGood
    <2>2. CASE j \notin ready(start)
      <3>1. job[j] = [IdleJob EXCEPT !.pc = start.at[j]] /\ start.at[j] \in {"idle", "local"}
        BY <1>1, <1>3, <2>2
      <3>2. start.at[j] \in JobPlaces
        BY <3>1 DEF JobPlaces
      <3>3. /\ job[j] \in JobType /\ job[j].pc \in {"idle", "local"}
            /\ job[j].made = {} /\ job[j].dir = {}
        BY <1>8, <3>1, <3>2
      <3>4. Ordered(job[j]) /\ Copied(job[j]) /\ Uploaded(job[j])
        BY <3>3 DEF Ordered, Copied, Uploaded, Publishing
      <3> QED
        BY <3>3, <3>4 DEF JobGood
    <2> QED
      BY <2>1, <2>2
  <1>11. job \in [Jobs -> JobType]
    BY <1>1, <1>10
  <1>12. between \in [Jobs -> SUBSET Images] /\ rest = IdleRest
    BY DEF Init
  <1>13. /\ IdleRest \in RestType /\ IdleRest.pc = "idle" /\ IdleRest.inventory = None
         /\ \A a \in Artifacts : IdleRest.got[a] = None
    BY <1>4 DEF IdleRest, RestType, RestPlaces, Owners, Marks
  <1>14. FilesOK(rest) /\ ImagesOK(rest)
    BY <1>12, <1>13, NotJobs DEF FilesOK, ImagesOK, OneRun, Unpacking
  <1>15. RemoteOK
    <2>1. i \in Jobs => job[i] = ReadyJob
      BY <1>1, <1>2, NotJobs
    <2>2. i \in Jobs => job[i].made # {} /\ \A k \in job[i].keys : remote.media[k] # None
      <3>1. ReadyJob.made # {}
        BY <1>9
      <3>2. i \in Jobs => \A k \in Images : remote.media[k] # None
        BY <1>7, NotJobs DEF None
      <3> QED
        BY <1>9, <2>1, <3>1, <3>2
    <2> QED
      BY <1>4, <1>7, <2>2, NotJobs DEF RemoteOK, HasPublished
  <1>16. \A k \in Images : life[k] # "lost"
    BY <1>1
  <1> QED
    BY <1>5, <1>7, <1>10, <1>11, <1>12, <1>13, <1>14, <1>15, <1>16 DEF BackupInv, TypeInv

-----------------------------------------------------------------------------
(* Frames *)

\* Nothing that was written off the box is withdrawn.
RemoteGrows ==
  /\ \A k \in Images : remote.media[k] # None => remote'.media[k] # None
  /\ \A a \in Artifacts : remote.sealed[a] # None => remote'.sealed[a] # None
  /\ remote.inventory # None => remote'.inventory # None
  /\ remote.marker.job # None => remote'.marker.job # None

\* What a run has settled stays, and a run that published is known as such.
Follows(q, new) ==
  /\ q.made # {} => new.made = q.made /\ new.keys = q.keys /\ new.rows = q.rows
  /\ q.pc \in Publishing \cup {"failed"} => new.pc \in Publishing \cup {"failed"}

LEMMA GoodGrows ==
  ASSUME NEW j \in Jobs, NEW q \in JobType, JobGood(j, q), kind' = kind,
         between[j] \subseteq between'[j], lost \subseteq lost', RemoteGrows,
         q.pc = "list" => Pending(j, q)'
  PROVE  JobGood(j, q)'
  <1>1. /\ q.rows \subseteq Images /\ q.keys \subseteq Images /\ q.made \subseteq Artifacts
        /\ q.dir \subseteq Artifacts
    BY DEF JobType, Artifacts
  <1>2. Names(q) \subseteq Artifacts
    BY <1>1 DEF Names, Artifacts
  <1>3. q.made # {} => Covers(j, q)'
    BY <1>1 DEF JobGood, Covers
  <1>4. Ordered(q)'
    BY DEF JobGood, Ordered
  <1>5. Copied(q)'
    BY <1>1 DEF JobGood, Copied, RemoteGrows
  <1>6. Uploaded(q)'
    BY <1>2 DEF JobGood, Uploaded, RemoteGrows, Names
  <1> QED
    BY <1>3, <1>4, <1>5, <1>6 DEF JobGood

\* What a restore knows of the runs survives a step of theirs.
LEMMA RestFollows ==
  ASSUME BackupInv, job' \in [Jobs -> JobType], kind' = kind, rest' = rest,
         \A i \in Jobs : Follows(job[i], job'[i])
  PROVE  FilesOK(rest)' /\ ImagesOK(rest)'
  <1>1. /\ rest \in RestType /\ FilesOK(rest) /\ ImagesOK(rest)
    BY DEF BackupInv, TypeInv
  <1>2. \A i \in Jobs : "db" \in job[i].made =>
          job'[i].made = job[i].made /\ job'[i].keys = job[i].keys
    BY DEF Follows
  <1>3. \A i \in Jobs : job[i].made # {} =>
          job'[i].made = job[i].made /\ job'[i].keys = job[i].keys
    BY DEF Follows
  <1>4. FilesOK(rest)'
    <2>1. ASSUME NEW a \in Artifacts, rest.got[a] \in Jobs
          PROVE  "db" \in job'[rest.got[a]].made
      BY <1>1, <1>2, <2>1 DEF FilesOK
    <2>2. ASSUME rest.pc \in Unpacking
          PROVE  \E m \in Jobs : /\ OneRun(rest, m) /\ rest.got["db"] = m
                                 /\ \A a \in job'[m].made : rest.got[a] = m
      <3>1. PICK m \in Jobs : /\ OneRun(rest, m) /\ rest.got["db"] = m
                              /\ \A a \in job[m].made : rest.got[a] = m
        BY <1>1, <2>2 DEF FilesOK
      <3>2. "db" \in job[m].made
        BY <1>1, <3>1 DEF FilesOK, Artifacts
      <3> QED
        BY <1>2, <3>1, <3>2
    <2> QED
      BY <1>1, <2>1, <2>2 DEF FilesOK, OneRun
  <1>5. ImagesOK(rest)'
    <2>1. rest.inventory \in Jobs =>
            /\ job'[rest.inventory].made # {}
            /\ job'[rest.inventory].keys = job[rest.inventory].keys
      BY <1>1, <1>3 DEF ImagesOK
    <2>2. rest.got["media"] \in Jobs =>
            job'[rest.got["media"]].keys = job[rest.got["media"]].keys
      BY <1>1, <1>2 DEF FilesOK, Artifacts
    <2> QED
      BY <1>1, <2>1, <2>2 DEF ImagesOK
  <1> QED
    BY <1>4, <1>5

\* What the backup store says of a run survives a step of another one, or of the run.
LEMMA RemoteFollows ==
  ASSUME BackupInv, remote' = remote, \A i \in Jobs : Follows(job[i], job'[i])
  PROVE  RemoteOK'
  <1>1. RemoteOK
    BY DEF BackupInv
  <1>2. \A i \in Jobs : job[i].made # {} =>
          job'[i].made = job[i].made /\ job'[i].keys = job[i].keys
    BY DEF Follows
  <1>3. \A x : HasPublished(x) => HasPublished(x)'
    BY DEF HasPublished, Follows
  <1>4. remote.inventory \in Jobs =>
          /\ job'[remote.inventory].made # {}
          /\ \A k \in job'[remote.inventory].keys : remote.media[k] # None
    BY <1>1, <1>2 DEF RemoteOK
  <1> QED
    BY <1>1, <1>3, <1>4 DEF RemoteOK

\* A step of one run.
LEMMA JobUpdate ==
  ASSUME BackupInv, NEW j \in Jobs, NEW new \in JobType, job' = [job EXCEPT ![j] = new],
         kind' = kind, life' = life, rest' = rest, lost' = lost,
         remote' \in RemoteType, RemoteGrows,
         between' \in [Jobs -> SUBSET Images],
         \A i \in Jobs \ {j} : between'[i] = between[i],
         Follows(job[j], new), JobGood(j, new)', RemoteOK'
  PROVE  BackupInv'
  <1>1. job' \in [Jobs -> JobType] /\ job'[j] = new /\ \A i \in Jobs \ {j} : job'[i] = job[i]
    BY Typed
  <1>2. \A i \in Jobs : Follows(job[i], job'[i])
    BY <1>1 DEF Follows
  <1>3. ASSUME NEW i \in Jobs
        PROVE  JobGood(i, job[i])'
    <2>1. CASE i = j
      BY <1>1, <2>1 DEF JobGood, Pending, Covers, Ordered, Copied, Uploaded, Names
    <2>2. CASE i # j
      <3>1. PICK q \in JobType : q = job[i] /\ JobGood(i, q)
        BY Typed
      <3>2. q.pc = "list" => Pending(i, q)'
        BY <2>2, <3>1 DEF JobGood, Pending
      <3>3. JobGood(i, q)'
        BY <2>2, <3>1, <3>2, GoodGrows
      <3>4. job'[i] = q
        BY <1>1, <2>2, <3>1
      <3> QED
        BY <3>3, <3>4 DEF JobGood, Pending, Covers, Ordered, Copied, Uploaded, Names
    <2> QED
      BY <2>1, <2>2
  <1>4. FilesOK(rest)' /\ ImagesOK(rest)'
    BY <1>1, <1>2, RestFollows
  <1> QED
    BY <1>1, <1>3, <1>4 DEF BackupInv, TypeInv

\* A step of one run that writes nothing off the box.
LEMMA JobLocal ==
  ASSUME BackupInv, NEW j \in Jobs, NEW new \in JobType, job' = [job EXCEPT ![j] = new],
         kind' = kind, life' = life, remote' = remote, rest' = rest, UNCHANGED history,
         Follows(job[j], new), JobGood(j, new)
  PROVE  BackupInv'
  <1>1. /\ remote' \in RemoteType /\ RemoteGrows /\ between' \in [Jobs -> SUBSET Images]
        /\ between' = between /\ lost' = lost
    BY Typed DEF RemoteGrows, history
  <1>2. \A i \in Jobs : Follows(job[i], job'[i])
    BY Typed DEF Follows
  <1>3. RemoteOK'
    BY <1>2, RemoteFollows
  <1>4. JobGood(j, new)'
    <2>1. new.pc = "list" => Pending(j, new)'
      BY <1>1 DEF JobGood, Pending
    <2> QED
      BY <1>1, <2>1, GoodGrows
  <1> QED
    BY <1>1, <1>3, <1>4, JobUpdate

LEMMA Fails ==
  ASSUME BackupInv, NEW j \in Jobs, JobFails(j), job[j].pc \notin {"idle", "local"},
         kind' = kind, life' = life, remote' = remote, rest' = rest, UNCHANGED history
  PROVE  BackupInv'
  <1>1. job[j] \in JobType /\ JobGood(j, job[j])
    BY Typed
  <1>2. NoMarker \in Markers
    BY DEF NoMarker, Markers, Owners
  <1>3. PICK new : new = [job[j] EXCEPT !.pc = "failed", !.todo = {}, !.seen = NoMarker]
    OBVIOUS
  <1>4. /\ new \in JobType /\ new.pc = "failed" /\ new.made = job[j].made /\ new.keys = job[j].keys
        /\ new.rows = job[j].rows /\ new.dir = job[j].dir /\ new.hand = job[j].hand
    BY <1>1, <1>2, <1>3 DEF JobType, JobPlaces
  <1>5. job' = [job EXCEPT ![j] = new]
    BY <1>3 DEF JobFails, Become
  <1>6. Follows(job[j], new)
    BY <1>4 DEF Follows
  <1>7. Ordered(new) /\ Copied(new) /\ Uploaded(new)
    BY <1>1, <1>4 DEF JobGood, Ordered, Copied, Uploaded, Publishing
  <1>8. new.made # {} => Covers(j, new)
    BY <1>1, <1>4 DEF JobGood, Covers
  <1>9. JobGood(j, new)
    BY <1>4, <1>7, <1>8 DEF JobGood
  <1> QED
    BY <1>4, <1>5, <1>6, <1>9, JobLocal

-----------------------------------------------------------------------------
(* backup.sh: the database and the images *)

LEMMA Dumps ==
  ASSUME BackupInv, NEW j \in Jobs, Dump(j)
  PROVE  BackupInv'
  <1>1. job[j] \in JobType /\ JobGood(j, job[j]) /\ job[j].pc = "idle"
    BY Typed DEF Dump, At
  <1>2. PICK new : new = [job[j] EXCEPT !.pc = "list", !.rows = Rows]
    OBVIOUS
  <1>3. Rows \subseteq Images
    BY DEF Rows
  <1>4. /\ new \in JobType /\ new.pc = "list" /\ new.rows = Rows /\ new.made = job[j].made
        /\ new.dir = job[j].dir
    BY <1>1, <1>2, <1>3 DEF JobType, JobPlaces
  <1>5. new.made = {} /\ new.dir = {}
    BY <1>1, <1>4 DEF JobGood, Ordered
  <1>6. /\ job' = [job EXCEPT ![j] = new] /\ kind' = kind /\ life' = life /\ rest' = rest
        /\ lost' = lost /\ remote' = remote
        /\ between' = [between EXCEPT ![j] = {k \in Images : life[k] = "erasing"}]
    BY <1>2 DEF Dump, Become
  <1>7. /\ between' \in [Jobs -> SUBSET Images] /\ remote' \in RemoteType /\ RemoteGrows
        /\ between'[j] = {k \in Images : life[k] = "erasing"}
        /\ \A i \in Jobs \ {j} : between'[i] = between[i]
    BY <1>6, Typed DEF RemoteGrows
  <1>8. Follows(job[j], new)
    BY <1>1, <1>4, <1>5 DEF Follows, Publishing
  <1>9. \A i \in Jobs : Follows(job[i], job'[i])
    BY <1>6, <1>8, Typed DEF Follows
  <1>10. RemoteOK'
    BY <1>6, <1>9, RemoteFollows
  <1>11. Pending(j, new)'
    <2> SUFFICES ASSUME NEW k \in new.rows
                 PROVE  /\ life[k] # "unborn"
                        /\ k \in between'[j] \/ life[k] = "live" \/ (life[k] = "lost" /\ k \in lost)
      BY <1>6 DEF Pending
    <2>1. k \in Images /\ life[k] \in {"live", "lost", "erasing"}
      BY <1>4 DEF Rows
    <2>2. life[k] = "lost" => k \in lost
      BY <2>1 DEF BackupInv
    <2> QED
      BY <1>7, <2>1, <2>2
  <1>12. JobGood(j, new)'
    <2>1. Ordered(new)'
      BY <1>4, <1>5, <1>6 DEF Ordered, Publishing
    <2>2. Copied(new)' /\ Uploaded(new)'
      BY <1>4, <1>5, <1>6 DEF Copied, Uploaded
    <2> QED
      BY <1>4, <1>5, <1>11, <2>1, <2>2 DEF JobGood
  <1> QED
    BY <1>4, <1>6, <1>7, <1>8, <1>10, <1>12, JobUpdate

\* What is listed covers what was dumped.
LEMMA Lists ==
  ASSUME BackupInv, NEW j \in Jobs, List(j)
  PROVE  BackupInv'
  <1>1. /\ job[j] \in JobType /\ JobGood(j, job[j]) /\ job[j].pc = "list" /\ kind = "s3"
    BY Typed DEF List, At
  <1>2. PICK new : new = [job[j] EXCEPT !.pc = Loop(Rows, "scan", "commit"), !.keys = Rows,
                                        !.todo = Rows, !.made = {"db"}]
    OBVIOUS
  <1>3. Rows \subseteq Images /\ Loop(Rows, "scan", "commit") \in JobPlaces
    BY DEF Rows, Loop, JobPlaces
  <1>4. /\ new \in JobType /\ new.pc = Loop(Rows, "scan", "commit") /\ new.keys = Rows
        /\ new.todo = Rows /\ new.made = {"db"} /\ new.rows = job[j].rows /\ new.dir = job[j].dir
    BY <1>1, <1>2, <1>3 DEF JobType
  <1>5. job[j].made = {} /\ job[j].dir = {}
    BY <1>1 DEF JobGood, Ordered
  <1>6. /\ job' = [job EXCEPT ![j] = new] /\ kind' = kind /\ life' = life /\ rest' = rest
        /\ UNCHANGED history /\ remote' = remote
    BY <1>2 DEF List, Become, LeaveRemote
  <1>7. Follows(job[j], new)
    BY <1>1, <1>5 DEF Follows, Publishing
  <1>8. Covers(j, new)
    <2>1. ASSUME NEW k \in job[j].rows
          PROVE  k \in Rows \/ k \in between[j]
      <3>1. k \in Images
        BY <1>1 DEF JobType
      <3> QED
        BY <1>1, <3>1 DEF JobGood, Pending, Rows
    <2> QED
      BY <1>1, <1>4, <2>1 DEF Covers
  <1>9. JobGood(j, new)
    <2>1. new.pc \in {"scan", "commit"} /\ (new.pc = "scan" <=> Rows # {})
      BY <1>4 DEF Loop
    <2>2. Ordered(new)
      BY <1>4, <1>5, <2>1 DEF Ordered, Publishing
    <2>3. Copied(new) /\ Uploaded(new)
      BY <1>4, <1>5, <2>1 DEF Copied, Uploaded
    <2> QED
      BY <1>8, <2>1, <2>2, <2>3 DEF JobGood
  <1> QED
    BY <1>4, <1>6, <1>7, <1>9, JobLocal

LEMMA Tars ==
  ASSUME BackupInv, NEW j \in Jobs, Tar(j)
  PROVE  BackupInv'
  <1>1. /\ job[j] \in JobType /\ JobGood(j, job[j]) /\ job[j].pc = "list" /\ kind = "fs"
    BY Typed DEF Tar, At
  <1>2. PICK made : made = IF \A k \in Images : life[k] = "unborn" THEN {"db"} ELSE {"db", "media"}
    OBVIOUS
  <1>3. PICK new : new = [job[j] EXCEPT !.pc = "artifacts", !.keys = Blobs, !.made = made]
    OBVIOUS
  <1>4. Blobs \subseteq Images /\ made \subseteq {"db", "media"} /\ "db" \in made
    BY <1>2 DEF Blobs
  <1>5. /\ new \in JobType /\ new.pc = "artifacts" /\ new.keys = Blobs
        /\ new.made = made /\ new.rows = job[j].rows /\ new.dir = job[j].dir
    BY <1>1, <1>3, <1>4 DEF JobType, JobPlaces
  <1>6. job[j].made = {} /\ job[j].dir = {}
    BY <1>1 DEF JobGood, Ordered
  <1>7. /\ job' = [job EXCEPT ![j] = new] /\ kind' = kind /\ life' = life /\ rest' = rest
        /\ UNCHANGED history /\ remote' = remote
    BY <1>2, <1>3 DEF Tar, Become, LeaveRemote
  <1>8. Follows(job[j], new)
    BY <1>1, <1>6 DEF Follows, Publishing
  <1>9. Covers(j, new)
    <2>1. ASSUME NEW k \in job[j].rows
          PROVE  /\ k \in Images /\ life[k] # "unborn"
                 /\ k \in Blobs \/ k \in between[j] \/ k \in lost
      <3>1. k \in Images
        BY <1>1 DEF JobType
      <3> QED
        BY <1>1, <3>1 DEF JobGood, Pending, Blobs
    <2>2. "media" \in made \/ job[j].rows = {}
      BY <1>2, <2>1
    <2> QED
      BY <1>1, <1>5, <2>1, <2>2 DEF Covers
  <1>10. JobGood(j, new)
    <2>1. Ordered(new)
      BY <1>4, <1>5, <1>6 DEF Ordered, Publishing
    <2>2. Copied(new) /\ Uploaded(new)
      BY <1>1, <1>5, <1>6 DEF Copied, Uploaded
    <2> QED
      BY <1>5, <1>9, <2>1, <2>2 DEF JobGood
  <1> QED
    BY <1>5, <1>7, <1>8, <1>10, JobLocal

\* A step of one run after it listed the images, that moves on in a loop.
LEMMA Moving ==
  ASSUME BackupInv, NEW j \in Jobs, NEW new \in JobType, job' = [job EXCEPT ![j] = new],
         job[j].pc # "list", new.pc # "list",
         kind' = kind, life' = life, remote' = remote, rest' = rest, UNCHANGED history,
         new.made = job[j].made, new.keys = job[j].keys, new.rows = job[j].rows,
         job[j].pc \in Publishing \cup {"failed"} => new.pc \in Publishing \cup {"failed"},
         Ordered(new), Copied(new), Uploaded(new)
  PROVE  BackupInv'
  <1>1. JobGood(j, job[j])
    BY Typed
  <1>2. Follows(job[j], new)
    BY DEF Follows
  <1>3. JobGood(j, new)
    BY <1>1 DEF JobGood, Covers
  <1> QED
    BY <1>2, <1>3, JobLocal

LEMMA LoopNext ==
  ASSUME NEW todo, NEW pc, NEW next
  PROVE  /\ todo = {} => Loop(todo, pc, next) = next
         /\ todo # {} => Loop(todo, pc, next) = pc
  BY DEF Loop

LEMMA Scans ==
  ASSUME BackupInv, NEW j \in Jobs, Scan(j)
  PROVE  BackupInv'
  <1>1. /\ job[j] \in JobType /\ JobGood(j, job[j]) /\ job[j].pc = "scan"
        /\ kind' = kind /\ life' = life /\ rest' = rest /\ UNCHANGED history /\ remote' = remote
    BY Typed DEF Scan, At, LeaveRemote
  <1>2. PICK q \in JobType : q = job[j]
    BY <1>1
  <1>3. /\ q.todo # {} /\ q.todo \subseteq q.keys /\ "db" \in q.made /\ q.dir = {}
        /\ q.keys \subseteq Images
    BY <1>1, <1>2 DEF JobGood, Copied, Ordered, JobType
  <1>4. PICK left : left = q.todo \ {First(q.todo)}
    OBVIOUS
  <1>5. CASE JobFails(j)
    BY <1>1, <1>5, Fails
  <1>6. CASE NextScan(j, left, q.keys)
    <2>1. CASE left = {}
      <3>1. PICK new : new = [q EXCEPT !.pc = Loop(q.keys, "copy", "commit"),
                                       !.todo = q.keys, !.keys = q.keys]
        OBVIOUS
      <3>2. Loop(q.keys, "copy", "commit") = "copy"
        BY <1>3, LoopNext
      <3>3. /\ new \in JobType /\ new.pc = "copy" /\ new.todo = q.keys /\ new.keys = q.keys
            /\ new.made = q.made /\ new.rows = q.rows /\ new.dir = q.dir
        BY <1>3, <3>1, <3>2 DEF JobType, JobPlaces
      <3>4. job' = [job EXCEPT ![j] = new]
        BY <1>2, <1>6, <2>1, <3>1 DEF NextScan, Become
      <3>5. Ordered(new) /\ Copied(new) /\ Uploaded(new)
        BY <1>3, <3>3 DEF Ordered, Copied, Uploaded, Publishing
      <3> QED
        BY <1>1, <1>2, <3>3, <3>4, <3>5, Moving DEF Publishing
    <2>2. CASE left # {}
      <3>1. PICK new : new = [q EXCEPT !.todo = left, !.keys = q.keys]
        OBVIOUS
      <3>2. left \subseteq q.keys
        BY <1>3, <1>4
      <3>3. /\ new \in JobType /\ new.pc = "scan" /\ new.todo = left /\ new.keys = q.keys
            /\ new.made = q.made /\ new.rows = q.rows /\ new.dir = q.dir
        BY <1>1, <1>2, <1>3, <3>1, <3>2 DEF JobType
      <3>4. job' = [job EXCEPT ![j] = new]
        BY <1>2, <1>6, <2>2, <3>1 DEF NextScan, Become
      <3>5. Ordered(new) /\ Copied(new) /\ Uploaded(new)
        BY <1>3, <2>2, <3>2, <3>3 DEF Ordered, Copied, Uploaded, Publishing
      <3> QED
        BY <1>1, <1>2, <3>3, <3>4, <3>5, Moving DEF Publishing
    <2> QED
      BY <2>1, <2>2
  <1> QED
    BY <1>2, <1>4, <1>5, <1>6 DEF Scan

\* A step of one run that writes off the box.
LEMMA Writing ==
  ASSUME BackupInv, NEW j \in Jobs, NEW new \in JobType, job' = [job EXCEPT ![j] = new],
         job[j].pc # "list", new.pc # "list",
         kind' = kind, life' = life, rest' = rest, UNCHANGED history,
         remote' \in RemoteType, RemoteGrows,
         new.made = job[j].made, new.keys = job[j].keys, new.rows = job[j].rows,
         job[j].pc \in Publishing \cup {"failed"} => new.pc \in Publishing \cup {"failed"},
         Ordered(new), Copied(new)', Uploaded(new)', RemoteOK'
  PROVE  BackupInv'
  <1>1. JobGood(j, job[j])
    BY Typed
  <1>2. /\ Follows(job[j], new) /\ between' = between /\ lost' = lost
        /\ between' \in [Jobs -> SUBSET Images]
    BY Typed DEF Follows, history
  <1>3. JobGood(j, new)'
    <2>1. new.made # {} => Covers(j, new)'
      BY <1>1, <1>2 DEF JobGood, Covers
    <2>2. Ordered(new)'
      BY DEF Ordered
    <2> QED
      BY <2>1, <2>2 DEF JobGood
  <1> QED
    BY <1>2, <1>3, JobUpdate

\* The runs that a commit record names still are what it says.
LEMMA Published ==
  ASSUME BackupInv, NEW j \in Jobs, NEW new \in JobType, job' = [job EXCEPT ![j] = new],
         new.made = job[j].made, new.keys = job[j].keys,
         job[j].pc \in Publishing \cup {"failed"} => new.pc \in Publishing \cup {"failed"}
  PROVE  /\ \A x : HasPublished(x) => HasPublished(x)'
         /\ \A i \in Jobs : job'[i].made = job[i].made /\ job'[i].keys = job[i].keys
         /\ new.pc \in Publishing /\ "db" \in new.made => HasPublished(j)'
  <1>1. job'[j] = new /\ \A i \in Jobs \ {j} : job'[i] = job[i]
    BY Typed
  <1> QED
    BY <1>1 DEF HasPublished

LEMMA Copies ==
  ASSUME BackupInv, NEW j \in Jobs, Copy(j)
  PROVE  BackupInv'
  <1>1. /\ job[j] \in JobType /\ JobGood(j, job[j]) /\ job[j].pc = "copy"
        /\ kind' = kind /\ life' = life /\ rest' = rest /\ UNCHANGED history
        /\ remote \in RemoteType
    BY Typed DEF Copy, At, ButRemote
  <1>2. PICK q \in JobType : q = job[j]
    BY <1>1
  <1>3. /\ q.todo # {} /\ q.todo \subseteq q.keys /\ "db" \in q.made /\ q.dir = {}
        /\ q.keys \subseteq Images /\ q.pc = "copy"
        /\ \A k \in q.keys \ q.todo : remote.media[k] # None
    BY <1>1, <1>2 DEF JobGood, Copied, Ordered, JobType
  <1>4. PICK k \in q.todo : k = First(q.todo)
    BY <1>3, FirstIn
  <1>5. PICK left : left = q.todo \ {k}
    OBVIOUS
  <1>6. remote' = [remote EXCEPT !.media[k] = "ok"]
    BY <1>2, <1>4 DEF Copy
  <1>7. /\ remote' \in RemoteType /\ remote'.media[k] = "ok"
        /\ \A x \in Images \ {k} : remote'.media[x] = remote.media[x]
        /\ remote'.sealed = remote.sealed /\ remote'.inventory = remote.inventory
        /\ remote'.marker = remote.marker
    BY <1>1, <1>3, <1>6 DEF RemoteType, Marks
  <1>8. "ok" # None
    BY DEF None
  <1>9. RemoteGrows /\ \A x \in q.keys \ left : remote'.media[x] # None
    BY <1>3, <1>5, <1>7, <1>8 DEF RemoteGrows
  <1>10. PICK new : new = IF left = {}
                          THEN [q EXCEPT !.pc = Loop(q.keys, "recheck", "commit"), !.todo = q.keys]
                          ELSE [q EXCEPT !.pc = Loop(left, "copy", ""), !.todo = left]
    OBVIOUS
  <1>11. /\ Loop(q.keys, "recheck", "commit") = "recheck"
         /\ left # {} => Loop(left, "copy", "") = "copy"
    <2>1. q.keys # {}
      BY <1>3
    <2> QED
      BY <2>1 DEF Loop
  <1>12. /\ new \in JobType /\ new.keys = q.keys /\ new.made = q.made /\ new.rows = q.rows
         /\ new.dir = q.dir /\ new.hand = q.hand
         /\ IF left = {} THEN new.pc = "recheck" /\ new.todo = q.keys
                         ELSE new.pc = "copy" /\ new.todo = left
    <2>1. left \subseteq q.keys
      BY <1>3, <1>5
    <2>2. CASE left = {}
      BY <1>3, <1>10, <1>11, <2>2 DEF JobType, JobPlaces
    <2>3. CASE left # {}
      BY <1>3, <1>10, <1>11, <2>1, <2>3 DEF JobType, JobPlaces
    <2> QED
      BY <2>2, <2>3
  <1>13. job' = [job EXCEPT ![j] = new]
    <2>1. CASE left = {}
      BY <1>2, <1>4, <1>5, <1>10, <2>1 DEF Copy, Works, Become
    <2>2. CASE left # {}
      BY <1>2, <1>3, <1>4, <1>5, <1>10, <2>2 DEF Copy, Handled, Works, Become
    <2> QED
      BY <2>1, <2>2
  <1>14. /\ new.pc \in {"recheck", "copy"} /\ new.pc # "list"
         /\ ~ (q.pc \in Publishing \cup {"failed"})
    BY <1>3, <1>12 DEF Publishing
  <1>15. Ordered(new)
    BY <1>3, <1>12 DEF Ordered, Publishing
  <1>16. Copied(new)'
    <2>1. new.todo # {} /\ new.todo \subseteq new.keys
      BY <1>3, <1>5, <1>12
    <2> QED
      BY <1>1, <1>3, <1>9, <1>12, <1>14, <2>1 DEF Copied
  <1>17. Uploaded(new)'
    BY <1>14 DEF Uploaded
  <1>18. RemoteOK'
    <2>1. /\ \A x : HasPublished(x) => HasPublished(x)'
          /\ \A i \in Jobs : job'[i].made = job[i].made /\ job'[i].keys = job[i].keys
      BY <1>2, <1>12, <1>13, <1>14, Published
    <2>2. \A i \in Jobs : job[i].keys \subseteq Images
      BY Typed DEF JobType
    <2>3. RemoteOK
      BY DEF BackupInv
    <2>4. remote'.inventory \in Jobs =>
            /\ job'[remote'.inventory].made # {}
            /\ \A x \in job'[remote'.inventory].keys : remote'.media[x] # None
      BY <1>7, <1>9, <2>1, <2>2, <2>3 DEF RemoteOK, RemoteGrows
    <2> QED
      BY <1>7, <2>1, <2>3, <2>4 DEF RemoteOK
  <1> QED
    BY <1>1, <1>2, <1>7, <1>9, <1>12, <1>13, <1>14, <1>15, <1>16, <1>17, <1>18, Writing

\* The object at hand is done with: the loop goes on or ends.
LEMMA Looping ==
  ASSUME BackupInv, NEW j \in Jobs, NEW x, NEW next \in JobPlaces, Handled(j, x, next),
         job[j].pc # "list", next # "list",
         kind' = kind, life' = life, remote' = remote, rest' = rest, UNCHANGED history,
         job[j].pc \in Publishing \cup {"failed"} => next \in Publishing \cup {"failed"},
         \A new \in JobType :
           /\ new.made = job[j].made /\ new.keys = job[j].keys /\ new.rows = job[j].rows
           /\ new.dir = job[j].dir /\ new.hand = job[j].hand
           /\ new.todo = job[j].todo \ {x}
           /\ new.pc = Loop(new.todo, job[j].pc, next)
           => Ordered(new) /\ Copied(new) /\ Uploaded(new)
  PROVE  BackupInv'
  <1>1. job[j] \in JobType
    BY Typed
  <1>2. PICK q \in JobType : q = job[j]
    BY <1>1
  <1>3. PICK left : left = q.todo \ {x}
    OBVIOUS
  <1>4. PICK pc : pc = Loop(left, q.pc, next)
    OBVIOUS
  <1>5. PICK new : new = [q EXCEPT !.pc = pc, !.todo = left]
    OBVIOUS
  <1>6. pc \in {q.pc, next} /\ pc \in JobPlaces
    BY <1>4 DEF Loop, JobType
  <1>7. left \in SUBSET (Images \cup Artifacts)
    BY <1>3 DEF JobType
  <1>8. /\ new \in JobType /\ new.made = q.made /\ new.keys = q.keys /\ new.rows = q.rows
        /\ new.dir = q.dir /\ new.hand = q.hand /\ new.todo = left /\ new.pc = pc
    BY <1>5, <1>6, <1>7 DEF JobType
  <1>9. job' = [job EXCEPT ![j] = new]
    BY <1>2, <1>3, <1>4, <1>5 DEF Handled, Works, Become
  <1>10. Ordered(new) /\ Copied(new) /\ Uploaded(new)
    BY <1>2, <1>3, <1>4, <1>8
  <1> QED
    BY <1>2, <1>6, <1>8, <1>9, <1>10, Moving

LEMMA Rechecks ==
  ASSUME BackupInv, NEW j \in Jobs, Recheck(j)
  PROVE  BackupInv'
  <1>1. /\ job[j] \in JobType /\ JobGood(j, job[j]) /\ job[j].pc = "recheck"
        /\ kind' = kind /\ life' = life /\ rest' = rest /\ UNCHANGED history /\ remote' = remote
    BY Typed DEF Recheck, At, LeaveRemote
  <1>2. CASE JobFails(j)
    BY <1>1, <1>2, Fails
  <1>3. ASSUME NEW k, Handled(j, k, "commit")
        PROVE  BackupInv'
    <2>1. /\ job[j].todo \subseteq job[j].keys /\ "db" \in job[j].made /\ job[j].dir = {}
          /\ \A x \in job[j].keys : remote.media[x] # None
      BY <1>1 DEF JobGood, Copied, Ordered
    <2>2. ASSUME NEW new \in JobType,
                 new.made = job[j].made /\ new.keys = job[j].keys /\ new.rows = job[j].rows,
                 new.dir = job[j].dir /\ new.hand = job[j].hand,
                 new.todo = job[j].todo \ {k}, new.pc = Loop(new.todo, job[j].pc, "commit")
          PROVE  Ordered(new) /\ Copied(new) /\ Uploaded(new)
      <3>1. (new.pc = "recheck" /\ new.todo # {}) \/ new.pc = "commit"
        BY <1>1, <2>2 DEF Loop
      <3> QED
        BY <2>1, <2>2, <3>1 DEF Ordered, Copied, Uploaded, Publishing
    <2>3. "commit" \in JobPlaces /\ ~ (job[j].pc \in Publishing \cup {"failed"})
      BY <1>1 DEF JobPlaces, Publishing
    <2> QED
      BY <1>1, <1>3, <2>2, <2>3, Looping
  <1> QED
    BY <1>2, <1>3 DEF Recheck

\* The inventory of a run is put last: what it lists is there.
LEMMA Commits ==
  ASSUME BackupInv, NEW j \in Jobs, Commit(j)
  PROVE  BackupInv'
  <1>1. /\ job[j] \in JobType /\ JobGood(j, job[j]) /\ job[j].pc = "commit"
        /\ kind' = kind /\ life' = life /\ rest' = rest /\ UNCHANGED history
        /\ remote \in RemoteType /\ remote' = [remote EXCEPT !.inventory = j]
    BY Typed DEF Commit, At, ButRemote
  <1>2. PICK q \in JobType : q = job[j]
    BY <1>1
  <1>3. /\ "db" \in q.made /\ q.dir = {} /\ q.pc = "commit" /\ q.keys \subseteq Images
        /\ \A k \in q.keys : remote.media[k] # None
    BY <1>1, <1>2 DEF JobGood, Copied, Ordered, JobType
  <1>4. PICK new : new = [q EXCEPT !.pc = "artifacts"]
    OBVIOUS
  <1>5. /\ new \in JobType /\ new.pc = "artifacts" /\ new.made = q.made /\ new.keys = q.keys
        /\ new.rows = q.rows /\ new.dir = q.dir
    BY <1>4 DEF JobType, JobPlaces
  <1>6. job' = [job EXCEPT ![j] = new]
    BY <1>2, <1>4 DEF Commit, To, Become
  <1>7. /\ remote' \in RemoteType /\ remote'.inventory = j /\ remote'.media = remote.media
        /\ remote'.sealed = remote.sealed /\ remote'.marker = remote.marker /\ RemoteGrows
    BY <1>1, NotJobs DEF RemoteType, Owners, RemoteGrows
  <1>8. ~ (q.pc \in Publishing \cup {"failed"}) /\ new.pc # "list" /\ Ordered(new)
    BY <1>3, <1>5 DEF Publishing, Ordered
  <1>9. Copied(new)' /\ Uploaded(new)'
    BY <1>3, <1>5, <1>7, NotJobs DEF Copied, Uploaded
  <1>10. RemoteOK'
    <2>1. /\ \A x : HasPublished(x) => HasPublished(x)'
          /\ job'[j].made = job[j].made /\ job'[j].keys = job[j].keys
      BY <1>2, <1>5, <1>6, <1>8, Published
    <2>2. RemoteOK
      BY DEF BackupInv
    <2> QED
      BY <1>2, <1>3, <1>7, <2>1, <2>2 DEF RemoteOK
  <1> QED
    BY <1>1, <1>2, <1>3, <1>5, <1>6, <1>7, <1>8, <1>9, <1>10, Writing

\* The set is sealed aside and moved, its inventory last.
LEMMA Seals ==
  ASSUME BackupInv, NEW j \in Jobs, Seal(j)
  PROVE  BackupInv'
  <1>1. /\ job[j] \in JobType /\ JobGood(j, job[j]) /\ job[j].pc = "artifacts"
        /\ kind' = kind /\ life' = life /\ rest' = rest /\ UNCHANGED history /\ remote' = remote
    BY Typed DEF Seal, At, LeaveRemote
  <1>2. PICK q \in JobType : q = job[j]
    BY <1>1
  <1>3. "db" \in q.made /\ q.made \subseteq Artifacts
    BY <1>1, <1>2 DEF JobGood, Ordered, JobType, Artifacts
  <1>4. PICK new : new = [q EXCEPT !.pc = "manifest", !.dir = q.made]
    OBVIOUS
  <1>5. /\ new \in JobType /\ new.pc = "manifest" /\ new.made = q.made /\ new.keys = q.keys
        /\ new.rows = q.rows /\ new.dir = q.made
    BY <1>3, <1>4 DEF JobType, JobPlaces, Publishing
  <1>6. job' = [job EXCEPT ![j] = new]
    BY <1>2, <1>4 DEF Seal, Become, Listed
  <1>7. Ordered(new) /\ Copied(new) /\ Uploaded(new)
    BY <1>1, <1>2, <1>3, <1>5 DEF JobGood, Ordered, Copied, Uploaded, Publishing
  <1> QED
    BY <1>1, <1>2, <1>5, <1>6, <1>7, Moving DEF Publishing

LEMMA Moves ==
  ASSUME BackupInv, NEW j \in Jobs, Move(j)
  PROVE  BackupInv'
  <1>1. /\ job[j] \in JobType /\ JobGood(j, job[j]) /\ kind \in {"s3", "fs"}
        /\ kind' = kind /\ life' = life /\ rest' = rest /\ UNCHANGED history /\ remote' = remote
    BY Typed DEF Move, LeaveRemote
  <1>2. PICK q \in JobType : q = job[j]
    BY <1>1
  <1>3. CASE At(j, "manifest")
    <2>1. q.pc = "manifest" /\ "db" \in q.made
      BY <1>1, <1>2, <1>3 DEF At, JobGood, Ordered
    <2>2. PICK new : new = [q EXCEPT !.dir = q.dir \cup {"manifest"},
                                     !.pc = IF kind = "s3" THEN "inventory" ELSE "publish"]
      OBVIOUS
    <2>3. /\ new \in JobType /\ new.made = q.made /\ new.keys = q.keys /\ new.rows = q.rows
          /\ new.pc = (IF kind = "s3" THEN "inventory" ELSE "publish")
          /\ new.dir = q.dir \cup {"manifest"}
      BY <2>2 DEF JobType, JobPlaces, Artifacts
    <2>4. job' = [job EXCEPT ![j] = new]
      BY <1>2, <2>1, <2>2 DEF Move, At, Become
    <2>5. Ordered(new) /\ Copied(new) /\ Uploaded(new)
      BY <1>1, <1>2, <2>1, <2>3 DEF JobGood, Ordered, Copied, Uploaded, Publishing
    <2> QED
      BY <1>1, <1>2, <2>1, <2>3, <2>4, <2>5, Moving DEF Publishing
  <1>4. CASE At(j, "inventory")
    <2>1. q.pc = "inventory" /\ "db" \in q.made /\ kind = "s3"
      BY <1>1, <1>2, <1>4 DEF At, JobGood, Ordered
    <2>2. PICK pc : pc = Loop(q.keys, "verifymedia", "publish")
      OBVIOUS
    <2>3. pc \in {"verifymedia", "publish"}
      BY <2>2 DEF Loop
    <2>4. PICK new : new = [q EXCEPT !.dir = q.dir \cup {"inventory"}, !.pc = pc, !.todo = q.keys]
      OBVIOUS
    <2>5. /\ new \in JobType /\ new.made = q.made /\ new.keys = q.keys /\ new.rows = q.rows
          /\ new.pc = pc /\ new.dir = q.dir \cup {"inventory"}
      BY <2>3, <2>4 DEF JobType, JobPlaces, Artifacts
    <2>6. job' = [job EXCEPT ![j] = new]
      BY <1>2, <2>1, <2>2, <2>4 DEF Move, At, Become
    <2>7. Ordered(new) /\ Copied(new) /\ Uploaded(new)
      BY <1>1, <1>2, <2>1, <2>3, <2>5 DEF JobGood, Ordered, Copied, Uploaded, Publishing
    <2> QED
      BY <1>1, <1>2, <2>1, <2>3, <2>5, <2>6, <2>7, Moving DEF Publishing
  <1> QED
    BY <1>3, <1>4 DEF Move

LEMMA Verifies ==
  ASSUME BackupInv, NEW j \in Jobs, VerifyMedia(j)
  PROVE  BackupInv'
  <1>1. /\ job[j] \in JobType /\ JobGood(j, job[j]) /\ job[j].pc = "verifymedia"
        /\ kind' = kind /\ life' = life /\ rest' = rest /\ UNCHANGED history /\ remote' = remote
    BY Typed DEF VerifyMedia, At, LeaveRemote
  <1>2. CASE JobFails(j)
    BY <1>1, <1>2, Fails
  <1>3. ASSUME NEW k, Handled(j, k, "publish")
        PROVE  BackupInv'
    <2>1. ASSUME NEW new \in JobType,
                 new.made = job[j].made /\ new.keys = job[j].keys /\ new.rows = job[j].rows,
                 new.dir = job[j].dir /\ new.hand = job[j].hand,
                 new.todo = job[j].todo \ {k}, new.pc = Loop(new.todo, job[j].pc, "publish")
          PROVE  Ordered(new) /\ Copied(new) /\ Uploaded(new)
      <3>1. new.pc \in {"verifymedia", "publish"}
        BY <1>1, <2>1 DEF Loop
      <3> QED
        BY <1>1, <2>1, <3>1 DEF JobGood, Ordered, Copied, Uploaded, Publishing
    <2>2. "publish" \in JobPlaces /\ ~ (job[j].pc \in Publishing \cup {"failed"})
      BY <1>1 DEF JobPlaces, Publishing
    <2> QED
      BY <1>1, <1>3, <2>1, <2>2, Looping
  <1> QED
    BY <1>2, <1>3 DEF VerifyMedia
-----------------------------------------------------------------------------
(* backup.sh: publishing the set *)

LEMMA LocalNames ==
  ASSUME NEW j \in Jobs, job[j] \in JobType
  PROVE  /\ localArtifacts(j) = Names(job[j]) /\ Names(job[j]) \subseteq Artifacts
         /\ Names(job[j]) # {}
  BY DEF localArtifacts, Names, Listed, JobType, Artifacts

LEMMA Publishes ==
  ASSUME BackupInv, NEW j \in Jobs, Publish(j)
  PROVE  BackupInv'
  <1>1. /\ job[j] \in JobType /\ JobGood(j, job[j]) /\ job[j].pc = "publish"
        /\ kind' = kind /\ life' = life /\ rest' = rest /\ UNCHANGED history /\ remote' = remote
    BY Typed DEF Publish, At, LeaveRemote
  <1>2. PICK q \in JobType : q = job[j]
    BY <1>1
  <1>3. CASE Works(j, "upload", localArtifacts(j), "marker")
    <2>1. localArtifacts(j) = Names(q) /\ Names(q) \subseteq Artifacts /\ Names(q) # {}
      BY <1>2, LocalNames
    <2>2. Loop(Names(q), "upload", "marker") = "upload"
      BY <2>1, LoopNext
    <2>3. PICK new : new = [q EXCEPT !.pc = "upload", !.todo = Names(q)]
      OBVIOUS
    <2>4. /\ new \in JobType /\ new.made = q.made /\ new.keys = q.keys /\ new.rows = q.rows
          /\ new.pc = "upload" /\ new.dir = q.dir /\ new.hand = q.hand /\ new.todo = Names(q)
      BY <2>1, <2>3 DEF JobType, JobPlaces, Publishing
    <2>5. job' = [job EXCEPT ![j] = new]
      BY <1>2, <1>3, <2>1, <2>2, <2>3 DEF Works, Become
    <2>6. Ordered(new) /\ Copied(new)
      BY <1>1, <1>2, <2>4 DEF JobGood, Ordered, Copied, Publishing
    <2>7. Uploaded(new)
      BY <2>1, <2>4 DEF Uploaded, Names
    <2> QED
      BY <1>1, <1>2, <2>4, <2>5, <2>6, <2>7, Moving DEF Publishing
  <1>4. CASE To(j, "local")
    <2>1. PICK new : new = [q EXCEPT !.pc = "local"]
      OBVIOUS
    <2>2. /\ new \in JobType /\ new.made = q.made /\ new.keys = q.keys /\ new.rows = q.rows
          /\ new.pc = "local" /\ new.dir = q.dir /\ new.hand = q.hand
      BY <2>1 DEF JobType, JobPlaces, Publishing
    <2>3. job' = [job EXCEPT ![j] = new]
      BY <1>2, <1>4, <2>1 DEF To, Become
    <2>4. Ordered(new) /\ Copied(new) /\ Uploaded(new)
      BY <1>1, <1>2, <2>2 DEF JobGood, Ordered, Copied, Uploaded, Publishing
    <2> QED
      BY <1>1, <1>2, <2>2, <2>3, <2>4, Moving DEF Publishing
  <1> QED
    BY <1>3, <1>4 DEF Publish

\* An operator publishes what an interrupted run left, if it left a manifest.
LEMMA PublishesByHand ==
  ASSUME BackupInv, NEW j \in Jobs, PublishByHand(j)
  PROVE  BackupInv'
  <1>1. /\ job[j] \in JobType /\ JobGood(j, job[j]) /\ job[j].pc = "failed"
        /\ "manifest" \in job[j].dir
        /\ kind' = kind /\ life' = life /\ rest' = rest /\ UNCHANGED history /\ remote' = remote
    BY Typed DEF PublishByHand, At, LocalOk, LeaveRemote
  <1>2. PICK q \in JobType : q = job[j]
    BY <1>1
  <1>3. localArtifacts(j) = Names(q) /\ Names(q) \subseteq Artifacts /\ Names(q) # {}
    BY <1>2, LocalNames
  <1>4. PICK new : new = [q EXCEPT !.pc = "upload", !.todo = Names(q), !.hand = TRUE]
    OBVIOUS
  <1>5. /\ new \in JobType /\ new.made = q.made /\ new.keys = q.keys /\ new.rows = q.rows
        /\ new.pc = "upload" /\ new.dir = q.dir /\ new.hand = TRUE /\ new.todo = Names(q)
    BY <1>3, <1>4 DEF JobType, JobPlaces, Publishing
  <1>6. job' = [job EXCEPT ![j] = new]
    BY <1>2, <1>3, <1>4 DEF PublishByHand, Become
  <1>7. Ordered(new) /\ Copied(new)
    BY <1>1, <1>2, <1>5 DEF JobGood, Ordered, Copied, Publishing
  <1>8. Uploaded(new)
    BY <1>3, <1>5 DEF Uploaded, Names
  <1> QED
    BY <1>1, <1>2, <1>5, <1>6, <1>7, <1>8, Moving DEF Publishing

\* Where a run that publishes stands.
LEMMA Underway ==
  ASSUME BackupInv, NEW j \in Jobs, job[j].pc \in Publishing
  PROVE  /\ "db" \in job[j].made /\ job[j].dir # {}
         /\ Names(job[j]) \subseteq Artifacts /\ Names(job[j]) # {}
         /\ localArtifacts(j) = Names(job[j])
  <1>1. job[j] \in JobType /\ JobGood(j, job[j])
    BY Typed
  <1> QED
    BY <1>1, LocalNames DEF JobGood, Ordered

LEMMA Uploads ==
  ASSUME BackupInv, NEW j \in Jobs, Upload(j)
  PROVE  BackupInv'
  <1>1. /\ job[j] \in JobType /\ JobGood(j, job[j]) /\ job[j].pc = "upload"
        /\ kind' = kind /\ life' = life /\ rest' = rest /\ UNCHANGED history
        /\ remote \in RemoteType
    BY Typed DEF Upload, At, ButRemote
  <1>2. PICK q \in JobType : q = job[j]
    BY <1>1
  <1>3. "db" \in q.made /\ q.dir # {} /\ Names(q) \subseteq Artifacts
    BY <1>1, <1>2, Underway DEF Publishing
  <1>4. /\ q.todo # {} /\ q.todo \subseteq Names(q) /\ q.pc = "upload"
        /\ \A a \in Names(q) \ q.todo : remote.sealed[a] # None
    BY <1>1, <1>2 DEF JobGood, Uploaded
  <1>5. PICK a \in Artifacts : a = First(q.todo)
    BY <1>3, <1>4, FirstIn
  <1>6. PICK new : new = [q EXCEPT !.pc = "reread"]
    OBVIOUS
  <1>7. /\ new \in JobType /\ new.made = q.made /\ new.keys = q.keys /\ new.rows = q.rows
        /\ new.pc = "reread" /\ new.dir = q.dir /\ new.hand = q.hand /\ new.todo = q.todo
    BY <1>6 DEF JobType, JobPlaces, Publishing
  <1>8. job' = [job EXCEPT ![j] = new]
    BY <1>2, <1>6 DEF Upload, To, Become
  <1>9. remote' = [remote EXCEPT !.sealed[a] = j]
    BY <1>2, <1>5 DEF Upload
  <1>10. /\ remote' \in RemoteType /\ remote'.sealed[a] = j
         /\ \A b \in Artifacts \ {a} : remote'.sealed[b] = remote.sealed[b]
         /\ remote'.media = remote.media /\ remote'.inventory = remote.inventory
         /\ remote'.marker = remote.marker
    BY <1>1, <1>9 DEF RemoteType, Owners
  <1>11. RemoteGrows
    BY <1>10, NotJobs DEF RemoteGrows
  <1>12. Ordered(new)
    BY <1>1, <1>2, <1>3, <1>4, <1>7 DEF JobGood, Ordered, Publishing
  <1>13. Copied(new)'
    <2>1. Copied(q) /\ q.keys \subseteq Images
      BY <1>1, <1>2 DEF JobGood, JobType
    <2> QED
      BY <1>1, <1>4, <1>7, <1>11, <2>1 DEF Copied, RemoteGrows
  <1>14. Uploaded(new)'
    <2>1. Names(new) = Names(q)
      BY <1>7 DEF Names
    <2> QED
      BY <1>3, <1>4, <1>7, <1>11, <2>1 DEF Uploaded, RemoteGrows, Names
  <1>15. q.pc \in Publishing /\ new.pc \in Publishing /\ q.pc # "list" /\ new.pc # "list"
    BY <1>4, <1>7 DEF Publishing
  <1>16. RemoteOK'
    <2>1. /\ \A x : HasPublished(x) => HasPublished(x)'
          /\ \A i \in Jobs : job'[i].made = job[i].made /\ job'[i].keys = job[i].keys
          /\ HasPublished(j)'
      BY <1>2, <1>3, <1>7, <1>8, <1>15, Published
    <2>2. RemoteOK /\ remote.marker.names \subseteq Artifacts
      BY <1>1 DEF BackupInv, RemoteType, Markers
    <2>3. (\A b \in Artifacts : HasPublished(remote.sealed[b]))'
      <3> SUFFICES ASSUME NEW b \in Artifacts
                   PROVE  HasPublished(remote.sealed[b])'
        OBVIOUS
      <3>1. PICK x : x = remote'.sealed[b]
        OBVIOUS
      <3>2. HasPublished(x)'
        BY <1>10, <2>1, <2>2, <3>1 DEF RemoteOK
      <3> QED
        BY <3>1, <3>2 DEF HasPublished
    <2>4. remote'.inventory \in Jobs =>
            /\ job'[remote'.inventory].made # {}
            /\ \A k \in job'[remote'.inventory].keys : remote'.media[k] # None
      BY <1>10, <2>1, <2>2 DEF RemoteOK
    <2>5. \A b \in remote'.marker.names : remote'.sealed[b] # None
      BY <1>10, <1>11, <2>2 DEF RemoteOK, RemoteGrows
    <2> QED
      BY <1>10, <2>1, <2>2, <2>3, <2>4, <2>5 DEF RemoteOK
  <1> QED
    BY <1>1, <1>2, <1>7, <1>8, <1>10, <1>11, <1>12, <1>13, <1>14, <1>15, <1>16, Writing

LEMMA Rereads ==
  ASSUME BackupInv, NEW j \in Jobs, Reread(j)
  PROVE  BackupInv'
  <1>1. /\ job[j] \in JobType /\ JobGood(j, job[j]) /\ job[j].pc = "reread"
        /\ kind' = kind /\ life' = life /\ rest' = rest /\ UNCHANGED history /\ remote' = remote
    BY Typed DEF Reread, At, LeaveRemote
  <1>2. PICK q \in JobType : q = job[j]
    BY <1>1
  <1>3. PICK left : left = q.todo \ {First(q.todo)}
    OBVIOUS
  <1>4. CASE JobFails(j)
    BY <1>1, <1>4, Fails
  <1>5. CASE remote.sealed[First(q.todo)] = j /\ Works(j, "upload", left, "marker")
    <2>1. /\ q.pc = "reread" /\ q.todo \subseteq Names(q) /\ q.todo \subseteq Images \cup Artifacts
          /\ \A a \in Names(q) \ q.todo : remote.sealed[a] # None
      BY <1>1, <1>2 DEF JobGood, Uploaded, JobType
    <2>2. \A a \in Names(q) \ left : remote.sealed[a] # None
      BY <1>3, <1>5, <2>1, NotJobs
    <2>3. PICK pc : pc = Loop(left, "upload", "marker")
      OBVIOUS
    <2>4. (pc = "upload" /\ left # {}) \/ (pc = "marker" /\ left = {})
      BY <2>3 DEF Loop
    <2>5. PICK new : new = [q EXCEPT !.pc = pc, !.todo = left]
      OBVIOUS
    <2>6. left \subseteq Names(q) /\ left \subseteq Images \cup Artifacts
      BY <1>3, <2>1
    <2>7. /\ new \in JobType /\ new.made = q.made /\ new.keys = q.keys /\ new.rows = q.rows
          /\ new.pc = pc /\ new.dir = q.dir /\ new.hand = q.hand /\ new.todo = left
      BY <2>4, <2>5, <2>6 DEF JobType, JobPlaces, Publishing
    <2>8. job' = [job EXCEPT ![j] = new]
      BY <1>2, <1>5, <2>3, <2>5 DEF Works, Become
    <2>9. Ordered(new) /\ Copied(new)
      BY <1>1, <1>2, <2>1, <2>4, <2>7 DEF JobGood, Ordered, Copied, Publishing
    <2>10. Uploaded(new)
      BY <2>2, <2>4, <2>6, <2>7 DEF Uploaded, Names
    <2>11. pc \in Publishing /\ pc # "list"
      BY <2>4 DEF Publishing
    <2> QED
      BY <1>1, <1>2, <2>1, <2>7, <2>8, <2>9, <2>10, <2>11, Moving
  <1> QED
    BY <1>2, <1>3, <1>4, <1>5 DEF Reread

\* The marker is put last: every artifact it names is there.
LEMMA PutsMarker ==
  ASSUME BackupInv, NEW j \in Jobs, PutMarker(j)
  PROVE  BackupInv'
  <1>1. /\ job[j] \in JobType /\ JobGood(j, job[j]) /\ job[j].pc = "marker"
        /\ kind' = kind /\ life' = life /\ rest' = rest /\ UNCHANGED history
        /\ remote \in RemoteType
    BY Typed DEF PutMarker, At, ButRemote
  <1>2. PICK q \in JobType : q = job[j]
    BY <1>1
  <1>3. /\ "db" \in q.made /\ q.dir # {} /\ Names(q) \subseteq Artifacts /\ Names(q) # {}
        /\ localArtifacts(j) = Names(q)
    BY <1>1, <1>2, Underway DEF Publishing
  <1>4. q.pc = "marker" /\ \A a \in Names(q) : remote.sealed[a] # None
    BY <1>1, <1>2 DEF JobGood, Uploaded
  <1>5. PICK marker : marker = [job |-> j, names |-> Names(q)]
    OBVIOUS
  <1>6. marker \in Markers /\ marker.job = j /\ marker.names = Names(q)
    BY <1>3, <1>5 DEF Markers, Owners
  <1>7. PICK new : new = [q EXCEPT !.pc = "verify"]
    OBVIOUS
  <1>8. /\ new \in JobType /\ new.made = q.made /\ new.keys = q.keys /\ new.rows = q.rows
        /\ new.pc = "verify" /\ new.dir = q.dir /\ new.hand = q.hand /\ new.todo = q.todo
    BY <1>7 DEF JobType, JobPlaces, Publishing
  <1>9. job' = [job EXCEPT ![j] = new]
    BY <1>2, <1>7 DEF PutMarker, To, Become
  <1>10. remote' = [remote EXCEPT !.marker = marker]
    BY <1>3, <1>5 DEF PutMarker
  <1>11. /\ remote' \in RemoteType /\ remote'.marker = marker /\ remote'.sealed = remote.sealed
         /\ remote'.media = remote.media /\ remote'.inventory = remote.inventory
    BY <1>1, <1>6, <1>10 DEF RemoteType
  <1>12. RemoteGrows
    BY <1>6, <1>11, NotJobs DEF RemoteGrows
  <1>13. Ordered(new)
    BY <1>1, <1>2, <1>4, <1>8 DEF JobGood, Ordered, Publishing
  <1>14. Copied(new)'
    <2>1. Copied(q)
      BY <1>1, <1>2 DEF JobGood
    <2> QED
      BY <1>1, <1>4, <1>8, <1>11, <2>1 DEF Copied
  <1>15. Uploaded(new)'
    BY <1>4, <1>6, <1>8, <1>11, NotJobs DEF Uploaded, Names
  <1>16. q.pc \in Publishing /\ new.pc \in Publishing /\ q.pc # "list" /\ new.pc # "list"
    BY <1>4, <1>8 DEF Publishing
  <1>17. RemoteOK'
    <2>1. /\ \A x : HasPublished(x) => HasPublished(x)'
          /\ \A i \in Jobs : job'[i].made = job[i].made /\ job'[i].keys = job[i].keys
          /\ HasPublished(j)'
      BY <1>2, <1>3, <1>8, <1>9, <1>16, Published
    <2>2. RemoteOK
      BY DEF BackupInv
    <2>3. (\A b \in Artifacts : HasPublished(remote.sealed[b]))'
      <3> SUFFICES ASSUME NEW b \in Artifacts
                   PROVE  HasPublished(remote.sealed[b])'
        OBVIOUS
      <3>1. PICK x : x = remote'.sealed[b]
        OBVIOUS
      <3>2. HasPublished(x)'
        BY <1>11, <2>1, <2>2, <3>1 DEF RemoteOK
      <3> QED
        BY <3>1, <3>2 DEF HasPublished
    <2> QED
      BY <1>3, <1>4, <1>6, <1>11, <2>1, <2>2, <2>3 DEF RemoteOK
  <1> QED
    BY <1>1, <1>2, <1>8, <1>9, <1>11, <1>12, <1>13, <1>14, <1>15, <1>16, <1>17, Writing

LEMMA VerifiesRemote ==
  ASSUME BackupInv, NEW j \in Jobs, VerifyRemote(j)
  PROVE  BackupInv'
  <1>1. /\ job[j] \in JobType /\ JobGood(j, job[j]) /\ job[j].pc \in {"verify", "check"}
        /\ kind' = kind /\ life' = life /\ rest' = rest /\ UNCHANGED history /\ remote' = remote
        /\ remote \in RemoteType
    BY Typed DEF VerifyRemote, At, LeaveRemote
  <1>2. PICK q \in JobType : q = job[j]
    BY <1>1
  \* It only reads: wherever it goes on, what was uploaded stays uploaded.
  <1>3. ASSUME NEW new \in JobType, job' = [job EXCEPT ![j] = new],
               new.made = q.made /\ new.keys = q.keys /\ new.rows = q.rows,
               new.dir = q.dir /\ new.hand = q.hand, new.pc \in {"check", "durable"}
        PROVE  BackupInv'
    <2>1. Ordered(new) /\ Copied(new) /\ Uploaded(new)
      BY <1>1, <1>2, <1>3 DEF JobGood, Ordered, Copied, Uploaded, Names, Publishing
    <2>2. new.pc \in Publishing /\ new.pc # "list"
      BY <1>3 DEF Publishing
    <2> QED
      BY <1>1, <1>2, <1>3, <2>1, <2>2, Moving
  <1>4. CASE JobFails(j)
    BY <1>1, <1>4, Fails
  <1>5. ASSUME Become(j, [job[j] EXCEPT !.pc = "check", !.seen = remote.marker,
                                        !.todo = remote.marker.names])
        PROVE  BackupInv'
    <2>1. PICK new : new = [q EXCEPT !.pc = "check", !.seen = remote.marker,
                                     !.todo = remote.marker.names]
      OBVIOUS
    <2>2. remote.marker \in Markers /\ remote.marker.names \subseteq Images \cup Artifacts
      BY <1>1 DEF RemoteType, Markers
    <2>3. /\ new \in JobType /\ new.made = q.made /\ new.keys = q.keys /\ new.rows = q.rows
          /\ new.dir = q.dir /\ new.hand = q.hand /\ new.pc = "check"
      BY <2>1, <2>2 DEF JobType, JobPlaces, Publishing
    <2>4. job' = [job EXCEPT ![j] = new]
      BY <1>2, <1>5, <2>1 DEF Become
    <2> QED
      BY <1>3, <2>3, <2>4
  <1>6. ASSUME Become(j, [job[j] EXCEPT !.pc = "durable", !.todo = {}, !.seen = NoMarker])
        PROVE  BackupInv'
    <2>1. PICK new : new = [q EXCEPT !.pc = "durable", !.todo = {}, !.seen = NoMarker]
      OBVIOUS
    <2>2. NoMarker \in Markers
      BY DEF NoMarker, Markers, Owners
    <2>3. /\ new \in JobType /\ new.made = q.made /\ new.keys = q.keys /\ new.rows = q.rows
          /\ new.dir = q.dir /\ new.hand = q.hand /\ new.pc = "durable"
      BY <2>1, <2>2 DEF JobType, JobPlaces, Publishing
    <2>4. job' = [job EXCEPT ![j] = new]
      BY <1>2, <1>6, <2>1 DEF Become
    <2> QED
      BY <1>3, <2>3, <2>4
  <1>7. ASSUME NEW a, job[j].pc = "check", Handled(j, a, "check")
        PROVE  BackupInv'
    <2>1. PICK new : new = [q EXCEPT !.pc = "check", !.todo = q.todo \ {a}]
      OBVIOUS
    <2>2. /\ new \in JobType /\ new.made = q.made /\ new.keys = q.keys /\ new.rows = q.rows
          /\ new.dir = q.dir /\ new.hand = q.hand /\ new.pc = "check"
      BY <2>1 DEF JobType, JobPlaces, Publishing
    <2>3. Loop(q.todo \ {a}, "check", "check") = "check"
      BY DEF Loop
    <2>4. job' = [job EXCEPT ![j] = new]
      BY <1>2, <1>7, <2>1, <2>3 DEF Handled, Works, Become
    <2> QED
      BY <1>3, <2>2, <2>4
  <1>8. CASE At(j, "verify") /\ IF Authentic(remote.marker.job)
                               THEN Become(j, [job[j] EXCEPT !.pc = "check",
                                      !.seen = remote.marker, !.todo = remote.marker.names])
                               ELSE JobFails(j)
    BY <1>4, <1>5, <1>8
  <1>9. CASE At(j, "check")
    BY <1>4, <1>6, <1>7, <1>9 DEF VerifyRemote, At
  <1> QED
    BY <1>8, <1>9 DEF VerifyRemote

LEMMA Dies ==
  ASSUME BackupInv, NEW j \in Jobs, JobDies(j)
  PROVE  BackupInv'
  <1>1. job[j].pc \notin {"idle", "local"}
    BY DEF JobDies, Ended
  <1> QED
    BY <1>1, Fails DEF JobDies
-----------------------------------------------------------------------------
(* Restore *)

\* A step of the restore leaves the rest alone.
Kept == UNCHANGED <<kind, life, job, remote, between, lost>>

LEMMA RestUpdate ==
  ASSUME BackupInv, NEW new \in RestType, rest' = new, Kept, FilesOK(new), ImagesOK(new)
  PROVE  BackupInv'
  <1>1. /\ kind' = kind /\ life' = life /\ job' = job /\ remote' = remote
        /\ between' = between /\ lost' = lost
    BY DEF Kept
  <1>2. \A j \in Jobs : JobGood(j, job[j])'
    BY <1>1, Typed DEF JobGood, Pending, Covers, Ordered, Copied, Uploaded, Names
  <1>3. RemoteOK'
    BY <1>1 DEF BackupInv, RemoteOK, HasPublished
  <1>4. FilesOK(rest)'
    BY <1>1 DEF FilesOK, OneRun
  <1>5. ImagesOK(rest)'
    BY <1>1 DEF ImagesOK
  <1> QED
    BY <1>1, <1>2, <1>3, <1>4, <1>5 DEF BackupInv, TypeInv

\* Forgetting where a restore wrote when it is over disturbs nothing.
LEMMA RestMoves ==
  ASSUME BackupInv, NEW new \in RestType, rest' = Over(new), Kept, FilesOK(new), ImagesOK(new)
  PROVE  BackupInv'
  <1>1. PICK over : over = Over(new)
    OBVIOUS
  <1>2. /\ over \in RestType /\ over.pc = new.pc /\ over.todo = new.todo
        /\ over.seen = new.seen /\ over.got = new.got /\ over.inventory = new.inventory
        /\ over.media = new.media /\ over.short = new.short
    BY <1>1 DEF Over, RestType
  <1>3. FilesOK(over) /\ ImagesOK(over)
    BY <1>2 DEF FilesOK, ImagesOK, OneRun
  <1> QED
    BY <1>1, <1>2, <1>3, RestUpdate

LEMMA Restarting ==
  ASSUME NEW new, new = IdleRest \/ new = [IdleRest EXCEPT !.pc = "failed"]
  PROVE  new \in RestType /\ FilesOK(new) /\ ImagesOK(new)
  <1>1. NoMarker \in Markers
    BY DEF NoMarker, Markers, Owners
  <1>2. /\ IdleRest \in RestType /\ IdleRest.pc = "idle" /\ IdleRest.inventory = None
        /\ \A a \in Artifacts : IdleRest.got[a] = None
    BY <1>1 DEF IdleRest, RestType, RestPlaces, Owners, Marks
  <1>3. PICK idle \in RestType : idle = IdleRest
    BY <1>2
  <1>4. \A r \in RestType : LET f == [r EXCEPT !.pc = "failed"]
                            IN  /\ f \in RestType /\ f.pc = "failed"
                                /\ f.inventory = r.inventory /\ f.got = r.got
    BY DEF RestType, RestPlaces
  <1>5. /\ new \in RestType /\ new.pc \in {"idle", "failed"} /\ new.inventory = None
        /\ \A a \in Artifacts : new.got[a] = None
    BY <1>2, <1>3, <1>4
  <1> QED
    BY <1>5, NotJobs DEF FilesOK, ImagesOK, OneRun, Unpacking

LEMMA RestFailing ==
  ASSUME BackupInv, RestFails, Kept
  PROVE  BackupInv'
  <1>1. PICK new : new = [IdleRest EXCEPT !.pc = "failed"]
    OBVIOUS
  <1>2. new \in RestType /\ FilesOK(new) /\ ImagesOK(new)
    BY <1>1, Restarting
  <1> QED
    BY <1>1, <1>2, RestUpdate DEF RestFails

LEMMA RestStarts ==
  ASSUME BackupInv, RestAgain
  PROVE  BackupInv'
  <1>1. IdleRest \in RestType /\ FilesOK(IdleRest) /\ ImagesOK(IdleRest)
    BY Restarting
  <1> QED
    BY <1>1, RestUpdate DEF RestAgain, ButRest, Kept, history

LEMMA Fetches ==
  ASSUME BackupInv, Fetch
  PROVE  BackupInv'
  <1>1. rest \in RestType /\ FilesOK(rest) /\ ImagesOK(rest) /\ rest.pc = "idle" /\ Kept
    BY DEF BackupInv, TypeInv, Fetch, RestAt, ButRest, Kept, history
  <1>2. PICK r \in RestType : r = rest
    BY <1>1
  <1>3. PICK new : new = [r EXCEPT !.pc = "marker"]
    OBVIOUS
  <1>4. /\ new \in RestType /\ new.pc = "marker" /\ new.got = r.got
        /\ new.inventory = r.inventory
    BY <1>3 DEF RestType, RestPlaces
  <1>5. FilesOK(new) /\ ImagesOK(new)
    BY <1>1, <1>2, <1>4 DEF FilesOK, ImagesOK, OneRun, Unpacking
  <1>6. rest' = new
    BY <1>2, <1>3 DEF Fetch, RestTo
  <1> QED
    BY <1>1, <1>4, <1>5, <1>6, RestUpdate

LEMMA TakesLocal ==
  ASSUME BackupInv, NEW j \in Jobs, TakeLocal(j)
  PROVE  BackupInv'
  <1>1. /\ rest \in RestType /\ FilesOK(rest) /\ ImagesOK(rest) /\ rest.pc = "idle" /\ Kept
        /\ JobGood(j, job[j]) /\ job[j].dir # {}
    BY Typed DEF BackupInv, TypeInv, TakeLocal, RestAt, ButRest, Kept, history
  <1>2. PICK r \in RestType : r = rest
    BY <1>1
  <1>3. PICK got : got = [a \in Artifacts |-> IF a \in job[j].dir THEN j ELSE None]
    OBVIOUS
  <1>4. got \in [Artifacts -> Owners] /\ \A a \in Artifacts : got[a] \in {j, None}
    BY <1>3 DEF Owners
  <1>5. PICK new : new = [r EXCEPT !.pc = "verify", !.got = got]
    OBVIOUS
  <1>6. /\ new \in RestType /\ new.pc = "verify" /\ new.got = got
        /\ new.inventory = r.inventory
    BY <1>4, <1>5 DEF RestType, RestPlaces
  <1>7. "db" \in job[j].made
    BY <1>1 DEF JobGood, Ordered
  <1>8. FilesOK(new)
    BY <1>4, <1>6, <1>7, NotJobs DEF FilesOK, OneRun, Unpacking
  <1>9. ImagesOK(new)
    BY <1>1, <1>2, <1>6 DEF ImagesOK
  <1>10. rest' = new
    BY <1>2, <1>3, <1>5 DEF TakeLocal
  <1> QED
    BY <1>1, <1>6, <1>8, <1>9, <1>10, RestUpdate

\* A marker that is taken names artifacts of one run, if only by what is left of it.
LEMMA TakesMarker ==
  ASSUME BackupInv, NEW pc \in {"marker", "again"}, NEW next \in {"check", "get"}, rest.pc = pc,
         NEW marker \in Markers, marker.job \in Jobs, marker.names # {}, Kept,
         TakeMarker(marker, next)
  PROVE  BackupInv'
  <1>1. rest \in RestType /\ FilesOK(rest) /\ ImagesOK(rest)
    BY DEF BackupInv, TypeInv
  <1>2. PICK r \in RestType : r = rest
    BY <1>1
  <1>3. marker.names \subseteq Artifacts
    BY DEF Markers
  <1>4. PICK new : new = [r EXCEPT !.pc = next, !.seen = marker, !.todo = marker.names]
    OBVIOUS
  <1>5. /\ new \in RestType /\ new.pc = next /\ new.got = r.got /\ new.seen = marker
        /\ new.todo = marker.names /\ new.inventory = r.inventory
    BY <1>3, <1>4 DEF RestType, RestPlaces
  <1>6. OneRun(r, None)
    BY <1>1, <1>2 DEF FilesOK
  <1>7. FilesOK(new)
    <2>1. OneRun(new, None) /\ \A x : OneRun(new, None) => OneRun(new, x)
      BY <1>5, <1>6 DEF OneRun
    <2>2. \A a \in Artifacts : new.got[a] \notin Jobs
      BY <2>1, NotJobs DEF OneRun
    <2> QED
      BY <1>3, <1>5, <2>1, <2>2 DEF FilesOK, Unpacking
  <1>8. ImagesOK(new)
    BY <1>1, <1>2, <1>5 DEF ImagesOK
  <1>9. rest' = new
    BY <1>2, <1>4 DEF TakeMarker
  <1> QED
    BY <1>5, <1>7, <1>8, <1>9, RestUpdate

LEMMA FetchesMarker ==
  ASSUME BackupInv, FetchMarker \/ FetchMarkerAgain
  PROVE  BackupInv'
  <1>1. Kept /\ rest.pc \in {"marker", "again"}
    BY DEF FetchMarker, FetchMarkerAgain, RestAt, ButRest, Kept, history
  <1>2. remote \in RemoteType /\ RemoteOK
    BY DEF BackupInv, TypeInv
  <1>3. CASE RestFails
    BY <1>1, <1>3, RestFailing
  <1>4. ASSUME NEW next \in {"check", "get"}, Authentic(remote.marker.job),
               TakeMarker(remote.marker, next)
        PROVE  BackupInv'
    <2>1. /\ remote.marker \in Markers /\ remote.marker.job \in Jobs
          /\ remote.marker.names # {}
      BY <1>2, <1>4 DEF RemoteType, Authentic, RemoteOK
    <2> QED
      BY <1>1, <1>4, <2>1, TakesMarker
  <1>5. ASSUME NEW i \in Jobs, NEW names \in (SUBSET localArtifacts(i)) \ {{}},
               TakeMarker([job |-> i, names |-> names], "get")
        PROVE  BackupInv'
    <2>1. PICK marker : marker = [job |-> i, names |-> names]
      OBVIOUS
    <2>2. localArtifacts(i) \subseteq Artifacts
      BY Typed DEF localArtifacts, Listed, JobType, Artifacts
    <2>3. marker \in Markers /\ marker.job \in Jobs /\ marker.names # {}
      BY <1>5, <2>1, <2>2 DEF Markers, Owners
    <2> QED
      BY <1>1, <1>5, <2>1, <2>3, TakesMarker
  <1> QED
    BY <1>3, <1>4, <1>5 DEF FetchMarker, FetchMarkerAgain

LEMMA FetchChecks ==
  ASSUME BackupInv, FetchCheck
  PROVE  BackupInv'
  <1>1. rest \in RestType /\ FilesOK(rest) /\ ImagesOK(rest) /\ rest.pc = "check" /\ Kept
    BY DEF BackupInv, TypeInv, FetchCheck, RestAt, ButRest, Kept, history
  <1>2. CASE RestFails
    BY <1>1, <1>2, RestFailing
  <1>3. ASSUME NEW a, RestHandled(a, "again")
        PROVE  BackupInv'
    <2>1. PICK r \in RestType : r = rest
      BY <1>1
    <2>2. PICK left : left = r.todo \ {a}
      OBVIOUS
    <2>3. PICK pc : pc = Loop(left, "check", "again")
      OBVIOUS
    <2>4. (pc = "check" /\ left # {}) \/ (pc = "again" /\ left = {})
      BY <2>3 DEF Loop
    <2>5. PICK new : new = [r EXCEPT !.todo = left, !.pc = pc]
      OBVIOUS
    <2>6. left \subseteq r.todo /\ left \subseteq Images \cup Artifacts
      BY <2>2 DEF RestType
    <2>7. /\ new \in RestType /\ new.pc = pc /\ new.got = r.got /\ new.seen = r.seen
          /\ new.todo = left /\ new.inventory = r.inventory
      BY <2>4, <2>5, <2>6 DEF RestType, RestPlaces
    <2>8. FilesOK(new)
      BY <1>1, <2>1, <2>4, <2>6, <2>7 DEF FilesOK, OneRun, Unpacking
    <2>9. ImagesOK(new)
      BY <1>1, <2>1, <2>4, <2>7 DEF ImagesOK
    <2>10. rest' = new
      BY <1>1, <1>3, <2>1, <2>2, <2>3, <2>5 DEF RestHandled
    <2> QED
      BY <1>1, <2>7, <2>8, <2>9, <2>10, RestUpdate
  <1> QED
    BY <1>2, <1>3 DEF FetchCheck

\* A file is taken only if the run that the marker names sealed it.
LEMMA FetchesFile ==
  ASSUME BackupInv, FetchGet
  PROVE  BackupInv'
  <1>1. /\ rest \in RestType /\ FilesOK(rest) /\ ImagesOK(rest) /\ rest.pc = "get" /\ Kept
        /\ RemoteOK
    BY DEF BackupInv, TypeInv, FetchGet, RestAt, ButRest, Kept, history
  <1>2. PICK r \in RestType : r = rest
    BY <1>1
  <1>3. /\ r.seen.job \in Jobs /\ r.todo # {} /\ r.todo \subseteq Artifacts
        /\ OneRun(r, r.seen.job)
    BY <1>1, <1>2 DEF FilesOK
  <1>4. PICK a \in Artifacts : a = First(r.todo)
    BY <1>3, FirstIn
  <1>5. CASE RestFails
    BY <1>1, <1>5, RestFailing
  <1>6. CASE remote.sealed[a] = r.seen.job /\ Download(a, r.seen.job)
    <2>1. "db" \in job[r.seen.job].made
      BY <1>1, <1>3, <1>6 DEF RemoteOK, HasPublished
    <2>2. PICK left : left = r.todo \ {a}
      OBVIOUS
    <2>3. PICK pc : pc = Loop(left, "get", "verify")
      OBVIOUS
    <2>4. (pc = "get" /\ left # {}) \/ (pc = "verify" /\ left = {})
      BY <2>3 DEF Loop
    <2>5. PICK got : got = [r.got EXCEPT ![a] = r.seen.job]
      OBVIOUS
    <2>6. /\ got \in [Artifacts -> Owners] /\ got[a] = r.seen.job
          /\ \A b \in Artifacts \ {a} : got[b] = r.got[b]
      BY <1>3, <2>5 DEF RestType, Owners
    <2>7. PICK new : new = [r EXCEPT !.todo = left, !.pc = pc, !.got = got]
      OBVIOUS
    <2>8. left \subseteq Artifacts
      BY <1>3, <2>2
    <2>9. /\ new \in RestType /\ new.pc = pc /\ new.got = got /\ new.seen = r.seen
          /\ new.todo = left /\ new.inventory = r.inventory
      BY <2>4, <2>6, <2>7, <2>8 DEF RestType, RestPlaces
    <2>10. OneRun(new, r.seen.job)
      BY <1>3, <2>6, <2>9 DEF OneRun
    <2>11. \A b \in Artifacts : got[b] \in Jobs => "db" \in job[got[b]].made
      BY <1>1, <1>2, <2>1, <2>6 DEF FilesOK
    <2>12. FilesOK(new)
      BY <1>3, <2>4, <2>8, <2>9, <2>10, <2>11 DEF FilesOK, Unpacking
    <2>13. ImagesOK(new)
      BY <1>1, <1>2, <2>4, <2>9 DEF ImagesOK
    <2>14. rest' = new
      BY <1>2, <1>6, <2>2, <2>3, <2>5, <2>7 DEF Download
    <2> QED
      BY <1>1, <2>9, <2>12, <2>13, <2>14, RestUpdate
  <1> QED
    BY <1>2, <1>4, <1>5, <1>6 DEF FetchGet

\* What verifyBackup passes is one run's, with every file its manifest lists.
LEMMA VerifiesSet ==
  ASSUME BackupInv, VerifySet
  PROVE  BackupInv'
  <1>1. rest \in RestType /\ FilesOK(rest) /\ ImagesOK(rest) /\ rest.pc = "verify" /\ Kept
    BY DEF BackupInv, TypeInv, VerifySet, RestAt, ButRest, Kept, history
  <1>2. CASE RestFails
    BY <1>1, <1>2, RestFailing
  <1>3. ASSUME NEW m \in Jobs, m = rest.got["manifest"],
               \A a \in job[m].made : rest.got[a] = m,
               rest' = [rest EXCEPT !.pc = "restore", !.seen = NoMarker]
        PROVE  BackupInv'
    <2>1. PICK r \in RestType : r = rest
      BY <1>1
    <2>2. PICK new : new = [r EXCEPT !.pc = "restore", !.seen = NoMarker]
      OBVIOUS
    <2>3. NoMarker \in Markers
      BY DEF NoMarker, Markers, Owners
    <2>4. /\ new \in RestType /\ new.pc = "restore" /\ new.got = r.got
          /\ new.inventory = r.inventory
      BY <2>2, <2>3 DEF RestType, RestPlaces
    <2>5. "db" \in job[m].made
      BY <1>1, <1>3 DEF FilesOK, Artifacts
    <2>6. OneRun(r, m)
      <3>1. PICK i \in Jobs : OneRun(r, i)
        BY <1>1, <2>1 DEF FilesOK
      <3>2. i = m
        BY <1>3, <2>1, <3>1, NotJobs DEF OneRun, Artifacts
      <3> QED
        BY <3>1, <3>2
    <2>7. r.got["db"] = m
      BY <1>3, <2>1, <2>5
    <2>8. OneRun(new, m)
      BY <2>4, <2>6 DEF OneRun
    <2>9. FilesOK(new)
      BY <1>1, <1>3, <2>1, <2>4, <2>7, <2>8 DEF FilesOK, Unpacking
    <2>10. ImagesOK(new)
      BY <1>1, <2>1, <2>4 DEF ImagesOK
    <2>11. rest' = new
      BY <1>3, <2>1, <2>2
    <2> QED
      BY <1>1, <2>4, <2>9, <2>10, <2>11, RestUpdate
  <1> QED
    BY <1>2, <1>3 DEF VerifySet, Authentic, Listed
LEMMA TargetsBoolean == DrillTargets \subseteq BOOLEAN /\ ManualTargets \subseteq BOOLEAN
  BY DEF DrillTargets, ManualTargets, Targets

LEMMA PlainIdentity ==
  ASSUME NEW store \in Stores
  PROVE  /\ Plain(store) \in Identities
         /\ Plain(store).store = store /\ ~Plain(store).odd /\ ~Plain(store).alias
  <1>1. PICK no \in BOOLEAN : no = FALSE
    OBVIOUS
  <1>2. Plain(store) = [store |-> store, odd |-> no, alias |-> no]
    BY <1>1 DEF Plain
  <1>3. PICK p : p = [store |-> store, odd |-> no, alias |-> no]
    OBVIOUS
  <1>4. p \in Identities /\ p.store = store /\ p.odd = no /\ p.alias = no
    BY <1>3 DEF Identities
  <1> QED
    BY <1>1, <1>2, <1>3, <1>4

LEMMA RestoresDb ==
  ASSUME BackupInv, NEW mode \in {"authorized-scratch", "manual"}, NEW over \in BOOLEAN,
         RestoreDb(mode, over)
  PROVE  BackupInv'
  <1>1. /\ rest \in RestType /\ FilesOK(rest) /\ ImagesOK(rest) /\ rest.pc = "restore" /\ Kept
        /\ kind \in {"s3", "fs"}
    BY DEF BackupInv, TypeInv, RestoreDb, RestAt, ButRest, Kept, history
  <1>2. PICK r \in RestType : r = rest
    BY <1>1
  <1>3. PICK pc : pc = IF kind = "s3" THEN "media" ELSE IF HasTar THEN "untar" ELSE "done"
    OBVIOUS
  <1>4. PICK primary \in BOOLEAN : primary = (mode = "authorized-scratch" /\ over)
    OBVIOUS
  <1>5. PICK dest \in SUBSET Identities :
          rest' = Over([rest EXCEPT !.mode = mode,
            !.overPrimary = mode = "authorized-scratch" /\ over, !.dest = dest,
            !.pc = IF kind = "s3" THEN "media" ELSE IF HasTar THEN "untar" ELSE "done"])
    <2>1. Roots \subseteq Identities
      BY PlainIdentity DEF Roots, Stores
    <2>2. PICK root \in Roots :
            rest' = Over([rest EXCEPT !.mode = mode,
              !.overPrimary = mode = "authorized-scratch" /\ over,
              !.dest = IF kind = "fs" THEN {root} ELSE {},
              !.pc = IF kind = "s3" THEN "media" ELSE IF HasTar THEN "untar" ELSE "done"])
      BY DEF RestoreDb
    <2>3. (IF kind = "fs" THEN {root} ELSE {}) \in SUBSET Identities
      BY <2>1
    <2> QED
      BY <2>2, <2>3
  <1>6. PICK new : new = [r EXCEPT !.mode = mode, !.overPrimary = primary, !.dest = dest,
                                   !.pc = pc]
    OBVIOUS
  <1>7. \/ kind = "s3" /\ pc = "media"
        \/ kind = "fs" /\ pc = "untar" /\ r.got["media"] \in Jobs
        \/ kind = "fs" /\ pc = "done" /\ r.got["media"] \notin Jobs
    BY <1>1, <1>2, <1>3 DEF HasTar, Authentic
  <1>8. /\ new \in RestType /\ new.pc = pc /\ new.got = r.got /\ new.media = r.media
        /\ new.inventory = r.inventory
    BY <1>6, <1>7 DEF RestType, RestPlaces
  <1>9. FilesOK(new)
    BY <1>1, <1>2, <1>7, <1>8 DEF FilesOK, OneRun, Unpacking
  <1>10. ImagesOK(new)
    BY <1>1, <1>2, <1>7, <1>8 DEF ImagesOK
  <1>11. rest' = Over(new)
    BY <1>2, <1>3, <1>4, <1>5, <1>6
  <1> QED
    BY <1>1, <1>8, <1>9, <1>10, <1>11, RestMoves

\* The tar of an fs store holds every image its run listed.
LEMMA Untars ==
  ASSUME BackupInv, Untar
  PROVE  BackupInv'
  <1>1. /\ rest \in RestType /\ FilesOK(rest) /\ ImagesOK(rest) /\ rest.pc = "untar" /\ Kept
    BY DEF BackupInv, TypeInv, Untar, RestAt, ButRest, Kept, history
  <1>2. PICK r \in RestType : r = rest
    BY <1>1
  <1>3. kind = "fs" /\ r.got["media"] \in Jobs
    BY <1>1, <1>2 DEF ImagesOK
  <1>4. PICK keys \in SUBSET Images : keys = job[r.got["media"]].keys
    BY <1>3, Typed DEF JobType
  <1>5. PICK media : media = [k \in Images |-> IF k \in keys THEN "ok" ELSE None]
    OBVIOUS
  <1>6. media \in [Images -> Marks] /\ \A k \in keys : media[k] = "ok"
    BY <1>5 DEF Marks
  <1>7. PICK new : new = [r EXCEPT !.pc = "done", !.media = media]
    OBVIOUS
  <1>8. /\ new \in RestType /\ new.pc = "done" /\ new.got = r.got /\ new.media = media
        /\ new.inventory = r.inventory
    BY <1>6, <1>7 DEF RestType, RestPlaces
  <1>9. FilesOK(new)
    BY <1>1, <1>2, <1>8 DEF FilesOK, OneRun, Unpacking
  <1>10. ImagesOK(new)
    BY <1>1, <1>2, <1>3, <1>4, <1>6, <1>8 DEF ImagesOK
  <1>11. rest' = Over(new)
    BY <1>2, <1>4, <1>5, <1>7 DEF Untar
  <1> QED
    BY <1>1, <1>8, <1>9, <1>10, <1>11, RestMoves

LEMMA StartsMedia ==
  ASSUME BackupInv, MediaStart
  PROVE  BackupInv'
  <1>1. /\ rest \in RestType /\ FilesOK(rest) /\ ImagesOK(rest) /\ rest.pc = "media" /\ Kept
        /\ RemoteOK /\ kind = "s3"
    BY DEF BackupInv, TypeInv, MediaStart, RestAt, ImagesOK, ButRest, Kept, history
  <1>2. CASE RestFails
    BY <1>1, <1>2, RestFailing
  <1>3. ASSUME NEW i \in Jobs, i \in {rest.got["inventory"], remote.inventory},
               Verifying(i, job[i].keys)
        PROVE  BackupInv'
    <2>1. PICK r \in RestType : r = rest
      BY <1>1
    <2>2. job[i].made # {}
      BY <1>1, <1>3 DEF FilesOK, RemoteOK, Artifacts
    <2>3. PICK keys \in SUBSET Images : keys = job[i].keys
      BY Typed DEF JobType
    <2>4. PICK pc : pc = Loop(keys, "verifymedia", "done")
      OBVIOUS
    <2>5. (pc = "verifymedia" /\ keys # {}) \/ (pc = "done" /\ keys = {})
      BY <2>4 DEF Loop
    <2>6. PICK new : new = [r EXCEPT !.pc = pc, !.inventory = i, !.todo = keys]
      OBVIOUS
    <2>7. /\ new \in RestType /\ new.pc = pc /\ new.got = r.got /\ new.inventory = i
          /\ new.todo = keys
      BY <2>5, <2>6 DEF RestType, RestPlaces, Owners
    <2>8. FilesOK(new)
      BY <1>1, <2>1, <2>5, <2>7 DEF FilesOK, OneRun, Unpacking
    <2>9. ImagesOK(new)
      BY <1>1, <2>2, <2>3, <2>5, <2>7 DEF ImagesOK
    <2>10. rest' = Over(new)
      BY <1>3, <2>1, <2>3, <2>4, <2>6 DEF Verifying
    <2> QED
      BY <1>1, <2>7, <2>8, <2>9, <2>10, RestMoves
  <1> QED
    BY <1>2, <1>3 DEF MediaStart, Authentic

\* What a restore of images is at.
LEMMA AtImages ==
  ASSUME BackupInv, rest.pc \in {"verifymedia", "copy"}
  PROVE  /\ rest \in RestType /\ FilesOK(rest) /\ ImagesOK(rest) /\ kind = "s3"
         /\ rest.inventory \in Jobs /\ job[rest.inventory].made # {}
         /\ job[rest.inventory].keys \subseteq Images
         /\ rest.todo # {} /\ rest.todo \subseteq job[rest.inventory].keys
  <1>1. rest \in RestType /\ FilesOK(rest) /\ ImagesOK(rest)
    BY DEF BackupInv, TypeInv
  <1>2. rest.inventory \in Jobs /\ kind = "s3"
    BY <1>1 DEF ImagesOK
  <1>3. job[rest.inventory] \in JobType
    BY <1>2, Typed
  <1> QED
    BY <1>1, <1>2, <1>3 DEF ImagesOK, JobType

LEMMA Canonical ==
  ASSUME NEW dest \in Identities
  PROVE  canonicalizeIdentity(dest) \in Identities
  BY DEF canonicalizeIdentity, Identities

LEMMA VerifiesImages ==
  ASSUME BackupInv, MediaVerify
  PROVE  BackupInv'
  <1>1. rest.pc = "verifymedia" /\ Kept
    BY DEF MediaVerify, RestAt, ButRest, Kept, history
  <1>2. PICK r \in RestType : r = rest
    BY <1>1, AtImages
  <1>3. PICK keys \in SUBSET Images : keys = job[r.inventory].keys
    BY <1>1, <1>2, AtImages
  <1>4. /\ FilesOK(r) /\ ImagesOK(r) /\ kind = "s3" /\ r.inventory \in Jobs
        /\ job[r.inventory].made # {} /\ r.todo # {} /\ r.todo \subseteq keys
    BY <1>1, <1>2, <1>3, AtImages
  <1>5. CASE RestFails
    BY <1>1, <1>5, RestFailing
  <1>6. ASSUME NEW dest \in SUBSET Identities,
               rest' = [rest EXCEPT !.pc = "copy", !.todo = job[rest.inventory].keys,
                                    !.dest = dest]
        PROVE  BackupInv'
    <2>1. PICK new : new = [r EXCEPT !.pc = "copy", !.todo = keys, !.dest = dest]
      OBVIOUS
    <2>2. /\ new \in RestType /\ new.pc = "copy" /\ new.got = r.got
          /\ new.inventory = r.inventory /\ new.todo = keys
      BY <2>1 DEF RestType, RestPlaces
    <2>3. FilesOK(new)
      BY <1>1, <1>2, <1>4, <2>2 DEF FilesOK, OneRun, Unpacking
    <2>4. ImagesOK(new)
      <3>1. keys # {}
        BY <1>4
      <3> QED
        BY <1>3, <1>4, <2>2, <3>1 DEF ImagesOK
    <2>5. rest' = new
      BY <1>2, <1>3, <1>6, <2>1
    <2> QED
      BY <1>1, <2>2, <2>3, <2>4, <2>5, RestUpdate
  <1>7. ASSUME NEW k, r.todo # {k}, k \in r.todo, RestHandled(k, "copy")
        PROVE  BackupInv'
    <2>1. PICK left : left = r.todo \ {k}
      OBVIOUS
    <2>2. left # {} /\ left \subseteq keys
      BY <1>4, <1>7, <2>1
    <2>3. Loop(left, "verifymedia", "copy") = "verifymedia"
      BY <2>2, LoopNext
    <2>4. PICK new : new = [r EXCEPT !.todo = left, !.pc = "verifymedia"]
      OBVIOUS
    <2>5. /\ new \in RestType /\ new.pc = "verifymedia" /\ new.got = r.got
          /\ new.inventory = r.inventory /\ new.todo = left
      BY <2>2, <2>4 DEF RestType, RestPlaces
    <2>6. FilesOK(new)
      BY <1>1, <1>2, <1>4, <2>5 DEF FilesOK, OneRun, Unpacking
    <2>7. ImagesOK(new)
      BY <1>3, <1>4, <2>2, <2>5 DEF ImagesOK
    <2>8. rest' = new
      BY <1>1, <1>2, <1>7, <2>1, <2>3, <2>4 DEF RestHandled
    <2> QED
      BY <1>1, <2>5, <2>6, <2>7, <2>8, RestUpdate
  <1>8. First(r.todo) \in r.todo
    BY <1>4, FirstIn
  <1>9. \A dest \in Identities : {canonicalizeIdentity(dest)} \in SUBSET Identities
    BY Canonical
  <1> QED
    BY <1>2, <1>5, <1>6, <1>7, <1>8, <1>9 DEF MediaVerify

\* Every object is copied, or the restore knows that it falls short.
LEMMA CopiesImages ==
  ASSUME BackupInv, MediaCopy
  PROVE  BackupInv'
  <1>1. rest.pc = "copy" /\ Kept
    BY DEF MediaCopy, RestAt, ButRest, Kept, history
  <1>2. PICK r \in RestType : r = rest
    BY <1>1, AtImages
  <1>3. PICK keys \in SUBSET Images : keys = job[r.inventory].keys
    BY <1>1, <1>2, AtImages
  <1>4. /\ FilesOK(r) /\ ImagesOK(r) /\ kind = "s3" /\ r.inventory \in Jobs /\ r.pc = "copy"
        /\ job[r.inventory].made # {} /\ r.todo # {} /\ r.todo \subseteq keys
        /\ \A x \in keys \ r.todo : r.media[x] = "ok" \/ r.short
    BY <1>1, <1>2, <1>3, AtImages DEF ImagesOK
  <1>5. PICK k \in Images : k = First(r.todo) /\ k \in r.todo
    BY <1>3, <1>4, FirstIn
  <1>6. ASSUME NEW got \in Marks, NEW short \in BOOLEAN, MediaCopied(k, got, short),
               got = "ok" \/ short, r.short => short
        PROVE  BackupInv'
    <2>1. PICK left : left = r.todo \ {k}
      OBVIOUS
    <2>2. CASE left = {} /\ short
      BY <1>1, <1>2, <1>6, <2>1, <2>2, RestFailing DEF MediaCopied
    <2>3. CASE ~ (left = {} /\ short)
      <3>1. PICK pc : pc = Loop(left, "copy", "done")
        OBVIOUS
      <3>2. (pc = "copy" /\ left # {}) \/ (pc = "done" /\ left = {} /\ ~short)
        BY <2>3, <3>1 DEF Loop
      <3>3. PICK media : media = [r.media EXCEPT ![k] = got]
        OBVIOUS
      <3>4. /\ media \in [Images -> Marks] /\ media[k] = got
            /\ \A x \in Images \ {k} : media[x] = r.media[x]
        BY <3>3 DEF RestType
      <3>5. PICK new : new = [r EXCEPT !.todo = left, !.media = media, !.short = short, !.pc = pc]
        OBVIOUS
      <3>6. left \subseteq keys
        BY <1>4, <2>1
      <3>7. /\ new \in RestType /\ new.pc = pc /\ new.got = r.got /\ new.todo = left
            /\ new.inventory = r.inventory /\ new.media = media /\ new.short = short
        BY <3>2, <3>4, <3>5, <3>6 DEF RestType, RestPlaces
      <3>8. FilesOK(new)
        BY <1>4, <3>2, <3>7 DEF FilesOK, OneRun, Unpacking
      <3>9. \A x \in keys \ left : new.media[x] = "ok" \/ new.short
        BY <1>4, <1>6, <2>1, <3>4, <3>7
      <3>10. ImagesOK(new)
        BY <1>3, <1>4, <3>2, <3>6, <3>7, <3>9 DEF ImagesOK
      <3>11. rest' = Over(new)
        BY <1>2, <1>6, <2>1, <2>3, <3>1, <3>3, <3>5 DEF MediaCopied
      <3> QED
        BY <1>1, <3>7, <3>8, <3>10, <3>11, RestMoves
    <2> QED
      BY <2>2, <2>3
  <1>7. CASE MediaCopied(k, "ok", rest.short)
    <2>1. rest.short \in BOOLEAN /\ "ok" \in Marks
      BY <1>2 DEF RestType, Marks
    <2> QED
      BY <1>2, <1>6, <1>7, <2>1
  <1>8. CASE MediaCopied(k, None, TRUE)
    <2>1. None \in Marks
      BY DEF Marks
    <2> QED
      BY <1>6, <1>8, <2>1
  <1> QED
    BY <1>2, <1>5, <1>7, <1>8 DEF MediaCopy

LEMMA RestSteps ==
  ASSUME BackupInv, RestStep \/ RestDies \/ RestAgain
  PROVE  BackupInv'
  <1>1. CASE RestDies
    BY <1>1, RestFailing DEF RestDies, Kept, history
  <1>2. CASE RestAgain
    BY <1>2, RestStarts
  <1>3. CASE RestStep
    <2>1. CASE Fetch
      BY <2>1, Fetches
    <2>2. CASE \E j \in Jobs : TakeLocal(j)
      BY <2>2, TakesLocal
    <2>3. CASE FetchMarker \/ FetchMarkerAgain
      BY <2>3, FetchesMarker
    <2>4. CASE FetchCheck
      BY <2>4, FetchChecks
    <2>5. CASE Untar
      BY <2>5, Untars
    <2>6. CASE FetchGet
      BY <2>6, FetchesFile
    <2>7. CASE VerifySet
      BY <2>7, VerifiesSet
    <2>8. CASE \E over \in DrillTargets : RestoreDb("authorized-scratch", over)
      BY <2>8, TargetsBoolean, RestoresDb
    <2>9. CASE \E over \in ManualTargets : RestoreDb("manual", over)
      BY <2>9, TargetsBoolean, RestoresDb
    <2>10. CASE MediaVerify
      BY <2>10, VerifiesImages
    <2>11. CASE MediaCopy
      BY <2>11, CopiesImages
    <2>12. CASE MediaStart
      BY <2>12, StartsMedia
    <2> QED
      BY <1>3, <2>1, <2>2, <2>3, <2>4, <2>5, <2>6, <2>7, <2>8, <2>9, <2>10, <2>11, <2>12
         DEF RestStep
  <1> QED
    BY <1>1, <1>2, <1>3
-----------------------------------------------------------------------------
(* The application, and faults *)

LEMMA LifeGoesOn ==
  ASSUME BackupInv, kind' = kind, job' = job, remote' = remote, rest' = rest,
         life' \in [Images -> Lives], between' \in [Jobs -> SUBSET Images],
         \A j \in Jobs : between[j] \subseteq between'[j], lost \subseteq lost',
         \A k \in Images : life'[k] = "lost" => k \in lost',
         \A j \in Jobs : job[j].pc = "list" => Pending(j, job[j])'
  PROVE  BackupInv'
  <1>1. ASSUME NEW j \in Jobs
        PROVE  JobGood(j, job[j])'
    <2>1. PICK q \in JobType : q = job[j] /\ JobGood(j, q)
      BY Typed
    <2>2. RemoteGrows
      BY DEF RemoteGrows
    <2>3. q.pc = "list" => Pending(j, q)'
      BY <2>1 DEF Pending
    <2>4. JobGood(j, q)'
      BY <2>1, <2>2, <2>3, GoodGrows
    <2> QED
      BY <2>1, <2>4 DEF JobGood, Pending, Covers, Ordered, Copied, Uploaded, Names
  <1>2. RemoteOK' /\ FilesOK(rest)' /\ ImagesOK(rest)'
    BY DEF BackupInv, RemoteOK, HasPublished, FilesOK, ImagesOK, OneRun
  <1> QED
    BY <1>1, <1>2, Typed DEF BackupInv, TypeInv

LEMMA Listing ==
  ASSUME BackupInv, NEW j \in Jobs, job[j].pc = "list"
  PROVE  job[j].rows \subseteq Images /\ Pending(j, job[j])
  <1>1. job[j] \in JobType /\ JobGood(j, job[j])
    BY Typed
  <1> QED
    BY <1>1 DEF JobGood, JobType

LEMMA Captures ==
  ASSUME BackupInv, NEW k \in Images, Capture(k)
  PROVE  BackupInv'
  <1>1. /\ kind' = kind /\ job' = job /\ remote' = remote /\ rest' = rest
        /\ between' = between /\ lost' = lost /\ life[k] = "unborn"
        /\ life' = [life EXCEPT ![k] = "live"] /\ life \in [Images -> Lives]
        /\ between' \in [Jobs -> SUBSET Images]
    BY Typed DEF Capture, history
  <1>2. /\ life' \in [Images -> Lives] /\ life'[k] = "live"
        /\ \A x \in Images \ {k} : life'[x] = life[x]
    BY <1>1 DEF Lives
  <1>3. \A x \in Images : life'[x] = "lost" => x \in lost'
    BY <1>1, <1>2 DEF BackupInv
  <1>4. ASSUME NEW j \in Jobs, job[j].pc = "list"
        PROVE  Pending(j, job[j])'
    BY <1>1, <1>2, <1>4, Listing DEF Pending
  <1> QED
    BY <1>1, <1>2, <1>3, <1>4, LifeGoesOn

LEMMA Erases ==
  ASSUME BackupInv, NEW k \in Images, Erase(k)
  PROVE  BackupInv'
  <1>1. /\ kind' = kind /\ job' = job /\ remote' = remote /\ rest' = rest /\ lost' = lost
        /\ between' = [j \in Jobs |-> IF At(j, "list") THEN between[j] \cup {k} ELSE between[j]]
        /\ life' = [life EXCEPT ![k] = "erasing"] /\ life \in [Images -> Lives]
        /\ between \in [Jobs -> SUBSET Images] /\ life[k] # "unborn"
    BY Typed DEF Erase
  <1>2. /\ life' \in [Images -> Lives] /\ life'[k] = "erasing"
        /\ \A x \in Images \ {k} : life'[x] = life[x]
    BY <1>1 DEF Lives
  <1>3. \A x \in Images : life'[x] = "lost" => x \in lost'
    BY <1>1, <1>2 DEF BackupInv
  <1>4. /\ between' \in [Jobs -> SUBSET Images]
        /\ \A j \in Jobs : between[j] \subseteq between'[j]
        /\ \A j \in Jobs : job[j].pc = "list" => k \in between'[j]
    BY <1>1 DEF At
  <1>5. ASSUME NEW j \in Jobs, job[j].pc = "list"
        PROVE  Pending(j, job[j])'
    <2> SUFFICES ASSUME NEW x \in job[j].rows
                 PROVE  /\ life'[x] # "unborn"
                        /\ \/ x \in between'[j]
                           \/ life'[x] = "live"
                           \/ life'[x] = "lost" /\ x \in lost'
      BY <1>1 DEF Pending
    <2>1. /\ x \in Images /\ life[x] # "unborn"
          /\ x \in between[j] \/ life[x] = "live" \/ (life[x] = "lost" /\ x \in lost)
      BY <1>5, Listing DEF Pending
    <2> QED
      BY <1>1, <1>2, <1>4, <1>5, <2>1
  <1> QED
    BY <1>1, <1>2, <1>3, <1>4, <1>5, LifeGoesOn

\* A row goes only after its image, when the backup knew that it was on its way.
LEMMA Forgets ==
  ASSUME BackupInv, NEW k \in Images, Forget(k)
  PROVE  BackupInv'
  <1>1. /\ kind' = kind /\ job' = job /\ remote' = remote /\ rest' = rest
        /\ between' = between /\ lost' = lost /\ life[k] = "erasing"
        /\ life' = [life EXCEPT ![k] = "gone"] /\ life \in [Images -> Lives]
        /\ between' \in [Jobs -> SUBSET Images]
    BY Typed DEF Forget, history
  <1>2. /\ life' \in [Images -> Lives] /\ life'[k] = "gone"
        /\ \A x \in Images \ {k} : life'[x] = life[x]
    BY <1>1 DEF Lives
  <1>3. \A x \in Images : life'[x] = "lost" => x \in lost'
    BY <1>1, <1>2 DEF BackupInv
  <1>4. ASSUME NEW j \in Jobs, job[j].pc = "list"
        PROVE  Pending(j, job[j])'
    BY <1>1, <1>2, <1>4, Listing DEF Pending
  <1> QED
    BY <1>1, <1>2, <1>3, <1>4, LifeGoesOn

LEMMA LosesBlob ==
  ASSUME BackupInv, NEW k \in Images, LoseBlob(k)
  PROVE  BackupInv'
  <1>1. /\ kind' = kind /\ job' = job /\ remote' = remote /\ rest' = rest
        /\ between' = between /\ lost' = lost \cup {k} /\ life[k] = "live"
        /\ life' = [life EXCEPT ![k] = "lost"] /\ life \in [Images -> Lives]
        /\ between' \in [Jobs -> SUBSET Images]
    BY Typed DEF LoseBlob
  <1>2. /\ life' \in [Images -> Lives] /\ life'[k] = "lost"
        /\ \A x \in Images \ {k} : life'[x] = life[x]
    BY <1>1 DEF Lives
  <1>3. \A x \in Images : life'[x] = "lost" => x \in lost'
    BY <1>1, <1>2 DEF BackupInv
  <1>4. ASSUME NEW j \in Jobs, job[j].pc = "list"
        PROVE  Pending(j, job[j])'
    BY <1>1, <1>2, <1>4, Listing DEF Pending
  <1> QED
    BY <1>1, <1>2, <1>3, <1>4, LifeGoesOn

\* What decays is Bad, not gone.
LEMMA Decays ==
  ASSUME BackupInv, Decay
  PROVE  BackupInv'
  <1>1. /\ kind' = kind /\ life' = life /\ job' = job /\ rest' = rest
        /\ between' = between /\ lost' = lost
        /\ remote \in RemoteType /\ RemoteOK
    BY Typed DEF Decay, history, BackupInv
  <1>2. ASSUME NEW new \in RemoteType, remote' = new, RemoteGrows,
               new.inventory \in {remote.inventory, Bad},
               \A a \in Artifacts : new.sealed[a] \in {remote.sealed[a], Bad},
               new.marker = remote.marker \/ (new.marker.job = Bad /\ new.marker.names = {})
        PROVE  BackupInv'
    <2>1. ASSUME NEW j \in Jobs
          PROVE  JobGood(j, job[j])'
      <3>1. PICK q \in JobType : q = job[j] /\ JobGood(j, q)
        BY Typed
      <3>2. q.pc = "list" => Pending(j, q)'
        BY <1>1, <3>1 DEF JobGood, Pending
      <3>3. JobGood(j, q)'
        BY <1>1, <1>2, <3>1, <3>2, GoodGrows
      <3> QED
        BY <1>1, <3>1, <3>3 DEF JobGood, Pending, Covers, Ordered, Copied, Uploaded, Names
    <2>2. \A i \in Jobs : job[i].keys \subseteq Images
      BY Typed DEF JobType
    <2>3. remote.marker.names \subseteq Artifacts
      BY <1>1 DEF RemoteType, Markers
    <2>4. \A x : HasPublished(x) => HasPublished(x)'
      BY <1>1 DEF HasPublished
    <2>5. HasPublished(Bad)'
      BY NotJobs DEF HasPublished
    <2>6. (\A a \in Artifacts : HasPublished(remote.sealed[a]))'
      <3> SUFFICES ASSUME NEW a \in Artifacts
                   PROVE  HasPublished(remote.sealed[a])'
        OBVIOUS
      <3>1. HasPublished(new.sealed[a])'
        BY <1>1, <1>2, <2>4, <2>5 DEF RemoteOK
      <3> QED
        BY <1>2, <3>1 DEF HasPublished
    <2>7. HasPublished(remote.marker.job)'
      <3>1. HasPublished(new.marker.job)'
        BY <1>1, <1>2, <2>4, <2>5 DEF RemoteOK
      <3> QED
        BY <1>2, <3>1 DEF HasPublished
    <2>8. new.inventory \in Jobs =>
            /\ job'[new.inventory].made # {}
            /\ \A k \in job'[new.inventory].keys : new.media[k] # None
      BY <1>1, <1>2, <2>2, NotJobs DEF RemoteOK, RemoteGrows
    <2>9. /\ new.marker.job \in Jobs => new.marker.names # {}
          /\ \A a \in new.marker.names : new.sealed[a] # None
      BY <1>1, <1>2, <2>3, NotJobs DEF RemoteOK, RemoteGrows
    <2>10. RemoteOK'
      BY <1>2, <2>6, <2>7, <2>8, <2>9 DEF RemoteOK
    <2>11. FilesOK(rest)' /\ ImagesOK(rest)'
      BY <1>1 DEF BackupInv, FilesOK, ImagesOK, OneRun
    <2> QED
      BY <1>1, <1>2, <2>1, <2>10, <2>11, Typed DEF BackupInv, TypeInv
  <1>3. Bad \in Marks /\ Bad \in Owners
    BY DEF Marks, Owners
  <1>4. ASSUME NEW k \in Images, remote' = [remote EXCEPT !.media[k] = Bad]
        PROVE  BackupInv'
    <2>1. PICK new : new = [remote EXCEPT !.media[k] = Bad]
      OBVIOUS
    <2>2. /\ new \in RemoteType /\ new.inventory = remote.inventory /\ new.sealed = remote.sealed
          /\ new.marker = remote.marker /\ new.media[k] = Bad
          /\ \A x \in Images \ {k} : new.media[x] = remote.media[x]
      BY <1>1, <1>3, <2>1 DEF RemoteType
    <2>3. RemoteGrows
      BY <1>4, <2>1, <2>2, NotJobs DEF RemoteGrows
    <2> QED
      BY <1>2, <1>4, <2>1, <2>2, <2>3
  <1>5. ASSUME NEW b \in Artifacts, remote' = [remote EXCEPT !.sealed[b] = Bad]
        PROVE  BackupInv'
    <2>1. PICK new : new = [remote EXCEPT !.sealed[b] = Bad]
      OBVIOUS
    <2>2. /\ new \in RemoteType /\ new.inventory = remote.inventory /\ new.media = remote.media
          /\ new.marker = remote.marker /\ new.sealed[b] = Bad
          /\ \A x \in Artifacts \ {b} : new.sealed[x] = remote.sealed[x]
      BY <1>1, <1>3, <2>1 DEF RemoteType
    <2>3. RemoteGrows
      BY <1>5, <2>1, <2>2, NotJobs DEF RemoteGrows
    <2> QED
      BY <1>2, <1>5, <2>1, <2>2, <2>3
  <1>6. ASSUME remote' = [remote EXCEPT !.marker = [NoMarker EXCEPT !.job = Bad]]
        PROVE  BackupInv'
    <2>1. PICK marker : marker = [NoMarker EXCEPT !.job = Bad]
      OBVIOUS
    <2>2. marker \in Markers /\ marker.job = Bad /\ marker.names = {}
      BY <1>3, <2>1 DEF NoMarker, Markers
    <2>3. PICK new : new = [remote EXCEPT !.marker = marker]
      OBVIOUS
    <2>4. /\ new \in RemoteType /\ new.inventory = remote.inventory /\ new.media = remote.media
          /\ new.marker = marker /\ new.sealed = remote.sealed
      BY <1>1, <2>2, <2>3 DEF RemoteType
    <2>5. remote' = new
      BY <1>6, <2>1, <2>3
    <2>6. RemoteGrows
      BY <2>2, <2>4, <2>5, NotJobs DEF RemoteGrows
    <2> QED
      BY <1>2, <2>2, <2>4, <2>5, <2>6
  <1>7. ASSUME remote' = [remote EXCEPT !.inventory = Bad]
        PROVE  BackupInv'
    <2>1. PICK new : new = [remote EXCEPT !.inventory = Bad]
      OBVIOUS
    <2>2. /\ new \in RemoteType /\ new.inventory = Bad /\ new.media = remote.media
          /\ new.marker = remote.marker /\ new.sealed = remote.sealed
      BY <1>1, <1>3, <2>1 DEF RemoteType
    <2>3. RemoteGrows
      BY <1>7, <2>1, <2>2, NotJobs DEF RemoteGrows
    <2> QED
      BY <1>2, <1>7, <2>1, <2>2, <2>3
  <1> QED
    BY <1>4, <1>5, <1>6, <1>7 DEF Decay

LEMMA JobSteps ==
  ASSUME BackupInv, NEW j \in Jobs, Step(j) \/ PublishByHand(j) \/ JobDies(j)
  PROVE  BackupInv'
  <1>1. CASE Step(j)
    BY <1>1, Dumps, Lists, Tars, Scans, Copies, Rechecks, Commits, Seals, Moves, Verifies,
       Publishes, Uploads, Rereads, PutsMarker, VerifiesRemote DEF Step
  <1>2. CASE PublishByHand(j)
    BY <1>2, PublishesByHand
  <1>3. CASE JobDies(j)
    BY <1>3, Dies
  <1> QED
    BY <1>1, <1>2, <1>3

LEMMA Stutters ==
  ASSUME BackupInv, UNCHANGED vars
  PROVE  BackupInv'
  <1>1. /\ kind' = kind /\ life' = life /\ job' = job /\ remote' = remote /\ rest' = rest
        /\ between' = between /\ lost' = lost
    BY DEF vars
  <1>2. rest \in RestType /\ FilesOK(rest) /\ ImagesOK(rest)
    BY DEF BackupInv, TypeInv
  <1> QED
    BY <1>1, <1>2, RestUpdate DEF Kept

\* At each place of backup.sh, of a publication by hand and of restore.sh, what their
\* loops were to write is written and what they list is settled, for any number of
\* runs of one second and whatever dies, decays or is published again.
THEOREM BackupInvariant == Spec => []BackupInv
  <1>1. BackupInv /\ [Next]_vars => BackupInv'
    <2> SUFFICES ASSUME BackupInv, [Next]_vars PROVE BackupInv'
      OBVIOUS
    <2>1. CASE \E j \in Jobs : Step(j) \/ PublishByHand(j) \/ JobDies(j)
      BY <2>1, JobSteps
    <2>2. CASE RestStep \/ RestDies \/ RestAgain
      BY <2>2, RestSteps
    <2>3. CASE \E k \in Images : Capture(k) \/ Erase(k) \/ Forget(k) \/ LoseBlob(k)
      BY <2>3, Captures, Erases, Forgets, LosesBlob
    <2>4. CASE Decay
      BY <2>4, Decays
    <2>5. CASE UNCHANGED vars
      BY <2>5, Stutters
    <2> QED
      BY <2>1, <2>2, <2>3, <2>4, <2>5 DEF Next
  <1> QED
    BY <1>1, InitBackup, PTL DEF Spec
-----------------------------------------------------------------------------
(* The properties *)

LEMMA Committed ==
  ASSUME BackupInv
  PROVE  NoPartialCommit
  BY DEF BackupInv, RemoteOK, NoPartialCommit

\* What is there is the one run's that may have put it there, or decayed.
LEMMA OnlyIts ==
  ASSUME BackupInv, NEW j \in Jobs, Alone(j), NEW x \in Owners, HasPublished(x), x # None
  PROVE  x \in {j, Bad}
  BY DEF Owners, Alone, HasPublished, Publishing

LEMMA Durable ==
  ASSUME BackupInv
  PROVE  DurableHolds
  <1> SUFFICES ASSUME NEW j \in Jobs, At(j, "durable"), Alone(j)
               PROVE  /\ remote.marker.job \in {j, Bad}
                      /\ \A a \in job[j].made \cup {"manifest"} : remote.sealed[a] \in {j, Bad}
                      /\ kind = "s3" =>
                           /\ remote.inventory = Bad \/ job[remote.inventory].keys = job[j].keys
                           /\ \A k \in job[j].keys : remote.media[k] \in {"ok", Bad}
                           /\ ~job[j].hand => remote.sealed["inventory"] \in {j, Bad}
    BY DEF DurableHolds
  <1>1. /\ job[j] \in JobType /\ JobGood(j, job[j]) /\ job[j].pc = "durable"
        /\ remote \in RemoteType /\ RemoteOK
    BY Typed DEF At, BackupInv
  <1>2. /\ remote.marker.job # None /\ job[j].dir # {}
        /\ \A a \in Names(job[j]) : remote.sealed[a] # None
        /\ kind = "s3" /\ ~job[j].hand => "inventory" \in job[j].dir
    BY <1>1 DEF JobGood, Uploaded, Ordered, Publishing
  <1>3. /\ remote.marker.job \in Owners /\ HasPublished(remote.marker.job)
        /\ \A a \in Artifacts : remote.sealed[a] \in Owners /\ HasPublished(remote.sealed[a])
    BY <1>1 DEF RemoteType, Markers, RemoteOK
  <1>4. \A a \in Names(job[j]) \cap Artifacts : remote.sealed[a] \in {j, Bad}
    BY <1>2, <1>3, OnlyIts
  <1>5. job[j].made \cup {"manifest"} \subseteq Names(job[j]) \cap Artifacts
    BY <1>1 DEF Names, JobType, Artifacts
  <1>6. kind = "s3" /\ ~job[j].hand => "inventory" \in Names(job[j]) \cap Artifacts
    BY <1>2 DEF Names, Artifacts
  <1>7. ASSUME kind = "s3"
        PROVE  /\ remote.inventory = Bad \/ job[remote.inventory].keys = job[j].keys
               /\ \A k \in job[j].keys : remote.media[k] \in {"ok", Bad}
    <2>1. remote.inventory # None /\ \A k \in job[j].keys : remote.media[k] # None
      BY <1>1, <1>2, <1>7 DEF JobGood, Copied
    <2>2. job[j].keys \subseteq Images /\ remote.inventory \in Owners
      BY <1>1 DEF JobType, RemoteType
    <2>3. ASSUME remote.inventory \in Jobs
          PROVE  job[remote.inventory].keys = job[j].keys
      BY <1>1, <2>3 DEF RemoteOK, Alone
    <2> QED
      BY <1>1, <2>1, <2>2, <2>3 DEF RemoteType, Owners, Marks
  <1> QED
    BY <1>2, <1>3, <1>4, <1>5, <1>6, <1>7, OnlyIts

LEMMA Restored ==
  ASSUME BackupInv
  PROVE  RestoredWhole
  <1>1. rest \in RestType /\ FilesOK(rest) /\ ImagesOK(rest) /\ kind \in {"s3", "fs"}
    BY DEF BackupInv, TypeInv
  <1>2. ASSUME rest.pc \in Unpacking
        PROVE  \E i \in Jobs : \A a \in Artifacts : rest.got[a] \in {i, None}
    BY <1>1, <1>2 DEF FilesOK, OneRun
  <1>3. ASSUME rest.pc = "done", Alone(rest.got["db"]), NEW k \in job[rest.got["db"]].rows
        PROVE  \/ rest.media[k] = "ok"
               \/ k \in between[rest.got["db"]]
               \/ kind = "fs" /\ k \in lost
    <2>1. PICK m \in Jobs : /\ OneRun(rest, m) /\ rest.got["db"] = m
                            /\ \A a \in job[m].made : rest.got[a] = m
      BY <1>1, <1>3 DEF FilesOK, Unpacking
    <2>2. "db" \in job[m].made
      BY <1>1, <2>1 DEF FilesOK, Artifacts
    <2>3. Covers(m, job[m])
      BY <2>2, Typed DEF JobGood
    <2>4. CASE k \notin job[m].keys
      BY <1>3, <2>1, <2>3, <2>4 DEF Covers
    <2>5. CASE k \in job[m].keys /\ kind = "s3"
      <3>1. /\ rest.inventory \in Jobs /\ job[rest.inventory].made # {}
            /\ \A x \in job[rest.inventory].keys : rest.media[x] = "ok"
        BY <1>1, <1>3, <2>5 DEF ImagesOK
      <3>2. job[rest.inventory].keys = job[m].keys
        BY <1>3, <2>1, <3>1 DEF Alone
      <3> QED
        BY <2>5, <3>1, <3>2
    <2>6. CASE k \in job[m].keys /\ kind = "fs"
      <3>1. rest.got["media"] = m
        BY <1>3, <2>1, <2>3, <2>6 DEF Covers
      <3> QED
        BY <1>1, <1>3, <2>1, <2>6, <3>1 DEF ImagesOK
    <2> QED
      BY <1>1, <2>4, <2>5, <2>6
  <1> QED
    BY <1>2, <1>3 DEF RestoredWhole, Unpacking

\* "Without a valid marker a partial upload is never a valid backup"
\* (NoPartialCommit), for any number of runs of one second, of images and of
\* crashes: a marker or an inventory is put when its loop has put all it lists.
THEOREM NothingPartialCommitted == Spec => []NoPartialCommit
  BY BackupInvariant, Committed, PTL

\* A backup that was reported durable off the box stays whole there, but for what
\* decays (DurableHolds), among any number of runs and publications by hand.
THEOREM DurableStays == Spec => []DurableHolds
  BY BackupInvariant, Durable, PTL

\* A restore that passed verification works on one run's files, and one that
\* reports success has every image its database refers to, but for a deletion
\* under way or a blob the fs store had lost (RestoredWhole).
THEOREM RestoresWhole == Spec => []RestoredWhole
  BY BackupInvariant, Restored, PTL
-----------------------------------------------------------------------------
(* The target of a drill *)

\* The primary is a database of another machine, and no drill's: its name does not
\* end in a run id.
RemotePrimary == Primary.host # Loopback /\ Primary.db.suffix \notin RunIds

\* A restore of an s3 store has a destination only while it copies, and then one that
\* the guard let pass.
DrillInv ==
  /\ rest.overPrimary = FALSE
  /\ rest.pc \notin {"untar", "copy"} => rest.dest = {}
  /\ rest.pc \in {"media", "verifymedia"} => kind = "s3"
  /\ rest.pc = "copy" => \E d \in Identities : /\ MayWrite(d, rest.mode = "manual")
                                               /\ rest.dest = {canonicalizeIdentity(d)}
  /\ rest.pc = "untar" => kind = "fs"

\* No spelling of the primary and no authorization passes the guard of a drill.
LEMMA NoPrimaryDrill ==
  ASSUME RemotePrimary
  PROVE  TRUE \notin DrillTargets
  <1> SUFFICES ASSUME NEW u \in Urls, NEW env \in Envs(u), Passes("authorized-scratch", u, env),
                      Reaches(u) = Primary
               PROVE  FALSE
    BY DEF DrillTargets, Targets
  <1>1. Primary.host = u.host /\ Primary.db = u.db
    BY DEF Reaches
  <1>2. isLoopback(u) \/ RemoteScratch(u, env)
    BY DEF Passes, classifyScratchTarget
  <1> QED
    BY <1>1, <1>2 DEF RemotePrimary, isLoopback, RemoteScratch, Marked

\* However it is spelled, where the guard lets images be written to is neither the
\* backup store nor, in a drill, the primary, but for an alias.
LEMMA Distinct ==
  ASSUME NEW d \in Identities, NEW allowPrimary \in BOOLEAN, MayWrite(d, allowPrimary)
  PROVE  LET c == canonicalizeIdentity(d)
         IN  c.alias \/ (c.store # "backup" /\ (c.store = "primary" => allowPrimary))
  <1>1. PICK no \in BOOLEAN : no = FALSE
    OBVIOUS
  <1>2. PICK c \in Identities : c = canonicalizeIdentity(d)
    BY Canonical
  <1>3. c = [d EXCEPT !.odd = no]
    BY <1>1, <1>2 DEF canonicalizeIdentity
  <1>4. c.odd = FALSE /\ c.alias \in BOOLEAN /\ c.store \in Stores
    BY <1>1, <1>3 DEF Identities
  <1>5. ASSUME NEW p \in Identities, NEW q \in Identities, p.odd = q.odd, p.alias = q.alias,
               p.store = q.store
        PROVE  p = q
    BY <1>5 DEF Identities
  <1>6. ASSUME NEW store \in Stores, canonicalizeIdentity(Plain(store)) # c, c.store = store,
               ~c.alias
        PROVE  FALSE
    <2>1. PICK p \in Identities : p = Plain(store)
      BY PlainIdentity
    <2>2. p.store = store /\ p.odd = FALSE /\ p.alias = FALSE
      BY <2>1, PlainIdentity DEF Identities
    <2>3. c = p
      BY <1>4, <1>5, <1>6, <2>2
    <2>4. [p EXCEPT !.odd = no] = p
      BY <1>1, <2>2 DEF Identities
    <2> QED
      BY <1>1, <1>6, <2>1, <2>3, <2>4 DEF canonicalizeIdentity
  <1>7. canonicalizeIdentity(Plain("backup")) # c
    BY <1>2 DEF MayWrite, assertDistinctTargets
  <1>8. canonicalizeIdentity(Plain("primary")) # c \/ allowPrimary
    BY <1>2 DEF MayWrite, assertDistinctTargets
  <1> QED
    BY <1>2, <1>4, <1>6, <1>7, <1>8 DEF Stores

LEMMA DrillStep ==
  ASSUME RemotePrimary, BackupInv, DrillInv, [Next]_vars
  PROVE  DrillInv'
  <1>1. rest \in RestType /\ kind \in {"s3", "fs"}
    BY DEF BackupInv, TypeInv
  <1>2. PICK r \in RestType : r = rest
    BY <1>1
  <1>3. ASSUME NEW new \in RestType, rest' = new, kind' = kind, new.overPrimary = FALSE,
               new.pc \notin {"untar", "copy"} => new.dest = {},
               new.pc \in {"media", "verifymedia"} => kind = "s3",
               new.pc = "copy" => \E d \in Identities : /\ MayWrite(d, new.mode = "manual")
                                                      /\ new.dest = {canonicalizeIdentity(d)},
               new.pc = "untar" => kind = "fs"
        PROVE  DrillInv'
    BY <1>3 DEF DrillInv
  <1>4. ASSUME rest' = rest, kind' = kind
        PROVE  DrillInv'
    BY <1>4 DEF DrillInv
  <1>5. ASSUME RestFails \/ RestAgain, kind' = kind
        PROVE  DrillInv'
    BY <1>5 DEF RestFails, RestAgain, IdleRest, DrillInv
  <1>6. CASE RestStep
    <2>1. kind' = kind
      BY <1>6 DEF RestStep, Fetch, TakeLocal, FetchMarker, FetchCheck, FetchMarkerAgain, FetchGet,
         VerifySet, RestoreDb, Untar, MediaStart, MediaVerify, MediaCopy, ButRest
    <2>2. ASSUME NEW new \in RestType, rest' = new, new.overPrimary = r.overPrimary,
                 r.pc \notin {"untar", "copy"}, new.dest = r.dest,
                 new.pc \notin {"untar", "copy", "media", "verifymedia"}
          PROVE  DrillInv'
      BY <1>2, <1>3, <2>1, <2>2 DEF DrillInv
    <2>3. CASE Fetch
      <3>1. PICK new : new = [r EXCEPT !.pc = "marker"]
        OBVIOUS
      <3>2. /\ new \in RestType /\ new.overPrimary = r.overPrimary /\ new.dest = r.dest
            /\ new.pc = "marker"
        BY <3>1 DEF RestType, RestPlaces
      <3>3. rest' = new /\ r.pc = "idle"
        BY <1>2, <2>3, <3>1 DEF Fetch, RestTo, RestAt
      <3> QED
        BY <2>2, <3>2, <3>3
    <2>4. CASE \E j \in Jobs : TakeLocal(j)
      <3>1. PICK j \in Jobs : TakeLocal(j)
        BY <2>4
      <3>2. PICK got \in [Artifacts -> Owners] :
              got = [a \in Artifacts |-> IF a \in job[j].dir THEN j ELSE None]
        BY DEF Owners
      <3>3. PICK new : new = [r EXCEPT !.pc = "verify", !.got = got]
        OBVIOUS
      <3>4. /\ new \in RestType /\ new.overPrimary = r.overPrimary /\ new.dest = r.dest
            /\ new.pc = "verify"
        BY <3>3 DEF RestType, RestPlaces
      <3>5. rest' = new /\ r.pc = "idle"
        BY <1>2, <3>1, <3>2, <3>3 DEF TakeLocal, RestAt
      <3> QED
        BY <2>2, <3>4, <3>5
    <2>5. CASE FetchMarker \/ FetchMarkerAgain
      <3>1. r.pc \in {"marker", "again"}
        BY <1>2, <2>5 DEF FetchMarker, FetchMarkerAgain, RestAt
      <3>2. ASSUME NEW next \in {"check", "get"}, NEW marker, TakeMarker(marker, next)
            PROVE  DrillInv'
        <4>1. rest' = [r EXCEPT !.pc = next, !.seen = marker, !.todo = marker.names]
          BY <1>2, <3>2 DEF TakeMarker
        <4>2. /\ rest'.overPrimary = r.overPrimary /\ rest'.dest = r.dest /\ rest'.pc = next
          BY <4>1 DEF RestType
        <4> QED
          BY <1>2, <2>1, <3>1, <4>2 DEF DrillInv
      <3> QED
        BY <1>5, <2>1, <2>5, <3>2 DEF FetchMarker, FetchMarkerAgain
    <2>6. CASE FetchCheck
      <3>1. ASSUME NEW a, RestHandled(a, "again")
            PROVE  DrillInv'
        <4>1. r.pc = "check"
          BY <1>2, <2>6 DEF FetchCheck, RestAt
        <4>2. PICK pc \in {"check", "again"} : pc = Loop(r.todo \ {a}, "check", "again")
          BY DEF Loop
        <4>3. PICK left : left = r.todo \ {a}
          OBVIOUS
        <4>4. rest' = [r EXCEPT !.todo = left, !.pc = pc]
          BY <1>2, <3>1, <4>1, <4>2, <4>3 DEF RestHandled
        <4>5. rest'.overPrimary = r.overPrimary /\ rest'.dest = r.dest /\ rest'.pc = pc
          BY <4>4 DEF RestType
        <4> QED
          BY <1>2, <2>1, <4>1, <4>5 DEF DrillInv
      <3> QED
        BY <1>5, <2>1, <2>6, <3>1 DEF FetchCheck
    <2>7. CASE FetchGet
      <3>1. ASSUME NEW a, NEW what, Download(a, what)
            PROVE  DrillInv'
        <4>1. r.pc = "get"
          BY <1>2, <2>7 DEF FetchGet, RestAt
        <4>2. PICK pc \in {"get", "verify"} : pc = Loop(r.todo \ {a}, "get", "verify")
          BY DEF Loop
        <4>3. PICK left : left = r.todo \ {a}
          OBVIOUS
        <4>4. PICK got : got = [r.got EXCEPT ![a] = what]
          OBVIOUS
        <4>5. rest' = [r EXCEPT !.todo = left, !.pc = pc, !.got = got]
          BY <1>2, <3>1, <4>2, <4>3, <4>4 DEF Download
        <4>6. rest'.overPrimary = r.overPrimary /\ rest'.dest = r.dest /\ rest'.pc = pc
          BY <4>5 DEF RestType
        <4> QED
          BY <1>2, <2>1, <4>1, <4>6 DEF DrillInv
      <3> QED
        BY <1>5, <2>1, <2>7, <3>1 DEF FetchGet
    <2>8. CASE VerifySet
      <3>1. ASSUME rest' = [rest EXCEPT !.pc = "restore", !.seen = NoMarker]
            PROVE  DrillInv'
        <4>1. PICK marker : marker = NoMarker
          OBVIOUS
        <4>2. rest' = [r EXCEPT !.pc = "restore", !.seen = marker]
          BY <1>2, <3>1, <4>1
        <4>3. rest'.overPrimary = r.overPrimary /\ rest'.dest = r.dest /\ rest'.pc = "restore"
          BY <4>2 DEF RestType
        <4>4. r.pc = "verify"
          BY <1>2, <2>8 DEF VerifySet, RestAt
        <4> QED
          BY <1>2, <2>1, <4>3, <4>4 DEF DrillInv
      <3> QED
        BY <1>5, <2>1, <2>8, <3>1 DEF VerifySet
    <2>9. ASSUME NEW mode \in {"authorized-scratch", "manual"}, NEW over \in BOOLEAN,
                 mode = "authorized-scratch" => over = FALSE, RestoreDb(mode, over)
          PROVE  DrillInv'
      <3>1. PICK pc : pc = IF kind = "s3" THEN "media" ELSE IF HasTar THEN "untar" ELSE "done"
        OBVIOUS
      <3>2. PICK root \in Roots :
              rest' = Over([rest EXCEPT !.mode = mode,
                !.overPrimary = mode = "authorized-scratch" /\ over,
                !.dest = IF kind = "fs" THEN {root} ELSE {},
                !.pc = IF kind = "s3" THEN "media" ELSE IF HasTar THEN "untar" ELSE "done"])
        BY <2>9 DEF RestoreDb
      <3>3. PICK dest : dest = IF kind = "fs" THEN {root} ELSE {}
        OBVIOUS
      <3>4. (mode = "authorized-scratch" /\ over) = FALSE
        BY <2>9
      <3>5. rest' = Over([r EXCEPT !.mode = mode, !.overPrimary = FALSE, !.dest = dest, !.pc = pc])
        BY <1>2, <3>1, <3>2, <3>3, <3>4
      <3>6. PICK new : new = [r EXCEPT !.mode = mode, !.overPrimary = FALSE, !.dest = dest, !.pc = pc]
        OBVIOUS
      <3>7. new.overPrimary = FALSE /\ new.dest = dest /\ new.pc = pc
        BY <3>6 DEF RestType
      <3>8. CASE pc = "done"
        <4>1. rest' = [new EXCEPT !.mode = None, !.dest = {}]
          BY <3>5, <3>6, <3>7, <3>8 DEF Over
        <4>2. rest'.overPrimary = FALSE /\ rest'.dest = {} /\ rest'.pc = "done"
          BY <3>6, <3>7, <3>8, <4>1 DEF RestType
        <4> QED
          BY <2>1, <4>2 DEF DrillInv
      <3>9. CASE pc # "done"
        <4>1. rest' = new
          BY <3>5, <3>6, <3>7, <3>9 DEF Over
        <4>2. \/ kind = "s3" /\ pc = "media" /\ dest = {}
              \/ kind = "fs" /\ pc = "untar"
          BY <1>1, <3>1, <3>3, <3>9
        <4> QED
          BY <2>1, <3>7, <4>1, <4>2 DEF DrillInv
      <3> QED
        BY <3>8, <3>9
    <2>10. CASE Untar
      <3>1. PICK media :
              rest' = Over([rest EXCEPT !.pc = "done", !.media = media])
        BY <2>10 DEF Untar
      <3>2. PICK new : new = [r EXCEPT !.pc = "done", !.media = media]
        OBVIOUS
      <3>3. new.pc = "done" /\ new.overPrimary = r.overPrimary
        BY <3>2 DEF RestType
      <3>4. rest' = [new EXCEPT !.mode = None, !.dest = {}]
        BY <1>2, <3>1, <3>2, <3>3 DEF Over
      <3>5. rest'.overPrimary = r.overPrimary /\ rest'.dest = {} /\ rest'.pc = "done"
        BY <3>2, <3>3, <3>4 DEF RestType
      <3> QED
        BY <1>2, <2>1, <3>5 DEF DrillInv
    <2>11. CASE MediaStart
      <3>1. ASSUME NEW i, Verifying(i, job[i].keys)
            PROVE  DrillInv'
        <4>1. PICK pc \in {"verifymedia", "done"} : pc = Loop(job[i].keys, "verifymedia", "done")
          BY DEF Loop
        <4>2. PICK keys : keys = job[i].keys
          OBVIOUS
        <4>3. PICK new : new = [r EXCEPT !.pc = pc, !.inventory = i, !.todo = keys]
          OBVIOUS
        <4>4. rest' = Over(new)
          BY <1>2, <3>1, <4>1, <4>2, <4>3 DEF Verifying
        <4>5. /\ new.pc = pc /\ new.overPrimary = r.overPrimary /\ new.dest = r.dest
          BY <4>3 DEF RestType
        <4>6. r.pc = "media" /\ kind = "s3" /\ r.dest = {}
          BY <1>2, <2>11 DEF MediaStart, RestAt, DrillInv
        <4>7. /\ rest'.pc = pc /\ rest'.overPrimary = r.overPrimary /\ rest'.dest = {}
          BY <4>3, <4>4, <4>5, <4>6 DEF Over, RestType
        <4> QED
          BY <1>2, <2>1, <4>6, <4>7 DEF DrillInv
      <3> QED
        BY <1>5, <2>1, <2>11, <3>1 DEF MediaStart
    <2>12. CASE MediaVerify
      <3>1. r.pc = "verifymedia" /\ kind = "s3" /\ r.dest = {}
        BY <1>2, <2>12 DEF MediaVerify, RestAt, DrillInv
      <3>2. ASSUME NEW k, r.todo # {k}, RestHandled(k, "copy"), k \in r.todo
            PROVE  DrillInv'
        <4>1. PICK left : left = r.todo \ {k}
          OBVIOUS
        <4>2. left # {}
          BY <3>2, <4>1
        <4>3. Loop(left, "verifymedia", "copy") = "verifymedia"
          BY <4>2 DEF Loop
        <4>4. rest' = [r EXCEPT !.todo = left, !.pc = "verifymedia"]
          BY <1>2, <3>1, <3>2, <4>1, <4>3 DEF RestHandled
        <4>5. /\ rest'.overPrimary = r.overPrimary /\ rest'.dest = r.dest
              /\ rest'.pc = "verifymedia"
          BY <4>4 DEF RestType
        <4> QED
          BY <1>2, <2>1, <3>1, <4>5 DEF DrillInv
      <3>3. ASSUME NEW d \in Identities, MayWrite(d, rest.mode = "manual"),
                   rest' = [rest EXCEPT !.pc = "copy", !.todo = job[rest.inventory].keys,
                                        !.dest = {canonicalizeIdentity(d)}]
            PROVE  DrillInv'
        <4>1. PICK keys : keys = job[rest.inventory].keys
          OBVIOUS
        <4>2. PICK dest : dest = {canonicalizeIdentity(d)}
          OBVIOUS
        <4>3. rest' = [r EXCEPT !.pc = "copy", !.todo = keys, !.dest = dest]
          BY <1>2, <3>3, <4>1, <4>2
        <4>4. /\ rest'.overPrimary = r.overPrimary /\ rest'.dest = dest
              /\ rest'.pc = "copy" /\ rest'.mode = r.mode
          BY <4>3 DEF RestType
        <4>5. \E e \in Identities : /\ MayWrite(e, rest'.mode = "manual")
                                    /\ rest'.dest = {canonicalizeIdentity(e)}
          BY <1>2, <3>3, <4>2, <4>4
        <4> QED
          BY <1>2, <2>1, <3>1, <4>4, <4>5 DEF DrillInv
      <3>4. First(r.todo) \in r.todo
        <4>1. r.todo # {}
          BY <1>2, <3>1, AtImages
        <4> QED
          BY <4>1, FirstIn
      <3> QED
        BY <1>2, <1>5, <2>1, <2>12, <3>2, <3>3, <3>4 DEF MediaVerify
    <2>13. CASE MediaCopy
      <3>1. ASSUME NEW k, NEW got, NEW short, MediaCopied(k, got, short)
            PROVE  DrillInv'
        <4>1. PICK left : left = r.todo \ {k}
          OBVIOUS
        <4>2. PICK pc \in {"copy", "done"} : pc = Loop(left, "copy", "done")
          BY DEF Loop
        <4>3. PICK media : media = [r.media EXCEPT ![k] = got]
          OBVIOUS
        <4>4. CASE RestFails
          BY <1>5, <2>1, <4>4
        <4>5. CASE rest' = Over([rest EXCEPT !.todo = left, !.media[k] = got, !.short = short,
                                             !.pc = Loop(left, "copy", "done")])
          <5>1. PICK new : new = [r EXCEPT !.todo = left, !.media = media, !.short = short,
                                           !.pc = pc]
            OBVIOUS
          <5>2. rest' = Over(new)
            BY <1>2, <4>2, <4>3, <4>5, <5>1
          <5>3. /\ new.pc = pc /\ new.overPrimary = r.overPrimary /\ new.dest = r.dest
                /\ new.mode = r.mode
            BY <5>1 DEF RestType
          <5>4. CASE pc = "done"
            <6>1. rest' = [new EXCEPT !.mode = None, !.dest = {}]
              BY <5>2, <5>3, <5>4 DEF Over
            <6>2. rest'.overPrimary = r.overPrimary /\ rest'.dest = {} /\ rest'.pc = "done"
              BY <5>1, <5>3, <5>4, <6>1 DEF RestType
            <6> QED
              BY <1>2, <2>1, <6>2 DEF DrillInv
          <5>5. CASE pc = "copy"
            <6>1. rest' = new
              BY <5>2, <5>3, <5>5 DEF Over
            <6>2. r.pc = "copy"
              BY <1>2, <2>13 DEF MediaCopy, RestAt
            <6> QED
              BY <1>2, <2>1, <5>3, <5>5, <6>1, <6>2 DEF DrillInv
          <5> QED
            BY <4>2, <5>4, <5>5
        <4> QED
          BY <1>2, <3>1, <4>1, <4>4, <4>5 DEF MediaCopied
      <3> QED
        BY <2>13, <3>1 DEF MediaCopy
    <2>14. CASE \E over \in DrillTargets : RestoreDb("authorized-scratch", over)
      BY <2>9, <2>14, NoPrimaryDrill, TargetsBoolean
    <2>15. CASE \E over \in ManualTargets : RestoreDb("manual", over)
      BY <2>9, <2>15, TargetsBoolean
    <2> QED
      BY <1>6, <2>3, <2>4, <2>5, <2>6, <2>7, <2>8, <2>10, <2>11, <2>12, <2>13, <2>14, <2>15
         DEF RestStep
  <1>7. CASE RestDies \/ RestAgain
    BY <1>5, <1>7 DEF RestDies, RestAgain, ButRest
  <1>8. ASSUME NEW j \in Jobs, Step(j) \/ PublishByHand(j) \/ JobDies(j)
        PROVE  DrillInv'
    <2>1. rest' = rest /\ kind' = kind
      BY <1>8 DEF Step, Dump, List, Tar, Scan, Copy, Recheck, Commit, Seal, Move, VerifyMedia,
         Publish, Upload, Reread, PutMarker, VerifyRemote, PublishByHand, JobDies, LeaveRemote,
         ButRemote
    <2> QED
      BY <1>4, <2>1
  <1>9. CASE (\E k \in Images : Capture(k) \/ Erase(k) \/ Forget(k) \/ LoseBlob(k)) \/ Decay
    BY <1>4, <1>9 DEF Capture, Erase, Forget, LoseBlob, Decay
  <1>10. CASE UNCHANGED vars
    BY <1>4, <1>10 DEF vars
  <1> QED
    BY <1>6, <1>7, <1>8, <1>9, <1>10 DEF Next

LEMMA Spares ==
  ASSUME BackupInv, DrillInv
  PROVE  DrillSparesPrimary
  <1>1. rest.mode \in {None, "authorized-scratch", "manual"}
    BY DEF BackupInv, TypeInv, RestType
  <1>2. ASSUME kind = "s3", NEW c \in rest.dest
        PROVE  \/ c.alias
               \/ c.store # "backup" /\ (rest.mode = "authorized-scratch" => c.store # "primary")
    <2>1. rest.pc = "copy"
      BY <1>2 DEF DrillInv
    <2>2. PICK d \in Identities : MayWrite(d, rest.mode = "manual") /\ c = canonicalizeIdentity(d)
      BY <1>2, <2>1 DEF DrillInv
    <2>3. PICK manual \in BOOLEAN : manual = (rest.mode = "manual")
      OBVIOUS
    <2>4. c.alias \/ (c.store # "backup" /\ (c.store = "primary" => manual))
      BY <2>2, <2>3, Distinct
    <2> QED
      BY <2>3, <2>4
  <1> QED
    BY <1>2 DEF DrillInv, DrillSparesPrimary

\* A drill never writes to the primary database, however its URL is spelled, nor
\* by media:restore-s3 to the primary store, however oddly but not by an alias, and
\* no restore to the backup store (DrillSparesPrimary): for any hosts, database
\* names and run ids of which the primary's is none.
THEOREM DrillSparesThePrimary ==
  ASSUME RemotePrimary
  PROVE  Spec => []DrillSparesPrimary
  <1>1. Init => DrillInv
    BY DEF Init, IdleRest, DrillInv
  <1>2. BackupInv /\ DrillInv /\ [Next]_vars => DrillInv'
    BY DrillStep
  <1>3. BackupInv /\ DrillInv => DrillSparesPrimary
    BY Spares
  <1> QED
    BY <1>1, <1>2, <1>3, BackupInvariant, PTL DEF Spec
=============================================================================
