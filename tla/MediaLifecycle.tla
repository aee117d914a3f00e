---------------------------- MODULE MediaLifecycle ----------------------------
(***************************************************************************)
(* Captured images between PostgreSQL (context_moments, moment_media,      *)
(* media_delete_queue) and the object store, for one user.                 *)
(*                                                                         *)
(* A capture stores each image as one or two blobs and then inserts its    *)
(* moment_media row; deletions of a moment, a project or the account       *)
(* remove the blobs one by one, tombstone those they could not remove, and *)
(* then delete the rows in one transaction; the operator's backfill moves  *)
(* images out of legacy payloads; media:cleanup drains the tombstones and  *)
(* sweeps blobs that no row references.  No two of these share a lock, so  *)
(* every query and every store call is a step of its own.                  *)
(***************************************************************************)
EXTENDS Integers, FiniteSets

CONSTANTS
  Moments,    \* moments of the user
  InProject,  \* the moments captured into the user's one project
  Legacy,     \* moments whose payload still carries an inline image
  Media,      \* media ids that captures may draw
  Thumbs,     \* the media whose image decodes and gets a thumbnail
  Writers,    \* captures and backfill runs in flight
  Deletes,    \* delete requests in flight
  Cleaners,   \* runs of media:cleanup --delete in flight
  Faults,     \* the kinds of fault this instance explores
  None

FaultKinds ==
  { "store_error",   \* the object store throws, with or without effect
    "crash",         \* a process dies, or a query throws out of it
    "no_pipeline",   \* the API runs without its encryption key
    "slow_writer" }  \* a blob grows older than min-age before its row exists

ASSUME ConstantsOK ==
  /\ InProject \subseteq Moments /\ Legacy \subseteq Moments
  /\ Thumbs \subseteq Media
  /\ None \notin Moments \cup Media
  /\ Faults \subseteq FaultKinds

\* storage_key and thumb_key of every medium.
Keys == (Media \X {"full"}) \cup (Thumbs \X {"thumb"})

VARIABLES
  user,    \* "active", "locked" (deleted_at set) or "gone"
  project, \* whether the project row exists
  moment,  \* context_moments: "none" yet, "live" or "gone"
  inline,  \* the moments whose payload holds an inline image
  owner,   \* the moment each medium was stored for
  rows,    \* the media with a moment_media row
  blob,    \* each key in the store: "none", "recent" or "old"
  tombs,   \* the keys in media_delete_queue
  wr,      \* captures and backfills: program counter and locals
  del,     \* delete requests: program counter and locals
  cln,     \* cleanup runs: program counter and locals
  seen,    \* history: media whose row a completed delete had selected
  aborted  \* history: moments left standing by a deletion that worked on them

vars == <<user, project, moment, inline, owner, rows, blob, tombs, wr, del, cln,
          seen, aborted>>
db == <<user, project, moment, inline>>
history == <<seen, aborted>>
-----------------------------------------------------------------------------
(* Initial state *)

IdleWriter == [pc |-> "idle", moment |-> None, medium |-> None,
               backfill |-> FALSE]
IdleDelete == [pc |-> "idle", kind |-> "none", targets |-> {}, keys |-> {},
               failed |-> {}, counted |-> FALSE, found |-> {}]
IdleCleaner == [pc |-> "idle", queue |-> {}, dropping |-> {}, old |-> {},
                keep |-> {}, doomed |-> {}, must |-> {}]

Init ==
  /\ user = "active"
  /\ project = TRUE
  /\ moment = [m \in Moments |-> IF m \in Legacy THEN "live" ELSE "none"]
  /\ inline = Legacy
  /\ owner = [x \in Media |-> None]
  /\ rows = {}
  /\ blob = [k \in Keys |-> "none"]
  /\ tombs = {}
  /\ wr = [w \in Writers |-> IdleWriter]
  /\ del = [d \in Deletes |-> IdleDelete]
  /\ cln = [c \in Cleaners |-> IdleCleaner]
  /\ seen = {} /\ aborted = {}
-----------------------------------------------------------------------------
(* Helpers *)

KeysOf(X) == {k \in Keys : k[1] \in X}
Stored == {k \in Keys : blob[k] # "none"}
Remove(k) == blob' = [blob EXCEPT ![k] = "none"]
Live == {m \in Moments : moment[m] = "live"}

WriterAt(w, pc) == wr[w].pc = pc
WriterTo(w, pc) == wr' = [wr EXCEPT ![w].pc = pc]
WriterEnds(w) == wr' = [wr EXCEPT ![w] = IdleWriter]
\* The media some writer has put into the store and has not yet recorded.
Unrecorded == {wr[w].medium : w \in {v \in Writers : wr[v].pc \in {"thumb", "row"}}}

DeleteAt(d, pc) == del[d].pc = pc
CleanerAt(c, pc) == cln[c].pc = pc
CleanerEnds(c) == cln' = [cln EXCEPT ![c] = IdleCleaner]
-----------------------------------------------------------------------------
(* Capture and backfill *)

\* POST /v1/context/moments: the session is resolved ...
CaptureStart(w) ==
  /\ WriterAt(w, "idle")
  /\ user = "active"
  /\ WriterTo(w, "moment")
  /\ UNCHANGED <<db, owner, rows, blob, tombs, del, cln, history>>

\* ... and the moment inserted, unless its user or its project is gone.
InsertMoment(w, m) ==
  /\ WriterAt(w, "moment")
  /\ moment[m] = "none"
  /\ \/ /\ user # "gone" /\ (m \in InProject => project)
        /\ moment' = [moment EXCEPT ![m] = "live"]
        /\ wr' = [wr EXCEPT ![w] = [@ EXCEPT !.pc = "images", !.moment = m]]
     \/ /\ user = "gone" \/ (m \in InProject /\ ~project)
        /\ WriterEnds(w)
        /\ UNCHANGED moment
  /\ UNCHANGED <<user, project, inline, owner, rows, blob, tombs, del, cln, history>>

\* media:backfill takes a moment of its scan with an inline image ...
BackfillStart(w, m) ==
  /\ WriterAt(w, "idle")
  /\ m \in inline
  /\ wr' = [wr EXCEPT ![w] = [pc |-> "images", moment |-> m, medium |-> None,
                              backfill |-> TRUE]]
  /\ UNCHANGED <<db, owner, rows, blob, tombs, del, cln, history>>

\* ... and, where redaction is off or fails, only strips the pixels.
Quarantine(w) ==
  /\ WriterAt(w, "images") /\ wr[w].backfill
  /\ WriterTo(w, "strip")
  /\ UNCHANGED <<db, owner, rows, blob, tombs, del, cln, history>>

\* The UPDATE that takes the inline image out of the payload.
StripPayload(w) ==
  /\ WriterAt(w, "strip")
  /\ inline' = inline \ {wr[w].moment}
  /\ WriterEnds(w)
  /\ UNCHANGED <<user, project, moment, owner, rows, blob, tombs, del, cln, history>>

\* storeMomentImages: a fresh media id, its blob, its thumbnail ...
StoreImage(w, x) ==
  /\ WriterAt(w, "images")
  /\ owner[x] = None
  /\ owner' = [owner EXCEPT ![x] = wr[w].moment]
  /\ blob' = [blob EXCEPT ![<<x, "full">>] = "recent"]
  /\ wr' = [wr EXCEPT ![w] = [@ EXCEPT
       !.medium = x, !.pc = IF x \in Thumbs THEN "thumb" ELSE "row"]]
  /\ UNCHANGED <<db, rows, tombs, del, cln, history>>

StoreThumb(w) ==
  /\ WriterAt(w, "thumb")
  /\ blob' = [blob EXCEPT ![<<wr[w].medium, "thumb">>] = "recent"]
  /\ WriterTo(w, "row")
  /\ UNCHANGED <<db, owner, rows, tombs, del, cln, history>>

\* ... and its row, which the foreign key refuses once the moment is gone.  A
\* capture may go on to its next image; a legacy payload holds one.
InsertRow(w) ==
  LET x == wr[w].medium IN
  /\ WriterAt(w, "row")
  /\ \/ /\ moment[wr[w].moment] = "live"
        /\ rows' = rows \cup {x}
        /\ wr' = [wr EXCEPT ![w] = [@ EXCEPT
             !.medium = None, !.pc = IF wr[w].backfill THEN "strip" ELSE "images"]]
     \/ /\ moment[wr[w].moment] # "live"
        /\ WriterEnds(w)
        /\ UNCHANGED rows
  /\ UNCHANGED <<db, owner, blob, tombs, del, cln, history>>

CaptureEnds(w) ==
  /\ WriterAt(w, "images") /\ ~wr[w].backfill
  /\ WriterEnds(w)
  /\ UNCHANGED <<db, owner, rows, blob, tombs, del, cln, history>>

\* The store or the database throws (a capture goes on without its image, a
\* backfill dies), or the process crashes; a failing put may have taken effect.
WriterFails(w) ==
  /\ Faults \cap {"store_error", "crash"} # {}
  /\ ~WriterAt(w, "idle")
  /\ \/ UNCHANGED blob
     \/ /\ WriterAt(w, "thumb")
        /\ blob' = [blob EXCEPT ![<<wr[w].medium, "thumb">>] = "recent"]
  /\ WriterEnds(w)
  /\ UNCHANGED <<db, owner, rows, tombs, del, cln, history>>
-----------------------------------------------------------------------------
(* Deletions *)

Starts(d, to, kind, targets) ==
  /\ DeleteAt(d, "idle")
  /\ user = "active"
  /\ del' = [del EXCEPT ![d] = [IdleDelete EXCEPT
       !.pc = to, !.kind = kind, !.targets = targets, !.counted = (rows # {})]]
  /\ UNCHANGED <<db, owner, rows, blob, tombs, wr, cln, history>>

\* DELETE /v1/context/moments/:id and /v1/projects/:id?delete_moments=true, and
\* POST /v1/auth/account/delete, which counts the media before it locks.
DeleteMoment(d, m) == moment[m] = "live" /\ Starts(d, "select", "moment", {m})
DeleteProject(d) == project /\ Starts(d, "ids", "project", {})
DeleteAccount(d) == Starts(d, "lock", "account", {})

\* Without delete_moments the project goes and its moments are unlinked.
UnlinkProject ==
  /\ user = "active" /\ project
  /\ project' = FALSE
  /\ UNCHANGED <<user, moment, inline, owner, rows, blob, tombs, wr, del, cln, history>>

LockAccount(d) ==
  /\ DeleteAt(d, "lock")
  /\ user' = IF user = "active" THEN "locked" ELSE user
  /\ del' = [del EXCEPT ![d].pc = "ids"]
  /\ UNCHANGED <<project, moment, inline, owner, rows, blob, tombs, wr, cln, history>>

\* The moments linked to the project, and the ids whose media are to go; an account that counted none skips the step.
Held == IF project THEN Live \cap InProject ELSE {}
Targets_AnyProject(d) == Live
Targets(d) == IF del[d].kind = "project" THEN Held
              ELSE IF del[d].counted THEN {owner[x] : x \in rows} ELSE {}
ReadTargets(d) ==
  /\ DeleteAt(d, "ids")
  /\ del' = [del EXCEPT ![d] = [@ EXCEPT !.pc = "select", !.targets = Targets(d)]]
  /\ UNCHANGED <<db, owner, rows, blob, tombs, wr, cln, history>>

\* deleteForMoments: the keys of the targets' rows ...
SelectKeys(d) ==
  LET found == {x \in rows : owner[x] \in del[d].targets} IN
  /\ DeleteAt(d, "select")
  /\ del' = [del EXCEPT ![d] = [@ EXCEPT !.pc = "blobs", !.keys = KeysOf(found),
                                         !.found = found]]
  /\ UNCHANGED <<db, owner, rows, blob, tombs, wr, cln, history>>

\* ... or no pipeline to delete with: only the account tombstones its keys.
NoPipeline(d) ==
  LET queued == IF del[d].kind = "account" /\ del[d].counted THEN rows ELSE {} IN
  /\ "no_pipeline" \in Faults
  /\ DeleteAt(d, "select")
  /\ tombs' = tombs \cup KeysOf(queued)
  /\ del' = [del EXCEPT ![d] = [@ EXCEPT !.pc = "blobs", !.found = queued]]
  /\ UNCHANGED <<db, owner, rows, blob, wr, cln, history>>

\* One store.delete; when it throws, enqueueBlobDelete follows.
DeleteBlob(d, k) ==
  /\ DeleteAt(d, "blobs")
  /\ k \in del[d].keys
  /\ \/ /\ Remove(k)
        /\ del' = [del EXCEPT ![d] = [@ EXCEPT !.keys = del[d].keys \ {k}]]
     \/ /\ "store_error" \in Faults
        /\ Remove(k) \/ UNCHANGED blob
        /\ del' = [del EXCEPT ![d] = [@ EXCEPT
             !.keys = del[d].keys \ {k}, !.failed = {k}, !.pc = "tombstone"]]
  /\ UNCHANGED <<db, owner, rows, tombs, wr, cln, history>>

EnqueueBlobDelete_Dropped(d) == UNCHANGED tombs
EnqueueBlobDelete(d) == tombs' = tombs \cup del[d].failed
Tombstone(d) ==
  /\ DeleteAt(d, "tombstone")
  /\ EnqueueBlobDelete(d)
  /\ del' = [del EXCEPT ![d] = [@ EXCEPT !.failed = {}, !.pc = "blobs"]]
  /\ UNCHANGED <<db, owner, rows, blob, wr, cln, history>>

\* The transaction.  A project takes every moment it holds by now, whatever ids
\* were read before; the rows of moment_media go with their moments.
CommitDelete(d) ==
  LET kind == del[d].kind
      dead == CASE kind = "moment" -> del[d].targets
                [] kind = "project" -> Held
                [] OTHER -> Live
  IN
  /\ DeleteAt(d, "blobs") /\ del[d].keys = {}
  /\ moment' = [m \in Moments |->
       IF m \in dead /\ moment[m] = "live" THEN "gone" ELSE moment[m]]
  /\ rows' = {x \in rows : owner[x] \notin dead}
  /\ inline' = inline \ dead
  /\ project' = (project /\ kind = "moment")
  /\ user' = IF kind = "account" THEN "gone" ELSE user
  /\ del' = [del EXCEPT ![d] = IdleDelete]
  /\ seen' = seen \cup {x \in del[d].found : owner[x] \notin Live \ dead}
  /\ aborted' = aborted \cup (IF project THEN {} ELSE del[d].targets \ dead)
  /\ UNCHANGED <<owner, blob, tombs, wr, cln>>

\* A query throws, the transaction rolls back, or the API dies.
AbortDelete(d) ==
  /\ "crash" \in Faults
  /\ ~DeleteAt(d, "idle")
  /\ aborted' = aborted \cup del[d].targets
                \cup (IF del[d].kind = "account" /\ del[d].counted THEN Live ELSE {})
  /\ del' = [del EXCEPT ![d] = IdleDelete]
  /\ UNCHANGED <<db, owner, rows, blob, tombs, wr, cln, seen>>
-----------------------------------------------------------------------------
(* media:cleanup --delete *)

\* now is fixed, then the tombstones are read.
CleanStart(c) ==
  LET old == {k \in Keys : blob[k] = "old"} IN
  /\ CleanerAt(c, "idle")
  /\ cln' = [cln EXCEPT ![c] = [IdleCleaner EXCEPT
       !.pc = "drain", !.queue = tombs, !.old = old, !.must = old \ KeysOf(rows)]]
  /\ UNCHANGED <<db, owner, rows, blob, tombs, wr, del, history>>

\* One tombstone: the blob goes, then the row; a store error leaves both.
DrainDelete(c, k) ==
  /\ CleanerAt(c, "drain") /\ k \in cln[c].queue
  /\ \/ /\ Remove(k)
        /\ cln' = [cln EXCEPT ![c] = [@ EXCEPT
             !.queue = cln[c].queue \ {k}, !.dropping = {k}, !.pc = "drop"]]
     \/ /\ "store_error" \in Faults
        /\ Remove(k) \/ UNCHANGED blob
        /\ cln' = [cln EXCEPT ![c] = [@ EXCEPT !.queue = cln[c].queue \ {k}]]
  /\ UNCHANGED <<db, owner, rows, tombs, wr, del, history>>

DrainDrop(c) ==
  /\ CleanerAt(c, "drop")
  /\ tombs' = tombs \ cln[c].dropping
  /\ cln' = [cln EXCEPT ![c] = [@ EXCEPT !.dropping = {}, !.pc = "drain"]]
  /\ UNCHANGED <<db, owner, rows, blob, wr, del, history>>

ReadValid(c) ==
  /\ CleanerAt(c, "drain") /\ cln[c].queue = {}
  /\ cln' = [cln EXCEPT ![c] = [@ EXCEPT !.keep = KeysOf(rows), !.pc = "queued"]]
  /\ UNCHANGED <<db, owner, rows, blob, tombs, wr, del, history>>

ReadQueued(c) ==
  /\ CleanerAt(c, "queued")
  /\ cln' = [cln EXCEPT ![c] = [@ EXCEPT !.keep = cln[c].keep \cup tombs,
                                         !.pc = "list"]]
  /\ UNCHANGED <<db, owner, rows, blob, tombs, wr, del, history>>

\* What the scan will delete: listed, referenced by nothing, and of age.
Orphans_AnyAge(c) == Stored \ cln[c].keep
Orphans_NoThumbs(c) == (Stored \ cln[c].keep) \cap cln[c].old \cap (Media \X {"full"})
Orphans(c) == (Stored \ cln[c].keep) \cap cln[c].old
List(c) ==
  /\ CleanerAt(c, "list")
  /\ cln' = [cln EXCEPT ![c] = [@ EXCEPT !.doomed = Orphans(c), !.pc = "sweep"]]
  /\ UNCHANGED <<db, owner, rows, blob, tombs, wr, del, history>>

Sweep(c, k) ==
  /\ CleanerAt(c, "sweep") /\ k \in cln[c].doomed
  /\ Remove(k)
  /\ cln' = [cln EXCEPT ![c] = [@ EXCEPT !.doomed = cln[c].doomed \ {k}]]
  /\ UNCHANGED <<db, owner, rows, tombs, wr, del, history>>

SweepEnds(c) ==
  /\ CleanerAt(c, "sweep") /\ cln[c].doomed = {}
  /\ CleanerEnds(c)
  /\ UNCHANGED <<db, owner, rows, blob, tombs, wr, del, history>>

\* A throw outside the drain's try block, or a crash, ends the run.
CleanerFails(c) ==
  /\ Faults \cap {"store_error", "crash"} # {}
  /\ ~CleanerAt(c, "idle")
  /\ CleanerEnds(c)
  /\ UNCHANGED <<db, owner, rows, blob, tombs, wr, del, history>>
-----------------------------------------------------------------------------
(* Time *)

\* A blob passes min-age.  That a writer records its blobs sooner than that is
\* the assumption behind --min-age-minutes; "slow_writer" lifts it.
Age(k) ==
  /\ blob[k] = "recent"
  /\ k[1] \in Unrecorded => "slow_writer" \in Faults
  /\ blob' = [blob EXCEPT ![k] = "old"]
  /\ UNCHANGED <<db, owner, rows, tombs, wr, del, cln, history>>
-----------------------------------------------------------------------------
(* Specification *)

Write(w) ==
  \/ CaptureStart(w) \/ Quarantine(w) \/ StripPayload(w) \/ CaptureEnds(w)
  \/ \E m \in Moments : InsertMoment(w, m) \/ BackfillStart(w, m)
  \/ \E x \in Media : StoreImage(w, x)
  \/ StoreThumb(w) \/ InsertRow(w) \/ WriterFails(w)
Erase(d) ==
  \/ \E m \in Moments : DeleteMoment(d, m)
  \/ DeleteProject(d) \/ DeleteAccount(d) \/ LockAccount(d) \/ ReadTargets(d)
  \/ SelectKeys(d) \/ NoPipeline(d)
  \/ \E k \in Keys : DeleteBlob(d, k)
  \/ Tombstone(d) \/ CommitDelete(d) \/ AbortDelete(d)
Clean(c) ==
  \/ CleanStart(c) \/ DrainDrop(c) \/ ReadValid(c) \/ ReadQueued(c) \/ List(c)
  \/ \E k \in Keys : DrainDelete(c, k) \/ Sweep(c, k)
  \/ SweepEnds(c) \/ CleanerFails(c)

Next ==
  \/ \E w \in Writers : Write(w)
  \/ \E d \in Deletes : Erase(d)
  \/ UnlinkProject
  \/ \E c \in Cleaners : Clean(c)
  \/ \E k \in Keys : Age(k)

Spec == Init /\ [][Next]_vars
-----------------------------------------------------------------------------
(* Properties *)

\* The deletions in flight that work on a moment.
Dying(m) == \E d \in Deletes :
  /\ ~DeleteAt(d, "idle")
  /\ m \in del[d].targets \/ del[d].kind = "account"

\* A referenced medium loses a blob, or is promised to the drain, only while its
\* moment is being deleted, or after a deletion of it was broken off or was outrun
\* by an unlinking of its project; and a sweep never holds one of its keys: no row
\* can appear for a blob that was unreferenced and old when the run started
\* (cleanup.ts, "cross-user deletion of valid media is structurally impossible",
\* and the min-age rule that makes it true of captures in flight).
ReferencedIsSafe ==
  /\ \A x \in rows :
       \/ KeysOf({x}) \subseteq Stored \ tombs
       \/ Dying(owner[x])
       \/ owner[x] \in aborted
  /\ \A c \in Cleaners : cln[c].doomed \cap KeysOf(rows) = {}

\* Once a delete that had selected a medium removes its row, each of its blobs is
\* out of the store or has a tombstone: a failing store leaks nothing silently
\* (docs/AUTH.md, "Delete hardening").
DeletedIsTracked == \A k \in KeysOf(seen) : k \in Stored => k \in tombs

\* A cleanup run that reaches its end has removed every blob that was old and
\* unreferenced when it started, unless a tombstone still answers for it.
SweepIsThorough ==
  [][\A c \in Cleaners :
       CleanerAt(c, "sweep") /\ cln[c].doomed = {} /\ cln'[c].pc = "idle"
         => cln[c].must \cap Stored \subseteq tombs]_vars
=============================================================================
