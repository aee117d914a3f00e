------------------------------ MODULE Enrichment ------------------------------
(***************************************************************************)
(* A captured moment and everything derived from it: the capture's own     *)
(* tier-0 task (services/api/src/app.ts), the asynchronous enrichment      *)
(* (services/worker/src/enrich.ts, worker.ts), the user's choice among the *)
(* enrichment versions (routes-account.ts) and the deletion of the moment  *)
(* (routes-m3.ts).                                                         *)
(*                                                                         *)
(* enrichMoment is a row of autocommitted statements with no transaction   *)
(* around them, and so is the rest of the capture; the deletion is one     *)
(* transaction.  BullMQ is external, modelled from how the code uses it.   *)
(* Media and blobs are in MediaLifecycle, approvals in ActionExecution.    *)
(***************************************************************************)
EXTENDS Integers, FiniteSets

CONSTANTS
  Moments,
  Workers,   \* execution slots of the enrichment worker
  Attempts,  \* BullMQ attempts per job (queue.ts)
  MaxStalls, \* times BullMQ redelivers a stalled job
  Faults,    \* the kinds of fault this instance explores
  None

FaultKinds ==
  { "enqueue_reply_lost",  \* queue.add took effect, the API saw an error
    "lock_lost",           \* a live worker's job lock expires
    "worker_crash", "api_crash", "db_error" }

ASSUME ConstantsOK ==
  /\ None \notin Moments \cup Workers
  /\ Attempts \in Nat \ {0}
  /\ MaxStalls \in Nat
  /\ Faults \subseteq FaultKinds

\* A job runs at most this often, so no more rows of a kind are ever inserted.
MaxRuns == Attempts + MaxStalls
RowIds == 1..MaxRuns

VARIABLES
  moment,    \* "none" yet, "live" or "gone"
  status,    \* enrichment_status
  current,   \* the version the summary and enrichment columns show, 0 if none
  versions,  \* the version numbers in enrichment_versions
  proposed,  \* rows of the moment's one proposed action
  embedded,  \* rows of embeddings owned by the moment
  auto,      \* whether the tier-0 action row exists (inserted as 'done')
  task,      \* whether its task exists
  capture,   \* the capture request: program counter
  sel,       \* a version selection that has read its version, 0 if none
  del,       \* the deletion's transaction: open, and the rows it has deleted
  job,       \* the enrichment job
  exec,      \* enrichMoment calls: program counter and locals
  raced,     \* history: the deletion overlapped the capture or an enrichment
  doubled    \* history: two calls of the moment's enrichment overlapped

vars == <<moment, status, current, versions, proposed, embedded, auto, task,
          capture, sel, del, job, exec, raced, doubled>>
history == <<raced, doubled>>
shown == <<status, current, versions>>
derived == <<proposed, embedded, auto, task>>
-----------------------------------------------------------------------------
(* Initial state *)

NoDeletion == [open |-> FALSE, proposed |-> {}, embedded |-> {}, auto |-> FALSE,
               task |-> FALSE]
NoJob == [state |-> "none", made |-> 0, stalls |-> 0, owner |-> None]
IdleExec == [pc |-> "idle", moment |-> None, absent |-> FALSE, version |-> 0]

Init ==
  /\ moment = [m \in Moments |-> "none"]
  /\ status = [m \in Moments |-> "pending"]
  /\ current = [m \in Moments |-> 0]
  /\ versions = [m \in Moments |-> {}]
  /\ proposed = [m \in Moments |-> {}]
  /\ embedded = [m \in Moments |-> {}]
  /\ auto = [m \in Moments |-> FALSE] /\ task = [m \in Moments |-> FALSE]
  /\ capture = [m \in Moments |-> "new"]
  /\ sel = [m \in Moments |-> 0]
  /\ del = [m \in Moments |-> NoDeletion]
  /\ job = [m \in Moments |-> NoJob]
  /\ exec = [w \in Workers |-> IdleExec]
  /\ raced = [m \in Moments |-> FALSE]
  /\ doubled = [m \in Moments |-> FALSE]
-----------------------------------------------------------------------------
(* Helpers *)

IsLive(m) == moment[m] = "live"
CaptureAt(m, pc) == capture[m] = pc
CaptureTo(m, pc) == capture' = [capture EXCEPT ![m] = pc]
ExecAt(w, pc) == exec[w].pc = pc
\* A local lives from the statement that sets it to the next one.
ExecTo(w, pc) == exec' = [exec EXCEPT ![w] =
  [IdleExec EXCEPT !.pc = pc, !.moment = exec[w].moment]]
ExecEnds(w) == exec' = [exec EXCEPT ![w] = IdleExec]

\* UPDATE context_moments SET enrichment_status ...: a moment gone is no row.
SetStatus(m, s) == status' = IF IsLive(m) THEN [status EXCEPT ![m] = s] ELSE status

\* A fresh row beside the present ones and those a transaction has deleted.
NewRow(there, deleted) == CHOOSE i \in RowIds : i \notin there \cup deleted
-----------------------------------------------------------------------------
(* The capture request, from its moment on *)

InsertMoment(m) ==
  /\ CaptureAt(m, "new")
  /\ moment' = [moment EXCEPT ![m] = "live"]
  /\ CaptureTo(m, "enqueue")
  /\ UNCHANGED <<shown, derived, sel, del, job, exec, history>>

Enqueue(m) ==
  LET add == job' = [job EXCEPT ![m] = [NoJob EXCEPT !.state = "waiting"]] IN
  /\ CaptureAt(m, "enqueue")
  /\ \/ add /\ CaptureTo(m, "action")
     \/ UNCHANGED job /\ CaptureTo(m, "skip")
     \/ "enqueue_reply_lost" \in Faults /\ add /\ CaptureTo(m, "skip")
  /\ UNCHANGED <<moment, shown, derived, sel, del, exec, history>>

\* The enqueue threw: 'skipped', whatever the status has become.
MarkSkipped(m) ==
  /\ CaptureAt(m, "skip")
  /\ SetStatus(m, "skipped")
  /\ CaptureTo(m, "action")
  /\ UNCHANGED <<moment, current, versions, derived, sel, del, job, exec, history>>

\* The tier-0 action of a task-creating intent is inserted as 'done' ...
AutoAction(m) ==
  /\ CaptureAt(m, "action")
  /\ \/ /\ IsLive(m)
        /\ auto' = [auto EXCEPT ![m] = TRUE]
        /\ CaptureTo(m, "task")
     \/ CaptureTo(m, "done") /\ UNCHANGED auto
  /\ UNCHANGED <<moment, shown, proposed, embedded, task, sel, del, job, exec, history>>

\* ... and then its task; both inserts fail once the moment is gone.
AutoTask(m) ==
  /\ CaptureAt(m, "task")
  /\ task' = IF IsLive(m) THEN [task EXCEPT ![m] = TRUE] ELSE task
  /\ CaptureTo(m, "done")
  /\ UNCHANGED <<moment, shown, proposed, embedded, auto, sel, del, job, exec, history>>

\* The API dies, or a query throws out of the handler.
CaptureDies(m) ==
  /\ Faults \cap {"api_crash", "db_error"} # {}
  /\ capture[m] \notin {"new", "done"}
  /\ CaptureTo(m, "done")
  /\ UNCHANGED <<moment, shown, derived, sel, del, job, exec, history>>
-----------------------------------------------------------------------------
(* Selecting a version *)

Selectable_Any(m) == RowIds
Selectable(m) == versions[m]

SelectRead(m, v) ==
  /\ IsLive(m) /\ sel[m] = 0
  /\ v \in Selectable(m)
  /\ sel' = [sel EXCEPT ![m] = v]
  /\ UNCHANGED <<moment, shown, derived, capture, del, job, exec, history>>

SelectWrite(m) ==
  /\ sel[m] # 0
  /\ current' = IF IsLive(m) THEN [current EXCEPT ![m] = sel[m]] ELSE current
  /\ sel' = [sel EXCEPT ![m] = 0]
  /\ UNCHANGED <<moment, status, versions, derived, capture, del, job, exec, history>>
-----------------------------------------------------------------------------
(* Deleting the moment *)

\* The transaction's DELETEs of tasks, actions and embeddings take the rows that
\* exist now; nobody sees it before the commit.
RowsNow_NoVectors(m) ==
  [open |-> TRUE, proposed |-> proposed[m], embedded |-> {}, auto |-> auto[m],
   task |-> task[m]]
RowsNow(m) ==
  [open |-> TRUE, proposed |-> proposed[m], embedded |-> embedded[m],
   auto |-> auto[m], task |-> task[m]]

InFlight(m) == ~CaptureAt(m, "done") \/ \E w \in Workers : exec[w].moment = m

DeleteDerived(m) ==
  /\ IsLive(m) /\ ~del[m].open
  /\ del' = [del EXCEPT ![m] = RowsNow(m)]
  /\ raced' = [raced EXCEPT ![m] = InFlight(m)]
  /\ UNCHANGED <<moment, shown, derived, capture, sel, job, exec, doubled>>

\* The moment goes with what cascades from it, and a selection in flight will find
\* no row to update.  Rows inserted since are left: tasks and actions lose their
\* moment_id, embeddings never had a foreign key.
DeleteCommit(m) ==
  /\ del[m].open
  /\ moment' = [moment EXCEPT ![m] = "gone"]
  /\ status' = [status EXCEPT ![m] = "pending"] /\ sel' = [sel EXCEPT ![m] = 0]
  /\ versions' = [versions EXCEPT ![m] = {}]
  /\ current' = [current EXCEPT ![m] = 0]
  /\ proposed' = [proposed EXCEPT ![m] = @ \ del[m].proposed]
  /\ embedded' = [embedded EXCEPT ![m] = @ \ del[m].embedded]
  /\ auto' = [auto EXCEPT ![m] = @ /\ ~del[m].auto]
  /\ task' = [task EXCEPT ![m] = @ /\ ~del[m].task]
  /\ raced' = [raced EXCEPT ![m] = @ \/ InFlight(m)]
  /\ del' = [del EXCEPT ![m] = NoDeletion]
  /\ UNCHANGED <<capture, job, exec, doubled>>

DeleteRollback(m) ==
  /\ Faults \cap {"api_crash", "db_error"} # {}
  /\ del[m].open
  /\ del' = [del EXCEPT ![m] = NoDeletion]
  /\ UNCHANGED <<moment, shown, derived, capture, sel, job, exec, history>>
-----------------------------------------------------------------------------
(* BullMQ (external) *)

Take(w, m) ==
  /\ ExecAt(w, "idle")
  /\ job[m].state = "waiting"
  /\ job' = [job EXCEPT ![m] = [@ EXCEPT !.state = "active", !.owner = w]]
  /\ exec' = [exec EXCEPT ![w] = [IdleExec EXCEPT !.pc = "read", !.moment = m]]
  /\ raced' = [raced EXCEPT ![m] = @ \/ del[m].open]
  /\ doubled' = [doubled EXCEPT ![m] = @ \/ \E v \in Workers : exec[v].moment = m]
  /\ UNCHANGED <<moment, shown, derived, capture, sel, del>>

HoldsLock(w) ==
  LET m == exec[w].moment IN job[m].state = "active" /\ job[m].owner = w

FinishOk(w) ==
  /\ ExecAt(w, "ok") /\ HoldsLock(w)
  /\ job' = [job EXCEPT ![exec[w].moment] = [@ EXCEPT !.state = "completed",
                                                     !.owner = None]]
  /\ ExecEnds(w)
  /\ UNCHANGED <<moment, shown, derived, capture, sel, del, history>>

\* The 'failed' handler goes on to markFailed once every attempt is made.
MadeAll_OneEarly(m) == job[m].made + 1 >= Attempts - 1
MadeAll(m) == job[m].made + 1 >= Attempts
Marks_Never(m) == FALSE
Marks(m) == MadeAll(m)

FinishRetry(w) ==
  LET m == exec[w].moment
      spent == job[m].made + 1 >= Attempts
  IN
  /\ ExecAt(w, "retry") /\ HoldsLock(w)
  /\ job' = [job EXCEPT ![m] = [@ EXCEPT !.made = job[m].made + 1, !.owner = None,
       !.state = IF spent THEN "failed" ELSE "waiting"]]
  /\ IF Marks(m) THEN ExecTo(w, "mark") ELSE ExecEnds(w)
  /\ UNCHANGED <<moment, shown, derived, capture, sel, del, history>>

\* Without the lock BullMQ refuses the outcome and emits no 'failed' event.
FinishUnlocked(w) ==
  /\ exec[w].pc \in {"ok", "retry"} /\ ~HoldsLock(w)
  /\ ExecEnds(w)
  /\ UNCHANGED <<moment, shown, derived, capture, sel, del, job, history>>

LockExpires(w) ==
  /\ "lock_lost" \in Faults
  /\ ~ExecAt(w, "idle") /\ HoldsLock(w)
  /\ job' = [job EXCEPT ![exec[w].moment].owner = None]
  /\ UNCHANGED <<moment, shown, derived, capture, sel, del, exec, history>>

WorkerCrash(w) ==
  /\ "worker_crash" \in Faults
  /\ ~ExecAt(w, "idle")
  /\ job' = IF HoldsLock(w) THEN [job EXCEPT ![exec[w].moment].owner = None] ELSE job
  /\ ExecEnds(w)
  /\ UNCHANGED <<moment, shown, derived, capture, sel, del, history>>

\* The stalled check: redelivery up to MaxStalls times, then a failure that is
\* not an attempt, so the handler marks nothing.
StallCheck(m) ==
  /\ job[m].state = "active" /\ job[m].owner = None
  /\ job' = [job EXCEPT ![m] =
       IF @.stalls < MaxStalls
       THEN [@ EXCEPT !.state = "waiting", !.stalls = job[m].stalls + 1]
       ELSE [@ EXCEPT !.state = "failed"]]
  /\ UNCHANGED <<moment, shown, derived, capture, sel, del, exec, history>>
-----------------------------------------------------------------------------
(* enrichMoment *)

\* A moment that is gone makes the job throw.
ReadMoment(w) ==
  /\ ExecAt(w, "read")
  /\ ExecTo(w, IF IsLive(exec[w].moment) THEN "processing" ELSE "retry")
  /\ UNCHANGED <<moment, shown, derived, capture, sel, del, job, history>>

MarkProcessing(w) ==
  /\ ExecAt(w, "processing")
  /\ SetStatus(exec[w].moment, "processing")
  /\ ExecTo(w, "check")
  /\ UNCHANGED <<moment, current, versions, derived, capture, sel, del, job, history>>

\* The draft has no candidate, or one whose insert begins with its NOT EXISTS.
Exists_Forgotten(m) == FALSE
Exists(m) == proposed[m] # {}
CheckProposal(w) ==
  /\ ExecAt(w, "check")
  /\ \/ ExecTo(w, "clear")
     \/ exec' = [exec EXCEPT ![w] = [@ EXCEPT
          !.pc = "propose", !.absent = ~Exists(exec[w].moment)]]
  /\ UNCHANGED <<moment, shown, derived, capture, sel, del, job, history>>

Propose(w) ==
  LET m == exec[w].moment IN
  /\ ExecAt(w, "propose")
  /\ \/ /\ ~exec[w].absent
        /\ ExecTo(w, "clear") /\ UNCHANGED proposed
     \/ /\ exec[w].absent /\ IsLive(m)
        /\ proposed' = [proposed EXCEPT ![m] = @ \cup {NewRow(@, del[m].proposed)}]
        /\ ExecTo(w, "clear")
     \/ /\ exec[w].absent /\ ~IsLive(m)
        /\ ExecTo(w, "retry") /\ UNCHANGED proposed
  /\ UNCHANGED <<moment, shown, embedded, auto, task, capture, sel, del, job, history>>

\* The embedder may throw, or be off; otherwise the old vectors are deleted, a
\* statement that waits for a transaction holding them ...
Cleared_Kept(m) == embedded[m]
Cleared(m) == {}
ClearVectors(w) ==
  LET m == exec[w].moment IN
  /\ ExecAt(w, "clear")
  /\ \/ /\ del[m].embedded \cap embedded[m] = {}
        /\ embedded' = [embedded EXCEPT ![m] = Cleared(m)]
        /\ ExecTo(w, "embed")
     \/ /\ UNCHANGED embedded
        /\ \E next \in {"version", "retry"} : ExecTo(w, next)
  /\ UNCHANGED <<moment, shown, proposed, auto, task, capture, sel, del, job, history>>

\* ... and the new one inserted, whether or not the moment still exists.
InsertVector(w) ==
  LET m == exec[w].moment IN
  /\ ExecAt(w, "embed")
  /\ embedded' = [embedded EXCEPT ![m] = @ \cup {NewRow(@, del[m].embedded)}]
  /\ ExecTo(w, "version")
  /\ UNCHANGED <<moment, shown, proposed, auto, task, capture, sel, del, job, history>>

\* max(version) + 1; a foreign key, and UNIQUE where two statements overlap.
NextVersion(m) == Cardinality(versions[m]) + 1

AppendVersion(w) ==
  LET m == exec[w].moment
      next == NextVersion(m)
  IN
  /\ ExecAt(w, "version")
  /\ \/ /\ IsLive(m)
        /\ versions' = [versions EXCEPT ![m] = @ \cup {next}]
        /\ exec' = [exec EXCEPT ![w] = [@ EXCEPT !.pc = "finalize", !.version = next]]
     \/ /\ ~IsLive(m) \/ \E v \in Workers \ {w} : exec[v].moment = m
        /\ ExecTo(w, "retry") /\ UNCHANGED versions
  /\ UNCHANGED <<moment, status, current, derived, capture, sel, del, job, history>>

\* The final UPDATE; the audit insert after it may throw.
Finalize(w) ==
  LET m == exec[w].moment IN
  /\ ExecAt(w, "finalize")
  /\ SetStatus(m, "completed")
  /\ current' = IF IsLive(m) THEN [current EXCEPT ![m] = exec[w].version] ELSE current
  /\ \/ ExecTo(w, "ok")
     \/ "db_error" \in Faults /\ ExecTo(w, "retry")
  /\ UNCHANGED <<moment, versions, derived, capture, sel, del, job, history>>

\* markFailed, from the 'failed' handler.
MarkFailed(w) ==
  /\ ExecAt(w, "mark")
  /\ SetStatus(exec[w].moment, "failed")
  /\ ExecEnds(w)
  /\ UNCHANGED <<moment, current, versions, derived, capture, sel, del, job, history>>

\* A query throws: the attempt fails; in the handler the error is only logged.
DbError(w) ==
  /\ "db_error" \in Faults
  /\ exec[w].pc \notin {"idle", "ok", "retry"}
  /\ IF ExecAt(w, "mark") THEN ExecEnds(w) ELSE ExecTo(w, "retry")
  /\ UNCHANGED <<moment, shown, derived, capture, sel, del, job, history>>
-----------------------------------------------------------------------------
(* Specification *)

Capture(m) ==
  \/ Enqueue(m) \/ MarkSkipped(m) \/ AutoAction(m) \/ AutoTask(m)
Enrich(w) ==
  \/ ReadMoment(w) \/ MarkProcessing(w) \/ CheckProposal(w) \/ Propose(w)
  \/ ClearVectors(w) \/ InsertVector(w) \/ AppendVersion(w) \/ Finalize(w)
  \/ MarkFailed(w)
Finish(w) == FinishOk(w) \/ FinishRetry(w) \/ FinishUnlocked(w)
DeleteEnds(m) == DeleteCommit(m) \/ DeleteRollback(m)

Next ==
  \/ \E m \in Moments :
       \/ InsertMoment(m) \/ Capture(m) \/ CaptureDies(m)
       \/ \E v \in RowIds : SelectRead(m, v)
       \/ SelectWrite(m) \/ DeleteDerived(m) \/ DeleteEnds(m) \/ StallCheck(m)
  \/ \E w \in Workers :
       \/ \E m \in Moments : Take(w, m)
       \/ Enrich(w) \/ Finish(w)
       \/ LockExpires(w) \/ WorkerCrash(w) \/ DbError(w)

Spec == Init /\ [][Next]_vars

\* What was started goes on and a transaction ends; BullMQ hands out waiting jobs
\* and checks for stalled ones.  Users, crashes and faults are not fair.
Fairness ==
  /\ \A m \in Moments : WF_vars(Capture(m)) /\ WF_vars(DeleteEnds(m))
  /\ \A w \in Workers : WF_vars(Enrich(w) \/ Finish(w))
  /\ \A m \in Moments : SF_vars(\E w \in Workers : Take(w, m)) /\ WF_vars(StallCheck(m))

FairSpec == Spec /\ Fairness
-----------------------------------------------------------------------------
(* Properties *)

\* What a moment shows is true, whatever selections, reruns, redeliveries and
\* failures overlap: its enrichment is a version on record (docs/AUTH.md,
\* "Enrichment versioning": the columns are a pointer to a recorded version), a
\* completed moment shows one, and a failed one has used its final attempt
\* (worker.ts).
ShownIsTrue ==
  \A m \in Moments : IsLive(m) =>
    /\ current[m] \in versions[m] \cup {0}
    /\ status[m] = "completed" => current[m] # 0
    /\ status[m] = "failed" => job[m].state = "failed" /\ job[m].made = Attempts

\* "One vector per moment", "Deduped per moment+title" (enrich.ts), under crashes,
\* retries and redeliveries; only two calls that overlap, one of them without its
\* lock, can leave two.
OneOfEach ==
  \A m \in Moments : ~doubled[m] =>
    Cardinality(embedded[m]) <= 1 /\ Cardinality(proposed[m]) <= 1

\* Rows derived from a deleted moment are left only where a capture or an
\* enrichment overlapped the deletion; one that nothing overlaps takes all of them.
LeftoversNeedRace ==
  \A m \in Moments : moment[m] = "gone" /\ ~raced[m]
    => proposed[m] = {} /\ embedded[m] = {} /\ ~auto[m] /\ ~task[m]

\* Every captured moment leaves 'pending' and 'processing' for good news or bad,
\* unless it is deleted first.
EnrichmentSettles ==
  \A m \in Moments :
    IsLive(m) ~> status[m] \in {"completed", "failed", "skipped"} \/ ~IsLive(m)
=============================================================================
