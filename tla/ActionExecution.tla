--------------------------- MODULE ActionExecution ---------------------------
(***************************************************************************)
(* Approval and execution of Nova actions.                                 *)
(*                                                                         *)
(* The API (services/api/src/routes-m2.ts) approves or rejects a proposed  *)
(* action.  An internal action (nova_task) runs inside the request; an     *)
(* external one (notion_page) becomes a BullMQ job whose id is the action  *)
(* id, and services/worker/src/actions.ts executes it against Notion.      *)
(*                                                                         *)
(* Every await of a handler that reads or writes shared state ends a step, *)
(* so approvals, rejections, deletions, disconnects, redelivered jobs and  *)
(* crashes interleave between them.  BullMQ and Notion are external and    *)
(* modelled from how the code uses them.  The audit log and analytics are  *)
(* left out.                                                               *)
(***************************************************************************)
EXTENDS Integers, FiniteSets

CONSTANTS
  External,  \* actions executed by the worker (notion_page)
  Internal,  \* actions executed inside the approve request (nova_task)
  Media,     \* media objects a moment may carry
  Redacted,  \* the media whose redaction_state is 'applied'
  Workers,   \* execution slots of the action worker
  Requests,  \* approve requests in flight
  Attempts,  \* BullMQ attempts per job (queue.ts)
  MaxStalls, \* times BullMQ redelivers a stalled job
  Cap,       \* external effects are counted up to this bound
  Faults,    \* the kinds of fault this instance explores
  None

FaultKinds ==
  { "enqueue_reply_lost",   \* queue.add took effect, the API saw an error
    "provider_reply_lost",  \* Notion acted, the worker saw an error
    "lock_lost",            \* a live worker's job lock expires
    "worker_crash", "api_crash", "db_error" }

ASSUME ConstantsOK ==
  /\ External \cap Internal = {}
  /\ None \notin External \cup Internal \cup Workers
  /\ Redacted \subseteq Media
  /\ Attempts \in Nat \ {0}
  /\ MaxStalls \in Nat
  /\ Cap \in Nat /\ Cap >= 2
  /\ Faults \subseteq FaultKinds

Actions == External \cup Internal

VARIABLES
  row,     \* actions: status, approval, payload.media_ids and result
  moment,  \* the moment of each action: "live", "blobless" or "gone"
  conn,    \* the user's Notion connection: "active" or "revoked"
  job,     \* the BullMQ job of each action
  req,     \* approve requests: program counter and locals
  exec,    \* executeAction calls: program counter and locals
  pages,   \* Notion pages written for each action, up to Cap
  copies,  \* Notion uploads of each medium of each action, up to Cap
  tasks,   \* Nova tasks inserted by each action, up to Cap
  lost     \* history: a page was, or may have been, lost track of

vars == <<row, moment, conn, job, req, exec, pages, copies, tasks, lost>>
effects == <<pages, copies, tasks>>
-----------------------------------------------------------------------------
(* Types *)

Status == {"proposed", "queued", "executing", "done", "failed", "rejected",
           "absent"}
InFlight == {"queued", "executing"}

Row == [status : Status, approved : BOOLEAN, media : SUBSET Media,
        uploads : SUBSET Media, page : BOOLEAN]

Job == [state : {"none", "waiting", "active", "completed", "failed"},
        made : 0..Attempts, stalls : 0..MaxStalls,
        owner : Workers \cup {None}]

ReqPC == {"idle", "claim", "enqueue", "revert", "execute", "done", "failed"}
Req == [pc : ReqPC, act : Actions \cup {None}, media : SUBSET Media]

ExecPC == {"idle", "select", "recover", "claim", "connect", "resolve", "media",
           "persist", "complete", "terminal", "ok", "retry", "fatal", "mark"}
Exec == [pc : ExecPC, act : Actions \cup {None}, media : SUBSET Media,
         uploads : SUBSET Media]

(* The fields of every variable stay within their types: no step leaves a  *)
(* row, a job or a call in a state the code has no name for.               *)
TypeOK ==
  /\ row \in [Actions -> Row]
  /\ moment \in [Actions -> {"live", "blobless", "gone"}]
  /\ conn \in {"active", "revoked"}
  /\ job \in [Actions -> Job]
  /\ req \in [Requests -> Req]
  /\ exec \in [Workers -> Exec]
  /\ pages \in [Actions -> 0..Cap]
  /\ copies \in [Actions -> [Media -> 0..Cap]]
  /\ tasks \in [Actions -> 0..Cap]
  /\ lost \in [Actions -> BOOLEAN]
-----------------------------------------------------------------------------
(* Initial state *)

ProposedRow == [status |-> "proposed", approved |-> FALSE, media |-> {},
                uploads |-> {}, page |-> FALSE]
NoJob == [state |-> "none", made |-> 0, stalls |-> 0, owner |-> None]
IdleReq == [pc |-> "idle", act |-> None, media |-> {}]
IdleExec == [pc |-> "idle", act |-> None, media |-> {}, uploads |-> {}]

Init ==
  /\ row = [a \in Actions |-> ProposedRow]
  /\ moment = [a \in Actions |-> "live"]
  /\ conn \in {"active", "revoked"}
  /\ job = [a \in Actions |-> NoJob]
  /\ req = [r \in Requests |-> IdleReq]
  /\ exec = [w \in Workers |-> IdleExec]
  /\ pages = [a \in Actions |-> 0]
  /\ copies = [a \in Actions |-> [m \in Media |-> 0]]
  /\ tasks = [a \in Actions |-> 0]
  /\ lost = [a \in Actions |-> FALSE]
-----------------------------------------------------------------------------
(* Helpers *)

Bump(n) == IF n < Cap THEN n + 1 ELSE n

\* An UPDATE of a row that is not there changes nothing.
Update(a, new) == IF row[a].status = "absent" THEN row
                  ELSE [row EXCEPT ![a] = new]

ReqAt(r, pc) == req[r].pc = pc
ReqTo(r, pc) == req' = [req EXCEPT ![r].pc = pc]
ReqEnds(r) == req' = [req EXCEPT ![r] = IdleReq]

ExecAt(w, pc) == exec[w].pc = pc
ExecTo(w, pc) == exec' = [exec EXCEPT ![w].pc = pc]
ExecEnds(w) == exec' = [exec EXCEPT ![w] = IdleExec]

\* The media an approval may include: on this action's moment, redacted.
Eligible(a) == IF moment[a] = "gone" THEN {} ELSE Redacted

\* The media the guarded read lets out: the blob must still be there too.
Readable(a) == IF moment[a] = "live" THEN Redacted ELSE {}

\* markActionFailed: only an in-flight action fails; result is overwritten.
MarkFailed_AnyStatus(a) ==
  Update(a, [row[a] EXCEPT !.status = "failed", !.uploads = {}, !.page = FALSE])
MarkFailed(a) ==
  IF row[a].status \notin InFlight THEN row
  ELSE [row EXCEPT ![a] = [@ EXCEPT !.status = "failed", !.uploads = {},
                                    !.page = FALSE]]

\* History: marking the row failed erases a recorded page.
MarkLoses(a) ==
  lost' = [lost EXCEPT ![a] = @ \/ (row[a].status \in InFlight /\ row[a].page)]
-----------------------------------------------------------------------------
(* POST /v1/actions/:id/approve, external actions                          *)

\* The reads before any change: the action, the connection, the media.
ApproveChecks(r, a, M) ==
  /\ ReqAt(r, "idle")
  /\ row[a].status # "absent"
  /\ conn = "active"
  /\ M \subseteq Eligible(a)
  /\ req' = [req EXCEPT ![r] = [pc |-> "claim", act |-> a, media |-> M]]
  /\ UNCHANGED <<row, moment, conn, job, exec, effects, lost>>

\* WHERE ... AND status = 'proposed', in both claims of the approve handler.
Claimable_AnyStatus(a) == row[a].status # "absent"
Claimable(a) == row[a].status = "proposed"

\* The atomic claim, proposed -> queued; the loser answers 409.
ApproveClaim(r) ==
  LET a == req[r].act IN
  /\ ReqAt(r, "claim")
  /\ \/ /\ Claimable(a)
        /\ row' = [row EXCEPT ![a] = [@ EXCEPT !.status = "queued",
                                               !.approved = TRUE,
                                               !.media = req[r].media]]
        /\ ReqTo(r, "enqueue")
     \/ /\ ~Claimable(a)
        /\ ReqEnds(r)
        /\ UNCHANGED row
  /\ UNCHANGED <<moment, conn, job, exec, effects, lost>>

\* queue.add with jobId = action id: a job that exists in any state absorbs it.
AddJob(a) == IF job[a].state # "none" THEN job
             ELSE [job EXCEPT ![a] = [NoJob EXCEPT !.state = "waiting"]]

EnqueueAccepted(r) ==
  /\ ReqAt(r, "enqueue")
  /\ job' = AddJob(req[r].act)
  /\ ReqEnds(r)
  /\ UNCHANGED <<row, moment, conn, exec, effects, lost>>

\* The add throws; when its reply was lost the job exists all the same.
EnqueueFails_NoRevert(r) ==
  /\ ReqAt(r, "enqueue")
  /\ ReqEnds(r)
  /\ UNCHANGED <<row, moment, conn, job, exec, effects, lost>>
EnqueueFails(r) ==
  /\ ReqAt(r, "enqueue")
  /\ \/ UNCHANGED job
     \/ "enqueue_reply_lost" \in Faults /\ job' = AddJob(req[r].act)
  /\ ReqTo(r, "revert")
  /\ UNCHANGED <<row, moment, conn, exec, effects, lost>>

\* Back to 'proposed', whatever the status has become; result is kept.
ApproveRevert(r) ==
  LET a == req[r].act IN
  /\ ReqAt(r, "revert")
  /\ row' = Update(a, [row[a] EXCEPT !.status = "proposed", !.approved = FALSE])
  /\ ReqEnds(r)
  /\ UNCHANGED <<moment, conn, job, exec, effects, lost>>
-----------------------------------------------------------------------------
(* POST /v1/actions/:id/approve, internal actions, and /reject             *)

\* The claim proposed -> executing and the adapter run in one request.
InlineClaim(r, a) ==
  /\ ReqAt(r, "idle")
  /\ Claimable(a)
  /\ row' = [row EXCEPT ![a] = [@ EXCEPT !.status = "executing",
                                         !.approved = TRUE]]
  /\ req' = [req EXCEPT ![r] = [IdleReq EXCEPT !.pc = "execute", !.act = a]]
  /\ UNCHANGED <<moment, conn, job, exec, effects, lost>>

\* The adapter inserts the task (a foreign key needs the action row), or throws
\* -- on a lost reply with the task in place.
InlineExecute(r) ==
  LET a == req[r].act
      insert == tasks' = [tasks EXCEPT ![a] = Bump(@)]
  IN
  /\ ReqAt(r, "execute")
  /\ \/ row[a].status # "absent" /\ insert /\ ReqTo(r, "done")
     \/ UNCHANGED tasks /\ ReqTo(r, "failed")
     \/ /\ "db_error" \in Faults
        /\ row[a].status # "absent" /\ insert /\ ReqTo(r, "failed")
  /\ UNCHANGED <<row, moment, conn, job, exec, pages, copies, lost>>

\* The final status, written without a guard on the current one.
InlineSettle(r) ==
  LET a == req[r].act IN
  /\ ReqAt(r, "done") \/ ReqAt(r, "failed")
  /\ row' = Update(a, [row[a] EXCEPT !.status = req[r].pc])
  /\ ReqEnds(r)
  /\ UNCHANGED <<moment, conn, job, exec, effects, lost>>

\* The API process dies, or a query of the handler throws out of it.
RequestDies(r) ==
  /\ Faults \cap {"api_crash", "db_error"} # {}
  /\ ~ReqAt(r, "idle")
  /\ ReqEnds(r)
  /\ UNCHANGED <<row, moment, conn, job, exec, effects, lost>>

Reject_Queued(a) ==
  /\ row[a].status \in {"proposed", "queued"}
  /\ row' = [row EXCEPT ![a].status = "rejected"]
  /\ UNCHANGED <<moment, conn, job, req, exec, effects, lost>>
Reject(a) ==
  /\ row[a].status = "proposed"
  /\ row' = [row EXCEPT ![a].status = "rejected"]
  /\ UNCHANGED <<moment, conn, job, req, exec, effects, lost>>
-----------------------------------------------------------------------------
(* BullMQ (external)                                                       *)

\* A worker takes a waiting job and holds its lock.
Take(w, a) ==
  /\ ExecAt(w, "idle")
  /\ job[a].state = "waiting"
  /\ job' = [job EXCEPT ![a].state = "active", ![a].owner = w]
  /\ exec' = [exec EXCEPT ![w] = [IdleExec EXCEPT !.pc = "select", !.act = a]]
  /\ UNCHANGED <<row, moment, conn, req, effects, lost>>

HoldsLock(w) ==
  LET a == exec[w].act IN job[a].state = "active" /\ job[a].owner = w

\* The processor returned: the job completes.
FinishOk(w) ==
  /\ ExecAt(w, "ok") /\ HoldsLock(w)
  /\ job' = [job EXCEPT ![exec[w].act].state = "completed",
                        ![exec[w].act].owner = None]
  /\ ExecEnds(w)
  /\ UNCHANGED <<row, moment, conn, req, effects, lost>>

LastAttempt_Never(a) == FALSE
LastAttempt(a) == job[a].made + 1 >= Attempts

\* The 'failed' handler marks the action only after the last attempt.
MarksFailed_Always(a) == TRUE
MarksFailed(a) == LastAttempt(a)

\* After the last attempt the handler marks the action failed.
AfterLastAttempt_Nothing(w) == ExecEnds(w)
AfterLastAttempt(w) == ExecTo(w, "mark")

\* It threw a retryable error: back to the queue, or, after the last attempt,
\* failed, and the 'failed' handler goes on to mark the action.
FinishRetry(w) ==
  LET a == exec[w].act
      last == LastAttempt(a)
  IN
  /\ ExecAt(w, "retry") /\ HoldsLock(w)
  /\ job' = [job EXCEPT ![a] = [@ EXCEPT
       !.made = job[a].made + 1, !.owner = None,
       !.state = IF last THEN "failed" ELSE "waiting"]]
  /\ IF MarksFailed(a) THEN AfterLastAttempt(w) ELSE ExecEnds(w)
  /\ UNCHANGED <<row, moment, conn, req, effects, lost>>

\* It threw UnrecoverableError: failed at once; the handler marks nothing.
FinishFatal(w) ==
  /\ ExecAt(w, "fatal") /\ HoldsLock(w)
  /\ job' = [job EXCEPT ![exec[w].act].state = "failed",
                        ![exec[w].act].owner = None]
  /\ ExecEnds(w)
  /\ UNCHANGED <<row, moment, conn, req, effects, lost>>

\* Without the lock BullMQ refuses the outcome and emits no 'failed' event.
FinishUnlocked(w) ==
  /\ exec[w].pc \in {"ok", "retry", "fatal"} /\ ~HoldsLock(w)
  /\ ExecEnds(w)
  /\ UNCHANGED <<row, moment, conn, job, req, effects, lost>>

\* The lock of a live call expires (30 s without renewal); the call goes on.
LockExpires(w) ==
  LET a == exec[w].act IN
  /\ "lock_lost" \in Faults
  /\ ~ExecAt(w, "idle") /\ HoldsLock(w)
  /\ job' = [job EXCEPT ![a].owner = None]
  /\ lost' = [lost EXCEPT ![a] = TRUE]
  /\ UNCHANGED <<row, moment, conn, req, exec, effects>>

\* The worker process dies: locals are gone, the lock is no longer renewed.
WorkerCrash(w) ==
  LET a == exec[w].act IN
  /\ "worker_crash" \in Faults
  /\ ~ExecAt(w, "idle")
  /\ job' = IF HoldsLock(w) THEN [job EXCEPT ![a].owner = None] ELSE job
  /\ lost' = [lost EXCEPT ![a] = @ \/ ExecAt(w, "complete")]
  /\ ExecEnds(w)
  /\ UNCHANGED <<row, moment, conn, req, effects>>

\* The stalled check: an unlocked active job runs again, up to MaxStalls times,
\* then fails with an UnrecoverableError: nothing marks the action.
StallCheck(a) ==
  /\ job[a].state = "active" /\ job[a].owner = None
  /\ job' = [job EXCEPT ![a] =
       IF @.stalls < MaxStalls
       THEN [@ EXCEPT !.state = "waiting", !.stalls = job[a].stalls + 1]
       ELSE [@ EXCEPT !.state = "failed"]]
  /\ UNCHANGED <<row, moment, conn, req, exec, effects, lost>>

\* removeOnComplete / removeOnFail: old finished jobs are forgotten.
EvictJob(a) ==
  /\ job[a].state \in {"completed", "failed"}
  /\ job' = [job EXCEPT ![a] = NoJob]
  /\ UNCHANGED <<row, moment, conn, req, exec, effects, lost>>
-----------------------------------------------------------------------------
(* executeAction                                                           *)

AfterSelect_NoShortcut(a) ==
  IF row[a].status \notin InFlight THEN "ok" ELSE "claim"
AfterSelect(a) ==
  IF row[a].status \notin InFlight THEN "ok"
  ELSE IF row[a].page THEN "recover" ELSE "claim"

\* The row is read once; payload and result are used from this snapshot on.
Select(w) ==
  LET a == exec[w].act IN
  /\ ExecAt(w, "select")
  /\ exec' = [exec EXCEPT ![w] = [@ EXCEPT
       !.media = row[a].media, !.uploads = row[a].uploads,
       !.pc = AfterSelect(a)]]
  /\ UNCHANGED <<row, moment, conn, job, req, effects, lost>>

\* A stored page id: finish without a second provider call.  The audit insert
\* that follows may throw, outside the try block.
Recover(w) ==
  LET a == exec[w].act IN
  /\ ExecAt(w, "recover")
  /\ row' = Update(a, [row[a] EXCEPT !.status = "done"])
  /\ \/ ExecTo(w, "ok")
     \/ "db_error" \in Faults /\ ExecTo(w, "retry")
  /\ UNCHANGED <<moment, conn, job, req, effects, lost>>

\* The claim: a redelivered 'executing' action is taken again.
Claim(w) ==
  LET a == exec[w].act IN
  /\ ExecAt(w, "claim")
  /\ \/ /\ row[a].status \in InFlight
        /\ row' = [row EXCEPT ![a].status = "executing"]
        /\ ExecTo(w, "connect")
     \/ /\ row[a].status \notin InFlight
        /\ ExecTo(w, "ok")
        /\ UNCHANGED row
  /\ UNCHANGED <<moment, conn, job, req, effects, lost>>

\* No active connection, no key or an unreadable token: terminal.
Connect(w) ==
  /\ ExecAt(w, "connect")
  /\ \/ conn = "active" /\ ExecTo(w, "resolve")
     \/ ExecTo(w, "terminal")
  /\ UNCHANGED <<row, moment, conn, job, req, effects, lost>>

\* Destination and live schema: found, transient trouble, or none.
Resolve(w) ==
  /\ ExecAt(w, "resolve")
  /\ \E next \in {"media", "retry", "terminal"} : ExecTo(w, next)
  /\ UNCHANGED <<row, moment, conn, job, req, effects, lost>>

\* The media still to upload: those with no stored upload id.
ToUpload_All(w) == exec[w].media
ToUpload(w) == exec[w].media \ exec[w].uploads

\* One turn of the media loop: the guarded read, then the upload.  The upload
\* works, fails before Notion acts (transient or not), or loses its reply.
UploadMedia(w, m) ==
  LET a == exec[w].act
      upload == copies' = [copies EXCEPT ![a][m] = Bump(@)]
  IN
  /\ ExecAt(w, "media")
  /\ m \in ToUpload(w)
  /\ \/ /\ m \in Readable(a) /\ upload
        /\ exec' = [exec EXCEPT ![w] = [@ EXCEPT !.pc = "persist",
                                      !.uploads = exec[w].uploads \cup {m}]]
     \/ /\ "provider_reply_lost" \in Faults
        /\ m \in Readable(a) /\ upload /\ ExecTo(w, "retry")
     \/ /\ m \in Readable(a) /\ UNCHANGED copies /\ ExecTo(w, "retry")
     \/ UNCHANGED copies /\ ExecTo(w, "terminal")
  /\ UNCHANGED <<row, moment, conn, job, req, pages, tasks, lost>>

\* The upload ids go to the row before the next upload.
PersistUpload(w) ==
  LET a == exec[w].act IN
  /\ ExecAt(w, "persist")
  /\ row' = Update(a, [row[a] EXCEPT !.uploads = exec[w].uploads])
  /\ ExecTo(w, "media")
  /\ UNCHANGED <<moment, conn, job, req, effects, lost>>

\* A failed createPage call throws: transient or terminal.
CreateError_Ignored == {"complete"}
CreateError == {"retry", "terminal"}

\* createPage, once everything is uploaded.  A lost reply is retried, or is
\* terminal when only the body could not be read.
CreatePage(w) ==
  LET a == exec[w].act
      create == pages' = [pages EXCEPT ![a] = Bump(@)]
  IN
  /\ ExecAt(w, "media")
  /\ ToUpload(w) = {}
  /\ \/ create /\ ExecTo(w, "complete") /\ UNCHANGED lost
     \/ /\ "provider_reply_lost" \in Faults
        /\ create /\ lost' = [lost EXCEPT ![a] = TRUE]
        /\ \E next \in {"retry", "terminal"} : ExecTo(w, next)
     \/ /\ UNCHANGED <<pages, lost>>
        /\ \E next \in CreateError : ExecTo(w, next)
  /\ UNCHANGED <<row, moment, conn, job, req, copies, tasks>>

\* Page id and 'done' in one statement, with no guard on the status.  The audit
\* insert that follows may throw, which the catch turns into a terminal error.
Complete(w) ==
  LET a == exec[w].act IN
  /\ ExecAt(w, "complete")
  /\ row' = Update(a, [row[a] EXCEPT !.status = "done", !.page = TRUE,
                                     !.uploads = {}])
  /\ \/ ExecTo(w, "ok")
     \/ "db_error" \in Faults /\ ExecTo(w, "terminal")
  /\ UNCHANGED <<moment, conn, job, req, effects, lost>>

\* terminal(): markActionFailed, then throw UnrecoverableError; when its audit
\* insert throws instead, the error is retryable.
MarkTerminal(w) ==
  LET a == exec[w].act IN
  /\ ExecAt(w, "terminal")
  /\ row' = MarkFailed(a) /\ MarkLoses(a)
  /\ \/ ExecTo(w, "fatal")
     \/ "db_error" \in Faults /\ ExecTo(w, "retry")
  /\ UNCHANGED <<moment, conn, job, req, effects>>

\* worker.on("failed") after the last attempt.
MarkFinal(w) ==
  LET a == exec[w].act IN
  /\ ExecAt(w, "mark")
  /\ row' = MarkFailed(a) /\ MarkLoses(a)
  /\ ExecEnds(w)
  /\ UNCHANGED <<moment, conn, job, req, effects>>

\* A query throws: outside the try block the error is retryable, inside it is
\* terminal; the 'failed' handler only logs it.
DbError(w) ==
  LET a == exec[w].act IN
  /\ "db_error" \in Faults
  /\ \/ /\ exec[w].pc \in {"select", "recover", "claim", "connect", "terminal"}
        /\ ExecTo(w, "retry")
     \/ /\ exec[w].pc \in {"media", "persist", "complete"}
        /\ ExecTo(w, "terminal")
     \/ ExecAt(w, "mark") /\ ExecEnds(w)
  /\ lost' = [lost EXCEPT ![a] = @ \/ ExecAt(w, "complete")]
  /\ UNCHANGED <<row, moment, conn, job, req, effects>>
-----------------------------------------------------------------------------
(* Connections and deletions                                               *)

Reconnect == conn = "revoked" /\ conn' = "active"
Disconnect == conn = "active" /\ conn' = "revoked"
ChangeConnection ==
  /\ Reconnect \/ Disconnect
  /\ UNCHANGED <<row, moment, job, req, exec, effects, lost>>

\* Deleting a moment: blobs first, then every row in one transaction, which
\* may also roll back and leave the moment without its blobs.
DeleteBlobs(a) ==
  /\ moment[a] = "live"
  /\ moment' = [moment EXCEPT ![a] = "blobless"]
  /\ UNCHANGED <<row, conn, job, req, exec, effects, lost>>
DeleteRows(a) ==
  /\ moment[a] = "blobless"
  /\ moment' = [moment EXCEPT ![a] = "gone"]
  /\ row' = [row EXCEPT ![a] = [ProposedRow EXCEPT !.status = "absent"]]
  /\ UNCHANGED <<conn, job, req, exec, effects, lost>>
-----------------------------------------------------------------------------
(* Specification                                                           *)

Approve(r) ==
  \/ \E a \in External, M \in SUBSET Media : ApproveChecks(r, a, M)
  \/ \E a \in Internal : InlineClaim(r, a)
Serve(r) ==
  \/ ApproveClaim(r) \/ EnqueueAccepted(r) \/ EnqueueFails(r)
  \/ ApproveRevert(r) \/ InlineExecute(r) \/ InlineSettle(r)
Execute(w) ==
  \/ Select(w) \/ Recover(w) \/ Claim(w) \/ Connect(w) \/ Resolve(w)
  \/ \E m \in Media : UploadMedia(w, m)
  \/ PersistUpload(w) \/ CreatePage(w) \/ Complete(w)
  \/ MarkTerminal(w) \/ MarkFinal(w)
Finish(w) == FinishOk(w) \/ FinishRetry(w) \/ FinishFatal(w) \/ FinishUnlocked(w)

Next ==
  \/ \E r \in Requests : Approve(r) \/ Serve(r) \/ RequestDies(r)
  \/ \E w \in Workers :
       \/ \E a \in External : Take(w, a)
       \/ Execute(w) \/ Finish(w)
       \/ LockExpires(w) \/ WorkerCrash(w) \/ DbError(w)
  \/ \E a \in Actions :
       Reject(a) \/ StallCheck(a) \/ EvictJob(a) \/ DeleteBlobs(a) \/ DeleteRows(a)
  \/ ChangeConnection

Spec == Init /\ [][Next]_vars

\* A request or a job that was started goes on; BullMQ hands out waiting jobs
\* and checks for stalled ones.  Users, crashes and lost replies are not fair.
Fairness ==
  /\ \A r \in Requests : WF_vars(Serve(r))
  /\ \A w \in Workers : WF_vars(Execute(w) \/ Finish(w))
  /\ \A a \in External : SF_vars(\E w \in Workers : Take(w, a))
  /\ \A a \in External : WF_vars(StallCheck(a))

FairSpec == Spec /\ Fairness
-----------------------------------------------------------------------------
(* Properties                                                              *)

\* An external action is reported done only when its page was written, and with
\* the page id on the row (actions.ts: id and status in one statement); only an
\* overlapping call that marked the action failed can have erased the id.
DoneHasPage ==
  \A a \in External :
    row[a].status = "done" => pages[a] > 0 /\ (row[a].page \/ lost[a])

\* A second page is written for an action only after the first was, or may
\* have been, lost track of: a crash, a lost reply, a database error between
\* the page and its record, an expired lock, or a record erased by a failure
\* mark.  Retries, redeliveries, re-approvals, rejections and deletions alone
\* never duplicate a page (actions.ts, "Idempotent by construction").
DuplicateNeedsLoss ==
  \A a \in External : pages[a] > 1 => lost[a]

\* A late failure signal never turns a completed action into a failed one
\* (markActionFailed, "Never clobber a completed action").
DoneNeverFails ==
  [][\A a \in External :
       row[a].status = "done" => row'[a].status # "failed"]_row

\* An internal action inserts its task at most once however many approvals
\* race, and is reported done only with the task in place.
InternalOnce ==
  \A a \in Internal :
    /\ tasks[a] <= 1
    /\ row[a].status = "done" => tasks[a] = 1

\* What executes is what was approved: the media a running call works with are
\* the media stored by the approval (docs/AUTH.md, "preview == execution").
PreviewIsExecution ==
  \A w \in Workers :
    LET a == exec[w].act IN
      exec[w].pc \in {"connect", "resolve", "media", "persist", "complete"}
        => row[a].status = "absent" \/ exec[w].media = row[a].media

\* Retries add nothing twice and nothing late: a medium whose upload is on record
\* is not uploaded again (docs/AUTH.md, "Notion media upload hardening"), and no
\* page is written for an action that the user sees as failed: "A failed Tier 1/2
\* action never silently re-executes later" (docs/ACTION_ENGINE.md).  A call that
\* outlives its job's lock would do both.
RetriesAddNothing ==
  [][\A a \in External :
       /\ \A m \in Media : copies'[a][m] > copies[a][m] => m \notin row[a].uploads
       /\ pages'[a] > pages[a] => row[a].status # "failed"]_<<row, copies, pages>>

\* An approved action stays neither queued nor executing: it is settled, deleted,
\* or handed back for another approval.
ApprovedSettles ==
  \A a \in External, at \in {"queued", "executing"} :
    row[a].status = at ~> row[a].status # at

\* The lifecycle the documents promise, implemented by the code as long as a
\* failed enqueue really left no job and no live call loses its lock.
Lifecycle == INSTANCE ActionLifecycle WITH
  status <- [a \in Actions |-> row[a].status],
  effect <- [a \in Actions |-> pages[a] > 0 \/ tasks[a] > 0]
ImplementsLifecycle == Lifecycle!Spec
=============================================================================
