--------------------------- MODULE EnrichmentProofs ---------------------------
(* Theorems about Enrichment, for every value of its constants. *)
EXTENDS Enrichment, FiniteSetTheorems, TLAPS

-----------------------------------------------------------------------------
(* Typing *)

JobType == [state : {"none", "waiting", "active", "completed", "failed"},
            made : Nat, stalls : Nat, owner : Workers \cup {None}]
Pcs == {"idle", "read", "processing", "check", "propose", "clear", "embed", "version",
        "finalize", "ok", "retry", "mark"}
ExecType == [pc : Pcs,
             moment : Moments \cup {None}, absent : BOOLEAN, version : Nat]

\* The rows themselves are whatever ids the database draws.
TypeOK ==
  /\ moment \in [Moments -> {"none", "live", "gone"}]
  /\ status \in [Moments -> {"pending", "processing", "completed", "failed", "skipped"}]
  /\ current \in [Moments -> Nat]
  /\ versions \in [Moments -> SUBSET (Nat \ {0})]
  /\ \A m \in Moments : IsFiniteSet(versions[m])
  /\ proposed = [m \in Moments |-> proposed[m]]
  /\ embedded = [m \in Moments |-> embedded[m]]
  /\ auto \in [Moments -> BOOLEAN] /\ task \in [Moments -> BOOLEAN]
  /\ capture \in [Moments -> {"new", "enqueue", "skip", "action", "task", "done"}]
  /\ sel \in [Moments -> Nat]
  /\ del = [m \in Moments |-> del[m]]
  /\ job \in [Moments -> JobType]
  /\ exec \in [Workers -> ExecType]
  /\ raced \in [Moments -> BOOLEAN] /\ doubled \in [Moments -> BOOLEAN]
-----------------------------------------------------------------------------
(* The invariant *)

\* A job is there once its capture has enqueued it, and is final when its attempts
\* are spent.
JobOK(m) ==
  /\ job[m].state \in {"waiting", "active"} => job[m].made < Attempts
  /\ capture[m] \in {"new", "enqueue"} => job[m].state = "none"

\* A call of enrichMoment belongs to a job; the version it will show is on record for
\* as long as the moment is, and it marks a failure only after the final attempt.
ExecOK(w) ==
  /\ exec[w].pc = "idle" <=> exec[w].moment = None
  /\ exec[w].pc # "idle" => job[exec[w].moment].state # "none"
  /\ exec[w].pc = "finalize" /\ IsLive(exec[w].moment) =>
       exec[w].version \in versions[exec[w].moment]
  /\ exec[w].pc = "mark" =>
       /\ job[exec[w].moment].state = "failed" /\ job[exec[w].moment].made = Attempts

\* What a moment shows, and what a selection is about to make it show.
ShownOK(m) ==
  /\ current[m] \in versions[m] \cup {0}
  /\ sel[m] \in versions[m] \cup {0}
  /\ status[m] = "completed" => current[m] # 0
  /\ status[m] = "failed" => job[m].state = "failed" /\ job[m].made = Attempts

ShownInv == /\ TypeOK
            /\ \A m \in Moments : JobOK(m) /\ ShownOK(m)
            /\ \A w \in Workers : ExecOK(w)

\* A call that runs alone finds what it read still true when it inserts.
AtMostOne(S) == \A a, b \in S : a = b
Alone(m) == \A v, w \in Workers : exec[v].moment = m /\ exec[w].moment = m => v = w
OneOK(m) ==
  ~doubled[m] =>
    /\ Alone(m) /\ AtMostOne(proposed[m]) /\ AtMostOne(embedded[m])
    /\ \A w \in Workers : exec[w].moment = m =>
         /\ exec[w].pc = "propose" /\ exec[w].absent => proposed[m] = {}
         /\ exec[w].pc = "embed" => embedded[m] = {}
OneInv == ShownInv /\ \A m \in Moments : OneOK(m)

\* A deletion that nothing overlaps holds every row there is, and after it a late
\* call finds no moment to work on.
Empty(m) == proposed[m] = {} /\ embedded[m] = {} /\ ~auto[m] /\ ~task[m]
RaceOK(m) ==
  /\ del[m].open => IsLive(m)
  /\ del[m].open /\ ~raced[m] =>
       /\ ~InFlight(m)
       /\ del[m].proposed = proposed[m] /\ del[m].embedded = embedded[m]
       /\ del[m].auto = auto[m] /\ del[m].task = task[m]
  /\ moment[m] = "gone" /\ ~raced[m] =>
       /\ CaptureAt(m, "done") /\ Empty(m)
       /\ \A w \in Workers : exec[w].moment = m => exec[w].pc \in {"read", "retry", "mark"}
RaceInv == ShownInv /\ \A m \in Moments : RaceOK(m)
-----------------------------------------------------------------------------
(* Frames *)

\* An enqueued job stays one, a failure is final, and a moment that has a job gets
\* no row back and keeps its versions while it has its own.
Onward(m) ==
  /\ job[m].state # "none" => job'[m].state # "none"
  /\ job[m].state = "failed" => job'[m].state = "failed" /\ job'[m].made = job[m].made
  /\ job[m].state # "none" /\ moment'[m] = "live" =>
       moment[m] = "live" /\ versions[m] \subseteq versions'[m]

LEMMA ExecKept ==
  ASSUME ShownInv, NEW w \in Workers, \A m \in Moments : Onward(m), exec'[w] = exec[w]
  PROVE  ExecOK(w)'
  <1> PICK r \in ExecType : r = exec[w]
    BY DEF ShownInv, TypeOK
  <1>1. ExecOK(w)
    BY DEF ShownInv
  <1>2. r.moment # None => r.moment \in Moments /\ Onward(r.moment)
    BY DEF ExecType
  <1> QED
    BY <1>1, <1>2 DEF ExecOK, Onward, IsLive

\* What the record of a call may become.
CallOK(r) ==
  /\ r.pc = "idle" <=> r.moment = None
  /\ r.pc # "idle" => job'[r.moment].state # "none"
  /\ r.pc = "finalize" /\ moment'[r.moment] = "live" => r.version \in versions'[r.moment]
  /\ r.pc = "mark" => job'[r.moment].state = "failed" /\ job'[r.moment].made = Attempts

LEMMA ShownFrame ==
  ASSUME ShownInv, TypeOK', \A m \in Moments : Onward(m),
         \A w \in Workers : exec'[w] = exec[w] \/ CallOK(exec'[w]),
         \A m \in Moments : (capture'[m] = capture[m] /\ job'[m] = job[m]) \/ JobOK(m)',
         \A m \in Moments : \/ /\ current'[m] = current[m] /\ sel'[m] = sel[m]
                               /\ status'[m] = status[m] /\ versions[m] \subseteq versions'[m]
                            \/ ShownOK(m)'
  PROVE  ShownInv'
  <1>1. ASSUME NEW w \in Workers PROVE ExecOK(w)'
    BY ExecKept DEF CallOK, ExecOK, IsLive
  <1>2. ASSUME NEW m \in Moments PROVE JobOK(m)'
    <2>1. JobOK(m)
      BY DEF ShownInv
    <2> QED
      BY <2>1 DEF JobOK
  <1>3. ASSUME NEW m \in Moments PROVE ShownOK(m)'
    <2>1. ShownOK(m) /\ Onward(m)
      BY DEF ShownInv
    <2> QED
      BY <2>1 DEF ShownOK, Onward
  <1> QED
    BY <1>1, <1>2, <1>3 DEF ShownInv

\* The steps that touch neither a job nor what a moment shows.
LEMMA QuietShown ==
  ASSUME ShownInv, TypeOK', UNCHANGED <<status, current, versions, sel, job>>,
         \A w \in Workers : exec'[w] = exec[w] \/ CallOK(exec'[w]),
         \A m \in Moments : capture'[m] \in {"new", "enqueue"} => capture[m] \in {"new", "enqueue"},
         \A m \in Moments : moment'[m] = "live" => moment[m] = "live" \/ job[m].state = "none"
  PROVE  ShownInv'
  <1>1. \A m \in Moments : Onward(m)
    BY DEF Onward
  <1>2. ASSUME NEW m \in Moments PROVE JobOK(m)'
    <2>1. JobOK(m)
      BY DEF ShownInv
    <2> QED
      BY <2>1 DEF JobOK
  <1> QED
    BY <1>1, <1>2, ShownFrame

\* The record a statement leaves behind.
At(m, pc) == [pc |-> pc, moment |-> m, absent |-> FALSE, version |-> 0]

LEMMA SameCall ==
  ASSUME NEW r \in ExecType, NEW s \in ExecType, r.pc = s.pc, r.moment = s.moment,
         r.absent = s.absent, r.version = s.version
  PROVE  r = s
  BY DEF ExecType

LEMMA CallRecords ==
  /\ IdleExec = At(None, "idle") /\ IdleExec \in ExecType
  /\ \A m \in Moments, pc \in Pcs :
       [IdleExec EXCEPT !.pc = pc, !.moment = m] = At(m, pc) /\ At(m, pc) \in ExecType
  <1>0. /\ IdleExec \in ExecType /\ IdleExec.absent = FALSE /\ IdleExec.version = 0
        /\ IdleExec = At(None, "idle")
    BY DEF IdleExec, ExecType, Pcs, At
  <1>1. ASSUME NEW m \in Moments, NEW pc \in Pcs
        PROVE  [IdleExec EXCEPT !.pc = pc, !.moment = m] = At(m, pc) /\ At(m, pc) \in ExecType
    <2> DEFINE new == [IdleExec EXCEPT !.pc = pc, !.moment = m]
    <2>1. /\ new \in ExecType /\ new.pc = pc /\ new.moment = m /\ new.absent = FALSE
          /\ new.version = 0
      BY <1>0 DEF ExecType
    <2>2. /\ At(m, pc) \in ExecType /\ At(m, pc).pc = pc /\ At(m, pc).moment = m
          /\ At(m, pc).absent = FALSE /\ At(m, pc).version = 0
      BY DEF At, ExecType
    <2> HIDE DEF new
    <2>3. new = At(m, pc)
      BY <2>1, <2>2, SameCall
    <2> QED
      BY <2>2, <2>3 DEF new
  <1> QED
    BY <1>0, <1>1

LEMMA CallOf ==
  ASSUME ShownInv, NEW w \in Workers
  PROVE  /\ exec \in [Workers -> ExecType] /\ exec[w] \in ExecType
         /\ exec[w].pc # "idle" => /\ exec[w].moment \in Moments
                                   /\ job[exec[w].moment] \in JobType
                                   /\ job[exec[w].moment].state # "none"
         /\ ExecOK(w)
  <1>1. /\ ExecOK(w) /\ exec \in [Workers -> ExecType] /\ exec[w] \in ExecType
        /\ job \in [Moments -> JobType]
    BY DEF ShownInv, TypeOK
  <1>2. exec[w].pc # "idle" => exec[w].moment \in Moments /\ job[exec[w].moment].state # "none"
    BY <1>1 DEF ExecType, ExecOK
  <1> QED
    BY <1>1, <1>2

\* A step of a call in the middle of its job.
LEMMA CallGoesOn ==
  ASSUME ShownInv, NEW w \in Workers, exec[w].pc # "idle",
         NEW pc \in Pcs \ {"idle", "finalize", "mark"},
         exec' = [exec EXCEPT ![w] = At(exec[w].moment, pc)] \/
           exec' = [exec EXCEPT ![w] = IdleExec],
         job' = job
  PROVE  /\ exec' \in [Workers -> ExecType]
         /\ \A v \in Workers : exec'[v] = exec[v] \/ CallOK(exec'[v])
  <1>0. /\ exec \in [Workers -> ExecType] /\ exec[w].moment \in Moments
        /\ job[exec[w].moment].state # "none"
    BY CallOf
  <1>1. CASE exec' = [exec EXCEPT ![w] = At(exec[w].moment, pc)]
    <2>1. At(exec[w].moment, pc) \in ExecType /\ CallOK(At(exec[w].moment, pc))
      BY <1>0, ConstantsOK DEF At, ExecType, Pcs, CallOK
    <2> QED
      BY <1>0, <1>1, <2>1
  <1>2. CASE exec' = [exec EXCEPT ![w] = IdleExec]
    <2>1. IdleExec \in ExecType /\ CallOK(IdleExec)
      BY DEF IdleExec, ExecType, Pcs, CallOK
    <2> QED
      BY <1>0, <1>2, <2>1
  <1> QED
    BY <1>1, <1>2
-----------------------------------------------------------------------------
(* What a moment shows: the capture, the selections and the deletion *)

LEMMA CaptureShown ==
  ASSUME ShownInv, NEW m \in Moments,
         \/ InsertMoment(m) \/ AutoAction(m) \/ AutoTask(m) \/ CaptureDies(m)
         \/ DeleteDerived(m) \/ DeleteRollback(m)
  PROVE  ShownInv'
  <1>0. TypeOK /\ JobOK(m)
    BY DEF ShownInv
  <1>1. CASE InsertMoment(m)
    <2>1. TypeOK'
      BY <1>0, <1>1 DEF TypeOK, InsertMoment, CaptureTo, shown, derived, history
    <2>2. /\ \A n \in Moments : moment'[n] = "live" => moment[n] = "live" \/ job[n].state = "none"
          /\ \A n \in Moments : capture'[n] \in {"new", "enqueue"} => capture[n] \in {"new", "enqueue"}
          /\ UNCHANGED <<status, current, versions, sel, job, exec>>
      BY <1>0, <1>1 DEF InsertMoment, CaptureAt, CaptureTo, JobOK, TypeOK, shown
    <2> QED
      BY <2>1, <2>2, QuietShown
  <1>2. CASE AutoAction(m) \/ AutoTask(m) \/ CaptureDies(m)
    <2>1. /\ auto' \in [Moments -> BOOLEAN] /\ task' \in [Moments -> BOOLEAN]
      BY <1>0, <1>2 DEF TypeOK, AutoAction, AutoTask, CaptureDies, derived
    <2>2. /\ \E pc \in {"task", "done"} : capture' = [capture EXCEPT ![m] = pc]
          /\ UNCHANGED <<moment, status, current, versions, proposed, embedded, sel, del, job,
                         exec, raced, doubled>>
      BY <1>2 DEF AutoAction, AutoTask, CaptureDies, CaptureTo, shown, derived, history
    <2>3. /\ capture' \in [Moments -> {"new", "enqueue", "skip", "action", "task", "done"}]
          /\ \A n \in Moments : capture'[n] \in {"new", "enqueue"} => capture[n] \in {"new", "enqueue"}
      BY <1>0, <2>2 DEF TypeOK
    <2>4. TypeOK'
      BY <1>0, <2>1, <2>2, <2>3 DEF TypeOK
    <2> QED
      BY <2>2, <2>3, <2>4, QuietShown
  <1>3. CASE DeleteDerived(m) \/ DeleteRollback(m)
    <2>1. TypeOK'
      <3>1. CASE DeleteDerived(m)
        BY <1>0, <3>1 DEF TypeOK, DeleteDerived, InFlight, shown, derived
      <3>2. CASE DeleteRollback(m)
        BY <1>0, <3>2 DEF TypeOK, DeleteRollback, shown, derived, history
      <3> QED
        BY <1>3, <3>1, <3>2
    <2>2. UNCHANGED <<moment, status, current, versions, capture, sel, job, exec>>
      BY <1>3 DEF DeleteDerived, DeleteRollback, shown
    <2> QED
      BY <2>1, <2>2, QuietShown
  <1> QED
    BY <1>1, <1>2, <1>3

LEMMA EnqueueShown ==
  ASSUME ShownInv, NEW m \in Moments, Enqueue(m) \/ MarkSkipped(m)
  PROVE  ShownInv'
  <1>0. TypeOK /\ JobOK(m) /\ ShownOK(m)
    BY DEF ShownInv
  <1>1. CASE Enqueue(m)
    <2>1. PICK pc \in {"action", "skip"} : capture' = [capture EXCEPT ![m] = pc]
      BY <1>1 DEF Enqueue, CaptureTo
    <2>2. /\ job' = job \/ job' = [job EXCEPT ![m] = [NoJob EXCEPT !.state = "waiting"]]
          /\ UNCHANGED <<moment, status, current, versions, proposed, embedded, auto, task, sel,
                         del, exec, raced, doubled>>
      BY <1>1 DEF Enqueue, shown, derived, history
    <2>3. job[m].state = "none"
      BY <1>0, <1>1 DEF Enqueue, CaptureAt, JobOK
    <2>4. /\ [NoJob EXCEPT !.state = "waiting"] \in JobType
          /\ [NoJob EXCEPT !.state = "waiting"].made = 0
      BY DEF NoJob, JobType
    <2>5. /\ job' \in [Moments -> JobType]
          /\ capture' \in [Moments -> {"new", "enqueue", "skip", "action", "task", "done"}]
      BY <1>0, <2>1, <2>2, <2>4 DEF TypeOK
    <2>6. TypeOK'
      BY <1>0, <2>2, <2>5 DEF TypeOK
    <2>7. /\ \A n \in Moments : n # m => job'[n] = job[n] /\ capture'[n] = capture[n]
          /\ job'[m] = job[m] \/ job'[m].made = 0
          /\ capture'[m] = pc
      BY <1>0, <2>1, <2>2, <2>4 DEF TypeOK
    <2>8. JobOK(m)'
      BY <1>0, <2>7, ConstantsOK DEF JobOK
    <2>9. \A n \in Moments : Onward(n)
      BY <2>2, <2>3, <2>7 DEF Onward
    <2> QED
      BY <2>2, <2>6, <2>7, <2>8, <2>9, ShownFrame
  <1>2. CASE MarkSkipped(m)
    <2>1. /\ capture' = [capture EXCEPT ![m] = "action"]
          /\ status' = status \/ status' = [status EXCEPT ![m] = "skipped"]
          /\ UNCHANGED <<moment, current, versions, proposed, embedded, auto, task, sel,
                         del, job, exec, raced, doubled>>
      BY <1>2 DEF MarkSkipped, CaptureTo, SetStatus, derived, history
    <2>2. TypeOK'
      BY <1>0, <2>1 DEF TypeOK
    <2>3. \A n \in Moments : Onward(n)
      BY <2>1 DEF Onward
    <2>4. ASSUME NEW n \in Moments PROVE JobOK(n)' /\ ShownOK(n)'
      <3>1. JobOK(n) /\ ShownOK(n)
        BY DEF ShownInv
      <3>2. capture'[n] = capture[n] \/ capture'[n] = "action"
        BY <1>0, <2>1 DEF TypeOK
      <3>3. status'[n] = status[n] \/ status'[n] = "skipped"
        BY <1>0, <2>1 DEF TypeOK
      <3> QED
        BY <2>1, <3>1, <3>2, <3>3 DEF JobOK, ShownOK
    <2> QED
      BY <2>1, <2>2, <2>3, <2>4, ShownFrame
  <1> QED
    BY <1>1, <1>2

LEMMA SelectShown ==
  ASSUME ShownInv, NEW m \in Moments, SelectWrite(m) \/ \E v \in RowIds : SelectRead(m, v)
  PROVE  ShownInv'
  <1>0. TypeOK /\ \A n \in Moments : JobOK(n) /\ ShownOK(n)
    BY DEF ShownInv
  <1>1. ASSUME NEW v \in RowIds, SelectRead(m, v) PROVE ShownInv'
    <2>1. /\ v \in versions[m] /\ sel' = [sel EXCEPT ![m] = v]
          /\ UNCHANGED <<moment, status, current, versions, proposed, embedded, auto, task,
                         capture, del, job, exec, raced, doubled>>
      BY <1>1 DEF SelectRead, Selectable, shown, derived, history
    <2>2. sel' \in [Moments -> Nat]
      BY <1>0, <2>1 DEF TypeOK
    <2>3. TypeOK'
      BY <1>0, <2>1, <2>2 DEF TypeOK
    <2>4. \A n \in Moments : sel'[n] = sel[n] \/ sel'[n] \in versions[n]
      BY <1>0, <2>1 DEF TypeOK
    <2>5. \A n \in Moments : Onward(n) /\ ShownOK(n)'
      BY <1>0, <2>1, <2>4 DEF Onward, ShownOK
    <2> QED
      BY <2>1, <2>3, <2>5, ShownFrame
  <1>2. CASE SelectWrite(m)
    <2>1. /\ sel[m] # 0 /\ sel' = [sel EXCEPT ![m] = 0]
          /\ current' = current \/ current' = [current EXCEPT ![m] = sel[m]]
          /\ UNCHANGED <<moment, status, versions, proposed, embedded, auto, task,
                         capture, del, job, exec, raced, doubled>>
      BY <1>2 DEF SelectWrite, derived, history
    <2>2. sel' \in [Moments -> Nat] /\ current' \in [Moments -> Nat]
      BY <1>0, <2>1 DEF TypeOK
    <2>3. TypeOK'
      BY <1>0, <2>1, <2>2 DEF TypeOK
    <2>4. \A n \in Moments : /\ sel'[n] \in {sel[n], 0}
                             /\ current'[n] = current[n] \/
                                  (current'[n] # 0 /\ current'[n] \in versions[n])
      BY <1>0, <2>1 DEF TypeOK, ShownOK
    <2>5. \A n \in Moments : Onward(n) /\ ShownOK(n)'
      BY <1>0, <2>1, <2>4 DEF Onward, ShownOK
    <2> QED
      BY <2>1, <2>3, <2>5, ShownFrame
  <1> QED
    BY <1>1, <1>2

LEMMA CommitShown ==
  ASSUME ShownInv, NEW m \in Moments, DeleteCommit(m)
  PROVE  ShownInv'
  <1>0. TypeOK /\ \A n \in Moments : JobOK(n) /\ ShownOK(n)
    BY DEF ShownInv
  <1>1. /\ moment' = [moment EXCEPT ![m] = "gone"]
        /\ status' = [status EXCEPT ![m] = "pending"] /\ sel' = [sel EXCEPT ![m] = 0]
        /\ versions' = [versions EXCEPT ![m] = {}]
        /\ current' = [current EXCEPT ![m] = 0]
        /\ UNCHANGED <<capture, job, exec, doubled>>
    BY DEF DeleteCommit
  <1>2. TypeOK'
    <2>1. /\ moment' \in [Moments -> {"none", "live", "gone"}]
          /\ status' \in [Moments -> {"pending", "processing", "completed", "failed", "skipped"}]
          /\ sel' \in [Moments -> Nat] /\ current' \in [Moments -> Nat]
      BY <1>0, <1>1 DEF TypeOK
    <2>2. versions' \in [Moments -> SUBSET (Nat \ {0})] /\ \A n \in Moments : IsFiniteSet(versions'[n])
      BY <1>0, <1>1, FS_EmptySet DEF TypeOK
    <2>3. /\ proposed' = [n \in Moments |-> proposed'[n]]
          /\ embedded' = [n \in Moments |-> embedded'[n]]
          /\ del' = [n \in Moments |-> del'[n]]
      BY <1>0 DEF TypeOK, DeleteCommit
    <2>4. /\ auto' \in [Moments -> BOOLEAN] /\ task' \in [Moments -> BOOLEAN]
          /\ raced' \in [Moments -> BOOLEAN]
      BY <1>0 DEF TypeOK, DeleteCommit, InFlight
    <2> QED
      BY <1>0, <1>1, <2>1, <2>2, <2>3, <2>4 DEF TypeOK
  <1>3. \A n \in Moments :
          \/ /\ moment'[n] = moment[n] /\ status'[n] = status[n] /\ sel'[n] = sel[n]
             /\ versions'[n] = versions[n] /\ current'[n] = current[n]
          \/ /\ moment'[n] = "gone" /\ status'[n] = "pending" /\ sel'[n] = 0
             /\ versions'[n] = {} /\ current'[n] = 0
    BY <1>0, <1>1 DEF TypeOK
  <1>4. \A n \in Moments : Onward(n) /\ ShownOK(n)'
    BY <1>0, <1>1, <1>3 DEF Onward, ShownOK
  <1> QED
    BY <1>1, <1>2, <1>4, ShownFrame
-----------------------------------------------------------------------------
(* What a moment shows: the queue and the enrichment *)

\* BullMQ moves a job on without undoing a failure or spending an attempt twice.
LEMMA QueueShown ==
  ASSUME ShownInv, NEW m \in Moments, NEW new \in JobType,
         job' = [job EXCEPT ![m] = new],
         job[m].state \in {"waiting", "active"}, new.state # "none",
         new.state \in {"waiting", "active"} => new.made < Attempts,
         exec' \in [Workers -> ExecType],
         \A w \in Workers : exec'[w] = exec[w] \/ CallOK(exec'[w]),
         raced' \in [Moments -> BOOLEAN], doubled' \in [Moments -> BOOLEAN],
         UNCHANGED <<moment, shown, derived, capture, sel, del>>
  PROVE  ShownInv'
  <1>0. TypeOK /\ \A n \in Moments : JobOK(n) /\ ShownOK(n)
    BY DEF ShownInv
  <1>1. /\ job' \in [Moments -> JobType] /\ job'[m] = new
        /\ \A n \in Moments : n # m => job'[n] = job[n]
    BY <1>0 DEF TypeOK
  <1>2. UNCHANGED <<moment, status, current, versions, proposed, embedded, auto, task,
                    capture, sel, del>>
    BY DEF shown, derived
  <1>3. TypeOK'
    BY <1>0, <1>1, <1>2 DEF TypeOK
  <1>4. JobOK(m)'
    BY <1>0, <1>1, <1>2 DEF JobOK
  <1>5. \A n \in Moments : Onward(n)
    BY <1>1, <1>2 DEF Onward
  <1> QED
    BY <1>1, <1>2, <1>3, <1>4, <1>5, ShownFrame

LEMMA TakeShown ==
  ASSUME ShownInv, NEW w \in Workers, NEW m \in Moments, Take(w, m)
  PROVE  ShownInv'
  <1>0. /\ TypeOK /\ JobOK(m) /\ exec \in [Workers -> ExecType]
        /\ raced \in [Moments -> BOOLEAN] /\ doubled \in [Moments -> BOOLEAN]
    BY DEF ShownInv, TypeOK
  <1> PICK j \in JobType : j = job[m]
    BY <1>0 DEF TypeOK
  <1> DEFINE new == [j EXCEPT !.state = "active", !.owner = w]
  <1>1. new \in JobType /\ new.state = "active" /\ new.made = j.made
    BY DEF JobType
  <1>2. /\ j.state = "waiting" /\ job' = [job EXCEPT ![m] = new]
        /\ exec' = [exec EXCEPT ![w] = At(m, "read")]
        /\ UNCHANGED <<moment, shown, derived, capture, sel, del>>
    BY CallRecords DEF Take, Pcs
  <1> HIDE DEF new
  <1>3. raced' \in [Moments -> BOOLEAN] /\ doubled' \in [Moments -> BOOLEAN]
    BY <1>0 DEF Take
  <1>4. job'[m] = new
    BY <1>0, <1>2 DEF TypeOK
  <1>5. At(m, "read") \in ExecType /\ CallOK(At(m, "read"))
    BY <1>1, <1>4, ConstantsOK DEF At, ExecType, Pcs, CallOK
  <1>6. /\ exec' \in [Workers -> ExecType]
        /\ \A v \in Workers : exec'[v] = exec[v] \/ CallOK(exec'[v])
    BY <1>0, <1>2, <1>5
  <1> QED
    BY <1>0, <1>1, <1>2, <1>3, <1>6, QueueShown DEF JobOK

LEMMA FinishShown ==
  ASSUME ShownInv, NEW w \in Workers, Finish(w)
  PROVE  ShownInv'
  <1> PICK m : m = exec[w].moment
    OBVIOUS
  <1>0. /\ exec \in [Workers -> ExecType] /\ exec[w].pc # "idle" /\ m \in Moments
        /\ job \in [Moments -> JobType] /\ job[m].state # "none" /\ JobOK(m)
        /\ raced \in [Moments -> BOOLEAN] /\ doubled \in [Moments -> BOOLEAN]
    <2>1. exec[w].pc # "idle"
      BY DEF Finish, FinishOk, FinishRetry, FinishUnlocked, ExecAt
    <2> QED
      BY <2>1, CallOf DEF ShownInv, TypeOK
  <1> PICK j \in JobType : j = job[m]
    BY <1>0
  <1>1. CASE FinishOk(w)
    <2> DEFINE new == [j EXCEPT !.state = "completed", !.owner = None]
    <2>1. new \in JobType /\ new.state = "completed"
      BY DEF JobType
    <2>2. /\ j.state = "active" /\ job' = [job EXCEPT ![m] = new]
          /\ exec' = [exec EXCEPT ![w] = IdleExec]
          /\ UNCHANGED <<moment, shown, derived, capture, sel, del, raced, doubled>>
      BY <1>1 DEF FinishOk, HoldsLock, ExecEnds, history
    <2> HIDE DEF new
    <2>3. IdleExec \in ExecType /\ CallOK(IdleExec)
      BY DEF IdleExec, ExecType, Pcs, CallOK
    <2>4. /\ exec' \in [Workers -> ExecType]
          /\ \A v \in Workers : exec'[v] = exec[v] \/ CallOK(exec'[v])
      BY <1>0, <2>2, <2>3
    <2> QED
      BY <1>0, <2>1, <2>2, <2>4, QueueShown
  <1>2. CASE FinishRetry(w)
    <2>1. PICK to \in {"failed", "waiting"} :
            to = (IF j.made + 1 >= Attempts THEN "failed" ELSE "waiting")
      BY DEF JobType
    <2>a. j.made \in Nat
      BY DEF JobType
    <2>b. PICK made \in Nat : made = j.made + 1
      BY <2>a
    <2> DEFINE new == [j EXCEPT !.made = made, !.owner = None, !.state = to]
    <2>c. new \in JobType /\ new.state = to /\ new.made = made
      BY DEF JobType
    <2>2. new \in JobType /\ new.state = to /\ new.made = j.made + 1 /\ j.made \in Nat
      BY <2>a, <2>b, <2>c
    <2>3. /\ j.state = "active" /\ job' = [job EXCEPT ![m] = new]
          /\ exec' = [exec EXCEPT ![w] = IdleExec] \/
               (/\ j.made + 1 >= Attempts
                /\ exec' = [exec EXCEPT ![w] = At(m, "mark")])
          /\ UNCHANGED <<moment, shown, derived, capture, sel, del, raced, doubled>>
      BY <1>0, <1>2, <2>1, <2>b, CallRecords DEF FinishRetry, HoldsLock, ExecEnds, ExecTo,
         Marks, MadeAll, Pcs, history
    <2> HIDE DEF new
    <2>4. j.made < Attempts
      BY <1>0, <2>3 DEF JobOK
    <2>5. job'[m] = new
      BY <1>0, <2>3
    <2>6. IdleExec \in ExecType /\ CallOK(IdleExec)
      BY DEF IdleExec, ExecType, Pcs, CallOK
    <2>7. /\ At(m, "mark") \in ExecType
          /\ j.made + 1 >= Attempts => CallOK(At(m, "mark"))
      BY <1>0, <2>1, <2>2, <2>4, <2>5, ConstantsOK DEF At, ExecType, Pcs, CallOK
    <2>8. /\ exec' \in [Workers -> ExecType]
          /\ \A v \in Workers : exec'[v] = exec[v] \/ CallOK(exec'[v])
      BY <1>0, <2>3, <2>6, <2>7
    <2>9. new.state \in {"waiting", "active"} => new.made < Attempts
      BY <2>1, <2>2, ConstantsOK
    <2> QED
      BY <1>0, <2>2, <2>3, <2>8, <2>9, QueueShown
  <1>3. CASE FinishUnlocked(w)
    <2>1. /\ exec' = [exec EXCEPT ![w] = IdleExec]
          /\ UNCHANGED <<moment, status, current, versions, proposed, embedded, auto, task,
                         capture, sel, del, job, raced, doubled>>
      BY <1>3 DEF FinishUnlocked, ExecEnds, shown, derived, history
    <2>2. /\ exec' \in [Workers -> ExecType]
          /\ \A v \in Workers : exec'[v] = exec[v] \/ CallOK(exec'[v])
      <3>1. "ok" \in Pcs \ {"idle", "finalize", "mark"}
        BY DEF Pcs
      <3> QED
        BY <1>0, <2>1, <3>1, CallGoesOn
    <2>3. TypeOK'
      BY <2>1, <2>2 DEF ShownInv, TypeOK
    <2> QED
      BY <2>1, <2>2, <2>3, QuietShown
  <1> QED
    BY <1>1, <1>2, <1>3 DEF Finish

LEMMA LockShown ==
  ASSUME ShownInv, NEW w \in Workers, LockExpires(w) \/ WorkerCrash(w)
  PROVE  ShownInv'
  <1> PICK m : m = exec[w].moment
    OBVIOUS
  <1>0. /\ exec \in [Workers -> ExecType] /\ exec[w].pc # "idle" /\ m \in Moments
        /\ job \in [Moments -> JobType] /\ job[m].state # "none" /\ JobOK(m)
        /\ raced \in [Moments -> BOOLEAN] /\ doubled \in [Moments -> BOOLEAN]
    <2>1. exec[w].pc # "idle"
      BY DEF LockExpires, WorkerCrash, ExecAt
    <2> QED
      BY <2>1, CallOf DEF ShownInv, TypeOK
  <1> PICK j \in JobType : j = job[m]
    BY <1>0
  <1>1. /\ exec' = exec \/ exec' = [exec EXCEPT ![w] = IdleExec]
        /\ job' = job \/ (j.state = "active" /\ job' = [job EXCEPT ![m].owner = None])
        /\ UNCHANGED <<moment, shown, derived, capture, sel, del, raced, doubled>>
    BY DEF LockExpires, WorkerCrash, HoldsLock, ExecEnds, history
  <1>2. IdleExec \in ExecType /\ CallOK(IdleExec)
    BY DEF IdleExec, ExecType, Pcs, CallOK
  <1>3. /\ exec' \in [Workers -> ExecType]
        /\ \A v \in Workers : exec'[v] = exec[v] \/ CallOK(exec'[v])
    BY <1>0, <1>1, <1>2
  <1>4. CASE job' = job
    <2>1. UNCHANGED <<status, current, versions, sel, job, moment, capture>>
      BY <1>1, <1>4 DEF shown
    <2>2. TypeOK'
      BY <1>1, <1>3, <1>4 DEF ShownInv, TypeOK, shown, derived
    <2> QED
      BY <1>3, <2>1, <2>2, QuietShown
  <1>5. CASE j.state = "active" /\ job' = [job EXCEPT ![m].owner = None]
    <2> DEFINE new == [j EXCEPT !.owner = None]
    <2>1. new \in JobType /\ new.state = "active" /\ new.made = j.made
      BY <1>5 DEF JobType
    <2>2. job' = [job EXCEPT ![m] = new]
      BY <1>5
    <2> HIDE DEF new
    <2> QED
      BY <1>0, <1>1, <1>3, <1>5, <2>1, <2>2, QueueShown DEF JobOK
  <1> QED
    BY <1>1, <1>4, <1>5

LEMMA StallShown ==
  ASSUME ShownInv, NEW m \in Moments, StallCheck(m)
  PROVE  ShownInv'
  <1>0. /\ exec \in [Workers -> ExecType] /\ job \in [Moments -> JobType] /\ JobOK(m)
        /\ raced \in [Moments -> BOOLEAN] /\ doubled \in [Moments -> BOOLEAN]
    BY DEF ShownInv, TypeOK
  <1> PICK j \in JobType : j = job[m]
    BY <1>0
  <1>1. /\ j.state = "active"
        /\ UNCHANGED <<moment, shown, derived, capture, sel, del, exec, raced, doubled>>
    BY DEF StallCheck, history
  <1>2. \E new \in JobType :
          /\ job' = [job EXCEPT ![m] = new]
          /\ new.state \in {"waiting", "failed"} /\ new.made = j.made
    <2>1. CASE j.stalls < MaxStalls
      <3>0. PICK stalls \in Nat : stalls = j.stalls + 1
        BY DEF JobType
      <3> DEFINE new == [j EXCEPT !.state = "waiting", !.stalls = stalls]
      <3>1. new \in JobType /\ new.state = "waiting" /\ new.made = j.made
        BY DEF JobType
      <3>2. job' = [job EXCEPT ![m] = new]
        BY <2>1, <3>0 DEF StallCheck
      <3> HIDE DEF new
      <3> QED
        BY <3>1, <3>2
    <2>2. CASE ~(j.stalls < MaxStalls)
      <3> DEFINE new == [j EXCEPT !.state = "failed"]
      <3>1. new \in JobType /\ new.state = "failed" /\ new.made = j.made
        BY DEF JobType
      <3>2. job' = [job EXCEPT ![m] = new]
        BY <2>2 DEF StallCheck
      <3> HIDE DEF new
      <3> QED
        BY <3>1, <3>2
    <2> QED
      BY <2>1, <2>2
  <1> QED
    BY <1>0, <1>1, <1>2, QueueShown DEF JobOK

\* The statements that leave what is shown alone.
LEMMA DraftShown ==
  ASSUME ShownInv, NEW w \in Workers,
         \/ ReadMoment(w) \/ CheckProposal(w) \/ Propose(w) \/ ClearVectors(w)
         \/ InsertVector(w) \/ DbError(w)
  PROVE  ShownInv'
  <1> PICK m : m = exec[w].moment
    OBVIOUS
  <1>0. /\ TypeOK /\ exec \in [Workers -> ExecType] /\ exec[w].pc # "idle" /\ m \in Moments
        /\ job[m].state # "none" /\ exec[w] \in ExecType
    <2>1. exec[w].pc # "idle"
      BY DEF ReadMoment, CheckProposal, Propose, ClearVectors, InsertVector, DbError, ExecAt
    <2> QED
      BY <2>1, CallOf DEF ShownInv
  <1>1. UNCHANGED <<moment, status, current, versions, auto, task, capture, sel, del, job,
                    raced, doubled>>
    BY DEF ReadMoment, CheckProposal, Propose, ClearVectors, InsertVector, DbError, shown,
           derived, history
  <1>2. /\ proposed' = [n \in Moments |-> proposed'[n]]
        /\ embedded' = [n \in Moments |-> embedded'[n]]
    <2>1. proposed' = proposed \/ \E S : proposed' = [proposed EXCEPT ![m] = S]
      BY DEF ReadMoment, CheckProposal, Propose, ClearVectors, InsertVector, DbError, derived
    <2>2. embedded' = embedded \/ \E S : embedded' = [embedded EXCEPT ![m] = S]
      BY DEF ReadMoment, CheckProposal, Propose, ClearVectors, InsertVector, DbError, derived
    <2> QED
      BY <1>0, <2>1, <2>2 DEF TypeOK
  <1>3. /\ exec' \in [Workers -> ExecType]
        /\ \A v \in Workers : exec'[v] = exec[v] \/ CallOK(exec'[v])
    <2>1. ASSUME NEW pc \in Pcs \ {"idle", "finalize", "mark"},
                 ExecTo(w, pc) \/ ExecEnds(w)
          PROVE  /\ exec' \in [Workers -> ExecType]
                 /\ \A v \in Workers : exec'[v] = exec[v] \/ CallOK(exec'[v])
      <3>1. \/ exec' = [exec EXCEPT ![w] = At(exec[w].moment, pc)]
            \/ exec' = [exec EXCEPT ![w] = IdleExec]
        BY <1>0, <2>1, CallRecords DEF ExecTo, ExecEnds
      <3> QED
        BY <1>0, <1>1, <3>1, CallGoesOn
    <2>2. CASE \E pc \in Pcs \ {"idle", "finalize", "mark"} : ExecTo(w, pc) \/ ExecEnds(w)
      BY <2>1, <2>2
    <2>3. ASSUME NEW absent \in BOOLEAN,
                 exec' = [exec EXCEPT ![w] = [@ EXCEPT !.pc = "propose", !.absent = absent]]
          PROVE  /\ exec' \in [Workers -> ExecType]
                 /\ \A v \in Workers : exec'[v] = exec[v] \/ CallOK(exec'[v])
      <3> DEFINE new == [exec[w] EXCEPT !.pc = "propose", !.absent = absent]
      <3>1. new \in ExecType /\ new.pc = "propose" /\ new.moment = m
        BY <1>0 DEF ExecType, Pcs
      <3>2. exec' = [exec EXCEPT ![w] = new]
        BY <2>3
      <3> HIDE DEF new
      <3>3. CallOK(new)
        BY <1>0, <1>1, <3>1, ConstantsOK DEF CallOK
      <3> QED
        BY <1>0, <3>1, <3>2, <3>3
    <2>4. CASE \E absent \in BOOLEAN :
                 exec' = [exec EXCEPT ![w] = [@ EXCEPT !.pc = "propose", !.absent = absent]]
      BY <2>3, <2>4
    <2>5. CASE ReadMoment(w)
      BY <2>2, <2>5 DEF ReadMoment, Pcs
    <2>6. CASE CheckProposal(w)
      BY <2>2, <2>4, <2>6 DEF CheckProposal, Exists, Pcs
    <2>7. CASE Propose(w)
      BY <2>2, <2>7 DEF Propose, Pcs
    <2>8. CASE ClearVectors(w)
      BY <2>2, <2>8 DEF ClearVectors, Pcs
    <2>9. CASE InsertVector(w)
      BY <2>2, <2>9 DEF InsertVector, Pcs
    <2>10. CASE DbError(w)
      BY <2>2, <2>10 DEF DbError, Pcs
    <2> QED
      BY <2>5, <2>6, <2>7, <2>8, <2>9, <2>10
  <1>4. TypeOK'
    BY <1>0, <1>1, <1>2, <1>3 DEF TypeOK
  <1> QED
    BY <1>1, <1>3, <1>4, QuietShown

LEMMA StatusShown ==
  ASSUME ShownInv, NEW w \in Workers, MarkProcessing(w) \/ MarkFailed(w)
  PROVE  ShownInv'
  <1> PICK m : m = exec[w].moment
    OBVIOUS
  <1>0. /\ TypeOK /\ exec \in [Workers -> ExecType] /\ exec[w].pc # "idle" /\ m \in Moments
        /\ job[m].state # "none" /\ ExecOK(w) /\ \A n \in Moments : ShownOK(n)
    <2>1. exec[w].pc # "idle"
      BY DEF MarkProcessing, MarkFailed, ExecAt
    <2> QED
      BY <2>1, CallOf DEF ShownInv
  <1>1. UNCHANGED <<moment, current, versions, proposed, embedded, auto, task, capture, sel,
                    del, job, raced, doubled>>
    BY DEF MarkProcessing, MarkFailed, derived, history
  <1>2. \E s \in {"processing", "failed"} :
          /\ status' = status \/ status' = [status EXCEPT ![m] = s]
          /\ s = "failed" => job[m].state = "failed" /\ job[m].made = Attempts
    BY <1>0 DEF MarkProcessing, MarkFailed, SetStatus, ExecAt, ExecOK
  <1>3. /\ exec' \in [Workers -> ExecType]
        /\ \A v \in Workers : exec'[v] = exec[v] \/ CallOK(exec'[v])
    <2>1. "check" \in Pcs \ {"idle", "finalize", "mark"}
      BY DEF Pcs
    <2>2. \/ exec' = [exec EXCEPT ![w] = At(exec[w].moment, "check")]
          \/ exec' = [exec EXCEPT ![w] = IdleExec]
      BY <1>0, <2>1, CallRecords DEF MarkProcessing, MarkFailed, ExecTo, ExecEnds
    <2> QED
      BY <1>0, <1>1, <2>1, <2>2, CallGoesOn
  <1>4. TypeOK'
    BY <1>0, <1>1, <1>2, <1>3 DEF TypeOK
  <1>5. \A n \in Moments : Onward(n)
    BY <1>1 DEF Onward
  <1>6. ASSUME NEW n \in Moments PROVE ShownOK(n)'
    <2>1. \/ status'[n] = status[n] \/ status'[n] = "processing"
          \/ status'[n] = "failed" /\ job[n].state = "failed" /\ job[n].made = Attempts
      BY <1>0, <1>2 DEF TypeOK
    <2> QED
      BY <1>0, <1>1, <2>1 DEF ShownOK
  <1> QED
    BY <1>1, <1>3, <1>4, <1>5, <1>6, ShownFrame

\* The next version is a number no selection takes for 'none'.
LEMMA AppendShown ==
  ASSUME ShownInv, NEW w \in Workers, AppendVersion(w)
  PROVE  ShownInv'
  <1> PICK m : m = exec[w].moment
    OBVIOUS
  <1>0. /\ TypeOK /\ exec \in [Workers -> ExecType] /\ exec[w].pc # "idle" /\ m \in Moments
        /\ job[m].state # "none" /\ exec[w] \in ExecType
        /\ \A n \in Moments : IsFiniteSet(versions[n])
    <2>1. exec[w].pc # "idle"
      BY DEF AppendVersion, ExecAt
    <2> QED
      BY <2>1, CallOf DEF ShownInv, TypeOK
  <1>1. UNCHANGED <<moment, status, current, proposed, embedded, auto, task, capture, sel,
                    del, job, raced, doubled>>
    BY DEF AppendVersion, derived, history
  <1>2. PICK next \in Nat \ {0} : next = NextVersion(m)
    BY <1>0, FS_CardinalityType DEF NextVersion
  <1>3. CASE /\ versions' = [versions EXCEPT ![m] = @ \cup {next}]
             /\ exec' = [exec EXCEPT ![w] = [@ EXCEPT !.pc = "finalize", !.version = next]]
    <2> DEFINE new == [exec[w] EXCEPT !.pc = "finalize", !.version = next]
    <2>1. new \in ExecType /\ new.pc = "finalize" /\ new.moment = m /\ new.version = next
      BY <1>0 DEF ExecType, Pcs
    <2>2. exec' = [exec EXCEPT ![w] = new]
      BY <1>3
    <2> HIDE DEF new
    <2>3. /\ versions' \in [Moments -> SUBSET (Nat \ {0})]
          /\ \A n \in Moments : versions'[n] = versions[n] \/ versions'[n] = versions[n] \cup {next}
          /\ next \in versions'[m]
      BY <1>0, <1>3 DEF TypeOK
    <2>4. ASSUME NEW n \in Moments PROVE IsFiniteSet(versions'[n])
      <3>1. IsFiniteSet(versions[n])
        BY <1>0
      <3>2. IsFiniteSet(versions[n] \cup {next})
        BY <3>1, FS_AddElement
      <3> QED
        BY <2>3, <3>1, <3>2
    <2>5. CallOK(new)
      BY <1>0, <1>1, <2>1, <2>3, ConstantsOK DEF CallOK
    <2>6. /\ exec' \in [Workers -> ExecType]
          /\ \A v \in Workers : exec'[v] = exec[v] \/ CallOK(exec'[v])
      BY <1>0, <2>1, <2>2, <2>5
    <2>7. TypeOK'
      BY <1>0, <1>1, <2>3, <2>4, <2>6 DEF TypeOK
    <2>8. \A n \in Moments : Onward(n) /\ versions[n] \subseteq versions'[n]
      BY <1>1, <2>3 DEF Onward
    <2> QED
      BY <1>1, <2>6, <2>7, <2>8, ShownFrame
  <1>4. CASE versions' = versions /\ ExecTo(w, "retry")
    <2>1. "retry" \in Pcs \ {"idle", "finalize", "mark"}
      BY DEF Pcs
    <2>2. exec' = [exec EXCEPT ![w] = At(exec[w].moment, "retry")]
      BY <1>0, <1>4, <2>1, CallRecords DEF ExecTo
    <2>3. /\ exec' \in [Workers -> ExecType]
          /\ \A v \in Workers : exec'[v] = exec[v] \/ CallOK(exec'[v])
      BY <1>0, <1>1, <2>1, <2>2, CallGoesOn
    <2>4. TypeOK'
      BY <1>0, <1>1, <1>4, <2>3 DEF TypeOK
    <2> QED
      BY <1>1, <1>4, <2>3, <2>4, QuietShown
  <1> QED
    BY <1>2, <1>3, <1>4 DEF AppendVersion

LEMMA FinalizeShown ==
  ASSUME ShownInv, NEW w \in Workers, Finalize(w)
  PROVE  ShownInv'
  <1> PICK m : m = exec[w].moment
    OBVIOUS
  <1> PICK v : v = exec[w].version
    OBVIOUS
  <1>0. /\ TypeOK /\ exec \in [Workers -> ExecType] /\ exec[w].pc = "finalize" /\ m \in Moments
        /\ job[m].state # "none" /\ exec[w] \in ExecType
        /\ moment[m] = "live" => v \in versions[m]
        /\ \A n \in Moments : ShownOK(n)
    <2>1. exec[w].pc = "finalize"
      BY DEF Finalize, ExecAt
    <2> QED
      BY <2>1, CallOf DEF ShownInv, ExecOK, IsLive
  <1>1. UNCHANGED <<moment, versions, proposed, embedded, auto, task, capture, sel, del, job,
                    raced, doubled>>
    BY DEF Finalize, derived, history
  <1>2. /\ v \in Nat
        /\ \/ status' = status /\ current' = current
           \/ /\ moment[m] = "live" /\ status' = [status EXCEPT ![m] = "completed"]
              /\ current' = [current EXCEPT ![m] = v]
    BY <1>0 DEF Finalize, SetStatus, IsLive, ExecType
  <1>3. /\ exec' \in [Workers -> ExecType]
        /\ \A u \in Workers : exec'[u] = exec[u] \/ CallOK(exec'[u])
    <2>1. PICK pc \in Pcs \ {"idle", "finalize", "mark"} : ExecTo(w, pc)
      BY DEF Finalize, Pcs
    <2>2. exec' = [exec EXCEPT ![w] = At(exec[w].moment, pc)]
      BY <1>0, <2>1, CallRecords DEF ExecTo
    <2> QED
      BY <1>0, <1>1, <2>2, CallGoesOn
  <1>4. /\ status' \in [Moments -> {"pending", "processing", "completed", "failed", "skipped"}]
        /\ current' \in [Moments -> Nat]
    BY <1>0, <1>2 DEF TypeOK
  <1>5. TypeOK'
    BY <1>0, <1>1, <1>3, <1>4 DEF TypeOK
  <1>6. \A n \in Moments : Onward(n)
    BY <1>1 DEF Onward
  <1>7. ASSUME NEW n \in Moments PROVE ShownOK(n)'
    <2>1. \/ status'[n] = status[n] /\ current'[n] = current[n]
          \/ /\ status'[n] = "completed" /\ current'[n] \in versions[n]
             /\ current'[n] \in Nat \ {0}
      BY <1>0, <1>2 DEF TypeOK
    <2> QED
      BY <1>0, <1>1, <2>1 DEF ShownOK
  <1> QED
    BY <1>1, <1>3, <1>5, <1>6, <1>7, ShownFrame

LEMMA InitShown == Init => ShownInv
  <1> SUFFICES ASSUME Init PROVE ShownInv
    OBVIOUS
  <1>1. TypeOK
    BY FS_EmptySet, CallRecords DEF Init, TypeOK, NoJob, JobType
  <1>2. \A m \in Moments : JobOK(m) /\ ShownOK(m)
    BY DEF Init, JobOK, ShownOK, NoJob
  <1>3. \A w \in Workers : ExecOK(w)
    BY DEF Init, ExecOK, IdleExec
  <1> QED
    BY <1>1, <1>2, <1>3 DEF ShownInv

LEMMA StepShown == ShownInv /\ [Next]_vars => ShownInv'
  <1> SUFFICES ASSUME ShownInv, [Next]_vars PROVE ShownInv'
    OBVIOUS
  <1>1. ASSUME NEW m \in Moments,
               \/ InsertMoment(m) \/ Capture(m) \/ CaptureDies(m)
               \/ \E v \in RowIds : SelectRead(m, v)
               \/ SelectWrite(m) \/ DeleteDerived(m) \/ DeleteEnds(m) \/ StallCheck(m)
        PROVE  ShownInv'
    BY <1>1, CaptureShown, EnqueueShown, SelectShown, CommitShown, StallShown
       DEF Capture, DeleteEnds
  <1>2. ASSUME NEW w \in Workers,
               \/ \E m \in Moments : Take(w, m)
               \/ Enrich(w) \/ Finish(w)
               \/ LockExpires(w) \/ WorkerCrash(w) \/ DbError(w)
        PROVE  ShownInv'
    BY <1>2, TakeShown, FinishShown, LockShown, DraftShown, StatusShown, AppendShown,
       FinalizeShown DEF Enrich
  <1>3. CASE UNCHANGED vars
    <2>1. TypeOK'
      BY <1>3 DEF ShownInv, TypeOK, vars
    <2> QED
      BY <1>3, <2>1, QuietShown DEF vars
  <1> QED
    BY <1>1, <1>2, <1>3 DEF Next

\* What a moment shows is true, whatever captures, selections, reruns, redeliveries,
\* deletions and failures overlap: the version it shows is on record, a completed
\* moment shows one, and a failed one has used its final attempt (enrich.ts,
\* worker.ts, routes-account.ts).
THEOREM ShownStaysTrue == Spec => []ShownIsTrue
  <1>1. ShownInv => ShownIsTrue
    BY DEF ShownInv, ShownOK, ShownIsTrue
  <1> QED
    BY <1>1, InitShown, StepShown, PTL DEF Spec
-----------------------------------------------------------------------------
(* What a step of a call does to the rows *)

SameRows(m) == proposed'[m] = proposed[m] /\ embedded'[m] = embedded[m]
Kind(w, new) ==
  LET m == exec[w].moment IN
  \/ new.pc \notin {"propose", "embed"} /\ SameRows(m)
  \/ new.pc = "propose" /\ (new.absent => proposed[m] = {}) /\ SameRows(m)
  \/ /\ exec[w].pc = "propose" /\ exec[w].absent /\ new.pc \notin {"propose", "embed"}
     /\ embedded'[m] = embedded[m] /\ \E r : proposed'[m] = proposed[m] \cup {r}
  \/ /\ exec[w].pc = "clear" /\ new.pc = "embed"
     /\ embedded'[m] = {} /\ proposed'[m] = proposed[m]
  \/ /\ exec[w].pc = "embed" /\ new.pc \notin {"propose", "embed"}
     /\ proposed'[m] = proposed[m] /\ \E r : embedded'[m] = embedded[m] \cup {r}

CallEffect(w, new) ==
  /\ exec' = [exec EXCEPT ![w] = new]
  /\ exec[w].moment \in Moments /\ new.moment \in {exec[w].moment, None}
  /\ UNCHANGED <<moment, del, raced, doubled, capture, auto, task>>
  /\ \A n \in Moments : n # exec[w].moment => SameRows(n)
  /\ exec[w].pc \in {"read", "retry", "mark"} =>
       /\ SameRows(exec[w].moment)
       /\ new.moment = None \/ new.pc \in {"retry", "mark"} \/ IsLive(exec[w].moment)
  /\ Kind(w, new)

\* A step of a call that touches no rows.
LEMMA PlainEffect ==
  ASSUME ShownInv, NEW w \in Workers, exec[w].pc # "idle",
         NEW pc \in Pcs \ {"propose", "embed"},
         ExecTo(w, pc) \/ ExecEnds(w),
         exec[w].pc \in {"read", "retry", "mark"} =>
           ExecEnds(w) \/ pc \in {"retry", "mark"} \/ IsLive(exec[w].moment),
         UNCHANGED <<moment, del, raced, doubled, capture, auto, task, proposed, embedded>>
  PROVE  \E new \in ExecType : CallEffect(w, new)
  <1> PICK m \in Moments : m = exec[w].moment
    BY CallOf
  <1>1. CASE ExecTo(w, pc) /\ ~ExecEnds(w)
    <2>1. /\ At(m, pc) \in ExecType /\ exec' = [exec EXCEPT ![w] = At(m, pc)]
      BY <1>1, CallRecords DEF ExecTo
    <2>2. At(m, pc).pc = pc /\ At(m, pc).moment = m
      BY DEF At
    <2>3. CallEffect(w, At(m, pc))
      BY <1>1, <2>1, <2>2 DEF CallEffect, Kind, SameRows
    <2> QED
      BY <2>1, <2>3
  <1>2. CASE ExecEnds(w)
    <2>1. IdleExec \in ExecType /\ IdleExec.pc = "idle" /\ IdleExec.moment = None
      BY CallRecords DEF At
    <2>2. CallEffect(w, IdleExec)
      BY <1>2, <2>1 DEF ExecEnds, CallEffect, Kind, SameRows
    <2> QED
      BY <2>1, <2>2
  <1> QED
    BY <1>1, <1>2

LEMMA CallEffects ==
  ASSUME ShownInv, NEW w \in Workers,
         Enrich(w) \/ Finish(w) \/ WorkerCrash(w) \/ DbError(w)
  PROVE  \E new \in ExecType : CallEffect(w, new)
  <1>0. exec[w].pc # "idle"
    BY DEF Enrich, Finish, WorkerCrash, DbError, ReadMoment, MarkProcessing, CheckProposal,
           Propose, ClearVectors, InsertVector, AppendVersion, Finalize, MarkFailed,
           FinishOk, FinishRetry, FinishUnlocked, ExecAt
  <1> PICK m \in Moments : m = exec[w].moment
    BY <1>0, CallOf
  <1>t. exec \in [Workers -> ExecType] /\ exec[w] \in ExecType
    BY CallOf
  <1>1. CASE ReadMoment(w)
    <2>1. \E pc \in {"processing", "retry"} : ExecTo(w, pc) /\ (pc = "processing" => IsLive(m))
      BY <1>1 DEF ReadMoment
    <2>2. UNCHANGED <<moment, del, raced, doubled, capture, auto, task, proposed, embedded>>
      BY <1>1 DEF ReadMoment, derived, history
    <2> QED
      BY <1>0, <2>1, <2>2, PlainEffect DEF Pcs
  <1>2. CASE MarkProcessing(w)
    <2>1. ExecTo(w, "check") /\ exec[w].pc = "processing"
      BY <1>2 DEF MarkProcessing, ExecAt
    <2>2. UNCHANGED <<moment, del, raced, doubled, capture, auto, task, proposed, embedded>>
      BY <1>2 DEF MarkProcessing, derived, history
    <2> QED
      BY <1>0, <2>1, <2>2, PlainEffect DEF Pcs
  <1>3. CASE CheckProposal(w)
    <2>0. exec[w].pc = "check"
      BY <1>3 DEF CheckProposal, ExecAt
    <2>1. UNCHANGED <<moment, del, raced, doubled, capture, auto, task, proposed, embedded>>
      BY <1>3 DEF CheckProposal, derived, history
    <2>2. CASE ExecTo(w, "clear")
      BY <1>0, <2>0, <2>1, <2>2, PlainEffect DEF Pcs
    <2>3. CASE exec' = [exec EXCEPT ![w] = [@ EXCEPT
                 !.pc = "propose", !.absent = ~Exists(exec[w].moment)]]
      <3>1. PICK absent \in BOOLEAN : absent = ~Exists(m)
        OBVIOUS
      <3> DEFINE new == [exec[w] EXCEPT !.pc = "propose", !.absent = absent]
      <3>2. new \in ExecType /\ new.pc = "propose" /\ new.moment = m /\ new.absent = absent
        BY <1>t DEF ExecType, Pcs
      <3>3. exec' = [exec EXCEPT ![w] = new]
        BY <2>3, <3>1
      <3> HIDE DEF new
      <3>4. CallEffect(w, new)
        BY <2>0, <2>1, <3>1, <3>2, <3>3 DEF CallEffect, Kind, SameRows, Exists
      <3> QED
        BY <3>2, <3>4
    <2> QED
      BY <1>3, <2>2, <2>3 DEF CheckProposal
  <1>4. CASE Propose(w)
    <2>0. /\ exec[w].pc = "propose" /\ embedded' = embedded
          /\ UNCHANGED <<moment, del, raced, doubled, capture, auto, task>>
      BY <1>4 DEF Propose, ExecAt, history
    <2>1. CASE proposed' = proposed
      <3>1. \E pc \in {"clear", "retry"} : ExecTo(w, pc)
        BY <1>4 DEF Propose
      <3> QED
        BY <1>0, <2>0, <2>1, <3>1, PlainEffect DEF Pcs
    <2>2. CASE proposed' # proposed
      <3>1. /\ exec[w].absent /\ ExecTo(w, "clear")
            /\ \E r : proposed' = [proposed EXCEPT ![m] = proposed[m] \cup {r}]
        BY <1>4, <2>2 DEF Propose
      <3>2. /\ At(m, "clear") \in ExecType /\ exec' = [exec EXCEPT ![w] = At(m, "clear")]
            /\ At(m, "clear").pc = "clear" /\ At(m, "clear").moment = m
        BY <3>1, CallRecords DEF ExecTo, At, Pcs
      <3>3. proposed = [n \in Moments |-> proposed[n]]
        BY DEF ShownInv, TypeOK
      <3>4. /\ \E r : proposed'[m] = proposed[m] \cup {r}
            /\ \A n \in Moments : n # m => SameRows(n)
        BY <2>0, <3>1, <3>3 DEF SameRows
      <3>5. CallEffect(w, At(m, "clear"))
        BY <2>0, <3>1, <3>2, <3>4 DEF CallEffect, Kind
      <3> QED
        BY <3>2, <3>5
    <2> QED
      BY <2>1, <2>2
  <1>5. CASE ClearVectors(w)
    <2>0. /\ exec[w].pc = "clear" /\ proposed' = proposed
          /\ UNCHANGED <<moment, del, raced, doubled, capture, auto, task>>
      BY <1>5 DEF ClearVectors, ExecAt, history
    <2>1. CASE embedded' = embedded /\ \E pc \in {"version", "retry"} : ExecTo(w, pc)
      BY <1>0, <2>0, <2>1, PlainEffect DEF Pcs
    <2>2. CASE embedded' = [embedded EXCEPT ![m] = {}] /\ ExecTo(w, "embed")
      <3>2. /\ At(m, "embed") \in ExecType /\ exec' = [exec EXCEPT ![w] = At(m, "embed")]
            /\ At(m, "embed").pc = "embed" /\ At(m, "embed").moment = m
        BY <2>2, CallRecords DEF ExecTo, At, Pcs
      <3>3. embedded = [n \in Moments |-> embedded[n]]
        BY DEF ShownInv, TypeOK
      <3>4. embedded'[m] = {} /\ \A n \in Moments : n # m => SameRows(n)
        BY <2>0, <2>2, <3>3 DEF SameRows
      <3>5. CallEffect(w, At(m, "embed"))
        BY <2>0, <3>2, <3>4 DEF CallEffect, Kind
      <3> QED
        BY <3>2, <3>5
    <2> QED
      BY <1>5, <2>1, <2>2 DEF ClearVectors, Cleared
  <1>6. CASE InsertVector(w)
    <2>0. /\ exec[w].pc = "embed" /\ proposed' = proposed /\ ExecTo(w, "version")
          /\ UNCHANGED <<moment, del, raced, doubled, capture, auto, task>>
          /\ \E r : embedded' = [embedded EXCEPT ![m] = embedded[m] \cup {r}]
      BY <1>6 DEF InsertVector, ExecAt, history
    <2>1. /\ At(m, "version") \in ExecType /\ exec' = [exec EXCEPT ![w] = At(m, "version")]
          /\ At(m, "version").pc = "version" /\ At(m, "version").moment = m
      BY <2>0, CallRecords DEF ExecTo, At, Pcs
    <2>2. embedded = [n \in Moments |-> embedded[n]]
      BY DEF ShownInv, TypeOK
    <2>3. /\ \E r : embedded'[m] = embedded[m] \cup {r}
          /\ \A n \in Moments : n # m => SameRows(n)
      BY <2>0, <2>2 DEF SameRows
    <2>4. CallEffect(w, At(m, "version"))
      BY <2>0, <2>1, <2>3 DEF CallEffect, Kind
    <2> QED
      BY <2>1, <2>4
  <1>7. CASE AppendVersion(w)
    <2>0. /\ exec[w].pc = "version"
          /\ UNCHANGED <<moment, del, raced, doubled, capture, auto, task, proposed, embedded>>
      BY <1>7 DEF AppendVersion, ExecAt, derived, history
    <2>1. CASE ExecTo(w, "retry")
      BY <1>0, <2>0, <2>1, PlainEffect DEF Pcs
    <2>2. CASE exec' = [exec EXCEPT ![w] = [@ EXCEPT
                 !.pc = "finalize", !.version = NextVersion(exec[w].moment)]]
      <3>1. PICK next \in Nat : next = NextVersion(m)
        BY FS_CardinalityType DEF ShownInv, TypeOK, NextVersion
      <3> DEFINE new == [exec[w] EXCEPT !.pc = "finalize", !.version = next]
      <3>2. new \in ExecType /\ new.pc = "finalize" /\ new.moment = m
        BY <1>t DEF ExecType, Pcs
      <3>3. exec' = [exec EXCEPT ![w] = new]
        BY <2>2, <3>1
      <3> HIDE DEF new
      <3>4. CallEffect(w, new)
        BY <2>0, <3>2, <3>3 DEF CallEffect, Kind, SameRows
      <3> QED
        BY <3>2, <3>4
    <2> QED
      BY <1>7, <2>1, <2>2 DEF AppendVersion
  <1>8. CASE Finalize(w)
    <2>1. /\ exec[w].pc = "finalize" /\ \E pc \in {"ok", "retry"} : ExecTo(w, pc)
          /\ UNCHANGED <<moment, del, raced, doubled, capture, auto, task, proposed, embedded>>
      BY <1>8 DEF Finalize, ExecAt, derived, history
    <2> QED
      BY <1>0, <2>1, PlainEffect DEF Pcs
  <1>9. CASE MarkFailed(w) \/ FinishOk(w) \/ FinishUnlocked(w) \/ WorkerCrash(w)
    <2>1. /\ ExecEnds(w) /\ "idle" \in Pcs \ {"propose", "embed"}
          /\ UNCHANGED <<moment, del, raced, doubled, capture, auto, task, proposed, embedded>>
      BY <1>9 DEF MarkFailed, FinishOk, FinishUnlocked, WorkerCrash, derived, history, Pcs
    <2> QED
      BY <1>0, <2>1, PlainEffect
  <1>10. CASE FinishRetry(w) \/ DbError(w)
    <2>1. /\ ExecEnds(w) \/ ExecTo(w, "mark") \/ ExecTo(w, "retry")
          /\ UNCHANGED <<moment, del, raced, doubled, capture, auto, task, proposed, embedded>>
      BY <1>10 DEF FinishRetry, DbError, derived, history
    <2> QED
      BY <1>0, <2>1, PlainEffect DEF Pcs
  <1> QED
    BY <1>1, <1>2, <1>3, <1>4, <1>5, <1>6, <1>7, <1>8, <1>9, <1>10 DEF Enrich, Finish
-----------------------------------------------------------------------------
(* One vector, one proposal *)

\* The steps in which no call moves and no row appears.
LEMMA QuietOne ==
  ASSUME OneInv, exec' = exec, doubled' = doubled,
         \A n \in Moments : /\ proposed'[n] \subseteq proposed[n]
                            /\ embedded'[n] \subseteq embedded[n]
  PROVE  \A n \in Moments : OneOK(n)'
  <1> SUFFICES ASSUME NEW n \in Moments PROVE OneOK(n)'
    OBVIOUS
  <1>1. OneOK(n)
    BY DEF OneInv
  <1> QED
    BY <1>1 DEF OneOK, Alone, AtMostOne

LEMMA CallOne ==
  ASSUME OneInv, NEW w \in Workers, NEW new \in ExecType, CallEffect(w, new)
  PROVE  \A n \in Moments : OneOK(n)'
  <1>0. /\ exec \in [Workers -> ExecType] /\ exec'[w] = new
        /\ \A v \in Workers : v # w => exec'[v] = exec[v]
        /\ doubled' = doubled
    BY DEF OneInv, ShownInv, TypeOK, CallEffect
  <1> PICK m \in Moments : m = exec[w].moment /\ new.moment \in {m, None}
    BY DEF CallEffect
  <1>1. ASSUME NEW n \in Moments, n # m PROVE OneOK(n)'
    <2>1. OneOK(n) /\ SameRows(n)
      BY <1>1 DEF OneInv, CallEffect
    <2>2. new.moment # n
      BY <1>1, ConstantsOK
    <2> QED
      BY <1>0, <2>1, <2>2 DEF OneOK, Alone, SameRows
  <1>2. OneOK(m)'
    <2> SUFFICES ASSUME ~doubled[m]
                 PROVE  /\ Alone(m)' /\ AtMostOne(proposed'[m]) /\ AtMostOne(embedded'[m])
                        /\ \A v \in Workers : exec'[v].moment = m =>
                             /\ exec'[v].pc = "propose" /\ exec'[v].absent => proposed'[m] = {}
                             /\ exec'[v].pc = "embed" => embedded'[m] = {}
      BY <1>0 DEF OneOK, AtMostOne
    <2>1. /\ \A v \in Workers : exec[v].moment = m => v = w
          /\ AtMostOne(proposed[m]) /\ AtMostOne(embedded[m])
          /\ exec[w].pc = "propose" /\ exec[w].absent => proposed[m] = {}
          /\ exec[w].pc = "embed" => embedded[m] = {}
      BY DEF OneInv, OneOK, Alone
    <2>2. \A v \in Workers : exec'[v].moment = m => v = w
      BY <1>0, <2>1
    <2>3. Kind(w, new)
      BY DEF CallEffect
    <2>4. AtMostOne(proposed'[m]) /\ AtMostOne(embedded'[m])
      BY <2>1, <2>3 DEF Kind, SameRows, AtMostOne
    <2>5. /\ new.pc = "propose" /\ new.absent => proposed'[m] = {}
          /\ new.pc = "embed" => embedded'[m] = {}
      BY <2>1, <2>3 DEF Kind, SameRows
    <2> QED
      BY <1>0, <2>2, <2>4, <2>5 DEF Alone
  <1> QED
    BY <1>1, <1>2

LEMMA TakeOne ==
  ASSUME OneInv, NEW w \in Workers, NEW m \in Moments, Take(w, m)
  PROVE  \A n \in Moments : OneOK(n)'
  <1>0. /\ exec \in [Workers -> ExecType] /\ doubled \in [Moments -> BOOLEAN]
        /\ ExecOK(w) /\ exec[w].pc = "idle"
    BY DEF OneInv, ShownInv, TypeOK, Take, ExecAt
  <1>1. /\ exec' = [exec EXCEPT ![w] = At(m, "read")] /\ At(m, "read") \in ExecType
        /\ UNCHANGED <<proposed, embedded>>
        /\ doubled' = [doubled EXCEPT ![m] = @ \/ \E v \in Workers : exec[v].moment = m]
    BY CallRecords DEF Take, derived, Pcs
  <1>2. /\ exec'[w] = At(m, "read") /\ \A v \in Workers : v # w => exec'[v] = exec[v]
        /\ At(m, "read").pc = "read" /\ At(m, "read").moment = m
    BY <1>0, <1>1 DEF At
  <1>3. SUFFICES ASSUME NEW n \in Moments PROVE OneOK(n)'
    OBVIOUS
  <1>4. OneOK(n)
    BY DEF OneInv
  <1>5. CASE n # m
    <2>1. doubled'[n] = doubled[n]
      BY <1>0, <1>1, <1>5
    <2> QED
      BY <1>1, <1>2, <1>4, <1>5, <2>1 DEF OneOK, Alone, AtMostOne
  <1>6. CASE n = m
    <2>1. ~doubled'[m] => ~doubled[m] /\ \A v \in Workers : exec[v].moment # m
      BY <1>0, <1>1
    <2> QED
      BY <1>1, <1>2, <1>4, <1>6, <2>1 DEF OneOK, Alone, AtMostOne
  <1> QED
    BY <1>5, <1>6

LEMMA MomentOne ==
  ASSUME OneInv, NEW m \in Moments,
         \/ InsertMoment(m) \/ Capture(m) \/ CaptureDies(m)
         \/ \E v \in RowIds : SelectRead(m, v)
         \/ SelectWrite(m) \/ DeleteDerived(m) \/ DeleteEnds(m) \/ StallCheck(m)
         \/ \E w \in Workers : LockExpires(w)
  PROVE  \A n \in Moments : OneOK(n)'
  <1>1. exec' = exec /\ doubled' = doubled
    BY DEF InsertMoment, Capture, CaptureDies, SelectRead, SelectWrite, DeleteDerived, DeleteEnds,
           DeleteCommit, DeleteRollback, StallCheck, LockExpires, Enqueue, MarkSkipped,
           AutoAction, AutoTask, history
  <1>2. CASE DeleteCommit(m)
    <2>1. /\ proposed' = [proposed EXCEPT ![m] = @ \ del[m].proposed]
          /\ embedded' = [embedded EXCEPT ![m] = @ \ del[m].embedded]
          /\ proposed = [n \in Moments |-> proposed[n]]
          /\ embedded = [n \in Moments |-> embedded[n]]
      BY <1>2 DEF DeleteCommit, OneInv, ShownInv, TypeOK
    <2>2. \A n \in Moments : /\ proposed'[n] \subseteq proposed[n]
                             /\ embedded'[n] \subseteq embedded[n]
      BY <2>1
    <2> QED
      BY <1>1, <2>2, QuietOne
  <1>3. CASE ~DeleteCommit(m)
    <2>1. proposed' = proposed /\ embedded' = embedded
      BY <1>3 DEF InsertMoment, Capture, CaptureDies, SelectRead, SelectWrite, DeleteDerived,
           DeleteEnds, DeleteRollback, StallCheck, LockExpires, Enqueue, MarkSkipped,
           AutoAction, AutoTask, derived
    <2> QED
      BY <1>1, <2>1, QuietOne
  <1> QED
    BY <1>2, <1>3

LEMMA OneKept == Spec => []OneInv
  <1>1. Init => OneInv
    <2> SUFFICES ASSUME Init, NEW m \in Moments PROVE OneOK(m)
      BY InitShown DEF OneInv
    <2>1. \A w \in Workers : exec[w].moment # m
      BY ConstantsOK DEF Init, IdleExec
    <2> QED
      BY <2>1 DEF Init, OneOK, Alone, AtMostOne
  <1>2. OneInv /\ [Next]_vars => OneInv'
    <2> SUFFICES ASSUME OneInv, [Next]_vars PROVE OneInv'
      OBVIOUS
    <2>1. ShownInv /\ ShownInv'
      BY StepShown DEF OneInv
    <2>2. CASE UNCHANGED vars
      BY <2>1, <2>2, QuietOne DEF OneInv, vars
    <2>3. ASSUME NEW m \in Moments,
                 \/ InsertMoment(m) \/ Capture(m) \/ CaptureDies(m)
                 \/ \E v \in RowIds : SelectRead(m, v)
                 \/ SelectWrite(m) \/ DeleteDerived(m) \/ DeleteEnds(m) \/ StallCheck(m)
          PROVE  OneInv'
      BY <2>1, <2>3, MomentOne DEF OneInv
    <2>4. ASSUME NEW w \in Workers, NEW m \in Moments, Take(w, m) PROVE OneInv'
      BY <2>1, <2>4, TakeOne DEF OneInv
    <2>5. ASSUME NEW w \in Workers, Enrich(w) \/ Finish(w) \/ WorkerCrash(w) \/ DbError(w)
          PROVE  OneInv'
      <3>1. PICK new \in ExecType : CallEffect(w, new)
        BY <2>1, <2>5, CallEffects
      <3> QED
        BY <2>1, <3>1, CallOne DEF OneInv
    <2>6. ASSUME NEW w \in Workers, LockExpires(w) PROVE OneInv'
      <3>1. exec' = exec /\ doubled' = doubled /\ proposed' = proposed /\ embedded' = embedded
        BY <2>6 DEF LockExpires, derived, history
      <3> QED
        BY <2>1, <3>1, QuietOne DEF OneInv
    <2> QED
      BY <2>2, <2>3, <2>4, <2>5, <2>6 DEF Next
  <1> QED
    BY <1>1, <1>2, PTL DEF Spec

LEMMA Single ==
  ASSUME NEW S, AtMostOne(S)
  PROVE  Cardinality(S) <= 1
  <1>1. CASE S = {}
    BY <1>1, FS_EmptySet
  <1>2. CASE S # {}
    <2>1. PICK x \in S : TRUE
      BY <1>2
    <2>2. \A y \in S : y = x
      BY <2>1 DEF AtMostOne
    <2>3. S = {x}
      BY <2>1, <2>2
    <2>4. Cardinality({x}) = 1
      BY FS_Singleton
    <2> QED
      BY <2>3, <2>4
  <1> QED
    BY <1>1, <1>2

\* "One vector per moment" and "deduped per moment+title" hold through crashes,
\* retries and redeliveries of any number of jobs: a second row needs two calls of
\* the same enrichment that overlap (enrich.ts).
THEOREM OneRowEach == Spec => []OneOfEach
  <1>1. OneInv => OneOfEach
    BY Single DEF OneInv, OneOK, OneOfEach
  <1> QED
    BY <1>1, OneKept, PTL
-----------------------------------------------------------------------------
(* What a deletion leaves *)

\* A step that leaves a moment's deletion and rows alone and brings nothing near it.
LEMMA RaceAway ==
  ASSUME RaceInv, NEW n \in Moments,
         moment'[n] = moment[n], del'[n] = del[n], raced'[n] = raced[n], SameRows(n),
         auto'[n] = auto[n], task'[n] = task[n], capture[n] = "done" => capture'[n] = "done",
         \A w \in Workers : exec'[w].moment = n =>
           /\ exec[w].moment = n
           /\ exec[w].pc \in {"read", "retry", "mark"} =>
                exec'[w].pc \in {"read", "retry", "mark"} \/ IsLive(n)
  PROVE  RaceOK(n)'
  <1>1. RaceOK(n)
    BY DEF RaceInv
  <1>2. ~InFlight(n) => ~InFlight(n)'
    BY DEF InFlight, CaptureAt
  <1> QED
    BY <1>1, <1>2 DEF RaceOK, SameRows, Empty, CaptureAt, IsLive

LEMMA CallRace ==
  ASSUME RaceInv, NEW w \in Workers, NEW new \in ExecType, CallEffect(w, new)
  PROVE  \A n \in Moments : RaceOK(n)'
  <1>0. /\ exec \in [Workers -> ExecType] /\ exec'[w] = new
        /\ \A v \in Workers : v # w => exec'[v] = exec[v]
        /\ UNCHANGED <<moment, del, raced, capture, auto, task>>
    BY DEF RaceInv, ShownInv, TypeOK, CallEffect
  <1> PICK m \in Moments : m = exec[w].moment /\ new.moment \in {m, None}
    BY DEF CallEffect
  <1>1. ASSUME NEW n \in Moments, n # m PROVE RaceOK(n)'
    <2>1. SameRows(n)
      BY <1>1 DEF CallEffect
    <2>2. new.moment # n
      BY <1>1, ConstantsOK
    <2> QED
      BY <1>0, <2>1, <2>2, RaceAway
  <1>2. CASE /\ exec[w].pc \in {"read", "retry", "mark"} /\ SameRows(m)
             /\ new.moment = None \/ new.pc \in {"retry", "mark"} \/ IsLive(m)
    <2>1. RaceOK(m)'
      BY <1>0, <1>2, ConstantsOK, RaceAway
    <2> QED
      BY <1>1, <2>1
  <1>3. CASE exec[w].pc \notin {"read", "retry", "mark"}
    <2>1. RaceOK(m) /\ InFlight(m)
      BY DEF RaceInv, InFlight
    <2>2. raced[m] \/ (~del[m].open /\ moment[m] # "gone")
      BY <1>3, <2>1 DEF RaceOK
    <2>3. RaceOK(m)'
      BY <1>0, <2>1, <2>2 DEF RaceOK, IsLive
    <2> QED
      BY <1>1, <2>3
  <1> QED
    BY <1>2, <1>3 DEF CallEffect

LEMMA TakeRace ==
  ASSUME RaceInv, NEW w \in Workers, NEW m \in Moments, Take(w, m)
  PROVE  \A n \in Moments : RaceOK(n)'
  <1>0. /\ exec \in [Workers -> ExecType] /\ raced \in [Moments -> BOOLEAN]
    BY DEF RaceInv, ShownInv, TypeOK
  <1>1. /\ exec' = [exec EXCEPT ![w] = At(m, "read")] /\ At(m, "read") \in ExecType
        /\ UNCHANGED <<moment, proposed, embedded, auto, task, del, capture>>
        /\ raced' = [raced EXCEPT ![m] = @ \/ del[m].open]
    BY CallRecords DEF Take, derived, Pcs
  <1>2. /\ exec'[w] = At(m, "read") /\ \A v \in Workers : v # w => exec'[v] = exec[v]
        /\ At(m, "read").pc = "read" /\ At(m, "read").moment = m
    BY <1>0, <1>1 DEF At
  <1>3. ASSUME NEW n \in Moments, n # m PROVE RaceOK(n)'
    <2>1. raced'[n] = raced[n]
      BY <1>0, <1>1, <1>3
    <2> QED
      BY <1>1, <1>2, <1>3, <2>1, RaceAway DEF SameRows
  <1>4. RaceOK(m)'
    <2>1. RaceOK(m)
      BY DEF RaceInv
    <2>2. ~raced'[m] => ~raced[m] /\ ~del[m].open
      BY <1>0, <1>1
    <2> QED
      BY <1>1, <1>2, <2>1, <2>2 DEF RaceOK, IsLive, CaptureAt, Empty
  <1> QED
    BY <1>3, <1>4

\* The capture: while it runs, a deletion of its moment overlaps it.
LEMMA CaptureRace ==
  ASSUME RaceInv, NEW m \in Moments, InsertMoment(m) \/ Capture(m) \/ CaptureDies(m)
  PROVE  \A n \in Moments : RaceOK(n)'
  <1>0. capture[m] # "done"
    BY DEF InsertMoment, Capture, CaptureDies, Enqueue, MarkSkipped, AutoAction, AutoTask, CaptureAt
  <1>1. /\ UNCHANGED <<proposed, embedded, del, exec, raced>>
        /\ \E pc : capture' = [capture EXCEPT ![m] = pc]
        /\ moment' = moment \/ moment' = [moment EXCEPT ![m] = "live"]
        /\ auto' = auto \/ auto' = [auto EXCEPT ![m] = TRUE]
        /\ task' = task \/ task' = [task EXCEPT ![m] = TRUE]
    BY DEF InsertMoment, Capture, CaptureDies, Enqueue, MarkSkipped, AutoAction, AutoTask,
           CaptureTo, derived, history
  <1>2. /\ moment \in [Moments -> {"none", "live", "gone"}]
        /\ auto \in [Moments -> BOOLEAN] /\ task \in [Moments -> BOOLEAN]
        /\ capture \in [Moments -> {"new", "enqueue", "skip", "action", "task", "done"}]
    BY DEF RaceInv, ShownInv, TypeOK
  <1>3. ASSUME NEW n \in Moments, n # m PROVE RaceOK(n)'
    <2>1. /\ moment'[n] = moment[n] /\ auto'[n] = auto[n] /\ task'[n] = task[n]
          /\ capture'[n] = capture[n]
      BY <1>1, <1>2, <1>3
    <2> QED
      BY <1>1, <2>1, RaceAway DEF SameRows
  <1>4. RaceOK(m)'
    <2>1. RaceOK(m) /\ InFlight(m)
      BY <1>0 DEF RaceInv, InFlight, CaptureAt
    <2>2. raced[m] \/ (~del[m].open /\ moment[m] # "gone")
      BY <1>0, <2>1 DEF RaceOK, CaptureAt
    <2>3. moment'[m] = moment[m] \/ moment'[m] = "live"
      BY <1>1, <1>2
    <2> QED
      BY <1>1, <2>1, <2>2, <2>3 DEF RaceOK, IsLive
  <1> QED
    BY <1>3, <1>4

\* The deletion itself: its two steps look for what is in flight.
LEMMA DeleteRace ==
  ASSUME RaceInv, NEW m \in Moments, DeleteDerived(m) \/ DeleteEnds(m)
  PROVE  \A n \in Moments : RaceOK(n)'
  <1>0. /\ moment \in [Moments -> {"none", "live", "gone"}]
        /\ auto \in [Moments -> BOOLEAN] /\ task \in [Moments -> BOOLEAN]
        /\ raced \in [Moments -> BOOLEAN] /\ del = [n \in Moments |-> del[n]]
        /\ proposed = [n \in Moments |-> proposed[n]]
        /\ embedded = [n \in Moments |-> embedded[n]]
        /\ RaceOK(m)
    BY DEF RaceInv, ShownInv, TypeOK
  <1>1. exec' = exec /\ capture' = capture
    BY DEF DeleteDerived, DeleteEnds, DeleteCommit, DeleteRollback
  <1>2. InFlight(m)' <=> InFlight(m)
    BY <1>1 DEF InFlight, CaptureAt
  <1>3. CASE DeleteDerived(m)
    <2>1. /\ del' = [del EXCEPT ![m] = RowsNow(m)] /\ raced' = [raced EXCEPT ![m] = InFlight(m)]
          /\ UNCHANGED <<moment, proposed, embedded, auto, task>> /\ moment[m] = "live"
      BY <1>3 DEF DeleteDerived, derived, IsLive
    <2>2. ASSUME NEW n \in Moments, n # m PROVE RaceOK(n)'
      <3>1. del'[n] = del[n] /\ raced'[n] = raced[n]
        BY <1>0, <2>1, <2>2
      <3> QED
        BY <1>1, <2>1, <3>1, RaceAway DEF SameRows
    <2>3. RaceOK(m)'
      <3>1. del'[m] = RowsNow(m) /\ raced'[m] = InFlight(m)
        BY <1>0, <2>1
      <3> QED
        BY <1>2, <2>1, <3>1 DEF RaceOK, RowsNow, IsLive
    <2> QED
      BY <2>2, <2>3
  <1>4. CASE DeleteRollback(m)
    <2>1. /\ del' = [del EXCEPT ![m] = NoDeletion] /\ del[m].open
          /\ UNCHANGED <<moment, proposed, embedded, auto, task, raced>>
      BY <1>4 DEF DeleteRollback, derived, history
    <2>2. ASSUME NEW n \in Moments, n # m PROVE RaceOK(n)'
      <3>1. del'[n] = del[n]
        BY <1>0, <2>1, <2>2
      <3> QED
        BY <1>1, <2>1, <3>1, RaceAway DEF SameRows
    <2>3. RaceOK(m)'
      <3>1. ~del'[m].open
        BY <1>0, <2>1 DEF NoDeletion
      <3>2. moment'[m] = "live"
        BY <1>0, <2>1 DEF RaceOK, IsLive
      <3> QED
        BY <3>1, <3>2 DEF RaceOK
    <2> QED
      BY <2>2, <2>3
  <1>5. CASE DeleteCommit(m)
    <2>1. /\ del' = [del EXCEPT ![m] = NoDeletion] /\ del[m].open
          /\ moment' = [moment EXCEPT ![m] = "gone"]
          /\ raced' = [raced EXCEPT ![m] = raced[m] \/ InFlight(m)]
      BY <1>5 DEF DeleteCommit
    <2>2. /\ proposed' = [proposed EXCEPT ![m] = proposed[m] \ del[m].proposed]
          /\ embedded' = [embedded EXCEPT ![m] = embedded[m] \ del[m].embedded]
          /\ auto' = [auto EXCEPT ![m] = auto[m] /\ ~del[m].auto]
          /\ task' = [task EXCEPT ![m] = task[m] /\ ~del[m].task]
      BY <1>5 DEF DeleteCommit
    <2>3. ASSUME NEW n \in Moments, n # m PROVE RaceOK(n)'
      <3>1. /\ del'[n] = del[n] /\ moment'[n] = moment[n] /\ raced'[n] = raced[n]
            /\ proposed'[n] = proposed[n] /\ embedded'[n] = embedded[n]
            /\ auto'[n] = auto[n] /\ task'[n] = task[n]
        BY <1>0, <2>1, <2>2, <2>3
      <3> QED
        BY <1>1, <3>1, RaceAway DEF SameRows
    <2>4. RaceOK(m)'
      <3>1. ~del'[m].open /\ (~raced'[m] => ~raced[m] /\ ~InFlight(m))
        BY <1>0, <2>1 DEF NoDeletion
      <3>2. ~raced'[m] => Empty(m)'
        <4>1. SUFFICES ASSUME ~raced[m] PROVE Empty(m)'
          BY <3>1
        <4>2. /\ del[m].proposed = proposed[m] /\ del[m].embedded = embedded[m]
              /\ del[m].auto = auto[m] /\ del[m].task = task[m]
          BY <1>0, <2>1, <4>1 DEF RaceOK
        <4>3. proposed'[m] = {} /\ embedded'[m] = {}
          BY <1>0, <2>2, <4>2
        <4>4. ~auto'[m] /\ ~task'[m]
          BY <1>0, <2>2, <4>2
        <4> QED
          BY <4>3, <4>4 DEF Empty
      <3> QED
        BY <1>1, <3>1, <3>2 DEF RaceOK, InFlight, CaptureAt
    <2> QED
      BY <2>3, <2>4
  <1> QED
    BY <1>3, <1>4, <1>5 DEF DeleteEnds

LEMMA RaceKept == Spec => []RaceInv
  <1>1. Init => RaceInv
    <2> SUFFICES ASSUME Init, NEW m \in Moments PROVE RaceOK(m)
      BY InitShown DEF RaceInv
    <2> QED
      BY DEF Init, RaceOK, NoDeletion
  <1>2. RaceInv /\ [Next]_vars => RaceInv'
    <2> SUFFICES ASSUME RaceInv, [Next]_vars PROVE RaceInv'
      OBVIOUS
    <2>1. ShownInv /\ ShownInv'
      BY StepShown DEF RaceInv
    <2>2. ASSUME UNCHANGED <<moment, proposed, embedded, auto, task, capture, del, exec, raced>>
          PROVE  RaceInv'
      BY <2>1, <2>2, RaceAway DEF RaceInv, SameRows
    <2>3. ASSUME NEW m \in Moments,
                 \/ \E v \in RowIds : SelectRead(m, v)
                 \/ SelectWrite(m) \/ StallCheck(m)
          PROVE  RaceInv'
      BY <2>2, <2>3 DEF SelectRead, SelectWrite, StallCheck, derived, history
    <2>4. ASSUME NEW m \in Moments,
                 \/ InsertMoment(m) \/ Capture(m) \/ CaptureDies(m)
                 \/ DeleteDerived(m) \/ DeleteEnds(m)
          PROVE  RaceInv'
      BY <2>1, <2>4, CaptureRace, DeleteRace DEF RaceInv
    <2>5. ASSUME NEW w \in Workers, NEW m \in Moments, Take(w, m) PROVE RaceInv'
      BY <2>1, <2>5, TakeRace DEF RaceInv
    <2>6. ASSUME NEW w \in Workers, Enrich(w) \/ Finish(w) \/ WorkerCrash(w) \/ DbError(w)
          PROVE  RaceInv'
      <3>1. PICK new \in ExecType : CallEffect(w, new)
        BY <2>1, <2>6, CallEffects
      <3> QED
        BY <2>1, <3>1, CallRace DEF RaceInv
    <2>7. ASSUME NEW w \in Workers, LockExpires(w) PROVE RaceInv'
      BY <2>2, <2>7 DEF LockExpires, derived, history
    <2>8. CASE UNCHANGED vars
      BY <2>2, <2>8 DEF vars
    <2> QED
      BY <2>3, <2>4, <2>5, <2>6, <2>7, <2>8 DEF Next
  <1> QED
    BY <1>1, <1>2, PTL DEF Spec

\* A deletion that overlaps no capture and no enrichment takes every row derived
\* from its moment, however often it was tried before and whatever runs after it.
THEOREM DeletionIsWhole == Spec => []LeftoversNeedRace
  <1>1. RaceInv => LeftoversNeedRace
    BY DEF RaceInv, RaceOK, Empty, LeftoversNeedRace
  <1> QED
    BY <1>1, RaceKept, PTL
=============================================================================
