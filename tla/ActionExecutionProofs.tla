------------------------ MODULE ActionExecutionProofs ------------------------
(* Theorems about ActionExecution, for every value of its constants. *)
EXTENDS ActionExecution, TLAPS

-----------------------------------------------------------------------------
(* Typing *)

LEMMA NoneApart == None \notin Actions /\ None \notin Workers
  BY ConstantsOK DEF Actions

LEMMA InitTypeOK == Init => TypeOK
  <1> SUFFICES ASSUME Init PROVE TypeOK
    OBVIOUS
  <1> USE DEF Init
  <1>1. row \in [Actions -> Row]
    BY DEF ProposedRow, Row, Status
  <1>2. job \in [Actions -> Job]
    BY ConstantsOK DEF NoJob, Job
  <1>3. req \in [Requests -> Req]
    BY DEF IdleReq, Req, ReqPC
  <1>4. exec \in [Workers -> Exec]
    BY DEF IdleExec, Exec, ExecPC
  <1>5. pages \in [Actions -> 0..Cap] /\ tasks \in [Actions -> 0..Cap]
    BY ConstantsOK
  <1>6. copies \in [Actions -> [Media -> 0..Cap]]
    BY ConstantsOK
  <1> QED
    BY <1>1, <1>2, <1>3, <1>4, <1>5, <1>6 DEF TypeOK

LEMMA BumpType == \A n \in 0..Cap : Bump(n) \in 0..Cap
  BY ConstantsOK DEF Bump

LEMMA CountType ==
  ASSUME NEW f \in [Actions -> 0..Cap], NEW a \in Actions
  PROVE  [f EXCEPT ![a] = Bump(@)] \in [Actions -> 0..Cap]
  <1>1. Bump(f[a]) \in 0..Cap
    BY BumpType
  <1> QED
    BY <1>1

LEMMA CopiesType ==
  ASSUME copies \in [Actions -> [Media -> 0..Cap]],
         NEW a \in Actions, NEW m \in Media,
         copies' = [copies EXCEPT ![a][m] = Bump(@)]
  PROVE  copies' \in [Actions -> [Media -> 0..Cap]]
  <1>1. Bump(copies[a][m]) \in 0..Cap
    BY BumpType
  <1>2. [copies[a] EXCEPT ![m] = Bump(copies[a][m])] \in [Media -> 0..Cap]
    BY <1>1
  <1> QED
    BY <1>2

\* Editing a record keeps its type.
LEMMA RowEdits ==
  ASSUME NEW x \in Row, NEW s \in Status, NEW b \in BOOLEAN,
         NEW M \in SUBSET Media
  PROVE  /\ [x EXCEPT !.status = s] \in Row
         /\ [x EXCEPT !.status = s, !.approved = b] \in Row
         /\ [x EXCEPT !.status = s, !.approved = b, !.media = M] \in Row
         /\ [x EXCEPT !.status = s, !.uploads = M, !.page = b] \in Row
         /\ [x EXCEPT !.status = s, !.page = b, !.uploads = M] \in Row
         /\ [x EXCEPT !.uploads = M] \in Row
  BY DEF Row

\* Moving a request: where it goes, what it keeps, and nobody else moves.
LEMMA ReqToFacts ==
  ASSUME req \in [Requests -> Req], NEW r \in Requests, NEW p \in ReqPC,
         ReqTo(r, p)
  PROVE  /\ req' \in [Requests -> Req]
         /\ req'[r].pc = p /\ req'[r].act = req[r].act
         /\ \A x \in Requests : x # r => req'[x] = req[x]
  BY DEF ReqTo, Req

LEMMA ReqEndsFacts ==
  ASSUME req \in [Requests -> Req], NEW r \in Requests, ReqEnds(r)
  PROVE  /\ req' \in [Requests -> Req]
         /\ req'[r].pc = "idle"
         /\ \A x \in Requests : x # r => req'[x] = req[x]
  BY DEF ReqEnds, IdleReq, Req, ReqPC

LEMMA ExecToFacts ==
  ASSUME exec \in [Workers -> Exec], NEW w \in Workers, NEW p \in ExecPC,
         ExecTo(w, p)
  PROVE  /\ exec' \in [Workers -> Exec]
         /\ exec'[w].pc = p /\ exec'[w].act = exec[w].act
         /\ exec'[w].media = exec[w].media /\ exec'[w].uploads = exec[w].uploads
         /\ \A x \in Workers : x # w => exec'[x] = exec[x]
  BY DEF ExecTo, Exec

LEMMA UploadedFacts ==
  ASSUME exec \in [Workers -> Exec], NEW w \in Workers, NEW m \in Media,
         exec' = [exec EXCEPT ![w] = [@ EXCEPT !.pc = "persist",
                                    !.uploads = exec[w].uploads \cup {m}]]
  PROVE  /\ exec' \in [Workers -> Exec]
         /\ exec'[w].pc = "persist" /\ exec'[w].act = exec[w].act
         /\ exec'[w].media = exec[w].media
         /\ exec'[w].uploads = exec[w].uploads \cup {m}
         /\ \A x \in Workers : x # w => exec'[x] = exec[x]
  <1> DEFINE new == [exec[w] EXCEPT !.pc = "persist",
                                    !.uploads = exec[w].uploads \cup {m}]
  <1>1. new \in Exec /\ new.pc = "persist" /\ new.act = exec[w].act
        /\ new.media = exec[w].media /\ new.uploads = exec[w].uploads \cup {m}
    BY DEF Exec, ExecPC
  <1>2. exec' = [exec EXCEPT ![w] = new]
    OBVIOUS
  <1> HIDE DEF new
  <1> QED
    BY <1>1, <1>2

LEMMA ExecEndsFacts ==
  ASSUME exec \in [Workers -> Exec], NEW w \in Workers, ExecEnds(w)
  PROVE  /\ exec' \in [Workers -> Exec]
         /\ exec'[w].pc = "idle"
         /\ \A x \in Workers : x # w => exec'[x] = exec[x]
  BY DEF ExecEnds, IdleExec, Exec, ExecPC

LEMMA UpdateFacts ==
  ASSUME row \in [Actions -> Row], NEW a \in Actions, NEW new \in Row
  PROVE  /\ Update(a, new) \in [Actions -> Row]
         /\ \A x \in Actions : x # a => Update(a, new)[x] = row[x]
         /\ row[a].status # "absent" => Update(a, new)[a] = new
         /\ row[a].status = "absent" => Update(a, new) = row
  BY DEF Update

\* A job that may still run has an attempt left.
AttemptLeft ==
  \A a \in Actions :
    job[a].state \in {"waiting", "active"} => job[a].made < Attempts

LEMMA AddJobType ==
  ASSUME job \in [Actions -> Job], AttemptLeft, NEW a \in Actions,
         job' = AddJob(a)
  PROVE  job' \in [Actions -> Job] /\ AttemptLeft'
  <1>1. [NoJob EXCEPT !.state = "waiting"] \in Job
    BY ConstantsOK DEF NoJob, Job
  <1>2. [NoJob EXCEPT !.state = "waiting"].made < Attempts
    BY ConstantsOK DEF NoJob
  <1> QED
    BY <1>1, <1>2 DEF AddJob, AttemptLeft

\* A call knows its action: approve requests of either kind, worker calls of an
\* external one.
CallsKnowAction ==
  /\ \A r \in Requests :
       /\ req[r].pc \in {"claim", "enqueue", "revert"} => req[r].act \in External
       /\ req[r].pc \in {"execute", "done", "failed"} => req[r].act \in Internal
  /\ \A w \in Workers : exec[w].pc # "idle" => exec[w].act \in External

TypeInv == TypeOK /\ CallsKnowAction /\ AttemptLeft

LEMMA InitTypeInv == Init => TypeInv
  <1>1. Init => CallsKnowAction
    BY DEF CallsKnowAction, Init, IdleReq, IdleExec
  <1>2. Init => AttemptLeft
    BY ConstantsOK DEF AttemptLeft, Init, NoJob
  <1> QED
    BY <1>1, <1>2, InitTypeOK DEF TypeInv

LEMMA ServeType ==
  ASSUME TypeInv, NEW r \in Requests, Approve(r) \/ Serve(r) \/ RequestDies(r)
  PROVE  TypeInv'
  <1> USE DEF TypeInv, TypeOK, CallsKnowAction, AttemptLeft, effects, ReqAt
  <1>1. ASSUME NEW a \in External, NEW M \in SUBSET Media, ApproveChecks(r, a, M)
        PROVE  TypeInv'
    BY <1>1 DEF ApproveChecks, Req, ReqPC, Actions
  <1>2. ASSUME NEW a \in Internal, InlineClaim(r, a)
        PROVE  TypeInv'
    <2>1. row' \in [Actions -> Row]
      BY <1>2, RowEdits DEF InlineClaim, Status
    <2>2. req' \in [Requests -> Req] /\ CallsKnowAction'
      BY <1>2 DEF InlineClaim, Req, ReqPC, Actions, IdleReq
    <2> QED
      BY <1>2, <2>1, <2>2 DEF InlineClaim
  <1>3. CASE ApproveClaim(r)
    <2>1. row' \in [Actions -> Row]
      <3>1. req[r].media \in SUBSET Media
        BY DEF Req
      <3>2. row[req[r].act] \in Row
        BY <1>3 DEF ApproveClaim, Actions
      <3>3. [row[req[r].act] EXCEPT !.status = "queued", !.approved = TRUE,
                                    !.media = req[r].media] \in Row
        BY <3>1, <3>2, RowEdits DEF Status
      <3> QED
        BY <1>3, <3>3 DEF ApproveClaim
    <2>2. req' \in [Requests -> Req] /\ CallsKnowAction'
      BY <1>3, ReqToFacts, ReqEndsFacts DEF ApproveClaim, ReqPC
    <2> QED
      BY <1>3, <2>1, <2>2 DEF ApproveClaim
  <1>4. CASE EnqueueAccepted(r)
    <2>1. job' \in [Actions -> Job] /\ AttemptLeft'
      BY <1>4, AddJobType DEF EnqueueAccepted, Actions
    <2> QED
      BY <1>4, <2>1, ReqEndsFacts DEF EnqueueAccepted
  <1>5. CASE EnqueueFails(r)
    <2>1. job' \in [Actions -> Job] /\ AttemptLeft'
      BY <1>5, AddJobType DEF EnqueueFails, Actions
    <2> QED
      BY <1>5, <2>1, ReqToFacts DEF EnqueueFails, ReqPC
  <1>6. CASE ApproveRevert(r)
    <2>1. req[r].act \in Actions
      BY <1>6 DEF ApproveRevert, Actions
    <2>2. row' \in [Actions -> Row]
      <3>1. [row[req[r].act] EXCEPT !.status = "proposed", !.approved = FALSE]
              \in Row
        BY <2>1, RowEdits DEF Status
      <3> QED
        BY <1>6, <2>1, <3>1, UpdateFacts DEF ApproveRevert
    <2> QED
      BY <1>6, <2>2, ReqEndsFacts DEF ApproveRevert
  <1>7. CASE InlineExecute(r)
    <2>1. tasks' \in [Actions -> 0..Cap]
      BY <1>7, BumpType DEF InlineExecute
    <2> QED
      BY <1>7, <2>1, ReqToFacts DEF InlineExecute, ReqPC
  <1>8. CASE InlineSettle(r)
    <2>1. req[r].act \in Actions /\ req[r].pc \in {"done", "failed"}
      BY <1>8 DEF InlineSettle, Actions
    <2>2. row' \in [Actions -> Row]
      <3>1. [row[req[r].act] EXCEPT !.status = req[r].pc] \in Row
        BY <2>1, RowEdits DEF Status
      <3> QED
        BY <1>8, <2>1, <3>1, UpdateFacts DEF InlineSettle
    <2> QED
      BY <1>8, <2>2, ReqEndsFacts DEF InlineSettle
  <1>9. CASE RequestDies(r)
    BY <1>9, ReqEndsFacts DEF RequestDies
  <1> QED
    BY <1>1, <1>2, <1>3, <1>4, <1>5, <1>6, <1>7, <1>8, <1>9 DEF Approve, Serve

LEMMA MarkFailedType ==
  ASSUME row \in [Actions -> Row], NEW a \in Actions
  PROVE  MarkFailed(a) \in [Actions -> Row]
  <1>1. [row[a] EXCEPT !.status = "failed", !.uploads = {}, !.page = FALSE] \in Row
    BY RowEdits DEF Status
  <1> QED
    BY <1>1 DEF MarkFailed

\* What Select keeps of the row and where it goes leave a call a call.
LEMMA ExecEdit ==
  ASSUME NEW x \in Exec, NEW m \in SUBSET Media, NEW u \in SUBSET Media,
         NEW pc \in ExecPC
  PROVE  [x EXCEPT !.media = m, !.uploads = u, !.pc = pc] \in Exec
  BY DEF Exec

LEMMA ExecuteType ==
  ASSUME TypeInv, NEW w \in Workers, Execute(w)
  PROVE  TypeInv'
  <1> DEFINE a == exec[w].act
  <1> USE DEF TypeInv, TypeOK, CallsKnowAction, AttemptLeft, effects, ExecAt
  <1>0. exec[w].pc # "idle" => /\ a \in External /\ a \in Actions
                               /\ row[a] \in Row
    BY DEF Actions
  <1>1. CASE Select(w)
    <2>1. exec' \in [Workers -> Exec]
      <3>1. row[a].media \in SUBSET Media /\ row[a].uploads \in SUBSET Media
        BY <1>1, <1>0 DEF Select, Row
      <3>2. AfterSelect(a) \in {"ok", "recover", "claim"}
        BY DEF AfterSelect
      <3> DEFINE e == [exec[w] EXCEPT !.media = row[a].media,
                                      !.uploads = row[a].uploads,
                                      !.pc = AfterSelect(a)]
      <3>3. e \in Exec
        <4>1. exec[w] \in Exec /\ AfterSelect(a) \in ExecPC
          BY <3>2 DEF ExecPC
        <4> QED
          BY <3>1, <4>1, ExecEdit
      <3>4. exec' = [exec EXCEPT ![w] = e]
        BY <1>1 DEF Select
      <3> HIDE DEF e
      <3> QED
        BY <3>3, <3>4
    <2>2. \A x \in Workers : exec'[x].act = exec[x].act
                             /\ (exec'[x].pc # "idle" => exec[x].pc # "idle")
      BY <1>1 DEF Select, Exec
    <2> QED
      BY <1>1, <2>1, <2>2 DEF Select
  <1>2. CASE Recover(w)
    <2>1. row' \in [Actions -> Row]
      <3>1. [row[a] EXCEPT !.status = "done"] \in Row
        BY <1>2, <1>0, RowEdits DEF Recover, Status
      <3> QED
        BY <1>2, <1>0, <3>1, UpdateFacts DEF Recover
    <2> QED
      BY <1>2, <2>1, ExecToFacts DEF Recover, ExecPC
  <1>3. CASE Claim(w)
    <2>1. row' \in [Actions -> Row]
      <3>1. [row[a] EXCEPT !.status = "executing"] \in Row
        BY <1>3, <1>0, RowEdits DEF Claim, Status
      <3> QED
        BY <1>3, <1>0, <3>1 DEF Claim
    <2> QED
      BY <1>3, <2>1, ExecToFacts DEF Claim, ExecPC
  <1>4. CASE Connect(w)
    BY <1>4, ExecToFacts DEF Connect, ExecPC
  <1>5. CASE Resolve(w)
    BY <1>5, ExecToFacts DEF Resolve, ExecPC
  <1>6. ASSUME NEW m \in Media, UploadMedia(w, m)
        PROVE  TypeInv'
    <2>1. copies' \in [Actions -> [Media -> 0..Cap]]
      <3>1. \/ copies' = [copies EXCEPT ![a][m] = Bump(@)]
            \/ copies' = copies
        BY <1>6 DEF UploadMedia
      <3>2. a \in Actions
        BY <1>6, <1>0 DEF UploadMedia
      <3> HIDE DEF a
      <3> QED
        BY <3>1, <3>2, CopiesType
    <2>2. \/ exec' = [exec EXCEPT ![w] = [@ EXCEPT !.pc = "persist",
                                        !.uploads = exec[w].uploads \cup {m}]]
          \/ \E p \in {"retry", "terminal"} : ExecTo(w, p)
      BY <1>6 DEF UploadMedia
    <2>3. /\ exec' \in [Workers -> Exec]
          /\ exec'[w].act = exec[w].act
          /\ \A x \in Workers : x # w => exec'[x] = exec[x]
      BY <2>2, ExecToFacts, UploadedFacts DEF ExecPC
    <2> QED
      BY <1>6, <1>0, <2>1, <2>3 DEF UploadMedia
  <1>7. CASE PersistUpload(w)
    <2>1. row' \in [Actions -> Row]
      <3>1. [row[a] EXCEPT !.uploads = exec[w].uploads] \in Row
        BY <1>7, <1>0, RowEdits DEF PersistUpload, Status, Exec
      <3> QED
        BY <1>7, <1>0, <3>1, UpdateFacts DEF PersistUpload
    <2> QED
      BY <1>7, <2>1, ExecToFacts DEF PersistUpload, ExecPC
  <1>8. CASE CreatePage(w)
    <2>1. pages' \in [Actions -> 0..Cap]
      <3>1. \/ pages' = [pages EXCEPT ![a] = Bump(@)]
            \/ pages' = pages
        BY <1>8 DEF CreatePage
      <3> QED
        BY <1>8, <1>0, <3>1, CountType DEF CreatePage
    <2>3. lost' \in [Actions -> BOOLEAN]
      BY <1>8 DEF CreatePage
    <2>2. \E p \in {"complete", "retry", "terminal"} : ExecTo(w, p)
      BY <1>8 DEF CreatePage, CreateError
    <2> QED
      BY <1>8, <2>1, <2>2, <2>3, ExecToFacts DEF CreatePage, ExecPC
  <1>9. CASE Complete(w)
    <2>1. row' \in [Actions -> Row]
      <3>1. [row[a] EXCEPT !.status = "done", !.page = TRUE, !.uploads = {}] \in Row
        BY <1>9, <1>0, RowEdits DEF Complete, Status
      <3> QED
        BY <1>9, <1>0, <3>1, UpdateFacts DEF Complete
    <2> QED
      BY <1>9, <2>1, ExecToFacts DEF Complete, ExecPC
  <1>10. CASE MarkTerminal(w)
    <2>1. row' \in [Actions -> Row] /\ lost' \in [Actions -> BOOLEAN]
      BY <1>10, <1>0, MarkFailedType DEF MarkTerminal, MarkLoses
    <2> QED
      BY <1>10, <2>1, ExecToFacts DEF MarkTerminal, ExecPC
  <1>11. CASE MarkFinal(w)
    <2>1. row' \in [Actions -> Row] /\ lost' \in [Actions -> BOOLEAN]
      BY <1>11, <1>0, MarkFailedType DEF MarkFinal, MarkLoses
    <2> QED
      BY <1>11, <2>1, ExecEndsFacts DEF MarkFinal
  <1> QED
    BY <1>1, <1>2, <1>3, <1>4, <1>5, <1>6, <1>7, <1>8, <1>9, <1>10, <1>11
    DEF Execute

\* Editing a job keeps its type.
LEMMA JobEdits ==
  ASSUME NEW x \in Job, NEW o \in Workers \cup {None}
  PROVE  /\ [x EXCEPT !.owner = o] \in Job
         /\ [x EXCEPT !.state = "active", !.owner = o] \in Job
         /\ [x EXCEPT !.state = "completed", !.owner = o] \in Job
         /\ [x EXCEPT !.state = "failed", !.owner = o] \in Job
         /\ [x EXCEPT !.state = "failed"] \in Job
         /\ x.stalls < MaxStalls =>
              [x EXCEPT !.state = "waiting", !.stalls = x.stalls + 1] \in Job
  <1> USE ConstantsOK DEF Job
  <1>1. x.stalls < MaxStalls => x.stalls + 1 \in 0..MaxStalls
    OBVIOUS
  <1> QED
    BY <1>1

\* A failed attempt goes back to the queue only while another one is left.
LEMMA RetryEdit ==
  ASSUME NEW x \in Job, x.made < Attempts, NEW s \in {"failed", "waiting"},
         s = "waiting" => x.made + 1 < Attempts
  PROVE  LET new == [x EXCEPT !.made = x.made + 1, !.owner = None, !.state = s]
         IN  new \in Job /\ new.state = s /\ (s = "waiting" => new.made < Attempts)
  <1> DEFINE n == x.made + 1
             new == [x EXCEPT !.made = n, !.owner = None, !.state = s]
  <1>1. n \in 0..Attempts /\ (s = "waiting" => n < Attempts)
    BY ConstantsOK DEF Job
  <1> HIDE DEF n
  <1>2. new \in Job /\ new.state = s /\ new.made = n
    BY <1>1 DEF Job
  <1> QED
    BY <1>1, <1>2 DEF n

\* Losing the lock changes neither the state of a job nor its attempts.
LEMMA UnlockFacts ==
  ASSUME job \in [Actions -> Job], NEW a \in Actions,
         job' = job \/ job' = [job EXCEPT ![a].owner = None]
  PROVE  /\ job' \in [Actions -> Job]
         /\ \A x \in Actions : job'[x].made = job[x].made
                               /\ job'[x].state = job[x].state
  <1>1. [job[a] EXCEPT !.owner = None] \in Job
    BY JobEdits
  <1>2. /\ [job[a] EXCEPT !.owner = None].made = job[a].made
        /\ [job[a] EXCEPT !.owner = None].state = job[a].state
    BY DEF Job
  <1>3. \/ job' = job
        \/ job' = [job EXCEPT ![a] = [job[a] EXCEPT !.owner = None]]
    OBVIOUS
  <1> QED
    BY <1>1, <1>2, <1>3

LEMMA DeliverType ==
  ASSUME TypeInv, NEW w \in Workers,
         \/ \E a \in External : Take(w, a)
         \/ Finish(w) \/ LockExpires(w) \/ WorkerCrash(w) \/ DbError(w)
  PROVE  TypeInv'
  <1> DEFINE a == exec[w].act
  <1> USE DEF TypeInv, TypeOK, CallsKnowAction, AttemptLeft, effects, ExecAt
  <1>0. exec[w].pc # "idle" => a \in External /\ a \in Actions /\ job[a] \in Job
    BY DEF Actions
  <1>1. ASSUME NEW b \in External, Take(w, b)
        PROVE  TypeInv'
    <2>1. job' \in [Actions -> Job] /\ AttemptLeft'
      <3>1. [job[b] EXCEPT !.state = "active", !.owner = w] \in Job
        BY JobEdits DEF Actions
      <3>2. \A x \in Actions : job'[x].made = job[x].made
                               /\ (job'[x].state = job[x].state
                                   \/ job[x].state = "waiting")
        BY <1>1 DEF Take, Job, Actions
      <3> QED
        BY <1>1, <3>1, <3>2 DEF Take, Actions
    <2>2. exec' \in [Workers -> Exec]
      BY <1>1 DEF Take, IdleExec, Exec, ExecPC, Actions
    <2>3. CallsKnowAction'
      BY <1>1, <2>2 DEF Take, IdleExec
    <2> QED
      BY <1>1, <2>1, <2>2, <2>3 DEF Take
  <1>2. ASSUME NEW s \in {"completed", "failed"},
               job' = [job EXCEPT ![a].state = s, ![a].owner = None],
               a \in Actions
        PROVE  job' \in [Actions -> Job] /\ AttemptLeft'
    <2>1. [job[a] EXCEPT !.state = s, !.owner = None] \in Job
      BY <1>2, JobEdits
    <2>2. [job[a] EXCEPT !.state = s, !.owner = None].state = s
      BY <1>2 DEF Job
    <2>3. job' = [job EXCEPT ![a] = [job[a] EXCEPT !.state = s, !.owner = None]]
      BY <1>2 DEF Job
    <2> QED
      BY <1>2, <2>1, <2>2, <2>3
  <1>3. CASE FinishOk(w)
    BY <1>0, <1>2, <1>3, ExecEndsFacts DEF FinishOk
  <1>4. CASE FinishFatal(w)
    BY <1>0, <1>2, <1>4, ExecEndsFacts DEF FinishFatal
  <1>5. CASE FinishRetry(w)
    <2> DEFINE s == IF LastAttempt(a) THEN "failed" ELSE "waiting"
               new == [job[a] EXCEPT !.made = job[a].made + 1, !.owner = None,
                                     !.state = s]
    <2>1. job[a].made < Attempts /\ job[a].made \in 0..Attempts
      BY <1>0, <1>5 DEF FinishRetry, HoldsLock, Job
    <2>2. new \in Job /\ (new.state = "waiting" => new.made < Attempts)
                      /\ new.state # "active"
      <3>1. /\ s \in {"failed", "waiting"}
            /\ s = "waiting" => job[a].made + 1 < Attempts
        BY <2>1, ConstantsOK DEF LastAttempt
      <3>2. job[a] \in Job
        BY <1>0, <1>5 DEF FinishRetry
      <3> HIDE DEF s, a
      <3> QED
        BY <2>1, <3>1, <3>2, RetryEdit
    <2>3. job' = [job EXCEPT ![a] = new]
      BY <1>5 DEF FinishRetry
    <2> HIDE DEF new
    <2>4. job' \in [Actions -> Job] /\ AttemptLeft'
      BY <1>0, <1>5, <2>2, <2>3 DEF FinishRetry
    <2>5. ExecTo(w, "mark") \/ ExecEnds(w)
      BY <1>5 DEF FinishRetry, AfterLastAttempt
    <2> QED
      BY <1>0, <1>5, <2>4, <2>5, ExecToFacts, ExecEndsFacts DEF FinishRetry, ExecPC
  <1>6. CASE FinishUnlocked(w)
    BY <1>6, ExecEndsFacts DEF FinishUnlocked
  <1>7. ASSUME a \in Actions,
               job' = job \/ job' = [job EXCEPT ![a].owner = None]
        PROVE  job' \in [Actions -> Job] /\ AttemptLeft'
    BY <1>7, UnlockFacts
  <1>8. CASE LockExpires(w)
    <2>1. job' \in [Actions -> Job] /\ AttemptLeft'
      BY <1>0, <1>7, <1>8 DEF LockExpires
    <2> QED
      BY <1>8, <2>1 DEF LockExpires
  <1>9. CASE WorkerCrash(w)
    <2>1. job' \in [Actions -> Job] /\ AttemptLeft'
      BY <1>0, <1>7, <1>9 DEF WorkerCrash
    <2>2. lost' \in [Actions -> BOOLEAN]
      BY <1>9 DEF WorkerCrash
    <2> QED
      BY <1>9, <2>1, <2>2, ExecEndsFacts DEF WorkerCrash
  <1>10. CASE DbError(w)
    <2>1. \/ \E p \in {"retry", "terminal"} : ExecTo(w, p)
          \/ ExecEnds(w)
      BY <1>10 DEF DbError
    <2>2. lost' \in [Actions -> BOOLEAN] /\ exec[w].pc # "idle"
      BY <1>10 DEF DbError
    <2> QED
      BY <1>10, <2>1, <2>2, ExecToFacts, ExecEndsFacts DEF DbError, ExecPC
  <1> QED
    BY <1>1, <1>3, <1>4, <1>5, <1>6, <1>8, <1>9, <1>10 DEF Finish

LEMMA OutsideType ==
  ASSUME TypeInv,
         \/ \E a \in Actions : \/ Reject(a) \/ StallCheck(a) \/ EvictJob(a)
                               \/ DeleteBlobs(a) \/ DeleteRows(a)
         \/ ChangeConnection
  PROVE  TypeInv'
  <1> USE DEF TypeInv, TypeOK, CallsKnowAction, AttemptLeft, effects
  <1>1. ASSUME NEW a \in Actions, Reject(a)
        PROVE  TypeInv'
    <2>1. [row[a] EXCEPT !.status = "rejected"] \in Row
      BY RowEdits DEF Status
    <2> QED
      BY <1>1, <2>1 DEF Reject
  <1>2. ASSUME NEW a \in Actions, StallCheck(a)
        PROVE  TypeInv'
    <2> DEFINE again == [job[a] EXCEPT !.state = "waiting",
                                       !.stalls = job[a].stalls + 1]
               dead == [job[a] EXCEPT !.state = "failed"]
    <2>1. /\ job[a].stalls < MaxStalls => again \in Job
          /\ dead \in Job
      BY JobEdits
    <2>2. again.made = job[a].made /\ dead.state = "failed"
      BY DEF Job
    <2>3. job' = [job EXCEPT ![a] = IF job[a].stalls < MaxStalls THEN again
                                    ELSE dead]
      BY <1>2 DEF StallCheck
    <2> HIDE DEF again, dead
    <2>4. job' \in [Actions -> Job] /\ AttemptLeft'
      BY <1>2, <2>1, <2>2, <2>3 DEF StallCheck
    <2> QED
      BY <1>2, <2>4 DEF StallCheck
  <1>3. ASSUME NEW a \in Actions, EvictJob(a)
        PROVE  TypeInv'
    <2>1. NoJob \in Job /\ NoJob.state = "none"
      BY ConstantsOK DEF NoJob, Job
    <2> QED
      BY <1>3, <2>1 DEF EvictJob
  <1>4. ASSUME NEW a \in Actions, DeleteBlobs(a)
        PROVE  TypeInv'
    BY <1>4 DEF DeleteBlobs
  <1>5. ASSUME NEW a \in Actions, DeleteRows(a)
        PROVE  TypeInv'
    <2>1. [ProposedRow EXCEPT !.status = "absent"] \in Row
      BY DEF ProposedRow, Row, Status
    <2> QED
      BY <1>5, <2>1 DEF DeleteRows
  <1>6. CASE ChangeConnection
    BY <1>6 DEF ChangeConnection, Reconnect, Disconnect
  <1> QED
    BY <1>1, <1>2, <1>3, <1>4, <1>5, <1>6

LEMMA StepTypeInv == TypeInv /\ [Next]_vars => TypeInv'
  <1> SUFFICES ASSUME TypeInv, [Next]_vars PROVE TypeInv'
    OBVIOUS
  <1>1. CASE UNCHANGED vars
    BY <1>1 DEF vars, TypeInv, TypeOK, CallsKnowAction, AttemptLeft
  <1>2. CASE Next
    BY <1>2, ServeType, ExecuteType, DeliverType, OutsideType DEF Next
  <1> QED
    BY <1>1, <1>2

\* Every row, job and call keeps its type whatever is interleaved: no count of
\* attempts or redeliveries passes its limit, and no status is unknown.
THEOREM TypeCorrect == Spec => []TypeOK
  <1>1. TypeInv => TypeOK
    BY DEF TypeInv
  <1> QED
    BY <1>1, InitTypeInv, StepTypeInv, PTL DEF Spec
-----------------------------------------------------------------------------
(* What a step may do to a row, to the history and to a call               *)

\* The stored page stays and the status changes, if at all, to an open one.
RowKept(a) ==
  /\ row'[a].page = row[a].page
  /\ \/ row'[a].status = row[a].status
     \/ /\ row[a].status # "absent"
        /\ row'[a].status \in {"proposed", "queued", "executing", "rejected"}

\* A step that writes no page, settles no external action and deletes nothing.
Quiet ==
  /\ \A a \in External : RowKept(a) /\ (lost[a] => lost'[a])
  /\ pages' = pages

\* Replacing one row by a version that keeps its page and stays open.
LEMMA EditKept ==
  ASSUME TypeInv, NEW b \in Actions, NEW new,
         row' = [row EXCEPT ![b] = new],
         new.page = row[b].page,
         \/ new.status = row[b].status
         \/ /\ row[b].status # "absent"
            /\ new.status \in {"proposed", "queued", "executing", "rejected"}
  PROVE  \A a \in External : RowKept(a)
  <1>1. \A a \in External : a \in Actions
    BY DEF Actions
  <1>2. \A a \in Actions : row'[a] = IF a = b THEN new ELSE row[a]
    BY DEF TypeInv, TypeOK
  <1> QED
    BY <1>1, <1>2 DEF RowKept

LEMMA RequestQuiet ==
  ASSUME TypeInv, NEW r \in Requests, Approve(r) \/ Serve(r) \/ RequestDies(r)
  PROVE  Quiet /\ exec' = exec /\ lost' = lost
  <1> DEFINE b == req[r].act
  <1> USE DEF TypeInv, TypeOK, CallsKnowAction, effects, ReqAt, Quiet
  <1>a. External \subseteq Actions
    BY DEF Actions
  <1>1. ASSUME row' = row PROVE \A a \in External : RowKept(a)
    BY <1>1 DEF RowKept
  <1>2. ASSUME NEW x \in Row, NEW s \in Status, NEW t \in BOOLEAN,
               NEW M \in SUBSET Media
        PROVE  /\ [x EXCEPT !.status = s].page = x.page
               /\ [x EXCEPT !.status = s, !.approved = t].page = x.page
               /\ [x EXCEPT !.status = s, !.approved = t].status = s
               /\ [x EXCEPT !.status = s, !.approved = t, !.media = M].page = x.page
               /\ [x EXCEPT !.status = s, !.approved = t, !.media = M].status = s
    BY DEF Row
  <1>3. CASE \E a \in External, M \in SUBSET Media : ApproveChecks(r, a, M)
    BY <1>1, <1>3 DEF ApproveChecks
  <1>4. ASSUME NEW c \in Internal, InlineClaim(r, c)
        PROVE  Quiet /\ exec' = exec /\ lost' = lost
    <2>1. c \notin External
      BY ConstantsOK
    <2>2. \A a \in External : row'[a] = row[a]
      BY <1>4, <1>a, <2>1 DEF InlineClaim
    <2>3. \A a \in External : RowKept(a)
      BY <2>2 DEF RowKept
    <2> QED
      BY <1>4, <2>3 DEF InlineClaim
  <1>5. CASE ApproveClaim(r)
    <2>1. b \in External /\ row[b] \in Row /\ req[r].media \in SUBSET Media
      BY <1>5, <1>a DEF ApproveClaim, Req
    <2>2. \A a \in External : RowKept(a)
      <3> DEFINE new == [row[b] EXCEPT !.status = "queued", !.approved = TRUE,
                                       !.media = req[r].media]
      <3>1. new.page = row[b].page /\ new.status = "queued"
        BY <1>2, <2>1 DEF Status
      <3>2. \/ row' = row
            \/ row' = [row EXCEPT ![b] = new] /\ row[b].status = "proposed"
        BY <1>5 DEF ApproveClaim, Claimable
      <3> HIDE DEF new
      <3> QED
        BY <1>1, <1>a, <2>1, <3>1, <3>2, EditKept
    <2> QED
      BY <1>5, <2>2 DEF ApproveClaim
  <1>6. CASE EnqueueAccepted(r) \/ EnqueueFails(r) \/ InlineExecute(r)
             \/ RequestDies(r)
    BY <1>1, <1>6
    DEF EnqueueAccepted, EnqueueFails, InlineExecute, RequestDies
  <1>7. CASE ApproveRevert(r)
    <2>1. b \in External /\ b \in Actions /\ row[b] \in Row
      BY <1>7, <1>a DEF ApproveRevert
    <2>2. \A a \in External : RowKept(a)
      BY <1>1, <1>2, <1>7, <1>a, <2>1 DEF ApproveRevert, Update, RowKept, Status
    <2> QED
      BY <1>7, <2>2 DEF ApproveRevert
  <1>8. CASE InlineSettle(r)
    <2>1. b \in Internal /\ b \notin External
      BY <1>8, ConstantsOK DEF InlineSettle
    <2> QED
      BY <1>8, <1>a, <2>1 DEF InlineSettle, Update, RowKept
  <1> QED
    BY <1>3, <1>4, <1>5, <1>6, <1>7, <1>8 DEF Approve, Serve

\* The other quiet steps: a call moves on without touching its page, BullMQ
\* hands a job around, a user rejects, disconnects or deletes blobs.
LEMMA OtherQuiet ==
  ASSUME TypeInv,
         \/ \E w \in Workers :
              \/ \E a \in External : Take(w, a)
              \/ Select(w) \/ Claim(w) \/ Connect(w) \/ Resolve(w)
              \/ \E m \in Media : UploadMedia(w, m)
              \/ PersistUpload(w) \/ Finish(w)
              \/ LockExpires(w) \/ WorkerCrash(w) \/ DbError(w)
         \/ \E a \in Actions : \/ Reject(a) \/ StallCheck(a) \/ EvictJob(a)
                               \/ DeleteBlobs(a)
         \/ ChangeConnection
  PROVE  Quiet
  <1> USE DEF TypeInv, TypeOK, CallsKnowAction, effects, ExecAt, Quiet
  <1>a. External \subseteq Actions
    BY DEF Actions
  <1>1. ASSUME row' = row PROVE \A a \in External : RowKept(a)
    BY <1>1 DEF RowKept
  <1>2. ASSUME NEW x \in Row, NEW s \in Status, NEW M \in SUBSET Media
        PROVE  /\ [x EXCEPT !.status = s].page = x.page
               /\ [x EXCEPT !.status = s].status = s
               /\ [x EXCEPT !.uploads = M].page = x.page
               /\ [x EXCEPT !.uploads = M].status = x.status
    BY DEF Row
  <1>3. ASSUME NEW w \in Workers,
               (\E a \in External : Take(w, a)) \/ Select(w) \/ Connect(w)
                 \/ Resolve(w) \/ (\E m \in Media : UploadMedia(w, m)) \/ Finish(w)
        PROVE  Quiet
    <2>1. row' = row /\ lost' = lost /\ pages' = pages
      BY <1>3 DEF Take, Select, Connect, Resolve, UploadMedia, Finish, FinishOk,
        FinishRetry, FinishFatal, FinishUnlocked
    <2> QED
      BY <1>1, <2>1
  <1>4. ASSUME NEW w \in Workers, LockExpires(w) \/ WorkerCrash(w) \/ DbError(w)
        PROVE  Quiet
    <2>1. row' = row /\ pages' = pages
      BY <1>4 DEF LockExpires, WorkerCrash, DbError
    <2>2. \A a \in External : lost[a] => lost'[a]
      BY <1>4, <1>a DEF LockExpires, WorkerCrash, DbError
    <2> QED
      BY <1>1, <2>1, <2>2
  <1>5. ASSUME NEW w \in Workers, Claim(w) \/ PersistUpload(w)
        PROVE  Quiet
    <2> DEFINE b == exec[w].act
    <2>1. b \in Actions /\ row[b] \in Row /\ exec[w].uploads \in SUBSET Media
      BY <1>5, <1>a DEF Claim, PersistUpload, Exec
    <2> DEFINE taken == [row[b] EXCEPT !.status = "executing"]
               saved == [row[b] EXCEPT !.uploads = exec[w].uploads]
    <2>2. /\ taken.page = row[b].page /\ taken.status = "executing"
          /\ saved.page = row[b].page /\ saved.status = row[b].status
      BY <1>2, <2>1 DEF Status
    <2>3. \/ row' = row
          \/ row' = [row EXCEPT ![b] = taken] /\ row[b].status # "absent"
          \/ row' = [row EXCEPT ![b] = saved]
      BY <1>5 DEF Claim, PersistUpload, Update, InFlight
    <2> HIDE DEF taken, saved
    <2>4. \A a \in External : RowKept(a)
      BY <1>1, <2>1, <2>2, <2>3, EditKept
    <2> QED
      BY <1>5, <2>4 DEF Claim, PersistUpload
  <1>6. ASSUME NEW b \in Actions,
               Reject(b) \/ StallCheck(b) \/ EvictJob(b) \/ DeleteBlobs(b)
        PROVE  Quiet
    <2>1. \A a \in External : RowKept(a)
      <3> DEFINE new == [row[b] EXCEPT !.status = "rejected"]
      <3>1. new.page = row[b].page /\ new.status = "rejected"
        BY <1>2 DEF Status
      <3>2. \/ row' = row
            \/ row' = [row EXCEPT ![b] = new] /\ row[b].status # "absent"
        BY <1>6 DEF Reject, StallCheck, EvictJob, DeleteBlobs
      <3> HIDE DEF new
      <3> QED
        BY <1>1, <3>1, <3>2, EditKept
    <2> QED
      BY <1>6, <2>1 DEF Reject, StallCheck, EvictJob, DeleteBlobs
  <1>7. CASE ChangeConnection
    BY <1>1, <1>7 DEF ChangeConnection
  <1> QED
    BY <1>3, <1>4, <1>5, <1>6, <1>7

\* What is left: five ways to write a page, settle a row or forget it.
LEMMA LoudSteps ==
  ASSUME TypeInv, Next
  PROVE  \/ Quiet
         \/ \E w \in Workers : \/ Recover(w) \/ CreatePage(w) \/ Complete(w)
                               \/ MarkTerminal(w) \/ MarkFinal(w)
         \/ \E a \in Actions : DeleteRows(a)
  BY RequestQuiet, OtherQuiet DEF Next, Execute

\* The row a loud step writes: the new version, unless the row is gone.
LEMMA UpdateRow ==
  ASSUME TypeInv, NEW b \in Actions, NEW new, row' = Update(b, new)
  PROVE  /\ \A x \in Actions : x # b => row'[x] = row[x]
         /\ row[b].status = "absent" => row'[b] = row[b]
         /\ row[b].status # "absent" => row'[b] = new
  BY DEF Update, TypeInv, TypeOK

LEMMA MarkRow ==
  ASSUME TypeInv, NEW b \in Actions, row' = MarkFailed(b), MarkLoses(b)
  PROVE  /\ \A x \in Actions : x # b => row'[x] = row[x] /\ lost'[x] = lost[x]
         /\ row[b].status \notin InFlight => row'[b] = row[b]
         /\ row[b].status \in InFlight => /\ row'[b].status = "failed"
                                          /\ row'[b].page = FALSE
                                          /\ row[b].page => lost'[b]
         /\ lost[b] => lost'[b]
  <1> DEFINE new == [row[b] EXCEPT !.status = "failed", !.uploads = {}, !.page = FALSE]
  <1>1. new.status = "failed" /\ new.page = FALSE
    BY DEF TypeInv, TypeOK, Row
  <1>2. row' = IF row[b].status \notin InFlight THEN row
               ELSE [row EXCEPT ![b] = new]
    BY DEF MarkFailed
  <1> HIDE DEF new
  <1> QED
    BY <1>1, <1>2 DEF MarkLoses, TypeInv, TypeOK

LEMMA DeletedRow ==
  ASSUME TypeInv, NEW b \in Actions, DeleteRows(b)
  PROVE  /\ \A x \in Actions : x # b => row'[x] = row[x]
         /\ row'[b].status = "absent" /\ row'[b].page = FALSE
         /\ exec' = exec /\ job' = job /\ pages' = pages /\ lost' = lost
  <1>1. /\ [ProposedRow EXCEPT !.status = "absent"].status = "absent"
        /\ [ProposedRow EXCEPT !.status = "absent"].page = FALSE
    BY DEF ProposedRow
  <1> QED
    BY <1>1 DEF DeleteRows, effects, TypeInv, TypeOK

\* A completed external action is never failed afterwards: every late failure
\* signal, of a stale call or of the queue, finds it settled.
THEOREM DoneStaysUnfailed == Spec => DoneNeverFails
  <1> DEFINE Unfailed == \A a \in External :
                           row[a].status = "done" => row'[a].status # "failed"
  <1>1. TypeInv /\ [Next]_vars => [Unfailed]_row
    <2> SUFFICES ASSUME TypeInv, Next PROVE [Unfailed]_row
      BY DEF vars
    <2>0. \A a \in External : a \in Actions
      BY DEF Actions
    <2>1. CASE Quiet
      BY <2>1 DEF Quiet, RowKept
    <2>2. ASSUME NEW w \in Workers,
                 \/ Recover(w) \/ CreatePage(w) \/ Complete(w)
                 \/ MarkTerminal(w) \/ MarkFinal(w)
          PROVE  [Unfailed]_row
      <3> DEFINE b == exec[w].act
      <3>1. b \in Actions /\ row[b] \in Row
        BY <2>0, <2>2 DEF Recover, CreatePage, Complete, MarkTerminal, MarkFinal,
          ExecAt, TypeInv, TypeOK, CallsKnowAction
      <3>2. CASE Recover(w)
        <4> DEFINE new == [row[b] EXCEPT !.status = "done"]
        <4>1. new.status = "done"
          BY <3>1 DEF Row
        <4>2. row' = Update(b, new)
          BY <3>2 DEF Recover
        <4> HIDE DEF new
        <4> QED
          BY <2>0, <3>1, <4>1, <4>2, UpdateRow
      <3>3. CASE CreatePage(w)
        BY <3>3 DEF CreatePage
      <3>4. CASE Complete(w)
        <4> DEFINE new == [row[b] EXCEPT !.status = "done", !.page = TRUE,
                                         !.uploads = {}]
        <4>1. new.status = "done"
          BY <3>1 DEF Row
        <4>2. row' = Update(b, new)
          BY <3>4 DEF Complete
        <4> HIDE DEF new
        <4> QED
          BY <2>0, <3>1, <4>1, <4>2, UpdateRow
      <3>5. CASE MarkTerminal(w) \/ MarkFinal(w)
        <4>1. row' = MarkFailed(b) /\ MarkLoses(b)
          BY <3>5 DEF MarkTerminal, MarkFinal
        <4> QED
          BY <2>0, <3>1, <4>1, MarkRow DEF InFlight
      <3> QED
        BY <2>2, <3>2, <3>3, <3>4, <3>5
    <2>3. ASSUME NEW b \in Actions, DeleteRows(b)
          PROVE  [Unfailed]_row
      <3>1. \A a \in Actions : row'[a] = row[a] \/ row'[a].status = "absent"
        BY <2>3, DeletedRow
      <3> QED
        BY <2>0, <3>1
    <2> QED
      BY <2>1, <2>2, <2>3, LoudSteps
  <1> QED
    BY <1>1, InitTypeInv, StepTypeInv, PTL DEF Spec, DoneNeverFails
-----------------------------------------------------------------------------
(* Pages, records and the history                                          *)

\* A stored page was written; so was the page a call is about to record, or the
\* one a call found on the row, and a record that is gone was erased.
PageRecorded ==
  /\ \A a \in External :
       /\ row[a].page => pages[a] > 0
       /\ row[a].status = "done" => pages[a] > 0 /\ (row[a].page \/ lost[a])
  /\ \A w \in Workers :
       LET a == exec[w].act IN
       /\ exec[w].pc = "complete" => pages[a] > 0
       /\ exec[w].pc = "recover" =>
            pages[a] > 0 /\ (row[a].page \/ lost[a] \/ row[a].status = "absent")

\* Unless its history is lost, an action is worked on only under its job's lock,
\* so by one call at a time ...
LockHeld ==
  \A w \in Workers :
    exec[w].pc \notin {"idle", "mark"} => lost[exec[w].act] \/ HoldsLock(w)

\* From the claim to the page: the part of a call that must not overlap another.
Working == {"claim", "connect", "resolve", "media", "persist"}

\* ... and its page is written only when there is none, and stays on record: on
\* the row, or in the hands of the call about to store it.
PageTracked ==
  \A a \in External : ~lost[a] =>
    /\ pages[a] = 0 \/ row[a].page \/ row[a].status = "absent"
         \/ \E w \in Workers : exec[w].pc = "complete" /\ exec[w].act = a
    /\ \A w \in Workers :
         exec[w].act = a /\ exec[w].pc \in Working => pages[a] = 0
    /\ pages[a] <= 1

\* No call comes to hold a page, or a page record, except by Select or CreatePage.
NoNewHold ==
  \A x \in Workers :
    exec'[x] = exec[x] \/ exec'[x].pc \notin {"complete", "recover"}

LEMMA HoldsOnlyBy ==
  ASSUME TypeInv, Next
  PROVE  \/ NoNewHold
         \/ \E w \in Workers : Select(w) \/ CreatePage(w)
  <1> USE DEF TypeInv, TypeOK, effects, ExecAt, NoNewHold
  <1>1. ASSUME exec' = exec PROVE NoNewHold
    BY <1>1
  <1>2. ASSUME NEW w \in Workers, NEW p \in ExecPC \ {"complete", "recover"},
               ExecTo(w, p)
        PROVE  NoNewHold
    BY <1>2, ExecToFacts
  <1>3. ASSUME NEW w \in Workers, ExecEnds(w)
        PROVE  NoNewHold
    BY <1>3, ExecEndsFacts
  <1>4. ASSUME NEW w \in Workers, Execute(w)
        PROVE  NoNewHold \/ Select(w) \/ CreatePage(w)
    <2>1. CASE Recover(w) \/ Claim(w) \/ Connect(w) \/ Resolve(w)
               \/ PersistUpload(w) \/ Complete(w) \/ MarkTerminal(w)
      BY <1>2, <2>1
      DEF Recover, Claim, Connect, Resolve, PersistUpload, Complete,
          MarkTerminal, ExecPC
    <2>2. ASSUME NEW m \in Media, UploadMedia(w, m)
          PROVE  NoNewHold
      <3>1. \/ exec' = [exec EXCEPT ![w] = [@ EXCEPT !.pc = "persist",
                                      !.uploads = exec[w].uploads \cup {m}]]
            \/ \E p \in {"retry", "terminal"} : ExecTo(w, p)
        BY <2>2 DEF UploadMedia
      <3> QED
        BY <1>2, <3>1, UploadedFacts DEF ExecPC
    <2>3. CASE MarkFinal(w)
      BY <1>3, <2>3 DEF MarkFinal
    <2> QED
      BY <1>4, <2>1, <2>2, <2>3 DEF Execute
  <1>5. ASSUME NEW w \in Workers,
               Finish(w) \/ LockExpires(w) \/ WorkerCrash(w) \/ DbError(w)
        PROVE  NoNewHold
    <2>1. \/ exec' = exec \/ ExecEnds(w)
          \/ \E p \in {"retry", "terminal", "mark"} : ExecTo(w, p)
      BY <1>5 DEF Finish, FinishOk, FinishRetry, FinishFatal, FinishUnlocked,
        AfterLastAttempt, LockExpires, WorkerCrash, DbError
    <2> QED
      BY <1>1, <1>2, <1>3, <2>1 DEF ExecPC
  <1>6. ASSUME NEW w \in Workers, NEW a \in External, Take(w, a)
        PROVE  NoNewHold
    BY <1>6 DEF Take, IdleExec
  <1>7. CASE \E a \in Actions : Reject(a) \/ StallCheck(a) \/ EvictJob(a)
                                \/ DeleteBlobs(a) \/ DeleteRows(a)
    BY <1>1, <1>7 DEF Reject, StallCheck, EvictJob, DeleteBlobs, DeleteRows
  <1>8. CASE ChangeConnection
    BY <1>1, <1>8 DEF ChangeConnection
  <1> QED
    BY <1>1, <1>4, <1>5, <1>6, <1>7, <1>8, RequestQuiet DEF Next

LEMMA InitPageRecorded == Init => PageRecorded
  BY DEF Init, PageRecorded, ProposedRow, IdleExec, Actions

\* One call moves; what the others hold stays recorded.
LEMMA RecordedQuietly ==
  ASSUME TypeInv, PageRecorded, Quiet,
         \A x \in Workers :
           \/ exec'[x] = exec[x]
           \/ exec'[x].pc \notin {"complete", "recover"}
           \/ /\ exec'[x].pc = "recover" /\ exec'[x].act \in External
              /\ row[exec'[x].act].page
  PROVE  PageRecorded'
  <1> USE DEF PageRecorded, Quiet, RowKept
  <1>1. \A a \in External :
          /\ row'[a].page => pages'[a] > 0
          /\ row'[a].status = "done" => pages'[a] > 0 /\ (row'[a].page \/ lost'[a])
    OBVIOUS
  <1>2. ASSUME NEW x \in Workers, exec'[x].pc \in {"complete", "recover"}
        PROVE  /\ pages'[exec'[x].act] > 0
               /\ exec'[x].pc = "recover" =>
                    \/ row'[exec'[x].act].page \/ lost'[exec'[x].act]
                    \/ row'[exec'[x].act].status = "absent"
    <2>1. CASE exec'[x] = exec[x]
      <3>1. exec[x].act \in External
        BY <1>2, <2>1 DEF TypeInv, CallsKnowAction
      <3> QED
        BY <1>2, <2>1, <3>1
    <2>2. CASE /\ exec'[x].pc = "recover" /\ exec'[x].act \in External
               /\ row[exec'[x].act].page
      BY <2>2
    <2> QED
      BY <1>2, <2>1, <2>2
  <1> QED
    BY <1>1, <1>2

LEMMA SelectFacts ==
  ASSUME TypeInv, NEW w \in Workers, Select(w)
  PROVE  /\ exec[w].act \in External /\ exec[w].act \in Actions
         /\ exec'[w].act = exec[w].act /\ exec'[w].pc = AfterSelect(exec[w].act)
         /\ \A x \in Workers : x # w => exec'[x] = exec[x]
         /\ row' = row /\ pages' = pages /\ lost' = lost /\ job' = job
  <1>1. exec[w] \in Exec
    BY DEF TypeInv, TypeOK
  <1> QED
    BY <1>1 DEF Select, ExecAt, effects, Exec, TypeInv, TypeOK, CallsKnowAction,
      Actions

LEMMA CreateFacts ==
  ASSUME TypeInv, NEW w \in Workers, CreatePage(w)
  PROVE  LET a == exec[w].act IN
         /\ a \in External /\ a \in Actions
         /\ row' = row /\ job' = job
         /\ \A x \in Actions : x # a => pages'[x] = pages[x] /\ lost'[x] = lost[x]
         /\ \/ pages'[a] = Bump(pages[a]) /\ lost'[a] = lost[a]
                 /\ ExecTo(w, "complete")
            \/ pages'[a] = Bump(pages[a]) /\ lost'[a]
                 /\ (ExecTo(w, "retry") \/ ExecTo(w, "terminal"))
            \/ pages'[a] = pages[a] /\ lost'[a] = lost[a]
                 /\ (ExecTo(w, "retry") \/ ExecTo(w, "terminal"))
  <1> DEFINE a == exec[w].act
  <1>1. a \in External /\ a \in Actions
    BY DEF CreatePage, ExecAt, TypeInv, CallsKnowAction, Actions
  <1>2. row' = row /\ job' = job
    BY DEF CreatePage
  <1> HIDE DEF a
  <1>3. \/ pages' = [pages EXCEPT ![a] = Bump(@)] /\ lost' = lost
             /\ ExecTo(w, "complete")
        \/ pages' = [pages EXCEPT ![a] = Bump(@)] /\ lost' = [lost EXCEPT ![a] = TRUE]
             /\ (ExecTo(w, "retry") \/ ExecTo(w, "terminal"))
        \/ pages' = pages /\ lost' = lost
             /\ (ExecTo(w, "retry") \/ ExecTo(w, "terminal"))
    BY DEF a, CreatePage, CreateError
  <1> QED
    BY <1>1, <1>2, <1>3 DEF a, TypeInv, TypeOK

LEMMA BumpGrows == \A n \in 0..Cap : Bump(n) > 0 /\ Bump(n) >= n /\ Bump(n) <= n + 1
  BY ConstantsOK DEF Bump

\* Recover and Complete settle a row that is still there as done.
LEMMA DoneFacts ==
  ASSUME TypeInv, NEW w \in Workers, Recover(w) \/ Complete(w)
  PROVE  LET a == exec[w].act IN
         /\ a \in External /\ a \in Actions
         /\ pages' = pages /\ lost' = lost /\ job' = job
         /\ \A x \in Actions : x # a => row'[x] = row[x]
         /\ row[a].status = "absent" => row'[a] = row[a]
         /\ row[a].status # "absent" =>
              /\ row'[a].status = "done"
              /\ row'[a].page = (IF ExecAt(w, "complete") THEN TRUE ELSE row[a].page)
         /\ \E p \in {"ok", "retry", "terminal"} : ExecTo(w, p)
  <1> DEFINE a == exec[w].act
             kept == [row[a] EXCEPT !.status = "done"]
             stored == [row[a] EXCEPT !.status = "done", !.page = TRUE,
                                      !.uploads = {}]
  <1>1. a \in External /\ a \in Actions /\ row[a] \in Row
    BY DEF Recover, Complete, ExecAt, TypeInv, TypeOK, CallsKnowAction, Actions
  <1>2. /\ kept.status = "done" /\ kept.page = row[a].page
        /\ stored.status = "done" /\ stored.page = TRUE
    BY <1>1 DEF Row
  <1>3. \/ ExecAt(w, "recover") /\ row' = Update(a, kept)
        \/ ExecAt(w, "complete") /\ row' = Update(a, stored)
    BY DEF Recover, Complete
  <1>4. /\ pages' = pages /\ lost' = lost /\ job' = job
        /\ \E p \in {"ok", "retry", "terminal"} : ExecTo(w, p)
    BY DEF Recover, Complete, effects
  <1> HIDE DEF a, kept, stored
  <1>5. /\ \A x \in Actions : x # a => row'[x] = row[x]
        /\ row[a].status = "absent" => row'[a] = row[a]
        /\ row[a].status # "absent" =>
             /\ ExecAt(w, "recover") => row'[a] = kept
             /\ ExecAt(w, "complete") => row'[a] = stored
    BY <1>1, <1>3, UpdateRow DEF ExecAt
  <1>6. ExecAt(w, "complete") <=> ~ExecAt(w, "recover")
    BY <1>3 DEF ExecAt
  <1>7. row[a].status # "absent" =>
          row'[a].page = (IF ExecAt(w, "complete") THEN TRUE ELSE row[a].page)
    BY <1>2, <1>5, <1>6
  <1> QED
    BY <1>1, <1>2, <1>4, <1>5, <1>6, <1>7 DEF a

LEMMA MarkFacts ==
  ASSUME TypeInv, NEW w \in Workers, MarkTerminal(w) \/ MarkFinal(w)
  PROVE  LET a == exec[w].act IN
         /\ a \in External /\ a \in Actions
         /\ pages' = pages /\ job' = job
         /\ \A x \in Actions : x # a => row'[x] = row[x] /\ lost'[x] = lost[x]
         /\ row[a].status \notin InFlight => row'[a] = row[a]
         /\ row[a].status \in InFlight => /\ row'[a].status = "failed"
                                          /\ row'[a].page = FALSE
                                          /\ row[a].page => lost'[a]
         /\ lost[a] => lost'[a]
         /\ ExecTo(w, "fatal") \/ ExecTo(w, "retry") \/ ExecEnds(w)
  <1> DEFINE a == exec[w].act
  <1>1. a \in External /\ a \in Actions
    BY DEF MarkTerminal, MarkFinal, ExecAt, TypeInv, CallsKnowAction, Actions
  <1>2. /\ pages' = pages /\ job' = job /\ (ExecTo(w, "fatal") \/ ExecTo(w, "retry") \/ ExecEnds(w))
        /\ row' = MarkFailed(a) /\ MarkLoses(a)
    BY DEF MarkTerminal, MarkFinal, effects
  <1> HIDE DEF a
  <1>3. QED
    BY <1>1, <1>2, MarkRow DEF a

LEMMA StepPageRecorded ==
  ASSUME TypeInv, PageRecorded, Next
  PROVE  PageRecorded'
  <1>0. \A a \in External : a \in Actions /\ pages[a] \in 0..Cap
    BY DEF Actions, TypeInv, TypeOK
  <1>1. ASSUME Quiet, NoNewHold
        PROVE  PageRecorded'
    BY <1>1, RecordedQuietly DEF NoNewHold
  <1>2. ASSUME NEW w \in Workers, Select(w)
        PROVE  PageRecorded'
    <2>1. AfterSelect(exec[w].act) = "recover" => row[exec[w].act].page
      BY DEF AfterSelect
    <2>2. AfterSelect(exec[w].act) # "complete"
      BY DEF AfterSelect
    <2>3. Quiet
      BY <1>2, OtherQuiet
    <2> QED
      BY <1>2, <2>1, <2>2, <2>3, SelectFacts, RecordedQuietly
  <1>3. ASSUME NEW w \in Workers, CreatePage(w)
        PROVE  PageRecorded'
    <2> DEFINE a == exec[w].act
    <2>1. \A x \in External : /\ pages[x] > 0 => pages'[x] > 0
                              /\ lost[x] => lost'[x]
      BY <1>0, <1>3, CreateFacts, BumpGrows
    <2>2. row' = row
      BY <1>3, CreateFacts
    <2>3. \A x \in Workers : \/ exec'[x] = exec[x]
                             \/ exec'[x].pc \notin {"complete", "recover"}
                             \/ /\ exec'[x].pc = "complete"
                                /\ exec'[x].act \in External
                                /\ pages'[exec'[x].act] > 0
      <3>1. exec \in [Workers -> Exec]
        BY DEF TypeInv, TypeOK
      <3> QED
        BY <1>0, <1>3, <3>1, CreateFacts, BumpGrows, ExecToFacts DEF ExecPC
    <2>4. \A x \in Workers : exec[x].pc # "idle" => exec[x].act \in External
      BY DEF TypeInv, CallsKnowAction
    <2> QED
      BY <2>1, <2>2, <2>3, <2>4 DEF PageRecorded
  <1>4. ASSUME \A x \in Actions :
                 \/ row'[x] = row[x]
                 \/ /\ row'[x].status = "absent" /\ row'[x].page = FALSE
                 \/ /\ row'[x].status = "failed" /\ row'[x].page = FALSE
                    /\ row[x].page => lost'[x]
                 \/ /\ row'[x].status = "done" /\ pages[x] > 0
                    /\ row'[x].page \/ lost[x]
                    /\ row[x].page => row'[x].page,
               \A x \in Actions : row[x].status = "absent" => row'[x].status = "absent",
               \A x \in Actions : lost[x] => lost'[x],
               pages' = pages, NoNewHold
        PROVE  PageRecorded'
    <2>1. \A x \in External :
            /\ row'[x].page => pages'[x] > 0
            /\ row'[x].status = "done" => pages'[x] > 0 /\ (row'[x].page \/ lost'[x])
      BY <1>0, <1>4 DEF PageRecorded
    <2>2. ASSUME NEW x \in Workers, exec'[x].pc \in {"complete", "recover"}
          PROVE  /\ pages'[exec'[x].act] > 0
                 /\ exec'[x].pc = "recover" =>
                      \/ row'[exec'[x].act].page \/ lost'[exec'[x].act]
                      \/ row'[exec'[x].act].status = "absent"
      <3>1. exec'[x] = exec[x]
        BY <1>4, <2>2 DEF NoNewHold
      <3>2. exec[x].act \in Actions
        BY <1>0, <2>2, <3>1 DEF TypeInv, CallsKnowAction
      <3> QED
        BY <1>4, <2>2, <3>1, <3>2 DEF PageRecorded
    <2> QED
      BY <2>1, <2>2 DEF PageRecorded
  <1>5. \A w \in Workers : (Recover(w) \/ Complete(w) \/ MarkTerminal(w) \/ MarkFinal(w))
                           => NoNewHold
    <2> SUFFICES ASSUME NEW w \in Workers,
                        Recover(w) \/ Complete(w) \/ MarkTerminal(w) \/ MarkFinal(w)
                 PROVE  NoNewHold
      OBVIOUS
    <2>1. exec \in [Workers -> Exec]
      BY DEF TypeInv, TypeOK
    <2>2. \/ ExecEnds(w)
          \/ \E p \in {"ok", "retry", "terminal", "fatal"} : ExecTo(w, p)
      BY DEF Recover, Complete, MarkTerminal, MarkFinal
    <2> QED
      BY <2>1, <2>2, ExecToFacts, ExecEndsFacts DEF NoNewHold, ExecPC
  <1>6. ASSUME NEW w \in Workers, Recover(w) \/ Complete(w)
        PROVE  PageRecorded'
    <2> DEFINE a == exec[w].act
    <2>1. /\ pages[a] > 0
          /\ ExecAt(w, "complete") \/ row[a].page \/ lost[a]
               \/ row[a].status = "absent"
      BY <1>6 DEF PageRecorded, Recover, Complete, ExecAt
    <2>2. row[a].page \in BOOLEAN
      BY <1>6, DoneFacts DEF TypeInv, TypeOK, Row
    <2>3. row[a].status # "absent" => /\ row'[a].status = "done"
                                      /\ row'[a].page \/ lost[a]
                                      /\ row[a].page => row'[a].page
      BY <1>6, <2>1, <2>2, DoneFacts
    <2> HIDE DEF a
    <2> QED
      BY <1>4, <1>5, <1>6, <2>1, <2>3, DoneFacts DEF a
  <1>7. ASSUME NEW w \in Workers, MarkTerminal(w) \/ MarkFinal(w)
        PROVE  PageRecorded'
    BY <1>4, <1>5, <1>7, MarkFacts DEF InFlight
  <1>8. ASSUME NEW a \in Actions, DeleteRows(a)
        PROVE  PageRecorded'
    <2>1. NoNewHold
      BY <1>8, DeletedRow DEF NoNewHold
    <2>2. \A x \in Actions : row'[x] = row[x] \/ (row'[x].status = "absent"
                                                 /\ row'[x].page = FALSE)
      BY <1>8, DeletedRow
    <2> QED
      BY <1>4, <1>8, <2>1, <2>2, DeletedRow
  <1> QED
    BY <1>1, <1>2, <1>3, <1>6, <1>7, <1>8, LoudSteps, HoldsOnlyBy

\* Done is never a lie: whatever retries, redeliveries, expired locks, reverts
\* and crashes are interleaved, an external action shown as done has its page.
THEOREM DoneAlwaysHasPage == Spec => []DoneHasPage
  <1>1. TypeInv /\ PageRecorded /\ [Next]_vars => PageRecorded'
    <2>1. PageRecorded /\ UNCHANGED vars => PageRecorded'
      BY DEF PageRecorded, vars
    <2> QED
      BY <2>1, StepPageRecorded
  <1>2. PageRecorded => DoneHasPage
    BY DEF PageRecorded, DoneHasPage
  <1> QED
    BY <1>1, <1>2, InitTypeInv, StepTypeInv, InitPageRecorded, PTL DEF Spec
-----------------------------------------------------------------------------
(* One call at a time                                                      *)

LEMMA InitLockHeld == Init => LockHeld
  BY DEF Init, LockHeld, IdleExec

\* The lock survives a step that starts no call and takes no lock away.
LEMMA LockKept ==
  ASSUME LockHeld,
         \A x \in Workers :
           exec'[x].pc \notin {"idle", "mark"} =>
             /\ exec[x].pc \notin {"idle", "mark"}
             /\ exec'[x].act = exec[x].act
             /\ lost[exec[x].act] => lost'[exec[x].act]
             /\ HoldsLock(x) => job'[exec[x].act] = job[exec[x].act]
                                \/ lost'[exec[x].act]
  PROVE  LockHeld'
  BY DEF LockHeld, HoldsLock

LEMMA RequestLock ==
  ASSUME TypeInv, LockHeld, NEW r \in Requests,
         Approve(r) \/ Serve(r) \/ RequestDies(r)
  PROVE  LockHeld'
  <1>1. exec' = exec /\ lost' = lost
    BY RequestQuiet
  <1>2. job' = job \/ (req[r].act \in External /\ job' = AddJob(req[r].act))
    BY DEF Approve, Serve, ApproveChecks, InlineClaim, ApproveClaim,
      EnqueueAccepted, EnqueueFails, ApproveRevert, InlineExecute, InlineSettle,
      RequestDies, TypeInv, CallsKnowAction, ReqAt
  <1>3. \A a \in Actions : job[a].state = "active" => job'[a] = job[a]
    BY <1>2 DEF AddJob, TypeInv, TypeOK, Actions
  <1>4. \A x \in Workers : exec[x].pc # "idle" => exec[x].act \in Actions
    BY DEF TypeInv, CallsKnowAction, Actions
  <1> QED
    BY <1>1, <1>3, <1>4, LockKept DEF HoldsLock

\* Every step of a call keeps the job as it is; it moves on or ends.
LEMMA ExecuteMoves ==
  ASSUME TypeInv, NEW w \in Workers, Execute(w) \/ DbError(w)
  PROVE  /\ job' = job
         /\ exec[w].pc # "idle"
         /\ exec'[w].act = exec[w].act \/ exec'[w].pc = "idle"
         /\ exec[w].pc = "mark" => exec'[w].pc = "idle"
         /\ \A x \in Workers : x # w => exec'[x] = exec[x]
         /\ \A a \in Actions : lost[a] => lost'[a]
  <1> USE DEF ExecAt
  <1>0. exec \in [Workers -> Exec]
    BY DEF TypeInv, TypeOK
  <1>1. CASE Select(w)
    <2>1. exec[w].pc = "select"
      BY <1>1 DEF Select
    <2> QED
      BY <1>1, <2>1, SelectFacts
  <1>2. CASE Recover(w) \/ Complete(w)
    <2>1. exec[w].pc \in {"recover", "complete"}
      BY <1>2 DEF Recover, Complete
    <2> QED
      BY <1>0, <1>2, <2>1, DoneFacts, ExecToFacts DEF ExecPC
  <1>3. CASE Claim(w) \/ Connect(w) \/ Resolve(w) \/ PersistUpload(w)
    <2>1. /\ exec[w].pc \in {"claim", "connect", "resolve", "persist"}
          /\ \E p \in ExecPC : ExecTo(w, p)
          /\ job' = job /\ lost' = lost
      BY <1>3 DEF Claim, Connect, Resolve, PersistUpload, ExecPC
    <2> QED
      BY <1>0, <2>1, ExecToFacts
  <1>4. CASE \E m \in Media : UploadMedia(w, m)
    <2>1. PICK m \in Media : UploadMedia(w, m)
      BY <1>4
    <2>2. \/ exec' = [exec EXCEPT ![w] = [@ EXCEPT !.pc = "persist",
                                    !.uploads = exec[w].uploads \cup {m}]]
          \/ \E p \in {"retry", "terminal"} : ExecTo(w, p)
      BY <2>1 DEF UploadMedia
    <2>3. exec[w].pc = "media" /\ job' = job /\ lost' = lost
      BY <2>1 DEF UploadMedia
    <2> QED
      BY <1>0, <2>2, <2>3, UploadedFacts, ExecToFacts DEF ExecPC
  <1>5. CASE CreatePage(w)
    <2>1. exec[w].pc = "media"
      BY <1>5 DEF CreatePage
    <2> QED
      BY <1>0, <1>5, <2>1, CreateFacts, ExecToFacts DEF ExecPC
  <1>6. CASE MarkTerminal(w) \/ MarkFinal(w)
    <2>1. \/ exec[w].pc = "terminal" /\ \E p \in {"fatal", "retry"} : ExecTo(w, p)
          \/ exec[w].pc = "mark" /\ ExecEnds(w)
      BY <1>6 DEF MarkTerminal, MarkFinal
    <2> QED
      BY <1>0, <1>6, <2>1, MarkFacts, ExecToFacts, ExecEndsFacts DEF ExecPC
  <1>7. CASE DbError(w)
    <2>1. \/ /\ exec[w].pc \notin {"idle", "mark"}
             /\ \E p \in {"retry", "terminal"} : ExecTo(w, p)
          \/ exec[w].pc = "mark" /\ ExecEnds(w)
      BY <1>7 DEF DbError
    <2>2. job' = job /\ \A a \in Actions : lost[a] => lost'[a]
      BY <1>7 DEF DbError, TypeInv, TypeOK
    <2> QED
      BY <1>0, <2>1, <2>2, ExecToFacts, ExecEndsFacts DEF ExecPC
  <1> QED
    BY <1>1, <1>2, <1>3, <1>4, <1>5, <1>6, <1>7 DEF Execute

LEMMA DeliverLock ==
  ASSUME TypeInv, LockHeld, NEW w \in Workers,
         (\E a \in External : Take(w, a)) \/ Finish(w)
  PROVE  LockHeld'
  <1> USE DEF ExecAt
  <1>0. /\ exec \in [Workers -> Exec] /\ job \in [Actions -> Job]
        /\ \A x \in Workers : exec[x].pc # "idle" => exec[x].act \in Actions
    BY DEF TypeInv, TypeOK, CallsKnowAction, Actions
  <1>1. ASSUME NEW a \in External, Take(w, a)
        PROVE  LockHeld'
    <2>1. a \in Actions /\ lost' = lost
      BY <1>1 DEF Take, Actions
    <2>2. /\ job[a].state = "waiting"
          /\ job'[a].state = "active" /\ job'[a].owner = w
          /\ \A b \in Actions : b # a => job'[b] = job[b]
      BY <1>0, <1>1, <2>1 DEF Take, Job
    <2>3. /\ exec'[w].act = a
          /\ \A x \in Workers : x # w => exec'[x] = exec[x]
      BY <1>0, <1>1 DEF Take, IdleExec
    <2> QED
      BY <1>0, <2>1, <2>2, <2>3 DEF LockHeld, HoldsLock
  <1>2. CASE Finish(w)
    <2> DEFINE a == exec[w].act
    <2>1. /\ exec[w].pc # "idle" /\ lost' = lost
          /\ ExecEnds(w) \/ ExecTo(w, "mark")
      BY <1>2 DEF Finish, FinishOk, FinishRetry, FinishFatal, FinishUnlocked,
        AfterLastAttempt
    <2>2. /\ exec'[w].pc \in {"idle", "mark"}
          /\ \A x \in Workers : x # w => exec'[x] = exec[x]
      BY <1>0, <2>1, ExecToFacts, ExecEndsFacts DEF ExecPC
    <2>3. job' = job \/ (HoldsLock(w) /\ \E new : job' = [job EXCEPT ![a] = new])
      BY <1>2 DEF Finish, FinishOk, FinishRetry, FinishFatal, FinishUnlocked
    <2>4. \A x \in Workers :
            x # w /\ exec[x].pc # "idle" /\ HoldsLock(x)
              => job'[exec[x].act] = job[exec[x].act]
      BY <1>0, <2>3 DEF HoldsLock
    <2> QED
      BY <2>1, <2>2, <2>4, LockKept
  <1> QED
    BY <1>1, <1>2

LEMMA BreakLock ==
  ASSUME TypeInv, LockHeld, NEW w \in Workers, LockExpires(w) \/ WorkerCrash(w)
  PROVE  LockHeld'
  <1> DEFINE a == exec[w].act
  <1> USE DEF ExecAt
  <1>0. /\ exec \in [Workers -> Exec] /\ job \in [Actions -> Job]
        /\ lost \in [Actions -> BOOLEAN]
        /\ \A x \in Workers : exec[x].pc # "idle" => exec[x].act \in Actions
    BY DEF TypeInv, TypeOK, CallsKnowAction, Actions
  <1>1. /\ a \in Actions
        /\ \/ job' = job
           \/ HoldsLock(w) /\ \A x \in Actions : x # a => job'[x] = job[x]
    BY <1>0 DEF LockExpires, WorkerCrash
  <1>2. \A x \in Actions : lost[x] => lost'[x]
    BY <1>0 DEF LockExpires, WorkerCrash
  <1>3. CASE LockExpires(w)
    <2>1. exec' = exec /\ lost'[a]
      BY <1>0, <1>1, <1>3 DEF LockExpires
    <2> HIDE DEF a
    <2>2. \A x \in Workers : exec[x].pc # "idle" /\ HoldsLock(x) =>
            job'[exec[x].act] = job[exec[x].act] \/ lost'[exec[x].act]
      BY <1>0, <1>1, <2>1
    <2> QED
      BY <1>0, <1>2, <2>1, <2>2, LockKept
  <1>4. CASE WorkerCrash(w)
    <2>1. exec'[w].pc = "idle" /\ \A x \in Workers : x # w => exec'[x] = exec[x]
      BY <1>0, <1>4, ExecEndsFacts DEF WorkerCrash
    <2>2. \A x \in Workers : x # w /\ exec[x].pc # "idle" /\ HoldsLock(x) =>
            job'[exec[x].act] = job[exec[x].act]
      BY <1>0, <1>1 DEF HoldsLock
    <2> QED
      BY <1>0, <1>2, <2>1, <2>2, LockKept
  <1> QED
    BY <1>3, <1>4

LEMMA StepLockHeld ==
  ASSUME TypeInv, LockHeld, Next
  PROVE  LockHeld'
  <1>0. /\ job \in [Actions -> Job]
        /\ \A x \in Workers : exec[x].pc # "idle" => exec[x].act \in Actions
    BY DEF TypeInv, TypeOK, CallsKnowAction, Actions
  <1>1. ASSUME NEW w \in Workers, Execute(w) \/ DbError(w)
        PROVE  LockHeld'
    BY <1>0, <1>1, ExecuteMoves, LockKept
  <1>2. ASSUME NEW a \in Actions, StallCheck(a) \/ EvictJob(a)
        PROVE  LockHeld'
    <2>1. exec' = exec /\ lost' = lost
      BY <1>2 DEF StallCheck, EvictJob
    <2>2. /\ job[a].state # "active" \/ job[a].owner \notin Workers
          /\ \A x \in Actions : x # a => job'[x] = job[x]
      BY <1>0, <1>2, NoneApart DEF StallCheck, EvictJob
    <2> QED
      BY <1>0, <2>1, <2>2, LockKept DEF HoldsLock
  <1>3. CASE (\E a \in Actions : Reject(a) \/ DeleteBlobs(a) \/ DeleteRows(a))
             \/ ChangeConnection
    BY <1>3, LockKept
    DEF Reject, DeleteBlobs, DeleteRows, ChangeConnection
  <1> QED
    BY <1>1, <1>2, <1>3, RequestLock, DeliverLock, BreakLock DEF Next
-----------------------------------------------------------------------------
(* One page, unless its history is lost                                    *)

\* No call starts working, and the one about to store a page does so, or the
\* page is lost track of.
WorkMoves ==
  \A x \in Workers :
    /\ exec'[x].pc \in Working =>
         exec[x].pc \in Working /\ exec'[x].act = exec[x].act
    /\ exec[x].pc = "complete" =>
         exec'[x] = exec[x] \/ lost'[exec[x].act] \/ Complete(x)

LEMMA WorkStartsOnlyBy ==
  ASSUME TypeInv, Next
  PROVE  WorkMoves \/ \E w \in Workers : Select(w) \/ CreatePage(w)
  <1> USE DEF ExecAt, WorkMoves
  <1>0. /\ exec \in [Workers -> Exec] /\ lost \in [Actions -> BOOLEAN]
        /\ \A x \in Workers : exec[x].pc # "idle" => exec[x].act \in Actions
    BY DEF TypeInv, TypeOK, CallsKnowAction, Actions
  <1>1. ASSUME exec' = exec PROVE WorkMoves
    BY <1>1
  <1>2. ASSUME NEW w \in Workers,
               exec[w].pc = "complete" => lost'[exec[w].act] \/ Complete(w),
               \/ ExecEnds(w)
               \/ \E p \in ExecPC \ Working : ExecTo(w, p)
               \/ exec[w].pc \in Working /\ \E p \in ExecPC : ExecTo(w, p)
        PROVE  WorkMoves
    BY <1>0, <1>2, ExecToFacts, ExecEndsFacts DEF Working
  <1>3. ASSUME NEW w \in Workers, Execute(w)
        PROVE  WorkMoves \/ Select(w) \/ CreatePage(w)
    <2>1. CASE Recover(w) \/ Complete(w) \/ MarkTerminal(w) \/ MarkFinal(w)
      <3>1. \/ ExecEnds(w)
            \/ \E p \in {"ok", "retry", "terminal", "fatal"} : ExecTo(w, p)
        BY <2>1 DEF Recover, Complete, MarkTerminal, MarkFinal
      <3>2. exec[w].pc = "complete" => Complete(w)
        BY <2>1 DEF Recover, MarkTerminal, MarkFinal
      <3> QED
        BY <1>2, <3>1, <3>2 DEF ExecPC, Working
    <2>2. CASE Claim(w) \/ Connect(w) \/ Resolve(w) \/ PersistUpload(w)
      <3>1. exec[w].pc \in Working /\ \E p \in ExecPC : ExecTo(w, p)
        BY <2>2 DEF Claim, Connect, Resolve, PersistUpload, ExecPC, Working
      <3> QED
        BY <1>2, <3>1 DEF Working
    <2>3. ASSUME NEW m \in Media, UploadMedia(w, m)
          PROVE  WorkMoves
      <3>1. \/ exec' = [exec EXCEPT ![w] = [@ EXCEPT !.pc = "persist",
                                      !.uploads = exec[w].uploads \cup {m}]]
            \/ \E p \in {"retry", "terminal"} : ExecTo(w, p)
        BY <2>3 DEF UploadMedia
      <3>2. exec[w].pc = "media"
        BY <2>3 DEF UploadMedia
      <3>3. /\ exec'[w].act = exec[w].act
            /\ \A x \in Workers : x # w => exec'[x] = exec[x]
        BY <1>0, <3>1, UploadedFacts, ExecToFacts DEF ExecPC
      <3> QED
        BY <3>2, <3>3 DEF Working
    <2> QED
      BY <1>3, <2>1, <2>2, <2>3 DEF Execute
  <1>4. ASSUME NEW w \in Workers, NEW a \in External, Take(w, a)
        PROVE  WorkMoves
    <2>1. /\ exec[w].pc = "idle" /\ exec'[w].pc = "select"
          /\ \A x \in Workers : x # w => exec'[x] = exec[x]
      BY <1>0, <1>4 DEF Take, IdleExec
    <2> QED
      BY <2>1 DEF Working
  <1>5. ASSUME NEW w \in Workers, Finish(w)
        PROVE  WorkMoves
    <2>1. exec[w].pc # "complete" /\ (ExecEnds(w) \/ ExecTo(w, "mark"))
      BY <1>5 DEF Finish, FinishOk, FinishRetry, FinishFatal, FinishUnlocked,
        AfterLastAttempt
    <2> QED
      BY <1>2, <2>1 DEF ExecPC, Working
  <1>6. ASSUME NEW w \in Workers, WorkerCrash(w) \/ DbError(w)
        PROVE  WorkMoves
    <2>1. \/ ExecEnds(w)
          \/ \E p \in {"retry", "terminal"} : ExecTo(w, p)
      BY <1>6 DEF WorkerCrash, DbError
    <2>2. exec[w].pc = "complete" => lost'[exec[w].act]
      BY <1>0, <1>6 DEF WorkerCrash, DbError
    <2> QED
      BY <1>2, <2>1, <2>2 DEF ExecPC, Working
  <1>7. CASE \/ \E w \in Workers : LockExpires(w)
             \/ \E a \in Actions : \/ Reject(a) \/ StallCheck(a) \/ EvictJob(a)
                                   \/ DeleteBlobs(a) \/ DeleteRows(a)
             \/ ChangeConnection
    BY <1>1, <1>7
    DEF LockExpires, Reject, StallCheck, EvictJob, DeleteBlobs, DeleteRows,
        ChangeConnection
  <1> QED
    BY <1>1, <1>3, <1>4, <1>5, <1>6, <1>7, RequestQuiet DEF Next

LEMMA InitPageTracked == Init => PageTracked
  BY DEF Init, PageTracked, IdleExec, Working, Actions

\* Two calls at work on an action whose history is not lost are one call.
LEMMA OneAtATime ==
  ASSUME LockHeld,
         NEW x \in Workers, exec[x].pc \notin {"idle", "mark"},
         NEW y \in Workers, exec[y].pc \notin {"idle", "mark"},
         exec[x].act = exec[y].act, ~lost[exec[x].act]
  PROVE  x = y
  BY DEF LockHeld, HoldsLock

LEMMA StepPageTracked ==
  ASSUME TypeInv, LockHeld, PageTracked, Next
  PROVE  PageTracked'
  <1>0. /\ exec \in [Workers -> Exec] /\ lost \in [Actions -> BOOLEAN]
        /\ \A a \in External : a \in Actions /\ pages[a] \in 0..Cap
        /\ \A x \in Workers : exec[x].pc # "idle" => exec[x].act \in External
    BY DEF TypeInv, TypeOK, CallsKnowAction, Actions
  <1>1. ASSUME NEW w \in Workers, Complete(w)
        PROVE  \/ row'[exec[w].act].page
               \/ row'[exec[w].act].status = "absent"
    <2>1. ExecAt(w, "complete")
      BY <1>1 DEF Complete
    <2> QED
      BY <1>1, <2>1, DoneFacts
  <1>2. ASSUME pages' = pages, WorkMoves,
               \A a \in External :
                 /\ lost[a] => lost'[a]
                 /\ row[a].page \/ row[a].status = "absent"
                      => row'[a].page \/ row'[a].status = "absent" \/ lost'[a]
        PROVE  PageTracked'
    <2> SUFFICES ASSUME NEW a \in External, ~lost'[a]
                 PROVE  /\ \/ pages'[a] = 0 \/ row'[a].page
                           \/ row'[a].status = "absent"
                           \/ \E w \in Workers : exec'[w].pc = "complete"
                                                 /\ exec'[w].act = a
                        /\ \A w \in Workers :
                             exec'[w].act = a /\ exec'[w].pc \in Working
                               => pages'[a] = 0
                        /\ pages'[a] <= 1
      BY DEF PageTracked
    <2>1. ~lost[a]
      BY <1>2
    <2>2. ASSUME NEW w \in Workers, exec[w].pc = "complete", exec[w].act = a
          PROVE  \/ exec'[w] = exec[w] \/ row'[a].page \/ row'[a].status = "absent"
      BY <1>1, <1>2, <2>2 DEF WorkMoves
    <2>3. ASSUME NEW w \in Workers, exec'[w].act = a, exec'[w].pc \in Working
          PROVE  pages'[a] = 0
      BY <1>2, <2>1, <2>3 DEF WorkMoves, PageTracked
    <2>4. \/ pages[a] = 0 \/ row[a].page \/ row[a].status = "absent"
          \/ \E w \in Workers : exec[w].pc = "complete" /\ exec[w].act = a
      BY <2>1 DEF PageTracked
    <2> QED
      BY <1>2, <2>1, <2>2, <2>3, <2>4 DEF PageTracked
  <1>3. ASSUME Quiet, WorkMoves
        PROVE  PageTracked'
    <2>1. \A a \in External : row[a].page \/ row[a].status = "absent"
            => row'[a].page \/ row'[a].status = "absent"
      BY <1>3 DEF Quiet, RowKept
    <2> QED
      BY <1>2, <1>3, <2>1 DEF Quiet
  <1>4. ASSUME NEW w \in Workers, Recover(w) \/ Complete(w), WorkMoves
        PROVE  PageTracked'
    <2> DEFINE b == exec[w].act
    <2>1. row[b].page \/ row[b].status = "absent"
            => row'[b].page \/ row'[b].status = "absent"
      BY <1>4, DoneFacts
    <2> HIDE DEF b
    <2> QED
      BY <1>0, <1>2, <1>4, <2>1, DoneFacts DEF b
  <1>5. ASSUME NEW w \in Workers, MarkTerminal(w) \/ MarkFinal(w), WorkMoves
        PROVE  PageTracked'
    BY <1>0, <1>2, <1>5, MarkFacts DEF InFlight
  <1>6. ASSUME NEW b \in Actions, DeleteRows(b), WorkMoves
        PROVE  PageTracked'
    BY <1>0, <1>2, <1>6, DeletedRow
  <1>7. ASSUME NEW w \in Workers, Select(w)
        PROVE  PageTracked'
    <2> DEFINE b == exec[w].act
    <2>1. /\ exec'[w].act = b /\ exec'[w].pc \in {"ok", "recover", "claim"}
          /\ exec[w].pc = "select" /\ b \in External
          /\ exec'[w].pc = "claim" => ~row[b].page /\ row[b].status # "absent"
      <3>1. /\ AfterSelect(b) \in {"ok", "recover", "claim"}
            /\ AfterSelect(b) = "claim" => ~row[b].page /\ row[b].status # "absent"
        BY DEF AfterSelect, InFlight
      <3>2. exec[w].pc = "select"
        BY <1>7 DEF Select, ExecAt
      <3> QED
        BY <1>7, <3>1, <3>2, SelectFacts
    <2>2. /\ \A x \in Workers : x # w => exec'[x] = exec[x]
          /\ row' = row /\ pages' = pages /\ lost' = lost
      BY <1>7, SelectFacts
    <2>3. ~lost[b] => ~\E x \in Workers : exec[x].pc = "complete" /\ exec[x].act = b
      BY <2>1, OneAtATime
    <2>4. ~lost[b] /\ exec'[w].pc = "claim" => pages[b] = 0
      BY <2>1, <2>3 DEF PageTracked
    <2> HIDE DEF b
    <2> QED
      BY <2>1, <2>2, <2>4 DEF PageTracked, Working
  <1>8. ASSUME NEW w \in Workers, CreatePage(w)
        PROVE  PageTracked'
    <2> DEFINE b == exec[w].act
    <2>1. /\ b \in External /\ b \in Actions /\ exec[w].pc = "media"
          /\ row' = row
          /\ \A x \in Actions : x # b => pages'[x] = pages[x] /\ lost'[x] = lost[x]
          /\ lost[b] => lost'[b]
      BY <1>8, CreateFacts DEF CreatePage, ExecAt
    <2>2. /\ exec'[w].act = b
          /\ exec'[w].pc \in {"complete", "retry", "terminal"}
          /\ \A x \in Workers : x # w => exec'[x] = exec[x]
          /\ ~lost'[b] => \/ pages'[b] = pages[b]
                          \/ /\ pages'[b] = Bump(pages[b])
                             /\ exec'[w].pc = "complete"
      BY <1>0, <1>8, CreateFacts, ExecToFacts DEF ExecPC
    <2>3. ~lost[b] => pages[b] = 0
      BY <2>1 DEF PageTracked, Working
    <2>4. Bump(0) = 1
      BY ConstantsOK DEF Bump
    <2>5. ~lost[b] => \A x \in Workers : x # w /\ exec[x].act = b
                                           => exec[x].pc \notin Working
      BY <2>1, OneAtATime DEF Working
    <2>6. ~lost'[b] =>
            /\ pages'[b] <= 1
            /\ pages'[b] = 0 \/ exec'[w].pc = "complete"
            /\ \A x \in Workers : exec'[x].act = b => exec'[x].pc \notin Working
      BY <2>1, <2>2, <2>3, <2>4, <2>5 DEF Working
    <2>7. ASSUME NEW a \in External, a # b, ~lost'[a]
          PROVE  /\ \/ pages'[a] = 0 \/ row'[a].page
                    \/ row'[a].status = "absent"
                    \/ \E x \in Workers : exec'[x].pc = "complete"
                                          /\ exec'[x].act = a
                 /\ \A x \in Workers :
                      exec'[x].act = a /\ exec'[x].pc \in Working
                        => pages'[a] = 0
                 /\ pages'[a] <= 1
      <3>1. ~lost[a] /\ pages'[a] = pages[a] /\ row'[a] = row[a]
        BY <1>0, <2>1, <2>7
      <3>2. \A x \in Workers : exec[x].act = a \/ exec'[x].act = a
                                 => exec'[x] = exec[x]
        BY <2>2, <2>7
      <3> QED
        BY <3>1, <3>2 DEF PageTracked
    <2> HIDE DEF b
    <2> QED
      BY <2>2, <2>6, <2>7 DEF PageTracked
  <1> QED
    BY <1>3, <1>4, <1>5, <1>6, <1>7, <1>8, LoudSteps, WorkStartsOnlyBy

\* Without a lost reply, a crash before the record, an expired lock or a record
\* erased by a failure mark, retries, redeliveries, approvals that are reverted
\* and repeated, rejections and deletions never write a second page.
THEOREM OnePageUnlessLost == Spec => []DuplicateNeedsLoss
  <1>1. LockHeld /\ PageTracked /\ UNCHANGED vars => LockHeld' /\ PageTracked'
    BY DEF LockHeld, HoldsLock, PageTracked, vars
  <1>2. TypeInv /\ LockHeld /\ PageTracked /\ [Next]_vars
          => LockHeld' /\ PageTracked'
    BY <1>1, StepLockHeld, StepPageTracked
  <1>3. TypeInv /\ PageTracked => DuplicateNeedsLoss
    BY DEF PageTracked, DuplicateNeedsLoss, TypeInv, TypeOK, Actions
  <1> QED
    BY <1>2, <1>3, InitTypeInv, StepTypeInv, InitLockHeld, InitPageTracked, PTL
    DEF Spec
-----------------------------------------------------------------------------
(* Internal actions: one request, one task                                 *)

\* An internal action is in the hands of the one request that claimed it.
Inline(r, a) == req[r].pc \in {"execute", "done", "failed"} /\ req[r].act = a
InlineInOrder ==
  \A a \in Internal :
    /\ row[a].status = "proposed" =>
         tasks[a] = 0 /\ \A r \in Requests : ~Inline(r, a)
    /\ \A r \in Requests : Inline(r, a) =>
         /\ row[a].status \in {"executing", "absent"}
         /\ req[r].pc = "execute" => tasks[a] = 0
         /\ req[r].pc = "done" => tasks[a] = 1
         /\ \A q \in Requests : Inline(q, a) => q = r
    /\ tasks[a] <= 1
    /\ row[a].status = "done" => tasks[a] = 1

LEMMA InitInline == Init => InlineInOrder
  BY DEF Init, InlineInOrder, Inline, ProposedRow, IdleReq, Actions

\* No request comes to hold an internal action, and none is settled.
InlineKept ==
  /\ \A a \in Internal : row'[a] = row[a]
  /\ tasks' = tasks
  /\ \A r \in Requests : \/ req'[r] = req[r]
                         \/ req'[r].pc \notin {"execute", "done", "failed"}

LEMMA InlineStays == InlineInOrder /\ InlineKept => InlineInOrder'
  BY DEF InlineInOrder, InlineKept, Inline

\* A step of a worker or of BullMQ touches no internal action.
LEMMA WorkerInline ==
  ASSUME TypeInv, NEW w \in Workers,
         \/ \E a \in External : Take(w, a)
         \/ Execute(w) \/ Finish(w)
         \/ LockExpires(w) \/ WorkerCrash(w) \/ DbError(w)
  PROVE  InlineKept
  <1> DEFINE b == exec[w].act
  <1>0. \A a \in Internal : a \in Actions /\ a \notin External
    BY ConstantsOK DEF Actions
  <1>1. row' = row => \A a \in Internal : row'[a] = row[a]
    OBVIOUS
  <1>2. ASSUME b \in External, \E new : row' = [row EXCEPT ![b] = new]
        PROVE  \A a \in Internal : row'[a] = row[a]
    BY <1>0, <1>2 DEF TypeInv, TypeOK
  <1>3. tasks' = tasks /\ req' = req
    BY DEF Take, Execute, Select, Recover, Claim, Connect, Resolve, UploadMedia,
      PersistUpload, CreatePage, Complete, MarkTerminal, MarkFinal, Finish,
      FinishOk, FinishRetry, FinishFatal, FinishUnlocked, LockExpires,
      WorkerCrash, DbError, effects
  <1>4. CASE Recover(w) \/ Complete(w) \/ MarkTerminal(w) \/ MarkFinal(w)
    BY <1>0, <1>3, <1>4, DoneFacts, MarkFacts DEF InlineKept
  <1>5. CASE Claim(w) \/ PersistUpload(w)
    <2>1. b \in External
      BY <1>5 DEF Claim, PersistUpload, ExecAt, TypeInv, CallsKnowAction
    <2>2. \A a \in Internal : a # b
      BY <1>0, <2>1
    <2>3. \A a \in Actions : a # b => row'[a] = row[a]
      BY <1>5 DEF Claim, PersistUpload, Update, TypeInv, TypeOK
    <2> HIDE DEF b
    <2> QED
      BY <1>0, <1>3, <2>2, <2>3 DEF InlineKept
  <1>6. CASE \/ \E a \in External : Take(w, a)
             \/ Select(w) \/ Connect(w) \/ Resolve(w)
             \/ \E m \in Media : UploadMedia(w, m)
             \/ CreatePage(w) \/ Finish(w)
             \/ LockExpires(w) \/ WorkerCrash(w) \/ DbError(w)
    <2>1. row' = row
      BY <1>6 DEF Take, Select, Connect, Resolve, UploadMedia, CreatePage, Finish,
        FinishOk, FinishRetry, FinishFatal, FinishUnlocked, LockExpires,
        WorkerCrash, DbError
    <2> QED
      BY <1>3, <2>1 DEF InlineKept
  <1> QED
    BY <1>4, <1>5, <1>6 DEF Execute

\* The steps of an external approval, and a request that dies.
LEMMA ApprovalInline ==
  ASSUME TypeInv, NEW r \in Requests,
         \/ \E a \in External, M \in SUBSET Media : ApproveChecks(r, a, M)
         \/ ApproveClaim(r) \/ EnqueueAccepted(r) \/ EnqueueFails(r)
         \/ ApproveRevert(r) \/ RequestDies(r)
  PROVE  InlineKept
  <1> DEFINE b == req[r].act
  <1>0. \A a \in Internal : a \in Actions /\ a \notin External
    BY ConstantsOK DEF Actions
  <1>1. req \in [Requests -> Req] /\ row \in [Actions -> Row]
    BY DEF TypeInv, TypeOK
  <1>2. \/ \E a \in External, M \in SUBSET Media :
             req' = [req EXCEPT ![r] = [pc |-> "claim", act |-> a, media |-> M]]
        \/ ReqTo(r, "enqueue") \/ ReqTo(r, "revert") \/ ReqEnds(r)
    BY DEF ApproveChecks, ApproveClaim, EnqueueAccepted, EnqueueFails,
      ApproveRevert, RequestDies
  <1>3. \A q \in Requests : \/ req'[q] = req[q]
                            \/ req'[q].pc \notin {"execute", "done", "failed"}
    BY <1>1, <1>2, ReqToFacts, ReqEndsFacts DEF ReqPC
  <1>4. tasks' = tasks
    BY DEF ApproveChecks, ApproveClaim, EnqueueAccepted, EnqueueFails,
      ApproveRevert, RequestDies, effects
  <1>5. row' = row \/ (b \in External /\ \A a \in Actions : a # b => row'[a] = row[a])
    BY <1>1 DEF ApproveChecks, ApproveClaim, EnqueueAccepted, EnqueueFails,
      ApproveRevert, RequestDies, Update, ReqAt, TypeInv, CallsKnowAction
  <1> HIDE DEF b
  <1> QED
    BY <1>0, <1>3, <1>4, <1>5 DEF InlineKept

LEMMA StepInline ==
  ASSUME TypeInv, InlineInOrder, Next
  PROVE  InlineInOrder'
  <1> USE DEF ReqAt
  <1>0. /\ req \in [Requests -> Req] /\ row \in [Actions -> Row]
        /\ tasks \in [Actions -> 0..Cap]
        /\ \A a \in Internal : a \in Actions
        /\ Bump(0) = 1
    BY ConstantsOK DEF TypeInv, TypeOK, Actions, Bump
  <1>1. ASSUME NEW r \in Requests, NEW b \in Internal, InlineClaim(r, b)
        PROVE  InlineInOrder'
    <2>1. /\ row[b].status = "proposed" /\ tasks' = tasks
          /\ row'[b].status = "executing"
          /\ \A a \in Internal : a # b => row'[a] = row[a]
      BY <1>0, <1>1 DEF InlineClaim, Claimable, effects, Row
    <2>2. /\ req'[r].pc = "execute" /\ req'[r].act = b
          /\ \A q \in Requests : q # r => req'[q] = req[q]
      BY <1>0, <1>1 DEF InlineClaim, IdleReq
    <2>3. tasks[b] = 0 /\ \A q \in Requests : ~Inline(q, b)
      BY <2>1 DEF InlineInOrder
    <2> QED
      BY <2>1, <2>2, <2>3 DEF InlineInOrder, Inline
  <1>2. ASSUME NEW r \in Requests, InlineExecute(r)
        PROVE  InlineInOrder'
    <2> PICK b \in Internal : b = req[r].act
      BY <1>2 DEF InlineExecute, TypeInv, CallsKnowAction
    <2>0. req[r].pc = "execute" /\ row' = row /\ Inline(r, b)
      BY <1>2 DEF InlineExecute, Inline
    <2>1. /\ b \in Internal /\ req[r].pc = "execute" /\ row' = row
          /\ tasks[b] = 0
          /\ row[b].status \in {"executing", "absent"}
      BY <2>0 DEF InlineInOrder
    <2>2. /\ \A a \in Internal : a # b => tasks'[a] = tasks[a]
          /\ tasks'[b] = tasks[b] \/ tasks'[b] = 1
          /\ \/ ReqTo(r, "done") /\ tasks'[b] = 1
             \/ ReqTo(r, "failed")
      BY <1>0, <1>2, <2>1 DEF InlineExecute
    <2>3. /\ req'[r].act = b /\ req'[r].pc \in {"done", "failed"}
          /\ req'[r].pc = "done" => tasks'[b] = 1
          /\ \A q \in Requests : q # r => req'[q] = req[q]
      BY <1>0, <2>2, ReqToFacts DEF ReqPC
    <2>4. \A q \in Requests : Inline(q, b) => q = r
      BY <2>0 DEF InlineInOrder
    <2>5. ASSUME NEW a \in Internal, a # b
          PROVE  tasks'[a] = tasks[a] /\ \A q \in Requests : Inline(q, a)' =>
                   Inline(q, a) /\ req'[q] = req[q]
      BY <2>2, <2>3, <2>5 DEF Inline
    <2>6. \A q \in Requests : Inline(q, b)' => q = r
      BY <2>3, <2>4 DEF Inline
    <2> QED
      BY <2>1, <2>2, <2>3, <2>5, <2>6 DEF InlineInOrder
  <1>3. ASSUME NEW r \in Requests, InlineSettle(r)
        PROVE  InlineInOrder'
    <2> PICK b \in Internal : b = req[r].act
      BY <1>3 DEF InlineSettle, TypeInv, CallsKnowAction
    <2>1. /\ Inline(r, b) /\ tasks' = tasks
          /\ req[r].pc \in {"done", "failed"}
      BY <1>3 DEF InlineSettle, Inline, effects
    <2>2. /\ req'[r].pc = "idle"
          /\ \A q \in Requests : q # r => req'[q] = req[q]
      BY <1>0, <1>3, ReqEndsFacts DEF InlineSettle
    <2>3. /\ \A a \in Internal : a # b => row'[a] = row[a]
          /\ row'[b].status = "absent" \/ row'[b].status = req[r].pc
      <3> DEFINE new == [row[b] EXCEPT !.status = req[r].pc]
      <3>1. new.status = req[r].pc
        BY <1>0 DEF Row
      <3>2. row' = Update(b, new)
        BY <1>3 DEF InlineSettle
      <3> HIDE DEF new
      <3> QED
        BY <1>0, <3>1, <3>2, UpdateRow
    <2>4. /\ req[r].pc = "done" => tasks[b] = 1
          /\ \A q \in Requests : Inline(q, b) => q = r
      BY <2>1 DEF InlineInOrder
    <2>5. \A a \in Internal, q \in Requests :
            Inline(q, a)' => q # r /\ Inline(q, a) /\ req'[q] = req[q]
      BY <2>2 DEF Inline
    <2> QED
      BY <2>1, <2>3, <2>4, <2>5 DEF InlineInOrder
  <1>4. ASSUME NEW b \in Actions, Reject(b) \/ DeleteRows(b)
        PROVE  InlineInOrder'
    <2>1. /\ req' = req /\ tasks' = tasks
          /\ \A a \in Actions : a # b => row'[a] = row[a]
          /\ \/ row'[b].status = "absent"
             \/ row'[b].status = "rejected" /\ row[b].status = "proposed"
      BY <1>0, <1>4 DEF Reject, DeleteRows, ProposedRow, effects, Row
    <2> QED
      BY <1>0, <2>1 DEF InlineInOrder, Inline
  <1>5. CASE \/ \E a \in Actions : StallCheck(a) \/ EvictJob(a) \/ DeleteBlobs(a)
             \/ ChangeConnection
    BY <1>5, InlineStays
    DEF StallCheck, EvictJob, DeleteBlobs, ChangeConnection, InlineKept, effects
  <1> QED
    BY <1>1, <1>2, <1>3, <1>4, <1>5, WorkerInline, ApprovalInline, InlineStays
    DEF Next, Approve, Serve

\* However many approvals race, die or time out, an internal action inserts its
\* task at most once, and is shown as done only with the task in place.
THEOREM TaskInsertedOnce == Spec => []InternalOnce
  <1>1. InlineInOrder /\ UNCHANGED vars => InlineInOrder'
    BY DEF InlineInOrder, Inline, vars
  <1>2. TypeInv /\ InlineInOrder /\ [Next]_vars => InlineInOrder'
    BY <1>1, StepInline
  <1>3. InlineInOrder => InternalOnce
    BY DEF InlineInOrder, InternalOnce
  <1> QED
    BY <1>2, <1>3, InitTypeInv, StepTypeInv, InitInline, PTL DEF Spec
-----------------------------------------------------------------------------
(* External actions: approved, handed over, worked on                      *)

\* A queue whose failed add left no job, and calls that keep their lock.
Reliable == Faults \cap {"enqueue_reply_lost", "lock_lost"} = {}

\* No job and no call knows an external action ...
Untouched(a) ==
  /\ job[a].state = "none"
  /\ \A w \in Workers : exec[w].pc # "idle" => exec[w].act # a

\* ... until the one approval that claimed it has handed it to the queue.
Claiming(r, a) == req[r].pc \in {"enqueue", "revert"} /\ req[r].act = a
Handed(a) ==
  /\ row[a].status = "proposed" =>
       Untouched(a) /\ \A r \in Requests : ~Claiming(r, a)
  /\ \A r \in Requests : Claiming(r, a) =>
       /\ row[a].status \in {"queued", "absent"}
       /\ Untouched(a)
       /\ \A q \in Requests : Claiming(q, a) => q = r
  /\ row[a].page => row[a].status = "done"
HandedOver == \A a \in External : Handed(a)

\* A call works under its lock, on the row as it read it: from its claim on nobody
\* else settles the action, changes what was approved or records an upload.
Claimed == {"connect", "resolve", "media", "persist", "complete"}
InOrder(w) ==
  LET a == exec[w].act IN
  /\ exec[w].pc \notin {"idle", "mark"} => HoldsLock(w)
  /\ exec[w].pc = "mark" => job[a].state \in {"none", "failed"}
  /\ exec[w].pc # "recover"
  /\ exec[w].pc = "claim" => row[a].status \in InFlight \cup {"absent"}
  /\ exec[w].pc \in Claimed => row[a].status \in {"executing", "absent"}
  /\ exec[w].pc \in Claimed \cup {"claim"} =>
       row[a].status = "absent" \/ exec[w].media = row[a].media
  /\ exec[w].pc \in Working => row[a].uploads \subseteq exec[w].uploads
  /\ exec[w].pc = "complete" => pages[a] > 0
CallsInOrder == \A w \in Workers : InOrder(w)

OrderInv == HandedOver /\ CallsInOrder

LEMMA InitOrder == Init => OrderInv
  <1> SUFFICES ASSUME Init PROVE OrderInv
    OBVIOUS
  <1>1. HandedOver
    BY DEF Init, HandedOver, Handed, Untouched, Claiming, ProposedRow, NoJob,
      IdleReq, IdleExec, Actions
  <1>2. CallsInOrder
    BY DEF Init, CallsInOrder, InOrder, IdleExec, Claimed, Working
  <1> QED
    BY <1>1, <1>2 DEF OrderInv

\* An action that no job, call or approval comes to know stays in order ...
LEMMA HandedKept ==
  ASSUME NEW a \in External, Handed(a),
         row'[a].status = row[a].status, row'[a].page = row[a].page,
         job[a].state = "none" => job'[a].state = "none",
         \A w \in Workers : exec'[w].pc # "idle" /\ exec'[w].act = a =>
                              exec[w].pc # "idle" /\ exec[w].act = a,
         \A r \in Requests : Claiming(r, a)' => Claiming(r, a)
  PROVE  Handed(a)'
  <1>1. Untouched(a) => Untouched(a)'
    BY DEF Untouched
  <1> QED
    BY <1>1 DEF Handed

\* ... and so does a call whose action nobody else changes.
LEMMA InOrderKept ==
  ASSUME NEW w \in Workers, InOrder(w), exec'[w] = exec[w],
         exec[w].pc # "idle" =>
           /\ row'[exec[w].act] = row[exec[w].act]
           /\ job'[exec[w].act] = job[exec[w].act]
           /\ pages[exec[w].act] > 0 => pages'[exec[w].act] > 0
  PROVE  InOrder(w)'
  <1>1. CASE exec[w].pc = "idle"
    BY <1>1 DEF InOrder, Claimed, Working
  <1>2. CASE exec[w].pc # "idle"
    BY <1>2 DEF InOrder, HoldsLock
  <1> QED
    BY <1>1, <1>2

\* While a call holds the lock of its action no other call is at it.
LEMMA Alone ==
  ASSUME CallsInOrder,
         NEW w \in Workers, HoldsLock(w),
         NEW x \in Workers, x # w, exec[x].pc # "idle"
  PROVE  exec[x].act # exec[w].act
  BY DEF CallsInOrder, InOrder, HoldsLock

\* An action somebody works on is neither proposed nor being claimed.
LEMMA Touched ==
  ASSUME HandedOver, NEW a \in External, ~Untouched(a)
  PROVE  /\ row[a].status # "proposed"
         /\ \A r \in Requests : ~Claiming(r, a)
  BY DEF HandedOver, Handed

LEMMA RequestOrder ==
  ASSUME Reliable, TypeInv, OrderInv, NEW r \in Requests,
         Approve(r) \/ Serve(r) \/ RequestDies(r)
  PROVE  OrderInv'
  <1> USE DEF ReqAt, OrderInv, HandedOver, CallsInOrder
  <1>0. /\ req \in [Requests -> Req] /\ row \in [Actions -> Row]
        /\ job \in [Actions -> Job]
        /\ \A a \in External : a \in Actions /\ a \notin Internal
        /\ \A w \in Workers : exec[w].pc # "idle" => exec[w].act \in External
    BY ConstantsOK DEF TypeInv, TypeOK, CallsKnowAction, Actions
  <1>1. exec' = exec /\ pages' = pages
    BY RequestQuiet DEF Quiet
  \* What a step that changes no external action, or only b, leaves in order.
  <1>2. ASSUME \A a \in External :
                 /\ row'[a] = row[a] /\ job'[a] = job[a]
                 /\ \A q \in Requests : Claiming(q, a)' => Claiming(q, a)
        PROVE  OrderInv'
    BY <1>0, <1>1, <1>2, HandedKept, InOrderKept
  <1>3. ASSUME NEW b \in External, Untouched(b), Handed(b)',
               \A a \in External : a # b =>
                 /\ row'[a] = row[a] /\ job'[a] = job[a]
                 /\ \A q \in Requests : Claiming(q, a)' => Claiming(q, a)
        PROVE  OrderInv'
    <2>1. \A w \in Workers : exec[w].pc # "idle" => exec[w].act # b
      BY <1>3 DEF Untouched
    <2>2. \A w \in Workers : InOrder(w)'
      BY <1>0, <1>1, <1>3, <2>1, InOrderKept
    <2>3. \A a \in External : a # b => Handed(a)'
      BY <1>0, <1>1, <1>3, HandedKept
    <2> QED
      BY <1>3, <2>2, <2>3
  <1>4. ASSUME ReqEnds(r)
        PROVE  \A q \in Requests, a \in External :
                 Claiming(q, a)' => Claiming(q, a) /\ q # r
    BY <1>0, <1>4, ReqEndsFacts DEF Claiming
  <1>5. ASSUME NEW p \in ReqPC, ReqTo(r, p)
        PROVE  \A q \in Requests, a \in External : Claiming(q, a)' =>
                 \/ Claiming(q, a) /\ q # r
                 \/ q = r /\ a = req[r].act /\ p \in {"enqueue", "revert"}
    BY <1>0, <1>5, ReqToFacts DEF Claiming
  <1>6. CASE \E a \in External, M \in SUBSET Media : ApproveChecks(r, a, M)
    <2>1. \A q \in Requests, a \in External : Claiming(q, a)' => Claiming(q, a)
      BY <1>0, <1>6 DEF ApproveChecks, Claiming
    <2> QED
      BY <1>2, <1>6, <2>1 DEF ApproveChecks
  <1>7. ASSUME NEW c \in Internal, InlineClaim(r, c)
        PROVE  OrderInv'
    <2>1. \A q \in Requests, a \in External : Claiming(q, a)' => Claiming(q, a)
      BY <1>0, <1>7 DEF InlineClaim, IdleReq, Claiming
    <2>2. \A a \in External : row'[a] = row[a] /\ job'[a] = job[a]
      BY <1>0, <1>7 DEF InlineClaim
    <2> QED
      BY <1>2, <2>1, <2>2
  <1>8. CASE ApproveClaim(r)
    <2> PICK b \in External : b = req[r].act
      BY <1>8 DEF ApproveClaim, TypeInv, CallsKnowAction
    <2>1. CASE row' = row /\ ReqEnds(r)
      BY <1>2, <1>4, <1>8, <2>1 DEF ApproveClaim
    <2>2. CASE /\ Claimable(b) /\ ReqTo(r, "enqueue")
               /\ row' = [row EXCEPT ![b] = [@ EXCEPT !.status = "queued",
                                                      !.approved = TRUE,
                                                      !.media = req[r].media]]
      <3>1. /\ row'[b].status = "queued" /\ row'[b].page = row[b].page
            /\ \A a \in External : a # b => row'[a] = row[a]
        BY <1>0, <2>2 DEF Row
      <3>2. /\ Untouched(b) /\ \A q \in Requests : ~Claiming(q, b)
            /\ ~row[b].page
        BY <2>2 DEF Claimable, Handed
      <3>3. \A q \in Requests, a \in External : Claiming(q, a)' =>
              Claiming(q, a) \/ (q = r /\ a = b)
        BY <1>5, <2>2 DEF ReqPC
      <3>4. job' = job
        BY <1>8 DEF ApproveClaim
      <3>5. Handed(b)'
        BY <1>1, <3>1, <3>2, <3>3, <3>4 DEF Handed, Untouched
      <3> QED
        BY <1>3, <3>1, <3>2, <3>3, <3>4, <3>5
    <2> QED
      BY <1>8, <2>1, <2>2 DEF ApproveClaim
  <1>9. CASE EnqueueAccepted(r)
    <2> PICK b \in External : b = req[r].act
      BY <1>9 DEF EnqueueAccepted, TypeInv, CallsKnowAction
    <2>1. Claiming(r, b) /\ row' = row
      BY <1>9 DEF EnqueueAccepted, Claiming
    <2>2. /\ row[b].status \in {"queued", "absent"} /\ Untouched(b)
          /\ \A q \in Requests : Claiming(q, b) => q = r
      BY <2>1 DEF Handed
    <2>3. \A a \in External : a # b => job'[a] = job[a]
      BY <1>0, <1>9 DEF EnqueueAccepted, AddJob
    <2>4. \A q \in Requests, a \in External :
            Claiming(q, a)' => Claiming(q, a) /\ q # r
      BY <1>4, <1>9 DEF EnqueueAccepted
    <2>5. Handed(b)'
      BY <2>1, <2>2, <2>4 DEF Handed
    <2> QED
      BY <1>3, <2>1, <2>2, <2>3, <2>4, <2>5
  <1>10. CASE EnqueueFails(r)
    <2>1. row' = row /\ job' = job /\ ReqTo(r, "revert") /\ Claiming(r, req[r].act)
      BY <1>10 DEF EnqueueFails, Reliable, Claiming
    <2>2. \A q \in Requests, a \in External : Claiming(q, a)' => Claiming(q, a)
      BY <1>5, <2>1 DEF ReqPC
    <2> QED
      BY <1>2, <2>1, <2>2
  <1>11. CASE ApproveRevert(r)
    <2> PICK b \in External : b = req[r].act
      BY <1>11 DEF ApproveRevert, TypeInv, CallsKnowAction
    <2>1. Claiming(r, b) /\ job' = job
      BY <1>11 DEF ApproveRevert, Claiming
    <2>2. /\ row[b].status \in {"queued", "absent"} /\ Untouched(b)
          /\ \A q \in Requests : Claiming(q, b) => q = r
          /\ ~row[b].page
      BY <2>1 DEF Handed
    <2>3. /\ row'[b].page = row[b].page
          /\ \A a \in External : a # b => row'[a] = row[a]
      <3> DEFINE new == [row[b] EXCEPT !.status = "proposed", !.approved = FALSE]
      <3>1. row' = Update(b, new)
        BY <1>11 DEF ApproveRevert
      <3>2. new.page = row[b].page
        BY <1>0 DEF Row
      <3> HIDE DEF new
      <3> QED
        BY <1>0, <3>1, <3>2, UpdateRow
    <2>4. \A q \in Requests, a \in External :
            Claiming(q, a)' => Claiming(q, a) /\ q # r
      BY <1>4, <1>11 DEF ApproveRevert
    <2>5. Handed(b)'
      BY <1>1, <2>1, <2>2, <2>3, <2>4 DEF Handed, Untouched
    <2> QED
      BY <1>3, <2>1, <2>2, <2>3, <2>4, <2>5
  <1>12. CASE InlineExecute(r)
    <2>1. ReqTo(r, "done") \/ ReqTo(r, "failed")
      BY <1>12 DEF InlineExecute
    <2>2. \A q \in Requests, a \in External : Claiming(q, a)' => Claiming(q, a)
      BY <1>5, <2>1 DEF ReqPC
    <2> QED
      BY <1>2, <1>12, <2>2 DEF InlineExecute
  <1>13. CASE InlineSettle(r)
    <2>1. \A a \in External : row'[a] = row[a] /\ job'[a] = job[a]
      BY <1>0, <1>13 DEF InlineSettle, Update, TypeInv, CallsKnowAction
    <2> QED
      BY <1>2, <1>4, <1>13, <2>1 DEF InlineSettle
  <1>14. CASE RequestDies(r)
    BY <1>2, <1>4, <1>14 DEF RequestDies
  <1> QED
    BY <1>6, <1>7, <1>8, <1>9, <1>10, <1>11, <1>12, <1>13, <1>14
    DEF Approve, Serve

LEMMA DeliverOrder ==
  ASSUME Reliable, TypeInv, OrderInv, NEW w \in Workers,
         \/ \E a \in External : Take(w, a)
         \/ Finish(w) \/ LockExpires(w) \/ WorkerCrash(w)
  PROVE  OrderInv'
  <1> USE DEF ExecAt, OrderInv, HandedOver, CallsInOrder
  <1>0. /\ exec \in [Workers -> Exec] /\ job \in [Actions -> Job]
        /\ \A a \in External : a \in Actions
        /\ \A x \in Workers : exec[x].pc # "idle" => exec[x].act \in External
    BY DEF TypeInv, TypeOK, CallsKnowAction, Actions
  <1>1. row' = row /\ req' = req /\ pages' = pages
    BY DEF Take, Finish, FinishOk, FinishRetry, FinishFatal, FinishUnlocked,
      LockExpires, WorkerCrash, effects
  \* Only the call of w and the job of its action change, and the action is taken.
  <1>2. ASSUME NEW b \in External, ~Untouched(b),
               \A x \in Workers : x # w =>
                 exec'[x] = exec[x] /\ (exec[x].pc # "idle" => exec[x].act # b),
               exec'[w].pc # "idle" => exec'[w].act = b,
               \A a \in Actions : a # b => job'[a] = job[a],
               InOrder(w)'
        PROVE  OrderInv'
    <2>1. \A q \in Requests, a \in External : Claiming(q, a)' => Claiming(q, a)
      BY <1>1 DEF Claiming
    <2>2. ASSUME NEW a \in External, a # b
          PROVE  Handed(a)'
      <3>1. \A x \in Workers : exec'[x].pc # "idle" /\ exec'[x].act = a =>
                                 exec[x].pc # "idle" /\ exec[x].act = a
        BY <1>2, <2>2
      <3> QED
        BY <1>0, <1>1, <1>2, <2>1, <2>2, <3>1, HandedKept
    <2>3. Handed(b)'
      BY <1>1, <1>2, <2>1, Touched DEF Handed
    <2>4. \A x \in Workers : InOrder(x)'
      BY <1>0, <1>1, <1>2, InOrderKept
    <2> QED
      BY <2>2, <2>3, <2>4
  <1>3. ASSUME NEW b \in External, Take(w, b)
        PROVE  OrderInv'
    <2>1. job[b].state = "waiting" /\ ~Untouched(b)
      BY <1>3 DEF Take, Untouched
    <2>2. /\ job'[b].state = "active" /\ job'[b].owner = w
          /\ \A a \in Actions : a # b => job'[a] = job[a]
          /\ exec'[w].pc = "select" /\ exec'[w].act = b
          /\ \A x \in Workers : x # w => exec'[x] = exec[x]
      BY <1>0, <1>3 DEF Take, IdleExec, Job
    <2>3. \A x \in Workers : exec[x].pc # "idle" => exec[x].act # b
      BY <2>1 DEF InOrder, HoldsLock
    <2>4. InOrder(w)'
      BY <2>2 DEF InOrder, HoldsLock, Claimed, Working
    <2> QED
      BY <1>2, <2>1, <2>2, <2>3, <2>4
  <1>4. ASSUME exec[w].pc # "idle", HoldsLock(w),
               \A a \in Actions : a # exec[w].act => job'[a] = job[a],
               \/ ExecEnds(w)
               \/ ExecTo(w, "mark") /\ job'[exec[w].act].state = "failed"
        PROVE  OrderInv'
    <2> PICK b \in External : b = exec[w].act
      BY <1>0, <1>4
    <2>1. \A x \in Workers : x # w /\ exec[x].pc # "idle" => exec[x].act # b
      BY <1>4, Alone
    <2>2. /\ \A x \in Workers : x # w => exec'[x] = exec[x]
          /\ \/ exec'[w].pc = "idle"
             \/ exec'[w].pc = "mark" /\ exec'[w].act = b /\ job'[b].state = "failed"
      BY <1>0, <1>4, ExecToFacts, ExecEndsFacts DEF ExecPC
    <2>3. InOrder(w)'
      BY <2>2 DEF InOrder, Claimed, Working
    <2>4. ~Untouched(b)
      BY <1>4 DEF Untouched
    <2> QED
      BY <1>2, <1>4, <2>1, <2>2, <2>3, <2>4
  <1>5. CASE FinishOk(w) \/ FinishFatal(w)
    BY <1>0, <1>4, <1>5 DEF FinishOk, FinishFatal
  <1>6. CASE FinishRetry(w)
    <2>1. exec[w].act \in Actions /\ job[exec[w].act] \in Job
      BY <1>0, <1>6 DEF FinishRetry
    <2>2. \A a \in Actions : a # exec[w].act => job'[a] = job[a]
      BY <1>0, <1>6 DEF FinishRetry
    <2>3. \/ ExecEnds(w)
          \/ ExecTo(w, "mark") /\ LastAttempt(exec[w].act)
      BY <1>6 DEF FinishRetry, AfterLastAttempt, MarksFailed
    <2>4. LastAttempt(exec[w].act) => job'[exec[w].act].state = "failed"
      BY <1>0, <1>6, <2>1 DEF FinishRetry, Job
    <2> QED
      BY <1>4, <1>6, <2>2, <2>3, <2>4 DEF FinishRetry
  <1>7. CASE FinishUnlocked(w)
    BY <1>7 DEF FinishUnlocked, InOrder
  <1>8. CASE LockExpires(w)
    BY <1>8 DEF LockExpires, Reliable
  <1>9. CASE WorkerCrash(w)
    <2>1. CASE HoldsLock(w)
      BY <1>0, <1>4, <1>9, <2>1 DEF WorkerCrash
    <2>2. CASE ~HoldsLock(w)
      <3>1. job' = job /\ exec[w].pc # "idle"
        BY <1>9, <2>2 DEF WorkerCrash
      <3>2. exec'[w].pc = "idle" /\ \A x \in Workers : x # w => exec'[x] = exec[x]
        BY <1>0, <1>9, ExecEndsFacts DEF WorkerCrash
      <3>3. \A x \in Workers : InOrder(x)'
        <4>1. InOrder(w)'
          BY <3>2 DEF InOrder, Claimed, Working
        <4> QED
          BY <1>0, <1>1, <3>1, <3>2, <4>1, InOrderKept
      <3>4. \A a \in External : Handed(a)'
        BY <1>1, <3>1, <3>2, HandedKept DEF Claiming
      <3> QED
        BY <3>3, <3>4
    <2> QED
      BY <2>1, <2>2
  <1> QED
    BY <1>3, <1>5, <1>6, <1>7, <1>8, <1>9 DEF Finish

LEMMA OutsideOrder ==
  ASSUME TypeInv, OrderInv,
         \/ \E a \in Actions : \/ Reject(a) \/ StallCheck(a) \/ EvictJob(a)
                               \/ DeleteBlobs(a) \/ DeleteRows(a)
         \/ ChangeConnection
  PROVE  OrderInv'
  <1> USE DEF OrderInv, HandedOver, CallsInOrder
  <1>0. /\ row \in [Actions -> Row] /\ job \in [Actions -> Job]
        /\ \A a \in External : a \in Actions
        /\ \A x \in Workers : exec[x].pc # "idle" => exec[x].act \in External
    BY DEF TypeInv, TypeOK, CallsKnowAction, Actions
  <1>1. exec' = exec /\ req' = req /\ pages' = pages
    BY DEF Reject, StallCheck, EvictJob, DeleteBlobs, DeleteRows,
      ChangeConnection, effects
  <1>2. \A r \in Requests, a \in External : Claiming(r, a)' <=> Claiming(r, a)
    BY <1>1 DEF Claiming
  <1>3. ASSUME NEW b \in Actions,
               \A a \in Actions : a # b => row'[a] = row[a] /\ job'[a] = job[a],
               b \in External => Handed(b)',
               \A x \in Workers : exec[x].pc # "idle" /\ exec[x].act = b => InOrder(x)'
        PROVE  OrderInv'
    <2>1. \A a \in External : a # b => Handed(a)'
      BY <1>0, <1>1, <1>2, <1>3, HandedKept
    <2>2. \A x \in Workers : InOrder(x)'
      BY <1>0, <1>1, <1>3, InOrderKept
    <2> QED
      BY <1>3, <2>1, <2>2
  <1>4. ASSUME NEW b \in Actions, Reject(b)
        PROVE  OrderInv'
    <2>1. /\ row[b].status = "proposed" /\ row'[b].status = "rejected"
          /\ row'[b].page = row[b].page
          /\ \A a \in Actions : a # b => row'[a] = row[a]
          /\ job' = job
      BY <1>0, <1>4 DEF Reject, Row
    <2>2. ASSUME b \in External
          PROVE  Untouched(b) /\ Handed(b)'
      BY <1>2, <2>1, <2>2 DEF Handed
    <2>3. \A x \in Workers : exec[x].pc # "idle" => exec[x].act # b
      BY <1>0, <2>2 DEF Untouched
    <2> QED
      BY <1>3, <2>1, <2>2, <2>3
  <1>5. ASSUME NEW b \in Actions, StallCheck(b)
        PROVE  OrderInv'
    <2>1. /\ job[b].state = "active" /\ job[b].owner = None
          /\ row' = row
          /\ \A a \in Actions : a # b => job'[a] = job[a]
      BY <1>0, <1>5 DEF StallCheck
    <2>2. \A x \in Workers : exec[x].pc # "idle" => exec[x].act # b
      BY <2>1, NoneApart DEF InOrder, HoldsLock
    <2>3. b \in External => Handed(b)'
      BY <1>1, <1>2, <2>1, HandedKept
    <2> QED
      BY <1>3, <2>1, <2>2, <2>3
  <1>6. ASSUME NEW b \in Actions, EvictJob(b)
        PROVE  OrderInv'
    <2>1. /\ job[b].state \in {"completed", "failed"} /\ job'[b].state = "none"
          /\ row' = row
          /\ \A a \in Actions : a # b => job'[a] = job[a]
      BY <1>0, <1>6 DEF EvictJob, NoJob
    <2>2. ASSUME NEW x \in Workers, exec[x].pc # "idle", exec[x].act = b
          PROVE  InOrder(x)'
      <3>1. exec[x].pc = "mark"
        BY <2>1, <2>2 DEF InOrder, HoldsLock
      <3> QED
        BY <1>1, <2>1, <2>2, <3>1 DEF InOrder, Claimed, Working
    <2>3. b \in External => Handed(b)'
      BY <1>1, <1>2, <2>1, HandedKept
    <2> QED
      BY <1>3, <2>1, <2>2, <2>3
  <1>7. ASSUME NEW b \in Actions, DeleteRows(b)
        PROVE  OrderInv'
    <2>1. /\ row'[b].status = "absent" /\ row'[b].page = FALSE
          /\ row'[b].uploads = {}
          /\ job' = job
          /\ \A a \in Actions : a # b => row'[a] = row[a]
      BY <1>0, <1>7 DEF DeleteRows, ProposedRow
    <2>2. ASSUME NEW x \in Workers, exec[x].pc # "idle", exec[x].act = b
          PROVE  InOrder(x)'
      BY <1>1, <2>1, <2>2 DEF InOrder, HoldsLock
    <2>3. ASSUME b \in External
          PROVE  Handed(b)'
      <3>1. Untouched(b) => Untouched(b)'
        BY <1>1, <2>1 DEF Untouched
      <3> QED
        BY <1>2, <2>1, <2>3, <3>1 DEF Handed
    <2> QED
      BY <1>3, <2>1, <2>2, <2>3
  <1>8. CASE (\E b \in Actions : DeleteBlobs(b)) \/ ChangeConnection
    <2>1. row' = row /\ job' = job
      BY <1>8 DEF DeleteBlobs, ChangeConnection
    <2> QED
      BY <1>0, <1>1, <1>2, <2>1, HandedKept, InOrderKept
  <1> QED
    BY <1>4, <1>5, <1>6, <1>7, <1>8

\* What the two steps of a call that edit a row without settling it leave there.
LEMMA EditFacts ==
  ASSUME TypeInv, NEW w \in Workers, Claim(w) \/ PersistUpload(w)
  PROVE  LET a == exec[w].act IN
         /\ a \in External /\ a \in Actions /\ pages' = pages
         /\ copies' = copies /\ tasks' = tasks
         /\ \A x \in Actions : x # a => row'[x] = row[x]
         /\ row'[a].page = row[a].page /\ row'[a].media = row[a].media
         /\ \/ /\ exec[w].pc = "claim" /\ ExecTo(w, "connect")
               /\ row[a].status \in InFlight /\ row'[a].status = "executing"
               /\ row'[a].uploads = row[a].uploads
            \/ /\ exec[w].pc = "claim" /\ ExecTo(w, "ok")
               /\ row' = row
            \/ /\ exec[w].pc = "persist" /\ ExecTo(w, "media")
               /\ row'[a].status = row[a].status
               /\ \/ row'[a].uploads = exec[w].uploads
                  \/ row[a].status = "absent" /\ row' = row
  <1> PICK b \in External : b = exec[w].act
    BY DEF Claim, PersistUpload, ExecAt, TypeInv, CallsKnowAction
  <1>0. b \in Actions /\ row[b] \in Row /\ row \in [Actions -> Row]
    BY DEF Actions, TypeInv, TypeOK
  <1>1. pages' = pages /\ copies' = copies /\ tasks' = tasks
    BY DEF Claim, PersistUpload, effects
  <1>2. CASE Claim(w)
    <2> DEFINE new == [row[b] EXCEPT !.status = "executing"]
    <2>1. /\ new.status = "executing" /\ new.page = row[b].page
          /\ new.media = row[b].media /\ new.uploads = row[b].uploads
      BY <1>0 DEF Row
    <2>2. /\ exec[w].pc = "claim"
          /\ \/ /\ ExecTo(w, "connect") /\ row[b].status \in InFlight
                /\ row' = [row EXCEPT ![b] = new]
             \/ ExecTo(w, "ok") /\ row' = row
      BY <1>2 DEF Claim, ExecAt
    <2> HIDE DEF new
    <2> QED
      BY <1>0, <1>1, <2>1, <2>2
  <1>3. CASE PersistUpload(w)
    <2> DEFINE new == [row[b] EXCEPT !.uploads = exec[w].uploads]
    <2>1. /\ new.status = row[b].status /\ new.page = row[b].page
          /\ new.media = row[b].media /\ new.uploads = exec[w].uploads
      BY <1>0 DEF Row
    <2>2. /\ exec[w].pc = "persist" /\ ExecTo(w, "media")
          /\ \/ row[b].status = "absent" /\ row' = row
             \/ row' = [row EXCEPT ![b] = new]
      BY <1>3 DEF PersistUpload, ExecAt, Update
    <2> HIDE DEF new
    <2> QED
      BY <1>0, <1>1, <2>1, <2>2
  <1> QED
    BY <1>2, <1>3

LEMMA ExecuteOrder ==
  ASSUME TypeInv, OrderInv, NEW w \in Workers, Execute(w) \/ DbError(w)
  PROVE  OrderInv'
  <1> USE DEF ExecAt, OrderInv, HandedOver, CallsInOrder
  <1>0. /\ exec \in [Workers -> Exec] /\ row \in [Actions -> Row]
        /\ exec[w].pc # "idle" /\ job' = job
        /\ \A a \in External : a \in Actions /\ pages[a] \in 0..Cap
        /\ \A x \in Workers : exec[x].pc # "idle" => exec[x].act \in External
    BY ExecuteMoves DEF TypeInv, TypeOK, CallsKnowAction, Actions
  <1> PICK b \in External : b = exec[w].act
    BY <1>0
  <1>1. req' = req
    BY DEF Execute, Select, Recover, Claim, Connect, Resolve, UploadMedia,
      PersistUpload, CreatePage, Complete, MarkTerminal, MarkFinal, DbError
  <1>2. /\ \A x \in Workers : x # w => exec'[x] = exec[x]
        /\ exec'[w].act = b \/ exec'[w].pc = "idle"
    BY ExecuteMoves
  <1>3. /\ row[b].status # "proposed" /\ \A r \in Requests : ~Claiming(r, b)
        /\ row[b].page => row[b].status = "done"
    BY <1>0, Touched DEF Untouched, Handed
  <1>4. InOrder(w) /\ (exec[w].pc # "mark" => HoldsLock(w))
    BY <1>0 DEF InOrder
  \* The others: they are at other actions, or about to mark this one.
  <1>5. ASSUME \A a \in Actions : a # b => row'[a] = row[a],
               \A a \in External : pages[a] > 0 => pages'[a] > 0,
               row'[b].status # "proposed", row'[b].page => row'[b].status = "done",
               InOrder(w)'
        PROVE  OrderInv'
    <2>1. \A a \in External : a # b => Handed(a)'
      BY <1>0, <1>1, <1>2, <1>5, HandedKept DEF Claiming
    <2>2. Handed(b)'
      BY <1>1, <1>3, <1>5 DEF Handed, Claiming
    <2>3. ASSUME NEW x \in Workers, x # w
          PROVE  InOrder(x)'
      <3>1. CASE exec[x].pc = "idle" \/ exec[x].act # b
        BY <1>0, <1>2, <1>5, <2>3, <3>1, InOrderKept
      <3>2. CASE exec[x].pc # "idle" /\ exec[x].act = b
        <4>1. exec[w].pc = "mark"
          BY <1>4, <2>3, <3>2, Alone
        <4>2. exec[x].pc = "mark"
          BY <3>2, <4>1 DEF InOrder, HoldsLock
        <4> QED
          BY <1>0, <1>2, <2>3, <4>2 DEF InOrder, Claimed, Working
      <3> QED
        BY <3>1, <3>2
    <2> QED
      BY <1>5, <2>1, <2>2, <2>3
  <1>6. ASSUME row' = row, \A a \in External : pages[a] > 0 => pages'[a] > 0,
               InOrder(w)'
        PROVE  OrderInv'
    BY <1>3, <1>5, <1>6
  <1>7. ASSUME exec[w].pc # "mark",
               \/ ExecTo(w, "ok") \/ ExecTo(w, "retry")
               \/ ExecTo(w, "terminal") \/ ExecTo(w, "fatal")
        PROVE  InOrder(w)'
    <2>1. exec'[w].pc \in {"ok", "retry", "terminal", "fatal"} /\ exec'[w].act = b
      BY <1>0, <1>7, ExecToFacts DEF ExecPC
    <2>2. HoldsLock(w)'
      BY <1>0, <1>4, <1>7, <2>1 DEF HoldsLock
    <2> QED
      BY <2>1, <2>2 DEF InOrder, Claimed, Working
  <1>8. ASSUME ExecEnds(w)
        PROVE  InOrder(w)'
    BY <1>0, <1>8, ExecEndsFacts DEF InOrder, Claimed, Working
  <1>9. CASE Select(w)
    <2>1. /\ exec[w].pc = "select" /\ row' = row /\ pages' = pages
          /\ exec'[w].pc = AfterSelect(b) /\ exec'[w].act = b
          /\ exec'[w].media = row[b].media /\ exec'[w].uploads = row[b].uploads
      BY <1>0, <1>9 DEF Select, effects, Exec
    <2>2. AfterSelect(b) = "ok" \/ (AfterSelect(b) = "claim" /\ row[b].status \in InFlight)
      BY <1>3 DEF AfterSelect, InFlight
    <2>3. HoldsLock(w)'
      BY <1>0, <1>4, <2>1 DEF HoldsLock
    <2>4. InOrder(w)'
      BY <2>1, <2>2, <2>3 DEF InOrder, Claimed, Working
    <2> QED
      BY <1>6, <2>1, <2>4
  <1>10. CASE Recover(w)
    BY <1>4, <1>10 DEF Recover, InOrder
  <1>11. CASE Claim(w)
    <2>1. CASE ExecTo(w, "ok") /\ row' = row
      BY <1>6, <1>7, <1>11, <2>1, EditFacts DEF Claim
    <2>2. CASE ExecTo(w, "connect") /\ row[b].status \in InFlight
      <3>1. /\ row'[b].status = "executing" /\ row'[b].page = row[b].page
            /\ row'[b].media = row[b].media /\ row'[b].uploads = row[b].uploads
            /\ \A a \in Actions : a # b => row'[a] = row[a]
            /\ pages' = pages
        <4>1. exec[w].pc = "claim"
          BY <1>11 DEF Claim
        <4>2. row' = [row EXCEPT ![b].status = "executing"] /\ pages' = pages
          BY <1>11, <2>2 DEF Claim, effects
        <4> QED
          BY <1>0, <4>2 DEF Row
      <3>2. /\ exec'[w].pc = "connect" /\ exec'[w].act = b
            /\ exec'[w].media = exec[w].media /\ exec'[w].uploads = exec[w].uploads
        BY <1>0, <2>2, ExecToFacts DEF ExecPC
      <3>3. /\ exec[w].media = row[b].media /\ row[b].uploads \subseteq exec[w].uploads
            /\ HoldsLock(w)
        BY <1>4, <1>11, <2>2 DEF Claim, InOrder, InFlight, Working
      <3>4. HoldsLock(w)'
        BY <1>0, <3>2, <3>3 DEF HoldsLock
      <3>5. InOrder(w)'
        BY <3>1, <3>2, <3>3, <3>4 DEF InOrder, Claimed
      <3>6. ~row[b].page
        BY <1>3, <2>2 DEF InFlight
      <3> QED
        BY <1>5, <3>1, <3>5, <3>6
    <2> QED
      BY <1>11, <2>1, <2>2 DEF Claim
  \* A call that goes on working on a row that keeps its status and its media.
  <1>12. ASSUME exec[w].pc \in {"connect", "resolve", "media", "persist"},
                exec'[w].pc \in {"resolve", "media", "persist", "complete"},
                exec'[w].act = b, exec'[w].media = exec[w].media,
                row'[b].status = row[b].status, row'[b].media = row[b].media,
                exec'[w].pc # "complete" => row'[b].uploads \subseteq exec'[w].uploads,
                exec'[w].pc = "complete" => pages'[b] > 0
         PROVE  InOrder(w)'
    <2>1. HoldsLock(w)'
      BY <1>0, <1>4, <1>12 DEF HoldsLock
    <2>2. /\ row[b].status \in {"executing", "absent"}
          /\ row[b].status = "absent" \/ exec[w].media = row[b].media
      BY <1>4, <1>12 DEF InOrder, Claimed
    <2> QED
      BY <1>12, <2>1, <2>2 DEF InOrder, Claimed, Working
  <1>13. CASE Connect(w) \/ Resolve(w)
    <2>1. /\ row' = row /\ pages' = pages
          /\ exec[w].pc \in {"connect", "resolve"}
          /\ \/ ExecTo(w, "terminal") \/ ExecTo(w, "retry")
             \/ \E p \in {"resolve", "media"} : ExecTo(w, p)
      BY <1>13 DEF Connect, Resolve, effects
    <2>2. ASSUME NEW p \in {"resolve", "media"}, ExecTo(w, p)
          PROVE  InOrder(w)'
      <3>1. row[b].uploads \subseteq exec[w].uploads
        BY <1>4, <2>1 DEF InOrder, Working
      <3>2. /\ exec'[w].pc = p /\ exec'[w].act = b
            /\ exec'[w].media = exec[w].media /\ exec'[w].uploads = exec[w].uploads
        BY <1>0, <2>2, ExecToFacts DEF ExecPC
      <3> QED
        BY <1>12, <2>1, <3>1, <3>2
    <2> QED
      BY <1>6, <1>7, <2>1, <2>2
  <1>14. ASSUME NEW m \in Media, UploadMedia(w, m)
         PROVE  OrderInv'
    <2>1. /\ row' = row /\ pages' = pages /\ exec[w].pc = "media"
          /\ \/ exec' = [exec EXCEPT ![w] = [@ EXCEPT !.pc = "persist",
                                      !.uploads = exec[w].uploads \cup {m}]]
             \/ ExecTo(w, "retry") \/ ExecTo(w, "terminal")
      BY <1>14 DEF UploadMedia
    <2>2. ASSUME exec' = [exec EXCEPT ![w] = [@ EXCEPT !.pc = "persist",
                                      !.uploads = exec[w].uploads \cup {m}]]
          PROVE  InOrder(w)'
      <3>1. row[b].uploads \subseteq exec[w].uploads
        BY <1>4, <2>1 DEF InOrder, Working
      <3>2. /\ exec'[w].pc = "persist" /\ exec'[w].act = b
            /\ exec'[w].media = exec[w].media
            /\ exec'[w].uploads = exec[w].uploads \cup {m}
        BY <1>0, <2>2, UploadedFacts
      <3> QED
        BY <1>12, <2>1, <3>1, <3>2
    <2> QED
      BY <1>6, <1>7, <2>1, <2>2
  <1>15. CASE PersistUpload(w)
    <2>1. /\ exec[w].pc = "persist" /\ ExecTo(w, "media") /\ pages' = pages
          /\ \A a \in Actions : a # b => row'[a] = row[a]
          /\ row'[b].status = row[b].status /\ row'[b].page = row[b].page
          /\ row'[b].media = row[b].media
          /\ row'[b].uploads = exec[w].uploads \/ row' = row
      BY <1>15, EditFacts DEF PersistUpload
    <2>2. row[b].uploads \subseteq exec[w].uploads
      BY <1>4, <2>1 DEF InOrder, Working
    <2>3. /\ exec'[w].pc = "media" /\ exec'[w].act = b
          /\ exec'[w].media = exec[w].media /\ exec'[w].uploads = exec[w].uploads
      BY <1>0, <2>1, ExecToFacts DEF ExecPC
    <2>4. InOrder(w)'
      BY <1>12, <2>1, <2>2, <2>3
    <2> QED
      BY <1>3, <1>5, <2>1, <2>4
  <1>16. CASE CreatePage(w)
    <2>1. /\ exec[w].pc = "media" /\ row' = row
          /\ \A a \in External : pages[a] > 0 => pages'[a] > 0
          /\ \/ ExecTo(w, "complete") /\ pages'[b] > 0
             \/ ExecTo(w, "retry") \/ ExecTo(w, "terminal")
      BY <1>0, <1>16, CreateFacts, BumpGrows DEF CreatePage
    <2>2. ASSUME ExecTo(w, "complete"), pages'[b] > 0
          PROVE  InOrder(w)'
      <3>1. /\ exec'[w].pc = "complete" /\ exec'[w].act = b
            /\ exec'[w].media = exec[w].media
        BY <1>0, <2>2, ExecToFacts DEF ExecPC
      <3> QED
        BY <1>12, <2>1, <2>2, <3>1
    <2> QED
      BY <1>6, <1>7, <2>1, <2>2
  <1>17. CASE Complete(w)
    <2>1. /\ exec[w].pc = "complete" /\ pages' = pages
          /\ ExecTo(w, "ok") \/ ExecTo(w, "terminal")
      BY <1>17 DEF Complete, effects
    <2>2. /\ \A a \in Actions : a # b => row'[a] = row[a]
          /\ row[b].status = "absent" => row'[b] = row[b]
          /\ row[b].status # "absent" => row'[b].status = "done"
      BY <1>17, DoneFacts
    <2> QED
      BY <1>3, <1>5, <1>7, <2>1, <2>2
  <1>18. CASE MarkTerminal(w) \/ MarkFinal(w)
    <2>1. /\ pages' = pages
          /\ \A a \in Actions : a # b => row'[a] = row[a]
          /\ row[b].status \notin InFlight => row'[b] = row[b]
          /\ row[b].status \in InFlight => /\ row'[b].status = "failed"
                                           /\ row'[b].page = FALSE
      BY <1>18, MarkFacts
    <2>2. \/ exec[w].pc # "mark" /\ (ExecTo(w, "fatal") \/ ExecTo(w, "retry"))
          \/ ExecEnds(w)
      BY <1>18 DEF MarkTerminal, MarkFinal
    <2> QED
      BY <1>3, <1>5, <1>7, <1>8, <2>1, <2>2
  <1>19. CASE DbError(w)
    <2>1. /\ row' = row /\ pages' = pages
          /\ \/ exec[w].pc # "mark" /\ (ExecTo(w, "retry") \/ ExecTo(w, "terminal"))
             \/ ExecEnds(w)
      BY <1>19 DEF DbError, effects
    <2> QED
      BY <1>6, <1>7, <1>8, <2>1
  <1> QED
    BY <1>9, <1>10, <1>11, <1>13, <1>14, <1>15, <1>16, <1>17, <1>18, <1>19
    DEF Execute

LEMMA StepOrder ==
  ASSUME Reliable, TypeInv, OrderInv, [Next]_vars
  PROVE  OrderInv'
  <1>1. CASE UNCHANGED vars
    BY <1>1 DEF vars, OrderInv, HandedOver, Handed, Untouched, Claiming,
      CallsInOrder, InOrder, HoldsLock
  <1>2. CASE Next
    BY <1>2, RequestOrder, DeliverOrder, ExecuteOrder, OutsideOrder DEF Next
  <1> QED
    BY <1>1, <1>2

\* What a call executes is what the approval stored, whatever is rejected,
\* re-approved, deleted or redelivered meanwhile -- as long as a failed enqueue
\* left no job and no live call loses its lock.
THEOREM PreviewExecuted ==
  ASSUME Reliable PROVE Spec => []PreviewIsExecution
  <1>1. OrderInv => PreviewIsExecution
    BY DEF OrderInv, CallsInOrder, InOrder, PreviewIsExecution, Claimed
  <1>2. TypeInv /\ OrderInv /\ [Next]_vars => OrderInv'
    BY StepOrder
  <1> QED
    BY <1>1, <1>2, InitTypeInv, StepTypeInv, InitOrder, PTL DEF Spec

\* Pages, uploads and tasks come from three steps only.
LEMMA EffectSteps ==
  ASSUME TypeInv, Next
  PROVE  \/ effects' = effects
         \/ \E w \in Workers : \/ CreatePage(w)
                               \/ \E m \in Media : UploadMedia(w, m)
         \/ \E r \in Requests : InlineExecute(r)
  <1>1. ASSUME NEW r \in Requests, Approve(r) \/ Serve(r) \/ RequestDies(r)
        PROVE  effects' = effects \/ InlineExecute(r)
    BY <1>1 DEF Approve, Serve, ApproveChecks, InlineClaim, ApproveClaim,
      EnqueueAccepted, EnqueueFails, ApproveRevert, InlineSettle, RequestDies,
      effects
  <1>2. ASSUME NEW w \in Workers,
               \/ \E a \in External : Take(w, a)
               \/ Execute(w) \/ Finish(w)
               \/ LockExpires(w) \/ WorkerCrash(w) \/ DbError(w)
        PROVE  \/ effects' = effects \/ CreatePage(w)
               \/ \E m \in Media : UploadMedia(w, m)
    BY <1>2 DEF Take, Execute, Select, Recover, Claim, Connect, Resolve,
      PersistUpload, Complete, MarkTerminal, MarkFinal, Finish, FinishOk,
      FinishRetry, FinishFatal, FinishUnlocked, LockExpires, WorkerCrash,
      DbError, effects
  <1>3. CASE \/ \E a \in Actions : \/ Reject(a) \/ StallCheck(a) \/ EvictJob(a)
                                   \/ DeleteBlobs(a) \/ DeleteRows(a)
             \/ ChangeConnection
    BY <1>3 DEF Reject, StallCheck, EvictJob, DeleteBlobs, DeleteRows,
      ChangeConnection, effects
  <1> QED
    BY <1>1, <1>2, <1>3 DEF Next

\* A medium whose upload is on record is never uploaded again, and no page is
\* written for an action shown as failed, under the same two conditions.
THEOREM NothingAddedByRetries ==
  ASSUME Reliable PROVE Spec => RetriesAddNothing
  <1> DEFINE Kept == \A a \in External :
       /\ \A m \in Media : copies'[a][m] > copies[a][m] => m \notin row[a].uploads
       /\ pages'[a] > pages[a] => row[a].status # "failed"
  <1>1. TypeInv /\ OrderInv /\ [Next]_vars => [Kept]_<<row, copies, pages>>
    <2> SUFFICES ASSUME TypeInv, OrderInv, Next
                 PROVE  Kept \/ UNCHANGED <<copies, pages>>
      BY DEF vars, effects, TypeInv, TypeOK, Actions
    <2>0. /\ copies \in [Actions -> [Media -> 0..Cap]]
          /\ pages \in [Actions -> 0..Cap]
          /\ \A a \in External : a \in Actions
      BY DEF TypeInv, TypeOK, Actions
    <2>1. ASSUME NEW w \in Workers, CreatePage(w)
          PROVE  Kept
      <3>1. copies' = copies
        BY <2>1 DEF CreatePage
      <3>2. row[exec[w].act].status \in {"executing", "absent"}
        BY <2>1 DEF CreatePage, ExecAt, OrderInv, CallsInOrder, InOrder, Claimed
      <3>3. \A a \in External : a # exec[w].act => pages'[a] = pages[a]
        BY <2>0, <2>1, CreateFacts
      <3> QED
        BY <2>0, <3>1, <3>2, <3>3
    <2>2. ASSUME NEW w \in Workers, NEW n \in Media, UploadMedia(w, n)
          PROVE  Kept
      <3> PICK b \in External : b = exec[w].act
        BY <2>2 DEF UploadMedia, ExecAt, TypeInv, CallsKnowAction
      <3>1. /\ pages' = pages /\ n \notin row[b].uploads
            /\ \/ copies' = copies
               \/ copies' = [copies EXCEPT ![b][n] = Bump(@)]
        BY <2>2 DEF UploadMedia, ToUpload, ExecAt, OrderInv, CallsInOrder, InOrder,
          Working
      <3>2. ASSUME NEW a \in External, NEW m \in Media, a # b \/ m # n
            PROVE  copies'[a][m] = copies[a][m]
        BY <2>0, <3>1, <3>2
      <3> QED
        BY <2>0, <3>1, <3>2
    <2>3. ASSUME NEW r \in Requests, InlineExecute(r)
          PROVE  UNCHANGED <<copies, pages>>
      BY <2>3 DEF InlineExecute
    <2>4. effects' = effects => UNCHANGED <<copies, pages>>
      BY DEF effects
    <2> QED
      BY <2>1, <2>2, <2>3, <2>4, EffectSteps
  <1>2. TypeInv /\ OrderInv /\ [Next]_vars => OrderInv'
    BY StepOrder
  <1> QED
    BY <1>1, <1>2, InitTypeInv, StepTypeInv, InitOrder, PTL
    DEF Spec, RetriesAddNothing
-----------------------------------------------------------------------------
(* The code implements the lifecycle the documents draw                    *)

Effect(a) == pages[a] > 0 \/ tasks[a] > 0

LEMMA InitLifecycle == Init => Lifecycle!Init
  <1> SUFFICES ASSUME Init PROVE Lifecycle!Init
    OBVIOUS
  <1>1. \A a \in Actions : row[a].status = "proposed" /\ pages[a] = 0 /\ tasks[a] = 0
    BY DEF Init, ProposedRow
  <1>2. Lifecycle!Actions = Actions
    BY DEF Lifecycle!Actions, Actions
  <1>3. [a \in Actions |-> row[a].status] = [a \in Actions |-> "proposed"]
    BY <1>1
  <1>4. [a \in Actions |-> pages[a] > 0 \/ tasks[a] > 0] = [a \in Actions |-> FALSE]
    <2>1. \A a \in Actions : (pages[a] > 0 \/ tasks[a] > 0) = FALSE
      BY <1>1
    <2> QED
      BY <2>1, Zenon
  <1> QED
    BY <1>2, <1>3, <1>4 DEF Lifecycle!Init

\* A step that changes neither a status nor an effect is invisible above ...
SameEffects == \A a \in Actions : Effect(a)' <=> Effect(a)

LEMMA Unseen ==
  ASSUME \A a \in Actions : row'[a].status = row[a].status, SameEffects
  PROVE  UNCHANGED Lifecycle!vars
  <1>1. [a \in Actions |-> row[a].status]' = [a \in Actions |-> row[a].status]
    OBVIOUS
  <1>2. [a \in Actions |-> pages[a] > 0 \/ tasks[a] > 0]'
          = [a \in Actions |-> pages[a] > 0 \/ tasks[a] > 0]
    BY DEF SameEffects, Effect
  <1> QED
    BY <1>1, <1>2 DEF Lifecycle!vars

\* ... one that changes one status moves that action ...
LEMMA Moved ==
  ASSUME NEW b \in Actions, NEW from, NEW to,
         row[b].status \in from, row'[b].status = to,
         \A a \in Actions : a # b => row'[a].status = row[a].status,
         SameEffects
  PROVE  Lifecycle!Move(b, from, to)
  <1>1. [a \in Actions |-> row[a].status]'
          = [[a \in Actions |-> row[a].status] EXCEPT ![b] = to]
    OBVIOUS
  <1>2. [a \in Actions |-> pages[a] > 0 \/ tasks[a] > 0]'
          = [a \in Actions |-> pages[a] > 0 \/ tasks[a] > 0]
    BY DEF SameEffects, Effect
  <1> QED
    BY <1>1, <1>2 DEF Lifecycle!Move

\* ... and one that makes one effect appear writes it.
LEMMA Written ==
  ASSUME NEW b \in Actions, row[b].status \in {"executing", "absent"},
         row' = row, Effect(b)',
         \A a \in Actions : a # b => (Effect(a)' <=> Effect(a))
  PROVE  Lifecycle!Write(b)
  <1>1. [a \in Actions |-> row[a].status]' = [a \in Actions |-> row[a].status]
    OBVIOUS
  <1>2. [a \in Actions |-> pages[a] > 0 \/ tasks[a] > 0]'
          = [[a \in Actions |-> pages[a] > 0 \/ tasks[a] > 0] EXCEPT ![b] = TRUE]
    BY DEF Effect
  <1> QED
    BY <1>1, <1>2 DEF Lifecycle!Write

AbstractStep == Lifecycle!Next \/ UNCHANGED Lifecycle!vars

LEMMA RequestAbstract ==
  ASSUME TypeInv, OrderInv, InlineInOrder, NEW r \in Requests,
         Approve(r) \/ Serve(r) \/ RequestDies(r)
  PROVE  AbstractStep
  <1> USE DEF ReqAt, AbstractStep
  <1>0. /\ row \in [Actions -> Row] /\ tasks \in [Actions -> 0..Cap]
        /\ \A a \in External : a \in Actions
        /\ \A a \in Internal : a \in Actions
        /\ Lifecycle!Actions = Actions
    BY DEF TypeInv, TypeOK, Actions, Lifecycle!Actions
  <1>1. effects' = effects => SameEffects
    BY DEF effects, SameEffects, Effect
  <1>2. CASE row' = row /\ effects' = effects
    BY <1>1, <1>2, Unseen
  <1>3. CASE \/ \E a \in External, M \in SUBSET Media : ApproveChecks(r, a, M)
             \/ EnqueueAccepted(r) \/ EnqueueFails(r) \/ RequestDies(r)
    <2>1. row' = row /\ effects' = effects
      BY <1>3 DEF ApproveChecks, EnqueueAccepted, EnqueueFails, RequestDies, effects
    <2> QED
      BY <1>2, <2>1
  <1>4. ASSUME NEW b \in Internal, InlineClaim(r, b)
        PROVE  AbstractStep
    <2>1. /\ row[b].status \in {"proposed"} /\ row'[b].status = "executing"
          /\ \A a \in Actions : a # b => row'[a].status = row[a].status
      BY <1>0, <1>4 DEF InlineClaim, Claimable, Row
    <2>2. SameEffects
      BY <1>1, <1>4 DEF InlineClaim
    <2>3. Lifecycle!Move(b, {"proposed"}, "executing")
      <3>1. b \in Actions
        BY <1>0
      <3> QED
        BY <2>1, <2>2, <3>1, Moved, Z3
    <2>4. Lifecycle!Begin(b)
      BY <2>3 DEF Lifecycle!Begin
    <2> QED
      BY <1>0, <2>4 DEF Lifecycle!Next
  <1>5. CASE ApproveClaim(r)
    <2> PICK b \in External : b = req[r].act
      BY <1>5 DEF ApproveClaim, TypeInv, CallsKnowAction
    <2>1. effects' = effects /\ SameEffects
      BY <1>1, <1>5 DEF ApproveClaim
    <2>2. CASE /\ Claimable(b)
               /\ row' = [row EXCEPT ![b] = [@ EXCEPT !.status = "queued",
                                                      !.approved = TRUE,
                                                      !.media = req[r].media]]
      <3>1. /\ row[b].status \in {"proposed"} /\ row'[b].status = "queued"
            /\ \A a \in Actions : a # b => row'[a].status = row[a].status
        BY <1>0, <2>2 DEF Claimable, Row
      <3>2. Lifecycle!Move(b, {"proposed"}, "queued")
        BY <1>0, <2>1, <3>1, Moved, Z3
      <3>3. Lifecycle!Approve(b)
        BY <3>2 DEF Lifecycle!Approve
      <3> QED
        BY <1>0, <3>3 DEF Lifecycle!Next
    <2> QED
      BY <1>2, <1>5, <2>1, <2>2 DEF ApproveClaim
  <1>6. CASE ApproveRevert(r)
    <2> PICK b \in External : b = req[r].act
      BY <1>6 DEF ApproveRevert, TypeInv, CallsKnowAction
    <2>1. /\ row[b].status \in {"queued", "absent"}
          /\ effects' = effects /\ SameEffects
      BY <1>1, <1>6 DEF ApproveRevert, OrderInv, HandedOver, Handed, Claiming
    <2> DEFINE new == [row[b] EXCEPT !.status = "proposed", !.approved = FALSE]
    <2>2. row' = Update(b, new)
      BY <1>6 DEF ApproveRevert
    <2>3. new.status = "proposed"
      BY <1>0 DEF Row
    <2> HIDE DEF new
    <2>4. CASE row[b].status = "absent"
      BY <1>2, <2>1, <2>2, <2>4 DEF Update
    <2>5. CASE row[b].status = "queued"
      <3>1. /\ row[b].status \in {"queued"} /\ row'[b].status = "proposed"
            /\ \A a \in Actions : a # b => row'[a].status = row[a].status
        BY <1>0, <2>2, <2>3, <2>5, UpdateRow
      <3>2. Lifecycle!Move(b, {"queued"}, "proposed")
        BY <1>0, <2>1, <3>1, Moved, Z3
      <3>3. Lifecycle!Withdraw(b)
        BY <3>2 DEF Lifecycle!Withdraw
      <3> QED
        BY <1>0, <3>3 DEF Lifecycle!Next
    <2> QED
      BY <2>1, <2>4, <2>5
  <1>7. CASE InlineExecute(r)
    <2> PICK b \in Internal : b = req[r].act
      BY <1>7 DEF InlineExecute, TypeInv, CallsKnowAction
    <2>1. row[b].status \in {"executing", "absent"} /\ row' = row /\ pages' = pages
      BY <1>7 DEF InlineExecute, InlineInOrder, Inline
    <2>2. CASE tasks' = tasks
      BY <1>2, <1>7, <2>1, <2>2 DEF InlineExecute, effects, SameEffects, Effect, Unseen
    <2>3. CASE tasks' = [tasks EXCEPT ![b] = Bump(@)]
      <3>1. tasks'[b] > 0 /\ \A a \in Actions : a # b => tasks'[a] = tasks[a]
        BY <1>0, <2>3, BumpGrows
      <3>2. Lifecycle!Write(b)
        BY <1>0, <2>1, <3>1, Written DEF Effect
      <3> QED
        BY <1>0, <3>2 DEF Lifecycle!Next
    <2> QED
      BY <1>7, <2>2, <2>3 DEF InlineExecute
  <1>8. CASE InlineSettle(r)
    <2> PICK b \in Internal : b = req[r].act
      BY <1>8 DEF InlineSettle, TypeInv, CallsKnowAction
    <2>1. /\ effects' = effects /\ SameEffects
          /\ req[r].pc \in {"done", "failed"} /\ Inline(r, b)
      BY <1>1, <1>8 DEF InlineSettle, Inline
    <2>2. /\ row[b].status \in {"executing", "absent"}
          /\ req[r].pc = "done" => Effect(b)
      BY <2>1 DEF InlineInOrder, Effect
    <2> DEFINE new == [row[b] EXCEPT !.status = req[r].pc]
    <2>3. row' = Update(b, new)
      BY <1>8 DEF InlineSettle
    <2>4. new.status = req[r].pc
      BY <1>0 DEF Row
    <2> HIDE DEF new
    <2>5. CASE row[b].status = "absent"
      BY <1>2, <2>1, <2>3, <2>5 DEF Update
    <2>6. CASE row[b].status = "executing"
      <3>1. /\ row'[b].status = req[r].pc
            /\ \A a \in Actions : a # b => row'[a].status = row[a].status
        BY <1>0, <2>3, <2>4, <2>6, UpdateRow
      <3>2. CASE req[r].pc = "done"
        <4>1. Lifecycle!Move(b, {"executing"}, "done")
          BY <1>0, <2>1, <2>6, <3>1, <3>2, Moved, Z3
        <4>2. Lifecycle!Finish(b)
          BY <1>0, <2>2, <3>2, <4>1 DEF Lifecycle!Finish, Effect
        <4> QED
          BY <1>0, <4>2 DEF Lifecycle!Next
      <3>3. CASE req[r].pc = "failed"
        <4>1. Lifecycle!Move(b, {"queued", "executing"}, "failed")
          BY <1>0, <2>1, <2>6, <3>1, <3>3, Moved, Z3
        <4>2. Lifecycle!Fail(b)
          BY <4>1 DEF Lifecycle!Fail
        <4> QED
          BY <1>0, <4>2 DEF Lifecycle!Next
      <3> QED
        BY <2>1, <3>2, <3>3
    <2> QED
      BY <2>2, <2>5, <2>6
  <1> QED
    BY <1>3, <1>4, <1>5, <1>6, <1>7, <1>8 DEF Approve, Serve

LEMMA WorkerAbstract ==
  ASSUME TypeInv, OrderInv, NEW w \in Workers,
         \/ \E a \in External : Take(w, a)
         \/ Execute(w) \/ Finish(w)
         \/ LockExpires(w) \/ WorkerCrash(w) \/ DbError(w)
  PROVE  AbstractStep
  <1> USE DEF ExecAt, AbstractStep
  <1>0. /\ row \in [Actions -> Row] /\ pages \in [Actions -> 0..Cap]
        /\ \A a \in External : a \in Actions
        /\ Lifecycle!Actions = Actions
    BY DEF TypeInv, TypeOK, Actions, Lifecycle!Actions
  <1>1. pages' = pages /\ tasks' = tasks => SameEffects
    BY DEF SameEffects, Effect
  <1>2. CASE row' = row /\ pages' = pages /\ tasks' = tasks
    BY <1>1, <1>2, Unseen
  <1>3. CASE \/ \E a \in External : Take(w, a)
             \/ Select(w) \/ Connect(w) \/ Resolve(w)
             \/ \E m \in Media : UploadMedia(w, m)
             \/ Finish(w) \/ LockExpires(w) \/ WorkerCrash(w) \/ DbError(w)
    <2>1. row' = row /\ pages' = pages /\ tasks' = tasks
      BY <1>3 DEF Take, Select, Connect, Resolve, UploadMedia, Finish, FinishOk,
        FinishRetry, FinishFatal, FinishUnlocked, LockExpires, WorkerCrash,
        DbError, effects
    <2> QED
      BY <1>2, <2>1
  <1>4. ASSUME NEW b \in External,
               \A a \in Actions : a # b => row'[a] = row[a],
               row[b].status \in {"queued", "executing"},
               pages' = pages, tasks' = tasks,
               NEW to, row'[b].status = to
        PROVE  \A from : row[b].status \in from => Lifecycle!Move(b, from, to)
    BY <1>0, <1>1, <1>4, Moved, Z3
  <1>5. CASE Claim(w) \/ PersistUpload(w)
    <2> PICK b \in External : b = exec[w].act
      BY <1>5, EditFacts
    <2>1. /\ pages' = pages /\ tasks' = tasks
          /\ \A a \in Actions : a # b => row'[a] = row[a]
          /\ \/ row'[b].status = row[b].status
             \/ row[b].status \in InFlight /\ row'[b].status = "executing"
      BY <1>5, EditFacts
    <2>2. CASE row'[b].status = row[b].status
      BY <1>1, <2>1, <2>2, Unseen
    <2>3. CASE row[b].status = "queued" /\ row'[b].status = "executing"
      <3>1. Lifecycle!Move(b, {"queued"}, "executing")
        BY <1>4, <2>1, <2>3
      <3>2. Lifecycle!Begin(b)
        BY <3>1 DEF Lifecycle!Begin
      <3> QED
        BY <1>0, <3>2 DEF Lifecycle!Next
    <2> QED
      BY <2>1, <2>2, <2>3 DEF InFlight
  <1>6. CASE CreatePage(w)
    <2> PICK b \in External : b = exec[w].act
      BY <1>6, CreateFacts
    <2>1. /\ row' = row /\ tasks' = tasks
          /\ row[b].status \in {"executing", "absent"}
      BY <1>6 DEF CreatePage, OrderInv, CallsInOrder, InOrder, Claimed
    <2>2. /\ \A a \in Actions : a # b => pages'[a] = pages[a]
          /\ pages'[b] = pages[b] \/ pages'[b] > 0
      BY <1>0, <1>6, CreateFacts, BumpGrows
    <2>3. CASE pages'[b] = pages[b]
      BY <2>1, <2>2, <2>3, Unseen DEF SameEffects, Effect
    <2>4. CASE pages'[b] > 0
      <3>1. Lifecycle!Write(b)
        BY <1>0, <2>1, <2>2, <2>4, Written DEF Effect
      <3> QED
        BY <1>0, <3>1 DEF Lifecycle!Next
    <2> QED
      BY <2>2, <2>3, <2>4
  <1>7. CASE Recover(w) \/ Complete(w)
    <2> PICK b \in External : b = exec[w].act
      BY <1>7, DoneFacts
    <2>1. /\ pages' = pages /\ tasks' = tasks
          /\ \A a \in Actions : a # b => row'[a] = row[a]
          /\ row[b].status = "absent" => row'[b] = row[b]
          /\ row[b].status # "absent" => row'[b].status = "done"
      BY <1>7, DoneFacts DEF Recover, Complete, effects
    <2>2. row[b].status \in {"executing", "absent"} /\ Effect(b)
      BY <1>7 DEF Recover, Complete, OrderInv, CallsInOrder, InOrder, Claimed, Effect
    <2>3. CASE row[b].status = "absent"
      BY <1>1, <2>1, <2>3, Unseen
    <2>4. CASE row[b].status = "executing"
      <3>1. Lifecycle!Move(b, {"executing"}, "done")
        BY <1>4, <2>1, <2>4
      <3>2. Lifecycle!Finish(b)
        BY <1>0, <2>2, <3>1 DEF Lifecycle!Finish, Effect
      <3> QED
        BY <1>0, <3>2 DEF Lifecycle!Next
    <2> QED
      BY <2>2, <2>3, <2>4
  <1>8. CASE MarkTerminal(w) \/ MarkFinal(w)
    <2> PICK b \in External : b = exec[w].act
      BY <1>8, MarkFacts
    <2>1. /\ pages' = pages /\ tasks' = tasks
          /\ \A a \in Actions : a # b => row'[a] = row[a]
          /\ row[b].status \notin InFlight => row'[b] = row[b]
          /\ row[b].status \in InFlight => row'[b].status = "failed"
      BY <1>8, MarkFacts DEF MarkTerminal, MarkFinal, effects
    <2>2. CASE row[b].status \notin InFlight
      BY <1>1, <2>1, <2>2, Unseen
    <2>3. CASE row[b].status \in InFlight
      <3>1. Lifecycle!Move(b, {"queued", "executing"}, "failed")
        BY <1>4, <2>1, <2>3 DEF InFlight
      <3>2. Lifecycle!Fail(b)
        BY <3>1 DEF Lifecycle!Fail
      <3> QED
        BY <1>0, <3>2 DEF Lifecycle!Next
    <2> QED
      BY <2>2, <2>3
  <1> QED
    BY <1>3, <1>5, <1>6, <1>7, <1>8 DEF Execute

LEMMA OutsideAbstract ==
  ASSUME TypeInv,
         \/ \E a \in Actions : \/ Reject(a) \/ StallCheck(a) \/ EvictJob(a)
                               \/ DeleteBlobs(a) \/ DeleteRows(a)
         \/ ChangeConnection
  PROVE  AbstractStep
  <1> USE DEF AbstractStep
  <1>0. row \in [Actions -> Row] /\ Lifecycle!Actions = Actions
    BY DEF TypeInv, TypeOK, Actions, Lifecycle!Actions
  <1>1. SameEffects
    BY DEF Reject, StallCheck, EvictJob, DeleteBlobs, DeleteRows,
      ChangeConnection, effects, SameEffects, Effect
  <1>2. ASSUME NEW b \in Actions, Reject(b)
        PROVE  AbstractStep
    <2>1. /\ row[b].status \in {"proposed"} /\ row'[b].status = "rejected"
          /\ \A a \in Actions : a # b => row'[a].status = row[a].status
      BY <1>0, <1>2 DEF Reject, Row
    <2>2. Lifecycle!Move(b, {"proposed"}, "rejected")
      BY <1>1, <2>1, Moved, Z3
    <2>3. Lifecycle!Reject(b)
      BY <2>2 DEF Lifecycle!Reject
    <2> QED
      BY <1>0, <2>3 DEF Lifecycle!Next
  <1>3. ASSUME NEW b \in Actions, DeleteRows(b)
        PROVE  AbstractStep
    <2>1. /\ row'[b].status = "absent"
          /\ \A a \in Actions : a # b => row'[a].status = row[a].status
      BY <1>3, DeletedRow
    <2>2. CASE row[b].status = "absent"
      BY <1>1, <2>1, <2>2, Unseen
    <2>3. CASE row[b].status \in {"proposed", "queued", "executing", "done",
                                  "failed", "rejected"}
      <3>1. Lifecycle!Move(b, {"proposed", "queued", "executing", "done", "failed",
                               "rejected"}, "absent")
        BY <1>1, <2>1, <2>3, Moved, Z3
      <3>2. Lifecycle!Delete(b)
        BY <3>1 DEF Lifecycle!Delete
      <3> QED
        BY <1>0, <3>2 DEF Lifecycle!Next
    <2> QED
      BY <1>0, <2>2, <2>3 DEF Row, Status
  <1>4. CASE \/ \E a \in Actions : StallCheck(a) \/ EvictJob(a) \/ DeleteBlobs(a)
             \/ ChangeConnection
    <2>1. row' = row
      BY <1>4 DEF StallCheck, EvictJob, DeleteBlobs, ChangeConnection
    <2> QED
      BY <1>1, <2>1, Unseen
  <1> QED
    BY <1>2, <1>3, <1>4

\* The approve, execute and delete handlers, BullMQ and the worker together
\* implement the lifecycle of docs/ACTION_ENGINE.md: executing only after an
\* approval, done only once the effect exists, done, failed and rejected final.
THEOREM CodeImplementsLifecycle ==
  ASSUME Reliable PROVE Spec => ImplementsLifecycle
  <1>1. TypeInv /\ OrderInv /\ InlineInOrder /\ [Next]_vars
          => [Lifecycle!Next]_Lifecycle!vars
    <2>1. UNCHANGED vars => UNCHANGED Lifecycle!vars
      BY Unseen DEF vars, SameEffects, Effect
    <2>2. TypeInv /\ OrderInv /\ InlineInOrder /\ Next
            => Lifecycle!Next \/ UNCHANGED Lifecycle!vars
      BY RequestAbstract, WorkerAbstract, OutsideAbstract DEF Next, AbstractStep
    <2> QED
      BY <2>1, <2>2
  <1>2. TypeInv /\ OrderInv /\ [Next]_vars => OrderInv'
    BY StepOrder
  <1>3. TypeInv /\ InlineInOrder /\ [Next]_vars => InlineInOrder'
    BY StepInline DEF vars, InlineInOrder, Inline
  <1> QED
    BY <1>1, <1>2, <1>3, InitTypeInv, StepTypeInv, InitOrder, InitInline,
      InitLifecycle, PTL
    DEF Spec, ImplementsLifecycle, Lifecycle!Spec
=============================================================================
