--------------------------- MODULE ActionLifecycle ---------------------------
(***************************************************************************)
(* What the action engine promises of one action, as docs/ACTION_ENGINE.md *)
(* section 2.1 and docs/AUTH.md ("Job-based execution") draw it: proposed, *)
(* then approved or rejected; executing only after approval; done only     *)
(* once the external effect exists; done, failed and rejected are final.   *)
(***************************************************************************)
CONSTANTS External, Internal

Actions == External \cup Internal

VARIABLES
  status,  \* the status a user sees, "absent" once deleted
  effect   \* whether the page or the task exists

vars == <<status, effect>>

Init ==
  /\ status = [a \in Actions |-> "proposed"]
  /\ effect = [a \in Actions |-> FALSE]

Move(a, from, to) ==
  /\ status[a] \in from
  /\ status' = [status EXCEPT ![a] = to]
  /\ UNCHANGED effect

Approve(a) == a \in External /\ Move(a, {"proposed"}, "queued")
\* The queue refused the job: the approval is taken back.
Withdraw(a) == a \in External /\ Move(a, {"queued"}, "proposed")
Reject(a) == Move(a, {"proposed"}, "rejected")
Begin(a) == \/ a \in External /\ Move(a, {"queued"}, "executing")
            \/ a \in Internal /\ Move(a, {"proposed"}, "executing")
\* The effect appears while the action executes; a deletion does not recall it.
Write(a) ==
  /\ status[a] \in {"executing", "absent"}
  /\ effect' = [effect EXCEPT ![a] = TRUE]
  /\ UNCHANGED status
Finish(a) == effect[a] /\ Move(a, {"executing"}, "done")
Fail(a) == Move(a, {"queued", "executing"}, "failed")
Delete(a) == Move(a, {"proposed", "queued", "executing", "done", "failed",
                      "rejected"}, "absent")

Next == \E a \in Actions :
  \/ Approve(a) \/ Withdraw(a) \/ Reject(a) \/ Begin(a)
  \/ Write(a) \/ Finish(a) \/ Fail(a) \/ Delete(a)

Spec == Init /\ [][Next]_vars
=============================================================================
