--------------------------- MODULE ValidationGate ---------------------------
(***************************************************************************)
(* tools/validation-gate: a run in one mode goes through its checks one by *)
(* one (runner.ts, config.ts), computes the outcome (outcome.ts), writes   *)
(* and retains the reports (cli.ts, evidence.ts) and exits.  The recovery  *)
(* mode may run under the remote orchestration (recovery-remote.ts).  The  *)
(* synthetic account of the gate and the one of the smoke walk it starts   *)
(* are two instances of SyntheticAccount, on the deployment that is        *)
(* validated (or, for the smoke of a recovery, on the restored stack).     *)
(***************************************************************************)
EXTENDS Naturals, Sequences, FiniteSets

CONSTANTS
  Modes,     \* the modes that are run
  Names,     \* the ids of the checks in a caller's lists
  Injected,  \* check lists given to runGate by its caller (opts.checks)
  Attempts, Faults, GateResidues, SmokeResidues  \* see SyntheticAccount

VARIABLES
  env,      \* what the operator supplied; no step changes it
  phase,    \* where the process is
  results,  \* the check results, in the order of the list
  cascade,  \* the position of cascadeFrom, 0 for null
  effects,  \* what the commands may have changed
  bucket,   \* what the evidence store holds of this run
  exit,     \* the gate's exit code
  remote,   \* the orchestration: [ws, code]
  gserver, gclient,  \* the gate's synthetic account
  sserver, sclient   \* the smoke's

accounts == <<gserver, gclient, sserver, sclient>>
gateVars == <<env, phase, results, cascade, effects, bucket, exit, remote, accounts>>

Gate == INSTANCE SyntheticAccount
          WITH Device <- FALSE, Residues <- GateResidues, server <- gserver, client <- gclient
Smoke == INSTANCE SyntheticAccount
          WITH Device <- TRUE, Residues <- SmokeResidues, server <- sserver, client <- sclient
-----------------------------------------------------------------------------
(* The checks of each mode (config.ts) *)

\* What the runner and the outcome look at in a check; a pure one, or one that
\* always runs, does not take part in the cascade.
CheckSpec(ids) ==
  [id : ids, severity : {"P0", "P1", "P2", "P3"}, protected : BOOLEAN, required : BOOLEAN,
   cascades : BOOLEAN]

Lifecycle == {"synthetic_session_bootstrap", "synthetic_session_cleanup", "smoke",
              "post_restore_smoke"}

\* A migration or a restore that fails may have done part of its work.
Changes == {"migrate", "restore_scratch", "media_restore_s3"}

\* A caller's lists hold checks of its own, none that handles an account.
ASSUME GateOK ==
  /\ Modes \subseteq {"pr", "predeploy", "deploy", "postdeploy", "recovery", "injected"}
  /\ Injected \subseteq Seq(CheckSpec(Names)) /\ Names \cap Lifecycle = {}
  /\ Attempts \in Nat \ {0}

P0(id) == [id |-> id, severity |-> "P0", protected |-> FALSE, required |-> TRUE,
           cascades |-> TRUE]
P1(id) == [P0(id) EXCEPT !.severity = "P1"]
Protected(c) == [c EXCEPT !.protected = TRUE]
\* pure and alwaysRun: never skipped.
Always(c) == [c EXCEPT !.cascades = FALSE]

prChecks ==
  <<P0("pr_prerequisites"), P0("build"), P0("typecheck"), P0("unit"), P0("migrate"),
    P0("integration")>>

PureChecks ==
  <<Always(Protected(P0("config_safety"))),
    Always([P0("feature_posture") EXCEPT !.severity = "P3", !.required = FALSE]),
    Always(P0("predeploy_prerequisites"))>>

predeployChecks == PureChecks \o <<P0("preflight")>>

deployChecks_MigrateAlways ==
  PureChecks \o <<Always(P0("migrate")), P0("preflight"), P0("migrations_current")>>
deployChecks == PureChecks \o <<P0("migrate"), P0("preflight"), P0("migrations_current")>>

postdeployChecks ==
  <<P0("postdeploy_prerequisites"), P0("readyz"), Protected(P1("synthetic_session_bootstrap")),
    Protected(P1("ops_status_authed")), P0("smoke"),
    Always(Protected(P1("synthetic_session_cleanup")))>>

recoveryChecks ==
  LET s3(cs) == IF env.s3 THEN cs ELSE <<>> IN
  <<P0("recovery_prerequisites")>>
  \o s3(<<Protected(P0("s3_recovery_prerequisites"))>>)
  \o <<Protected(P0("scratch_guard")), Protected(P0("backup_verify")),
       Protected(P0("backup_verify_wrong_key"))>>
  \o s3(<<Protected(P0("media_backup_verify")), Protected(P0("media_backup_verify_wrong_key"))>>)
  \o <<Protected(P0("restore_scratch")), Protected(P1("post_restore_migrate"))>>
  \o s3(<<Protected(P1("media_restore_s3"))>>)
  \o <<Protected(P1("media_verify")), Protected(P1("post_restore_smoke"))>>

checks ==
  CASE env.mode = "pr" -> prChecks
    [] env.mode = "predeploy" -> predeployChecks
    [] env.mode = "deploy" -> deployChecks
    [] env.mode = "postdeploy" -> postdeployChecks
    [] env.mode = "recovery" -> recoveryChecks
    [] env.mode = "injected" -> env.list
-----------------------------------------------------------------------------
(* What was supplied, and the initial states *)

\* Only the facts a mode looks at vary in it.
Supplied ==
  {e \in [mode : Modes \ {"injected"}, list : {<<>>}, missing : BOOLEAN, unsafe : BOOLEAN,
          cloud : BOOLEAN, supplied : BOOLEAN, s3 : BOOLEAN, aliased : BOOLEAN,
          scratch : {"safe", "refused", "malformed"}, sealed : BOOLEAN, remote : BOOLEAN,
          evidence : {"none", "optional", "required"}] :
     /\ e.unsafe \/ e.cloud => e.mode \in {"predeploy", "deploy"}
     /\ e.supplied => e.mode = "postdeploy"
     /\ e.s3 \/ e.aliased \/ e.scratch # "safe" \/ ~e.sealed \/ e.remote => e.mode = "recovery"}

Plain(list) ==
  [mode |-> "injected", list |-> list, missing |-> FALSE, unsafe |-> FALSE, cloud |-> FALSE,
   supplied |-> FALSE, s3 |-> FALSE, aliased |-> FALSE, scratch |-> "safe", sealed |-> TRUE,
   remote |-> FALSE, evidence |-> "none"]

Envs == Supplied \cup {Plain(list) : list \in Injected}

GateInit ==
  /\ env \in Envs
  /\ phase = IF env.remote THEN "fetch" ELSE "checks"
  /\ results = <<>> /\ cascade = 0
  /\ effects = {} /\ bucket = {}
  /\ exit = 99
  /\ remote = [ws |-> env.remote, code |-> 99]
  /\ Gate!InitWith(env.supplied) /\ Smoke!InitWith(FALSE)
-----------------------------------------------------------------------------
(* The runner *)

pos == Len(results) + 1
spec == checks[pos]
Checking(id) == phase = "checks" /\ pos <= Len(checks) /\ spec.id = id

Skipped == cascade # 0 /\ spec.cascades

\* A required check that fails or blocks becomes the cause of later skips, in
\* place of an earlier one.
Cascade_FailedOnly(status) ==
  IF spec.required /\ status = "failed" THEN pos ELSE cascade
Cascade(status) ==
  IF spec.required /\ status \in {"failed", "blocked"} THEN pos ELSE cascade

Record(status, cause) ==
  /\ results' = Append(results, [status |-> status, cause |-> cause])
  /\ cascade' = Cascade(status)

Skip ==
  /\ phase = "checks" /\ pos <= Len(checks) /\ Skipped
  /\ Record("skipped", cascade)
  /\ UNCHANGED <<env, phase, effects, bucket, exit, remote, accounts>>

\* A command ends with a code, is killed at its timeout or cannot be spawned.
Expected(end, fails) == IF fails THEN end = "1" ELSE end = "0"

CommandStatus(ends, fails) ==
  {IF Expected(end, fails) THEN "passed" ELSE "failed" :
     end \in ends \cup {"timeout", "null"}}

\* backup:verify exits 0 only for a sealed set and its key; so does
\* media:verify-backup-s3.
WrongKey == {"backup_verify_wrong_key", "media_backup_verify_wrong_key"}
Verifies == {"backup_verify", "media_backup_verify"}

predeployConfigSafety == {IF env.unsafe THEN "failed" ELSE "passed"}
predeployFeaturePosture == {IF env.cloud THEN "degraded" ELSE "passed"}
\* What is missing blocks, and a base URL that is no URL fails.
Absent == IF env.missing THEN "blocked" ELSE "passed"
BadUrl == IF env.missing THEN {"failed"} ELSE {}
prLocalStack == {Absent}
predeployPrerequisites == {Absent}
postdeployPrerequisites == {Absent} \cup BadUrl
recoveryPrerequisites == {Absent} \cup BadUrl
readyz == {"passed", "failed"}
s3RecoveryPrerequisites == {IF env.aliased THEN "blocked" ELSE "passed"}

\* Exit 3 is a refusal; anything else that is not 0 is an error of the guard.
scratchTargetGuard ==
  {CASE env.scratch = "safe" -> "passed" [] env.scratch = "refused" -> "blocked"
     [] env.scratch = "malformed" -> "failed", "failed"}

\* The token is the run's, or the supplied one.
opsStatusAuthed ==
  IF gclient.tokens = {} /\ ~env.supplied THEN {"failed"} ELSE {"passed", "failed"}

Statuses ==
  LET id == spec.id IN
  IF env.mode = "injected" THEN {"passed", "failed", "blocked", "degraded", "skipped"}
  ELSE CASE id = "pr_prerequisites" -> prLocalStack
         [] id = "predeploy_prerequisites" -> predeployPrerequisites
         [] id = "postdeploy_prerequisites" -> postdeployPrerequisites
         [] id = "recovery_prerequisites" -> recoveryPrerequisites
         [] id = "readyz" -> readyz
         [] id = "config_safety" -> predeployConfigSafety
         [] id = "feature_posture" -> predeployFeaturePosture
         [] id = "s3_recovery_prerequisites" -> s3RecoveryPrerequisites
         [] id = "scratch_guard" -> scratchTargetGuard
         [] id = "ops_status_authed" -> opsStatusAuthed
         [] id \in WrongKey -> CommandStatus({"0", "1"}, TRUE)
         [] id \in Verifies -> CommandStatus(IF env.sealed THEN {"0", "1"} ELSE {"1"}, FALSE)
         [] OTHER -> CommandStatus({"0", "1"}, FALSE)

Check ==
  /\ phase = "checks" /\ pos <= Len(checks) /\ ~Skipped
  /\ spec.id \notin Lifecycle
  /\ \E status \in Statuses : Record(status, 0)
  /\ effects' = effects \cup ({spec.id} \cap Changes)
  /\ UNCHANGED <<env, phase, bucket, exit, remote, accounts>>
-----------------------------------------------------------------------------
(* The checks that make or destroy synthetic accounts *)

InCheck(id) == Checking(id) /\ ~Skipped

Bootstrap ==
  /\ InCheck("synthetic_session_bootstrap")
  /\ \/ (Gate!Start \/ Gate!Make) /\ UNCHANGED <<results, cascade>>
     \/ /\ Gate!At("held")
        /\ Record(IF gclient.state = "authenticated" THEN "passed" ELSE "failed", 0)
        /\ UNCHANGED <<gserver, gclient>>
  /\ UNCHANGED <<env, phase, effects, bucket, exit, remote, sserver, sclient>>

CleanUp ==
  /\ InCheck("synthetic_session_cleanup")
  /\ \/ (Gate!Cleanup \/ Gate!Destroy) /\ UNCHANGED <<results, cascade>>
     \/ Gate!At("end") /\ Record(gclient.clean, 0) /\ UNCHANGED <<gserver, gclient>>
  /\ UNCHANGED <<env, phase, effects, bucket, exit, remote, sserver, sclient>>

\* The smoke is a child process, and exits 0 if no step of the walk and no step
\* of its cleanup failed; at the timeout it is killed wherever it is.  readyz
\* may fail before anything is made.
SmokeOk == sclient.clean = "passed" /\ ~sclient.broken

SmokeCheck ==
  /\ InCheck("smoke") \/ InCheck("post_restore_smoke")
  /\ \/ (Smoke!Start \/ Smoke!Make \/ Smoke!Destroy \/ (Smoke!At("held") /\ Smoke!Cleanup))
        /\ UNCHANGED <<results, cascade>>
     \/ Smoke!At("end") /\ UNCHANGED <<sserver, sclient>>
        /\ Record(IF SmokeOk THEN "passed" ELSE "failed", 0)
     \/ Smoke!At("off") /\ UNCHANGED <<sserver, sclient>> /\ Record("failed", 0)
     \/ Smoke!Kill /\ Record("failed", 0)
  /\ UNCHANGED <<env, phase, effects, bucket, exit, remote, gserver, gclient>>

\* What the clients gave up on reaches the servers.
Late ==
  /\ \/ Gate!Late /\ UNCHANGED <<sserver, sclient>>
     \/ Smoke!Late /\ UNCHANGED <<gserver, gclient>>
  /\ UNCHANGED <<env, phase, results, cascade, effects, bucket, exit, remote>>
-----------------------------------------------------------------------------
(* The outcome (outcome.ts) *)

Is(i, status) == results[i].status = status

\* A required check may be skipped only for an earlier required one that
\* failed or was blocked.
ValidCascade(i) ==
  LET c == results[i].cause IN
  /\ c \in 1..i - 1
  /\ checks[c].required
  /\ results[c].status \in {"failed", "blocked"}

Failing(i) ==
  LET c == checks[i] IN
  Is(i, "failed") /\ (c.severity \in {"P0", "P1"} \/ (c.severity = "P2" /\ c.required)
                       \/ c.protected)

Blocking_NotBlocked(i) ==
  checks[i].required /\ Is(i, "skipped") /\ ~ValidCascade(i)
Blocking(i) ==
  checks[i].required /\ (Is(i, "blocked") \/ (Is(i, "skipped") /\ ~ValidCascade(i)))

computeOutcome ==
  LET all == DOMAIN results IN
  IF \E i \in all : Failing(i) THEN "FAIL"
  ELSE IF \E i \in all : Blocking(i) THEN "BLOCKED"
  ELSE IF \E i \in all : results[i].status \in {"failed", "blocked", "degraded"}
       THEN "CONDITIONAL_PASS"
  ELSE "PASS"

exitCodeFor(outcome) ==
  CASE outcome \in {"PASS", "CONDITIONAL_PASS"} -> 0
    [] outcome = "FAIL" -> 1
    [] outcome = "BLOCKED" -> IF env.mode = "pr" THEN 1 ELSE 2
-----------------------------------------------------------------------------
(* The reports, the evidence and the exit (cli.ts, evidence.ts) *)

Reports == {"report.json", "report.md", "junit.xml"}

\* The reports, and meta.json, which commits them, after all of them.
Files_MetaFirst == <<"meta.json", "report.json", "report.md", "junit.xml">>
Files == <<"report.json", "report.md", "junit.xml", "meta.json">>

\* The evidence store is asked for when a bucket is named, whether or not the
\* retention is required.
Report ==
  /\ phase = "checks" /\ pos > Len(checks)
  /\ phase' = IF env.evidence = "none" THEN "exit" ELSE "evidence"
  /\ UNCHANGED <<env, results, cascade, effects, bucket, exit, remote, accounts>>

Put ==
  /\ phase = "evidence"
  /\ bucket' = bucket \cup {Files[Cardinality(bucket) + 1]}
  /\ phase' = IF bucket' = Reports \cup {"meta.json"} THEN "exit" ELSE phase
  /\ UNCHANGED <<env, results, cascade, effects, exit, remote, accounts>>

\* An upload that fails ends the retention, and folds into the exit code only
\* when it is required.
EvidenceExit ==
  IF env.evidence = "required" /\ "meta.json" \notin bucket THEN 1 ELSE 0

PutFails ==
  /\ phase = "evidence" /\ phase' = "exit"
  /\ UNCHANGED <<env, results, cascade, effects, bucket, exit, remote, accounts>>

Larger(a, b) == IF a > b THEN a ELSE b

Exit ==
  /\ phase = "exit"
  /\ exit' = Larger(exitCodeFor(computeOutcome), EvidenceExit)
  /\ phase' = IF env.remote THEN "remote" ELSE "exited"
  /\ UNCHANGED <<env, results, cascade, effects, bucket, remote, accounts>>

\* The process dies, or a report cannot be written.
Crash ==
  /\ phase \in {"checks", "evidence", "exit"} /\ exit' = 1
  /\ phase' = IF env.remote THEN "remote" ELSE "exited"
  /\ UNCHANGED <<env, results, cascade, effects, bucket, remote, accounts>>
-----------------------------------------------------------------------------
(* The remote orchestration (recovery-remote.ts) *)

\* The committed set is fetched and verified, or the gate is never started.
Fetch ==
  /\ phase = "fetch"
  /\ phase' \in {"checks", "remote"}
  /\ UNCHANGED <<env, results, cascade, effects, bucket, exit, remote, accounts>>

computeExit_Gate(code, cleaned) == code
computeExit(code, cleaned) == IF ~cleaned /\ code = 0 THEN 1 ELSE code

\* The workspace is removed on every path; the code is set once, after that.
RemoteExit ==
  /\ phase = "remote" /\ phase' = "exited"
  /\ \E cleaned \in BOOLEAN :
       remote' = [ws |-> ~cleaned, code |-> computeExit(exit, cleaned)]
  /\ UNCHANGED <<env, results, cascade, effects, bucket, exit, accounts>>
-----------------------------------------------------------------------------
Run ==
  \/ Skip \/ Check \/ Bootstrap \/ CleanUp \/ SmokeCheck
  \/ Report \/ Put \/ PutFails \/ Exit \/ Fetch \/ RemoteExit

GateNext == Run \/ Late \/ Crash

GateSpec == GateInit /\ [][GateNext]_gateVars

\* The checks that run in the gate's own process: a file or the environment is
\* looked at, or an HTTP call made that is aborted after 15 seconds.
InProcess ==
  {"pr_prerequisites", "predeploy_prerequisites", "postdeploy_prerequisites",
   "recovery_prerequisites", "s3_recovery_prerequisites", "config_safety", "feature_posture",
   "readyz", "ops_status_authed", "synthetic_session_bootstrap", "synthetic_session_cleanup"}

\* A command is killed at its timeout, but awaited until its pipes are closed, which
\* what it started may keep open; a caller's check may wait for anything.
AwaitsCommand ==
  /\ phase = "checks" /\ pos <= Len(checks) /\ ~Skipped
  /\ env.mode = "injected" \/ spec.id \notin InProcess

\* The waits without a timer: those, for the fetch of the orchestration, and for an
\* answer of the evidence store.
Untimed == AwaitsCommand \/ phase \in {"fetch", "evidence"}

\* Everywhere else the gate keeps going; a call given up on may never be served.
GateFairSpec == GateSpec /\ WF_gateVars(Run /\ ~Untimed)
-----------------------------------------------------------------------------
(* Properties *)

Exited == phase = "exited"
Code == IF env.remote THEN remote.code ELSE exit

\* SAFETY (computeOutcome, the cascade, exitCodeFor, recovery-remote.ts,
\* retainEvidence): an exit code of 0 means that every required check of the mode
\* was run and passed, that the orchestration left nothing of its workspace, and
\* that evidence that must be retained is committed, by a meta.json that vouches
\* for reports that are all there.  A required P3 check that is not protected is
\* the exception: its failure skips the required checks after it and still yields
\* CONDITIONAL_PASS, which only a list injected by the caller can contain.
NoFalsePass ==
  /\ Exited /\ Code = 0 =>
       /\ Len(results) = Len(checks) /\ exit = 0 /\ ~remote.ws
       /\ \/ \A i \in DOMAIN checks :
               checks[i].required => results[i].status \in {"passed", "degraded"}
          \/ \E i \in DOMAIN checks : /\ env.mode = "injected" /\ Is(i, "failed")
                                      /\ checks[i].severity = "P3" /\ checks[i].required
       /\ env.evidence = "required" => "meta.json" \in bucket
  /\ "meta.json" \in bucket => Reports \subseteq bucket

\* SAFETY (deployChecks, recoveryChecks, the cascade): migrations are applied only
\* to a deployment whose configuration is safe and whose prerequisites are all
\* there; something is restored only into a safe scratch target, from a set that
\* verifies, and never with the media stores mixed up.
ChangesAreSafe ==
  /\ env.mode = "deploy" /\ "migrate" \in effects => ~env.unsafe /\ ~env.missing
  /\ effects \cap {"restore_scratch", "media_restore_s3"} # {} =>
       env.scratch = "safe" /\ env.sealed /\ ~env.missing /\ (env.s3 => ~env.aliased)

\* SAFETY (syntheticSessionCleanup, runSmoke, account_state_unknown, the timeout
\* of a command): exit code 0 after a mode that makes synthetic accounts means
\* that none is left on the deployment, nor a token the smoke was given, whatever
\* was lost, was served late or stays behind after a deletion that answered 200;
\* and a gate that ends its checks with an account of its own on the deployment
\* has reported its cleanup as failed.
NothingLeft ==
  /\ Exited /\ Code = 0 =>
       /\ env.mode = "postdeploy" /\ ~env.supplied => gserver.account # "live"
       /\ env.mode = "postdeploy" /\ env.supplied => gserver.sess = {}
       /\ sclient.pc # "off" =>
            sserver.account # "live" /\ sserver.sess \cap {"web", "device"} = {}
  /\ env.mode = "postdeploy" /\ ~env.supplied /\ pos > Len(checks)
       /\ gserver.account = "live" => Is(Len(checks), "failed")

\* LIVENESS (AbortSignal.timeout, CLEANUP_ATTEMPTS): every run ends, whatever the
\* deployment does not answer, unless a command, the fetch of the orchestration or the
\* evidence store keeps it waiting for good.
Ends == <>Exited \/ <>[]Untimed
=============================================================================
