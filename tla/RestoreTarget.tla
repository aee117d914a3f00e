---------------------------- MODULE RestoreTarget ----------------------------
(***************************************************************************)
(* Which database and which object store a restore may write to: the       *)
(* guards restore.sh runs before pg_restore and media:restore-s3 runs      *)
(* before it copies, as functions of how the operator spelled the target   *)
(* and of the authorization in the environment.                            *)
(***************************************************************************)
EXTENDS Naturals

CONSTANTS
  Hosts,     \* hosts of databases, written canonically
  Loopback,  \* the one that is this machine
  RunIds,    \* run ids of recovery drills, 32 hex characters
  WeakIds,   \* words that are no run id
  Primary    \* the primary database: its host and its name

ASSUME TargetsOK == Loopback \in Hosts /\ Primary.host \in Hosts

None == "none"
-----------------------------------------------------------------------------
(* Databases *)

\* A database name, and the run id it ends with or merely contains.
DbNames == [base : {"nova"}, suffix : RunIds \cup {None},
            inside : RunIds \cup WeakIds \cup {None}]

\* A DATABASE_URL: odd spells the host in capitals or with a final dot, port ""
\* leaves the default port out, and tls is the sslmode it asks for.
Urls == [host : Hosts, odd : BOOLEAN, port : {"", "5432"}, db : DbNames,
         tls : {"", "require"}]

canonicalizeHost(u) == u.host

Port(u) == IF u.port = "" THEN "5432" ELSE u.port

\* canonicalizeDbIdentity, and the fingerprint that stands for it.
Fingerprint(u) == <<canonicalizeHost(u), Port(u), u.db, u.tls>>

\* The database a URL reaches, however it is spelled.
Reaches(u) == [host |-> u.host, db |-> u.db]
PrimaryUrls == {u \in Urls : Reaches(u) = Primary}

\* The environment of a guard.  An expectation is right or wrong for the target
\* at hand, or absent or malformed; the primary's fingerprint was taken of some
\* URL of the primary.
Right == "right"
Malformed == <<>>
Envs(u) ==
  [prod : BOOLEAN, allow : BOOLEAN, class : BOOLEAN, confirm : BOOLEAN,
   override : BOOLEAN, expectHost : {Right, "wrong", "absent"},
   expectDb : {Right, "wrong", "absent"}, expectFp : {Right, "wrong", "malformed"},
   primaryFp : {Fingerprint(p) : p \in PrimaryUrls} \cup {Malformed},
   runId : RunIds \cup WeakIds \cup {"absent"}]

isLoopback(u) == u.host = Loopback

\* RUN_ID_RE, and the run id delimited at the end of the database name.
Marked_Substring(u, runId) == runId \in {u.db.inside, u.db.suffix}
Marked(u, runId) == runId \in RunIds /\ u.db.suffix = runId

\* classifyScratchTarget: every condition of a remote scratch target.
RemoteScratch(u, env) ==
  /\ env.allow /\ env.class /\ env.confirm
  /\ env.expectHost = Right /\ env.expectDb = Right /\ env.expectFp = Right
  /\ env.primaryFp # Malformed /\ Fingerprint(u) # env.primaryFp
  /\ Marked(u, env.runId)

classifyScratchTarget(u, env) ==
  IF isLoopback(u) /\ ~env.prod THEN "local_scratch"
  ELSE IF RemoteScratch(u, env) THEN "remote_scratch" ELSE "blocked"

\* classifyRestoreTarget: anything but a loopback database outside production.
requiresOverride(u, env) == ~(isLoopback(u) /\ ~env.prod)

\* restore.sh's run_target_guard in its two modes.
Passes(mode, u, env) ==
  IF mode = "authorized-scratch"
  THEN /\ ~env.override
       /\ classifyScratchTarget(u, env) \in {"local_scratch", "remote_scratch"}
  ELSE requiresOverride(u, env) => env.override

\* Whether a target that passes is the primary: both, one or no answers.
Targets(mode) ==
  {Reaches(u) = Primary : u \in {v \in Urls : \E env \in Envs(v) : Passes(mode, v, env)}}
DrillTargets == Targets("authorized-scratch")
ManualTargets == Targets("manual")
-----------------------------------------------------------------------------
(* Object stores *)

\* How a store is spelled: odd in a way the canonical form merges (an AWS endpoint,
\* the case of its host, a default port, a final slash), or by an alias it keeps
\* apart (http for https, another name of its host).
Stores == {"primary", "backup", "scratch"}
Identities == [store : Stores, odd : BOOLEAN, alias : BOOLEAN]
Plain(store) == [store |-> store, odd |-> FALSE, alias |-> FALSE]

canonicalizeIdentity_Verbatim(id) == id
canonicalizeIdentity(id) == [id EXCEPT !.odd = FALSE]

assertDistinctTargets(a, b) == canonicalizeIdentity(a) # canonicalizeIdentity(b)

\* Where media:restore-s3 writes: never to what it takes for the backup store, and
\* to what it takes for the inventory's source only under
\* NOVA_MEDIA_RESTORE_ALLOW_PRIMARY.
MayWrite(dest, allowPrimary) ==
  /\ assertDistinctTargets(Plain("backup"), dest)
  /\ allowPrimary \/ assertDistinctTargets(Plain("primary"), dest)

\* Where restore.sh unpacks the tar of an fs store: NOVA_MEDIA_FS_ROOT, whatever it
\* is, in either mode.
Roots == {Plain(store) : store \in {"primary", "scratch"}}
=============================================================================
