-------------------------- MODULE SyntheticAccount --------------------------
(***************************************************************************)
(* The synthetic account a validation makes on a running deployment and    *)
(* has to destroy.  The validation gate (checks/postdeploy.ts) and the     *)
(* smoke walk (services/api/src/ops/smoke.ts) keep the same lifecycle; the *)
(* smoke also pairs a device, and probes every token it was given.         *)
(*                                                                         *)
(* A step is one HTTP call.  A reply may be lost, or not be a success,     *)
(* whether or not the server did what was asked; a call the client gave up *)
(* on may still be served later.  A deletion that answers 200 may leave    *)
(* things behind: finding that out is what the probes are for.             *)
(***************************************************************************)
EXTENDS Naturals

CONSTANTS
  Device,    \* TRUE for the smoke, which pairs a device; FALSE for the gate
  Attempts,  \* CLEANUP_ATTEMPTS
  Faults,    \* a subset of {"lost", "late"}
  Residues   \* the sets of what a deletion that answers 200 may leave alive

VARIABLES
  server,  \* the deployment: the account, its sessions, calls to be served later
  client   \* the lifecycle that is kept in the client's memory

Credential == {"web", "device", "account"}
Call == {"signup", "login", "claim", "delete", "logout"}

\* With a supplied token (NOVA_VALIDATE_SESSION_TOKEN) the account is the
\* operator's, and it has a session.
InitWith(supplied) ==
  /\ server = [account |-> IF supplied THEN "live" ELSE "none",
               sess |-> IF supplied THEN {"web"} ELSE {}, late |-> {}]
  /\ client = [pc |-> "off", state |-> "not_started", tokens |-> {},
               supplied |-> supplied, tries |-> 0, dead |-> {},
               broken |-> FALSE, clean |-> "none"]
-----------------------------------------------------------------------------
(* The deployment *)

Accepts(q) ==
  CASE q = "signup" -> server.account = "none"
    [] q \in {"login", "claim"} -> server.account = "live"
    [] q = "delete" -> server.account = "live" /\ "web" \in server.sess
    [] q = "logout" -> "web" \in server.sess

Served(q) ==
  IF ~Accepts(q) THEN {server} ELSE
  CASE q = "signup" -> {[server EXCEPT !.account = "live"]}
    [] q = "login" -> {[server EXCEPT !.sess = @ \cup {"web"}]}
    [] q = "claim" -> {[server EXCEPT !.sess = @ \cup {"device"}]}
    [] q = "logout" -> {[server EXCEPT !.sess = @ \ {"web"}]}
    [] q = "delete" -> {[server EXCEPT !.account = IF "account" \in left THEN @ ELSE "gone",
                                       !.sess = @ \cap left] : left \in Residues}

\* One call: done and answered; refused; answered badly or not at all, done or
\* not; or given up on and still to be served.
Calls(q, success, refusal, failure) ==
  \/ Accepts(q) /\ server' \in Served(q) /\ client' = success
  \/ ~Accepts(q) /\ UNCHANGED server /\ client' = refusal
  \/ "lost" \in Faults /\ server' \in Served(q) \cup {server} /\ client' = failure
  \/ "late" \in Faults /\ server' = [server EXCEPT !.late = @ \cup {q}] /\ client' = failure

ServeLate(q) ==
  /\ q \in server.late
  /\ \E s \in Served(q) : server' = [s EXCEPT !.late = @ \ {q}]
  /\ UNCHANGED client
-----------------------------------------------------------------------------
(* Making the account *)

At(pc) == client.pc = pc

Start == At("off") /\ client' = [client EXCEPT !.pc = "signup"] /\ UNCHANGED server

\* Approach A: the supplied token is used as it is.
Adopt ==
  /\ At("signup") /\ client.supplied
  /\ client' = [client EXCEPT !.pc = "held", !.state = "authenticated", !.tokens = {"web"}]
  /\ UNCHANGED server

\* The walk ends here; what was made is left to the cleanup.
Broken == [client EXCEPT !.pc = "held", !.broken = TRUE]

\* The account may exist as soon as the call is made, so that is noted first.
Signup_Assumed ==
  /\ At("signup") /\ ~client.supplied
  /\ Calls("signup", [client EXCEPT !.pc = "login", !.state = "account_created"], Broken, Broken)
Signup ==
  LET unknown == [Broken EXCEPT !.state = "account_state_unknown"] IN
  /\ At("signup") /\ ~client.supplied
  /\ Calls("signup", [client EXCEPT !.pc = "login", !.state = "account_created"],
           unknown, unknown)

Login ==
  /\ At("login")
  /\ Calls("login", [client EXCEPT !.pc = IF Device THEN "pair" ELSE "held",
                                   !.state = "authenticated", !.tokens = {"web"}],
           Broken, Broken)

\* The code and its claim; an answer that is no success lets the walk go on.
Pair ==
  /\ At("pair")
  /\ \E pc \in {"walk", "held"} :
       Calls("claim", [client EXCEPT !.pc = "walk", !.tokens = @ \cup {"device"}],
             [Broken EXCEPT !.pc = pc], [Broken EXCEPT !.pc = pc])

\* Captures, searches, an export, a deletion...: each works, is degraded, fails
\* or throws.
Walk ==
  /\ At("walk")
  /\ client' \in {Broken, [client EXCEPT !.pc = "held"]}
  /\ UNCHANGED server
-----------------------------------------------------------------------------
(* Destroying it *)

Settled(ok) ==
  [client EXCEPT !.pc = "end", !.state = IF ok THEN "cleaned" ELSE "cleanup_failed",
                 !.tokens = {}, !.clean = IF ok THEN "passed" ELSE "failed"]

Deleting(c) == [c EXCEPT !.pc = "delete", !.state = "deletion_attempted", !.tries = Attempts]

Cleanup ==
  /\ client.pc \in {"off", "held"}
  /\ client' =
       IF client.state = "not_started"
         THEN [client EXCEPT !.pc = "end", !.clean = "passed"]
       ELSE IF client.supplied THEN [client EXCEPT !.pc = "logout"]
       ELSE IF "web" \in client.tokens THEN Deleting(client)
       ELSE [client EXCEPT !.pc = "recover", !.tries = Attempts]
  /\ UNCHANGED server

Retry_Forever == client
Retry == IF client.tries = 1 THEN Settled(FALSE) ELSE [client EXCEPT !.tries = @ - 1]

Recover ==
  /\ At("recover")
  /\ Calls("login", Deleting([client EXCEPT !.tokens = @ \cup {"web"}]), Retry, Retry)

\* What has to be seen rejected with exactly 401, in the order it is tried.
ToProbe == IF Device THEN client.tokens \cup {"account"} ELSE {"account"}
NextProbe(done) ==
  IF "web" \in ToProbe \ done THEN "web"
  ELSE IF "device" \in ToProbe \ done THEN "device" ELSE "account"

\* A deletion that answers 200 is believed by nobody: only the probes count.
Deleted_Believed == Settled(TRUE)
Deleted == [client EXCEPT !.pc = NextProbe({})]

Delete ==
  /\ At("delete")
  /\ Calls("delete", Deleted, Retry, Retry)

Alive(x) == IF x = "account" THEN server.account = "live" ELSE x \in server.sess

\* 403, a 5xx and silence prove nothing.
Proof(x, seen) == seen = "401"

Probe(x) ==
  LET after(seen) == [client EXCEPT !.dead = IF Proof(x, seen) THEN @ \cup {x} ELSE @]
      next(seen) == IF x = "account"
                    THEN [Settled(ToProbe \subseteq after(seen).dead)
                            EXCEPT !.dead = after(seen).dead]
                    ELSE [after(seen) EXCEPT !.pc = NextProbe({"web", x})]
  IN  /\ At(x)
      /\ \/ /\ client' = next(IF Alive(x) THEN "success" ELSE "401")
            /\ server' = IF x = "account" /\ Alive(x)
                         THEN [server EXCEPT !.sess = @ \cup {"web"}] ELSE server
         \/ "lost" \in Faults /\ client' = next("error") /\ UNCHANGED server

\* Approach A: whatever logout answers, the token is tried.
Logout ==
  /\ At("logout")
  /\ \E c \in {[client EXCEPT !.pc = "web"], Settled(FALSE)} :
       Calls("logout", [client EXCEPT !.pc = "web"], [client EXCEPT !.pc = "web"], c)

TryRevoked ==
  /\ At("web") /\ client.supplied
  /\ \/ client' = Settled(Proof("web", IF Alive("web") THEN "success" ELSE "401"))
     \/ "lost" \in Faults /\ client' = Settled(Proof("web", "error"))
  /\ UNCHANGED server

Kill ==
  /\ client.pc \notin {"off", "end", "killed"}
  /\ client' = [client EXCEPT !.pc = "killed"]
  /\ UNCHANGED server
-----------------------------------------------------------------------------
Make == Adopt \/ Signup \/ Login \/ Pair \/ Walk
Destroy ==
  \/ Recover \/ Delete \/ Logout \/ TryRevoked
  \/ ~client.supplied /\ \E x \in Credential : Probe(x)
Late == \E q \in Call : ServeLate(q)
=============================================================================
