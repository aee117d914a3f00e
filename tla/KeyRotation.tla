----------------------------- MODULE KeyRotation -----------------------------
(***************************************************************************)
(* The encryption keys, what they protect, and their rotation.             *)
(*                                                                         *)
(* One key encrypts the stored images (full size and thumbnail) and the    *)
(* Notion tokens.  A server reads with a ring of keys and writes with the  *)
(* first of them.  The operator follows the runbook: deploy the new key    *)
(* with the old one behind it, run media:rotate-key until nothing is       *)
(* undecryptable, run media:verify with the new key alone, and deploy      *)
(* without the old key.  Meanwhile users capture and delete images,        *)
(* connect and disconnect Notion and choose destinations; a deploy kills   *)
(* the requests of the API, and anything may die.                          *)
(*                                                                         *)
(* A ciphertext is known by its key: GCM's tag tells a wrong key for sure. *)
(* A token is known by the OAuth state it was obtained with.               *)
(***************************************************************************)
EXTENDS Naturals, FiniteSets

CONSTANTS
  Users,
  States,     \* values of the OAuth state parameter
  Images,     \* media ids
  Decodable,  \* those that get a thumbnail
  Requests,   \* concurrent requests about the connection
  Starts,     \* the images and states still to come; the others are gone and expired
  MaxFaults   \* deaths of processes, and damaged objects

None == "none"

ASSUME KeyRotationOK ==
  /\ Decodable \subseteq Images /\ MaxFaults \in Nat
  /\ Starts \subseteq [images : SUBSET Images, states : SUBSET States]
  /\ None \notin States

Servers == {"api", "worker"}
Variants == {"full", "thumb"}

VARIABLES
  ring,     \* the keys each server was started with
  stage,    \* where the operator is
  life,     \* each image: its capture, its row, its deletion
  blob,     \* the key each object is encrypted with
  conn,     \* integration_connections, of provider notion
  oauth,    \* oauth_states
  req,      \* requests: program counter and locals
  tool,     \* the process of media:rotate-key or media:verify
  faults,   \* faults so far
  latest,   \* history: the token of the connection made last, if it stands
  revived,  \* history: objects written back after they were erased
  mixed     \* history: users whose connection was written by one who had read another

vars == <<ring, stage, life, blob, conn, oauth, req, tool, faults, latest,
          revived, mixed>>
history == <<revived, mixed>>
media == <<life, blob>>
notion == <<conn, oauth, req, latest>>
-----------------------------------------------------------------------------
(* Initial state *)

Keys(r) == CASE r = "old" -> {"old"} [] r = "both" -> {"new", "old"} [] r = "new" -> {"new"}
WriteKey == IF ring["api"] = "old" THEN "old" ELSE "new"

\* "full" and "thumb": the capture has stored that much; "row": it is complete.
\* "erase full", "erase thumb", "forget": what a deletion does next; "halved": it
\* died there.  "dead": a capture that died before its row.
Deleting == {"erase full", "erase thumb", "forget"}
HasRow == {m \in Images : life[m] \in {"row", "halved"} \cup Deleting}
Objects == Images \X Variants
ObjectsOf(m) == {<<m, "full">>} \cup IF m \in Decodable THEN {<<m, "thumb">>} ELSE {}

NoConn == [status |-> None, token |-> None, key |-> None, mapping |-> None]
IdleReq == [pc |-> "idle", user |-> None, token |-> None]
IdleTool == [pc |-> "off", objects |-> {}, conns |-> [u \in Users |-> None], failed |-> FALSE]

Init ==
  /\ ring = [s \in Servers |-> "old"] /\ stage = "deploy"
  /\ \E start \in Starts :
       /\ life = [m \in Images |-> IF m \in start.images THEN "unborn" ELSE "gone"]
       /\ oauth = [s \in States |-> [user |-> None,
                     status |-> IF s \in start.states THEN None ELSE "expired"]]
  /\ blob = [o \in Objects |-> None]
  /\ conn = [u \in Users |-> NoConn]
  /\ req = [q \in Requests |-> IdleReq]
  /\ tool = IdleTool /\ faults = 0
  /\ latest = [u \in Users |-> None] /\ revived = {} /\ mixed = {}
-----------------------------------------------------------------------------
(* Images *)

OnlyMedia == UNCHANGED <<ring, stage, tool, faults, history, notion>>

\* storeMomentImages: the full image, its thumbnail if it can be decoded, the row.
Capture(m) ==
  /\ \/ /\ life[m] = "unborn" /\ life' = [life EXCEPT ![m] = "full"]
        /\ blob' = [blob EXCEPT ![<<m, "full">>] = WriteKey]
     \/ /\ life[m] = "full" /\ m \in Decodable /\ life' = [life EXCEPT ![m] = "thumb"]
        /\ blob' = [blob EXCEPT ![<<m, "thumb">>] = WriteKey]
     \/ /\ life[m] = IF m \in Decodable THEN "thumb" ELSE "full"
        /\ life' = [life EXCEPT ![m] = "row"]
        /\ UNCHANGED blob
  /\ OnlyMedia

\* deleteForMoments erases the objects one after the other (that it may fail is
\* MediaLifecycle's); then the route deletes the row.
Delete(m, from, erased, to) ==
  /\ life[m] \in from
  /\ blob' = [blob EXCEPT ![<<m, "full">>] = IF "full" \in erased THEN None ELSE @,
                          ![<<m, "thumb">>] = IF "thumb" \in erased THEN None ELSE @]
  /\ life' = [life EXCEPT ![m] = to]
  /\ OnlyMedia
StartDelete(m) == Delete(m, {"row", "halved"}, {}, "erase full")
Erase_FullOnly(m) == Delete(m, {"erase full"}, {"full"}, "forget")
Erase(m) == \/ Delete(m, {"erase full"}, {"full"}, "erase thumb")
            \/ Delete(m, {"erase thumb"}, {"thumb"}, "forget")
Forget(m) == Delete(m, {"forget"}, {}, "gone")
-----------------------------------------------------------------------------
(* The connection to Notion *)

OnlyNotion == UNCHANGED <<ring, stage, tool, faults, revived, media>>
At(q, pc) == req[q].pc = pc
To(q, new) == req' = [req EXCEPT ![q] = new]
Active(u) == conn[u].status = "active"

\* oauth/start mints a state, which expires after ten minutes.
Start(u, s) ==
  /\ oauth[s].status = None
  /\ oauth' = [oauth EXCEPT ![s] = [user |-> u, status |-> "issued"]]
  /\ UNCHANGED <<conn, req, latest, mixed>> /\ OnlyNotion

Expire(s) == /\ oauth[s].status = "issued"
             /\ oauth' = [oauth EXCEPT ![s].status = "expired"]
             /\ UNCHANGED <<conn, req, latest, mixed>> /\ OnlyNotion

\* The callback claims the state in one statement, whoever presents it ...
Claim(q, u, s) ==
  /\ oauth' = [oauth EXCEPT ![s].status = "used"]
  /\ To(q, [IdleReq EXCEPT !.pc = "exchange", !.user = u, !.token = s])
  /\ UNCHANGED <<conn, latest, mixed>> /\ OnlyNotion
Callback_AnyUser(q, u, s) ==
  /\ At(q, "idle") /\ oauth[s].status = "issued" /\ Claim(q, u, s)
Callback(q, u, s) ==
  /\ At(q, "idle") /\ oauth[s] = [user |-> u, status |-> "issued"] /\ Claim(q, u, s)

\* ... has Notion exchange the code for a token, which may fail ...
Exchange(q) ==
  /\ At(q, "exchange")
  /\ To(q, [req[q] EXCEPT !.pc = "upsert"]) \/ To(q, IdleReq)
  /\ UNCHANGED <<conn, oauth, latest, mixed>> /\ OnlyNotion

\* ... and inserts or replaces the user's connection.
Connects(q, mapping) ==
  LET u == req[q].user
      s == req[q].token
  IN /\ At(q, "upsert")
     /\ conn' = [conn EXCEPT ![u] = [status |-> "active", token |-> s, key |-> WriteKey,
                                     mapping |-> mapping]]
     /\ latest' = [latest EXCEPT ![u] = s]
     /\ mixed' = mixed \ {u}
     /\ To(q, IdleReq)
     /\ UNCHANGED oauth /\ OnlyNotion
Upsert_KeepMeta(q) == Connects(q, conn[req[q].user].mapping)
Upsert(q) == Connects(q, None)

\* Disconnecting revokes the row and wipes the ciphertext.
Revokes(u, status, token, key) ==
  /\ Active(u)
  /\ conn' = [conn EXCEPT ![u].status = status, ![u].token = token, ![u].key = key]
  /\ latest' = [latest EXCEPT ![u] = None]
  /\ mixed' = mixed \ {u}
  /\ UNCHANGED <<oauth, req>> /\ OnlyNotion
Disconnect_Keep(u) == Revokes(u, "revoked", conn[u].token, conn[u].key)
Disconnect(u) == Revokes(u, "revoked", None, None)

\* Saving a destination without a mapping clears it; one with a mapping reads the
\* token, has Notion describe the database, which may fail or not fit, and then
\* saves into the connection that is active by then.
ClearMapping(u) ==
  /\ Active(u) /\ conn[u].mapping # None
  /\ conn' = [conn EXCEPT ![u].mapping = None]
  /\ UNCHANGED <<oauth, req, latest, mixed>> /\ OnlyNotion

ReadToken(q, u) ==
  /\ At(q, "idle") /\ Active(u) /\ conn[u].key \in Keys(ring["api"])
  /\ To(q, [IdleReq EXCEPT !.pc = "validate", !.user = u, !.token = conn[u].token])
  /\ UNCHANGED <<conn, oauth, latest, mixed>> /\ OnlyNotion
Validate(q) ==
  /\ At(q, "validate")
  /\ To(q, [req[q] EXCEPT !.pc = "save"]) \/ To(q, IdleReq)
  /\ UNCHANGED <<conn, oauth, latest, mixed>> /\ OnlyNotion
SaveMapping(q) ==
  LET u == req[q].user
  IN /\ At(q, "save")
     /\ conn' = IF Active(u) THEN [conn EXCEPT ![u].mapping = req[q].token] ELSE conn
     /\ mixed' = IF ~Active(u) \/ conn[u].token = req[q].token THEN mixed ELSE mixed \cup {u}
     /\ To(q, IdleReq)
     /\ UNCHANGED <<oauth, latest>> /\ OnlyNotion

RequestStep(q) ==
  \/ Exchange(q) \/ Upsert(q) \/ Validate(q) \/ SaveMapping(q)
-----------------------------------------------------------------------------
(* The operator *)

\* media:rotate-key over the rows and their objects of this moment ...
SelectMedia(pc) ==
  /\ tool.pc = "off"
  /\ tool' = [IdleTool EXCEPT !.pc = pc, !.objects = UNION {ObjectsOf(m) : m \in HasRow}]
  /\ UNCHANGED <<ring, stage, faults, history, media, notion>>
StartRotation == stage = "rotate" /\ SelectMedia("get")

First == CHOOSE o \in tool.objects : TRUE
Passed(o, bad) == tool' = [tool EXCEPT !.objects = @ \ {o}, !.pc = "get", !.failed = @ \/ bad]

\* ... reads each; what is missing, already new, or opens with neither key stays ...
ReadObject_OldOnly ==
  /\ tool.pc = "get" /\ tool.objects # {}
  /\ IF blob[First] = "old" THEN tool' = [tool EXCEPT !.pc = "put"]
     ELSE Passed(First, blob[First] # None)
  /\ UNCHANGED <<ring, stage, faults, history, media, notion>>
ReadObject ==
  /\ tool.pc = "get" /\ tool.objects # {}
  /\ IF blob[First] = "old" THEN tool' = [tool EXCEPT !.pc = "put"]
     ELSE Passed(First, blob[First] = "bad")
  /\ UNCHANGED <<ring, stage, faults, history, media, notion>>

\* ... and puts back what opened with the old key, encrypted with the new.
WriteObject ==
  /\ tool.pc = "put"
  /\ blob' = [blob EXCEPT ![First] = "new"]
  /\ revived' = IF blob[First] = None THEN revived \cup {First} ELSE revived
  /\ Passed(First, FALSE)
  /\ UNCHANGED <<ring, stage, faults, life, mixed, notion>>

\* Then the tokens of the active connections; those on the old key ...
SelectTokens_None ==
  /\ tool.pc = "get" /\ tool.objects = {}
  /\ tool' = [tool EXCEPT !.pc = "tokens"]
  /\ UNCHANGED <<ring, stage, faults, history, media, notion>>
SelectTokens ==
  /\ tool.pc = "get" /\ tool.objects = {}
  /\ tool' = [tool EXCEPT !.pc = "tokens",
       !.conns = [u \in Users |-> IF Active(u) /\ conn[u].key = "old"
                                  THEN conn[u].token ELSE None]]
  /\ UNCHANGED <<ring, stage, faults, history, media, notion>>

\* ... are written back, by the id of their row.
WriteToken(u) ==
  /\ tool.pc = "tokens" /\ tool.conns[u] # None
  /\ conn' = [conn EXCEPT ![u].token = tool.conns[u], ![u].key = "new"]
  /\ mixed' = IF conn[u].token = tool.conns[u] THEN mixed ELSE mixed \cup {u}
  /\ tool' = [tool EXCEPT !.conns[u] = None]
  /\ UNCHANGED <<ring, stage, faults, media, oauth, req, latest, revived>>

\* It exits with 2 if something was undecryptable, and the operator starts it again.
EndRotation ==
  /\ tool.pc = "tokens" /\ \A u \in Users : tool.conns[u] = None
  /\ stage' = IF tool.failed THEN "rotate" ELSE "verify"
  /\ tool' = IdleTool
  /\ UNCHANGED <<ring, faults, history, media, notion>>

\* media:verify with the new key alone wants every object of every row.
StartVerify == stage = "verify" /\ SelectMedia("verify")
VerifyObject ==
  /\ tool.pc = "verify" /\ tool.objects # {}
  /\ tool' = [tool EXCEPT !.objects = @ \ {First}, !.failed = @ \/ blob[First] # "new"]
  /\ UNCHANGED <<ring, stage, faults, history, media, notion>>
EndVerify ==
  /\ tool.pc = "verify" /\ tool.objects = {}
  /\ stage' = IF tool.failed THEN "rotate" ELSE "drop"
  /\ tool' = IdleTool
  /\ UNCHANGED <<ring, faults, history, media, notion>>

ToolStep ==
  \/ StartRotation \/ ReadObject \/ WriteObject \/ SelectTokens \/ EndRotation
  \/ \E u \in Users : WriteToken(u)
  \/ StartVerify \/ VerifyObject \/ EndVerify

\* The API dies: with it what it was doing.
ApiStops ==
  /\ life' = [m \in Images |-> CASE life[m] \in {"full", "thumb"} -> "dead"
                                 [] life[m] \in Deleting -> "halved"
                                 [] OTHER -> life[m]]
  /\ req' = [q \in Requests |-> IdleReq]

\* A server is started with another ring; once all are, the operator goes on.
Deploy(s, from, r, next) ==
  /\ ring[s] = from
  /\ ring' = [ring EXCEPT ![s] = r]
  /\ stage' = IF \A t \in Servers : ring'[t] = r THEN next ELSE stage
  /\ IF s = "api" THEN ApiStops ELSE UNCHANGED <<life, req>>
  /\ UNCHANGED <<blob, conn, oauth, tool, faults, latest, history>>
DeployBoth(s) == stage = "deploy" /\ Deploy(s, "old", "both", "rotate")
DropOld(s) == stage = "drop" /\ Deploy(s, "both", "new", "drop")

\* Faults: the API or the tool dies, an object is damaged.
Fault == faults < MaxFaults /\ faults' = faults + 1
Die ==
  /\ Fault
  /\ \/ ApiStops /\ UNCHANGED <<blob, tool>>
     \/ tool.pc # "off" /\ tool' = IdleTool /\ UNCHANGED <<life, blob, req>>
     \/ /\ \E o \in Objects : blob[o] \in {"old", "new"} /\ blob' = [blob EXCEPT ![o] = "bad"]
        /\ UNCHANGED <<life, req, tool>>
  /\ UNCHANGED <<ring, stage, conn, oauth, latest, history>>

Next ==
  \/ \E m \in Images : Capture(m) \/ StartDelete(m) \/ Erase(m) \/ Forget(m)
  \/ \E s \in States : Expire(s) \/ \E u \in Users : Start(u, s)
  \/ \E u \in Users : Disconnect(u) \/ ClearMapping(u)
  \/ \E q \in Requests : \/ RequestStep(q)
                         \/ \E u \in Users : \/ ReadToken(q, u)
                                             \/ \E s \in States : Callback(q, u, s)
  \/ ToolStep
  \/ \E s \in Servers : DeployBoth(s) \/ DropOld(s)
  \/ Die

Spec == Init /\ [][Next]_vars

\* A request that runs goes on, and the operator follows the runbook once there.
FairSpec == /\ Spec
            /\ \A m \in Images : WF_vars(Erase(m) \/ Forget(m))
            /\ WF_vars(ToolStep)
-----------------------------------------------------------------------------
(* Properties *)

Readable(server, key) == key \in Keys(ring[server])

\* SAFETY: a server that was deployed with the new key can read whatever the
\* application refers to, every undamaged object of a row and the token of every
\* active connection, at every point of the rotation and after the old key is
\* dropped, whatever is stored, deleted and connected meanwhile.
NothingLocksOut ==
  \A server \in Servers : ring[server] # "old" =>
     /\ \A m \in HasRow : \A o \in ObjectsOf(m) :
          blob[o] \in {None, "bad"} \/ Readable(server, blob[o])
     /\ \A u \in Users : Active(u) => Readable(server, conn[u].key)

\* SAFETY: a state connects the account that minted it and no other, a connection
\* holds the token of its user's latest connect, or none after a disconnect, and
\* its property mapping was validated with its own token, unless the rotation wrote
\* an earlier token over it or another connection was made while a request was at
\* Notion.
TokensStayPut ==
  \A u \in Users :
     /\ conn[u].token # None => oauth[conn[u].token] = [user |-> u, status |-> "used"]
     /\ u \in mixed \/ /\ conn[u].token = latest[u]
                       /\ Active(u) => conn[u].mapping \in {None, conn[u].token}

\* SAFETY: a deletion that completed leaves no object behind, unless the rotation
\* had read the object before and put it back.
DeletedStaysDeleted ==
  \A m \in Images : life[m] = "gone" =>
     \A o \in ObjectsOf(m) : blob[o] = None \/ o \in revived

\* LIVENESS: the operator who rotates gets to drop the old key, unless an object is
\* damaged or a deletion died halfway, which media:verify reports for good.
RotationEnds ==
  stage = "rotate" ~> \/ stage = "drop"
                      \/ \E o \in Objects : blob[o] = "bad"
                      \/ \E m \in Images : life[m] = "halved"
=============================================================================
