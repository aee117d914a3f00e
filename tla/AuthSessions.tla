---------------------------- MODULE AuthSessions ----------------------------
(* The sessions of one account: sign-up, login, pairing, the revocations, the *)
(* three ways to set a password, the erasure of the account and the sweep of  *)
(* dead rows (services/api: routes-auth.ts, auth/*, db/reset-*.ts,            *)
(* routes-account.ts, ops/maintenance.ts).  A step is one SQL statement; what *)
(* a handler read before an await it uses after it.  Requests that are        *)
(* refused change nothing and are left out, and so are the rate limiter, the  *)
(* audit log, the default project and last_used_at.                           *)
(*                                                                            *)
(* Of a password only one thing is kept: whether what a session, a code or a  *)
(* request was granted on ("fresh") is still the password of the account.     *)

CONSTANTS
    Sessions,   \* rows the sessions table may get, in any order
    Codes,      \* pairing codes that may be minted
    Resets,     \* reset tokens that may be minted
    Reqs,       \* requests and operator scripts in flight at once
    None,
    Faults      \* a subset of {"abort"}

ASSUME ConstantsOK ==
    /\ None \notin Sessions \cup Codes
    /\ Faults \subseteq {"abort"}

VARIABLES
    user,    \* the users row: active, locked (deleted_at) or gone
    sess,    \* the sessions table
    code,    \* the pairing_codes table
    reset,   \* the password_resets table
    req,     \* what each request is doing
    cut,     \* history: a password was set and its revocations never ran
    erased   \* history: an erasure has started to destroy data

vars == <<user, sess, code, reset, req, cut, erased>>

\* What a request is doing: its route, the point it has reached, the session it
\* came with, whether what it was granted on is still the password, its code.
Doing(op, pc, own, fresh, ref) ==
    [op |-> op, pc |-> pc, own |-> own, fresh |-> fresh, ref |-> ref]

Idle == Doing("none", "idle", None, FALSE, None)

NoSession == [st |-> "none", kind |-> "web", fresh |-> FALSE, ref |-> None,
              late |-> FALSE]

\* A row that no longer works, because it was revoked or has expired; what it was
\* granted on is of no more interest.
Dead(row, st) == [row EXCEPT !.st = st, !.fresh = FALSE, !.late = FALSE]

NoCode == [st |-> "none", fresh |-> FALSE]

Init ==
    /\ user = "none"
    /\ sess = [s \in Sessions |-> NoSession]
    /\ code = [c \in Codes |-> NoCode]
    /\ reset = [t \in Resets |-> "none"]
    /\ req = [r \in Reqs |-> Idle]
    /\ cut = FALSE
    /\ erased = FALSE

RowExists == user \in {"active", "locked"}

\* A bearer token resolves: not revoked, not expired, its user not deleted.
Usable(s) == sess[s].st = "live" /\ user = "active"

Begin(r, what) == req[r].pc = "idle" /\ req' = [req EXCEPT ![r] = what]
Goto(r, pc) == req' = [req EXCEPT ![r].pc = pc]
End(r) == req' = [req EXCEPT ![r] = Idle]

-----------------------------------------------------------------------------
(* Sign-up, login and pairing: each ends with the INSERT of a session.        *)

Signup(r) ==
    /\ user = "none"
    /\ user' = "active"
    /\ Begin(r, Doing("signup", "insert", None, TRUE, None))
    /\ UNCHANGED <<sess, code, reset, cut, erased>>

\* The SELECT of a login whose password verifies; what it read is what it knows.
Login(r) ==
    /\ user = "active"
    /\ Begin(r, Doing("login", "insert", None, TRUE, None))
    /\ UNCHANGED <<user, sess, code, reset, cut, erased>>

\* One UPDATE ... RETURNING: a code that is open and unexpired is claimed.
Claimable_Again(c) == code[c].st \in {"open", "claimed"}
Claimable(c) == code[c].st = "open"

ClaimCode(r, c) ==
    /\ Claimable(c)
    /\ code' = [code EXCEPT ![c].st = "claimed"]
    /\ Begin(r, Doing("pair", "check", None, code[c].fresh, c))
    /\ UNCHANGED <<user, sess, reset, cut, erased>>

CheckUser(r) ==
    /\ req[r].pc = "check"
    /\ IF user = "active" THEN Goto(r, "insert") ELSE End(r)
    /\ UNCHANGED <<user, sess, code, reset, cut, erased>>

\* createSession. It asks nothing of the user but the foreign key. "late": what
\* the session was granted on is older than the password of this moment.
CreateSession(r, s) ==
    /\ req[r].pc = "insert" /\ req[r].op \in {"signup", "login", "pair"}
    /\ sess[s].st = "none"
    /\ sess' = IF RowExists
                 THEN [sess EXCEPT ![s] =
                         [st |-> "live",
                          kind |-> IF req[r].op = "pair" THEN "extension" ELSE "web",
                          fresh |-> req[r].fresh, ref |-> req[r].ref,
                          late |-> ~req[r].fresh]]
                 ELSE sess
    /\ End(r)
    /\ UNCHANGED <<user, code, reset, cut, erased>>

-----------------------------------------------------------------------------
(* What a signed-in client asks for.                                          *)

WebOps == {"mint", "change", "erase"}
AnyOps == {"logout", "revoke_one", "revoke_all"}

\* The onRequest hook, then the handler's check of the kind.
Resolve(r, s, op) ==
    /\ Usable(s)
    /\ op \in WebOps => sess[s].kind = "web"
    /\ Begin(r, Doing(op, "act", s, op = "mint" /\ sess[s].fresh, None))
    /\ UNCHANGED <<user, sess, code, reset, cut, erased>>

\* The sessions after UPDATE sessions SET revoked_at = now() over the rows of S
\* that are not revoked yet (for an expired one it makes no difference).
RevokedIn_WebOnly(S) ==
    [s \in Sessions |->
        IF s \in S /\ sess[s].st = "live" /\ sess[s].kind = "web"
          THEN Dead(sess[s], "dead")
          ELSE sess[s]]

RevokedIn(S) ==
    [s \in Sessions |->
        IF s \in S /\ sess[s].st = "live"
          THEN Dead(sess[s], "dead")
          ELSE sess[s]]

RevokeOne(r, s) ==
    /\ req[r].pc = "act"
    /\ \/ req[r].op = "logout" /\ s = req[r].own
       \/ req[r].op = "revoke_one" /\ sess[s].st # "none"
    /\ sess' = RevokedIn({s})
    /\ End(r)
    /\ UNCHANGED <<user, code, reset, cut, erased>>

RevokeAll(r) ==
    /\ req[r].pc = "act" /\ req[r].op = "revoke_all"
    /\ sess' = RevokedIn(Sessions \ {req[r].own})
    /\ End(r)
    /\ UNCHANGED <<user, code, reset, cut, erased>>

Mint(r, c) ==
    /\ req[r].pc = "act" /\ req[r].op = "mint"
    /\ code[c].st = "none"
    /\ code' = IF RowExists
                 THEN [code EXCEPT ![c] = [st |-> "open", fresh |-> req[r].fresh]]
                 ELSE code
    /\ End(r)
    /\ UNCHANGED <<user, sess, reset, cut, erased>>

-----------------------------------------------------------------------------
(* The three ways to set a password: change, reset with a token, operator.    *)

\* SELECT and verify: a change goes on only with the password it read.
VerifyChange(r) ==
    /\ req[r].pc = "act" /\ req[r].op = "change"
    /\ IF user = "active" THEN Goto(r, "update") ELSE End(r)
    /\ UNCHANGED <<user, sess, code, reset, cut, erased>>

\* The request leg, and the operator's script that does the same.
RequestReset(r) ==
    /\ user = "active"
    /\ Begin(r, Doing("request", "insert", None, FALSE, None))
    /\ UNCHANGED <<user, sess, code, reset, cut, erased>>

MintReset(r, t) ==
    /\ req[r].pc = "insert" /\ req[r].op = "request"
    /\ reset[t] = "none"
    /\ reset' = IF RowExists THEN [reset EXCEPT ![t] = "open"] ELSE reset
    /\ End(r)
    /\ UNCHANGED <<user, sess, code, cut, erased>>

\* One UPDATE ... RETURNING, as for a code.
ClaimReset(r, t) ==
    /\ reset[t] = "open"
    /\ reset' = [reset EXCEPT ![t] = "spent"]
    /\ Begin(r, Doing("confirm", "update", None, FALSE, None))
    /\ UNCHANGED <<user, sess, code, cut, erased>>

\* UPDATE users SET password_hash WHERE id, with no other condition: whatever
\* was granted before is outdated, and so is what requests hold. A client that
\* sets the password from a session knows it there.
Outdated(f) == [x \in DOMAIN f |-> [f[x] EXCEPT !.fresh = FALSE]]

Knows(row) == IF row.st = "live" THEN [row EXCEPT !.fresh = TRUE, !.late = FALSE] ELSE row

NewPassword(own) ==
    IF RowExists
      THEN /\ sess' = [s \in Sessions |-> IF s = own THEN Knows(sess[s])
                                          ELSE [sess[s] EXCEPT !.fresh = FALSE]]
           /\ code' = Outdated(code)
      ELSE UNCHANGED <<sess, code>>

SetPassword(r) ==
    /\ req[r].pc = "update"
    /\ NewPassword(req[r].own)
    /\ req' = [(IF RowExists THEN Outdated(req) ELSE req) EXCEPT ![r].pc = "revoke"]
    /\ UNCHANGED <<user, reset, cut, erased>>

OperatorReset(r) ==
    /\ user = "active"
    /\ req[r].pc = "idle"
    /\ NewPassword(None)
    /\ req' = [Outdated(req) EXCEPT ![r] = Doing("operator", "revoke", None, FALSE, None)]
    /\ UNCHANGED <<user, reset, cut, erased>>

\* The change spares its own session; a reset has none.
RevokeOthers(r) ==
    /\ req[r].pc = "revoke" /\ req[r].op # "erase"
    /\ sess' = RevokedIn(Sessions \ {req[r].own})
    /\ End(r)
    /\ UNCHANGED <<user, code, reset, cut, erased>>

-----------------------------------------------------------------------------
(* Erasing the account.  What happens to its images is MediaLifecycle's.      *)

\* Unlike the change, this SELECT takes a locked account too.
VerifyErase(r) ==
    /\ req[r].pc = "act" /\ req[r].op = "erase"
    /\ IF RowExists THEN Goto(r, "lock") ELSE End(r)
    /\ UNCHANGED <<user, sess, code, reset, cut, erased>>

Locked_Not == user
Locked == IF RowExists THEN "locked" ELSE user

Lock(r) ==
    /\ req[r].pc = "lock"
    /\ user' = Locked
    /\ Goto(r, "revoke")
    /\ UNCHANGED <<sess, code, reset, cut, erased>>

EraseRevoke(r) ==
    /\ req[r].pc = "revoke" /\ req[r].op = "erase"
    /\ sess' = RevokedIn(Sessions)
    /\ Goto(r, "cascade")
    /\ erased' = TRUE
    /\ UNCHANGED <<user, code, reset, cut>>

\* DELETE FROM users takes every row that refers to it.
Cascade(r) ==
    /\ req[r].pc = "cascade"
    /\ user' = "gone"
    /\ sess' = [s \in Sessions |-> IF sess[s].st = "none" THEN sess[s]
                                   ELSE Dead(sess[s], "gone")]
    /\ code' = [c \in Codes |-> IF code[c].st = "none" THEN code[c]
                                ELSE [code[c] EXCEPT !.st = "gone"]]
    /\ reset' = [t \in Resets |-> IF reset[t] = "none" THEN "none" ELSE "gone"]
    /\ End(r)
    /\ UNCHANGED <<cut, erased>>

-----------------------------------------------------------------------------
(* Time, maintenance and failure.                                             *)

Expire ==
    /\ \/ \E s \in Sessions : /\ sess[s].st = "live"
                              /\ sess' = [sess EXCEPT ![s] = Dead(@, "dead")]
                              /\ UNCHANGED <<code, reset>>
       \/ \E c \in Codes : /\ code[c].st = "open"
                           /\ code' = [code EXCEPT ![c].st = "expired"]
                           /\ UNCHANGED <<sess, reset>>
       \/ \E t \in Resets : /\ reset[t] = "open"
                            /\ reset' = [reset EXCEPT ![t] = "spent"]
                            /\ UNCHANGED <<sess, code>>
    /\ UNCHANGED <<user, req, cut, erased>>

\* The sections of a maintenance run, one DELETE each, isolated from one another.
\* stale_sessions takes those dead rows that are past the retention window.
Sweepable(s) == sess[s].st = "dead"

SweepSessions ==
    /\ \E old \in SUBSET {s \in Sessions : Sweepable(s)} :
           sess' = [s \in Sessions |-> IF s \in old THEN Dead(sess[s], "gone") ELSE sess[s]]
    /\ UNCHANGED <<user, code, reset, req, cut, erased>>

SweepCodes ==
    /\ code' = [c \in Codes |-> IF code[c].st \in {"expired", "claimed"}
                                  THEN [code[c] EXCEPT !.st = "gone"] ELSE code[c]]
    /\ UNCHANGED <<user, sess, reset, req, cut, erased>>

SweepResets ==
    /\ reset' = [t \in Resets |-> IF reset[t] = "spent" THEN "gone" ELSE reset[t]]
    /\ UNCHANGED <<user, sess, code, req, cut, erased>>

\* A statement throws or the process dies: nothing undoes what was written.
Abort(r) ==
    /\ "abort" \in Faults
    /\ req[r].pc # "idle"
    /\ cut' = (cut \/ (req[r].pc = "revoke" /\ req[r].op # "erase"))
    /\ End(r)
    /\ UNCHANGED <<user, sess, code, reset, erased>>

-----------------------------------------------------------------------------
Serve(r) ==
    \/ Signup(r) \/ Login(r) \/ CheckUser(r)
    \/ \E c \in Codes : ClaimCode(r, c) \/ Mint(r, c)
    \/ \E s \in Sessions : CreateSession(r, s) \/ RevokeOne(r, s)
    \/ \E s \in Sessions, op \in WebOps \cup AnyOps : Resolve(r, s, op)
    \/ RevokeAll(r) \/ VerifyChange(r) \/ RequestReset(r)
    \/ \E t \in Resets : MintReset(r, t) \/ ClaimReset(r, t)
    \/ SetPassword(r) \/ OperatorReset(r) \/ RevokeOthers(r)
    \/ VerifyErase(r) \/ Lock(r) \/ EraseRevoke(r) \/ Cascade(r)
    \/ Abort(r)

Next ==
    \/ \E r \in Reqs : Serve(r)
    \/ Expire \/ SweepSessions \/ SweepCodes \/ SweepResets

Spec == Init /\ [][Next]_vars

-----------------------------------------------------------------------------
(* Properties                                                                 *)

SessionRow == [st : {"none", "live", "dead", "gone"}, kind : {"web", "extension"},
               fresh : BOOLEAN, ref : Codes \cup {None}, late : BOOLEAN]

CodeRow == [st : {"none", "open", "claimed", "expired", "gone"}, fresh : BOOLEAN]

OtherOps == {"none", "signup", "login", "pair", "request", "confirm", "operator"}

Request == [op : OtherOps \cup WebOps \cup AnyOps,
            pc : {"idle", "act", "check", "insert", "update", "lock", "revoke", "cascade"},
            own : Sessions \cup {None}, fresh : BOOLEAN, ref : Codes \cup {None}]

\* TYPE: the tables and the handlers' locals have their types; a handler that
\* acts for a client knows its session (requireAuth), an extension's session is
\* one that came from a code, and nothing is noted of a row that no longer works.
TypeOK ==
    /\ user \in {"none", "active", "locked", "gone"}
    /\ sess \in [Sessions -> SessionRow]
    /\ \A s \in Sessions : /\ sess[s].kind = "extension" <=> sess[s].ref # None
                           /\ sess[s].st # "live" => ~sess[s].fresh /\ ~sess[s].late
    /\ code \in [Codes -> CodeRow]
    /\ reset \in [Resets -> {"none", "open", "spent", "gone"}]
    /\ req \in [Reqs -> Request]
    /\ \A r \in Reqs : /\ req[r].op \in WebOps \cup AnyOps <=> req[r].own # None
                       /\ req[r].op = "pair" <=> req[r].ref # None
    /\ cut \in BOOLEAN /\ erased \in BOOLEAN

\* SAFETY: once a password change or reset has run to its end, every session that
\* still works was granted on the current password, or set it - whatever other
\* changes, resets, logins and pairings ran meanwhile. A session is excepted if
\* what it was granted on was already outdated when its row was inserted (a login
\* verified, or a code minted, before the change), and all are once a change was
\* cut off between its two UPDATEs (routes-auth.ts:271-280, 350-356).
OldSessionsEnd ==
    \A s \in Sessions :
        Usable(s) /\ ~sess[s].fresh /\ ~sess[s].late
            => cut \/ \E r \in Reqs : req[r].pc = "revoke" /\ req[r].op # "erase"

\* SAFETY: a pairing code yields one session at most, whatever claims race with
\* each other, with the sweep and with the expiry of the code (sessions.ts:114).
CodePairsOnce ==
    \A s, t \in Sessions : sess[s].ref = sess[t].ref /\ sess[s].ref # None => s = t

\* SAFETY: once an erasure has started to destroy data nobody can use the account,
\* not through a login that verified before and was inserted after, and not if the
\* erasure dies half-way (routes-account.ts:289-293).
ErasureShutsOut == erased => \A s \in Sessions : ~Usable(s)
=============================================================================
