-------------------------- MODULE AuthSessionsProofs --------------------------
(* Theorems about AuthSessions, for any number of sessions, codes, reset      *)
(* tokens and requests, and any number of password changes.                   *)
EXTENDS AuthSessions, TLAPS

-----------------------------------------------------------------------------
(* Rows and requests, one fact each.                                          *)

LEMMA IdleFacts ==
  /\ Idle \in Request /\ Idle.op = "none" /\ Idle.pc = "idle"
  /\ Idle.own = None /\ Idle.ref = None
  BY DEF Idle, Doing, Request, OtherOps

LEMMA NoSessionFacts ==
  /\ NoSession \in SessionRow /\ NoSession.kind = "web" /\ NoSession.st = "none"
  /\ NoSession.ref = None /\ NoSession.fresh = FALSE /\ NoSession.late = FALSE
  BY DEF NoSession, SessionRow

LEMMA DeadFacts ==
  ASSUME NEW row \in SessionRow, NEW st \in {"dead", "gone"}
  PROVE  /\ Dead(row, st) \in SessionRow
         /\ Dead(row, st).st = st /\ Dead(row, st).kind = row.kind
         /\ Dead(row, st).ref = row.ref
         /\ Dead(row, st).fresh = FALSE /\ Dead(row, st).late = FALSE
  BY DEF Dead, SessionRow

LEMMA KnowsFacts ==
  ASSUME NEW row \in SessionRow
  PROVE  /\ Knows(row) \in SessionRow /\ Knows(row).st = row.st
         /\ Knows(row).kind = row.kind /\ Knows(row).ref = row.ref
         /\ row.st = "live" => Knows(row).fresh = TRUE /\ Knows(row).late = FALSE
         /\ row.st # "live" => Knows(row) = row
  BY DEF Knows, SessionRow

-----------------------------------------------------------------------------
(* What the parts of a step leave behind.                                     *)

\* The two halves of TypeOK that most steps touch.
SessOK ==
  /\ sess \in [Sessions -> SessionRow]
  /\ \A s \in Sessions : /\ sess[s].kind = "extension" <=> sess[s].ref # None
                         /\ sess[s].st # "live" => ~sess[s].fresh /\ ~sess[s].late

ReqOK ==
  /\ req \in [Reqs -> Request]
  /\ \A r \in Reqs : /\ req[r].op \in WebOps \cup AnyOps <=> req[r].own # None
                     /\ req[r].op = "pair" <=> req[r].ref # None

LEMMA RevokedFacts ==
  ASSUME SessOK, NEW S
  PROVE  /\ RevokedIn(S) \in [Sessions -> SessionRow]
         /\ \A s \in Sessions :
              /\ RevokedIn(S)[s].kind = sess[s].kind /\ RevokedIn(S)[s].ref = sess[s].ref
              /\ s \in S => RevokedIn(S)[s].st # "live"
              /\ \/ RevokedIn(S)[s] = sess[s]
                 \/ /\ sess[s].st = "live" /\ RevokedIn(S)[s].st = "dead"
                    /\ ~RevokedIn(S)[s].fresh /\ ~RevokedIn(S)[s].late
  <1>1. \A s \in Sessions : sess[s] \in SessionRow
    BY DEF SessOK
  <1>2. \A s \in Sessions : RevokedIn(S)[s] =
          IF s \in S /\ sess[s].st = "live" THEN Dead(sess[s], "dead") ELSE sess[s]
    BY DEF RevokedIn
  <1> QED
    BY <1>1, <1>2, DeadFacts DEF RevokedIn

LEMMA RevokedOK ==
  ASSUME SessOK, NEW S, sess' = RevokedIn(S)
  PROVE  SessOK'
  BY RevokedFacts DEF SessOK

\* Whatever makes rows die, at once or one by one, leaves well-formed rows.
LEMMA DyingOK ==
  ASSUME SessOK, NEW S \in SUBSET Sessions, NEW st \in {"dead", "gone"},
         sess' = [s \in Sessions |-> IF s \in S THEN Dead(sess[s], st) ELSE sess[s]]
  PROVE  SessOK'
  <1>1. \A s \in Sessions :
          /\ sess'[s] \in SessionRow
          /\ sess'[s].kind = sess[s].kind /\ sess'[s].ref = sess[s].ref
          /\ sess'[s] = sess[s] \/ (~sess'[s].fresh /\ ~sess'[s].late)
    <2> TAKE s \in Sessions
    <2>1. sess[s] \in SessionRow
      BY DEF SessOK
    <2> QED
      BY <2>1, DeadFacts
  <1> QED
    BY <1>1 DEF SessOK

LEMMA EndOK ==
  ASSUME ReqOK, NEW r \in Reqs, End(r)
  PROVE  ReqOK'
  BY IdleFacts DEF ReqOK, End, WebOps, AnyOps

LEMMA GotoOK ==
  ASSUME ReqOK, NEW r \in Reqs, NEW pc \in {"insert", "update", "lock", "revoke", "cascade"},
         Goto(r, pc)
  PROVE  ReqOK'
  <1> DEFINE q == [req[r] EXCEPT !.pc = pc]
  <1>1. q \in Request /\ q.op = req[r].op /\ q.own = req[r].own /\ q.ref = req[r].ref
    BY DEF ReqOK, Request
  <1>2. req' = [req EXCEPT ![r] = q]
    BY DEF Goto
  <1> HIDE DEF q
  <1> QED
    BY <1>1, <1>2 DEF ReqOK

\* Setting a password changes what is fresh, and nothing else that is typed.
LEMMA OutdatedFacts ==
  ASSUME ReqOK
  PROVE  /\ Outdated(req) \in [Reqs -> Request]
         /\ \A r \in Reqs : /\ Outdated(req)[r].op = req[r].op
                            /\ Outdated(req)[r].pc = req[r].pc
                            /\ Outdated(req)[r].own = req[r].own
                            /\ Outdated(req)[r].ref = req[r].ref
  <1>1. DOMAIN req = Reqs
    BY DEF ReqOK
  <1>2. ASSUME NEW r \in Reqs
        PROVE  /\ [req[r] EXCEPT !.fresh = FALSE] \in Request
               /\ [req[r] EXCEPT !.fresh = FALSE].op = req[r].op
               /\ [req[r] EXCEPT !.fresh = FALSE].pc = req[r].pc
               /\ [req[r] EXCEPT !.fresh = FALSE].own = req[r].own
               /\ [req[r] EXCEPT !.fresh = FALSE].ref = req[r].ref
    <2>1. req[r] \in Request
      BY DEF ReqOK
    <2> QED
      BY <2>1 DEF Request
  <1> QED
    BY <1>1, <1>2 DEF Outdated

LEMMA OutdatedCodes ==
  ASSUME code \in [Codes -> CodeRow]
  PROVE  /\ Outdated(code) \in [Codes -> CodeRow]
         /\ \A c \in Codes : Outdated(code)[c].st = code[c].st
  BY DEF Outdated, CodeRow

LEMMA NewPasswordFacts ==
  ASSUME SessOK, code \in [Codes -> CodeRow], NEW own, NewPassword(own)
  PROVE  /\ SessOK' /\ code' \in [Codes -> CodeRow]
         /\ \A c \in Codes : code'[c].st = code[c].st
         /\ \A s \in Sessions :
              /\ sess'[s].st = sess[s].st /\ sess'[s].ref = sess[s].ref
              /\ s = own /\ sess[s].st = "live" /\ RowExists => sess'[s].fresh
  <1>1. \A s \in Sessions : sess[s] \in SessionRow
    BY DEF SessOK
  <1>2. CASE RowExists
    <2> DEFINE out(s) == [sess[s] EXCEPT !.fresh = FALSE]
    <2>1. \A s \in Sessions : /\ out(s) \in SessionRow /\ out(s).fresh = FALSE
                              /\ out(s).st = sess[s].st /\ out(s).kind = sess[s].kind
                              /\ out(s).ref = sess[s].ref /\ out(s).late = sess[s].late
      BY <1>1 DEF SessionRow
    <2>2. sess' = [s \in Sessions |-> IF s = own THEN Knows(sess[s]) ELSE out(s)]
      BY <1>2 DEF NewPassword
    <2>3. code' = Outdated(code)
      BY <1>2 DEF NewPassword
    <2> HIDE DEF out
    <2>4. \A s \in Sessions :
            /\ sess'[s] \in SessionRow
            /\ sess'[s].st = sess[s].st /\ sess'[s].kind = sess[s].kind
            /\ sess'[s].ref = sess[s].ref
            /\ s = own /\ sess[s].st = "live" => sess'[s].fresh
            /\ sess[s].st # "live" => ~sess'[s].fresh /\ ~sess'[s].late
      BY <1>1, <2>1, <2>2, KnowsFacts DEF SessOK
    <2> QED
      BY <1>2, <2>2, <2>3, <2>4, OutdatedCodes DEF SessOK
  <1>3. CASE ~RowExists
    BY <1>3 DEF NewPassword, SessOK
  <1> QED
    BY <1>2, <1>3

-----------------------------------------------------------------------------
(* Type correctness.                                                          *)

Tables ==
  /\ user \in {"none", "active", "locked", "gone"}
  /\ code \in [Codes -> CodeRow]
  /\ reset \in [Resets -> {"none", "open", "spent", "gone"}]
  /\ cut \in BOOLEAN /\ erased \in BOOLEAN

LEMMA TypeParts == TypeOK <=> Tables /\ SessOK /\ ReqOK
  BY DEF TypeOK, Tables, SessOK, ReqOK

LEMMA DoingFacts ==
  ASSUME NEW op \in OtherOps \cup WebOps \cup AnyOps,
         NEW pc \in {"act", "check", "insert", "update", "revoke"},
         NEW own \in Sessions \cup {None}, NEW fresh \in BOOLEAN,
         NEW ref \in Codes \cup {None}
  PROVE  /\ Doing(op, pc, own, fresh, ref) \in Request
         /\ Doing(op, pc, own, fresh, ref).op = op
         /\ Doing(op, pc, own, fresh, ref).pc = pc
         /\ Doing(op, pc, own, fresh, ref).own = own
         /\ Doing(op, pc, own, fresh, ref).fresh = fresh
         /\ Doing(op, pc, own, fresh, ref).ref = ref
  BY DEF Doing, Request

LEMMA StepTypeOK == TypeOK /\ [Next]_vars => TypeOK'
  <1> SUFFICES ASSUME Tables, SessOK, ReqOK, [Next]_vars PROVE Tables' /\ SessOK' /\ ReqOK'
    BY DEF TypeOK, Tables, SessOK, ReqOK
  <1> USE ConstantsOK
  <1>1. ASSUME NEW r \in Reqs, Signup(r) \/ Login(r) \/ RequestReset(r)
        PROVE  Tables' /\ SessOK' /\ ReqOK'
    <2>1. ASSUME Signup(r) PROVE ReqOK'
      BY <2>1 DEF Signup, Begin, Doing, ReqOK, Request, OtherOps, WebOps, AnyOps
    <2>2. ASSUME Login(r) PROVE ReqOK'
      BY <2>2 DEF Login, Begin, Doing, ReqOK, Request, OtherOps, WebOps, AnyOps
    <2>3. ASSUME RequestReset(r) PROVE ReqOK'
      BY <2>3 DEF RequestReset, Begin, Doing, ReqOK, Request, OtherOps, WebOps, AnyOps
    <2> QED
      BY <1>1, <2>1, <2>2, <2>3 DEF Signup, Login, RequestReset, Tables, SessOK
  <1>2. ASSUME NEW r \in Reqs, CheckUser(r) \/ VerifyChange(r) \/ VerifyErase(r)
        PROVE  Tables' /\ SessOK' /\ ReqOK'
    <2>1. ReqOK'
      BY <1>2, EndOK, GotoOK DEF CheckUser, VerifyChange, VerifyErase
    <2> QED
      BY <1>2, <2>1 DEF CheckUser, VerifyChange, VerifyErase, Tables, SessOK
  <1>3. ASSUME NEW r \in Reqs, NEW c \in Codes, ClaimCode(r, c)
        PROVE  Tables' /\ SessOK' /\ ReqOK'
    <2>1. code[c].fresh \in BOOLEAN /\ code' \in [Codes -> CodeRow]
      BY <1>3 DEF ClaimCode, Tables, CodeRow
    <2>2. ReqOK'
      BY <1>3, <2>1 DEF ClaimCode,
         Begin, Doing, ReqOK, Request, OtherOps, WebOps, AnyOps
    <2> QED
      BY <1>3, <2>1, <2>2 DEF ClaimCode, Tables, SessOK
  <1>4. ASSUME NEW r \in Reqs, NEW c \in Codes, Mint(r, c)
        PROVE  Tables' /\ SessOK' /\ ReqOK'
    <2>1. req[r].fresh \in BOOLEAN
      BY DEF ReqOK, Request
    <2>2. code' \in [Codes -> CodeRow]
      BY <1>4, <2>1 DEF Mint, Tables, CodeRow
    <2>3. ReqOK'
      BY <1>4, EndOK DEF Mint
    <2> QED
      BY <1>4, <2>2, <2>3 DEF Mint, Tables, SessOK
  <1>5. ASSUME NEW r \in Reqs, NEW s \in Sessions, CreateSession(r, s)
        PROVE  Tables' /\ SessOK' /\ ReqOK'
    <2>1. req[r] \in Request
      BY DEF ReqOK
    <2>2. SessOK'
      BY <1>5, <2>1 DEF CreateSession, SessOK, SessionRow, ReqOK, Request
    <2>3. ReqOK'
      BY <1>5, EndOK DEF CreateSession
    <2> QED
      BY <1>5, <2>2, <2>3 DEF CreateSession, Tables
  <1>6. ASSUME NEW r \in Reqs, NEW s \in Sessions, RevokeOne(r, s)
        PROVE  Tables' /\ SessOK' /\ ReqOK'
    BY <1>6, RevokedOK, EndOK DEF RevokeOne, Tables
  <1>7. ASSUME NEW r \in Reqs, NEW s \in Sessions, NEW op \in WebOps \cup AnyOps,
               Resolve(r, s, op)
        PROVE  Tables' /\ SessOK' /\ ReqOK'
    <2>1. (op = "mint" /\ sess[s].fresh) \in BOOLEAN
      OBVIOUS
    <2>2. s # None /\ op # "pair"
      BY DEF WebOps, AnyOps
    <2>3. ReqOK'
      BY <1>7, <2>1, <2>2 DEF Resolve,
         Begin, Doing, ReqOK, Request, OtherOps, WebOps, AnyOps
    <2> QED
      BY <1>7, <2>3 DEF Resolve, Tables, SessOK
  <1>8. ASSUME NEW r \in Reqs, RevokeAll(r) \/ RevokeOthers(r)
        PROVE  Tables' /\ SessOK' /\ ReqOK'
    BY <1>8, RevokedOK, EndOK DEF RevokeAll, RevokeOthers, Tables
  <1>9. ASSUME NEW r \in Reqs, NEW t \in Resets, MintReset(r, t)
        PROVE  Tables' /\ SessOK' /\ ReqOK'
    BY <1>9, EndOK DEF MintReset, Tables, SessOK
  <1>10. ASSUME NEW r \in Reqs, NEW t \in Resets, ClaimReset(r, t)
        PROVE  Tables' /\ SessOK' /\ ReqOK'
    <2>1. ReqOK'
      BY <1>10 DEF ClaimReset,
         Begin, Doing, ReqOK, Request, OtherOps, WebOps, AnyOps
    <2> QED
      BY <1>10, <2>1 DEF ClaimReset, Tables, SessOK
  <1>11. ASSUME NEW r \in Reqs, SetPassword(r)
        PROVE  Tables' /\ SessOK' /\ ReqOK'
    <2>1. SessOK' /\ code' \in [Codes -> CodeRow]
      BY <1>11, NewPasswordFacts DEF SetPassword, Tables
    <2> DEFINE f == IF RowExists THEN Outdated(req) ELSE req
    <2>2. /\ f \in [Reqs -> Request]
          /\ \A q \in Reqs : f[q].op = req[q].op /\ f[q].own = req[q].own /\ f[q].ref = req[q].ref
      BY OutdatedFacts DEF ReqOK
    <2>3. req' = [f EXCEPT ![r].pc = "revoke"]
      BY <1>11 DEF SetPassword
    <2> HIDE DEF f
    <2>4. ReqOK'
      BY <2>2, <2>3 DEF ReqOK, Request
    <2> QED
      BY <1>11, <2>1, <2>4 DEF SetPassword, Tables
  <1>12. ASSUME NEW r \in Reqs, OperatorReset(r)
        PROVE  Tables' /\ SessOK' /\ ReqOK'
    <2>1. SessOK' /\ code' \in [Codes -> CodeRow]
      BY <1>12, NewPasswordFacts DEF OperatorReset, Tables
    <2> DEFINE f == Outdated(req)
    <2>2. /\ f \in [Reqs -> Request]
          /\ \A q \in Reqs : f[q].op = req[q].op /\ f[q].own = req[q].own /\ f[q].ref = req[q].ref
      BY OutdatedFacts
    <2>3. req' = [f EXCEPT ![r] = Doing("operator", "revoke", None, FALSE, None)]
      BY <1>12 DEF OperatorReset
    <2> HIDE DEF f
    <2>4. ReqOK'
      BY <2>2, <2>3 DEF ReqOK, Doing, Request, OtherOps, WebOps, AnyOps
    <2> QED
      BY <1>12, <2>1, <2>4 DEF OperatorReset, Tables
  <1>13. ASSUME NEW r \in Reqs, Lock(r)
        PROVE  Tables' /\ SessOK' /\ ReqOK'
    BY <1>13, GotoOK DEF Lock, Locked, Tables, SessOK
  <1>14. ASSUME NEW r \in Reqs, EraseRevoke(r)
        PROVE  Tables' /\ SessOK' /\ ReqOK'
    BY <1>14, GotoOK, RevokedOK DEF EraseRevoke, Tables
  <1>15. ASSUME NEW r \in Reqs, Cascade(r)
        PROVE  Tables' /\ SessOK' /\ ReqOK'
    <2> DEFINE S == {s \in Sessions : sess[s].st # "none"}
    <2>1. SessOK'
      <3>1. sess' = [s \in Sessions |-> IF s \in S THEN Dead(sess[s], "gone") ELSE sess[s]]
        BY <1>15 DEF Cascade
      <3> QED
        BY <3>1, DyingOK
    <2>2. code' \in [Codes -> CodeRow]
      BY <1>15 DEF Cascade, Tables, CodeRow
    <2> QED
      BY <1>15, <2>1, <2>2, EndOK DEF Cascade, Tables
  <1>16. ASSUME NEW r \in Reqs, Abort(r)
        PROVE  Tables' /\ SessOK' /\ ReqOK'
    BY <1>16, EndOK DEF Abort, Tables, SessOK
  <1>17. ASSUME Expire PROVE Tables' /\ SessOK' /\ ReqOK'
    <2>1. SessOK'
      <3>1. CASE UNCHANGED sess
        BY <3>1 DEF SessOK
      <3>2. ASSUME NEW s \in Sessions, sess' = [sess EXCEPT ![s] = Dead(@, "dead")]
            PROVE  SessOK'
        <4>1. sess' = [x \in Sessions |-> IF x \in {s} THEN Dead(sess[x], "dead") ELSE sess[x]]
          BY <3>2 DEF SessOK
        <4> QED
          BY <4>1, DyingOK
      <3> QED
        BY <1>17, <3>1, <3>2 DEF Expire
    <2>2. code' \in [Codes -> CodeRow]
      BY <1>17 DEF Expire, Tables, CodeRow
    <2> QED
      BY <1>17, <2>1, <2>2 DEF Expire, Tables, ReqOK
  <1>18. ASSUME SweepSessions PROVE Tables' /\ SessOK' /\ ReqOK'
    <2>1. SessOK'
      BY <1>18, DyingOK DEF SweepSessions
    <2> QED
      BY <1>18, <2>1 DEF SweepSessions, Tables, ReqOK
  <1>19. ASSUME SweepCodes \/ SweepResets PROVE Tables' /\ SessOK' /\ ReqOK'
    <2>1. code' \in [Codes -> CodeRow]
      BY <1>19 DEF SweepCodes, SweepResets, Tables, CodeRow
    <2> QED
      BY <1>19, <2>1 DEF SweepCodes, SweepResets, Tables, SessOK, ReqOK
  <1>20. CASE UNCHANGED vars
    BY <1>20 DEF vars, Tables, SessOK, ReqOK
  <1> QED
    BY <1>1, <1>2, <1>3, <1>4, <1>5, <1>6, <1>7, <1>8, <1>9, <1>10, <1>11, <1>12, <1>13,
       <1>14, <1>15, <1>16, <1>17, <1>18, <1>19, <1>20 DEF Next, Serve

LEMMA InitTypeOK == Init => TypeOK
  <1> SUFFICES ASSUME Init PROVE Tables /\ SessOK /\ ReqOK
    BY TypeParts
  <1>1. Tables
    BY DEF Init, Tables, NoCode, CodeRow
  <1>2. SessOK
    BY NoSessionFacts DEF Init, SessOK
  <1>3. ReqOK
    BY IdleFacts DEF Init, ReqOK, WebOps, AnyOps
  <1> QED
    BY <1>1, <1>2, <1>3

\* All tables and handler locals keep their types, for any instance.
THEOREM TypesHold == Spec => []TypeOK
  BY InitTypeOK, StepTypeOK, PTL DEF Spec

-----------------------------------------------------------------------------
(* The erasure shuts everybody out.                                           *)

\* An erasure is nothing else on its way, starts from an account that exists,
\* and has locked it before it revokes.
ErasePath ==
  /\ erased => user \in {"locked", "gone"}
  /\ \A r \in Reqs : req[r].op = "erase" =>
       /\ req[r].pc \in {"act", "lock", "revoke", "cascade"}
       /\ req[r].pc = "lock" => user # "none"
       /\ req[r].pc \in {"revoke", "cascade"} => user \in {"locked", "gone"}

\* Steps that do not unlock, and move no erasure forward.
LEMMA ErasePathKept ==
  ASSUME ErasePath, erased' = erased,
         user' = user \/ user' \in {"locked", "gone"} \/ (user = "none" /\ user' = "active"),
         \A q \in Reqs : req'[q].op = "erase" =>
           \/ req'[q].pc = "act"
           \/ req[q].op = "erase" /\ req'[q].pc = req[q].pc
  PROVE  ErasePath'
  BY DEF ErasePath

LEMMA StepErasePath == TypeOK /\ ErasePath /\ [Next]_vars => ErasePath'
  <1> SUFFICES ASSUME Tables, SessOK, ReqOK, ErasePath, [Next]_vars PROVE ErasePath'
    BY TypeParts
  <1>1. ASSUME NEW r \in Reqs,
               \/ Signup(r) \/ Login(r) \/ RequestReset(r)
               \/ \E c \in Codes : ClaimCode(r, c)
               \/ \E t \in Resets : ClaimReset(r, t)
               \/ \E s \in Sessions, op \in WebOps \cup AnyOps : Resolve(r, s, op)
        PROVE  ErasePath'
    <2>1. \A q \in Reqs : q # r => req'[q] = req[q]
      BY <1>1 DEF Signup, Login, RequestReset, ClaimCode, ClaimReset, Resolve, Begin, ReqOK
    <2>2. req'[r].op = "erase" => req'[r].pc = "act"
      BY <1>1 DEF Signup, Login, RequestReset, ClaimCode, ClaimReset, Resolve, Begin, ReqOK,
                  Doing
    <2>3. erased' = erased /\ (user' = user \/ (user = "none" /\ user' = "active"))
      BY <1>1 DEF Signup, Login, RequestReset, ClaimCode, ClaimReset, Resolve
    <2> QED
      BY <2>1, <2>2, <2>3, ErasePathKept
  <1>2. ASSUME NEW r \in Reqs, End(r), UNCHANGED erased,
               user' = user \/ user' \in {"locked", "gone"}
        PROVE  ErasePath'
    <2>1. \A q \in Reqs : req'[q] = IF q = r THEN Idle ELSE req[q]
      BY <1>2 DEF End, ReqOK
    <2> QED
      BY <1>2, <2>1, IdleFacts, ErasePathKept
  <1>3. ASSUME NEW r \in Reqs, NEW pc, Goto(r, pc)
        PROVE  \A q \in Reqs : /\ req'[q].op = req[q].op
                               /\ req'[q].pc = IF q = r THEN pc ELSE req[q].pc
    BY <1>3 DEF Goto, ReqOK, Request
  <1>4. ASSUME NEW r \in Reqs, CheckUser(r) \/ VerifyChange(r) PROVE ErasePath'
    <2>1. UNCHANGED <<user, erased>> /\ req[r].op # "erase"
          /\ (End(r) \/ \E pc : Goto(r, pc))
      BY <1>4 DEF CheckUser, VerifyChange, ErasePath
    <2> QED
      BY <1>2, <1>3, <2>1, ErasePathKept
  <1>5. ASSUME NEW r \in Reqs, VerifyErase(r) PROVE ErasePath'
    <2>1. CASE RowExists
      BY <1>3, <1>5, <2>1 DEF VerifyErase, RowExists, ErasePath
    <2>2. CASE ~RowExists
      BY <1>2, <1>5, <2>2 DEF VerifyErase
    <2> QED
      BY <2>1, <2>2
  <1>6. ASSUME NEW r \in Reqs, Lock(r) PROVE ErasePath'
    <2>1. /\ \A q \in Reqs : /\ req'[q].op = req[q].op
                             /\ req'[q].pc = IF q = r THEN "revoke" ELSE req[q].pc
          /\ req[r].pc = "lock" /\ erased' = erased
      BY <1>3, <1>6 DEF Lock
    <2>2. user' = IF user \in {"active", "locked"} THEN "locked" ELSE user
      BY <1>6 DEF Lock, Locked, RowExists
    <2> QED
      BY <2>1, <2>2 DEF ErasePath, Tables
  <1>7. ASSUME NEW r \in Reqs, EraseRevoke(r) PROVE ErasePath'
    <2>1. /\ \A q \in Reqs : /\ req'[q].op = req[q].op
                             /\ req'[q].pc = IF q = r THEN "cascade" ELSE req[q].pc
          /\ req[r].pc = "revoke" /\ req[r].op = "erase" /\ user' = user
      BY <1>3, <1>7 DEF EraseRevoke
    <2> QED
      BY <2>1 DEF ErasePath
  <1>8. ASSUME NEW r \in Reqs, Cascade(r) PROVE ErasePath'
    BY <1>2, <1>8 DEF Cascade
  <1>9. ASSUME NEW r \in Reqs, RevokeAll(r) \/ RevokeOthers(r) \/ Abort(r) PROVE ErasePath'
    BY <1>2, <1>9 DEF RevokeAll, RevokeOthers, Abort
  <1>10. ASSUME NEW r \in Reqs,
                \/ \E c \in Codes : Mint(r, c)
                \/ \E t \in Resets : MintReset(r, t)
                \/ \E s \in Sessions : CreateSession(r, s) \/ RevokeOne(r, s)
         PROVE  ErasePath'
    BY <1>2, <1>10 DEF Mint, MintReset, CreateSession, RevokeOne
  <1>11. ASSUME NEW r \in Reqs, SetPassword(r) PROVE ErasePath'
    <2> DEFINE f == IF RowExists THEN Outdated(req) ELSE req
    <2>1. /\ f \in [Reqs -> Request]
          /\ \A q \in Reqs : f[q].op = req[q].op /\ f[q].pc = req[q].pc
      BY OutdatedFacts DEF ReqOK
    <2>2. req' = [f EXCEPT ![r].pc = "revoke"] /\ req[r].pc = "update"
          /\ UNCHANGED <<user, erased>>
      BY <1>11 DEF SetPassword
    <2> HIDE DEF f
    <2>3. \A q \in Reqs : req'[q].op = req[q].op /\ (q # r => req'[q].pc = req[q].pc)
      BY <2>1, <2>2 DEF Request
    <2>4. req[r].op # "erase"
      BY <2>2 DEF ErasePath
    <2> QED
      BY <2>2, <2>3, <2>4, ErasePathKept
  <1>12. ASSUME NEW r \in Reqs, OperatorReset(r) PROVE ErasePath'
    <2> DEFINE f == Outdated(req)
    <2>1. /\ f \in [Reqs -> Request]
          /\ \A q \in Reqs : f[q].op = req[q].op /\ f[q].pc = req[q].pc
      BY OutdatedFacts
    <2>2. req' = [f EXCEPT ![r] = Doing("operator", "revoke", None, FALSE, None)]
          /\ UNCHANGED <<user, erased>>
      BY <1>12 DEF OperatorReset
    <2> HIDE DEF f
    <2>3. \A q \in Reqs : IF q = r THEN req'[q].op = "operator"
                          ELSE req'[q].op = req[q].op /\ req'[q].pc = req[q].pc
      BY <2>1, <2>2 DEF Doing
    <2> QED
      BY <2>2, <2>3, ErasePathKept
  <1>13. ASSUME Expire \/ SweepSessions \/ SweepCodes \/ SweepResets PROVE ErasePath'
    BY <1>13, ErasePathKept DEF Expire, SweepSessions, SweepCodes, SweepResets
  <1>14. CASE UNCHANGED vars
    BY <1>14 DEF vars, ErasePath
  <1> QED
    BY <1>1, <1>4, <1>5, <1>6, <1>7, <1>8, <1>9, <1>10, <1>11, <1>12, <1>13, <1>14
    DEF Next, Serve

LEMMA InitErasePath == Init => ErasePath
  BY IdleFacts DEF Init, ErasePath

\* Once an erasure has started to destroy data nobody can use the account.
THEOREM ErasureIsFinal == Spec => []ErasureShutsOut
  <1>1. ErasePath => ErasureShutsOut
    BY DEF ErasePath, ErasureShutsOut, Usable
  <1> QED
    BY <1>1, InitTypeOK, StepTypeOK, InitErasePath, StepErasePath, PTL DEF Spec

-----------------------------------------------------------------------------
(* Old sessions end.                                                          *)

Revoking(r) == req[r].pc = "revoke" /\ req[r].op # "erase"

Outdone(s) == sess[s].st = "live" /\ ~sess[s].fresh /\ ~sess[s].late

\* The strengthening of OldSessionsEnd: the revocation an outdone session waits
\* for is one that will not spare it.
Doomed ==
  \A s \in Sessions :
    Outdone(s) => cut \/ \E r \in Reqs : Revoking(r) /\ req[r].own # s

\* What every step does that neither sets a password, nor revokes, nor dies.
Quiet ==
  /\ cut' = cut
  /\ \A s \in Sessions : Outdone(s)' => Outdone(s)
  /\ \A r \in Reqs : Revoking(r) => Revoking(r)' /\ req'[r].own = req[r].own

LEMMA QuietKeepsDoomed == Doomed /\ Quiet => Doomed'
  BY DEF Doomed, Quiet

\* A request that is not revoking may go anywhere.
LEMMA OthersKeepRevoking ==
  ASSUME ReqOK, NEW r \in Reqs, ~Revoking(r), NEW what, req' = [req EXCEPT ![r] = what]
  PROVE  \A q \in Reqs : Revoking(q) => Revoking(q)' /\ req'[q].own = req[q].own
  BY DEF ReqOK, Revoking

LEMMA GotoKeepsRevoking ==
  ASSUME ReqOK, NEW r \in Reqs, ~Revoking(r), NEW pc, Goto(r, pc)
  PROVE  \A q \in Reqs : Revoking(q) => Revoking(q)' /\ req'[q].own = req[q].own
  BY DEF ReqOK, Revoking, Goto

\* Rows that die, or stay, are not outdone by that.
LEMMA RevokedOutdone ==
  ASSUME SessOK, NEW S, sess' = RevokedIn(S)
  PROVE  \A s \in Sessions : Outdone(s)' => Outdone(s) /\ s \notin S
  BY RevokedFacts DEF Outdone

LEMMA DyingOutdone ==
  ASSUME SessOK, NEW S \in SUBSET Sessions, NEW st \in {"dead", "gone"},
         sess' = [s \in Sessions |-> IF s \in S THEN Dead(sess[s], st) ELSE sess[s]]
  PROVE  \A s \in Sessions : Outdone(s)' => Outdone(s)
  <1>1. \A s \in Sessions : sess[s] \in SessionRow
    BY DEF SessOK
  <1> QED
    BY <1>1, DeadFacts DEF Outdone

LEMMA CreatedOutdone ==
  ASSUME SessOK, NEW r \in Reqs, NEW s \in Sessions, CreateSession(r, s)
  PROVE  \A x \in Sessions : Outdone(x)' => Outdone(x)
  BY DEF SessOK, CreateSession, Outdone

LEMMA StepDoomed == TypeOK /\ ErasePath /\ Doomed /\ [Next]_vars => Doomed'
  <1> SUFFICES ASSUME Tables, SessOK, ReqOK, ErasePath, Doomed, [Next]_vars
               PROVE  Doomed'
    BY TypeParts
  <1>1. ASSUME NEW r \in Reqs,
               \/ Signup(r) \/ Login(r) \/ RequestReset(r)
               \/ \E c \in Codes : ClaimCode(r, c)
               \/ \E t \in Resets : ClaimReset(r, t)
               \/ \E s \in Sessions, op \in WebOps \cup AnyOps : Resolve(r, s, op)
        PROVE  Doomed'
    <2>1. /\ UNCHANGED <<sess, cut>> /\ req[r].pc = "idle"
          /\ \E what : req' = [req EXCEPT ![r] = what]
      BY <1>1 DEF Signup, Login, RequestReset, ClaimCode, ClaimReset, Resolve, Begin
    <2>2. Quiet
      BY <2>1, OthersKeepRevoking DEF Quiet, Outdone, Revoking
    <2> QED
      BY <2>2, QuietKeepsDoomed
  <1>2. ASSUME NEW r \in Reqs,
               CheckUser(r) \/ VerifyChange(r) \/ VerifyErase(r) \/ Lock(r)
        PROVE  Doomed'
    <2>1. /\ UNCHANGED <<sess, cut>> /\ ~Revoking(r)
          /\ End(r) \/ \E pc : Goto(r, pc)
      BY <1>2 DEF CheckUser, VerifyChange, VerifyErase, Lock, Revoking
    <2>2. Quiet
      BY <2>1, OthersKeepRevoking, GotoKeepsRevoking DEF Quiet, Outdone, End
    <2> QED
      BY <2>2, QuietKeepsDoomed
  <1>3. ASSUME NEW r \in Reqs,
               \/ \E c \in Codes : Mint(r, c)
               \/ \E t \in Resets : MintReset(r, t)
        PROVE  Doomed'
    <2>1. UNCHANGED <<sess, cut>> /\ ~Revoking(r) /\ End(r)
      BY <1>3 DEF Mint, MintReset, Revoking
    <2>2. Quiet
      BY <2>1, OthersKeepRevoking DEF Quiet, Outdone, End
    <2> QED
      BY <2>2, QuietKeepsDoomed
  <1>4. ASSUME NEW r \in Reqs, NEW s \in Sessions, CreateSession(r, s)
        PROVE  Doomed'
    <2>1. UNCHANGED cut /\ ~Revoking(r) /\ End(r)
      BY <1>4 DEF CreateSession, Revoking
    <2>2. Quiet
      BY <1>4, <2>1, OthersKeepRevoking, CreatedOutdone DEF Quiet, End
    <2> QED
      BY <2>2, QuietKeepsDoomed
  <1>5. ASSUME NEW r \in Reqs,
               RevokeAll(r) \/ \E s \in Sessions : RevokeOne(r, s)
        PROVE  Doomed'
    <2>1. UNCHANGED cut /\ ~Revoking(r) /\ End(r) /\ \E S : sess' = RevokedIn(S)
      BY <1>5 DEF RevokeAll, RevokeOne, Revoking
    <2>2. Quiet
      BY <2>1, OthersKeepRevoking, RevokedOutdone DEF Quiet, End
    <2> QED
      BY <2>2, QuietKeepsDoomed
  <1>6. ASSUME NEW r \in Reqs, EraseRevoke(r) PROVE Doomed'
    <2>1. UNCHANGED cut /\ ~Revoking(r) /\ Goto(r, "cascade") /\ sess' = RevokedIn(Sessions)
      BY <1>6 DEF EraseRevoke, Revoking
    <2>2. Quiet
      BY <2>1, GotoKeepsRevoking, RevokedOutdone DEF Quiet
    <2> QED
      BY <2>2, QuietKeepsDoomed
  <1>7. ASSUME NEW r \in Reqs, Cascade(r) PROVE Doomed'
    <2> DEFINE S == {s \in Sessions : sess[s].st # "none"}
    <2>1. /\ UNCHANGED cut /\ ~Revoking(r) /\ End(r)
          /\ sess' = [s \in Sessions |-> IF s \in S THEN Dead(sess[s], "gone") ELSE sess[s]]
      BY <1>7 DEF Cascade, Revoking
    <2>2. Quiet
      BY <2>1, OthersKeepRevoking, DyingOutdone DEF Quiet, End
    <2> QED
      BY <2>2, QuietKeepsDoomed
  <1>8. ASSUME Expire \/ SweepSessions \/ SweepCodes \/ SweepResets PROVE Doomed'
    <2>1. UNCHANGED <<req, cut>>
      BY <1>8 DEF Expire, SweepSessions, SweepCodes, SweepResets
    <2>2. ASSUME NEW s \in Sessions, sess' = [sess EXCEPT ![s] = Dead(@, "dead")]
          PROVE  \A x \in Sessions : Outdone(x)' => Outdone(x)
      <3>1. sess' = [x \in Sessions |-> IF x \in {s} THEN Dead(sess[x], "dead") ELSE sess[x]]
        BY <2>2 DEF SessOK
      <3> QED
        BY <3>1, DyingOutdone
    <2>3. \A s \in Sessions : Outdone(s)' => Outdone(s)
      <3>1. CASE UNCHANGED sess
        BY <3>1 DEF Outdone
      <3>2. CASE SweepSessions
        BY <3>2, DyingOutdone DEF SweepSessions
      <3> QED
        BY <1>8, <2>2, <3>1, <3>2 DEF Expire, SweepCodes, SweepResets
    <2>4. Quiet
      BY <2>1, <2>3 DEF Quiet, Revoking
    <2> QED
      BY <2>4, QuietKeepsDoomed
  <1>9. ASSUME NEW r \in Reqs, NEW own, NewPassword(own), UNCHANGED cut,
               Revoking(r)', req'[r].own = own,
               \A q \in Reqs : Revoking(q) => Revoking(q)' /\ req'[q].own = req[q].own
        PROVE  Doomed'
    <2>1. CASE RowExists
      <3>1. \A s \in Sessions : s = own => ~Outdone(s)'
        BY <1>9, <2>1, NewPasswordFacts DEF Outdone, Tables
      <3> QED
        BY <1>9, <3>1 DEF Doomed
    <2>2. CASE ~RowExists
      <3>1. Quiet
        BY <1>9, <2>2 DEF Quiet, NewPassword, Outdone
      <3> QED
        BY <3>1, QuietKeepsDoomed
    <2> QED
      BY <2>1, <2>2
  <1>10. ASSUME NEW r \in Reqs, SetPassword(r) PROVE Doomed'
    <2> DEFINE f == IF RowExists THEN Outdated(req) ELSE req
    <2>1. /\ f \in [Reqs -> Request]
          /\ \A q \in Reqs : /\ f[q].op = req[q].op /\ f[q].pc = req[q].pc
                             /\ f[q].own = req[q].own
      BY OutdatedFacts DEF ReqOK
    <2>2. req' = [f EXCEPT ![r].pc = "revoke"]
      BY <1>10 DEF SetPassword
    <2> HIDE DEF f
    <2>3. req[r].op # "erase"
      BY <1>10 DEF SetPassword, ErasePath
    <2>4. /\ Revoking(r)' /\ req'[r].own = req[r].own
          /\ \A q \in Reqs : Revoking(q) => Revoking(q)' /\ req'[q].own = req[q].own
      BY <2>1, <2>2, <2>3 DEF Revoking, Request
    <2> QED
      BY <1>9, <1>10, <2>4 DEF SetPassword
  <1>11. ASSUME NEW r \in Reqs, OperatorReset(r) PROVE Doomed'
    <2> DEFINE f == Outdated(req)
    <2>1. /\ f \in [Reqs -> Request]
          /\ \A q \in Reqs : /\ f[q].op = req[q].op /\ f[q].pc = req[q].pc
                             /\ f[q].own = req[q].own
      BY OutdatedFacts
    <2>2. req' = [f EXCEPT ![r] = Doing("operator", "revoke", None, FALSE, None)]
      BY <1>11 DEF OperatorReset
    <2>3. req[r].pc = "idle"
      BY <1>11 DEF OperatorReset
    <2> HIDE DEF f
    <2>4. /\ Revoking(r)' /\ req'[r].own = None
          /\ \A q \in Reqs : Revoking(q) => Revoking(q)' /\ req'[q].own = req[q].own
      BY <2>1, <2>2, <2>3 DEF Revoking, Doing
    <2> QED
      BY <1>9, <1>11, <2>4 DEF OperatorReset
  <1>12. ASSUME NEW r \in Reqs, RevokeOthers(r) PROVE Doomed'
    <2>1. \A s \in Sessions : Outdone(s)' => Outdone(s) /\ s = req[r].own
      BY <1>12, RevokedOutdone DEF RevokeOthers
    <2>2. \A q \in Reqs : q # r => req'[q] = req[q]
      BY <1>12 DEF RevokeOthers, End, ReqOK
    <2> QED
      BY <1>12, <2>1, <2>2 DEF Doomed, RevokeOthers, Revoking
  <1>13. ASSUME NEW r \in Reqs, Abort(r) PROVE Doomed'
    <2>1. CASE Revoking(r)
      BY <1>13, <2>1 DEF Abort, Revoking, Doomed
    <2>2. CASE ~Revoking(r)
      <3>1. cut' = cut /\ UNCHANGED sess /\ End(r)
        BY <1>13, <2>2 DEF Abort, Revoking, Tables
      <3>2. Quiet
        BY <2>2, <3>1, OthersKeepRevoking DEF Quiet, Outdone, End
      <3> QED
        BY <3>2, QuietKeepsDoomed
    <2> QED
      BY <2>1, <2>2
  <1>14. CASE UNCHANGED vars
    BY <1>14 DEF vars, Doomed, Outdone, Revoking
  <1> QED
    BY <1>1, <1>2, <1>3, <1>4, <1>5, <1>6, <1>7, <1>8, <1>10, <1>11, <1>12, <1>13, <1>14
    DEF Next, Serve

LEMMA InitDoomed == Init => Doomed
  BY NoSessionFacts DEF Init, Doomed, Outdone

\* After a change or a reset every session that still works was granted on the
\* current password or set it, whatever ran meanwhile; the exceptions are those of
\* the property.
THEOREM ChangeEndsOldSessions == Spec => []OldSessionsEnd
  <1>1. Doomed => OldSessionsEnd
    BY DEF Doomed, OldSessionsEnd, Outdone, Usable, Revoking
  <1> QED
    BY <1>1, InitTypeOK, StepTypeOK, InitErasePath, StepErasePath, InitDoomed, StepDoomed, PTL
    DEF Spec

-----------------------------------------------------------------------------
(* A code pairs once.                                                         *)

Unclaimed == {"none", "open", "expired"}

\* A code is nobody's until it is claimed, and then it is in one place: with the
\* request that claimed it or on the session that request made.
Placed ==
  /\ \A c \in Codes : code[c].st \in Unclaimed =>
       /\ \A s \in Sessions : sess[s].ref # c
       /\ \A r \in Reqs : req[r].ref # c
  /\ \A s, t \in Sessions : sess[s].ref = sess[t].ref /\ sess[s].ref # None => s = t
  /\ \A r, q \in Reqs : req[r].ref = req[q].ref /\ req[r].ref # None => r = q
  /\ \A s \in Sessions, r \in Reqs : sess[s].ref = req[r].ref => req[r].ref = None

\* Steps that claim nothing and make no session.
LEMMA PlacedKept ==
  ASSUME Placed,
         \A s \in Sessions : sess'[s].ref = sess[s].ref,
         \A r \in Reqs : req'[r].ref = req[r].ref \/ req'[r].ref = None,
         \A c \in Codes : code'[c].st \in Unclaimed => code[c].st \in Unclaimed
  PROVE  Placed'
  <1> USE ConstantsOK
  <1>1. ASSUME NEW c \in Codes, code'[c].st \in Unclaimed
        PROVE  /\ \A s \in Sessions : sess'[s].ref # c
               /\ \A r \in Reqs : req'[r].ref # c
    BY <1>1 DEF Placed
  <1>2. \A s, t \in Sessions : sess'[s].ref = sess'[t].ref /\ sess'[s].ref # None => s = t
    BY DEF Placed
  <1>3. \A r, q \in Reqs : req'[r].ref = req'[q].ref /\ req'[r].ref # None => r = q
    BY DEF Placed
  <1>4. \A s \in Sessions, r \in Reqs : sess'[s].ref = req'[r].ref => req'[r].ref = None
    BY DEF Placed
  <1> QED
    BY <1>1, <1>2, <1>3, <1>4 DEF Placed, Unclaimed

LEMMA EndRefs ==
  ASSUME ReqOK, NEW r \in Reqs, End(r)
  PROVE  \A q \in Reqs : req'[q].ref = IF q = r THEN None ELSE req[q].ref
  BY IdleFacts DEF ReqOK, End

LEMMA GotoRefs ==
  ASSUME ReqOK, NEW r \in Reqs, NEW pc, Goto(r, pc)
  PROVE  \A q \in Reqs : req'[q].ref = req[q].ref
  BY DEF ReqOK, Request, Goto

LEMMA DyingRefs ==
  ASSUME SessOK, NEW S \in SUBSET Sessions, NEW st \in {"dead", "gone"},
         sess' = [s \in Sessions |-> IF s \in S THEN Dead(sess[s], st) ELSE sess[s]]
  PROVE  \A s \in Sessions : sess'[s].ref = sess[s].ref
  <1>1. \A s \in Sessions : sess[s] \in SessionRow
    BY DEF SessOK
  <1> QED
    BY <1>1, DeadFacts

LEMMA StepPlaced == TypeOK /\ Placed /\ [Next]_vars => Placed'
  <1> SUFFICES ASSUME Tables, SessOK, ReqOK, Placed, [Next]_vars PROVE Placed'
    BY TypeParts
  <1> USE ConstantsOK
  <1>1. ASSUME NEW r \in Reqs,
               \/ Signup(r) \/ Login(r) \/ RequestReset(r)
               \/ \E t \in Resets : ClaimReset(r, t)
               \/ \E s \in Sessions, op \in WebOps \cup AnyOps : Resolve(r, s, op)
        PROVE  Placed'
    <2>1. \A q \in Reqs : req'[q].ref = IF q = r THEN None ELSE req[q].ref
      BY <1>1 DEF Signup, Login, RequestReset, ClaimReset, Resolve, Begin, ReqOK, Doing
    <2>2. UNCHANGED <<sess, code>>
      BY <1>1 DEF Signup, Login, RequestReset, ClaimReset, Resolve
    <2> QED
      BY <2>1, <2>2, PlacedKept
  <1>2. ASSUME NEW r \in Reqs, NEW c \in Codes, ClaimCode(r, c) PROVE Placed'
    <2>1. \A q \in Reqs : req'[q].ref = IF q = r THEN c ELSE req[q].ref
      BY <1>2 DEF ClaimCode, Begin, Doing, ReqOK
    <2>2. /\ sess' = sess /\ code[c].st = "open"
          /\ \A d \in Codes : code'[d].st = IF d = c THEN "claimed" ELSE code[d].st
      BY <1>2 DEF ClaimCode, Claimable, Tables, CodeRow
    <2> QED
      BY <2>1, <2>2 DEF Placed, Unclaimed
  <1>3. ASSUME NEW r \in Reqs, NEW s \in Sessions, CreateSession(r, s) PROVE Placed'
    <2>1. \A q \in Reqs : req'[q].ref = IF q = r THEN None ELSE req[q].ref
      BY <1>3, EndRefs DEF CreateSession
    <2>2. code' = code
      BY <1>3 DEF CreateSession
    <2>3. CASE RowExists
      <3>1. \A x \in Sessions : sess'[x].ref = IF x = s THEN req[r].ref ELSE sess[x].ref
        BY <1>3, <2>3 DEF CreateSession, SessOK
      <3> QED
        BY <2>1, <2>2, <3>1 DEF Placed
    <2>4. CASE ~RowExists
      BY <1>3, <2>1, <2>2, <2>4, PlacedKept DEF CreateSession
    <2> QED
      BY <2>3, <2>4
  <1>4. ASSUME NEW r \in Reqs, CheckUser(r) \/ VerifyChange(r) \/ VerifyErase(r) \/ Lock(r)
        PROVE  Placed'
    <2>1. UNCHANGED <<sess, code>> /\ (End(r) \/ \E pc : Goto(r, pc))
      BY <1>4 DEF CheckUser, VerifyChange, VerifyErase, Lock
    <2> QED
      BY <2>1, EndRefs, GotoRefs, PlacedKept
  <1>5. ASSUME NEW r \in Reqs, NEW c \in Codes, Mint(r, c) PROVE Placed'
    <2>1. \A d \in Codes : code'[d].st \in Unclaimed => code[d].st \in Unclaimed
      BY <1>5 DEF Mint, Tables, CodeRow, Unclaimed
    <2> QED
      BY <1>5, <2>1, EndRefs, PlacedKept DEF Mint
  <1>6. ASSUME NEW r \in Reqs,
               \/ RevokeAll(r) \/ RevokeOthers(r) \/ EraseRevoke(r)
               \/ \E s \in Sessions : RevokeOne(r, s)
        PROVE  Placed'
    <2>1. code' = code /\ (End(r) \/ \E pc : Goto(r, pc)) /\ \E S : sess' = RevokedIn(S)
      BY <1>6 DEF RevokeAll, RevokeOthers, EraseRevoke, RevokeOne
    <2> QED
      BY <2>1, RevokedFacts, EndRefs, GotoRefs, PlacedKept
  <1>7. ASSUME NEW r \in Reqs, Abort(r) \/ \E t \in Resets : MintReset(r, t) PROVE Placed'
    <2>1. UNCHANGED <<sess, code>> /\ End(r)
      BY <1>7 DEF Abort, MintReset
    <2> QED
      BY <2>1, EndRefs, PlacedKept
  <1>8. ASSUME NEW own, NewPassword(own),
               \A q \in Reqs : req'[q].ref = req[q].ref \/ req'[q].ref = None
        PROVE  Placed'
    <2>1. /\ \A s \in Sessions : sess'[s].ref = sess[s].ref
          /\ \A c \in Codes : code'[c].st = code[c].st
      BY <1>8, NewPasswordFacts DEF Tables
    <2> QED
      BY <1>8, <2>1, PlacedKept
  <1>9. ASSUME NEW r \in Reqs, SetPassword(r) PROVE Placed'
    <2> DEFINE f == IF RowExists THEN Outdated(req) ELSE req
    <2>1. f \in [Reqs -> Request] /\ \A q \in Reqs : f[q].ref = req[q].ref
      BY OutdatedFacts DEF ReqOK
    <2>2. req' = [f EXCEPT ![r].pc = "revoke"]
      BY <1>9 DEF SetPassword
    <2> HIDE DEF f
    <2>3. \A q \in Reqs : req'[q].ref = req[q].ref
      BY <2>1, <2>2 DEF Request
    <2> QED
      BY <1>8, <1>9, <2>3 DEF SetPassword
  <1>10. ASSUME NEW r \in Reqs, OperatorReset(r) PROVE Placed'
    <2> DEFINE f == Outdated(req)
    <2>1. f \in [Reqs -> Request] /\ \A q \in Reqs : f[q].ref = req[q].ref
      BY OutdatedFacts
    <2>2. req' = [f EXCEPT ![r] = Doing("operator", "revoke", None, FALSE, None)]
      BY <1>10 DEF OperatorReset
    <2> HIDE DEF f
    <2>3. \A q \in Reqs : req'[q].ref = req[q].ref \/ req'[q].ref = None
      BY <2>1, <2>2 DEF Doing
    <2> QED
      BY <1>8, <1>10, <2>3 DEF OperatorReset
  <1>11. ASSUME NEW r \in Reqs, Cascade(r) PROVE Placed'
    <2> DEFINE S == {s \in Sessions : sess[s].st # "none"}
    <2>1. sess' = [s \in Sessions |-> IF s \in S THEN Dead(sess[s], "gone") ELSE sess[s]]
      BY <1>11 DEF Cascade
    <2>2. \A c \in Codes : code'[c].st \in Unclaimed => code[c].st \in Unclaimed
      BY <1>11 DEF Cascade, Tables, CodeRow, Unclaimed
    <2> QED
      BY <1>11, <2>1, <2>2, DyingRefs, EndRefs, PlacedKept DEF Cascade
  <1>12. ASSUME Expire \/ SweepSessions \/ SweepCodes \/ SweepResets PROVE Placed'
    <2>1. req' = req
      BY <1>12 DEF Expire, SweepSessions, SweepCodes, SweepResets
    <2>2. \A c \in Codes : code'[c].st \in Unclaimed => code[c].st \in Unclaimed
      BY <1>12 DEF Expire, SweepSessions, SweepCodes, SweepResets, Tables, CodeRow, Unclaimed
    <2>3. ASSUME NEW s \in Sessions, sess' = [sess EXCEPT ![s] = Dead(@, "dead")]
          PROVE  \A x \in Sessions : sess'[x].ref = sess[x].ref
      <3>1. sess' = [x \in Sessions |-> IF x \in {s} THEN Dead(sess[x], "dead") ELSE sess[x]]
        BY <2>3 DEF SessOK
      <3> QED
        BY <3>1, DyingRefs
    <2>4. \A x \in Sessions : sess'[x].ref = sess[x].ref
      BY <1>12, <2>3, DyingRefs DEF Expire, SweepSessions, SweepCodes, SweepResets
    <2> QED
      BY <2>1, <2>2, <2>4, PlacedKept
  <1>13. CASE UNCHANGED vars
    BY <1>13, PlacedKept DEF vars
  <1> QED
    BY <1>1, <1>2, <1>3, <1>4, <1>5, <1>6, <1>7, <1>9, <1>10, <1>11, <1>12, <1>13
    DEF Next, Serve

LEMMA InitPlaced == Init => Placed
  BY IdleFacts, NoSessionFacts, ConstantsOK DEF Init, Placed

\* A pairing code yields one session at most, whatever races with what.
THEOREM CodesPairOnce == Spec => []CodePairsOnce
  <1>1. Placed => CodePairsOnce
    BY DEF Placed, CodePairsOnce
  <1> QED
    BY <1>1, InitTypeOK, StepTypeOK, InitPlaced, StepPlaced, PTL DEF Spec
===============================================================================
