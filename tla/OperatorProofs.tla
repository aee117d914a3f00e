--------------------------- MODULE OperatorProofs ---------------------------
(* Theorems about the tools of the operator, for every value of their constants:
   the rotation of the encryption keys and the validation gate. *)
EXTENDS KeyRotation, ValidationGate, SequenceTheorems, FiniteSetTheorems, TLAPS

-----------------------------------------------------------------------------
(* Typing *)

Life == {"unborn", "full", "thumb", "row", "dead", "halved", "gone"} \cup Deleting
Conn == [status : {None, "active", "revoked"}, token : States \cup {None},
         key : {None, "old", "new"}, mapping : States \cup {None}]
OAuth == [user : Users \cup {None}, status : {None, "issued", "used", "expired"}]
ReqPC == {"idle", "exchange", "upsert", "validate", "save"}
Req == [pc : ReqPC, user : Users \cup {None}, token : States \cup {None}]
Tool == [pc : {"off", "get", "put", "tokens", "verify"}, objects : SUBSET Objects,
         conns : [Users -> States \cup {None}], failed : BOOLEAN]

TypeOK ==
  /\ ring \in [Servers -> {"old", "both", "new"}]
  /\ stage \in {"deploy", "rotate", "verify", "drop"}
  /\ life \in [Images -> Life]
  /\ blob \in [Objects -> {None, "old", "new", "bad"}]
  /\ conn \in [Users -> Conn]
  /\ oauth \in [States -> OAuth]
  /\ req \in [Requests -> Req]
  /\ tool \in Tool
  /\ latest \in [Users -> States \cup {None}]
  /\ revived \subseteq Objects /\ mixed \subseteq Users
  /\ tool.pc = "put" => tool.objects # {}
-----------------------------------------------------------------------------
(* The runbook *)

\* Which rings the servers may have at each stage, and when the tools run.
Runbook ==
  /\ stage = "deploy" => \A s \in Servers : ring[s] \in {"old", "both"}
  /\ stage \in {"rotate", "verify"} => \A s \in Servers : ring[s] = "both"
  /\ stage = "drop" => \A s \in Servers : ring[s] \in {"both", "new"}
  /\ tool.pc \in {"get", "put", "tokens"} => stage = "rotate"
  /\ tool.pc = "verify" => stage = "verify"

\* Once the API writes with the new key no capture holds an object of the old one;
\* a run of media:verify that goes well has none left behind it, and after one that
\* went well no row refers to any.
Current(m) == \A o \in ObjectsOf(m) : blob[o] # "old"
ImagesMoveOn ==
  /\ \A m \in Images :
       life[m] = "unborn" \/ (ring["api"] # "old" /\ life[m] \in {"full", "thumb"})
         => Current(m)
  /\ tool.pc = "verify" /\ ~tool.failed =>
       \A m \in HasRow : \A o \in ObjectsOf(m) : o \in tool.objects \/ blob[o] # "old"
  /\ stage = "drop" => \A m \in HasRow : Current(m)

\* The rotation has every active connection of the old key in hand, and leaves none.
ConnsMoveOn ==
  /\ \A u \in Users : Active(u) => conn[u].key # None /\ conn[u].token # None
  /\ tool.pc = "tokens" =>
       \A u \in Users : Active(u) /\ conn[u].key = "old" => tool.conns[u] # None
  /\ stage \in {"verify", "drop"} => \A u \in Users : Active(u) => conn[u].key = "new"

\* Every token a tool or a request holds is of a state its user minted and used.
Used(u, s) == oauth[s] = [user |-> u, status |-> "used"]
TokensOwned ==
  /\ \A u \in Users : tool.conns[u] # None => Used(u, tool.conns[u])
  /\ \A q \in Requests : req[q].pc # "idle" =>
       /\ req[q].user \in Users /\ req[q].token \in States
       /\ Used(req[q].user, req[q].token)

\* What a deletion has erased stays erased, or was put back by the rotation.
Erased(m, v) == blob[<<m, v>>] = None \/ <<m, v>> \in revived
ErasedStays ==
  \A m \in Images :
    /\ life[m] = "erase thumb" => Erased(m, "full")
    /\ life[m] \in {"forget", "gone"} =>
         Erased(m, "full") /\ (m \in Decodable => Erased(m, "thumb"))

KeyInv == /\ TypeOK /\ Runbook /\ ImagesMoveOn /\ ConnsMoveOn
          /\ TokensOwned /\ TokensStayPut /\ ErasedStays
-----------------------------------------------------------------------------
(* The initial state *)

LEMMA ObjectFacts ==
  /\ \A m \in Images : <<m, "full">> \in Objects /\ <<m, "thumb">> \in Objects
  /\ \A m \in Images : \A o \in ObjectsOf(m) :
       o = <<m, "full">> \/ (m \in Decodable /\ o = <<m, "thumb">>)
  /\ \A m \in Images : \A o \in ObjectsOf(m) : o \in Objects
  /\ \A m, n \in Images : m # n => \A o \in ObjectsOf(m) : o \notin ObjectsOf(n)
  BY DEF Objects, Variants, ObjectsOf

LEMMA InitKeyInv == Init => KeyInv
  <1> SUFFICES ASSUME Init PROVE KeyInv
    OBVIOUS
  <1> PICK start \in Starts :
       /\ life = [m \in Images |-> IF m \in start.images THEN "unborn" ELSE "gone"]
       /\ oauth = [s \in States |-> [user |-> None,
                     status |-> IF s \in start.states THEN None ELSE "expired"]]
    BY DEF Init
  <1>1. TypeOK
    <2>1. IdleTool \in Tool
      BY DEF IdleTool, Tool
    <2>2. IdleReq \in Req
      BY DEF IdleReq, Req, ReqPC
    <2>3. NoConn \in Conn
      BY DEF NoConn, Conn
    <2>4. life \in [Images -> Life]
      BY DEF Life
    <2>5. oauth \in [States -> OAuth]
      BY DEF OAuth
    <2>6. tool.pc = "off"
      BY DEF Init, IdleTool
    <2> QED
      BY <2>1, <2>2, <2>3, <2>4, <2>5, <2>6 DEF Init, TypeOK
  <1>2. Runbook
    BY DEF Init, Runbook, IdleTool
  <1>3. ImagesMoveOn
    BY ObjectFacts DEF Init, ImagesMoveOn, IdleTool, Current, None
  <1>4. ConnsMoveOn
    BY DEF Init, ConnsMoveOn, IdleTool, Active, NoConn, None
  <1>5. TokensOwned
    BY DEF Init, TokensOwned, IdleTool, IdleReq, NoConn
  <1>6. TokensStayPut
    BY DEF Init, TokensStayPut, NoConn, Active
  <1>7. ErasedStays
    BY ObjectFacts DEF Init, ErasedStays, Erased
  <1> QED
    BY <1>1, <1>2, <1>3, <1>4, <1>5, <1>6, <1>7 DEF KeyInv
-----------------------------------------------------------------------------
(* Captures and deletions                                                  *)

\* A capture adds one object, encrypted with the key the API writes with.
LEMMA CaptureFacts ==
  ASSUME TypeOK, NEW m \in Images, Capture(m)
  PROVE  /\ \A x \in Images : x # m => life'[x] = life[x]
         /\ \A o \in Objects :
              blob'[o] = blob[o] \/ (o \in {<<m, "full">>, <<m, "thumb">>} /\ blob'[o] = WriteKey)
         /\ \/ life[m] = "unborn" /\ life'[m] = "full"
            \/ life[m] = "full" /\ life'[m] = "thumb"
            \/ life[m] \in {"full", "thumb"} /\ life'[m] = "row"
         /\ life' \in [Images -> Life]
         /\ blob' \in [Objects -> {None, "old", "new", "bad"}]
  <1>1. WriteKey \in {"old", "new"}
    BY DEF WriteKey
  <1>2. life \in [Images -> Life] /\ blob \in [Objects -> {None, "old", "new", "bad"}]
    BY DEF TypeOK
  <1>3. \/ /\ life[m] = "unborn" /\ life' = [life EXCEPT ![m] = "full"]
           /\ blob' = [blob EXCEPT ![<<m, "full">>] = WriteKey]
        \/ /\ life[m] = "full" /\ life' = [life EXCEPT ![m] = "thumb"]
           /\ blob' = [blob EXCEPT ![<<m, "thumb">>] = WriteKey]
        \/ /\ life[m] \in {"full", "thumb"} /\ life' = [life EXCEPT ![m] = "row"]
           /\ blob' = blob
    BY DEF Capture
  <1> QED
    BY <1>1, <1>2, <1>3 DEF Life

\* A deletion erases one object, or none.
LEMMA DeleteFacts ==
  ASSUME TypeOK, NEW m \in Images, NEW to \in Life,
         NEW f \in {None, blob[<<m, "full">>]}, NEW t \in {None, blob[<<m, "thumb">>]},
         life' = [life EXCEPT ![m] = to],
         blob' = [blob EXCEPT ![<<m, "full">>] = f, ![<<m, "thumb">>] = t]
  PROVE  /\ life'[m] = to
         /\ \A x \in Images : x # m => life'[x] = life[x]
         /\ \A o \in Objects : blob'[o] = blob[o] \/ blob'[o] = None
         /\ \A o \in Objects : o \notin {<<m, "full">>, <<m, "thumb">>} => blob'[o] = blob[o]
         /\ blob'[<<m, "full">>] = f /\ blob'[<<m, "thumb">>] = t
         /\ life' \in [Images -> Life]
         /\ blob' \in [Objects -> {None, "old", "new", "bad"}]
  <1>1. /\ life \in [Images -> Life] /\ blob \in [Objects -> {None, "old", "new", "bad"}]
        /\ <<m, "full">> \in Objects /\ <<m, "thumb">> \in Objects
        /\ <<m, "full">> # <<m, "thumb">>
    BY ObjectFacts DEF TypeOK
  <1> QED
    BY <1>1

\* The five steps of an image, and where each leaves its life.
LEMMA DeletionFacts ==
  ASSUME TypeOK, NEW m \in Images, StartDelete(m) \/ Erase(m) \/ Forget(m)
  PROVE  /\ \A x \in Images : x # m => life'[x] = life[x]
         /\ \A o \in Objects : blob'[o] = blob[o] \/ blob'[o] = None
         /\ \A o \in Objects : o \notin {<<m, "full">>, <<m, "thumb">>} => blob'[o] = blob[o]
         /\ \/ life[m] \in {"row", "halved"} /\ life'[m] = "erase full"
            \/ life[m] = "erase full" /\ life'[m] = "erase thumb" /\ blob'[<<m, "full">>] = None
            \/ life[m] = "erase thumb" /\ life'[m] = "forget" /\ blob'[<<m, "thumb">>] = None
            \/ life[m] = "forget" /\ life'[m] = "gone"
         /\ life' \in [Images -> Life]
         /\ blob' \in [Objects -> {None, "old", "new", "bad"}]
         /\ OnlyMedia
  <1>0. {"erase full", "erase thumb", "forget", "gone"} \subseteq Life
    BY DEF Life, Deleting
  <1>1. OnlyMedia
    BY DEF StartDelete, Erase, Forget, Delete
  <1>2. CASE StartDelete(m)
    <2>1. /\ life[m] \in {"row", "halved"} /\ life' = [life EXCEPT ![m] = "erase full"]
          /\ blob' = [blob EXCEPT ![<<m, "full">>] = blob[<<m, "full">>],
                                  ![<<m, "thumb">>] = blob[<<m, "thumb">>]]
      BY <1>2 DEF StartDelete, Delete
    <2> QED
      BY <1>0, <1>1, <2>1, DeleteFacts
  <1>3. CASE Delete(m, {"erase full"}, {"full"}, "erase thumb")
    <2>1. /\ life[m] \in {"erase full"} /\ life' = [life EXCEPT ![m] = "erase thumb"]
          /\ blob' = [blob EXCEPT ![<<m, "full">>] = None,
                                  ![<<m, "thumb">>] = blob[<<m, "thumb">>]]
      BY <1>3 DEF Delete
    <2> QED
      BY <1>0, <1>1, <2>1, DeleteFacts
  <1>4. CASE Delete(m, {"erase thumb"}, {"thumb"}, "forget")
    <2>1. /\ life[m] \in {"erase thumb"} /\ life' = [life EXCEPT ![m] = "forget"]
          /\ blob' = [blob EXCEPT ![<<m, "full">>] = blob[<<m, "full">>],
                                  ![<<m, "thumb">>] = None]
      BY <1>4 DEF Delete
    <2> QED
      BY <1>0, <1>1, <2>1, DeleteFacts
  <1>5. CASE Forget(m)
    <2>1. /\ life[m] \in {"forget"} /\ life' = [life EXCEPT ![m] = "gone"]
          /\ blob' = [blob EXCEPT ![<<m, "full">>] = blob[<<m, "full">>],
                                  ![<<m, "thumb">>] = blob[<<m, "thumb">>]]
      BY <1>5 DEF Forget, Delete
    <2> QED
      BY <1>0, <1>1, <2>1, DeleteFacts
  <1> QED
    BY <1>2, <1>3, <1>4, <1>5 DEF Erase

LEMMA OnlyMediaKeeps ==
  ASSUME OnlyMedia
  PROVE  /\ ring' = ring /\ stage' = stage /\ tool' = tool /\ revived' = revived
         /\ mixed' = mixed /\ conn' = conn /\ oauth' = oauth /\ req' = req
         /\ latest' = latest
  BY DEF OnlyMedia, history, notion

LEMMA MediaStep ==
  ASSUME KeyInv, NEW m \in Images,
         Capture(m) \/ StartDelete(m) \/ Erase(m) \/ Forget(m)
  PROVE  KeyInv'
  <1> USE DEF KeyInv
  <1>0. OnlyMedia
    BY DeletionFacts DEF Capture
  <1>1. TypeOK'
    BY <1>0, OnlyMediaKeeps, CaptureFacts, DeletionFacts DEF TypeOK
  <1>2. Runbook'
    BY <1>0, OnlyMediaKeeps DEF Runbook
  <1>3. ConnsMoveOn'
    BY <1>0, OnlyMediaKeeps DEF ConnsMoveOn, Active
  <1>4. TokensOwned' /\ TokensStayPut'
    BY <1>0, OnlyMediaKeeps DEF TokensOwned, TokensStayPut, Used, Active
  <1>5. ImagesMoveOn'
    <2>1. /\ ring' = ring /\ stage' = stage /\ tool' = tool
      BY <1>0, OnlyMediaKeeps
    <2>2. ASSUME NEW x \in Images, x # m
          PROVE  life'[x] = life[x] /\ \A o \in ObjectsOf(x) : blob'[o] = blob[o]
      <3>1. /\ \A o \in ObjectsOf(x) : o \in Objects
            /\ \A o \in ObjectsOf(x) : o \notin {<<m, "full">>, <<m, "thumb">>}
        BY <2>2, ObjectFacts
      <3>2. CASE Capture(m)
        BY <2>2, <3>1, <3>2, CaptureFacts
      <3>3. CASE StartDelete(m) \/ Erase(m) \/ Forget(m)
        BY <2>2, <3>1, <3>3, DeletionFacts
      <3> QED
        BY <3>2, <3>3
    <2>3. CASE Capture(m)
      <3>1. CASE ring["api"] = "old"
        <4>1. tool.pc # "verify" /\ stage # "drop"
          BY <3>1 DEF Runbook, Servers
        <4>2. life'[m] # "unborn"
          BY <2>3, CaptureFacts
        <4> QED
          BY <2>1, <2>2, <3>1, <4>1, <4>2 DEF ImagesMoveOn, Current
      <3>2. CASE ring["api"] # "old"
        <4>1. \A o \in ObjectsOf(m) : blob'[o] = blob[o] \/ blob'[o] = "new"
          BY <2>3, <3>2, CaptureFacts, ObjectFacts DEF WriteKey
        <4>2. life[m] \in {"unborn", "full", "thumb"}
          BY <2>3, CaptureFacts
        <4>3. Current(m)
          BY <3>2, <4>2 DEF ImagesMoveOn
        <4>4. \A o \in ObjectsOf(m) : blob'[o] # "old"
          BY <4>1, <4>3 DEF Current
        <4>5. \A x \in HasRow' : x \in Images /\ (x = m \/ x \in HasRow)
          BY <2>2 DEF HasRow
        <4> QED
          BY <2>1, <2>2, <3>2, <4>4, <4>5 DEF ImagesMoveOn, Current
      <3> QED
        BY <3>1, <3>2
    <2>4. CASE StartDelete(m) \/ Erase(m) \/ Forget(m)
      <3>1. /\ life[m] \in {"row", "halved"} \cup Deleting
            /\ life'[m] \in {"gone"} \cup Deleting
            /\ \A o \in ObjectsOf(m) : blob'[o] = blob[o] \/ blob'[o] = None
        BY <2>4, DeletionFacts, ObjectFacts DEF Deleting
      <3>2. \A x \in HasRow' : x \in Images /\ x \in HasRow
        BY <2>2, <3>1 DEF HasRow
      <3>3. life'[m] \notin {"unborn", "full", "thumb"}
        BY <3>1 DEF Deleting
      <3>4. \A x \in Images : \A o \in ObjectsOf(x) : blob'[o] = blob[o] \/ blob'[o] = None
        BY <2>2, <3>1
      <3> QED
        BY <2>1, <2>2, <3>2, <3>3, <3>4 DEF ImagesMoveOn, Current, None
    <2> QED
      BY <2>3, <2>4
  <1>6. ErasedStays'
    <2>1. revived' = revived
      BY <1>0, OnlyMediaKeeps
    <2>2. ASSUME NEW x \in Images, x # m, NEW v \in Variants
          PROVE  life'[x] = life[x] /\ (Erased(x, v) => Erased(x, v)')
      <3>1. /\ <<x, v>> \in Objects /\ <<x, v>> \notin {<<m, "full">>, <<m, "thumb">>}
            /\ life'[x] = life[x]
        BY <2>2, CaptureFacts, DeletionFacts DEF Objects
      <3> QED
        BY <2>1, <3>1, CaptureFacts, DeletionFacts DEF Erased
    <2>3. ASSUME StartDelete(m) \/ Erase(m) \/ Forget(m), NEW v \in Variants
          PROVE  Erased(m, v) => Erased(m, v)'
      <3>1. <<m, v>> \in Objects
        BY DEF Objects
      <3> QED
        BY <2>1, <2>3, <3>1, DeletionFacts DEF Erased
    <2>4. /\ life'[m] = "erase thumb" => Erased(m, "full")'
          /\ life'[m] \in {"forget", "gone"} =>
               Erased(m, "full")' /\ (m \in Decodable => Erased(m, "thumb")')
      <3>1. CASE Capture(m)
        BY <3>1, CaptureFacts
      <3>2. CASE StartDelete(m) \/ Erase(m) \/ Forget(m)
        BY <2>3, <3>2, DeletionFacts DEF ErasedStays, Erased, Variants
      <3> QED
        BY <3>1, <3>2
    <2> QED
      BY <2>2, <2>4 DEF ErasedStays, Variants
  <1> QED
    BY <1>1, <1>2, <1>3, <1>4, <1>5, <1>6
-----------------------------------------------------------------------------
(* Connections                                                             *)

LEMMA OnlyNotionKeeps ==
  ASSUME OnlyNotion
  PROVE  /\ ring' = ring /\ stage' = stage /\ tool' = tool /\ revived' = revived
         /\ life' = life /\ blob' = blob
  BY DEF OnlyNotion, media

\* A used state is never issued again; what a request holds stays its user's; a
\* connection changes its key only to the one the API writes with.
LEMMA NotionFrame ==
  ASSUME KeyInv, OnlyNotion,
         conn' \in [Users -> Conn], oauth' \in [States -> OAuth],
         req' \in [Requests -> Req], latest' \in [Users -> States \cup {None}],
         mixed' \subseteq Users,
         \A s \in States : oauth[s].status = "used" => oauth'[s] = oauth[s],
         \A q \in Requests : \/ req'[q] = req[q] \/ req'[q].pc = "idle"
                             \/ /\ req'[q].user \in Users /\ req'[q].token \in States
                                /\ oauth'[req'[q].token] = [user |-> req'[q].user, status |-> "used"],
         \A u \in Users : conn'[u].status = "active" =>
           /\ conn'[u].token # None
           /\ \/ Active(u) /\ conn'[u].key = conn[u].key
              \/ conn'[u].key = WriteKey,
         TokensStayPut'
  PROVE  KeyInv'
  <1> USE DEF KeyInv
  <1>0. /\ ring' = ring /\ stage' = stage /\ tool' = tool /\ revived' = revived
        /\ life' = life /\ blob' = blob
    BY OnlyNotionKeeps
  <1>1. TypeOK'
    BY <1>0 DEF TypeOK
  <1>2. Runbook' /\ ErasedStays' /\ ImagesMoveOn'
    <2>1. HasRow' = HasRow
      BY <1>0 DEF HasRow
    <2> QED
      BY <1>0, <2>1 DEF Runbook, ErasedStays, Erased, ImagesMoveOn, Current
  <1>3. ConnsMoveOn'
    <2>1. stage \in {"rotate", "verify", "drop"} => WriteKey = "new"
      BY DEF Runbook, WriteKey, Servers
    <2>2. WriteKey \in {"old", "new"} /\ None \notin {"old", "new"}
      BY DEF WriteKey, None
    <2>3. tool.pc = "tokens" => stage = "rotate"
      BY DEF Runbook
    <2>4. ASSUME NEW u \in Users, Active(u)'
          PROVE  /\ conn'[u].key # None /\ conn'[u].token # None
                 /\ tool.pc = "tokens" /\ conn'[u].key = "old" => tool.conns[u] # None
                 /\ stage \in {"verify", "drop"} => conn'[u].key = "new"
      BY <2>1, <2>2, <2>3, <2>4 DEF ConnsMoveOn, Active
    <2> QED
      BY <1>0, <2>4 DEF ConnsMoveOn
  <1>4. TokensOwned'
    <2>1. \A u \in Users, s \in States : Used(u, s) => Used(u, s)'
      BY DEF Used
    <2>2. ASSUME NEW u \in Users, tool.conns[u] # None
          PROVE  oauth'[tool.conns[u]] = [user |-> u, status |-> "used"]
      <3>1. tool.conns[u] \in States
        BY <2>2 DEF TypeOK, Tool
      <3>2. oauth[tool.conns[u]] = [user |-> u, status |-> "used"]
        BY <2>2 DEF TokensOwned, Used
      <3> QED
        BY <3>1, <3>2
    <2>3. ASSUME NEW q \in Requests, req'[q].pc # "idle"
          PROVE  /\ req'[q].user \in Users /\ req'[q].token \in States
                 /\ oauth'[req'[q].token] = [user |-> req'[q].user, status |-> "used"]
      <3>1. CASE req'[q] = req[q]
        <4>1. /\ req[q].user \in Users /\ req[q].token \in States
              /\ oauth[req[q].token] = [user |-> req[q].user, status |-> "used"]
          BY <2>3, <3>1 DEF TokensOwned, Used
        <4> QED
          BY <3>1, <4>1
      <3> QED
        BY <2>3, <3>1
    <2> QED
      BY <1>0, <2>2, <2>3 DEF TokensOwned, Used
  <1> QED
    BY <1>1, <1>2, <1>3, <1>4

\* The connection a step writes, and the others left alone.
LEMMA MatchKept ==
  ASSUME TypeOK, TokensStayPut, NEW u \in Users,
         \A s \in States : oauth[s].status = "used" => oauth'[s] = oauth[s],
         \A v \in Users : v # u =>
           conn'[v] = conn[v] /\ latest'[v] = latest[v] /\ (v \in mixed' <=> v \in mixed),
         conn'[u].token # None => oauth'[conn'[u].token] = [user |-> u, status |-> "used"],
         u \in mixed' \/ /\ conn'[u].token = latest'[u]
                         /\ conn'[u].status = "active" =>
                              conn'[u].mapping \in {None, conn'[u].token}
  PROVE  TokensStayPut'
  <1> SUFFICES ASSUME NEW v \in Users
               PROVE  /\ conn'[v].token # None =>
                           oauth'[conn'[v].token] = [user |-> v, status |-> "used"]
                      /\ \/ v \in mixed'
                         \/ /\ conn'[v].token = latest'[v]
                            /\ conn'[v].status = "active" =>
                                 conn'[v].mapping \in {None, conn'[v].token}
    BY DEF TokensStayPut, Active
  <1>1. CASE v = u
    BY <1>1
  <1>2. CASE v # u
    <2>1. conn[v].token # None => conn[v].token \in States
      BY DEF TypeOK, Conn
    <2>2. conn[v].token # None => oauth'[conn[v].token] = [user |-> v, status |-> "used"]
      BY <2>1 DEF TokensStayPut
    <2> QED
      BY <1>2, <2>2 DEF TokensStayPut, Active
  <1> QED
    BY <1>1, <1>2

LEMMA RequestMoves ==
  ASSUME TypeOK, NEW q \in Requests, NEW new \in Req, To(q, new)
  PROVE  /\ req' \in [Requests -> Req] /\ req'[q] = new
         /\ \A p \in Requests : p # q => req'[p] = req[p]
  BY DEF To, TypeOK

LEMMA IdleReqType == IdleReq \in Req /\ IdleReq.pc = "idle"
  BY DEF IdleReq, Req, ReqPC

\* Steps that leave the connections alone.
LEMMA ConnsAlone ==
  ASSUME KeyInv, UNCHANGED <<conn, latest, mixed>>,
         \A s \in States : oauth[s].status = "used" => oauth'[s] = oauth[s]
  PROVE  /\ conn' \in [Users -> Conn] /\ latest' \in [Users -> States \cup {None}]
         /\ mixed' \subseteq Users /\ TokensStayPut'
         /\ \A u \in Users : conn'[u].status = "active" =>
              /\ conn'[u].token # None
              /\ Active(u) /\ conn'[u].key = conn[u].key
  <1>1. \A v \in Users : conn[v].token # None => conn[v].token \in States
    BY DEF KeyInv, TypeOK, Conn
  <1>2. \A v \in Users : conn[v].token # None =>
          oauth'[conn[v].token] = [user |-> v, status |-> "used"]
    BY <1>1 DEF KeyInv, TokensStayPut
  <1>3. TokensStayPut'
    BY <1>2 DEF KeyInv, TokensStayPut, Active
  <1>4. \A u \in Users : conn[u].status = "active" =>
          conn[u].token # None /\ Active(u)
    BY DEF KeyInv, ConnsMoveOn, Active
  <1> QED
    BY <1>3, <1>4 DEF KeyInv, TypeOK

LEMMA StateStep ==
  ASSUME KeyInv, NEW s \in States,
         Expire(s) \/ \E u \in Users : Start(u, s)
  PROVE  KeyInv'
  <1>1. /\ UNCHANGED <<conn, latest, mixed>> /\ req' = req /\ OnlyNotion
    BY DEF Expire, Start
  <1>2. /\ oauth' \in [States -> OAuth]
        /\ \A t \in States : oauth[t].status = "used" => oauth'[t] = oauth[t]
    <2>1. oauth \in [States -> OAuth]
      BY DEF KeyInv, TypeOK
    <2>2. CASE Expire(s)
      <3>1. [oauth[s] EXCEPT !.status = "expired"] \in OAuth
        BY <2>1 DEF OAuth
      <3>2. oauth' = [oauth EXCEPT ![s] = [oauth[s] EXCEPT !.status = "expired"]]
            /\ oauth[s].status = "issued"
        BY <2>2 DEF Expire
      <3> QED
        BY <2>1, <3>1, <3>2
    <2>3. ASSUME NEW u \in Users, Start(u, s)
          PROVE  /\ oauth' \in [States -> OAuth]
                 /\ \A t \in States : oauth[t].status = "used" => oauth'[t] = oauth[t]
      <3>1. [user |-> u, status |-> "issued"] \in OAuth
        BY DEF OAuth
      <3>2. oauth' = [oauth EXCEPT ![s] = [user |-> u, status |-> "issued"]]
            /\ oauth[s].status = None
        BY <2>3 DEF Start
      <3> QED
        BY <2>1, <3>1, <3>2 DEF None
    <2> QED
      BY <2>2, <2>3
  <1>3. req' \in [Requests -> Req]
    BY <1>1 DEF KeyInv, TypeOK
  <1> QED
    BY <1>1, <1>2, <1>3, ConnsAlone, NotionFrame

LEMMA CallbackStep ==
  ASSUME KeyInv, NEW q \in Requests, NEW u \in Users, NEW s \in States,
         Callback(q, u, s)
  PROVE  KeyInv'
  <1> DEFINE new == [IdleReq EXCEPT !.pc = "exchange", !.user = u, !.token = s]
  <1>0. new \in Req /\ new.user = u /\ new.token = s
    BY DEF IdleReq, Req, ReqPC
  <1>1. /\ UNCHANGED <<conn, latest, mixed>> /\ OnlyNotion /\ To(q, new)
        /\ oauth' = [oauth EXCEPT ![s].status = "used"]
        /\ oauth[s] = [user |-> u, status |-> "issued"]
    BY DEF Callback, Claim
  <1> HIDE DEF new
  <1>2. /\ oauth' \in [States -> OAuth] /\ Used(u, s)'
        /\ \A t \in States : oauth[t].status = "used" => oauth'[t] = oauth[t]
    <2>1. oauth \in [States -> OAuth]
      BY DEF KeyInv, TypeOK
    <2>2. oauth' = [oauth EXCEPT ![s] = [user |-> u, status |-> "used"]]
      <3>1. oauth' = [oauth EXCEPT ![s] = [oauth[s] EXCEPT !.status = "used"]]
        BY <1>1
      <3>2. [oauth[s] EXCEPT !.status = "used"] = [user |-> u, status |-> "used"]
        BY <1>1
      <3> QED
        BY <3>1, <3>2
    <2>3. [user |-> u, status |-> "used"] \in OAuth
      BY DEF OAuth
    <2> QED
      BY <1>1, <2>1, <2>2, <2>3 DEF Used
  <1>3. /\ req' \in [Requests -> Req] /\ req'[q] = new
        /\ \A p \in Requests : p # q => req'[p] = req[p]
    BY <1>0, <1>1, RequestMoves DEF KeyInv
  <1> QED
    BY <1>0, <1>1, <1>2, <1>3, ConnsAlone, NotionFrame

LEMMA WaitStep ==
  ASSUME KeyInv, NEW q \in Requests,
         Exchange(q) \/ Validate(q) \/ \E u \in Users : ReadToken(q, u)
  PROVE  KeyInv'
  <1>1. UNCHANGED <<conn, latest, mixed>> /\ OnlyNotion /\ oauth' = oauth
    BY DEF Exchange, Validate, ReadToken
  <1>2. oauth' \in [States -> OAuth] /\ conn \in [Users -> Conn]
    BY <1>1 DEF KeyInv, TypeOK
  <1>3. \E new \in Req :
          /\ To(q, new)
          /\ new.pc # "idle" =>
               new.user \in Users /\ new.token \in States /\ Used(new.user, new.token)
    <2>1. CASE Exchange(q) \/ Validate(q)
      <3>1. /\ req[q].user \in Users /\ req[q].token \in States
            /\ Used(req[q].user, req[q].token) /\ req[q] \in Req
        BY <2>1 DEF Exchange, Validate, At, KeyInv, TypeOK, TokensOwned
      <3>2. \A pc \in ReqPC : /\ [req[q] EXCEPT !.pc = pc] \in Req
                              /\ [req[q] EXCEPT !.pc = pc].user = req[q].user
                              /\ [req[q] EXCEPT !.pc = pc].token = req[q].token
        BY <3>1 DEF Req
      <3>3. \/ To(q, IdleReq) \/ To(q, [req[q] EXCEPT !.pc = "upsert"])
            \/ To(q, [req[q] EXCEPT !.pc = "save"])
        BY <2>1 DEF Exchange, Validate
      <3>4. CASE To(q, IdleReq)
        BY <3>4, IdleReqType
      <3>5. ASSUME NEW pc \in {"upsert", "save"}, To(q, [req[q] EXCEPT !.pc = pc])
            PROVE  \E new \in Req :
                     /\ To(q, new)
                     /\ new.pc # "idle" =>
                          new.user \in Users /\ new.token \in States
                          /\ Used(new.user, new.token)
        BY <3>1, <3>2, <3>5 DEF ReqPC
      <3> QED
        BY <3>3, <3>4, <3>5
    <2>2. ASSUME NEW u \in Users, ReadToken(q, u)
          PROVE  \E new \in Req :
                   /\ To(q, new)
                   /\ new.pc # "idle" =>
                        new.user \in Users /\ new.token \in States
                        /\ Used(new.user, new.token)
      <3> DEFINE new == [IdleReq EXCEPT !.pc = "validate", !.user = u,
                                        !.token = conn[u].token]
      <3>1. To(q, new) /\ Active(u)
        BY <2>2 DEF ReadToken
      <3>2. conn[u].token \in States /\ Used(u, conn[u].token)
        BY <1>2, <3>1 DEF KeyInv, ConnsMoveOn, TokensStayPut, Used, Conn
      <3>3. new \in Req /\ new.user = u /\ new.token = conn[u].token
        BY <3>2 DEF IdleReq, Req, ReqPC
      <3> HIDE DEF new
      <3> QED
        BY <3>1, <3>2, <3>3
    <2> QED
      BY <2>1, <2>2
  <1>4. PICK new \in Req :
          /\ To(q, new)
          /\ new.pc # "idle" =>
               new.user \in Users /\ new.token \in States /\ Used(new.user, new.token)
    BY <1>3
  <1>5. /\ req' \in [Requests -> Req] /\ req'[q] = new
        /\ \A p \in Requests : p # q => req'[p] = req[p]
    BY <1>4, RequestMoves DEF KeyInv
  <1>6. \A p \in Requests : \/ req'[p] = req[p] \/ req'[p].pc = "idle"
                            \/ /\ req'[p].user \in Users /\ req'[p].token \in States
                               /\ oauth'[req'[p].token] = [user |-> req'[p].user,
                                                           status |-> "used"]
    BY <1>1, <1>4, <1>5 DEF Used
  <1>7. \A t \in States : oauth[t].status = "used" => oauth'[t] = oauth[t]
    BY <1>1
  <1> QED
    BY <1>1, <1>2, <1>5, <1>6, <1>7, ConnsAlone, NotionFrame

\* A step that writes one user's connection and ends the request that did.
LEMMA ConnStep ==
  ASSUME KeyInv, OnlyNotion, oauth' = oauth, NEW u \in Users, NEW c \in Conn,
         NEW l \in States \cup {None},
         conn' = [conn EXCEPT ![u] = c], latest' = [latest EXCEPT ![u] = l],
         req' \in [Requests -> Req],
         \A q \in Requests : req'[q] = req[q] \/ req'[q].pc = "idle",
         mixed' \subseteq Users, \A v \in Users : v # u => (v \in mixed' <=> v \in mixed),
         c.token # None => Used(u, c.token),
         u \in mixed' \/ /\ c.token = l
                         /\ c.status = "active" => c.mapping \in {None, c.token},
         c.status = "active" =>
           /\ c.token # None
           /\ (Active(u) /\ c.key = conn[u].key) \/ c.key = WriteKey
  PROVE  KeyInv'
  <1>1. /\ conn \in [Users -> Conn] /\ latest \in [Users -> States \cup {None}]
        /\ oauth' \in [States -> OAuth] /\ TypeOK /\ TokensStayPut
    BY DEF KeyInv, TypeOK
  <1>2. /\ conn' \in [Users -> Conn] /\ latest' \in [Users -> States \cup {None}]
        /\ conn'[u] = c /\ latest'[u] = l
        /\ \A v \in Users : v # u => conn'[v] = conn[v] /\ latest'[v] = latest[v]
    BY <1>1
  <1>3. TokensStayPut'
    <2>1. c.token # None => oauth'[c.token] = [user |-> u, status |-> "used"]
      BY DEF Used
    <2> QED
      BY <1>1, <1>2, <2>1, MatchKept
  <1>4. \A v \in Users : conn'[v].status = "active" =>
          /\ conn'[v].token # None
          /\ \/ Active(v) /\ conn'[v].key = conn[v].key
             \/ conn'[v].key = WriteKey
    <2>1. ASSUME NEW v \in Users, v # u, conn'[v].status = "active"
          PROVE  conn'[v].token # None /\ Active(v) /\ conn'[v].key = conn[v].key
      <3>1. conn'[v] = conn[v]
        BY <1>2, <2>1
      <3> QED
        BY <2>1, <3>1 DEF KeyInv, ConnsMoveOn, Active
    <2> QED
      BY <1>2, <2>1
  <1> QED
    BY <1>1, <1>2, <1>3, <1>4, NotionFrame

\* A connect writes the token of the state the request used.
LEMMA UpsertStep ==
  ASSUME KeyInv, NEW q \in Requests, Upsert(q)
  PROVE  KeyInv'
  <1>1. /\ req[q].user \in Users /\ req[q].token \in States
        /\ Used(req[q].user, req[q].token)
    BY DEF KeyInv, TokensOwned, Upsert, Connects, At
  <1> PICK u \in Users, s \in States : u = req[q].user /\ s = req[q].token
    BY <1>1
  <1> DEFINE c == [status |-> "active", token |-> s, key |-> WriteKey, mapping |-> None]
  <1>2. c \in Conn /\ c.token = s /\ c.key = WriteKey /\ c.mapping = None /\ s # None
    BY KeyRotationOK DEF Conn, WriteKey
  <1>3. /\ conn' = [conn EXCEPT ![u] = c] /\ latest' = [latest EXCEPT ![u] = s]
        /\ mixed' = mixed \ {u} /\ To(q, IdleReq) /\ oauth' = oauth /\ OnlyNotion
    BY DEF Upsert, Connects
  <1> HIDE DEF c
  <1>4. /\ req' \in [Requests -> Req]
        /\ \A p \in Requests : req'[p] = req[p] \/ req'[p].pc = "idle"
    BY <1>3, RequestMoves, IdleReqType DEF KeyInv
  <1>5. mixed' \subseteq Users /\ \A v \in Users : v # u => (v \in mixed' <=> v \in mixed)
    BY <1>3 DEF KeyInv, TypeOK
  <1> QED
    BY <1>1, <1>2, <1>3, <1>4, <1>5, ConnStep

LEMMA DisconnectStep ==
  ASSUME KeyInv, NEW u \in Users, Disconnect(u)
  PROVE  KeyInv'
  <1>1. conn \in [Users -> Conn] /\ req \in [Requests -> Req] /\ mixed \subseteq Users
    BY DEF KeyInv, TypeOK
  <1> DEFINE c == [status |-> "revoked", token |-> None, key |-> None,
                   mapping |-> conn[u].mapping]
  <1>2. c \in Conn /\ c.token = None /\ c.status = "revoked"
    BY <1>1 DEF Conn
  <1>3. conn' = [conn EXCEPT ![u] = c]
    <2> DEFINE c1 == [conn[u] EXCEPT !.status = "revoked"]
               f1 == [conn EXCEPT ![u] = c1]
               c2 == [c1 EXCEPT !.token = None]
               f2 == [f1 EXCEPT ![u] = c2]
               c3 == [c2 EXCEPT !.key = None]
    <2>1. conn' = [[[conn EXCEPT ![u].status = "revoked"] EXCEPT ![u].token = None]
                    EXCEPT ![u].key = None]
      BY DEF Disconnect, Revokes
    <2>2. c3 = c /\ c1 \in Conn /\ c2 \in Conn /\ c3 \in Conn
      <3>1. c1 \in Conn /\ c1 = [status |-> "revoked", token |-> conn[u].token,
                                 key |-> conn[u].key, mapping |-> conn[u].mapping]
        BY <1>1 DEF Conn
      <3> HIDE DEF c1
      <3>2. c2 \in Conn /\ c2 = [status |-> "revoked", token |-> None,
                                 key |-> conn[u].key, mapping |-> conn[u].mapping]
        BY <3>1 DEF Conn
      <3> HIDE DEF c2
      <3>3. c3 \in Conn /\ c3 = [status |-> "revoked", token |-> None,
                                 key |-> None, mapping |-> conn[u].mapping]
        BY <3>2 DEF Conn
      <3> QED
        BY <3>1, <3>2, <3>3
    <2>3. f1 \in [Users -> Conn] /\ f1[u] = c1 /\ f2 \in [Users -> Conn] /\ f2[u] = c2
      BY <1>1, <2>2
    <2>4. f2 = [f1 EXCEPT ![u].token = None]
      BY <2>3
    <2>5. [f2 EXCEPT ![u].key = None] = [f2 EXCEPT ![u] = c3]
      BY <2>3
    <2>6. conn' = [f2 EXCEPT ![u] = c3]
      BY <2>1, <2>4, <2>5
    <2> HIDE DEF c1, c2, c3
    <2>7. [f2 EXCEPT ![u] = c3] = [conn EXCEPT ![u] = c3]
      BY <1>1, <2>2
    <2> QED
      BY <2>2, <2>6, <2>7
  <1>4. /\ latest' = [latest EXCEPT ![u] = None] /\ mixed' = mixed \ {u}
        /\ oauth' = oauth /\ req' = req /\ OnlyNotion
    BY DEF Disconnect, Revokes
  <1> HIDE DEF c
  <1>5. mixed' \subseteq Users /\ \A v \in Users : v # u => (v \in mixed' <=> v \in mixed)
    BY <1>1, <1>4
  <1> QED
    BY <1>1, <1>2, <1>3, <1>4, <1>5, ConnStep

\* A mapping is written into the connection, which keeps its token and key.
LEMMA MappingStep ==
  ASSUME KeyInv, OnlyNotion, UNCHANGED <<oauth, latest>>, NEW u \in Users, Active(u),
         NEW mapping \in States \cup {None}, conn' = [conn EXCEPT ![u].mapping = mapping],
         req' \in [Requests -> Req],
         \A q \in Requests : req'[q] = req[q] \/ req'[q].pc = "idle",
         mixed' = IF mapping \in {None, conn[u].token} THEN mixed ELSE mixed \cup {u}
  PROVE  KeyInv'
  <1>1. /\ conn \in [Users -> Conn] /\ latest \in [Users -> States \cup {None}]
        /\ mixed \subseteq Users
    BY DEF KeyInv, TypeOK
  <1> DEFINE c == [conn[u] EXCEPT !.mapping = mapping]
  <1>2. /\ c \in Conn /\ c.token = conn[u].token /\ c.status = conn[u].status
        /\ c.key = conn[u].key /\ c.mapping = mapping
    BY <1>1 DEF Conn
  <1>3. conn' = [conn EXCEPT ![u] = c]
    OBVIOUS
  <1> HIDE DEF c
  <1>4. latest' = [latest EXCEPT ![u] = latest[u]] /\ latest[u] \in States \cup {None}
    BY <1>1
  <1>5. mixed' \subseteq Users /\ \A v \in Users : v # u => (v \in mixed' <=> v \in mixed)
    BY <1>1
  <1>6. c.token # None => Used(u, c.token)
    BY <1>2 DEF KeyInv, TokensStayPut, Used
  <1>7. u \in mixed' \/ /\ c.token = latest[u]
                        /\ c.status = "active" => c.mapping \in {None, c.token}
    BY <1>1, <1>2 DEF KeyInv, TokensStayPut
  <1>8. c.token # None /\ Active(u) /\ c.key = conn[u].key
    BY <1>2 DEF KeyInv, ConnsMoveOn
  <1> QED
    BY <1>2, <1>3, <1>4, <1>5, <1>6, <1>7, <1>8, ConnStep

LEMMA ClearStep ==
  ASSUME KeyInv, NEW u \in Users, ClearMapping(u)
  PROVE  KeyInv'
  <1>1. req \in [Requests -> Req]
    BY DEF KeyInv, TypeOK
  <1>2. /\ Active(u) /\ conn' = [conn EXCEPT ![u].mapping = None]
        /\ UNCHANGED <<oauth, req, latest, mixed>> /\ OnlyNotion
    BY DEF ClearMapping
  <1> QED
    BY <1>1, <1>2, MappingStep

LEMMA SaveStep ==
  ASSUME KeyInv, NEW q \in Requests, SaveMapping(q)
  PROVE  KeyInv'
  <1>1. req[q].user \in Users /\ req[q].token \in States
    BY DEF KeyInv, TokensOwned, SaveMapping, At
  <1> PICK u \in Users, s \in States : u = req[q].user /\ s = req[q].token
    BY <1>1
  <1>2. /\ conn' = IF Active(u) THEN [conn EXCEPT ![u].mapping = s] ELSE conn
        /\ mixed' = IF ~Active(u) \/ conn[u].token = s THEN mixed ELSE mixed \cup {u}
        /\ To(q, IdleReq) /\ UNCHANGED <<oauth, latest>> /\ OnlyNotion
    BY DEF SaveMapping
  <1>3. /\ req' \in [Requests -> Req]
        /\ \A p \in Requests : req'[p] = req[p] \/ req'[p].pc = "idle"
    BY <1>2, RequestMoves, IdleReqType DEF KeyInv
  <1>4. CASE Active(u)
    <2>1. mixed' = IF s \in {None, conn[u].token} THEN mixed ELSE mixed \cup {u}
      BY <1>2, <1>4, KeyRotationOK
    <2> QED
      BY <1>2, <1>3, <1>4, <2>1, MappingStep
  <1>5. CASE ~Active(u)
    <2>1. UNCHANGED <<conn, latest, mixed>> /\ oauth' = oauth
      BY <1>2, <1>5
    <2>2. oauth' \in [States -> OAuth]
      BY <2>1 DEF KeyInv, TypeOK
    <2> QED
      BY <1>2, <1>3, <2>1, <2>2, ConnsAlone, NotionFrame
  <1> QED
    BY <1>4, <1>5
-----------------------------------------------------------------------------
(* The rotation and the verification *)

LEMMA ToolFacts ==
  /\ KeyInv /\ tool.objects # {} => First \in tool.objects /\ First \in Objects
  /\ IdleTool \in Tool /\ IdleTool.pc = "off" /\ IdleTool.objects = {} /\ ~IdleTool.failed
  /\ \A u \in Users : IdleTool.conns[u] = None
  <1>1. tool.objects # {} => First \in tool.objects
    BY DEF First
  <1> QED
    BY <1>1 DEF KeyInv, TypeOK, Tool, IdleTool

LEMMA SameRows ==
  ASSUME life' = life
  PROVE  HasRow' = HasRow
  BY DEF HasRow

\* Steps of a tool that write nothing but what it has in hand, and end its stage.
LEMMA ToolFrame ==
  ASSUME KeyInv, UNCHANGED <<ring, life, blob, conn, oauth, req, latest, revived, mixed>>,
         tool' \in Tool, tool'.pc = "put" => tool'.objects # {},
         stage' = stage \/ \/ stage = "rotate" /\ stage' = "verify"
                           \/ stage = "verify" /\ stage' \in {"rotate", "drop"},
         tool'.pc \in {"get", "put", "tokens"} => stage' = "rotate",
         tool'.pc = "verify" => stage' = "verify",
         \A u \in Users : tool'.conns[u] # None =>
           oauth[tool'.conns[u]] = [user |-> u, status |-> "used"],
         tool'.pc = "verify" /\ ~tool'.failed =>
           \A m \in HasRow : \A o \in ObjectsOf(m) : o \in tool'.objects \/ blob[o] # "old",
         stage' = "drop" => \A m \in HasRow : Current(m),
         tool'.pc = "tokens" =>
           \A u \in Users : Active(u) /\ conn[u].key = "old" => tool'.conns[u] # None,
         stage' \in {"verify", "drop"} => \A u \in Users : Active(u) => conn[u].key = "new"
  PROVE  KeyInv'
  <1> USE DEF KeyInv
  <1>1. TypeOK'
    BY DEF TypeOK
  <1>2. Runbook'
    BY DEF Runbook
  <1>3. ImagesMoveOn'
    BY SameRows DEF ImagesMoveOn, Current
  <1>4. ConnsMoveOn'
    BY DEF ConnsMoveOn, Active
  <1>5. TokensOwned' /\ TokensStayPut'
    BY DEF TokensOwned, TokensStayPut, Used, Active
  <1>6. ErasedStays'
    BY DEF ErasedStays, Erased
  <1> QED
    BY <1>1, <1>2, <1>3, <1>4, <1>5, <1>6

LEMMA SelectMediaStep ==
  ASSUME KeyInv, StartRotation \/ StartVerify
  PROVE  KeyInv'
  <1> DEFINE rows == UNION {ObjectsOf(m) : m \in HasRow}
  <1>1. PICK pc \in {"get", "verify"} :
          /\ tool' = [IdleTool EXCEPT !.pc = pc, !.objects = rows]
          /\ stage = IF pc = "get" THEN "rotate" ELSE "verify"
          /\ UNCHANGED <<ring, stage, faults, history, media, notion>>
    BY DEF StartRotation, StartVerify, SelectMedia
  <1>2. rows \subseteq Objects /\ \A m \in HasRow : \A o \in ObjectsOf(m) : o \in rows
    BY ObjectFacts DEF HasRow
  <1> HIDE DEF rows
  <1>3. /\ tool' \in Tool /\ tool'.pc = pc /\ tool'.objects = rows
        /\ tool'.conns = IdleTool.conns
    BY <1>1, <1>2, ToolFacts DEF Tool
  <1>4. UNCHANGED <<ring, life, blob, conn, oauth, req, latest, revived, mixed>>
    BY <1>1 DEF history, media, notion
  <1>5. stage # "drop" /\ (stage = "verify" => \A u \in Users : Active(u) => conn[u].key = "new")
    BY <1>1 DEF KeyInv, ConnsMoveOn
  <1> QED
    BY <1>1, <1>2, <1>3, <1>4, <1>5, ToolFacts, ToolFrame

\* An object goes through the hands of a tool that does not write it.
LEMMA PassStep ==
  ASSUME KeyInv, ReadObject \/ VerifyObject
  PROVE  KeyInv'
  <1>1. /\ tool.objects # {} /\ tool \in Tool
        /\ UNCHANGED <<ring, stage, life, blob, conn, oauth, req, latest, revived, mixed>>
    BY DEF ReadObject, VerifyObject, history, media, notion, KeyInv, TypeOK
  <1>2. \A u \in Users : tool.conns[u] # None =>
          oauth[tool.conns[u]] = [user |-> u, status |-> "used"]
    BY DEF KeyInv, TokensOwned, Used
  <1>3. CASE ReadObject
    <2>1. tool.pc = "get" /\ stage = "rotate"
      BY <1>3 DEF ReadObject, KeyInv, Runbook
    <2>2. /\ tool' \in Tool /\ tool'.pc \in {"get", "put"} /\ tool'.conns = tool.conns
          /\ tool'.pc = "put" => tool'.objects # {}
      <3>1. CASE tool' = [tool EXCEPT !.pc = "put"]
        BY <1>1, <3>1 DEF Tool
      <3>2. ASSUME NEW bad \in BOOLEAN, Passed(First, bad)
            PROVE  tool' \in Tool /\ tool'.pc = "get" /\ tool'.conns = tool.conns
        BY <1>1, <3>2 DEF Tool, Passed
      <3> QED
        BY <1>3, <3>1, <3>2 DEF ReadObject
    <2> QED
      BY <1>1, <1>2, <2>1, <2>2, ToolFrame
  <1>4. CASE VerifyObject
    <2>1. tool.pc = "verify" /\ stage = "verify"
      BY <1>4 DEF VerifyObject, KeyInv, Runbook
    <2>2. tool' = [tool EXCEPT !.objects = @ \ {First}, !.failed = @ \/ blob[First] # "new"]
      BY <1>4 DEF VerifyObject
    <2>3. /\ tool' \in Tool /\ tool'.pc = "verify" /\ tool'.conns = tool.conns
          /\ tool'.objects = tool.objects \ {First}
          /\ tool'.failed = (tool.failed \/ blob[First] # "new")
      BY <1>1, <2>1, <2>2 DEF Tool
    <2>4. ~tool'.failed => \A m \in HasRow : \A o \in ObjectsOf(m) :
            o \in tool'.objects \/ blob[o] # "old"
      BY <2>1, <2>3 DEF KeyInv, ImagesMoveOn
    <2>5. \A u \in Users : Active(u) => conn[u].key = "new"
      BY <2>1 DEF KeyInv, ConnsMoveOn
    <2> QED
      BY <1>1, <1>2, <2>1, <2>3, <2>4, <2>5, ToolFrame
  <1> QED
    BY <1>3, <1>4

\* An object is put back: nothing is of the old key that was not before, and what
\* had been erased is known to be revived.
LEMMA WriteObjectStep ==
  ASSUME KeyInv, WriteObject
  PROVE  KeyInv'
  <1> USE DEF KeyInv
  <1>1. /\ UNCHANGED <<ring, stage, life, conn, oauth, req, latest, mixed>>
        /\ tool.pc = "put" /\ blob' = [blob EXCEPT ![First] = "new"]
        /\ revived' = IF blob[First] = None THEN revived \cup {First} ELSE revived
    BY DEF WriteObject, notion
  <1>2. stage = "rotate" /\ First \in Objects /\ tool \in Tool
    BY <1>1, ToolFacts DEF Runbook, TypeOK
  <1>3. tool' \in Tool /\ tool'.pc = "get" /\ tool'.conns = tool.conns
    BY <1>2 DEF WriteObject, Passed, Tool
  <1>4. \A o \in Objects : blob'[o] = blob[o] \/ blob'[o] = "new"
    BY <1>1 DEF TypeOK
  <1>5. \A o \in Objects : blob[o] = None \/ o \in revived => blob'[o] = None \/ o \in revived'
    BY <1>1, <1>2 DEF TypeOK
  <1>6. TypeOK'
    BY <1>1, <1>2, <1>3 DEF TypeOK
  <1>7. Runbook' /\ ConnsMoveOn' /\ TokensOwned' /\ TokensStayPut'
    BY <1>1, <1>2, <1>3
       DEF Runbook, ConnsMoveOn, TokensOwned, TokensStayPut, Used, Active
  <1>8. ImagesMoveOn'
    BY <1>1, <1>2, <1>3, <1>4, ObjectFacts DEF ImagesMoveOn, Current
  <1>9. ErasedStays'
    BY <1>1, <1>5, ObjectFacts DEF ErasedStays, Erased
  <1> QED
    BY <1>6, <1>7, <1>8, <1>9

\* The rotation takes in hand exactly the active connections of the old key.
LEMMA SelectTokensStep ==
  ASSUME KeyInv, SelectTokens
  PROVE  KeyInv'
  <1> DEFINE taken == [u \in Users |-> IF Active(u) /\ conn[u].key = "old"
                                       THEN conn[u].token ELSE None]
  <1>1. /\ tool' = [tool EXCEPT !.pc = "tokens", !.conns = taken]
        /\ UNCHANGED <<ring, stage, life, blob, conn, oauth, req, latest, revived, mixed>>
    BY DEF SelectTokens, history, media, notion
  <1>2. tool \in Tool /\ stage = "rotate" /\ conn \in [Users -> Conn]
    BY DEF KeyInv, TypeOK, Runbook, SelectTokens
  <1>3. taken \in [Users -> States \cup {None}]
    BY <1>2 DEF Conn
  <1>4. \A u \in Users : Active(u) /\ conn[u].key = "old" => taken[u] # None
    BY DEF KeyInv, ConnsMoveOn
  <1>5. \A u \in Users : taken[u] # None =>
          oauth[taken[u]] = [user |-> u, status |-> "used"]
    BY DEF KeyInv, TokensStayPut
  <1> HIDE DEF taken
  <1>6. tool' \in Tool /\ tool'.pc = "tokens" /\ tool'.conns = taken
    BY <1>1, <1>2, <1>3 DEF Tool
  <1> QED
    BY <1>1, <1>2, <1>4, <1>5, <1>6, ToolFrame

\* A token is written back over whatever the connection holds by then.
LEMMA WriteTokenStep ==
  ASSUME KeyInv, NEW u \in Users, WriteToken(u)
  PROVE  KeyInv'
  <1> USE DEF KeyInv
  <1> DEFINE c == [conn[u] EXCEPT !.token = tool.conns[u], !.key = "new"]
  <1>1. /\ UNCHANGED <<ring, stage, life, blob, oauth, req, latest, revived>>
        /\ tool.pc = "tokens" /\ tool.conns[u] # None
        /\ mixed' = IF conn[u].token = tool.conns[u] THEN mixed ELSE mixed \cup {u}
        /\ tool' = [tool EXCEPT !.conns[u] = None]
    BY DEF WriteToken, media
  <1>2. /\ conn \in [Users -> Conn] /\ tool \in Tool /\ stage = "rotate"
        /\ tool.conns[u] \in States /\ Used(u, tool.conns[u])
    BY <1>1 DEF TypeOK, Runbook, TokensOwned, Tool
  <1>3. /\ c \in Conn /\ c.token = tool.conns[u] /\ c.key = "new"
        /\ c.status = conn[u].status /\ c.mapping = conn[u].mapping
    BY <1>2 DEF Conn
  <1>4. /\ conn' \in [Users -> Conn] /\ conn'[u] = c
        /\ \A v \in Users : v # u => conn'[v] = conn[v]
    <2> DEFINE c1 == [conn[u] EXCEPT !.token = tool.conns[u]]
    <2>1. conn' = [[conn EXCEPT ![u].token = tool.conns[u]] EXCEPT ![u].key = "new"]
      BY DEF WriteToken
    <2>2. conn' = [[conn EXCEPT ![u] = c1] EXCEPT ![u] = [c1 EXCEPT !.key = "new"]]
      BY <1>2, <2>1
    <2>3. [c1 EXCEPT !.key = "new"] = c
      OBVIOUS
    <2> HIDE DEF c1, c
    <2> QED
      BY <1>2, <1>3, <2>2, <2>3
  <1> HIDE DEF c
  <1>5. /\ tool' \in Tool /\ tool'.pc = "tokens" /\ tool'.conns[u] = None
        /\ \A v \in Users : v # u => tool'.conns[v] = tool.conns[v]
    <2> PICK f \in [Users -> States \cup {None}] : f = [tool.conns EXCEPT ![u] = None]
      BY <1>2 DEF Tool
    <2>1. tool' = [tool EXCEPT !.conns = f]
      BY <1>1
    <2>2. tool' \in Tool /\ tool'.pc = "tokens" /\ tool'.conns = f
      BY <1>1, <1>2, <2>1 DEF Tool
    <2> QED
      BY <1>2, <2>2 DEF Tool
  <1>6. TypeOK'
    BY <1>1, <1>4, <1>5 DEF TypeOK
  <1>7. Runbook' /\ ErasedStays'
    BY <1>1, <1>2, <1>5 DEF Runbook, ErasedStays, Erased
  <1>8. ImagesMoveOn'
    BY <1>1, <1>2, <1>5, SameRows DEF ImagesMoveOn, Current
  <1>9. ConnsMoveOn'
    BY <1>1, <1>2, <1>3, <1>4, <1>5 DEF ConnsMoveOn, Active, None
  <1>10. TokensOwned'
    BY <1>1, <1>5 DEF TokensOwned, Used
  <1>11. TokensStayPut'
    <2>1. oauth' = oauth /\ latest' = latest /\ \A v \in Users : v # u => (v \in mixed' <=> v \in mixed)
      BY <1>1
    <2>2. c.token # None => oauth'[c.token] = [user |-> u, status |-> "used"]
      BY <1>1, <1>2, <1>3 DEF Used
    <2>3. u \in mixed' \/ /\ c.token = latest[u]
                          /\ c.status = "active" => c.mapping \in {None, c.token}
      BY <1>1, <1>3 DEF TokensStayPut, Active
    <2> QED
      BY <1>4, <2>1, <2>2, <2>3, MatchKept
  <1> QED
    BY <1>6, <1>7, <1>8, <1>9, <1>10, <1>11

\* The rotation ends with no active connection on the old key, and the verification,
\* when it goes well, with no object of a row.
LEMMA EndStep ==
  ASSUME KeyInv, EndRotation \/ EndVerify
  PROVE  KeyInv'
  <1>1. /\ UNCHANGED <<ring, life, blob, conn, oauth, req, latest, revived, mixed>>
        /\ tool' = IdleTool
    BY DEF EndRotation, EndVerify, history, media, notion
  <1>2. CASE EndRotation
    <2>1. /\ tool.pc = "tokens" /\ stage = "rotate" /\ stage' \in {"rotate", "verify"}
          /\ \A u \in Users : tool.conns[u] = None
      BY <1>2 DEF EndRotation, KeyInv, Runbook
    <2>2. \A u \in Users : Active(u) => conn[u].key = "new"
      BY <2>1 DEF KeyInv, TypeOK, Conn, ConnsMoveOn
    <2> QED
      BY <1>1, <2>1, <2>2, ToolFacts, ToolFrame
  <1>3. CASE EndVerify
    <2>1. /\ tool.pc = "verify" /\ stage = "verify" /\ tool.objects = {}
          /\ stage' = IF tool.failed THEN "rotate" ELSE "drop"
      BY <1>3 DEF EndVerify, KeyInv, Runbook
    <2>2. \A u \in Users : Active(u) => conn[u].key = "new"
      BY <2>1 DEF KeyInv, ConnsMoveOn
    <2>3. stage' = "drop" => \A m \in HasRow : Current(m)
      BY <2>1 DEF KeyInv, ImagesMoveOn, Current
    <2> QED
      BY <1>1, <2>1, <2>2, <2>3, ToolFacts, ToolFrame
  <1> QED
    BY <1>2, <1>3
-----------------------------------------------------------------------------
(* Deploys and faults *)

\* The API dies: what was captured is an orphan, a deletion stays where it is.
LEMMA StopFacts ==
  ASSUME TypeOK, ApiStops
  PROVE  /\ life' \in [Images -> Life] /\ req' \in [Requests -> Req]
         /\ \A m \in Images : /\ life'[m] = "unborn" => life[m] = "unborn"
                              /\ life'[m] = "gone" <=> life[m] = "gone"
                              /\ life'[m] \notin {"full", "thumb"} \cup Deleting
         /\ HasRow' = HasRow
         /\ \A q \in Requests : req'[q].pc = "idle"
  <1>1. ASSUME NEW m \in Images
        PROVE  /\ life'[m] = CASE life[m] \in {"full", "thumb"} -> "dead"
                               [] life[m] \in Deleting -> "halved"
                               [] OTHER -> life[m]
               /\ life[m] \in Life
    BY DEF ApiStops, TypeOK
  <1>2. ASSUME NEW m \in Images
        PROVE  \/ life[m] \in {"full", "thumb"} /\ life'[m] = "dead"
               \/ life[m] \in Deleting /\ life'[m] = "halved"
               \/ life[m] \notin {"full", "thumb"} \cup Deleting /\ life'[m] = life[m]
    BY <1>1 DEF Deleting
  <1>3. \A m \in Images : /\ life'[m] = "unborn" => life[m] = "unborn"
                          /\ life'[m] = "gone" <=> life[m] = "gone"
                          /\ life'[m] \notin {"full", "thumb"} \cup Deleting
                          /\ life'[m] \in Life
                          /\ life'[m] \in {"row", "halved"} \cup Deleting
                               <=> life[m] \in {"row", "halved"} \cup Deleting
    BY <1>1, <1>2 DEF Deleting, Life
  <1>4. HasRow' = HasRow
    BY <1>3 DEF HasRow
  <1>5. DOMAIN life' = Images /\ life' = [m \in Images |-> life'[m]]
    BY DEF ApiStops
  <1> QED
    BY <1>3, <1>4, <1>5, IdleReqType DEF ApiStops

LEMMA RestartFrame ==
  ASSUME KeyInv, UNCHANGED <<blob, conn, oauth, latest, revived, mixed>>,
         ring' \in [Servers -> {"old", "both", "new"}],
         \/ life' = life /\ req' = req /\ ring'["api"] = ring["api"]
         \/ ApiStops,
         tool' = tool \/ tool' = IdleTool,
         stage' = stage \/ (stage = "deploy" /\ stage' = "rotate"),
         Runbook'
  PROVE  KeyInv'
  <1> USE DEF KeyInv
  <1>0. /\ life' \in [Images -> Life] /\ req' \in [Requests -> Req] /\ HasRow' = HasRow
        /\ \A m \in Images : /\ life'[m] = "unborn" => life[m] = "unborn"
                             /\ life'[m] = "gone" <=> life[m] = "gone"
                             /\ life'[m] \in {"full", "thumb"} \cup Deleting =>
                                  life'[m] = life[m] /\ ring'["api"] = ring["api"]
        /\ \A q \in Requests : req'[q] = req[q] \/ req'[q].pc = "idle"
    BY StopFacts, SameRows DEF TypeOK
  <1>1. TypeOK'
    BY <1>0, ToolFacts DEF TypeOK
  <1>2. ImagesMoveOn'
    BY <1>0, ToolFacts DEF ImagesMoveOn, Current
  <1>3. ConnsMoveOn'
    BY ToolFacts DEF ConnsMoveOn, Active
  <1>4. TokensOwned'
    <2>1. \A u \in Users : tool'.conns[u] # None =>
            oauth[tool'.conns[u]] = [user |-> u, status |-> "used"]
      BY ToolFacts DEF TokensOwned, Used
    <2>2. ASSUME NEW q \in Requests, req'[q].pc # "idle"
          PROVE  /\ req'[q].user \in Users /\ req'[q].token \in States
                 /\ oauth[req'[q].token] = [user |-> req'[q].user, status |-> "used"]
      <3>1. req'[q] = req[q]
        BY <1>0, <2>2
      <3>2. /\ req[q].user \in Users /\ req[q].token \in States
            /\ oauth[req[q].token] = [user |-> req[q].user, status |-> "used"]
        BY <2>2, <3>1 DEF TokensOwned, Used
      <3> QED
        BY <3>1, <3>2
    <2> QED
      BY <2>1, <2>2 DEF TokensOwned, Used
  <1>5. TokensStayPut'
    BY DEF TokensStayPut, Active
  <1>6. ErasedStays'
    <2>1. ASSUME NEW m \in Images
          PROVE  /\ life'[m] = "erase thumb" => life[m] = "erase thumb"
                 /\ life'[m] \in {"forget", "gone"} => life[m] \in {"forget", "gone"}
      BY <1>0 DEF Deleting
    <2> QED
      BY <2>1 DEF ErasedStays, Erased
  <1> QED
    BY <1>1, <1>2, <1>3, <1>4, <1>5, <1>6

LEMMA DeployStep ==
  ASSUME KeyInv, NEW s \in Servers, DeployBoth(s) \/ DropOld(s)
  PROVE  KeyInv'
  <1>1. PICK from \in {"old", "both"}, r \in {"both", "new"}, next \in {"rotate", "drop"} :
          /\ \/ from = "old" /\ r = "both" /\ next = "rotate" /\ stage = "deploy"
             \/ from = "both" /\ r = "new" /\ next = "drop" /\ stage = "drop"
          /\ Deploy(s, from, r, next)
    <2>1. CASE DeployBoth(s)
      BY <2>1 DEF DeployBoth
    <2>2. CASE DropOld(s)
      BY <2>2 DEF DropOld
    <2> QED
      BY <2>1, <2>2
  <1>2. /\ UNCHANGED <<blob, conn, oauth, tool, latest, revived, mixed>>
        /\ ring' = [ring EXCEPT ![s] = r]
        /\ stage' = IF \A t \in Servers : ring'[t] = r THEN next ELSE stage
        /\ IF s = "api" THEN ApiStops ELSE UNCHANGED <<life, req>>
    BY <1>1 DEF Deploy, history
  <1>3. ring \in [Servers -> {"old", "both", "new"}] /\ "api" \in Servers
    BY DEF KeyInv, TypeOK, Servers
  <1>4. ring' \in [Servers -> {"old", "both", "new"}] /\ (s # "api" => ring'["api"] = ring["api"])
    BY <1>2, <1>3
  <1>5. \A t \in Servers : ring'[t] = IF t = s THEN r ELSE ring[t]
    BY <1>2, <1>3
  <1>6. stage' = stage \/ (stage = "deploy" /\ stage' = "rotate")
    BY <1>1, <1>2
  <1>7. tool.pc \notin {"get", "put", "tokens", "verify"}
    BY <1>1 DEF KeyInv, Runbook
  <1>8. Runbook'
    BY <1>1, <1>2, <1>5, <1>7 DEF KeyInv, Runbook
  <1> QED
    BY <1>2, <1>4, <1>6, <1>8, RestartFrame

LEMMA DieStep ==
  ASSUME KeyInv, Die
  PROVE  KeyInv'
  <1>1. UNCHANGED <<ring, stage, conn, oauth, latest, revived, mixed>>
    BY DEF Die, history
  <1>2. CASE ApiStops /\ UNCHANGED <<blob, tool>>
    <2>1. Runbook'
      BY <1>1, <1>2 DEF KeyInv, Runbook
    <2> QED
      BY <1>1, <1>2, <2>1, RestartFrame DEF KeyInv, TypeOK
  <1>3. CASE tool' = IdleTool /\ UNCHANGED <<life, blob, req>>
    <2>1. Runbook'
      BY <1>1, <1>3, ToolFacts DEF KeyInv, Runbook
    <2> QED
      BY <1>1, <1>3, <2>1, RestartFrame DEF KeyInv, TypeOK
  <1>4. ASSUME NEW o \in Objects, blob[o] \in {"old", "new"},
               blob' = [blob EXCEPT ![o] = "bad"], UNCHANGED <<life, req, tool>>
        PROVE  KeyInv'
    <2> USE DEF KeyInv
    <2>1. \A x \in Objects : /\ blob'[x] # "old" \/ blob[x] = "old"
                             /\ blob[x] = None => blob'[x] = None
      BY <1>4 DEF TypeOK, None
    <2>2. TypeOK'
      BY <1>1, <1>4 DEF TypeOK
    <2>3. Runbook' /\ ConnsMoveOn' /\ TokensOwned' /\ TokensStayPut'
      BY <1>1, <1>4 DEF Runbook, ConnsMoveOn, TokensOwned, TokensStayPut, Used, Active
    <2>4. ImagesMoveOn'
      BY <1>1, <1>4, <2>1, ObjectFacts, SameRows DEF ImagesMoveOn, Current, HasRow
    <2>5. ErasedStays'
      BY <1>1, <1>4, <2>1, ObjectFacts DEF ErasedStays, Erased
    <2> QED
      BY <2>2, <2>3, <2>4, <2>5
  <1> QED
    BY <1>2, <1>3, <1>4 DEF Die
-----------------------------------------------------------------------------
(* The theorems *)

LEMMA StepKeyInv == KeyInv /\ [Next]_vars => KeyInv'
  <1> SUFFICES ASSUME KeyInv, [Next]_vars PROVE KeyInv'
    OBVIOUS
  <1>1. CASE UNCHANGED vars
    <2> USE <1>1 DEF vars, KeyInv
    <2>1. TypeOK' /\ Runbook'
      BY DEF TypeOK, Runbook
    <2>2. ImagesMoveOn'
      BY SameRows DEF ImagesMoveOn, Current
    <2>3. ConnsMoveOn'
      BY DEF ConnsMoveOn, Active
    <2>4. TokensOwned' /\ TokensStayPut'
      BY DEF TokensOwned, TokensStayPut, Used, Active
    <2>5. ErasedStays'
      BY DEF ErasedStays, Erased
    <2> QED
      BY <2>1, <2>2, <2>3, <2>4, <2>5
  <1>2. CASE Next
    <2>1. ASSUME NEW m \in Images, Capture(m) \/ StartDelete(m) \/ Erase(m) \/ Forget(m)
          PROVE  KeyInv'
      BY <2>1, MediaStep
    <2>2. ASSUME NEW s \in States, Expire(s) \/ \E u \in Users : Start(u, s)
          PROVE  KeyInv'
      BY <2>2, StateStep
    <2>3. ASSUME NEW u \in Users, Disconnect(u) \/ ClearMapping(u)
          PROVE  KeyInv'
      BY <2>3, DisconnectStep, ClearStep
    <2>4. ASSUME NEW q \in Requests, RequestStep(q) \/ \E u \in Users : ReadToken(q, u)
          PROVE  KeyInv'
      BY <2>4, WaitStep, UpsertStep, SaveStep DEF RequestStep
    <2>5. ASSUME NEW q \in Requests, NEW u \in Users, NEW s \in States, Callback(q, u, s)
          PROVE  KeyInv'
      BY <2>5, CallbackStep
    <2>6. CASE ToolStep
      BY <2>6, SelectMediaStep, PassStep, WriteObjectStep, SelectTokensStep,
         WriteTokenStep, EndStep DEF ToolStep
    <2>7. ASSUME NEW s \in Servers, DeployBoth(s) \/ DropOld(s)
          PROVE  KeyInv'
      BY <2>7, DeployStep
    <2>8. CASE Die
      BY <2>8, DieStep
    <2> QED
      BY <1>2, <2>1, <2>2, <2>3, <2>4, <2>5, <2>6, <2>7, <2>8 DEF Next
  <1> QED
    BY <1>1, <1>2

\* The invariant holds for every number of users, images, states and requests, and
\* however many processes die and objects are damaged.
THEOREM KeyInvariant == Spec => []KeyInv
  BY InitKeyInv, StepKeyInv, PTL DEF Spec

\* A server reads with the old key or with every key until the operator drops the
\* old one, which he does only when no row and no active connection is of it; what
\* is stored, deleted and connected from then on is of the new key.
LEMMA InvariantUnlocks == KeyInv => NothingLocksOut
  <1> SUFFICES ASSUME KeyInv, NEW server \in Servers, ring[server] # "old"
               PROVE  /\ \A m \in HasRow : \A o \in ObjectsOf(m) :
                           blob[o] \in {None, "bad"} \/ Readable(server, blob[o])
                      /\ \A u \in Users : Active(u) => Readable(server, conn[u].key)
    BY DEF NothingLocksOut
  <1>1. /\ ring[server] \in {"both", "new"}
        /\ \A o \in Objects : blob[o] \in {None, "old", "new", "bad"}
        /\ \A u \in Users : conn[u].key \in {None, "old", "new"}
    BY DEF KeyInv, TypeOK, Conn
  <1>2. \A m \in HasRow : \A o \in ObjectsOf(m) : o \in Objects
    BY ObjectFacts DEF HasRow
  <1>3. \A u \in Users : Active(u) => conn[u].key # None
    BY DEF KeyInv, ConnsMoveOn
  <1>4. CASE ring[server] = "both"
    BY <1>1, <1>2, <1>3, <1>4 DEF Readable, Keys
  <1>5. CASE ring[server] = "new"
    <2>1. stage = "drop"
      BY <1>5 DEF KeyInv, Runbook, TypeOK
    <2>2. /\ \A m \in HasRow : \A o \in ObjectsOf(m) : blob[o] # "old"
          /\ \A u \in Users : Active(u) => conn[u].key = "new"
      BY <2>1 DEF KeyInv, ImagesMoveOn, ConnsMoveOn, Current
    <2> QED
      BY <1>1, <1>2, <1>5, <2>2 DEF Readable, Keys
  <1> QED
    BY <1>1, <1>4, <1>5

\* A server that was deployed with the new key reads every undamaged object of a row
\* and the token of every active connection, at every point of the rotation and
\* after the old key is gone, whatever is stored, deleted and connected meanwhile
\* (media:rotate-key, media:verify, the ring of the cipher).
THEOREM NeverLockedOut == Spec => []NothingLocksOut
  BY KeyInvariant, InvariantUnlocks, PTL

\* A state connects the account that minted it and no other, and a connection holds
\* the token of its user's latest connect and a mapping validated with it, but for
\* the writes of a rotation or of a request that had read another connection
\* (oauth/callback, disconnect, the destination routes, rotateConnectionTokens).
THEOREM TokensStay == Spec => []TokensStayPut
  <1>1. KeyInv => TokensStayPut
    BY DEF KeyInv
  <1> QED
    BY <1>1, KeyInvariant, PTL

\* A deletion that completed leaves no object behind, but one the rotation had read
\* before and put back (deleteForMoments, rotateMediaKeys).
THEOREM DeletedStays == Spec => []DeletedStaysDeleted
  <1>1. KeyInv => DeletedStaysDeleted
    BY ObjectFacts DEF KeyInv, ErasedStays, Erased, DeletedStaysDeleted
  <1> QED
    BY <1>1, KeyInvariant, PTL
-----------------------------------------------------------------------------
(* The validation gate *)

-----------------------------------------------------------------------------
(* The synthetic accounts *)

Token == {"web", "device"}
Cred == Token \cup {"account"}
HttpCall == {"signup", "login", "claim", "delete", "logout"}
Server == [account : {"none", "live", "gone"}, sess : SUBSET Cred, late : SUBSET HttpCall]
Making == {"off", "signup", "login", "pair", "walk"}
ClientPC == Making \cup {"held", "recover", "delete", "logout", "end", "killed"} \cup Cred
ClientState == {"not_started", "account_state_unknown", "account_created", "authenticated",
                "deletion_attempted", "cleaned", "cleanup_failed"}
Client == [pc : ClientPC, state : ClientState, tokens : SUBSET Token, supplied : BOOLEAN,
           tries : Int, dead : SUBSET Cred, broken : BOOLEAN,
           clean : {"none", "passed", "failed"}]

\* The operator's account is used with its token only.
Borrowed(srv, cl) ==
  cl.supplied =>
    /\ srv.late \subseteq {"logout"} /\ srv.sess \subseteq {"web"}
    /\ cl.pc \in {"off", "signup", "held", "logout", "web", "end", "killed"}
    /\ cl.state = "cleaned" => srv.sess = {}

\* The gate's own account is not there before the first call, and is not there
\* any more when it counts as cleaned.
Made(srv, cl) ==
  ~cl.supplied =>
    /\ cl.pc # "logout"
    /\ cl.state = "not_started" => srv.account = "none" /\ srv.late = {} /\ srv.sess = {}
    /\ cl.pc \in Cred => srv.account # "none"
    /\ "account" \in cl.dead => srv.account = "gone"
    /\ cl.state = "cleaned" => srv.account = "gone"

Lifetime(cl) ==
  /\ cl.state = "not_started" => cl.pc \in {"off", "signup", "end", "killed"}
  /\ cl.pc = "off" => cl.state = "not_started"
  /\ cl.clean = "passed" => cl.pc = "end" /\ cl.state \in {"cleaned", "not_started"}
  /\ cl.pc = "end" => cl.clean # "none"
  /\ cl.state \in {"cleaned", "cleanup_failed"} => cl.pc = "end"

AccountInv(srv, cl) ==
  /\ srv \in Server /\ cl \in Client
  /\ Borrowed(srv, cl) /\ Made(srv, cl) /\ Lifetime(cl)

\* A smoke that is not broken has both its tokens, and a token it has seen
\* rejected stays so, unless the probe of the account makes a new session.
SmokeInv ==
  /\ sclient.pc \in Making \cup {"held", "recover", "delete"} => sclient.dead = {}
  /\ sclient.pc = "pair" => sclient.tokens = {"web"}
  /\ sclient.pc = "end" => sclient.state # "not_started"
  /\ ~sclient.broken =>
       /\ sserver.late \subseteq {"delete"} /\ sclient.pc # "recover"
       /\ sclient.pc \in {"walk", "held", "delete"} \cup Cred => sclient.tokens = Token
       /\ sclient.state # "cleanup_failed" => sclient.dead \cap sserver.sess \cap Token = {}
       /\ sclient.state = "cleaned" => Token \subseteq sclient.dead

AccountsOK ==
  /\ AccountInv(gserver, gclient) /\ AccountInv(sserver, sclient) /\ SmokeInv
  /\ gclient.supplied = env.supplied /\ ~sclient.supplied
-----------------------------------------------------------------------------
Status == {"passed", "failed", "blocked", "degraded", "skipped"}
Result == [status : Status, cause : Nat]
Phase == {"fetch", "checks", "evidence", "exit", "remote", "exited"}
ExitCode == {0, 1, 2, 99}
Written == {{}, {"report.json"}, {"report.json", "report.md"}, Reports}

Typed ==
  /\ env \in Envs /\ phase \in Phase
  /\ results \in Seq(Result) /\ Len(results) \leq Len(checks)
  /\ cascade \in 0..Len(results) /\ effects \subseteq Changes
  /\ bucket \in Written \cup {Reports \cup {"meta.json"}}
  /\ exit \in ExitCode /\ remote \in [ws : BOOLEAN, code : ExitCode]

Smokes == {"smoke", "post_restore_smoke"}

\* What a check that passed vouches for.
Sound(id) ==
  /\ id = "config_safety" => ~env.unsafe
  /\ id \in {"predeploy_prerequisites", "recovery_prerequisites"} => ~env.missing
  /\ id = "s3_recovery_prerequisites" => ~env.aliased
  /\ id = "scratch_guard" => env.scratch = "safe"
  /\ id = "backup_verify" => env.sealed
  /\ id = "synthetic_session_bootstrap" => gclient.state # "not_started"
  /\ id = "synthetic_session_cleanup" => gclient.clean = "passed"
  /\ id \in Smokes => sclient.pc = "end" /\ SmokeOk

\* Until something that is required fails, nothing is skipped.
Unbroken ==
  cascade = 0 =>
    \A i \in 1..Len(results) :
      checks[i].required => results[i].status \notin {"failed", "blocked"}

Truthful ==
  env.mode # "injected" =>
    \A i \in 1..Len(results) :
      /\ results[i].status = "skipped" => cascade # 0 /\ checks[i].cascades
      /\ results[i].status \in {"passed", "degraded"} => Sound(checks[i].id)
      /\ checks[i].id = "synthetic_session_cleanup" => results[i].status \in {"passed", "failed"}

Walked ==
  sclient.pc # "off" =>
    env.mode # "injected" /\ \E i \in 1..Len(checks) : checks[i].id \in Smokes

RunInv == Unbroken /\ Truthful /\ Walked

\* What exit code 0 stands for.
RunPassed ==
  /\ Len(results) = Len(checks)
  /\ \/ \A i \in 1..Len(checks) :
          checks[i].required => results[i].status \in {"passed", "degraded"}
     \/ \E i \in 1..Len(checks) : /\ env.mode = "injected" /\ Is(i, "failed")
                                  /\ checks[i].severity = "P3" /\ checks[i].required
  /\ env.evidence = "required" => "meta.json" \in bucket

ExitInv ==
  /\ phase \in {"evidence", "exit"} => Len(results) = Len(checks)
  /\ phase \in {"fetch", "checks", "evidence"} => bucket \in Written
  /\ exit = 0 => phase \in {"remote", "exited"} /\ RunPassed
  /\ ~env.remote => ~remote.ws /\ phase \notin {"fetch", "remote"}
  /\ env.remote /\ remote.code = 0 => phase = "exited" /\ exit = 0 /\ ~remote.ws

GateInv == Typed /\ AccountsOK /\ RunInv /\ ExitInv /\ ChangesAreSafe
-----------------------------------------------------------------------------
(* What a call does to the deployment *)

Effect(q, srv, s) ==
  /\ s \in Server /\ s.late = srv.late
  /\ q = "signup" => s.account = (IF srv.account = "none" THEN "live" ELSE srv.account)
                     /\ s.sess = srv.sess
  /\ q = "login" => s.account = srv.account /\ s.sess \subseteq srv.sess \cup {"web"}
  /\ q = "claim" => s.account = srv.account /\ s.sess \subseteq srv.sess \cup {"device"}
  /\ q = "logout" => s.account = srv.account /\ s.sess = srv.sess \ {"web"}
  /\ q = "delete" => /\ s.sess \subseteq srv.sess
                     /\ \/ s.account = srv.account
                        \/ srv.account = "live" /\ s.account = "gone"

\* What the server does with a call that has no answer.
Unanswered(q, srv, s) ==
  Effect(q, srv, s) \/ s = srv \/ s = [srv EXCEPT !.late = @ \cup {q}]

LEMMA GateServed ==
  ASSUME gserver \in Server, NEW q \in HttpCall, NEW s \in Gate!Served(q)
  PROVE  Effect(q, gserver, s)
<1>1. CASE ~Gate!Accepts(q)
  <2>1. s = gserver
    BY <1>1 DEF Gate!Served
  <2> QED BY <1>1, <2>1 DEF Gate!Accepts, Effect, Server
<1>2. CASE Gate!Accepts(q) /\ q # "delete"
  <2>1. CASE q = "signup"
    <3>1. s = [gserver EXCEPT !.account = "live"]
      BY <1>2, <2>1 DEF Gate!Served
    <3>2. gserver.account = "none"
      BY <1>2, <2>1 DEF Gate!Accepts
    <3> QED BY <2>1, <3>1, <3>2 DEF Effect, Server
  <2>2. CASE q = "login"
    <3>1. s = [gserver EXCEPT !.sess = @ \cup {"web"}]
      BY <1>2, <2>2 DEF Gate!Served
    <3> QED BY <2>2, <3>1 DEF Effect, Server, Cred, Token
  <2>3. CASE q = "claim"
    <3>1. s = [gserver EXCEPT !.sess = @ \cup {"device"}]
      BY <1>2, <2>3 DEF Gate!Served
    <3> QED BY <2>3, <3>1 DEF Effect, Server, Cred, Token
  <2>4. CASE q = "logout"
    <3>1. s = [gserver EXCEPT !.sess = @ \ {"web"}]
      BY <1>2, <2>4 DEF Gate!Served
    <3> QED BY <2>4, <3>1 DEF Effect, Server
  <2> QED BY <1>2, <2>1, <2>2, <2>3, <2>4 DEF HttpCall
<1>3. CASE Gate!Accepts(q) /\ q = "delete"
  <2>1. PICK left \in GateResidues :
          s = [gserver EXCEPT !.account = IF "account" \in left THEN @ ELSE "gone",
                              !.sess = @ \cap left]
    BY <1>3 DEF Gate!Served
  <2>2. gserver.account = "live"
    BY <1>3 DEF Gate!Accepts
  <2> QED BY <1>3, <2>1, <2>2 DEF Effect, Server
<1> QED BY <1>1, <1>2, <1>3

LEMMA GateAnswered ==
  ASSUME gserver \in Server, NEW q \in HttpCall, NEW a, NEW b, NEW c,
         Gate!Calls(q, a, b, c)
  PROVE  /\ Unanswered(q, gserver, gserver') /\ gclient' \in {a, b, c}
         /\ \/ gclient' = a /\ Gate!Accepts(q) /\ Effect(q, gserver, gserver')
            \/ gclient' = b \/ gclient' = c
BY GateServed DEF Gate!Calls, Unanswered
-----------------------------------------------------------------------------
(* The gate's account *)

\* A lifecycle that has begun stays so, and one that has ended does not move.
Progress(cl, next) ==
  /\ next.supplied = cl.supplied
  /\ cl.state # "not_started" => next.state # "not_started"
  /\ cl.pc = "end" => next = cl

Kept(srv, cl, srvNext, clNext) == AccountInv(srvNext, clNext) /\ Progress(cl, clNext)

GateKept == Kept(gserver, gclient, gserver', gclient')

LEMMA GateMakes ==
  ASSUME AccountInv(gserver, gclient), Gate!Start \/ Gate!Make
  PROVE  GateKept
<1> USE DEF GateKept, Kept, Progress, AccountInv
<1>1. CASE Gate!Start
  <2>1. /\ gclient' = [gclient EXCEPT !.pc = "signup"] /\ gserver' = gserver
        /\ gclient.pc = "off"
    BY <1>1 DEF Gate!Start, Gate!At
  <2> QED BY <2>1 DEF Client, ClientPC, Making, Cred, Token, Borrowed, Made, Lifetime
<1>2. CASE Gate!Adopt
  <2>1. /\ gclient' = [gclient EXCEPT !.pc = "held", !.state = "authenticated",
                                      !.tokens = {"web"}]
        /\ gserver' = gserver /\ gclient.pc = "signup" /\ gclient.supplied
    BY <1>2 DEF Gate!Adopt, Gate!At
  <2> QED BY <2>1 DEF Client, ClientPC, ClientState, Making, Cred, Token, Borrowed, Made, Lifetime
<1>3. CASE Gate!Signup
  <2>1. /\ Unanswered("signup", gserver, gserver')
        /\ gclient.pc = "signup" /\ ~gclient.supplied
        /\ gclient' \in {[gclient EXCEPT !.pc = "login", !.state = "account_created"],
                         [Gate!Broken EXCEPT !.state = "account_state_unknown"]}
    BY <1>3, GateServed DEF Gate!Signup, Gate!Calls, Gate!At, Unanswered, HttpCall, AccountInv
  <2>2. gserver' \in Server /\ (gserver.account = "gone" => gserver'.account = "gone")
    BY <2>1 DEF Unanswered, Effect, Server, HttpCall
  <2>3. /\ gclient' \in Client /\ gclient'.supplied = gclient.supplied
        /\ gclient'.pc \in {"login", "held"} /\ gclient'.dead = gclient.dead
        /\ gclient'.state \in {"account_created", "account_state_unknown"}
        /\ gclient'.clean = gclient.clean
    BY <2>1 DEF Gate!Broken, Client, ClientPC, ClientState, Making
  <2> QED BY <2>1, <2>2, <2>3 DEF Borrowed, Made, Lifetime, Cred, Token
<1>4. CASE Gate!Login
  <2>1. /\ Unanswered("login", gserver, gserver')
        /\ gclient.pc = "login"
        /\ gclient' \in {[gclient EXCEPT !.pc = "held", !.state = "authenticated",
                                         !.tokens = {"web"}],
                         Gate!Broken}
    BY <1>4, GateServed DEF Gate!Login, Gate!Calls, Gate!At, Unanswered, HttpCall
  <2>2. gserver' \in Server /\ gserver'.account = gserver.account
    BY <2>1 DEF Unanswered, Effect, Server, HttpCall
  <2>3. /\ gclient' \in Client /\ gclient'.supplied = gclient.supplied
        /\ gclient'.pc = "held" /\ gclient'.dead = gclient.dead
        /\ gclient'.state \in {gclient.state, "authenticated"}
        /\ gclient'.clean = gclient.clean
    <3>1. CASE gclient' = Gate!Broken
      BY <3>1, <2>1 DEF Gate!Broken, Client, ClientPC
    <3>2. CASE gclient' # Gate!Broken
      <4>1. gclient' = [gclient EXCEPT !.pc = "held", !.state = "authenticated",
                                       !.tokens = {"web"}]
        BY <3>2, <2>1
      <4> QED BY <4>1 DEF Client, ClientPC, ClientState, Token
    <3> QED BY <3>1, <3>2
  <2>4. ~gclient'.supplied /\ gclient.state \notin {"not_started", "cleaned", "cleanup_failed"}
        /\ gclient'.clean # "passed" /\ gclient.pc # "end"
    BY <2>1, <2>3 DEF Borrowed, Lifetime
  <2>5. Borrowed(gserver', gclient')
    BY <2>4 DEF Borrowed
  <2>6. Made(gserver', gclient')
    BY <2>2, <2>3, <2>4 DEF Made, Cred, Token
  <2>7. Lifetime(gclient')
    BY <2>3, <2>4 DEF Lifetime
  <2> QED BY <2>2, <2>3, <2>4, <2>5, <2>6, <2>7
<1>5. CASE Gate!Pair
  <2>1. /\ Unanswered("claim", gserver, gserver')
        /\ gclient.pc = "pair"
        /\ \E pc \in {"walk", "held"} :
             gclient' \in {[gclient EXCEPT !.pc = "walk", !.tokens = @ \cup {"device"}],
                           [Gate!Broken EXCEPT !.pc = pc]}
    BY <1>5, GateServed DEF Gate!Pair, Gate!Calls, Gate!At, Unanswered, HttpCall
  <2>2. gserver' \in Server /\ gserver'.account = gserver.account
    BY <2>1 DEF Unanswered, Effect, Server, HttpCall
  <2>3. /\ gclient' \in Client /\ gclient'.supplied = gclient.supplied
        /\ gclient'.pc \in {"walk", "held"} /\ gclient'.dead = gclient.dead
        /\ gclient'.state = gclient.state /\ gclient'.clean = gclient.clean
    <3>1. PICK pc \in {"walk", "held"} :
            gclient' \in {[gclient EXCEPT !.pc = "walk", !.tokens = @ \cup {"device"}],
                         [Gate!Broken EXCEPT !.pc = pc]}
      BY <2>1
    <3>2. CASE gclient' = [Gate!Broken EXCEPT !.pc = pc]
      BY <3>2 DEF Gate!Broken, Client, ClientPC, Making
    <3>3. CASE gclient' # [Gate!Broken EXCEPT !.pc = pc]
      <4>1. gclient' = [gclient EXCEPT !.pc = "walk", !.tokens = @ \cup {"device"}]
        BY <3>1, <3>3
      <4> QED BY <4>1 DEF Client, ClientPC, Making, Token
    <3> QED BY <3>2, <3>3
  <2>4. ~gclient'.supplied /\ gclient.state \notin {"not_started", "cleaned", "cleanup_failed"}
        /\ gclient'.clean # "passed" /\ gclient.pc # "end"
    BY <2>1, <2>3 DEF Borrowed, Lifetime
  <2>5. Borrowed(gserver', gclient')
    BY <2>4 DEF Borrowed
  <2>6. Made(gserver', gclient')
    BY <2>2, <2>3, <2>4 DEF Made, Cred, Token
  <2>7. Lifetime(gclient')
    BY <2>3, <2>4 DEF Lifetime
  <2> QED BY <2>2, <2>3, <2>4, <2>5, <2>6, <2>7
<1>6. CASE Gate!Walk
  <2>1. /\ gclient.pc = "walk" /\ gserver' = gserver
        /\ gclient' \in {Gate!Broken, [gclient EXCEPT !.pc = "held"]}
    BY <1>6 DEF Gate!Walk, Gate!At
  <2>2. /\ gclient' \in Client /\ gclient'.supplied = gclient.supplied
        /\ gclient'.pc = "held" /\ gclient'.dead = gclient.dead
        /\ gclient'.state = gclient.state /\ gclient'.clean = gclient.clean
    BY <2>1 DEF Gate!Broken, Client, ClientPC
  <2> QED BY <2>1, <2>2 DEF Borrowed, Made, Lifetime, Cred, Token
<1> QED BY <1>1, <1>2, <1>3, <1>4, <1>5, <1>6 DEF Gate!Make

LEMMA GateRetries ==
  ASSUME AccountInv(gserver, gclient), gclient.pc # "end"
  PROVE  /\ Gate!Retry \in Client
         /\ Gate!Retry.pc \in {gclient.pc, "end"} /\ Gate!Retry.supplied = gclient.supplied
         /\ Gate!Retry.dead = gclient.dead /\ Gate!Retry.broken = gclient.broken
         /\ Gate!Retry.pc # gclient.pc =>
              Gate!Retry.state = "cleanup_failed" /\ Gate!Retry.clean = "failed"
         /\ Gate!Retry.pc = gclient.pc =>
              Gate!Retry.state = gclient.state /\ Gate!Retry.clean = gclient.clean
<1>1. CASE gclient.tries = 1
  BY <1>1 DEF AccountInv, Gate!Retry, Gate!Settled, Client, ClientPC, ClientState
<1>2. CASE gclient.tries # 1
  BY <1>2 DEF AccountInv, Gate!Retry, Client
<1> QED BY <1>1, <1>2

LEMMA AttemptsInt == Attempts \in Int
BY GateOK

LEMMA GateCleansUp ==
  ASSUME AccountInv(gserver, gclient), Gate!Cleanup
  PROVE  GateKept
<1> USE DEF GateKept, Kept, Progress, AccountInv
<1>1. gserver' = gserver /\ gclient.pc \in {"off", "held"}
  BY DEF Gate!Cleanup
<1>2. CASE gclient.state = "not_started"
  <2>1. gclient' = [gclient EXCEPT !.pc = "end", !.clean = "passed"]
    BY <1>2 DEF Gate!Cleanup
  <2>2. /\ gclient' \in Client /\ gclient'.supplied = gclient.supplied
        /\ gclient'.pc = "end" /\ gclient'.clean = "passed" /\ gclient'.dead = gclient.dead
        /\ gclient'.state = "not_started"
    BY <1>2, <2>1 DEF Client, ClientPC
  <2> QED BY <1>1, <1>2, <2>2 DEF Borrowed, Made, Lifetime, Cred, Token
<1>3. CASE gclient.state # "not_started" /\ gclient.supplied
  <2>1. gclient' = [gclient EXCEPT !.pc = "logout"]
    BY <1>3 DEF Gate!Cleanup
  <2>2. /\ gclient' \in Client /\ gclient'.supplied = gclient.supplied
        /\ gclient'.pc = "logout" /\ gclient'.clean = gclient.clean
        /\ gclient'.state = gclient.state
    BY <2>1 DEF Client, ClientPC
  <2> QED BY <1>1, <1>3, <2>2 DEF Borrowed, Made, Lifetime, Cred, Token
<1>4. CASE gclient.state # "not_started" /\ ~gclient.supplied
  <2>1. \/ gclient' = [gclient EXCEPT !.pc = "delete", !.state = "deletion_attempted",
                                      !.tries = Attempts]
        \/ gclient' = [gclient EXCEPT !.pc = "recover", !.tries = Attempts]
    BY <1>4 DEF Gate!Cleanup, Gate!Deleting
  <2>2. /\ gclient' \in Client /\ gclient'.supplied = gclient.supplied
        /\ gclient'.pc \in {"delete", "recover"} /\ gclient'.clean = gclient.clean
        /\ gclient'.dead = gclient.dead
        /\ gclient'.state \in {gclient.state, "deletion_attempted"}
    BY <2>1, AttemptsInt DEF Client, ClientPC, ClientState
  <2> QED BY <1>1, <1>4, <2>2 DEF Borrowed, Made, Lifetime, Cred, Token
<1> QED BY <1>2, <1>3, <1>4

LEMMA GateDestroys ==
  ASSUME AccountInv(gserver, gclient), Gate!Destroy
  PROVE  GateKept
<1> USE DEF GateKept, Kept, Progress, AccountInv
<1>1. CASE Gate!Recover
  <2>1. /\ Unanswered("login", gserver, gserver')
        /\ gclient.pc = "recover"
        /\ gclient' \in {[gclient EXCEPT !.tokens = @ \cup {"web"}, !.pc = "delete",
                                         !.state = "deletion_attempted", !.tries = Attempts],
                         Gate!Retry}
    BY <1>1, GateServed DEF Gate!Recover, Gate!Deleting, Gate!Calls, Gate!At, Unanswered, HttpCall
  <2>2. gserver' \in Server /\ gserver'.account = gserver.account
    BY <2>1 DEF Unanswered, Effect, Server, HttpCall
  <2>3. /\ gclient' \in Client /\ gclient'.supplied = gclient.supplied
        /\ gclient'.dead = gclient.dead
        /\ \/ gclient'.pc \in {"recover", "delete"} /\ gclient'.clean = gclient.clean
              /\ gclient'.state \in {gclient.state, "deletion_attempted"}
           \/ gclient'.pc = "end" /\ gclient'.clean = "failed"
              /\ gclient'.state = "cleanup_failed"
    <3>1. CASE gclient' = Gate!Retry
      BY <2>1, <3>1, GateRetries
    <3>2. CASE gclient' = [gclient EXCEPT !.tokens = @ \cup {"web"}, !.pc = "delete",
                                         !.state = "deletion_attempted", !.tries = Attempts]
      BY <3>2, AttemptsInt DEF Client, ClientPC, ClientState, Token
    <3> QED BY <2>1, <3>1, <3>2
  <2> QED BY <2>1, <2>2, <2>3 DEF Borrowed, Made, Lifetime, Cred, Token
<1>2. CASE Gate!Delete
  <2>1. /\ Unanswered("delete", gserver, gserver')
        /\ gclient.pc = "delete"
        /\ \/ gclient' = [gclient EXCEPT !.pc = "account"] /\ gserver.account = "live"
              /\ Effect("delete", gserver, gserver')
           \/ gclient' = Gate!Retry
    BY <1>2, GateServed DEF Gate!Delete, Gate!Deleted, Gate!NextProbe, Gate!ToProbe, Gate!Calls,
          Gate!Accepts, Gate!At, Unanswered, HttpCall
  <2>2. gserver' \in Server /\ (gserver.account # "live" => gserver'.account = gserver.account)
        /\ (gserver.account = "live" => gserver'.account # "none")
    BY <2>1 DEF Unanswered, Effect, Server, HttpCall
  <2>3. /\ gclient' \in Client /\ gclient'.supplied = gclient.supplied
        /\ gclient'.dead = gclient.dead
        /\ \/ gclient'.pc = "account" /\ gclient'.clean = gclient.clean
              /\ gclient'.state = gclient.state /\ gserver.account = "live"
           \/ gclient'.pc = "delete" /\ gclient'.clean = gclient.clean
              /\ gclient'.state = gclient.state
           \/ gclient'.pc = "end" /\ gclient'.clean = "failed"
              /\ gclient'.state = "cleanup_failed"
    BY <2>1, GateRetries DEF Client, ClientPC, Cred
  <2> QED BY <2>1, <2>2, <2>3 DEF Borrowed, Made, Lifetime, Cred, Token
<1>3. CASE Gate!Logout
  <2>1. /\ Unanswered("logout", gserver, gserver')
        /\ gclient.pc = "logout"
        /\ gclient' \in {[gclient EXCEPT !.pc = "web"], Gate!Settled(FALSE)}
    BY <1>3, GateServed DEF Gate!Logout, Gate!Calls, Gate!At, Unanswered, HttpCall
  <2>2. /\ gserver' \in Server /\ gserver'.account = gserver.account
        /\ gserver'.sess \subseteq gserver.sess
        /\ gserver'.late \subseteq gserver.late \cup {"logout"}
    BY <2>1 DEF Unanswered, Effect, Server, HttpCall
  <2>3. /\ gclient' \in Client /\ gclient'.supplied = gclient.supplied
        /\ gclient'.dead = gclient.dead
        /\ \/ gclient'.pc = "web" /\ gclient'.clean = gclient.clean
              /\ gclient'.state = gclient.state
           \/ gclient'.pc = "end" /\ gclient'.clean = "failed"
              /\ gclient'.state = "cleanup_failed"
    BY <2>1 DEF Gate!Settled, Client, ClientPC, ClientState, Cred, Token
  <2> QED BY <2>1, <2>2, <2>3 DEF Borrowed, Made, Lifetime, Cred, Token
<1>4. CASE Gate!TryRevoked
  <2>1. /\ gclient.pc = "web" /\ gclient.supplied /\ gserver' = gserver
        /\ gclient' \in {Gate!Settled("web" \notin gserver.sess), Gate!Settled(FALSE)}
    BY <1>4 DEF Gate!TryRevoked, Gate!Proof, Gate!Alive, Gate!At
  <2>2. /\ gclient' \in Client /\ gclient'.supplied = gclient.supplied /\ gclient'.pc = "end"
        /\ \/ gclient'.clean = "passed" /\ gclient'.state = "cleaned" /\ "web" \notin gserver.sess
           \/ gclient'.clean = "failed" /\ gclient'.state = "cleanup_failed"
    BY <2>1 DEF Gate!Settled, Client, ClientPC, ClientState
  <2> QED BY <2>1, <2>2 DEF Borrowed, Made, Lifetime, Cred, Token
<1>5. ASSUME ~gclient.supplied, NEW x \in Cred, Gate!Probe(x)
      PROVE  GateKept
  <2>1. gclient.pc = x
    BY <1>5 DEF Gate!Probe, Gate!At
  <2>2. /\ gserver' \in Server /\ gserver'.account = gserver.account
        /\ gserver'.late = gserver.late
    <3>1. gserver' \in {gserver, [gserver EXCEPT !.sess = @ \cup {"web"}]}
      BY <1>5 DEF Gate!Probe
    <3> QED BY <3>1 DEF Server, Cred, Token
  <2> DEFINE After(d) == [gclient EXCEPT !.dead = d]
             Then(d) == IF x = "account"
                        THEN [Gate!Settled(Gate!ToProbe \subseteq After(d).dead)
                                EXCEPT !.dead = After(d).dead]
                        ELSE [After(d) EXCEPT !.pc = Gate!NextProbe({"web", x})]
  <2>3. PICK dead \in {gclient.dead, gclient.dead \cup {x}} :
          /\ gclient' = Then(dead)
          /\ dead = gclient.dead \/ ~Gate!Alive(x)
    <3>1. CASE Gate!Alive(x)
      <4>1. gclient' = Then(gclient.dead)
        BY <1>5, <3>1 DEF Gate!Probe, Gate!Proof
      <4> QED BY <4>1
    <3>2. CASE ~Gate!Alive(x)
      <4>1. gclient' = Then(gclient.dead) \/ gclient' = Then(gclient.dead \cup {x})
        BY <1>5, <3>2 DEF Gate!Probe, Gate!Proof
      <4> QED BY <3>2, <4>1
    <3> QED BY <3>1, <3>2
  <2>4. dead \in SUBSET Cred /\ ("account" \in dead => gserver.account = "gone")
    BY <1>5, <2>1, <2>3 DEF Gate!Alive, Made, Client, Server, Cred, Token
  <2>7. After(dead).dead = dead
    BY DEF Client
  <2>5. CASE x = "account"
    <3>1. Gate!ToProbe = {"account"}
      BY DEF Gate!ToProbe
    <3>2. /\ gclient' \in Client /\ gclient'.supplied = gclient.supplied
          /\ gclient'.pc = "end" /\ gclient'.dead = dead
          /\ \/ gclient'.clean = "passed" /\ gclient'.state = "cleaned" /\ "account" \in dead
             \/ gclient'.clean = "failed" /\ gclient'.state = "cleanup_failed"
      BY <2>3, <2>4, <2>5, <2>7, <3>1 DEF Gate!Settled, Client, ClientPC, ClientState
    <3> QED BY <1>5, <2>1, <2>2, <2>4, <2>5, <3>2 DEF Borrowed, Made, Lifetime, Cred, Token
  <2>6. CASE x # "account"
    <3>1. Gate!NextProbe({"web", x}) = "account"
      BY DEF Gate!NextProbe, Gate!ToProbe
    <3>2. /\ gclient' \in Client /\ gclient'.supplied = gclient.supplied
          /\ gclient'.pc = "account" /\ gclient'.dead = dead
          /\ gclient'.clean = gclient.clean /\ gclient'.state = gclient.state
      BY <2>3, <2>4, <2>6, <3>1 DEF Client, ClientPC, Cred
    <3> QED BY <1>5, <2>1, <2>2, <2>4, <2>6, <3>2 DEF Borrowed, Made, Lifetime, Cred, Token
  <2> QED BY <2>5, <2>6
<1> QED BY <1>1, <1>2, <1>3, <1>4, <1>5 DEF Gate!Destroy, Gate!Credential, Cred, Token

LEMMA GateServesLate ==
  ASSUME AccountInv(gserver, gclient), Gate!Late
  PROVE  GateKept
<1>1. PICK q \in HttpCall : Gate!ServeLate(q)
  BY DEF Gate!Late, Gate!Call, HttpCall
<1>2. PICK s \in Gate!Served(q) : gserver' = [s EXCEPT !.late = @ \ {q}]
  BY <1>1 DEF Gate!ServeLate
<1>3. Effect(q, gserver, s) /\ q \in gserver.late /\ gclient' = gclient
  BY <1>1, GateServed DEF Gate!ServeLate, AccountInv
<1>4. /\ gserver' \in Server /\ gserver'.account = s.account /\ gserver'.sess = s.sess
      /\ gserver'.late \subseteq gserver.late
  BY <1>2, <1>3 DEF Effect, Server
<1>5. /\ gserver.account = "gone" => gserver'.account = "gone"
      /\ gserver.account # "none" => gserver'.account # "none"
      /\ q = "logout" => gserver'.sess \subseteq gserver.sess
  BY <1>3, <1>4 DEF Effect, HttpCall
<1> QED BY <1>3, <1>4, <1>5 DEF GateKept, Kept, Progress, AccountInv, Borrowed, Made, Lifetime,
          HttpCall
-----------------------------------------------------------------------------
(* The smoke's account *)

LEMMA SmokeServed ==
  ASSUME sserver \in Server, NEW q \in HttpCall, NEW s \in Smoke!Served(q)
  PROVE  Effect(q, sserver, s)
<1>1. CASE ~Smoke!Accepts(q)
  <2>1. s = sserver
    BY <1>1 DEF Smoke!Served
  <2> QED BY <1>1, <2>1 DEF Smoke!Accepts, Effect, Server
<1>2. CASE Smoke!Accepts(q) /\ q # "delete"
  <2>1. CASE q = "signup"
    <3>1. s = [sserver EXCEPT !.account = "live"]
      BY <1>2, <2>1 DEF Smoke!Served
    <3>2. sserver.account = "none"
      BY <1>2, <2>1 DEF Smoke!Accepts
    <3> QED BY <2>1, <3>1, <3>2 DEF Effect, Server
  <2>2. CASE q = "login"
    <3>1. s = [sserver EXCEPT !.sess = @ \cup {"web"}]
      BY <1>2, <2>2 DEF Smoke!Served
    <3> QED BY <2>2, <3>1 DEF Effect, Server, Cred, Token
  <2>3. CASE q = "claim"
    <3>1. s = [sserver EXCEPT !.sess = @ \cup {"device"}]
      BY <1>2, <2>3 DEF Smoke!Served
    <3> QED BY <2>3, <3>1 DEF Effect, Server, Cred, Token
  <2>4. CASE q = "logout"
    <3>1. s = [sserver EXCEPT !.sess = @ \ {"web"}]
      BY <1>2, <2>4 DEF Smoke!Served
    <3> QED BY <2>4, <3>1 DEF Effect, Server
  <2> QED BY <1>2, <2>1, <2>2, <2>3, <2>4 DEF HttpCall
<1>3. CASE Smoke!Accepts(q) /\ q = "delete"
  <2>1. PICK left \in SmokeResidues :
          s = [sserver EXCEPT !.account = IF "account" \in left THEN @ ELSE "gone",
                              !.sess = @ \cap left]
    BY <1>3 DEF Smoke!Served
  <2>2. sserver.account = "live"
    BY <1>3 DEF Smoke!Accepts
  <2> QED BY <1>3, <2>1, <2>2 DEF Effect, Server
<1> QED BY <1>1, <1>2, <1>3

SmokeOkNow == AccountInv(sserver, sclient) /\ SmokeInv /\ ~sclient.supplied

SmokeKept == Kept(sserver, sclient, sserver', sclient') /\ SmokeInv'

LEMMA SmokeMakes ==
  ASSUME SmokeOkNow, Smoke!Start \/ Smoke!Make
  PROVE  SmokeKept
<1> USE DEF SmokeOkNow, SmokeKept, Kept, Progress, AccountInv
<1>1. CASE Smoke!Start
  <2>1. /\ sclient' = [sclient EXCEPT !.pc = "signup"] /\ sserver' = sserver
        /\ sclient.pc = "off"
    BY <1>1 DEF Smoke!Start, Smoke!At
  <2> QED BY <2>1 DEF Client, ClientPC, Making, Cred, Token, Borrowed, Made, Lifetime, SmokeInv
<1>2. CASE Smoke!Adopt
  BY <1>2 DEF Smoke!Adopt
<1>3. CASE Smoke!Signup
  <2>1. /\ sclient.pc = "signup" /\ Unanswered("signup", sserver, sserver')
        /\ \/ sclient' = [sclient EXCEPT !.pc = "login", !.state = "account_created"]
              /\ Effect("signup", sserver, sserver')
           \/ sclient' = [Smoke!Broken EXCEPT !.state = "account_state_unknown"]
    BY <1>3, SmokeServed DEF Smoke!Signup, Smoke!Calls, Smoke!At, Unanswered, HttpCall
  <2>2. /\ sserver' \in Server /\ (sserver.account = "gone" => sserver'.account = "gone")
        /\ sserver'.sess = sserver.sess
    BY <2>1 DEF Unanswered, Effect, Server, HttpCall
  <2>3. /\ sclient' \in Client /\ sclient'.supplied = sclient.supplied
        /\ sclient'.dead = sclient.dead /\ sclient'.clean = sclient.clean
        /\ \/ sclient'.pc = "login" /\ sclient'.state = "account_created"
              /\ sclient'.broken = sclient.broken /\ sserver'.late = sserver.late
           \/ sclient'.pc = "held" /\ sclient'.state = "account_state_unknown" /\ sclient'.broken
    BY <2>1 DEF Smoke!Broken, Client, ClientPC, ClientState, Making, Effect
  <2> QED BY <2>1, <2>2, <2>3 DEF Borrowed, Made, Lifetime, SmokeInv, Making, Cred, Token
<1>4. CASE Smoke!Login
  <2>1. /\ sclient.pc = "login" /\ Unanswered("login", sserver, sserver')
        /\ \/ sclient' = [sclient EXCEPT !.pc = "pair", !.state = "authenticated",
                                         !.tokens = {"web"}]
              /\ Effect("login", sserver, sserver')
           \/ sclient' = Smoke!Broken
    BY <1>4, SmokeServed DEF Smoke!Login, Smoke!Calls, Smoke!At, Unanswered, HttpCall
  <2>2. sserver' \in Server /\ sserver'.account = sserver.account
    BY <2>1 DEF Unanswered, Effect, Server, HttpCall
  <2>3. /\ sclient' \in Client /\ sclient'.supplied = sclient.supplied
        /\ sclient'.dead = sclient.dead /\ sclient'.clean = sclient.clean
        /\ \/ sclient'.pc = "pair" /\ sclient'.state = "authenticated"
              /\ sclient'.tokens = {"web"}
              /\ sclient'.broken = sclient.broken /\ sserver'.late = sserver.late
           \/ sclient'.pc = "held" /\ sclient'.state = sclient.state /\ sclient'.broken
    <3>1. CASE sclient' = Smoke!Broken
      BY <3>1 DEF Smoke!Broken, Client, ClientPC
    <3>2. CASE /\ sclient' = [sclient EXCEPT !.pc = "pair", !.state = "authenticated",
                                             !.tokens = {"web"}]
               /\ Effect("login", sserver, sserver')
      BY <3>2 DEF Client, ClientPC, ClientState, Making, Token, Effect
    <3> QED BY <2>1, <3>1, <3>2
  <2> QED BY <2>1, <2>2, <2>3 DEF Borrowed, Made, Lifetime, SmokeInv, Making, Cred, Token
<1>5. CASE Smoke!Pair
  <2>1. /\ sclient.pc = "pair" /\ Unanswered("claim", sserver, sserver')
        /\ \/ sclient' = [sclient EXCEPT !.pc = "walk", !.tokens = @ \cup {"device"}]
              /\ Effect("claim", sserver, sserver')
           \/ \E pc \in {"walk", "held"} : sclient' = [Smoke!Broken EXCEPT !.pc = pc]
    BY <1>5, SmokeServed DEF Smoke!Pair, Smoke!Calls, Smoke!At, Unanswered, HttpCall
  <2>2. sserver' \in Server /\ sserver'.account = sserver.account
    BY <2>1 DEF Unanswered, Effect, Server, HttpCall
  <2>3. /\ sclient' \in Client /\ sclient'.supplied = sclient.supplied
        /\ sclient'.dead = sclient.dead /\ sclient'.clean = sclient.clean
        /\ sclient'.state = sclient.state
        /\ \/ sclient'.pc = "walk" /\ sclient'.tokens = sclient.tokens \cup {"device"}
              /\ sclient'.broken = sclient.broken /\ sserver'.late = sserver.late
           \/ sclient'.pc \in {"walk", "held"} /\ sclient'.broken
    <3>1. CASE \E pc \in {"walk", "held"} : sclient' = [Smoke!Broken EXCEPT !.pc = pc]
      BY <3>1 DEF Smoke!Broken, Client, ClientPC, Making
    <3>2. CASE /\ sclient' = [sclient EXCEPT !.pc = "walk", !.tokens = @ \cup {"device"}]
               /\ Effect("claim", sserver, sserver')
      BY <3>2 DEF Client, ClientPC, Making, Token, Effect
    <3> QED BY <2>1, <3>1, <3>2
  <2> QED BY <2>1, <2>2, <2>3 DEF Borrowed, Made, Lifetime, SmokeInv, Making, Cred, Token
<1>6. CASE Smoke!Walk
  <2>1. /\ sclient.pc = "walk" /\ sserver' = sserver
        /\ sclient' \in {Smoke!Broken, [sclient EXCEPT !.pc = "held"]}
    BY <1>6 DEF Smoke!Walk, Smoke!At
  <2>2. /\ sclient' \in Client /\ sclient'.supplied = sclient.supplied
        /\ sclient'.pc = "held" /\ sclient'.dead = sclient.dead
        /\ sclient'.state = sclient.state /\ sclient'.clean = sclient.clean
        /\ sclient'.tokens = sclient.tokens
        /\ sclient'.broken \/ sclient'.broken = sclient.broken
    BY <2>1 DEF Smoke!Broken, Client, ClientPC
  <2> QED BY <2>1, <2>2 DEF Borrowed, Made, Lifetime, SmokeInv, Making, Cred, Token
<1> QED BY <1>1, <1>2, <1>3, <1>4, <1>5, <1>6 DEF Smoke!Make

LEMMA SmokeRetries ==
  ASSUME AccountInv(sserver, sclient), sclient.pc # "end"
  PROVE  /\ Smoke!Retry \in Client
         /\ Smoke!Retry.pc \in {sclient.pc, "end"} /\ Smoke!Retry.supplied = sclient.supplied
         /\ Smoke!Retry.dead = sclient.dead /\ Smoke!Retry.broken = sclient.broken
         /\ Smoke!Retry.pc # sclient.pc =>
              Smoke!Retry.state = "cleanup_failed" /\ Smoke!Retry.clean = "failed"
         /\ Smoke!Retry.pc = sclient.pc =>
              /\ Smoke!Retry.state = sclient.state /\ Smoke!Retry.clean = sclient.clean
              /\ Smoke!Retry.tokens = sclient.tokens
<1>1. CASE sclient.tries = 1
  BY <1>1 DEF AccountInv, Smoke!Retry, Smoke!Settled, Client, ClientPC, ClientState
<1>2. CASE sclient.tries # 1
  BY <1>2 DEF AccountInv, Smoke!Retry, Client
<1> QED BY <1>1, <1>2

LEMMA SmokeCleansUp ==
  ASSUME SmokeOkNow, sclient.pc = "held", Smoke!Cleanup
  PROVE  SmokeKept
<1> USE DEF SmokeOkNow, SmokeKept, Kept, Progress, AccountInv
<1>1. sserver' = sserver /\ sclient.state # "not_started"
  BY DEF Smoke!Cleanup, Lifetime
<1>2. CASE "web" \in sclient.tokens
  <2>1. sclient' = [sclient EXCEPT !.pc = "delete", !.state = "deletion_attempted",
                                   !.tries = Attempts]
    BY <1>1, <1>2 DEF Smoke!Cleanup, Smoke!Deleting
  <2>2. /\ sclient' \in Client /\ sclient'.supplied = sclient.supplied
        /\ sclient'.pc = "delete" /\ sclient'.clean = sclient.clean
        /\ sclient'.dead = sclient.dead /\ sclient'.state = "deletion_attempted"
        /\ sclient'.tokens = sclient.tokens /\ sclient'.broken = sclient.broken
    BY <2>1, AttemptsInt DEF Client, ClientPC, ClientState
  <2> QED BY <1>1, <2>2 DEF Borrowed, Made, Lifetime, SmokeInv, Making, Cred, Token
<1>3. CASE "web" \notin sclient.tokens
  <2>1. sclient' = [sclient EXCEPT !.pc = "recover", !.tries = Attempts]
    BY <1>1, <1>3 DEF Smoke!Cleanup
  <2>2. /\ sclient' \in Client /\ sclient'.supplied = sclient.supplied
        /\ sclient'.pc = "recover" /\ sclient'.clean = sclient.clean
        /\ sclient'.dead = sclient.dead /\ sclient'.state = sclient.state
        /\ sclient'.broken = sclient.broken
    BY <2>1, AttemptsInt DEF Client, ClientPC
  <2>3. sclient.broken
    BY <1>3 DEF SmokeInv, Token
  <2> QED BY <1>1, <2>2, <2>3 DEF Borrowed, Made, Lifetime, SmokeInv, Making, Cred, Token
<1> QED BY <1>2, <1>3

LEMMA SmokeDestroys ==
  ASSUME SmokeOkNow, Smoke!Destroy
  PROVE  SmokeKept
<1> USE DEF SmokeOkNow, SmokeKept, Kept, Progress, AccountInv
<1>1. CASE Smoke!Recover
  <2>1. /\ Unanswered("login", sserver, sserver')
        /\ sclient.pc = "recover"
        /\ sclient' \in {[sclient EXCEPT !.tokens = @ \cup {"web"}, !.pc = "delete",
                                         !.state = "deletion_attempted", !.tries = Attempts],
                         Smoke!Retry}
    BY <1>1, SmokeServed DEF Smoke!Recover, Smoke!Deleting, Smoke!Calls, Smoke!At, Unanswered,
          HttpCall
  <2>2. sserver' \in Server /\ sserver'.account = sserver.account
    BY <2>1 DEF Unanswered, Effect, Server, HttpCall
  <2>3. /\ sclient' \in Client /\ sclient'.supplied = sclient.supplied
        /\ sclient'.dead = sclient.dead /\ sclient'.broken = sclient.broken
        /\ \/ sclient'.pc \in {"recover", "delete"} /\ sclient'.clean = sclient.clean
              /\ sclient'.state \in {sclient.state, "deletion_attempted"}
           \/ sclient'.pc = "end" /\ sclient'.clean = "failed"
              /\ sclient'.state = "cleanup_failed"
    <3>1. CASE sclient' = Smoke!Retry
      BY <2>1, <3>1, SmokeRetries
    <3>2. CASE sclient' = [sclient EXCEPT !.tokens = @ \cup {"web"}, !.pc = "delete",
                                         !.state = "deletion_attempted", !.tries = Attempts]
      BY <3>2, AttemptsInt DEF Client, ClientPC, ClientState, Token
    <3> QED BY <2>1, <3>1, <3>2
  <2>4. sclient.broken
    BY <2>1 DEF SmokeInv
  <2> QED BY <2>1, <2>2, <2>3, <2>4 DEF Borrowed, Made, Lifetime, SmokeInv, Making, Cred, Token
<1>2. CASE Smoke!Delete
  <2>1. /\ Unanswered("delete", sserver, sserver')
        /\ sclient.pc = "delete"
        /\ \/ sclient' = [sclient EXCEPT !.pc = Smoke!NextProbe({})] /\ sserver.account = "live"
              /\ Effect("delete", sserver, sserver')
           \/ sclient' = Smoke!Retry
    BY <1>2, SmokeServed DEF Smoke!Delete, Smoke!Deleted, Smoke!Calls,
          Smoke!Accepts, Smoke!At, Unanswered, HttpCall
  <2>2. /\ sserver' \in Server /\ (sserver.account # "live" => sserver'.account = sserver.account)
        /\ (sserver.account = "live" => sserver'.account # "none")
        /\ sserver'.sess \subseteq sserver.sess
        /\ sserver'.late \subseteq sserver.late \cup {"delete"}
    BY <2>1 DEF Unanswered, Effect, Server, HttpCall
  <2>3. /\ sclient' \in Client /\ sclient'.supplied = sclient.supplied
        /\ sclient'.dead = sclient.dead /\ sclient'.broken = sclient.broken
        /\ \/ sclient'.pc \in Cred /\ sclient'.clean = sclient.clean
              /\ sclient'.state = sclient.state /\ sserver.account = "live"
              /\ sclient'.tokens = sclient.tokens
           \/ sclient'.pc = "delete" /\ sclient'.clean = sclient.clean
              /\ sclient'.state = sclient.state /\ sclient'.tokens = sclient.tokens
           \/ sclient'.pc = "end" /\ sclient'.clean = "failed"
              /\ sclient'.state = "cleanup_failed"
    <3>1. CASE sclient' = Smoke!Retry
      BY <2>1, <3>1, SmokeRetries
    <3>2. CASE sclient' = [sclient EXCEPT !.pc = Smoke!NextProbe({})] /\ sserver.account = "live"
      <4>1. Smoke!NextProbe({}) \in Cred
        BY DEF Smoke!NextProbe, Cred, Token
      <4> QED BY <3>2, <4>1 DEF Client, ClientPC
    <3> QED BY <2>1, <3>1, <3>2
  <2> QED BY <2>1, <2>2, <2>3 DEF Borrowed, Made, Lifetime, SmokeInv, Making, Cred, Token
<1>3. CASE Smoke!Logout
  BY <1>3 DEF Smoke!Logout, Smoke!At, Made
<1>4. CASE Smoke!TryRevoked
  BY <1>4 DEF Smoke!TryRevoked
<1>5. ASSUME NEW x \in Cred, Smoke!Probe(x)
      PROVE  SmokeKept
  <2>1. sclient.pc = x
    BY <1>5 DEF Smoke!Probe, Smoke!At
  <2>2. /\ sserver' \in Server /\ sserver'.account = sserver.account
        /\ sserver'.late = sserver.late
        /\ sserver' # sserver => x = "account" /\ Smoke!Alive(x)
    <3>1. sserver' \in {sserver, [sserver EXCEPT !.sess = @ \cup {"web"}]}
      BY <1>5 DEF Smoke!Probe
    <3> QED BY <1>5, <3>1 DEF Smoke!Probe, Server, Cred, Token
  <2> DEFINE After(d) == [sclient EXCEPT !.dead = d]
             Then(d) == IF x = "account"
                        THEN [Smoke!Settled(Smoke!ToProbe \subseteq After(d).dead)
                                EXCEPT !.dead = After(d).dead]
                        ELSE [After(d) EXCEPT !.pc = Smoke!NextProbe({"web", x})]
  <2>3. PICK dead \in {sclient.dead, sclient.dead \cup {x}} :
          /\ sclient' = Then(dead)
          /\ dead = sclient.dead \/ ~Smoke!Alive(x)
    <3>1. CASE Smoke!Alive(x)
      <4>1. sclient' = Then(sclient.dead)
        BY <1>5, <3>1 DEF Smoke!Probe, Smoke!Proof
      <4> QED BY <4>1
    <3>2. CASE ~Smoke!Alive(x)
      <4>1. sclient' = Then(sclient.dead) \/ sclient' = Then(sclient.dead \cup {x})
        BY <1>5, <3>2 DEF Smoke!Probe, Smoke!Proof
      <4> QED BY <3>2, <4>1
    <3> QED BY <3>1, <3>2
  <2>4. /\ dead \in SUBSET Cred /\ ("account" \in dead => sserver.account = "gone")
        /\ ~sclient.broken => dead \cap sserver.sess \cap Token = {}
    BY <1>5, <2>1, <2>3 DEF Smoke!Alive, Made, Lifetime, SmokeInv, Client, Server, Cred, Token
  <2>7. After(dead).dead = dead
    BY DEF Client
  <2>5. CASE x = "account"
    <3>1. "account" \in Smoke!ToProbe /\ sclient.tokens \subseteq Smoke!ToProbe
      BY DEF Smoke!ToProbe
    <3>2. /\ sclient' \in Client /\ sclient'.supplied = sclient.supplied
          /\ sclient'.pc = "end" /\ sclient'.dead = dead /\ sclient'.broken = sclient.broken
          /\ \/ sclient'.clean = "passed" /\ sclient'.state = "cleaned"
                /\ "account" \in dead /\ sclient.tokens \subseteq dead
             \/ sclient'.clean = "failed" /\ sclient'.state = "cleanup_failed"
      BY <2>3, <2>4, <2>5, <2>7, <3>1 DEF Smoke!Settled, Client, ClientPC, ClientState
    <3>3. sclient'.state = "cleaned" => sserver' = sserver
      BY <2>2, <2>4, <2>5, <3>2 DEF Smoke!Alive
    <3> QED BY <1>5, <2>1, <2>2, <2>4, <2>5, <3>2, <3>3
         DEF Borrowed, Made, Lifetime, SmokeInv, Making, Cred, Token
  <2>6. CASE x # "account"
    <3>1. Smoke!NextProbe({"web", x}) \in Cred
      BY DEF Smoke!NextProbe, Cred, Token
    <3>2. /\ sclient' \in Client /\ sclient'.supplied = sclient.supplied
          /\ sclient'.pc \in Cred /\ sclient'.dead = dead
          /\ sclient'.clean = sclient.clean /\ sclient'.state = sclient.state
          /\ sclient'.broken = sclient.broken /\ sclient'.tokens = sclient.tokens
      BY <2>3, <2>4, <2>6, <3>1 DEF Client, ClientPC
    <3> QED BY <1>5, <2>1, <2>2, <2>4, <2>6, <3>2
         DEF Borrowed, Made, Lifetime, SmokeInv, Making, Cred, Token
  <2> QED BY <2>5, <2>6
<1> QED BY <1>1, <1>2, <1>3, <1>4, <1>5 DEF Smoke!Destroy, Smoke!Credential, Cred, Token

LEMMA SmokeKilled ==
  ASSUME SmokeOkNow, Smoke!Kill
  PROVE  SmokeKept
<1>1. /\ sclient' = [sclient EXCEPT !.pc = "killed"] /\ sserver' = sserver
      /\ sclient.pc \notin {"off", "end"}
  BY DEF Smoke!Kill
<1>2. /\ sclient' \in Client /\ sclient'.supplied = sclient.supplied
      /\ sclient'.pc = "killed" /\ sclient'.dead = sclient.dead
      /\ sclient'.clean = sclient.clean /\ sclient'.state = sclient.state
      /\ sclient'.broken = sclient.broken /\ sclient'.tokens = sclient.tokens
  BY <1>1 DEF SmokeOkNow, AccountInv, Client, ClientPC
<1> QED BY <1>1, <1>2 DEF SmokeOkNow, SmokeKept, Kept, Progress, AccountInv, Borrowed, Made,
          Lifetime, SmokeInv, Making, Cred, Token

LEMMA SmokeServesLate ==
  ASSUME SmokeOkNow, Smoke!Late
  PROVE  SmokeKept
<1> USE DEF SmokeOkNow
<1>1. PICK q \in HttpCall : Smoke!ServeLate(q)
  BY DEF Smoke!Late, Smoke!Call, HttpCall
<1>2. PICK s \in Smoke!Served(q) : sserver' = [s EXCEPT !.late = @ \ {q}]
  BY <1>1 DEF Smoke!ServeLate
<1>3. Effect(q, sserver, s) /\ q \in sserver.late /\ sclient' = sclient
  BY <1>1, SmokeServed DEF Smoke!ServeLate, AccountInv
<1>4. /\ sserver' \in Server /\ sserver'.account = s.account /\ sserver'.sess = s.sess
      /\ sserver'.late \subseteq sserver.late
  BY <1>2, <1>3 DEF Effect, Server
<1>5. /\ sserver.account = "gone" => sserver'.account = "gone"
      /\ sserver.account # "none" => sserver'.account # "none"
      /\ q = "delete" => sserver'.sess \subseteq sserver.sess
  BY <1>3, <1>4 DEF Effect, HttpCall
<1> QED BY <1>3, <1>4, <1>5 DEF SmokeKept, Kept, Progress, AccountInv, Borrowed, Made, Lifetime,
          SmokeInv, HttpCall
-----------------------------------------------------------------------------
(* What was supplied *)

EnvShape(e) ==
  /\ e.mode \in {"pr", "predeploy", "deploy", "postdeploy", "recovery", "injected"}
  /\ e.mode = "injected" => e.list \in Injected
  /\ e.missing \in BOOLEAN /\ e.unsafe \in BOOLEAN /\ e.supplied \in BOOLEAN
  /\ e.s3 \in BOOLEAN /\ e.aliased \in BOOLEAN /\ e.sealed \in BOOLEAN /\ e.remote \in BOOLEAN
  /\ e.scratch \in {"safe", "refused", "malformed"}
  /\ e.evidence \in {"none", "optional", "required"}
  /\ e.mode # "recovery" => ~e.remote /\ e.scratch = "safe" /\ e.sealed /\ ~e.s3
  /\ e.mode = "injected" => ~e.missing
  /\ e.mode # "postdeploy" => ~e.supplied

LEMMA ModesKnown ==
  Modes \subseteq {"pr", "predeploy", "deploy", "postdeploy", "recovery", "injected"}
BY GateOK

LEMMA EnvTyped ==
  ASSUME NEW e \in Envs
  PROVE  EnvShape(e)
<1>1. CASE e \in Supplied
  <2>1. /\ e.mode \in Modes \ {"injected"}
        /\ e.missing \in BOOLEAN /\ e.unsafe \in BOOLEAN /\ e.supplied \in BOOLEAN
        /\ e.s3 \in BOOLEAN /\ e.aliased \in BOOLEAN /\ e.sealed \in BOOLEAN
        /\ e.remote \in BOOLEAN /\ e.scratch \in {"safe", "refused", "malformed"}
        /\ e.evidence \in {"none", "optional", "required"}
    BY <1>1 DEF Supplied
  <2>2. /\ e.supplied => e.mode = "postdeploy"
        /\ e.s3 \/ e.aliased \/ e.scratch # "safe" \/ ~e.sealed \/ e.remote => e.mode = "recovery"
    BY <1>1 DEF Supplied
  <2> QED BY <2>1, <2>2, ModesKnown DEF EnvShape
<1>2. CASE e \in {Plain(list) : list \in Injected}
  <2>1. PICK list \in Injected : e = Plain(list)
    BY <1>2
  <2> QED BY <2>1 DEF Plain, EnvShape
<1> QED BY <1>1, <1>2 DEF Envs
-----------------------------------------------------------------------------
(* The lists of checks *)

\* The checks of config.ts: every check but the feature posture is required and
\* P0 or P1; what changes something takes part in the cascade, the cleanup of the
\* synthetic session does not.
Id ==
  {"pr_prerequisites", "build", "typecheck", "unit", "migrate", "integration", "config_safety",
   "feature_posture", "predeploy_prerequisites", "preflight", "migrations_current",
   "postdeploy_prerequisites", "readyz", "synthetic_session_bootstrap", "ops_status_authed",
   "smoke", "synthetic_session_cleanup", "recovery_prerequisites", "s3_recovery_prerequisites",
   "scratch_guard", "backup_verify", "backup_verify_wrong_key", "media_backup_verify",
   "media_backup_verify_wrong_key", "restore_scratch", "post_restore_migrate",
   "media_restore_s3", "media_verify", "post_restore_smoke"}

BuiltIn ==
  {c \in CheckSpec(Id) : /\ c.required => c.severity \in {"P0", "P1"}
                         /\ c.id # "feature_posture" => c.required
                         /\ c.id \in Changes => c.cascades
                         /\ c.id = "synthetic_session_cleanup" => ~c.cascades}

Holds(s, ids) == \A id \in ids : \E i \in 1..Len(s) : s[i].id = id
Free(s, ids) == \A i \in 1..Len(s) : s[i].id \notin ids
\* Each of the changes comes after all of these checks.
Guarded(s, ids, changes) ==
  \A i \in 1..Len(s) :
    s[i].id \in changes => \A id \in ids : \E j \in 1..i - 1 : s[j].id = id

LEMMA Joined ==
  ASSUME NEW x \in Seq(BuiltIn), NEW y \in Seq(BuiltIn)
  PROVE  /\ x \o y \in Seq(BuiltIn)
         /\ \A a, b : Holds(x, a) /\ Holds(y, b) => Holds(x \o y, a \cup b)
         /\ \A a : Free(x, a) /\ Free(y, a) => Free(x \o y, a)
         /\ \A a, b : Holds(x, a) /\ Guarded(x, a, b) => Guarded(x \o y, a, b)
<1>1. PICK z : z = x \o y
  OBVIOUS
<1>2. /\ z \in Seq(BuiltIn) /\ Len(z) = Len(x) + Len(y)
      /\ Len(x) \in Nat /\ Len(y) \in Nat
      /\ \A i \in 1..Len(z) : z[i] = IF i \leq Len(x) THEN x[i] ELSE y[i - Len(x)]
  BY <1>1, ConcatProperties, LenProperties
<1>3. ASSUME NEW a, NEW b, Holds(x, a), Holds(y, b)
      PROVE  Holds(z, a \cup b)
  <2>1. SUFFICES ASSUME NEW id \in a \cup b
                 PROVE  \E i \in 1..Len(z) : z[i].id = id
    BY DEF Holds
  <2>2. CASE id \in a
    <3>1. PICK i \in 1..Len(x) : x[i].id = id
      BY <1>3, <2>2 DEF Holds
    <3> QED BY <1>2, <3>1
  <2>3. CASE id \in b
    <3>1. PICK i \in 1..Len(y) : y[i].id = id
      BY <1>3, <2>3 DEF Holds
    <3>2. /\ Len(x) + i \in 1..Len(z) /\ z[Len(x) + i] = y[i]
      BY <1>2, <3>1
    <3> QED BY <3>1, <3>2
  <2> QED BY <2>2, <2>3
<1>4. ASSUME NEW a, Free(x, a), Free(y, a)
      PROVE  Free(z, a)
  <2>1. SUFFICES ASSUME NEW i \in 1..Len(z) PROVE z[i].id \notin a
    BY DEF Free
  <2>2. CASE i \leq Len(x)
    <3>1. z[i] = x[i] /\ i \in 1..Len(x)
      BY <1>2, <2>2
    <3> QED BY <1>4, <3>1 DEF Free
  <2>3. CASE i > Len(x)
    <3>1. z[i] = y[i - Len(x)] /\ i - Len(x) \in 1..Len(y)
      BY <1>2, <2>3
    <3> QED BY <1>4, <3>1 DEF Free
  <2> QED BY <1>2, <2>2, <2>3
<1>5. ASSUME NEW a, NEW b, Holds(x, a), Guarded(x, a, b)
      PROVE  Guarded(z, a, b)
  <2>1. SUFFICES ASSUME NEW i \in 1..Len(z), z[i].id \in b, NEW id \in a
                 PROVE  \E j \in 1..i - 1 : z[j].id = id
    BY DEF Guarded
  <2>2. CASE i \leq Len(x)
    <3>1. z[i] = x[i] /\ i \in 1..Len(x)
      BY <1>2, <2>2
    <3>2. PICK j \in 1..i - 1 : x[j].id = id
      BY <1>5, <2>1, <3>1 DEF Guarded
    <3>3. z[j] = x[j]
      BY <1>2, <2>2, <3>2
    <3> QED BY <3>2, <3>3
  <2>3. CASE i > Len(x)
    <3>1. PICK j \in 1..Len(x) : x[j].id = id
      BY <1>5, <2>1 DEF Holds
    <3>2. z[j] = x[j] /\ j \in 1..i - 1
      BY <1>2, <2>3, <3>1
    <3> QED BY <3>1, <3>2
  <2> QED BY <1>2, <2>2, <2>3
<1> QED BY <1>1, <1>2, <1>3, <1>4, <1>5

LEMMA FreeIsGuarded ==
  ASSUME NEW s, NEW a, NEW b, Free(s, b)
  PROVE  Guarded(s, a, b)
BY DEF Free, Guarded

LEMMA CheckFields ==
  ASSUME NEW c \in CheckSpec(Id)
  PROVE  /\ Protected(c) \in CheckSpec(Id) /\ Always(c) \in CheckSpec(Id)
         /\ Protected(c).id = c.id /\ Always(c).id = c.id
         /\ Protected(c).severity = c.severity /\ Always(c).severity = c.severity
         /\ Protected(c).required = c.required /\ Always(c).required = c.required
         /\ Protected(c).cascades = c.cascades /\ ~Always(c).cascades
BY DEF CheckSpec, Protected, Always

LEMMA CheckBuiltIn ==
  ASSUME NEW id \in Id, id # "synthetic_session_cleanup"
  PROVE  /\ P0(id) \in BuiltIn /\ P0(id).id = id
         /\ Protected(P0(id)) \in BuiltIn /\ Protected(P0(id)).id = id
         /\ Protected(P1(id)) \in BuiltIn /\ Protected(P1(id)).id = id
         /\ id \notin Changes =>
              /\ Always(P0(id)) \in BuiltIn /\ Always(P0(id)).id = id
              /\ Always(Protected(P0(id))) \in BuiltIn /\ Always(Protected(P0(id))).id = id
<1>1. /\ P0(id) \in CheckSpec(Id) /\ P0(id).id = id /\ P0(id).severity = "P0"
      /\ P0(id).required /\ P0(id).cascades
  BY DEF P0, CheckSpec
<1>2. /\ P1(id) \in CheckSpec(Id) /\ P1(id).id = id /\ P1(id).severity = "P1"
      /\ P1(id).required /\ P1(id).cascades
  BY <1>1 DEF P1, CheckSpec
<1> QED BY <1>1, <1>2, CheckFields DEF BuiltIn

LEMMA CleanupBuiltIn ==
  LET c == Always(Protected(P1("synthetic_session_cleanup")))
  IN  c \in BuiltIn /\ c.id = "synthetic_session_cleanup"
<1>1. PICK p : p = P0("synthetic_session_cleanup")
  OBVIOUS
<1>2. /\ p \in CheckSpec(Id) /\ p.id = "synthetic_session_cleanup" /\ p.severity = "P0"
      /\ p.required /\ p.cascades
  BY <1>1 DEF P0, CheckSpec, Id
<1>3. PICK q : q = P1("synthetic_session_cleanup")
  OBVIOUS
<1>4. /\ q \in CheckSpec(Id) /\ q.id = "synthetic_session_cleanup" /\ q.severity = "P1"
      /\ q.required
  BY <1>1, <1>2, <1>3 DEF P1, CheckSpec
<1> QED BY <1>3, <1>4, CheckFields DEF BuiltIn, Changes

LEMMA PostureBuiltIn ==
  LET c == Always([P0("feature_posture") EXCEPT !.severity = "P3", !.required = FALSE])
  IN  c \in BuiltIn /\ c.id = "feature_posture"
<1>1. PICK p : p = P0("feature_posture")
  OBVIOUS
<1>2. p \in CheckSpec(Id) /\ p.id = "feature_posture"
  BY <1>1 DEF P0, CheckSpec, Id
<1>3. PICK q : q = [p EXCEPT !.severity = "P3", !.required = FALSE]
  OBVIOUS
<1>4. q \in CheckSpec(Id) /\ q.id = "feature_posture" /\ ~q.required
  BY <1>2, <1>3 DEF CheckSpec
<1> QED BY <1>1, <1>3, <1>4, CheckFields DEF BuiltIn, Changes

Restores == {"restore_scratch", "media_restore_s3"}

LEMMA PrList == prChecks \in Seq(BuiltIn) /\ Free(prChecks, Restores)
<1>1. PICK a, b, c, d, e, f :
        /\ a = P0("pr_prerequisites") /\ b = P0("build") /\ c = P0("typecheck")
        /\ d = P0("unit") /\ e = P0("migrate") /\ f = P0("integration")
  OBVIOUS
<1>2. /\ a \in BuiltIn /\ b \in BuiltIn /\ c \in BuiltIn /\ d \in BuiltIn /\ e \in BuiltIn
      /\ f \in BuiltIn
      /\ a.id = "pr_prerequisites" /\ b.id = "build" /\ c.id = "typecheck" /\ d.id = "unit"
      /\ e.id = "migrate" /\ f.id = "integration"
  BY <1>1, CheckBuiltIn DEF Id
<1>3. prChecks = <<a, b, c, d, e, f>>
  BY <1>1 DEF prChecks
<1> QED BY <1>2, <1>3 DEF Free, Restores

LEMMA PureList ==
  /\ PureChecks \in Seq(BuiltIn) /\ Free(PureChecks, Changes)
  /\ Holds(PureChecks, {"config_safety", "predeploy_prerequisites"})
<1>1. PICK a, b, c : /\ a = Always(Protected(P0("config_safety")))
                     /\ b = Always([P0("feature_posture") EXCEPT !.severity = "P3",
                                                                 !.required = FALSE])
                     /\ c = Always(P0("predeploy_prerequisites"))
  OBVIOUS
<1>2. /\ a \in BuiltIn /\ a.id = "config_safety"
      /\ c \in BuiltIn /\ c.id = "predeploy_prerequisites"
  BY <1>1, CheckBuiltIn DEF Id, Changes
<1>4. b \in BuiltIn /\ b.id = "feature_posture"
  BY <1>1, PostureBuiltIn
<1>5. PureChecks = <<a, b, c>>
  BY <1>1 DEF PureChecks
<1> QED BY <1>2, <1>4, <1>5 DEF Free, Holds, Changes

LEMMA PredeployList == predeployChecks \in Seq(BuiltIn) /\ Free(predeployChecks, Restores)
<1>1. PICK a : a = P0("preflight")
  OBVIOUS
<1>2. a \in BuiltIn /\ a.id = "preflight"
  BY <1>1, CheckBuiltIn DEF Id
<1>3. <<a>> \in Seq(BuiltIn) /\ Free(<<a>>, Restores)
  BY <1>2 DEF Free, Restores
<1>4. Free(PureChecks, Restores)
  BY PureList DEF Free, Changes, Restores
<1> QED BY <1>1, <1>3, <1>4, PureList, Joined DEF predeployChecks

LEMMA DeployList ==
  /\ deployChecks \in Seq(BuiltIn) /\ Free(deployChecks, Restores)
  /\ Guarded(deployChecks, {"config_safety", "predeploy_prerequisites"}, {"migrate"})
<1>1. PICK a, b, c : a = P0("migrate") /\ b = P0("preflight") /\ c = P0("migrations_current")
  OBVIOUS
<1>2. /\ a \in BuiltIn /\ b \in BuiltIn /\ c \in BuiltIn
      /\ a.id = "migrate" /\ b.id = "preflight" /\ c.id = "migrations_current"
  BY <1>1, CheckBuiltIn DEF Id
<1>3. <<a, b, c>> \in Seq(BuiltIn) /\ Free(<<a, b, c>>, Restores)
  BY <1>2 DEF Free, Restores
<1>4. Free(PureChecks, Restores) /\ Free(PureChecks, {"migrate"})
  BY PureList DEF Free, Changes, Restores
<1>5. Guarded(PureChecks, {"config_safety", "predeploy_prerequisites"}, {"migrate"})
  BY <1>4, FreeIsGuarded
<1>6. deployChecks = PureChecks \o <<a, b, c>>
  BY <1>1 DEF deployChecks
<1> QED BY <1>3, <1>4, <1>5, <1>6, PureList, Joined

LEMMA PostdeployList ==
  /\ postdeployChecks \in Seq(BuiltIn) /\ Len(postdeployChecks) = 6
  /\ postdeployChecks[3].id = "synthetic_session_bootstrap"
  /\ postdeployChecks[6].id = "synthetic_session_cleanup"
  /\ Free(postdeployChecks, Restores)
<1>1. PICK a, b, c, d, e, f :
        /\ a = P0("postdeploy_prerequisites") /\ b = P0("readyz")
        /\ c = Protected(P1("synthetic_session_bootstrap"))
        /\ d = Protected(P1("ops_status_authed")) /\ e = P0("smoke")
        /\ f = Always(Protected(P1("synthetic_session_cleanup")))
  OBVIOUS
<1>2. /\ a \in BuiltIn /\ b \in BuiltIn /\ c \in BuiltIn /\ d \in BuiltIn /\ e \in BuiltIn
      /\ a.id = "postdeploy_prerequisites" /\ b.id = "readyz"
      /\ c.id = "synthetic_session_bootstrap" /\ d.id = "ops_status_authed" /\ e.id = "smoke"
  BY <1>1, CheckBuiltIn DEF Id
<1>4. f \in BuiltIn /\ f.id = "synthetic_session_cleanup"
  BY <1>1, CleanupBuiltIn
<1>5. postdeployChecks = <<a, b, c, d, e, f>>
  BY <1>1 DEF postdeployChecks
<1> QED BY <1>2, <1>4, <1>5 DEF Free, Restores

RestoreNeeds ==
  {"recovery_prerequisites", "scratch_guard", "backup_verify"}
  \cup (IF env.s3 THEN {"s3_recovery_prerequisites"} ELSE {})

LEMMA RecoveryList ==
  /\ recoveryChecks \in Seq(BuiltIn) /\ Guarded(recoveryChecks, RestoreNeeds, Restores)
<1> DEFINE s3(cs) == IF env.s3 THEN cs ELSE <<>>
<1>1. PICK a, b, c, d, e, f, g :
        /\ a = <<P0("recovery_prerequisites")>>
        /\ b = s3(<<Protected(P0("s3_recovery_prerequisites"))>>)
        /\ c = <<Protected(P0("scratch_guard")), Protected(P0("backup_verify")),
                 Protected(P0("backup_verify_wrong_key"))>>
        /\ d = s3(<<Protected(P0("media_backup_verify")),
                    Protected(P0("media_backup_verify_wrong_key"))>>)
        /\ e = <<Protected(P0("restore_scratch")), Protected(P1("post_restore_migrate"))>>
        /\ f = s3(<<Protected(P1("media_restore_s3"))>>)
        /\ g = <<Protected(P1("media_verify")), Protected(P1("post_restore_smoke"))>>
  OBVIOUS
<1>2. recoveryChecks = ((((((a \o b) \o c) \o d) \o e) \o f) \o g)
  BY <1>1 DEF recoveryChecks
<1>3. a \in Seq(BuiltIn) /\ Free(a, Restores) /\ Holds(a, {"recovery_prerequisites"})
  <2>1. PICK x : x = P0("recovery_prerequisites")
    OBVIOUS
  <2>2. x \in BuiltIn /\ x.id = "recovery_prerequisites"
    BY <2>1, CheckBuiltIn DEF Id
  <2>3. a = <<x>>
    BY <1>1, <2>1
  <2> QED BY <2>2, <2>3 DEF Free, Holds, Restores
<1>4. /\ b \in Seq(BuiltIn) /\ Free(b, Restores)
      /\ Holds(b, IF env.s3 THEN {"s3_recovery_prerequisites"} ELSE {})
  <2>1. PICK x : x = Protected(P0("s3_recovery_prerequisites"))
    OBVIOUS
  <2>2. x \in BuiltIn /\ x.id = "s3_recovery_prerequisites"
    BY <2>1, CheckBuiltIn DEF Id
  <2>3. b = IF env.s3 THEN <<x>> ELSE <<>>
    BY <1>1, <2>1
  <2> QED BY <2>2, <2>3 DEF Free, Holds, Restores
<1>5. c \in Seq(BuiltIn) /\ Free(c, Restores) /\ Holds(c, {"scratch_guard", "backup_verify"})
  <2>1. PICK x, y, z : /\ x = Protected(P0("scratch_guard"))
                       /\ y = Protected(P0("backup_verify"))
                       /\ z = Protected(P0("backup_verify_wrong_key"))
    OBVIOUS
  <2>2. /\ x \in BuiltIn /\ x.id = "scratch_guard" /\ y \in BuiltIn /\ y.id = "backup_verify"
        /\ z \in BuiltIn /\ z.id = "backup_verify_wrong_key"
    BY <2>1, CheckBuiltIn DEF Id
  <2>3. c = <<x, y, z>>
    BY <1>1, <2>1
  <2> QED BY <2>2, <2>3 DEF Free, Holds, Restores
<1>6. d \in Seq(BuiltIn) /\ e \in Seq(BuiltIn) /\ f \in Seq(BuiltIn) /\ g \in Seq(BuiltIn)
  <2>1. /\ Protected(P0("media_backup_verify")) \in BuiltIn
        /\ Protected(P0("media_backup_verify_wrong_key")) \in BuiltIn
        /\ Protected(P0("restore_scratch")) \in BuiltIn
        /\ Protected(P1("post_restore_migrate")) \in BuiltIn
        /\ Protected(P1("media_restore_s3")) \in BuiltIn
        /\ Protected(P1("media_verify")) \in BuiltIn
        /\ Protected(P1("post_restore_smoke")) \in BuiltIn
    BY CheckBuiltIn DEF Id
  <2>2. \A x, y \in BuiltIn : <<x>> \in Seq(BuiltIn) /\ <<x, y>> \in Seq(BuiltIn)
                              /\ <<>> \in Seq(BuiltIn)
    OBVIOUS
  <2> QED BY <1>1, <2>1, <2>2
<1>7. PICK x : x = a \o b
  OBVIOUS
<1>8. /\ x \in Seq(BuiltIn) /\ Free(x, Restores)
      /\ Holds(x, {"recovery_prerequisites"}
                  \cup (IF env.s3 THEN {"s3_recovery_prerequisites"} ELSE {}))
  BY <1>3, <1>4, <1>7, Joined
<1>9. PICK y : y = x \o c
  OBVIOUS
<1>10. /\ y \in Seq(BuiltIn) /\ Free(y, Restores)
       /\ Holds(y, ({"recovery_prerequisites"}
                    \cup (IF env.s3 THEN {"s3_recovery_prerequisites"} ELSE {}))
                   \cup {"scratch_guard", "backup_verify"})
  BY <1>5, <1>8, <1>9, Joined
<1>11. Holds(y, RestoreNeeds) /\ Guarded(y, RestoreNeeds, Restores)
  BY <1>10, FreeIsGuarded DEF Holds, RestoreNeeds
<1>12. ASSUME NEW s \in Seq(BuiltIn), NEW t \in Seq(BuiltIn),
              Holds(s, RestoreNeeds), Guarded(s, RestoreNeeds, Restores)
       PROVE  /\ s \o t \in Seq(BuiltIn) /\ Holds(s \o t, RestoreNeeds)
              /\ Guarded(s \o t, RestoreNeeds, Restores)
  <2>1. Holds(t, {}) /\ RestoreNeeds \cup {} = RestoreNeeds
    BY DEF Holds
  <2>2. s \o t \in Seq(BuiltIn) /\ Holds(s \o t, RestoreNeeds \cup {})
        /\ Guarded(s \o t, RestoreNeeds, Restores)
    BY <1>12, <2>1, Joined
  <2> QED BY <2>1, <2>2
<1>13. PICK p, q, r : p = y \o d /\ q = p \o e /\ r = q \o f
  OBVIOUS
<1>14. /\ p \in Seq(BuiltIn) /\ Holds(p, RestoreNeeds) /\ Guarded(p, RestoreNeeds, Restores)
  BY <1>6, <1>10, <1>11, <1>12, <1>13
<1>15. /\ q \in Seq(BuiltIn) /\ Holds(q, RestoreNeeds) /\ Guarded(q, RestoreNeeds, Restores)
  BY <1>6, <1>12, <1>13, <1>14
<1>16. /\ r \in Seq(BuiltIn) /\ Holds(r, RestoreNeeds) /\ Guarded(r, RestoreNeeds, Restores)
  BY <1>6, <1>12, <1>13, <1>15
<1>17. r \o g \in Seq(BuiltIn) /\ Guarded(r \o g, RestoreNeeds, Restores)
  BY <1>6, <1>12, <1>16
<1> QED BY <1>2, <1>7, <1>9, <1>13, <1>17

LEMMA InjectedList ==
  ASSUME NEW list \in Injected
  PROVE  list \in Seq(CheckSpec(Names)) /\ Names \cap Lifecycle = {}
BY GateOK

\* What the runner needs to know of the list it goes through.
LEMMA ListShape ==
  ASSUME env \in Envs
  PROVE  /\ env.mode # "injected" => checks \in Seq(BuiltIn)
         /\ env.mode = "injected" => checks \in Seq(CheckSpec(Names))
         /\ Len(checks) \in Nat
         /\ env.mode = "deploy" =>
              Guarded(checks, {"config_safety", "predeploy_prerequisites"}, {"migrate"})
         /\ env.mode = "postdeploy" =>
              /\ Len(checks) = 6 /\ checks[3].id = "synthetic_session_bootstrap"
              /\ checks[6].id = "synthetic_session_cleanup"
         /\ env.mode = "recovery" => Guarded(checks, RestoreNeeds, Restores)
         /\ env.mode \notin {"recovery", "injected"} => Free(checks, Restores)
<1> EnvShape(env)
  BY EnvTyped
<1>1. CASE env.mode = "pr"
  <2>1. checks = prChecks
    BY <1>1 DEF checks
  <2> QED BY <1>1, <2>1, PrList, LenProperties
<1>2. CASE env.mode = "predeploy"
  <2>1. checks = predeployChecks
    BY <1>2 DEF checks
  <2> QED BY <1>2, <2>1, PredeployList, LenProperties
<1>3. CASE env.mode = "deploy"
  <2>1. checks = deployChecks
    BY <1>3 DEF checks
  <2> QED BY <1>3, <2>1, DeployList, LenProperties
<1>4. CASE env.mode = "postdeploy"
  <2>1. checks = postdeployChecks
    BY <1>4 DEF checks
  <2> QED BY <1>4, <2>1, PostdeployList, LenProperties
<1>5. CASE env.mode = "recovery"
  <2>1. checks = recoveryChecks
    BY <1>5 DEF checks
  <2> QED BY <1>5, <2>1, RecoveryList, LenProperties
<1>6. CASE env.mode = "injected"
  <2>1. checks = env.list /\ env.list \in Injected
    BY <1>6 DEF checks, EnvShape
  <2> QED BY <1>6, <2>1, InjectedList, LenProperties
<1> QED BY <1>1, <1>2, <1>3, <1>4, <1>5, <1>6 DEF EnvShape
-----------------------------------------------------------------------------
(* The runner *)

LEMMA ListStays ==
  ASSUME env' = env
  PROVE  checks' = checks
BY DEF checks, recoveryChecks, prChecks, predeployChecks, deployChecks, postdeployChecks, PureChecks

LEMMA SoundStays ==
  ASSUME env' = env, AccountInv(gserver, gclient), Progress(gclient, gclient'),
         Progress(sclient, sclient'), NEW id, Sound(id)
  PROVE  Sound(id)'
BY DEF Sound, SmokeOk, Progress, AccountInv, Lifetime

\* What a result that is recorded may say.
Honest(status, id) ==
  env.mode # "injected" =>
    /\ status = "skipped" => cascade # 0 /\ spec.cascades
    /\ status \in {"passed", "degraded"} => Sound(id)'
    /\ spec.id = "synthetic_session_cleanup" => status \in {"passed", "failed"}

LEMMA Recorded ==
  ASSUME Typed, Unbroken, Truthful, env' = env, pos \leq Len(checks),
         AccountInv(gserver, gclient), Progress(gclient, gclient'), Progress(sclient, sclient'),
         NEW status \in Status, NEW cause \in Nat, Record(status, cause),
         NEW id, id = spec.id, Honest(status, id)
  PROVE  /\ results' \in Seq(Result) /\ Len(results') \leq Len(checks)
         /\ cascade' \in 0..Len(results')
         /\ Unbroken' /\ Truthful'
<1> USE DEF Typed
<1>1. PICK r : r = [status |-> status, cause |-> cause]
  OBVIOUS
<1>2. r \in Result /\ r.status = status
  BY <1>1 DEF Result
<1>3. results' = Append(results, r)
  BY <1>1 DEF Record
<1>4. PICK n : n = Len(results)
  OBVIOUS
<1>5. /\ n \in Nat /\ Len(results') = n + 1 /\ results' \in Seq(Result)
      /\ \A i \in 1..n : results'[i] = results[i]
      /\ results'[n + 1] = r
  BY <1>2, <1>3, <1>4, AppendProperties, LenProperties
<1>6. Len(checks) \in Nat /\ checks' = checks
  BY ListShape, ListStays
<1>7. pos = n + 1 /\ spec = checks[n + 1]
  BY <1>4 DEF pos, spec
<1>8. cascade' \in 0..n + 1 /\ cascade \in 0..n
      /\ cascade' = (IF spec.required /\ status \in {"failed", "blocked"} THEN n + 1 ELSE cascade)
  BY <1>4, <1>5, <1>7 DEF Record, Cascade
<1>9. /\ cascade' = 0 => cascade = 0 /\ ~(spec.required /\ status \in {"failed", "blocked"})
      /\ cascade # 0 => cascade' # 0
  BY <1>5, <1>8
<1>10. Unbroken'
  <2>1. SUFFICES ASSUME cascade' = 0, NEW i \in 1..n + 1, checks[i].required
                 PROVE  results'[i].status \notin {"failed", "blocked"}
    BY <1>5, <1>6 DEF Unbroken
  <2>2. CASE i \in 1..n
    BY <1>4, <1>5, <1>9, <2>1, <2>2 DEF Unbroken
  <2>3. CASE i = n + 1
    BY <1>2, <1>5, <1>7, <1>9, <2>1, <2>3
  <2> QED BY <1>5, <2>2, <2>3
<1>11. Truthful'
  <2>1. SUFFICES ASSUME env.mode # "injected", NEW i \in 1..n + 1
                 PROVE  /\ results'[i].status = "skipped" => cascade' # 0 /\ checks[i].cascades
                        /\ results'[i].status \in {"passed", "degraded"} => Sound(checks[i].id)'
                        /\ checks[i].id = "synthetic_session_cleanup" =>
                             results'[i].status \in {"passed", "failed"}
    BY <1>5, <1>6 DEF Truthful
  <2>2. CASE i \in 1..n
    <3>1. /\ results[i].status = "skipped" => cascade # 0 /\ checks[i].cascades
          /\ results[i].status \in {"passed", "degraded"} => Sound(checks[i].id)
          /\ checks[i].id = "synthetic_session_cleanup" =>
               results[i].status \in {"passed", "failed"}
      BY <1>4, <2>1, <2>2 DEF Truthful
    <3>2. Sound(checks[i].id) => Sound(checks[i].id)'
      BY SoundStays, <1>6
    <3> QED BY <1>5, <1>9, <2>2, <3>1, <3>2
  <2>3. CASE i = n + 1
    <3>1. results'[i].status = status /\ checks[i] = spec
      BY <1>2, <1>5, <1>7, <2>3
    <3>2. status = "skipped" => cascade' # 0 /\ checks[i].cascades
      BY <1>9, <2>1, <3>1 DEF Honest
    <3>3. status \in {"passed", "degraded"} => Sound(checks[i].id)'
      <4>1. id = checks[i].id /\ checks'[i].id = checks[i].id
        BY <1>6, <3>1
      <4>2. status \in {"passed", "degraded"} => Sound(id)'
        BY <2>1 DEF Honest
      <4> QED BY <4>1, <4>2
    <3>4. checks[i].id = "synthetic_session_cleanup" => status \in {"passed", "failed"}
      BY <2>1, <3>1 DEF Honest
    <3> QED BY <3>1, <3>2, <3>3, <3>4
  <2> QED BY <1>5, <2>2, <2>3
<1> QED BY <1>5, <1>6, <1>7, <1>8, <1>10, <1>11

LEMMA ChecksGoOn ==
  ASSUME GateInv, phase = "checks", UNCHANGED <<env, phase, bucket, exit, remote>>
  PROVE  /\ ExitInv'
         /\ env' \in Envs /\ phase' \in Phase
         /\ bucket' \in Written \cup {Reports \cup {"meta.json"}}
         /\ exit' \in ExitCode /\ remote' \in [ws : BOOLEAN, code : ExitCode]
         /\ checks' = checks
BY ListStays DEF GateInv, ExitInv, Typed

LEMMA PosBounds ==
  ASSUME Typed
  PROVE  pos \in Nat /\ pos = Len(results) + 1 /\ pos > 0 /\ spec = checks[pos]
         /\ Len(results) \in Nat /\ Len(checks) \in Nat
BY LenProperties, ListShape DEF Typed, pos, spec

\* While nothing is skipped, a required check before the present one has passed.
LEMMA Preceded ==
  ASSUME Typed, Unbroken, Truthful, env.mode # "injected", cascade = 0,
         NEW j \in 1..Len(results), checks[j].id # "feature_posture"
  PROVE  Sound(checks[j].id)
<1>1. checks[j] \in BuiltIn
  <2>1. Len(results) \in Nat /\ Len(checks) \in Nat /\ checks \in Seq(BuiltIn)
    BY PosBounds, ListShape DEF Typed
  <2>2. j \in 1..Len(checks)
    BY <2>1 DEF Typed
  <2> QED BY <2>1, <2>2, ElementOfSeq
<1>2. results[j].status \in Status
  <2>1. results \in Seq(Result)
    BY DEF Typed
  <2>2. results[j] \in Result
    BY <2>1, ElementOfSeq
  <2> QED BY <2>2 DEF Result
<1>3. results[j].status \in {"passed", "degraded"}
  BY <1>1, <1>2 DEF Unbroken, Truthful, BuiltIn, Status
<1> QED BY <1>3 DEF Truthful

LEMMA GuardedPrecedes ==
  ASSUME Typed, Unbroken, Truthful, env.mode # "injected", cascade = 0, pos \leq Len(checks),
         NEW ids, NEW changes, Guarded(checks, ids, changes), spec.id \in changes,
         NEW id \in ids, id # "feature_posture"
  PROVE  Sound(id)
<1>1. pos \in 1..Len(checks) /\ pos - 1 = Len(results) /\ spec = checks[pos]
  BY PosBounds
<1>2. PICK j \in 1..pos - 1 : checks[j].id = id
  BY <1>1 DEF Guarded
<1> QED BY <1>1, <1>2, Preceded

LEMMA StatusesOf ==
  ASSUME env.mode # "injected"
  PROVE  /\ spec.id = "pr_prerequisites" => Statuses = prLocalStack
         /\ spec.id = "predeploy_prerequisites" => Statuses = predeployPrerequisites
         /\ spec.id = "postdeploy_prerequisites" => Statuses = postdeployPrerequisites
         /\ spec.id = "recovery_prerequisites" => Statuses = recoveryPrerequisites
         /\ spec.id = "readyz" => Statuses = readyz
         /\ spec.id = "config_safety" => Statuses = predeployConfigSafety
         /\ spec.id = "feature_posture" => Statuses = predeployFeaturePosture
         /\ spec.id = "s3_recovery_prerequisites" => Statuses = s3RecoveryPrerequisites
         /\ spec.id = "scratch_guard" => Statuses = scratchTargetGuard
         /\ spec.id = "ops_status_authed" => Statuses = opsStatusAuthed
         /\ spec.id = "backup_verify" =>
              Statuses = CommandStatus(IF env.sealed THEN {"0", "1"} ELSE {"1"}, FALSE)
         /\ \/ spec.id \in {"pr_prerequisites", "predeploy_prerequisites", "postdeploy_prerequisites",
                           "recovery_prerequisites", "readyz", "config_safety",
                           "feature_posture", "s3_recovery_prerequisites", "scratch_guard",
                           "ops_status_authed"}
            \/ \E ends, fails : Statuses = CommandStatus(ends, fails)
<1>1. spec.id = "pr_prerequisites" => Statuses = prLocalStack
  BY DEF Statuses, WrongKey, Verifies
<1>2. spec.id = "predeploy_prerequisites" => Statuses = predeployPrerequisites
  BY DEF Statuses, WrongKey, Verifies
<1>3. spec.id = "postdeploy_prerequisites" => Statuses = postdeployPrerequisites
  BY DEF Statuses, WrongKey, Verifies
<1>4. spec.id = "recovery_prerequisites" => Statuses = recoveryPrerequisites
  BY DEF Statuses, WrongKey, Verifies
<1>5. spec.id = "readyz" => Statuses = readyz
  BY DEF Statuses, WrongKey, Verifies
<1>6. spec.id = "config_safety" => Statuses = predeployConfigSafety
  BY DEF Statuses, WrongKey, Verifies
<1>7. spec.id = "feature_posture" => Statuses = predeployFeaturePosture
  BY DEF Statuses, WrongKey, Verifies
<1>8. spec.id = "s3_recovery_prerequisites" => Statuses = s3RecoveryPrerequisites
  BY DEF Statuses, WrongKey, Verifies
<1>9. spec.id = "scratch_guard" => Statuses = scratchTargetGuard
  BY DEF Statuses, WrongKey, Verifies
<1>10. spec.id = "ops_status_authed" => Statuses = opsStatusAuthed
  BY DEF Statuses, WrongKey, Verifies
<1>11. spec.id \in Verifies =>
         Statuses = CommandStatus(IF env.sealed THEN {"0", "1"} ELSE {"1"}, FALSE)
  BY DEF Statuses, Verifies, WrongKey
<1>12. spec.id \in WrongKey => Statuses = CommandStatus({"0", "1"}, TRUE)
  BY DEF Statuses, WrongKey, Verifies
<1>13. ASSUME spec.id \notin {"pr_prerequisites", "predeploy_prerequisites", "postdeploy_prerequisites",
                           "recovery_prerequisites", "readyz", "config_safety",
                           "feature_posture", "s3_recovery_prerequisites", "scratch_guard",
                           "ops_status_authed"},
              spec.id \notin Verifies, spec.id \notin WrongKey
       PROVE  Statuses = CommandStatus({"0", "1"}, FALSE)
  BY <1>13 DEF Statuses
<1> QED BY <1>1, <1>2, <1>3, <1>4, <1>5, <1>6, <1>7, <1>8, <1>9, <1>10, <1>11, <1>12, <1>13 DEF Verifies

LEMMA StatusesHonest ==
  ASSUME Typed, pos \leq Len(checks), spec.id \notin Lifecycle, NEW status \in Statuses,
         UNCHANGED <<env, accounts>>, NEW id, id = spec.id
  PROVE  status \in Status /\ Honest(status, id)
<1> EnvShape(env)
  BY EnvTyped DEF Typed
<1>1. CASE env.mode = "injected"
  BY <1>1 DEF Statuses, Status, Honest
<1>2. CASE env.mode # "injected"
  <2>1. \A ends, fails : CommandStatus(ends, fails) \subseteq {"passed", "failed"}
    BY DEF CommandStatus
  <2>2. id = "backup_verify" /\ ~env.sealed => Statuses = CommandStatus({"1"}, FALSE)
    BY <1>2, StatusesOf
  <2>3. CommandStatus({"1"}, FALSE) = {"failed"}
    BY DEF CommandStatus, Expected
  <2>4. status \in {"passed", "failed", "blocked", "degraded"}
    <3>1. /\ Absent \in {"passed", "blocked"} /\ BadUrl \subseteq {"failed"}
          /\ scratchTargetGuard \subseteq {"passed", "blocked", "failed"}
      BY DEF Absent, BadUrl, scratchTargetGuard, EnvShape
    <3>2. /\ prLocalStack \subseteq {"passed", "blocked"}
          /\ predeployPrerequisites \subseteq {"passed", "blocked"}
          /\ postdeployPrerequisites \subseteq {"passed", "blocked", "failed"}
          /\ recoveryPrerequisites \subseteq {"passed", "blocked", "failed"}
          /\ readyz \subseteq {"passed", "failed"}
          /\ predeployConfigSafety \subseteq {"passed", "failed"}
          /\ predeployFeaturePosture \subseteq {"passed", "degraded"}
          /\ s3RecoveryPrerequisites \subseteq {"passed", "blocked"}
          /\ opsStatusAuthed \subseteq {"passed", "failed"}
      BY <3>1 DEF prLocalStack, predeployPrerequisites, postdeployPrerequisites,
         recoveryPrerequisites, readyz, predeployConfigSafety, predeployFeaturePosture,
         s3RecoveryPrerequisites, opsStatusAuthed
    <3>3. CASE \E ends, fails : Statuses = CommandStatus(ends, fails)
      BY <2>1, <3>3
    <3>4. CASE spec.id \in {"pr_prerequisites", "predeploy_prerequisites",
                            "postdeploy_prerequisites", "recovery_prerequisites", "readyz",
                            "config_safety", "feature_posture", "s3_recovery_prerequisites",
                            "scratch_guard", "ops_status_authed"}
      <4>1. Statuses \in {prLocalStack, predeployPrerequisites, postdeployPrerequisites,
                          recoveryPrerequisites, readyz, predeployConfigSafety,
                          predeployFeaturePosture, s3RecoveryPrerequisites, scratchTargetGuard,
                          opsStatusAuthed}
        BY <1>2, <3>4, StatusesOf
      <4> QED BY <3>1, <3>2, <4>1
    <3> QED BY <1>2, <3>3, <3>4, StatusesOf
  <2>5. ASSUME status \in {"passed", "degraded"}
        PROVE  Sound(id)
    <3>1. id \notin Lifecycle /\ id \notin Smokes
      BY DEF Lifecycle, Smokes
    <3>2. id = "config_safety" => ~env.unsafe
      BY <1>2, <2>5, StatusesOf DEF predeployConfigSafety
    <3>3. id = "predeploy_prerequisites" => ~env.missing
      BY <1>2, <2>5, StatusesOf DEF predeployPrerequisites, Absent
    <3>4. id = "recovery_prerequisites" => ~env.missing
      BY <1>2, <2>5, StatusesOf DEF recoveryPrerequisites, Absent, BadUrl
    <3>5. id = "s3_recovery_prerequisites" => ~env.aliased
      BY <1>2, <2>5, StatusesOf DEF s3RecoveryPrerequisites
    <3>6. id = "scratch_guard" => env.scratch = "safe"
      BY <1>2, <2>5, StatusesOf DEF scratchTargetGuard, EnvShape
    <3>7. id = "backup_verify" => env.sealed
      BY <2>2, <2>3, <2>5
    <3> QED BY <3>1, <3>2, <3>3, <3>4, <3>5, <3>6, <3>7 DEF Sound, Lifecycle
  <2>6. Sound(id) => Sound(id)'
    BY DEF accounts, Sound, SmokeOk
  <2> QED BY <2>4, <2>5, <2>6 DEF Status, Honest, Lifecycle
<1> QED BY <1>1, <1>2

LEMMA Still ==
  ASSUME AccountsOK, UNCHANGED accounts, env' = env
  PROVE  /\ AccountsOK' /\ Progress(gclient, gclient') /\ Progress(sclient, sclient')
         /\ Walked => Walked'
<1>1. checks' = checks
  BY ListStays
<1> QED BY <1>1 DEF AccountsOK, accounts, AccountInv, Borrowed, Made, Lifetime, SmokeInv, Progress,
          Walked

LEMMA SkipStep ==
  ASSUME GateInv, Skip
  PROVE  GateInv'
<1>1. /\ phase = "checks" /\ pos \leq Len(checks) /\ Skipped /\ Record("skipped", cascade)
      /\ UNCHANGED <<env, phase, effects, bucket, exit, remote, accounts>>
  BY DEF Skip
<1>2. Typed /\ AccountsOK /\ Unbroken /\ Truthful /\ Walked /\ ExitInv /\ ChangesAreSafe
  BY DEF GateInv, RunInv
<1>3. PICK id : id = spec.id
  OBVIOUS
<1>4. spec.id = "synthetic_session_cleanup" /\ env.mode # "injected" => ~spec.cascades
  <2>1. spec = checks[pos] /\ pos \in 1..Len(checks)
    BY <1>1, <1>2, PosBounds
  <2>2. env.mode # "injected" => spec \in BuiltIn
    BY <1>2, <2>1, ListShape, ElementOfSeq DEF Typed
  <2> QED BY <2>2 DEF BuiltIn
<1>5. Honest("skipped", id)
  BY <1>1, <1>4 DEF Honest, Skipped
<1>6. cascade \in Nat /\ "skipped" \in Status
  BY <1>2, PosBounds DEF Typed, Status
<1>7. AccountsOK' /\ Progress(gclient, gclient') /\ Progress(sclient, sclient') /\ Walked'
  BY <1>1, <1>2, Still
<1>8. /\ results' \in Seq(Result) /\ Len(results') \leq Len(checks)
      /\ cascade' \in 0..Len(results') /\ Unbroken' /\ Truthful'
  BY <1>1, <1>2, <1>3, <1>5, <1>6, <1>7, Recorded DEF AccountsOK
<1>9. ChangesAreSafe'
  BY <1>1, <1>2 DEF ChangesAreSafe
<1> QED BY <1>1, <1>2, <1>7, <1>8, <1>9, ChecksGoOn DEF GateInv, RunInv, Typed

LEMMA CheckStep ==
  ASSUME GateInv, Check
  PROVE  GateInv'
<1>1. /\ phase = "checks" /\ pos \leq Len(checks) /\ ~Skipped /\ spec.id \notin Lifecycle
      /\ effects' = effects \cup ({spec.id} \cap Changes)
      /\ UNCHANGED <<env, phase, bucket, exit, remote, accounts>>
  BY DEF Check
<1>2. PICK status \in Statuses : Record(status, 0)
  BY DEF Check
<1>3. Typed /\ AccountsOK /\ Unbroken /\ Truthful /\ Walked /\ ExitInv /\ ChangesAreSafe
  BY DEF GateInv, RunInv
<1>4. PICK id : id = spec.id
  OBVIOUS
<1>5. status \in Status /\ Honest(status, id)
  BY <1>1, <1>3, <1>4, StatusesHonest
<1>6. AccountsOK' /\ Progress(gclient, gclient') /\ Progress(sclient, sclient') /\ Walked'
  BY <1>1, <1>3, Still
<1>7. /\ results' \in Seq(Result) /\ Len(results') \leq Len(checks)
      /\ cascade' \in 0..Len(results') /\ Unbroken' /\ Truthful'
  BY <1>1, <1>2, <1>3, <1>4, <1>5, <1>6, Recorded DEF AccountsOK
<1>8. EnvShape(env)
  BY <1>3, EnvTyped DEF Typed
<1>9. env.mode # "injected" /\ spec.id \in Changes => cascade = 0
  <2>1. spec = checks[pos] /\ pos \in 1..Len(checks)
    BY <1>1, <1>3, PosBounds
  <2>2. env.mode # "injected" => spec \in BuiltIn
    BY <1>3, <2>1, ListShape, ElementOfSeq DEF Typed
  <2> QED BY <1>1, <2>2 DEF BuiltIn, Skipped
<1>10. ASSUME env.mode = "deploy", spec.id = "migrate"
       PROVE  ~env.unsafe /\ ~env.missing
  <2>1. /\ Guarded(checks, {"config_safety", "predeploy_prerequisites"}, {"migrate"})
        /\ cascade = 0
    BY <1>3, <1>9, <1>10, ListShape DEF Typed, Changes
  <2>2. Sound("config_safety") /\ Sound("predeploy_prerequisites")
    BY <1>1, <1>3, <1>10, <2>1, GuardedPrecedes
  <2> QED BY <2>2 DEF Sound
<1>11. ASSUME spec.id \in Restores
       PROVE  env.scratch = "safe" /\ env.sealed /\ ~env.missing /\ (env.s3 => ~env.aliased)
  <2>1. CASE env.mode = "injected"
    BY <1>8, <2>1 DEF EnvShape
  <2>2. CASE env.mode = "recovery"
    <3>1. Guarded(checks, RestoreNeeds, Restores) /\ cascade = 0
      BY <1>3, <1>9, <1>11, <2>2, ListShape DEF Typed, Changes, Restores
    <3>2. \A n \in RestoreNeeds : n # "feature_posture" => Sound(n)
      BY <1>1, <1>3, <1>11, <2>2, <3>1, GuardedPrecedes
    <3>3. /\ Sound("recovery_prerequisites") /\ Sound("scratch_guard") /\ Sound("backup_verify")
          /\ env.s3 => Sound("s3_recovery_prerequisites")
      BY <3>2 DEF RestoreNeeds
    <3> QED BY <3>3 DEF Sound
  <2>3. CASE env.mode \notin {"recovery", "injected"}
    <3>1. Free(checks, Restores) /\ pos \in 1..Len(checks) /\ spec = checks[pos]
      BY <1>1, <1>3, <2>3, ListShape, PosBounds DEF Typed
    <3> QED BY <1>11, <3>1 DEF Free
  <2> QED BY <2>1, <2>2, <2>3
<1>12. ChangesAreSafe'
  <2>1. "migrate" \in effects' => "migrate" \in effects \/ spec.id = "migrate"
    BY <1>1
  <2>2. effects' \cap Restores # {} => effects \cap Restores # {} \/ spec.id \in Restores
    BY <1>1
  <2> QED BY <1>1, <1>3, <1>10, <1>11, <2>1, <2>2 DEF ChangesAreSafe, Restores
<1>13. effects' \subseteq Changes
  BY <1>1, <1>3 DEF Typed
<1> QED BY <1>1, <1>3, <1>6, <1>7, <1>12, <1>13, ChecksGoOn DEF GateInv, RunInv, Typed

LEMMA Unrecorded ==
  ASSUME Typed, Unbroken, Truthful, UNCHANGED <<env, results, cascade>>,
         AccountInv(gserver, gclient), Progress(gclient, gclient'), Progress(sclient, sclient')
  PROVE  /\ results' \in Seq(Result) /\ Len(results') \leq Len(checks)
         /\ cascade' \in 0..Len(results') /\ Unbroken' /\ Truthful'
<1>1. checks' = checks
  BY ListStays
<1>2. ASSUME NEW id, Sound(id)
      PROVE  Sound(id)'
  BY <1>2, SoundStays
<1>3. Truthful'
  <2>1. SUFFICES ASSUME env.mode # "injected", NEW i \in 1..Len(results)
                 PROVE  /\ results[i].status = "skipped" => cascade # 0 /\ checks[i].cascades
                        /\ results[i].status \in {"passed", "degraded"} => Sound(checks[i].id)'
                        /\ checks[i].id = "synthetic_session_cleanup" =>
                             results[i].status \in {"passed", "failed"}
    BY <1>1 DEF Truthful
  <2>2. Sound(checks[i].id) => Sound(checks[i].id)'
    BY <1>1, SoundStays
  <2> QED BY <2>1, <2>2 DEF Truthful
<1> QED BY <1>1, <1>3 DEF Typed, Unbroken

\* The account of the gate moves, and a result may be recorded.
LEMMA GateMoves ==
  ASSUME GateInv, phase = "checks", pos \leq Len(checks), GateKept,
         UNCHANGED <<env, phase, effects, bucket, exit, remote, sserver, sclient>>,
         NEW id, id = spec.id,
         \/ UNCHANGED <<results, cascade>>
         \/ \E status \in Status : Record(status, 0) /\ Honest(status, id)
  PROVE  GateInv'
<1>1. Typed /\ AccountsOK /\ Unbroken /\ Truthful /\ Walked /\ ExitInv /\ ChangesAreSafe
  BY DEF GateInv, RunInv
<1>2. checks' = checks
  BY ListStays
<1>3. /\ AccountsOK' /\ AccountInv(gserver, gclient)
      /\ Progress(gclient, gclient') /\ Progress(sclient, sclient') /\ Walked'
  BY <1>1, <1>2 DEF AccountsOK, GateKept, Kept, Progress, Walked, SmokeInv, AccountInv, Borrowed,
     Made, Lifetime
<1>4. /\ results' \in Seq(Result) /\ Len(results') \leq Len(checks)
      /\ cascade' \in 0..Len(results') /\ Unbroken' /\ Truthful'
  <2>1. CASE UNCHANGED <<results, cascade>>
    BY <1>1, <1>3, <2>1, Unrecorded
  <2>2. ASSUME NEW status \in Status, Record(status, 0), Honest(status, id)
        PROVE  /\ results' \in Seq(Result) /\ Len(results') \leq Len(checks)
               /\ cascade' \in 0..Len(results') /\ Unbroken' /\ Truthful'
    BY <1>1, <1>3, <2>2, Recorded
  <2> QED BY <2>1, <2>2
<1>5. ChangesAreSafe'
  BY <1>1 DEF ChangesAreSafe
<1> QED BY <1>1, <1>3, <1>4, <1>5, ChecksGoOn DEF GateInv, RunInv, Typed

LEMMA BootstrapStep ==
  ASSUME GateInv, Bootstrap
  PROVE  GateInv'
<1>1. /\ phase = "checks" /\ pos \leq Len(checks) /\ spec.id = "synthetic_session_bootstrap"
      /\ UNCHANGED <<env, phase, effects, bucket, exit, remote, sserver, sclient>>
  BY DEF Bootstrap, InCheck, Checking
<1>2. AccountInv(gserver, gclient)
  BY DEF GateInv, AccountsOK
<1>3. PICK id : id = spec.id
  OBVIOUS
<1>4. CASE (Gate!Start \/ Gate!Make) /\ UNCHANGED <<results, cascade>>
  <2>1. GateKept
    BY <1>2, <1>4, GateMakes
  <2> QED BY <1>1, <1>3, <1>4, <2>1, GateMoves
<1>5. CASE /\ Record(IF gclient.state = "authenticated" THEN "passed" ELSE "failed", 0)
           /\ UNCHANGED <<gserver, gclient>>
  <2>1. GateKept
    BY <1>2, <1>5 DEF GateKept, Kept, Progress, AccountInv, Borrowed, Made, Lifetime
  <2>2. PICK status : status = IF gclient.state = "authenticated" THEN "passed" ELSE "failed"
    OBVIOUS
  <2>3. status \in Status /\ Record(status, 0)
    BY <1>5, <2>2 DEF Status
  <2>4. Honest(status, id)
    BY <1>1, <1>3, <1>5, <2>2 DEF Honest, Sound, Smokes
  <2> QED BY <1>1, <1>3, <2>1, <2>3, <2>4, GateMoves
<1> QED BY <1>4, <1>5 DEF Bootstrap

LEMMA CleanUpStep ==
  ASSUME GateInv, CleanUp
  PROVE  GateInv'
<1>1. /\ phase = "checks" /\ pos \leq Len(checks) /\ spec.id = "synthetic_session_cleanup"
      /\ UNCHANGED <<env, phase, effects, bucket, exit, remote, sserver, sclient>>
  BY DEF CleanUp, InCheck, Checking
<1>2. AccountInv(gserver, gclient)
  BY DEF GateInv, AccountsOK
<1>3. PICK id : id = spec.id
  OBVIOUS
<1>4. CASE (Gate!Cleanup \/ Gate!Destroy) /\ UNCHANGED <<results, cascade>>
  <2>1. GateKept
    BY <1>2, <1>4, GateCleansUp, GateDestroys
  <2> QED BY <1>1, <1>3, <1>4, <2>1, GateMoves
<1>5. CASE Gate!At("end") /\ Record(gclient.clean, 0) /\ UNCHANGED <<gserver, gclient>>
  <2>1. GateKept
    BY <1>2, <1>5 DEF GateKept, Kept, Progress, AccountInv, Borrowed, Made, Lifetime
  <2>2. PICK status : status = gclient.clean
    OBVIOUS
  <2>3. status \in {"passed", "failed"} /\ Record(status, 0)
    BY <1>2, <1>5, <2>2 DEF Gate!At, AccountInv, Lifetime, Client
  <2>4. Honest(status, id) /\ status \in Status
    BY <1>1, <1>3, <1>5, <2>2, <2>3 DEF Honest, Sound, Smokes, Status
  <2> QED BY <1>1, <1>3, <2>3, <2>1, <2>4, GateMoves
<1> QED BY <1>4, <1>5 DEF CleanUp

LEMMA SmokeCheckStep ==
  ASSUME GateInv, SmokeCheck
  PROVE  GateInv'
<1>1. /\ phase = "checks" /\ pos \leq Len(checks) /\ spec.id \in Smokes
      /\ UNCHANGED <<env, phase, effects, bucket, exit, remote, gserver, gclient>>
  BY DEF SmokeCheck, InCheck, Checking, Smokes
<1>2. Typed /\ AccountsOK /\ Unbroken /\ Truthful /\ Walked /\ ExitInv /\ ChangesAreSafe
  BY DEF GateInv, RunInv
<1>3. checks' = checks
  BY <1>1, ListStays
<1>4. SmokeOkNow
  BY <1>2 DEF SmokeOkNow, AccountsOK
<1>5. PICK id : id = spec.id
  OBVIOUS
<1>6. /\ SmokeKept
      /\ \/ UNCHANGED <<results, cascade>>
         \/ \E status \in Status : Record(status, 0) /\ Honest(status, id)
  <2>1. CASE /\ Smoke!Start \/ Smoke!Make \/ Smoke!Destroy \/ (Smoke!At("held") /\ Smoke!Cleanup)
             /\ UNCHANGED <<results, cascade>>
    BY <1>4, <2>1, SmokeMakes, SmokeDestroys, SmokeCleansUp DEF Smoke!At
  <2>2. ASSUME UNCHANGED <<sserver, sclient>>
        PROVE  SmokeKept
    BY <1>4, <2>2 DEF SmokeKept, SmokeOkNow, Kept, Progress, AccountInv, Borrowed, Made, Lifetime,
       SmokeInv
  <2>3. Honest("failed", id)
    BY <1>1, <1>5 DEF Honest, Smokes
  <2>4. CASE /\ Smoke!At("end") /\ UNCHANGED <<sserver, sclient>>
             /\ Record(IF SmokeOk THEN "passed" ELSE "failed", 0)
    <3>1. CASE SmokeOk
      <4>1. Sound(id)'
        BY <1>1, <1>5, <2>4, <3>1 DEF Sound, SmokeOk, Smoke!At, Smokes
      <4>2. Record("passed", 0) /\ Honest("passed", id) /\ "passed" \in Status
        BY <1>1, <1>5, <2>4, <3>1, <4>1 DEF Honest, Status, Smokes
      <4> QED BY <2>2, <2>4, <4>2
    <3>2. CASE ~SmokeOk
      <4>1. Record("failed", 0) /\ "failed" \in Status
        BY <2>4, <3>2 DEF Status
      <4> QED BY <2>2, <2>3, <2>4, <4>1
    <3> QED BY <3>1, <3>2
  <2>5. CASE Smoke!At("off") /\ UNCHANGED <<sserver, sclient>> /\ Record("failed", 0)
    BY <2>2, <2>3, <2>5 DEF Status
  <2>6. CASE Smoke!Kill /\ Record("failed", 0)
    BY <1>4, <2>3, <2>6, SmokeKilled DEF Status
  <2> QED BY <2>1, <2>4, <2>5, <2>6 DEF SmokeCheck
<1>7. /\ AccountsOK' /\ AccountInv(gserver, gclient)
      /\ Progress(gclient, gclient') /\ Progress(sclient, sclient')
  BY <1>1, <1>2, <1>6 DEF AccountsOK, SmokeKept, Kept, Progress, AccountInv, Borrowed, Made,
     Lifetime
<1>8. Walked'
  <2>1. pos \in 1..Len(checks) /\ spec = checks[pos]
    BY <1>1, <1>2, PosBounds
  <2>2. env.mode # "injected"
    <3>1. CASE env.mode = "injected"
      <4>1. checks \in Seq(CheckSpec(Names)) /\ Names \cap Lifecycle = {}
        BY <1>2, <3>1, ListShape, GateOK DEF Typed
      <4>2. spec \in CheckSpec(Names)
        BY <2>1, <4>1, ElementOfSeq
      <4> QED BY <1>1, <4>1, <4>2 DEF CheckSpec, Lifecycle, Smokes
    <3> QED BY <3>1
  <2> QED BY <1>1, <1>3, <2>1, <2>2 DEF Walked
<1>9. /\ results' \in Seq(Result) /\ Len(results') \leq Len(checks)
      /\ cascade' \in 0..Len(results') /\ Unbroken' /\ Truthful'
  <2>1. CASE UNCHANGED <<results, cascade>>
    BY <1>1, <1>2, <1>7, <2>1, Unrecorded
  <2>2. ASSUME NEW status \in Status, Record(status, 0), Honest(status, id)
        PROVE  /\ results' \in Seq(Result) /\ Len(results') \leq Len(checks)
               /\ cascade' \in 0..Len(results') /\ Unbroken' /\ Truthful'
    BY <1>1, <1>2, <1>5, <1>7, <2>2, Recorded
  <2> QED BY <1>6, <2>1, <2>2
<1>10. ChangesAreSafe'
  BY <1>1, <1>2 DEF ChangesAreSafe
<1> QED BY <1>1, <1>2, <1>7, <1>8, <1>9, <1>10, ChecksGoOn DEF GateInv, RunInv, Typed

LEMMA LateStep ==
  ASSUME GateInv, Late
  PROVE  GateInv'
<1>1. UNCHANGED <<env, phase, results, cascade, effects, bucket, exit, remote>>
  BY DEF Late
<1>2. Typed /\ AccountsOK /\ Unbroken /\ Truthful /\ Walked /\ ExitInv /\ ChangesAreSafe
  BY DEF GateInv, RunInv
<1>3. checks' = checks
  BY <1>1, ListStays
<1>4. AccountsOK' /\ gclient' = gclient /\ sclient' = sclient
  <2>1. CASE Gate!Late /\ UNCHANGED <<sserver, sclient>>
    <3>1. GateKept /\ gclient' = gclient
      BY <1>2, <2>1, GateServesLate DEF AccountsOK, Gate!Late, Gate!ServeLate
    <3> QED BY <1>1, <1>2, <2>1, <3>1 DEF AccountsOK, GateKept, Kept, AccountInv, Borrowed, Made,
            Lifetime, SmokeInv
  <2>2. CASE Smoke!Late /\ UNCHANGED <<gserver, gclient>>
    <3>1. SmokeKept /\ sclient' = sclient
      BY <1>2, <2>2, SmokeServesLate DEF AccountsOK, SmokeOkNow, Smoke!Late, Smoke!ServeLate
    <3> QED BY <1>1, <1>2, <2>2, <3>1 DEF AccountsOK, SmokeKept, Kept, AccountInv, Borrowed, Made,
            Lifetime
  <2> QED BY <2>1, <2>2 DEF Late
<1>5. AccountInv(gserver, gclient) /\ Progress(gclient, gclient') /\ Progress(sclient, sclient')
  BY <1>2, <1>4 DEF AccountsOK, Progress
<1>6. Unbroken' /\ Truthful'
  BY <1>1, <1>2, <1>5, Unrecorded
<1>7. Walked' /\ ChangesAreSafe' /\ Typed'
  BY <1>1, <1>2, <1>3, <1>4 DEF Walked, ChangesAreSafe, Typed
<1>8. ExitInv'
  BY <1>1, <1>2, <1>3 DEF ExitInv, RunPassed, Is
<1> QED BY <1>4, <1>6, <1>7, <1>8 DEF GateInv, RunInv

-----------------------------------------------------------------------------
(* The outcome, the evidence and the exit *)

\* A step that touches neither the checks nor the accounts.
LEMMA Aside ==
  ASSUME GateInv, UNCHANGED <<env, results, cascade, effects, accounts>>
  PROVE  /\ AccountsOK' /\ RunInv' /\ ChangesAreSafe' /\ checks' = checks
         /\ env' \in Envs /\ results' \in Seq(Result) /\ Len(results') \leq Len(checks')
         /\ cascade' \in 0..Len(results') /\ effects' \subseteq Changes
<1>1. Typed /\ AccountsOK /\ Unbroken /\ Truthful /\ Walked /\ ExitInv /\ ChangesAreSafe
  BY DEF GateInv, RunInv
<1>2. AccountsOK' /\ Progress(gclient, gclient') /\ Progress(sclient, sclient') /\ Walked'
  BY <1>1, Still
<1>3. checks' = checks
  BY ListStays
<1>4. Unbroken' /\ Truthful'
  BY <1>1, <1>2, Unrecorded DEF AccountsOK
<1> QED BY <1>1, <1>2, <1>3, <1>4 DEF Typed, ChangesAreSafe, RunInv

LEMMA OutcomeMeans ==
  ASSUME Typed, Len(results) = Len(checks), computeOutcome \in {"PASS", "CONDITIONAL_PASS"}
  PROVE  \/ \A i \in 1..Len(checks) :
              checks[i].required => results[i].status \in {"passed", "degraded"}
         \/ \E i \in 1..Len(checks) : /\ env.mode = "injected" /\ Is(i, "failed")
                                      /\ checks[i].severity = "P3" /\ checks[i].required
<1>1. PICK n : n = Len(checks)
  OBVIOUS
<1>2. n \in Nat /\ DOMAIN results = 1..n
  BY <1>1, ListShape, LenProperties DEF Typed
<1>3. \A i \in 1..n : ~Failing(i) /\ ~Blocking(i)
  BY <1>2 DEF computeOutcome
<1>4. SUFFICES ASSUME ~ \E i \in 1..n : /\ env.mode = "injected" /\ Is(i, "failed")
                                       /\ checks[i].severity = "P3" /\ checks[i].required
               PROVE  \A i \in 1..n :
                        checks[i].required => results[i].status \in {"passed", "degraded"}
  BY <1>1
<1>5. ASSUME NEW i \in 1..n, checks[i].required
      PROVE  results[i].status \notin {"failed", "blocked"}
  <2>1. results[i].status # "blocked"
    BY <1>3, <1>5 DEF Blocking, Is
  <2>2. CASE env.mode = "injected"
    <3>1. checks[i] \in CheckSpec(Names)
      BY <1>1, <2>2, ListShape, ElementOfSeq DEF Typed
    <3>2. checks[i].severity \in {"P0", "P1", "P2", "P3"}
      BY <3>1 DEF CheckSpec
    <3> QED BY <1>3, <1>4, <1>5, <2>1, <2>2, <3>2 DEF Failing, Is
  <2>3. CASE env.mode # "injected"
    <3>1. checks[i] \in BuiltIn
      BY <1>1, <2>3, ListShape, ElementOfSeq DEF Typed
    <3>2. checks[i].severity \in {"P0", "P1"}
      BY <1>5, <3>1 DEF BuiltIn
    <3> QED BY <1>3, <2>1, <3>2 DEF Failing, Is
  <2> QED BY <2>2, <2>3
<1>6. ASSUME NEW i \in 1..n, checks[i].required
      PROVE  results[i].status \in {"passed", "degraded"}
  <2>1. results[i] \in Result
    BY <1>1, ElementOfSeq DEF Typed
  <2>2. results[i].status # "skipped"
    <3>1. SUFFICES ASSUME results[i].status = "skipped" PROVE FALSE
      OBVIOUS
    <3>2. ValidCascade(i)
      BY <1>3, <1>6, <3>1 DEF Blocking, Is
    <3>3. /\ results[i].cause \in 1..i - 1 /\ checks[results[i].cause].required
          /\ results[results[i].cause].status \in {"failed", "blocked"}
      BY <3>2 DEF ValidCascade
    <3> QED BY <1>2, <1>5, <3>3
  <2> QED BY <1>5, <1>6, <2>1, <2>2 DEF Result, Status
<1> QED BY <1>6

LEMMA ReportStep ==
  ASSUME GateInv, Report
  PROVE  GateInv'
<1>1. /\ phase = "checks" /\ pos > Len(checks) /\ phase' \in {"exit", "evidence"}
      /\ UNCHANGED <<env, results, cascade, effects, bucket, exit, remote, accounts>>
  BY DEF Report
<1>2. Typed /\ ExitInv
  BY DEF GateInv
<1>3. Len(results) = Len(checks)
  BY <1>1, <1>2, PosBounds DEF Typed
<1>4. ExitInv'
  BY <1>1, <1>2, <1>3, Aside DEF ExitInv
<1> QED BY <1>1, <1>2, <1>4, Aside DEF GateInv, Typed, Phase

LEMMA FileSizes ==
  /\ Cardinality({}) = 0 /\ Cardinality({"report.json"}) = 1
  /\ Cardinality({"report.json", "report.md"}) = 2 /\ Cardinality(Reports) = 3
<1>1. IsFiniteSet({}) /\ Cardinality({}) = 0
  BY FS_EmptySet
<1>2. IsFiniteSet({"report.json"}) /\ Cardinality({"report.json"}) = 1
  BY FS_Singleton
<1>3. PICK a, b : a = {"report.json"} /\ b = {"report.json", "report.md"}
  OBVIOUS
<1>4. b = a \cup {"report.md"} /\ "report.md" \notin a
  BY <1>3
<1>5. IsFiniteSet(b) /\ Cardinality(b) = 2
  BY <1>2, <1>3, <1>4, FS_AddElement
<1>6. Reports = b \cup {"junit.xml"} /\ "junit.xml" \notin b
  BY <1>3 DEF Reports
<1>7. Cardinality(Reports) = 3
  BY <1>5, <1>6, FS_AddElement
<1> QED BY <1>1, <1>2, <1>3, <1>5, <1>7

LEMMA PutStep ==
  ASSUME GateInv, Put
  PROVE  GateInv'
<1>1. /\ phase = "evidence" /\ bucket' = bucket \cup {Files[Cardinality(bucket) + 1]}
      /\ phase' = IF bucket' = Reports \cup {"meta.json"} THEN "exit" ELSE phase
      /\ UNCHANGED <<env, results, cascade, effects, exit, remote, accounts>>
  BY DEF Put
<1>2. Typed /\ ExitInv
  BY DEF GateInv
<1>3. bucket \in Written
  BY <1>1, <1>2 DEF ExitInv
<1>4. bucket' \in Written \cup {Reports \cup {"meta.json"}}
  <2>1. CASE bucket = {}
    BY <1>1, <2>1, FileSizes DEF Files, Written
  <2>2. CASE bucket = {"report.json"}
    BY <1>1, <2>2, FileSizes DEF Files, Written
  <2>3. CASE bucket = {"report.json", "report.md"}
    BY <1>1, <2>3, FileSizes DEF Files, Written, Reports
  <2>4. CASE bucket = Reports
    BY <1>1, <2>4, FileSizes DEF Files
  <2> QED BY <1>3, <2>1, <2>2, <2>3, <2>4 DEF Written
<1>5. phase' \in {"exit", "evidence"} /\ (phase' = "evidence" => bucket' \in Written)
  BY <1>1, <1>4
<1>6. ExitInv'
  BY <1>1, <1>2, <1>5, Aside DEF ExitInv
<1> QED BY <1>1, <1>2, <1>4, <1>5, <1>6, Aside DEF GateInv, Typed, Phase

LEMMA PutFailsStep ==
  ASSUME GateInv, PutFails
  PROVE  GateInv'
<1>1. /\ phase = "evidence" /\ phase' = "exit"
      /\ UNCHANGED <<env, results, cascade, effects, bucket, exit, remote, accounts>>
  BY DEF PutFails
<1>2. Typed /\ ExitInv
  BY DEF GateInv
<1>3. ExitInv'
  BY <1>1, <1>2, Aside DEF ExitInv
<1> QED BY <1>1, <1>2, <1>3, Aside DEF GateInv, Typed, Phase

LEMMA ExitStep ==
  ASSUME GateInv, Exit
  PROVE  GateInv'
<1>1. /\ phase = "exit" /\ exit' = Larger(exitCodeFor(computeOutcome), EvidenceExit)
      /\ phase' = IF env.remote THEN "remote" ELSE "exited"
      /\ UNCHANGED <<env, results, cascade, effects, bucket, remote, accounts>>
  BY DEF Exit
<1>2. Typed /\ ExitInv
  BY DEF GateInv
<1>3. Len(results) = Len(checks)
  BY <1>1, <1>2 DEF ExitInv
<1>4. computeOutcome \in {"PASS", "CONDITIONAL_PASS", "FAIL", "BLOCKED"}
  BY DEF computeOutcome
<1>5. /\ exitCodeFor(computeOutcome) \in {0, 1, 2}
      /\ exitCodeFor(computeOutcome) = 0 => computeOutcome \in {"PASS", "CONDITIONAL_PASS"}
  BY <1>4 DEF exitCodeFor
<1>6. /\ EvidenceExit \in {0, 1}
      /\ EvidenceExit = 0 => (env.evidence = "required" => "meta.json" \in bucket)
  BY DEF EvidenceExit
<1>7. /\ exit' \in {0, 1, 2}
      /\ exit' = 0 => exitCodeFor(computeOutcome) = 0 /\ EvidenceExit = 0
  BY <1>1, <1>5, <1>6 DEF Larger
<1>8. exit' = 0 => RunPassed
  BY <1>2, <1>3, <1>5, <1>6, <1>7, OutcomeMeans DEF RunPassed
<1>9. RunPassed => RunPassed'
  BY <1>1, Aside DEF RunPassed, Is
<1>10. phase' \in {"remote", "exited"} /\ (phase' = "remote" <=> env.remote)
  BY <1>1
<1>11. remote.code # 0 \/ ~env.remote
  BY <1>1, <1>2 DEF ExitInv
<1>12. ExitInv'
  BY <1>1, <1>2, <1>8, <1>9, <1>10, <1>11 DEF ExitInv
<1> QED BY <1>1, <1>2, <1>7, <1>10, <1>12, Aside DEF GateInv, Typed, Phase, ExitCode

LEMMA CrashStep ==
  ASSUME GateInv, Crash
  PROVE  GateInv'
<1>1. /\ phase \in {"checks", "evidence", "exit"} /\ exit' = 1
      /\ phase' = IF env.remote THEN "remote" ELSE "exited"
      /\ UNCHANGED <<env, results, cascade, effects, bucket, remote, accounts>>
  BY DEF Crash
<1>2. Typed /\ ExitInv
  BY DEF GateInv
<1>3. phase' \in {"remote", "exited"} /\ (phase' = "remote" <=> env.remote)
  BY <1>1
<1>4. ExitInv'
  BY <1>1, <1>2, <1>3 DEF ExitInv
<1> QED BY <1>1, <1>2, <1>3, <1>4, Aside DEF GateInv, Typed, Phase, ExitCode

LEMMA FetchStep ==
  ASSUME GateInv, Fetch
  PROVE  GateInv'
<1>1. /\ phase = "fetch" /\ phase' \in {"checks", "remote"}
      /\ UNCHANGED <<env, results, cascade, effects, bucket, exit, remote, accounts>>
  BY DEF Fetch
<1>2. Typed /\ ExitInv
  BY DEF GateInv
<1>3. env.remote
  BY <1>1, <1>2 DEF ExitInv
<1>4. ExitInv'
  BY <1>1, <1>2, <1>3 DEF ExitInv
<1> QED BY <1>1, <1>2, <1>4, Aside DEF GateInv, Typed, Phase

LEMMA RemoteExitStep ==
  ASSUME GateInv, RemoteExit
  PROVE  GateInv'
<1>1. /\ phase = "remote" /\ phase' = "exited"
      /\ UNCHANGED <<env, results, cascade, effects, bucket, exit, accounts>>
  BY DEF RemoteExit
<1>2. PICK cleaned \in BOOLEAN : remote' = [ws |-> ~cleaned, code |-> computeExit(exit, cleaned)]
  BY DEF RemoteExit
<1>3. Typed /\ ExitInv /\ env.remote
  BY <1>1 DEF GateInv, ExitInv
<1>4. /\ remote'.ws = ~cleaned /\ remote'.code \in {exit, 1}
      /\ remote'.code = 0 => exit = 0 /\ cleaned
  BY <1>2 DEF computeExit
<1>5. remote' \in [ws : BOOLEAN, code : ExitCode]
  BY <1>2, <1>3 DEF computeExit, Typed, ExitCode
<1>6. RunPassed => RunPassed'
  BY <1>1, Aside DEF RunPassed, Is
<1>7. ExitInv'
  BY <1>1, <1>3, <1>4, <1>6 DEF ExitInv
<1> QED BY <1>1, <1>3, <1>5, <1>7, Aside DEF GateInv, Typed, Phase
-----------------------------------------------------------------------------
(* The theorems of the gate *)

LEMMA GateInvInit ==
  ASSUME GateInit
  PROVE  GateInv
<1>1. /\ env \in Envs /\ phase = (IF env.remote THEN "fetch" ELSE "checks")
      /\ results = <<>> /\ cascade = 0 /\ effects = {} /\ bucket = {} /\ exit = 99
      /\ remote = [ws |-> env.remote, code |-> 99]
  BY DEF GateInit
<1>2. EnvShape(env)
  BY <1>1, EnvTyped
<1>3. Len(results) = 0 /\ results \in Seq(Result) /\ Len(checks) \in Nat
  BY <1>1, ListShape
<1>4. remote.ws = env.remote /\ remote.code = 99 /\ remote \in [ws : BOOLEAN, code : ExitCode]
  BY <1>1, <1>2 DEF EnvShape, ExitCode
<1>5. Typed
  BY <1>1, <1>3, <1>4 DEF Typed, Phase, ExitCode, Written
<1>6. /\ gserver = [account |-> IF env.supplied THEN "live" ELSE "none",
                    sess |-> IF env.supplied THEN {"web"} ELSE {}, late |-> {}]
      /\ gclient = [pc |-> "off", state |-> "not_started", tokens |-> {},
                    supplied |-> env.supplied, tries |-> 0, dead |-> {},
                    broken |-> FALSE, clean |-> "none"]
  BY DEF GateInit, Gate!InitWith
<1>7. AccountInv(gserver, gclient) /\ gclient.supplied = env.supplied
  <2>1. gserver \in Server /\ gclient \in Client
    BY <1>2, <1>6 DEF Server, Client, ClientPC, ClientState, Making, Cred, Token, EnvShape
  <2>2. /\ gserver.account = (IF env.supplied THEN "live" ELSE "none")
        /\ gserver.sess = (IF env.supplied THEN {"web"} ELSE {}) /\ gserver.late = {}
        /\ gclient.pc = "off" /\ gclient.state = "not_started" /\ gclient.dead = {}
        /\ gclient.clean = "none" /\ gclient.supplied = env.supplied
    BY <1>6
  <2> QED BY <2>1, <2>2 DEF AccountInv, Borrowed, Made, Lifetime, Cred, Token
<1>8. /\ sserver = [account |-> "none", sess |-> {}, late |-> {}]
      /\ sclient = [pc |-> "off", state |-> "not_started", tokens |-> {},
                    supplied |-> FALSE, tries |-> 0, dead |-> {},
                    broken |-> FALSE, clean |-> "none"]
  BY DEF GateInit, Smoke!InitWith
<1>9. AccountInv(sserver, sclient) /\ SmokeInv /\ ~sclient.supplied
  <2>1. sserver \in Server /\ sclient \in Client
    BY <1>8 DEF Server, Client, ClientPC, ClientState, Making, Cred, Token
  <2>2. /\ sserver.account = "none" /\ sserver.sess = {} /\ sserver.late = {}
        /\ sclient.pc = "off" /\ sclient.state = "not_started" /\ sclient.dead = {}
        /\ sclient.clean = "none" /\ ~sclient.supplied
    BY <1>8
  <2> QED BY <2>1, <2>2 DEF AccountInv, Borrowed, Made, Lifetime, SmokeInv, Cred, Token
<1>10. RunInv
  BY <1>1, <1>3, <1>8 DEF RunInv, Unbroken, Truthful, Walked
<1>11. ExitInv
  BY <1>1, <1>2, <1>4 DEF ExitInv, Written, EnvShape
<1>12. ChangesAreSafe
  BY <1>1 DEF ChangesAreSafe
<1> QED BY <1>5, <1>7, <1>9, <1>10, <1>11, <1>12 DEF GateInv, AccountsOK

LEMMA GateInvStep ==
  ASSUME GateInv, [GateNext]_gateVars
  PROVE  GateInv'
<1>1. CASE UNCHANGED gateVars
  <2>1. Typed /\ ExitInv
    BY DEF GateInv
  <2>2. UNCHANGED <<env, phase, results, cascade, effects, bucket, exit, remote, accounts>>
    BY <1>1 DEF gateVars
  <2>3. ExitInv'
    BY <2>1, <2>2, Aside DEF ExitInv, RunPassed, Is
  <2> QED BY <2>1, <2>2, <2>3, Aside DEF GateInv, Typed
<1> QED BY <1>1, SkipStep, CheckStep, BootstrapStep, CleanUpStep, SmokeCheckStep, ReportStep,
        PutStep, PutFailsStep, ExitStep, FetchStep, RemoteExitStep, LateStep, CrashStep
        DEF GateNext, Run

\* The inductive invariant of the gate, for every list of checks, number of attempts
\* and set of faults: the checks that passed say only what is so, and the accounts,
\* the outcome and the exit code follow from them (runGate, the lifecycles of the
\* synthetic accounts, computeOutcome, the exit of cli.ts).
THEOREM GateCorrect == GateSpec => []GateInv
<1>1. GateInit => GateInv
  BY GateInvInit
<1>2. GateInv /\ [GateNext]_gateVars => GateInv'
  BY GateInvStep
<1> QED BY <1>1, <1>2, PTL DEF GateSpec

\* Exit code 0 means that every required check of the mode was run and passed, but
\* for the exception of an injected list, that nothing of the workspace is left and
\* that required evidence is committed (computeOutcome, computeExit, retainEvidence).
THEOREM PassIsTrue == GateSpec => []NoFalsePass
<1>1. ASSUME GateInv PROVE NoFalsePass
  <2>1. Typed /\ ExitInv
    BY <1>1 DEF GateInv
  <2>2. ASSUME Exited, Code = 0 PROVE exit = 0 /\ ~remote.ws
    BY <2>1, <2>2 DEF ExitInv, Code, Exited
  <2>3. "meta.json" \in bucket => Reports \subseteq bucket
    BY <2>1 DEF Typed, Written, Reports
  <2>4. ASSUME exit = 0 PROVE RunPassed
    BY <2>1, <2>4 DEF ExitInv
  <2>5. DOMAIN checks = 1..Len(checks)
    BY <2>1, ListShape, LenProperties DEF Typed
  <2> QED BY <2>2, <2>3, <2>4, <2>5 DEF NoFalsePass, RunPassed
<1> QED BY <1>1, GateCorrect, PTL

\* Migrations and restores happen only under the conditions that the checks before
\* them establish: once one of these fails they are skipped (deployChecks,
\* recoveryChecks, the cascade of runGate).
THEOREM ChangesStaySafe == GateSpec => []ChangesAreSafe
<1>1. GateInv => ChangesAreSafe
  BY DEF GateInv
<1> QED BY <1>1, GateCorrect, PTL

\* After a run that made synthetic accounts, exit code 0 means that none is left,
\* nor a token; and a gate that leaves its own account has reported its cleanup as
\* failed (syntheticSessionCleanup, the cleanup of runSmoke).
THEOREM NothingStaysLeft == GateSpec => []NothingLeft
<1>1. ASSUME GateInv PROVE NothingLeft
  <2>1. Typed /\ AccountsOK /\ Unbroken /\ Truthful /\ Walked /\ ExitInv
    BY <1>1 DEF GateInv, RunInv
  <2>2. gclient.clean = "passed" =>
          /\ env.supplied /\ gclient.state # "not_started" => gserver.sess = {}
          /\ ~env.supplied => gserver.account # "live"
    BY <2>1 DEF AccountsOK, AccountInv, Borrowed, Made, Lifetime
  <2>3. /\ Len(checks) \in Nat /\ Len(results) \in Nat /\ Len(results) \leq Len(checks)
    BY <2>1, PosBounds DEF Typed
  <2>4. ASSUME Exited, Code = 0
        PROVE  RunPassed
    BY <2>1, <2>4 DEF ExitInv, Code, Exited
  <2>5. ASSUME RunPassed, env.mode # "injected", NEW i \in 1..Len(checks),
               checks[i].id # "feature_posture"
        PROVE  Sound(checks[i].id)
    <3>1. checks[i] \in BuiltIn
      BY <2>1, <2>5, ListShape, ElementOfSeq DEF Typed
    <3>2. results[i].status \in {"passed", "degraded"}
      BY <2>5, <3>1 DEF RunPassed, BuiltIn
    <3> QED BY <2>1, <2>5, <3>2 DEF Truthful, RunPassed
  <2>6. ASSUME env.mode = "postdeploy", RunPassed
        PROVE  gclient.clean = "passed" /\ gclient.state # "not_started"
    <3>1. /\ Len(checks) = 6 /\ checks[3].id = "synthetic_session_bootstrap"
          /\ checks[6].id = "synthetic_session_cleanup"
      BY <2>1, <2>6, ListShape DEF Typed
    <3>2. 3 \in 1..Len(checks) /\ 6 \in 1..Len(checks)
      BY <3>1
    <3>3. Sound("synthetic_session_bootstrap") /\ Sound("synthetic_session_cleanup")
      BY <2>5, <2>6, <3>1, <3>2
    <3> QED BY <3>3 DEF Sound
  <2>7. ASSUME RunPassed, sclient.pc # "off"
        PROVE  sserver.account # "live" /\ sserver.sess \cap {"web", "device"} = {}
    <3>1. PICK i \in 1..Len(checks) : checks[i].id \in Smokes /\ env.mode # "injected"
      BY <2>1, <2>7 DEF Walked
    <3>2. Sound(checks[i].id)
      BY <2>5, <2>7, <3>1 DEF Smokes
    <3>3. sclient.pc = "end" /\ sclient.clean = "passed" /\ ~sclient.broken
      BY <3>1, <3>2 DEF Sound, SmokeOk
    <3>4. sclient.state = "cleaned"
      BY <2>1, <3>3 DEF AccountsOK, AccountInv, Lifetime, SmokeInv
    <3> QED BY <2>1, <3>3, <3>4 DEF AccountsOK, AccountInv, Made, SmokeInv, Token
  <2>8. ASSUME env.mode = "postdeploy", ~env.supplied, pos > Len(checks),
               gserver.account = "live"
        PROVE  Is(Len(checks), "failed")
    <3>1. Len(checks) = 6 /\ checks[6].id = "synthetic_session_cleanup"
      BY <2>1, <2>8, ListShape DEF Typed
    <3>2. Len(results) = 6
      <4>1. pos \in Nat /\ pos = Len(results) + 1
        BY <2>1, PosBounds
      <4>2. pos > 6
        BY <2>8, <3>1
      <4>3. Len(results) \leq 6
        BY <2>3, <3>1
      <4>4. \A n \in Nat : n + 1 > 6 /\ n \leq 6 => n = 6
        OBVIOUS
      <4> QED BY <2>3, <4>1, <4>2, <4>3, <4>4
    <3>3. /\ results[6].status \in {"passed", "failed"}
          /\ results[6].status = "passed" => Sound("synthetic_session_cleanup")
      BY <2>1, <2>8, <3>1, <3>2 DEF Truthful
    <3>4. ~Sound("synthetic_session_cleanup")
      BY <2>2, <2>8 DEF Sound
    <3> QED BY <3>1, <3>3, <3>4 DEF Is
  <2>9. env.supplied \in BOOLEAN
    BY <2>1, EnvTyped DEF Typed, EnvShape
  <2>10. Exited /\ Code = 0 =>
           /\ env.mode = "postdeploy" /\ ~env.supplied => gserver.account # "live"
           /\ env.mode = "postdeploy" /\ env.supplied => gserver.sess = {}
           /\ sclient.pc # "off" =>
                sserver.account # "live" /\ sserver.sess \cap {"web", "device"} = {}
    BY <2>2, <2>4, <2>6, <2>7
  <2> QED BY <2>8, <2>10 DEF NothingLeft
<1> QED BY <1>1, GateCorrect, PTL
=============================================================================
