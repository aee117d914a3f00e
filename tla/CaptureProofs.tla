---------------------------- MODULE CaptureProofs ----------------------------
(***************************************************************************)
(* Proofs about Capture.                                                   *)
(*                                                                         *)
(* SecretsMasked and ReportIsHonest speak of what a request has written.   *)
(* They are inductive together with what ties a written moment to its      *)
(* walk: once the moment is inserted every slot has its outcome, so no     *)
(* late reading or timer changes what the report was computed from; a      *)
(* post of the panel stays idle until the panel submits it, so a draft     *)
(* never replaces the slots of a moment that was inserted; and an image    *)
(* is on record only for a moment whose report is "applied".  A certified  *)
(* slot holds the answer of the engine, and what it shows is what that     *)
(* answer leaves.                                                          *)
(*                                                                         *)
(* FailureKeepsDraft rests on PanelOK: the panel waits for one call that   *)
(* did not outlive its token, in the state that call has set, or only for  *)
(* stray ones.                                                             *)
(***************************************************************************)
EXTENDS Capture, TLAPS

Stages == Outcomes \union {"new", "call", "waiting"}
Places == {"idle", "walk", "store", "reply", "saved", "done", "answer", "error"}
States == {"none", "storage_disabled", "skipped", "blocked_strict", "failed",
           "coverage_insufficient", "applied", "media_unavailable"}

Legible == UNION {Words[img] : img \in DOMAIN Words}
Media == [by : Requests, slot : Nat, img : DOMAIN Words, shows : SUBSET Legible,
          read : SUBSET SUBSET Legible]

SlotType == [img : DOMAIN Words, key : Nat, list : BOOLEAN, st : Stages, inline : BOOLEAN,
             read : SUBSET SUBSET Legible]
Payloads == UNION {[D -> SlotType] : D \in SUBSET Nat}
ReqType == [pc : Places, slots : Payloads, strict : BOOLEAN, state : States,
            text : SUBSET Legible, refs : SUBSET Media]
PanelType == [state : {"idle", "capturing", "confirm", "submitting"},
              draft : [shot : Shots, img : Drafts] \union {NoDraft},
              paired : BOOLEAN, unused : SUBSET Captures, shots : SUBSET Shots,
              calls : SUBSET (Captures \union Shots),
              of : [Captures -> Shots \union {"none"}],
              stray : SUBSET (Captures \union Shots)]

\* The places of a request after its moment was inserted.
After == {"store", "reply", "saved", "done"}

Clean(words) == words \intersect Sensitive = {}

\* What a request that inserted a moment says, and that nothing will change it.
Honest(q) ==
  /\ \A i \in DOMAIN q.slots : q.slots[i].st \in Outcomes /\ ~ q.slots[i].inline
  /\ q.state = "applied" => \A i \in DOMAIN q.slots : q.slots[i].st = "certified"
  /\ q.state = "none" => DOMAIN q.slots = {}
  /\ q.state \in {"failed", "coverage_insufficient"} => ~ q.strict
  /\ Clean(q.text)

\* A certified slot has its answer.
Backed(slot) == slot.st = "certified" => \E W : slot.read = {W}
Answered(q) == \A i \in DOMAIN q.slots : Backed(q.slots[i])

Unscanned(r, q) ==
  r \in Captures => \A i \in DOMAIN q.slots :
                      q.slots[i].st = "unscanned" => ~ config.engine \/ ~ config.storage

\* unused: the posts the panel has yet to make.
Good(r, q, unused) ==
  /\ r \in config.old => q.pc \in {"saved", "done"}
  /\ r \in unused /\ r \notin config.old => q.pc = "idle"
  /\ Unscanned(r, q) /\ Answered(q)
  /\ r \in Captures \ config.old /\ q.pc \in After => Honest(q)

Kept(x) ==
  /\ x.by \in Captures \ config.old
  /\ req[x.by].pc \in After /\ req[x.by].state = "applied"
  /\ Masked(x)

TypeInv ==
  /\ config \in Environments /\ panel \in PanelType
  /\ req \in [Requests -> ReqType] /\ stored \subseteq Media

CaptureInv ==
  /\ TypeInv
  /\ \A r \in Requests : Good(r, req[r], panel.unused)
  /\ \A x \in stored : Kept(x)
  /\ config.engine => \A x \in sent : Masked(x)
  /\ served = {}

-----------------------------------------------------------------------------
(* Types *)

LEMMA Slotted ==
  ASSUME NEW s \in Payloads
  PROVE  s \in [DOMAIN s -> SlotType] /\ DOMAIN s \subseteq Nat
  BY DEF Payloads

LEMMA Payload ==
  ASSUME NEW s, s \in [DOMAIN s -> SlotType], DOMAIN s \subseteq Nat
  PROVE  s \in Payloads
  BY DEF Payloads

LEMMA FreshTyped == Fresh \subseteq SlotType
  BY DEF Fresh, SlotType, Stages

LEMMA FreshPayload ==
  ASSUME NEW s \in Seq(Fresh)
  PROVE  s \in Payloads /\ \A i \in DOMAIN s : s[i].st = "new"
  <1>1. s \in [1 .. Len(s) -> Fresh] /\ DOMAIN s = 1 .. Len(s)
    OBVIOUS
  <1>2. s \in [DOMAIN s -> SlotType] /\ DOMAIN s \subseteq Nat
    BY <1>1, FreshTyped
  <1>3. \A i \in DOMAIN s : s[i].st = "new"
    BY <1>1 DEF Fresh
  <1> QED
    BY <1>2, <1>3, Payload

\* Rewriting the outcome or the pixels of some slots.
LEMMA Rewritten ==
  ASSUME NEW s \in Payloads, NEW f, f \in [DOMAIN s -> SlotType]
  PROVE  f \in Payloads
  BY Slotted, Payload

LEMMA StTyped ==
  ASSUME NEW s \in SlotType, NEW st \in Stages
  PROVE  [s EXCEPT !.st = st] \in SlotType /\ [s EXCEPT !.st = st].st = st
  BY DEF SlotType

LEMMA InlineTyped ==
  ASSUME NEW s \in SlotType, NEW b \in BOOLEAN
  PROVE  [s EXCEPT !.inline = b] \in SlotType
  BY DEF SlotType

\* No image stays in the JSON of a payload that was stripped.
LEMMA Stripped ==
  ASSUME NEW s \in Payloads
  PROVE  /\ Strip(s) \in Payloads /\ DOMAIN Strip(s) = DOMAIN s
         /\ \A i \in DOMAIN s : /\ ~ Strip(s)[i].inline
                                /\ Strip(s)[i].st = s[i].st /\ Strip(s)[i].img = s[i].img
                                /\ Strip(s)[i].read = s[i].read
  <1>1. s \in [DOMAIN s -> SlotType]
    BY Slotted
  <1>2. ASSUME NEW i \in DOMAIN s
        PROVE  /\ Strip(s)[i] \in SlotType /\ ~ Strip(s)[i].inline
               /\ Strip(s)[i].st = s[i].st /\ Strip(s)[i].img = s[i].img
               /\ Strip(s)[i].read = s[i].read
    <2>1. s[i] \in SlotType /\ Strip(s)[i] = [s[i] EXCEPT !.inline = FALSE]
      BY <1>1 DEF Strip
    <2> QED
      BY <2>1 DEF SlotType
  <1>3. Strip(s) \in [DOMAIN s -> SlotType] /\ DOMAIN Strip(s) = DOMAIN s
    BY <1>2 DEF Strip
  <1> QED
    BY <1>2, <1>3, Rewritten

\* What a certified image shows is what the answer of the engine leaves.
LEMMA CertifiedMasked ==
  ASSUME NEW r, NEW i, Slot(r, i).st = "certified", NEW W, Slot(r, i).read = {W}
  PROVE  Masked(Image(r, i))
  <1>1. Returned(Slot(r, i)) = W
    BY DEF Returned
  <1>2. Image(r, i).read = {W} /\ Image(r, i).shows = Words[Slot(r, i).img] \ Detected(W)
    BY <1>1 DEF Image, Shown
  <1> QED
    BY <1>2 DEF Masked, Detected

LEMMA ReturnedLegible ==
  ASSUME NEW s \in SlotType
  PROVE  Returned(s) \in SUBSET Legible
  <1>1. s.read \in SUBSET SUBSET Legible
    BY DEF SlotType
  <1> QED
    BY <1>1 DEF Returned

LEMMA ShownLegible ==
  ASSUME NEW s \in SlotType
  PROVE  Shown(s) \in SUBSET Legible
  <1>1. s.img \in DOMAIN Words
    BY DEF SlotType
  <1>2. Words[s.img] \in SUBSET Legible
    BY <1>1 DEF Legible
  <1> QED
    BY <1>2 DEF Shown, Detected

LEMMA Disjoint == Captures \intersect Asks = {} /\ Captures \intersect Shots = {}
  BY CaptureOK DEF CaptureOK
-----------------------------------------------------------------------------
(* The initial states *)

LEMMA InitCapture == Init => CaptureInv
  <1> SUFFICES ASSUME Init PROVE CaptureInv
    OBVIOUS
  <1>1. PICK s \in Starts :
          /\ config = s.config
          /\ panel = [state |-> "idle", draft |-> NoDraft, paired |-> TRUE,
                      unused |-> config.own,
                      shots |-> IF config.own = {} THEN {} ELSE Shots,
                      calls |-> {}, of |-> [c \in Captures |-> "none"], stray |-> {}]
          /\ req = [r \in Requests |->
                IF r \in config.old THEN [Idle(s.sends[r], TRUE) EXCEPT !.pc = "saved"]
                ELSE Idle(s.sends[r], s.strict)]
          /\ worker = "none" /\ stored = {} /\ sent = {} /\ served = {}
    BY DEF Init
  <1>2. /\ config \in Environments /\ s.strict \in BOOLEAN
        /\ \A r \in Requests : s.sends[r] \in Seq(Fresh)
    BY <1>1, CaptureOK DEF CaptureOK
  <1>3. config.own \subseteq Captures
    BY <1>2 DEF Environments
  <1>5. panel \in PanelType
    <2>1. [c \in Captures |-> "none"] \in [Captures -> Shots \union {"none"}]
      OBVIOUS
    <2>2. (IF config.own = {} THEN {} ELSE Shots) \in SUBSET Shots
      OBVIOUS
    <2> QED
      BY <1>1, <1>3, <2>1, <2>2 DEF PanelType
  <1>6. ASSUME NEW r \in Requests
        PROVE  req[r] \in ReqType /\ Good(r, req[r], panel.unused)
    <2>1. /\ s.sends[r] \in Payloads
          /\ \A i \in DOMAIN s.sends[r] : s.sends[r][i].st = "new"
      BY <1>2, FreshPayload
    <2>2. /\ req[r].pc = IF r \in config.old THEN "saved" ELSE "idle"
          /\ req[r].slots = s.sends[r]
          /\ req[r] \in ReqType
      <3>1. ASSUME NEW b \in BOOLEAN, NEW pc \in Places
            PROVE  [Idle(s.sends[r], b) EXCEPT !.pc = pc] \in ReqType
        BY <2>1 DEF Idle, ReqType, States
      <3>2. ASSUME NEW b \in BOOLEAN
            PROVE  Idle(s.sends[r], b) \in ReqType
        BY <2>1 DEF Idle, ReqType, States, Places
      <3>3. CASE r \in config.old
        BY <1>1, <3>1, <3>3 DEF Idle, Places
      <3>4. CASE r \notin config.old
        BY <1>1, <1>2, <3>2, <3>4 DEF Idle
      <3> QED
        BY <3>3, <3>4
    <2> QED
      BY <2>1, <2>2 DEF Good, Unscanned, Answered, Backed, After
  <1>7. req \in [Requests -> ReqType]
    BY <1>1, <1>6
  <1> QED
    BY <1>1, <1>2, <1>5, <1>6, <1>7 DEF CaptureInv, TypeInv

-----------------------------------------------------------------------------
(* Frames *)

\* A step that rewrites one request, and at most takes a post from the panel.
LEMMA Update ==
  ASSUME CaptureInv, NEW r \in Requests, NEW new \in ReqType,
         req' = [req EXCEPT ![r] = new], config' = config,
         panel' \in PanelType, panel'.unused \subseteq panel.unused,
         Good(r, new, panel'.unused),
         req[r].pc \in After /\ req[r].state = "applied"
           => new.pc \in After /\ new.state = "applied"
  PROVE  /\ config' \in Environments /\ panel' \in PanelType /\ req' \in [Requests -> ReqType]
         /\ \A q \in Requests : Good(q, req[q], panel.unused)'
         /\ \A x \in stored : Kept(x)'
  <1>1. req \in [Requests -> ReqType] /\ config \in Environments
    BY DEF CaptureInv, TypeInv
  <1>2. req'[r] = new /\ \A q \in Requests \ {r} : req'[q] = req[q]
    BY <1>1
  <1>3. req' \in [Requests -> ReqType]
    BY <1>1
  <1>4. ASSUME NEW q \in Requests
        PROVE  Good(q, req[q], panel.unused)'
    <2>1. CASE q = r
      BY <1>2, <2>1 DEF Good, Unscanned
    <2>2. CASE q # r
      <3>1. Good(q, req[q], panel.unused)
        BY DEF CaptureInv
      <3>2. req'[q] = req[q]
        BY <1>2, <2>2
      <3> QED
        BY <3>1, <3>2 DEF Good, Unscanned
    <2> QED
      BY <2>1, <2>2
  <1>5. ASSUME NEW x \in stored
        PROVE  Kept(x)'
    <2>1. Kept(x) /\ x.by \in Requests
      BY DEF CaptureInv, Kept, Requests
    <2> QED
      BY <1>2, <2>1 DEF Kept, Masked
  <1> QED
    BY <1>1, <1>3, <1>4, <1>5

LEMMA UpdateOnly ==
  ASSUME CaptureInv, NEW r \in Requests, NEW new \in ReqType,
         req' = [req EXCEPT ![r] = new], config' = config,
         panel' \in PanelType, panel'.unused \subseteq panel.unused,
         Good(r, new, panel'.unused),
         req[r].pc \in After /\ req[r].state = "applied"
           => new.pc \in After /\ new.state = "applied",
         stored' = stored, sent' = sent, served' = served
  PROVE  CaptureInv'
  <1>1. /\ config' \in Environments /\ panel' \in PanelType /\ req' \in [Requests -> ReqType]
        /\ \A q \in Requests : Good(q, req[q], panel.unused)'
        /\ \A x \in stored : Kept(x)'
    BY Update
  <1>2. /\ stored \subseteq Media /\ (config.engine => \A x \in sent : Masked(x))
        /\ served = {}
    BY DEF CaptureInv, TypeInv
  <1>3. (config.engine => \A x \in sent : Masked(x))'
    BY <1>2 DEF Masked
  <1> QED
    BY <1>1, <1>2, <1>3 DEF CaptureInv, TypeInv

LEMMA PanelOnly ==
  ASSUME CaptureInv, panel' \in PanelType, panel'.unused = panel.unused,
         config' = config, req' = req, stored' = stored, sent' = sent, served' = served
  PROVE  CaptureInv'
  <1>1. \A q \in Requests : Good(q, req[q], panel.unused)'
    BY DEF CaptureInv, Good, Unscanned
  <1>2. \A x \in stored' : Kept(x)'
    BY DEF CaptureInv, Kept, Masked
  <1>3. (config.engine => \A x \in sent : Masked(x))'
    BY DEF CaptureInv, Masked
  <1> QED
    BY <1>1, <1>2, <1>3 DEF CaptureInv, TypeInv

LEMMA ReqTyped ==
  ASSUME CaptureInv, NEW r \in Requests
  PROVE  /\ req[r] \in ReqType /\ req[r].slots \in Payloads /\ Good(r, req[r], panel.unused)
         /\ req \in [Requests -> ReqType] /\ panel \in PanelType /\ config \in Environments
         /\ \A i \in Slots(r) : Slot(r, i) \in SlotType
  <1>1. req[r] \in ReqType /\ req[r].slots \in Payloads
    BY DEF CaptureInv, TypeInv, ReqType
  <1>2. \A i \in Slots(r) : Slot(r, i) \in SlotType
    BY <1>1, Slotted DEF Slots, Slot
  <1> QED
    BY <1>1, <1>2 DEF CaptureInv, TypeInv

LEMMA EndTyped ==
  ASSUME panel \in PanelType, NEW call
  PROVE  /\ End(call) \in PanelType
         /\ End(call).calls = panel.calls \ {call} /\ End(call).stray = panel.stray \ {call}
         /\ End(call).unused = panel.unused /\ End(call).draft = panel.draft
         /\ End(call).paired = panel.paired /\ End(call).of = panel.of
  BY DEF End, PanelType

LEMMA BeginTyped ==
  ASSUME panel \in PanelType, NEW call \in Captures \union Shots
  PROVE  /\ Begin(call) \in PanelType
         /\ Begin(call).calls = panel.calls \union {call}
         /\ Begin(call).stray = IF panel.stray = {} THEN {} ELSE panel.stray \union {call}
         /\ Begin(call).unused = panel.unused /\ Begin(call).draft = panel.draft
         /\ Begin(call).paired = panel.paired /\ Begin(call).of = panel.of
         /\ Begin(call).shots = panel.shots
  BY DEF Begin, PanelType

\* The end of a call changes the state, and nothing else but the draft it clears.
LEMMA HeardTyped ==
  ASSUME panel \in PanelType, NEW c, NEW ok \in BOOLEAN, Heard(c, ok)
  PROVE  /\ panel' \in PanelType /\ panel'.unused = panel.unused
         /\ panel' = panel
            \/ /\ c \in panel.calls /\ panel'.calls = panel.calls \ {c}
               /\ panel'.stray = panel.stray \ {c} /\ panel'.paired = panel.paired
               /\ ~ ok => panel'.state = "confirm" /\ panel'.draft = panel.draft
  <1>1. CASE c \notin panel.calls
    <2>1. panel' = panel
      BY <1>1 DEF Heard
    <2> QED
      BY <2>1
  <1> PICK p : p = End(c)
    OBVIOUS
  <1>2. /\ p \in PanelType /\ p.calls = panel.calls \ {c} /\ p.stray = panel.stray \ {c}
        /\ p.unused = panel.unused /\ p.draft = panel.draft /\ p.paired = panel.paired
    BY EndTyped
  <1>3. CASE c \in panel.calls /\ ok
    <2>1. panel' = [p EXCEPT !.state = "idle", !.draft = NoDraft]
      BY <1>3 DEF Heard
    <2> QED
      BY <1>2, <1>3, <2>1 DEF PanelType
  <1>4. CASE c \in panel.calls /\ ~ ok
    <2>1. panel' = [p EXCEPT !.state = "confirm"]
      BY <1>4 DEF Heard
    <2> QED
      BY <1>2, <1>4, <2>1 DEF PanelType
  <1> QED
    BY <1>1, <1>3, <1>4

\* A step that only moves a request between two places.
LEMMA Moves ==
  ASSUME CaptureInv, NEW r \in Requests, NEW pc \in Places, To(r, pc), config' = config,
         panel' \in PanelType, panel'.unused = panel.unused,
         r \in config.old => pc \in {"saved", "done"},
         req[r].pc # "idle" \/ r \notin panel.unused,
         pc \in After => (r \in Asks \/ req[r].pc \in After),
         req[r].pc \in After /\ req[r].state = "applied" => pc \in After
  PROVE  LET new == [req[r] EXCEPT !.pc = pc]
         IN  /\ new \in ReqType /\ req' = [req EXCEPT ![r] = new]
             /\ Good(r, new, panel'.unused)
             /\ (req[r].pc \in After /\ req[r].state = "applied"
                   => new.pc \in After /\ new.state = "applied")
  <1> DEFINE new == [req[r] EXCEPT !.pc = pc]
  <1>1. req[r] \in ReqType /\ Good(r, req[r], panel.unused)
    BY ReqTyped
  <1>2. /\ new \in ReqType /\ new.pc = pc /\ new.slots = req[r].slots
        /\ new.state = req[r].state /\ new.strict = req[r].strict /\ new.text = req[r].text
    BY <1>1 DEF ReqType
  <1>3. req' = [req EXCEPT ![r] = new]
    BY DEF To
  <1>4. Good(r, new, panel'.unused)
    <2> HIDE DEF new
    <2>1. ~ (r \in panel.unused /\ r \notin config.old)
      BY <1>1 DEF Good
    <2>2. Unscanned(r, new) /\ Answered(new)
      BY <1>1, <1>2 DEF Good, Unscanned, Answered, Backed
    <2>3. r \in Captures \ config.old /\ new.pc \in After => Honest(new)
      BY <1>1, <1>2, Disjoint DEF Good, Honest
    <2> QED
      BY <1>2, <2>1, <2>2, <2>3 DEF Good
  <1> QED
    BY <1>2, <1>3, <1>4

-----------------------------------------------------------------------------
(* The side panel *)

PanelNext == \/ PanelCapture \/ Cancel \/ TokenLost \/ Pair
             \/ \E shot \in Shots, img \in config.views : Captured(shot, img)
             \/ \E c \in Captures : PostFails(c)

\* Steps of the panel alone leave every request as it is.
LEMMA PanelMoves ==
  ASSUME CaptureInv, PanelNext
  PROVE  CaptureInv'
  <1>1. panel \in PanelType /\ config \in Environments
    BY DEF CaptureInv, TypeInv
  <1>2. /\ config' = config /\ req' = req /\ stored' = stored /\ sent' = sent
        /\ served' = served
    BY DEF PanelNext, PanelCapture, Cancel, TokenLost, Pair, Captured, PostFails
  <1>3. CASE PanelCapture
    <2>1. PICK shot \in panel.shots :
            panel' = [Begin(shot) EXCEPT !.state = "capturing", !.shots = @ \ {shot}]
      BY <1>3 DEF PanelCapture
    <2>2. shot \in Captures \union Shots
      BY <1>1, <2>1 DEF PanelType
    <2> PICK p : p = Begin(shot)
      OBVIOUS
    <2>3. p \in PanelType /\ p.unused = panel.unused
      BY <1>1, <2>2, BeginTyped
    <2>4. panel' = [p EXCEPT !.state = "capturing", !.shots = @ \ {shot}]
      BY <2>1
    <2>5. panel' \in PanelType /\ panel'.unused = panel.unused
      BY <2>3, <2>4 DEF PanelType
    <2> QED
      BY <1>2, <2>5, PanelOnly
  <1>4. CASE Cancel
    <2>1. panel' = [panel EXCEPT !.state = "idle", !.draft = NoDraft]
      BY <1>4 DEF Cancel
    <2>2. panel' \in PanelType /\ panel'.unused = panel.unused
      BY <1>1, <2>1 DEF PanelType
    <2> QED
      BY <1>2, <2>2, PanelOnly
  <1>5. CASE TokenLost
    <2>1. panel' = [panel EXCEPT !.paired = FALSE, !.state = "idle",
                                 !.stray = @ \union panel.calls]
      BY <1>5 DEF TokenLost
    <2>2. panel' \in PanelType /\ panel'.unused = panel.unused
      BY <1>1, <2>1 DEF PanelType
    <2> QED
      BY <1>2, <2>2, PanelOnly
  <1>6. CASE Pair
    <2>1. panel' = [panel EXCEPT !.paired = TRUE]
      BY <1>6 DEF Pair
    <2>2. panel' \in PanelType /\ panel'.unused = panel.unused
      BY <1>1, <2>1 DEF PanelType
    <2> QED
      BY <1>2, <2>2, PanelOnly
  <1>7. ASSUME NEW shot \in Shots, NEW img \in config.views, Captured(shot, img)
        PROVE  CaptureInv'
    <2> PICK p : p = End(shot)
      OBVIOUS
    <2>1. p \in PanelType /\ p.unused = panel.unused
      BY <1>1, EndTyped
    <2>2. CASE panel' = [p EXCEPT !.state = "confirm", !.draft = [shot |-> shot, img |-> img]]
      <3>1. img \in Drafts
        BY <1>1 DEF Environments
      <3>2. [shot |-> shot, img |-> img] \in [shot : Shots, img : Drafts]
        BY <3>1
      <3>3. panel' \in PanelType /\ panel'.unused = panel.unused
        BY <2>1, <2>2, <3>2 DEF PanelType
      <3> QED
        BY <1>2, <3>3, PanelOnly
    <2>3. CASE panel' = [p EXCEPT !.state = "idle"]
      <3>1. panel' \in PanelType /\ panel'.unused = panel.unused
        BY <2>1, <2>3 DEF PanelType
      <3> QED
        BY <1>2, <3>1, PanelOnly
    <2> QED
      BY <1>7, <2>2, <2>3 DEF Captured
  <1>8. ASSUME NEW c \in Captures, PostFails(c)
        PROVE  CaptureInv'
    <2>1. Heard(c, FALSE)
      BY <1>8 DEF PostFails
    <2>2. panel' \in PanelType /\ panel'.unused = panel.unused
      BY <1>1, <2>1, HeardTyped
    <2> QED
      BY <1>2, <2>2, PanelOnly
  <1> QED
    BY <1>3, <1>4, <1>5, <1>6, <1>7, <1>8 DEF PanelNext

LEMMA OneSlot ==
  ASSUME NEW x \in Fresh
  PROVE  << x >> \in Seq(Fresh)
  OBVIOUS

LEMMA DraftPayload ==
  ASSUME NEW img \in Drafts
  PROVE  /\ Draft(img) \in Payloads
         /\ \A i \in DOMAIN Draft(img) : Draft(img)[i].st = "new"
  <1>1. CASE img = "text"
    <2>1. Draft(img) = << >>
      BY <1>1 DEF Draft
    <2>2. Draft(img) \in Seq(Fresh)
      BY <2>1
    <2> QED
      BY <2>2, FreshPayload
  <1>2. CASE img # "text"
    <2>1. Draft(img) = << New(img, 1, FALSE) >> /\ img \in DOMAIN Words
      BY <1>2 DEF Draft, Drafts
    <2>2. New(img, 1, FALSE) \in Fresh
      BY <2>1 DEF New, Fresh
    <2>3. Draft(img) \in Seq(Fresh)
      BY <2>1, <2>2, OneSlot
    <2> QED
      BY <2>3, FreshPayload
  <1> QED
    BY <1>1, <1>2

LEMMA Submits ==
  ASSUME CaptureInv, NEW c \in Captures, Submit(c)
  PROVE  CaptureInv'
  <1> DEFINE new == [req[c] EXCEPT !.slots = Draft(panel.draft.img)]
  <1>1. /\ c \in Requests /\ req[c] \in ReqType /\ Good(c, req[c], panel.unused)
        /\ panel \in PanelType /\ c \in panel.unused
    BY ReqTyped DEF Requests, Submit
  <1>2. panel.draft.img \in Drafts
    BY <1>1 DEF PanelType, Submit, Confirming
  <1>3. /\ Draft(panel.draft.img) \in Payloads
        /\ \A i \in DOMAIN Draft(panel.draft.img) : Draft(panel.draft.img)[i].st = "new"
    BY <1>2, DraftPayload
  <1>4. /\ new \in ReqType /\ new.pc = req[c].pc /\ new.slots = Draft(panel.draft.img)
    BY <1>1, <1>3 DEF ReqType
  <1>5. /\ req' = [req EXCEPT ![c] = new]
        /\ config' = config /\ stored' = stored /\ sent' = sent /\ served' = served
        /\ panel' = [Begin(c) EXCEPT !.state = "submitting", !.unused = @ \ {c},
                                     !.of[c] = panel.draft.shot]
    BY DEF Submit
  <1>6. panel' \in PanelType /\ panel'.unused \subseteq panel.unused
    <2> PICK p : p = Begin(c)
      OBVIOUS
    <2>1. p \in PanelType /\ p.unused = panel.unused
      BY <1>1, BeginTyped
    <2>2. panel.draft.shot \in Shots
      BY <1>1 DEF PanelType, Submit, Confirming
    <2>3. panel' = [p EXCEPT !.state = "submitting", !.unused = @ \ {c},
                            !.of[c] = panel.draft.shot]
      BY <1>5
    <2>4. /\ p.of \in [Captures -> Shots \union {"none"}]
          /\ [p.of EXCEPT ![c] = panel.draft.shot] \in [Captures -> Shots \union {"none"}]
      BY <2>1, <2>2 DEF PanelType
    <2> QED
      BY <2>1, <2>3, <2>4 DEF PanelType
  <1>7. req[c].pc \in {"idle", "saved", "done"} /\ (c \in config.old \/ req[c].pc = "idle")
    BY <1>1 DEF Good
  <1>8. Good(c, new, panel'.unused)
    BY <1>1, <1>3, <1>4, <1>6, <1>7 DEF Good, Unscanned, Answered, Backed, After
  <1>9. ~ (req[c].pc \in After /\ c \notin config.old)
    BY <1>7 DEF After
  <1>10. req[c].pc \in After /\ req[c].state = "applied"
           => new.pc \in After /\ new.state = "applied"
    BY <1>1, <1>4 DEF ReqType
  <1> HIDE DEF new
  <1> QED
    BY <1>1, <1>4, <1>5, <1>6, <1>8, <1>10, UpdateOnly

-----------------------------------------------------------------------------
(* The walk *)

LEMMA Posts ==
  ASSUME CaptureInv, NEW c \in Captures, Post(c)
  PROVE  CaptureInv'
  <1>1. /\ c \in Requests /\ req[c] \in ReqType /\ req[c].slots \in Payloads
        /\ Good(c, req[c], panel.unused) /\ panel \in PanelType /\ config \in Environments
        /\ req[c].pc = "idle" /\ c \notin panel.unused
    BY ReqTyped DEF Requests, Post, At
  <1> DEFINE slots == IF config.storage THEN req[c].slots
                      ELSE [i \in DOMAIN req[c].slots |->
                              [Strip(req[c].slots)[i] EXCEPT !.st = "unscanned"]]
             strict == req[c].strict \/ config.production
             new == [req[c] EXCEPT !.pc = "walk", !.strict = strict, !.slots = slots]
  <1>2. slots \in Payloads /\ (config.storage => slots = req[c].slots)
    <2>1. CASE config.storage
      BY <1>1, <2>1
    <2>2. CASE ~ config.storage
      <3>1. /\ Strip(req[c].slots) \in [DOMAIN req[c].slots -> SlotType]
            /\ DOMAIN req[c].slots \subseteq Nat
        BY <1>1, Stripped, Slotted
      <3>2. \A i \in DOMAIN req[c].slots :
              [Strip(req[c].slots)[i] EXCEPT !.st = "unscanned"] \in SlotType
        BY <3>1, StTyped DEF Stages, Outcomes
      <3>3. slots \in [DOMAIN req[c].slots -> SlotType]
        BY <2>2, <3>2
      <3> QED
        BY <1>1, <2>2, <3>3, Rewritten
    <2> QED
      BY <2>1, <2>2
  <1>3. strict \in BOOLEAN
    OBVIOUS
  <1>4. req' = [req EXCEPT ![c] = new]
    BY DEF Post
  <1> HIDE DEF slots, strict
  <1>5. new \in ReqType /\ new.pc = "walk" /\ new.slots = slots
    BY <1>1, <1>2, <1>3 DEF ReqType, Places
  <1> HIDE DEF new
  <1>6. Unscanned(c, new) /\ Answered(new)
    <2>1. CASE config.storage
      BY <1>1, <1>2, <1>5, <2>1 DEF Unscanned, Answered, Backed, Good
    <2>2. CASE ~ config.storage
      <3>1. \A i \in DOMAIN slots : slots[i].st = "unscanned"
        BY <1>1, <2>2, Stripped, Slotted, StTyped DEF slots, SlotType
      <3> QED
        BY <1>5, <2>2, <3>1 DEF Unscanned, Answered, Backed
    <2> QED
      BY <2>1, <2>2
  <1>7. Good(c, new, panel.unused)
    BY <1>1, <1>5, <1>6 DEF Good, After
  <1>8. /\ config' = config /\ panel' = panel /\ stored' = stored /\ sent' = sent
        /\ served' = served
    BY DEF Post
  <1>9. ~ (req[c].pc \in After)
    BY <1>1 DEF After
  <1> QED
    BY <1>1, <1>4, <1>5, <1>7, <1>8, <1>9, UpdateOnly

LEMMA Asking ==
  ASSUME CaptureInv, NEW q \in Asks, Ask(q)
  PROVE  CaptureInv'
  <1>1. /\ q \in Requests /\ Good(q, req[q], panel.unused) /\ panel \in PanelType
        /\ req[q].pc = "idle" /\ To(q, "walk")
        /\ config' = config /\ panel' = panel /\ stored' = stored /\ sent' = sent
        /\ served' = served
    BY ReqTyped DEF Requests, Ask, At
  <1>2. q \notin panel.unused
    BY <1>1, Disjoint DEF PanelType
  <1>3. q \notin config.old
    BY <1>1 DEF Good
  <1>4. ~ (req[q].pc \in After) /\ "walk" \in Places
    BY <1>1 DEF After, Places
  <1>5. LET new == [req[q] EXCEPT !.pc = "walk"]
        IN  /\ new \in ReqType /\ req' = [req EXCEPT ![q] = new]
            /\ Good(q, new, panel'.unused)
            /\ (req[q].pc \in After /\ req[q].state = "applied"
                  => new.pc \in After /\ new.state = "applied")
    BY <1>1, <1>2, <1>3, <1>4, Moves
  <1> DEFINE new == [req[q] EXCEPT !.pc = "walk"]
  <1>6. /\ new \in ReqType /\ req' = [req EXCEPT ![q] = new] /\ Good(q, new, panel'.unused)
    BY <1>5
  <1> HIDE DEF new
  <1> QED
    BY <1>1, <1>4, <1>6, UpdateOnly

\* Slots without an outcome may be rewritten, the others stay.
LEMMA Reslotted ==
  ASSUME CaptureInv, NEW r \in Requests, NEW new \in ReqType, DOMAIN new.slots = Slots(r),
         \A i \in Slots(r) :
           \/ new.slots[i] = Slot(r, i)
           \/ /\ Slot(r, i).st \notin Outcomes
              /\ new.slots[i].st = "unscanned" => r \notin Captures \/ ~ config.engine
              /\ Backed(new.slots[i]),
         new.pc = req[r].pc \/ (req[r].pc = "walk" /\ new.pc = "error"),
         new.state = req[r].state, new.strict = req[r].strict, new.text = req[r].text
  PROVE  /\ Good(r, new, panel.unused)
         /\ (req[r].pc \in After /\ req[r].state = "applied"
               => new.pc \in After /\ new.state = "applied")
  <1>1. Good(r, req[r], panel.unused)
    BY ReqTyped
  <1>2. new.pc \in After => new.pc = req[r].pc
    BY DEF After
  <1>3. req[r].pc \in After => new.pc = req[r].pc
    BY DEF After
  <1>4. Unscanned(r, new) /\ Answered(new)
    BY <1>1 DEF Good, Unscanned, Answered, Backed, Slot, Slots
  <1>5. ASSUME r \in Captures \ config.old, new.pc \in After
        PROVE  Honest(new)
    <2>1. Honest(req[r])
      BY <1>1, <1>2, <1>5 DEF Good
    <2>2. \A i \in Slots(r) : new.slots[i] = Slot(r, i)
      BY <2>1 DEF Honest, Slot, Slots
    <2> QED
      BY <2>1, <2>2 DEF Honest, Slot, Slots
  <1>6. /\ r \in config.old => new.pc \in {"saved", "done"}
        /\ r \in panel.unused /\ r \notin config.old => new.pc = "idle"
    BY <1>1 DEF Good
  <1> QED
    BY <1>3, <1>4, <1>5, <1>6 DEF Good

LEMMA Enters ==
  ASSUME CaptureInv, NEW r \in Requests, Enter(r)
  PROVE  CaptureInv'
  <1>1. /\ req[r] \in ReqType /\ req[r].slots \in Payloads /\ panel \in PanelType
        /\ \A i \in Slots(r) : Slot(r, i) \in SlotType
    BY ReqTyped
  <1>2. PICK now \in SUBSET Slots(r) :
          /\ \A i \in now : Slot(r, i).st = "new"
          /\ req' = [req EXCEPT ![r].slots =
                       [i \in Slots(r) |-> IF i \in now THEN [@[i] EXCEPT !.st = Visit(r, i)]
                                           ELSE @[i]]]
    <2>1. PICK k \in {Slot(r, i).key : i \in Slots(r)} :
            LET now == {i \in Slots(r) : Slot(r, i).key = k}
            IN  /\ \A i \in Slots(r) : Slot(r, i).key < k => Slot(r, i).st # "new"
                /\ \A i \in now : Slot(r, i).st = "new"
                /\ req' = [req EXCEPT ![r].slots =
                             [i \in Slots(r) |-> IF i \in now
                                                 THEN [@[i] EXCEPT !.st = Visit(r, i)]
                                                 ELSE @[i]]]
      BY DEF Enter
    <2>2. {i \in Slots(r) : Slot(r, i).key = k} \in SUBSET Slots(r)
      OBVIOUS
    <2> QED
      BY <2>1, <2>2
  <1> DEFINE slots == [i \in Slots(r) |->
                         IF i \in now THEN [req[r].slots[i] EXCEPT !.st = Visit(r, i)]
                         ELSE req[r].slots[i]]
             new == [req[r] EXCEPT !.slots = slots]
  <1>3. \A i \in Slots(r) : /\ Visit(r, i) \in Stages
                            /\ Visit(r, i) # "certified"
                            /\ Visit(r, i) = "unscanned" => r \notin Captures \/ ~ config.engine
    BY DEF Visit, Stages, Outcomes
  <1>4. /\ DOMAIN slots = Slots(r)
        /\ \A i \in Slots(r) :
             /\ slots[i] \in SlotType
             /\ \/ slots[i] = Slot(r, i)
                \/ /\ Slot(r, i).st = "new" /\ slots[i].st # "certified"
                   /\ slots[i].st = "unscanned" => r \notin Captures \/ ~ config.engine
    <2>1. ASSUME NEW i \in now
          PROVE  /\ slots[i] \in SlotType /\ Slot(r, i).st = "new"
                 /\ slots[i].st # "certified"
                 /\ slots[i].st = "unscanned" => r \notin Captures \/ ~ config.engine
      <3>1. /\ slots[i] = [Slot(r, i) EXCEPT !.st = Visit(r, i)] /\ i \in Slots(r)
            /\ Slot(r, i).st = "new"
        BY <1>2, <2>1 DEF Slot
      <3>2. slots[i] \in SlotType /\ slots[i].st = Visit(r, i)
        <4>1. Visit(r, i) \in Stages /\ Slot(r, i) \in SlotType
          BY <1>1, <1>3, <3>1
        <4> QED
          BY <3>1, <4>1, StTyped
      <3> QED
        BY <1>3, <3>1, <3>2
    <2>2. ASSUME NEW i \in Slots(r) \ now
          PROVE  slots[i] = Slot(r, i) /\ slots[i] \in SlotType
      BY <1>1, <2>2 DEF Slot
    <2> QED
      BY <2>1, <2>2
  <1>5. slots \in Payloads
    BY <1>1, <1>4, Rewritten DEF Slots
  <1>6. /\ req' = [req EXCEPT ![r] = new]
        /\ config' = config /\ panel' = panel /\ stored' = stored /\ sent' = sent
        /\ served' = served
    BY <1>2 DEF Enter
  <1> HIDE DEF slots
  <1>7. /\ new \in ReqType /\ new.slots = slots /\ new.pc = req[r].pc
        /\ new.state = req[r].state /\ new.strict = req[r].strict /\ new.text = req[r].text
    BY <1>1, <1>5 DEF ReqType
  <1> HIDE DEF new
  <1>8. "new" \notin Outcomes
    BY DEF Outcomes
  <1>9. \A i \in Slots(r) :
          \/ new.slots[i] = Slot(r, i)
          \/ /\ Slot(r, i).st \notin Outcomes
             /\ new.slots[i].st = "unscanned" => r \notin Captures \/ ~ config.engine
             /\ Backed(new.slots[i])
    BY <1>4, <1>7, <1>8 DEF Backed
  <1>10. /\ Good(r, new, panel.unused)
         /\ (req[r].pc \in After /\ req[r].state = "applied"
               => new.pc \in After /\ new.state = "applied")
    BY <1>4, <1>7, <1>9, Reslotted
  <1> QED
    BY <1>1, <1>6, <1>7, <1>10, UpdateOnly

-----------------------------------------------------------------------------
(* The OCR engine *)

\* One slot gets an outcome, or waits for one; the request may fail with it.
LEMMA Settling ==
  ASSUME CaptureInv, NEW r \in Requests, NEW i \in Slots(r), Slot(r, i).st \notin Outcomes,
         NEW slot \in SlotType, slot.st # "unscanned",
         Backed(slot), NEW pc \in Places,
         pc = req[r].pc \/ (req[r].pc = "walk" /\ pc = "error"),
         req' = [req EXCEPT ![r] = [req[r] EXCEPT !.pc = pc,
                                      !.slots = [req[r].slots EXCEPT ![i] = slot]]],
         config' = config, panel' \in PanelType, panel'.unused = panel.unused,
         stored' = stored, sent' = sent, served' = served
  PROVE  CaptureInv'
  <1>1. /\ req[r] \in ReqType /\ req[r].slots \in Payloads
        /\ \A n \in Slots(r) : Slot(r, n) \in SlotType
    BY ReqTyped
  <1> DEFINE slots == [req[r].slots EXCEPT ![i] = slot]
             new == [req[r] EXCEPT !.pc = pc, !.slots = slots]
  <1>3. req[r].slots \in [Slots(r) -> SlotType]
    BY <1>1, Slotted DEF Slots
  <1>4. /\ slots \in [Slots(r) -> SlotType]
        /\ slots[i] = slot /\ \A n \in Slots(r) \ {i} : slots[n] = Slot(r, n)
    BY <1>3 DEF Slot
  <1>5. slots \in Payloads /\ DOMAIN slots = Slots(r)
    BY <1>1, <1>4, Rewritten DEF Slots
  <1> HIDE DEF slots
  <1>6. /\ new \in ReqType /\ new.slots = slots /\ new.pc = pc
        /\ new.state = req[r].state /\ new.strict = req[r].strict /\ new.text = req[r].text
    BY <1>1, <1>5 DEF ReqType
  <1>7. req' = [req EXCEPT ![r] = new]
    BY DEF slots
  <1> HIDE DEF new
  <1>8. \A n \in Slots(r) :
          \/ new.slots[n] = Slot(r, n)
          \/ /\ Slot(r, n).st \notin Outcomes
             /\ new.slots[n].st = "unscanned" => r \notin Captures \/ ~ config.engine
             /\ Backed(new.slots[n])
    BY <1>4, <1>6
  <1>9. /\ Good(r, new, panel.unused)
        /\ (req[r].pc \in After /\ req[r].state = "applied"
              => new.pc \in After /\ new.state = "applied")
    BY <1>5, <1>6, <1>8, Reslotted
  <1> QED
    BY <1>6, <1>7, <1>9, UpdateOnly

\* The same without a failure of the request.
LEMMA SettlesOne ==
  ASSUME CaptureInv, NEW r \in Requests, NEW i \in Slots(r), Slot(r, i).st \notin Outcomes,
         NEW slot \in SlotType, slot.st # "unscanned",
         Backed(slot),
         req' = [req EXCEPT ![r].slots[i] = slot],
         config' = config, panel' = panel, stored' = stored, sent' = sent, served' = served
  PROVE  CaptureInv'
  <1>1. /\ req[r] \in ReqType /\ req \in [Requests -> ReqType] /\ panel \in PanelType
        /\ req[r].slots \in [Slots(r) -> SlotType]
    BY ReqTyped, Slotted DEF Slots
  <1> DEFINE pc == req[r].pc
             slots == [req[r].slots EXCEPT ![i] = slot]
  <1>2. pc \in Places
    BY <1>1 DEF ReqType
  <1>3. [req[r] EXCEPT !.slots = slots] = [req[r] EXCEPT !.pc = pc, !.slots = slots]
    <2> HIDE DEF slots
    <2> QED
      BY <1>1 DEF ReqType
  <1>4. req' = [req EXCEPT ![r] = [req[r] EXCEPT !.slots = slots]]
    OBVIOUS
  <1>5. req' = [req EXCEPT ![r] = [req[r] EXCEPT !.pc = pc, !.slots = slots]]
    BY <1>3, <1>4
  <1> QED
    BY <1>1, <1>2, <1>5, Settling

\* A slot moves on, and the engine has said nothing.
LEMMA SettlesUnread ==
  ASSUME CaptureInv, NEW r \in Requests, NEW i \in Slots(r), Slot(r, i).st \notin Outcomes,
         NEW st \in Stages \ {"unscanned", "certified"}, Settle(r, i, st),
         config' = config, panel' = panel, stored' = stored, sent' = sent, served' = served
  PROVE  CaptureInv'
  <1> DEFINE slot == [Slot(r, i) EXCEPT !.st = st]
  <1>1. slot \in SlotType /\ slot.st = st
    BY ReqTyped DEF SlotType
  <1>2. req' = [req EXCEPT ![r].slots[i] = slot]
    BY DEF Settle, Slot
  <1> HIDE DEF slot
  <1> QED
    BY <1>1, <1>2, SettlesOne DEF Backed

LEMMA Waiting == {"call", "waiting"} \intersect Outcomes = {}
  BY DEF Outcomes

LEMMA EngineSteps ==
  ASSUME CaptureInv, NEW r \in Requests, EngineNext(r)
  PROVE  CaptureInv'
  <1>0. {"waiting", "failed"} \subseteq Stages \ {"unscanned", "certified"}
    BY DEF Stages, Outcomes
  <1>1. PICK i \in Slots(r) : AskWorker(r, i) \/ ReadWords(r, i) \/ TimeOut(r, i)
    BY DEF EngineNext
  <1>2. CASE AskWorker(r, i)
    <2>1. /\ Slot(r, i).st \notin Outcomes /\ Settle(r, i, "waiting")
          /\ config' = config /\ panel' = panel /\ stored' = stored /\ sent' = sent
          /\ served' = served
      BY <1>2, Waiting DEF AskWorker
    <2> QED
      BY <1>0, <2>1, SettlesUnread
  <1>3. CASE TimeOut(r, i)
    <2>1. /\ Slot(r, i).st \notin Outcomes /\ Settle(r, i, "failed")
          /\ config' = config /\ panel' = panel /\ stored' = stored /\ sent' = sent
          /\ served' = served
      BY <1>3, Waiting DEF TimeOut
    <2> QED
      BY <1>0, <2>1, SettlesUnread
  <1>4. CASE ReadWords(r, i)
    <2>1. /\ Slot(r, i).st \notin Outcomes
          /\ config' = config /\ stored' = stored /\ sent' = sent /\ served' = served
      BY <1>4, Waiting DEF ReadWords
    <2>2. ASSUME NEW W \in SUBSET Words[Slot(r, i).img], panel' = panel,
                 req' = [req EXCEPT ![r].slots[i] = [@ EXCEPT !.st = "certified", !.read = {W}]]
          PROVE  CaptureInv'
      <3> DEFINE slot == [Slot(r, i) EXCEPT !.st = "certified", !.read = {W}]
      <3>1. Slot(r, i) \in SlotType /\ Slot(r, i).img \in DOMAIN Words
        BY ReqTyped DEF SlotType
      <3>2. {W} \in SUBSET SUBSET Legible
        BY <3>1 DEF Legible
      <3>3. slot \in SlotType /\ slot.st = "certified" /\ slot.read = {W}
        BY <3>1, <3>2 DEF SlotType, Stages, Outcomes
      <3>4. req' = [req EXCEPT ![r].slots[i] = slot]
        BY <2>2 DEF Slot
      <3> HIDE DEF slot
      <3>5. Backed(slot) /\ slot.st # "unscanned"
        BY <3>3 DEF Backed
      <3> QED
        BY <2>1, <2>2, <3>3, <3>4, <3>5, SettlesOne
    <2>4. ASSUME Settle(r, i, "failed"), panel' = panel
          PROVE  CaptureInv'
      BY <1>0, <2>1, <2>4, SettlesUnread
    <2>3. ASSUME req' = [req EXCEPT ![r].slots[i].st = "failed",
                                    ![r].pc = IF @ = "walk" THEN "error" ELSE @],
                 IF At(r, "walk") THEN Heard(r, FALSE) ELSE UNCHANGED panel
          PROVE  CaptureInv'
      <3> DEFINE pc == IF req[r].pc = "walk" THEN "error" ELSE req[r].pc
                 slot == [Slot(r, i) EXCEPT !.st = "failed"]
                 slots == [req[r].slots EXCEPT ![i] = slot]
      <3>1. /\ req[r] \in ReqType /\ req \in [Requests -> ReqType] /\ panel \in PanelType
            /\ req[r].slots \in [Slots(r) -> SlotType]
        BY ReqTyped, Slotted DEF Slots
      <3>2. pc \in Places /\ (pc = req[r].pc \/ (req[r].pc = "walk" /\ pc = "error"))
        BY <3>1 DEF ReqType, Places
      <3>3. req' = [req EXCEPT ![r] = [req[r] EXCEPT !.pc = pc, !.slots = slots]]
        <4>1. req' = [req EXCEPT ![r] = [[req[r] EXCEPT !.slots = slots] EXCEPT !.pc = pc]]
          BY <2>3, <3>1 DEF ReqType, Slot
        <4>2. [[req[r] EXCEPT !.slots = slots] EXCEPT !.pc = pc]
                = [req[r] EXCEPT !.pc = pc, !.slots = slots]
          <5> HIDE DEF slots, pc
          <5> QED
            BY <3>1 DEF ReqType
        <4> QED
          BY <4>1, <4>2
      <3>4. panel' \in PanelType /\ panel'.unused = panel.unused
        BY <2>3, <3>1, HeardTyped
      <3>5. slot \in SlotType /\ slot.st = "failed"
        BY ReqTyped DEF SlotType, Stages, Outcomes
      <3> HIDE DEF pc, slot
      <3> QED
        BY <2>1, <3>2, <3>3, <3>4, <3>5, Settling DEF Backed
    <2> QED
      BY <1>4, <2>2, <2>3, <2>4 DEF ReadWords
  <1> QED
    BY <1>1, <1>2, <1>3, <1>4

LEMMA WorkerSteps ==
  ASSUME CaptureInv, WorkerReady \/ WorkerFails
  PROVE  CaptureInv'
  <1>1. panel \in PanelType
    BY DEF CaptureInv, TypeInv
  <1>2. CASE WorkerReady
    BY <1>1, <1>2, PanelOnly DEF WorkerReady
  <1>3. CASE WorkerFails
    <2> DEFINE Cut(r) == [i \in Slots(r) |-> IF req[r].slots[i].st = "waiting"
                                            THEN [req[r].slots[i] EXCEPT !.st = "failed"]
                                            ELSE req[r].slots[i]]
               Cut1(r) == [req[r] EXCEPT !.slots = Cut(r)]
    <2>1. /\ req' = [r \in Requests |-> Cut1(r)]
          /\ config' = config /\ panel' = panel /\ stored' = stored /\ sent' = sent
          /\ served' = served
      BY <1>3 DEF WorkerFails
    <2>2. ASSUME NEW r \in Requests
          PROVE  /\ Cut1(r) \in ReqType /\ Good(r, Cut1(r), panel.unused)
                 /\ (req[r].pc \in After /\ req[r].state = "applied"
                       => Cut1(r).pc \in After /\ Cut1(r).state = "applied")
      <3>1. /\ req[r] \in ReqType /\ req[r].slots \in Payloads
            /\ \A i \in Slots(r) : Slot(r, i) \in SlotType
        BY ReqTyped
      <3>2. ASSUME NEW i \in Slots(r)
            PROVE  /\ Cut(r)[i] \in SlotType
                   /\ \/ Cut(r)[i] = Slot(r, i)
                      \/ Slot(r, i).st = "waiting" /\ Cut(r)[i].st = "failed"
        <4>1. CASE Slot(r, i).st = "waiting"
          <5>1. Cut(r)[i] = [Slot(r, i) EXCEPT !.st = "failed"]
            BY <4>1 DEF Slot
          <5> QED
            BY <3>1, <4>1, <5>1 DEF SlotType, Stages, Outcomes
        <4>2. CASE Slot(r, i).st # "waiting"
          BY <3>1, <4>2 DEF Slot
        <4> QED
          BY <4>1, <4>2
      <3>3. Cut(r) \in [Slots(r) -> SlotType] /\ DOMAIN Cut(r) = Slots(r)
        BY <3>2
      <3>4. Cut(r) \in Payloads
        BY <3>1, <3>3, Rewritten DEF Slots
      <3> DEFINE slots == Cut(r)
                 new == Cut1(r)
      <3>5. /\ slots \in Payloads /\ DOMAIN slots = Slots(r)
            /\ \A i \in Slots(r) : \/ slots[i] = Slot(r, i)
                                   \/ Slot(r, i).st = "waiting" /\ slots[i].st = "failed"
        BY <3>2, <3>3, <3>4
      <3>6. new = [req[r] EXCEPT !.slots = slots]
        OBVIOUS
      <3> HIDE DEF slots, new
      <3>7. /\ new \in ReqType /\ new.slots = slots /\ new.pc = req[r].pc
            /\ new.state = req[r].state /\ new.strict = req[r].strict /\ new.text = req[r].text
        BY <3>1, <3>5, <3>6 DEF ReqType
      <3>8. \A i \in Slots(r) :
              \/ new.slots[i] = Slot(r, i)
              \/ /\ Slot(r, i).st \notin Outcomes
                 /\ new.slots[i].st = "unscanned" => r \notin Captures \/ ~ config.engine
                 /\ Backed(new.slots[i])
        BY <3>5, <3>7, Waiting DEF Backed
      <3>9. /\ Good(r, new, panel.unused)
            /\ (req[r].pc \in After /\ req[r].state = "applied"
                  => new.pc \in After /\ new.state = "applied")
        BY <3>5, <3>7, <3>8, Reslotted
      <3> QED
        BY <3>7, <3>9 DEF new
    <2> HIDE DEF Cut1
    <2>3. req' \in [Requests -> ReqType] /\ \A r \in Requests : req'[r] = Cut1(r)
      BY <2>1, <2>2
    <2>4. \A r \in Requests : Good(r, req[r], panel.unused)'
      BY <2>1, <2>2, <2>3 DEF Good, Unscanned
    <2>5. ASSUME NEW x \in stored PROVE Kept(x)'
      <3>1. Kept(x) /\ x.by \in Requests
        BY DEF CaptureInv, Kept, Requests
      <3> QED
        BY <2>1, <2>2, <2>3, <3>1 DEF Kept, Masked
    <2>6. (config.engine => \A x \in sent : Masked(x))'
      BY <2>1 DEF CaptureInv, Masked
    <2> QED
      BY <2>1, <2>3, <2>4, <2>5, <2>6 DEF CaptureInv, TypeInv
  <1> QED
    BY <1>2, <1>3

-----------------------------------------------------------------------------
(* What the API does with a walked payload *)

\* What the report says is true of the walk.
LEMMA StateTells ==
  ASSUME CaptureInv, NEW c \in Captures, Walked(c)
  PROVE  /\ State(c) \in States
         /\ State(c) = "applied" => \A i \in Slots(c) : Slot(c, i).st = "certified"
         /\ State(c) = "none" => Slots(c) = {}
         /\ State(c) \in {"failed", "coverage_insufficient"} => ~ req[c].strict
  <1>1. Unscanned(c, req[c])
    BY ReqTyped DEF Good, Requests
  <1>2. \A i \in Slots(c) : Slot(c, i).st \in Outcomes
    BY DEF Walked
  <1>3. State(c) \in States
    BY DEF State, States
  <1>4. ASSUME State(c) = "applied"
        PROVE  \A i \in Slots(c) : Slot(c, i).st = "certified"
    <2>1. config.storage /\ config.engine /\ ~ Some(c, "failed") /\ ~ Some(c, "uncertified")
      BY <1>4 DEF State
    <2>2. \A i \in Slots(c) : Slot(c, i).st # "unscanned"
      BY <1>1, <2>1 DEF Unscanned, Slots, Slot
    <2> QED
      BY <1>2, <2>1, <2>2 DEF Some, Outcomes
  <1>5. State(c) = "none" => Slots(c) = {}
    BY DEF State
  <1>6. State(c) \in {"failed", "coverage_insufficient"} => ~ req[c].strict
    BY DEF State
  <1> QED
    BY <1>3, <1>4, <1>5, <1>6

LEMMA SafeTextClean ==
  ASSUME CaptureInv, NEW c \in Captures
  PROVE  SafeText(c) \in SUBSET Legible /\ Clean(SafeText(c))
  <1>1. \A i \in Slots(c) : Slot(c, i) \in SlotType
    BY ReqTyped DEF Requests
  <1>2. ASSUME NEW i \in {j \in Slots(c) : Slot(c, j).st = "certified"}
        PROVE  LET words == Returned(Slot(c, i)) \ Detected(Returned(Slot(c, i)))
               IN  words \in SUBSET Legible /\ Clean(words)
    BY <1>1, <1>2, ReturnedLegible DEF Clean, Detected
  <1> QED
    BY <1>2 DEF SafeText, Clean

LEMMA Inserts ==
  ASSUME CaptureInv, NEW c \in Captures, Insert(c)
  PROVE  CaptureInv'
  <1>1. /\ c \in Requests /\ req[c] \in ReqType /\ req[c].slots \in Payloads
        /\ Good(c, req[c], panel.unused) /\ panel \in PanelType
        /\ Walked(c) /\ req[c].pc = "walk"
        /\ config' = config /\ stored' = stored /\ sent' = sent /\ served' = served
    BY ReqTyped DEF Requests, Insert, Walked, At
  <1>2. c \notin config.old /\ c \notin panel.unused
    BY <1>1 DEF Good
  <1>3. ~ (req[c].pc \in After)
    BY <1>1 DEF After
  <1> DEFINE state == IF ~ config.media /\ ~ NoneLeft(State(c))
                      THEN "media_unavailable" ELSE State(c)
             text == SafeText(c)
             slots == Extract(req[c].slots)
             new == [req[c] EXCEPT !.pc = "store", !.slots = slots, !.text = text, !.state = state]
  <1>4. ASSUME req' = [req EXCEPT ![c] = new], panel' = panel
        PROVE  CaptureInv'
    <2>1. /\ state \in States
          /\ state = "applied" => \A i \in Slots(c) : Slot(c, i).st = "certified"
          /\ state = "none" => Slots(c) = {}
          /\ state \in {"failed", "coverage_insufficient"} => ~ req[c].strict
      BY <1>1, StateTells DEF States
    <2>2. text \in SUBSET Legible /\ Clean(text)
      BY SafeTextClean
    <2>3. /\ slots \in Payloads /\ DOMAIN slots = Slots(c)
          /\ \A i \in Slots(c) : /\ ~ slots[i].inline /\ slots[i].st = Slot(c, i).st
                                 /\ slots[i].read = Slot(c, i).read
      BY <1>1, Stripped DEF Extract, Slots, Slot
    <2> HIDE DEF slots, text, state
    <2>4. /\ new \in ReqType /\ new.pc = "store" /\ new.slots = slots /\ new.text = text
          /\ new.state = state /\ new.strict = req[c].strict
      BY <1>1, <2>1, <2>2, <2>3 DEF ReqType, Places
    <2> HIDE DEF new
    <2>5. \A i \in Slots(c) : Slot(c, i).st \in Outcomes
      BY <1>1 DEF Walked
    <2>6. Honest(new)
      BY <2>1, <2>2, <2>3, <2>4, <2>5 DEF Honest
    <2>7. Unscanned(c, new) /\ Answered(new)
      BY <1>1, <2>3, <2>4 DEF Good, Unscanned, Answered, Backed, Slots, Slot
    <2>8. Good(c, new, panel.unused)
      BY <1>2, <2>6, <2>7 DEF Good
    <2> QED
      BY <1>1, <1>3, <1>4, <2>4, <2>8, UpdateOnly
  <1>5. ASSUME To(c, "error"), Heard(c, FALSE)
        PROVE  CaptureInv'
    <2> DEFINE dead == [req[c] EXCEPT !.pc = "error"]
    <2>1. panel' \in PanelType /\ panel'.unused = panel.unused
      BY <1>1, <1>5, HeardTyped
    <2>2. "error" \in Places /\ ~ ("error" \in After)
      BY DEF Places, After
    <2>3. /\ dead \in ReqType /\ req' = [req EXCEPT ![c] = dead]
          /\ Good(c, dead, panel'.unused)
      BY <1>1, <1>2, <1>3, <1>5, <2>1, <2>2, Moves
    <2> HIDE DEF dead
    <2> QED
      BY <1>1, <1>3, <2>1, <2>3, UpdateOnly
  <1>6. \/ req' = [req EXCEPT ![c] = new] /\ panel' = panel
        \/ To(c, "error") /\ Heard(c, FALSE)
    BY DEF Insert
  <1> QED
    BY <1>4, <1>5, <1>6

\* A request between the insertion of its moment and its answer.
LEMMA InsertedGood ==
  ASSUME CaptureInv, NEW c \in Captures, req[c].pc \in {"store", "reply"}
  PROVE  /\ c \in Requests /\ c \notin config.old /\ c \notin panel.unused
         /\ req[c].pc \in After /\ Honest(req[c])
  BY ReqTyped DEF Good, After, Requests

\* An image goes into the pipeline only from a certified slot.
LEMMA StoresImage ==
  ASSUME CaptureInv, NEW c \in Captures, StoreImage(c)
  PROVE  CaptureInv'
  <1>1. /\ req[c].pc = "store" /\ Safe(req[c].state) /\ panel \in PanelType
        /\ config' = config /\ panel' = panel /\ sent' = sent /\ served' = served
    BY ReqTyped DEF StoreImage, At, Requests
  <1>2. /\ c \in Requests /\ c \notin config.old /\ c \notin panel.unused
        /\ req[c].pc \in After /\ Honest(req[c])
    BY <1>1, InsertedGood
  <1>3. ASSUME NEW i \in Slots(c), stored' = stored \union {Image(c, i)}, req' = req
        PROVE  CaptureInv'
    <2>1. Slot(c, i) \in SlotType
      BY <1>2, ReqTyped
    <2>2. req[c].state = "applied" /\ Slot(c, i).st = "certified"
      BY <1>1, <1>2 DEF Safe, Honest, Slots, Slot
    <2>3. PICK W : Slot(c, i).read = {W}
      BY <1>2, <2>2, ReqTyped DEF Good, Answered, Backed, Slots, Slot
    <2>4. /\ Slot(c, i).img \in DOMAIN Words /\ Slot(c, i).read \in SUBSET SUBSET Legible
          /\ i \in Nat /\ Shown(Slot(c, i)) \in SUBSET Legible
      BY <1>2, <2>1, ShownLegible, ReqTyped, Slotted DEF SlotType, Slots
    <2>5. Image(c, i) \in Media /\ Image(c, i).by = c
      BY <1>2, <2>4 DEF Image, Media
    <2>6. Kept(Image(c, i))
      <3>1. Masked(Image(c, i))
        BY <2>2, <2>3, CertifiedMasked
      <3> QED
        BY <1>2, <2>2, <2>5, <3>1 DEF Kept
    <2>7. \A x \in stored' : Kept(x)'
      BY <1>1, <1>3, <2>6 DEF CaptureInv, Kept, Masked
    <2>8. \A q \in Requests : Good(q, req[q], panel.unused)'
      BY <1>1, <1>3 DEF CaptureInv, Good, Unscanned
    <2>9. (config.engine => \A x \in sent : Masked(x))'
      BY <1>1 DEF CaptureInv, Masked
    <2>10. stored' \subseteq Media
      BY <1>3, <2>5 DEF CaptureInv, TypeInv
    <2> QED
      BY <1>1, <1>3, <2>7, <2>8, <2>9, <2>10 DEF CaptureInv, TypeInv
  <1>4. ASSUME To(c, "reply"), stored' = stored
        PROVE  CaptureInv'
    <2> DEFINE new == [req[c] EXCEPT !.pc = "reply"]
    <2>1. "reply" \in Places /\ "reply" \in After /\ req[c].pc # "idle"
      BY <1>1 DEF Places, After
    <2>2. /\ new \in ReqType /\ req' = [req EXCEPT ![c] = new] /\ Good(c, new, panel'.unused)
          /\ (req[c].pc \in After /\ req[c].state = "applied"
                => new.pc \in After /\ new.state = "applied")
      BY <1>1, <1>2, <1>4, <2>1, Moves
    <2> HIDE DEF new
    <2> QED
      BY <1>1, <1>2, <1>4, <2>2, UpdateOnly
  <1>5. \E i \in Slots(c) : \/ stored' = stored \union {Image(c, i)} /\ req' = req
                            \/ To(c, "reply") /\ stored' = stored
    BY DEF StoreImage
  <1> QED
    BY <1>3, <1>4, <1>5

LEMMA StoredAll ==
  ASSUME CaptureInv, NEW c \in Captures, Stored(c)
  PROVE  CaptureInv'
  <1> DEFINE refs == {x \in stored : x.by = c}
             new == [req[c] EXCEPT !.pc = "reply", !.refs = refs]
  <1>1. /\ req[c].pc = "store" /\ panel \in PanelType
        /\ config' = config /\ panel' = panel /\ stored' = stored /\ sent' = sent
        /\ served' = served /\ req' = [req EXCEPT ![c] = new]
    BY ReqTyped DEF Stored, At, Requests
  <1>2. /\ c \in Requests /\ c \notin config.old /\ c \notin panel.unused
        /\ req[c].pc \in After /\ Honest(req[c])
    BY <1>1, InsertedGood
  <1>3. refs \in SUBSET Media
    BY DEF CaptureInv, TypeInv
  <1>4. req[c] \in ReqType /\ Good(c, req[c], panel.unused)
    BY <1>2, ReqTyped
  <1> HIDE DEF refs
  <1>5. /\ new \in ReqType /\ new.pc = "reply" /\ new.slots = req[c].slots
        /\ new.state = req[c].state /\ new.strict = req[c].strict /\ new.text = req[c].text
    BY <1>3, <1>4 DEF ReqType, Places
  <1> HIDE DEF new
  <1>6. Good(c, new, panel.unused)
    BY <1>2, <1>4, <1>5 DEF Good, Unscanned, Answered, Backed, Honest
  <1>7. new.pc \in After
    BY <1>5 DEF After
  <1> QED
    BY <1>1, <1>2, <1>5, <1>6, <1>7, UpdateOnly

LEMMA Replies ==
  ASSUME CaptureInv, NEW c \in Captures, Reply(c)
  PROVE  CaptureInv'
  <1> DEFINE new == [req[c] EXCEPT !.pc = "saved"]
  <1>1. /\ req[c].pc = "reply" /\ To(c, "saved") /\ panel \in PanelType
        /\ config' = config /\ stored' = stored /\ sent' = sent /\ served' = served
        /\ Heard(c, TRUE)
    BY ReqTyped DEF Reply, At, Requests
  <1>2. /\ c \in Requests /\ c \notin config.old /\ c \notin panel.unused
        /\ req[c].pc \in After /\ Honest(req[c])
    BY <1>1, InsertedGood
  <1>3. panel' \in PanelType /\ panel'.unused = panel.unused
    BY <1>1, HeardTyped
  <1>4. "saved" \in Places /\ "saved" \in After
    BY DEF Places, After
  <1>5. /\ new \in ReqType /\ req' = [req EXCEPT ![c] = new] /\ Good(c, new, panel'.unused)
        /\ (req[c].pc \in After /\ req[c].state = "applied"
              => new.pc \in After /\ new.state = "applied")
    BY <1>1, <1>2, <1>3, <1>4, Moves
  <1> HIDE DEF new
  <1> QED
    BY <1>1, <1>2, <1>3, <1>5, UpdateOnly

\* The sanitizer leaves no image in a reply, whatever the row holds.
LEMMA Shows ==
  ASSUME CaptureInv, NEW c \in Captures, Show(c)
  PROVE  CaptureInv'
  <1> DEFINE new == [req[c] EXCEPT !.pc = "done"]
  <1>1. /\ req[c].pc = "saved" /\ To(c, "done") /\ panel \in PanelType /\ c \in Requests
        /\ req[c].slots \in Payloads /\ Good(c, req[c], panel.unused)
        /\ config' = config /\ panel' = panel /\ stored' = stored /\ sent' = sent
    BY ReqTyped DEF Show, At, Requests
  <1>2. served' = {}
    <2>1. \A i \in Slots(c) : ~ Sanitize(req[c].slots)[i].inline
      BY <1>1, Stripped DEF Sanitize, Slots
    <2>2. served' = served \union {Slot(c, i).img :
                       i \in {j \in Slots(c) : Sanitize(req[c].slots)[j].inline}}
      BY DEF Show
    <2>3. {j \in Slots(c) : Sanitize(req[c].slots)[j].inline} = {}
      BY <2>1
    <2>4. served = {}
      BY DEF CaptureInv
    <2> QED
      BY <2>2, <2>3, <2>4
  <1>3. "done" \in Places /\ "done" \in After /\ req[c].pc \in After /\ req[c].pc # "idle"
    BY <1>1 DEF Places, After
  <1>4. /\ new \in ReqType /\ req' = [req EXCEPT ![c] = new] /\ Good(c, new, panel'.unused)
        /\ (req[c].pc \in After /\ req[c].state = "applied"
              => new.pc \in After /\ new.state = "applied")
    BY <1>1, <1>3, Moves
  <1> HIDE DEF new
  <1>5. /\ config' \in Environments /\ panel' \in PanelType /\ req' \in [Requests -> ReqType]
        /\ \A q \in Requests : Good(q, req[q], panel.unused)'
        /\ \A x \in stored : Kept(x)'
    BY <1>1, <1>4, Update
  <1>6. (config.engine => \A x \in sent : Masked(x))'
    BY <1>1 DEF CaptureInv, Masked
  <1>7. stored' \subseteq Media
    BY <1>1 DEF CaptureInv, TypeInv
  <1> QED
    BY <1>1, <1>2, <1>5, <1>6, <1>7 DEF CaptureInv, TypeInv

\* While there is an engine, only certified frames reach the model.
LEMMA Answers ==
  ASSUME CaptureInv, NEW q \in Asks, Answer(q)
  PROVE  CaptureInv'
  <1> DEFINE new == [req[q] EXCEPT !.pc = "answer"]
  <1>1. /\ req[q].pc = "walk" /\ To(q, "answer") /\ panel \in PanelType /\ q \in Requests
        /\ Good(q, req[q], panel.unused)
        /\ config' = config /\ panel' = panel /\ stored' = stored /\ served' = served
    BY ReqTyped DEF Answer, Walked, At, Requests
  <1>2. /\ "answer" \in Places /\ ~ ("answer" \in After) /\ ~ (req[q].pc \in After)
        /\ q \notin config.old /\ req[q].pc # "idle"
    BY <1>1 DEF Places, After, Good
  <1>3. /\ new \in ReqType /\ req' = [req EXCEPT ![q] = new] /\ Good(q, new, panel'.unused)
    BY <1>1, <1>2, Moves
  <1> HIDE DEF new
  <1>4. /\ config' \in Environments /\ panel' \in PanelType /\ req' \in [Requests -> ReqType]
        /\ \A p \in Requests : Good(p, req[p], panel.unused)'
        /\ \A x \in stored : Kept(x)'
    BY <1>1, <1>2, <1>3, Update
  <1>5. ASSUME config.engine, NEW x \in sent'
        PROVE  Masked(x)
    <2>1. CASE x \in sent
      BY <1>5, <2>1 DEF CaptureInv
    <2>2. CASE x \notin sent
      <3>1. PICK i \in Slots(q) : Slot(q, i).st = "certified" /\ x = Image(q, i)
        BY <1>5, <2>2 DEF Answer
      <3>2. PICK W : Slot(q, i).read = {W}
        BY <1>1, <3>1 DEF Good, Answered, Backed, Slots, Slot
      <3> QED
        BY <3>1, <3>2, CertifiedMasked
    <2> QED
      BY <2>1, <2>2
  <1>6. (config.engine => \A x \in sent : Masked(x))'
    BY <1>1, <1>5 DEF Masked
  <1>7. stored' \subseteq Media /\ served' = {}
    BY <1>1 DEF CaptureInv, TypeInv
  <1> QED
    BY <1>1, <1>4, <1>6, <1>7 DEF CaptureInv, TypeInv

LEMMA AnswerEnding ==
  ASSUME CaptureInv, NEW q \in Asks, AnswerEnds(q)
  PROVE  CaptureInv'
  <1>1. /\ req[q].pc = "answer" /\ panel \in PanelType /\ q \in Requests
        /\ Good(q, req[q], panel.unused)
        /\ config' = config /\ panel' = panel /\ stored' = stored /\ sent' = sent
        /\ served' = served
    BY ReqTyped DEF AnswerEnds, At, Requests
  <1>2. /\ ~ (req[q].pc \in After) /\ q \notin config.old /\ req[q].pc # "idle"
        /\ "done" \in Places /\ "error" \in Places
    BY <1>1 DEF Places, After, Good
  <1>3. ASSUME NEW pc \in {"done", "error"}, To(q, pc)
        PROVE  CaptureInv'
    <2> DEFINE new == [req[q] EXCEPT !.pc = pc]
    <2>1. pc \in Places
      BY <1>2
    <2>2. /\ new \in ReqType /\ req' = [req EXCEPT ![q] = new] /\ Good(q, new, panel'.unused)
      BY <1>1, <1>2, <1>3, <2>1, Moves
    <2> HIDE DEF new
    <2> QED
      BY <1>1, <1>2, <2>2, UpdateOnly
  <1> QED
    BY <1>3 DEF AnswerEnds

-----------------------------------------------------------------------------
(* The theorems *)

\* Every post, question, panel and stored image is as CaptureInv says, for any number
\* of requests, any payloads and any failures: what a walk has written and reported
\* is fixed once its moment is inserted (routes-m3.ts, app.ts, image-redaction.ts).
THEOREM CaptureInvariant == Spec => []CaptureInv
  <1>1. Init => CaptureInv
    BY InitCapture
  <1>2. CaptureInv /\ [Next]_vars => CaptureInv'
    <2> SUFFICES ASSUME CaptureInv, [Next]_vars PROVE CaptureInv'
      OBVIOUS
    <2>1. CASE PanelNext
      BY <2>1, PanelMoves
    <2>2. CASE \E c \in Captures : Submit(c) \/ Post(c)
      BY <2>2, Submits, Posts
    <2>3. CASE \E q \in Asks : Ask(q)
      BY <2>3, Asking
    <2>4. ASSUME NEW r \in Requests, Handle(r)
          PROVE  CaptureInv'
      <3>1. CASE Enter(r) \/ EngineNext(r)
        BY <3>1, Enters, EngineSteps
      <3>2. CASE r \in Captures /\ (Insert(r) \/ StoreImage(r) \/ Stored(r) \/ Reply(r) \/ Show(r))
        BY <3>2, Inserts, StoresImage, StoredAll, Replies, Shows
      <3>3. CASE r \in Asks /\ (Answer(r) \/ AnswerEnds(r))
        BY <3>3, Answers, AnswerEnding
      <3> QED
        BY <2>4, <3>1, <3>2, <3>3 DEF Handle
    <2>5. CASE WorkerReady \/ WorkerFails
      BY <2>5, WorkerSteps
    <2>6. CASE UNCHANGED vars
      <3>1. panel \in PanelType
        BY DEF CaptureInv, TypeInv
      <3> QED
        BY <2>6, <3>1, PanelOnly DEF vars
    <2> QED
      BY <2>1, <2>2, <2>3, <2>4, <2>5, <2>6 DEF Next, PanelNext
  <1> QED
    BY <1>1, <1>2, PTL DEF Spec

\* An image is stored or, while there is an engine, sent to a model only once the
\* engine has answered for it and without any sensitive word of the answer, and no
\* reply or new row carries an image inline, for any number of posts and questions, any
\* payload, any answer of the engine and any failure (image-redaction.ts,
\* visual-redaction.ts, ocr.ts, legacy-media.ts).  Words the engine misses stay legible.
THEOREM SecretsStayMasked == Spec => []SecretsMasked
  <1>1. CaptureInv => SecretsMasked
    <2> SUFFICES ASSUME CaptureInv PROVE SecretsMasked
      OBVIOUS
    <2>1. \A x \in stored : Masked(x)
      BY DEF CaptureInv, Kept
    <2>2. config.engine => \A x \in sent : Masked(x)
      BY DEF CaptureInv
    <2>3. ASSUME NEW c \in Captures, Inserted(c), NEW i \in Slots(c)
          PROVE  ~ Slot(c, i).inline
      <3>1. Honest(req[c])
        BY <2>3, ReqTyped DEF Inserted, Good, After, Requests
      <3> QED
        BY <3>1 DEF Honest, Slots, Slot
    <2> QED
      BY <2>1, <2>2, <2>3 DEF SecretsMasked, CaptureInv
  <1> QED
    BY <1>1, CaptureInvariant, PTL

\* The redaction report of a moment stays true of its pixels: "applied" speaks for
\* every image, only then is one stored, and a strict or production post never
\* keeps an unsafe image (image-redaction.ts, app.ts).
THEOREM ReportStaysHonest == Spec => []ReportIsHonest
  <1>1. CaptureInv => ReportIsHonest
    <2> SUFFICES ASSUME CaptureInv, NEW c \in Captures, Inserted(c)
                 PROVE  /\ req[c].state = "applied" =>
                             \A i \in Slots(c) : Slot(c, i).st = "certified"
                        /\ (\E x \in stored : x.by = c) => req[c].state = "applied"
                        /\ req[c].state = "none" => Slots(c) = {}
                        /\ req[c].state \in {"failed", "coverage_insufficient"} => ~ req[c].strict
                        /\ req[c].text \intersect Sensitive = {}
      BY DEF ReportIsHonest
    <2>1. Honest(req[c])
      BY ReqTyped DEF Inserted, Good, After, Requests
    <2>2. (\E x \in stored : x.by = c) => req[c].state = "applied"
      BY DEF CaptureInv, Kept
    <2> QED
      BY <2>1, <2>2 DEF Honest, Slots, Slot, Clean
  <1> QED
    BY <1>1, CaptureInvariant, PTL

\* The panel waits for stray calls only, or for one call that is not stray, in the
\* state that call has set.
PanelOK ==
  \/ panel.calls = panel.stray
  \/ \E x \in Captures \union Shots :
       /\ panel.calls = {x} /\ panel.stray = {}
       /\ \/ x \in Shots /\ panel.state = "capturing"
          \/ x \in Captures /\ panel.state = "submitting" /\ panel.of[x] = panel.draft.shot

\* A call that ends leaves only stray ones behind.
LEMMA EndLeavesStray ==
  ASSUME PanelOK, NEW x \in panel.calls, panel'.calls = panel.calls \ {x},
         panel'.stray = panel.stray \ {x}
  PROVE  PanelOK'
  <1>1. panel.calls \ {x} = panel.stray \ {x}
    BY DEF PanelOK
  <1> QED
    BY <1>1 DEF PanelOK

\* A handler tells the panel of a failure, or of the moment it saved.
LEMMA HandlePanel ==
  ASSUME NEW r \in Requests, Handle(r)
  PROVE  panel' = panel \/ Heard(r, FALSE) \/ (Reply(r) /\ r \in Captures /\ Heard(r, TRUE))
  <1>1. CASE Enter(r)
    BY <1>1 DEF Enter
  <1>2. ASSUME NEW i \in Slots(r), AskWorker(r, i) \/ ReadWords(r, i) \/ TimeOut(r, i)
        PROVE  panel' = panel \/ Heard(r, FALSE)
    BY <1>2 DEF AskWorker, ReadWords, TimeOut
  <1>3. CASE Insert(r)
    BY <1>3 DEF Insert
  <1>4. CASE StoreImage(r) \/ Stored(r) \/ Show(r) \/ Answer(r) \/ AnswerEnds(r)
    BY <1>4 DEF StoreImage, Stored, Show, Answer, AnswerEnds
  <1>5. CASE r \in Captures /\ Reply(r)
    BY <1>5 DEF Reply
  <1> QED
    BY <1>1, <1>2, <1>3, <1>4, <1>5 DEF Handle, EngineNext

LEMMA PanelKept ==
  ASSUME CaptureInv, PanelOK, [Next]_vars
  PROVE  PanelOK'
  <1>1. panel \in PanelType
    BY DEF CaptureInv, TypeInv
  <1>2. ASSUME panel' = panel PROVE PanelOK'
    BY <1>2 DEF PanelOK
  <1>3. ASSUME NEW c, NEW ok \in BOOLEAN, Heard(c, ok) PROVE PanelOK'
    BY <1>1, <1>2, <1>3, HeardTyped, EndLeavesStray
  <1>4. CASE PanelCapture
    <2>1. PICK shot \in panel.shots :
            panel' = [Begin(shot) EXCEPT !.state = "capturing", !.shots = @ \ {shot}]
      BY <1>4 DEF PanelCapture
    <2>2. shot \in Shots
      BY <1>1, <2>1 DEF PanelType
    <2> PICK p : p = Begin(shot)
      OBVIOUS
    <2>3. /\ p \in PanelType /\ p.calls = panel.calls \union {shot}
          /\ p.stray = IF panel.stray = {} THEN {} ELSE panel.stray \union {shot}
      BY <1>1, <2>2, BeginTyped
    <2>4. panel' = [p EXCEPT !.state = "capturing", !.shots = @ \ {shot}]
      BY <2>1
    <2>5. panel'.calls = p.calls /\ panel'.stray = p.stray /\ panel'.state = "capturing"
      BY <2>3, <2>4 DEF PanelType
    <2>6. panel.calls = panel.stray
      BY <1>4 DEF PanelOK, PanelCapture
    <2> QED
      BY <2>2, <2>3, <2>5, <2>6 DEF PanelOK
  <1>5. CASE Cancel
    <2>1. panel' = [panel EXCEPT !.state = "idle", !.draft = NoDraft] /\ panel.state = "confirm"
      BY <1>5 DEF Cancel, Confirming
    <2>2. panel'.calls = panel.calls /\ panel'.stray = panel.stray
      BY <1>1, <2>1 DEF PanelType
    <2>3. panel.calls = panel.stray
      BY <2>1 DEF PanelOK
    <2> QED
      BY <2>2, <2>3 DEF PanelOK
  <1>6. CASE TokenLost
    <2>1. panel' = [panel EXCEPT !.paired = FALSE, !.state = "idle",
                                 !.stray = @ \union panel.calls]
      BY <1>6 DEF TokenLost
    <2>2. panel'.calls = panel.calls /\ panel'.stray = panel.stray \union panel.calls
      BY <1>1, <2>1 DEF PanelType
    <2>3. panel.stray \subseteq panel.calls
      BY DEF PanelOK
    <2> QED
      BY <2>2, <2>3 DEF PanelOK
  <1>7. CASE Pair
    <2>1. panel' = [panel EXCEPT !.paired = TRUE]
      BY <1>7 DEF Pair
    <2>2. /\ panel'.calls = panel.calls /\ panel'.stray = panel.stray
          /\ panel'.state = panel.state /\ panel'.draft = panel.draft /\ panel'.of = panel.of
      BY <1>1, <2>1 DEF PanelType
    <2> QED
      BY <2>2 DEF PanelOK
  <1>8. ASSUME NEW shot, NEW img, Captured(shot, img)
        PROVE  PanelOK'
    <2> PICK p : p = End(shot)
      OBVIOUS
    <2>1. /\ p \in PanelType /\ p.calls = panel.calls \ {shot}
          /\ p.stray = panel.stray \ {shot}
      BY <1>1, EndTyped
    <2>2. \/ panel' = [p EXCEPT !.state = "confirm", !.draft = [shot |-> shot, img |-> img]]
          \/ panel' = [p EXCEPT !.state = "idle"]
      BY <1>8 DEF Captured
    <2>3. panel'.calls = p.calls /\ panel'.stray = p.stray
      BY <2>1, <2>2 DEF PanelType
    <2> QED
      BY <1>8, <2>1, <2>3, EndLeavesStray DEF Captured
  <1>9. ASSUME NEW c \in Captures, Submit(c)
        PROVE  PanelOK'
    <2>1. /\ panel' = [Begin(c) EXCEPT !.state = "submitting", !.unused = @ \ {c},
                                       !.of[c] = panel.draft.shot]
          /\ panel.state = "confirm"
      BY <1>9 DEF Submit, Confirming
    <2> PICK p : p = Begin(c)
      OBVIOUS
    <2>2. /\ p \in PanelType /\ p.calls = panel.calls \union {c} /\ p.draft = panel.draft
          /\ p.stray = IF panel.stray = {} THEN {} ELSE panel.stray \union {c}
      BY <1>1, BeginTyped
    <2>3. panel' = [p EXCEPT !.state = "submitting", !.unused = @ \ {c},
                            !.of[c] = panel.draft.shot]
      BY <2>1
    <2>4. /\ panel'.calls = p.calls /\ panel'.stray = p.stray /\ panel'.draft = p.draft
          /\ panel'.state = "submitting" /\ panel'.of[c] = panel.draft.shot
      BY <2>2, <2>3 DEF PanelType
    <2>5. panel.calls = panel.stray
      BY <2>1 DEF PanelOK
    <2> QED
      BY <2>2, <2>4, <2>5 DEF PanelOK
  <1>10. CASE \/ \E c \in Captures : Post(c)
              \/ \E q \in Asks : Ask(q)
              \/ WorkerReady \/ WorkerFails \/ UNCHANGED vars
    BY <1>2, <1>10 DEF Post, Ask, WorkerReady, WorkerFails, vars
  <1>11. ASSUME NEW c \in Captures, PostFails(c) PROVE PanelOK'
    BY <1>3, <1>11 DEF PostFails
  <1>12. ASSUME NEW r \in Requests, Handle(r) PROVE PanelOK'
    <2>1. panel' = panel \/ Heard(r, FALSE) \/ Heard(r, TRUE)
      BY <1>12, HandlePanel
    <2> QED
      BY <1>2, <1>3, <2>1
  <1> QED
    BY <1>2, <1>4, <1>5, <1>6, <1>7, <1>8, <1>9, <1>10, <1>11, <1>12 DEF Next

\* Only a cancel, a lost token, the news that a post of that draft was saved, or a call
\* that outlived its token takes the draft off the screen: a failure or a lost answer
\* of the one call a paired panel makes never does (App.tsx, api.ts).
THEOREM DraftSurvivesFailure == Spec => FailureKeepsDraft
  <1> DEFINE Allowed ==
        OnScreen # NoDraft /\ OnScreen' # OnScreen =>
          \/ ~ panel'.paired
          \/ panel.state = "confirm" /\ OnScreen' = NoDraft /\ panel'.calls = panel.calls
          \/ \E x \in panel.calls \ panel'.calls :
               \/ x \in panel.stray
               \/ x \in Captures /\ panel.of[x] = panel.draft.shot /\ SavedBy(x)
  <1>1. Init => PanelOK
    <2> SUFFICES ASSUME Init PROVE PanelOK
      OBVIOUS
    <2>1. panel.calls = {} /\ panel.stray = {}
      BY DEF Init
    <2> QED
      BY <2>1 DEF PanelOK
  <1>2. CaptureInv /\ PanelOK /\ [Next]_vars => PanelOK'
    BY PanelKept
  <1>3. CaptureInv /\ PanelOK /\ [Next]_vars => [Allowed]_vars
    <2> SUFFICES ASSUME CaptureInv, PanelOK, Next, OnScreen # NoDraft, OnScreen' # OnScreen
                 PROVE  Allowed
      OBVIOUS
    <2>1. /\ panel \in PanelType /\ req \in [Requests -> ReqType]
          /\ panel.paired /\ panel.state \in {"confirm", "submitting"}
          /\ OnScreen = panel.draft /\ panel' # panel
      BY DEF CaptureInv, TypeInv, OnScreen
    <2>2. ASSUME NEW c, Heard(c, FALSE) PROVE Allowed
      <3>1. /\ c \in panel.calls /\ panel'.calls = panel.calls \ {c}
            /\ panel'.paired = panel.paired
            /\ panel'.state = "confirm" /\ panel'.draft = panel.draft
        BY <2>1, <2>2, HeardTyped
      <3>2. OnScreen' = panel.draft
        BY <2>1, <3>1 DEF OnScreen
      <3> QED
        BY <2>1, <3>2
    <2>3. ASSUME PanelCapture \/ Pair PROVE FALSE
      BY <2>1, <2>3 DEF PanelCapture, Pair
    <2>4. CASE Cancel
      <3>1. panel' = [panel EXCEPT !.state = "idle", !.draft = NoDraft] /\ panel.state = "confirm"
        BY <2>4 DEF Cancel, Confirming
      <3>2. panel'.state = "idle" /\ panel'.calls = panel.calls
        BY <2>1, <3>1 DEF PanelType
      <3> QED
        BY <3>1, <3>2 DEF OnScreen
    <2>5. CASE TokenLost
      <3>1. panel' = [panel EXCEPT !.paired = FALSE, !.state = "idle",
                                   !.stray = @ \union panel.calls]
        BY <2>5 DEF TokenLost
      <3>2. panel'.paired = FALSE
        BY <2>1, <3>1 DEF PanelType
      <3> QED
        BY <3>2
    <2>6. ASSUME NEW shot \in Shots, NEW img, Captured(shot, img) PROVE Allowed
      <3> PICK p : p = End(shot)
        OBVIOUS
      <3>1. p \in PanelType /\ p.calls = panel.calls \ {shot}
        BY <2>1, EndTyped
      <3>2. \/ panel' = [p EXCEPT !.state = "confirm", !.draft = [shot |-> shot, img |-> img]]
            \/ panel' = [p EXCEPT !.state = "idle"]
        BY <2>6 DEF Captured
      <3>3. panel'.calls = panel.calls \ {shot}
        BY <3>1, <3>2 DEF PanelType
      <3>4. shot \in panel.calls
        BY <2>6 DEF Captured
      <3>5. shot \in panel.stray
        BY <2>1, <3>4, Disjoint DEF PanelOK
      <3> QED
        BY <3>3, <3>4, <3>5
    <2>7. ASSUME NEW c \in Captures, Submit(c) PROVE FALSE
      <3>1. panel' = [Begin(c) EXCEPT !.state = "submitting", !.unused = @ \ {c},
                                      !.of[c] = panel.draft.shot]
        BY <2>7 DEF Submit
      <3> PICK p : p = Begin(c)
        OBVIOUS
      <3>2. p \in PanelType /\ p.draft = panel.draft /\ p.paired = panel.paired
        BY <2>1, BeginTyped
      <3>3. panel' = [p EXCEPT !.state = "submitting", !.unused = @ \ {c},
                              !.of[c] = panel.draft.shot]
        BY <3>1
      <3>4. panel'.state = "submitting" /\ panel'.draft = panel.draft /\ panel'.paired
        BY <2>1, <3>2, <3>3 DEF PanelType
      <3>5. OnScreen' = panel.draft
        BY <3>4 DEF OnScreen
      <3> QED
        BY <2>1, <3>5
    <2>8. ASSUME \/ \E c \in Captures : Post(c)
                 \/ \E q \in Asks : Ask(q)
                 \/ WorkerReady \/ WorkerFails
          PROVE  FALSE
      BY <2>1, <2>8 DEF Post, Ask, WorkerReady, WorkerFails
    <2>9. ASSUME NEW r \in Requests, Handle(r) PROVE Allowed
      <3>1. CASE Heard(r, FALSE)
        BY <2>2, <3>1
      <3>2. CASE Reply(r) /\ r \in Captures
        <4>1. At(r, "reply") /\ To(r, "saved") /\ Heard(r, TRUE)
          BY <3>2 DEF Reply
        <4>2. req'[r].pc = "saved"
          BY <2>1, <4>1 DEF To, ReqType, Requests
        <4>3. r \in panel.calls /\ panel'.calls = panel.calls \ {r}
          BY <2>1, <4>1, HeardTyped
        <4>4. r \in panel.stray \/ panel.of[r] = panel.draft.shot
          BY <3>2, <4>3, Disjoint DEF PanelOK
        <4> QED
          BY <3>2, <4>1, <4>2, <4>3, <4>4 DEF SavedBy
      <3> QED
        BY <2>1, <2>9, <3>1, <3>2, HandlePanel
    <2> QED
      BY <2>2, <2>3, <2>4, <2>5, <2>6, <2>7, <2>8, <2>9 DEF Next, PostFails
  <1> QED
    BY <1>1, <1>2, <1>3, CaptureInvariant, PTL DEF Spec, FailureKeepsDraft

=============================================================================
