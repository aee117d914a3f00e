------------------------------- MODULE Capture -------------------------------
(***************************************************************************)
(* How pixels enter the system: the extension's side panel takes a draft   *)
(* and submits it, any client posts a moment with images inline or asks a  *)
(* live question with frames, and the API masks what its OCR engine reads  *)
(* before anything is stored or sent to a model.  The engine is one worker *)
(* shared by every request, started by the first call that needs it; a     *)
(* call waits at most its timeout.                                         *)
(*                                                                         *)
(* An image is what a person can read on it: a set of words, some of them  *)
(* sensitive.  The engine reads any part of them, all or none.  A payload  *)
(* is a sequence of slots in the order they are walked; the slots of one   *)
(* key (an array) are walked concurrently, keys one after another.  The    *)
(* tail of a capture is in Enrichment, stored blobs in MediaLifecycle.     *)
(***************************************************************************)
EXTENDS Naturals, Sequences, FiniteSets

CONSTANTS
  Captures, Asks,   \* the posts of moments and of live questions
  Shots,            \* the captures of a tab the panel makes
  Small, Damaged,   \* the images below the analysis floor, and the undecodable ones
  LikeText,         \* those whose base64 holds what a text detector takes for a number
  Words,            \* [image -> set of words legible to a person]
  Sensitive,        \* the words the detectors classify
  MaxImages,        \* images scanned of one payload (6 in the code)
  Starts,           \* configurations with what each client sends
  Faults            \* what may go wrong

Requests == Captures \union Asks
Drafts == DOMAIN Words \union {"text"}
NoDraft == [shot |-> "none", img |-> "none"]

VARIABLES
  config,   \* the environment the API booted with, the panel's posts and views, the old rows
  panel,    \* [state, draft, paired, ...]: the side panel, and the calls it waits for
  req,      \* [Requests -> record]: a request and the moment it inserts
  worker,   \* the OCR worker: "none", "starting" or "ready"
  stored,   \* {[by, slot, img, shows, read]}: rows and blobs of media
  sent,     \* the same of frames handed to the model
  served    \* images in the payloads of replies

vars == <<config, panel, req, worker, stored, sent, served>>

Outcomes == {"certified", "uncertified", "failed", "unscanned"}

\* read: {W} once the engine has returned the words W for the image.
New(img, key, list) == [img |-> img, key |-> key, list |-> list, st |-> "new", inline |-> TRUE,
                        read |-> {}]

\* A client sends images nobody has looked at yet; a post is not a question.
Fresh == [img : DOMAIN Words, key : Nat, list : BOOLEAN, st : {"new"}, inline : {TRUE},
          read : {{}}]
Environments == [redaction : BOOLEAN, engine : BOOLEAN, storage : BOOLEAN, media : BOOLEAN,
                 production : BOOLEAN, own : SUBSET Captures, old : SUBSET Requests,
                 views : SUBSET Drafts]

ASSUME CaptureOK ==
  /\ MaxImages \in Nat /\ Captures \intersect Asks = {} /\ Captures \intersect Shots = {}
  /\ \A s \in Starts : /\ s.config \in Environments /\ s.strict \in BOOLEAN
                        /\ \A r \in Requests : s.sends[r] \in Seq(Fresh)

Idle(slots, strict) == [pc |-> "idle", slots |-> slots, strict |-> strict, state |-> "none",
                        text |-> {}, refs |-> {}]

Init ==
  \E s \in Starts :
    /\ config = s.config
    /\ panel = [state |-> "idle", draft |-> NoDraft, paired |-> TRUE, unused |-> config.own,
                shots |-> IF config.own = {} THEN {} ELSE Shots,
                calls |-> {}, of |-> [c \in Captures |-> "none"], stray |-> {}]
    /\ req = [r \in Requests |->
                IF r \in config.old THEN [Idle(s.sends[r], TRUE) EXCEPT !.pc = "saved"]
                ELSE Idle(s.sends[r], s.strict)]
    /\ worker = "none" /\ stored = {} /\ sent = {} /\ served = {}

Slots(r) == DOMAIN req[r].slots
Slot(r, i) == req[r].slots[i]
At(r, pc) == req[r].pc = pc
To(r, pc) == req' = [req EXCEPT ![r].pc = pc]

-----------------------------------------------------------------------------
(* The side panel.  A capture holds the visible tab, downscaled, or no     *)
(* image in text_only mode and on protected pages.                         *)
(*                                                                         *)
(* The panel awaits a capture or a post and then sets its state, whatever  *)
(* it is by then; calls holds what it waits for, of the shot each post     *)
(* submits, unused and shots what it has yet to post and to take.  The     *)
(* buttons let no second call start, but a lost token makes the panel idle *)
(* while its call goes on.  stray holds the calls that outlived their      *)
(* token, and those started while such a call is under way.                *)

Begin(call) == [panel EXCEPT !.calls = @ \union {call},
                             !.stray = IF @ = {} THEN @ ELSE @ \union {call}]
End(call) == [panel EXCEPT !.calls = @ \ {call}, !.stray = @ \ {call}]

PanelCapture_Always ==
  /\ panel.paired
  /\ \E shot \in panel.shots :
       panel' = [Begin(shot) EXCEPT !.state = "capturing", !.shots = @ \ {shot}]
  /\ UNCHANGED <<config, req, worker, stored, sent, served>>

PanelCapture ==
  /\ panel.paired /\ panel.state = "idle"
  /\ \E shot \in panel.shots :
       panel' = [Begin(shot) EXCEPT !.state = "capturing", !.shots = @ \ {shot}]
  /\ UNCHANGED <<config, req, worker, stored, sent, served>>

Captured(shot, img) ==
  /\ shot \in panel.calls
  /\ \/ panel' = [End(shot) EXCEPT !.state = "confirm", !.draft = [shot |-> shot, img |-> img]]
     \/ "no_tab" \in Faults /\ panel' = [End(shot) EXCEPT !.state = "idle"]
  /\ UNCHANGED <<config, req, worker, stored, sent, served>>

Draft(img) == IF img = "text" THEN <<>> ELSE <<New(img, 1, FALSE)>>

\* The screen with the buttons Save and Cancel.
Confirming == panel.paired /\ panel.state = "confirm" /\ panel.draft # NoDraft

Submit(c) ==
  /\ Confirming /\ c \in panel.unused
  /\ panel' = [Begin(c) EXCEPT !.state = "submitting", !.unused = @ \ {c},
                               !.of[c] = panel.draft.shot]
  /\ req' = [req EXCEPT ![c].slots = Draft(panel.draft.img)]
  /\ UNCHANGED <<config, worker, stored, sent, served>>

Cancel ==
  /\ Confirming
  /\ panel' = [panel EXCEPT !.state = "idle", !.draft = NoDraft]
  /\ UNCHANGED <<config, req, worker, stored, sent, served>>

(* A 401 to any call of the extension, or a disconnect, empties the token: *)
(* the Connect screen covers the panel, idle behind it.  The draft stays,  *)
(* and a call under way still sets the state when it ends.                 *)
TokenLost ==
  /\ "token_lost" \in Faults
  /\ panel' = [panel EXCEPT !.paired = FALSE, !.state = "idle", !.stray = @ \union panel.calls]
  /\ UNCHANGED <<config, req, worker, stored, sent, served>>

Pair ==
  /\ ~ panel.paired
  /\ panel' = [panel EXCEPT !.paired = TRUE]
  /\ UNCHANGED <<config, req, worker, stored, sent, served>>

Heard_Clear(c, ok) ==
  panel' = IF c \in panel.calls THEN [End(c) EXCEPT !.state = "idle", !.draft = NoDraft]
           ELSE panel

(* What the panel does with the end of a post of its own: a success clears *)
(* the draft, a failure brings it back for another try.                    *)
Heard(c, ok) ==
  panel' = IF c \notin panel.calls THEN panel
           ELSE IF ok THEN [End(c) EXCEPT !.state = "idle", !.draft = NoDraft]
           ELSE [End(c) EXCEPT !.state = "confirm"]

(* The post fails for the panel at any time: refused with a 401, or its    *)
(* connection gone before the answer.  The API may still get it, or have   *)
(* saved the moment.                                                       *)
PostFails(c) ==
  /\ "lost_reply" \in Faults /\ c \in panel.calls /\ Heard(c, FALSE)
  /\ UNCHANGED <<config, req, worker, stored, sent, served>>

-----------------------------------------------------------------------------
(* The walk over a payload. *)

(* No image stays in the JSON, whatever its depth: the images dropped, the *)
(* images that leave for the media pipeline, those of an older row.        *)
Strip(slots) == [i \in DOMAIN slots |-> [slots[i] EXCEPT !.inline = FALSE]]

Extract_Fields(slots) == [i \in DOMAIN slots |-> [slots[i] EXCEPT !.inline = slots[i].list]]
Extract(slots) == Strip(slots)

Sanitize(slots) == Strip(slots)

(* The words the detectors find among those the engine returned. *)
Detected(W) == W \intersect Sensitive

(* Text redaction leaves data URLs alone as values of an object, and scans *)
(* them as text in an array.                                               *)
Broken(s) == s.img \in Damaged \/ (config.redaction /\ s.list /\ s.img \in LikeText)

Visit_OverBudget(r, i) ==
  LET s == Slot(r, i)
  IN  IF r \in Captures /\ i > MaxImages THEN "unscanned"
      ELSE IF ~ config.engine THEN "unscanned"
      ELSE IF Broken(s) THEN "failed"
      ELSE IF s.img \in Small THEN "uncertified"
      ELSE "call"

(* What becomes of a slot before any word of it is read. *)
Visit(r, i) ==
  LET s == Slot(r, i)
  IN  IF r \in Captures /\ i > MaxImages THEN "failed"
      ELSE IF ~ config.engine THEN "unscanned"
      ELSE IF Broken(s) THEN "failed"
      ELSE IF s.img \in Small THEN "uncertified"
      ELSE "call"

Post(c) ==
  /\ At(c, "idle") /\ c \notin panel.unused
  /\ req' = [req EXCEPT ![c].pc = "walk", ![c].strict = @ \/ config.production,
                ![c].slots = IF config.storage THEN @
                             ELSE [i \in DOMAIN @ |-> [Strip(@)[i] EXCEPT !.st = "unscanned"]]]
  /\ UNCHANGED <<config, panel, worker, stored, sent, served>>

Ask(q) ==
  /\ At(q, "idle") /\ To(q, "walk")
  /\ UNCHANGED <<config, panel, worker, stored, sent, served>>

(* The next key is entered once the keys before it are settled, and every  *)
(* slot of it at once.                                                     *)
Enter(r) ==
  /\ At(r, "walk")
  /\ \A i \in Slots(r) : Slot(r, i).st \notin {"call", "waiting"}
  /\ \E k \in {Slot(r, i).key : i \in Slots(r)} :
       LET now == {i \in Slots(r) : Slot(r, i).key = k}
       IN  /\ \A i \in Slots(r) : Slot(r, i).key < k => Slot(r, i).st # "new"
           /\ \A i \in now : Slot(r, i).st = "new"
           /\ req' = [req EXCEPT ![r].slots =
                        [i \in Slots(r) |-> IF i \in now THEN [@[i] EXCEPT !.st = Visit(r, i)]
                                            ELSE @[i]]]
  /\ UNCHANGED <<config, panel, worker, stored, sent, served>>

-----------------------------------------------------------------------------
(* The OCR engine. *)

Settle(r, i, st) == req' = [req EXCEPT ![r].slots[i].st = st]

AskWorker(r, i) ==
  /\ Slot(r, i).st = "call" /\ Settle(r, i, "waiting")
  /\ worker' = IF worker = "none" THEN "starting" ELSE worker
  /\ UNCHANGED <<config, panel, stored, sent, served>>

WorkerReady ==
  /\ worker = "starting" /\ worker' = "ready"
  /\ UNCHANGED <<config, panel, req, stored, sent, served>>

(* Everybody who waits for the start is rejected, and the next call starts *)
(* a worker again.                                                         *)
WorkerFails ==
  /\ "no_worker" \in Faults /\ worker = "starting" /\ worker' = "none"
  /\ req' = [r \in Requests |-> [req[r] EXCEPT !.slots =
       [i \in Slots(r) |-> IF @[i].st = "waiting" THEN [@[i] EXCEPT !.st = "failed"] ELSE @[i]]]]
  /\ UNCHANGED <<config, panel, stored, sent, served>>

(* The engine returns what it makes of the image, from every word to none, *)
(* and the image is certified.  The words are masked in the bitmap that    *)
(* was read; encoding it again may fail, which is not a redaction error    *)
(* and fails the whole request.                                            *)
ReadWords(r, i) ==
  /\ Slot(r, i).st = "waiting" /\ worker = "ready"
  /\ \/ /\ \E W \in SUBSET Words[Slot(r, i).img] :
             req' = [req EXCEPT ![r].slots[i] = [@ EXCEPT !.st = "certified", !.read = {W}]]
        /\ UNCHANGED panel
     \/ "ocr_error" \in Faults /\ Settle(r, i, "failed") /\ UNCHANGED panel
     \/ /\ "encode_error" \in Faults
        /\ \E W \in SUBSET Words[Slot(r, i).img] : Detected(W) # {}
        /\ req' = [req EXCEPT ![r].slots[i].st = "failed",
                              ![r].pc = IF @ = "walk" THEN "error" ELSE @]
        /\ IF At(r, "walk") THEN Heard(r, FALSE) ELSE UNCHANGED panel
  /\ UNCHANGED <<config, worker, stored, sent, served>>

TimeOut_CapturesOnly(r, i) ==
  /\ r \in Captures
  /\ Slot(r, i).st \in {"call", "waiting"} /\ Settle(r, i, "failed")
  /\ UNCHANGED <<config, panel, worker, stored, sent, served>>

(* The timer runs from the call, through the start of the worker. *)
TimeOut(r, i) ==
  /\ Slot(r, i).st \in {"call", "waiting"} /\ Settle(r, i, "failed")
  /\ UNCHANGED <<config, panel, worker, stored, sent, served>>

-----------------------------------------------------------------------------
(* What the API does with a walked payload. *)

Walked(r) == At(r, "walk") /\ \A i \in Slots(r) : Slot(r, i).st \in Outcomes

Some(r, st) == \E i \in Slots(r) : Slot(r, i).st = st

State_Failed(r) ==
  IF Slots(r) = {} THEN "none"
  ELSE IF ~ config.storage THEN "storage_disabled"
  ELSE IF ~ config.engine THEN "skipped"
  ELSE IF ~ Some(r, "failed") THEN "applied"
  ELSE IF req[r].strict THEN "blocked_strict" ELSE "failed"

(* The report: an image that was not scanned, or not certified, speaks for *)
(* the whole payload.                                                      *)
State(r) ==
  IF Slots(r) = {} THEN "none"
  ELSE IF ~ config.storage THEN "storage_disabled"
  ELSE IF ~ config.engine THEN "skipped"
  ELSE IF ~ Some(r, "failed") /\ ~ Some(r, "uncertified") THEN "applied"
  ELSE IF req[r].strict THEN "blocked_strict"
  ELSE IF Some(r, "failed") THEN "failed" ELSE "coverage_insufficient"

(* The words returned for an image, none before the engine has answered. *)
Returned(s) == UNION s.read

Shown_Unmasked(s) == Words[s.img]

(* What remains legible of an image: a word the engine missed is there. *)
Shown(s) == IF s.st = "certified" THEN Words[s.img] \ Detected(Returned(s)) ELSE Words[s.img]

SafeText_All(r) == UNION {Returned(Slot(r, i)) : i \in Slots(r)}

(* Text for search: what was returned for certified images, less what was  *)
(* masked.                                                                 *)
SafeText(r) == UNION {Returned(Slot(r, i)) \ Detected(Returned(Slot(r, i))) :
                        i \in {j \in Slots(r) : Slot(r, j).st = "certified"}}

NoneLeft(state) == state \in {"none", "storage_disabled", "blocked_strict"}

(* Strict mode drops every image; the others leave the JSON for the media  *)
(* pipeline, or are dropped when there is none.                            *)
Insert(c) ==
  /\ c \in Captures /\ Walked(c)
  /\ \/ /\ req' = [req EXCEPT ![c].pc = "store", ![c].slots = Extract(@), ![c].text = SafeText(c),
                     ![c].state = IF ~ config.media /\ ~ NoneLeft(State(c))
                                  THEN "media_unavailable" ELSE State(c)]
        /\ UNCHANGED panel
     \/ "db_error" \in Faults /\ To(c, "error") /\ Heard(c, FALSE)
  /\ UNCHANGED <<config, worker, stored, sent, served>>

Safe(state) == state \in {"applied", "none"}

Image(r, i) == [by |-> r, slot |-> i, img |-> Slot(r, i).img, shows |-> Shown(Slot(r, i)),
                read |-> Slot(r, i).read]

(* The images go to the pipeline one by one; a failure ends it, and the    *)
(* moment stands with no image in the answer.                              *)
StoreImage(c) ==
  /\ At(c, "store") /\ Safe(req[c].state)
  /\ \E i \in Slots(c) :
       /\ i = 1 + Cardinality({x \in stored : x.by = c})
       /\ \/ stored' = stored \union {Image(c, i)} /\ UNCHANGED req
          \/ "store_error" \in Faults /\ To(c, "reply") /\ UNCHANGED stored
  /\ UNCHANGED <<config, panel, worker, sent, served>>

Stored(c) ==
  /\ At(c, "store")
  /\ Safe(req[c].state) => Cardinality({x \in stored : x.by = c}) = Len(req[c].slots)
  /\ req' = [req EXCEPT ![c].pc = "reply", ![c].refs = {x \in stored : x.by = c}]
  /\ UNCHANGED <<config, panel, worker, stored, sent, served>>

(* A panel that still waits hears of it. *)
Reply(c) ==
  /\ At(c, "reply") /\ To(c, "saved") /\ Heard(c, TRUE)
  /\ UNCHANGED <<config, worker, stored, sent, served>>

(* Only certified frames reach the model, when there is an engine. *)
Answer(q) ==
  /\ q \in Asks /\ Walked(q) /\ To(q, "answer")
  /\ sent' = sent \union {Image(q, i) : i \in {j \in Slots(q) :
                            ~ config.engine \/ Slot(q, j).st = "certified"}}
  /\ UNCHANGED <<config, panel, worker, stored, served>>

AnswerEnds(q) ==
  /\ At(q, "answer")
  /\ To(q, "done") \/ ("no_answer" \in Faults /\ To(q, "error"))
  /\ UNCHANGED <<config, panel, worker, stored, sent, served>>

(* Every reply that carries a moment, an older one included, goes through  *)
(* the sanitizer.                                                          *)
Show(c) ==
  /\ At(c, "saved")
  /\ LET out == Sanitize(req[c].slots)
     IN  served' = served \union {Slot(c, i).img : i \in {j \in Slots(c) : out[j].inline}}
  /\ To(c, "done")
  /\ UNCHANGED <<config, panel, worker, stored, sent>>

-----------------------------------------------------------------------------
EngineNext(r) == \E i \in Slots(r) : AskWorker(r, i) \/ ReadWords(r, i) \/ TimeOut(r, i)

Handle(r) ==
  \/ Enter(r) \/ EngineNext(r)
  \/ r \in Captures /\ (Insert(r) \/ StoreImage(r) \/ Stored(r) \/ Reply(r) \/ Show(r))
  \/ r \in Asks /\ (Answer(r) \/ AnswerEnds(r))

Next ==
  \/ PanelCapture \/ Cancel \/ TokenLost \/ Pair
  \/ \E shot \in Shots, img \in config.views : Captured(shot, img)
  \/ \E c \in Captures : Submit(c) \/ PostFails(c) \/ Post(c)
  \/ \E q \in Asks : Ask(q)
  \/ \E r \in Requests : Handle(r)
  \/ WorkerReady \/ WorkerFails

(* A handler goes on by itself; its timers fire.  Nothing makes a worker   *)
(* start, an engine read, or a user press.                                 *)
Fairness == \A r \in Requests :
  /\ WF_vars(Enter(r) \/ Insert(r) \/ StoreImage(r) \/ Stored(r) \/ Reply(r))
  /\ WF_vars(Answer(r) \/ AnswerEnds(r))
  /\ WF_vars(\E i \in Slots(r) : TimeOut(r, i))

Spec == Init /\ [][Next]_vars /\ Fairness

-----------------------------------------------------------------------------
(* SAFETY.  Whatever is sent, fails, or comes late, an image is stored,    *)
(* or, while there is an engine, sent to a model, only after the engine    *)
(* has answered for it, and without any sensitive word of that answer; and *)
(* no reply and no new row carries an image inline.  A secret the engine   *)
(* did not read stays legible: redaction is no recall guarantee            *)
(* (visual-redaction.ts:226).                                              *)
Inserted(c) == c \notin config.old /\ req[c].pc \in {"store", "reply", "saved", "done"}

Masked(x) == \E W \in x.read : x.shows \intersect W \intersect Sensitive = {}

SecretsMasked ==
  /\ \A x \in stored : Masked(x)
  /\ config.engine => \A x \in sent : Masked(x)
  /\ served = {}
  /\ \A c \in Captures : Inserted(c) => \A i \in Slots(c) : ~ Slot(c, i).inline

(* SAFETY.  The report of a moment tells what happened to its pixels:      *)
(* "applied" speaks for every image of the payload, only then is one       *)
(* stored, production and strict clients never keep an unsafe image, and   *)
(* the text for search holds no word the detectors classify.               *)
ReportIsHonest ==
  \A c \in Captures : Inserted(c) =>
    /\ req[c].state = "applied" => \A i \in Slots(c) : Slot(c, i).st = "certified"
    /\ (\E x \in stored : x.by = c) => req[c].state = "applied"
    /\ req[c].state = "none" => Slots(c) = {}
    /\ req[c].state \in {"failed", "coverage_insufficient"} => ~ req[c].strict
    /\ req[c].text \intersect Sensitive = {}

(* SAFETY.  The draft on the screen stays there until the user cancels it, *)
(* the token is lost, or the panel hears that a post of that very draft    *)
(* was saved: a failure, or an answer lost on the way, brings it back, and *)
(* nothing replaces it.  Except by a stray call: one that outlived its     *)
(* token, or was started beside one that did, sets the state and the draft *)
(* when it ends, over whatever the next pairing has put there.             *)
OnScreen == IF panel.paired /\ panel.state \in {"confirm", "submitting"} THEN panel.draft
            ELSE NoDraft

SavedBy(c) == At(c, "reply") /\ req'[c].pc = "saved"

FailureKeepsDraft ==
  [][OnScreen # NoDraft /\ OnScreen' # OnScreen =>
       \/ ~ panel'.paired
       \/ panel.state = "confirm" /\ OnScreen' = NoDraft /\ panel'.calls = panel.calls
       \/ \E x \in panel.calls \ panel'.calls :
            \/ x \in panel.stray
            \/ x \in Captures /\ panel.of[x] = panel.draft.shot /\ SavedBy(x)]_vars

(* LIVENESS.  Every walk ends: a worker that never starts or never answers *)
(* costs a request its images, and never its answer.                       *)
WalksEnd == \A r \in Requests : At(r, "walk") ~> ~ At(r, "walk")
=============================================================================
