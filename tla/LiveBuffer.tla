------------------------------ MODULE LiveBuffer ------------------------------
(***************************************************************************)
(* What a live session keeps, and what its questions carry: the buffer of  *)
(* packages/context-engine/src/live-buffer.ts as the session of            *)
(* apps/extension/utils/live.ts fills, reads and wipes it.  Each step of   *)
(* LiveSession is extended by what it does to the buffer of one session;   *)
(* the samples of the interval timers, which LiveSession leaves out, are   *)
(* steps of their own, and land whenever the browser answers.              *)
(***************************************************************************)
EXTENDS LiveSession, SequencesExt

CONSTANTS
  Kept,       \* the session whose buffer is followed
  Texts,      \* what the page may show: each text with its length
  FrameBytes, \* the lengths of the frames that may be taken
  \* LIVE_LIMITS, and the length up to which the server takes a snippet
  Window, MaxFrames, MaxFrameBytes, MaxBufferBytes, MaxTextSnippets, MaxQaExchanges,
  QaFrames, MaxSnippetBytes,
  Questions,  \* how many questions are answered
  Flights     \* how many frames are awaited at once

ASSUME LimitsOK ==
  /\ Kept \in Sessions
  /\ {Window, MaxFrames, MaxFrameBytes, MaxBufferBytes, MaxTextSnippets, MaxQaExchanges,
      QaFrames, MaxSnippetBytes, Questions, Flights} \subseteq Nat \ {0}
  /\ MaxFrameBytes <= MaxBufferBytes
  /\ FrameBytes \subseteq Nat
  /\ \A x \in Texts : x.bytes \in Nat

VARIABLES
  entries,  \* the frames and texts, oldest first
  qa,       \* the exchanges
  flight,   \* how many frames of the interval timer are awaited
  post,     \* the question in flight, and what went out with it
  answered  \* history: how many questions were answered and kept

kept == <<entries, qa, flight, post, answered>>
bufferVars == <<vars, kept>>

NoPost == [taking |-> FALSE, shot |-> FALSE, frames |-> <<>>, texts |-> <<>>, qa |-> <<>>]

BufferInit ==
  /\ Init
  /\ entries = <<>> /\ qa = <<>>
  /\ flight = 0 /\ post = NoPost /\ answered = 0
-----------------------------------------------------------------------------
(* The buffer (live-buffer.ts) *)

Entry(kind, what, bytes) == [kind |-> kind, at |-> age[Kept], what |-> what, bytes |-> bytes]

Newest(s, n) == SubSeq(s, IF Len(s) > n THEN Len(s) - n + 1 ELSE 1, Len(s))
\* The entries that are in S, in their order.
Filtered(es, S) ==
  LET upTo[i \in 0..Len(es)] ==
        IF i = 0 THEN <<>>
        ELSE IF es[i] \in S THEN Append(upTo[i - 1], es[i]) ELSE upTo[i - 1]
  IN  upTo[Len(es)]
OfKind(es, kind) == Filtered(es, {e \in Range(es) : e.kind = kind})
totalBytes(es) ==
  LET sum[i \in 0..Len(es)] == IF i = 0 THEN 0 ELSE sum[i - 1] + es[i].bytes
  IN  sum[Len(es)]

\* The oldest of a kind goes if there are more than n; one entry is added at a time.
Capped(es, kind, n) ==
  IF Len(OfKind(es, kind)) <= n THEN es
  ELSE RemoveAt(es, CHOOSE i \in DOMAIN es :
                      es[i].kind = kind /\ \A j \in 1..i - 1 : es[j].kind # kind)

\* The window, the two caps, then the budget, in this order.
evict(es) ==
  LET recent == Filtered(es, {e \in Range(es) : e.at >= age[Kept] - Window})
      few == Capped(Capped(recent, "frame", MaxFrames), "text", MaxTextSnippets)
      fits(n) == totalBytes(Newest(few, n)) <= MaxBufferBytes
  IN  Newest(few, Max({n \in 0..Len(few) : fits(n)}))

addFrame_Unevicted(es, bytes, what) ==
  IF bytes > MaxFrameBytes THEN es ELSE Append(es, Entry("frame", what, bytes))
addFrame(es, bytes, what) ==
  IF bytes > MaxFrameBytes THEN es ELSE evict(Append(es, Entry("frame", what, bytes)))

\* A page that shows what the latest text was adds nothing, and evicts nothing.
addText_AfterFrame(es, x) ==
  IF es # <<>> /\ Last(es).what = x.what THEN es
  ELSE evict(Append(es, Entry("text", x.what, x.bytes)))
addText(es, x) ==
  LET texts == OfKind(es, "text") IN
  IF texts # <<>> /\ Last(texts).what = x.what THEN es
  ELSE evict(Append(es, Entry("text", x.what, x.bytes)))

addQa(exchange) == Newest(Append(qa, exchange), MaxQaExchanges)

recentFrames_First(es) ==
  LET fs == OfKind(es, "frame") IN SubSeq(fs, 1, IF Len(fs) > QaFrames THEN QaFrames ELSE Len(fs))
recentFrames(es) == Newest(OfKind(es, "frame"), QaFrames)
recentTextSnippets(es) == Newest(OfKind(es, "text"), MaxTextSnippets)
-----------------------------------------------------------------------------
(* The samples (live.ts) *)

\* A sample lands in the buffer that is there by then; a blank page, a protected
\* one, or a mode without frames yields none.
TextSamples == {entries} \cup {addText(entries, x) : x \in Texts}
FrameSamples(what) == {entries} \cup {addFrame(entries, b, what) : b \in FrameBytes}

Lands(s, samples) == entries' \in IF s = Kept /\ live[s] THEN samples ELSE {entries}

\* The interval timers run from the end of start() to the end of the session.  A
\* text may be awaited at any time; a frame is asked for before the limit, and may
\* come after it.
FrameDue ==
  /\ start[Kept] = "on" /\ live[Kept] /\ age[Kept] < Limit /\ flight < Flights
  /\ flight' = flight + 1
  /\ UNCHANGED <<vars, entries, qa, post, answered>>

FrameTaken ==
  /\ flight > 0 /\ flight' = flight - 1
  /\ Lands(Kept, FrameSamples("tick"))
  /\ UNCHANGED <<vars, qa, post, answered>>

TextRead ==
  /\ start[Kept] = "on" /\ live[Kept]
  /\ Lands(Kept, TextSamples)
  /\ UNCHANGED <<vars, qa, flight, post, answered>>
-----------------------------------------------------------------------------
(* The steps of the session *)

\* stop() clears the buffer and lets go of it.
Wiped ==
  /\ entries' = IF live'[Kept] THEN entries ELSE <<>>
  /\ qa' = IF live'[Kept] THEN qa ELSE <<>>

BufferStart(s) ==
  \/ MakeBuffer(s) /\ UNCHANGED kept
  \/ NoTab(s) /\ Wiped /\ UNCHANGED <<flight, post, answered>>
  \/ /\ \/ FirstText(s) /\ Lands(s, TextSamples)
        \/ FirstFrame(s) /\ Lands(s, FrameSamples("tick"))
     /\ UNCHANGED <<qa, flight, post, answered>>

BufferExpire(s) == Expire(s) /\ Wiped /\ UNCHANGED <<flight, post, answered>>
BufferTick == Tick /\ UNCHANGED kept

BufferEnd ==
  \/ \E s \in Sessions : End(s) /\ Wiped /\ UNCHANGED <<flight, post, answered>>
  \/ Close /\ Wiped /\ flight' = 0 /\ post' = NoPost
     /\ UNCHANGED answered

\* The questions of the other sessions are left out.  A frame is taken for a
\* question, unless the session is past its limit.
BufferAsk ==
  /\ Ask(Kept) /\ answered < Questions
  /\ post' = [NoPost EXCEPT !.taking = age[Kept] < Limit]
  /\ UNCHANGED <<entries, qa, flight, answered>>

BufferSend ==
  /\ Send(Kept)
  /\ Lands(Kept, IF post.taking THEN FrameSamples("shot") ELSE {entries})
  /\ post' = IF ask'[Kept] # "post" THEN NoPost
             ELSE [post EXCEPT !.shot = entries' # entries,
                               !.frames = recentFrames(entries'),
                               !.texts = recentTextSnippets(entries'), !.qa = qa]
  /\ UNCHANGED <<qa, flight, answered>>

\* What the server takes; the buffer takes longer texts than the server does.
liveAnswerRequestSchema ==
  /\ Len(post.frames) <= QaFrames /\ Len(post.texts) <= MaxTextSnippets
  /\ Len(post.qa) <= MaxQaExchanges
  /\ \A i \in DOMAIN post.texts : post.texts[i].bytes <= MaxSnippetBytes

\* An answer is kept if the session still is; the request may fail, and does when
\* the server refuses it.
BufferAnswer ==
  /\ Answer(Kept)
  /\ \/ UNCHANGED <<qa, answered>>
     \/ /\ live[Kept] /\ liveAnswerRequestSchema
        /\ qa' = addQa(answered + 1) /\ answered' = answered + 1
  /\ post' = NoPost
  /\ UNCHANGED <<entries, flight>>
-----------------------------------------------------------------------------
BufferNext ==
  \/ \E s \in Sessions :
       \/ Mount(s) /\ UNCHANGED kept
       \/ BufferStart(s) \/ BufferExpire(s)
  \/ BufferEnd \/ BufferTick
  \/ BufferAsk \/ BufferSend \/ BufferAnswer
  \/ FrameDue \/ FrameTaken \/ TextRead

BufferSpec == BufferInit /\ [][BufferNext]_bufferVars

\* What LiveSession is fair about are all steps of BufferNext.
BufferFairSpec == BufferSpec /\ Fairness
-----------------------------------------------------------------------------
(* Properties *)

\* SAFETY (evict, addText): whatever order samples land in, the buffer is within
\* all of its limits, in the order of time, with no text after an equal one, and
\* nothing in it is older than the window when its newest entry is added.
BufferBounded ==
  LET texts == OfKind(entries, "text") IN
  /\ Len(OfKind(entries, "frame")) <= MaxFrames /\ Len(texts) <= MaxTextSnippets
  /\ totalBytes(entries) <= MaxBufferBytes
  /\ \A i \in DOMAIN entries :
       /\ i > 1 => entries[i - 1].at <= entries[i].at
       /\ Last(entries).at - entries[i].at <= Window
  /\ \A i \in 2..Len(texts) : texts[i - 1].what # texts[i].what

\* SAFETY (ask): a question goes out with the frame that was taken for it, if the
\* browser gave one that fits, as the newest of its frames, with nothing that was
\* out of the window by then, and with the exchanges just before it, although other
\* samples may have landed, or the session have ended, while the frame was awaited.
SentIsGrounded ==
  ask[Kept] = "post" =>
    /\ post.shot =>
         /\ post.frames # <<>> /\ Last(post.frames).what = "shot"
         /\ \A e \in Range(post.frames) \cup Range(post.texts) :
              Last(post.frames).at - e.at <= Window
    /\ Len(post.qa) = IF answered > MaxQaExchanges THEN MaxQaExchanges ELSE answered
    /\ \A i \in DOMAIN post.qa : post.qa[i] = answered - Len(post.qa) + i
=============================================================================
