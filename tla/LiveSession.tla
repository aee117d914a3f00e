----------------------------- MODULE LiveSession -----------------------------
(***************************************************************************)
(* Live sessions in the extension's side panel: App.tsx mounts a LivePanel,*)
(* which makes a LiveSession (apps/extension/utils/live.ts) and starts it. *)
(*                                                                         *)
(* JavaScript runs one callback at a time, so a step is the code between   *)
(* two awaits, or one timer.  start() awaits three times, and nothing      *)
(* tells it that stop() was called in between.  Every session has its own  *)
(* clock: the time since its buffer was made and the time its expiry timer *)
(* has left.  What the buffer keeps is in LiveBuffer.                      *)
(***************************************************************************)
EXTENDS Integers

CONSTANTS
  Sessions,  \* the sessions started, one after another
  Limit,     \* sessionMaxMs, in ticks
  None

ASSUME ConstantsOK == Limit \in Nat \ {0} /\ None \notin Sessions

NoTimer == -1

VARIABLES
  panel,  \* the session whose LivePanel is mounted
  start,  \* start() of each session: program counter
  live,   \* whether the session holds a buffer
  age,    \* ticks since its buffer was made, up to just beyond Limit
  left,   \* ticks its expiry timer has left, or NoTimer
  ask     \* a question in flight: program counter

vars == <<panel, start, live, age, left, ask>>
-----------------------------------------------------------------------------
(* Types *)

StartPC == {"new", "query", "text", "frame", "on", "failed"}
AskPC == {"none", "frame", "post"}

TypeOK ==
  /\ panel \in Sessions \cup {None}
  /\ start \in [Sessions -> StartPC]
  /\ live \in [Sessions -> BOOLEAN]
  /\ age \in [Sessions -> 0..Limit + 1]
  /\ left \in [Sessions -> {NoTimer} \cup 0..Limit]
  /\ ask \in [Sessions -> AskPC]

Init ==
  /\ panel = None
  /\ start = [s \in Sessions |-> "new"]
  /\ live = [s \in Sessions |-> FALSE]
  /\ age = [s \in Sessions |-> 0]
  /\ left = [s \in Sessions |-> NoTimer]
  /\ ask = [s \in Sessions |-> "none"]
-----------------------------------------------------------------------------
(* Helpers *)

StartTo(s, pc) == start' = [start EXCEPT ![s] = pc]

\* stop(), called for the sessions S.
Stop(S) ==
  /\ live' = [s \in Sessions |-> live[s] /\ s \notin S]
  /\ left' = [s \in Sessions |-> IF s \in S THEN NoTimer ELSE left[s]]

\* onExit: the App goes back to its first screen, which unmounts the panel that
\* is there, and the unmounting stops its session.
Exit(s) == panel' = None /\ Stop({s} \cup ({panel} \ {None}))
-----------------------------------------------------------------------------
(* start() *)

Mount(s) ==
  /\ panel = None /\ start[s] = "new"
  /\ panel' = s
  /\ StartTo(s, "query")
  /\ UNCHANGED <<live, age, left, ask>>

\* tabs.query found a tab: the buffer is made, and the first text sample awaited.
MakeBuffer(s) ==
  /\ start[s] = "query"
  /\ live' = [live EXCEPT ![s] = TRUE]
  /\ StartTo(s, "text")
  /\ UNCHANGED <<panel, age, left, ask>>

\* It found none, or threw: onExit with the message.
NoTab(s) ==
  /\ start[s] = "query"
  /\ StartTo(s, "failed")
  /\ Exit(s)
  /\ UNCHANGED <<age, ask>>

\* The three timers; the sampling ones change nothing that is modelled here.
SetTimers_Forgotten(s) == StartTo(s, "on") /\ UNCHANGED left
SetTimers(s) == StartTo(s, "on") /\ left' = [left EXCEPT ![s] = Limit]

\* The first frame is awaited only while there is a buffer, before the limit,
\* and in a mode that allows frames.
FirstText(s) ==
  /\ start[s] = "text"
  /\ \/ live[s] /\ age[s] < Limit /\ StartTo(s, "frame") /\ UNCHANGED left
     \/ SetTimers(s)
  /\ UNCHANGED <<panel, live, age, ask>>

FirstFrame(s) ==
  /\ start[s] = "frame"
  /\ SetTimers(s)
  /\ UNCHANGED <<panel, live, age, ask>>
-----------------------------------------------------------------------------
(* The end of a session *)

\* "End session": shown as soon as the session has a state to show.
End(s) ==
  /\ panel = s /\ live[s]
  /\ Exit(s)
  /\ UNCHANGED <<start, age, ask>>

Expire(s) ==
  /\ left[s] = 0
  /\ Exit(s)
  /\ UNCHANGED <<start, age, ask>>

\* The side panel is closed: its document, and everything in it, is destroyed.
Close ==
  /\ panel' = None
  /\ Stop(Sessions)
  /\ start' = [s \in Sessions |-> IF start[s] = "new" THEN "new" ELSE "on"]
  /\ ask' = [s \in Sessions |-> "none"]
  /\ UNCHANGED age

\* Time passes unless a timer is due.
Tick ==
  /\ \A s \in Sessions : left[s] # 0
  /\ age' = [s \in Sessions |-> IF live[s] /\ age[s] <= Limit THEN age[s] + 1
                                ELSE age[s]]
  /\ left' = [s \in Sessions |-> IF left[s] = NoTimer THEN NoTimer ELSE left[s] - 1]
  /\ UNCHANGED <<panel, start, live, ask>>
-----------------------------------------------------------------------------
(* ask() *)

Ask(s) ==
  /\ panel = s /\ live[s] /\ ask[s] = "none"
  /\ ask' = [ask EXCEPT ![s] = "frame"]
  /\ UNCHANGED <<panel, start, live, age, left>>

\* After the fresh frame the buffer is read again: when the session is over this
\* throws, before anything is sent.
HasContext_Kept(s) == TRUE
HasContext(s) == live[s]
Send(s) ==
  /\ ask[s] = "frame"
  /\ ask' = [ask EXCEPT ![s] = IF HasContext(s) THEN "post" ELSE "none"]
  /\ UNCHANGED <<panel, start, live, age, left>>

\* The answer is kept in the buffer, if it is still there.
Answer(s) ==
  /\ ask[s] = "post"
  /\ ask' = [ask EXCEPT ![s] = "none"]
  /\ UNCHANGED <<panel, start, live, age, left>>
-----------------------------------------------------------------------------
(* Specification *)

Starting(s) == MakeBuffer(s) \/ NoTab(s) \/ FirstText(s) \/ FirstFrame(s)

Next ==
  \/ \E s \in Sessions :
       \/ Mount(s) \/ Starting(s) \/ End(s) \/ Expire(s)
       \/ Ask(s) \/ Send(s) \/ Answer(s)
  \/ Close \/ Tick

Spec == Init /\ [][Next]_vars

\* The browser answers every call in the end, time passes, and timers fire.
Fairness ==
  /\ \A s \in Sessions : WF_vars(Starting(s)) /\ WF_vars(Expire(s))
  /\ WF_vars(Tick)

FairSpec == Spec /\ Fairness
-----------------------------------------------------------------------------
(* Properties *)

\* A session whose start is over has the timer that will stop it (live.ts, "Hard
\* stop at the session cap"), whatever was stopped or closed meanwhile.
LiveIsTimed ==
  \A s \in Sessions : live[s] /\ start[s] \notin {"text", "frame"} => left[s] # NoTimer

\* A forgotten session ends by itself.
EndsByItself == \A s \in Sessions : live[s] ~> ~live[s]
=============================================================================
