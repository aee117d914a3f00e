-------------------------- MODULE LiveSessionProofs --------------------------
(***************************************************************************)
(* Theorems about LiveSession, for any number of sessions and any limit,   *)
(* and about LiveBuffer, for any limits of the buffer, any frames and any  *)
(* texts.                                                                  *)
(*                                                                         *)
(* What evict and the filters of the buffer return is defined recursively  *)
(* over a sequence; what they do to every sequence follows from a least    *)
(* counterexample (LeastNat) instead of an induction.                      *)
(***************************************************************************)
EXTENDS LiveBuffer, SequenceTheorems, WellFoundedInduction, TLAPS

\* Every live session is between its tabs.query and its timers, or has its timer.
Timed ==
  \A s \in Sessions :
    live[s] => start[s] \in {"text", "frame"} \/ (start[s] = "on" /\ left[s] # NoTimer)

Inv == TypeOK /\ Timed

LEMMA StopType ==
  ASSUME TypeOK, NEW S, Stop(S)
  PROVE  live' \in [Sessions -> BOOLEAN] /\ left' \in [Sessions -> {NoTimer} \cup 0..Limit]
  BY DEF TypeOK, Stop

\* A stopped session holds no buffer, and the others are as they were.
LEMMA StopKeepsTimed ==
  ASSUME TypeOK, Timed, NEW S, Stop(S), start' = start
  PROVE  Timed'
  BY DEF TypeOK, Timed, Stop

LEMMA InitInv == Init => Inv
  BY ConstantsOK DEF Init, Inv, TypeOK, Timed, StartPC, AskPC, NoTimer

LEMMA StepTypeOK == TypeOK /\ [Next]_vars => TypeOK'
  <1> SUFFICES ASSUME TypeOK, [Next]_vars PROVE TypeOK'
    OBVIOUS
  <1> USE ConstantsOK DEF StartPC, AskPC, NoTimer
  <1>1. ASSUME NEW s \in Sessions, Mount(s) PROVE TypeOK'
    BY <1>1 DEF TypeOK, Mount, StartTo
  <1>2. ASSUME NEW s \in Sessions, MakeBuffer(s) PROVE TypeOK'
    BY <1>2 DEF TypeOK, MakeBuffer, StartTo
  <1>3. ASSUME NEW s \in Sessions, NoTab(s) PROVE TypeOK'
    BY <1>3, StopType DEF TypeOK, NoTab, StartTo, Exit
  <1>4. ASSUME NEW s \in Sessions, FirstText(s) PROVE TypeOK'
    BY <1>4 DEF TypeOK, FirstText, SetTimers, StartTo
  <1>5. ASSUME NEW s \in Sessions, FirstFrame(s) PROVE TypeOK'
    BY <1>5 DEF TypeOK, FirstFrame, SetTimers, StartTo
  <1>6. ASSUME NEW s \in Sessions, End(s) \/ Expire(s) PROVE TypeOK'
    BY <1>6, StopType DEF TypeOK, End, Expire, Exit
  <1>7. ASSUME NEW s \in Sessions, Ask(s) \/ Answer(s) PROVE TypeOK'
    BY <1>7 DEF TypeOK, Ask, Answer
  <1>8. ASSUME NEW s \in Sessions, Send(s) PROVE TypeOK'
    BY <1>8 DEF TypeOK, Send, HasContext
  <1>9. ASSUME Close PROVE TypeOK'
    BY <1>9, StopType DEF TypeOK, Close
  <1>10. ASSUME Tick PROVE TypeOK'
    <2>1. age' \in [Sessions -> 0..Limit + 1]
      BY <1>10 DEF TypeOK, Tick
    <2>2. left' \in [Sessions -> {NoTimer} \cup 0..Limit]
      BY <1>10 DEF TypeOK, Tick
    <2> QED
      BY <1>10, <2>1, <2>2 DEF TypeOK, Tick
  <1>11. CASE UNCHANGED vars
    BY <1>11 DEF TypeOK, vars
  <1> QED
    BY <1>1, <1>2, <1>3, <1>4, <1>5, <1>6, <1>7, <1>8, <1>9, <1>10, <1>11
    DEF Next, Starting

LEMMA StepTimed == Inv /\ [Next]_vars => Timed'
  <1> SUFFICES ASSUME TypeOK, Timed, [Next]_vars PROVE Timed'
    BY DEF Inv
  <1> USE ConstantsOK DEF NoTimer
  <1>1. ASSUME NEW s \in Sessions, Mount(s) PROVE Timed'
    BY <1>1 DEF TypeOK, Timed, Mount, StartTo
  <1>2. ASSUME NEW s \in Sessions, MakeBuffer(s) PROVE Timed'
    BY <1>2 DEF TypeOK, Timed, MakeBuffer, StartTo
  <1>3. ASSUME NEW s \in Sessions, NoTab(s) PROVE Timed'
    BY <1>3 DEF TypeOK, Timed, NoTab, StartTo, Exit, Stop
  <1>4. ASSUME NEW s \in Sessions, FirstText(s) PROVE Timed'
    BY <1>4 DEF TypeOK, Timed, FirstText, SetTimers, StartTo
  <1>5. ASSUME NEW s \in Sessions, FirstFrame(s) PROVE Timed'
    BY <1>5 DEF TypeOK, Timed, FirstFrame, SetTimers, StartTo
  <1>6. ASSUME NEW s \in Sessions, End(s) \/ Expire(s) PROVE Timed'
    BY <1>6, StopKeepsTimed DEF End, Expire, Exit
  <1>7. ASSUME NEW s \in Sessions, Ask(s) \/ Send(s) \/ Answer(s) PROVE Timed'
    BY <1>7 DEF Timed, Ask, Send, Answer
  <1>8. ASSUME Close PROVE Timed'
    BY <1>8 DEF TypeOK, Timed, Close, Stop
  <1>9. ASSUME Tick PROVE Timed'
    <2> SUFFICES ASSUME NEW s \in Sessions, left[s] # NoTimer PROVE left'[s] # NoTimer
      BY <1>9 DEF Timed, Tick
    <2>1. left[s] \in 1..Limit
      BY <1>9 DEF TypeOK, Tick
    <2> QED
      BY <1>9, <2>1 DEF Tick
  <1>10. CASE UNCHANGED vars
    BY <1>10 DEF Timed, vars
  <1> QED
    BY <1>1, <1>2, <1>3, <1>4, <1>5, <1>6, <1>7, <1>8, <1>9, <1>10
    DEF Next, Starting

LEMMA AlwaysInv == Spec => []Inv
  <1>1. Inv /\ [Next]_vars => Inv'
    BY StepTypeOK, StepTimed DEF Inv
  <1> QED
    BY InitInv, <1>1, PTL DEF Spec

\* The variables keep their types; no timer is armed beyond the limit.
THEOREM SessionTypes == Spec => []TypeOK
  BY AlwaysInv, PTL DEF Inv

\* Whenever start() is over and the session still observes, the timer that will
\* stop it is running, however many sessions were started and stopped around it.
THEOREM AlwaysTimed == Spec => []LiveIsTimed
  <1>1. Inv => LiveIsTimed
    BY DEF Inv, Timed, LiveIsTimed, TypeOK, StartPC
  <1> QED
    BY AlwaysInv, <1>1, PTL

-----------------------------------------------------------------------------
(* Induction over places in a sequence *)

\* A nonempty set of places has a first one.
LEMMA LeastNat ==
  ASSUME NEW T \in SUBSET Nat, T # {}
  PROVE  \E x \in T : \A y \in T : x <= y
  <1>1. IsWellFoundedOn(OpToRel(<, Nat), Nat)
    BY NatLessThanWellFounded
  <1>2. PICK x \in T : \A y \in T : ~ (<<y, x>> \in OpToRel(<, Nat))
    BY <1>1, WFMin
  <1>3. \A y \in T : ~ (y < x)
    BY <1>2 DEF OpToRel
  <1> QED
    BY <1>3

\* The table that Filtered reads the last entry of.
Cell(f, es, S, i) ==
  IF i = 0 THEN <<>>
  ELSE IF es[i] \in S THEN Append(f[i - 1], es[i]) ELSE f[i - 1]
Table(f, es, S, n) == f = [i \in 0..n |-> Cell(f, es, S, i)]

LEMMA TableExists ==
  ASSUME NEW es, NEW S, NEW n \in Nat
  PROVE  \E f : Table(f, es, S, n)
  <1> DEFINE T == {m \in Nat : ~ \E f : Table(f, es, S, m)}
  <1>1. SUFFICES ASSUME T # {} PROVE FALSE
    OBVIOUS
  <1>2. PICK m \in T : \A k \in T : m <= k
    BY <1>1, LeastNat
  <1>3. CASE m = 0
    <2> DEFINE g == [i \in 0..0 |-> <<>>]
    <2>1. g = [i \in 0..0 |-> Cell(g, es, S, i)]
      BY DEF Cell
    <2>2. Table(g, es, S, 0)
      BY <2>1 DEF Table
    <2> QED
      BY <2>2, <1>3
  <1>4. CASE m # 0
    <2>1. m - 1 \in Nat /\ m - 1 \notin T
      BY <1>2, <1>4
    <2>2. PICK f : Table(f, es, S, m - 1)
      BY <2>1
    <2> DEFINE g == [i \in 0..m |-> IF i = m THEN Cell(f, es, S, m) ELSE f[i]]
    <2>3. ASSUME NEW i \in 0..m PROVE g[i] = Cell(g, es, S, i)
      <3>1. i # 0 => i - 1 \in 0..m /\ i - 1 # m
        BY <2>1
      <3>2. Cell(g, es, S, i) = Cell(f, es, S, i)
        BY <3>1 DEF Cell
      <3>3. i # m => i \in 0..m - 1
        BY <2>1
      <3>4. i # m => f[i] = Cell(f, es, S, i)
        BY <3>3, <2>2 DEF Table
      <3> QED
        BY <3>2, <3>4
    <2>4. g = [i \in 0..m |-> g[i]]
      OBVIOUS
    <2>5. Table(g, es, S, m)
      BY <2>3, <2>4 DEF Table
    <2> QED
      BY <2>5
  <1> QED
    BY <1>3, <1>4

LEMMA FilteredTable ==
  ASSUME NEW es, NEW S, Len(es) \in Nat
  PROVE  \E f : Table(f, es, S, Len(es)) /\ Filtered(es, S) = f[Len(es)]
  <1> DEFINE f == CHOOSE f : Table(f, es, S, Len(es))
  <1>1. Table(f, es, S, Len(es))
    BY TableExists
  <1>2. Filtered(es, S) = f[Len(es)]
    BY DEF Filtered, Table, Cell
  <1> QED
    BY <1>1, <1>2

\* Two tables agree as far as what they were made of does.
LEMMA TablesAgree ==
  ASSUME NEW es, NEW fs, NEW S, NEW R, NEW m \in Nat, NEW n \in Nat, NEW f, NEW g,
         Table(f, es, S, m), Table(g, fs, R, n), m <= n,
         \A i \in 1..m : es[i] = fs[i] /\ (es[i] \in S <=> fs[i] \in R)
  PROVE  f[m] = g[m]
  <1> DEFINE T == {i \in 0..m : f[i] # g[i]}
  <1> SUFFICES ASSUME T # {} PROVE FALSE
    OBVIOUS
  <1>0. T \in SUBSET Nat
    OBVIOUS
  <1>1. PICK i \in T : \A k \in T : i <= k
    BY <1>0, LeastNat
  <1>2. i \in 0..m /\ i \in 0..n
    OBVIOUS
  <1>3. f[i] = Cell(f, es, S, i) /\ g[i] = Cell(g, fs, R, i)
    BY <1>2 DEF Table
  <1>4. i # 0 => i \in 1..m /\ i - 1 \in 0..m /\ i - 1 \notin T
    BY <1>1
  <1> QED
    BY <1>3, <1>4 DEF Cell

-----------------------------------------------------------------------------
(* What Filtered returns *)

LEMMA FilteredEmpty == \A S : Filtered(<<>>, S) = <<>>
  <1> TAKE S
  <1>1. Len(<<>>) = 0
    BY EmptySeq
  <1>2. PICK f : Table(f, <<>>, S, 0) /\ Filtered(<<>>, S) = f[0]
    BY <1>1, FilteredTable
  <1> QED
    BY <1>2 DEF Table, Cell

LEMMA FilteredAppend ==
  ASSUME NEW E, NEW es \in Seq(E), NEW e \in E, NEW S
  PROVE  Filtered(Append(es, e), S)
           = IF e \in S THEN Append(Filtered(es, S), e) ELSE Filtered(es, S)
  <1> DEFINE n == Len(es)
             fs == Append(es, e)
  <1>1. n \in Nat /\ Len(fs) = n + 1 /\ fs[n + 1] = e
    BY LenProperties, AppendProperties
  <1>2. \A i \in 1..n : fs[i] = es[i]
    BY AppendProperties
  <1>3. PICK f : Table(f, es, S, n) /\ Filtered(es, S) = f[n]
    BY <1>1, FilteredTable
  <1> HIDE DEF n, fs
  <1>9. Len(fs) \in Nat
    BY <1>1
  <1>10. PICK g : Table(g, fs, S, Len(fs)) /\ Filtered(fs, S) = g[Len(fs)]
    BY <1>9, FilteredTable
  <1>4. Table(g, fs, S, n + 1) /\ Filtered(fs, S) = g[n + 1]
    BY <1>1, <1>10
  <1>5. f[n] = g[n]
    <2>1. /\ n \in Nat /\ n + 1 \in Nat /\ n <= n + 1
          /\ Table(f, es, S, n) /\ Table(g, fs, S, n + 1)
      BY <1>1, <1>3, <1>4
    <2>2. \A i \in 1..n : es[i] = fs[i] /\ (es[i] \in S <=> fs[i] \in S)
      BY <1>2
    <2> QED
      BY <2>1, <2>2, TablesAgree
  <1>6. g[n + 1] = Cell(g, fs, S, n + 1)
    <2>1. n + 1 \in 0..n + 1
      BY <1>1
    <2> QED
      BY <1>4, <2>1 DEF Table
  <1>7. n + 1 # 0 /\ (n + 1) - 1 = n
    BY <1>1
  <1>8. g[n + 1] = IF e \in S THEN Append(g[n], e) ELSE g[n]
    BY <1>1, <1>6, <1>7 DEF Cell
  <1> QED
    BY <1>3, <1>4, <1>5, <1>8 DEF fs

LEMMA FilteredSame ==
  ASSUME NEW E, NEW es \in Seq(E), NEW S, NEW R,
         \A i \in 1..Len(es) : es[i] \in S <=> es[i] \in R
  PROVE  Filtered(es, S) = Filtered(es, R)
  <1>1. Len(es) \in Nat
    BY LenProperties
  <1>2. PICK f : Table(f, es, S, Len(es)) /\ Filtered(es, S) = f[Len(es)]
    BY <1>1, FilteredTable
  <1>3. PICK g : Table(g, es, R, Len(es)) /\ Filtered(es, R) = g[Len(es)]
    BY <1>1, FilteredTable
  <1>4. f[Len(es)] = g[Len(es)]
    <2> DEFINE n == Len(es)
    <2>1. n \in Nat /\ n <= n /\ Table(f, es, S, n) /\ Table(g, es, R, n)
      BY <1>1, <1>2, <1>3
    <2>2. \A i \in 1..n : es[i] = es[i] /\ (es[i] \in S <=> es[i] \in R)
      OBVIOUS
    <2> HIDE DEF n
    <2>3. f[n] = g[n]
      BY <2>1, <2>2, TablesAgree
    <2> QED
      BY <2>3 DEF n
  <1> QED
    BY <1>2, <1>3, <1>4

LEMMA FilteredElements ==
  ASSUME NEW E, NEW es \in Seq(E), NEW S
  PROVE  Filtered(es, S) \in Seq(E \cap S)
  <1> DEFINE T == {n \in Nat : \E s \in Seq(E) : Len(s) = n /\ Filtered(s, S) \notin Seq(E \cap S)}
  <1> SUFFICES ASSUME T # {} PROVE FALSE
    BY LenProperties
  <1>1. PICK n \in T : \A k \in T : n <= k
    BY LeastNat
  <1>2. PICK s \in Seq(E) : Len(s) = n /\ Filtered(s, S) \notin Seq(E \cap S)
    BY <1>1
  <1>3. s # <<>>
    BY <1>2, FilteredEmpty, EmptySeq
  <1>4. PICK t \in Seq(E), e \in E : s = Append(t, e)
    BY <1>3, SequenceEmptyOrAppend
  <1>5. Len(t) \in Nat /\ Len(t) < n
    BY <1>2, <1>4, AppendProperties, LenProperties
  <1>6. Filtered(t, S) \in Seq(E \cap S)
    BY <1>1, <1>5
  <1>7. e \in S => Append(Filtered(t, S), e) \in Seq(E \cap S)
    <2> SUFFICES ASSUME e \in S PROVE Append(Filtered(t, S), e) \in Seq(E \cap S)
      OBVIOUS
    <2>1. e \in E \cap S
      OBVIOUS
    <2> QED
      BY <1>6, <2>1, AppendProperties
  <1>8. Filtered(s, S) = IF e \in S THEN Append(Filtered(t, S), e) ELSE Filtered(t, S)
    BY <1>4, FilteredAppend
  <1> QED
    BY <1>2, <1>6, <1>7, <1>8

LEMMA FilteredType ==
  ASSUME NEW E, NEW es \in Seq(E), NEW S
  PROVE  Filtered(es, S) \in Seq(E)
  <1>1. Filtered(es, S) \in Seq(E \cap S) /\ E \cap S \subseteq E
    BY FilteredElements
  <1> QED
    BY <1>1, SeqMonotonic

LEMMA AppendToConcat ==
  ASSUME NEW E, NEW x \in Seq(E), NEW y \in Seq(E), NEW e \in E
  PROVE  x \o Append(y, e) = Append(x \o y, e)
  <1> DEFINE one == <<e>>
  <1>1. one \in Seq(E) /\ x \o y \in Seq(E)
    BY ConcatProperties
  <1>2. Append(y, e) = y \o one /\ Append(x \o y, e) = (x \o y) \o one
    BY <1>1, AppendIsConcat
  <1> HIDE DEF one
  <1> QED
    BY <1>1, <1>2, ConcatAssociative

LEMMA FilteredConcat ==
  ASSUME NEW E, NEW s \in Seq(E), NEW t \in Seq(E), NEW S
  PROVE  Filtered(s \o t, S) = Filtered(s, S) \o Filtered(t, S)
  <1>a. \A v \in Seq(E) : \A e \in E : s \o Append(v, e) = Append(s \o v, e)
    BY AppendToConcat
  <1>b. \A v \in Seq(E) : \A e \in E :
          Filtered(Append(v, e), S)
            = IF e \in S THEN Append(Filtered(v, S), e) ELSE Filtered(v, S)
    BY FilteredAppend
  <1>0. ASSUME NEW v \in Seq(E), NEW e \in E
        PROVE  Append(Filtered(s, S) \o Filtered(v, S), e)
                 = Filtered(s, S) \o Append(Filtered(v, S), e)
    <2>1. PICK x \in Seq(E) : x = Filtered(s, S)
      BY FilteredType
    <2>2. PICK y \in Seq(E) : y = Filtered(v, S)
      BY FilteredType
    <2>3. x \o Append(y, e) = Append(x \o y, e)
      BY AppendToConcat
    <2> QED
      BY <2>1, <2>2, <2>3
  <1> DEFINE Fails(u) == Filtered(s \o u, S) # Filtered(s, S) \o Filtered(u, S)
             T == {n \in Nat : \E u \in Seq(E) : Len(u) = n /\ Fails(u)}
  <1> SUFFICES ASSUME T # {} PROVE FALSE
    BY LenProperties
  <1>1. PICK n \in T : \A k \in T : n <= k
    BY LeastNat
  <1>2. PICK u \in Seq(E) : Len(u) = n /\ Fails(u)
    BY <1>1
  <1>3. Filtered(s, S) \in Seq(E)
    BY FilteredType
  <1>4. ~ Fails(<<>>)
    BY <1>3, FilteredEmpty, ConcatEmptySeq
  <1>5. u # <<>>
    BY <1>2, <1>4
  <1>6. PICK v \in Seq(E), e \in E : u = Append(v, e)
    BY <1>5, SequenceEmptyOrAppend
  <1>7. Len(v) \in Nat /\ Len(v) < n
    BY <1>2, <1>6, AppendProperties, LenProperties
  <1>8. Filtered(s \o v, S) = Filtered(s, S) \o Filtered(v, S)
    BY <1>1, <1>7
  <1>9. Filtered(v, S) \in Seq(E) /\ <<e>> \in Seq(E) /\ s \o v \in Seq(E)
    BY FilteredType, ConcatProperties
  <1>10. s \o u = Append(s \o v, e)
    BY <1>6, <1>a
  <1>11. Filtered(s \o u, S)
           = IF e \in S THEN Append(Filtered(s \o v, S), e) ELSE Filtered(s \o v, S)
    BY <1>9, <1>10, <1>b
  <1>12. Filtered(u, S) = IF e \in S THEN Append(Filtered(v, S), e) ELSE Filtered(v, S)
    BY <1>6, <1>b
  <1>13. Append(Filtered(s, S) \o Filtered(v, S), e)
           = Filtered(s, S) \o Append(Filtered(v, S), e)
    BY <1>0
  <1> QED
    BY <1>2, <1>8, <1>11, <1>12, <1>13

LEMMA FilteredNone ==
  ASSUME NEW E, NEW es \in Seq(E), NEW S, \A i \in 1..Len(es) : es[i] \notin S
  PROVE  Filtered(es, S) = <<>>
  <1>1. Filtered(es, S) = Filtered(es, {})
    BY FilteredSame
  <1>2. Filtered(es, {}) \in Seq(E \cap {})
    BY FilteredElements
  <1>3. Len(Filtered(es, {})) = 0
    <2>1. Len(Filtered(es, {})) \in Nat
      BY <1>2, LenProperties
    <2>2. Len(Filtered(es, {})) # 0 => Filtered(es, {})[1] \in E \cap {}
      BY <1>2, <2>1, ElementOfSeq
    <2> QED
      BY <2>2
  <1> QED
    BY <1>1, <1>2, <1>3, EmptySeq

LEMMA FilteredAll ==
  ASSUME NEW E, NEW es \in Seq(E)
  PROVE  Filtered(es, E) = es
  <1> DEFINE T == {n \in Nat : \E s \in Seq(E) : Len(s) = n /\ Filtered(s, E) # s}
  <1> SUFFICES ASSUME T # {} PROVE FALSE
    BY LenProperties
  <1>1. PICK n \in T : \A k \in T : n <= k
    BY LeastNat
  <1>2. PICK s \in Seq(E) : Len(s) = n /\ Filtered(s, E) # s
    BY <1>1
  <1>3. s # <<>>
    BY <1>2, FilteredEmpty
  <1>4. PICK t \in Seq(E), e \in E : s = Append(t, e)
    BY <1>3, SequenceEmptyOrAppend
  <1>5. Len(t) \in Nat /\ Len(t) < n
    BY <1>2, <1>4, AppendProperties, LenProperties
  <1>6. Filtered(t, E) = t
    BY <1>1, <1>5
  <1> QED
    BY <1>2, <1>4, <1>6, FilteredAppend

-----------------------------------------------------------------------------
(* Entries *)

Whats == {x.what : x \in Texts} \cup {"tick", "shot"}
Kinds == {"frame", "text"}
EntryType == [kind : Kinds, at : Nat, what : Whats, bytes : Nat]
Kind(k) == {e \in EntryType : e.kind = k}

\* Entries in the order of time, none of them of the future.
Ordered(es) ==
  /\ es \in Seq(EntryType)
  /\ \A i, j \in 1..Len(es) : i <= j => es[i].at <= es[j].at
  /\ \A i \in 1..Len(es) : es[i].at <= age[Kept]

\* r is what is left of es when entries went: of each kind, the oldest.
Ends(s, t) == \E u \in Seq(EntryType) : t = u \o s
Left(r, es) ==
  /\ Ordered(r)
  /\ \A k \in Kinds : Ends(Filtered(r, Kind(k)), Filtered(es, Kind(k)))

\* FilteredConcat, FilteredType and ConcatProperties of entries.
LEMMA EntriesConcat ==
  ASSUME NEW s \in Seq(EntryType), NEW t \in Seq(EntryType)
  PROVE  /\ s \o t \in Seq(EntryType) /\ Len(s) \in Nat /\ Len(t) \in Nat
         /\ Len(s \o t) = Len(s) + Len(t)
         /\ \A S : Filtered(s \o t, S) = Filtered(s, S) \o Filtered(t, S)
  <1>1. ASSUME NEW S PROVE Filtered(s \o t, S) = Filtered(s, S) \o Filtered(t, S)
    BY FilteredConcat
  <1> QED
    BY <1>1, ConcatProperties, LenProperties

LEMMA OfKindFilters ==
  ASSUME NEW es \in Seq(EntryType), NEW k
  PROVE  OfKind(es, k) = Filtered(es, Kind(k))
  <1>1. \A i \in 1..Len(es) : es[i] \in EntryType /\ es[i] \in Range(es)
    BY ElementOfSeq, RangeEquality
  <1> DEFINE S == {e \in Range(es) : e.kind = k}
  <1>2. \A i \in 1..Len(es) : es[i] \in S <=> es[i] \in Kind(k)
    BY <1>1 DEF Kind
  <1> HIDE DEF S
  <1>3. Filtered(es, S) = Filtered(es, Kind(k))
    BY <1>2, FilteredSame
  <1> QED
    BY <1>3 DEF OfKind, S

LEMMA EndsTransitive ==
  ASSUME NEW r \in Seq(EntryType), NEW s \in Seq(EntryType), NEW t, Ends(r, s), Ends(s, t)
  PROVE  Ends(r, t)
  <1>1. PICK u \in Seq(EntryType) : s = u \o r
    BY DEF Ends
  <1>2. PICK v \in Seq(EntryType) : t = v \o s
    BY DEF Ends
  <1>3. t = (v \o u) \o r /\ v \o u \in Seq(EntryType)
    BY <1>1, <1>2, ConcatAssociative, ConcatProperties
  <1> QED
    BY <1>3 DEF Ends

LEMMA LeftTransitive ==
  ASSUME NEW q, NEW r, NEW es, Left(q, r), Left(r, es)
  PROVE  Left(q, es)
  <1>1. q \in Seq(EntryType) /\ r \in Seq(EntryType)
    BY DEF Left, Ordered
  <1>2. ASSUME NEW k \in Kinds
        PROVE  Ends(Filtered(q, Kind(k)), Filtered(es, Kind(k)))
    <2> DEFINE x == Filtered(q, Kind(k))
               y == Filtered(r, Kind(k))
               z == Filtered(es, Kind(k))
    <2>1. x \in Seq(EntryType) /\ y \in Seq(EntryType)
      BY <1>1, FilteredType
    <2>2. Ends(x, y) /\ Ends(y, z)
      BY DEF Left
    <2> HIDE DEF x, y, z
    <2>3. Ends(x, z)
      BY <2>1, <2>2, EndsTransitive
    <2> QED
      BY <2>3 DEF x, z
  <1> QED
    BY <1>2 DEF Left

LEMMA SplitAt ==
  ASSUME NEW E, NEW es \in Seq(E), NEW m \in 1..Len(es) + 1
  PROVE  /\ SubSeq(es, 1, m - 1) \in Seq(E) /\ Len(SubSeq(es, 1, m - 1)) = m - 1
         /\ SubSeq(es, m, Len(es)) \in Seq(E) /\ Len(SubSeq(es, m, Len(es))) = Len(es) - m + 1
         /\ \A i \in 1..m - 1 : SubSeq(es, 1, m - 1)[i] = es[i]
         /\ \A i \in 1..Len(es) - m + 1 : SubSeq(es, m, Len(es))[i] = es[m + i - 1]
         /\ es = SubSeq(es, 1, m - 1) \o SubSeq(es, m, Len(es))
  <1>1. Len(es) \in Nat /\ \A i \in 1..Len(es) : es[i] \in E
    BY LenProperties, ElementOfSeq
  <1>2. \A i \in 1..m - 1 : es[i] \in E
    BY <1>1
  <1>3. \A i \in m..Len(es) : es[i] \in E
    BY <1>1
  <1>4. /\ SubSeq(es, 1, m - 1) \in Seq(E) /\ Len(SubSeq(es, 1, m - 1)) = m - 1
        /\ \A i \in 1..m - 1 : SubSeq(es, 1, m - 1)[i] = es[i]
    <2>1. /\ SubSeq(es, 1, m - 1) \in Seq(E)
          /\ Len(SubSeq(es, 1, m - 1)) = IF 1 <= m - 1 THEN (m - 1) - 1 + 1 ELSE 0
          /\ \A i \in 1..(m - 1) - 1 + 1 : SubSeq(es, 1, m - 1)[i] = es[1 + i - 1]
      BY <1>1, <1>2, SubSeqProperties
    <2> QED
      BY <1>1, <2>1
  <1>5. /\ SubSeq(es, m, Len(es)) \in Seq(E)
        /\ Len(SubSeq(es, m, Len(es))) = IF m <= Len(es) THEN Len(es) - m + 1 ELSE 0
        /\ \A i \in 1..Len(es) - m + 1 : SubSeq(es, m, Len(es))[i] = es[m + i - 1]
    BY <1>1, <1>3, SubSeqProperties
  <1>6. Len(SubSeq(es, m, Len(es))) = Len(es) - m + 1
    BY <1>1, <1>5
  <1>7. es = SubSeq(es, 1, m - 1) \o SubSeq(es, m, Len(es))
    <2>1. /\ 1 \in 1..Len(es) + 1 /\ m - 1 \in 1 - 1..Len(es)
          /\ Len(es) \in m - 1..Len(es) /\ (m - 1) + 1 = m
      BY <1>1
    <2>2. SubSeq(es, 1, m - 1) \o SubSeq(es, (m - 1) + 1, Len(es)) = SubSeq(es, 1, Len(es))
      BY <2>1, ConcatAdjacentSubSeq
    <2> QED
      BY <2>1, <2>2, SubSeqFull
  <1> QED
    BY <1>4, <1>5, <1>6, <1>7

\* The end of an ordered list: what is left when its beginning went.
LEMMA EndIsLeft ==
  ASSUME NEW es, Ordered(es), NEW m \in 1..Len(es) + 1
  PROVE  Left(SubSeq(es, m, Len(es)), es)
  <1> DEFINE s == SubSeq(es, 1, m - 1)
             t == SubSeq(es, m, Len(es))
  <1>1. /\ es \in Seq(EntryType) /\ s \in Seq(EntryType) /\ t \in Seq(EntryType)
        /\ Len(es) \in Nat /\ Len(t) = Len(es) - m + 1
        /\ \A i \in 1..Len(t) : t[i] = es[m + i - 1]
        /\ es = s \o t
    <2>1. es \in Seq(EntryType) /\ Len(es) \in Nat
      BY LenProperties DEF Ordered
    <2>2. /\ s \in Seq(EntryType) /\ t \in Seq(EntryType) /\ Len(t) = Len(es) - m + 1
          /\ \A i \in 1..Len(es) - m + 1 : t[i] = es[m + i - 1]
          /\ es = s \o t
      BY <2>1, SplitAt
    <2> HIDE DEF s, t
    <2> QED
      BY <2>1, <2>2
  <1> HIDE DEF s, t
  <1>2. Ordered(t)
    <2>1. \A i \in 1..Len(t) : m + i - 1 \in 1..Len(es)
      BY <1>1
    <2>2. \A i, j \in 1..Len(t) : i <= j => m + i - 1 <= m + j - 1
      BY <1>1
    <2> QED
      BY <1>1, <2>1, <2>2 DEF Ordered
  <1>3. ASSUME NEW k \in Kinds
        PROVE  Ends(Filtered(t, Kind(k)), Filtered(es, Kind(k)))
    <2>1. Filtered(es, Kind(k)) = Filtered(s, Kind(k)) \o Filtered(t, Kind(k))
      BY <1>1, FilteredConcat
    <2>2. Filtered(s, Kind(k)) \in Seq(EntryType)
      BY <1>1, FilteredType
    <2> QED
      BY <2>1, <2>2 DEF Ends
  <1>4. Left(t, es)
    BY <1>2, <1>3 DEF Left
  <1> QED
    BY <1>4 DEF t

-----------------------------------------------------------------------------
(* evict, step by step *)

\* Entries go, the newest one stays.
Within(r, es) == \A i \in 1..Len(r) : \E j \in 1..Len(es) : r[i] = es[j]
SameLast(r, es) == es # <<>> => r # <<>> /\ r[Len(r)] = es[Len(es)]

LEMMA EndIsWithin ==
  ASSUME NEW es \in Seq(EntryType), NEW m \in 1..Len(es) + 1
  PROVE  /\ Within(SubSeq(es, m, Len(es)), es)
         /\ m <= Len(es) => SameLast(SubSeq(es, m, Len(es)), es)
  <1> DEFINE t == SubSeq(es, m, Len(es))
  <1>1. /\ Len(es) \in Nat /\ t \in Seq(EntryType) /\ Len(t) = Len(es) - m + 1
        /\ \A i \in 1..Len(t) : t[i] = es[m + i - 1]
    BY SplitAt, LenProperties
  <1> HIDE DEF t
  <1>2. \A i \in 1..Len(t) : m + i - 1 \in 1..Len(es)
    BY <1>1
  <1>3. m <= Len(es) => t # <<>> /\ t[Len(t)] = es[Len(es)]
    <2> SUFFICES ASSUME m <= Len(es) PROVE t # <<>> /\ t[Len(t)] = es[Len(es)]
      OBVIOUS
    <2>1. Len(t) \in 1..Len(t) /\ m + Len(t) - 1 = Len(es) /\ Len(t) # 0
      BY <1>1
    <2> QED
      BY <1>1, <2>1, EmptySeq
  <1>4. Within(t, es)
    BY <1>1, <1>2 DEF Within
  <1> QED
    BY <1>3, <1>4 DEF t, SameLast

LEMMA LeftIsFewer ==
  ASSUME NEW r, NEW es, Left(r, es), NEW k \in Kinds, es \in Seq(EntryType)
  PROVE  /\ Len(Filtered(r, Kind(k))) \in Nat /\ Len(Filtered(es, Kind(k))) \in Nat
         /\ Len(Filtered(r, Kind(k))) <= Len(Filtered(es, Kind(k)))
  <1> DEFINE x == Filtered(r, Kind(k))
             z == Filtered(es, Kind(k))
  <1>1. x \in Seq(EntryType) /\ z \in Seq(EntryType) /\ Ends(x, z)
    BY FilteredType DEF Left, Ordered
  <1> HIDE DEF x, z
  <1>2. PICK u \in Seq(EntryType) : z = u \o x
    BY <1>1 DEF Ends
  <1>3. Len(x) \in Nat /\ Len(z) \in Nat /\ Len(u) \in Nat /\ Len(z) = Len(u) + Len(x)
    BY <1>1, <1>2, LenProperties, ConcatProperties
  <1>4. Len(x) \in Nat /\ Len(z) \in Nat /\ Len(x) <= Len(z)
    BY <1>3
  <1> QED
    BY <1>4 DEF x, z

\* The window cuts off the beginning.
LEMMA WindowCuts ==
  ASSUME NEW es, Ordered(es), NEW c \in Int
  PROVE  \E m \in 1..Len(es) + 1 :
           /\ Filtered(es, {e \in Range(es) : e.at >= c}) = SubSeq(es, m, Len(es))
           /\ \A i \in m..Len(es) : es[i].at >= c
           /\ m <= Len(es) \/ \A i \in 1..Len(es) : es[i].at < c
  <1> DEFINE T == {i \in 1..Len(es) + 1 : i = Len(es) + 1 \/ es[i].at >= c}
             S == {e \in Range(es) : e.at >= c}
  <1>1. es \in Seq(EntryType) /\ Len(es) \in Nat
    BY LenProperties DEF Ordered
  <1>2. Len(es) + 1 \in T /\ T \in SUBSET Nat
    BY <1>1
  <1>3. PICK m \in T : \A k \in T : m <= k
    BY <1>2, LeastNat
  <1>4. \A i \in 1..Len(es) : es[i] \in EntryType /\ es[i].at \in Nat
    <2>1. \A i \in 1..Len(es) : es[i] \in EntryType
      BY <1>1, ElementOfSeq
    <2>2. \A e \in EntryType : e.at \in Nat
      BY DEF EntryType
    <2> QED
      BY <2>1, <2>2
  <1>5. \A i \in 1..m - 1 : i \in 1..Len(es) /\ es[i].at < c
    BY <1>1, <1>3, <1>4
  <1>6. \A i \in m..Len(es) : i \in 1..Len(es) /\ es[i].at >= c
    <2> SUFFICES ASSUME NEW i \in m..Len(es) PROVE i \in 1..Len(es) /\ es[i].at >= c
      OBVIOUS
    <2>1. m \in 1..Len(es) /\ i \in 1..Len(es) /\ m <= i
      BY <1>1, <1>3
    <2>2. es[m].at >= c /\ es[m].at <= es[i].at
      BY <1>1, <1>3, <2>1 DEF Ordered
    <2> QED
      BY <1>4, <2>1, <2>2
  <1>7. m \in 1..Len(es) + 1
    BY <1>3
  <1>8. \A i \in 1..Len(es) : es[i] \in S <=> es[i].at >= c
    BY <1>1, RangeEquality
  <1>9. Filtered(es, S) = SubSeq(es, m, Len(es))
    <2> DEFINE s == SubSeq(es, 1, m - 1)
               t == SubSeq(es, m, Len(es))
    <2>1. /\ s \in Seq(EntryType) /\ t \in Seq(EntryType)
          /\ Len(s) = m - 1 /\ \A i \in 1..m - 1 : s[i] = es[i]
          /\ Len(t) = Len(es) - m + 1
          /\ \A i \in 1..Len(es) - m + 1 : t[i] = es[m + i - 1]
          /\ es = s \o t
      BY <1>1, <1>7, SplitAt
    <2> HIDE DEF s, t, S
    <2>2. Filtered(es, S) = Filtered(s, S) \o Filtered(t, S)
      BY <2>1, FilteredConcat
    <2>3. \A i \in 1..Len(s) : s[i] \notin S
      <3> SUFFICES ASSUME NEW i \in 1..Len(s) PROVE s[i] \notin S
        OBVIOUS
      <3>1. i \in 1..Len(es) /\ s[i] = es[i] /\ es[i].at < c /\ es[i].at \in Nat
        BY <1>4, <1>5, <2>1
      <3> QED
        BY <1>8, <3>1
    <2>4. Filtered(s, S) = <<>>
      BY <2>1, <2>3, FilteredNone
    <2>5. \A i \in 1..Len(t) : t[i] \in S /\ t[i] \in EntryType
      <3> SUFFICES ASSUME NEW i \in 1..Len(t) PROVE t[i] \in S /\ t[i] \in EntryType
        OBVIOUS
      <3>1. m + i - 1 \in m..Len(es) /\ t[i] = es[m + i - 1]
        BY <1>1, <1>7, <2>1
      <3>2. m + i - 1 \in 1..Len(es) /\ es[m + i - 1].at >= c
        BY <1>6, <3>1
      <3> QED
        BY <1>4, <1>8, <3>1, <3>2
    <2>6. Filtered(t, S) = Filtered(t, EntryType)
      BY <2>1, <2>5, FilteredSame
    <2>7. Filtered(t, EntryType) = t
      BY <2>1, FilteredAll
    <2>8. Filtered(es, S) = t
      BY <2>1, <2>2, <2>4, <2>6, <2>7, ConcatEmptySeq
    <2> QED
      BY <2>8 DEF t
  <1>10. m <= Len(es) \/ \A i \in 1..Len(es) : es[i].at < c
    BY <1>1, <1>5, <1>7
  <1> QED
    BY <1>6, <1>7, <1>9, <1>10

\* The cap of a kind removes its oldest, and nothing of the other one.
LEMMA CapRemoves ==
  ASSUME NEW es, Ordered(es), NEW k \in Kinds, NEW n \in Nat \ {0},
         Len(Filtered(es, Kind(k))) <= n + 1
  PROVE  /\ Left(Capped(es, k, n), es) /\ Within(Capped(es, k, n), es)
         /\ SameLast(Capped(es, k, n), es)
         /\ Len(Filtered(Capped(es, k, n), Kind(k))) <= n
  <1>1. es \in Seq(EntryType) /\ Len(es) \in Nat /\ Filtered(es, Kind(k)) \in Seq(EntryType)
    BY LenProperties, FilteredType DEF Ordered
  <1>2. OfKind(es, k) = Filtered(es, Kind(k)) /\ Len(Filtered(es, Kind(k))) \in Nat
    BY <1>1, OfKindFilters, LenProperties
  <1>3. CASE Len(Filtered(es, Kind(k))) <= n
    <2>1. Capped(es, k, n) = es
      BY <1>2, <1>3 DEF Capped
    <2>2. Left(SubSeq(es, 1, Len(es)), es)
      BY <1>1, EndIsLeft
    <2>3. SubSeq(es, 1, Len(es)) = es
      BY <1>1, SubSeqFull
    <2> QED
      BY <1>3, <2>1, <2>2, <2>3 DEF Within, SameLast
  <1>4. CASE ~ (Len(Filtered(es, Kind(k))) <= n)
    <2> DEFINE First(i) == i \in DOMAIN es /\ es[i].kind = k /\ \A j \in 1..i - 1 : es[j].kind # k
               T == {i \in 1..Len(es) : es[i] \in Kind(k)}
    <2>1. DOMAIN es = 1..Len(es) /\ \A i \in 1..Len(es) : es[i] \in Kind(k) <=> es[i].kind = k
      BY <1>1, LenProperties, ElementOfSeq DEF Kind
    <2>2. T # {}
      <3>1. Filtered(es, Kind(k)) # <<>>
        BY <1>2, <1>4, EmptySeq
      <3> QED
        BY <1>1, <3>1, FilteredNone
    <2>3. T \in SUBSET Nat
      OBVIOUS
    <2>4. PICK y \in T : \A z \in T : y <= z
      BY <2>2, <2>3, LeastNat
    <2>5. First(y)
      BY <1>1, <2>1, <2>4
    <2> DEFINE i == CHOOSE i \in DOMAIN es :
                      es[i].kind = k /\ \A j \in 1..i - 1 : es[j].kind # k
    <2>6. i \in 1..Len(es) /\ es[i].kind = k /\ \A j \in 1..i - 1 : es[j].kind # k
      BY <2>1, <2>5
    <2>7. Capped(es, k, n) = RemoveAt(es, i)
      BY <1>2, <1>4 DEF Capped
    <2> HIDE DEF i, First, T
    <2>8. i \in 1..Len(es) + 1 /\ i + 1 \in 1..Len(es) + 1 /\ (i + 1) - 1 = i
      BY <1>1, <2>6
    <2> DEFINE s == SubSeq(es, 1, i - 1)
               t == SubSeq(es, i + 1, Len(es))
               one == <<es[i]>>
               r == s \o t
    <2>9. /\ s \in Seq(EntryType) /\ Len(s) = i - 1
          /\ \A j \in 1..i - 1 : s[j] = es[j]
      BY <1>1, <2>8, SplitAt
    <2>10. /\ t \in Seq(EntryType) /\ Len(t) = Len(es) - (i + 1) + 1
           /\ \A j \in 1..Len(es) - (i + 1) + 1 : t[j] = es[(i + 1) + j - 1]
      BY <1>1, <2>8, SplitAt
    <2>11. one \in Seq(EntryType) /\ Len(one) = 1 /\ one[1] = es[i]
      BY <1>1, <2>6, ElementOfSeq
    <2>12. es = s \o (one \o t)
      <3>1. es = s \o SubSeq(es, i, Len(es))
        BY <1>1, <2>8, SplitAt
      <3>2. SubSeq(es, i, Len(es)) = one \o t
        BY <1>1, <2>6, SubSeqRecursiveFirst
      <3> QED
        BY <3>1, <3>2
    <2>13. Capped(es, k, n) = r
      BY <2>7 DEF RemoveAt
    <2> HIDE DEF s, t, one
    <2>14. r \in Seq(EntryType) /\ Len(r) = Len(es) - 1 /\ one \o t \in Seq(EntryType)
      <3>1. r \in Seq(EntryType) /\ Len(r) = Len(s) + Len(t)
        BY <2>9, <2>10, EntriesConcat
      <3>2. one \o t \in Seq(EntryType)
        BY <2>10, <2>11, EntriesConcat
      <3> QED
        BY <1>1, <2>6, <2>9, <2>10, <3>1, <3>2
    <2>15. \A j \in 1..Len(r) : r[j] = IF j < i THEN es[j] ELSE es[j + 1]
      <3> SUFFICES ASSUME NEW j \in 1..Len(r) PROVE r[j] = IF j < i THEN es[j] ELSE es[j + 1]
        OBVIOUS
      <3>1. Len(s) + Len(t) = Len(r) /\ r[j] = IF j <= Len(s) THEN s[j] ELSE t[j - Len(s)]
        BY <1>1, <2>6, <2>9, <2>10, <2>14, ConcatProperties
      <3>2. CASE j < i
        BY <2>6, <2>9, <3>1, <3>2
      <3>3. CASE ~ (j < i)
        <4>1. j - Len(s) \in 1..Len(es) - (i + 1) + 1
          BY <1>1, <2>6, <2>9, <2>14, <3>3
        <4>2. (i + 1) + (j - Len(s)) - 1 = j + 1
          BY <2>6, <2>9
        <4> QED
          BY <2>6, <2>9, <2>10, <3>1, <3>3, <4>1, <4>2
      <3> QED
        BY <3>2, <3>3
    <2> HIDE DEF r
    <2>16. \A j \in 1..Len(r) : j \in 1..Len(es) /\ j + 1 \in 1..Len(es)
      BY <1>1, <2>6, <2>14
    <2>17. Ordered(r)
      <3>1. \A j \in 1..Len(r) : r[j].at <= age[Kept]
        BY <2>15, <2>16 DEF Ordered
      <3>2. ASSUME NEW j \in 1..Len(r), NEW l \in 1..Len(r), j <= l
            PROVE  r[j].at <= r[l].at
        <4> DEFINE jj == IF j < i THEN j ELSE j + 1
                   ll == IF l < i THEN l ELSE l + 1
        <4>1. jj \in 1..Len(es) /\ ll \in 1..Len(es) /\ jj <= ll
          BY <2>6, <2>16, <3>2
        <4>2. r[j] = es[jj] /\ r[l] = es[ll]
          BY <2>15
        <4> QED
          BY <4>1, <4>2 DEF Ordered
      <3> QED
        BY <2>14, <3>1, <3>2 DEF Ordered
    <2>18. Filtered(es, Kind(k)) = one \o Filtered(t, Kind(k))
             /\ Filtered(r, Kind(k)) = Filtered(t, Kind(k))
      <3>1. Filtered(s, Kind(k)) = <<>>
        <4>1. \A j \in 1..Len(s) : s[j] \notin Kind(k)
          BY <2>1, <2>6, <2>9 DEF Kind
        <4> QED
          BY <2>9, <4>1, FilteredNone
      <3>2. Filtered(one, Kind(k)) = one
        <4>1. \A j \in 1..Len(one) : one[j] \in Kind(k) <=> one[j] \in EntryType
          BY <2>1, <2>6, <2>11, <1>1, ElementOfSeq DEF Kind
        <4>2. Filtered(one, Kind(k)) = Filtered(one, EntryType)
          BY <2>11, <4>1, FilteredSame
        <4> QED
          BY <2>11, <4>2, FilteredAll
      <3>3. Filtered(t, Kind(k)) \in Seq(EntryType)
        BY <2>10, FilteredType
      <3>4. Filtered(one \o t, Kind(k)) = one \o Filtered(t, Kind(k))
        <4>1. Filtered(one \o t, Kind(k)) = Filtered(one, Kind(k)) \o Filtered(t, Kind(k))
          BY <2>10, <2>11, EntriesConcat
        <4> QED
          BY <3>2, <4>1
      <3>5. Filtered(es, Kind(k)) = Filtered(s, Kind(k)) \o Filtered(one \o t, Kind(k))
        <4>1. \A S : Filtered(s \o (one \o t), S) = Filtered(s, S) \o Filtered(one \o t, S)
          BY <2>9, <2>14, EntriesConcat
        <4> QED
          BY <2>12, <4>1
      <3>6. Filtered(r, Kind(k)) = Filtered(s, Kind(k)) \o Filtered(t, Kind(k))
        BY <2>9, <2>10, FilteredConcat DEF r
      <3>7. one \o Filtered(t, Kind(k)) \in Seq(EntryType)
        BY <2>11, <3>3, ConcatProperties
      <3> QED
        BY <3>1, <3>3, <3>4, <3>5, <3>6, <3>7, ConcatEmptySeq
    <2>19. /\ Len(Filtered(r, Kind(k))) <= n /\ t # <<>>
           /\ Ends(Filtered(r, Kind(k)), Filtered(es, Kind(k)))
      <3> DEFINE x == Filtered(t, Kind(k))
      <3>1. x \in Seq(EntryType)
        BY <2>10, FilteredType
      <3>2. Len(x) \in Nat
        BY <3>1, LenProperties
      <3>3. t = <<>> => x = <<>>
        BY FilteredEmpty
      <3>4. Filtered(es, Kind(k)) = one \o x /\ Filtered(r, Kind(k)) = x
        BY <2>18
      <3> HIDE DEF x
      <3>5. Len(Filtered(es, Kind(k))) = 1 + Len(x)
        BY <2>11, <3>1, <3>4, EntriesConcat
      <3>6. Len(x) <= n /\ Len(x) # 0
        BY <1>2, <1>4, <3>2, <3>5
      <3>7. x # <<>>
        BY <3>6, EmptySeq
      <3> QED
        BY <2>11, <3>3, <3>4, <3>6, <3>7 DEF Ends
    <2>20. ASSUME NEW l \in Kinds
           PROVE  Ends(Filtered(r, Kind(l)), Filtered(es, Kind(l)))
      <3>1. CASE l = k
        BY <2>19, <3>1
      <3>2. CASE l # k
        <4>1. Filtered(one, Kind(l)) = <<>>
          <5>1. \A j \in 1..Len(one) : one[j] \notin Kind(l)
            BY <2>6, <2>11, <3>2 DEF Kind
          <5> QED
            BY <2>11, <5>1, FilteredNone
        <4>2. PICK x \in Seq(EntryType) : x = Filtered(t, Kind(l))
          BY <2>10, FilteredType
        <4>3. Filtered(one \o t, Kind(l)) = Filtered(t, Kind(l))
          <5>1. \A S : Filtered(one \o t, S) = Filtered(one, S) \o Filtered(t, S)
            BY <2>10, <2>11, EntriesConcat
          <5>2. <<>> \o x = x
            BY ConcatEmptySeq
          <5>3. Filtered(one \o t, Kind(l)) = <<>> \o x
            <6>1. Filtered(one \o t, Kind(l)) = Filtered(one, Kind(l)) \o Filtered(t, Kind(l))
              BY <5>1
            <6> QED
              BY <4>1, <4>2, <6>1
          <5> QED
            BY <4>2, <5>2, <5>3
        <4>4. Filtered(es, Kind(l)) = Filtered(s, Kind(l)) \o Filtered(one \o t, Kind(l))
          <5>1. \A S : Filtered(s \o (one \o t), S) = Filtered(s, S) \o Filtered(one \o t, S)
            BY <2>9, <2>14, EntriesConcat
          <5> QED
            BY <2>12, <5>1
        <4>5. Filtered(r, Kind(l)) = Filtered(s, Kind(l)) \o Filtered(t, Kind(l))
          BY <2>9, <2>10, FilteredConcat DEF r
        <4>6. Filtered(r, Kind(l)) = Filtered(es, Kind(l))
          BY <4>3, <4>4, <4>5
        <4>7. Filtered(es, Kind(l)) \in Seq(EntryType)
          BY <1>1, FilteredType
        <4>8. Filtered(es, Kind(l)) = <<>> \o Filtered(es, Kind(l)) /\ <<>> \in Seq(EntryType)
          BY <4>7, ConcatEmptySeq, EmptySeq
        <4> QED
          BY <4>6, <4>8 DEF Ends
      <3> QED
        BY <3>1, <3>2
    <2>21. SameLast(r, es)
      <3>1. Len(t) # 0
        BY <2>10, <2>19, EmptySeq
      <3>2. Len(r) \in 1..Len(r) /\ ~ (Len(r) < i) /\ Len(r) + 1 = Len(es) /\ Len(r) # 0
        <4>1. Len(r) = Len(es) - 1 /\ Len(t) = Len(es) - i /\ i \in 1..Len(es)
          BY <1>1, <2>6, <2>10, <2>14
        <4> QED
          BY <1>1, <3>1, <4>1
      <3>3. r # <<>>
        BY <3>2, EmptySeq
      <3> QED
        BY <2>15, <3>2, <3>3 DEF SameLast
    <2>22. Within(r, es)
      BY <2>15, <2>16 DEF Within
    <2> QED
      BY <2>13, <2>17, <2>19, <2>20, <2>21, <2>22 DEF Left
  <1> QED
    BY <1>3, <1>4

-----------------------------------------------------------------------------
(* evict *)

LEMMA Largest ==
  ASSUME NEW n \in Nat, NEW T \in SUBSET (0..n), T # {}
  PROVE  Max(T) \in T /\ \A y \in T : Max(T) >= y
  <1> DEFINE U == {m \in Nat : n - m \in T}
  <1>1. PICK y \in T : TRUE
    OBVIOUS
  <1>2. n - y \in Nat /\ n - (n - y) = y
    BY <1>1
  <1>3. n - y \in U /\ U \in SUBSET Nat
    BY <1>1, <1>2
  <1>4. PICK m \in U : \A k \in U : m <= k
    BY <1>3, LeastNat
  <1>5. n - m \in T
    BY <1>4
  <1>6. ASSUME NEW z \in T PROVE n - m >= z
    <2>1. z \in 0..n /\ n - z \in Nat /\ n - (n - z) = z
      OBVIOUS
    <2>2. PICK k \in Nat : k = n - z /\ n - k = z
      BY <2>1
    <2>3. k \in U
      BY <2>2
    <2>4. m <= k /\ m \in Nat
      BY <1>4, <2>3
    <2> QED
      BY <2>1, <2>2, <2>4
  <1> QED
    BY <1>5, <1>6 DEF Max

Sum(f, es) == f = [i \in 0..Len(es) |-> IF i = 0 THEN 0 ELSE f[i - 1] + es[i].bytes]

LEMMA TotalOfFew ==
  ASSUME NEW es \in Seq(EntryType)
  PROVE  /\ Len(es) = 0 => totalBytes(es) = 0
         /\ Len(es) = 1 => totalBytes(es) = es[1].bytes
  <1> DEFINE f == CHOOSE f : Sum(f, es)
  <1>1. totalBytes(es) = f[Len(es)]
    BY DEF totalBytes, Sum
  <1> HIDE DEF f
  <1>2. ASSUME NEW g, Sum(g, es) PROVE Sum(f, es)
    BY <1>2 DEF f
  <1>3. ASSUME Len(es) = 0 PROVE totalBytes(es) = 0
    <2> DEFINE g == [i \in 0..0 |-> 0]
    <2>1. g = [i \in 0..0 |-> IF i = 0 THEN 0 ELSE g[i - 1] + es[i].bytes]
      OBVIOUS
    <2>2. Sum(g, es)
      BY <1>3, <2>1 DEF Sum
    <2>3. Sum(f, es)
      BY <1>2, <2>2
    <2> QED
      BY <1>1, <1>3, <2>3 DEF Sum
  <1>4. ASSUME Len(es) = 1 PROVE totalBytes(es) = es[1].bytes
    <2>1. es[1].bytes \in Nat
      <3>1. es[1] \in EntryType
        BY <1>4, ElementOfSeq
      <3> QED
        BY <3>1 DEF EntryType
    <2> DEFINE g == [i \in 0..1 |-> IF i = 0 THEN 0 ELSE es[1].bytes]
    <2>2. ASSUME NEW i \in 0..1
          PROVE  g[i] = IF i = 0 THEN 0 ELSE g[i - 1] + es[i].bytes
      <3>1. CASE i = 0
        BY <3>1
      <3>2. CASE i = 1
        <4>1. g[i - 1] = 0 /\ g[i] = es[1].bytes
          BY <3>2
        <4> QED
          BY <2>1, <3>2, <4>1
      <3> QED
        BY <3>1, <3>2
    <2>3. g = [i \in 0..1 |-> g[i]]
      OBVIOUS
    <2>4. Sum(g, es)
      BY <1>4, <2>2, <2>3 DEF Sum
    <2>5. Sum(f, es)
      BY <1>2, <2>4
    <2>6. 0 \in 0..Len(es) /\ 1 \in 0..Len(es)
      BY <1>4
    <2>7. f[0] = 0 /\ f[1] = f[0] + es[1].bytes
      BY <2>5, <2>6 DEF Sum
    <2> QED
      BY <1>1, <1>4, <2>1, <2>7
  <1> QED
    BY <1>3, <1>4

LEMMA NewestCuts ==
  ASSUME NEW E, NEW es \in Seq(E), NEW n \in Nat
  PROVE  \E m \in 1..Len(es) + 1 :
           /\ Newest(es, n) = SubSeq(es, m, Len(es))
           /\ Len(es) > n => m = Len(es) - n + 1
           /\ Len(es) <= n => m = 1
  <1>1. Len(es) \in Nat
    BY LenProperties
  <1> DEFINE m == IF Len(es) > n THEN Len(es) - n + 1 ELSE 1
  <1>2. m \in 1..Len(es) + 1
    BY <1>1
  <1>3. Newest(es, n) = SubSeq(es, m, Len(es))
    BY DEF Newest
  <1>4. (Len(es) > n => m = Len(es) - n + 1) /\ (Len(es) <= n => m = 1)
    BY <1>1
  <1> HIDE DEF m
  <1> QED
    BY <1>2, <1>3, <1>4

LEMMA EvictKeeps ==
  ASSUME NEW es, Ordered(es), age[Kept] \in Nat,
         Len(Filtered(es, Kind("frame"))) <= MaxFrames + 1,
         Len(Filtered(es, Kind("text"))) <= MaxTextSnippets + 1
  PROVE  /\ Left(evict(es), es)
         /\ Len(Filtered(evict(es), Kind("frame"))) <= MaxFrames
         /\ Len(Filtered(evict(es), Kind("text"))) <= MaxTextSnippets
         /\ \A i \in 1..Len(evict(es)) : evict(es)[i].at >= age[Kept] - Window
         /\ totalBytes(evict(es)) <= MaxBufferBytes
         /\ /\ es # <<>> /\ es[Len(es)].at = age[Kept] /\ es[Len(es)].bytes <= MaxBufferBytes
            => SameLast(evict(es), es)
  <1> DEFINE c == age[Kept] - Window
             recent == Filtered(es, {e \in Range(es) : e.at >= c})
             one == Capped(recent, "frame", MaxFrames)
             few == Capped(one, "text", MaxTextSnippets)
             Sizes == {n \in 0..Len(few) : totalBytes(Newest(few, n)) <= MaxBufferBytes}
             r == Newest(few, Max(Sizes))
  <1>1. evict(es) = r
    BY DEF evict
  <1>2. /\ MaxFrames \in Nat \ {0} /\ MaxTextSnippets \in Nat \ {0}
        /\ Window \in Nat /\ MaxBufferBytes \in Nat /\ c \in Int
    BY LimitsOK
  <1>3. es \in Seq(EntryType) /\ Len(es) \in Nat /\ "frame" \in Kinds /\ "text" \in Kinds
    BY LenProperties DEF Ordered, Kinds
  <1>4. PICK m \in 1..Len(es) + 1 :
          /\ recent = SubSeq(es, m, Len(es))
          /\ \A i \in m..Len(es) : es[i].at >= c
          /\ m <= Len(es) \/ \A i \in 1..Len(es) : es[i].at < c
    BY <1>2, WindowCuts
  <1>5. /\ Left(recent, es) /\ Within(recent, es)
        /\ m <= Len(es) => SameLast(recent, es)
    <2> HIDE DEF recent
    <2>1. Left(SubSeq(es, m, Len(es)), es)
      BY EndIsLeft
    <2>2. /\ Within(SubSeq(es, m, Len(es)), es)
          /\ m <= Len(es) => SameLast(SubSeq(es, m, Len(es)), es)
      BY <1>3, EndIsWithin
    <2> QED
      BY <1>4, <2>1, <2>2
  <1>6. recent \in Seq(EntryType) /\ \A i \in 1..Len(recent) : recent[i].at >= c
    <2> HIDE DEF recent
    <2>1. /\ recent \in Seq(EntryType) /\ Len(recent) = Len(es) - m + 1
          /\ \A i \in 1..Len(es) - m + 1 : recent[i] = es[m + i - 1]
      BY <1>3, <1>4, SplitAt
    <2>2. \A i \in 1..Len(es) - m + 1 : m + i - 1 \in m..Len(es)
      BY <1>3
    <2> QED
      BY <1>4, <2>1, <2>2
  <1> HIDE DEF recent, c
  <1>7. Ordered(recent) /\ Len(Filtered(recent, Kind("frame"))) <= MaxFrames + 1
    BY <1>2, <1>3, <1>5, LeftIsFewer DEF Left
  <1>8. /\ Left(one, recent) /\ Within(one, recent) /\ SameLast(one, recent)
        /\ Len(Filtered(one, Kind("frame"))) <= MaxFrames
    BY <1>2, <1>3, <1>7, CapRemoves
  <1> HIDE DEF one
  <1>9. Left(one, es) /\ one \in Seq(EntryType)
    BY <1>5, <1>8, LeftTransitive DEF Left, Ordered
  <1>10. Ordered(one) /\ Len(Filtered(one, Kind("text"))) <= MaxTextSnippets + 1
    BY <1>2, <1>3, <1>9, LeftIsFewer DEF Left
  <1>11. /\ Left(few, one) /\ Within(few, one) /\ SameLast(few, one)
         /\ Len(Filtered(few, Kind("text"))) <= MaxTextSnippets
    BY <1>2, <1>3, <1>10, CapRemoves
  <1> HIDE DEF few
  <1>12. /\ Left(few, es) /\ Ordered(few) /\ few \in Seq(EntryType) /\ Len(few) \in Nat
    BY <1>9, <1>11, LeftTransitive, LenProperties DEF Left, Ordered
  <1>13. Len(Filtered(few, Kind("frame"))) <= MaxFrames
    BY <1>2, <1>3, <1>8, <1>9, <1>11, LeftIsFewer
  <1>14. Max(Sizes) \in Sizes /\ \A n \in Sizes : Max(Sizes) >= n
    <2>1. Newest(few, 0) \in Seq(EntryType) /\ Len(Newest(few, 0)) = 0
      <3>1. PICK k \in 1..Len(few) + 1 : /\ Newest(few, 0) = SubSeq(few, k, Len(few))
                                         /\ Len(few) > 0 => k = Len(few) - 0 + 1
                                         /\ Len(few) <= 0 => k = 1
        BY <1>12, NewestCuts
      <3>2. k = Len(few) + 1
        BY <1>12, <3>1
      <3> QED
        BY <1>12, <3>1, <3>2, SplitAt
    <2>2. 0 \in Sizes
      BY <1>2, <1>12, <2>1, TotalOfFew
    <2>3. Sizes \in SUBSET (0..Len(few)) /\ Sizes # {}
      BY <2>2
    <2> HIDE DEF Sizes
    <2> QED
      BY <1>12, <2>3, Largest
  <1> DEFINE top == Max(Sizes)
  <1>15. top \in 0..Len(few) /\ totalBytes(r) <= MaxBufferBytes
    BY <1>14
  <1>16. top >= 1 \/ ~ (1 \in Sizes)
    BY <1>14
  <1>17. r = Newest(few, top)
    OBVIOUS
  <1>18. 1 \in Sizes <=> 1 \in 0..Len(few) /\ totalBytes(Newest(few, 1)) <= MaxBufferBytes
    OBVIOUS
  <1> HIDE DEF r, top, Sizes
  <1>19. PICK k \in 1..Len(few) + 1 : /\ r = SubSeq(few, k, Len(few))
                                      /\ top >= 1 /\ few # <<>> => k <= Len(few)
    <2>1. top \in Nat
      BY <1>12, <1>15
    <2>2. PICK k \in 1..Len(few) + 1 : /\ r = SubSeq(few, k, Len(few))
                                       /\ Len(few) > top => k = Len(few) - top + 1
                                       /\ Len(few) <= top => k = 1
      BY <1>12, <1>17, <2>1, NewestCuts
    <2>3. few # <<>> => Len(few) >= 1
      BY <1>12, EmptySeq
    <2> QED
      BY <1>12, <2>1, <2>2, <2>3
  <1>20. Left(r, few) /\ Within(r, few) /\ (top >= 1 /\ few # <<>> => SameLast(r, few))
    BY <1>12, <1>19, EndIsLeft, EndIsWithin
  <1>21. Left(r, es)
    BY <1>12, <1>20, LeftTransitive
  <1>22. Len(Filtered(r, Kind("frame"))) <= MaxFrames
         /\ Len(Filtered(r, Kind("text"))) <= MaxTextSnippets
    <2>1. /\ Len(Filtered(r, Kind("frame"))) \in Nat /\ Len(Filtered(few, Kind("frame"))) \in Nat
          /\ Len(Filtered(r, Kind("frame"))) <= Len(Filtered(few, Kind("frame")))
      BY <1>3, <1>12, <1>20, LeftIsFewer
    <2>2. /\ Len(Filtered(r, Kind("text"))) \in Nat /\ Len(Filtered(few, Kind("text"))) \in Nat
          /\ Len(Filtered(r, Kind("text"))) <= Len(Filtered(few, Kind("text")))
      BY <1>3, <1>12, <1>20, LeftIsFewer
    <2> QED
      BY <1>2, <1>11, <1>13, <2>1, <2>2
  <1>23. \A i \in 1..Len(r) : r[i].at >= c
    <2>1. \A i \in 1..Len(one) : one[i].at >= c
      BY <1>6, <1>8 DEF Within
    <2>2. \A i \in 1..Len(few) : few[i].at >= c
      BY <1>11, <2>1 DEF Within
    <2> QED
      BY <1>20, <2>2 DEF Within
  <1>24. ASSUME es # <<>>, es[Len(es)].at = age[Kept], es[Len(es)].bytes <= MaxBufferBytes
         PROVE  SameLast(r, es)
    <2>1. m <= Len(es)
      <3>1. Len(es) \in 1..Len(es)
        BY <1>3, <1>24, EmptySeq
      <3>2. ~ (age[Kept] < c)
        BY <1>2 DEF c
      <3> QED
        BY <1>4, <1>24, <3>1, <3>2
    <2>2. few # <<>> /\ few[Len(few)] = es[Len(es)]
      BY <1>5, <1>8, <1>11, <1>24, <2>1 DEF SameLast
    <2>3. Len(few) \in 1..Len(few)
      BY <1>12, <2>2, EmptySeq
    <2>4. Newest(few, 1) \in Seq(EntryType) /\ Len(Newest(few, 1)) = 1
            /\ Newest(few, 1)[1] = few[Len(few)]
      <3>1. PICK l \in 1..Len(few) + 1 : /\ Newest(few, 1) = SubSeq(few, l, Len(few))
                                         /\ Len(few) > 1 => l = Len(few) - 1 + 1
                                         /\ Len(few) <= 1 => l = 1
        BY <1>12, NewestCuts
      <3>2. l = Len(few) /\ Len(few) - l + 1 = 1 /\ 1 \in 1..Len(few) - l + 1 /\ l + 1 - 1 = Len(few)
        BY <1>12, <2>3, <3>1
      <3>3. /\ SubSeq(few, l, Len(few)) \in Seq(EntryType)
            /\ Len(SubSeq(few, l, Len(few))) = Len(few) - l + 1
            /\ \A i \in 1..Len(few) - l + 1 : SubSeq(few, l, Len(few))[i] = few[l + i - 1]
        BY <1>12, SplitAt
      <3> QED
        BY <3>1, <3>2, <3>3
    <2>5. totalBytes(Newest(few, 1)) <= MaxBufferBytes
      BY <1>24, <2>2, <2>4, TotalOfFew
    <2>6. top >= 1
      BY <1>12, <1>16, <1>18, <2>3, <2>5
    <2> QED
      BY <1>20, <1>24, <2>2, <2>6 DEF SameLast
  <1> QED
    BY <1>1, <1>15, <1>21, <1>22, <1>23, <1>24 DEF c

-----------------------------------------------------------------------------
(* The buffer keeps within its limits *)

\* What addFrame and addText keep of a buffer.
Differ(ts) == \A i \in 2..Len(ts) : ts[i - 1].what # ts[i].what
Recent(es) == \A i, j \in 1..Len(es) : es[j].at - es[i].at <= Window
Bounded(es) ==
  /\ Ordered(es) /\ Recent(es)
  /\ Len(Filtered(es, Kind("frame"))) <= MaxFrames
  /\ Len(Filtered(es, Kind("text"))) <= MaxTextSnippets
  /\ totalBytes(es) <= MaxBufferBytes
  /\ Differ(Filtered(es, Kind("text")))

LEMMA EndsDiffer ==
  ASSUME NEW s \in Seq(EntryType), NEW t, Ends(s, t), Differ(t)
  PROVE  Differ(s)
  <1>1. PICK u \in Seq(EntryType) : t = u \o s
    BY DEF Ends
  <1>2. /\ Len(u) \in Nat /\ Len(s) \in Nat /\ Len(t) = Len(u) + Len(s)
        /\ \A i \in 1..Len(u) + Len(s) : t[i] = IF i <= Len(u) THEN u[i] ELSE s[i - Len(u)]
    BY <1>1, LenProperties, ConcatProperties
  <1> SUFFICES ASSUME NEW i \in 2..Len(s) PROVE s[i - 1].what # s[i].what
    BY DEF Differ
  <1>3. /\ Len(u) + i \in 2..Len(t)
        /\ Len(u) + i \in 1..Len(u) + Len(s) /\ (Len(u) + i) - 1 \in 1..Len(u) + Len(s)
        /\ ~ (Len(u) + i <= Len(u)) /\ ~ ((Len(u) + i) - 1 <= Len(u))
        /\ (Len(u) + i) - Len(u) = i /\ ((Len(u) + i) - 1) - Len(u) = i - 1
    BY <1>2
  <1>4. t[Len(u) + i] = s[i] /\ t[(Len(u) + i) - 1] = s[i - 1]
    BY <1>2, <1>3
  <1> QED
    BY <1>3, <1>4 DEF Differ

LEMMA EmptyBounded == Bounded(<<>>)
  <1>1. <<>> \in Seq(EntryType) /\ Len(<<>>) = 0
    BY EmptySeq
  <1>2. totalBytes(<<>>) = 0
    BY <1>1, TotalOfFew
  <1>3. MaxFrames \in Nat /\ MaxTextSnippets \in Nat /\ MaxBufferBytes \in Nat
    BY LimitsOK
  <1> QED
    BY <1>1, <1>2, <1>3, FilteredEmpty DEF Bounded, Ordered, Recent, Differ

\* A new entry of the present: the list before evict.
LEMMA AppendOrdered ==
  ASSUME NEW es, Ordered(es), NEW e \in EntryType, e.at = age[Kept], age[Kept] \in Nat
  PROVE  Ordered(Append(es, e))
  <1>1. es \in Seq(EntryType) /\ Len(es) \in Nat
    BY LenProperties DEF Ordered
  <1> DEFINE fs == Append(es, e)
  <1>2. /\ fs \in Seq(EntryType) /\ Len(fs) = Len(es) + 1 /\ fs[Len(es) + 1] = e
        /\ \A i \in 1..Len(es) : fs[i] = es[i]
    BY <1>1, AppendProperties
  <1> HIDE DEF fs
  <1>3. \A i \in 1..Len(fs) : i \in 1..Len(es) \/ i = Len(es) + 1
    BY <1>1, <1>2
  <1>4. \A i \in 1..Len(es) : es[i].at <= age[Kept]
    BY DEF Ordered
  <1>5. \A i \in 1..Len(fs) : fs[i].at <= age[Kept]
    BY <1>2, <1>3, <1>4
  <1>6. ASSUME NEW i \in 1..Len(fs), NEW j \in 1..Len(fs), i <= j
        PROVE  fs[i].at <= fs[j].at
    <2>1. CASE j = Len(es) + 1
      BY <1>2, <1>5, <2>1
    <2>2. CASE j \in 1..Len(es)
      <3>1. i \in 1..Len(es)
        BY <1>1, <1>6, <2>2
      <3> QED
        BY <1>2, <1>6, <2>2, <3>1 DEF Ordered
    <2> QED
      BY <1>3, <2>1, <2>2
  <1>7. Ordered(fs)
    BY <1>2, <1>5, <1>6 DEF Ordered
  <1> QED
    BY <1>7 DEF fs

LEMMA AddKeeps ==
  ASSUME NEW es, Bounded(es), NEW e \in EntryType, e.at = age[Kept], age[Kept] \in Nat,
         Differ(Filtered(Append(es, e), Kind("text")))
  PROVE  /\ Bounded(evict(Append(es, e)))
         /\ e.bytes <= MaxBufferBytes =>
              /\ evict(Append(es, e)) # <<>>
              /\ evict(Append(es, e))[Len(evict(Append(es, e)))] = e
         /\ \A i \in 1..Len(evict(Append(es, e))) :
              evict(Append(es, e))[i].at >= age[Kept] - Window
  <1> DEFINE fs == Append(es, e)
             r == evict(fs)
  <1>1. /\ es \in Seq(EntryType) /\ Len(es) \in Nat /\ Ordered(es)
        /\ "frame" \in Kinds /\ "text" \in Kinds
    BY LenProperties DEF Bounded, Ordered, Kinds
  <1>2. Ordered(fs)
    BY <1>1, AppendOrdered
  <1>3. /\ fs \in Seq(EntryType) /\ fs # <<>> /\ Len(fs) = Len(es) + 1 /\ fs[Len(fs)] = e
    BY <1>1, AppendProperties
  <1>4. ASSUME NEW k \in Kinds
        PROVE  Len(Filtered(fs, Kind(k))) <= Len(Filtered(es, Kind(k))) + 1
    <2> DEFINE x == Filtered(es, Kind(k))
    <2>1. x \in Seq(EntryType) /\ Len(x) \in Nat
      BY <1>1, FilteredType, LenProperties
    <2>2. Filtered(fs, Kind(k)) = IF e \in Kind(k) THEN Append(x, e) ELSE x
      BY <1>1, FilteredAppend
    <2> HIDE DEF x
    <2>3. Len(Append(x, e)) = Len(x) + 1
      BY <2>1, AppendProperties
    <2>4. Len(Filtered(fs, Kind(k))) <= Len(x) + 1
      BY <2>1, <2>2, <2>3
    <2> QED
      BY <2>4 DEF x
  <1>5. MaxFrames \in Nat /\ MaxTextSnippets \in Nat /\ Window \in Nat
    BY LimitsOK
  <1>6. ASSUME NEW k \in Kinds
        PROVE  Len(Filtered(fs, Kind(k))) \in Nat /\ Len(Filtered(es, Kind(k))) \in Nat
    BY <1>1, <1>3, FilteredType, LenProperties
  <1>7. /\ Len(Filtered(fs, Kind("frame"))) <= MaxFrames + 1
        /\ Len(Filtered(fs, Kind("text"))) <= MaxTextSnippets + 1
    <2>1. /\ Len(Filtered(es, Kind("frame"))) <= MaxFrames
          /\ Len(Filtered(es, Kind("text"))) <= MaxTextSnippets
      BY DEF Bounded
    <2>2. Len(Filtered(fs, Kind("frame"))) <= Len(Filtered(es, Kind("frame"))) + 1
      BY <1>1, <1>4
    <2>3. Len(Filtered(fs, Kind("text"))) <= Len(Filtered(es, Kind("text"))) + 1
      BY <1>1, <1>4
    <2>4. /\ Len(Filtered(fs, Kind("frame"))) \in Nat /\ Len(Filtered(es, Kind("frame"))) \in Nat
          /\ Len(Filtered(fs, Kind("text"))) \in Nat /\ Len(Filtered(es, Kind("text"))) \in Nat
      BY <1>1, <1>6
    <2> QED
      BY <1>5, <2>1, <2>2, <2>3, <2>4
  <1> HIDE DEF fs
  <1>8. /\ Left(r, fs)
        /\ Len(Filtered(r, Kind("frame"))) <= MaxFrames
        /\ Len(Filtered(r, Kind("text"))) <= MaxTextSnippets
        /\ \A i \in 1..Len(r) : r[i].at >= age[Kept] - Window
        /\ totalBytes(r) <= MaxBufferBytes
        /\ fs # <<>> /\ fs[Len(fs)].at = age[Kept] /\ fs[Len(fs)].bytes <= MaxBufferBytes
             => SameLast(r, fs)
    BY <1>2, <1>7, EvictKeeps
  <1> HIDE DEF r
  <1>9. Ordered(r) /\ Ends(Filtered(r, Kind("text")), Filtered(fs, Kind("text")))
    BY <1>1, <1>8 DEF Left
  <1>10. r \in Seq(EntryType) /\ \A i \in 1..Len(r) : r[i].at \in Nat /\ r[i].at <= age[Kept]
    <2>1. r \in Seq(EntryType) /\ \A i \in 1..Len(r) : r[i] \in EntryType
      BY <1>9, ElementOfSeq DEF Ordered
    <2>2. \A x \in EntryType : x.at \in Nat
      BY DEF EntryType
    <2> QED
      BY <1>9, <2>1, <2>2 DEF Ordered
  <1>11. Recent(r)
    <2> SUFFICES ASSUME NEW i \in 1..Len(r), NEW j \in 1..Len(r)
                 PROVE  r[j].at - r[i].at <= Window
      BY DEF Recent
    <2>1. /\ r[i].at \in Nat /\ r[j].at \in Nat /\ r[j].at <= age[Kept]
          /\ r[i].at >= age[Kept] - Window
      BY <1>8, <1>10
    <2> QED
      BY <1>5, <2>1
  <1>12. Differ(Filtered(r, Kind("text")))
    <2> DEFINE x == Filtered(r, Kind("text"))
    <2>1. x \in Seq(EntryType)
      BY <1>10, FilteredType
    <2>2. Ends(x, Filtered(fs, Kind("text"))) /\ Differ(Filtered(fs, Kind("text")))
      BY <1>9 DEF fs
    <2> HIDE DEF x
    <2>3. Differ(x)
      BY <2>1, <2>2, EndsDiffer
    <2> QED
      BY <2>3 DEF x
  <1>13. Bounded(r)
    BY <1>8, <1>9, <1>11, <1>12 DEF Bounded
  <1>14. e.bytes <= MaxBufferBytes => r # <<>> /\ r[Len(r)] = e
    BY <1>3, <1>8 DEF SameLast
  <1> QED
    BY <1>8, <1>13, <1>14 DEF r, fs

\* A frame leaves the texts as they are.
LEMMA FrameKeeps ==
  ASSUME NEW es, Bounded(es), NEW b \in FrameBytes, NEW what \in {"tick", "shot"},
         age[Kept] \in Nat, b <= MaxFrameBytes
  PROVE  LET e == Entry("frame", what, b)
             r == evict(Append(es, e))
         IN  /\ addFrame(es, b, what) = r /\ Bounded(r) /\ e \in EntryType
             /\ r # <<>> /\ r[Len(r)] = e
             /\ \A i \in 1..Len(r) : r[i].at >= age[Kept] - Window
  <1> DEFINE e == Entry("frame", what, b)
  <1>1. b \in Nat /\ MaxFrameBytes \in Nat /\ MaxBufferBytes \in Nat /\ MaxFrameBytes <= MaxBufferBytes
    BY LimitsOK
  <1>2. /\ e \in EntryType /\ e.at = age[Kept] /\ e.bytes = b
        /\ e \notin Kind("text")
    BY <1>1 DEF Entry, EntryType, Kinds, Whats, Kind
  <1>3. addFrame(es, b, what) = evict(Append(es, e))
    BY <1>1 DEF addFrame
  <1> HIDE DEF e
  <1>4. es \in Seq(EntryType)
    BY DEF Bounded, Ordered
  <1>5. Filtered(Append(es, e), Kind("text")) = Filtered(es, Kind("text"))
    BY <1>2, <1>4, FilteredAppend
  <1>6. Differ(Filtered(Append(es, e), Kind("text")))
    BY <1>5 DEF Bounded
  <1>7. e.bytes <= MaxBufferBytes
    BY <1>1, <1>2
  <1> DEFINE r == evict(Append(es, e))
  <1>8. /\ Bounded(r) /\ r # <<>> /\ r[Len(r)] = e
        /\ \A i \in 1..Len(r) : r[i].at >= age[Kept] - Window
    BY <1>2, <1>6, <1>7, AddKeeps
  <1> QED
    BY <1>2, <1>3, <1>8 DEF e

LEMMA addFrameKeeps ==
  ASSUME NEW es, Bounded(es), NEW b \in FrameBytes, NEW what \in {"tick", "shot"},
         age[Kept] \in Nat
  PROVE  Bounded(addFrame(es, b, what))
  <1>1. b \in Nat /\ MaxFrameBytes \in Nat
    BY LimitsOK
  <1>2. CASE b > MaxFrameBytes
    BY <1>2 DEF addFrame
  <1>3. CASE b <= MaxFrameBytes
    BY <1>3, FrameKeeps
  <1> QED
    BY <1>1, <1>2, <1>3

\* A text is added only when it differs from the latest one.
LEMMA addTextKeeps ==
  ASSUME NEW es, Bounded(es), NEW x \in Texts, age[Kept] \in Nat
  PROVE  Bounded(addText(es, x))
  <1> DEFINE e == Entry("text", x.what, x.bytes)
             ts == Filtered(es, Kind("text"))
  <1>1. x.bytes \in Nat
    BY LimitsOK
  <1>2. e \in EntryType /\ e.at = age[Kept] /\ e \in Kind("text") /\ e.what = x.what
    BY <1>1 DEF Entry, EntryType, Kinds, Whats, Kind
  <1>3. es \in Seq(EntryType) /\ OfKind(es, "text") = ts
    BY OfKindFilters DEF Bounded, Ordered
  <1>4. ts \in Seq(EntryType) /\ Len(ts) \in Nat /\ Differ(ts)
    BY <1>3, FilteredType, LenProperties DEF Bounded
  <1> HIDE DEF e, ts
  <1>5. CASE ts # <<>> /\ Last(ts).what = x.what
    BY <1>3, <1>5 DEF addText
  <1>6. CASE ~ (ts # <<>> /\ Last(ts).what = x.what)
    <2>1. addText(es, x) = evict(Append(es, e))
      BY <1>3, <1>6 DEF addText, e
    <2>2. Filtered(Append(es, e), Kind("text")) = Append(ts, e)
      BY <1>2, <1>3, FilteredAppend DEF ts
    <2>3. Differ(Append(ts, e))
      <3> DEFINE us == Append(ts, e)
      <3>1. /\ Len(us) = Len(ts) + 1 /\ us[Len(ts) + 1] = e
            /\ \A i \in 1..Len(ts) : us[i] = ts[i]
        BY <1>2, <1>4, AppendProperties
      <3> HIDE DEF us
      <3> SUFFICES ASSUME NEW i \in 2..Len(us) PROVE us[i - 1].what # us[i].what
        BY DEF Differ, us
      <3>2. CASE i = Len(ts) + 1
        <4>1. ts # <<>> /\ Len(ts) \in 1..Len(ts) /\ i - 1 = Len(ts)
          BY <1>4, <3>1, <3>2, EmptySeq
        <4> QED
          BY <1>2, <1>6, <3>1, <3>2, <4>1 DEF Last
      <3>3. CASE i \in 2..Len(ts)
        <4>1. i - 1 \in 1..Len(ts) /\ i \in 1..Len(ts)
          BY <1>4, <3>3
        <4> QED
          BY <1>4, <3>1, <3>3, <4>1 DEF Differ
      <3> QED
        BY <1>4, <3>1, <3>2, <3>3
    <2> QED
      BY <1>2, <2>1, <2>2, <2>3, AddKeeps
  <1> QED
    BY <1>5, <1>6

\* Time may pass over a buffer.
LEMMA AgeKeeps ==
  ASSUME NEW es, Bounded(es), age[Kept] \in Nat, age'[Kept] \in Nat, age[Kept] <= age'[Kept]
  PROVE  Bounded(es)'
  <1>1. es \in Seq(EntryType) /\ \A i \in 1..Len(es) : es[i] \in EntryType
    BY ElementOfSeq DEF Bounded, Ordered
  <1>2. \A x \in EntryType : x.at \in Nat
    BY DEF EntryType
  <1>3. \A i \in 1..Len(es) : es[i].at \in Nat /\ es[i].at <= age[Kept]
    BY <1>1, <1>2 DEF Bounded, Ordered
  <1>4. \A i \in 1..Len(es) : es[i].at <= age'[Kept]
    BY <1>3
  <1> QED
    BY <1>4 DEF Bounded, Ordered, Recent, Differ

-----------------------------------------------------------------------------
(* What a question carries *)

LEMMA LastOfKind ==
  ASSUME NEW r \in Seq(EntryType), r # <<>>, NEW k, r[Len(r)] \in Kind(k)
  PROVE  /\ Filtered(r, Kind(k)) # <<>>
         /\ Filtered(r, Kind(k))[Len(Filtered(r, Kind(k)))] = r[Len(r)]
  <1>1. PICK s \in Seq(EntryType), e \in EntryType : r = Append(s, e)
    BY SequenceEmptyOrAppend
  <1>2. Len(s) \in Nat /\ Len(r) = Len(s) + 1 /\ r[Len(r)] = e
    BY <1>1, LenProperties, AppendProperties
  <1> DEFINE x == Filtered(s, Kind(k))
  <1>3. Filtered(r, Kind(k)) = Append(x, e)
    BY <1>1, <1>2, FilteredAppend
  <1>4. x \in Seq(EntryType)
    BY FilteredType
  <1> HIDE DEF x
  <1>5. Append(x, e) # <<>> /\ Append(x, e)[Len(Append(x, e))] = e
    BY <1>4, AppendProperties
  <1> QED
    BY <1>2, <1>3, <1>5

\* The newest of a kind: entries of the list, the last one the last.
LEMMA NewestOfKind ==
  ASSUME NEW r \in Seq(EntryType), NEW k, NEW n \in Nat \ {0}
  PROVE  /\ Newest(OfKind(r, k), n) \in Seq(EntryType)
         /\ Range(Newest(OfKind(r, k), n)) \subseteq Range(r)
         /\ r # <<>> /\ r[Len(r)] \in Kind(k) =>
              /\ Newest(OfKind(r, k), n) # <<>>
              /\ Last(Newest(OfKind(r, k), n)) = r[Len(r)]
  <1> DEFINE x == Filtered(r, Kind(k))
             y == Newest(x, n)
  <1>1. OfKind(r, k) = x
    BY OfKindFilters
  <1>2. r \in Seq(Range(r)) /\ x \in Seq(EntryType)
    BY SeqOfRange, FilteredType
  <1>3. x \in Seq(Range(r))
    BY <1>2, FilteredType
  <1>4. Len(x) \in Nat
    BY <1>2, LenProperties
  <1>5. r # <<>> /\ r[Len(r)] \in Kind(k) => x # <<>> /\ x[Len(x)] = r[Len(r)]
    BY LastOfKind
  <1> HIDE DEF x
  <1>6. PICK m \in 1..Len(x) + 1 : /\ y = SubSeq(x, m, Len(x))
                                   /\ Len(x) > n => m = Len(x) - n + 1
                                   /\ Len(x) <= n => m = 1
    BY <1>2, NewestCuts
  <1>7. /\ y \in Seq(EntryType) /\ Len(y) = Len(x) - m + 1
        /\ \A i \in 1..Len(x) - m + 1 : y[i] = x[m + i - 1]
    BY <1>2, <1>6, SplitAt
  <1>8. y \in Seq(Range(r))
    BY <1>3, <1>6, SplitAt
  <1>9. Range(y) \subseteq Range(r)
    BY <1>8, RangeOfSeq
  <1> HIDE DEF y
  <1>10. ASSUME x # <<>> PROVE y # <<>> /\ y[Len(y)] = x[Len(x)]
    <2>1. m <= Len(x)
      BY <1>2, <1>4, <1>6, <1>10, EmptySeq
    <2>2. Len(y) \in 1..Len(x) - m + 1 /\ m + Len(y) - 1 = Len(x) /\ Len(y) # 0
      BY <1>4, <1>7, <2>1
    <2>3. y # <<>>
      BY <2>2, EmptySeq
    <2> QED
      BY <1>7, <2>2, <2>3
  <1> QED
    BY <1>1, <1>5, <1>7, <1>9, <1>10 DEF y, Last

\* A frame that was taken for the question is the newest of its frames.
Grounded(p) ==
  p.shot =>
    /\ p.frames # <<>> /\ Last(p.frames).what = "shot"
    /\ \A e \in Range(p.frames) \cup Range(p.texts) : Last(p.frames).at - e.at <= Window

LEMMA ShotIsGrounded ==
  ASSUME Bounded(entries), age[Kept] \in Nat, NEW b \in FrameBytes, NEW r,
         r = addFrame(entries, b, "shot"), r # entries
  PROVE  /\ recentFrames(r) # <<>> /\ Last(recentFrames(r)).what = "shot"
         /\ \A e \in Range(recentFrames(r)) \cup Range(recentTextSnippets(r)) :
              Last(recentFrames(r)).at - e.at <= Window
  <1>1. b \in Nat /\ MaxFrameBytes \in Nat /\ QaFrames \in Nat \ {0}
          /\ MaxTextSnippets \in Nat \ {0} /\ Window \in Nat
    BY LimitsOK
  <1>2. b <= MaxFrameBytes
    BY <1>1 DEF addFrame
  <1> DEFINE e == Entry("frame", "shot", b)
  <1>3. /\ Bounded(r) /\ e \in EntryType /\ r # <<>> /\ r[Len(r)] = e
        /\ \A i \in 1..Len(r) : r[i].at >= age[Kept] - Window
    BY <1>2, FrameKeeps
  <1>4. e \in Kind("frame") /\ e.what = "shot" /\ e.at = age[Kept]
    BY <1>3 DEF Entry, Kind
  <1> HIDE DEF e
  <1>5. r \in Seq(EntryType)
    BY <1>3 DEF Bounded, Ordered
  <1>6. /\ recentFrames(r) # <<>> /\ Last(recentFrames(r)) = e
        /\ Range(recentFrames(r)) \subseteq Range(r)
    BY <1>1, <1>3, <1>4, <1>5, NewestOfKind DEF recentFrames
  <1>7. Range(recentTextSnippets(r)) \subseteq Range(r)
    BY <1>1, <1>5, NewestOfKind DEF recentTextSnippets
  <1>8. \A f \in Range(r) : f.at \in Nat /\ f.at >= age[Kept] - Window
    <2>1. \A i \in 1..Len(r) : r[i] \in EntryType
      BY <1>5, ElementOfSeq
    <2>2. \A f \in EntryType : f.at \in Nat
      BY DEF EntryType
    <2> QED
      BY <1>3, <1>5, <2>1, <2>2, RangeEquality
  <1>9. \A f \in Range(r) : e.at - f.at <= Window
    BY <1>1, <1>4, <1>8
  <1> QED
    BY <1>4, <1>6, <1>7, <1>9

-----------------------------------------------------------------------------
(* The invariant of the buffer *)

\* The exchanges kept so far: the last of those numbered 1 to n.
Exchanges(q, n) ==
  /\ q \in Seq(Nat)
  /\ Len(q) = IF n > MaxQaExchanges THEN MaxQaExchanges ELSE n
  /\ \A i \in 1..Len(q) : q[i] = n - Len(q) + i

PostType == [taking : BOOLEAN, shot : BOOLEAN, frames : Seq(EntryType),
             texts : Seq(EntryType), qa : Seq(Nat)]

\* Nothing was asked, and nothing kept, before there is a buffer.
QuestionsOK ==
  /\ answered \in Nat /\ post \in PostType
  /\ start[Kept] \in {"new", "query"} => ~ live[Kept] /\ answered = 0 /\ qa = <<>>
  /\ live[Kept] => Exchanges(qa, answered)
  /\ ask[Kept] = "post" => Exchanges(post.qa, answered) /\ Grounded(post)

BufferInv == TypeOK /\ Bounded(entries) /\ QuestionsOK

LEMMA BufferStep == [BufferNext]_bufferVars => [Next]_vars
  <1> SUFFICES ASSUME [BufferNext]_bufferVars PROVE [Next]_vars
    OBVIOUS
  <1> Kept \in Sessions
    BY LimitsOK
  <1>1. ASSUME NEW s \in Sessions, Mount(s) \/ BufferStart(s) \/ BufferExpire(s)
        PROVE  [Next]_vars
    BY <1>1 DEF BufferStart, BufferExpire, Next, Starting
  <1>2. ASSUME BufferEnd \/ BufferTick PROVE [Next]_vars
    BY <1>2 DEF BufferEnd, BufferTick, Next
  <1>3. ASSUME BufferAsk \/ BufferSend \/ BufferAnswer PROVE [Next]_vars
    BY <1>3 DEF BufferAsk, BufferSend, BufferAnswer, Next
  <1>4. ASSUME FrameDue \/ FrameTaken \/ TextRead PROVE [Next]_vars
    BY <1>4 DEF FrameDue, FrameTaken, TextRead
  <1>5. ASSUME UNCHANGED bufferVars PROVE [Next]_vars
    BY <1>5 DEF bufferVars
  <1> QED
    BY <1>1, <1>2, <1>3, <1>4, <1>5 DEF BufferNext

\* A step keeps the buffer, wipes it, or lands a sample in it.
Sampled ==
  \/ \E x \in Texts : entries' = addText(entries, x)
  \/ \E b \in FrameBytes, what \in {"tick", "shot"} : entries' = addFrame(entries, b, what)
EntriesMove == entries' = entries \/ entries' = <<>> \/ (age' = age /\ Sampled)

LEMMA SamplesLand ==
  /\ \A s : Lands(s, TextSamples) => entries' = entries \/ Sampled
  /\ \A s : \A what \in {"tick", "shot"} :
       Lands(s, FrameSamples(what)) => entries' = entries \/ Sampled
  BY DEF Lands, TextSamples, FrameSamples, Sampled

LEMMA StepEntries == [BufferNext]_bufferVars => EntriesMove
  <1> SUFFICES ASSUME [BufferNext]_bufferVars PROVE EntriesMove
    OBVIOUS
  <1> USE DEF EntriesMove
  <1>1. ASSUME NEW s \in Sessions, Mount(s), UNCHANGED kept PROVE EntriesMove
    BY <1>1 DEF kept
  <1>2. ASSUME NEW s \in Sessions, BufferStart(s) PROVE EntriesMove
    <2>1. CASE MakeBuffer(s) /\ UNCHANGED kept
      BY <2>1 DEF kept
    <2>2. CASE NoTab(s) /\ Wiped
      BY <2>2 DEF Wiped
    <2>3. CASE FirstText(s) /\ Lands(s, TextSamples)
      BY <2>3, SamplesLand DEF FirstText
    <2>4. CASE FirstFrame(s) /\ Lands(s, FrameSamples("tick"))
      BY <2>4, SamplesLand DEF FirstFrame
    <2> QED
      BY <1>2, <2>1, <2>2, <2>3, <2>4 DEF BufferStart
  <1>3. ASSUME NEW s \in Sessions, BufferExpire(s) PROVE EntriesMove
    BY <1>3 DEF BufferExpire, Wiped
  <1>4. ASSUME BufferEnd \/ BufferTick PROVE EntriesMove
    BY <1>4 DEF BufferEnd, BufferTick, Wiped, kept
  <1>5. ASSUME BufferAsk \/ BufferAnswer \/ FrameDue PROVE EntriesMove
    BY <1>5 DEF BufferAsk, BufferAnswer, FrameDue
  <1>6. ASSUME BufferSend PROVE EntriesMove
    <2>1. age' = age
      BY <1>6 DEF BufferSend, Send
    <2>2. Lands(Kept, FrameSamples("shot")) \/ Lands(Kept, {entries})
      BY <1>6 DEF BufferSend
    <2>3. CASE Lands(Kept, FrameSamples("shot"))
      BY <2>1, <2>3, SamplesLand
    <2>4. CASE Lands(Kept, {entries})
      BY <2>4 DEF Lands
    <2> QED
      BY <2>2, <2>3, <2>4
  <1>7. ASSUME FrameTaken \/ TextRead PROVE EntriesMove
    <2>1. age' = age
      BY <1>7 DEF FrameTaken, TextRead, vars
    <2> QED
      BY <1>7, <2>1, SamplesLand DEF FrameTaken, TextRead
  <1>8. ASSUME UNCHANGED bufferVars PROVE EntriesMove
    BY <1>8 DEF bufferVars, kept
  <1> QED
    BY <1>1, <1>2, <1>3, <1>4, <1>5, <1>6, <1>7, <1>8 DEF BufferNext

LEMMA StepAge ==
  TypeOK /\ [Next]_vars => age[Kept] \in Nat /\ age'[Kept] \in Nat /\ age[Kept] <= age'[Kept]
  <1> SUFFICES ASSUME TypeOK, [Next]_vars
               PROVE  age[Kept] \in Nat /\ age'[Kept] \in Nat /\ age[Kept] <= age'[Kept]
    OBVIOUS
  <1>1. Kept \in Sessions /\ Limit \in Nat
    BY LimitsOK, ConstantsOK
  <1>2. age[Kept] \in 0..Limit + 1 /\ age'[Kept] \in 0..Limit + 1
    BY <1>1, StepTypeOK DEF TypeOK
  <1>3. age' = age \/ Tick
    BY DEF Next, Starting, Mount, MakeBuffer, NoTab, FirstText, FirstFrame, End, Expire, Ask,
      Send, Answer, Close, vars
  <1>4. Tick => age'[Kept] \in {age[Kept], age[Kept] + 1}
    BY <1>1 DEF Tick
  <1> QED
    BY <1>1, <1>2, <1>3, <1>4

LEMMA StepBounded ==
  ASSUME TypeOK, Bounded(entries), [BufferNext]_bufferVars
  PROVE  Bounded(entries)'
  <1>1. age[Kept] \in Nat /\ age'[Kept] \in Nat /\ age[Kept] <= age'[Kept]
    BY BufferStep, StepAge
  <1>2. Bounded(entries')
    <2>1. CASE entries' = entries
      BY <2>1
    <2>2. CASE entries' = <<>>
      BY <2>2, EmptyBounded
    <2>3. CASE Sampled
      BY <1>1, <2>3, addTextKeeps, addFrameKeeps DEF Sampled
    <2> QED
      BY <2>1, <2>2, <2>3, StepEntries DEF EntriesMove
  <1>3. PICK q : q = entries'
    OBVIOUS
  <1>4. Bounded(q)'
    BY <1>1, <1>2, <1>3, AgeKeeps
  <1> QED
    BY <1>3, <1>4 DEF Bounded, Ordered, Recent

LEMMA NoPostType ==
  /\ NoPost \in PostType
  /\ \A b \in BOOLEAN : [NoPost EXCEPT !.taking = b] \in PostType
  BY EmptySeq DEF NoPost, PostType

\* One exchange more: at the limit the oldest goes.
LEMMA ExchangesGrow ==
  ASSUME NEW q, NEW n \in Nat, Exchanges(q, n)
  PROVE  Exchanges(Newest(Append(q, n + 1), MaxQaExchanges), n + 1)
  <1>1. MaxQaExchanges \in Nat \ {0}
    BY LimitsOK
  <1> DEFINE a == Append(q, n + 1)
  <1>2. q \in Seq(Nat) /\ Len(q) \in Nat
    BY LenProperties DEF Exchanges
  <1>3. /\ a \in Seq(Nat) /\ Len(a) = Len(q) + 1 /\ a[Len(q) + 1] = n + 1
        /\ \A i \in 1..Len(q) : a[i] = q[i]
    BY <1>2, AppendProperties
  <1> HIDE DEF a
  <1>4. \A i \in 1..Len(a) : a[i] = (n + 1) - Len(a) + i
    <2> SUFFICES ASSUME NEW i \in 1..Len(a) PROVE a[i] = (n + 1) - Len(a) + i
      OBVIOUS
    <2>1. CASE i = Len(q) + 1
      BY <1>2, <1>3, <2>1
    <2>2. CASE i \in 1..Len(q)
      <3>1. q[i] = n - Len(q) + i
        BY <2>2 DEF Exchanges
      <3> QED
        BY <1>2, <1>3, <2>2, <3>1
    <2> QED
      BY <1>2, <1>3, <2>1, <2>2
  <1> DEFINE r == Newest(a, MaxQaExchanges)
  <1>5. PICK m \in 1..Len(a) + 1 :
          /\ r = SubSeq(a, m, Len(a))
          /\ Len(a) > MaxQaExchanges => m = Len(a) - MaxQaExchanges + 1
          /\ Len(a) <= MaxQaExchanges => m = 1
    BY <1>1, <1>3, NewestCuts
  <1>6. /\ r \in Seq(Nat) /\ Len(r) = Len(a) - m + 1
        /\ \A i \in 1..Len(a) - m + 1 : r[i] = a[m + i - 1]
    BY <1>3, <1>5, SplitAt
  <1> HIDE DEF r
  <1>7. Len(q) = IF n > MaxQaExchanges THEN MaxQaExchanges ELSE n
    BY DEF Exchanges
  <1>8. Len(a) \in Nat /\ m \in Nat
    BY <1>2, <1>3
  <1>9. Len(r) = IF n + 1 > MaxQaExchanges THEN MaxQaExchanges ELSE n + 1
    <2>1. CASE Len(a) > MaxQaExchanges
      BY <1>1, <1>2, <1>3, <1>5, <1>6, <1>7, <1>8, <2>1
    <2>2. CASE Len(a) <= MaxQaExchanges
      BY <1>1, <1>2, <1>3, <1>5, <1>6, <1>7, <1>8, <2>2
    <2> QED
      BY <1>1, <1>8, <2>1, <2>2
  <1>10. \A i \in 1..Len(r) : r[i] = (n + 1) - Len(r) + i
    <2> SUFFICES ASSUME NEW i \in 1..Len(r) PROVE r[i] = (n + 1) - Len(r) + i
      OBVIOUS
    <2>1. m + i - 1 \in 1..Len(a) /\ r[i] = a[m + i - 1]
      BY <1>6, <1>8
    <2>2. a[m + i - 1] = (n + 1) - Len(a) + (m + i - 1)
      BY <1>4, <2>1
    <2> QED
      BY <1>6, <1>8, <2>1, <2>2
  <1>11. Exchanges(r, n + 1)
    BY <1>6, <1>9, <1>10 DEF Exchanges
  <1> QED
    BY <1>11 DEF r, a

LEMMA NoExchanges == Exchanges(<<>>, 0)
  <1>1. MaxQaExchanges \in Nat
    BY LimitsOK
  <1> QED
    BY <1>1, EmptySeq DEF Exchanges

\* stop() was called for some sessions, or none.
LEMMA WipedQuestions ==
  ASSUME QuestionsOK, Wiped, UNCHANGED <<post, answered, ask>>,
         live'[Kept] => live[Kept],
         start'[Kept] \in {"new", "query"} => start[Kept] \in {"new", "query"}
  PROVE  QuestionsOK'
  BY DEF QuestionsOK, Wiped, Exchanges, Grounded

LEMMA SameQuestions ==
  ASSUME QuestionsOK, UNCHANGED <<qa, post, answered, ask, live>>,
         start'[Kept] \in {"new", "query"} => start[Kept] \in {"new", "query"}
  PROVE  QuestionsOK'
  BY DEF QuestionsOK, Exchanges, Grounded

LEMMA SendQuestions ==
  ASSUME TypeOK, Bounded(entries), QuestionsOK, BufferSend
  PROVE  QuestionsOK'
  <1>1. Kept \in Sessions /\ QaFrames \in Nat \ {0} /\ MaxTextSnippets \in Nat \ {0}
    BY LimitsOK
  <1>2. age[Kept] \in Nat
    <2>1. age[Kept] \in 0..Limit + 1 /\ Limit \in Nat
      BY <1>1, ConstantsOK DEF TypeOK
    <2> QED
      BY <2>1
  <1>3. /\ ask[Kept] = "frame" /\ ask'[Kept] = IF live[Kept] THEN "post" ELSE "none"
        /\ UNCHANGED <<start, live, qa, answered>>
    BY <1>1 DEF BufferSend, Send, HasContext, TypeOK
  <1>4. CASE ~ live[Kept]
    <2>1. post' = NoPost /\ ask'[Kept] = "none"
      BY <1>3, <1>4 DEF BufferSend
    <2> QED
      BY <1>3, <1>4, <2>1, NoPostType DEF QuestionsOK
  <1>5. CASE live[Kept]
    <2>1. /\ ask'[Kept] = "post" /\ post \in PostType
          /\ post' = [post EXCEPT !.shot = entries' # entries,
                                  !.frames = recentFrames(entries'),
                                  !.texts = recentTextSnippets(entries'), !.qa = qa]
      BY <1>3, <1>5 DEF BufferSend, QuestionsOK
    <2>2. entries' = entries \/ \E b \in FrameBytes : entries' = addFrame(entries, b, "shot")
      BY DEF BufferSend, Lands, FrameSamples
    <2>3. Bounded(entries')
      BY <1>2, <2>2, addFrameKeeps
    <2>4. PICK r \in Seq(EntryType) : r = entries'
      BY <2>3 DEF Bounded, Ordered
    <2>5. /\ recentFrames(r) \in Seq(EntryType)
          /\ recentTextSnippets(r) \in Seq(EntryType)
      BY <1>1, NewestOfKind DEF recentFrames, recentTextSnippets
    <2>6. Exchanges(qa, answered) /\ qa \in Seq(Nat)
      BY <1>5 DEF QuestionsOK, Exchanges
    <2>7. /\ post' \in PostType /\ post'.shot = (r # entries)
          /\ post'.frames = recentFrames(r) /\ post'.texts = recentTextSnippets(r)
          /\ post'.qa = qa
      BY <2>1, <2>4, <2>5, <2>6 DEF PostType
    <2>8. Grounded(post')
      <3> SUFFICES ASSUME r # entries
                   PROVE  /\ recentFrames(r) # <<>> /\ Last(recentFrames(r)).what = "shot"
                          /\ \A e \in Range(recentFrames(r)) \cup Range(recentTextSnippets(r)) :
                               Last(recentFrames(r)).at - e.at <= Window
        BY <2>7 DEF Grounded
      <3> QED
        BY <1>2, <2>2, <2>4, ShotIsGrounded
    <2> QED
      BY <1>3, <2>6, <2>7, <2>8 DEF QuestionsOK
  <1> QED
    BY <1>4, <1>5

LEMMA StepQuestions ==
  ASSUME TypeOK, Bounded(entries), QuestionsOK, [BufferNext]_bufferVars
  PROVE  QuestionsOK'
  <1>1. Kept \in Sessions
    BY LimitsOK
  <1>2. ASSUME NEW s \in Sessions, Mount(s), UNCHANGED kept PROVE QuestionsOK'
    <2>1. start'[Kept] \in {"new", "query"} => start[Kept] \in {"new", "query"}
      BY <1>1, <1>2 DEF Mount, StartTo, TypeOK
    <2> QED
      BY <1>2, <2>1, SameQuestions DEF Mount, kept
  <1>3. ASSUME NEW s \in Sessions, MakeBuffer(s), UNCHANGED kept PROVE QuestionsOK'
    <2>1. UNCHANGED <<qa, post, answered, ask>>
      BY <1>3 DEF MakeBuffer, kept
    <2>2. CASE s # Kept
      BY <1>1, <1>3, <2>1, <2>2, SameQuestions
      DEF MakeBuffer, StartTo, TypeOK, QuestionsOK
    <2>3. CASE s = Kept
      <3>1. start'[Kept] = "text" /\ start[Kept] = "query"
        BY <1>1, <1>3, <2>3 DEF MakeBuffer, StartTo, TypeOK
      <3> QED
        BY <2>1, <3>1, NoExchanges DEF QuestionsOK
    <2> QED
      BY <2>2, <2>3
  <1>4. ASSUME NEW s \in Sessions, NoTab(s) \/ Expire(s) \/ End(s), Wiped,
               UNCHANGED <<post, answered>>
        PROVE  QuestionsOK'
    <2>1. /\ UNCHANGED ask
          /\ live'[Kept] => live[Kept]
          /\ start'[Kept] \in {"new", "query"} => start[Kept] \in {"new", "query"}
      BY <1>1, <1>4 DEF NoTab, Expire, End, Exit, Stop, StartTo, TypeOK
    <2> QED
      BY <1>4, <2>1, WipedQuestions
  <1>5. ASSUME NEW s \in Sessions, FirstText(s) \/ FirstFrame(s), UNCHANGED <<qa, post, answered>>
        PROVE  QuestionsOK'
    <2>1. /\ UNCHANGED <<ask, live>>
          /\ start'[Kept] \in {"new", "query"} => start[Kept] \in {"new", "query"}
      BY <1>1, <1>5 DEF FirstText, FirstFrame, SetTimers, StartTo, TypeOK
    <2> QED
      BY <1>5, <2>1, SameQuestions
  <1>6. ASSUME NEW s \in Sessions, BufferStart(s) PROVE QuestionsOK'
    BY <1>3, <1>4, <1>5, <1>6 DEF BufferStart
  <1>7. ASSUME BufferEnd PROVE QuestionsOK'
    <2>1. CASE \E s \in Sessions : End(s) /\ Wiped /\ UNCHANGED <<flight, post, answered>>
      BY <1>4, <2>1
    <2>2. CASE Close /\ Wiped /\ post' = NoPost /\ UNCHANGED answered
      <3>1. /\ ask'[Kept] = "none" /\ ~ live'[Kept]
            /\ start'[Kept] \in {"new", "query"} => start[Kept] = "new"
        BY <1>1, <2>2 DEF Close, Stop
      <3>2. qa' = <<>>
        BY <2>2, <3>1 DEF Wiped
      <3> QED
        BY <2>2, <3>1, <3>2, NoPostType DEF QuestionsOK
    <2> QED
      BY <1>7, <2>1, <2>2 DEF BufferEnd
  <1>8. ASSUME BufferTick \/ FrameDue \/ FrameTaken \/ TextRead PROVE QuestionsOK'
    <2>1. UNCHANGED <<qa, post, answered, ask, live, start>>
      BY <1>8 DEF BufferTick, Tick, kept, FrameDue, FrameTaken, TextRead, vars
    <2> QED
      BY <2>1, SameQuestions
  <1>9. ASSUME BufferAsk PROVE QuestionsOK'
    <2>1. /\ ask'[Kept] = "frame" /\ UNCHANGED <<start, live, qa, answered>>
          /\ post' = [NoPost EXCEPT !.taking = age[Kept] < Limit]
      BY <1>1, <1>9 DEF BufferAsk, Ask, TypeOK
    <2>2. PICK b \in BOOLEAN : b = (age[Kept] < Limit)
      <3>1. CASE age[Kept] < Limit
        <4>1. (age[Kept] < Limit) = TRUE
          BY <3>1
        <4> QED
          BY <4>1
      <3>2. CASE ~ (age[Kept] < Limit)
        <4>1. (age[Kept] < Limit) = FALSE
          BY <3>2
        <4> QED
          BY <4>1
      <3> QED
        BY <3>1, <3>2
    <2>3. post' = [NoPost EXCEPT !.taking = b]
      BY <2>1, <2>2
    <2>4. post' \in PostType
      BY <2>3, NoPostType
    <2> QED
      BY <2>1, <2>4 DEF QuestionsOK
  <1>10. ASSUME BufferAnswer PROVE QuestionsOK'
    <2>1. ask'[Kept] = "none" /\ UNCHANGED <<start, live>> /\ post' = NoPost
      BY <1>1, <1>10 DEF BufferAnswer, Answer, TypeOK
    <2>2. CASE UNCHANGED <<qa, answered>>
      BY <2>1, <2>2, NoPostType DEF QuestionsOK
    <2>3. CASE live[Kept] /\ qa' = addQa(answered + 1) /\ answered' = answered + 1
      <3>1. Exchanges(qa', answered') /\ answered' \in Nat
        BY <2>3, ExchangesGrow DEF QuestionsOK, addQa
      <3> QED
        BY <2>1, <2>3, <3>1, NoPostType DEF QuestionsOK
    <2> QED
      BY <1>10, <2>2, <2>3 DEF BufferAnswer
  <1>11. ASSUME UNCHANGED bufferVars PROVE QuestionsOK'
    BY <1>11, SameQuestions DEF bufferVars, vars, kept
  <1>12. ASSUME NEW s \in Sessions, BufferExpire(s) PROVE QuestionsOK'
    BY <1>4, <1>12 DEF BufferExpire
  <1> QED
    BY <1>2, <1>6, <1>7, <1>8, <1>9, <1>10, <1>11, <1>12, SendQuestions DEF BufferNext

LEMMA InitBuffer == BufferInit => BufferInv
  <1> SUFFICES ASSUME BufferInit PROVE BufferInv
    OBVIOUS
  <1>1. TypeOK /\ Kept \in Sessions
    BY InitInv, LimitsOK DEF BufferInit, Inv
  <1>2. start[Kept] = "new" /\ ~ live[Kept] /\ ask[Kept] = "none"
    BY <1>1 DEF BufferInit, Init
  <1>3. QuestionsOK
    BY <1>2, NoPostType DEF BufferInit, QuestionsOK
  <1> QED
    BY <1>1, <1>3, EmptyBounded DEF BufferInit, BufferInv

LEMMA AlwaysBuffer == BufferSpec => []BufferInv
  <1>1. BufferInv /\ [BufferNext]_bufferVars => BufferInv'
    BY BufferStep, StepTypeOK, StepBounded, StepQuestions DEF BufferInv
  <1> QED
    BY InitBuffer, <1>1, PTL DEF BufferSpec

\* The buffer is a part of the session: what LiveSession says of sessions, the
\* theorems above included, holds whatever is sampled, asked and answered beside it.
THEOREM BufferKeepsSession == BufferSpec => Spec
  <1>1. BufferInit => Init
    BY DEF BufferInit
  <1> QED
    BY <1>1, BufferStep, PTL DEF BufferSpec, Spec

\* Whatever order samples land in, for any limits and any lengths of frames and
\* texts, the buffer is within its caps, its budget and its window, in the order of
\* time, with no text after an equal one (evict, addFrame, addText).
THEOREM BufferStaysBounded == BufferSpec => []BufferBounded
  <1>1. BufferInv => BufferBounded
    <2> SUFFICES ASSUME Bounded(entries) PROVE BufferBounded
      BY DEF BufferInv
    <2>1. entries \in Seq(EntryType) /\ Len(entries) \in Nat /\ DOMAIN entries = 1..Len(entries)
      BY LenProperties DEF Bounded, Ordered
    <2>2. /\ OfKind(entries, "frame") = Filtered(entries, Kind("frame"))
          /\ OfKind(entries, "text") = Filtered(entries, Kind("text"))
      BY <2>1, OfKindFilters
    <2>3. ASSUME NEW i \in 1..Len(entries)
          PROVE  /\ i > 1 => entries[i - 1].at <= entries[i].at
                 /\ Last(entries).at - entries[i].at <= Window
      <3>1. Len(entries) \in 1..Len(entries) /\ (i > 1 => i - 1 \in 1..Len(entries) /\ i - 1 <= i)
        BY <2>1
      <3> QED
        BY <3>1 DEF Bounded, Ordered, Recent, Last
    <2> QED
      BY <2>1, <2>2, <2>3 DEF BufferBounded, Bounded, Differ
  <1> QED
    BY <1>1, AlwaysBuffer, PTL

\* What a question carries is current: the frame taken for it is the newest of its
\* frames, nothing is out of the window by then, and its exchanges are the ones just
\* before it, whatever lands or ends while the frame is awaited (ask).
THEOREM SentStaysGrounded == BufferSpec => []SentIsGrounded
  <1>1. BufferInv => SentIsGrounded
    <2> SUFFICES ASSUME QuestionsOK, ask[Kept] = "post" PROVE SentIsGrounded
      BY DEF BufferInv, SentIsGrounded
    <2>1. Exchanges(post.qa, answered) /\ Grounded(post)
      BY DEF QuestionsOK
    <2>2. DOMAIN post.qa = 1..Len(post.qa)
      BY <2>1, LenProperties DEF Exchanges
    <2> QED
      BY <2>1, <2>2 DEF SentIsGrounded, Exchanges, Grounded
  <1> QED
    BY <1>1, AlwaysBuffer, PTL
=============================================================================
