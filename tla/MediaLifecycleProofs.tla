------------------------- MODULE MediaLifecycleProofs -------------------------
(* Theorems about MediaLifecycle, for every value of its constants. *)
EXTENDS MediaLifecycle, TLAPS

-----------------------------------------------------------------------------
(* Typing *)

WriterType == [pc : {"idle", "moment", "images", "strip", "thumb", "row"},
               moment : Moments \cup {None}, medium : Media \cup {None},
               backfill : BOOLEAN]
DeleteType == [pc : {"idle", "lock", "ids", "select", "blobs", "tombstone"},
               kind : {"none", "moment", "project", "account"},
               targets : SUBSET Moments, keys : SUBSET Keys, failed : SUBSET Keys,
               counted : BOOLEAN, found : SUBSET Media]
CleanerType == [pc : {"idle", "drain", "drop", "queued", "list", "sweep"},
                queue : SUBSET Keys, dropping : SUBSET Keys, old : SUBSET Keys,
                keep : SUBSET Keys, doomed : SUBSET Keys, must : SUBSET Keys]

TypeOK ==
  /\ user \in {"active", "locked", "gone"} /\ project \in BOOLEAN
  /\ moment \in [Moments -> {"none", "live", "gone"}]
  /\ inline \subseteq Moments
  /\ owner \in [Media -> Moments \cup {None}]
  /\ rows \subseteq Media
  /\ blob \in [Keys -> {"none", "recent", "old"}]
  /\ tombs \subseteq Keys
  /\ wr \in [Writers -> WriterType]
  /\ del \in [Deletes -> DeleteType]
  /\ cln \in [Cleaners -> CleanerType]
  /\ seen \subseteq Media /\ aborted \subseteq Moments
-----------------------------------------------------------------------------
(* The invariant *)

\* A medium that was stored and that no writer works on any more: its blobs are
\* never put again, and a row of it that is gone never comes back.
Settled(x) == owner[x] # None /\ \A w \in Writers : wr[w].medium # x

\* A writer holds a medium of its own, without a row, between its first blob and
\* its row.
WriterOK(w) ==
  /\ wr[w].pc \notin {"idle", "moment"} => wr[w].moment \in Moments
  /\ wr[w].medium # None <=> wr[w].pc \in {"thumb", "row"}
  /\ wr[w].medium # None => /\ owner[wr[w].medium] = wr[w].moment
                            /\ wr[w].medium \notin rows
                            /\ \A v \in Writers \ {w} : wr[v].medium # wr[w].medium
  /\ wr[w].pc = "thumb" => wr[w].medium \in Thumbs

\* A delete works through the keys of media it found under its targets; whatever it
\* has dealt with is out of the store or has a tombstone.
DeleteOK(r) ==
  /\ \A x \in r.found : Settled(x)
  /\ \A k \in r.keys \cup r.failed : k[1] \in r.found /\ owner[k[1]] \in r.targets
  /\ r.pc \in {"blobs", "tombstone"} =>
       \A k \in KeysOf(r.found) : blob[k] = "none" \/ k \in tombs \cup r.keys \cup r.failed
  /\ r.pc # "tombstone" => r.failed = {}
  /\ r.pc \notin {"blobs", "tombstone"} => r.keys = {}
  /\ r.pc \in {"lock", "ids"} => r.targets = {}
  /\ r.kind = "project" => r.targets \subseteq InProject
  /\ r.kind = "account" /\ ~r.counted => r.targets = {}

\* A tombstone is drained after its blob is gone for good.
DrainOK(r) ==
  /\ \A k \in r.queue \cup r.dropping : Settled(k[1])
  /\ \A k \in r.dropping : blob[k] = "none"

Books ==
  /\ \A w \in Writers : WriterOK(w)
  /\ \A x \in rows : Settled(x) /\ moment[owner[x]] = "live"
  /\ \A k \in tombs : Settled(k[1])
  /\ \A d \in Deletes : DeleteOK(del[d])
  /\ \A c \in Cleaners : DrainOK(cln[c])
  /\ \A x \in seen : Settled(x)
  /\ \A k \in KeysOf(seen) : blob[k] = "none" \/ k \in tombs

BookInv == TypeOK /\ Books

\* Where no writer is slow: what is old is settled, so a run of the cleanup spares
\* every key a row had when it read them, and a writer finds its blobs in place.
SweepOK(r) ==
  /\ \A k \in r.old : Settled(k[1])
  /\ r.must \subseteq r.old /\ \A k \in r.must : k[1] \notin rows
  /\ r.doomed \subseteq r.old /\ \A k \in r.doomed : k[1] \notin rows
  /\ r.pc \in {"queued", "list"} => \A k \in r.old : k[1] \in rows => k \in r.keep
  /\ r.pc = "queued" => r.keep \cap r.must = {}
  /\ r.pc = "list" => \A k \in r.must \cap r.keep : blob[k] = "none" \/ k \in tombs
  /\ r.pc = "sweep" => \A k \in r.must : blob[k] = "none" \/ k \in r.doomed \cup tombs

InPlace ==
  /\ \A k \in Keys : blob[k] # "none" => owner[k[1]] # None
  /\ \A k \in Keys : blob[k] = "old" => Settled(k[1])
  /\ \A c \in Cleaners : SweepOK(cln[c])
  /\ \A w \in Writers : wr[w].medium # None =>
       /\ blob[<<wr[w].medium, "full">>] # "none"
       /\ wr[w].pc = "row" /\ wr[w].medium \in Thumbs =>
            blob[<<wr[w].medium, "thumb">>] # "none"

\* A key some delete or drain has answered for, or will.
Given(k) == \/ blob[k] = "none" \/ k \in tombs
            \/ \E c \in Cleaners : k \in cln[c].queue \cup cln[c].dropping
Works(r, m) == r.pc # "idle" /\ (m \in r.targets \/ (r.kind = "account" /\ r.counted))
Answered(m) == m \in aborted \/ \E d \in Deletes : Works(del[d], m)
Answers == \A k \in Keys : k[1] \in rows /\ Given(k) => Answered(owner[k[1]])

SafeInv == BookInv /\ InPlace /\ Answers
-----------------------------------------------------------------------------
(* Keys, and what no step undoes *)

LEMMA KeyFacts ==
  /\ \A k \in Keys : k[1] \in Media
  /\ \A x \in Media : <<x, "full">> \in Keys
  /\ \A x \in Thumbs : x \in Media /\ <<x, "thumb">> \in Keys
  /\ \A k \in Keys : k = <<k[1], "full">> \/ (k[1] \in Thumbs /\ k = <<k[1], "thumb">>)
  BY ConstantsOK DEF Keys

LEMMA KeysOfFacts ==
  ASSUME NEW X
  PROVE  \A k : k \in KeysOf(X) <=> k \in Keys /\ k[1] \in X
  BY DEF KeysOf

\* What is settled stays so, gets no row again and no blob; a tombstone goes only
\* after its blob.
Moves ==
  /\ \A x \in Media : Settled(x) => Settled(x)' /\ owner'[x] = owner[x]
  /\ \A x \in Media : Settled(x) /\ x \in rows' => x \in rows
  /\ \A k \in Keys : Settled(k[1]) /\ blob[k] = "none" => blob'[k] = "none"
  /\ \A k \in tombs : k \in tombs' \/ blob'[k] = "none"

LEMMA DeleteKept ==
  ASSUME NEW r \in DeleteType, DeleteOK(r), Moves
  PROVE  DeleteOK(r)'
  <1>1. /\ r.found \subseteq Media /\ r.keys \subseteq Keys /\ r.failed \subseteq Keys
        /\ KeysOf(r.found) \subseteq Keys /\ \A k \in Keys : k[1] \in Media
        /\ \A k \in KeysOf(r.found) : k[1] \in r.found
    BY KeyFacts DEF DeleteType, KeysOf
  <1>2. /\ \A x \in r.found : Settled(x)'
        /\ \A k \in r.keys \cup r.failed : k[1] \in r.found /\ owner'[k[1]] \in r.targets
    BY <1>1 DEF DeleteOK, Moves
  <1>3. r.pc \in {"blobs", "tombstone"} =>
          \A k \in KeysOf(r.found) :
            blob'[k] = "none" \/ k \in tombs' \cup r.keys \cup r.failed
    BY <1>1 DEF DeleteOK, Moves
  <1>4. KeysOf(r.found)' = KeysOf(r.found)
    BY DEF KeysOf, Keys
  <1> QED
    BY <1>2, <1>3, <1>4 DEF DeleteOK

LEMMA DrainKept ==
  ASSUME NEW r \in CleanerType, DrainOK(r), Moves
  PROVE  DrainOK(r)'
  <1>1. /\ r.queue \subseteq Keys /\ r.dropping \subseteq Keys
        /\ \A k \in Keys : k[1] \in Media
    BY KeyFacts DEF CleanerType
  <1> QED
    BY <1>1 DEF DrainOK, Moves

LEMMA SweepKept ==
  ASSUME NEW r \in CleanerType, SweepOK(r), Moves
  PROVE  SweepOK(r)'
  <1>1. /\ r.old \subseteq Keys /\ \A k \in Keys : k[1] \in Media
    BY KeyFacts DEF CleanerType
  <1>2. /\ \A k \in r.old : Settled(k[1])'
        /\ \A k \in r.must : k[1] \notin rows'
        /\ \A k \in r.doomed : k[1] \notin rows'
        /\ r.pc \in {"queued", "list"} => \A k \in r.old : k[1] \in rows' => k \in r.keep
    BY <1>1 DEF SweepOK, Moves
  <1>3. /\ r.pc = "list" => \A k \in r.must \cap r.keep : blob'[k] = "none" \/ k \in tombs'
        /\ r.pc = "sweep" => \A k \in r.must : blob'[k] = "none" \/ k \in r.doomed \cup tombs'
    BY <1>1 DEF SweepOK, Moves
  <1> QED
    BY <1>2, <1>3 DEF SweepOK

\* A step keeps the books if it makes those moves and leaves its own records right.
LEMMA BooksFrame ==
  ASSUME BookInv, TypeOK', Moves,
         \A w \in Writers : WriterOK(w)',
         \A x \in rows' : Settled(x)' /\ moment'[owner'[x]] = "live",
         \A k \in tombs' : k \in tombs \/ Settled(k[1]),
         \A d \in Deletes : \/ del'[d] = del[d]
                            \/ \E r \in DeleteType : del'[d] = r /\ DeleteOK(r)',
         \A c \in Cleaners : \/ cln'[c] = cln[c]
                             \/ \E r \in CleanerType : cln'[c] = r /\ DrainOK(r)',
         \A x \in seen' : \/ x \in seen
                          \/ /\ Settled(x)
                             /\ \A k \in KeysOf({x}) : blob'[k] = "none" \/ k \in tombs'
  PROVE  BookInv'
  <1>0. TypeOK /\ Books
    BY DEF BookInv
  <1>1. ASSUME NEW d \in Deletes PROVE DeleteOK(del[d])'
    <2>1. \E r \in DeleteType : del'[d] = r /\ DeleteOK(r)'
      <3>1. CASE del'[d] = del[d]
        <4>1. PICK r \in DeleteType : r = del[d] /\ DeleteOK(r)
          BY <1>0 DEF TypeOK, Books
        <4>2. DeleteOK(r)'
          BY <4>1, DeleteKept
        <4> QED
          BY <3>1, <4>1, <4>2
      <3> QED
        BY <3>1
    <2>2. PICK r \in DeleteType : del'[d] = r /\ DeleteOK(r)'
      BY <2>1
    <2> QED
      BY <2>2 DEF DeleteOK
  <1>2. ASSUME NEW c \in Cleaners PROVE DrainOK(cln[c])'
    <2>1. \E r \in CleanerType : cln'[c] = r /\ DrainOK(r)'
      <3>1. CASE cln'[c] = cln[c]
        <4>1. PICK r \in CleanerType : r = cln[c] /\ DrainOK(r)
          BY <1>0 DEF TypeOK, Books
        <4>2. DrainOK(r)'
          BY <4>1, DrainKept
        <4> QED
          BY <3>1, <4>1, <4>2
      <3> QED
        BY <3>1
    <2>2. PICK r \in CleanerType : cln'[c] = r /\ DrainOK(r)'
      BY <2>1
    <2> QED
      BY <2>2 DEF DrainOK
  <1>3. \A k \in tombs' : Settled(k[1])'
    <2>1. \A k \in tombs' : k[1] \in Media /\ Settled(k[1])
      BY <1>0, KeyFacts DEF TypeOK, Books
    <2> QED
      BY <2>1 DEF Moves
  <1>4. ASSUME NEW x \in seen'
        PROVE  /\ Settled(x)'
               /\ \A k \in KeysOf({x}) : blob'[k] = "none" \/ k \in tombs'
    <2>1. x \in Media
      BY DEF TypeOK
    <2>2. CASE x \in seen
      <3>1. Settled(x) /\ \A k \in KeysOf({x}) : k \in Keys /\ k[1] = x
        BY <1>0, <2>2 DEF Books, KeysOf
      <3>2. \A k \in KeysOf({x}) : blob[k] = "none" \/ k \in tombs
        BY <1>0, <2>2, <3>1 DEF Books, KeysOf
      <3> QED
        BY <2>1, <3>1, <3>2 DEF Moves
    <2>3. CASE x \notin seen
      <3>1. Settled(x) /\ \A k \in KeysOf({x}) : blob'[k] = "none" \/ k \in tombs'
        BY <2>3
      <3> QED
        BY <2>1, <3>1 DEF Moves
    <2> QED
      BY <2>2, <2>3
  <1>5. \A k \in KeysOf(seen)' : blob'[k] = "none" \/ k \in tombs'
    <2>1. \A k \in KeysOf(seen)' : k \in KeysOf({k[1]}) /\ k[1] \in seen'
      BY DEF KeysOf
    <2> QED
      BY <1>4, <2>1
  <1> QED
    BY <1>1, <1>2, <1>3, <1>4, <1>5 DEF BookInv, Books

\* A step that leaves the writers and their media alone.
LEMMA WritersAlone ==
  ASSUME BookInv, UNCHANGED <<wr, owner>>, rows' \subseteq rows,
         \A x \in rows' : moment'[owner[x]] = "live"
  PROVE  /\ \A w \in Writers : WriterOK(w)'
         /\ \A x \in rows' : Settled(x)' /\ moment'[owner'[x]] = "live"
         /\ \A x \in Media : Settled(x)' <=> Settled(x)
  <1>1. \A x : Settled(x)' <=> Settled(x)
    BY DEF Settled
  <1>2. ASSUME NEW w \in Writers PROVE WriterOK(w)'
    <2>1. WriterOK(w)
      BY DEF BookInv, Books
    <2> QED
      BY <2>1 DEF WriterOK
  <1> QED
    BY <1>1, <1>2 DEF BookInv, Books
-----------------------------------------------------------------------------
(* Captures and backfills *)

WriterRecord(w, new) == wr' = [wr EXCEPT ![w] = new]

\* A writer starts, goes on or ends without a medium in hand; the put of a thumbnail
\* may take effect as it fails.
LEMMA QuietWriter ==
  ASSUME BookInv, NEW w \in Writers, NEW new \in WriterType, WriterRecord(w, new),
         new.medium = None, new.pc \notin {"thumb", "row"},
         new.pc \notin {"idle", "moment"} => new.moment \in Moments,
         UNCHANGED <<user, project, owner, rows, tombs, del, cln, seen, aborted>>,
         moment' \in [Moments -> {"none", "live", "gone"}],
         \A m \in Moments : moment[m] = "live" => moment'[m] = "live",
         inline' \subseteq inline,
         blob' = blob \/ (wr[w].pc = "thumb" /\
                          blob' = [blob EXCEPT ![<<wr[w].medium, "thumb">>] = "recent"])
  PROVE  BookInv' /\ Moves
  <1>0. TypeOK /\ Books /\ wr \in [Writers -> WriterType]
    BY DEF BookInv, TypeOK
  <1>1. /\ wr'[w] = new /\ wr' \in [Writers -> WriterType]
        /\ \A v \in Writers : v # w => wr'[v] = wr[v]
    BY <1>0 DEF WriterRecord
  <1>2. /\ blob' \in [Keys -> {"none", "recent", "old"}]
        /\ \A k \in Keys : \/ blob'[k] = blob[k]
                           \/ k[1] = wr[w].medium /\ wr[w].medium # None
    <2>1. CASE blob' = blob
      BY <1>0, <2>1 DEF TypeOK
    <2>2. CASE blob' # blob
      <3>1. wr[w].medium \in Thumbs /\ wr[w].medium # None
        BY <1>0, <2>2 DEF Books, WriterOK
      <3> QED
        BY <1>0, <2>2, <3>1, KeyFacts DEF TypeOK
    <2> QED
      BY <2>1, <2>2
  <1>3. TypeOK'
    BY <1>0, <1>1, <1>2 DEF TypeOK
  <1>4. \A x \in Media : Settled(x) => Settled(x)'
    BY <1>1, ConstantsOK DEF Settled
  <1>5. Moves
    <2>1. \A k \in Keys : Settled(k[1]) => blob'[k] = blob[k]
      BY <1>2 DEF Settled
    <2> QED
      BY <1>4, <2>1 DEF Moves
  <1>6. ASSUME NEW v \in Writers PROVE WriterOK(v)'
    <2>1. CASE v = w
      BY <1>1, <2>1 DEF WriterOK
    <2>2. CASE v # w
      <3>1. WriterOK(v)
        BY <1>0 DEF Books
      <3> QED
        BY <1>1, <2>2, <3>1 DEF WriterOK
    <2> QED
      BY <2>1, <2>2
  <1>7. \A x \in rows' : Settled(x)' /\ moment'[owner'[x]] = "live"
    <2>1. \A x \in rows : x \in Media /\ Settled(x) /\ moment[owner[x]] = "live"
                          /\ owner[x] \in Moments
      BY <1>0 DEF TypeOK, Books, Settled
    <2> QED
      BY <1>4, <2>1
  <1> QED
    BY <1>3, <1>5, <1>6, <1>7, BooksFrame

\* The steps of a writer that put no blob in place and no row.
LEMMA QuietWriterStep ==
  ASSUME BookInv, NEW w \in Writers,
         \/ CaptureStart(w) \/ Quarantine(w) \/ StripPayload(w) \/ CaptureEnds(w)
         \/ WriterFails(w) \/ (InsertRow(w) /\ rows' = rows)
         \/ \E m \in Moments : InsertMoment(w, m) \/ BackfillStart(w, m)
  PROVE  BookInv' /\ Moves
  <1>0. /\ TypeOK /\ WriterOK(w) /\ wr[w] \in WriterType
        /\ moment \in [Moments -> {"none", "live", "gone"}]
    BY DEF BookInv, Books, TypeOK
  <1>1. IdleWriter \in WriterType /\ IdleWriter.pc = "idle" /\ IdleWriter.medium = None
    BY DEF IdleWriter, WriterType
  <1>2. CASE CaptureStart(w)
    <2> DEFINE new == [wr[w] EXCEPT !.pc = "moment"]
    <2>1. new \in WriterType /\ new.pc = "moment" /\ new.medium = None
      BY <1>0, <1>2 DEF WriterType, CaptureStart, WriterAt, WriterOK
    <2>2. /\ WriterRecord(w, new) /\ blob' = blob /\ inline' = inline /\ moment' = moment
          /\ UNCHANGED <<user, project, owner, rows, tombs, del, cln, seen, aborted>>
      BY <1>2 DEF CaptureStart, WriterTo, WriterRecord, db, history
    <2> HIDE DEF new
    <2> QED
      BY <1>0, <2>1, <2>2, QuietWriter
  <1>3. CASE Quarantine(w)
    <2> DEFINE new == [wr[w] EXCEPT !.pc = "strip"]
    <2>1. /\ new \in WriterType /\ new.pc = "strip" /\ new.medium = None
          /\ new.moment \in Moments
      BY <1>0, <1>3 DEF WriterType, Quarantine, WriterAt, WriterOK
    <2>2. /\ WriterRecord(w, new) /\ blob' = blob /\ inline' = inline /\ moment' = moment
          /\ UNCHANGED <<user, project, owner, rows, tombs, del, cln, seen, aborted>>
      BY <1>3 DEF Quarantine, WriterTo, WriterRecord, db, history
    <2> HIDE DEF new
    <2> QED
      BY <1>0, <2>1, <2>2, QuietWriter
  <1>4. CASE StripPayload(w) \/ CaptureEnds(w) \/ WriterFails(w) \/ (InsertRow(w) /\ rows' = rows)
    <2>1. /\ WriterRecord(w, IdleWriter) /\ inline' \subseteq inline /\ moment' = moment
          /\ blob' = blob \/ (wr[w].pc = "thumb" /\
                              blob' = [blob EXCEPT ![<<wr[w].medium, "thumb">>] = "recent"])
          /\ UNCHANGED <<user, project, owner, rows, tombs, del, cln, seen, aborted>>
      <3>1. CASE StripPayload(w)
        BY <3>1 DEF StripPayload, WriterEnds, WriterRecord, db, history
      <3>2. CASE CaptureEnds(w)
        BY <3>2 DEF CaptureEnds, WriterEnds, WriterRecord, db, history
      <3>3. CASE WriterFails(w)
        BY <3>3 DEF WriterFails, WriterEnds, WriterRecord, WriterAt, db, history
      <3>4. CASE InsertRow(w) /\ rows' = rows
        <4>1. wr[w].medium \notin rows
          BY <1>0, <3>4 DEF InsertRow, WriterAt, WriterOK
        <4> QED
          BY <3>4, <4>1 DEF InsertRow, WriterEnds, WriterRecord, db, history
      <3> QED
        BY <1>4, <3>1, <3>2, <3>3, <3>4
    <2> QED
      BY <1>0, <1>1, <2>1, QuietWriter
  <1>5. ASSUME NEW m \in Moments, InsertMoment(w, m)
        PROVE  BookInv' /\ Moves
    <2> DEFINE new == [wr[w] EXCEPT !.pc = "images", !.moment = m]
    <2>1. new \in WriterType /\ new.pc = "images" /\ new.medium = None /\ new.moment = m
      BY <1>0, <1>5 DEF WriterType, InsertMoment, WriterAt, WriterOK
    <2>2. /\ \/ WriterRecord(w, new) /\ moment' = [moment EXCEPT ![m] = "live"]
             \/ WriterRecord(w, IdleWriter) /\ moment' = moment
          /\ blob' = blob /\ inline' = inline
          /\ UNCHANGED <<user, project, owner, rows, tombs, del, cln, seen, aborted>>
      BY <1>5 DEF InsertMoment, WriterEnds, WriterRecord, history
    <2> HIDE DEF new
    <2>3. CASE WriterRecord(w, new) /\ moment' = [moment EXCEPT ![m] = "live"]
      <3>1. /\ moment' \in [Moments -> {"none", "live", "gone"}]
            /\ \A n \in Moments : moment[n] = "live" => moment'[n] = "live"
        BY <1>0, <2>3
      <3> QED
        BY <2>1, <2>2, <2>3, <3>1, QuietWriter
    <2>4. CASE WriterRecord(w, IdleWriter) /\ moment' = moment
      BY <1>0, <1>1, <2>2, <2>4, QuietWriter
    <2> QED
      BY <2>2, <2>3, <2>4
  <1>6. ASSUME NEW m \in Moments, BackfillStart(w, m)
        PROVE  BookInv' /\ Moves
    <2> DEFINE new == [pc |-> "images", moment |-> m, medium |-> None, backfill |-> TRUE]
    <2>1. new \in WriterType /\ new.pc = "images" /\ new.medium = None /\ new.moment = m
      BY DEF WriterType
    <2>2. /\ WriterRecord(w, new) /\ blob' = blob /\ inline' = inline /\ moment' = moment
          /\ UNCHANGED <<user, project, owner, rows, tombs, del, cln, seen, aborted>>
      BY <1>6 DEF BackfillStart, WriterRecord, db, history
    <2> HIDE DEF new
    <2> QED
      BY <1>0, <2>1, <2>2, QuietWriter
  <1> QED
    BY <1>2, <1>3, <1>4, <1>5, <1>6

\* A blob is put for a medium that is the writer's own.
LEMMA PutStep ==
  ASSUME BookInv, NEW w \in Writers, NEW x \in Media, NEW new \in WriterType,
         NEW k \in Keys, k[1] = x,
         WriterRecord(w, new), new.medium = x, new.pc \in {"thumb", "row"},
         new.pc = "thumb" => x \in Thumbs,
         new.moment = wr[w].moment, wr[w].moment \in Moments,
         blob' = [blob EXCEPT ![k] = "recent"],
         \/ owner[x] = None /\ owner' = [owner EXCEPT ![x] = wr[w].moment]
         \/ wr[w].medium = x /\ owner' = owner,
         UNCHANGED <<db, rows, tombs, del, cln, seen, aborted>>
  PROVE  BookInv' /\ Moves
  <1>0. TypeOK /\ Books /\ wr \in [Writers -> WriterType] /\ owner \in [Media -> Moments \cup {None}]
    BY DEF BookInv, TypeOK
  <1>1. /\ wr'[w] = new /\ wr' \in [Writers -> WriterType]
        /\ \A v \in Writers : v # w => wr'[v] = wr[v]
    BY <1>0 DEF WriterRecord
  <1>2. ~Settled(x) /\ x # None /\ wr[w].moment # None
    BY <1>0, ConstantsOK DEF Settled
  <1>3. /\ owner' \in [Media -> Moments \cup {None}] /\ owner'[x] = wr[w].moment
        /\ \A y \in Media : y # x => owner'[y] = owner[y]
    <2>1. CASE owner' = [owner EXCEPT ![x] = wr[w].moment]
      BY <1>0, <2>1
    <2>2. CASE wr[w].medium = x /\ owner' = owner
      <3>1. WriterOK(w)
        BY <1>0 DEF Books
      <3> QED
        BY <1>0, <1>2, <2>2, <3>1 DEF WriterOK
    <2> QED
      BY <2>1, <2>2
  <1>4. x \notin rows /\ \A v \in Writers \ {w} : wr[v].medium # x
    <2>1. CASE wr[w].medium = x
      BY <1>0, <1>2, <2>1 DEF Books, WriterOK
    <2>2. CASE owner[x] = None
      <3>1. ASSUME NEW v \in Writers, wr[v].medium = x PROVE FALSE
        <4>1. wr[v].pc \notin {"idle", "moment"} /\ owner[x] = wr[v].moment
          BY <1>0, <1>2, <3>1 DEF Books, WriterOK
        <4>2. wr[v].moment \in Moments
          BY <1>0, <4>1 DEF Books, WriterOK
        <4> QED
          BY <2>2, <4>1, <4>2, ConstantsOK
      <3> QED
        BY <1>0, <2>2, <3>1 DEF Books, Settled
    <2> QED
      BY <2>1, <2>2
  <1>5. /\ blob' \in [Keys -> {"none", "recent", "old"}]
        /\ \A l \in Keys : l[1] # x => blob'[l] = blob[l]
    BY <1>0 DEF TypeOK
  <1>6. TypeOK'
    BY <1>0, <1>1, <1>3, <1>5 DEF TypeOK, db
  <1>7. \A y \in Media : Settled(y) => Settled(y)' /\ owner'[y] = owner[y]
    BY <1>1, <1>2, <1>3 DEF Settled
  <1>8. Moves
    BY <1>2, <1>5, <1>7, KeyFacts DEF Moves
  <1>9. ASSUME NEW v \in Writers PROVE WriterOK(v)'
    <2>1. CASE v = w
      BY <1>1, <1>2, <1>3, <1>4, <2>1 DEF WriterOK
    <2>2. CASE v # w
      <3>1. WriterOK(v) /\ wr[v] \in WriterType /\ wr[v].medium # x
        BY <1>0, <1>4, <2>2 DEF Books
      <3> QED
        BY <1>1, <1>3, <2>2, <3>1 DEF WriterOK, WriterType
    <2> QED
      BY <2>1, <2>2
  <1>10. \A y \in rows' : Settled(y)' /\ moment'[owner'[y]] = "live"
    <2>1. \A y \in rows : y \in Media /\ Settled(y) /\ moment[owner[y]] = "live"
      BY <1>0 DEF TypeOK, Books
    <2> QED
      BY <1>7, <2>1 DEF db
  <1> QED
    BY <1>6, <1>8, <1>9, <1>10, BooksFrame

LEMMA StoreStep ==
  ASSUME BookInv, NEW w \in Writers, StoreThumb(w) \/ \E x \in Media : StoreImage(w, x)
  PROVE  BookInv' /\ Moves
  <1>0. TypeOK /\ WriterOK(w) /\ wr[w] \in WriterType
    BY DEF BookInv, Books, TypeOK
  <1>1. CASE StoreThumb(w)
    <2> PICK x \in Thumbs : x = wr[w].medium
      BY <1>0, <1>1 DEF StoreThumb, WriterAt, WriterOK
    <2> DEFINE new == [wr[w] EXCEPT !.pc = "row"]
    <2>1. /\ new \in WriterType /\ new.pc = "row" /\ new.medium = x
          /\ new.moment = wr[w].moment /\ wr[w].moment \in Moments
      BY <1>0, <1>1 DEF WriterType, StoreThumb, WriterAt, WriterOK
    <2>2. /\ WriterRecord(w, new) /\ blob' = [blob EXCEPT ![<<x, "thumb">>] = "recent"]
          /\ owner' = owner
          /\ UNCHANGED <<db, rows, tombs, del, cln, seen, aborted>>
      BY <1>1 DEF StoreThumb, WriterTo, WriterRecord, history
    <2> HIDE DEF new
    <2>3. x \in Media /\ <<x, "thumb">> \in Keys /\ <<x, "thumb">>[1] = x
      BY KeyFacts
    <2> QED
      BY <2>1, <2>2, <2>3, PutStep
  <1>2. ASSUME NEW x \in Media, StoreImage(w, x)
        PROVE  BookInv' /\ Moves
    <2> DEFINE new == [wr[w] EXCEPT !.medium = x, !.pc = IF x \in Thumbs THEN "thumb" ELSE "row"]
    <2>1. /\ new \in WriterType /\ new.pc \in {"thumb", "row"} /\ new.medium = x
          /\ new.pc = "thumb" => x \in Thumbs
          /\ new.moment = wr[w].moment /\ wr[w].moment \in Moments
      BY <1>0, <1>2 DEF WriterType, StoreImage, WriterAt, WriterOK
    <2>2. /\ WriterRecord(w, new) /\ blob' = [blob EXCEPT ![<<x, "full">>] = "recent"]
          /\ owner[x] = None /\ owner' = [owner EXCEPT ![x] = wr[w].moment]
          /\ UNCHANGED <<db, rows, tombs, del, cln, seen, aborted>>
      BY <1>2 DEF StoreImage, WriterRecord, history
    <2> HIDE DEF new
    <2>3. <<x, "full">> \in Keys /\ <<x, "full">>[1] = x
      BY KeyFacts
    <2> QED
      BY <2>1, <2>2, <2>3, PutStep
  <1> QED
    BY <1>1, <1>2

\* The row of a medium whose moment is live.
LEMMA RowStep ==
  ASSUME BookInv, NEW w \in Writers, InsertRow(w), rows' # rows
  PROVE  /\ BookInv' /\ Moves
         /\ wr[w].medium \in Media /\ wr[w].medium # None /\ wr[w].pc = "row"
         /\ rows' = rows \cup {wr[w].medium}
         /\ wr'[w].medium = None /\ \A v \in Writers : v # w => wr'[v] = wr[v]
  <1>0. TypeOK /\ Books /\ WriterOK(w) /\ wr \in [Writers -> WriterType] /\ wr[w] \in WriterType
    BY DEF BookInv, Books, TypeOK
  <1> DEFINE new == [wr[w] EXCEPT !.medium = None,
                       !.pc = IF wr[w].backfill THEN "strip" ELSE "images"]
  <1>1. /\ wr[w].pc = "row" /\ rows' = rows \cup {wr[w].medium}
        /\ moment[wr[w].moment] = "live" /\ WriterRecord(w, new)
        /\ UNCHANGED <<db, owner, blob, tombs, del, cln, seen, aborted>>
    BY DEF InsertRow, WriterAt, WriterRecord, history
  <1>2. wr[w].medium # None /\ wr[w].moment \in Moments /\ owner[wr[w].medium] = wr[w].moment
        /\ wr[w].medium \in Media /\ \A v \in Writers \ {w} : wr[v].medium # wr[w].medium
    BY <1>0, <1>1 DEF WriterOK, WriterType
  <1>3. /\ new \in WriterType /\ new.pc \in {"strip", "images"} /\ new.medium = None
        /\ new.moment = wr[w].moment
    BY <1>0 DEF WriterType
  <1> HIDE DEF new
  <1>4. /\ wr'[w] = new /\ wr' \in [Writers -> WriterType]
        /\ \A v \in Writers : v # w => wr'[v] = wr[v]
    BY <1>0, <1>1, <1>3 DEF WriterRecord
  <1>5. TypeOK'
    BY <1>0, <1>1, <1>2, <1>4 DEF TypeOK, db
  <1>6. \A x \in Media : Settled(x) => Settled(x)'
    BY <1>1, <1>3, <1>4, ConstantsOK DEF Settled
  <1>7. Moves
    <2>1. \A x \in Media : Settled(x) => x # wr[w].medium
      BY DEF Settled
    <2> QED
      BY <1>1, <1>6, <2>1 DEF Moves
  <1>8. ASSUME NEW v \in Writers PROVE WriterOK(v)'
    <2>1. CASE v = w
      BY <1>2, <1>3, <1>4, <2>1 DEF WriterOK
    <2>2. CASE v # w
      <3>1. WriterOK(v)
        BY <1>0 DEF Books
      <3> QED
        BY <1>1, <1>2, <1>3, <1>4, <2>2, <3>1 DEF WriterOK
    <2> QED
      BY <2>1, <2>2
  <1>9. ASSUME NEW x \in rows' PROVE Settled(x)' /\ moment'[owner'[x]] = "live"
    <2>1. CASE x = wr[w].medium
      <3>1. owner'[x] # None /\ moment'[owner'[x]] = "live"
        BY <1>1, <1>2, <2>1, ConstantsOK DEF db
      <3>2. \A v \in Writers : wr'[v].medium # x
        BY <1>2, <1>3, <1>4, <2>1
      <3> QED
        BY <3>1, <3>2 DEF Settled
    <2>2. CASE x \in rows
      BY <1>0, <1>1, <1>6, <2>2 DEF TypeOK, Books, db
    <2> QED
      BY <1>1, <2>1, <2>2
  <1> QED
    BY <1>1, <1>2, <1>3, <1>4, <1>5, <1>7, <1>8, <1>9, BooksFrame

LEMMA WriteBooks ==
  ASSUME BookInv, NEW w \in Writers, Write(w)
  PROVE  BookInv' /\ Moves
  <1>1. CASE InsertRow(w)
    BY <1>1, QuietWriterStep, RowStep
  <1>2. CASE StoreThumb(w)
    BY <1>2, StoreStep
  <1>3. ASSUME NEW x \in Media, StoreImage(w, x) PROVE BookInv' /\ Moves
    BY <1>3, StoreStep
  <1>4. ASSUME NEW m \in Moments, InsertMoment(w, m) \/ BackfillStart(w, m)
        PROVE  BookInv' /\ Moves
    BY <1>4, QuietWriterStep
  <1>5. CASE \/ CaptureStart(w) \/ Quarantine(w) \/ StripPayload(w) \/ CaptureEnds(w)
             \/ WriterFails(w)
    BY <1>5, QuietWriterStep
  <1> QED
    BY <1>1, <1>2, <1>3, <1>4, <1>5 DEF Write
-----------------------------------------------------------------------------
(* Deletions *)

LEMMA DeleteFrame ==
  ASSUME BookInv, NEW d \in Deletes, NEW new \in DeleteType,
         del' = [del EXCEPT ![d] = new], UNCHANGED <<wr, owner, cln>>,
         user' \in {"active", "locked", "gone"}, project' \in BOOLEAN,
         moment' \in [Moments -> {"none", "live", "gone"}], inline' \subseteq inline,
         rows' \subseteq rows, \A x \in rows' : moment'[owner[x]] = "live",
         blob' \in [Keys -> {"none", "recent", "old"}],
         \A k \in Keys : blob[k] = "none" => blob'[k] = "none",
         tombs \subseteq tombs', tombs' \subseteq Keys,
         \A k \in tombs' : k \in tombs \/ Settled(k[1]),
         aborted' \subseteq Moments, seen' \subseteq Media,
         \A x \in seen' : \/ x \in seen
                          \/ /\ Settled(x)
                             /\ \A k \in KeysOf({x}) : blob'[k] = "none" \/ k \in tombs',
         Moves => DeleteOK(new)'
  PROVE  BookInv' /\ Moves
  <1>0. TypeOK /\ del \in [Deletes -> DeleteType]
    BY DEF BookInv, TypeOK
  <1>1. /\ del' \in [Deletes -> DeleteType] /\ del'[d] = new
        /\ \A e \in Deletes : e # d => del'[e] = del[e]
    BY <1>0
  <1>2. TypeOK'
    BY <1>0, <1>1 DEF TypeOK
  <1>3. /\ \A w \in Writers : WriterOK(w)'
        /\ \A x \in rows' : Settled(x)' /\ moment'[owner'[x]] = "live"
        /\ \A x \in Media : Settled(x)' <=> Settled(x)
    BY WritersAlone
  <1>4. Moves
    BY <1>3 DEF Moves
  <1>5. \A e \in Deletes : \/ del'[e] = del[e]
                           \/ \E r \in DeleteType : del'[e] = r /\ DeleteOK(r)'
    BY <1>1, <1>4
  <1> QED
    BY <1>2, <1>3, <1>4, <1>5, BooksFrame

LEMMA DeleteOf ==
  ASSUME BookInv, NEW d \in Deletes
  PROVE  /\ del[d] \in DeleteType /\ DeleteOK(del[d])
         /\ user \in {"active", "locked", "gone"} /\ project \in BOOLEAN
         /\ moment \in [Moments -> {"none", "live", "gone"}] /\ inline \subseteq Moments
         /\ rows \subseteq Media /\ \A x \in rows : moment[owner[x]] = "live"
         /\ \A x \in rows : Settled(x) /\ owner[x] \in Moments
         /\ blob \in [Keys -> {"none", "recent", "old"}]
         /\ tombs \subseteq Keys /\ seen \subseteq Media /\ aborted \subseteq Moments
  BY DEF BookInv, Books, TypeOK, Settled

LEMMA IdleDeleteOK ==
  /\ IdleDelete \in DeleteType /\ IdleDelete.pc = "idle"
  /\ IdleDelete.targets = {} /\ IdleDelete.keys = {} /\ IdleDelete.failed = {}
  /\ IdleDelete.found = {} /\ DeleteOK(IdleDelete)'
  <1>1. /\ IdleDelete \in DeleteType /\ IdleDelete.pc = "idle"
        /\ IdleDelete.targets = {} /\ IdleDelete.keys = {} /\ IdleDelete.failed = {}
        /\ IdleDelete.found = {} /\ IdleDelete.kind = "none"
    BY DEF IdleDelete, DeleteType
  <1>2. PICK r \in DeleteType : r = IdleDelete
    BY <1>1
  <1>3. DeleteOK(r)'
    BY <1>1, <1>2 DEF DeleteOK
  <1> QED
    BY <1>1, <1>2, <1>3

\* The steps of a delete that read, and touch nothing but its own record.
LEMMA ReadingDelete ==
  ASSUME BookInv, NEW d \in Deletes, NEW new \in DeleteType,
         del' = [del EXCEPT ![d] = new],
         UNCHANGED <<project, moment, inline, owner, rows, blob, tombs, wr, cln, seen,
                     aborted>>,
         user' \in {"active", "locked", "gone"},
         DeleteOK(new)
  PROVE  BookInv' /\ Moves
  BY DeleteOf, DeleteKept, DeleteFrame

LEMMA StartsStep ==
  ASSUME BookInv, NEW d \in Deletes,
         \/ \E m \in Moments : DeleteMoment(d, m)
         \/ DeleteProject(d) \/ DeleteAccount(d) \/ LockAccount(d)
  PROVE  BookInv' /\ Moves
  <1>1. CASE LockAccount(d)
    <2> DEFINE new == [del[d] EXCEPT !.pc = "ids"]
    <2> PICK r \in DeleteType : r = del[d] /\ DeleteOK(r) /\ r.pc = "lock"
      BY <1>1, DeleteOf DEF LockAccount, DeleteAt
    <2>1. /\ new \in DeleteType /\ new.pc = "ids" /\ new.keys = r.keys
          /\ new.failed = r.failed /\ new.found = r.found /\ new.targets = r.targets
          /\ new.kind = r.kind /\ new.counted = r.counted
      BY DEF DeleteType
    <2>2. /\ del' = [del EXCEPT ![d] = new]
          /\ user' \in {"active", "locked", "gone"}
          /\ UNCHANGED <<project, moment, inline, owner, rows, blob, tombs, wr, cln, seen,
                         aborted>>
      BY <1>1, DeleteOf DEF LockAccount, history
    <2> HIDE DEF new
    <2>3. DeleteOK(new)
      BY <2>1 DEF DeleteOK
    <2> QED
      BY <2>1, <2>2, <2>3, ReadingDelete
  <1>2. ASSUME NEW to \in {"select", "ids", "lock"}, NEW kind \in {"moment", "project", "account"},
               NEW targets \in SUBSET Moments, to # "select" => targets = {},
               kind # "moment" => targets = {},
               Starts(d, to, kind, targets)
        PROVE  BookInv' /\ Moves
    <2> DEFINE new == [IdleDelete EXCEPT !.pc = to, !.kind = kind, !.targets = targets,
                                         !.counted = (rows # {})]
    <2>1. /\ new \in DeleteType /\ new.pc = to /\ new.keys = {} /\ new.failed = {}
          /\ new.found = {} /\ new.targets = targets /\ new.kind = kind
      BY DEF IdleDelete, DeleteType
    <2>2. /\ del' = [del EXCEPT ![d] = new] /\ user' = user
          /\ UNCHANGED <<project, moment, inline, owner, rows, blob, tombs, wr, cln, seen,
                         aborted>>
      BY <1>2 DEF Starts, db, history
    <2> HIDE DEF new
    <2>3. DeleteOK(new)
      BY <1>2, <2>1 DEF DeleteOK
    <2> QED
      BY <2>1, <2>2, <2>3, DeleteOf, ReadingDelete
  <1>3. ASSUME NEW m \in Moments, DeleteMoment(d, m) PROVE BookInv' /\ Moves
    BY <1>2, <1>3 DEF DeleteMoment
  <1>4. CASE DeleteProject(d)
    BY <1>2, <1>4 DEF DeleteProject
  <1>5. CASE DeleteAccount(d)
    BY <1>2, <1>5 DEF DeleteAccount
  <1> QED
    BY <1>1, <1>3, <1>4, <1>5

LEMMA ReadTargetsStep ==
  ASSUME BookInv, NEW d \in Deletes, ReadTargets(d)
  PROVE  BookInv' /\ Moves
  <1> PICK r \in DeleteType : r = del[d] /\ DeleteOK(r) /\ r.pc = "ids"
    BY DeleteOf DEF ReadTargets, DeleteAt
  <1>1. /\ Targets(d) \subseteq Moments
        /\ r.kind = "project" => Targets(d) \subseteq InProject
        /\ r.kind = "account" /\ ~r.counted => Targets(d) = {}
    BY DeleteOf DEF Targets, Held, Live
  <1> PICK targets \in SUBSET Moments : targets = Targets(d)
    BY <1>1
  <1> DEFINE new == [r EXCEPT !.pc = "select", !.targets = targets]
  <1>2. /\ new \in DeleteType /\ new.pc = "select" /\ new.keys = r.keys
        /\ new.failed = r.failed /\ new.found = r.found /\ new.targets = targets
        /\ new.kind = r.kind /\ new.counted = r.counted
    BY DEF DeleteType
  <1>3. /\ del' = [del EXCEPT ![d] = new] /\ user' = user
        /\ UNCHANGED <<project, moment, inline, owner, rows, blob, tombs, wr, cln, seen,
                       aborted>>
    BY DEF ReadTargets, db, history
  <1> HIDE DEF new
  <1>4. DeleteOK(new)
    BY <1>1, <1>2 DEF DeleteOK
  <1> QED
    BY <1>2, <1>3, <1>4, DeleteOf, ReadingDelete

\* A delete finds the rows under its targets.
LEMMA SelectKeysStep ==
  ASSUME BookInv, NEW d \in Deletes, SelectKeys(d)
  PROVE  BookInv' /\ Moves
  <1> PICK r \in DeleteType : r = del[d] /\ DeleteOK(r) /\ r.pc = "select"
    BY DeleteOf DEF SelectKeys, DeleteAt
  <1> PICK found \in SUBSET Media : found = {x \in rows : owner[x] \in r.targets}
    BY DeleteOf
  <1> DEFINE new == [r EXCEPT !.pc = "blobs", !.keys = KeysOf(found), !.found = found]
  <1>1. /\ new \in DeleteType /\ new.pc = "blobs" /\ new.keys = KeysOf(found)
        /\ new.failed = r.failed /\ new.found = found /\ new.targets = r.targets
        /\ new.kind = r.kind /\ new.counted = r.counted
    BY DEF DeleteType, KeysOf
  <1>2. /\ del' = [del EXCEPT ![d] = new] /\ user' = user
        /\ UNCHANGED <<project, moment, inline, owner, rows, blob, tombs, wr, cln, seen,
                       aborted>>
    BY DEF SelectKeys, db, history
  <1> HIDE DEF new
  <1>3. DeleteOK(new)
    <2>1. \A k \in KeysOf(found) : k[1] \in found /\ owner[k[1]] \in r.targets
      BY DEF KeysOf
    <2>2. \A x \in found : Settled(x)
      BY DeleteOf
    <2> QED
      BY <1>1, <2>1, <2>2 DEF DeleteOK
  <1> QED
    BY <1>1, <1>2, <1>3, DeleteOf, ReadingDelete

LEMMA NoPipelineStep ==
  ASSUME BookInv, NEW d \in Deletes, NoPipeline(d)
  PROVE  BookInv' /\ Moves
  <1> PICK r \in DeleteType : r = del[d] /\ DeleteOK(r) /\ r.pc = "select"
    BY DeleteOf DEF NoPipeline, DeleteAt
  <1> PICK queued \in SUBSET Media :
        queued = IF r.kind = "account" /\ r.counted THEN rows ELSE {}
    BY DeleteOf
  <1> DEFINE new == [r EXCEPT !.pc = "blobs", !.found = queued]
  <1>1. /\ new \in DeleteType /\ new.pc = "blobs" /\ new.keys = {}
        /\ new.failed = {} /\ new.found = queued /\ new.targets = r.targets
        /\ new.kind = r.kind /\ new.counted = r.counted
    BY DEF DeleteType, DeleteOK
  <1>2. /\ del' = [del EXCEPT ![d] = new] /\ tombs' = tombs \cup KeysOf(queued)
        /\ UNCHANGED <<user, project, moment, inline, owner, rows, blob, wr, cln, seen,
                       aborted>>
    BY DEF NoPipeline, db, history
  <1> HIDE DEF new
  <1>3. /\ \A x \in queued : Settled(x)
        /\ \A k \in KeysOf(queued) : k \in Keys /\ Settled(k[1])
    BY DeleteOf DEF KeysOf
  <1>4. Moves => DeleteOK(new)'
    <2>1. KeysOf(queued)' = KeysOf(queued)
      BY DEF KeysOf, Keys
    <2>2. Moves => \A x \in queued : Settled(x)'
      BY <1>3 DEF Moves
    <2> QED
      BY <1>1, <1>2, <2>1, <2>2 DEF DeleteOK
  <1> QED
    BY <1>1, <1>2, <1>3, <1>4, DeleteOf, DeleteFrame

\* A key that was dealt with is out of the store, or about to get its tombstone.
LEMMA DeleteBlobStep ==
  ASSUME BookInv, NEW d \in Deletes, NEW k \in Keys, DeleteBlob(d, k)
  PROVE  BookInv' /\ Moves
  <1> PICK r \in DeleteType : /\ r = del[d] /\ DeleteOK(r) /\ r.pc = "blobs"
                              /\ r.failed = {} /\ k \in r.keys
    BY DeleteOf DEF DeleteBlob, DeleteAt, DeleteOK
  <1>0. UNCHANGED <<user, project, moment, inline, owner, rows, tombs, wr, cln, seen, aborted>>
    BY DEF DeleteBlob, db, history
  <1>1. /\ blob' \in [Keys -> {"none", "recent", "old"}]
        /\ \A l \in Keys : blob'[l] = blob[l] \/ blob'[l] = "none"
    BY DeleteOf DEF DeleteBlob, Remove
  <1>2. \E new \in DeleteType :
          /\ del' = [del EXCEPT ![d] = new]
          /\ new.keys = r.keys \ {k} /\ new.found = r.found /\ new.targets = r.targets
          /\ new.kind = r.kind /\ new.counted = r.counted
          /\ \/ new.failed = {} /\ new.pc = "blobs" /\ blob'[k] = "none"
             \/ new.failed = {k} /\ new.pc = "tombstone"
    <2>1. CASE /\ Remove(k)
               /\ del' = [del EXCEPT ![d] = [@ EXCEPT !.keys = del[d].keys \ {k}]]
      <3> DEFINE new == [r EXCEPT !.keys = r.keys \ {k}]
      <3>1. /\ new \in DeleteType
            /\ new.keys = r.keys \ {k} /\ new.found = r.found /\ new.targets = r.targets
            /\ new.kind = r.kind /\ new.counted = r.counted
            /\ new.failed = {} /\ new.pc = "blobs"
        BY DEF DeleteType
      <3>2. del' = [del EXCEPT ![d] = new]
        BY <2>1
      <3>3. blob'[k] = "none"
        BY <2>1, DeleteOf DEF Remove
      <3> HIDE DEF new
      <3> QED
        BY <3>1, <3>2, <3>3
    <2>2. CASE del' = [del EXCEPT ![d] = [@ EXCEPT
                !.keys = del[d].keys \ {k}, !.failed = {k}, !.pc = "tombstone"]]
      <3> DEFINE new == [r EXCEPT !.keys = r.keys \ {k}, !.failed = {k}, !.pc = "tombstone"]
      <3>1. /\ new \in DeleteType
            /\ new.keys = r.keys \ {k} /\ new.found = r.found /\ new.targets = r.targets
            /\ new.kind = r.kind /\ new.counted = r.counted
            /\ new.failed = {k} /\ new.pc = "tombstone"
        BY DEF DeleteType
      <3>2. del' = [del EXCEPT ![d] = new]
        BY <2>2
      <3> HIDE DEF new
      <3> QED
        BY <3>1, <3>2
    <2> QED
      BY <2>1, <2>2 DEF DeleteBlob
  <1>3. PICK new \in DeleteType :
          /\ del' = [del EXCEPT ![d] = new]
          /\ new.keys = r.keys \ {k} /\ new.found = r.found /\ new.targets = r.targets
          /\ new.kind = r.kind /\ new.counted = r.counted
          /\ \/ new.failed = {} /\ new.pc = "blobs" /\ blob'[k] = "none"
             \/ new.failed = {k} /\ new.pc = "tombstone"
    BY <1>2
  <1>4. ASSUME Moves PROVE DeleteOK(new)'
    <2>1. DeleteOK(r)'
      BY <1>4, DeleteKept
    <2> QED
      BY <1>3, <2>1 DEF DeleteOK
  <1> QED
    BY <1>0, <1>1, <1>3, <1>4, DeleteOf, DeleteFrame

LEMMA TombstoneStep ==
  ASSUME BookInv, NEW d \in Deletes, Tombstone(d)
  PROVE  BookInv' /\ Moves
  <1> PICK r \in DeleteType : r = del[d] /\ DeleteOK(r) /\ r.pc = "tombstone"
    BY DeleteOf DEF Tombstone, DeleteAt
  <1> DEFINE new == [r EXCEPT !.failed = {}, !.pc = "blobs"]
  <1>1. /\ new \in DeleteType /\ new.pc = "blobs" /\ new.keys = r.keys
        /\ new.failed = {} /\ new.found = r.found /\ new.targets = r.targets
        /\ new.kind = r.kind /\ new.counted = r.counted
    BY DEF DeleteType
  <1>2. /\ del' = [del EXCEPT ![d] = new] /\ tombs' = tombs \cup r.failed
        /\ UNCHANGED <<user, project, moment, inline, owner, rows, blob, wr, cln, seen,
                       aborted>>
    BY DEF Tombstone, EnqueueBlobDelete, db, history
  <1> HIDE DEF new
  <1>3. r.failed \subseteq Keys /\ \A k \in r.failed : Settled(k[1])
    BY DEF DeleteType, DeleteOK
  <1>4. ASSUME Moves PROVE DeleteOK(new)'
    <2>1. DeleteOK(r)'
      BY <1>4, DeleteKept
    <2> QED
      BY <1>1, <1>2, <2>1 DEF DeleteOK
  <1> QED
    BY <1>1, <1>2, <1>3, <1>4, DeleteOf, DeleteFrame

\* The transaction: the rows go with their moments, and the media the delete had
\* found are accounted for.
LEMMA CommitDeleteStep ==
  ASSUME BookInv, NEW d \in Deletes, CommitDelete(d)
  PROVE  BookInv' /\ Moves
  <1> DEFINE kind == del[d].kind
             dead == CASE kind = "moment" -> del[d].targets
                       [] kind = "project" -> Held
                       [] OTHER -> Live
  <1>1. /\ del[d].pc = "blobs" /\ del[d].keys = {}
        /\ moment' = [m \in Moments |->
             IF m \in dead /\ moment[m] = "live" THEN "gone" ELSE moment[m]]
        /\ rows' = {x \in rows : owner[x] \notin dead}
        /\ inline' = inline \ dead
        /\ project' = (project /\ kind = "moment")
        /\ user' = IF kind = "account" THEN "gone" ELSE user
        /\ del' = [del EXCEPT ![d] = IdleDelete]
        /\ seen' = seen \cup {x \in del[d].found : owner[x] \notin Live \ dead}
        /\ aborted' = aborted \cup (IF project THEN {} ELSE del[d].targets \ dead)
        /\ UNCHANGED <<owner, blob, tombs, wr, cln>>
    BY DEF CommitDelete, DeleteAt
  <1>2. del[d] \in DeleteType /\ DeleteOK(del[d]) /\ del[d].failed = {}
    BY <1>1, DeleteOf DEF DeleteOK
  <1> HIDE DEF dead, kind
  <1>3. /\ del[d].found \subseteq Media /\ del[d].targets \subseteq Moments
        /\ \A x \in del[d].found : Settled(x)
        /\ \A k \in KeysOf(del[d].found) : blob[k] = "none" \/ k \in tombs
    BY <1>1, <1>2 DEF DeleteType, DeleteOK
  <1>4. \A x \in seen' : \/ x \in seen
                         \/ /\ Settled(x)
                            /\ \A k \in KeysOf({x}) : blob'[k] = "none" \/ k \in tombs'
    <2>1. \A x \in seen' : x \in seen \/ x \in del[d].found
      BY <1>1
    <2>2. \A x \in del[d].found : \A k \in KeysOf({x}) : k \in KeysOf(del[d].found)
      BY DEF KeysOf
    <2> QED
      BY <1>1, <1>3, <2>1, <2>2
  <1>5. /\ moment' \in [Moments -> {"none", "live", "gone"}]
        /\ rows' \subseteq rows
        /\ \A x \in rows' : moment'[owner[x]] = "live"
    BY <1>1, DeleteOf
  <1>6. /\ user' \in {"active", "locked", "gone"} /\ project' \in BOOLEAN
        /\ inline' \subseteq inline /\ aborted' \subseteq Moments /\ seen' \subseteq Media
    BY <1>1, <1>3, DeleteOf
  <1>7. \A k \in tombs' : k \in tombs
    BY <1>1
  <1> QED
    BY <1>1, <1>4, <1>5, <1>6, <1>7, DeleteOf, IdleDeleteOK, DeleteFrame

LEMMA AbortDeleteStep ==
  ASSUME BookInv, NEW d \in Deletes, AbortDelete(d)
  PROVE  BookInv' /\ Moves
  <1>1. /\ del' = [del EXCEPT ![d] = IdleDelete]
        /\ aborted' = aborted \cup del[d].targets
              \cup (IF del[d].kind = "account" /\ del[d].counted THEN Live ELSE {})
        /\ UNCHANGED <<user, project, moment, inline, owner, rows, blob, tombs, wr, cln, seen>>
    BY DEF AbortDelete, db
  <1>2. aborted' \subseteq Moments
    BY <1>1, DeleteOf DEF DeleteType, Live
  <1> QED
    BY <1>1, <1>2, DeleteOf, IdleDeleteOK, DeleteFrame

LEMMA EraseBooks ==
  ASSUME BookInv, NEW d \in Deletes, Erase(d)
  PROVE  BookInv' /\ Moves
  <1>1. CASE \/ \E m \in Moments : DeleteMoment(d, m)
             \/ DeleteProject(d) \/ DeleteAccount(d) \/ LockAccount(d)
    BY <1>1, StartsStep
  <1>2. ASSUME NEW k \in Keys, DeleteBlob(d, k) PROVE BookInv' /\ Moves
    BY <1>2, DeleteBlobStep
  <1>3. CASE \/ ReadTargets(d) \/ SelectKeys(d) \/ NoPipeline(d)
             \/ Tombstone(d) \/ CommitDelete(d) \/ AbortDelete(d)
    BY <1>3, ReadTargetsStep, SelectKeysStep, NoPipelineStep, TombstoneStep,
       CommitDeleteStep, AbortDeleteStep
  <1> QED
    BY <1>1, <1>2, <1>3 DEF Erase
-----------------------------------------------------------------------------
(* The cleanup, and time *)

LEMMA CleanerFrame ==
  ASSUME BookInv, NEW c \in Cleaners, NEW new \in CleanerType,
         cln' = [cln EXCEPT ![c] = new],
         UNCHANGED <<user, project, moment, inline, owner, rows, wr, del, seen, aborted>>,
         blob' \in [Keys -> {"none", "recent", "old"}],
         \A k \in Keys : blob'[k] = blob[k] \/ blob'[k] = "none",
         tombs' \subseteq tombs, \A k \in tombs : k \in tombs' \/ blob[k] = "none",
         DrainOK(new)'
  PROVE  BookInv' /\ Moves
  <1>0. TypeOK /\ cln \in [Cleaners -> CleanerType] /\ Books
    BY DEF BookInv, TypeOK
  <1>1. /\ cln' \in [Cleaners -> CleanerType] /\ cln'[c] = new
        /\ \A e \in Cleaners : e # c => cln'[e] = cln[e]
    BY <1>0
  <1>2. TypeOK'
    BY <1>0, <1>1 DEF TypeOK
  <1>3. /\ \A w \in Writers : WriterOK(w)'
        /\ \A x \in rows' : Settled(x)' /\ moment'[owner'[x]] = "live"
        /\ \A x \in Media : Settled(x)' <=> Settled(x)
    BY <1>0, WritersAlone DEF Books
  <1>4. Moves
    BY <1>0, <1>3 DEF Moves, TypeOK
  <1>5. \A e \in Cleaners : \/ cln'[e] = cln[e]
                            \/ \E r \in CleanerType : cln'[e] = r /\ DrainOK(r)'
    BY <1>1
  <1> QED
    BY <1>2, <1>3, <1>4, <1>5, BooksFrame

LEMMA CleanerOf ==
  ASSUME BookInv, NEW c \in Cleaners
  PROVE  /\ cln[c] \in CleanerType /\ DrainOK(cln[c])
         /\ blob \in [Keys -> {"none", "recent", "old"}]
         /\ tombs \subseteq Keys /\ \A k \in tombs : Settled(k[1])
         /\ rows \subseteq Media
  BY DEF BookInv, Books, TypeOK

LEMMA IdleCleanerOK ==
  /\ IdleCleaner \in CleanerType /\ IdleCleaner.pc = "idle"
  /\ IdleCleaner.queue = {} /\ IdleCleaner.dropping = {} /\ IdleCleaner.old = {}
  /\ IdleCleaner.keep = {} /\ IdleCleaner.doomed = {} /\ IdleCleaner.must = {}
  BY DEF IdleCleaner, CleanerType

\* What each step of a run does to its record.
CleanerRecord(c, new) == cln' = [cln EXCEPT ![c] = new]

Begins(r, new) ==
  /\ r.pc = "idle" /\ new.pc = "drain" /\ new.queue = tombs /\ new.dropping = {}
  /\ new.old = {k \in Keys : blob[k] = "old"} /\ new.must = new.old \ KeysOf(rows)
  /\ new.keep = {} /\ new.doomed = {}
SameScan(r, new) ==
  /\ new.old = r.old /\ new.keep = r.keep /\ new.doomed = r.doomed /\ new.must = r.must
Drained(r, new) ==
  /\ new.pc \in {"drain", "drop"} /\ SameScan(r, new)
  /\ new.queue \subseteq r.queue /\ new.dropping \subseteq r.queue \cup r.dropping
Kept(r, new, pc, keep, doomed) ==
  /\ new.pc = pc /\ new.queue = r.queue /\ new.dropping = r.dropping
  /\ new.old = r.old /\ new.keep = keep /\ new.doomed = doomed /\ new.must = r.must

LEMMA CleanStartFacts ==
  ASSUME BookInv, NEW c \in Cleaners, CleanStart(c)
  PROVE  \E new \in CleanerType :
           /\ CleanerRecord(c, new) /\ Begins(cln[c], new)
           /\ UNCHANGED <<user, project, moment, inline, owner, rows, blob, tombs, wr, del,
                          seen, aborted>>
  <1> PICK old \in SUBSET Keys : old = {k \in Keys : blob[k] = "old"}
    OBVIOUS
  <1> DEFINE new == [IdleCleaner EXCEPT !.pc = "drain", !.queue = tombs, !.old = old,
                                        !.must = old \ KeysOf(rows)]
  <1>1. /\ new \in CleanerType /\ new.pc = "drain" /\ new.queue = tombs
        /\ new.dropping = {} /\ new.old = old /\ new.must = old \ KeysOf(rows)
        /\ new.keep = {} /\ new.doomed = {}
    BY CleanerOf DEF IdleCleaner, CleanerType
  <1>2. CleanerRecord(c, new) /\ cln[c].pc = "idle"
    BY DEF CleanStart, CleanerAt, CleanerRecord
  <1>3. UNCHANGED <<user, project, moment, inline, owner, rows, blob, tombs, wr, del,
                    seen, aborted>>
    BY DEF CleanStart, db, history
  <1> HIDE DEF new
  <1> QED
    BY <1>1, <1>2, <1>3 DEF Begins

LEMMA DrainFacts ==
  ASSUME BookInv, NEW c \in Cleaners, DrainDrop(c) \/ \E k \in Keys : DrainDelete(c, k)
  PROVE  \E new \in CleanerType :
           /\ CleanerRecord(c, new) /\ cln[c].pc \in {"drain", "drop"}
           /\ Drained(cln[c], new) /\ \A k \in new.dropping : blob'[k] = "none"
           /\ UNCHANGED <<user, project, moment, inline, owner, rows, wr, del, seen, aborted>>
           /\ blob' \in [Keys -> {"none", "recent", "old"}]
           /\ \A k \in Keys : \/ blob'[k] = blob[k]
                              \/ blob'[k] = "none" /\ k \in cln[c].queue
           /\ tombs' \subseteq tombs /\ \A k \in tombs : k \in tombs' \/ blob[k] = "none"
  <1> PICK r \in CleanerType : r = cln[c] /\ DrainOK(r)
    BY CleanerOf
  <1>1. CASE DrainDrop(c)
    <2> DEFINE new == [r EXCEPT !.dropping = {}, !.pc = "drain"]
    <2>1. /\ new \in CleanerType /\ Drained(r, new) /\ new.dropping = {}
      BY DEF CleanerType, Drained, SameScan
    <2>2. /\ CleanerRecord(c, new) /\ r.pc = "drop" /\ tombs' = tombs \ r.dropping /\ blob' = blob
          /\ UNCHANGED <<user, project, moment, inline, owner, rows, wr, del, seen, aborted>>
      BY <1>1 DEF DrainDrop, CleanerAt, CleanerRecord, db, history
    <2> HIDE DEF new
    <2> QED
      BY <2>1, <2>2, CleanerOf DEF DrainOK
  <1>2. ASSUME NEW k \in Keys, DrainDelete(c, k)
        PROVE  \E new \in CleanerType :
           /\ CleanerRecord(c, new) /\ cln[c].pc \in {"drain", "drop"}
           /\ Drained(cln[c], new) /\ \A l \in new.dropping : blob'[l] = "none"
           /\ UNCHANGED <<user, project, moment, inline, owner, rows, wr, del, seen, aborted>>
           /\ blob' \in [Keys -> {"none", "recent", "old"}]
           /\ \A l \in Keys : \/ blob'[l] = blob[l]
                              \/ blob'[l] = "none" /\ l \in cln[c].queue
           /\ tombs' \subseteq tombs /\ \A l \in tombs : l \in tombs' \/ blob[l] = "none"
    <2>1. /\ r.pc = "drain" /\ k \in r.queue /\ tombs' = tombs
          /\ UNCHANGED <<user, project, moment, inline, owner, rows, wr, del, seen, aborted>>
          /\ blob' \in [Keys -> {"none", "recent", "old"}]
          /\ \A l \in Keys : \/ blob'[l] = blob[l]
                             \/ blob'[l] = "none" /\ l \in r.queue
      BY <1>2, CleanerOf DEF DrainDelete, CleanerAt, Remove, db, history
    <2>2. CASE /\ Remove(k)
               /\ cln' = [cln EXCEPT ![c] = [@ EXCEPT
                    !.queue = cln[c].queue \ {k}, !.dropping = {k}, !.pc = "drop"]]
      <3> DEFINE new == [r EXCEPT !.queue = r.queue \ {k}, !.dropping = {k}, !.pc = "drop"]
      <3>1. new \in CleanerType /\ Drained(r, new) /\ new.dropping = {k}
        BY <2>1 DEF CleanerType, Drained, SameScan
      <3>2. CleanerRecord(c, new) /\ blob'[k] = "none"
        BY <2>2, CleanerOf DEF Remove, CleanerRecord
      <3> HIDE DEF new
      <3> QED
        BY <2>1, <3>1, <3>2
    <2>3. CASE cln' = [cln EXCEPT ![c] = [@ EXCEPT !.queue = cln[c].queue \ {k}]]
      <3> DEFINE new == [r EXCEPT !.queue = r.queue \ {k}]
      <3>1. new \in CleanerType /\ new.pc = "drain" /\ SameScan(r, new)
            /\ new.queue \subseteq r.queue /\ new.dropping = r.dropping
        BY <2>1 DEF CleanerType, SameScan
      <3>2. CleanerRecord(c, new)
        BY <2>3 DEF CleanerRecord
      <3> HIDE DEF new
      <3>3. \A l \in r.dropping : l \in Keys /\ blob[l] = "none"
        BY DEF CleanerType, DrainOK
      <3> QED
        BY <2>1, <3>1, <3>2, <3>3 DEF Drained
    <2> QED
      BY <1>2, <2>2, <2>3 DEF DrainDelete
  <1> QED
    BY <1>1, <1>2

LEMMA ScanFacts ==
  ASSUME BookInv, NEW c \in Cleaners, ReadValid(c) \/ ReadQueued(c) \/ List(c)
  PROVE  \E new \in CleanerType :
           /\ CleanerRecord(c, new)
           /\ \/ /\ cln[c].pc = "drain"
                 /\ Kept(cln[c], new, "queued", KeysOf(rows), cln[c].doomed)
              \/ /\ cln[c].pc = "queued"
                 /\ Kept(cln[c], new, "list", cln[c].keep \cup tombs, cln[c].doomed)
              \/ /\ cln[c].pc = "list"
                 /\ Kept(cln[c], new, "sweep", cln[c].keep, Orphans(c))
           /\ UNCHANGED <<user, project, moment, inline, owner, rows, blob, tombs, wr, del,
                          seen, aborted>>
  <1> PICK r \in CleanerType : r = cln[c]
    BY CleanerOf
  <1>1. KeysOf(rows) \in SUBSET Keys /\ tombs \in SUBSET Keys /\ Orphans(c) \in SUBSET Keys
    BY CleanerOf DEF KeysOf, Orphans, Stored
  <1>2. CASE ReadValid(c)
    <2> PICK keep \in SUBSET Keys : keep = KeysOf(rows)
      BY <1>1
    <2> DEFINE new == [r EXCEPT !.keep = keep, !.pc = "queued"]
    <2>1. new \in CleanerType /\ Kept(r, new, "queued", keep, r.doomed)
      BY DEF CleanerType, Kept
    <2>2. CleanerRecord(c, new) /\ r.pc = "drain"
      BY <1>2 DEF ReadValid, CleanerAt, CleanerRecord
    <2>3. UNCHANGED <<user, project, moment, inline, owner, rows, blob, tombs, wr, del,
                      seen, aborted>>
      BY <1>2 DEF ReadValid, db, history
    <2> HIDE DEF new
    <2> QED
      BY <2>1, <2>2, <2>3
  <1>3. CASE ReadQueued(c)
    <2> PICK keep \in SUBSET Keys : keep = r.keep \cup tombs
      BY <1>1 DEF CleanerType
    <2> DEFINE new == [r EXCEPT !.keep = keep, !.pc = "list"]
    <2>1. new \in CleanerType /\ Kept(r, new, "list", keep, r.doomed)
      BY DEF CleanerType, Kept
    <2>2. CleanerRecord(c, new) /\ r.pc = "queued"
      BY <1>3 DEF ReadQueued, CleanerAt, CleanerRecord
    <2>3. UNCHANGED <<user, project, moment, inline, owner, rows, blob, tombs, wr, del,
                      seen, aborted>>
      BY <1>3 DEF ReadQueued, db, history
    <2> HIDE DEF new
    <2> QED
      BY <2>1, <2>2, <2>3
  <1>4. CASE List(c)
    <2> PICK doomed \in SUBSET Keys : doomed = Orphans(c)
      BY <1>1
    <2> DEFINE new == [r EXCEPT !.doomed = doomed, !.pc = "sweep"]
    <2>1. new \in CleanerType /\ Kept(r, new, "sweep", r.keep, doomed)
      BY DEF CleanerType, Kept
    <2>2. CleanerRecord(c, new) /\ r.pc = "list"
      BY <1>4 DEF List, CleanerAt, CleanerRecord
    <2>3. UNCHANGED <<user, project, moment, inline, owner, rows, blob, tombs, wr, del,
                      seen, aborted>>
      BY <1>4 DEF List, db, history
    <2> HIDE DEF new
    <2> QED
      BY <2>1, <2>2, <2>3
  <1> QED
    BY <1>2, <1>3, <1>4

LEMMA SweepFacts ==
  ASSUME BookInv, NEW c \in Cleaners, NEW k \in Keys, Sweep(c, k)
  PROVE  \E new \in CleanerType :
           /\ CleanerRecord(c, new) /\ cln[c].pc = "sweep" /\ k \in cln[c].doomed
           /\ Kept(cln[c], new, "sweep", cln[c].keep, cln[c].doomed \ {k})
           /\ UNCHANGED <<user, project, moment, inline, owner, rows, tombs, wr, del,
                          seen, aborted>>
           /\ blob' = [blob EXCEPT ![k] = "none"]
  <1> PICK r \in CleanerType : r = cln[c]
    BY CleanerOf
  <1> DEFINE new == [r EXCEPT !.doomed = r.doomed \ {k}]
  <1>1. new \in CleanerType /\ Kept(r, new, r.pc, r.keep, r.doomed \ {k})
    BY DEF CleanerType, Kept
  <1>2. CleanerRecord(c, new) /\ r.pc = "sweep" /\ k \in r.doomed
    BY DEF Sweep, CleanerAt, CleanerRecord
  <1>3. /\ UNCHANGED <<user, project, moment, inline, owner, rows, tombs, wr, del,
                       seen, aborted>>
        /\ blob' = [blob EXCEPT ![k] = "none"]
    BY DEF Sweep, Remove, db, history
  <1> HIDE DEF new
  <1> QED
    BY <1>1, <1>2, <1>3

LEMMA CleanerEndFacts ==
  ASSUME NEW c \in Cleaners, SweepEnds(c) \/ CleanerFails(c)
  PROVE  /\ CleanerRecord(c, IdleCleaner)
         /\ UNCHANGED <<user, project, moment, inline, owner, rows, blob, tombs, wr, del,
                        seen, aborted>>
  BY DEF SweepEnds, CleanerFails, CleanerEnds, CleanerRecord, db, history

LEMMA CleanBooks ==
  ASSUME BookInv, NEW c \in Cleaners, Clean(c)
  PROVE  BookInv' /\ Moves
  <1> PICK r \in CleanerType : r = cln[c] /\ DrainOK(r)
    BY CleanerOf
  <1>0. /\ blob \in [Keys -> {"none", "recent", "old"}] /\ tombs \subseteq Keys
        /\ \A k \in tombs : Settled(k[1])
    BY CleanerOf
  <1>1. CASE CleanStart(c)
    <2>1. PICK new \in CleanerType :
            /\ CleanerRecord(c, new) /\ Begins(r, new)
            /\ UNCHANGED <<user, project, moment, inline, owner, rows, blob, tombs, wr, del,
                           seen, aborted>>
      BY <1>1, CleanStartFacts
    <2>2. DrainOK(new)'
      BY <1>0, <2>1 DEF DrainOK, Begins, Settled
    <2> QED
      BY <1>0, <2>1, <2>2, CleanerFrame DEF CleanerRecord
  <1>2. CASE DrainDrop(c) \/ \E k \in Keys : DrainDelete(c, k)
    <2>1. PICK new \in CleanerType :
            /\ CleanerRecord(c, new)
            /\ Drained(r, new) /\ \A k \in new.dropping : blob'[k] = "none"
            /\ UNCHANGED <<user, project, moment, inline, owner, rows, wr, del, seen, aborted>>
            /\ blob' \in [Keys -> {"none", "recent", "old"}]
            /\ \A k \in Keys : blob'[k] = blob[k] \/ blob'[k] = "none"
            /\ tombs' \subseteq tombs /\ \A k \in tombs : k \in tombs' \/ blob[k] = "none"
      BY <1>2, DrainFacts
    <2>2. DrainOK(new)'
      BY <2>1 DEF DrainOK, Drained, Settled
    <2> QED
      BY <2>1, <2>2, CleanerFrame DEF CleanerRecord
  <1>3. ASSUME NEW new \in CleanerType, CleanerRecord(c, new),
               new.queue = r.queue, new.dropping = r.dropping,
               UNCHANGED <<user, project, moment, inline, owner, rows, tombs, wr, del,
                           seen, aborted>>,
               blob' \in [Keys -> {"none", "recent", "old"}],
               \A k \in Keys : blob'[k] = blob[k] \/ blob'[k] = "none"
        PROVE  BookInv' /\ Moves
    <2>1. \A k \in r.dropping : k \in Keys
      BY DEF CleanerType
    <2>2. DrainOK(new)'
      BY <1>3, <2>1 DEF DrainOK, Settled
    <2> QED
      BY <1>3, <2>2, CleanerFrame DEF CleanerRecord
  <1>4. CASE ReadValid(c) \/ ReadQueued(c) \/ List(c)
    BY <1>0, <1>3, <1>4, ScanFacts DEF Kept
  <1>5. ASSUME NEW k \in Keys, Sweep(c, k) PROVE BookInv' /\ Moves
    <2>1. PICK new \in CleanerType :
            /\ CleanerRecord(c, new) /\ new.queue = r.queue /\ new.dropping = r.dropping
            /\ UNCHANGED <<user, project, moment, inline, owner, rows, tombs, wr, del,
                           seen, aborted>>
            /\ blob' = [blob EXCEPT ![k] = "none"]
      BY <1>5, SweepFacts DEF Kept
    <2> QED
      BY <1>0, <1>3, <2>1
  <1>6. CASE SweepEnds(c) \/ CleanerFails(c)
    <2>1. DrainOK(IdleCleaner)'
      <3> PICK i \in CleanerType : i = IdleCleaner
        BY IdleCleanerOK
      <3>1. DrainOK(i)'
        BY IdleCleanerOK DEF DrainOK
      <3> QED
        BY <3>1
    <2> QED
      BY <1>0, <1>6, <2>1, CleanerEndFacts, IdleCleanerOK, CleanerFrame DEF CleanerRecord
  <1> QED
    BY <1>1, <1>2, <1>4, <1>5, <1>6 DEF Clean

LEMMA AgeBooks ==
  ASSUME BookInv, \E k \in Keys : Age(k)
  PROVE  /\ BookInv' /\ Moves
         /\ UNCHANGED <<user, project, moment, inline, owner, rows, tombs, wr, del, cln,
                        seen, aborted>>
         /\ \A k \in Keys : \/ blob'[k] = blob[k]
                            \/ /\ blob[k] = "recent" /\ blob'[k] = "old"
                               /\ k[1] \in Unrecorded => "slow_writer" \in Faults
  <1> PICK k \in Keys : Age(k)
    OBVIOUS
  <1>0. BookInv /\ TypeOK /\ Books
    BY DEF BookInv
  <1>1. /\ UNCHANGED <<user, project, moment, inline, owner, rows, tombs, wr, del, cln,
                       seen, aborted>>
        /\ blob[k] = "recent" /\ blob' = [blob EXCEPT ![k] = "old"]
        /\ k[1] \in Unrecorded => "slow_writer" \in Faults
    BY DEF Age, db, history
  <1>2. /\ blob' \in [Keys -> {"none", "recent", "old"}]
        /\ \A l \in Keys : blob'[l] = blob[l] \/ (l = k /\ blob'[l] = "old")
    BY <1>0, <1>1 DEF TypeOK
  <1>3. TypeOK'
    BY <1>0, <1>1, <1>2 DEF TypeOK
  <1>4. /\ \A w \in Writers : WriterOK(w)'
        /\ \A x \in rows' : Settled(x)' /\ moment'[owner'[x]] = "live"
        /\ \A x \in Media : Settled(x)' <=> Settled(x)
    BY <1>0, <1>1, WritersAlone DEF Books
  <1>5. Moves
    BY <1>1, <1>2, <1>4 DEF Moves
  <1>6. BookInv'
    BY <1>0, <1>1, <1>3, <1>4, <1>5, BooksFrame
  <1> QED
    BY <1>1, <1>2, <1>5, <1>6

LEMMA UnlinkBooks ==
  ASSUME BookInv, UnlinkProject
  PROVE  BookInv' /\ Moves
  <1>0. BookInv /\ TypeOK /\ Books
    BY DEF BookInv
  <1>1. /\ UNCHANGED <<user, moment, inline, owner, rows, blob, tombs, wr, del, cln,
                       seen, aborted>>
        /\ project' = FALSE
    BY DEF UnlinkProject, history
  <1>2. TypeOK'
    BY <1>0, <1>1 DEF TypeOK
  <1>3. /\ \A w \in Writers : WriterOK(w)'
        /\ \A x \in rows' : Settled(x)' /\ moment'[owner'[x]] = "live"
        /\ \A x \in Media : Settled(x)' <=> Settled(x)
    BY <1>0, <1>1, WritersAlone DEF Books
  <1>4. Moves
    BY <1>1, <1>3 DEF Moves
  <1> QED
    BY <1>0, <1>1, <1>2, <1>3, <1>4, BooksFrame
-----------------------------------------------------------------------------
(* The books are kept *)

LEMMA InitBooks == Init => BookInv
  <1> SUFFICES ASSUME Init PROVE BookInv
    OBVIOUS
  <1>1. TypeOK
    <2>1. IdleWriter \in WriterType
      BY DEF IdleWriter, WriterType
    <2>2. Legacy \subseteq Moments
      BY ConstantsOK
    <2> QED
      BY <2>1, <2>2, IdleDeleteOK, IdleCleanerOK DEF Init, TypeOK
  <1>2. \A w \in Writers : WriterOK(w)
    BY DEF Init, WriterOK, IdleWriter
  <1>3. \A d \in Deletes : DeleteOK(del[d])
    BY IdleDeleteOK DEF Init, DeleteOK
  <1>4. \A c \in Cleaners : DrainOK(cln[c])
    BY IdleCleanerOK DEF Init, DrainOK
  <1> QED
    BY <1>1, <1>2, <1>3, <1>4 DEF Init, BookInv, Books, KeysOf

LEMMA StepBooks ==
  ASSUME BookInv, Next
  PROVE  BookInv' /\ Moves
  BY WriteBooks, EraseBooks, CleanBooks, AgeBooks, UnlinkBooks DEF Next

LEMMA StutterBooks ==
  ASSUME BookInv, UNCHANGED vars
  PROVE  BookInv'
  <1>0. TypeOK /\ Books
    BY DEF BookInv
  <1>1. TypeOK'
    BY <1>0 DEF TypeOK, vars
  <1>2. /\ \A w \in Writers : WriterOK(w)'
        /\ \A x \in rows' : Settled(x)' /\ moment'[owner'[x]] = "live"
        /\ \A x \in Media : Settled(x)' <=> Settled(x)
    BY <1>0, WritersAlone DEF Books, vars
  <1>3. Moves
    BY <1>2 DEF Moves, vars
  <1> QED
    BY <1>1, <1>2, <1>3, BooksFrame DEF vars

\* The books of the media: whatever fails, crashes, overlaps or runs slowly.
THEOREM BooksKept == Spec => []BookInv
  <1>1. BookInv /\ [Next]_vars => BookInv'
    BY StepBooks, StutterBooks
  <1> QED
    BY <1>1, InitBooks, PTL DEF Spec

\* Once a delete that had selected a medium removes its row, each of its blobs is
\* out of the store or has a tombstone, and a tombstone goes only after its blob has
\* (deleteForMoments, enqueueBlobDelete, the drain of media:cleanup).
THEOREM NothingLeaks == Spec => []DeletedIsTracked
  <1>1. BookInv => DeletedIsTracked
    BY DEF BookInv, Books, DeletedIsTracked, Stored, KeysOf
  <1> QED
    BY <1>1, BooksKept, PTL
-----------------------------------------------------------------------------
(* What the sweep spares, and who answers for a lost key *)

\* No blob of a capture grows older than min-age before its row exists.
Prompt == "slow_writer" \notin Faults

LEMMA InPlaceFrame ==
  ASSUME BookInv, InPlace, BookInv', Moves,
         \A k \in Keys : blob'[k] # "none" => blob[k] # "none" \/ owner'[k[1]] # None,
         \A x \in Media : owner[x] # None => owner'[x] # None,
         \A k \in Keys : blob'[k] = "old" => blob[k] = "old" \/ Settled(k[1]),
         \A c \in Cleaners : \/ cln'[c] = cln[c]
                             \/ \E r \in CleanerType : cln'[c] = r /\ SweepOK(r)',
         \A w \in Writers : wr'[w].medium # None =>
           /\ blob'[<<wr'[w].medium, "full">>] # "none"
           /\ wr'[w].pc = "row" /\ wr'[w].medium \in Thumbs =>
                blob'[<<wr'[w].medium, "thumb">>] # "none"
  PROVE  InPlace'
  <1>1. \A k \in Keys : blob'[k] # "none" => owner'[k[1]] # None
    BY KeyFacts DEF InPlace
  <1>2. \A k \in Keys : blob'[k] = "old" => Settled(k[1])'
    BY KeyFacts DEF InPlace, Moves
  <1>3. ASSUME NEW c \in Cleaners PROVE SweepOK(cln[c])'
    <2>1. \E r \in CleanerType : cln'[c] = r /\ SweepOK(r)'
      <3>1. CASE cln'[c] = cln[c]
        <4>1. PICK r \in CleanerType : r = cln[c] /\ SweepOK(r)
          BY CleanerOf DEF InPlace
        <4>2. SweepOK(r)'
          BY <4>1, SweepKept
        <4> QED
          BY <3>1, <4>1, <4>2
      <3> QED
        BY <3>1
    <2>2. PICK r \in CleanerType : cln'[c] = r /\ SweepOK(r)'
      BY <2>1
    <2> QED
      BY <2>2 DEF SweepOK
  <1>4. Keys' = Keys
    BY DEF Keys
  <1> QED
    BY <1>1, <1>2, <1>3, <1>4 DEF InPlace

\* A writer's blobs stay where nothing is removed but of settled media.
LEMMA WritersKeep ==
  ASSUME BookInv, InPlace, NEW w \in Writers, wr'[w] = wr[w], wr[w].medium # None,
         \A k \in Keys : Settled(k[1]) \/ blob'[k] = blob[k] \/ blob'[k] # "none"
  PROVE  /\ blob'[<<wr'[w].medium, "full">>] # "none"
         /\ wr'[w].pc = "row" /\ wr'[w].medium \in Thumbs =>
              blob'[<<wr'[w].medium, "thumb">>] # "none"
  <1> PICK x \in Media : x = wr[w].medium
    BY DEF BookInv, TypeOK, WriterType
  <1>1. ~Settled(x)
    BY DEF Settled
  <1>2. /\ <<x, "full">> \in Keys /\ <<x, "full">>[1] = x
        /\ x \in Thumbs => <<x, "thumb">> \in Keys /\ <<x, "thumb">>[1] = x
    BY KeyFacts
  <1>3. /\ blob[<<x, "full">>] # "none"
        /\ wr[w].pc = "row" /\ x \in Thumbs => blob[<<x, "thumb">>] # "none"
    BY DEF InPlace
  <1> QED
    BY <1>1, <1>2, <1>3

LEMMA AnswersFrame ==
  ASSUME BookInv, Answers,
         \A k \in Keys : k[1] \in rows' /\ Given(k)' =>
           (k[1] \in rows /\ Given(k)) \/ Answered(owner[k[1]]),
         \A x \in rows' : owner'[x] = owner[x] /\ owner[x] \in Moments,
         \A m \in Moments : Answered(m) /\ (\E x \in rows' : owner[x] = m) => Answered(m)'
  PROVE  Answers'
  <1>1. SUFFICES ASSUME NEW k \in Keys, k[1] \in rows', Given(k)'
                 PROVE  Answered(owner[k[1]])'
    BY DEF Answers, Keys
  <1>2. PICK m \in Moments : m = owner[k[1]] /\ m = owner'[k[1]]
    BY <1>1
  <1>3. Answered(m)
    BY <1>1, <1>2 DEF Answers
  <1>4. Answered(m)'
    BY <1>1, <1>2, <1>3
  <1> QED
    BY <1>2, <1>4 DEF Answered

LEMMA RowOwners ==
  ASSUME BookInv
  PROVE  \A x \in rows : /\ x \in Media /\ Settled(x) /\ owner[x] \in Moments
                         /\ moment[owner[x]] = "live"
  BY DEF BookInv, TypeOK, Books, Settled

\* Where the deletions and the cleanup are at rest no key is lost that was not.
LEMMA DeletesAlone ==
  ASSUME BookInv, Answers, UNCHANGED <<del, aborted>>, rows' \subseteq rows,
         \A x \in rows : owner'[x] = owner[x],
         \A k \in Keys : k[1] \in rows' /\ Given(k)' => Given(k)
  PROVE  Answers'
  <1>1. \A m \in Moments : Answered(m) => Answered(m)'
    BY DEF Answered, Works
  <1> QED
    BY <1>1, RowOwners, AnswersFrame

\* What a writer's step does to the store and to the books of the others.
LEMMA WriteFacts ==
  ASSUME BookInv, InPlace, NEW w \in Writers, Write(w)
  PROVE  /\ UNCHANGED <<tombs, del, cln, aborted>>
         /\ \A v \in Writers : v # w => wr'[v] = wr[v]
         /\ \A x \in Media : owner[x] # None => owner'[x] = owner[x]
         /\ \A k \in Keys : \/ blob'[k] = blob[k]
                            \/ blob'[k] = "recent" /\ owner'[k[1]] # None
         /\ wr'[w].medium # None =>
              /\ blob'[<<wr'[w].medium, "full">>] # "none"
              /\ wr'[w].pc = "row" /\ wr'[w].medium \in Thumbs =>
                   blob'[<<wr'[w].medium, "thumb">>] # "none"
         /\ \/ rows' = rows
            \/ /\ wr[w].pc = "row" /\ wr[w].medium # None
               /\ rows' = rows \cup {wr[w].medium} /\ UNCHANGED <<owner, blob>>
  <1>0. /\ wr \in [Writers -> WriterType] /\ owner \in [Media -> Moments \cup {None}]
        /\ blob \in [Keys -> {"none", "recent", "old"}] /\ WriterOK(w) /\ wr[w] \in WriterType
    BY DEF BookInv, Books, TypeOK
  <1>1. IdleWriter.medium = None
    BY DEF IdleWriter
  <1>2. ASSUME NEW new, WriterRecord(w, new), new.medium = None, owner' = owner, rows' = rows,
               UNCHANGED <<tombs, del, cln, aborted>>, blob' = blob
        PROVE  /\ UNCHANGED <<tombs, del, cln, aborted>>
               /\ \A v \in Writers : v # w => wr'[v] = wr[v]
               /\ \A x \in Media : owner[x] # None => owner'[x] = owner[x]
               /\ \A k \in Keys : \/ blob'[k] = blob[k]
                                  \/ blob'[k] = "recent" /\ owner'[k[1]] # None
               /\ wr'[w].medium = None /\ rows' = rows
    BY <1>0, <1>2 DEF WriterRecord
  <1>3. CASE CaptureStart(w)
    <2> DEFINE new == [wr[w] EXCEPT !.pc = "moment"]
    <2>1. new.medium = None
      BY <1>0, <1>3 DEF WriterType, CaptureStart, WriterAt, WriterOK
    <2>2. /\ WriterRecord(w, new) /\ owner' = owner /\ rows' = rows /\ blob' = blob
          /\ UNCHANGED <<tombs, del, cln, aborted>>
      BY <1>3 DEF CaptureStart, WriterTo, WriterRecord, history
    <2> HIDE DEF new
    <2> QED
      BY <1>2, <2>1, <2>2
  <1>4. CASE Quarantine(w)
    <2> DEFINE new == [wr[w] EXCEPT !.pc = "strip"]
    <2>1. new.medium = None
      BY <1>0, <1>4 DEF WriterType, Quarantine, WriterAt, WriterOK
    <2>2. /\ WriterRecord(w, new) /\ owner' = owner /\ rows' = rows /\ blob' = blob
          /\ UNCHANGED <<tombs, del, cln, aborted>>
      BY <1>4 DEF Quarantine, WriterTo, WriterRecord, history
    <2> HIDE DEF new
    <2> QED
      BY <1>2, <2>1, <2>2
  <1>5. CASE StripPayload(w) \/ CaptureEnds(w)
    <2>1. /\ WriterRecord(w, IdleWriter) /\ owner' = owner /\ rows' = rows /\ blob' = blob
          /\ UNCHANGED <<tombs, del, cln, aborted>>
      BY <1>5 DEF StripPayload, CaptureEnds, WriterEnds, WriterRecord, history
    <2> QED
      BY <1>1, <1>2, <2>1
  <1>6. ASSUME NEW m \in Moments, InsertMoment(w, m)
        PROVE  \E new : /\ WriterRecord(w, new) /\ new.medium = None /\ owner' = owner
                        /\ rows' = rows /\ UNCHANGED <<tombs, del, cln, aborted>>
                        /\ blob' = blob
    <2> DEFINE new == [wr[w] EXCEPT !.pc = "images", !.moment = m]
    <2>1. new.medium = None
      BY <1>0, <1>6 DEF WriterType, InsertMoment, WriterAt, WriterOK
    <2>2. /\ WriterRecord(w, new) \/ WriterRecord(w, IdleWriter)
          /\ owner' = owner /\ rows' = rows /\ blob' = blob
          /\ UNCHANGED <<tombs, del, cln, aborted>>
      BY <1>6 DEF InsertMoment, WriterEnds, WriterRecord, history
    <2> HIDE DEF new
    <2> QED
      BY <1>1, <2>1, <2>2
  <1>7. ASSUME NEW m \in Moments, BackfillStart(w, m)
        PROVE  \E new : /\ WriterRecord(w, new) /\ new.medium = None /\ owner' = owner
                        /\ rows' = rows /\ UNCHANGED <<tombs, del, cln, aborted>>
                        /\ blob' = blob
    <2> DEFINE new == [pc |-> "images", moment |-> m, medium |-> None, backfill |-> TRUE]
    <2>1. new.medium = None
      OBVIOUS
    <2>2. /\ WriterRecord(w, new) /\ owner' = owner /\ rows' = rows /\ blob' = blob
          /\ UNCHANGED <<tombs, del, cln, aborted>>
      BY <1>7 DEF BackfillStart, WriterRecord, history
    <2> HIDE DEF new
    <2> QED
      BY <2>1, <2>2
  <1>8. CASE WriterFails(w)
    <2>1. /\ wr' = [wr EXCEPT ![w] = IdleWriter] /\ owner' = owner /\ rows' = rows
          /\ UNCHANGED <<tombs, del, cln, aborted>>
          /\ blob' = blob \/ (wr[w].pc = "thumb" /\
                              blob' = [blob EXCEPT ![<<wr[w].medium, "thumb">>] = "recent"])
      BY <1>8 DEF WriterFails, WriterEnds, WriterAt, history
    <2>2. wr[w].pc = "thumb" => wr[w].medium # None /\ owner[wr[w].medium] # None
      BY <1>0, ConstantsOK DEF WriterOK
    <2>3. \A k \in Keys : \/ blob'[k] = blob[k]
                          \/ blob'[k] = "recent" /\ owner'[k[1]] # None
      BY <1>0, <2>1, <2>2
    <2> QED
      BY <1>0, <1>1, <2>1, <2>3
  <1>9. CASE StoreThumb(w)
    <2> PICK x \in Thumbs : x = wr[w].medium /\ x # None
      BY <1>0, <1>9 DEF StoreThumb, WriterAt, WriterOK
    <2>1. /\ wr' = [wr EXCEPT ![w].pc = "row"] /\ owner' = owner /\ rows' = rows
          /\ blob' = [blob EXCEPT ![<<x, "thumb">>] = "recent"]
          /\ UNCHANGED <<tombs, del, cln, aborted>>
      BY <1>9 DEF StoreThumb, WriterTo, history
    <2>2. x \in Media /\ <<x, "full">> \in Keys /\ <<x, "thumb">> \in Keys
          /\ owner[x] # None /\ blob[<<x, "full">>] # "none"
      BY <1>0, <1>9, KeyFacts, ConstantsOK DEF InPlace, StoreThumb, WriterAt, WriterOK
    <2>3. /\ wr'[w].medium = x /\ \A v \in Writers : v # w => wr'[v] = wr[v]
      BY <1>0, <2>1 DEF WriterType
    <2>4. /\ blob'[<<x, "full">>] # "none" /\ blob'[<<x, "thumb">>] = "recent"
          /\ \A k \in Keys : \/ blob'[k] = blob[k]
                             \/ blob'[k] = "recent" /\ owner'[k[1]] # None
      BY <1>0, <2>1, <2>2
    <2> QED
      BY <2>1, <2>3, <2>4
  <1>10. ASSUME NEW x \in Media, StoreImage(w, x)
         PROVE  /\ UNCHANGED <<tombs, del, cln, aborted>> /\ rows' = rows
                /\ \A v \in Writers : v # w => wr'[v] = wr[v]
                /\ \A y \in Media : owner[y] # None => owner'[y] = owner[y]
                /\ \A k \in Keys : \/ blob'[k] = blob[k]
                                   \/ blob'[k] = "recent" /\ owner'[k[1]] # None
                /\ wr'[w].medium = x /\ blob'[<<x, "full">>] # "none"
                /\ wr'[w].pc = "row" => x \notin Thumbs
    <2>1. /\ wr' = [wr EXCEPT ![w] = [@ EXCEPT
                     !.medium = x, !.pc = IF x \in Thumbs THEN "thumb" ELSE "row"]]
          /\ owner[x] = None /\ owner' = [owner EXCEPT ![x] = wr[w].moment] /\ rows' = rows
          /\ blob' = [blob EXCEPT ![<<x, "full">>] = "recent"] /\ wr[w].pc = "images"
          /\ UNCHANGED <<tombs, del, cln, aborted>>
      BY <1>10 DEF StoreImage, WriterAt, history
    <2>2. wr[w].moment # None /\ <<x, "full">> \in Keys
      BY <1>0, <2>1, KeyFacts, ConstantsOK DEF WriterOK
    <2>3. /\ wr'[w].medium = x /\ wr'[w].pc = IF x \in Thumbs THEN "thumb" ELSE "row"
          /\ \A v \in Writers : v # w => wr'[v] = wr[v]
      BY <1>0, <2>1 DEF WriterType
    <2>4. /\ owner'[x] # None /\ \A y \in Media : owner[y] # None => owner'[y] = owner[y]
      BY <1>0, <2>1, <2>2
    <2>5. /\ blob'[<<x, "full">>] # "none"
          /\ \A k \in Keys : \/ blob'[k] = blob[k]
                             \/ blob'[k] = "recent" /\ owner'[k[1]] # None
      BY <1>0, <2>1, <2>2, <2>4
    <2> QED
      BY <2>1, <2>3, <2>4, <2>5
  <1>11. CASE InsertRow(w) /\ rows' = rows
    <2>1. wr[w].medium \notin rows
      BY <1>0, <1>11 DEF InsertRow, WriterAt, WriterOK
    <2>2. /\ WriterRecord(w, IdleWriter) /\ owner' = owner /\ rows' = rows /\ blob' = blob
          /\ UNCHANGED <<tombs, del, cln, aborted>>
      BY <1>11, <2>1 DEF InsertRow, WriterEnds, WriterRecord, history
    <2> QED
      BY <1>1, <1>2, <2>2
  <1>12. CASE InsertRow(w) /\ rows' # rows
    <2>1. /\ UNCHANGED <<owner, blob, tombs, del, cln, aborted>>
      BY <1>12 DEF InsertRow, history
    <2> QED
      BY <1>12, <2>1, RowStep
  <1>13. ASSUME NEW m \in Moments, InsertMoment(w, m)
         PROVE  /\ UNCHANGED <<tombs, del, cln, aborted>> /\ rows' = rows
                /\ wr'[w].medium = None /\ \A v \in Writers : v # w => wr'[v] = wr[v]
                /\ \A x \in Media : owner[x] # None => owner'[x] = owner[x]
                /\ \A k \in Keys : \/ blob'[k] = blob[k]
                                   \/ blob'[k] = "recent" /\ owner'[k[1]] # None
    <2> PICK new : /\ WriterRecord(w, new) /\ new.medium = None /\ owner' = owner
                   /\ rows' = rows /\ UNCHANGED <<tombs, del, cln, aborted>>
                   /\ blob' = blob
      BY <1>6, <1>13
    <2> QED
      BY <1>2
  <1>19. ASSUME NEW m \in Moments, BackfillStart(w, m)
         PROVE  /\ UNCHANGED <<tombs, del, cln, aborted>> /\ rows' = rows
                /\ wr'[w].medium = None /\ \A v \in Writers : v # w => wr'[v] = wr[v]
                /\ \A x \in Media : owner[x] # None => owner'[x] = owner[x]
                /\ \A k \in Keys : \/ blob'[k] = blob[k]
                                   \/ blob'[k] = "recent" /\ owner'[k[1]] # None
    <2> PICK new : /\ WriterRecord(w, new) /\ new.medium = None /\ owner' = owner
                   /\ rows' = rows /\ UNCHANGED <<tombs, del, cln, aborted>>
                   /\ blob' = blob
      BY <1>7, <1>19
    <2> QED
      BY <1>2
  <1>14. CASE CaptureStart(w) \/ Quarantine(w) \/ StripPayload(w) \/ CaptureEnds(w)
    BY <1>3, <1>4, <1>5, <1>14
  <1>15. CASE InsertRow(w)
    BY <1>11, <1>12, <1>15
  <1>16. CASE \E x \in Media : StoreImage(w, x)
    <2> PICK x \in Media : StoreImage(w, x)
      BY <1>16
    <2> QED
      BY <1>10
  <1>17. CASE \E m \in Moments : InsertMoment(w, m)
    <2> PICK m \in Moments : InsertMoment(w, m)
      BY <1>17
    <2> QED
      BY <1>13
  <1>20. CASE \E m \in Moments : BackfillStart(w, m)
    <2> PICK m \in Moments : BackfillStart(w, m)
      BY <1>20
    <2> QED
      BY <1>19
  <1>18. \/ CaptureStart(w) \/ Quarantine(w) \/ StripPayload(w) \/ CaptureEnds(w)
         \/ \E m \in Moments : InsertMoment(w, m)
         \/ \E m \in Moments : BackfillStart(w, m)
         \/ \E x \in Media : StoreImage(w, x)
         \/ StoreThumb(w) \/ InsertRow(w) \/ WriterFails(w)
    BY DEF Write
  <1> QED
    BY <1>8, <1>9, <1>14, <1>15, <1>16, <1>17, <1>18, <1>20

LEMMA WriteSafe ==
  ASSUME SafeInv, NEW w \in Writers, Write(w)
  PROVE  InPlace' /\ Answers'
  <1>0. BookInv /\ InPlace /\ Answers
    BY DEF SafeInv
  <1>1. BookInv' /\ Moves
    BY <1>0, WriteBooks
  <1>2. /\ tombs' = tombs /\ del' = del /\ cln' = cln /\ aborted' = aborted
        /\ \A v \in Writers : v # w => wr'[v] = wr[v]
        /\ \A x \in Media : owner[x] # None => owner'[x] = owner[x]
        /\ \A k \in Keys : \/ blob'[k] = blob[k]
                           \/ blob'[k] = "recent" /\ owner'[k[1]] # None
    BY <1>0, WriteFacts
  <1>3. InPlace'
    <2>1. ASSUME NEW v \in Writers, wr'[v].medium # None
          PROVE  /\ blob'[<<wr'[v].medium, "full">>] # "none"
                 /\ wr'[v].pc = "row" /\ wr'[v].medium \in Thumbs =>
                      blob'[<<wr'[v].medium, "thumb">>] # "none"
      <3>1. CASE v = w
        BY <1>0, <2>1, <3>1, WriteFacts
      <3>2. CASE v # w
        <4>1. wr'[v] = wr[v] /\ wr[v].medium # None
          BY <1>2, <2>1, <3>2
        <4> QED
          BY <1>0, <1>2, <4>1, WritersKeep
      <3> QED
        BY <3>1, <3>2
    <2> QED
      BY <1>0, <1>1, <1>2, <2>1, InPlaceFrame
  <1>4. \A k \in Keys : Given(k)' => Given(k)
    BY <1>2 DEF Given
  <1>5. \A m \in Moments : Answered(m) => Answered(m)'
    BY <1>2 DEF Answered, Works
  <1>6. CASE rows' = rows
    <2>1. \A x \in rows' : owner'[x] = owner[x] /\ owner[x] \in Moments
      BY <1>0, <1>2, <1>6, RowOwners DEF Settled
    <2> QED
      BY <1>0, <1>3, <1>4, <1>5, <1>6, <2>1, AnswersFrame
  <1>7. CASE /\ wr[w].pc = "row" /\ wr[w].medium # None
             /\ rows' = rows \cup {wr[w].medium} /\ UNCHANGED <<owner, blob>>
    <2> PICK x \in Media : x = wr[w].medium /\ x # None
      BY <1>0, <1>7 DEF BookInv, TypeOK, WriterType
    <2>1. ~Settled(x)
      BY DEF Settled
    <2>2. owner[x] \in Moments
      <3>1. WriterOK(w)
        BY <1>0 DEF BookInv, Books
      <3> QED
        BY <1>7, <3>1 DEF WriterOK
    <2>3. ASSUME NEW k \in Keys, k[1] = x PROVE ~Given(k)'
      <3>1. blob[k] # "none"
        <4>1. k = <<x, "full">> \/ (x \in Thumbs /\ k = <<x, "thumb">>)
          BY <2>3, KeyFacts
        <4>2. /\ blob[<<x, "full">>] # "none"
              /\ x \in Thumbs => blob[<<x, "thumb">>] # "none"
          BY <1>0, <1>7 DEF InPlace
        <4> QED
          BY <4>1, <4>2
      <3>2. k \notin tombs
        BY <1>0, <2>1, <2>3 DEF BookInv, Books
      <3>3. \A c \in Cleaners : k \notin cln[c].queue \cup cln[c].dropping
        BY <1>0, <2>1, <2>3 DEF BookInv, Books, DrainOK
      <3> QED
        BY <1>2, <1>7, <3>1, <3>2, <3>3 DEF Given
    <2>4. \A k \in Keys : k[1] \in rows' /\ Given(k)' => k[1] \in rows /\ Given(k)
      BY <1>4, <1>7, <2>3
    <2>5. \A y \in rows' : owner'[y] = owner[y] /\ owner[y] \in Moments
      BY <1>0, <1>7, <2>2, RowOwners
    <2> QED
      BY <1>0, <1>3, <1>5, <2>4, <2>5, AnswersFrame
  <1> QED
    BY <1>0, <1>6, <1>7, WriteFacts

\* What a step of a delete does: it removes only keys it selected, it tombstones
\* only those and an account's, and it leaves its work behind only with the rows, or
\* with a moment that was left standing.
EraseEffect(d) ==
  /\ UNCHANGED <<wr, owner, cln>> /\ rows' \subseteq rows /\ aborted \subseteq aborted'
  /\ \A k \in Keys : blob'[k] = blob[k] \/ (blob'[k] = "none" /\ k \in del[d].keys)
  /\ \A k \in tombs' : \/ k \in tombs \cup del[d].failed
                       \/ /\ del[d].kind = "account" /\ del[d].counted
                          /\ del[d].pc # "idle"
  /\ \A e \in Deletes : e # d => del'[e] = del[e]
  /\ \A m \in Moments : Works(del[d], m) =>
       Works(del'[d], m) \/ m \in aborted' \/ \A x \in rows' : owner[x] # m

\* The steps in the middle of a delete.
LEMMA WorkGoesOn ==
  ASSUME BookInv, NEW d \in Deletes, NEW new, del' = [del EXCEPT ![d] = new],
         del[d].pc = "idle" \/
           (/\ new.pc # "idle" /\ new.kind = del[d].kind /\ new.counted = del[d].counted
            /\ del[d].targets \subseteq new.targets),
         UNCHANGED <<wr, owner, cln, rows, aborted>>,
         \A k \in Keys : blob'[k] = blob[k] \/ (blob'[k] = "none" /\ k \in del[d].keys),
         \A k \in tombs' : \/ k \in tombs \cup del[d].failed
                           \/ /\ del[d].kind = "account" /\ del[d].counted
                              /\ del[d].pc # "idle"
  PROVE  EraseEffect(d)
  <1>1. del \in [Deletes -> DeleteType]
    BY DEF BookInv, TypeOK
  <1>2. del'[d] = new /\ \A e \in Deletes : e # d => del'[e] = del[e]
    BY <1>1
  <1>3. \A m \in Moments : Works(del[d], m) => Works(del'[d], m)
    BY <1>2 DEF Works
  <1> QED
    BY <1>2, <1>3 DEF EraseEffect

LEMMA EraseEffects ==
  ASSUME BookInv, NEW d \in Deletes, Erase(d)
  PROVE  EraseEffect(d)
  <1> PICK r \in DeleteType : r = del[d] /\ DeleteOK(r)
    BY DeleteOf
  <1>0. /\ blob \in [Keys -> {"none", "recent", "old"}] /\ del \in [Deletes -> DeleteType]
        /\ r.keys \subseteq Keys /\ r.targets \subseteq Moments
    BY DEF BookInv, TypeOK, DeleteType
  <1>1. ASSUME NEW to, NEW kind, NEW targets, Starts(d, to, kind, targets)
        PROVE  EraseEffect(d)
    <2> DEFINE new == [IdleDelete EXCEPT !.pc = to, !.kind = kind, !.targets = targets,
                                         !.counted = (rows # {})]
    <2>1. /\ del' = [del EXCEPT ![d] = new] /\ del[d].pc = "idle"
          /\ UNCHANGED <<wr, owner, cln, rows, aborted, blob, tombs>>
      BY <1>1 DEF Starts, DeleteAt, history
    <2> HIDE DEF new
    <2> QED
      BY <2>1, WorkGoesOn
  <1>2. ASSUME NEW m \in Moments, DeleteMoment(d, m) PROVE EraseEffect(d)
    BY <1>1, <1>2 DEF DeleteMoment
  <1>3. CASE DeleteProject(d) \/ DeleteAccount(d)
    BY <1>1, <1>3 DEF DeleteProject, DeleteAccount
  <1>4. CASE LockAccount(d)
    <2> DEFINE new == [r EXCEPT !.pc = "ids"]
    <2>1. new.pc # "idle" /\ new.kind = r.kind /\ new.counted = r.counted
          /\ new.targets = r.targets
      BY DEF DeleteType
    <2>2. /\ del' = [del EXCEPT ![d] = new]
          /\ UNCHANGED <<wr, owner, cln, rows, aborted, blob, tombs>>
      BY <1>4 DEF LockAccount, history
    <2> HIDE DEF new
    <2> QED
      BY <2>1, <2>2, WorkGoesOn
  <1>5. CASE ReadTargets(d)
    <2> PICK t : t = Targets(d)
      OBVIOUS
    <2> DEFINE new == [r EXCEPT !.pc = "select", !.targets = t]
    <2>1. /\ new.pc # "idle" /\ new.kind = r.kind /\ new.counted = r.counted
          /\ r.targets = {}
      BY <1>5 DEF DeleteType, DeleteOK, ReadTargets, DeleteAt
    <2>2. /\ del' = [del EXCEPT ![d] = new]
          /\ UNCHANGED <<wr, owner, cln, rows, aborted, blob, tombs>>
      BY <1>5 DEF ReadTargets, history
    <2> HIDE DEF new
    <2> QED
      BY <2>1, <2>2, WorkGoesOn
  <1>6. CASE SelectKeys(d)
    <2> PICK f : f = {x \in rows : owner[x] \in r.targets}
      OBVIOUS
    <2> PICK ks : ks = KeysOf(f)
      OBVIOUS
    <2> DEFINE new == [r EXCEPT !.pc = "blobs", !.keys = ks, !.found = f]
    <2>1. new.pc # "idle" /\ new.kind = r.kind /\ new.counted = r.counted
          /\ new.targets = r.targets
      BY DEF DeleteType
    <2>2. /\ del' = [del EXCEPT ![d] = new]
          /\ UNCHANGED <<wr, owner, cln, rows, aborted, blob, tombs>>
      BY <1>6 DEF SelectKeys, history
    <2> HIDE DEF new
    <2> QED
      BY <2>1, <2>2, WorkGoesOn
  <1>7. CASE NoPipeline(d)
    <2> PICK f : f = IF r.kind = "account" /\ r.counted THEN rows ELSE {}
      OBVIOUS
    <2> DEFINE new == [r EXCEPT !.pc = "blobs", !.found = f]
    <2>1. new.pc # "idle" /\ new.kind = r.kind /\ new.counted = r.counted
          /\ new.targets = r.targets
      BY DEF DeleteType
    <2>2. /\ del' = [del EXCEPT ![d] = new] /\ tombs' = tombs \cup KeysOf(f)
          /\ r.pc = "select" /\ UNCHANGED <<wr, owner, cln, rows, aborted, blob>>
      BY <1>7 DEF NoPipeline, DeleteAt, history
    <2> HIDE DEF new
    <2>3. \A k \in tombs' : k \in tombs \/ (r.kind = "account" /\ r.counted)
      BY <2>2 DEF KeysOf
    <2> QED
      BY <2>1, <2>2, <2>3, WorkGoesOn
  <1>8. ASSUME NEW k \in Keys, DeleteBlob(d, k) PROVE EraseEffect(d)
    <2>1. /\ UNCHANGED <<wr, owner, cln, rows, aborted, tombs>>
          /\ r.pc = "blobs" /\ k \in r.keys
          /\ \A l \in Keys : blob'[l] = blob[l] \/ (blob'[l] = "none" /\ l = k)
      BY <1>0, <1>8 DEF DeleteBlob, DeleteAt, Remove, history
    <2>2. CASE del' = [del EXCEPT ![d] = [@ EXCEPT !.keys = del[d].keys \ {k}]]
      <3> DEFINE new == [r EXCEPT !.keys = r.keys \ {k}]
      <3>1. /\ new.pc # "idle" /\ new.kind = r.kind /\ new.counted = r.counted
            /\ new.targets = r.targets
        BY <2>1 DEF DeleteType
      <3>2. del' = [del EXCEPT ![d] = new]
        BY <2>2
      <3> HIDE DEF new
      <3> QED
        BY <2>1, <3>1, <3>2, WorkGoesOn
    <2>3. CASE del' = [del EXCEPT ![d] = [@ EXCEPT
                !.keys = del[d].keys \ {k}, !.failed = {k}, !.pc = "tombstone"]]
      <3> DEFINE new == [r EXCEPT !.keys = r.keys \ {k}, !.failed = {k}, !.pc = "tombstone"]
      <3>1. /\ new.pc # "idle" /\ new.kind = r.kind /\ new.counted = r.counted
            /\ new.targets = r.targets
        BY DEF DeleteType
      <3>2. del' = [del EXCEPT ![d] = new]
        BY <2>3
      <3> HIDE DEF new
      <3> QED
        BY <2>1, <3>1, <3>2, WorkGoesOn
    <2> QED
      BY <1>8, <2>2, <2>3 DEF DeleteBlob
  <1>9. CASE Tombstone(d)
    <2> DEFINE new == [r EXCEPT !.failed = {}, !.pc = "blobs"]
    <2>1. /\ new.pc # "idle" /\ new.kind = r.kind /\ new.counted = r.counted
          /\ new.targets = r.targets
      BY DEF DeleteType
    <2>2. /\ del' = [del EXCEPT ![d] = new] /\ tombs' = tombs \cup r.failed
          /\ UNCHANGED <<wr, owner, cln, rows, aborted, blob>>
      BY <1>9 DEF Tombstone, EnqueueBlobDelete, history
    <2> HIDE DEF new
    <2> QED
      BY <2>1, <2>2, WorkGoesOn
  <1>10. CASE CommitDelete(d)
    <2> DEFINE dead == CASE r.kind = "moment" -> r.targets
                         [] r.kind = "project" -> Held
                         [] OTHER -> Live
    <2>1. /\ rows' = {x \in rows : owner[x] \notin dead}
          /\ del' = [del EXCEPT ![d] = IdleDelete]
          /\ aborted' = aborted \cup (IF project THEN {} ELSE r.targets \ dead)
          /\ UNCHANGED <<owner, blob, tombs, wr, cln>>
      BY <1>10 DEF CommitDelete
    <2>2. ASSUME NEW m \in Moments, Works(r, m)
          PROVE  m \in aborted' \/ \A x \in rows' : owner[x] # m
      <3>1. SUFFICES ASSUME NEW x \in rows', owner[x] = m, m \notin aborted' PROVE FALSE
        OBVIOUS
      <3>2. x \in rows /\ m \notin dead /\ m \in Live
        BY <2>1, <3>1, RowOwners DEF Live
      <3>3. r.kind # "moment" \/ m \notin r.targets
        BY <3>2
      <3>4. r.kind = "project" \/ r.kind = "moment"
        BY <3>2
      <3>5. r.kind = "project" /\ m \in r.targets
        BY <2>2, <3>3, <3>4 DEF Works
      <3>6. project
        BY <2>1, <3>1, <3>2, <3>5
      <3>7. m \in Held
        BY <3>2, <3>5, <3>6 DEF Held, DeleteOK
      <3> QED
        BY <3>2, <3>5, <3>7
    <2> HIDE DEF dead
    <2>3. \A e \in Deletes : e # d => del'[e] = del[e]
      BY <1>0, <2>1
    <2>4. aborted \subseteq aborted' /\ rows' \subseteq rows
      BY <2>1
    <2> QED
      BY <2>1, <2>2, <2>3, <2>4 DEF EraseEffect
  <1>11. CASE AbortDelete(d)
    <2>1. /\ rows' = rows /\ del' = [del EXCEPT ![d] = IdleDelete]
          /\ aborted' = aborted \cup r.targets
                \cup (IF r.kind = "account" /\ r.counted THEN Live ELSE {})
          /\ UNCHANGED <<owner, blob, tombs, wr, cln>>
      BY <1>11 DEF AbortDelete
    <2>2. \A m \in Moments : Works(r, m) => m \in aborted' \/ \A x \in rows' : owner[x] # m
      <3>1. \A x \in rows' : owner[x] \in Live
        BY <2>1, RowOwners DEF Live
      <3> QED
        BY <2>1, <3>1 DEF Works
    <2>3. \A e \in Deletes : e # d => del'[e] = del[e]
      BY <1>0, <2>1
    <2> QED
      BY <2>1, <2>2, <2>3 DEF EraseEffect
  <1>12. CASE \E m \in Moments : DeleteMoment(d, m)
    BY <1>2, <1>12
  <1>13. CASE \E k \in Keys : DeleteBlob(d, k)
    BY <1>8, <1>13
  <1> QED
    BY <1>3, <1>4, <1>5, <1>6, <1>7, <1>9, <1>10, <1>11, <1>12, <1>13 DEF Erase

LEMMA EraseSafe ==
  ASSUME SafeInv, NEW d \in Deletes, Erase(d)
  PROVE  InPlace' /\ Answers'
  <1>0. BookInv /\ InPlace /\ Answers
    BY DEF SafeInv
  <1> PICK r \in DeleteType : r = del[d] /\ DeleteOK(r)
    BY <1>0, DeleteOf
  <1>1. BookInv' /\ Moves
    BY <1>0, EraseBooks
  <1>2. /\ wr' = wr /\ owner' = owner /\ cln' = cln /\ rows' \subseteq rows
        /\ aborted \subseteq aborted'
        /\ \A k \in Keys : blob'[k] = blob[k] \/ (blob'[k] = "none" /\ k \in r.keys)
        /\ \A k \in tombs' : \/ k \in tombs \cup r.failed
                             \/ r.kind = "account" /\ r.counted /\ r.pc # "idle"
        /\ \A e \in Deletes : e # d => del'[e] = del[e]
    BY <1>0, EraseEffects DEF EraseEffect
  <1>3. \A m \in Moments : Works(r, m) =>
          Works(del'[d], m) \/ m \in aborted' \/ \A x \in rows' : owner[x] # m
    BY <1>0, EraseEffects DEF EraseEffect
  <1>4. /\ \A k \in r.keys \cup r.failed : k \in Keys /\ Settled(k[1]) /\ owner[k[1]] \in r.targets
        /\ r.keys \cup r.failed # {} => r.pc # "idle"
    BY DEF DeleteType, DeleteOK
  <1>5. InPlace'
    <2>1. ASSUME NEW w \in Writers, wr'[w].medium # None
          PROVE  /\ blob'[<<wr'[w].medium, "full">>] # "none"
                 /\ wr'[w].pc = "row" /\ wr'[w].medium \in Thumbs =>
                      blob'[<<wr'[w].medium, "thumb">>] # "none"
      <3>1. wr'[w] = wr[w] /\ wr[w].medium # None
        BY <1>2, <2>1
      <3>2. \A k \in Keys : Settled(k[1]) \/ blob'[k] = blob[k] \/ blob'[k] # "none"
        BY <1>2, <1>4
      <3> QED
        BY <1>0, <3>1, <3>2, WritersKeep
    <2> QED
      BY <1>0, <1>1, <1>2, <2>1, InPlaceFrame
  <1>6. \A k \in Keys : k[1] \in rows' /\ Given(k)' =>
          (k[1] \in rows /\ Given(k)) \/ Answered(owner[k[1]])
    <2>1. SUFFICES ASSUME NEW k \in Keys, k[1] \in rows', Given(k)', ~Given(k)
                   PROVE  Answered(owner[k[1]])
      BY <1>2
    <2>2. (blob'[k] = "none" /\ blob[k] # "none") \/ (k \in tombs' /\ k \notin tombs)
      BY <1>2, <2>1 DEF Given
    <2>3. \/ k \in r.keys \cup r.failed
          \/ r.kind = "account" /\ r.counted /\ r.pc # "idle"
      BY <1>2, <2>2
    <2>4. Works(del[d], owner[k[1]])
      BY <1>4, <2>3 DEF Works
    <2> QED
      BY <2>4 DEF Answered
  <1>7. \A x \in rows' : owner'[x] = owner[x] /\ owner[x] \in Moments
    BY <1>0, <1>2, RowOwners
  <1>8. ASSUME NEW m \in Moments, Answered(m), \E x \in rows' : owner[x] = m
        PROVE  Answered(m)'
    <2>1. CASE m \in aborted
      BY <1>2, <2>1 DEF Answered
    <2>2. ASSUME NEW e \in Deletes, Works(del[e], m) PROVE Answered(m)'
      <3>1. Works(del'[e], m) \/ m \in aborted'
        BY <1>2, <1>3, <1>8, <2>2
      <3> QED
        BY <3>1 DEF Answered, Works
    <2> QED
      BY <1>8, <2>1, <2>2 DEF Answered
  <1> QED
    BY <1>0, <1>5, <1>6, <1>7, <1>8, AnswersFrame

\* A step of the cleanup hurts no referenced key that was not given before.
LEMMA CleanFrame ==
  ASSUME SafeInv, BookInv', Moves, NEW c \in Cleaners, NEW new \in CleanerType,
         CleanerRecord(c, new), SweepOK(new)',
         UNCHANGED <<owner, rows, wr, del, aborted>>,
         \A k \in Keys : \/ blob'[k] = blob[k]
                         \/ /\ blob'[k] = "none" /\ Settled(k[1])
                            /\ k \in cln[c].queue \/ k[1] \notin rows,
         tombs' \subseteq tombs,
         new.queue \cup new.dropping \subseteq tombs \cup cln[c].queue \cup cln[c].dropping
  PROVE  InPlace' /\ Answers'
  <1>0. /\ BookInv /\ InPlace /\ Answers /\ cln \in [Cleaners -> CleanerType]
    BY DEF SafeInv, BookInv, TypeOK
  <1>1. cln'[c] = new /\ \A e \in Cleaners : e # c => cln'[e] = cln[e]
    BY <1>0 DEF CleanerRecord
  <1>2. InPlace'
    <2>1. ASSUME NEW w \in Writers, wr'[w].medium # None
          PROVE  /\ blob'[<<wr'[w].medium, "full">>] # "none"
                 /\ wr'[w].pc = "row" /\ wr'[w].medium \in Thumbs =>
                      blob'[<<wr'[w].medium, "thumb">>] # "none"
      <3>1. wr'[w] = wr[w] /\ wr[w].medium # None
        BY <2>1
      <3>2. \A k \in Keys : Settled(k[1]) \/ blob'[k] = blob[k] \/ blob'[k] # "none"
        OBVIOUS
      <3> QED
        BY <1>0, <3>1, <3>2, WritersKeep
    <2>2. \A e \in Cleaners : \/ cln'[e] = cln[e]
                              \/ \E r \in CleanerType : cln'[e] = r /\ SweepOK(r)'
      BY <1>1
    <2> QED
      BY <1>0, <2>1, <2>2, InPlaceFrame
  <1>3. \A k \in Keys : k[1] \in rows' /\ Given(k)' => Given(k)
    <2>1. SUFFICES ASSUME NEW k \in Keys, k[1] \in rows, Given(k)' PROVE Given(k)
      OBVIOUS
    <2>2. CASE blob'[k] = "none"
      BY <2>1, <2>2 DEF Given
    <2>3. CASE k \in tombs'
      BY <2>3 DEF Given
    <2>4. ASSUME NEW e \in Cleaners, k \in cln'[e].queue \cup cln'[e].dropping
          PROVE  Given(k)
      BY <1>1, <2>4 DEF Given
    <2> QED
      BY <2>1, <2>2, <2>3, <2>4 DEF Given
  <1>4. \A x \in rows : owner'[x] = owner[x]
    OBVIOUS
  <1> QED
    BY <1>0, <1>2, <1>3, <1>4, DeletesAlone

LEMMA CleanSafe ==
  ASSUME SafeInv, NEW c \in Cleaners, Clean(c)
  PROVE  InPlace' /\ Answers'
  <1>0. /\ BookInv /\ InPlace /\ Answers
        /\ \A k \in Keys : blob[k] = "old" => Settled(k[1])
    BY DEF SafeInv, InPlace
  <1>1. BookInv' /\ Moves
    BY <1>0, CleanBooks
  <1> PICK r \in CleanerType : r = cln[c] /\ DrainOK(r) /\ SweepOK(r)
    BY <1>0, CleanerOf DEF InPlace
  <1>2. /\ blob \in [Keys -> {"none", "recent", "old"}] /\ tombs \subseteq Keys
        /\ r.old \subseteq Keys /\ r.queue \subseteq Keys
    BY <1>0, CleanerOf DEF CleanerType
  <1>3. CASE CleanStart(c)
    <2>1. PICK new \in CleanerType :
            /\ CleanerRecord(c, new) /\ Begins(r, new)
            /\ UNCHANGED <<owner, rows, blob, tombs, wr, del, aborted>>
      BY <1>0, <1>3, CleanStartFacts
    <2>2. SweepOK(new)'
      BY <1>0, <2>1 DEF Begins, SweepOK, Settled, KeysOf
    <2>3. new.queue \cup new.dropping \subseteq tombs
      BY <2>1 DEF Begins
    <2> QED
      BY <1>1, <2>1, <2>2, <2>3, CleanFrame
  <1>4. CASE DrainDrop(c) \/ \E k \in Keys : DrainDelete(c, k)
    <2>1. PICK new \in CleanerType :
            /\ CleanerRecord(c, new) /\ Drained(r, new) /\ r.pc \in {"drain", "drop"}
            /\ UNCHANGED <<owner, rows, wr, del, aborted>>
            /\ \A k \in Keys : blob'[k] = blob[k] \/ (blob'[k] = "none" /\ k \in r.queue)
            /\ tombs' \subseteq tombs
      BY <1>0, <1>4, DrainFacts
    <2>2. SweepOK(new)'
      BY <2>1 DEF SweepOK, Drained, SameScan, Settled
    <2>3. new.queue \cup new.dropping \subseteq r.queue \cup r.dropping
      BY <2>1 DEF Drained
    <2>4. \A k \in r.queue : Settled(k[1])
      BY DEF DrainOK
    <2> QED
      BY <1>1, <2>1, <2>2, <2>3, <2>4, CleanFrame
  <1>5. CASE ReadValid(c) \/ ReadQueued(c) \/ List(c)
    <2>1. PICK new \in CleanerType :
            /\ CleanerRecord(c, new)
            /\ \/ /\ r.pc = "drain" /\ Kept(r, new, "queued", KeysOf(rows), r.doomed)
               \/ /\ r.pc = "queued" /\ Kept(r, new, "list", r.keep \cup tombs, r.doomed)
               \/ /\ r.pc = "list" /\ Kept(r, new, "sweep", r.keep, Orphans(c))
            /\ UNCHANGED <<owner, rows, blob, tombs, wr, del, aborted>>
      BY <1>0, <1>5, ScanFacts
    <2>2. /\ new.old = r.old /\ new.must = r.must
          /\ new.queue \cup new.dropping \subseteq r.queue \cup r.dropping
      BY <2>1 DEF Kept
    <2>3. \A k \in new.old : Settled(k[1])'
      BY <2>1, <2>2 DEF SweepOK, Settled
    <2>4. new.must \subseteq new.old /\ \A k \in new.must : k[1] \notin rows'
      BY <2>1, <2>2 DEF SweepOK
    <2>5. Orphans(c) = {k \in Keys : blob[k] # "none" /\ k \notin r.keep /\ k \in r.old}
      BY <1>2 DEF Orphans, Stored
    <2>6. new.doomed \subseteq new.old /\ \A k \in new.doomed : k[1] \notin rows'
      BY <2>1, <2>2, <2>5 DEF SweepOK, Kept
    <2>7. ASSUME r.pc = "drain" PROVE SweepOK(new)'
      <3>1. new.pc = "queued" /\ new.keep = KeysOf(rows)
        BY <2>1, <2>7 DEF Kept
      <3>2. \A k \in new.old : k[1] \in rows' => k \in new.keep
        BY <1>2, <2>1, <2>2, <3>1 DEF KeysOf
      <3>3. new.keep \cap new.must = {}
        BY <2>1, <2>4, <3>1 DEF KeysOf
      <3> QED
        BY <2>3, <2>4, <2>6, <3>1, <3>2, <3>3 DEF SweepOK
    <2>8. ASSUME r.pc = "queued" PROVE SweepOK(new)'
      <3>1. new.pc = "list" /\ new.keep = r.keep \cup tombs
        BY <2>1, <2>8 DEF Kept
      <3>2. \A k \in new.old : k[1] \in rows' => k \in new.keep
        BY <2>1, <2>2, <2>8, <3>1 DEF SweepOK
      <3>3. \A k \in new.must \cap new.keep : blob'[k] = "none" \/ k \in tombs'
        BY <2>1, <2>2, <2>8, <3>1 DEF SweepOK
      <3> QED
        BY <2>3, <2>4, <2>6, <3>1, <3>2, <3>3 DEF SweepOK
    <2>9. ASSUME r.pc = "list" PROVE SweepOK(new)'
      <3>1. new.pc = "sweep" /\ new.doomed = Orphans(c)
        BY <2>1, <2>9 DEF Kept
      <3>2. ASSUME NEW k \in new.must PROVE blob'[k] = "none" \/ k \in new.doomed \cup tombs'
        <4>1. k \in r.must /\ k \in r.old /\ k \in Keys
          BY <1>2, <2>2, <3>2 DEF SweepOK
        <4>2. k \in r.keep => blob[k] = "none" \/ k \in tombs
          BY <2>9, <4>1 DEF SweepOK
        <4> QED
          BY <2>1, <2>5, <3>1, <4>1, <4>2
      <3> QED
        BY <2>3, <2>4, <2>6, <3>1, <3>2 DEF SweepOK
    <2>10. SweepOK(new)'
      BY <2>1, <2>7, <2>8, <2>9
    <2> QED
      BY <1>1, <2>1, <2>2, <2>10, CleanFrame
  <1>6. ASSUME NEW k \in Keys, Sweep(c, k) PROVE InPlace' /\ Answers'
    <2>1. PICK new \in CleanerType :
            /\ CleanerRecord(c, new) /\ r.pc = "sweep" /\ k \in r.doomed
            /\ Kept(r, new, "sweep", r.keep, r.doomed \ {k})
            /\ UNCHANGED <<owner, rows, tombs, wr, del, aborted>>
            /\ blob' = [blob EXCEPT ![k] = "none"]
      BY <1>0, <1>6, SweepFacts
    <2>2. k[1] \notin rows /\ Settled(k[1])
      BY <2>1 DEF SweepOK
    <2>3. \A l \in Keys : blob'[l] = blob[l] \/ (l = k /\ blob'[l] = "none")
      BY <1>2, <2>1
    <2>4. /\ new.pc = "sweep" /\ new.old = r.old /\ new.must = r.must
          /\ new.doomed = r.doomed \ {k} /\ new.queue = r.queue /\ new.dropping = r.dropping
      BY <2>1 DEF Kept
    <2>5. SweepOK(new)'
      <3>1. /\ \A l \in new.old : Settled(l[1])'
            /\ new.must \subseteq new.old /\ \A l \in new.must : l[1] \notin rows'
            /\ new.doomed \subseteq new.old /\ \A l \in new.doomed : l[1] \notin rows'
        BY <2>1, <2>4 DEF SweepOK, Settled
      <3>2. ASSUME NEW l \in new.must PROVE blob'[l] = "none" \/ l \in new.doomed \cup tombs'
        <4>1. l \in Keys /\ (blob[l] = "none" \/ l \in r.doomed \cup tombs)
          BY <1>2, <2>1, <2>4, <3>2 DEF SweepOK
        <4>2. blob'[k] = "none"
          BY <1>2, <2>1
        <4> QED
          BY <2>1, <2>3, <2>4, <4>1, <4>2
      <3> QED
        BY <2>4, <3>1, <3>2 DEF SweepOK
    <2> QED
      BY <1>1, <2>1, <2>2, <2>3, <2>4, <2>5, CleanFrame
  <1>7. CASE SweepEnds(c) \/ CleanerFails(c)
    <2>1. PICK i \in CleanerType : /\ i = IdleCleaner /\ i.pc = "idle" /\ i.old = {}
                                   /\ i.must = {} /\ i.doomed = {} /\ i.queue = {}
                                   /\ i.dropping = {}
      BY IdleCleanerOK
    <2>2. SweepOK(i)'
      BY <2>1 DEF SweepOK
    <2>3. /\ CleanerRecord(c, i)
          /\ UNCHANGED <<owner, rows, blob, tombs, wr, del, aborted>>
      BY <1>7, <2>1, CleanerEndFacts
    <2> QED
      BY <1>1, <2>1, <2>2, <2>3, CleanFrame
  <1>8. CASE \E k \in Keys : Sweep(c, k)
    BY <1>6, <1>8
  <1> QED
    BY <1>3, <1>4, <1>5, <1>7, <1>8 DEF Clean

LEMMA AgeSafe ==
  ASSUME Prompt, SafeInv, \E k \in Keys : Age(k)
  PROVE  InPlace' /\ Answers'
  <1>0. BookInv /\ InPlace /\ Answers
    BY DEF SafeInv
  <1>1. /\ BookInv' /\ Moves
        /\ UNCHANGED <<owner, rows, tombs, wr, del, cln, aborted>>
        /\ \A k \in Keys : \/ blob'[k] = blob[k]
                           \/ /\ blob[k] = "recent" /\ blob'[k] = "old"
                              /\ k[1] \notin Unrecorded
    BY <1>0, AgeBooks DEF Prompt
  <1>2. \A k \in Keys : blob[k] # "none" /\ k[1] \notin Unrecorded => Settled(k[1])
    <2>1. SUFFICES ASSUME NEW k \in Keys, blob[k] # "none", k[1] \notin Unrecorded,
                          NEW w \in Writers, wr[w].medium = k[1]
                   PROVE  FALSE
      BY <1>0 DEF InPlace, Settled
    <2>2. wr[w].medium # None
      BY <2>1, KeyFacts, ConstantsOK
    <2>3. wr[w].pc \in {"thumb", "row"}
      BY <1>0, <2>2 DEF BookInv, Books, WriterOK
    <2> QED
      BY <2>1, <2>3 DEF Unrecorded
  <1>3. InPlace'
    <2>1. ASSUME NEW w \in Writers, wr'[w].medium # None
          PROVE  /\ blob'[<<wr'[w].medium, "full">>] # "none"
                 /\ wr'[w].pc = "row" /\ wr'[w].medium \in Thumbs =>
                      blob'[<<wr'[w].medium, "thumb">>] # "none"
      <3>1. wr'[w] = wr[w] /\ wr[w].medium # None
        BY <1>1, <2>1
      <3>2. \A k \in Keys : blob'[k] = blob[k] \/ blob'[k] # "none"
        BY <1>1
      <3> QED
        BY <1>0, <3>1, <3>2, WritersKeep
    <2>2. \A k \in Keys : blob'[k] # "none" => blob[k] # "none"
      BY <1>1
    <2>3. \A k \in Keys : blob'[k] = "old" => blob[k] = "old" \/ Settled(k[1])
      BY <1>1, <1>2
    <2> QED
      BY <1>0, <1>1, <2>1, <2>2, <2>3, InPlaceFrame
  <1>4. \A k \in Keys : k[1] \in rows' /\ Given(k)' => Given(k)
    BY <1>1 DEF Given
  <1> QED
    BY <1>0, <1>1, <1>3, <1>4, DeletesAlone

\* A step that touches neither store, writers, deletes nor cleanups.
LEMMA RestSafe ==
  ASSUME SafeInv, BookInv', Moves, UNCHANGED <<owner, rows, blob, tombs, wr, del, cln, aborted>>
  PROVE  InPlace' /\ Answers'
  <1>0. BookInv /\ InPlace /\ Answers
    BY DEF SafeInv
  <1>1. \A w \in Writers : wr'[w].medium # None =>
           /\ blob'[<<wr'[w].medium, "full">>] # "none"
           /\ wr'[w].pc = "row" /\ wr'[w].medium \in Thumbs =>
                blob'[<<wr'[w].medium, "thumb">>] # "none"
    BY <1>0 DEF InPlace
  <1>2. InPlace'
    BY <1>0, <1>1, InPlaceFrame
  <1>3. \A k \in Keys : k[1] \in rows' /\ Given(k)' => Given(k)
    BY DEF Given
  <1> QED
    BY <1>0, <1>2, <1>3, DeletesAlone

\* The whole invariant, under the assumption behind --min-age-minutes.
LEMMA SafeKept == ASSUME Prompt PROVE Spec => []SafeInv
  <1>1. Init => SafeInv
    <2> SUFFICES ASSUME Init PROVE InPlace /\ Answers
      BY InitBooks DEF SafeInv
    <2>1. \A c \in Cleaners : SweepOK(cln[c])
      BY IdleCleanerOK DEF Init, SweepOK
    <2>2. InPlace
      BY <2>1 DEF Init, InPlace, IdleWriter
    <2> QED
      BY <2>2 DEF Init, Answers
  <1>2. SafeInv /\ [Next]_vars => SafeInv'
    <2> SUFFICES ASSUME SafeInv, [Next]_vars PROVE SafeInv'
      OBVIOUS
    <2>0. BookInv
      BY DEF SafeInv
    <2>1. BookInv'
      BY <2>0, StepBooks, StutterBooks
    <2>2. ASSUME NEW w \in Writers, Write(w) PROVE InPlace' /\ Answers'
      BY <2>2, WriteSafe
    <2>3. ASSUME NEW d \in Deletes, Erase(d) PROVE InPlace' /\ Answers'
      BY <2>3, EraseSafe
    <2>4. ASSUME NEW c \in Cleaners, Clean(c) PROVE InPlace' /\ Answers'
      BY <2>4, CleanSafe
    <2>5. CASE \E k \in Keys : Age(k)
      <3>1. InPlace' /\ Answers'
        BY <2>5, AgeSafe
      <3> QED
        BY <2>1, <3>1 DEF SafeInv
    <2>6. CASE UnlinkProject
      <3>1. Moves
        BY <2>0, <2>6, UnlinkBooks
      <3>2. UNCHANGED <<owner, rows, blob, tombs, wr, del, cln, aborted>>
        BY <2>6 DEF UnlinkProject, history
      <3> QED
        BY <2>1, <3>1, <3>2, RestSafe DEF SafeInv
    <2>7. CASE UNCHANGED vars
      <3>1. UNCHANGED <<owner, rows, blob, tombs, wr, del, cln, aborted>>
        BY <2>7 DEF vars
      <3>2. Moves
        BY <3>1 DEF Moves, Settled
      <3> QED
        BY <2>1, <3>1, <3>2, RestSafe DEF SafeInv
    <2> QED
      BY <2>1, <2>2, <2>3, <2>4, <2>5, <2>6, <2>7 DEF Next, SafeInv
  <1> QED
    BY <1>1, <1>2, PTL DEF Spec

\* Where no capture is slower than min-age, a referenced medium loses a blob, or is
\* promised to the drain, only to a deletion of its moment, and the sweep of
\* media:cleanup never holds a key that a row references, however captures,
\* backfills, deletes, cleanups, crashes and store errors interleave.
THEOREM ReferencedStays == ASSUME Prompt PROVE Spec => []ReferencedIsSafe
  <1>1. SafeInv => ReferencedIsSafe
    <2> SUFFICES ASSUME SafeInv PROVE ReferencedIsSafe
      OBVIOUS
    <2>0. BookInv /\ InPlace /\ Answers
      BY DEF SafeInv
    <2>1. ASSUME NEW x \in rows
          PROVE  \/ KeysOf({x}) \subseteq Stored \ tombs
                 \/ Dying(owner[x])
                 \/ owner[x] \in aborted
      <3>1. SUFFICES ASSUME NEW k \in Keys, k[1] = x, k \notin Stored \ tombs
                     PROVE  Dying(owner[x]) \/ owner[x] \in aborted
        BY DEF KeysOf
      <3>2. Given(k)
        BY <3>1 DEF Given, Stored
      <3>3. Answered(owner[x])
        BY <2>0, <3>1, <3>2 DEF Answers
      <3> QED
        BY <3>3 DEF Answered, Works, Dying, DeleteAt
    <2>2. ASSUME NEW c \in Cleaners PROVE cln[c].doomed \cap KeysOf(rows) = {}
      <3>1. SweepOK(cln[c])
        BY <2>0 DEF InPlace
      <3> QED
        BY <3>1 DEF SweepOK, KeysOf
    <2> QED
      BY <2>1, <2>2 DEF ReferencedIsSafe
  <1> QED
    BY <1>1, SafeKept, PTL

\* Under the same assumption a run of media:cleanup that reaches its end has removed
\* every blob that was old and unreferenced when it started, thumbnails included,
\* unless a tombstone still answers for it.
THEOREM SweepEndsClean == ASSUME Prompt PROVE Spec => SweepIsThorough
  <1> DEFINE Thorough ==
        \A c \in Cleaners :
          CleanerAt(c, "sweep") /\ cln[c].doomed = {} /\ cln'[c].pc = "idle"
            => cln[c].must \cap Stored \subseteq tombs
  <1>1. SafeInv => Thorough
    <2> SUFFICES ASSUME SafeInv, NEW c \in Cleaners, cln[c].pc = "sweep",
                        cln[c].doomed = {}
                 PROVE  cln[c].must \cap Stored \subseteq tombs
      BY DEF CleanerAt
    <2>1. SweepOK(cln[c])
      BY DEF SafeInv, InPlace
    <2> QED
      BY <2>1 DEF SweepOK, Stored
  <1>2. SafeInv /\ [Next]_vars => [Thorough]_vars
    BY <1>1
  <1> QED
    BY <1>2, SafeKept, PTL DEF Spec, SweepIsThorough
=============================================================================
