---------------------------- MODULE QrCodesProofs ----------------------------
(***************************************************************************)
(* Theorems about the dynamic QR code, for any number of screens and of    *)
(* scans, and for every interval, validity, cap and delay that the         *)
(* assumptions of QrCodes allow.                                           *)
(***************************************************************************)
EXTENDS QrCodes, TLAPS

-----------------------------------------------------------------------------
(* The arithmetic of codes.                                                *)

\* Dividing and multiplying again loses less than one interval.
LEMMA DivisionBounds ==
    ASSUME NEW x \in Nat
    PROVE  /\ x \div Interval \in Nat
           /\ (x \div Interval) * Interval <= x
           /\ x < (x \div Interval + 1) * Interval
<1> DEFINE q == x \div Interval
<1>1. Interval \in Nat \ {0}
    BY QrCodesAssumption
<1>2. q \in Nat /\ x % Interval \in 0..(Interval - 1) /\ x = Interval * q + (x % Interval)
    BY <1>1
<1> HIDE DEF q
<1>3. q * Interval = Interval * q /\ (q + 1) * Interval = Interval * q + Interval
    BY <1>1, <1>2
<1>4. q * Interval <= x /\ x < (q + 1) * Interval
    BY <1>1, <1>2, <1>3
<1> QED
    BY <1>2, <1>4 DEF q

\* Windows that start earlier have the smaller number.
LEMMA WindowsInOrder ==
    ASSUME NEW a \in Int, NEW b \in Int, a * Interval < b * Interval
    PROVE  a < b
<1>1. Interval \in Nat \ {0}
    BY QrCodesAssumption
<1> QED
    BY <1>1

\* The code of an instant of the batch's life is the one whose window holds
\* the instant.
LEMMA CodeOfInstant ==
    ASSUME NEW meta \in Meta, NEW t \in Nat, Valid(meta, t)
    PROVE  LET code == CurrentCode(meta, t)
           IN  /\ code \in Code
               /\ code.from = Window(meta.activated, code.seq).from
               /\ code.to = LeastOf(Window(meta.activated, code.seq).to, meta.expires)
               /\ code.from <= t /\ t < Window(meta.activated, code.seq).to
               /\ t < code.to
<1> DEFINE seq == Sequence(meta.activated, t)
<1>1. /\ meta.activated \in Nat /\ meta.expires \in Nat
      /\ meta.activated <= t /\ t < meta.expires
      /\ t - meta.activated \in Nat
    BY DEF Meta, Valid
<1>2. /\ seq \in Nat
      /\ seq * Interval <= t - meta.activated
      /\ t - meta.activated < (seq + 1) * Interval
      /\ seq * Interval \in Nat /\ (seq + 1) * Interval \in Nat
    <2>1. Interval \in Nat
        BY QrCodesAssumption
    <2>2. /\ seq \in Nat /\ seq * Interval <= t - meta.activated
          /\ t - meta.activated < (seq + 1) * Interval
        BY <1>1, DivisionBounds DEF Sequence
    <2> HIDE DEF seq
    <2> QED
        BY <2>1, <2>2
<1> HIDE DEF seq
<1> DEFINE window == Window(meta.activated, seq)
<1>3. /\ window = [seq |-> seq, from |-> window.from, to |-> window.to]
      /\ window.from \in Nat /\ window.to \in Nat
      /\ window.from <= t /\ t < window.to
    BY <1>1, <1>2 DEF Window
<1> HIDE DEF window
<1>4. /\ LeastOf(window.to, meta.expires) \in Nat
      /\ t < LeastOf(window.to, meta.expires)
    BY <1>1, <1>3 DEF LeastOf
<1>5. CurrentCode(meta, t) = [seq |-> seq, from |-> window.from,
                              to |-> LeastOf(window.to, meta.expires)]
    <2>1. CurrentCode(meta, t) = [window EXCEPT !.to = LeastOf(@, meta.expires)]
        BY DEF CurrentCode, window, seq
    <2> QED
        BY <2>1, <1>3
<1> QED
    BY <1>2, <1>3, <1>4, <1>5 DEF Code, window

-----------------------------------------------------------------------------
(* The inductive invariant.                                                *)

\* What the metadata says when nobody has withdrawn or ended anything.
Running(meta) == meta.session = "active" /\ meta.status = "active"

\* A copy of the metadata is of this batch, and older than the database's at most.
OfBatch(meta) ==
    /\ meta \in Meta
    /\ meta.activated = db.activated /\ meta.expires = db.expires
    /\ db.session = "active" => meta.session = "active"
    /\ db.status = "active" => meta.status = "active"

BatchSound ==
    /\ db # NoMeta => db.activated <= now
    /\ shutAt # NoTime <=> db # NoMeta /\ ~Running(db)
    /\ shutAt # NoTime => shutAt <= now

\* What an entry that still says the batch is open may live to.
CacheSound ==
    cache # NoEntry =>
        /\ db # NoMeta
        /\ OfBatch(cache.meta)
        /\ cache.until \in Nat
        /\ now < cache.until /\ cache.until <= now + MaxTtl
        /\ Running(cache.meta) /\ shutAt # NoTime => cache.until <= shutAt + MaxTtl + MaxDelay

CallsSound ==
    \A c \in cacheCalls :
        /\ db # NoMeta
        /\ c.began <= now /\ now - c.began <= MaxDelay
        /\ c.call = "set" => /\ OfBatch(c.meta)
                             /\ shutAt # NoTime => c.began <= shutAt

\* Whoever got open metadata from the database asked before the batch was shut;
\* who got it from the cache asked before the last such entry was gone.
LookupSound(a) ==
    lookup[a].pc # "none" =>
        /\ db # NoMeta
        /\ lookup[a].began \in Nat
        /\ lookup[a].began <= now /\ now - lookup[a].began <= MaxDelay
        /\ lookup[a].pc \in {"fill", "known"} => OfBatch(lookup[a].meta)
        /\ lookup[a].pc = "fill" /\ Running(lookup[a].meta) /\ shutAt # NoTime =>
               lookup[a].began <= shutAt
        /\ lookup[a].pc = "known" /\ Running(lookup[a].meta) /\ shutAt # NoTime =>
               lookup[a].began <= shutAt + MaxTtl + MaxDelay

\* A screen that asks again began no earlier than the end of the code it shows.
ScreenSound(s) ==
    /\ screen[s].pc = "showing" => screen[s].code # NoCode
    /\ screen[s].code # NoCode =>
        /\ db # NoMeta
        /\ screen[s].code.seq \in Nat
        /\ screen[s].code.to = LeastOf(Window(db.activated, screen[s].code.seq).to, db.expires)
        /\ screen[s].pc = "asking" => screen[s].code.to <= lookup[s].began

\* A classification keeps its meaning while the scan waits for its locks.
ScanSound(r) ==
    /\ scan[r].pc # "idle" => db # NoMeta
    /\ scan[r].pc = "asking" => lookup[r].began = scan[r].arrived
    /\ scan[r].pc = "classified" /\ scan[r].verdict = "closed" => ~Running(db)
    /\ scan[r].pc = "classified" /\ scan[r].verdict = "accepted" =>
            /\ scan[r].arrived \in Nat /\ scan[r].arrived <= now
            /\ scan[r].arrived < db.expires
            /\ Window(db.activated, scan[r].code).from <= scan[r].arrived
            /\ scan[r].arrived < Window(db.activated, scan[r].code).to

RequestsSound ==
    /\ \A a \in Askers : LookupSound(a)
    /\ \A s \in Streams : ScreenSound(s)
    /\ \A r \in Scans : ScanSound(r)

IInv == TypeOK /\ BatchSound /\ CacheSound /\ CallsSound /\ RequestsSound

LEMMA InitSound == Init => IInv
<1> SUFFICES ASSUME Init PROVE IInv
    OBVIOUS
<1>1. TypeOK
    BY QrCodesAssumption DEF Init, TypeOK, Time, NoEntry, NoLookup, NoScan, Verdicts
<1>2. BatchSound /\ CacheSound /\ CallsSound
    BY DEF Init, BatchSound, CacheSound, CallsSound
<1>3. RequestsSound
    BY DEF Init, RequestsSound, LookupSound, ScreenSound, ScanSound, NoLookup, NoScan, Askers
<1> QED
    BY <1>1, <1>2, <1>3 DEF IInv

-----------------------------------------------------------------------------
(* The cache.                                                              *)

\* The lecturer's requests withdraw what they withdraw for good: a copy that
\* was of this batch still is.
LEMMA CopiesStay ==
    ASSUME TypeOK, Withdraw \/ EndSession, NEW meta, OfBatch(meta)
    PROVE  OfBatch(meta)'
BY NoMetaAssumption DEF TypeOK, Withdraw, EndSession, OfBatch, Meta

\* They leave a batch that is no longer running, and its times as they were.
LEMMA BatchShut ==
    ASSUME TypeOK, Withdraw \/ EndSession
    PROVE  /\ db # NoMeta /\ db' # NoMeta /\ db \in Meta /\ db' \in Meta
           /\ db'.activated = db.activated /\ db'.expires = db.expires
           /\ ~Running(db)'
<1>1. db \in Meta /\ db # NoMeta
    BY DEF TypeOK, Withdraw, EndSession
<1>2. /\ db' \in Meta
      /\ db'.activated = db.activated /\ db'.expires = db.expires
      /\ ~Running(db)'
    BY <1>1 DEF Withdraw, EndSession, Meta, Running
<1> QED
    BY <1>1, <1>2, NoMetaAssumption

LEMMA CacheSet ==
    ASSUME TypeOK, BatchSound, CacheSound, db # NoMeta, UNCHANGED <<now, db, shutAt>>,
           NEW meta, OfBatch(meta), NEW t \in Nat, t <= now, now - t <= MaxDelay,
           Running(meta) /\ shutAt # NoTime => t <= shutAt,
           SetCache(meta, t)
    PROVE  /\ CacheSound'
           /\ cache' \in [meta : Meta \cup {NoMeta}, until : Nat \cup {NoTime}]
<1>1. /\ now \in Nat /\ MaxTtl \in Nat /\ MaxDelay \in Nat /\ NoTime \notin Nat
      /\ meta.expires \in Nat /\ meta \in Meta
      /\ shutAt \in Nat \cup {NoTime}
    BY QrCodesAssumption DEF TypeOK, Time, OfBatch, Meta
<1>2. CASE CacheTtl(meta, t) <= 0
    BY <1>2 DEF SetCache, CacheSound, OfBatch, TypeOK
<1>3. CASE ~(CacheTtl(meta, t) <= 0)
    <2> DEFINE ttl == CacheTtl(meta, t)
    <2>1. ttl \in Nat /\ 0 < ttl /\ ttl <= MaxTtl
        BY <1>1, <1>3 DEF CacheTtl, LeastOf
    <2>2. cache' = [meta |-> meta, until |-> now + ttl]
        BY <1>3 DEF SetCache
    <2> HIDE DEF ttl
    <2>3. /\ now + ttl \in Nat /\ now < now + ttl /\ now + ttl <= now + MaxTtl
          /\ Running(meta) /\ shutAt # NoTime => now + ttl <= shutAt + MaxTtl + MaxDelay
        BY <1>1, <2>1
    <2> QED
        BY <1>1, <2>2, <2>3 DEF CacheSound, OfBatch, Running
<1> QED
    BY <1>2, <1>3

\* The requests that neither move the clock nor write the database or the cache.
Answering ==
    \/ \E a \in Askers : ReadCache(a) \/ ReadDatabase(a)
    \/ \E s \in Streams : Connect(s) \/ Show(s) \/ Rotate(s) \/ Disconnect(s)
    \/ \E r \in Scans : \/ \E seq \in 0..((Validity - 1) \div Interval) : Arrive(r, seq)
                        \/ Classify(r) \/ WriteScan(r)

LEMMA AnsweringWritesNothing ==
    ASSUME Answering
    PROVE  UNCHANGED <<now, party, db, cache, cacheCalls, shutAt>>
BY DEF Answering, ReadCache, ReadDatabase, OnlyLookup, Connect, Show, Rotate, Disconnect,
    OnlyStream, Arrive, Classify, WriteScan, OnlyScan

\* The steps of the system, told by what they write.
LEMMA NextCases ==
    ASSUME Next
    PROVE  \/ Tick
           \/ \E began \in Time : Launch(began)
           \/ Withdraw \/ EndSession
           \/ \E c \in cacheCalls : CallCache(c)
           \/ \E a \in Askers : FillCache(a)
           \/ Answering
BY DEF Next, Lecturer, LookupStep, Answering

LEMMA CacheStep ==
    ASSUME IInv, Next
    PROVE  CacheSound'
<1> USE DEF IInv
<1>1. CASE Tick
    <2>1. now \in Nat /\ MaxTtl \in Nat
        BY QrCodesAssumption DEF TypeOK, Time
    <2>2. CASE cache' = NoEntry
        BY <2>2 DEF CacheSound
    <2>3. CASE cache' # NoEntry
        <3>1. /\ cache' = cache /\ cache.until # now'
              /\ now' = now + 1 /\ UNCHANGED <<db, shutAt>>
            BY <1>1, <2>3 DEF Tick
        <3>2. cache.until \in Nat /\ now < cache.until /\ cache.until <= now + MaxTtl
            BY <2>3, <3>1 DEF CacheSound
        <3>3. now' < cache'.until /\ cache'.until <= now' + MaxTtl
            BY <2>1, <3>1, <3>2
        <3> QED
            BY <2>3, <3>1, <3>3 DEF CacheSound, OfBatch, Running
    <2> QED
        BY <2>2, <2>3
<1>2. CASE \E began \in Time : Launch(began)
    BY <1>2 DEF Launch, OnlyLecturer, CacheSound
<1>3. CASE Withdraw \/ EndSession
    <2> SUFFICES ASSUME cache' # NoEntry
                 PROVE  /\ db' # NoMeta
                        /\ OfBatch(cache.meta)'
                        /\ cache.until \in Nat
                        /\ now < cache.until /\ cache.until <= now + MaxTtl
                        /\ shutAt' # NoTime => cache.until <= shutAt' + MaxTtl + MaxDelay
                               \/ ~Running(cache.meta)
        BY <1>3 DEF Withdraw, EndSession, OnlyLecturer, CacheSound, OfBatch, Running
    <2>1. cache' = cache /\ now' = now /\ db # NoMeta /\ OfBatch(cache.meta)
        BY <1>3 DEF Withdraw, EndSession, OnlyLecturer, CacheSound
    <2>2. OfBatch(cache.meta)' /\ db' # NoMeta
        BY <1>3, <2>1, CopiesStay, BatchShut
    <2>3. shutAt' = IF shutAt = NoTime THEN now ELSE shutAt
        BY <1>3 DEF Withdraw, EndSession, Shut
    <2>4. now \in Nat /\ MaxTtl \in Nat /\ MaxDelay \in Nat
        BY QrCodesAssumption DEF TypeOK, Time
    <2> QED
        BY <2>1, <2>2, <2>3, <2>4 DEF CacheSound
<1>4. CASE \E c \in cacheCalls : CallCache(c)
    <2>1. PICK c \in cacheCalls : CallCache(c)
        BY <1>4
    <2>2. CASE c.call = "set" /\ SetCache(c.meta, c.began)
        <3>1. /\ c.began \in Nat /\ c.began <= now /\ now - c.began <= MaxDelay
              /\ OfBatch(c.meta) /\ db # NoMeta
              /\ shutAt # NoTime => c.began <= shutAt
            BY <2>1, <2>2 DEF TypeOK, CallsSound
        <3> QED
            BY <2>1, <2>2, <3>1, CacheSet DEF CallCache
    <2>3. CASE cache' = NoEntry
        BY <2>3 DEF CacheSound
    <2>4. CASE UNCHANGED cache
        BY <2>1, <2>4 DEF CallCache, CacheSound, OfBatch, Running
    <2> QED
        BY <2>1, <2>2, <2>3, <2>4 DEF CallCache
<1>5. CASE \E a \in Askers : FillCache(a)
    <2>1. PICK a \in Askers : FillCache(a)
        BY <1>5
    <2>2. CASE SetCache(lookup[a].meta, lookup[a].began)
        <3>1. LookupSound(a) /\ lookup[a].pc = "fill"
            BY <2>1 DEF FillCache, RequestsSound
        <3> QED
            BY <2>1, <2>2, <3>1, CacheSet DEF FillCache, OnlyLookup, LookupSound
    <2>3. CASE UNCHANGED cache
        BY <2>1, <2>3 DEF FillCache, OnlyLookup, CacheSound, OfBatch, Running
    <2> QED
        BY <2>1, <2>2, <2>3 DEF FillCache
<1>6. CASE Answering
    BY <1>6, AnsweringWritesNothing DEF CacheSound, OfBatch, Running
<1> QED
    BY <1>1, <1>2, <1>3, <1>4, <1>5, <1>6, NextCases

LEMMA CallsStep ==
    ASSUME IInv, Next
    PROVE  CallsSound'
<1> USE DEF IInv
<1>0. /\ now \in Nat /\ MaxDelay \in Nat
      /\ \A c \in cacheCalls : c.began \in Nat
    BY QrCodesAssumption DEF TypeOK, Time
<1>1. CASE Tick
    BY <1>0, <1>1 DEF Tick, Recent, CallsSound, OfBatch
<1>2. CASE \E began \in Time : Launch(began)
    <2>1. PICK began \in Time : Launch(began)
        BY <1>2
    <2>2. began \in Nat /\ began <= now /\ now - began <= MaxDelay
        BY <2>1, QrCodesAssumption DEF Launch, Time
    <2>3. /\ db' \in Meta /\ db' # NoMeta
          /\ cacheCalls' = {[call |-> "set", meta |-> db', began |-> began]}
        <3>1. began + Validity \in Nat /\ SchedEnd \in Nat
            BY <2>2, QrCodesAssumption
        <3>2. LeastOf(began + Validity, SchedEnd) \in Nat
            BY <3>1 DEF LeastOf
        <3> QED
            BY <2>1, <2>2, <3>2, NoMetaAssumption DEF Launch, Meta
    <2>4. shutAt' = NoTime /\ now' = now
        BY <2>1 DEF Launch, OnlyLecturer, BatchSound
    <2> QED
        BY <2>2, <2>3, <2>4 DEF CallsSound, OfBatch
<1>3. CASE Withdraw \/ EndSession
    <2>1. \A c \in cacheCalls : c.call = "set" => OfBatch(c.meta)'
        BY <1>3, CopiesStay DEF CallsSound
    <2>2. db # NoMeta /\ db' # NoMeta
        BY <1>3, BatchShut
    <2>3. shutAt' = (IF shutAt = NoTime THEN now ELSE shutAt) /\ now' = now
        BY <1>3 DEF Withdraw, EndSession, Shut, OnlyLecturer
    <2>4. \A c \in cacheCalls' : \/ c \in cacheCalls
                                 \/ c = [call |-> "delete", meta |-> NoMeta, began |-> now]
        BY <1>3 DEF Withdraw, EndSession
    <2> QED
        BY <1>0, <2>1, <2>2, <2>3, <2>4 DEF CallsSound
<1>4. CASE \E c \in cacheCalls : CallCache(c)
    BY <1>4 DEF CallCache, CallsSound, OfBatch
<1>5. CASE \E a \in Askers : FillCache(a)
    BY <1>5 DEF FillCache, OnlyLookup, CallsSound, OfBatch
<1>6. CASE Answering
    BY <1>6, AnsweringWritesNothing DEF CallsSound, OfBatch
<1> QED
    BY <1>1, <1>2, <1>3, <1>4, <1>5, <1>6, NextCases

LEMMA BatchStep ==
    ASSUME IInv, Next
    PROVE  BatchSound' /\ db' \in Meta \cup {NoMeta} /\ shutAt' \in Nat \cup {NoTime}
<1> USE DEF IInv
<1>0. now \in Nat /\ NoTime \notin Nat
    BY QrCodesAssumption DEF TypeOK, Time
<1>1. CASE Tick
    <2>1. now' = now + 1 /\ UNCHANGED <<db, shutAt>>
        BY <1>1 DEF Tick
    <2>2. db # NoMeta => db.activated \in Nat
        BY DEF TypeOK, Meta
    <2> QED
        BY <1>0, <2>1, <2>2 DEF BatchSound, TypeOK, Running
<1>2. CASE \E began \in Time : Launch(began)
    <2>1. PICK began \in Time : Launch(began)
        BY <1>2
    <2>2. began \in Nat /\ LeastOf(began + Validity, SchedEnd) \in Nat
        BY <2>1, QrCodesAssumption DEF Time, LeastOf
    <2>3. shutAt' = NoTime /\ now' = now
        BY <2>1 DEF Launch, OnlyLecturer, BatchSound
    <2> QED
        BY <2>1, <2>2, <2>3 DEF Launch, Meta, BatchSound, Running
<1>3. CASE Withdraw \/ EndSession
    <2>1. db \in Meta /\ db # NoMeta
        BY <1>3 DEF Withdraw, EndSession, TypeOK
    <2>2. db' \in Meta /\ db'.activated = db.activated /\ ~Running(db)'
        BY <1>3, <2>1 DEF Withdraw, EndSession, Meta, Running
    <2>3. shutAt' = (IF shutAt = NoTime THEN now ELSE shutAt) /\ now' = now
        BY <1>3 DEF Withdraw, EndSession, Shut, OnlyLecturer
    <2> QED
        BY <1>0, <2>1, <2>2, <2>3, NoMetaAssumption DEF BatchSound, TypeOK
<1>4. CASE UNCHANGED <<now, db, shutAt>>
    BY <1>4 DEF BatchSound, Running, TypeOK
<1> QED
    BY <1>1, <1>2, <1>3, <1>4, NextCases, AnsweringWritesNothing DEF CallCache, FillCache, OnlyLookup

-----------------------------------------------------------------------------
(* The requests.                                                           *)

\* A lookup that a step leaves alone stays sound while time, the batch and the
\* session stay what they are.
LEMMA LookupKept ==
    ASSUME NEW a \in Askers, LookupSound(a),
           lookup'[a] = lookup[a] \/ lookup'[a].pc = "none",
           UNCHANGED <<now, db, shutAt>>
    PROVE  LookupSound(a)'
BY DEF LookupSound, OfBatch, Running

\* A request that starts its lookup has read the clock just now.
LEMMA LookupBegun ==
    ASSUME IInv, NEW a \in Askers, db # NoMeta, Asking(a), UNCHANGED <<now, db, shutAt>>
    PROVE  \A b \in Askers : LookupSound(b)'
<1> SUFFICES ASSUME NEW b \in Askers
             PROVE  LookupSound(b)'
    OBVIOUS
<1>1. lookup \in [Askers -> [pc : {"none", "cache", "database", "fill", "known"},
                             began : Nat \cup {NoTime}, meta : Meta \cup {NoMeta}]]
    BY DEF IInv, TypeOK
<1>2. CASE b = a
    <2>1. lookup'[a] = [pc |-> "cache", began |-> now, meta |-> NoMeta]
        BY <1>1 DEF Asking, NoLookup
    <2>2. now \in Nat /\ MaxDelay \in Nat /\ now - now <= MaxDelay
        BY QrCodesAssumption DEF IInv, TypeOK, Time
    <2> QED
        BY <1>2, <2>1, <2>2 DEF LookupSound
<1>3. CASE b # a
    BY <1>1, <1>3, LookupKept DEF IInv, RequestsSound, Asking
<1> QED
    BY <1>2, <1>3

LEMMA LookupAnswered ==
    ASSUME IInv, NEW a \in Askers, Answered(a) \/ UNCHANGED lookup, UNCHANGED <<now, db, shutAt>>
    PROVE  \A b \in Askers : LookupSound(b)'
<1>1. \A b \in Askers : lookup'[b] = lookup[b] \/ lookup'[b].pc = "none"
    BY DEF IInv, TypeOK, Answered, NoLookup
<1> QED
    BY <1>1, LookupKept DEF IInv, RequestsSound

LEMMA LookupsStep ==
    ASSUME IInv, Next
    PROVE  \A a \in Askers : LookupSound(a)'
<1> SUFFICES ASSUME NEW a \in Askers
             PROVE  LookupSound(a)'
    OBVIOUS
<1> USE DEF IInv
<1>0. /\ now \in Nat /\ MaxDelay \in Nat /\ MaxTtl \in Nat
      /\ shutAt \in Nat \cup {NoTime}
      /\ LookupSound(a)
      /\ lookup \in [Askers -> [pc : {"none", "cache", "database", "fill", "known"},
                                began : Nat \cup {NoTime}, meta : Meta \cup {NoMeta}]]
    BY QrCodesAssumption DEF TypeOK, Time, RequestsSound
<1>1. CASE Tick
    <2>1. /\ now' = now + 1 /\ UNCHANGED <<db, lookup, shutAt>>
          /\ lookup[a].pc # "none" => now - lookup[a].began < MaxDelay
        BY <1>1 DEF Tick, Recent
    <2> QED
        BY <1>0, <2>1 DEF LookupSound, OfBatch, Running
<1>2. CASE \E began \in Time : Launch(began)
    BY <1>0, <1>2 DEF Launch, OnlyLecturer, LookupSound
<1>3. CASE Withdraw \/ EndSession
    <2> SUFFICES ASSUME lookup[a].pc # "none"
                 PROVE  LookupSound(a)'
        BY <1>3 DEF Withdraw, EndSession, OnlyLecturer, LookupSound
    <2>1. db' # NoMeta
        BY <1>3, BatchShut
    <2>2. lookup[a].pc \in {"fill", "known"} => OfBatch(lookup[a].meta)'
        BY <1>0, <1>3, CopiesStay DEF LookupSound, OfBatch, Withdraw, EndSession, OnlyLecturer
    <2>3. /\ shutAt' = (IF shutAt = NoTime THEN now ELSE shutAt)
          /\ now' = now /\ lookup' = lookup
        BY <1>3 DEF Withdraw, EndSession, Shut, OnlyLecturer
    <2>4. now <= now + MaxTtl + MaxDelay
        BY <1>0
    <2> QED
        BY <1>0, <2>1, <2>2, <2>3, <2>4 DEF LookupSound, Running, OfBatch
<1>4. CASE \E c \in cacheCalls : CallCache(c)
    BY <1>0, <1>4, LookupKept DEF CallCache
<1>5. CASE \E b \in Askers : FillCache(b)
    <2>1. PICK b \in Askers : FillCache(b)
        BY <1>5
    <2>2. UNCHANGED <<now, db, shutAt>> /\ lookup[b].pc = "fill"
          /\ lookup' = [lookup EXCEPT ![b].pc = "known"]
        BY <2>1 DEF FillCache, OnlyLookup
    <2>3. CASE a # b
        BY <1>0, <2>2, <2>3, LookupKept
    <2>4. CASE a = b
        <3>1. lookup'[a] = [lookup[a] EXCEPT !.pc = "known"]
            BY <1>0, <2>2, <2>4
        <3>2. Running(lookup[a].meta) /\ shutAt # NoTime =>
                  lookup[a].began <= shutAt + MaxTtl + MaxDelay
            BY <1>0, <2>2, <2>4 DEF LookupSound
        <3> QED
            BY <1>0, <2>2, <2>4, <3>1, <3>2 DEF LookupSound, OfBatch, Running
    <2> QED
        BY <2>3, <2>4
<1>6. CASE \E b \in Askers : ReadCache(b)
    <2>1. PICK b \in Askers : ReadCache(b)
        BY <1>6
    <2>2. UNCHANGED <<now, db, shutAt>> /\ lookup[b].pc = "cache"
        BY <2>1 DEF ReadCache, OnlyLookup
    <2>3. CASE a # b
        BY <1>0, <2>1, <2>2, <2>3, LookupKept DEF ReadCache
    <2>4. CASE a = b /\ cache # NoEntry
                     /\ lookup' = [lookup EXCEPT ![b].pc = "known", ![b].meta = cache.meta]
        <3>1. /\ lookup'[a].pc = "known" /\ lookup'[a].meta = cache.meta
              /\ lookup'[a].began = lookup[a].began
            BY <1>0, <2>4
        <3>2. OfBatch(cache.meta)
            BY <2>4 DEF CacheSound
        <3>3. Running(cache.meta) /\ shutAt # NoTime =>
                  lookup[a].began <= shutAt + MaxTtl + MaxDelay
            BY <1>0, <2>2, <2>4 DEF CacheSound, LookupSound
        <3> QED
            BY <1>0, <2>2, <2>4, <3>1, <3>2, <3>3 DEF LookupSound, OfBatch, Running
    <2>5. CASE a = b /\ lookup' = [lookup EXCEPT ![b].pc = "database"]
        <3>1. lookup'[a].pc = "database" /\ lookup'[a].began = lookup[a].began
            BY <1>0, <2>5
        <3> QED
            BY <1>0, <2>2, <2>5, <3>1 DEF LookupSound
    <2> QED
        BY <2>1, <2>3, <2>4, <2>5 DEF ReadCache
<1>7. CASE \E b \in Askers : ReadDatabase(b)
    <2>1. PICK b \in Askers : ReadDatabase(b)
        BY <1>7
    <2>2. UNCHANGED <<now, db, shutAt>> /\ lookup[b].pc = "database"
          /\ lookup' = [lookup EXCEPT ![b].pc = "fill", ![b].meta = db]
        BY <2>1 DEF ReadDatabase, OnlyLookup
    <2>3. CASE a # b
        BY <1>0, <2>2, <2>3, LookupKept
    <2>4. CASE a = b
        <3>1. lookup'[a].pc = "fill" /\ lookup'[a].meta = db /\ lookup'[a].began = lookup[a].began
            BY <1>0, <2>2, <2>4
        <3>2. db # NoMeta /\ OfBatch(db) /\ (shutAt # NoTime => ~Running(db))
            BY <1>0, <2>2, <2>4 DEF LookupSound, TypeOK, OfBatch, BatchSound
        <3> QED
            BY <1>0, <2>2, <2>4, <3>1, <3>2 DEF LookupSound, OfBatch, Running
    <2> QED
        BY <2>3, <2>4
<1>8. CASE \E s \in Streams : Connect(s) \/ Show(s) \/ Rotate(s) \/ Disconnect(s)
    <2>1. PICK s \in Streams : Connect(s) \/ Show(s) \/ Rotate(s) \/ Disconnect(s)
        BY <1>8
    <2>2. UNCHANGED <<now, db, shutAt>> /\ s \in Askers
        BY <2>1 DEF Connect, Show, Rotate, Disconnect, OnlyStream, Askers
    <2>3. CASE Connect(s)
        BY <2>2, <2>3, LookupBegun DEF Connect
    <2>4. CASE Rotate(s)
        <3>1. screen[s].code # NoCode
            BY <2>4 DEF Rotate, RequestsSound, ScreenSound
        <3>2. db # NoMeta
            BY <3>1 DEF RequestsSound, ScreenSound
        <3> QED
            BY <2>2, <2>4, <3>2, LookupBegun DEF Rotate
    <2>5. CASE Show(s) \/ Disconnect(s)
        BY <2>2, <2>5, LookupAnswered DEF Show, Disconnect
    <2> QED
        BY <2>1, <2>3, <2>4, <2>5
<1>9. CASE \E r \in Scans : \/ \E seq \in 0..((Validity - 1) \div Interval) : Arrive(r, seq)
                            \/ Classify(r) \/ WriteScan(r)
    <2>1. PICK r \in Scans : \/ \E seq \in 0..((Validity - 1) \div Interval) : Arrive(r, seq)
                             \/ Classify(r) \/ WriteScan(r)
        BY <1>9
    <2>2. UNCHANGED <<now, db, shutAt>> /\ r \in Askers
        BY <2>1 DEF Arrive, Classify, WriteScan, OnlyScan, Askers
    <2>3. ASSUME NEW seq, Arrive(r, seq)
          PROVE  LookupSound(a)'
        BY <2>2, <2>3, LookupBegun, LookupAnswered DEF Arrive
    <2>4. CASE Classify(r) \/ WriteScan(r)
        BY <2>2, <2>4, LookupAnswered DEF Classify, WriteScan
    <2> QED
        BY <2>1, <2>3, <2>4
<1> QED
    BY <1>1, <1>2, <1>3, <1>4, <1>5, <1>6, <1>7, <1>8, <1>9, NextCases DEF Answering

\* What a lookup that is known may show: a code of the batch, of the instant the
\* request began.
LEMMA KnownCode ==
    ASSUME IInv, NEW a \in Askers, lookup[a].pc = "known",
           Valid(lookup[a].meta, lookup[a].began)
    PROVE  LET code == CurrentCode(lookup[a].meta, lookup[a].began)
           IN  /\ code \in Code
               /\ code.from = Window(db.activated, code.seq).from
               /\ code.to = LeastOf(Window(db.activated, code.seq).to, db.expires)
               /\ code.from <= lookup[a].began /\ lookup[a].began < code.to
               /\ lookup[a].began < Window(db.activated, code.seq).to
               /\ lookup[a].began < db.expires
<1>1. /\ OfBatch(lookup[a].meta) /\ lookup[a].began \in Nat
      /\ lookup[a].meta \in Meta
      /\ lookup[a].meta.activated = db.activated /\ lookup[a].meta.expires = db.expires
    BY DEF IInv, RequestsSound, LookupSound, OfBatch
<1>2. lookup[a].began < lookup[a].meta.expires
    BY DEF Valid
<1> QED
    BY <1>1, <1>2, CodeOfInstant

LEMMA ScreensStep ==
    ASSUME IInv, Next
    PROVE  /\ \A s \in Streams : ScreenSound(s)'
           /\ screen' \in [Streams -> [pc : {"off", "asking", "showing"}, code : Code \cup {NoCode}]]
<1> USE DEF IInv
<1>0. /\ screen \in [Streams -> [pc : {"off", "asking", "showing"}, code : Code \cup {NoCode}]]
      /\ lookup \in [Askers -> [pc : {"none", "cache", "database", "fill", "known"},
                                began : Nat \cup {NoTime}, meta : Meta \cup {NoMeta}]]
      /\ \A s \in Streams : ScreenSound(s)
      /\ Streams \subseteq Askers
      /\ now \in Nat
    BY QrCodesAssumption DEF TypeOK, RequestsSound, Askers, Time
<1>1. ASSUME UNCHANGED screen, UNCHANGED db \/ Withdraw \/ EndSession,
             \A s \in Streams : lookup'[s].began = lookup[s].began
      PROVE  \A s \in Streams : ScreenSound(s)'
    <2>1. db # NoMeta => /\ db' # NoMeta /\ db'.activated = db.activated
                         /\ db'.expires = db.expires
        BY <1>1, BatchShut
    <2> QED
        BY <1>0, <1>1, <2>1 DEF ScreenSound
<1>2. CASE Tick \/ Withdraw \/ EndSession \/ \E c \in cacheCalls : CallCache(c)
    BY <1>0, <1>1, <1>2 DEF Tick, Withdraw, EndSession, OnlyLecturer, CallCache
<1>3. CASE \E began \in Time : Launch(began)
    BY <1>0, <1>3 DEF Launch, OnlyLecturer, ScreenSound
<1>4. CASE \E a \in Askers : FillCache(a) \/ ReadCache(a) \/ ReadDatabase(a)
    <2>1. \A s \in Streams : lookup'[s].began = lookup[s].began
        BY <1>0, <1>4 DEF FillCache, ReadCache, ReadDatabase
    <2> QED
        BY <1>0, <1>1, <1>4, <2>1 DEF FillCache, ReadCache, ReadDatabase, OnlyLookup
<1>5. CASE \E r \in Scans : \/ \E seq \in 0..((Validity - 1) \div Interval) : Arrive(r, seq)
                            \/ Classify(r) \/ WriteScan(r)
    <2>1. \A s \in Streams : lookup'[s].began = lookup[s].began
        BY <1>0, <1>5, QrCodesAssumption DEF Arrive, Classify, WriteScan, Asking, Answered
    <2> QED
        BY <1>0, <1>1, <1>5, <2>1 DEF Arrive, Classify, WriteScan, OnlyScan
<1>6. CASE \E s \in Streams : Connect(s) \/ Show(s) \/ Rotate(s) \/ Disconnect(s)
    <2>1. PICK s \in Streams : Connect(s) \/ Show(s) \/ Rotate(s) \/ Disconnect(s)
        BY <1>6
    <2>2. UNCHANGED db
        BY <2>1 DEF Connect, Show, Rotate, Disconnect, OnlyStream
    <2>3. \A t \in Streams \ {s} : screen'[t] = screen[t] /\ lookup'[t] = lookup[t]
        BY <1>0, <2>1 DEF Connect, Show, Rotate, Disconnect, Asking, Answered
    <2>4. \A t \in Streams \ {s} : ScreenSound(t)'
        BY <1>0, <2>2, <2>3 DEF ScreenSound
    <2>5. CASE Connect(s)
        <3>1. screen'[s] = [pc |-> "asking", code |-> NoCode]
            BY <1>0, <2>5 DEF Connect
        <3> QED
            BY <1>0, <2>4, <2>5, <3>1 DEF ScreenSound, Connect
    <2>6. CASE Rotate(s)
        <3>1. /\ screen'[s].code = screen[s].code
              /\ screen'[s].pc = "asking"
              /\ lookup'[s].began = now
            BY <1>0, <2>6 DEF Rotate, Asking, NoLookup
        <3>2. screen[s].code \in Code \cup {NoCode} /\ screen[s].code # NoCode
            BY <1>0, <2>6 DEF Rotate, ScreenSound
        <3>3. screen[s].code.to <= now
            BY <1>0, <2>6, <3>2 DEF Rotate, Code
        <3> QED
            BY <1>0, <2>2, <2>4, <2>6, <3>1, <3>2, <3>3 DEF ScreenSound, Rotate
    <2>7. CASE Disconnect(s)
        <3>1. screen'[s] = [pc |-> "off", code |-> NoCode]
            BY <1>0, <2>7 DEF Disconnect
        <3> QED
            BY <1>0, <2>4, <2>7, <3>1 DEF ScreenSound, Disconnect
    <2>8. CASE Show(s)
        <3> DEFINE code == CurrentCode(lookup[s].meta, lookup[s].began)
        <3>1. screen' = [screen EXCEPT ![s] =
                            IF Valid(lookup[s].meta, lookup[s].began)
                            THEN [pc |-> "showing", code |-> code]
                            ELSE [pc |-> "off", code |-> NoCode]]
            BY <2>8 DEF Show
        <3>2. CASE Valid(lookup[s].meta, lookup[s].began)
            <4>1. /\ code \in Code
                  /\ code.to = LeastOf(Window(db.activated, code.seq).to, db.expires)
                BY <1>0, <2>8, <3>2, KnownCode DEF Show
            <4> HIDE DEF code
            <4>2. screen'[s] = [pc |-> "showing", code |-> code]
                BY <1>0, <3>1, <3>2
            <4>3. code.seq \in Nat /\ code # NoCode
                BY <4>1 DEF Code, NoCode
            <4>4. db # NoMeta
                BY <1>0, <2>8 DEF Show, RequestsSound, LookupSound
            <4>5. ScreenSound(s)'
                BY <2>2, <4>1, <4>2, <4>3, <4>4 DEF ScreenSound
            <4> QED
                BY <1>0, <2>4, <3>1, <3>2, <4>1, <4>5
        <3>3. CASE ~Valid(lookup[s].meta, lookup[s].began)
            <4>1. screen' = [screen EXCEPT ![s] = [pc |-> "off", code |-> NoCode]]
                BY <3>1, <3>3
            <4>2. ScreenSound(s)'
                BY <1>0, <4>1 DEF ScreenSound
            <4> QED
                BY <1>0, <2>4, <4>1, <4>2
        <3> QED
            BY <3>2, <3>3
    <2> QED
        BY <2>1, <2>5, <2>6, <2>7, <2>8
<1> QED
    BY <1>2, <1>3, <1>4, <1>5, <1>6, NextCases DEF Answering

\* What the classification of a known lookup says of the batch as it is.
LEMMA KnownVerdict ==
    ASSUME IInv, NEW r \in Scans, lookup[r].pc = "known", scan[r].pc = "asking", scan[r].code \in Int
    PROVE  LET verdict == ClassifyDynamic(lookup[r].meta, lookup[r].began, scan[r].code)
           IN  /\ verdict \in Verdicts \ {"none"}
               /\ verdict = "closed" => ~Running(db)
               /\ verdict = "accepted" =>
                     /\ scan[r].arrived \in Nat /\ scan[r].arrived <= now
                     /\ scan[r].arrived < db.expires
                     /\ Window(db.activated, scan[r].code).from <= scan[r].arrived
                     /\ scan[r].arrived < Window(db.activated, scan[r].code).to
<1> DEFINE meta    == lookup[r].meta
           began   == lookup[r].began
           verdict == ClassifyDynamic(meta, began, scan[r].code)
<1>1. /\ r \in Askers /\ LookupSound(r) /\ ScanSound(r)
      /\ OfBatch(meta) /\ began \in Nat /\ began <= now /\ began = scan[r].arrived
    BY DEF IInv, RequestsSound, LookupSound, ScanSound, Askers
<1>2. verdict \in Verdicts \ {"none"}
    BY DEF ClassifyDynamic, Verdicts
<1>3. ASSUME verdict = "closed"
      PROVE  ~Running(db)
    <2>1. ~(meta.session = "active" /\ meta.status = "active")
        BY <1>3 DEF ClassifyDynamic
    <2> QED
        BY <1>1, <2>1 DEF OfBatch, Running
<1>4. ASSUME verdict = "accepted"
      PROVE  /\ scan[r].arrived \in Nat /\ scan[r].arrived <= now
             /\ scan[r].arrived < db.expires
             /\ Window(db.activated, scan[r].code).from <= scan[r].arrived
             /\ scan[r].arrived < Window(db.activated, scan[r].code).to
    <2>1. Valid(meta, began) /\ scan[r].code = CurrentCode(meta, began).seq
        BY <1>4 DEF ClassifyDynamic
    <2>2. LET code == CurrentCode(meta, began)
          IN  /\ code.from = Window(db.activated, code.seq).from
              /\ code.from <= began
              /\ began < Window(db.activated, code.seq).to
              /\ began < db.expires
        BY <1>1, <2>1, KnownCode
    <2> QED
        BY <1>1, <2>1, <2>2
<1> QED
    BY <1>2, <1>3, <1>4

ScanRow == [pc : {"idle", "asking", "classified", "answered"},
            code : Int, arrived : Nat \cup {NoTime}, verdict : Verdicts]

LEMMA AnswerRow ==
    ASSUME NEW verdict \in Verdicts
    PROVE  /\ Answer(verdict) \in ScanRow
           /\ Answer(verdict).pc = "answered" /\ Answer(verdict).verdict = verdict
<1>1. NoScan \in ScanRow
    BY DEF NoScan, ScanRow, Verdicts
<1> QED
    BY <1>1 DEF Answer, ScanRow

LEMMA ScansStep ==
    ASSUME IInv, Next
    PROVE  /\ \A r \in Scans : ScanSound(r)'
           /\ scan' \in [Scans -> ScanRow]
<1> USE DEF IInv
<1>0. /\ scan \in [Scans -> ScanRow]
      /\ lookup \in [Askers -> [pc : {"none", "cache", "database", "fill", "known"},
                                began : Nat \cup {NoTime}, meta : Meta \cup {NoMeta}]]
      /\ \A r \in Scans : ScanSound(r)
      /\ Scans \subseteq Askers
      /\ now \in Nat
      /\ ScanRow = [pc : {"idle", "asking", "classified", "answered"},
                    code : Int, arrived : Nat \cup {NoTime}, verdict : Verdicts]
    BY QrCodesAssumption DEF TypeOK, RequestsSound, Askers, Time, ScanRow
<1>1. ASSUME UNCHANGED scan, UNCHANGED db \/ Withdraw \/ EndSession, now' = now \/ now' = now + 1,
             \A r \in Scans : lookup'[r].began = lookup[r].began
      PROVE  \A r \in Scans : ScanSound(r)'
    <2>1. db # NoMeta => /\ db' # NoMeta /\ db'.activated = db.activated
                         /\ db'.expires = db.expires
                         /\ ~Running(db) => ~Running(db)'
        BY <1>1, BatchShut DEF Running
    <2> QED
        BY <1>0, <1>1, <2>1 DEF ScanSound
<1>2. CASE Tick \/ Withdraw \/ EndSession \/ \E c \in cacheCalls : CallCache(c)
    BY <1>0, <1>1, <1>2 DEF Tick, Withdraw, EndSession, OnlyLecturer, CallCache
<1>3. CASE \E began \in Time : Launch(began)
    <2>1. db = NoMeta /\ UNCHANGED scan
        BY <1>3 DEF Launch, OnlyLecturer
    <2> QED
        BY <1>0, <2>1 DEF ScanSound
<1>4. CASE \E a \in Askers : FillCache(a) \/ ReadCache(a) \/ ReadDatabase(a)
    <2>1. \A r \in Scans : lookup'[r].began = lookup[r].began
        BY <1>0, <1>4 DEF FillCache, ReadCache, ReadDatabase
    <2> QED
        BY <1>0, <1>1, <1>4, <2>1 DEF FillCache, ReadCache, ReadDatabase, OnlyLookup
<1>5. CASE \E s \in Streams : Connect(s) \/ Show(s) \/ Rotate(s) \/ Disconnect(s)
    <2>1. \A r \in Scans : lookup'[r].began = lookup[r].began
        BY <1>0, <1>5, QrCodesAssumption DEF Connect, Show, Rotate, Disconnect, Asking, Answered
    <2> QED
        BY <1>0, <1>1, <1>5, <2>1 DEF Connect, Show, Rotate, Disconnect, OnlyStream
<1>6. CASE \E r \in Scans : \/ \E seq \in 0..((Validity - 1) \div Interval) : Arrive(r, seq)
                            \/ Classify(r) \/ WriteScan(r)
    <2>1. PICK r \in Scans : \/ \E seq \in 0..((Validity - 1) \div Interval) : Arrive(r, seq)
                             \/ Classify(r) \/ WriteScan(r)
        BY <1>6
    <2>2. UNCHANGED <<db, now>>
        BY <2>1 DEF Arrive, Classify, WriteScan, OnlyScan
    <2>3. \A t \in Scans \ {r} : scan'[t] = scan[t] /\ lookup'[t] = lookup[t]
        BY <1>0, <2>1 DEF Arrive, Classify, WriteScan, Asking, Answered
    <2>4. \A t \in Scans \ {r} : ScanSound(t)'
        BY <1>0, <2>2, <2>3 DEF ScanSound, Running
    <2>5. ASSUME NEW verdict \in Verdicts, scan' = [scan EXCEPT ![r] = Answer(verdict)], db # NoMeta
          PROVE  /\ \A t \in Scans : ScanSound(t)'
                 /\ scan' \in [Scans -> ScanRow]
        <3>1. scan'[r] = Answer(verdict) /\ scan'[r].pc = "answered" /\ scan'[r] \in ScanRow
            BY <1>0, <2>5, AnswerRow
        <3>2. ScanSound(r)'
            BY <2>2, <2>5, <3>1 DEF ScanSound
        <3>3. scan' \in [Scans -> ScanRow]
            BY <1>0, <2>5, <3>1
        <3> QED
            BY <2>4, <3>2, <3>3
    <2>6. ASSUME NEW seq \in 0..((Validity - 1) \div Interval), Arrive(r, seq)
          PROVE  /\ \A t \in Scans : ScanSound(t)'
                 /\ scan' \in [Scans -> ScanRow]
        <3>1. CASE scan' = [scan EXCEPT ![r] = Answer("accepted")]
            BY <2>5, <2>6, <3>1 DEF Arrive, Verdicts
        <3>2. CASE /\ scan' = [scan EXCEPT ![r] = [pc |-> "asking", code |-> seq,
                                                   arrived |-> now, verdict |-> "none"]]
                   /\ Asking(r)
            <4>1. /\ scan'[r] = [pc |-> "asking", code |-> seq, arrived |-> now, verdict |-> "none"]
                  /\ lookup'[r].began = now
                BY <1>0, <3>2 DEF Asking, NoLookup
            <4>2. seq \in Int
                OBVIOUS
            <4> QED
                BY <1>0, <2>2, <2>4, <2>6, <3>2, <4>1, <4>2 DEF ScanSound, Arrive, Verdicts
        <3> QED
            BY <2>6, <3>1, <3>2 DEF Arrive
    <2>7. CASE Classify(r)
        <3> DEFINE verdict == ClassifyDynamic(lookup[r].meta, lookup[r].began, scan[r].code)
        <3>1. /\ scan[r].pc = "asking" /\ lookup[r].pc = "known" /\ scan[r].code \in Int
              /\ db # NoMeta
            BY <1>0, <2>7 DEF Classify, ScanSound
        <3>2. /\ verdict \in Verdicts \ {"none"}
              /\ verdict = "closed" => ~Running(db)
              /\ verdict = "accepted" =>
                    /\ scan[r].arrived \in Nat /\ scan[r].arrived <= now
                    /\ scan[r].arrived < db.expires
                    /\ Window(db.activated, scan[r].code).from <= scan[r].arrived
                    /\ scan[r].arrived < Window(db.activated, scan[r].code).to
            BY <3>1, KnownVerdict
        <3>3. scan' = [scan EXCEPT ![r] =
                          IF verdict = "accepted"
                          THEN [@ EXCEPT !.pc = "classified", !.verdict = verdict]
                          ELSE [Answer(verdict) EXCEPT !.pc = "classified"]]
            BY <2>7 DEF Classify
        <3> HIDE DEF verdict
        <3>4. CASE verdict = "accepted"
            <4>1. scan'[r] = [scan[r] EXCEPT !.pc = "classified", !.verdict = verdict]
                BY <1>0, <3>3, <3>4
            <4>2. /\ scan'[r].pc = "classified" /\ scan'[r].verdict = "accepted"
                  /\ scan'[r].code = scan[r].code /\ scan'[r].arrived = scan[r].arrived
                BY <1>0, <3>4, <4>1
            <4>3. ScanSound(r)'
                BY <2>2, <3>1, <3>2, <3>4, <4>2 DEF ScanSound
            <4>4. scan'[r] \in ScanRow
                <5>1. scan[r] \in ScanRow /\ verdict \in Verdicts
                    BY <1>0, <3>2
                <5> QED
                    BY <4>1, <5>1 DEF ScanRow
            <4>5. scan' = [scan EXCEPT ![r] = scan'[r]]
                BY <1>0, <3>3
            <4>6. scan' \in [Scans -> ScanRow]
                BY <1>0, <4>4, <4>5
            <4> QED
                BY <2>4, <4>3, <4>6
        <3>5. CASE verdict # "accepted"
            <4>1. scan'[r] = [pc |-> "classified", code |-> -1, arrived |-> NoTime,
                              verdict |-> verdict]
                BY <1>0, <3>3, <3>5 DEF Answer, NoScan
            <4>2. ScanSound(r)'
                BY <2>2, <3>1, <3>2, <3>5, <4>1 DEF ScanSound, Running
            <4> QED
                BY <1>0, <2>4, <3>2, <3>3, <3>5, <4>1, <4>2
        <3> QED
            BY <3>4, <3>5
    <2>8. CASE WriteScan(r)
        <3> DEFINE verdict == IF PassedMeanwhile(r) THEN "accepted"
                              ELSE Rechecked(scan[r].verdict)
        <3>1. scan' = [scan EXCEPT ![r] = Answer(verdict)] /\ db # NoMeta
            BY <1>0, <2>8 DEF WriteScan, ScanSound
        <3>2. verdict \in Verdicts
            BY <1>0 DEF Rechecked, Verdicts
        <3> QED
            BY <2>5, <3>1, <3>2
    <2> QED
        BY <2>1, <2>6, <2>7, <2>8
<1> QED
    BY <1>2, <1>3, <1>4, <1>5, <1>6, NextCases DEF Answering

-----------------------------------------------------------------------------
(* The invariant holds.                                                    *)

LEMMA TypesStep ==
    ASSUME IInv, Next
    PROVE  TypeOK'
<1> USE DEF IInv
<1>0. TypeOK /\ NoTime \notin Nat
    BY QrCodesAssumption
<1>1. now' \in Time /\ party' \in Parties
    BY <1>0, QrCodesAssumption, NextCases, AnsweringWritesNothing DEF TypeOK, Time, Tick, Launch, Withdraw,
        EndSession, OnlyLecturer, CallCache, FillCache, OnlyLookup
<1>2. db' \in Meta \cup {NoMeta} /\ shutAt' \in Nat \cup {NoTime}
    BY BatchStep
<1>3. cache' \in [meta : Meta \cup {NoMeta}, until : Nat \cup {NoTime}]
    <2>1. NoEntry \in [meta : Meta \cup {NoMeta}, until : Nat \cup {NoTime}]
        BY DEF NoEntry
    <2>2. ASSUME NEW c \in cacheCalls, CallCache(c)
          PROVE  cache' \in [meta : Meta \cup {NoMeta}, until : Nat \cup {NoTime}]
        <3>1. CASE c.call = "set" /\ SetCache(c.meta, c.began)
            <4>1. /\ c.began \in Nat /\ c.began <= now /\ now - c.began <= MaxDelay
                  /\ OfBatch(c.meta) /\ db # NoMeta
                  /\ shutAt # NoTime => c.began <= shutAt
                BY <3>1 DEF TypeOK, CallsSound
            <4> QED
                BY <2>2, <3>1, <4>1, CacheSet DEF CallCache
        <3> QED
            BY <1>0, <2>1, <2>2, <3>1 DEF CallCache, TypeOK
    <2>3. ASSUME NEW a \in Askers, FillCache(a)
          PROVE  cache' \in [meta : Meta \cup {NoMeta}, until : Nat \cup {NoTime}]
        <3>1. LookupSound(a) /\ lookup[a].pc = "fill"
            BY <2>3 DEF FillCache, RequestsSound
        <3> QED
            BY <1>0, <2>3, <3>1, CacheSet DEF FillCache, OnlyLookup, LookupSound, TypeOK
    <2> QED
        BY <1>0, <2>1, <2>2, <2>3, NextCases, AnsweringWritesNothing DEF TypeOK, Tick, Launch,
            Withdraw, EndSession, OnlyLecturer
<1>4. cacheCalls' \subseteq [call : {"set", "delete"}, meta : Meta \cup {NoMeta}, began : Nat]
    <2>1. now \in Nat /\ cacheCalls \subseteq [call : {"set", "delete"}, meta : Meta \cup {NoMeta},
                                               began : Nat]
        BY QrCodesAssumption DEF TypeOK, Time
    <2>2. ASSUME NEW began \in Time, Launch(began)
          PROVE  cacheCalls' \subseteq [call : {"set", "delete"}, meta : Meta \cup {NoMeta}, began : Nat]
        <3>1. began \in Nat /\ cacheCalls' = {[call |-> "set", meta |-> db', began |-> began]}
            BY <2>2 DEF Launch, Time
        <3> QED
            BY <1>2, <3>1
    <2>3. CASE Withdraw
        BY <2>1, <2>3 DEF Withdraw
    <2> QED
        BY <2>1, <2>2, <2>3, NextCases, AnsweringWritesNothing DEF Tick, EndSession,
            CallCache, FillCache, OnlyLookup
<1>5. lookup' \in [Askers -> [pc : {"none", "cache", "database", "fill", "known"},
                              began : Nat \cup {NoTime}, meta : Meta \cup {NoMeta}]]
    <2>1. /\ lookup \in [Askers -> [pc : {"none", "cache", "database", "fill", "known"},
                                    began : Nat \cup {NoTime}, meta : Meta \cup {NoMeta}]]
          /\ now \in Nat /\ db \in Meta \cup {NoMeta} /\ cache.meta \in Meta \cup {NoMeta}
        BY QrCodesAssumption DEF TypeOK, Time
    <2>2. ASSUME NEW a \in Askers, Asking(a) \/ Answered(a)
          PROVE  lookup' \in [Askers -> [pc : {"none", "cache", "database", "fill", "known"},
                              began : Nat \cup {NoTime}, meta : Meta \cup {NoMeta}]]
        <3>1. \/ lookup' = [lookup EXCEPT ![a] = [pc |-> "cache", began |-> now, meta |-> NoMeta]]
              \/ lookup' = [lookup EXCEPT ![a] = [pc |-> "none", began |-> NoTime, meta |-> NoMeta]]
            BY <2>2 DEF Asking, Answered, NoLookup
        <3> QED
            BY <2>1, <3>1
    <2>3. ASSUME NEW a \in Askers, ReadCache(a) \/ ReadDatabase(a) \/ FillCache(a)
          PROVE  lookup' \in [Askers -> [pc : {"none", "cache", "database", "fill", "known"},
                              began : Nat \cup {NoTime}, meta : Meta \cup {NoMeta}]]
        BY <2>1, <2>3 DEF ReadCache, ReadDatabase, FillCache
    <2>4. CASE Answering
        BY <2>1, <2>2, <2>3, <2>4 DEF Answering, Connect, Show, Rotate, Disconnect,
            Arrive, Classify, WriteScan, Askers
    <2> QED
        BY <2>1, <2>3, <2>4, NextCases DEF Tick, Launch, Withdraw, EndSession, OnlyLecturer, CallCache
<1>6. accepts' \in Nat
    <2>1. accepts \in Nat
        BY DEF TypeOK
    <2>2. CASE UNCHANGED accepts
        BY <2>1, <2>2
    <2>3. CASE \E r \in Scans : WriteScan(r)
        BY <2>1, <2>3 DEF WriteScan
    <2> QED
        BY <2>2, <2>3 DEF Next, Tick, Lecturer, Launch, Withdraw, EndSession, OnlyLecturer, CallCache, LookupStep,
            ReadCache, ReadDatabase, FillCache, OnlyLookup, Connect, Show, Rotate, Disconnect, OnlyStream,
            Arrive, Classify
<1> QED
    BY <1>1, <1>2, <1>3, <1>4, <1>5, <1>6, ScreensStep, ScansStep DEF TypeOK, ScanRow

LEMMA StepSound ==
    ASSUME IInv, [Next]_vars
    PROVE  IInv'
<1>1. CASE Next
    BY <1>1, TypesStep, BatchStep, CacheStep, CallsStep, LookupsStep, ScreensStep, ScansStep
        DEF IInv, RequestsSound, Askers
<1>2. CASE UNCHANGED vars
    BY <1>2 DEF vars, IInv, TypeOK, BatchSound, CacheSound, CallsSound, RequestsSound, LookupSound,
        ScreenSound, ScanSound, OfBatch, Running
<1> QED
    BY <1>1, <1>2

LEMMA AlwaysSound == Spec => []IInv
BY InitSound, StepSound, PTL DEF Spec

\* What is cached, looked up, shown and classified keeps its type: in particular
\* each code shown has a window of natural instants.
THEOREM TypeCorrect == Spec => []TypeOK
<1>1. IInv => TypeOK
    BY DEF IInv
<1> QED
    BY <1>1, AlwaysSound, PTL

-----------------------------------------------------------------------------
(* Scans.                                                                  *)

LEMMA AcceptsMove ==
    ASSUME IInv, [Next]_vars
    PROVE  UNCHANGED accepts \/ \E r \in Scans : WriteScan(r)
BY DEF vars, Next, Tick, Lecturer, Launch, Withdraw, EndSession, OnlyLecturer, CallCache, LookupStep,
    ReadCache, ReadDatabase, FillCache, OnlyLookup, Connect, Show, Rotate, Disconnect, OnlyStream,
    Arrive, Classify

\* A scan that adds a row found none, the batch open and its code accepted.
LEMMA AddsRow ==
    ASSUME IInv, NEW r \in Scans, WriteScan(r), accepts' # accepts
    PROVE  /\ accepts = 0 /\ accepts' = 1
           /\ Open(db, now)
           /\ scan[r].pc = "classified" /\ scan[r].verdict = "accepted"
<1>1. accepts \in Nat
    BY DEF IInv, TypeOK
<1>2. ~PassedMeanwhile(r) /\ Rechecked(scan[r].verdict) = "accepted" /\ accepts' = accepts + 1
    BY DEF WriteScan
<1>3. Open(db, now) /\ scan[r].verdict = "accepted" /\ ~(accepts > 0)
    BY <1>2 DEF Rechecked, PassedMeanwhile
<1> QED
    BY <1>1, <1>2, <1>3 DEF WriteScan

\* However many of a student's scans race each other, from however many devices,
\* they leave one accepted row.
THEOREM OneRowPerStudent == Spec => []AcceptedOnce
<1>1. Init => AcceptedOnce
    BY DEF Init, AcceptedOnce
<1>2. IInv /\ AcceptedOnce /\ [Next]_vars => AcceptedOnce'
    BY AcceptsMove, AddsRow DEF AcceptedOnce
<1> QED
    BY <1>1, <1>2, AlwaysSound, PTL DEF Spec

\* However old the cached metadata and however long the scan waited for its
\* locks, an accepted row is written on an open batch, for a code that was the
\* current one at an instant after the request arrived.
THEOREM AcceptedCodesAreCurrent == Spec => AcceptedWasCurrent
<1> DEFINE Current ==
        accepts' > accepts =>
          /\ Open(db, now)
          /\ \E r \in Scans : /\ scan'[r].pc # scan[r].pc
                              /\ CurrentIn(scan[r].code, scan[r].arrived, now)
<1>1. ASSUME IInv, [Next]_vars
      PROVE  Current
    <2> SUFFICES ASSUME accepts' > accepts
                 PROVE  /\ Open(db, now)
                        /\ \E r \in Scans : /\ scan'[r].pc # scan[r].pc
                                            /\ CurrentIn(scan[r].code, scan[r].arrived, now)
        OBVIOUS
    <2>1. accepts' # accepts
        BY <1>1 DEF IInv, TypeOK
    <2>2. PICK r \in Scans : WriteScan(r)
        BY <1>1, <2>1, AcceptsMove
    <2>3. Open(db, now) /\ scan[r].pc = "classified" /\ scan[r].verdict = "accepted"
        BY <1>1, <2>1, <2>2, AddsRow
    <2>4. /\ scan[r].arrived \in Nat /\ scan[r].arrived <= now
          /\ scan[r].arrived < db.expires
          /\ Window(db.activated, scan[r].code).from <= scan[r].arrived
          /\ scan[r].arrived < Window(db.activated, scan[r].code).to
        BY <1>1, <2>3 DEF IInv, RequestsSound, ScanSound
    <2>5. scan[r].arrived \in scan[r].arrived..now
        BY <1>1, <2>4, QrCodesAssumption DEF IInv, TypeOK, Time
    <2>6. CurrentIn(scan[r].code, scan[r].arrived, now)
        BY <2>4, <2>5 DEF CurrentIn, Window
    <2>7. scan'[r].pc = "answered"
        <3> DEFINE verdict == IF PassedMeanwhile(r) THEN "accepted"
                              ELSE Rechecked(scan[r].verdict)
        <3>1. scan' = [scan EXCEPT ![r] = Answer(verdict)]
            BY <2>2 DEF WriteScan
        <3>2. verdict \in Verdicts
            BY <1>1 DEF Rechecked, Verdicts, IInv, TypeOK
        <3> HIDE DEF verdict
        <3>3. Answer(verdict).pc = "answered"
            BY <3>2, AnswerRow
        <3> QED
            BY <1>1, <3>1, <3>3 DEF IInv, TypeOK
    <2> QED
        BY <2>3, <2>6, <2>7
<1> HIDE DEF Current
<1>2. IInv /\ [Next]_vars => [Current]_vars
    BY <1>1
<1>3. Spec => [][Current]_vars
    BY <1>2, AlwaysSound, PTL DEF Spec
<1> QED
    BY <1>3 DEF AcceptedWasCurrent, Current

\* A retry hears "accepted" while the batch is open, whichever of the student's
\* requests wrote the row and whatever code the retry carries: no stale entry of
\* the cache turns it into a refusal for good.
THEOREM RetriesHearAccepted == Spec => RetriesAccepted
<1> DEFINE Heard ==
        \A r \in Scans :
          scan[r].pc # "answered" /\ scan'[r].pc = "answered" /\ accepts > 0 /\ Open(db, now)
              => scan'[r].verdict = "accepted"
<1>1. ASSUME IInv, [Next]_vars
      PROVE  Heard
    <2> SUFFICES ASSUME NEW r \in Scans, scan[r].pc # "answered", scan'[r].pc = "answered",
                        accepts > 0, Open(db, now)
                 PROVE  scan'[r].verdict = "accepted"
        OBVIOUS
    <2>0. scan \in [Scans -> ScanRow] /\ "accepted" \in Verdicts
        BY <1>1 DEF IInv, TypeOK, ScanRow, Verdicts
    <2>1. CASE scan'[r] = scan[r]
        BY <2>1
    <2>2. ASSUME NEW q \in Scans, NEW seq, Arrive(q, seq)
          PROVE  scan'[r].verdict = "accepted"
        <3>1. scan' = [scan EXCEPT ![q] = Answer("accepted")]
            BY <2>2 DEF Arrive
        <3> QED
            BY <2>0, <2>1, <3>1, AnswerRow
    <2>3. ASSUME NEW q \in Scans, Classify(q)
          PROVE  scan'[r].verdict = "accepted"
        <3> DEFINE verdict == ClassifyDynamic(lookup[q].meta, lookup[q].began, scan[q].code)
        <3>1. verdict \in Verdicts
            BY DEF ClassifyDynamic, Verdicts
        <3>2. scan' = [scan EXCEPT ![q] =
                          IF verdict = "accepted"
                          THEN [@ EXCEPT !.pc = "classified", !.verdict = verdict]
                          ELSE [Answer(verdict) EXCEPT !.pc = "classified"]]
            BY <2>3 DEF Classify
        <3> HIDE DEF verdict
        <3>3. Answer(verdict) \in ScanRow
            BY <3>1, AnswerRow
        <3>4. scan'[q].pc = "classified"
            BY <2>0, <3>2, <3>3 DEF ScanRow
        <3> QED
            BY <2>0, <2>1, <3>2, <3>4
    <2>4. ASSUME NEW q \in Scans, WriteScan(q)
          PROVE  scan'[r].verdict = "accepted"
        <3>1. scan[q].pc = "classified" /\ Running(db)
            BY <2>4 DEF WriteScan, Open, SessionRuns, Running
        <3>2. scan[q].verdict # "closed"
            BY <1>1, <3>1 DEF IInv, RequestsSound, ScanSound
        <3>3. PassedMeanwhile(q)
            BY <3>2 DEF PassedMeanwhile, Rechecked
        <3>4. scan' = [scan EXCEPT ![q] = Answer("accepted")]
            BY <2>4, <3>3 DEF WriteScan
        <3> QED
            BY <2>0, <2>1, <3>4, AnswerRow
    <2> QED
        BY <1>1, <2>1, <2>2, <2>3, <2>4 DEF vars, Next, Tick, Lecturer, Launch, Withdraw, EndSession,
            OnlyLecturer, CallCache, LookupStep, ReadCache, ReadDatabase, FillCache, OnlyLookup,
            Connect, Show, Rotate, Disconnect, OnlyStream
<1> HIDE DEF Heard
<1>2. IInv /\ [Next]_vars => [Heard]_vars
    BY <1>1
<1>3. Spec => [][Heard]_vars
    BY <1>2, AlwaysSound, PTL DEF Spec
<1> QED
    BY <1>3 DEF RetriesAccepted, Heard

-----------------------------------------------------------------------------
(* Screens.                                                                *)

LEMMA ShownByShow ==
    ASSUME IInv, [Next]_vars, NEW s \in Streams,
           screen[s].pc = "asking", screen'[s].pc = "showing"
    PROVE  /\ Show(s)
           /\ Valid(lookup[s].meta, lookup[s].began)
           /\ screen'[s].code = CurrentCode(lookup[s].meta, lookup[s].began)
<1>1. screen \in [Streams -> [pc : {"off", "asking", "showing"}, code : Code \cup {NoCode}]]
    BY DEF IInv, TypeOK
<1>2. ASSUME UNCHANGED screen
      PROVE  FALSE
    BY <1>2
<1>3. ASSUME NEW t \in Streams, Connect(t) \/ Rotate(t) \/ Disconnect(t)
      PROVE  FALSE
    BY <1>1, <1>3 DEF Connect, Rotate, Disconnect
<1>4. PICK t \in Streams : Show(t)
    BY <1>2, <1>3 DEF vars, Next, Tick, Lecturer, Launch, Withdraw, EndSession, OnlyLecturer, CallCache,
        LookupStep, ReadCache, ReadDatabase, FillCache, OnlyLookup, Arrive, Classify, WriteScan, OnlyScan
<1>5. screen' = [screen EXCEPT ![t] =
                    IF Valid(lookup[t].meta, lookup[t].began)
                    THEN [pc |-> "showing", code |-> CurrentCode(lookup[t].meta, lookup[t].began)]
                    ELSE [pc |-> "off", code |-> NoCode]]
    BY <1>4 DEF Show
<1>6. t = s /\ Valid(lookup[s].meta, lookup[s].began)
    BY <1>1, <1>5
<1> QED
    BY <1>1, <1>4, <1>5, <1>6

\* What a screen shows is the code of the instant its request began, later in
\* the sequence than the one before, and never further behind a withdrawal than
\* the cap of the cache and two slow requests: for any number of screens, with
\* the delete lost, late or overtaken by a fill.
THEOREM CodesShownAreCurrent == Spec => CodesShown
<1> DEFINE Shows ==
        \A s \in Streams :
          screen[s].pc = "asking" /\ screen'[s].pc = "showing" =>
              /\ screen'[s].code.from <= lookup[s].began
              /\ lookup[s].began < screen'[s].code.to
              /\ screen[s].code.seq < screen'[s].code.seq
              /\ shutAt # NoTime => now <= shutAt + MaxTtl + 2 * MaxDelay
<1>1. ASSUME IInv, [Next]_vars
      PROVE  Shows
    <2> SUFFICES ASSUME NEW s \in Streams, screen[s].pc = "asking", screen'[s].pc = "showing"
                 PROVE  /\ screen'[s].code.from <= lookup[s].began
                        /\ lookup[s].began < screen'[s].code.to
                        /\ screen[s].code.seq < screen'[s].code.seq
                        /\ shutAt # NoTime => now <= shutAt + MaxTtl + 2 * MaxDelay
        OBVIOUS
    <2> DEFINE old   == screen[s].code
               new   == screen'[s].code
               began == lookup[s].began
    <2>1. /\ s \in Askers /\ lookup[s].pc = "known"
          /\ Valid(lookup[s].meta, began)
          /\ new = CurrentCode(lookup[s].meta, began)
        BY <1>1, ShownByShow DEF Show, Askers
    <2>2. /\ new \in Code
          /\ new.from = Window(db.activated, new.seq).from
          /\ new.from <= began /\ began < new.to
          /\ began < Window(db.activated, new.seq).to
          /\ began < db.expires
        BY <1>1, <2>1, KnownCode
    <2>3. LookupSound(s) /\ ScreenSound(s)
        BY <1>1, <2>1 DEF IInv, RequestsSound
    <2>4. db \in Meta /\ began \in Nat
        BY <1>1, <2>1, <2>3 DEF IInv, TypeOK, LookupSound
    <2> HIDE DEF old, new, began
    <2>5. old.seq < new.seq
        <3>1. new.seq \in Nat
            BY <2>2 DEF Code
        <3>2. CASE old = NoCode
            BY <3>1, <3>2 DEF NoCode
        <3>3. CASE old # NoCode
            <4>1. /\ old.seq \in Nat
                  /\ old.to = LeastOf(Window(db.activated, old.seq).to, db.expires)
                  /\ old.to <= began
                BY <2>3, <3>3 DEF ScreenSound, old, began
            <4> DEFINE ended == (old.seq + 1) * Interval
                       ends  == (new.seq + 1) * Interval
            <4>2. ended \in Nat /\ ends \in Nat /\ db.activated \in Nat /\ db.expires \in Nat
                BY <2>4, <3>1, <4>1, QrCodesAssumption DEF Meta
            <4>3. /\ Window(db.activated, old.seq).to = db.activated + ended
                  /\ Window(db.activated, new.seq).to = db.activated + ends
                BY DEF Window
            <4> HIDE DEF ended, ends
            <4>4. ended < ends
                BY <2>2, <2>4, <4>1, <4>2, <4>3 DEF LeastOf
            <4>5. old.seq + 1 < new.seq + 1
                BY <3>1, <4>1, <4>4, WindowsInOrder DEF ended, ends
            <4> QED
                BY <3>1, <4>1, <4>5
        <3> QED
            BY <3>2, <3>3
    <2>6. ASSUME shutAt # NoTime
          PROVE  now <= shutAt + MaxTtl + 2 * MaxDelay
        <3>1. Running(lookup[s].meta)
            BY <2>1 DEF Valid, SessionRuns, Running
        <3>2. began <= shutAt + MaxTtl + MaxDelay /\ now - began <= MaxDelay
            BY <2>1, <2>3, <2>6, <3>1 DEF LookupSound, began
        <3>3. shutAt \in Nat /\ now \in Nat /\ MaxTtl \in Nat /\ MaxDelay \in Nat
            BY <1>1, <2>6, QrCodesAssumption DEF IInv, TypeOK, Time
        <3> QED
            BY <2>4, <3>2, <3>3
    <2> QED
        BY <2>2, <2>5, <2>6 DEF old, new, began
<1> HIDE DEF Shows
<1>2. IInv /\ [Next]_vars => [Shows]_vars
    BY <1>1
<1>3. Spec => [][Shows]_vars
    BY <1>2, AlwaysSound, PTL DEF Spec
<1> QED
    BY <1>3 DEF CodesShown, Shows

=============================================================================
