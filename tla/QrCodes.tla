------------------------------- MODULE QrCodes -------------------------------
(***************************************************************************)
(* One dynamic QR batch: its rotating code, the lecturer's stream of it,   *)
(* the Redis copy of its metadata and the scans of its codes (qr_session). *)
(* Several processes answer requests; each reads its clock once and goes   *)
(* on with that reading through the cache, the database and the write of   *)
(* the cache, while batch and session change.                              *)
(***************************************************************************)
EXTENDS Integers

CONSTANTS
    Streams,        \* screens of the lecturer
    Scans,          \* requests of one checked-in student
    Interval,       \* refresh_interval_seconds
    Validity,       \* valid_for_seconds
    SchedEnd,       \* scheduled_end_at of the session
    MaxTtl,         \* MAX_QR_BATCH_CACHE_TTL_SECONDS
    Parties,        \* bound: the requests that may occur together
    MaxDelay,       \* bound: the longest a lookup or a cache call is under way
    MaxTime,        \* bound: the last instant of the clock
    NoMeta, NoTime

ASSUME QrCodesAssumption ==
    /\ Interval \in Nat \ {0} /\ Validity \in Nat \ {0}
    /\ SchedEnd \in Nat /\ MaxTtl \in Nat \ {0}
    /\ MaxDelay \in Nat /\ MaxTime \in Nat
    /\ NoTime \notin Nat
    /\ Streams \cap Scans = {}
    /\ Parties \subseteq SUBSET (Streams \cup Scans)

Askers == Streams \cup Scans
Time   == 0..MaxTime

VARIABLES
    now,
    party,      \* the requests of this behaviour
    db,         \* the batch and its session as one statement reads them
    cache,      \* the Redis entry: the metadata and when it expires
    cacheCalls, \* cache writes and deletes that follow a commit
    lookup,     \* get_current_dynamic_qr_session of each request under way
    screen,     \* what each stream shows
    scan,       \* where each scan is
    accepts,    \* how many accepted rows the student has
    shutAt      \* when the batch stopped being open

vars == <<now, party, db, cache, cacheCalls, lookup, screen, scan, accepts, shutAt>>

Meta == [session : {"active", "ended"}, status : {"active", "inactive"},
         activated : Nat, expires : Nat]

ASSUME NoMetaAssumption == NoMeta \notin Meta

\* The window of one code and the sequence number it is computed from.
Code   == [seq : Nat, from : Nat, to : Nat]
NoCode == [seq |-> -1, from |-> -1, to |-> -1]
NoEntry == [meta |-> NoMeta, until |-> NoTime]

NoLookup == [pc |-> "none", began |-> NoTime, meta |-> NoMeta]
NoScan   == [pc |-> "idle", code |-> -1, arrived |-> NoTime, verdict |-> "none"]

Verdicts == {"none", "accepted", "invalid", "expired", "closed"}

TypeOK ==
    /\ now \in Time
    /\ party \in Parties
    /\ db \in Meta \cup {NoMeta}
    /\ cache \in [meta : Meta \cup {NoMeta}, until : Nat \cup {NoTime}]
    /\ cacheCalls \subseteq [call : {"set", "delete"}, meta : Meta \cup {NoMeta}, began : Nat]
    /\ lookup \in [Askers -> [pc : {"none", "cache", "database", "fill", "known"},
                              began : Nat \cup {NoTime}, meta : Meta \cup {NoMeta}]]
    /\ screen \in [Streams -> [pc : {"off", "asking", "showing"}, code : Code \cup {NoCode}]]
    /\ scan \in [Scans -> [pc : {"idle", "asking", "classified", "answered"},
                           code : Int, arrived : Nat \cup {NoTime}, verdict : Verdicts]]
    /\ accepts \in Nat
    /\ shutAt \in Nat \cup {NoTime}

Init ==
    /\ now = 0
    /\ party \in Parties
    /\ db = NoMeta
    /\ cache = NoEntry
    /\ cacheCalls = {}
    /\ lookup = [a \in Askers |-> NoLookup]
    /\ screen = [s \in Streams |-> [pc |-> "off", code |-> NoCode]]
    /\ scan = [r \in Scans |-> NoScan]
    /\ accepts = 0
    /\ shutAt = NoTime

-----------------------------------------------------------------------------
(* The arithmetic of codes: crypto.py.                                     *)

LeastOf(a, b) == IF a < b THEN a ELSE b

Sequence(activated, t) == (t - activated) \div Interval

Window(activated, seq) ==
    [seq |-> seq, from |-> activated + seq * Interval, to |-> activated + (seq + 1) * Interval]

\* The code at time t; its end is cut at the end of the batch.
CurrentCode(meta, t) ==
    LET window == Window(meta.activated, Sequence(meta.activated, t))
    IN  [window EXCEPT !.to = LeastOf(@, meta.expires)]

-----------------------------------------------------------------------------
(* Metadata: checked against the time the request began.                   *)

SessionRuns(meta, t) == meta.session = "active" /\ SchedEnd > t

\* Faulty variant: the end is left to whoever closes the session or the batch.
ValidUntilClosed(meta, t) == meta.session = "active" /\ meta.status = "active"

Valid(meta, t) ==
    /\ SessionRuns(meta, t)
    /\ meta.status = "active"
    /\ meta.activated <= t /\ t < meta.expires

\* What _verification_record_is_closed denies; the end of a dynamic batch is
\* not asked for.
Open(meta, t) == meta # NoMeta /\ SessionRuns(meta, t) /\ meta.status = "active"

\* Faulty variant: the entry lives as long as the batch.
NaturalTtl(meta, t) == meta.expires - t

CacheTtl(meta, t) == LeastOf(meta.expires - t, MaxTtl)

\* SET with EX; a TTL that has run out writes nothing.
SetCache(meta, t) ==
    cache' = IF CacheTtl(meta, t) <= 0 THEN cache
             ELSE [meta |-> meta, until |-> now + CacheTtl(meta, t)]

Shut == shutAt' = IF shutAt = NoTime THEN now ELSE shutAt

OnlyLecturer == UNCHANGED <<now, party, cache, lookup, screen, scan, accepts>>

-----------------------------------------------------------------------------
(* The lecturer's requests.  Each commits and then calls the cache.        *)

\* The clock is read at the beginning, before the session's lock.
Launch(began) ==
    /\ db = NoMeta
    /\ began <= now /\ now - began <= MaxDelay
    /\ SchedEnd > began
    /\ LET meta == [session |-> "active", status |-> "active", activated |-> began,
                    expires |-> LeastOf(began + Validity, SchedEnd)]
       IN  /\ db' = meta
           /\ cacheCalls' = {[call |-> "set", meta |-> meta, began |-> began]}
    /\ UNCHANGED shutAt
    /\ OnlyLecturer

\* Deactivation and voiding.
Withdraw ==
    /\ db # NoMeta
    /\ db.status = "active"
    /\ db' = [db EXCEPT !.status = "inactive"]
    /\ cacheCalls' = cacheCalls \cup {[call |-> "delete", meta |-> NoMeta, began |-> now]}
    /\ Shut
    /\ OnlyLecturer

\* A close, by hand or by the clock, and a cancellation: the transaction deactivates
\* the batch that is still active, and its key is deleted after the commit.
EndSession ==
    /\ db # NoMeta
    /\ db.session = "active"
    /\ db' = [db EXCEPT !.session = "ended", !.status = "inactive"]
    /\ cacheCalls' = IF db.status = "inactive" THEN cacheCalls
                     ELSE cacheCalls \cup {[call |-> "delete", meta |-> NoMeta, began |-> now]}
    /\ Shut
    /\ OnlyLecturer

\* The cache call after a commit; Redis may fail and the failure is swallowed.
CallCache(c) ==
    /\ cacheCalls' = cacheCalls \ {c}
    /\ \/ c.call = "set" /\ SetCache(c.meta, c.began)
       \/ c.call = "delete" /\ cache' = NoEntry
       \/ UNCHANGED cache
    /\ UNCHANGED <<now, party, db, lookup, screen, scan, accepts, shutAt>>

-----------------------------------------------------------------------------
(* get_current_dynamic_qr_session: cache, database, cache.                 *)

Asking(a) == lookup' = [lookup EXCEPT ![a] = [NoLookup EXCEPT !.pc = "cache", !.began = now]]

OnlyLookup == UNCHANGED <<now, party, db, cacheCalls, screen, scan, accepts, shutAt>>

\* A hit is believed; a miss and a Redis error go to the database.
ReadCache(a) ==
    /\ lookup[a].pc = "cache"
    /\ \/ /\ cache # NoEntry
          /\ lookup' = [lookup EXCEPT ![a].pc = "known", ![a].meta = cache.meta]
       \/ lookup' = [lookup EXCEPT ![a].pc = "database"]
    /\ UNCHANGED cache
    /\ OnlyLookup

ReadDatabase(a) ==
    /\ lookup[a].pc = "database"
    /\ lookup' = [lookup EXCEPT ![a].pc = "fill", ![a].meta = db]
    /\ UNCHANGED cache
    /\ OnlyLookup

FillCache(a) ==
    /\ lookup[a].pc = "fill"
    /\ SetCache(lookup[a].meta, lookup[a].began) \/ UNCHANGED cache
    /\ lookup' = [lookup EXCEPT ![a].pc = "known"]
    /\ OnlyLookup

Answered(a) == lookup' = [lookup EXCEPT ![a] = NoLookup]

-----------------------------------------------------------------------------
(* The stream: shows the current code until its end, then asks again.      *)

OnlyStream == UNCHANGED <<now, party, db, cache, cacheCalls, scan, accepts, shutAt>>

\* The screen connects, or reconnects after its stream ended.
Connect(s) ==
    /\ s \in party
    /\ screen[s].pc = "off"
    /\ db # NoMeta
    /\ Asking(s)
    /\ screen' = [screen EXCEPT ![s] = [pc |-> "asking", code |-> NoCode]]
    /\ OnlyStream

Show(s) ==
    /\ screen[s].pc = "asking"
    /\ lookup[s].pc = "known"
    /\ LET meta == lookup[s].meta IN
       screen' = [screen EXCEPT ![s] =
            IF Valid(meta, lookup[s].began)
            THEN [pc |-> "showing", code |-> CurrentCode(meta, lookup[s].began)]
            ELSE [pc |-> "off", code |-> NoCode]]
    /\ Answered(s)
    /\ OnlyStream

\* The sleep is over: the code shown has ended.
Rotate(s) ==
    /\ screen[s].pc = "showing"
    /\ now >= screen[s].code.to
    /\ Asking(s)
    /\ screen' = [screen EXCEPT ![s].pc = "asking"]
    /\ OnlyStream

\* The client disconnects.
Disconnect(s) ==
    /\ screen[s].pc = "showing"
    /\ screen' = [screen EXCEPT ![s] = [pc |-> "off", code |-> NoCode]]
    /\ UNCHANGED lookup
    /\ OnlyStream

-----------------------------------------------------------------------------
(* verify_qr_session, of a student who is on the roster and checked in.    *)

OnlyScan == UNCHANGED <<now, party, db, cache, cacheCalls, screen, shutAt>>

Answer(verdict) == [NoScan EXCEPT !.pc = "answered", !.verdict = verdict]

\* Whoever has passed an open batch has passed it, with any code.  Others have
\* their code classified first, by a clock read for the lookup right after the
\* request's own: `arrived` stands for both.
Arrive(r, seq) ==
    /\ r \in party
    /\ scan[r].pc = "idle"
    /\ db # NoMeta
    /\ IF Open(db, now) /\ accepts > 0
       THEN /\ scan' = [scan EXCEPT ![r] = Answer("accepted")]
            /\ UNCHANGED lookup
       ELSE /\ scan' = [scan EXCEPT ![r] = [pc |-> "asking", code |-> seq,
                                            arrived |-> now, verdict |-> "none"]]
            /\ Asking(r)
    /\ UNCHANGED accepts
    /\ OnlyScan

ClassifyDynamic(meta, t, seq) ==
    IF Valid(meta, t)
    THEN IF seq = CurrentCode(meta, t).seq THEN "accepted" ELSE "invalid"
    ELSE IF meta.session = "active" /\ (SchedEnd <= t \/ meta.status = "active")
         THEN "expired" ELSE "closed"

Classify(r) ==
    /\ scan[r].pc = "asking"
    /\ lookup[r].pc = "known"
    /\ LET verdict == ClassifyDynamic(lookup[r].meta, lookup[r].began, scan[r].code) IN
       scan' = [scan EXCEPT ![r] =
            IF verdict = "accepted" THEN [@ EXCEPT !.pc = "classified", !.verdict = verdict]
            ELSE [Answer(verdict) EXCEPT !.pc = "classified"]]
    /\ Answered(r)
    /\ UNCHANGED accepts
    /\ OnlyScan

\* Faulty variant: the classification stands whatever happened since.
Trusted(verdict) == verdict

\* Under the session's lock the rows are read again, and only the verdict of
\* the code itself is kept.
Rechecked(verdict) == IF Open(db, now) THEN verdict ELSE "closed"

\* Faulty variant: nobody asks for rows written since the first look.
PassedBefore(r) == FALSE

\* Faulty variant: a retry has to carry the current code itself.
PassedIfCurrent(r) == Rechecked(scan[r].verdict) = "accepted" /\ accepts > 0

PassedMeanwhile(r) == Rechecked(scan[r].verdict) # "closed" /\ accepts > 0

\* The lock on the student's attempt puts the writers in order.
WriteScan(r) ==
    /\ scan[r].pc = "classified"
    /\ LET verdict == IF PassedMeanwhile(r) THEN "accepted" ELSE Rechecked(scan[r].verdict) IN
          /\ scan' = [scan EXCEPT ![r] = Answer(verdict)]
          /\ accepts' = IF verdict = "accepted" /\ ~PassedMeanwhile(r)
                        THEN accepts + 1 ELSE accepts
    /\ UNCHANGED lookup
    /\ OnlyScan

-----------------------------------------------------------------------------
Recent(t) == now - t < MaxDelay

\* Lookups and cache calls take MaxDelay at most; scans may wait for locks.
\* Redis drops an entry whose time is over.
Tick ==
    /\ now < MaxTime
    /\ \A a \in Askers : lookup[a].pc # "none" => Recent(lookup[a].began)
    /\ \A c \in cacheCalls : Recent(c.began)
    /\ now' = now + 1
    /\ cache' = IF cache # NoEntry /\ cache.until = now' THEN NoEntry ELSE cache
    /\ UNCHANGED <<party, db, cacheCalls, lookup, screen, scan, accepts, shutAt>>

LookupStep(a) == ReadCache(a) \/ ReadDatabase(a) \/ FillCache(a)

Lecturer ==
    \/ \E began \in Time : Launch(began)
    \/ Withdraw
    \/ EndSession

Next ==
    \/ Tick
    \/ Lecturer
    \/ \E c \in cacheCalls : CallCache(c)
    \/ \E a \in Askers : LookupStep(a)
    \/ \E s \in Streams : Connect(s) \/ Show(s) \/ Rotate(s) \/ Disconnect(s)
    \/ \E r \in Scans : \/ \E seq \in 0..((Validity - 1) \div Interval) : Arrive(r, seq)
                        \/ Classify(r) \/ WriteScan(r)

\* What serves a screen or a scan goes on, and so do the cache calls and time.
\* Nobody is bound to launch, to connect or to scan.
Fairness ==
    /\ WF_vars(Tick)
    /\ WF_vars(\E c \in cacheCalls : CallCache(c))
    /\ \A s \in Streams : WF_vars(LookupStep(s) \/ Show(s) \/ Rotate(s))
    /\ \A r \in Scans : WF_vars(LookupStep(r) \/ Classify(r))

Spec     == Init /\ [][Next]_vars
FairSpec == Spec /\ Fairness

-----------------------------------------------------------------------------
(* Properties.                                                             *)

\* What a screen shows is the code of the instant its request began, and each
\* code of a stream comes after the one before: the sleep ends where the next
\* window begins, however late the answers are.  "Capping the cache TTL bounds that
\* window": no code is shown later than the cap and two slow requests, the one that
\* filled the cache from before and the one that believed it, after the batch or its
\* session stopped being open; though the delete may fail or come before the fill.
CodesShown ==
    [][\A s \in Streams :
          screen[s].pc = "asking" /\ screen'[s].pc = "showing" =>
              /\ screen'[s].code.from <= lookup[s].began
              /\ lookup[s].began < screen'[s].code.to
              /\ screen[s].code.seq < screen'[s].code.seq
              /\ shutAt # NoTime => now <= shutAt + MaxTtl + 2 * MaxDelay]_vars

\* An accepted row is written while the batch and the session are open, of a code
\* that was current after the request arrived: neither the cache nor the wait for
\* the lock lets an older code or a closed batch through.
CurrentIn(code, from, to) ==
    \E t \in from..to :
        /\ t < db.expires
        /\ db.activated + code * Interval <= t
        /\ t < db.activated + (code + 1) * Interval

AcceptedWasCurrent ==
    [][accepts' > accepts =>
          /\ Open(db, now)
          /\ \E r \in Scans : /\ scan'[r].pc # scan[r].pc
                              /\ CurrentIn(scan[r].code, scan[r].arrived, now)]_vars

\* Two requests of one student leave one accepted row.
AcceptedOnce == accepts <= 1

\* A student who has passed hears so while the batch is open, whatever code the
\* retry carries and whichever of two requests got there first.
RetriesAccepted ==
    [][\A r \in Scans :
          scan[r].pc # "answered" /\ scan'[r].pc = "answered" /\ accepts > 0 /\ Open(db, now)
              => scan'[r].verdict = "accepted"]_vars

\* No stream goes on for ever, though the lecturer closes nothing and screens
\* reconnect.
StreamsEnd == \A s \in Streams : <>[](screen[s].pc # "showing")

=============================================================================
