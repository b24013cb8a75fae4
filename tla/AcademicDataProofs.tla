------------------------- MODULE AcademicDataProofs -------------------------
(***************************************************************************)
(* Theorems about the academic tables and the pages that report on them,   *)
(* for any number of offerings, lecturers, students, administrators at     *)
(* work, correction requests and sessions.                                 *)
(***************************************************************************)
EXTENDS AcademicReports, FiniteSetTheorems, TLAPS

-----------------------------------------------------------------------------
(* An offering has one lecturer.                                           *)

\* What keeps it so: the change in flight holds the offering's lock, alone, and has
\* seen every assignment it must delete.
Assigned(o)   == IF Exists(o) THEN \E l \in Lecturers : teaches[o] = {l}
                 ELSE teaches[o] = {} /\ changing[o] = {}
LockedBy(o)   == /\ \A c, d \in changing[o] : c = d
                 /\ \A c \in changing[o] : c.seen = teaches[o]

OfferingInv ==
    /\ offering \in [Offerings -> OfferingRows \cup {NoOffering}]
    /\ teaches \in [Offerings -> SUBSET Lecturers]
    /\ changing \in [Offerings -> SUBSET Changes]
    /\ \A o \in Offerings : Assigned(o) /\ LockedBy(o)

LEMMA RowsExist ==
    ASSUME NEW row \in OfferingRows
    PROVE  row.status # "none"
BY AcademicAssumption

LEMMA OfferingInit == Init => OfferingInv
<1> SUFFICES ASSUME Init PROVE OfferingInv
    OBVIOUS
<1>1. PICK l \in Lecturers : teaches = [o \in Offerings |-> IF Exists(o) THEN {l} ELSE {}]
    BY DEF Init
<1>2. changing = [o \in Offerings |-> {}]
    BY DEF Init
<1>3. offering \in [Offerings -> OfferingRows \cup {NoOffering}]
    BY DEF Init
<1>4. \A o \in Offerings : Assigned(o) /\ LockedBy(o)
    BY <1>1, <1>2 DEF Assigned, LockedBy
<1> QED
    BY <1>1, <1>2, <1>3, <1>4 DEF OfferingInv

LEMMA CreateKeepsOfferings ==
    ASSUME OfferingInv, NEW o \in Offerings, NEW row \in OfferingRows, NEW l \in Lecturers,
           CreateOffering(o, row, l)
    PROVE  OfferingInv'
<1>1. /\ ~Exists(o)
      /\ offering' = [offering EXCEPT ![o] = row]
      /\ teaches' = [teaches EXCEPT ![o] = {l}]
      /\ changing' = changing
    BY DEF CreateOffering
<1>2. changing[o] = {}
    BY <1>1 DEF OfferingInv, Assigned
<1>3. /\ offering' \in [Offerings -> OfferingRows \cup {NoOffering}]
      /\ teaches' \in [Offerings -> SUBSET Lecturers]
      /\ changing' \in [Offerings -> SUBSET Changes]
    BY <1>1 DEF OfferingInv
<1>4. ASSUME NEW p \in Offerings PROVE Assigned(p)' /\ LockedBy(p)'
    <2>1. CASE p = o
        <3>1. teaches'[p] = {l} /\ offering'[p] = row /\ changing'[p] = {}
            BY <1>1, <1>2, <2>1 DEF OfferingInv
        <3> QED
            BY <3>1, RowsExist DEF Assigned, LockedBy, Exists
    <2>2. CASE p # o
        <3>1. teaches'[p] = teaches[p] /\ offering'[p] = offering[p] /\ changing'[p] = changing[p]
            BY <1>1, <2>2 DEF OfferingInv
        <3> QED
            BY <3>1 DEF OfferingInv, Assigned, LockedBy, Exists
    <2> QED
        BY <2>1, <2>2
<1> QED
    BY <1>3, <1>4 DEF OfferingInv

LEMMA BeginKeepsOfferings ==
    ASSUME OfferingInv, NEW o \in Offerings, NEW row \in OfferingRows \cup {NoOffering},
           NEW l \in Lecturers, BeginChange(o, row, l)
    PROVE  OfferingInv'
<1> DEFINE c == [lecturer |-> l, seen |-> teaches[o], row |-> row]
<1>1. /\ Exists(o) /\ changing[o] = {}
      /\ offering' = offering /\ teaches' = teaches
      /\ changing' = [changing EXCEPT ![o] = @ \cup {c}]
    BY DEF BeginChange, tables
<1>2. c \in Changes /\ c.seen = teaches[o]
    BY DEF OfferingInv, Changes
<1>3. changing' \in [Offerings -> SUBSET Changes]
    BY <1>1, <1>2 DEF OfferingInv
<1>4. ASSUME NEW p \in Offerings PROVE Assigned(p)' /\ LockedBy(p)'
    <2>1. CASE p = o
        <3>1. changing'[p] = {c}
            BY <1>1, <2>1 DEF OfferingInv
        <3> QED
            BY <1>1, <1>2, <2>1, <3>1 DEF OfferingInv, Assigned, LockedBy, Exists
    <2>2. CASE p # o
        <3>1. changing'[p] = changing[p]
            BY <1>1, <2>2 DEF OfferingInv
        <3> QED
            BY <1>1, <3>1 DEF OfferingInv, Assigned, LockedBy, Exists
    <2> QED
        BY <2>1, <2>2
<1> QED
    BY <1>1, <1>3, <1>4 DEF OfferingInv

\* The commit deletes every assignment there is and inserts one.
LEMMA CommitKeepsOfferings ==
    ASSUME OfferingInv, NEW o \in Offerings, NEW c \in changing[o], CommitChange(o, c)
    PROVE  OfferingInv'
<1> DEFINE row == IF c.row = NoOffering THEN offering[o] ELSE c.row
<1>1. /\ offering' = [offering EXCEPT ![o] = row]
      /\ teaches' = [teaches EXCEPT ![o] = (teaches[o] \ c.seen) \cup {c.lecturer}]
      /\ changing' = [changing EXCEPT ![o] = changing[o] \ {c}]
    BY DEF CommitChange, OfferingInv
<1>2. /\ c \in Changes /\ c.seen = teaches[o] /\ changing[o] \ {c} = {}
    BY DEF OfferingInv, LockedBy
<1>3. c.lecturer \in Lecturers /\ c.row \in OfferingRows \cup {NoOffering}
    BY <1>2 DEF Changes
<1>4. Exists(o)
    BY DEF OfferingInv, Assigned
<1>5. row \in OfferingRows \cup {NoOffering} /\ row.status # "none"
    BY <1>3, <1>4, RowsExist DEF OfferingInv, Exists
<1> HIDE DEF row
<1>6. /\ offering' \in [Offerings -> OfferingRows \cup {NoOffering}]
      /\ teaches' \in [Offerings -> SUBSET Lecturers]
      /\ changing' \in [Offerings -> SUBSET Changes]
    BY <1>1, <1>3, <1>5 DEF OfferingInv
<1>7. ASSUME NEW p \in Offerings PROVE Assigned(p)' /\ LockedBy(p)'
    <2>1. CASE p = o
        <3>1. teaches'[p] = {c.lecturer} /\ offering'[p] = row /\ changing'[p] = {}
            BY <1>1, <1>2, <2>1 DEF OfferingInv
        <3> QED
            BY <1>3, <1>5, <3>1 DEF Assigned, LockedBy, Exists
    <2>2. CASE p # o
        <3>1. teaches'[p] = teaches[p] /\ offering'[p] = offering[p] /\ changing'[p] = changing[p]
            BY <1>1, <2>2 DEF OfferingInv
        <3> QED
            BY <3>1 DEF OfferingInv, Assigned, LockedBy, Exists
    <2> QED
        BY <2>1, <2>2
<1> QED
    BY <1>6, <1>7 DEF OfferingInv

LEMMA EndKeepsOfferings ==
    ASSUME OfferingInv, NEW o \in Offerings, NEW c \in changing[o], EndChange(o, c)
    PROVE  OfferingInv'
<1>1. /\ offering' = offering /\ teaches' = teaches
      /\ changing' = [changing EXCEPT ![o] = changing[o] \ {c}]
    BY DEF EndChange, tables, OfferingInv
<1>2. \A p \in Offerings : changing'[p] \subseteq changing[p]
    BY <1>1 DEF OfferingInv
<1>3. changing' \in [Offerings -> SUBSET Changes]
    BY <1>1 DEF OfferingInv
<1>4. \A p \in Offerings : Assigned(p)' /\ LockedBy(p)'
    BY <1>1, <1>2 DEF OfferingInv, Assigned, LockedBy, Exists
<1> QED
    BY <1>1, <1>3, <1>4 DEF OfferingInv

LEMMA OfferingStutter ==
    ASSUME OfferingInv, UNCHANGED <<offering, teaches, changing>>
    PROVE  OfferingInv'
BY DEF OfferingInv, Assigned, LockedBy, Exists

\* Nothing else touches these tables.
LEMMA CorrectLeavesOfferings ==
    ASSUME Correct PROVE UNCHANGED <<offering, teaches, changing>>
BY DEF Correct, Submit, BeginDecision, CommitDecision, EndDecision, tables

LEMMA TeachLeavesOfferings ==
    ASSUME Teach PROVE UNCHANGED <<offering, teaches, changing>>
BY DEF Teach, BeginCreate, CommitCreate, EndCreate, Activate, Cancel, Close, Attempt,
       SetByHand, SetStudent, SetPhase, tables

LEMMA OfferingStep == OfferingInv /\ [Next]_vars => OfferingInv'
<1> SUFFICES ASSUME OfferingInv, [Next]_vars PROVE OfferingInv'
    OBVIOUS
<1>1. CASE Administer
    <2>1. ASSUME NEW o \in Offerings, NEW l \in Lecturers, NEW row \in OfferingRows,
                 CreateOffering(o, row, l)
          PROVE  OfferingInv'
        BY <2>1, CreateKeepsOfferings
    <2>2. ASSUME NEW o \in Offerings, NEW l \in Lecturers,
                 NEW row \in OfferingRows \cup {NoOffering}, BeginChange(o, row, l)
          PROVE  OfferingInv'
        BY <2>2, BeginKeepsOfferings
    <2>3. ASSUME NEW o \in Offerings, NEW c \in changing[o], CommitChange(o, c)
          PROVE  OfferingInv'
        BY <2>3, CommitKeepsOfferings
    <2>4. ASSUME NEW o \in Offerings, NEW c \in changing[o], EndChange(o, c)
          PROVE  OfferingInv'
        BY <2>4, EndKeepsOfferings
    <2>5. ASSUME NEW o \in Offerings, NEW s \in Students, Enrol(o, s) \/ Drop(o, s)
          PROVE  OfferingInv'
        BY <2>5, OfferingStutter DEF Enrol, Drop
    <2>6. ASSUME NEW e \in Entries, NEW o \in Offerings, NEW status \in {"active", "inactive"},
                 SetEntry(e, o, status)
          PROVE  OfferingInv'
        BY <2>6, OfferingStutter DEF SetEntry
    <2> QED
        BY <1>1, <2>1, <2>2, <2>3, <2>4, <2>5, <2>6 DEF Administer
<1>2. CASE Correct
    BY <1>2, CorrectLeavesOfferings, OfferingStutter
<1>3. CASE Teach
    BY <1>3, TeachLeavesOfferings, OfferingStutter
<1>4. CASE UNCHANGED vars
    BY <1>4, OfferingStutter DEF vars, tables
<1> QED
    BY <1>1, <1>2, <1>3, <1>4 DEF Next

LEMMA OfferingInvGivesOne == OfferingInv => OneLecturer
BY FS_Singleton, FS_EmptySet DEF OfferingInv, Assigned, OneLecturer

\* An offering has exactly one lecturer, however many administrators assign and edit
\* it at once (admin_academic_data: the row lock, then the delete and the insert).
THEOREM EveryOfferingOneLecturer == Spec => []OneLecturer
<1>1. Spec => []OfferingInv
    BY OfferingInit, OfferingStep, PTL DEF Spec
<1> QED
    BY <1>1, OfferingInvGivesOne, PTL

-----------------------------------------------------------------------------
(* A correction request is decided once.                                   *)

\* The decision in flight holds the request's lock, alone, and has seen its status.
RequestInv ==
    /\ request \in [Requests -> {"none", "pending"} \cup Decisions]
    /\ deciding \in [Requests -> SUBSET DecisionCalls]
    /\ \A r \in Requests :
          /\ \A d, e \in deciding[r] : d = e
          /\ \A d \in deciding[r] : d.seen = request[r]
          /\ request[r] = "none" => deciding[r] = {}

LEMMA RequestInit == Init => RequestInv
BY DEF Init, RequestInv

DecisionStep(r) ==
    request'[r] # request[r] =>
        \/ request[r] = "none" /\ request'[r] = "pending"
        \/ request'[r] \in AllowedDecisions(request[r])

LEMMA SubmitDecides ==
    ASSUME RequestInv, NEW q \in Requests, NEW l \in Lecturers, NEW o \in Offerings,
           Submit(q, l, o)
    PROVE  RequestInv' /\ \A r \in Requests : DecisionStep(r)
BY DEF RequestInv, Submit, DecisionStep

LEMMA BeginDecides ==
    ASSUME RequestInv, NEW q \in Requests, NEW decision \in Decisions,
           BeginDecision(q, decision)
    PROVE  RequestInv' /\ \A r \in Requests : DecisionStep(r)
<1> DEFINE d == [decision |-> decision, seen |-> request[q]]
<1>1. /\ request[q] # "none" /\ deciding[q] = {} /\ request' = request
      /\ deciding' = [deciding EXCEPT ![q] = deciding[q] \cup {d}]
    BY DEF BeginDecision, RequestInv
<1>2. d \in DecisionCalls /\ d.seen = request[q]
    BY <1>1 DEF RequestInv, DecisionCalls
<1>3. /\ deciding'[q] = {d}
      /\ \A r \in Requests \ {q} : deciding'[r] = deciding[r]
      /\ deciding' \in [Requests -> SUBSET DecisionCalls]
    BY <1>1, <1>2 DEF RequestInv
<1> HIDE DEF d
<1>4. RequestInv'
    BY <1>1, <1>2, <1>3 DEF RequestInv
<1> QED
    BY <1>1, <1>4 DEF DecisionStep

LEMMA CommitDecides ==
    ASSUME RequestInv, NEW q \in Requests, NEW d \in deciding[q], CommitDecision(q, d)
    PROVE  RequestInv' /\ \A r \in Requests : DecisionStep(r)
<1>1. /\ d.decision \in AllowedDecisions(d.seen) /\ d.seen = request[q]
      /\ request' = [request EXCEPT ![q] = d.decision]
      /\ deciding' = [deciding EXCEPT ![q] = deciding[q] \ {d}]
    BY DEF CommitDecision, RequestInv
<1>2. d.decision \in Decisions
    BY <1>1 DEF AllowedDecisions, Decisions
<1>3. /\ deciding'[q] = {} /\ request'[q] = d.decision
      /\ \A r \in Requests \ {q} : deciding'[r] = deciding[r] /\ request'[r] = request[r]
      /\ deciding' \in [Requests -> SUBSET DecisionCalls]
      /\ request' \in [Requests -> {"none", "pending"} \cup Decisions]
    BY <1>1, <1>2 DEF RequestInv
<1>4. RequestInv'
    BY <1>3 DEF RequestInv
<1> QED
    BY <1>1, <1>3, <1>4 DEF DecisionStep

LEMMA EndDecides ==
    ASSUME RequestInv, NEW q \in Requests, NEW d \in deciding[q], EndDecision(q, d)
    PROVE  RequestInv' /\ \A r \in Requests : DecisionStep(r)
<1>1. /\ request' = request
      /\ deciding' = [deciding EXCEPT ![q] = deciding[q] \ {d}]
    BY DEF EndDecision, RequestInv
<1>2. /\ \A r \in Requests : deciding'[r] \subseteq deciding[r]
      /\ deciding' \in [Requests -> SUBSET DecisionCalls]
    BY <1>1 DEF RequestInv
<1> QED
    BY <1>1, <1>2 DEF RequestInv, DecisionStep

LEMMA RequestStutter ==
    ASSUME RequestInv, UNCHANGED <<request, deciding>>
    PROVE  RequestInv' /\ \A r \in Requests : DecisionStep(r)
BY DEF RequestInv, DecisionStep

LEMMA AdministerLeavesRequests ==
    ASSUME Administer PROVE UNCHANGED <<request, deciding>>
BY DEF Administer, CreateOffering, BeginChange, CommitChange, EndChange, Enrol, Drop, SetEntry

LEMMA TeachLeavesRequests ==
    ASSUME Teach PROVE UNCHANGED <<request, deciding>>
BY DEF Teach, BeginCreate, CommitCreate, EndCreate, Activate, Cancel, Close, Attempt,
       SetByHand, SetStudent, SetPhase

LEMMA RequestStep ==
    RequestInv /\ [Next]_vars => RequestInv' /\ \A r \in Requests : DecisionStep(r)
<1> SUFFICES ASSUME RequestInv, [Next]_vars
             PROVE  RequestInv' /\ \A r \in Requests : DecisionStep(r)
    OBVIOUS
<1>1. CASE Administer
    BY <1>1, AdministerLeavesRequests, RequestStutter
<1>2. CASE Correct
    <2>1. PICK q \in Requests :
              \/ \E l \in Lecturers, o \in Offerings : Submit(q, l, o)
              \/ \E decision \in Decisions : BeginDecision(q, decision)
              \/ \E d \in deciding[q] : CommitDecision(q, d) \/ EndDecision(q, d)
        BY <1>2 DEF Correct
    <2> QED
        BY <2>1, SubmitDecides, BeginDecides, CommitDecides, EndDecides
<1>3. CASE Teach
    BY <1>3, TeachLeavesRequests, RequestStutter
<1>4. CASE UNCHANGED vars
    BY <1>4, RequestStutter DEF vars
<1> QED
    BY <1>1, <1>2, <1>3, <1>4 DEF Next

\* A correction request is approved or rejected once and resolved only after an
\* approval, however many administrators decide at once (admin_correction_requests:
\* the status is read under the row's lock).
THEOREM RequestsDecidedOnce == Spec => DecidedOnce
<1>1. RequestInv /\ [Next]_vars =>
          [\A r \in Requests :
              request'[r] # request[r] =>
                  \/ request[r] = "none" /\ request'[r] = "pending"
                  \/ request'[r] \in AllowedDecisions(request[r])]_vars
    BY RequestStep DEF DecisionStep
<1> QED
    BY <1>1, RequestInit, RequestStep, PTL DEF Spec, DecidedOnce
-----------------------------------------------------------------------------
(* What is recorded about a session: only about those on its roster, and,  *)
(* once it is closed, about all of them.                                   *)

Accounted ==
    {row \in SessionRows :
        /\ \A s \in Students :
              /\ row.student[s].record # "none" => s \in row.roster
              /\ row.student[s].manual => row.student[s].record # "none"
        /\ row.phase = "closed" => \A s \in row.roster : row.student[s].record # "none"}

Enrolments == [Students -> {"none", "enrolled", "dropped"}]
EntryRows  == [offering : Offerings, status : {"none", "active", "inactive"}]

SessionInv ==
    /\ enrolment \in [Offerings -> Enrolments]
    /\ entry \in [Entries -> EntryRows]
    /\ creating \in [Sessions -> SUBSET Creations]
    /\ session \in [Sessions -> Accounted \cup {NoSession}]
    /\ acts \in Nat

LEMMA SessionTyped ==
    ASSUME SessionInv, NEW n \in Sessions, session[n] # NoSession
    PROVE  /\ session[n] \in Accounted /\ session[n] \in SessionRows
           /\ session[n].phase \in {"scheduled", "active", "closed", "cancelled"}
           /\ session[n].offering \in Offerings /\ session[n].roster \subseteq Students
           /\ session[n].student \in [Students -> StudentRows]
           /\ \A s \in Students :
                 /\ Record(n, s) \in {"none"} \cup FinalStatuses
                 /\ Record(n, s) # "none" => s \in session[n].roster
                 /\ session[n].student[s].manual => Record(n, s) # "none"
           /\ Completed(n) => \A s \in session[n].roster : Record(n, s) # "none"
<1>1. session[n] \in Accounted
    BY DEF SessionInv
<1>2. session[n] \in SessionRows
    BY <1>1 DEF Accounted
<1>3. /\ session[n].phase \in {"scheduled", "active", "closed", "cancelled"}
      /\ session[n].offering \in Offerings /\ session[n].roster \subseteq Students
      /\ session[n].student \in [Students -> StudentRows]
    BY <1>2 DEF SessionRows
<1>4. \A s \in Students : session[n].student[s].record \in {"none"} \cup FinalStatuses
    BY <1>3 DEF StudentRows
<1> QED
    BY <1>1, <1>2, <1>3, <1>4 DEF Accounted, Record, Completed

\* The row that stands for "no session" is no session's row.
LEMMA NoSessionRow == NoSession \notin SessionRows
<1> SUFFICES ASSUME NoSession \in SessionRows PROVE FALSE
    OBVIOUS
<1>1. NoSession.phase \in {"scheduled", "active", "closed", "cancelled"}
    BY DEF SessionRows
<1>2. NoSession.phase = "none"
    BY DEF NoSession
<1> QED
    BY <1>1, <1>2

LEMMA SessionInit == Init => SessionInv
<1> SUFFICES ASSUME Init PROVE SessionInv
    OBVIOUS
<1>1. PICK on \in SUBSET Students :
          enrolment = [o \in Offerings |-> [s \in Students |->
                          IF Exists(o) /\ s \in on THEN "enrolled" ELSE "none"]]
    BY DEF Init
<1>2. enrolment \in [Offerings -> Enrolments]
    BY <1>1 DEF Enrolments
<1>3. entry \in [Entries -> EntryRows]
    <2>1. entry \in [Entries -> [offering : {o \in Offerings : Exists(o)}, status : {"active"}]]
        BY DEF Init
    <2>2. [offering : {o \in Offerings : Exists(o)}, status : {"active"}] \subseteq EntryRows
        BY DEF EntryRows
    <2> QED
        BY <2>1, <2>2
<1> QED
    BY <1>2, <1>3 DEF Init, SessionInv

LEMMA SessionStutter ==
    ASSUME SessionInv, UNCHANGED <<enrolment, entry, session, creating>>, acts' \in Nat
    PROVE  SessionInv'
BY DEF SessionInv

\* A call within the bound.
LEMMA ActTyped ==
    ASSUME SessionInv, Act PROVE acts' \in Nat
BY DEF SessionInv, Act

\* A session's row is written.
LEMMA SessionWritten ==
    ASSUME SessionInv, NEW n \in Sessions, NEW row \in Accounted,
           session' = [session EXCEPT ![n] = row], acts' \in Nat,
           creating' \in [Sessions -> SUBSET Creations], UNCHANGED <<enrolment, entry>>
    PROVE  SessionInv'
BY DEF SessionInv

LEMMA AdministerKeepsSessions ==
    ASSUME SessionInv, Administer
    PROVE  SessionInv'
<1>1. ASSUME NEW o \in Offerings, NEW l \in Lecturers,
             \/ \E row \in OfferingRows : CreateOffering(o, row, l)
             \/ \E row \in OfferingRows \cup {NoOffering} : BeginChange(o, row, l)
      PROVE  SessionInv'
    BY <1>1, ActTyped, SessionStutter DEF CreateOffering, BeginChange, tables
<1>2. ASSUME NEW o \in Offerings, NEW c \in changing[o], CommitChange(o, c) \/ EndChange(o, c)
      PROVE  SessionInv'
    BY <1>2, SessionStutter DEF CommitChange, EndChange, tables, SessionInv
<1>3. ASSUME NEW o \in Offerings, NEW s \in Students, Enrol(o, s) \/ Drop(o, s)
      PROVE  SessionInv'
    <2>1. PICK status \in {"enrolled", "dropped"} :
              enrolment' = [enrolment EXCEPT ![o][s] = status]
        BY <1>3 DEF Enrol, Drop
    <2>2. enrolment[o] \in Enrolments
        BY DEF SessionInv
    <2>3. [enrolment[o] EXCEPT ![s] = status] \in Enrolments
        BY <2>2 DEF Enrolments
    <2>4. enrolment' = [enrolment EXCEPT ![o] = [enrolment[o] EXCEPT ![s] = status]]
        BY <2>1
    <2>5. enrolment' \in [Offerings -> Enrolments]
        BY <2>3, <2>4 DEF SessionInv
    <2> QED
        BY <1>3, <2>5, ActTyped DEF Enrol, Drop, SessionInv
<1>4. ASSUME NEW e \in Entries, NEW o \in Offerings, NEW status \in {"active", "inactive"},
             SetEntry(e, o, status)
      PROVE  SessionInv'
    <2>1. [offering |-> o, status |-> status] \in EntryRows
        BY DEF EntryRows
    <2>2. entry' \in [Entries -> EntryRows]
        BY <1>4, <2>1 DEF SetEntry, SessionInv
    <2> QED
        BY <1>4, <2>2, ActTyped DEF SetEntry, SessionInv
<1> QED
    BY <1>1, <1>2, <1>3, <1>4 DEF Administer

LEMMA CorrectKeepsSessions ==
    ASSUME SessionInv, Correct
    PROVE  SessionInv'
<1>1. /\ UNCHANGED <<enrolment, entry, session, creating>>
      /\ Act \/ UNCHANGED acts
    BY DEF Correct, Submit, BeginDecision, CommitDecision, EndDecision, tables
<1>2. acts' \in Nat
    BY <1>1, ActTyped DEF SessionInv
<1> QED
    BY <1>1, <1>2, SessionStutter

\* Creating a session, from the timetable entry to the roster.
LEMMA CreationKeepsSessions ==
    ASSUME SessionInv, NEW n \in Sessions,
           \/ \E l \in Lecturers, e \in Entries : BeginCreate(n, l, e)
           \/ \E c \in creating[n] : CommitCreate(n, c) \/ EndCreate(n, c)
    PROVE  SessionInv'
<1>1. ASSUME NEW l \in Lecturers, NEW e \in Entries, BeginCreate(n, l, e)
      PROVE  SessionInv'
    <2>1. entry[e].offering \in Offerings
        BY DEF SessionInv, EntryRows
    <2>2. [lecturer |-> l, offering |-> entry[e].offering] \in Creations
        BY <2>1 DEF Creations
    <2>3. creating' \in [Sessions -> SUBSET Creations]
        BY <1>1, <2>2 DEF BeginCreate, SessionInv
    <2> QED
        BY <1>1, <2>3 DEF BeginCreate, SessionInv, tables
<1>2. ASSUME NEW c \in creating[n], CommitCreate(n, c)
      PROVE  SessionInv'
    <2>1. c.offering \in Offerings
        BY DEF SessionInv, Creations
    <2> DEFINE student == [s \in Students |-> NoStudentRow]
               row == [phase |-> "scheduled", offering |-> c.offering,
                       roster |-> EnrolledIn(c.offering), student |-> student]
    <2>2. /\ student \in [Students -> StudentRows]
          /\ \A s \in Students : student[s].record = "none" /\ ~student[s].manual
        BY DEF NoStudentRow, StudentRows, InitialStatuses, FinalStatuses
    <2> HIDE DEF student
    <2>3. EnrolledIn(c.offering) \subseteq Students
        BY DEF EnrolledIn
    <2>4. /\ row \in SessionRows
          /\ row.phase = "scheduled" /\ row.student = student
        BY <2>1, <2>2, <2>3 DEF SessionRows
    <2>5. session' = [session EXCEPT ![n] = row]
        BY <1>2 DEF CommitCreate, student
    <2> HIDE DEF row
    <2>6. row \in Accounted
        BY <2>2, <2>4 DEF Accounted
    <2>7. creating' \in [Sessions -> SUBSET Creations]
        BY <1>2 DEF CommitCreate, SessionInv
    <2> QED
        BY <1>2, <2>5, <2>6, <2>7, SessionWritten DEF CommitCreate, SessionInv, tables
<1>3. ASSUME NEW c \in creating[n], EndCreate(n, c)
      PROVE  SessionInv'
    BY <1>3 DEF EndCreate, SessionInv, tables
<1> QED
    BY <1>1, <1>2, <1>3

\* A session started or cancelled: neither closes it.
LEMMA PhaseKeepsSessions ==
    ASSUME SessionInv, NEW n \in Sessions, session[n] # NoSession,
           Activate(n) \/ Cancel(n)
    PROVE  SessionInv'
<1>1. PICK phase \in {"active", "cancelled"} :
          /\ session' = [session EXCEPT ![n].phase = phase]
          /\ UNCHANGED <<enrolment, entry, creating, acts>>
    BY DEF Activate, Cancel, SetPhase, tables
<1> DEFINE row == [session[n] EXCEPT !.phase = phase]
<1>2. session[n] \in Accounted /\ session[n] \in SessionRows
    BY SessionTyped
<1>3. /\ row \in SessionRows /\ row.phase = phase
      /\ row.roster = session[n].roster /\ row.student = session[n].student
    BY <1>2 DEF SessionRows
<1>4. session' = [session EXCEPT ![n] = row]
    BY <1>1
<1> HIDE DEF row
<1>5. row \in Accounted
    BY <1>2, <1>3 DEF Accounted
<1> QED
    BY <1>1, <1>4, <1>5, SessionWritten DEF SessionInv

\* What is known of one student changes: the row stays accounted for if a status
\* is not taken away.
LEMMA StudentKeepsSessions ==
    ASSUME SessionInv, NEW n \in Sessions, session[n] # NoSession, NEW s \in Students,
           NEW row \in StudentRows, SetStudent(n, s, row),
           row.manual => row.record # "none",
           row.record = "none" => Record(n, s) = "none"
    PROVE  SessionInv'
<1>1. /\ session' = [session EXCEPT ![n].student[s] = row]
      /\ s \in session[n].roster /\ UNCHANGED <<enrolment, entry, creating>>
      /\ acts' \in Nat
    BY ActTyped DEF SetStudent, tables
<1> DEFINE student == [session[n].student EXCEPT ![s] = row]
           new == [session[n] EXCEPT !.student = student]
<1>2. /\ session[n] \in Accounted /\ session[n] \in SessionRows
      /\ session[n].student \in [Students -> StudentRows]
    BY SessionTyped
<1>3. /\ student \in [Students -> StudentRows]
      /\ student[s] = row
      /\ \A t \in Students : t # s => student[t] = session[n].student[t]
    BY <1>2
<1>4. session' = [session EXCEPT ![n] = new]
    BY <1>1
<1> HIDE DEF student
<1>5. /\ new \in SessionRows /\ new.phase = session[n].phase
      /\ new.roster = session[n].roster /\ new.student = student
    BY <1>2, <1>3 DEF SessionRows
<1> HIDE DEF new
<1>6. new \in Accounted
    <2>1. session[n].roster \subseteq Students
        BY SessionTyped
    <2> QED
        BY <1>1, <1>2, <1>3, <1>5, <2>1 DEF Accounted, Record
<1> QED
    BY <1>1, <1>4, <1>6, SessionWritten DEF SessionInv

LEMMA DecidedIsFinal ==
    ASSUME NEW row \in StudentRows, row.manual => row.record # "none"
    PROVE  Decided(row) \subseteq FinalStatuses
BY DEF Decided, DecideFinalAttendance, StudentRows, FinalStatuses

\* The close writes a record for everybody on the roster and for nobody else.
LEMMA CloseKeepsSessions ==
    ASSUME SessionInv, NEW n \in Sessions, session[n] # NoSession, Close(n)
    PROVE  SessionInv'
<1>1. PICK final \in [Students -> FinalStatuses \cup {"none"}] :
          /\ \A s \in Students :
                final[s] \in IF s \in session[n].roster THEN Decided(session[n].student[s])
                             ELSE {session[n].student[s].record}
          /\ session' = [session EXCEPT
                           ![n].phase = "closed",
                           ![n].student = [s \in Students |-> [@[s] EXCEPT !.record = final[s]]]]
    BY DEF Close, ToDecide
<1>2. UNCHANGED <<enrolment, entry, creating, acts>>
    BY DEF Close, tables
<1>3. /\ session[n] \in Accounted /\ session[n] \in SessionRows
      /\ session[n].student \in [Students -> StudentRows]
      /\ session[n].roster \subseteq Students
    BY SessionTyped
<1> DEFINE student == [s \in Students |-> [session[n].student[s] EXCEPT !.record = final[s]]]
           new == [session[n] EXCEPT !.phase = "closed", !.student = student]
<1>4. \A s \in Students : /\ student[s] \in StudentRows
                          /\ student[s].record = final[s]
                          /\ student[s].manual = session[n].student[s].manual
    <2> SUFFICES ASSUME NEW s \in Students
                 PROVE  /\ student[s] \in StudentRows
                        /\ student[s].record = final[s]
                        /\ student[s].manual = session[n].student[s].manual
        OBVIOUS
    <2>1. session[n].student[s] \in StudentRows /\ final[s] \in {"none"} \cup FinalStatuses
        BY <1>3
    <2>2. student[s] = [session[n].student[s] EXCEPT !.record = final[s]]
        OBVIOUS
    <2> QED
        BY <2>1, <2>2 DEF StudentRows
<1>5. student \in [Students -> StudentRows]
    BY <1>4
<1>6. session' = [session EXCEPT ![n] = new]
    BY <1>1 DEF SessionInv
<1> HIDE DEF student
<1>7. /\ new \in SessionRows /\ new.phase = "closed"
      /\ new.roster = session[n].roster /\ new.student = student
    BY <1>3, <1>5 DEF SessionRows
<1> HIDE DEF new
<1>8. \A s \in session[n].roster : final[s] # "none"
    <2> SUFFICES ASSUME NEW s \in session[n].roster PROVE final[s] # "none"
        OBVIOUS
    <2>1. session[n].student[s] \in StudentRows
        BY <1>3
    <2>2. session[n].student[s].manual => session[n].student[s].record # "none"
        BY <1>3 DEF Accounted
    <2>3. final[s] \in FinalStatuses
        BY <1>1, <1>3, <2>1, <2>2, DecidedIsFinal
    <2> QED
        BY <2>3 DEF FinalStatuses
<1>9. \A s \in Students \ session[n].roster :
          final[s] = "none" /\ ~session[n].student[s].manual
    BY <1>1, <1>3 DEF Accounted
<1>10. new \in Accounted
    BY <1>3, <1>4, <1>7, <1>8, <1>9 DEF Accounted
<1> QED
    BY <1>2, <1>6, <1>10, SessionWritten DEF SessionInv

LEMMA TeachKeepsSessions ==
    ASSUME SessionInv, Teach
    PROVE  SessionInv'
<1>1. PICK n \in Sessions :
          \/ \E l \in Lecturers, e \in Entries : BeginCreate(n, l, e)
          \/ \E c \in creating[n] : CommitCreate(n, c) \/ EndCreate(n, c)
          \/ session[n] # NoSession /\ (Activate(n) \/ Cancel(n) \/ Close(n))
          \/ /\ session[n] # NoSession
             /\ \E s \in Students :
                  \/ \E outcome \in Outcomes : Attempt(n, s, outcome)
                  \/ \E status \in ManualStatuses, review \in BOOLEAN :
                        SetByHand(n, s, status, review)
    BY DEF Teach
<1>2. ASSUME session[n] # NoSession, NEW s \in Students, NEW outcome \in Outcomes,
             Attempt(n, s, outcome)
      PROVE  SessionInv'
    <2> DEFINE row == [session[n].student[s] EXCEPT !.attempt = outcome]
    <2>1. session[n].student[s] \in StudentRows
        BY <1>2, SessionTyped
    <2>2. outcome \in {"none", "failed"} \cup InitialStatuses
        BY AcademicAssumption
    <2>3. /\ row \in StudentRows /\ row.record = session[n].student[s].record
          /\ row.manual = session[n].student[s].manual
        BY <2>1, <2>2 DEF StudentRows
    <2>4. SetStudent(n, s, row)
        BY <1>2 DEF Attempt
    <2> HIDE DEF row
    <2>5. row.manual => row.record # "none"
        BY <1>2, <2>3, SessionTyped DEF Record
    <2> QED
        BY <1>2, <2>3, <2>4, <2>5, StudentKeepsSessions DEF Record
<1>3. ASSUME session[n] # NoSession, NEW s \in Students, NEW status \in ManualStatuses,
             NEW review \in BOOLEAN, SetByHand(n, s, status, review)
      PROVE  SessionInv'
    <2> DEFINE old == session[n].student[s]
               row == [old EXCEPT !.record = status, !.manual = TRUE,
                                  !.reviewed = old.reviewed \/ review]
    <2>1. old \in StudentRows
        BY <1>3, SessionTyped
    <2>2. status \in FinalStatuses /\ status # "none"
        BY AcademicAssumption DEF FinalStatuses
    <2>3. SetStudent(n, s, row)
        BY <1>3 DEF SetByHand
    <2> HIDE DEF old
    <2>4. (old.reviewed \/ review) \in BOOLEAN
        OBVIOUS
    <2>5. row \in StudentRows /\ row.record = status
        BY <2>1, <2>2, <2>4 DEF StudentRows
    <2> HIDE DEF row
    <2> QED
        BY <1>3, <2>2, <2>3, <2>5, StudentKeepsSessions
<1> QED
    BY <1>1, <1>2, <1>3, CreationKeepsSessions, PhaseKeepsSessions, CloseKeepsSessions

LEMMA SessionStep == SessionInv /\ [Next]_vars => SessionInv'
<1> SUFFICES ASSUME SessionInv, [Next]_vars PROVE SessionInv'
    OBVIOUS
<1>1. CASE UNCHANGED vars
    BY <1>1 DEF vars, tables, SessionInv
<1> QED
    BY <1>1, AdministerKeepsSessions, CorrectKeepsSessions, TeachKeepsSessions DEF Next

LEMMA TablesSound == Spec => [](OfferingInv /\ RequestInv /\ SessionInv)
BY OfferingInit, OfferingStep, RequestInit, RequestStep, SessionInit, SessionStep, PTL DEF Spec

\* Every table holds rows of its type, whoever administers, teaches or decides.
THEOREM TypeCorrect == Spec => []TypeOK
<1>1. OfferingInv /\ RequestInv /\ SessionInv => TypeOK
    <2> SUFFICES ASSUME OfferingInv, RequestInv, SessionInv PROVE TypeOK
        OBVIOUS
    <2>1. session \in [Sessions -> SessionRows \cup {NoSession}]
        BY DEF SessionInv, Accounted
    <2> QED
        BY <2>1 DEF OfferingInv, RequestInv, SessionInv, TypeOK, Enrolments, EntryRows
<1> QED
    BY <1>1, TablesSound, PTL

-----------------------------------------------------------------------------
(* Sums.  A sum is a recursive function on the subsets of a finite set.  What it   *)
(* is follows from its equation, by looking at a smallest subset for which it      *)
(* would be something else.                                                        *)

\* g adds up f on every subset of S, taking out one element after the other.
One(T) == CHOOSE x \in T : TRUE
AddsUp(g, f, S) ==
    g = [T \in SUBSET S |-> IF T = {} THEN 0 ELSE f[One(T)] + g[T \ {One(T)}]]

\* If there is such a function, the sum of the community modules is one.
LEMMA SumEquation ==
    ASSUME NEW f, NEW h, AddsUp(h, f, DOMAIN f)
    PROVE  \E g : AddsUp(g, f, DOMAIN f) /\ SumFunction(f) = g[DOMAIN f]
BY DEF AddsUp, One, SumFunction, SumFunctionOnSet, FoldFunctionOnSet, MapThenFoldSet

\* Of subsets of a finite set, there is one without another inside.
LEMMA SmallestSubset ==
    ASSUME NEW S, IsFiniteSet(S), NEW B \in SUBSET (SUBSET S), B # {}
    PROVE  \E T \in B : \A U \in B : ~(U \subseteq T /\ U # T)
<1>1. IsWellFoundedOn(StrictSubsetOrdering(S), SUBSET S)
    BY FS_StrictSubsetOrderingWellFounded, FS_FiniteSubsetsOfFinite
<1>2. PICK T \in B : \A U \in B : ~(<<U, T>> \in StrictSubsetOrdering(S))
    BY <1>1, WFMin
<1>3. \A U \in B : U \subseteq T /\ U # T => <<U, T>> \in StrictSubsetOrdering(S)
    BY DEF StrictSubsetOrdering
<1>4. \A U \in B : ~(U \subseteq T /\ U # T)
    BY <1>2, <1>3
<1> QED
    BY <1>4

LEMMA ImageFinite ==
    ASSUME NEW S, IsFiniteSet(S), NEW A
    PROVE  IsFiniteSet({A[x] : x \in S})
<1> DEFINE m == [x \in S |-> A[x]]
           T == {A[x] : x \in S}
<1>1. m \in Surjection(S, T)
    BY DEF Surjection
<1> QED
    BY <1>1, FS_Surjection

\* All that is in the parts A[x], for x of S.
Together(A, S) == UNION {A[x] : x \in S}

LEMMA TogetherFinite ==
    ASSUME NEW S, IsFiniteSet(S), NEW A, \A x \in S : IsFiniteSet(A[x])
    PROVE  IsFiniteSet(Together(A, S))
<1>1. IsFiniteSet({A[x] : x \in S})
    BY ImageFinite
<1> QED
    BY <1>1, FS_UNION DEF Together

\* The sum of the sizes of disjoint sets is the size of their union.
LEMMA SumOfParts ==
    ASSUME NEW S, IsFiniteSet(S), NEW f, DOMAIN f = S, NEW A,
           \A x \in S : IsFiniteSet(A[x]) /\ f[x] = Cardinality(A[x]),
           \A x, y \in S : x # y => A[x] \cap A[y] = {}
    PROVE  SumFunction(f) = Cardinality(Together(A, S))
<1> DEFINE All(T) == Together(A, T)
           h == [T \in SUBSET S |-> Cardinality(All(T))]
<1>1. ASSUME NEW T \in SUBSET S, NEW x \in T
      PROVE  Cardinality(All(T)) = f[x] + Cardinality(All(T \ {x}))
    <2> DEFINE R == T \ {x}
    <2>1. IsFiniteSet(R)
        BY FS_Subset, R \in SUBSET S
    <2>2. \A y \in R : IsFiniteSet(A[y])
        OBVIOUS
    <2>3. IsFiniteSet(All(R))
        BY <2>1, <2>2, TogetherFinite
    <2>4. All(T) = A[x] \cup All(R)
        BY DEF Together
    <2>5. A[x] \cap All(R) = {}
        BY DEF Together
    <2>6. x \in S
        OBVIOUS
    <2> HIDE DEF All, R
    <2>7. /\ IsFiniteSet(A[x]) /\ f[x] = Cardinality(A[x])
          /\ Cardinality(A[x] \cup All(R))
                 = Cardinality(A[x]) + Cardinality(All(R)) - Cardinality(A[x] \cap All(R))
        BY <2>3, <2>6, FS_Union
    <2>8. Cardinality(A[x]) \in Nat /\ Cardinality(All(R)) \in Nat
        BY <2>3, <2>7, FS_CardinalityType
    <2>9. Cardinality(All(R)) = Cardinality(All(T \ {x}))
        BY DEF R
    <2>10. Cardinality(A[x] \cap All(R)) = 0
        BY <2>5, FS_EmptySet
    <2>11. Cardinality(All(T)) = Cardinality(A[x] \cup All(R))
        BY <2>4
    <2> QED
        BY <2>7, <2>8, <2>9, <2>10, <2>11
<1>2. AddsUp(h, f, S)
    <2> SUFFICES ASSUME NEW T \in SUBSET S
                 PROVE  h[T] = IF T = {} THEN 0 ELSE f[One(T)] + h[T \ {One(T)}]
        BY DEF AddsUp
    <2>1. CASE T = {}
        BY <2>1, FS_EmptySet, All(T) = {} DEF Together
    <2>2. CASE T # {}
        BY <2>2, <1>1, One(T) \in T, T \ {One(T)} \in SUBSET S DEF One
    <2> QED
        BY <2>1, <2>2
<1>3. PICK g : AddsUp(g, f, S) /\ SumFunction(f) = g[S]
    <2> HIDE DEF h
    <2> QED
        BY <1>2, SumEquation
<1>4. \A T \in SUBSET S : g[T] = h[T]
    <2> DEFINE B == {T \in SUBSET S : g[T] # h[T]}
    <2> SUFFICES ASSUME B # {} PROVE FALSE
        OBVIOUS
    <2>1. PICK T \in B : \A U \in B : ~(U \subseteq T /\ U # T)
        <3>1. B \in SUBSET (SUBSET S)
            OBVIOUS
        <3> HIDE DEF B
        <3> QED
            BY <3>1, SmallestSubset
    <2>2. T # {}
        BY <1>2, <1>3 DEF AddsUp
    <2>3. PICK x : x = One(T)
        OBVIOUS
    <2>4. x \in T
        BY <2>2, <2>3 DEF One
    <2>5. g[T \ {x}] = h[T \ {x}]
        <3> DEFINE U == T \ {x}
        <3>1. U \in SUBSET S /\ U \subseteq T /\ U # T
            BY <2>4
        <3>2. U \notin B
            BY <2>1, <3>1
        <3> QED
            BY <3>1, <3>2
    <2>6. g[T] = f[x] + g[T \ {x}] /\ h[T] = f[x] + h[T \ {x}]
        BY <1>2, <1>3, <2>2, <2>3 DEF AddsUp
    <2> QED
        BY <2>5, <2>6
<1> QED
    BY <1>3, <1>4, S \in SUBSET S

\* A sum of larger terms is not smaller.
LEMMA SumAtMost ==
    ASSUME NEW S, IsFiniteSet(S), NEW f \in [S -> Nat], NEW g \in [S -> Nat],
           \A x \in S : f[x] <= g[x]
    PROVE  SumFunction(f) <= SumFunction(g)
<1> DEFINE Stack(h) == [x \in S |-> {x} \X (1 .. h[x])]
           All(h)   == Together(Stack(h), S)
<1>1. ASSUME NEW h \in [S -> Nat]
      PROVE  IsFiniteSet(All(h)) /\ SumFunction(h) = Cardinality(All(h))
    <2>1. \A x \in S : IsFiniteSet(Stack(h)[x]) /\ h[x] = Cardinality(Stack(h)[x])
        <3> SUFFICES ASSUME NEW x \in S
                     PROVE  /\ IsFiniteSet({x} \X (1 .. h[x]))
                            /\ h[x] = Cardinality({x} \X (1 .. h[x]))
            OBVIOUS
        <3>1. h[x] \in Nat /\ 1 \in Int
            OBVIOUS
        <3>2. IsFiniteSet(1 .. h[x]) /\ Cardinality(1 .. h[x]) = h[x]
            BY <3>1, FS_Interval
        <3>3. IsFiniteSet({x}) /\ Cardinality({x}) = 1
            BY FS_Singleton
        <3>4. /\ IsFiniteSet({x} \X (1 .. h[x]))
              /\ Cardinality({x} \X (1 .. h[x])) = 1 * h[x]
            <4> DEFINE X == {x}
                       Y == 1 .. h[x]
            <4>1. /\ IsFiniteSet(X) /\ Cardinality(X) = 1
                  /\ IsFiniteSet(Y) /\ Cardinality(Y) = h[x]
                BY <3>2, <3>3
            <4> HIDE DEF X, Y
            <4>2. IsFiniteSet(X \X Y) /\ Cardinality(X \X Y) = Cardinality(X) * Cardinality(Y)
                BY <4>1, FS_Product
            <4>3. Cardinality(X \X Y) = 1 * h[x]
                BY <4>1, <4>2
            <4> QED
                BY <4>2, <4>3 DEF X, Y
        <3> QED
            BY <3>1, <3>4
    <2>2. \A x, y \in S : x # y => Stack(h)[x] \cap Stack(h)[y] = {}
        OBVIOUS
    <2>3. DOMAIN h = S
        OBVIOUS
    <2> HIDE DEF Stack
    <2>4. IsFiniteSet(All(h))
        BY <2>1, TogetherFinite
    <2> QED
        BY <2>1, <2>2, <2>3, <2>4, SumOfParts
<1>2. All(f) \subseteq All(g)
    <2>1. \A x \in S : 1 .. f[x] \subseteq 1 .. g[x]
        OBVIOUS
    <2> QED
        BY <2>1 DEF Together
<1> HIDE DEF All
<1>3. Cardinality(All(f)) <= Cardinality(All(g))
    BY <1>1, <1>2, FS_Subset
<1> QED
    BY <1>1, <1>3

\* If every part of B, p times, weighs as much as the part of A, q times, so does B.
LEMMA WeightedParts ==
    ASSUME NEW S, IsFiniteSet(S), NEW A, NEW B, NEW p \in Nat, NEW q \in Nat,
           \A x \in S : IsFiniteSet(A[x]) /\ IsFiniteSet(B[x]),
           \A x, y \in S : x # y => A[x] \cap A[y] = {} /\ B[x] \cap B[y] = {},
           \A x \in S : Cardinality(A[x]) * q <= Cardinality(B[x]) * p
    PROVE  Cardinality(Together(A, S)) * q <= Cardinality(Together(B, S)) * p
<1>1. ASSUME NEW C, NEW k \in Nat,
             \A x \in S : IsFiniteSet(C[x]),
             \A x, y \in S : x # y => C[x] \cap C[y] = {}
      PROVE  LET f == [x \in S |-> Cardinality(C[x]) * k]
             IN  /\ f \in [S -> Nat]
                 /\ SumFunction(f) = Cardinality(Together(C, S)) * k
    <2> DEFINE f == [x \in S |-> Cardinality(C[x]) * k]
               D == [x \in S |-> C[x] \X (1 .. k)]
               all == Together(C, S)
    <2>1. IsFiniteSet(1 .. k) /\ Cardinality(1 .. k) = k
        BY FS_Interval
    <2>2. \A x \in S : IsFiniteSet(D[x]) /\ f[x] = Cardinality(D[x]) /\ f[x] \in Nat
        <3> SUFFICES ASSUME NEW x \in S
                     PROVE  /\ IsFiniteSet(C[x] \X (1 .. k))
                            /\ Cardinality(C[x]) * k = Cardinality(C[x] \X (1 .. k))
                            /\ Cardinality(C[x]) * k \in Nat
            OBVIOUS
        <3> DEFINE Y == 1 .. k
        <3>1. IsFiniteSet(C[x]) /\ Cardinality(C[x]) \in Nat
            BY <1>1, FS_CardinalityType
        <3>2. IsFiniteSet(Y) /\ Cardinality(Y) = k
            BY <2>1
        <3> HIDE DEF Y
        <3>3. /\ IsFiniteSet(C[x] \X Y)
              /\ Cardinality(C[x] \X Y) = Cardinality(C[x]) * Cardinality(Y)
            BY <3>1, <3>2, FS_Product
        <3>4. Cardinality(C[x]) * k = Cardinality(C[x] \X Y)
            BY <3>2, <3>3
        <3>5. Cardinality(C[x]) * k \in Nat
            BY <3>1
        <3> QED
            BY <3>3, <3>4, <3>5 DEF Y
    <2>3. \A x, y \in S : x # y => D[x] \cap D[y] = {}
        BY <1>1
    <2>4. Together(D, S) = all \X (1 .. k)
        BY DEF Together
    <2>5. IsFiniteSet(all)
        BY <1>1, TogetherFinite
    <2>6. DOMAIN f = S
        OBVIOUS
    <2>7. f \in [S -> Nat]
        BY <2>2
    <2> HIDE DEF f, D, all
    <2>8. SumFunction(f) = Cardinality(all \X (1 .. k))
        <3>1. \A x \in S : IsFiniteSet(D[x]) /\ f[x] = Cardinality(D[x])
            BY <2>2
        <3>2. SumFunction(f) = Cardinality(Together(D, S))
            BY <2>3, <2>6, <3>1, SumOfParts
        <3> QED
            BY <2>4, <3>2
    <2>9. Cardinality(all \X (1 .. k)) = Cardinality(all) * k
        BY <2>1, <2>5, FS_Product
    <2> QED
        BY <2>7, <2>8, <2>9 DEF f, all
<1> DEFINE a == [x \in S |-> Cardinality(A[x]) * q]
           b == [x \in S |-> Cardinality(B[x]) * p]
<1>2. a \in [S -> Nat] /\ SumFunction(a) = Cardinality(Together(A, S)) * q
    BY <1>1
<1>3. b \in [S -> Nat] /\ SumFunction(b) = Cardinality(Together(B, S)) * p
    BY <1>1
<1>4. \A x \in S : a[x] <= b[x]
    OBVIOUS
<1> HIDE DEF a, b
<1>5. SumFunction(a) <= SumFunction(b)
    BY <1>2, <1>3, <1>4, SumAtMost
<1> QED
    BY <1>2, <1>3, <1>5

-----------------------------------------------------------------------------
(* Counting rows.                                                          *)

\* A set of sessions and the rows that pair them with one student are as many.
LEMMA PairedCount ==
    ASSUME NEW T, IsFiniteSet(T), NEW s
    PROVE  Cardinality({<<n, s>> : n \in T}) = Cardinality(T)
<1> DEFINE rows == {<<n, s>> : n \in T}
           f == [n \in T |-> <<n, s>>]
<1>1. f \in Surjection(T, rows) /\ f \in Injection(T, rows)
    BY DEF Surjection, Injection, IsInjective
<1> HIDE DEF f, rows
<1>2. Cardinality(rows) = Cardinality(T)
    BY <1>1, FS_Surjection
<1> QED
    BY <1>2 DEF rows

LEMMA DisjointCount ==
    ASSUME NEW A, IsFiniteSet(A), NEW B, IsFiniteSet(B), A \cap B = {}
    PROVE  /\ IsFiniteSet(A \cup B) /\ Cardinality(A \cup B) \in Nat
           /\ Cardinality(A) \in Nat /\ Cardinality(B) \in Nat
           /\ Cardinality(A \cup B) = Cardinality(A) + Cardinality(B)
<1>1. /\ IsFiniteSet(A \cup B)
      /\ Cardinality(A \cup B) = Cardinality(A) + Cardinality(B) - Cardinality(A \cap B)
    BY FS_Union
<1>2. Cardinality(A \cap B) = 0
    BY FS_EmptySet
<1>3. /\ Cardinality(A \cup B) \in Nat
      /\ Cardinality(A) \in Nat /\ Cardinality(B) \in Nat
    BY <1>1, FS_CardinalityType
<1> QED
    BY <1>1, <1>2, <1>3

\* A part of finitely many is no more than the whole.
LEMMA FiniteParts ==
    /\ \A T \in SUBSET Sessions : IsFiniteSet(T) /\ Cardinality(T) \in Nat
    /\ \A T \in SUBSET Students : IsFiniteSet(T) /\ Cardinality(T) \in Nat
BY CountAssumption, FS_Subset, FS_CardinalityType

-----------------------------------------------------------------------------
(* The pages agree.                                                        *)

\* The rows of the lecturer's reports about one student in one course are the
\* student's completed sessions of that course.
CompletedOf(s, o) == {n \in MySessions(s, o) : Completed(n)}

LEMMA RowsOfCourse ==
    ASSUME NEW s, NEW o, NEW l \in teaches[o]
    PROVE  {row \in RosterRows(CompletedSessions(l)) :
               row[2] = s /\ session[row[1]].offering = o} = {<<n, s>> : n \in CompletedOf(s, o)}
BY DEF RosterRows, CompletedSessions, LecturerSessions, CompletedOf, MySessions, SessionsOf, Made

LEMMA CourseCountsAgree ==
    ASSUME NEW s, NEW o, NEW l \in teaches[o]
    PROVE  CourseRate(s, o) = RateWith(l, s, o)
<1> DEFINE T == CompletedOf(s, o)
           A == {n \in T : Record(n, s) \in Attended}
           rows == {<<n, s>> : n \in T}
<1>1. IsFiniteSet(T) /\ IsFiniteSet(A)
    <2>1. T \in SUBSET Sessions /\ A \in SUBSET Sessions
        BY DEF CompletedOf, MySessions, SessionsOf, Made
    <2> QED
        BY <2>1, FiniteParts
<1>2. {row \in rows : Record(row[1], row[2]) \in Attended} = {<<n, s>> : n \in A}
    OBVIOUS
<1>3. /\ Cardinality(rows) = Cardinality(T)
      /\ Cardinality({<<n, s>> : n \in A}) = Cardinality(A)
    <2> HIDE DEF T, A
    <2> QED
        BY <1>1, PairedCount DEF rows
<1>4. RateWith(l, s, o) = Rate(rows)
    BY RowsOfCourse DEF RateWith
<1>5. Rate(rows) = [attended |-> Cardinality({<<n, s>> : n \in A}),
                    total    |-> Cardinality(rows)]
    BY <1>2 DEF Rate
<1>6. CourseRate(s, o) = [attended |-> Cardinality(A), total |-> Cardinality(T)]
    BY DEF CourseRate, CompletedOf
<1> HIDE DEF T, A, rows
<1> QED
    BY <1>3, <1>4, <1>5, <1>6

\* What the student reads under the course adds up to the course's counts.
LEMMA ShownAddsUp ==
    ASSUME SessionInv, NEW s \in Students, NEW o \in Offerings, CourseListed(s, o)
    PROVE  LET completed == {n \in ShownSessions(s, o) : Completed(n)}
               shown(is) == Cardinality({n \in completed : ShownStatus(s, n) \in is})
           IN  CourseRate(s, o) = [attended |-> shown(Attended),
                                   total    |-> shown(Attended) + shown({"absent"})]
<1> DEFINE completed == {n \in ShownSessions(s, o) : Completed(n)}
           A == {n \in completed : ShownStatus(s, n) \in Attended}
           B == {n \in completed : ShownStatus(s, n) \in {"absent"}}
<1>1. completed = CompletedOf(s, o)
    BY DEF ShownSessions, CourseListed, CompletedOf, MySessions
<1>2. \A n \in completed : /\ ShownStatus(s, n) = Record(n, s)
                           /\ Record(n, s) \in FinalStatuses
    <2> SUFFICES ASSUME NEW n \in completed
                 PROVE  ShownStatus(s, n) = Record(n, s) /\ Record(n, s) \in FinalStatuses
        OBVIOUS
    <2>1. n \in Sessions /\ session[n] # NoSession /\ Completed(n) /\ s \in session[n].roster
        BY DEF ShownSessions, SessionsOf, Made
    <2>2. Record(n, s) # "none" /\ Record(n, s) \in {"none"} \cup FinalStatuses
        BY <2>1, SessionTyped
    <2> QED
        BY <2>1, <2>2 DEF ShownStatus, Completed
<1>3. /\ A \cap B = {} /\ A \cup B = completed
      /\ A = {n \in completed : Record(n, s) \in Attended}
    BY <1>2 DEF Attended, FinalStatuses
<1>4. IsFiniteSet(A) /\ IsFiniteSet(B)
    <2>1. A \in SUBSET Sessions /\ B \in SUBSET Sessions
        BY DEF ShownSessions, SessionsOf, Made
    <2> QED
        BY <2>1, FiniteParts
<1>5. Cardinality(completed) = Cardinality(A) + Cardinality(B)
    <2> HIDE DEF A, B, completed
    <2> QED
        BY <1>3, <1>4, DisjointCount
<1>6. CourseRate(s, o) = [attended |-> Cardinality({n \in completed : Record(n, s) \in Attended}),
                          total    |-> Cardinality(completed)]
    BY <1>1 DEF CourseRate, CompletedOf
<1>7. CourseRate(s, o) = [attended |-> Cardinality(A),
                          total    |-> Cardinality(A) + Cardinality(B)]
    BY <1>3, <1>5, <1>6
<1> QED
    BY <1>7

\* The students with a given status on a session's roster.
With(n, status) == {s \in Students : Record(n, s) = status}

\* After the close the line of a session adds up to its roster.
LEMMA LineAddsUp ==
    ASSUME SessionInv, NEW n \in Made, Completed(n)
    PROVE  LET report == SessionReport(n)
           IN  report.enrolled = report.present + report.late + report.left + report.absent
<1> DEFINE P == With(n, "present")
           L == With(n, "late")
           E == With(n, "left_early")
           A == With(n, "absent")
<1>1. n \in Sessions /\ session[n] # NoSession
    BY DEF Made
<1>2. session[n].roster = ((P \cup L) \cup E) \cup A
    BY <1>1, SessionTyped DEF With, FinalStatuses
<1>3. /\ P \cap L = {} /\ (P \cup L) \cap E = {} /\ ((P \cup L) \cup E) \cap A = {}
      /\ IsFiniteSet(P) /\ IsFiniteSet(L) /\ IsFiniteSet(E) /\ IsFiniteSet(A)
    <2>1. /\ P \in SUBSET Students /\ L \in SUBSET Students
          /\ E \in SUBSET Students /\ A \in SUBSET Students
        BY DEF With
    <2> QED
        BY <2>1, FiniteParts DEF With
<1>4. {s \in session[n].roster : \/ Record(n, s) = "absent"
                                 \/ Completed(n) /\ Record(n, s) = "none"} = A
    BY <1>1, SessionTyped DEF With
<1>5. /\ SessionReport(n).enrolled = Cardinality(session[n].roster)
      /\ SessionReport(n).present = Cardinality(P)
      /\ SessionReport(n).late = Cardinality(L)
      /\ SessionReport(n).left = Cardinality(E)
      /\ SessionReport(n).absent = Cardinality(A)
    BY <1>4 DEF SessionReport, CountOf, With
<1> HIDE DEF P, L, E, A
<1>6. /\ IsFiniteSet(P \cup L) /\ IsFiniteSet((P \cup L) \cup E)
      /\ Cardinality(P) \in Nat /\ Cardinality(L) \in Nat
      /\ Cardinality(E) \in Nat /\ Cardinality(A) \in Nat
      /\ Cardinality(P \cup L) = Cardinality(P) + Cardinality(L)
      /\ Cardinality((P \cup L) \cup E) = Cardinality(P \cup L) + Cardinality(E)
      /\ Cardinality(((P \cup L) \cup E) \cup A) =
             Cardinality((P \cup L) \cup E) + Cardinality(A)
    <2>1. IsFiniteSet(P \cup L) /\ Cardinality(P \cup L) = Cardinality(P) + Cardinality(L)
        BY <1>3, DisjointCount
    <2>2. /\ IsFiniteSet((P \cup L) \cup E)
          /\ Cardinality((P \cup L) \cup E) = Cardinality(P \cup L) + Cardinality(E)
        BY <1>3, <2>1, DisjointCount
    <2>3. Cardinality(((P \cup L) \cup E) \cup A) =
              Cardinality((P \cup L) \cup E) + Cardinality(A)
        BY <1>3, <2>2, DisjointCount
    <2> QED
        BY <1>3, <2>1, <2>2, <2>3, FS_CardinalityType
<1> QED
    BY <1>2, <1>5, <1>6

\* The lecturer's two pages count the same absences, and what waits for a review
\* on the one waits on the other.
LEMMA TwoPagesAgree ==
    ASSUME SessionInv, NEW n \in Made
    PROVE  /\ SessionReport(n).absent = SessionPage(n).absent
           /\ SessionPage(n).pending <= SessionReport(n).pending
<1>1. n \in Sessions /\ session[n] # NoSession
    BY DEF Made
<1>2. {s \in session[n].roster : \/ Record(n, s) = "absent"
                                 \/ Completed(n) /\ Record(n, s) = "none"}
          = With(n, "absent")
    BY <1>1, SessionTyped DEF With
<1>3. SessionReport(n).absent = SessionPage(n).absent
    BY <1>2 DEF SessionReport, SessionPage, CountOf, With
<1> DEFINE manual == {s \in PendingIn(n) : ~session[n].student[s].manual}
<1>4. PendingIn(n) \in SUBSET Students /\ manual \in SUBSET PendingIn(n)
    BY DEF PendingIn
<1>5. /\ SessionPage(n).pending = Cardinality(manual)
      /\ SessionReport(n).pending = Cardinality(PendingIn(n))
    BY DEF SessionPage, SessionReport
<1> HIDE DEF manual
<1>6. IsFiniteSet(PendingIn(n))
    BY <1>4, FiniteParts
<1>7. Cardinality(manual) <= Cardinality(PendingIn(n))
    BY <1>4, <1>6, FS_Subset
<1> QED
    BY <1>3, <1>5, <1>7

\* What a student reads about a course, what is listed under it, what the course's
\* lecturers are shown of the student and the two pages about a session agree, at
\* every moment and however students enrol, drop and enrol again while classes are
\* held, are cancelled and closed.
THEOREM PagesAlwaysAgree == Spec => []PagesAgree
<1>1. SessionInv => PagesAgree
    <2> SUFFICES ASSUME SessionInv PROVE PagesAgree
        OBVIOUS
    <2>1. ASSUME NEW s \in Students, NEW o \in {p \in Offerings : Exists(p)}, CourseListed(s, o)
          PROVE  LET completed == {n \in ShownSessions(s, o) : Completed(n)}
                     shown(is) == Cardinality({n \in completed : ShownStatus(s, n) \in is})
                 IN  /\ \A l \in teaches[o] : CourseRate(s, o) = RateWith(l, s, o)
                     /\ CourseRate(s, o) = [attended |-> shown(Attended),
                                            total    |-> shown(Attended) + shown({"absent"})]
        BY <2>1, CourseCountsAgree, ShownAddsUp
    <2>2. ASSUME NEW n \in Made
          PROVE  LET report == SessionReport(n)
                     page   == SessionPage(n)
                 IN  /\ Completed(n) =>
                           report.enrolled
                               = report.present + report.late + report.left + report.absent
                     /\ report.absent = page.absent
                     /\ page.pending <= report.pending
        BY <2>2, LineAddsUp, TwoPagesAgree
    <2> QED
        BY <2>1, <2>2 DEF PagesAgree
<1> QED
    BY <1>1, TablesSound, PTL

-----------------------------------------------------------------------------
(* The institution's list of students at risk.                             *)

\* The rows of a course about one student.
RowsWith(s, o) == {row \in RosterRows({n \in SessionsOf(o) : Completed(n)}) : row[2] = s}

LEMMA RateOfTeacher ==
    ASSUME NEW s, NEW o, NEW l
    PROVE  /\ l \in teaches[o] => RateWith(l, s, o) = Rate(RowsWith(s, o))
           /\ l \notin teaches[o] => ~BelowThreshold(RateWith(l, s, o), o)
<1> DEFINE rows == {row \in RosterRows(CompletedSessions(l)) :
                       row[2] = s /\ session[row[1]].offering = o}
<1>1. RateWith(l, s, o) = Rate(rows)
    BY DEF RateWith
<1>2. ASSUME l \in teaches[o] PROVE rows = RowsWith(s, o)
    BY <1>2 DEF RowsWith, RosterRows, CompletedSessions, LecturerSessions, SessionsOf, Made
<1>3. ASSUME l \notin teaches[o] PROVE Rate(rows).total = 0
    <2>1. rows = {}
        BY <1>3 DEF RosterRows, CompletedSessions, LecturerSessions
    <2>2. Rate(rows).total = Cardinality(rows)
        BY DEF Rate
    <2> HIDE DEF rows
    <2> QED
        BY <2>1, <2>2, FS_EmptySet
<1> HIDE DEF rows
<1> QED
    BY <1>1, <1>2, <1>3 DEF BelowThreshold

LEMMA RiskOfTeacher ==
    ASSUME NEW l, NEW s, NEW o
    PROVE  <<s, o>> \in AtRisk(l) <=>
               /\ s \in Students /\ o \in Offerings /\ Exists(o) /\ l \in teaches[o]
               /\ BelowThreshold(Rate(RowsWith(s, o)), o)
<1>1. <<s, o>> \in AtRisk(l) <=>
          s \in Students /\ o \in Offerings /\ Exists(o) /\ BelowThreshold(RateWith(l, s, o), o)
    BY DEF AtRisk
<1> QED
    BY <1>1, RateOfTeacher

\* A student is at risk for the institution exactly when a lecturer's report lists
\* the student: the counts both compare with the requirement are of the same rows.
LEMMA StudentsListed ==
    ASSUME OfferingInv
    PROVE  StudentsAtRisk = {row[1] : row \in UNION {AtRisk(l) : l \in Lecturers}}
<1> DEFINE listed == UNION {AtRisk(l) : l \in Lecturers}
<1>1. \A s : s \in StudentsAtRisk <=>
          /\ s \in Students
          /\ \E o \in Offerings : Exists(o) /\ BelowThreshold(Rate(RowsWith(s, o)), o)
    BY DEF StudentsAtRisk, RowsWith
<1>2. \A o \in Offerings : Exists(o) => \E l \in Lecturers : l \in teaches[o]
    BY DEF OfferingInv, Assigned
<1>3. \A row \in listed : \E s \in Students, o \in Offerings : row = <<s, o>>
    BY DEF AtRisk
<1>4. ASSUME NEW s \in StudentsAtRisk PROVE s \in {row[1] : row \in listed}
    <2>1. PICK o \in Offerings : Exists(o) /\ BelowThreshold(Rate(RowsWith(s, o)), o)
        BY <1>1
    <2>2. PICK l \in Lecturers : l \in teaches[o]
        BY <1>2, <2>1
    <2>3. <<s, o>> \in AtRisk(l)
        BY <1>1, <2>1, <2>2, RiskOfTeacher
    <2>4. <<s, o>> \in listed
        BY <2>3
    <2> HIDE DEF listed
    <2> QED
        BY <2>4
<1>5. ASSUME NEW row \in listed PROVE row[1] \in StudentsAtRisk
    <2>1. PICK s \in Students, o \in Offerings : row = <<s, o>>
        BY <1>3
    <2>2. PICK l \in Lecturers : row \in AtRisk(l)
        OBVIOUS
    <2>3. Exists(o) /\ BelowThreshold(Rate(RowsWith(s, o)), o)
        BY <2>1, <2>2, RiskOfTeacher
    <2> QED
        BY <1>1, <2>1, <2>3
<1> HIDE DEF listed
<1>6. StudentsAtRisk = {row[1] : row \in listed}
    BY <1>4, <1>5
<1> QED
    BY <1>6 DEF listed

-----------------------------------------------------------------------------
(* The offering of a session stays.                                       *)

\* A session's offering is there, and stays.
OfferingsHeld == \A n \in Made : Exists(session[n].offering)

LEMMA OfferingsStay ==
    ASSUME OfferingInv, [Next]_vars, NEW o \in Offerings, Exists(o)
    PROVE  offering'[o].status # "none"
<1>1. ASSUME NEW p \in Offerings, NEW l \in Lecturers, NEW row \in OfferingRows,
             CreateOffering(p, row, l)
      PROVE  offering'[o].status # "none"
    BY <1>1 DEF CreateOffering, OfferingInv, Exists
<1>2. ASSUME NEW p \in Offerings, NEW c \in changing[p], CommitChange(p, c)
      PROVE  offering'[o].status # "none"
    <2>1. c.row \in OfferingRows \cup {NoOffering}
        BY DEF OfferingInv, Changes
    <2>2. offering'[o] \in {offering[o]} \cup OfferingRows
        BY <1>2, <2>1 DEF CommitChange, OfferingInv
    <2> QED
        BY <2>2, RowsExist DEF Exists
<1>3. ASSUME UNCHANGED offering PROVE offering'[o].status # "none"
    BY <1>3 DEF Exists
<1>4. CASE Administer
    BY <1>1, <1>2, <1>3, <1>4
    DEF Administer, BeginChange, EndChange, Enrol, Drop, SetEntry, tables
<1>5. CASE Correct
    BY <1>3, <1>5, CorrectLeavesOfferings
<1>6. CASE Teach
    BY <1>3, <1>6, TeachLeavesOfferings
<1>7. CASE UNCHANGED vars
    BY <1>3, <1>7 DEF vars, tables
<1> QED
    BY <1>4, <1>5, <1>6, <1>7 DEF Next

\* A session is made for an offering that has a lecturer, and keeps it.
LEMMA SessionsKeepOffering ==
    ASSUME OfferingInv, SessionInv, [Next]_vars, NEW n \in Sessions
    PROVE  \/ session'[n] = session[n]
           \/ session[n] # NoSession /\ session'[n].offering = session[n].offering
           \/ session'[n].offering \in Offerings /\ Exists(session'[n].offering)
<1>1. ASSUME NEW k \in Sessions, NEW c \in creating[k], CommitCreate(k, c)
      PROVE  \/ session'[n] = session[n]
             \/ session'[n].offering \in Offerings /\ Exists(session'[n].offering)
    <2>1. c.offering \in Offerings /\ c.lecturer \in teaches[c.offering]
        BY <1>1 DEF SessionInv, Creations, CommitCreate
    <2>2. Exists(c.offering)
        BY <2>1 DEF OfferingInv, Assigned
    <2>3. session'[n] = session[n] \/ session'[n].offering = c.offering
        BY <1>1 DEF CommitCreate, SessionInv
    <2> QED
        BY <2>1, <2>2, <2>3
<1>2. ASSUME NEW k \in Sessions, session[k] # NoSession,
             \/ Activate(k) \/ Cancel(k) \/ Close(k)
             \/ \E s \in Students :
                   \/ \E outcome \in Outcomes : Attempt(k, s, outcome)
                   \/ \E status \in ManualStatuses, review \in BOOLEAN :
                         SetByHand(k, s, status, review)
      PROVE  \/ session'[n] = session[n]
             \/ session[n] # NoSession /\ session'[n].offering = session[n].offering
    <2>1. session[k] \in SessionRows
        BY <1>2, SessionTyped
    <2>2. CASE Activate(k) \/ Cancel(k)
        BY <2>1, <2>2, <1>2 DEF Activate, Cancel, SetPhase, SessionInv, SessionRows
    <2>3. CASE Close(k)
        <3>1. PICK student : session' = [session EXCEPT ![k].phase = "closed",
                                                        ![k].student = student]
            BY <2>3 DEF Close, SessionInv
        <3> DEFINE new == [session[k] EXCEPT !.phase = "closed", !.student = student]
        <3>2. new.offering = session[k].offering
            BY <2>1 DEF SessionRows
        <3>3. session' = [session EXCEPT ![k] = new]
            BY <3>1
        <3> HIDE DEF new
        <3> QED
            BY <3>2, <3>3, <1>2 DEF SessionInv
    <2>4. ASSUME NEW s \in Students, NEW row, SetStudent(k, s, row)
          PROVE  \/ session'[n] = session[n]
                 \/ session[n] # NoSession /\ session'[n].offering = session[n].offering
        BY <2>1, <2>4, <1>2 DEF SetStudent, SessionInv, SessionRows
    <2> QED
        BY <1>2, <2>2, <2>3, <2>4 DEF Attempt, SetByHand
<1>3. CASE Administer
    BY <1>3 DEF Administer, CreateOffering, BeginChange, CommitChange, EndChange, Enrol, Drop,
        SetEntry
<1>4. CASE Correct
    BY <1>4 DEF Correct, Submit, BeginDecision, CommitDecision, EndDecision
<1>5. CASE Teach
    BY <1>1, <1>2, <1>5 DEF Teach, BeginCreate, EndCreate
<1>6. CASE UNCHANGED vars
    BY <1>6 DEF vars
<1> QED
    BY <1>3, <1>4, <1>5, <1>6 DEF Next

LEMMA OfferingsHeldStep ==
    OfferingInv /\ SessionInv /\ OfferingsHeld /\ [Next]_vars => OfferingsHeld'
<1> SUFFICES ASSUME OfferingInv, SessionInv, OfferingsHeld, [Next]_vars,
                    NEW n \in Sessions, session'[n] # NoSession
             PROVE  offering'[session'[n].offering].status # "none"
    BY DEF OfferingsHeld, Made, Exists
<1>1. CASE session[n] # NoSession /\ session'[n].offering = session[n].offering
    <2>1. session[n].offering \in Offerings /\ Exists(session[n].offering)
        BY <1>1, SessionTyped DEF OfferingsHeld, Made
    <2>2. offering'[session[n].offering].status # "none"
        BY <2>1, OfferingsStay
    <2> QED
        BY <1>1, <2>2
<1>2. CASE session'[n].offering \in Offerings /\ Exists(session'[n].offering)
    BY <1>2, OfferingsStay
<1> QED
    BY <1>1, <1>2, SessionsKeepOffering

-----------------------------------------------------------------------------
(* Every class is counted once.                                            *)

\* An attended row.
AttendedOf(rows) == {row \in rows : Record(row[1], row[2]) \in Attended}

\* The rows of some sessions are finitely many.
LEMMA RowsFinite ==
    ASSUME SessionInv, NEW T \in SUBSET Made
    PROVE  IsFiniteSet(RosterRows(T))
<1>1. RosterRows(T) \subseteq Sessions \X Students
    <2> SUFFICES ASSUME NEW n \in T, NEW s \in session[n].roster
                 PROVE  n \in Sessions /\ s \in Students
        BY DEF RosterRows
    <2>1. n \in Sessions /\ session[n] # NoSession
        BY DEF Made
    <2> QED
        BY <2>1, SessionTyped
<1>2. IsFiniteSet(Sessions \X Students)
    BY CountAssumption, FS_Product
<1> QED
    BY <1>1, <1>2, FS_Subset

\* The rows of sessions taken together are their rows taken together.
LEMMA RowsTogether ==
    ASSUME NEW S, NEW F
    PROVE  RosterRows(Together(F, S)) = Together([x \in S |-> RosterRows(F[x])], S)
<1>1. \A row, x : row \in RosterRows(F[x]) <=> \E n \in F[x] : row \in {n} \X session[n].roster
    BY DEF RosterRows
<1>2. \A row : row \in RosterRows(Together(F, S)) <=>
                   \E x \in S : \E n \in F[x] : row \in {n} \X session[n].roster
    BY DEF RosterRows, Together
<1>3. \A row : row \in Together([x \in S |-> RosterRows(F[x])], S) <=>
                   \E x \in S : row \in RosterRows(F[x])
    BY DEF Together
<1> QED
    BY <1>1, <1>2, <1>3

\* The rate of finitely many disjoint parts is the sum of the parts' rates.
LEMMA RateOfParts ==
    ASSUME NEW S, IsFiniteSet(S), NEW A,
           \A x \in S : IsFiniteSet(A[x]),
           \A x, y \in S : x # y => A[x] \cap A[y] = {}
    PROVE  Rate(Together(A, S))
               = [attended |-> SumFunction([x \in S |-> Rate(A[x]).attended]),
                  total    |-> SumFunction([x \in S |-> Rate(A[x]).total])]
<1> DEFINE all == Together(A, S)
           B == [x \in S |-> AttendedOf(A[x])]
           f == [x \in S |-> Rate(A[x]).attended]
           g == [x \in S |-> Rate(A[x]).total]
<1>1. \A x \in S : IsFiniteSet(B[x]) /\ f[x] = Cardinality(B[x])
    <2> SUFFICES ASSUME NEW x \in S
                 PROVE  /\ IsFiniteSet(AttendedOf(A[x]))
                        /\ Rate(A[x]).attended = Cardinality(AttendedOf(A[x]))
        OBVIOUS
    <2>1. AttendedOf(A[x]) \in SUBSET A[x]
        BY DEF AttendedOf
    <2> QED
        BY <2>1, FS_Subset DEF Rate, AttendedOf
<1>2. \A x, y \in S : x # y => B[x] \cap B[y] = {}
    BY DEF AttendedOf
<1>3. Together(B, S) = AttendedOf(all)
    BY DEF AttendedOf, Together
<1>4. \A x \in S : IsFiniteSet(A[x]) /\ g[x] = Cardinality(A[x])
    BY DEF Rate
<1>5. DOMAIN f = S /\ DOMAIN g = S
    OBVIOUS
<1>6. Rate(all) = [attended |-> Cardinality(AttendedOf(all)), total |-> Cardinality(all)]
    BY DEF Rate, AttendedOf
<1> HIDE DEF B, f, g
<1>7. SumFunction(f) = Cardinality(AttendedOf(all))
    BY <1>1, <1>2, <1>3, <1>5, SumOfParts
<1>8. SumFunction(g) = Cardinality(all)
    BY <1>4, <1>5, SumOfParts
<1> QED
    BY <1>6, <1>7, <1>8 DEF f, g

\* Where no part is below the requirement, the whole is not.
LEMMA BelowSomewhere ==
    ASSUME NEW o, ThresholdOf(o) \in Nat, NEW S, IsFiniteSet(S), NEW A,
           \A x \in S : IsFiniteSet(A[x]),
           \A x, y \in S : x # y => A[x] \cap A[y] = {},
           BelowThreshold(Rate(Together(A, S)), o)
    PROVE  \E x \in S : BelowThreshold(Rate(A[x]), o)
<1> SUFFICES ASSUME \A x \in S : ~BelowThreshold(Rate(A[x]), o)
             PROVE  FALSE
    OBVIOUS
<1> DEFINE all == Together(A, S)
           B == [x \in S |-> AttendedOf(A[x])]
<1>1. \A rows : /\ Rate(rows).attended = Cardinality(AttendedOf(rows))
                /\ Rate(rows).total = Cardinality(rows)
    BY DEF Rate, AttendedOf
<1>2. \A x \in S : IsFiniteSet(B[x]) /\ B[x] \in SUBSET A[x]
    <2>1. \A x \in S : AttendedOf(A[x]) \in SUBSET A[x]
        BY DEF AttendedOf
    <2> QED
        BY <2>1, FS_Subset
<1>3. \A x, y \in S : x # y => B[x] \cap B[y] = {}
    BY <1>2
<1>4. Together(B, S) = AttendedOf(all)
    BY DEF AttendedOf, Together
<1>5. \A x \in S : Cardinality(A[x]) * ThresholdOf(o) <= Cardinality(B[x]) * 100
    <2> SUFFICES ASSUME NEW x \in S
                 PROVE  Cardinality(A[x]) * ThresholdOf(o) <= Cardinality(B[x]) * 100
        OBVIOUS
    <2>1. Cardinality(A[x]) \in Nat /\ Cardinality(B[x]) \in Nat
        BY <1>2, FS_CardinalityType
    <2>2. ~(Cardinality(A[x]) > 0 /\ 100 * Cardinality(B[x]) < ThresholdOf(o) * Cardinality(A[x]))
        BY <1>1 DEF BelowThreshold
    <2> QED
        BY <2>1, <2>2
<1> HIDE DEF B
<1>6. Cardinality(all) * ThresholdOf(o) <= Cardinality(AttendedOf(all)) * 100
    <2>1. \A x \in S : IsFiniteSet(A[x]) /\ IsFiniteSet(B[x])
        BY <1>2
    <2>2. \A x, y \in S : x # y => A[x] \cap A[y] = {} /\ B[x] \cap B[y] = {}
        BY <1>3
    <2>3. Cardinality(all) * ThresholdOf(o) <= Cardinality(Together(B, S)) * 100
        <3> DEFINE p == 100
                   q == ThresholdOf(o)
        <3>1. p \in Nat /\ q \in Nat
            OBVIOUS
        <3>2. \A x \in S : Cardinality(A[x]) * q <= Cardinality(B[x]) * p
            BY <1>5
        <3> HIDE DEF p, q, all
        <3>3. Cardinality(Together(A, S)) * q <= Cardinality(Together(B, S)) * p
            BY <2>1, <2>2, <3>1, <3>2, WeightedParts
        <3> QED
            BY <3>3 DEF p, q, all
    <2> QED
        BY <1>4, <2>3
<1>7. IsFiniteSet(all) /\ AttendedOf(all) \in SUBSET all
    BY TogetherFinite DEF AttendedOf
<1> HIDE DEF all
<1>8. Cardinality(all) \in Nat /\ Cardinality(AttendedOf(all)) \in Nat
    BY <1>7, FS_Subset, FS_CardinalityType
<1>9. 100 * Cardinality(AttendedOf(all)) < ThresholdOf(o) * Cardinality(all)
    BY <1>1 DEF BelowThreshold, all
<1> QED
    BY <1>6, <1>8, <1>9

\* What the counts rest on: sessions have offerings, each with one lecturer.
CountInv == OfferingInv /\ SessionInv /\ OfferingsHeld

LEMMA OneTeacher ==
    ASSUME CountInv, NEW n \in Made
    PROVE  \E l \in Lecturers : teaches[session[n].offering] = {l}
<1>1. n \in Sessions /\ session[n] # NoSession
    BY DEF Made
<1>2. session[n].offering \in Offerings /\ Exists(session[n].offering)
    BY <1>1, SessionTyped DEF CountInv, OfferingsHeld
<1> QED
    BY <1>2 DEF CountInv, OfferingInv, Assigned

\* The rows of a set of sessions, by lecturer.
Share(T, l) == {n \in T : l \in teaches[session[n].offering]}

LEMMA RowsByLecturer ==
    ASSUME CountInv, NEW T \in SUBSET Made
    PROVE  LET A == [l \in Lecturers |-> RosterRows(Share(T, l))]
           IN  /\ RosterRows(T) = Together(A, Lecturers)
               /\ \A l \in Lecturers : IsFiniteSet(A[l])
               /\ \A k, l \in Lecturers : k # l => A[k] \cap A[l] = {}
<1> DEFINE A == [l \in Lecturers |-> RosterRows(Share(T, l))]
<1>1. T = UNION {Share(T, l) : l \in Lecturers}
    BY OneTeacher DEF Share
<1>2. \A k, l \in Lecturers : k # l => Share(T, k) \cap Share(T, l) = {}
    BY OneTeacher DEF Share
<1>3. \A l \in Lecturers : IsFiniteSet(RosterRows(Share(T, l)))
    <2>1. \A l \in Lecturers : Share(T, l) \in SUBSET Made
        BY DEF Share
    <2> QED
        BY <2>1, RowsFinite DEF CountInv
<1>4. RosterRows(T) = Together(A, Lecturers)
    <2> DEFINE F == [l \in Lecturers |-> Share(T, l)]
    <2>1. T = Together(F, Lecturers)
        BY <1>1 DEF Together
    <2>2. [l \in Lecturers |-> RosterRows(F[l])] = A
        OBVIOUS
    <2> HIDE DEF F, A
    <2> QED
        BY <2>1, <2>2, RowsTogether
<1>5. \A k, l \in Lecturers : k # l => RosterRows(Share(T, k)) \cap RosterRows(Share(T, l)) = {}
    BY <1>2 DEF RosterRows
<1> QED
    BY <1>3, <1>4, <1>5

LEMMA FiguresAgree == CountInv => FiguresAddUp
<1> SUFFICES ASSUME CountInv PROVE FiguresAddUp
    OBVIOUS
<1> DEFINE T == {n \in Made : Completed(n)}
           A == [l \in Lecturers |-> RosterRows(Share(T, l))]
<1>1. \A l \in Lecturers : Overview(l).rate = Rate(A[l])
    <2>1. \A l \in Lecturers : CompletedSessions(l) = Share(T, l)
        BY DEF CompletedSessions, LecturerSessions, Share
    <2> QED
        BY <2>1 DEF Overview, LecturerRate
<1>2. /\ RosterRows(T) = Together(A, Lecturers)
      /\ \A l \in Lecturers : IsFiniteSet(A[l])
      /\ \A k, l \in Lecturers : k # l => A[k] \cap A[l] = {}
    <2>1. T \in SUBSET Made
        OBVIOUS
    <2> HIDE DEF T
    <2> QED
        BY <2>1, RowsByLecturer
<1>3. Institution = Rate(RosterRows(T))
    BY DEF Institution
<1> HIDE DEF T, A
<1>4. Institution = [attended |-> SumFunction([l \in Lecturers |-> Rate(A[l]).attended]),
                     total    |-> SumFunction([l \in Lecturers |-> Rate(A[l]).total])]
    BY <1>2, <1>3, CountAssumption, RateOfParts
<1> DEFINE rate == [l \in Lecturers |-> Overview(l).rate]
<1>5. /\ [l \in Lecturers |-> Rate(A[l]).attended] = [l \in Lecturers |-> rate[l].attended]
      /\ [l \in Lecturers |-> Rate(A[l]).total] = [l \in Lecturers |-> rate[l].total]
    BY <1>1
<1> QED
    BY <1>4, <1>5 DEF FiguresAddUp

LEMMA OverviewAgrees ==
    ASSUME CountInv, NEW l \in Lecturers
    PROVE  OverviewAddsUp(l)
<1> DEFINE mine == {o \in Offerings : l \in teaches[o]}
           listed == UNION {SessionsOf(o) : o \in mine}
           A == [o \in mine |-> RosterRows({n \in SessionsOf(o) : Completed(n)})]
<1>1. listed = LecturerSessions(l)
    <2>1. \A n \in Made : session[n].offering \in Offerings
        BY SessionTyped DEF Made, CountInv
    <2> QED
        BY <2>1 DEF LecturerSessions, SessionsOf
<1>2. Overview(l).pending = SumFunction([n \in listed |-> SessionReport(n).pending])
    <2>1. Overview(l).pending = SumFunction([n \in listed |-> Cardinality(PendingIn(n))])
        BY <1>1 DEF Overview
    <2>2. [n \in listed |-> Cardinality(PendingIn(n))] = [n \in listed |-> SessionReport(n).pending]
        BY DEF SessionReport
    <2> QED
        BY <2>1, <2>2
<1>3. RosterRows(CompletedSessions(l)) = Together(A, mine)
    <2> DEFINE F == [o \in mine |-> {n \in SessionsOf(o) : Completed(n)}]
    <2>1. CompletedSessions(l) = {n \in listed : Completed(n)}
        BY <1>1 DEF CompletedSessions
    <2>2. \A o \in mine : F[o] = {n \in SessionsOf(o) : Completed(n)}
        OBVIOUS
    <2>3. \A n : n \in listed <=> \E o \in mine : n \in SessionsOf(o)
        OBVIOUS
    <2>4. [o \in mine |-> RosterRows(F[o])] = A
        OBVIOUS
    <2> HIDE DEF listed, mine, F, A
    <2>5. \A n : n \in Together(F, mine) <=> \E o \in mine : n \in F[o]
        BY DEF Together
    <2>6. CompletedSessions(l) = Together(F, mine)
        BY <2>1, <2>2, <2>3, <2>5
    <2> QED
        BY <2>4, <2>6, RowsTogether
<1>4. \A o \in mine : IsFiniteSet(A[o])
    <2>1. \A o \in mine : {n \in SessionsOf(o) : Completed(n)} \in SUBSET Made
        BY DEF SessionsOf
    <2> QED
        BY <2>1, RowsFinite DEF CountInv
<1>5. \A o, p \in mine : o # p => A[o] \cap A[p] = {}
    BY DEF RosterRows, SessionsOf
<1>6. IsFiniteSet(mine)
    BY CountAssumption, FS_Subset
<1>7. \A o \in mine : LecturerCourse(o).rate = Rate(A[o])
    BY DEF LecturerCourse
<1>8. Overview(l).rate = Rate(RosterRows(CompletedSessions(l)))
    BY DEF Overview, LecturerRate
<1>9. Overview(l).rate.total = SumFunction([o \in mine |-> LecturerCourse(o).rate.total])
    <2>1. [o \in mine |-> LecturerCourse(o).rate.total] = [o \in mine |-> Rate(A[o]).total]
        BY <1>7
    <2> HIDE DEF mine, A
    <2>2. Overview(l).rate = [attended |-> SumFunction([o \in mine |-> Rate(A[o]).attended]),
                              total    |-> SumFunction([o \in mine |-> Rate(A[o]).total])]
        BY <1>3, <1>4, <1>5, <1>6, <1>8, RateOfParts
    <2> QED
        BY <2>1, <2>2
<1> QED
    BY <1>2, <1>9 DEF OverviewAddsUp

\* A course's rows are those of its students, so a course below its requirement has a
\* student who is, and the course's lecturer lists that student.
LEMMA CourseHasStudent ==
    ASSUME CountInv, NEW o \in CoursesAtRisk
    PROVE  \E s \in Students, l \in Lecturers : <<s, o>> \in AtRisk(l)
<1> DEFINE T == {n \in SessionsOf(o) : Completed(n)}
           A == [s \in Students |-> RowsWith(s, o)]
<1>1. o \in Offerings /\ Exists(o) /\ BelowThreshold(Rate(RosterRows(T)), o)
    BY DEF CoursesAtRisk
<1>2. T \in SUBSET Made
    BY DEF SessionsOf
<1>3. RosterRows(T) = Together(A, Students)
    <2>1. \A row \in RosterRows(T) : row[2] \in Students
        <3>1. \A n \in T : session[n].roster \subseteq Students
            BY <1>2, SessionTyped DEF Made, CountInv
        <3> QED
            BY <3>1 DEF RosterRows
    <2>2. \A s \in Students : A[s] = {row \in RosterRows(T) : row[2] = s}
        BY DEF RowsWith
    <2> HIDE DEF T, A
    <2>3. \A row : row \in Together(A, Students) <=>
                       row \in RosterRows(T) /\ row[2] \in Students
        BY <2>2 DEF Together
    <2> QED
        BY <2>1, <2>3
<1>4. \A s \in Students : IsFiniteSet(A[s])
    <2>1. IsFiniteSet(RosterRows(T))
        BY <1>2, RowsFinite DEF CountInv
    <2>2. \A s \in Students : RowsWith(s, o) \in SUBSET RosterRows(T)
        BY DEF RowsWith
    <2> QED
        BY <2>1, <2>2, FS_Subset
<1>5. \A s, t \in Students : s # t => A[s] \cap A[t] = {}
    BY DEF RowsWith
<1>6. ThresholdOf(o) \in Nat
    <2>1. offering[o] \in OfferingRows
        BY <1>1 DEF CountInv, OfferingInv, Exists, NoOffering
    <2> QED
        BY <2>1, CountAssumption DEF ThresholdOf, DefaultThreshold
<1> HIDE DEF T, A
<1>7. PICK s \in Students : BelowThreshold(Rate(A[s]), o)
    BY <1>1, <1>3, <1>4, <1>5, <1>6, CountAssumption, BelowSomewhere
<1>8. PICK l \in Lecturers : l \in teaches[o]
    BY <1>1 DEF CountInv, OfferingInv, Assigned
<1>9. BelowThreshold(Rate(RowsWith(s, o)), o)
    BY <1>7 DEF A
<1> QED
    BY <1>1, <1>7, <1>8, <1>9, RiskOfTeacher

LEMMA RiskAgrees == CountInv => RiskListed
<1> SUFFICES ASSUME CountInv PROVE RiskListed
    OBVIOUS
<1> DEFINE listed == UNION {AtRisk(l) : l \in Lecturers}
<1>1. StudentsAtRisk = {row[1] : row \in listed}
    BY StudentsListed DEF CountInv
<1>2. ASSUME NEW o \in CoursesAtRisk PROVE o \in {row[2] : row \in listed}
    <2>1. PICK s \in Students, l \in Lecturers : <<s, o>> \in AtRisk(l)
        BY CourseHasStudent
    <2>2. <<s, o>> \in listed
        BY <2>1
    <2> HIDE DEF listed
    <2> QED
        BY <2>2
<1> HIDE DEF listed
<1>3. CoursesAtRisk \subseteq {row[2] : row \in listed}
    BY <1>2
<1> QED
    BY <1>1, <1>3 DEF RiskListed, listed

\* The later weeks of a part are among the later weeks of the whole.
LEMMA WeekInTrend ==
    ASSUME NEW T, NEW U \in SUBSET T, IsFiniteSet(RosterRows(T)),
           NEW w \in DOMAIN Trend(T), w \in Weeks(U)
    PROVE  w \in DOMAIN Trend(U)
<1> DEFINE all  == {u \in Weeks(T) : u > w}
           mine == {u \in Weeks(U) : u > w}
<1>1. DOMAIN Trend(T) = {v \in Weeks(T) : Cardinality({u \in Weeks(T) : u > v}) < TrendWeeks}
    BY DEF Trend
<1>2. DOMAIN Trend(U) = {v \in Weeks(U) : Cardinality({u \in Weeks(U) : u > v}) < TrendWeeks}
    BY DEF Trend
<1>3. mine \subseteq all
    BY DEF Weeks, RosterRows
<1>4. IsFiniteSet(all)
    <2> DEFINE week == [row \in RosterRows(T) |-> WeekOf[row[1]]]
    <2>1. Weeks(T) = {week[row] : row \in RosterRows(T)}
        BY DEF Weeks
    <2> HIDE DEF week
    <2>2. IsFiniteSet(Weeks(T))
        BY <2>1, ImageFinite
    <2> QED
        BY <2>2, FS_Subset
<1>5. Cardinality(all) < TrendWeeks
    BY <1>1
<1> HIDE DEF all, mine
<1>6. Cardinality(mine) <= Cardinality(all) /\ Cardinality(mine) \in Nat /\ Cardinality(all) \in Nat
    BY <1>3, <1>4, FS_Subset, FS_CardinalityType
<1>7. Cardinality(mine) < TrendWeeks
    BY <1>5, <1>6, TrendAssumption
<1> QED
    BY <1>2, <1>7 DEF mine

LEMMA TrendsAgree == CountInv => TrendsAddUp
<1> SUFFICES ASSUME CountInv, NEW w \in DOMAIN InstitutionTrend
             PROVE  LET trend  == [l \in Lecturers |-> LecturerTrend(l)]
                        having == {l \in Lecturers : w \in DOMAIN trend[l]}
                    IN  InstitutionTrend[w].attended
                            = SumFunction([l \in having |-> trend[l][w].attended])
    BY DEF TrendsAddUp
<1> DEFINE T == {n \in Made : Completed(n)}
           W == {n \in T : WeekOf[n] = w}
           trend == [l \in Lecturers |-> LecturerTrend(l)]
           having == {l \in Lecturers : w \in DOMAIN trend[l]}
           A == [l \in Lecturers |-> RosterRows(Share(W, l))]
<1>1. \A l \in Lecturers : trend[l] = Trend(Share(T, l))
    <2>1. \A l \in Lecturers : CompletedSessions(l) = Share(T, l)
        BY DEF CompletedSessions, LecturerSessions, Share
    <2> QED
        BY <2>1 DEF LecturerTrend
<1>2. InstitutionTrend = Trend(T)
    BY DEF InstitutionTrend
<1>3. InstitutionTrend[w] = Rate(RosterRows(W))
    BY <1>2 DEF Trend
<1>4. \A l \in having : trend[l][w] = Rate(A[l])
    <2> SUFFICES ASSUME NEW l \in having PROVE trend[l][w] = Rate(A[l])
        OBVIOUS
    <2>1. w \in DOMAIN Trend(Share(T, l))
        BY <1>1
    <2>2. Trend(Share(T, l))[w] = Rate(RosterRows({n \in Share(T, l) : WeekOf[n] = w}))
        BY <2>1 DEF Trend
    <2>3. {n \in Share(T, l) : WeekOf[n] = w} = Share(W, l)
        BY DEF Share
    <2> QED
        BY <1>1, <2>2, <2>3
<1>5. \A l \in Lecturers \ having : A[l] = {}
    <2> SUFFICES ASSUME NEW l \in Lecturers, l \notin having, A[l] # {}
                 PROVE  FALSE
        OBVIOUS
    <2>1. w \in Weeks(Share(T, l))
        BY DEF Weeks, RosterRows, Share
    <2>2. Share(T, l) \in SUBSET T /\ T \in SUBSET Made
        BY DEF Share
    <2>3. IsFiniteSet(RosterRows(T))
        BY <2>2, RowsFinite DEF CountInv
    <2>4. w \in DOMAIN Trend(T)
        BY <1>2
    <2> HIDE DEF T
    <2>5. w \in DOMAIN Trend(Share(T, l))
        BY <2>1, <2>2, <2>3, <2>4, WeekInTrend
    <2> QED
        BY <1>1, <2>5
<1>6. /\ RosterRows(W) = Together(A, Lecturers)
      /\ \A l \in Lecturers : IsFiniteSet(A[l])
      /\ \A k, l \in Lecturers : k # l => A[k] \cap A[l] = {}
    <2>1. W \in SUBSET Made
        OBVIOUS
    <2> HIDE DEF W
    <2> QED
        BY <2>1, RowsByLecturer
<1>7. having \in SUBSET Lecturers
    OBVIOUS
<1>8. [l \in having |-> trend[l][w].attended] = [l \in having |-> Rate(A[l]).attended]
    BY <1>4
<1> HIDE DEF T, W, A, having
<1>9. RosterRows(W) = Together(A, having)
    BY <1>5, <1>6, <1>7 DEF Together
<1>10. IsFiniteSet(having)
    BY <1>7, CountAssumption, FS_Subset
<1>11. Rate(RosterRows(W)) = [attended |-> SumFunction([l \in having |-> Rate(A[l]).attended]),
                              total    |-> SumFunction([l \in having |-> Rate(A[l]).total])]
    <2>1. /\ \A l \in having : IsFiniteSet(A[l])
          /\ \A k, l \in having : k # l => A[k] \cap A[l] = {}
        BY <1>6, <1>7
    <2> QED
        BY <1>9, <1>10, <2>1, RateOfParts
<1>12. InstitutionTrend[w].attended = SumFunction([l \in having |-> trend[l][w].attended])
    <2> DEFINE shares == [l \in having |-> Rate(A[l]).attended]
    <2>1. Rate(RosterRows(W)).attended = SumFunction(shares)
        BY <1>11
    <2>2. shares = [l \in having |-> trend[l][w].attended]
        BY <1>8
    <2> HIDE DEF shares, trend
    <2> QED
        BY <1>3, <2>1, <2>2
<1> QED
    BY <1>12 DEF having

\* However classes are created, reassigned, held and closed: the figures of the
\* institution, the lecturers, their courses and their sessions, each counted by a
\* query of its own, add up, week by week and student by student.
THEOREM EveryClassCountedOnce == Spec => []ClassesCountedOnce
<1>1. CountInv => ClassesCountedOnce
    BY FiguresAgree, OverviewAgrees, RiskAgrees, TrendsAgree DEF ClassesCountedOnce
<1>2. Init => OfferingsHeld
    BY DEF Init, OfferingsHeld, Made
<1>3. Spec => []CountInv
    <2>1. OfferingInv /\ SessionInv /\ OfferingsHeld => CountInv
        BY DEF CountInv
    <2> QED
        BY <1>2, <2>1, OfferingsHeldStep, TablesSound, PTL DEF Spec
<1> QED
    BY <1>1, <1>3, PTL
=============================================================================
