------------------------- MODULE FaceProfilesProofs -------------------------
(***************************************************************************)
(* Theorems about reference faces: for any set of students, of uploads, of *)
(* import scripts and of readiness checks, any folders and any number of   *)
(* restarts of the service.                                                *)
(***************************************************************************)
EXTENDS FaceProfiles, WellFoundedInduction, TLAPS

-----------------------------------------------------------------------------
(* The inductive invariant.                                                *)

Pcs == {"idle", "importing", "inserting", "analysing", "saving",
        "reported", "refused", "lost"}

OutcomeMaps == UNION {[N -> Outcomes] : N \in SUBSET Numbers}

ImportRow == [pc : Pcs, commit : BOOLEAN, saw : {"none", "failed"}, good : BOOLEAN,
              folder : Folders \cup {NoImport.folder}, outcome : OutcomeMaps]

CheckRow == [pc : {"idle", "comparing", "done"}, student : Students \cup {NoOne},
             ref : Imports \cup {"none"}]

Typed ==
    /\ profile \in [Students -> Profiles]
    /\ import \in [Imports -> ImportRow]
    /\ answer \in [Uploads -> {"waiting", "report", "rejected", "busy", "unavailable"}]
    /\ check \in [Checks -> CheckRow]
    /\ restarts \in 0..MaxRestarts

\* An import that has not started has counted nothing, and a check being
\* compared is a student's.
Fresh ==
    /\ \A i \in Imports : import[i].pc = "idle" => DOMAIN import[i].outcome = {}
    /\ \A c \in Checks : check[c].pc = "comparing" => check[c].student \in Students

\* An import at a photograph has one left, of a student.
Busy == {"inserting", "analysing", "saving"}

AtPhotograph ==
    \A i \in Imports : import[i].pc \in Busy => Pending(i) # {} /\ Current(i) \in Students

\* The lock: one upload is in flight.
OneUpload ==
    \A u, v \in Uploads : import[u].pc \in InFlight /\ import[v].pc \in InFlight => u = v

\* An import that holds its student's row knows whether the row was committed
\* when it took the photograph up, and an absent row is inserted by one import.
Holding == {"analysing", "saving"}

RowsSeen ==
    \A i \in Imports : import[i].pc \in Holding =>
        (profile[Current(i)].status = "none" <=> import[i].saw = "none")

OneInserts ==
    \A i, j \in Imports :
        /\ import[i].pc \in Holding /\ import[i].saw = "none"
        /\ import[j].pc \in Holding /\ import[j].saw = "none"
        /\ Current(i) = Current(j)
        => i = j

Inv1 == Typed /\ Fresh /\ AtPhotograph /\ OneUpload /\ RowsSeen /\ OneInserts

\* What the service alone keeps, as long as no script has run.  A row an
\* upload saw failed is failed when the upload saves.
SeenStays ==
    \A i \in Imports : import[i].pc \in Holding /\ import[i].saw = "failed" =>
        profile[Current(i)].status = "failed"

\* A check compares with the reference that is stored, and so did the check
\* that passed.
ChecksCurrent ==
    /\ \A c \in Checks : check[c].pc = "comparing" =>
          /\ profile[check[c].student].status = "generated"
          /\ profile[check[c].student].ref = check[c].ref
    /\ \A s \in Students : profile[s].readiness = "passed" =>
          profile[s].status = "generated" /\ profile[s].checked = profile[s].ref

\* What upload u has counted so far is true of the rows.
CountOf(u) ==
    /\ \A n \in DOMAIN import[u].outcome :
          /\ import[u].folder[n] > 0
          /\ import[u].outcome[n] \in {"enrolled", "already"} =>
                 n \in Students /\ profile[n].status = "generated"
          /\ import[u].outcome[n] = "enrolled" => profile[n].ref = u
    /\ \A s \in Students : profile[s].ref = u =>
          s \in DOMAIN import[u].outcome /\ import[u].outcome[s] = "enrolled"

CountedTruly == \A u \in Uploads : import[u].pc # "lost" => CountOf(u)

Answered ==
    \A u \in Uploads : /\ answer[u] = "report" => import[u].pc = "reported"
                       /\ import[u].pc = "reported" => Pending(u) = {}

Inv2 == Answered /\ (ServiceOnly => SeenStays /\ ChecksCurrent /\ CountedTruly)

IInv == Inv1 /\ Inv2

-----------------------------------------------------------------------------
(* The photograph an import is at.                                         *)

\* A set of photographs that is not empty has a first one.
LEMMA FirstOfNumbers ==
    ASSUME NEW S \in SUBSET Nat, S # {}
    PROVE  Min(S) \in S
<1>1. PICK x \in S : \A y \in S : ~(<<y, x>> \in OpToRel(<, Nat))
    BY NatLessThanWellFounded, WFMin
<1>2. \A y \in S : x =< y
    <2> SUFFICES ASSUME NEW y \in S PROVE x =< y
        OBVIOUS
    <2>1. ~(y < x)
        BY <1>1 DEF OpToRel
    <2> QED
        BY <2>1
<1> QED
    BY <1>2 DEF Min

LEMMA CurrentPending ==
    ASSUME NEW i \in Imports, Pending(i) # {}
    PROVE  /\ Current(i) \in Pending(i) /\ Current(i) \in Numbers
           /\ import[i].folder[Current(i)] > 0
           /\ Current(i) \notin DOMAIN import[i].outcome
<1>1. Pending(i) \in SUBSET Nat
    BY NumbersAssumption DEF Pending
<1>2. Current(i) \in Pending(i)
    BY <1>1, FirstOfNumbers DEF Current
<1> QED
    BY <1>2 DEF Pending

\* It changes only with the folder or with what has been counted.
LEMMA SamePhotograph ==
    ASSUME NEW i \in Imports, import'[i].folder = import[i].folder,
           import'[i].outcome = import[i].outcome
    PROVE  Pending(i)' = Pending(i) /\ Current(i)' = Current(i)
BY DEF Pending, Current

-----------------------------------------------------------------------------
(* What the updates of an import's progress do.                            *)

LEMMA RowTyped ==
    ASSUME Typed, NEW i \in Imports
    PROVE  /\ import[i] \in ImportRow /\ import[i].pc \in Pcs
           /\ import[i].commit \in BOOLEAN /\ import[i].good \in BOOLEAN
           /\ import[i].saw \in {"none", "failed"}
           /\ import[i].folder \in Folders \cup {NoImport.folder}
           /\ import[i].outcome \in OutcomeMaps
           /\ DOMAIN import[i].outcome \subseteq Numbers
           /\ \A n \in DOMAIN import[i].outcome : import[i].outcome[n] \in Outcomes
<1>1. import[i] \in ImportRow
    BY DEF Typed
<1>2. /\ import[i].pc \in Pcs
      /\ import[i].commit \in BOOLEAN /\ import[i].good \in BOOLEAN
      /\ import[i].saw \in {"none", "failed"}
      /\ import[i].folder \in Folders \cup {NoImport.folder}
      /\ import[i].outcome \in OutcomeMaps
    BY <1>1 DEF ImportRow
<1>3. PICK N \in SUBSET Numbers : import[i].outcome \in [N -> Outcomes]
    BY <1>2 DEF OutcomeMaps
<1> QED
    BY <1>1, <1>2, <1>3

LEMMA MoveStep ==
    ASSUME Typed, NEW i \in Imports, NEW pc \in Pcs, NEW saw \in {"none", "failed"},
           NEW good \in BOOLEAN, Move(i, pc, saw, good)
    PROVE  /\ import' \in [Imports -> ImportRow]
           /\ import'[i].pc = pc /\ import'[i].saw = saw /\ import'[i].good = good
           /\ import'[i].commit = import[i].commit
           /\ import'[i].folder = import[i].folder /\ import'[i].outcome = import[i].outcome
           /\ \A j \in Imports : j # i => import'[j] = import[j]
<1>1. import[i] \in ImportRow
    BY RowTyped
<1> DEFINE row == [import[i] EXCEPT !.pc = pc, !.saw = saw, !.good = good]
<1>2. /\ row \in ImportRow /\ row.pc = pc /\ row.saw = saw /\ row.good = good
      /\ row.commit = import[i].commit
      /\ row.folder = import[i].folder /\ row.outcome = import[i].outcome
    BY <1>1 DEF ImportRow
<1>3. import' = [import EXCEPT ![i] = row]
    BY DEF Move
<1> HIDE DEF row
<1> QED
    BY <1>2, <1>3 DEF Typed

LEMMA RecordStep ==
    ASSUME Typed, NEW i \in Imports, NEW o \in Outcomes, Pending(i) # {}, Record(i, o)
    PROVE  /\ import' \in [Imports -> ImportRow]
           /\ import'[i].pc = "importing" /\ import'[i].saw = "none"
           /\ import'[i].folder = import[i].folder
           /\ DOMAIN import'[i].outcome = DOMAIN import[i].outcome \cup {Current(i)}
           /\ import'[i].outcome[Current(i)] = o
           /\ \A n \in DOMAIN import[i].outcome :
                 n # Current(i) /\ import'[i].outcome[n] = import[i].outcome[n]
           /\ \A j \in Imports : j # i => import'[j] = import[j]
<1>1. /\ import[i] \in ImportRow
      /\ DOMAIN import[i].outcome \subseteq Numbers
      /\ \A n \in DOMAIN import[i].outcome : import[i].outcome[n] \in Outcomes
    BY RowTyped
<1>2. Current(i) \in Numbers /\ Current(i) \notin DOMAIN import[i].outcome
    BY CurrentPending
<1> DEFINE f == [n \in DOMAIN import[i].outcome \cup {Current(i)} |->
                    IF n = Current(i) THEN o ELSE import[i].outcome[n]]
           row == [import[i] EXCEPT !.pc = "importing", !.saw = "none", !.good = FALSE,
                                    !.outcome = f]
<1>3. f \in OutcomeMaps
    <2> DEFINE N == DOMAIN import[i].outcome \cup {Current(i)}
    <2>1. N \in SUBSET Numbers
        BY <1>1, <1>2
    <2>2. f \in [N -> Outcomes]
        BY <1>1
    <2> HIDE DEF f, N
    <2> QED
        BY <2>1, <2>2 DEF OutcomeMaps
<1>4. import' = [import EXCEPT ![i] = row]
    BY DEF Record
<1>5. /\ DOMAIN f = DOMAIN import[i].outcome \cup {Current(i)}
      /\ f[Current(i)] = o
      /\ \A n \in DOMAIN import[i].outcome : n # Current(i) /\ f[n] = import[i].outcome[n]
    BY <1>2
<1> HIDE DEF f
<1>6. /\ row \in ImportRow /\ row.pc = "importing" /\ row.saw = "none"
      /\ row.folder = import[i].folder /\ row.outcome = f
    BY <1>1, <1>3 DEF ImportRow, Pcs
<1> HIDE DEF row
<1>7. /\ import'[i] = row /\ import' \in [Imports -> ImportRow]
      /\ \A j \in Imports : j # i => import'[j] = import[j]
    BY <1>4, <1>6 DEF Typed
<1> QED
    BY <1>5, <1>6, <1>7

LEMMA StartStep ==
    ASSUME Typed, NEW i \in Imports, NEW folder \in Folders, NEW commit \in BOOLEAN,
           Start(i, folder, commit)
    PROVE  /\ import' \in [Imports -> ImportRow]
           /\ import[i].pc = "idle" /\ import'[i].pc = "importing"
           /\ import'[i].outcome = import[i].outcome
           /\ \A j \in Imports : j # i => import'[j] = import[j]
<1>1. import[i] \in ImportRow
    BY RowTyped
<1> DEFINE row == [import[i] EXCEPT !.pc = "importing", !.folder = folder,
                                    !.commit = commit]
<1>2. row \in ImportRow /\ row.pc = "importing" /\ row.outcome = import[i].outcome
    BY <1>1 DEF ImportRow, Pcs
<1>3. import' = [import EXCEPT ![i] = row]
    BY DEF Start
<1> HIDE DEF row
<1> QED
    BY <1>2, <1>3 DEF Typed, Start

\* Ending an import leaves its folder and its counts alone.
LEMMA EndStep ==
    ASSUME Typed, NEW i \in Imports, NEW pc \in Pcs,
           import' = [import EXCEPT ![i].pc = pc]
    PROVE  /\ import' \in [Imports -> ImportRow]
           /\ import'[i].pc = pc
           /\ import'[i].folder = import[i].folder /\ import'[i].outcome = import[i].outcome
           /\ \A j \in Imports : j # i => import'[j] = import[j]
<1>1. import[i] \in ImportRow
    BY RowTyped
<1> DEFINE row == [import[i] EXCEPT !.pc = pc]
<1>2. /\ row \in ImportRow /\ row.pc = pc
      /\ row.folder = import[i].folder /\ row.outcome = import[i].outcome
    BY <1>1 DEF ImportRow
<1>3. import' = [import EXCEPT ![i] = row]
    OBVIOUS
<1> HIDE DEF row
<1> QED
    BY <1>2, <1>3 DEF Typed

LEMMA LostTyped == Lost \in ImportRow /\ NoImport \in ImportRow
                   /\ Lost.pc = "lost" /\ NoImport.pc = "idle"
                   /\ DOMAIN NoImport.outcome = {}
<1> DEFINE empty == [n \in {} |-> "failed"]
           none == [n \in Numbers |-> 0]
<1>1. empty \in OutcomeMaps /\ DOMAIN empty = {}
    <2>1. empty \in [{} -> Outcomes] /\ {} \in SUBSET Numbers
        OBVIOUS
    <2> HIDE DEF empty
    <2>2. DOMAIN empty = {}
        BY <2>1
    <2> QED
        BY <2>1, <2>2 DEF OutcomeMaps
<1>2. NoImport = [pc |-> "idle", commit |-> TRUE, saw |-> "none", good |-> FALSE,
                  folder |-> none, outcome |-> empty]
    BY DEF NoImport
<1> HIDE DEF empty, none
<1>3. /\ NoImport \in ImportRow /\ NoImport.outcome = empty /\ NoImport.pc = "idle"
      /\ NoImport.folder = none
    BY <1>1, <1>2 DEF ImportRow, Pcs
<1>4. Lost = [NoImport EXCEPT !.pc = "lost"]
    BY DEF Lost
<1>5. Lost \in ImportRow /\ Lost.pc = "lost"
    BY <1>3, <1>4 DEF ImportRow, Pcs
<1> QED
    BY <1>1, <1>3, <1>5

-----------------------------------------------------------------------------
(* What the updates of a student's row do.                                 *)

RowSaved(s, status, ref) ==
    profile' = [profile EXCEPT ![s].status = status, ![s].ref = ref]

RowChecked(s, result, ref) ==
    profile' = [profile EXCEPT ![s].readiness = result, ![s].checked = ref]

LEMMA SaveStep ==
    ASSUME Typed, NEW s \in Students, NEW status \in {"generated", "failed"},
           NEW ref \in Imports \cup {"none"},
           RowSaved(s, status, ref)
    PROVE  /\ profile' \in [Students -> Profiles]
           /\ profile'[s].status = status /\ profile'[s].ref = ref
           /\ profile'[s].readiness = profile[s].readiness
           /\ profile'[s].checked = profile[s].checked
           /\ \A r \in Students : r # s => profile'[r] = profile[r]
<1>1. profile[s] \in Profiles
    BY DEF Typed
<1> DEFINE row == [profile[s] EXCEPT !.status = status, !.ref = ref]
<1>2. /\ row \in Profiles /\ row.status = status /\ row.ref = ref
      /\ row.readiness = profile[s].readiness /\ row.checked = profile[s].checked
    BY <1>1 DEF Profiles
<1>3. profile' = [profile EXCEPT ![s] = row]
    BY DEF RowSaved
<1> HIDE DEF row
<1> QED
    BY <1>2, <1>3 DEF Typed

LEMMA CheckedStep ==
    ASSUME Typed, NEW s \in Students, NEW result \in {"passed", "failed"},
           NEW ref \in Imports \cup {"none"},
           RowChecked(s, result, ref)
    PROVE  /\ profile' \in [Students -> Profiles]
           /\ profile'[s].status = profile[s].status /\ profile'[s].ref = profile[s].ref
           /\ profile'[s].readiness = result /\ profile'[s].checked = ref
           /\ \A r \in Students : r # s => profile'[r] = profile[r]
<1>1. profile[s] \in Profiles
    BY DEF Typed
<1> DEFINE row == [profile[s] EXCEPT !.readiness = result, !.checked = ref]
<1>2. /\ row \in Profiles /\ row.readiness = result /\ row.checked = ref
      /\ row.status = profile[s].status /\ row.ref = profile[s].ref
    BY <1>1 DEF Profiles
<1>3. profile' = [profile EXCEPT ![s] = row]
    BY DEF RowChecked
<1> HIDE DEF row
<1> QED
    BY <1>2, <1>3 DEF Typed

\* Save and CheckRecord as the updates above, for the student concerned.
LEMMA Saves ==
    ASSUME Typed, AtPhotograph, NEW i \in Imports, Save(i)
    PROVE  LET s == Current(i)
               good == import[i].good
           IN  /\ s \in Students /\ Pending(i) # {}
               /\ profile' \in [Students -> Profiles]
               /\ profile'[s].status = IF good THEN "generated" ELSE "failed"
               /\ profile'[s].ref = IF good THEN i ELSE "none"
               /\ profile'[s].readiness = profile[s].readiness
               /\ profile'[s].checked = profile[s].checked
               /\ \A r \in Students : r # s => profile'[r] = profile[r]
               /\ Record(i, IF good THEN "enrolled" ELSE "failed")
               /\ (IF good THEN "enrolled" ELSE "failed") \in Outcomes
<1>1. Current(i) \in Students /\ Pending(i) # {}
    BY DEF Save, AtPhotograph, Busy
<1> DEFINE status == IF import[i].good THEN "generated" ELSE "failed"
           ref == IF import[i].good THEN i ELSE "none"
<1>2. status \in {"generated", "failed"} /\ ref \in Imports \cup {"none"}
    OBVIOUS
<1>3. RowSaved(Current(i), status, ref)
    BY DEF Save, RowSaved
<1>4. /\ profile' \in [Students -> Profiles]
      /\ profile'[Current(i)].status = status /\ profile'[Current(i)].ref = ref
      /\ profile'[Current(i)].readiness = profile[Current(i)].readiness
      /\ profile'[Current(i)].checked = profile[Current(i)].checked
      /\ \A r \in Students : r # Current(i) => profile'[r] = profile[r]
    <2> HIDE DEF status, ref
    <2> QED
        BY <1>1, <1>2, <1>3, SaveStep
<1> QED
    BY <1>1, <1>4 DEF Save, Outcomes

LEMMA Checked ==
    ASSUME Typed, Fresh, NEW c \in Checks, NEW r \in Comparisons, CheckRecord(c, r)
    PROVE  LET s == check[c].student
           IN  /\ s \in Students
               /\ profile' \in [Students -> Profiles]
               /\ profile'[s].status = profile[s].status /\ profile'[s].ref = profile[s].ref
               /\ profile'[s].readiness = Readiness(r)
               /\ profile'[s].checked = check[c].ref
               /\ \A t \in Students : t # s => profile'[t] = profile[t]
<1>1. check[c].student \in Students
    BY DEF CheckRecord, Fresh
<1>2. Readiness(r) \in {"passed", "failed"}
    BY DEF Readiness
<1>3. check[c].ref \in Imports \cup {"none"}
    BY DEF Typed, CheckRow
<1>4. RowChecked(check[c].student, Readiness(r), check[c].ref)
    BY DEF CheckRecord, RowChecked
<1> QED
    BY <1>1, <1>2, <1>3, <1>4, CheckedStep

LEMMA ToldTyped ==
    ASSUME Typed, NEW u \in Uploads,
           NEW what \in {"report", "rejected", "busy", "unavailable"},
           answer' = Told(u, what)
    PROVE  /\ answer' \in [Uploads -> {"waiting", "report", "rejected", "busy", "unavailable"}]
           /\ answer'[u] \in {answer[u], what}
           /\ \A v \in Uploads : v # u => answer'[v] = answer[v]
BY DEF Told, Typed

-----------------------------------------------------------------------------
(* Types.                                                                  *)

\* The outcomes a photograph can be recorded with when it is taken up.
LEMMA TakeUpOutcomes ==
    ASSUME NEW i \in Imports
    PROVE  /\ Screened(i) \in {"skipped", "failed", "validated", "enrol"}
           /\ Standing(Current(i)) \in {"already", "skipped", "enrol"}
           /\ Screened(i) = "enrol" => Current(i) \in Students
           /\ Standing(Current(i)) = "already" => profile[Current(i)].status = "generated"
           /\ Standing(Current(i)) = "enrol" =>
                 profile[Current(i)].status \notin {"generated", "revoked"}
BY DEF Screened, Standing

LEMMA TypedInit == Init => Typed
<1> SUFFICES ASSUME Init PROVE Typed
    OBVIOUS
<1>1. profile \in [Students -> Profiles]
    BY DEF Init, Profiles, NoProfile
<1>2. import \in [Imports -> ImportRow]
    BY LostTyped DEF Init
<1>3. check \in [Checks -> CheckRow]
    BY DEF Init, NoCheck, CheckRow
<1>4. answer \in [Uploads -> {"waiting", "report", "rejected", "busy", "unavailable"}]
      /\ restarts \in 0..MaxRestarts
    BY MaxRestartsAssumption DEF Init
<1> QED
    BY <1>1, <1>2, <1>3, <1>4 DEF Typed

LEMMA CheckTyped ==
    ASSUME Typed, NEW c \in Checks, check' = [check EXCEPT ![c].pc = "done"]
    PROVE  /\ check' \in [Checks -> CheckRow]
           /\ check'[c].pc = "done"
           /\ \A d \in Checks : d # c => check'[d] = check[d]
<1>1. check[c] \in CheckRow
    BY DEF Typed
<1> DEFINE row == [check[c] EXCEPT !.pc = "done"]
<1>2. row \in CheckRow /\ row.pc = "done"
    BY <1>1 DEF CheckRow
<1>3. check' = [check EXCEPT ![c] = row]
    OBVIOUS
<1> HIDE DEF row
<1> QED
    BY <1>2, <1>3 DEF Typed

\* A restart: uploads in progress are lost, checks in progress are over.
LEMMA RestartStep ==
    ASSUME Typed, ServiceRestarts
    PROVE  /\ Typed'
           /\ \A i \in Imports : \/ import'[i] = import[i]
                                 \/ import[i].pc \in InFlight /\ import'[i].pc = "lost"
           /\ \A i \in Scripts : import'[i] = import[i]
           /\ \A u \in Uploads : import[u].pc \in InFlight => import'[u].pc = "lost"
           /\ \A u \in Uploads : answer'[u] \in {answer[u], "unavailable"}
           /\ \A c \in Checks : check'[c].pc # "comparing"
           /\ profile' = profile
<1>1. import' = [i \in Imports |->
                    IF i \in Uploads /\ import[i].pc \in InFlight THEN Lost ELSE import[i]]
    BY DEF ServiceRestarts
<1>2. import' \in [Imports -> ImportRow]
    BY <1>1, LostTyped, RowTyped
<1>3. \A i \in Imports : import'[i] =
          IF i \in Uploads /\ import[i].pc \in InFlight THEN Lost ELSE import[i]
    BY <1>1
<1>4. \A i \in Imports : i \in Scripts => import'[i] = import[i]
    BY <1>3, ImportsAssumption
<1>5. /\ check' = [c \in Checks |-> IF check[c].pc = "comparing"
                                   THEN [check[c] EXCEPT !.pc = "done"] ELSE check[c]]
    BY DEF ServiceRestarts
<1>6. \A c \in Checks : check'[c] \in CheckRow /\ check'[c].pc # "comparing"
    <2> SUFFICES ASSUME NEW c \in Checks
                 PROVE  check'[c] \in CheckRow /\ check'[c].pc # "comparing"
        OBVIOUS
    <2>1. check[c] \in CheckRow
        BY DEF Typed
    <2> DEFINE row == [check[c] EXCEPT !.pc = "done"]
    <2>2. row \in CheckRow /\ row.pc = "done"
        BY <2>1 DEF CheckRow
    <2>3. check'[c] = IF check[c].pc = "comparing" THEN row ELSE check[c]
        BY <1>5
    <2> HIDE DEF row
    <2> QED
        BY <2>1, <2>2, <2>3
<1>7. check' \in [Checks -> CheckRow]
    BY <1>5, <1>6
<1>8. /\ answer' \in [Uploads -> {"waiting", "report", "rejected", "busy", "unavailable"}]
      /\ \A u \in Uploads : answer'[u] \in {answer[u], "unavailable"}
    BY DEF ServiceRestarts, Typed
<1>9. restarts' \in 0..MaxRestarts /\ profile' = profile
    BY MaxRestartsAssumption DEF ServiceRestarts, Typed
<1>10. Typed'
    BY <1>2, <1>7, <1>8, <1>9 DEF Typed
<1> QED
    BY <1>3, <1>4, <1>6, <1>8, <1>9, <1>10, LostTyped DEF Imports

-----------------------------------------------------------------------------
(* Locks and rows: Inv1.                                                   *)

LEMMA Inv1Init == Init => Inv1
<1> SUFFICES ASSUME Init PROVE Inv1
    OBVIOUS
<1>1. \A i \in Imports : import[i] = NoImport
    BY DEF Init
<1>2. \A c \in Checks : check[c].pc = "idle"
    BY DEF Init, NoCheck
<1> QED
    BY <1>1, <1>2, TypedInit, LostTyped
    DEF Inv1, Fresh, AtPhotograph, OneUpload, RowsSeen, OneInserts, Busy, Holding,
        InFlight, Imports

\* A step that takes no import to a photograph, starts no upload and inserts
\* no row.
Quiet ==
    /\ \A i \in Imports :
          \/ import'[i] = import[i]
          \/ /\ import'[i].pc \notin Busy \cup {"idle"}
             /\ i \in Uploads /\ import'[i].pc \in InFlight => import[i].pc \in InFlight
    /\ \A s \in Students : profile'[s].status = "none" <=> profile[s].status = "none"
    /\ \A c \in Checks : check'[c].pc = "comparing" => check'[c].student \in Students

LEMMA QuietStep ==
    ASSUME Inv1, Typed', Quiet
    PROVE  Inv1'
<1>1. \A i \in Imports : import'[i].pc \in Busy \cup {"idle"} => import'[i] = import[i]
    BY DEF Quiet
<1>2. \A i \in Imports : import'[i] = import[i] =>
          Pending(i)' = Pending(i) /\ Current(i)' = Current(i)
    BY SamePhotograph
<1>3. Fresh'
    BY <1>1 DEF Quiet, Inv1, Fresh
<1>4. AtPhotograph'
    BY <1>1, <1>2 DEF Inv1, AtPhotograph
<1>5. OneUpload'
    <2>1. \A u \in Uploads : import'[u].pc \in InFlight => import[u].pc \in InFlight
        BY DEF Quiet, Imports
    <2> QED
        BY <2>1 DEF Inv1, OneUpload, InFlight
<1>6. \A i \in Imports : import'[i].pc \in Holding =>
          /\ import'[i] = import[i] /\ Current(i)' = Current(i)
          /\ Current(i) \in Students
    BY <1>1, <1>2 DEF Inv1, AtPhotograph, Busy, Holding
<1>7. RowsSeen'
    BY <1>6 DEF Inv1, RowsSeen, Quiet, Holding
<1>8. OneInserts'
    BY <1>6 DEF Inv1, OneInserts, Holding
<1> QED
    BY <1>3, <1>4, <1>5, <1>7, <1>8 DEF Inv1

\* A recorded photograph is quiet, if no row was inserted.
LEMMA RecordQuiet ==
    ASSUME Inv1, NEW i \in Imports, NEW o \in Outcomes, Pending(i) # {}, Record(i, o),
           import[i].pc \in InFlight, UNCHANGED <<profile, answer, check, restarts>>
    PROVE  Inv1'
<1>1. /\ import' \in [Imports -> ImportRow] /\ import'[i].pc = "importing"
      /\ \A j \in Imports : j # i => import'[j] = import[j]
    BY RecordStep DEF Inv1
<1>2. Typed'
    BY <1>1 DEF Inv1, Typed
<1>3. Quiet
    BY <1>1 DEF Inv1, Fresh, Quiet, Busy, InFlight
<1> QED
    BY <1>2, <1>3, QuietStep

\* An import ended without touching a row is quiet.
LEMMA EndQuiet ==
    ASSUME Inv1, NEW i \in Imports, NEW pc \in {"reported", "refused", "lost"},
           import' \in [Imports -> ImportRow], import'[i].pc = pc,
           \A j \in Imports : j # i => import'[j] = import[j],
           answer' \in [Uploads -> {"waiting", "report", "rejected", "busy", "unavailable"}],
           UNCHANGED <<profile, check, restarts>>
    PROVE  Inv1'
<1>1. Typed'
    BY DEF Inv1, Typed
<1>2. Quiet
    BY DEF Inv1, Fresh, Quiet, Busy, InFlight
<1> QED
    BY <1>1, <1>2, QuietStep

\* An import that moves on at its photograph: to the insert, or holding the
\* row.
LEMMA MoveKeeps ==
    ASSUME Inv1, NEW i \in Imports, NEW pc \in Busy, NEW saw \in {"none", "failed"},
           NEW good \in BOOLEAN, Move(i, pc, saw, good),
           import[i].pc \in InFlight, Pending(i) # {}, Current(i) \in Students,
           pc \in Holding => (profile[Current(i)].status = "none" <=> saw = "none"),
           pc \in Holding /\ saw = "none" =>
               \A j \in Imports : j # i => ~Inserting(j, Current(i)),
           UNCHANGED <<profile, answer, check, restarts>>
    PROVE  Inv1'
<1>1. pc \in Pcs
    BY DEF Busy, Pcs
<1>2. /\ import' \in [Imports -> ImportRow]
      /\ import'[i].pc = pc /\ import'[i].saw = saw
      /\ import'[i].folder = import[i].folder /\ import'[i].outcome = import[i].outcome
      /\ \A j \in Imports : j # i => import'[j] = import[j]
    BY <1>1, MoveStep DEF Inv1
<1>3. \A j \in Imports : Pending(j)' = Pending(j) /\ Current(j)' = Current(j)
    BY <1>2, SamePhotograph
<1>4. Typed'
    BY <1>2 DEF Inv1, Typed
<1>5. Fresh'
    BY <1>2 DEF Inv1, Fresh, Busy
<1>6. AtPhotograph'
    BY <1>2, <1>3 DEF Inv1, AtPhotograph
<1>7. OneUpload'
    BY <1>2 DEF Inv1, OneUpload, InFlight, Imports
<1>8. RowsSeen'
    BY <1>2, <1>3 DEF Inv1, RowsSeen, Holding
<1>9. OneInserts'
    <2> SUFFICES ASSUME NEW a \in Imports, NEW b \in Imports,
                        import'[a].pc \in Holding, import'[a].saw = "none",
                        import'[b].pc \in Holding, import'[b].saw = "none",
                        Current(a) = Current(b)
                 PROVE  a = b
        BY <1>3 DEF OneInserts, Holding
    <2>1. CASE a # i /\ b # i
        BY <2>1, <1>2 DEF Inv1, OneInserts
    <2>2. CASE a = i /\ b # i
        <3>1. ~Inserting(b, Current(i))
            BY <2>2, <1>2
        <3> QED
            BY <2>2, <3>1, <1>2 DEF Inserting, Holding
    <2>3. CASE b = i /\ a # i
        <3>1. ~Inserting(a, Current(i))
            BY <2>3, <1>2
        <3> QED
            BY <2>3, <3>1, <1>2 DEF Inserting, Holding
    <2> QED
        BY <2>1, <2>2, <2>3
<1> QED
    BY <1>4, <1>5, <1>6, <1>7, <1>8, <1>9 DEF Inv1

LEMMA StartKeeps ==
    ASSUME Inv1, NEW i \in Imports, NEW folder \in Folders, NEW commit \in BOOLEAN,
           Start(i, folder, commit), i \in Uploads => ~LockHeld,
           UNCHANGED <<profile, answer, check, restarts>>
    PROVE  Inv1'
<1>1. /\ import' \in [Imports -> ImportRow] /\ import'[i].pc = "importing"
      /\ \A j \in Imports : j # i => import'[j] = import[j]
    BY StartStep DEF Inv1
<1>2. Typed'
    BY <1>1 DEF Inv1, Typed
<1>3. CASE i \notin Uploads
    <2>1. Quiet
        BY <1>1, <1>3 DEF Inv1, Fresh, Quiet, Busy
    <2> QED
        BY <1>2, <2>1, QuietStep
<1>4. CASE i \in Uploads
    <2>1. \A u \in Uploads : import[u].pc \notin InFlight
        BY <1>4 DEF LockHeld
    <2>2. \A u \in Uploads : import'[u].pc \in InFlight => u = i
        BY <2>1, <1>1 DEF Imports
    <2>3. OneUpload'
        BY <2>2 DEF OneUpload, InFlight
    <2>4. \A j \in Imports : import'[j].pc \in Busy \cup {"idle"} =>
              /\ j # i /\ import'[j] = import[j]
              /\ Pending(j)' = Pending(j) /\ Current(j)' = Current(j)
        BY <1>1, SamePhotograph DEF Busy
    <2>5. Fresh' /\ AtPhotograph'
        BY <2>4 DEF Inv1, Fresh, AtPhotograph
    <2>6. RowsSeen' /\ OneInserts'
        BY <2>4 DEF Inv1, RowsSeen, OneInserts, Holding, Busy
    <2> QED
        BY <1>2, <2>3, <2>5, <2>6 DEF Inv1
<1> QED
    BY <1>3, <1>4

LEMMA SaveKeeps ==
    ASSUME Inv1, NEW i \in Imports, Save(i)
    PROVE  Inv1'
<1> DEFINE s == Current(i)
<1>1. /\ s \in Students /\ Pending(i) # {}
      /\ profile' \in [Students -> Profiles]
      /\ profile'[s].status \in {"generated", "failed"}
      /\ \A r \in Students : r # s => profile'[r] = profile[r]
    BY Saves DEF Inv1
<1>2. /\ import' \in [Imports -> ImportRow]
      /\ import[i].pc = "saving" /\ import'[i].pc = "importing"
      /\ \A j \in Imports : j # i => import'[j] = import[j]
    BY Saves, RecordStep DEF Inv1, Save
<1>3. Typed'
    BY <1>1, <1>2 DEF Inv1, Typed, Save
<1>4. \A j \in Imports : import'[j].pc \in Busy \cup {"idle"} =>
          /\ j # i /\ import'[j] = import[j]
          /\ Pending(j)' = Pending(j) /\ Current(j)' = Current(j)
    BY <1>2, SamePhotograph DEF Busy
<1>5. Fresh' /\ AtPhotograph'
    BY <1>4 DEF Inv1, Fresh, AtPhotograph, Save
<1>6. OneUpload'
    BY <1>2 DEF Inv1, OneUpload, InFlight, Imports
<1>7. OneInserts'
    BY <1>4 DEF Inv1, OneInserts, Holding, Busy
<1>8. RowsSeen'
    <2> SUFFICES ASSUME NEW j \in Imports, import'[j].pc \in Holding
                 PROVE  profile'[Current(j)'].status = "none" <=> import'[j].saw = "none"
        BY DEF RowsSeen, Holding
    <2>1. /\ j # i /\ import'[j] = import[j] /\ Current(j)' = Current(j)
          /\ import[j].pc \in Holding
        BY <1>4 DEF Holding, Busy
    <2>2. /\ profile[Current(j)].status = "none" <=> import[j].saw = "none"
          /\ Current(j) \in Students
        BY <2>1 DEF Inv1, RowsSeen, AtPhotograph, Holding, Busy
    <2>3. CASE Current(j) # s
        BY <2>1, <2>2, <2>3, <1>1
    <2>4. CASE Current(j) = s
        <3>1. profile[s].status = "none" <=> import[i].saw = "none"
            BY <1>2 DEF Inv1, RowsSeen, Holding
        <3>2. ~(import[i].saw = "none" /\ import[j].saw = "none")
            BY <1>2, <2>1, <2>4 DEF Inv1, OneInserts, Holding
        <3> QED
            BY <3>1, <3>2, <2>1, <2>2, <2>4, <1>1
    <2> QED
        BY <2>3, <2>4
<1> QED
    BY <1>3, <1>5, <1>6, <1>7, <1>8 DEF Inv1

LEMMA Inv1Step == Inv1 /\ [Next]_vars => Inv1'
<1> SUFFICES ASSUME Inv1, [Next]_vars PROVE Inv1'
    OBVIOUS
<1>1. ASSUME NEW u \in Uploads, NEW f \in Folders, UploadAccepted(u, f)
      PROVE  Inv1'
    BY <1>1, StartKeeps DEF UploadAccepted, Imports
<1>2. ASSUME NEW u \in Uploads, UploadBusy(u) \/ UploadRejected(u)
      PROVE  Inv1'
    <2>1. u \in Imports /\ "refused" \in Pcs
        BY DEF Imports, Pcs
    <2>2. /\ import' \in [Imports -> ImportRow] /\ import'[u].pc = "refused"
          /\ \A j \in Imports : j # u => import'[j] = import[j]
        BY <1>2, <2>1, EndStep DEF Inv1, UploadBusy, UploadRejected
    <2>3. answer' \in [Uploads -> {"waiting", "report", "rejected", "busy", "unavailable"}]
        BY <1>2, ToldTyped DEF Inv1, UploadBusy, UploadRejected
    <2> QED
        BY <1>2, <2>1, <2>2, <2>3, EndQuiet DEF UploadBusy, UploadRejected
<1>3. ASSUME NEW u \in Uploads, CoreGivesUp(u)
      PROVE  Inv1'
    <2>1. answer' \in [Uploads -> {"waiting", "report", "rejected", "busy", "unavailable"}]
        BY <1>3, ToldTyped DEF Inv1, CoreGivesUp
    <2>2. Typed'
        BY <1>3, <2>1 DEF Inv1, Typed, CoreGivesUp
    <2>3. Quiet
        BY <1>3 DEF Inv1, Fresh, Quiet, CoreGivesUp
    <2> QED
        BY <2>2, <2>3, QuietStep
<1>4. ASSUME NEW i \in Scripts, NEW f \in Folders, NEW b \in BOOLEAN, ScriptStarts(i, f, b)
      PROVE  Inv1'
    <2>1. i \in Imports /\ i \notin Uploads
        BY ImportsAssumption DEF Imports
    <2> QED
        BY <1>4, <2>1, StartKeeps DEF ScriptStarts
<1>5. ASSUME NEW i \in Scripts, ScriptDies(i)
      PROVE  Inv1'
    <2>1. i \in Imports
        BY DEF Imports
    <2>2. /\ import' \in [Imports -> ImportRow] /\ import'[i].pc = "lost"
          /\ \A j \in Imports : j # i => import'[j] = import[j]
        BY <1>5, <2>1, LostTyped DEF ScriptDies, Inv1, Typed
    <2> QED
        BY <1>5, <2>1, <2>2, EndQuiet DEF ScriptDies, Inv1, Typed
<1>6. ASSUME NEW i \in Imports, TakeUp(i)
      PROVE  Inv1'
    <2>1. import[i].pc \in InFlight /\ Pending(i) # {}
        BY <1>6 DEF TakeUp, InFlight
    <2>2. CASE Screened(i) # "enrol" /\ Record(i, Screened(i))
        <3>1. Screened(i) \in Outcomes
            BY <2>2, TakeUpOutcomes DEF Outcomes
        <3> QED
            BY <1>6, <2>1, <2>2, <3>1, RecordQuiet DEF TakeUp
    <2>3. CASE Standing(Current(i)) # "enrol" /\ Record(i, Standing(Current(i)))
        <3>1. Standing(Current(i)) \in Outcomes
            BY <2>3, TakeUpOutcomes DEF Outcomes
        <3> QED
            BY <1>6, <2>1, <2>3, <3>1, RecordQuiet DEF TakeUp
    <2>4. CASE /\ Screened(i) = "enrol" /\ Standing(Current(i)) = "enrol"
               /\ profile[Current(i)].status = "none"
               /\ Move(i, "inserting", "none", FALSE)
        <3>1. Current(i) \in Students /\ "inserting" \in Busy /\ "inserting" \notin Holding
            BY <2>4, TakeUpOutcomes DEF Busy, Holding
        <3> QED
            BY <1>6, <2>1, <2>4, <3>1, MoveKeeps DEF TakeUp
    <2>5. CASE /\ Screened(i) = "enrol" /\ Standing(Current(i)) = "enrol"
               /\ profile[Current(i)].status # "none"
               /\ Move(i, "analysing", "failed", FALSE)
        <3>1. Current(i) \in Students /\ "analysing" \in Busy
            BY <2>5, TakeUpOutcomes DEF Busy
        <3> QED
            BY <1>6, <2>1, <2>5, <3>1, MoveKeeps DEF TakeUp
    <2> QED
        BY <1>6, <2>2, <2>3, <2>4, <2>5 DEF TakeUp
<1>7. ASSUME NEW i \in Imports, InsertRow(i)
      PROVE  Inv1'
    <2>1. import[i].pc \in InFlight /\ Pending(i) # {} /\ Current(i) \in Students
        BY <1>7 DEF InsertRow, InFlight, Inv1, AtPhotograph, Busy
    <2>2. CASE profile[Current(i)].status = "none" /\ Move(i, "analysing", "none", FALSE)
        <3>1. "analysing" \in Busy
            BY DEF Busy
        <3> QED
            BY <1>7, <2>1, <2>2, <3>1, MoveKeeps DEF InsertRow
    <2>3. CASE Record(i, "failed")
        <3>1. "failed" \in Outcomes
            BY DEF Outcomes
        <3> QED
            BY <1>7, <2>1, <2>3, <3>1, RecordQuiet DEF InsertRow
    <2> QED
        BY <1>7, <2>2, <2>3 DEF InsertRow
<1>8. ASSUME NEW i \in Imports, NEW good \in BOOLEAN, Analyse(i, good)
      PROVE  Inv1'
    <2>1. /\ import[i].pc \in InFlight /\ import[i].pc \in Holding
          /\ Pending(i) # {} /\ Current(i) \in Students
          /\ import[i].saw \in {"none", "failed"} /\ "saving" \in Busy
        BY <1>8, RowTyped DEF Analyse, InFlight, Inv1, AtPhotograph, Busy, Holding
    <2>2. profile[Current(i)].status = "none" <=> import[i].saw = "none"
        BY <2>1 DEF Inv1, RowsSeen
    <2>3. import[i].saw = "none" =>
              \A j \in Imports : j # i => ~Inserting(j, Current(i))
        BY <2>1 DEF Inv1, OneInserts, Inserting, Holding
    <2>4. Move(i, "saving", import[i].saw, good) /\ UNCHANGED <<profile, answer, check, restarts>>
        BY <1>8 DEF Analyse
    <2> QED
        BY <2>1, <2>2, <2>3, <2>4, MoveKeeps
<1>9. ASSUME NEW i \in Imports, Save(i)
      PROVE  Inv1'
    BY <1>9, SaveKeeps
<1>10. ASSUME NEW i \in Imports, EnrolFails(i)
       PROVE  Inv1'
    <2>1. import[i].pc \in InFlight /\ Pending(i) # {} /\ "failed" \in Outcomes
        BY <1>10 DEF EnrolFails, InFlight, Inv1, AtPhotograph, Busy, Outcomes
    <2> QED
        BY <1>10, <2>1, RecordQuiet DEF EnrolFails
<1>11. ASSUME NEW i \in Imports, Finish(i)
       PROVE  Inv1'
    <2>1. /\ import' \in [Imports -> ImportRow] /\ import'[i].pc = "reported"
          /\ \A j \in Imports : j # i => import'[j] = import[j]
        BY <1>11, EndStep DEF Inv1, Finish, Pcs
    <2>2. answer' \in [Uploads -> {"waiting", "report", "rejected", "busy", "unavailable"}]
        BY <1>11, ToldTyped DEF Inv1, Typed, Finish
    <2> QED
        BY <1>11, <2>1, <2>2, EndQuiet DEF Finish
<1>12. ASSUME NEW c \in Checks, NEW s \in Students, CheckBegin(c, s)
       PROVE  Inv1'
    <2>1. profile[s].ref \in Imports \cup {"none"}
        BY DEF Inv1, Typed, Profiles
    <2> DEFINE row == [pc |-> "comparing", student |-> s, ref |-> profile[s].ref]
    <2>2. row \in CheckRow /\ row.student \in Students
        BY <2>1 DEF CheckRow
    <2>3. check' = [check EXCEPT ![c] = row]
        BY <1>12 DEF CheckBegin
    <2> HIDE DEF row
    <2>4. Typed'
        BY <1>12, <2>2, <2>3 DEF Inv1, Typed, CheckBegin
    <2>5. Quiet
        BY <1>12, <2>2, <2>3 DEF Inv1, Typed, Fresh, Quiet, CheckBegin
    <2> QED
        BY <2>4, <2>5, QuietStep
<1>13. ASSUME NEW c \in Checks, NEW r \in Comparisons, CheckRecord(c, r)
       PROVE  Inv1'
    <2>1. /\ check[c].student \in Students
          /\ profile' \in [Students -> Profiles]
          /\ \A s \in Students : profile'[s].status = profile[s].status
        BY <1>13, Checked DEF Inv1
    <2>2. /\ check' \in [Checks -> CheckRow] /\ check'[c].pc = "done"
          /\ \A d \in Checks : d # c => check'[d] = check[d]
        BY <1>13, CheckTyped DEF Inv1, CheckRecord
    <2>3. Typed'
        BY <1>13, <2>1, <2>2 DEF Inv1, Typed, CheckRecord
    <2>4. Quiet
        BY <1>13, <2>1, <2>2 DEF Inv1, Fresh, Quiet, CheckRecord
    <2> QED
        BY <2>3, <2>4, QuietStep
<1>14. ASSUME NEW c \in Checks, CheckFails(c)
       PROVE  Inv1'
    <2>1. /\ check' \in [Checks -> CheckRow] /\ check'[c].pc = "done"
          /\ \A d \in Checks : d # c => check'[d] = check[d]
        BY <1>14, CheckTyped DEF Inv1, CheckFails
    <2>2. Typed'
        BY <1>14, <2>1 DEF Inv1, Typed, CheckFails
    <2>3. Quiet
        BY <1>14, <2>1 DEF Inv1, Fresh, Quiet, CheckFails
    <2> QED
        BY <2>2, <2>3, QuietStep
<1>15. ASSUME ServiceRestarts
       PROVE  Inv1'
    <2>1. Typed'
        BY <1>15, RestartStep DEF Inv1
    <2>2. Quiet
        BY <1>15, RestartStep DEF Inv1, Quiet, Busy, InFlight
    <2> QED
        BY <2>1, <2>2, QuietStep
<1>16. CASE UNCHANGED vars
    <2>1. Typed' /\ Quiet
        BY <1>16 DEF Inv1, Typed, Fresh, Quiet, vars
    <2> QED
        BY <2>1, QuietStep
<1> QED
    BY <1>1, <1>2, <1>3, <1>4, <1>5, <1>6, <1>7, <1>8, <1>9, <1>10, <1>11, <1>12,
       <1>13, <1>14, <1>15, <1>16
    DEF Next, ImportStep

-----------------------------------------------------------------------------
(* Counts, checks and answers: Inv2.                                       *)

\* No import that has started is ever as it was before.
LEMMA NotIdleAgain ==
    ASSUME Inv1, [Next]_vars, NEW j \in Imports
    PROVE  import'[j] = import[j] \/ import'[j].pc # "idle"
<1>1. ASSUME NEW u \in Uploads, NEW f \in Folders, UploadAccepted(u, f)
      PROVE  import'[j] = import[j] \/ import'[j].pc # "idle"
    BY <1>1, StartStep DEF UploadAccepted, Imports, Inv1
<1>2. ASSUME NEW u \in Uploads, UploadBusy(u) \/ UploadRejected(u) \/ CoreGivesUp(u)
      PROVE  import'[j] = import[j] \/ import'[j].pc # "idle"
    <2>1. u \in Imports /\ "refused" \in Pcs
        BY DEF Imports, Pcs
    <2> QED
        BY <1>2, <2>1, EndStep DEF UploadBusy, UploadRejected, CoreGivesUp, Inv1
<1>3. ASSUME NEW i \in Scripts, NEW f \in Folders, NEW b \in BOOLEAN, ScriptStarts(i, f, b)
      PROVE  import'[j] = import[j] \/ import'[j].pc # "idle"
    BY <1>3, StartStep DEF ScriptStarts, Imports, Inv1
<1>4. ASSUME NEW i \in Scripts, ScriptDies(i)
      PROVE  import'[j] = import[j] \/ import'[j].pc # "idle"
    BY <1>4, LostTyped DEF ScriptDies, Inv1, Typed
<1>5. ASSUME NEW i \in Imports, NEW o \in Outcomes, Pending(i) # {}, Record(i, o)
      PROVE  import'[j] = import[j] \/ import'[j].pc # "idle"
    BY <1>5, RecordStep DEF Inv1
<1>6. ASSUME NEW i \in Imports, NEW pc \in Busy, NEW saw \in {"none", "failed"},
             NEW good \in BOOLEAN, Move(i, pc, saw, good)
      PROVE  import'[j] = import[j] \/ import'[j].pc # "idle"
    <2>1. pc \in Pcs /\ pc # "idle"
        BY DEF Busy, Pcs
    <2> QED
        BY <1>6, <2>1, MoveStep DEF Inv1
<1>7. ASSUME NEW i \in Imports, TakeUp(i)
      PROVE  import'[j] = import[j] \/ import'[j].pc # "idle"
    <2>1. /\ Screened(i) # "enrol" => Screened(i) \in Outcomes
          /\ Standing(Current(i)) # "enrol" => Standing(Current(i)) \in Outcomes
          /\ "inserting" \in Busy /\ "analysing" \in Busy
        BY TakeUpOutcomes DEF Outcomes, Busy
    <2> QED
        BY <1>7, <2>1, <1>5, <1>6 DEF TakeUp
<1>8. ASSUME NEW i \in Imports, InsertRow(i) \/ Save(i) \/ EnrolFails(i)
      PROVE  import'[j] = import[j] \/ import'[j].pc # "idle"
    <2>1. /\ Pending(i) # {} /\ "analysing" \in Busy
          /\ "failed" \in Outcomes /\ "enrolled" \in Outcomes
        BY <1>8 DEF InsertRow, Save, EnrolFails, Inv1, AtPhotograph, Busy, Outcomes
    <2> QED
        BY <1>8, <2>1, <1>5, <1>6 DEF InsertRow, Save, EnrolFails
<1>9. ASSUME NEW i \in Imports, NEW good \in BOOLEAN, Analyse(i, good)
      PROVE  import'[j] = import[j] \/ import'[j].pc # "idle"
    <2>1. import[i].saw \in {"none", "failed"} /\ "saving" \in Busy
        BY RowTyped DEF Inv1, Busy
    <2> QED
        BY <1>9, <2>1, <1>6 DEF Analyse
<1>10. ASSUME NEW i \in Imports, Finish(i)
       PROVE  import'[j] = import[j] \/ import'[j].pc # "idle"
    BY <1>10, EndStep DEF Finish, Inv1, Pcs
<1>11. ASSUME ServiceRestarts
       PROVE  import'[j] = import[j] \/ import'[j].pc # "idle"
    BY <1>11, RestartStep DEF Inv1
<1>12. ASSUME NEW c \in Checks, \/ \E s \in Students : CheckBegin(c, s)
                                \/ \E r \in Comparisons : CheckRecord(c, r)
                                \/ CheckFails(c)
       PROVE  import'[j] = import[j] \/ import'[j].pc # "idle"
    BY <1>12 DEF CheckBegin, CheckRecord, CheckFails
<1>13. CASE UNCHANGED vars
    BY <1>13 DEF vars
<1> QED
    BY <1>1, <1>2, <1>3, <1>4, <1>7, <1>8, <1>9, <1>10, <1>11, <1>12, <1>13
    DEF Next, ImportStep

LEMMA ServiceStaysAlone ==
    ASSUME Inv1, [Next]_vars, ServiceOnly'
    PROVE  ServiceOnly
BY NotIdleAgain DEF ServiceOnly, Imports

LEMMA Inv2Init == Init => Inv2
<1> SUFFICES ASSUME Init PROVE Inv2
    OBVIOUS
<1>1. \A i \in Imports : import[i].pc = "idle" /\ DOMAIN import[i].outcome = {}
    BY LostTyped DEF Init
<1>2. \A s \in Students : profile[s].ref = "none" /\ profile[s].readiness = "not_checked"
    BY DEF Init, NoProfile
<1>3. \A c \in Checks : check[c].pc = "idle"
    BY DEF Init, NoCheck
<1>4. Answered
    BY <1>1 DEF Init, Answered, Imports
<1>5. SeenStays /\ ChecksCurrent
    BY <1>1, <1>2, <1>3 DEF SeenStays, ChecksCurrent, Holding
<1>6. CountedTruly
    BY <1>1, <1>2, ImportsAssumption DEF CountedTruly, CountOf, Imports
<1> QED
    BY <1>4, <1>5, <1>6 DEF Inv2

\* A step that leaves the rows alone and counts nothing.
NothingCounted ==
    /\ profile' = profile
    /\ \A i \in Imports :
          import'[i].pc \in Holding /\ import'[i].saw = "failed" =>
              /\ import'[i].folder = import[i].folder
              /\ import'[i].outcome = import[i].outcome
              /\ profile[Current(i)].status = "failed"
    /\ \A u \in Uploads :
          import'[u].pc # "lost" =>
              /\ import[u].pc # "lost"
              /\ import'[u].outcome = import[u].outcome
              /\ \/ import'[u].folder = import[u].folder
                 \/ DOMAIN import[u].outcome = {}
    /\ \A c \in Checks : check'[c].pc = "comparing" =>
          \/ check'[c] = check[c]
          \/ /\ profile[check'[c].student].status = "generated"
             /\ profile[check'[c].student].ref = check'[c].ref

LEMMA NothingCountedStep ==
    ASSUME SeenStays, ChecksCurrent, CountedTruly, NothingCounted
    PROVE  SeenStays' /\ ChecksCurrent' /\ CountedTruly'
<1>1. SeenStays'
    BY SamePhotograph DEF NothingCounted, SeenStays, Holding
<1>2. ChecksCurrent'
    BY DEF NothingCounted, ChecksCurrent
<1>3. CountedTruly'
    BY DEF NothingCounted, CountedTruly, CountOf
<1> QED
    BY <1>1, <1>2, <1>3

\* A photograph recorded without a reference being stored for it.
LEMMA RecordCounts ==
    ASSUME Inv1, SeenStays, ChecksCurrent, CountedTruly,
           NEW i \in Imports, NEW o \in Outcomes \ {"enrolled"}, Pending(i) # {},
           Record(i, o), import[i].pc \in InFlight,
           o = "already" => /\ Current(i) \in Students
                            /\ profile[Current(i)].status = "generated",
           UNCHANGED <<profile, answer, check, restarts>>
    PROVE  SeenStays' /\ ChecksCurrent' /\ CountedTruly'
<1>1. /\ import'[i].pc = "importing"
      /\ import'[i].folder = import[i].folder
      /\ DOMAIN import'[i].outcome = DOMAIN import[i].outcome \cup {Current(i)}
      /\ import'[i].outcome[Current(i)] = o
      /\ \A n \in DOMAIN import[i].outcome :
            n # Current(i) /\ import'[i].outcome[n] = import[i].outcome[n]
      /\ \A j \in Imports : j # i => import'[j] = import[j]
    BY RecordStep DEF Inv1
<1>2. SeenStays'
    <2>1. \A j \in Imports : import'[j].pc \in Holding =>
              import'[j] = import[j] /\ Current(j)' = Current(j)
        BY <1>1, SamePhotograph DEF Holding
    <2> QED
        BY <2>1 DEF SeenStays, Holding
<1>3. ChecksCurrent'
    BY DEF ChecksCurrent
<1>4. CountedTruly'
    <2> SUFFICES ASSUME NEW u \in Uploads, import'[u].pc # "lost"
                 PROVE  CountOf(u)'
        BY DEF CountedTruly
    <2>1. CASE u # i
        BY <2>1, <1>1 DEF CountedTruly, CountOf, Imports
    <2>2. CASE u = i
        <3>1. CountOf(i)
            BY <2>2 DEF CountedTruly, InFlight
        <3>2. import[i].folder[Current(i)] > 0 /\ Current(i) \notin DOMAIN import[i].outcome
            BY CurrentPending
        <3> QED
            BY <2>2, <3>1, <3>2, <1>1 DEF CountOf
    <2> QED
        BY <2>1, <2>2
<1> QED
    BY <1>2, <1>3, <1>4

\* The row an upload saves was not a stored reference.
LEMMA SavedOverNothing ==
    ASSUME Inv1, SeenStays, NEW i \in Imports, import[i].pc = "saving"
    PROVE  /\ Current(i) \in Students
           /\ profile[Current(i)].status \in {"none", "failed"}
<1>1. import[i].saw \in {"none", "failed"} /\ import[i].pc \in Holding
    BY RowTyped DEF Inv1, Holding
<1> QED
    BY <1>1 DEF Inv1, AtPhotograph, RowsSeen, SeenStays, Busy, Holding

LEMMA SaveCounts ==
    ASSUME Inv1, ServiceOnly, SeenStays, ChecksCurrent, CountedTruly,
           NEW i \in Imports, Save(i)
    PROVE  SeenStays' /\ ChecksCurrent' /\ CountedTruly'
<1> DEFINE s == Current(i)
           good == import[i].good
           o == IF good THEN "enrolled" ELSE "failed"
<1>1. /\ s \in Students /\ profile[s].status \in {"none", "failed"}
      /\ i \in Uploads /\ import[i].pc = "saving"
    BY SavedOverNothing DEF Save, ServiceOnly, Imports
<1>2. /\ profile'[s].status = IF good THEN "generated" ELSE "failed"
      /\ profile'[s].ref = IF good THEN i ELSE "none"
      /\ profile'[s].readiness = profile[s].readiness
      /\ \A r \in Students : r # s => profile'[r] = profile[r]
    BY Saves DEF Inv1
<1>3. Record(i, o) /\ o \in Outcomes /\ Pending(i) # {}
    BY Saves DEF Inv1
<1>4. /\ import'[i].pc = "importing"
      /\ import'[i].folder = import[i].folder
      /\ DOMAIN import'[i].outcome = DOMAIN import[i].outcome \cup {s}
      /\ import'[i].outcome[s] = o
      /\ \A n \in DOMAIN import[i].outcome :
            n # s /\ import'[i].outcome[n] = import[i].outcome[n]
      /\ \A j \in Imports : j # i => import'[j] = import[j]
    <2> HIDE DEF o
    <2> QED
        BY <1>3, RecordStep DEF Inv1
<1> HIDE DEF s
<1>5. SeenStays'
    <2> SUFFICES ASSUME NEW j \in Imports, import'[j].pc \in Holding
                 PROVE  FALSE
        BY DEF SeenStays, Holding
    <2>1. j # i /\ import[j].pc \in InFlight /\ j \in Uploads
        BY <1>4 DEF Holding, InFlight, ServiceOnly, Imports
    <2> QED
        BY <2>1, <1>1 DEF Inv1, OneUpload, InFlight
<1>6. ChecksCurrent'
    <2>1. \A c \in Checks : check[c].pc = "comparing" =>
              check[c].student \in Students /\ check[c].student # s
        BY <1>1 DEF Inv1, Fresh, ChecksCurrent
    <2>2. profile[s].readiness # "passed"
        BY <1>1 DEF ChecksCurrent
    <2>3. check' = check
        BY DEF Save
    <2> QED
        BY <2>1, <2>2, <2>3, <1>2 DEF ChecksCurrent
<1>7. CountedTruly'
    <2> SUFFICES ASSUME NEW u \in Uploads, import'[u].pc # "lost"
                 PROVE  CountOf(u)'
        BY DEF CountedTruly
    <2>1. CASE u # i
        <3>1. import'[u] = import[u] /\ CountOf(u)
            BY <2>1, <1>4 DEF CountedTruly, Imports
        <3>2. profile'[s].ref # u
            BY <2>1, <1>2, ImportsAssumption DEF Imports
        <3> QED
            BY <3>1, <3>2, <1>1, <1>2 DEF CountOf
    <2>2. CASE u = i
        <3>1. CountOf(i)
            BY <2>2, <1>1 DEF CountedTruly
        <3>2. import[i].folder[s] > 0
            BY <1>3, CurrentPending DEF s
        <3>3. \A n \in DOMAIN import'[i].outcome :
                  /\ import'[i].folder[n] > 0
                  /\ import'[i].outcome[n] \in {"enrolled", "already"} =>
                         n \in Students /\ profile'[n].status = "generated"
                  /\ import'[i].outcome[n] = "enrolled" => profile'[n].ref = i
            BY <3>1, <3>2, <1>1, <1>2, <1>4 DEF CountOf
        <3>4. \A r \in Students : profile'[r].ref = i =>
                  r \in DOMAIN import'[i].outcome /\ import'[i].outcome[r] = "enrolled"
            BY <3>1, <1>1, <1>2, <1>4, ImportsAssumption DEF CountOf, Imports
        <3> QED
            BY <2>2, <3>3, <3>4 DEF CountOf
    <2> QED
        BY <2>1, <2>2
<1> QED
    BY <1>5, <1>6, <1>7

\* No upload is reported by a step that is not its last.
LEMMA NothingReported ==
    ASSUME Answered,
           \A u \in Uploads :
               /\ answer'[u] = "report" => answer[u] = "report"
               /\ \/ import'[u] = import[u]
                  \/ import[u].pc # "reported" /\ import'[u].pc # "reported"
    PROVE  Answered'
<1> SUFFICES ASSUME NEW u \in Uploads
             PROVE  /\ answer'[u] = "report" => import'[u].pc = "reported"
                    /\ import'[u].pc = "reported" => Pending(u)' = {}
    BY DEF Answered
<1>1. CASE import'[u] = import[u]
    BY <1>1, SamePhotograph DEF Answered, Imports
<1>2. CASE import[u].pc # "reported" /\ import'[u].pc # "reported"
    BY <1>2 DEF Answered
<1> QED
    BY <1>1, <1>2

\* The same for a step of one import that tells nobody anything.
LEMMA ImportUnreported ==
    ASSUME Answered, NEW i \in Imports,
           import[i].pc # "reported", import'[i].pc # "reported",
           \A j \in Imports : j # i => import'[j] = import[j],
           \A u \in Uploads : answer'[u] = "report" => answer[u] = "report"
    PROVE  Answered'
<1>1. \A u \in Uploads : \/ import'[u] = import[u]
                         \/ import[u].pc # "reported" /\ import'[u].pc # "reported"
    BY DEF Imports
<1> QED
    BY <1>1, NothingReported

\* One claim per action: what an upload is told stays true, and so does, where
\* the service is alone, what it has counted.
Keeps == Answered' /\ (ServiceOnly => SeenStays' /\ ChecksCurrent' /\ CountedTruly')

LEMMA StartCounts ==
    ASSUME IInv, NEW u \in Uploads, NEW f \in Folders, UploadAccepted(u, f)
    PROVE  Keeps
<1>1. /\ u \in Imports /\ import[u].pc = "idle" /\ import'[u].pc = "importing"
      /\ import'[u].outcome = import[u].outcome
      /\ \A j \in Imports : j # u => import'[j] = import[j]
      /\ UNCHANGED <<profile, answer, check, restarts>>
    BY StartStep DEF UploadAccepted, Imports, IInv, Inv1
<1>2. Answered'
    BY <1>1, ImportUnreported DEF IInv, Inv2
<1>3. DOMAIN import[u].outcome = {}
    BY <1>1 DEF IInv, Inv1, Fresh
<1>4. ASSUME ServiceOnly PROVE NothingCounted
    BY <1>1, <1>3, <1>4 DEF NothingCounted, IInv, Inv2, SeenStays, Holding, Imports
<1> QED
    BY <1>2, <1>4, NothingCountedStep DEF Keeps, IInv, Inv2

\* Steps that end an upload before it counted anything, or take it nowhere.
LEMMA RefusalCounts ==
    ASSUME IInv, NEW u \in Uploads, UploadBusy(u) \/ UploadRejected(u) \/ CoreGivesUp(u)
    PROVE  Keeps
<1>1. u \in Imports /\ "refused" \in Pcs
    BY DEF Imports, Pcs
<1>2. CASE UploadBusy(u) \/ UploadRejected(u)
    <2>1. /\ import[u].pc = "idle" /\ import'[u].pc = "refused"
          /\ import'[u].folder = import[u].folder /\ import'[u].outcome = import[u].outcome
          /\ \A j \in Imports : j # u => import'[j] = import[j]
        BY <1>1, <1>2, EndStep DEF UploadBusy, UploadRejected, IInv, Inv1
    <2>2. \A v \in Uploads : answer'[v] = "report" => answer[v] = "report"
        BY <1>2, ToldTyped DEF UploadBusy, UploadRejected, IInv, Inv1
    <2>3. Answered'
        BY <1>1, <2>1, <2>2, ImportUnreported DEF IInv, Inv2
    <2>4. ASSUME ServiceOnly PROVE NothingCounted
        BY <1>2, <2>1, <2>4
        DEF NothingCounted, UploadBusy, UploadRejected, IInv, Inv2, SeenStays, Holding, Imports
    <2> QED
        BY <2>3, <2>4, NothingCountedStep DEF Keeps, IInv, Inv2
<1>3. CASE CoreGivesUp(u)
    <2>1. \A v \in Uploads : answer'[v] = "report" => answer[v] = "report"
        BY <1>3, ToldTyped DEF CoreGivesUp, IInv, Inv1
    <2>2. Answered'
        BY <1>3, <2>1, NothingReported DEF CoreGivesUp, IInv, Inv2
    <2>3. ASSUME ServiceOnly PROVE NothingCounted
        BY <1>3, <2>3 DEF NothingCounted, CoreGivesUp, IInv, Inv2, SeenStays, Holding
    <2> QED
        BY <2>2, <2>3, NothingCountedStep DEF Keeps, IInv, Inv2
<1> QED
    BY <1>2, <1>3

\* A script that runs is the end of the service being alone.
LEMMA ScriptCounts ==
    ASSUME IInv, NEW i \in Scripts,
           \/ \E f \in Folders, b \in BOOLEAN : ScriptStarts(i, f, b)
           \/ ScriptDies(i)
    PROVE  Answered' /\ (ServiceOnly' => ~ServiceOnly)
<1>1. i \in Imports /\ i \notin Uploads
    BY ImportsAssumption DEF Imports
<1>2. /\ import'[i].pc \notin {"idle", "reported"} /\ import[i].pc # "reported"
      /\ \A j \in Imports : j # i => import'[j] = import[j]
      /\ UNCHANGED <<profile, answer, check, restarts>>
    BY <1>1, StartStep, LostTyped DEF ScriptStarts, ScriptDies, IInv, Inv1, Typed, InFlight
<1>3. Answered'
    BY <1>1, <1>2, ImportUnreported DEF IInv, Inv2
<1> QED
    BY <1>2, <1>3 DEF ServiceOnly

LEMMA RecordKeeps ==
    ASSUME IInv, NEW i \in Imports, NEW o \in Outcomes \ {"enrolled"}, Pending(i) # {},
           Record(i, o), import[i].pc \in InFlight,
           o = "already" => /\ Current(i) \in Students
                            /\ profile[Current(i)].status = "generated",
           UNCHANGED <<profile, answer, check, restarts>>
    PROVE  Keeps
<1>1. /\ import'[i].pc = "importing" /\ import[i].pc # "reported"
      /\ \A j \in Imports : j # i => import'[j] = import[j]
    BY RecordStep DEF IInv, Inv1, InFlight
<1>2. Answered'
    BY <1>1, ImportUnreported DEF IInv, Inv2
<1> QED
    BY <1>2, RecordCounts DEF Keeps, IInv, Inv2

LEMMA MoveCounts ==
    ASSUME IInv, NEW i \in Imports, NEW pc \in Busy, NEW saw \in {"none", "failed"},
           NEW good \in BOOLEAN, Move(i, pc, saw, good), import[i].pc \in InFlight,
           pc \in Holding /\ saw = "failed" /\ ServiceOnly =>
               profile[Current(i)].status = "failed",
           UNCHANGED <<profile, answer, check, restarts>>
    PROVE  Keeps
<1>1. pc \in Pcs /\ pc \notin {"reported", "lost"}
    BY DEF Busy, Pcs
<1>2. /\ import'[i].pc = pc /\ import'[i].saw = saw
      /\ import'[i].folder = import[i].folder /\ import'[i].outcome = import[i].outcome
      /\ \A j \in Imports : j # i => import'[j] = import[j]
    BY <1>1, MoveStep DEF IInv, Inv1
<1>3. Answered'
    BY <1>1, <1>2, ImportUnreported DEF IInv, Inv2, InFlight
<1>4. ASSUME ServiceOnly PROVE NothingCounted
    BY <1>1, <1>2, <1>4 DEF NothingCounted, IInv, Inv2, SeenStays, Holding, InFlight, Imports
<1> QED
    BY <1>3, <1>4, NothingCountedStep DEF Keeps, IInv, Inv2

LEMMA SaveReports ==
    ASSUME IInv, NEW i \in Imports, Save(i)
    PROVE  Keeps
<1>1. /\ import[i].pc # "reported" /\ import'[i].pc # "reported"
      /\ \A j \in Imports : j # i => import'[j] = import[j]
      /\ answer' = answer
    BY Saves, RecordStep DEF Save, IInv, Inv1
<1>2. Answered'
    BY <1>1, ImportUnreported DEF IInv, Inv2
<1> QED
    BY <1>2, SaveCounts DEF Keeps, IInv, Inv2

LEMMA FinishCounts ==
    ASSUME IInv, NEW i \in Imports, Finish(i)
    PROVE  Keeps
<1>1. /\ import'[i].pc = "reported" /\ import[i].pc = "importing"
      /\ import'[i].folder = import[i].folder /\ import'[i].outcome = import[i].outcome
      /\ \A j \in Imports : j # i => import'[j] = import[j]
    BY EndStep DEF Finish, IInv, Inv1, Pcs
<1>2. \A u \in Uploads : u # i /\ answer'[u] = "report" => answer[u] = "report"
    BY ToldTyped DEF Finish, IInv, Inv1
<1>3. Answered'
    <2> SUFFICES ASSUME NEW u \in Uploads
                 PROVE  /\ answer'[u] = "report" => import'[u].pc = "reported"
                        /\ import'[u].pc = "reported" => Pending(u)' = {}
        BY DEF Answered
    <2>1. CASE u = i
        BY <2>1, <1>1, SamePhotograph DEF Finish
    <2>2. CASE u # i
        BY <2>2, <1>1, <1>2, SamePhotograph DEF IInv, Inv2, Answered, Imports
    <2> QED
        BY <2>1, <2>2
<1>4. ASSUME ServiceOnly PROVE NothingCounted
    BY <1>1, <1>4 DEF NothingCounted, Finish, IInv, Inv2, SeenStays, Holding, Imports
<1> QED
    BY <1>3, <1>4, NothingCountedStep DEF Keeps, IInv, Inv2

LEMMA CheckCounts ==
    ASSUME IInv, NEW c \in Checks,
           \/ \E s \in Students : CheckBegin(c, s)
           \/ \E r \in Comparisons : CheckRecord(c, r)
           \/ CheckFails(c)
    PROVE  Keeps
<1>1. Answered'
    BY NothingReported DEF CheckBegin, CheckRecord, CheckFails, IInv, Inv2
<1>2. ASSUME NEW s \in Students, CheckBegin(c, s), ServiceOnly
      PROVE  NothingCounted
    <2> DEFINE row == [pc |-> "comparing", student |-> s, ref |-> profile[s].ref]
    <2>1. check' = [check EXCEPT ![c] = row]
        BY <1>2 DEF CheckBegin
    <2>2. \A d \in Checks : check'[d] = IF d = c THEN row ELSE check[d]
        BY <2>1 DEF IInv, Inv1, Typed
    <2>3. row.student = s /\ row.ref = profile[s].ref
        OBVIOUS
    <2> HIDE DEF row
    <2> QED
        BY <1>2, <2>2, <2>3
        DEF NothingCounted, CheckBegin, IInv, Inv2, SeenStays, Holding
<1>3. ASSUME CheckFails(c), ServiceOnly
      PROVE  NothingCounted
    <2>1. \A d \in Checks : check'[d].pc = "comparing" => check'[d] = check[d]
        BY <1>3, CheckTyped DEF CheckFails, IInv, Inv1
    <2> QED
        BY <1>3, <2>1 DEF NothingCounted, CheckFails, IInv, Inv2, SeenStays, Holding
<1>4. ASSUME NEW r \in Comparisons, CheckRecord(c, r), ServiceOnly
      PROVE  SeenStays' /\ ChecksCurrent' /\ CountedTruly'
    <2>1. /\ check[c].student \in Students
          /\ \A s \in Students : /\ profile'[s].status = profile[s].status
                                 /\ profile'[s].ref = profile[s].ref
          /\ profile'[check[c].student].checked = check[c].ref
          /\ \A s \in Students : s # check[c].student => profile'[s] = profile[s]
        BY <1>4, Checked DEF IInv, Inv1
    <2>2. /\ check[c].pc = "comparing"
          /\ \A d \in Checks : check'[d].pc = "comparing" => check'[d] = check[d]
        BY <1>4, CheckTyped DEF CheckRecord, IInv, Inv1
    <2>3. import' = import
        BY <1>4 DEF CheckRecord
    <2>4. SeenStays'
        <3>1. \A i \in Imports : import[i].pc \in Holding => Current(i) \in Students
            BY DEF IInv, Inv1, AtPhotograph, Busy, Holding
        <3>2. \A i \in Imports : Current(i)' = Current(i)
            BY <2>3, SamePhotograph
        <3> QED
            BY <1>4, <2>1, <2>3, <3>1, <3>2 DEF IInv, Inv2, SeenStays, Holding
    <2>5. ChecksCurrent'
        BY <1>4, <2>1, <2>2 DEF IInv, Inv1, Fresh, Inv2, ChecksCurrent
    <2>6. CountedTruly'
        BY <1>4, <2>1, <2>3 DEF IInv, Inv2, CountedTruly, CountOf
    <2> QED
        BY <2>4, <2>5, <2>6
<1> QED
    BY <1>1, <1>2, <1>3, <1>4, NothingCountedStep DEF Keeps, IInv, Inv2

LEMMA RestartCounts ==
    ASSUME IInv, ServiceRestarts
    PROVE  Keeps
<1>1. /\ profile' = profile
      /\ \A i \in Imports : \/ import'[i] = import[i]
                            \/ import[i].pc \in InFlight /\ import'[i].pc = "lost"
      /\ \A u \in Uploads : answer'[u] \in {answer[u], "unavailable"}
      /\ \A c \in Checks : check'[c].pc # "comparing"
    BY RestartStep DEF IInv, Inv1
<1>2. Answered'
    <2>1. \A u \in Uploads :
              /\ answer'[u] = "report" => answer[u] = "report"
              /\ \/ import'[u] = import[u]
                 \/ import[u].pc # "reported" /\ import'[u].pc # "reported"
        BY <1>1 DEF InFlight, Imports
    <2> QED
        BY <2>1, NothingReported DEF IInv, Inv2
<1>3. ASSUME ServiceOnly PROVE NothingCounted
    BY <1>1, <1>3 DEF NothingCounted, IInv, Inv2, SeenStays, Holding, Imports
<1> QED
    BY <1>2, <1>3, NothingCountedStep DEF Keeps, IInv, Inv2

LEMMA Inv2Step == IInv /\ [Next]_vars => Inv2'
<1> SUFFICES ASSUME IInv, [Next]_vars PROVE Inv2'
    OBVIOUS
<1>1. ServiceOnly' => ServiceOnly
    BY ServiceStaysAlone DEF IInv
<1>2. ASSUME Keeps PROVE Inv2'
    BY <1>1, <1>2 DEF Keeps, Inv2
<1>3. ASSUME NEW i \in Scripts, \/ \E f \in Folders, b \in BOOLEAN : ScriptStarts(i, f, b)
                                \/ ScriptDies(i)
      PROVE  Inv2'
    BY <1>1, <1>3, ScriptCounts DEF Inv2
<1>4. ASSUME NEW i \in Imports, TakeUp(i)
      PROVE  Keeps
    <2>1. import[i].pc \in InFlight /\ Pending(i) # {}
        BY <1>4 DEF TakeUp, InFlight
    <2>2. CASE Screened(i) # "enrol" /\ Record(i, Screened(i))
        <3>1. Screened(i) \in Outcomes \ {"enrolled"} /\ Screened(i) # "already"
            BY <2>2, TakeUpOutcomes DEF Outcomes
        <3> QED
            BY <1>4, <2>1, <2>2, <3>1, RecordKeeps DEF TakeUp
    <2>3. CASE /\ Screened(i) = "enrol" /\ Standing(Current(i)) # "enrol"
               /\ Record(i, Standing(Current(i)))
        <3>1. /\ Standing(Current(i)) \in Outcomes \ {"enrolled"}
              /\ Current(i) \in Students
              /\ Standing(Current(i)) = "already" => profile[Current(i)].status = "generated"
            BY <2>3, TakeUpOutcomes DEF Outcomes
        <3> QED
            BY <1>4, <2>1, <2>3, <3>1, RecordKeeps DEF TakeUp
    <2>4. CASE /\ Screened(i) = "enrol" /\ Standing(Current(i)) = "enrol"
               /\ Move(i, "inserting", "none", FALSE)
        <3>1. "inserting" \in Busy
            BY DEF Busy
        <3> QED
            BY <1>4, <2>1, <2>4, <3>1, MoveCounts DEF TakeUp
    <2>5. CASE /\ Screened(i) = "enrol" /\ Standing(Current(i)) = "enrol"
               /\ profile[Current(i)].status # "none"
               /\ Move(i, "analysing", "failed", FALSE)
        <3>1. Current(i) \in Students /\ "analysing" \in Busy
            BY <2>5, TakeUpOutcomes DEF Busy
        <3>2. profile[Current(i)].status \in {"none", "generated", "failed", "revoked"}
            BY <3>1 DEF IInv, Inv1, Typed, Profiles
        <3>3. profile[Current(i)].status = "failed"
            BY <2>5, <3>2, TakeUpOutcomes
        <3> QED
            BY <1>4, <2>1, <2>5, <3>1, <3>3, MoveCounts DEF TakeUp
    <2> QED
        BY <1>4, <2>2, <2>3, <2>4, <2>5 DEF TakeUp
<1>5. ASSUME NEW i \in Imports, InsertRow(i) \/ EnrolFails(i)
      PROVE  Keeps
    <2>1. /\ import[i].pc \in InFlight /\ Pending(i) # {}
          /\ "failed" \in Outcomes \ {"enrolled"} /\ "failed" # "already"
          /\ "analysing" \in Busy /\ "none" # "failed"
        BY <1>5 DEF InsertRow, EnrolFails, InFlight, IInv, Inv1, AtPhotograph, Busy, Outcomes
    <2>2. UNCHANGED <<profile, answer, check, restarts>>
        BY <1>5 DEF InsertRow, EnrolFails
    <2>3. CASE Record(i, "failed")
        BY <2>1, <2>2, <2>3, RecordKeeps
    <2>4. CASE Move(i, "analysing", "none", FALSE)
        BY <2>1, <2>2, <2>4, MoveCounts
    <2> QED
        BY <1>5, <2>3, <2>4 DEF InsertRow, EnrolFails
<1>6. ASSUME NEW i \in Imports, NEW good \in BOOLEAN, Analyse(i, good)
      PROVE  Keeps
    <2>1. /\ import[i].pc \in InFlight /\ import[i].pc \in Holding
          /\ import[i].saw \in {"none", "failed"} /\ "saving" \in Busy
        BY <1>6, RowTyped DEF Analyse, InFlight, IInv, Inv1, Busy, Holding
    <2>2. import[i].saw = "failed" /\ ServiceOnly => profile[Current(i)].status = "failed"
        BY <2>1 DEF IInv, Inv2, SeenStays
    <2>3. Move(i, "saving", import[i].saw, good) /\ UNCHANGED <<profile, answer, check, restarts>>
        BY <1>6 DEF Analyse
    <2> QED
        BY <2>1, <2>2, <2>3, MoveCounts
<1>7. CASE UNCHANGED vars
    <2>1. Answered'
        BY <1>7, NothingReported DEF IInv, Inv2, vars
    <2>2. ASSUME ServiceOnly PROVE NothingCounted
        BY <1>7, <2>2 DEF NothingCounted, IInv, Inv2, SeenStays, Holding, vars
    <2>3. Keeps
        BY <2>1, <2>2, NothingCountedStep DEF Keeps, IInv, Inv2
    <2> QED
        BY <2>3, <1>2
<1> QED
    BY <1>2, <1>3, <1>4, <1>5, <1>6, <1>7, StartCounts, RefusalCounts, SaveReports,
       FinishCounts, CheckCounts, RestartCounts
    DEF Next, ImportStep

LEMMA InvariantHolds == Spec => []IInv
<1>1. Init => IInv
    BY Inv1Init, Inv2Init DEF IInv
<1>2. IInv /\ [Next]_vars => IInv'
    BY Inv1Step, Inv2Step DEF IInv
<1> QED
    BY <1>1, <1>2, PTL DEF Spec

-----------------------------------------------------------------------------
(* The theorems.                                                           *)

\* Every import, row, answer and check is of the type the tables and the
\* service's results give it.
THEOREM TypeCorrect == Spec => []TypeOK
<1>1. IInv => TypeOK
    <2> SUFFICES ASSUME IInv PROVE TypeOK
        OBVIOUS
    <2>1. Typed
        BY DEF IInv, Inv1
    <2> QED
        BY <2>1, RowTyped DEF Typed, TypeOK, Pcs, CheckRow
<1> QED
    BY <1>1, InvariantHolds, PTL

\* "Passed" on a student's dashboard was measured on the reference now stored,
\* for any number of concurrent uploads and checks and through restarts, as
\* long as no script ran beside the service.
THEOREM ReadinessIsCurrent == Spec => []ReadinessHonest
<1>1. IInv => ReadinessHonest
    <2> SUFFICES ASSUME IInv, ServiceOnly, NEW s \in Students,
                        ShownReadiness(s) = "passed"
                 PROVE  profile[s].checked = profile[s].ref
        BY DEF ReadinessHonest
    <2>1. profile[s].readiness = "passed"
        BY DEF ShownReadiness
    <2> QED
        BY <2>1 DEF IInv, Inv2, ChecksCurrent
<1> QED
    BY <1>1, InvariantHolds, PTL

\* The report an administrator reads about an upload is still true of the rows
\* at any later moment, under the same condition: later uploads, finding the
\* references, leave them alone.
THEOREM ReportsStayTrue == Spec => []ReportTrue
<1>1. IInv => ReportTrue
    <2> SUFFICES ASSUME IInv, ServiceOnly, NEW u \in Uploads, answer[u] = "report"
                 PROVE  /\ DOMAIN import[u].outcome = {n \in Numbers : import[u].folder[n] > 0}
                        /\ \A n \in DOMAIN import[u].outcome :
                            /\ import[u].outcome[n] \in {"enrolled", "already"} =>
                                   profile[n].status = "generated"
                            /\ import[u].outcome[n] = "enrolled" => profile[n].ref = u
                            /\ n \in Students /\ profile[n].ref = u =>
                                   import[u].outcome[n] = "enrolled"
        BY DEF ReportTrue
    <2>1. import[u].pc = "reported" /\ Pending(u) = {}
        BY DEF IInv, Inv2, Answered
    <2>2. CountOf(u)
        BY <2>1 DEF IInv, Inv2, CountedTruly
    <2>3. DOMAIN import[u].outcome \subseteq Numbers
        BY RowTyped DEF IInv, Inv1, Imports
    <2>4. DOMAIN import[u].outcome = {n \in Numbers : import[u].folder[n] > 0}
        BY <2>1, <2>2, <2>3 DEF CountOf, Pending
    <2> QED
        BY <2>2, <2>4 DEF CountOf
<1> QED
    BY <1>1, InvariantHolds, PTL

\* A stored reference is replaced only where a script takes part, and then by
\* an import that read the row while it still said failed.
THEOREM ReferencesAreKept == Spec => ReferenceKept
<1> DEFINE Kept ==
        \A s \in Students : profile[s].status = "generated" /\ profile'[s].ref # profile[s].ref
            => /\ ~ServiceOnly
               /\ \E i \in Imports : /\ import[i].pc = "saving" /\ import[i].saw = "failed"
                                     /\ Current(i) = s
<1>1. IInv /\ [Next]_vars => Kept
    <2> SUFFICES ASSUME IInv, [Next]_vars, NEW s \in Students,
                        profile[s].status = "generated",
                        profile'[s].ref # profile[s].ref
                 PROVE  /\ ~ServiceOnly
                        /\ \E i \in Imports : /\ import[i].pc = "saving"
                                              /\ import[i].saw = "failed"
                                              /\ Current(i) = s
        OBVIOUS
    <2>1. ASSUME NEW c \in Checks, NEW r \in Comparisons, CheckRecord(c, r)
          PROVE  FALSE
        BY <2>1, Checked DEF IInv, Inv1
    <2>2. PICK i \in Imports : Save(i)
        BY <2>1 DEF Next, ImportStep, UploadAccepted, UploadBusy, UploadRejected, CoreGivesUp,
           ScriptStarts, ScriptDies, TakeUp, InsertRow, Analyse, EnrolFails, Finish,
           CheckBegin, CheckFails, ServiceRestarts, vars
    <2>3. Current(i) = s /\ import[i].pc = "saving"
        BY <2>2, Saves DEF IInv, Inv1, Save
    <2>4. import[i].saw = "failed"
        BY <2>3, RowTyped DEF IInv, Inv1, RowsSeen, Holding
    <2>5. ~ServiceOnly
        BY <2>3, SavedOverNothing DEF IInv, Inv2
    <2> QED
        BY <2>3, <2>4, <2>5
<1> QED
    BY <1>1, InvariantHolds, PTL DEF Spec, ReferenceKept
=============================================================================
