------------------------ MODULE SessionLockingProofs ------------------------
(***************************************************************************)
(* Theorems about the locks under the attendance lifecycle, for any number *)
(* of sessions, requests of students and lecturers, and schedulers.        *)
(***************************************************************************)
EXTENDS SessionLocking, TLAPS

-----------------------------------------------------------------------------
(* The locks of each kind of transaction.                                  *)

LEMMA LocksOf ==
    /\ \A kind \in {"geofence", "check_in", "scan"} :
          Locks(kind) = <<Share("session"), Exclusive("attempt")>>
    /\ Locks("face") = <<Exclusive("attempt")>>
    /\ Locks("manual") = <<Share("session"), Exclusive("record")>>
    /\ Locks("review") = <<Exclusive("attempt"), Share("session"), Exclusive("record")>>
    /\ Locks("waiver") = <<Exclusive("session"), Exclusive("attempt")>>
    /\ Locks("launch") = <<Exclusive("session")>>
    /\ \A kind \in Closing :
          Locks(kind) = <<Exclusive("session"), Exclusive("attempt"), Exclusive("record")>>
BY DEF Locks, Closing, GeofenceLocks, CheckInLocks, ScanLocks, FaceLocks, ManualLocks, ReviewLocks,
       WaiverLocks, LaunchLocks, CloseLocks

LEMMA LockCounts ==
    /\ \A kind \in {"geofence", "check_in", "scan", "manual", "waiver"} : Len(Locks(kind)) = 2
    /\ \A kind \in {"face", "launch"} : Len(Locks(kind)) = 1
    /\ \A kind \in {"review"} \cup Closing : Len(Locks(kind)) = 3
BY LocksOf

LEMMA LockFields ==
    ASSUME NEW row
    PROVE  /\ Share(row).row = row /\ Share(row).exclusive = FALSE
           /\ Exclusive(row).row = row /\ Exclusive(row).exclusive = TRUE
BY DEF Share, Exclusive

-----------------------------------------------------------------------------
(* The invariant.                                                          *)

Readings == [attempt : AttemptStatuses, record : RecordSources] \cup {NotRead}

TxRows == [kind : Kinds \cup {"none", "ended"}, session : Sessions \cup {0}, at : 1..4,
           read : Readings]

\* Two transactions on one session hold no conflicting locks.
Compatible(t, u) ==
    t # u /\ tx[t].session = tx[u].session =>
        \A h \in Held(t), g \in Held(u) : h.row = g.row => ~h.exclusive /\ ~g.exclusive

\* What a close has read is still there, as long as it holds its locks.
ReadStands(t) ==
    tx[t].kind \in Closing /\ tx[t].at >= 3 =>
        tx[t].read = [attempt |-> attempt[tx[t].session], record |-> record[tx[t].session]]

\* Running transactions are about a session.
Placed(t) == Running(t) => tx[t].session \in Sessions

LockingInv ==
    /\ LockingTypeOK
    /\ \A t, u \in Actors : Compatible(t, u)
    /\ \A t \in Actors : ReadStands(t) /\ Placed(t)

LEMMA TypeRows == LockingTypeOK => tx \in [Actors -> TxRows]
BY DEF LockingTypeOK, TxRows, Readings

LEMMA NoTxRows ==
    /\ NoTx \in TxRows /\ NoTx.at = 1 /\ NoTx.kind = "none"
    /\ Ended \in TxRows /\ Ended.at = 1 /\ Ended.kind = "ended"
<1>1. NoTx \in TxRows /\ NoTx.at = 1 /\ NoTx.kind = "none"
    BY DEF NoTx, TxRows, Readings
<1>2. Ended \in TxRows /\ Ended.at = 1 /\ Ended.kind = "ended"
    BY DEF Ended, NoTx, TxRows, Readings
<1> QED
    BY <1>1, <1>2

\* A transaction that begins or ends holds nothing.
LEMMA HoldsNothing ==
    ASSUME NEW t \in Actors, tx[t].at = 1
    PROVE  Held(t) = {}
BY DEF Held

\* A step that begins or ends one transaction, or leaves them all alone.
LEMMA ResetKeeps ==
    ASSUME LockingInv, NEW t \in Actors, NEW row \in TxRows,
           tx' = [tx EXCEPT ![t] = row], row.at = 1,
           row.kind \in Kinds => row.session \in Sessions,
           scan' \in [Schedulers -> SUBSET Sessions],
           UNCHANGED poisoned, open' \subseteq Sessions,
           attempt' \in [Sessions -> AttemptStatuses], record' \in [Sessions -> RecordSources],
           \A u \in Actors \ {t} :
               tx[u].kind \in Closing /\ tx[u].at >= 3 =>
                   /\ attempt'[tx[u].session] = attempt[tx[u].session]
                   /\ record'[tx[u].session] = record[tx[u].session]
    PROVE  LockingInv'
<1>1. tx \in [Actors -> TxRows]
    BY TypeRows DEF LockingInv
<1>2. tx' \in [Actors -> TxRows] /\ tx'[t] = row /\ \A u \in Actors \ {t} : tx'[u] = tx[u]
    BY <1>1
<1>3. LockingTypeOK'
    BY <1>2 DEF LockingInv, LockingTypeOK, TxRows, Readings
<1>4. Held(t)' = {}
    BY <1>2 DEF Held
<1>5. \A u \in Actors \ {t} : Held(u)' = Held(u)
    BY <1>2 DEF Held
<1>6. \A u, v \in Actors : Compatible(u, v)'
    BY <1>2, <1>4, <1>5 DEF LockingInv, Compatible
<1>7. \A u \in Actors : ReadStands(u)' /\ Placed(u)'
    <2>1. ReadStands(t)' /\ Placed(t)'
        BY <1>2 DEF ReadStands, Placed, Running
    <2>2. ASSUME NEW u \in Actors \ {t} PROVE ReadStands(u)' /\ Placed(u)'
        <3>1. ReadStands(u) /\ Placed(u) /\ tx'[u] = tx[u]
            BY <1>2 DEF LockingInv
        <3> QED
            BY <3>1 DEF ReadStands, Placed, Running
    <2> QED
        BY <2>1, <2>2
<1> QED
    BY <1>3, <1>6, <1>7 DEF LockingInv

-----------------------------------------------------------------------------
(* Locks granted.                                                          *)

LEMMA LockLengths ==
    ASSUME NEW t \in Actors, Running(t)
    PROVE  Len(Locks(tx[t].kind)) \in 1..3
BY LockCounts DEF Running, Kinds, StudentKinds, LecturerKinds, Closing

LEMMA TakeLockKeeps ==
    ASSUME LockingInv, NEW t \in Actors, TakeLock(t)
    PROVE  LockingInv'
<1> DEFINE i == tx[t].session
           old == tx[t]
           now == IF old.kind \in Closing /\ old.at = 2
                  THEN [attempt |-> attempt[i], record |-> record[i]] ELSE old.read
           next == old.at + 1
           new == [old EXCEPT !.at = next, !.read = now]
<1>1. /\ tx \in [Actors -> TxRows] /\ Running(t) /\ i \in Sessions
      /\ attempt \in [Sessions -> AttemptStatuses] /\ record \in [Sessions -> RecordSources]
    BY TypeRows DEF LockingInv, LockingTypeOK, TakeLock, Placed
<1>2. /\ old.at \in 1..3 /\ old.at <= Len(Locks(old.kind))
      /\ Wanted(t) = {Locks(old.kind)[old.at]}
    BY <1>1, LockLengths DEF TakeLock, Wanted, TxRows
<1>3. now \in Readings /\ next \in 1..4
    BY <1>1, <1>2 DEF TxRows, Readings
<1>4. tx' = [tx EXCEPT ![t] = new]
    BY DEF TakeLock
<1> HIDE DEF now, next
<1>5. /\ new \in TxRows /\ new.at = next /\ new.kind = old.kind /\ new.session = i
      /\ new.read = now
    <2>1. old \in TxRows /\ new = [old EXCEPT !.at = next, !.read = now]
        BY <1>1
    <2> HIDE DEF old, new
    <2>2. /\ new \in TxRows /\ new.at = next /\ new.kind = old.kind
          /\ new.session = old.session /\ new.read = now
        BY <2>1, <1>3 DEF TxRows
    <2> QED
        BY <2>2 DEF old
<1> HIDE DEF new
<1>6. /\ tx' \in [Actors -> TxRows] /\ tx'[t] = new
      /\ \A u \in Actors \ {t} : tx'[u] = tx[u]
      /\ UNCHANGED <<open, attempt, record, poisoned, scan>>
    BY <1>1, <1>4, <1>5 DEF TakeLock, OnlyTx
<1>7. LockingTypeOK'
    BY <1>6 DEF LockingInv, LockingTypeOK, TxRows, Readings
<1>8. Held(t)' \subseteq Held(t) \cup Wanted(t)
    BY <1>2, <1>5, <1>6 DEF Held, next
<1>9. \A u \in Actors \ {t} : Held(u)' = Held(u)
    BY <1>6 DEF Held
<1>10. \A u, v \in Actors : Compatible(u, v)'
    <2>1. ASSUME NEW u \in Actors \ {t}, tx[u].session = i,
                 NEW h \in Held(u), NEW g \in Held(t)', h.row = g.row
          PROVE  ~h.exclusive /\ ~g.exclusive
        <3>1. CASE g \in Held(t)
            BY <2>1, <3>1 DEF LockingInv, Compatible
        <3>2. CASE g \in Wanted(t)
            <4>1. ~Blocks(u, t)
                BY DEF TakeLock, Free
            <4> QED
                BY <2>1, <3>2, <4>1 DEF Blocks
        <3> QED
            BY <1>8, <3>1, <3>2
    <2>2. ASSUME NEW u \in Actors \ {t}
          PROVE  Compatible(u, t)' /\ Compatible(t, u)'
        BY <1>5, <1>6, <1>9, <2>1 DEF Compatible
    <2>3. ASSUME NEW u \in Actors \ {t}, NEW v \in Actors \ {t} PROVE Compatible(u, v)'
        BY <1>6, <1>9 DEF LockingInv, Compatible
    <2>4. Compatible(t, t)'
        BY DEF Compatible
    <2> QED
        BY <2>2, <2>3, <2>4
<1>11. ReadStands(t)'
    BY <1>2, <1>5, <1>6 DEF LockingInv, ReadStands, now, next
<1>12. \A u \in Actors : ReadStands(u)' /\ Placed(u)'
    BY <1>1, <1>5, <1>6, <1>11 DEF LockingInv, ReadStands, Placed, Running
<1> QED
    BY <1>7, <1>10, <1>12 DEF LockingInv

\* A transaction that has all its locks has the session, or the attempt for itself.
LEMMA DoneHolds ==
    ASSUME LockingInv, NEW t \in Actors, Done(t)
    PROVE  \E h \in Held(t) : h.row = "session" \/ (h.row = "attempt" /\ h.exclusive)
<1>1. tx[t].at \in Nat /\ tx[t].at > Len(Locks(tx[t].kind)) /\ Running(t)
    <2>1. Running(t) /\ tx[t].at \in 1..4 /\ Len(Locks(tx[t].kind)) \in 1..3
        BY TypeRows, LockLengths DEF LockingInv, Done, TxRows
    <2>2. ~(tx[t].at <= Len(Locks(tx[t].kind)))
        BY DEF Done, Wanted
    <2> QED
        BY <2>1, <2>2
<1>2. Locks(tx[t].kind)[1] \in Held(t)
    BY <1>1, LockLengths DEF Held
<1>3. \/ Locks(tx[t].kind)[1] = Share("session")
      \/ Locks(tx[t].kind)[1] = Exclusive("session")
      \/ Locks(tx[t].kind)[1] = Exclusive("attempt")
    BY <1>1, LocksOf DEF Running, Kinds, StudentKinds, LecturerKinds, Closing
<1> QED
    BY <1>2, <1>3, LockFields

\* A close that has read has both for itself.
LEMMA CloserHolds ==
    ASSUME LockingInv, NEW t \in Actors, tx[t].kind \in Closing, tx[t].at >= 3
    PROVE  Exclusive("session") \in Held(t) /\ Exclusive("attempt") \in Held(t)
<1>1. tx[t].at \in Nat
    BY TypeRows DEF LockingInv, TxRows
<1>2. Locks(tx[t].kind)[1] \in Held(t) /\ Locks(tx[t].kind)[2] \in Held(t)
    BY <1>1 DEF Held
<1> QED
    BY <1>2, LocksOf

\* So nobody commits beside it.
LEMMA CommitsApart ==
    ASSUME LockingInv, NEW t \in Actors, Done(t), NEW u \in Actors \ {t},
           tx[u].kind \in Closing, tx[u].at >= 3
    PROVE  tx[u].session # tx[t].session
BY DoneHolds, CloserHolds, LockFields DEF LockingInv, Compatible

-----------------------------------------------------------------------------
(* Transactions that begin and end.                                        *)

LEMMA AfterRows ==
    ASSUME NEW t \in Actors
    PROVE  After(t) \in TxRows /\ After(t).at = 1 /\ After(t).kind \notin Kinds
BY NoTxRows DEF After, Kinds, StudentKinds, LecturerKinds, Closing

LEMMA RequestKeeps ==
    ASSUME LockingInv, NEW t \in Actors, NEW kind \in Kinds, NEW i \in Sessions,
           tx' = [tx EXCEPT ![t] = [NoTx EXCEPT !.kind = kind, !.session = i]],
           scan' \in [Schedulers -> SUBSET Sessions],
           UNCHANGED <<open, attempt, record, poisoned>>
    PROVE  LockingInv'
<1> DEFINE row == [NoTx EXCEPT !.kind = kind, !.session = i]
<1>1. row = [NoTx EXCEPT !.kind = kind, !.session = i] /\ tx' = [tx EXCEPT ![t] = row]
    OBVIOUS
<1> HIDE DEF row
<1>2. row \in TxRows /\ row.at = 1 /\ row.kind = kind /\ row.session = i
    <2>1. NoTx \in TxRows /\ NoTx.at = 1
        BY NoTxRows
    <2> QED
        BY <1>1, <2>1 DEF TxRows
<1> QED
    BY <1>1, <1>2, ResetKeeps DEF LockingInv, LockingTypeOK

LEMMA GiveUpKeeps ==
    ASSUME LockingInv, NEW t \in Actors, GiveUp(t)
    PROVE  LockingInv'
<1>1. tx' = [tx EXCEPT ![t] = After(t)] /\ UNCHANGED <<open, attempt, record, poisoned, scan>>
    BY DEF GiveUp, OnlyTx
<1> QED
    BY <1>1, AfterRows, ResetKeeps DEF LockingInv, LockingTypeOK

\* What a commit writes: it is about its own session.
LEMMA CommitWrites ==
    ASSUME LockingInv, NEW t \in Actors, Commit(t)
    PROVE  /\ open' \subseteq Sessions
           /\ attempt' \in [Sessions -> AttemptStatuses]
           /\ record' \in [Sessions -> RecordSources]
           /\ \A j \in Sessions \ {tx[t].session} :
                  attempt'[j] = attempt[j] /\ record'[j] = record[j]
<1> DEFINE i == tx[t].session
<1>1. /\ open \subseteq Sessions /\ attempt \in [Sessions -> AttemptStatuses]
      /\ record \in [Sessions -> RecordSources] /\ i \in Sessions
    BY DEF LockingInv, LockingTypeOK, Commit, Done, Placed
<1>2. CASE StudentEffect(t)
    <2>1. PICK outcome \in AttemptStatuses : attempt' = [attempt EXCEPT ![i] = outcome]
        BY <1>1, <1>2 DEF StudentEffect, AttemptStatuses
    <2> QED
        BY <1>1, <1>2, <2>1 DEF StudentEffect
<1>3. CASE LecturerEffect(t)
    BY <1>1, <1>3 DEF LecturerEffect, AttemptStatuses, RecordSources
<1>4. CASE CloseEffect(t)
    BY <1>1, <1>4 DEF CloseEffect, AttemptStatuses, RecordSources
<1> QED
    BY <1>2, <1>3, <1>4 DEF Commit

LEMMA CommitKeeps ==
    ASSUME LockingInv, NEW t \in Actors, Commit(t)
    PROVE  LockingInv'
<1>1. tx' = [tx EXCEPT ![t] = After(t)] /\ UNCHANGED <<poisoned, scan>> /\ Done(t)
    BY DEF Commit
<1>2. ASSUME NEW u \in Actors \ {t}, tx[u].kind \in Closing, tx[u].at >= 3
      PROVE  /\ attempt'[tx[u].session] = attempt[tx[u].session]
             /\ record'[tx[u].session] = record[tx[u].session]
    <2>1. tx[u].session \in Sessions
        BY <1>2 DEF LockingInv, Placed, Running, Kinds, Closing, LecturerKinds
    <2> QED
        BY <1>1, <1>2, <2>1, CommitsApart, CommitWrites
<1> QED
    BY <1>1, <1>2, AfterRows, CommitWrites, ResetKeeps DEF LockingInv, LockingTypeOK

LEMMA LockingInit == Init => LockingInv
<1> SUFFICES ASSUME Init PROVE LockingInv
    OBVIOUS
<1>1. \A t \in Actors : tx[t] = NoTx
    BY DEF Init
<1>2. LockingTypeOK
    BY NoTxRows DEF Init, LockingTypeOK, TxRows, Readings, AttemptStatuses, RecordSources
<1>3. \A t \in Actors : Held(t) = {}
    BY <1>1, NoTxRows DEF Held
<1>4. \A t, u \in Actors : Compatible(t, u)
    BY <1>3 DEF Compatible
<1>5. \A t \in Actors : ReadStands(t) /\ Placed(t)
    BY <1>1, NoTxRows
    DEF ReadStands, Placed, Running, Kinds, StudentKinds, LecturerKinds, Closing
<1> QED
    BY <1>2, <1>4, <1>5 DEF LockingInv

LEMMA LockingNext == LockingInv /\ [Next]_vars => LockingInv'
<1> SUFFICES ASSUME LockingInv, [Next]_vars PROVE LockingInv'
    OBVIOUS
<1>1. scan \in [Schedulers -> SUBSET Sessions] /\ open \subseteq Sessions
    BY DEF LockingInv, LockingTypeOK
<1>2. ASSUME NEW r \in StudentRequests \cup LecturerRequests, NEW kind \in Kinds,
             NEW i \in Sessions, Request(r, kind, i)
      PROVE  LockingInv'
    BY <1>1, <1>2, RequestKeeps DEF Request, OnlyTx, Actors
<1>3. ASSUME NEW t \in Actors, TakeLock(t) \/ GiveUp(t) \/ Commit(t)
      PROVE  LockingInv'
    BY <1>3, TakeLockKeeps, GiveUpKeeps, CommitKeeps
<1>4. ASSUME NEW w \in Schedulers, StartScan(w)
      PROVE  LockingInv'
    <2>1. scan' \in [Schedulers -> SUBSET Sessions]
        BY <1>1, <1>4 DEF StartScan, Overdue
    <2>2. UNCHANGED <<tx, open, attempt, record, poisoned>>
        BY <1>4 DEF StartScan
    <2> QED
        BY <2>1, <2>2 DEF LockingInv, LockingTypeOK, Compatible, ReadStands, Placed, Running, Held
<1>5. ASSUME NEW w \in Schedulers, CloseNext(w)
      PROVE  LockingInv'
    <2>1. PICK i \in scan[w] :
              /\ tx' = [tx EXCEPT ![w] = [NoTx EXCEPT !.kind = "auto_close", !.session = i]]
              /\ scan' = [scan EXCEPT ![w] = Rest(w, i)]
        BY <1>5 DEF CloseNext
    <2>2. i \in Sessions /\ scan' \in [Schedulers -> SUBSET Sessions]
        BY <1>1, <2>1 DEF Rest
    <2>3. "auto_close" \in Kinds /\ w \in Actors
        BY DEF Kinds, Actors
    <2> QED
        BY <1>5, <2>1, <2>2, <2>3, RequestKeeps DEF CloseNext
<1>6. CASE UNCHANGED vars
    BY <1>6 DEF vars, LockingInv, LockingTypeOK, Compatible, ReadStands, Placed, Running, Held
<1>7. StudentKinds \subseteq Kinds /\ LecturerKinds \subseteq Kinds
    BY DEF Kinds
<1> QED
    BY <1>2, <1>3, <1>4, <1>5, <1>6, <1>7 DEF Next

LEMMA LockingAlways == Init /\ [][Next]_vars => []LockingInv
BY LockingInit, LockingNext, PTL

-----------------------------------------------------------------------------
(* Where a transaction can stand that waits and keeps another waiting.     *)

Students == {"geofence", "check_in", "scan"}
Closers  == {"waiver"} \cup Closing

\* What it holds and the one lock it waits for.
Between(t, held, wanted) == Held(t) = held /\ Wanted(t) = {wanted}

LEMMA RowsOfLocks ==
    /\ Share("session").row = "session" /\ ~Share("session").exclusive
    /\ Exclusive("session").row = "session" /\ Exclusive("session").exclusive
    /\ Exclusive("attempt").row = "attempt" /\ Exclusive("attempt").exclusive
    /\ Exclusive("record").row = "record" /\ Exclusive("record").exclusive
BY LockFields

LEMMA HeldBefore ==
    ASSUME NEW t \in Actors
    PROVE  /\ tx[t].at = 2 => Held(t) = {Locks(tx[t].kind)[1]}
           /\ tx[t].at = 3 => Held(t) = {Locks(tx[t].kind)[1], Locks(tx[t].kind)[2]}
<1>1. CASE tx[t].at = 2
    <2>1. \A i : i \in 1..(tx[t].at - 1) <=> i = 1
        BY <1>1
    <2> QED
        BY <1>1, <2>1 DEF Held
<1>2. CASE tx[t].at = 3
    <2>1. \A i : i \in 1..(tx[t].at - 1) <=> i = 1 \/ i = 2
        BY <1>2
    <2> QED
        BY <1>2, <2>1 DEF Held
<1> QED
    BY <1>1, <1>2

LEMMA StuckBetween ==
    ASSUME LockingInv, NEW t \in Actors, Waits(t), Held(t) # {}
    PROVE  \/ tx[t].kind \in Students /\ Between(t, {Share("session")}, Exclusive("attempt"))
           \/ tx[t].kind = "manual" /\ Between(t, {Share("session")}, Exclusive("record"))
           \/ tx[t].kind = "review" /\ Between(t, {Exclusive("attempt")}, Share("session"))
           \/ /\ tx[t].kind = "review"
              /\ Between(t, {Exclusive("attempt"), Share("session")}, Exclusive("record"))
           \/ tx[t].kind \in Closers /\ Between(t, {Exclusive("session")}, Exclusive("attempt"))
           \/ /\ tx[t].kind \in Closing
              /\ Between(t, {Exclusive("session"), Exclusive("attempt")}, Exclusive("record"))
<1>1. /\ tx[t].at \in 1..4 /\ tx[t].at <= Len(Locks(tx[t].kind)) /\ Running(t)
      /\ Wanted(t) = {Locks(tx[t].kind)[tx[t].at]}
    <2>1. Wanted(t) # {} /\ Running(t)
        BY DEF Waits, Free, Blocks
    <2> QED
        BY <2>1, TypeRows DEF LockingInv, TxRows, Wanted
<1>2. tx[t].at # 1
    BY HoldsNothing
<1>3. CASE tx[t].kind \in Students
    <2>1. tx[t].at = 2
        BY <1>1, <1>2, <1>3, LockCounts DEF Students
    <2> QED
        BY <1>1, <1>3, <2>1, HeldBefore, LocksOf DEF Students, Between
<1>4. CASE tx[t].kind = "manual"
    <2>1. tx[t].at = 2
        BY <1>1, <1>2, <1>4, LockCounts
    <2> QED
        BY <1>1, <1>4, <2>1, HeldBefore, LocksOf DEF Between
<1>5. CASE tx[t].kind = "waiver"
    <2>1. tx[t].at = 2
        BY <1>1, <1>2, <1>5, LockCounts
    <2> QED
        BY <1>1, <1>5, <2>1, HeldBefore, LocksOf DEF Closers, Between
<1>6. CASE tx[t].kind \in {"face", "launch"}
    BY <1>1, <1>2, <1>6, LockCounts
<1>7. CASE tx[t].kind = "review"
    <2>1. tx[t].at \in {2, 3}
        BY <1>1, <1>2, <1>7, LockCounts
    <2> QED
        BY <1>1, <1>7, <2>1, HeldBefore, LocksOf DEF Between
<1>8. CASE tx[t].kind \in Closing
    <2>1. Len(Locks(tx[t].kind)) = 3
        BY <1>8, LockCounts
    <2>2. tx[t].at \in {2, 3}
        BY <1>1, <1>2, <2>1
    <2> QED
        BY <1>1, <1>8, <2>2, HeldBefore, LocksOf DEF Closers, Between
<1> QED
    BY <1>1, <1>3, <1>4, <1>5, <1>6, <1>7, <1>8
    DEF Students, Closing, Running, Kinds, StudentKinds, LecturerKinds

\* Nobody who waits holds a record, so nobody in a circle waits for one.
LEMMA InTheWay ==
    ASSUME LockingInv, NEW t \in Actors, NEW u \in Actors,
           Waits(t), Waits(u), Held(t) # {}, Blocks(u, t)
    PROVE  \/ tx[t].kind \in Students /\ Between(t, {Share("session")}, Exclusive("attempt"))
           \/ tx[t].kind = "review" /\ Between(t, {Exclusive("attempt")}, Share("session"))
           \/ tx[t].kind \in Closers /\ Between(t, {Exclusive("session")}, Exclusive("attempt"))
<1>1. Wanted(t) # {Exclusive("record")}
    <2> SUFFICES ASSUME Wanted(t) = {Exclusive("record")} PROVE FALSE
        OBVIOUS
    <2>1. PICK held \in Held(u) : held.row = "record"
        BY RowsOfLocks DEF Blocks
    <2>2. held \in {Share("session"), Exclusive("session"), Exclusive("attempt")}
        BY <2>1, StuckBetween DEF Between
    <2> QED
        BY <2>1, <2>2, RowsOfLocks
<1> QED
    BY <1>1, StuckBetween DEF Between

-----------------------------------------------------------------------------
(* The theorems.                                                           *)

\* What finalization reads is what it decides by: whoever changes an attempt or a
\* record of a session holds a lock the close has for itself
\* (CheckInRepository.lock_session, FinalizationRepository).
THEOREM RosterDoesNotMove == FairSpec => RosterStable
<1>1. LockingInv /\ [Next]_vars =>
          [\A t \in Actors :
              tx[t].kind \in Closing /\ open' # open /\ tx'[t].kind # tx[t].kind =>
                  tx[t].read = [attempt |-> attempt[tx[t].session],
                                record |-> record[tx[t].session]]]_vars
    <2> SUFFICES ASSUME LockingInv, Next, NEW t \in Actors, tx[t].kind \in Closing,
                        open' # open, tx'[t].kind # tx[t].kind
                 PROVE  tx[t].read = [attempt |-> attempt[tx[t].session],
                                      record |-> record[tx[t].session]]
        OBVIOUS
    <2>1. PICK u \in Actors : Commit(u)
        BY DEF Next, Request, TakeLock, GiveUp, OnlyTx, StartScan, CloseNext
    <2>2. u = t
        <3>1. tx \in [Actors -> TxRows]
            BY TypeRows DEF LockingInv
        <3>2. tx' = [tx EXCEPT ![u] = After(u)]
            BY <2>1 DEF Commit
        <3> QED
            BY <3>1, <3>2
    <2>3. tx[t].at \in 1..4 /\ ~(tx[t].at <= Len(Locks(tx[t].kind)))
        BY <2>1, <2>2, TypeRows DEF LockingInv, TxRows, Commit, Done, Wanted
    <2>4. tx[t].at >= 3
        <3>1. Len(Locks(tx[t].kind)) = 3
            BY LockCounts
        <3> QED
            BY <2>3, <3>1
    <2> QED
        BY <2>4 DEF LockingInv, ReadStands
<1> QED
    BY <1>1, LockingAlways, PTL DEF FairSpec, RosterStable

\* A circle needs somebody who holds an attempt and waits for a session: a review.
\* Who holds that session for itself is alone with it, and is the one who waits for
\* the review (manual_review locks the attempt before the session; the waiver, the
\* close and the auto-close after it).
THEOREM CirclesAreReviews == FairSpec => []DeadlocksArePairs
<1>1. LockingInv => DeadlocksArePairs
    <2> SUFFICES ASSUME LockingInv, NEW t \in Actors, Deadlocked(t)
                 PROVE  \E u \in Actors :
                            /\ Blocks(t, u) /\ Blocks(u, t)
                            /\ \E closer \in Closers :
                                  {tx[t].kind, tx[u].kind} = {"review", closer}
        BY DEF DeadlocksArePairs, Closers
    <2>1. PICK circle \in SUBSET Actors : \E next \in Bijection(circle, circle) :
              t \in circle /\ \A u \in circle : Waits(u) /\ Blocks(next[u], u)
        BY DEF Deadlocked
    <2>2. PICK next \in Bijection(circle, circle) :
              t \in circle /\ \A u \in circle : Waits(u) /\ Blocks(next[u], u)
        BY <2>1
    <2>3. \A u \in circle : next[u] \in circle /\ \E v \in circle : next[v] = u
        BY <2>2 DEF Bijection, Injection, Surjection
    <2>4. ASSUME NEW u \in circle PROVE Held(u) # {}
        <3>1. PICK v \in circle : Blocks(u, v)
            BY <2>2, <2>3
        <3> QED
            BY <3>1 DEF Blocks
    <2>5. ASSUME NEW u \in circle
          PROVE  \/ /\ tx[u].kind \in Students
                    /\ Between(u, {Share("session")}, Exclusive("attempt"))
                 \/ /\ tx[u].kind = "review"
                    /\ Between(u, {Exclusive("attempt")}, Share("session"))
                 \/ /\ tx[u].kind \in Closers
                    /\ Between(u, {Exclusive("session")}, Exclusive("attempt"))
        BY <2>2, <2>3, <2>4, InTheWay
    \* Who waits for the attempt waits for a review.
    <2>6. ASSUME NEW u \in circle, Wanted(u) = {Exclusive("attempt")}
          PROVE  tx[next[u]].kind = "review" /\ Held(next[u]) = {Exclusive("attempt")}
        <3>1. Blocks(next[u], u)
            BY <2>2
        <3>2. PICK held \in Held(next[u]) : held.row = "attempt"
            BY <2>6, <3>1, RowsOfLocks DEF Blocks
        <3>3. held \notin {Share("session"), Exclusive("session")}
            BY <3>2, RowsOfLocks
        <3> QED
            BY <2>3, <2>5, <3>2, <3>3 DEF Between
    \* And the review for one who has the session alone.
    <2>7. ASSUME NEW u \in circle, tx[u].kind = "review"
          PROVE  /\ tx[next[u]].kind \in Closers /\ Wanted(next[u]) = {Exclusive("attempt")}
                 /\ Held(next[u]) = {Exclusive("session")}
        <3>1. Blocks(next[u], u)
            BY <2>2
        <3>2. Wanted(u) = {Share("session")}
            BY <2>5, <2>7 DEF Between, Students, Closers, Closing
        <3>3. PICK held \in Held(next[u]) : held.row = "session" /\ held.exclusive
            BY <3>1, <3>2, RowsOfLocks DEF Blocks
        <3>4. held \notin {Share("session"), Exclusive("attempt")}
            BY <3>3, RowsOfLocks
        <3> QED
            BY <2>3, <2>5, <3>3, <3>4 DEF Between
    <2>8. CASE tx[t].kind = "review"
        <3> DEFINE u == next[t]
        <3>1. /\ u \in circle /\ Blocks(u, t) /\ tx[u].kind \in Closers
              /\ Wanted(u) = {Exclusive("attempt")}
            BY <2>2, <2>3, <2>7, <2>8
        <3>2. Held(t) = {Exclusive("attempt")}
            BY <2>2, <2>5, <2>8 DEF Between, Students, Closers, Closing
        <3>3. Blocks(t, u)
            BY <3>1, <3>2, RowsOfLocks DEF Blocks
        <3> QED
            BY <2>8, <3>1, <3>3
    <2>9. CASE Wanted(t) = {Exclusive("attempt")}
        <3> DEFINE u == next[t]
                   v == next[u]
        <3>1. /\ u \in circle /\ Blocks(u, t) /\ tx[u].kind = "review"
              /\ v \in circle /\ Blocks(v, u) /\ tx[v].kind \in Closers
              /\ Held(v) = {Exclusive("session")}
            BY <2>2, <2>3, <2>6, <2>7, <2>9
        <3>2. v = t
            <4> SUFFICES ASSUME v # t PROVE FALSE
                OBVIOUS
            <4>1. tx[v].session = tx[t].session
                BY <3>1 DEF Blocks
            <4>2. \E held \in Held(t) : held.row = "session"
                BY <2>2, <2>5, <2>9, RowsOfLocks DEF Between
            <4>3. Compatible(v, t)
                BY <2>2, <3>1 DEF LockingInv
            <4> QED
                BY <3>1, <4>1, <4>2, <4>3, RowsOfLocks DEF Compatible
        <3> QED
            BY <3>1, <3>2
    <2> QED
        BY <2>2, <2>5, <2>8, <2>9 DEF Between
<1> QED
    BY <1>1, LockingAlways, PTL DEF FairSpec

\* A student's transaction is in no circle of waits: no reading, check-in, face result
\* or scan is lost to the deadlock detector, whatever lecturers and schedulers do.
THEOREM StudentsNeverInCircles == FairSpec => []StudentsNeverVictims
<1>1. DeadlocksArePairs => StudentsNeverVictims
    <2> SUFFICES ASSUME DeadlocksArePairs, NEW t \in Actors, tx[t].kind \in StudentKinds, Deadlocked(t)
                 PROVE  FALSE
        BY DEF StudentsNeverVictims
    <2>1. PICK u \in Actors, closer \in Closers : {tx[t].kind, tx[u].kind} = {"review", closer}
        BY DEF DeadlocksArePairs, Closers
    <2>2. tx[t].kind \in {"review", closer}
        BY <2>1
    <2> QED
        BY <2>2 DEF StudentKinds, Closers, Closing
<1> QED
    BY <1>1, CirclesAreReviews, PTL

\* Transactions, rows and scans keep their types, for any number of them.
THEOREM TypeCorrect == FairSpec => []LockingTypeOK
BY LockingAlways, PTL DEF LockingInv, FairSpec

=============================================================================
