----------------------- MODULE ReleaseScannerProofs -----------------------
(***************************************************************************)
(* What holds of ReleaseScanner for any number of e-mails, repositories,   *)
(* tags, rows and events.  IInv holds whatever goes wrong; AtomicInv and   *)
(* OrderInv add what the saga and the cache give when nothing (or less)    *)
(* does.                                                                   *)
(***************************************************************************)
EXTENDS ReleaseScanner, SubscriptionTableProofs

(* The rows of the snapshot that the run has not come to yet.              *)
Held == todo \cup batch

(* Every row the run holds is one it will come to once: the ids of todo,   *)
(* batch and the saga differ.                                              *)
SnapshotInv ==
    /\ \A r \in rows : r.id \in 1 .. nextId - 1
    /\ \A q \in Held : q.id \in 1 .. nextId - 1 /\ q.id # saga.id
    /\ saga \in Row => saga.id \in 1 .. nextId - 1
    /\ \A p \in todo, q \in batch : p.id # q.id
    /\ UniqueIds(rows) /\ UniqueIds(todo) /\ UniqueIds(batch)
    /\ pc = "idle" => todo = {}
    /\ pc \in {"idle", "groups"} => batch = {}

(* The run holds confirmed rows only, and a row stays confirmed.           *)
ConfirmedInv ==
    /\ \A q \in Held : q.confirmed
    /\ saga \in Row => saga.confirmed
    /\ \A q \in Held \cup {saga}, r \in rows :
          q.id = r.id => r.confirmed /\ r.repo = q.repo

(* An event for a row that is gone is the last one for that row.           *)
StrayInv ==
    \A id \in Ids :
        /\ strays[id] \in {0, 1}
        /\ strays[id] = 1 => /\ ~ HasRow(rows, id) /\ id < nextId
                             /\ saga.id # id
                             /\ \A q \in Held : q.id # id

IInv ==
    /\ TypeOK
    /\ SnapshotInv
    /\ \A id \in Ids : told[id] = <<>> <=> id >= nextId
    /\ ConfirmedInv
    /\ PendingNeverNotified
    /\ StrayInv

-----------------------------------------------------------------------------
(* Init establishes the invariant.                                         *)
LEMMA InitIInv == Init => IInv
  <1> SUFFICES ASSUME Init PROVE IInv
    OBVIOUS
  <1> USE DEF Init
  <1>1. NoRow \notin Row
    BY DEF NoRow, Row
  <1>2. TypeOK
    <2>1. NoTag \in Tags
      BY MaxTagAssumption DEF NoTag, Tags
    <2>2. <<>> \in Seq(Tags)
      OBVIOUS
    <2>3. /\ told \in [Ids -> Seq(Tags)] /\ strays \in [Ids -> Nat]
          /\ cached \in [Repos -> Tags \cup {NoEntry}]
      BY <2>2
    <2>4. nextId \in 1 .. MaxId + 1
      BY ScannerAssumption
    <2> QED
      BY <1>1, <2>1, <2>3, <2>4 DEF TypeOK, Steps
  <1>3. SnapshotInv /\ ConfirmedInv /\ PendingNeverNotified
    BY <1>1 DEF SnapshotInv, ConfirmedInv, PendingNeverNotified, Held, UniqueIds
  <1>4. StrayInv
    BY DEF StrayInv, HasRow, Held, NoRow, Ids
  <1> QED
    BY <1>2, <1>3, <1>4, ScannerAssumption DEF IInv, Ids

(* Every action keeps the types.                                           *)
LEMMA NextTypeOK == ASSUME IInv, [Next]_vars PROVE TypeOK'
  <1> USE ScannerAssumption, MaxTagAssumption DEF TypeOK, Steps, Ids, NoEntry
  <1>0. NoRow \notin Row
    BY DEF NoRow, Row
  <1>1. ASSUME NEW repo \in Repos, Release(repo)
        PROVE  TypeOK'
    BY <1>1 DEF IInv, Release, Tags, table, run, history
  <1>2. ASSUME NEW repo \in Repos, NEW t \in Tags, ApiLookup(repo, t)
        PROVE  TypeOK'
    BY <1>2 DEF IInv, ApiLookup, table, run, history
  <1>3. ASSUME NEW repo \in Repos, Expire(repo)
        PROVE  TypeOK'
    BY <1>3 DEF IInv, Expire, table, run, history
  <1>4. ASSUME NEW email \in Emails, NEW repo \in Repos, NEW t \in Tags,
               Subscribe(email, repo, t)
        PROVE  TypeOK'
    <2>1. nextId \in Nat /\ rows \subseteq Row
      BY DEF IInv
    <2>2. [id |-> nextId, email |-> email, repo |-> repo,
           confirmed |-> FALSE, lastSeenTag |-> t] \in Row
      BY <2>1 DEF Row
    <2>3. rows' \subseteq Row
      BY <1>4, <2>1, <2>2 DEF Subscribe, InsertRow
    <2>4. <<t>> \in Seq(Tags)
      OBVIOUS
    <2>5. told' \in [Ids -> Seq(Tags)]
      BY <1>4, <2>4 DEF IInv, Subscribe
    <2>6. nextId' \in 1 .. MaxId + 1
      BY <1>4 DEF IInv, Subscribe
    <2>7. UNCHANGED <<latest, cached, stopping, pc, todo, batch, tag, saga, strays>>
      BY <1>4 DEF Subscribe, run
    <2> QED
      BY <2>3, <2>5, <2>6, <2>7 DEF IInv
  <1>5. ASSUME NEW id \in Ids, Confirm(id)
        PROVE  TypeOK'
    BY <1>5, ConfirmRowKeeps DEF IInv, Confirm, run, history
  <1>6. ASSUME NEW id \in Ids, Remove(id)
        PROVE  TypeOK'
    BY <1>6, DeleteRowKeeps DEF IInv, Remove, run, history
  <1>7. CASE ListConfirmedForScan
    BY <1>7 DEF IInv, ListConfirmedForScan, ConfirmedRows, table, history
  <1>8. ASSUME NEW repo \in Repos, NEW t \in Tags, LookupOk(repo, t)
        PROVE  TypeOK'
    BY <1>8 DEF IInv, LookupOk, Group, table, history
  <1>9. ASSUME NEW repo \in Repos, LookupSkips(repo)
        PROVE  TypeOK'
    BY <1>9 DEF IInv, LookupSkips, Group, table, history
  <1>10. ASSUME NEW r \in batch, UpdateOk(r) \/ UpdateReplyLost(r)
         PROVE  TypeOK'
    <2>1. rows' = SetTag(rows, r.id, tag) /\ rows \subseteq Row /\ tag \in Tags
      BY <1>10 DEF IInv, UpdateOk, UpdateReplyLost
    <2>2. rows' \subseteq Row
      BY <2>1, SetTagKeeps
    <2>3. CASE UpdateOk(r)
      BY <1>0, <2>2, <2>3 DEF IInv, UpdateOk, history
    <2>4. CASE UpdateReplyLost(r)
      BY <2>2, <2>4 DEF IInv, UpdateReplyLost, history
    <2> QED
      BY <1>10, <2>3, <2>4
  <1>11. ASSUME NEW r \in batch, UpdateFails(r)
         PROVE  TypeOK'
    BY <1>11 DEF IInv, UpdateFails, table, history
  <1>12. CASE PublishOk
    <2>1. saga.id \in Ids
      BY <1>12 DEF IInv, PublishOk, SnapshotInv
    <2>2. told' \in [Ids -> Seq(Tags)]
      <3>1. Append(told[saga.id], tag) \in Seq(Tags)
        BY <2>1 DEF IInv
      <3> QED
        BY <1>12, <2>1, <3>1 DEF IInv, PublishOk
    <2>3. strays' \in [Ids -> Nat]
      BY <1>12, <2>1 DEF IInv, PublishOk
    <2> QED
      BY <1>0, <1>12, <2>2, <2>3 DEF IInv, PublishOk, table
  <1>13. CASE PublishFails
    BY <1>13 DEF IInv, PublishFails, table, history
  <1>14. CASE CompensateOk
    <2>1. saga \in Row /\ saga.lastSeenTag \in Tags
      BY <1>14 DEF IInv, CompensateOk, Row
    <2>2. rows' \subseteq Row
      BY <1>14, <2>1, SetTagKeeps DEF IInv, CompensateOk
    <2> QED
      BY <1>0, <1>14, <2>2 DEF IInv, CompensateOk, history
  <1>15. CASE CompensateFails
    BY <1>0, <1>15 DEF IInv, CompensateFails, table, history
  <1>16. CASE GroupDone \/ RunDone
    BY <1>16 DEF IInv, GroupDone, RunDone, NoTag, Tags, table, history
  <1>17. CASE Stop \/ Restart
    BY <1>17 DEF IInv, Stop, Restart, table, run, history
  <1>18. CASE Crash
    <2>1. /\ pc' = "idle" /\ stopping' = FALSE /\ todo' = {} /\ batch' = {}
          /\ tag' = NoTag /\ saga' = NoRow
          /\ UNCHANGED <<rows, nextId, latest, cached, told, strays>>
      BY <1>18 DEF Crash, table, history
    <2>2. NoTag \in Tags
      BY DEF NoTag, Tags
    <2> QED
      BY <1>0, <2>1, <2>2 DEF IInv
  <1>19. CASE UNCHANGED vars
    BY <1>19 DEF IInv, vars, table, run, history
  <1> QED
    BY <1>1, <1>2, <1>3, <1>4, <1>5, <1>6, <1>7, <1>8, <1>9, <1>10, <1>11, <1>12,
       <1>13, <1>14, <1>15, <1>16, <1>17, <1>18, <1>19
    DEF Next, Environment, Scan

(* What Append adds to a non-empty history.                                *)
LEMMA AppendFacts ==
    ASSUME NEW S, NEW s \in Seq(S), NEW e \in S
    PROVE  /\ Append(s, e) # <<>>
           /\ Len(Append(s, e)) = Len(s) + 1
           /\ Append(s, e)[Len(s) + 1] = e
           /\ \A i \in 1 .. Len(s) : Append(s, e)[i] = s[i]
  OBVIOUS

(* A row whose tag is recorded, or that is confirmed, stays the same row:  *)
(* same id, same repository, and confirmed if it was.                      *)
SameRows ==
    /\ UniqueIds(rows')
    /\ \A i : HasRow(rows', i) <=> HasRow(rows, i)
    /\ \A q \in rows' : \E r \in rows :
          q.id = r.id /\ q.repo = r.repo /\ (r.confirmed => q.confirmed)

(* Recording a tag, as UpdateOk and CompensateOk do, keeps the rows.       *)
LEMMA SetTagSameRows ==
    ASSUME IInv, NEW id, NEW t \in Tags, rows' = SetTag(rows, id, t)
    PROVE  SameRows
  <1>1. rows \subseteq Row /\ UniqueIds(rows)
    BY DEF IInv, TypeOK, SnapshotInv
  <1>2. /\ UniqueIds(rows')
        /\ \A i : HasRow(rows', i) <=> HasRow(rows, i)
        /\ \A q \in rows' : \E r \in rows :
              q.id = r.id /\ Pair(q) = Pair(r) /\ q.confirmed = r.confirmed
    BY <1>1, SetTagKeeps
  <1> QED
    BY <1>2 DEF SameRows, Pair

(* So does confirming a row.                                               *)
LEMMA ConfirmSameRows ==
    ASSUME IInv, NEW id, rows' = ConfirmRow(rows, id)
    PROVE  SameRows
  <1>1. rows \subseteq Row /\ UniqueIds(rows)
    BY DEF IInv, TypeOK, SnapshotInv
  <1>2. /\ UniqueIds(rows')
        /\ \A i : HasRow(rows', i) <=> HasRow(rows, i)
        /\ \A q \in rows' : \E r \in rows :
              q.id = r.id /\ Pair(q) = Pair(r) /\ (q.confirmed <=> r.confirmed \/ r.id = id)
    BY <1>1, ConfirmRowKeeps
  <1> QED
    BY <1>2 DEF SameRows, Pair

(* A step that keeps the rows the same and moves the saga on to a row of   *)
(* the batch, drops a row of it or ends the saga, keeps what the run knows *)
(* of the rows it holds.                                                   *)
LEMMA SameRowsGoal ==
    ASSUME SnapshotInv, ConfirmedInv, PendingNeverNotified, StrayInv, SameRows,
           saga \in Row \/ saga = NoRow, batch \subseteq Row,
           saga' \in batch \cup {saga, NoRow},
           batch' = batch \ {saga'} \/ (batch' \subseteq batch /\ saga' \in {saga, NoRow}),
           pc \in {"idle", "groups"} => batch' = {},
           UNCHANGED <<nextId, todo, told, strays>>,
           pc' = pc \/ (pc' \notin {"idle", "groups"} /\ pc # "idle")
    PROVE  (SnapshotInv /\ ConfirmedInv /\ PendingNeverNotified /\ StrayInv)'
  <1>1. NoRow \notin Row /\ NoRow.id = 0
    BY DEF NoRow, Row
  <1>2. SnapshotInv'
    BY <1>1 DEF SnapshotInv, SameRows, Held, UniqueIds, HasRow
  <1>3. ConfirmedInv'
    BY <1>1 DEF ConfirmedInv, SnapshotInv, SameRows, Held
  <1>4. PendingNeverNotified'
    BY DEF PendingNeverNotified, SameRows
  <1>5. StrayInv'
    BY <1>1 DEF StrayInv, SnapshotInv, SameRows, Held, Ids
  <1> QED
    BY <1>2, <1>3, <1>4, <1>5

(* Every action keeps the invariant.                                       *)
LEMMA NextIInv == ASSUME IInv, [Next]_vars PROVE IInv'
  <1> DEFINE ToldInv == \A id \in Ids : told[id] = <<>> <=> id >= nextId
             Goal == (SnapshotInv /\ ToldInv /\ ConfirmedInv /\ PendingNeverNotified /\ StrayInv)'
  <1>t. /\ rows \subseteq Row /\ todo \subseteq Row /\ batch \subseteq Row
        /\ nextId \in Nat /\ MaxId \in Nat /\ nextId >= 1
        /\ saga \in Row \cup {NoRow} /\ NoRow \notin Row /\ NoRow.id = 0
        /\ pc \in {"publish", "compensate"} <=> saga \in Row
        /\ told \in [Ids -> Seq(Tags)] /\ strays \in [Ids -> Nat]
        /\ tag \in Tags /\ \A r \in Row : r.lastSeenTag \in Tags
    <2>1. NoRow \notin Row /\ NoRow.id = 0
      BY DEF NoRow, Row
    <2>2. \A r \in Row : r.lastSeenTag \in Tags
      BY DEF Row
    <2> QED
      BY <2>1, <2>2, ScannerAssumption DEF IInv, TypeOK
  <1>i. SnapshotInv /\ ToldInv /\ ConfirmedInv /\ PendingNeverNotified /\ StrayInv
    BY DEF IInv
  <1> SUFFICES Goal
    BY NextTypeOK DEF IInv
  <1>1. CASE UNCHANGED <<rows, nextId, run, history>>
    BY <1>i, <1>1 DEF run, history, SnapshotInv, ConfirmedInv,
                      PendingNeverNotified, StrayInv, Held, HasRow, UniqueIds
  <1>2. ASSUME NEW email \in Emails, NEW repo \in Repos, NEW t \in Tags,
               Subscribe(email, repo, t)
        PROVE  Goal
    <2> DEFINE new == [id |-> nextId, email |-> email, repo |-> repo,
                       confirmed |-> FALSE, lastSeenTag |-> t]
    <2>1. /\ new.id = nextId /\ nextId \in Ids
          /\ rows' = rows \cup {new} /\ nextId' = nextId + 1
          /\ told' = [told EXCEPT ![nextId] = <<t>>]
          /\ UNCHANGED <<pc, todo, batch, saga, strays>>
      BY <1>t, <1>2 DEF Subscribe, InsertRow, run, Ids
    <2>2. /\ Len(told'[nextId]) = 1 /\ told'[nextId] # <<>>
          /\ \A id \in Ids : id # nextId => told'[id] = told[id]
      BY <1>t, <2>1
    <2> HIDE DEF new
    <2>3. \A r \in rows : r.id \in 1 .. nextId - 1
      BY <1>i DEF SnapshotInv
    <2>4. SnapshotInv'
      <3>1. UniqueIds(rows')
        BY <1>i, <1>t, <2>1, <2>3 DEF SnapshotInv, UniqueIds
      <3>2. \A r \in rows' : r.id \in 1 .. nextId' - 1
        BY <1>t, <2>1, <2>3
      <3> QED
        BY <1>i, <1>t, <2>1, <3>1, <3>2 DEF SnapshotInv, Held, UniqueIds
    <2>9. /\ new.id = nextId /\ nextId \in Ids
          /\ rows' = rows \cup {new} /\ nextId' = nextId + 1
          /\ UNCHANGED <<pc, todo, batch, saga, strays>>
      BY <2>1
    <2>5. ToldInv'
      <3> SUFFICES ASSUME NEW id \in Ids
                   PROVE  told'[id] = <<>> <=> id >= nextId'
        OBVIOUS
      <3>1. id \in Nat
        BY DEF Ids
      <3>2. CASE id = nextId
        BY <1>t, <2>9, <2>2, <3>2
      <3>3. CASE id # nextId
        <4>1. told'[id] = <<>> <=> id >= nextId
          BY <1>i, <2>2, <3>3
        <4> QED
          BY <1>t, <2>9, <3>1, <3>3, <4>1
      <3> QED
        BY <3>2, <3>3
    <2>6. ConfirmedInv'
      <3>1. \A q \in Held \cup {saga} : q.id # nextId
        BY <1>i, <1>t DEF SnapshotInv
      <3> QED
        BY <1>i, <2>1, <3>1 DEF ConfirmedInv, Held
    <2>7. \A r \in rows' : r.confirmed \/ Len(told'[r.id]) = 1
      <3>1. \A r \in rows : r.id \in Ids /\ r.id # nextId
        BY <1>t, <2>9, <2>3 DEF Ids
      <3> QED
        BY <1>i, <2>9, <2>2, <3>1 DEF PendingNeverNotified
    <2>8. StrayInv'
      <3>1. \A id \in Ids : id < nextId => id < nextId' /\ id # nextId
        BY <1>t, <2>9 DEF Ids
      <3>2. \A id \in Ids : id # nextId => (HasRow(rows', id) <=> HasRow(rows, id))
        BY <2>9 DEF HasRow
      <3> QED
        BY <1>i, <2>9, <3>1, <3>2 DEF StrayInv, Held
    <2> QED
      BY <2>4, <2>5, <2>6, <2>7, <2>8 DEF PendingNeverNotified
  <1>3. ASSUME NEW id \in Ids, Confirm(id)
        PROVE  Goal
    <2>1. SameRows
      BY <1>3, ConfirmSameRows DEF Confirm
    <2>2. UNCHANGED <<nextId, pc, todo, batch, saga, told, strays>>
      BY <1>3 DEF Confirm, run, history
    <2> QED
      BY <1>t, <1>i, <2>1, <2>2, SameRowsGoal DEF SnapshotInv
  <1>4. ASSUME NEW id \in Ids, Remove(id)
        PROVE  Goal
    <2>1. rows' \subseteq rows
      BY <1>4 DEF Remove, DeleteRow
    <2>2. UNCHANGED <<nextId, pc, todo, batch, saga, told, strays>>
      BY <1>4 DEF Remove, run, history
    <2> QED
      BY <1>i, <2>1, <2>2 DEF SnapshotInv, ConfirmedInv, PendingNeverNotified,
                              StrayInv, Held, HasRow, UniqueIds
  <1>5. CASE ListConfirmedForScan
    BY <1>t, <1>i, <1>5
    DEF ListConfirmedForScan, ConfirmedRows, table, history, SnapshotInv,
        ConfirmedInv, PendingNeverNotified, StrayInv, Held, HasRow, UniqueIds, Ids
  <1>6. ASSUME NEW repo \in Repos, NEW t \in Tags, LookupOk(repo, t)
        PROVE  Goal
    BY <1>t, <1>i, <1>6
    DEF LookupOk, Group, table, history, SnapshotInv,
        ConfirmedInv, PendingNeverNotified, StrayInv, Held, HasRow, UniqueIds, Ids
  <1>7. ASSUME NEW repo \in Repos, LookupSkips(repo)
        PROVE  Goal
    BY <1>t, <1>i, <1>7
    DEF LookupSkips, Group, table, history, SnapshotInv,
        ConfirmedInv, PendingNeverNotified, StrayInv, Held, HasRow, UniqueIds, Ids
  <1>8. ASSUME NEW r \in batch, UpdateOk(r)
        PROVE  Goal
    <2>1. SameRows
      BY <1>t, <1>8, SetTagSameRows DEF UpdateOk
    <2>2. /\ saga' = r /\ batch' = batch \ {r} /\ pc = "batch" /\ pc' = "publish"
          /\ UNCHANGED <<nextId, todo, told, strays>>
      BY <1>8 DEF UpdateOk, history
    <2> QED
      BY <1>t, <1>i, <2>1, <2>2, SameRowsGoal
  <1>9. ASSUME NEW r \in batch, UpdateReplyLost(r)
        PROVE  Goal
    <2>1. SameRows
      BY <1>t, <1>9, SetTagSameRows DEF UpdateReplyLost
    <2>2. /\ batch' = batch \ {r} /\ pc = "batch" /\ pc' = "batch"
          /\ UNCHANGED <<nextId, todo, saga, told, strays>>
      BY <1>9 DEF UpdateReplyLost, history
    <2> QED
      BY <1>t, <1>i, <2>1, <2>2, SameRowsGoal
  <1>10. ASSUME NEW r \in batch, UpdateFails(r)
         PROVE  Goal
    BY <1>t, <1>i, <1>10
    DEF UpdateFails, table, history, SnapshotInv,
        ConfirmedInv, PendingNeverNotified, StrayInv, Held, HasRow, UniqueIds, Ids
  <1>11. CASE PublishOk
    <2>1. /\ saga \in Row /\ saga.id \in 1 .. nextId - 1 /\ saga.id \in Ids
          /\ saga' = NoRow
          /\ told' = [told EXCEPT ![saga.id] = Append(@, tag)]
          /\ UNCHANGED <<rows, nextId, todo, batch>>
          /\ pc' = "batch"
      BY <1>t, <1>i, <1>11 DEF PublishOk, table, IInv, TypeOK, SnapshotInv, Ids
    <2>2. SnapshotInv' /\ ConfirmedInv'
      BY <1>t, <1>i, <2>1 DEF SnapshotInv, ConfirmedInv, Held, UniqueIds
    <2>3. ToldInv'
      <3>1. told[saga.id] \in Seq(Tags) /\ tag \in Tags
        BY <1>t, <2>1
      <3>2. Append(told[saga.id], tag) # <<>>
        BY <3>1, AppendFacts
      <3>3. saga.id < nextId /\ told'[saga.id] # <<>>
        BY <1>t, <2>1, <3>2
      <3>4. \A id \in Ids : id # saga.id => told'[id] = told[id]
        BY <1>t, <2>1
      <3> QED
        BY <1>t, <1>i, <2>1, <3>3, <3>4
    <2>4. PendingNeverNotified'
      BY <1>t, <1>i, <2>1 DEF PendingNeverNotified, ConfirmedInv
    <2>5. StrayInv'
      <3>1. CASE HasRow(rows, saga.id)
        BY <1>t, <1>i, <1>11, <2>1, <3>1 DEF PublishOk, StrayInv, HasRow, Held, Ids
      <3>2. CASE ~ HasRow(rows, saga.id)
        <4>1. /\ strays[saga.id] = 0
              /\ strays' = [strays EXCEPT ![saga.id] = @ + 1]
          BY <1>t, <1>i, <1>11, <2>1, <3>2 DEF PublishOk, StrayInv
        <4> QED
          <5>1. /\ strays'[saga.id] = 1
                /\ \A id \in Ids : id # saga.id => strays'[id] = strays[id]
            BY <1>t, <2>1, <4>1
          <5>2. \A id \in Ids : id # saga'.id
            BY <1>t, <2>1 DEF Ids
          <5>3. /\ ~ HasRow(rows', saga.id) /\ saga.id < nextId'
                /\ \A q \in Held' : q.id # saga.id
            BY <1>t, <1>i, <2>1, <3>2 DEF SnapshotInv, Held, HasRow
          <5> QED
            BY <1>i, <2>1, <5>1, <5>2, <5>3 DEF StrayInv, Held, HasRow
      <3> QED
        BY <3>1, <3>2
    <2> QED
      BY <2>2, <2>3, <2>4, <2>5
  <1>12. CASE PublishFails
    BY <1>t, <1>i, <1>12
    DEF PublishFails, table, history, SnapshotInv,
        ConfirmedInv, PendingNeverNotified, StrayInv, Held, HasRow, UniqueIds, Ids
  <1>13. CASE CompensateOk
    <2>1. SameRows
      BY <1>t, <1>13, SetTagSameRows DEF CompensateOk
    <2>2. /\ saga' = NoRow /\ pc = "compensate" /\ pc' = "batch"
          /\ UNCHANGED <<nextId, batch, todo, told, strays>>
      BY <1>13 DEF CompensateOk, history
    <2> QED
      BY <1>t, <1>i, <2>1, <2>2, SameRowsGoal
  <1>14. CASE CompensateFails
    BY <1>t, <1>i, <1>14
    DEF CompensateFails, table, history, SnapshotInv,
        ConfirmedInv, PendingNeverNotified, StrayInv, Held, HasRow, UniqueIds, Ids
  <1>15. CASE GroupDone \/ RunDone
    BY <1>t, <1>i, <1>15
    DEF GroupDone, RunDone, table, history, SnapshotInv,
        ConfirmedInv, PendingNeverNotified, StrayInv, Held, HasRow, UniqueIds, Ids
  <1>16. CASE Crash
    BY <1>t, <1>i, <1>16
    DEF Crash, table, history, SnapshotInv,
        ConfirmedInv, PendingNeverNotified, StrayInv, Held, HasRow, UniqueIds, Ids
  <1> QED
    BY <1>1, <1>2, <1>3, <1>4, <1>5, <1>6, <1>7, <1>8, <1>9, <1>10, <1>11, <1>12,
       <1>13, <1>14, <1>15, <1>16
    DEF Next, Environment, Scan, Release, ApiLookup, Expire, Stop, Restart, vars, table

-----------------------------------------------------------------------------
(* Types and shapes that the proofs below need of IInv.                    *)
LEMMA IInvFacts ==
    ASSUME IInv
    PROVE  /\ rows \subseteq Row /\ Held \subseteq Row
           /\ nextId \in Nat /\ nextId >= 1 /\ tag \in Tags
           /\ saga \in Row \cup {NoRow} /\ NoRow \notin Row /\ NoRow.id = 0
           /\ pc \in {"publish", "compensate"} <=> saga \in Row
           /\ told \in [Ids -> Seq(Tags)]
           /\ \A r \in rows \cup Held : r.id \in Ids /\ r.id < nextId
           /\ saga \in Row => saga.id \in Ids /\ saga.id < nextId
           /\ \A id \in Ids : id < nextId => told[id] # <<>> /\ Len(told[id]) \in Nat \ {0}
  <1>1. NoRow \notin Row /\ NoRow.id = 0
    BY DEF NoRow, Row
  <1>2. /\ rows \subseteq Row /\ Held \subseteq Row
        /\ nextId \in 1 .. MaxId + 1 /\ tag \in Tags
        /\ saga \in Row \cup {NoRow}
        /\ pc \in {"publish", "compensate"} <=> saga \in Row
        /\ told \in [Ids -> Seq(Tags)]
    BY DEF IInv, TypeOK, Held
  <1>3. /\ \A r \in rows \cup Held : r.id \in Ids /\ r.id < nextId
        /\ saga \in Row => saga.id \in Ids /\ saga.id < nextId
    BY <1>2, ScannerAssumption DEF IInv, SnapshotInv, Ids
  <1>4. \A id \in Ids : id < nextId => told[id] # <<>>
    BY <1>2, ScannerAssumption DEF IInv, Ids
  <1>5. \A s \in Seq(Tags) : s # <<>> => Len(s) \in Nat \ {0}
    OBVIOUS
  <1> QED
    BY <1>1, <1>2, <1>3, <1>4, <1>5, ScannerAssumption

(* The rows after a tag is recorded, one by one.                           *)
Recorded(id, t) ==
    \A q \in rows' : \E r \in rows :
        /\ q.id = r.id /\ q.repo = r.repo
        /\ q.lastSeenTag = IF r.id = id THEN t ELSE r.lastSeenTag

(* What UpdateOk, UpdateReplyLost and CompensateOk do to the tags.         *)
LEMMA SetTagRecorded ==
    ASSUME rows \subseteq Row, NEW id, NEW t \in Tags, rows' = SetTag(rows, id, t)
    PROVE  Recorded(id, t)
  <1>1. \A q \in rows' : \E r \in rows :
            /\ q.id = r.id /\ Pair(q) = Pair(r)
            /\ q.lastSeenTag = IF r.id = id THEN t ELSE r.lastSeenTag
    BY SetTagKeeps
  <1> QED
    BY <1>1 DEF Recorded, Pair

(* Confirming a row, as the API does, changes no tag.                      *)
LEMMA ConfirmKeepsTags ==
    ASSUME rows \subseteq Row, NEW id, rows' = ConfirmRow(rows, id)
    PROVE  \A q \in rows' : \E r \in rows :
                q.id = r.id /\ q.repo = r.repo /\ q.lastSeenTag = r.lastSeenTag
  BY ConfirmRowKeeps DEF Pair

-----------------------------------------------------------------------------
(* When every call that fails has had no effect, the ctx is never          *)
(* cancelled and the process stays up: what the run holds agrees with what *)
(* has been told, and during the saga the table already has the new tag.   *)
AtomicInv ==
    /\ stopping = FALSE
    /\ LastSeenIsLastTold
    /\ \A q \in Held : q.lastSeenTag = LastTold(q.id)
    /\ saga \in Row => saga.lastSeenTag = LastTold(saga.id)
    /\ \A r \in rows : r.id = saga.id => r.lastSeenTag = tag

(* Init establishes it.                                                    *)
LEMMA InitAtomicInv == Init => AtomicInv
  <1>1. NoRow \notin Row
    BY DEF NoRow, Row
  <1> QED
    BY <1>1 DEF Init, AtomicInv, LastSeenIsLastTold, Held

(* Every action keeps the atomicity of the saga when calls either succeed  *)
(* or have no effect.                                                      *)
LEMMA NextAtomicInv ==
    ASSUME Faults \subseteq {"staleTag"}, IInv, AtomicInv, [Next]_vars
    PROVE  AtomicInv'
  <1> USE DEF AtomicInv, LastSeenIsLastTold, InSaga
  <1> DEFINE NewLastTold(id) == told'[id][Len(told'[id])]
  <1>0. /\ rows \subseteq Row /\ Held \subseteq Row
        /\ nextId \in Nat /\ nextId >= 1 /\ tag \in Tags
        /\ saga \in Row \cup {NoRow} /\ NoRow \notin Row /\ NoRow.id = 0
        /\ pc \in {"publish", "compensate"} <=> saga \in Row
        /\ \A r \in rows \cup Held : r.id \in Ids /\ r.id < nextId
        /\ saga \in Row => saga.id \in Ids /\ saga.id < nextId
        /\ \A r \in rows : r.id # NoRow.id
    BY IInvFacts DEF Ids
  <1>1. CASE UNCHANGED <<rows, nextId, stopping, run, history>>
    BY <1>1 DEF run, history, LastTold, Held
  <1>2. ASSUME NEW email \in Emails, NEW repo \in Repos, NEW t \in Tags,
               Subscribe(email, repo, t)
        PROVE  AtomicInv'
    <2> DEFINE new == [id |-> nextId, email |-> email, repo |-> repo,
                       confirmed |-> FALSE, lastSeenTag |-> t]
    <2>1. /\ new.id = nextId /\ new.lastSeenTag = t
          /\ rows' = rows \cup {new}
          /\ UNCHANGED <<stopping, tag, saga, todo, batch>>
      BY <1>2 DEF Subscribe, InsertRow, run
    <2>2. NewLastTold(nextId) = t
      BY <1>2, IInvFacts DEF Subscribe, Ids
    <2>3. \A id \in Ids : id # nextId => NewLastTold(id) = LastTold(id)
      BY <1>2, IInvFacts DEF LastTold, Subscribe
    <2> HIDE DEF new, NewLastTold
    <2>4. \A r \in rows \cup Held : r.id # nextId /\ NewLastTold(r.id) = LastTold(r.id)
      BY <1>0, <2>3
    <2>5. saga \in Row => saga.id # nextId /\ NewLastTold(saga.id) = LastTold(saga.id)
      BY <1>0, <2>3
    <2>6. saga.id # nextId
      BY <1>0
    <2> QED
      BY <2>1, <2>2, <2>4, <2>5, <2>6 DEF Held, LastTold, NewLastTold
  <1>3. ASSUME NEW id \in Ids, Confirm(id)
        PROVE  AtomicInv'
    <2>1. UNCHANGED <<stopping, tag, saga, todo, batch, told>>
      BY <1>3 DEF Confirm, run, history
    <2> QED
      BY <1>0, <1>3, <2>1, ConfirmKeepsTags DEF Confirm, LastTold, Held
  <1>4. ASSUME NEW id \in Ids, Remove(id)
        PROVE  AtomicInv'
    BY <1>4 DEF Remove, DeleteRow, run, history, LastTold, Held
  <1>5. CASE ListConfirmedForScan
    BY <1>0, <1>5 DEF ListConfirmedForScan, ConfirmedRows, table, history,
                      LastTold, Held, IInv, SnapshotInv
  <1>6. ASSUME NEW repo \in Repos, NEW t \in Tags, LookupOk(repo, t)
        PROVE  AtomicInv'
    BY <1>0, <1>6 DEF LookupOk, Group, table, history, LastTold, Held
  <1>7. ASSUME NEW repo \in Repos, LookupSkips(repo)
        PROVE  AtomicInv'
    BY <1>7 DEF LookupSkips, Group, table, history, LastTold, Held
  <1>8. ASSUME NEW r \in batch, UpdateOk(r)
        PROVE  AtomicInv'
    <2>1. Recorded(r.id, tag)
      BY <1>0, <1>8, SetTagRecorded DEF UpdateOk
    <2>2. /\ saga' = r /\ batch' = batch \ {r} /\ pc = "batch"
          /\ UNCHANGED <<stopping, todo, tag, told>>
      BY <1>8 DEF UpdateOk, history
    <2> QED
      BY <1>0, <2>1, <2>2 DEF Recorded, LastTold, Held
  <1>9. ASSUME NEW r \in batch, UpdateFails(r)
        PROVE  AtomicInv'
    BY <1>9 DEF UpdateFails, table, history, LastTold, Held
  <1>10. CASE PublishOk
    <2>1. /\ saga' = NoRow /\ saga \in Row
          /\ told' = [told EXCEPT ![saga.id] = Append(@, tag)]
          /\ UNCHANGED <<rows, stopping, todo, batch, tag>>
      BY <1>0, <1>10 DEF PublishOk, table
    <2>2. NewLastTold(saga.id) = tag
      <3>1. told[saga.id] \in Seq(Tags) /\ told'[saga.id] = Append(told[saga.id], tag)
        BY <1>0, <2>1, IInvFacts
      <3> QED
        BY <1>0, <3>1, AppendFacts
    <2>3. \A id \in Ids : id # saga.id => NewLastTold(id) = LastTold(id)
      BY <2>1, IInvFacts DEF LastTold
    <2>4. \A q \in Held : q.id # saga.id
      BY DEF IInv, SnapshotInv
    <2> HIDE DEF NewLastTold
    <2>5. \A r \in rows : r.lastSeenTag = NewLastTold(r.id)
      BY <1>0, <2>2, <2>3
    <2>6. \A q \in Held : q.lastSeenTag = NewLastTold(q.id)
      BY <1>0, <2>3, <2>4
    <2> QED
      BY <1>0, <2>1, <2>5, <2>6 DEF Held, LastTold, NewLastTold
  <1>11. CASE PublishFails
    BY <1>11 DEF PublishFails, table, history, LastTold, Held
  <1>12. CASE CompensateOk
    <2>1. /\ saga' = NoRow /\ saga \in Row /\ saga.lastSeenTag \in Tags
          /\ UNCHANGED <<stopping, todo, batch, tag, told>>
      BY <1>0, <1>12 DEF CompensateOk, history, Row
    <2>2. Recorded(saga.id, saga.lastSeenTag)
      BY <1>0, <1>12, <2>1, SetTagRecorded DEF CompensateOk
    <2>3. \A q \in Held : q.id # saga.id
      BY DEF IInv, SnapshotInv
    <2> QED
      BY <1>0, <2>1, <2>2, <2>3 DEF Recorded, LastTold, Held
  <1>13. CASE GroupDone \/ RunDone
    BY <1>0, <1>13 DEF GroupDone, RunDone, table, history, LastTold, Held
  <1>14. /\ ~ CompensateFails /\ ~ Stop /\ ~ Restart /\ ~ Crash
         /\ \A r \in batch : ~ UpdateReplyLost(r)
    BY DEF CompensateFails, Stop, Restart, Crash, UpdateReplyLost
  <1> QED
    BY <1>1, <1>2, <1>3, <1>4, <1>5, <1>6, <1>7, <1>8, <1>9, <1>10, <1>11, <1>12,
       <1>13, <1>14
    DEF Next, Environment, Scan, Release, ApiLookup, Expire, vars, table

-----------------------------------------------------------------------------
(* When no lookup answers with an earlier release, what the cache serves   *)
(* for a repository never goes back, and everything recorded or told is    *)
(* at most that; the rows in hand are strictly behind the tag in hand.     *)
Floor(repo) == IF cached[repo] = NoEntry THEN latest[repo] ELSE cached[repo]

Behind(q, t) == LastTold(q.id) <= q.lastSeenTag /\ q.lastSeenTag <= t

OrderInv ==
    /\ \A repo \in Repos : cached[repo] <= latest[repo]
    /\ \A q \in rows \cup todo : Behind(q, Floor(q.repo))
    /\ \A q \in batch : Behind(q, tag - 1) /\ tag <= Floor(q.repo)
    /\ saga \in Row => Behind(saga, tag - 1) /\ tag <= Floor(saga.repo)
    /\ pc = "publish" => \A r \in rows : r.id = saga.id => r.lastSeenTag = tag
    /\ NotifiedInReleaseOrder

(* Init establishes it.                                                    *)
LEMMA InitOrderInv == Init => OrderInv
  <1>1. NoRow \notin Row
    BY DEF NoRow, Row
  <1>2. ASSUME Init PROVE \A repo \in Repos : cached[repo] <= latest[repo]
    BY <1>2 DEF Init, NoEntry, Tags
  <1>3. Init => NotifiedInReleaseOrder
    BY DEF Init, NotifiedInReleaseOrder
  <1> QED
    BY <1>1, <1>2, <1>3 DEF Init, OrderInv

(* What the proof needs of the types: tags are integers, Floor one of them. *)
LEMMA OrderFacts ==
    ASSUME IInv
    PROVE  /\ tag \in Int
           /\ \A q \in rows \cup Held : /\ q.repo \in Repos /\ q.lastSeenTag \in Int
                                      /\ LastTold(q.id) \in Int
           /\ saga \in Row => /\ saga.repo \in Repos /\ saga.lastSeenTag \in Int
                              /\ LastTold(saga.id) \in Int
           /\ \A repo \in Repos : /\ latest[repo] \in Int /\ latest[repo] >= 0
                                  /\ cached[repo] \in Int /\ Floor(repo) \in Int
  <1>1. Tags \subseteq Int /\ \A t \in Tags : t >= 0
    BY DEF Tags
  <1>2. /\ latest \in [Repos -> Tags] /\ cached \in [Repos -> Tags \cup {NoEntry}]
        /\ NoEntry \in Int
    BY DEF IInv, TypeOK, NoEntry
  <1>3. \A q \in Row : q.repo \in Repos /\ q.lastSeenTag \in Tags
    BY DEF Row
  <1>4. \A id \in Ids : id < nextId => LastTold(id) \in Tags
    <2>1. ASSUME NEW s \in Seq(Tags), s # <<>> PROVE s[Len(s)] \in Tags
      BY <2>1
    <2> QED
      BY <2>1, IInvFacts DEF LastTold
  <1>5. \A repo \in Repos : Floor(repo) \in Int
    BY <1>1, <1>2 DEF Floor
  <1> QED
    BY <1>1, <1>2, <1>3, <1>4, <1>5, IInvFacts

(* The floor of a repository never sinks.                                  *)
LEMMA FloorRises ==
    ASSUME "staleTag" \notin Faults, IInv, OrderInv, [Next]_vars
    PROVE  /\ \A repo \in Repos : Floor(repo)' >= Floor(repo)
           /\ \A repo \in Repos : cached'[repo] <= latest'[repo]
  <1> SUFFICES ASSUME NEW repo \in Repos
               PROVE  Floor(repo)' >= Floor(repo) /\ cached'[repo] <= latest'[repo]
    OBVIOUS
  <1>0. /\ latest \in [Repos -> Tags] /\ cached \in [Repos -> Tags \cup {NoEntry}]
        /\ latest[repo] \in Int /\ latest[repo] >= 0 /\ cached[repo] \in Int
        /\ cached[repo] <= latest[repo]
    BY OrderFacts DEF IInv, TypeOK, OrderInv
  <1>1. CASE UNCHANGED <<latest, cached>>
    BY <1>0, <1>1 DEF Floor
  <1>2. ASSUME NEW r \in Repos, Release(r)
        PROVE  Floor(repo)' >= Floor(repo) /\ cached'[repo] <= latest'[repo]
    BY <1>0, <1>2 DEF Release, Floor
  <1>3. ASSUME NEW r \in Repos, Expire(r)
        PROVE  Floor(repo)' >= Floor(repo) /\ cached'[repo] <= latest'[repo]
    BY <1>0, <1>3 DEF Expire, Floor, NoEntry
  <1>4. ASSUME NEW r \in Repos, NEW t \in Tags, t \in Served(r),
               cached' = [cached EXCEPT ![r] = t], latest' = latest
        PROVE  Floor(repo)' >= Floor(repo) /\ cached'[repo] <= latest'[repo]
    BY <1>0, <1>4 DEF Served, Floor, NoEntry, Tags
  <1>5. ASSUME NEW r \in Repos, NEW t \in Tags, ApiLookup(r, t) \/ LookupOk(r, t)
        PROVE  Floor(repo)' >= Floor(repo) /\ cached'[repo] <= latest'[repo]
    BY <1>4, <1>5 DEF ApiLookup, LookupOk
  <1> QED
    BY <1>1, <1>2, <1>3, <1>5
    DEF Next, Environment, Scan, Subscribe, Confirm, Remove, ListConfirmedForScan,
        LookupSkips, UpdateOk, UpdateFails, UpdateReplyLost, PublishOk, PublishFails,
        CompensateOk, CompensateFails, GroupDone, RunDone, Stop, Restart, Crash, vars

(* Every action keeps the order of the events when no lookup answers with  *)
(* an earlier release.                                                     *)
LEMMA NextOrderInv ==
    ASSUME "staleTag" \notin Faults, IInv, OrderInv, [Next]_vars
    PROVE  OrderInv'
  <1> DEFINE NewLastTold(id) == told'[id][Len(told'[id])]
             Behind2(q, t) == NewLastTold(q.id) <= q.lastSeenTag /\ q.lastSeenTag <= t
             Goal == /\ \A q \in rows' \cup todo' : Behind2(q, Floor(q.repo))
                     /\ \A q \in batch' : Behind2(q, tag' - 1) /\ tag' <= Floor(q.repo)
                     /\ saga' \in Row => Behind2(saga', tag' - 1) /\ tag' <= Floor(saga'.repo)
                     /\ pc' = "publish" => \A r \in rows' : r.id = saga'.id => r.lastSeenTag = tag'
                     /\ NotifiedInReleaseOrder'
  <1>0. /\ rows \subseteq Row /\ todo \subseteq Row /\ batch \subseteq Row
        /\ nextId \in Nat /\ nextId >= 1 /\ tag \in Tags /\ tag \in Int
        /\ saga \in Row \cup {NoRow} /\ NoRow \notin Row /\ NoRow.id = 0
        /\ pc \in {"publish", "compensate"} <=> saga \in Row
        /\ \A r \in rows \cup Held : r.id \in Ids /\ r.id < nextId
        /\ saga \in Row => saga.id \in Ids /\ saga.id < nextId
        /\ told \in [Ids -> Seq(Tags)]
        /\ Tags \subseteq Int
    BY IInvFacts, OrderFacts DEF Held, Tags
  <1>f. /\ \A q \in rows \cup Held : /\ q.repo \in Repos /\ q.lastSeenTag \in Int
                                    /\ LastTold(q.id) \in Int
        /\ saga \in Row => /\ saga.repo \in Repos /\ saga.lastSeenTag \in Int
                           /\ LastTold(saga.id) \in Int
        /\ \A repo \in Repos : Floor(repo) \in Int
    BY OrderFacts
  <1>i. /\ \A q \in rows \cup todo : LastTold(q.id) <= q.lastSeenTag /\ q.lastSeenTag <= Floor(q.repo)
        /\ \A q \in batch : /\ LastTold(q.id) <= q.lastSeenTag /\ q.lastSeenTag <= tag - 1
                            /\ tag <= Floor(q.repo)
        /\ saga \in Row => /\ LastTold(saga.id) <= saga.lastSeenTag
                           /\ saga.lastSeenTag <= tag - 1 /\ tag <= Floor(saga.repo)
        /\ pc = "publish" => \A r \in rows : r.id = saga.id => r.lastSeenTag = tag
        /\ NotifiedInReleaseOrder
    BY DEF OrderInv, Behind
  <1>s. ASSUME Goal PROVE OrderInv'
    <2> DEFINE F(repo) == IF cached'[repo] = NoEntry THEN latest'[repo] ELSE cached'[repo]
    <2>1. /\ \A repo \in Repos : F(repo) >= Floor(repo)
          /\ \A repo \in Repos : cached'[repo] <= latest'[repo]
      BY FloorRises DEF Floor
    <2>2. /\ rows' \subseteq Row /\ todo' \subseteq Row /\ batch' \subseteq Row
          /\ tag' \in Int
          /\ latest' \in [Repos -> Tags] /\ cached' \in [Repos -> Tags \cup {NoEntry}]
      BY <1>0, NextTypeOK DEF TypeOK
    <2>3. \A repo \in Repos : F(repo) \in Int
      BY <1>0, <2>2 DEF NoEntry
    <2>4. \A q \in Row : q.repo \in Repos /\ q.lastSeenTag \in Int
      BY <1>0 DEF Row
    <2> HIDE DEF F
    <2>5. \A q \in Row, t \in Int : t <= Floor(q.repo) => t <= F(q.repo)
      BY <1>f, <2>1, <2>3, <2>4
    <2> HIDE DEF NewLastTold
    <2>6. \A q \in rows' \cup todo' : Behind2(q, F(q.repo))
      BY <1>s, <2>2, <2>4, <2>5
    <2>7. \A q \in batch' : Behind2(q, tag' - 1) /\ tag' <= F(q.repo)
      BY <1>s, <2>2, <2>5
    <2>8. saga' \in Row => Behind2(saga', tag' - 1) /\ tag' <= F(saga'.repo)
      BY <1>s, <2>2, <2>5
    <2> QED
      BY <1>s, <2>1, <2>6, <2>7, <2>8 DEF OrderInv, Behind, LastTold, Floor, F, NewLastTold
  <1> SUFFICES Goal
    BY <1>s
  <1>1. CASE UNCHANGED <<rows, nextId, run, history>>
    BY <1>i, <1>1 DEF run, history, LastTold, NotifiedInReleaseOrder
  <1>2. ASSUME NEW email \in Emails, NEW repo \in Repos, NEW t \in Tags,
               Subscribe(email, repo, t)
        PROVE  Goal
    <2> DEFINE new == [id |-> nextId, email |-> email, repo |-> repo,
                       confirmed |-> FALSE, lastSeenTag |-> t]
    <2>1. /\ new.id = nextId /\ new.lastSeenTag = t /\ new.repo = repo
          /\ rows' = rows \cup {new}
          /\ UNCHANGED <<pc, tag, saga, todo, batch>>
      BY <1>2 DEF Subscribe, InsertRow, run
    <2>2. t <= Floor(repo)
      BY <1>2, <1>f DEF Subscribe, Served, Floor
    <2>3. NewLastTold(nextId) = t /\ told'[nextId] = <<t>>
      BY <1>0, <1>2 DEF Subscribe, Ids
    <2>4. \A id \in Ids : id # nextId => told'[id] = told[id]
      BY <1>0, <1>2 DEF Subscribe
    <2>5. NotifiedInReleaseOrder'
      BY <1>i, <2>3, <2>4 DEF NotifiedInReleaseOrder
    <2>6. /\ \A q \in rows \cup Held : q.id # nextId /\ NewLastTold(q.id) = LastTold(q.id)
          /\ saga \in Row => NewLastTold(saga.id) = LastTold(saga.id)
          /\ saga.id # nextId
      BY <1>0, <2>4 DEF LastTold
    <2>7. t <= t
      BY <1>0
    <2> HIDE DEF new, NewLastTold
    <2> QED
      BY <1>i, <2>1, <2>2, <2>3, <2>5, <2>6, <2>7 DEF Held
  <1>3. ASSUME NEW id \in Ids, Confirm(id)
        PROVE  Goal
    <2>1. UNCHANGED <<pc, tag, saga, todo, batch, told>>
      BY <1>3 DEF Confirm, run, history
    <2>2. \A q \in rows' : \E r \in rows :
                q.id = r.id /\ q.repo = r.repo /\ q.lastSeenTag = r.lastSeenTag
      BY <1>0, <1>3, ConfirmKeepsTags DEF Confirm
    <2> QED
      BY <1>i, <2>1, <2>2 DEF LastTold, NotifiedInReleaseOrder
  <1>4. ASSUME NEW id \in Ids, Remove(id)
        PROVE  Goal
    BY <1>i, <1>4 DEF Remove, DeleteRow, run, history, LastTold, NotifiedInReleaseOrder
  <1>5. CASE ListConfirmedForScan
    BY <1>0, <1>i, <1>5 DEF ListConfirmedForScan, ConfirmedRows, table, history,
                            LastTold, NotifiedInReleaseOrder
  <1>6. ASSUME NEW repo \in Repos, NEW t \in Tags, LookupOk(repo, t)
        PROVE  Goal
    <2>1. t = Floor(repo)
      BY <1>6 DEF LookupOk, Served, Floor
    <2>2. /\ tag' = t /\ todo' = todo \ Group(repo) /\ pc = "groups" /\ pc' = "batch"
          /\ batch' = {r \in Group(repo) : r.lastSeenTag # t}
          /\ UNCHANGED <<rows, saga, told>>
      BY <1>6 DEF LookupOk, table, history
    <2>3. \A q \in batch' : q \in todo /\ q.repo = repo /\ q.lastSeenTag # t
      BY <2>2 DEF Group
    <2>4. \A q \in batch' : q.lastSeenTag <= t - 1
      BY <1>0, <1>f, <1>i, <2>1, <2>3 DEF Held
    <2>5. t <= t
      BY <1>0
    <2> QED
      BY <1>0, <1>i, <2>1, <2>2, <2>3, <2>4, <2>5 DEF LastTold, NotifiedInReleaseOrder
  <1>7. ASSUME NEW repo \in Repos, LookupSkips(repo)
        PROVE  Goal
    BY <1>i, <1>7 DEF LookupSkips, table, history, LastTold, NotifiedInReleaseOrder
  <1>8. ASSUME NEW r \in batch, UpdateOk(r) \/ UpdateReplyLost(r)
        PROVE  Goal
    <2>1. Recorded(r.id, tag)
      BY <1>0, <1>8, SetTagRecorded DEF UpdateOk, UpdateReplyLost
    <2>2. /\ batch' \subseteq batch /\ pc = "batch" /\ UNCHANGED <<todo, tag, told>>
          /\ (saga' = r) \/ (saga' = saga /\ pc' = pc)
      BY <1>8 DEF UpdateOk, UpdateReplyLost, history
    <2>3. \A p \in rows : p.id = r.id => p.repo = r.repo
      BY DEF IInv, ConfirmedInv, Held
    <2>4. LastTold(r.id) <= tag
      BY <1>0, <1>f, <1>i DEF Held
    <2>5. \A q \in rows' : Behind2(q, Floor(q.repo))
      BY <1>i, <2>1, <2>2, <2>3, <2>4 DEF Recorded, LastTold
    <2>6. pc' = "publish" => \A q \in rows' : q.id = saga'.id => q.lastSeenTag = tag'
      BY <2>1, <2>2 DEF Recorded
    <2> QED
      BY <1>0, <1>i, <2>2, <2>5, <2>6 DEF LastTold, NotifiedInReleaseOrder
  <1>9. ASSUME NEW r \in batch, UpdateFails(r)
        PROVE  Goal
    BY <1>i, <1>9 DEF UpdateFails, table, history, LastTold, NotifiedInReleaseOrder
  <1>10. CASE PublishOk
    <2>1. /\ saga' = NoRow /\ saga \in Row /\ saga.id \in Ids
          /\ told' = [told EXCEPT ![saga.id] = Append(@, tag)]
          /\ pc = "publish" /\ pc' = "batch"
          /\ UNCHANGED <<rows, todo, batch, tag>>
      BY <1>0, <1>10 DEF PublishOk, table
    <2>2. /\ told[saga.id] \in Seq(Tags) /\ told'[saga.id] = Append(told[saga.id], tag)
          /\ \A id \in Ids : id # saga.id => told'[id] = told[id]
      BY <1>0, <2>1
    <2>3. Len(told[saga.id]) \in Nat \ {0}
      BY <2>1, IInvFacts
    <2>4. NewLastTold(saga.id) = tag
      BY <1>0, <2>2, AppendFacts
    <2>5. LastTold(saga.id) < tag
      BY <1>0, <1>f, <1>i, <2>1
    <2>6. \A m, n \in 1 .. Len(told'[saga.id]) :
            m < n => told'[saga.id][m] < told'[saga.id][n]
      <3> DEFINE s == told[saga.id]
      <3>a. /\ Len(told'[saga.id]) = Len(s) + 1 /\ told'[saga.id][Len(s) + 1] = tag
            /\ \A i \in 1 .. Len(s) : told'[saga.id][i] = s[i]
        BY <1>0, <2>2, AppendFacts
      <3>b. \A i \in 1 .. Len(s) : s[i] \in Int
        <4>1. ASSUME NEW u \in Seq(Tags) PROVE \A i \in 1 .. Len(u) : u[i] \in Tags
          OBVIOUS
        <4> QED
          BY <1>0, <2>2, <4>1
      <3>1. /\ Len(told'[saga.id]) = Len(s) + 1 /\ told'[saga.id][Len(s) + 1] = tag
            /\ \A i \in 1 .. Len(s) : told'[saga.id][i] = s[i] /\ s[i] \in Int
        BY <3>a, <3>b
      <3>2. \A m, n \in 1 .. Len(s) : m < n => s[m] < s[n]
        BY <1>i, <2>1 DEF NotifiedInReleaseOrder
      <3>3. s[Len(s)] < tag
        BY <2>5 DEF LastTold
      <3>4. \A m \in 1 .. Len(s) : s[m] < tag
        BY <1>0, <2>3, <3>1, <3>2, <3>3
      <3> HIDE DEF s
      <3> QED
        BY <2>3, <3>1, <3>2, <3>4
    <2>7. NotifiedInReleaseOrder'
      BY <1>i, <2>1, <2>2, <2>6 DEF NotifiedInReleaseOrder
    <2>8. \A id \in Ids : id # saga.id => NewLastTold(id) = LastTold(id)
      BY <2>2 DEF LastTold
    <2>9. \A q \in Held : q.id # saga.id
      BY DEF IInv, SnapshotInv
    <2>10. tag <= tag
      BY <1>0
    <2> HIDE DEF NewLastTold
    <2>11. \A q \in rows : NewLastTold(q.id) <= q.lastSeenTag
      BY <1>0, <1>i, <2>1, <2>4, <2>8, <2>10
    <2>12. \A q \in todo \cup batch : NewLastTold(q.id) <= q.lastSeenTag
      BY <1>0, <1>i, <2>8, <2>9 DEF Held
    <2> QED
      BY <1>0, <1>i, <2>1, <2>7, <2>11, <2>12
  <1>11. CASE PublishFails
    BY <1>i, <1>0, <1>11 DEF PublishFails, table, history, LastTold, NotifiedInReleaseOrder
  <1>12. CASE CompensateOk
    <2>1. /\ saga' = NoRow /\ saga \in Row /\ saga.lastSeenTag \in Tags
          /\ pc' = "batch" /\ UNCHANGED <<todo, batch, tag, told>>
      BY <1>0, <1>12 DEF CompensateOk, history, Row
    <2>2. Recorded(saga.id, saga.lastSeenTag)
      BY <1>0, <1>12, <2>1, SetTagRecorded DEF CompensateOk
    <2>3. \A p \in rows : p.id = saga.id => p.repo = saga.repo
      BY DEF IInv, ConfirmedInv
    <2>4. saga.lastSeenTag <= Floor(saga.repo)
      BY <1>0, <1>f, <1>i, <2>1
    <2>5. \A q \in rows' : Behind2(q, Floor(q.repo))
      BY <1>i, <2>1, <2>2, <2>3, <2>4 DEF Recorded, LastTold
    <2> QED
      BY <1>0, <1>i, <2>1, <2>5 DEF LastTold, NotifiedInReleaseOrder
  <1>13. CASE CompensateFails
    BY <1>0, <1>i, <1>13 DEF CompensateFails, table, history, LastTold, NotifiedInReleaseOrder
  <1>14. CASE GroupDone \/ RunDone
    <2>1. batch = {} /\ saga = NoRow
      BY <1>0, <1>14 DEF GroupDone, RunDone, IInv, SnapshotInv
    <2> QED
      BY <1>0, <1>i, <1>14, <2>1 DEF GroupDone, RunDone, table, history, LastTold,
                                 NotifiedInReleaseOrder
  <1>15. CASE Crash
    BY <1>0, <1>i, <1>15 DEF Crash, table, history, LastTold, NotifiedInReleaseOrder
  <1> QED
    BY <1>1, <1>2, <1>3, <1>4, <1>5, <1>6, <1>7, <1>8, <1>9, <1>10, <1>11, <1>12,
       <1>13, <1>14, <1>15
    DEF Next, Environment, Scan, Release, ApiLookup, Expire, Stop, Restart, vars, table

-----------------------------------------------------------------------------
(* When the saga comes to publish, the tag in hand is on record.           *)
RecordedInv == pc = "publish" => \A r \in rows : r.id = saga.id => r.lastSeenTag = tag

(* Every action keeps it, whatever goes wrong.                             *)
LEMMA NextRecordedInv ==
    ASSUME IInv, RecordedInv, [Next]_vars
    PROVE  RecordedInv'
  <1> USE DEF RecordedInv
  <1>0. /\ rows \subseteq Row /\ tag \in Tags
        /\ pc = "publish" => saga.id < nextId /\ saga.id # nextId
    BY IInvFacts
  <1>1. CASE pc' # "publish"
    BY <1>1
  <1>3. ASSUME NEW email \in Emails, NEW repo \in Repos, NEW t \in Tags,
               Subscribe(email, repo, t)
        PROVE  RecordedInv'
    <2>1. /\ UNCHANGED <<pc, saga, tag>>
          /\ \A q \in rows' : q \in rows \/ q.id = nextId
      BY <1>3 DEF Subscribe, InsertRow, run
    <2> QED
      BY <1>0, <2>1
  <1>4. ASSUME NEW id \in Ids, Confirm(id)
        PROVE  RecordedInv'
    <2>1. UNCHANGED <<pc, saga, tag>>
      BY <1>4 DEF Confirm, run
    <2> QED
      BY <1>0, <1>4, <2>1, ConfirmKeepsTags DEF Confirm
  <1>5. ASSUME NEW id \in Ids, Remove(id)
        PROVE  RecordedInv'
    BY <1>5 DEF Remove, DeleteRow, run
  <1>6. ASSUME NEW r \in batch, UpdateOk(r)
        PROVE  RecordedInv'
    <2>1. Recorded(r.id, tag)
      BY <1>0, <1>6, SetTagRecorded DEF UpdateOk
    <2>2. saga' = r /\ tag' = tag
      BY <1>6 DEF UpdateOk
    <2> QED
      BY <2>1, <2>2 DEF Recorded
  <1>7. ASSUME NEW r \in batch, UpdateFails(r) \/ UpdateReplyLost(r)
        PROVE  pc' # "publish"
    BY <1>7 DEF UpdateFails, UpdateReplyLost
  <1>8. CASE \/ ListConfirmedForScan \/ PublishOk \/ PublishFails \/ CompensateOk
             \/ CompensateFails \/ GroupDone \/ RunDone \/ Crash
    BY <1>1, <1>8 DEF ListConfirmedForScan, PublishOk, PublishFails, CompensateOk,
                      CompensateFails, GroupDone, RunDone, Crash
  <1>9. ASSUME NEW repo \in Repos,
               (\E t \in Tags : LookupOk(repo, t)) \/ LookupSkips(repo)
        PROVE  pc' # "publish"
    BY <1>9 DEF LookupOk, LookupSkips
  <1>10. CASE \/ \E repo \in Repos : \/ Release(repo) \/ Expire(repo)
                                     \/ \E t \in Tags : ApiLookup(repo, t)
              \/ Stop \/ Restart \/ UNCHANGED vars
    BY <1>10 DEF Release, Expire, ApiLookup, Stop, Restart, vars, table, run
  <1> QED
    BY <1>1, <1>3, <1>4, <1>5, <1>6, <1>7, <1>8, <1>9, <1>10
    DEF Next, Environment, Scan

(* What a step may do to the history of events.                            *)
LEMMA ToldSteps ==
    ASSUME [Next]_vars
    PROVE  \/ PublishOk
           \/ \E email \in Emails, repo \in Repos, t \in Tags : Subscribe(email, repo, t)
           \/ told' = told
  BY DEF Next, Environment, Scan, Release, Expire, ApiLookup, Confirm, Remove,
         ListConfirmedForScan, LookupOk, LookupSkips, UpdateOk, UpdateFails,
         UpdateReplyLost, PublishFails, CompensateOk, CompensateFails, GroupDone,
         RunDone, Stop, Restart, Crash, vars, history

(* Only the saga publishes: other steps leave what a row was told alone or *)
(* give a new row its baseline.                                            *)
LEMMA WhoPublishes ==
    ASSUME IInv, Next, NEW id \in Ids, told[id] # <<>>, told'[id] # told[id]
    PROVE  PublishOk /\ saga.id = id /\ LastTold(id)' = tag
  <1>0. /\ told \in [Ids -> Seq(Tags)] /\ tag \in Tags
        /\ id # nextId
    <2>1. nextId \in Nat /\ (told[id] = <<>> <=> id >= nextId) /\ id \in Nat
      BY IInvFacts, ScannerAssumption DEF IInv, Ids
    <2> QED
      BY <2>1, IInvFacts
  <1>1. ASSUME NEW email \in Emails, NEW repo \in Repos, NEW t \in Tags,
               Subscribe(email, repo, t)
        PROVE  FALSE
    <2>1. told' = [told EXCEPT ![nextId] = <<t>>] /\ nextId # id
      BY <1>0, <1>1 DEF Subscribe
    <2> QED
      BY <1>0, <2>1
  <1>2. CASE PublishOk
    <2>1. told' = [told EXCEPT ![saga.id] = Append(@, tag)]
      BY <1>2 DEF PublishOk
    <2>2. saga.id = id
      BY <1>0, <2>1
    <2>3. told[id] \in Seq(Tags) /\ told'[id] = Append(told[id], tag)
      BY <1>0, <2>1, <2>2
    <2> QED
      BY <1>0, <1>2, <2>2, <2>3, AppendFacts DEF LastTold
  <1> QED
    BY <1>1, <1>2, ToldSteps

-----------------------------------------------------------------------------
(* SeenOutside for a given table and saga.                                 *)
SeenIn(t, s, id) ==
    IF ~ HasRow(t, id) THEN NoEntry
    ELSE IF s.id = id THEN s.lastSeenTag
    ELSE (CHOOSE r \in t : r.id = id).lastSeenTag

SeensIn(t, s) == [i \in Ids |-> SeenIn(t, s, i)]

(* What a row shows from outside: its tag, or while the saga works on it   *)
(* the tag the saga started from.                                          *)
Shows(r, s) == IF s.id = r.id THEN s.lastSeenTag ELSE r.lastSeenTag

(* The one row with an id decides what is seen of it.                      *)
LEMMA SeenRow ==
    ASSUME NEW t, UniqueIds(t), NEW s, NEW r \in t
    PROVE  SeenIn(t, s, r.id) = Shows(r, s)
  <1>1. (CHOOSE q \in t : q.id = r.id) = r
    BY DEF UniqueIds
  <1>2. HasRow(t, r.id)
    BY DEF HasRow
  <1> QED
    BY <1>1, <1>2 DEF SeenIn, Shows

(* Two tables with a row that shows the same tag for an id, or none in     *)
(* either, agree on what is seen of it.                                    *)
LEMMA SameSeen ==
    ASSUME NEW old, NEW new, UniqueIds(old), UniqueIds(new), NEW s, NEW s2, NEW id,
           HasRow(new, id) <=> HasRow(old, id),
           \A q \in new : q.id = id =>
               \E r \in old : r.id = id /\ Shows(q, s2) = Shows(r, s)
    PROVE  SeenIn(new, s2, id) = SeenIn(old, s, id)
  <1>1. CASE ~ HasRow(old, id)
    BY <1>1 DEF SeenIn
  <1>2. CASE HasRow(old, id)
    <2>1. PICK q \in new : q.id = id
      BY <1>2 DEF HasRow
    <2>2. PICK r \in old : r.id = id /\ Shows(q, s2) = Shows(r, s)
      BY <2>1
    <2>3. SeenIn(new, s2, id) = Shows(q, s2)
      BY <2>1, SeenRow
    <2>4. SeenIn(old, s, id) = Shows(r, s)
      BY <2>2, SeenRow
    <2> QED
      BY <2>2, <2>3, <2>4
  <1> QED
    BY <1>1, <1>2

(* Every step of the scanner and its environment is a step of the ledger   *)
(* or leaves it alone, when no call has a hidden effect or goes back.      *)
LEMMA NextRefinesLedger ==
    ASSUME Faults = {}, IInv, AtomicInv, OrderInv, [Next]_vars
    PROVE  [Ledger!Next]_<<[i \in Ids |-> SeenOutside(i)], told>>
  <1> DEFINE seen == SeensIn(rows, saga)
             seen2 == SeensIn(rows', saga')
             Stutter == seen2 = seen /\ told' = told
             Goal == Stutter \/ Ledger!Next
  <1>m. /\ [i \in Ids |-> SeenOutside(i)] = seen
        /\ [i \in Ids |-> SeenOutside(i)]' = seen2
    BY DEF SeensIn, SeenIn, SeenOutside, InSaga
  <1>a. \A i \in Ids : Ledger!Leave(i) <=>
            seen2 = [seen EXCEPT ![i] = NoEntry] /\ told' = told
    BY <1>m DEF Ledger!Leave, Ledger!Absent, NoEntry
  <1>b. \A i \in Ids, t \in Tags : Ledger!Enrol(i, t) <=>
            /\ told[i] = <<>>
            /\ seen2 = [seen EXCEPT ![i] = t]
            /\ told' = [told EXCEPT ![i] = <<t>>]
    BY <1>m DEF Ledger!Enrol
  <1>c. \A i \in Ids, t \in Tags : Ledger!Notify(i, t) <=>
            /\ told[i] # <<>>
            /\ t > LastTold(i)
            /\ told' = [told EXCEPT ![i] = Append(@, t)]
            /\ seen2 = [seen EXCEPT ![i] = IF @ = NoEntry THEN NoEntry ELSE t]
    BY <1>m DEF Ledger!Notify, Ledger!Absent, NoEntry, LastTold
  <1> SUFFICES Goal
    BY <1>m
  <1>d. Ledger!Next <=> \E i \in Ids : \/ Ledger!Leave(i)
                                       \/ \E t \in Tags : Ledger!Enrol(i, t) \/ Ledger!Notify(i, t)
    BY DEF Ledger!Next
  <1>0. /\ rows \subseteq Row /\ Held \subseteq Row
        /\ nextId \in Nat /\ nextId >= 1 /\ tag \in Tags
        /\ saga \in Row \cup {NoRow} /\ NoRow \notin Row /\ NoRow.id = 0
        /\ pc \in {"publish", "compensate"} <=> saga \in Row
        /\ \A r \in rows \cup Held : r.id \in Ids /\ r.id < nextId
        /\ saga \in Row => saga.id \in Ids /\ saga.id < nextId
        /\ \A r \in rows : r.id # NoRow.id
        /\ 0 \notin Ids
    BY IInvFacts DEF Ids
  <1>u. UniqueIds(rows) /\ UniqueIds(rows')
    BY NextIInv DEF IInv, SnapshotInv
  <1> HIDE DEF seen, seen2
  <1>s. ASSUME told' = told,
               \A i \in Ids : SeenIn(rows', saga', i) = SeenIn(rows, saga, i)
        PROVE  Goal
    BY <1>s DEF seen, seen2, SeensIn
  <1>1. CASE UNCHANGED <<rows, saga, told>>
    BY <1>1, <1>s
  <1>2. ASSUME NEW email \in Emails, NEW repo \in Repos, NEW t \in Tags,
               Subscribe(email, repo, t)
        PROVE  Goal
    <2> DEFINE new == [id |-> nextId, email |-> email, repo |-> repo,
                       confirmed |-> FALSE, lastSeenTag |-> t]
    <2>1. /\ new.id = nextId /\ new.lastSeenTag = t /\ nextId \in Ids
          /\ rows' = rows \cup {new} /\ saga' = saga
          /\ told' = [told EXCEPT ![nextId] = <<t>>]
      BY <1>0, <1>2 DEF Subscribe, InsertRow, run, Ids
    <2> HIDE DEF new
    <2>2. told[nextId] = <<>>
      BY <1>0, <2>1 DEF IInv
    <2>3. saga.id # nextId
      BY <1>0, <2>1
    <2>4. SeenIn(rows', saga', nextId) = t
      BY <1>u, <2>1, <2>3, SeenRow DEF Shows
    <2>5. \A i \in Ids \ {nextId} : SeenIn(rows', saga', i) = SeenIn(rows, saga, i)
      <3> TAKE i \in Ids \ {nextId}
      <3>1. HasRow(rows', i) <=> HasRow(rows, i)
        BY <2>1 DEF HasRow
      <3>2. \A q \in rows' : q.id = i => q \in rows
        BY <2>1
      <3> QED
        BY <1>u, <2>1, <3>1, <3>2, SameSeen
    <2>6. seen2 = [seen EXCEPT ![nextId] = t]
      BY <2>4, <2>5 DEF seen, seen2, SeensIn
    <2> QED
      BY <1>b, <1>d, <2>1, <2>2, <2>6
  <1>3. ASSUME NEW id \in Ids, Confirm(id)
        PROVE  Goal
    <2>1. UNCHANGED <<saga, told>>
      BY <1>3 DEF Confirm, run, history
    <2>2. \A q \in rows' : \E r \in rows : q.id = r.id /\ q.lastSeenTag = r.lastSeenTag
      BY <1>0, <1>3, ConfirmKeepsTags DEF Confirm
    <2>3. \A i : HasRow(rows', i) <=> HasRow(rows, i)
      BY <1>3, ConfirmSameRows DEF Confirm, SameRows
    <2>4. \A i \in Ids : SeenIn(rows', saga', i) = SeenIn(rows, saga, i)
      <3> TAKE i \in Ids
      <3>1. \A q \in rows' : q.id = i => \E r \in rows : r.id = i /\ Shows(q, saga') = Shows(r, saga)
        BY <2>1, <2>2 DEF Shows
      <3> QED
        BY <1>u, <2>3, <3>1, SameSeen
    <2> QED
      BY <1>s, <2>1, <2>4
  <1>4. ASSUME NEW id \in Ids, Remove(id)
        PROVE  Goal
    <2>1. rows' = {r \in rows : r.id # id} /\ UNCHANGED <<saga, told>>
      BY <1>4 DEF Remove, DeleteRow, run, history
    <2>2. SeenIn(rows', saga', id) = NoEntry
      BY <2>1 DEF SeenIn, HasRow
    <2>3. \A i \in Ids \ {id} : SeenIn(rows', saga', i) = SeenIn(rows, saga, i)
      <3> TAKE i \in Ids \ {id}
      <3>1. HasRow(rows', i) <=> HasRow(rows, i)
        BY <2>1 DEF HasRow
      <3>2. \A q \in rows' : q \in rows
        BY <2>1
      <3> QED
        BY <1>u, <2>1, <3>1, <3>2, SameSeen
    <2>4. seen2 = [seen EXCEPT ![id] = NoEntry]
      BY <2>2, <2>3 DEF seen, seen2, SeensIn
    <2> QED
      BY <1>a, <1>d, <2>1, <2>4
  <1>5. ASSUME NEW r \in batch, UpdateOk(r)
        PROVE  Goal
    <2>1. /\ saga' = r /\ told' = told /\ saga = NoRow
          /\ rows' = SetTag(rows, r.id, tag)
      BY <1>0, <1>5 DEF UpdateOk, history
    <2>2. Recorded(r.id, tag) /\ \A i : HasRow(rows', i) <=> HasRow(rows, i)
      BY <1>0, <2>1, SetTagRecorded, SetTagSameRows DEF SameRows
    <2>3. \A q \in rows : /\ q.id # saga.id
                          /\ q.id = r.id => q.lastSeenTag = r.lastSeenTag
      BY <1>0, <2>1 DEF AtomicInv, LastSeenIsLastTold, InSaga, Held
    <2>4. \A i \in Ids : SeenIn(rows', saga', i) = SeenIn(rows, saga, i)
      <3> TAKE i \in Ids
      <3>1. \A q \in rows' : q.id = i => \E p \in rows : p.id = i /\ Shows(q, saga') = Shows(p, saga)
        BY <2>1, <2>2, <2>3 DEF Shows, Recorded
      <3> QED
        BY <1>u, <2>2, <3>1, SameSeen
    <2> QED
      BY <1>s, <2>1, <2>4
  <1>6. CASE PublishOk
    <2>1. /\ saga' = NoRow /\ saga \in Row /\ saga.id \in Ids /\ saga.id < nextId
          /\ told' = [told EXCEPT ![saga.id] = Append(@, tag)]
          /\ rows' = rows
      BY <1>0, <1>6 DEF PublishOk, table
    <2>2. told[saga.id] # <<>> /\ tag > LastTold(saga.id)
      BY <2>1, IInvFacts, OrderFacts DEF OrderInv, Behind
    <2>3. \A q \in rows : q.id = saga.id => q.lastSeenTag = tag
      BY DEF AtomicInv
    <2>4. \A i \in Ids \ {saga.id} : SeenIn(rows', saga', i) = SeenIn(rows, saga, i)
      <3> TAKE i \in Ids \ {saga.id}
      <3>1. \A q \in rows' : q.id = i => q \in rows /\ Shows(q, saga') = Shows(q, saga)
        BY <1>0, <2>1 DEF Shows
      <3> QED
        BY <1>u, <2>1, <3>1, SameSeen
    <2>5. SeenIn(rows', saga', saga.id) =
              IF SeenIn(rows, saga, saga.id) = NoEntry THEN NoEntry ELSE tag
      <3>1. CASE ~ HasRow(rows, saga.id)
        BY <2>1, <3>1 DEF SeenIn
      <3>2. ASSUME NEW r \in rows, r.id = saga.id
            PROVE  /\ SeenIn(rows', saga', saga.id) = tag
                   /\ SeenIn(rows, saga, saga.id) = saga.lastSeenTag
        BY <1>0, <1>u, <2>1, <2>3, <3>2, SeenRow DEF Shows
      <3>3. saga.lastSeenTag # NoEntry
        BY <2>1, MaxTagAssumption DEF Row, Tags, NoEntry
      <3> QED
        BY <3>1, <3>2, <3>3 DEF HasRow
    <2>6. seen2 = [seen EXCEPT ![saga.id] = IF @ = NoEntry THEN NoEntry ELSE tag]
      BY <2>1, <2>4, <2>5 DEF seen, seen2, SeensIn
    <2> QED
      BY <1>0, <1>c, <1>d, <2>1, <2>2, <2>6
  <1>7. CASE CompensateOk
    <2>1. /\ saga' = NoRow /\ told' = told /\ saga \in Row /\ saga.lastSeenTag \in Tags
          /\ rows' = SetTag(rows, saga.id, saga.lastSeenTag)
      BY <1>0, <1>7 DEF CompensateOk, history, Row
    <2>2. Recorded(saga.id, saga.lastSeenTag) /\ \A i : HasRow(rows', i) <=> HasRow(rows, i)
      BY <1>0, <2>1, SetTagRecorded, SetTagSameRows DEF SameRows
    <2>3. \A i \in Ids : SeenIn(rows', saga', i) = SeenIn(rows, saga, i)
      <3> TAKE i \in Ids
      <3>1. \A q \in rows' : q.id = i => \E p \in rows : p.id = i /\ Shows(q, saga') = Shows(p, saga)
        BY <1>0, <2>1, <2>2 DEF Shows, Recorded
      <3> QED
        BY <1>u, <2>2, <3>1, SameSeen
    <2> QED
      BY <1>s, <2>1, <2>3
  <1>8. /\ ~ CompensateFails /\ ~ Stop /\ ~ Restart /\ ~ Crash
        /\ \A r \in batch : ~ UpdateReplyLost(r)
    BY DEF AtomicInv, CompensateFails, Stop, Restart, Crash, UpdateReplyLost
  <1> QED
    BY <1>1, <1>2, <1>3, <1>4, <1>5, <1>6, <1>7, <1>8
    DEF Next, Environment, Scan, Release, ApiLookup, Expire, ListConfirmedForScan,
        LookupOk, LookupSkips, UpdateFails, PublishFails, GroupDone, RunDone,
        vars, table, run, history

-----------------------------------------------------------------------------
(* Every variable keeps its type, whatever goes wrong.                     *)
THEOREM TypeCorrect == Spec => []TypeOK
  <1>1. IInv /\ [Next]_vars => IInv'
    BY NextIInv
  <1>2. IInv => TypeOK
    BY DEF IInv
  <1> QED
    BY InitIInv, <1>1, <1>2, PTL DEF Spec

(* No event is ever published for a subscription that was not confirmed,   *)
(* whatever goes wrong.                                                    *)
THEOREM OptInOnly == Spec => []PendingNeverNotified
  <1>1. IInv /\ [Next]_vars => IInv'
    BY NextIInv
  <1>2. IInv => PendingNeverNotified
    BY DEF IInv
  <1> QED
    BY InitIInv, <1>1, <1>2, PTL DEF Spec

(* A subscription that is gone gets one more event at most, whatever goes  *)
(* wrong.                                                                  *)
THEOREM QuietAfterLeaving == Spec => []QuietAfterUnsubscribe
  <1>1. IInv /\ [Next]_vars => IInv'
    BY NextIInv
  <1>2. IInv => QuietAfterUnsubscribe
    BY DEF IInv, StrayInv, QuietAfterUnsubscribe
  <1> QED
    BY InitIInv, <1>1, <1>2, PTL DEF Spec

(* When a call that fails has had no effect, no ctx is cancelled and the   *)
(* scanner stays up, the saga is atomic: the recorded tag is the last one  *)
(* told, also when lookups answer with earlier releases.                   *)
THEOREM SagaAtomicity ==
    ASSUME Faults \subseteq {"staleTag"}
    PROVE  Spec => []LastSeenIsLastTold
  <1>1. Init => IInv /\ AtomicInv
    BY InitIInv, InitAtomicInv
  <1>2. IInv /\ AtomicInv /\ [Next]_vars => (IInv /\ AtomicInv)'
    BY NextIInv, NextAtomicInv
  <1>3. AtomicInv => LastSeenIsLastTold
    BY DEF AtomicInv
  <1> QED
    BY <1>1, <1>2, <1>3, PTL DEF Spec

(* When no lookup answers with an earlier release, a subscriber is told of *)
(* releases in their order and of none twice: failures, lost replies,      *)
(* cancelled runs and crashes lose events but never repeat or reorder.     *)
THEOREM ReleaseOrder ==
    ASSUME "staleTag" \notin Faults
    PROVE  Spec => []NotifiedInReleaseOrder
  <1>1. Init => IInv /\ OrderInv
    BY InitIInv, InitOrderInv
  <1>2. IInv /\ OrderInv /\ [Next]_vars => (IInv /\ OrderInv)'
    BY NextIInv, NextOrderInv
  <1>3. OrderInv => NotifiedInReleaseOrder
    BY DEF OrderInv
  <1> QED
    BY <1>1, <1>2, <1>3, PTL DEF Spec

(* Under the same assumption the record never falls behind what was told,  *)
(* so no failure and no restart makes a release due a second time.         *)
THEOREM NeverDueAgain ==
    ASSUME "staleTag" \notin Faults
    PROVE  Spec => []RecordKeepsUp
  <1>1. Init => IInv /\ OrderInv
    BY InitIInv, InitOrderInv
  <1>2. IInv /\ OrderInv /\ [Next]_vars => (IInv /\ OrderInv)'
    BY NextIInv, NextOrderInv
  <1>3. ASSUME IInv, OrderInv
        PROVE  RecordKeepsUp
    <2>1. \A repo \in Repos : /\ latest[repo] \in Int /\ cached[repo] <= latest[repo]
                              /\ Floor(repo) \in Int /\ Floor(repo) <= latest[repo]
      BY <1>3, OrderFacts DEF OrderInv, Floor
    <2> QED
      BY <1>3, <2>1, OrderFacts DEF OrderInv, Behind, RecordKeepsUp
  <1> QED
    BY <1>1, <1>2, <1>3, PTL DEF Spec

(* The tag goes on record before the event goes out, whatever goes wrong   *)
(* and also when a lookup answers with an earlier release.                 *)
THEOREM RecordGoesFirst == Spec => RecordedFirst
  <1>1. Init => IInv /\ RecordedInv
    BY InitIInv DEF Init, RecordedInv
  <1>2. IInv /\ RecordedInv /\ [Next]_vars => (IInv /\ RecordedInv)'
    BY NextIInv, NextRecordedInv
  <1>3. IInv /\ RecordedInv /\ [Next]_vars =>
            [\A id \in Ids : told[id] # <<>> /\ told'[id] # told[id] =>
                \A r \in rows : r.id = id => r.lastSeenTag = LastTold(id)']_vars
    BY WhoPublishes DEF RecordedInv, PublishOk
  <1> QED
    BY <1>1, <1>2, <1>3, PTL DEF Spec, RecordedFirst

(* When a call that fails has had no effect, no lookup goes back, no ctx   *)
(* is cancelled and the scanner stays up, the two services, the bus and    *)
(* the saga between them behave as one ledger: the recorded tag and the    *)
(* event for it change in one step, to a newer release than the last.      *)
THEOREM ImplementsLedger ==
    ASSUME Faults = {}
    PROVE  Spec => RefinesLedger
  <1>1. Init => IInv /\ AtomicInv /\ OrderInv
    BY InitIInv, InitAtomicInv, InitOrderInv
  <1>2. IInv /\ AtomicInv /\ OrderInv /\ [Next]_vars => (IInv /\ AtomicInv /\ OrderInv)'
    BY NextIInv, NextAtomicInv, NextOrderInv
  <1>3. Init => Ledger!Init
    BY DEF Init, Ledger!Init, SeenOutside, HasRow, Ledger!Absent, NoEntry
  <1>4. IInv /\ AtomicInv /\ OrderInv /\ [Next]_vars =>
            [Ledger!Next]_<<[i \in Ids |-> SeenOutside(i)], told>>
    BY NextRefinesLedger
  <1> QED
    BY <1>1, <1>2, <1>3, <1>4, PTL DEF Spec, RefinesLedger, Ledger!Spec

=============================================================================
