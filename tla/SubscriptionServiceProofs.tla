--------------------- MODULE SubscriptionServiceProofs ---------------------
(***************************************************************************)
(* What holds of SubscriptionService for any number of handlers, e-mails,  *)
(* repositories, tags and rows.  The inductive invariant is in two parts:  *)
(* IInv holds whatever goes wrong, HonestInv as long as a rollback reaches *)
(* the database.                                                           *)
(***************************************************************************)
EXTENDS SubscriptionService, SubscriptionTableProofs

Owners == {"send", "rollback"}

(* Ids in use are below the serial; no two handlers own one row, and a row *)
(* that has been answered for is owned by nobody.                          *)
IInv ==
    /\ TypeOK
    /\ UniqueIds(rows)
    /\ UniqueSubscription
    /\ \A r \in rows : r.id \in 1 .. nextId - 1
    /\ inbox \subseteq 1 .. nextId - 1
    /\ \A h \in Handlers : pc[h] \in Owners => job[h].id \in 1 .. nextId - 1
    /\ \A h, k \in Handlers :
          pc[h] \in Owners /\ pc[k] \in Owners /\ job[h].id = job[k].id => h = k
    /\ \A id \in Ids : answer[id] # "none" =>
          id < nextId /\ \A h \in Handlers : ~ Owns(h, id)

-----------------------------------------------------------------------------
(* Init establishes the invariant.                                         *)
LEMMA InitIInv == Init => IInv
  <1> SUFFICES ASSUME Init PROVE IInv
    OBVIOUS
  <1> USE DEF Init, NoJob, NoTag
  <1>1. TypeOK
    BY ServiceAssumption DEF TypeOK, Steps, Ids, Answers
  <1>2. UniqueIds(rows) /\ UniqueSubscription
    BY DEF UniqueIds, UniqueSubscription
  <1> QED
    BY <1>1, <1>2, ServiceAssumption DEF IInv, Owners, Owns, Ids

(* The step that inserts a row: it gets a fresh id and keeps the table's   *)
(* constraints, because it commits only when the pair is free.             *)
LEMMA CommitInsertFacts ==
    ASSUME IInv, NEW h \in Handlers, pc[h] = "insert", CommitInsert(h)
    PROVE  /\ nextId \in Ids
           /\ nextId' = nextId + 1
           /\ rows' \subseteq Row
           /\ UniqueIds(rows')
           /\ UniquePairs(rows')
           /\ \A r \in rows' : r.id \in 1 .. nextId
           /\ \A i : HasRow(rows', i) <=> HasRow(rows, i) \/ i = nextId
  <1>1. nextId \in Ids /\ nextId \in Nat /\ nextId' = nextId + 1
    BY ServiceAssumption DEF IInv, TypeOK, CommitInsert, Ids
  <1>2. job[h] \in Jobs /\ rows \subseteq Row
    BY DEF IInv, TypeOK
  <1>3. UniqueIds(rows) /\ UniquePairs(rows)
    BY DEF IInv, UniqueSubscription, UniquePairs
  <1>4. ~ HasRow(rows, nextId)
    BY <1>1 DEF IInv, HasRow
  <1>5. /\ job[h].email \in Emails /\ job[h].repo \in Repos /\ job[h].tag \in Tags
        /\ ~ Conflicts(rows, job[h].email, job[h].repo)
        /\ rows' = InsertRow(rows, nextId, job[h].email, job[h].repo, job[h].tag)
    BY <1>2 DEF Jobs, CommitInsert
  <1>6. /\ rows' \subseteq Row /\ UniqueIds(rows') /\ UniquePairs(rows')
        /\ \A i : HasRow(rows', i) <=> HasRow(rows, i) \/ i = nextId
    BY <1>1, <1>2, <1>3, <1>4, <1>5, InsertRowKeeps
  <1>7. \A r \in rows' : r.id \in 1 .. nextId
    <2> TAKE r \in rows'
    <2>1. HasRow(rows, r.id) \/ r.id = nextId
      BY <1>6 DEF HasRow
    <2>2. ASSUME HasRow(rows, r.id) PROVE r.id \in 1 .. nextId - 1
      BY <2>2 DEF IInv, HasRow
    <2> QED
      BY <1>1, <2>1, <2>2 DEF Ids
  <1> QED
    BY <1>1, <1>6, <1>7

(* The steps that delete rows.                                             *)
LEMMA DeleteRowFacts ==
    ASSUME IInv, NEW id, rows' = DeleteRow(rows, id)
    PROVE  /\ rows' \subseteq rows
           /\ UniqueIds(rows')
           /\ UniquePairs(rows')
  BY DeleteRowKeeps DEF IInv, TypeOK, UniqueSubscription, UniquePairs

(* The step that confirms a row.                                           *)
LEMMA ConfirmRowFacts ==
    ASSUME IInv, NEW id, rows' = ConfirmRow(rows, id)
    PROVE  /\ rows' \subseteq Row
           /\ UniqueIds(rows')
           /\ UniquePairs(rows')
           /\ \A q \in rows' : \E r \in rows :
                q.id = r.id /\ (q.confirmed <=> r.confirmed \/ r.id = id)
           /\ \A i : HasRow(rows', i) <=> HasRow(rows, i)
  BY ConfirmRowKeeps DEF IInv, TypeOK, UniqueSubscription, UniquePairs

(* The step that records a tag.                                            *)
LEMMA RecordTagFacts ==
    ASSUME IInv, NEW id, NEW tag \in Tags, RecordTag(id, tag)
    PROVE  /\ rows' \subseteq Row
           /\ UniqueIds(rows')
           /\ UniquePairs(rows')
           /\ \A q \in rows' : \E r \in rows :
                q.id = r.id /\ Pair(q) = Pair(r) /\ q.confirmed = r.confirmed
           /\ \A i : HasRow(rows', i) <=> HasRow(rows, i)
  BY SetTagKeeps DEF RecordTag, IInv, TypeOK, UniqueSubscription, UniquePairs

(* Every action keeps the invariant.                                       *)
LEMMA NextIInv == ASSUME IInv, [Next]_vars PROVE IInv'
  <1> USE ServiceAssumption, MaxTagAssumption
  <1> USE DEF IInv, TypeOK, Steps, Jobs, Ids, Answers, Owners, Owns,
              UniqueSubscription, UniquePairs
  <1>1. ASSUME NEW h \in Handlers, NEW email \in Emails, NEW repo \in Repos,
               Subscribe(h, email, repo)
        PROVE  IInv'
    BY <1>1 DEF Subscribe, Goto, NoTag, Tags
  <1>2. ASSUME NEW h \in Handlers, NEW tag \in Tags, LookupOk(h, tag)
        PROVE  IInv'
    BY <1>2 DEF LookupOk, Goto
  <1>3. ASSUME NEW h \in Handlers, LookupFails(h)
        PROVE  IInv'
    BY <1>3 DEF LookupFails, Return
  <1>4. ASSUME NEW h \in Handlers, InsertOk(h)
        PROVE  IInv'
    <2>1. /\ nextId \in Ids /\ nextId' = nextId + 1
          /\ rows' \subseteq Row /\ UniqueIds(rows') /\ UniquePairs(rows')
          /\ \A r \in rows' : r.id \in 1 .. nextId
      BY <1>4, CommitInsertFacts DEF InsertOk
    <2>2. /\ pc' = [pc EXCEPT ![h] = "send"]
          /\ job' = [job EXCEPT ![h].id = nextId]
          /\ UNCHANGED <<live, inbox, answer>>
      BY <1>4 DEF InsertOk, Goto
    <2>3. TypeOK'
      BY <1>4, <2>1, <2>2 DEF InsertOk
    <2>4. \A k \in Handlers : /\ k # h => pc'[k] = pc[k] /\ job'[k] = job[k]
                              /\ job'[h].id = nextId
      BY <1>4, <2>2 DEF InsertOk
    <2>5. \A k \in Handlers : pc'[k] \in Owners => job'[k].id \in 1 .. nextId
      BY <2>1, <2>4
    <2>6. \A j, k \in Handlers :
            pc'[j] \in Owners /\ pc'[k] \in Owners /\ job'[j].id = job'[k].id
              => j = k
      BY <2>1, <2>4
    <2>7. \A id \in Ids : answer'[id] # "none" =>
            id < nextId' /\ \A k \in Handlers : ~ (pc'[k] \in Owners /\ job'[k].id = id)
      BY <2>1, <2>2, <2>4
    <2> QED
      BY <2>1, <2>2, <2>3, <2>5, <2>6, <2>7
  <1>5. ASSUME NEW h \in Handlers, InsertFails(h)
        PROVE  IInv'
    BY <1>5 DEF InsertFails, Return
  <1>6. ASSUME NEW h \in Handlers, InsertCommitLost(h)
        PROVE  IInv'
    BY <1>6, CommitInsertFacts DEF InsertCommitLost, Return
  <1>7. ASSUME NEW h \in Handlers, SendOk(h)
        PROVE  IInv'
    <2>1. job[h].id \in Ids /\ job[h].id \in 1 .. nextId - 1
      BY <1>7 DEF SendOk
    <2>2. TypeOK'
      BY <1>7, <2>1 DEF SendOk, Return
    <2> QED
      BY <1>7, <2>1, <2>2 DEF SendOk, Return
  <1>8. ASSUME NEW h \in Handlers, SendRejected(h)
        PROVE  IInv'
    BY <1>8 DEF SendRejected, Goto
  <1>9. ASSUME NEW h \in Handlers, SendMailLost(h)
        PROVE  IInv'
    <2>1. job[h].id \in Ids /\ job[h].id \in 1 .. nextId - 1
      BY <1>9 DEF SendMailLost
    <2>2. TypeOK'
      BY <1>9, <2>1 DEF SendMailLost, Goto
    <2> QED
      BY <1>9, <2>1, <2>2 DEF SendMailLost, Goto
  <1>10. ASSUME NEW h \in Handlers, RollbackOk(h)
         PROVE  IInv'
    BY <1>10, DeleteRowFacts DEF RollbackOk, Return
  <1>11. ASSUME NEW h \in Handlers, RollbackFails(h)
         PROVE  IInv'
    BY <1>11 DEF RollbackFails, Return
  <1>12. ASSUME NEW h \in Handlers, ClientDisconnects(h)
         PROVE  IInv'
    BY <1>12 DEF ClientDisconnects
  <1>13. ASSUME NEW id \in Ids, Confirm(id)
         PROVE  IInv'
    BY <1>13, ConfirmRowFacts DEF Confirm
  <1>14. ASSUME NEW id \in Ids, Unsubscribe(id)
         PROVE  IInv'
    BY <1>14, DeleteRowFacts DEF Unsubscribe
  <1>15. CASE Crash
    BY <1>15 DEF Crash
  <1>16. ASSUME NEW id \in Ids, NEW tag \in Tags, RecordTag(id, tag)
         PROVE  IInv'
    BY <1>16, RecordTagFacts DEF RecordTag
  <1>17. CASE UNCHANGED vars
    BY <1>17 DEF vars
  <1> QED
    BY <1>1, <1>2, <1>3, <1>4, <1>5, <1>6, <1>7, <1>8, <1>9, <1>10, <1>11,
       <1>12, <1>13, <1>14, <1>15, <1>16, <1>17 DEF Next, HandlerStep

-----------------------------------------------------------------------------
(* As long as every ctx stays live and the database answers for what it    *)
(* does, an attempt that was answered with an error has no row.            *)
HonestInv ==
    /\ \A h \in Handlers : live[h]
    /\ FailureLeavesNoRow

(* Every action keeps it, a crash of the process included.                 *)
LEMMA NextHonestInv ==
    ASSUME Faults \subseteq {"mailLost", "crash"}, IInv, HonestInv, [Next]_vars
    PROVE  HonestInv'
  <1> USE DEF HonestInv, FailureLeavesNoRow, HasRow
  <1>0. /\ nextId \in Nat /\ live \in [Handlers -> BOOLEAN]
        /\ job \in [Handlers -> Jobs \cup {NoJob}]
        /\ answer \in [Ids -> Answers]
    BY ServiceAssumption DEF IInv, TypeOK
  <1>1. ASSUME NEW h \in Handlers, InsertOk(h)
        PROVE  HonestInv'
    <2>1. /\ nextId \in Ids
          /\ \A i : (\E r \in rows' : r.id = i) <=> (\E r \in rows : r.id = i) \/ i = nextId
          /\ UNCHANGED <<live, answer>>
      BY <1>1, CommitInsertFacts DEF InsertOk
    <2>2. answer[nextId] = "none"
      BY <1>0, <2>1 DEF IInv, Answers
    <2> QED
      BY <2>1, <2>2
  <1>2. ASSUME NEW h \in Handlers,
               LookupFails(h) \/ InsertFails(h)
        PROVE  HonestInv'
    BY <1>0, <1>2 DEF LookupFails, InsertFails, Return
  <1>3. ASSUME NEW h \in Handlers, SendOk(h)
        PROVE  HonestInv'
    BY <1>0, <1>3 DEF SendOk, Return
  <1>4. ASSUME NEW h \in Handlers, SendRejected(h) \/ SendMailLost(h)
        PROVE  HonestInv'
    BY <1>4 DEF SendRejected, SendMailLost
  <1>5. ASSUME NEW h \in Handlers, RollbackOk(h)
        PROVE  HonestInv'
    BY <1>0, <1>5 DEF RollbackOk, Return, DeleteRow
  <1>6. ASSUME NEW id \in Ids, Confirm(id)
        PROVE  HonestInv'
    BY <1>6, ConfirmRowFacts DEF Confirm, IInv, TypeOK
  <1>7. ASSUME NEW id \in Ids, Unsubscribe(id)
        PROVE  HonestInv'
    BY <1>7 DEF Unsubscribe, DeleteRow
  <1>8. ASSUME NEW id \in Ids, NEW tag \in Tags, RecordTag(id, tag)
        PROVE  HonestInv'
    BY <1>8, RecordTagFacts DEF RecordTag
  <1>9. CASE Crash
    BY <1>9 DEF Crash
  <1>10. ASSUME NEW h \in Handlers
         PROVE  ~ InsertCommitLost(h) /\ ~ RollbackFails(h) /\ ~ ClientDisconnects(h)
    BY DEF InsertCommitLost, RollbackFails, ClientDisconnects
  <1>11. ASSUME NEW h \in Handlers, NEW tag \in Tags, LookupOk(h, tag)
         PROVE  HonestInv'
    BY <1>11 DEF LookupOk
  <1>12. ASSUME NEW h \in Handlers, NEW email \in Emails, NEW repo \in Repos,
                Subscribe(h, email, repo)
         PROVE  HonestInv'
    BY <1>12 DEF Subscribe
  <1>13. CASE UNCHANGED vars
    BY <1>13 DEF vars
  <1> QED
    BY <1>1, <1>2, <1>3, <1>4, <1>5, <1>6, <1>7, <1>8, <1>9, <1>10, <1>11, <1>12,
       <1>13 DEF Next, HandlerStep

(* If the process stays up as well, no row is stranded.                    *)
LEMMA NextStranded ==
    ASSUME Faults \subseteq {"mailLost"}, IInv, HonestInv, NoStrandedRow, [Next]_vars
    PROVE  NoStrandedRow'
  <1> USE DEF NoStrandedRow, Owns, HasRow
  <1>0. /\ rows \subseteq Row /\ nextId \in Nat
        /\ pc \in [Handlers -> Steps]
        /\ job \in [Handlers -> Jobs \cup {NoJob}]
    BY ServiceAssumption DEF IInv, TypeOK
  <1>1. ASSUME NEW h \in Handlers, NEW email \in Emails, NEW repo \in Repos,
               Subscribe(h, email, repo)
        PROVE  NoStrandedRow'
    BY <1>0, <1>1 DEF Subscribe, Goto
  <1>2. ASSUME NEW h \in Handlers, NEW tag \in Tags, LookupOk(h, tag)
        PROVE  NoStrandedRow'
    BY <1>0, <1>2 DEF LookupOk, Goto
  <1>3. ASSUME NEW h \in Handlers, LookupFails(h) \/ InsertFails(h)
        PROVE  NoStrandedRow'
    BY <1>0, <1>3 DEF LookupFails, InsertFails, Return
  <1>4. ASSUME NEW h \in Handlers, InsertOk(h)
        PROVE  NoStrandedRow'
    <2>1. /\ pc'[h] = "send" /\ job'[h].id = nextId
          /\ \A k \in Handlers : k # h => pc'[k] = pc[k] /\ job'[k] = job[k]
          /\ pc[h] \notin Owners
          /\ UNCHANGED inbox
      BY <1>0, <1>4 DEF InsertOk, Goto, Jobs, Owners, IInv, TypeOK
    <2>2. \A r \in rows' : r \in rows \/ r.id = nextId
      BY <1>4 DEF InsertOk, CommitInsert, InsertRow
    <2> QED
      BY <2>1, <2>2 DEF Owners
  <1>7. ASSUME NEW h \in Handlers, SendOk(h)
        PROVE  NoStrandedRow'
    BY <1>0, <1>7 DEF SendOk, Return
  <1>8. ASSUME NEW h \in Handlers, SendRejected(h)
        PROVE  NoStrandedRow'
    BY <1>0, <1>8 DEF SendRejected, Goto
  <1>9. ASSUME NEW h \in Handlers, SendMailLost(h)
        PROVE  NoStrandedRow'
    BY <1>0, <1>9 DEF SendMailLost, Goto
  <1>10. ASSUME NEW h \in Handlers, RollbackOk(h)
         PROVE  NoStrandedRow'
    BY <1>0, <1>10 DEF RollbackOk, Return, DeleteRow
  <1>13. ASSUME NEW id \in Ids, Confirm(id)
         PROVE  NoStrandedRow'
    BY <1>0, <1>13, ConfirmRowFacts DEF Confirm
  <1>14. ASSUME NEW id \in Ids, Unsubscribe(id)
         PROVE  NoStrandedRow'
    BY <1>0, <1>14 DEF Unsubscribe, DeleteRow
  <1>15. ASSUME NEW h \in Handlers
         PROVE  ~ InsertCommitLost(h) /\ ~ RollbackFails(h) /\ ~ ClientDisconnects(h)
    BY DEF HonestInv, InsertCommitLost, RollbackFails, ClientDisconnects
  <1>16. ~ Crash
    BY DEF Crash
  <1>17. ASSUME NEW id \in Ids, NEW tag \in Tags, RecordTag(id, tag)
         PROVE  NoStrandedRow'
    BY <1>0, <1>17, RecordTagFacts DEF RecordTag
  <1>18. CASE UNCHANGED vars
    BY <1>18 DEF vars
  <1> QED
    BY <1>1, <1>2, <1>3, <1>4, <1>7, <1>8, <1>9, <1>10, <1>13, <1>14,
       <1>15, <1>16, <1>17, <1>18 DEF Next, HandlerStep

(* As long as SMTP never reports failure for a mail it took, a handler     *)
(* that may still delete a row has not had its mail accepted.              *)
OwnedIsUnsent == \A id \in inbox, h \in Handlers : ~ Owns(h, id)

(* Every action keeps it when SMTP reports no failure for a mail it took.  *)
LEMMA NextOwnedIsUnsent ==
    ASSUME "mailLost" \notin Faults, IInv, OwnedIsUnsent, [Next]_vars
    PROVE  OwnedIsUnsent'
  <1> USE DEF OwnedIsUnsent, Owns
  <1>0. /\ pc \in [Handlers -> Steps] /\ nextId \in Nat
        /\ job \in [Handlers -> Jobs \cup {NoJob}]
        /\ \A h \in Handlers : pc[h] # "idle" => job[h] \in Jobs
    BY ServiceAssumption DEF IInv, TypeOK
  <1>1. ASSUME NEW h \in Handlers, InsertOk(h)
        PROVE  OwnedIsUnsent'
    <2>1. /\ job'[h].id = nextId
          /\ \A k \in Handlers : k # h => pc'[k] = pc[k] /\ job'[k] = job[k]
          /\ inbox' = inbox
      BY <1>0, <1>1 DEF InsertOk, Goto, Jobs
    <2>2. nextId \notin inbox
      BY <1>0 DEF IInv
    <2> QED
      BY <2>1, <2>2
  <1>2. ASSUME NEW h \in Handlers, SendOk(h)
        PROVE  OwnedIsUnsent'
    <2>1. /\ pc'[h] = "idle"
          /\ \A k \in Handlers : k # h => pc'[k] = pc[k] /\ job'[k] = job[k]
          /\ inbox' = inbox \cup {job[h].id}
      BY <1>0, <1>2 DEF SendOk, Return
    <2>2. \A k \in Handlers : k # h => ~ Owns(k, job[h].id)
      BY <1>2 DEF SendOk, IInv, Owners
    <2> QED
      BY <2>1, <2>2
  <1>3. ASSUME NEW h \in Handlers, SendRejected(h)
        PROVE  OwnedIsUnsent'
    BY <1>0, <1>3 DEF SendRejected, Goto
  <1>4. ASSUME NEW h \in Handlers,
               \/ LookupFails(h) \/ InsertFails(h) \/ InsertCommitLost(h)
               \/ RollbackOk(h) \/ RollbackFails(h)
        PROVE  OwnedIsUnsent'
    <2>1. /\ pc'[h] = "idle" /\ inbox' = inbox
          /\ \A k \in Handlers : k # h => pc'[k] = pc[k] /\ job'[k] = job[k]
      BY <1>0, <1>4 DEF LookupFails, InsertFails, InsertCommitLost, RollbackOk,
                        RollbackFails, Return
    <2> QED
      BY <2>1
  <1>5. ASSUME NEW h \in Handlers, NEW email \in Emails, NEW repo \in Repos,
               Subscribe(h, email, repo)
        PROVE  OwnedIsUnsent'
    BY <1>0, <1>5 DEF Subscribe, Goto
  <1>6. ASSUME NEW h \in Handlers, NEW tag \in Tags, LookupOk(h, tag)
        PROVE  OwnedIsUnsent'
    BY <1>0, <1>6 DEF LookupOk, Goto
  <1>7. ASSUME NEW h \in Handlers, ClientDisconnects(h)
        PROVE  OwnedIsUnsent'
    BY <1>7 DEF ClientDisconnects
  <1>8. ASSUME NEW id \in Ids, NEW tag \in Tags,
               Confirm(id) \/ Unsubscribe(id) \/ RecordTag(id, tag)
        PROVE  OwnedIsUnsent'
    BY <1>8 DEF Confirm, Unsubscribe, RecordTag
  <1>9. CASE Crash
    BY <1>9 DEF Crash
  <1>10. ASSUME NEW h \in Handlers PROVE ~ SendMailLost(h)
    BY DEF SendMailLost
  <1>11. CASE UNCHANGED vars
    BY <1>11 DEF vars
  <1>12. MaxTag \in Nat /\ NoTag \in Tags
    BY MaxTagAssumption DEF NoTag, Tags
  <1> QED
    BY <1>1, <1>2, <1>3, <1>4, <1>5, <1>6, <1>7, <1>8, <1>9, <1>10, <1>11, <1>12
    DEF Next, HandlerStep

-----------------------------------------------------------------------------
(* Every variable keeps its type, whatever goes wrong.                     *)
THEOREM TypeCorrect == Spec => []TypeOK
  <1>1. Init => IInv
    BY InitIInv
  <1>2. IInv /\ [Next]_vars => IInv'
    BY NextIInv
  <1>3. IInv => TypeOK
    BY DEF IInv
  <1> QED
    BY <1>1, <1>2, <1>3, PTL DEF Spec

(* Concurrent requests never leave two rows for one (email, repository)    *)
(* pair, whatever goes wrong.                                              *)
THEOREM Uniqueness == Spec => []UniqueSubscription
  <1>1. Init => IInv
    BY InitIInv
  <1>2. IInv /\ [Next]_vars => IInv'
    BY NextIInv
  <1>3. IInv => UniqueSubscription
    BY DEF IInv
  <1> QED
    BY <1>1, <1>2, <1>3, PTL DEF Spec

(* While clients stay connected and the database answers for what it does, *)
(* an attempt that is answered with an error leaves no row, also when the  *)
(* process crashes at any point and when the mail was out in fact.         *)
THEOREM CleanFailure ==
    ASSUME Faults \subseteq {"mailLost", "crash"}
    PROVE  Spec => []FailureLeavesNoRow
  <1>1. Init => IInv /\ HonestInv
    <2>1. Init => HonestInv
      BY DEF Init, HonestInv, FailureLeavesNoRow, HasRow
    <2> QED
      BY <2>1, InitIInv
  <1>2. IInv /\ HonestInv /\ [Next]_vars => (IInv /\ HonestInv)'
    BY NextIInv, NextHonestInv
  <1>3. HonestInv => FailureLeavesNoRow
    BY DEF HonestInv
  <1> QED
    BY <1>1, <1>2, <1>3, PTL DEF Spec

(* If the process stays up too, no pair is locked out by a row that nobody *)
(* will ever confirm or delete.                                            *)
THEOREM NothingStranded ==
    ASSUME Faults \subseteq {"mailLost"}
    PROVE  Spec => []NoStrandedRow
  <1>1. Init => IInv /\ HonestInv /\ NoStrandedRow
    <2>1. Init => HonestInv /\ NoStrandedRow
      BY DEF Init, HonestInv, FailureLeavesNoRow, NoStrandedRow, HasRow
    <2> QED
      BY <2>1, InitIInv
  <1>2. IInv /\ HonestInv /\ NoStrandedRow /\ [Next]_vars =>
            (IInv /\ HonestInv /\ NoStrandedRow)'
    <2>1. Faults \subseteq {"mailLost", "crash"}
      OBVIOUS
    <2> QED
      BY <2>1, NextIInv, NextHonestInv, NextStranded
  <1> QED
    BY <1>1, <1>2, PTL DEF Spec

(* A step that takes a mailed row out of the table is the unsubscription   *)
(* of that row or the rollback of the request that made it.                *)
LEMMA WhoDeletes ==
    ASSUME IInv, Next, NEW r \in rows, ~ HasRow(rows', r.id)
    PROVE  \/ Unsubscribe(r.id)
           \/ \E h \in Handlers : Owns(h, r.id) /\ RollbackOk(h)
  <1>1. ASSUME NEW h \in Handlers, CommitInsert(h) PROVE FALSE
    BY <1>1 DEF CommitInsert, InsertRow, HasRow
  <1>2. ASSUME NEW h \in Handlers, RollbackOk(h) PROVE Owns(h, r.id)
    BY <1>2 DEF RollbackOk, Owns, DeleteRow, HasRow
  <1>3. ASSUME NEW id \in Ids, Confirm(id) PROVE FALSE
    <2>1. HasRow(rows', r.id)
      BY <1>3, ConfirmRowFacts DEF Confirm, HasRow
    <2> QED
      BY <2>1
  <1>4. ASSUME NEW id \in Ids, Unsubscribe(id) PROVE id = r.id
    BY <1>4 DEF Unsubscribe, DeleteRow, HasRow
  <1>5. ASSUME NEW id \in Ids, NEW tag \in Tags, RecordTag(id, tag) PROVE FALSE
    <2>1. HasRow(rows', r.id)
      BY <1>5, RecordTagFacts DEF HasRow
    <2> QED
      BY <2>1
  <1>6. rows' # rows
    BY DEF HasRow
  <1> QED
    BY <1>1, <1>2, <1>3, <1>4, <1>5, <1>6
    DEF Next, HandlerStep, Subscribe, LookupOk, LookupFails, InsertOk,
        InsertFails, InsertCommitLost, SendOk, SendRejected, SendMailLost,
        RollbackFails, ClientDisconnects, Crash

(* A row whose mail is out leaves the table only when the mailbox owner    *)
(* unsubscribes, even if clients disconnect, replies are lost or the       *)
(* process crashes; where SMTP reports the failure of a mail it took, also *)
(* by the rollback of its own request.                                     *)
THEOREM OwnerDecides == Spec => InvitedLeavesOnlyByUnsubscribe
  <1>1. CASE "mailLost" \in Faults
    <2>1. Init => IInv
      BY InitIInv
    <2>2. IInv /\ [Next]_vars => IInv'
      BY NextIInv
    <2>3. IInv /\ [Next]_vars =>
            [\A r \in rows :
                r.id \in inbox /\ ~ HasRow(rows', r.id) =>
                    \/ Unsubscribe(r.id)
                    \/ /\ "mailLost" \in Faults
                       /\ \E h \in Handlers : Owns(h, r.id) /\ RollbackOk(h)]_vars
      BY <1>1, WhoDeletes
    <2> QED
      BY <2>1, <2>2, <2>3, PTL DEF Spec, InvitedLeavesOnlyByUnsubscribe
  <1>2. CASE "mailLost" \notin Faults
    <2>1. Init => IInv /\ OwnedIsUnsent
      BY InitIInv DEF Init, OwnedIsUnsent
    <2>2. IInv /\ OwnedIsUnsent /\ [Next]_vars => (IInv /\ OwnedIsUnsent)'
      BY <1>2, NextIInv, NextOwnedIsUnsent
    <2>3. IInv /\ OwnedIsUnsent /\ [Next]_vars =>
            [\A r \in rows :
                r.id \in inbox /\ ~ HasRow(rows', r.id) =>
                    \/ Unsubscribe(r.id)
                    \/ /\ "mailLost" \in Faults
                       /\ \E h \in Handlers : Owns(h, r.id) /\ RollbackOk(h)]_vars
      BY WhoDeletes DEF OwnedIsUnsent
    <2> QED
      BY <2>1, <2>2, <2>3, PTL DEF Spec, InvitedLeavesOnlyByUnsubscribe
  <1> QED
    BY <1>1, <1>2

-----------------------------------------------------------------------------
(* PhaseOf for a given table and set of mailed ids.                        *)
PhaseIn(table, mailed, p) ==
    LET mine == {r \in table : Pair(r) = p}
    IN  IF mine = {} THEN "none"
        ELSE IF \E r \in mine : r.confirmed THEN "active"
        ELSE IF \E r \in mine : r.id \in mailed THEN "invited"
        ELSE "reserved"

PhasesIn(table, mailed) == [p \in Emails \X Repos |-> PhaseIn(table, mailed, p)]

(* A pair without a row is in phase "none".                                *)
LEMMA NoRowPhase ==
    ASSUME NEW table, NEW mailed, NEW p, \A r \in table : Pair(r) # p
    PROVE  PhaseIn(table, mailed, p) = "none"
  BY DEF PhaseIn

(* A pair has one row at most, which alone decides its phase.              *)
LEMMA RowPhase ==
    ASSUME NEW table, UniquePairs(table), NEW mailed, NEW r \in table
    PROVE  PhaseIn(table, mailed, Pair(r)) =
               IF r.confirmed THEN "active"
               ELSE IF r.id \in mailed THEN "invited" ELSE "reserved"
  <1> DEFINE mine == {q \in table : Pair(q) = Pair(r)}
  <1>1. mine = {r}
    BY DEF UniquePairs
  <1>2. /\ mine # {}
        /\ (\E q \in mine : q.confirmed) <=> r.confirmed
        /\ (\E q \in mine : q.id \in mailed) <=> r.id \in mailed
    BY <1>1
  <1>3. PhaseIn(table, mailed, Pair(r)) =
            IF mine = {} THEN "none"
            ELSE IF \E q \in mine : q.confirmed THEN "active"
            ELSE IF \E q \in mine : q.id \in mailed THEN "invited"
            ELSE "reserved"
    BY DEF PhaseIn
  <1> HIDE DEF mine
  <1> QED
    BY <1>2, <1>3

(* Two tables with a row of the same standing for a pair, or none in       *)
(* either, agree on its phase.                                             *)
LEMMA SamePhase ==
    ASSUME NEW old, NEW new, UniquePairs(old), UniquePairs(new),
           NEW mailed, NEW mailed2, NEW p,
           \A r \in old : Pair(r) = p =>
               \E q \in new : /\ Pair(q) = p
                              /\ q.confirmed <=> r.confirmed
                              /\ q.id \in mailed2 <=> r.id \in mailed,
           \A q \in new : Pair(q) = p => \E r \in old : Pair(r) = p
    PROVE  PhaseIn(new, mailed2, p) = PhaseIn(old, mailed, p)
  <1>1. CASE \A r \in old : Pair(r) # p
    BY <1>1, NoRowPhase
  <1>2. ASSUME NEW r \in old, Pair(r) = p
        PROVE  PhaseIn(new, mailed2, p) = PhaseIn(old, mailed, p)
    <2>1. PICK q \in new : /\ Pair(q) = p
                           /\ q.confirmed <=> r.confirmed
                           /\ q.id \in mailed2 <=> r.id \in mailed
      BY <1>2
    <2> QED
      BY <1>2, <2>1, RowPhase
  <1> QED
    BY <1>1, <1>2

(* A step that changes the phase of one pair at most is a Move of it.      *)
LEMMA OnePairMoves ==
    ASSUME NEW old, NEW new, NEW mailed, NEW mailed2, NEW p \in Emails \X Repos,
           NEW to, PhaseIn(new, mailed2, p) = to,
           \A x \in (Emails \X Repos) \ {p} :
               PhaseIn(new, mailed2, x) = PhaseIn(old, mailed, x)
    PROVE  PhasesIn(new, mailed2) =
               [PhasesIn(old, mailed) EXCEPT ![p] = to]
  BY DEF PhasesIn

(* The phases of the pairs change as the life cycle says, or not at all.   *)
LifecycleStep(P, Q) ==
    \/ Q = P
    \/ \E p \in Emails \X Repos, to \in {"none", "reserved", "invited", "active"} :
          /\ Q = [P EXCEPT ![p] = to]
          /\ \/ P[p] = "none" /\ to = "reserved"
             \/ P[p] = "reserved" /\ to \in {"none", "invited"}
             \/ P[p] = "invited" /\ to \in {"active", "none"}
             \/ P[p] = "active" /\ to = "none"

(* Inserting a row reserves its pair.                                      *)
LEMMA InsertReserves ==
    ASSUME IInv, NEW h \in Handlers, pc[h] = "insert", CommitInsert(h),
           inbox' = inbox
    PROVE  LifecycleStep(PhasesIn(rows, inbox), PhasesIn(rows', inbox'))
  <1> DEFINE p == <<job[h].email, job[h].repo>>
             row == [id |-> nextId, email |-> job[h].email, repo |-> job[h].repo,
                     confirmed |-> FALSE, lastSeenTag |-> job[h].tag]
  <1>1. p \in Emails \X Repos
    BY DEF IInv, TypeOK, Jobs
  <1>2. rows' = rows \cup {row} /\ Pair(row) = p /\ row.id = nextId /\ ~ row.confirmed
    BY DEF CommitInsert, InsertRow, Pair
  <1>3. \A r \in rows : Pair(r) # p
    BY DEF CommitInsert, Conflicts, Pair
  <1>4. UniquePairs(rows) /\ UniquePairs(rows')
    BY CommitInsertFacts DEF IInv, UniqueSubscription, UniquePairs
  <1>5. nextId \notin inbox
    BY ServiceAssumption DEF IInv, TypeOK
  <1> HIDE DEF p, row
  <1>6. PhaseIn(rows, inbox, p) = "none"
    BY <1>3, NoRowPhase
  <1>7. PhaseIn(rows', inbox', p) = "reserved"
    BY <1>2, <1>4, <1>5, RowPhase
  <1>8. \A x \in (Emails \X Repos) \ {p} :
            PhaseIn(rows', inbox', x) = PhaseIn(rows, inbox, x)
    <2> TAKE x \in (Emails \X Repos) \ {p}
    <2> QED
      BY <1>2, <1>4, SamePhase
  <1>9. PhasesIn(rows', inbox') = [PhasesIn(rows, inbox) EXCEPT ![p] = "reserved"]
    BY <1>1, <1>7, <1>8, OnePairMoves
  <1>10. PhasesIn(rows, inbox)[p] = "none"
    BY <1>1, <1>6 DEF PhasesIn
  <1> QED
    BY <1>1, <1>9, <1>10 DEF LifecycleStep

(* Accepting the mail of a row invites its pair, if the row is still there *)
(* and was not mailed before.                                              *)
LEMMA MailInvites ==
    ASSUME IInv, NEW id \in Ids, inbox' = inbox \cup {id}, rows' = rows
    PROVE  LifecycleStep(PhasesIn(rows, inbox), PhasesIn(rows', inbox'))
  <1>1. UniquePairs(rows) /\ UniqueIds(rows) /\ rows \subseteq Row
    BY DEF IInv, TypeOK, UniqueSubscription, UniquePairs
  <1>2. ASSUME NEW p, \A r \in rows : Pair(r) = p => r.id # id \/ r.confirmed \/ id \in inbox
        PROVE  PhaseIn(rows', inbox', p) = PhaseIn(rows, inbox, p)
    <2>1. CASE \A r \in rows : Pair(r) # p
      BY <2>1, NoRowPhase
    <2>2. ASSUME NEW r \in rows, Pair(r) = p
          PROVE  PhaseIn(rows', inbox', p) = PhaseIn(rows, inbox, p)
      BY <1>1, <1>2, <2>2, RowPhase
    <2> QED
      BY <2>1, <2>2
  <1>3. CASE \A r \in rows : r.id # id \/ r.confirmed \/ id \in inbox
    <2>1. PhasesIn(rows', inbox') = PhasesIn(rows, inbox)
      BY <1>2, <1>3 DEF PhasesIn
    <2> QED
      BY <2>1 DEF LifecycleStep
  <1>4. ASSUME NEW r \in rows, r.id = id, ~ r.confirmed, id \notin inbox
        PROVE  LifecycleStep(PhasesIn(rows, inbox), PhasesIn(rows', inbox'))
    <2>1. Pair(r) \in Emails \X Repos
      BY <1>1 DEF Row, Pair
    <2>2. PhaseIn(rows, inbox, Pair(r)) = "reserved"
      BY <1>1, <1>4, RowPhase
    <2>3. PhaseIn(rows', inbox', Pair(r)) = "invited"
      BY <1>1, <1>4, RowPhase
    <2>4. \A x \in (Emails \X Repos) \ {Pair(r)} :
              PhaseIn(rows', inbox', x) = PhaseIn(rows, inbox, x)
      BY <1>1, <1>2, <1>4 DEF UniqueIds
    <2>5. PhasesIn(rows', inbox') = [PhasesIn(rows, inbox) EXCEPT ![Pair(r)] = "invited"]
      BY <2>1, <2>3, <2>4 DEF PhasesIn
    <2>6. PhasesIn(rows, inbox)[Pair(r)] = "reserved"
      BY <2>1, <2>2 DEF PhasesIn
    <2> QED
      BY <2>1, <2>5, <2>6 DEF LifecycleStep
  <1> QED
    BY <1>3, <1>4

(* Deleting a row releases a reserved pair and cancels an invited or       *)
(* active one; a row that is gone already changes nothing.                 *)
LEMMA DeleteFrees ==
    ASSUME IInv, NEW id, rows' = DeleteRow(rows, id), inbox' = inbox
    PROVE  LifecycleStep(PhasesIn(rows, inbox), PhasesIn(rows', inbox'))
  <1>1. /\ UniquePairs(rows) /\ UniqueIds(rows) /\ rows \subseteq Row
        /\ UniquePairs(rows')
    BY DeleteRowFacts DEF IInv, TypeOK, UniqueSubscription, UniquePairs
  <1>2. CASE \A r \in rows : r.id # id
    <2>1. rows' = rows
      BY <1>2 DEF DeleteRow
    <2> QED
      BY <2>1 DEF LifecycleStep
  <1>3. ASSUME NEW r \in rows, r.id = id
        PROVE  LifecycleStep(PhasesIn(rows, inbox), PhasesIn(rows', inbox'))
    <2>1. Pair(r) \in Emails \X Repos
      BY <1>1 DEF Row, Pair
    <2>2. rows' = rows \ {r}
      BY <1>1, <1>3 DEF DeleteRow, UniqueIds
    <2>3. PhaseIn(rows', inbox', Pair(r)) = "none"
      BY <1>1, <2>2, NoRowPhase DEF UniquePairs
    <2>4. \A x \in (Emails \X Repos) \ {Pair(r)} :
              PhaseIn(rows', inbox', x) = PhaseIn(rows, inbox, x)
      <3> TAKE x \in (Emails \X Repos) \ {Pair(r)}
      <3> QED
        BY <1>1, <2>2, SamePhase
    <2>5. PhasesIn(rows', inbox') = [PhasesIn(rows, inbox) EXCEPT ![Pair(r)] = "none"]
      BY <2>1, <2>3, <2>4, OnePairMoves
    <2>6. PhasesIn(rows, inbox)[Pair(r)] \in {"reserved", "invited", "active"}
      BY <1>1, <2>1, RowPhase DEF PhasesIn
    <2> QED
      BY <2>1, <2>5, <2>6 DEF LifecycleStep
  <1> QED
    BY <1>2, <1>3

(* Following the link of a mailed row activates its pair, once.            *)
LEMMA ConfirmActivates ==
    ASSUME IInv, NEW id \in Ids, Confirm(id)
    PROVE  LifecycleStep(PhasesIn(rows, inbox), PhasesIn(rows', inbox'))
  <1>1. /\ UniquePairs(rows) /\ UniqueIds(rows) /\ rows \subseteq Row
        /\ UniquePairs(rows') /\ inbox' = inbox /\ id \in inbox
    BY ConfirmRowFacts DEF Confirm, IInv, TypeOK, UniqueSubscription, UniquePairs
  <1>2. PICK r \in rows : r.id = id
    BY DEF Confirm, HasRow
  <1>3. Pair(r) \in Emails \X Repos
    BY <1>1 DEF Row, Pair
  <1> DEFINE new == [r EXCEPT !.confirmed = TRUE]
  <1>4. rows' = (rows \ {r}) \cup {new}
    BY <1>1, <1>2 DEF Confirm, ConfirmRow, UniqueIds
  <1>5. new.confirmed /\ Pair(new) = Pair(r)
    BY <1>1 DEF Row, Pair
  <1> HIDE DEF new
  <1>6. PhaseIn(rows', inbox', Pair(r)) = "active"
    BY <1>1, <1>4, <1>5, RowPhase
  <1>7. \A x \in (Emails \X Repos) \ {Pair(r)} :
            PhaseIn(rows', inbox', x) = PhaseIn(rows, inbox, x)
    <2> TAKE x \in (Emails \X Repos) \ {Pair(r)}
    <2> QED
      BY <1>1, <1>4, <1>5, SamePhase
  <1>8. PhasesIn(rows', inbox') = [PhasesIn(rows, inbox) EXCEPT ![Pair(r)] = "active"]
    BY <1>3, <1>6, <1>7, OnePairMoves
  <1>9. PhasesIn(rows, inbox)[Pair(r)] \in {"invited", "active"}
    BY <1>1, <1>2, <1>3, RowPhase DEF PhasesIn
  <1>10. PhasesIn(rows, inbox)[Pair(r)] = "active" =>
             PhasesIn(rows', inbox') = PhasesIn(rows, inbox)
    BY <1>8 DEF PhasesIn
  <1> QED
    BY <1>3, <1>8, <1>9, <1>10 DEF LifecycleStep

(* Recording a tag changes no phase.                                       *)
LEMMA RecordTagStutters ==
    ASSUME IInv, NEW id \in Ids, NEW tag \in Tags, RecordTag(id, tag)
    PROVE  LifecycleStep(PhasesIn(rows, inbox), PhasesIn(rows', inbox'))
  <1>1. UniquePairs(rows) /\ UniquePairs(rows') /\ inbox' = inbox
    BY RecordTagFacts DEF RecordTag, IInv, UniqueSubscription, UniquePairs
  <1>2. \A q \in rows' : \E r \in rows :
            q.id = r.id /\ Pair(q) = Pair(r) /\ q.confirmed = r.confirmed
    BY RecordTagFacts
  <1>3. \A r \in rows : \E q \in rows' :
            q.id = r.id /\ Pair(q) = Pair(r) /\ q.confirmed = r.confirmed
    BY <1>2, RecordTagFacts DEF HasRow, IInv, UniqueIds
  <1>4. \A p \in Emails \X Repos :
            PhaseIn(rows', inbox', p) = PhaseIn(rows, inbox, p)
    <2> TAKE p \in Emails \X Repos
    <2> QED
      BY <1>1, <1>2, <1>3, SamePhase
  <1>5. PhasesIn(rows', inbox') = PhasesIn(rows, inbox)
    BY <1>4 DEF PhasesIn
  <1> QED
    BY <1>5 DEF LifecycleStep

(* Every step of the service is a step of the life cycle or a stutter.     *)
LEMMA NextRefines ==
    ASSUME IInv, [Next]_vars
    PROVE  LifecycleStep(PhasesIn(rows, inbox), PhasesIn(rows', inbox'))
  <1>1. ASSUME UNCHANGED <<rows, inbox>>
        PROVE  LifecycleStep(PhasesIn(rows, inbox), PhasesIn(rows', inbox'))
    BY <1>1 DEF LifecycleStep
  <1>2. ASSUME NEW h \in Handlers, InsertOk(h) \/ InsertCommitLost(h)
        PROVE  LifecycleStep(PhasesIn(rows, inbox), PhasesIn(rows', inbox'))
    BY <1>2, InsertReserves DEF InsertOk, InsertCommitLost
  <1>3. ASSUME NEW h \in Handlers, SendOk(h) \/ SendMailLost(h)
        PROVE  LifecycleStep(PhasesIn(rows, inbox), PhasesIn(rows', inbox'))
    <2>1. job[h].id \in Ids
      BY <1>3, ServiceAssumption DEF SendOk, SendMailLost, IInv, TypeOK, Owners, Ids
    <2> QED
      BY <1>3, <2>1, MailInvites DEF SendOk, SendMailLost
  <1>4. ASSUME NEW h \in Handlers, RollbackOk(h)
        PROVE  LifecycleStep(PhasesIn(rows, inbox), PhasesIn(rows', inbox'))
    BY <1>4, DeleteFrees DEF RollbackOk
  <1>5. ASSUME NEW id \in Ids, Confirm(id)
        PROVE  LifecycleStep(PhasesIn(rows, inbox), PhasesIn(rows', inbox'))
    BY <1>5, ConfirmActivates
  <1>6. ASSUME NEW id \in Ids, Unsubscribe(id)
        PROVE  LifecycleStep(PhasesIn(rows, inbox), PhasesIn(rows', inbox'))
    BY <1>6, DeleteFrees DEF Unsubscribe
  <1>7. ASSUME NEW id \in Ids, NEW tag \in Tags, RecordTag(id, tag)
        PROVE  LifecycleStep(PhasesIn(rows, inbox), PhasesIn(rows', inbox'))
    BY <1>7, RecordTagStutters
  <1> QED
    BY <1>1, <1>2, <1>3, <1>4, <1>5, <1>6, <1>7
    DEF Next, HandlerStep, vars, Subscribe, LookupOk, LookupFails, InsertFails,
        SendRejected, RollbackFails, ClientDisconnects, Crash

(* The service implements double opt-in whatever goes wrong: for every     *)
(* pair, nothing becomes active that was not invited first, an invitation  *)
(* is preceded by a reservation, and a pair starts over only once its row  *)
(* is gone.                                                                *)
THEOREM ImplementsLifecycle == Spec => RefinesLifecycle
  <1>1. Init => IInv
    BY InitIInv
  <1>2. IInv /\ [Next]_vars => IInv'
    BY NextIInv
  <1>3. Init => Lifecycle!Init
    BY DEF Init, Lifecycle!Init, PhaseOf
  <1>4. IInv /\ [Next]_vars =>
            [Lifecycle!Next]_([p \in Emails \X Repos |-> PhaseOf(p)])
    <2> SUFFICES ASSUME IInv, [Next]_vars
                 PROVE  [Lifecycle!Next]_([p \in Emails \X Repos |-> PhaseOf(p)])
      OBVIOUS
    <2>1. /\ [p \in Emails \X Repos |-> PhaseOf(p)] = PhasesIn(rows, inbox)
          /\ [p \in Emails \X Repos |-> PhaseOf(p)]' = PhasesIn(rows', inbox')
      BY DEF PhaseOf, PhaseIn, PhasesIn
    <2> QED
      BY <2>1, NextRefines
      DEF LifecycleStep, Lifecycle!Next, Lifecycle!Move, Lifecycle!Reserve,
          Lifecycle!Release, Lifecycle!Invite, Lifecycle!Activate, Lifecycle!Cancel
  <1> QED
    BY <1>1, <1>2, <1>3, <1>4, PTL DEF Spec, RefinesLifecycle, Lifecycle!Spec

=============================================================================
