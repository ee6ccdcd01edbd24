------------------------ MODULE SubscriptionService ------------------------
(***************************************************************************)
(* application.Service: the API's Subscribe, Confirm and Unsubscribe, each *)
(* request served by a goroutine (a handler) of its own over one Postgres  *)
(* table, GitHub and an SMTP server; and its internal gRPC server, through *)
(* which the scanner writes to the same table.                             *)
(*                                                                         *)
(* Subscribe is three external calls with the table in the middle: look    *)
(* the repository up, insert the row, send the confirmation mail, and, if  *)
(* sending fails, delete the row again.  Other handlers, the mailbox owner *)
(* and the client's connection move between any two of them.               *)
(*                                                                         *)
(* A request whose e-mail or repository does not normalise, or whose token *)
(* is unknown, returns before it changes anything and is no step here.     *)
(***************************************************************************)
EXTENDS SubscriptionTable

CONSTANTS
    Handlers,   \* goroutines that can serve Subscribe at the same time
    MaxId,      \* bound: rows ever inserted
    Faults      \* which of FaultKinds the environment may produce

FaultKinds == {
    "commitLost",       \* the insert commits but its reply is lost
    "mailLost",         \* SMTP takes the mail but the dialogue ends in error
    "deleteFails",      \* the deletion of the rollback fails
    "disconnect",       \* the client goes away: the request's ctx is cancelled
    "crash" }           \* the API process dies and is started again

ASSUME ServiceAssumption ==
    /\ MaxId \in Nat
    /\ Faults \subseteq FaultKinds

VARIABLES
    rows,       \* the subscriptions table
    nextId,     \* its serial
    pc,         \* where each handler is in Subscribe
    job,        \* what each handler works on; id is the row it inserted
    live,       \* whether the ctx of the handler's request is still live
    inbox,      \* ids whose confirmation mail the SMTP server has accepted
    answer      \* what Subscribe returned for the row with this id

vars == <<rows, nextId, pc, job, live, inbox, answer>>

Ids == 1 .. MaxId
Steps == {"idle", "lookup", "insert", "send", "rollback"}
Jobs == [email : Emails, repo : Repos, tag : Tags, id : 0 .. MaxId]
NoJob == [id |-> 0]
Answers == {"none", "ok", "error"}

TypeOK ==
    /\ rows \subseteq Row
    /\ nextId \in 1 .. MaxId + 1
    /\ pc \in [Handlers -> Steps]
    /\ job \in [Handlers -> Jobs \cup {NoJob}]
    /\ \A h \in Handlers : pc[h] # "idle" => job[h] \in Jobs
    /\ live \in [Handlers -> BOOLEAN]
    /\ inbox \subseteq Ids
    /\ answer \in [Ids -> Answers]

Init ==
    /\ rows = {}
    /\ nextId = 1
    /\ pc = [h \in Handlers |-> "idle"]
    /\ job = [h \in Handlers |-> NoJob]
    /\ live = [h \in Handlers |-> TRUE]
    /\ inbox = {}
    /\ answer = [i \in Ids |-> "none"]

-----------------------------------------------------------------------------
Goto(h, step) == pc' = [pc EXCEPT ![h] = step]

(* Mutant of Return: the handler does not get out of its step.             *)
ReturnKeepsStep(h) ==
    /\ job' = [job EXCEPT ![h] = NoJob]
    /\ live' = [live EXCEPT ![h] = TRUE]
    /\ UNCHANGED pc

(* Subscribe returns: the request's local variables and ctx are gone.      *)
Return(h) ==
    /\ pc' = [pc EXCEPT ![h] = "idle"]
    /\ job' = [job EXCEPT ![h] = NoJob]
    /\ live' = [live EXCEPT ![h] = TRUE]

(* A request with a valid e-mail and repository arrives at a free handler. *)
Subscribe(h, email, repo) ==
    /\ pc[h] = "idle"
    /\ Goto(h, "lookup")
    /\ job' = [job EXCEPT ![h] =
                  [email |-> email, repo |-> repo, tag |-> NoTag, id |-> 0]]
    /\ UNCHANGED <<rows, nextId, live, inbox, answer>>

(* RepoExists and LatestReleaseTag succeed; the tag becomes the baseline.  *)
LookupOk(h, tag) ==
    /\ pc[h] = "lookup"
    /\ live[h]
    /\ Goto(h, "insert")
    /\ job' = [job EXCEPT ![h].tag = tag]
    /\ UNCHANGED <<rows, nextId, live, inbox, answer>>

(* Either call fails: unknown repository, rate limit, network, ctx.        *)
LookupFails(h) ==
    /\ pc[h] = "lookup"
    /\ Return(h)
    /\ UNCHANGED <<rows, nextId, inbox, answer>>

(* The effect of a committed insert; the serial gives it the next id.      *)
CommitInsert(h) ==
    /\ nextId <= MaxId
    /\ ~ Conflicts(rows, job[h].email, job[h].repo)
    /\ rows' = InsertRow(rows, nextId, job[h].email, job[h].repo, job[h].tag)
    /\ nextId' = nextId + 1

InsertOk(h) ==
    /\ pc[h] = "insert"
    /\ live[h]
    /\ CommitInsert(h)
    /\ job' = [job EXCEPT ![h].id = nextId]
    /\ Goto(h, "send")
    /\ UNCHANGED <<live, inbox, answer>>

(* Mutant of InsertFails: any failed attempt is rolled back by its pair.   *)
InsertFailsDeletesPair(h) ==
    /\ pc[h] = "insert"
    /\ rows' = {r \in rows : Pair(r) # <<job[h].email, job[h].repo>>}
    /\ Return(h)
    /\ UNCHANGED <<nextId, inbox, answer>>

(* Error code 23505 (already subscribed), or any failure with no effect.   *)
InsertFails(h) ==
    /\ pc[h] = "insert"
    /\ Return(h)
    /\ UNCHANGED <<rows, nextId, inbox, answer>>

(* The row is committed and Subscribe is told that the insert failed: the  *)
(* reply was lost, or the ctx was cancelled as the statement ran.          *)
InsertCommitLost(h) ==
    /\ pc[h] = "insert"
    /\ "commitLost" \in Faults
    /\ CommitInsert(h)
    /\ answer' = [answer EXCEPT ![nextId] = "error"]
    /\ Return(h)
    /\ UNCHANGED <<inbox>>

(* SMTPMailer.Send pays no attention to the ctx.                           *)
SendOk(h) ==
    /\ pc[h] = "send"
    /\ inbox' = inbox \cup {job[h].id}
    /\ answer' = [answer EXCEPT ![job[h].id] = "ok"]
    /\ Return(h)
    /\ UNCHANGED <<rows, nextId>>

(* Mutant of SendRejected: Subscribe returns the error without a rollback. *)
SendRejectedReturns(h) ==
    /\ pc[h] = "send"
    /\ answer' = [answer EXCEPT ![job[h].id] = "error"]
    /\ Return(h)
    /\ UNCHANGED <<rows, nextId, inbox>>

SendRejected(h) ==
    /\ pc[h] = "send"
    /\ Goto(h, "rollback")
    /\ UNCHANGED <<rows, nextId, job, live, inbox, answer>>

(* smtp.SendMail reports the failure of QUIT although DATA was accepted.   *)
SendMailLost(h) ==
    /\ "mailLost" \in Faults
    /\ pc[h] = "send"
    /\ inbox' = inbox \cup {job[h].id}
    /\ Goto(h, "rollback")
    /\ UNCHANGED <<rows, nextId, job, live, answer>>

(* Mutant of RollbackOk: the rollback deletes nothing once the row has     *)
(* been mailed, as if it spared rows that may be confirmed.                *)
RollbackSparesMailed(h) ==
    /\ pc[h] = "rollback"
    /\ live[h]
    /\ rows' = IF job[h].id \in inbox THEN rows ELSE DeleteRow(rows, job[h].id)
    /\ answer' = [answer EXCEPT ![job[h].id] = "error"]
    /\ Return(h)
    /\ UNCHANGED <<nextId, inbox>>

(* The rollback: DeleteSubscription with the request's own ctx ...         *)
RollbackOk(h) ==
    /\ pc[h] = "rollback"
    /\ live[h]
    /\ rows' = DeleteRow(rows, job[h].id)
    /\ answer' = [answer EXCEPT ![job[h].id] = "error"]
    /\ Return(h)
    /\ UNCHANGED <<nextId, inbox>>

(* ... whose error, if any, Subscribe drops.                               *)
RollbackFails(h) ==
    /\ pc[h] = "rollback"
    /\ "deleteFails" \in Faults \/ ~ live[h]
    /\ answer' = [answer EXCEPT ![job[h].id] = "error"]
    /\ Return(h)
    /\ UNCHANGED <<rows, nextId, inbox>>

ClientDisconnects(h) ==
    /\ "disconnect" \in Faults
    /\ pc[h] # "idle"
    /\ live' = [live EXCEPT ![h] = FALSE]
    /\ UNCHANGED <<rows, nextId, pc, job, inbox, answer>>

-----------------------------------------------------------------------------
(* The tokens are out once the mail is accepted (the list of the web page  *)
(* shows the unsubscribe token too, but of confirmed rows only).  Whoever  *)
(* holds them, the mailbox owner for short, uses either at any time, again *)
(* and again, in any order.                                                *)
Confirm(id) ==
    /\ id \in inbox
    /\ HasRow(rows, id)
    /\ rows' = ConfirmRow(rows, id)
    /\ UNCHANGED <<nextId, pc, job, live, inbox, answer>>

Unsubscribe(id) ==
    /\ id \in inbox
    /\ HasRow(rows, id)
    /\ rows' = DeleteRow(rows, id)
    /\ UNCHANGED <<nextId, pc, job, live, inbox, answer>>

(* UpdateLastSeenTag of the internal gRPC server: the scanner records a    *)
(* tag while requests are served, at any time and for any row it has read, *)
(* also for one that is gone by now.                                       *)
RecordTag(id, tag) ==
    /\ rows' = SetTag(rows, id, tag)
    /\ UNCHANGED <<nextId, pc, job, live, inbox, answer>>

(* Every request in flight dies without a rollback; the table survives.    *)
Crash ==
    /\ "crash" \in Faults
    /\ pc' = [h \in Handlers |-> "idle"]
    /\ job' = [h \in Handlers |-> NoJob]
    /\ live' = [h \in Handlers |-> TRUE]
    /\ UNCHANGED <<rows, nextId, inbox, answer>>

HandlerStep(h) ==
    \/ \E tag \in Tags : LookupOk(h, tag)
    \/ LookupFails(h)
    \/ InsertOk(h) \/ InsertFails(h) \/ InsertCommitLost(h)
    \/ SendOk(h) \/ SendRejected(h) \/ SendMailLost(h)
    \/ RollbackOk(h) \/ RollbackFails(h)

Next ==
    \/ \E h \in Handlers :
        \/ \E email \in Emails, repo \in Repos : Subscribe(h, email, repo)
        \/ HandlerStep(h)
        \/ ClientDisconnects(h)
    \/ \E id \in Ids : Confirm(id) \/ Unsubscribe(id)
    \/ \E id \in Ids, tag \in Tags : RecordTag(id, tag)
    \/ Crash

Spec == Init /\ [][Next]_vars

(* A started request keeps running: goroutines are scheduled, and calls to *)
(* GitHub are bounded by the client's timeout.  That Postgres and the SMTP *)
(* server answer is an assumption: neither a statement nor smtp.SendMail   *)
(* has a timeout.  Nobody has to send requests, follow links or disconnect. *)
FairSpec == Spec /\ \A h \in Handlers : WF_vars(HandlerStep(h))

-----------------------------------------------------------------------------
(* The handler that still has something to do for row id.                  *)
Owns(h, id) == pc[h] \in {"send", "rollback"} /\ job[h].id = id

(* Concurrent requests for one (email, repository) pair leave one row.     *)
UniqueSubscription ==
    \A r, s \in rows : Pair(r) = Pair(s) => r = s

(* No row is stranded: an unconfirmed row either has its confirmation mail *)
(* out or belongs to a handler that will send it or delete it.  A stranded *)
(* row would lock its (email, repository) pair out for good.               *)
NoStrandedRow ==
    \A r \in rows : r.confirmed \/ r.id \in inbox \/ \E h \in Handlers : Owns(h, r.id)

(* When Subscribe has returned an error nothing of the attempt is left in  *)
(* the table.                                                              *)
FailureLeavesNoRow ==
    \A id \in Ids : answer[id] = "error" => ~ HasRow(rows, id)

(* Once its mail is out a subscription belongs to the mailbox owner: its   *)
(* row leaves the table only when that owner unsubscribes, never by the    *)
(* rollback of another request.  Its own request's rollback can take it    *)
(* only where SMTP reports the failure of a mail it accepted.              *)
InvitedLeavesOnlyByUnsubscribe ==
    [][\A r \in rows :
        r.id \in inbox /\ ~ HasRow(rows', r.id) =>
            \/ Unsubscribe(r.id)
            \/ /\ "mailLost" \in Faults
               /\ \E h \in Handlers : Owns(h, r.id) /\ RollbackOk(h)]_vars

(* The (email, repository) pairs go through double opt-in.                 *)
PhaseOf(p) ==
    LET mine == {r \in rows : Pair(r) = p}
    IN  IF mine = {} THEN "none"
        ELSE IF \E r \in mine : r.confirmed THEN "active"
        ELSE IF \E r \in mine : r.id \in inbox THEN "invited"
        ELSE "reserved"

Lifecycle == INSTANCE SubscriptionLifecycle
                WITH Pairs <- Emails \X Repos,
                     phase <- [p \in Emails \X Repos |-> PhaseOf(p)]

RefinesLifecycle == Lifecycle!Spec

(* A pair that Subscribe has reserved is not left reserved: in the end the *)
(* mail is out or the pair is free for another attempt.                    *)
ReservationSettles ==
    \A p \in Emails \X Repos :
        (PhaseOf(p) = "reserved") ~> (PhaseOf(p) # "reserved")

=============================================================================
