----------------------------- MODULE PublicApi -----------------------------
(***************************************************************************)
(* The API as its clients see it: requests come in over HTTP and gRPC, go  *)
(* through the transport (PublicTransport), are served by the service and  *)
(* its table (SubscriptionService), and are answered, or the answer is     *)
(* lost on its way.  Whoever was not answered may ask again.               *)
(*                                                                         *)
(* A handler serves one request at a time and always over one transport.   *)
(* Clients use a token they were mailed or saw on the web page, or one     *)
(* that belongs to no row.  Nothing here says that a mailed token is the   *)
(* only one the service gets to see: that is what RefinesService checks.   *)
(***************************************************************************)
EXTENDS SubscriptionService, PublicTransport

CONSTANTS HttpHandlers      \* the handlers behind HTTP; the others serve gRPC

ASSUME ApiAssumption == HttpHandlers \subseteq Handlers

VARIABLES
    conn,       \* per handler: the request in hand, or the last answer
    shown       \* ids whose unsubscribe token the web page has shown

apiVars == <<rows, nextId, pc, job, live, inbox, answer, conn, shown>>

Ops == {"subscribe", "confirm", "unsubscribe", "list", "uiList"}

(* id is the row that a request is about, as far as it is known: the row   *)
(* its token asks for, or the one that Subscribe has inserted.             *)
Working == [at : {"working"}, op : Ops, id : 0 .. MaxId]
Answered == [at : {"answered"}, op : Ops, id : Ids, outcome : Outcomes]
Quiet == [at |-> "quiet"]

ApiTypeOK ==
    /\ conn \in [Handlers -> Working \cup Answered \cup {Quiet}]
    /\ \A h \in Handlers :
          (pc[h] # "idle") <=> (conn[h].at = "working" /\ conn[h].op = "subscribe")
    /\ shown \subseteq Ids

ApiInit ==
    /\ Init
    /\ conn = [h \in Handlers |-> Quiet]
    /\ shown = {}

-----------------------------------------------------------------------------
Take(h, op, id) ==
    conn' = [conn EXCEPT ![h] = [at |-> "working", op |-> op, id |-> id]]

(* Mutant of Reply: the service's error is dropped.                        *)
ReplyAlwaysOk(h, op, id, outcome) ==
    \/ /\ live[h] /\ id # 0
       /\ conn' = [conn EXCEPT ![h] =
                      [at |-> "answered", op |-> op, id |-> id, outcome |-> "none"]]
    \/ conn' = [conn EXCEPT ![h] = Quiet]

(* The answer reaches the client, or is lost: the client has gone, the     *)
(* connection breaks, or the server's WriteTimeout has passed.  An answer  *)
(* that is about no row is not kept.                                       *)
Reply(h, op, id, outcome) ==
    \/ /\ live[h] /\ id # 0
       /\ conn' = [conn EXCEPT ![h] =
                      [at |-> "answered", op |-> op, id |-> id, outcome |-> outcome]]
    \/ conn' = [conn EXCEPT ![h] = Quiet]

Verdict(h, q) ==
    LET gate == IF h \in HttpHandlers THEN HttpGate(q) ELSE GrpcGate(q)
    IN  IF gate = "passed" THEN ArgumentError(q) ELSE gate

Offered(h, q) ==
    /\ conn[h].at # "working"
    /\ q.op = "uiList" => h \in HttpHandlers

(* A token is one that was mailed or shown, or was drawn for no row.       *)
Held(token) ==
    \/ token.of = 0
    \/ token.of \in inbox
    \/ token.kind = "unsubscribe" /\ token.of \in shown

(* Mutant of TurnAway: the middleware that checks the key lacks its return *)
(* after the 401, so that the handler behind it runs.                      *)
TurnAwayAndServe(h, q) ==
    /\ Offered(h, q)
    /\ Verdict(h, q) # "none"
    /\ Reply(h, q.op, 0, Verdict(h, q))
    /\ IF Verdict(h, q) = "unauthorized" /\ q.op = "subscribe" /\ ArgumentError(q) = "none"
       THEN Subscribe(h, q.email.value, q.repo.value)
       ELSE UNCHANGED vars
    /\ UNCHANGED shown

(* The transport or the service's validation refuses.                      *)
TurnAway(h, q) ==
    /\ Offered(h, q)
    /\ Verdict(h, q) # "none"
    /\ Reply(h, q.op, 0, Verdict(h, q))
    /\ UNCHANGED <<vars, shown>>

BeginSubscribe(h, q) ==
    /\ Offered(h, q)
    /\ Verdict(h, q) = "none"
    /\ Subscribe(h, q.email.value, q.repo.value)
    /\ Take(h, "subscribe", 0)
    /\ UNCHANGED shown

BeginToken(h, q) ==
    /\ Offered(h, q)
    /\ Verdict(h, q) = "none"
    /\ Held(q.token)
    /\ Take(h, q.op, RowAsked(q))
    /\ UNCHANGED <<vars, shown>>

(* One query; the tokens count as shown even if the answer gets lost.      *)
List(h, q) ==
    /\ Offered(h, q)
    /\ Verdict(h, q) = "none"
    /\ \/ /\ Reply(h, q.op, 0, "none")
          /\ shown' = IF q.op # "uiList" THEN shown
                      ELSE shown \cup {toUISubscriptionResponse(r).unsubscribeToken :
                               r \in ListConfirmedByEmail(rows, q.email.value)}
       \/ /\ Reply(h, q.op, 0, "internal")
          /\ UNCHANGED shown
    /\ UNCHANGED vars

-----------------------------------------------------------------------------
(* The statement commits; its own reply may be lost between Postgres and   *)
(* the API.                                                                *)
CommitOutcomes == {"none"} \cup (IF "commitLost" \in Faults THEN {"internal"} ELSE {})

ServeConfirm(h) ==
    LET id == conn[h].id IN
    /\ conn[h].at = "working" /\ conn[h].op = "confirm"
    /\ \/ /\ HasRow(rows, id)
          /\ rows' = ConfirmRow(rows, id)
          /\ \E outcome \in CommitOutcomes : Reply(h, "confirm", id, outcome)
       \/ /\ ~ HasRow(rows, id)
          /\ Reply(h, "confirm", id, "ErrTokenNotFound")
          /\ UNCHANGED rows
    /\ UNCHANGED <<nextId, pc, job, live, inbox, answer, shown>>

ServeUnsubscribe(h) ==
    LET id == conn[h].id IN
    /\ conn[h].at = "working" /\ conn[h].op = "unsubscribe"
    /\ \/ /\ HasRow(rows, id)
          /\ rows' = DeleteRow(rows, id)
          /\ \E outcome \in CommitOutcomes : Reply(h, "unsubscribe", id, outcome)
       \/ /\ ~ HasRow(rows, id)
          /\ Reply(h, "unsubscribe", id, "ErrTokenNotFound")
          /\ UNCHANGED rows
    /\ UNCHANGED <<nextId, pc, job, live, inbox, answer, shown>>

(* Postgres fails, or the client has gone: no effect.                      *)
StatementFails(h) ==
    /\ conn[h].at = "working" /\ conn[h].op \in {"confirm", "unsubscribe"}
    /\ Reply(h, conn[h].op, conn[h].id, "internal")
    /\ UNCHANGED <<vars, shown>>

(* What a Subscribe that ends here is answered.                            *)
LookupErrors == {"ErrRepoNotFound", "ErrRateLimited", "internal"}
InsertErrors(h) ==
    {"internal"} \cup (IF Conflicts(rows, job[h].email, job[h].repo)
                       THEN {"ErrAlreadySubscribed"} ELSE {})

SubscribeGoesOn(h) ==
    /\ \/ \E tag \in Tags : LookupOk(h, tag)
       \/ InsertOk(h) \/ SendRejected(h) \/ SendMailLost(h)
    /\ UNCHANGED <<conn, shown>>

SubscribeEnds(h) ==
    /\ \/ \E e \in LookupErrors : LookupFails(h) /\ Reply(h, "subscribe", 0, e)
       \/ InsertFails(h) /\ \E e \in InsertErrors(h) : Reply(h, "subscribe", 0, e)
       \/ InsertCommitLost(h) /\ Reply(h, "subscribe", 0, "internal")
       \/ SendOk(h) /\ Reply(h, "subscribe", job[h].id, "none")
       \/ (RollbackOk(h) \/ RollbackFails(h)) /\ Reply(h, "subscribe", job[h].id, "internal")
    /\ UNCHANGED shown

Serve(h) ==
    \/ SubscribeGoesOn(h) \/ SubscribeEnds(h)
    \/ ServeConfirm(h) \/ ServeUnsubscribe(h) \/ StatementFails(h)

Disconnect(h) == ClientDisconnects(h) /\ UNCHANGED <<conn, shown>>

(* The internal server shares the process and the table, not the clients.  *)
ScannerRecords ==
    /\ \E id \in Ids, tag \in Tags : RecordTag(id, tag)
    /\ UNCHANGED <<conn, shown>>

ApiCrash ==
    /\ Crash
    /\ conn' = [h \in Handlers |-> IF conn[h].at = "working" THEN Quiet ELSE conn[h]]
    /\ UNCHANGED shown

ApiNext ==
    \/ \E h \in Handlers :
        \/ \E q \in SubscribeRequests : TurnAway(h, q) \/ BeginSubscribe(h, q)
        \/ \E q \in TokenRequests(Ids) : TurnAway(h, q) \/ BeginToken(h, q)
        \/ \E q \in ListRequests : TurnAway(h, q) \/ List(h, q)
        \/ Serve(h)
        \/ Disconnect(h)
    \/ ScannerRecords
    \/ ApiCrash

ApiSpec == ApiInit /\ [][ApiNext]_apiVars

-----------------------------------------------------------------------------
(* The status the client reads, in HTTP's terms.                           *)
Says(h) ==
    IF h \in HttpHandlers THEN HttpStatus(conn[h].outcome)
    ELSE HttpEquivalent(GrpcStatus(conn[h].outcome))

(* What a client was told stays true, whatever has happened since and      *)
(* whoever else was told what.  Unsubscribed, or unknown (the answer to a  *)
(* repeated request whose first answer was lost): the row is gone for good. *)
(* Confirmed: the row is confirmed as long as it is there.  Subscribed: the *)
(* confirmation mail is out.                                               *)
RepliesHold ==
    \A h \in Handlers : conn[h].at = "answered" =>
        /\ conn[h].op = "unsubscribe" /\ Says(h) \in {200, 404} => ~ HasRow(rows, conn[h].id)
        /\ conn[h].op = "confirm" /\ Says(h) = 404 => ~ HasRow(rows, conn[h].id)
        /\ conn[h].op = "confirm" /\ Says(h) = 200 =>
              \A r \in rows : r.id = conn[h].id => r.confirmed
        /\ conn[h].op = "subscribe" /\ Says(h) = 200 => conn[h].id \in inbox

(* Requests, retries and web pages together do nothing to the table that   *)
(* SubscriptionService does not promise: above all, no row is confirmed or *)
(* removed over a transport before its mail is out.                        *)
RefinesService == Spec

(* In this step the handler is done with a request for this row.           *)
Serving(h, op, id) ==
    /\ conn[h].at = "working" /\ conn[h].op = op /\ conn[h].id = id
    /\ conn'[h].at # "working"

(* Between the clients and the table there are handlers, retries, another  *)
(* transport and the scanner, and still a row is confirmed, or taken away  *)
(* once its mail is out, only in the step that serves a request with its   *)
(* own token; or by the rollback of its own Subscribe, where SMTP reports  *)
(* the failure of a mail it accepted.                                      *)
TokenDecides ==
    [][\A r \in rows :
        /\ ~ r.confirmed /\ (\E s \in rows' : s.id = r.id /\ s.confirmed) =>
              \E h \in Handlers : Serving(h, "confirm", r.id)
        /\ r.id \in inbox /\ ~ HasRow(rows', r.id) =>
              \/ \E h \in Handlers : Serving(h, "unsubscribe", r.id)
              \/ /\ "mailLost" \in Faults
                 /\ \E h \in Handlers : Owns(h, r.id) /\ RollbackOk(h)]_apiVars

(* The outcome of a token request or a list on the table of the moment.    *)
OutcomeOf(gate, q) ==
    IF gate # "passed" THEN gate
    ELSE IF ArgumentError(q) # "none" THEN ArgumentError(q)
    ELSE IF q.op \in {"confirm", "unsubscribe"} /\ ~ HasRow(rows, RowAsked(q))
         THEN "ErrTokenNotFound"
    ELSE "none"

(* The two transports are written by hand and kept in step by hand: any    *)
(* request that both can carry means the same over both, in every state,   *)
(* as does any error of the service, and their lists show the same.        *)
TransportsAgree ==
    /\ \A q \in SubscribeRequests \cup TokenRequests(Ids) \cup ListRequests :
          q.decodes /\ (q.op \in {"confirm", "unsubscribe"} => q.token.form # "unroutable") =>
              HttpStatus(OutcomeOf(HttpGate(q), q)) =
                  HttpEquivalent(GrpcStatus(OutcomeOf(GrpcGate(q), q)))
    /\ \A e \in ServiceErrors : HttpStatus(e) = HttpEquivalent(GrpcStatus(e))
    /\ \A r \in rows : toSubscriptionResponse(r) = toProtoSubscription(r)

(* The web page tells people to confirm by the mail, and the mail has a    *)
(* link: a GET without any header.  It confirms while the row is there.    *)
LinkInMail(id) ==
    [op |-> "confirm", key |-> "wrong", decodes |-> TRUE,
     token |-> [kind |-> "confirm", of |-> id, form |-> "neat"]]

MailedLinkConfirms ==
    \A id \in inbox :
        HasRow(rows, id) => OutcomeOf(HttpGate(LinkInMail(id)), LinkInMail(id)) = "none"

=============================================================================
