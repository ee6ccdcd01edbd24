-------------------------- MODULE PublicTransport --------------------------
(***************************************************************************)
(* What the API's two public transports, HTTP and gRPC, make of a request  *)
(* before the service sees it, and of the service's outcome before the     *)
(* client sees it.  Pure operators: PublicApi puts the state behind them.  *)
(*                                                                         *)
(* A text a client sends is what it stands for, and a form: how it is      *)
(* written decides whether it is accepted and what it is compared with.    *)
(***************************************************************************)
EXTENDS SubscriptionTable

(* The first value of the X-API-Key header or of the x-api-key metadata,   *)
(* none included in "wrong"; the expected key is never empty, config gives *)
(* it a default.                                                           *)
Keys == {"wrong", "exact", "padded"}

(* Mutant of validAPIKey: the header is compared as it came.               *)
UntrimmedAPIKey(key) == key = "exact"

validAPIKey(key) == key \in {"exact", "padded"}
grpcAPIKeyValid(key) == key \in {"exact", "padded"}

(* Untidy: capitals, or blanks around.  Malformed: does not normalise.     *)
Texts(S) == [value : S, form : {"neat", "untidy", "malformed"}]

(* 64 hexadecimal digits, drawn for one row and one purpose; or drawn for  *)
(* none (of = 0), malformed, or nothing that a path can hold.              *)
Tokens(ids) ==
    [kind : {"confirm", "unsubscribe"}, of : ids, form : {"neat", "padded"}] \cup
    [kind : {"confirm", "unsubscribe"}, of : {0}, form : {"neat", "malformed", "unroutable"}]

(* Only Subscribe has a body or message that a client writes by hand.      *)
SubscribeRequests == [op : {"subscribe"}, key : Keys, decodes : BOOLEAN,
                      email : Texts(Emails), repo : Texts(Repos)]
TokenRequests(ids) == [op : {"confirm", "unsubscribe"}, key : Keys, decodes : {TRUE},
                       token : Tokens(ids)]
ListRequests == [op : {"list", "uiList"}, key : Keys, decodes : {TRUE},
                 email : Texts(Emails)]

-----------------------------------------------------------------------------
(* Before the service.  HTTP: the key first, then chi's routes, then the   *)
(* body.  gRPC: the generated method handler decodes the message and calls *)
(* the interceptor, which looks at the key.                                *)
HttpGate(q) ==
    IF ~ validAPIKey(q.key) THEN "unauthorized"
    ELSE IF q.op \in {"confirm", "unsubscribe"} /\ q.token.form = "unroutable"
         THEN "noRoute"
    ELSE IF q.op = "subscribe" /\ ~ q.decodes THEN "badBody"
    ELSE "passed"

GrpcGate(q) ==
    IF ~ q.decodes THEN "badMessage"
    ELSE IF ~ grpcAPIKeyValid(q.key) THEN "unauthorized"
    ELSE "passed"

(* What the service itself refuses, before it asks or changes anything.    *)
EmailError(text) == IF text.form = "malformed" THEN "ErrInvalidEmail" ELSE "none"
RepoError(text) == IF text.form = "malformed" THEN "ErrInvalidRepoFormat" ELSE "none"
TokenError(token) ==
    IF token.form \in {"malformed", "unroutable"} THEN "ErrInvalidToken" ELSE "none"

ArgumentError(q) ==
    IF q.op \in {"confirm", "unsubscribe"} THEN TokenError(q.token)
    ELSE IF EmailError(q.email) # "none" THEN EmailError(q.email)
    ELSE IF q.op = "subscribe" THEN RepoError(q.repo)
    ELSE "none"

(* The row whose confirm_token or unsubscribe_token the statement looks    *)
(* for, 0 for none: the pattern is matched on the trimmed token, but the   *)
(* statement gets the token as it came.                                    *)
RowAsked(q) ==
    IF q.token.form = "neat" /\ q.token.kind = q.op THEN q.token.of ELSE 0

(* Mutant of ListConfirmedByEmail: the query has lost "confirmed = true".  *)
ListByEmailOnly(table, email) == {r \in table : r.email = email}

ListConfirmedByEmail(table, email) ==
    {r \in table : r.email = email /\ r.confirmed}

-----------------------------------------------------------------------------
(* After the service: apperr's errors, any other error, and the refusals   *)
(* above, as each transport reports them.                                  *)
ServiceErrors == {"ErrAlreadySubscribed", "ErrInvalidEmail", "ErrInvalidRepoFormat",
                  "ErrInvalidToken", "ErrRepoNotFound", "ErrTokenNotFound",
                  "ErrRateLimited", "internal"}
Outcomes == ServiceErrors \cup {"none", "unauthorized", "noRoute", "badBody", "badMessage"}

HttpStatus(outcome) ==
    CASE outcome = "none" -> 200
      [] outcome = "ErrAlreadySubscribed" -> 409
      [] outcome \in {"ErrInvalidEmail", "ErrInvalidRepoFormat", "ErrInvalidToken",
                      "badBody"} -> 400
      [] outcome \in {"ErrRepoNotFound", "ErrTokenNotFound", "noRoute"} -> 404
      [] outcome = "ErrRateLimited" -> 503
      [] outcome = "unauthorized" -> 401
      [] OTHER -> 500

(* Mutant of GrpcStatus: an unknown token is reported like a wrong one.    *)
GrpcStatusUnknownIsInvalid(outcome) ==
    CASE outcome = "none" -> "OK"
      [] outcome \in {"ErrInvalidEmail", "ErrInvalidToken", "ErrInvalidRepoFormat",
                      "ErrTokenNotFound"} -> "InvalidArgument"
      [] outcome = "unauthorized" -> "Unauthenticated"
      [] OTHER -> "Internal"

GrpcStatus(outcome) ==
    CASE outcome = "none" -> "OK"
      [] outcome = "ErrAlreadySubscribed" -> "AlreadyExists"
      [] outcome \in {"ErrInvalidEmail", "ErrInvalidRepoFormat", "ErrInvalidToken"} ->
            "InvalidArgument"
      [] outcome \in {"ErrRepoNotFound", "ErrTokenNotFound"} -> "NotFound"
      [] outcome = "ErrRateLimited" -> "Unavailable"
      [] outcome = "unauthorized" -> "Unauthenticated"
      [] OTHER -> "Internal"

(* The HTTP status each gRPC code stands for (google.rpc.Code).            *)
HttpEquivalent(code) ==
    CASE code = "OK" -> 200
      [] code = "AlreadyExists" -> 409
      [] code = "InvalidArgument" -> 400
      [] code = "NotFound" -> 404
      [] code = "Unavailable" -> 503
      [] code = "Unauthenticated" -> 401
      [] code = "Internal" -> 500

(* A row as the lists show it; only the web page's has a token in it.      *)
toSubscriptionResponse(r) ==
    [email |-> r.email, repo |-> r.repo, confirmed |-> r.confirmed,
     lastSeenTag |-> r.lastSeenTag]
toProtoSubscription(r) ==
    [email |-> r.email, repo |-> r.repo, confirmed |-> r.confirmed,
     lastSeenTag |-> r.lastSeenTag]
toUISubscriptionResponse(r) ==
    [email |-> r.email, repo |-> r.repo, confirmed |-> r.confirmed,
     lastSeenTag |-> r.lastSeenTag, unsubscribeToken |-> r.id]

=============================================================================
