-------------------------- MODULE PublicApiProofs --------------------------
(***************************************************************************)
(* What holds of PublicApi for any number of handlers on either transport. *)
(* The transports and the clients behind them do to the table what         *)
(* SubscriptionService says users do; its theorems therefore hold of the   *)
(* API, and what an answer says of the table stays true.                   *)
(***************************************************************************)
EXTENDS PublicApi, SubscriptionServiceProofs

(* What keeps clients to mailed tokens: nothing but a mail makes a token   *)
(* known, because the web page shows those of confirmed rows and a row is  *)
(* confirmed by its own token.                                             *)
Knowledge ==
    /\ shown \subseteq inbox
    /\ \A r \in rows : r.confirmed => r.id \in inbox
    /\ \A h \in Handlers :
          conn[h].at = "working" /\ conn[h].op \in {"confirm", "unsubscribe"} =>
              conn[h].id = 0 \/ conn[h].id \in inbox

ApiInv == IInv /\ ApiTypeOK /\ Knowledge

(* What an answer said, in terms of the service's outcome; it is about a   *)
(* row that has been inserted, so no later row can have its id.            *)
Promise(a) ==
    /\ a.id \in 1 .. nextId - 1
    /\ a.op \in {"subscribe", "confirm", "unsubscribe"}
    /\ a.outcome \in {"none", "ErrTokenNotFound", "internal"}
    /\ a.outcome = "ErrTokenNotFound" => ~ HasRow(rows, a.id)
    /\ a.outcome = "none" =>
          CASE a.op = "unsubscribe" -> ~ HasRow(rows, a.id)
            [] a.op = "confirm" -> \A r \in rows : r.id = a.id => r.confirmed
            [] a.op = "subscribe" -> a.id \in inbox

Promises == \A h \in Handlers : conn[h].at = "answered" => Promise(conn[h])

-----------------------------------------------------------------------------
LEMMA InitApiInv == ApiInit => ApiInv /\ Promises
  <1> SUFFICES ASSUME ApiInit PROVE ApiInv /\ Promises
    OBVIOUS
  <1>1. IInv
    BY InitIInv DEF ApiInit
  <1>2. ApiTypeOK
    BY DEF ApiInit, Init, ApiTypeOK, Quiet
  <1> QED
    BY <1>1, <1>2 DEF ApiInv, Knowledge, Promises, ApiInit, Init, Quiet

(* A reply frees the handler; what it keeps is about a row.                *)
LEMMA ReplyFacts ==
    ASSUME ApiTypeOK, NEW h \in Handlers, NEW op \in Ops, NEW id \in 0 .. MaxId,
           NEW outcome \in Outcomes, Reply(h, op, id, outcome)
    PROVE  /\ conn' \in [Handlers -> Working \cup Answered \cup {Quiet}]
           /\ conn'[h].at # "working"
           /\ conn'[h].at = "answered" =>
                 conn'[h] = [at |-> "answered", op |-> op, id |-> id, outcome |-> outcome]
                 /\ id # 0
           /\ \A k \in Handlers : k # h => conn'[k] = conn[k]
  BY ServiceAssumption DEF ApiTypeOK, Reply, Answered, Quiet, Ids

(* A request taken in hand.                                                *)
LEMMA TakeFacts ==
    ASSUME ApiTypeOK, NEW h \in Handlers, NEW op \in Ops, NEW id \in 0 .. MaxId,
           Take(h, op, id)
    PROVE  /\ conn' \in [Handlers -> Working \cup Answered \cup {Quiet}]
           /\ conn'[h] = [at |-> "working", op |-> op, id |-> id]
           /\ \A k \in Handlers : k # h => conn'[k] = conn[k]
  BY DEF ApiTypeOK, Take, Working

(* No row has the id that stands for no row.                               *)
LEMMA RowIds == ASSUME IInv, NEW id, HasRow(rows, id) PROVE id \in Ids
  BY ServiceAssumption DEF IInv, TypeOK, HasRow, Ids

-----------------------------------------------------------------------------
(* Every step of the API is a step of the service or leaves it alone.      *)
LEMMA Refines == ASSUME ApiInv, [ApiNext]_apiVars PROVE [Next]_vars
  <1>1. ASSUME NEW h \in Handlers, NEW q, TurnAway(h, q) PROVE UNCHANGED vars
    BY <1>1 DEF TurnAway
  <1>2. ASSUME NEW h \in Handlers, NEW q \in SubscribeRequests, BeginSubscribe(h, q)
        PROVE  Next
    BY <1>2 DEF BeginSubscribe, SubscribeRequests, Texts, Next
  <1>3. ASSUME NEW h \in Handlers, NEW q, BeginToken(h, q) \/ List(h, q)
        PROVE  UNCHANGED vars
    BY <1>3 DEF BeginToken, List
  <1>4. ASSUME NEW h \in Handlers, Serve(h) PROVE [Next]_vars
    <2>1. CASE SubscribeGoesOn(h)
      BY <2>1 DEF SubscribeGoesOn, Next, HandlerStep
    <2>2. CASE SubscribeEnds(h)
      BY <2>2 DEF SubscribeEnds, Next, HandlerStep
    <2>3. CASE ServeConfirm(h)
      <3>1. CASE HasRow(rows, conn[h].id)
        <4>1. conn[h].id \in Ids /\ conn[h].id # 0
          BY <3>1, RowIds DEF ApiInv, Ids
        <4>2. conn[h].id \in inbox
          BY <2>3, <4>1 DEF ServeConfirm, ApiInv, Knowledge
        <4>3. Confirm(conn[h].id)
          BY <2>3, <3>1, <4>2 DEF ServeConfirm, Confirm
        <4> QED
          BY <4>1, <4>3 DEF Next
      <3>2. CASE ~ HasRow(rows, conn[h].id)
        BY <2>3, <3>2 DEF ServeConfirm, vars
      <3> QED BY <3>1, <3>2
    <2>4. CASE ServeUnsubscribe(h)
      <3>1. CASE HasRow(rows, conn[h].id)
        <4>1. conn[h].id \in Ids /\ conn[h].id # 0
          BY <3>1, RowIds DEF ApiInv, Ids
        <4>2. conn[h].id \in inbox
          BY <2>4, <4>1 DEF ServeUnsubscribe, ApiInv, Knowledge
        <4>3. Unsubscribe(conn[h].id)
          BY <2>4, <3>1, <4>2 DEF ServeUnsubscribe, Unsubscribe
        <4> QED
          BY <4>1, <4>3 DEF Next
      <3>2. CASE ~ HasRow(rows, conn[h].id)
        BY <2>4, <3>2 DEF ServeUnsubscribe, vars
      <3> QED BY <3>1, <3>2
    <2>5. CASE StatementFails(h)
      BY <2>5 DEF StatementFails
    <2> QED
      BY <1>4, <2>1, <2>2, <2>3, <2>4, <2>5 DEF Serve
  <1>5. ASSUME NEW h \in Handlers, Disconnect(h) PROVE Next
    BY <1>5 DEF Disconnect, Next
  <1>6. CASE ApiCrash
    BY <1>6 DEF ApiCrash, Next
  <1>7. CASE ScannerRecords
    BY <1>7 DEF ScannerRecords, Next
  <1>8. CASE UNCHANGED apiVars
    BY <1>8 DEF apiVars, vars
  <1> QED
    BY <1>1, <1>2, <1>3, <1>4, <1>5, <1>6, <1>7, <1>8 DEF ApiNext

(* What a step of the service can do to the rows that are already there.   *)
LEMMA StepFacts ==
    ASSUME IInv, [Next]_vars
    PROVE  /\ inbox \subseteq inbox'
           /\ nextId \in Nat /\ nextId' \in Nat /\ nextId <= nextId'
           /\ \A q \in rows' :
                 \/ q.id = nextId
                 \/ \E r \in rows : r.id = q.id /\ (r.confirmed => q.confirmed)
  <1>0. nextId \in Nat /\ rows \subseteq Row
    BY ServiceAssumption DEF IInv, TypeOK
  <1>1. ASSUME NEW h \in Handlers, CommitInsert(h), inbox' = inbox
        PROVE  /\ inbox \subseteq inbox'
               /\ nextId' \in Nat /\ nextId <= nextId'
               /\ \A q \in rows' : q.id = nextId \/ q \in rows
    BY <1>0, <1>1 DEF CommitInsert, InsertRow
  <1>2. ASSUME NEW h \in Handlers, InsertOk(h) \/ InsertCommitLost(h)
        PROVE  CommitInsert(h) /\ inbox' = inbox
    BY <1>2 DEF InsertOk, InsertCommitLost
  <1>3. ASSUME NEW id, Confirm(id)
        PROVE  /\ UNCHANGED <<inbox, nextId>>
               /\ \A q \in rows' : \E r \in rows : r.id = q.id /\ (r.confirmed => q.confirmed)
    <2>1. UNCHANGED <<inbox, nextId>> /\ rows' = ConfirmRow(rows, id)
      BY <1>3 DEF Confirm
    <2>2. \A q \in rows' : \E r \in rows :
             q.id = r.id /\ (q.confirmed <=> r.confirmed \/ r.id = id)
      BY <2>1, ConfirmRowFacts
    <2> QED BY <2>1, <2>2
  <1>4. ASSUME NEW id, rows' = DeleteRow(rows, id) PROVE rows' \subseteq rows
    BY <1>4 DEF DeleteRow
  <1>5. ASSUME NEW id, NEW tag \in Tags, RecordTag(id, tag)
        PROVE  /\ UNCHANGED <<inbox, nextId>>
               /\ \A q \in rows' : \E r \in rows : r.id = q.id /\ (r.confirmed => q.confirmed)
    BY <1>5, RecordTagFacts DEF RecordTag
  <1> QED
    BY <1>0, <1>1, <1>2, <1>3, <1>4, <1>5
    DEF Next, HandlerStep, Subscribe, LookupOk, LookupFails, InsertFails, SendOk,
        SendRejected, SendMailLost, RollbackOk, RollbackFails, ClientDisconnects,
        Unsubscribe, Crash, vars

-----------------------------------------------------------------------------
(* Each action leaves the handler working exactly when it has to be.       *)
LEMMA NextApiTypeOK == ASSUME ApiInv, [ApiNext]_apiVars PROVE ApiTypeOK'
  <1>0. /\ ApiTypeOK
        /\ pc \in [Handlers -> Steps]
        /\ \A h \in Handlers : pc[h] # "idle" => job[h] \in Jobs
        /\ rows \subseteq Row /\ nextId \in Nat /\ MaxId \in Nat
    BY ServiceAssumption DEF ApiInv, IInv, TypeOK
  <1>1. ASSUME NEW h \in Handlers, NEW q \in SubscribeRequests \cup TokenRequests(Ids) \cup ListRequests
        PROVE  q.op \in Ops /\ Verdict(h, q) \in Outcomes
    BY DEF SubscribeRequests, TokenRequests, ListRequests, Ops, Verdict, HttpGate,
           GrpcGate, ArgumentError, TokenError, EmailError, RepoError, Outcomes, ServiceErrors
  <1>2. ASSUME NEW h \in Handlers, NEW op \in Ops, NEW id \in 0 .. MaxId,
               NEW outcome \in Outcomes, Reply(h, op, id, outcome),
               pc' = [pc EXCEPT ![h] = "idle"], shown' = shown
        PROVE  ApiTypeOK'
    BY <1>0, <1>2, ReplyFacts DEF ApiTypeOK
  <1>3. ASSUME NEW h \in Handlers, NEW op \in Ops, NEW id \in 0 .. MaxId,
               NEW outcome \in Outcomes, Reply(h, op, id, outcome),
               ~ (conn[h].at = "working" /\ conn[h].op = "subscribe"), pc' = pc,
               shown' \subseteq Ids
        PROVE  ApiTypeOK'
    BY <1>0, <1>3, ReplyFacts DEF ApiTypeOK
  <1>4. ASSUME NEW h \in Handlers,
               NEW q \in SubscribeRequests \cup TokenRequests(Ids) \cup ListRequests,
               TurnAway(h, q)
        PROVE  ApiTypeOK'
    <2>1. shown' \subseteq Ids
      BY <1>0, <1>4 DEF TurnAway, ApiTypeOK
    <2>2. pc' = pc /\ conn[h].at # "working" /\ Reply(h, q.op, 0, Verdict(h, q))
      BY <1>4 DEF TurnAway, Offered, vars
    <2>3. 0 \in 0 .. MaxId
      BY <1>0
    <2> QED BY <1>1, <1>3, <2>1, <2>2, <2>3
  <1>5. ASSUME NEW h \in Handlers, NEW q \in SubscribeRequests, BeginSubscribe(h, q)
        PROVE  ApiTypeOK'
    <2>1. 0 \in 0 .. MaxId /\ "subscribe" \in Ops
      BY <1>0 DEF Ops
    <2>2. /\ Take(h, "subscribe", 0) /\ shown' = shown
          /\ pc' = [pc EXCEPT ![h] = "lookup"]
      BY <1>5 DEF BeginSubscribe, Subscribe, Goto
    <2>3. /\ conn' \in [Handlers -> Working \cup Answered \cup {Quiet}]
          /\ conn'[h] = [at |-> "working", op |-> "subscribe", id |-> 0]
          /\ \A k \in Handlers : k # h => conn'[k] = conn[k]
      BY <1>0, <2>1, <2>2, TakeFacts
    <2>4. \A k \in Handlers :
             (pc'[k] # "idle") <=> (conn'[k].at = "working" /\ conn'[k].op = "subscribe")
      BY <1>0, <2>2, <2>3 DEF ApiTypeOK
    <2> QED BY <1>0, <2>2, <2>3, <2>4 DEF ApiTypeOK
  <1>6. ASSUME NEW h \in Handlers, NEW q \in TokenRequests(Ids), BeginToken(h, q)
        PROVE  ApiTypeOK'
    <2>1. RowAsked(q) \in 0 .. MaxId /\ q.op \in Ops /\ q.op # "subscribe"
      BY <1>0 DEF RowAsked, TokenRequests, Tokens, Ids, Ops
    <2>2. /\ Take(h, q.op, RowAsked(q)) /\ shown' = shown /\ pc' = pc
          /\ conn[h].at # "working"
      BY <1>6 DEF BeginToken, Offered, vars
    <2>3. /\ conn' \in [Handlers -> Working \cup Answered \cup {Quiet}]
          /\ conn'[h] = [at |-> "working", op |-> q.op, id |-> RowAsked(q)]
          /\ \A k \in Handlers : k # h => conn'[k] = conn[k]
      BY <1>0, <2>1, <2>2, TakeFacts
    <2>4. \A k \in Handlers :
             (pc'[k] # "idle") <=> (conn'[k].at = "working" /\ conn'[k].op = "subscribe")
      BY <1>0, <2>1, <2>2, <2>3 DEF ApiTypeOK
    <2> QED BY <1>0, <2>2, <2>3, <2>4 DEF ApiTypeOK
  <1>7. ASSUME NEW h \in Handlers, NEW q \in ListRequests, List(h, q)
        PROVE  ApiTypeOK'
    <2>1. shown' \subseteq Ids
      <3>1. \A r \in rows : r.id \in Ids
        BY RowIds DEF ApiInv, HasRow
      <3> QED
        BY <1>0, <1>7, <3>1
        DEF List, ApiTypeOK, toUISubscriptionResponse, ListConfirmedByEmail
    <2>2. 0 \in 0 .. MaxId /\ q.op \in Ops /\ pc' = pc /\ conn[h].at # "working"
      BY <1>0, <1>7 DEF List, Offered, vars, ListRequests, Ops
    <2>3. Reply(h, q.op, 0, "none") \/ Reply(h, q.op, 0, "internal")
      BY <1>7 DEF List
    <2>4. "none" \in Outcomes /\ "internal" \in Outcomes
      BY DEF Outcomes, ServiceErrors
    <2> QED BY <1>3, <2>1, <2>2, <2>3, <2>4
  <1>8. ASSUME NEW h \in Handlers, ServeConfirm(h) \/ ServeUnsubscribe(h) \/ StatementFails(h)
        PROVE  ApiTypeOK'
    <2>1. /\ conn[h].at = "working" /\ conn[h].op \in {"confirm", "unsubscribe"}
          /\ pc' = pc /\ shown' = shown
          /\ \E outcome \in Outcomes : Reply(h, conn[h].op, conn[h].id, outcome)
      BY <1>8
      DEF ServeConfirm, ServeUnsubscribe, StatementFails, CommitOutcomes, Outcomes,
          ServiceErrors, vars
    <2>2. conn[h].op \in Ops /\ conn[h].id \in 0 .. MaxId /\ shown' \subseteq Ids
      BY <1>0, <2>1 DEF ApiTypeOK, Working, Answered, Quiet
    <2> QED BY <1>3, <2>1, <2>2
  <1>9. ASSUME NEW h \in Handlers, SubscribeGoesOn(h) PROVE ApiTypeOK'
    <2>1. /\ conn' = conn /\ shown' = shown /\ pc[h] # "idle"
          /\ \E step \in Steps \ {"idle"} : pc' = [pc EXCEPT ![h] = step]
      BY <1>9 DEF SubscribeGoesOn, LookupOk, InsertOk, SendRejected, SendMailLost, Goto, Steps
    <2> QED BY <1>0, <2>1 DEF ApiTypeOK
  <1>10. ASSUME NEW h \in Handlers, SubscribeEnds(h) PROVE ApiTypeOK'
    <2>1. /\ pc' = [pc EXCEPT ![h] = "idle"] /\ shown' = shown /\ pc[h] # "idle"
          /\ \E id \in {0, job[h].id}, outcome \in Outcomes : Reply(h, "subscribe", id, outcome)
      BY <1>10
      DEF SubscribeEnds, LookupFails, InsertFails, InsertCommitLost, SendOk, RollbackOk,
          RollbackFails, Return, LookupErrors, InsertErrors, Outcomes, ServiceErrors
    <2>2. {0, job[h].id} \subseteq 0 .. MaxId /\ "subscribe" \in Ops
      BY <1>0, <2>1 DEF Jobs, Ops
    <2> QED BY <1>2, <2>1, <2>2
  <1>11. ASSUME NEW h \in Handlers, Disconnect(h) PROVE ApiTypeOK'
    BY <1>0, <1>11 DEF Disconnect, ClientDisconnects, ApiTypeOK
  <1>12. CASE ApiCrash
    BY <1>0, <1>12 DEF ApiCrash, Crash, ApiTypeOK, Quiet
  <1>13. CASE UNCHANGED apiVars
    BY <1>0, <1>13 DEF apiVars, ApiTypeOK
  <1>14. CASE ScannerRecords
    BY <1>0, <1>14 DEF ScannerRecords, RecordTag, ApiTypeOK
  <1> QED
    BY <1>4, <1>5, <1>6, <1>7, <1>8, <1>9, <1>10, <1>11, <1>12, <1>13, <1>14
    DEF ApiNext, Serve

(* No step makes a token known without a mail.                             *)
LEMMA NextKnowledge == ASSUME ApiInv, [ApiNext]_apiVars PROVE Knowledge'
  <1>0. IInv /\ ApiTypeOK /\ Knowledge /\ MaxId \in Nat
    BY ServiceAssumption DEF ApiInv
  <1>1. [Next]_vars
    BY Refines
  <1>2. inbox \subseteq inbox'
    BY <1>0, <1>1, StepFacts
  <1>3. shown' \subseteq inbox'
    <2>1. ASSUME NEW h \in Handlers, NEW q, List(h, q) PROVE shown' \subseteq inbox
      BY <1>0, <2>1 DEF List, Knowledge, toUISubscriptionResponse, ListConfirmedByEmail
    <2> QED
      BY <1>0, <1>2, <2>1
      DEF ApiNext, TurnAway, BeginSubscribe, BeginToken, Serve, SubscribeGoesOn,
          SubscribeEnds, ServeConfirm, ServeUnsubscribe, StatementFails, Disconnect,
          ApiCrash, ScannerRecords, apiVars, Knowledge
  <1>4. \A q \in rows' : q.confirmed => q.id \in inbox'
    <2>1. ASSUME NEW h \in Handlers, CommitInsert(h), inbox' = inbox
          PROVE  \A q \in rows' : q.confirmed => q.id \in inbox'
      BY <1>0, <2>1 DEF CommitInsert, InsertRow, Knowledge
    <2>2. ASSUME NEW id, Confirm(id)
          PROVE  \A q \in rows' : q.confirmed => q.id \in inbox'
      <3>1. \A q \in rows' : \E r \in rows :
              q.id = r.id /\ (q.confirmed <=> r.confirmed \/ r.id = id)
        BY <1>0, <2>2, ConfirmRowFacts DEF Confirm
      <3> QED BY <1>0, <2>2, <3>1 DEF Confirm, Knowledge
    <2>3. ASSUME rows' \subseteq rows
          PROVE  \A q \in rows' : q.confirmed => q.id \in inbox'
      BY <1>0, <1>2, <2>3 DEF Knowledge
    <2>4. ASSUME NEW id, rows' = DeleteRow(rows, id) PROVE rows' \subseteq rows
      BY <2>4 DEF DeleteRow
    <2>5. ASSUME NEW h \in Handlers, InsertOk(h) \/ InsertCommitLost(h)
          PROVE  CommitInsert(h) /\ inbox' = inbox
      BY <2>5 DEF InsertOk, InsertCommitLost
    <2>6. ASSUME NEW id, NEW tag \in Tags, RecordTag(id, tag)
          PROVE  \A q \in rows' : q.confirmed => q.id \in inbox'
      BY <1>0, <1>2, <2>6, RecordTagFacts DEF Knowledge
    <2> QED
      BY <1>1, <2>1, <2>2, <2>3, <2>4, <2>5, <2>6
      DEF Next, HandlerStep, Subscribe, LookupOk, LookupFails, InsertFails, SendOk,
          SendRejected, SendMailLost, RollbackOk, RollbackFails, ClientDisconnects,
          Unsubscribe, Crash, vars
  <1>5. ASSUME NEW k \in Handlers, conn'[k].at = "working",
               conn'[k].op \in {"confirm", "unsubscribe"}
        PROVE  conn'[k].id = 0 \/ conn'[k].id \in inbox'
    <2>1. ASSUME NEW h \in Handlers, NEW q \in TokenRequests(Ids), BeginToken(h, q), k = h
          PROVE  conn'[k].id = 0 \/ conn'[k].id \in inbox
      <3>1. conn'[h].id = RowAsked(q)
        BY <1>0, <2>1 DEF BeginToken, Take, ApiTypeOK
      <3>2. q.token.of = 0 \/ q.token.of \in inbox
        BY <1>0, <2>1 DEF BeginToken, Held, Knowledge
      <3> QED BY <2>1, <3>1, <3>2 DEF RowAsked
    <2>2. CASE conn'[k] = conn[k]
      BY <1>0, <1>2, <1>5, <2>2 DEF Knowledge
    <2>3. ASSUME NEW h \in Handlers, NEW op, NEW id, NEW outcome, Reply(h, op, id, outcome)
          PROVE  conn'[k] = conn[k] \/ conn'[k].at # "working"
      BY <1>0, <2>3 DEF Reply, Quiet, ApiTypeOK
    <2>4. ASSUME NEW h \in Handlers, NEW q, BeginSubscribe(h, q)
          PROVE  conn'[k] = conn[k]
      BY <1>0, <1>5, <2>4 DEF BeginSubscribe, Take, ApiTypeOK
    <2>5. ASSUME NEW h \in Handlers, NEW q, BeginToken(h, q), k # h
          PROVE  conn'[k] = conn[k]
      BY <1>0, <2>5 DEF BeginToken, Take, ApiTypeOK
    <2>6. CASE ApiCrash
      BY <1>0, <1>5, <2>2, <2>6 DEF ApiCrash, Quiet, ApiTypeOK
    <2>7. ASSUME NEW h \in Handlers, SubscribeEnds(h)
          PROVE  \E id, outcome : Reply(h, "subscribe", id, outcome)
      BY <2>7 DEF SubscribeEnds
    <2>8. ASSUME NEW h \in Handlers, ServeConfirm(h) \/ ServeUnsubscribe(h) \/ StatementFails(h)
          PROVE  \E op, id, outcome : Reply(h, op, id, outcome)
      BY <2>8 DEF ServeConfirm, ServeUnsubscribe, StatementFails
    <2>9. ASSUME NEW h \in Handlers, NEW q, TurnAway(h, q) \/ List(h, q)
          PROVE  \E op, id, outcome : Reply(h, op, id, outcome)
      BY <2>9 DEF TurnAway, List
    <2> QED
      BY <1>2, <1>5, <2>1, <2>2, <2>3, <2>4, <2>5, <2>6, <2>7, <2>8, <2>9
      DEF ApiNext, Serve, SubscribeGoesOn, Disconnect, ScannerRecords, apiVars
  <1> QED
    BY <1>3, <1>4, <1>5 DEF Knowledge

LEMMA NextApiInv == ASSUME ApiInv, [ApiNext]_apiVars PROVE ApiInv'
  BY Refines, NextIInv, NextApiTypeOK, NextKnowledge DEF ApiInv

LEMMA AlwaysApiInv == ApiSpec => []ApiInv
  <1>1. ApiInit => ApiInv
    BY InitApiInv
  <1>2. ApiInv /\ [ApiNext]_apiVars => ApiInv'
    BY NextApiInv
  <1> QED BY <1>1, <1>2, PTL DEF ApiSpec

-----------------------------------------------------------------------------
(* An answer given earlier stays true over any step of the service.        *)
LEMMA PromiseKept ==
    ASSUME IInv, [Next]_vars, NEW k \in Handlers, Promise(conn[k]), conn'[k] = conn[k]
    PROVE  Promise(conn[k])'
  <1> DEFINE a == conn[k]
  <1>1. a' = a
    OBVIOUS
  <1>2. a.id \in 1 .. nextId - 1 /\ a.id # nextId
    BY StepFacts DEF Promise
  <1>3. a.id \in 1 .. nextId' - 1
    BY <1>2, StepFacts
  <1>4. ~ HasRow(rows, a.id) => ~ HasRow(rows', a.id)
    BY <1>2, StepFacts DEF HasRow
  <1>5. (\A r \in rows : r.id = a.id => r.confirmed)
          => (\A r \in rows' : r.id = a.id => r.confirmed)
    BY <1>2, StepFacts
  <1>6. inbox \subseteq inbox'
    BY StepFacts
  <1>7. Promise(a)
    OBVIOUS
  <1> HIDE DEF a
  <1>8. Promise(a)'
    BY <1>1, <1>3, <1>4, <1>5, <1>6, <1>7 DEF Promise
  <1> QED
    BY <1>8 DEF a

(* An answer is true as it is given.                                       *)
LEMMA NextPromises == ASSUME ApiInv, Promises, [ApiNext]_apiVars PROVE Promises'
  <1>0. IInv /\ ApiTypeOK /\ Knowledge /\ MaxId \in Nat /\ nextId \in Nat
    BY ServiceAssumption DEF ApiInv, IInv, TypeOK
  <1>1. [Next]_vars
    BY Refines
  <1> SUFFICES ASSUME NEW k \in Handlers, conn'[k].at = "answered"
               PROVE  Promise(conn[k])'
    BY DEF Promises
  <1>2. CASE conn'[k] = conn[k]
    BY <1>0, <1>1, <1>2, PromiseKept DEF Promises
  <1>3. ASSUME NEW h \in Handlers, NEW op \in Ops, NEW id \in 0 .. MaxId,
               NEW outcome \in Outcomes, Reply(h, op, id, outcome), k # h
        PROVE  conn'[k] = conn[k]
    BY <1>0, <1>3, ReplyFacts
  <1>4. ASSUME NEW h \in Handlers, NEW op, NEW outcome, Reply(h, op, 0, outcome)
        PROVE  conn'[k] = conn[k]
    BY <1>0, <1>4 DEF Reply, ApiTypeOK, Quiet
  <1>5. ASSUME NEW h \in Handlers, NEW op \in {"confirm", "unsubscribe"},
               conn[h].at = "working", conn[h].op = op
        PROVE  conn[h].id \in 0 .. MaxId /\ op \in Ops
               /\ (conn[h].id # 0 => conn[h].id \in 1 .. nextId - 1)
    BY <1>0, <1>5 DEF ApiTypeOK, Working, Answered, Quiet, Ops, Knowledge, IInv
  <1>6. {"none", "internal", "ErrTokenNotFound"} \subseteq Outcomes
    BY DEF Outcomes, ServiceErrors
  <1>7. ASSUME NEW h \in Handlers, ServeConfirm(h), conn'[k] # conn[k]
        PROVE  Promise(conn[k])'
    <2>1. PICK outcome \in {"none", "internal", "ErrTokenNotFound"} :
            /\ Reply(h, "confirm", conn[h].id, outcome)
            /\ outcome = "ErrTokenNotFound" => ~ HasRow(rows, conn[h].id) /\ rows' = rows
            /\ outcome = "none" => rows' = ConfirmRow(rows, conn[h].id)
      BY <1>7 DEF ServeConfirm, CommitOutcomes
    <2>2. /\ conn[h].id \in 0 .. MaxId /\ "confirm" \in Ops
          /\ conn[h].id # 0 => conn[h].id \in 1 .. nextId - 1
          /\ nextId' = nextId
      BY <1>5, <1>7 DEF ServeConfirm
    <2>3. k = h
      BY <1>3, <1>6, <1>7, <2>1, <2>2
    <2>4. /\ conn'[k] = [at |-> "answered", op |-> "confirm", id |-> conn[h].id,
                          outcome |-> outcome]
          /\ conn[h].id # 0
      BY <1>0, <1>6, <2>1, <2>2, <2>3, ReplyFacts
    <2>5. outcome = "none" => \A r \in rows' : r.id = conn[h].id => r.confirmed
      BY <1>0, <2>1, ConfirmRowFacts
    <2> QED
      BY <2>1, <2>2, <2>4, <2>5 DEF Promise
  <1>8. ASSUME NEW h \in Handlers, ServeUnsubscribe(h), conn'[k] # conn[k]
        PROVE  Promise(conn[k])'
    <2>1. PICK outcome \in {"none", "internal", "ErrTokenNotFound"} :
            /\ Reply(h, "unsubscribe", conn[h].id, outcome)
            /\ outcome = "ErrTokenNotFound" => ~ HasRow(rows, conn[h].id) /\ rows' = rows
            /\ outcome = "none" => rows' = DeleteRow(rows, conn[h].id)
      BY <1>8 DEF ServeUnsubscribe, CommitOutcomes
    <2>2. /\ conn[h].id \in 0 .. MaxId /\ "unsubscribe" \in Ops
          /\ conn[h].id # 0 => conn[h].id \in 1 .. nextId - 1
          /\ nextId' = nextId
      BY <1>5, <1>8 DEF ServeUnsubscribe
    <2>3. k = h
      BY <1>3, <1>6, <1>8, <2>1, <2>2
    <2>4. /\ conn'[k] = [at |-> "answered", op |-> "unsubscribe", id |-> conn[h].id,
                          outcome |-> outcome]
          /\ conn[h].id # 0
      BY <1>0, <1>6, <2>1, <2>2, <2>3, ReplyFacts
    <2>5. outcome = "none" => ~ HasRow(rows', conn[h].id)
      BY <2>1 DEF DeleteRow, HasRow
    <2> QED
      BY <2>1, <2>2, <2>4, <2>5 DEF Promise
  <1>9. ASSUME NEW h \in Handlers, StatementFails(h), conn'[k] # conn[k]
        PROVE  Promise(conn[k])'
    <2>1. /\ conn[h].op \in {"confirm", "unsubscribe"} /\ conn[h].op \in Ops
          /\ conn[h].id \in 0 .. MaxId
          /\ conn[h].id # 0 => conn[h].id \in 1 .. nextId - 1
          /\ Reply(h, conn[h].op, conn[h].id, "internal") /\ nextId' = nextId
      BY <1>5, <1>9 DEF StatementFails, vars
    <2>2. k = h
      BY <1>3, <1>6, <1>9, <2>1
    <2>3. /\ conn'[k] = [at |-> "answered", op |-> conn[h].op, id |-> conn[h].id,
                          outcome |-> "internal"]
          /\ conn[h].id # 0
      BY <1>0, <1>6, <2>1, <2>2, ReplyFacts
    <2> QED
      BY <2>1, <2>3 DEF Promise
  <1>10. ASSUME NEW h \in Handlers, SubscribeEnds(h), conn'[k] # conn[k]
         PROVE  Promise(conn[k])'
    <2>1. PICK outcome \in {"none", "internal"} :
            /\ Reply(h, "subscribe", job[h].id, outcome)
            /\ pc[h] \in Owners /\ nextId' = nextId
            /\ outcome = "none" => inbox' = inbox \cup {job[h].id}
      BY <1>4, <1>10
      DEF SubscribeEnds, SendOk, RollbackOk, RollbackFails, Owners
    <2>2. job[h].id \in 1 .. nextId - 1 /\ job[h].id \in 0 .. MaxId /\ "subscribe" \in Ops
      BY <1>0, <2>1 DEF IInv, TypeOK, Jobs, Owners, Ops
    <2>3. k = h
      BY <1>3, <1>6, <1>10, <2>1, <2>2
    <2>4. conn'[k] = [at |-> "answered", op |-> "subscribe", id |-> job[h].id,
                      outcome |-> outcome]
      BY <1>0, <1>6, <2>1, <2>2, <2>3, ReplyFacts
    <2> QED
      BY <2>1, <2>2, <2>4 DEF Promise
  <1>11. ASSUME NEW h \in Handlers, NEW q, BeginSubscribe(h, q) \/ BeginToken(h, q)
         PROVE  conn'[k] = conn[k]
    BY <1>0, <1>11 DEF BeginSubscribe, BeginToken, Take, ApiTypeOK
  <1>12. ASSUME NEW h \in Handlers, NEW q, TurnAway(h, q) \/ List(h, q)
         PROVE  conn'[k] = conn[k]
    BY <1>4, <1>12 DEF TurnAway, List
  <1>13. CASE ApiCrash
    BY <1>0, <1>2, <1>13 DEF ApiCrash, ApiTypeOK, Quiet
  <1> QED
    BY <1>2, <1>7, <1>8, <1>9, <1>10, <1>11, <1>12, <1>13
    DEF ApiNext, Serve, SubscribeGoesOn, Disconnect, ScannerRecords, apiVars

(* The status of the outcomes that answers about a row can have.           *)
LEMMA SaysWhat ==
    ASSUME NEW h \in Handlers, conn[h].outcome \in {"none", "ErrTokenNotFound", "internal"}
    PROVE  /\ Says(h) = 200 <=> conn[h].outcome = "none"
           /\ Says(h) = 404 <=> conn[h].outcome = "ErrTokenNotFound"
  BY DEF Says, HttpStatus, GrpcStatus, HttpEquivalent

-----------------------------------------------------------------------------
(* Which request a change of a row belongs to.                             *)
LEMMA WhoActs ==
    ASSUME ApiInv, ApiNext, NEW r \in rows
    PROVE  /\ ~ r.confirmed /\ (\E s \in rows' : s.id = r.id /\ s.confirmed) =>
                 \E h \in Handlers : Serving(h, "confirm", r.id)
           /\ ~ HasRow(rows', r.id) =>
                 \/ \E h \in Handlers : Serving(h, "unsubscribe", r.id)
                 \/ \E h \in Handlers : Owns(h, r.id) /\ RollbackOk(h)
  <1> DEFINE Confirmed == ~ r.confirmed /\ \E s \in rows' : s.id = r.id /\ s.confirmed
             Gone == ~ HasRow(rows', r.id)
             Goal == /\ Confirmed => \E h \in Handlers : Serving(h, "confirm", r.id)
                     /\ Gone => \/ \E h \in Handlers : Serving(h, "unsubscribe", r.id)
                                \/ \E h \in Handlers : Owns(h, r.id) /\ RollbackOk(h)
  <1> SUFFICES Goal
    OBVIOUS
  <1>0. /\ IInv /\ UniqueIds(rows) /\ r.id # nextId
        /\ conn \in [Handlers -> Working \cup Answered \cup {Quiet}]
    BY ServiceAssumption DEF ApiInv, IInv, TypeOK, ApiTypeOK
  <1>1. ASSUME \A s \in rows' : s.id = r.id => s = r
        PROVE  ~ Confirmed
    BY <1>1
  <1>2. CASE rows' = rows
    BY <1>0, <1>2 DEF UniqueIds, HasRow
  <1>3. ASSUME NEW h \in Handlers, CommitInsert(h)
        PROVE  Goal
    BY <1>0, <1>3 DEF CommitInsert, InsertRow, UniqueIds, HasRow
  <1>4. ASSUME NEW id, rows' = DeleteRow(rows, id)
        PROVE  ~ Confirmed /\ (Gone => id = r.id)
    BY <1>0, <1>4 DEF DeleteRow, UniqueIds, HasRow
  <1>5. ASSUME NEW h \in Handlers, RollbackOk(h)
        PROVE  Goal
    <2>1. pc[h] = "rollback" /\ rows' = DeleteRow(rows, job[h].id)
      BY <1>5 DEF RollbackOk
    <2>2. ~ Confirmed /\ (Gone => job[h].id = r.id)
      BY <1>4, <2>1
    <2>3. Gone => Owns(h, r.id)
      <3> HIDE DEF Gone, Confirmed
      <3> QED
        BY <2>1, <2>2 DEF Owns, Owners
    <2>4. Gone => \E k \in Handlers : Owns(k, r.id) /\ RollbackOk(k)
      <3> HIDE DEF Gone, Confirmed
      <3> QED
        BY <1>5, <2>3
    <2> HIDE DEF Gone, Confirmed
    <2> QED
      BY <2>2, <2>4
  <1>6. ASSUME NEW h \in Handlers, NEW op, NEW id, NEW outcome, Reply(h, op, id, outcome)
        PROVE  conn'[h].at # "working"
    BY <1>0, <1>6 DEF Reply, Quiet
  <1>7. ASSUME NEW h \in Handlers, ServeUnsubscribe(h), rows' # rows
        PROVE  Goal
    <2>1. /\ conn[h].at = "working" /\ conn[h].op = "unsubscribe"
          /\ rows' = DeleteRow(rows, conn[h].id)
          /\ conn'[h].at # "working"
      BY <1>6, <1>7 DEF ServeUnsubscribe
    <2> QED
      BY <1>4, <2>1 DEF Serving
  <1>8. ASSUME NEW h \in Handlers, ServeConfirm(h), rows' # rows
        PROVE  Goal
    <2>1. /\ conn[h].at = "working" /\ conn[h].op = "confirm"
          /\ rows' = ConfirmRow(rows, conn[h].id)
          /\ conn'[h].at # "working"
      BY <1>6, <1>8 DEF ServeConfirm
    <2>2. /\ \A q \in rows' : \E p \in rows :
                q.id = p.id /\ (q.confirmed <=> p.confirmed \/ p.id = conn[h].id)
          /\ HasRow(rows', r.id) <=> HasRow(rows, r.id)
      BY <1>0, <2>1, ConfirmRowFacts
    <2>3. Confirmed => conn[h].id = r.id
      BY <1>0, <2>2 DEF UniqueIds
    <2>4. ~ Gone
      BY <2>2 DEF HasRow
    <2> QED
      BY <2>1, <2>3, <2>4 DEF Serving
  <1>9. CASE ScannerRecords
    <2>1. PICK id \in Ids, tag \in Tags : RecordTag(id, tag)
      BY <1>9 DEF ScannerRecords
    <2>2. /\ \A q \in rows' : \E p \in rows : q.id = p.id /\ q.confirmed = p.confirmed
          /\ HasRow(rows', r.id) <=> HasRow(rows, r.id)
      BY <1>0, <2>1, RecordTagFacts
    <2> QED
      BY <1>0, <2>2 DEF UniqueIds, HasRow
  <1>10. ASSUME NEW h \in Handlers, SubscribeGoesOn(h) \/ SubscribeEnds(h)
         PROVE  Goal
    BY <1>2, <1>3, <1>5, <1>10
    DEF SubscribeGoesOn, SubscribeEnds, LookupOk, LookupFails, InsertOk, InsertFails,
        InsertCommitLost, SendOk, SendRejected, SendMailLost, RollbackFails
  <1> QED
    BY <1>2, <1>7, <1>8, <1>9, <1>10
    DEF ApiNext, Serve, TurnAway, BeginSubscribe, BeginToken, List, StatementFails,
        Disconnect, ApiCrash, Subscribe, ClientDisconnects, Crash, vars

-----------------------------------------------------------------------------
(* Requests over both transports, retried, turned away or cut off, change  *)
(* the table as SubscriptionService says: in particular a row is confirmed *)
(* or removed by request only when its mail is out.                        *)
THEOREM ApiRefinesService == ApiSpec => RefinesService
  <1>1. ApiInit => Init
    BY DEF ApiInit
  <1>2. ApiInv /\ [ApiNext]_apiVars => [Next]_vars
    BY Refines
  <1> QED
    BY <1>1, <1>2, AlwaysApiInv, PTL DEF ApiSpec, RefinesService, Spec

(* The state of the API's side keeps its type: in particular a handler is  *)
(* inside Subscribe exactly as long as its request is in hand.             *)
THEOREM ApiTypeCorrect == ApiSpec => []ApiTypeOK
  <1>1. ApiInv => ApiTypeOK
    BY DEF ApiInv
  <1> QED
    BY <1>1, AlwaysApiInv, PTL

(* What a client was told stays true.                                      *)
THEOREM AnswersStayTrue == ApiSpec => []RepliesHold
  <1>1. ApiInit => Promises
    BY InitApiInv
  <1>2. ApiInv /\ Promises /\ [ApiNext]_apiVars => Promises'
    BY NextPromises
  <1>3. ApiInv /\ Promises => RepliesHold
    BY SaysWhat DEF Promises, Promise, RepliesHold
  <1> QED
    BY <1>1, <1>2, <1>3, AlwaysApiInv, PTL DEF ApiSpec

(* Concurrent requests over both transports leave one row for a pair.      *)
THEOREM ApiUniqueness == ApiSpec => []UniqueSubscription
  <1>1. Spec => []UniqueSubscription
    BY Uniqueness
  <1> QED
    BY <1>1, ApiRefinesService, PTL DEF RefinesService

(* Every pair goes through double opt-in, over whatever mix of transports, *)
(* retries and failures its requests arrive.                               *)
THEOREM ApiImplementsLifecycle == ApiSpec => RefinesLifecycle
  <1>1. Spec => RefinesLifecycle
    BY ImplementsLifecycle
  <1> QED
    BY <1>1, ApiRefinesService, PTL DEF RefinesService

(* A row is confirmed, or removed once its mail is out, by the request     *)
(* that has its own token and by no other, whatever else is in hand.       *)
THEOREM OwnTokenDecides == ApiSpec => TokenDecides
  <1> DEFINE Decided(r) ==
        /\ ~ r.confirmed /\ (\E s \in rows' : s.id = r.id /\ s.confirmed) =>
              \E h \in Handlers : Serving(h, "confirm", r.id)
        /\ r.id \in inbox /\ ~ HasRow(rows', r.id) =>
              \/ \E h \in Handlers : Serving(h, "unsubscribe", r.id)
              \/ /\ "mailLost" \in Faults
                 /\ \E h \in Handlers : Owns(h, r.id) /\ RollbackOk(h)
  <1>1. CASE "mailLost" \in Faults
    <2>1. ApiInv /\ [ApiNext]_apiVars => [\A r \in rows : Decided(r)]_apiVars
      BY <1>1, WhoActs
    <2> QED
      BY <2>1, AlwaysApiInv, PTL DEF ApiSpec, TokenDecides
  <1>2. CASE "mailLost" \notin Faults
    <2>1. ApiInit => OwnedIsUnsent
      BY DEF ApiInit, Init, OwnedIsUnsent
    <2>2. ApiInv /\ OwnedIsUnsent /\ [ApiNext]_apiVars => OwnedIsUnsent'
      BY <1>2, Refines, NextOwnedIsUnsent DEF ApiInv
    <2>3. ApiInv /\ OwnedIsUnsent /\ [ApiNext]_apiVars =>
            [\A r \in rows : Decided(r)]_apiVars
      BY WhoActs DEF OwnedIsUnsent
    <2> QED
      BY <2>1, <2>2, <2>3, AlwaysApiInv, PTL DEF ApiSpec, TokenDecides
  <1> QED
    BY <1>1, <1>2

(* Any request both transports can carry means the same over both, on any  *)
(* table, as does any error of the service.                                *)
THEOREM OneApi == ApiSpec => []TransportsAgree
  <1>1. TransportsAgree
    <2>1. \A e \in ServiceErrors \cup {"none", "unauthorized"} :
            HttpStatus(e) = HttpEquivalent(GrpcStatus(e))
      BY DEF ServiceErrors, HttpStatus, GrpcStatus, HttpEquivalent
    <2>2. ASSUME NEW q \in SubscribeRequests \cup TokenRequests(Ids) \cup ListRequests,
                 q.decodes, q.op \in {"confirm", "unsubscribe"} => q.token.form # "unroutable"
          PROVE  /\ OutcomeOf(HttpGate(q), q) = OutcomeOf(GrpcGate(q), q)
                 /\ OutcomeOf(GrpcGate(q), q) \in ServiceErrors \cup {"none", "unauthorized"}
      <3>1. HttpGate(q) = GrpcGate(q) /\ GrpcGate(q) \in {"passed", "unauthorized"}
        BY <2>2 DEF HttpGate, GrpcGate, validAPIKey, grpcAPIKeyValid
      <3>2. ArgumentError(q) \in ServiceErrors \cup {"none"}
        BY DEF ArgumentError, TokenError, EmailError, RepoError, ServiceErrors
      <3> QED
        BY <3>1, <3>2 DEF OutcomeOf, ServiceErrors
    <2>3. \A r \in rows : toSubscriptionResponse(r) = toProtoSubscription(r)
      BY DEF toSubscriptionResponse, toProtoSubscription
    <2>4. ServiceErrors \subseteq ServiceErrors \cup {"none", "unauthorized"}
      OBVIOUS
    <2> QED
      BY <2>1, <2>2, <2>3, <2>4 DEF TransportsAgree
  <1> QED
    BY <1>1, PTL

=============================================================================
