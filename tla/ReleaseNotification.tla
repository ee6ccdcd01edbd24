------------------------ MODULE ReleaseNotification ------------------------
(***************************************************************************)
(* From the table to the mailbox: the scanner of ReleaseScanner and the    *)
(* bus with its notification services of NotificationDelivery, side by     *)
(* side.  They share two steps: ProcessRelease hands its event to Publish, *)
(* and the end of the scanner's process ends its connection.  All other    *)
(* steps and faults of either come whenever they like.                     *)
(*                                                                         *)
(* What holds of either side was proved for itself; what is proved here is *)
(* what a subscriber sees, which no side can promise alone.                *)
(***************************************************************************)
EXTENDS ReleaseScannerProofs

CONSTANTS
    Consumers, BufferLimit, PendingLimit,
    MaxMessages,        \* bound: events that become due
    DeliveryFaults

VARIABLES
    broker, conn, outbox, published, link, queue, hand, mails,
    log         \* history: the events that Publish took, in their order

delivery == <<broker, conn, outbox, published, link, queue, hand, mails>>

D == INSTANCE NotificationDeliveryProofs
        WITH MaxEvents <- MaxMessages, Faults <- DeliveryFaults

(* The mail for an event is made of the event alone: its subscription and  *)
(* the tag of the release.                                                 *)
ReleaseDetected == [id : Ids, tag : Tags]

(* The process ends, in the middle of a run or by a signal.  A scan's own  *)
(* last step may look the same and is not meant.                           *)
ProcessEnds == (Crash \/ Restart) /\ ~ Scan /\ vars' # vars

(* Publish takes the event of the saga, and no other; with the process     *)
(* goes its connection, and what the client has not sent.                  *)
Handover ==
    /\ IF PublishOk
       THEN D!Publish /\ log' = Append(log, [id |-> saga.id, tag |-> tag])
       ELSE UNCHANGED <<published, log>>
    /\ ProcessEnds => D!ScannerStops \/ conn = "off"

System ==
    /\ Spec
    /\ D!Spec
    /\ log = <<>> /\ [][Handover]_<<vars, delivery, log>>

-----------------------------------------------------------------------------
(* A subscriber hears of the releases of a repository in the order they    *)
(* were made and of none twice, from each service.                         *)
HeardInOrder ==
    \A c \in Consumers : \A m, n \in 1 .. Len(mails[c]) :
        LET earlier == log[mails[c][m]]
            later == log[mails[c][n]]
        IN  m < n /\ earlier.id = later.id => earlier.tag < later.tag

(* Nobody is mailed a release who has not confirmed, however long the mail *)
(* was on its way.                                                         *)
OnlyConfirmedHear ==
    \A c \in Consumers : \A n \in 1 .. Len(mails[c]) :
        \A r \in rows : r.id = log[mails[c][n]].id => r.confirmed

(* Every event the scanner counts as sent is mailed or on its way.         *)
ToldIsHeard ==
    \A id \in Ids : \A k \in 2 .. Len(told[id]) :
        \E n \in 1 .. published :
            /\ log[n] = [id |-> id, tag |-> told[id][k]]
            /\ D!OnItsWay(n) \/ D!Mailed(n)

-----------------------------------------------------------------------------
(* The events on the bus are those that were told, each after the          *)
(* baseline of its subscription.                                           *)
LogInv ==
    /\ log \in Seq(ReleaseDetected)
    /\ published = Len(log)
    /\ \A n \in 1 .. Len(log) : Len(told[log[n].id]) > 1
    /\ \A id \in Ids : \A k \in 2 .. Len(told[id]) :
          \E n \in 1 .. Len(log) : log[n] = [id |-> id, tag |-> told[id][k]]

(* ... in the order of the releases.                                       *)
LogOrder ==
    /\ \A n \in 1 .. Len(log) : log[n].tag <= LastTold(log[n].id)
    /\ \A m, n \in 1 .. Len(log) :
          m < n /\ log[m].id = log[n].id => log[m].tag < log[n].tag

(* The step the two sides share.                                           *)
LEMMA HandoverFacts ==
    ASSUME IInv, LogInv, PublishOk, Handover
    PROVE  /\ saga \in Row /\ saga.id \in Ids /\ tag \in Tags
           /\ log \in Seq(ReleaseDetected) /\ Len(log) \in Nat
           /\ log' \in Seq(ReleaseDetected) /\ Len(log') = Len(log) + 1
           /\ log'[Len(log) + 1] = [id |-> saga.id, tag |-> tag]
           /\ \A n \in 1 .. Len(log) : log'[n] = log[n]
           /\ published' = published + 1
           /\ told[saga.id] \in Seq(Tags) /\ Len(told[saga.id]) \in Nat
           /\ Len(told[saga.id]) > 0
           /\ told' = [told EXCEPT ![saga.id] = Append(@, tag)]
           /\ told'[saga.id] = Append(told[saga.id], tag)
  <1>1. /\ saga \in Row /\ saga.id \in Ids /\ saga.id < nextId /\ tag \in Tags
        /\ told \in [Ids -> Seq(Tags)]
    BY IInvFacts DEF PublishOk
  <1>2. told[saga.id] # <<>> /\ Len(told[saga.id]) \in Nat \ {0}
    BY <1>1, IInvFacts
  <1>3. [id |-> saga.id, tag |-> tag] \in ReleaseDetected
    BY <1>1 DEF ReleaseDetected
  <1>4. /\ log \in Seq(ReleaseDetected)
        /\ log' = Append(log, [id |-> saga.id, tag |-> tag])
        /\ published' = published + 1
        /\ told' = [told EXCEPT ![saga.id] = Append(@, tag)]
    BY DEF Handover, LogInv, D!Publish, PublishOk
  <1> QED
    BY <1>1, <1>2, <1>3, <1>4, AppendFacts

(* Other steps leave the log alone, and what was told but for a baseline.  *)
LEMMA OtherSteps ==
    ASSUME IInv, LogInv, [Next]_vars, [Handover]_<<vars, delivery, log>>,
           ~ (PublishOk /\ Handover)
    PROVE  /\ UNCHANGED <<published, log>>
           /\ \A id \in Ids : \/ told'[id] = told[id]
                              \/ told[id] = <<>> /\ Len(told'[id]) = 1
  <1>0. told \in [Ids -> Seq(Tags)]
    BY IInvFacts
  <1>1. CASE UNCHANGED <<vars, delivery, log>>
    BY <1>1 DEF vars, delivery, history
  <1>2. CASE ~ PublishOk /\ Handover
    <2>1. UNCHANGED <<published, log>>
      BY <1>2 DEF Handover
    <2>2. ASSUME NEW email \in Emails, NEW repo \in Repos, NEW t \in Tags,
                 Subscribe(email, repo, t), NEW id \in Ids
          PROVE  \/ told'[id] = told[id]
                 \/ told[id] = <<>> /\ Len(told'[id]) = 1
      <3>1. told' = [told EXCEPT ![nextId] = <<t>>]
        BY <2>2 DEF Subscribe
      <3>2. id = nextId => told[id] = <<>>
        BY IInvFacts DEF IInv
      <3> QED
        BY <1>0, <3>1, <3>2
    <2> QED
      BY <1>2, <2>1, <2>2, ToldSteps
  <1> QED
    BY <1>1, <1>2

(* Every step keeps the log and the history of events in step.             *)
LEMMA NextLogInv ==
    ASSUME IInv, LogInv, [Next]_vars, [Handover]_<<vars, delivery, log>>
    PROVE  LogInv'
  <1>0. /\ told \in [Ids -> Seq(Tags)]
        /\ log \in Seq(ReleaseDetected) /\ Len(log) \in Nat
        /\ \A n \in 1 .. Len(log) : log[n].id \in Ids
    <2>1. log \in Seq(ReleaseDetected)
      BY DEF LogInv
    <2>2. \A n \in 1 .. Len(log) : log[n] \in ReleaseDetected
      BY <2>1
    <2> QED
      BY <2>1, <2>2, IInvFacts DEF ReleaseDetected
  <1>1. CASE PublishOk /\ Handover
    <2>1. log' \in Seq(ReleaseDetected) /\ published' = Len(log')
      BY <1>1, HandoverFacts DEF LogInv
    <2>2. \A id \in Ids : id # saga.id => told'[id] = told[id]
      BY <1>0, <1>1, HandoverFacts
    <2>3. /\ saga.id \in Ids /\ tag \in Tags
          /\ told[saga.id] \in Seq(Tags) /\ Len(told[saga.id]) \in Nat
          /\ Len(told[saga.id]) > 0
          /\ told'[saga.id] = Append(told[saga.id], tag)
          /\ log'[Len(log) + 1] = [id |-> saga.id, tag |-> tag]
          /\ Len(log') = Len(log) + 1
          /\ \A n \in 1 .. Len(log) : log'[n] = log[n]
      BY <1>1, HandoverFacts
    <2>4. /\ Len(told'[saga.id]) = Len(told[saga.id]) + 1
          /\ told'[saga.id][Len(told[saga.id]) + 1] = tag
          /\ \A k \in 1 .. Len(told[saga.id]) : told'[saga.id][k] = told[saga.id][k]
      BY <2>3, AppendFacts
    <2>5. ASSUME NEW n \in 1 .. Len(log')
          PROVE  Len(told'[log'[n].id]) > 1
      <3>1. CASE n = Len(log) + 1
        BY <2>3, <2>4, <3>1
      <3>2. CASE n \in 1 .. Len(log)
        <4>1. log'[n] = log[n] /\ log[n].id \in Ids /\ Len(told[log[n].id]) > 1
          BY <1>0, <2>3, <3>2 DEF LogInv
        <4>2. CASE log[n].id = saga.id
          BY <2>3, <2>4, <4>1, <4>2
        <4> QED
          BY <2>2, <4>1, <4>2
      <3> QED
        BY <1>0, <2>3, <3>1, <3>2
    <2>6. ASSUME NEW id \in Ids, NEW k \in 2 .. Len(told'[id])
          PROVE  \E n \in 1 .. Len(log') : log'[n] = [id |-> id, tag |-> told'[id][k]]
      <3>1. CASE id = saga.id /\ k = Len(told[saga.id]) + 1
        <4>1. Len(log) + 1 \in 1 .. Len(log')
          BY <1>0, <2>3
        <4> QED
          BY <2>3, <2>4, <3>1, <4>1
      <3>2. CASE k \in 2 .. Len(told[id]) /\ told'[id][k] = told[id][k]
        <4>1. PICK n \in 1 .. Len(log) : log[n] = [id |-> id, tag |-> told[id][k]]
          BY <3>2 DEF LogInv
        <4>2. n \in 1 .. Len(log') /\ log'[n] = log[n]
          BY <1>0, <2>3
        <4> QED
          BY <3>2, <4>1, <4>2
      <3>3. CASE id = saga.id /\ k # Len(told[saga.id]) + 1
        <4>1. k \in 2 .. Len(told[id]) /\ k \in 1 .. Len(told[id])
          BY <2>3, <2>4, <3>3
        <4>2. told'[id][k] = told[id][k]
          BY <2>4, <3>3, <4>1
        <4> QED
          BY <3>2, <4>1, <4>2
      <3> QED
        BY <2>2, <3>1, <3>2, <3>3
    <2> QED
      BY <2>1, <2>5, <2>6 DEF LogInv
  <1>2. CASE ~ (PublishOk /\ Handover)
    <2>1. /\ published' = published /\ log' = log
          /\ \A id \in Ids : \/ told'[id] = told[id]
                             \/ told[id] = <<>> /\ Len(told'[id]) = 1
      BY <1>2, OtherSteps
    <2>2. \A n \in 1 .. Len(log) : told'[log[n].id] = told[log[n].id]
      BY <1>0, <2>1 DEF LogInv
    <2>3. ASSUME NEW id \in Ids, NEW k \in 2 .. Len(told'[id])
          PROVE  told'[id] = told[id]
      <3>1. ASSUME Len(told'[id]) = 1
            PROVE  FALSE
        <4>1. k \in 2 .. 1
          BY <2>3, <3>1
        <4> QED
          BY <4>1
      <3> QED
        BY <2>1, <3>1
    <2> QED
      BY <2>1, <2>2, <2>3 DEF LogInv
  <1> QED
    BY <1>1, <1>2

(* ... and the order of the releases on the bus, when no lookup goes back. *)
LEMMA NextLogOrder ==
    ASSUME IInv, OrderInv, LogInv, LogOrder, [Next]_vars,
           [Handover]_<<vars, delivery, log>>
    PROVE  LogOrder'
  <1> DEFINE NewLastTold(id) == told'[id][Len(told'[id])]
  <1>0. /\ told \in [Ids -> Seq(Tags)]
        /\ log \in Seq(ReleaseDetected) /\ Len(log) \in Nat
        /\ \A n \in 1 .. Len(log) : log[n].id \in Ids /\ log[n].tag \in Int
        /\ \A n \in 1 .. Len(log) : told[log[n].id] # <<>>
    <2>1. log \in Seq(ReleaseDetected)
      BY DEF LogInv
    <2>2. \A n \in 1 .. Len(log) : log[n] \in ReleaseDetected
      BY <2>1
    <2>3. \A n \in 1 .. Len(log) : log[n].id \in Ids /\ log[n].tag \in Int
      BY <2>2 DEF ReleaseDetected, Tags
    <2>4. \A n \in 1 .. Len(log) : told[log[n].id] # <<>>
      BY DEF LogInv
    <2> QED
      BY <2>1, <2>3, <2>4, IInvFacts
  <1>1. CASE PublishOk /\ Handover
    <2>1. /\ saga \in Row /\ saga.id \in Ids /\ tag \in Tags /\ tag \in Int
          /\ told[saga.id] \in Seq(Tags) /\ Len(told[saga.id]) \in Nat
          /\ told'[saga.id] = Append(told[saga.id], tag)
          /\ log'[Len(log) + 1] = [id |-> saga.id, tag |-> tag]
          /\ Len(log') = Len(log) + 1
          /\ \A n \in 1 .. Len(log) : log'[n] = log[n]
      BY <1>1, HandoverFacts, OrderFacts
    <2>2. NewLastTold(saga.id) = tag
      BY <2>1, AppendFacts
    <2>3. \A id \in Ids : id # saga.id => NewLastTold(id) = LastTold(id)
      BY <1>0, <1>1, HandoverFacts DEF LastTold
    <2> HIDE DEF NewLastTold
    <2>4. LastTold(saga.id) \in Int /\ LastTold(saga.id) < tag
      BY <2>1, OrderFacts DEF OrderInv, Behind
    <2>5. \A n \in 1 .. Len(log) : log[n].id = saga.id => log[n].tag < tag
      BY <1>0, <2>1, <2>4 DEF LogOrder
    <2>6. ASSUME NEW n \in 1 .. Len(log')
          PROVE  log'[n].tag <= NewLastTold(log'[n].id)
      <3>1. CASE n = Len(log) + 1
        BY <2>1, <2>2, <3>1
      <3>2. CASE n \in 1 .. Len(log)
        BY <1>0, <2>1, <2>2, <2>3, <2>5, <3>2 DEF LogOrder
      <3> QED
        BY <1>0, <2>1, <3>1, <3>2
    <2>7. ASSUME NEW m \in 1 .. Len(log'), NEW n \in 1 .. Len(log'),
                 m < n, log'[m].id = log'[n].id
          PROVE  log'[m].tag < log'[n].tag
      <3>1. m \in 1 .. Len(log)
        BY <1>0, <2>1, <2>7
      <3>2. CASE n = Len(log) + 1
        BY <2>1, <2>5, <2>7, <3>1, <3>2
      <3>3. CASE n \in 1 .. Len(log)
        BY <2>1, <2>7, <3>1, <3>3 DEF LogOrder
      <3> QED
        BY <1>0, <2>1, <3>2, <3>3
    <2> QED
      BY <2>6, <2>7 DEF LogOrder, LastTold, NewLastTold
  <1>2. CASE ~ (PublishOk /\ Handover)
    <2>1. /\ log' = log
          /\ \A id \in Ids : \/ told'[id] = told[id]
                             \/ told[id] = <<>> /\ Len(told'[id]) = 1
      BY <1>2, OtherSteps
    <2>2. \A n \in 1 .. Len(log) : NewLastTold(log[n].id) = LastTold(log[n].id)
      BY <1>0, <2>1 DEF LastTold
    <2> QED
      BY <2>1, <2>2 DEF LogOrder, LastTold
  <1> QED
    BY <1>1, <1>2

(* The invariants of both sides and of the log between them.               *)
LEMMA AlwaysLog ==
    ASSUME D!DeliveryAssumption
    PROVE  System => [](IInv /\ D!IInv /\ LogInv)
  <1>1. Init => IInv
    BY InitIInv
  <1>2. Init /\ D!Init /\ log = <<>> => LogInv
    BY DEF Init, D!Init, LogInv
  <1>3. IInv /\ [Next]_vars => IInv'
    BY NextIInv
  <1>4. IInv /\ LogInv /\ [Next]_vars /\ [Handover]_<<vars, delivery, log>> => LogInv'
    BY NextLogInv
  <1>5. D!Spec => []D!IInv
    BY D!AlwaysIInv
  <1> QED
    BY <1>1, <1>2, <1>3, <1>4, <1>5, PTL DEF System, Spec, D!Spec

(* What a consumer has mailed was published before.                        *)
LEMMA MailsOnLog ==
    ASSUME D!IInv, LogInv, NEW c \in Consumers, NEW n \in 1 .. Len(mails[c]),
           MaxMessages \in Nat
    PROVE  mails[c][n] \in 1 .. Len(log)
  <1>1. mails[c] \in Seq(1 .. MaxMessages)
    BY DEF D!IInv, D!TypeOK, D!Messages
  <1>2. mails[c][n] <= published
    BY DEF D!IInv, D!InLine, D!UpTo
  <1>3. mails[c][n] \in 1 .. MaxMessages
    BY <1>1
  <1> QED
    BY <1>2, <1>3 DEF LogInv

-----------------------------------------------------------------------------
(* Failed, lost and late calls, cancelled runs, crashes of either process, *)
(* outages and full buffers may cost a subscriber mails, but unless a      *)
(* lookup goes back to an earlier release no mail comes twice from one     *)
(* service and none after that of a later release.                         *)
THEOREM SubscriberHearsInOrder ==
    ASSUME D!DeliveryAssumption, "staleTag" \notin Faults
    PROVE  System => []HeardInOrder
  <1>1. Init => IInv /\ OrderInv
    BY InitIInv, InitOrderInv
  <1>2. IInv /\ OrderInv /\ [Next]_vars => OrderInv'
    BY NextOrderInv
  <1>3. log = <<>> => LogOrder
    BY DEF LogOrder
  <1>4. IInv /\ OrderInv /\ LogInv /\ LogOrder /\ [Next]_vars
            /\ [Handover]_<<vars, delivery, log>> => LogOrder'
    BY NextLogOrder
  <1>5. ASSUME D!IInv, LogInv, LogOrder
        PROVE  HeardInOrder
    <2>1. \A c \in Consumers : \A m, n \in 1 .. Len(mails[c]) :
              m < n => mails[c][m] < mails[c][n]
      BY <1>5 DEF D!IInv, D!InLine, D!Rising
    <2>2. \A c \in Consumers : \A n \in 1 .. Len(mails[c]) : mails[c][n] \in 1 .. Len(log)
      BY <1>5, MailsOnLog DEF D!DeliveryAssumption
    <2> QED
      BY <1>5, <2>1, <2>2 DEF LogOrder, HeardInOrder
  <1> QED
    BY <1>1, <1>2, <1>3, <1>4, <1>5, AlwaysLog, PTL DEF System, Spec

(* Whatever goes wrong on either side, no release is mailed to an address  *)
(* that has not confirmed.                                                 *)
THEOREM OptInIsEndToEnd ==
    ASSUME D!DeliveryAssumption
    PROVE  System => []OnlyConfirmedHear
  <1>1. ASSUME IInv, D!IInv, LogInv
        PROVE  OnlyConfirmedHear
    <2>1. \A c \in Consumers : \A n \in 1 .. Len(mails[c]) : mails[c][n] \in 1 .. Len(log)
      BY <1>1, MailsOnLog DEF D!DeliveryAssumption
    <2>2. ASSUME NEW c \in Consumers, NEW n \in 1 .. Len(mails[c]),
                 NEW r \in rows, r.id = log[mails[c][n]].id
          PROVE  r.confirmed
      <3>1. Len(told[r.id]) > 1
        BY <1>1, <2>1, <2>2 DEF LogInv
      <3>2. Len(told[r.id]) # 1
        <4> DEFINE l == Len(told[r.id])
        <4>1. l > 1
          BY <3>1
        <4> HIDE DEF l
        <4>2. l # 1
          BY <4>1
        <4> QED
          BY <4>2 DEF l
      <3>3. r.confirmed \/ Len(told[r.id]) = 1
        BY <1>1 DEF IInv, PendingNeverNotified
      <3> QED
        BY <3>2, <3>3
    <2> QED
      BY <2>2 DEF OnlyConfirmedHear
  <1> QED
    BY <1>1, AlwaysLog, PTL

(* With one service at least, and as long as nothing breaks on the bus, nor *)
(* the scanner's process, which has its end of it, and events fit into the *)
(* subscription, every event that the scanner counts as sent gets to a     *)
(* mailbox, whatever calls fail.                                           *)
THEOREM NothingGetsLost ==
    ASSUME D!DeliveryAssumption, D!Undisturbed, Consumers # {}
    PROVE  System => []ToldIsHeard
  <1>1. D!Spec => []D!OutageLosesNothing
    BY D!NothingLost
  <1>2. LogInv /\ D!OutageLosesNothing => ToldIsHeard
    BY DEF LogInv, D!OutageLosesNothing, ToldIsHeard
  <1> QED
    BY <1>1, <1>2, AlwaysLog, PTL DEF System

=============================================================================
