------------------------ MODULE NotificationDelivery ------------------------
(***************************************************************************)
(* What becomes of a ReleaseDetected event: the scanner's Publish on a     *)
(* core NATS connection, the broker, and the notification services, each   *)
(* of which mails every event its plain subscription delivers.             *)
(*                                                                         *)
(* NATS is external and modelled from how the code uses it: nats.Connect   *)
(* with no options, Publish without Flush, Subscribe without a queue group *)
(* or an acknowledgement.  Its client queues what it is given, reconnects  *)
(* a limited number of times, and then closes the connection for good.     *)
(*                                                                         *)
(* The n-th event that Publish takes is message n.  A Publish that returns *)
(* an error has no effect here: the saga compensates and the event is due  *)
(* again on the next scan, as module ReleaseScanner shows.                 *)
(***************************************************************************)
EXTENDS Integers, Sequences

CONSTANTS
    Consumers,      \* notification services
    MaxEvents,      \* bound: events that become due
    BufferLimit,    \* messages the NATS client keeps while it reconnects
    PendingLimit,   \* messages a subscription keeps for its callback
    Faults          \* which of FaultKinds the environment may produce

FaultKinds == {
    "outage",           \* the broker goes down and comes back
    "wireLoss",         \* ... and takes with it what is on the wire
    "giveUp",           \* an outage outlasts the client's reconnect attempts
    "scannerStops",     \* the scanner ends, by SIGTERM or a crash
    "consumerStops",    \* so does a notification service
    "mailFails" }       \* the SMTP server refuses a mail

ASSUME DeliveryAssumption ==
    /\ MaxEvents \in Nat
    /\ BufferLimit \in Nat
    /\ PendingLimit \in Nat
    /\ Faults \subseteq FaultKinds

VARIABLES
    broker,     \* whether the NATS server is up
    conn,       \* the scanner's connection
    outbox,     \* what its client has taken and the broker has not
    published,  \* how many events Publish has taken
    link,       \* each consumer's connection
    queue,      \* what is on its way to the consumer's callback
    hand,       \* the message its callback is working on
    mails       \* history: the messages it has mailed

scanner == <<conn, outbox, published>>
consumer == <<link, queue, hand, mails>>
vars == <<broker, scanner, consumer>>

Messages == 1 .. MaxEvents
Nothing == 0
Connections == {"off", "connected", "reconnecting", "closed"}

TypeOK ==
    /\ broker \in BOOLEAN
    /\ conn \in Connections
    /\ outbox \in Seq(Messages)
    /\ published \in 0 .. MaxEvents
    /\ link \in [Consumers -> Connections]
    /\ queue \in [Consumers -> Seq(Messages)]
    /\ hand \in [Consumers -> Messages \cup {Nothing}]
    /\ mails \in [Consumers -> Seq(Messages)]
    /\ "connected" \in {conn} \cup {link[c] : c \in Consumers} => broker

(* All services are up, as docker compose starts them.                     *)
Init ==
    /\ broker = TRUE
    /\ conn = "connected"
    /\ outbox = <<>>
    /\ published = 0
    /\ link = [c \in Consumers |-> "connected"]
    /\ queue = [c \in Consumers |-> <<>>]
    /\ hand = [c \in Consumers |-> Nothing]
    /\ mails = [c \in Consumers |-> <<>>]

-----------------------------------------------------------------------------
(* The scanner.                                                            *)

(* Mutant of Publish: a request, which fails unless a consumer is there.   *)
PublishToConsumer ==
    /\ published < MaxEvents
    /\ conn = "connected"
    /\ \E c \in Consumers : link[c] = "connected"
    /\ published' = published + 1
    /\ outbox' = Append(outbox, published + 1)
    /\ UNCHANGED <<broker, conn, consumer>>

(* Publish returns nil once the client has the message, connected or not;  *)
(* to the scanner that is a notification sent.                             *)
Publish ==
    /\ published < MaxEvents
    /\ \/ conn = "connected"
       \/ conn = "reconnecting" /\ Len(outbox) < BufferLimit
    /\ published' = published + 1
    /\ outbox' = Append(outbox, published + 1)
    /\ UNCHANGED <<broker, conn, consumer>>

(* Run returns and the connection is closed, or the process dies: what its *)
(* client has not got rid of is gone.                                       *)
ScannerStops ==
    /\ "scannerStops" \in Faults
    /\ conn # "off"
    /\ conn' = "off"
    /\ outbox' = <<>>
    /\ UNCHANGED <<broker, published, consumer>>

(* The process ends at once if nats.Connect fails.                         *)
ScannerStarts ==
    /\ conn = "off"
    /\ broker
    /\ conn' = "connected"
    /\ UNCHANGED <<broker, outbox, published, consumer>>

-----------------------------------------------------------------------------
(* NATS.                                                                   *)

(* The broker passes a message on to every consumer that is connected now, *)
(* and keeps nothing; a subscription whose callback is behind drops it.    *)
Route ==
    /\ conn = "connected"
    /\ outbox # <<>>
    /\ outbox' = Tail(outbox)
    /\ queue' = [c \in Consumers |->
                    IF link[c] = "connected" /\ Len(queue[c]) < PendingLimit
                    THEN Append(queue[c], Head(outbox))
                    ELSE queue[c]]
    /\ UNCHANGED <<broker, conn, published, link, hand, mails>>

Broken(connection) == IF connection = "connected" THEN "reconnecting" ELSE connection

(* What may be left of a connection's messages when it breaks: those that  *)
(* are not on the wire, the later of the scanner's, the earlier of a       *)
(* consumer's.                                                             *)
CutAt(connection, s) ==
    IF connection = "connected" /\ "wireLoss" \in Faults THEN 0 .. Len(s) ELSE {Len(s)}

OutageBegins ==
    /\ "outage" \in Faults
    /\ broker
    /\ broker' = FALSE
    /\ conn' = Broken(conn)
    /\ link' = [c \in Consumers |-> Broken(link[c])]
    /\ \E n \in CutAt(conn, outbox) :
        outbox' = SubSeq(outbox, Len(outbox) - n + 1, Len(outbox))
    /\ \E cut \in [Consumers -> 0 .. MaxEvents] :
        /\ \A c \in Consumers : cut[c] \in CutAt(link[c], queue[c])
        /\ queue' = [c \in Consumers |-> SubSeq(queue[c], 1, cut[c])]
    /\ UNCHANGED <<published, hand, mails>>

OutageEnds ==
    /\ ~ broker
    /\ broker' = TRUE
    /\ UNCHANGED <<scanner, consumer>>

ScannerReconnects ==
    /\ conn = "reconnecting"
    /\ broker
    /\ conn' = "connected"
    /\ UNCHANGED <<broker, outbox, published, consumer>>

(* The connection is closed for good: every Publish fails from now on, and *)
(* what the client had buffered is gone.  Nothing tells the scanner.       *)
ScannerGivesUp ==
    /\ "giveUp" \in Faults
    /\ conn = "reconnecting"
    /\ ~ broker
    /\ conn' = "closed"
    /\ outbox' = <<>>
    /\ UNCHANGED <<broker, published, consumer>>

ConsumerReconnects(c) ==
    /\ link[c] = "reconnecting"
    /\ broker
    /\ link' = [link EXCEPT ![c] = "connected"]
    /\ UNCHANGED <<broker, scanner, queue, hand, mails>>

(* The service goes on waiting for a signal, deaf.                         *)
ConsumerGivesUp(c) ==
    /\ "giveUp" \in Faults
    /\ link[c] = "reconnecting"
    /\ ~ broker
    /\ link' = [link EXCEPT ![c] = "closed"]
    /\ queue' = [queue EXCEPT ![c] = <<>>]
    /\ UNCHANGED <<broker, scanner, hand, mails>>

-----------------------------------------------------------------------------
(* The notification service.                                               *)

ConsumerStops(c) ==
    /\ "consumerStops" \in Faults
    /\ link[c] # "off"
    /\ link' = [link EXCEPT ![c] = "off"]
    /\ queue' = [queue EXCEPT ![c] = <<>>]
    /\ hand' = [hand EXCEPT ![c] = Nothing]
    /\ UNCHANGED <<broker, scanner, mails>>

(* Mutant of ConsumerStarts: the error of nats.Connect is not looked at.   *)
ConsumerStartsUnchecked(c) ==
    /\ link[c] = "off"
    /\ link' = [link EXCEPT ![c] = "connected"]
    /\ UNCHANGED <<broker, scanner, queue, hand, mails>>

(* The process ends at once if nats.Connect fails.                         *)
ConsumerStarts(c) ==
    /\ link[c] = "off"
    /\ broker
    /\ link' = [link EXCEPT ![c] = "connected"]
    /\ UNCHANGED <<broker, scanner, queue, hand, mails>>

(* Mutant of Take: the callback starts a goroutine for each message.       *)
TakeAny(c) ==
    /\ hand[c] = Nothing
    /\ \E i \in 1 .. Len(queue[c]) :
        /\ hand' = [hand EXCEPT ![c] = queue[c][i]]
        /\ queue' = [queue EXCEPT ![c] = SubSeq(@, 1, i - 1) \o SubSeq(@, i + 1, Len(@))]
    /\ UNCHANGED <<broker, scanner, link, mails>>

(* The subscription runs one callback at a time.                           *)
Take(c) ==
    /\ hand[c] = Nothing
    /\ queue[c] # <<>>
    /\ hand' = [hand EXCEPT ![c] = Head(queue[c])]
    /\ queue' = [queue EXCEPT ![c] = Tail(@)]
    /\ UNCHANGED <<broker, scanner, link, mails>>

(* HandleReleaseDetected: the SMTP server takes the mail.  Send may report *)
(* an error all the same; the callback drops the error either way.         *)
MailAccepted(c) ==
    /\ hand[c] # Nothing
    /\ mails' = [mails EXCEPT ![c] = Append(@, hand[c])]
    /\ hand' = [hand EXCEPT ![c] = Nothing]
    /\ UNCHANGED <<broker, scanner, link, queue>>

(* The event is dropped: there is no acknowledgement to withhold.          *)
MailFails(c) ==
    /\ "mailFails" \in Faults
    /\ hand[c] # Nothing
    /\ hand' = [hand EXCEPT ![c] = Nothing]
    /\ UNCHANGED <<broker, scanner, link, queue, mails>>

Nats ==
    \/ OutageBegins \/ OutageEnds
    \/ Route \/ ScannerReconnects \/ ScannerGivesUp
    \/ \E c \in Consumers : ConsumerReconnects(c) \/ ConsumerGivesUp(c)

Scanner == Publish \/ ScannerStops \/ ScannerStarts

Consume(c) == Take(c) \/ MailAccepted(c) \/ MailFails(c)

Next ==
    \/ Nats
    \/ Scanner
    \/ \E c \in Consumers : ConsumerStops(c) \/ ConsumerStarts(c) \/ Consume(c)

Spec == Init /\ [][Next]_vars

(* The broker comes back; the client that tries to reconnect, the operator *)
(* who starts what has ended and the scan that publishes what is due try   *)
(* again and again, so an outage does not stop them each time.  Nothing is *)
(* asked of the notification services.                                     *)
FairSpec ==
    /\ Spec
    /\ WF_vars(OutageEnds)
    /\ SF_vars(ScannerStarts)
    /\ SF_vars(ScannerReconnects)
    /\ SF_vars(Publish)

-----------------------------------------------------------------------------
(* Whatever breaks and reconnects, a consumer mails the events in the      *)
(* order they were published in, and none of them twice.                   *)
MailedInOrder ==
    \A c \in Consumers : \A m, n \in 1 .. Len(mails[c]) :
        m < n => mails[c][m] < mails[c][n]

Holds(s, n) == \E i \in 1 .. Len(s) : s[i] = n

(* Event n is with NATS or with a consumer.                                *)
OnItsWay(n) ==
    Holds(outbox, n) \/ \E c \in Consumers : Holds(queue[c], n) \/ hand[c] = n

Mailed(n) == \E c \in Consumers : Holds(mails[c], n)

(* Once NATS is down the saga rolls back and the event is due again, so an *)
(* event that Publish took is on its way or has been mailed.               *)
OutageLosesNothing ==
    \A n \in 1 .. published : OnItsWay(n) \/ Mailed(n)

(* Outages and restarts delay publications but do not end them, and no     *)
(* notification service has to be there: either the scanner publishes      *)
(* every event, or its connection is closed for good.                      *)
EveryEventIsPublished ==
    <>(published = MaxEvents) \/ <>[](conn = "closed")

=============================================================================
