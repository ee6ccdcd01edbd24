--------------------- MODULE NotificationDeliveryProofs ---------------------
(***************************************************************************)
(* NotificationDelivery keeps its types and the order of the mails, for    *)
(* any number of consumers and events, any limits and any set of faults.   *)
(*                                                                         *)
(* A message passes through the scanner's outbox, the queue, the hand and  *)
(* the mails of each consumer.  The invariant says that whatever is in a   *)
(* later place was published earlier than whatever is in an earlier one.   *)
(* Faults only cut messages off either end of a sequence (Cut), and that   *)
(* disturbs no order; only Append adds one, and always behind the others.  *)
(***************************************************************************)
EXTENDS NotificationDelivery, TLAPS, SequenceTheorems

Rising(s) == \A m, n \in 1 .. Len(s) : m < n => s[m] < s[n]

Before(s, t) == \A m \in 1 .. Len(s), n \in 1 .. Len(t) : s[m] < t[n]

UpTo(s, k) == \A m \in 1 .. Len(s) : s[m] <= k

(* The chain of places behind the outbox, for one consumer.                *)
InLine(c) ==
    /\ Rising(mails[c]) /\ Rising(queue[c])
    /\ UpTo(mails[c], published) /\ UpTo(queue[c], published)
    /\ Before(mails[c], queue[c])
    /\ Before(mails[c], outbox) /\ Before(queue[c], outbox)
    /\ hand[c] # Nothing =>
        /\ hand[c] <= published
        /\ \A n \in 1 .. Len(mails[c]) : mails[c][n] < hand[c]
        /\ \A n \in 1 .. Len(queue[c]) : hand[c] < queue[c][n]
        /\ \A n \in 1 .. Len(outbox) : hand[c] < outbox[n]

IInv ==
    /\ TypeOK
    /\ Rising(outbox) /\ UpTo(outbox, published)
    /\ \A c \in Consumers : InLine(c)

-----------------------------------------------------------------------------
(* t is what is left of s when messages are cut off at either end.         *)
Cut(s, t) ==
    \E d \in 0 .. Len(s) :
        /\ d + Len(t) <= Len(s)
        /\ \A n \in 1 .. Len(t) : t[n] = s[n + d]

(* The steps that shorten a sequence are cuts: Tail, SubSeq, losing all.   *)
LEMMA CutCases ==
    ASSUME NEW s \in Seq(Messages)
    PROVE  /\ Cut(s, s) /\ Cut(s, <<>>)
           /\ s # <<>> => Cut(s, Tail(s)) /\ Tail(s) \in Seq(Messages)
           /\ \A n \in 0 .. Len(s) :
                /\ Cut(s, SubSeq(s, 1, n)) /\ SubSeq(s, 1, n) \in Seq(Messages)
                /\ Cut(s, SubSeq(s, Len(s) - n + 1, Len(s)))
                /\ SubSeq(s, Len(s) - n + 1, Len(s)) \in Seq(Messages)
  <1>0. Len(s) \in Nat
    OBVIOUS
  <1>1. Cut(s, s)
    <2>1. 0 \in 0 .. Len(s) /\ 0 + Len(s) <= Len(s)
      BY <1>0
    <2>2. \A n \in 1 .. Len(s) : s[n] = s[n + 0]
      BY <1>0
    <2> QED
      BY <2>1, <2>2 DEF Cut
  <1>2. Cut(s, <<>>)
    BY <1>0 DEF Cut
  <1>3. ASSUME s # <<>>
        PROVE  Cut(s, Tail(s)) /\ Tail(s) \in Seq(Messages)
    <2>1. /\ Tail(s) \in Seq(Messages) /\ Len(s) >= 1 /\ Len(Tail(s)) = Len(s) - 1
          /\ \A n \in 1 .. Len(Tail(s)) : Tail(s)[n] = s[n + 1]
      BY <1>3, HeadTailProperties, EmptySeq
    <2> QED
      BY <1>0, <2>1 DEF Cut
  <1>4. ASSUME NEW n \in 0 .. Len(s)
        PROVE  /\ Cut(s, SubSeq(s, 1, n)) /\ SubSeq(s, 1, n) \in Seq(Messages)
               /\ Cut(s, SubSeq(s, Len(s) - n + 1, Len(s)))
               /\ SubSeq(s, Len(s) - n + 1, Len(s)) \in Seq(Messages)
    <2>1. /\ SubSeq(s, 1, n) \in Seq(Messages) /\ Len(SubSeq(s, 1, n)) = n
          /\ \A i \in 1 .. n : SubSeq(s, 1, n)[i] = s[i]
      BY <1>0
    <2>2. /\ SubSeq(s, Len(s) - n + 1, Len(s)) \in Seq(Messages)
          /\ Len(SubSeq(s, Len(s) - n + 1, Len(s))) = n
          /\ \A i \in 1 .. n :
                SubSeq(s, Len(s) - n + 1, Len(s))[i] = s[i + (Len(s) - n)]
      BY <1>0
    <2>3. Cut(s, SubSeq(s, 1, n))
      <3>1. 0 \in 0 .. Len(s) /\ \A i \in 1 .. n : s[i] = s[i + 0]
        BY <1>0
      <3> QED
        BY <1>0, <2>1, <3>1 DEF Cut
    <2>4. Cut(s, SubSeq(s, Len(s) - n + 1, Len(s)))
      <3>1. Len(s) - n \in 0 .. Len(s) /\ (Len(s) - n) + n <= Len(s)
        BY <1>0
      <3> QED
        BY <2>2, <3>1 DEF Cut
    <2> QED
      BY <2>1, <2>2, <2>3, <2>4
  <1> QED
    BY <1>1, <1>2, <1>3, <1>4

(* A cut keeps every order and every bound.                                *)
LEMMA CutKeeps ==
    ASSUME NEW s \in Seq(Messages), NEW t \in Seq(Messages), Cut(s, t)
    PROVE  /\ Rising(s) => Rising(t)
           /\ \A k \in Int : UpTo(s, k) => UpTo(t, k)
           /\ \A q \in Seq(Messages) :
                /\ Before(s, q) => Before(t, q)
                /\ Before(q, s) => Before(q, t)
           /\ \A k \in Int : (\A n \in 1 .. Len(s) : k < s[n]) =>
                                \A n \in 1 .. Len(t) : k < t[n]
  <1>1. PICK d \in 0 .. Len(s) :
            /\ d + Len(t) <= Len(s)
            /\ \A n \in 1 .. Len(t) : t[n] = s[n + d]
    BY DEF Cut
  <1>2. Len(s) \in Nat /\ Len(t) \in Nat
    OBVIOUS
  <1>3. \A n \in 1 .. Len(t) : n + d \in 1 .. Len(s) /\ t[n] = s[n + d]
    BY <1>1, <1>2
  <1>4. \A m, n \in 1 .. Len(t) : m < n => m + d < n + d
    BY <1>1, <1>2
  <1>5. Rising(s) => Rising(t)
    BY <1>3, <1>4 DEF Rising
  <1>6. \A k \in Int : UpTo(s, k) => UpTo(t, k)
    BY <1>3 DEF UpTo
  <1>7. \A q \in Seq(Messages) :
            (Before(s, q) => Before(t, q)) /\ (Before(q, s) => Before(q, t))
    BY <1>3 DEF Before
  <1>8. \A k \in Int : (\A n \in 1 .. Len(s) : k < s[n]) =>
                            \A n \in 1 .. Len(t) : k < t[n]
    BY <1>3
  <1> QED
    BY <1>5, <1>6, <1>7, <1>8

(* A message appended behind all others keeps every order.                 *)
LEMMA AppendKeeps ==
    ASSUME NEW s \in Seq(Messages), NEW e \in Messages
    PROVE  /\ Append(s, e) \in Seq(Messages)
           /\ Rising(s) /\ (\A n \in 1 .. Len(s) : s[n] < e) => Rising(Append(s, e))
           /\ \A k \in Int : UpTo(s, k) /\ e <= k => UpTo(Append(s, e), k)
           /\ \A q \in Seq(Messages) :
                /\ Before(q, s) /\ (\A n \in 1 .. Len(q) : q[n] < e) =>
                        Before(q, Append(s, e))
                /\ Before(s, q) /\ (\A n \in 1 .. Len(q) : e < q[n]) =>
                        Before(Append(s, e), q)
           /\ \A k \in Int : (\A n \in 1 .. Len(s) : k < s[n]) /\ k < e =>
                                \A n \in 1 .. Len(Append(s, e)) : k < Append(s, e)[n]
  <1> DEFINE t == Append(s, e)
  <1>1. /\ t \in Seq(Messages) /\ Len(s) \in Nat /\ Len(t) = Len(s) + 1
        /\ t[Len(s) + 1] = e
        /\ \A n \in 1 .. Len(s) : t[n] = s[n]
    BY AppendProperties
  <1> HIDE DEF t
  <1>2. \A n \in 1 .. Len(t) :
            \/ n \in 1 .. Len(s) /\ t[n] = s[n]
            \/ n = Len(s) + 1 /\ t[n] = e
    BY <1>1
  <1>3. Rising(s) /\ (\A n \in 1 .. Len(s) : s[n] < e) => Rising(t)
    <2> SUFFICES ASSUME Rising(s), \A n \in 1 .. Len(s) : s[n] < e,
                        NEW m \in 1 .. Len(t), NEW n \in 1 .. Len(t), m < n
                 PROVE  t[m] < t[n]
      BY DEF Rising
    <2>1. m \in 1 .. Len(s)
      BY <1>1
    <2> QED
      BY <1>1, <1>2, <2>1 DEF Rising
  <1>4. \A k \in Int : UpTo(s, k) /\ e <= k => UpTo(t, k)
    BY <1>2 DEF UpTo
  <1>5. \A q \in Seq(Messages) :
            /\ Before(q, s) /\ (\A n \in 1 .. Len(q) : q[n] < e) => Before(q, t)
            /\ Before(s, q) /\ (\A n \in 1 .. Len(q) : e < q[n]) => Before(t, q)
    BY <1>2 DEF Before
  <1>6. \A k \in Int : (\A n \in 1 .. Len(s) : k < s[n]) /\ k < e =>
                            \A n \in 1 .. Len(t) : k < t[n]
    BY <1>2
  <1> QED
    BY <1>1, <1>3, <1>4, <1>5, <1>6 DEF t

(* The same for two sequences, one of which grows.                         *)
LEMMA AppendBefore ==
    ASSUME NEW q \in Seq(Messages), NEW s \in Seq(Messages), NEW e \in Messages,
           Before(q, s), \A n \in 1 .. Len(q) : q[n] < e
    PROVE  Before(q, Append(s, e))
  BY AppendKeeps

(* ... at the later or at the earlier of the two places.                   *)
LEMMA AppendAfter ==
    ASSUME NEW q \in Seq(Messages), NEW s \in Seq(Messages), NEW e \in Messages,
           Before(s, q), \A n \in 1 .. Len(q) : e < q[n]
    PROVE  Before(Append(s, e), q)
  BY AppendKeeps

-----------------------------------------------------------------------------
(* Shapes that the steps below need of the types.                          *)
LEMMA Shapes ==
    ASSUME TypeOK
    PROVE  /\ outbox \in Seq(Messages)
           /\ published \in Nat /\ published <= MaxEvents
           /\ \A c \in Consumers :
                /\ queue[c] \in Seq(Messages) /\ mails[c] \in Seq(Messages)
                /\ hand[c] \in Messages \cup {Nothing} /\ link[c] \in Connections
  BY DeliveryAssumption DEF TypeOK

(* Every action keeps the types.                                           *)
LEMMA NextTypeOK == ASSUME TypeOK, [Next]_vars PROVE TypeOK'
  <1> USE DeliveryAssumption
  <1>1. CASE Publish
    <2>1. published + 1 \in Messages
      BY <1>1, Shapes DEF Publish, Messages
    <2>2. outbox' \in Seq(Messages)
      BY <1>1, <2>1, Shapes, AppendKeeps DEF Publish
    <2>3. published' \in 0 .. MaxEvents
      BY <1>1, Shapes DEF Publish
    <2> QED
      BY <1>1, <2>2, <2>3 DEF Publish, consumer, TypeOK
  <1>2. CASE ScannerStops
    BY <1>2, Shapes DEF ScannerStops, consumer, TypeOK, Connections
  <1>3. CASE ScannerStarts
    BY <1>3 DEF ScannerStarts, consumer, TypeOK, Connections
  <1>4. CASE Route
    <2>1. Tail(outbox) \in Seq(Messages) /\ Head(outbox) \in Messages
      BY <1>4, Shapes, HeadTailProperties, EmptySeq DEF Route
    <2>2. \A c \in Consumers : Append(queue[c], Head(outbox)) \in Seq(Messages)
      BY <2>1, Shapes, AppendKeeps
    <2>3. queue' \in [Consumers -> Seq(Messages)]
      BY <1>4, <2>2, Shapes DEF Route
    <2> QED
      BY <1>4, <2>1, <2>3 DEF Route, TypeOK
  <1>5. CASE OutageBegins
    <2>1. PICK n \in CutAt(conn, outbox) :
            outbox' = SubSeq(outbox, Len(outbox) - n + 1, Len(outbox))
      BY <1>5 DEF OutageBegins
    <2>2. PICK cut \in [Consumers -> 0 .. MaxEvents] :
            /\ \A c \in Consumers : cut[c] \in CutAt(link[c], queue[c])
            /\ queue' = [c \in Consumers |-> SubSeq(queue[c], 1, cut[c])]
      BY <1>5 DEF OutageBegins
    <2>3. outbox' \in Seq(Messages)
      BY <2>1, Shapes, CutCases DEF CutAt
    <2>4. \A c \in Consumers : cut[c] \in 0 .. Len(queue[c])
      BY <2>2, Shapes DEF CutAt
    <2>5. queue' \in [Consumers -> Seq(Messages)]
      BY <2>2, <2>4, Shapes, CutCases
    <2>6. /\ conn' \in Connections /\ conn' # "connected"
          /\ link' \in [Consumers -> Connections]
          /\ \A c \in Consumers : link'[c] # "connected"
      BY <1>5 DEF OutageBegins, Broken, TypeOK, Connections
    <2> QED
      BY <1>5, <2>3, <2>5, <2>6 DEF OutageBegins, TypeOK
  <1>6. CASE OutageEnds
    BY <1>6 DEF OutageEnds, scanner, consumer, TypeOK
  <1>7. CASE ScannerReconnects
    BY <1>7 DEF ScannerReconnects, consumer, TypeOK, Connections
  <1>8. CASE ScannerGivesUp
    BY <1>8 DEF ScannerGivesUp, consumer, TypeOK, Connections
  <1>9. ASSUME NEW c \in Consumers, ConsumerReconnects(c) \/ ConsumerStarts(c)
        PROVE  TypeOK'
    BY <1>9 DEF ConsumerReconnects, ConsumerStarts, scanner, TypeOK, Connections
  <1>10. ASSUME NEW c \in Consumers, ConsumerGivesUp(c) \/ ConsumerStops(c)
         PROVE  TypeOK'
    <2>0. <<>> \in Seq(Messages)
      OBVIOUS
    <2>1. queue' \in [Consumers -> Seq(Messages)]
      <3>1. queue' = [queue EXCEPT ![c] = <<>>]
        BY <1>10 DEF ConsumerGivesUp, ConsumerStops
      <3> QED
        BY <2>0, <3>1 DEF TypeOK
    <2>2. hand' \in [Consumers -> Messages \cup {Nothing}]
      BY <1>10 DEF ConsumerGivesUp, ConsumerStops, TypeOK
    <2>3. /\ link' \in [Consumers -> Connections]
          /\ \A d \in Consumers : link'[d] = "connected" => link[d] = "connected"
      BY <1>10 DEF ConsumerGivesUp, ConsumerStops, TypeOK, Connections
    <2> QED
      BY <1>10, <2>1, <2>2, <2>3 DEF ConsumerGivesUp, ConsumerStops, scanner, TypeOK
  <1>11. ASSUME NEW c \in Consumers, Take(c)
         PROVE  TypeOK'
    <2>1. Tail(queue[c]) \in Seq(Messages) /\ Head(queue[c]) \in Messages
      BY <1>11, Shapes, HeadTailProperties, EmptySeq DEF Take
    <2> QED
      BY <1>11, <2>1 DEF Take, scanner, TypeOK
  <1>12. ASSUME NEW c \in Consumers, MailAccepted(c)
         PROVE  TypeOK'
    <2>1. Append(mails[c], hand[c]) \in Seq(Messages)
      BY <1>12, Shapes, AppendKeeps DEF MailAccepted
    <2> QED
      BY <1>12, <2>1 DEF MailAccepted, scanner, TypeOK
  <1>13. ASSUME NEW c \in Consumers, MailFails(c)
         PROVE  TypeOK'
    BY <1>13 DEF MailFails, scanner, TypeOK
  <1>14. CASE UNCHANGED vars
    BY <1>14 DEF vars, scanner, consumer, TypeOK
  <1> QED
    BY <1>1, <1>2, <1>3, <1>4, <1>5, <1>6, <1>7, <1>8, <1>9, <1>10, <1>11,
       <1>12, <1>13, <1>14 DEF Next, Nats, Scanner, Consume

-----------------------------------------------------------------------------
(* A step that publishes and mails nothing, and only cuts messages off,    *)
(* keeps the line of a consumer.                                           *)
LEMMA CutsKeepLine ==
    ASSUME IInv, TypeOK', NEW c \in Consumers,
           Cut(outbox, outbox'), Cut(queue[c], queue'[c]),
           mails'[c] = mails[c], published' = published,
           hand'[c] \in {hand[c], Nothing}
    PROVE  InLine(c)'
  <1>1. /\ outbox \in Seq(Messages) /\ queue[c] \in Seq(Messages)
        /\ mails[c] \in Seq(Messages) /\ published \in Int
        /\ hand[c] \in Int
    BY Shapes, DeliveryAssumption DEF IInv, Messages, Nothing
  <1>2. outbox' \in Seq(Messages) /\ queue'[c] \in Seq(Messages)
    BY DEF TypeOK
  <1>3. /\ Rising(queue'[c]) /\ UpTo(queue'[c], published)
        /\ Before(mails[c], queue'[c]) /\ Before(mails[c], outbox')
    BY <1>1, <1>2, CutKeeps DEF IInv, InLine
  <1>4. Before(queue'[c], outbox')
    <2>1. Before(queue'[c], outbox)
      BY <1>1, <1>2, CutKeeps DEF IInv, InLine
    <2> QED
      BY <1>1, <1>2, <2>1, CutKeeps
  <1>5. hand'[c] # Nothing =>
            /\ hand[c] <= published
            /\ \A n \in 1 .. Len(mails[c]) : mails[c][n] < hand[c]
            /\ \A n \in 1 .. Len(queue'[c]) : hand[c] < queue'[c][n]
            /\ \A n \in 1 .. Len(outbox') : hand[c] < outbox'[n]
    BY <1>1, <1>2, CutKeeps DEF IInv, InLine
  <1>6. Rising(mails[c]) /\ UpTo(mails[c], published)
    BY DEF IInv, InLine
  <1> QED
    BY <1>3, <1>4, <1>5, <1>6 DEF InLine, Rising, UpTo, Before

(* ... and the outbox.                                                     *)
LEMMA CutsKeepOutbox ==
    ASSUME IInv, TypeOK', Cut(outbox, outbox'), published' = published
    PROVE  (Rising(outbox) /\ UpTo(outbox, published))'
  <1>1. outbox \in Seq(Messages) /\ outbox' \in Seq(Messages) /\ published \in Int
    BY Shapes DEF IInv, TypeOK
  <1>2. Rising(outbox') /\ UpTo(outbox', published)
    BY <1>1, CutKeeps DEF IInv
  <1> QED
    BY <1>2 DEF Rising, UpTo

(* Every action keeps the invariant.                                       *)
LEMMA NextIInv == ASSUME IInv, [Next]_vars PROVE IInv'
  <1>0. /\ TypeOK /\ TypeOK'
        /\ outbox \in Seq(Messages) /\ published \in Nat
        /\ \A c \in Consumers :
            /\ queue[c] \in Seq(Messages) /\ mails[c] \in Seq(Messages)
            /\ hand[c] \in Int
            /\ Cut(queue[c], queue[c])
        /\ Cut(outbox, outbox)
    BY NextTypeOK, Shapes, CutCases, DeliveryAssumption DEF IInv, Messages, Nothing
  <1>n. /\ published \in Int /\ published + 1 \in Int
        /\ \A n \in 1 .. Len(outbox) : outbox[n] \in Int
        /\ \A c \in Consumers :
            /\ \A n \in 1 .. Len(queue[c]) : queue[c][n] \in Int
            /\ \A n \in 1 .. Len(mails[c]) : mails[c][n] \in Int
    <2>1. \A t \in Seq(Messages) : \A n \in 1 .. Len(t) : t[n] \in Int
      <3>1. \A t \in Seq(Messages) : \A n \in 1 .. Len(t) : t[n] \in Messages
        OBVIOUS
      <3> QED
        BY <3>1, DeliveryAssumption DEF Messages
    <2> QED
      BY <1>0, <2>1
  <1>c. ASSUME Cut(outbox, outbox'), published' = published,
               \A c \in Consumers :
                    /\ Cut(queue[c], queue'[c]) /\ mails'[c] = mails[c]
                    /\ hand'[c] \in {hand[c], Nothing}
        PROVE  IInv'
    BY <1>c, <1>0, CutsKeepLine, CutsKeepOutbox DEF IInv
  <1>1. CASE Publish
    <2>1. /\ published + 1 \in Messages /\ published' = published + 1
          /\ outbox' = Append(outbox, published + 1)
          /\ queue' = queue /\ hand' = hand /\ mails' = mails
      BY <1>1, <1>0, DeliveryAssumption DEF Publish, consumer, Messages, TypeOK
    <2>2. \A n \in 1 .. Len(outbox) : outbox[n] < published + 1
      BY <1>0, <1>n DEF IInv, UpTo
    <2>3. Rising(outbox')
      BY <1>0, <2>1, <2>2, AppendKeeps DEF IInv
    <2>4. UpTo(outbox', published + 1)
      <3>1. UpTo(outbox, published + 1)
        BY <1>n, <2>2 DEF UpTo
      <3> QED
        BY <1>0, <2>1, <3>1, AppendKeeps
    <2>5. ASSUME NEW c \in Consumers
          PROVE  InLine(c)'
      <3>1. /\ UpTo(mails[c], published + 1) /\ UpTo(queue[c], published + 1)
            /\ \A n \in 1 .. Len(mails[c]) : mails[c][n] < published + 1
            /\ \A n \in 1 .. Len(queue[c]) : queue[c][n] < published + 1
        <4>1. UpTo(mails[c], published) /\ UpTo(queue[c], published)
          BY DEF IInv, InLine
        <4>2. /\ \A n \in 1 .. Len(mails[c]) : mails[c][n] \in Int
              /\ \A n \in 1 .. Len(queue[c]) : queue[c][n] \in Int
          BY <1>n
        <4> QED
          BY <1>n, <4>1, <4>2 DEF UpTo
      <3>2. Before(mails[c], outbox') /\ Before(queue[c], outbox')
        BY <1>0, <2>1, <3>1, AppendKeeps DEF IInv, InLine
      <3>3. hand[c] # Nothing =>
                /\ hand[c] <= published + 1
                /\ \A n \in 1 .. Len(outbox') : hand[c] < outbox'[n]
        BY <1>0, <2>1, AppendKeeps DEF IInv, InLine
      <3> QED
        BY <2>1, <3>1, <3>2, <3>3 DEF IInv, InLine, Rising, UpTo, Before
    <2> QED
      BY <1>0, <2>1, <2>3, <2>4, <2>5 DEF IInv, Rising, UpTo
  <1>2. CASE ScannerStops \/ ScannerStarts \/ OutageEnds \/ ScannerReconnects
             \/ ScannerGivesUp
    <2>1. Cut(outbox, <<>>)
      BY <1>0, CutCases
    <2> QED
      BY <1>0, <1>2, <1>c, <2>1
      DEF ScannerStops, ScannerStarts, OutageEnds, ScannerReconnects,
          ScannerGivesUp, scanner, consumer
  <1>3. CASE Route
    <2> DEFINE e == Head(outbox)
    <2>1. /\ e \in Messages /\ e = outbox[1] /\ 1 \in 1 .. Len(outbox)
          /\ outbox' = Tail(outbox) /\ Cut(outbox, outbox')
          /\ Len(outbox') = Len(outbox) - 1
          /\ \A n \in 1 .. Len(outbox') : outbox'[n] = outbox[n + 1]
          /\ published' = published /\ hand' = hand /\ mails' = mails
      BY <1>0, <1>3, CutCases, HeadTailProperties, EmptySeq DEF Route
    <2>2. \A c \in Consumers : queue'[c] \in {queue[c], Append(queue[c], e)}
      BY <1>3 DEF Route
    <2> HIDE DEF e
    <2>3. \A n \in 1 .. Len(outbox') : e < outbox'[n]
      BY <1>0, <2>1 DEF IInv, Rising
    <2>4. e <= published
      BY <2>1 DEF IInv, UpTo
    <2>5. ASSUME NEW c \in Consumers, queue'[c] = Append(queue[c], e)
          PROVE  InLine(c)'
      <3>1. /\ Before(mails[c], outbox') /\ Before(queue[c], outbox')
            /\ hand[c] # Nothing => \A n \in 1 .. Len(outbox') : hand[c] < outbox'[n]
        <4>1. outbox' \in Seq(Messages)
          BY <1>0 DEF TypeOK
        <4> QED
          BY <1>0, <2>1, <4>1, CutKeeps DEF IInv, InLine
      <3>2. /\ \A n \in 1 .. Len(queue[c]) : queue[c][n] < e
            /\ \A n \in 1 .. Len(mails[c]) : mails[c][n] < e
            /\ hand[c] # Nothing => hand[c] < e
        BY <2>1 DEF IInv, InLine, Before
      <3>3. /\ Rising(queue'[c]) /\ UpTo(queue'[c], published)
            /\ Before(mails[c], queue'[c])
        <4>0. /\ queue[c] \in Seq(Messages) /\ mails[c] \in Seq(Messages)
              /\ Rising(queue[c]) /\ Before(mails[c], queue[c])
          BY <1>0 DEF IInv, InLine
        <4>m. e \in Messages
          BY <2>1
        <4>1. Rising(queue'[c])
          BY <2>5, <3>2, <4>0, <4>m, AppendKeeps
        <4>2. UpTo(queue'[c], published)
          BY <1>0, <1>n, <2>1, <2>4, <2>5, AppendKeeps DEF IInv, InLine
        <4>3. Before(mails[c], queue'[c])
          BY <2>1, <2>5, <3>2, <4>0, AppendBefore
        <4> QED
          BY <4>1, <4>2, <4>3
      <3>4. Before(queue'[c], outbox')
        <4>1. outbox' \in Seq(Messages)
          BY <1>0 DEF TypeOK
        <4>2. queue[c] \in Seq(Messages)
          BY <1>0
        <4> QED
          BY <2>1, <2>3, <2>5, <3>1, <4>1, <4>2, AppendAfter
      <3>5. hand[c] # Nothing => \A n \in 1 .. Len(queue'[c]) : hand[c] < queue'[c][n]
        BY <1>0, <2>1, <2>5, <3>2, AppendKeeps DEF IInv, InLine
      <3> QED
        BY <2>1, <3>1, <3>3, <3>4, <3>5 DEF IInv, InLine, Rising, UpTo, Before
    <2>6. ASSUME NEW c \in Consumers, queue'[c] = queue[c]
          PROVE  InLine(c)'
      BY <1>0, <2>1, <2>6, CutsKeepLine
    <2>7. (Rising(outbox) /\ UpTo(outbox, published))'
      BY <1>0, <2>1, CutsKeepOutbox
    <2> QED
      BY <1>0, <2>2, <2>5, <2>6, <2>7 DEF IInv
  <1>4. CASE OutageBegins
    <2>1. Cut(outbox, outbox')
      <3>1. PICK n \in CutAt(conn, outbox) :
                outbox' = SubSeq(outbox, Len(outbox) - n + 1, Len(outbox))
        BY <1>4 DEF OutageBegins
      <3> QED
        BY <1>0, <3>1, CutCases DEF CutAt
    <2>2. \A c \in Consumers : Cut(queue[c], queue'[c])
      <3>1. PICK cut \in [Consumers -> 0 .. MaxEvents] :
                /\ \A c \in Consumers : cut[c] \in CutAt(link[c], queue[c])
                /\ queue' = [c \in Consumers |-> SubSeq(queue[c], 1, cut[c])]
        BY <1>4 DEF OutageBegins
      <3>2. \A c \in Consumers : cut[c] \in 0 .. Len(queue[c])
        BY <1>0, <3>1 DEF CutAt
      <3> QED
        BY <1>0, <3>1, <3>2, CutCases
    <2> QED
      BY <1>4, <1>c, <2>1, <2>2 DEF OutageBegins
  <1>5. ASSUME NEW c \in Consumers,
               \/ ConsumerReconnects(c) \/ ConsumerStarts(c) \/ MailFails(c)
               \/ ConsumerGivesUp(c) \/ ConsumerStops(c)
        PROVE  IInv'
    <2>1. /\ outbox' = outbox /\ published' = published /\ mails' = mails
          /\ queue' \in {queue, [queue EXCEPT ![c] = <<>>]}
          /\ hand' \in {hand, [hand EXCEPT ![c] = Nothing]}
      BY <1>5 DEF ConsumerReconnects, ConsumerStarts, MailFails, ConsumerGivesUp,
                  ConsumerStops, scanner
    <2>2. \A d \in Consumers : queue'[d] \in {queue[d], <<>>}
      BY <1>0, <2>1 DEF TypeOK
    <2>3. \A d \in Consumers : hand'[d] \in {hand[d], Nothing}
      BY <1>0, <2>1 DEF TypeOK
    <2>4. \A d \in Consumers : Cut(queue[d], queue'[d])
      BY <1>0, <2>2, CutCases
    <2> QED
      BY <1>0, <1>c, <2>1, <2>3, <2>4
  <1>6. ASSUME NEW c \in Consumers, Take(c)
        PROVE  IInv'
    <2>1. /\ queue[c] # <<>> /\ outbox' = outbox /\ published' = published
          /\ mails' = mails
          /\ queue'[c] = Tail(queue[c]) /\ hand'[c] = Head(queue[c])
          /\ \A d \in Consumers : d # c => queue'[d] = queue[d] /\ hand'[d] = hand[d]
      BY <1>0, <1>6 DEF Take, scanner, TypeOK
    <2>2. /\ hand'[c] = queue[c][1] /\ 1 \in 1 .. Len(queue[c])
          /\ Len(queue'[c]) = Len(queue[c]) - 1
          /\ \A n \in 1 .. Len(queue'[c]) : queue'[c][n] = queue[c][n + 1]
          /\ Cut(queue[c], queue'[c]) /\ queue'[c] \in Seq(Messages)
      BY <1>0, <2>1, HeadTailProperties, EmptySeq, CutCases
    <2>3. InLine(c)'
      <3>1. /\ Rising(queue'[c]) /\ UpTo(queue'[c], published)
            /\ Before(mails[c], queue'[c]) /\ Before(queue'[c], outbox)
        BY <1>0, <2>2, CutKeeps DEF IInv, InLine
      <3>2. /\ hand'[c] <= published
            /\ \A n \in 1 .. Len(mails[c]) : mails[c][n] < hand'[c]
            /\ \A n \in 1 .. Len(outbox) : hand'[c] < outbox[n]
        BY <2>2 DEF IInv, InLine, UpTo, Before
      <3>3. \A n \in 1 .. Len(queue'[c]) : hand'[c] < queue'[c][n]
        BY <1>0, <2>2 DEF IInv, InLine, Rising
      <3> QED
        BY <2>1, <3>1, <3>2, <3>3 DEF IInv, InLine, Rising, UpTo, Before
    <2>4. ASSUME NEW d \in Consumers, d # c
          PROVE  InLine(d)'
      BY <1>0, <2>1, <2>4, CutsKeepLine
    <2>5. (Rising(outbox) /\ UpTo(outbox, published))'
      BY <1>0, <2>1, CutsKeepOutbox
    <2> QED
      BY <1>0, <2>3, <2>4, <2>5 DEF IInv
  <1>7. ASSUME NEW c \in Consumers, MailAccepted(c)
        PROVE  IInv'
    <2>1. /\ hand[c] \in Messages /\ hand[c] # Nothing
          /\ outbox' = outbox /\ published' = published /\ queue' = queue
          /\ mails'[c] = Append(mails[c], hand[c]) /\ hand'[c] = Nothing
          /\ \A d \in Consumers : d # c => mails'[d] = mails[d] /\ hand'[d] = hand[d]
      BY <1>0, <1>7, Shapes DEF MailAccepted, scanner, TypeOK
    <2>2. InLine(c)'
      <3>1. /\ \A n \in 1 .. Len(mails[c]) : mails[c][n] < hand[c]
            /\ \A n \in 1 .. Len(queue[c]) : hand[c] < queue[c][n]
            /\ \A n \in 1 .. Len(outbox) : hand[c] < outbox[n]
            /\ hand[c] <= published
        BY <2>1 DEF IInv, InLine
      <3>2. /\ Rising(mails'[c]) /\ UpTo(mails'[c], published)
            /\ Before(mails'[c], queue[c]) /\ Before(mails'[c], outbox)
        <4>0. mails[c] \in Seq(Messages) /\ Rising(mails[c])
          BY <1>0 DEF IInv, InLine
        <4>1. Rising(mails'[c])
          BY <2>1, <3>1, <4>0, AppendKeeps
        <4>2. UpTo(mails'[c], published)
          BY <1>0, <1>n, <2>1, <3>1, AppendKeeps DEF IInv, InLine
        <4>3. Before(mails'[c], queue[c])
          BY <1>0, <2>1, <3>1, AppendAfter DEF IInv, InLine
        <4>4. Before(mails'[c], outbox)
          BY <1>0, <2>1, <3>1, AppendAfter DEF IInv, InLine
        <4> QED
          BY <4>1, <4>2, <4>3, <4>4
      <3> QED
        BY <2>1, <3>2 DEF IInv, InLine, Rising, UpTo, Before
    <2>3. ASSUME NEW d \in Consumers, d # c
          PROVE  InLine(d)'
      BY <1>0, <2>1, <2>3, CutsKeepLine
    <2>4. (Rising(outbox) /\ UpTo(outbox, published))'
      BY <1>0, <2>1, CutsKeepOutbox
    <2> QED
      BY <1>0, <2>2, <2>3, <2>4 DEF IInv
  <1>8. CASE UNCHANGED vars
    BY <1>0, <1>8, <1>c DEF vars, scanner, consumer
  <1> QED
    BY <1>1, <1>2, <1>3, <1>4, <1>5, <1>6, <1>7, <1>8
    DEF Next, Nats, Scanner, Consume

(* Everything is empty at first.                                           *)
LEMMA InitIInv == Init => IInv
  <1> SUFFICES ASSUME Init PROVE IInv
    OBVIOUS
  <1>1. <<>> \in Seq(Messages) /\ Len(<<>>) = 0
    OBVIOUS
  <1>2. TypeOK
    BY <1>1, DeliveryAssumption DEF Init, TypeOK, Connections
  <1>3. \A c \in Consumers : mails[c] = <<>> /\ queue[c] = <<>> /\ hand[c] = Nothing
    BY DEF Init
  <1>4. outbox = <<>>
    BY DEF Init
  <1> QED
    BY <1>1, <1>2, <1>3, <1>4 DEF IInv, InLine, Rising, UpTo, Before

-----------------------------------------------------------------------------
(* The invariant holds always, whatever breaks.                            *)
LEMMA AlwaysIInv == Spec => []IInv
  <1>1. IInv /\ [Next]_vars => IInv'
    BY NextIInv
  <1> QED
    BY InitIInv, <1>1, PTL DEF Spec

(* Every variable keeps its type, whatever breaks.                         *)
THEOREM TypeCorrect == Spec => []TypeOK
  <1>1. Init => IInv
    BY InitIInv
  <1>2. IInv /\ [Next]_vars => IInv'
    BY NextIInv
  <1>3. IInv => TypeOK
    BY DEF IInv
  <1> QED
    BY <1>1, <1>2, <1>3, PTL DEF Spec

(* However the broker, the connections and the processes fail, each        *)
(* consumer mails in the order of publication and nothing twice.           *)
THEOREM MailOrder == Spec => []MailedInOrder
  <1>1. Init => IInv
    BY InitIInv
  <1>2. IInv /\ [Next]_vars => IInv'
    BY NextIInv
  <1>3. IInv => MailedInOrder
    BY DEF IInv, InLine, Rising, MailedInOrder
  <1> QED
    BY <1>1, <1>2, <1>3, PTL DEF Spec

-----------------------------------------------------------------------------
(* Without a fault nothing leaves the line but by the mail: the places of  *)
(* a consumer hold consecutive messages, and together all of them.         *)
From(s, k) == \A n \in 1 .. Len(s) : s[n] = k + n

InHand(c) == IF hand[c] = Nothing THEN 0 ELSE 1

Whole(c) ==
    /\ link[c] = "connected"
    /\ From(mails[c], 0)
    /\ hand[c] # Nothing => hand[c] = Len(mails[c]) + 1
    /\ From(queue[c], Len(mails[c]) + InHand(c))
    /\ Len(mails[c]) + InHand(c) + Len(queue[c]) + Len(outbox) = published

WholeInv ==
    /\ conn = "connected"
    /\ Len(outbox) <= published /\ From(outbox, published - Len(outbox))
    /\ \A c \in Consumers : Whole(c)

(* wireLoss and giveUp have no effect without an outage.                   *)
Undisturbed ==
    /\ Faults \subseteq {"wireLoss", "giveUp"}
    /\ MaxEvents <= PendingLimit

(* The next message behind s, and the first one of it.                     *)
LEMMA FromSteps ==
    ASSUME NEW s \in Seq(Messages), NEW k \in Nat, From(s, k)
    PROVE  /\ \A e \in Messages : e = k + Len(s) + 1 =>
                From(Append(s, e), k) /\ Len(Append(s, e)) = Len(s) + 1
           /\ s # <<>> => /\ Head(s) = k + 1 /\ From(Tail(s), k + 1)
                          /\ Len(Tail(s)) = Len(s) - 1 /\ Len(s) > 0
  <1>1. ASSUME NEW e \in Messages, e = k + Len(s) + 1
        PROVE  From(Append(s, e), k) /\ Len(Append(s, e)) = Len(s) + 1
    <2>1. /\ Len(s) \in Nat /\ Len(Append(s, e)) = Len(s) + 1
          /\ Append(s, e)[Len(s) + 1] = e
          /\ \A n \in 1 .. Len(s) : Append(s, e)[n] = s[n]
      BY AppendProperties
    <2> QED
      BY <1>1, <2>1 DEF From
  <1>2. ASSUME s # <<>>
        PROVE  /\ Head(s) = k + 1 /\ From(Tail(s), k + 1)
               /\ Len(Tail(s)) = Len(s) - 1 /\ Len(s) > 0
    <2>1. /\ Len(s) \in Nat /\ Len(s) > 0 /\ Len(Tail(s)) = Len(s) - 1
          /\ Head(s) = s[1]
          /\ \A n \in 1 .. Len(Tail(s)) : Tail(s)[n] = s[n + 1]
      BY <1>2, HeadTailProperties, EmptySeq
    <2>2. \A n \in 1 .. Len(Tail(s)) : n + 1 \in 1 .. Len(s) /\ k + (n + 1) = k + 1 + n
      BY <2>1
    <2> QED
      BY <2>1, <2>2 DEF From
  <1> QED
    BY <1>1, <1>2

(* Every action keeps the line whole when nothing disturbs it.             *)
LEMMA NextWholeInv ==
    ASSUME Undisturbed, TypeOK, WholeInv, [Next]_vars
    PROVE  WholeInv'
  <1>0. /\ outbox \in Seq(Messages) /\ Len(outbox) \in Nat
        /\ published \in Nat /\ published <= MaxEvents
        /\ Len(outbox) <= published
        /\ published - Len(outbox) \in Nat
        /\ \A c \in Consumers :
            /\ queue[c] \in Seq(Messages) /\ Len(queue[c]) \in Nat
            /\ mails[c] \in Seq(Messages) /\ Len(mails[c]) \in Nat
            /\ hand[c] \in Messages \cup {Nothing} /\ InHand(c) \in Nat
            /\ Whole(c)
    <2>1. \A c \in Consumers : InHand(c) \in Nat
      BY DEF InHand
    <2>2. /\ outbox \in Seq(Messages) /\ Len(outbox) \in Nat
          /\ published \in Nat /\ published <= MaxEvents
          /\ \A c \in Consumers :
              /\ queue[c] \in Seq(Messages) /\ Len(queue[c]) \in Nat
              /\ mails[c] \in Seq(Messages) /\ Len(mails[c]) \in Nat
              /\ hand[c] \in Messages \cup {Nothing}
      BY Shapes
    <2> QED
      BY <2>1, <2>2 DEF WholeInv, Whole
  <1>1. CASE Publish
    <2>1. /\ published' = published + 1 /\ published + 1 \in Messages
          /\ outbox' = Append(outbox, published + 1)
          /\ UNCHANGED <<conn, link, queue, hand, mails>>
      BY <1>0, <1>1, DeliveryAssumption DEF Publish, consumer, Messages
    <2>2. /\ From(outbox', published - Len(outbox))
          /\ Len(outbox') = Len(outbox) + 1
      BY <1>0, <2>1, FromSteps DEF WholeInv
    <2>3. published' - Len(outbox') = published - Len(outbox) /\ Len(outbox') <= published'
      BY <1>0, <2>1, <2>2
    <2>4. ASSUME NEW c \in Consumers
          PROVE  Whole(c)'
      <3>1. Whole(c) /\ Len(mails[c]) \in Nat /\ Len(queue[c]) \in Nat /\ InHand(c) \in Nat
        BY <1>0
      <3>2. InHand(c)' = InHand(c)
        BY <2>1 DEF InHand
      <3>3. Len(mails[c]) + InHand(c) + Len(queue[c]) + Len(outbox') = published'
        <4>1. Len(mails[c]) + InHand(c) + Len(queue[c]) + Len(outbox) = published
          BY <3>1 DEF Whole
        <4> DEFINE m == Len(mails[c]) + InHand(c) + Len(queue[c])
        <4>2. m \in Nat
          BY <3>1
        <4> HIDE DEF m
        <4>3. m + Len(outbox) = published
          BY <4>1 DEF m
        <4>4. m + Len(outbox') = published'
          <5>1. /\ Len(outbox') = Len(outbox) + 1 /\ published' = published + 1
                /\ Len(outbox) \in Nat /\ published \in Nat
            BY <1>0, <2>1, <2>2
          <5> QED
            BY <4>2, <4>3, <5>1
        <4> QED
          BY <4>4 DEF m
      <3> QED
        BY <2>1, <3>1, <3>2, <3>3 DEF Whole, From
    <2> QED
      BY <2>1, <2>2, <2>3, <2>4 DEF WholeInv, From
  <1>2. CASE Route
    <2>1. /\ outbox # <<>> /\ outbox' = Tail(outbox)
          /\ UNCHANGED <<conn, published, link, hand, mails>>
      BY <1>2 DEF Route
    <2>2. /\ Head(outbox) = published - Len(outbox) + 1
          /\ From(outbox', published - Len(outbox) + 1)
          /\ Len(outbox') = Len(outbox) - 1 /\ Len(outbox) > 0
      BY <1>0, <2>1, FromSteps DEF WholeInv
    <2>3. /\ published' - Len(outbox') = published - Len(outbox) + 1
          /\ Len(outbox') <= published'
      BY <1>0, <2>1, <2>2
    <2>4. Head(outbox) \in Messages
      BY <1>0, <2>2, DeliveryAssumption DEF Messages
    <2>5. ASSUME NEW c \in Consumers
          PROVE  Whole(c)'
      <3>1. /\ link[c] = "connected"
            /\ From(queue[c], Len(mails[c]) + InHand(c))
            /\ Len(mails[c]) + InHand(c) + Len(queue[c]) + Len(outbox) = published
        BY <1>0 DEF Whole
      <3>2. Len(queue[c]) < PendingLimit
        BY <1>0, <2>2, <3>1, DeliveryAssumption DEF Undisturbed
      <3>3. queue'[c] = Append(queue[c], Head(outbox))
        BY <1>2, <3>1, <3>2 DEF Route
      <3>4. Head(outbox) = Len(mails[c]) + InHand(c) + Len(queue[c]) + 1
        BY <1>0, <2>2, <3>1
      <3>5. /\ From(queue'[c], Len(mails[c]) + InHand(c))
            /\ Len(queue'[c]) = Len(queue[c]) + 1
        BY <1>0, <2>4, <3>1, <3>3, <3>4, FromSteps
      <3>6. Len(mails[c]) + InHand(c) + Len(queue'[c]) + Len(outbox') = published
        <4>1. /\ Len(mails[c]) \in Nat /\ InHand(c) \in Nat /\ Len(queue[c]) \in Nat
              /\ Len(outbox) \in Nat /\ published \in Nat
          BY <1>0
        <4> DEFINE m == Len(mails[c]) + InHand(c)
                   q == Len(queue[c])
                   q2 == Len(queue'[c])
                   o == Len(outbox)
                   o2 == Len(outbox')
        <4>2. m \in Nat /\ q \in Nat /\ o \in Nat
          BY <4>1
        <4>3. m + q + o = published /\ q2 = q + 1 /\ o2 = o - 1
          BY <2>2, <3>1, <3>5
        <4> HIDE DEF m, q, q2, o, o2
        <4>5. m + q2 + o2 = published
          BY <4>2, <4>3
        <4> QED
          BY <4>5 DEF m, q, q2, o, o2
      <3> QED
        BY <1>0, <2>1, <3>5, <3>6 DEF Whole, InHand, From
    <2> QED
      BY <2>1, <2>2, <2>3, <2>5 DEF WholeInv, From
  <1>3. ASSUME NEW c \in Consumers, Take(c)
        PROVE  WholeInv'
    <2>1. /\ hand[c] = Nothing /\ queue[c] # <<>>
          /\ hand'[c] = Head(queue[c]) /\ queue'[c] = Tail(queue[c])
          /\ \A d \in Consumers : d # c => hand'[d] = hand[d] /\ queue'[d] = queue[d]
          /\ UNCHANGED <<conn, outbox, published, link, mails>>
      BY <1>3 DEF Take, scanner, TypeOK
    <2>2. /\ InHand(c) = 0 /\ From(queue[c], Len(mails[c]))
          /\ Len(mails[c]) + Len(queue[c]) + Len(outbox) = published
      <3>1. InHand(c) = 0
        BY <2>1 DEF InHand
      <3>2. /\ From(queue[c], Len(mails[c]) + 0)
            /\ Len(mails[c]) + 0 + Len(queue[c]) + Len(outbox) = published
            /\ Len(mails[c]) \in Nat
        BY <1>0, <3>1 DEF Whole
      <3>3. Len(mails[c]) + 0 = Len(mails[c])
        BY <3>2
      <3> QED
        BY <3>1, <3>2, <3>3
    <2>3. /\ hand'[c] = Len(mails[c]) + 1
          /\ From(queue'[c], Len(mails[c]) + 1)
          /\ Len(queue'[c]) = Len(queue[c]) - 1
      BY <1>0, <2>1, <2>2, FromSteps
    <2>4. InHand(c)' = 1
      BY <1>0, <2>3 DEF InHand, Nothing
    <2>5. Len(mails[c]) + 1 + Len(queue'[c]) + Len(outbox) = published
      <3>1. /\ Len(mails[c]) \in Nat /\ Len(queue[c]) \in Nat
            /\ Len(outbox) \in Nat /\ published \in Nat
        BY <1>0
      <3> DEFINE m == Len(mails[c])
                 q == Len(queue[c])
                 q2 == Len(queue'[c])
                 o == Len(outbox)
      <3>2. m \in Nat /\ q \in Nat /\ o \in Nat
        BY <3>1
      <3>3. m + q + o = published /\ q2 = q - 1
        BY <2>2, <2>3
      <3> HIDE DEF m, q, q2, o
      <3>4. m + 1 + q2 + o = published
        BY <3>2, <3>3
      <3> QED
        BY <3>4 DEF m, q2, o
    <2>6. Whole(c)'
      BY <1>0, <2>1, <2>3, <2>4, <2>5 DEF Whole, From
    <2>7. ASSUME NEW d \in Consumers, d # c
          PROVE  Whole(d)'
      <3>1. Whole(d)
        BY <1>0
      <3>2. InHand(d)' = InHand(d)
        BY <2>1, <2>7 DEF InHand
      <3> QED
        BY <2>1, <2>7, <3>1, <3>2 DEF Whole, From
    <2> QED
      BY <2>1, <2>6, <2>7 DEF WholeInv, From
  <1>4. ASSUME NEW c \in Consumers, MailAccepted(c)
        PROVE  WholeInv'
    <2>1. /\ hand[c] # Nothing /\ hand'[c] = Nothing
          /\ mails'[c] = Append(mails[c], hand[c])
          /\ \A d \in Consumers : d # c => hand'[d] = hand[d] /\ mails'[d] = mails[d]
          /\ UNCHANGED <<conn, outbox, published, link, queue>>
      BY <1>4 DEF MailAccepted, scanner, TypeOK
    <2>2. /\ InHand(c) = 1 /\ hand[c] = Len(mails[c]) + 1
          /\ From(mails[c], 0) /\ From(queue[c], Len(mails[c]) + 1)
          /\ Len(mails[c]) + 1 + Len(queue[c]) + Len(outbox) = published
      BY <1>0, <2>1 DEF Whole, InHand
    <2>3. From(mails'[c], 0) /\ Len(mails'[c]) = Len(mails[c]) + 1
      <3>1. hand[c] \in Messages /\ hand[c] = 0 + Len(mails[c]) + 1
        BY <1>0, <2>1, <2>2
      <3> QED
        BY <1>0, <2>1, <2>2, <3>1, FromSteps
    <2>4. InHand(c)' = 0
      BY <2>1 DEF InHand
    <2>5. Len(mails'[c]) + 0 = Len(mails[c]) + 1
      BY <1>0, <2>3
    <2>6. Whole(c)'
      BY <1>0, <2>1, <2>2, <2>3, <2>4, <2>5 DEF Whole, From
    <2>7. ASSUME NEW d \in Consumers, d # c
          PROVE  Whole(d)'
      <3>1. Whole(d)
        BY <1>0
      <3>2. InHand(d)' = InHand(d)
        BY <2>1, <2>7 DEF InHand
      <3> QED
        BY <2>1, <2>7, <3>1, <3>2 DEF Whole, From
    <2> QED
      BY <2>1, <2>6, <2>7 DEF WholeInv, From
  <1>5. /\ ~ ScannerStops /\ ~ ScannerStarts /\ ~ OutageBegins
        /\ ~ ScannerReconnects /\ ~ ScannerGivesUp
        /\ \A c \in Consumers : /\ ~ ConsumerReconnects(c) /\ ~ ConsumerGivesUp(c)
                                /\ ~ ConsumerStops(c) /\ ~ ConsumerStarts(c)
                                /\ ~ MailFails(c)
    BY DEF Undisturbed, WholeInv, Whole, ScannerStops, ScannerStarts, OutageBegins,
           ScannerReconnects, ScannerGivesUp, ConsumerReconnects, ConsumerGivesUp,
           ConsumerStops, ConsumerStarts, MailFails
  <1>6. CASE OutageEnds \/ UNCHANGED vars
    <2>1. UNCHANGED <<conn, outbox, published, link, queue, hand, mails>>
      BY <1>6 DEF OutageEnds, vars, scanner, consumer
    <2> QED
      BY <2>1 DEF WholeInv, Whole, InHand, From
  <1> QED
    BY <1>1, <1>2, <1>3, <1>4, <1>5, <1>6 DEF Next, Nats, Scanner, Consume

-----------------------------------------------------------------------------
(* A message that was published and is not in the mails of a consumer is   *)
(* in its hand, in its queue or in the outbox.                             *)
LEMMA WholeHolds ==
    ASSUME TypeOK, WholeInv, NEW c \in Consumers, NEW n \in 1 .. published
    PROVE  Holds(mails[c], n) \/ hand[c] = n \/ Holds(queue[c], n) \/ Holds(outbox, n)
  <1>1. /\ published \in Nat /\ Len(outbox) \in Nat /\ Len(queue[c]) \in Nat
        /\ Len(mails[c]) \in Nat /\ hand[c] \in Messages \cup {Nothing}
        /\ n \in Nat /\ n >= 1 /\ n <= published
    BY Shapes
  <1>2. /\ From(mails[c], 0) /\ From(outbox, published - Len(outbox))
        /\ hand[c] # Nothing => hand[c] = Len(mails[c]) + 1
        /\ From(queue[c], Len(mails[c]) + InHand(c))
        /\ Len(mails[c]) + InHand(c) + Len(queue[c]) + Len(outbox) = published
    BY DEF WholeInv, Whole
  <1>h. InHand(c) \in {0, 1} /\ (InHand(c) = 1 => hand[c] # Nothing)
    BY DEF InHand
  <1>3. CASE n <= Len(mails[c])
    <2>1. n \in 1 .. Len(mails[c]) /\ 0 + n = n
      BY <1>1, <1>3
    <2> QED
      BY <1>2, <2>1 DEF From, Holds
  <1>4. CASE n = Len(mails[c]) + 1 /\ InHand(c) = 1
    BY <1>2, <1>h, <1>4
  <1>5. CASE n > Len(mails[c]) + InHand(c) /\ n <= Len(mails[c]) + InHand(c) + Len(queue[c])
    <2> DEFINE i == n - (Len(mails[c]) + InHand(c))
    <2>1. Len(mails[c]) + InHand(c) \in Nat
      BY <1>1, <1>h
    <2>2. i \in 1 .. Len(queue[c]) /\ (Len(mails[c]) + InHand(c)) + i = n
      BY <1>1, <1>5, <2>1
    <2> QED
      BY <1>2, <2>2 DEF From, Holds
  <1>6. CASE n > Len(mails[c]) + InHand(c) + Len(queue[c])
    <2> DEFINE i == n - (published - Len(outbox))
    <2>1. i \in 1 .. Len(outbox) /\ published - Len(outbox) + i = n
      BY <1>1, <1>2, <1>h, <1>6
    <2> QED
      BY <1>2, <2>1 DEF From, Holds
  <1> QED
    BY <1>1, <1>2, <1>h, <1>3, <1>4, <1>5, <1>6

(* The invariant of the undisturbed line.                                  *)
LEMMA AlwaysWhole == ASSUME Undisturbed PROVE Spec => [](TypeOK /\ WholeInv)
  <1>1. Init => TypeOK /\ WholeInv
    <2>1. Init => WholeInv
      BY DEF Init, WholeInv, Whole, From, InHand
    <2> QED
      BY <2>1, InitIInv DEF IInv
  <1>2. TypeOK /\ WholeInv /\ [Next]_vars => (TypeOK /\ WholeInv)'
    BY NextTypeOK, NextWholeInv
  <1> QED
    BY <1>1, <1>2, PTL DEF Spec

(* With one service at least, and as long as nothing breaks and the events *)
(* fit into its subscription, what Publish took is never lost.  Every kind *)
(* of fault left out here loses an event: the finding about the outage is  *)
(* one case.                                                               *)
THEOREM NothingLost ==
    ASSUME Undisturbed, Consumers # {}
    PROVE  Spec => []OutageLosesNothing
  <1>1. TypeOK /\ WholeInv => OutageLosesNothing
    BY WholeHolds DEF OutageLosesNothing, OnItsWay, Mailed
  <1> QED
    BY <1>1, AlwaysWhole, PTL

(* A service mails every event there is, from the first on.                *)
MailedWithoutGap ==
    \A c \in Consumers : \A n \in 1 .. Len(mails[c]) : mails[c][n] = n

(* Under the same assumptions every service mails the same events, without *)
(* a gap, however many services there are: a second one sends each mail a  *)
(* second time.                                                            *)
THEOREM NoGap ==
    ASSUME Undisturbed
    PROVE  Spec => []MailedWithoutGap
  <1>1. TypeOK /\ WholeInv => MailedWithoutGap
    BY Shapes DEF WholeInv, Whole, From, MailedWithoutGap
  <1> QED
    BY <1>1, AlwaysWhole, PTL

=============================================================================
