-------------------------- MODULE GitHubCacheProofs --------------------------
(***************************************************************************)
(* Theorems about GitHubCache, for every TTL and delay and for any number  *)
(* of clients.                                                             *)
(***************************************************************************)
EXTENDS GitHubCache, TLAPS

(* What GitHub would answer with now has no age.                           *)
CurrentIsNew == \A k \in Kinds : \A v \in Current(k) : since[k][v] = 0

(* The older an entry's value, the less time it has left.                  *)
EntryIsRecent ==
    \A k \in Kinds : Cached(k) => since[k][entry[k].val] + entry[k].left <= TTL + Delay

(* What a client is about to write is no older than its wait.              *)
InHandIsRecent ==
    \A c \in Clients : lookup[c].at = "set"
        => since[lookup[c].kind][lookup[c].val] <= lookup[c].wait

(* The scanner never starts a Subscribe.                                   *)
ScannerAsksLatest ==
    lookup[Scanner].at \in {"call", "set"} => lookup[Scanner].kind = "latest"

IInv ==
    /\ TypeOK
    /\ ScannerAsksLatest
    /\ CurrentIsNew
    /\ EntryIsRecent
    /\ InHandIsRecent
    /\ AnswersAreRecent

-----------------------------------------------------------------------------

LEMMA CurrentType ==
    ASSUME TypeOK, NEW k \in Kinds
    PROVE  Current(k) \subseteq Values
  <1>1. 0 \in Values /\ 1 \in Values
    BY CacheAssumption DEF Values
  <1> QED BY <1>1 DEF Current, TypeOK

(* A change on GitHub makes values younger, never older.                   *)
LEMMA RenewedIsYounger ==
    ASSUME TypeOK, TypeOK', since' = Renewed
    PROVE  /\ CurrentIsNew'
           /\ \A k \in Kinds : \A v \in Values : since'[k][v] <= since[k][v]
  <1>1. \A k \in Kinds : \A v \in Values :
            since'[k][v] = IF v \in Current(k)' THEN 0 ELSE since[k][v]
    BY DEF Renewed
  <1>2. \A k \in Kinds : Current(k)' \subseteq Values
    <2>1. 0 \in Values /\ 1 \in Values
      BY CacheAssumption DEF Values
    <2> QED BY <2>1 DEF Current, TypeOK
  <1>3. CurrentIsNew'
    BY <1>1, <1>2 DEF CurrentIsNew
  <1>4. \A k \in Kinds : \A v \in Values : since[k][v] \in 0 .. MaxAge
    BY DEF TypeOK
  <1>5. \A k \in Kinds : \A v \in Values : since[k][v] \in Int /\ 0 <= since[k][v]
    BY <1>4, CacheAssumption DEF MaxAge
  <1> QED BY <1>1, <1>3, <1>5

(* A younger value in the same place is still recent.                      *)
LEMMA YoungerIsRecent ==
    ASSUME IInv, TypeOK', CurrentIsNew',
           UNCHANGED <<entry, lookup, history>>,
           \A k \in Kinds : \A v \in Values : since'[k][v] <= since[k][v]
    PROVE  IInv'
  <1>1. \A k \in Kinds : \A v \in Values : since[k][v] \in Int /\ since'[k][v] \in Int
    <2>1. MaxAge \in Nat
      BY CacheAssumption DEF MaxAge
    <2> QED BY <2>1 DEF IInv, TypeOK
  <1>2. EntryIsRecent'
    <2> SUFFICES ASSUME NEW k \in Kinds, entry[k].left > 0
                 PROVE  since'[k][entry[k].val] + entry[k].left <= TTL + Delay
      BY DEF EntryIsRecent, Cached
    <2>1. entry[k].val \in Values /\ entry[k].left \in Int
      BY CacheAssumption DEF IInv, TypeOK
    <2>2. since[k][entry[k].val] + entry[k].left <= TTL + Delay
      BY DEF IInv, EntryIsRecent, Cached
    <2> QED BY <1>1, <2>1, <2>2, CacheAssumption
  <1>3. InHandIsRecent'
    <2> SUFFICES ASSUME NEW c \in Clients, lookup[c].at = "set"
                 PROVE  since'[lookup[c].kind][lookup[c].val] <= lookup[c].wait
      BY DEF InHandIsRecent
    <2>1. /\ lookup[c].val \in Values
          /\ lookup[c].kind \in Kinds
          /\ lookup[c].wait \in Int
      BY CacheAssumption DEF IInv, TypeOK
    <2>2. since[lookup[c].kind][lookup[c].val] <= lookup[c].wait
      BY DEF IInv, InHandIsRecent
    <2> QED BY <1>1, <2>1, <2>2
  <1> QED BY <1>2, <1>3 DEF IInv, ScannerAsksLatest, AnswersAreRecent, history

-----------------------------------------------------------------------------
(* One lemma per kind of step.                                             *)

LEMMA InitHolds == Init => IInv
  <1> SUFFICES ASSUME Init PROVE IInv
    OBVIOUS
  <1>1. MaxAge \in Nat /\ 0 \in Values /\ 1 \in Values
    BY CacheAssumption DEF MaxAge, Values
  <1>2. TypeOK
    <2>1. since \in [Kinds -> [Values -> 0 .. MaxAge]]
      BY <1>1 DEF Init
    <2>2. entry \in [Kinds -> [val : Values, left : 0 .. TTL]]
      BY <1>1, CacheAssumption DEF Init, Miss
    <2>3. lookup \in [Clients -> [at : {"idle", "ask", "call", "set"},
                               kind : Kinds, val : Values, wait : 0 .. Delay]]
      BY <1>1, CacheAssumption DEF Init, Idle, Kinds
    <2>4. answer \in [Clients -> Values] /\ age \in 0 .. MaxAge
      BY <1>1 DEF Init
    <2>5. \A c \in Clients : lookup[c].at = "ask" => c # Scanner /\ answer[c] = 1
      BY DEF Init, Idle
    <2> QED BY <2>1, <2>2, <2>3, <2>4, <2>5 DEF Init, TypeOK
  <1>3. CurrentIsNew
    BY <1>2, CurrentType DEF Init, CurrentIsNew
  <1>4. EntryIsRecent
    BY DEF Init, EntryIsRecent, Cached, Miss
  <1>5. InHandIsRecent
    BY DEF Init, InHandIsRecent, Idle
  <1>6. AnswersAreRecent
    BY CacheAssumption DEF Init, AnswersAreRecent
  <1>7. ScannerAsksLatest
    BY CacheAssumption DEF Init, ScannerAsksLatest, Idle
  <1> QED BY <1>2, <1>3, <1>4, <1>5, <1>6, <1>7 DEF IInv

LEMMA GitHubKeeps ==
    ASSUME IInv, TagChanges \/ RepoChanges
    PROVE  IInv'
  <1>1. /\ here' \in BOOLEAN
        /\ tag' \in Values
        /\ since' = Renewed
        /\ UNCHANGED <<entry, lookup, history>>
    BY DEF TagChanges, RepoChanges, IInv, TypeOK
  <1>2. since' \in [Kinds -> [Values -> 0 .. MaxAge]]
    <2>1. 0 \in 0 .. MaxAge
      BY CacheAssumption DEF MaxAge
    <2> QED BY <1>1, <2>1 DEF Renewed, IInv, TypeOK
  <1>3. TypeOK'
    BY <1>1, <1>2 DEF IInv, TypeOK, history
  <1> QED BY <1>1, <1>3, RenewedIsYounger, YoungerIsRecent DEF IInv

LEMMA ForgetKeeps ==
    ASSUME IInv, NEW k \in Kinds, Forget(k)
    PROVE  IInv'
  <1>1. Miss \in [val : Values, left : 0 .. TTL]
    BY CacheAssumption DEF Miss, Values
  <1>2. /\ entry' = [entry EXCEPT ![k] = Miss]
        /\ entry \in [Kinds -> [val : Values, left : 0 .. TTL]]
        /\ UNCHANGED <<here, tag, since, lookup, answer, age>>
    BY DEF Forget, IInv, TypeOK, github, history
  <1>3. TypeOK'
    BY <1>1, <1>2 DEF IInv, TypeOK
  <1>4. EntryIsRecent'
    BY <1>2 DEF IInv, EntryIsRecent, Cached, Miss
  <1>5. CurrentIsNew'
    BY <1>2 DEF IInv, CurrentIsNew, Current
  <1>6. InHandIsRecent' /\ AnswersAreRecent' /\ ScannerAsksLatest'
    BY <1>2 DEF IInv, InHandIsRecent, AnswersAreRecent, ScannerAsksLatest
  <1> QED BY <1>3, <1>4, <1>5, <1>6 DEF IInv

LEMMA TickKeeps ==
    ASSUME IInv, Tick
    PROVE  IInv'
  <1>0. MaxAge \in Nat /\ MaxAge = TTL + Delay + 1
    BY CacheAssumption DEF MaxAge
  <1>1. \A k \in Kinds : \A v \in Values :
            /\ since[k][v] \in 0 .. MaxAge
            /\ since'[k][v] = IF v \in Current(k) THEN 0
                              ELSE IF since[k][v] < MaxAge THEN since[k][v] + 1
                              ELSE MaxAge
    BY DEF Tick, IInv, TypeOK
  <1>2. \A k \in Kinds : \A v \in Values :
            /\ since'[k][v] \in 0 .. MaxAge
            /\ since'[k][v] <= since[k][v] + 1
    BY <1>0, <1>1
  <1>3. \A k \in Kinds :
            /\ entry[k] \in [val : Values, left : 0 .. TTL]
            /\ entry'[k] = IF entry[k].left > 1 THEN [entry[k] EXCEPT !.left = @ - 1]
                           ELSE Miss
    BY DEF Tick, IInv, TypeOK
  <1>4. \A c \in Clients :
            /\ lookup[c] \in [at : {"idle", "ask", "call", "set"},
                              kind : Kinds, val : Values, wait : 0 .. Delay]
            /\ lookup'[c] = IF lookup[c].at = "set"
                            THEN [lookup[c] EXCEPT !.wait = @ + 1] ELSE lookup[c]
            /\ lookup[c].at = "set" => lookup[c].wait < Delay
    BY DEF Tick, IInv, TypeOK
  <1>5. /\ UNCHANGED <<here, tag, answer, age>>
        /\ \A k \in Kinds : Current(k)' = Current(k)
    BY DEF Tick, github, history, Current
  <1>6. TypeOK'
    <2>1. since' \in [Kinds -> [Values -> 0 .. MaxAge]]
      <3>1. since' = [k \in Kinds |-> [v \in Values |-> since'[k][v]]]
        BY DEF Tick
      <3> QED BY <1>2, <3>1
    <2>2. entry' \in [Kinds -> [val : Values, left : 0 .. TTL]]
      <3>1. Miss \in [val : Values, left : 0 .. TTL]
        BY CacheAssumption DEF Miss, Values
      <3>2. \A k \in Kinds : entry[k].left > 1 =>
                [entry[k] EXCEPT !.left = @ - 1] \in [val : Values, left : 0 .. TTL]
        BY <1>3, CacheAssumption
      <3>3. entry' = [k \in Kinds |-> entry'[k]]
        BY DEF Tick
      <3> QED BY <1>3, <3>1, <3>2, <3>3
    <2>3. lookup' \in [Clients -> [at : {"idle", "ask", "call", "set"},
                               kind : Kinds, val : Values, wait : 0 .. Delay]]
      <3>1. \A c \in Clients : lookup[c].at = "set" =>
                [lookup[c] EXCEPT !.wait = @ + 1] \in
                    [at : {"idle", "ask", "call", "set"},
                     kind : Kinds, val : Values, wait : 0 .. Delay]
        BY <1>4, CacheAssumption
      <3>2. lookup' = [c \in Clients |-> lookup'[c]]
        BY DEF Tick
      <3> QED BY <1>4, <3>1, <3>2
    <2>4. \A c \in Clients : lookup'[c].at = lookup[c].at
      BY <1>4
    <2> QED BY <1>5, <2>1, <2>2, <2>3, <2>4 DEF IInv, TypeOK
  <1>7. CurrentIsNew'
    <2>1. \A k \in Kinds : Current(k) \subseteq Values
      BY CurrentType DEF IInv
    <2> QED BY <1>1, <1>5, <2>1 DEF CurrentIsNew
  <1>8. EntryIsRecent'
    <2> SUFFICES ASSUME NEW k \in Kinds, entry'[k].left > 0
                 PROVE  since'[k][entry'[k].val] + entry'[k].left <= TTL + Delay
      BY DEF EntryIsRecent, Cached
    <2>1. entry[k].left > 1
      <3> SUFFICES ASSUME ~ (entry[k].left > 1) PROVE FALSE
        OBVIOUS
      <3>1. entry'[k] = [val |-> 0, left |-> 0]
        BY <1>3 DEF Miss
      <3> QED BY <3>1
    <2>2. /\ entry'[k].val = entry[k].val
          /\ entry'[k].left = entry[k].left - 1
          /\ entry[k].val \in Values
          /\ entry[k].left \in Int
      <3>1. entry'[k] = [entry[k] EXCEPT !.left = @ - 1]
        BY <1>3, <2>1
      <3>2. entry[k] \in [val : Values, left : 0 .. TTL]
        BY <1>3
      <3> QED BY <3>1, <3>2, CacheAssumption
    <2>3. since[k][entry[k].val] + entry[k].left <= TTL + Delay
      BY <2>1, <2>2 DEF IInv, EntryIsRecent, Cached
    <2>4. /\ since'[k][entry[k].val] <= since[k][entry[k].val] + 1
          /\ since'[k][entry[k].val] \in Int
          /\ since[k][entry[k].val] \in Int
      BY <1>0, <1>1, <1>2, <2>2
    <2> QED BY <2>2, <2>3, <2>4, CacheAssumption
  <1>9. InHandIsRecent'
    <2> SUFFICES ASSUME NEW c \in Clients, lookup'[c].at = "set"
                 PROVE  since'[lookup'[c].kind][lookup'[c].val] <= lookup'[c].wait
      BY DEF InHandIsRecent
    <2>1. lookup[c].at = "set"
      BY <1>4
    <2>2. /\ lookup'[c].kind = lookup[c].kind
          /\ lookup'[c].val = lookup[c].val
          /\ lookup'[c].wait = lookup[c].wait + 1
          /\ lookup[c].kind \in Kinds
          /\ lookup[c].val \in Values
          /\ lookup[c].wait \in Int
      <3>1. lookup'[c] = [lookup[c] EXCEPT !.wait = @ + 1]
        BY <1>4, <2>1
      <3>2. lookup[c] \in [at : {"idle", "ask", "call", "set"},
                           kind : Kinds, val : Values, wait : 0 .. Delay]
        BY <1>4
      <3> QED BY <3>1, <3>2, CacheAssumption
    <2>3. since[lookup[c].kind][lookup[c].val] <= lookup[c].wait
      BY <2>1 DEF IInv, InHandIsRecent
    <2>4. /\ since'[lookup[c].kind][lookup[c].val] <= since[lookup[c].kind][lookup[c].val] + 1
          /\ since'[lookup[c].kind][lookup[c].val] \in Int
          /\ since[lookup[c].kind][lookup[c].val] \in Int
      BY <1>0, <1>1, <1>2, <2>2
    <2> QED BY <2>2, <2>3, <2>4
  <1>10. AnswersAreRecent'
    BY <1>5 DEF IInv, AnswersAreRecent
  <1>11. ScannerAsksLatest'
    <2>1. /\ lookup'[Scanner].at = lookup[Scanner].at
          /\ lookup'[Scanner].kind = lookup[Scanner].kind
      BY <1>4, CacheAssumption
    <2> QED BY <2>1 DEF IInv, ScannerAsksLatest
  <1> QED BY <1>6, <1>7, <1>8, <1>9, <1>10, <1>11 DEF IInv

(* A lookup that answers ends in a legal state, whichever way it got its   *)
(* value, if that value is recent.                                         *)
LEMMA AnswerKeeps ==
    ASSUME IInv, NEW c \in Clients, NEW kind \in Kinds, NEW v \in Values,
           Answers(c, kind, v), kind = "exists" => c # Scanner,
           since[kind][v] <= TTL + Delay, UNCHANGED <<github, since>>
    PROVE  /\ lookup' \in [Clients -> [at : {"idle", "ask", "call", "set"},
                               kind : Kinds, val : Values, wait : 0 .. Delay]]
           /\ answer' \in [Clients -> Values] /\ age' \in 0 .. MaxAge
           /\ \A d \in Clients : lookup'[d].at = "ask" => d # Scanner /\ answer'[d] = 1
           /\ InHandIsRecent'
           /\ AnswersAreRecent'
           /\ ScannerAsksLatest'
  <1>1. 0 \in Values /\ 0 \in 0 .. Delay
    BY CacheAssumption DEF Values
  <1>2. AfterAnswer(kind, v) \in [at : {"idle", "ask", "call", "set"},
                                  kind : Kinds, val : Values, wait : 0 .. Delay]
    BY <1>1 DEF AfterAnswer, Idle, Kinds
  <1>3. AfterAnswer(kind, v).at # "set"
    BY DEF AfterAnswer, Idle
  <1>4. AfterAnswer(kind, v).at = "ask" => kind = "exists" /\ v = 1
    BY DEF AfterAnswer, Idle
  <1>5. /\ lookup' = [lookup EXCEPT ![c] = AfterAnswer(kind, v)]
        /\ answer' = [answer EXCEPT ![c] = v]
        /\ age' = since[kind][v]
        /\ UNCHANGED <<here, tag, since>>
    BY DEF Answers, github
  <1>6. /\ lookup \in [Clients -> [at : {"idle", "ask", "call", "set"},
                               kind : Kinds, val : Values, wait : 0 .. Delay]]
        /\ answer \in [Clients -> Values]
        /\ since \in [Kinds -> [Values -> 0 .. MaxAge]]
        /\ \A d \in Clients : lookup[d].at = "ask" => d # Scanner /\ answer[d] = 1
    BY DEF IInv, TypeOK
  <1>7. \A d \in Clients : lookup'[d].at = "ask" => d # Scanner /\ answer'[d] = 1
    BY <1>4, <1>5, <1>6
  <1>8. InHandIsRecent'
    BY <1>3, <1>5, <1>6 DEF IInv, InHandIsRecent
  <1>9. ScannerAsksLatest'
    <2>1. AfterAnswer(kind, v).at \notin {"call", "set"}
      BY DEF AfterAnswer, Idle
    <2> QED BY <1>5, <1>6, <2>1, CacheAssumption DEF IInv, ScannerAsksLatest
  <1> QED BY <1>2, <1>5, <1>6, <1>7, <1>8, <1>9 DEF AnswersAreRecent

LEMMA HitKeeps ==
    ASSUME IInv, NEW c \in Clients, NEW k \in Kinds, Hit(c, k)
    PROVE  IInv'
  <1>1. entry[k].val \in Values /\ entry[k].left \in Nat
    BY CacheAssumption DEF IInv, TypeOK
  <1>2. since[k][entry[k].val] \in Int
    <2>1. MaxAge \in Nat
      BY CacheAssumption DEF MaxAge
    <2> QED BY <1>1, <2>1 DEF IInv, TypeOK
  <1>3. since[k][entry[k].val] <= TTL + Delay
    BY <1>1, <1>2, CacheAssumption DEF Hit, IInv, EntryIsRecent, Cached
  <1>4. k = "exists" => c # Scanner
    BY DEF Hit, Asks, IInv, TypeOK
  <1>5. /\ Answers(c, k, entry[k].val)
        /\ UNCHANGED <<here, tag, since, entry>>
        /\ UNCHANGED <<github, since>>
    BY DEF Hit, github
  <1>6. InHandIsRecent' /\ AnswersAreRecent' /\ ScannerAsksLatest' /\ TypeOK'
    BY <1>1, <1>3, <1>4, <1>5, AnswerKeeps DEF IInv, TypeOK
  <1>7. CurrentIsNew' /\ EntryIsRecent'
    BY <1>5 DEF IInv, CurrentIsNew, Current, EntryIsRecent, Cached
  <1> QED BY <1>6, <1>7 DEF IInv

LEMMA SetKeeps ==
    ASSUME IInv, NEW c \in Clients, Return(c)
    PROVE  IInv'
  <1> DEFINE kind == lookup[c].kind
             v == lookup[c].val
  <1>0. kind = "exists" => c # Scanner
    BY DEF Return, SetOk, SetFails, IInv, ScannerAsksLatest
  <1>1. /\ lookup[c].at = "set"
        /\ Answers(c, kind, v)
        /\ UNCHANGED <<here, tag, since>>
        /\ UNCHANGED <<github, since>>
        /\ entry' = [entry EXCEPT ![kind] = [val |-> v, left |-> TTL]] \/ entry' = entry
    BY DEF Return, SetOk, SetFails, github
  <1>2. kind \in Kinds /\ v \in Values /\ lookup[c].wait \in 0 .. Delay
    BY DEF IInv, TypeOK
  <1>3. since[kind][v] \in Int
    <2>1. MaxAge \in Nat
      BY CacheAssumption DEF MaxAge
    <2> QED BY <1>2, <2>1 DEF IInv, TypeOK
  <1>4. since[kind][v] <= Delay
    BY <1>1, <1>2, <1>3, CacheAssumption DEF IInv, InHandIsRecent
  <1>5. since[kind][v] <= TTL + Delay
    BY <1>3, <1>4, CacheAssumption
  <1>6. entry \in [Kinds -> [val : Values, left : 0 .. TTL]]
    BY DEF IInv, TypeOK
  <1>7. entry' \in [Kinds -> [val : Values, left : 0 .. TTL]]
    <2>1. [val |-> v, left |-> TTL] \in [val : Values, left : 0 .. TTL]
      BY <1>2, CacheAssumption
    <2> QED BY <1>1, <1>2, <1>6, <2>1
  <1>8. InHandIsRecent' /\ AnswersAreRecent' /\ ScannerAsksLatest' /\ TypeOK'
    BY <1>0, <1>1, <1>2, <1>5, <1>7, AnswerKeeps DEF IInv, TypeOK
  <1>9. CurrentIsNew'
    BY <1>1 DEF IInv, CurrentIsNew, Current
  <1>10. EntryIsRecent'
    <2> SUFFICES ASSUME NEW k \in Kinds, entry'[k].left > 0
                 PROVE  since[k][entry'[k].val] + entry'[k].left <= TTL + Delay
      BY <1>1 DEF EntryIsRecent, Cached
    <2>1. CASE entry'[k] = entry[k]
      BY <2>1 DEF IInv, EntryIsRecent, Cached
    <2>2. CASE k = kind /\ entry'[k] = [val |-> v, left |-> TTL]
      <3>1. entry'[k].val = v /\ entry'[k].left = TTL
        BY <2>2
      <3>2. since[k][v] <= Delay /\ since[k][v] \in Int
        BY <1>3, <1>4, <2>2
      <3> QED BY <3>1, <3>2, CacheAssumption
    <2> QED BY <1>1, <1>2, <1>6, <2>1, <2>2
  <1> QED BY <1>8, <1>9, <1>10 DEF IInv

(* A step of a lookup that neither answers nor writes an entry.            *)
LEMMA CallKeeps ==
    ASSUME IInv, NEW c \in Clients,
           \/ \E k \in Kinds : Call(c, k)
           \/ CallOk(c) \/ CallNotFound(c) \/ CallFails(c)
    PROVE  IInv'
  <1> DEFINE Lookups == [at : {"idle", "ask", "call", "set"},
                         kind : Kinds, val : Values, wait : 0 .. Delay]
  <1>0. 0 \in Values /\ 0 \in 0 .. Delay /\ MaxAge \in Nat
    BY CacheAssumption DEF Values, MaxAge
  <1>1. UNCHANGED <<here, tag, since, entry, answer, age>>
    BY DEF Call, CallOk, CallNotFound, CallFails, Fails, github, history
  <1>2. /\ lookup \in [Clients -> Lookups]
        /\ \A d \in Clients : lookup[d].at = "ask" => d # Scanner /\ answer[d] = 1
    BY DEF IInv, TypeOK
  <1>3. PICK l : /\ lookup' = [lookup EXCEPT ![c] = l]
                 /\ l \in Lookups
                 /\ l.at # "ask"
                 /\ l.at = "set" => since[l.kind][l.val] <= l.wait
                 /\ l.at \in {"call", "set"} /\ c = Scanner => l.kind = "latest"
    <2>1. ASSUME NEW k \in Kinds, Call(c, k)
          PROVE  \E l : /\ lookup' = [lookup EXCEPT ![c] = l]
                        /\ l \in Lookups
                        /\ l.at # "ask"
                        /\ l.at = "set" => since[l.kind][l.val] <= l.wait
                        /\ l.at \in {"call", "set"} /\ c = Scanner => l.kind = "latest"
      <3> DEFINE l == [at |-> "call", kind |-> k, val |-> 0, wait |-> 0]
      <3>1. lookup' = [lookup EXCEPT ![c] = l]
        BY <2>1 DEF Call, Calling
      <3>2. l \in Lookups /\ l.at = "call" /\ l.kind = k
        BY <1>0
      <3>3. c = Scanner => k = "latest"
        BY <2>1, <1>2 DEF Call, Asks
      <3> QED BY <3>1, <3>2, <3>3
    <2>2. ASSUME CallOk(c)
          PROVE  \E l : /\ lookup' = [lookup EXCEPT ![c] = l]
                        /\ l \in Lookups
                        /\ l.at # "ask"
                        /\ l.at = "set" => since[l.kind][l.val] <= l.wait
                        /\ l.at \in {"call", "set"} /\ c = Scanner => l.kind = "latest"
      <3>1. PICK v \in Current(lookup[c].kind) :
                lookup' = [lookup EXCEPT ![c].at = "set", ![c].val = v]
        BY <2>2 DEF CallOk
      <3> DEFINE l == [lookup[c] EXCEPT !.at = "set", !.val = v]
      <3>2. lookup' = [lookup EXCEPT ![c] = l]
        BY <1>2, <3>1
      <3>3. lookup[c] \in Lookups /\ lookup[c].kind \in Kinds
        BY <1>2
      <3>4. v \in Values
        BY <3>1, <3>3, CurrentType DEF IInv
      <3>5. /\ l \in Lookups
            /\ l.at = "set"
            /\ l.kind = lookup[c].kind
            /\ l.val = v
            /\ l.wait \in 0 .. Delay
        BY <3>3, <3>4
      <3>6. since[l.kind][l.val] = 0
        BY <3>1, <3>3, <3>5 DEF IInv, CurrentIsNew
      <3>7. since[l.kind][l.val] <= l.wait
        BY <3>5, <3>6, CacheAssumption
      <3>8. c = Scanner => l.kind = "latest"
        BY <2>2, <3>5 DEF CallOk, IInv, ScannerAsksLatest
      <3> QED BY <3>2, <3>5, <3>7, <3>8
    <2>3. ASSUME Fails(c)
          PROVE  \E l : /\ lookup' = [lookup EXCEPT ![c] = l]
                        /\ l \in Lookups
                        /\ l.at # "ask"
                        /\ l.at = "set" => since[l.kind][l.val] <= l.wait
                        /\ l.at \in {"call", "set"} /\ c = Scanner => l.kind = "latest"
      <3>1. Idle \in Lookups /\ Idle.at = "idle"
        BY <1>0 DEF Idle, Kinds
      <3> QED BY <2>3, <3>1 DEF Fails
    <2> QED BY <2>1, <2>2, <2>3 DEF CallNotFound, CallFails
  <1>4. TypeOK'
    <2>1. lookup' \in [Clients -> Lookups]
      BY <1>2, <1>3
    <2>2. \A d \in Clients : lookup'[d].at = "ask" => d # Scanner /\ answer[d] = 1
      BY <1>2, <1>3
    <2> QED BY <1>1, <2>1, <2>2 DEF IInv, TypeOK
  <1>5. CurrentIsNew' /\ EntryIsRecent' /\ AnswersAreRecent'
    BY <1>1 DEF IInv, CurrentIsNew, Current, EntryIsRecent, Cached, AnswersAreRecent
  <1>6. InHandIsRecent'
    BY <1>1, <1>2, <1>3 DEF IInv, InHandIsRecent
  <1>7. ScannerAsksLatest'
    BY <1>2, <1>3, CacheAssumption DEF IInv, ScannerAsksLatest
  <1> QED BY <1>4, <1>5, <1>6, <1>7 DEF IInv

LEMMA StepKeeps == IInv /\ [Next]_vars => IInv'
  <1> SUFFICES ASSUME IInv, [Next]_vars PROVE IInv'
    OBVIOUS
  <1>1. CASE Environment
    BY <1>1, GitHubKeeps, TickKeeps, ForgetKeeps DEF Environment
  <1>2. CASE \E c \in Clients : Lookup(c)
    <2>1. PICK c \in Clients : Lookup(c)
      BY <1>2
    <2>2. CASE Ask(c)
      <3>1. PICK k \in Kinds : Hit(c, k) \/ Call(c, k)
        BY <2>2 DEF Ask
      <3> QED BY <3>1, HitKeeps, CallKeeps
    <2>3. CASE Return(c)
      BY <2>3, SetKeeps
    <2>4. CASE CallOk(c) \/ CallNotFound(c) \/ CallFails(c)
      BY <2>4, CallKeeps
    <2> QED BY <2>1, <2>2, <2>3, <2>4 DEF Lookup
  <1>3. CASE UNCHANGED vars
    <2>1. UNCHANGED <<here, tag, since, entry, lookup, answer, age>>
      BY <1>3 DEF vars, github, history
    <2>2. TypeOK'
      BY <2>1 DEF IInv, TypeOK
    <2>3. CurrentIsNew' /\ EntryIsRecent' /\ InHandIsRecent'
      BY <2>1 DEF IInv, CurrentIsNew, Current, EntryIsRecent, Cached, InHandIsRecent
    <2>4. AnswersAreRecent' /\ ScannerAsksLatest'
      BY <2>1 DEF IInv, AnswersAreRecent, ScannerAsksLatest
    <2> QED BY <2>2, <2>3, <2>4 DEF IInv
  <1> QED BY <1>1, <1>2, <1>3 DEF Next

-----------------------------------------------------------------------------

(* Every variable of the cache model keeps its type, and a Subscribe asks  *)
(* for a tag only after it was told that the repository exists.            *)
THEOREM TypeCorrect == Spec => []TypeOK
  <1>1. IInv => TypeOK
    BY DEF IInv
  <1> QED BY <1>1, InitHolds, StepKeeps, PTL DEF Spec

(* No answer of the GitHub client is older than TTL + Delay, for any       *)
(* number of concurrent lookups and whatever fails.                        *)
THEOREM RecentAnswers == Spec => []AnswersAreRecent
  <1>1. IInv => AnswersAreRecent
    BY DEF IInv
  <1> QED BY <1>1, InitHolds, StepKeeps, PTL DEF Spec

=============================================================================
