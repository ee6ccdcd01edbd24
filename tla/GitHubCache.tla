---------------------------- MODULE GitHubCache ----------------------------
(***************************************************************************)
(* github.Client in front of one repository: Client.RepoExists and         *)
(* Client.LatestReleaseTag ask Redis, on a miss GitHub, and write what     *)
(* GitHub said back to Redis for cacheTTL.  The scanner and the API's      *)
(* Subscribe handlers share the two entries; nothing orders their writes.  *)
(*                                                                         *)
(* Values are numbers: 0 is "not found" for the kind "exists" and "no      *)
(* release" for the kind "latest"; other tags are numbered.  Time passes   *)
(* in ticks.  Redis may fail in any command and lose an entry at any time, *)
(* GitHub may fail in any call; ctx cancelled is one way to fail.          *)
(*                                                                         *)
(* An answer is as old as the time since GitHub would last have given it.  *)
(***************************************************************************)
EXTENDS Integers

CONSTANTS
    Clients,    \* the scanner and the Subscribe handlers of the API
    Scanner,    \* the scanner's lookup, one at a time
    MaxTag,     \* bound: releases
    TTL,        \* cacheTTL
    Delay       \* longest time from GitHub's answer to the end of its Set

ASSUME CacheAssumption ==
    /\ Scanner \in Clients
    /\ MaxTag \in Nat \ {0}
    /\ TTL \in Nat \ {0}
    /\ Delay \in Nat

VARIABLES
    here,       \* whether the repository exists on GitHub
    tag,        \* its latest release there
    since,      \* ticks since GitHub would last have given a value
    entry,      \* Redis: the value, and the ticks it has left
    lookup,     \* where each client is
    answer,     \* history: the last answer each client got
    age         \* history: how old the last answer of all was

github == <<here, tag>>
history == <<answer, age>>
vars == <<github, since, entry, lookup, history>>

Kinds == {"exists", "latest"}
Values == 0 .. MaxTag
MaxAge == TTL + Delay + 1

(* Nothing is cached.                                                      *)
Miss == [val |-> 0, left |-> 0]
Cached(kind) == entry[kind].left > 0

Idle == [at |-> "idle", kind |-> "exists", val |-> 0, wait |-> 0]
Calling(kind) == [at |-> "call", kind |-> kind, val |-> 0, wait |-> 0]

TypeOK ==
    /\ here \in BOOLEAN
    /\ tag \in Values
    /\ since \in [Kinds -> [Values -> 0 .. MaxAge]]
    /\ entry \in [Kinds -> [val : Values, left : 0 .. TTL]]
    /\ lookup \in [Clients -> [at : {"idle", "ask", "call", "set"},
                               kind : Kinds, val : Values, wait : 0 .. Delay]]
    /\ answer \in [Clients -> Values]
    /\ age \in 0 .. MaxAge
    /\ \A c \in Clients : lookup[c].at = "ask" => c # Scanner /\ answer[c] = 1

(* What GitHub answers with now; nothing if the repository is not there.   *)
Current(kind) ==
    IF kind = "exists" THEN {IF here THEN 1 ELSE 0}
    ELSE IF here THEN {tag} ELSE {}

(* Both processes have just started against an empty Redis.                *)
Init ==
    /\ here \in BOOLEAN
    /\ tag \in Values
    /\ since = [k \in Kinds |-> [v \in Values |->
                    IF v \in Current(k) THEN 0 ELSE MaxAge]]
    /\ entry = [k \in Kinds |-> Miss]
    /\ lookup = [c \in Clients |-> Idle]
    /\ answer = [c \in Clients |-> 0]
    /\ age = 0

-----------------------------------------------------------------------------
(* GitHub and time.                                                        *)

Renewed == [k \in Kinds |-> [v \in Values |->
                IF v \in Current(k)' THEN 0 ELSE since[k][v]]]

(* A release is published, or withdrawn.                                   *)
TagChanges ==
    /\ here
    /\ tag' \in Values \ {tag}
    /\ here' = here
    /\ since' = Renewed
    /\ UNCHANGED <<entry, lookup, history>>

(* The repository is created, deleted or made private.                     *)
RepoChanges ==
    /\ here' = ~ here
    /\ tag' = tag
    /\ since' = Renewed
    /\ UNCHANGED <<entry, lookup, history>>

(* An entry expires when its time is over.  The HTTP client's timeout and  *)
(* Redis' bound how long a client may sit on what GitHub said.             *)
Tick ==
    /\ \A c \in Clients : lookup[c].at = "set" => lookup[c].wait < Delay
    /\ since' = [k \in Kinds |-> [v \in Values |->
                    IF v \in Current(k) THEN 0
                    ELSE IF since[k][v] < MaxAge THEN since[k][v] + 1
                    ELSE MaxAge]]
    /\ entry' = [k \in Kinds |->
                    IF entry[k].left > 1 THEN [entry[k] EXCEPT !.left = @ - 1]
                    ELSE Miss]
    /\ lookup' = [c \in Clients |->
                    IF lookup[c].at = "set"
                    THEN [lookup[c] EXCEPT !.wait = @ + 1]
                    ELSE lookup[c]]
    /\ UNCHANGED <<github, history>>

(* Redis restarts empty, or evicts the entry.                              *)
Forget(kind) ==
    /\ Cached(kind)
    /\ entry' = [entry EXCEPT ![kind] = Miss]
    /\ UNCHANGED <<github, since, lookup, history>>

-----------------------------------------------------------------------------
(* The client.                                                             *)

(* The scanner asks for the latest tag only; Subscribe asks whether the    *)
(* repository exists first.                                                *)
Asks(c, kind) ==
    \/ kind = "latest" /\ lookup[c].at = "ask"
    \/ lookup[c].at = "idle" /\ kind = IF c = Scanner THEN "latest" ELSE "exists"

(* Mutant of AfterAnswer: ErrRepoNotFound does not end the Subscribe.      *)
AfterAnyAnswer(kind, v) ==
    IF kind = "exists" THEN [Idle EXCEPT !.at = "ask", !.val = v] ELSE Idle

AfterAnswer(kind, v) ==
    IF kind = "exists" /\ v = 1 THEN [Idle EXCEPT !.at = "ask"] ELSE Idle

Answers(c, kind, v) ==
    /\ answer' = [answer EXCEPT ![c] = v]
    /\ age' = since[kind][v]
    /\ lookup' = [lookup EXCEPT ![c] = AfterAnswer(kind, v)]

(* The lookup returns an error, and the Subscribe or the group ends.       *)
Fails(c) ==
    /\ lookup' = [lookup EXCEPT ![c] = Idle]
    /\ UNCHANGED <<github, since, entry, history>>

(* Mutant of Hit: reading an entry extends its life.                       *)
HitRefreshes(c, kind) ==
    /\ Asks(c, kind)
    /\ Cached(kind)
    /\ Answers(c, kind, entry[kind].val)
    /\ entry' = [entry EXCEPT ![kind].left = TTL]
    /\ UNCHANGED <<github, since>>

Hit(c, kind) ==
    /\ Asks(c, kind)
    /\ Cached(kind)
    /\ Answers(c, kind, entry[kind].val)
    /\ UNCHANGED <<github, since, entry>>

(* Redis has no entry, or fails.                                           *)
Call(c, kind) ==
    /\ Asks(c, kind)
    /\ lookup' = [lookup EXCEPT ![c] = Calling(kind)]
    /\ UNCHANGED <<github, since, entry, history>>

(* GitHub answers 200, or 404 to RepoExists: either will be cached.        *)
CallOk(c) ==
    /\ lookup[c].at = "call"
    /\ \E v \in Current(lookup[c].kind) :
        lookup' = [lookup EXCEPT ![c].at = "set", ![c].val = v]
    /\ UNCHANGED <<github, since, entry, history>>

(* 404 to LatestReleaseTag: an error, and not cached.                      *)
CallNotFound(c) ==
    /\ lookup[c].at = "call"
    /\ Current(lookup[c].kind) = {}
    /\ Fails(c)

(* No answer, the rate limit, any other status or a body that is no JSON.  *)
CallFails(c) ==
    /\ lookup[c].at = "call"
    /\ Fails(c)

SetOk(c) ==
    LET kind == lookup[c].kind
        v == lookup[c].val
    IN  /\ lookup[c].at = "set"
        /\ entry' = [entry EXCEPT ![kind] = [val |-> v, left |-> TTL]]
        /\ Answers(c, kind, v)
        /\ UNCHANGED <<github, since>>

(* The error of the Set is dropped.                                        *)
SetFails(c) ==
    /\ lookup[c].at = "set"
    /\ Answers(c, lookup[c].kind, lookup[c].val)
    /\ UNCHANGED <<github, since, entry>>

Environment == TagChanges \/ RepoChanges \/ Tick \/ \E k \in Kinds : Forget(k)

Ask(c) == \E k \in Kinds : Hit(c, k) \/ Call(c, k)
Return(c) == SetOk(c) \/ SetFails(c)

Lookup(c) ==
    Ask(c) \/ CallOk(c) \/ CallNotFound(c) \/ CallFails(c) \/ Return(c)

Next == Environment \/ \E c \in Clients : Lookup(c)

Spec == Init /\ [][Next]_vars

(* Time passes, a client that has GitHub's answer returns it, and the      *)
(* scanner asks scan after scan, with a call that succeeds in the end.     *)
FairSpec ==
    /\ Spec
    /\ WF_vars(Tick)
    /\ \A c \in Clients : WF_vars(Return(c))
    /\ WF_vars(Ask(Scanner))
    /\ SF_vars(CallOk(Scanner))

-----------------------------------------------------------------------------
(* Whoever writes the entries, late or twice, no answer of RepoExists or   *)
(* LatestReleaseTag, "not found" included, is older than the life of an    *)
(* entry and the delay before it was written.                              *)
AnswersAreRecent == age <= TTL + Delay

(* If GitHub settles on a latest release, so do the scanner's lookups:     *)
(* what the API wrote over it, a "no release" or an older tag, and any     *)
(* failure of Redis only delay that.                                       *)
ScannerSettles ==
    \A t \in Values :
        <>[](here /\ tag = t) => <>[](answer[Scanner] = t)

=============================================================================
