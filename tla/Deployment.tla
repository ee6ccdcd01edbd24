----------------------------- MODULE Deployment -----------------------------
(***************************************************************************)
(* The processes: several instances of cmd/api start over one database,    *)
(* migrate it, serve and are stopped.                                      *)
(*                                                                         *)
(* Start-up is a sequence of calls to Postgres and Redis; two instances    *)
(* may be anywhere in it.  A migration is a transaction, but the look      *)
(* whether it is due is not part of it.  Shutdown drains the two gRPC      *)
(* servers, then HTTP, under one deadline; then run() closes the pool,     *)
(* which waits for the connections that HTTP requests still hold.          *)
(***************************************************************************)
EXTENDS Naturals

CONSTANTS
    Instances,      \* processes of cmd/api
    None,           \* no instance
    MaxInFlight     \* bound: requests in flight per instance and server

ASSUME DeploymentAssumption ==
    /\ None \notin Instances
    /\ MaxInFlight \in Nat

VARIABLES
    schema,     \* what is committed: schema_migrations, its version, the tables
    lock,       \* the instance whose open transaction has created the tables
    phase,      \* where each instance is in run()
    why,        \* why it has exited, or run() has returned
    signalled,  \* whether it has got SIGTERM: its ctx is cancelled
    inflight,   \* its requests in flight, per server
    querying,   \* how many of its HTTP requests hold a connection to Postgres
    expired,    \* whether its shutdown has used up the 10 s
    cut         \* the servers that had to leave requests unanswered

db == <<schema, lock>>
requests == <<inflight, querying, expired, cut>>
vars == <<schema, lock, phase, why, signalled, inflight, querying, expired, cut>>

Servers == {"http", "public", "internal"}
Migrating == {"meta", "createMeta", "check", "apply", "record", "commit"}
Starting == {"ping", "redis", "listen"} \cup Migrating
Draining == {"drainPublic", "drainInternal", "shutdown"}
Phases == {"off", "serving", "closing"} \cup Starting \cup Draining
Causes == {"none", "config", "dependency", "signal", "lostMeta", "lostMigration",
           "server", "crash", "clean", "deadline"}

TypeOK ==
    /\ schema \in [meta : BOOLEAN, version : BOOLEAN, tables : BOOLEAN]
    /\ lock \in Instances \cup {None}
    /\ phase \in [Instances -> Phases]
    /\ why \in [Instances -> Causes]
    /\ signalled \in [Instances -> BOOLEAN]
    /\ inflight \in [Instances -> [Servers -> 0 .. MaxInFlight]]
    /\ querying \in [Instances -> 0 .. MaxInFlight]
    /\ \A i \in Instances : querying[i] <= inflight[i]["http"]
    /\ expired \in [Instances -> BOOLEAN]
    /\ cut \in [Instances -> SUBSET Servers]
    /\ \A i \in Instances : lock = i <=> phase[i] \in {"record", "commit"} /\ ~ schema.tables

Init ==
    /\ schema = [meta |-> FALSE, version |-> FALSE, tables |-> FALSE]
    /\ lock = None
    /\ phase = [i \in Instances |-> "off"]
    /\ why = [i \in Instances |-> "none"]
    /\ signalled = [i \in Instances |-> FALSE]
    /\ inflight = [i \in Instances |-> [s \in Servers |-> 0]]
    /\ querying = [i \in Instances |-> 0]
    /\ expired = [i \in Instances |-> FALSE]
    /\ cut = [i \in Instances |-> {}]

-----------------------------------------------------------------------------
Goto(i, next) == phase' = [phase EXCEPT ![i] = next]

(* Mutant of Exits: the transaction stays open, as without the deferred    *)
(* Rollback on a connection that is not closed.                            *)
ExitsWithoutRollback(i, cause, unanswered) ==
    /\ Goto(i, "off")
    /\ why' = [why EXCEPT ![i] = cause]
    /\ UNCHANGED lock
    /\ signalled' = [signalled EXCEPT ![i] = FALSE]
    /\ inflight' = [inflight EXCEPT ![i] = [s \in Servers |-> 0]]
    /\ querying' = [querying EXCEPT ![i] = 0]
    /\ cut' = [cut EXCEPT ![i] = @ \cup unanswered]
    /\ UNCHANGED expired

(* The process is gone: Postgres rolls its transaction back, connections   *)
(* break, and the servers in "unanswered" had requests in flight.  During  *)
(* the start-up nobody else holds a connection, so that the deferred       *)
(* db.Close has nothing to wait for.                                       *)
Exits(i, cause, unanswered) ==
    /\ Goto(i, "off")
    /\ why' = [why EXCEPT ![i] = cause]
    /\ lock' = IF lock = i THEN None ELSE lock
    /\ signalled' = [signalled EXCEPT ![i] = FALSE]
    /\ inflight' = [inflight EXCEPT ![i] = [s \in Servers |-> 0]]
    /\ querying' = [querying EXCEPT ![i] = 0]
    /\ cut' = [cut EXCEPT ![i] = @ \cup unanswered]
    /\ UNCHANGED expired

Busy(i) == {s \in Servers : inflight[i][s] > 0}

(* The settings that have to be numbers.  LoadAPI fails if one of them     *)
(* does not parse; all others have a default and take any text.            *)
Numbers == {"SMTP_PORT", "REDIS_DB"}
LoadAPI(junk) == junk = {}

Start(i) ==
    /\ phase[i] = "off"
    /\ \E junk \in SUBSET Numbers :
          IF LoadAPI(junk)
          THEN Goto(i, "ping") /\ why' = [why EXCEPT ![i] = "none"]
          ELSE UNCHANGED phase /\ why' = [why EXCEPT ![i] = "config"]
    /\ cut' = [cut EXCEPT ![i] = {}]
    /\ expired' = [expired EXCEPT ![i] = FALSE]
    /\ UNCHANGED <<db, signalled, inflight, querying>>

(* A call of the start-up fails and the process exits: the dependency is   *)
(* down, or a port is taken.                                               *)
StartFails(i) ==
    /\ phase[i] \in Starting
    /\ Exits(i, "dependency", {})
    /\ UNCHANGED schema

(* After SIGTERM the calls that take the ctx, all but net.Listen, fail.    *)
Cancelled(i) ==
    /\ phase[i] \in Starting \ {"listen"}
    /\ signalled[i]
    /\ Exits(i, "signal", {})
    /\ UNCHANGED schema

(* The instance makes the call of this phase, and its ctx is alive.        *)
Calls(i, at) == phase[i] = at /\ ~ signalled[i]

Ping(i) ==
    /\ Calls(i, "ping")
    /\ Goto(i, "meta")
    /\ UNCHANGED <<db, why, signalled, requests>>

(* create table if not exists schema_migrations: Postgres looks first and  *)
(* creates afterwards, so of two sessions that saw no table one fails.     *)
LookForMeta(i) ==
    /\ Calls(i, "meta")
    /\ Goto(i, IF schema.meta THEN "check" ELSE "createMeta")
    /\ UNCHANGED <<db, why, signalled, requests>>

CreateMeta(i) ==
    /\ Calls(i, "createMeta")
    /\ ~ schema.meta
    /\ schema' = [schema EXCEPT !.meta = TRUE]
    /\ Goto(i, "check")
    /\ UNCHANGED <<lock, why, signalled, requests>>

(* Created, but the reply is lost in the same ways.                        *)
CreateMetaReplyLost(i) ==
    /\ phase[i] = "createMeta"
    /\ ~ schema.meta
    /\ schema' = [schema EXCEPT !.meta = TRUE]
    /\ Exits(i, "dependency", {})

MetaExists(i) ==
    /\ Calls(i, "createMeta")
    /\ schema.meta
    /\ Exits(i, "lostMeta", {})
    /\ UNCHANGED schema

(* select exists(... version = $1), outside the transaction to come.       *)
Check(i) ==
    /\ Calls(i, "check")
    /\ Goto(i, IF schema.version THEN "redis" ELSE "apply")
    /\ UNCHANGED <<db, why, signalled, requests>>

(* Mutant of Apply: the file is executed outside the transaction.          *)
ApplyAutocommits(i) ==
    /\ Calls(i, "apply")
    /\ lock = None
    /\ schema' = [schema EXCEPT !.tables = TRUE]
    /\ Goto(i, "record")
    /\ UNCHANGED <<lock, why, signalled, requests>>

(* begin; create table if not exists ...: waits for a transaction that has *)
(* created the tables.  Where they are there by now, it has nothing to do. *)
Apply(i) ==
    /\ Calls(i, "apply")
    /\ lock = None
    /\ lock' = IF schema.tables THEN None ELSE i
    /\ Goto(i, "record")
    /\ UNCHANGED <<schema, why, signalled, requests>>

(* Mutant of ApplyLoses: it does not wait for the other transaction.       *)
ApplyLosesToOpen(i) ==
    /\ Calls(i, "apply")
    /\ schema.tables \/ lock # None
    /\ Exits(i, "lostMigration", {})
    /\ UNCHANGED schema

(* It had looked before the other one committed: duplicate key.            *)
ApplyLoses(i) ==
    /\ Calls(i, "apply")
    /\ schema.tables
    /\ Exits(i, "lostMigration", {})
    /\ UNCHANGED schema

Record(i) ==
    /\ Calls(i, "record")
    /\ ~ schema.version
    /\ Goto(i, "commit")
    /\ UNCHANGED <<db, why, signalled, requests>>

(* The version is recorded already: primary key violation.                 *)
RecordLoses(i) ==
    /\ Calls(i, "record")
    /\ schema.version
    /\ Exits(i, "lostMigration", {})
    /\ UNCHANGED schema

Commit(i) ==
    /\ Calls(i, "commit")
    /\ schema' = [schema EXCEPT !.version = TRUE, !.tables = TRUE]
    /\ lock' = None
    /\ Goto(i, "redis")
    /\ UNCHANGED <<why, signalled, requests>>

(* Committed, but the reply is lost, or no longer waited for after SIGTERM: *)
(* run() returns an error.                                                 *)
CommitReplyLost(i) ==
    /\ phase[i] = "commit"
    /\ schema' = [schema EXCEPT !.version = TRUE, !.tables = TRUE]
    /\ Exits(i, "dependency", {})

(* migrations.Run with its one file.                                       *)
Migrate(i) ==
    \/ LookForMeta(i) \/ CreateMeta(i) \/ CreateMetaReplyLost(i) \/ MetaExists(i)
    \/ Check(i) \/ Apply(i) \/ ApplyLoses(i) \/ Record(i) \/ RecordLoses(i)
    \/ Commit(i) \/ CommitReplyLost(i)

PingRedis(i) ==
    /\ Calls(i, "redis")
    /\ Goto(i, "listen")
    /\ UNCHANGED <<db, why, signalled, requests>>

Listen(i) ==
    /\ phase[i] = "listen"
    /\ Goto(i, "serving")
    /\ UNCHANGED <<db, why, signalled, requests>>

Startup(i) ==
    \/ Ping(i) \/ Migrate(i) \/ PingRedis(i) \/ Listen(i) \/ Cancelled(i)

-----------------------------------------------------------------------------
(* HTTP takes requests until its own turn in the shutdown comes, and after *)
(* the failure of a server until the process is gone.                      *)
Accepts(i, s) ==
    \/ phase[i] = "serving"
    \/ s = "http" /\ phase[i] \in {"drainPublic", "drainInternal"}
    \/ s = "http" /\ phase[i] = "closing" /\ why[i] = "server"

Arrive(i, s) ==
    /\ Accepts(i, s)
    /\ inflight[i][s] < MaxInFlight
    /\ inflight' = [inflight EXCEPT ![i][s] = @ + 1]
    /\ UNCHANGED <<db, phase, why, signalled, querying, expired, cut>>

(* An HTTP request takes a connection of the pool for a statement, unless  *)
(* the pool is closed, and gives it back.  gRPC requests do so, too, but   *)
(* no exit waits for them here: their servers have been stopped by then,   *)
(* and the ctx of a request that was left is cancelled, which ends its     *)
(* statement.                                                              *)
QueryBegins(i) ==
    /\ phase[i] # "closing"
    /\ querying[i] < inflight[i]["http"]
    /\ querying' = [querying EXCEPT ![i] = @ + 1]
    /\ UNCHANGED <<db, phase, why, signalled, inflight, expired, cut>>

QueryEnds(i) ==
    /\ querying[i] > 0
    /\ querying' = [querying EXCEPT ![i] = @ - 1]
    /\ UNCHANGED <<db, phase, why, signalled, inflight, expired, cut>>

(* A request is answered, and none is in the middle of a statement.        *)
Finish(i, s) ==
    /\ inflight[i][s] > IF s = "http" THEN querying[i] ELSE 0
    /\ inflight' = [inflight EXCEPT ![i][s] = @ - 1]
    /\ UNCHANGED <<db, phase, why, signalled, querying, expired, cut>>

SigTerm(i) ==
    /\ phase[i] \in Starting \cup {"serving"}
    /\ signalled' = [signalled EXCEPT ![i] = TRUE]
    /\ UNCHANGED <<db, phase, why, requests>>

(* run() returns: its deferred calls come, of which db.Close waits.  The   *)
(* two gRPC servers have been stopped.                                     *)
Returns(i, cause, unanswered) ==
    /\ Goto(i, "closing")
    /\ why' = [why EXCEPT ![i] = cause]
    /\ inflight' = [inflight EXCEPT ![i]["public"] = 0, ![i]["internal"] = 0]
    /\ cut' = [cut EXCEPT ![i] = @ \cup unanswered]
    /\ UNCHANGED <<db, signalled, querying, expired>>

(* One of the three servers stops serving: run() stops gRPC at once and    *)
(* returns; nobody stops HTTP or waits for its requests.                   *)
ServerFails(i) ==
    /\ phase[i] = "serving"
    /\ Returns(i, "server", Busy(i) \ {"http"})

(* ctx is done: both gRPC servers take nothing more and drain.             *)
BeginShutdown(i) ==
    /\ phase[i] = "serving"
    /\ signalled[i]
    /\ Goto(i, "drainPublic")
    /\ UNCHANGED <<db, why, signalled, requests>>

Deadline(i) ==
    /\ phase[i] \in Draining
    /\ ~ expired[i]
    /\ expired' = [expired EXCEPT ![i] = TRUE]
    /\ UNCHANGED <<db, phase, why, signalled, inflight, querying, cut>>

(* Mutant of Drained: Stop where GracefulStop is meant.                    *)
DrainedAtOnce(i, s) == TRUE

(* Mutant of Drained: the wait does not look at the deadline.              *)
DrainedWithoutDeadline(i, s) == inflight[i][s] = 0

(* The server has no request left, or the deadline cuts off what it has.   *)
Drained(i, s) == inflight[i][s] = 0 \/ expired[i]

StopGrpc(i, s, next) ==
    /\ Drained(i, s)
    /\ cut' = [cut EXCEPT ![i] = IF inflight[i][s] > 0 THEN @ \cup {s} ELSE @]
    /\ inflight' = [inflight EXCEPT ![i][s] = 0]
    /\ Goto(i, next)
    /\ UNCHANGED <<db, why, signalled, querying, expired>>

StopPublic(i) == phase[i] = "drainPublic" /\ StopGrpc(i, "public", "drainInternal")
StopInternal(i) == phase[i] = "drainInternal" /\ StopGrpc(i, "internal", "shutdown")

(* server.Shutdown takes nothing more and waits for what is left of the    *)
(* deadline.  The requests that it gives up go on; their ctx is not        *)
(* cancelled.                                                              *)
ShutdownHttp(i) ==
    /\ phase[i] = "shutdown"
    /\ Drained(i, "http")
    /\ Returns(i, IF inflight[i]["http"] > 0 THEN "deadline" ELSE "clean", {})

(* db.Close has got every connection back.  The end of the process cuts    *)
(* off the requests that are still there.                                  *)
Leave(i) ==
    /\ phase[i] = "closing"
    /\ querying[i] = 0
    /\ Exits(i, why[i], Busy(i))
    /\ UNCHANGED schema

Shutdown(i) ==
    \/ BeginShutdown(i) \/ StopPublic(i) \/ StopInternal(i) \/ ShutdownHttp(i) \/ Leave(i)

(* The death of a process; what it cut off is not held against anybody.    *)
Crash(i) ==
    /\ phase[i] # "off"
    /\ Exits(i, IF phase[i] = "closing" THEN why[i] ELSE "crash", {})
    /\ UNCHANGED schema

-----------------------------------------------------------------------------
Next ==
    \E i \in Instances :
        \/ Start(i) \/ Startup(i) \/ StartFails(i)
        \/ \E s \in Servers : Arrive(i, s) \/ Finish(i, s)
        \/ QueryBegins(i) \/ QueryEnds(i)
        \/ SigTerm(i) \/ ServerFails(i) \/ Deadline(i) \/ Shutdown(i) \/ Crash(i)

Spec == Init /\ [][Next]_vars

(* run() goes on from call to call, the timer of the deadline fires, and   *)
(* Postgres lets those who wait for a transaction in by turns (SF).        *)
(* Nothing is asked of the requests: a Subscribe may hang in SMTP for      *)
(* ever, and a statement in Postgres, as neither has a timeout.  Nobody    *)
(* has to start or stop a process.                                         *)
FairSpec ==
    /\ Spec
    /\ \A i \in Instances :
          /\ WF_vars(Startup(i)) /\ SF_vars(Apply(i))
          /\ WF_vars(Shutdown(i)) /\ WF_vars(Deadline(i))

-----------------------------------------------------------------------------
(* Whatever two instances do at once, the tables and the version that      *)
(* stands for them come together, and nobody serves without them.          *)
MigrationIsAtomic ==
    /\ schema.version <=> schema.tables
    /\ \A i \in Instances :
          phase[i] \in {"redis", "listen", "serving", "closing"} \cup Draining => schema.version

(* An instance that exits because it lost a race finds the thing done when *)
(* it is started again: it cannot lose the same race twice.                *)
LosersFindItDone ==
    \A i \in Instances :
        /\ why[i] = "lostMeta" => schema.meta
        /\ why[i] = "lostMigration" => schema.version

(* No instance gets stuck behind the transaction of another: each start    *)
(* ends in serving or in an exit.                                          *)
StartSettles ==
    \A i \in Instances : (phase[i] \in Starting) ~> (phase[i] \notin Starting)

(* Only the deadline, or the failure of a server, leaves a request that    *)
(* was accepted unanswered.  HTTP's are left by the end of the process     *)
(* alone, and run() has then returned an error: a process that exits with  *)
(* status 0 has answered each of them.                                     *)
CutOnlyAtTheEnd ==
    \A i \in Instances :
        /\ cut[i] # {} => expired[i] \/ why[i] = "server"
        /\ "http" \in cut[i] => phase[i] = "off" /\ why[i] \in {"deadline", "server"}

(* The deferred db.Close waits for a connection that a request holds.      *)
HeldUp(i) == phase[i] = "closing" /\ querying[i] > 0

(* An instance that was told to stop, or one of whose servers has failed,  *)
(* exits, however long requests hang in SMTP or elsewhere and however many *)
(* more arrive.  One thing can keep it for ever, past the deadline: an     *)
(* HTTP request's statement to which Postgres never replies.               *)
StopsInTheEnd ==
    \A i \in Instances :
        (signalled[i] \/ phase[i] = "closing") ~> (phase[i] = "off" \/ []HeldUp(i))

=============================================================================
