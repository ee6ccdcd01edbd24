------------------------- MODULE DeploymentProofs -------------------------
(***************************************************************************)
(* Proofs about Deployment, for any number of instances and any bound.     *)
(***************************************************************************)
EXTENDS Deployment, TLAPS

(* Who is about to commit holds the transaction that made the tables: the  *)
(* insert of the version has told it that nobody was faster.               *)
CommitterHolds == \A i \in Instances : phase[i] = "commit" => lock = i

(* A server that was stopped has nothing in flight any more; neither has   *)
(* HTTP when run() has returned no error.                                  *)
StoppedIsEmpty ==
    \A i \in Instances :
        /\ phase[i] \in {"drainInternal", "shutdown", "closing"} => inflight[i]["public"] = 0
        /\ phase[i] \in {"shutdown", "closing"} => inflight[i]["internal"] = 0
        /\ phase[i] = "closing" /\ why[i] = "clean" => inflight[i]["http"] = 0

(* run() returns from serving and from its shutdown, for one of three      *)
(* reasons, and for "deadline" only when that has passed.                  *)
ReturnHasReason ==
    \A i \in Instances : phase[i] = "closing" =>
        /\ why[i] \in {"clean", "deadline", "server"}
        /\ why[i] = "deadline" => expired[i]

(* Without the deadline only the failure of a server cuts anything off,    *)
(* and then run() has returned.                                            *)
CutBeforeDeadline ==
    \A i \in Instances :
        /\ cut[i] # {} => expired[i] \/ (why[i] = "server" /\ phase[i] \in {"closing", "off"})
        /\ "http" \in cut[i] => phase[i] = "off" /\ why[i] \in {"deadline", "server"}

(* The inductive invariant, in the two parts that do not need each other.  *)
DbInv == TypeOK /\ CommitterHolds /\ MigrationIsAtomic /\ LosersFindItDone
StopInv == StoppedIsEmpty /\ ReturnHasReason /\ CutBeforeDeadline

-----------------------------------------------------------------------------
LEMMA InitDbInv == Init => DbInv
  <1> SUFFICES ASSUME Init PROVE DbInv
    OBVIOUS
  <1>1. ASSUME NEW i \in Instances PROVE querying[i] <= inflight[i]["http"]
    <2>1. querying[i] = 0 /\ inflight[i] = [s \in Servers |-> 0] /\ "http" \in Servers
      BY DEF Init, Servers
    <2> QED BY <2>1
  <1>2. TypeOK
    BY <1>1, DeploymentAssumption DEF Init, TypeOK, Phases, Causes
  <1>3. CommitterHolds /\ MigrationIsAtomic /\ LosersFindItDone
    BY DEF Init, CommitterHolds, MigrationIsAtomic, LosersFindItDone, Draining
  <1> QED BY <1>2, <1>3 DEF DbInv

(* An exit, whatever its cause, as long as a claim to have lost is true of *)
(* the schema it leaves and the schema only grows under it.                *)
LEMMA ExitKeepsDbInv ==
  ASSUME DbInv, NEW i \in Instances, NEW cause \in Causes,
         NEW unanswered \in SUBSET Servers,
         Exits(i, cause, unanswered),
         \/ UNCHANGED schema
         \/ phase[i] = "createMeta" /\ schema' = [schema EXCEPT !.meta = TRUE]
         \/ phase[i] = "commit" /\ schema' = [schema EXCEPT !.version = TRUE, !.tables = TRUE],
         cause = "lostMeta" => schema.meta,
         cause = "lostMigration" => schema.version
  PROVE  DbInv'
  <1>1. TypeOK'
    <2>1. ASSUME NEW j \in Instances
          PROVE  lock' = j <=> phase'[j] \in {"record", "commit"} /\ ~ schema'.tables
      BY DeploymentAssumption DEF DbInv, TypeOK, CommitterHolds, Exits, Goto
    <2>2. /\ schema' \in [meta : BOOLEAN, version : BOOLEAN, tables : BOOLEAN]
          /\ lock' \in Instances \cup {None}
          /\ phase' \in [Instances -> Phases]
          /\ why' \in [Instances -> Causes]
          /\ signalled' \in [Instances -> BOOLEAN]
      BY DEF DbInv, TypeOK, Exits, Goto, Phases
    <2>3. /\ inflight' \in [Instances -> [Servers -> 0 .. MaxInFlight]]
          /\ querying' \in [Instances -> 0 .. MaxInFlight]
          /\ \A j \in Instances : querying'[j] <= inflight'[j]["http"]
      BY DeploymentAssumption DEF DbInv, TypeOK, Exits, Servers
    <2>4. expired' \in [Instances -> BOOLEAN] /\ cut' \in [Instances -> SUBSET Servers]
      BY DEF DbInv, TypeOK, Exits
    <2> QED BY <2>1, <2>2, <2>3, <2>4 DEF DbInv, TypeOK
  <1>2. CommitterHolds'
    BY DeploymentAssumption DEF DbInv, TypeOK, CommitterHolds, Exits, Goto
  <1>3. MigrationIsAtomic'
    BY DEF DbInv, TypeOK, MigrationIsAtomic, Exits, Goto, Draining
  <1>4. LosersFindItDone'
    BY DEF DbInv, TypeOK, LosersFindItDone, Exits, Goto
  <1> QED BY <1>1, <1>2, <1>3, <1>4 DEF DbInv

(* A step of an instance that only moves on to its next phase.             *)
LEMMA GotoKeepsDbInv ==
  ASSUME DbInv, NEW i \in Instances, NEW next \in Phases \ {"record", "commit"},
         phase[i] \notin {"record", "commit"},
         Goto(i, next), UNCHANGED <<db, why, signalled>>,
         inflight' \in [Instances -> [Servers -> 0 .. MaxInFlight]],
         querying' \in [Instances -> 0 .. MaxInFlight],
         \A j \in Instances : querying'[j] <= inflight'[j]["http"],
         expired' \in [Instances -> BOOLEAN],
         cut' \in [Instances -> SUBSET Servers],
         next \in {"redis", "listen", "serving", "closing"} \cup Draining => schema.version
  PROVE  DbInv'
  <1>1. TypeOK'
    BY DEF DbInv, TypeOK, Goto, db
  <1>2. CommitterHolds' /\ MigrationIsAtomic' /\ LosersFindItDone'
    BY DEF DbInv, TypeOK, CommitterHolds, MigrationIsAtomic, LosersFindItDone,
       Goto, db, Draining
  <1> QED BY <1>1, <1>2 DEF DbInv

(* A step that moves no instance and leaves the database alone.            *)
LEMMA QuietKeepsDbInv ==
  ASSUME DbInv, UNCHANGED <<db, phase, why>>,
         signalled' \in [Instances -> BOOLEAN],
         inflight' \in [Instances -> [Servers -> 0 .. MaxInFlight]],
         querying' \in [Instances -> 0 .. MaxInFlight],
         \A j \in Instances : querying'[j] <= inflight'[j]["http"],
         expired' \in [Instances -> BOOLEAN],
         cut' \in [Instances -> SUBSET Servers]
  PROVE  DbInv'
  BY DEF DbInv, TypeOK, CommitterHolds, MigrationIsAtomic, LosersFindItDone, db

LEMMA MigrateDbInv ==
  ASSUME DbInv, NEW i \in Instances, Migrate(i)
  PROVE  DbInv'
  <1> USE DEF Phases, Starting, Migrating, Draining
  <1>1. CASE LookForMeta(i)
    BY <1>1, GotoKeepsDbInv DEF LookForMeta, Calls, DbInv, TypeOK, requests
  <1>2. CASE CreateMeta(i)
    <2>1. TypeOK'
      BY <1>2 DEF CreateMeta, Calls, DbInv, TypeOK, Goto, requests
    <2>2. CommitterHolds' /\ MigrationIsAtomic' /\ LosersFindItDone'
      BY <1>2 DEF CreateMeta, Calls, DbInv, TypeOK, Goto, CommitterHolds,
         MigrationIsAtomic, LosersFindItDone
    <2> QED BY <2>1, <2>2 DEF DbInv
  <1>3. CASE CreateMetaReplyLost(i)
    BY <1>3, ExitKeepsDbInv DEF CreateMetaReplyLost, Causes
  <1>4. CASE MetaExists(i)
    BY <1>4, ExitKeepsDbInv DEF MetaExists, Calls, Causes
  <1>5. CASE Check(i)
    BY <1>5, GotoKeepsDbInv DEF Check, Calls, DbInv, TypeOK, requests
  <1>6. CASE Apply(i)
    <2>1. TypeOK'
      BY <1>6, DeploymentAssumption DEF Apply, Calls, DbInv, TypeOK, Goto, requests
    <2>2. CommitterHolds' /\ MigrationIsAtomic' /\ LosersFindItDone'
      BY <1>6, DeploymentAssumption DEF Apply, Calls, DbInv, TypeOK, Goto, CommitterHolds,
         MigrationIsAtomic, LosersFindItDone
    <2> QED BY <2>1, <2>2 DEF DbInv
  <1>7. CASE ApplyLoses(i)
    BY <1>7, ExitKeepsDbInv DEF ApplyLoses, Calls, Causes, DbInv, MigrationIsAtomic
  <1>8. CASE Record(i)
    <2>1. TypeOK'
      BY <1>8 DEF Record, Calls, DbInv, TypeOK, Goto, db, requests
    <2>2. CommitterHolds' /\ MigrationIsAtomic' /\ LosersFindItDone'
      BY <1>8 DEF Record, Calls, DbInv, TypeOK, Goto, db, CommitterHolds,
         MigrationIsAtomic, LosersFindItDone
    <2> QED BY <2>1, <2>2 DEF DbInv
  <1>9. CASE RecordLoses(i)
    BY <1>9, ExitKeepsDbInv DEF RecordLoses, Calls, Causes
  <1>10. CASE Commit(i)
    <2>1. TypeOK'
      BY <1>10, DeploymentAssumption DEF Commit, Calls, DbInv, TypeOK, Goto, requests,
         CommitterHolds
    <2>2. CommitterHolds' /\ MigrationIsAtomic' /\ LosersFindItDone'
      BY <1>10, DeploymentAssumption DEF Commit, Calls, DbInv, TypeOK, Goto,
         CommitterHolds, MigrationIsAtomic, LosersFindItDone
    <2> QED BY <2>1, <2>2 DEF DbInv
  <1>11. CASE CommitReplyLost(i)
    BY <1>11, ExitKeepsDbInv DEF CommitReplyLost, Causes
  <1> QED BY <1>1, <1>2, <1>3, <1>4, <1>5, <1>6, <1>7, <1>8, <1>9, <1>10, <1>11 DEF Migrate

(* run() returns: it moves on to its deferred calls, with a cause that is  *)
(* no claim about the schema.                                              *)
LEMMA ReturnKeepsDbInv ==
  ASSUME DbInv, NEW i \in Instances, NEW cause \in {"server", "deadline", "clean"},
         NEW unanswered \in SUBSET Servers,
         Returns(i, cause, unanswered),
         phase[i] \in {"serving"} \cup Draining
  PROVE  DbInv'
  <1> USE DEF Phases, Starting, Migrating, Draining
  <1>1. TypeOK'
    <2>1. /\ phase' \in [Instances -> Phases]
          /\ why' \in [Instances -> Causes]
          /\ cut' \in [Instances -> SUBSET Servers]
          /\ UNCHANGED <<schema, lock, signalled, querying, expired>>
      BY DEF DbInv, TypeOK, Returns, Goto, Causes, db
    <2>2. /\ inflight' \in [Instances -> [Servers -> 0 .. MaxInFlight]]
          /\ \A j \in Instances : inflight'[j]["http"] = inflight[j]["http"]
      BY DeploymentAssumption DEF DbInv, TypeOK, Returns, Servers
    <2>3. ASSUME NEW j \in Instances
          PROVE  lock' = j <=> phase'[j] \in {"record", "commit"} /\ ~ schema'.tables
      BY DEF DbInv, TypeOK, Returns, Goto, db
    <2> QED BY <2>1, <2>2, <2>3 DEF DbInv, TypeOK
  <1>2. CommitterHolds' /\ MigrationIsAtomic' /\ LosersFindItDone'
    BY DEF DbInv, TypeOK, CommitterHolds, MigrationIsAtomic, LosersFindItDone,
       Returns, Goto, db
  <1> QED BY <1>1, <1>2 DEF DbInv

LEMMA ServeDbInv ==
  ASSUME DbInv, NEW i \in Instances,
         \/ \E s \in Servers : Arrive(i, s) \/ Finish(i, s)
         \/ QueryBegins(i) \/ QueryEnds(i)
         \/ SigTerm(i) \/ ServerFails(i) \/ Deadline(i)
  PROVE  DbInv'
  <1>1. ASSUME NEW s \in Servers, Arrive(i, s) PROVE DbInv'
    <2>1. /\ inflight' \in [Instances -> [Servers -> 0 .. MaxInFlight]]
          /\ \A j \in Instances : querying[j] <= inflight'[j]["http"]
      BY <1>1, DeploymentAssumption DEF Arrive, DbInv, TypeOK, Servers
    <2> QED BY <1>1, <2>1, QuietKeepsDbInv DEF Arrive, DbInv, TypeOK
  <1>2. ASSUME NEW s \in Servers, Finish(i, s) PROVE DbInv'
    <2>1. /\ inflight' \in [Instances -> [Servers -> 0 .. MaxInFlight]]
          /\ \A j \in Instances : querying[j] <= inflight'[j]["http"]
      BY <1>2, DeploymentAssumption DEF Finish, DbInv, TypeOK, Servers
    <2> QED BY <1>2, <2>1, QuietKeepsDbInv DEF Finish, DbInv, TypeOK
  <1>3. ASSUME QueryBegins(i) \/ QueryEnds(i) PROVE DbInv'
    <2>1. /\ querying' \in [Instances -> 0 .. MaxInFlight]
          /\ \A j \in Instances : querying'[j] <= inflight[j]["http"]
      BY <1>3, DeploymentAssumption DEF QueryBegins, QueryEnds, DbInv, TypeOK, Servers
    <2> QED BY <1>3, <2>1, QuietKeepsDbInv DEF QueryBegins, QueryEnds, DbInv, TypeOK
  <1>4. CASE SigTerm(i)
    BY <1>4, QuietKeepsDbInv DEF SigTerm, requests, DbInv, TypeOK
  <1>5. CASE ServerFails(i)
    BY <1>5, ReturnKeepsDbInv DEF ServerFails, Busy
  <1>6. CASE Deadline(i)
    BY <1>6, QuietKeepsDbInv DEF Deadline, DbInv, TypeOK
  <1> QED BY <1>1, <1>2, <1>3, <1>4, <1>5, <1>6

LEMMA ShutdownDbInv ==
  ASSUME DbInv, NEW i \in Instances, Shutdown(i)
  PROVE  DbInv'
  <1> USE DEF Phases, Starting, Migrating, Draining
  <1>1. CASE BeginShutdown(i)
    BY <1>1, GotoKeepsDbInv DEF BeginShutdown, DbInv, TypeOK, requests, MigrationIsAtomic
  <1>2. ASSUME NEW s \in Servers \ {"http"}, NEW next \in Draining, StopGrpc(i, s, next),
               phase[i] \in Draining
        PROVE  DbInv'
    <2>1. /\ inflight' \in [Instances -> [Servers -> 0 .. MaxInFlight]]
          /\ \A j \in Instances : querying[j] <= inflight'[j]["http"]
      BY <1>2, DeploymentAssumption DEF StopGrpc, DbInv, TypeOK, Servers
    <2>2. schema.version
      BY <1>2 DEF DbInv, MigrationIsAtomic
    <2>3. cut' \in [Instances -> SUBSET Servers]
      BY <1>2 DEF StopGrpc, DbInv, TypeOK
    <2> QED BY <1>2, <2>1, <2>2, <2>3, GotoKeepsDbInv DEF StopGrpc, DbInv, TypeOK
  <1>3. CASE StopPublic(i)
    BY <1>2, <1>3 DEF StopPublic, Servers
  <1>4. CASE StopInternal(i)
    BY <1>2, <1>4 DEF StopInternal, Servers
  <1>5. CASE ShutdownHttp(i)
    BY <1>5, ReturnKeepsDbInv DEF ShutdownHttp
  <1>6. CASE Leave(i)
    BY <1>6, ExitKeepsDbInv DEF Leave, Busy, DbInv, TypeOK, LosersFindItDone
  <1> QED BY <1>1, <1>3, <1>4, <1>5, <1>6 DEF Shutdown

LEMMA NextDbInv ==
  ASSUME DbInv, [Next]_vars
  PROVE  DbInv'
  <1> USE DEF Phases, Starting, Migrating, Draining
  <1>1. ASSUME NEW i \in Instances, Start(i) PROVE DbInv'
    <2>1. /\ phase[i] = "off"
          /\ phase' = [phase EXCEPT ![i] = "ping"] \/ UNCHANGED phase
          /\ why' = [why EXCEPT ![i] = "none"] \/ why' = [why EXCEPT ![i] = "config"]
          /\ cut' = [cut EXCEPT ![i] = {}]
          /\ expired' = [expired EXCEPT ![i] = FALSE]
          /\ UNCHANGED <<schema, lock, signalled, inflight, querying>>
      BY <1>1 DEF Start, Goto, db
    <2>2. TypeOK'
      <3>1. phase' \in [Instances -> Phases] /\ why' \in [Instances -> Causes]
        BY <2>1 DEF DbInv, TypeOK, Causes
      <3>2. cut' \in [Instances -> SUBSET Servers] /\ expired' \in [Instances -> BOOLEAN]
        BY <2>1 DEF DbInv, TypeOK
      <3>3. ASSUME NEW j \in Instances
            PROVE  lock' = j <=> phase'[j] \in {"record", "commit"} /\ ~ schema'.tables
        BY <2>1 DEF DbInv, TypeOK
      <3> QED BY <2>1, <3>1, <3>2, <3>3 DEF DbInv, TypeOK
    <2>3. CommitterHolds' /\ MigrationIsAtomic' /\ LosersFindItDone'
      BY <2>1 DEF DbInv, TypeOK, CommitterHolds, MigrationIsAtomic, LosersFindItDone
    <2> QED BY <2>2, <2>3 DEF DbInv
  <1>2. ASSUME NEW i \in Instances, Startup(i) PROVE DbInv'
    <2>1. CASE Ping(i)
      BY <2>1, GotoKeepsDbInv DEF Ping, Calls, DbInv, TypeOK, requests
    <2>2. CASE Migrate(i)
      BY <2>2, MigrateDbInv
    <2>3. CASE PingRedis(i)
      BY <2>3, GotoKeepsDbInv DEF PingRedis, Calls, DbInv, TypeOK, requests, MigrationIsAtomic
    <2>4. CASE Listen(i)
      BY <2>4, GotoKeepsDbInv DEF Listen, DbInv, TypeOK, requests, MigrationIsAtomic
    <2>5. CASE Cancelled(i)
      BY <2>5, ExitKeepsDbInv DEF Cancelled, Causes
    <2> QED BY <1>2, <2>1, <2>2, <2>3, <2>4, <2>5 DEF Startup
  <1>3. ASSUME NEW i \in Instances, StartFails(i) PROVE DbInv'
    BY <1>3, ExitKeepsDbInv DEF StartFails, Causes
  <1>4. ASSUME NEW i \in Instances, Crash(i) PROVE DbInv'
    BY <1>4, ExitKeepsDbInv DEF Crash, Causes, DbInv, TypeOK, LosersFindItDone
  <1>5. CASE UNCHANGED vars
    BY <1>5, QuietKeepsDbInv DEF vars, db, DbInv, TypeOK
  <1> QED
    BY <1>1, <1>2, <1>3, <1>4, <1>5, ServeDbInv, ShutdownDbInv DEF Next

-----------------------------------------------------------------------------
LEMMA InitStopInv == Init => StopInv
  BY DEF Init, StopInv, StoppedIsEmpty, ReturnHasReason, CutBeforeDeadline, Servers

(* An exit leaves a process that is off; what it cuts off must be due to   *)
(* the deadline or to a server's failure, and what was cut off by a        *)
(* failure goes on to be put down to it.                                   *)
LEMMA ExitKeepsStopInv ==
  ASSUME DbInv, StopInv, NEW i \in Instances, NEW cause \in Causes,
         NEW unanswered \in SUBSET Servers, Exits(i, cause, unanswered),
         phase[i] # "off",
         phase[i] = "closing" => cause = why[i],
         unanswered # {} => expired[i] \/ cause = "server",
         "http" \in unanswered => cause \in {"deadline", "server"}
  PROVE  StopInv'
  <1>1. StoppedIsEmpty' /\ ReturnHasReason'
    BY DEF DbInv, TypeOK, StopInv, StoppedIsEmpty, ReturnHasReason, Exits, Goto, Phases
  <1>2. CutBeforeDeadline'
    BY DEF DbInv, TypeOK, StopInv, CutBeforeDeadline, Exits, Goto, Phases
  <1> QED BY <1>1, <1>2 DEF StopInv

(* run() returns with a reason, and what it cuts off is gRPC's.            *)
LEMMA ReturnKeepsStopInv ==
  ASSUME DbInv, StopInv, NEW i \in Instances, NEW cause \in {"server", "deadline", "clean"},
         NEW unanswered \in SUBSET (Servers \ {"http"}), Returns(i, cause, unanswered),
         phase[i] \in {"serving"} \cup Draining,
         unanswered # {} => cause = "server",
         cause = "deadline" => expired[i],
         cause = "clean" => inflight[i]["http"] = 0
  PROVE  StopInv'
  <1> USE DEF Phases, Starting, Migrating, Draining
  <1>1. StoppedIsEmpty'
    BY DEF DbInv, TypeOK, StopInv, StoppedIsEmpty, Returns, Goto, Servers
  <1>2. ReturnHasReason'
    BY DEF DbInv, TypeOK, StopInv, ReturnHasReason, Returns, Goto
  <1>3. CutBeforeDeadline'
    BY DEF DbInv, TypeOK, StopInv, CutBeforeDeadline, Returns, Goto, Servers
  <1> QED BY <1>1, <1>2, <1>3 DEF StopInv

(* A step that moves no instance, cuts nothing off and gives no request to *)
(* a server that was stopped.                                              *)
LEMMA QuietKeepsStopInv ==
  ASSUME StopInv, UNCHANGED <<phase, why, cut>>,
         \A j \in Instances : expired[j] => expired'[j],
         StoppedIsEmpty'
  PROVE  StopInv'
  BY DEF StopInv, ReturnHasReason, CutBeforeDeadline

LEMMA NextStopInv ==
  ASSUME DbInv, StopInv, [Next]_vars
  PROVE  StopInv'
  <1> USE DEF Phases, Starting, Migrating, Draining
  <1>1. ASSUME NEW i \in Instances, Start(i) PROVE StopInv'
    BY <1>1 DEF Start, Goto, DbInv, TypeOK, StopInv, StoppedIsEmpty, ReturnHasReason,
                CutBeforeDeadline
  <1>2. ASSUME NEW i \in Instances,
               StartFails(i) \/ Cancelled(i) \/ MetaExists(i) \/ ApplyLoses(i)
                 \/ RecordLoses(i) \/ CreateMetaReplyLost(i) \/ CommitReplyLost(i)
        PROVE  StopInv'
    BY <1>2, ExitKeepsStopInv
    DEF StartFails, Cancelled, MetaExists, ApplyLoses, RecordLoses,
        CreateMetaReplyLost, CommitReplyLost, Calls, Causes
  <1>3. ASSUME NEW i \in Instances, Crash(i) PROVE StopInv'
    <2>1. PICK cause \in Causes : /\ Exits(i, cause, {})
                                  /\ phase[i] = "closing" => cause = why[i]
      BY <1>3 DEF Crash, Causes, DbInv, TypeOK
    <2>2. phase[i] # "off"
      BY <1>3 DEF Crash
    <2> QED BY <2>1, <2>2, ExitKeepsStopInv
  <1>4. ASSUME NEW i \in Instances, ServerFails(i) PROVE StopInv'
    BY <1>4, ReturnKeepsStopInv DEF ServerFails, Busy
  <1>5. ASSUME NEW i \in Instances, ShutdownHttp(i) PROVE StopInv'
    BY <1>5, ReturnKeepsStopInv DEF ShutdownHttp, Drained, DbInv, TypeOK, Servers
  <1>6. ASSUME NEW i \in Instances, Leave(i) PROVE StopInv'
    <2>1. Busy(i) \subseteq {"http"} /\ (why[i] = "clean" => Busy(i) = {})
      BY <1>6 DEF Leave, Busy, StopInv, StoppedIsEmpty, Servers
    <2>2. /\ why[i] \in {"clean", "deadline", "server"}
          /\ why[i] = "deadline" => expired[i]
      BY <1>6 DEF Leave, StopInv, ReturnHasReason
    <2> QED BY <1>6, <2>1, <2>2, ExitKeepsStopInv DEF Leave, Causes, Servers
  <1>7. ASSUME NEW i \in Instances,
               NEW next \in Phases \ {"drainInternal", "shutdown", "closing"},
               Goto(i, next), phase[i] \notin {"off", "closing"}, UNCHANGED <<why, requests>>
        PROVE  StopInv'
    BY <1>7 DEF Goto, requests, DbInv, TypeOK, StopInv, StoppedIsEmpty, ReturnHasReason,
                CutBeforeDeadline
  <1>8. ASSUME NEW i \in Instances,
               Ping(i) \/ LookForMeta(i) \/ CreateMeta(i) \/ Check(i) \/ Apply(i)
                 \/ Record(i) \/ Commit(i) \/ PingRedis(i) \/ Listen(i) \/ BeginShutdown(i)
        PROVE  StopInv'
    BY <1>7, <1>8
    DEF Ping, LookForMeta, CreateMeta, Check, Apply, Record, Commit, PingRedis, Listen,
        BeginShutdown, Calls
  <1>9. ASSUME NEW i \in Instances, StopPublic(i) \/ StopInternal(i) PROVE StopInv'
    <2>1. StoppedIsEmpty'
      BY <1>9 DEF StopPublic, StopInternal, StopGrpc, Goto, DbInv, TypeOK, StopInv,
                  StoppedIsEmpty, Servers
    <2>2. ReturnHasReason'
      BY <1>9 DEF StopPublic, StopInternal, StopGrpc, Goto, DbInv, TypeOK, StopInv,
                  ReturnHasReason
    <2>3. CutBeforeDeadline'
      BY <1>9 DEF StopPublic, StopInternal, StopGrpc, Drained, Goto, DbInv, TypeOK, StopInv,
                  CutBeforeDeadline, Servers
    <2> QED BY <2>1, <2>2, <2>3 DEF StopInv
  <1>10. ASSUME NEW i \in Instances, NEW s \in Servers, Arrive(i, s) PROVE StopInv'
    <2>1. StoppedIsEmpty'
      BY <1>10 DEF Arrive, Accepts, DbInv, TypeOK, StopInv, StoppedIsEmpty, Servers
    <2> QED BY <1>10, <2>1, QuietKeepsStopInv DEF Arrive
  <1>11. ASSUME NEW i \in Instances, NEW s \in Servers, Finish(i, s) PROVE StopInv'
    <2>1. StoppedIsEmpty'
      BY <1>11, DeploymentAssumption
      DEF Finish, DbInv, TypeOK, StopInv, StoppedIsEmpty, Servers
    <2> QED BY <1>11, <2>1, QuietKeepsStopInv DEF Finish
  <1>12. ASSUME NEW i \in Instances,
                SigTerm(i) \/ Deadline(i) \/ QueryBegins(i) \/ QueryEnds(i)
         PROVE  StopInv'
    <2>1. UNCHANGED <<phase, why, cut, inflight>>
          /\ \A j \in Instances : expired[j] => expired'[j]
      BY <1>12 DEF SigTerm, Deadline, QueryBegins, QueryEnds, requests, DbInv, TypeOK
    <2> QED BY <2>1, QuietKeepsStopInv DEF StopInv, StoppedIsEmpty
  <1>13. CASE UNCHANGED vars
    BY <1>13 DEF vars, StopInv, StoppedIsEmpty, ReturnHasReason, CutBeforeDeadline
  <1> QED
    BY <1>1, <1>2, <1>3, <1>4, <1>5, <1>6, <1>8, <1>9, <1>10, <1>11, <1>12, <1>13
    DEF Next, Startup, Migrate, Shutdown

LEMMA AlwaysDbInv == Spec => []DbInv
  BY InitDbInv, NextDbInv, PTL DEF Spec

-----------------------------------------------------------------------------
(* The state keeps its type, and the tables' transaction its one owner.    *)
THEOREM TypeCorrect == Spec => []TypeOK
  <1>1. DbInv => TypeOK BY DEF DbInv
  <1> QED BY <1>1, AlwaysDbInv, PTL

(* Any number of instances may start over one database at once: its tables *)
(* and the version that stands for them are committed together.            *)
THEOREM Migration == Spec => []MigrationIsAtomic
  <1>1. DbInv => MigrationIsAtomic BY DEF DbInv
  <1> QED BY <1>1, AlwaysDbInv, PTL

(* Whoever loses a race of the start-up finds the thing done next time.    *)
THEOREM Losers == Spec => []LosersFindItDone
  <1>1. DbInv => LosersFindItDone BY DEF DbInv
  <1> QED BY <1>1, AlwaysDbInv, PTL

(* A request that was taken is left unanswered only by the deadline or the *)
(* failure of a server; a process that exits with status 0 has answered    *)
(* every HTTP request.                                                     *)
THEOREM GracefulStop == Spec => []CutOnlyAtTheEnd
  <1>1. DbInv /\ StopInv /\ [Next]_vars => StopInv'
    BY NextStopInv
  <1>2. StopInv => CutOnlyAtTheEnd
    BY DEF StopInv, CutBeforeDeadline, CutOnlyAtTheEnd
  <1> QED BY <1>1, <1>2, InitStopInv, AlwaysDbInv, PTL DEF Spec

=============================================================================
