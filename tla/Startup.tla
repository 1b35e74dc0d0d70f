------------------------------ MODULE Startup -------------------------------
(***************************************************************************)
(* How the service comes up: src/provision.ts creates the tables at a      *)
(* local endpoint, any number of times and at the same time as another of  *)
(* its kind, and src/index.ts loads the configuration and binds its port.  *)
(* In docker-compose.yml the service starts when one provisioner, the      *)
(* ComposeRun, has exited with 0.  All processes have the same environment.*)
(***************************************************************************)
EXTENDS Config, TableSchema, Sequences

CONSTANTS
    Environments,  \* the environments the processes may be given
    Provisioners,  \* runs of provision.ts
    ComposeRun,    \* the one that docker-compose.yml starts
    Patience,      \* the seconds for which an endpoint is awaited: 30
    MaxFaults,     \* bound: calls that fail though the endpoint is there
    MaxKills       \* bound: provisioners killed, to be run again

ASSUME StartupAssumption ==
    /\ \A env \in Environments : DOMAIN env = KNOWN_CONFIG_ENV_KEYS
    /\ ComposeRun \in Provisioners
    /\ Patience \in Nat /\ MaxFaults \in Nat /\ MaxKills \in Nat

VARIABLES
    env,       \* the environment
    config,    \* what loadConfig makes of it, in each of the processes
    composed,  \* whether docker-compose.yml starts the service
    up,        \* whether the endpoint listens
    tables,    \* the tables at the endpoint: a set of records
    prov,      \* where each provisioner is
    targets,   \* where CreateTable has been sent
    app,       \* where index.ts is
    faults,
    kills

setting == <<env, config, composed>>

vars == <<env, config, composed, up, tables, prov, targets, app, faults, kills>>

Running == {"create", "wait", "sleep"}

(* at is the table a run is at, elapsed the time it last looked at the     *)
(* clock, since it set its deadline.                                       *)
ProvisionerStates ==
    [pc      : Running \cup
                  {"idle", "completed", "refused", "failed", "killed"},
     at      : 1 .. 3,
     elapsed : 0 .. Patience + 1]

AppStates == {"off", "binding", "listening", "exited"}

Definitions == tableDefinitions(config)

TableStates ==
    {[name |-> Definitions[i].name, indexes |-> Definitions[i].indexes,
      status |-> status] : i \in 1 .. 3, status \in {"creating", "active"}}

TypeOK ==
    /\ env \in Environments
    /\ composed \in BOOLEAN /\ up \in BOOLEAN
    /\ prov \in [Provisioners -> ProvisionerStates]
    /\ targets \subseteq {"aws", "local"}
    /\ app \in AppStates
    /\ faults \in 0 .. MaxFaults /\ kills \in 0 .. MaxKills
    /\ tables \subseteq TableStates

Init ==
    /\ env \in Environments
    /\ config = loadConfig(env)
    /\ composed \in BOOLEAN /\ up \in BOOLEAN
    /\ tables = {}
    /\ prov = [p \in Provisioners |-> [pc |-> "idle", at |-> 1, elapsed |-> 0]]
    /\ targets = {}
    /\ app = "off"
    /\ faults = 0 /\ kills = 0

-----------------------------------------------------------------------------
(* The tables there are under a name: one at most.                         *)
Named(name) == {table \in tables : table.name = name}

IsActive(name) == \E table \in Named(name) : table.status = "active"

(* createDynamoClient: without an endpoint, or with an empty one, the SDK  *)
(* talks to AWS.  Like the code, this calls any endpoint that is set local.*)
Target(endpoint) == IF endpoint \in {Unset, Blank} THEN "aws" ELSE "local"

Fault == faults < MaxFaults /\ faults' = faults + 1

(* What comes before a look at the clock may take any time; beyond the     *)
(* deadline it makes no difference how much.                               *)
Later(p) == prov[p].elapsed .. Patience + 1

(* The codes the loop takes for an endpoint that is not listening yet.     *)
Retryable == {"ECONNREFUSED", "ETIMEDOUT", "EAI_AGAIN"}

(* Any other code, such as ENOTFOUND, EHOSTUNREACH or ECONNRESET, and the  *)
(* answers of the endpoint that are errors.                                *)
Codes == Retryable \cup {"other"}

(* Mutant: the deadline is not looked at.                                  *)
Rejected_NoDeadline(p, code) ==
    \E t \in Later(p) :
        prov' = [prov EXCEPT
            ![p].pc = IF code \in Retryable THEN "sleep" ELSE "failed",
            ![p].elapsed = t]

(* ensureTables rejects with a code: the loop waits a second and starts    *)
(* again, unless the deadline has passed or the code means something else. *)
Rejected(p, code) ==
    \E t \in Later(p) :
        prov' = [prov EXCEPT
            ![p].pc = IF t <= Patience /\ code \in Retryable THEN "sleep"
                                                             ELSE "failed",
            ![p].elapsed = t]

-----------------------------------------------------------------------------
(* provision.ts is run, or run again after it was killed.                  *)
Start(p) ==
    /\ prov[p].pc \in {"idle", "killed"}
    /\ prov' = [prov EXCEPT ![p] =
          [pc      |-> CASE ~Accepted(env)                        -> "failed"
                         [] Accepted(env) /\ config.DYNAMODB_ENDPOINT = Unset
                                                                  -> "refused"
                         [] OTHER                                 -> "create",
           at      |-> 1,
           elapsed |-> 0]]
    /\ UNCHANGED <<setting, up, tables, targets, app, faults, kills>>

(* The endpoint makes a table that is not there, and leaves one that is.   *)
Made(definition) ==
    IF Named(definition.name) = {}
    THEN tables \cup {[name    |-> definition.name,
                       indexes |-> definition.indexes,
                       status  |-> "creating"]}
    ELSE tables

(* Mutant: a table that exists is taken to be ready.                       *)
Create_InUseIsReady(p) ==
    LET definition == Definitions[prov[p].at] IN
    /\ prov[p].pc = "create" /\ up
    /\ tables' = Made(definition)
    /\ prov' = [prov EXCEPT ![p] =
          IF Named(definition.name) = {} THEN [@ EXCEPT !.pc = "wait"]
          ELSE IF @.at = 3 THEN [@ EXCEPT !.pc = "completed"]
          ELSE [@ EXCEPT !.at = @ + 1]]
    /\ targets' = targets \cup {Target(config.DYNAMODB_ENDPOINT)}
    /\ UNCHANGED <<setting, up, app, faults, kills>>

(* Mutant: a table that exists is an error like any other.                 *)
Create_InUseIsAnError(p) ==
    LET definition == Definitions[prov[p].at] IN
    /\ prov[p].pc = "create" /\ up
    /\ tables' = Made(definition)
    /\ prov' = [prov EXCEPT
          ![p].pc = IF Named(definition.name) = {} THEN "wait" ELSE "failed"]
    /\ targets' = targets \cup {Target(config.DYNAMODB_ENDPOINT)}
    /\ UNCHANGED <<setting, up, app, faults, kills>>

(* CreateTable is answered, with success or a ResourceInUseException: the  *)
(* table is awaited in both cases.                                         *)
Create(p) ==
    /\ prov[p].pc = "create" /\ up
    /\ tables' = Made(Definitions[prov[p].at])
    /\ prov' = [prov EXCEPT ![p].pc = "wait"]
    /\ targets' = targets \cup {Target(config.DYNAMODB_ENDPOINT)}
    /\ UNCHANGED <<setting, up, app, faults, kills>>

(* CreateTable finds nobody listening: with a code that is not retried,    *)
(* the run fails at once.                                                  *)
CreateUnreachable(p) ==
    /\ prov[p].pc = "create" /\ ~up
    /\ \E code \in Codes : Rejected(p, code)
    /\ targets' = targets \cup {Target(config.DYNAMODB_ENDPOINT)}
    /\ UNCHANGED <<setting, up, tables, app, faults, kills>>

(* CreateTable fails though the endpoint is there, and may have made the   *)
(* table all the same.                                                     *)
CreateFails(p) ==
    /\ prov[p].pc = "create" /\ up
    /\ Fault
    /\ \E made \in {tables, Made(Definitions[prov[p].at])} : tables' = made
    /\ \E code \in Codes : Rejected(p, code)
    /\ targets' = targets \cup {Target(config.DYNAMODB_ENDPOINT)}
    /\ UNCHANGED <<setting, up, app, kills>>

(* Mutant: the table after the last is waited for.                         *)
WaitEnds_OffByOne(p) ==
    /\ prov[p].pc = "wait"
    /\ IsActive(Definitions[prov[p].at].name)
    /\ prov' = [prov EXCEPT ![p] =
          IF @.at > 3 THEN [@ EXCEPT !.pc = "completed"]
                      ELSE [@ EXCEPT !.pc = "create", !.at = @ + 1]]
    /\ UNCHANGED <<setting, up, tables, targets, app, faults, kills>>

(* waitUntilTableExists: on to the next table, or done.                    *)
WaitEnds(p) ==
    /\ prov[p].pc = "wait"
    /\ IsActive(Definitions[prov[p].at].name)
    /\ prov' = IF prov[p].at = 3
               THEN [prov EXCEPT ![p].pc = "completed"]
               ELSE [prov EXCEPT ![p].pc = "create", ![p].at = @ + 1]
    /\ UNCHANGED <<setting, up, tables, targets, app, faults, kills>>

(* It gives up after a minute, with an error that has no code.             *)
WaitTimesOut(p) ==
    /\ prov[p].pc = "wait"
    /\ ~IsActive(Definitions[prov[p].at].name)
    /\ Fault
    /\ Rejected(p, "none")
    /\ UNCHANGED <<setting, up, tables, targets, app, kills>>

(* Mutant: the loop ends when the deadline has passed, untried.            *)
Wake_NoLastTry(p) ==
    /\ prov[p].pc = "sleep"
    /\ \E t \in Later(p) \ {prov[p].elapsed} :
          prov' = [prov EXCEPT
              ![p] = [pc      |-> IF t <= Patience THEN "create" ELSE "failed",
                      at      |-> 1,
                      elapsed |-> t]]
    /\ UNCHANGED <<setting, up, tables, targets, app, faults, kills>>

(* The second of sleep is over: the deadline is not looked at here.        *)
Wake(p) ==
    /\ prov[p].pc = "sleep"
    /\ \E t \in Later(p) \ {prov[p].elapsed} :
          prov' = [prov EXCEPT
              ![p] = [pc |-> "create", at |-> 1, elapsed |-> t]]
    /\ UNCHANGED <<setting, up, tables, targets, app, faults, kills>>

Kill(p) ==
    /\ prov[p].pc \in Running
    /\ kills < MaxKills
    /\ kills' = kills + 1
    /\ prov' = [prov EXCEPT ![p].pc = "killed"]
    /\ UNCHANGED <<setting, up, tables, targets, app, faults>>

-----------------------------------------------------------------------------
(* The endpoint starts to listen, and stays.                               *)
EndpointUp ==
    /\ ~up
    /\ up' = TRUE
    /\ UNCHANGED <<setting, tables, prov, targets, app, faults, kills>>

(* A table becomes ACTIVE.                                                 *)
TableReady(table) ==
    /\ table.status = "creating"
    /\ tables' = (tables \ {table}) \cup {[table EXCEPT !.status = "active"]}
    /\ UNCHANGED <<setting, up, prov, targets, app, faults, kills>>

(* index.ts is run: by hand, or when the provisioner has completed.        *)
AppStart ==
    /\ app = "off"
    /\ composed => prov[ComposeRun].pc = "completed"
    /\ app' = IF Accepted(env) THEN "binding" ELSE "exited"
    /\ UNCHANGED <<setting, up, tables, prov, targets, faults, kills>>

Listen ==
    /\ app = "binding"
    /\ app' = "listening"
    /\ UNCHANGED <<setting, up, tables, prov, targets, faults, kills>>

(* The port is taken, or may not be bound.                                 *)
ListenFails ==
    /\ app = "binding"
    /\ Fault
    /\ app' = "exited"
    /\ UNCHANGED <<setting, up, tables, prov, targets, kills>>

ProvisionerStep(p) ==
    Create(p) \/ CreateUnreachable(p) \/ WaitEnds(p) \/ Wake(p)

Next ==
    \/ \E p \in Provisioners :
          \/ Start(p) \/ ProvisionerStep(p)
          \/ CreateFails(p) \/ WaitTimesOut(p) \/ Kill(p)
    \/ EndpointUp
    \/ \E table \in tables : TableReady(table)
    \/ AppStart \/ Listen \/ ListenFails

Spec == Init /\ [][Next]_vars

(* A process that runs goes on, docker-compose starts what it is to start, *)
(* and a table that is being created gets ready.                           *)
Fairness ==
    /\ \A p \in Provisioners : WF_vars(ProvisionerStep(p))
    /\ WF_vars(Start(ComposeRun))
    /\ WF_vars(\E table \in tables : TableReady(table))
    /\ WF_vars(AppStart) /\ WF_vars(Listen)

FairSpec == Spec /\ Fairness

-----------------------------------------------------------------------------
(* The service that docker-compose started finds every table of its        *)
(* configuration ready, with the indexes that its repositories query: the  *)
(* provisioner completes only when it may (ensure-tables.ts 23-37).  Two   *)
(* tables of one name are not told apart by anything in the code.          *)
NamesDistinct == \A i, j \in 1 .. 3 :
    Definitions[i].name = Definitions[j].name => i = j

AppFindsItsTables ==
    composed /\ app \in {"binding", "listening"} /\ NamesDistinct =>
        \A i \in 1 .. 3 : \E table \in Named(Definitions[i].name) :
            table.status = "active" /\ Serves(table.indexes, QueriedIndexes[i])

(* Tables are never created on AWS: "refuses to run unless                 *)
(* DYNAMODB_ENDPOINT is set" (provision.ts 6-7).                           *)
NothingProvisionedOnAws == "aws" \notin targets

(* The configuration of a service that runs meets the assumptions that the *)
(* dispatcher, the retry policy, the sweep and the HTTP server make.       *)
Sound(c) ==
    /\ c.MAX_DELIVERY_ATTEMPTS \in 1 .. 20
    /\ c.RETRY_BASE_DELAY_MS \in Nat
    /\ c.RETRY_MAX_DELAY_MS \in Nat
    /\ c.RETRY_BASE_DELAY_MS <= c.RETRY_MAX_DELAY_MS
    /\ c.STUCK_DELIVERING_THRESHOLD_MS \in Nat
    /\ c.RECOVERY_INTERVAL_MS \in Nat
    /\ {c.WEBHOOK_TIMEOUT_MS, c.RECOVERY_BATCH_LIMIT,
        c.MAX_REQUEST_BODY_BYTES} \subseteq Nat \ {0}
    /\ c.PORT \in Nat \ {0} /\ c.PORT <= 65535

RunningConfigIsSound == app \in {"binding", "listening"} => Sound(config)

(* A service never runs on a default in place of a value that was given to *)
(* it and could not be used (config.ts 210-216).                           *)
NoSilentFallback ==
    app \in {"binding", "listening"} =>
        \A key \in KNOWN_CONFIG_ENV_KEYS :
            IsSet(env[key]) => config[key] = env[key]

(* A provisioner does not run for ever, whether the endpoint comes or not. *)
ProvisionerEnds ==
    \A p \in Provisioners : prov[p].pc \in Running ~> prov[p].pc \notin Running

(* With the endpoint there, nothing that fails and nothing that is killed, *)
(* docker-compose brings the service up, whoever else creates the tables.  *)
ServiceComesUp ==
    /\ up /\ composed /\ app = "off"
    /\ prov[ComposeRun].pc = "idle"
    /\ Accepted(env) /\ config.DYNAMODB_ENDPOINT # Unset
    ~> app = "listening" \/ faults > 0 \/ kills > 0

(* An endpoint that comes while docker-compose's provisioner sleeps is not *)
(* too late, even if the deadline passes meanwhile: it is looked at only   *)
(* after a call that was rejected (provision.ts 37-49), so the last sleep  *)
(* is followed by a try, and the service comes up.                         *)
LateEndpointIsUsed ==
    up /\ composed /\ prov[ComposeRun].pc = "sleep"
    ~> app = "listening" \/ faults > 0 \/ kills > 0
=============================================================================
