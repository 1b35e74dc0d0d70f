--------------------------- MODULE StartupProofs ----------------------------
(***************************************************************************)
(* Proofs about Startup, for every set of environments, any number of      *)
(* provisioners and any number of faults and kills.                        *)
(***************************************************************************)
EXTENDS Startup, TLAPS

(* A provisioner that has got beyond a refusal, and an application that    *)
(* has got beyond loadConfig, have been given a configuration to go by.    *)
AcceptedByAll ==
    /\ \A p \in Provisioners : prov[p].pc \in Running \cup {"completed"} =>
          Accepted(env) /\ config.DYNAMODB_ENDPOINT # Unset
    /\ app \in {"binding", "listening"} => Accepted(env)

(* The tables that a provisioner has behind it are ready.                  *)
ReadySoFar ==
    \A p \in Provisioners : \A i \in 1 .. 3 :
        \/ prov[p].pc = "completed"
        \/ prov[p].pc \in Running /\ i < prov[p].at
        => IsActive(Definitions[i].name)

ServiceIsLast ==
    composed /\ app # "off" => prov[ComposeRun].pc = "completed"

(* The inductive invariant.                                                *)
SInv ==
    /\ TypeOK
    /\ config = loadConfig(env)
    /\ AcceptedByAll
    /\ NothingProvisionedOnAws
    /\ ReadySoFar
    /\ ServiceIsLast

-----------------------------------------------------------------------------
(* The endpoint of a configuration is never blank (config.ts 157).         *)
LEMMA EndpointIsNoBlank ==
    ASSUME NEW e
    PROVE  loadConfig(e).DYNAMODB_ENDPOINT # Unset =>
               Target(loadConfig(e).DYNAMODB_ENDPOINT) = "local"
<1>1. "DYNAMODB_ENDPOINT" \in KNOWN_CONFIG_ENV_KEYS
    BY DEF KNOWN_CONFIG_ENV_KEYS
<1>2. loadConfig(e).DYNAMODB_ENDPOINT = dynamoEndpoint(e)
    BY <1>1 DEF loadConfig
<1> QED  BY <1>2 DEF dynamoEndpoint, IsSet, Target

(* A table that is active stays so in every step.                          *)
LEMMA ActiveStays ==
    ASSUME TypeOK, [Next]_vars, NEW name, IsActive(name)
    PROVE  IsActive(name)'
<1>1. PICK table \in tables : table.name = name /\ table.status = "active"
    BY DEF IsActive, Named
<1>2. table \in tables'
    <2>1. CASE \E other \in tables : TableReady(other)
        BY <1>1, <2>1 DEF TableReady
    <2>2. CASE \E p \in Provisioners : Create(p) \/ CreateFails(p)
        BY <1>1, <2>2 DEF Create, CreateFails, Made
    <2>3. CASE UNCHANGED tables
        BY <1>1, <2>3
    <2> QED
        BY <2>1, <2>2, <2>3
        DEF Next, vars, ProvisionerStep, Start, CreateUnreachable, WaitEnds,
            WaitTimesOut, Wake, Kill, EndpointUp, AppStart, Listen, ListenFails
<1> QED  BY <1>1, <1>2 DEF IsActive, Named

(* What a rejection leaves of the provisioners.                            *)
LEMMA RejectedProv ==
    ASSUME TypeOK, NEW p \in Provisioners, NEW code, Rejected(p, code)
    PROVE  /\ prov' \in [Provisioners -> ProvisionerStates]
           /\ \A q \in Provisioners : q # p => prov'[q] = prov[q]
           /\ prov'[p].pc \in {"sleep", "failed"}
           /\ prov'[p].at = prov[p].at
<1>1. PICK t \in Later(p) :
          prov' = [prov EXCEPT
              ![p].pc = IF t <= Patience /\ code \in Retryable THEN "sleep"
                                                               ELSE "failed",
              ![p].elapsed = t]
    BY DEF Rejected
<1>2. prov[p] \in ProvisionerStates /\ Patience \in Nat
    BY StartupAssumption DEF TypeOK
<1>3. t \in 0 .. Patience + 1
    BY <1>2 DEF Later, ProvisionerStates
<1>4. prov'[p] = [prov[p] EXCEPT
          !.pc = IF t <= Patience /\ code \in Retryable THEN "sleep" ELSE "failed",
          !.elapsed = t]
    BY <1>1 DEF TypeOK
<1>5. prov'[p] \in ProvisionerStates
    BY <1>2, <1>3, <1>4 DEF ProvisionerStates, Running
<1>6. prov' \in [Provisioners -> ProvisionerStates]
    BY <1>1, <1>5 DEF TypeOK
<1>7. /\ prov'[p].pc \in {"sleep", "failed"}
      /\ prov'[p].at = prov[p].at
    BY <1>2, <1>3, <1>4 DEF ProvisionerStates
<1> QED  BY <1>1, <1>6, <1>7 DEF TypeOK

(* A table is made in its own shape.                                       *)
LEMMA MadeTyped ==
    ASSUME TypeOK, NEW i \in 1 .. 3
    PROVE  Made(Definitions[i]) \subseteq TableStates
BY DEF TypeOK, Made, TableStates

-----------------------------------------------------------------------------
LEMMA InitSInv == Init => SInv
BY StartupAssumption
DEF Init, SInv, TypeOK, ProvisionerStates, Running, AppStates, AcceptedByAll,
    NothingProvisionedOnAws, ReadySoFar, ServiceIsLast

(* Everything a step may do to the parts of the invariant, put in terms of *)
(* the provisioner that moved.                                             *)
LEMMA OneProvisionerMoves ==
    ASSUME SInv, NEW p \in Provisioners,
           UNCHANGED <<env, config, composed, app>>,
           [Next]_vars,
           prov' \in [Provisioners -> ProvisionerStates],
           \A q \in Provisioners : q # p => prov'[q] = prov[q],
           prov[p].pc # "completed",
           prov'[p].pc \in Running \cup {"completed"} =>
               Accepted(env) /\ config.DYNAMODB_ENDPOINT # Unset,
           \A i \in 1 .. 3 :
               \/ prov'[p].pc = "completed"
               \/ prov'[p].pc \in Running /\ i < prov'[p].at
               => IsActive(Definitions[i].name)
    PROVE  AcceptedByAll' /\ ReadySoFar' /\ ServiceIsLast'
<1>1. AcceptedByAll'
    BY DEF SInv, AcceptedByAll
<1>2. ReadySoFar'
    <2> SUFFICES ASSUME NEW q \in Provisioners, NEW i \in 1 .. 3,
                        \/ prov'[q].pc = "completed"
                        \/ prov'[q].pc \in Running /\ i < prov'[q].at
                 PROVE  IsActive(Definitions[i].name)'
        BY DEF ReadySoFar
    <2>1. IsActive(Definitions[i].name)
        BY DEF SInv, ReadySoFar
    <2>2. Definitions' = Definitions
        BY DEF Definitions
    <2> QED  BY <2>1, <2>2, ActiveStays DEF SInv
<1>3. ServiceIsLast'
    BY StartupAssumption DEF SInv, ServiceIsLast
<1> QED  BY <1>1, <1>2, <1>3

LEMMA NextSInv ==
    ASSUME SInv, [Next]_vars
    PROVE  SInv'
<1> USE DEF setting
<1>a. TypeOK /\ config = loadConfig(env)
    BY DEF SInv
<1>b. faults \in Nat /\ MaxFaults \in Nat
    BY <1>a, StartupAssumption DEF TypeOK
<1>1. ASSUME NEW p \in Provisioners, Start(p)
      PROVE  SInv'
    <2>1. prov'[p] = [pc |-> prov'[p].pc, at |-> 1, elapsed |-> 0]
        BY <1>a, <1>1 DEF Start, TypeOK
    <2>2. /\ prov'[p].pc \in {"failed", "refused", "create"}
          /\ prov'[p].pc = "create" =>
                Accepted(env) /\ config.DYNAMODB_ENDPOINT # Unset
        BY <1>a, <1>1 DEF Start, TypeOK
    <2>3. prov'[p] \in ProvisionerStates
        BY <2>1, <2>2, StartupAssumption DEF ProvisionerStates, Running
    <2>4. prov' \in [Provisioners -> ProvisionerStates]
        BY <1>a, <1>1, <2>3 DEF Start, TypeOK
    <2>5. \A q \in Provisioners : q # p => prov'[q] = prov[q]
        BY <1>a, <1>1 DEF Start, TypeOK
    <2>6. TypeOK' /\ (config = loadConfig(env))' /\ NothingProvisionedOnAws'
        BY <1>a, <1>1, <2>4
        DEF Start, TypeOK, SInv, NothingProvisionedOnAws, TableStates, Definitions
    <2>7. \A i \in 1 .. 3 : ~(i < prov'[p].at)
        BY <2>1
    <2>8. AcceptedByAll' /\ ReadySoFar' /\ ServiceIsLast'
        BY <1>1, <2>2, <2>4, <2>5, <2>7, OneProvisionerMoves
        DEF Start, Running
    <2> QED  BY <2>6, <2>8 DEF SInv
<1>2. ASSUME NEW p \in Provisioners, Create(p)
      PROVE  SInv'
    <2>1. prov[p] \in ProvisionerStates /\ prov[p].pc = "create"
        BY <1>a, <1>2 DEF Create, TypeOK
    <2>2. prov'[p] = [prov[p] EXCEPT !.pc = "wait"]
        BY <1>a, <1>2 DEF Create, TypeOK
    <2>3. prov'[p] \in ProvisionerStates /\ prov'[p].pc = "wait"
          /\ prov'[p].at = prov[p].at
        BY <2>1, <2>2 DEF ProvisionerStates, Running
    <2>4. prov' \in [Provisioners -> ProvisionerStates]
        BY <1>a, <1>2, <2>3 DEF Create, TypeOK
    <2>5. \A q \in Provisioners : q # p => prov'[q] = prov[q]
        BY <1>a, <1>2 DEF Create, TypeOK
    <2>6. Accepted(env) /\ config.DYNAMODB_ENDPOINT # Unset
        BY <2>1 DEF SInv, AcceptedByAll, Running
    <2>7. tables' \subseteq TableStates
        BY <1>a, <1>2, <2>1, MadeTyped DEF Create, ProvisionerStates
    <2>8. targets' \subseteq {"local"}
        BY <1>a, <1>2, <2>6, EndpointIsNoBlank
        DEF Create, SInv, NothingProvisionedOnAws, TypeOK
    <2>9. TypeOK' /\ (config = loadConfig(env))' /\ NothingProvisionedOnAws'
        BY <1>a, <1>2, <2>4, <2>7, <2>8
        DEF Create, TypeOK, NothingProvisionedOnAws, TableStates, Definitions
    <2>10. \A i \in 1 .. 3 : i < prov'[p].at => IsActive(Definitions[i].name)
        BY <2>1, <2>3 DEF SInv, ReadySoFar, Running
    <2>11. AcceptedByAll' /\ ReadySoFar' /\ ServiceIsLast'
        BY <1>2, <2>1, <2>3, <2>4, <2>5, <2>6, <2>10, OneProvisionerMoves
        DEF Create, Running
    <2> QED  BY <2>9, <2>11 DEF SInv
<1>3. ASSUME NEW p \in Provisioners, CreateUnreachable(p) \/ CreateFails(p)
      PROVE  SInv'
    <2>1. prov[p] \in ProvisionerStates /\ prov[p].pc = "create"
        BY <1>a, <1>3 DEF CreateUnreachable, CreateFails, TypeOK
    <2>2. PICK code \in Codes : Rejected(p, code)
        BY <1>3 DEF CreateUnreachable, CreateFails
    <2>3. /\ prov' \in [Provisioners -> ProvisionerStates]
          /\ \A q \in Provisioners : q # p => prov'[q] = prov[q]
          /\ prov'[p].pc \in {"sleep", "failed"}
          /\ prov'[p].at = prov[p].at
        BY <1>a, <2>2, RejectedProv
    <2>4. Accepted(env) /\ config.DYNAMODB_ENDPOINT # Unset
        BY <2>1 DEF SInv, AcceptedByAll, Running
    <2>5. tables' \subseteq TableStates
        BY <1>a, <1>3, <2>1, MadeTyped
        DEF CreateUnreachable, CreateFails, ProvisionerStates, TypeOK
    <2>6. targets' \subseteq {"local"}
        BY <1>a, <1>3, <2>4, EndpointIsNoBlank
        DEF CreateUnreachable, CreateFails, SInv, NothingProvisionedOnAws, TypeOK
    <2>7. faults' \in 0 .. MaxFaults
        BY <1>a, <1>3, <1>b DEF CreateUnreachable, CreateFails, Fault, TypeOK
    <2>8. TypeOK' /\ (config = loadConfig(env))' /\ NothingProvisionedOnAws'
        BY <1>a, <1>3, <2>3, <2>5, <2>6, <2>7
        DEF CreateUnreachable, CreateFails, TypeOK, NothingProvisionedOnAws,
            TableStates, Definitions
    <2>9. \A i \in 1 .. 3 : i < prov'[p].at => IsActive(Definitions[i].name)
        BY <2>1, <2>3 DEF SInv, ReadySoFar, Running
    <2>10. UNCHANGED <<env, config, composed, app>>
        BY <1>3 DEF CreateUnreachable, CreateFails
    <2>11. AcceptedByAll' /\ ReadySoFar' /\ ServiceIsLast'
        BY <2>1, <2>3, <2>4, <2>9, <2>10, OneProvisionerMoves
        DEF Running
    <2> QED  BY <2>8, <2>11 DEF SInv
<1>4. ASSUME NEW p \in Provisioners, WaitEnds(p)
      PROVE  SInv'
    <2>1. prov[p] \in ProvisionerStates /\ prov[p].pc = "wait"
        BY <1>a, <1>4 DEF WaitEnds, TypeOK
    <2>3. /\ prov'[p] \in ProvisionerStates
          /\ prov'[p].pc = "completed" => prov[p].at = 3
          /\ prov'[p].pc # "completed" =>
                prov'[p].pc = "create" /\ prov'[p].at = prov[p].at + 1
        <3>1. CASE prov[p].at = 3
            <4>1. prov'[p] = [prov[p] EXCEPT !.pc = "completed"]
                BY <1>a, <1>4, <3>1 DEF WaitEnds, TypeOK
            <4> QED  BY <2>1, <3>1, <4>1 DEF ProvisionerStates, Running
        <3>2. CASE prov[p].at # 3
            <4>1. prov'[p] = [prov[p] EXCEPT !.pc = "create", !.at = @ + 1]
                BY <1>a, <1>4, <3>2 DEF WaitEnds, TypeOK
            <4>2. prov'[p] = [pc |-> "create", at |-> prov[p].at + 1,
                              elapsed |-> prov[p].elapsed]
                BY <2>1, <4>1 DEF ProvisionerStates
            <4> QED  BY <2>1, <3>2, <4>2 DEF ProvisionerStates, Running
        <3> QED  BY <3>1, <3>2
    <2>4. prov' \in [Provisioners -> ProvisionerStates]
        BY <1>a, <1>4, <2>3 DEF WaitEnds, TypeOK
    <2>5. \A q \in Provisioners : q # p => prov'[q] = prov[q]
        BY <1>a, <1>4 DEF WaitEnds, TypeOK
    <2>6. Accepted(env) /\ config.DYNAMODB_ENDPOINT # Unset
        BY <2>1 DEF SInv, AcceptedByAll, Running
    <2>7. TypeOK' /\ (config = loadConfig(env))' /\ NothingProvisionedOnAws'
        BY <1>a, <1>4, <2>4
        DEF WaitEnds, TypeOK, SInv, NothingProvisionedOnAws, TableStates, Definitions
    <2>8. \A i \in 1 .. 3 : i <= prov[p].at => IsActive(Definitions[i].name)
        <3> SUFFICES ASSUME NEW i \in 1 .. 3, i <= prov[p].at
                     PROVE  IsActive(Definitions[i].name)
            OBVIOUS
        <3>1. prov[p].at \in 1 .. 3
            BY <2>1 DEF ProvisionerStates
        <3>2. CASE i = prov[p].at
            BY <1>4, <3>2 DEF WaitEnds
        <3>3. CASE i < prov[p].at
            BY <2>1, <3>3 DEF SInv, ReadySoFar, Running
        <3> QED  BY <3>1, <3>2, <3>3
    <2>9. \A i \in 1 .. 3 :
              \/ prov'[p].pc = "completed"
              \/ prov'[p].pc \in Running /\ i < prov'[p].at
              => IsActive(Definitions[i].name)
        BY <2>1, <2>3, <2>8 DEF ProvisionerStates
    <2>10. AcceptedByAll' /\ ReadySoFar' /\ ServiceIsLast'
        BY <1>4, <2>1, <2>4, <2>5, <2>6, <2>9, OneProvisionerMoves DEF WaitEnds
    <2> QED  BY <2>7, <2>10 DEF SInv
<1>5. ASSUME NEW p \in Provisioners, WaitTimesOut(p)
      PROVE  SInv'
    <2>1. prov[p] \in ProvisionerStates /\ prov[p].pc = "wait"
        BY <1>a, <1>5 DEF WaitTimesOut, TypeOK
    <2>2. /\ prov' \in [Provisioners -> ProvisionerStates]
          /\ \A q \in Provisioners : q # p => prov'[q] = prov[q]
          /\ prov'[p].pc \in {"sleep", "failed"}
          /\ prov'[p].at = prov[p].at
        BY <1>a, <1>5, RejectedProv DEF WaitTimesOut
    <2>3. Accepted(env) /\ config.DYNAMODB_ENDPOINT # Unset
        BY <2>1 DEF SInv, AcceptedByAll, Running
    <2>4. faults' \in 0 .. MaxFaults
        BY <1>a, <1>5, <1>b DEF WaitTimesOut, Fault, TypeOK
    <2>5. TypeOK' /\ (config = loadConfig(env))' /\ NothingProvisionedOnAws'
        BY <1>a, <1>5, <2>2, <2>4
        DEF WaitTimesOut, TypeOK, SInv, NothingProvisionedOnAws, TableStates, Definitions
    <2>6. \A i \in 1 .. 3 : i < prov'[p].at => IsActive(Definitions[i].name)
        BY <2>1, <2>2 DEF SInv, ReadySoFar, Running
    <2>7. AcceptedByAll' /\ ReadySoFar' /\ ServiceIsLast'
        BY <1>5, <2>1, <2>2, <2>3, <2>6, OneProvisionerMoves
        DEF WaitTimesOut, Running
    <2> QED  BY <2>5, <2>7 DEF SInv
<1>6. ASSUME NEW p \in Provisioners, Wake(p)
      PROVE  SInv'
    <2>1. prov[p] \in ProvisionerStates /\ prov[p].pc = "sleep"
        BY <1>a, <1>6 DEF Wake, TypeOK
    <2>2. PICK t \in Later(p) :
              prov' = [prov EXCEPT ![p] = [pc |-> "create", at |-> 1, elapsed |-> t]]
        BY <1>6 DEF Wake
    <2>3. t \in 0 .. Patience + 1
        BY <2>1, StartupAssumption DEF Later, ProvisionerStates
    <2>4. prov'[p] \in ProvisionerStates /\ prov'[p].pc = "create" /\ prov'[p].at = 1
        BY <1>a, <2>2, <2>3 DEF ProvisionerStates, Running, TypeOK
    <2>5. /\ prov' \in [Provisioners -> ProvisionerStates]
          /\ \A q \in Provisioners : q # p => prov'[q] = prov[q]
        BY <1>a, <2>2, <2>4 DEF TypeOK
    <2>6. Accepted(env) /\ config.DYNAMODB_ENDPOINT # Unset
        BY <2>1 DEF SInv, AcceptedByAll, Running
    <2>7. TypeOK' /\ (config = loadConfig(env))' /\ NothingProvisionedOnAws'
        BY <1>a, <1>6, <2>5
        DEF Wake, TypeOK, SInv, NothingProvisionedOnAws, TableStates, Definitions
    <2>8. AcceptedByAll' /\ ReadySoFar' /\ ServiceIsLast'
        BY <1>6, <2>1, <2>4, <2>5, <2>6, OneProvisionerMoves DEF Wake
    <2> QED  BY <2>7, <2>8 DEF SInv
<1>7. ASSUME NEW p \in Provisioners, Kill(p)
      PROVE  SInv'
    <2>1. prov[p] \in ProvisionerStates /\ prov[p].pc \in Running
        BY <1>a, <1>7 DEF Kill, TypeOK
    <2>2. prov'[p] = [prov[p] EXCEPT !.pc = "killed"]
        BY <1>a, <1>7 DEF Kill, TypeOK
    <2>3. prov'[p] \in ProvisionerStates /\ prov'[p].pc = "killed"
        BY <2>1, <2>2 DEF ProvisionerStates
    <2>4. /\ prov' \in [Provisioners -> ProvisionerStates]
          /\ \A q \in Provisioners : q # p => prov'[q] = prov[q]
        BY <1>a, <1>7, <2>3 DEF Kill, TypeOK
    <2>5. kills' \in 0 .. MaxKills
        BY <1>a, <1>7, StartupAssumption DEF Kill, TypeOK
    <2>6. TypeOK' /\ (config = loadConfig(env))' /\ NothingProvisionedOnAws'
        BY <1>a, <1>7, <2>4, <2>5
        DEF Kill, TypeOK, SInv, NothingProvisionedOnAws, TableStates, Definitions
    <2>7. AcceptedByAll' /\ ReadySoFar' /\ ServiceIsLast'
        BY <1>7, <2>1, <2>3, <2>4, OneProvisionerMoves DEF Kill, Running
    <2> QED  BY <2>6, <2>7 DEF SInv
<1>8. ASSUME NEW table \in tables, TableReady(table)
      PROVE  SInv'
    <2>1. table \in TableStates
        BY <1>a DEF TypeOK
    <2>2. [table EXCEPT !.status = "active"] \in TableStates
        BY <2>1 DEF TableStates
    <2>3. tables' \subseteq TableStates
        BY <1>a, <1>8, <2>2 DEF TableReady, TypeOK
    <2>4. TypeOK' /\ (config = loadConfig(env))' /\ NothingProvisionedOnAws'
        BY <1>a, <1>8, <2>3
        DEF TableReady, TypeOK, SInv, NothingProvisionedOnAws, TableStates, Definitions
    <2>5. ReadySoFar'
        BY <1>a, <1>8, ActiveStays DEF TableReady, SInv, ReadySoFar, Definitions
    <2>6. AcceptedByAll' /\ ServiceIsLast'
        BY <1>8 DEF TableReady, SInv, AcceptedByAll, ServiceIsLast
    <2> QED  BY <2>4, <2>5, <2>6 DEF SInv
<1>9. CASE EndpointUp
    BY <1>9
    DEF EndpointUp, SInv, TypeOK, AcceptedByAll, NothingProvisionedOnAws, ReadySoFar,
        ServiceIsLast, TableStates, Definitions, IsActive, Named
<1>10. CASE AppStart \/ Listen \/ ListenFails
    <2>1. UNCHANGED <<env, config, composed, up, tables, prov, targets, kills>>
        BY <1>10 DEF AppStart, Listen, ListenFails
    <2>2. faults' \in 0 .. MaxFaults
        BY <1>10, <1>a, <1>b DEF AppStart, Listen, ListenFails, Fault, TypeOK
    <2>3. app' \in AppStates
        BY <1>10 DEF AppStart, Listen, ListenFails, AppStates
    <2>4. TypeOK' /\ (config = loadConfig(env))' /\ NothingProvisionedOnAws'
        BY <1>a, <2>1, <2>2, <2>3
        DEF TypeOK, SInv, NothingProvisionedOnAws, TableStates, Definitions
    <2>5. ReadySoFar'
        BY <2>1 DEF SInv, ReadySoFar, IsActive, Named, Definitions
    <2>6. AcceptedByAll' /\ ServiceIsLast'
        BY <1>10, <2>1
        DEF AppStart, Listen, ListenFails, SInv, AcceptedByAll, ServiceIsLast
    <2> QED  BY <2>4, <2>5, <2>6 DEF SInv
<1>11. CASE UNCHANGED vars
    BY <1>11
    DEF vars, SInv, TypeOK, AcceptedByAll, NothingProvisionedOnAws, ReadySoFar,
        ServiceIsLast, TableStates, Definitions, IsActive, Named
<1> QED
    BY <1>1, <1>2, <1>3, <1>4, <1>5, <1>6, <1>7, <1>8, <1>9, <1>10, <1>11
    DEF Next, ProvisionerStep

THEOREM StartupInvariant == Spec => []SInv
<1>1. Init => SInv  BY InitSInv
<1>2. SInv /\ [Next]_vars => SInv'  BY NextSInv
<1> QED  BY <1>1, <1>2, PTL DEF Spec

-----------------------------------------------------------------------------
(* The shapes that are made serve the queries that are made (the schema of *)
(* table-schema.ts against the index names of dynamodb-repositories.ts).   *)
LEMMA ShapesServeQueries ==
    \A i \in 1 .. 3 : Serves(Definitions[i].indexes, QueriedIndexes[i])
<1>1. Serves(SubscriptionIndexes, {<<"eventType-index", "eventType">>})
    BY DEF Serves, SubscriptionIndexes
<1>2. Serves({}, {})
    BY DEF Serves
<1>3. Serves(DeliveryIndexes,
             {<<"eventId-index", "eventId">>,
              <<"subscriptionId-index", "subscriptionId">>,
              <<"status-index", "status">>})
    BY DEF Serves, DeliveryIndexes, timeSortedGsi
<1>4. /\ Definitions[1].indexes = SubscriptionIndexes
      /\ Definitions[2].indexes = {}
      /\ Definitions[3].indexes = DeliveryIndexes
    BY DEF Definitions, tableDefinitions
<1>5. /\ QueriedIndexes[1] = {<<"eventType-index", "eventType">>}
      /\ QueriedIndexes[2] = {}
      /\ QueriedIndexes[3] = {<<"eventId-index", "eventId">>,
                              <<"subscriptionId-index", "subscriptionId">>,
                              <<"status-index", "status">>}
    BY DEF QueriedIndexes
<1>6. \A i \in 1 .. 3 : i = 1 \/ i = 2 \/ i = 3
    OBVIOUS
<1> QED  BY <1>1, <1>2, <1>3, <1>4, <1>5, <1>6

(* A number that loadConfig lets pass is within the bounds of its key, its *)
(* default included (config.ts 127-222, 286-311).                          *)
LEMMA DefaultsInRange ==
    \A key \in IntKeys : DEFAULTS[key] \in Int /\ InRange(key, DEFAULTS[key])
BY DEF IntKeys, Least, Most, DEFAULTS, InRange

LEMMA NumbersInRange ==
    ASSUME NEW e, Accepted(e), NEW key \in IntKeys
    PROVE  loadConfig(e)[key] \in Int /\ InRange(key, loadConfig(e)[key])
<1>1. key \in KNOWN_CONFIG_ENV_KEYS /\ key # "DYNAMODB_ENDPOINT"
    BY DEF IntKeys, Least, KNOWN_CONFIG_ENV_KEYS, DEFAULTS
<1>2. loadConfig(e)[key] = Read(e, key)
    BY <1>1 DEF loadConfig
<1>3. CASE Read(e, key) = DEFAULTS[key]
    BY <1>2, <1>3, DefaultsInRange
<1>4. CASE Read(e, key) # DEFAULTS[key]
    <2>1. Readable(key, e[key]) /\ Read(e, key) = e[key]
        BY <1>4 DEF Read
    <2>2. e[key] \in Int /\ InRange(key, e[key])
        BY <2>1 DEF Readable
    <2> QED  BY <1>2, <2>1, <2>2
<1> QED  BY <1>3, <1>4

LEMMA SoundConfig ==
    ASSUME NEW e, Accepted(e)
    PROVE  Sound(loadConfig(e))
<1> DEFINE c == loadConfig(e)
<1>1. \A key \in IntKeys : c[key] \in Int /\ InRange(key, c[key])
    BY NumbersInRange
<1> HIDE DEF c
<1>2. \A key \in IntKeys : c[key] \in Int /\ Least[key] <= c[key]
    BY <1>1 DEF InRange
<1>3. /\ c.RETRY_BASE_DELAY_MS \in Nat /\ c.RETRY_MAX_DELAY_MS \in Nat
      /\ c.STUCK_DELIVERING_THRESHOLD_MS \in Nat /\ c.RECOVERY_INTERVAL_MS \in Nat
    BY <1>2 DEF IntKeys, Least
<1>4. {c.WEBHOOK_TIMEOUT_MS, c.RECOVERY_BATCH_LIMIT,
       c.MAX_REQUEST_BODY_BYTES} \subseteq Nat \ {0}
    BY <1>2 DEF IntKeys, Least
<1>5. /\ c.MAX_DELIVERY_ATTEMPTS \in 1 .. 20
      /\ c.PORT \in Nat \ {0} /\ c.PORT <= 65535
    <2>1. /\ c.MAX_DELIVERY_ATTEMPTS \in Int
          /\ InRange("MAX_DELIVERY_ATTEMPTS", c.MAX_DELIVERY_ATTEMPTS)
        BY <1>1 DEF IntKeys, Least
    <2>2. c.PORT \in Int /\ InRange("PORT", c.PORT)
        BY <1>1 DEF IntKeys, Least
    <2> QED  BY <2>1, <2>2 DEF Least, Most, InRange
<1>6. /\ c.RETRY_BASE_DELAY_MS = Read(e, "RETRY_BASE_DELAY_MS")
      /\ c.RETRY_MAX_DELAY_MS = Read(e, "RETRY_MAX_DELAY_MS")
    BY DEF c, loadConfig, KNOWN_CONFIG_ENV_KEYS, DEFAULTS
<1>7. c.RETRY_BASE_DELAY_MS <= c.RETRY_MAX_DELAY_MS
    BY <1>6 DEF Accepted, DelaysInOrder
<1> QED  BY <1>3, <1>4, <1>5, <1>7 DEF c, Sound

(* What is set and was accepted is what the configuration holds.           *)
LEMMA AcceptedIsKept ==
    ASSUME NEW e, Accepted(e), NEW key \in KNOWN_CONFIG_ENV_KEYS, IsSet(e[key])
    PROVE  loadConfig(e)[key] = e[key]
<1>1. Readable(key, e[key])
    BY DEF Accepted, BadKeys
<1> QED  BY <1>1 DEF loadConfig, Read, dynamoEndpoint

-----------------------------------------------------------------------------
(* docker-compose.yml: whoever else provisions, and whatever was killed or *)
(* had to be tried again, the service starts on tables that are ready and  *)
(* have the indexes it queries (ensure-tables.ts 19-38).                   *)
THEOREM ServiceFindsItsTables == Spec => []AppFindsItsTables
<1>1. SInv => AppFindsItsTables
    <2> SUFFICES ASSUME SInv, composed, app \in {"binding", "listening"},
                        NamesDistinct, NEW i \in 1 .. 3
                 PROVE  \E table \in Named(Definitions[i].name) :
                            /\ table.status = "active"
                            /\ Serves(table.indexes, QueriedIndexes[i])
        BY DEF AppFindsItsTables
    <2>1. IsActive(Definitions[i].name)
        BY StartupAssumption DEF SInv, ServiceIsLast, ReadySoFar
    <2>2. PICK table \in tables :
              table.name = Definitions[i].name /\ table.status = "active"
        BY <2>1 DEF IsActive, Named
    <2>3. PICK j \in 1 .. 3 : /\ table.name = Definitions[j].name
                              /\ table.indexes = Definitions[j].indexes
        BY <2>2 DEF SInv, TypeOK, TableStates
    <2>4. j = i
        BY <2>2, <2>3 DEF NamesDistinct
    <2> QED  BY <2>2, <2>3, <2>4, ShapesServeQueries DEF Named
<1> QED  BY <1>1, StartupInvariant, PTL

(* provision.ts never sends a CreateTable to AWS, not even with a blank    *)
(* endpoint, which createDynamoClient would take for AWS.                  *)
THEOREM AwsIsLeftAlone == Spec => []NothingProvisionedOnAws
<1>1. SInv => NothingProvisionedOnAws  BY DEF SInv
<1> QED  BY <1>1, StartupInvariant, PTL

(* Whatever the environment, a service that runs has a configuration that  *)
(* the other modules may assume (config.ts 127-222).                       *)
THEOREM ConfigIsSound == Spec => []RunningConfigIsSound
<1>1. SInv => RunningConfigIsSound
    BY SoundConfig DEF SInv, AcceptedByAll, RunningConfigIsSound
<1> QED  BY <1>1, StartupInvariant, PTL

(* A value that cannot be used stops the service, it is never replaced.    *)
THEOREM ConfigIsAsGiven == Spec => []NoSilentFallback
<1>1. SInv => NoSilentFallback
    BY AcceptedIsKept DEF SInv, AcceptedByAll, NoSilentFallback
<1> QED  BY <1>1, StartupInvariant, PTL

(* Configuration, tables and provisioners keep their types.                *)
THEOREM StartupTypes == Spec => []TypeOK
<1>1. SInv => TypeOK  BY DEF SInv
<1> QED  BY <1>1, StartupInvariant, PTL
=============================================================================
