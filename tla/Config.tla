------------------------------- MODULE Config -------------------------------
(***************************************************************************)
(* loadConfig of src/config.ts: what it makes of the environment.  A raw   *)
(* value is Unset (undefined), Blank (nothing but white space), Garbage    *)
(* (text that the key's reader cannot read), or what the reader reads.     *)
(* Every reader trims first, so that Blank is read like Unset.             *)
(***************************************************************************)
EXTENDS Integers

CONSTANTS Unset, Blank, Garbage

ASSUME RawAssumption ==
    /\ {Unset, Blank, Garbage} \cap Int = {}
    /\ {Unset, Blank, Garbage} \cap BOOLEAN = {}

-----------------------------------------------------------------------------
DEFAULTS ==
    [NODE_ENV                      |-> "development",
     PORT                          |-> 3000,
     LOG_LEVEL                     |-> "info",
     LOG_FORMAT                    |-> "auto",
     PERSISTENCE                   |-> "memory",
     AWS_REGION                    |-> "eu-central-1",
     DYNAMODB_SUBSCRIPTIONS_TABLE  |-> "webhook-registry-subscriptions",
     DYNAMODB_EVENTS_TABLE         |-> "webhook-registry-events",
     DYNAMODB_DELIVERIES_TABLE     |-> "webhook-registry-deliveries",
     MAX_REQUEST_BODY_BYTES        |-> 1048576,
     WEBHOOK_TIMEOUT_MS            |-> 5000,
     MAX_DELIVERY_ATTEMPTS         |-> 5,
     RETRY_BASE_DELAY_MS           |-> 500,
     RETRY_MAX_DELAY_MS            |-> 30000,
     RECOVERY_INTERVAL_MS          |-> 60000,
     STUCK_DELIVERING_THRESHOLD_MS |-> 60000,
     RECOVERY_BATCH_LIMIT          |-> 100,
     ALLOW_INSECURE_TARGET_URLS    |-> FALSE,
     SSRF_GUARD_ENABLED            |-> TRUE]

(* The smallest number each key accepts, and the largest where there is one.*)
Least ==
    [PORT |-> 1, MAX_REQUEST_BODY_BYTES |-> 1, WEBHOOK_TIMEOUT_MS |-> 1,
     MAX_DELIVERY_ATTEMPTS |-> 1, RETRY_BASE_DELAY_MS |-> 0,
     RETRY_MAX_DELAY_MS |-> 0, RECOVERY_INTERVAL_MS |-> 0,
     STUCK_DELIVERING_THRESHOLD_MS |-> 0, RECOVERY_BATCH_LIMIT |-> 1]

Most == [PORT |-> 65535, MAX_DELIVERY_ATTEMPTS |-> 20]

Allowed ==
    [LOG_LEVEL   |-> {"debug", "info", "warn", "error"},
     LOG_FORMAT  |-> {"auto", "json", "pretty"},
     PERSISTENCE |-> {"memory", "dynamodb"}]

IntKeys == DOMAIN Least

BoolKeys == {"ALLOW_INSECURE_TARGET_URLS", "SSRF_GUARD_ENABLED"}

EnumKeys == DOMAIN Allowed

TextKeys == DOMAIN DEFAULTS \ (IntKeys \cup BoolKeys \cup EnumKeys)

KNOWN_CONFIG_ENV_KEYS == DOMAIN DEFAULTS \cup {"DYNAMODB_ENDPOINT"}

-----------------------------------------------------------------------------
IsSet(raw) == raw \notin {Unset, Blank}

InRange(key, number) ==
    /\ Least[key] <= number
    /\ key \in DOMAIN Most => number <= Most[key]

(* What readInt, readBool and readEnum can use; nothing is wrong with text.*)
Readable(key, raw) ==
    /\ key \in IntKeys  => raw \in Int /\ InRange(key, raw)
    /\ key \in BoolKeys => raw \in BOOLEAN
    /\ key \in EnumKeys => raw \in Allowed[key]

(* Mutant: a number out of range is clamped without a word, by its default.*)
BadKeys_RangeIgnored(env) ==
    {key \in KNOWN_CONFIG_ENV_KEYS :
        env[key] = Garbage /\ key \in IntKeys \cup BoolKeys \cup EnumKeys}

(* The keys about which a reader has a problem.                            *)
BadKeys(env) ==
    {key \in KNOWN_CONFIG_ENV_KEYS : IsSet(env[key]) /\ ~Readable(key, env[key])}

(* The value of a key: its default unless it is set and readable.          *)
Read(env, key) ==
    IF IsSet(env[key]) /\ Readable(key, env[key]) THEN env[key]
                                                  ELSE DEFAULTS[key]

(* The endpoint has no default: undefined means AWS.                       *)
dynamoEndpoint(env) ==
    IF IsSet(env.DYNAMODB_ENDPOINT) THEN env.DYNAMODB_ENDPOINT ELSE Unset

(* Mutant: the two delays are not compared.                                *)
DelaysInOrder_Unchecked(env) == TRUE

(* The delays are compared as they were read, defaults included.           *)
DelaysInOrder(env) ==
    Read(env, "RETRY_BASE_DELAY_MS") <= Read(env, "RETRY_MAX_DELAY_MS")

Accepted(env) == BadKeys(env) = {} /\ DelaysInOrder(env)

(* The configuration, one field per key; loadConfig throws unless Accepted.*)
loadConfig(env) ==
    [key \in KNOWN_CONFIG_ENV_KEYS |->
        IF key = "DYNAMODB_ENDPOINT" THEN dynamoEndpoint(env) ELSE Read(env, key)]
=============================================================================
