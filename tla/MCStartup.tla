----------------------------- MODULE MCStartup ------------------------------
(***************************************************************************)
(* Environments around the bounds of every key, one key at a time, both    *)
(* delays together, and the ones that a local endpoint is provisioned with.*)
(***************************************************************************)
EXTENDS Startup

MCInts(key) ==
    {Least[key] - 1, Least[key], 600}
        \cup IF key \in DOMAIN Most THEN {Most[key], Most[key] + 1} ELSE {}

MCRaw(key) ==
    {Blank, Garbage} \cup
        CASE key \in IntKeys  -> MCInts(key)
          [] key \in BoolKeys -> BOOLEAN
          [] key \in EnumKeys -> Allowed[key]
          [] OTHER            -> {"own"}

MCPlain == [key \in KNOWN_CONFIG_ENV_KEYS |-> Unset]

MCLocal == [MCPlain EXCEPT !.DYNAMODB_ENDPOINT = "local"]

MCDelays == {Unset, Blank, 0, 400, 600, 30001}

MCEnvironments ==
    {MCPlain, MCLocal}
    \cup {[MCPlain EXCEPT ![key] = raw] :
            <<key, raw>> \in UNION {{key} \X MCRaw(key) : key \in KNOWN_CONFIG_ENV_KEYS}}
    \cup {[MCPlain EXCEPT !.RETRY_BASE_DELAY_MS = base,
                          !.RETRY_MAX_DELAY_MS = longest] :
            base \in MCDelays, longest \in MCDelays}
    \cup {[MCLocal EXCEPT
              !.DYNAMODB_EVENTS_TABLE = DEFAULTS.DYNAMODB_DELIVERIES_TABLE],
          [MCLocal EXCEPT !.PORT = 0]}
=============================================================================
