---------------------------- MODULE Configuration ----------------------------
(***************************************************************************)
(* What a server process makes of its environment: Load and Validate.  A   *)
(* numeric variable is the set of the integer it holds: empty when it is   *)
(* unset, blank or no number, which its reader treats alike.  Of the six   *)
(* time-outs, which are read and validated the same way, one is kept; of   *)
(* the strings, which are not empty after env's fallback, those that       *)
(* Validate can refuse.                                                    *)
(***************************************************************************)
EXTENDS Integers

LimitFallback == 180        \* REQUEST_LIMIT
TimeoutFallback == 35       \* STARTUP_TIMEOUT, in seconds

LeastLimit == 10
GreatestLimit == 100000

Drivers == {"postgres", "mysql", "sqlite"}

\* The variables of a process's environment that decide whether it starts.
IsEnvironment(environment) ==
    /\ environment.driver \in Drivers \cup {"unknown"}
    /\ environment.secret \in {"default", "short", "long"}
    /\ environment.limit \subseteq Int
    /\ environment.timeout \subseteq Int
    /\ environment.redis \in BOOLEAN

\* intEnv, and durationEnv: what is not a positive number gives way to the fallback.
IntEnv(raw, fallback) ==
    IF \E n \in raw : n > 0 THEN CHOOSE n \in raw : n > 0 ELSE fallback

\* The configuration that Load builds.
Loaded(environment) ==
    [driver  |-> environment.driver,
     secret  |-> environment.secret,
     limit   |-> IntEnv(environment.limit, LimitFallback),
     timeout |-> IntEnv(environment.timeout, TimeoutFallback),
     redis   |-> environment.redis]      \* is there an address of Redis?

\* Validate.
Valid(cfg) ==
    /\ cfg.driver \in Drivers
    /\ cfg.secret # "short"
    /\ cfg.limit \in LeastLimit..GreatestLimit
    /\ cfg.timeout > 0
=============================================================================
