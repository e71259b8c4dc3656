-------------------------------- MODULE Metrics --------------------------------
(***************************************************************************)
(* A cycle from collection to judgement (app/usecase/monitoring/system.go, *)
(* metrics_collect.go): HostCollector and Evaluator together.  The base    *)
(* cycle reads the host and Redis, the HTTP cycle the host again, and the  *)
(* interfaces; each then judges its own part of the metrics.               *)
(***************************************************************************)
EXTENDS HostCollector, Evaluator

CONSTANTS
    Configs,      \* configurations
    BaseReadings, \* what the host and Redis may say: host[t], network, top,
                  \* total and others; Error for a call that fails
    HTTPReadings  \* the replies of the interfaces

Thresholds == [on : BOOLEAN, base : Int, p1 : Int, p2 : Int, p3 : Int]

\* Levels in any order, ranges with min above max and empty lists of codes are
\* configurations too.
ASSUME ConfigsAreConfigurations ==
    \A c \in Configs :
        /\ c.host \in BOOLEAN /\ c.app \in BOOLEAN /\ c.redis \in BOOLEAN /\ c.http \in BOOLEAN
        /\ c.thr \in [HostType -> Thresholds \cup {None}]
        /\ c.clients \in [on : BOOLEAN, min : Int, max : Int] \cup {None}
        /\ None \notin DOMAIN c.interfaces
        /\ \A i \in DOMAIN c.interfaces :
            c.interfaces[i].alert \in BOOLEAN /\ c.interfaces[i].allowed \subseteq Int

ASSUME ReadingsAreReadings ==
    /\ \A r \in BaseReadings :
        /\ r.host \in [HostType -> Nat \cup {Error}]
        /\ r.total \in Nat \cup {Error} /\ r.others \in Nat \cup {Error}
    /\ \A r \in HTTPReadings, c \in Configs : \A i \in DOMAIN c.interfaces :
        r[i] \in [status : Nat, body : Nat \cup {None}] \cup {Error}

VARIABLES
    cfg,
    redisInited,  \* isRedisInited of the base cycle
    seen          \* the metrics that are judged, or None between two cycles

vars == <<hostVars, cfg, redisInited, seen>>

TypeOK ==
    /\ HostTypeOK /\ cfg \in Configs /\ redisInited \in BOOLEAN
    /\ \/ seen = None
       \/ seen.part = "base" /\ seen.clients \in Nat \cup {Error}
          /\ \A t \in HostType : seen.host[t] \in Nat \cup {Error}
       \/ seen.part = "http" /\ \A i \in DOMAIN seen.code : seen.code[i] \in Nat

Init == HostInit /\ cfg \in Configs /\ redisInited = FALSE /\ seen = None

WithRedis == cfg.app /\ cfg.redis

\* CollectBaseOnce: CollectBasicMetrics, then collectRedisMetrics, which
\* connects at the first time that works.  The CPU is measured from the second
\* reading on.
CollectBase ==
    /\ seen = None
    /\ CollectHost
    /\ redisInited' \in IF WithRedis THEN {redisInited, TRUE} ELSE {redisInited}
    /\ \E r \in BaseReadings :
        seen' = [part |-> "base", network |-> r.network, top |-> r.top,
                 host |-> [r.host EXCEPT !["CPUHigh"] = IF @ = Error THEN @ ELSE GetCPUInfo(@)],
                 clients |-> IF ~WithRedis THEN 0
                             ELSE IF ~redisInited' \/ r.total = Error THEN Error
                             ELSE ClientCount(r.total, r.others)]
    /\ UNCHANGED cfg

\* CollectHTTPOnce, whose basic metrics nobody uses.
CollectHTTP ==
    /\ seen = None /\ cfg.http
    /\ CollectHost
    /\ \E r \in HTTPReadings :
        seen' = [part |-> "http", code |-> [i \in DOMAIN cfg.interfaces |-> FinalCode(r[i])]]
    /\ UNCHANGED <<cfg, redisInited>>

\* The cycle has judged and waits for its ticker.
Rest == seen # None /\ seen' = None /\ UNCHANGED <<hostVars, cfg, redisInited>>

Outside == seen = None /\ Kernel /\ UNCHANGED <<cfg, redisInited, seen>>

Next == CollectBase \/ CollectHTTP \/ Rest \/ Outside

Spec == Init /\ [][Next]_vars

-----------------------------------------------------------------------------
(* Properties.                                                             *)

Decisions ==
    IF seen = None THEN {}
    ELSE IF seen.part = "base" THEN BaseDecisions(cfg, seen) ELSE HTTPDecisions(cfg, seen)

Says(type, pid) ==
    {Judgement(cfg, d) : d \in {e \in Decisions : e.type = type /\ (pid = None \/ e.pid = pid)}}

Base(part) == seen # None /\ seen.part = part

\* The faults that monitoring is enabled for.
Fails(t) == cfg.host /\ seen.host[t] = Error
NetworkFails == cfg.host /\ seen.network = Error
IsHigh(t) ==
    /\ cfg.host /\ seen.host[t] # Error /\ cfg.thr[t] # None /\ cfg.thr[t].on
    /\ seen.host[t] >= cfg.thr[t].base
RedisFails == cfg.app /\ cfg.redis /\ seen.clients = Error
ClientsCount == cfg.app /\ cfg.redis /\ seen.clients # Error /\ cfg.clients # None /\ cfg.clients.on
TooFew == ClientsCount /\ seen.clients < cfg.clients.min
TooMany == ClientsCount /\ seen.clients > cfg.clients.max
IsWatched(i) == cfg.app /\ cfg.http /\ cfg.interfaces[i].alert
Allows(i, code) == ValidCode(code, cfg.interfaces[i].allowed)

\* Whatever levels a configuration sets: a metric of the host, the network or
\* Redis that cannot be collected, a host metric at or above its base, a client
\* count out of range and an interface whose code is not allowed are alerted, as
\* far as monitoring is enabled for them.
FaultIsAlerted ==
    /\ Base("base") =>
        /\ \A t \in HostType :
            /\ Fails(t) => Says(ErrorType(t), None) = {"error"}
            /\ IsHigh(t) => Says(t, None) # {} /\ Says(t, None) \subseteq Levels
        /\ NetworkFails => Says("NetworkErr", None) = {"error"}
        /\ RedisFails => Says("RedisErr", None) = {"error"}
        /\ TooFew \/ TooMany
            => (Says("RedisLow", None) \cup Says("RedisHigh", None)) \cap Levels = {"p2"}
    /\ Base("http") => \A i \in DOMAIN seen.code :
        IsWatched(i) /\ ~Allows(i, seen.code[i]) => Says("HTTPErr", i) = {"p2"}

\* What is alerted is a fault, of the kind the alert names and of the metric it
\* is about, and monitoring is enabled for it.  The exception is what the code
\* does to an interface whose list of allowed codes lacks 200: the allowed code
\* it answers with is handed on as 200, which is not in the list.
HealthyIsQuiet ==
    \A d \in Decisions : Judgement(cfg, d) \in Levels =>
        \/ Base("base") /\ \E t \in HostType :
            \/ d.type = ErrorType(t) /\ Fails(t)
            \/ d.type = t /\ IsHigh(t)
        \/ Base("base") /\ d.type = "NetworkErr" /\ NetworkFails
        \/ Base("base") /\ d.type = "RedisErr" /\ RedisFails
        \/ Base("base") /\ d.type = "RedisLow" /\ TooFew
        \/ Base("base") /\ d.type = "RedisHigh" /\ TooMany
        \/ /\ Base("http") /\ d.type = "HTTPErr" /\ d.pid \in DOMAIN seen.code /\ IsWatched(d.pid)
           /\ ~Allows(d.pid, seen.code[d.pid]) \/ ~Allows(d.pid, 200)
=============================================================================
