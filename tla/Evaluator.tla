------------------------------- MODULE Evaluator -------------------------------
(***************************************************************************)
(* From metrics to judgements: the decisions of SimpleEvaluator            *)
(* (infra/monitoring/simple_evaluator.go) and what the policy makes of one *)
(* (threshold_config.go, recovery_checker.go, stateful_policy_engine.go).  *)
(*                                                                         *)
(* A configuration is a record: host, app, redis, http say whether a part  *)
(* is enabled, thr has the thresholds of a host type, clients those of     *)
(* Redis, interfaces the HTTP interfaces by name.  None is a nil pointer,  *)
(* Error a metric that could not be collected.                             *)
(***************************************************************************)
EXTENDS Integers, Sequences, FiniteSets

CONSTANTS
    None, Error,
    Self  \* the PID of the program itself

ASSUME NoneAndErrorAreNoValues == None \notin Nat /\ Error \notin Nat

HostType == {"CPUHigh", "MemHigh", "DiskHigh"}
RedisType == {"RedisLow", "RedisHigh"}

\* The type that says that a metric could not be collected.
ErrorType(t) == CASE t = "CPUHigh" -> "CPUErr" [] t = "MemHigh" -> "MemErr"
                  [] t = "DiskHigh" -> "DiskErr"

Decision(type, value, pid) == [type |-> type, value |-> value, pid |-> pid]
Default == "default"

-----------------------------------------------------------------------------
(* What the collectors say.                                                *)

\* IsValidHTTPStatusCode, and its twin in stateful_policy_engine.go.
ValidCode(code, allowed) == IF allowed = {} THEN code = 200 ELSE code \in allowed

\* HTTPCollector.CheckInterface: the code in the body, if it has one that is
\* not 0, comes before the status of the reply; no reply is code 0.
FinalCode(reply) ==
    IF reply = Error THEN 0
    ELSE IF reply.body \notin {None, 0} THEN reply.body ELSE reply.status

\* RedisCollector.GetClients: the clients that are not monitoring, unless there
\* are none or they cannot be listed: then all.
ClientCount(total, others) == IF others \in {0, Error} THEN total ELSE others

\* GetTopProcessInfo: the first of the top processes that is not the program
\* itself, or the first.
TopProcess(top) ==
    LET other == SelectSeq(top, LAMBDA p : p # Self)
    IN IF other # <<>> THEN Head(other) ELSE IF top # <<>> THEN Head(top) ELSE Default

-----------------------------------------------------------------------------
(* SimpleEvaluator.Evaluate: the decisions on metrics m.                   *)

HostDecision(cfg, m, t) ==
    IF m.host[t] = Error THEN {Decision(ErrorType(t), 0, Default)}
    ELSE IF cfg.thr[t] = None \/ ~cfg.thr[t].on THEN {}
    ELSE {Decision(t, m.host[t], IF t = "DiskHigh" THEN Default ELSE TopProcess(m.top[t]))}

NetworkDecision(m) == IF m.network = Error THEN {Decision("NetworkErr", 0, Default)} ELSE {}

\* Within the range both types are decided on, outside only the one that is hit.
RedisDecisions(cfg, m) ==
    IF m.clients = Error THEN {Decision("RedisErr", 0, Default)}
    ELSE IF cfg.clients = None \/ ~cfg.clients.on THEN {}
    ELSE {Decision(t, m.clients, Default) :
          t \in IF m.clients < cfg.clients.min THEN {"RedisLow"}
                ELSE IF m.clients > cfg.clients.max THEN {"RedisHigh"}
                ELSE RedisType}

\* A code that is allowed is handed on as 200.  (metrics.HTTP.Error stays nil: it
\* is set when Init of the HTTP collector fails, which it never does.)
DecidedCode(code, allowed) == IF ValidCode(code, allowed) THEN 200 ELSE code

\* Fault of HTTPDecisions: HTTP monitoring asks for its own switch only.
HTTPDecisions_OwnSwitch(cfg, m) ==
    IF ~cfg.http THEN {}
    ELSE {Decision("HTTPErr", DecidedCode(m.code[i], cfg.interfaces[i].allowed), i) :
          i \in {j \in DOMAIN m.code : cfg.interfaces[j].alert}}

HTTPDecisions(cfg, m) ==
    IF ~cfg.app \/ ~cfg.http THEN {}
    ELSE {Decision("HTTPErr", DecidedCode(m.code[i], cfg.interfaces[i].allowed), i) :
          i \in {j \in DOMAIN m.code : cfg.interfaces[j].alert}}

\* filterNonHTTP of the decisions; the rest are HTTPDecisions.
BaseDecisions(cfg, m) ==
    (IF cfg.host THEN (UNION {HostDecision(cfg, m, t) : t \in HostType}) \cup NetworkDecision(m) ELSE {})
    \cup (IF cfg.app /\ cfg.redis THEN RedisDecisions(cfg, m) ELSE {})

-----------------------------------------------------------------------------
(* processDecision, up to the event: what is decided about decision d.     *)

\* GetThresholdConfig finds something; else the decision is alerted as it is.
HasConfig(cfg, type) ==
    \/ type \in HostType /\ cfg.thr[type] # None
    \/ type \in RedisType /\ cfg.clients # None
    \/ type = "HTTPErr"

\* Fault of Recovered: the base counts as recovered.
Recovered_AtBase(cfg, d) ==
    CASE d.type = "HTTPErr" -> ValidCode(d.value, cfg.interfaces[d.pid].allowed)
      [] d.type \in RedisType -> d.value >= cfg.clients.min /\ d.value <= cfg.clients.max
      [] OTHER -> d.value <= cfg.thr[d.type].base

\* checkLocalRecovery
Recovered(cfg, d) ==
    CASE d.type = "HTTPErr" -> ValidCode(d.value, cfg.interfaces[d.pid].allowed)
      [] d.type \in RedisType -> d.value >= cfg.clients.min /\ d.value <= cfg.clients.max
      [] OTHER -> d.value < cfg.thr[d.type].base

\* The first level whose threshold is reached.
DetermineSeverity(value, thr) ==
    IF value >= thr.p1 THEN "p1"
    ELSE IF value >= thr.p2 THEN "p2"
    ELSE IF value >= thr.p3 THEN "p3"
    ELSE IF value >= thr.base THEN "reminder"
    ELSE "none"

\* determineRedisAlertSeverity and determineHTTPAlertSeverity know one level.
Level(cfg, d) ==
    CASE d.type = "RedisLow" -> IF d.value < cfg.clients.min THEN "p2" ELSE "none"
      [] d.type = "RedisHigh" -> IF d.value > cfg.clients.max THEN "p2" ELSE "none"
      [] d.type = "HTTPErr" ->
            IF cfg.interfaces[d.pid].alert /\ ~ValidCode(d.value, cfg.interfaces[d.pid].allowed)
            THEN "p2" ELSE "none"
      [] OTHER -> DetermineSeverity(d.value, cfg.thr[d.type])

Judgement(cfg, d) ==
    IF ~HasConfig(cfg, d.type) THEN "error"
    ELSE IF Recovered(cfg, d) THEN "recovered"
    ELSE Level(cfg, d)

Levels == {"error", "p1", "p2", "p3", "reminder"}

=============================================================================
