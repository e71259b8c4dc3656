------------------------------ MODULE HTTPCycle -------------------------------
(***************************************************************************)
(* The HTTP cycle: the decisions of Evaluator on all interfaces, applied   *)
(* one after the other to the one event that AlertPolicy keeps for the     *)
(* type HTTPErr (the loop of applyInternal, stateful_policy_engine.go:30). *)
(***************************************************************************)
EXTENDS AlertPolicy, Sequences

CONSTANTS Error, Self,
    Interfaces,  \* the names, in the order of the configuration
    Settings     \* the configuration of the interfaces, by name

E == INSTANCE Evaluator

Config == [app |-> TRUE, http |-> TRUE, interfaces |-> Settings]

VARIABLES
    down,  \* interfaces that do not answer
    todo   \* the places of the interfaces whose decisions the Apply in
           \* progress has not come to

cycleVars == <<vars, down, todo>>

CycleInit == Init /\ down = {} /\ todo = {}

Code(i) == IF i \in down THEN 0 ELSE 200
Decided(i) == {d \in E!HTTPDecisions(Config, [code |-> [j \in DOMAIN Settings |-> Code(j)]]) : d.pid = i}

\* A cycle begins, at most one per unit of time: the interfaces are checked,
\* the decisions made.
Begin ==
    /\ up /\ todo = {} /\ gap # 0
    /\ todo' = {n \in DOMAIN Interfaces : Decided(Interfaces[n]) # {}}
    /\ gap' = 0 /\ out' = NoResult
    /\ UNCHANGED <<store, memory, up, uptime, history, down>>

\* The policy handles decision d.
Handle(d) ==
    \/ E!Judgement(Config, d) = "recovered" /\ HandleRecovery(None, {}, 0)
    \/ E!Judgement(Config, d) = "p2" /\ HandleHigh(None, None, "p2", 0, FALSE)

\* processDecision for the next of them.
Process ==
    /\ Decision
    /\ \E n \in todo :
        /\ \A m \in todo : n <= m
        /\ todo' = todo \ {n}
        /\ \E d \in Decided(Interfaces[n]) : Handle(d)
    /\ UNCHANGED down

\* An interface breaks, or is well again.
Change ==
    /\ todo = {}
    /\ \E i \in DOMAIN Settings : down' = IF i \in down THEN down \ {i} ELSE down \cup {i}
    /\ UNCHANGED <<vars, todo>>

Time == todo = {} /\ Tick /\ UNCHANGED <<down, todo>>
Stop == Crash /\ todo' = {} /\ UNCHANGED down
Restart == Start /\ UNCHANGED <<down, todo>>

CycleNext == Begin \/ Process \/ Change \/ Time \/ Stop \/ Restart

\* Time passes, and the ticker of the cycle keeps firing.
CycleSpec ==
    /\ CycleInit /\ [][CycleNext]_cycleVars
    /\ WF_cycleVars(Time) /\ WF_cycleVars(Begin) /\ WF_cycleVars(Process) /\ WF_cycleVars(Restart)

\* config_example.yml:216-217 says that an interface with need_alert whose code
\* is not in allowed_codes is alerted when that lasts for duration_required.
DownIsAlerted ==
    \A i \in DOMAIN Settings :
        <>[](up /\ i \in down) => <>(\E e \in Live : store[e].sent)
=============================================================================
