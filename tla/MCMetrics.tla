------------------------------ MODULE MCMetrics ------------------------------
(* Configurations for Metrics: everything on; one host type without           *)
(* thresholds, one off, levels in the wrong order, Redis and HTTP off; host   *)
(* and application monitoring off; a client count that does not matter, an    *)
(* interface that does not, and a list of codes without 200.                  *)
EXTENDS Metrics

Sane == [on |-> TRUE, base |-> 1, p1 |-> 4, p2 |-> 3, p3 |-> 2]
Odd == [on |-> TRUE, base |-> 3, p1 |-> 2, p2 |-> 4, p3 |-> 1]
Off == [on |-> FALSE, base |-> 0, p1 |-> 0, p2 |-> 0, p3 |-> 0]

AllOn ==
    [host |-> TRUE, app |-> TRUE, redis |-> TRUE, http |-> TRUE,
     thr |-> [t \in HostType |-> Sane], clients |-> [on |-> TRUE, min |-> 1, max |-> 2],
     interfaces |-> [a |-> [alert |-> TRUE, allowed |-> {200, 201}], b |-> [alert |-> TRUE, allowed |-> {}]]]

MCConfigs ==
    {AllOn,
     [AllOn EXCEPT !.redis = FALSE, !.http = FALSE,
                   !.thr["CPUHigh"] = Odd, !.thr["MemHigh"] = Off, !.thr["DiskHigh"] = None],
     [AllOn EXCEPT !.host = FALSE, !.app = FALSE],
     [AllOn EXCEPT !.clients.on = FALSE, !.interfaces["a"].allowed = {201},
                   !.interfaces["b"].alert = FALSE]}

\* One metric at a time is not what it should be.
Quiet ==
    [host |-> [t \in HostType |-> 0], network |-> "ok", total |-> 1, others |-> 1,
     top |-> [t \in HostType |-> <<Self, "other">>]]
MCBase ==
    {Quiet, [Quiet EXCEPT !.network = Error]}
    \cup {[Quiet EXCEPT !.host["CPUHigh"] = v] : v \in 1 .. 4 \cup {Error}}
    \cup {[Quiet EXCEPT !.host[t] = v, !.top[t] = <<>>] : t \in {"MemHigh", "DiskHigh"}, v \in {4, Error}}
    \cup {[Quiet EXCEPT !.total = c[1], !.others = c[2]] :
          c \in {<<0, 0>>, <<3, 3>>, <<3, Error>>, <<2, 0>>, <<Error, 0>>}}

MCReply ==
    {Error, [status |-> 200, body |-> None], [status |-> 201, body |-> 0],
     [status |-> 200, body |-> 500], [status |-> 500, body |-> None]}
MCHTTP ==
    LET good == [status |-> 200, body |-> 200]
    IN {[a |-> r, b |-> good] : r \in MCReply} \cup {[a |-> good, b |-> r] : r \in MCReply}

MCLists == {<<>>, <<"sdx">>, <<"sdx", "sda">>}
=============================================================================
