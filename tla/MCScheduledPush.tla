---------------------------- MODULE MCScheduledPush ----------------------------
(* ScheduledPush for TLC: two clients and the server. *)
EXTENDS ScheduledPush, TLC

CONSTANTS c1, c2, s, h1, h2, t1, t2, t3

\* One client shares the server's host.
MCHosts == (c1 :> h1) @@ (c2 :> h2) @@ (s :> h1)

MCTitles == (c1 :> t1) @@ (c2 :> t2) @@ (s :> t3)
=============================================================================
