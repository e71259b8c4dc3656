----------------------------- MODULE MCHTTPCycle -----------------------------
(* Two interfaces with need_alert and the default list of codes.              *)
EXTENDS HTTPCycle

MCInterfaces == <<"a", "b">>
MCSettings == [i \in {"a", "b"} |-> [alert |-> TRUE, allowed |-> {200}]]
NoProgram == <<>>
=============================================================================
