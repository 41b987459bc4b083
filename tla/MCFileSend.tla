------------------------------ MODULE MCFileSend ------------------------------
(* FileSend with few threads at once.  Every bound is named here.               *)
EXTENDS FileSend, FiniteSets

\* Two loads are sent at once: the one the app asked for last and an older one.
FewSend == Cardinality({l \in Loads : pc[l] \notin {"none", "ended", "hung"}}) <= 2

\* The last load is there to be asked for too early, in the first session, and is
\* followed until it has begun to send.
LastBegins ==
    /\ session > 1 => created < MaxLoads
    /\ pc[MaxLoads] \in {"none", "new", "open", "size", "data"}

Few == FewSend /\ LastBegins
===============================================================================
