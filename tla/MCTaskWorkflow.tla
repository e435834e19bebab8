--------------------------- MODULE MCTaskWorkflow ---------------------------
(* One task, two managers, three calls of every kind through both doors.    *)
EXTENDS TaskWorkflow, TLC

CONSTANTS h1, h2, h3, t1, s1, m1, m2, plain, rough

Ask(door, op, by, text) == [door |-> door, op |-> op, task |-> t1, by |-> by, text |-> text]
MCRequests ==
    {Ask("mobile", "accept", m1, NoText), Ask("mobile", "close", Dispatcher, NoText),
     Ask("mobile", "comment", m2, rough), Ask("desk", "accept", Nobody, NoText),
     Ask("desk", "close", Nobody, rough), Ask("desk", "comment", Nobody, plain)}
Callers == Permutations(Calls)
MCStoreOf == t1 :> s1
=============================================================================
