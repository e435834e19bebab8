---------------------------- MODULE AtomicUpload ----------------------------
(***************************************************************************)
(* What an upload promises: its rows enter the table of tasks in one step, *)
(* as if no other upload ran, and the notices about it follow in a second  *)
(* step, all of them or none.                                              *)
(***************************************************************************)
CONSTANTS Files, Managers,
          Usable       \* Usable[f]: the tasks of the rows of f that are taken

VARIABLES
    uploads, tasks, outbox,
    pending            \* uploads still to be announced, each with its new tasks

vars == <<uploads, tasks, outbox, pending>>

Init ==
    /\ uploads = {}
    /\ tasks = {}
    /\ outbox = {}
    /\ pending = {}

\* A file is stored once; the tasks that were not there are its new ones.
Store(f) ==
    /\ f \notin uploads
    /\ uploads' = uploads \cup {f}
    /\ tasks' = tasks \cup Usable[f]
    /\ pending' = pending \cup {[file |-> f, new |-> Usable[f] \ tasks]}
    /\ UNCHANGED outbox

\* One notice each to some managers, and one to one manager about some new tasks.
Announce(p) ==
    /\ \E readers \in SUBSET Managers, told \in SUBSET p.new : \E to \in [told -> Managers] :
        outbox' = outbox
            \cup {[kind |-> "digest", about |-> p.file, to |-> m] : m \in readers}
            \cup {[kind |-> "newtask", about |-> t, to |-> to[t]] : t \in told}
    /\ pending' = pending \ {p}
    /\ UNCHANGED <<uploads, tasks>>

\* The handler is lost before it has announced its upload.
Forget(p) ==
    /\ pending' = pending \ {p}
    /\ UNCHANGED <<uploads, tasks, outbox>>

Next ==
    \/ \E f \in Files : Store(f)
    \/ \E p \in pending : Announce(p) \/ Forget(p)

Spec == Init /\ [][Next]_vars
=============================================================================
