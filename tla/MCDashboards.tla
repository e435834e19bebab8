---------------------------- MODULE MCDashboards ----------------------------
(* Two overlapping runs of the monitor, two tasks, and one page at a time.   *)
(* Other statements that cannot be answered are among the faults.            *)
EXTENDS Dashboards

CONSTANTS t1, t2, m1, m2

MCLacking == NoSuchColumns
=============================================================================
