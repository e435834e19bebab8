---------------------------- MODULE MCTaskUpload ----------------------------
(* Two files that share tasks in opposite orders (with a row that cannot be *)
(* used and a repeated row), one with an oversized value, one unreadable.   *)
EXTENDS TaskUpload, TLC

CONSTANTS f1, f2, f3, f4, t1, t2, t3, t4, s1, s2, m1, m2

MCRowsOf ==
    f1 :> <<t1, t3, t2>> @@ f2 :> <<t2, t1, t2>> @@ f3 :> <<t2, t4>> @@ f4 :> <<>>
MCStoreOf == t1 :> s2 @@ t2 :> s2 @@ t3 :> s1 @@ t4 :> s1
MCAssigned == s1 :> m1 @@ s2 :> Nobody

\* One manager, one file: the simplest import there is.
OneRow == f1 :> <<t1>>
OneTask == t1 :> s1
OneManager == s1 :> m1
=============================================================================
