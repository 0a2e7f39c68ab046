------------------------------ MODULE MCConsole ------------------------------
(* An administrator and a reviewer share a browser. *)
EXTENDS Console

CONSTANTS admin, reviewer, s1, s2, t1, login, simulation, none

MCUsers == {admin, reviewer}
MCRoleOf == [u \in MCUsers |-> IF u = admin THEN "admin" ELSE "security_reviewer"]
MCSeeded == [id \in Ids |->
    [ state |-> IF id = 1 THEN "draft" ELSE "executing", creator |-> admin,
      verifier |-> none, result |-> id # 1 ]]
MCBucketKeys == {login, simulation}
MCKey == [op \in {"login", "simulate"}, u \in MCUsers \cup {none} |->
    IF op = "login" THEN login ELSE simulation]
=============================================================================
