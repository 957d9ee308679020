------------------------------ MODULE MCBackend -------------------------------
(* Instances of Backend for TLC. *)
EXTENDS Backend

CONSTANTS loop, module, reporter, db1, db2

\* The bridge and the store share no state: a second user of both at once adds
\* nothing to a second user of either.
Deployment(withStore, ro, withBridge, users, asked_) ==
    [store |-> withStore, readonly |-> ro, bridge |-> withBridge, shared |-> users,
     requests |-> asked_]
MCDeployments ==
    {Deployment(FALSE, TRUE, "none", "none", {"table", "info", "tool", "other"}),
     Deployment(TRUE, TRUE, "none", "store", {"table", "no table", "insert"}),
     Deployment(TRUE, FALSE, "address", "store", {"select", "insert"}),
     Deployment(TRUE, FALSE, "socket", "bridge", {"tool"})}
===============================================================================
