---------------------------- MODULE MCReceivers ----------------------------
(* Receivers on small instances.                                           *)
EXTENDS Receivers

\* Every future is a runtime task of its own, as with spawn or FuturesUnordered.
Spawned == {{t} : t \in Tasks}

\* All futures are polled by one runtime task, as with join.
Joined == {Tasks}

============================================================================
