----------------------------- MODULE MCTbClient -----------------------------
(* Three requests of a table and a provisioning, with one complication at  *)
(* a time; fewer of them where registrations and cleanups come in between; *)
(* none at all for the resubscription.                                     *)
EXTENDS TbClient

MCRequests == 1 .. 4
MCKind == [r \in MCRequests |-> IF r = 4 THEN "provision" ELSE "attributes"]
Use(w, r, c) == [with |-> w, requests |-> r, calls |-> c]
MCUses == {Use({}, MCRequests, 0), Use({"racing"}, MCRequests, 0),
           Use({"reentrant"}, MCRequests, 0), Use({"lossy"}, MCRequests, 0),
           Use({"lossy"}, {1, 4}, 1), Use({"racing"}, {1, 2, 3}, 1), Use({}, {1, 2}, 2)}
NoRequests == {}
ReconnectUses == {Use({"lossy"}, {}, 1)}
NoKinds == [r \in NoRequests |-> "attributes"]
=============================================================================
