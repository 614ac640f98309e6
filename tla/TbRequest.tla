----------------------------- MODULE TbRequest -----------------------------
(***************************************************************************)
(* What a request to the ThingsBoard server promises the application: it   *)
(* is refused or sent; once sent, its callback is called at most once,     *)
(* with the answer to this request and no other, unless the application    *)
(* gives its requests up; a refused one is never called back.              *)
(***************************************************************************)
CONSTANT Requests

VARIABLE phase

Init == phase = [r \in Requests |-> "new"]

Ask(r)    == phase[r] = "new" /\ phase' = [phase EXCEPT ![r] = "asking"]
Refuse(r) == phase[r] \in {"new", "asking"} /\ phase' = [phase EXCEPT ![r] = "refused"]
Send(r)   == phase[r] = "asking" /\ phase' = [phase EXCEPT ![r] = "sent"]
Answer(r) == phase[r] = "sent" /\ phase' = [phase EXCEPT ![r] = "answered"]
GiveUp(S) == /\ \A r \in S : phase[r] = "sent"
             /\ phase' = [r \in Requests |-> IF r \in S THEN "dropped" ELSE phase[r]]

Next == \/ \E r \in Requests : Ask(r) \/ Refuse(r) \/ Send(r) \/ Answer(r)
        \/ \E S \in SUBSET Requests : GiveUp(S)

RequestSpec == Init /\ [][Next]_phase
=============================================================================
