----------------------------- MODULE DiffCalls -----------------------------
(***************************************************************************)
(* What an agent that calls openDiff is promised, whoever closes what: its *)
(* call gets one verdict, never changed; a change is accepted only while   *)
(* the person has its diff on screen; and the call returns that verdict,   *)
(* or an error when it was given up.                                       *)
(***************************************************************************)
CONSTANTS Requests

VARIABLES verdict, answer, shown

vars == <<verdict, answer, shown>>

Verdicts == {"accepted", "rejected"}

Init == /\ verdict = [r \in Requests |-> "none"]
        /\ answer = [r \in Requests |-> "none"]
        /\ shown = {}

\* Tabs and panes come and go
Rearranged == /\ shown' \in SUBSET Requests
              /\ UNCHANGED <<verdict, answer>>

Decided(r, v) == /\ verdict[r] = "none" /\ answer[r] = "none"
                 /\ v = "accepted" => r \in shown
                 /\ verdict' = [verdict EXCEPT ![r] = v]

Decides(r, v) == Decided(r, v) /\ UNCHANGED <<answer, shown>>

Returns(r) == /\ verdict[r] # "none" /\ answer[r] = "none"
              /\ answer' = [answer EXCEPT ![r] = verdict[r]]
              /\ UNCHANGED <<verdict, shown>>

\* Given up by its caller, in which case a verdict still to come is a refusal
Abandoned(r) == /\ answer[r] = "none"
                /\ answer' = [answer EXCEPT ![r] = "error"]
                /\ \/ Decided(r, "rejected")
                   \/ verdict[r] # "none" /\ UNCHANGED verdict
                /\ UNCHANGED shown

Next == \/ Rearranged
        \/ \E r \in Requests: Returns(r) \/ Abandoned(r) \/ \E v \in Verdicts: Decides(r, v)

Spec == Init /\ [][Next]_vars
=============================================================================
