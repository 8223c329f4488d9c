-------------------------- MODULE RandomnessService --------------------------
(***************************************************************************)
(* What the VRF oracle promises for the requests it has accepted, whatever *)
(* happens to the process: requests are taken up one after the other in    *)
(* the order of their acceptance, each at most once; the contract receives *)
(* randomness only for a request that was taken up, at most once; and a    *)
(* request is called resolved only if the contract has its randomness.     *)
(*                                                                         *)
(* It does not promise that a request is taken up, nor that one called     *)
(* unresolved has no randomness: the oracle may be the last to know.       *)
(***************************************************************************)
EXTENDS Naturals, Sequences

VARIABLES
    state,   \* the state of every accepted request
    given    \* the requests whose randomness the contract has

State == {"accepted", "taken", "resolved", "unresolved"}

Init == state = <<>> /\ given = {}

Accept ==
    /\ state' = Append(state, "accepted")
    /\ UNCHANGED given

\* Requests passed over stay accepted for ever.
TakeUp(r) ==
    /\ \A q \in DOMAIN state : q >= r => state[q] = "accepted"
    /\ state' = [state EXCEPT ![r] = "taken"]
    /\ UNCHANGED given

Give(r) ==
    /\ r \notin given
    /\ state[r] # "accepted"
    /\ given' = given \cup {r}
    /\ UNCHANGED state

Finish(r, outcome) ==
    /\ state[r] = "taken"
    /\ outcome = "resolved" => r \in given
    /\ state' = [state EXCEPT ![r] = outcome]
    /\ UNCHANGED given

Next ==
    \/ Accept
    \/ \E r \in DOMAIN state :
          \/ TakeUp(r)
          \/ Give(r)
          \/ Finish(r, "resolved")
          \/ Finish(r, "unresolved")

Spec == Init /\ [][Next]_<<state, given>>
=============================================================================
