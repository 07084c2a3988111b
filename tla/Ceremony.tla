------------------------------ MODULE Ceremony ------------------------------
(***************************************************************************)
(* What one call of makeCredential or getAssertion promises its caller and *)
(* the user, whatever the devices, timers and events do in between: the    *)
(* abstract specification that Fido2Client implements.                     *)
(*                                                                         *)
(* A request is asked, approved by the user, and only then commanded to an *)
(* authenticator.  Its promise settles once; it resolves only after the    *)
(* command, is rejected as not allowed only before the approval, and no    *)
(* command leaves the client on behalf of a promise that has settled.      *)
(***************************************************************************)
CONSTANTS Requests, Rejections

VARIABLES phase, result

vars == <<phase, result>>

Init ==
  /\ phase = [r \in Requests |-> "idle"]
  /\ result = [r \in Requests |-> "none"]

(* The call is refused without asking anybody. *)
Refuse(r) ==
  /\ result[r] = "none"
  /\ result' = [result EXCEPT ![r] = "invalid"]
  /\ UNCHANGED phase

(* The call is accepted and the user asked. *)
Ask(r) ==
  /\ result[r] = "none"
  /\ phase' = [phase EXCEPT ![r] = "asked"]
  /\ result' = [result EXCEPT ![r] = "pending"]

(* The user agrees to this request. *)
Approve(r) ==
  /\ phase[r] = "asked" /\ result[r] = "pending"
  /\ phase' = [phase EXCEPT ![r] = "approved"]
  /\ UNCHANGED result

(* The credential command goes to an authenticator. *)
Command(r) ==
  /\ phase[r] = "approved" /\ result[r] = "pending"
  /\ phase' = [phase EXCEPT ![r] = "commanded"]
  /\ UNCHANGED result

(* The authenticator's credential reaches the caller. *)
Grant(r) ==
  /\ phase[r] = "commanded" /\ result[r] = "pending"
  /\ result' = [result EXCEPT ![r] = "resolved"]
  /\ UNCHANGED phase

(* The promise is rejected: "not allowed" is the user's answer to the question. *)
Reject(r, how) ==
  /\ result[r] = "pending"
  /\ how = "notAllowed" => phase[r] = "asked"
  /\ result' = [result EXCEPT ![r] = how]
  /\ UNCHANGED phase

Next ==
  \E r \in Requests :
    \/ Refuse(r) \/ Ask(r) \/ Approve(r) \/ Command(r) \/ Grant(r)
    \/ \E how \in Rejections : Reject(r, how)

Spec == Init /\ [][Next]_vars
=============================================================================
