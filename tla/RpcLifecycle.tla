---------------------------- MODULE RpcLifecycle ----------------------------
(***************************************************************************)
(* What ProcessAddress promises to its callers, without queue, pipes or    *)
(* worker processes: every call that is opened is answered with one        *)
(* status, a call is processed at most once and never if it was refused,   *)
(* and only a processed call is answered OK.  A call that has failed after *)
(* it was accepted may still be processed.                                 *)
(***************************************************************************)
CONSTANTS Requests

VARIABLES phase, status, processed

Statuses == {"NONE", "OK", "DEADLINE_EXCEEDED", "INTERNAL", "RESOURCE_EXHAUSTED", "CANCELLED"}

Init == /\ phase = [r \in Requests |-> "new"]
        /\ status = [r \in Requests |-> "NONE"]
        /\ processed = {}

Open(r) ==
  /\ phase[r] = "new" /\ phase' = [phase EXCEPT ![r] = "reading"]
  /\ UNCHANGED <<status, processed>>

Accept(r) ==
  /\ phase[r] = "reading" /\ phase' = [phase EXCEPT ![r] = "accepted"]
  /\ UNCHANGED <<status, processed>>

End(r, to, s) ==
  /\ phase' = [phase EXCEPT ![r] = to] /\ status' = [status EXCEPT ![r] = s]
  /\ UNCHANGED processed

\* Full queue, slow or vanished caller, or no pipe to be had.
Refuse(r) ==
  /\ phase[r] = "reading"
  /\ \E s \in {"RESOURCE_EXHAUSTED", "DEADLINE_EXCEEDED", "CANCELLED", "INTERNAL"} :
       End(r, "refused", s)

Succeed(r) == phase[r] = "accepted" /\ r \in processed /\ End(r, "closed", "OK")

Fail(r) ==
  /\ phase[r] = "accepted"
  /\ \E s \in {"DEADLINE_EXCEEDED", "INTERNAL", "CANCELLED"} : End(r, "closed", s)

Process(r) ==
  /\ phase[r] \in {"accepted", "closed"} /\ r \notin processed
  /\ processed' = processed \cup {r}
  /\ UNCHANGED <<phase, status>>

Next == \E r \in Requests : Open(r) \/ Accept(r) \/ Refuse(r) \/ Succeed(r)
                            \/ Fail(r) \/ Process(r)

Spec == Init /\ [][Next]_<<phase, status, processed>>
=============================================================================
