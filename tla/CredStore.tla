------------------------------ MODULE CredStore -------------------------------
(***************************************************************************)
(* What the client helper promises about each credential UID it hands out, *)
(* whatever its handlers, tasks and folders do:                            *)
(*                                                                         *)
(*   - a UID belongs to one preparation, which runs once;                  *)
(*   - it shows as "preparing" from then on, and becomes "ready" only by   *)
(*     that preparation completing, at most once;                          *)
(*   - a preparation that ends badly either forgets the UID or, when it    *)
(*     dies on a panic, leaves it "preparing" for good;                    *)
(*   - a client may have the UID forgotten at any time, which does not     *)
(*     stop a preparation that is still running;                           *)
(*   - a restart of the process forgets everything.                        *)
(*                                                                         *)
(* ClientHelper implements this specification.                             *)
(***************************************************************************)
CONSTANT Uid

VARIABLES status,       \* what GET /status answers for a UID
          preparation   \* whether the UID's one preparation may still act

vars == <<status, preparation>>

Statuses == {"unknown", "preparing", "ready"}
Phases == {"none", "running", "ended"}

TypeOK == /\ status \in [Uid -> Statuses]
          /\ preparation \in [Uid -> Phases]

Init == /\ status = [u \in Uid |-> "unknown"]
        /\ preparation = [u \in Uid |-> "none"]

Begin(u) == /\ preparation[u] = "none"
            /\ status' = [status EXCEPT ![u] = "preparing"]
            /\ preparation' = [preparation EXCEPT ![u] = "running"]

(* The preparation's one outcome: done, failed, or dead on a panic.        *)
End(u) == /\ preparation[u] = "running"
          /\ \E s \in {"ready", "unknown", status[u]} :
                status' = [status EXCEPT ![u] = s]
          /\ preparation' = [preparation EXCEPT ![u] = "ended"]

Forget(u) == /\ status' = [status EXCEPT ![u] = "unknown"]
             /\ UNCHANGED preparation

(* A UID whose request dies before it was recorded is never used again.    *)
Crash == /\ status' = [u \in Uid |-> "unknown"]
         /\ preparation' \in [Uid -> Phases]
         /\ \A u \in Uid :
              /\ preparation'[u] # "running"
              /\ preparation[u] = "ended" => preparation'[u] = "ended"
              /\ preparation[u] = "running" => preparation'[u] = "ended"

Next == Crash \/ \E u \in Uid : Begin(u) \/ End(u) \/ Forget(u)

Spec == Init /\ [][Next]_vars

(***************************************************************************)
(* "ready" is reached only from a running preparation (the promise that a  *)
(* client which polls /status relies on: ready means that the credential's *)
(* own preparation completed, and a UID never becomes ready twice).        *)
(***************************************************************************)
ReadyOnce ==
  [][\A u \in Uid : status[u] # "ready" /\ status'[u] = "ready"
        => preparation[u] = "running" /\ preparation'[u] = "ended"]_vars
===============================================================================
