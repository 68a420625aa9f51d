------------------------------ MODULE SessionBook -----------------------------
(***************************************************************************)
(* What the verifier promises about the session IDs it puts on its login   *)
(* pages, whatever its concurrent /verify handlers and its issuer folders  *)
(* do:                                                                     *)
(*                                                                         *)
(*   - an ID is issued once and is open from then on;                      *)
(*   - an open ID may become validated, and stays validated, also when     *)
(*     more proofs come in for it;                                         *)
(*   - a restart of the process loses every ID it issued, for good.        *)
(*                                                                         *)
(* Verifier implements this specification.                                 *)
(***************************************************************************)
CONSTANT Session

VARIABLE standing   \* of each session ID

Standings == {"fresh", "open", "validated", "lost"}

TypeOK == standing \in [Session -> Standings]

Init == standing = [s \in Session |-> "fresh"]

Issue(s) == /\ standing[s] = "fresh"
            /\ standing' = [standing EXCEPT ![s] = "open"]

Validate(s) == /\ standing[s] = "open"
               /\ standing' = [standing EXCEPT ![s] = "validated"]

Crash == standing' = [s \in Session |-> IF standing[s] = "fresh" THEN "fresh"
                                                                 ELSE "lost"]

Next == Crash \/ \E s \in Session : Issue(s) \/ Validate(s)

Spec == Init /\ [][Next]_standing
===============================================================================
