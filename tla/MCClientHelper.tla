---------------------------- MODULE MCClientHelper ----------------------------
(* Small instances of ClientHelper for TLC.                                *)
EXTENDS ClientHelper, TLC

CONSTANTS c1, c2, u1, u2, d1, s1

MCCall == {c1, c2}
MCOneCall == {c1}
MCUid == {u1, u2}
MCOneUid == {u1}
MCDeleter == {d1}
MCShower == {s1}

(* One schema of each credential type, with a device key, and an unknown.  *)
MCSchemas == {"jwt_sd", "mdl_1", "other"}
MCJwtSchema == {"jwt_sd"}

Symmetric == Permutations(MCCall) \cup Permutations(MCUid)
===============================================================================
