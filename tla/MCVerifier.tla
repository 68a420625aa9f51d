------------------------------ MODULE MCVerifier ------------------------------
(* Small instances of Verifier for TLC.                                    *)
EXTENDS Verifier

CONSTANTS s1, s2, r1, r2, i1, n1, k1, k2

MCSessions == {s1, s2}
MCRequests == {r1, r2}
MCOneIssuer == {i1}
MCOneName == {n1}
MCKeys == {k1, k2}

MCUid == [i \in MCOneIssuer |-> n1]

(* The cache folder is neither the first entry nor the last.               *)
MCListing ==
  [s \in SCHEMA_UIDS |->
     IF s = "mdl_1"
       THEN <<"config.json", "issuer.pub", "cache", "io_locations.sym">>
       ELSE <<"config.json", "cache", "io_locations.sym">>]

MCSchemas == {"jwt_sd", "mdl_1", "other"}
===============================================================================
