---------------------------- MODULE CrescentCommon ----------------------------
(***************************************************************************)
(* The tables of schema UIDs, credential types and disclosure UIDs that    *)
(* the client helper and the verifier share                                *)
(* (sample/setup_service/src/common.rs).  A Result::Err is the value       *)
(* "error"; only "ages" are numbers.                                       *)
(***************************************************************************)
EXTENDS Naturals

SCHEMA_UIDS == {"jwt_corporate_1", "jwt_sd", "mdl_1"}

CredTypes == {"jwt", "mdl"}

cred_type_from_schema(schema_uid) ==
  CASE schema_uid \in {"jwt_corporate_1", "jwt_sd"} -> "jwt"
    [] schema_uid = "mdl_1" -> "mdl"
    [] OTHER -> "error"

JwtDisclosures == {"crescent://email_domain", "crescent://selective_disclosure"}

AgeDisclosures ==
  {"crescent://over_18", "crescent://over_21", "crescent://over_65"}

Disclosures == JwtDisclosures \cup AgeDisclosures

(* What the prover side asks: can a credential of this type prove it?      *)
is_disc_uid_supported(disc_uid, cred_type) ==
  \/ cred_type = "jwt" /\ disc_uid \in JwtDisclosures
  \/ cred_type = "mdl" /\ disc_uid \in AgeDisclosures

(* What the verifier side asks: does this schema offer the disclosure?     *)
is_disc_supported_by_schema(disc, schema) ==
  \/ schema = "jwt_corporate_1" /\ disc = "crescent://email_domain"
  \/ schema = "jwt_sd" /\ disc = "crescent://selective_disclosure"
  \/ schema = "mdl_1" /\ disc \in AgeDisclosures

disc_uid_to_age(disc_uid) ==
  CASE disc_uid = "crescent://over_18" -> 18
    [] disc_uid = "crescent://over_21" -> 21
    [] disc_uid = "crescent://over_65" -> 65
    [] OTHER -> 0
===============================================================================
