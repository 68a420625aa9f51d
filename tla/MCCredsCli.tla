----------------------------- MODULE MCCredsCli -----------------------------
(***************************************************************************)
(* Parameter sets after those in circuit_setup/inputs: a JWT, a device-    *)
(* bound JWT and an mDL.                                                   *)
(***************************************************************************)
EXTENDS CredsCli

MCNames == <<"aud", "birth_date", "email", "exp", "family_name", "given_name",
             "state", "tenant_ctry">>

Kind == [aud |-> "digest", birth_date |-> "reveal", email |-> "reveal",
         exp |-> "reveal", family_name |-> "reveal", given_name |-> "reveal",
         state |-> "reveal", tenant_ctry |-> "reveal"]

Rs256Sd == [credtype |-> "jwt", device_bound |-> FALSE, kind |-> Kind,
            claims |-> <<"exp", "family_name", "given_name", "tenant_ctry",
                         "aud">>]
Rs256Db == [credtype |-> "jwt", device_bound |-> TRUE, kind |-> Kind,
            claims |-> <<"exp", "email", "family_name", "given_name", "aud">>]
Mdl1 == [credtype |-> "mdl", device_bound |-> TRUE,
         kind |-> [Kind EXCEPT !["family_name"] = "digest"],
         claims |-> <<"birth_date", "state", "family_name">>]

MCConfigs == {Rs256Db, Mdl1}

Alice == [aud |-> 1, birth_date |-> 3, email |-> 2, exp |-> 1,
          valid_until |-> 1, family_name |-> 4, given_name |-> 5,
          state |-> 6, tenant_ctry |-> 18, device_key_0 |-> 7,
          device_key_1 |-> 8, issuer |-> 9]
Bob == [Alice EXCEPT !.aud = 11, !.given_name = 15, !.exp = 0,
                     !.valid_until = 0, !.birth_date = 1, !.state = 16,
                     !.device_key_0 = 17]
Mallory == [Alice EXCEPT !.issuer = 10]

MCCreds == {Alice, Bob, Mallory}

MCDays(age) == age

Plain(revealed) == [revealed |-> revealed, range |-> <<>>, message |-> 0,
                    device_bound |-> FALSE]
Bound(revealed, message) == [Plain(revealed) EXCEPT !.device_bound = TRUE,
                                                    !.message = message]
OfAge(s) == [s EXCEPT !.range = [birth_date |-> 2]]

MCSpecs == {Plain(<<"family_name", "aud">>),
            Plain(<<"given_name", "family_name">>),
            Bound(<<"aud", "family_name">>, 1),
            Bound(<<"family_name", "aud">>, 0),
            OfAge(Bound(<<"state", "family_name">>, 0))}

\* README.md:84 and 92: the file of rs256-sd, with given_name added.
OrderConfigs == {Rs256Sd}
OrderSpecs == {Plain(<<"family_name", "tenant_ctry", "aud">>),
               Plain(<<"family_name", "tenant_ctry", "aud", "given_name">>)}
=============================================================================
