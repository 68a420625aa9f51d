----------------------------- MODULE MCClaimFlow -----------------------------
EXTENDS ClaimFlow

MCName == <<"n">>

C(type, form, max) ==
    [name |-> MCName, type |-> type, form |-> form, max |-> max]

MCConfig ==
    {C("string", "reveal", 6), C("string", "domain", 6),
     C("string", "digest", 6), C("string", "digest", 12),
     C("string", "digest", 18), C("string", "hidden", 6),
     C("number", "reveal", 6), C("number", "digest", 6),
     C("number", "hidden", 6)}

M(name, value) == [name |-> <<name>>, value |-> value]

\* With 0, 1 and 2 characters to fill up, and with the claim's name.
MCHeader ==
    {<<M("a", Numeral(<<"1", "2", "3">>))>>,
     <<M("a", Numeral(<<"1">>))>>,
     <<M("a", Numeral(<<"1", "2">>))>>,
     <<M("a", String(<<"{">>))>>,
     <<M("n", String(<<"x">>))>>,
     <<M("n", Numeral(<<"1", "2">>))>>,
     <<M("n", Numeral(<<"1", "0", "0", "0", "0", "0", "9">>))>>,
     <<M("a", String(<<"}">>)), M("b", ObjectOf(<<"n">>))>>}

MCValue ==
    {String(t) : t \in {<<>>, <<"x">>, <<"x", "@", "y">>, <<"@", "x">>,
                        <<"x", "@", "y", "@">>, <<"x", "@", "y", "y">>,
                        <<"x", "x", "@", "y", "y">>,
                        <<"x", "x", "@", "y", "y", "y">>,
                        <<"x", "x", "@", "y", "y", "y", "y">>,
                        <<"x", Quote, "@">>, <<"x", "@">>,
                        <<"x", Quote, "@", "y">>, <<"x", "}">>, <<"n">>,
                        <<"x", Backslash>>, <<"0">>,
                        <<"x", "@", "y", "y", "y", "y", "y", "y", "y">>,
                        <<"x", "x", "x", "x", "x", "x", "@">>,
                        [i \in 1..6 |-> Backslash]}
                       \cup {[i \in 1..k |-> "x"] : k \in 11..14}}
    \cup {Numeral(t) : t \in {<<"0">>, <<"1", "2">>, <<"-", "1">>,
                              <<"1", ".", "2">>,
                              <<"1", "2", "3", "4", "5">>,
                              <<"1", "2", "3", "4", "5", "6">>,
                              <<"1", "2", "3", "4", "5", "6", "7">>,
                              <<"1", "0", "0", "0", "4", "8">>}}

MCOther ==
    {Numeral(<<"7">>), String(<<Quote, "n">>), String(<<"{">>),
     String(<<"}">>), String(<<":", Space>>), ListOf(<<"n">>),
     ObjectOf(<<"n">>), String([i \in 1..22 |-> "x"])}

MCMember ==
    {M("n", v) : v \in MCValue} \cup {M("m", v) : v \in MCOther}
        \cup {[name |-> <<"k", ":", ",">>, value |-> v] :
                   v \in {String(<<"n">>), ObjectOf(<<"n">>)}}

MCSeparator == {<<":">>, <<":", Space>>}
=============================================================================
