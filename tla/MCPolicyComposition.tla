------------------------- MODULE MCPolicyComposition -------------------------
(* Small instances of PolicyComposition: documents that differ in their    *)
(* stanzas, and documents that differ in everything else.                  *)
EXTENDS PolicyComposition, TLC

MCLength ==
    "auth" :> 4 @@ "token" :> 5 @@ "renew-self" :> 10 @@ "lookup-self" :> 11 @@ "revoke-self" :> 11
    @@ "+" :> 1 @@ "*" :> 1 @@ "re*" :> 3 @@ "kv" :> 2 @@ "kv2" :> 3 @@ "kv*" :> 3 @@ "a" :> 1

MCBegins ==
    "*" :> DOMAIN MCLength @@ "re*" :> {"renew-self", "revoke-self"} @@ "kv*" :> {"kv", "kv2"}

Mount == <<"kv">>
MCMounts == {Mount}
MCOutside == {<<"kv2", "a">>, <<"auth", "a">>}

\* The patterns that reach the renewal path, and two that do not.
Reaching == {RenewSelf, <<"auth", "token", "+">>, <<"auth", "+", "renew-self">>,
             <<"auth", "token", "re*">>, <<"auth", "+", "*">>, <<"*">>}
Others == {<<"kv", "*">>, <<"kv*">>}

Rule(paths, capabilities) == [path : paths, capabilities : capabilities]
AllRules == Rule(Reaching, {{"update"}, {"deny"}, {"read"}}) \cup Rule(Others, {{"update"}})
\* For pairs of documents.
FewRules == Rule({RenewSelf, LookupSelf, <<"auth", "token", "re*">>}, {{"update"}, {"deny"}})

Stanzas(rules, n) == UNION {[1 .. k -> rules] : k \in 0 .. n}
Text(rules, n) == [parses : {TRUE}, stray : {FALSE}, names : {{}}, rules : Stanzas(rules, n)]
Empty == [parses |-> TRUE, stray |-> FALSE, names |-> {}, rules |-> << >>]

Bare == [name |-> 1, malformed |-> None, hcl |-> Empty, renewal |-> None, mount |-> "m",
          env |-> << >>, identities |-> {}, restricted |-> {}]

MCSettings == [values |-> {"v"}, ttl |-> None, max |-> None, malformed |-> FALSE]
Time(amount, unit) == [amount |-> amount, unit |-> unit]
Times == {None, Time(0, "h"), Time(1, "h"), Time(8, "h"), Time(9, "h"), Time(10, "m"), Time(11, "m")}

Named(n, docs) == {[doc EXCEPT !.name = n] : doc \in docs}
Tried(selections) == {[policies |-> s, settings |-> MCSettings] : s \in selections}

\* One document of up to three stanzas, pairs of short ones.
Single == {[Bare EXCEPT !.hcl = h, !.renewal = r] : h \in Text(AllRules, 3), r \in {None}}
Short == {[Bare EXCEPT !.hcl = h, !.renewal = r] : h \in Text(FewRules, 1), r \in {None, TRUE, FALSE}}

\* Documents that differ in contract and identities, three at a time.  The mount
\* target "n" is too long for a value.
Key(n) == [kind |-> "key", name |-> n]
Contracts == {[Bare EXCEPT !.mount = m, !.env = e] :
                m \in {"m", "n"},
                e \in {<< >>, "X" :> "m", "X" :> "n", "X" :> "{mount-target}", "Y" :> "y"}}
Identities == {[Bare EXCEPT !.identities = i, !.restricted = r] :
                 i \in SUBSET {Key("k"), Key("l")}, r \in SUBSET {Key("k"), Key("l")}}

\* Faults of one document, and texts that do not parse.
Odd == {[Bare EXCEPT !.malformed = f, !.hcl = h] :
          f \in {None, "name", "openbao", "ssh", "contract"},
          h \in [parses : BOOLEAN, stray : BOOLEAN, names : SUBSET {"v", "w"}, rules : {<< >>}]}

Triples(docs) == {<<p, q, r>> : p \in Named(2, docs), q \in Named(1, docs), r \in Named(3, docs)}

MCCases ==
    Tried({<< >>} \cup {<<p>> : p \in Single} \cup {<<p, q>> : p, q \in Short}
          \cup {<<p, q>> : p \in Named(2, Short), q \in Short}
          \cup Triples(Contracts) \cup Triples(Identities)
          \cup {<<p, q>> : p \in Odd, q \in Named(2, Odd)})
    \cup {[policies |-> <<Bare>>, settings |-> s] :
            s \in [values : SUBSET {"v", "w"}, ttl : Times, max : Times, malformed : BOOLEAN]}
==============================================================================
