---------------------------- MODULE MCSelection ----------------------------
EXTENDS Answers, TLC

A == <<"a">>
B == <<"b">>
AX == <<"a", "x">>

MCPaths == {<<>>, A, AX, B}

\* Two of one host whose tags differ only in one that no policy with tags allows.
MCKinds == {[host |-> "h1", tags |-> {"t", "x"}, roots |-> {A}],
            [host |-> "h2", tags |-> {"x"}, roots |-> {<<>>}],
            [host |-> "h1", tags |-> {"t"}, roots |-> {AX, B}]}

\* Of each kind one, the one of the other host not the first.
MCCatalogues == {c \in [{1, 2, 3} -> MCKinds] : /\ \A s, t \in {1, 2, 3} : s # t => c[s] # c[t]
                                               /\ c[1].host = "h1"}

MCPolicies == {[hosts |-> {}, tags |-> {}, paths |-> {}],
               [hosts |-> {"h1"}, tags |-> {}, paths |-> {A}],
               [hosts |-> {"h1", "h2"}, tags |-> {"t"}, paths |-> {AX, B}]}

MCNamed(host) == host
MCSpelled(host, tags) == <<host, tags>>

MCAbbreviations == {{1, 2}}
MCScopes == {A, B}

\* Words for command lines: names, options used as names, and "h" and "--tag t" joined by NUL.
Names == {"h", "t", "--tag", "-r", "--", "h--tag-t"}
Words == {"", "/p", "/p/", "aaaaaaaa", "raw-data"}

MCInvalid == {"", "h--tag-t"}
MCDashed == Valued \cup Switches \cup {"--", "-r"}
MCPieces == "h--tag-t" :> <<"h", "--tag", "t">>
MCClean == "/p" :> "/p" @@ "/p/" :> "/p"
MCTagLists == {<<>>} \cup {<<v>> : v \in Names} \cup {<<"h", w>> : w \in Names}
MCQuestions == QuestionsWith(Names, Words, MCTagLists, {<<>>, <<"aaaaaaaa">>, <<"h">>})
=============================================================================
