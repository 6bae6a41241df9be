--------------------------- MODULE MCHostPatterns ---------------------------
(* Questions for TLC: every short glob, lists that mix kinds of patterns,   *)
(* and what was recorded for a host asked for another.                      *)
EXTENDS HostPatterns

Letters == {"a", "b"}
Alphabet == Letters \cup {"*", "?", "[", "]", ":", "22", "2022"}
Words(S, n) == UNION {[1..k -> S] : k \in 0..n}

Glob(t) == [negative |-> FALSE, hashed |-> FALSE, text |-> t]
Hash(t) == [negative |-> FALSE, hashed |-> TRUE, text |-> t]
Not(p) == [p EXCEPT !.negative = TRUE]
Ask(list, host, port) == [list |-> list, host |-> host, port |-> port]

Globs == {Ask(<<Glob(t)>>, h, "22") :
            t \in Words(Letters \cup {"*", "?"}, 3), h \in Words(Letters, 3)}

Some == {Glob(<<"a">>), Glob(<<"*">>), Not(Glob(<<"*", "b">>)), Not(Hash(<<"a">>)),
         Hash(<<"a", "b">>), Hash(Garbled), Glob(<<>>), Not(Glob(<<>>))}
Mixed == {Ask(list, h, "22") :
            list \in [1..2 -> Some], h \in Words(Letters, 2)}
          \cup {Ask(list, <<"a", "b">>, "22") : list \in [1..3 -> Some]}

Hosts == Words(Letters, 2) \ {<<>>}
Bracketed(h) == <<"[">> \o h \o <<"]">>
Remembered == {[list |-> Recorded(h, p), host |-> i, port |-> q,
                of |-> [host |-> h, port |-> p]] :
                 h \in Hosts, i \in Hosts \cup {Bracketed(j) : j \in Hosts},
                 p \in {"22", "2022"}, q \in {"22", "2022"}}

AllCases == Globs \cup Mixed \cup Remembered
=============================================================================
