------------------------------- MODULE MCTools -------------------------------
(* Instance of Tools for TLC: a server that offers everything or two methods; two
   documents; up to three servers; files of three declarations, nested, in a row
   and both. *)
EXTENDS Tools, TLC

Asked(script) == {script[i].method.name : i \in {j \in DOMAIN script : script[j].do = "ask"}}
MCOffers == {UNION {Asked(Handlers[t]) : t \in Tool}, {"hover", "documentSymbol"}}

MCClientLists == {<<"c1">>, <<"c1", "c2">>, <<"c1", "c2", "c3">>}
MCAnswerLists == {<<>>, <<"a">>, <<"a", "a">>}

Range2(from, to) == [from |-> from, to |-> to]
Layouts == {<<Range2(0, 3), Range2(0, 2), Range2(1, 2)>>, <<Range2(0, 3), Range2(0, 1), Range2(1, 3)>>,
            <<Range2(1, 3), Range2(0, 1), Range2(1, 2)>>}
MCFiles == {[i \in 1..3 |-> [kind |-> k[i], from |-> l[i].from, to |-> l[i].to]] :
              k \in [1..3 -> Kind], l \in Layouts}
=============================================================================
