------------------------------- MODULE MCShell -------------------------------
(* The lines of the instance: three aliases, one of them with one or two
   words, and every form of redirection, with blanks around ">" and without. *)
EXTENDS Shell

Aliases == {"a", "b", "c"}
\* Words without ">" in them.
Plain(l) == [i \in DOMAIN l |-> <<l[i]>>]
MCLines ==
    {Plain(l) : l \in
        {<<>>, <<"alias">>, <<"alias", "a">>, <<"alias", "exit", "p">>}
        \cup {<<"alias", n, "p">> : n \in Aliases}
        \cup {<<"alias", "a", "q", "r">>}
        \cup {<<"unalias", n>> : n \in Aliases} \cup {<<"unalias">>}
        \cup {<<"a">>, <<"b", ">", "f">>, <<">", "f">>,
              <<"p", ">", "f", "g">>, <<"p", ">", "f", ">", "g">>}}
    \cup {<<<<"a", ">", "f">>>>, <<<<"p">>, <<"r", ">", "f">>>>, <<<<"p", ">">>>>}
==============================================================================
