-------------------------------- MODULE Shell --------------------------------
(***************************************************************************)
(* The shell of p3, mysh.c: aliases, redirection and the running of        *)
(* programs, in its two modes.  The modes are two copies of one loop, and  *)
(* differ in one line: only batch mode ends a new alias with a null next.  *)
(*                                                                         *)
(* The list of aliases is modelled with its pointers, and memory with what *)
(* it holds: a node that malloc hands out again keeps what the removed     *)
(* alias left in it.  A line is the sequence of its words, and a word the  *)
(* sequence of its pieces: ">" is one, with or without blanks around it.   *)
(* Messages are left out.                                                  *)
(***************************************************************************)
EXTENDS Integers, Sequences, FiniteSets, FiniteSetsExt, SequencesExt

CONSTANTS
    Lines,          \* the lines a user may type
    NODES,          \* BOUND: alias nodes in memory
    MAX_LINE_CMDS,  \* words in the path of a node
    NULL

ASSUME BoundsAssumption == NODES \in Nat /\ MAX_LINE_CMDS \in Nat \ {0}
ASSUME LinesAssumption ==
    \A l \in Lines : l \in Seq(Seq(STRING) \ {<<>>}) /\ Len(l) <= MAX_LINE_CMDS + 2

Words == UNION {Range(l) : l \in Lines}
Tail0 == 0      \* the first tail: a node without an alias, head->next for ever
Nodes == 1..NODES
Places == 1..MAX_LINE_CMDS
Stdout == "stdout"

VARIABLES
    mode,       \* "interactive" or "batch"
    pc,         \* "prompt", "wait" (for a child), "done", or "lost": the list
                \* has no end, or its memory is not a list
    mem,        \* the nodes: alias, path, num, next, prev
    tail,
    top,        \* the nodes that were ever allocated are 1..top
    bin,        \* freed nodes, the last one first
    child,      \* what the child executes: the line, argv, standard output
    aliases,    \* history: the aliases that are defined, in order
    leftover,   \* history: a node was linked whose next was not null
    most        \* history: the most words a node was ever given

list == <<mem, tail, top, bin, aliases, leftover, most>>
vars == <<mode, pc, list, child>>

\* Memory fresh from the system is zero.
Zero == [alias |-> NULL, path |-> [i \in Places |-> NULL], num |-> 0,
         next |-> NULL, prev |-> NULL]

Init ==
    /\ mode \in {"interactive", "batch"} /\ pc = "prompt"
    /\ mem = [n \in Nodes \cup {Tail0} |-> Zero]
    /\ tail = Tail0 /\ top = 0 /\ bin = <<>>
    /\ child = NULL /\ aliases = <<>> /\ leftover = FALSE
    /\ most = [n \in Nodes |-> 0]

-----------------------------------------------------------------------------
(* The list. *)

\* The nodes from head->next->next on, with what ends them: null, or a node
\* met before, or one that was freed.
Chain ==
    LET Ends(s) == \/ Last(s) = NULL \/ Contains(bin, Last(s))
                   \/ Contains(Front(s), Last(s)) \/ Last(s) = Tail0
        from[k \in 0..NODES] ==
            IF k = 0 THEN <<mem[Tail0].next>>
            ELSE LET s == from[k - 1]
                 IN IF Ends(s) THEN s ELSE Append(s, mem[Last(s)].next)
    IN from[NODES]
EndsWell == Last(Chain) = NULL

\* The node of an alias; NULL; or Lost in a list without end.
Lost == -1
checkAlias(a) ==
    LET c == Chain
        at == {i \in 1..(Len(c) - 1) : mem[c[i]].alias = a}
    IN IF at # {} THEN c[Min(at)] ELSE IF Last(c) = NULL THEN NULL ELSE Lost

\* addNodePath copies the words, and no null after them.
addNodePath(path, words) ==
    [i \in Places |-> IF i <= Len(words) THEN words[i] ELSE path[i]]

\* The arguments execv finds in a path: up to the first null.
Argv(path) ==
    LET n == {i \in Places : \A j \in 1..i : path[j] # NULL}
    IN [i \in n |-> path[i]]

\* malloc takes what was freed last, or memory never used.
malloc == IF bin # <<>> THEN Head(bin) ELSE top + 1

\* Slip: neither mode sets next.
MutNewNode(n, a, words) ==
    [alias |-> a, path |-> addNodePath(mem[n].path, words), num |-> Len(words),
     next |-> mem[n].next, prev |-> tail]

\* The new node at the end of the list; in interactive mode next is not set.
NewNode(n, a, words) ==
    [alias |-> a, path |-> addNodePath(mem[n].path, words), num |-> Len(words),
     next |-> IF mode = "batch" THEN NULL ELSE mem[n].next, prev |-> tail]

-----------------------------------------------------------------------------
(* The built-in commands. *)

Reads == pc = "prompt"
Is(l, cmd) == l # <<>> /\ l[1] = <<cmd>>

\* "exit", or the end of the input.
Exit ==
    /\ pc = "prompt" /\ pc' = "done"
    /\ UNCHANGED <<mode, list, child>>

Empty(l) == Reads /\ l = <<>> /\ UNCHANGED vars

\* alias, alias a: to print is to go through the list.
AliasPrint(l) ==
    /\ Reads /\ Is(l, "alias") /\ Len(l) < 3
    /\ pc' = IF (IF Len(l) = 1 THEN ~EndsWell ELSE checkAlias(l[2]) = Lost)
             THEN "lost" ELSE pc
    /\ UNCHANGED <<mode, list, child>>

Dangerous(a) == a \in {<<"alias">>, <<"unalias">>, <<"exit">>}

\* alias a word ...
AliasDangerous(l) ==
    /\ Reads /\ Is(l, "alias") /\ Len(l) >= 3 /\ Dangerous(l[2])
    /\ UNCHANGED vars

AliasSet(l) ==
    LET a == l[2]
        words == SubSeq(l, 3, Len(l))
        old == checkAlias(a)
        n == malloc
        def == [name |-> a, words |-> words]
        Given(node) == most' = [most EXCEPT ![node] = Max({@, Len(words)})]
    IN /\ Reads /\ Is(l, "alias") /\ Len(l) >= 3 /\ ~Dangerous(a)
       /\ \/ /\ old = Lost
             /\ pc' = "lost" /\ UNCHANGED list
          \/ /\ old \in Nodes
             /\ mem' = [mem EXCEPT ![old].path = addNodePath(@, words), ![old].num = Len(words)]
             /\ aliases' = [i \in DOMAIN aliases |->
                                IF aliases[i].name = a THEN def ELSE aliases[i]]
             /\ Given(old) /\ UNCHANGED <<pc, tail, top, bin, leftover>>
          \/ /\ old = NULL /\ n \in Nodes
             /\ mem' = [mem EXCEPT ![n] = NewNode(n, a, words), ![tail].next = n]
             /\ leftover' = (leftover \/ NewNode(n, a, words).next # NULL)
             /\ tail' = n
             /\ IF bin = <<>> THEN top' = n /\ UNCHANGED bin
                ELSE bin' = Tail(bin) /\ UNCHANGED top
             /\ aliases' = Append(aliases, def)
             /\ Given(n) /\ UNCHANGED pc
       /\ UNCHANGED <<mode, child>>

\* unalias with the wrong number of words.
UnaliasWrong(l) ==
    /\ Reads /\ Is(l, "unalias") /\ Len(l) # 2
    /\ UNCHANGED vars

\* Unlinks the node: the last one by tail, another by its neighbours.
Unlinked(del) ==
    LET d == mem[del] IN
    IF d.next = NULL THEN [mem EXCEPT ![mem[tail].prev].next = NULL]
    ELSE [mem EXCEPT ![d.prev].next = d.next, ![d.next].prev = d.prev]

Unalias(l) ==
    LET del == checkAlias(l[2]) IN
    /\ Reads /\ Is(l, "unalias") /\ Len(l) = 2
    /\ \/ del = NULL /\ UNCHANGED <<pc, list>>
       \/ del = Lost /\ pc' = "lost" /\ UNCHANGED list
       \/ /\ del \in Nodes
          /\ mem' = Unlinked(del)
          /\ tail' = IF mem[del].next = NULL THEN mem[tail].prev ELSE tail
          /\ bin' = <<del>> \o bin
          /\ aliases' = SelectSeq(aliases, LAMBDA d : d.name # l[2])
          /\ UNCHANGED <<pc, top, leftover, most>>
    /\ UNCHANGED <<mode, child>>

-----------------------------------------------------------------------------
(* Programs. *)

Command(l) ==
    Reads /\ l # <<>> /\ ~Is(l, "alias") /\ ~Is(l, "unalias") /\ l # <<<<"exit">>>>

\* strtok cuts the copy of the line at ">", which it skips at the very beginning,
\* and then at blanks: what was one word with ">" in it becomes several.
Pieces == [l \in Lines |-> FlattenSeq(l)]
Gt(w) == w = ">"
redir_flag(l) == Contains(Pieces[l], ">")
Cut(l) == SelectInSeq(Pieces[l], Gt)
before_redirect(l) ==
    IF Cut(l) = 1 THEN Tail(Pieces[l])
    ELSE SubSeq(Pieces[l], 1, IF redir_flag(l) THEN Cut(l) - 1 ELSE Len(Pieces[l]))
after_redirect(l) ==
    IF Cut(l) <= 1 THEN <<>> ELSE SubSeq(Pieces[l], Cut(l) + 1, Len(Pieces[l]))

\* Slip: any number of files.
MutInvalidRedirect(l) ==
    /\ redir_flag(l)
    /\ \/ Len(SelectSeq(Pieces[l], Gt)) > 1
       \/ Len(before_redirect(l)) = 0

InvalidRedirect(l) ==
    /\ redir_flag(l)
    /\ \/ Len(SelectSeq(Pieces[l], Gt)) > 1
       \/ Len(after_redirect(l)) # 1
       \/ Len(before_redirect(l)) = 0

BadRedirect(l) == Command(l) /\ InvalidRedirect(l) /\ UNCHANGED vars

ForkFails(l) == Command(l) /\ ~InvalidRedirect(l) /\ UNCHANGED vars

\* The child: an alias goes first, whatever else is on the line, and it is the
\* first word, as far as the blank, that is looked up.  open may fail, and the
\* output then stays where it was.
Fork(l) ==
    LET alias == checkAlias(l[1]) IN
    /\ Command(l) /\ ~InvalidRedirect(l)
    /\ pc' = IF alias = Lost THEN "lost" ELSE "wait"
    /\ \/ alias = Lost /\ child' = NULL
       \/ /\ alias \in Nodes
          /\ child' = [line |-> l, argv |-> Argv(mem[alias].path), out |-> Stdout]
       \/ /\ alias = NULL
          /\ \E o \in {Stdout} \cup Range(after_redirect(l)) :
                child' = [line |-> l, argv |-> [i \in DOMAIN before_redirect(l) |->
                                                    <<before_redirect(l)[i]>>], out |-> o]
    /\ UNCHANGED <<mode, list>>

\* The program ends, or there is none of that name; waitpid returns.
ChildExits ==
    /\ pc = "wait"
    /\ child' = NULL /\ pc' = "prompt"
    /\ UNCHANGED <<mode, list>>

Over == pc \in {"done", "lost"} /\ UNCHANGED vars

Line(l) ==
    \/ Empty(l) \/ AliasPrint(l) \/ AliasDangerous(l) \/ AliasSet(l)
    \/ UnaliasWrong(l) \/ Unalias(l)
    \/ BadRedirect(l) \/ ForkFails(l) \/ Fork(l)

interactive_mode == mode = "interactive" /\ Reads /\ \E l \in Lines : Line(l)
batch_mode == mode = "batch" /\ Reads /\ \E l \in Lines : Line(l)

Next == interactive_mode \/ batch_mode \/ Exit \/ ChildExits \/ Over

Spec == Init /\ [][Next]_vars

-----------------------------------------------------------------------------
(* Properties. *)

TypeOK ==
    /\ pc \in {"prompt", "wait", "done", "lost"}
    /\ DOMAIN mem = Nodes \cup {Tail0}
    /\ \A n \in Nodes : /\ mem[n].alias \in Words \cup {NULL}
                        /\ mem[n].path \in [Places -> Words \cup {NULL}]
                        /\ mem[n].num \in 0..MAX_LINE_CMDS
                        /\ {mem[n].next, mem[n].prev} \subseteq Nodes \cup {Tail0, NULL}
    /\ tail \in Nodes \cup {Tail0} /\ top \in 0..NODES
    /\ Range(bin) \subseteq 1..top
    /\ child # NULL <=> pc = "wait"

\* Batch mode, and interactive mode while no node was linked with an old next.
Clean == mode = "batch" \/ ~leftover

\* The list spells the aliases that are defined, oldest first, with the words
\* they were last given, from the first node to tail and back along prev; a
\* walk along it ends, so that the shell does not hang.
ListSound ==
    Clean =>
        LET all == Chain
            c == Front(all)
        IN
        /\ Last(all) = NULL /\ pc # "lost"
        /\ aliases = [i \in DOMAIN c |->
                        [name |-> mem[c[i]].alias,
                         words |-> SubSeq(mem[c[i]].path, 1, mem[c[i]].num)]]
        /\ tail = IF c = <<>> THEN Tail0 ELSE Last(c)
        /\ \A i \in DOMAIN c : mem[c[i]].prev = IF i = 1 THEN Tail0 ELSE c[i - 1]

\* Every node that was allocated is either in the list or free, and free once.
MemorySound ==
    Clean =>
        LET c == Front(Chain) IN
        /\ 1..top = Range(c) \cup Range(bin)
        /\ Len(c) + Len(bin) = top

\* The alias list is what the user defined, and its memory is accounted for.
ListOK == TypeOK /\ ListSound /\ MemorySound

\* An alias runs what it was last defined as, to the word, as long as the memory
\* it is in was never given more words; if it was, the words of the definition
\* come first.  Any other command is the line up to the redirection, and the one
\* word after it is the file, whether there are blanks around the ">" or not.
RunsCommand ==
    child # NULL /\ Clean =>
        LET l == child.line
            defs == {d \in Range(aliases) : d.name = l[1]}
            to == IF redir_flag(l) THEN <<">", Last(Pieces[l])>> ELSE <<>>
        IN /\ \A d \in defs :
                /\ IsPrefix(d.words, child.argv) /\ child.out = Stdout
                /\ most[checkAlias(l[1])] <= Len(d.words) => child.argv = d.words
           /\ defs = {} =>
                /\ Pieces[l] = FlattenSeq(child.argv) \o to /\ child.argv # <<>>
                /\ \A w \in Range(child.argv) : w # <<">">>
                /\ child.out \in {Stdout, Last(Pieces[l])}
==============================================================================
