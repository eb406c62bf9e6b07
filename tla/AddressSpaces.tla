----------------------------- MODULE AddressSpaces -----------------------------
(***************************************************************************)
(* What the virtual memory of a kernel promises its processes: each has a  *)
(* memory of its own.  A page changes only when its process stores to it,  *)
(* pages that are added are zero, a child starts with a copy of its        *)
(* parent's pages, and a new program with an address space of its own.     *)
(***************************************************************************)
EXTENDS Integers

CONSTANTS Procs, First, Roots, Pages, Byte, Zero, Dead

VARIABLES
    space,      \* space[p]: the address space p uses and its pages, or Dead
    stored      \* what the last step stored: [proc, page, byte], or Dead

avars == <<space, stored>>

Spaces == [root : Roots, page : UNION {[S -> Byte] : S \in SUBSET Pages}]

\* A step that changes the memory of p only, to m.
Becomes(p, m) == space' = [space EXCEPT ![p] = m]
Silent == stored' = Dead

AInit ==
    /\ \E s \in Spaces : space = [p \in Procs |-> IF p = First THEN s ELSE Dead]
    /\ stored = Dead

Alive(p) == space[p] # Dead

\* Nobody else has it.
Fresh(r) == \A q \in Procs : Alive(q) => space[q].root # r

Store(p) ==
    /\ Alive(p) /\ stored' # Dead /\ stored'.proc = p
    /\ stored'.page \in DOMAIN space[p].page /\ stored'.byte \in Byte
    /\ Becomes(p, [space[p] EXCEPT !.page[stored'.page] = stored'.byte])

\* The pages that stay keep their contents; new ones are zero.
Resize(p) ==
    /\ Alive(p) /\ Silent /\ space'[p] # Dead
    /\ DOMAIN space'[p].page \subseteq Pages
    /\ LET page == space[p].page
       IN Becomes(p, [space[p] EXCEPT !.page = [a \in DOMAIN space'[p].page |->
                        IF a \in DOMAIN page THEN page[a] ELSE Zero]])

Fork(p, c) ==
    /\ Alive(p) /\ ~Alive(c) /\ Silent
    /\ space'[c] # Dead /\ Fresh(space'[c].root)
    /\ Becomes(c, [space[p] EXCEPT !.root = space'[c].root])

\* Another address space; what was in the old one matters no more.
Exec(p) ==
    /\ Alive(p) /\ Silent
    /\ space'[p] \in Spaces /\ Fresh(space'[p].root)
    /\ Becomes(p, space'[p])

Exit(p) == Alive(p) /\ Silent /\ Becomes(p, Dead)

ANext == \E p \in Procs :
    Store(p) \/ Resize(p) \/ Exit(p) \/ (\E c \in Procs : Fork(p, c)) \/ Exec(p)

\* What the last step stored is forgotten.
Forget == Silent /\ UNCHANGED space

ASpec == AInit /\ [][ANext \/ Forget]_avars
================================================================================
