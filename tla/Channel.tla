------------------------------- MODULE Channel -------------------------------
(***************************************************************************)
(* What a pipe promises: a bounded queue of bytes with a reading and a     *)
(* writing end.  Bytes come out in the order in which they went in, each   *)
(* once, and what a reader gets is the front of the queue.  An end that is *)
(* closed stays closed, and the channel is given back when both are.       *)
(***************************************************************************)
EXTENDS Integers, Sequences

CONSTANTS Channels, Capacity, Byte

VARIABLES
    ends,   \* ends[c]: the ends of channel c that are open
    queue,  \* queue[c]: the bytes in channel c
    got, gave   \* what the last step brought a reader, took from a writer

cvars == <<ends, queue, got, gave>>

CInit ==
    /\ ends = [c \in Channels |-> {}]
    /\ queue = [c \in Channels |-> <<>>]
    /\ got = <<>> /\ gave = <<>>

Quiet == got' = <<>> /\ gave' = <<>>

Open(c) ==
    /\ ends[c] = {}
    /\ ends' = [ends EXCEPT ![c] = {"r", "w"}]
    /\ queue' = [queue EXCEPT ![c] = <<>>]
    /\ Quiet

\* As many bytes as fit, at the back.
Send(c) ==
    /\ "w" \in ends[c]
    /\ \E k \in 1..(Capacity - Len(queue[c])) : \E s \in [1..k -> Byte] :
        gave' = s /\ queue' = [queue EXCEPT ![c] = @ \o s]
    /\ got' = <<>> /\ UNCHANGED ends

\* From the front; nothing only when there is nothing and no writer is left.
Receive(c) ==
    /\ "r" \in ends[c]
    /\ \E k \in 0..Len(queue[c]) :
        /\ k = 0 => queue[c] = <<>> /\ "w" \notin ends[c]
        /\ got' = SubSeq(queue[c], 1, k)
        /\ queue' = [queue EXCEPT ![c] = SubSeq(@, k + 1, Len(@))]
    /\ gave' = <<>> /\ UNCHANGED ends

\* A channel without ends is gone, and so is what was left in it.
Close(c, e) ==
    /\ e \in ends[c]
    /\ ends' = [ends EXCEPT ![c] = @ \ {e}]
    /\ queue' = IF ends[c] = {e} THEN [queue EXCEPT ![c] = <<>>] ELSE queue
    /\ Quiet

\* Anything else that goes on.
Elsewhere == Quiet /\ UNCHANGED <<ends, queue>>

CNext ==
    \/ \E c \in Channels :
        Open(c) \/ Send(c) \/ Receive(c) \/ Close(c, "r") \/ Close(c, "w")
    \/ Elsewhere

CSpec == CInit /\ [][CNext]_cvars
==============================================================================
