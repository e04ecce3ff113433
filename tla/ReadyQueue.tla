----------------------------- MODULE ReadyQueue -----------------------------
(***************************************************************************)
(* What the process subsystem promises of its ready queue (README, "a FIFO *)
(* ready queue"): the process that waited longest runs next, nobody is in  *)
(* the queue twice and the running process is not in the queue.            *)
(***************************************************************************)
EXTENDS Sequences, Naturals

CONSTANTS Procs, NULL

VARIABLES queue, running

Waiting == {queue[i] : i \in 1..Len(queue)}

Init == queue = <<>> /\ running = NULL

\* A new process joins the queue.
Admit(p) ==
    /\ p \notin Waiting \cup {running}
    /\ queue' = Append(queue, p)
    /\ UNCHANGED running

\* The process that waited longest runs.
Dispatch ==
    /\ queue # <<>>
    /\ running' = Head(queue) /\ queue' = Tail(queue)

\* p joins the queue and the process that waited longest runs: the running process
\* gives up the CPU, or a new process is started.
Turn(p) ==
    /\ p \notin Waiting
    /\ LET q == Append(queue, p) IN running' = Head(q) /\ queue' = Tail(q)

Next == \E p \in Procs : Admit(p) \/ Turn(p) \/ Dispatch

Spec == Init /\ [][Next]_<<queue, running>>
=============================================================================
