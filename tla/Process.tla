------------------------------ MODULE Process ------------------------------
(***************************************************************************)
(* Processes of CIndy-OS: the PCBs and the ready queue of src/process.c,   *)
(* the scheduler of src/scheduler.c, and the system calls that switch      *)
(* between programs (SYS_YIELD and SYS_EXIT of src/syscall.c, with the     *)
(* int 0x80 stub and the ring-3 entry and return of isr.asm and            *)
(* usermode.asm).                                                          *)
(*                                                                         *)
(* A program is launched from the shell, inside the keyboard interrupt, so *)
(* the shell waits until SYS_EXIT: the CPU is either in the shell or in    *)
(* one user program.  What a register holds is abstracted to a token: the  *)
(* program that computed it and how far that program was.                  *)
(***************************************************************************)
EXTENDS Naturals, Sequences

CONSTANTS
    Procs,      \* the PCBs that task_create_from_elf can allocate
    NULL,       \* the null pointer
    MAX_STEPS   \* bound: how far a program can get

VARIABLES
    mode,          \* "shell", or "user": a program runs in ring 3
    cpu,           \* the program's registers, EIP and ESP, as tokens
    curr_proc, rq, \* the current process; ready_head, ready_tail and the next fields
    state, pid, regs, saved_eip,    \* the other PCB fields
    next_pid,
    fifo           \* history: the processes in the queue, in order of arrival

vars == <<mode, cpu, curr_proc, rq, state, pid, regs, saved_eip, next_pid, fifo>>

PcbOrNull == Procs \cup {NULL}

\* The `run' command starts a program that has no PCB.
Programs == Procs \cup {"run"}

Tokens == [prog : Programs, k : 0..MAX_STEPS]
Token(p, n) == [prog |-> p, k |-> n]

ASSUME ProcessAssumption ==
    /\ NULL \notin Procs /\ NULL \notin Tokens /\ "run" \notin Procs
    /\ MAX_STEPS \in Nat

-----------------------------------------------------------------------------
(* The linked list of process.c.                                           *)

\* Mutant: the old tail is not linked to the new one.
queue_push_unlinked(q, p) ==
    [head |-> IF q.head = NULL THEN p ELSE q.head,
     tail |-> p,
     next |-> [q.next EXCEPT ![p] = NULL]]

queue_push(q, p) ==
    LET cleared == [q.next EXCEPT ![p] = NULL] IN
    [head |-> IF q.head = NULL THEN p ELSE q.head,
     tail |-> p,
     next |-> IF q.head = NULL THEN cleared ELSE [cleared EXCEPT ![q.tail] = p]]

\* Of a queue that is not empty; the process popped is q.head.
queue_pop(q) ==
    [head |-> q.next[q.head],
     tail |-> IF q.next[q.head] = NULL THEN NULL ELSE q.tail,
     next |-> [q.next EXCEPT ![q.head] = NULL]]

-----------------------------------------------------------------------------
(* proc_enqueue and proc_dequeue, as parts of the operations below.         *)

\* proc_enqueue(p): p becomes READY and joins the queue.
proc_enqueue(p) ==
    /\ rq' = queue_push(rq, p)
    /\ state' = [state EXCEPT ![p] = "READY"]
    /\ fifo' = Append(fifo, p)
    /\ UNCHANGED curr_proc

\* proc_dequeue(): the head becomes RUNNING and the current process.
proc_dequeue ==
    /\ rq.head # NULL
    /\ rq' = queue_pop(rq)
    /\ state' = [state EXCEPT ![rq.head] = "RUNNING"]
    /\ curr_proc' = rq.head
    /\ fifo' = Tail(fifo)

\* Mutant: proc_enqueue does not set the state.
enqueue_then_dequeue_stateKept(p) ==
    LET pushed == queue_push(rq, p) IN
    /\ rq' = queue_pop(pushed)
    /\ state' = [state EXCEPT ![pushed.head] = "RUNNING"]
    /\ curr_proc' = pushed.head
    /\ fifo' = Tail(Append(fifo, p))

\* Mutant: the process goes to the front of the queue.
enqueue_then_dequeue_lifo(p) ==
    /\ state' = [state EXCEPT ![p] = "RUNNING"]
    /\ curr_proc' = p
    /\ UNCHANGED <<rq, fifo>>

\* proc_enqueue(p) and then proc_dequeue(): the queue is never empty in between.
enqueue_then_dequeue(p) ==
    LET pushed == queue_push(rq, p) IN
    /\ rq' = queue_pop(pushed)
    /\ state' = [state EXCEPT ![p] = "READY", ![pushed.head] = "RUNNING"]
    /\ curr_proc' = pushed.head
    /\ fifo' = Tail(Append(fifo, p))

-----------------------------------------------------------------------------
(* The kernel's operations.                                                *)

Init ==
    /\ mode = "shell"
    /\ cpu = [gp |-> Token("run", 0), eip |-> Token("run", 0), esp |-> Token("run", 0)]
    /\ curr_proc = NULL
    /\ rq = [head |-> NULL, tail |-> NULL, next |-> [p \in Procs |-> NULL]]
    /\ state = [p \in Procs |-> "UNALLOCATED"]
    /\ pid = [p \in Procs |-> 0]
    /\ regs = [p \in Procs |-> NULL] /\ saved_eip = [p \in Procs |-> NULL]
    /\ next_pid = 1
    /\ fifo = <<>>

\* jump_to_usermode(stack top of p, entry of p)
jump_to_usermode(p) ==
    /\ mode' = "user"
    /\ cpu' = [gp |-> Token(p, 0), eip |-> Token(p, 0), esp |-> Token(p, 0)]

\* The PCB that task_create_from_elf fills in: zeroed, with the next pid.
NewPcb(p) ==
    /\ state[p] = "UNALLOCATED"
    /\ pid' = [pid EXCEPT ![p] = next_pid]
    /\ next_pid' = next_pid + 1

\* The spawn command: create the process, enqueue it, dequeue and start the head.
spawn(p) ==
    /\ mode = "shell"
    /\ NewPcb(p)
    /\ enqueue_then_dequeue(p)
    /\ jump_to_usermode(curr_proc')
    /\ UNCHANGED <<regs, saved_eip>>

\* The spawn command when task_create_from_elf returns -1, before it has a PCB.
spawn_fails ==
    /\ mode = "shell"
    /\ UNCHANGED vars

\* The run command: a program without a PCB.
run ==
    /\ mode = "shell"
    /\ jump_to_usermode("run")
    /\ UNCHANGED <<curr_proc, rq, state, pid, regs, saved_eip, next_pid, fifo>>

\* The program computes.
user_step ==
    /\ mode = "user"
    /\ cpu.eip.k < MAX_STEPS /\ cpu.gp.k < MAX_STEPS
    /\ cpu' = [cpu EXCEPT !.eip.k = @ + 1, !.gp.k = @ + 1]
    /\ UNCHANGED <<mode, curr_proc, rq, state, pid, regs, saved_eip, next_pid, fifo>>

\* SYS_YIELD saves the pushed registers and the return EIP in p's PCB.
SaveFrame(p) ==
    /\ regs' = [regs EXCEPT ![p] = cpu.gp]
    /\ saved_eip' = [saved_eip EXCEPT ![p] = cpu.eip]

\* Mutant: the general registers are zeroed for every process.
RestoreFrame_zeroed(p) ==
    cpu' = [cpu EXCEPT !.gp  = Token(p, 0),
                       !.eip = IF saved_eip'[p] = NULL THEN Token(p, 0) ELSE saved_eip'[p]]

\* SYS_YIELD patches the interrupt frame to resume p: its saved registers, or zeroes
\* for a process that has not run, and its saved EIP or its entry.  The esp slot
\* that the handler writes is the one popa skips; the ESP that iret loads is not
\* touched.  (Saved registers are never all zero: eax holds SYS_YIELD.)
RestoreFrame(p) ==
    cpu' = [cpu EXCEPT !.gp  = IF regs'[p] = NULL THEN Token(p, 0) ELSE regs'[p],
                       !.eip = IF saved_eip'[p] = NULL THEN Token(p, 0) ELSE saved_eip'[p]]

\* SYS_YIELD with a current process: save its frame, rotate, resume the head.
sys_yield ==
    /\ mode = "user"
    /\ curr_proc # NULL
    /\ SaveFrame(curr_proc)
    /\ enqueue_then_dequeue(curr_proc)
    /\ RestoreFrame(curr_proc')
    /\ UNCHANGED <<mode, pid, next_pid>>

\* SYS_YIELD without one: resume the head of the queue, if there is any.
sys_yield_no_process ==
    /\ mode = "user"
    /\ curr_proc = NULL
    /\ UNCHANGED <<mode, pid, next_pid, regs, saved_eip>>
    /\ \/ proc_dequeue /\ RestoreFrame(curr_proc')
       \/ rq.head = NULL /\ UNCHANGED <<cpu, rq, state, curr_proc, fifo>>

\* SYS_EXIT: kernel_return resumes the shell command that started the program.  The
\* PCB and curr_proc stay as they are.
sys_exit ==
    /\ mode = "user"
    /\ mode' = "shell"
    /\ UNCHANGED <<cpu, curr_proc, rq, state, pid, regs, saved_eip, next_pid, fifo>>

-----------------------------------------------------------------------------
(* Functions the headers export and no code of the kernel calls.           *)

\* task_create_from_elf alone: the process waits in the queue.
task_create_from_elf(p) ==
    /\ mode = "shell"
    /\ NewPcb(p)
    /\ proc_enqueue(p)
    /\ UNCHANGED <<mode, cpu, regs, saved_eip>>

proc_yield ==
    /\ mode = "shell"
    /\ curr_proc # NULL
    /\ enqueue_then_dequeue(curr_proc)
    /\ UNCHANGED <<mode, cpu, pid, regs, saved_eip, next_pid>>

\* schedule(): a RUNNING current process goes back to the queue, then the head is
\* started from its entry point.
schedule ==
    /\ mode = "shell"
    /\ \/ /\ curr_proc # NULL /\ state[curr_proc] = "RUNNING"
          /\ enqueue_then_dequeue(curr_proc)
       \/ /\ ~(curr_proc # NULL /\ state[curr_proc] = "RUNNING")
          /\ proc_dequeue
    /\ jump_to_usermode(curr_proc')
    /\ UNCHANGED <<pid, regs, saved_eip, next_pid>>

-----------------------------------------------------------------------------

\* What the kernel does.
Next ==
    \/ \E p \in Procs : spawn(p)
    \/ spawn_fails \/ run \/ user_step
    \/ sys_yield \/ sys_yield_no_process \/ sys_exit

\* With tasks that are created and left in the queue.
TasksNext == Next \/ \E p \in Procs : task_create_from_elf(p)

\* Everything process.h and scheduler.h export.
ApiNext == TasksNext \/ proc_yield \/ schedule

Spec == Init /\ [][Next]_vars
TasksSpec == Init /\ [][TasksNext]_vars
ApiSpec == Init /\ [][ApiNext]_vars

-----------------------------------------------------------------------------
(* Properties.                                                             *)

States == {"UNALLOCATED", "READY", "RUNNING"}

\* The types of the variables.
TypeOK ==
    /\ mode \in {"shell", "user"}
    /\ cpu \in [gp : Tokens, eip : Tokens, esp : Tokens]
    /\ curr_proc \in PcbOrNull
    /\ rq \in [head : PcbOrNull, tail : PcbOrNull, next : [Procs -> PcbOrNull]]
    /\ state \in [Procs -> States]
    /\ pid \in [Procs -> Nat] /\ next_pid \in Nat
    /\ regs \in [Procs -> Tokens \cup {NULL}] /\ saved_eip \in [Procs -> Tokens \cup {NULL}]
    /\ fifo \in Seq(Procs)

InFifo(p) == \E i \in 1..Len(fifo) : fifo[i] = p

\* The linked list q holds the processes of the sequence s, in its order.
IsList(q, s) ==
    /\ \A i, j \in 1..Len(s) : s[i] = s[j] => i = j
    /\ s = <<>> => q.head = NULL /\ q.tail = NULL
    /\ s # <<>> => q.head = s[1] /\ q.tail = s[Len(s)] /\ q.next[s[Len(s)]] = NULL
    /\ \A i \in 1..(Len(s) - 1) : q.next[s[i]] = s[i + 1]

\* ready_head, ready_tail and the next fields always spell out the processes in the
\* order they were enqueued: no process is lost, duplicated or reordered, and the
\* list ends.
ListIsFifo == IsList(rq, fifo)

\* The state field agrees with the queue: exactly the queued processes are READY,
\* and the current process is RUNNING and not queued, so enqueueing it cannot put
\* it into the list twice.
StateMatchesQueue ==
    /\ \A p \in Procs : state[p] = "READY" <=> InFifo(p)
    /\ curr_proc # NULL => state[curr_proc] = "RUNNING"

\* The queue of process.c implements the FIFO ready queue.
RQ == INSTANCE ReadyQueue WITH queue <- fifo, running <- curr_proc
ImplementsReadyQueue == RQ!Spec

\* A SYS_YIELD comes back to the program that called it, at the point where it was and with
\* its registers, the program that `run' started next to a finished process included.
YieldComesBack == sys_yield \/ sys_yield_no_process => cpu' = cpu

\* SYS_YIELD modifies the return frame "so that iret resumes the newly-selected
\* process": a program runs on its own stack pointer.
OwnStack == mode = "user" => cpu.esp.prog = cpu.eip.prog
=============================================================================
