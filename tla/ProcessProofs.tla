--------------------------- MODULE ProcessProofs ---------------------------
(***************************************************************************)
(* Proofs about Process for any number of PCBs: the linked list of         *)
(* process.c is a FIFO queue, under every use of the exported functions,   *)
(* and a yield of a program that the shell started comes back to it.       *)
(***************************************************************************)
EXTENDS MCProcess, SequenceTheorems, TLAPS

QueueType == [head : PcbOrNull, tail : PcbOrNull, next : [Procs -> PcbOrNull]]

\* Everything the queue's correctness depends on.
QueueInv ==
    /\ curr_proc \in PcbOrNull /\ rq \in QueueType
    /\ state \in [Procs -> States] /\ fifo \in Seq(Procs)
    /\ ListIsFifo
    /\ StateMatchesQueue

-----------------------------------------------------------------------------
(* The linked list, for any list q of any sequence s.                       *)

\* queue_push appends a process that is not in the list.
LEMMA PushIsAppend ==
    ASSUME NEW q \in QueueType, NEW s \in Seq(Procs), NEW p \in Procs,
           IsList(q, s), \A i \in 1..Len(s) : s[i] # p
    PROVE  queue_push(q, p) \in QueueType /\ IsList(queue_push(q, p), Append(s, p))
<1> DEFINE r == queue_push(q, p)
           t == Append(s, p)
<1>1. /\ t \in Seq(Procs) /\ Len(t) = Len(s) + 1 /\ Len(s) \in Nat
      /\ t[Len(s) + 1] = p /\ \A i \in 1..Len(s) : t[i] = s[i]
  OBVIOUS
<1> HIDE DEF t
<1>2. NULL \notin Procs
  BY ProcessAssumption
<1>3. CASE s = <<>>
  <2>1. q.head = NULL /\ Len(s) = 0
    BY <1>3 DEF IsList
  <2>2. r = [head |-> p, tail |-> p, next |-> [q.next EXCEPT ![p] = NULL]]
    BY <2>1 DEF queue_push
  <2>3. r \in QueueType /\ r.head = p /\ r.tail = p /\ r.next[p] = NULL
    BY <2>2 DEF QueueType, PcbOrNull
  <2> HIDE DEF r
  <2>4. Len(t) = 1 /\ t[1] = p /\ t # <<>>
    BY <1>1, <2>1
  <2>5. IsList(r, t)
    BY <2>3, <2>4 DEF IsList
  <2> QED BY <2>3, <2>5 DEF r, t
<1>4. CASE s # <<>>
  <2>1. Len(s) >= 1 /\ \A i \in 1..Len(s) : s[i] \in Procs
    BY <1>4
  <2>2. /\ q.head = s[1] /\ q.tail = s[Len(s)] /\ q.next[s[Len(s)]] = NULL
        /\ \A i \in 1..(Len(s) - 1) : q.next[s[i]] = s[i + 1]
        /\ \A i, j \in 1..Len(s) : s[i] = s[j] => i = j
    BY <1>4 DEF IsList
  <2>3. q.head # NULL /\ q.tail \in Procs /\ q.tail # p
    BY <1>2, <2>1, <2>2
  <2>4. r = [head |-> q.head, tail |-> p,
             next |-> [[q.next EXCEPT ![p] = NULL] EXCEPT ![q.tail] = p]]
    BY <2>3 DEF queue_push
  <2>5. /\ r \in QueueType /\ r.head = s[1] /\ r.tail = p
        /\ r.next[p] = NULL /\ r.next[s[Len(s)]] = p
        /\ \A x \in Procs : x # p /\ x # s[Len(s)] => r.next[x] = q.next[x]
    BY <2>1, <2>2, <2>3, <2>4 DEF QueueType, PcbOrNull
  <2>6. \A i, j \in 1..Len(t) : t[i] = t[j] => i = j
    BY <1>1, <2>2
  <2>7. ASSUME NEW i \in 1..(Len(t) - 1) PROVE r.next[t[i]] = t[i + 1]
    <3>1. CASE i = Len(s)
      BY <1>1, <2>1, <2>5, <3>1
    <3>2. CASE i # Len(s)
      <4>1. i \in 1..(Len(s) - 1) /\ i + 1 \in 1..Len(s)
        BY <1>1, <3>2
      <4>2. s[i] # s[Len(s)] /\ s[i] # p /\ s[i] \in Procs
        BY <2>1, <2>2, <3>2, <4>1
      <4> QED BY <1>1, <2>2, <2>5, <4>1, <4>2
    <3> QED BY <3>1, <3>2
  <2> HIDE DEF r
  <2>8. t # <<>> /\ t[1] = s[1] /\ t[Len(t)] = p
    BY <1>1, <2>1
  <2>9. IsList(r, t)
    BY <2>5, <2>6, <2>7, <2>8 DEF IsList
  <2> QED BY <2>5, <2>9 DEF r, t
<1> QED BY <1>3, <1>4

\* queue_pop removes the first process.
LEMMA PopIsTail ==
    ASSUME NEW q \in QueueType, NEW s \in Seq(Procs), IsList(q, s), s # <<>>
    PROVE  /\ q.head = Head(s) /\ q.head \in Procs
           /\ queue_pop(q) \in QueueType /\ IsList(queue_pop(q), Tail(s))
<1> DEFINE r == queue_pop(q)
           t == Tail(s)
<1>1. /\ t \in Seq(Procs) /\ Len(t) = Len(s) - 1 /\ Len(s) \in Nat /\ Len(s) >= 1
      /\ \A i \in 1..Len(t) : t[i] = s[i + 1]
      /\ Head(s) = s[1] /\ \A i \in 1..Len(s) : s[i] \in Procs
  OBVIOUS
<1> HIDE DEF t
<1>2. /\ q.head = s[1] /\ q.tail = s[Len(s)] /\ q.next[s[Len(s)]] = NULL
      /\ \A i \in 1..(Len(s) - 1) : q.next[s[i]] = s[i + 1]
      /\ \A i, j \in 1..Len(s) : s[i] = s[j] => i = j
  BY DEF IsList
<1>3. NULL \notin Procs /\ q.head \in Procs
  BY <1>1, <1>2, ProcessAssumption
<1>4. /\ r \in QueueType /\ r.head = q.next[s[1]]
      /\ r.tail = IF q.next[s[1]] = NULL THEN NULL ELSE q.tail
      /\ \A x \in Procs : x # s[1] => r.next[x] = q.next[x]
  BY <1>2, <1>3 DEF queue_pop, QueueType, PcbOrNull
<1> HIDE DEF r
<1>5. \A i, j \in 1..Len(t) : t[i] = t[j] => i = j
  BY <1>1, <1>2
<1>6. ASSUME NEW i \in 1..Len(t) PROVE r.next[t[i]] = q.next[s[i + 1]]
  BY <1>1, <1>2, <1>4
<1>7. CASE Len(s) = 1
  <2>1. t = <<>> /\ q.next[s[1]] = NULL
    BY <1>1, <1>2, <1>7, EmptySeq
  <2>2. IsList(r, t)
    BY <1>1, <1>2, <1>4, <1>5, <2>1 DEF IsList
  <2> QED BY <1>1, <1>2, <1>3, <1>4, <2>2 DEF r, t
<1>8. CASE Len(s) # 1
  <2>1. Len(t) >= 1 /\ q.next[s[1]] = s[2] /\ s[2] # NULL /\ t[1] = s[2] /\ t[Len(t)] = s[Len(s)]
    BY <1>1, <1>2, <1>3, <1>8
  <2>2. r.head = t[1] /\ r.tail = t[Len(t)] /\ r.next[t[Len(t)]] = NULL
    BY <1>1, <1>2, <1>4, <1>6, <2>1
  <2>3. ASSUME NEW i \in 1..(Len(t) - 1) PROVE r.next[t[i]] = t[i + 1]
    BY <1>1, <1>2, <1>6
  <2>4. t # <<>>
    BY <2>1
  <2>5. IsList(r, t)
    BY <1>5, <2>2, <2>3, <2>4 DEF IsList
  <2> QED BY <1>1, <1>2, <1>3, <1>4, <2>5 DEF r, t
<1> QED BY <1>7, <1>8

\* What is left of an injective sequence without its first element.
LEMMA TailMembers ==
    ASSUME NEW s \in Seq(Procs), s # <<>>, \A i, j \in 1..Len(s) : s[i] = s[j] => i = j,
           NEW x
    PROVE  (\E i \in 1..Len(Tail(s)) : Tail(s)[i] = x)
              <=> (\E i \in 1..Len(s) : s[i] = x) /\ x # Head(s)
<1> DEFINE t == Tail(s)
<1>1. /\ t \in Seq(Procs) /\ Len(t) = Len(s) - 1 /\ Len(s) \in Nat /\ Len(s) >= 1
      /\ \A i \in 1..Len(t) : t[i] = s[i + 1]
      /\ Head(s) = s[1]
  OBVIOUS
<1> HIDE DEF t
<1>2. ASSUME NEW i \in 1..Len(t), t[i] = x
      PROVE  (\E k \in 1..Len(s) : s[k] = x) /\ x # Head(s)
  <2>1. i + 1 \in 1..Len(s) /\ s[i + 1] = x /\ 1 \in 1..Len(s) /\ i + 1 # 1
    BY <1>1, <1>2
  <2> QED BY <1>1, <2>1
<1>3. ASSUME NEW i \in 1..Len(s), s[i] = x, x # Head(s)
      PROVE  \E k \in 1..Len(t) : t[k] = x
  <2>1. i - 1 \in 1..Len(t) /\ t[i - 1] = x
    BY <1>1, <1>3
  <2> QED BY <2>1
<1> QED BY <1>2, <1>3 DEF t

\* The members of a sequence to which a process was appended.
LEMMA AppendMembers ==
    ASSUME NEW s \in Seq(Procs), NEW p \in Procs, NEW x
    PROVE  (\E i \in 1..Len(Append(s, p)) : Append(s, p)[i] = x)
              <=> (\E i \in 1..Len(s) : s[i] = x) \/ x = p
<1> DEFINE t == Append(s, p)
<1>1. /\ Len(t) = Len(s) + 1 /\ Len(s) \in Nat
      /\ t[Len(s) + 1] = p /\ \A i \in 1..Len(s) : t[i] = s[i]
  OBVIOUS
<1> HIDE DEF t
<1>2. \A i \in 1..Len(t) : i \in 1..Len(s) \/ i = Len(s) + 1
  BY <1>1
<1>3. Len(s) + 1 \in 1..Len(t) /\ \A i \in 1..Len(s) : i \in 1..Len(t)
  BY <1>1
<1> QED BY <1>1, <1>2, <1>3 DEF t

-----------------------------------------------------------------------------
(* The three ways the operations use the queue.                            *)

\* proc_enqueue of a process that is neither queued nor current.
LEMMA EnqueueStep ==
    ASSUME QueueInv, NEW p \in Procs, state[p] = "UNALLOCATED", proc_enqueue(p)
    PROVE  QueueInv' /\ RQ!Admit(p)
<1>1. /\ rq' = queue_push(rq, p) /\ state' = [state EXCEPT ![p] = "READY"]
      /\ fifo' = Append(fifo, p) /\ curr_proc' = curr_proc
      /\ fifo \in Seq(Procs) /\ state \in [Procs -> States] /\ rq \in QueueType
      /\ IsList(rq, fifo) /\ curr_proc \in PcbOrNull
  BY DEF QueueInv, proc_enqueue, ListIsFifo
<1>2. ~InFifo(p) /\ p # curr_proc
  BY ProcessAssumption DEF QueueInv, StateMatchesQueue
<1>3. rq' \in QueueType /\ IsList(rq', fifo')
  BY <1>1, <1>2, PushIsAppend DEF InFifo
<1>4. fifo' \in Seq(Procs) /\ state' \in [Procs -> States]
  BY <1>1 DEF States
<1>5. \A x \in Procs : InFifo(x)' <=> InFifo(x) \/ x = p
  BY <1>1, AppendMembers DEF InFifo
<1>6. StateMatchesQueue'
  <2>1. \A x \in Procs : state'[x] = IF x = p THEN "READY" ELSE state[x]
    BY <1>1
  <2>2. \A x \in Procs : state'[x] = "READY" <=> InFifo(x)'
    BY <1>5, <2>1 DEF QueueInv, StateMatchesQueue
  <2>3. curr_proc' # NULL => state'[curr_proc'] = "RUNNING"
    BY <1>1, <1>2, <2>1 DEF QueueInv, StateMatchesQueue, PcbOrNull
  <2> QED BY <2>2, <2>3 DEF StateMatchesQueue
<1>7. RQ!Admit(p)
  BY <1>1, <1>2 DEF RQ!Admit, RQ!Waiting, InFifo
<1> QED BY <1>1, <1>3, <1>4, <1>6, <1>7 DEF QueueInv, ListIsFifo

\* proc_dequeue of a queue that is not empty.
LEMMA DequeueStep ==
    ASSUME QueueInv, proc_dequeue
    PROVE  QueueInv' /\ RQ!Dispatch
<1>1. /\ rq.head # NULL /\ rq' = queue_pop(rq)
      /\ state' = [state EXCEPT ![rq.head] = "RUNNING"]
      /\ curr_proc' = rq.head /\ fifo' = Tail(fifo)
      /\ fifo \in Seq(Procs) /\ state \in [Procs -> States] /\ rq \in QueueType
      /\ IsList(rq, fifo)
  BY DEF QueueInv, proc_dequeue, ListIsFifo
<1>2. fifo # <<>>
  BY <1>1 DEF IsList
<1>3. /\ rq.head = Head(fifo) /\ rq.head \in Procs
      /\ rq' \in QueueType /\ IsList(rq', fifo')
  BY <1>1, <1>2, PopIsTail
<1>4. fifo' \in Seq(Procs) /\ state' \in [Procs -> States] /\ curr_proc' \in PcbOrNull
  BY <1>1, <1>2, <1>3 DEF States, PcbOrNull
<1>5. \A i, j \in 1..Len(fifo) : fifo[i] = fifo[j] => i = j
  BY <1>1 DEF IsList
<1>6. \A x \in Procs : InFifo(x)' <=> InFifo(x) /\ x # Head(fifo)
  BY <1>1, <1>2, <1>5, TailMembers DEF InFifo
<1>7. StateMatchesQueue'
  <2>1. \A x \in Procs : state'[x] = IF x = rq.head THEN "RUNNING" ELSE state[x]
    BY <1>1
  <2>2. \A x \in Procs : state'[x] = "READY" <=> InFifo(x)'
    BY <1>3, <1>6, <2>1 DEF QueueInv, StateMatchesQueue
  <2> QED BY <1>1, <1>3, <2>1, <2>2 DEF StateMatchesQueue
<1>8. RQ!Dispatch
  BY <1>1, <1>2, <1>3 DEF RQ!Dispatch
<1> QED BY <1>1, <1>3, <1>4, <1>7, <1>8 DEF QueueInv, ListIsFifo

\* proc_enqueue followed by proc_dequeue, of the current or of a new process.
LEMMA TurnStep ==
    ASSUME QueueInv, NEW p \in Procs, state[p] # "READY", enqueue_then_dequeue(p)
    PROVE  QueueInv' /\ RQ!Turn(p)
<1> DEFINE q == queue_push(rq, p)
           s == Append(fifo, p)
<1>1. /\ rq' = queue_pop(q) /\ state' = [state EXCEPT ![p] = "READY", ![q.head] = "RUNNING"]
      /\ curr_proc' = q.head /\ fifo' = Tail(s)
      /\ fifo \in Seq(Procs) /\ state \in [Procs -> States] /\ rq \in QueueType
      /\ IsList(rq, fifo)
  BY DEF QueueInv, enqueue_then_dequeue, ListIsFifo
<1>2. ~InFifo(p)
  BY DEF QueueInv, StateMatchesQueue
<1>3. q \in QueueType /\ IsList(q, s)
  BY <1>1, <1>2, PushIsAppend DEF InFifo
<1>4. s \in Seq(Procs) /\ s # <<>>
  BY <1>1
<1>5. \A x \in Procs : (\E i \in 1..Len(s) : s[i] = x) <=> InFifo(x) \/ x = p
  BY <1>1, AppendMembers DEF InFifo
<1> HIDE DEF q, s
<1>6. /\ q.head = Head(s) /\ q.head \in Procs
      /\ rq' \in QueueType /\ IsList(rq', fifo')
  BY <1>1, <1>3, <1>4, PopIsTail
<1>7. fifo' \in Seq(Procs) /\ state' \in [Procs -> States] /\ curr_proc' \in PcbOrNull
  BY <1>1, <1>4, <1>6 DEF States, PcbOrNull
<1>8. \A i, j \in 1..Len(s) : s[i] = s[j] => i = j
  BY <1>3 DEF IsList
<1>9. \A x \in Procs : InFifo(x)' <=> (InFifo(x) \/ x = p) /\ x # Head(s)
  <2>1. \A x \in Procs : (\E i \in 1..Len(Tail(s)) : Tail(s)[i] = x)
                            <=> (\E i \in 1..Len(s) : s[i] = x) /\ x # Head(s)
    BY <1>4, <1>8, TailMembers
  <2>2. \A x \in Procs : InFifo(x)' <=> (\E i \in 1..Len(Tail(s)) : Tail(s)[i] = x)
    BY <1>1 DEF InFifo
  <2> QED BY <1>5, <2>1, <2>2
<1>10. StateMatchesQueue'
  <2>1. \A x \in Procs : state'[x] = IF x = q.head THEN "RUNNING"
                                     ELSE IF x = p THEN "READY" ELSE state[x]
    BY <1>1, <1>6
  <2>2. \A x \in Procs : state'[x] = "READY" <=> InFifo(x)'
    BY <1>6, <1>9, <2>1 DEF QueueInv, StateMatchesQueue
  <2> QED BY <1>1, <1>6, <2>1, <2>2 DEF StateMatchesQueue
<1>11. RQ!Turn(p)
  BY <1>1, <1>2, <1>6 DEF RQ!Turn, RQ!Waiting, InFifo, s
<1> QED BY <1>1, <1>6, <1>7, <1>10, <1>11 DEF QueueInv, ListIsFifo

-----------------------------------------------------------------------------

\* The initial state has an empty queue, as the abstract one has.
LEMMA QueueInvInit == Init => QueueInv /\ RQ!Init
<1> SUFFICES ASSUME Init PROVE QueueInv /\ RQ!Init
  OBVIOUS
<1>1. fifo = <<>> /\ curr_proc = NULL /\ Len(fifo) = 0
  BY DEF Init
<1>2. rq \in QueueType /\ state \in [Procs -> States]
  BY DEF Init, QueueType, PcbOrNull, States
<1>3. ListIsFifo
  BY <1>1 DEF Init, ListIsFifo, IsList
<1>4. StateMatchesQueue
  BY <1>1 DEF Init, StateMatchesQueue, InFifo
<1> QED BY <1>1, <1>2, <1>3, <1>4 DEF QueueInv, PcbOrNull, RQ!Init

\* Every step of the interface keeps QueueInv and is a step of the FIFO queue.
LEMMA QueueInvStep ==
    QueueInv /\ [ApiNext]_vars => QueueInv' /\ [RQ!Next]_<<fifo, curr_proc>>
<1> SUFFICES ASSUME QueueInv, [ApiNext]_vars
             PROVE  QueueInv' /\ [RQ!Next]_<<fifo, curr_proc>>
  OBVIOUS
<1>1. ASSUME UNCHANGED <<rq, state, fifo, curr_proc>>
      PROVE  QueueInv' /\ [RQ!Next]_<<fifo, curr_proc>>
  BY <1>1 DEF QueueInv, ListIsFifo, IsList, StateMatchesQueue, InFifo
<1>2. ASSUME NEW p \in Procs, state[p] # "READY", enqueue_then_dequeue(p)
      PROVE  QueueInv' /\ [RQ!Next]_<<fifo, curr_proc>>
  BY <1>2, TurnStep DEF RQ!Next
<1>3. ASSUME proc_dequeue
      PROVE  QueueInv' /\ [RQ!Next]_<<fifo, curr_proc>>
  <2>1. rq.head \in Procs
    BY <1>3 DEF proc_dequeue, QueueInv, QueueType, PcbOrNull
  <2> QED BY <1>3, <2>1, DequeueStep DEF RQ!Next
<1>4. curr_proc # NULL => curr_proc \in Procs /\ state[curr_proc] # "READY"
  BY DEF QueueInv, PcbOrNull, StateMatchesQueue
<1>5. ASSUME NEW p \in Procs, spawn(p)
      PROVE  QueueInv' /\ [RQ!Next]_<<fifo, curr_proc>>
  BY <1>2, <1>5 DEF spawn, NewPcb
<1>6. CASE spawn_fails \/ run \/ user_step \/ sys_exit \/ UNCHANGED vars
  BY <1>1, <1>6 DEF spawn_fails, run, user_step, sys_exit, vars
<1>7. CASE sys_yield
  BY <1>2, <1>4, <1>7 DEF sys_yield
<1>8. CASE sys_yield_no_process
  BY <1>1, <1>3, <1>8 DEF sys_yield_no_process
<1>9. ASSUME NEW p \in Procs, task_create_from_elf(p)
      PROVE  QueueInv' /\ [RQ!Next]_<<fifo, curr_proc>>
  BY <1>9, EnqueueStep DEF task_create_from_elf, NewPcb, RQ!Next
<1>10. CASE proc_yield
  BY <1>2, <1>4, <1>10 DEF proc_yield
<1>11. CASE schedule
  BY <1>2, <1>3, <1>4, <1>11 DEF schedule
<1> QED
  BY <1>5, <1>6, <1>7, <1>8, <1>9, <1>10, <1>11 DEF ApiNext, TasksNext, Next

\* The linked list is the sequence of the enqueued processes, for any number of PCBs
\* and under every use of the exported functions.
THEOREM ListIsFifoThm == ApiSpec => []ListIsFifo
<1>1. QueueInv => ListIsFifo
  BY DEF QueueInv
<1> QED BY <1>1, QueueInvInit, QueueInvStep, PTL DEF ApiSpec

\* Exactly the queued processes are READY, and the current one is RUNNING.
THEOREM StateMatchesQueueThm == ApiSpec => []StateMatchesQueue
<1>1. QueueInv => StateMatchesQueue
  BY DEF QueueInv
<1> QED BY <1>1, QueueInvInit, QueueInvStep, PTL DEF ApiSpec

\* process.c and scheduler.c implement the FIFO ready queue.
THEOREM ImplementsReadyQueueThm == ApiSpec => ImplementsReadyQueue
<1> QED BY QueueInvInit, QueueInvStep, PTL DEF ApiSpec, ImplementsReadyQueue, RQ!Spec


-----------------------------------------------------------------------------
(* Registers, and the yields of the shell's programs.                      *)

RegsType ==
    /\ mode \in {"shell", "user"}
    /\ cpu \in [gp : Tokens, eip : Tokens, esp : Tokens]
    /\ pid \in [Procs -> Nat] /\ next_pid \in Nat
    /\ regs \in [Procs -> Tokens \cup {NULL}] /\ saved_eip \in [Procs -> Tokens \cup {NULL}]

LEMMA EntryToken ==
    ASSUME NEW p \in Programs
    PROVE  Token(p, 0) \in Tokens
BY ProcessAssumption DEF Token, Tokens

LEMMA JumpType ==
    ASSUME NEW p \in Programs, jump_to_usermode(p)
    PROVE  mode' \in {"shell", "user"} /\ cpu' \in [gp : Tokens, eip : Tokens, esp : Tokens]
BY EntryToken DEF jump_to_usermode

LEMMA RestoreType ==
    ASSUME cpu \in [gp : Tokens, eip : Tokens, esp : Tokens], NEW p \in Procs,
           regs' \in [Procs -> Tokens \cup {NULL}], saved_eip' \in [Procs -> Tokens \cup {NULL}],
           RestoreFrame(p)
    PROVE  cpu' \in [gp : Tokens, eip : Tokens, esp : Tokens]
<1>1. Token(p, 0) \in Tokens
  BY EntryToken DEF Programs
<1>2. PICK g, e : /\ g = IF regs'[p] = NULL THEN Token(p, 0) ELSE regs'[p]
                  /\ e = IF saved_eip'[p] = NULL THEN Token(p, 0) ELSE saved_eip'[p]
  OBVIOUS
<1>3. g \in Tokens /\ e \in Tokens
  BY <1>1, <1>2
<1>4. cpu' = [cpu EXCEPT !.gp = g, !.eip = e]
  BY <1>2 DEF RestoreFrame
<1> QED BY <1>3, <1>4

\* A turn runs a process; it runs p when nobody else is waiting.
LEMMA TurnRuns ==
    ASSUME QueueInv, NEW p \in Procs, state[p] # "READY", enqueue_then_dequeue(p)
    PROVE  curr_proc' \in Procs /\ (fifo = <<>> => curr_proc' = p /\ fifo' = <<>>)
<1>1. fifo \in Seq(Procs)
  BY DEF QueueInv
<1>2. PICK s : s = Append(fifo, p)
  OBVIOUS
<1>3. curr_proc' = Head(s) /\ fifo' = Tail(s)
  BY <1>2, TurnStep DEF RQ!Turn
<1>4. s \in Seq(Procs) /\ s # <<>>
  BY <1>1, <1>2
<1>5. CASE fifo = <<>>
  <2>1. s = <<p>>
    BY <1>2, <1>5
  <2> QED BY <1>3, <2>1
<1> QED BY <1>3, <1>4, <1>5

LEMMA CurrentNotReady ==
    ASSUME QueueInv, curr_proc # NULL
    PROVE  curr_proc \in Procs /\ state[curr_proc] # "READY"
BY DEF QueueInv, PcbOrNull, StateMatchesQueue

LEMMA DequeueRuns ==
    ASSUME QueueInv, proc_dequeue
    PROVE  curr_proc' \in Procs
BY ProcessAssumption DEF QueueInv, proc_dequeue, QueueType, PcbOrNull

LEMMA RegsStep ==
    ASSUME QueueInv, RegsType, [ApiNext]_vars
    PROVE  RegsType'
<1>1. Procs \subseteq Programs /\ "run" \in Programs
  BY DEF Programs
<1>2. ASSUME NEW p \in Procs, NewPcb(p)
      PROVE  pid' \in [Procs -> Nat] /\ next_pid' \in Nat /\ state[p] # "READY"
  BY <1>2 DEF NewPcb, RegsType
<1>3. ASSUME NEW p \in Procs, spawn(p) PROVE RegsType'
  <2>1. curr_proc' \in Programs
    BY <1>1, <1>2, <1>3, TurnRuns DEF spawn
  <2>2. mode' \in {"shell", "user"} /\ cpu' \in [gp : Tokens, eip : Tokens, esp : Tokens]
    BY <1>3, <2>1, JumpType DEF spawn
  <2> QED BY <1>2, <1>3, <2>2 DEF spawn, RegsType
<1>4. CASE spawn_fails \/ UNCHANGED vars
  BY <1>4 DEF spawn_fails, vars, RegsType
<1>5. CASE run
  BY <1>1, <1>5, JumpType DEF run, RegsType
<1>6. CASE user_step
  <2>1. PICK g, e : /\ g = [cpu.gp EXCEPT !.k = @ + 1] /\ e = [cpu.eip EXCEPT !.k = @ + 1]
                    /\ cpu' = [cpu EXCEPT !.eip = e, !.gp = g]
    BY <1>6 DEF user_step, RegsType
  <2>2. g \in Tokens /\ e \in Tokens
    BY <1>6, <2>1, ProcessAssumption DEF user_step, RegsType, Tokens
  <2> QED BY <1>6, <2>1, <2>2 DEF user_step, RegsType
<1>7. CASE sys_yield
  <2>1. curr_proc \in Procs /\ curr_proc' \in Procs
    BY <1>7, TurnRuns, CurrentNotReady DEF sys_yield
  <2>2. /\ regs' \in [Procs -> Tokens \cup {NULL}]
        /\ saved_eip' \in [Procs -> Tokens \cup {NULL}]
    BY <1>7, <2>1 DEF sys_yield, SaveFrame, RegsType
  <2>3. cpu' \in [gp : Tokens, eip : Tokens, esp : Tokens]
    BY <1>7, <2>1, <2>2, RestoreType DEF sys_yield, RegsType
  <2> QED BY <1>7, <2>2, <2>3 DEF sys_yield, RegsType
<1>8. CASE sys_yield_no_process
  <2>1. CASE proc_dequeue /\ RestoreFrame(curr_proc')
    <3>1. cpu' \in [gp : Tokens, eip : Tokens, esp : Tokens]
      BY <1>8, <2>1, DequeueRuns, RestoreType DEF sys_yield_no_process, RegsType
    <3> QED BY <1>8, <3>1 DEF sys_yield_no_process, RegsType
  <2>2. CASE UNCHANGED cpu
    BY <1>8, <2>2 DEF sys_yield_no_process, RegsType
  <2> QED BY <1>8, <2>1, <2>2 DEF sys_yield_no_process
<1>9. CASE sys_exit
  BY <1>9 DEF sys_exit, RegsType
<1>10. ASSUME NEW p \in Procs, task_create_from_elf(p) PROVE RegsType'
  BY <1>2, <1>10 DEF task_create_from_elf, RegsType
<1>11. CASE proc_yield
  BY <1>11 DEF proc_yield, RegsType
<1>12. CASE schedule
  <2>1. curr_proc' \in Procs
    BY <1>12, TurnRuns, DequeueRuns, CurrentNotReady DEF schedule
  <2>2. mode' \in {"shell", "user"} /\ cpu' \in [gp : Tokens, eip : Tokens, esp : Tokens]
    BY <1>1, <1>12, <2>1, JumpType DEF schedule
  <2> QED BY <1>12, <2>2 DEF schedule, RegsType
<1> QED
  BY <1>3, <1>4, <1>5, <1>6, <1>7, <1>8, <1>9, <1>10, <1>11, <1>12 DEF ApiNext, TasksNext, Next

LEMMA RegsInit == Init => RegsType
<1>1. Token("run", 0) \in Tokens
  BY EntryToken DEF Programs
<1> QED BY <1>1 DEF Init, RegsType

\* The PCBs, the queue and the registers are well typed under every use of the exported
\* functions: no resumed frame holds a null pointer or the registers of no program.
THEOREM TypeOKThm == ApiSpec => []TypeOK
<1>1. QueueInv /\ RegsType => TypeOK
  BY DEF QueueInv, QueueType, RegsType, TypeOK
<1> QED BY <1>1, QueueInvInit, QueueInvStep, RegsInit, RegsStep, PTL DEF ApiSpec

\* The shell's commands leave nobody in the queue.
LEMMA QueueEmptyStep ==
    ASSUME QueueInv, fifo = <<>>, [Next]_vars
    PROVE  fifo' = <<>>
<1>1. ASSUME NEW p \in Procs, spawn(p) PROVE fifo' = <<>>
  <2>1. state[p] # "READY" /\ enqueue_then_dequeue(p)
    BY <1>1 DEF spawn, NewPcb
  <2> QED BY <2>1, TurnRuns
<1>2. CASE spawn_fails \/ run \/ user_step \/ sys_exit \/ UNCHANGED vars
  BY <1>2 DEF spawn_fails, run, user_step, sys_exit, vars
<1>3. CASE sys_yield
  BY <1>3, TurnRuns, CurrentNotReady DEF sys_yield
<1>4. CASE sys_yield_no_process
  BY <1>4 DEF sys_yield_no_process, proc_dequeue, QueueInv, ListIsFifo, IsList
<1> QED BY <1>1, <1>2, <1>3, <1>4 DEF Next

\* With nobody in the queue a yield resumes its caller, with the registers it had.
LEMMA YieldResumesCaller ==
    ASSUME QueueInv, RegsType, fifo = <<>>, sys_yield \/ sys_yield_no_process
    PROVE  cpu' = cpu
<1>1. CASE sys_yield
  <2>1. curr_proc \in Procs /\ curr_proc' = curr_proc
    BY <1>1, TurnRuns, CurrentNotReady DEF sys_yield
  <2>2. cpu.gp # NULL /\ cpu.eip # NULL
    BY ProcessAssumption DEF RegsType
  <2>3. regs'[curr_proc] = cpu.gp /\ saved_eip'[curr_proc] = cpu.eip
    BY <1>1, <2>1 DEF sys_yield, SaveFrame, RegsType
  <2>4. cpu' = [cpu EXCEPT !.gp = cpu.gp, !.eip = cpu.eip]
    BY <1>1, <2>1, <2>2, <2>3 DEF sys_yield, RestoreFrame
  <2> QED BY <2>4 DEF RegsType
<1>2. CASE sys_yield_no_process
  BY <1>2 DEF sys_yield_no_process, proc_dequeue, QueueInv, ListIsFifo, IsList
<1> QED BY <1>1, <1>2

\* Whatever sequence of run and spawn came before, also when curr_proc is still the
\* process of a program that has exited, SYS_YIELD comes back to its caller.
THEOREM YieldComesBackThm == Spec => [][YieldComesBack]_vars
<1> DEFINE Inv == QueueInv /\ RegsType /\ fifo = <<>>
<1>1. Init => Inv
  BY QueueInvInit, RegsInit DEF Init
<1>2. Inv /\ [Next]_vars => Inv'
  <2>1. [Next]_vars => [ApiNext]_vars
    BY DEF ApiNext, TasksNext
  <2> QED BY <2>1, QueueInvStep, RegsStep, QueueEmptyStep
<1>3. Inv /\ [Next]_vars => [YieldComesBack]_vars
  BY YieldResumesCaller DEF YieldComesBack
<1> HIDE DEF Inv
<1> QED BY <1>1, <1>2, <1>3, PTL DEF Spec

\* The same where it is settled at the start whether the functions that the headers export
\* are called: without them, SYS_YIELD comes back to its caller.
THEOREM ShellYieldComesBackThm == MCSpec => ShellYieldComesBack
<1> DEFINE Inv == QueueInv /\ RegsType /\ (~exported => fifo = <<>>)
           mcvars == <<vars, exported>>
<1>1. MCInit => Inv
  BY QueueInvInit, RegsInit DEF MCInit, Init
<1>2. Inv /\ [MCNext]_mcvars => Inv'
  <2> SUFFICES ASSUME Inv, [MCNext]_mcvars PROVE Inv'
    OBVIOUS
  <2>1. [ApiNext]_vars /\ exported' = exported /\ (~exported => [Next]_vars)
    BY DEF MCNext, ApiNext, TasksNext
  <2> QED BY <2>1, QueueInvStep, RegsStep, QueueEmptyStep
<1>3. Inv /\ [MCNext]_mcvars => [~exported => YieldComesBack]_mcvars
  BY YieldResumesCaller DEF YieldComesBack
<1> HIDE DEF Inv
<1> QED BY <1>1, <1>2, <1>3, PTL DEF MCSpec, ShellYieldComesBack
=============================================================================
