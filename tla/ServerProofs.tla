---------------------------- MODULE ServerProofs -----------------------------
(* Proofs about Server, for every number of connections, descriptors and   *)
(* workers, every length of the queue and whatever may happen.             *)
EXTENDS Server, FiniteSetTheorems, TLAPS

(* A task that is taken leaves a queue without it; one that is queued      *)
(* comes after the others.                                                 *)
LEMMA AppendFacts ==
  ASSUME NEW S, NEW q \in Seq(S), NEW x \in S
  PROVE  /\ Append(q, x) \in Seq(S) /\ Len(Append(q, x)) = Len(q) + 1
         /\ DOMAIN Append(q, x) = 1 .. Len(q) + 1 /\ DOMAIN q = 1 .. Len(q) /\ Len(q) \in Nat
         /\ \A i \in 1 .. Len(q) : Append(q, x)[i] = q[i]
         /\ Append(q, x)[Len(q) + 1] = x
  OBVIOUS

LEMMA TailFacts ==
  ASSUME NEW S, NEW q \in Seq(S), q # <<>>
  PROVE  /\ Tail(q) \in Seq(S) /\ Len(Tail(q)) = Len(q) - 1 /\ Head(q) \in S
         /\ DOMAIN Tail(q) = 1 .. Len(q) - 1 /\ DOMAIN q = 1 .. Len(q) /\ Len(q) \in Nat \ {0}
         /\ \A i \in 1 .. Len(q) - 1 : Tail(q)[i] = q[i + 1]
         /\ Head(q) = q[1]
  OBVIOUS

Distinct(q) == \A i, j \in DOMAIN q : q[i] = q[j] => i = j
Items(q) == {q[i] : i \in DOMAIN q}

LEMMA AppendDistinct ==
  ASSUME NEW S, NEW q \in Seq(S), NEW x \in S, Distinct(q), x \notin Items(q)
  PROVE  Distinct(Append(q, x)) /\ Items(Append(q, x)) = Items(q) \cup {x}
  <1>1. Distinct(Append(q, x))
    BY AppendFacts DEF Distinct, Items
  <1>2. Items(Append(q, x)) = Items(q) \cup {x}
    BY AppendFacts DEF Items
  <1>3. QED
    BY <1>1, <1>2

LEMMA TailDistinct ==
  ASSUME NEW S, NEW q \in Seq(S), q # <<>>, Distinct(q)
  PROVE  /\ Distinct(Tail(q)) /\ Head(q) \in Items(q) /\ Head(q) \notin Items(Tail(q))
         /\ Items(q) = Items(Tail(q)) \cup {Head(q)}
  <1>1. \A i \in DOMAIN Tail(q) : i + 1 \in DOMAIN q /\ Tail(q)[i] = q[i + 1] /\ i \in Nat
    BY TailFacts
  <1>2. Distinct(Tail(q))
    BY <1>1 DEF Distinct
  <1>3. 1 \in DOMAIN q /\ Head(q) = q[1]
    BY TailFacts
  <1>4. Head(q) \notin Items(Tail(q))
    BY <1>1, <1>3 DEF Distinct, Items
  <1>5. \A i \in DOMAIN q : i = 1 \/ (i - 1 \in DOMAIN Tail(q) /\ q[i] = Tail(q)[i - 1])
    BY TailFacts
  <1>6. Items(Tail(q)) \subseteq Items(q)
    BY <1>1 DEF Items
  <1>7. Items(q) \subseteq Items(Tail(q)) \cup {Head(q)}
    BY <1>3, <1>5 DEF Items
  <1>8. QED
    BY <1>2, <1>3, <1>4, <1>6, <1>7 DEF Items
-----------------------------------------------------------------------------
(* The descriptors that belong to the main thread, to the queue and to the *)
(* workers, each one time, and what the table of clients has of them.      *)
ServerInv == TypeOK /\ OneOwner /\ TableMatches

(* The step of a worker, worker by worker.                                 *)
Moves(w, next, d) ==
  \A v \in Workers :
    /\ pc'[v] = IF v = w THEN next ELSE pc[v]
    /\ task'[v] = IF v = w THEN d ELSE task[v]
WorkerTypes ==
  /\ pc \in [Workers -> {"asleep", "awake"} \cup Serving]
  /\ task \in [Workers -> Fds \cup {NoFd}]
  /\ \A w \in Workers : task[w] # NoFd <=> pc[w] \in Serving

LEMMA WorkerMoves ==
  ASSUME TypeOK, NEW w \in Workers, NEW next \in {"asleep", "awake"} \cup Serving,
         NEW d \in Fds \cup {NoFd}, d # NoFd <=> next \in Serving,
         pc' = [pc EXCEPT ![w] = next], task' = [task EXCEPT ![w] = d]
  PROVE  WorkerTypes' /\ Moves(w, next, d)
  BY DEF TypeOK, WorkerTypes, Moves

LEMMA AdvanceDoes ==
  ASSUME TypeOK, NEW w \in Workers, pc[w] \in Serving, NEW next \in Serving, Advance(w, next)
  PROVE  WorkerTypes' /\ Moves(w, next, task[w]) /\ task[w] \in Fds \ {NoFd}
  BY ServerAssumption DEF TypeOK, WorkerTypes, Advance, Moves, pool

LEMMA LeaveDoes ==
  ASSUME TypeOK, NEW w \in Workers, pc[w] \in Serving, Leave(w)
  PROVE  WorkerTypes' /\ Moves(w, "awake", NoFd) /\ task[w] \in Fds \ {NoFd}
  BY ServerAssumption DEF TypeOK, WorkerTypes, Leave, Moves, Serving

LEMMA InvAccept ==
  ASSUME ServerInv, Accept PROVE ServerInv'
  <1> USE ServerAssumption DEF Accept, ServerInv, pool
  <1>1. PICK c \in Conns, d \in Fds \ Open :
          /\ conn' = [conn EXCEPT ![c] = "open"] /\ fd' = [fd EXCEPT ![d] = c] /\ mainFd' = d
    OBVIOUS
  <1>2. TypeOK'
    BY <1>1 DEF TypeOK
  <1>3. Open' = Open \cup {d} /\ d # NoFd
    <2>1. \A e \in Fds : fd'[e] = IF e = d THEN c ELSE fd[e]
      BY <1>1 DEF TypeOK
    <2>2. Open' = Open \cup {d}
      BY <2>1 DEF Open
    <2>3. QED
      BY <2>2
  <1>4. OneOwner'
    BY <1>1, <1>2, <1>3 DEF TypeOK, OneOwner, Owned, Queued
  <1>5. TableMatches'
    BY <1>1, <1>3 DEF TypeOK, TableMatches, OneOwner, Owned, Serving
  <1>6. QED
    BY <1>2, <1>4, <1>5

LEMMA InvAddClient ==
  ASSUME ServerInv, AddClient PROVE ServerInv'
  <1> USE ServerAssumption DEF AddClient, ServerInv, pool
  <1>1. TypeOK' /\ Open' = Open
    BY DEF TypeOK, Open
  <1>2. OneOwner'
    BY <1>1 DEF OneOwner, Owned, Queued
  <1>3. TableMatches'
    BY <1>1 DEF TypeOK, TableMatches, OneOwner, Owned, Serving
  <1>4. QED
    BY <1>1, <1>2, <1>3

LEMMA InvEnqueue ==
  ASSUME ServerInv, Enqueue PROVE ServerInv'
  <1> USE ServerAssumption DEF Enqueue, ServerInv, net, loop
  <1>1. CASE Len(queue) >= QueueMax
    <2>1. TypeOK' /\ Open' = Open
      BY <1>1 DEF TypeOK, Open
    <2>2. QED
      BY <1>1, <2>1 DEF TypeOK, OneOwner, TableMatches, Owned, Queued
  <1>2. CASE Len(queue) < QueueMax
    <2>1. /\ queue' = Append(queue, mainFd) /\ mainFd \in Fds /\ queue \in Seq(Fds)
          /\ mainFd \notin Items(queue) /\ Distinct(queue)
      BY <1>2 DEF TypeOK, OneOwner, Items, Distinct, Queued
    <2>2. queue' \in Seq(Fds) /\ Len(queue') <= QueueMax
      BY <1>2, <2>1, AppendFacts DEF TypeOK
    <2>3. WorkerTypes' /\ \A v \in Workers : task'[v] = task[v]
            /\ (pc[v] = "close" <=> pc'[v] = "close")
      BY <1>2 DEF TypeOK, WorkerTypes, Serving, Asleep
    <2>4. TypeOK' /\ Open' = Open /\ mainFd' = NoFd
      BY <1>2, <2>2, <2>3 DEF TypeOK, WorkerTypes, Open
    <2>5. Queued' = Queued \cup {mainFd} /\ Distinct(queue')
      <3>1. Queued = Items(queue) /\ Queued' = Items(queue')
        BY DEF Queued, Items
      <3>2. QED
        BY <2>1, <3>1, AppendDistinct
    <2>6. OneOwner'
      <3>1. Owned' = Owned \cup {NoFd} /\ NoFd \notin Queued'
        <4>1. NoFd \notin Queued /\ NoFd # mainFd
          <5>1. \A i \in DOMAIN queue : queue[i] \in Fds
            BY <2>1
          <5>2. QED
            BY <2>1, <5>1 DEF Queued
        <4>2. Owned' = Queued' \cup {NoFd} \cup {task[v] : v \in Workers}
          BY <2>3, <2>4 DEF Owned
        <4>3. QED
          BY <2>5, <4>1, <4>2 DEF Owned
      <3>2. \A v \in Workers : task'[v] # NoFd =>
              task'[v] \notin Queued' /\ \A u \in Workers : task'[u] = task'[v] => u = v
        BY <2>3, <2>5 DEF OneOwner
      <3>3. QED
        BY <2>4, <2>5, <3>1, <3>2 DEF OneOwner, Distinct
    <2>7. TableMatches'
      BY <1>2, <2>3, <2>4 DEF TypeOK, TableMatches
    <2>8. QED
      BY <2>4, <2>6, <2>7
  <1>3. QED
    BY <1>1, <1>2

LEMMA InvTake ==
  ASSUME ServerInv, NEW w \in Workers, Take(w) PROVE ServerInv'
  <1> USE ServerAssumption DEF Take, ServerInv, net, loop
  <1>1. CASE queue # <<>>
    <2>1. /\ queue' = Tail(queue) /\ queue \in Seq(Fds) /\ Distinct(queue)
          /\ pc[w] = "awake"
      BY <1>1 DEF TypeOK, OneOwner, Distinct
    <2>2. queue' \in Seq(Fds) /\ Len(queue') <= QueueMax /\ Head(queue) \in Fds
      BY <1>1, <2>1, TailFacts DEF TypeOK
    <2>3. WorkerTypes' /\ Moves(w, "read", Head(queue))
      <3>1. pc' = [pc EXCEPT ![w] = "read"] /\ task' = [task EXCEPT ![w] = Head(queue)]
        BY <1>1
      <3>2. Head(queue) \in Fds \cup {NoFd} /\ Head(queue) # NoFd /\ "read" \in Serving
        BY <2>2 DEF Serving
      <3>3. QED
        BY <3>1, <3>2, WorkerMoves
    <2>4. TypeOK' /\ Open' = Open
      BY <1>1, <2>2, <2>3 DEF TypeOK, WorkerTypes, Open
    <2>5. /\ Queued = Queued' \cup {Head(queue)} /\ Head(queue) \notin Queued'
          /\ Distinct(queue')
      <3>1. Queued = Items(queue) /\ Queued' = Items(queue')
        BY DEF Queued, Items
      <3>2. QED
        BY <1>1, <2>1, <3>1, TailDistinct
    <2>6. OneOwner'
      BY <2>1, <2>2, <2>3, <2>4, <2>5 DEF TypeOK, OneOwner, Owned, Distinct, Moves
    <2>7. TableMatches'
      <3>1. UNCHANGED <<clients, main, mainFd>>
        BY <1>1
      <3>2. {task[v] : v \in {x \in Workers : pc[x] = "close"}}' =
              {task[v] : v \in {x \in Workers : pc[x] = "close"}}
        BY <2>1, <2>3 DEF Moves
      <3>3. QED
        BY <2>4, <3>1, <3>2 DEF TableMatches
    <2>8. QED
      BY <2>4, <2>6, <2>7
  <1>2. CASE queue = <<>>
    <2>1. WorkerTypes' /\ task' = task /\ \A v \in Workers : pc'[v] = "close" <=> pc[v] = "close"
      BY <1>2 DEF TypeOK, WorkerTypes, Serving
    <2>2. TypeOK' /\ Open' = Open
      BY <1>2, <2>1 DEF TypeOK, WorkerTypes, Open
    <2>3. QED
      BY <1>2, <2>1, <2>2 DEF OneOwner, TableMatches, Owned, Queued
  <1>3. QED
    BY <1>1, <1>2

(* A worker goes on with its request; only RemoveClient and Close change   *)
(* what the table of clients and the kernel have of its descriptor.        *)
LEMMA InvServe ==
  ASSUME ServerInv, NEW w \in Workers, Read(w) \/ Handle(w) \/ Write(w) PROVE ServerInv'
  <1> USE ServerAssumption DEF ServerInv, Serving, net, loop
  <1>1. /\ conn' \in [Conns -> {"new", "backlog", "open", "answered", "closed", "dropped"}]
        /\ UNCHANGED <<server, hung, fd, clients, loop, queue>>
    BY DEF Read, Handle, Write, Advance, Leave, TypeOK, OneOwner, Open, Owned
  <1>2. /\ pc[w] \in {"read", "handle", "write"}
        /\ \/ \E next \in Serving \ {"close"} : Advance(w, next)
           \/ Leave(w)
    BY DEF Read, Handle, Write
  <1>3. /\ WorkerTypes'
        /\ \A v \in Workers \ {w} : pc'[v] = pc[v] /\ task'[v] = task[v]
        /\ pc'[w] # "close" /\ task'[w] \in {task[w], NoFd}
    BY <1>2, AdvanceDoes, LeaveDoes DEF Moves
  <1>4. TypeOK' /\ Open' = Open /\ Queued' = Queued
    BY <1>1, <1>3 DEF TypeOK, WorkerTypes, Open, Queued
  <1>5. OneOwner'
    BY <1>1, <1>3, <1>4 DEF OneOwner, Owned
  <1>6. TableMatches'
    BY <1>1, <1>2, <1>3, <1>4 DEF TableMatches
  <1>7. QED
    BY <1>4, <1>5, <1>6

LEMMA InvRemoveClient ==
  ASSUME ServerInv, NEW w \in Workers, RemoveClient(w) PROVE ServerInv'
  <1> USE ServerAssumption DEF RemoveClient, ServerInv, loop
  <1>1. WorkerTypes' /\ Moves(w, "close", task[w]) /\ task[w] \in Fds \ {NoFd}
    BY AdvanceDoes DEF Serving
  <1>2. UNCHANGED <<server, conn, hung, fd, loop, queue>> /\ pc[w] = "remove"
    BY DEF Advance
  <1>3. TypeOK' /\ Open' = Open /\ Queued' = Queued
    <2>1. Open' = Open /\ Queued' = Queued
      BY <1>2 DEF Open, Queued
    <2>2. TypeOK'
      BY <1>1, <1>2 DEF TypeOK, WorkerTypes
    <2>3. QED
      BY <2>1, <2>2
  <1>4. OneOwner'
    BY <1>1, <1>2, <1>3 DEF OneOwner, Owned, Moves
  <1>5. TableMatches'
    BY <1>1, <1>2, <1>3 DEF TableMatches, Moves
  <1>6. QED
    BY <1>3, <1>4, <1>5

LEMMA InvClose ==
  ASSUME ServerInv, NEW w \in Workers, Close(w) PROVE ServerInv'
  <1> USE ServerAssumption DEF Close, ServerInv, loop
  <1>1. /\ WorkerTypes' /\ Moves(w, "awake", NoFd) /\ task[w] \in Fds \ {NoFd}
        /\ task[w] \in Open
    BY LeaveDoes DEF Serving, OneOwner, Owned
  <1>2. UNCHANGED <<server, hung, clients, loop, queue>> /\ pc[w] = "close"
    BY DEF Leave
  <1>3. fd[task[w]] \in Conns /\ \A d \in Fds : fd'[d] = IF d = task[w] THEN NoConn ELSE fd[d]
    BY <1>1 DEF Shut, TypeOK, Open
  <1>4. Open' = Open \ {task[w]} /\ Queued' = Queued
    <2>1. Open' = Open \ {task[w]}
      BY <1>3 DEF Open
    <2>2. Queued' = Queued
      BY <1>2 DEF Queued
    <2>3. QED
      BY <2>1, <2>2
  <1>5. /\ conn' \in [Conns -> {"new", "backlog", "open", "answered", "closed", "dropped"}]
        /\ fd' \in [Fds -> Conns \cup {NoConn}]
    BY <1>1, <1>3 DEF Shut, TypeOK
  <1>6. TypeOK'
    BY <1>1, <1>2, <1>5 DEF TypeOK, WorkerTypes
  <1>7. OneOwner'
    BY <1>1, <1>2, <1>4 DEF OneOwner, Owned, Moves
  <1>8. TableMatches'
    BY <1>1, <1>2, <1>4 DEF TableMatches, OneOwner, Moves
  <1>9. QED
    BY <1>6, <1>7, <1>8

LEMMA InvWakeSpuriously ==
  ASSUME ServerInv, NEW w \in Workers, WakeSpuriously(w) PROVE ServerInv'
  <1> USE ServerAssumption DEF WakeSpuriously, ServerInv, net, loop
  <1>1. WorkerTypes' /\ task' = task /\ \A v \in Workers : pc'[v] = "close" <=> pc[v] = "close"
    BY DEF TypeOK, WorkerTypes, Serving
  <1>2. TypeOK' /\ Open' = Open
    BY <1>1 DEF TypeOK, WorkerTypes, Open
  <1>3. QED
    BY <1>1, <1>2 DEF OneOwner, TableMatches, Owned, Queued

LEMMA InvOutside ==
  ASSUME ServerInv, Stop \/ (\E c \in Conns : Connect(c) \/ HangUp(c)) PROVE ServerInv'
  <1> USE ServerAssumption DEF ServerInv, net, loop, pool
  <1>1. /\ UNCHANGED <<fd, clients, loop, pool>>
        /\ server' \in {"running", "stopped", "terminated"} /\ hung' \subseteq Conns
        /\ conn' \in [Conns -> {"new", "backlog", "open", "answered", "closed", "dropped"}]
    BY DEF Stop, Connect, HangUp, TypeOK
  <1>2. TypeOK' /\ Open' = Open
    BY <1>1 DEF TypeOK, Open
  <1>3. QED
    BY <1>1, <1>2 DEF OneOwner, TableMatches, Owned, Queued

LEMMA ServerInvHolds == Spec => []ServerInv
  <1>1. Init => ServerInv
    <2> USE ServerAssumption DEF Init
    <2>1. Init => TypeOK
      BY DEF TypeOK, Serving
    <2>2. Init => Open = {} /\ Owned \subseteq {NoFd} /\ Queued = {}
      BY DEF Open, Owned, Queued
    <2>3. QED
      BY <2>1, <2>2 DEF ServerInv, OneOwner, TableMatches
  <1>2. ServerInv /\ [Next]_vars => ServerInv'
    <2>1. ASSUME ServerInv, UNCHANGED vars PROVE ServerInv'
      BY <2>1 DEF vars, net, loop, pool, ServerInv, TypeOK, OneOwner, TableMatches, Owned,
         Queued, Open
    <2>2. QED
      BY <2>1, InvAccept, InvAddClient, InvEnqueue, InvTake, InvServe, InvRemoveClient, InvClose,
         InvWakeSpuriously, InvOutside
      DEF Next, Run, Work
  <1>3. QED
    BY <1>1, <1>2, PTL DEF Spec

(* The tables and the locals of the threads have their types: a descriptor *)
(* is held exactly where the code holds one.                               *)
THEOREM TypeCorrect == Spec => []TypeOK
  BY ServerInvHolds, PTL DEF ServerInv

(* A descriptor in use has one owner, however many connections are open,   *)
(* although it is given to another connection as soon as it is closed.     *)
THEOREM OwnersAlone == Spec => []OneOwner
  BY ServerInvHolds, PTL DEF ServerInv

(* The table of clients loses no entry to the removal of an earlier user   *)
(* of the same descriptor, whether handlers throw or clients hang up.      *)
THEOREM TableComplete == Spec => []TableMatches
  BY ServerInvHolds, PTL DEF ServerInv

-----------------------------------------------------------------------------
(* The number of workers that are awake, as one of them falls asleep, is   *)
(* woken or comes back from its request.                                   *)
LEMMA AwakeCounted ==
  /\ IsFiniteSet(Awake) /\ Cardinality(Awake) \in Nat
  /\ \A w \in Workers \ Awake : Cardinality(Awake \cup {w}) = Cardinality(Awake) + 1
  /\ \A w \in Awake : Cardinality(Awake \ {w}) = Cardinality(Awake) - 1
  <1>1. IsFiniteSet(Awake)
    BY ServerAssumption, FS_Subset DEF Awake
  <1>2. QED
    BY <1>1, FS_CardinalityType, FS_AddElement, FS_RemoveElement

LEMMA EnqueueWakes ==
  ASSUME TypeOK, NoTaskForgotten, Enqueue PROVE NoTaskForgotten'
  <1>1. CASE Len(queue) >= QueueMax
    <2>1. UNCHANGED <<queue, pc>>
      BY <1>1, ServerAssumption DEF Enqueue, TypeOK, loop
    <2>2. QED
      BY <2>1 DEF NoTaskForgotten, Asleep, Awake
  <1>2. CASE Len(queue) < QueueMax /\ Asleep = {}
    BY <1>2, ServerAssumption DEF Enqueue, TypeOK, NoTaskForgotten, Asleep
  <1>3. CASE Len(queue) < QueueMax /\ Asleep # {}
    <2>1. PICK w \in Asleep : pc' = [pc EXCEPT ![w] = "awake"]
      BY <1>3, ServerAssumption DEF Enqueue, TypeOK
    <2>2. Awake' = Awake \cup {w} /\ w \in Workers \ Awake
      BY <2>1 DEF TypeOK, Asleep, Awake
    <2>3. Cardinality(Awake') = Cardinality(Awake) + 1 /\ Cardinality(Awake) \in Nat
      BY <2>2, AwakeCounted
    <2>4. Len(queue') = Len(queue) + 1 /\ Len(queue) \in Nat
      BY <1>3, ServerAssumption, AppendFacts DEF Enqueue, TypeOK
    <2>5. QED
      BY <1>3, <2>3, <2>4 DEF NoTaskForgotten
  <1>4. QED
    BY <1>1, <1>2, <1>3, ServerAssumption DEF TypeOK

LEMMA TakeKeepsCount ==
  ASSUME TypeOK, NoTaskForgotten, NEW w \in Workers, Take(w) PROVE NoTaskForgotten'
  <1>1. CASE queue = <<>>
    <2>1. Len(queue') = 0
      BY <1>1 DEF Take
    <2>2. Cardinality(Awake') \in Nat
      BY ServerAssumption, FS_Subset, FS_CardinalityType DEF Awake
    <2>3. QED
      BY <2>1, <2>2 DEF NoTaskForgotten
  <1>2. CASE queue # <<>>
    <2>1. Awake' = Awake \ {w} /\ w \in Awake /\ Asleep' = Asleep
      BY <1>2 DEF Take, TypeOK, Awake, Asleep
    <2>2. Cardinality(Awake') = Cardinality(Awake) - 1 /\ Cardinality(Awake) \in Nat
      BY <2>1, AwakeCounted
    <2>3. Len(queue') = Len(queue) - 1 /\ Len(queue) \in Nat
      BY <1>2, TailFacts DEF Take, TypeOK
    <2>4. QED
      BY <2>1, <2>2, <2>3 DEF NoTaskForgotten
  <1>3. QED
    BY <1>1, <1>2

(* No other step puts a worker to sleep, takes one that is awake away or   *)
(* makes the queue longer.                                                 *)
LEMMA OthersKeepCount ==
  ASSUME TypeOK, NoTaskForgotten, queue' = queue, Asleep' \subseteq Asleep, Awake \subseteq Awake'
  PROVE  NoTaskForgotten'
  <1>1. Cardinality(Awake) <= Cardinality(Awake') /\ Cardinality(Awake) \in Nat
          /\ Cardinality(Awake') \in Nat
    BY ServerAssumption, FS_Subset, FS_CardinalityType DEF Awake
  <1>2. Len(queue) \in Nat
    BY DEF TypeOK
  <1>3. QED
    BY <1>1, <1>2 DEF NoTaskForgotten

LEMMA CountStep ==
  ASSUME TypeOK, NoTaskForgotten, [Next]_vars PROVE NoTaskForgotten'
  <1>1. ASSUME NEW w \in Workers, Read(w) \/ Handle(w) \/ Write(w) \/ RemoveClient(w) \/ Close(w)
        PROVE  NoTaskForgotten'
    <2>1. queue' = queue /\ Asleep' \subseteq Asleep /\ Awake \subseteq Awake'
      BY <1>1 DEF Read, Handle, Write, RemoveClient, Close, Advance, Leave, TypeOK, Asleep, Awake
    <2>2. QED
      BY <2>1, OthersKeepCount
  <1>2. ASSUME NEW w \in Workers, WakeSpuriously(w) PROVE NoTaskForgotten'
    <2>1. queue' = queue /\ Asleep' \subseteq Asleep /\ Awake \subseteq Awake'
      BY <1>2 DEF WakeSpuriously, TypeOK, Asleep, Awake
    <2>2. QED
      BY <2>1, OthersKeepCount
  <1>3. ASSUME UNCHANGED pool PROVE NoTaskForgotten'
    BY <1>3 DEF pool, NoTaskForgotten, Asleep, Awake
  <1>4. QED
    BY <1>1, <1>2, <1>3, EnqueueWakes, TakeKeepsCount
    DEF Next, Run, Work, Accept, AddClient, Stop, Connect, HangUp, vars

(* No lost wakeup: notify_one outside the lock is enough, for every number *)
(* of workers and every length of the queue.                               *)
THEOREM NoLostWakeup == Spec => []NoTaskForgotten
  <1>1. Init => NoTaskForgotten
    BY DEF Init, NoTaskForgotten, Asleep
  <1>2. TypeOK /\ NoTaskForgotten /\ [Next]_vars => NoTaskForgotten'
    BY CountStep
  <1>3. QED
    BY <1>1, <1>2, TypeCorrect, PTL DEF Spec
=============================================================================
