------------------------------- MODULE Server --------------------------------
(***************************************************************************)
(* CloudDiskServer::run and handle_client (src/server.cpp) with ThreadPool *)
(* (include/thread_pool.h, src/thread_pool.cpp) and ClientManager          *)
(* (src/client_manager.cpp).                                               *)
(*                                                                         *)
(* The main thread accepts connections, enters their descriptors into the  *)
(* client table and queues them; the workers take them from the queue,     *)
(* serve one request each and close them.  A descriptor that is closed is  *)
(* given to the next connection.  One mutex protects the queue, another    *)
(* the table; each critical section and each system call is one step.      *)
(***************************************************************************)
EXTENDS Integers, FiniteSets, Sequences

CONSTANTS
  Conns,      \* connections that clients may open
  Fds,        \* descriptors left for connections
  Workers,    \* threads of the pool
  QueueMax,   \* max_queue_size
  Events      \* what may happen: "throw" (a handler throws), "hangup" (a client
              \* closes early), "signal" (SIGINT or SIGTERM)

NoConn == "no connection"
NoFd == 0

ASSUME ServerAssumption ==
  /\ NoConn \notin Conns
  /\ Fds \subseteq Nat \ {NoFd}
  /\ IsFiniteSet(Workers)
  /\ QueueMax \in Nat \ {0}
  /\ Events \subseteq {"throw", "hangup", "signal"}

VARIABLES
  server,    \* "running", "stopped" by exit(0), "terminated" by an exception
  conn,      \* "new", "backlog", "open", "answered", "closed", "dropped"
  hung,      \* the connections whose client has hung up
  fd,        \* the kernel's table: the connection of each descriptor
  clients,   \* the keys of ClientManager::clients_
  main,      \* where the main thread is in run
  mainFd,    \* client_fd of run
  queue,     \* ThreadPool::tasks: the descriptor that each task has captured
  pc,        \* where each worker is
  task       \* the descriptor of the task that each worker runs

net == <<conn, hung, fd, clients>>
loop == <<main, mainFd>>
pool == <<queue, pc, task>>
vars == <<server, net, loop, pool>>

Running == server = "running"
Open == {d \in Fds : fd[d] # NoConn}
Queued == {queue[i] : i \in DOMAIN queue}
Asleep == {w \in Workers : pc[w] = "asleep"}
Awake == {w \in Workers : pc[w] = "awake"}

Init ==
  /\ server = "running"
  /\ conn = [c \in Conns |-> "new"]
  /\ hung = {}
  /\ fd = [d \in Fds |-> NoConn]
  /\ clients = {}
  /\ main = "accept" /\ mainFd = NoFd
  /\ queue = <<>>
  /\ pc = [w \in Workers |-> "awake"]
  /\ task = [w \in Workers |-> NoFd]

-----------------------------------------------------------------------------
(* Clients connect; the kernel keeps them in the backlog of the socket.    *)
Connect(c) ==
  /\ Running
  /\ conn[c] = "new"
  /\ conn' = [conn EXCEPT ![c] = "backlog"]
  /\ UNCHANGED <<server, hung, fd, clients, loop, pool>>

(* A client closes its end before it has read its answer.                  *)
HangUp(c) ==
  /\ Running /\ "hangup" \in Events
  /\ conn[c] \in {"backlog", "open"}
  /\ hung' = hung \cup {c}
  /\ UNCHANGED <<server, conn, fd, clients, loop, pool>>

(* The kernel gives the lowest free descriptor; while there is none,       *)
(* accept fails and is called again.                                       *)
Accept ==
  /\ Running /\ main = "accept"
  /\ \E c \in Conns, d \in Fds \ Open :
       /\ conn[c] = "backlog"
       /\ \A e \in Fds \ Open : d <= e
       /\ conn' = [conn EXCEPT ![c] = "open"]
       /\ fd' = [fd EXCEPT ![d] = c]
       /\ mainFd' = d
  /\ main' = "add"
  /\ UNCHANGED <<server, hung, clients, pool>>

AddClient ==
  /\ Running /\ main = "add"
  /\ clients' = clients \cup {mainFd}
  /\ main' = "enqueue"
  /\ UNCHANGED <<server, conn, hung, fd, mainFd, pool>>

(* Mutations: nobody is notified; enqueue does not look at the limit.      *)
EnqueueSilently ==
  /\ Running /\ main = "enqueue"
  /\ queue' = Append(queue, mainFd)
  /\ main' = "accept" /\ mainFd' = NoFd
  /\ UNCHANGED <<server, net, pc, task>>

EnqueueUnlimited ==
  /\ Running /\ main = "enqueue"
  /\ queue' = Append(queue, mainFd)
  /\ \/ Asleep = {} /\ UNCHANGED pc
     \/ \E w \in Asleep : pc' = [pc EXCEPT ![w] = "awake"]
  /\ main' = "accept" /\ mainFd' = NoFd
  /\ UNCHANGED <<server, net, task>>

(* enqueue appends and notifies one waiting worker; on a full queue it     *)
(* throws, and neither run nor main catches the exception.                 *)
Enqueue ==
  /\ Running /\ main = "enqueue"
  /\ \/ /\ Len(queue) < QueueMax
        /\ queue' = Append(queue, mainFd)
        /\ \/ Asleep = {} /\ UNCHANGED pc
           \/ \E w \in Asleep : pc' = [pc EXCEPT ![w] = "awake"]
        /\ main' = "accept" /\ mainFd' = NoFd
        /\ UNCHANGED server
     \/ /\ Len(queue) >= QueueMax
        /\ server' = "terminated"
        /\ UNCHANGED <<queue, pc, loop>>
  /\ UNCHANGED <<net, task>>

-----------------------------------------------------------------------------
(* A mutation: the task is copied from the queue and stays there.          *)
TakeFront(w) ==
  /\ Running /\ pc[w] = "awake"
  /\ queue # <<>>
  /\ task' = [task EXCEPT ![w] = Head(queue)]
  /\ pc' = [pc EXCEPT ![w] = "read"]
  /\ UNCHANGED <<server, net, loop, queue>>

(* A worker evaluates the predicate of its wait: it takes a task or sleeps.*)
Take(w) ==
  /\ Running /\ pc[w] = "awake"
  /\ \/ /\ queue # <<>>
        /\ task' = [task EXCEPT ![w] = Head(queue)]
        /\ queue' = Tail(queue)
        /\ pc' = [pc EXCEPT ![w] = "read"]
     \/ queue = <<>> /\ pc' = [pc EXCEPT ![w] = "asleep"] /\ UNCHANGED <<queue, task>>
  /\ UNCHANGED <<server, net, loop>>

WakeSpuriously(w) ==
  /\ Running /\ pc[w] = "asleep"
  /\ pc' = [pc EXCEPT ![w] = "awake"]
  /\ UNCHANGED <<server, net, loop, queue, task>>

Advance(w, next) ==
  /\ Running
  /\ pc' = [pc EXCEPT ![w] = next]
  /\ UNCHANGED <<server, loop, queue, task>>

(* handle_client is left, by its return or by an exception.                *)
Leave(w) ==
  /\ Running
  /\ pc' = [pc EXCEPT ![w] = "awake"]
  /\ task' = [task EXCEPT ![w] = NoFd]
  /\ UNCHANGED <<server, loop, queue>>

(* The request is read to its end or to where its client closed; only a    *)
(* connection with a read error is given up at once.                       *)
Read(w) ==
  /\ pc[w] = "read"
  /\ \/ Advance(w, "handle")
     \/ fd[task[w]] \in hung /\ Advance(w, "remove")
  /\ UNCHANGED net

(* The handler gives a response or throws (std::stoi of a parameter); the  *)
(* worker catches the exception outside of handle_client.                  *)
Handle(w) ==
  /\ pc[w] = "handle"
  /\ Advance(w, "write") \/ ("throw" \in Events /\ Leave(w))
  /\ UNCHANGED net

(* A write that fails is logged, no more.                                  *)
Write(w) ==
  LET c == fd[task[w]] IN
  /\ pc[w] = "write"
  /\ Advance(w, "remove")
  /\ \/ conn' = [conn EXCEPT ![c] = "answered"]
     \/ c \in hung /\ UNCHANGED conn
  /\ UNCHANGED <<hung, fd, clients>>

RemoveClient(w) ==
  /\ pc[w] = "remove"
  /\ clients' = clients \ {task[w]}
  /\ Advance(w, "close")
  /\ UNCHANGED <<conn, hung, fd>>

Shut(w) ==
  /\ fd' = [fd EXCEPT ![task[w]] = NoConn]
  /\ conn' = [conn EXCEPT ![fd[task[w]]] = IF @ = "answered" THEN "closed" ELSE "dropped"]

Close(w) ==
  /\ pc[w] = "close"
  /\ Shut(w)
  /\ Leave(w)
  /\ UNCHANGED <<hung, clients>>

(* A mutation: the descriptor is closed before it leaves the table.        *)
WorkClosingFirst(w) ==
  \/ Take(w) \/ Read(w) \/ Handle(w) \/ Write(w)
  \/ pc[w] = "remove" /\ Shut(w) /\ Advance(w, "close") /\ UNCHANGED <<hung, clients>>
  \/ /\ pc[w] = "close" /\ clients' = clients \ {task[w]}
     /\ Leave(w) /\ UNCHANGED <<conn, hung, fd>>

Work(w) == Take(w) \/ Read(w) \/ Handle(w) \/ Write(w) \/ RemoveClient(w) \/ Close(w)

Run == Accept \/ AddClient \/ Enqueue

(* The handler of SIGINT and SIGTERM closes the listening socket and calls *)
(* exit(0): the process ends with its workers wherever they are.           *)
Stop ==
  /\ Running /\ "signal" \in Events
  /\ server' = "stopped"
  /\ UNCHANGED <<net, loop, pool>>

Next ==
  \/ Run
  \/ \E w \in Workers : Work(w) \/ WakeSpuriously(w)
  \/ \E c \in Conns : Connect(c) \/ HangUp(c)
  \/ Stop

Spec == Init /\ [][Next]_vars

(* The threads run, the handlers and the writes end, and every client      *)
(* sends its request or hangs up, which ends the reads.                    *)
FairSpec == Spec /\ WF_vars(Run) /\ \A w \in Workers : WF_vars(Work(w))

-----------------------------------------------------------------------------
Serving == {"read", "handle", "write", "remove", "close"}

(* The descriptors of the main thread, of a queued task or of a worker.    *)
Owned == Queued \cup {mainFd} \cup {task[w] : w \in Workers}

(* Types of the tables and of the threads' locals; a descriptor is held    *)
(* exactly where the code holds one.                                       *)
TypeOK ==
  /\ server \in {"running", "stopped", "terminated"}
  /\ conn \in [Conns -> {"new", "backlog", "open", "answered", "closed", "dropped"}]
  /\ hung \subseteq Conns
  /\ fd \in [Fds -> Conns \cup {NoConn}]
  /\ clients \subseteq Fds
  /\ main \in {"accept", "add", "enqueue"} /\ mainFd \in Fds \cup {NoFd}
  /\ mainFd = NoFd <=> main = "accept"
  /\ queue \in Seq(Fds) /\ Len(queue) <= QueueMax
  /\ pc \in [Workers -> {"asleep", "awake"} \cup Serving]
  /\ task \in [Workers -> Fds \cup {NoFd}]
  /\ \A w \in Workers : task[w] # NoFd <=> pc[w] \in Serving

(* A descriptor in use is open and has one owner, although descriptors are *)
(* reused at once: no two threads read, write or close one connection, and *)
(* no thread touches the connection of another request.                    *)
OneOwner ==
  /\ Owned \ {NoFd} \subseteq Open
  /\ \A i, j \in DOMAIN queue : queue[i] = queue[j] => i = j
  /\ mainFd \notin Queued
  /\ \A w \in Workers : task[w] # NoFd =>
       task[w] \notin Queued \cup {mainFd} /\ \A v \in Workers : task[v] = task[w] => v = w

(* The table of clients never loses the entry of a connection to the       *)
(* removal of the one that had its descriptor before: it has the open      *)
(* descriptors, leaked ones too, but for those on their way in or out.     *)
TableMatches ==
  clients = Open \ ({task[w] : w \in {v \in Workers : pc[v] = "close"}}
                      \cup (IF main = "add" THEN {mainFd} ELSE {}))

(* No lost wakeup: when a worker sleeps, every queued task has a worker    *)
(* that is awake, although enqueue notifies one worker, outside the lock.  *)
NoTaskForgotten == Asleep # {} => Len(queue) <= Cardinality(Awake)

(* Every connection is served as long as the server goes on and no handler *)
(* that threw has left its descriptor open.                                *)
Leaked == Open \ Owned
Served ==
  \A c \in Conns : conn[c] = "backlog" ~>
    conn[c] \in {"closed", "dropped"} \/ ~Running \/ Leaked # {}
=============================================================================
