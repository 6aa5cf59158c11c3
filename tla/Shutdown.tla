------------------------------- MODULE Shutdown -------------------------------
(***************************************************************************)
(* The end of the process: signal_handler (src/main.cpp) runs on top of    *)
(* whatever the interrupted thread is doing, logs through the mutex of     *)
(* Logger, which is not recursive, closes the listening socket and calls   *)
(* exit(0).  Logging and exit also take locks of the C library, which the  *)
(* interrupted thread may hold just as well.  Besides, the main loop may   *)
(* notice that running is false, and main then destroys the server, which  *)
(* waits for the workers.                                                  *)
(***************************************************************************)
EXTENDS Integers, Sequences

CONSTANTS
  Workers,  \* the threads of the pool
  Main,     \* the thread of main and of CloudDiskServer::run
  Signals,  \* SIGINT and SIGTERM
  Nobody,   \* owner of a lock that is free; signal of a thread's own code
  MaxCalls  \* bound: how often the threads log or allocate in their own code

ASSUME ShutdownAssumption ==
  /\ Main \notin Workers /\ Nobody \notin Workers \cup {Main} \cup Signals
  /\ MaxCalls \in Nat

Threads == Workers \cup {Main}

VARIABLES
  stack,    \* stack[t]: the code of t and the handlers on top of it
  owner,    \* the thread that holds Logger::mutex_, and that of the libc locks
  running,  \* CloudDiskServer::running
  raised,   \* the signals that were sent
  pending,  \* those that no thread has taken yet
  calls,    \* how often the threads have begun to log or to allocate
  ended,    \* has the process ended?
  trapped   \* history: has a signal interrupted a thread that held a lock?

vars == <<stack, owner, running, raised, pending, calls, ended, trapped>>

(* A frame is at a place of its code, with so many lock operations done.   *)
Frame(signal, place) == [signal |-> signal, at |-> place, done |-> 0]
Top(t) == stack[t][Len(stack[t])]
At(t, place) == ~ended /\ Top(t).at = place
Alive(t) == stack[t][1].at # "done"
Own(t) == Len(stack[t]) = 1
Home(t) == IF t = Main THEN "accept" ELSE "task"

Init ==
  /\ stack = [t \in Threads |-> <<Frame(Nobody, Home(t))>>]
  /\ owner = [l \in {"mutex", "libc"} |-> Nobody]
  /\ running = TRUE
  /\ raised = {} /\ pending = {}
  /\ calls = 0
  /\ ended = FALSE /\ trapped = FALSE

Goto(t, place) ==
  stack' = [stack EXCEPT ![t][Len(stack[t])] = Frame(@.signal, place)]

-----------------------------------------------------------------------------
(* Logger::log writes under a lock_guard.  Its caller allocates the        *)
(* message; the time, its text and the writing need the heap again.  The   *)
(* locks of the C library, those of the heap before all, count as one.     *)
(*   work     a task logs, or "Accept failed" of the main loop             *)
(*   allocate a task, or add_client and enqueue of the main loop           *)
(*   announce "Received shutdown signal..."                                *)
(*   report   "Server stopped", the last statement of stop                 *)
Take(l) == [lock |-> l, take |-> TRUE]
Give(l) == [lock |-> l, take |-> FALSE]
Allocating == <<Take("libc"), Give("libc")>>
Logging == Allocating \o <<Take("mutex")>> \o Allocating \o <<Give("mutex")>>
Script(place) ==
  CASE place = "allocate" -> Allocating
    [] place \in {"work", "announce", "report"} -> Logging
    [] OTHER -> <<>>

(* What comes after the call.                                              *)
After(t) ==
  CASE At(t, "announce") -> "stop"
    [] At(t, "report") -> IF Own(t) THEN "join" ELSE "exit"
    [] OTHER -> Home(t)

Lock(t) ==
  LET f == Top(t)
      script == Script(f.at)
      op == script[f.done + 1]
  IN  /\ ~ended /\ script # <<>>
      /\ op.take => owner[op.lock] = Nobody
      /\ owner' = [owner EXCEPT ![op.lock] = IF op.take THEN t ELSE Nobody]
      /\ IF f.done + 1 < Len(script)
         THEN stack' = [stack EXCEPT ![t][Len(stack[t])].done = @ + 1]
         ELSE Goto(t, After(t))
      /\ UNCHANGED <<running, raised, pending, calls, ended, trapped>>

(* A worker's task logs or allocates; in the main loop accept fails, or it *)
(* returns a connection to be recorded and handed to the workers.          *)
Call(t) ==
  /\ \/ At(t, "task")
     \/ At(t, "accept") /\ running
  /\ calls < MaxCalls
  /\ calls' = calls + 1
  /\ \E place \in {"work", "allocate"} : Goto(t, place)
  /\ UNCHANGED <<owner, running, raised, pending, ended, trapped>>

-----------------------------------------------------------------------------
Raise(s) ==
  /\ ~ended /\ s \notin raised
  /\ raised' = raised \cup {s}
  /\ pending' = pending \cup {s}
  /\ UNCHANGED <<stack, owner, running, calls, ended, trapped>>

(* The kernel picks a thread that is not in the handler of this signal:    *)
(* signal blocks it there, on that thread, and no other one.               *)
Deliver(t, s) ==
  /\ ~ended /\ s \in pending
  /\ Alive(t)
  /\ \A i \in DOMAIN stack[t] : stack[t][i].signal # s
  /\ pending' = pending \ {s}
  /\ stack' = [stack EXCEPT ![t] = Append(@, Frame(s, "announce"))]
  /\ trapped' = (trapped \/ \E l \in DOMAIN owner : owner[l] = t)
  /\ UNCHANGED <<owner, running, raised, calls, ended>>

(* stop: the flag and the listening socket.                                *)
Stop(t) ==
  /\ At(t, "stop")
  /\ running' = FALSE
  /\ Goto(t, "report")
  /\ UNCHANGED <<owner, raised, pending, calls, ended, trapped>>

(* A mutation: the handler leaves it to the main loop to end the process.  *)
ExitMissing(t) ==
  /\ At(t, "exit")
  /\ stack' = [stack EXCEPT ![t] = SubSeq(@, 1, Len(@) - 1)]
  /\ UNCHANGED <<owner, running, raised, pending, calls, ended, trapped>>

(* exit(0) closes the log under locks of the C library and ends the        *)
(* process, whatever the other threads do: the server object is a local of *)
(* main and is not destroyed.                                              *)
Exit(t) ==
  /\ At(t, "exit")
  /\ owner["libc"] = Nobody
  /\ ended' = TRUE
  /\ UNCHANGED <<stack, owner, running, raised, pending, calls, trapped>>

(* accept returns once more after running was set to FALSE (a connection   *)
(* that had been in the backlog): run and main return, the destructor of   *)
(* the server calls stop.  Closing the socket does not wake accept.        *)
LeaveLoop ==
  /\ At(Main, "accept") /\ Own(Main)
  /\ ~running
  /\ Goto(Main, "stop")
  /\ UNCHANGED <<owner, running, raised, pending, calls, ended, trapped>>

(* ~ThreadPool: the workers end after their tasks; main, at "join", waits  *)
(* for all of them.  It waits in vain: running became false in a handler,  *)
(* which is on a worker if main has left its loop, and does not return.    *)
FinishWorker(t) ==
  /\ t \in Workers /\ At(t, "task") /\ Own(t)
  /\ stack[Main][1].at = "join"
  /\ Goto(t, "done")
  /\ UNCHANGED <<owner, running, raised, pending, calls, ended, trapped>>

Step(t) ==
  \/ Lock(t) \/ Call(t)
  \/ Stop(t) \/ Exit(t)
  \/ FinishWorker(t)

Next ==
  \/ \E t \in Threads : Step(t) \/ \E s \in Signals : Deliver(t, s)
  \/ \E s \in Signals : Raise(s)
  \/ LeaveLoop

(* Every thread that can go on does, and a signal is delivered; nobody is  *)
(* obliged to send one, or to connect.                                     *)
Spec ==
  /\ Init /\ [][Next]_vars
  /\ \A t \in Threads : WF_vars(Step(t))
  /\ \A s \in Signals : WF_vars(\E t \in Threads : Deliver(t, s))

-----------------------------------------------------------------------------
(* A signal ends the process, wherever it interrupts which thread, also    *)
(* when a second signal meets the handler of the first or main is already  *)
(* waiting for the workers, unless it interrupted a thread inside the      *)
(* logger or the heap: the handler may then wait in vain for a lock that   *)
(* its own thread holds.                                                   *)
SignalEnds == \A s \in Signals : s \in raised ~> ended \/ trapped
=============================================================================
