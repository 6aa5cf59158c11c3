--------------------------- MODULE ConnectionPool ---------------------------
(***************************************************************************)
(* DBConnectionPool (src/database.cpp) and the way every caller uses it.   *)
(*                                                                         *)
(* get_connection lends a connection as a shared_ptr handle whose deleter  *)
(* gives the connection back at scope exit; the callers (FileManager,      *)
(* UserManager) also give it back by hand, a few statements earlier.  Each *)
(* call runs under pool_mutex, hence is one step; between two steps of a   *)
(* thread the others run.                                                  *)
(***************************************************************************)
EXTENDS Integers, FiniteSets

CONSTANTS
  Threads,   \* the threads that borrow connections
  PoolSize,  \* pool_size: connections the constructor tries to open
  Requests   \* bound: how often each thread borrows a connection

ASSUME PoolAssumption ==
  /\ IsFiniteSet(Threads)
  /\ PoolSize \in Nat
  /\ Requests \in Nat

VARIABLES
  available,  \* available[c]: may connection c be lent? (indices of the vector)
  pc,         \* where each thread is in its use of the pool
  handle,     \* the connection a thread's handle points to, NoConn without one
  served,     \* how many connections each thread has been lent
  stale       \* history: has a handle, already returned by hand, freed a lent connection?

vars == <<available, pc, handle, served, stale>>

NoConn == 0

(* "using": between get_connection and the return by hand; "released": the *)
(* handle is still alive although the connection was returned by hand;     *)
(* "asleep"/"woken": inside cv.wait, before and after a notification.      *)
Control == {"idle", "asleep", "woken", "using", "released"}

Free == {c \in DOMAIN available : available[c]}
Asleep == {t \in Threads : pc[t] = "asleep"}
Woken == {t \in Threads : pc[t] = "woken"}
Users(c) == {t \in Threads : pc[t] = "using" /\ handle[t] = c}

-----------------------------------------------------------------------------
(* Only the connections that connect() opened are pushed into the pool.    *)
Init ==
  /\ \E n \in 0 .. PoolSize : available = [c \in 1 .. n |-> TRUE]
  /\ pc = [t \in Threads |-> "idle"]
  /\ handle = [t \in Threads |-> NoConn]
  /\ served = [t \in Threads |-> 0]
  /\ stale = FALSE

(* Mutations: the connection stays marked as available; its index is off   *)
(* by one.                                                                 *)
LendUnmarked(t) ==
  \E c \in Free :
    /\ \A d \in Free : c <= d
    /\ handle' = [handle EXCEPT ![t] = c]
    /\ pc' = [pc EXCEPT ![t] = "using"]
    /\ served' = [served EXCEPT ![t] = @ + 1]
    /\ UNCHANGED <<available, stale>>

LendPrevious(t) ==
  \E c \in Free :
    /\ \A d \in Free : c <= d
    /\ available' = [available EXCEPT ![c] = FALSE]
    /\ handle' = [handle EXCEPT ![t] = c - 1]
    /\ pc' = [pc EXCEPT ![t] = "using"]
    /\ served' = [served EXCEPT ![t] = @ + 1]
    /\ UNCHANGED stale

(* The loop after cv.wait takes the first connection that is available.    *)
Lend(t) ==
  \E c \in Free :
    /\ \A d \in Free : c <= d
    /\ available' = [available EXCEPT ![c] = FALSE]
    /\ handle' = [handle EXCEPT ![t] = c]
    /\ pc' = [pc EXCEPT ![t] = "using"]
    /\ served' = [served EXCEPT ![t] = @ + 1]
    /\ UNCHANGED stale

(* get_connection: cv.wait blocks the caller while nothing is available.   *)
Wait(t) ==
  /\ Free = {}
  /\ pc' = [pc EXCEPT ![t] = "asleep"]
  /\ UNCHANGED <<available, handle, served, stale>>

Get(t) ==
  /\ pc[t] = "idle"
  /\ served[t] < Requests
  /\ Lend(t) \/ Wait(t)

(* A notified waiter reacquires the mutex and evaluates the predicate.     *)
Retry(t) ==
  /\ pc[t] = "woken"
  /\ Lend(t) \/ Wait(t)

(* A condition variable may also wake a waiter that nobody notified.       *)
WakeSpuriously(t) ==
  /\ pc[t] = "asleep"
  /\ pc' = [pc EXCEPT ![t] = "woken"]
  /\ UNCHANGED <<available, handle, served, stale>>

(* A mutation: nobody is notified.                                         *)
ReturnSilently(t, next) ==
  /\ available' = [available EXCEPT ![handle[t]] = TRUE]
  /\ pc' = [pc EXCEPT ![t] = next]

(* return_connection, called by t, which then continues at next: nothing   *)
(* happens when the connection is available, else notify_one wakes one     *)
(* waiter if there is any.                                                 *)
Return(t, next) ==
  LET c == handle[t] IN
  \/ /\ available[c]
     /\ pc' = [pc EXCEPT ![t] = next]
     /\ UNCHANGED available
  \/ /\ ~available[c]
     /\ available' = [available EXCEPT ![c] = TRUE]
     /\ \/ Asleep = {} /\ pc' = [pc EXCEPT ![t] = next]
        \/ \E s \in Asleep : pc' = [pc EXCEPT ![t] = next, ![s] = "woken"]

(* db_pool->return_connection(db), written out in every caller.            *)
HandReturn(t) ==
  /\ pc[t] = "using"
  /\ Return(t, "released")
  /\ UNCHANGED <<handle, served, stale>>

(* The handle leaves scope after the return by hand: its deleter returns   *)
(* the connection once more, whoever has it by now.                        *)
ScopeExit(t) ==
  /\ pc[t] = "released"
  /\ Return(t, "idle")
  /\ handle' = [handle EXCEPT ![t] = NoConn]
  /\ stale' = (stale \/ ~available[handle[t]])
  /\ UNCHANGED served

(* A mutation: a raw pointer, nothing returns it after an exception.       *)
UnwindLeaking(t) ==
  /\ pc[t] = "using"
  /\ pc' = [pc EXCEPT ![t] = "idle"]
  /\ handle' = [handle EXCEPT ![t] = NoConn]
  /\ UNCHANGED <<available, served, stale>>

(* An exception (create_directories, bad_alloc) leaves the caller before   *)
(* its return by hand: only the deleter returns the connection.            *)
Unwind(t) ==
  /\ pc[t] = "using"
  /\ Return(t, "idle")
  /\ handle' = [handle EXCEPT ![t] = NoConn]
  /\ UNCHANGED <<served, stale>>

Continue(t) == Retry(t) \/ HandReturn(t) \/ ScopeExit(t) \/ Unwind(t)

Next == \E t \in Threads : Get(t) \/ WakeSpuriously(t) \/ Continue(t)

Spec == Init /\ [][Next]_vars

(* The scheduler runs every thread and every statement ends: a thread that *)
(* is not blocked goes on.  Nobody is obliged to ask for a connection.     *)
FairSpec == Spec /\ \A t \in Threads : WF_vars(Continue(t))

-----------------------------------------------------------------------------
(* Types of the pool's vectors and of the threads' handles: a handle is    *)
(* held exactly while a thread is using or has returned by hand, and a     *)
(* waiter still has a request to be served.                                *)
TypeOK ==
  /\ \E n \in 0 .. PoolSize : available \in [1 .. n -> BOOLEAN]
  /\ pc \in [Threads -> Control]
  /\ handle \in [Threads -> DOMAIN available \cup {NoConn}]
  /\ served \in [Threads -> 0 .. Requests]
  /\ stale \in BOOLEAN
  /\ \A t \in Threads : handle[t] # NoConn <=> pc[t] \in {"using", "released"}
  /\ \A t \in Threads : pc[t] \in {"asleep", "woken"} => served[t] < Requests

(* One connection, one borrower: what get_connection hands out is not in   *)
(* use by another thread (the comment "idempotent return" at               *)
(* src/database.cpp:258 promises that a return by hand and an automatic    *)
(* return can exist side by side).                                         *)
Exclusive == \A c \in DOMAIN available : Cardinality(Users(c)) <= 1

(* The pool keeps lending one connection to one thread, and holds as       *)
(* available only connections nobody uses, until a handle that had been    *)
(* returned by hand frees a connection lent to somebody else: the second   *)
(* return is the only way to share a connection.                           *)
ExclusiveUntilStaleReturn ==
  ~stale => \A c \in DOMAIN available :
              /\ \A s, t \in Users(c) : s = t
              /\ available[c] => Users(c) = {}

(* No connection leaks: whatever the order of returns, of double returns   *)
(* and of exceptions, one that is not available has a thread that is using *)
(* it and will return it.                                                  *)
NoConnectionLost == \A c \in DOMAIN available : ~available[c] => Users(c) # {}

(* No lost wakeup: while somebody sleeps in cv.wait, every available       *)
(* connection has an awake waiter on its way to take it, although          *)
(* return_connection notifies one waiter only, and only when the flag      *)
(* changes.                                                                *)
NoLostWakeup == Asleep # {} => Cardinality(Free) <= Cardinality(Woken)

(* In a pool with at least one connection, a finite burst of requests      *)
(* drains: every thread waiting in get_connection is lent a connection.    *)
WaiterServed ==
  DOMAIN available # {} =>
    \A t \in Threads : pc[t] \in {"asleep", "woken"} ~> pc[t] = "using"
=============================================================================
