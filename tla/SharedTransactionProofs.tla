----------------------- MODULE SharedTransactionProofs -----------------------
(* Proofs about ConnectionPool and SharedTransaction, for every number of  *)
(* threads, connections, requests and lost connections: first the pool     *)
(* alone, then that it is the same pool under its real borrowers, that no  *)
(* transaction is left behind on a connection that went back, and that the *)
(* transactions of threads that do not share a connection are isolated.    *)
EXTENDS SharedTransaction, FiniteSetTheorems, TLAPS

(* What return_connection may do to the threads' control: the caller goes  *)
(* on at next, and at most one other thread changes, from asleep to woken. *)
LEMMA ReturnControl ==
  ASSUME TypeOK, NEW t \in Threads, NEW next \in {"idle", "released"},
         pc[t] # "asleep", Return(t, next)
  PROVE  /\ pc' \in [Threads -> Control]
         /\ pc'[t] = next
         /\ \A u \in Threads \ {t} :
              pc'[u] = pc[u] \/ (pc[u] = "asleep" /\ pc'[u] = "woken")
  BY DEF TypeOK, Return, Asleep, Control

(* return_connection leaves the caller's connection available and every    *)
(* other one as it was.                                                    *)
LEMMA ReturnAvailable ==
  ASSUME TypeOK, NEW t \in Threads, NEW next, handle[t] # NoConn, Return(t, next)
  PROVE  /\ handle[t] \in DOMAIN available
         /\ available' = [available EXCEPT ![handle[t]] = TRUE]
         /\ DOMAIN available' = DOMAIN available
         /\ \E n \in 0 .. PoolSize : available' \in [1 .. n -> BOOLEAN]
  <1>1. handle[t] \in DOMAIN available
    BY DEF TypeOK
  <1>2. available[handle[t]] => [available EXCEPT ![handle[t]] = TRUE] = available
    BY <1>1 DEF TypeOK
  <1>3. available' = [available EXCEPT ![handle[t]] = TRUE]
    BY <1>2 DEF Return
  <1>4. QED
    BY <1>1, <1>3 DEF TypeOK

(* Lending a connection to a thread that may have one more keeps the types.*)
LEMMA LendType ==
  ASSUME PoolAssumption, TypeOK, NEW t \in Threads, served[t] < Requests, Lend(t)
  PROVE  TypeOK'
  <1> PICK c \in Free :
        /\ available' = [available EXCEPT ![c] = FALSE]
        /\ handle' = [handle EXCEPT ![t] = c]
        /\ pc' = [pc EXCEPT ![t] = "using"]
        /\ served' = [served EXCEPT ![t] = @ + 1]
        /\ UNCHANGED stale
    BY DEF Lend
  <1>1. c \in DOMAIN available /\ c # NoConn
    BY DEF Free, TypeOK, NoConn
  <1>2. /\ \E n \in 0 .. PoolSize : available' \in [1 .. n -> BOOLEAN]
        /\ DOMAIN available' = DOMAIN available
    BY <1>1 DEF TypeOK
  <1>3. /\ pc' \in [Threads -> Control]
        /\ handle' \in [Threads -> DOMAIN available' \cup {NoConn}]
    BY <1>1, <1>2 DEF TypeOK, Control
  <1>4. served' \in [Threads -> 0 .. Requests]
    BY DEF TypeOK, PoolAssumption
  <1>5. /\ \A u \in Threads : handle'[u] # NoConn <=> pc'[u] \in {"using", "released"}
        /\ \A u \in Threads : pc'[u] \in {"asleep", "woken"} => served'[u] < Requests
    BY <1>1 DEF TypeOK
  <1>6. QED
    BY <1>2, <1>3, <1>4, <1>5 DEF TypeOK

(* A thread without a handle that starts to wait, or is woken, keeps them. *)
LEMMA WaitType ==
  ASSUME TypeOK, NEW t \in Threads, served[t] < Requests, handle[t] = NoConn,
         NEW next \in {"asleep", "woken"}, pc' = [pc EXCEPT ![t] = next],
         UNCHANGED <<available, handle, served, stale>>
  PROVE  TypeOK'
  BY DEF TypeOK, Control

LEMMA ReturnType ==
  ASSUME TypeOK, NEW t \in Threads, NEW next \in {"idle", "released"},
         handle[t] # NoConn, Return(t, next),
         \/ next = "released" /\ UNCHANGED handle
         \/ next = "idle" /\ handle' = [handle EXCEPT ![t] = NoConn],
         stale' \in BOOLEAN, UNCHANGED served
  PROVE  TypeOK'
  <1>1. pc[t] \in {"using", "released"}
    BY DEF TypeOK
  <1>2. /\ pc' \in [Threads -> Control]
        /\ pc'[t] = next
        /\ \A u \in Threads \ {t} :
             pc'[u] = pc[u] \/ (pc[u] = "asleep" /\ pc'[u] = "woken")
    BY <1>1, ReturnControl
  <1>3. /\ DOMAIN available' = DOMAIN available
        /\ \E n \in 0 .. PoolSize : available' \in [1 .. n -> BOOLEAN]
    BY ReturnAvailable
  <1>4. handle' \in [Threads -> DOMAIN available' \cup {NoConn}]
    BY <1>3 DEF TypeOK
  <1>5. \A u \in Threads : handle'[u] # NoConn <=> pc'[u] \in {"using", "released"}
    BY <1>2 DEF TypeOK
  <1>6. \A u \in Threads : pc'[u] \in {"asleep", "woken"} => served'[u] < Requests
    BY <1>2 DEF TypeOK
  <1>7. served' \in [Threads -> 0 .. Requests]
    BY DEF TypeOK
  <1>8. QED
    BY <1>2, <1>3, <1>4, <1>5, <1>6, <1>7 DEF TypeOK

LEMMA TypeInductive == PoolAssumption /\ TypeOK /\ [Next]_vars => TypeOK'
  <1> SUFFICES ASSUME PoolAssumption, TypeOK, [Next]_vars PROVE TypeOK'
    OBVIOUS
  <1>1. ASSUME NEW t \in Threads, Get(t) PROVE TypeOK'
    <2>1. handle[t] = NoConn /\ served[t] < Requests
      BY <1>1 DEF Get, TypeOK
    <2>2. QED
      BY <1>1, <2>1, LendType, WaitType DEF Get, Wait
  <1>2. ASSUME NEW t \in Threads, Retry(t) PROVE TypeOK'
    <2>1. handle[t] = NoConn /\ served[t] < Requests
      BY <1>2 DEF Retry, TypeOK
    <2>2. QED
      BY <1>2, <2>1, LendType, WaitType DEF Retry, Wait
  <1>3. ASSUME NEW t \in Threads, WakeSpuriously(t) PROVE TypeOK'
    BY <1>3, WaitType DEF WakeSpuriously, TypeOK
  <1>4. ASSUME NEW t \in Threads, HandReturn(t) PROVE TypeOK'
    BY <1>4, ReturnType DEF HandReturn, TypeOK
  <1>5. ASSUME NEW t \in Threads, ScopeExit(t) PROVE TypeOK'
    <2>1. stale' \in BOOLEAN
      BY <1>5 DEF ScopeExit
    <2>2. QED
      BY <1>5, <2>1, ReturnType DEF ScopeExit, TypeOK
  <1>6. ASSUME NEW t \in Threads, Unwind(t) PROVE TypeOK'
    BY <1>6, ReturnType DEF Unwind, TypeOK
  <1>7. CASE UNCHANGED vars
    BY <1>7 DEF vars, TypeOK
  <1>8. QED
    BY <1>1, <1>2, <1>3, <1>4, <1>5, <1>6, <1>7 DEF Next, Continue

(* The pool's vectors and the threads' handles keep their types.           *)
THEOREM TypeCorrect == Spec => []TypeOK
  <1>1. ASSUME PoolAssumption, Init PROVE TypeOK
    <2>1. \E n \in 0 .. PoolSize : available \in [1 .. n -> BOOLEAN]
      BY <1>1 DEF Init
    <2>2. /\ pc \in [Threads -> Control]
          /\ handle \in [Threads -> DOMAIN available \cup {NoConn}]
          /\ served \in [Threads -> 0 .. Requests]
      BY <1>1 DEF Init, Control, PoolAssumption
    <2>3. QED
      BY <1>1, <2>1, <2>2 DEF Init, TypeOK
  <1>2. QED
    BY <1>1, TypeInductive, PoolAssumption, PTL DEF Spec

-----------------------------------------------------------------------------
(* A thread that waits, wakes or is idle neither uses nor frees anything.  *)
LEMMA WaitKeepsUsers ==
  ASSUME TypeOK, NEW t \in Threads, pc[t] # "using",
         NEW next \in {"asleep", "woken"}, pc' = [pc EXCEPT ![t] = next],
         UNCHANGED <<available, handle>>, NEW c
  PROVE  Users(c)' = Users(c)
  BY DEF Users, TypeOK

(* Lending d makes the borrower a user of d and changes no other user.     *)
LEMMA LendUsers ==
  ASSUME TypeOK, NEW t \in Threads, pc[t] \in {"idle", "woken"}, Lend(t)
  PROVE  \E d \in Free :
           /\ available' = [available EXCEPT ![d] = FALSE]
           /\ \A c \in DOMAIN available :
                Users(c)' = IF c = d THEN Users(c) \cup {t} ELSE Users(c)
  <1> PICK d \in Free :
        /\ available' = [available EXCEPT ![d] = FALSE]
        /\ handle' = [handle EXCEPT ![t] = d]
        /\ pc' = [pc EXCEPT ![t] = "using"]
    BY DEF Lend
  <1>1. ASSUME NEW c \in DOMAIN available
        PROVE  Users(c)' = IF c = d THEN Users(c) \cup {t} ELSE Users(c)
    BY DEF Users, TypeOK
  <1>2. QED
    BY <1>1

(* A return takes its caller out of the users, and nobody else.            *)
LEMMA ReturnUsers ==
  ASSUME TypeOK, NEW t \in Threads, pc[t] \in {"using", "released"},
         NEW next \in {"idle", "released"}, Return(t, next),
         \/ UNCHANGED handle
         \/ handle' = [handle EXCEPT ![t] = NoConn], NEW c
  PROVE  Users(c)' = Users(c) \ {t}
  <1>1. /\ pc'[t] = next
        /\ \A u \in Threads \ {t} :
             pc'[u] = pc[u] \/ (pc[u] = "asleep" /\ pc'[u] = "woken")
    BY ReturnControl
  <1>2. \A u \in Threads \ {t} : handle'[u] = handle[u]
    BY DEF TypeOK
  <1>3. \A u \in Threads : u \in Users(c)' <=> u \in Users(c) \ {t}
    BY <1>1, <1>2 DEF Users
  <1>4. QED
    BY <1>3 DEF Users

LEMMA NothingLostStep ==
  PoolAssumption /\ TypeOK /\ NoConnectionLost /\ [Next]_vars => NoConnectionLost'
  <1> SUFFICES ASSUME TypeOK, NoConnectionLost, [Next]_vars
               PROVE  NoConnectionLost'
    OBVIOUS
  <1>1. ASSUME NEW t \in Threads, pc[t] \in {"idle", "woken"}, Lend(t)
        PROVE  NoConnectionLost'
    <2> PICK d \in Free :
          /\ available' = [available EXCEPT ![d] = FALSE]
          /\ \A c \in DOMAIN available :
               Users(c)' = IF c = d THEN Users(c) \cup {t} ELSE Users(c)
      BY <1>1, LendUsers
    <2>1. ASSUME NEW c \in DOMAIN available, ~available'[c] PROVE Users(c)' # {}
      BY <2>1 DEF NoConnectionLost, TypeOK
    <2>2. QED
      BY <2>1 DEF NoConnectionLost
  <1>2. ASSUME NEW t \in Threads, pc[t] # "using",
               NEW next \in {"asleep", "woken"}, pc' = [pc EXCEPT ![t] = next],
               UNCHANGED <<available, handle>>
        PROVE  NoConnectionLost'
    BY <1>2, WaitKeepsUsers DEF NoConnectionLost
  <1>3. ASSUME NEW t \in Threads, pc[t] \in {"using", "released"},
               NEW next \in {"idle", "released"}, Return(t, next),
               \/ UNCHANGED handle
               \/ handle' = [handle EXCEPT ![t] = NoConn]
        PROVE  NoConnectionLost'
    <2>1. /\ available' = [available EXCEPT ![handle[t]] = TRUE]
          /\ DOMAIN available' = DOMAIN available
          /\ handle[t] \in DOMAIN available
      BY <1>3, ReturnAvailable DEF TypeOK
    <2> SUFFICES ASSUME NEW c \in DOMAIN available, ~available'[c]
                 PROVE  Users(c)' # {}
      BY <2>1 DEF NoConnectionLost
    <2>2. c # handle[t] /\ ~available[c]
      BY <2>1 DEF TypeOK
    <2>3. t \notin Users(c)
      BY <2>2 DEF Users
    <2>4. QED
      BY <1>3, <2>2, <2>3, ReturnUsers DEF NoConnectionLost
  <1>4. CASE UNCHANGED vars
    BY <1>4 DEF vars, NoConnectionLost, Users
  <1>5. QED
    BY <1>1, <1>2, <1>3, <1>4
    DEF Next, Continue, Get, Retry, WakeSpuriously, HandReturn, ScopeExit, Unwind, Wait

(* No order of double returns and exceptions loses a connection: one that  *)
(* is not available is in use by a thread that will return it.             *)
THEOREM NothingLost == Spec => []NoConnectionLost
  <1>1. Init => NoConnectionLost
    BY DEF Init, NoConnectionLost
  <1>2. QED
    BY <1>1, NothingLostStep, TypeCorrect, PoolAssumption, PTL DEF Spec

-----------------------------------------------------------------------------
LEMMA ExclusiveStep ==
  TypeOK /\ ExclusiveUntilStaleReturn /\ [Next]_vars => ExclusiveUntilStaleReturn'
  <1> SUFFICES ASSUME TypeOK, ExclusiveUntilStaleReturn, [Next]_vars, ~stale'
               PROVE  ExclusiveUntilStaleReturn'
    BY DEF ExclusiveUntilStaleReturn
  <1>0. ~stale
    BY DEF Next, Continue, Get, Retry, WakeSpuriously, HandReturn, ScopeExit,
           Unwind, Wait, Lend, vars
  <1>1. ASSUME NEW t \in Threads, pc[t] \in {"idle", "woken"}, Lend(t)
        PROVE  ExclusiveUntilStaleReturn'
    <2> PICK d \in Free :
          /\ available' = [available EXCEPT ![d] = FALSE]
          /\ \A c \in DOMAIN available :
               Users(c)' = IF c = d THEN Users(c) \cup {t} ELSE Users(c)
      BY <1>1, LendUsers
    <2>1. d \in DOMAIN available /\ Users(d)' = {t}
      BY <1>0 DEF Free, ExclusiveUntilStaleReturn
    <2>2. QED
      BY <1>0, <2>1 DEF ExclusiveUntilStaleReturn, TypeOK
  <1>2. ASSUME NEW t \in Threads, pc[t] # "using",
               NEW next \in {"asleep", "woken"}, pc' = [pc EXCEPT ![t] = next],
               UNCHANGED <<available, handle>>
        PROVE  ExclusiveUntilStaleReturn'
    BY <1>0, <1>2, WaitKeepsUsers DEF ExclusiveUntilStaleReturn
  <1>3. ASSUME NEW t \in Threads, pc[t] = "using",
               NEW next \in {"idle", "released"}, Return(t, next),
               \/ UNCHANGED handle
               \/ handle' = [handle EXCEPT ![t] = NoConn]
        PROVE  ExclusiveUntilStaleReturn'
    <2>1. /\ available' = [available EXCEPT ![handle[t]] = TRUE]
          /\ DOMAIN available' = DOMAIN available
          /\ handle[t] \in DOMAIN available
      BY <1>3, ReturnAvailable DEF TypeOK
    <2>2. \A c \in DOMAIN available : Users(c)' = Users(c) \ {t}
      BY <1>3, ReturnUsers
    <2>3. \A u \in Users(handle[t]) : u = t
      BY <1>0, <1>3, <2>1 DEF ExclusiveUntilStaleReturn, Users
    <2>4. QED
      BY <1>0, <2>1, <2>2, <2>3 DEF ExclusiveUntilStaleReturn, TypeOK
  <1>4. ASSUME NEW t \in Threads, ScopeExit(t)
        PROVE  ExclusiveUntilStaleReturn'
    <2>1. available' = available
      BY <1>4 DEF ScopeExit, Return
    <2>2. ASSUME NEW c PROVE Users(c)' = Users(c)
      <3>1. Users(c)' = Users(c) \ {t}
        BY <1>4, ReturnUsers DEF ScopeExit
      <3>2. t \notin Users(c)
        BY <1>4 DEF ScopeExit, Users
      <3>3. QED
        BY <3>1, <3>2
    <2>3. QED
      BY <1>0, <2>1, <2>2 DEF ExclusiveUntilStaleReturn
  <1>5. CASE UNCHANGED vars
    BY <1>0, <1>5 DEF vars, ExclusiveUntilStaleReturn, Users
  <1>6. QED
    BY <1>1, <1>2, <1>3, <1>4, <1>5
    DEF Next, Continue, Get, Retry, WakeSpuriously, HandReturn, Unwind, Wait

(* The double return is the only way two threads come to share a           *)
(* connection: until a stale handle frees a lent one, each has one user.   *)
THEOREM ExclusiveLending == Spec => []ExclusiveUntilStaleReturn
  <1>1. Init => ExclusiveUntilStaleReturn
    BY DEF Init, ExclusiveUntilStaleReturn, Users
  <1>2. QED
    BY <1>1, ExclusiveStep, TypeCorrect, PTL DEF Spec

-----------------------------------------------------------------------------
(* A return that notifies frees one connection and wakes one waiter; any   *)
(* other leaves the counts alone or finds nobody asleep.                   *)
LEMMA ReturnBalance ==
  ASSUME TypeOK, NEW t \in Threads, pc[t] \in {"using", "released"},
         NEW next \in {"idle", "released"}, Return(t, next)
  PROVE  \/ Asleep' = {}
         \/ Asleep' = Asleep /\ Free' = Free /\ Woken' = Woken
         \/ /\ Asleep # {}
            /\ \E c \in DOMAIN available : Free' = Free \cup {c}
            /\ \E s \in Threads : s \notin Woken /\ Woken' = Woken \cup {s}
  <1>1. CASE available[handle[t]]
    <2>1. Asleep' = Asleep /\ Woken' = Woken /\ Free' = Free
      BY <1>1 DEF Return, Asleep, Woken, Free, TypeOK
    <2>2. QED
      BY <2>1
  <1>2. CASE ~available[handle[t]] /\ Asleep = {}
    <2>1. pc' = [pc EXCEPT ![t] = next]
      BY <1>2 DEF Return
    <2>2. Asleep' = {}
      BY <1>2, <2>1 DEF Asleep, TypeOK
    <2>3. QED
      BY <2>2
  <1>3. CASE ~available[handle[t]] /\ Asleep # {}
    <2>1. PICK s \in Asleep : pc' = [pc EXCEPT ![t] = next, ![s] = "woken"]
      BY <1>3 DEF Return
    <2>2. s \notin Woken /\ s \in Threads /\ s # t
      BY DEF Asleep, Woken
    <2>3. Woken' = Woken \cup {s}
      BY <2>1, <2>2 DEF Woken, TypeOK
    <2>4. handle[t] \in DOMAIN available
      BY DEF TypeOK
    <2>5. Free' = Free \cup {handle[t]}
      BY <1>3, <2>4 DEF Return, Free, TypeOK
    <2>6. QED
      BY <1>3, <2>2, <2>3, <2>4, <2>5
  <1>4. QED
    BY <1>1, <1>2, <1>3

LEMMA FiniteCounts ==
  ASSUME PoolAssumption, TypeOK
  PROVE  /\ IsFiniteSet(Free) /\ Cardinality(Free) \in Nat
         /\ IsFiniteSet(Woken) /\ Cardinality(Woken) \in Nat
  <1>1. IsFiniteSet(Woken)
    BY FS_Subset DEF Woken, PoolAssumption
  <1>2. PICK n \in 0 .. PoolSize : available \in [1 .. n -> BOOLEAN]
    BY DEF TypeOK
  <1>3. IsFiniteSet(1 .. n)
    BY FS_Interval DEF PoolAssumption
  <1>4. Free \in SUBSET (1 .. n)
    BY <1>2 DEF Free
  <1>5. IsFiniteSet(Free)
    BY <1>3, <1>4, FS_Subset
  <1>6. QED
    BY <1>1, <1>5, FS_CardinalityType

LEMMA WakeupStep ==
  PoolAssumption /\ TypeOK /\ NoLostWakeup /\ [Next]_vars => NoLostWakeup'
  <1> SUFFICES ASSUME PoolAssumption, TypeOK, NoLostWakeup, [Next]_vars
               PROVE  NoLostWakeup'
    OBVIOUS
  <1>0. /\ IsFiniteSet(Free) /\ Cardinality(Free) \in Nat
        /\ IsFiniteSet(Woken) /\ Cardinality(Woken) \in Nat
    BY FiniteCounts
  <1>00. Cardinality(Woken') \in Nat
    <2>1. PoolAssumption /\ TypeOK'
      BY TypeInductive
    <2>2. IsFiniteSet(Woken')
      BY FS_Subset DEF Woken, PoolAssumption
    <2>3. QED
      BY <2>2, FS_CardinalityType
  <1>1. ASSUME NEW t \in Threads, pc[t] \in {"idle", "woken"}, Lend(t)
        PROVE  NoLostWakeup'
    <2> PICK d \in Free :
          /\ available' = [available EXCEPT ![d] = FALSE]
          /\ pc' = [pc EXCEPT ![t] = "using"]
      BY <1>1 DEF Lend
    <2>1. Free' = Free \ {d} /\ Asleep' = Asleep /\ Woken' = Woken \ {t}
      BY <1>1 DEF Free, Asleep, Woken, TypeOK
    <2>2. Cardinality(Free') = Cardinality(Free) - 1
      BY <1>0, <2>1, FS_RemoveElement
    <2>3. Cardinality(Woken') >= Cardinality(Woken) - 1
      <3>1. Cardinality(Woken') =
              IF t \in Woken THEN Cardinality(Woken) - 1 ELSE Cardinality(Woken)
        BY <1>0, <2>1, FS_RemoveElement
      <3>2. QED
        BY <1>0, <3>1
    <2>4. QED
      BY <1>0, <1>00, <2>1, <2>2, <2>3 DEF NoLostWakeup
  <1>2. ASSUME NEW t \in Threads, Wait(t)
        PROVE  NoLostWakeup'
    <2>1. Free' = {}
      BY <1>2 DEF Wait, Free
    <2>2. Cardinality(Free') = 0
      BY <2>1, FS_EmptySet
    <2>3. QED
      BY <1>00, <2>2 DEF NoLostWakeup
  <1>3. ASSUME NEW t \in Threads, WakeSpuriously(t)
        PROVE  NoLostWakeup'
    <2>1. /\ Free' = Free /\ Asleep # {}
          /\ t \notin Woken /\ Woken' = Woken \cup {t}
      BY <1>3 DEF WakeSpuriously, Free, Asleep, Woken, TypeOK
    <2>2. Cardinality(Woken') = Cardinality(Woken) + 1
      BY <1>0, <2>1, FS_AddElement
    <2>3. QED
      BY <1>0, <2>1, <2>2 DEF NoLostWakeup
  <1>4. ASSUME NEW t \in Threads, pc[t] \in {"using", "released"},
               NEW next \in {"idle", "released"}, Return(t, next)
        PROVE  NoLostWakeup'
    <2>1. CASE Asleep' = {}
      BY <2>1 DEF NoLostWakeup
    <2>2. CASE Asleep' = Asleep /\ Free' = Free /\ Woken' = Woken
      BY <2>2 DEF NoLostWakeup
    <2>3. CASE /\ Asleep # {}
               /\ \E c \in DOMAIN available : Free' = Free \cup {c}
               /\ \E s \in Threads : s \notin Woken /\ Woken' = Woken \cup {s}
      <3>1. Cardinality(Woken') = Cardinality(Woken) + 1
        BY <1>0, <2>3, FS_AddElement
      <3>. PICK c \in DOMAIN available : Free' = Free \cup {c}
        BY <2>3
      <3>2. Cardinality(Free') =
              IF c \in Free THEN Cardinality(Free) ELSE Cardinality(Free) + 1
        BY <1>0, FS_AddElement
      <3>3. Cardinality(Free') <= Cardinality(Free) + 1 /\ Cardinality(Free') \in Nat
        BY <1>0, <3>2
      <3>4. QED
        BY <1>0, <2>3, <3>1, <3>2, <3>3 DEF NoLostWakeup
    <2>4. QED
      BY <1>4, <2>1, <2>2, <2>3, ReturnBalance
  <1>5. CASE UNCHANGED vars
    BY <1>5 DEF vars, NoLostWakeup, Asleep, Free, Woken
  <1>6. QED
    BY <1>1, <1>2, <1>3, <1>4, <1>5
    DEF Next, Continue, Get, Retry, HandReturn, ScopeExit, Unwind

(* Notifying one waiter per connection that becomes available is enough:   *)
(* no connection stays available while only sleepers wait for one.         *)
THEOREM WakeupsSuffice == Spec => []NoLostWakeup
  <1>1. Init => NoLostWakeup
    BY DEF Init, NoLostWakeup, Asleep
  <1>2. QED
    BY <1>1, WakeupStep, TypeCorrect, PoolAssumption, PTL DEF Spec

-----------------------------------------------------------------------------

(* What the borrowers do with a connection is a step of the pool or none.  *)
LEMMA PoolStep == [TxNext]_allVars => [Next]_vars
  <1> SUFFICES ASSUME [TxNext]_allVars PROVE [Next]_vars
    OBVIOUS
  <1>1. ASSUME NEW t \in Threads, Borrow(t) PROVE [Next]_vars
    BY <1>1 DEF Borrow, Next, Continue
  <1>2. ASSUME NEW t \in Threads, Wake(t) PROVE [Next]_vars
    BY <1>2 DEF Wake, Next
  <1>3. ASSUME NEW t \in Threads, Call(t) PROVE [Next]_vars
    BY <1>3 DEF Call
  <1>4. ASSUME NEW t \in Threads, GiveBack(t) PROVE [Next]_vars
    BY <1>4 DEF GiveBack, Next, Continue
  <1>5. ASSUME NEW t \in Threads, Release(t) PROVE [Next]_vars
    BY <1>5 DEF Release, Next, Continue
  <1>6. ASSUME NEW c \in DOMAIN available, Lose(c) PROVE [Next]_vars
    BY <1>6 DEF Lose
  <1>7. CASE UNCHANGED allVars
    BY <1>7 DEF allVars
  <1>8. QED
    BY <1>1, <1>2, <1>3, <1>4, <1>5, <1>6, <1>7 DEF TxNext, Proceed

(* Refinement: hiding the statements, the transactions and the lost        *)
(* connections leaves the pool as ConnectionPool describes it, so every    *)
(* theorem of the pool holds with complete_upload as its borrower.         *)
THEOREM BorrowersRefinePool == TxSpec => Spec
  <1>1. TxInit => Init
    BY DEF TxInit
  <1>2. QED
    BY <1>1, PoolStep, PTL DEF TxSpec, Spec

(* What the pool guarantees, carried over to its real borrowers: a         *)
(* connection is shared only after a second return of a handle, and none   *)
(* is lost, whatever the transactions on it went through.                  *)
THEOREM PoolSafe ==
  TxSpec => [](TypeOK /\ ExclusiveUntilStaleReturn /\ NoConnectionLost /\ NoLostWakeup)
  BY BorrowersRefinePool, TypeCorrect, ExclusiveLending, NothingLost,
     WakeupsSuffice, PTL

-----------------------------------------------------------------------------
(* The thread that will close what it began: a completer between BEGIN and *)
(* the end of its COMMIT or ROLLBACK.                                      *)
Inside == {"row", "id", "charge", "status", "commit", "undo"}
Closers(c) == {t \in Completers : t \in Users(c) /\ at[t] \in Inside}

TxTypeOK ==
  /\ at \in [Threads -> Inside \cup {"none", "begin", "return"}]
  /\ DOMAIN tx = DOMAIN available
  /\ \A t \in Threads \ Completers : at[t] # "begin"

(* The inductive invariant: an open transaction has such a thread.         *)
OpenInv ==
  /\ TxTypeOK
  /\ \A c \in DOMAIN available : tx[c].open => c \notin lost /\ Closers(c) # {}

(* The statements keep the threads' positions and the connections.         *)
LEMMA CallType ==
  ASSUME TypeOK, TxTypeOK, NEW t \in Threads, Call(t)
  PROVE  /\ TxTypeOK'
         /\ \A s \in Threads \ {t} : at'[s] = at[s]
         /\ \A c \in DOMAIN available : Users(c)' = Users(c)
  <1>1. handle[t] \in DOMAIN available /\ UNCHANGED <<available, pc, handle>>
    BY DEF Call, TypeOK, vars
  <1>2. TxTypeOK' /\ \A s \in Threads \ {t} : at'[s] = at[s]
    <2>1. CASE Begin(t)
      BY <1>1, <2>1 DEF TxTypeOK, Begin, Go, StartTransaction, Inside
    <2>2. CASE Execute(t)
      BY <1>1, <2>2 DEF TxTypeOK, Execute, Go, Write, Inside, After
    <2>3. CASE ReadId(t)
      BY <1>1, <2>3 DEF TxTypeOK, ReadId, Go, Inside
    <2>4. CASE Commit(t)
      BY <1>1, <2>4 DEF TxTypeOK, Commit, Go, CommitAll, Inside
    <2>5. CASE Undo(t)
      BY <1>1, <2>5 DEF TxTypeOK, Undo, Go, Inside
    <2>6. QED
      BY <2>1, <2>2, <2>3, <2>4, <2>5 DEF Call
  <1>3. QED
    BY <1>1, <1>2 DEF Users

(* The call's own connection: after it, a transaction is open there only   *)
(* if t goes on to close it, or if it was open before.                     *)
LEMMA CallTransaction ==
  ASSUME TypeOK, OpenInv, NEW t \in Threads, Call(t)
  PROVE  LET c == handle[t] IN
         /\ \A d \in DOMAIN available \ {c} : tx'[d] = tx[d]
         /\ lost' \subseteq lost \cup {c}
         /\ tx'[c].open =>
              /\ c \notin lost'
              /\ \/ t \in Completers /\ at'[t] \in Inside
                 \/ tx[c].open /\ (t \in Completers => at[t] \notin Inside)
  <1>. DEFINE c == handle[t]
  <1>1. c \in DOMAIN available
    BY DEF Call, TypeOK
  <1>2. at \in [Threads -> Inside \cup {"none", "begin", "return"}]
        /\ DOMAIN tx = DOMAIN available /\ (t \notin Completers => at[t] # "begin")
        /\ (tx[c].open => c \notin lost)
    BY <1>1 DEF OpenInv, TxTypeOK
  <1>3. CASE Begin(t)
    BY <1>1, <1>2, <1>3 DEF Begin, Go, StartTransaction, Inside
  <1>4. CASE Execute(t)
    <2>1. CASE t \in Completers
      BY <1>1, <1>2, <1>4, <2>1 DEF Execute, Go, Write, Inside, After
    <2>2. CASE t \notin Completers
      BY <1>1, <1>2, <1>4, <2>2 DEF Execute, Go, Write
    <2>3. QED
      BY <2>1, <2>2
  <1>5. CASE ReadId(t)
    BY <1>1, <1>2, <1>5 DEF ReadId, Go, Inside
  <1>6. CASE Commit(t)
    BY <1>1, <1>2, <1>6 DEF Commit, Go, CommitAll, Closed, Inside
  <1>7. CASE Undo(t)
    BY <1>1, <1>2, <1>7 DEF Undo, Go, Closed
  <1>8. QED
    BY <1>3, <1>4, <1>5, <1>6, <1>7 DEF Call

LEMMA CallKeepsOpenInv ==
  ASSUME TypeOK, OpenInv, NEW t \in Threads, Call(t)
  PROVE  OpenInv'
  <1>. DEFINE c == handle[t]
  <1>1. TxTypeOK' /\ DOMAIN available' = DOMAIN available
    BY CallType DEF OpenInv, Call, vars
  <1>2. /\ \A s \in Threads \ {t} : at'[s] = at[s]
        /\ \A d \in DOMAIN available : Users(d)' = Users(d)
    BY CallType DEF OpenInv
  <1>3. t \in Users(c) /\ c \in DOMAIN available
    BY DEF Call, Users, TypeOK
  <1>4. ASSUME NEW d \in DOMAIN available, tx'[d].open
        PROVE  d \notin lost' /\ Closers(d)' # {}
    <2>1. CASE d # c
      <3>1. tx[d].open /\ d \notin lost' /\ t \notin Users(d)
        BY <1>4, <2>1, CallTransaction DEF Users, OpenInv
      <3>2. Closers(d)' = Closers(d)
        BY <1>2, <3>1 DEF Closers, Users
      <3>3. QED
        BY <3>1, <3>2 DEF OpenInv
    <2>2. CASE d = c
      <3>1. c \notin lost'
        BY <1>4, <2>2, CallTransaction
      <3>2. CASE t \in Completers /\ at'[t] \in Inside
        <4>1. t \in Closers(d)'
          BY <1>2, <1>3, <2>2, <3>2 DEF Closers
        <4>2. QED
          BY <2>2, <3>1, <4>1
      <3>3. CASE tx[c].open /\ (t \in Completers => at[t] \notin Inside)
        <4>1. PICK s \in Closers(c) : TRUE
          BY <1>3, <3>3 DEF OpenInv
        <4>2. s # t /\ s \in Threads
          BY <3>3, <4>1 DEF Closers, Users
        <4>3. s \in Closers(d)'
          BY <1>2, <1>3, <2>2, <4>1, <4>2 DEF Closers
        <4>4. QED
          BY <2>2, <3>1, <4>3
      <3>4. QED
        BY <1>4, <2>2, <3>2, <3>3, CallTransaction
    <2>3. QED
      BY <2>1, <2>2
  <1>5. QED
    BY <1>1, <1>4 DEF OpenInv

(* A step of a thread that is not closing a transaction, and that leaves   *)
(* the transactions and the other threads alone, keeps the invariant.      *)
LEMMA OthersClose ==
  ASSUME OpenInv, NEW t \in Threads, TxTypeOK', UNCHANGED <<tx, lost>>,
         DOMAIN available' = DOMAIN available,
         ~(t \in Completers /\ pc[t] = "using" /\ at[t] \in Inside),
         \A s \in Threads \ {t} :
           /\ at'[s] = at[s] /\ handle'[s] = handle[s]
           /\ pc[s] = "using" => pc'[s] = "using"
  PROVE  OpenInv'
  <1>1. \A c : Closers(c) \subseteq Closers(c)'
    BY DEF Closers, Users
  <1>2. QED
    BY <1>1 DEF OpenInv

LEMMA OpenInvStep == PoolAssumption /\ TypeOK /\ OpenInv /\ [TxNext]_allVars => OpenInv'
  <1> SUFFICES ASSUME PoolAssumption, TypeOK, OpenInv, [TxNext]_allVars PROVE OpenInv'
    OBVIOUS
  <1>0. TxTypeOK
    BY DEF OpenInv
  <1>1. ASSUME NEW t \in Threads, Borrow(t) PROVE OpenInv'
    <2>1. pc[t] \in {"idle", "woken"} /\ (Lend(t) \/ Wait(t))
      BY <1>1 DEF Borrow, Get, Retry
    <2>2. /\ DOMAIN available' = DOMAIN available
          /\ \A s \in Threads \ {t} : handle'[s] = handle[s] /\ pc'[s] = pc[s]
      BY <2>1 DEF Lend, Wait, TypeOK
    <2>3. TxTypeOK' /\ \A s \in Threads \ {t} : at'[s] = at[s]
      BY <1>0, <1>1, <2>2 DEF Borrow, TxTypeOK, First, Inside
    <2>4. UNCHANGED <<tx, lost>> /\ pc[t] # "using"
      BY <1>1, <2>1 DEF Borrow
    <2>5. QED
      BY <2>2, <2>3, <2>4, OthersClose
  <1>2. ASSUME NEW t \in Threads, Wake(t) PROVE OpenInv'
    <2>1. TxTypeOK'
      BY <1>0, <1>2 DEF Wake, WakeSpuriously, TxTypeOK, txVars
    <2>2. QED
      BY <1>2, <2>1, OthersClose DEF Wake, WakeSpuriously, txVars, TypeOK
  <1>3. ASSUME NEW t \in Threads, Call(t) PROVE OpenInv'
    BY <1>3, CallKeepsOpenInv
  <1>4. ASSUME NEW t \in Threads, GiveBack(t) PROVE OpenInv'
    <2>1. /\ pc[t] = "using"
          /\ \E next \in {"idle", "released"} : Return(t, next)
          /\ \A s \in Threads \ {t} : handle'[s] = handle[s]
      BY <1>4 DEF GiveBack, HandReturn, Unwind, TypeOK
    <2>2. handle[t] # NoConn
      BY <2>1 DEF TypeOK
    <2>3. DOMAIN available' = DOMAIN available
      BY <2>1, <2>2, ReturnAvailable
    <2>4. \A s \in Threads \ {t} : pc[s] = "using" => pc'[s] = "using"
      BY <2>1, ReturnControl
    <2>5. TxTypeOK' /\ \A s \in Threads \ {t} : at'[s] = at[s]
      BY <1>0, <1>4, <2>3 DEF GiveBack, TxTypeOK
    <2>6. UNCHANGED <<tx, lost>> /\ ~(t \in Completers /\ at[t] \in Inside)
      BY <1>4 DEF GiveBack, First, Inside
    <2>7. QED
      BY <2>1, <2>3, <2>4, <2>5, <2>6, OthersClose
  <1>5. ASSUME NEW t \in Threads, Release(t) PROVE OpenInv'
    <2>1. /\ pc[t] = "released" /\ Return(t, "idle") /\ UNCHANGED <<at, tx, lost>>
          /\ \A s \in Threads \ {t} : handle'[s] = handle[s]
      BY <1>5 DEF Release, ScopeExit, txVars, TypeOK
    <2>2. handle[t] # NoConn
      BY <2>1 DEF TypeOK
    <2>3. DOMAIN available' = DOMAIN available
      BY <2>1, <2>2, ReturnAvailable
    <2>4. \A s \in Threads \ {t} : pc[s] = "using" => pc'[s] = "using"
      BY <2>1, ReturnControl
    <2>5. TxTypeOK'
      BY <1>0, <2>1, <2>3 DEF TxTypeOK
    <2>6. QED
      BY <2>1, <2>3, <2>4, <2>5, OthersClose
  <1>6. ASSUME NEW c \in DOMAIN available, Lose(c) PROVE OpenInv'
    <2>1. /\ tx' = [tx EXCEPT ![c] = Closed] /\ lost' = lost \cup {c}
          /\ UNCHANGED <<available, pc, handle, at>>
      BY <1>6 DEF Lose, vars
    <2>2. TxTypeOK'
      BY <1>0, <2>1 DEF TxTypeOK
    <2>3. \A d : Closers(d)' = Closers(d)
      BY <2>1 DEF Closers, Users
    <2>4. \A d \in DOMAIN available : tx'[d].open => d # c /\ tx[d].open
      BY <1>0, <2>1 DEF TxTypeOK, Closed
    <2>5. QED
      BY <2>1, <2>2, <2>3, <2>4 DEF OpenInv
  <1>7. CASE UNCHANGED allVars
    BY <1>0, <1>7 DEF allVars, vars, txVars, OpenInv, TxTypeOK, Closers, Users
  <1>8. QED
    BY <1>1, <1>2, <1>3, <1>4, <1>5, <1>6, <1>7 DEF TxNext, Proceed

(* No error path, interleaving or lost connection leaves a transaction     *)
(* open on a connection that went back to the pool: the next borrower      *)
(* never writes into somebody else's transaction.                          *)
THEOREM NothingLeftOpen == TxSpec => []NoTransactionLeftOpen
  <1>1. TxInit => OpenInv
    BY DEF TxInit, OpenInv, TxTypeOK, Closed, Inside
  <1>2. TypeOK /\ OpenInv => NoTransactionLeftOpen
    BY DEF OpenInv, Closers, NoTransactionLeftOpen
  <1>3. TxSpec => []TypeOK
    BY BorrowersRefinePool, TypeCorrect, PTL
  <1>4. QED
    BY <1>1, <1>2, <1>3, OpenInvStep, PoolAssumption, PTL DEF TxSpec

-----------------------------------------------------------------------------
(* Why a work is atomic: as long as its thread is alone on its connection, *)
(* nobody else writes, commits or rolls back there.  A work that is not    *)
(* mixed is not begun, under way in its thread's hands, or over; what is   *)
(* pending of it is on its own connection while it is under way.           *)
Rows == {"row", "charge", "status"}
Current(w) == pc[w[1]] = "using" /\ w[2] = served[w[1]]
Lone(t) == pc[t] = "using" /\ Work(t) \notin mixed

(* The writes of a transaction that reached the call at p.                 *)
Done == [row |-> {}, id |-> {"row"}, charge |-> {"row"}, status |-> {"row", "charge"},
         commit |-> {"row", "charge", "status"}]

IsoType ==
  /\ answer \in [Works -> {"none", "done", "refused"}]
  /\ DOMAIN told = Works
  /\ DOMAIN lastId = DOMAIN available
  /\ \A c \in DOMAIN available : DOMAIN tx[c] = {"open", "writes"}
  /\ \A t \in Threads :
       /\ pc[t] = "using" <=> at[t] # "none"
       /\ pc[t] = "using" => served[t] >= 1
       /\ t \notin Completers => at[t] \in {"none", "row", "return"}

Alone == \A t \in Threads : Lone(t) => Users(handle[t]) = {t}

PendingOwn ==
  \A c \in DOMAIN available, w \in Works \ mixed, p \in Rows :
    <<w, p>> \in tx[c].writes =>
      /\ Current(w) /\ handle[w[1]] = c
      /\ w[1] \in Completers /\ at[w[1]] \in Inside

NotBegun ==
  \A w \in Works \ mixed :
    w[2] > served[w[1]] => Written(w) = {} /\ answer[w] = "none"

(* Before its answer a work has stored nothing, except under a COMMIT      *)
(* whose connection died; up to then its transaction is open, its pending  *)
(* writes are those of the calls it made, and the last id is its own.      *)
UnderWay(t) ==
  LET c == handle[t]  w == Work(t)
  IN /\ at[t] # "return" => answer[w] = "none"
     /\ at[t] \notin {"return", "undo"} => Written(w) = {}
     /\ at[t] = "undo" /\ lost = {} => Written(w) = {}
     /\ t \in Completers /\ at[t] \in DOMAIN Done /\ c \notin lost =>
          /\ tx[c].open
          /\ {p \in Rows : <<w, p>> \in tx[c].writes} = Done[at[t]]
     /\ at[t] = "id" => lastId[c] = w
     /\ at[t] \in {"charge", "status", "commit"} => told[w] = w

(* Isolated, of one work.                                                  *)
Whole(w) ==
  /\ Written(w) \in {{}, Pieces(w)}
  /\ answer[w] = "done" => Written(w) # {} /\ (w[1] \in Completers => told[w] = w)
  /\ answer[w] = "refused" /\ lost = {} => Written(w) = {}

IsoInv ==
  /\ IsoType /\ Alone /\ PendingOwn /\ NotBegun
  /\ \A t \in Threads : Lone(t) => UnderWay(t)
  /\ \A w \in Works \ mixed : Whole(w)

(* A finite set with two elements has a cardinality above one.             *)
LEMMA MoreThanOne ==
  ASSUME NEW S, IsFiniteSet(S), NEW a \in S, NEW b \in S, ~(Cardinality(S) > 1)
  PROVE  b = a
  <1> SUFFICES ASSUME b # a PROVE FALSE
    OBVIOUS
  <1>1. Cardinality({a}) = 1 /\ IsFiniteSet({a})
    BY FS_Singleton
  <1>2. Cardinality({a} \cup {b}) = 2 /\ IsFiniteSet({a} \cup {b})
    BY <1>1, FS_AddElement
  <1>3. Cardinality({a} \cup {b}) <= Cardinality(S)
    <2>1. {a} \cup {b} \subseteq S
      OBVIOUS
    <2>2. QED
      BY <2>1, FS_Subset
  <1>4. Cardinality(S) \in Nat
    BY FS_CardinalityType
  <1>5. QED
    BY <1>2, <1>3, <1>4

LEMMA WorkOf ==
  ASSUME TypeOK, NEW t \in Threads
  PROVE  /\ Work(t)[1] = t /\ Work(t)[2] = served[t]
         /\ served[t] >= 1 => Work(t) \in Works
  BY DEF Work, Works, TypeOK, PoolAssumption

LEMMA WorkParts ==
  ASSUME NEW w \in Works
  PROVE  /\ w[1] \in Threads /\ w[2] \in Int
         /\ w[2] = served[w[1]] <=> w = Work(w[1])
  BY PoolAssumption DEF Work, Works, PoolAssumption

(* What is pending on the connection of t is its own or somebody's mixed.  *)
LEMMA ForeignPending ==
  ASSUME TypeOK, IsoInv, NEW t \in Threads, pc[t] = "using",
         NEW w \in Works \ mixed, w # Work(t), NEW p \in Rows
  PROVE  <<w, p>> \notin tx[handle[t]].writes
  <1> SUFFICES ASSUME <<w, p>> \in tx[handle[t]].writes PROVE FALSE
    OBVIOUS
  <1>1. handle[t] \in DOMAIN available /\ t \in Users(handle[t])
    BY DEF TypeOK, Users
  <1>2. Current(w) /\ handle[w[1]] = handle[t]
    BY <1>1 DEF IsoInv, PendingOwn
  <1>3. w[1] \in Threads /\ w = Work(w[1])
    BY <1>2, WorkParts DEF Current
  <1>4. Users(handle[w[1]]) = {w[1]}
    BY <1>2, <1>3 DEF IsoInv, Alone, Lone, Current
  <1>5. QED
    BY <1>1, <1>2, <1>3, <1>4

(* What a call may change: stored and pending writes of its own work, the  *)
(* commitment of what is pending on its connection, its own answers.       *)
LEMMA CallData ==
  ASSUME TypeOK, TxTypeOK, IsoType, NEW t \in Threads, Call(t)
  PROVE  LET c == handle[t] IN
         /\ c \in DOMAIN available /\ UNCHANGED <<available, pc, handle, served, mixed>>
         /\ DOMAIN tx' = DOMAIN tx
         /\ stored \subseteq stored'
         /\ stored' \subseteq stored \cup tx[c].writes \cup {<<Work(t), at[t]>>}
         /\ tx'[c].writes \subseteq tx[c].writes \cup {<<Work(t), at[t]>>}
         /\ \A d \in DOMAIN available \ {c} : tx'[d] = tx[d] /\ lastId'[d] = lastId[d]
         /\ \A w \in Works \ {Work(t)} : answer'[w] = answer[w] /\ told'[w] = told[w]
         /\ lost \subseteq lost' /\ lost' \subseteq lost \cup {c}
  <1> DEFINE c == handle[t]
  <1>1. c \in DOMAIN available /\ UNCHANGED <<available, pc, handle, served, mixed>>
    BY DEF Call, TypeOK, vars
  <1>2. DOMAIN tx = DOMAIN available /\ DOMAIN lastId = DOMAIN available
    BY DEF TxTypeOK, IsoType
  <1>3. ASSUME NEW v, NEW r, Go(t, v, r)
        PROVE  \A w \in Works \ {Work(t)} : answer'[w] = answer[w]
    BY <1>3 DEF Go, IsoType
  <1>4. ASSUME NEW v, NoteId(c, v)
        PROVE  \A d \in DOMAIN available \ {c} : lastId'[d] = lastId[d]
    BY <1>2, <1>4 DEF NoteId
  <1>5. CASE Begin(t)
    BY <1>1, <1>2, <1>3, <1>4, <1>5 DEF Begin, StartTransaction
  <1>6. CASE Execute(t)
    <2>1. /\ \A w \in Works \ {Work(t)} : answer'[w] = answer[w] /\ told'[w] = told[w]
          /\ \A d \in DOMAIN available \ {c} : lastId'[d] = lastId[d]
          /\ lost \subseteq lost' /\ lost' \subseteq lost \cup {c}
      BY <1>3, <1>4, <1>6 DEF Execute
    <2>2. \/ Write(c, Work(t), at[t]) \/ UNCHANGED <<tx, stored>>
          \/ stored' = stored \cup {<<Work(t), at[t]>>} /\ tx' = tx
      BY <1>6 DEF Execute
    <2> DEFINE k == <<Work(t), at[t]>>
    <2>3. /\ DOMAIN tx' = DOMAIN tx
          /\ stored \subseteq stored' /\ stored' \subseteq stored \cup {k}
          /\ tx'[c].writes \subseteq tx[c].writes \cup {k}
          /\ \A d \in DOMAIN available \ {c} : tx'[d] = tx[d]
      <3>1. CASE tx' = [tx EXCEPT ![c].writes = @ \cup {k}] /\ UNCHANGED stored
        <4>1. tx'[c] = [tx[c] EXCEPT !.writes = @ \cup {k}]
          BY <1>1, <1>2, <3>1
        <4>2. tx'[c].writes = tx[c].writes \cup {k} \/ tx'[c].writes = tx[c].writes
          BY <4>1
        <4>3. QED
          BY <1>1, <1>2, <3>1, <4>2
      <3>2. CASE stored' = stored \cup {k} /\ UNCHANGED tx
        BY <3>2
      <3>3. CASE UNCHANGED <<tx, stored>>
        BY <3>3
      <3>4. QED
        BY <2>2, <3>1, <3>2, <3>3 DEF Write
    <2> HIDE DEF k
    <2>4. QED
      BY <1>1, <2>1, <2>3 DEF k
  <1>7. CASE ReadId(t)
    BY <1>1, <1>2, <1>3, <1>4, <1>7 DEF ReadId, IsoType
  <1>8. CASE Commit(t)
    BY <1>1, <1>2, <1>3, <1>4, <1>8 DEF Commit, CommitAll, Closed
  <1>9. CASE Undo(t)
    BY <1>1, <1>2, <1>3, <1>4, <1>9 DEF Undo, Closed
  <1>10. QED
    BY <1>5, <1>6, <1>7, <1>8, <1>9 DEF Call

LEMMA CallOthers ==
  ASSUME TypeOK, TxTypeOK, IsoInv, NEW t \in Threads, Call(t),
         NEW w \in Works \ mixed, w # Work(t)
  PROVE  /\ answer'[w] = answer[w] /\ told'[w] = told[w] /\ Written(w)' = Written(w)
         /\ \A d \in DOMAIN available, p \in Rows :
              <<w, p>> \in tx'[d].writes => <<w, p>> \in tx[d].writes
  <1>1. pc[t] = "using" /\ IsoType
    BY DEF Call, IsoInv
  <1>2. answer'[w] = answer[w] /\ told'[w] = told[w]
    BY <1>1, CallData
  <1>3. \A p \in Rows : <<w, p>> \notin tx[handle[t]].writes
    BY <1>1, ForeignPending
  <1>4. \A p \in Rows : <<w, p>> # <<Work(t), at[t]>>
    OBVIOUS
  <1>5. \A p \in Rows : <<w, p>> \in stored' <=> <<w, p>> \in stored
    BY <1>1, <1>3, <1>4, CallData
  <1>6. Written(w)' = Written(w)
    BY <1>5 DEF Written, Rows
  <1>7. \A d \in DOMAIN available, p \in Rows :
          <<w, p>> \in tx'[d].writes => <<w, p>> \in tx[d].writes
    BY <1>1, <1>4, CallData
  <1>8. QED
    BY <1>2, <1>6, <1>7

LEMMA CallIsoType ==
  ASSUME TypeOK, TxTypeOK, IsoType, NEW t \in Threads, Call(t)
  PROVE  IsoType'
  <1>1. handle[t] \in DOMAIN available /\ pc[t] = "using"
        /\ UNCHANGED <<available, pc, handle, served>>
    BY DEF Call, TypeOK, vars
  <1>2. ASSUME NEW v \in Inside \cup {"return"}, NEW r \in {"none", "done", "refused"},
               Go(t, v, r), t \notin Completers => v = "return",
               DOMAIN told' = DOMAIN told, DOMAIN lastId' = DOMAIN lastId,
               \A d \in DOMAIN available : DOMAIN tx'[d] = {"open", "writes"}
        PROVE  IsoType'
    <2>1. \A s \in Threads : at'[s] = IF s = t THEN v ELSE at[s]
      BY <1>2 DEF Go, TxTypeOK
    <2>2. answer' \in [Works -> {"none", "done", "refused"}]
      BY <1>2 DEF Go, IsoType
    <2>3. v # "none"
      BY DEF Inside
    <2>4. QED
      BY <1>1, <1>2, <2>1, <2>2, <2>3 DEF IsoType
  <1>3. \A c, id : NoteId(c, id) => DOMAIN lastId' = DOMAIN lastId
    BY DEF NoteId, IsoType
  <1>4. \A d \in DOMAIN available : DOMAIN tx'[d] = {"open", "writes"}
    <2>1. DOMAIN tx = DOMAIN available
            /\ \A d \in DOMAIN available : DOMAIN tx[d] = {"open", "writes"}
      BY DEF IsoType, TxTypeOK
    <2>2. CASE UNCHANGED tx
      BY <2>1, <2>2
    <2>3. CASE \E w, p : tx' = [tx EXCEPT ![handle[t]].writes = @ \cup {<<w, p>>}]
      BY <2>1, <2>3
    <2>4. CASE \E b : tx' = [tx EXCEPT ![handle[t]] = [open |-> b, writes |-> {}]]
      BY <2>1, <2>4
    <2>5. QED
      BY <2>2, <2>3, <2>4
      DEF Call, Begin, Execute, ReadId, Commit, Undo, Write, StartTransaction, CommitAll, Closed
  <1>5. CASE Begin(t)
    BY <1>2, <1>3, <1>4, <1>5 DEF Begin, TxTypeOK, Inside
  <1>6. CASE Execute(t)
    <2>1. CASE t \in Completers
      BY <1>2, <1>3, <1>4, <1>6, <2>1 DEF Execute, After, Inside
    <2>2. CASE t \notin Completers
      BY <1>2, <1>3, <1>4, <1>6, <2>2 DEF Execute
    <2>3. QED
      BY <2>1, <2>2
  <1>7. CASE ReadId(t)
    BY <1>2, <1>4, <1>7 DEF ReadId, Inside, IsoType
  <1>8. CASE Commit(t)
    BY <1>2, <1>3, <1>4, <1>8 DEF Commit, Inside, IsoType
  <1>9. CASE Undo(t)
    BY <1>2, <1>3, <1>4, <1>9 DEF Undo
  <1>10. QED
    BY <1>5, <1>6, <1>7, <1>8, <1>9 DEF Call

(* A call of a work that has its connection alone: what it wrote so far is *)
(* all pending or all stored, and what it answers is true.                 *)
LEMMA CallOwn ==
  ASSUME TypeOK, OpenInv, IsoInv, NEW t \in Threads, Call(t), Work(t) \notin mixed
  PROVE  UnderWay(t)' /\ Whole(Work(t))'
  <1> DEFINE c == handle[t]
             w == Work(t)
             p == at[t]
  <1>1. /\ c \in DOMAIN available /\ pc[t] = "using" /\ handle' = handle
        /\ w \in Works /\ Work(t)' = w /\ w[1] = t
    <2>1. pc[t] = "using" /\ UNCHANGED <<handle, served>> /\ c \in DOMAIN available
      BY DEF Call, vars, TypeOK
    <2>2. QED
      BY <2>1, WorkOf DEF IsoInv, IsoType, Work
  <1>2. /\ answer \in [Works -> {"none", "done", "refused"}] /\ DOMAIN told = Works
        /\ DOMAIN lastId = DOMAIN available /\ DOMAIN tx = DOMAIN available
        /\ DOMAIN tx[c] = {"open", "writes"} /\ DOMAIN at = Threads
        /\ t \notin Completers => p \in {"none", "row", "return"}
    BY <1>1 DEF IsoInv, IsoType, OpenInv, TxTypeOK
  <1>3. UnderWay(t) /\ Whole(w)
    BY <1>1 DEF IsoInv, Lone
  <1>4. t \notin Completers \/ p \notin Inside => ~tx[c].open
    BY <1>1 DEF OpenInv, Closers, IsoInv, Alone, Lone
  <1>5. p \notin Inside => \A q \in Rows : <<w, q>> \notin tx[c].writes
    BY <1>1 DEF IsoInv, PendingOwn
  <1>6. Pieces(w) = IF t \in Completers THEN Rows ELSE {"row"}
    BY <1>1 DEF Pieces, Rows
  <1>7. \A v, r : Go(t, v, r) => at'[t] = v /\ answer'[w] = r
    BY <1>1, <1>2 DEF Go
  <1>8. \A id : NoteId(c, id) => lastId'[c] = id
    BY <1>1, <1>2 DEF NoteId
  <1>9. \A q \in Rows : q \in Written(w) <=> <<w, q>> \in stored
    BY DEF Written, Rows
  <1>10. \A q \in Rows : q \in Written(w)' <=> <<w, q>> \in stored'
    BY <1>1 DEF Written, Rows
  <1>11. Written(w) \subseteq Rows /\ Written(w)' \subseteq Rows
    BY DEF Written, Rows
  <1>12. /\ UnderWay(t)' <=>
             /\ at'[t] # "return" => answer'[w] = "none"
             /\ at'[t] \notin {"return", "undo"} => Written(w)' = {}
             /\ at'[t] = "undo" /\ lost' = {} => Written(w)' = {}
             /\ t \in Completers /\ at'[t] \in DOMAIN Done /\ c \notin lost' =>
                  /\ tx'[c].open
                  /\ {q \in Rows : <<w, q>> \in tx'[c].writes} = Done[at'[t]]
             /\ at'[t] = "id" => lastId'[c] = w
             /\ at'[t] \in {"charge", "status", "commit"} => told'[w] = w
         /\ Whole(w)' <=>
             /\ Written(w)' \in {{}, Pieces(w)}
             /\ answer'[w] = "done" => Written(w)' # {} /\ (t \in Completers => told'[w] = w)
             /\ answer'[w] = "refused" /\ lost' = {} => Written(w)' = {}
    <2>1. Pieces(w)' = Pieces(w)
      BY <1>1
    <2>2. QED
      BY <1>1, <2>1 DEF UnderWay, Whole
  <1>13. CASE Begin(t)
    <2>1. Written(w) = {} /\ p = "begin" /\ t \in Completers
      BY <1>2, <1>3, <1>13 DEF Begin, UnderWay
    <2>2. \A q \in Rows : <<w, q>> \notin tx[c].writes
      BY <1>5, <2>1 DEF Inside
    <2>3. CASE StartTransaction(c) /\ NoteId(c, NoId) /\ Go(t, "row", "none")
      <3>1. at'[t] = "row" /\ answer'[w] = "none" /\ Written(w)' = {}
        BY <1>7, <1>9, <1>10, <1>11, <2>1, <2>2, <2>3 DEF StartTransaction
      <3>2. tx'[c].open /\ tx'[c].writes = {}
        BY <1>1, <1>2, <2>3 DEF StartTransaction
      <3>3. QED
        BY <1>12, <3>1, <3>2 DEF Done
    <2>4. CASE Go(t, "return", "refused") /\ UNCHANGED stored
      <3>1. at'[t] = "return" /\ answer'[w] = "refused" /\ Written(w)' = {}
        BY <1>7, <1>9, <1>10, <1>11, <2>1, <2>4
      <3>2. QED
        BY <1>12, <3>1 DEF Done
    <2>5. QED
      BY <1>13, <2>3, <2>4 DEF Begin
  <1>14. CASE Execute(t) /\ t \in Completers
    <2>1. /\ Written(w) = {} /\ p \in {"row", "charge", "status"}
          /\ p # "row" => told[w] = w
          /\ told' = told
      BY <1>3, <1>14 DEF Execute, UnderWay
    <2>2. CASE /\ c \notin lost /\ Write(c, w, p) /\ NoteId(c, IF p = "row" THEN w ELSE NoId)
               /\ Go(t, After[p], "none") /\ UNCHANGED lost
      <3>1. tx[c].open /\ {q \in Rows : <<w, q>> \in tx[c].writes} = Done[p]
        BY <1>3, <1>14, <2>1, <2>2 DEF UnderWay, Done
      <3>2. tx' = [tx EXCEPT ![c].writes = @ \cup {<<w, p>>}] /\ UNCHANGED stored
        BY <2>2, <3>1 DEF Write
      <3>3. tx'[c].open /\ tx'[c].writes = tx[c].writes \cup {<<w, p>>}
        BY <1>1, <1>2, <3>1, <3>2
      <3>4. {q \in Rows : <<w, q>> \in tx'[c].writes} = Done[p] \cup {p}
        BY <2>1, <3>1, <3>3 DEF Rows
      <3>5. Done[p] \cup {p} = Done[After[p]] /\ (p = "row" => After[p] = "id")
            /\ (p # "row" => After[p] \in {"status", "commit"})
        BY <2>1 DEF Done, After
      <3>6. /\ at'[t] = After[p] /\ answer'[w] = "none" /\ Written(w)' = {}
            /\ (p = "row" => lastId'[c] = w)
        BY <1>7, <1>8, <1>9, <1>10, <1>11, <2>1, <2>2, <3>2
      <3>7. QED
        BY <1>12, <2>1, <3>3, <3>4, <3>5, <3>6
    <2>3. CASE Go(t, "undo", "none") /\ UNCHANGED stored
      <3>1. at'[t] = "undo" /\ answer'[w] = "none" /\ Written(w)' = {}
        BY <1>7, <1>9, <1>10, <1>11, <2>1, <2>3
      <3>2. QED
        BY <1>12, <3>1 DEF Done
    <2>4. QED
      BY <1>14, <2>2, <2>3 DEF Execute
  <1>15. CASE Execute(t) /\ t \notin Completers
    <2>1. Written(w) = {} /\ p = "row" /\ ~tx[c].open
      BY <1>2, <1>3, <1>4, <1>15 DEF Execute, UnderWay
    <2>2. ASSUME stored' = stored \cup {<<w, p>>} PROVE Written(w)' = Pieces(w)
      BY <1>6, <1>9, <1>10, <1>11, <1>15, <2>1, <2>2 DEF Rows
    <2>3. CASE Write(c, w, p) /\ Go(t, "return", "done")
      <3>1. Written(w)' = Pieces(w) /\ at'[t] = "return" /\ answer'[w] = "done"
        BY <1>7, <2>1, <2>2, <2>3 DEF Write
      <3>2. QED
        BY <1>6, <1>12, <1>15, <3>1 DEF Done
    <2>4. CASE Go(t, "return", "refused") /\ UNCHANGED stored
      <3>1. at'[t] = "return" /\ answer'[w] = "refused" /\ Written(w)' = {}
        BY <1>7, <1>9, <1>10, <1>11, <2>1, <2>4
      <3>2. QED
        BY <1>12, <3>1 DEF Done
    <2>5. CASE /\ stored' = stored \cup {<<w, p>>} /\ lost' = lost \cup {c}
               /\ Go(t, "return", "refused")
      <3>1. at'[t] = "return" /\ answer'[w] = "refused" /\ Written(w)' = Pieces(w) /\ lost' # {}
        BY <1>7, <2>2, <2>5
      <3>2. QED
        BY <1>12, <3>1 DEF Done
    <2>6. QED
      BY <1>15, <2>3, <2>4, <2>5 DEF Execute
  <1>16. CASE ReadId(t)
    <2>1. /\ p = "id" /\ Written(w) = {} /\ lastId[c] = w /\ t \in Completers
          /\ c \notin lost => tx[c].open /\ {q \in Rows : <<w, q>> \in tx[c].writes} = {"row"}
      BY <1>2, <1>3, <1>16 DEF ReadId, UnderWay, Done
    <2>2. UNCHANGED <<tx, stored, lost>> /\ told' = [told EXCEPT ![w] = lastId[c]]
      BY <1>16 DEF ReadId
    <2>3. at'[t] = "charge" /\ answer'[w] = "none" /\ told'[w] = w /\ Written(w)' = {}
      BY <1>1, <1>2, <1>7, <1>9, <1>10, <1>11, <1>16, <2>1, <2>2 DEF ReadId
    <2>4. QED
      BY <1>12, <2>1, <2>2, <2>3 DEF Done
  <1>17. CASE Commit(t)
    <2>1. p = "commit" /\ Written(w) = {} /\ told[w] = w /\ told' = told /\ t \in Completers
      BY <1>2, <1>3, <1>17 DEF Commit, UnderWay
    <2>2. ASSUME CommitAll(c), c \notin lost PROVE Written(w)' = Pieces(w) /\ Pieces(w) # {}
      <3>1. \A q \in Rows : <<w, q>> \in tx[c].writes
        BY <1>3, <2>1, <2>2 DEF UnderWay, Done, Rows
      <3>2. \A q \in Rows : <<w, q>> \in stored'
        BY <2>2, <3>1 DEF CommitAll
      <3>3. QED
        BY <1>6, <1>10, <1>11, <2>1, <3>2 DEF Rows
    <2>3. CASE c \notin lost /\ CommitAll(c) /\ Go(t, "return", "done")
      <3>1. at'[t] = "return" /\ answer'[w] = "done" /\ Written(w)' = Pieces(w) /\ Pieces(w) # {}
        BY <1>7, <2>2, <2>3
      <3>2. QED
        BY <1>12, <2>1, <3>1 DEF Done
    <2>4. CASE c \notin lost /\ CommitAll(c) /\ lost' = lost \cup {c} /\ Go(t, "undo", "none")
      <3>1. at'[t] = "undo" /\ answer'[w] = "none" /\ Written(w)' = Pieces(w) /\ lost' # {}
        BY <1>7, <2>2, <2>4
      <3>2. QED
        BY <1>12, <3>1 DEF Done
    <2>5. CASE Go(t, "undo", "none") /\ UNCHANGED <<stored, lost>>
      <3>1. at'[t] = "undo" /\ answer'[w] = "none" /\ Written(w)' = {}
        BY <1>7, <1>9, <1>10, <1>11, <2>1, <2>5
      <3>2. QED
        BY <1>12, <3>1 DEF Done
    <2>6. QED
      BY <1>17, <2>3, <2>4, <2>5 DEF Commit
  <1>18. CASE Undo(t)
    <2>1. /\ p = "undo" /\ Written(w) \in {{}, Pieces(w)} /\ (lost = {} => Written(w) = {})
          /\ UNCHANGED <<stored, lost>>
      BY <1>3, <1>18 DEF Undo, UnderWay, Whole
    <2>2. at'[t] = "return" /\ answer'[w] = "refused" /\ Written(w)' = Written(w)
      BY <1>7, <1>9, <1>10, <1>11, <1>18, <2>1 DEF Undo
    <2>3. QED
      BY <1>12, <2>1, <2>2 DEF Done
  <1>19. QED
    BY <1>13, <1>14, <1>15, <1>16, <1>17, <1>18 DEF Call

(* What is pending of a work on its connection after a call is what a      *)
(* transaction left there, which its thread goes on to close.              *)
LEMMA CallPending ==
  ASSUME TypeOK, OpenInv, IsoInv, NEW t \in Threads, Call(t), Work(t) \notin mixed,
         NEW p \in Rows, <<Work(t), p>> \in tx'[handle[t]].writes
  PROVE  t \in Completers /\ at'[t] \in Inside
  <1> DEFINE c == handle[t]
  <1>1. /\ c \in DOMAIN available /\ DOMAIN tx = DOMAIN available /\ pc[t] = "using"
        /\ DOMAIN tx[c] = {"open", "writes"} /\ DOMAIN at = Threads
        /\ t \notin Completers => at[t] \in {"none", "row", "return"}
        /\ t \notin Completers => ~tx[c].open
        /\ Work(t) \in Works /\ Work(t)[1] = t
    <2>1. pc[t] = "using" /\ c \in DOMAIN available
      BY DEF Call, TypeOK
    <2>2. Work(t) \in Works /\ Work(t)[1] = t
      BY <2>1, WorkOf DEF IsoInv, IsoType
    <2>3. QED
      BY <2>1, <2>2 DEF IsoInv, IsoType, OpenInv, TxTypeOK, Closers, Alone, Lone
  <1>2. \A q \in Rows : <<Work(t), q>> \in tx[c].writes => t \in Completers /\ at[t] \in Inside
    BY <1>1 DEF IsoInv, PendingOwn
  <1>3. \A v, r : Go(t, v, r) => at'[t] = v
    BY <1>1 DEF Go
  <1>4. CASE Begin(t)
    BY <1>1, <1>2, <1>3, <1>4 DEF Begin, StartTransaction, Inside
  <1>5. CASE Execute(t)
    <2>1. CASE t \in Completers
      BY <1>3, <1>5, <2>1 DEF Execute, After, Inside
    <2>2. CASE t \notin Completers
      BY <1>1, <1>2, <1>5, <2>2 DEF Execute, Write
    <2>3. QED
      BY <2>1, <2>2
  <1>6. CASE ReadId(t)
    BY <1>2, <1>3, <1>6 DEF ReadId, Inside
  <1>7. CASE Commit(t)
    BY <1>1, <1>2, <1>3, <1>7 DEF Commit, CommitAll, Closed, Inside
  <1>8. CASE Undo(t)
    BY <1>1, <1>8 DEF Undo, Closed
  <1>9. QED
    BY <1>4, <1>5, <1>6, <1>7, <1>8 DEF Call

LEMMA CallKeepsIso ==
  ASSUME TypeOK, OpenInv, IsoInv, NEW t \in Threads, Call(t)
  PROVE  IsoInv'
  <1>0. TypeOK /\ TxTypeOK /\ IsoType /\ pc[t] = "using" /\ handle[t] \in DOMAIN available
    BY DEF OpenInv, IsoInv, Call, TypeOK
  <1>1. /\ UNCHANGED <<available, pc, handle, served, mixed>>
        /\ \A d \in DOMAIN available \ {handle[t]} : tx'[d] = tx[d] /\ lastId'[d] = lastId[d]
        /\ lost \subseteq lost' /\ lost' \subseteq lost \cup {handle[t]}
    BY <1>0, CallData
  <1>2. \A s \in Threads \ {t} : at'[s] = at[s]
    BY <1>0, CallType
  <1>3. \A w \in Works \ mixed : w # Work(t) =>
          /\ answer'[w] = answer[w] /\ told'[w] = told[w] /\ Written(w)' = Written(w)
          /\ \A d \in DOMAIN available, p \in Rows :
               <<w, p>> \in tx'[d].writes => <<w, p>> \in tx[d].writes
    BY <1>0, CallOthers
  <1>4. Work(t) \notin mixed => UnderWay(t)' /\ Whole(Work(t))'
    BY CallOwn
  <1>5. \A s \in Threads :
          Work(s)' = Work(s) /\ (Lone(s)' <=> Lone(s)) /\ Users(handle[s])' = Users(handle[s])
    BY <1>1 DEF Work, Lone, Users
  <1>6. IsoType'
    BY <1>0, CallIsoType
  <1>7. Alone'
    BY <1>1, <1>5 DEF IsoInv, Alone
  <1>8. PendingOwn'
    <2> SUFFICES ASSUME NEW d \in DOMAIN available, NEW w \in Works \ mixed, NEW p \in Rows,
                        <<w, p>> \in tx'[d].writes
                 PROVE  /\ Current(w) /\ handle[w[1]] = d
                        /\ w[1] \in Completers /\ at'[w[1]] \in Inside
      BY <1>1 DEF PendingOwn, Current
    <2>1. CASE w = Work(t)
      <3>1. w[1] = t /\ Current(w)
        BY <1>0, <2>1, WorkOf DEF Current
      <3>2. CASE d # handle[t]
        <4>1. <<w, p>> \in tx[d].writes
          BY <1>1, <3>2
        <4>2. handle[t] = d
          BY <3>1, <4>1 DEF IsoInv, PendingOwn
        <4>3. QED
          BY <3>2, <4>2
      <3>3. CASE d = handle[t]
        BY <2>1, <3>1, <3>3, CallPending
      <3>4. QED
        BY <3>2, <3>3
    <2>2. CASE w # Work(t)
      <3>1. <<w, p>> \in tx[d].writes
        BY <1>3, <2>2
      <3>2. /\ Current(w) /\ handle[w[1]] = d
            /\ w[1] \in Completers /\ at[w[1]] \in Inside
        BY <3>1 DEF IsoInv, PendingOwn
      <3>3. w[1] \in Threads \ {t}
        BY <2>2, <3>2, WorkParts DEF Current
      <3>4. QED
        BY <1>2, <3>2, <3>3
    <2>3. QED
      BY <2>1, <2>2
  <1>9. NotBegun'
    <2> SUFFICES ASSUME NEW w \in Works \ mixed, w[2] > served[w[1]]
                 PROVE  Written(w)' = {} /\ answer'[w] = "none"
      BY <1>1 DEF NotBegun
    <2>1. w # Work(t)
      BY <1>0, WorkOf DEF TypeOK
    <2>2. QED
      BY <1>3, <2>1 DEF IsoInv, NotBegun
  <1>10. ASSUME NEW s \in Threads, Lone(s)' PROVE UnderWay(s)'
    <2>1. CASE s = t
      BY <1>4, <1>5, <1>10, <2>1 DEF Lone
    <2>2. CASE s # t
      <3>1. Lone(s) /\ Work(s) \notin mixed /\ UnderWay(s)
        BY <1>5, <1>10 DEF Lone, IsoInv
      <3>2. handle[s] \in DOMAIN available \ {handle[t]}
        BY <1>0, <2>2, <3>1 DEF Lone, IsoInv, Alone, Users, TypeOK
      <3>3. Work(s) \in Works /\ Work(s) # Work(t)
        BY <1>0, <2>2, <3>1, WorkOf DEF IsoType, Lone
      <3>4. /\ answer'[Work(s)] = answer[Work(s)] /\ told'[Work(s)] = told[Work(s)]
            /\ Written(Work(s))' = Written(Work(s))
        BY <1>3, <1>5, <3>1, <3>3 DEF Written
      <3>5. /\ tx'[handle[s]] = tx[handle[s]] /\ lastId'[handle[s]] = lastId[handle[s]]
            /\ handle[s] \notin lost' => handle[s] \notin lost
            /\ lost' = {} => lost = {}
            /\ at'[s] = at[s] /\ handle'[s] = handle[s]
        BY <1>1, <1>2, <2>2, <3>2
      <3>6. QED
        BY <1>5, <3>1, <3>4, <3>5 DEF UnderWay
    <2>3. QED
      BY <2>1, <2>2
  <1>11. ASSUME NEW w \in Works \ mixed PROVE Whole(w)'
    <2>1. CASE w = Work(t)
      BY <1>4, <1>5, <2>1 DEF Whole, Written, Pieces
    <2>2. CASE w # Work(t)
      BY <1>1, <1>3, <2>2 DEF IsoInv, Whole, Pieces
    <2>3. QED
      BY <2>1, <2>2
  <1>12. QED
    BY <1>1, <1>6, <1>7, <1>8, <1>9, <1>10, <1>11 DEF IsoInv

(* A step of the pool that leaves the statements alone and takes no thread *)
(* out of an open transaction; a request that ends so has stored nothing.  *)
LEMMA LeaveIso ==
  ASSUME TypeOK, IsoInv, UNCHANGED <<tx, stored, lastId, told, lost, served>>,
         DOMAIN available' = DOMAIN available, mixed \subseteq mixed', IsoType',
         \A s \in Threads : pc'[s] = "using" =>
           pc[s] = "using" /\ handle'[s] = handle[s] /\ at'[s] = at[s],
         \A s \in Threads : pc[s] = "using" /\ pc'[s] # "using" =>
           s \notin Completers \/ at[s] \notin Inside,
         \A w \in Works \ mixed :
           \/ answer'[w] = answer[w]
           \/ /\ answer'[w] = "refused" /\ Written(w) = {}
              /\ Current(w) /\ pc'[w[1]] # "using"
  PROVE  IsoInv'
  <1>1. \A s \in Threads : Lone(s)' =>
          Lone(s) /\ Work(s)' = Work(s) /\ Users(handle[s])' \subseteq Users(handle[s])
    BY DEF Lone, Work, Users
  <1>2. Alone'
    <2> SUFFICES ASSUME NEW s \in Threads, Lone(s)' PROVE Users(handle[s])' = {s}
      BY DEF Alone
    <2>1. Users(handle[s])' \subseteq {s}
      BY <1>1 DEF IsoInv, Alone
    <2>2. s \in Users(handle[s])'
      BY DEF Lone, Users
    <2>3. QED
      BY <2>1, <2>2
  <1>3. PendingOwn'
    <2> SUFFICES ASSUME NEW c \in DOMAIN available, NEW w \in Works \ mixed, NEW p \in Rows,
                        <<w, p>> \in tx[c].writes
                 PROVE  /\ pc'[w[1]] = "using" /\ w[2] = served[w[1]] /\ handle'[w[1]] = c
                        /\ w[1] \in Completers /\ at'[w[1]] \in Inside
      BY DEF PendingOwn, Current
    <2>1. /\ Current(w) /\ handle[w[1]] = c
          /\ w[1] \in Completers /\ at[w[1]] \in Inside
      BY DEF IsoInv, PendingOwn
    <2>2. w[1] \in Threads
      BY WorkParts
    <2>3. QED
      BY <2>1, <2>2 DEF Current
  <1>4. NotBegun'
    <2> SUFFICES ASSUME NEW w \in Works \ mixed, w[2] > served[w[1]]
                 PROVE  Written(w)' = {} /\ answer'[w] = "none"
      BY DEF NotBegun
    <2>1. Written(w) = {} /\ answer[w] = "none"
      BY DEF IsoInv, NotBegun
    <2>2. ~Current(w)
      BY WorkParts DEF Current, TypeOK
    <2>3. QED
      BY <2>1, <2>2 DEF Written
  <1>5. ASSUME NEW s \in Threads, Lone(s)' PROVE UnderWay(s)'
    <2>1. /\ Lone(s) /\ Work(s) \notin mixed /\ Work(s) \in Works /\ Work(s)[1] = s
          /\ UnderWay(s) /\ Work(s)' = Work(s)
      BY <1>1, <1>5, WorkOf DEF IsoInv, IsoType, Lone
    <2>2. pc'[s] = "using" /\ handle'[s] = handle[s] /\ at'[s] = at[s]
      BY <1>5 DEF Lone
    <2>3. answer'[Work(s)] = answer[Work(s)]
      BY <2>1, <2>2
    <2>4. Written(Work(s))' = Written(Work(s))
      BY <2>1 DEF Written
    <2>5. QED
      BY <2>1, <2>2, <2>3, <2>4 DEF UnderWay
  <1>6. ASSUME NEW w \in Works \ mixed PROVE Whole(w)'
    <2>1. Whole(w)
      BY DEF IsoInv
    <2>2. Written(w)' = Written(w) /\ Pieces(w)' = Pieces(w)
      BY DEF Written, Pieces
    <2>3. QED
      BY <2>1, <2>2 DEF Whole
  <1>7. QED
    BY <1>2, <1>3, <1>4, <1>5, <1>6 DEF IsoInv

(* Whoever is lent a connection somebody has, mixes the works of all of    *)
(* its users; a work that is not mixed starts alone.                       *)
LEMMA LendIso ==
  ASSUME PoolAssumption, TypeOK, IsoInv, OpenInv, NEW t \in Threads, Borrow(t),
         pc'[t] = "using", TypeOK'
  PROVE  IsoInv'
  <1>0. /\ UNCHANGED <<tx, stored, lastId, told, answer, lost>>
        /\ mixed' = mixed \cup {<<s, served'[s]>> : s \in Sharing'}
        /\ at' = [at EXCEPT ![t] = First(t)]
    BY DEF Borrow
  <1>1. Lend(t) /\ pc[t] # "using"
    BY DEF Borrow, Get, Retry, Wait, TypeOK
  <1>2. /\ DOMAIN available' = DOMAIN available
        /\ served' = [served EXCEPT ![t] = @ + 1]
        /\ \A s \in Threads \ {t} :
             pc'[s] = pc[s] /\ handle'[s] = handle[s] /\ served'[s] = served[s]
        /\ served'[t] = served[t] + 1 /\ served[t] \in Nat
    BY <1>1, PoolAssumption DEF Lend, TypeOK, PoolAssumption
  <1>3. at'[t] = First(t) /\ \A s \in Threads \ {t} : at'[s] = at[s]
    BY <1>0 DEF OpenInv, TxTypeOK
  <1>4. First(t) # "none" /\ (t \in Completers => First(t) = "begin")
        /\ (t \notin Completers => First(t) = "row")
    BY DEF First
  <1>5. \A s \in Threads : Work(s)' = <<s, served'[s]>> /\ (s # t => Work(s)' = Work(s))
    BY <1>2 DEF Work
  <1>6. IsoType'
    BY <1>0, <1>2, <1>3, <1>4 DEF IsoInv, IsoType
  <1>7. Alone'
    <2> SUFFICES ASSUME NEW s \in Threads, Lone(s)' PROVE Users(handle[s])' = {s}
      BY DEF Alone
    <2>1. s \in Users(handle[s])' /\ pc'[s] = "using"
      BY DEF Lone, Users
    <2>2. s \notin Sharing'
      BY <1>0 DEF Lone, Work
    <2>3. ~(Cardinality(Users(handle[s])') > 1)
      BY <2>1, <2>2 DEF Sharing
    <2>4. IsFiniteSet(Users(handle[s])')
      BY FS_Subset DEF Users, PoolAssumption
    <2>5. Cardinality(Users(handle[s])') \in Nat
      BY <2>4, FS_CardinalityType
    <2>6. \A r \in Users(handle[s])' : r = s
      BY <2>1, <2>3, <2>4, <2>5, MoreThanOne
    <2>7. QED
      BY <2>1, <2>6
  <1>8. PendingOwn'
    <2> SUFFICES ASSUME NEW c \in DOMAIN available, NEW w \in Works \ mixed, NEW p \in Rows,
                        <<w, p>> \in tx[c].writes
                 PROVE  /\ pc'[w[1]] = "using" /\ w[2] = served'[w[1]] /\ handle'[w[1]] = c
                        /\ w[1] \in Completers /\ at'[w[1]] \in Inside
      BY <1>0, <1>2 DEF PendingOwn, Current
    <2>1. /\ Current(w) /\ handle[w[1]] = c
          /\ w[1] \in Completers /\ at[w[1]] \in Inside
      BY DEF IsoInv, PendingOwn
    <2>2. w[1] \in Threads \ {t}
      BY <1>1, <2>1, WorkParts DEF Current
    <2>3. QED
      BY <1>2, <1>3, <2>1, <2>2 DEF Current
  <1>9. NotBegun'
    <2> SUFFICES ASSUME NEW w \in Works \ mixed, w[2] > served'[w[1]]
                 PROVE  Written(w)' = {} /\ answer'[w] = "none"
      BY <1>0 DEF NotBegun
    <2>1. w[2] > served[w[1]]
      <3>1. w[1] \in Threads /\ w[2] \in Int
        BY WorkParts
      <3>2. served[w[1]] \in Nat
              /\ (served'[w[1]] = served[w[1]] \/ served'[w[1]] = served[w[1]] + 1)
        BY <1>2, <3>1, PoolAssumption DEF TypeOK, PoolAssumption
      <3>3. QED
        BY <3>1, <3>2
    <2>2. QED
      BY <1>0, <2>1 DEF IsoInv, NotBegun, Written
  <1>10. ASSUME NEW s \in Threads, Lone(s)' PROVE UnderWay(s)'
    <2>1. CASE s = t
      <3> DEFINE w == <<t, served[t] + 1>>
      <3>1. Work(t)' = w /\ w \notin mixed
        BY <1>0, <1>2, <1>10, <2>1 DEF Work, Lone
      <3>2. w \in Works /\ w[1] = t /\ w[2] = served[t] + 1
        BY <1>2, PoolAssumption DEF Works, TypeOK, PoolAssumption
      <3>3. Written(w) = {} /\ answer[w] = "none"
        BY <1>2, <3>1, <3>2 DEF IsoInv, NotBegun
      <3> HIDE DEF w
      <3>4. Written(Work(t))' = {} /\ answer'[Work(t)'] = "none"
        BY <1>0, <3>1, <3>3 DEF Written
      <3>5. QED
        BY <1>3, <1>4, <2>1, <3>4 DEF UnderWay, Done
    <2>2. CASE s # t
      <3>1. Lone(s) /\ UnderWay(s) /\ Work(s)' = Work(s)
        BY <1>0, <1>2, <1>5, <1>10, <2>2 DEF Lone, IsoInv
      <3>2. Written(Work(s))' = Written(Work(s))
        BY <1>0, <3>1 DEF Written
      <3>3. handle'[s] = handle[s] /\ at'[s] = at[s]
        BY <1>2, <1>3, <2>2
      <3>4. QED
        BY <1>0, <3>1, <3>2, <3>3 DEF UnderWay
    <2>3. QED
      BY <2>1, <2>2
  <1>11. ASSUME NEW w \in Works \ mixed PROVE Whole(w)'
    <2>1. Whole(w)
      BY DEF IsoInv
    <2>2. Written(w)' = Written(w) /\ Pieces(w)' = Pieces(w)
      BY <1>0 DEF Written, Pieces
    <2>3. QED
      BY <1>0, <2>1, <2>2 DEF Whole
  <1>12. QED
    BY <1>0, <1>6, <1>7, <1>8, <1>9, <1>10, <1>11 DEF IsoInv

LEMMA LoseIso ==
  ASSUME TypeOK, OpenInv, IsoInv, NEW c \in DOMAIN available, Lose(c)
  PROVE  IsoInv'
  <1>1. /\ UNCHANGED <<available, pc, handle, served, at, stored, lastId, told, answer, mixed>>
        /\ tx' = [tx EXCEPT ![c] = Closed] /\ lost' = lost \cup {c}
    BY DEF Lose, vars
  <1>2. /\ DOMAIN tx = DOMAIN available
        /\ tx'[c] = Closed /\ \A d \in DOMAIN available \ {c} : tx'[d] = tx[d]
    BY <1>1 DEF OpenInv, TxTypeOK
  <1>3. \A s \in Threads :
          Work(s)' = Work(s) /\ (Lone(s)' <=> Lone(s)) /\ Users(handle[s])' = Users(handle[s])
    BY <1>1 DEF Work, Lone, Users
  <1>4. IsoType'
    BY <1>1, <1>2 DEF IsoInv, IsoType, Closed
  <1>5. Alone'
    BY <1>1, <1>3 DEF IsoInv, Alone
  <1>6. PendingOwn'
    <2>1. \A d \in DOMAIN available : tx'[d].writes \subseteq tx[d].writes
      BY <1>2 DEF Closed
    <2>2. QED
      BY <1>1, <2>1 DEF IsoInv, PendingOwn, Current
  <1>7. NotBegun'
    BY <1>1 DEF IsoInv, NotBegun, Written
  <1>8. ASSUME NEW s \in Threads, Lone(s)' PROVE UnderWay(s)'
    <2>1. Lone(s) /\ UnderWay(s) /\ Work(s)' = Work(s) /\ handle[s] \in DOMAIN available
      BY <1>3, <1>8 DEF IsoInv, Lone, TypeOK
    <2>2. Written(Work(s))' = Written(Work(s)) /\ lost' # {}
      BY <1>1, <2>1 DEF Written
    <2>3. handle[s] \notin lost' => handle[s] \notin lost /\ tx'[handle[s]] = tx[handle[s]]
      BY <1>1, <1>2, <2>1
    <2>4. QED
      BY <1>1, <2>1, <2>2, <2>3 DEF UnderWay
  <1>9. ASSUME NEW w \in Works \ mixed PROVE Whole(w)'
    <2>1. Whole(w)
      BY DEF IsoInv
    <2>2. Written(w)' = Written(w) /\ Pieces(w)' = Pieces(w) /\ lost' # {}
      BY <1>1 DEF Written, Pieces
    <2>3. QED
      BY <1>1, <2>1, <2>2 DEF Whole
  <1>10. QED
    BY <1>1, <1>4, <1>5, <1>6, <1>7, <1>8, <1>9 DEF IsoInv

(* A connection goes back after the answer, or before the first statement  *)
(* that writes.                                                            *)
LEMMA GiveBackIso ==
  ASSUME TypeOK, OpenInv, IsoInv, NEW t \in Threads, GiveBack(t)
  PROVE  IsoInv'
  <1>1. /\ pc[t] = "using" /\ (\E next \in {"idle", "released"} : Return(t, next))
        /\ UNCHANGED <<served, tx, stored, lastId, told, lost, mixed>>
        /\ at' = [at EXCEPT ![t] = "none"] /\ at[t] \in {"return", First(t)}
        /\ \A s \in Threads \ {t} : handle'[s] = handle[s]
    BY DEF GiveBack, HandReturn, Unwind, TypeOK
  <1>2. DOMAIN available' = DOMAIN available
    BY <1>1, ReturnAvailable DEF TypeOK
  <1>3. pc'[t] # "using" /\ \A s \in Threads \ {t} : pc'[s] = "using" <=> pc[s] = "using"
    BY <1>1, ReturnControl
  <1>4. at'[t] = "none" /\ \A s \in Threads \ {t} : at'[s] = at[s]
    BY <1>1 DEF OpenInv, TxTypeOK
  <1>5. t \notin Completers \/ at[t] \notin Inside
    BY <1>1 DEF First, Inside
  <1>6. answer' = answer \/ (answer' = [answer EXCEPT ![Work(t)] = "refused"] /\ at[t] = First(t))
    BY DEF GiveBack
  <1>7. Work(t) \in Works /\ Work(t)[1] = t /\ Work(t)[2] = served[t]
    BY <1>1, WorkOf DEF IsoInv, IsoType
  <1>8. IsoType'
    <2>1. answer' \in [Works -> {"none", "done", "refused"}]
      BY <1>6 DEF IsoInv, IsoType
    <2>2. QED
      BY <1>1, <1>2, <1>3, <1>4, <2>1 DEF IsoInv, IsoType
  <1>9. ASSUME NEW w \in Works \ mixed, answer'[w] # answer[w]
        PROVE  answer'[w] = "refused" /\ Written(w) = {} /\ Current(w) /\ pc'[w[1]] # "using"
    <2>1. w = Work(t) /\ answer'[w] = "refused" /\ at[t] = First(t)
      BY <1>6, <1>9 DEF IsoInv, IsoType
    <2>2. Written(w) = {}
      BY <1>1, <2>1 DEF IsoInv, Lone, UnderWay, First
    <2>3. QED
      BY <1>1, <1>3, <1>7, <2>1, <2>2 DEF Current
  <1>10. QED
    BY <1>1, <1>2, <1>3, <1>4, <1>5, <1>8, <1>9, LeaveIso

LEMMA IsoInductive ==
  ASSUME PoolAssumption, TypeOK, TypeOK', OpenInv, IsoInv, [TxNext]_allVars
  PROVE  IsoInv'
  <1>1. ASSUME NEW t \in Threads, Borrow(t) PROVE IsoInv'
    <2>1. CASE pc'[t] = "using"
      BY <1>1, <2>1, LendIso
    <2>2. CASE pc'[t] # "using"
      <3>1. Wait(t) /\ pc[t] # "using" /\ UNCHANGED <<at, tx, stored, lastId, told, answer, lost>>
            /\ mixed \subseteq mixed'
        BY <1>1, <2>2 DEF Borrow, Get, Retry, Lend, TypeOK
      <3>2. UNCHANGED <<available, handle, served>> /\ pc' = [pc EXCEPT ![t] = "asleep"]
        BY <3>1 DEF Wait
      <3>3. \A s \in Threads : pc'[s] = "using" <=> pc[s] = "using"
        BY <3>1, <3>2 DEF TypeOK
      <3>4. IsoType'
        BY <3>1, <3>2, <3>3 DEF IsoInv, IsoType
      <3>5. QED
        BY <3>1, <3>2, <3>3, <3>4, LeaveIso
    <2>3. QED
      BY <2>1, <2>2
  <1>2. ASSUME UNCHANGED <<handle, served, txVars>>, DOMAIN available' = DOMAIN available,
               \A s \in Threads : pc'[s] = "using" <=> pc[s] = "using"
        PROVE  IsoInv'
    <2>1. IsoType'
      BY <1>2 DEF IsoInv, IsoType, txVars
    <2>2. QED
      BY <1>2, <2>1, LeaveIso DEF txVars
  <1>3. ASSUME NEW t \in Threads, Wake(t) PROVE IsoInv'
    BY <1>2, <1>3 DEF Wake, WakeSpuriously, TypeOK
  <1>4. ASSUME NEW t \in Threads, Release(t) PROVE IsoInv'
    <2>1. /\ pc[t] = "released" /\ Return(t, "idle") /\ UNCHANGED <<served, txVars>>
          /\ handle' = [handle EXCEPT ![t] = NoConn]
      BY <1>4 DEF Release, ScopeExit
    <2>2. DOMAIN available' = DOMAIN available
      BY <2>1, ReturnAvailable DEF TypeOK
    <2>3. \A s \in Threads : pc'[s] = "using" <=> pc[s] = "using"
      BY <2>1, ReturnControl
    <2>4. \A s \in Threads : pc[s] = "using" => handle'[s] = handle[s]
      BY <2>1 DEF TypeOK
    <2>5. IsoType'
      BY <2>1, <2>2, <2>3 DEF IsoInv, IsoType, txVars
    <2>6. QED
      BY <2>1, <2>2, <2>3, <2>4, <2>5, LeaveIso DEF txVars
  <1>5. CASE UNCHANGED allVars
    BY <1>2, <1>5 DEF allVars, vars
  <1>6. QED
    BY <1>1, <1>3, <1>4, <1>5, CallKeepsIso, GiveBackIso, LoseIso DEF TxNext, Proceed

(* A work that never shared its connection is stored completely or not at  *)
(* all and answered truly: whichever statements fail, whichever            *)
(* connections die, whatever the other threads do with each other's        *)
(* connections and whoever had this one before.                            *)
THEOREM AloneIsIsolated == TxSpec => []Isolated
  <1>1. TxInit => IsoInv
    BY DEF TxInit, Init, IsoInv, IsoType, Alone, Lone, PendingOwn, NotBegun, Whole, Closed,
           NoId, Written, Pieces
  <1>2. IsoInv => Isolated
    BY DEF IsoInv, Whole, Isolated
  <1>3. TxSpec => []TypeOK
    BY BorrowersRefinePool, TypeCorrect, PTL
  <1>4. TxSpec => []OpenInv
    <2>1. TxInit => OpenInv
      BY DEF TxInit, OpenInv, TxTypeOK, Closed, Inside
    <2>2. QED
      BY <2>1, <1>3, OpenInvStep, PoolAssumption, PTL DEF TxSpec
  <1>5. TypeOK /\ TypeOK' /\ OpenInv /\ IsoInv /\ [TxNext]_allVars => IsoInv'
    BY IsoInductive, PoolAssumption
  <1>6. QED
    BY <1>1, <1>2, <1>3, <1>4, <1>5, PTL DEF TxSpec
=============================================================================
