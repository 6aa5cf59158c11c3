--------------------------- MODULE SessionsProofs ----------------------------
(***************************************************************************)
(* Theorems about Sessions, for all sets of tokens and threads, every      *)
(* timeout, period and delay and any number of times that the system clock *)
(* is set back or forward.                                                 *)
(***************************************************************************)
EXTENDS Sessions, TLAPS

LEMMA Constants ==
  /\ Timeout \in Nat /\ Lag \in Nat /\ Back \in Nat /\ Ahead \in Nat /\ MaxTime \in Nat
  /\ Minute \in Nat /\ Minute > 0
  /\ Period \in Nat /\ Period > 0
  /\ NoToken \notin Tokens
  BY SessionsAssumption

LEMMA LifetimeLong == Lifetime \in Nat /\ Lifetime > Timeout * Minute
  <1>1. Timeout * Minute \in Nat /\ Minute \in Nat /\ Minute > 0
    BY Constants
  <1>2. (Timeout + 1) * Minute = Timeout * Minute + Minute
    BY Constants
  <1> QED
    BY <1>1, <1>2 DEF Lifetime

(* What get_user_id does to the table, whoever calls it.                   *)
LEMMA LookupTypes ==
  ASSUME TypeOK, NEW k \in Tokens, GetUserId(k)
  PROVE  /\ sessions' \in [Tokens -> Nat \cup {Never}]
         /\ UNCHANGED <<started, forward, since>>
         /\ ended' \in [Tokens -> {"no", "refused", "logout"}]
         /\ \A l \in Tokens : sessions'[l] \in {sessions[l], Never}
  BY DEF TypeOK, GetUserId, Lose, Never

(* The types of the tables and the promptness of the cleanup thread.       *)
THEOREM TypeCorrect == Spec => []TypeOK
  <1>1. Init => TypeOK
    BY Constants DEF Init, TypeOK, Never
  <1>2. TypeOK /\ [Next]_vars => TypeOK'
    <2> SUFFICES ASSUME TypeOK, [Next]_vars PROVE TypeOK'
      OBVIOUS
    <2>1. ASSUME NEW k \in Tokens, Login(k) PROVE TypeOK'
      BY <2>1 DEF TypeOK, Login, clocks, Never
    <2>2. ASSUME NEW k \in Tokens, Request(k) PROVE TypeOK'
      <3>1. GetUserId(k) /\ UNCHANGED <<clocks, wake, leaving>>
        BY <2>2 DEF Request
      <3> QED
        BY <3>1, LookupTypes DEF TypeOK, clocks, Never
    <2>3. ASSUME NEW t \in Threads, NEW k \in Tokens, LogoutCheck(t, k) PROVE TypeOK'
      <3>1. GetUserId(k) /\ UNCHANGED <<clocks, wake>>
        BY <2>3 DEF LogoutCheck
      <3>2. leaving' \in [Threads -> Tokens \cup {NoToken}]
        BY <2>3 DEF LogoutCheck, TypeOK
      <3> QED
        BY <3>1, <3>2, LookupTypes DEF TypeOK, clocks, Never
    <2>4. ASSUME NEW t \in Threads, LogoutDelete(t) PROVE TypeOK'
      <3>1. leaving[t] \in Tokens
        BY <2>4 DEF LogoutDelete, TypeOK
      <3> QED
        BY <2>4, <3>1 DEF LogoutDelete, Lose, TypeOK, clocks, Never
    <2>5. CASE Cleanup
      BY <2>5, Constants DEF Cleanup, TypeOK, clocks, history, Never
    <2>6. CASE Tick
      BY <2>6, Constants DEF Tick, TypeOK, history, Never
    <2>7. CASE SetBack
      BY <2>7, Constants DEF SetBack, TypeOK, history, Never
    <2>8. CASE SetForward
      BY <2>8, Constants DEF SetForward, TypeOK, Never
    <2>9. CASE UNCHANGED vars
      BY <2>9 DEF vars, clocks, history, TypeOK
    <2> QED
      BY <2>1, <2>2, <2>3, <2>4, <2>5, <2>6, <2>7, <2>8, <2>9 DEF Next
  <1> QED
    BY <1>1, <1>2, PTL DEF Spec

-----------------------------------------------------------------------------
(* The table holds nothing of a session whose end was told.  That it is    *)
(* not valid would not be inductive: the clock may go back.                *)
Erased == \A k \in Tokens : ended[k] # "no" => started[k] # Never /\ sessions[k] = Never

(* A thread deletes only a session that somebody has logged into.          *)
LeavingStarted == \A t \in Threads : leaving[t] # NoToken => started[leaving[t]] # Never

LEMMA LookupErases ==
  ASSUME TypeOK, Erased, NEW k \in Tokens, GetUserId(k)
  PROVE  Erased'
  <1>1. CASE Valid(k)
    BY <1>1 DEF GetUserId, Erased, Valid
  <1>2. CASE ~Valid(k)
    <2>1. \A l \in Tokens \ {k} : ended'[l] = ended[l] /\ sessions'[l] = sessions[l]
      BY <1>2 DEF GetUserId, Lose, TypeOK
    <2>2. sessions'[k] = Never /\ started[k] # Never /\ started' = started
      BY <1>2 DEF GetUserId, TypeOK
    <2> QED
      BY <2>1, <2>2 DEF Erased
  <1> QED
    BY <1>1, <1>2

LEMMA ErasedInductive ==
  TypeOK /\ Erased /\ LeavingStarted /\ [Next]_vars => Erased' /\ LeavingStarted'
  <1> SUFFICES ASSUME TypeOK, Erased, LeavingStarted, [Next]_vars
               PROVE  Erased' /\ LeavingStarted'
    OBVIOUS
  <1>1. ASSUME NEW k \in Tokens, Login(k) PROVE Erased' /\ LeavingStarted'
    <2>1. Erased'
      BY <1>1 DEF Login, Erased, TypeOK, Never
    <2>2. \A l \in Tokens : started[l] # Never => started'[l] # Never
      BY <1>1 DEF Login, TypeOK, Never
    <2>3. leaving' = leaving /\ \A t \in Threads : leaving[t] # NoToken => leaving[t] \in Tokens
      BY <1>1 DEF Login, TypeOK
    <2> QED
      BY <2>1, <2>2, <2>3 DEF LeavingStarted
  <1>2. ASSUME NEW k \in Tokens, Request(k) PROVE Erased' /\ LeavingStarted'
    BY <1>2, LookupErases DEF Request, GetUserId, LeavingStarted
  <1>3. ASSUME NEW t \in Threads, NEW k \in Tokens, LogoutCheck(t, k)
        PROVE  Erased' /\ LeavingStarted'
    <2>1. Erased'
      BY <1>3, LookupErases DEF LogoutCheck
    <2>2. started' = started /\ started[k] # Never
      BY <1>3 DEF LogoutCheck, GetUserId
    <2>3. \A s \in Threads : leaving'[s] \in {leaving[s], k, NoToken}
      BY <1>3 DEF LogoutCheck, TypeOK
    <2> QED
      BY <2>1, <2>2, <2>3 DEF LeavingStarted
  <1>4. ASSUME NEW t \in Threads, LogoutDelete(t) PROVE Erased' /\ LeavingStarted'
    <2> DEFINE k == leaving[t]
    <2>1. k \in Tokens /\ started[k] # Never /\ started' = started
      BY <1>4 DEF LogoutDelete, TypeOK, LeavingStarted
    <2>2. sessions'[k] = Never
      BY <1>4, <2>1 DEF LogoutDelete, TypeOK
    <2>3. \A l \in Tokens \ {k} : ended'[l] = ended[l] /\ sessions'[l] = sessions[l]
      BY <1>4, <2>1 DEF LogoutDelete, Lose, TypeOK
    <2>4. \A s \in Threads : leaving'[s] \in {leaving[s], NoToken}
      BY <1>4 DEF LogoutDelete, TypeOK
    <2> QED
      BY <2>1, <2>2, <2>3, <2>4 DEF Erased, LeavingStarted
  <1>5. CASE Cleanup
    BY <1>5 DEF Cleanup, Erased, LeavingStarted, history
  <1>6. CASE Tick
    BY <1>6 DEF Tick, Erased, LeavingStarted, history
  <1>7. CASE SetBack
    BY <1>7 DEF SetBack, Erased, LeavingStarted, history
  <1>8. CASE SetForward
    BY <1>8 DEF SetForward, Erased, LeavingStarted
  <1>9. CASE UNCHANGED vars
    BY <1>9 DEF vars, clocks, history, Erased, LeavingStarted
  <1> QED
    BY <1>1, <1>2, <1>3, <1>4, <1>5, <1>6, <1>7, <1>8, <1>9 DEF Next

(* A session whose end was told is never accepted again, however often the *)
(* system clock is set.                                                    *)
THEOREM NeverAcceptedAgain == Spec => []RefusedForEver
  <1>1. Init => Erased /\ LeavingStarted
    BY DEF Init, Erased, LeavingStarted
  <1>2. Erased => RefusedForEver
    BY DEF Erased, RefusedForEver, Valid
  <1> QED
    BY <1>1, <1>2, TypeCorrect, ErasedInductive, PTL DEF Spec

-----------------------------------------------------------------------------
(* By the system clock no session is older than its age, which counts what *)
(* the clock is set forward and not what it is set back; and who was       *)
(* refused had the session for a lifetime of that age.                     *)
NoOlder == /\ \A k \in Tokens : sessions[k] # Never => clock - sessions[k] <= Age(k)
           /\ \A k \in Tokens : since[k] <= forward
Lasted == \A k \in Tokens : ended[k] = "refused" => Age(k) >= Lifetime

(* An erased session was valid until then, or its refusal comes after an   *)
(* earlier end: by cleanup, after its lifetime, or by a logout.            *)
Gone == \A k \in Tokens :
  started[k] # Never /\ sessions[k] = Never =>
    ended[k] = "logout" \/ Age(k) >= Lifetime

Ages == NoOlder /\ Lasted /\ Gone

LEMMA LookupAges ==
  ASSUME TypeOK, Ages, NEW k \in Tokens, GetUserId(k), UNCHANGED clocks
  PROVE  Ages'
  <1> USE LifetimeLong
  <1>1. /\ time \in Nat /\ clock \in Nat /\ UNCHANGED <<time, clock, started, forward, since>>
        /\ forward \in Nat /\ \A l \in Tokens : since[l] \in Nat /\ Age(l)' = Age(l)
    BY DEF TypeOK, clocks, GetUserId, Age
  <1>2. CASE Valid(k)
    BY <1>1, <1>2 DEF GetUserId, Ages, NoOlder, Lasted, Gone
  <1>3. CASE ~Valid(k)
    <2>1. \A l \in Tokens \ {k} : ended'[l] = ended[l] /\ sessions'[l] = sessions[l]
      BY <1>3 DEF GetUserId, Lose, TypeOK
    <2>2. sessions'[k] = Never /\ started[k] \in Nat
      BY <1>3 DEF GetUserId, TypeOK
    <2>3. ended[k] = "logout" \/ Age(k) >= Lifetime
      <3>1. CASE sessions[k] = Never
        BY <3>1, <2>2 DEF Ages, Gone, Never
      <3>2. CASE sessions[k] # Never
        <4>1. clock - sessions[k] >= Lifetime
          BY <3>2, <1>3 DEF Valid, Expired
        <4>2. clock - sessions[k] <= Age(k) /\ sessions[k] \in Nat
          BY <3>2 DEF Ages, NoOlder, TypeOK
        <4> QED
          BY <4>1, <4>2, <1>1, <2>2 DEF Age
      <3> QED
        BY <3>1, <3>2
    <2>4. ended'[k] = IF ended[k] = "no" THEN "refused" ELSE ended[k]
      BY <1>3 DEF GetUserId, Lose, TypeOK
    <2> QED
      BY <1>1, <2>1, <2>2, <2>3, <2>4 DEF Ages, NoOlder, Lasted, Gone
  <1> QED
    BY <1>2, <1>3

LEMMA AgesInductive ==
  TypeOK /\ Erased /\ LeavingStarted /\ Ages /\ [Next]_vars => Ages'
  <1> SUFFICES ASSUME TypeOK, Erased, LeavingStarted, Ages, [Next]_vars PROVE Ages'
    OBVIOUS
  <1> USE LifetimeLong
  <1>0. /\ time \in Nat /\ clock \in Nat /\ forward \in Nat
        /\ \A k \in Tokens : started[k] \in Nat \cup {Never} /\ sessions[k] \in Nat \cup {Never}
        /\ \A k \in Tokens : since[k] \in Nat
    BY DEF TypeOK
  <1>1. ASSUME NEW k \in Tokens, Login(k) PROVE Ages'
    <2>1. \A l \in Tokens \ {k} : /\ sessions'[l] = sessions[l] /\ started'[l] = started[l]
                                  /\ since'[l] = since[l]
      BY <1>1 DEF Login, TypeOK
    <2>2. sessions'[k] = clock /\ started'[k] = time /\ started[k] = Never /\ since'[k] = forward
      BY <1>1 DEF Login, TypeOK
    <2>3. UNCHANGED <<time, clock, ended, forward>>
      BY <1>1 DEF Login, clocks
    <2>4. ended[k] = "no"
      BY <2>2 DEF Erased
    <2> QED
      BY <1>0, <2>1, <2>2, <2>3, <2>4 DEF Ages, NoOlder, Lasted, Gone, Never, Age
  <1>2. ASSUME NEW k \in Tokens, Request(k) PROVE Ages'
    BY <1>2, LookupAges DEF Request
  <1>3. ASSUME NEW t \in Threads, NEW k \in Tokens, LogoutCheck(t, k) PROVE Ages'
    BY <1>3, LookupAges DEF LogoutCheck, clocks
  <1>4. ASSUME NEW t \in Threads, LogoutDelete(t) PROVE Ages'
    <2> DEFINE k == leaving[t]
    <2>1. k \in Tokens
      BY <1>4 DEF LogoutDelete, TypeOK
    <2>2. sessions'[k] = Never /\ UNCHANGED <<time, clock, started, forward, since>>
      BY <1>4, <2>1 DEF LogoutDelete, TypeOK, clocks
    <2>3. \A l \in Tokens \ {k} : ended'[l] = ended[l] /\ sessions'[l] = sessions[l]
      BY <1>4, <2>1 DEF LogoutDelete, Lose, TypeOK
    <2>4. ended'[k] = (IF ended[k] = "no" THEN "logout" ELSE ended[k])
      BY <1>4, <2>1 DEF LogoutDelete, Lose, TypeOK
    <2>5. ended[k] \in {"no", "refused", "logout"}
      BY <2>1 DEF TypeOK
    <2> HIDE DEF k
    <2> QED
      BY <2>1, <2>2, <2>3, <2>4, <2>5 DEF Ages, NoOlder, Lasted, Gone, Age
  <1>5. CASE Cleanup
    <2>1. UNCHANGED <<time, clock, started, ended, forward, since>>
      BY <1>5 DEF Cleanup, clocks, history
    <2>2. \A l \in Tokens : sessions'[l] = (IF Valid(l) THEN sessions[l] ELSE Never)
      BY <1>5 DEF Cleanup
    <2>3. ASSUME NEW l \in Tokens, sessions[l] # Never, ~Valid(l), started[l] # Never
          PROVE  Age(l) >= Lifetime
      BY <1>0, <2>3 DEF Valid, Expired, Ages, NoOlder, Never, Age
    <2> QED
      BY <2>1, <2>2, <2>3 DEF Ages, NoOlder, Lasted, Gone, Age
  <1>6. CASE Tick
    <2>1. /\ time' = time + 1 /\ clock' = clock + 1
          /\ UNCHANGED <<sessions, started, ended, forward, since>>
      BY <1>6 DEF Tick, history
    <2>2. \A l \in Tokens : sessions[l] # Never \/ ended[l] = "refused" => started[l] \in Nat
      BY <1>0 DEF Erased, TypeOK
    <2> QED
      BY <1>0, <2>1, <2>2 DEF Ages, NoOlder, Lasted, Gone, Never, Age
  <1>7. CASE SetBack
    <2>1. /\ clock' = clock - Back /\ UNCHANGED <<time, sessions, started, ended, forward, since>>
          /\ Back \in Nat
      BY <1>7, Constants DEF SetBack, history
    <2>2. \A l \in Tokens : sessions[l] # Never => started[l] \in Nat
      BY <1>0 DEF TypeOK
    <2> QED
      BY <1>0, <2>1, <2>2 DEF Ages, NoOlder, Lasted, Gone, Never, Age
  <1>8. CASE SetForward
    <2>1. /\ clock' = clock + Ahead /\ forward' = forward + Ahead /\ Ahead \in Nat
          /\ UNCHANGED <<time, sessions, started, ended, since>>
      BY <1>8, Constants DEF SetForward
    <2>2. \A l \in Tokens : sessions[l] # Never \/ ended[l] = "refused" => started[l] \in Nat
      BY <1>0 DEF Erased, TypeOK
    <2> QED
      BY <1>0, <2>1, <2>2 DEF Ages, NoOlder, Lasted, Gone, Never, Age
  <1>9. CASE UNCHANGED vars
    BY <1>9 DEF vars, clocks, history, Ages, NoOlder, Lasted, Gone, Age
  <1> QED
    BY <1>1, <1>2, <1>3, <1>4, <1>5, <1>6, <1>7, <1>8, <1>9 DEF Next

(* Nobody is refused within the timeout, but after a logout: the ticks     *)
(* that the system clock was set forward since the login are counted.      *)
THEOREM RefusedOnlyAfterTimeout == Spec => []NotRefusedEarly
  <1>1. Init => Erased /\ LeavingStarted /\ Ages
    BY DEF Init, Erased, LeavingStarted, Ages, NoOlder, Lasted, Gone, Never, Age
  <1>2. TypeOK /\ Erased /\ Ages => NotRefusedEarly
    <2> SUFFICES ASSUME TypeOK, Erased, Ages, NEW k \in Tokens, ended[k] = "refused"
                 PROVE  Age(k) > Timeout * Minute
      BY DEF NotRefusedEarly
    <2>1. Age(k) >= Lifetime
      BY DEF Ages, Lasted
    <2>2. Age(k) \in Int
      BY DEF Erased, TypeOK, Never, Age
    <2>3. Timeout * Minute \in Nat
      BY Constants
    <2> QED
      BY <2>1, <2>2, <2>3, LifetimeLong
  <1> QED
    BY <1>1, <1>2, TypeCorrect, ErasedInductive, AgesInductive, PTL DEF Spec

-----------------------------------------------------------------------------
(* No session is stamped later than the system clock could be, and the     *)
(* last cleanup, at wake - Period, has left no session that had reached    *)
(* its lifetime but for the ticks that the clock was set back.             *)
Stamped == /\ TicksSetBack >= 0
           /\ \A k \in Tokens :
                sessions[k] # Never => sessions[k] <= Back + started[k] + since[k]
           /\ \A k \in Tokens : since[k] <= forward
Swept == /\ time >= wake - Period
         /\ \A k \in Tokens :
              sessions[k] # Never => (wake - Period) - started[k] < Lifetime + TicksSetBack

LEMMA SweptInductive ==
  ASSUME TypeOK, Stamped, Swept, [Next]_vars
  PROVE  Stamped' /\ Swept'
  <1> Lifetime \in Nat /\ Lifetime > 0 /\ Period \in Nat /\ Back \in Nat
    <2> Timeout * Minute \in Nat
      BY Constants
    <2> QED
      BY LifetimeLong, Constants
  <1>0. /\ time \in Nat /\ clock \in Nat /\ wake \in Nat /\ forward \in Nat
        /\ \A k \in Tokens : since[k] \in Nat
        /\ \A k \in Tokens : sessions[k] # Never => sessions[k] \in Nat /\ started[k] \in Nat
    BY DEF TypeOK, Never
  <1>1. ASSUME NEW k \in Tokens, Login(k) PROVE Stamped' /\ Swept'
    <2>1. \A l \in Tokens \ {k} : /\ sessions'[l] = sessions[l] /\ started'[l] = started[l]
                                  /\ since'[l] = since[l]
      BY <1>1 DEF Login, TypeOK
    <2>2. sessions'[k] = clock /\ started'[k] = time /\ since'[k] = forward
      BY <1>1 DEF Login, TypeOK
    <2>3. UNCHANGED <<time, clock, wake, forward>>
      BY <1>1 DEF Login, clocks
    <2> QED
      BY <1>0, <2>1, <2>2, <2>3 DEF Stamped, Swept, TicksSetBack
  <1>2. ASSUME NEW k \in Tokens, Request(k) PROVE Stamped' /\ Swept'
    <2>1. GetUserId(k) /\ UNCHANGED <<time, clock, wake>>
      BY <1>2 DEF Request, clocks
    <2> QED
      BY <2>1, LookupTypes DEF Stamped, Swept, TicksSetBack
  <1>3. ASSUME NEW t \in Threads, NEW k \in Tokens, LogoutCheck(t, k)
        PROVE  Stamped' /\ Swept'
    <2>1. GetUserId(k) /\ UNCHANGED <<time, clock, wake>>
      BY <1>3 DEF LogoutCheck, clocks
    <2> QED
      BY <2>1, LookupTypes DEF Stamped, Swept, TicksSetBack
  <1>4. ASSUME NEW t \in Threads, LogoutDelete(t) PROVE Stamped' /\ Swept'
    <2>1. UNCHANGED <<time, clock, wake, started, forward, since>>
      BY <1>4 DEF LogoutDelete, clocks
    <2>2. \A l \in Tokens : sessions'[l] \in {sessions[l], Never}
      BY <1>4 DEF LogoutDelete, TypeOK
    <2> QED
      BY <2>1, <2>2 DEF Stamped, Swept, TicksSetBack
  <1>5. CASE Cleanup
    <2>1. UNCHANGED <<time, clock, started, forward, since>> /\ wake' = time + Period
      BY <1>5 DEF Cleanup, clocks, history
    <2>2. \A l \in Tokens : sessions'[l] = (IF Valid(l) THEN sessions[l] ELSE Never)
      BY <1>5 DEF Cleanup
    <2>3. ASSUME NEW l \in Tokens, Valid(l)
          PROVE  /\ time - started[l] < Lifetime + TicksSetBack
                 /\ sessions[l] <= Back + started[l] + since[l]
      <3>1. sessions[l] # Never /\ ~(clock - sessions[l] >= Lifetime)
        BY <2>3 DEF Valid, Expired
      <3>2. sessions[l] <= Back + started[l] + since[l] /\ since[l] <= forward
        BY <2>3, <3>1 DEF Stamped
      <3>3. sessions[l] \in Nat /\ started[l] \in Nat
        BY <2>3, <3>1 DEF TypeOK, Never
      <3> QED
        BY <1>0, <3>1, <3>2, <3>3 DEF TicksSetBack
    <2>4. wake' - Period = time /\ TicksSetBack' = TicksSetBack
      BY <2>1, <1>0 DEF TicksSetBack
    <2>5. Stamped'
      BY <2>1, <2>2, <2>3, <2>4 DEF Stamped
    <2>6. Swept'
      BY <1>0, <2>1, <2>2, <2>3, <2>4 DEF Swept
    <2> QED
      BY <2>5, <2>6
  <1>6. CASE Tick
    <2>1. /\ time' = time + 1 /\ clock' = clock + 1
          /\ UNCHANGED <<sessions, started, wake, forward, since>>
      BY <1>6 DEF Tick, history
    <2>2. TicksSetBack' = TicksSetBack
      BY <1>0, <2>1 DEF TicksSetBack
    <2>3. Stamped'
      BY <2>1, <2>2 DEF Stamped
    <2>4. Swept'
      BY <1>0, <2>1, <2>2 DEF Swept
    <2> QED
      BY <2>3, <2>4
  <1>7. CASE SetBack
    <2>1. clock' = clock - Back /\ UNCHANGED <<time, sessions, started, wake, forward, since>>
      BY <1>7 DEF SetBack, history
    <2>2. TicksSetBack' = TicksSetBack + Back /\ TicksSetBack \in Int
      BY <1>0, <2>1 DEF TicksSetBack
    <2>3. Stamped'
      BY <2>1, <2>2 DEF Stamped
    <2>4. ASSUME NEW l \in Tokens, sessions[l] # Never
          PROVE  (wake - Period) - started[l] < Lifetime + TicksSetBack'
      <3>1. (wake - Period) - started[l] < Lifetime + TicksSetBack
        BY <2>4 DEF Swept
      <3>2. started[l] \in Nat
        BY <2>4 DEF TypeOK, Never
      <3> QED
        BY <1>0, <2>2, <3>1, <3>2
    <2> QED
      BY <2>1, <2>3, <2>4 DEF Swept
  <1>8. CASE SetForward
    <2>1. /\ clock' = clock + Ahead /\ forward' = forward + Ahead /\ Ahead \in Nat
          /\ UNCHANGED <<time, sessions, started, wake, since>>
      BY <1>8, Constants DEF SetForward
    <2>2. TicksSetBack' = TicksSetBack
      BY <1>0, <2>1 DEF TicksSetBack
    <2>3. Stamped'
      BY <1>0, <2>1, <2>2 DEF Stamped
    <2>4. Swept'
      BY <2>1, <2>2 DEF Swept
    <2> QED
      BY <2>3, <2>4
  <1>9. CASE UNCHANGED vars
    BY <1>9 DEF vars, clocks, history, Stamped, Swept, TicksSetBack
  <1> QED
    BY <1>1, <1>2, <1>3, <1>4, <1>5, <1>6, <1>7, <1>8, <1>9 DEF Next

(* An expired session leaves the table within one period of the cleanup    *)
(* thread and its delay, whether or not anybody asks for it; each tick     *)
(* that the clock is set back keeps it for one tick more, at most.         *)
THEOREM ExpiredCollected == Spec => []CollectedInTime
  <1>1. Init => Stamped /\ Swept
    BY Constants DEF Init, Stamped, Swept, TicksSetBack, Never
  <1>2. TypeOK /\ Stamped /\ Swept /\ [Next]_vars => Stamped' /\ Swept'
    BY SweptInductive
  <1>3. TypeOK /\ Swept => CollectedInTime
    <2> SUFFICES ASSUME TypeOK, Swept, NEW k \in Tokens, sessions[k] # Never
                 PROVE  time - started[k] < Lifetime + Period + Lag + TicksSetBack
      BY DEF CollectedInTime
    <2>1. (wake - Period) - started[k] < Lifetime + TicksSetBack
      BY DEF Swept
    <2>2. /\ time <= wake + Lag /\ time \in Nat /\ wake \in Nat /\ started[k] \in Nat
          /\ TicksSetBack \in Int
      BY Constants DEF TypeOK, Never, TicksSetBack
    <2>3. Lifetime \in Nat /\ Period \in Nat /\ Lag \in Nat
      BY Constants, LifetimeLong
    <2> QED
      BY <2>1, <2>2, <2>3
  <1> QED
    BY <1>1, <1>2, <1>3, TypeCorrect, PTL DEF Spec
=============================================================================
