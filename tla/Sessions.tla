------------------------------ MODULE Sessions -------------------------------
(***************************************************************************)
(* SessionManager (src/session_manager.cpp), the handlers that use it      *)
(* (src/http_handler.cpp: login, logout, the lookup of every other         *)
(* request) and the cleanup thread of the server (src/server.cpp).         *)
(*                                                                         *)
(* Sessions are stamped with the system clock, which may be set back and   *)
(* forward; the cleanup thread sleeps by the steady one.  One mutex        *)
(* protects the table, so each call of SessionManager is one step; logout  *)
(* makes two calls.                                                        *)
(* Tokens are taken to be fresh.                                           *)
(***************************************************************************)
EXTENDS Integers, FiniteSets

CONSTANTS
  Tokens,     \* tokens that generate_token may return
  Threads,    \* workers of the thread pool
  Timeout,    \* timeout_minutes
  Minute,     \* ticks of a minute
  Period,     \* ticks between two cleanups
  Lag,        \* bound on the ticks by which the cleanup thread is late
  Back,       \* ticks by which the system clock may be set back, or 0
  Ahead,      \* ticks by which the system clock may be set forward, or 0
  MaxAhead,   \* bound on the ticks that it is set forward in all
  MaxTime     \* bound on the ticks that pass

Never == -1
NoToken == "no token"

ASSUME SessionsAssumption ==
  /\ NoToken \notin Tokens
  /\ {Timeout, Lag, Back, Ahead, MaxAhead, MaxTime} \subseteq Nat
  /\ {Minute, Period} \subseteq Nat \ {0}

VARIABLES
  sessions,   \* the table: last_access of each token, or Never
  clock,      \* system_clock
  time,       \* the steady clock
  wake,       \* when the cleanup thread wakes up
  leaving,    \* the token that each thread is about to delete
  started,    \* history: the time of the login of each token, or Never
  ended,      \* history: "no", or how the holder of a token has lost it
  forward,    \* history: the ticks by which the system clock was set forward
  since       \* history: the value of forward at the login of each token

clocks == <<clock, time>>
history == <<started, ended, forward, since>>
vars == <<sessions, clocks, wake, leaving, history>>

Init ==
  /\ sessions = [k \in Tokens |-> Never]
  /\ clock = Back /\ time = 0
  /\ wake = Period
  /\ leaving = [t \in Threads |-> NoToken]
  /\ started = [k \in Tokens |-> Never]
  /\ ended = [k \in Tokens |-> "no"]
  /\ forward = 0
  /\ since = [k \in Tokens |-> 0]

(* A mutation: minutes >= timeout_minutes.                                 *)
ExpiredAtTimeout(k) == clock - sessions[k] >= Timeout * Minute

(* is_expired: the minutes that have passed, without their fraction,       *)
(* exceed the timeout: one minute more than it has passed in full.         *)
Lifetime == (Timeout + 1) * Minute
Expired(k) == clock - sessions[k] >= Lifetime

Valid(k) == sessions[k] # Never /\ ~Expired(k)

Lose(k, how) == ended' = [ended EXCEPT ![k] = IF @ = "no" THEN how ELSE @]

-----------------------------------------------------------------------------
Login(k) ==
  /\ started[k] = Never
  /\ sessions' = [sessions EXCEPT ![k] = clock]
  /\ started' = [started EXCEPT ![k] = time]
  /\ since' = [since EXCEPT ![k] = forward]
  /\ UNCHANGED <<clocks, wake, leaving, ended, forward>>

(* A mutation: the expired session stays in the table.                     *)
GetUserIdKeeping(k) ==
  /\ started[k] # Never
  /\ \/ Valid(k) /\ UNCHANGED ended
     \/ ~Valid(k) /\ Lose(k, "refused")
  /\ UNCHANGED <<sessions, started, forward, since>>

(* get_user_id: an expired session is erased; last_access is not touched.  *)
GetUserId(k) ==
  /\ started[k] # Never
  /\ \/ Valid(k) /\ UNCHANGED <<sessions, ended>>
     \/ /\ ~Valid(k)
        /\ sessions' = [sessions EXCEPT ![k] = Never]
        /\ Lose(k, "refused")
  /\ UNCHANGED <<started, forward, since>>

Request(k) == GetUserId(k) /\ UNCHANGED <<clocks, wake, leaving>>

LogoutCheck(t, k) ==
  /\ leaving[t] = NoToken
  /\ GetUserId(k)
  /\ leaving' = [leaving EXCEPT ![t] = IF Valid(k) THEN k ELSE NoToken]
  /\ UNCHANGED <<clocks, wake>>

(* delete_session: the session may have gone since the check.              *)
LogoutDelete(t) ==
  /\ leaving[t] # NoToken
  /\ sessions' = [sessions EXCEPT ![leaving[t]] = Never]
  /\ Lose(leaving[t], "logout")
  /\ leaving' = [leaving EXCEPT ![t] = NoToken]
  /\ UNCHANGED <<clocks, wake, started, forward, since>>

-----------------------------------------------------------------------------
(* Mutations: the loop ends with the first session it erases; the thread   *)
(* sleeps until a time of the system clock.                                *)
CleanupOne ==
  /\ time >= wake
  /\ \/ \E k \in Tokens : Expired(k) /\ sessions' = [sessions EXCEPT ![k] = Never]
     \/ (\A k \in Tokens : ~Expired(k)) /\ UNCHANGED sessions
  /\ wake' = time + Period
  /\ UNCHANGED <<clocks, leaving, history>>

CleanupByClock ==
  /\ time >= wake
  /\ sessions' = [k \in Tokens |-> IF Valid(k) THEN sessions[k] ELSE Never]
  /\ wake' = clock + Period - Back
  /\ UNCHANGED <<clocks, leaving, history>>

(* The thread sleeps, erases the expired sessions and sleeps again.        *)
Cleanup ==
  /\ time >= wake
  /\ sessions' = [k \in Tokens |-> IF Valid(k) THEN sessions[k] ELSE Never]
  /\ wake' = time + Period
  /\ UNCHANGED <<clocks, leaving, history>>

(* Time passes, but the cleanup thread is never more than Lag late.        *)
Tick ==
  /\ time < MaxTime
  /\ time < wake + Lag
  /\ time' = time + 1 /\ clock' = clock + 1
  /\ UNCHANGED <<sessions, wake, leaving, history>>

SetBack ==
  /\ Back > 0
  /\ clock >= Back
  /\ clock' = clock - Back
  /\ UNCHANGED <<sessions, time, wake, leaving, history>>

SetForward ==
  /\ Ahead > 0
  /\ forward + Ahead <= MaxAhead
  /\ clock' = clock + Ahead /\ forward' = forward + Ahead
  /\ UNCHANGED <<sessions, time, wake, leaving, started, ended, since>>

Next ==
  \/ \E k \in Tokens : Login(k) \/ Request(k)
  \/ \E t \in Threads : LogoutDelete(t) \/ \E k \in Tokens : LogoutCheck(t, k)
  \/ Cleanup \/ Tick \/ SetBack \/ SetForward

Spec == Init /\ [][Next]_vars

-----------------------------------------------------------------------------
(* Types; a token is in the table only after its login, and the cleanup    *)
(* thread, which sleeps by the steady clock, is not late.                  *)
TypeOK ==
  /\ sessions \in [Tokens -> Nat \cup {Never}]
  /\ clock \in Nat /\ time \in Nat
  /\ wake \in Nat /\ time <= wake + Lag
  /\ leaving \in [Threads -> Tokens \cup {NoToken}]
  /\ started \in [Tokens -> Nat \cup {Never}]
  /\ ended \in [Tokens -> {"no", "refused", "logout"}]
  /\ forward \in Nat /\ since \in [Tokens -> Nat]
  /\ \A k \in Tokens : started[k] = Never => sessions[k] = Never

(* A holder who was told that a session has ended, by a refusal or by the  *)
(* answer to a logout, is never accepted with it again, although the       *)
(* system clock may go back: get_user_id erases what it refuses.           *)
RefusedForEver == \A k \in Tokens : ended[k] # "no" => ~Valid(k)

(* Nobody is refused before the timeout has passed since the login, unless *)
(* the session was logged out: earlier only by the ticks that the system   *)
(* clock was set forward since.  A session in use is no exception, as      *)
(* get_user_id does not renew last_access.                                 *)
Age(k) == (time - started[k]) + (forward - since[k])
NotRefusedEarly == \A k \in Tokens : ended[k] = "refused" => Age(k) > Timeout * Minute

(* A session leaves the table at most a period of the cleanup thread, and  *)
(* its delay, after it has expired: later only by the ticks that the       *)
(* system clock was set back.                                              *)
TicksSetBack == Back + time + forward - clock
CollectedInTime ==
  \A k \in Tokens :
    sessions[k] # Never => time - started[k] < Lifetime + Period + Lag + TicksSetBack
=============================================================================
