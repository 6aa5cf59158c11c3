------------------------------ MODULE Accounts -------------------------------
(***************************************************************************)
(* UserManager's accounts and the handlers of register, login and profile. *)
(* Nothing but the unique keys of the table users orders two requests: each*)
(* statement is a step of its own, on whatever connection the pool lends.  *)
(* Names stand for what the collation of MySQL takes as equal; the hash of *)
(* a password is equal to another when the passwords are.                  *)
(***************************************************************************)
EXTENDS Integers, Sequences, FiniteSets

CONSTANTS
  Threads,    \* the workers that handle requests
  Names, Emails, Passwords,
  Blank,      \* the empty name
  Nothing,    \* no request
  Requests    \* bound: how many requests each thread handles

ASSUME AccountsAssumption ==
  IsFiniteSet(Threads) /\ Blank \notin Names /\ Requests \in Nat

VARIABLES
  users,    \* the rows of the table users, by id (AUTO_INCREMENT)
  at,       \* at[t]: the statement that t executes next
  ask,      \* ask[t]: the request that t handles
  result,   \* result[t]: what is certain of its answer
  failed,   \* history: the threads that had a statement of the request fail
  handled   \* how many requests each thread has begun

vars == <<users, at, ask, result, failed, handled>>

(* The bodies of the requests; a change of profile is that of the user of  *)
(* the session.                                                            *)
Asks ==
  [kind : {"register"}, name : Names \cup {Blank}, email : Emails, password : Passwords]
    \cup [kind : {"login"}, name : Names, password : Passwords]
    \cup [kind : {"update"}, user : 1 .. 2, name : Names \cup {Blank}, email : Emails]

ASSUME NothingAssumption == Nothing \notin Asks

Registered == INSTANCE Registry

Init == Registered!Init /\ at = [t \in Threads |-> "idle"]
                        /\ handled = [t \in Threads |-> 0]

-----------------------------------------------------------------------------
(* The rows that the SELECT of register_user, or of update_profile for     *)
(* another user than by, would find, and that the unique keys forbid.      *)
Clash(r, by) ==
  \E u \in DOMAIN users \ {by} :
    users[u].name = r.name \/ users[u].email = r.email

Go(t, next, outcome) ==
  /\ at' = [at EXCEPT ![t] = next]
  /\ result' = [result EXCEPT ![t] = outcome]

Refused(t) == Go(t, "idle", "refused")

(* The statement fails: the connection is lost, a lock times out.          *)
Failing(t) == failed' = failed \cup {t}

(* The handler parses the body and refuses one with an empty name.         *)
Start(t, r) ==
  /\ at[t] = "idle" /\ handled[t] < Requests
  /\ r.kind = "update" => r.user \in DOMAIN users
  /\ handled' = [handled EXCEPT ![t] = @ + 1]
  /\ ask' = [ask EXCEPT ![t] = r]
  /\ failed' = failed \ {t}
  /\ at' = [at EXCEPT ![t] = r.kind]
  /\ result' = [result EXCEPT ![t] = "open"]
  /\ UNCHANGED users

Refuse(t) ==
  /\ at[t] \in {"register", "update"}
  /\ ask[t].name = Blank
  /\ Refused(t)
  /\ UNCHANGED <<users, failed>>

(* register_user: a SELECT that fails is taken for one that finds nothing. *)
CheckRegister(t) ==
  /\ at[t] = "register" /\ ask[t].name # Blank
  /\ \/ Clash(ask[t], 0) /\ Refused(t) /\ UNCHANGED failed
     \/ ~Clash(ask[t], 0) /\ Go(t, "insert", "open") /\ UNCHANGED failed
     \/ Failing(t) /\ Go(t, "insert", "open")
  /\ UNCHANGED users

(* Mutations: a table without the unique keys; an INSERT whose failure     *)
(* nobody notices.                                                         *)
InsertUnkeyed(t) ==
  /\ at[t] = "insert"
  /\ users' = Append(users, Registered!Row(ask[t]))
  /\ Go(t, "idle", "done") /\ UNCHANGED failed

InsertUnnoticed(t) ==
  /\ at[t] = "insert"
  /\ users' = IF Clash(ask[t], 0) THEN users ELSE Append(users, Registered!Row(ask[t]))
  /\ Go(t, "idle", "done") /\ UNCHANGED failed

(* The INSERT: the unique keys decide.  When the connection dies under it, *)
(* it may have been applied.                                               *)
Insert(t) ==
  /\ at[t] = "insert"
  /\ \/ /\ ~Clash(ask[t], 0)
        /\ users' = Append(users, Registered!Row(ask[t]))
        /\ \/ Go(t, "idle", "done") /\ UNCHANGED failed
           \/ Refused(t) /\ Failing(t)
     \/ Clash(ask[t], 0) /\ Refused(t) /\ UNCHANGED <<users, failed>>
     \/ Failing(t) /\ Refused(t) /\ UNCHANGED users

(* update_profile: here a SELECT that fails ends the request.              *)
CheckDuplicate(t) ==
  /\ at[t] = "update" /\ ask[t].name # Blank
  /\ \/ Clash(ask[t], ask[t].user) /\ Refused(t) /\ UNCHANGED failed
     \/ ~Clash(ask[t], ask[t].user) /\ Go(t, "change", "open") /\ UNCHANGED failed
     \/ Failing(t) /\ Refused(t)
  /\ UNCHANGED users

Update(t) ==
  LET r == ask[t]
      changed == [users EXCEPT ![r.user].name = r.name, ![r.user].email = r.email]
  IN
  /\ at[t] = "change"
  /\ \/ /\ ~Clash(r, r.user)
        /\ users' = changed
        /\ \/ Go(t, "reload", "done") /\ UNCHANGED failed
           \/ Refused(t) /\ Failing(t)
     \/ Clash(r, r.user) /\ Refused(t) /\ UNCHANGED <<users, failed>>
     \/ Failing(t) /\ Refused(t) /\ UNCHANGED users

(* get_user_by_id reads the profile for the answer; without it the handler *)
(* answers 500 although the change was made.                               *)
Reload(t) ==
  /\ at[t] = "reload"
  /\ \/ Go(t, "idle", "done") /\ UNCHANGED failed
     \/ Failing(t) /\ Refused(t)
  /\ UNCHANGED users

(* login: one SELECT by name, then the hashes are compared.                *)
Login(t) ==
  LET found == {u \in DOMAIN users : users[u].name = ask[t].name} IN
  /\ at[t] = "login"
  /\ \/ /\ Go(t, "idle", IF \E u \in found : users[u].password = ask[t].password
                         THEN "done" ELSE "refused")
        /\ UNCHANGED failed
     \/ Failing(t) /\ Refused(t)
  /\ UNCHANGED users

Step(t) ==
  /\ \/ Refuse(t)
     \/ CheckRegister(t) \/ Insert(t)
     \/ CheckDuplicate(t) \/ Update(t) \/ Reload(t)
     \/ Login(t)
  /\ UNCHANGED <<ask, handled>>

Next == \E t \in Threads : Step(t) \/ \E r \in Asks : Start(t, r)

Spec == Init /\ [][Next]_vars

-----------------------------------------------------------------------------
(* No two accounts have the same name or the same email, although the      *)
(* check and the change are two statements, a failing check lets a         *)
(* registration pass, and a rename sets free what another request waits    *)
(* for: a login by name finds at most one row.                             *)
OneAccountPerName ==
  \A u, v \in DOMAIN users :
    u # v => users[u].name # users[v].name /\ users[u].email # users[v].email

(* Registrations, logins and changes of profile are linearizable: each has *)
(* an instant at which it takes place as a whole, and "Username or email   *)
(* already exists" is the answer only if it was so at that instant or a    *)
(* statement of this very request failed.                                  *)
Linearizable == Registered!Spec
=============================================================================
