------------------------------ MODULE Registry -------------------------------
(***************************************************************************)
(* What UserManager promises of the accounts: a registration, a login and  *)
(* a change of profile each take place at one instant between the request  *)
(* and its answer.  It succeeds if at that instant its names are free (its *)
(* password is right), and it is refused only if they are not, or if a     *)
(* statement of the request failed.                                        *)
(***************************************************************************)
EXTENDS Integers, Sequences

CONSTANTS
  Threads,  \* the threads that handle requests
  Asks,     \* the requests: registrations, logins, changes of profile
  Nothing,  \* no request
  Blank     \* a name that was left empty

VARIABLES
  users,   \* the rows of the table users, by id
  ask,     \* ask[t]: the request that t handles
  result,  \* result[t]: "open", "done" or "refused"
  failed   \* the threads that had a statement of their request fail

vars == <<users, ask, result, failed>>

Row(r) == [name |-> r.name, email |-> r.email, password |-> r.password]
Rows == {Row(r) : r \in {q \in Asks : q.kind = "register" /\ q.name # Blank}}

(* Does a row other than that of user by have the name or the email?       *)
Taken(r, by) ==
  \E u \in DOMAIN users \ {by} :
    users[u].name = r.name \/ users[u].email = r.email

NoClash(table) ==
  \A u, v \in DOMAIN table :
    u # v => table[u].name # table[v].name /\ table[u].email # table[v].email

InOrder(r) ==
  /\ r.name # Blank
  /\ \/ r.kind = "register" /\ ~Taken(r, 0)
     \/ r.kind = "update" /\ ~Taken(r, r.user)
     \/ r.kind = "login" /\ \E u \in DOMAIN users :
          users[u].name = r.name /\ users[u].password = r.password

Applied(r) ==
  CASE r.kind = "register" -> Append(users, Row(r))
    [] r.kind = "update" ->
         [users EXCEPT ![r.user].name = r.name, ![r.user].email = r.email]
    [] r.kind = "login" -> users

Init ==
  /\ \E n \in 0 .. 2 : users \in {s \in [1 .. n -> Rows] : NoClash(s)}
  /\ ask = [t \in Threads |-> Nothing]
  /\ result = [t \in Threads |-> "open"]
  /\ failed = {}

Submit(t, r) ==
  /\ ask' = [ask EXCEPT ![t] = r]
  /\ result' = [result EXCEPT ![t] = "open"]
  /\ failed' = failed \ {t}
  /\ UNCHANGED users

Open(t) == ask[t] # Nothing /\ result[t] = "open"

Succeed(t) ==
  /\ Open(t)
  /\ InOrder(ask[t])
  /\ users' = Applied(ask[t])
  /\ result' = [result EXCEPT ![t] = "done"]
  /\ UNCHANGED <<ask, failed>>

Refuse(t) ==
  /\ Open(t)
  /\ ~InOrder(ask[t])
  /\ result' = [result EXCEPT ![t] = "refused"]
  /\ UNCHANGED <<users, ask, failed>>

(* A statement fails: the request may go on or be refused, and a change    *)
(* whose confirmation was lost has been made all the same.                 *)
Fail(t) ==
  /\ ask[t] # Nothing
  /\ failed' = failed \cup {t}
  /\ result' \in {result, [result EXCEPT ![t] = "refused"]}
  /\ \/ UNCHANGED users
     \/ Open(t) /\ InOrder(ask[t]) /\ users' = Applied(ask[t])
  /\ UNCHANGED ask

Next ==
  \E t \in Threads :
    \/ \E r \in Asks : Submit(t, r)
    \/ Succeed(t) \/ Refuse(t) \/ Fail(t)

Spec == Init /\ [][Next]_vars
=============================================================================
