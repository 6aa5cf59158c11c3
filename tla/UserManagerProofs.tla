------------------------- MODULE UserManagerProofs ---------------------------
(* Proofs about the two halves of UserManager.  Accounts, for every set of *)
(* workers, names, emails and passwords: the unique keys keep the accounts *)
(* apart, and the requests are linearizable although their statements      *)
(* interleave.  Messages, for any number of users, messages, requests      *)
(* under way and faults: only its receiver marks a message as read.        *)
EXTENDS Accounts, MessageTable, SequenceTheorems, TLAPS

RowType == [name : Names, email : Emails, password : Passwords]

(* What a request is, where it stands, and what is certain of its answer.  *)
AskType(t) ==
  /\ at[t] \in {"register", "insert"} =>
       ask[t] \in [kind : {"register"}, name : Names \cup {Blank},
                   email : Emails, password : Passwords]
  /\ at[t] \in {"update", "change", "reload"} =>
       /\ ask[t] \in [kind : {"update"}, user : 1 .. 2,
                      name : Names \cup {Blank}, email : Emails]
       /\ ask[t].user \in DOMAIN users
  /\ at[t] = "login" =>
       ask[t] \in [kind : {"login"}, name : Names, password : Passwords]
  /\ at[t] \in {"insert", "change"} => ask[t].name # Blank
  /\ at[t] \notin {"idle", "reload"} => result[t] = "open"
  /\ at[t] = "reload" => result[t] = "done"

(* The inductive invariant under both results.                             *)
AccInv ==
  /\ users \in Seq(RowType)
  /\ at \in [Threads -> {"idle", "register", "insert", "update", "change",
                         "reload", "login"}]
  /\ ask \in [Threads -> Asks \cup {Nothing}]
  /\ result \in [Threads -> {"open", "done", "refused"}]
  /\ \A t \in Threads : AskType(t)

LEMMA AccInit == Init => AccInv /\ OneAccountPerName
  <1> SUFFICES ASSUME Init PROVE AccInv /\ OneAccountPerName
    OBVIOUS
  <1>1. PICK n \in 0 .. 2 :
          users \in {s \in [1 .. n -> Registered!Rows] : Registered!NoClash(s)}
    BY DEF Init, Registered!Init
  <1>2. Registered!Rows \subseteq RowType
    BY DEF Registered!Rows, Registered!Row, Asks, RowType
  <1>3. users \in [1 .. n -> RowType] /\ n \in Nat
    BY <1>1, <1>2
  <1>4. users \in Seq(RowType)
    BY <1>3, SeqDef
  <1>5. OneAccountPerName
    BY <1>1 DEF Registered!NoClash, OneAccountPerName
  <1>6. QED
    BY <1>4, <1>5 DEF Init, Registered!Init, AccInv, AskType

(* A step of one request that leaves the table alone, or only lets it grow *)
(* or change in place, disturbs nobody else's request.                     *)
LEMMA OthersAsk ==
  ASSUME AccInv, NEW t \in Threads,
         NEW where \in {"idle", "register", "insert", "update", "change", "reload", "login"},
         NEW outcome \in {"open", "done", "refused"},
         at' = [at EXCEPT ![t] = where],
         result' = [result EXCEPT ![t] = outcome],
         ask' \in [Threads -> Asks \cup {Nothing}],
         \A s \in Threads \ {t} : ask'[s] = ask[s],
         users' \in Seq(RowType), DOMAIN users \subseteq DOMAIN users',
         AskType(t)'
  PROVE  AccInv'
  <1>1. ASSUME NEW s \in Threads \ {t} PROVE AskType(s)'
    <2>1. AskType(s) /\ at'[s] = at[s] /\ result'[s] = result[s] /\ ask'[s] = ask[s]
      BY DEF AccInv
    <2>2. QED
      BY <2>1 DEF AskType
  <1>2. QED
    BY <1>1 DEF AccInv

(* What INSERT and UPDATE make of the table.                               *)
LEMMA InsertedRow ==
  ASSUME AccInv, NEW t \in Threads, at[t] = "insert"
  PROVE  LET more == Append(users, Registered!Row(ask[t])) IN
         /\ more \in Seq(RowType)
         /\ DOMAIN more = DOMAIN users \cup {Len(users) + 1}
         /\ \A u \in DOMAIN users : more[u] = users[u]
         /\ more[Len(users) + 1] = Registered!Row(ask[t])
  <1>1. Registered!Row(ask[t]) \in RowType
    BY DEF AccInv, AskType, RowType, Registered!Row
  <1>2. users \in Seq(RowType)
    BY DEF AccInv
  <1>3. QED
    BY <1>1, <1>2

LEMMA UpdatedRow ==
  ASSUME AccInv, NEW t \in Threads, at[t] = "change"
  PROVE  LET r == ask[t]
             changed == [users EXCEPT ![r.user].name = r.name, ![r.user].email = r.email]
         IN
         /\ r.user \in DOMAIN users
         /\ changed \in Seq(RowType) /\ DOMAIN changed = DOMAIN users
         /\ \A u \in DOMAIN users \ {r.user} : changed[u] = users[u]
         /\ changed[r.user].name = r.name /\ changed[r.user].email = r.email
  <1>. DEFINE r == ask[t]
              changed == [users EXCEPT ![r.user].name = r.name, ![r.user].email = r.email]
  <1>1. /\ r.user \in DOMAIN users /\ r.name \in Names /\ r.email \in Emails
        /\ users \in Seq(RowType)
    BY DEF AccInv, AskType
  <1>2. PICK n \in Nat : users \in [1 .. n -> RowType]
    BY <1>1, SeqDef
  <1>3. changed = [users EXCEPT ![r.user] =
                     [users[r.user] EXCEPT !.name = r.name, !.email = r.email]]
    BY <1>1, <1>2 DEF RowType
  <1>4. /\ [users[r.user] EXCEPT !.name = r.name, !.email = r.email] \in RowType
        /\ [users[r.user] EXCEPT !.name = r.name, !.email = r.email].name = r.name
        /\ [users[r.user] EXCEPT !.name = r.name, !.email = r.email].email = r.email
    BY <1>1, <1>2 DEF RowType
  <1>5. changed \in [1 .. n -> RowType]
    BY <1>2, <1>3, <1>4
  <1>6. changed \in Seq(RowType)
    BY <1>5, SeqDef
  <1>7. QED
    BY <1>1, <1>2, <1>3, <1>4, <1>5, <1>6

LEMMA AccStep == AccInv /\ [Next]_vars => AccInv'
  <1> SUFFICES ASSUME AccInv, [Next]_vars PROVE AccInv'
    OBVIOUS
  <1>0. /\ users \in Seq(RowType)
        /\ ask \in [Threads -> Asks \cup {Nothing}]
    BY DEF AccInv
  <1>1. ASSUME NEW t \in Threads, NEW r \in Asks, Start(t, r) PROVE AccInv'
    <2>1. /\ at' = [at EXCEPT ![t] = r.kind] /\ result' = [result EXCEPT ![t] = "open"]
          /\ ask' = [ask EXCEPT ![t] = r] /\ UNCHANGED users
          /\ r.kind = "update" => r.user \in DOMAIN users
      BY <1>1 DEF Start
    <2>2. r.kind \in {"register", "login", "update"}
      BY DEF Asks
    <2>3. at'[t] = r.kind /\ ask'[t] = r /\ result'[t] = "open"
      BY <1>0, <2>1 DEF AccInv
    <2>4. AskType(t)'
      BY <2>1, <2>2, <2>3 DEF AskType, Asks
    <2>5. QED
      BY <1>0, <2>1, <2>2, <2>4, OthersAsk
  <1>2. ASSUME NEW t \in Threads, Step(t) PROVE AccInv'
    <2>0. ask' = ask /\ AskType(t)
      BY <1>2 DEF Step, AccInv
    <2>. DEFINE Moves(where, outcome) ==
           /\ at' = [at EXCEPT ![t] = where] /\ at'[t] = where
           /\ result' = [result EXCEPT ![t] = outcome] /\ result'[t] = outcome
    <2>1. ASSUME UNCHANGED users, NEW outcome \in {"done", "refused"},
                 Go(t, "idle", outcome)
          PROVE  AccInv'
      <3>1. Moves("idle", outcome)
        BY <2>1 DEF Go, AccInv
      <3>2. AskType(t)'
        BY <3>1 DEF AskType
      <3>3. QED
        BY <1>0, <2>0, <2>1, <3>1, <3>2, OthersAsk
    <2>2. ASSUME CheckRegister(t) \/ CheckDuplicate(t) PROVE AccInv'
      <3>1. CASE Refused(t)
        BY <2>1, <2>2, <3>1 DEF CheckRegister, CheckDuplicate, Refused
      <3>2. CASE at[t] = "register" /\ ask[t].name # Blank /\ Go(t, "insert", "open")
        <4>1. Moves("insert", "open")
          BY <3>2 DEF Go, AccInv
        <4>2. AskType(t)'
          BY <2>0, <3>2, <4>1 DEF AskType
        <4>3. QED
          BY <1>0, <2>0, <2>2, <4>1, <4>2, OthersAsk DEF CheckRegister, CheckDuplicate
      <3>3. CASE at[t] = "update" /\ ask[t].name # Blank /\ Go(t, "change", "open")
        <4>1. Moves("change", "open") /\ UNCHANGED users
          BY <2>2, <3>3 DEF Go, AccInv, CheckRegister, CheckDuplicate
        <4>2. AskType(t)'
          BY <2>0, <3>3, <4>1 DEF AskType
        <4>3. QED
          BY <1>0, <2>0, <4>1, <4>2, OthersAsk
      <3>4. QED
        BY <2>2, <3>1, <3>2, <3>3 DEF CheckRegister, CheckDuplicate
    <2>3. ASSUME Insert(t) PROVE AccInv'
      <3>1. CASE UNCHANGED users
        BY <2>1, <2>3, <3>1 DEF Insert, Refused
      <3>2. CASE users' = Append(users, Registered!Row(ask[t]))
        <4>1. PICK outcome \in {"done", "refused"} : Go(t, "idle", outcome)
          BY <2>3 DEF Insert, Refused
        <4>2. Moves("idle", outcome)
          BY <4>1 DEF Go, AccInv
        <4>3. AskType(t)'
          BY <4>2 DEF AskType
        <4>4. at[t] = "insert"
          BY <2>3 DEF Insert
        <4>5. QED
          BY <1>0, <2>0, <3>2, <4>2, <4>3, <4>4, InsertedRow, OthersAsk
      <3>3. QED
        BY <2>3, <3>1, <3>2 DEF Insert
    <2>4. ASSUME Update(t) PROVE AccInv'
      <3>1. CASE UNCHANGED users /\ Refused(t)
        BY <2>1, <3>1 DEF Refused
      <3>2. CASE users' = [users EXCEPT ![ask[t].user].name = ask[t].name,
                                        ![ask[t].user].email = ask[t].email]
        <4>1. at[t] = "change" /\ (Go(t, "idle", "refused") \/ Go(t, "reload", "done"))
          BY <2>4 DEF Update, Refused
        <4>2. users' \in Seq(RowType) /\ DOMAIN users' = DOMAIN users
          BY <3>2, <4>1, UpdatedRow
        <4>3. CASE Go(t, "idle", "refused")
          <5>1. Moves("idle", "refused")
            BY <4>3 DEF Go, AccInv
          <5>2. AskType(t)'
            BY <5>1 DEF AskType
          <5>3. QED
            BY <2>0, <1>0, <4>2, <5>1, <5>2, OthersAsk
        <4>4. CASE Go(t, "reload", "done")
          <5>1. Moves("reload", "done")
            BY <4>4 DEF Go, AccInv
          <5>2. AskType(t)'
            BY <2>0, <4>1, <4>2, <5>1 DEF AskType
          <5>3. QED
            BY <2>0, <1>0, <4>2, <5>1, <5>2, OthersAsk
        <4>5. QED
          BY <4>1, <4>3, <4>4
      <3>3. QED
        BY <2>4, <3>1, <3>2 DEF Update
    <2>5. ASSUME Reload(t) \/ Login(t) \/ Refuse(t) PROVE AccInv'
      <3>1. UNCHANGED users
        BY <2>5 DEF Reload, Login, Refuse
      <3>2. \E outcome \in {"done", "refused"} : Go(t, "idle", outcome)
        <4>1. CASE Reload(t) \/ Refuse(t)
          BY <4>1 DEF Reload, Refuse, Refused
        <4>2. CASE Login(t)
          BY <4>2 DEF Login, Refused
        <4>3. QED
          BY <2>5, <4>1, <4>2
      <3>3. QED
        BY <2>1, <3>1, <3>2
    <2>6. QED
      BY <1>2, <2>2, <2>3, <2>4, <2>5 DEF Step
  <1>3. CASE UNCHANGED vars
    BY <1>3 DEF vars, AccInv, AskType
  <1>4. QED
    BY <1>1, <1>2, <1>3 DEF Next

-----------------------------------------------------------------------------
(* A row that the unique keys let in, or let change, keeps all rows apart. *)
LEMMA UniqueStep ==
  AccInv /\ OneAccountPerName /\ [Next]_vars => OneAccountPerName'
  <1> SUFFICES ASSUME AccInv, OneAccountPerName, [Next]_vars
               PROVE  OneAccountPerName'
    OBVIOUS
  <1>1. CASE UNCHANGED users
    BY <1>1 DEF OneAccountPerName
  <1>2. ASSUME NEW t \in Threads, Insert(t) PROVE OneAccountPerName'
    <2>1. CASE /\ ~Clash(ask[t], 0) /\ at[t] = "insert"
               /\ users' = Append(users, Registered!Row(ask[t]))
      <3>1. /\ Registered!Row(ask[t]).name = ask[t].name
            /\ Registered!Row(ask[t]).email = ask[t].email
        BY DEF Registered!Row
      <3>2. 0 \notin DOMAIN users
        BY DEF AccInv
      <3>3. \A u \in DOMAIN users :
              users[u].name # ask[t].name /\ users[u].email # ask[t].email
        BY <2>1, <3>2 DEF Clash
      <3>4. QED
        BY <2>1, <3>1, <3>3, InsertedRow DEF OneAccountPerName
    <2>2. QED
      BY <1>1, <1>2, <2>1 DEF Insert
  <1>3. ASSUME NEW t \in Threads, Update(t) PROVE OneAccountPerName'
    <2>1. CASE /\ ~Clash(ask[t], ask[t].user) /\ at[t] = "change"
               /\ users' = [users EXCEPT ![ask[t].user].name = ask[t].name,
                                         ![ask[t].user].email = ask[t].email]
      <3>1. \A u \in DOMAIN users \ {ask[t].user} :
              users[u].name # ask[t].name /\ users[u].email # ask[t].email
        BY <2>1 DEF Clash
      <3>2. QED
        BY <2>1, <3>1, UpdatedRow DEF OneAccountPerName
    <2>2. QED
      BY <1>1, <1>3, <2>1 DEF Update
  <1>4. QED
    BY <1>1, <1>2, <1>3
    DEF Next, Step, Start, Refuse, CheckRegister, CheckDuplicate, Reload, Login, vars

(* No interleaving of registrations and changes of profile, and no failing *)
(* statement, gives two accounts one name or one email.                    *)
THEOREM NamesUnique == Spec => []OneAccountPerName
  <1>1. QED
    BY AccInit, AccStep, UniqueStep, PTL DEF Spec

-----------------------------------------------------------------------------
(* What the SELECT and the unique keys look for is what the registry calls *)
(* taken, and a request is in order exactly when nothing of it is.         *)
LEMMA ClashIsTaken ==
  ASSUME NEW r, NEW by PROVE Clash(r, by) <=> Registered!Taken(r, by)
  BY DEF Clash, Registered!Taken

(* A statement that fails, with or without the change it was sent for, is  *)
(* a failure of the registry.                                              *)
LEMMA FailInRegistry ==
  ASSUME AccInv, NEW t \in Threads, at[t] # "idle", Failing(t), UNCHANGED ask,
         result' \in {result, [result EXCEPT ![t] = "refused"]},
         \/ UNCHANGED users
         \/ /\ Registered!Open(t) /\ Registered!InOrder(ask[t])
            /\ users' = Registered!Applied(ask[t])
  PROVE  Registered!Next
  <1>1. ask[t] # Nothing
    BY NothingAssumption DEF AccInv, AskType, Asks
  <1>2. Registered!Fail(t)
    BY <1>1 DEF Registered!Fail, Failing
  <1>3. QED
    BY <1>2 DEF Registered!Next

(* A request that is not in order is refused.                              *)
LEMMA RefusedInRegistry ==
  ASSUME AccInv, NEW t \in Threads, at[t] \notin {"idle", "reload"},
         UNCHANGED <<users, ask, failed>>, Refused(t), ~Registered!InOrder(ask[t])
  PROVE  Registered!Next
  <1>1. ask[t] # Nothing /\ result[t] = "open"
    BY NothingAssumption DEF AccInv, AskType, Asks
  <1>2. Registered!Refuse(t)
    BY <1>1 DEF Registered!Refuse, Registered!Open, Refused, Go
  <1>3. QED
    BY <1>2 DEF Registered!Next

LEMMA StepInRegistry ==
  ASSUME AccInv, NEW t \in Threads, Step(t)
  PROVE  Registered!Next \/ UNCHANGED <<users, ask, result, failed>>
  <1>0. /\ UNCHANGED ask /\ AskType(t)
        /\ result \in [Threads -> {"open", "done", "refused"}]
    BY DEF Step, AccInv
  <1>1. ASSUME at[t] \notin {"idle", "reload"}
        PROVE  Registered!Open(t)
    BY <1>0, <1>1, NothingAssumption DEF AccInv, AskType, Asks, Registered!Open
  <1>2. CASE Refuse(t)
    <2>1. ~Registered!InOrder(ask[t]) /\ at[t] \notin {"idle", "reload"}
      BY <1>2 DEF Refuse, Registered!InOrder
    <2>2. QED
      BY <1>0, <1>2, <2>1, RefusedInRegistry DEF Refuse
  <1>3. CASE CheckRegister(t)
    <2>0. at[t] = "register" /\ result[t] = "open" /\ ask[t].kind = "register"
      BY <1>0, <1>3 DEF CheckRegister, AskType
    <2>1. CASE Clash(ask[t], 0) /\ Refused(t) /\ UNCHANGED failed
      <3>1. ~Registered!InOrder(ask[t])
        BY <2>0, <2>1, ClashIsTaken DEF Registered!InOrder
      <3>2. QED
        BY <1>0, <1>3, <2>0, <2>1, <3>1, RefusedInRegistry DEF CheckRegister
    <2>2. CASE Go(t, "insert", "open")
      <3>1. UNCHANGED result
        BY <1>0, <2>0, <2>2 DEF Go
      <3>2. QED
        BY <1>0, <1>3, <2>0, <3>1, FailInRegistry DEF CheckRegister
    <2>3. QED
      BY <1>3, <2>1, <2>2 DEF CheckRegister
  <1>4. CASE Insert(t)
    <2>0. /\ at[t] = "insert" /\ Registered!Open(t)
          /\ ask[t].kind = "register" /\ ask[t].name # Blank
      BY <1>0, <1>1, <1>4 DEF Insert, AskType
    <2>1. CASE Clash(ask[t], 0) /\ Refused(t) /\ UNCHANGED <<users, failed>>
      <3>1. ~Registered!InOrder(ask[t])
        BY <2>0, <2>1, ClashIsTaken DEF Registered!InOrder
      <3>2. QED
        BY <1>0, <2>0, <2>1, <3>1, RefusedInRegistry
    <2>2. CASE Failing(t) /\ Refused(t) /\ UNCHANGED users
      BY <1>0, <2>0, <2>2, FailInRegistry DEF Refused, Go
    <2>3. CASE ~Clash(ask[t], 0) /\ users' = Append(users, Registered!Row(ask[t]))
      <3>1. Registered!InOrder(ask[t]) /\ users' = Registered!Applied(ask[t])
        BY <2>0, <2>3, ClashIsTaken DEF Registered!InOrder, Registered!Applied
      <3>2. CASE Refused(t) /\ Failing(t)
        BY <1>0, <2>0, <3>1, <3>2, FailInRegistry DEF Refused, Go
      <3>3. CASE Go(t, "idle", "done") /\ UNCHANGED failed
        <4>1. Registered!Succeed(t)
          BY <1>0, <2>0, <3>1, <3>3 DEF Registered!Succeed, Go
        <4>2. QED
          BY <4>1 DEF Registered!Next
      <3>4. QED
        BY <1>4, <2>3, <3>2, <3>3 DEF Insert
    <2>4. QED
      BY <1>4, <2>1, <2>2, <2>3 DEF Insert
  <1>5. CASE CheckDuplicate(t)
    <2>0. /\ at[t] = "update" /\ result[t] = "open" /\ ask[t].kind = "update"
          /\ UNCHANGED users
      BY <1>0, <1>5 DEF CheckDuplicate, AskType
    <2>1. CASE Clash(ask[t], ask[t].user) /\ Refused(t) /\ UNCHANGED failed
      <3>1. ~Registered!InOrder(ask[t])
        BY <2>0, <2>1, ClashIsTaken DEF Registered!InOrder
      <3>2. QED
        BY <1>0, <2>0, <2>1, <3>1, RefusedInRegistry
    <2>2. CASE Go(t, "change", "open") /\ UNCHANGED failed
      BY <1>0, <2>0, <2>2 DEF Go
    <2>3. CASE Failing(t) /\ Refused(t)
      BY <1>0, <2>0, <2>3, FailInRegistry DEF Refused, Go
    <2>4. QED
      BY <1>5, <2>1, <2>2, <2>3 DEF CheckDuplicate
  <1>6. CASE Update(t)
    <2>0. /\ at[t] = "change" /\ Registered!Open(t)
          /\ ask[t].kind = "update" /\ ask[t].name # Blank
      BY <1>0, <1>1, <1>6 DEF Update, AskType
    <2>1. CASE Clash(ask[t], ask[t].user) /\ Refused(t) /\ UNCHANGED <<users, failed>>
      <3>1. ~Registered!InOrder(ask[t])
        BY <2>0, <2>1, ClashIsTaken DEF Registered!InOrder
      <3>2. QED
        BY <1>0, <2>0, <2>1, <3>1, RefusedInRegistry
    <2>2. CASE Failing(t) /\ Refused(t) /\ UNCHANGED users
      BY <1>0, <2>0, <2>2, FailInRegistry DEF Refused, Go
    <2>3. CASE /\ ~Clash(ask[t], ask[t].user)
               /\ users' = [users EXCEPT ![ask[t].user].name = ask[t].name,
                                         ![ask[t].user].email = ask[t].email]
               /\ \/ Go(t, "reload", "done") /\ UNCHANGED failed
                  \/ Refused(t) /\ Failing(t)
      <3>1. Registered!InOrder(ask[t]) /\ users' = Registered!Applied(ask[t])
        BY <2>0, <2>3, ClashIsTaken DEF Registered!InOrder, Registered!Applied
      <3>2. CASE Refused(t) /\ Failing(t)
        BY <1>0, <2>0, <3>1, <3>2, FailInRegistry DEF Refused, Go
      <3>3. CASE Go(t, "reload", "done") /\ UNCHANGED failed
        <4>1. Registered!Succeed(t)
          BY <1>0, <2>0, <3>1, <3>3 DEF Registered!Succeed, Go
        <4>2. QED
          BY <4>1 DEF Registered!Next
      <3>4. QED
        BY <2>3, <3>2, <3>3
    <2>4. QED
      BY <1>6, <2>1, <2>2, <2>3 DEF Update
  <1>7. CASE Reload(t)
    <2>1. CASE Failing(t) /\ Refused(t)
      BY <1>0, <1>7, <2>1, FailInRegistry DEF Reload, Refused, Go
    <2>2. CASE Go(t, "idle", "done") /\ UNCHANGED failed
      <3>1. result[t] = "done"
        BY <1>0, <1>7 DEF Reload, AskType
      <3>2. QED
        BY <1>0, <1>7, <2>2, <3>1 DEF Reload, Go
    <2>3. QED
      BY <1>7, <2>1, <2>2 DEF Reload
  <1>8. CASE Login(t)
    <2>0. /\ at[t] = "login" /\ Registered!Open(t) /\ UNCHANGED users
          /\ ask[t].kind = "login" /\ ask[t].name # Blank
      BY <1>0, <1>1, <1>8, AccountsAssumption DEF Login, AskType
    <2>1. CASE Failing(t) /\ Refused(t)
      BY <1>0, <2>0, <2>1, FailInRegistry DEF Refused, Go
    <2>2. CASE Registered!InOrder(ask[t]) /\ Go(t, "idle", "done") /\ UNCHANGED failed
      <3>1. Registered!Succeed(t)
        BY <1>0, <2>0, <2>2 DEF Registered!Succeed, Registered!Applied, Go
      <3>2. QED
        BY <3>1 DEF Registered!Next
    <2>3. CASE ~Registered!InOrder(ask[t]) /\ Refused(t) /\ UNCHANGED failed
      BY <1>0, <2>0, <2>3, RefusedInRegistry
    <2>4. Registered!InOrder(ask[t]) <=>
            \E u \in DOMAIN users : users[u].name = ask[t].name
                                   /\ users[u].password = ask[t].password
      BY <2>0 DEF Registered!InOrder
    <2>5. QED
      BY <1>8, <2>1, <2>2, <2>3, <2>4 DEF Login, Refused
  <1>9. QED
    BY <1>2, <1>3, <1>4, <1>5, <1>6, <1>7, <1>8 DEF Step

(* Refinement: registrations, logins and changes of profile implement the  *)
(* registry, in which each takes place at one instant.                     *)
THEOREM AccountsLinearizable == Spec => Linearizable
  <1>1. Init => Registered!Init
    BY DEF Init
  <1>2. AccInv /\ [Next]_vars => [Registered!Next]_(Registered!vars)
    <2>1. ASSUME AccInv, NEW t \in Threads, NEW r \in Asks, Start(t, r)
          PROVE  Registered!Next
      BY <2>1 DEF Start, Registered!Next, Registered!Submit
    <2>2. ASSUME AccInv, NEW t \in Threads, Step(t)
          PROVE  [Registered!Next]_(Registered!vars)
      BY <2>2, StepInRegistry DEF Registered!vars
    <2>3. QED
      BY <2>1, <2>2 DEF Next, vars, Registered!vars
  <1>3. QED
    BY <1>1, <1>2, AccInit, AccStep, PTL DEF Spec, Linearizable, Registered!Spec

-----------------------------------------------------------------------------
(* The table messages, under the requests of a browser.                    *)
VARIABLES active, shown

Mail == INSTANCE Messages

Message == [from : Partners \cup {Me}, to : Partners \cup {Me}, read : BOOLEAN]

(* Every message has a sender and a receiver other than Nobody, and the    *)
(* open conversation is one with a partner.                                *)
TableType == messages \in Seq(Message) /\ active \in Partners \cup {Nobody}

(* What send_message inserts is such a message.                            *)
LEMMA InsertType ==
  ASSUME TableType, NEW from \in Partners \cup {Me}, NEW to \in Partners \cup {Me},
         Mail!SendMessage(from, to)
  PROVE  messages' \in Seq(Message)
  <1>1. [from |-> from, to |-> to, read |-> FALSE] \in Message
    BY DEF Message
  <1>2. QED
    BY <1>1 DEF Mail!SendMessage, TableType

(* mark_messages_read touches the flags of the messages from u to Me only. *)
LEMMA MarkedType ==
  ASSUME TableType, NEW u
  PROVE  /\ Mail!Marked(u) \in Seq(Message)
         /\ \A i \in DOMAIN messages :
              Mail!Marked(u)[i] # messages[i] =>
                ~messages[i].read /\ messages[i].to = Me /\ messages[i].from = u
  <1>1. \A i \in DOMAIN messages : messages[i] \in Message
    BY DEF TableType
  <1>2. \A m \in Message : [m EXCEPT !.read = TRUE] \in Message
    BY DEF Message
  <1>3. \A m \in Message : m.read => [m EXCEPT !.read = TRUE] = m
    BY DEF Message
  <1>4. \A i \in DOMAIN messages : Mail!Marked(u)[i] \in Message
    BY <1>1, <1>2 DEF Mail!Marked
  <1>5. DOMAIN messages = 1 .. Len(messages) /\ Len(messages) \in Nat
    BY DEF TableType
  <1>6. Mail!Marked(u) \in Seq(Message)
    <2>1. Mail!Marked(u) \in [1 .. Len(messages) -> Message]
      BY <1>4, <1>5 DEF Mail!Marked
    <2>2. QED
      BY <1>5, <2>1
  <1>7. ASSUME NEW i \in DOMAIN messages, Mail!Marked(u)[i] # messages[i]
        PROVE  ~messages[i].read /\ messages[i].to = Me /\ messages[i].from = u
    BY <1>1, <1>3, <1>7 DEF Mail!Marked
  <1>8. QED
    BY <1>6, <1>7

(* No step breaks the types of the table.                                  *)
LEMMA TableInductive == TableType /\ [Mail!Next]_(Mail!vars) => TableType'
  <1> SUFFICES ASSUME TableType, [Mail!Next]_(Mail!vars) PROVE TableType'
    OBVIOUS
  <1>1. ASSUME NEW u \in Partners, Mail!Receive(u) PROVE TableType'
    BY <1>1, InsertType DEF Mail!Receive, TableType
  <1>2. ASSUME NEW p \in Polls, Mail!Send(p) PROVE TableType'
    <2>1. active \in Partners /\ Mail!SendMessage(Me, active) /\ UNCHANGED active
      BY <1>2 DEF Mail!Send, TableType
    <2>2. QED
      BY <2>1, InsertType DEF TableType
  <1>3. ASSUME NEW p \in Polls, Mail!MarkMessagesRead(p), UNCHANGED active
        PROVE  TableType'
    BY <1>3, MarkedType DEF Mail!MarkMessagesRead, TableType
  <1>4. ASSUME NEW p \in Polls, NEW u \in Partners, Mail!SelectUser(p, u) PROVE TableType'
    BY <1>4 DEF Mail!SelectUser, TableType
  <1>5. CASE UNCHANGED <<messages, active>>
    BY <1>5 DEF TableType
  <1>6. QED
    BY <1>1, <1>2, <1>3, <1>4, <1>5
    DEF Mail!Next, Mail!Tick, Mail!Handle, Mail!GetMessages, Mail!Answer, Mail!vars

(* A message becomes read only in a step of a request of its receiver for  *)
(* the conversation with its sender, and never becomes unread again nor    *)
(* changes in any other way, whatever fails and however many requests are  *)
(* under way.                                                              *)
THEOREM ReadOnlyByReceiver == Mail!Spec => ReadByReceiver
  <1>1. Mail!Init => TableType
    BY DEF Mail!Init, TableType
  <1>2. TableType /\ [Mail!Next]_(Mail!vars) =>
          [\A i \in DOMAIN messages :
             messages'[i] # messages[i] =>
               /\ ~messages[i].read /\ messages[i].to = Me
               /\ \E p \in Polls : polls[p].at = "read"
                                  /\ polls[p].with = messages[i].from]_messages
    <2> SUFFICES ASSUME TableType, [Mail!Next]_(Mail!vars), NEW i \in DOMAIN messages,
                        messages'[i] # messages[i]
                 PROVE  /\ ~messages[i].read /\ messages[i].to = Me
                        /\ \E p \in Polls : polls[p].at = "read" /\ polls[p].with = messages[i].from
      OBVIOUS
    <2>1. \A from, to : Mail!SendMessage(from, to) => messages'[i] = messages[i]
      BY DEF Mail!SendMessage, TableType
    <2>2. ASSUME NEW p \in Polls, Mail!MarkMessagesRead(p)
          PROVE  /\ ~messages[i].read /\ messages[i].to = Me
                 /\ polls[p].at = "read" /\ polls[p].with = messages[i].from
      BY <2>2, MarkedType DEF Mail!MarkMessagesRead
    <2>3. QED
      BY <2>1, <2>2
      DEF Mail!Next, Mail!Receive, Mail!Tick, Mail!SelectUser, Mail!Send, Mail!Handle,
          Mail!GetMessages, Mail!Answer, Mail!vars
  <1>3. QED
    BY <1>1, <1>2, TableInductive, PTL DEF Mail!Spec, ReadByReceiver
=============================================================================
