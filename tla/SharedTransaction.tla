------------------------- MODULE SharedTransaction --------------------------
(***************************************************************************)
(* What the borrowers of ConnectionPool do with a connection: the          *)
(* transaction of FileManager::complete_upload, and the single INSERT of   *)
(* save_chunk, register_user and send_message.  A transaction, its pending *)
(* writes and the last inserted id belong to the connection                *)
(* (src/database.cpp), not to the thread that began it: two threads that   *)
(* share a connection share them too.                                      *)
(***************************************************************************)
EXTENDS ConnectionPool

CONSTANTS
  Completers,  \* the threads that complete an upload, the others insert a row
  Losses       \* bound: how many connections die (MySQL restarts, idle time)

ASSUME TransactionAssumption == Completers \subseteq Threads /\ Losses \in Nat

VARIABLES
  at,      \* at[t]: the next call of t while it is using its connection
  tx,      \* tx[c]: is a transaction open, and its pending writes
  stored,  \* the committed writes <<work, piece>>
  lastId,  \* lastId[c]: mysql_insert_id, the work that the row belongs to
  told,    \* told[w]: the id that complete_upload returns
  answer,  \* answer[w]: "none", "done" or "refused"
  lost,    \* connections that died; connected stays true, the pool keeps them
  mixed    \* history: the works that had a connection together with another

txVars == <<at, tx, stored, lastId, told, answer, lost, mixed>>
allVars == <<vars, txVars>>

(* A work is a loan: its thread and the number of the loan.                *)
Works == Threads \X (1 .. Requests)
Work(t) == <<t, served[t]>>
NoId == <<>>

(* The rows that a work writes: complete_upload inserts the file, charges  *)
(* the user and completes the session.                                     *)
Pieces(w) ==
  IF w[1] \in Completers THEN {"row", "charge", "status"} ELSE {"row"}
First(t) == IF t \in Completers THEN "begin" ELSE "row"
After == [begin |-> "row", row |-> "id", id |-> "charge", charge |-> "status",
          status |-> "commit", commit |-> "return"]

Closed == [open |-> FALSE, writes |-> {}]
Sharing == {t \in Threads : pc[t] = "using" /\ Cardinality(Users(handle[t])) > 1}

TxInit ==
  /\ Init
  /\ at = [t \in Threads |-> "none"]
  /\ tx = [c \in DOMAIN available |-> Closed]
  /\ stored = {}
  /\ lastId = [c \in DOMAIN available |-> NoId]
  /\ told = [w \in Works |-> NoId]
  /\ answer = [w \in Works |-> "none"]
  /\ lost = {}
  /\ mixed = {}

-----------------------------------------------------------------------------
(* Database: every call holds db_mutex, hence is one step.                 *)

(* execute of a write: inside the open transaction of the connection,      *)
(* whoever began it, or committed at once.                                 *)
Write(c, w, piece) ==
  IF tx[c].open
  THEN /\ tx' = [tx EXCEPT ![c].writes = @ \cup {<<w, piece>>}]
       /\ UNCHANGED stored
  ELSE /\ stored' = stored \cup {<<w, piece>>}
       /\ UNCHANGED tx

(* A mutation: no transaction is begun, every statement commits at once.   *)
StartTransactionMissing(c) == c \notin lost /\ UNCHANGED <<tx, stored>>

(* begin_transaction: a transaction that is open is committed first.       *)
StartTransaction(c) ==
  /\ c \notin lost
  /\ stored' = stored \cup tx[c].writes
  /\ tx' = [tx EXCEPT ![c] = [open |-> TRUE, writes |-> {}]]

(* commit: everything pending on the connection becomes visible.           *)
CommitAll(c) ==
  /\ stored' = stored \cup tx[c].writes
  /\ tx' = [tx EXCEPT ![c] = Closed]

(* last_insert_id is that of the connection's last statement: none unless  *)
(* it was an INSERT.                                                       *)
NoteId(c, id) == lastId' = [lastId EXCEPT ![c] = id]

-----------------------------------------------------------------------------
(* get_connection, and what the thread then does with the connection.      *)
Borrow(t) ==
  /\ Get(t) \/ Retry(t)
  /\ IF pc'[t] = "using"
     THEN at' = [at EXCEPT ![t] = First(t)]
     ELSE UNCHANGED at
  /\ mixed' = mixed \cup {<<s, served'[s]>> : s \in Sharing'}
  /\ UNCHANGED <<tx, stored, lastId, told, answer, lost>>

(* The call after at[t] is reached with the answer so far; "return" is     *)
(* reached with the answer of the function.                                *)
Go(t, next, result) ==
  /\ at' = [at EXCEPT ![t] = next]
  /\ answer' = [answer EXCEPT ![Work(t)] = result]

Begin(t) ==
  /\ at[t] = "begin"
  /\ \/ StartTransaction(handle[t]) /\ NoteId(handle[t], NoId) /\ Go(t, "row", "none")
     \/ handle[t] \in lost /\ Go(t, "return", "refused") /\ UNCHANGED <<tx, stored, lastId>>
  /\ UNCHANGED <<told, lost>>

(* The INSERT and the two UPDATEs.  A failing one changes nothing; when    *)
(* the connection dies under an INSERT outside a transaction it may have   *)
(* been applied.                                                           *)
Execute(t) ==
  LET c == handle[t]  w == Work(t)  p == at[t]
      single == t \notin Completers
  IN
  /\ p \in {"row", "charge", "status"}
  /\ \/ /\ c \notin lost
        /\ Write(c, w, p)
        /\ NoteId(c, IF p = "row" THEN w ELSE NoId)
        /\ IF single THEN Go(t, "return", "done") ELSE Go(t, After[p], "none")
        /\ UNCHANGED lost
     \/ /\ IF single THEN Go(t, "return", "refused") ELSE Go(t, "undo", "none")
        /\ UNCHANGED <<tx, stored, lost>>
        /\ NoteId(c, NoId)
     \/ /\ c \notin lost /\ Cardinality(lost) < Losses /\ single
        /\ ~tx[c].open
        /\ stored' = stored \cup {<<w, p>>}
        /\ lost' = lost \cup {c}
        /\ Go(t, "return", "refused")
        /\ UNCHANGED <<tx, lastId>>
  /\ UNCHANGED told

(* int file_id = last_insert_id(): a call of its own.                      *)
ReadId(t) ==
  /\ at[t] = "id"
  /\ told' = [told EXCEPT ![Work(t)] = lastId[handle[t]]]
  /\ Go(t, "charge", "none")
  /\ UNCHANGED <<tx, stored, lastId, lost>>

(* COMMIT fails only when the connection dies, before or after it is       *)
(* applied.                                                                *)
Commit(t) ==
  LET c == handle[t] IN
  /\ at[t] = "commit"
  /\ \/ /\ c \notin lost
        /\ CommitAll(c)
        /\ Go(t, "return", "done")
        /\ UNCHANGED lost
     \/ /\ c \notin lost /\ Cardinality(lost) < Losses
        /\ CommitAll(c)
        /\ lost' = lost \cup {c}
        /\ Go(t, "undo", "none")
     \/ c \in lost /\ Go(t, "undo", "none") /\ UNCHANGED <<tx, stored, lost>>
  /\ NoteId(c, NoId)
  /\ UNCHANGED told

(* A mutation: an error path that does not roll back.                      *)
UndoForgotten(t) ==
  /\ at[t] = "undo"
  /\ Go(t, "return", "refused")
  /\ UNCHANGED <<tx, stored, lastId, told, lost>>

(* rollback, whose result nobody looks at, after a failure.                *)
Undo(t) ==
  /\ at[t] = "undo"
  /\ tx' = [tx EXCEPT ![handle[t]] = Closed]
  /\ NoteId(handle[t], NoId)
  /\ Go(t, "return", "refused")
  /\ UNCHANGED <<stored, told, lost>>

Call(t) ==
  /\ pc[t] = "using"
  /\ Begin(t) \/ Execute(t) \/ ReadId(t) \/ Commit(t) \/ Undo(t)
  /\ UNCHANGED <<vars, mixed>>

(* The connection goes back: by hand after the answer, by the deleter      *)
(* alone when create_directories throws, which is before the first         *)
(* statement that writes.                                                  *)
GiveBack(t) ==
  /\ \/ HandReturn(t) /\ at[t] = "return" /\ UNCHANGED answer
     \/ Unwind(t) /\ at[t] = First(t)
        /\ answer' = [answer EXCEPT ![Work(t)] = "refused"]
  /\ at' = [at EXCEPT ![t] = "none"]
  /\ UNCHANGED <<tx, stored, lastId, told, lost, mixed>>

Release(t) == ScopeExit(t) /\ UNCHANGED txVars
Wake(t) == WakeSpuriously(t) /\ UNCHANGED txVars

(* The connection dies between two statements: MySQL rolls back.           *)
Lose(c) ==
  /\ c \notin lost
  /\ Cardinality(lost) < Losses
  /\ lost' = lost \cup {c}
  /\ tx' = [tx EXCEPT ![c] = Closed]
  /\ UNCHANGED <<vars, at, stored, lastId, told, answer, mixed>>

Proceed(t) ==
  Call(t) \/ GiveBack(t) \/ Release(t) \/ (pc[t] = "woken" /\ Borrow(t))

TxNext ==
  \/ \E t \in Threads : Borrow(t) \/ Wake(t) \/ Proceed(t)
  \/ \E c \in DOMAIN available : Lose(c)

TxSpec == TxInit /\ [][TxNext]_allVars

(* A thread that is not blocked goes on, also from one statement to the    *)
(* next; nobody is obliged to ask for a connection, or to lose one.        *)
TxFairSpec ==
  TxSpec /\ \A t \in Threads : WF_allVars(Proceed(t))

-----------------------------------------------------------------------------
Written(w) == {p \in {"row", "charge", "status"} : <<w, p>> \in stored}

(* Transactions are atomic and their answers true unless two threads share *)
(* a connection: a work that never had its connection together with        *)
(* another one is stored completely or not at all, whatever failed and     *)
(* whoever had the connection before it; what was answered as done is      *)
(* stored, and its id is that of its own row; what was refused is not,     *)
(* unless a connection died under the statement that stored it.            *)
Isolated ==
  \A w \in Works \ mixed :
    /\ Written(w) \in {{}, Pieces(w)}
    /\ answer[w] = "done" =>
         /\ Written(w) # {}
         /\ w[1] \in Completers => told[w] = w
    /\ answer[w] = "refused" /\ lost = {} => Written(w) = {}

(* No thread leaves a transaction behind for the next borrower: a          *)
(* connection that nobody uses has none open, even after two threads that  *)
(* shared it, and however their statements failed.                         *)
NoTransactionLeftOpen ==
  \A c \in DOMAIN available : Users(c) = {} => ~tx[c].open
=============================================================================
