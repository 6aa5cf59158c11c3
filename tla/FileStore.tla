------------------------------ MODULE FileStore ------------------------------
(***************************************************************************)
(* The files of one user: upload_file, delete_file, download_file,         *)
(* get_file_info, create_share_code and get_shared_file_info               *)
(* (src/file_manager.cpp) with their handlers (src/http_handler.cpp) and   *)
(* the streaming of handle_client (src/server.cpp), run by the worker      *)
(* threads side by side.                                                   *)
(*                                                                         *)
(* A file is a row of the table files, a file on disk and an amount        *)
(* charged to users.storage_used.  Here the three are kept in step without *)
(* a transaction: each SQL statement and each file operation is one step.  *)
(***************************************************************************)
EXTENDS Integers, FiniteSets, FiniteSetsExt

CONSTANTS
  Threads,    \* worker threads, each serving one request at a time
  Files,      \* uploads that may be tried: id and path of a file are never reused
  Codes,      \* share codes that generate_random_share_code can give
  Size,       \* size of each file
  Limit,      \* storage_limit of the user
  Faults,     \* what may fail: "statement", "answer" (a statement is executed, but
              \* its connection is lost and it fails for the server), "disk", "crash"
  Irregular   \* what clients do: "early" (delete before the upload is answered),
              \* "redelete" (delete a file twice at once)

NoFile == "no file"
NoCode == "no code"

ASSUME FileAssumption ==
  /\ NoFile \notin Files /\ NoCode \notin Codes
  /\ Size \in [Files -> Nat \ {0}]
  /\ Limit \in Nat
  /\ Faults \subseteq {"statement", "answer", "disk", "crash"}
  /\ Irregular \subseteq {"early", "redelete"}

(* CloudDiskServer starts a fixed number of workers.                       *)
ASSUME ThreadsAssumption == IsFiniteSet(Threads) /\ Threads # {}

VARIABLES
  listed,    \* the files with a row in the table
  share,     \* files.share_code of the rows
  used,      \* users.storage_used
  disk,      \* "new" (not uploaded yet), "partial", "torn", "whole", "absent"
  pc,        \* where each thread is in its request
  job,       \* the file the request is about
  told,      \* history: requests for a file: "uploaded", "deleting", "deleted"
  bodies     \* history: what answers with status 200 had as their body

tables == <<listed, share, used>>
vars == <<tables, disk, pc, job, told, bodies>>

Uploading == {"open", "write", "insert", "charge", "rollback", "discard"}
Deleting == {"unlink", "deleteRow", "uncharge"}
Control == {"idle", "read", "check", "stream"} \cup Uploading \cup Deleting

Readable(f) == disk[f] \in {"partial", "torn", "whole"}
Busy(S, f) == {t \in Threads : pc[t] \in S /\ job[t] = f}

Start(t, f, next) ==
  /\ pc[t] = "idle"
  /\ pc' = [pc EXCEPT ![t] = next]
  /\ job' = [job EXCEPT ![t] = f]

Go(t, next) == pc' = [pc EXCEPT ![t] = next] /\ UNCHANGED <<job, told, bodies>>

(* The request ends; the client learns what its answer says of the file.   *)
End(t, answers) ==
  /\ pc' = [pc EXCEPT ![t] = "idle"]
  /\ job' = [job EXCEPT ![t] = NoFile]
  /\ told' = [told EXCEPT ![job[t]] = @ \cup answers]
  /\ UNCHANGED bodies

(* A download ends with status 200 and this body.                          *)
Deliver(t, body) ==
  /\ pc' = [pc EXCEPT ![t] = "idle"]
  /\ job' = [job EXCEPT ![t] = NoFile]
  /\ bodies' = bodies \cup {body}
  /\ UNCHANGED told

-----------------------------------------------------------------------------
Init ==
  /\ listed = {}
  /\ share = [f \in Files |-> NoCode]
  /\ used = 0
  /\ disk = [f \in Files |-> "new"]
  /\ pc = [t \in Threads |-> "idle"]
  /\ job = [t \in Threads |-> NoFile]
  /\ told = [f \in Files |-> {}]
  /\ bodies = {}

(* A mutation: a file has to fit into the whole quota, not into the rest.  *)
CheckQuotaAlone(t, f) ==
  /\ disk[f] = "new" /\ \A s \in Threads : job[s] # f
  /\ Size[f] <= Limit
  /\ Start(t, f, "open")
  /\ UNCHANGED <<tables, disk, told, bodies>>

(* Upload: the handler compares the quota with what is used by now.        *)
CheckQuota(t, f) ==
  /\ disk[f] = "new" /\ \A s \in Threads : job[s] # f
  /\ used + Size[f] <= Limit
  /\ Start(t, f, "open")
  /\ UNCHANGED <<tables, disk, told, bodies>>

(* A mutation: the row is inserted when the file is created.               *)
OpenFileInsert(t) ==
  /\ pc[t] = "open"
  /\ disk' = [disk EXCEPT ![job[t]] = "partial"]
  /\ listed' = listed \cup {job[t]}
  /\ Go(t, "write")
  /\ UNCHANGED <<share, used>>

OpenFile(t) ==
  /\ pc[t] = "open"
  /\ \/ disk' = [disk EXCEPT ![job[t]] = "partial"] /\ Go(t, "write")
     \/ "disk" \in Faults /\ End(t, {}) /\ UNCHANGED disk
  /\ UNCHANGED tables

(* The result of write is not looked at.                                   *)
WriteFile(t) ==
  /\ pc[t] = "write"
  /\ \E content \in {"whole"} \cup (IF "disk" \in Faults THEN {"torn"} ELSE {}) :
       disk' = [disk EXCEPT ![job[t]] = content]
  /\ Go(t, "insert")
  /\ UNCHANGED tables

InsertRow(t) ==
  /\ pc[t] = "insert"
  /\ \/ listed' = listed \cup {job[t]} /\ Go(t, "charge")
     \/ "statement" \in Faults /\ Go(t, "discard") /\ UNCHANGED listed
     \/ "answer" \in Faults /\ Go(t, "discard") /\ listed' = listed \cup {job[t]}
  /\ UNCHANGED <<share, used, disk>>

(* A mutation: a charge that fails is answered like one that succeeds.     *)
ChargeUnnoticed(t) ==
  /\ pc[t] = "charge"
  /\ \/ used' = used + Size[job[t]] /\ End(t, {"uploaded"}) /\ UNCHANGED disk
     \/ /\ "statement" \in Faults /\ End(t, {"uploaded"})
        /\ disk' = [disk EXCEPT ![job[t]] = "absent"] /\ UNCHANGED used
  /\ UNCHANGED <<listed, share>>

Charge(t) ==
  /\ pc[t] = "charge"
  /\ \/ used' = used + Size[job[t]] /\ End(t, {"uploaded"})
     \/ "statement" \in Faults /\ Go(t, "rollback") /\ UNCHANGED used
     \/ "answer" \in Faults /\ Go(t, "rollback") /\ used' = used + Size[job[t]]
  /\ UNCHANGED <<listed, share, disk>>

(* The row is deleted by hand: the result of this statement is ignored.    *)
Rollback(t) ==
  /\ pc[t] = "rollback"
  /\ \/ /\ listed' = listed \ {job[t]}
        /\ share' = [share EXCEPT ![job[t]] = NoCode]
     \/ "statement" \in Faults /\ UNCHANGED <<listed, share>>
  /\ Go(t, "discard")
  /\ UNCHANGED <<used, disk>>

Discard(t) ==
  /\ pc[t] = "discard"
  /\ disk' = [disk EXCEPT ![job[t]] = "absent"]
  /\ End(t, {})
  /\ UNCHANGED tables

-----------------------------------------------------------------------------
(* Delete: the row is read, its path and size are used from here on.       *)
FindForDelete(t, f) ==
  /\ f \in listed
  /\ "early" \in Irregular \/ Busy(Uploading, f) = {}
  /\ "redelete" \in Irregular \/ Busy(Deleting, f) = {}
  /\ Start(t, f, "unlink")
  /\ told' = [told EXCEPT ![f] = @ \cup {"deleting"}]
  /\ UNCHANGED <<tables, disk, bodies>>

(* The result of unlink is not looked at.                                  *)
Unlink(t) ==
  /\ pc[t] = "unlink"
  /\ disk' = [disk EXCEPT ![job[t]] = "absent"]
  /\ Go(t, "deleteRow")
  /\ UNCHANGED tables

(* Mutations: the condition of the DELETE matches no row; the result of    *)
(* the statement is not looked at.                                         *)
DeleteRowMissed(t) ==
  /\ pc[t] = "deleteRow"
  /\ Go(t, "uncharge")
  /\ UNCHANGED <<tables, disk>>

DeleteRowUnnoticed(t) ==
  /\ pc[t] = "deleteRow"
  /\ \/ /\ listed' = listed \ {job[t]}
        /\ share' = [share EXCEPT ![job[t]] = NoCode]
     \/ "statement" \in Faults /\ UNCHANGED <<listed, share>>
  /\ Go(t, "uncharge")
  /\ UNCHANGED <<used, disk>>

(* DELETE succeeds when another request has deleted the row meanwhile, too.*)
DeleteRow(t) ==
  /\ pc[t] = "deleteRow"
  /\ \/ /\ listed' = listed \ {job[t]}
        /\ share' = [share EXCEPT ![job[t]] = NoCode]
        /\ \/ Go(t, "uncharge")
           \/ "answer" \in Faults /\ End(t, {})
     \/ "statement" \in Faults /\ End(t, {}) /\ UNCHANGED <<listed, share>>
  /\ UNCHANGED <<used, disk>>

(* Mutations: the charge is not taken back; without GREATEST.              *)
UnchargeNothing(t) ==
  /\ pc[t] = "uncharge"
  /\ End(t, {"deleted"})
  /\ UNCHANGED <<listed, share, used, disk>>

UnchargeBelowZero(t) ==
  /\ pc[t] = "uncharge"
  /\ used' = used - Size[job[t]]
  /\ End(t, {"deleted"})
  /\ UNCHANGED <<listed, share, disk>>

(* GREATEST(0, storage_used - size)                                        *)
Uncharge(t) ==
  /\ pc[t] = "uncharge"
  /\ \/ /\ used' = IF used > Size[job[t]] THEN used - Size[job[t]] ELSE 0
        /\ \/ End(t, {"deleted"})
           \/ "answer" \in Faults /\ End(t, {})
     \/ "statement" \in Faults /\ End(t, {}) /\ UNCHANGED used
  /\ UNCHANGED <<listed, share, disk>>

-----------------------------------------------------------------------------
(* Download: the row is read, then the whole file.  A file that is open    *)
(* keeps its content when it is unlinked.                                  *)
FindForDownload(t, f) ==
  /\ f \in listed
  /\ Start(t, f, "read")
  /\ UNCHANGED <<tables, disk, told, bodies>>

ReadFile(t) ==
  /\ pc[t] = "read"
  /\ \/ Readable(job[t]) /\ Deliver(t, disk[job[t]])
     \/ ~Readable(job[t]) /\ End(t, {})
  /\ UNCHANGED <<tables, disk>>

(* Streaming, by id or by share code: the row is read and the file opened  *)
(* to see that it exists; after the header was sent with status 200 and    *)
(* the length of the row, the file is opened again by its path.            *)
FindForStream(t, f) ==
  /\ f \in listed
  /\ Start(t, f, "check")
  /\ UNCHANGED <<tables, disk, told, bodies>>

FindShared(t, c) == \E f \in listed : share[f] = c /\ FindForStream(t, f)

CheckFile(t) ==
  /\ pc[t] = "check"
  /\ \/ Readable(job[t]) /\ Go(t, "stream")
     \/ ~Readable(job[t]) /\ End(t, {})
  /\ UNCHANGED <<tables, disk>>

StreamFile(t) ==
  /\ pc[t] = "stream"
  /\ Deliver(t, IF Readable(job[t]) THEN disk[job[t]] ELSE "nothing")
  /\ UNCHANGED <<tables, disk>>

(* One UPDATE of the row; share_code is UNIQUE, an earlier code is lost.   *)
CreateShareCode(f, c) ==
  /\ f \in listed
  /\ \A g \in listed : share[g] # c
  /\ share' = [share EXCEPT ![f] = c]
  /\ UNCHANGED <<listed, used, disk, pc, job, told, bodies>>

-----------------------------------------------------------------------------
(* The process dies and is started again; there is no transaction to undo. *)
Crash ==
  /\ "crash" \in Faults
  /\ pc' = [t \in Threads |-> "idle"]
  /\ job' = [t \in Threads |-> NoFile]
  /\ UNCHANGED <<tables, disk, told, bodies>>

Step(t) ==
  \/ OpenFile(t) \/ WriteFile(t) \/ InsertRow(t) \/ Charge(t) \/ Rollback(t) \/ Discard(t)
  \/ Unlink(t) \/ DeleteRow(t) \/ Uncharge(t)
  \/ ReadFile(t) \/ CheckFile(t) \/ StreamFile(t)

Request(t, f) ==
  \/ CheckQuota(t, f) \/ FindForDelete(t, f) \/ FindForDownload(t, f)
  \/ FindForStream(t, f)

Next ==
  \/ \E t \in Threads : Step(t)
  \/ \E t \in Threads, f \in Files : Request(t, f)
  \/ \E t \in Threads, c \in Codes : FindShared(t, c)
  \/ \E f \in Files, c \in Codes : CreateShareCode(f, c)
  \/ Crash

Spec == Init /\ [][Next]_vars

-----------------------------------------------------------------------------
SizeOf(S) == SumFunction([f \in S |-> Size[f]])
Handled(place) == {job[t] : t \in {s \in Threads : pc[s] = place}}

(* The files that the user is charged for by now: a request charges after  *)
(* it has inserted the row, and takes the charge back after the deletion.  *)
Charged == (listed \ Handled("charge")) \cup Handled("uncharge")

(* Types of the tables, of the disk and of the requests: a request is      *)
(* about a file exactly while it runs.                                     *)
TypeOK ==
  /\ listed \subseteq Files
  /\ share \in [Files -> Codes \cup {NoCode}]
  /\ used \in Nat
  /\ disk \in [Files -> {"new", "partial", "torn", "whole", "absent"}]
  /\ pc \in [Threads -> Control]
  /\ job \in [Threads -> Files \cup {NoFile}]
  /\ \A t \in Threads : pc[t] = "idle" <=> job[t] = NoFile
  /\ told \in [Files -> SUBSET {"uploaded", "deleting", "deleted"}]
  /\ bodies \subseteq {"partial", "torn", "whole", "nothing"}

(* storage_used is the size of the user's files but for the requests that  *)
(* are between their two statements.  Holds as long as no statement fails, *)
(* nothing crashes and a file is deleted once, after its upload.           *)
StorageExact == used = SizeOf(Charged)

(* The quota is checked long before it is charged, yet at most one upload  *)
(* per other thread gets past the check unseen: the limit is exceeded by   *)
(* no more than the largest file for each of the other threads.            *)
Largest(f) == \A g \in Files : Size[g] <= Size[f]
OverrunBounded ==
  \A f \in Files : Largest(f) =>
    used <= Limit + (Cardinality(Threads) - 1) * Size[f]

(* A row whose file is gone belongs to a delete that is still running.     *)
(* Holds as long as no statement fails and nothing crashes.                *)
ListedOnDisk ==
  \A f \in listed : disk[f] \in {"torn", "whole"} \/ Busy(Deleting, f) # {}

(* After "File deleted" the file never comes back: no row, no share code,  *)
(* nothing on disk, whatever uploads, shares or deletes were in flight.    *)
DeletedGone ==
  \A f \in Files : "deleted" \in told[f] =>
    f \notin listed /\ disk[f] = "absent" /\ share[f] = NoCode

(* After "Upload success" the file stays until somebody asks to delete it. *)
UploadedStays ==
  \A f \in Files : "uploaded" \in told[f] /\ "deleting" \notin told[f] =>
    f \in listed /\ disk[f] \in {"torn", "whole"}

(* No download with status 200 gives a file that is still being written,   *)
(* however it overlaps with uploads, deletes, shares and crashes.  It says *)
(* no more: a file that was torn by a full disk is given as it is, and one *)
(* that was deleted meanwhile gives nothing.                               *)
DownloadIntact == "partial" \notin bodies
=============================================================================
