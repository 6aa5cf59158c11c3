---------------------------- MODULE ChunkedUpload ----------------------------
(***************************************************************************)
(* Chunked uploads of one user: handle_file_upload_init, _chunk, _complete *)
(* and _cancel (src/http_handler.cpp) with create_upload_session,          *)
(* save_chunk, complete_upload and cancel_upload (src/file_manager.cpp),   *)
(* run by the worker threads side by side.                                 *)
(*                                                                         *)
(* Three stores are kept in step by hand: the tables of MySQL, the         *)
(* temporary directory of an upload with its chunk files, and the user's   *)
(* directory with the merged files.  One SQL statement, one transaction    *)
(* and one file operation are one step each; anything may happen between.  *)
(***************************************************************************)
EXTENDS Integers, FiniteSets, FiniteSetsExt

CONSTANTS
  Threads,      \* worker threads, each serving one request at a time
  Uploads,      \* upload ids that uuid_generate can give
  TotalChunks,  \* total_chunks of an upload
  Paths,        \* names that generate_unique_filename can give
  Size,         \* file_size declared for each upload
  Limit,        \* storage_limit of the user
  Faults,       \* what may fail: "statement" (any but the UPDATE of a cancel),
                \* "cancel" (that one), "commit" (its answer is lost), "disk", "crash"
  Overlapping   \* may a client complete an upload again while its earlier
                \* completion is under way?

NoUpload == "no upload"
NoPath == "no path"

ASSUME UploadAssumption ==
  /\ NoUpload \notin Uploads /\ NoPath \notin Paths
  /\ TotalChunks \in Nat \ {0}
  /\ Size \in [Uploads -> Nat \ {0}]
  /\ Limit \in Nat
  /\ Faults \subseteq {"statement", "cancel", "commit", "disk", "crash"}
  /\ Overlapping \in BOOLEAN

VARIABLES
  status,   \* upload_sessions.status, "none" without a row
  expired,  \* has upload_sessions.expires_at passed?
  rows,     \* indices with a 'completed' row in upload_chunks
  files,    \* rows of files: path on disk and the upload they come from
  used,     \* users.storage_used
  dir,      \* does uploads/<upload_id> exist?
  chunk,    \* its chunk files: "absent", "torn" (truncated, partly written), "whole"
  disk,     \* the user's directory: "absent", "partial", "torn", "whole"
  rewritten,\* history: the uploads of which a chunk was opened, and so cut to
            \* nothing, although it was recorded or another save had it open
  pc,       \* where each thread is in its request
  job,      \* the request's local variables
  told      \* history: the successes the client has been told of an upload

tables == <<status, expired, rows, files, used>>
stores == <<dir, chunk, disk, rewritten>>
vars == <<tables, stores, pc, job, told>>

Chunks == 0 .. TotalChunks - 1
NoChunks == [i \in Chunks |-> "absent"]
Job == [upload : Uploads \cup {NoUpload}, index : 0 .. TotalChunks,
        path : Paths \cup {NoPath}, whole : BOOLEAN, linked : BOOLEAN,
        success : {"none", "completed", "cancelled"}]
NoJob == [upload |-> NoUpload, index |-> 0, path |-> NoPath,
          whole |-> TRUE, linked |-> FALSE, success |-> "none"]

Merging == {"merge", "publish"}
Completing == Merging \cup {"meta"}
Writing == {"chunkWrite", "chunkRow"}
Saving == {"chunkDir", "chunkOpen", "chunkWrite", "chunkRow"}
Control == {"idle", "insert", "initDir", "cancelRow", "clear", "removeDir"}
             \cup Saving \cup Completing

(* The client knows an upload id once it has the answer to its init.       *)
Opened(u) == "opened" \in told[u]
Busy(S, u) == {t \in Threads : pc[t] \in S /\ job[t].upload = u}

Start(t, u, i, next) ==
  /\ pc[t] = "idle"
  /\ pc' = [pc EXCEPT ![t] = next]
  /\ job' = [job EXCEPT ![t] = [NoJob EXCEPT !.upload = u, !.index = i]]
  /\ UNCHANGED told

Go(t, next) == pc' = [pc EXCEPT ![t] = next] /\ UNCHANGED <<job, told>>

(* The request ends: answers is what its 200 tells the client, if it is one.*)
End(t, answers) ==
  /\ pc' = [pc EXCEPT ![t] = "idle"]
  /\ job' = [job EXCEPT ![t] = NoJob]
  /\ told' = [told EXCEPT ![job[t].upload] = @ \cup answers]

(* An error path: return false, an error code or an exception.             *)
Fail(t, fault) == fault \in Faults /\ End(t, {})

-----------------------------------------------------------------------------
Init ==
  /\ status = [u \in Uploads |-> "none"]
  /\ expired = [u \in Uploads |-> FALSE]
  /\ rows = [u \in Uploads |-> {}]
  /\ files = {}
  /\ used = 0
  /\ dir = [u \in Uploads |-> FALSE]
  /\ chunk = [u \in Uploads |-> NoChunks]
  /\ disk = [p \in Paths |-> "absent"]
  /\ rewritten = {}
  /\ pc = [t \in Threads |-> "idle"]
  /\ job = [t \in Threads |-> NoJob]
  /\ told = [u \in Uploads |-> {}]

(* Init: the quota is read (by the handler and again by the session's      *)
(* creation) and an unused uuid is drawn.                                  *)
CheckQuota(t, u) ==
  /\ status[u] = "none" /\ \A s \in Threads : job[s].upload # u
  /\ used + Size[u] <= Limit
  /\ Start(t, u, 0, "insert")
  /\ UNCHANGED <<tables, stores>>

InsertSession(t) ==
  /\ pc[t] = "insert"
  /\ \/ /\ status' = [status EXCEPT ![job[t].upload] = "uploading"]
        /\ Go(t, "initDir")
     \/ Fail(t, "statement") /\ UNCHANGED status
  /\ UNCHANGED <<expired, rows, files, used, stores>>

MakeInitDir(t) ==
  /\ pc[t] = "initDir"
  /\ \/ dir' = [dir EXCEPT ![job[t].upload] = TRUE] /\ End(t, {"opened"})
     \/ Fail(t, "disk") /\ UNCHANGED dir
  /\ UNCHANGED <<tables, chunk, disk, rewritten>>

-----------------------------------------------------------------------------
(* Chunk: the handler and save_chunk read the session's row; the last read *)
(* decides, as a session never becomes active again.  Any index may come,  *)
(* also one that is recorded or being saved: after a chunk has failed,     *)
(* app.js resumes from a progress it has read while others were in flight. *)
CheckChunk(t, u, i) ==
  /\ Opened(u) /\ status[u] = "uploading" /\ ~expired[u]
  /\ Start(t, u, i, "chunkDir")
  /\ UNCHANGED <<tables, stores>>

MakeChunkDir(t) ==
  /\ pc[t] = "chunkDir"
  /\ \/ dir' = [dir EXCEPT ![job[t].upload] = TRUE] /\ Go(t, "chunkOpen")
     \/ Fail(t, "disk") /\ UNCHANGED dir
  /\ UNCHANGED <<tables, chunk, disk, rewritten>>

OthersWriting(t) ==
  {s \in Busy(Writing, job[t].upload) \ {t} : job[s].index = job[t].index}

(* ofstream with trunc: the chunk is empty until it is written; the open   *)
(* fails when the directory has been removed meanwhile.                    *)
OpenChunk(t) ==
  LET u == job[t].upload IN
  /\ pc[t] = "chunkOpen"
  /\ \/ /\ dir[u]
        /\ chunk' = [chunk EXCEPT ![u][job[t].index] = "torn"]
        /\ pc' = [pc EXCEPT ![t] = "chunkWrite"]
        /\ job' = [job EXCEPT ![t].linked = TRUE]
        /\ rewritten' = IF job[t].index \in rows[u] \/ OthersWriting(t) # {}
                        THEN rewritten \cup {u} ELSE rewritten
        /\ UNCHANGED told
     \/ /\ (~dir[u] /\ End(t, {})) \/ Fail(t, "disk")
        /\ UNCHANGED <<chunk, rewritten>>
  /\ UNCHANGED <<tables, dir, disk>>

(* The result of write is not looked at: on a full disk the chunk stays    *)
(* torn.  A chunk removed while it is open has no name any more.           *)
WriteChunk(t) ==
  /\ pc[t] = "chunkWrite"
  /\ \/ /\ job[t].linked
        /\ chunk' = [chunk EXCEPT ![job[t].upload][job[t].index] = "whole"]
     \/ (~job[t].linked \/ "disk" \in Faults) /\ UNCHANGED chunk
  /\ Go(t, "chunkRow")
  /\ UNCHANGED <<tables, dir, disk, rewritten>>

RecordChunk(t) ==
  /\ pc[t] = "chunkRow"
  /\ \/ /\ rows' = [rows EXCEPT ![job[t].upload] = @ \cup {job[t].index}]
        /\ End(t, {})
     \/ Fail(t, "statement") /\ UNCHANGED rows
  /\ UNCHANGED <<status, expired, files, used, stores>>

-----------------------------------------------------------------------------
(* A mutation: the completion is content with any recorded chunk.          *)
SomeRecorded(u) == rows[u] # {}

AllRecorded(u) == rows[u] = Chunks

(* Complete: the progress is read first.  It does not tell whether an      *)
(* earlier completion is under way, so that app.js, when it resumes after  *)
(* a lost answer, may send an overlapping one.                             *)
CheckComplete(t, u) ==
  /\ Opened(u) /\ status[u] = "uploading" /\ ~expired[u] /\ AllRecorded(u)
  /\ Overlapping \/ Busy(Completing, u) = {}
  /\ Start(t, u, 0, "meta")
  /\ UNCHANGED <<tables, stores>>

Unused(p) ==
  /\ disk[p] = "absent"
  /\ \A f \in files : f.path # p
  /\ \A s \in Threads : job[s].path # p

(* The session's row is read once more, then the destination is created.   *)
ReadMeta(t) ==
  /\ pc[t] = "meta"
  /\ \/ /\ status[job[t].upload] = "uploading"
        /\ \E p \in Paths :
             /\ Unused(p)
             /\ disk' = [disk EXCEPT ![p] = "partial"]
             /\ job' = [job EXCEPT ![t].path = p]
        /\ pc' = [pc EXCEPT ![t] = "merge"]
        /\ UNCHANGED told
     \/ status[job[t].upload] # "uploading" /\ End(t, {}) /\ UNCHANGED disk
     \/ (Fail(t, "statement") \/ Fail(t, "disk")) /\ UNCHANGED disk
  /\ UNCHANGED <<tables, dir, chunk, rewritten>>

(* A mutation: merge_chunks runs one index too far.                        *)
LastTooLate(j) == j.index = TotalChunks

Last(j) == j.index + 1 = TotalChunks

(* merge_chunks appends one chunk; a missing one ends the request and      *)
(* leaves the destination behind.  Failed writes are not noticed.          *)
MergeChunk(t) ==
  LET j == job[t]
      source == chunk[j.upload][j.index] IN
  /\ pc[t] = "merge"
  /\ \/ source = "absent" /\ End(t, {}) /\ UNCHANGED disk
     \/ /\ source # "absent"
        /\ \E whole \in {j.whole /\ source = "whole"} \cup
                        (IF "disk" \in Faults THEN {FALSE} ELSE {}) :
             /\ job' = [job EXCEPT ![t].index = @ + 1, ![t].whole = whole]
             /\ disk' = [disk EXCEPT ![j.path] =
                           IF ~Last(j) THEN "partial" ELSE IF whole THEN "whole" ELSE "torn"]
        /\ pc' = [pc EXCEPT ![t] = IF Last(j) THEN "publish" ELSE "merge"]
        /\ UNCHANGED told
  /\ UNCHANGED <<tables, dir, chunk, rewritten>>

(* A mutation: the charge is forgotten.                                    *)
CommitUncharged(t) ==
  LET u == job[t].upload IN
  /\ files' = files \cup {[path |-> job[t].path, upload |-> u]}
  /\ status' = [status EXCEPT ![u] = "completed"]
  /\ UNCHANGED <<expired, rows, used>>

(* The transaction: its writes become visible together at COMMIT and the   *)
(* rows it updates are locked until then, so it is one step; the update of *)
(* the session's status has no condition on the status it replaces.        *)
Commit(t) ==
  LET u == job[t].upload IN
  /\ files' = files \cup {[path |-> job[t].path, upload |-> u]}
  /\ used' = used + Size[u]
  /\ status' = [status EXCEPT ![u] = "completed"]
  /\ UNCHANGED <<expired, rows>>

(* Mutations: a failed statement is not noticed; the merged file is        *)
(* unlinked on the way out of a success too.                               *)
PublishUnnoticed(t) ==
  /\ pc[t] = "publish"
  /\ \/ Commit(t)
     \/ "statement" \in Faults /\ UNCHANGED tables
  /\ pc' = [pc EXCEPT ![t] = "clear"]
  /\ job' = [job EXCEPT ![t].success = "completed"]
  /\ UNCHANGED <<stores, told>>

PublishUnlinking(t) ==
  /\ pc[t] = "publish"
  /\ Commit(t)
  /\ pc' = [pc EXCEPT ![t] = "clear"]
  /\ job' = [job EXCEPT ![t].success = "completed"]
  /\ disk' = [disk EXCEPT ![job[t].path] = "absent"]
  /\ UNCHANGED <<dir, chunk, rewritten, told>>

(* A failed statement rolls back and unlinks the merged file.  So does a   *)
(* COMMIT whose answer is lost after the server has applied it.            *)
Publish(t) ==
  /\ pc[t] = "publish"
  /\ \/ /\ Commit(t)
        /\ pc' = [pc EXCEPT ![t] = "clear"]
        /\ job' = [job EXCEPT ![t].success = "completed"]
        /\ UNCHANGED <<disk, told>>
     \/ /\ \/ Fail(t, "statement") /\ UNCHANGED tables
           \/ Fail(t, "commit") /\ Commit(t)
        /\ disk' = [disk EXCEPT ![job[t].path] = "absent"]
  /\ UNCHANGED <<dir, chunk, rewritten>>

-----------------------------------------------------------------------------
(* A mutation: the directory is removed without updating the session.      *)
CheckCancelNoRow(t, u) ==
  /\ Opened(u) /\ ~expired[u]
  /\ Start(t, u, 0, "clear")
  /\ UNCHANGED <<tables, stores>>

(* Cancel: the handler looks for the row and its expiry, not at its status.*)
CheckCancel(t, u) ==
  /\ Opened(u) /\ ~expired[u]
  /\ Start(t, u, 0, "cancelRow")
  /\ UNCHANGED <<tables, stores>>

(* A mutation: UPDATE ... WHERE upload_id = ? only.                         *)
CancelRowAnyStatus(t) ==
  /\ pc[t] = "cancelRow"
  /\ pc' = [pc EXCEPT ![t] = "clear"]
  /\ status' = [status EXCEPT ![job[t].upload] = "cancelled"]
  /\ job' = [job EXCEPT ![t].success = "cancelled"]
  /\ UNCHANGED <<expired, rows, files, used, stores, told>>

(* UPDATE ... WHERE status = 'uploading' succeeds on zero rows too.        *)
CancelRow(t) ==
  LET u == job[t].upload IN
  /\ pc[t] = "cancelRow"
  /\ pc' = [pc EXCEPT ![t] = "clear"]
  /\ \/ /\ status' = [status EXCEPT ![u] = IF @ = "uploading" THEN "cancelled" ELSE @]
        /\ job' = [job EXCEPT ![t].success = "cancelled"]
     \/ "cancel" \in Faults /\ UNCHANGED <<status, job>>
  /\ UNCHANGED <<expired, rows, files, used, stores, told>>

(* remove_all of the temporary directory, the last step of complete and of *)
(* cancel: nothing to do without one; else its entries go first ...        *)
Clear(t) ==
  LET u == job[t].upload IN
  /\ pc[t] = "clear"
  /\ \/ ~dir[u] /\ End(t, {job[t].success} \ {"none"}) /\ UNCHANGED chunk
     \/ /\ dir[u]
        /\ chunk' = [chunk EXCEPT ![u] = NoChunks]
        /\ job' = [s \in Threads |-> IF job[s].upload = u
                                     THEN [job[s] EXCEPT !.linked = FALSE] ELSE job[s]]
        /\ pc' = [pc EXCEPT ![t] = "removeDir"]
        /\ UNCHANGED told
  /\ UNCHANGED <<tables, dir, disk, rewritten>>

(* ... and then the directory, which throws if a chunk has appeared in it. *)
RemoveDir(t) ==
  LET u == job[t].upload IN
  /\ pc[t] = "removeDir"
  /\ \/ /\ chunk[u] = NoChunks
        /\ dir' = [dir EXCEPT ![u] = FALSE]
        /\ End(t, {job[t].success} \ {"none"})
     \/ chunk[u] # NoChunks /\ End(t, {}) /\ UNCHANGED dir
  /\ UNCHANGED <<tables, chunk, disk, rewritten>>

-----------------------------------------------------------------------------
(* Time passes: the 24 hours of expires_at are over.                       *)
Expire(u) ==
  /\ status[u] # "none" /\ ~expired[u]
  /\ expired' = [expired EXCEPT ![u] = TRUE]
  /\ UNCHANGED <<status, rows, files, used, stores, pc, job, told>>

(* The process dies and is started again: the requests are gone, MySQL     *)
(* rolls open transactions back, the tables and the files stay.            *)
Crash ==
  /\ "crash" \in Faults
  /\ pc' = [t \in Threads |-> "idle"]
  /\ job' = [t \in Threads |-> NoJob]
  /\ UNCHANGED <<tables, stores, told>>

Step(t) ==
  \/ InsertSession(t) \/ MakeInitDir(t)
  \/ MakeChunkDir(t) \/ OpenChunk(t) \/ WriteChunk(t) \/ RecordChunk(t)
  \/ ReadMeta(t) \/ MergeChunk(t) \/ Publish(t)
  \/ CancelRow(t) \/ Clear(t) \/ RemoveDir(t)

Request(t, u) ==
  \/ CheckQuota(t, u)
  \/ \E i \in Chunks : CheckChunk(t, u, i)
  \/ CheckComplete(t, u)
  \/ CheckCancel(t, u)

Next ==
  \/ \E t \in Threads : Step(t)
  \/ \E t \in Threads, u \in Uploads : Request(t, u)
  \/ \E u \in Uploads : Expire(u)
  \/ Crash

Spec == Init /\ [][Next]_vars

Ledger == INSTANCE UploadLedger WITH Once <- ~Overlapping

-----------------------------------------------------------------------------
FilesOf(u) == {f \in files : f.upload = u}

TablesType ==
  /\ status \in [Uploads -> {"none", "uploading", "completed", "cancelled"}]
  /\ expired \in [Uploads -> BOOLEAN]
  /\ rows \in [Uploads -> SUBSET Chunks]
  /\ files \subseteq [path : Paths, upload : Uploads]
  /\ used \in Nat

StoresType ==
  /\ dir \in [Uploads -> BOOLEAN]
  /\ chunk \in [Uploads -> [Chunks -> {"absent", "torn", "whole"}]]
  /\ disk \in [Paths -> {"absent", "partial", "torn", "whole"}]
  /\ rewritten \subseteq Uploads

RequestType ==
  /\ pc \in [Threads -> Control]
  /\ job \in [Threads -> Job]
  /\ told \in [Uploads -> SUBSET {"opened", "completed", "cancelled"}]
  /\ \A t \in Threads :
       /\ pc[t] = "idle" <=> job[t].upload = NoUpload
       /\ pc[t] \in Saving \cup {"meta", "merge"} => job[t].index \in Chunks
       /\ pc[t] \in Merging => job[t].path \in Paths

(* Types of the tables, of the two directories and of the requests: one    *)
(* that saves a chunk has a valid index, one that merges has a file.       *)
TypeOK == TablesType /\ StoresType /\ RequestType

(* The storage charged to the user is the declared size of the files in    *)
(* the table, whatever fails or crashes between merging and the answer.    *)
Accounting == used = SumFunction([f \in files |-> Size[f.upload]])

(* A session is completed exactly when its upload has a row in files: no   *)
(* race with a cancel or a second complete separates the two tables.       *)
CompletedIffFile == \A u \in Uploads : status[u] = "completed" <=> FilesOf(u) # {}

(* No file is published before every one of its chunks was recorded.       *)
OnlyFullUploads == \A f \in files : rows[f.upload] = Chunks

(* A file whose upload was answered "Upload complete" has its row and its  *)
(* merged file on disk, and no later request, failure or crash of an       *)
(* upload takes them away.                                                 *)
AcknowledgedFileStays ==
  \A u \in Uploads : "completed" \in told[u] =>
    \E f \in FilesOf(u) : disk[f.path] \in {"whole", "torn"}

(* The requests implement the ledger: every step of a request changes the  *)
(* tables in one of the ledger's ways or not at all.                       *)
ImplementsLedger == Ledger!Spec

(* The client resumes an active session from the indices recorded in the   *)
(* table ("completed chunk indices, used to resume", file_manager.h:66):   *)
(* each of them has its chunk file.  Holds unless the statement of a       *)
(* cancel fails, which removes the directory all the same.                 *)
RecordedChunkOnDisk ==
  \A u \in Uploads : status[u] = "uploading" =>
    \A i \in rows[u] : chunk[u][i] # "absent"

(* Every row of files has its file on disk.  Holds unless the answer to a  *)
(* COMMIT is lost.                                                         *)
RowHasFile == \A f \in files : disk[f.path] # "absent"

(* A client that sends its completion once at a time has one file per      *)
(* upload, and pays once, also when answers are lost and it retries.       *)
OneFilePerUpload == \A u \in Uploads : \A f, g \in FilesOf(u) : f = g

(* A merged file in the table consists of complete chunks, as long as the  *)
(* disk does not fill up: "confirm that all chunks are completed, merge    *)
(* them in order" (LARGE_FILE_UPLOAD_PLAN.md 177-178).  The exception is   *)
(* an upload of which a save has opened, and so cut to nothing, a chunk    *)
(* that was recorded or that another save was still writing: the merge     *)
(* may read what is left of it.  Resuming clients send such chunks.        *)
PublishedFileIntact ==
  \A f \in files : disk[f.path] \in {"partial", "torn"} => f.upload \in rewritten
=============================================================================
