------------------------- MODULE ChunkedUploadProofs -------------------------
(* Proofs about ChunkedUpload, for every number of threads, uploads and    *)
(* chunks, every size and limit, all faults and all clients.               *)
EXTENDS ChunkedUpload, SumTheorems, TLAPS

(* Why the tables stay together: a thread that inserts a session is alone  *)
(* with its unused id, every other request has a session that was opened,  *)
(* and a completion under way has seen all its chunks recorded.            *)
RequestInv ==
  /\ \A t \in Threads : pc[t] = "insert" =>
       /\ status[job[t].upload] = "none"
       /\ \A s \in Threads : job[s].upload = job[t].upload => s = t
  /\ \A t \in Threads : pc[t] \notin {"idle", "insert"} => status[job[t].upload] # "none"
  /\ \A u \in Uploads : told[u] # {} => status[u] # "none"
  /\ \A t \in Threads : pc[t] \in Completing => rows[job[t].upload] = Chunks

(* Why merged files are not disturbed: no two requests write to one path,  *)
(* none writes to a path in the table, a file is complete on disk when it  *)
(* is published and still there while its request ends.                    *)
PathInv ==
  /\ \A s, t \in Threads : job[s].path = job[t].path /\ job[t].path # NoPath => s = t
  /\ \A t \in Threads : pc[t] \in Merging => \A f \in files : f.path # job[t].path
  /\ \A t \in Threads : pc[t] = "publish" => disk[job[t].path] \in {"whole", "torn"}
  /\ \A t \in Threads : job[t].success = "completed" =>
       \E f \in FilesOf(job[t].upload) : disk[f.path] \in {"whole", "torn"}

(* With one completion of an upload at a time, a completion that got past  *)
(* its check is the only one and its upload is not published yet.          *)
SingleInv ==
  ~Overlapping =>
    \A t \in Threads : pc[t] \in Completing =>
      /\ status[job[t].upload] # "completed"
      /\ \A s \in Threads :
           pc[s] \in Completing /\ job[s].upload = job[t].upload => s = t

(* A thread goes on at n with the locals j: what has to hold of the two.   *)
LEMMA RequestStepType ==
  ASSUME RequestType, NEW t \in Threads, NEW n \in Control, NEW j \in Job,
         pc' = [pc EXCEPT ![t] = n], job' = [job EXCEPT ![t] = j],
         told' \in [Uploads -> SUBSET {"opened", "completed", "cancelled"}],
         n = "idle" <=> j.upload = NoUpload,
         n \in Saving \cup {"meta", "merge"} => j.index \in Chunks,
         n \in Merging => j.path \in Paths
  PROVE  RequestType'
  BY DEF RequestType

LEMMA StartType ==
  ASSUME UploadAssumption, RequestType, NEW t \in Threads, NEW u \in Uploads,
         NEW i \in Chunks, NEW n \in Control \ {"idle", "merge", "publish"},
         Start(t, u, i, n)
  PROVE  RequestType'
  <1> DEFINE j == [NoJob EXCEPT !.upload = u, !.index = i]
  <1>0. i \in 0 .. TotalChunks
    BY DEF Chunks, UploadAssumption
  <1>1. j \in Job /\ j.upload = u /\ j.index = i
    BY <1>0 DEF Job, NoJob
  <1>2. u # NoUpload
    BY DEF UploadAssumption
  <1>3. job' = [job EXCEPT ![t] = j] /\ told' = told
    BY DEF Start
  <1> HIDE DEF j
  <1>4. QED
    BY <1>1, <1>2, <1>3, RequestStepType DEF Start, RequestType, Merging

LEMMA EndType ==
  ASSUME UploadAssumption, RequestType, NEW t \in Threads, pc[t] # "idle",
         NEW answers \in SUBSET {"opened", "completed", "cancelled"},
         End(t, answers)
  PROVE  RequestType'
  <1>1. NoJob \in Job /\ NoJob.upload = NoUpload
    BY DEF Job, NoJob, UploadAssumption
  <1>2. job[t].upload \in Uploads
    BY DEF RequestType, Job
  <1>3. told' \in [Uploads -> SUBSET {"opened", "completed", "cancelled"}]
    BY <1>2 DEF End, RequestType
  <1>4. QED
    BY <1>1, <1>3, RequestStepType DEF End, Control, Saving, Merging

LEMMA FailType ==
  ASSUME UploadAssumption, RequestType, NEW t \in Threads, pc[t] # "idle",
         NEW fault, Fail(t, fault)
  PROVE  RequestType'
  BY EndType DEF Fail

(* A step that keeps the locals, to a place with no more demands on them.  *)
LEMMA GoType ==
  ASSUME RequestType, NEW t \in Threads, pc[t] # "idle",
         NEW n \in Control \ {"idle", "meta", "merge", "publish"},
         n \in Saving => pc[t] \in Saving,
         pc' = [pc EXCEPT ![t] = n],
         UNCHANGED job, UNCHANGED told
  PROVE  RequestType'
  BY DEF RequestType, Merging

LEMMA ChunkFileType ==
  ASSUME StoresType, NEW u \in Uploads, NEW i \in Chunks, NEW v \in {"torn", "whole"},
         chunk' = [chunk EXCEPT ![u][i] = v], UNCHANGED <<dir, disk>>,
         rewritten' \subseteq Uploads
  PROVE  StoresType'
  <1>1. [chunk[u] EXCEPT ![i] = v] \in [Chunks -> {"absent", "torn", "whole"}]
    BY DEF StoresType
  <1>2. chunk' = [chunk EXCEPT ![u] = [chunk[u] EXCEPT ![i] = v]]
    OBVIOUS
  <1>3. QED
    BY <1>1, <1>2 DEF StoresType

LEMMA TypeInductive == UploadAssumption /\ TypeOK /\ [Next]_vars => TypeOK'
  <1> SUFFICES ASSUME UploadAssumption, TypeOK, [Next]_vars PROVE TypeOK'
    OBVIOUS
  <1> USE DEF TypeOK, tables, stores
  <1>a. 0 \in Chunks
    BY DEF Chunks, UploadAssumption
  <1>b. ASSUME NEW t \in Threads, pc[t] # "idle"
        PROVE  job[t] \in Job /\ job[t].upload \in Uploads
    BY <1>b DEF RequestType, Job
  <1>1. ASSUME NEW t \in Threads, NEW u \in Uploads, CheckQuota(t, u) PROVE TypeOK'
    BY <1>1, <1>a, StartType DEF CheckQuota, Control, TablesType, StoresType
  <1>2. ASSUME NEW t \in Threads, InsertSession(t) PROVE TypeOK'
    <2>1. RequestType'
      BY <1>2, FailType, GoType DEF InsertSession, Go, Control, Saving
    <2>2. TablesType' /\ StoresType'
      BY <1>2, <1>b DEF InsertSession, TablesType, StoresType
    <2>3. QED
      BY <2>1, <2>2
  <1>3. ASSUME NEW t \in Threads, MakeInitDir(t) PROVE TypeOK'
    <2>1. RequestType'
      BY <1>3, FailType, EndType DEF MakeInitDir
    <2>2. TablesType' /\ StoresType'
      BY <1>3, <1>b DEF MakeInitDir, TablesType, StoresType
    <2>3. QED
      BY <2>1, <2>2
  <1>4. ASSUME NEW t \in Threads, NEW u \in Uploads, NEW i \in Chunks,
               CheckChunk(t, u, i)
        PROVE  TypeOK'
    BY <1>4, StartType DEF CheckChunk, Control, Saving, TablesType, StoresType
  <1>5. ASSUME NEW t \in Threads, MakeChunkDir(t) PROVE TypeOK'
    <2>1. RequestType'
      BY <1>5, FailType, GoType DEF MakeChunkDir, Go, Control, Saving
    <2>2. TablesType' /\ StoresType'
      BY <1>5, <1>b DEF MakeChunkDir, TablesType, StoresType
    <2>3. QED
      BY <2>1, <2>2
  <1>6. ASSUME NEW t \in Threads, OpenChunk(t) PROVE TypeOK'
    <2>1. job[t].upload \in Uploads /\ job[t].index \in Chunks
      BY <1>6, <1>b DEF OpenChunk, RequestType, Saving
    <2>2. TablesType' /\ StoresType'
      <3>1. TablesType'
        BY <1>6 DEF OpenChunk, TablesType
      <3>2. StoresType'
        BY <1>6, <2>1, ChunkFileType DEF OpenChunk, StoresType
      <3>3. QED
        BY <3>1, <3>2
    <2>3. ASSUME pc' = [pc EXCEPT ![t] = "chunkWrite"],
                 job' = [job EXCEPT ![t].linked = TRUE], UNCHANGED told
          PROVE  RequestType'
      <3> DEFINE j == [job[t] EXCEPT !.linked = TRUE]
      <3>1. j \in Job /\ j.upload = job[t].upload /\ j.index = job[t].index
        BY <1>6, <1>b DEF OpenChunk, Job
      <3>2. job' = [job EXCEPT ![t] = j]
        BY <2>3
      <3>3. j.upload # NoUpload
        BY <2>1, <3>1 DEF UploadAssumption
      <3> HIDE DEF j
      <3>4. QED
        BY <2>1, <2>3, <3>1, <3>2, <3>3, RequestStepType
        DEF RequestType, Control, Saving, Merging
    <2>4. RequestType'
      BY <1>6, <2>3, EndType, FailType DEF OpenChunk
    <2>5. QED
      BY <2>2, <2>4
  <1>7. ASSUME NEW t \in Threads, WriteChunk(t) PROVE TypeOK'
    <2>1. job[t].upload \in Uploads /\ job[t].index \in Chunks
      BY <1>7, <1>b DEF WriteChunk, RequestType, Saving
    <2>2. TablesType' /\ StoresType'
      <3>1. TablesType'
        BY <1>7 DEF WriteChunk, TablesType
      <3>2. StoresType'
        BY <1>7, <2>1, ChunkFileType DEF WriteChunk, StoresType
      <3>3. QED
        BY <3>1, <3>2
    <2>3. RequestType'
      BY <1>7, GoType DEF WriteChunk, Go, Control, Saving
    <2>4. QED
      BY <2>2, <2>3
  <1>8. ASSUME NEW t \in Threads, RecordChunk(t) PROVE TypeOK'
    <2>1. job[t].upload \in Uploads /\ job[t].index \in Chunks
      BY <1>8, <1>b DEF RecordChunk, RequestType, Saving
    <2>2. TablesType' /\ StoresType'
      BY <1>8, <2>1 DEF RecordChunk, TablesType, StoresType
    <2>3. RequestType'
      BY <1>8, EndType, FailType DEF RecordChunk
    <2>4. QED
      BY <2>2, <2>3
  <1>9. ASSUME NEW t \in Threads, NEW u \in Uploads, CheckComplete(t, u)
        PROVE  TypeOK'
    BY <1>9, <1>a, StartType
    DEF CheckComplete, Control, Completing, TablesType, StoresType
  <1>10. ASSUME NEW t \in Threads, ReadMeta(t) PROVE TypeOK'
    <2>1. TablesType' /\ StoresType'
      BY <1>10 DEF ReadMeta, TablesType, StoresType
    <2>2. ASSUME NEW p \in Paths, pc' = [pc EXCEPT ![t] = "merge"],
                 job' = [job EXCEPT ![t].path = p], UNCHANGED told
          PROVE  RequestType'
      <3> DEFINE j == [job[t] EXCEPT !.path = p]
      <3>1. /\ j \in Job /\ j.upload = job[t].upload /\ j.index = job[t].index
            /\ j.path = p
        BY <1>10, <1>b DEF ReadMeta, Job
      <3>2. job' = [job EXCEPT ![t] = j]
        BY <2>2
      <3>3. j.upload # NoUpload /\ j.index \in Chunks
        BY <1>10, <3>1 DEF ReadMeta, RequestType
      <3> HIDE DEF j
      <3>4. QED
        BY <2>2, <3>1, <3>2, <3>3, RequestStepType
        DEF RequestType, Control, Completing, Merging
    <2>4. RequestType'
      BY <1>10, <2>2, EndType, FailType DEF ReadMeta
    <2>5. QED
      BY <2>1, <2>4
  <1>11. ASSUME NEW t \in Threads, MergeChunk(t) PROVE TypeOK'
    <2>0. /\ job[t].upload \in Uploads /\ job[t].index \in Chunks
          /\ job[t].path \in Paths
      BY <1>11, <1>b DEF MergeChunk, RequestType, Merging
    <2>1. TablesType' /\ StoresType'
      BY <1>11, <2>0 DEF MergeChunk, TablesType, StoresType
    <2>2. ASSUME NEW w \in BOOLEAN, NEW n \in {"merge", "publish"},
                 n = IF job[t].index + 1 = TotalChunks THEN "publish" ELSE "merge",
                 pc' = [pc EXCEPT ![t] = n],
                 job' = [job EXCEPT ![t].index = @ + 1, ![t].whole = w], UNCHANGED told
          PROVE  RequestType'
      <3>1. PICK k \in 0 .. TotalChunks :
              k = job[t].index + 1 /\ (n = "merge" => k \in Chunks)
        BY <2>0, <2>2 DEF Chunks, UploadAssumption
      <3> DEFINE j == [job[t] EXCEPT !.index = k, !.whole = w]
      <3>2. job[t] \in Job
        BY <1>11, <1>b DEF MergeChunk
      <3>3. j \in Job /\ j.upload = job[t].upload /\ j.index = k /\ j.path = job[t].path
        BY <3>2 DEF Job
      <3>4. job' = [job EXCEPT ![t] = j]
        BY <2>2, <3>1
      <3>5. j.upload # NoUpload
        BY <2>0, <3>3 DEF UploadAssumption
      <3>6. n \in Control /\ n # "idle" /\ n \notin Saving \cup {"meta"}
        BY DEF Control, Completing, Merging, Saving
      <3> HIDE DEF j
      <3>7. told' \in [Uploads -> SUBSET {"opened", "completed", "cancelled"}]
        BY <2>2 DEF RequestType
      <3>8. QED
        BY <2>0, <2>2, <3>1, <3>3, <3>4, <3>5, <3>6, <3>7, RequestStepType
    <2>3. RequestType'
      <3>1. CASE End(t, {})
        BY <1>11, <3>1, EndType DEF MergeChunk
      <3>2. CASE ~End(t, {})
        <4>1. PICK w \in {job[t].whole /\ chunk[job[t].upload][job[t].index] = "whole"} \cup
                         (IF "disk" \in Faults THEN {FALSE} ELSE {}) :
                job' = [job EXCEPT ![t].index = @ + 1, ![t].whole = w]
          BY <1>11, <3>2 DEF MergeChunk
        <4>2. w \in BOOLEAN
          OBVIOUS
        <4>3. QED
          BY <1>11, <2>2, <3>2, <4>1, <4>2 DEF MergeChunk, Last
      <3>3. QED
        BY <3>1, <3>2
    <2>4. QED
      BY <2>1, <2>3
  <1>12. ASSUME NEW t \in Threads, Publish(t) PROVE TypeOK'
    <2>0. /\ job[t].upload \in Uploads /\ job[t].path \in Paths
      BY <1>12, <1>b DEF Publish, RequestType, Merging
    <2>1. StoresType'
      BY <1>12 DEF Publish, StoresType
    <2>2. TablesType'
      <3>1. CASE Commit(t)
        <4>1. used + Size[job[t].upload] \in Nat
          BY <2>0 DEF TablesType, UploadAssumption
        <4>2. [path |-> job[t].path, upload |-> job[t].upload] \in [path : Paths, upload : Uploads]
          BY <2>0
        <4>3. QED
          BY <2>0, <3>1, <4>1, <4>2 DEF Commit, TablesType
      <3>2. CASE UNCHANGED tables
        BY <3>2 DEF TablesType
      <3>3. QED
        BY <1>12, <3>1, <3>2 DEF Publish
    <2>3. ASSUME pc' = [pc EXCEPT ![t] = "clear"],
                 job' = [job EXCEPT ![t].success = "completed"], UNCHANGED told
          PROVE  RequestType'
      <3> DEFINE j == [job[t] EXCEPT !.success = "completed"]
      <3>1. j \in Job /\ j.upload = job[t].upload
        BY <1>12, <1>b DEF Publish, Job
      <3>2. job' = [job EXCEPT ![t] = j] /\ j.upload # NoUpload
        BY <2>0, <2>3, <3>1 DEF UploadAssumption
      <3> HIDE DEF j
      <3>3. QED
        BY <2>3, <3>1, <3>2, RequestStepType
        DEF RequestType, Control, Completing, Merging, Saving
    <2>4. RequestType'
      BY <1>12, <2>3, FailType DEF Publish
    <2>5. QED
      BY <2>1, <2>2, <2>4
  <1>13. ASSUME NEW t \in Threads, NEW u \in Uploads, CheckCancel(t, u)
         PROVE  TypeOK'
    BY <1>13, <1>a, StartType DEF CheckCancel, Control, TablesType, StoresType
  <1>14. ASSUME NEW t \in Threads, CancelRow(t) PROVE TypeOK'
    <2>0. job[t].upload \in Uploads
      BY <1>14, <1>b DEF CancelRow
    <2>1. TablesType' /\ StoresType'
      BY <1>14, <2>0 DEF CancelRow, TablesType, StoresType
    <2>2. ASSUME job' = [job EXCEPT ![t].success = "cancelled"]
          PROVE  RequestType'
      <3> DEFINE j == [job[t] EXCEPT !.success = "cancelled"]
      <3>1. j \in Job /\ j.upload = job[t].upload
        BY <1>14, <1>b DEF CancelRow, Job
      <3>2. job' = [job EXCEPT ![t] = j] /\ j.upload # NoUpload
        BY <2>0, <2>2, <3>1 DEF UploadAssumption
      <3> HIDE DEF j
      <3>3. QED
        BY <1>14, <3>1, <3>2, RequestStepType
        DEF CancelRow, RequestType, Control, Completing, Merging, Saving
    <2>3. RequestType'
      BY <1>14, <2>2, GoType DEF CancelRow, Control, Saving
    <2>4. QED
      BY <2>1, <2>3
  <1>15. ASSUME NEW t \in Threads, Clear(t) PROVE TypeOK'
    <2>0. /\ job[t].upload \in Uploads
          /\ job[t].success \in {"none", "completed", "cancelled"}
      BY <1>15, <1>b DEF Clear, Job
    <2>1. TablesType' /\ StoresType'
      <3>1. NoChunks \in [Chunks -> {"absent", "torn", "whole"}]
        BY DEF NoChunks
      <3>2. QED
        BY <1>15, <2>0, <3>1 DEF Clear, TablesType, StoresType
    <2>2. ASSUME job' = [s \in Threads |-> IF job[s].upload = job[t].upload
                           THEN [job[s] EXCEPT !.linked = FALSE] ELSE job[s]],
                 pc' = [pc EXCEPT ![t] = "removeDir"], UNCHANGED told
          PROVE  RequestType'
      <3>1. ASSUME NEW s \in Threads
            PROVE  /\ job'[s] \in Job /\ job'[s].upload = job[s].upload
                   /\ job'[s].index = job[s].index /\ job'[s].path = job[s].path
        <4>0. job[s] \in Job
          BY DEF RequestType
        <4>1. [job[s] EXCEPT !.linked = FALSE] \in Job
          BY <4>0 DEF Job
        <4>2. job'[s] = job[s] \/ job'[s] = [job[s] EXCEPT !.linked = FALSE]
          BY <2>2
        <4>3. QED
          BY <4>0, <4>1, <4>2 DEF Job
      <3>2. job' \in [Threads -> Job]
        BY <2>2, <3>1
      <3>3. pc' \in [Threads -> Control]
        BY <2>2 DEF RequestType, Control
      <3>4. ASSUME NEW s \in Threads
            PROVE  /\ pc'[s] = "idle" <=> job'[s].upload = NoUpload
                   /\ pc'[s] \in Saving \cup {"meta", "merge"} => job'[s].index \in Chunks
                   /\ pc'[s] \in Merging => job'[s].path \in Paths
        BY <1>15, <2>2, <3>1 DEF Clear, RequestType, Saving, Merging
      <3>5. QED
        BY <2>2, <3>2, <3>3, <3>4 DEF RequestType
    <2>3. RequestType'
      BY <1>15, <2>0, <2>2, EndType DEF Clear
    <2>4. QED
      BY <2>1, <2>3
  <1>16. ASSUME NEW t \in Threads, RemoveDir(t) PROVE TypeOK'
    <2>0. /\ job[t].upload \in Uploads
          /\ job[t].success \in {"none", "completed", "cancelled"}
      BY <1>16, <1>b DEF RemoveDir, Job
    <2>1. TablesType' /\ StoresType'
      BY <1>16, <2>0 DEF RemoveDir, TablesType, StoresType
    <2>2. RequestType'
      BY <1>16, <2>0, EndType DEF RemoveDir
    <2>3. QED
      BY <2>1, <2>2
  <1>17. ASSUME NEW u \in Uploads, Expire(u) PROVE TypeOK'
    BY <1>17 DEF Expire, TablesType, StoresType, RequestType
  <1>18. CASE Crash
    <2>1. NoJob \in Job /\ NoJob.upload = NoUpload
      BY DEF Job, NoJob, UploadAssumption
    <2>2. RequestType'
      BY <1>18, <2>1 DEF Crash, RequestType, Control, Saving, Merging
    <2>3. QED
      BY <1>18, <2>2 DEF Crash, TablesType, StoresType
  <1>19. CASE UNCHANGED vars
    BY <1>19 DEF vars, TablesType, StoresType, RequestType
  <1>20. QED
    BY <1>1, <1>2, <1>3, <1>4, <1>5, <1>6, <1>7, <1>8, <1>9, <1>10, <1>11, <1>12,
       <1>13, <1>14, <1>15, <1>16, <1>17, <1>18, <1>19
    DEF Next, Step, Request

(* The tables, the directories and the requests keep their types; no       *)
(* request loses its chunk index or its destination.                       *)
THEOREM TypeCorrect == Spec => []TypeOK
  <1>1. UploadAssumption /\ Init => TypeOK
    BY DEF Init, TypeOK, TablesType, StoresType, RequestType, NoChunks, NoJob, Job,
           Control, Saving, Merging, UploadAssumption
  <1>2. QED
    BY <1>1, TypeInductive, UploadAssumption, PTL DEF Spec

-----------------------------------------------------------------------------
(* A step of thread t inside its request: it keeps the uploads of all      *)
(* requests, touches neither the sessions nor the recorded chunks, and     *)
(* enters a completion only from within one.                               *)
LEMMA InsideRequestInv ==
  ASSUME TypeOK, RequestInv, NEW t \in Threads, NEW n,
         pc[t] \notin {"idle", "insert"}, n \notin {"idle", "insert"},
         n \in Completing => pc[t] \in Completing,
         pc' = [pc EXCEPT ![t] = n],
         job' \in [Threads -> Job],
         \A s \in Threads : job'[s].upload = job[s].upload,
         UNCHANGED told, UNCHANGED rows,
         \A u \in Uploads : status[u] # "none" <=> status'[u] # "none"
  PROVE  RequestInv'
  <1>1. \A s \in Threads : pc'[s] = IF s = t THEN n ELSE pc[s]
    BY DEF TypeOK, RequestType
  <1>2. \A s \in Threads : pc[s] # "idle" => job[s].upload \in Uploads
    BY DEF TypeOK, RequestType, Job
  <1>3. QED
    BY <1>1, <1>2 DEF RequestInv, TypeOK, TablesType, Completing, Merging

(* A request that ends leaves the others as they were.                     *)
LEMMA EndRequestInv ==
  ASSUME UploadAssumption, TypeOK, RequestInv, NEW t \in Threads, NEW answers,
         pc[t] # "idle", pc[t] = "insert" => answers = {}, End(t, answers),
         \A u \in Uploads : rows'[u] = rows[u] \/ rows[u] # Chunks,
         \A u \in Uploads : status[u] # "none" <=> status'[u] # "none"
  PROVE  RequestInv'
  <1>1. \A s \in Threads : pc'[s] = IF s = t THEN "idle" ELSE pc[s]
    BY DEF TypeOK, RequestType, End
  <1>2. \A s \in Threads : job'[s].upload = IF s = t THEN NoUpload ELSE job[s].upload
    BY DEF TypeOK, RequestType, End, NoJob
  <1>3. \A s \in Threads : pc[s] # "idle" => job[s].upload \in Uploads
    BY DEF TypeOK, RequestType, Job
  <1>4. \A u \in Uploads : told'[u] # told[u] => u = job[t].upload /\ pc[t] # "insert"
    BY <1>3 DEF TypeOK, RequestType, End
  <1>5. NoUpload \notin Uploads
    BY DEF UploadAssumption
  <1>6. QED
    BY <1>1, <1>2, <1>3, <1>4, <1>5 DEF RequestInv, TypeOK, TablesType, Completing, Merging
(* A request starts on a session that exists; a completion only when all   *)
(* chunks are recorded.                                                    *)
LEMMA StartRequestInv ==
  ASSUME UploadAssumption, TypeOK, RequestInv, NEW t \in Threads, NEW u \in Uploads,
         NEW i, NEW n, n \notin {"idle", "insert"}, status[u] # "none",
         n \in Completing => rows[u] = Chunks,
         Start(t, u, i, n), UNCHANGED tables
  PROVE  RequestInv'
  <1>1. \A s \in Threads : pc'[s] = IF s = t THEN n ELSE pc[s]
    BY DEF TypeOK, RequestType, Start
  <1>2. \A s \in Threads : job'[s].upload = IF s = t THEN u ELSE job[s].upload
    BY DEF TypeOK, RequestType, Start, NoJob
  <1>3. told' = told /\ status' = status /\ rows' = rows
    BY DEF Start, tables
  <1>4. QED
    BY <1>1, <1>2, <1>3 DEF RequestInv

LEMMA RequestInductive ==
  UploadAssumption /\ TypeOK /\ RequestInv /\ [Next]_vars => RequestInv'
  <1> SUFFICES ASSUME UploadAssumption, TypeOK, RequestInv, [Next]_vars
               PROVE  RequestInv'
    OBVIOUS
  <1>a. TypeOK'
    BY TypeInductive
  <1>b. job' \in [Threads -> Job]
    BY <1>a DEF TypeOK, RequestType
  <1>c. \A u \in Uploads : Opened(u) => status[u] # "none"
    BY DEF Opened, RequestInv
  <1>d. ASSUME NEW t \in Threads, pc[t] # "idle" PROVE job[t].upload \in Uploads
    BY <1>d DEF TypeOK, RequestType, Job
  <1>e. job \in [Threads -> Job]
    BY DEF TypeOK, RequestType
  <1>1. ASSUME NEW t \in Threads, NEW u \in Uploads, CheckQuota(t, u) PROVE RequestInv'
    <2>1. \A s \in Threads : pc'[s] = IF s = t THEN "insert" ELSE pc[s]
      BY <1>1 DEF CheckQuota, Start, TypeOK, RequestType
    <2>2. \A s \in Threads : job'[s].upload = IF s = t THEN u ELSE job[s].upload
      BY <1>1 DEF CheckQuota, Start, NoJob, TypeOK, RequestType
    <2>3. told' = told /\ status' = status /\ rows' = rows
      BY <1>1 DEF CheckQuota, Start, tables
    <2>4. QED
      BY <1>1, <2>1, <2>2, <2>3 DEF CheckQuota, RequestInv, Completing, Merging
  <1>2. ASSUME NEW t \in Threads, InsertSession(t) PROVE RequestInv'
    <2>1. CASE /\ status' = [status EXCEPT ![job[t].upload] = "uploading"]
               /\ Go(t, "initDir")
      <3>1. \A s \in Threads : pc'[s] = IF s = t THEN "initDir" ELSE pc[s]
        BY <2>1 DEF Go, TypeOK, RequestType
      <3>2. \A u \in Uploads : status'[u] = IF u = job[t].upload THEN "uploading" ELSE status[u]
        BY <1>2, <2>1 DEF TypeOK, TablesType
      <3>3. job' = job /\ told' = told /\ rows' = rows
        BY <1>2, <2>1 DEF InsertSession, Go
      <3>4. \A s \in Threads : pc[s] # "idle" => job[s].upload \in Uploads
        BY <1>d
      <3>5. QED
        BY <1>2, <3>1, <3>2, <3>3, <3>4 DEF InsertSession, RequestInv, Completing, Merging
    <2>2. CASE Fail(t, "statement") /\ UNCHANGED status
      BY <1>2, <2>2, EndRequestInv DEF InsertSession, Fail
    <2>3. QED
      BY <1>2, <2>1, <2>2 DEF InsertSession
  <1>3. ASSUME NEW t \in Threads, MakeInitDir(t) PROVE RequestInv'
    BY <1>3, EndRequestInv DEF MakeInitDir, Fail, tables
  <1>4. ASSUME NEW t \in Threads, NEW u \in Uploads, NEW i \in Chunks,
               CheckChunk(t, u, i)
        PROVE  RequestInv'
    BY <1>4, <1>c, StartRequestInv DEF CheckChunk, Completing, Merging
  <1>5. ASSUME NEW t \in Threads, MakeChunkDir(t) PROVE RequestInv'
    BY <1>5, <1>b, EndRequestInv, InsideRequestInv
    DEF MakeChunkDir, Go, Fail, Completing, Merging, tables
  <1>6. ASSUME NEW t \in Threads, OpenChunk(t) PROVE RequestInv'
    <2>1. ASSUME job' = [job EXCEPT ![t].linked = TRUE]
          PROVE  \A s \in Threads : job'[s].upload = job[s].upload
      BY <2>1, <1>e DEF Job
    <2>2. QED
      BY <1>6, <2>1, <1>b, EndRequestInv, InsideRequestInv
      DEF OpenChunk, Fail, Completing, Merging, tables
  <1>7. ASSUME NEW t \in Threads, WriteChunk(t) PROVE RequestInv'
    BY <1>7, <1>b, InsideRequestInv DEF WriteChunk, Go, Completing, Merging, tables
  <1>8. ASSUME NEW t \in Threads, RecordChunk(t) PROVE RequestInv'
    <2>1. job[t].upload \in Uploads /\ job[t].index \in Chunks
      BY <1>8, <1>d DEF RecordChunk, TypeOK, RequestType, Saving
    <2>2. \A u \in Uploads : rows'[u] = rows[u] \/ rows[u] # Chunks
      <3>1. Chunks \cup {job[t].index} = Chunks
        BY <2>1
      <3>2. CASE rows' = [rows EXCEPT ![job[t].upload] = @ \cup {job[t].index}]
        BY <2>1, <3>1, <3>2 DEF TypeOK, TablesType
      <3>3. QED
        BY <1>8, <3>2 DEF RecordChunk
    <2>3. QED
      BY <1>8, <2>2, EndRequestInv DEF RecordChunk, Fail
  <1>9. ASSUME NEW t \in Threads, NEW u \in Uploads, CheckComplete(t, u)
        PROVE  RequestInv'
    BY <1>9, <1>c, StartRequestInv DEF CheckComplete, AllRecorded
  <1>10. ASSUME NEW t \in Threads, ReadMeta(t) PROVE RequestInv'
    <2>1. ASSUME NEW p, job' = [job EXCEPT ![t].path = p]
          PROVE  \A s \in Threads : job'[s].upload = job[s].upload
      BY <2>1, <1>e DEF Job
    <2>2. CASE End(t, {})
      BY <1>10, <2>2, EndRequestInv DEF ReadMeta, tables
    <2>3. CASE ~End(t, {})
      BY <1>10, <2>1, <2>3, <1>b, InsideRequestInv
      DEF ReadMeta, Fail, Completing, Merging, tables
    <2>4. QED
      BY <2>2, <2>3
  <1>11. ASSUME NEW t \in Threads, MergeChunk(t) PROVE RequestInv'
    <2>1. ASSUME NEW w, job' = [job EXCEPT ![t].index = @ + 1, ![t].whole = w]
          PROVE  \A s \in Threads : job'[s].upload = job[s].upload
      BY <2>1, <1>e DEF Job
    <2>2. CASE End(t, {})
      BY <1>11, <2>2, EndRequestInv DEF MergeChunk, tables
    <2>3. CASE ~End(t, {})
      <3>1. PICK n \in Merging : pc' = [pc EXCEPT ![t] = n]
        BY <1>11, <2>3 DEF MergeChunk, Merging
      <3>2. \A s \in Threads : job'[s].upload = job[s].upload
        BY <1>11, <2>1, <2>3 DEF MergeChunk
      <3>3. QED
        BY <1>11, <2>3, <3>1, <3>2, <1>b, InsideRequestInv
        DEF MergeChunk, Completing, Merging, tables
    <2>4. QED
      BY <2>2, <2>3
  <1>12. ASSUME NEW t \in Threads, Publish(t) PROVE RequestInv'
    <2>1. /\ rows' = rows
          /\ \A u \in Uploads : status[u] # "none" <=> status'[u] # "none"
      BY <1>12 DEF Publish, Commit, tables, TypeOK, TablesType, RequestInv
    <2>2. ASSUME job' = [job EXCEPT ![t].success = "completed"]
          PROVE  \A s \in Threads : job'[s].upload = job[s].upload
      BY <2>2, <1>e DEF Job
    <2>3. QED
      BY <1>12, <2>1, <2>2, <1>b, EndRequestInv, InsideRequestInv
      DEF Publish, Fail, Completing, Merging
  <1>13. ASSUME NEW t \in Threads, NEW u \in Uploads, CheckCancel(t, u)
         PROVE  RequestInv'
    BY <1>13, <1>c, StartRequestInv DEF CheckCancel, Completing, Merging
  <1>14. ASSUME NEW t \in Threads, CancelRow(t) PROVE RequestInv'
    <2>1. \A u \in Uploads : status[u] # "none" <=> status'[u] # "none"
      BY <1>14, <1>d DEF CancelRow, TypeOK, TablesType
    <2>2. ASSUME job' = [job EXCEPT ![t].success = "cancelled"]
          PROVE  \A s \in Threads : job'[s].upload = job[s].upload
      BY <2>2, <1>e DEF Job
    <2>3. QED
      BY <1>14, <2>1, <2>2, <1>b, InsideRequestInv DEF CancelRow, Completing, Merging
  <1>15. ASSUME NEW t \in Threads, Clear(t) PROVE RequestInv'
    <2>1. ASSUME job' = [s \in Threads |-> IF job[s].upload = job[t].upload
                           THEN [job[s] EXCEPT !.linked = FALSE] ELSE job[s]]
          PROVE  \A s \in Threads : job'[s].upload = job[s].upload
      BY <2>1, <1>e DEF Job
    <2>2. QED
      BY <1>15, <2>1, <1>b, EndRequestInv, InsideRequestInv
      DEF Clear, Completing, Merging, tables
  <1>16. ASSUME NEW t \in Threads, RemoveDir(t) PROVE RequestInv'
    BY <1>16, EndRequestInv DEF RemoveDir, tables
  <1>17. ASSUME NEW u \in Uploads, Expire(u) PROVE RequestInv'
    BY <1>17 DEF Expire, RequestInv
  <1>18. CASE Crash
    BY <1>18 DEF Crash, RequestInv, tables, Completing, Merging
  <1>19. CASE UNCHANGED vars
    BY <1>19 DEF vars, tables, RequestInv
  <1>20. QED
    BY <1>1, <1>2, <1>3, <1>4, <1>5, <1>6, <1>7, <1>8, <1>9, <1>10, <1>11, <1>12,
       <1>13, <1>14, <1>15, <1>16, <1>17, <1>18, <1>19
    DEF Next, Step, Request

(* The invariant the ledger rests on: a session being inserted is new, any *)
(* other request has a session, a completion has all its chunks recorded.  *)
THEOREM RequestsConsistent == Spec => []RequestInv
  <1>1. UploadAssumption /\ Init => RequestInv
    BY DEF Init, RequestInv, Completing, Merging
  <1>2. QED
    BY <1>1, RequestInductive, TypeCorrect, UploadAssumption, PTL DEF Spec

-----------------------------------------------------------------------------
(* With one completion of an upload at a time, the completion under way is *)
(* alone and its upload not yet published.                                 *)
LEMMA SingleInductive ==
  UploadAssumption /\ TypeOK /\ RequestInv /\ SingleInv /\ [Next]_vars => SingleInv'
  <1> SUFFICES ASSUME UploadAssumption, TypeOK, RequestInv, SingleInv, [Next]_vars,
                      ~Overlapping
               PROVE  SingleInv'
    BY DEF SingleInv
  <1>a. job \in [Threads -> Job]
    BY DEF TypeOK, RequestType
  <1>b. ASSUME NEW t \in Threads, pc[t] # "idle" PROVE job[t].upload \in Uploads
    BY <1>b DEF TypeOK, RequestType, Job
  (* Steps of t that do not enter a completion nor complete a session. *)
  <1>1. ASSUME NEW t \in Threads, NEW n, pc' = [pc EXCEPT ![t] = n],
               n \in Completing => pc[t] \in Completing,
               \A s \in Threads \ {t} : job'[s].upload = job[s].upload,
               n \in Completing => job'[t].upload = job[t].upload,
               \A u \in Uploads : status'[u] = "completed" => status[u] = "completed"
        PROVE  SingleInv'
    <2>1. \A s \in Threads : pc'[s] = IF s = t THEN n ELSE pc[s]
      BY <1>1 DEF TypeOK, RequestType
    <2>2. \A s \in Threads : pc[s] \in Completing => job[s].upload \in Uploads
      BY <1>b DEF Completing, Merging
    <2>3. QED
      BY <1>1, <2>1, <2>2 DEF SingleInv
  <1>2. ASSUME NEW t \in Threads, NEW answers, End(t, answers),
               \A u \in Uploads : status'[u] = "completed" => status[u] = "completed"
        PROVE  SingleInv'
    <2>1. /\ pc' = [pc EXCEPT ![t] = "idle"]
          /\ \A s \in Threads \ {t} : job'[s].upload = job[s].upload
      BY <1>2, <1>a DEF End
    <2>2. QED
      BY <1>1, <1>2, <2>1 DEF Completing, Merging
  <1>3. ASSUME NEW t \in Threads, NEW u \in Uploads, NEW i, NEW n, n \notin Completing,
               Start(t, u, i, n), UNCHANGED tables
        PROVE  SingleInv'
    <2>1. /\ pc' = [pc EXCEPT ![t] = n]
          /\ \A s \in Threads \ {t} : job'[s].upload = job[s].upload
          /\ \A v \in Uploads : status'[v] = "completed" => status[v] = "completed"
      BY <1>3, <1>a DEF Start, tables
    <2>2. QED
      BY <1>1, <1>3, <2>1
  <1>4. ASSUME NEW t \in Threads, NEW u \in Uploads, CheckComplete(t, u)
        PROVE  SingleInv'
    <2>1. \A s \in Threads : pc'[s] = IF s = t THEN "meta" ELSE pc[s]
      BY <1>4 DEF CheckComplete, Start, TypeOK, RequestType
    <2>2. \A s \in Threads : job'[s].upload = IF s = t THEN u ELSE job[s].upload
      BY <1>4 DEF CheckComplete, Start, NoJob, TypeOK, RequestType
    <2>3. /\ status' = status /\ status[u] = "uploading"
          /\ \A s \in Threads : pc[s] \in Completing => job[s].upload # u
      BY <1>4 DEF CheckComplete, Busy, tables
    <2>4. QED
      BY <2>1, <2>2, <2>3 DEF SingleInv
  <1>5. ASSUME NEW t \in Threads, Publish(t) PROVE SingleInv'
    <2>1. ASSUME Commit(t), NEW n, n \notin Completing, pc' = [pc EXCEPT ![t] = n],
                 \A s \in Threads \ {t} : job'[s].upload = job[s].upload
          PROVE  SingleInv'
      <3>1. \A s \in Threads : pc'[s] = IF s = t THEN n ELSE pc[s]
        BY <2>1 DEF TypeOK, RequestType
      <3>2. job[t].upload \in Uploads /\ pc[t] \in Completing
        BY <1>5, <1>b DEF Publish, Completing, Merging
      <3>3. \A v \in Uploads : v # job[t].upload => status'[v] = status[v]
        BY <2>1 DEF Commit, TypeOK, TablesType
      <3>4. \A s \in Threads : pc[s] \in Completing => job[s].upload \in Uploads
        BY <1>b DEF Completing, Merging
      <3>5. QED
        BY <2>1, <3>1, <3>2, <3>3, <3>4 DEF SingleInv
    <2>2. CASE /\ Commit(t) /\ pc' = [pc EXCEPT ![t] = "clear"]
               /\ job' = [job EXCEPT ![t].success = "completed"]
      BY <2>1, <2>2, <1>a DEF Completing, Merging
    <2>3. CASE Fail(t, "commit") /\ Commit(t)
      BY <2>1, <2>3, <1>a DEF Fail, End, Completing, Merging
    <2>4. CASE Fail(t, "statement") /\ UNCHANGED tables
      BY <2>4, <1>2 DEF Fail, tables
    <2>5. QED
      BY <1>5, <2>2, <2>3, <2>4 DEF Publish
  <1>6. ASSUME NEW t \in Threads, MergeChunk(t) PROVE SingleInv'
    <2>1. CASE End(t, {})
      BY <1>6, <1>2, <2>1 DEF MergeChunk, tables
    <2>2. CASE ~End(t, {})
      <3>1. PICK n \in Merging : pc' = [pc EXCEPT ![t] = n]
        BY <1>6, <2>2 DEF MergeChunk, Merging
      <3>2. ASSUME NEW w, job' = [job EXCEPT ![t].index = @ + 1, ![t].whole = w]
            PROVE  \A s \in Threads : job'[s].upload = job[s].upload
        BY <3>2, <1>a DEF Job
      <3>3. QED
        BY <1>6, <1>1, <2>2, <3>1, <3>2 DEF MergeChunk, Completing, Merging, tables
    <2>3. QED
      BY <2>1, <2>2
  <1>7. ASSUME NEW t \in Threads, ReadMeta(t) PROVE SingleInv'
    <2>1. CASE End(t, {})
      BY <1>7, <1>2, <2>1 DEF ReadMeta, tables
    <2>2. CASE ~End(t, {})
      <3>1. ASSUME NEW p, job' = [job EXCEPT ![t].path = p]
            PROVE  \A s \in Threads : job'[s].upload = job[s].upload
        BY <3>1, <1>a DEF Job
      <3>2. QED
        BY <1>7, <1>1, <2>2, <3>1 DEF ReadMeta, Fail, Completing, Merging, tables
    <2>3. QED
      BY <2>1, <2>2
  <1>8. ASSUME NEW t \in Threads, InsertSession(t) PROVE SingleInv'
    <2>1. CASE Go(t, "initDir")
      <3>1. \A u \in Uploads : status'[u] = "completed" => status[u] = "completed"
        BY <1>8, <2>1 DEF InsertSession, TypeOK, TablesType
      <3>2. QED
        BY <1>1, <2>1, <3>1 DEF Go, Completing, Merging
    <2>2. CASE Fail(t, "statement") /\ UNCHANGED status
      BY <1>2, <2>2 DEF Fail
    <2>3. QED
      BY <1>8, <2>1, <2>2 DEF InsertSession
  <1>9. ASSUME NEW t \in Threads, CancelRow(t) PROVE SingleInv'
    <2>1. \A u \in Uploads : status'[u] = "completed" => status[u] = "completed"
      BY <1>9, <1>b DEF CancelRow, TypeOK, TablesType
    <2>2. \A s \in Threads \ {t} : job'[s].upload = job[s].upload
      BY <1>9, <1>a DEF CancelRow
    <2>3. QED
      BY <1>1, <1>9, <2>1, <2>2 DEF CancelRow, Completing, Merging
  <1>10. ASSUME NEW t \in Threads,
                \/ MakeInitDir(t) \/ MakeChunkDir(t) \/ OpenChunk(t)
                \/ WriteChunk(t) \/ RecordChunk(t) \/ Clear(t) \/ RemoveDir(t)
         PROVE  SingleInv'
    <2>1. status' = status
      BY <1>10 DEF MakeInitDir, MakeChunkDir, OpenChunk, WriteChunk, RecordChunk,
                   Clear, RemoveDir, tables
    <2>2. CASE \E answers : End(t, answers)
      BY <1>2, <2>1, <2>2
    <2>3. CASE \E n : n \notin Completing /\ Go(t, n)
      BY <1>1, <2>1, <2>3 DEF Go
    <2>4. CASE OpenChunk(t) /\ job' = [job EXCEPT ![t].linked = TRUE]
               /\ pc' = [pc EXCEPT ![t] = "chunkWrite"]
      BY <1>1, <1>a, <2>1, <2>4 DEF Completing, Merging
    <2>5. CASE Clear(t) /\ pc' = [pc EXCEPT ![t] = "removeDir"]
               /\ job' = [s \in Threads |-> IF job[s].upload = job[t].upload
                            THEN [job[s] EXCEPT !.linked = FALSE] ELSE job[s]]
      <3>1. \A s \in Threads : job'[s].upload = job[s].upload
        BY <1>a, <2>5 DEF Job
      <3>2. QED
        BY <1>1, <2>1, <2>5, <3>1 DEF Completing, Merging
    <2>6. QED
      BY <1>10, <2>2, <2>3, <2>4, <2>5
      DEF MakeInitDir, MakeChunkDir, OpenChunk, WriteChunk, RecordChunk, Clear,
          RemoveDir, Fail, Completing, Merging
  <1>11. CASE Crash
    BY <1>11 DEF Crash, SingleInv, Completing, Merging
  <1>12. ASSUME NEW u \in Uploads, Expire(u) PROVE SingleInv'
    BY <1>12 DEF Expire, SingleInv
  <1>13. CASE UNCHANGED vars
    BY <1>13 DEF vars, tables, SingleInv
  <1>14. QED
    BY <1>3, <1>4, <1>5, <1>6, <1>7, <1>8, <1>9, <1>10, <1>11, <1>12, <1>13
    DEF Next, Step, Request, CheckQuota, CheckChunk, CheckCancel, Completing, Merging

(* With clients that complete an upload once at a time, nobody completes a *)
(* session twice: a retry finds it completed.                              *)
THEOREM SingleCompletion == Spec => []SingleInv
  <1>1. UploadAssumption /\ Init => SingleInv
    BY DEF Init, SingleInv, Completing, Merging
  <1>2. QED
    BY <1>1, SingleInductive, RequestsConsistent, TypeCorrect, UploadAssumption, PTL
    DEF Spec

-----------------------------------------------------------------------------
(* Steps of t that touch neither the table of files nor the user's         *)
(* directory, give t no new path and no new success.                       *)
LEMMA AsidePathInv ==
  ASSUME TypeOK, PathInv, NEW t \in Threads, NEW n, n \notin Merging,
         pc' = [pc EXCEPT ![t] = n],
         \A s \in Threads \ {t} :
           job'[s].path = job[s].path /\ job'[s].success = job[s].success
             /\ job'[s].upload = job[s].upload,
         job'[t].path \in {job[t].path, NoPath},
         job'[t].success = "completed" =>
           job[t].success = "completed" /\ job'[t].upload = job[t].upload,
         UNCHANGED <<files, disk>>
  PROVE  PathInv'
  <1>1. \A s \in Threads : pc'[s] = IF s = t THEN n ELSE pc[s]
    BY DEF TypeOK, RequestType
  <1>2. \A s \in Threads : job'[s].path \in {job[s].path, NoPath}
    OBVIOUS
  <1>3. \A s, r \in Threads : job'[s].path = job'[r].path /\ job'[s].path # NoPath => s = r
    BY <1>2 DEF PathInv
  <1>4. \A s \in Threads : pc'[s] \in Merging =>
          s # t /\ pc[s] \in Merging /\ job'[s].path = job[s].path
    BY <1>1
  <1>5. \A s \in Threads : pc'[s] \in Merging => \A f \in files : f.path # job'[s].path
    BY <1>4 DEF PathInv
  <1>6. \A s \in Threads : pc'[s] = "publish" => disk[job'[s].path] \in {"whole", "torn"}
    BY <1>1, <1>4 DEF PathInv, Merging
  <1>7. \A s \in Threads : job'[s].success = "completed" =>
          job[s].success = "completed" /\ job'[s].upload = job[s].upload
    OBVIOUS
  <1>8. QED
    BY <1>3, <1>5, <1>6, <1>7 DEF PathInv, FilesOf

LEMMA EndPathInv ==
  ASSUME TypeOK, PathInv, NEW t \in Threads, NEW answers, End(t, answers),
         UNCHANGED <<files, disk>>
  PROVE  PathInv'
  <1>1. \A s \in Threads : job'[s] = IF s = t THEN NoJob ELSE job[s]
    BY DEF End, TypeOK, RequestType
  <1>2. NoJob.path = NoPath /\ NoJob.success = "none"
    BY DEF NoJob
  <1>3. QED
    BY <1>1, <1>2, AsidePathInv DEF End, Merging

LEMMA StartPathInv ==
  ASSUME TypeOK, PathInv, NEW t \in Threads, NEW u, NEW i, NEW n, n \notin Merging,
         Start(t, u, i, n), UNCHANGED <<files, disk>>
  PROVE  PathInv'
  <1> DEFINE j == [NoJob EXCEPT !.upload = u, !.index = i]
  <1>1. \A s \in Threads : job'[s] = IF s = t THEN j ELSE job[s]
    BY DEF Start, TypeOK, RequestType
  <1>2. j.path = NoPath /\ j.success = "none"
    BY DEF NoJob
  <1> HIDE DEF j
  <1>3. QED
    BY <1>1, <1>2, AsidePathInv DEF Start

LEMMA GoPathInv ==
  ASSUME TypeOK, PathInv, NEW t \in Threads, NEW n, n \notin Merging,
         Go(t, n), UNCHANGED <<files, disk>>
  PROVE  PathInv'
  BY AsidePathInv DEF Go

(* A step of t in its own file: the table is as before, and nobody else    *)
(* and no row of the table is at the path it writes.                       *)
LEMMA OwnFilePathInv ==
  ASSUME TypeOK, PathInv, NEW t \in Threads, NEW p \in Paths, NEW v, NEW n \in Merging,
         pc' = [pc EXCEPT ![t] = n], disk' = [disk EXCEPT ![p] = v],
         n = "publish" => v \in {"whole", "torn"},
         \A s \in Threads \ {t} : job[s].path # p,
         \A f \in files : f.path # p,
         \A s \in Threads : job'[s].path = IF s = t THEN p ELSE job[s].path,
         \A s \in Threads :
           job'[s].success = job[s].success /\ job'[s].upload = job[s].upload,
         UNCHANGED files
  PROVE  PathInv'
  <1>1. \A s \in Threads : pc'[s] = IF s = t THEN n ELSE pc[s]
    BY DEF TypeOK, RequestType
  <1>2. disk'[p] = v /\ \A q \in Paths : q # p => disk'[q] = disk[q]
    BY DEF TypeOK, StoresType
  <1>3. \A s, r \in Threads : job'[s].path = job'[r].path /\ job'[s].path # NoPath => s = r
    BY DEF PathInv
  <1>4. \A s \in Threads : pc'[s] \in Merging => \A f \in files : f.path # job'[s].path
    BY <1>1 DEF PathInv
  <1>5. \A s \in Threads : pc'[s] = "publish" => disk'[job'[s].path] \in {"whole", "torn"}
    <2>1. \A s \in Threads : pc[s] = "publish" => job[s].path \in Paths
      BY DEF TypeOK, RequestType, Merging
    <2>2. QED
      BY <1>1, <1>2, <2>1 DEF PathInv
  <1>6. \A f \in files : disk'[f.path] = disk[f.path]
    BY <1>2 DEF TypeOK, TablesType
  <1>7. QED
    BY <1>3, <1>4, <1>5, <1>6 DEF PathInv, FilesOf

LEMMA PublishPathInv ==
  ASSUME UploadAssumption, TypeOK, PathInv, NEW t \in Threads, Publish(t)
  PROVE  PathInv'
  <1> DEFINE p == job[t].path
             f == [path |-> p, upload |-> job[t].upload]
  <1>1. /\ p \in Paths /\ p # NoPath /\ job[t] \in Job
        /\ disk[p] \in {"whole", "torn"}
        /\ \A s \in Threads \ {t} : job[s].path # p
        /\ \A g \in files : g.path # p
    BY DEF Publish, PathInv, TypeOK, RequestType, Merging, UploadAssumption
  <1>2. files' \in {files, files \cup {f}}
    BY DEF Publish, Commit, tables
  <1>3. \A s \in Threads : pc[s] \in Merging => job[s].path \in Paths
    BY DEF TypeOK, RequestType
  <1>4. \A g \in files : g.path \in Paths
    BY DEF TypeOK, TablesType
  <1>5. CASE /\ Commit(t) /\ pc' = [pc EXCEPT ![t] = "clear"]
             /\ job' = [job EXCEPT ![t].success = "completed"]
             /\ UNCHANGED <<disk, told>>
    <2>1. \A s \in Threads : pc'[s] = IF s = t THEN "clear" ELSE pc[s]
      BY <1>5 DEF TypeOK, RequestType
    <2>2. \A s \in Threads :
            job'[s].path = job[s].path /\ job'[s].upload = job[s].upload
      BY <1>5 DEF TypeOK, RequestType, Job
    <2>3. \A s \in Threads \ {t} : job'[s].success = job[s].success
      BY <1>5 DEF TypeOK, RequestType
    <2>4. f \in files' /\ f.upload = job'[t].upload /\ disk'[f.path] \in {"whole", "torn"}
      BY <1>1, <1>5, <2>2 DEF Commit
    <2>5. \A s, r \in Threads : job'[s].path = job'[r].path /\ job'[s].path # NoPath => s = r
      BY <2>2 DEF PathInv
    <2>6. \A s \in Threads : pc'[s] \in Merging =>
            \A g \in files' : g.path # job'[s].path
      BY <1>1, <1>2, <2>1, <2>2 DEF PathInv, Merging
    <2>7. \A s \in Threads : pc'[s] = "publish" => disk'[job'[s].path] \in {"whole", "torn"}
      BY <1>5, <2>1, <2>2 DEF PathInv
    <2>8. \A s \in Threads : job'[s].success = "completed" =>
            \E g \in files' : g.upload = job'[s].upload /\ disk'[g.path] \in {"whole", "torn"}
      BY <1>2, <1>5, <2>2, <2>3, <2>4 DEF PathInv, FilesOf
    <2> HIDE DEF f, p
    <2>9. QED
      BY <2>5, <2>6, <2>7, <2>8 DEF PathInv, FilesOf
  <1>6. CASE End(t, {}) /\ disk' = [disk EXCEPT ![job[t].path] = "absent"]
    <2>1. \A s \in Threads : pc'[s] = IF s = t THEN "idle" ELSE pc[s]
      BY <1>6 DEF End, TypeOK, RequestType
    <2>2. \A s \in Threads : job'[s] = IF s = t THEN NoJob ELSE job[s]
      BY <1>6 DEF End, TypeOK, RequestType
    <2>3. NoJob.path = NoPath /\ NoJob.success = "none"
      BY DEF NoJob
    <2>4. \A q \in Paths : q # p => disk'[q] = disk[q]
      BY <1>6 DEF TypeOK, StoresType
    <2>5. \A s, r \in Threads : job'[s].path = job'[r].path /\ job'[s].path # NoPath => s = r
      BY <2>2, <2>3 DEF PathInv
    <2>6. \A s \in Threads : pc'[s] \in Merging =>
            \A g \in files' : g.path # job'[s].path
      BY <1>1, <1>2, <2>1, <2>2 DEF PathInv, Merging
    <2>7. \A s \in Threads : pc'[s] = "publish" => disk'[job'[s].path] \in {"whole", "torn"}
      BY <1>1, <1>3, <2>1, <2>2, <2>4 DEF PathInv, Merging
    <2>8. \A s \in Threads : job'[s].success = "completed" =>
            \E g \in files' : g.upload = job'[s].upload /\ disk'[g.path] \in {"whole", "torn"}
      BY <1>1, <1>2, <1>4, <2>2, <2>3, <2>4 DEF PathInv, FilesOf
    <2> HIDE DEF f, p
    <2>9. QED
      BY <2>5, <2>6, <2>7, <2>8 DEF PathInv, FilesOf
  <1>7. QED
    BY <1>5, <1>6 DEF Publish, Fail

LEMMA PathInductive ==
  UploadAssumption /\ TypeOK /\ PathInv /\ [Next]_vars => PathInv'
  <1> SUFFICES ASSUME UploadAssumption, TypeOK, PathInv, [Next]_vars PROVE PathInv'
    OBVIOUS
  <1>a. job \in [Threads -> Job] /\ \A s \in Threads : job[s] \in Job
    BY DEF TypeOK, RequestType
  <1>1. ASSUME NEW t \in Threads, ReadMeta(t) PROVE PathInv'
    <2>1. CASE End(t, {}) /\ UNCHANGED disk
      BY <1>1, <2>1, EndPathInv DEF ReadMeta, tables
    <2>2. ASSUME NEW p \in Paths, Unused(p), disk' = [disk EXCEPT ![p] = "partial"],
                 job' = [job EXCEPT ![t].path = p], pc' = [pc EXCEPT ![t] = "merge"]
          PROVE  PathInv'
      <3>1. /\ \A s \in Threads : job'[s].path = IF s = t THEN p ELSE job[s].path
            /\ \A s \in Threads :
                 job'[s].success = job[s].success /\ job'[s].upload = job[s].upload
        BY <1>a, <2>2 DEF Job
      <3>2. /\ files' = files
            /\ \A s \in Threads \ {t} : job[s].path # p
            /\ \A f \in files : f.path # p
        BY <1>1, <2>2 DEF Unused, ReadMeta, tables
      <3>3. "merge" \in Merging
        BY DEF Merging
      <3>4. QED
        BY <2>2, <3>1, <3>2, <3>3, OwnFilePathInv, Zenon
    <2>3. QED
      BY <1>1, <2>1, <2>2 DEF ReadMeta, Fail
  <1>2. ASSUME NEW t \in Threads, MergeChunk(t) PROVE PathInv'
    <2>1. CASE End(t, {}) /\ UNCHANGED disk
      BY <1>2, <2>1, EndPathInv DEF MergeChunk, tables
    <2>2. ASSUME NEW w, NEW v, NEW n \in Merging, n = "publish" => v \in {"whole", "torn"},
                 disk' = [disk EXCEPT ![job[t].path] = v], pc' = [pc EXCEPT ![t] = n],
                 job' = [job EXCEPT ![t].index = @ + 1, ![t].whole = w]
          PROVE  PathInv'
      <3>1. \A s \in Threads : /\ job'[s].success = job[s].success
                               /\ job'[s].upload = job[s].upload
                               /\ job'[s].path = job[s].path
        BY <1>a, <2>2 DEF Job
      <3>2. /\ job[t].path \in Paths /\ job[t].path # NoPath
            /\ \A s \in Threads \ {t} : job[s].path # job[t].path
            /\ \A f \in files : f.path # job[t].path
        BY <1>2 DEF MergeChunk, PathInv, TypeOK, RequestType, Merging, UploadAssumption
      <3>3. files' = files
        BY <1>2 DEF MergeChunk, tables
      <3> DEFINE p == job[t].path
      <3>4. \A s \in Threads : job'[s].path = IF s = t THEN p ELSE job[s].path
        BY <3>1
      <3>5. /\ p \in Paths /\ disk' = [disk EXCEPT ![p] = v]
            /\ \A s \in Threads \ {t} : job[s].path # p
            /\ \A f \in files : f.path # p
        BY <2>2, <3>2
      <3>6. \A s \in Threads :
              job'[s].success = job[s].success /\ job'[s].upload = job[s].upload
        BY <3>1
      <3>7. n \in Merging /\ t \in Threads
        OBVIOUS
      <3>8. pc' = [pc EXCEPT ![t] = n] /\ (n = "publish" => v \in {"whole", "torn"})
        BY <2>2
      <3> HIDE DEF p
      <3>9. QED
        BY <3>3, <3>4, <3>5, <3>6, <3>7, <3>8, OwnFilePathInv, Zenon
    <2>3. CASE ~(End(t, {}) /\ UNCHANGED disk)
      <3> DEFINE last == Last(job[t])
      <3>1. PICK w :
              /\ job' = [job EXCEPT ![t].index = @ + 1, ![t].whole = w]
              /\ disk' = [disk EXCEPT ![job[t].path] =
                            IF ~last THEN "partial" ELSE IF w THEN "whole" ELSE "torn"]
        BY <1>2, <2>3 DEF MergeChunk
      <3>2. pc' = [pc EXCEPT ![t] = IF last THEN "publish" ELSE "merge"]
        BY <1>2, <2>3 DEF MergeChunk
      <3> HIDE DEF last
      <3>3. QED
        BY <2>2, <3>1, <3>2 DEF Merging
    <2>4. QED
      BY <2>1, <2>3
  <1>3. ASSUME NEW t \in Threads, CancelRow(t) PROVE PathInv'
    <2>1. \A s \in Threads : /\ job'[s].path = job[s].path
                             /\ s # t => job'[s].success = job[s].success
                             /\ job'[s].upload = job[s].upload
      BY <1>3, <1>a DEF CancelRow, Job
    <2>2. job'[t].success = "completed" => job[t].success = "completed"
      BY <1>3, <1>a DEF CancelRow, Job
    <2>3. pc' = [pc EXCEPT ![t] = "clear"] /\ UNCHANGED <<files, disk>>
      BY <1>3 DEF CancelRow, stores
    <2>4. "clear" \notin Merging
      BY DEF Merging
    <2>5. QED
      BY <2>1, <2>2, <2>3, <2>4, AsidePathInv
  <1>4. ASSUME NEW t \in Threads, OpenChunk(t) PROVE PathInv'
    <2>1. CASE End(t, {})
      BY <1>4, <2>1, EndPathInv DEF OpenChunk, tables
    <2>2. CASE job' = [job EXCEPT ![t].linked = TRUE] /\ pc' = [pc EXCEPT ![t] = "chunkWrite"]
      <3>1. \A s \in Threads : /\ job'[s].path = job[s].path
                               /\ job'[s].success = job[s].success
                               /\ job'[s].upload = job[s].upload
        BY <1>a, <2>2 DEF Job
      <3>2. QED
        BY <1>4, <2>2, <3>1, AsidePathInv DEF OpenChunk, tables, Merging
    <2>3. QED
      BY <1>4, <2>1, <2>2 DEF OpenChunk, Fail
  <1>5. ASSUME NEW t \in Threads, Clear(t) PROVE PathInv'
    <2>1. CASE ~dir[job[t].upload]
      BY <1>5, <2>1, EndPathInv DEF Clear, tables
    <2>2. CASE dir[job[t].upload]
      <3>1. \A s \in Threads : /\ job'[s].path = job[s].path
                               /\ job'[s].success = job[s].success
                               /\ job'[s].upload = job[s].upload
        BY <1>5, <1>a, <2>2 DEF Clear, Job
      <3>2. pc' = [pc EXCEPT ![t] = "removeDir"] /\ UNCHANGED <<files, disk>>
        BY <1>5, <2>2 DEF Clear, tables
      <3>3. "removeDir" \notin Merging
        BY DEF Merging
      <3>4. QED
        BY <3>1, <3>2, <3>3, AsidePathInv
    <2>3. QED
      BY <2>1, <2>2
  <1>6. ASSUME NEW t \in Threads,
               \/ InsertSession(t) \/ MakeInitDir(t) \/ MakeChunkDir(t)
               \/ WriteChunk(t) \/ RecordChunk(t) \/ RemoveDir(t)
        PROVE  PathInv'
    <2>1. UNCHANGED <<files, disk>>
      BY <1>6 DEF InsertSession, MakeInitDir, MakeChunkDir, WriteChunk, RecordChunk,
                  RemoveDir, tables, stores
    <2>2. CASE \E answers : End(t, answers)
      BY <2>1, <2>2, EndPathInv
    <2>3. CASE \E n : n \notin Merging /\ Go(t, n)
      BY <2>1, <2>3, GoPathInv
    <2>4. QED
      BY <1>6, <2>2, <2>3
      DEF InsertSession, MakeInitDir, MakeChunkDir, WriteChunk, RecordChunk,
          RemoveDir, Fail, Merging
  <1>7. ASSUME NEW t \in Threads, NEW u \in Uploads, Request(t, u) PROVE PathInv'
    BY <1>7, StartPathInv
    DEF Request, CheckQuota, CheckChunk, CheckComplete, CheckCancel, tables, stores, Merging
  <1>8. CASE Crash
    BY <1>8 DEF Crash, PathInv, NoJob, Merging, tables, stores
  <1>9. ASSUME NEW u \in Uploads, Expire(u) PROVE PathInv'
    BY <1>9 DEF Expire, PathInv, FilesOf, stores
  <1>10. CASE UNCHANGED vars
    BY <1>10 DEF vars, tables, stores, PathInv, FilesOf
  <1>11. QED
    BY <1>1, <1>2, <1>3, <1>4, <1>5, <1>6, <1>7, <1>8, <1>9, <1>10, PublishPathInv
    DEF Next, Step

(* Merged files are never disturbed: one writer per path, no writer at a   *)
(* path that is in the table.                                              *)
THEOREM PathsKeptApart == Spec => []PathInv
  <1>1. UploadAssumption /\ Init => PathInv
    BY DEF Init, PathInv, NoJob, Merging
  <1>2. QED
    BY <1>1, PathInductive, TypeCorrect, UploadAssumption, PTL DEF Spec

(* No step takes a row out of files or touches the file of a row.          *)
LEMMA FilesKept ==
  ASSUME UploadAssumption, TypeOK, PathInv, [Next]_vars
  PROVE  files \subseteq files' /\ \A f \in files : disk'[f.path] = disk[f.path]
  <1> DEFINE Kept == files \subseteq files' /\ \A f \in files : disk'[f.path] = disk[f.path]
  <1>a. \A f \in files : f.path \in Paths
    BY DEF TypeOK, TablesType
  <1>1. ASSUME NEW t \in Threads, ReadMeta(t) PROVE Kept
    BY <1>1, <1>a DEF ReadMeta, Unused, tables, TypeOK, StoresType
  <1>2. ASSUME NEW t \in Threads, MergeChunk(t) PROVE Kept
    <2>1. \A f \in files : f.path # job[t].path
      BY <1>2 DEF MergeChunk, Merging, PathInv
    <2>2. \A q \in Paths : q # job[t].path => disk'[q] = disk[q]
      BY <1>2 DEF MergeChunk, TypeOK, StoresType
    <2>3. QED
      BY <1>2, <1>a, <2>1, <2>2 DEF MergeChunk, tables
  <1>3. ASSUME NEW t \in Threads, Publish(t) PROVE Kept
    <2>1. \A f \in files : f.path # job[t].path
      BY <1>3 DEF Publish, Merging, PathInv
    <2>2. \A q \in Paths : q # job[t].path => disk'[q] = disk[q]
      BY <1>3 DEF Publish, TypeOK, StoresType
    <2>3. files \subseteq files'
      BY <1>3 DEF Publish, Commit, tables
    <2>4. QED
      BY <1>a, <2>1, <2>2, <2>3
  <1>4. CASE UNCHANGED <<files, disk>>
    BY <1>4
  <1>5. QED
    BY <1>1, <1>2, <1>3, <1>4
    DEF Next, Step, Request, CheckQuota, InsertSession, MakeInitDir, CheckChunk,
        MakeChunkDir, OpenChunk, WriteChunk, RecordChunk, CheckComplete, CheckCancel,
        CancelRow, Clear, RemoveDir, Expire, Crash, tables, stores, vars

(* A client is told "completed" by a request that published the file.      *)
LEMMA ToldCompleted ==
  ASSUME UploadAssumption, TypeOK, [Next]_vars, NEW u \in Uploads,
         "completed" \in told'[u], "completed" \notin told[u]
  PROVE  \E t \in Threads : job[t].upload = u /\ job[t].success = "completed"
  <1>1. ASSUME NEW t \in Threads, NEW answers, End(t, answers), "completed" \in answers =>
                 job[t].success = "completed"
        PROVE  job[t].upload = u /\ job[t].success = "completed"
    BY <1>1 DEF End, TypeOK, RequestType
  <1>2. ASSUME NEW t \in Threads, Clear(t) \/ RemoveDir(t)
        PROVE  job[t].upload = u /\ job[t].success = "completed"
    <2>1. End(t, {job[t].success} \ {"none"})
      BY <1>2 DEF Clear, RemoveDir, End, TypeOK, RequestType
    <2>2. QED
      BY <1>1, <2>1
  <1>3. ASSUME NEW t \in Threads, MakeInitDir(t)
        PROVE  job[t].upload = u /\ job[t].success = "completed"
    BY <1>1, <1>3 DEF MakeInitDir, Fail
  <1>4. ASSUME NEW t \in Threads, End(t, {})
        PROVE  job[t].upload = u /\ job[t].success = "completed"
    BY <1>1, <1>4
  <1>5. told' # told
    OBVIOUS
  <1>6. QED
    BY <1>2, <1>3, <1>4, <1>5
    DEF Next, Step, Request, CheckQuota, InsertSession, CheckChunk, MakeChunkDir,
        OpenChunk, WriteChunk, RecordChunk, CheckComplete, ReadMeta, MergeChunk,
        Publish, CheckCancel, CancelRow, Expire, Crash, Start, Go, Fail, vars

LEMMA AcknowledgedInductive ==
  UploadAssumption /\ TypeOK /\ PathInv /\ AcknowledgedFileStays /\ [Next]_vars
    => AcknowledgedFileStays'
  <1> SUFFICES ASSUME UploadAssumption, TypeOK, PathInv, AcknowledgedFileStays,
                      [Next]_vars, NEW u \in Uploads, "completed" \in told'[u]
               PROVE  \E f \in files' : f.upload = u /\ disk'[f.path] \in {"whole", "torn"}
    BY DEF AcknowledgedFileStays, FilesOf
  <1>1. \E f \in files : f.upload = u /\ disk[f.path] \in {"whole", "torn"}
    <2>1. CASE "completed" \in told[u]
      BY <2>1 DEF AcknowledgedFileStays, FilesOf
    <2>2. CASE "completed" \notin told[u]
      BY <2>2, ToldCompleted DEF PathInv, FilesOf
    <2>3. QED
      BY <2>1, <2>2
  <1>2. QED
    BY <1>1, FilesKept

(* What the client was told is in the table and on disk, for ever.         *)
THEOREM AcknowledgedStays == Spec => []AcknowledgedFileStays
  <1>1. UploadAssumption /\ Init => AcknowledgedFileStays
    BY DEF Init, AcknowledgedFileStays
  <1>2. QED
    BY <1>1, AcknowledgedInductive, PathsKeptApart, TypeCorrect, UploadAssumption, PTL
    DEF Spec

-----------------------------------------------------------------------------
(* Every step is one of the ledger's or leaves its tables alone.           *)
LEMMA LedgerStep ==
  UploadAssumption /\ TypeOK /\ RequestInv /\ PathInv /\ SingleInv /\ [Next]_vars
    => [Ledger!Next]_(Ledger!vars)
  <1> SUFFICES ASSUME UploadAssumption, TypeOK, RequestInv, PathInv, SingleInv, [Next]_vars
               PROVE  [Ledger!Next]_(Ledger!vars)
    OBVIOUS
  <1>a. ASSUME NEW t \in Threads, pc[t] # "idle" PROVE job[t].upload \in Uploads
    BY <1>a DEF TypeOK, RequestType, Job
  <1>1. ASSUME NEW t \in Threads, InsertSession(t) PROVE [Ledger!Next]_(Ledger!vars)
    <2>1. CASE status' = [status EXCEPT ![job[t].upload] = "uploading"]
      <3>1. Ledger!Open(job[t].upload)
        BY <1>1, <2>1 DEF InsertSession, Ledger!Open, RequestInv
      <3>2. QED
        BY <1>1, <1>a, <3>1 DEF InsertSession, Ledger!Next
    <2>2. CASE UNCHANGED status
      BY <1>1, <2>2 DEF InsertSession, Ledger!vars
    <2>3. QED
      BY <1>1, <2>1, <2>2 DEF InsertSession
  <1>2. ASSUME NEW t \in Threads, RecordChunk(t) PROVE [Ledger!Next]_(Ledger!vars)
    <2>1. CASE rows' = [rows EXCEPT ![job[t].upload] = @ \cup {job[t].index}]
      <3>1. Ledger!Record(job[t].upload, job[t].index)
        BY <1>2, <2>1 DEF RecordChunk, Ledger!Record, RequestInv
      <3>2. job[t].index \in Chunks /\ job[t].upload \in Uploads
        BY <1>2, <1>a DEF RecordChunk, TypeOK, RequestType, Saving
      <3>3. QED
        BY <3>1, <3>2 DEF Ledger!Next
    <2>2. CASE UNCHANGED rows
      BY <1>2, <2>2 DEF RecordChunk, Ledger!vars
    <2>3. QED
      BY <1>2, <2>1, <2>2 DEF RecordChunk
  <1>3. ASSUME NEW t \in Threads, CancelRow(t) PROVE [Ledger!Next]_(Ledger!vars)
    <2>0. job[t].upload \in Uploads /\ rows' = rows /\ files' = files /\ used' = used
      BY <1>3, <1>a DEF CancelRow
    <2>1. CASE status[job[t].upload] = "uploading" /\ ~UNCHANGED status
      <3>1. Ledger!Cancel(job[t].upload)
        BY <1>3, <2>0, <2>1 DEF CancelRow, Ledger!Cancel
      <3>2. QED
        BY <2>0, <3>1 DEF Ledger!Next
    <2>2. CASE status[job[t].upload] # "uploading" \/ UNCHANGED status
      <3>1. status' = status
        BY <1>3, <2>2 DEF CancelRow, TypeOK, TablesType
      <3>2. QED
        BY <2>0, <3>1 DEF Ledger!vars
    <2>3. QED
      BY <2>1, <2>2
  <1>4. ASSUME NEW t \in Threads, Publish(t) PROVE [Ledger!Next]_(Ledger!vars)
    <2>1. CASE Commit(t)
      <3> DEFINE u == job[t].upload
      <3>1. /\ u \in Uploads /\ job[t].path \in Paths
            /\ pc[t] \in Completing /\ pc[t] \in Merging /\ pc[t] \notin {"idle", "insert"}
        BY <1>4, <1>a DEF Publish, TypeOK, RequestType, Completing, Merging
      <3>2. rows[u] = Chunks /\ status[u] # "none"
        BY <3>1 DEF RequestInv
      <3>3. ~Overlapping => status[u] # "completed"
        BY <3>1 DEF SingleInv
      <3>4. status[u] \in {"none", "uploading", "completed", "cancelled"}
        BY <3>1 DEF TypeOK, TablesType
      <3>5. \A f \in files : f.path # job[t].path
        BY <3>1 DEF PathInv
      <3>6. Ledger!Publish(u, job[t].path)
        BY <2>1, <3>2, <3>3, <3>4, <3>5 DEF Commit, Ledger!Publish
      <3>7. QED
        BY <3>1, <3>6 DEF Ledger!Next
    <2>2. CASE UNCHANGED tables
      BY <2>2 DEF tables, Ledger!vars
    <2>3. QED
      BY <1>4, <2>1, <2>2 DEF Publish
  <1>5. CASE UNCHANGED <<status, rows, files, used>>
    BY <1>5 DEF Ledger!vars
  <1>6. QED
    BY <1>1, <1>2, <1>3, <1>4, <1>5
    DEF Next, Step, Request, CheckQuota, MakeInitDir, CheckChunk, MakeChunkDir,
        OpenChunk, WriteChunk, CheckComplete, ReadMeta, MergeChunk, CheckCancel,
        Clear, RemoveDir, Expire, Crash, tables, vars

(* Requests, races, failures and crashes implement the ledger: file row,   *)
(* charge and status of an upload change together or not at all.           *)
THEOREM LedgerImplemented == Spec => ImplementsLedger
  <1>1. Init => Ledger!Init
    BY DEF Init, Ledger!Init
  <1>2. QED
    BY <1>1, LedgerStep, TypeCorrect, RequestsConsistent, PathsKeptApart,
       SingleCompletion, UploadAssumption, PTL
    DEF Spec, ImplementsLedger, Ledger!Spec

LEMMA TablesAgreeInductive ==
  TypeOK /\ RequestInv /\ CompletedIffFile /\ OnlyFullUploads /\ [Ledger!Next]_(Ledger!vars)
    => CompletedIffFile' /\ OnlyFullUploads'
  <1> SUFFICES ASSUME TypeOK, RequestInv, CompletedIffFile, OnlyFullUploads,
                      [Ledger!Next]_(Ledger!vars)
               PROVE  CompletedIffFile' /\ OnlyFullUploads'
    OBVIOUS
  <1>1. ASSUME NEW u \in Uploads, Ledger!Open(u) \/ Ledger!Cancel(u)
        PROVE  CompletedIffFile' /\ OnlyFullUploads'
    BY <1>1 DEF Ledger!Open, Ledger!Cancel, CompletedIffFile, OnlyFullUploads,
                FilesOf, TypeOK, TablesType
  <1>2. ASSUME NEW u \in Uploads, NEW i \in Chunks, Ledger!Record(u, i)
        PROVE  CompletedIffFile' /\ OnlyFullUploads'
    <2>1. \A v \in Uploads : rows[v] = Chunks => rows'[v] = Chunks
      BY <1>2 DEF Ledger!Record, TypeOK, TablesType
    <2>2. \A f \in files : f.upload \in Uploads
      BY DEF TypeOK, TablesType
    <2>3. QED
      BY <1>2, <2>1, <2>2 DEF Ledger!Record, CompletedIffFile, OnlyFullUploads, FilesOf
  <1>3. ASSUME NEW u \in Uploads, NEW p \in Paths, Ledger!Publish(u, p)
        PROVE  CompletedIffFile' /\ OnlyFullUploads'
    <2>1. \A v \in Uploads : status'[v] = IF v = u THEN "completed" ELSE status[v]
      BY <1>3 DEF Ledger!Publish, TypeOK, TablesType
    <2>2. PICK f : f.upload = u /\ files' = files \cup {f}
      BY <1>3 DEF Ledger!Publish
    <2>3. rows' = rows /\ rows[u] = Chunks
      BY <1>3 DEF Ledger!Publish
    <2>4. QED
      BY <2>1, <2>2, <2>3 DEF CompletedIffFile, OnlyFullUploads, FilesOf
  <1>4. CASE UNCHANGED Ledger!vars
    BY <1>4 DEF Ledger!vars, CompletedIffFile, OnlyFullUploads, FilesOf
  <1>5. QED
    BY <1>1, <1>2, <1>3, <1>4 DEF Ledger!Next

(* The ledger keeps the two tables together, hence so do the requests: a   *)
(* session is completed exactly when its file is in the table ...          *)
THEOREM TablesAgree == Spec => []CompletedIffFile
  <1>1. Init => CompletedIffFile /\ OnlyFullUploads
    BY DEF Init, CompletedIffFile, OnlyFullUploads, FilesOf
  <1>2. QED
    BY <1>1, TablesAgreeInductive, LedgerStep, TypeCorrect, RequestsConsistent,
       PathsKeptApart, SingleCompletion, UploadAssumption, PTL
    DEF Spec

(* ... and a file in the table has all the chunks of its upload recorded.  *)
THEOREM UploadsFull == Spec => []OnlyFullUploads
  <1>1. Init => CompletedIffFile /\ OnlyFullUploads
    BY DEF Init, CompletedIffFile, OnlyFullUploads, FilesOf
  <1>2. QED
    BY <1>1, TablesAgreeInductive, LedgerStep, TypeCorrect, RequestsConsistent,
       PathsKeptApart, SingleCompletion, UploadAssumption, PTL
    DEF Spec

(* A client that completes an upload once at a time has one file for it.   *)
OneFileInv == ~Overlapping => OneFilePerUpload

(* In the ledger of clients that complete once at a time, what is          *)
(* published had no file before.                                           *)
LEMMA OneFileInductive ==
  TypeOK /\ CompletedIffFile /\ OneFileInv /\ [Ledger!Next]_(Ledger!vars)
    => OneFileInv'
  <1> SUFFICES ASSUME TypeOK, CompletedIffFile, [Ledger!Next]_(Ledger!vars),
                      OneFilePerUpload, ~Overlapping
               PROVE  OneFilePerUpload'
    BY DEF OneFileInv
  <1>1. CASE UNCHANGED files
    BY <1>1 DEF OneFilePerUpload, FilesOf
  <1>2. ASSUME NEW u \in Uploads, NEW p \in Paths, Ledger!Publish(u, p)
        PROVE  OneFilePerUpload'
    <2>1. status[u] # "completed"
      BY <1>2 DEF Ledger!Publish
    <2>2. FilesOf(u) = {}
      BY <2>1 DEF CompletedIffFile
    <2>3. PICK f : f.upload = u /\ files' = files \cup {f}
      BY <1>2 DEF Ledger!Publish
    <2>4. QED
      BY <2>2, <2>3 DEF OneFilePerUpload, FilesOf
  <1>3. QED
    BY <1>1, <1>2
    DEF Ledger!Next, Ledger!vars, Ledger!Open, Ledger!Cancel, Ledger!Record

(* With clients that complete an upload once at a time, an upload has one  *)
(* file, hence is charged once, also when answers are lost and it retries. *)
THEOREM OneFile == Spec => [](~Overlapping => OneFilePerUpload)
  <1>1. Init => OneFileInv
    BY DEF Init, OneFileInv, OneFilePerUpload, FilesOf
  <1>2. Spec => []OneFileInv
    BY <1>1, OneFileInductive, TablesAgree, LedgerStep, TypeCorrect,
       RequestsConsistent, PathsKeptApart, SingleCompletion, UploadAssumption, PTL
    DEF Spec
  <1>3. QED
    BY <1>2 DEF OneFileInv
-----------------------------------------------------------------------------
(* The files are finitely many, and each is charged when its row is made.  *)
AccountingInv == IsFiniteSet(files) /\ Accounting

LEMMA AccountingInductive ==
  UploadAssumption /\ TypeOK /\ AccountingInv /\ [Ledger!Next]_(Ledger!vars) => AccountingInv'
  <1> SUFFICES ASSUME UploadAssumption, TypeOK, AccountingInv, [Ledger!Next]_(Ledger!vars)
               PROVE  AccountingInv'
    OBVIOUS
  <1>1. CASE UNCHANGED <<files, used>>
    BY <1>1 DEF AccountingInv, Accounting
  <1>2. ASSUME NEW u \in Uploads, NEW p \in Paths, Ledger!Publish(u, p) PROVE AccountingInv'
    <2> DEFINE new == [path |-> p, upload |-> u]
               sizes == [f \in files |-> Size[f.upload]]
               sizes2 == [f \in files' |-> Size[f.upload]]
    <2>1. files' = files \cup {new} /\ new \notin files /\ used' = used + Size[u]
      BY <1>2 DEF Ledger!Publish
    <2>2. \A f \in files : f.upload \in Uploads
      BY DEF TypeOK, TablesType
    <2>3. /\ DOMAIN sizes = files /\ DOMAIN sizes2 = DOMAIN sizes \cup {new}
          /\ \A f \in files : sizes[f] \in Nat /\ sizes2[f] = sizes[f]
          /\ sizes2[new] = Size[u] /\ sizes2[new] \in Nat
      BY <2>1, <2>2 DEF UploadAssumption
    <2>4. IsFiniteSet(files) /\ used = SumFunction(sizes)
      BY DEF AccountingInv, Accounting
    <2> HIDE DEF new, sizes, sizes2
    <2>5. SumFunction(sizes2) = sizes2[new] + SumFunction(sizes) /\ SumFunction(sizes) \in Nat
      BY <2>1, <2>3, <2>4, SumAdd
    <2>6. used' = SumFunction(sizes2)
      BY <2>1, <2>3, <2>4, <2>5
    <2>7. IsFiniteSet(files')
      BY <2>1, <2>4, FS_AddElement
    <2>8. QED
      BY <2>6, <2>7 DEF AccountingInv, Accounting, sizes2
  <1>3. QED
    BY <1>1, <1>2
    DEF Ledger!Next, Ledger!vars, Ledger!Open, Ledger!Cancel, Ledger!Record

(* The storage charged is the declared size of the files in the table,     *)
(* whatever fails or crashes: no charge is lost and none made twice.       *)
THEOREM ChargesExact == Spec => []Accounting
  <1>1. Init => AccountingInv
    <2>1. DOMAIN [f \in {} |-> Size[f.upload]] = {}
      OBVIOUS
    <2>2. SumFunction([f \in {} |-> Size[f.upload]]) = 0
      BY <2>1, SumEmpty
    <2>3. QED
      BY <2>2, FS_EmptySet DEF Init, AccountingInv, Accounting
  <1>2. AccountingInv => Accounting
    BY DEF AccountingInv
  <1>3. QED
    BY <1>1, <1>2, AccountingInductive, LedgerStep, TypeCorrect, RequestsConsistent,
       PathsKeptApart, SingleCompletion, UploadAssumption, PTL
    DEF Spec

-----------------------------------------------------------------------------
RowFileInv == "commit" \notin Faults => RowHasFile

LEMMA NewRow ==
  ASSUME UploadAssumption, TypeOK, [Next]_vars, NEW f \in files', f \notin files
  PROVE  \E t \in Threads : Publish(t) /\ Commit(t) /\ f.path = job[t].path
  <1>1. ASSUME NEW t \in Threads, Publish(t)
        PROVE  Publish(t) /\ Commit(t) /\ f.path = job[t].path
    <2>1. files' # files
      OBVIOUS
    <2>2. Commit(t)
      BY <1>1, <2>1 DEF Publish, tables
    <2>3. QED
      BY <1>1, <2>2 DEF Commit
  <1>2. ~UNCHANGED files
    OBVIOUS
  <1>3. QED
    BY <1>1, <1>2
    DEF Next, Step, Request, CheckQuota, InsertSession, MakeInitDir, CheckChunk, MakeChunkDir,
        OpenChunk, WriteChunk, RecordChunk, CheckComplete, ReadMeta, MergeChunk, CheckCancel,
        CancelRow, Clear, RemoveDir, Expire, Crash, tables, vars

LEMMA RowFileInductive ==
  ASSUME UploadAssumption, TypeOK, PathInv, RowFileInv, [Next]_vars PROVE RowFileInv'
  <1> SUFFICES ASSUME "commit" \notin Faults, RowHasFile, NEW f \in files'
               PROVE  disk'[f.path] # "absent"
    BY DEF RowFileInv, RowHasFile
  <1>1. CASE f \in files
    BY <1>1, FilesKept DEF RowHasFile
  <1>2. CASE f \notin files
    <2>1. PICK t \in Threads : Publish(t) /\ Commit(t) /\ f.path = job[t].path
      BY <1>2, NewRow
    <2>2. files' # files
      BY <1>2
    <2>3. disk' = disk /\ pc[t] = "publish"
      BY <2>1, <2>2 DEF Publish, Fail, tables
    <2>4. QED
      BY <2>1, <2>3 DEF PathInv
  <1>3. QED
    BY <1>1, <1>2

(* Unless the answer to a COMMIT is lost, every row has its file on disk.  *)
THEOREM RowsHaveFiles == Spec => []("commit" \notin Faults => RowHasFile)
  <1>1. Init => RowFileInv
    BY DEF Init, RowFileInv, RowHasFile
  <1>2. Spec => []RowFileInv
    BY <1>1, RowFileInductive, TypeCorrect, PathsKeptApart, UploadAssumption, PTL DEF Spec
  <1>3. QED
    BY <1>2 DEF RowFileInv

-----------------------------------------------------------------------------
(* Why a client can resume: the directory of an upload is cleared by a     *)
(* completed or a cancelled one only, so that the file of a chunk stays    *)
(* from its creation on while the upload is active.                        *)
ClearedOver ==
  \A t \in Threads : pc[t] \in {"clear", "removeDir"} => status[job[t].upload] # "uploading"
ChunkThere ==
  \A t \in Threads :
    pc[t] \in {"chunkWrite", "chunkRow"} /\ status[job[t].upload] = "uploading" =>
      chunk[job[t].upload][job[t].index] # "absent"
UnopenedEmpty == \A u \in Uploads : status[u] = "none" => rows[u] = {}
ResumeInv == ClearedOver /\ ChunkThere /\ UnopenedEmpty /\ RecordedChunkOnDisk

(* The locals of the threads, one by one, as one of them starts a request, *)
(* ends one or goes on, and what they have in common.                      *)
Moves(t, n) == \A s \in Threads : pc'[s] = IF s = t THEN n ELSE pc[s]
SameRequest(s) == job'[s].upload = job[s].upload /\ job'[s].index = job[s].index

LEMMA StartLocals ==
  ASSUME TypeOK, NEW t \in Threads, NEW u, NEW i, NEW n, Start(t, u, i, n)
  PROVE  /\ Moves(t, n) /\ \A s \in Threads \ {t} : job'[s] = job[s]
         /\ job'[t].upload = u /\ job'[t].index = i /\ job'[t].whole /\ ~job'[t].linked
         /\ job'[t].path = NoPath
  BY DEF TypeOK, RequestType, Start, NoJob, Moves

LEMMA EndLocals ==
  ASSUME TypeOK, NEW t \in Threads, NEW answers, End(t, answers)
  PROVE  Moves(t, "idle") /\ (\A s \in Threads \ {t} : job'[s] = job[s]) /\ job'[t] = NoJob
  BY DEF TypeOK, RequestType, End, Moves

(* A change of one chunk file, and of the request in one thread.           *)
LEMMA ChunkAt ==
  ASSUME StoresType, NEW u \in Uploads, NEW i \in Chunks, NEW v,
         chunk' = [chunk EXCEPT ![u][i] = v]
  PROVE  /\ chunk'[u][i] = v
         /\ \A w \in Uploads, k \in Chunks : w # u \/ k # i => chunk'[w][k] = chunk[w][k]
  BY DEF StoresType

LEMMA OwnUpload ==
  ASSUME TypeOK, NEW t \in Threads, pc[t] # "idle"
  PROVE  /\ job[t] \in Job /\ job[t].upload \in Uploads
         /\ pc[t] \in Saving \cup {"meta", "merge"} => job[t].index \in Chunks
  BY DEF TypeOK, RequestType, Job

(* A step that leaves status, rows and chunk files alone, to a place where *)
(* nothing more is known than where it came from.                          *)
LEMMA AsideResume ==
  ASSUME ResumeInv, UNCHANGED <<status, rows, chunk>>,
         \A s \in Threads :
           \/ pc'[s] \notin {"clear", "removeDir", "chunkWrite", "chunkRow"}
           \/ pc'[s] = pc[s] /\ SameRequest(s)
  PROVE  ResumeInv'
  BY DEF ResumeInv, ClearedOver, ChunkThere, UnopenedEmpty, RecordedChunkOnDisk, SameRequest

LEMMA EndResume ==
  ASSUME TypeOK, ResumeInv, NEW t \in Threads, NEW answers, End(t, answers),
         UNCHANGED <<status, rows, chunk>>
  PROVE  ResumeInv'
  BY EndLocals, AsideResume DEF Moves, SameRequest

LEMMA InsertSessionResume ==
  ASSUME UploadAssumption, TypeOK, RequestInv, ResumeInv, NEW t \in Threads, InsertSession(t)
  PROVE  ResumeInv'
  <1>1. CASE Fail(t, "statement") /\ UNCHANGED status
    BY <1>1, EndResume DEF InsertSession, Fail, stores
  <1>2. CASE status' = [status EXCEPT ![job[t].upload] = "uploading"] /\ Go(t, "initDir")
    <2> DEFINE u == job[t].upload
    <2>1. /\ u \in Uploads /\ status[u] = "none" /\ rows[u] = {}
          /\ \A s \in Threads : job[s].upload = u => s = t
      BY <1>2, OwnUpload DEF InsertSession, RequestInv, ResumeInv, UnopenedEmpty
    <2>2. \A w \in Uploads : status'[w] = IF w = u THEN "uploading" ELSE status[w]
      BY <1>2, <2>1 DEF TypeOK, TablesType
    <2>3. Moves(t, "initDir") /\ UNCHANGED <<job, rows, chunk>>
      BY <1>2 DEF InsertSession, Go, Moves, TypeOK, RequestType, stores
    <2>4. \A s \in Threads : pc[s] # "idle" => job[s].upload \in Uploads
      BY OwnUpload
    <2> HIDE DEF u
    <2>5. ClearedOver' /\ ChunkThere'
      BY <2>1, <2>2, <2>3, <2>4 DEF ResumeInv, ClearedOver, ChunkThere, Moves, u
    <2>6. UnopenedEmpty' /\ RecordedChunkOnDisk'
      BY <2>1, <2>2, <2>3 DEF ResumeInv, UnopenedEmpty, RecordedChunkOnDisk
    <2>7. QED
      BY <2>5, <2>6 DEF ResumeInv
  <1>3. QED
    BY <1>1, <1>2 DEF InsertSession

LEMMA OpenChunkResume ==
  ASSUME UploadAssumption, TypeOK, ResumeInv, NEW t \in Threads, OpenChunk(t)
  PROVE  ResumeInv'
  <1> DEFINE u == job[t].upload
             i == job[t].index
  <1>1. CASE End(t, {}) /\ UNCHANGED chunk
    BY <1>1, EndResume DEF OpenChunk, tables
  <1>2. CASE /\ chunk' = [chunk EXCEPT ![u][i] = "torn"]
             /\ pc' = [pc EXCEPT ![t] = "chunkWrite"] /\ job' = [job EXCEPT ![t].linked = TRUE]
    <2>1. u \in Uploads /\ i \in Chunks
      BY OwnUpload DEF OpenChunk, Saving
    <2>2. Moves(t, "chunkWrite") /\ (\A s \in Threads : SameRequest(s))
            /\ UNCHANGED <<status, rows>>
      BY <1>2, OwnUpload DEF OpenChunk, Moves, SameRequest, TypeOK, RequestType, tables, Job
    <2>3. \A w \in Uploads, k \in Chunks :
            chunk'[w][k] = IF w = u /\ k = i THEN "torn" ELSE chunk[w][k]
      BY <1>2, <2>1 DEF TypeOK, StoresType
    <2> HIDE DEF u, i
    <2>4. chunk'[u][i] # "absent"
      BY <2>1, <2>3
    <2>5. \A s \in Threads : pc[s] \in Saving =>
            job[s].upload \in Uploads /\ job[s].index \in Chunks
      BY OwnUpload DEF Saving
    <2>6. ClearedOver' /\ ChunkThere'
      BY <2>2, <2>3, <2>4, <2>5
      DEF ResumeInv, ClearedOver, ChunkThere, Moves, SameRequest, u, i, Saving
    <2>7. UnopenedEmpty' /\ RecordedChunkOnDisk'
      BY <2>2, <2>3 DEF ResumeInv, UnopenedEmpty, RecordedChunkOnDisk, TypeOK, TablesType
    <2>8. QED
      BY <2>6, <2>7 DEF ResumeInv
  <1>3. QED
    BY <1>1, <1>2 DEF OpenChunk, Fail

LEMMA WriteChunkResume ==
  ASSUME UploadAssumption, TypeOK, ResumeInv, NEW t \in Threads, WriteChunk(t)
  PROVE  ResumeInv'
  <1> DEFINE u == job[t].upload
             i == job[t].index
  <1>1. u \in Uploads /\ i \in Chunks
    BY OwnUpload DEF WriteChunk, Saving
  <1>2. /\ Moves(t, "chunkRow") /\ UNCHANGED <<job, status, rows>> /\ pc[t] = "chunkWrite"
    BY DEF WriteChunk, Go, Moves, TypeOK, RequestType, tables
  <1>3. \A w \in Uploads, k \in Chunks : chunk'[w][k] = "absent" => chunk[w][k] = "absent"
    <2>1. CASE chunk' = [chunk EXCEPT ![u][i] = "whole"]
      BY <1>1, <2>1, ChunkAt DEF TypeOK
    <2>2. CASE UNCHANGED chunk
      BY <2>2
    <2>3. QED
      BY <2>1, <2>2 DEF WriteChunk
  <1>4. \A s \in Threads : pc[s] \in Saving => job[s].upload \in Uploads /\ job[s].index \in Chunks
    BY OwnUpload DEF Saving
  <1> HIDE DEF u, i
  <1>5. ClearedOver' /\ ChunkThere'
    BY <1>2, <1>3, <1>4 DEF ResumeInv, ClearedOver, ChunkThere, Moves, Saving
  <1>6. UnopenedEmpty' /\ RecordedChunkOnDisk'
    BY <1>2, <1>3 DEF ResumeInv, UnopenedEmpty, RecordedChunkOnDisk, TypeOK, TablesType
  <1>7. QED
    BY <1>5, <1>6 DEF ResumeInv

LEMMA RecordChunkResume ==
  ASSUME UploadAssumption, TypeOK, RequestInv, ResumeInv, NEW t \in Threads, RecordChunk(t)
  PROVE  ResumeInv'
  <1> DEFINE u == job[t].upload
             i == job[t].index
  <1>1. CASE Fail(t, "statement") /\ UNCHANGED rows
    BY <1>1, EndResume DEF RecordChunk, Fail, stores
  <1>2. CASE rows' = [rows EXCEPT ![u] = @ \cup {i}] /\ End(t, {})
    <2>1. u \in Uploads /\ i \in Chunks /\ status[u] # "none" /\ pc[t] = "chunkRow"
      BY OwnUpload DEF RecordChunk, Saving, RequestInv
    <2>2. \A w \in Uploads : rows'[w] = IF w = u THEN rows[w] \cup {i} ELSE rows[w]
      BY <1>2, <2>1 DEF TypeOK, TablesType
    <2>3. Moves(t, "idle") /\ (\A s \in Threads \ {t} : job'[s] = job[s])
            /\ UNCHANGED <<status, chunk>>
      BY <1>2, EndLocals DEF RecordChunk, stores
    <2>4. status[u] = "uploading" => chunk[u][i] # "absent"
      BY <2>1 DEF ResumeInv, ChunkThere
    <2> HIDE DEF u, i
    <2>5. ClearedOver' /\ ChunkThere'
      BY <2>3 DEF ResumeInv, ClearedOver, ChunkThere, Moves
    <2>6. UnopenedEmpty'
      BY <2>1, <2>2, <2>3 DEF ResumeInv, UnopenedEmpty
    <2>7. RecordedChunkOnDisk'
      <3> SUFFICES ASSUME NEW w \in Uploads, status[w] = "uploading", NEW k \in rows'[w]
                   PROVE  chunk[w][k] # "absent"
        BY <2>3 DEF RecordedChunkOnDisk
      <3>1. CASE k \in rows[w]
        BY <3>1 DEF ResumeInv, RecordedChunkOnDisk
      <3>2. CASE k \notin rows[w]
        <4>1. w = u /\ k = i
          BY <2>2, <3>2
        <4>2. QED
          BY <2>4, <4>1
      <3>3. QED
        BY <3>1, <3>2
    <2>8. QED
      BY <2>5, <2>6, <2>7 DEF ResumeInv
  <1>3. QED
    BY <1>1, <1>2 DEF RecordChunk

(* An upload that becomes completed or cancelled is not active any more.   *)
LEMMA OverResume ==
  ASSUME TypeOK, RequestInv, ResumeInv, NEW t \in Threads, pc[t] # "idle", pc[t] # "insert",
         NEW v, NEW n, v # "uploading" /\ v # "none",
         status' = [status EXCEPT ![job[t].upload] = v], UNCHANGED <<rows, chunk>>,
         Moves(t, n), n \in {"clear", "idle"}, \A s \in Threads \ {t} : SameRequest(s),
         n = "clear" => SameRequest(t)
  PROVE  ResumeInv'
  <1> DEFINE u == job[t].upload
  <1>1. u \in Uploads /\ status[u] # "none"
    BY OwnUpload DEF RequestInv
  <1>2. \A w \in Uploads : status'[w] = IF w = u THEN v ELSE status[w]
    BY <1>1 DEF TypeOK, TablesType
  <1>3. \A s \in Threads : pc[s] # "idle" => job[s].upload \in Uploads
    BY OwnUpload
  <1> HIDE DEF u
  <1>4. ClearedOver' /\ ChunkThere'
    BY <1>2, <1>3 DEF ResumeInv, ClearedOver, ChunkThere, Moves, SameRequest, u
  <1>5. UnopenedEmpty' /\ RecordedChunkOnDisk'
    BY <1>1, <1>2 DEF ResumeInv, UnopenedEmpty, RecordedChunkOnDisk
  <1>6. QED
    BY <1>4, <1>5 DEF ResumeInv

LEMMA PublishResume ==
  ASSUME UploadAssumption, TypeOK, RequestInv, ResumeInv, NEW t \in Threads, Publish(t)
  PROVE  ResumeInv'
  <1>1. CASE Fail(t, "statement") /\ UNCHANGED tables
    BY <1>1, EndResume DEF Publish, Fail, tables
  <1>2. CASE Fail(t, "commit") /\ Commit(t)
    BY <1>2, EndLocals, OverResume DEF Publish, Fail, Commit, SameRequest
  <1>3. CASE /\ Commit(t) /\ pc' = [pc EXCEPT ![t] = "clear"]
             /\ job' = [job EXCEPT ![t].success = "completed"]
    <2>1. Moves(t, "clear") /\ \A s \in Threads : SameRequest(s)
      BY <1>3, OwnUpload DEF Publish, Moves, SameRequest, TypeOK, RequestType, Job
    <2>2. QED
      BY <1>3, <2>1, OverResume DEF Publish, Commit
  <1>4. QED
    BY <1>1, <1>2, <1>3 DEF Publish

LEMMA CancelRowResume ==
  ASSUME UploadAssumption, "cancel" \notin Faults, TypeOK, RequestInv, ResumeInv,
         NEW t \in Threads, CancelRow(t)
  PROVE  ResumeInv'
  <1> DEFINE u == job[t].upload
             v == IF status[u] = "uploading" THEN "cancelled" ELSE status[u]
  <1>1. u \in Uploads /\ status[u] # "none" /\ pc[t] = "cancelRow"
    BY OwnUpload DEF CancelRow, RequestInv
  <1>2. status' = [status EXCEPT ![u] = v] /\ job' = [job EXCEPT ![t].success = "cancelled"]
    BY <1>1 DEF CancelRow, TypeOK, TablesType
  <1>3. v # "uploading" /\ v # "none"
    BY <1>1
  <1>4. Moves(t, "clear") /\ \A s \in Threads : SameRequest(s)
    BY <1>2, OwnUpload DEF CancelRow, Moves, SameRequest, TypeOK, RequestType, Job
  <1> HIDE DEF v
  <1>5. QED
    BY <1>1, <1>2, <1>3, <1>4, OverResume DEF CancelRow, stores

LEMMA ClearResume ==
  ASSUME UploadAssumption, TypeOK, ResumeInv, NEW t \in Threads, Clear(t)
  PROVE  ResumeInv'
  <1> DEFINE u == job[t].upload
  <1>1. CASE End(t, {job[t].success} \ {"none"}) /\ UNCHANGED chunk
    BY <1>1, EndResume DEF Clear, tables
  <1>2. CASE /\ chunk' = [chunk EXCEPT ![u] = NoChunks]
             /\ job' = [s \in Threads |-> IF job[s].upload = u
                                          THEN [job[s] EXCEPT !.linked = FALSE] ELSE job[s]]
             /\ pc' = [pc EXCEPT ![t] = "removeDir"]
    <2>1. u \in Uploads /\ status[u] # "uploading"
      BY OwnUpload DEF Clear, ResumeInv, ClearedOver
    <2>2. \A w \in Uploads : w # u => chunk'[w] = chunk[w]
      BY <1>2 DEF TypeOK, StoresType
    <2>3. Moves(t, "removeDir") /\ (\A s \in Threads : SameRequest(s)) /\ UNCHANGED <<status, rows>>
      <3>1. \A s \in Threads : job[s] \in Job
        BY DEF TypeOK, RequestType
      <3>2. \A s \in Threads : SameRequest(s)
        BY <1>2, <3>1 DEF SameRequest, Job
      <3>3. QED
        BY <1>2, <3>2 DEF Clear, Moves, TypeOK, RequestType, tables
    <2>4. \A s \in Threads : pc[s] # "idle" => job[s].upload \in Uploads
      BY OwnUpload
    <2> HIDE DEF u
    <2>5. ClearedOver' /\ ChunkThere'
      BY <2>1, <2>2, <2>3, <2>4 DEF ResumeInv, ClearedOver, ChunkThere, Moves, SameRequest, u
    <2>6. UnopenedEmpty' /\ RecordedChunkOnDisk'
      BY <2>1, <2>2, <2>3 DEF ResumeInv, UnopenedEmpty, RecordedChunkOnDisk
    <2>7. QED
      BY <2>5, <2>6 DEF ResumeInv
  <1>3. QED
    BY <1>1, <1>2 DEF Clear

LEMMA ResumeInductive ==
  ASSUME UploadAssumption, "cancel" \notin Faults, TypeOK, RequestInv, ResumeInv, [Next]_vars
  PROVE  ResumeInv'
  <1>1. ASSUME NEW t \in Threads,
               MakeInitDir(t) \/ MakeChunkDir(t) \/ ReadMeta(t) \/ MergeChunk(t) \/ RemoveDir(t)
        PROVE  ResumeInv'
    <2>1. UNCHANGED <<status, rows, chunk>>
      BY <1>1 DEF MakeInitDir, MakeChunkDir, ReadMeta, MergeChunk, RemoveDir, tables
    <2>2. CASE \E answers : End(t, answers)
      BY <2>1, <2>2, EndResume
    <2>3. CASE \E n \in {"chunkOpen", "merge", "publish"} : pc' = [pc EXCEPT ![t] = n]
      <3>1. \A s \in Threads \ {t} : pc'[s] = pc[s] /\ job'[s] = job[s]
        BY <1>1, <2>3
        DEF MakeInitDir, MakeChunkDir, ReadMeta, MergeChunk, RemoveDir, Fail, End, Go, TypeOK,
            RequestType
      <3>2. pc'[t] \in {"chunkOpen", "merge", "publish"}
        BY <2>3 DEF TypeOK, RequestType
      <3>3. QED
        BY <2>1, <3>1, <3>2, AsideResume DEF SameRequest
    <2>4. QED
      BY <1>1, <2>2, <2>3
      DEF MakeInitDir, MakeChunkDir, ReadMeta, MergeChunk, RemoveDir, Fail, Go
  <1>2. ASSUME NEW t \in Threads, NEW u \in Uploads, Request(t, u) PROVE ResumeInv'
    <2>1. UNCHANGED <<status, rows, chunk>>
      BY <1>2 DEF Request, CheckQuota, CheckChunk, CheckComplete, CheckCancel, tables, stores
    <2>2. ASSUME NEW i, NEW n, n \notin {"clear", "removeDir", "chunkWrite", "chunkRow"},
                 Start(t, u, i, n)
          PROVE  ResumeInv'
      BY <2>1, <2>2, StartLocals, AsideResume DEF Moves, SameRequest
    <2>3. QED
      BY <1>2, <2>2 DEF Request, CheckQuota, CheckChunk, CheckComplete, CheckCancel
  <1>3. ASSUME NEW u \in Uploads, Expire(u) PROVE ResumeInv'
    BY <1>3, AsideResume DEF Expire, stores, SameRequest
  <1>4. CASE Crash
    BY <1>4, AsideResume DEF Crash, tables, stores
  <1>5. CASE UNCHANGED vars
    BY <1>5, AsideResume DEF vars, tables, stores, SameRequest
  <1>6. QED
    BY <1>1, <1>2, <1>3, <1>4, <1>5, InsertSessionResume, OpenChunkResume, WriteChunkResume,
       RecordChunkResume, PublishResume, CancelRowResume, ClearResume
    DEF Next, Step

(* Unless the statement of a cancel fails, the indices by which a client   *)
(* resumes an active upload have their chunk files, whatever else fails,   *)
(* is sent twice, cancelled or completed meanwhile.                        *)
THEOREM RecordedChunksStay ==
  ASSUME "cancel" \notin Faults PROVE Spec => []RecordedChunkOnDisk
  <1>1. Init => ResumeInv
    BY DEF Init, ResumeInv, ClearedOver, ChunkThere, UnopenedEmpty, RecordedChunkOnDisk
  <1>2. TypeOK /\ RequestInv /\ ResumeInv /\ [Next]_vars => ResumeInv'
    BY ResumeInductive, UploadAssumption
  <1>3. ResumeInv => RecordedChunkOnDisk
    BY DEF ResumeInv
  <1>4. QED
    BY <1>1, <1>2, <1>3, TypeCorrect, RequestsConsistent, PTL DEF Spec


-----------------------------------------------------------------------------
(* Why a merged file is intact: unless a chunk was rewritten, a chunk file *)
(* that is open has one writer, which has written it when it records it,   *)
(* so that no recorded chunk is torn; merging comes after all of them and  *)
(* finds whole chunks.                                                     *)
OneWriter ==
  \A t \in Threads : pc[t] \in Writing /\ job[t].upload \notin rewritten =>
    /\ job[t].index \notin rows[job[t].upload]
    /\ \A s \in Threads \ {t} :
         pc[s] \in Writing /\ job[s].upload = job[t].upload => job[s].index # job[t].index
Written(t) == pc[t] = "chunkRow" \/ (pc[t] = "chunkWrite" /\ ~job[t].linked)
WrittenChunks ==
  /\ \A t \in Threads : Written(t) /\ job[t].upload \notin rewritten =>
       chunk[job[t].upload][job[t].index] # "torn"
  /\ \A u \in Uploads \ rewritten : \A i \in rows[u] : chunk[u][i] # "torn"
WriterInv == OneWriter /\ WrittenChunks

MergedWhole ==
  /\ \A t \in Threads : job[t].whole \/ job[t].upload \in rewritten
  /\ \A t \in Threads : pc[t] = "publish" =>
       disk[job[t].path] = "whole" \/ job[t].upload \in rewritten
MergedInv == MergedWhole /\ PublishedFileIntact

(* Only opening a chunk adds to the uploads with a rewritten one.          *)
LEMMA RewrittenAside ==
  ASSUME NEW t \in Threads,
         \/ InsertSession(t) \/ MakeInitDir(t) \/ MakeChunkDir(t) \/ WriteChunk(t)
         \/ RecordChunk(t) \/ ReadMeta(t) \/ MergeChunk(t) \/ Publish(t)
         \/ CancelRow(t) \/ Clear(t) \/ RemoveDir(t)
  PROVE  UNCHANGED rewritten
  BY DEF InsertSession, MakeInitDir, MakeChunkDir, WriteChunk, RecordChunk, ReadMeta, MergeChunk,
         Publish, CancelRow, Clear, RemoveDir, stores

(* A step that leaves rows and chunk files alone and opens none.           *)
LEMMA AsideWriter ==
  ASSUME WriterInv, UNCHANGED <<rows, chunk, rewritten>>,
         \A s \in Threads :
           pc'[s] \notin Writing \/ (pc'[s] = pc[s] /\ job'[s] = job[s])
  PROVE  WriterInv'
  <1>1. OneWriter'
    BY DEF WriterInv, OneWriter
  <1>2. WrittenChunks'
    BY DEF WriterInv, WrittenChunks, Written, Writing
  <1>3. QED
    BY <1>1, <1>2 DEF WriterInv

LEMMA EndWriter ==
  ASSUME TypeOK, WriterInv, NEW t \in Threads, NEW answers, End(t, answers),
         UNCHANGED <<rows, chunk, rewritten>>
  PROVE  WriterInv'
  <1>1. "idle" \notin Writing
    BY DEF Writing
  <1>2. \A s \in Threads \ {t} : pc'[s] = pc[s] /\ job'[s] = job[s]
    BY EndLocals DEF Moves
  <1>3. pc'[t] = "idle"
    BY EndLocals DEF Moves
  <1>4. QED
    BY <1>1, <1>2, <1>3, AsideWriter

(* A chunk file is opened when it is neither recorded nor open, or else    *)
(* the upload is from now on one with a rewritten chunk.                   *)
LEMMA OpenChunkWriter ==
  ASSUME UploadAssumption, TypeOK, WriterInv, NEW t \in Threads, OpenChunk(t)
  PROVE  WriterInv'
  <1> DEFINE u == job[t].upload
             i == job[t].index
  <1>1. CASE End(t, {}) /\ UNCHANGED <<chunk, rewritten>>
    BY <1>1, EndWriter DEF OpenChunk, tables
  <1>2. CASE /\ chunk' = [chunk EXCEPT ![u][i] = "torn"]
             /\ pc' = [pc EXCEPT ![t] = "chunkWrite"] /\ job' = [job EXCEPT ![t].linked = TRUE]
             /\ rewritten' = IF i \in rows[u] \/ OthersWriting(t) # {}
                             THEN rewritten \cup {u} ELSE rewritten
    <2>1. u \in Uploads /\ i \in Chunks /\ pc[t] \notin Writing
      BY OwnUpload DEF OpenChunk, Saving, Writing
    <2>2. /\ Moves(t, "chunkWrite") /\ (\A s \in Threads : SameRequest(s)) /\ UNCHANGED rows
          /\ (\A s \in Threads \ {t} : job'[s] = job[s]) /\ job'[t].linked
      BY <1>2, OwnUpload DEF OpenChunk, Moves, SameRequest, TypeOK, RequestType, tables, Job
    <2>3. \A w \in Uploads, k \in Chunks :
            chunk'[w][k] = IF w = u /\ k = i THEN "torn" ELSE chunk[w][k]
      BY <1>2, <2>1 DEF TypeOK, StoresType
    <2>4. u \notin rewritten' =>
            /\ i \notin rows[u]
            /\ \A s \in Threads \ {t} :
                 pc[s] \in Writing => job[s].upload # u \/ job[s].index # i
      <3>1. SUFFICES ASSUME u \notin rewritten'
                     PROVE  i \notin rows[u] /\ OthersWriting(t) = {}
        BY DEF OthersWriting, Busy
      <3>2. QED
        BY <1>2, <3>1
    <2>5. \A s \in Threads : pc[s] \in Writing =>
            job[s].upload \in Uploads /\ job[s].index \in Chunks
      BY OwnUpload DEF Saving, Writing
    <2>6. \A w \in Uploads : rows[w] \subseteq Chunks
      BY DEF TypeOK, TablesType
    <2>7. rewritten \subseteq rewritten'
      BY <1>2
    <2> HIDE DEF u, i
    <2>8. OneWriter'
      <3> SUFFICES ASSUME NEW s \in Threads, pc'[s] \in Writing, job[s].upload \notin rewritten'
                   PROVE  /\ job[s].index \notin rows[job[s].upload]
                          /\ \A q \in Threads \ {s} :
                               pc'[q] \in Writing /\ job[q].upload = job[s].upload =>
                                 job[q].index # job[s].index
        BY <2>2 DEF OneWriter, SameRequest
      <3>1. CASE s = t
        BY <2>2, <2>4, <3>1 DEF Moves, u, i
      <3>2. CASE s # t
        <4>1. pc[s] \in Writing /\ job[s].upload \notin rewritten
          BY <2>2, <2>7, <3>2 DEF Moves
        <4>2. job[s].upload = u => job[s].index # i
          BY <2>4, <3>2, <4>1
        <4>3. \A q \in Threads \ {s, t} : pc'[q] = pc[q]
          BY <2>2 DEF Moves
        <4>4. job[s].index \notin rows[job[s].upload]
          BY <4>1 DEF WriterInv, OneWriter
        <4>5. ASSUME NEW q \in Threads \ {s}, pc'[q] \in Writing, job[q].upload = job[s].upload
              PROVE  job[q].index # job[s].index
          <5>1. CASE q = t
            BY <4>2, <4>5, <5>1 DEF u, i
          <5>2. CASE q # t
            BY <4>1, <4>3, <4>5, <5>2 DEF WriterInv, OneWriter
          <5>3. QED
            BY <5>1, <5>2
        <4>6. QED
          BY <4>4, <4>5
      <3>3. QED
        BY <3>1, <3>2
    <2>9. \A s \in Threads : Written(s)' /\ job'[s].upload \notin rewritten' =>
            chunk'[job'[s].upload][job'[s].index] # "torn"
      <3> SUFFICES ASSUME NEW s \in Threads, Written(s)', job'[s].upload \notin rewritten'
                   PROVE  chunk'[job'[s].upload][job'[s].index] # "torn"
        OBVIOUS
      <3>1. s # t /\ pc'[s] = pc[s] /\ job'[s] = job[s]
        BY <2>2 DEF Moves, Written
      <3>2. pc[s] \in Writing /\ chunk[job[s].upload][job[s].index] # "torn"
        BY <2>7, <3>1 DEF WriterInv, WrittenChunks, Written, Writing
      <3>3. ~(job[s].upload = u /\ job[s].index = i)
        BY <2>4, <3>1, <3>2
      <3>4. QED
        BY <2>3, <2>5, <3>1, <3>2, <3>3
    <2>10. \A w \in Uploads \ rewritten' : \A k \in rows[w] : chunk'[w][k] # "torn"
      BY <2>3, <2>4, <2>6, <2>7 DEF WriterInv, WrittenChunks
    <2>11. QED
      BY <2>2, <2>8, <2>9, <2>10 DEF WriterInv, WrittenChunks
  <1>3. QED
    BY <1>1, <1>2 DEF OpenChunk, Fail

LEMMA WriteChunkWriter ==
  ASSUME UploadAssumption, "disk" \notin Faults, TypeOK, WriterInv, NEW t \in Threads, WriteChunk(t)
  PROVE  WriterInv'
  <1> DEFINE u == job[t].upload
             i == job[t].index
  <1>1. u \in Uploads /\ i \in Chunks /\ pc[t] \in Writing
    BY OwnUpload DEF WriteChunk, Saving, Writing
  <1>2. Moves(t, "chunkRow") /\ UNCHANGED <<job, rows, rewritten>> /\ pc[t] = "chunkWrite"
    BY DEF WriteChunk, Go, Moves, TypeOK, RequestType, tables
  <1>3. /\ u \notin rewritten => chunk'[u][i] # "torn"
        /\ \A w \in Uploads, k \in Chunks : chunk'[w][k] = "torn" => chunk[w][k] = "torn"
    <2>1. CASE chunk' = [chunk EXCEPT ![u][i] = "whole"]
      <3>1. \A w \in Uploads, k \in Chunks :
              chunk'[w][k] = IF w = u /\ k = i THEN "whole" ELSE chunk[w][k]
        BY <1>1, <2>1 DEF TypeOK, StoresType
      <3>2. QED
        BY <1>1, <3>1
    <2>2. CASE ~job[t].linked /\ chunk' = chunk
      BY <1>2, <2>2 DEF WriterInv, WrittenChunks, Written
    <2>3. QED
      BY <2>1, <2>2 DEF WriteChunk
  <1>4. \A s \in Threads : pc[s] \in Writing => job[s].upload \in Uploads /\ job[s].index \in Chunks
    BY OwnUpload DEF Saving, Writing
  <1>5. \A w \in Uploads : rows[w] \subseteq Chunks
    BY DEF TypeOK, TablesType
  <1>6. OneWriter'
    <2>1. \A s \in Threads : pc'[s] \in Writing => pc[s] \in Writing
      BY <1>1, <1>2 DEF Moves
    <2>2. QED
      BY <1>2, <2>1 DEF WriterInv, OneWriter
  <1>7. \A s \in Threads : Written(s)' /\ job[s].upload \notin rewritten =>
          chunk'[job[s].upload][job[s].index] # "torn"
    <2> SUFFICES ASSUME NEW s \in Threads, s # t, Written(s)', job[s].upload \notin rewritten
                 PROVE  chunk'[job[s].upload][job[s].index] # "torn"
      BY <1>3
    <2>1. pc'[s] = pc[s] /\ pc[s] \in Writing /\ Written(s)
      BY <1>2 DEF Moves, Writing, Written
    <2>2. chunk[job[s].upload][job[s].index] # "torn"
      BY <2>1 DEF WriterInv, WrittenChunks
    <2>3. QED
      BY <1>3, <1>4, <2>1, <2>2
  <1>8. \A w \in Uploads \ rewritten : \A k \in rows[w] : chunk'[w][k] # "torn"
    BY <1>3, <1>5 DEF WriterInv, WrittenChunks
  <1>9. QED
    BY <1>2, <1>6, <1>7, <1>8 DEF WriterInv, WrittenChunks

LEMMA RecordChunkWriter ==
  ASSUME UploadAssumption, TypeOK, WriterInv, NEW t \in Threads, RecordChunk(t)
  PROVE  WriterInv'
  <1> DEFINE u == job[t].upload
             i == job[t].index
  <1>1. CASE Fail(t, "statement") /\ UNCHANGED rows
    BY <1>1, EndWriter DEF RecordChunk, Fail, stores
  <1>2. CASE rows' = [rows EXCEPT ![u] = @ \cup {i}] /\ End(t, {})
    <2>1. u \in Uploads /\ i \in Chunks /\ pc[t] \in Writing /\ Written(t)
      BY OwnUpload DEF RecordChunk, Saving, Writing, Written
    <2>2. \A w \in Uploads : rows'[w] = IF w = u THEN rows[w] \cup {i} ELSE rows[w]
      BY <1>2, <2>1 DEF TypeOK, TablesType
    <2>3. /\ Moves(t, "idle") /\ (\A s \in Threads \ {t} : job'[s] = job[s])
          /\ UNCHANGED <<chunk, rewritten>>
      BY <1>2, EndLocals DEF RecordChunk, stores, End
    <2>4. u \notin rewritten =>
            /\ chunk[u][i] # "torn"
            /\ \A s \in Threads \ {t} :
                 pc[s] \in Writing => job[s].upload # u \/ job[s].index # i
      BY <2>1 DEF WriterInv, WrittenChunks, OneWriter
    <2>5. \A s \in Threads : pc[s] \in Writing => job[s].upload \in Uploads
      BY OwnUpload DEF Saving, Writing
    <2> HIDE DEF u, i
    <2>6. \A s \in Threads : pc'[s] \in Writing => s # t /\ pc[s] = pc'[s] /\ job'[s] = job[s]
      BY <2>3 DEF Moves, Writing
    <2>7. OneWriter'
      <3> SUFFICES ASSUME NEW s \in Threads, pc'[s] \in Writing, job[s].upload \notin rewritten
                   PROVE  /\ job[s].index \notin rows'[job[s].upload]
                          /\ \A q \in Threads \ {s} :
                               pc'[q] \in Writing /\ job[q].upload = job[s].upload =>
                                 job[q].index # job[s].index
        BY <2>3, <2>6 DEF OneWriter
      <3>1. s # t /\ pc[s] \in Writing /\ job[s].upload \in Uploads
        BY <2>5, <2>6
      <3>2. job[s].index \notin rows[job[s].upload]
        BY <3>1 DEF WriterInv, OneWriter
      <3>3. job[s].index \notin rows'[job[s].upload]
        <4>1. CASE job[s].upload = u
          <5>1. job[s].index # i /\ rows'[u] = rows[u] \cup {i}
            BY <2>1, <2>2, <2>4, <3>1, <4>1
          <5>2. QED
            BY <3>2, <4>1, <5>1
        <4>2. CASE job[s].upload # u
          BY <2>2, <3>1, <3>2, <4>2
        <4>3. QED
          BY <4>1, <4>2
      <3>4. QED
        BY <2>6, <3>1, <3>3 DEF WriterInv, OneWriter
    <2>8. \A s \in Threads : Written(s)' /\ job'[s].upload \notin rewritten =>
            chunk[job'[s].upload][job'[s].index] # "torn"
      <3> SUFFICES ASSUME NEW s \in Threads, Written(s)', job'[s].upload \notin rewritten
                   PROVE  chunk[job'[s].upload][job'[s].index] # "torn"
        OBVIOUS
      <3>1. pc'[s] \in Writing
        BY DEF Written, Writing
      <3>2. job'[s] = job[s] /\ Written(s)
        BY <2>6, <3>1 DEF Written
      <3>3. QED
        BY <3>2 DEF WriterInv, WrittenChunks
    <2>9. \A w \in Uploads \ rewritten : \A k \in rows'[w] : chunk[w][k] # "torn"
      <3> SUFFICES ASSUME NEW w \in Uploads \ rewritten, NEW k \in rows'[w]
                   PROVE  chunk[w][k] # "torn"
        OBVIOUS
      <3>1. k \in rows[w] \/ (w = u /\ k = i)
        BY <2>2
      <3>2. QED
        BY <2>4, <3>1 DEF WriterInv, WrittenChunks
    <2>10. QED
      BY <2>3, <2>7, <2>8, <2>9 DEF WriterInv, WrittenChunks
  <1>3. QED
    BY <1>1, <1>2 DEF RecordChunk

(* A directory that is cleared leaves no chunk torn, nor a file open in it.*)
LEMMA ClearWriter ==
  ASSUME UploadAssumption, TypeOK, WriterInv, NEW t \in Threads, Clear(t)
  PROVE  WriterInv'
  <1> DEFINE u == job[t].upload
  <1>1. CASE End(t, {job[t].success} \ {"none"}) /\ UNCHANGED chunk
    BY <1>1, EndWriter, RewrittenAside DEF Clear, tables
  <1>2. CASE /\ chunk' = [chunk EXCEPT ![u] = NoChunks]
             /\ job' = [s \in Threads |-> IF job[s].upload = u
                                          THEN [job[s] EXCEPT !.linked = FALSE] ELSE job[s]]
             /\ pc' = [pc EXCEPT ![t] = "removeDir"]
    <2>1. u \in Uploads
      BY OwnUpload DEF Clear
    <2>2. \A w \in Uploads, k \in Chunks :
            chunk'[w][k] = IF w = u THEN "absent" ELSE chunk[w][k]
      BY <1>2, <2>1 DEF TypeOK, StoresType, NoChunks
    <2>3. \A s \in Threads : job[s] \in Job
      BY DEF TypeOK, RequestType
    <2>4. \A s \in Threads : SameRequest(s) /\ (job[s].upload # u => job'[s] = job[s])
      BY <1>2, <2>3 DEF SameRequest, Job
    <2>5. Moves(t, "removeDir") /\ UNCHANGED <<rows, rewritten>>
      BY <1>2 DEF Clear, Moves, TypeOK, RequestType, tables
    <2>6. \A s \in Threads : pc[s] \in Writing =>
            job[s].upload \in Uploads /\ job[s].index \in Chunks
      BY OwnUpload DEF Saving, Writing
    <2>7. \A w \in Uploads : rows[w] \subseteq Chunks
      BY DEF TypeOK, TablesType
    <2> HIDE DEF u
    <2>8. \A s \in Threads : pc'[s] \in Writing => pc'[s] = pc[s]
      BY <2>5 DEF Moves, Writing
    <2>9. OneWriter'
      BY <2>4, <2>5, <2>8 DEF WriterInv, OneWriter, SameRequest
    <2>10. \A s \in Threads : Written(s)' /\ job'[s].upload \notin rewritten =>
             chunk'[job'[s].upload][job'[s].index] # "torn"
      <3> SUFFICES ASSUME NEW s \in Threads, Written(s)', job[s].upload \notin rewritten
                   PROVE  chunk'[job[s].upload][job[s].index] # "torn"
        BY <2>4 DEF SameRequest
      <3>1. pc[s] = pc'[s] /\ pc[s] \in Writing
        BY <2>8 DEF Writing, Written
      <3>2. CASE job[s].upload = u
        BY <2>2, <2>6, <3>1, <3>2
      <3>3. CASE job[s].upload # u
        <4>1. chunk[job[s].upload][job[s].index] # "torn"
          BY <2>4, <3>1, <3>3 DEF WriterInv, WrittenChunks, Written
        <4>2. QED
          BY <2>2, <2>6, <3>1, <3>3, <4>1
      <3>4. QED
        BY <3>2, <3>3
    <2>11. \A w \in Uploads \ rewritten : \A k \in rows[w] : chunk'[w][k] # "torn"
      BY <2>2, <2>7 DEF WriterInv, WrittenChunks
    <2>12. QED
      BY <2>5, <2>9, <2>10, <2>11 DEF WriterInv, WrittenChunks
  <1>3. QED
    BY <1>1, <1>2 DEF Clear

LEMMA WriterInductive ==
  ASSUME UploadAssumption, "disk" \notin Faults, TypeOK, WriterInv, [Next]_vars
  PROVE  WriterInv'
  <1>1. ASSUME NEW t \in Threads,
               \/ InsertSession(t) \/ MakeInitDir(t) \/ MakeChunkDir(t) \/ ReadMeta(t)
               \/ MergeChunk(t) \/ Publish(t) \/ CancelRow(t) \/ RemoveDir(t)
        PROVE  WriterInv'
    <2>1. UNCHANGED <<rows, chunk, rewritten>>
      BY <1>1, RewrittenAside
      DEF InsertSession, MakeInitDir, MakeChunkDir, ReadMeta, MergeChunk, Publish, Commit,
                  CancelRow, RemoveDir, tables, stores
    <2>2. CASE \E answers : End(t, answers)
      BY <2>1, <2>2, EndWriter
    <2>3. CASE MakeChunkDir(t) /\ Go(t, "chunkOpen")
      BY <2>1, <2>3, AsideWriter DEF MakeChunkDir, Go, TypeOK, RequestType, Writing
    <2>4. ASSUME NEW n \in {"initDir", "merge", "publish", "clear"}, pc' = [pc EXCEPT ![t] = n],
                 \A s \in Threads \ {t} : job'[s] = job[s]
          PROVE  WriterInv'
      <3>1. Moves(t, n) /\ n \notin Writing
        BY <2>4 DEF Moves, TypeOK, RequestType, Writing
      <3>2. QED
        BY <2>1, <2>4, <3>1, AsideWriter DEF Moves
    <2>5. ASSUME NEW j, job' = [job EXCEPT ![t] = j] PROVE \A s \in Threads \ {t} : job'[s] = job[s]
      BY <2>5 DEF TypeOK, RequestType
    <2>6. CASE InsertSession(t)
      BY <2>2, <2>4, <2>6 DEF InsertSession, Go, Fail
    <2>7. CASE MakeInitDir(t) \/ MakeChunkDir(t) \/ RemoveDir(t)
      BY <2>2, <2>3, <2>7 DEF MakeInitDir, MakeChunkDir, RemoveDir, Fail
    <2>8. CASE ReadMeta(t)
      BY <2>2, <2>4, <2>5, <2>8 DEF ReadMeta, Fail
    <2>9. CASE MergeChunk(t)
      BY <2>2, <2>4, <2>5, <2>9 DEF MergeChunk
    <2>10. CASE Publish(t)
      BY <2>2, <2>4, <2>5, <2>10 DEF Publish, Fail
    <2>11. CASE CancelRow(t)
      BY <2>4, <2>5, <2>11 DEF CancelRow
    <2>12. QED
      BY <1>1, <2>6, <2>7, <2>8, <2>9, <2>10, <2>11
  <1>2. ASSUME NEW t \in Threads, NEW u \in Uploads, Request(t, u) PROVE WriterInv'
    <2>1. UNCHANGED <<rows, chunk, rewritten>>
      BY <1>2 DEF Request, CheckQuota, CheckChunk, CheckComplete, CheckCancel, tables, stores
    <2>2. ASSUME NEW i, NEW n \in {"insert", "meta", "cancelRow", "chunkDir"}, Start(t, u, i, n)
          PROVE  WriterInv'
      <3>1. n \notin Writing
        BY <2>2 DEF Writing
      <3>2. QED
        BY <2>1, <2>2, <3>1, StartLocals, AsideWriter DEF Moves
    <2>3. QED
      BY <1>2, <2>2 DEF Request, CheckQuota, CheckChunk, CheckComplete, CheckCancel
  <1>3. ASSUME NEW u \in Uploads, Expire(u) PROVE WriterInv'
    BY <1>3, AsideWriter DEF Expire, stores
  <1>4. CASE Crash
    BY <1>4, AsideWriter DEF Crash, tables, stores, Writing
  <1>5. CASE UNCHANGED vars
    BY <1>5, AsideWriter DEF vars, tables, stores
  <1>6. QED
    BY <1>1, <1>2, <1>3, <1>4, <1>5, OpenChunkWriter, WriteChunkWriter, RecordChunkWriter,
       ClearWriter DEF Next, Step

-----------------------------------------------------------------------------
(* A step that leaves files and the user's directory alone, publishes      *)
(* nothing new and takes a torn part into no merge.                        *)
LEMMA AsideMerged ==
  ASSUME MergedInv, UNCHANGED <<files, disk>>,
         rewritten \subseteq rewritten',
         \A s \in Threads : job'[s].whole \/ job'[s].upload \in rewritten',
         \A s \in Threads : pc'[s] = "publish" =>
           /\ pc[s] = "publish"
           /\ job'[s].path = job[s].path /\ job'[s].upload = job[s].upload
  PROVE  MergedInv'
  BY DEF MergedInv, MergedWhole, PublishedFileIntact

(* A step of t in its own file, at a path that is not in the table.        *)
LEMMA OwnFileMerged ==
  ASSUME TypeOK, MergedInv, NEW t \in Threads, NEW p \in Paths, NEW v, NEW n, Moves(t, n),
         disk' = [disk EXCEPT ![p] = v],
         n = "publish" => v = "whole" \/ job'[t].upload \in rewritten,
         \A s \in Threads \ {t} : job[s].path # p,
         \A f \in files : f.path # p,
         \A s \in Threads \ {t} : job'[s] = job[s],
         n = "publish" => job'[t].path = p,
         job'[t].whole \/ job'[t].upload \in rewritten, UNCHANGED <<files, rewritten>>
  PROVE  MergedInv'
  <1>1. disk'[p] = v /\ \A q \in Paths : q # p => disk'[q] = disk[q]
    BY DEF TypeOK, StoresType
  <1>2. \A s \in Threads : pc[s] = "publish" => job[s].path \in Paths
    BY DEF TypeOK, RequestType, Merging
  <1>3. \A f \in files : f.path \in Paths
    BY DEF TypeOK, TablesType
  <1>4. MergedWhole'
    <2>1. \A s \in Threads : job'[s].whole \/ job'[s].upload \in rewritten'
      BY DEF MergedInv, MergedWhole
    <2>2. ASSUME NEW s \in Threads, pc'[s] = "publish"
          PROVE  disk'[job'[s].path] = "whole" \/ job'[s].upload \in rewritten'
      <3>1. CASE s = t
        BY <1>1, <2>2, <3>1 DEF Moves
      <3>2. CASE s # t
        BY <1>1, <1>2, <2>2, <3>2 DEF Moves, MergedInv, MergedWhole
      <3>3. QED
        BY <3>1, <3>2
    <2>3. QED
      BY <2>1, <2>2 DEF MergedWhole
  <1>5. PublishedFileIntact'
    BY <1>1, <1>3 DEF MergedInv, PublishedFileIntact
  <1>6. QED
    BY <1>4, <1>5 DEF MergedInv

LEMMA EndMerged ==
  ASSUME TypeOK, MergedInv, NEW t \in Threads, NEW answers, End(t, answers),
         UNCHANGED <<files, disk>>, rewritten \subseteq rewritten'
  PROVE  MergedInv'
  <1>1. NoJob.whole
    BY DEF NoJob
  <1>2. \A s \in Threads : job'[s].whole \/ job'[s].upload \in rewritten'
    BY <1>1, EndLocals DEF MergedInv, MergedWhole
  <1>3. \A s \in Threads : pc'[s] = "publish" =>
          /\ pc[s] = "publish"
          /\ job'[s].path = job[s].path /\ job'[s].upload = job[s].upload
    BY EndLocals DEF Moves
  <1>4. QED
    BY <1>2, <1>3, AsideMerged

LEMMA ReadMetaMerged ==
  ASSUME TypeOK, MergedInv, NEW t \in Threads, ReadMeta(t)
  PROVE  MergedInv'
  <1>1. CASE End(t, {}) /\ UNCHANGED disk
    BY <1>1, EndMerged, RewrittenAside DEF ReadMeta, tables
  <1>2. ASSUME NEW p \in Paths, Unused(p), disk' = [disk EXCEPT ![p] = "partial"],
               job' = [job EXCEPT ![t].path = p], pc' = [pc EXCEPT ![t] = "merge"]
        PROVE  MergedInv'
    <2>1. /\ Moves(t, "merge") /\ UNCHANGED <<files, rewritten>>
          /\ \A s \in Threads \ {t} : job'[s] = job[s]
      BY <1>2, RewrittenAside DEF ReadMeta, Moves, TypeOK, RequestType, tables
    <2>2. job'[t].whole \/ job'[t].upload \in rewritten
      BY <1>2 DEF MergedInv, MergedWhole, TypeOK, RequestType, Job
    <2>3. (\A s \in Threads \ {t} : job[s].path # p) /\ (\A f \in files : f.path # p)
      BY <1>2 DEF Unused
    <2>4. QED
      BY <1>2, <2>1, <2>2, <2>3, OwnFileMerged
  <1>3. QED
    BY <1>1, <1>2 DEF ReadMeta, Fail

(* A chunk that is merged is recorded, hence whole if it is there, unless  *)
(* one was rewritten.                                                      *)
LEMMA MergeChunkMerged ==
  ASSUME UploadAssumption, "disk" \notin Faults, TypeOK, RequestInv, PathInv, WriterInv, MergedInv,
         NEW t \in Threads, MergeChunk(t)
  PROVE  MergedInv'
  <1> DEFINE u == job[t].upload
             i == job[t].index
             p == job[t].path
             last == Last(job[t])
  <1>1. CASE End(t, {}) /\ UNCHANGED disk
    BY <1>1, EndMerged, RewrittenAside DEF MergeChunk, tables
  <1>2. ASSUME NEW whole, chunk[u][i] # "absent",
               whole \in {job[t].whole /\ chunk[u][i] = "whole"},
               job' = [job EXCEPT ![t].index = @ + 1, ![t].whole = whole],
               disk' = [disk EXCEPT ![p] =
                          IF ~last THEN "partial" ELSE IF whole THEN "whole" ELSE "torn"],
               pc' = [pc EXCEPT ![t] = IF last THEN "publish" ELSE "merge"]
        PROVE  MergedInv'
    <2>1. u \in Uploads /\ i \in Chunks /\ rows[u] = Chunks /\ p \in Paths /\ p # NoPath
      BY OwnUpload DEF MergeChunk, RequestInv, Completing, Merging, TypeOK, RequestType,
          UploadAssumption
    <2>2. u \notin rewritten => chunk[u][i] = "whole"
      <3>1. u \notin rewritten => chunk[u][i] # "torn"
        BY <2>1 DEF WriterInv, WrittenChunks
      <3>2. chunk[u][i] \in {"absent", "torn", "whole"}
        BY <2>1 DEF TypeOK, StoresType
      <3>3. QED
        BY <1>2, <3>1, <3>2
    <2>3. u \notin rewritten => whole = TRUE
      BY <1>2, <2>2 DEF MergedInv, MergedWhole
    <2>4. /\ \A s \in Threads \ {t} : job[s].path # p
          /\ \A f \in files : f.path # p
      BY <2>1 DEF MergeChunk, PathInv, Merging
    <2>5. /\ \A s \in Threads \ {t} : job'[s] = job[s]
          /\ job'[t].path = p /\ job'[t].whole = whole /\ job'[t].upload = u
      BY <1>2 DEF TypeOK, RequestType, Job
    <2>6. whole \in BOOLEAN
      BY <1>2, <2>1 DEF TypeOK, RequestType, Job
    <2>7. job'[t].whole \/ job'[t].upload \in rewritten
      BY <2>3, <2>5, <2>6
    <2> DEFINE n == IF last THEN "publish" ELSE "merge"
               v == IF ~last THEN "partial" ELSE IF whole THEN "whole" ELSE "torn"
    <2>8. disk' = [disk EXCEPT ![p] = v]
      BY <1>2
    <2>9. n = "publish" => v = "whole" \/ job'[t].upload \in rewritten
      BY <2>3, <2>5
    <2>10. Moves(t, n) /\ UNCHANGED <<files, rewritten>>
      BY <1>2, RewrittenAside DEF MergeChunk, Moves, TypeOK, RequestType, tables
    <2> HIDE DEF u, i, p, n, v, last
    <2>11. QED
      BY <2>1, <2>4, <2>5, <2>7, <2>8, <2>9, <2>10, OwnFileMerged
  <1>3. QED
    BY <1>1, <1>2 DEF MergeChunk

LEMMA PublishMerged ==
  ASSUME UploadAssumption, TypeOK, PathInv, MergedInv, NEW t \in Threads, Publish(t)
  PROVE  MergedInv'
  <1> DEFINE p == job[t].path
             u == job[t].upload
             f == [path |-> p, upload |-> u]
  <1>1. /\ p \in Paths /\ (disk[p] = "whole" \/ u \in rewritten)
        /\ \A s \in Threads \ {t} : job[s].path # p
        /\ \A g \in files : g.path # p
    BY DEF Publish, PathInv, TypeOK, RequestType, Merging, UploadAssumption, MergedInv, MergedWhole
  <1>2. files' \in {files, files \cup {f}} /\ UNCHANGED rewritten
    BY RewrittenAside DEF Publish, Commit, tables
  <1>3. \A g \in files : g.path \in Paths
    BY DEF TypeOK, TablesType
  <1>4. CASE /\ pc' = [pc EXCEPT ![t] = "clear"]
             /\ job' = [job EXCEPT ![t].success = "completed"]
             /\ UNCHANGED <<disk, told>>
    <2>1. Moves(t, "clear")
      BY <1>4 DEF Moves, TypeOK, RequestType
    <2>2. \A s \in Threads : /\ job'[s].whole = job[s].whole /\ job'[s].path = job[s].path
                             /\ job'[s].upload = job[s].upload
      BY <1>4 DEF TypeOK, RequestType, Job
    <2>3. MergedWhole'
      BY <1>2, <1>4, <2>1, <2>2 DEF Moves, MergedInv, MergedWhole
    <2>4. PublishedFileIntact'
      BY <1>1, <1>2, <1>4 DEF MergedInv, PublishedFileIntact
    <2>5. QED
      BY <2>3, <2>4 DEF MergedInv
  <1>5. CASE End(t, {}) /\ disk' = [disk EXCEPT ![p] = "absent"]
    <2>1. /\ Moves(t, "idle") /\ job'[t] = NoJob
          /\ \A s \in Threads \ {t} : job'[s] = job[s]
      BY <1>5, EndLocals
    <2>2. disk'[p] = "absent" /\ \A q \in Paths : q # p => disk'[q] = disk[q]
      BY <1>1, <1>5 DEF TypeOK, StoresType
    <2>3. \A s \in Threads : pc[s] = "publish" => job[s].path \in Paths
      BY DEF TypeOK, RequestType, Merging
    <2>4. \A s \in Threads : job'[s].whole \/ job'[s].upload \in rewritten'
      BY <1>2, <2>1 DEF MergedInv, MergedWhole, NoJob
    <2>5. \A s \in Threads : pc'[s] = "publish" =>
            disk'[job'[s].path] = "whole" \/ job'[s].upload \in rewritten'
      BY <1>1, <1>2, <2>1, <2>2, <2>3 DEF Moves, MergedInv, MergedWhole
    <2>6. PublishedFileIntact'
      BY <1>1, <1>2, <1>3, <2>2 DEF MergedInv, PublishedFileIntact
    <2>7. QED
      BY <2>4, <2>5, <2>6 DEF MergedInv, MergedWhole
  <1>6. QED
    BY <1>4, <1>5 DEF Publish, Fail

LEMMA MergedInductive ==
  ASSUME UploadAssumption, "disk" \notin Faults,
         TypeOK, RequestInv, PathInv, WriterInv, MergedInv, [Next]_vars
  PROVE  MergedInv'
  <1>a. \A s \in Threads : job[s] \in Job /\ (job[s].whole \/ job[s].upload \in rewritten)
    BY DEF TypeOK, RequestType, MergedInv, MergedWhole
  <1> DEFINE Same(s) == /\ job'[s].whole = job[s].whole /\ job'[s].path = job[s].path
                        /\ job'[s].upload = job[s].upload
  <1>1. ASSUME NEW t \in Threads,
               \/ InsertSession(t) \/ MakeInitDir(t) \/ MakeChunkDir(t) \/ OpenChunk(t)
               \/ WriteChunk(t) \/ RecordChunk(t) \/ CancelRow(t) \/ Clear(t) \/ RemoveDir(t)
        PROVE  MergedInv'
    <2>1. UNCHANGED <<files, disk>>
      BY <1>1 DEF InsertSession, MakeInitDir, MakeChunkDir, OpenChunk, WriteChunk, RecordChunk,
                  CancelRow, Clear, RemoveDir, tables, stores
    <2>a. rewritten \subseteq rewritten'
      <3>1. CASE OpenChunk(t)
        BY <3>1 DEF OpenChunk, End, Fail
      <3>2. QED
        BY <1>1, <3>1, RewrittenAside
    <2>2. CASE \E answers : End(t, answers)
      BY <2>a, <2>1, <2>2, EndMerged
    <2>3. ASSUME NEW n, n # "publish", pc' = [pc EXCEPT ![t] = n],
                 \A s \in Threads : Same(s)
          PROVE  MergedInv'
      <3>1. Moves(t, n)
        BY <2>3 DEF Moves, TypeOK, RequestType
      <3>2. QED
        BY <1>a, <2>a, <2>1, <2>3, <3>1, AsideMerged DEF Moves
    <2>4. ASSUME NEW n, n # "publish", Go(t, n) PROVE MergedInv'
      BY <2>3, <2>4 DEF Go
    <2>5. CASE InsertSession(t) \/ MakeInitDir(t) \/ MakeChunkDir(t) \/ WriteChunk(t)
                 \/ RecordChunk(t) \/ RemoveDir(t)
      BY <2>2, <2>4, <2>5
      DEF InsertSession, MakeInitDir, MakeChunkDir, WriteChunk, RecordChunk, RemoveDir, Fail
    <2>6. CASE OpenChunk(t)
      <3>1. CASE job' = [job EXCEPT ![t].linked = TRUE] /\ pc' = [pc EXCEPT ![t] = "chunkWrite"]
        <4>1. \A s \in Threads : Same(s)
          BY <1>a, <3>1 DEF Job, TypeOK, RequestType
        <4>2. QED
          BY <2>3, <3>1, <4>1
      <3>2. QED
        BY <2>2, <2>6, <3>1 DEF OpenChunk, Fail
    <2>7. CASE CancelRow(t)
      <3>1. \A s \in Threads : Same(s)
        BY <1>a, <2>7 DEF CancelRow, Job, TypeOK, RequestType
      <3>2. pc' = [pc EXCEPT ![t] = "clear"]
        BY <2>7 DEF CancelRow
      <3>3. QED
        BY <2>3, <3>1, <3>2
    <2>8. CASE Clear(t)
      <3>1. CASE dir[job[t].upload]
        <4>1. \A s \in Threads : Same(s)
          BY <1>a, <2>8, <3>1 DEF Clear, Job, TypeOK, RequestType
        <4>2. pc' = [pc EXCEPT ![t] = "removeDir"]
          BY <2>8, <3>1 DEF Clear
        <4>3. QED
          BY <2>3, <4>1, <4>2
      <3>2. QED
        BY <2>2, <2>8, <3>1 DEF Clear
    <2>9. QED
      BY <1>1, <2>5, <2>6, <2>7, <2>8
  <1>2. ASSUME NEW t \in Threads, NEW u \in Uploads, Request(t, u) PROVE MergedInv'
    <2>1. UNCHANGED <<files, disk, rewritten>>
      BY <1>2 DEF Request, CheckQuota, CheckChunk, CheckComplete, CheckCancel, tables, stores
    <2>2. ASSUME NEW i, NEW n, n # "publish", Start(t, u, i, n) PROVE MergedInv'
      BY <1>a, <2>1, <2>2, StartLocals, AsideMerged DEF Moves
    <2>3. QED
      BY <1>2, <2>2 DEF Request, CheckQuota, CheckChunk, CheckComplete, CheckCancel
  <1>3. ASSUME NEW u \in Uploads, Expire(u) PROVE MergedInv'
    BY <1>3, <1>a, AsideMerged DEF Expire, stores
  <1>4. CASE Crash
    BY <1>4, AsideMerged DEF Crash, tables, stores, NoJob
  <1>5. CASE UNCHANGED vars
    BY <1>5, <1>a, AsideMerged DEF vars, tables, stores
  <1>6. QED
    BY <1>1, <1>2, <1>3, <1>4, <1>5, ReadMetaMerged, MergeChunkMerged, PublishMerged
    DEF Next, Step

(* While the disk does not fill up, every merged file in the table is      *)
(* complete, unless a save has opened a chunk of its upload that was       *)
(* recorded, or that another save had open: whatever the interleaving of   *)
(* chunks, completions and cancels, and also when statements or commits    *)
(* fail, the process crashes or a completion is sent twice.                *)
THEOREM PublishedIntact == ASSUME "disk" \notin Faults PROVE Spec => []PublishedFileIntact
  <1>1. Init => WriterInv /\ MergedInv
    BY DEF Init, WriterInv, OneWriter, WrittenChunks, Written, MergedInv, MergedWhole,
           PublishedFileIntact, Writing, NoJob
  <1>2. TypeOK /\ WriterInv /\ [Next]_vars => WriterInv'
    BY WriterInductive, UploadAssumption
  <1>3. TypeOK /\ RequestInv /\ PathInv /\ WriterInv /\ MergedInv /\ [Next]_vars => MergedInv'
    BY MergedInductive, UploadAssumption
  <1>4. MergedInv => PublishedFileIntact
    BY DEF MergedInv
  <1>5. QED
    BY <1>1, <1>2, <1>3, <1>4, TypeCorrect, RequestsConsistent, PathsKeptApart, PTL DEF Spec
=============================================================================
