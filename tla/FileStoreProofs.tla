--------------------------- MODULE FileStoreProofs ---------------------------
(* Proofs about FileStore, for every number of threads and files, under    *)
(* every fault and every irregular client unless a theorem says otherwise. *)
EXTENDS FileStore, SumTheorems

Stored(f) == disk[f] \in {"torn", "whole", "absent"}
Kept(f) == f \in listed /\ disk[f] \in {"torn", "whole"}

(* A file that nobody has written yet is known to its uploads alone.       *)
NewUntouched ==
  \A f \in Files : disk[f] = "new" =>
    f \notin listed /\ told[f] = {} /\ \A t \in Threads : job[t] = f => pc[t] = "open"

(* A file has one upload at a time, and until its row is inserted no other *)
(* request has it.                                                         *)
OneUpload ==
  \A t \in Threads : pc[t] \in Uploading =>
    \A s \in Threads \ {t} : job[s] = job[t] =>
      pc[s] \notin Uploading /\ pc[t] \notin {"open", "write", "insert"}

(* What an upload knows of its file at each of its statements.             *)
UploadPlaces ==
  \A t \in Threads :
    /\ pc[t] = "open" => disk[job[t]] = "new"
    /\ pc[t] = "write" => disk[job[t]] = "partial"
    /\ pc[t] = "insert" => disk[job[t]] \in {"torn", "whole"}
    /\ pc[t] \in {"open", "write", "insert"} => job[t] \notin listed
    /\ pc[t] \in Uploading => "uploaded" \notin told[job[t]]
    /\ pc[t] = "charge" /\ "deleting" \notin told[job[t]] => Kept(job[t])

(* What a delete knows of its file.                                        *)
DeletePlaces ==
  \A t \in Threads : pc[t] \in Deleting =>
    /\ "deleting" \in told[job[t]]
    /\ pc[t] \in {"deleteRow", "uncharge"} => disk[job[t]] = "absent"
    /\ pc[t] = "uncharge" => job[t] \notin listed

(* Rows, and requests that have found one, are about files that were       *)
(* written to their end; only rows have share codes.                       *)
WrittenFirst ==
  /\ \A f \in listed : Stored(f)
  /\ \A t \in Threads : pc[t] \notin {"idle", "open", "write"} => Stored(job[t])
  /\ \A f \in Files : share[f] # NoCode => f \in listed

PlacesInv == NewUntouched /\ OneUpload /\ UploadPlaces /\ DeletePlaces /\ WrittenFirst

FileInv == TypeOK /\ PlacesInv /\ DeletedGone /\ UploadedStays /\ DownloadIntact

-----------------------------------------------------------------------------
(* Without failing statements and crashes a row is never left behind.      *)
NoUndo == \A t \in Threads : pc[t] \notin {"rollback", "discard"}

(* A row without its file: the delete that unlinked it is before DELETE.   *)
GoneRows ==
  \A f \in listed : disk[f] = "absent" =>
    \E t \in Threads : pc[t] = "deleteRow" /\ job[t] = f

(* With regular clients besides: a delete is alone with its file, which    *)
(* has its row until the DELETE, and so has an upload after the INSERT.    *)
DeleteAlone ==
  \A t \in Threads : pc[t] \in Deleting =>
    \A s \in Threads \ {t} : job[s] = job[t] => pc[s] \notin Deleting \cup Uploading
RowsInPlace ==
  \A t \in Threads : pc[t] \in {"charge", "unlink", "deleteRow"} => job[t] \in listed

(* The uploads that passed the check of the quota and are not charged yet. *)
Uncharged == {"open", "write", "insert", "charge"}
Underway == {t \in Threads : pc[t] \in Uncharged}
InFlight == SumFunction([t \in Underway |-> Size[job[t]]])
QuotaInv ==
  \A f \in Files : Largest(f) =>
    used + InFlight <= Limit + (Cardinality(Threads) - 1) * Size[f]
-----------------------------------------------------------------------------
(* What the four ways to go on do to the requests, thread by thread and    *)
(* file by file: the types, and the value of each function at each point.  *)
RequestTypes ==
  /\ pc \in [Threads -> Control]
  /\ job \in [Threads -> Files \cup {NoFile}]
  /\ \A t \in Threads : pc[t] = "idle" <=> job[t] = NoFile
  /\ told \in [Files -> SUBSET {"uploaded", "deleting", "deleted"}]
  /\ bodies \subseteq {"partial", "torn", "whole", "nothing"}

Moves(t, next, file) ==
  \A s \in Threads :
    /\ pc'[s] = IF s = t THEN next ELSE pc[s]
    /\ job'[s] = IF s = t THEN file ELSE job[s]
Tells(file, answers) ==
  \A f \in Files : told'[f] = IF f = file THEN told[f] \cup answers ELSE told[f]

LEMMA StartDoes ==
  ASSUME TypeOK, NEW t \in Threads, NEW f \in Files,
         NEW next \in Control \ {"idle"}, Start(t, f, next)
  PROVE  /\ pc' \in [Threads -> Control]
         /\ job' \in [Threads -> Files \cup {NoFile}]
         /\ \A s \in Threads : pc'[s] = "idle" <=> job'[s] = NoFile
         /\ pc[t] = "idle" /\ job[t] = NoFile /\ Moves(t, next, f)
  BY FileAssumption DEF TypeOK, Start, Moves

LEMMA GoDoes ==
  ASSUME TypeOK, NEW t \in Threads, pc[t] # "idle",
         NEW next \in Control \ {"idle"}, Go(t, next)
  PROVE  RequestTypes' /\ job[t] \in Files /\ Moves(t, next, job[t]) /\ Tells(job[t], {})
  BY FileAssumption DEF TypeOK, RequestTypes, Go, Moves, Tells

LEMMA EndDoes ==
  ASSUME TypeOK, NEW t \in Threads, pc[t] # "idle",
         NEW answers \in SUBSET {"uploaded", "deleted"}, End(t, answers)
  PROVE  RequestTypes' /\ job[t] \in Files /\ Moves(t, "idle", NoFile) /\ Tells(job[t], answers)
  <1>1. job[t] \in Files
    BY DEF TypeOK
  <1>2. told' \in [Files -> SUBSET {"uploaded", "deleting", "deleted"}]
    BY <1>1 DEF TypeOK, End
  <1>3. Tells(job[t], answers)
    BY <1>1 DEF TypeOK, End, Tells
  <1>4. /\ pc' \in [Threads -> Control] /\ job' \in [Threads -> Files \cup {NoFile}]
        /\ Moves(t, "idle", NoFile)
    BY DEF TypeOK, End, Moves, Control
  <1>5. QED
    BY <1>1, <1>2, <1>3, <1>4 DEF TypeOK, End, RequestTypes, Moves

LEMMA DeliverDoes ==
  ASSUME TypeOK, NEW t \in Threads, pc[t] # "idle",
         NEW body \in {"partial", "torn", "whole", "nothing"}, Deliver(t, body)
  PROVE  RequestTypes' /\ job[t] \in Files /\ Moves(t, "idle", NoFile) /\ Tells(job[t], {})
  <1>1. job[t] \in Files
    BY DEF TypeOK
  <1>2. Tells(job[t], {})
    BY <1>1 DEF TypeOK, Deliver, Tells
  <1>3. /\ pc' \in [Threads -> Control] /\ job' \in [Threads -> Files \cup {NoFile}]
        /\ Moves(t, "idle", NoFile)
    BY DEF TypeOK, Deliver, Moves, Control
  <1>4. QED
    BY <1>1, <1>2, <1>3 DEF TypeOK, Deliver, RequestTypes, Moves

LEMMA AskingTells ==
  ASSUME TypeOK, NEW t \in Threads, NEW f \in Files, FindForDelete(t, f)
  PROVE  /\ told' \in [Files -> SUBSET {"uploaded", "deleting", "deleted"}]
         /\ Tells(f, {"deleting"})
  BY DEF TypeOK, FindForDelete, Tells

-----------------------------------------------------------------------------
(* Each step of a request, and each request that starts, keeps the         *)
(* invariant: types, uploads, deletes and rows, what clients were told.    *)
USE FileAssumption DEF FileInv, TypeOK, PlacesInv, tables, Moves, Tells, NewUntouched,
    OneUpload, UploadPlaces, DeletePlaces, WrittenFirst, Stored, Kept, Uploading, Deleting,
    DeletedGone, UploadedStays, DownloadIntact

LEMMA OpenFileKeeps ==
  ASSUME FileInv, NEW t \in Threads, OpenFile(t) PROVE FileInv'
  <1> USE DEF OpenFile
  <1>1. CASE disk' = [disk EXCEPT ![job[t]] = "partial"] /\ Go(t, "write")
    <2>1. RequestTypes' /\ job[t] \in Files /\ Moves(t, "write", job[t]) /\ Tells(job[t], {})
      BY <1>1, GoDoes DEF Control, Uploading, Deleting
    <2>2. TypeOK'
      BY <1>1, <2>1 DEF RequestTypes
    <2>3. \A f \in Files : disk'[f] = IF f = job[t] THEN "partial" ELSE disk[f]
      BY <1>1, <2>1
    <2>4. PlacesInv'
      BY <1>1, <2>1, <2>2, <2>3
    <2>5. DeletedGone' /\ UploadedStays' /\ DownloadIntact'
      BY <1>1, <2>1, <2>2, <2>3 DEF Go
    <2>6. QED
      BY <2>2, <2>4, <2>5
  <1>2. CASE End(t, {}) /\ UNCHANGED disk
    <2>1. RequestTypes' /\ job[t] \in Files /\ Moves(t, "idle", NoFile) /\ Tells(job[t], {})
      BY <1>2, EndDoes DEF Control
    <2>2. TypeOK'
      BY <1>2, <2>1 DEF RequestTypes
    <2>3. PlacesInv'
      BY <1>2, <2>1, <2>2
    <2>4. DeletedGone' /\ UploadedStays' /\ DownloadIntact'
      BY <1>2, <2>1, <2>2 DEF End
    <2>5. QED
      BY <2>2, <2>3, <2>4
  <1>3. QED
    BY <1>1, <1>2

LEMMA WriteFileKeeps ==
  ASSUME FileInv, NEW t \in Threads, WriteFile(t) PROVE FileInv'
  <1> USE DEF WriteFile
  <1>1. RequestTypes' /\ job[t] \in Files /\ Moves(t, "insert", job[t]) /\ Tells(job[t], {})
    BY GoDoes DEF Control, Uploading, Deleting
  <1>2. disk' \in [Files -> {"new", "partial", "torn", "whole", "absent"}]
    BY <1>1
  <1>3. TypeOK'
    BY <1>1, <1>2 DEF RequestTypes
  <1>4. \E content \in {"torn", "whole"} : \A f \in Files :
          disk'[f] = IF f = job[t] THEN content ELSE disk[f]
    BY <1>1, <1>2
  <1>5. PlacesInv'
    BY <1>1, <1>2, <1>3, <1>4
  <1>6. DeletedGone' /\ UploadedStays' /\ DownloadIntact'
    BY <1>1, <1>2, <1>3, <1>4 DEF Go
  <1>7. QED
    BY <1>3, <1>5, <1>6

LEMMA InsertRowKeeps ==
  ASSUME FileInv, NEW t \in Threads, InsertRow(t) PROVE FileInv'
  <1> USE DEF InsertRow
  <1>1. CASE listed' = listed \cup {job[t]} /\ Go(t, "charge")
    <2>1. RequestTypes' /\ job[t] \in Files /\ Moves(t, "charge", job[t]) /\ Tells(job[t], {})
      BY <1>1, GoDoes DEF Control, Uploading, Deleting
    <2>2. TypeOK'
      BY <1>1, <2>1 DEF RequestTypes
    <2>3. PlacesInv'
      BY <1>1, <2>1, <2>2
    <2>4. DeletedGone' /\ UploadedStays' /\ DownloadIntact'
      BY <1>1, <2>1, <2>2 DEF Go
    <2>5. QED
      BY <2>2, <2>3, <2>4
  <1>2. CASE Go(t, "discard") /\ listed' \in {listed, listed \cup {job[t]}}
    <2>1. RequestTypes' /\ job[t] \in Files /\ Moves(t, "discard", job[t]) /\ Tells(job[t], {})
      BY <1>2, GoDoes DEF Control, Uploading, Deleting
    <2>2. TypeOK'
      BY <1>2, <2>1 DEF RequestTypes
    <2>3. PlacesInv'
      BY <1>2, <2>1, <2>2
    <2>4. DeletedGone' /\ UploadedStays' /\ DownloadIntact'
      BY <1>2, <2>1, <2>2 DEF Go
    <2>5. QED
      BY <2>2, <2>3, <2>4
  <1>3. QED
    BY <1>1, <1>2

LEMMA ChargeKeeps ==
  ASSUME FileInv, NEW t \in Threads, Charge(t) PROVE FileInv'
  <1> USE DEF Charge
  <1>1. CASE used' = used + Size[job[t]] /\ End(t, {"uploaded"})
    <2>1. RequestTypes' /\ job[t] \in Files /\ Moves(t, "idle", NoFile)
            /\ Tells(job[t], {"uploaded"})
      BY <1>1, EndDoes DEF Control
    <2>2. TypeOK'
      BY <1>1, <2>1 DEF RequestTypes
    <2>3. PlacesInv'
      BY <1>1, <2>1, <2>2
    <2>4. DeletedGone' /\ UploadedStays' /\ DownloadIntact'
      BY <1>1, <2>1, <2>2 DEF End
    <2>5. QED
      BY <2>2, <2>3, <2>4
  <1>2. CASE Go(t, "rollback") /\ used' \in {used, used + Size[job[t]]}
    <2>1. RequestTypes' /\ job[t] \in Files /\ Moves(t, "rollback", job[t]) /\ Tells(job[t], {})
      BY <1>2, GoDoes DEF Control, Uploading, Deleting
    <2>2. TypeOK'
      BY <1>2, <2>1 DEF RequestTypes
    <2>3. PlacesInv'
      BY <1>2, <2>1, <2>2
    <2>4. DeletedGone' /\ UploadedStays' /\ DownloadIntact'
      BY <1>2, <2>1, <2>2 DEF Go
    <2>5. QED
      BY <2>2, <2>3, <2>4
  <1>3. QED
    BY <1>1, <1>2

LEMMA RollbackKeeps ==
  ASSUME FileInv, NEW t \in Threads, Rollback(t) PROVE FileInv'
  <1> USE DEF Rollback
  <1>1. CASE listed' = listed \ {job[t]} /\ share' = [share EXCEPT ![job[t]] = NoCode]
               /\ Go(t, "discard")
    <2>1. RequestTypes' /\ job[t] \in Files /\ Moves(t, "discard", job[t]) /\ Tells(job[t], {})
      BY <1>1, GoDoes DEF Control, Uploading, Deleting
    <2>2. TypeOK'
      BY <1>1, <2>1 DEF RequestTypes
    <2>3. \A f \in Files : share'[f] = IF f = job[t] THEN NoCode ELSE share[f]
      BY <1>1, <2>1
    <2>4. PlacesInv'
      BY <1>1, <2>1, <2>2, <2>3
    <2>5. DeletedGone' /\ UploadedStays' /\ DownloadIntact'
      BY <1>1, <2>1, <2>2, <2>3 DEF Go
    <2>6. QED
      BY <2>2, <2>4, <2>5
  <1>2. CASE Go(t, "discard") /\ UNCHANGED <<listed, share>>
    <2>1. RequestTypes' /\ job[t] \in Files /\ Moves(t, "discard", job[t]) /\ Tells(job[t], {})
      BY <1>2, GoDoes DEF Control, Uploading, Deleting
    <2>2. TypeOK'
      BY <1>2, <2>1 DEF RequestTypes
    <2>3. PlacesInv'
      BY <1>2, <2>1, <2>2
    <2>4. DeletedGone' /\ UploadedStays' /\ DownloadIntact'
      BY <1>2, <2>1, <2>2 DEF Go
    <2>5. QED
      BY <2>2, <2>3, <2>4
  <1>3. QED
    BY <1>1, <1>2

LEMMA DiscardKeeps ==
  ASSUME FileInv, NEW t \in Threads, Discard(t) PROVE FileInv'
  <1> USE DEF Discard
  <1>1. RequestTypes' /\ job[t] \in Files /\ Moves(t, "idle", NoFile) /\ Tells(job[t], {})
    BY EndDoes DEF Control
  <1>2. TypeOK'
    BY <1>1 DEF RequestTypes
  <1>3. \A f \in Files : disk'[f] = IF f = job[t] THEN "absent" ELSE disk[f]
    BY <1>1
  <1>4. PlacesInv'
    BY <1>1, <1>2, <1>3
  <1>5. DeletedGone' /\ UploadedStays' /\ DownloadIntact'
    BY <1>1, <1>2, <1>3 DEF End
  <1>6. QED
    BY <1>2, <1>4, <1>5

LEMMA UnlinkKeeps ==
  ASSUME FileInv, NEW t \in Threads, Unlink(t) PROVE FileInv'
  <1> USE DEF Unlink
  <1>1. RequestTypes' /\ job[t] \in Files /\ Moves(t, "deleteRow", job[t]) /\ Tells(job[t], {})
    BY GoDoes DEF Control, Uploading, Deleting
  <1>2. TypeOK'
    BY <1>1 DEF RequestTypes
  <1>3. \A f \in Files : disk'[f] = IF f = job[t] THEN "absent" ELSE disk[f]
    BY <1>1
  <1>4. PlacesInv'
    BY <1>1, <1>2, <1>3
  <1>5. DeletedGone' /\ UploadedStays' /\ DownloadIntact'
    BY <1>1, <1>2, <1>3 DEF Go
  <1>6. QED
    BY <1>2, <1>4, <1>5

LEMMA DeleteRowKeeps ==
  ASSUME FileInv, NEW t \in Threads, DeleteRow(t) PROVE FileInv'
  <1> USE DEF DeleteRow
  <1>1. CASE listed' = listed \ {job[t]} /\ share' = [share EXCEPT ![job[t]] = NoCode]
               /\ Go(t, "uncharge")
    <2>1. RequestTypes' /\ job[t] \in Files /\ Moves(t, "uncharge", job[t]) /\ Tells(job[t], {})
      BY <1>1, GoDoes DEF Control, Uploading, Deleting
    <2>2. TypeOK'
      BY <1>1, <2>1 DEF RequestTypes
    <2>3. \A f \in Files : share'[f] = IF f = job[t] THEN NoCode ELSE share[f]
      BY <1>1, <2>1
    <2>4. PlacesInv'
      BY <1>1, <2>1, <2>2, <2>3
    <2>5. DeletedGone' /\ UploadedStays' /\ DownloadIntact'
      BY <1>1, <2>1, <2>2, <2>3 DEF Go
    <2>6. QED
      BY <2>2, <2>4, <2>5
  <1>2. CASE End(t, {}) /\ UNCHANGED <<listed, share>>
    <2>1. RequestTypes' /\ job[t] \in Files /\ Moves(t, "idle", NoFile) /\ Tells(job[t], {})
      BY <1>2, EndDoes DEF Control
    <2>2. TypeOK'
      BY <1>2, <2>1 DEF RequestTypes
    <2>3. PlacesInv'
      BY <1>2, <2>1, <2>2
    <2>4. DeletedGone' /\ UploadedStays' /\ DownloadIntact'
      BY <1>2, <2>1, <2>2 DEF End
    <2>5. QED
      BY <2>2, <2>3, <2>4
  <1>3. CASE listed' = listed \ {job[t]} /\ share' = [share EXCEPT ![job[t]] = NoCode]
               /\ End(t, {})
    <2>1. RequestTypes' /\ job[t] \in Files /\ Moves(t, "idle", NoFile) /\ Tells(job[t], {})
      BY <1>3, EndDoes DEF Control
    <2>2. TypeOK'
      BY <1>3, <2>1 DEF RequestTypes
    <2>3. \A f \in Files : share'[f] = IF f = job[t] THEN NoCode ELSE share[f]
      BY <1>3, <2>1
    <2>4. PlacesInv'
      BY <1>3, <2>1, <2>2, <2>3
    <2>5. DeletedGone' /\ UploadedStays' /\ DownloadIntact'
      BY <1>3, <2>1, <2>2, <2>3 DEF End
    <2>6. QED
      BY <2>2, <2>4, <2>5
  <1>4. QED
    BY <1>1, <1>2, <1>3

LEMMA UnchargeKeeps ==
  ASSUME FileInv, NEW t \in Threads, Uncharge(t) PROVE FileInv'
  <1>1. pc[t] = "uncharge" /\ UNCHANGED <<listed, share, disk>> /\ used' \in Nat
    BY DEF Uncharge
  <1>2. CASE End(t, {"deleted"})
    <2>1. RequestTypes' /\ job[t] \in Files /\ Moves(t, "idle", NoFile)
            /\ Tells(job[t], {"deleted"})
      BY <1>1, <1>2, EndDoes DEF Control
    <2>2. TypeOK'
      BY <1>1, <2>1 DEF RequestTypes
    <2>3. PlacesInv'
      BY <1>1, <2>1, <2>2
    <2>4. DeletedGone' /\ UploadedStays' /\ DownloadIntact'
      BY <1>1, <1>2, <2>1, <2>2 DEF End
    <2>5. QED
      BY <2>2, <2>3, <2>4
  <1>3. CASE End(t, {})
    <2>1. RequestTypes' /\ job[t] \in Files /\ Moves(t, "idle", NoFile) /\ Tells(job[t], {})
      BY <1>1, <1>3, EndDoes DEF Control
    <2>2. TypeOK'
      BY <1>1, <2>1 DEF RequestTypes
    <2>3. PlacesInv'
      BY <1>1, <2>1, <2>2
    <2>4. DeletedGone' /\ UploadedStays' /\ DownloadIntact'
      BY <1>1, <1>3, <2>1, <2>2 DEF End
    <2>5. QED
      BY <2>2, <2>3, <2>4
  <1>4. QED
    BY <1>2, <1>3 DEF Uncharge

LEMMA ReadFileKeeps ==
  ASSUME FileInv, NEW t \in Threads, ReadFile(t) PROVE FileInv'
  <1> USE DEF ReadFile
  <1>1. CASE Readable(job[t]) /\ Deliver(t, disk[job[t]])
    <2>1. RequestTypes' /\ job[t] \in Files /\ Moves(t, "idle", NoFile) /\ Tells(job[t], {})
      BY <1>1, DeliverDoes DEF Readable, TypeOK
    <2>2. TypeOK'
      BY <1>1, <2>1 DEF RequestTypes
    <2>3. PlacesInv'
      BY <1>1, <2>1, <2>2
    <2>4. DeletedGone' /\ UploadedStays' /\ DownloadIntact'
      BY <1>1, <2>1, <2>2 DEF Deliver
    <2>5. QED
      BY <2>2, <2>3, <2>4
  <1>2. CASE End(t, {})
    <2>1. RequestTypes' /\ job[t] \in Files /\ Moves(t, "idle", NoFile) /\ Tells(job[t], {})
      BY <1>2, EndDoes DEF Control
    <2>2. TypeOK'
      BY <1>2, <2>1 DEF RequestTypes
    <2>3. PlacesInv'
      BY <1>2, <2>1, <2>2
    <2>4. DeletedGone' /\ UploadedStays' /\ DownloadIntact'
      BY <1>2, <2>1, <2>2 DEF End
    <2>5. QED
      BY <2>2, <2>3, <2>4
  <1>3. QED
    BY <1>1, <1>2

LEMMA CheckFileKeeps ==
  ASSUME FileInv, NEW t \in Threads, CheckFile(t) PROVE FileInv'
  <1> USE DEF CheckFile
  <1>1. CASE Go(t, "stream")
    <2>1. RequestTypes' /\ job[t] \in Files /\ Moves(t, "stream", job[t]) /\ Tells(job[t], {})
      BY <1>1, GoDoes DEF Control, Uploading, Deleting
    <2>2. TypeOK'
      BY <1>1, <2>1 DEF RequestTypes
    <2>3. PlacesInv'
      BY <1>1, <2>1, <2>2
    <2>4. DeletedGone' /\ UploadedStays' /\ DownloadIntact'
      BY <1>1, <2>1, <2>2 DEF Go
    <2>5. QED
      BY <2>2, <2>3, <2>4
  <1>2. CASE End(t, {})
    <2>1. RequestTypes' /\ job[t] \in Files /\ Moves(t, "idle", NoFile) /\ Tells(job[t], {})
      BY <1>2, EndDoes DEF Control
    <2>2. TypeOK'
      BY <1>2, <2>1 DEF RequestTypes
    <2>3. PlacesInv'
      BY <1>2, <2>1, <2>2
    <2>4. DeletedGone' /\ UploadedStays' /\ DownloadIntact'
      BY <1>2, <2>1, <2>2 DEF End
    <2>5. QED
      BY <2>2, <2>3, <2>4
  <1>3. QED
    BY <1>1, <1>2

LEMMA StreamFileKeeps ==
  ASSUME FileInv, NEW t \in Threads, StreamFile(t) PROVE FileInv'
  <1> USE DEF StreamFile
  <1>1. RequestTypes' /\ job[t] \in Files /\ Moves(t, "idle", NoFile) /\ Tells(job[t], {})
    BY DeliverDoes DEF Readable, TypeOK
  <1>2. TypeOK'
    BY <1>1 DEF RequestTypes
  <1>3. PlacesInv'
    BY <1>1, <1>2
  <1>4. DeletedGone' /\ UploadedStays' /\ DownloadIntact'
    BY <1>1, <1>2 DEF Deliver
  <1>5. QED
    BY <1>2, <1>3, <1>4

LEMMA CheckQuotaKeeps ==
  ASSUME FileInv, NEW t \in Threads, NEW f \in Files, CheckQuota(t, f) PROVE FileInv'
  <1> USE DEF CheckQuota
  <1>1. /\ pc' \in [Threads -> Control] /\ job' \in [Threads -> Files \cup {NoFile}]
        /\ \A s \in Threads : pc'[s] = "idle" <=> job'[s] = NoFile
        /\ pc[t] = "idle" /\ job[t] = NoFile /\ Moves(t, "open", f)
    BY StartDoes DEF Control
  <1>2. TypeOK' /\ Tells(f, {})
    BY <1>1
  <1>3. PlacesInv'
    BY <1>1, <1>2
  <1>4. DeletedGone' /\ UploadedStays' /\ DownloadIntact'
    BY <1>2
  <1>5. QED
    BY <1>2, <1>3, <1>4

LEMMA FindForDeleteKeeps ==
  ASSUME FileInv, NEW t \in Threads, NEW f \in Files, FindForDelete(t, f) PROVE FileInv'
  <1>1. /\ pc' \in [Threads -> Control] /\ job' \in [Threads -> Files \cup {NoFile}]
        /\ \A s \in Threads : pc'[s] = "idle" <=> job'[s] = NoFile
        /\ pc[t] = "idle" /\ job[t] = NoFile /\ Moves(t, "unlink", f)
    BY StartDoes DEF FindForDelete, Control
  <1>2. f \in listed /\ UNCHANGED <<listed, share, used, disk, bodies>>
    BY DEF FindForDelete
  <1>3. /\ told' \in [Files -> SUBSET {"uploaded", "deleting", "deleted"}]
        /\ Tells(f, {"deleting"})
    <2> HIDE DEF TypeOK, Tells
    <2>1. QED
      BY AskingTells
  <1>4. TypeOK'
    BY <1>1, <1>2, <1>3
  <1>5. PlacesInv'
    BY <1>1, <1>2, <1>3
  <1>6. DeletedGone' /\ UploadedStays' /\ DownloadIntact'
    BY <1>2, <1>3
  <1>7. QED
    BY <1>4, <1>5, <1>6

LEMMA FindForDownloadKeeps ==
  ASSUME FileInv, NEW t \in Threads, NEW f \in Files, FindForDownload(t, f) PROVE FileInv'
  <1> USE DEF FindForDownload
  <1>1. /\ pc' \in [Threads -> Control] /\ job' \in [Threads -> Files \cup {NoFile}]
        /\ \A s \in Threads : pc'[s] = "idle" <=> job'[s] = NoFile
        /\ pc[t] = "idle" /\ job[t] = NoFile /\ Moves(t, "read", f)
    BY StartDoes DEF Control
  <1>2. TypeOK' /\ Tells(f, {})
    BY <1>1
  <1>3. PlacesInv'
    BY <1>1, <1>2
  <1>4. DeletedGone' /\ UploadedStays' /\ DownloadIntact'
    BY <1>2
  <1>5. QED
    BY <1>2, <1>3, <1>4

LEMMA FindForStreamKeeps ==
  ASSUME FileInv, NEW t \in Threads, NEW f \in Files, FindForStream(t, f) PROVE FileInv'
  <1> USE DEF FindForStream
  <1>1. /\ pc' \in [Threads -> Control] /\ job' \in [Threads -> Files \cup {NoFile}]
        /\ \A s \in Threads : pc'[s] = "idle" <=> job'[s] = NoFile
        /\ pc[t] = "idle" /\ job[t] = NoFile /\ Moves(t, "check", f)
    BY StartDoes DEF Control
  <1>2. TypeOK' /\ Tells(f, {})
    BY <1>1
  <1>3. PlacesInv'
    BY <1>1, <1>2
  <1>4. DeletedGone' /\ UploadedStays' /\ DownloadIntact'
    BY <1>2
  <1>5. QED
    BY <1>2, <1>3, <1>4

LEMMA CreateShareCodeKeeps ==
  ASSUME FileInv, NEW f \in Files, NEW c \in Codes, CreateShareCode(f, c) PROVE FileInv'
  <1> USE DEF CreateShareCode
  <1>1. TypeOK' /\ \A g \in Files : share'[g] = IF g = f THEN c ELSE share[g]
    OBVIOUS
  <1>2. PlacesInv'
    BY <1>1
  <1>3. DeletedGone' /\ UploadedStays' /\ DownloadIntact'
    BY <1>1
  <1>4. QED
    BY <1>1, <1>2, <1>3

LEMMA CrashKeeps ==
  ASSUME FileInv, Crash PROVE FileInv'
  <1> USE DEF Crash
  <1>1. TypeOK' /\ \A t \in Threads : pc'[t] = "idle" /\ job'[t] = NoFile
    BY DEF Control
  <1>2. PlacesInv'
    BY <1>1
  <1>3. DeletedGone' /\ UploadedStays' /\ DownloadIntact'
    OBVIOUS
  <1>4. QED
    BY <1>1, <1>2, <1>3

(* The invariant that the theorems about single files rest on is inductive.*)
THEOREM FileInvInductive ==
  /\ Init => FileInv
  /\ FileInv /\ [Next]_vars => FileInv'
  <1>1. Init => FileInv
    BY DEF Init, Control
  <1>2. ASSUME FileInv, [Next]_vars PROVE FileInv'
    <2>1. ASSUME NEW t \in Threads, Step(t) PROVE FileInv'
      BY <1>2, <2>1, OpenFileKeeps, WriteFileKeeps, InsertRowKeeps, ChargeKeeps, RollbackKeeps,
         DiscardKeeps, UnlinkKeeps, DeleteRowKeeps, UnchargeKeeps, ReadFileKeeps,
         CheckFileKeeps, StreamFileKeeps DEF Step
    <2>2. ASSUME NEW t \in Threads, NEW f \in Files, Request(t, f) PROVE FileInv'
      BY <1>2, <2>2, CheckQuotaKeeps, FindForDeleteKeeps, FindForDownloadKeeps,
         FindForStreamKeeps DEF Request
    <2>3. ASSUME NEW t \in Threads, NEW c \in Codes, FindShared(t, c) PROVE FileInv'
      BY <1>2, <2>3, FindForStreamKeeps DEF FindShared
    <2>4. CASE UNCHANGED vars
      BY <1>2, <2>4 DEF vars
    <2>5. QED
      BY <1>2, <2>1, <2>2, <2>3, <2>4, CreateShareCodeKeeps, CrashKeeps DEF Next
  <1>3. QED
    BY <1>1, <1>2

HIDE FileAssumption DEF FileInv, TypeOK, PlacesInv, tables, Moves, Tells, NewUntouched,
    OneUpload, UploadPlaces, DeletePlaces, WrittenFirst, Stored, Kept, Uploading, Deleting,
    DeletedGone, UploadedStays, DownloadIntact

LEMMA FileInvHolds == Spec => []FileInv
  BY FileInvInductive, PTL DEF Spec
-----------------------------------------------------------------------------
(* Rows, disk and requests have their types; a request is about one file.  *)
THEOREM TypeCorrect == Spec => []TypeOK
  BY FileInvHolds, PTL DEF FileInv

(* After "File deleted" neither row, share code nor content comes back,    *)
(* under all faults, whatever uploads, shares and deletes were in flight.  *)
THEOREM DeletesFinal == Spec => []DeletedGone
  BY FileInvHolds, PTL DEF FileInv

(* After "Upload success" the file stays until somebody asks to delete it, *)
(* although each upload may still roll its row back by hand.               *)
THEOREM UploadsStay == Spec => []UploadedStays
  BY FileInvHolds, PTL DEF FileInv

(* No download with status 200 gives a file that is still being written:   *)
(* a row is inserted only when the writing is over.                        *)
THEOREM DownloadsIntact == Spec => []DownloadIntact
  BY FileInvHolds, PTL DEF FileInv

-----------------------------------------------------------------------------
(* The sum of the uploads under way, and what one thread's move does to it.*)
LEMMA UnderwayFinite ==
  ASSUME TypeOK
  PROVE  /\ IsFiniteSet(Underway) /\ Underway \subseteq Threads
         /\ \A t \in Underway : Size[job[t]] \in Nat \ {0}
         /\ InFlight \in Nat
  <1>1. IsFiniteSet(Underway) /\ Underway \subseteq Threads
    BY ThreadsAssumption, FS_Subset DEF Underway
  <1>2. \A t \in Underway : Size[job[t]] \in Nat \ {0}
    BY FileAssumption DEF TypeOK, Underway, Uploading, Uncharged
  <1>3. QED
    BY <1>1, <1>2, SumNat DEF InFlight

LEMMA UploadEntersSum ==
  ASSUME TypeOK, TypeOK', NEW t \in Threads, pc[t] \notin Uncharged,
         NEW next \in Uncharged, NEW file, Moves(t, next, file)
  PROVE  /\ t \notin Underway /\ Underway' = Underway \cup {t}
         /\ InFlight' = Size[file] + InFlight
  <1>1. t \notin Underway /\ Underway' = Underway \cup {t} /\ job'[t] = file
    BY DEF Underway, Moves
  <1>2. /\ IsFiniteSet(Underway) /\ \A s \in Underway : Size[job[s]] \in Nat
        /\ \A s \in Underway : Size[job'[s]] = Size[job[s]]
    BY <1>1, UnderwayFinite DEF Moves, Underway
  <1>3. Size[job'[t]] \in Nat
    BY <1>1, FileAssumption DEF TypeOK, Moves, Uploading, Uncharged
  <1>4. QED
    BY <1>1, <1>2, <1>3, SumAdd DEF InFlight

LEMMA UploadLeavesSum ==
  ASSUME TypeOK, TypeOK', NEW t \in Threads, pc[t] \in Uncharged,
         NEW next \in Control \ Uncharged, NEW file, Moves(t, next, file)
  PROVE  InFlight = Size[job[t]] + InFlight' /\ InFlight' \in Nat
  <1>1. t \notin Underway' /\ Underway = Underway' \cup {t}
    BY DEF Underway, Moves
  <1>2. /\ IsFiniteSet(Underway') /\ \A s \in Underway' : Size[job'[s]] \in Nat
        /\ \A s \in Underway' : Size[job'[s]] = Size[job[s]]
    <2>1. IsFiniteSet(Underway) /\ \A s \in Underway : Size[job[s]] \in Nat
      BY UnderwayFinite
    <2>2. IsFiniteSet(Underway')
      BY <2>1, <1>1, FS_Subset
    <2>3. \A s \in Underway' : s \in Underway /\ job'[s] = job[s]
      BY <1>1 DEF Moves, Underway
    <2>4. QED
      BY <2>1, <2>2, <2>3
  <1>3. Size[job[t]] \in Nat
    BY FileAssumption DEF TypeOK, Uploading, Uncharged
  <1>4. QED
    BY <1>1, <1>2, <1>3, SumAdd DEF InFlight

LEMMA SumUnmoved ==
  ASSUME Underway' = Underway, \A t \in Underway : job'[t] = job[t]
  PROVE  InFlight' = InFlight
  <1>1. [t \in Underway |-> Size[job[t]]] = [t \in Underway' |-> Size[job'[t]]]
    OBVIOUS
  <1>2. QED
    BY <1>1 DEF InFlight

LEMMA SumsInOrder ==
  /\ \A a, b, c \in Nat : a <= b => a + c <= b + c
  /\ \A a, b, c, d \in Nat, e \in Int : a + b <= c + d /\ c + d <= e => a + b <= e
  OBVIOUS

(* A step of one thread that starts no upload, and charges at most for one *)
(* that it ends.                                                           *)
ChargesOwn(t, next) ==
  \/ used' <= used
  \/ pc[t] \in Uncharged /\ next \notin Uncharged /\ used' <= used + Size[job[t]]

LEMMA QuotaByMove ==
  ASSUME TypeOK, TypeOK', QuotaInv,
         NEW t \in Threads, NEW next \in Control, NEW file, Moves(t, next, file),
         next \in Uncharged => pc[t] \in Uncharged /\ file = job[t],
         ChargesOwn(t, next)
  PROVE  QuotaInv'
  <1>1. used \in Nat /\ used' \in Nat /\ InFlight \in Nat
    BY UnderwayFinite DEF TypeOK
  <1>2. InFlight' \in Nat /\ used' + InFlight' <= used + InFlight
    <2>1. CASE pc[t] \in Uncharged /\ next \notin Uncharged
      <3>1. InFlight = Size[job[t]] + InFlight' /\ InFlight' \in Nat
        BY <2>1, UploadLeavesSum
      <3>2. Size[job[t]] \in Nat
        BY <2>1, FileAssumption DEF TypeOK, Uploading, Uncharged
      <3>3. used' <= used \/ used' <= used + Size[job[t]]
        BY DEF ChargesOwn
      <3>4. QED
        BY <1>1, <3>1, <3>2, <3>3
    <2>2. CASE ~(pc[t] \in Uncharged /\ next \notin Uncharged)
      <3>1. Underway' = Underway /\ \A s \in Underway : job'[s] = job[s]
        BY <2>2 DEF Underway, Moves
      <3>2. InFlight' = InFlight
        BY <3>1, SumUnmoved
      <3>3. used' <= used
        BY <2>2 DEF ChargesOwn
      <3>4. QED
        BY <1>1, <3>2, <3>3, SumsInOrder, Zenon
    <2>3. QED
      BY <2>1, <2>2
  <1>3. ASSUME NEW f \in Files, Largest(f)
        PROVE  used' + InFlight' <= Limit + (Cardinality(Threads) - 1) * Size[f]
    <2> DEFINE bound == Limit + (Cardinality(Threads) - 1) * Size[f]
    <2>1. bound \in Int
      BY FileAssumption, ThreadsAssumption, FS_CardinalityType
    <2>2. used + InFlight <= bound
      BY <1>3 DEF QuotaInv
    <2> HIDE DEF bound
    <2>3. used' + InFlight' <= bound
      BY <1>1, <1>2, <2>1, <2>2, SumsInOrder, Zenon
    <2>4. QED
      BY <2>3 DEF bound
  <1>4. QED
    BY <1>3 DEF QuotaInv, Largest

(* The check of the quota: what the other threads have under way is bounded*)
(* by the largest file for each of them.                                   *)
LEMMA OthersBounded ==
  ASSUME TypeOK, NEW t \in Threads, t \notin Underway, NEW f \in Files, Largest(f)
  PROVE  InFlight <= (Cardinality(Threads) - 1) * Size[f]
  <1> DEFINE n == Cardinality(Underway)
             m == Cardinality(Threads) - 1
             sizes == [s \in Underway |-> Size[job[s]]]
  <1>1. /\ IsFiniteSet(Underway) /\ Underway \subseteq Threads \ {t}
        /\ Size[f] \in Nat /\ InFlight \in Nat
    BY UnderwayFinite, FileAssumption
  <1>2. n \in Nat /\ m \in Nat /\ n <= m
    <2>1. /\ IsFiniteSet(Threads \ {t})
          /\ Cardinality(Threads \ {t}) = m
      BY ThreadsAssumption, FS_RemoveElement
    <2>2. QED
      BY <1>1, <2>1, FS_Subset, FS_CardinalityType
  <1>3. InFlight <= n * Size[f]
    <2>1. \A s \in Underway : Size[job[s]] \in 0 .. Size[f]
      BY FileAssumption DEF TypeOK, Underway, Uploading, Uncharged, Largest
    <2>2. DOMAIN sizes = Underway /\ \A s \in DOMAIN sizes : sizes[s] \in 0 .. Size[f]
      BY <2>1
    <2>3. SumFunction(sizes) <= Cardinality(DOMAIN sizes) * Size[f]
      BY <1>1, <2>2, SumBounded
    <2>4. QED
      BY <2>2, <2>3 DEF InFlight
  <1>4. n * Size[f] <= m * Size[f] /\ n * Size[f] \in Nat /\ m * Size[f] \in Nat
    <2> HIDE DEF n, m
    <2>1. m * Size[f] = n * Size[f] + (m - n) * Size[f]
      BY <1>1, <1>2
    <2>2. (m - n) * Size[f] \in Nat /\ n * Size[f] \in Nat /\ m * Size[f] \in Nat
      BY <1>1, <1>2
    <2>3. QED
      BY <2>1, <2>2
  <1>5. QED
    BY <1>1, <1>3, <1>4

LEMMA QuotaChecked ==
  ASSUME TypeOK, TypeOK', NEW t \in Threads, NEW f \in Files, CheckQuota(t, f)
  PROVE  QuotaInv'
  <1>1. pc[t] = "idle" /\ Moves(t, "open", f) /\ used' = used
    BY StartDoes DEF CheckQuota, Control, Uploading, Uncharged, tables
  <1>2. t \notin Underway /\ InFlight' = Size[f] + InFlight
    BY <1>1, UploadEntersSum DEF Uploading, Uncharged
  <1>3. used \in Nat /\ InFlight \in Nat /\ Size[f] \in Nat /\ Limit \in Nat
    BY FileAssumption, UnderwayFinite DEF TypeOK
  <1>4. ASSUME NEW g \in Files, Largest(g)
        PROVE  used' + InFlight' <= Limit + (Cardinality(Threads) - 1) * Size[g]
    <2>1. InFlight <= (Cardinality(Threads) - 1) * Size[g]
      BY <1>2, <1>4, OthersBounded
    <2>2. (Cardinality(Threads) - 1) * Size[g] \in Int
      BY FileAssumption, ThreadsAssumption, FS_CardinalityType
    <2>3. used + Size[f] <= Limit
      BY DEF CheckQuota
    <2>4. QED
      BY <1>1, <1>2, <1>3, <2>1, <2>2, <2>3
  <1>5. QED
    BY <1>4 DEF QuotaInv, Largest

(* A crash forgets the uploads under way.                                  *)
LEMMA QuotaAfterCrash ==
  ASSUME TypeOK, TypeOK', QuotaInv, Crash PROVE QuotaInv'
  <1>1. Underway' = {}
    BY DEF Crash, Underway, Uploading, Uncharged
  <1>2. InFlight' = 0
    BY <1>1, SumEmpty DEF InFlight
  <1>3. used' = used /\ used \in Nat /\ InFlight \in Nat
    BY UnderwayFinite DEF Crash, tables, TypeOK
  <1>4. Limit \in Nat /\ \A f \in Files : (Cardinality(Threads) - 1) * Size[f] \in Int
    BY FileAssumption, ThreadsAssumption, FS_CardinalityType
  <1>5. QED
    BY <1>2, <1>3, <1>4 DEF QuotaInv, Largest

LEMMA QuotaStep ==
  ASSUME TypeOK, TypeOK', QuotaInv, [Next]_vars PROVE QuotaInv'
  <1> USE FileAssumption DEF Control, Uploading, Uncharged, Deleting, TypeOK, tables, ChargesOwn
  <1>1. ASSUME NEW t \in Threads, OpenFile(t) PROVE QuotaInv'
    BY <1>1, GoDoes, EndDoes, QuotaByMove DEF OpenFile
  <1>2. ASSUME NEW t \in Threads, WriteFile(t) PROVE QuotaInv'
    BY <1>2, GoDoes, QuotaByMove DEF WriteFile
  <1>3. ASSUME NEW t \in Threads, InsertRow(t) PROVE QuotaInv'
    BY <1>3, GoDoes, QuotaByMove DEF InsertRow
  <1>4. ASSUME NEW t \in Threads, Charge(t) PROVE QuotaInv'
    BY <1>4, EndDoes, GoDoes, QuotaByMove DEF Charge
  <1>5. ASSUME NEW t \in Threads, Rollback(t) PROVE QuotaInv'
    BY <1>5, GoDoes, QuotaByMove DEF Rollback
  <1>6. ASSUME NEW t \in Threads, Discard(t) PROVE QuotaInv'
    BY <1>6, EndDoes, QuotaByMove DEF Discard
  <1>7. ASSUME NEW t \in Threads, Unlink(t) PROVE QuotaInv'
    BY <1>7, GoDoes, QuotaByMove DEF Unlink
  <1>8. ASSUME NEW t \in Threads, DeleteRow(t) PROVE QuotaInv'
    BY <1>8, GoDoes, EndDoes, QuotaByMove DEF DeleteRow
  <1>9. ASSUME NEW t \in Threads, Uncharge(t) PROVE QuotaInv'
    BY <1>9, EndDoes, QuotaByMove DEF Uncharge
  <1>10. ASSUME NEW t \in Threads, ReadFile(t) PROVE QuotaInv'
    BY <1>10, DeliverDoes, EndDoes, QuotaByMove DEF ReadFile, Readable
  <1>11. ASSUME NEW t \in Threads, CheckFile(t) PROVE QuotaInv'
    BY <1>11, GoDoes, EndDoes, QuotaByMove DEF CheckFile
  <1>12. ASSUME NEW t \in Threads, StreamFile(t) PROVE QuotaInv'
    BY <1>12, DeliverDoes, QuotaByMove DEF StreamFile, Readable
  <1>13. ASSUME NEW t \in Threads, NEW f \in Files, FindForDelete(t, f) PROVE QuotaInv'
    BY <1>13, StartDoes, QuotaByMove DEF FindForDelete
  <1>14. ASSUME NEW t \in Threads, NEW f \in Files, FindForDownload(t, f) PROVE QuotaInv'
    BY <1>14, StartDoes, QuotaByMove DEF FindForDownload
  <1>15. ASSUME NEW t \in Threads, NEW f \in Files, FindForStream(t, f) PROVE QuotaInv'
    BY <1>15, StartDoes, QuotaByMove DEF FindForStream
  <1>16. ASSUME NEW t \in Threads, NEW c \in Codes, FindShared(t, c) PROVE QuotaInv'
    BY <1>15, <1>16 DEF FindShared
  <1>17. ASSUME UNCHANGED <<used, pc, job>> PROVE QuotaInv'
    <2>1. Underway' = Underway /\ \A t \in Underway : job'[t] = job[t]
      BY <1>17 DEF Underway
    <2>2. InFlight' = InFlight
      BY <2>1, SumUnmoved
    <2>3. QED
      BY <1>17, <2>2 DEF QuotaInv, Largest
  <1>18. QED
    BY <1>1, <1>2, <1>3, <1>4, <1>5, <1>6, <1>7, <1>8, <1>9, <1>10, <1>11, <1>12,
       <1>13, <1>14, <1>15, <1>16, <1>17, QuotaChecked, QuotaAfterCrash
    DEF Next, Step, Request, CreateShareCode, vars

(* The quota is exceeded by at most one largest file for each other thread.*)
THEOREM QuotaBounded == Spec => []OverrunBounded
  <1>1. Init => QuotaInv
    <2>1. ASSUME Init PROVE Underway = {} /\ used = 0
      BY <2>1 DEF Init, Underway, Uploading, Uncharged
    <2>2. ASSUME Init PROVE InFlight = 0
      BY <2>1, <2>2, SumEmpty DEF InFlight
    <2>3. ASSUME NEW f \in Files PROVE Limit + (Cardinality(Threads) - 1) * Size[f] \in Nat
      <3>1. Cardinality(Threads) - 1 \in Nat
        BY ThreadsAssumption, FS_EmptySet, FS_CardinalityType
      <3>2. QED
        BY <3>1, FileAssumption
    <2>4. QED
      BY <2>1, <2>2, <2>3 DEF QuotaInv
  <1>2. TypeOK /\ QuotaInv /\ TypeOK' /\ [Next]_vars => QuotaInv'
    BY QuotaStep
  <1>3. TypeOK /\ QuotaInv => OverrunBounded
    <2>1. ASSUME TypeOK, QuotaInv, NEW f \in Files, Largest(f)
          PROVE  used <= Limit + (Cardinality(Threads) - 1) * Size[f]
      <3>1. used \in Nat /\ InFlight \in Nat
        BY <2>1, UnderwayFinite DEF TypeOK
      <3>2. Limit \in Nat /\ (Cardinality(Threads) - 1) * Size[f] \in Int
        BY FileAssumption, ThreadsAssumption, FS_CardinalityType
      <3>3. used + InFlight <= Limit + (Cardinality(Threads) - 1) * Size[f]
        BY <2>1 DEF QuotaInv
      <3>4. QED
        BY <3>1, <3>2, <3>3
    <2>2. QED
      BY <2>1 DEF OverrunBounded
  <1>4. QED
    BY <1>1, <1>2, <1>3, TypeCorrect, PTL DEF Spec
-----------------------------------------------------------------------------
(* No statement fails and nothing crashes; the disk may fail.              *)
Calm == Faults \subseteq {"disk"}

LEMMA CalmStep ==
  ASSUME Calm, FileInv, NoUndo, GoneRows, [Next]_vars PROVE NoUndo' /\ GoneRows'
  <1> USE FileAssumption DEF Calm, FileInv, TypeOK, PlacesInv, UploadPlaces, Control, Uploading,
             Deleting, tables, Moves, NoUndo, GoneRows
  <1>1. ASSUME NEW t \in Threads, OpenFile(t) PROVE NoUndo' /\ GoneRows'
    BY <1>1, GoDoes, EndDoes DEF OpenFile
  <1>2. ASSUME NEW t \in Threads, WriteFile(t) PROVE NoUndo' /\ GoneRows'
    BY <1>2, GoDoes DEF WriteFile
  <1>3. ASSUME NEW t \in Threads, InsertRow(t) PROVE NoUndo' /\ GoneRows'
    BY <1>3, GoDoes DEF InsertRow
  <1>4. ASSUME NEW t \in Threads, Charge(t) PROVE NoUndo' /\ GoneRows'
    BY <1>4, EndDoes DEF Charge
  <1>5. ASSUME NEW t \in Threads, Rollback(t) PROVE NoUndo' /\ GoneRows'
    BY <1>5 DEF Rollback
  <1>6. ASSUME NEW t \in Threads, Discard(t) PROVE NoUndo' /\ GoneRows'
    BY <1>6 DEF Discard
  <1>7. ASSUME NEW t \in Threads, Unlink(t) PROVE NoUndo' /\ GoneRows'
    BY <1>7, GoDoes DEF Unlink
  <1>8. ASSUME NEW t \in Threads, DeleteRow(t) PROVE NoUndo' /\ GoneRows'
    BY <1>8, GoDoes DEF DeleteRow
  <1>9. ASSUME NEW t \in Threads, Uncharge(t) PROVE NoUndo' /\ GoneRows'
    BY <1>9, EndDoes DEF Uncharge
  <1>10. ASSUME NEW t \in Threads, ReadFile(t) PROVE NoUndo' /\ GoneRows'
    BY <1>10, DeliverDoes, EndDoes DEF ReadFile, Readable
  <1>11. ASSUME NEW t \in Threads, CheckFile(t) PROVE NoUndo' /\ GoneRows'
    BY <1>11, GoDoes, EndDoes DEF CheckFile
  <1>12. ASSUME NEW t \in Threads, StreamFile(t) PROVE NoUndo' /\ GoneRows'
    BY <1>12, DeliverDoes DEF StreamFile, Readable
  <1>13. ASSUME NEW t \in Threads, NEW f \in Files, CheckQuota(t, f) PROVE NoUndo' /\ GoneRows'
    BY <1>13, StartDoes DEF CheckQuota
  <1>14. ASSUME NEW t \in Threads, NEW f \in Files, FindForDelete(t, f) PROVE NoUndo' /\ GoneRows'
    BY <1>14, StartDoes DEF FindForDelete
  <1>15. ASSUME NEW t \in Threads, NEW f \in Files, FindForDownload(t, f) PROVE NoUndo' /\ GoneRows'
    BY <1>15, StartDoes DEF FindForDownload
  <1>16. ASSUME NEW t \in Threads, NEW f \in Files, FindForStream(t, f) PROVE NoUndo' /\ GoneRows'
    BY <1>16, StartDoes DEF FindForStream
  <1>17. ASSUME NEW t \in Threads, NEW c \in Codes, FindShared(t, c) PROVE NoUndo' /\ GoneRows'
    BY <1>16, <1>17 DEF FindShared
  <1>18. ASSUME UNCHANGED <<listed, disk, pc, job>> PROVE NoUndo' /\ GoneRows'
    BY <1>18
  <1>19. QED
    BY <1>1, <1>2, <1>3, <1>4, <1>5, <1>6, <1>7, <1>8, <1>9, <1>10, <1>11, <1>12, <1>13, <1>14,
       <1>15, <1>16, <1>17, <1>18
    DEF Next, Step, Request, CreateShareCode, Crash, vars

(* Without failing statements and crashes, a row without its file belongs  *)
(* to a delete that is still running, regular or not.                      *)
THEOREM RowsOnDisk ==
  ASSUME Calm PROVE Spec => []ListedOnDisk
  <1>1. Init => NoUndo /\ GoneRows
    BY DEF Init, NoUndo, GoneRows
  <1>2. Calm /\ FileInv /\ NoUndo /\ GoneRows /\ [Next]_vars => NoUndo' /\ GoneRows'
    BY CalmStep
  <1>3. FileInv /\ NoUndo /\ GoneRows => ListedOnDisk
    BY DEF FileInv, TypeOK, PlacesInv, WrittenFirst, Stored, GoneRows, ListedOnDisk, Busy, Deleting
  <1>4. QED
    BY <1>1, <1>2, <1>3, FileInvHolds, PTL DEF Spec
-----------------------------------------------------------------------------
(* With regular clients besides: a file is deleted once, after its upload. *)
Regular == Calm /\ Irregular = {}

LEMMA RegularStep ==
  ASSUME Regular, FileInv, NoUndo, DeleteAlone, RowsInPlace, [Next]_vars
  PROVE  DeleteAlone' /\ RowsInPlace'
  <1> USE FileAssumption DEF Regular, Calm, FileInv, TypeOK, PlacesInv, Control, Uploading,
      Deleting,
             tables, Moves, NoUndo, DeleteAlone, RowsInPlace
  <1>1. ASSUME NEW t \in Threads, OpenFile(t) PROVE DeleteAlone' /\ RowsInPlace'
    BY <1>1, GoDoes, EndDoes DEF OpenFile, OneUpload
  <1>2. ASSUME NEW t \in Threads, WriteFile(t) PROVE DeleteAlone' /\ RowsInPlace'
    BY <1>2, GoDoes DEF WriteFile, OneUpload
  <1>3. ASSUME NEW t \in Threads, InsertRow(t) PROVE DeleteAlone' /\ RowsInPlace'
    BY <1>3, GoDoes DEF InsertRow, OneUpload
  <1>4. ASSUME NEW t \in Threads, Charge(t) PROVE DeleteAlone' /\ RowsInPlace'
    BY <1>4, EndDoes DEF Charge, OneUpload
  <1>5. ASSUME NEW t \in Threads, Rollback(t) PROVE DeleteAlone' /\ RowsInPlace'
    BY <1>5 DEF Rollback, OneUpload
  <1>6. ASSUME NEW t \in Threads, Discard(t) PROVE DeleteAlone' /\ RowsInPlace'
    BY <1>6 DEF Discard, OneUpload
  <1>7. ASSUME NEW t \in Threads, Unlink(t) PROVE DeleteAlone' /\ RowsInPlace'
    BY <1>7, GoDoes DEF Unlink, OneUpload
  <1>8. ASSUME NEW t \in Threads, DeleteRow(t) PROVE DeleteAlone' /\ RowsInPlace'
    BY <1>8, GoDoes DEF DeleteRow, OneUpload
  <1>9. ASSUME NEW t \in Threads, Uncharge(t) PROVE DeleteAlone' /\ RowsInPlace'
    BY <1>9, EndDoes DEF Uncharge, OneUpload
  <1>10. ASSUME NEW t \in Threads, ReadFile(t) PROVE DeleteAlone' /\ RowsInPlace'
    BY <1>10, DeliverDoes, EndDoes DEF ReadFile, Readable, OneUpload
  <1>11. ASSUME NEW t \in Threads, CheckFile(t) PROVE DeleteAlone' /\ RowsInPlace'
    BY <1>11, GoDoes, EndDoes DEF CheckFile, OneUpload
  <1>12. ASSUME NEW t \in Threads, StreamFile(t) PROVE DeleteAlone' /\ RowsInPlace'
    BY <1>12, DeliverDoes DEF StreamFile, Readable, OneUpload
  <1>13. ASSUME NEW t \in Threads, NEW f \in Files, CheckQuota(t, f)
         PROVE  DeleteAlone' /\ RowsInPlace'
    BY <1>13, StartDoes DEF CheckQuota, Busy
  <1>14. ASSUME NEW t \in Threads, NEW f \in Files, FindForDelete(t, f)
         PROVE  DeleteAlone' /\ RowsInPlace'
    BY <1>14, StartDoes DEF FindForDelete, Busy
  <1>15. ASSUME NEW t \in Threads, NEW f \in Files, FindForDownload(t, f)
         PROVE  DeleteAlone' /\ RowsInPlace'
    BY <1>15, StartDoes DEF FindForDownload, Busy
  <1>16. ASSUME NEW t \in Threads, NEW f \in Files, FindForStream(t, f)
         PROVE  DeleteAlone' /\ RowsInPlace'
    BY <1>16, StartDoes DEF FindForStream, Busy
  <1>17. ASSUME NEW t \in Threads, NEW c \in Codes, FindShared(t, c)
         PROVE  DeleteAlone' /\ RowsInPlace'
    BY <1>16, <1>17 DEF FindShared
  <1>18. ASSUME UNCHANGED <<listed, pc, job>> PROVE DeleteAlone' /\ RowsInPlace'
    BY <1>18
  <1>19. QED
    BY <1>1, <1>2, <1>3, <1>4, <1>5, <1>6, <1>7, <1>8, <1>9, <1>10, <1>11, <1>12, <1>13, <1>14,
       <1>15, <1>16, <1>17, <1>18
    DEF Next, Step, Request, CreateShareCode, Crash, vars

(* What one thread's move does to the files that requests handle.          *)
Others(t, place) == {job[s] : s \in {r \in Threads \ {t} : pc[r] = place}}

LEMMA HandledMoves ==
  ASSUME TypeOK, NEW t \in Threads, NEW next, NEW file, Moves(t, next, file)
  PROVE  \A place \in {"charge", "uncharge"} :
           /\ Handled(place) = Others(t, place) \cup (IF pc[t] = place THEN {job[t]} ELSE {})
           /\ Handled(place)' = Others(t, place) \cup (IF next = place THEN {file} ELSE {})
  BY DEF Handled, Moves, Others

LEMMA SizesOf ==
  ASSUME NEW S \in SUBSET Files, IsFiniteSet(S), NEW f \in Files \ S
  PROVE  SizeOf(S \cup {f}) = Size[f] + SizeOf(S) /\ SizeOf(S) \in Nat
  <1> DEFINE g == [x \in S |-> Size[x]]
             h == [x \in S \cup {f} |-> Size[x]]
  <1>1. /\ DOMAIN g = S /\ DOMAIN h = DOMAIN g \cup {f}
        /\ \A x \in S : g[x] \in Nat /\ h[x] = g[x]
        /\ h[f] = Size[f] /\ h[f] \in Nat
    BY FileAssumption
  <1> HIDE DEF g, h
  <1>2. SumFunction(h) = h[f] + SumFunction(g) /\ SumFunction(g) \in Nat
    BY <1>1, SumAdd
  <1>3. SizeOf(S \cup {f}) = SumFunction(h) /\ SizeOf(S) = SumFunction(g)
    BY DEF SizeOf, g, h
  <1>4. QED
    BY <1>1, <1>2, <1>3

StorageInv == IsFiniteSet(Charged) /\ StorageExact
RegularInv == FileInv /\ NoUndo /\ DeleteAlone /\ RowsInPlace

LEMMA StorageUnmoved ==
  ASSUME StorageInv, Charged' = Charged, used' = used PROVE StorageInv'
  BY DEF StorageInv, StorageExact, SizeOf

(* A move of a thread that neither comes to its charge nor leaves it.      *)
LEMMA StorageByMove ==
  ASSUME TypeOK, StorageInv, NEW t \in Threads, NEW next \in Control, NEW file,
         Moves(t, next, file),
         {pc[t], next} \cap {"charge", "uncharge"} = {}, UNCHANGED <<listed, used>>
  PROVE  StorageInv'
  <1>1. Handled("charge")' = Handled("charge") /\ Handled("uncharge")' = Handled("uncharge")
    BY HandledMoves
  <1>2. QED
    BY <1>1, StorageUnmoved DEF Charged

LEMMA StorageInsertRow ==
  ASSUME Regular, RegularInv, StorageInv, NEW t \in Threads, InsertRow(t) PROVE StorageInv'
  <1>1. pc[t] = "insert" /\ listed' = listed \cup {job[t]} /\ Moves(t, "charge", job[t])
          /\ job[t] \notin listed
    BY GoDoes DEF InsertRow, Regular, Calm, RegularInv, FileInv, Control, Uploading, PlacesInv,
       UploadPlaces
  <1>2. /\ Handled("charge")' = Handled("charge") \cup {job[t]}
        /\ Handled("uncharge")' = Handled("uncharge")
    BY <1>1, HandledMoves DEF RegularInv, FileInv
  <1>3. Charged' = Charged /\ used' = used
    BY <1>1, <1>2 DEF Charged, InsertRow
  <1>4. QED
    BY <1>3, StorageUnmoved

LEMMA StorageDeleteRow ==
  ASSUME Regular, RegularInv, StorageInv, NEW t \in Threads, DeleteRow(t) PROVE StorageInv'
  <1>1. /\ pc[t] = "deleteRow" /\ listed' = listed \ {job[t]} /\ Moves(t, "uncharge", job[t])
        /\ job[t] \in listed
    BY GoDoes DEF DeleteRow, Regular, Calm, RegularInv, FileInv, Control, Deleting, RowsInPlace
  <1>2. /\ Handled("charge")' = Handled("charge")
        /\ Handled("uncharge")' = Handled("uncharge") \cup {job[t]}
    BY <1>1, HandledMoves DEF RegularInv, FileInv
  <1>3. job[t] \notin Handled("charge")
    BY <1>1 DEF Handled, RegularInv, DeleteAlone, Uploading, Deleting
  <1>4. Charged' = Charged /\ used' = used
    BY <1>1, <1>2, <1>3 DEF Charged, DeleteRow
  <1>5. QED
    BY <1>4, StorageUnmoved

LEMMA StorageCharge ==
  ASSUME Regular, RegularInv, StorageInv, NEW t \in Threads, Charge(t) PROVE StorageInv'
  <1>1. /\ pc[t] = "charge" /\ used' = used + Size[job[t]] /\ listed' = listed
        /\ Moves(t, "idle", NoFile) /\ job[t] \in Files /\ job[t] \in listed
    BY EndDoes DEF Charge, Regular, Calm, RegularInv, FileInv, RowsInPlace
  <1>2. /\ Handled("charge")' = Handled("charge") \ {job[t]} /\ job[t] \in Handled("charge")
        /\ Handled("uncharge")' = Handled("uncharge")
    <2>1. job[t] \notin Others(t, "charge")
      BY <1>1 DEF RegularInv, FileInv, PlacesInv, OneUpload, Uploading, Others
    <2>2. /\ Handled("charge") = Others(t, "charge") \cup {job[t]}
          /\ Handled("charge")' = Others(t, "charge")
      BY <1>1, HandledMoves DEF RegularInv, FileInv
    <2>3. Handled("uncharge")' = Handled("uncharge")
      BY <1>1, HandledMoves DEF RegularInv, FileInv
    <2>4. QED
      BY <2>1, <2>2, <2>3
  <1>3. job[t] \notin Handled("uncharge")
    BY <1>1 DEF Handled, RegularInv, FileInv, PlacesInv, DeletePlaces, Deleting
  <1>4. Charged' = Charged \cup {job[t]} /\ job[t] \notin Charged
    BY <1>1, <1>2, <1>3 DEF Charged
  <1>5. Charged \in SUBSET Files
    BY DEF Charged, Handled, RegularInv, FileInv, TypeOK
  <1>6. SizeOf(Charged \cup {job[t]}) = Size[job[t]] + SizeOf(Charged) /\ SizeOf(Charged) \in Nat
    BY <1>1, <1>4, <1>5, SizesOf DEF StorageInv
  <1>7. used' = SizeOf(Charged')
    BY <1>1, <1>4, <1>6, FileAssumption DEF StorageInv, StorageExact
  <1>8. IsFiniteSet(Charged')
    BY <1>4, FS_AddElement DEF StorageInv
  <1>9. QED
    BY <1>7, <1>8 DEF StorageInv, StorageExact, SizeOf

LEMMA StorageUncharge ==
  ASSUME Regular, RegularInv, StorageInv, NEW t \in Threads, Uncharge(t) PROVE StorageInv'
  <1>1. /\ pc[t] = "uncharge" /\ listed' = listed
        /\ Moves(t, "idle", NoFile) /\ job[t] \in Files /\ job[t] \notin listed
    BY EndDoes DEF Uncharge, Regular, Calm, RegularInv, FileInv, PlacesInv, DeletePlaces, Deleting
  <1>2. /\ Handled("uncharge")' = Handled("uncharge") \ {job[t]} /\ job[t] \in Handled("uncharge")
        /\ Handled("charge")' = Handled("charge")
    <2>1. job[t] \notin Others(t, "uncharge")
      BY <1>1 DEF RegularInv, DeleteAlone, Deleting, Others
    <2>2. /\ Handled("uncharge") = Others(t, "uncharge") \cup {job[t]}
          /\ Handled("uncharge")' = Others(t, "uncharge")
      BY <1>1, HandledMoves DEF RegularInv, FileInv
    <2>3. Handled("charge")' = Handled("charge")
      BY <1>1, HandledMoves DEF RegularInv, FileInv
    <2>4. QED
      BY <2>1, <2>2, <2>3
  <1>3. Charged = Charged' \cup {job[t]} /\ job[t] \notin Charged'
    BY <1>1, <1>2 DEF Charged
  <1>4. Charged' \in SUBSET Files /\ IsFiniteSet(Charged')
    <2>1. Charged \in SUBSET Files /\ IsFiniteSet(Charged)
      BY DEF Charged, Handled, RegularInv, FileInv, TypeOK, StorageInv
    <2>2. QED
      BY <1>3, <2>1, FS_Subset
  <1>5. used = Size[job[t]] + SizeOf(Charged') /\ SizeOf(Charged') \in Nat
    BY <1>1, <1>3, <1>4, SizesOf DEF StorageInv, StorageExact
  <1>6. used' = SizeOf(Charged')
    <2>1. used' = IF used > Size[job[t]] THEN used - Size[job[t]] ELSE 0
      BY DEF Uncharge, Regular, Calm
    <2>2. QED
      BY <1>1, <1>5, <2>1, FileAssumption
  <1>7. QED
    BY <1>4, <1>6 DEF StorageInv, StorageExact, SizeOf

LEMMA StorageStep ==
  ASSUME Regular, RegularInv, StorageInv, [Next]_vars PROVE StorageInv'
  <1> USE FileAssumption DEF RegularInv, FileInv, TypeOK, Control, Uploading, Deleting, tables
  <1>1. ASSUME NEW t \in Threads, OpenFile(t) PROVE StorageInv'
    BY <1>1, GoDoes, EndDoes, StorageByMove DEF OpenFile
  <1>2. ASSUME NEW t \in Threads, WriteFile(t) PROVE StorageInv'
    BY <1>2, GoDoes, StorageByMove DEF WriteFile
  <1>3. ASSUME NEW t \in Threads, Rollback(t) PROVE StorageInv'
    BY <1>3, GoDoes, StorageByMove DEF Rollback, NoUndo
  <1>4. ASSUME NEW t \in Threads, Discard(t) PROVE StorageInv'
    BY <1>4, EndDoes, StorageByMove DEF Discard, NoUndo
  <1>5. ASSUME NEW t \in Threads, Unlink(t) PROVE StorageInv'
    BY <1>5, GoDoes, StorageByMove DEF Unlink
  <1>6. ASSUME NEW t \in Threads, ReadFile(t) PROVE StorageInv'
    BY <1>6, DeliverDoes, EndDoes, StorageByMove DEF ReadFile, Readable
  <1>7. ASSUME NEW t \in Threads, CheckFile(t) PROVE StorageInv'
    BY <1>7, GoDoes, EndDoes, StorageByMove DEF CheckFile
  <1>8. ASSUME NEW t \in Threads, StreamFile(t) PROVE StorageInv'
    BY <1>8, DeliverDoes, StorageByMove DEF StreamFile, Readable
  <1>9. ASSUME NEW t \in Threads, NEW f \in Files, CheckQuota(t, f) PROVE StorageInv'
    BY <1>9, StartDoes, StorageByMove DEF CheckQuota
  <1>10. ASSUME NEW t \in Threads, NEW f \in Files, FindForDelete(t, f) PROVE StorageInv'
    BY <1>10, StartDoes, StorageByMove DEF FindForDelete
  <1>11. ASSUME NEW t \in Threads, NEW f \in Files, FindForDownload(t, f) PROVE StorageInv'
    BY <1>11, StartDoes, StorageByMove DEF FindForDownload
  <1>12. ASSUME NEW t \in Threads, NEW f \in Files, FindForStream(t, f) PROVE StorageInv'
    BY <1>12, StartDoes, StorageByMove DEF FindForStream
  <1>13. ASSUME NEW t \in Threads, NEW c \in Codes, FindShared(t, c) PROVE StorageInv'
    BY <1>12, <1>13 DEF FindShared
  <1>14. ASSUME UNCHANGED <<listed, used, pc, job>> PROVE StorageInv'
    <2>1. Charged' = Charged
      BY <1>14 DEF Charged, Handled
    <2>2. QED
      BY <1>14, <2>1, StorageUnmoved
  <1>15. ~Crash
    BY DEF Crash, Regular, Calm
  <1>16. QED
    BY <1>1, <1>2, <1>3, <1>4, <1>5, <1>6, <1>7, <1>8, <1>9, <1>10, <1>11, <1>12, <1>13, <1>14,
       <1>15,
       StorageInsertRow, StorageDeleteRow, StorageCharge, StorageUncharge
    DEF Next, Step, Request, CreateShareCode, vars

(* With regular clients and no failing statement, storage_used is the size *)
(* of the files that are charged by now: nothing is charged twice, kept    *)
(* after a delete, or cut off by GREATEST.                                 *)
THEOREM StorageCounted ==
  ASSUME Regular PROVE Spec => []StorageExact
  <1>1. Init => NoUndo /\ GoneRows /\ DeleteAlone /\ RowsInPlace
    BY DEF Init, NoUndo, GoneRows, DeleteAlone, RowsInPlace, Deleting
  <1>2. Init => StorageInv
    <2>1. ASSUME Init PROVE Charged = {} /\ used = 0
      BY <2>1 DEF Init, Charged, Handled
    <2>2. SizeOf({}) = 0
      BY SumEmpty DEF SizeOf
    <2>3. QED
      BY <2>1, <2>2, FS_EmptySet DEF StorageInv, StorageExact
  <1>3. FileInv /\ NoUndo /\ GoneRows /\ [Next]_vars => NoUndo' /\ GoneRows'
    BY CalmStep DEF Regular
  <1>4. RegularInv /\ [Next]_vars => DeleteAlone' /\ RowsInPlace'
    BY RegularStep DEF RegularInv
  <1>5. RegularInv /\ StorageInv /\ [Next]_vars => StorageInv'
    BY StorageStep
  <1>6. StorageInv => StorageExact
    BY DEF StorageInv
  <1>7. QED
    BY <1>1, <1>2, <1>3, <1>4, <1>5, <1>6, FileInvHolds, PTL DEF Spec, RegularInv

=============================================================================
