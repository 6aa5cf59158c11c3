---------------------------- MODULE UploadLedger -----------------------------
(***************************************************************************)
(* What the tables promise of chunked uploads, without the requests, the   *)
(* chunk files and the failures: a session is opened, chunks are recorded, *)
(* and at one instant the file is published, the user charged with its     *)
(* size and the session completed.  There is no state in which one of the  *)
(* three is visible without the others, and nothing is published before    *)
(* all its chunks were recorded.                                           *)
(***************************************************************************)
EXTENDS Integers

CONSTANTS
  Uploads, Chunks, Paths, Size,
  Once       \* TRUE if an upload is published at most once

VARIABLES status, rows, files, used

vars == <<status, rows, files, used>>

Init ==
  /\ status = [u \in Uploads |-> "none"]
  /\ rows = [u \in Uploads |-> {}]
  /\ files = {}
  /\ used = 0

Open(u) ==
  /\ status[u] = "none"
  /\ status' = [status EXCEPT ![u] = "uploading"]
  /\ UNCHANGED <<rows, files, used>>

(* A chunk may still be recorded when the session is over: its request was *)
(* admitted before.                                                        *)
Record(u, i) ==
  /\ status[u] # "none"
  /\ rows' = [rows EXCEPT ![u] = @ \cup {i}]
  /\ UNCHANGED <<status, files, used>>

Cancel(u) ==
  /\ status[u] = "uploading"
  /\ status' = [status EXCEPT ![u] = "cancelled"]
  /\ UNCHANGED <<rows, files, used>>

(* A cancelled upload can be published: its completion was under way.      *)
Publish(u, p) ==
  /\ rows[u] = Chunks
  /\ status[u] \in {"uploading", "cancelled"} \cup (IF Once THEN {} ELSE {"completed"})
  /\ \A f \in files : f.path # p
  /\ status' = [status EXCEPT ![u] = "completed"]
  /\ files' = files \cup {[path |-> p, upload |-> u]}
  /\ used' = used + Size[u]
  /\ UNCHANGED rows

Next ==
  \E u \in Uploads :
    \/ Open(u) \/ Cancel(u)
    \/ \E i \in Chunks : Record(u, i)
    \/ \E p \in Paths : Publish(u, p)

Spec == Init /\ [][Next]_vars
=============================================================================
