---------------------------- MODULE RequestReader ----------------------------
(***************************************************************************)
(* How CloudDiskServer::handle_client reads one request, and what          *)
(* HttpParser::parse and JsonParser make of it.  The bytes arrive in       *)
(* pieces; the loop stops as soon as it takes the request for complete, or *)
(* at the end of the input, and what it has by then goes to the handler.   *)
(***************************************************************************)
EXTENDS Codecs

CONSTANTS
  Chars,      \* the characters of keys and values
  Says,       \* of the units that read "Content-Length:" and a number: the number
  Forms,      \* what the browser sends: parameters and a body
  Spellings,  \* of the header with the length of the body
  IntMax      \* bound: the greatest length std::stoi accepts

ASSUME ReaderAssumption ==
  /\ Spellings \subseteq {"Content-Length", "content-length"}
  /\ IntMax \in Nat \ {0}
  /\ DOMAIN Says \subseteq Chars
  /\ \A c \in DOMAIN Says : Says[c] \in Nat

(* A request has fields as its body ("json"), or the bytes of a file, all  *)
(* of them ("file") or a chunk, whose hash is a parameter ("chunk").  The  *)
(* keys of a request differ.  Those of its parameters are names in the     *)
(* code of app.js; what JSON.stringify writes without quotes is a number,  *)
(* true, false or null.  Every other text may be a key or a value.         *)
FieldType == [key : Seq(Chars), value : Seq(Chars), quoted : BOOLEAN]
FormType == [kind : {"json", "file", "chunk"}, params : Seq(FieldType),
             fields : Seq(FieldType), raw : Seq(Chars)]
ASSUME FormsAssumption ==
  \A f \in Forms :
    /\ f \in FormType
    /\ f.kind # "json" => f.fields = <<>>
    /\ f.kind = "chunk" => f.raw # <<>>
    /\ \A list \in {f.params, f.fields} : \A i, j \in DOMAIN list :
         list[i].key = list[j].key => i = j
    /\ \A i \in DOMAIN f.params : \A j \in DOMAIN f.params[i].key :
         f.params[i].key[j] \notin {"&", "="}
    /\ \A i \in DOMAIN f.fields : ~f.fields[i].quoted =>
         /\ f.fields[i].value # <<>>
         /\ \A j \in DOMAIN f.fields[i].value :
              f.fields[i].value[j] \notin Whitespace \cup {Quote, ",", "}"}

VARIABLES
  form, spelling,  \* the request that is sent
  sent,            \* how much of it the client has sent
  line,            \* "open", "closed" by the client, or "reset"
  data,            \* request_data: how much of it was read
  phase            \* "reading", "dispatched" or "dropped"

vars == <<form, spelling, sent, line, data, phase>>

(* The request on the wire: the query, one unit each for the rest of the   *)
(* request line, the length, the token and the empty line, then the body.  *)
QueryText == Query(form.params)
Body ==
  IF form.kind # "json" THEN form.raw
  ELSE IF form.fields = <<>> THEN <<>> ELSE Build(form.fields)
LengthRead == Len(QueryText) + 2
TokenRead == Len(QueryText) + 3
HeadRead == Len(QueryText) + 4
Total == HeadRead + Len(Body)

(* The values that the browser meant, by their keys.                       *)
Meant(list) ==
  [k \in {list[i].key : i \in DOMAIN list} |->
     list[CHOOSE i \in DOMAIN list : list[i].key = k].value]

Init ==
  /\ form \in Forms
  /\ spelling \in Spellings
  /\ sent = 0 /\ data = 0
  /\ line = "open"
  /\ phase = "reading"

-----------------------------------------------------------------------------
(* stoi: what does not fit is malformed.                                   *)
Malformed == Len(Body) > IntMax

(* The length that the loop finds in the first n units: it looks for a     *)
(* header spelled exactly "Content-Length:" in all that was read, and so   *)
(* in the body when the header is spelled in another way.                  *)
Announced(n) ==
  LET found == {i \in 1 .. n - HeadRead : Body[i] \in DOMAIN Says}
  IN  IF spelling = "Content-Length" THEN Len(Body)
      ELSE IF found = {} THEN 0
      ELSE Says[Body[CHOOSE i \in found : \A j \in found : i <= j]]

(* A mutation: the loop reads on until there is more than announced.       *)
EnoughTooLate(n) ==
  /\ n >= HeadRead
  /\ \/ Announced(n) > IntMax
     \/ Announced(n) = 0
     \/ n - HeadRead > Announced(n)

(* The condition of the loop: the header is complete, and the body as long *)
(* as announced; a length that stoi refuses ends the loop.                 *)
Enough(n) ==
  /\ n >= HeadRead
  /\ \/ Announced(n) > IntMax
     \/ n - HeadRead >= Announced(n)

(* HttpParser::parse of the first n units: header names in lower case, the *)
(* body cut off at the length, none without a length or an empty line.     *)
Parsed(n) ==
  [token |-> n >= TokenRead,
   params |-> Params(SubSeq(QueryText, 1, IF n < Len(QueryText) THEN n ELSE Len(QueryText))),
   body |-> IF n >= HeadRead /\ ~Malformed THEN SubSeq(Body, 1, n - HeadRead) ELSE <<>>]

(* What the handler makes of the body: fields, or the content that it      *)
(* stores, if any.  file/upload takes the body for the file as it is, a    *)
(* chunk is refused unless it has the hash of its parameter.               *)
Fields(body) == IF form.kind = "json" THEN Parse(body) ELSE NoFields
Stored(body) ==
  {c \in {body} : form.kind = "file" \/ (form.kind = "chunk" /\ c = form.raw)}

(* What the handler sees: handle_request is called with what was read.     *)
Seen ==
  [token |-> Parsed(data).token, params |-> Parsed(data).params,
   fields |-> Fields(Parsed(data).body), stored |-> Stored(Parsed(data).body)]

(* The client sends a piece, stops in the middle or breaks off.  What it   *)
(* does before the last piece was read has the effect of doing it then: it *)
(* only makes a longer piece of two.                                       *)
Send ==
  /\ line = "open" /\ sent = data /\ phase = "reading"
  /\ sent' \in sent + 1 .. Total
  /\ UNCHANGED <<form, spelling, line, data, phase>>

Stop ==
  /\ line = "open" /\ sent = data /\ phase = "reading"
  /\ line' \in {"closed", "reset"}
  /\ UNCHANGED <<form, spelling, sent, data, phase>>

(* read returns the piece that has arrived, at most BUFFER_SIZE bytes.     *)
Receive ==
  /\ phase = "reading"
  /\ sent > data
  /\ data' = sent
  /\ IF Enough(sent) THEN phase' = "dispatched" ELSE UNCHANGED phase
  /\ UNCHANGED <<form, spelling, sent, line>>

(* read returns 0: what was read goes to the handler, complete or not.     *)
EndOfInput ==
  /\ phase = "reading"
  /\ line = "closed" /\ data = sent
  /\ phase' = "dispatched"
  /\ UNCHANGED <<form, spelling, sent, line, data>>

ReadError ==
  /\ phase = "reading"
  /\ line = "reset"
  /\ phase' = "dropped"
  /\ UNCHANGED <<form, spelling, sent, line, data>>

Serve == Receive \/ EndOfInput \/ ReadError

Next == Send \/ Stop \/ Serve

(* The worker goes on reading; the client need not send anything.          *)
Spec == Init /\ [][Next]_vars /\ WF_vars(Serve)

-----------------------------------------------------------------------------
(* The handler sees what the browser meant: however the bytes were cut     *)
(* into pieces, a request whose length is announced as browsers spell it   *)
(* is dispatched only when it was read as a whole, unless the client       *)
(* itself stopped in the middle, and then every parameter and every field  *)
(* comes out of the encodings as it went in, and a file or chunk is stored *)
(* as it was sent.                                                         *)
HandlerSeesForm ==
  /\ phase = "dispatched"
  /\ spelling = "Content-Length" /\ ~Malformed
  /\ ~(line = "closed" /\ sent < Total)
  => Seen = [token |-> TRUE, params |-> Meant(form.params), fields |-> Meant(form.fields),
             stored |-> IF form.kind = "json" THEN {} ELSE {form.raw}]

(* Whatever is dispatched, the beginnings of requests included (a client   *)
(* that stops, a length in lower case that the loop does not find), a      *)
(* handler that checks the token never acts on a part of a parameter, a    *)
(* field or a chunk: each that it sees is one that the browser sent.  Only *)
(* file/upload does: what it stores is a beginning of the file, whole when *)
(* HandlerSeesForm says so.                                                *)
NoTornValue ==
  phase = "dispatched" /\ Seen.token =>
    /\ Seen.params = Meant(form.params)
    /\ \A k \in DOMAIN Seen.fields :
         k \in DOMAIN Meant(form.fields) /\ Seen.fields[k] = Meant(form.fields)[k]
    /\ \A c \in Seen.stored :
         IF form.kind = "file" THEN \E n \in 0 .. Len(form.raw) : c = SubSeq(form.raw, 1, n)
         ELSE c = form.raw

(* A request that was sent completely is dispatched, although its client   *)
(* keeps the connection open and waits: the loop does not wait for more,   *)
(* unless it took a text in the body for the header and that one announces *)
(* more than there is.                                                     *)
CompleteIsServed ==
  (sent = Total /\ line = "open" /\ (Announced(Total) <= Len(Body) \/ Announced(Total) > IntMax))
    ~> phase # "reading"
=============================================================================
