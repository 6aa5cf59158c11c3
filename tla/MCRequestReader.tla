-------------------------- MODULE MCRequestReader ----------------------------
(* Instances of RequestReader for TLC: every value of at most two of the   *)
(* characters that mean something to an encoding, once as a parameter and  *)
(* once as a field next to another one; and files and chunks that contain  *)
(* texts which look like the header with the length.                       *)
EXTENDS RequestReader, TLC

Words(chars, n) == UNION {[1 .. m -> chars] : m \in 0 .. n}

MCChars ==
  {"a", "i", "k", "n", "1", "2", "&", "=", "%", "+", " ", Quote, Backslash, "\n", "}", ",", ":",
   "Content-Length: 1", "Content-Length: 9", "Content-Length: 99"}

(* The last one is beyond IntMax.                                          *)
MCSays ==
  ("Content-Length: 1" :> 1) @@ ("Content-Length: 9" :> 9) @@ ("Content-Length: 99" :> 99)

Form(kind, params, fields, raw) ==
  [kind |-> kind, params |-> params, fields |-> fields, raw |-> raw]

Field(key, value, quoted) == [key |-> key, value |-> value, quoted |-> quoted]

Number == Field(<<"i">>, <<"1", "2">>, FALSE)

QueryForms ==
  {Form("json", <<Field(<<"k">>, v, FALSE), Number>>, <<>>, <<>>) :
     v \in Words({"a", "&", "=", "%", "+", " "}, 2)}

BodyForms ==
  {Form("json", <<>>, <<Field(<<"k">>, v, TRUE), Number>>, <<>>) :
     v \in Words({"n", Quote, Backslash, "\n", "}", ",", ":"}, 2)
          \cup Words({"n", "Content-Length: 9", "Content-Length: 99"}, 2)}
  \cup
  {Form("json", <<>>, <<Number, Field(<<"k">>, v, TRUE)>>, <<>>) :
     v \in Words({"n", Quote, Backslash, "}", ","}, 2)}

RawForms ==
  {f \in {Form(kind, <<Number>>, <<>>, v) :
           kind \in {"file", "chunk"},
           v \in Words({"a", "Content-Length: 1", "Content-Length: 9", "Content-Length: 99"}, 3)} :
     f.kind = "chunk" => f.raw # <<>>}

(* Bodies that are longer than IntMax.                                     *)
LongForms ==
  {Form("json", <<>>, <<Field(<<"k">>, [j \in 1 .. 5 |-> "n"], TRUE), Number>>, <<>>),
   Form("file", <<>>, <<>>, [j \in 1 .. 20 |-> "a"])}

MCForms == QueryForms \cup BodyForms \cup RawForms \cup LongForms
=============================================================================
