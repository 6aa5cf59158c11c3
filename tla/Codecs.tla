------------------------------- MODULE Codecs --------------------------------
(***************************************************************************)
(* The conversions between texts and data: JsonBuilder and JsonParser      *)
(* (src/json_helper.cpp), url_encode_utf8 and url_decode (src/utils.cpp)   *)
(* and the query string of HttpParser::parse.  A text is a sequence of     *)
(* one-character strings; the newline stands for the characters that have  *)
(* a letter as their escape (\b \f \n \r \t).                              *)
(***************************************************************************)
EXTENDS Integers, Sequences, SequencesExt

Quote == "\""
Backslash == "\\"
Whitespace == {" ", "\n"}

(* The first position from start on that holds one of chars, or the end.   *)
Find(text, chars, start) ==
  LET found == {i \in start .. Len(text) : text[i] \in chars}
  IN  IF found = {} THEN Len(text) + 1 ELSE CHOOSE i \in found : \A j \in found : i <= j

(* trim: without the whitespace at both ends.                              *)
Trim(text) ==
  LET solid == {i \in DOMAIN text : text[i] \notin Whitespace}
  IN  IF solid = {} THEN <<>>
      ELSE SubSeq(text, CHOOSE i \in solid : \A j \in solid : i <= j,
                        CHOOSE i \in solid : \A j \in solid : i >= j)

-----------------------------------------------------------------------------
(* A mutation: the backslash itself is not escaped.                        *)
EscapeQuotes(c) ==
  CASE c = Quote -> <<Backslash, Quote>>
    [] c = "\n" -> <<Backslash, "n">>
    [] OTHER -> <<c>>

(* escape_json of one character, and the way back.                         *)
EscapeChar(c) ==
  CASE c \in {Quote, Backslash} -> <<Backslash, c>>
    [] c = "\n" -> <<Backslash, "n">>
    [] OTHER -> <<c>>

UnescapeChar(c) == IF c = "n" THEN "\n" ELSE c

Escape(text) == FlattenSeq([i \in DOMAIN text |-> EscapeChar(text[i])])
Quoted(text) == <<Quote>> \o Escape(text) \o <<Quote>>

(* JsonBuilder: fields are records of a key, a value and whether the value *)
(* is written in quotes.                                                   *)
BuildField(f) ==
  Quoted(f.key) \o <<":">> \o (IF f.quoted THEN Quoted(f.value) ELSE f.value)

Join(texts, comma) ==
  FlattenSeq([i \in DOMAIN texts |-> IF i = 1 THEN texts[i] ELSE <<comma>> \o texts[i]])

Build(fields) ==
  <<"{">> \o Join([i \in DOMAIN fields |-> BuildField(fields[i])], ",") \o <<"}">>

(* A token that was read: its text and the position after it.              *)
Broken == [whole |-> FALSE, text |-> <<>>, next |-> 0]
Before(c, token) ==
  IF token.whole THEN [token EXCEPT !.text = <<c>> \o @] ELSE Broken

(* A mutation: a string that is cut off at the end is taken as it is.      *)
TokenLenient(text, start) ==
  LET from[i \in 1 .. Len(text) + 2] ==
        IF i > Len(text) THEN [whole |-> TRUE, text |-> <<>>, next |-> i]
        ELSE IF text[i] = Quote THEN [whole |-> TRUE, text |-> <<>>, next |-> i + 1]
        ELSE Before(text[i], from[i + 1])
  IN  IF start > Len(text) \/ text[start] # Quote THEN Broken ELSE from[start + 1]

(* parse_json_string_token from the quote at start: an unknown escape      *)
(* stands for its letter, a string without an end is Broken.               *)
Token(text, start) ==
  LET from[i \in 1 .. Len(text) + 2] ==
        IF i > Len(text) THEN Broken
        ELSE IF text[i] = Quote THEN [whole |-> TRUE, text |-> <<>>, next |-> i + 1]
        ELSE IF text[i] # Backslash THEN Before(text[i], from[i + 1])
        ELSE IF i = Len(text) THEN Broken
        ELSE Before(UnescapeChar(text[i + 1]), from[i + 2])
  IN  IF start > Len(text) \/ text[start] # Quote THEN Broken ELSE from[start + 1]

(* A value that is not in quotes ends at a comma or a brace.               *)
Bare(text, start) ==
  LET end == Find(text, {",", "}"}, start)
  IN  [whole |-> TRUE, text |-> Trim(SubSeq(text, start, end - 1)), next |-> end]

(* JsonParser::parse: the keys and values between the outer braces; it     *)
(* stops at the first thing it does not understand and keeps what it has,  *)
(* and the last of two fields with one key wins.                           *)
Inner(body) ==
  LET text == Trim(body)
  IN  IF Len(text) < 2 \/ text[1] # "{" \/ text[Len(text)] # "}" THEN <<>>
      ELSE SubSeq(text, 2, Len(text) - 1)

NoFields == [k \in {} |-> <<>>]
Put(fields, key, value) ==
  [k \in DOMAIN fields \cup {key} |-> IF k \in DOMAIN fields THEN fields[k] ELSE value]

Parse(body) ==
  LET text == Inner(body)
      fields[pos \in 1 .. Len(text) + 2] ==
        LET key == Token(text, Find(text, {Quote}, pos))
            colon == Find(text, {":"}, key.next)
            start == CHOOSE i \in colon + 1 .. Len(text) + 2 :
                       /\ i > Len(text) \/ text[i] \notin Whitespace
                       /\ \A j \in colon + 1 .. i - 1 : text[j] \in Whitespace
            value == IF text[start] = Quote THEN Token(text, start) ELSE Bare(text, start)
            next == IF value.next <= Len(text) /\ text[value.next] = ","
                    THEN value.next + 1 ELSE value.next
        IN  IF ~key.whole THEN NoFields
            ELSE IF start > Len(text) THEN NoFields
            ELSE IF ~value.whole THEN NoFields
            ELSE Put(fields[next], key.text, value.text)
  IN  fields[1]

-----------------------------------------------------------------------------
(* The bytes that are not letters or digits, in hexadecimal.               *)
Hex ==
  [c \in {"&", "=", "%", "+", " "} |->
     CASE c = "&" -> <<"2", "6">> [] c = "=" -> <<"3", "D">> [] c = "%" -> <<"2", "5">>
       [] c = "+" -> <<"2", "B">> [] c = " " -> <<"2", "0">>]

(* url_encode_utf8, and encodeURIComponent for these characters.           *)
UrlEncode(text) ==
  FlattenSeq([i \in DOMAIN text |->
    IF text[i] \in DOMAIN Hex THEN <<"%">> \o Hex[text[i]] ELSE <<text[i]>>])

(* url_decode of a text whose codes are those of Hex; a code that is cut   *)
(* off at the end stays as it is.                                          *)
UrlDecode(text) ==
  LET from[i \in 1 .. Len(text) + 3] ==
        IF i > Len(text) THEN <<>>
        ELSE IF text[i] = "%" /\ i + 2 <= Len(text)
        THEN <<CHOOSE c \in DOMAIN Hex : Hex[c] = SubSeq(text, i + 1, i + 2)>> \o from[i + 3]
        ELSE <<IF text[i] = "+" THEN " " ELSE text[i]>> \o from[i + 1]
  IN  from[1]

(* The query that the browser writes: its parameters, joined by &.         *)
Query(params) ==
  Join([i \in DOMAIN params |-> params[i].key \o <<"=">> \o UrlEncode(params[i].value)], "&")

(* HttpParser::parse: split at &, then at the first =, the value decoded.  *)
Params(query) ==
  LET from[start \in 1 .. Len(query) + 2] ==
        LET end == Find(query, {"&"}, start)
            pair == SubSeq(query, start, end - 1)
            eq == Find(pair, {"="}, 1)
        IN  IF start > Len(query) THEN NoFields
            ELSE IF pair = <<>> THEN from[end + 1]
            ELSE IF eq > Len(pair) THEN Put(from[end + 1], pair, <<>>)
            ELSE Put(from[end + 1], SubSeq(pair, 1, eq - 1),
                     UrlDecode(SubSeq(pair, eq + 1, Len(pair))))
  IN  from[1]
=============================================================================
