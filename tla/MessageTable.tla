---------------------------- MODULE MessageTable -----------------------------
(***************************************************************************)
(* The server's part of the messages between users: the table messages,    *)
(* and what UserManager's send_message, get_messages and                   *)
(* mark_messages_read do to it for requests that are under way side by     *)
(* side.  Each statement is a step of its own and may fail.                *)
(***************************************************************************)
EXTENDS Integers, Sequences

CONSTANTS
  Partners,     \* the other users
  Me,           \* the user of the browser
  Nobody,       \* no conversation is open
  Limit,        \* limit of the query: how many messages an answer has
  Polls,        \* bound: the list requests under way at a time
  MaxMessages,  \* bound: how many messages are ever sent
  MaxFaults     \* bound: how many statements fail and answers get lost

ASSUME MessagesAssumption ==
  /\ Me \notin Partners /\ Nobody \notin Partners
  /\ Limit \in Nat \ {0} /\ MaxMessages \in Nat /\ MaxFaults \in Nat

VARIABLES
  messages,  \* the table messages, by id
  polls,     \* polls[p]: a request GET /api/message/list under way
  faults     \* how much has failed

NoPoll == [at |-> "none", with |-> Nobody, list |-> <<>>]

(* A mutation: only messages that are not read yet.                        *)
UnreadWith(u) ==
  LET numbered == [i \in DOMAIN messages |-> [id |-> i, msg |-> messages[i]]]
      both == SelectSeq(numbered, LAMBDA m : {m.msg.from, m.msg.to} = {Me, u} /\ ~m.msg.read)
  IN  SubSeq(both, IF Len(both) > Limit THEN Len(both) - Limit + 1 ELSE 1, Len(both))

(* get_messages: the newest messages of both directions, at most Limit; as *)
(* the browser turns them round, the newest comes last.                    *)
LatestWith(u) ==
  LET numbered == [i \in DOMAIN messages |-> [id |-> i, msg |-> messages[i]]]
      both == SelectSeq(numbered, LAMBDA m : {m.msg.from, m.msg.to} = {Me, u})
  IN  SubSeq(both, IF Len(both) > Limit THEN Len(both) - Limit + 1 ELSE 1, Len(both))

(* A mutation: the direction of the messages is forgotten.                 *)
MarkedBothWays(u) ==
  [i \in DOMAIN messages |->
     IF u \in {messages[i].from, messages[i].to}
     THEN [messages[i] EXCEPT !.read = TRUE] ELSE messages[i]]

(* mark_messages_read: every message from that user, whether an answer has *)
(* had it or not.                                                          *)
Marked(u) ==
  [i \in DOMAIN messages |->
     IF messages[i].from = u /\ messages[i].to = Me
     THEN [messages[i] EXCEPT !.read = TRUE] ELSE messages[i]]

Fault == faults < MaxFaults /\ faults' = faults + 1
NoFault == UNCHANGED faults

(* send_message with the check of its handler: the receiver exists, and    *)
(* accounts are never deleted, so the check and the INSERT are one step.   *)
SendMessage(from, to) ==
  /\ Len(messages) < MaxMessages
  /\ messages' = Append(messages, [from |-> from, to |-> to, read |-> FALSE])

(* handle_message_list: three statements on connections of their own.  A   *)
(* list that cannot be read is answered as an empty one.                   *)
GetMessages(p) ==
  /\ polls[p].at = "sent"
  /\ \/ polls' = [polls EXCEPT ![p].at = "read", ![p].list = LatestWith(polls[p].with)]
        /\ NoFault
     \/ polls' = [polls EXCEPT ![p].at = "read"] /\ Fault
     \/ polls' = [polls EXCEPT ![p] = NoPoll] /\ Fault
  /\ UNCHANGED messages

(* The result of the UPDATE is not looked at.                              *)
MarkMessagesRead(p) ==
  /\ polls[p].at = "read"
  /\ \/ messages' = Marked(polls[p].with) /\ NoFault
     \/ Fault /\ UNCHANGED messages
  /\ polls' = [polls EXCEPT ![p].at = "answered"]

-----------------------------------------------------------------------------
(* A message is marked as read only while its receiver has asked for the   *)
(* conversation with its sender, and stays so: a message to a user who has *)
(* not opened the conversation remains unread.                             *)
ReadByReceiver ==
  [][\A i \in DOMAIN messages :
       messages'[i] # messages[i] =>
         /\ ~messages[i].read /\ messages[i].to = Me
         /\ \E p \in Polls : polls[p].at = "read" /\ polls[p].with = messages[i].from]_messages
=============================================================================
