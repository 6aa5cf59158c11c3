------------------------------ MODULE Messages -------------------------------
(***************************************************************************)
(* MessageTable with one user's browser (static/app.js), which asks for    *)
(* the open conversation every three seconds, after each message of its    *)
(* own and when another one is opened.  Its requests overtake each other:  *)
(* each answer replaces what is shown, whatever conversation is open when  *)
(* it arrives.                                                             *)
(***************************************************************************)
EXTENDS MessageTable, FiniteSets

VARIABLES
  active,  \* state.activeChatUserId
  shown    \* state.messages

vars == <<messages, active, shown, polls, faults>>

Init ==
  /\ messages = <<>>
  /\ active = Nobody
  /\ shown = <<>>
  /\ polls = [p \in Polls |-> NoPoll]
  /\ faults = 0

-----------------------------------------------------------------------------
(* loadMessages asks for the conversation that is open by then.            *)
Ask(p, u) ==
  /\ u # Nobody
  /\ polls[p].at = "none"
  /\ polls' = [polls EXCEPT ![p] = [at |-> "sent", with |-> u, list |-> <<>>]]

(* setInterval: every three seconds, whatever requests are under way.      *)
Tick(p) == Ask(p, active) /\ UNCHANGED <<messages, active, shown, faults>>

(* selectChatUser: the timer is started anew and the messages are loaded.  *)
SelectUser(p, u) ==
  /\ active' = u
  /\ Ask(p, u)
  /\ UNCHANGED <<messages, shown, faults>>

(* handle_message_send, for a message that somebody else sends.            *)
Receive(u) == SendMessage(u, Me) /\ UNCHANGED <<active, shown, polls, faults>>

(* sendMessage of this browser: the answer, unless it is lost, makes it    *)
(* load the messages.  A message whose answer is lost stays in the input   *)
(* field and may be sent again.                                            *)
Send(p) ==
  /\ active # Nobody
  /\ SendMessage(Me, active)
  /\ \/ Ask(p, active) /\ NoFault
     \/ Fault /\ UNCHANGED polls
  /\ UNCHANGED <<active, shown>>

(* The answer replaces what is shown, or gets lost.                        *)
Answer(p) ==
  /\ polls[p].at = "answered"
  /\ \/ shown' = polls[p].list /\ NoFault
     \/ Fault /\ UNCHANGED shown
  /\ polls' = [polls EXCEPT ![p] = NoPoll]
  /\ UNCHANGED <<messages, active>>

(* handle_message_list, and its answer.                                    *)
Handle(p) ==
  \/ (GetMessages(p) \/ MarkMessagesRead(p)) /\ UNCHANGED <<active, shown>>
  \/ Answer(p)

Next ==
  \/ \E u \in Partners : Receive(u) \/ \E p \in Polls : SelectUser(p, u)
  \/ \E p \in Polls : Tick(p) \/ Send(p) \/ Handle(p)

(* The timer goes on and every request is handled in the end; nobody is    *)
(* obliged to send a message or to open a conversation.                    *)
Spec ==
  /\ Init /\ [][Next]_vars
  /\ WF_vars(\E p \in Polls : Tick(p))
  /\ \A p \in Polls : WF_vars(Handle(p))

-----------------------------------------------------------------------------
With(u) == {i \in DOMAIN messages : {messages[i].from, messages[i].to} = {Me, u}}
Newest(u) == {i \in With(u) : Cardinality({j \in With(u) : j > i}) < Limit}

(* The newest messages of the conversation as the table has them, in their *)
(* order.                                                                  *)
Shows(u) ==
  /\ {shown[k].id : k \in DOMAIN shown} = Newest(u)
  /\ \A k \in DOMAIN shown : shown[k].msg = messages[shown[k].id]
  /\ \A k, l \in DOMAIN shown : k < l => shown[k].id < shown[l].id

(* What is shown heals: however answers overtook each other, were lost,    *)
(* were empty for a failed SELECT or belong to another conversation, once  *)
(* the user stays in a conversation the browser ends up showing it.        *)
ShownInTheEnd ==
  \A u \in Partners : <>[](active = u) => <>[]Shows(u)
=============================================================================
