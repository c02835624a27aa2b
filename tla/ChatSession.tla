---------------------------- MODULE ChatSession ----------------------------
(***************************************************************************)
(* Chat sessions: a message is answered by reading the whole session,      *)
(* asking the agent with its history, for minutes perhaps, and writing the *)
(* whole session back.  Nothing keeps two messages, or a message and a     *)
(* delete, from doing so at the same time.                                 *)
(***************************************************************************)
EXTENDS Traces, Sequences

CONSTANTS
  Session,   \* ids of sessions: uuids
  Send,      \* messages, each sent once
  Awkward,   \* those that a cut after 60 bytes leaves with half a character
  Untitled   \* the empty title

ASSUME ChatAssumption ==
  /\ Send \subseteq Asker /\ Awkward \subseteq Send /\ Untitled \notin Send
  /\ Session # {}

VARIABLES
  session,  \* session[c]: the row of chat_sessions
  send,     \* send[s]: how far s is, and its copy of the session
  removed,  \* the sessions that were deleted (history)
  before,   \* before[s]: the sends acknowledged when s began (history)
  beside    \* beside[s]: the sends of its session that ran alongside (history)

chatVars == <<session, send, removed, before, beside>>

\* A turn, the user's message and the assistant's reply, goes by its message;
\* so does the title made of it.
Row == [life: {"unused", "live", "deleted"}, title: Send \cup {Untitled},
        messages: Seq(Send)]

Blank(life) == [life |-> life, title |-> Untitled, messages |-> <<>>]

ChatTypeOK ==
  /\ session \in [Session -> Row]
  /\ send \in [Send -> [pc: {"idle", "agent", "save", "done", "refused", "gone"},
                        id: Session, copy: Row, heard: BOOLEAN]]
  /\ removed \subseteq Session
  /\ before \in [Send -> SUBSET Send]
  /\ beside \in [Send -> SUBSET Send]

ChatInit ==
  /\ session = [c \in Session |-> Blank("unused")]
  /\ send = [s \in Send |-> [pc |-> "idle", id |-> CHOOSE c \in Session: TRUE,
                             copy |-> Blank("unused"), heard |-> FALSE]]
  /\ removed = {}
  /\ before = [s \in Send |-> {}]
  /\ beside = [s \in Send |-> {}]

\* Sends that c is being read and written by.
Running(c) == {s \in Send: send[s].pc \in {"agent", "save"} /\ send[s].id = c}

Acknowledged(c) == {s \in Send: send[s].pc = "done" /\ send[s].id = c}

CreateChatSession(c) ==
  /\ session[c].life = "unused"
  /\ Spend("chat")
  /\ session' = [session EXCEPT ![c] = Blank("live")]
  /\ UNCHANGED <<job, tables, marred, send, removed, before, beside>>

DeleteChatSession(c) ==
  /\ session[c].life = "live"
  /\ Spend("chat")
  /\ session' = [session EXCEPT ![c] = Blank("deleted")]
  /\ removed' = removed \cup {c}
  /\ UNCHANGED <<job, tables, marred, send, before, beside>>

\* Variant: the title is that of the latest message.
WithTurn_Retitled(row, s) ==
  [row EXCEPT !.title = s, !.messages = Append(@, s)]

\* The session as it will be written back.
WithTurn(row, s) ==
  [row EXCEPT !.title = IF @ = Untitled THEN s ELSE @, !.messages = Append(@, s)]

\* HandleSendChatMessage, up to the call of the agent.  A session that is not
\* there is a 404.
GetChatSession(s, c) ==
  /\ send[s].pc = "idle" /\ session[c].life # "unused"
  /\ Spend("chat")
  /\ IF session[c].life = "live"
       THEN /\ send' = [send EXCEPT ![s] = [pc |-> "agent", id |-> c, heard |-> FALSE,
                                            copy |-> WithTurn(session[c], s)]]
            /\ before' = [before EXCEPT ![s] = Acknowledged(c)]
            /\ beside' = [t \in Send |-> IF t = s THEN Running(c)
                            ELSE IF t \in Running(c) THEN beside[t] \cup {s} ELSE beside[t]]
       ELSE send' = [send EXCEPT ![s].pc = "refused"] /\ UNCHANGED <<before, beside>>
  /\ UNCHANGED <<job, tables, marred, session, removed>>

\* The agent answers or it fails: an apology is a turn like any other.
Chat(s, heard) ==
  /\ send[s].pc = "agent"
  /\ send' = [send EXCEPT ![s].pc = "save", ![s].heard = heard]
  /\ UNCHANGED <<traceVars, session, removed, before, beside>>

\* Whether the UPDATE worked is not looked at: the turn is acknowledged, and
\* traced if the agent was heard.
Acknowledge(s) ==
  /\ IF send[s].heard THEN logTrace(s, "chat", "tier2", "ok", "text") ELSE UNCHANGED job
  /\ send' = [send EXCEPT ![s].pc = "done", ![s].copy = Blank("unused")]

\* The title goes to Postgres byte by byte, and half a character is an error.
Writable(row) == row.title \notin Awkward

\* Variant: an upsert.
Written_Upsert(c, copy) == [session EXCEPT ![c] = copy]

\* UPDATE ... WHERE id = c: no row, no error.
Written(c, copy) == [session EXCEPT ![c] = IF @.life = "live" THEN copy ELSE @]

UpdateChatSession(s) ==
  /\ send[s].pc = "save"
  /\ IF Writable(send[s].copy)
       THEN session' = Written(send[s].id, send[s].copy) /\ UNCHANGED marred
       ELSE marred' = marred \cup {s} /\ UNCHANGED session
  /\ Acknowledge(s)
  /\ UNCHANGED <<tables, budget, removed, before, beside>>

\* The UPDATE fails, or the client has left and its context is cancelled.
UpdateFails(s) ==
  /\ send[s].pc = "save"
  /\ Spend("fault")
  /\ session' \in {session, Written(send[s].id, send[s].copy)}
  /\ marred' = marred \cup {s}
  /\ Acknowledge(s)
  /\ UNCHANGED <<tables, removed, before, beside>>

SendStep(s) ==
  \/ \E heard \in BOOLEAN: Chat(s, heard)
  \/ UpdateChatSession(s)

ChatNext ==
  \/ \E c \in Session: CreateChatSession(c) \/ DeleteChatSession(c)
  \/ \E s \in Send: \/ \E c \in Session: GetChatSession(s, c)
                    \/ SendStep(s) \/ UpdateFails(s)

(***************************************************************************)
(* Properties                                                              *)
(***************************************************************************)

Turns(row) == {row.messages[k]: k \in DOMAIN row.messages}

\* A conversation as it was had: no turn is in it twice, or ahead of one that
\* had been acknowledged when it was sent; the title is that of the first.
Coherent(row) ==
  LET m == row.messages IN
  /\ row.title = IF m = <<>> THEN Untitled ELSE Head(m)
  /\ \A j, k \in DOMAIN m: j < k => m[j] # m[k] /\ m[k] \notin before[m[j]]

\* A session is the conversation its client has had.  It is coherent; an
\* acknowledged turn is in it, unless its UPDATE failed or another message ran
\* alongside, whose write took it back; and a session that was deleted stays
\* so, whoever was still at work on it.
ConversationHolds ==
  \A c \in Session:
    /\ c \in removed => session[c] = Blank("deleted")
    /\ Coherent(session[c])
    /\ session[c].life = "live" =>
         \A s \in Acknowledged(c): \/ s \in Turns(session[c])
                                   \/ s \in marred \/ beside[s] # {}

SendSettled(s) ==
  \/ send[s].pc = "gone"
  \/ /\ send[s].pc = "done"
     /\ ~send[s].heard \/ s \in marred \/ Traced(s, "tier2", "ok")
=============================================================================
