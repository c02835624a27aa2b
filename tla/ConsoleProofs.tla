---------------------------- MODULE ConsoleProofs ----------------------------
(***************************************************************************)
(* Proofs about the console, for any questions, sessions and messages: a   *)
(* conversation holds (ConversationHolds), a verdict of the fast path is   *)
(* of one instant (VerdictIsOfOneInstant), and every state is well-formed. *)
(*                                                                         *)
(* ConversationHolds is not inductive: a whole copy of the session is      *)
(* written back, so the copies that are under way must be as good as the   *)
(* session itself, and any two of them must know of each other (ChatInv).  *)
(*                                                                         *)
(* Nor is VerdictIsOfOneInstant: what a question has read of its leaf must *)
(* have been seen, and so must the leaf as it is now, while the question   *)
(* is open and may still read it (QueryInv).                               *)
(***************************************************************************)
EXTENDS Console, FiniteSetTheorems, TLAPS

\* The turns of a row are acknowledged ones of its session, or s's own.
Backed(c, row, own) == Turns(row) \subseteq Acknowledged(c) \cup own

\* What was acknowledged is in the row, or there is a reason.
Complete(c, row) ==
  \A s \in Acknowledged(c): s \in Turns(row) \/ s \in marred \/ beside[s] # {}

\* The copy s is going to write.
GoodCopy(s) ==
  LET c == send[s].id IN
  /\ send[s].copy.life = "live"
  /\ Coherent(send[s].copy)
  /\ Backed(c, send[s].copy, {s})
  /\ s \in Turns(send[s].copy)
  /\ Complete(c, send[s].copy)
  /\ \A t \in Running(c): t # s => t \in beside[s]

GoodSession(c) ==
  /\ session[c].life # "live" => session[c] = Blank(session[c].life)
  /\ session[c].life = "deleted" <=> c \in removed
  /\ Coherent(session[c])
  /\ Backed(c, session[c], {})
  /\ session[c].life = "live" => Complete(c, session[c])

ChatInv ==
  /\ ChatTypeOK
  /\ \A s, t \in Send: t \in before[s] => send[t].pc = "done"
  /\ \A s \in Send: send[s].pc \in {"agent", "save", "done"} =>
       session[send[s].id].life # "unused"
  /\ \A c \in Session: GoodSession(c)
  /\ \A c \in Session: \A s \in Running(c): GoodCopy(s)

\* Coherent, against a given history.
CoherentBy(row, b) ==
  LET m == row.messages IN
  /\ row.title = IF m = <<>> THEN Untitled ELSE Head(m)
  /\ \A j, k \in DOMAIN m: j < k => m[j] # m[k] /\ m[k] \notin b[m[j]]

\* A row with a turn appended that nobody knows of yet.
LEMMA TurnAppended ==
  ASSUME NEW row \in Row, NEW s \in Send, NEW b, NEW b2,
         CoherentBy(row, b), s \notin Turns(row),
         \A x \in Turns(row): s \notin b[x],
         \A x \in Send \ {s}: b2[x] = b[x]
  PROVE  /\ WithTurn(row, s) \in Row
         /\ Turns(WithTurn(row, s)) = Turns(row) \cup {s}
         /\ WithTurn(row, s).life = row.life
         /\ CoherentBy(WithTurn(row, s), b2)
<1> DEFINE m == row.messages
           w == WithTurn(row, s)
<1>1. m \in Seq(Send) /\ row.title \in Send \cup {Untitled}
  BY DEF Row
<1>2. /\ w \in Row /\ w.life = row.life /\ w.messages = Append(m, s)
      /\ w.title = IF row.title = Untitled THEN s ELSE row.title
  <2> DEFINE t == IF row.title = Untitled THEN s ELSE row.title
  <2>1. Append(m, s) \in Seq(Send) /\ t \in Send \cup {Untitled}
    BY <1>1
  <2>2. w = [row EXCEPT !.title = t, !.messages = Append(m, s)]
    BY DEF WithTurn
  <2>3. row = [life |-> row.life, title |-> row.title, messages |-> row.messages]
    BY DEF Row
  <2>4. w = [life |-> row.life, title |-> t, messages |-> Append(m, s)]
    BY <2>2, <2>3
  <2>5. row.life \in {"unused", "live", "deleted"}
    BY DEF Row
  <2> HIDE DEF t, m, w
  <2>6. w.life = row.life /\ w.messages = Append(m, s) /\ w.title = t
    BY <2>4
  <2>7. w \in Row
    BY <2>1, <2>4, <2>5 DEF Row
  <2> QED BY <2>6, <2>7 DEF t
<1>3. /\ Len(w.messages) = Len(m) + 1 /\ w.messages \in Seq(Send)
      /\ \A k \in 1..Len(m): w.messages[k] = m[k]
      /\ w.messages[Len(m) + 1] = s
      /\ w.messages # <<>>
  BY <1>1, <1>2
<1>4. DOMAIN m = 1..Len(m) /\ DOMAIN w.messages = 1..(Len(m) + 1) /\ Len(m) \in Nat
  BY <1>1, <1>3
<1>5. Turns(w) = Turns(row) \cup {s}
  <2>1. Turns(w) \subseteq Turns(row) \cup {s}
    BY <1>3, <1>4 DEF Turns
  <2>2. Turns(row) \subseteq Turns(w)
    BY <1>3, <1>4 DEF Turns
  <2>3. s \in Turns(w)
    BY <1>3, <1>4 DEF Turns
  <2> QED BY <2>1, <2>2, <2>3
<1>6. w.title = Head(w.messages)
  <2>1. CASE m = <<>>
    BY <2>1, <1>1, <1>2, <1>3 DEF CoherentBy
  <2>2. CASE m # <<>>
    <3>1. Head(m) \in Send /\ Head(w.messages) = Head(m)
      BY <2>2, <1>1, <1>3
    <3> QED BY <2>2, <3>1, <1>2, ChatAssumption DEF CoherentBy
  <2> QED BY <2>1, <2>2
<1>7. ASSUME NEW j \in DOMAIN w.messages, NEW k \in DOMAIN w.messages, j < k
      PROVE  w.messages[j] # w.messages[k] /\ w.messages[k] \notin b2[w.messages[j]]
  <2>1. j \in DOMAIN m /\ w.messages[j] = m[j] /\ m[j] \in Turns(row) /\ m[j] \in Send
    BY <1>1, <1>3, <1>4, <1>7 DEF Turns
  <2>2. b2[m[j]] = b[m[j]]
    BY <2>1, <1>1
  <2>3. CASE k = Len(m) + 1
    BY <2>1, <2>2, <2>3, <1>3
  <2>4. CASE k \in DOMAIN m
    BY <2>1, <2>2, <2>4, <1>3, <1>4, <1>7 DEF CoherentBy
  <2> QED BY <2>3, <2>4, <1>4
<1> QED BY <1>2, <1>3, <1>5, <1>6, <1>7 DEF CoherentBy

LEMMA BlankRow ==
  ASSUME NEW life \in {"unused", "live", "deleted"}
  PROVE  /\ Blank(life) \in Row /\ Blank(life).life = life
         /\ Coherent(Blank(life)) /\ Turns(Blank(life)) = {}
<1>1. Blank(life).messages = <<>> /\ Blank(life).title = Untitled /\ Blank(life).life = life
  BY DEF Blank
<1>2. DOMAIN Blank(life).messages = {}
  BY <1>1
<1>3. Blank(life) \in Row
  BY DEF Blank, Row
<1> QED BY <1>1, <1>2, <1>3 DEF Coherent, Turns

\* Steps that leave the sessions alone may only add failures.
LEMMA Elsewhere ==
  ASSUME ChatInv, UNCHANGED chatVars, marred \subseteq marred'
  PROVE  ChatInv'
<1>1. /\ ChatTypeOK'
      /\ \A c \in Session: Acknowledged(c)' = Acknowledged(c) /\ Running(c)' = Running(c)
  BY DEF ChatInv, ChatTypeOK, chatVars, Acknowledged, Running
<1>2. ASSUME NEW c \in Session PROVE GoodSession(c)'
  <2>1. GoodSession(c) BY DEF ChatInv
  <2> QED BY <2>1, <1>1 DEF chatVars, GoodSession, Coherent, Backed, Complete, Turns, Blank
<1>3. ASSUME NEW c \in Session, NEW s \in Running(c) PROVE GoodCopy(s)'
  <2>1. GoodCopy(s) /\ s \in Send /\ send[s].id = c BY DEF ChatInv, Running
  <2>2. Running(c)' = Running(c) /\ Acknowledged(c)' = Acknowledged(c) /\ send' = send
    BY <1>1 DEF chatVars
  <2> QED BY <2>1, <2>2 DEF chatVars, GoodCopy, Coherent, Backed, Complete, Turns
<1> QED BY <1>1, <1>2, <1>3 DEF ChatInv, chatVars

\* A session is created, or deleted.
LEMMA Replaced ==
  ASSUME ChatInv, NEW c \in Session, NEW life \in {"live", "deleted"},
         session' = [session EXCEPT ![c] = Blank(life)],
         life = "live" => session[c].life = "unused" /\ removed' = removed,
         life = "deleted" => session[c].life = "live" /\ removed' = removed \cup {c},
         UNCHANGED <<marred, send, before, beside>>
  PROVE  ChatInv'
<1>1. \A d \in Session: Acknowledged(d)' = Acknowledged(d) /\ Running(d)' = Running(d)
  BY DEF Acknowledged, Running
<1>2. ChatTypeOK'
  BY BlankRow DEF ChatInv, ChatTypeOK
<1>3. session'[c] = Blank(life) /\ \A d \in Session: d # c => session'[d] = session[d]
  BY DEF ChatInv, ChatTypeOK
<1>4. Blank(life).life = life /\ Turns(Blank(life)) = {} /\ Coherent(Blank(life))
  BY BlankRow
<1>5. life = "live" => Acknowledged(c) = {}
  BY DEF ChatInv, Acknowledged
<1>6. GoodSession(c)'
  <2>1. Coherent(session[c])' /\ Turns(session[c])' = {}
    BY <1>3, <1>4 DEF Coherent, Turns
  <2>2. GoodSession(c) BY DEF ChatInv
  <2>3. session'[c].life = "deleted" <=> c \in removed'
    BY <1>3, <1>4, <2>2 DEF GoodSession
  <2>4. Backed(c, session[c], {})' /\ (life = "live" => Complete(c, session[c])')
    BY <1>1, <1>5, <2>1 DEF Backed, Complete
  <2> QED BY <1>3, <1>4, <2>1, <2>3, <2>4 DEF GoodSession
<1>7. ASSUME NEW d \in Session, d # c PROVE GoodSession(d)'
  <2>1. GoodSession(d) BY DEF ChatInv
  <2>2. d \in removed' <=> d \in removed BY <1>7
  <2> QED BY <1>1, <1>3, <1>7, <2>1, <2>2
          DEF GoodSession, Coherent, Backed, Complete, Turns, Blank
<1>8. ASSUME NEW d \in Session, NEW s \in Running(d) PROVE GoodCopy(s)'
  <2>1. GoodCopy(s) /\ s \in Send /\ send[s].id = d BY DEF ChatInv, Running
  <2> QED BY <1>1, <2>1 DEF GoodCopy, Coherent, Backed, Complete, Turns
<1>9. ASSUME NEW s \in Send, send[s].pc \in {"agent", "save", "done"}
      PROVE  session'[send[s].id].life # "unused"
  <2>1. send[s].id \in Session BY DEF ChatInv, ChatTypeOK
  <2> QED BY <1>3, <1>4, <1>9, <2>1 DEF ChatInv
<1> QED BY <1>1, <1>2, <1>6, <1>7, <1>8, <1>9 DEF ChatInv

\* A message is read in: its copy is the session, with its turn.
LEMMA Begun ==
  ASSUME ChatInv, NEW s \in Send, NEW c \in Session, GetChatSession(s, c)
  PROVE  ChatInv'
<1>1. CASE session[c].life # "live"
  <2>1. /\ send' = [send EXCEPT ![s].pc = "refused"] /\ send[s].pc = "idle"
        /\ UNCHANGED <<marred, session, removed, before, beside>>
    BY <1>1 DEF GetChatSession
  <2>2. ChatTypeOK'
    BY <2>1 DEF ChatInv, ChatTypeOK
  <2>3. \A d \in Session: Acknowledged(d)' = Acknowledged(d) /\ Running(d)' = Running(d)
    BY <2>1 DEF ChatInv, ChatTypeOK, Acknowledged, Running
  <2>4. \A t \in Send: t # s => send'[t] = send[t]
    BY <2>1 DEF ChatInv, ChatTypeOK
  <2>5. send'[s].pc = "refused"
    BY <2>1 DEF ChatInv, ChatTypeOK
  <2>6. ASSUME NEW d \in Session PROVE GoodSession(d)'
    <3>1. GoodSession(d) BY DEF ChatInv
    <3> QED BY <2>1, <2>3, <3>1 DEF GoodSession, Coherent, Backed, Complete, Turns, Blank
  <2>7. ASSUME NEW d \in Session, NEW t \in Running(d) PROVE GoodCopy(t)'
    <3>1. GoodCopy(t) /\ t \in Send /\ send[t].id = d /\ t # s
      BY <2>1 DEF ChatInv, Running
    <3>2. send'[t] = send[t] BY <2>4, <3>1
    <3> QED BY <2>1, <2>3, <3>1, <3>2 DEF GoodCopy, Coherent, Backed, Complete, Turns
  <2>8. \A x, t \in Send: t \in before'[x] => send'[t].pc = "done"
    BY <2>1, <2>4 DEF ChatInv
  <2>9. \A x \in Send: send'[x].pc \in {"agent", "save", "done"} =>
          session'[send'[x].id].life # "unused"
    BY <2>1, <2>4, <2>5 DEF ChatInv
  <2> QED BY <2>2, <2>3, <2>6, <2>7, <2>8, <2>9 DEF ChatInv
<1>2. CASE session[c].life = "live"
  <2> DEFINE copy == WithTurn(session[c], s)
  <2>1. /\ send[s].pc = "idle"
        /\ send' = [send EXCEPT ![s] = [pc |-> "agent", id |-> c, heard |-> FALSE,
                                        copy |-> copy]]
        /\ before' = [before EXCEPT ![s] = Acknowledged(c)]
        /\ beside' = [t \in Send |-> IF t = s THEN Running(c)
                        ELSE IF t \in Running(c) THEN beside[t] \cup {s} ELSE beside[t]]
        /\ UNCHANGED <<marred, session, removed>>
    BY <1>2 DEF GetChatSession
  <2>2. session[c] \in Row /\ GoodSession(c) /\ before \in [Send -> SUBSET Send]
    BY DEF ChatInv, ChatTypeOK
  <2>3. \A d \in Session: s \notin Turns(session[d]) /\ s \notin Acknowledged(d)
                           /\ s \notin Running(d) /\ Turns(session[d]) \subseteq Acknowledged(d)
    BY <2>1 DEF ChatInv, GoodSession, Backed, Acknowledged, Running
  <2>4. \A x \in Send: s \notin before[x]
    BY <2>1 DEF ChatInv
  <2>5. /\ copy \in Row /\ Turns(copy) = Turns(session[c]) \cup {s}
        /\ copy.life = "live" /\ CoherentBy(copy, before')
    <3>1. \A x \in Turns(session[c]): s \notin before[x]
      BY <2>3, <2>4 DEF Acknowledged
    <3>2. \A x \in Send \ {s}: before'[x] = before[x]
      BY <2>1, <2>2
    <3>3. CoherentBy(session[c], before) BY <2>2 DEF GoodSession, Coherent, CoherentBy
    <3> QED BY <1>2, <2>2, <2>3, <3>1, <3>2, <3>3, TurnAppended
  <2>6. /\ send'[s] = [pc |-> "agent", id |-> c, heard |-> FALSE, copy |-> copy]
        /\ \A t \in Send: t # s => send'[t] = send[t] /\ before'[t] = before[t]
        /\ before'[s] = Acknowledged(c) /\ beside'[s] = Running(c)
        /\ \A t \in Send: t # s => beside[t] \subseteq beside'[t]
        /\ \A t \in Running(c): s \in beside'[t]
    <3>1. send'[s] = [pc |-> "agent", id |-> c, heard |-> FALSE, copy |-> copy]
          /\ \A t \in Send: t # s => send'[t] = send[t]
      BY <2>1 DEF ChatInv, ChatTypeOK
    <3>2. before'[s] = Acknowledged(c) /\ \A t \in Send: t # s => before'[t] = before[t]
      BY <2>1, <2>2
    <3>3. \A t \in Running(c): t \in Send /\ t # s
      BY <2>3 DEF Running
    <3> QED BY <2>1, <3>1, <3>2, <3>3
  <2>7. ChatTypeOK'
    <3>1. Running(c) \subseteq Send /\ Acknowledged(c) \subseteq Send
      BY DEF Running, Acknowledged
    <3>2. send' \in [Send -> [pc: {"idle", "agent", "save", "done", "refused", "gone"},
                              id: Session, copy: Row, heard: BOOLEAN]]
      BY <2>1, <2>5 DEF ChatInv, ChatTypeOK
    <3>3. before' \in [Send -> SUBSET Send] /\ beside' \in [Send -> SUBSET Send]
      BY <2>1, <3>1 DEF ChatInv, ChatTypeOK
    <3> QED BY <2>1, <3>2, <3>3 DEF ChatInv, ChatTypeOK
  <2> HIDE DEF copy
  <2>8. /\ \A d \in Session: Acknowledged(d)' = Acknowledged(d)
        /\ \A d \in Session: d # c => Running(d)' = Running(d)
        /\ Running(c)' = Running(c) \cup {s}
    BY <2>1, <2>6 DEF Acknowledged, Running
  <2>9. ASSUME NEW d \in Session PROVE GoodSession(d)'
    <3>1. GoodSession(d) BY DEF ChatInv
    <3>2. Coherent(session[d])'
      BY <2>1, <2>3, <2>6, <3>1 DEF GoodSession, Coherent, Turns, Acknowledged
    <3>3. Backed(d, session[d], {})'
      BY <2>1, <2>8, <3>1 DEF GoodSession, Backed, Turns
    <3>4. Complete(d, session[d]) => Complete(d, session[d])'
      <4>1. \A t \in Acknowledged(d): t \in Send /\ beside[t] \subseteq beside'[t]
        BY <2>3, <2>6 DEF Acknowledged
      <4> QED BY <2>1, <2>8, <4>1 DEF Complete, Turns
    <3> QED BY <2>1, <3>1, <3>2, <3>3, <3>4 DEF GoodSession, Blank
  <2>10. GoodCopy(s)'
    <3>1. send'[s].copy = copy /\ send'[s].id = c BY <2>6
    <3>2. Turns(send[s].copy)' = Turns(session[c]) \cup {s}
      BY <2>5, <3>1 DEF Turns
    <3>3. Coherent(send[s].copy)'
      BY <2>5, <3>1 DEF Coherent, CoherentBy
    <3>4. Complete(c, send[s].copy)'
      <4>1. Complete(c, session[c]) BY <1>2, <2>2 DEF GoodSession
      <4>2. \A t \in Acknowledged(c): t \in Send /\ beside[t] \subseteq beside'[t]
        BY <2>3, <2>6 DEF Acknowledged
      <4> QED BY <2>1, <2>8, <3>2, <4>1, <4>2 DEF Complete
    <3>5. Backed(c, send[s].copy, {s})'
      BY <2>3, <2>8, <3>2 DEF Backed
    <3> QED BY <2>5, <2>6, <2>8, <3>1, <3>2, <3>3, <3>4, <3>5 DEF GoodCopy
  <2>11. ASSUME NEW d \in Session, NEW t \in Running(d) PROVE GoodCopy(t)'
    <3>1. GoodCopy(t) /\ t \in Send /\ send[t].id = d /\ t # s /\ send'[t] = send[t]
      BY <2>3, <2>6 DEF ChatInv, Running
    <3>2. s \notin Turns(send[t].copy) /\ Turns(send[t].copy) \subseteq Send
      BY <2>3, <3>1 DEF GoodCopy, Backed, Acknowledged
    <3>3. Turns(send[t].copy)' = Turns(send[t].copy)
      BY <3>1 DEF Turns
    <3>4. Coherent(send[t].copy)'
      BY <2>6, <3>1, <3>2 DEF GoodCopy, Coherent, Turns
    <3>5. Complete(d, send[t].copy)'
      <4>1. \A x \in Acknowledged(d): x \in Send /\ beside[x] \subseteq beside'[x]
        BY <2>3, <2>6 DEF Acknowledged
      <4> QED BY <2>1, <2>8, <3>1, <3>3, <4>1 DEF GoodCopy, Complete
    <3>6. Backed(d, send[t].copy, {t})'
      BY <2>8, <3>1, <3>3 DEF GoodCopy, Backed
    <3>7. \A x \in Running(d)': x # t => x \in beside'[t]
      <4>1. beside[t] \subseteq beside'[t] BY <2>6, <3>1
      <4> QED BY <2>6, <2>8, <3>1, <4>1 DEF GoodCopy
    <3> QED BY <3>1, <3>3, <3>4, <3>5, <3>6, <3>7 DEF GoodCopy
  <2>12. \A x, t \in Send: t \in before'[x] => send'[t].pc = "done"
    BY <2>1, <2>6 DEF ChatInv, Acknowledged
  <2>13. \A x \in Send: send'[x].pc \in {"agent", "save", "done"} =>
           session'[send'[x].id].life # "unused"
    BY <1>2, <2>1, <2>6 DEF ChatInv
  <2>14. ASSUME NEW d \in Session, NEW t \in Running(d)' PROVE GoodCopy(t)'
    BY <2>8, <2>10, <2>11
  <2> QED BY <2>7, <2>9, <2>12, <2>13, <2>14 DEF ChatInv
<1> QED BY <1>1, <1>2

\* The agent has answered, or not.
LEMMA Answered ==
  ASSUME ChatInv, NEW s \in Send, NEW heard \in BOOLEAN, Chat(s, heard)
  PROVE  ChatInv'
<1>1. /\ send[s].pc = "agent"
      /\ send' = [send EXCEPT ![s].pc = "save", ![s].heard = heard]
      /\ UNCHANGED <<marred, session, removed, before, beside>>
  BY DEF Chat, traceVars
<1>2. /\ send'[s].pc = "save" /\ send'[s].id = send[s].id /\ send'[s].copy = send[s].copy
      /\ \A t \in Send: t # s => send'[t] = send[t]
  BY <1>1 DEF ChatInv, ChatTypeOK
<1>3. ChatTypeOK'
  BY <1>1, ZenonT(60) DEF ChatInv, ChatTypeOK
<1>4. \A d \in Session: Acknowledged(d)' = Acknowledged(d) /\ Running(d)' = Running(d)
  BY <1>1, <1>2 DEF Acknowledged, Running
<1>5. ASSUME NEW d \in Session PROVE GoodSession(d)'
  <2>1. GoodSession(d) BY DEF ChatInv
  <2> QED BY <1>1, <1>4, <2>1 DEF GoodSession, Coherent, Backed, Complete, Turns, Blank
<1>6. ASSUME NEW d \in Session, NEW t \in Running(d) PROVE GoodCopy(t)'
  <2>1. GoodCopy(t) /\ t \in Send /\ send[t].id = d BY DEF ChatInv, Running
  <2>2. send'[t].copy = send[t].copy /\ send'[t].id = d BY <1>2, <2>1
  <2>3. Coherent(send[t].copy)' /\ Turns(send[t].copy)' = Turns(send[t].copy)
    <3>1. Coherent(send[t].copy) BY <2>1 DEF GoodCopy
    <3>2. CoherentBy(send[t].copy, before)
      BY <3>1 DEF Coherent, CoherentBy
    <3>3. CoherentBy(send'[t].copy, before')
      BY <1>1, <2>2, <3>2
    <3>4. Coherent(send[t].copy)'
      BY <3>3 DEF Coherent, CoherentBy
    <3> QED BY <2>2, <3>4 DEF Turns
  <2>4. Backed(d, send[t].copy, {t})' /\ Complete(d, send[t].copy)'
    BY <1>1, <1>4, <2>1, <2>3 DEF GoodCopy, Backed, Complete
  <2> QED BY <1>1, <1>4, <2>1, <2>2, <2>3, <2>4 DEF GoodCopy
<1>7. \A x, t \in Send: t \in before'[x] => send'[t].pc = "done"
  BY <1>1, <1>2 DEF ChatInv
<1>8. \A x \in Send: send'[x].pc \in {"agent", "save", "done"} =>
        session'[send'[x].id].life # "unused"
  BY <1>1, <1>2, ZenonT(60) DEF ChatInv
<1> QED BY <1>3, <1>4, <1>5, <1>6, <1>7, <1>8 DEF ChatInv

\* A copy is written back, or is not and that is noted.
LEMMA Saved ==
  ASSUME ChatInv, NEW s \in Send, send[s].pc = "save",
         send' = [send EXCEPT ![s].pc = "done", ![s].copy = Blank("unused")],
         \/ session' = Written(send[s].id, send[s].copy)
         \/ session' = session /\ s \in marred',
         marred \subseteq marred', UNCHANGED <<removed, before, beside>>
  PROVE  ChatInv'
<1>a. PICK c \in Session: c = send[s].id
  BY DEF ChatInv, ChatTypeOK
<1>b. PICK copy \in Row: copy = send[s].copy
  BY DEF ChatInv, ChatTypeOK
<1>1. s \in Running(c) /\ GoodCopy(s) /\ copy.life = "live"
  BY <1>a, <1>b DEF ChatInv, Running, GoodCopy
<1>2. /\ send'[s].pc = "done" /\ send'[s].id = c
      /\ \A t \in Send: t # s => send'[t] = send[t]
  BY <1>a DEF ChatInv, ChatTypeOK
<1>3. /\ \A d \in Session: d # c => session'[d] = session[d]
      /\ \/ session[c].life = "live" /\ session'[c] = copy
         \/ session'[c] = session[c] /\ (session[c].life = "live" => s \in marred')
  BY <1>1, <1>a, <1>b DEF ChatInv, ChatTypeOK, Written
<1>4. /\ Acknowledged(c)' = Acknowledged(c) \cup {s} /\ Running(c)' = Running(c) \ {s}
      /\ \A d \in Session: d # c => Acknowledged(d)' = Acknowledged(d) /\ Running(d)' = Running(d)
  BY <1>2, <1>a DEF Acknowledged, Running
<1>5. ChatTypeOK'
  <2>1. session' \in [Session -> Row]
    BY DEF ChatInv, ChatTypeOK, Written
  <2>2. Blank("unused") \in Row BY BlankRow
  <2> QED BY <2>1, <2>2, ZenonT(60) DEF ChatInv, ChatTypeOK
<1>6. GoodSession(c)'
  <2>1. GoodSession(c) BY <1>1 DEF ChatInv
  <2>2. CASE session[c].life = "live" /\ session'[c] = copy
    <3>1. Coherent(session[c])'
      BY <1>1, <1>b, <2>2 DEF GoodCopy, Coherent
    <3>2. Turns(session[c])' = Turns(copy)
      BY <2>2 DEF Turns
    <3>3. Backed(c, session[c], {})' /\ Complete(c, session[c])'
      BY <1>1, <1>a, <1>b, <1>4, <3>2 DEF GoodCopy, Backed, Complete
    <3> QED BY <1>1, <2>1, <2>2, <3>1, <3>3 DEF GoodSession
  <2>3. CASE session'[c] = session[c] /\ (session[c].life = "live" => s \in marred')
    <3>1. Coherent(session[c])' /\ Turns(session[c])' = Turns(session[c])
      BY <2>1, <2>3 DEF GoodSession, Coherent, Turns
    <3>2. Backed(c, session[c], {})'
      BY <1>4, <2>1, <3>1 DEF GoodSession, Backed
    <3>3. session[c].life = "live" => Complete(c, session[c])'
      BY <1>4, <2>1, <2>3, <3>1 DEF GoodSession, Complete
    <3> QED BY <2>1, <2>3, <3>1, <3>2, <3>3 DEF GoodSession, Blank
  <2> QED BY <1>3, <2>2, <2>3
<1>7. ASSUME NEW d \in Session, d # c PROVE GoodSession(d)'
  <2>1. GoodSession(d) /\ session'[d] = session[d] BY <1>3, <1>7 DEF ChatInv
  <2>2. Acknowledged(d)' = Acknowledged(d) BY <1>4, <1>7
  <2> QED BY <2>1, <2>2 DEF GoodSession, Coherent, Backed, Complete, Turns, Blank
<1>8. ASSUME NEW d \in Session, NEW t \in Running(d)' PROVE GoodCopy(t)'
  <2>1. t \in Running(d) /\ t # s BY <1>1, <1>2, <1>4 DEF Running
  <2>2. GoodCopy(t) /\ t \in Send /\ send[t].id = d /\ send'[t] = send[t]
    BY <1>2, <2>1 DEF ChatInv, Running
  <2>3. Coherent(send[t].copy)' /\ Turns(send[t].copy)' = Turns(send[t].copy)
    <3>1. Coherent(send[t].copy) BY <2>2 DEF GoodCopy
    <3>2. CoherentBy(send[t].copy, before)
      BY <3>1 DEF Coherent, CoherentBy
    <3>3. CoherentBy(send'[t].copy, before')
      BY <2>2, <3>2
    <3>4. Coherent(send[t].copy)'
      BY <3>3 DEF Coherent, CoherentBy
    <3> QED BY <2>2, <3>4 DEF Turns
  <2>4. Backed(d, send[t].copy, {t})'
    BY <1>4, <2>2, <2>3 DEF GoodCopy, Backed
  <2>5. d = c => beside'[s] # {}
    BY <1>1, <1>a, <2>1 DEF GoodCopy
  <2>6. Complete(d, send[t].copy)'
    BY <1>4, <2>2, <2>3, <2>5 DEF GoodCopy, Complete
  <2>7. \A x \in Running(d)': x # t => x \in beside'[t]
    BY <1>4, <2>2 DEF GoodCopy
  <2> QED BY <2>2, <2>3, <2>4, <2>6, <2>7 DEF GoodCopy
<1>9. \A x, t \in Send: t \in before'[x] => send'[t].pc = "done"
  BY <1>2 DEF ChatInv
<1>10. ASSUME NEW x \in Send, send'[x].pc \in {"agent", "save", "done"}
       PROVE  session'[send'[x].id].life # "unused"
  <2>1. send'[x].id = send[x].id /\ send[x].pc \in {"agent", "save", "done"}
        /\ send[x].id \in Session
    BY <1>2, <1>10 DEF ChatInv, ChatTypeOK
  <2>2. session[send[x].id].life # "unused" BY <2>1 DEF ChatInv
  <2> QED BY <1>1, <1>3, <2>1, <2>2
<1> QED BY <1>5, <1>6, <1>7, <1>8, <1>9, <1>10 DEF ChatInv

\* The hub stops: nobody is at work any more.
LEMMA Stopped ==
  ASSUME ChatInv, HubStops
  PROVE  ChatInv'
<1>1. /\ send' = [s \in Send |-> IF send[s].pc \in {"agent", "save"}
                   THEN [send[s] EXCEPT !.pc = "gone", !.copy = Blank("unused")] ELSE send[s]]
      /\ marred \subseteq marred' /\ UNCHANGED <<session, removed, before, beside>>
  BY DEF HubStops
<1>2. ASSUME NEW s \in Send
      PROVE  /\ send'[s].id = send[s].id
             /\ send'[s].pc = IF send[s].pc \in {"agent", "save"} THEN "gone" ELSE send[s].pc
  BY <1>1 DEF ChatInv, ChatTypeOK
<1>3. ChatTypeOK'
  <2>1. Blank("unused") \in Row BY BlankRow
  <2> QED BY <1>1, <2>1 DEF ChatInv, ChatTypeOK
<1>4. \A d \in Session: Acknowledged(d)' = Acknowledged(d) /\ Running(d)' = {}
  BY <1>2 DEF Acknowledged, Running
<1>5. ASSUME NEW d \in Session PROVE GoodSession(d)'
  <2>1. GoodSession(d) BY DEF ChatInv
  <2> QED BY <1>1, <1>4, <2>1 DEF GoodSession, Coherent, Backed, Complete, Turns, Blank
<1>6. \A x, t \in Send: t \in before'[x] => send'[t].pc = "done"
  BY <1>1, <1>2 DEF ChatInv
<1>7. \A x \in Send: send'[x].pc \in {"agent", "save", "done"} =>
        session'[send'[x].id].life # "unused"
  BY <1>1, <1>2 DEF ChatInv
<1> QED BY <1>3, <1>4, <1>5, <1>6, <1>7 DEF ChatInv

LEMMA ChatInvInit ==
  ASSUME Init
  PROVE  ChatInv
<1>1. /\ session = [c \in Session |-> Blank("unused")] /\ removed = {}
      /\ \A s \in Send: send[s].pc = "idle"
      /\ before = [s \in Send |-> {}]
  BY DEF Init, ChatInit
<1>2. Blank("unused") \in Row /\ Blank("unused").life = "unused"
      /\ Coherent(Blank("unused")) /\ Turns(Blank("unused")) = {}
  BY BlankRow
<1>3. ChatTypeOK
  BY <1>2, ChatAssumption DEF Init, ChatInit, ChatTypeOK
<1>4. \A c \in Session: Acknowledged(c) = {} /\ Running(c) = {}
  BY <1>1 DEF Acknowledged, Running
<1>5. ASSUME NEW c \in Session PROVE GoodSession(c)
  <2>1. session[c] = Blank("unused") BY <1>1
  <2> QED BY <1>1, <1>2, <1>4, <2>1 DEF GoodSession, Backed
<1> QED BY <1>1, <1>3, <1>4, <1>5 DEF ChatInv

\* What a step of the chat, or of anything else, does to the sessions.
LEMMA ChatStep ==
  ASSUME ChatInv, ChatNext
  PROVE  ChatInv'
<1>1. ASSUME NEW c \in Session, CreateChatSession(c) PROVE ChatInv'
  BY <1>1, Replaced DEF CreateChatSession
<1>2. ASSUME NEW c \in Session, DeleteChatSession(c) PROVE ChatInv'
  BY <1>2, Replaced DEF DeleteChatSession
<1>3. ASSUME NEW s \in Send, NEW c \in Session, GetChatSession(s, c) PROVE ChatInv'
  BY <1>3, Begun
<1>4. ASSUME NEW s \in Send, NEW heard \in BOOLEAN, Chat(s, heard) PROVE ChatInv'
  BY <1>4, Answered
<1>5. ASSUME NEW s \in Send, UpdateChatSession(s) \/ UpdateFails(s) PROVE ChatInv'
  <2>1. /\ send[s].pc = "save" /\ UNCHANGED <<removed, before, beside>>
        /\ send' = [send EXCEPT ![s].pc = "done", ![s].copy = Blank("unused")]
    BY <1>5 DEF UpdateChatSession, UpdateFails, Acknowledge
  <2>2. /\ marred \subseteq marred'
        /\ \/ session' = Written(send[s].id, send[s].copy)
           \/ session' = session /\ s \in marred'
    BY <1>5 DEF UpdateChatSession, UpdateFails
  <2> QED BY <2>1, <2>2, Saved
<1> QED BY <1>1, <1>2, <1>3, <1>4, <1>5 DEF ChatNext, SendStep

LEMMA ChatInvStep ==
  ASSUME ChatInv, [Next]_vars
  PROVE  ChatInv'
<1>1. CASE QueryNext /\ UNCHANGED chatVars
  <2>1. marred' = marred
    BY <1>1 DEF QueryNext, QueryStep, QueryFails, FormLeaf, Store, HandleQuery, GetPod,
                GetPodFails, ListPods, ListPodsFails, FetchFromPod, FetchFails, Judge,
                AgentAnswers, AgentFails, SeedCert, traceVars
  <2> QED BY <1>1, <2>1, Elsewhere
<1>2. CASE ChatNext /\ UNCHANGED queryVars
  BY <1>2, ChatStep
<1>3. ASSUME NEW r \in Asker, JobStep(r) \/ JobFails(r), UNCHANGED chatVars
      PROVE  ChatInv'
  <2>1. marred \subseteq marred'
    BY <1>3 DEF JobStep, JobFails, InsertTrace, InsertTraceFails, Embed, StoreIncident,
                StoreIncidentFails
  <2> QED BY <1>3, <2>1, Elsewhere
<1>4. CASE HubStops
  BY <1>4, Stopped
<1>5. CASE UNCHANGED vars
  BY <1>5, Elsewhere DEF vars, traceVars
<1> QED BY <1>1, <1>2, <1>3, <1>4, <1>5 DEF Next

LEMMA ChatInvHolds == Spec => []ChatInv
<1>1. Init => ChatInv BY ChatInvInit
<1>2. ChatInv /\ [Next]_vars => ChatInv' BY ChatInvStep
<1> QED BY <1>1, <1>2, PTL DEF Spec

\* A session is the conversation its client has had, however many messages
\* race each other, a delete, a failing write or a hub that stops.
THEOREM ConversationAlwaysHolds == Spec => []ConversationHolds
<1>1. ChatInv => ConversationHolds
  BY DEF ChatInv, GoodSession, ConversationHolds, Complete
<1> QED BY <1>1, ChatInvHolds, PTL

(***************************************************************************)
(* The fast path's verdict                                                 *)
(***************************************************************************)

Most == Cardinality(Leaf) * Cardinality(Entity)

Contents == [Leaf -> [Entity -> State]]

\* As many rows as there can be.
LEMMA Bounds ==
  /\ Most \in Nat /\ Cardinality(Entity) \in Nat /\ Cardinality(Entity) <= Most
  /\ \A S \in SUBSET (Leaf \X Entity):
       IsFiniteSet(S) /\ Cardinality(S) \in Nat /\ Cardinality(S) <= Most
  /\ \A S \in SUBSET Entity:
       IsFiniteSet(S) /\ Cardinality(S) \in Nat /\ Cardinality(S) <= Most
<1>1. IsFiniteSet(Space) /\ IsFiniteSet(Entity) /\ Certs \notin Space
  BY QueryAssumption
<1>2. Cardinality(Space) \in Nat /\ Cardinality(Entity) \in Nat
  BY <1>1, FS_CardinalityType
<1>3. IsFiniteSet(Leaf) /\ Cardinality(Leaf) = Cardinality(Space) + 1
  BY <1>1, FS_AddElement DEF Leaf
<1>4. IsFiniteSet(Leaf \X Entity) /\ Cardinality(Leaf \X Entity) = Most
  BY <1>1, <1>3, FS_Product DEF Most
<1>5. Most \in Nat
  BY <1>4, FS_CardinalityType
<1>6. Cardinality(Entity) <= Most
  <2>1. \A s, e \in Nat: e <= (s + 1) * e
    OBVIOUS
  <2> QED
    BY <1>2, <1>3, <2>1 DEF Most
<1>7. \A S \in SUBSET (Leaf \X Entity):
        IsFiniteSet(S) /\ Cardinality(S) \in Nat /\ Cardinality(S) <= Most
  BY <1>4, FS_Subset, FS_CardinalityType
<1>8. \A S \in SUBSET Entity:
        IsFiniteSet(S) /\ Cardinality(S) \in Nat /\ Cardinality(S) <= Most
  <2> SUFFICES ASSUME NEW S \in SUBSET Entity
               PROVE  IsFiniteSet(S) /\ Cardinality(S) \in Nat /\ Cardinality(S) <= Most
    OBVIOUS
  <2>1. IsFiniteSet(S) /\ Cardinality(S) <= Cardinality(Entity)
    BY <1>1, FS_Subset
  <2>2. Cardinality(S) \in Nat
    BY <2>1, FS_CardinalityType
  <2> QED
    BY <1>2, <1>5, <1>6, <2>1, <2>2
<1> QED
  BY <1>2, <1>5, <1>6, <1>7, <1>8

\* What the rules make of a leaf, and what the fast path makes of any leaves,
\* can be put into a reply.
LEMMA TruthTyped ==
  ASSUME NEW intent, NEW content
  PROVE  Truth(intent, content) \in Verdict
<1> DEFINE ok  == Cardinality({e \in Entity \ Worker: content[e] = "ok"})
           bad == Cardinality({e \in Entity \ Worker: content[e] = "bad"})
           due == Cardinality({e \in Entity: content[e] = "bad"})
           health == [status |-> IF ok > 0 /\ 4 * bad <= ok + bad THEN "healthy"
                                 ELSE IF ok > 0 THEN "degraded" ELSE "unhealthy",
                      count  |-> ok]
<1>1. ok \in 0..Most /\ due \in 0..Most
  BY Bounds
<1>2. Truth(intent, content) =
        CASE intent = "health_check" -> health
          [] intent = "cert_check" /\ content = Nothing ->
               [status |-> "not_applicable", count |-> 0]
          [] OTHER -> [status |-> "ok", count |-> due]
  BY DEF Truth, NoCertificates
<1>3. Verdict = [status: Status, count: 0..Most]
  BY DEF Verdict, Most
<1>4. 0 \in 0..Most
  BY Bounds
<1> HIDE DEF ok, bad, due
<1>5. CASE intent = "health_check"
  BY <1>1, <1>2, <1>3, <1>5 DEF Status
<1>6. CASE intent = "cert_check" /\ content = Nothing
  BY <1>2, <1>3, <1>4, <1>6 DEF Status
<1>7. CASE intent # "health_check" /\ ~(intent = "cert_check" /\ content = Nothing)
  BY <1>1, <1>2, <1>3, <1>7 DEF Status
<1> QED
  BY <1>5, <1>6, <1>7

LEMMA FastPathTyped ==
  ASSUME NEW intent, NEW route \in SUBSET Leaf, NEW read
  PROVE  tryDeterministic(intent, route, read) \subseteq Verdict
<1> DEFINE active == Active(route, read)
           healthy == {x \in active: PodHealth(read[x[1]][x[2]]) = "healthy"}
           certs == {x \in route \X Entity: read[x[1]][x[2]] # "none"}
           due == {x \in certs: CertRenewal(read[x[1]][x[2]])}
           h == Cardinality(healthy)
           c == Cardinality(due)
           a == Cardinality(active)
<1>1. healthy \in SUBSET (Leaf \X Entity) /\ due \in SUBSET (Leaf \X Entity)
      /\ active \in SUBSET (Leaf \X Entity)
  BY DEF Active, forEachRow
<1>2. h \in 0..Most /\ c \in 0..Most /\ 0 \in 0..Most /\ h \in Nat /\ a \in Nat
  BY <1>1, Bounds
<1>3. Verdict = [status: Status, count: 0..Most]
  BY DEF Verdict, Most
<1>4. /\ tier1Health(route, read) =
           IF active = {} THEN {} ELSE {[status |-> ServiceStatus(h, a), count |-> h]}
      /\ tier1Cert(route, read) =
           IF certs = {} THEN {[status |-> "not_applicable", count |-> 0]}
                         ELSE {[status |-> "ok", count |-> c]}
  BY DEF tier1Health, tier1Cert, NoCertificates
<1> HIDE DEF active, certs, h, a, c
<1>5. ServiceStatus(h, a) \in Status
  <2>1. h = 0 \/ (h > 0 /\ 4 * h >= 3 * a) \/ (h # 0 /\ ~(h > 0 /\ 4 * h >= 3 * a))
    BY <1>2
  <2> QED
    BY <2>1 DEF ServiceStatus, Status
<1>6. tier1Health(route, read) \subseteq Verdict /\ tier1Cert(route, read) \subseteq Verdict
  BY <1>2, <1>3, <1>4, <1>5 DEF Status
<1> QED
  BY <1>6 DEF tryDeterministic

\* What the fast path says of one leaf is the truth of its content.
LEMMA VerdictIsTruth ==
  ASSUME NEW intent, NEW l, NEW read, read[l] \in [Entity -> State],
         intent = "cert_check" => \A e \in Entity: read[l][e] \notin Terminated,
         NEW v \in tryDeterministic(intent, {l}, read)
  PROVE  v = Truth(intent, read[l])
<1> DEFINE content == read[l]
           ok  == {e \in Entity \ Worker: content[e] = "ok"}
           bad == {e \in Entity \ Worker: content[e] = "bad"}
           due == {e \in Entity: content[e] = "bad"}
<1>1. /\ IsFiniteSet(ok) /\ IsFiniteSet(bad) /\ IsFiniteSet(due) /\ IsFiniteSet(ok \cup bad)
      /\ Cardinality(ok) \in Nat /\ Cardinality(bad) \in Nat /\ Cardinality(due) \in Nat
  BY Bounds
<1>2. \A S \in SUBSET Entity: Cardinality({l} \X S) = Cardinality(S)
  <2> SUFFICES ASSUME NEW S \in SUBSET Entity PROVE Cardinality({l} \X S) = Cardinality(S)
    OBVIOUS
  <2>1. IsFiniteSet({l}) /\ Cardinality({l}) = 1
    BY FS_Singleton
  <2>2. IsFiniteSet(S) /\ Cardinality(S) \in Nat
    BY Bounds
  <2>3. Cardinality({l} \X S) = 1 * Cardinality(S)
    BY <2>1, <2>2, FS_Product
  <2> QED
    BY <2>2, <2>3
<1>3. CASE intent = "health_check"
  <2>1. Active({l}, read) = {l} \X (ok \cup bad)
    BY DEF Active, forEachRow, entityMatchesService, State, Terminated
  <2>2. {x \in Active({l}, read): PodHealth(read[x[1]][x[2]]) = "healthy"} = {l} \X ok
    BY <2>1 DEF PodHealth
  <2>3. Cardinality(ok \cup bad) = Cardinality(ok) + Cardinality(bad)
    <3>1. ok \cap bad = {}
      OBVIOUS
    <3> HIDE DEF ok, bad
    <3>2. Cardinality(ok \cup bad)
            = Cardinality(ok) + Cardinality(bad) - Cardinality(ok \cap bad)
      BY <1>1, FS_Union
    <3>3. Cardinality(ok \cap bad) = 0
      BY <3>1, FS_EmptySet
    <3> QED
      BY <1>1, <3>2, <3>3
  <2>4. /\ Cardinality({l} \X ok) = Cardinality(ok)
        /\ Cardinality({l} \X (ok \cup bad)) = Cardinality(ok) + Cardinality(bad)
    BY <1>2, <2>3
  <2> DEFINE o == Cardinality(ok)
             b == Cardinality(bad)
  <2>5. v = [status |-> ServiceStatus(o, o + b), count |-> o]
    BY <1>3, <2>1, <2>2, <2>4 DEF tryDeterministic, tier1Health
  <2>6. Truth(intent, content) =
          [status |-> IF o > 0 /\ 4 * b <= o + b THEN "healthy"
                      ELSE IF o > 0 THEN "degraded" ELSE "unhealthy",
           count  |-> o]
    BY <1>3 DEF Truth
  <2>7. o \in Nat /\ b \in Nat
    BY <1>1
  <2> HIDE DEF o, b
  <2>8. ServiceStatus(o, o + b) = IF o > 0 /\ 4 * b <= o + b THEN "healthy"
                                  ELSE IF o > 0 THEN "degraded" ELSE "unhealthy"
    BY <2>7 DEF ServiceStatus
  <2> QED
    BY <2>5, <2>6, <2>8
<1>4. CASE intent = "cert_check"
  <2> DEFINE certs == {x \in {l} \X Entity: read[x[1]][x[2]] # "none"}
  <2>1. {x \in certs: CertRenewal(read[x[1]][x[2]])} = {l} \X due
    BY <1>4 DEF CertRenewal, State, Terminated
  <2>2. certs = {} <=> content = Nothing
    <3>1. certs = {} => content = Nothing
      <4> SUFFICES ASSUME certs = {} PROVE content = Nothing
        OBVIOUS
      <4>1. \A e \in Entity: <<l, e>> \notin certs
        OBVIOUS
      <4>2. \A e \in Entity: content[e] = "none"
        BY <4>1
      <4> QED
        BY <4>2 DEF Nothing
    <3>2. content = Nothing => certs = {}
      BY DEF Nothing
    <3> QED
      BY <3>1, <3>2
  <2>3. Cardinality({l} \X due) = Cardinality(due)
    BY <1>2
  <2>4. v = IF certs = {} THEN [status |-> "not_applicable", count |-> 0]
                          ELSE [status |-> "ok", count |-> Cardinality(due)]
    BY <1>4, <2>1, <2>3 DEF tryDeterministic, tier1Cert, NoCertificates
  <2>5. Truth(intent, content) =
          IF content = Nothing THEN [status |-> "not_applicable", count |-> 0]
                               ELSE [status |-> "ok", count |-> Cardinality(due)]
    BY <1>4 DEF Truth, NoCertificates
  <2> QED
    BY <2>2, <2>4, <2>5
<1>5. intent \in {"health_check", "cert_check"}
  BY DEF tryDeterministic
<1> QED
  BY <1>3, <1>4, <1>5

\* Of a leaf that could not be read the fast path says no more than that there
\* are no certificates.
LEMMA NothingIsSaid ==
  ASSUME NEW intent, NEW l, NEW read, read[l] = Nothing,
         NEW v \in tryDeterministic(intent, {l}, read)
  PROVE  v = NoCertificates
<1>1. \A x \in {l} \X Entity: read[x[1]][x[2]] = "none"
  BY DEF Nothing
<1>2. tier1Health({l}, read) = {}
  BY <1>1 DEF tier1Health, Active, forEachRow
<1>3. tier1Cert({l}, read) = {NoCertificates}
  BY <1>1 DEF tier1Cert
<1> QED
  BY <1>2, <1>3 DEF tryDeterministic

(***************************************************************************)
(* What holds of a question at all times                                   *)
(***************************************************************************)

Asked == [pc: {"idle", "get", "list", "fetch", "agent", "seed", "done", "gone"},
          intent: Intent, space: Space, route: SUBSET Leaf, left: SUBSET Leaf,
          failed: BOOLEAN, read: Contents]

\* Of the questions the fast path can answer, and the leaf they are about.
Tried(x) == x.intent \in {"health_check", "cert_check"}

Topic(x) == About(x.intent, x.space)

\* While x is open, what could be said of its leaf now is among what was seen.
Current(x, known, contents) ==
  x.pc \notin {"idle", "done", "gone"} /\ Tried(x)
    => Truth(x.intent, contents[Topic(x)]) \in known

\* What x has read of its leaf is what the leaf was at some instant, and of a
\* leaf it could not read, or has not read yet, it knows nothing.
Faithful(x, known) ==
  /\ x.left \subseteq x.route
  /\ \A e \in Entity: x.read[Certs][e] \notin Terminated
  /\ x.pc \in {"get", "list"} => ~x.failed /\ x.read = [l \in Leaf |-> Nothing]
  /\ \A l \in x.left: x.read[l] = Nothing
  /\ x.pc = "fetch" /\ Tried(x) /\ ~x.failed /\ x.route = {Topic(x)} /\ x.left = {}
       => Truth(x.intent, x.read[Topic(x)]) \in known
  /\ x.pc = "fetch" /\ x.failed /\ x.route = {Topic(x)}
       => x.left = {} /\ x.read[Topic(x)] = Nothing

\* What was said of it by the fast path.
Fair(x, verdict, known) ==
  verdict \in known \/ (x.failed /\ verdict = NoCertificates)

\* Once x was answered by the fast path, the answer is such a one.
Grounded(x, answer, known) ==
  x.pc = "done" /\ answer.tier = "tier1" /\ x.route = {Topic(x)}
    => Fair(x, answer.verdict, known)

GoodQuery(x, answer, known, contents) ==
  Current(x, known, contents) /\ Faithful(x, known) /\ Grounded(x, answer, known)

\* Certificates do not complete, as pods do.
NoneDone(contents) == \A e \in Entity: contents[Certs][e] \notin Terminated

QueryInv ==
  /\ TracesTypeOK
  /\ QueryTypeOK
  /\ NoneDone(rows)
  /\ \A q \in Query: GoodQuery(query[q], reply[q], seen[q], rows)

LEMMA QueryInvDomains ==
  ASSUME QueryInv
  PROVE  /\ query \in [Query -> Asked] /\ reply \in [Query -> Reply]
         /\ rows \in Contents /\ seen \in [Query -> SUBSET Verdict]
BY DEF QueryInv, QueryTypeOK, Asked, Contents

LEMMA TopicIsLeaf ==
  ASSUME NEW x \in Asked
  PROVE  Topic(x) \in Leaf
BY DEF Asked, Topic, About, Leaf

(***************************************************************************)
(* The traces                                                              *)
(***************************************************************************)

LEMMA LogTyped ==
  ASSUME TracesTypeOK, NEW r \in Asker, NEW intent \in Intent, NEW tier \in Tier,
         NEW status \in Status, NEW resp \in Resp,
         logTrace(r, intent, tier, status, resp), UNCHANGED <<tables, marred>>
  PROVE  TracesTypeOK'
<1>1. [intent |-> intent, tier |-> tier, status |-> status, resp |-> resp] \in Log
  BY DEF Log
<1> QED
  BY <1>1 DEF TracesTypeOK, logTrace, tables

LEMMA JobTyped ==
  ASSUME TracesTypeOK, NEW r \in Asker, JobStep(r) \/ JobFails(r)
  PROVE  TracesTypeOK'
<1>1. /\ TraceRow(r) \in [id: Id, trace_id: Id, tier: Tier, status: Status]
      /\ IncidentRow(r) \in [id: Id, trace_id: Id, embedded: BOOLEAN]
  BY DEF TracesTypeOK, TraceRow, IncidentRow, Id, Log
<1>2. CASE InsertTrace(r)
  BY <1>1, <1>2 DEF InsertTrace, TracesTypeOK, Goto
<1>3. CASE InsertTraceFails(r)
  BY <1>1, <1>3 DEF InsertTraceFails, TracesTypeOK, Goto
<1>4. ASSUME NEW available \in BOOLEAN, Embed(r, available)
      PROVE  TracesTypeOK'
  BY <1>4 DEF Embed, TracesTypeOK, tables
<1>5. CASE StoreIncident(r)
  BY <1>1, <1>5 DEF StoreIncident, TracesTypeOK, Goto
<1>6. CASE StoreIncidentFails(r)
  BY <1>6 DEF StoreIncidentFails, TracesTypeOK, Goto, tables
<1> QED
  BY <1>2, <1>3, <1>4, <1>5, <1>6 DEF JobStep, JobFails

\* A step of the chat logs at most a message.
LEMMA ChatTyped ==
  ASSUME TracesTypeOK, ChatNext
  PROVE  TracesTypeOK'
<1>1. ASSUME NEW s \in Send, Acknowledge(s), UNCHANGED tables, marred' \in SUBSET Asker
      PROVE  TracesTypeOK'
  <2>1. s \in Asker
    BY ChatAssumption
  <2>2. CASE logTrace(s, "chat", "tier2", "ok", "text")
    <3>1. [intent |-> "chat", tier |-> "tier2", status |-> "ok", resp |-> "text"] \in Log
      BY DEF Log, Intent, Tier, Status, Resp
    <3> QED
      BY <1>1, <2>1, <2>2, <3>1 DEF TracesTypeOK, logTrace, tables
  <2>3. CASE UNCHANGED job
    BY <1>1, <2>3 DEF TracesTypeOK, tables
  <2> QED
    BY <1>1, <2>2, <2>3 DEF Acknowledge
<1>2. ASSUME NEW s \in Send, UpdateChatSession(s) \/ UpdateFails(s)
      PROVE  TracesTypeOK'
  <2>1. s \in Asker
    BY ChatAssumption
  <2>2. Acknowledge(s) /\ UNCHANGED tables /\ marred' \in SUBSET Asker
    BY <1>2, <2>1 DEF UpdateChatSession, UpdateFails, TracesTypeOK
  <2> QED
    BY <1>1, <2>2
<1>3. CASE UNCHANGED <<job, tables, marred>>
  BY <1>3 DEF TracesTypeOK, tables
<1> QED
  BY <1>2, <1>3 DEF ChatNext, SendStep, CreateChatSession, DeleteChatSession,
                    GetChatSession, Chat, traceVars

(***************************************************************************)
(* The questions                                                           *)
(***************************************************************************)

\* One question goes on.
LEMMA Moved ==
  ASSUME QueryInv, NEW q \in Query, NEW x \in Asked, NEW r \in Reply,
         query' = [query EXCEPT ![q] = x], reply' = [reply EXCEPT ![q] = r],
         seeds' \in SUBSET Query, UNCHANGED <<storeVars, seen>>, TracesTypeOK',
         GoodQuery(x, r, seen[q], rows)
  PROVE  QueryInv'
<1>1. /\ query \in [Query -> Asked] /\ reply \in [Query -> Reply]
      /\ UNCHANGED <<leaves, rows, seen>>
  BY QueryInvDomains DEF storeVars
<1>2. query' \in [Query -> Asked] /\ reply' \in [Query -> Reply]
  BY <1>1
<1>3. QueryTypeOK'
  BY <1>1, <1>2 DEF QueryInv, QueryTypeOK, Asked, Contents
<1>4. ASSUME NEW p \in Query PROVE GoodQuery(query'[p], reply'[p], seen[p], rows)
  <2>1. CASE p = q
    BY <1>1, <2>1
  <2>2. CASE p # q
    BY <1>1, <2>2 DEF QueryInv
  <2> QED
    BY <2>1, <2>2
<1>5. NoneDone(rows')
  BY <1>1 DEF QueryInv
<1> QED
  BY <1>1, <1>3, <1>4, <1>5 DEF QueryInv

\* One question goes on, and nobody is told anything.
LEMMA Turned ==
  ASSUME QueryInv, NEW q \in Query, NEW x \in Asked,
         query' = [query EXCEPT ![q] = x], GoodQuery(x, reply[q], seen[q], rows),
         UNCHANGED <<job, tables, marred, storeVars, reply, seeds, seen>>
  PROVE  QueryInv'
<1>1. PICK r \in Reply: r = reply[q]
  BY QueryInvDomains
<1>2. reply' = [reply EXCEPT ![q] = r]
  BY <1>1, QueryInvDomains
<1>3. TracesTypeOK' /\ seeds' \in SUBSET Query
  BY DEF QueryInv, QueryTypeOK, TracesTypeOK, tables
<1> QED
  BY <1>1, <1>2, <1>3, Moved

\* What is left of a question once it is handed on.
LEMMA ClosedIs ==
  ASSUME QueryInv, NEW q \in Query, NEW pc \in {"agent", "done", "gone"}
  PROVE  \E x \in Asked:
           /\ Closed(q, pc) = [query EXCEPT ![q] = x]
           /\ x.pc = pc /\ x.intent = query[q].intent /\ x.space = query[q].space
           /\ x.route = query[q].route /\ x.failed = query[q].failed /\ x.left = {}
           /\ x.read = [l \in Leaf |-> Nothing]
<1> DEFINE x == [query[q] EXCEPT !.pc = pc, !.left = {}, !.read = [l \in Leaf |-> Nothing]]
<1>1. query[q] \in Asked /\ query \in [Query -> Asked]
  BY QueryInvDomains
<1>2. [l \in Leaf |-> Nothing] \in Contents
  BY DEF Contents, Nothing, State
<1>3. /\ x \in Asked
      /\ x.pc = pc /\ x.intent = query[q].intent /\ x.space = query[q].space
      /\ x.route = query[q].route /\ x.failed = query[q].failed /\ x.left = {}
      /\ x.read = [l \in Leaf |-> Nothing]
  BY <1>1, <1>2 DEF Asked
<1>4. Closed(q, pc) = [query EXCEPT ![q] = x]
  BY <1>1 DEF Closed
<1> QED
  BY <1>3, <1>4

\* A question that is closed need only have been answered well.
LEMMA ClosedIsGood ==
  ASSUME NEW x \in Asked, x.pc \in {"done", "gone"}, x.left = {},
         x.read = [l \in Leaf |-> Nothing], NEW answer, NEW known, NEW contents,
         Grounded(x, answer, known)
  PROVE  GoodQuery(x, answer, known, contents)
<1>1. \A e \in Entity: x.read[Certs][e] \notin Terminated
  BY DEF Leaf, Nothing, Terminated
<1> QED
  BY <1>1 DEF GoodQuery, Current, Faithful

\* A question is answered.
LEMMA Replied ==
  ASSUME QueryInv, NEW q \in Query, NEW tier \in Tier, NEW verdict \in Verdict,
         NEW resp \in Resp, Answer(q, tier, verdict, resp),
         \/ tier # "tier1"
         \/ query[q].route = {Topic(query[q])} => Fair(query[q], verdict, seen[q]),
         UNCHANGED <<tables, marred, storeVars, seen>>, seeds' \in SUBSET Query
  PROVE  QueryInv'
<1>1. PICK r \in Reply: r = [tier |-> tier, verdict |-> verdict]
  BY DEF Reply
<1>2. PICK intent \in Intent: intent = query[q].intent
  BY QueryInvDomains DEF Asked
<1>3. PICK x \in Asked:
        /\ Closed(q, "done") = [query EXCEPT ![q] = x]
        /\ x.pc = "done" /\ x.intent = query[q].intent /\ x.space = query[q].space
        /\ x.route = query[q].route /\ x.failed = query[q].failed /\ x.left = {}
        /\ x.read = [l \in Leaf |-> Nothing]
  BY ClosedIs
<1>4. TracesTypeOK'
  <2>1. verdict.status \in Status /\ q \in Asker
    BY QueryAssumption DEF Verdict
  <2> QED
    BY <1>2, <2>1, LogTyped DEF Answer, QueryInv
<1>5. Grounded(x, r, seen[q])
  BY <1>1, <1>3 DEF Grounded, Topic, Fair
<1>6. GoodQuery(x, r, seen[q], rows)
  BY <1>3, <1>5, ClosedIsGood
<1> QED
  BY <1>1, <1>3, <1>4, <1>6, Moved DEF Answer

\* A question is answered with no more than a tier and a status.
LEMMA RepliedPlainly ==
  ASSUME QueryInv, NEW q \in Query, NEW tier \in Tier \ {"tier1"}, NEW status \in Status,
         NEW resp \in Resp, AnswerPlainly(q, tier, status, resp),
         UNCHANGED <<tables, marred, storeVars, seen>>, seeds' \in SUBSET Query
  PROVE  QueryInv'
<1>1. 0 \in 0..Most
  BY Bounds
<1>2. PICK v \in Verdict: v = Said(tier, status).verdict
  BY <1>1 DEF Said, Verdict, Most
<1> QED
  BY <1>2, Replied DEF AnswerPlainly

\* A question goes to the pods it was routed to.
LEMMA RoutedOn ==
  ASSUME QueryInv, NEW q \in Query, query[q].pc \in {"get", "list"},
         NEW pods \in SUBSET Leaf, Routed(q, pods),
         UNCHANGED <<tables, marred, storeVars, seeds, seen>>
  PROVE  QueryInv'
<1>1. CASE pods = {}
  <2>1. seeds' \in SUBSET Query
    BY DEF QueryInv, QueryTypeOK
  <2>2. AnswerPlainly(q, "no_data", "no_data", "nil")
    BY <1>1 DEF Routed
  <2> QED
    BY <2>1, <2>2, RepliedPlainly DEF Tier, Status, Resp
<1>2. CASE pods # {}
  <2> DEFINE y == [query[q] EXCEPT !.pc = "fetch", !.route = pods, !.left = pods]
  <2>1. query[q] \in Asked /\ query \in [Query -> Asked] /\ reply \in [Query -> Reply]
    BY QueryInvDomains
  <2>2. PICK x \in Asked: x = y
    BY <2>1 DEF Asked
  <2>3. /\ x.pc = "fetch" /\ x.intent = query[q].intent /\ x.space = query[q].space
        /\ x.left = pods /\ x.route = pods /\ x.read = query[q].read
        /\ x.failed = query[q].failed
    BY <2>1, <2>2 DEF Asked
  <2>4. query' = [query EXCEPT ![q] = x] /\ UNCHANGED <<job, reply>>
    BY <1>2, <2>1, <2>2 DEF Routed
  <2>5. GoodQuery(query[q], reply[q], seen[q], rows)
    BY DEF QueryInv
  <2>6. GoodQuery(x, reply[q], seen[q], rows)
    BY <1>2, <2>3, <2>5 DEF GoodQuery, Current, Faithful, Grounded, Tried, Topic
  <2> QED
    BY <2>4, <2>6, Turned
<1> QED
  BY <1>1, <1>2

LEMMA NotFoundOn ==
  ASSUME QueryInv, NEW q \in Query, query[q].pc = "get", NotFound(q),
         UNCHANGED <<tables, marred, storeVars, seeds, seen>>
  PROVE  QueryInv'
<1>1. CASE query[q].intent = "health_check"
  <2>1. query[q] \in Asked /\ query \in [Query -> Asked] /\ reply \in [Query -> Reply]
    BY QueryInvDomains
  <2>2. PICK x \in Asked: x = [query[q] EXCEPT !.pc = "list"]
    BY <2>1 DEF Asked
  <2>3. /\ x.pc = "list" /\ x.intent = query[q].intent /\ x.space = query[q].space
        /\ x.left = query[q].left /\ x.route = query[q].route /\ x.read = query[q].read
        /\ x.failed = query[q].failed
    BY <2>1, <2>2 DEF Asked
  <2>4. query' = [query EXCEPT ![q] = x] /\ UNCHANGED <<job, reply>>
    BY <1>1, <2>1, <2>2 DEF NotFound
  <2>5. GoodQuery(query[q], reply[q], seen[q], rows)
    BY DEF QueryInv
  <2>6. GoodQuery(x, reply[q], seen[q], rows)
    BY <2>3, <2>5 DEF GoodQuery, Current, Faithful, Grounded, Tried, Topic
  <2> QED
    BY <2>4, <2>6, Turned
<1>2. CASE query[q].intent # "health_check"
  BY <1>2, RoutedOn DEF NotFound
<1> QED
  BY <1>1, <1>2

LEMMA GetPodKeeps ==
  ASSUME QueryInv, NEW q \in Query, GetPod(q) \/ GetPodFails(q)
  PROVE  QueryInv'
<1>1. query[q].pc = "get" /\ UNCHANGED <<tables, marred, storeVars, seeds, seen>>
  BY DEF GetPod, GetPodFails
<1>2. PICK l \in Leaf: l = About(query[q].intent, query[q].space)
  BY QueryInvDomains, TopicIsLeaf DEF Topic
<1>3. Routed(q, {l}) \/ NotFound(q)
  BY <1>2 DEF GetPod, GetPodFails
<1> QED
  BY <1>1, <1>3, RoutedOn, NotFoundOn

LEMMA ListPodsKeeps ==
  ASSUME QueryInv, NEW q \in Query, ListPods(q) \/ ListPodsFails(q)
  PROVE  QueryInv'
<1>1. CASE ListPods(q)
  <2>1. PICK pods \in SUBSET Leaf:
          pods = IF query[q].intent = "health_check" THEN leaves \cap Space ELSE leaves
    BY DEF QueryInv, QueryTypeOK, Leaf
  <2> QED
    BY <1>1, <2>1, RoutedOn DEF ListPods
<1>2. CASE ListPodsFails(q)
  <2>1. seeds' \in SUBSET Query
    BY <1>2 DEF ListPodsFails, QueryInv, QueryTypeOK
  <2> QED
    BY <1>2, <2>1, RepliedPlainly DEF ListPodsFails, Tier, Status, Resp
<1> QED
  BY <1>1, <1>2

\* A leaf is read: what it is at this instant is among what was seen.
LEMMA FetchKeeps ==
  ASSUME QueryInv, NEW q \in Query, NEW l \in Leaf, FetchFromPod(q, l)
  PROVE  QueryInv'
<1>1. /\ query[q] \in Asked /\ query \in [Query -> Asked] /\ reply \in [Query -> Reply]
      /\ rows \in Contents
  BY QueryInvDomains
<1>2. /\ query[q].pc = "fetch" /\ l \in query[q].left
      /\ UNCHANGED <<traceVars, storeVars, reply, seeds, seen>>
  BY DEF FetchFromPod
<1>3. [query[q].read EXCEPT ![l] = rows[l]] \in Contents
  BY <1>1 DEF Asked, Contents
<1>4. PICK x \in Asked:
        x = [query[q] EXCEPT !.left = @ \ {l}, !.read = [@ EXCEPT ![l] = rows[l]]]
  BY <1>1, <1>3 DEF Asked
<1>5. /\ x.pc = "fetch" /\ x.intent = query[q].intent /\ x.space = query[q].space
      /\ x.left = query[q].left \ {l} /\ x.route = query[q].route
      /\ x.failed = query[q].failed /\ x.read = [query[q].read EXCEPT ![l] = rows[l]]
  BY <1>1, <1>2, <1>4 DEF Asked
<1>6. query' = [query EXCEPT ![q] = x]
  BY <1>1, <1>4 DEF FetchFromPod
<1>7. GoodQuery(query[q], reply[q], seen[q], rows) /\ NoneDone(rows)
  BY DEF QueryInv
<1>8. x.read[l] = rows[l] /\ \A k \in Leaf: k # l => x.read[k] = query[q].read[k]
  BY <1>1, <1>5 DEF Asked, Contents
<1>9. Faithful(x, seen[q])
  <2>1. x.left \subseteq x.route
    BY <1>5, <1>7 DEF GoodQuery, Faithful
  <2>2. \A e \in Entity: x.read[Certs][e] \notin Terminated
    BY <1>7, <1>8 DEF GoodQuery, Faithful, NoneDone, Leaf
  <2>3. ASSUME Tried(x), x.route = {Topic(x)}
        PROVE  Truth(x.intent, x.read[Topic(x)]) \in seen[q]
    <3>1. l = Topic(x) /\ Topic(x) = Topic(query[q]) /\ Tried(query[q])
      BY <1>2, <1>5, <1>7, <2>3 DEF GoodQuery, Faithful, Topic, Tried
    <3>2. Truth(query[q].intent, rows[Topic(query[q])]) \in seen[q]
      BY <1>2, <1>7, <3>1 DEF GoodQuery, Current
    <3> QED
      BY <1>5, <1>8, <3>1, <3>2
  <2>4. \A k \in x.left: x.read[k] = Nothing
    BY <1>1, <1>5, <1>7, <1>8 DEF GoodQuery, Faithful, Asked
  <2>5. x.route = {Topic(x)} => ~x.failed
    BY <1>2, <1>5, <1>7 DEF GoodQuery, Faithful, Topic
  <2> QED
    BY <1>5, <2>1, <2>2, <2>3, <2>4, <2>5 DEF Faithful
<1>10. Current(x, seen[q], rows) /\ Grounded(x, reply[q], seen[q])
  BY <1>2, <1>5, <1>7 DEF GoodQuery, Current, Grounded, Tried, Topic
<1> QED
  BY <1>2, <1>6, <1>9, <1>10, Turned DEF GoodQuery, traceVars

LEMMA FetchFailsKeeps ==
  ASSUME QueryInv, NEW q \in Query, NEW l \in Leaf, FetchFails(q, l)
  PROVE  QueryInv'
<1>1. query[q] \in Asked /\ query \in [Query -> Asked] /\ reply \in [Query -> Reply]
  BY QueryInvDomains
<1>2. /\ query[q].pc = "fetch"
      /\ UNCHANGED <<job, tables, marred, storeVars, reply, seeds, seen>>
  BY DEF FetchFails
<1>3. PICK x \in Asked: x = [query[q] EXCEPT !.left = @ \ {l}, !.failed = TRUE]
  BY <1>1 DEF Asked
<1>4. /\ x.pc = "fetch" /\ x.intent = query[q].intent /\ x.space = query[q].space
      /\ x.left = query[q].left \ {l} /\ x.route = query[q].route
      /\ x.failed = TRUE /\ x.read = query[q].read
  BY <1>1, <1>2, <1>3 DEF Asked
<1>5. query' = [query EXCEPT ![q] = x]
  BY <1>1, <1>3 DEF FetchFails
<1>6. GoodQuery(query[q], reply[q], seen[q], rows)
  BY DEF QueryInv
<1>7. Current(x, seen[q], rows) /\ Grounded(x, reply[q], seen[q])
  BY <1>2, <1>4, <1>6 DEF GoodQuery, Current, Grounded, Tried, Topic
<1>8. Faithful(x, seen[q])
  <2>1. /\ x.left \subseteq x.route
        /\ \A e \in Entity: x.read[Certs][e] \notin Terminated
        /\ \A k \in x.left: x.read[k] = Nothing
    BY <1>4, <1>6 DEF GoodQuery, Faithful
  <2>2. ASSUME x.route = {Topic(x)}
        PROVE  x.left = {} /\ x.read[Topic(x)] = Nothing
    <3>1. l = Topic(x) /\ query[q].left = {l}
      BY <1>2, <1>4, <1>6, <2>2 DEF GoodQuery, Faithful, FetchFails
    <3> QED
      BY <1>4, <1>6, <3>1 DEF GoodQuery, Faithful
  <2> QED
    BY <1>4, <2>1, <2>2 DEF Faithful
<1> QED
  BY <1>2, <1>5, <1>7, <1>8, Turned DEF GoodQuery

\* A question is handed to the agent.
LEMMA HandedOn ==
  ASSUME QueryInv, NEW q \in Query, query[q].pc \notin {"idle", "done", "gone"},
         query' = Closed(q, "agent"),
         UNCHANGED <<job, tables, marred, storeVars, reply, seeds, seen>>
  PROVE  QueryInv'
<1>1. PICK x \in Asked:
        /\ query' = [query EXCEPT ![q] = x]
        /\ x.pc = "agent" /\ x.intent = query[q].intent /\ x.space = query[q].space
        /\ x.route = query[q].route /\ x.failed = query[q].failed /\ x.left = {}
        /\ x.read = [l \in Leaf |-> Nothing]
  BY ClosedIs
<1>2. GoodQuery(query[q], reply[q], seen[q], rows)
  BY DEF QueryInv
<1>3. Current(x, seen[q], rows)
  BY <1>1, <1>2 DEF GoodQuery, Current, Tried, Topic
<1>4. Faithful(x, seen[q]) /\ Grounded(x, reply[q], seen[q])
  BY <1>1 DEF Faithful, Grounded, Leaf, Nothing, Terminated
<1> QED
  BY <1>1, <1>3, <1>4, Turned DEF GoodQuery

\* The fast path answers, or leaves it to the agent.
LEMMA JudgeKeeps ==
  ASSUME QueryInv, NEW q \in Query, Judge(q)
  PROVE  QueryInv'
<1>1. /\ query[q].pc = "fetch" /\ query[q].left = {}
      /\ UNCHANGED <<tables, marred, storeVars, seeds, seen>>
  BY DEF Judge
<1>2. query[q] \in Asked /\ seeds' \in SUBSET Query
  BY <1>1, QueryInvDomains DEF QueryInv, QueryTypeOK
<1>3. ASSUME NEW v \in tryDeterministic(query[q].intent, query[q].route, query[q].read),
             Answer(q, "tier1", v, "nil")
      PROVE  QueryInv'
  <2>1. v \in Verdict
    BY <1>2, <1>3, FastPathTyped DEF Asked
  <2>2. ASSUME query[q].route = {Topic(query[q])}
        PROVE  Fair(query[q], v, seen[q])
    <3>1. Tried(query[q])
      BY <1>3 DEF Tried, tryDeterministic
    <3>2. GoodQuery(query[q], reply[q], seen[q], rows)
      BY DEF QueryInv
    <3>3. CASE ~query[q].failed
      <4>1. Truth(query[q].intent, query[q].read[Topic(query[q])]) \in seen[q]
        BY <1>1, <2>2, <3>1, <3>2, <3>3 DEF GoodQuery, Faithful
      <4>2. query[q].read[Topic(query[q])] \in [Entity -> State]
        BY <1>2, TopicIsLeaf DEF Asked, Contents
      <4>3. query[q].intent = "cert_check" =>
              \A e \in Entity: query[q].read[Topic(query[q])][e] \notin Terminated
        BY <3>2 DEF GoodQuery, Faithful, Topic, About
      <4>4. v = Truth(query[q].intent, query[q].read[Topic(query[q])])
        BY <1>3, <2>2, <4>2, <4>3, VerdictIsTruth
      <4> QED
        BY <4>1, <4>4 DEF Fair
    <3>4. CASE query[q].failed
      <4>1. query[q].read[Topic(query[q])] = Nothing
        BY <1>1, <2>2, <3>2, <3>4 DEF GoodQuery, Faithful
      <4>2. v = NoCertificates
        BY <1>3, <2>2, <4>1, NothingIsSaid
      <4> QED
        BY <3>4, <4>2 DEF Fair
    <3> QED
      BY <3>3, <3>4
  <2> QED
    BY <1>1, <1>2, <1>3, <2>1, <2>2, Replied DEF Tier, Resp
<1>4. CASE query' = Closed(q, "agent") /\ UNCHANGED <<job, reply>>
  BY <1>1, <1>4, HandedOn
<1> QED
  BY <1>3, <1>4 DEF Judge

\* The agent answers, or it fails.
LEMMA AgentKeeps ==
  ASSUME QueryInv, NEW q \in Query,
         \/ AgentFails(q)
         \/ \E status \in {"ok", "error"}, resp \in {"empty", "text"}:
              AgentAnswers(q, status, resp)
  PROVE  QueryInv'
<1>1. query[q].pc = "agent" /\ UNCHANGED <<tables, marred, storeVars, seeds, seen>>
  BY DEF AgentFails, AgentAnswers
<1>2. query[q] \in Asked /\ query \in [Query -> Asked] /\ seeds' \in SUBSET Query
  BY <1>1, QueryInvDomains DEF QueryInv, QueryTypeOK
<1>3. ASSUME NEW status \in {"ok", "error", "partial"}, NEW resp \in {"empty", "text", "nil"},
             AnswerPlainly(q, "tier2", status, resp)
      PROVE  QueryInv'
  BY <1>1, <1>2, <1>3, RepliedPlainly DEF Tier, Status, Resp
<1>4. CASE query' = [query EXCEPT ![q].pc = "seed"] /\ UNCHANGED <<job, reply>>
  <2>1. PICK x \in Asked: x = [query[q] EXCEPT !.pc = "seed"]
    BY <1>2 DEF Asked
  <2>2. /\ x.pc = "seed" /\ x.intent = query[q].intent /\ x.space = query[q].space
        /\ x.left = query[q].left /\ x.route = query[q].route /\ x.read = query[q].read
    BY <1>2, <2>1 DEF Asked
  <2>3. query' = [query EXCEPT ![q] = x]
    BY <1>2, <1>4, <2>1
  <2>4. GoodQuery(query[q], reply[q], seen[q], rows)
    BY DEF QueryInv
  <2>5. GoodQuery(x, reply[q], seen[q], rows)
    BY <1>1, <2>2, <2>4 DEF GoodQuery, Current, Faithful, Grounded, Tried, Topic
  <2> QED
    BY <1>1, <1>4, <2>3, <2>5, Turned
<1>5. CASE /\ query' = Closed(q, "done") /\ UNCHANGED job
           /\ reply' = [reply EXCEPT ![q] = Said("none", "error")]
  <2>1. PICK x \in Asked:
          /\ query' = [query EXCEPT ![q] = x]
          /\ x.pc = "done" /\ x.left = {} /\ x.read = [l \in Leaf |-> Nothing]
    BY <1>5, ClosedIs
  <2>2. 0 \in 0..Most
    BY Bounds
  <2>3. PICK r \in Reply: r = Said("none", "error")
    BY <2>2 DEF Said, Reply, Verdict, Most, Tier, Status
  <2>4. GoodQuery(x, r, seen[q], rows)
    <3>1. Grounded(x, r, seen[q])
      BY <2>3 DEF Grounded, Said
    <3> QED
      BY <2>1, <3>1, ClosedIsGood
  <2>5. TracesTypeOK'
    BY <1>1, <1>5 DEF QueryInv, TracesTypeOK, tables
  <2> QED
    BY <1>1, <1>2, <1>5, <2>1, <2>3, <2>4, <2>5, Moved
<1>6. CASE AgentFails(q)
  BY <1>3, <1>5, <1>6 DEF AgentFails
<1>7. ASSUME NEW status \in {"ok", "error"}, NEW resp \in {"empty", "text"},
             AgentAnswers(q, status, resp)
      PROVE  QueryInv'
  BY <1>3, <1>4, <1>7 DEF AgentAnswers
<1> QED
  BY <1>6, <1>7

LEMMA SeedKeeps ==
  ASSUME QueryInv, NEW q \in Query, NEW stored \in BOOLEAN, SeedCert(q, stored)
  PROVE  QueryInv'
<1>1. seeds' \in SUBSET Query
  BY DEF SeedCert, QueryInv, QueryTypeOK
<1>2. AnswerPlainly(q, "tier2", "ok", "text") /\ UNCHANGED <<tables, marred, storeVars, seen>>
  BY DEF SeedCert
<1> QED
  BY <1>1, <1>2, RepliedPlainly DEF Tier, Status, Resp

\* A question is put: what could be said of its leaf is noted.
LEMMA HandleQueryKeeps ==
  ASSUME QueryInv, NEW q \in Query, NEW intent \in Intent \ {"chat"}, NEW n \in Space,
         HandleQuery(q, intent, n)
  PROVE  QueryInv'
<1>1. /\ query \in [Query -> Asked] /\ reply \in [Query -> Reply]
      /\ seen \in [Query -> SUBSET Verdict]
  BY QueryInvDomains
<1>2. /\ query' = [query EXCEPT ![q] = NewQuery(FirstStep(intent), intent, n)]
      /\ UNCHANGED <<job, tables, marred, leaves, rows, reply, seeds>>
  BY DEF HandleQuery, storeVars
<1>3. FirstStep(intent) \in {"get", "list", "agent"}
  BY DEF FirstStep, Intent
<1>4. PICK x \in Asked: x = NewQuery(FirstStep(intent), intent, n)
  <2>1. [l \in Leaf |-> Nothing] \in Contents
    BY DEF Contents, Nothing, State
  <2> QED
    BY <1>3, <2>1 DEF NewQuery, Asked
<1>5. /\ x.pc \in {"get", "list", "agent"} /\ x.intent = intent /\ x.space = n
      /\ x.route = {} /\ x.left = {} /\ x.read = [l \in Leaf |-> Nothing] /\ ~x.failed
  BY <1>3, <1>4 DEF NewQuery
<1>6. PICK known \in SUBSET Verdict:
        known = IF intent \in {"health_check", "cert_check"}
                  THEN {Truth(intent, rows[About(intent, n)])} ELSE {}
  BY TruthTyped, ZenonT(60)
<1>7. seen' = [seen EXCEPT ![q] = known]
  BY <1>6 DEF HandleQuery
<1>8. GoodQuery(x, reply[q], known, rows)
  <2>1. Current(x, known, rows)
    BY <1>5, <1>6 DEF Current, Tried, Topic
  <2>2. \A e \in Entity: x.read[Certs][e] \notin Terminated
    BY <1>5 DEF Leaf, Nothing, Terminated
  <2> QED
    BY <1>5, <2>1, <2>2 DEF GoodQuery, Faithful, Grounded
<1>9. QueryTypeOK'
  <2>1. query' \in [Query -> Asked] /\ seen' \in [Query -> SUBSET Verdict]
    BY <1>1, <1>2, <1>4, <1>7
  <2> QED
    BY <1>2, <2>1 DEF QueryInv, QueryTypeOK, Asked, Contents
<1>10. ASSUME NEW p \in Query PROVE GoodQuery(query'[p], reply'[p], seen'[p], rows')
  <2>1. CASE p = q
    BY <1>1, <1>2, <1>4, <1>7, <1>8, <2>1
  <2>2. CASE p # q
    BY <1>1, <1>2, <1>7, <2>2 DEF QueryInv
  <2> QED
    BY <2>1, <2>2
<1>11. TracesTypeOK' /\ NoneDone(rows')
  BY <1>2 DEF QueryInv, TracesTypeOK, tables
<1> QED
  BY <1>9, <1>10, <1>11 DEF QueryInv

LEMMA FormLeafKeeps ==
  ASSUME QueryInv, NEW l \in Leaf, FormLeaf(l)
  PROVE  QueryInv'
<1>1. /\ UNCHANGED <<job, tables, marred, rows, query, reply, seeds, seen>>
      /\ leaves' = leaves \cup {l}
  BY DEF FormLeaf
<1> QED
  BY <1>1 DEF QueryInv, TracesTypeOK, QueryTypeOK, tables

\* A row is replaced: the questions about its leaf see what it makes of it.
LEMMA StoreKeeps ==
  ASSUME QueryInv, NEW l \in Leaf, NEW e \in Entity, NEW s \in State, Store(l, e, s)
  PROVE  QueryInv'
<1>1. /\ query \in [Query -> Asked] /\ rows \in Contents
      /\ seen \in [Query -> SUBSET Verdict]
  BY QueryInvDomains
<1>2. /\ l = Certs => s \notin Terminated
      /\ rows' = [rows EXCEPT ![l][e] = s]
      /\ UNCHANGED <<job, tables, marred, leaves, query, reply, seeds>>
  BY DEF Store
<1>3. PICK contents \in Contents: contents = rows'
  BY <1>1, <1>2 DEF Contents
<1>4. /\ \A k \in Leaf: k # l => contents[k] = rows[k]
      /\ contents[l][e] = s /\ \A d \in Entity: d # e => contents[l][d] = rows[l][d]
  BY <1>1, <1>2, <1>3 DEF Contents
<1>5. \A q \in Query: seen'[q] =
        IF Open(q) /\ About(query[q].intent, query[q].space) = l
          THEN seen[q] \cup {Truth(query[q].intent, contents[l])} ELSE seen[q]
  BY <1>3 DEF Store
<1>6. seen' \in [Query -> SUBSET Verdict]
  <2>1. DOMAIN seen' = Query /\ seen' = [q \in Query |-> seen'[q]]
    BY DEF Store
  <2>2. ASSUME NEW q \in Query PROVE seen'[q] \in SUBSET Verdict
    <3>1. PICK v \in Verdict: v = Truth(query[q].intent, contents[l])
      BY TruthTyped
    <3>2. seen'[q] = seen[q] \cup {v} \/ seen'[q] = seen[q]
      BY <1>5, <3>1
    <3> QED
      BY <1>1, <3>1, <3>2
  <2> QED
    BY <2>1, <2>2
<1>7. QueryTypeOK'
  BY <1>2, <1>3, <1>6 DEF QueryInv, QueryTypeOK, Contents
<1>8. NoneDone(contents)
  BY <1>2, <1>4 DEF QueryInv, NoneDone, Leaf
<1>9. ASSUME NEW q \in Query
      PROVE  GoodQuery(query[q], reply[q], seen'[q], contents)
  <2>1. GoodQuery(query[q], reply[q], seen[q], rows)
    BY DEF QueryInv
  <2>2. seen[q] \subseteq seen'[q]
    BY <1>5
  <2>3. Faithful(query[q], seen'[q]) /\ Grounded(query[q], reply[q], seen'[q])
    BY <2>1, <2>2 DEF GoodQuery, Faithful, Grounded, Fair
  <2>4. Topic(query[q]) \in Leaf
    BY <1>1, TopicIsLeaf
  <2>5. Current(query[q], seen'[q], contents)
    <3>1. CASE Topic(query[q]) = l
      BY <1>5, <3>1 DEF Current, Open, Topic
    <3>2. CASE Topic(query[q]) # l
      <4>1. contents[Topic(query[q])] = rows[Topic(query[q])]
        BY <1>4, <2>4, <3>2
      <4> QED
        BY <2>1, <2>2, <4>1 DEF GoodQuery, Current
    <3> QED
      BY <3>1, <3>2
  <2> QED
    BY <2>3, <2>5 DEF GoodQuery
<1>10. TracesTypeOK'
  BY <1>2 DEF QueryInv, TracesTypeOK, tables
<1> QED
  BY <1>2, <1>3, <1>7, <1>8, <1>9, <1>10 DEF QueryInv

\* The hub stops: questions that are open are gone.
LEMMA StopKeeps ==
  ASSUME QueryInv, HubStops
  PROVE  QueryInv'
<1>1. /\ query \in [Query -> Asked] /\ reply \in [Query -> Reply]
  BY QueryInvDomains
<1>2. /\ query' = [q \in Query |-> IF Open(q) THEN Closed(q, "gone")[q] ELSE query[q]]
      /\ UNCHANGED <<tables, leaves, rows, reply, seeds, seen>>
  BY DEF HubStops, storeVars
<1>3. ASSUME NEW q \in Query
      PROVE  query'[q] \in Asked /\ GoodQuery(query'[q], reply[q], seen[q], rows)
  <2>1. CASE Open(q)
    <3>1. PICK x \in Asked:
            /\ Closed(q, "gone") = [query EXCEPT ![q] = x]
            /\ x.pc = "gone" /\ x.left = {} /\ x.read = [l \in Leaf |-> Nothing]
      BY ClosedIs
    <3>2. query'[q] = x
      BY <1>1, <1>2, <2>1, <3>1
    <3>3. Grounded(x, reply[q], seen[q])
      BY <3>1 DEF Grounded
    <3> QED
      BY <3>1, <3>2, <3>3, ClosedIsGood
  <2>2. CASE ~Open(q)
    BY <1>1, <1>2, <2>2 DEF QueryInv
  <2> QED
    BY <2>1, <2>2
<1>4. QueryTypeOK'
  <2>1. query' \in [Query -> Asked]
    BY <1>2, <1>3
  <2> QED
    BY <1>2, <2>1 DEF QueryInv, QueryTypeOK, Asked, Contents
<1>5. TracesTypeOK'
  <2>1. job' \in [Asker -> [step: {"none", "insert", "embed", "store", "done"}, log: Log,
                            vector: BOOLEAN]]
    BY DEF HubStops, QueryInv, TracesTypeOK
  <2>2. marred' \subseteq Asker
    BY DEF HubStops, QueryInv, TracesTypeOK
  <2> QED
    BY <1>2, <2>1, <2>2 DEF QueryInv, TracesTypeOK, tables
<1>6. NoneDone(rows')
  BY <1>2 DEF QueryInv
<1> QED
  BY <1>2, <1>3, <1>4, <1>5, <1>6 DEF QueryInv

LEMMA QueryInvInit ==
  ASSUME Init
  PROVE  QueryInv
<1>1. /\ budget \in Budgets /\ leaves = budget.formed /\ traces = {} /\ incidents = {}
      /\ job = [r \in Asker |-> [step |-> "none", log |-> NoLog, vector |-> FALSE]]
      /\ marred = {} /\ seeds = {} /\ seen = [q \in Query |-> {}]
      /\ rows = [l \in Leaf |-> IF l \in leaves THEN [e \in Entity |-> "ok"] ELSE Nothing]
      /\ query = [q \in Query |-> NewQuery("idle", "chat", CHOOSE n \in Space: TRUE)]
      /\ reply = [q \in Query |-> NoReply]
  BY DEF Init, TracesInit, QueryInit
<1>2. TracesTypeOK
  <2>1. NoLog \in Log
    BY DEF NoLog, Log, Intent, Tier, Status, Resp
  <2> QED
    BY <1>1, <2>1 DEF TracesTypeOK
<1>3. rows \in Contents /\ NoneDone(rows)
  BY <1>1 DEF Contents, Nothing, State, NoneDone, Leaf, Terminated
<1>4. PICK x \in Asked: x = NewQuery("idle", "chat", CHOOSE n \in Space: TRUE)
  <2>1. [l \in Leaf |-> Nothing] \in Contents
    BY DEF Contents, Nothing, State
  <2>2. (CHOOSE n \in Space: TRUE) \in Space
    BY QueryAssumption
  <2> QED
    BY <2>1, <2>2 DEF NewQuery, Asked, Intent
<1>5. NoReply \in Reply
  <2>1. 0 \in 0..Most
    BY Bounds
  <2> QED
    BY <2>1 DEF NoReply, Said, Reply, Verdict, Most, Tier, Status
<1>6. QueryTypeOK
  <2>1. query \in [Query -> Asked] /\ reply \in [Query -> Reply]
    BY <1>1, <1>4, <1>5
  <2>2. leaves \subseteq Leaf
    BY <1>1, QueryAssumption DEF Leaf
  <2> QED
    BY <1>1, <1>3, <2>1, <2>2 DEF QueryTypeOK, Asked, Contents
<1>7. ASSUME NEW q \in Query PROVE GoodQuery(query[q], reply[q], seen[q], rows)
  <2>1. query[q].pc = "idle" /\ query[q].left = {} /\ query[q].route = {}
        /\ query[q].read = [l \in Leaf |-> Nothing]
    BY <1>1 DEF NewQuery
  <2> QED
    BY <2>1 DEF GoodQuery, Current, Faithful, Grounded, Leaf, Nothing, Terminated
<1> QED
  BY <1>2, <1>3, <1>6, <1>7 DEF QueryInv

LEMMA QueryInvStep ==
  ASSUME QueryInv, [Next]_vars
  PROVE  QueryInv'
<1>1. CASE QueryNext
  <2>1. ASSUME NEW l \in Leaf, FormLeaf(l) PROVE QueryInv'
    BY <2>1, FormLeafKeeps
  <2>2. ASSUME NEW l \in Leaf, NEW e \in Entity, NEW s \in State, Store(l, e, s)
        PROVE  QueryInv'
    BY <2>2, StoreKeeps
  <2>3. ASSUME NEW q \in Query, NEW intent \in Intent \ {"chat"}, NEW n \in Space,
               HandleQuery(q, intent, n)
        PROVE  QueryInv'
    BY <2>3, HandleQueryKeeps
  <2>4. ASSUME NEW q \in Query, QueryStep(q) PROVE QueryInv'
    BY <2>4, GetPodKeeps, ListPodsKeeps, JudgeKeeps, AgentKeeps, SeedKeeps, FetchKeeps
       DEF QueryStep
  <2>5. ASSUME NEW q \in Query, QueryFails(q) PROVE QueryInv'
    BY <2>5, GetPodKeeps, ListPodsKeeps, SeedKeeps, FetchFailsKeeps DEF QueryFails
  <2> QED
    BY <1>1, <2>1, <2>2, <2>3, <2>4, <2>5 DEF QueryNext
<1>2. ASSUME TracesTypeOK', UNCHANGED queryVars
      PROVE  QueryInv'
  BY <1>2 DEF QueryInv, QueryTypeOK, queryVars, storeVars
<1>3. CASE ChatNext /\ UNCHANGED queryVars
  BY <1>2, <1>3, ChatTyped DEF QueryInv
<1>4. ASSUME NEW r \in Asker, JobStep(r) \/ JobFails(r), UNCHANGED queryVars
      PROVE  QueryInv'
  BY <1>2, <1>4, JobTyped DEF QueryInv
<1>5. CASE HubStops
  BY <1>5, StopKeeps
<1>6. CASE UNCHANGED vars
  <2>1. TracesTypeOK' /\ UNCHANGED queryVars
    BY <1>6 DEF QueryInv, TracesTypeOK, vars, traceVars, tables
  <2> QED
    BY <1>2, <2>1
<1> QED
  BY <1>1, <1>3, <1>4, <1>5, <1>6 DEF Next

LEMMA QueryInvHolds == Spec => []QueryInv
<1>1. Init => QueryInv
  BY QueryInvInit
<1>2. QueryInv /\ [Next]_vars => QueryInv'
  BY QueryInvStep
<1> QED
  BY <1>1, <1>2, PTL DEF Spec

\* What the fast path answers a question from its own leaf could be said of the
\* leaf at an instant between the two, however rows, reads and failures
\* interleave; a read that failed yields nothing else but "no certificates".
THEOREM VerdictOfOneInstant == Spec => []VerdictIsOfOneInstant
<1>1. QueryInv => VerdictIsOfOneInstant
  BY DEF QueryInv, GoodQuery, Grounded, Fair, VerdictIsOfOneInstant, Judged, Topic
<1> QED
  BY <1>1, QueryInvHolds, PTL

\* Every state is well-formed: whatever is interleaved, a question, a session,
\* a reply and a row written of it have one of the forms the code gives them.
THEOREM ConsoleTypeCorrect == Spec => []TypeOK
<1>1. ChatInv /\ QueryInv => TypeOK
  BY DEF ChatInv, QueryInv, TypeOK
<1> QED
  BY <1>1, ChatInvHolds, QueryInvHolds, PTL

(***************************************************************************)
(* The memory of incidents                                                 *)
(***************************************************************************)

\* A trace has another key than the id it was announced under; so no incident,
\* which refers to that id, finds its trace.
Unreferenced ==
  /\ \A t \in traces: \E r \in Asker: t.id = RowId(r)
  /\ incidents = {}

LEMMA UnreferencedStep ==
  ASSUME Unreferenced, [Next]_vars
  PROVE  Unreferenced'
<1>1. CASE UNCHANGED tables
  BY <1>1 DEF Unreferenced, tables
<1>2. ASSUME NEW r \in Asker, InsertTrace(r) \/ InsertTraceFails(r)
      PROVE  Unreferenced'
  BY <1>2 DEF InsertTrace, InsertTraceFails, TraceRow, Unreferenced
<1>3. ASSUME NEW r \in Asker, StoreIncident(r)
      PROVE  Unreferenced'
  <2>1. \A q \in Asker: RowId(q) # TraceId(r)
    BY DEF RowId, TraceId
  <2>2. ~ForeignKey(IncidentRow(r))
    BY <2>1 DEF Unreferenced, ForeignKey, IncidentRow
  <2> QED
    BY <1>3, <2>2 DEF StoreIncident, Unreferenced
<1>4. CASE QueryNext
  BY <1>1, <1>4, ZenonT(60) DEF QueryNext, QueryStep, QueryFails, FormLeaf, Store, HandleQuery, GetPod,
     GetPodFails, ListPods, ListPodsFails, FetchFromPod, FetchFails, Judge, AgentAnswers,
     AgentFails, SeedCert, traceVars
<1>5. CASE ChatNext
  BY <1>1, <1>5 DEF ChatNext, SendStep, CreateChatSession, DeleteChatSession,
     GetChatSession, Chat, UpdateChatSession, UpdateFails, traceVars
<1>6. ASSUME NEW r \in Asker, JobStep(r) \/ JobFails(r)
      PROVE  Unreferenced'
  BY <1>1, <1>2, <1>3, <1>6 DEF JobStep, JobFails, Embed, StoreIncidentFails
<1>7. CASE HubStops \/ UNCHANGED vars
  BY <1>1, <1>7 DEF HubStops, vars, traceVars
<1> QED
  BY <1>4, <1>5, <1>6, <1>7 DEF Next

\* Whatever is diagnosed, no incident is ever stored: traces.id, to which the
\* foreign key of incident_embeddings refers, is not the id that
\* embedAndStoreIncident is given.
THEOREM MemoryStaysEmpty == Spec => [](incidents = {})
<1>1. Init => Unreferenced
  BY DEF Init, TracesInit, Unreferenced
<1>2. Unreferenced /\ [Next]_vars => Unreferenced'
  BY UnreferencedStep
<1>3. Unreferenced => incidents = {}
  BY DEF Unreferenced
<1> QED
  BY <1>1, <1>2, <1>3, PTL DEF Spec
=============================================================================
