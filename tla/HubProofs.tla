------------------------------ MODULE HubProofs ------------------------------
(***************************************************************************)
(* The safety of the live relay, for any calls, collectors, connections    *)
(* and failures.                                                           *)
(*                                                                         *)
(* Why the properties are not inductive by themselves: that a frame can    *)
(* always be put into its call's channel depends on the call being in one  *)
(* place only -- in the pending map of the connection it found, in the     *)
(* reader's hands, or answered.  Placed says this of every call.           *)
(***************************************************************************)
EXTENDS CollectorHub, TLAPS

\* Connections not dialled yet have no goroutine.
Dialled == \A c \in Conn: c > dials => reader[c] = "none"

\* A call that is yet to be added has found a connection and has no answer.
Unsent == \A r \in Call:
            /\ pc[r] \in {"new", "adding"} => respCh[r] = Nobody
            /\ pc[r] = "adding" => via[r] \in Conn

\* A pending call waits on that connection and has no answer.
Pending == \A c \in Conn: \A r \in pending[c]:
             /\ via[r] = c
             /\ pc[r] \in {"writing", "waiting", "returning"}
             /\ respCh[r] = Nobody

\* What a reader is about to deliver is the frame of a call that was pending on
\* its connection, is so no longer, and has no answer.
InHand(c) == LET r == match[c][1] IN
               /\ r \in Call
               /\ match[c][2] = r
               /\ via[r] = c
               /\ pc[r] \notin {"new", "adding"}
               /\ respCh[r] = Nobody
               /\ r \notin pending[c]

Placed == \A c \in Conn: reader[c] = "delivering" => InHand(c)

\* TypeOK in parts: the provers want the types of few variables at a time.
CountsOK  == dials \in 0..MaxConn /\ drops \in 0..MaxDrops
LinkOK    == open \subseteq Conn /\ link \in [Collector -> 0..MaxConn]
FramesOK  == inbox \in [Conn -> Seq(Call)] /\ outbox \in [Conn -> Seq(Call)]
EntryOK   == registered \in 0..MaxConn
ReaderOK  == reader \in [Conn -> {"none", "upgraded", "reading", "delivering",
                                 "exiting", "gone"}]
MatchOK   == match \in [Conn -> (Call \X Call) \cup {Nothing}]
PendingOK == pending \in [Conn -> SUBSET Call]
PcOK      == pc \in [Call -> {"new", "adding", "writing", "waiting",
                             "returning", "done"}]
ViaOK     == via \in [Call -> 0..MaxConn]
AnswerOK  == respCh \in [Call -> Call \cup {Nobody}]
ResultOK  == result \in [Call -> {"none", "answer", "not connected",
                                 "send error", "timeout"}]

HubInv == /\ TypeOK /\ Dialled /\ Unsent /\ Pending /\ Placed
          /\ NoCrossTalk /\ RegisteredIsRead

LEMMA Typed ==
  TypeOK <=> /\ CountsOK /\ LinkOK /\ FramesOK /\ EntryOK /\ ReaderOK
             /\ MatchOK /\ PendingOK /\ PcOK /\ ViaOK /\ AnswerOK /\ ResultOK
  BY DEF TypeOK, CountsOK, LinkOK, FramesOK, EntryOK, ReaderOK, MatchOK,
         PendingOK, PcOK, ViaOK, AnswerOK, ResultOK

LEMMA TypedNext ==
  TypeOK' <=> /\ CountsOK' /\ LinkOK' /\ FramesOK' /\ EntryOK' /\ ReaderOK'
              /\ MatchOK' /\ PendingOK' /\ PcOK' /\ ViaOK' /\ AnswerOK'
              /\ ResultOK'
  BY DEF TypeOK, CountsOK, LinkOK, FramesOK, EntryOK, ReaderOK, MatchOK,
         PendingOK, PcOK, ViaOK, AnswerOK, ResultOK

\* The parts of the invariant, and those whose variables do not change.
LEMMA Parts ==
  HubInv <=> /\ CountsOK /\ LinkOK /\ FramesOK /\ EntryOK /\ ReaderOK
             /\ MatchOK /\ PendingOK /\ PcOK /\ ViaOK /\ AnswerOK /\ ResultOK
             /\ Dialled /\ Unsent /\ Pending /\ Placed
             /\ NoCrossTalk /\ RegisteredIsRead
  BY Typed DEF HubInv

LEMMA PartsNext ==
  HubInv' <=> /\ CountsOK' /\ LinkOK' /\ FramesOK' /\ EntryOK' /\ ReaderOK'
              /\ MatchOK' /\ PendingOK' /\ PcOK' /\ ViaOK' /\ AnswerOK'
              /\ ResultOK'
              /\ Dialled' /\ Unsent' /\ Pending' /\ Placed'
              /\ NoCrossTalk' /\ RegisteredIsRead'
  BY TypedNext DEF HubInv

LEMMA HubInit == Init => HubInv
  <1> SUFFICES ASSUME Init PROVE HubInv
    OBVIOUS
  <1>1. CountsOK /\ LinkOK /\ FramesOK /\ EntryOK /\ ReaderOK
    BY HubAssumption DEF Init, CountsOK, LinkOK, FramesOK, EntryOK, ReaderOK
  <1>2. MatchOK /\ PendingOK /\ PcOK /\ ViaOK /\ AnswerOK /\ ResultOK
    BY HubAssumption
    DEF Init, MatchOK, PendingOK, PcOK, ViaOK, AnswerOK, ResultOK
  <1>3. Dialled /\ Unsent /\ Pending /\ Placed
    BY DEF Init, Dialled, Unsent, Pending, Placed
  <1>4. NoCrossTalk /\ RegisteredIsRead
    BY DEF Init, NoCrossTalk, RegisteredIsRead, Conn
  <1> QED BY <1>1, <1>2, <1>3, <1>4, Parts

\* The properties, from the invariant.
LEMMA HubImplied == HubInv => PendingIsWaiting /\ ReaderNeverStalls
  BY DEF HubInv, Pending, Placed, InHand, PendingIsWaiting, ReaderNeverStalls,
         HasRoom

(***************************************************************************)
(* The collector and the network                                           *)
(***************************************************************************)

LEMMA DialStep ==
  ASSUME HubInv, NEW k \in Collector, Dial(k)  PROVE HubInv'
  <1>0. /\ CountsOK /\ LinkOK /\ FramesOK /\ EntryOK /\ ReaderOK /\ MatchOK
        /\ PendingOK /\ PcOK /\ ViaOK /\ AnswerOK /\ ResultOK
        /\ Dialled /\ Unsent /\ Pending /\ Placed
        /\ NoCrossTalk /\ RegisteredIsRead
    BY Parts
  <1>1. UNCHANGED <<drops, inbox, outbox, registered, match, pending, pc, via,
                   respCh, result>>
    BY DEF Dial, ReaderGoes, network, hub, calls
  <1>2. dials + 1 \in Conn /\ reader[dials + 1] = "none" /\ dials' = dials + 1
    BY <1>0, HubAssumption DEF Dial, CountsOK, Conn, Dialled
  <1>3. /\ FramesOK' /\ EntryOK' /\ MatchOK' /\ PendingOK' /\ PcOK'
        /\ ViaOK' /\ AnswerOK' /\ ResultOK' /\ Unsent' /\ Pending'
        /\ NoCrossTalk'
    BY <1>0, <1>1
    DEF FramesOK, EntryOK, MatchOK, PendingOK, PcOK, ViaOK, AnswerOK,
           ResultOK, Unsent, Pending, NoCrossTalk
  <1>4. CountsOK'
    BY <1>0, <1>1, HubAssumption
    DEF Dial, ReaderGoes, network, hub, calls, CountsOK
  <1>5. LinkOK'
    BY <1>0, <1>1, <1>2, HubAssumption
    DEF Dial, ReaderGoes, network, hub, calls, LinkOK, CountsOK, Conn
  <1>6. ReaderOK'
    BY <1>0, <1>1, <1>2
    DEF Dial, ReaderGoes, network, hub, calls, ReaderOK
  <1>7. Dialled'
    BY <1>0, <1>1, <1>2
    DEF Dial, ReaderGoes, network, hub, calls, Dialled, ReaderOK, CountsOK,
        Conn
  <1>8. Placed'
    BY <1>0, <1>1
    DEF Dial, ReaderGoes, network, hub, calls, Placed, ReaderOK, MatchOK,
        PcOK, ViaOK, AnswerOK, PendingOK, InHand
  <1>9. RegisteredIsRead'
    BY <1>0, <1>1, <1>2, HubAssumption
    DEF Dial, ReaderGoes, network, hub, calls, RegisteredIsRead, ReaderOK,
        EntryOK, LinkOK, Conn
  <1> QED BY <1>3, <1>4, <1>5, <1>6, <1>7, <1>8, <1>9, PartsNext

\* Steps that may close connections, move frames about and redial, and leave
\* the hub's own state alone.
LEMMA OutsideStep ==
  ASSUME HubInv, CountsOK', LinkOK', FramesOK', open' \subseteq open,
         UNCHANGED <<dials, hub, calls>>
  PROVE  HubInv'
  <1>0. /\ EntryOK /\ ReaderOK /\ MatchOK /\ PendingOK /\ PcOK /\ ViaOK
        /\ AnswerOK /\ ResultOK
        /\ Dialled /\ Unsent /\ Pending /\ Placed
        /\ NoCrossTalk /\ RegisteredIsRead
    BY Parts
  <1>1. /\ EntryOK' /\ ReaderOK' /\ MatchOK' /\ PendingOK' /\ PcOK' /\ ViaOK'
        /\ AnswerOK' /\ ResultOK'
    BY <1>0 DEF hub, calls, EntryOK, ReaderOK, MatchOK, PendingOK, PcOK, ViaOK,
                AnswerOK, ResultOK
  <1>2. Dialled' /\ Unsent' /\ Pending' /\ NoCrossTalk' /\ Placed'
    BY <1>0
    DEF hub, calls, Dialled, Unsent, Pending, NoCrossTalk, Placed, InHand
  <1>3. RegisteredIsRead'
    BY <1>0 DEF hub, RegisteredIsRead
  <1> QED BY <1>1, <1>2, <1>3, PartsNext

LEMMA ServeStep ==
  ASSUME HubInv, NEW k \in Collector, Serve(k)  PROVE HubInv'
  <1> DEFINE c == link[k]
  <1>0. CountsOK /\ LinkOK /\ FramesOK
    BY Parts
  <1>1. c \in Conn /\ inbox[c] \in Seq(Call) /\ inbox[c] # <<>>
    BY <1>0 DEF Serve, LinkOK, FramesOK
  <1>2. Head(inbox[c]) \in Call /\ Tail(inbox[c]) \in Seq(Call)
    BY <1>1
  <1>3. Append(outbox[c], Head(inbox[c])) \in Seq(Call)
    BY <1>0, <1>1, <1>2 DEF FramesOK
  <1>4. FramesOK'
    BY <1>0, <1>1, <1>2, <1>3 DEF Serve, FramesOK
  <1>5. CountsOK' /\ LinkOK'
    BY <1>0 DEF Serve, CountsOK, LinkOK
  <1> QED BY <1>4, <1>5, OutsideStep DEF Serve

LEMMA BreakStep ==
  ASSUME HubInv,
         \/ \E k \in Collector: Disconnected(k) \/ KeepaliveFails(k)
         \/ \E c \in Conn: Drop(c)
  PROVE  HubInv'
  <1>0. CountsOK /\ LinkOK /\ FramesOK
    BY Parts
  <1>1. FramesOK'
    BY <1>0 DEF Disconnected, KeepaliveFails, Drop, FramesOK, network
  <1>2. CountsOK'
    BY <1>0, HubAssumption DEF Disconnected, KeepaliveFails, Drop, CountsOK
  <1>3. LinkOK'
    BY <1>0, HubAssumption
    DEF Disconnected, KeepaliveFails, Drop, LinkOK, network
  <1>4. open' \subseteq open /\ UNCHANGED <<dials, hub, calls>>
    BY DEF Disconnected, KeepaliveFails, Drop, network
  <1> QED BY <1>1, <1>2, <1>3, <1>4, OutsideStep

(***************************************************************************)
(* Register                                                                *)
(***************************************************************************)

LEMMA RegisterStep ==
  ASSUME HubInv, NEW c \in Conn, Register(c)  PROVE HubInv'
  <1>0. /\ CountsOK /\ LinkOK /\ FramesOK /\ EntryOK /\ ReaderOK /\ MatchOK
        /\ PendingOK /\ PcOK /\ ViaOK /\ AnswerOK /\ ResultOK
        /\ Dialled /\ Unsent /\ Pending /\ Placed
        /\ NoCrossTalk /\ RegisteredIsRead
    BY Parts
  <1>1. UNCHANGED <<dials, drops, link, inbox, outbox, match, pending, pc, via,
                   respCh, result>>
    BY DEF Register, ReaderGoes, calls
  <1>2. /\ CountsOK' /\ FramesOK' /\ MatchOK' /\ PendingOK' /\ PcOK'
        /\ ViaOK' /\ AnswerOK' /\ ResultOK' /\ Unsent' /\ Pending'
        /\ NoCrossTalk'
    BY <1>0, <1>1
    DEF CountsOK, FramesOK, MatchOK, PendingOK, PcOK, ViaOK, AnswerOK,
           ResultOK, Unsent, Pending, NoCrossTalk
  <1>3. LinkOK'
    BY <1>0, <1>1
    DEF Register, ReaderGoes, calls, LinkOK
  <1>4. EntryOK'
    BY <1>0, <1>1
    DEF Register, ReaderGoes, calls, EntryOK, Conn
  <1>5. ReaderOK'
    BY <1>0, <1>1
    DEF Register, ReaderGoes, calls, ReaderOK
  <1>6. Dialled'
    BY <1>0, <1>1
    DEF Register, ReaderGoes, calls, Dialled, ReaderOK
  <1>7. Placed'
    BY <1>0, <1>1
    DEF Register, ReaderGoes, calls, Placed, ReaderOK, MatchOK, PcOK, ViaOK,
        AnswerOK, PendingOK, InHand
  <1>8. RegisteredIsRead'
    BY <1>0, <1>1, HubAssumption
    DEF Register, ReaderGoes, calls, RegisteredIsRead, ReaderOK, EntryOK,
        LinkOK, Conn
  <1> QED BY <1>2, <1>3, <1>4, <1>5, <1>6, <1>7, <1>8, PartsNext

LEMMA ReadResponseStep ==
  ASSUME HubInv, NEW c \in Conn, ReadResponse(c)  PROVE HubInv'
  <1> DEFINE f == Head(outbox[c])
  <1>0. /\ CountsOK /\ LinkOK /\ FramesOK /\ EntryOK /\ ReaderOK /\ MatchOK
        /\ PendingOK /\ PcOK /\ ViaOK /\ AnswerOK /\ ResultOK
        /\ Dialled /\ Unsent /\ Pending /\ Placed
        /\ NoCrossTalk /\ RegisteredIsRead
    BY Parts
  <1>1. outbox[c] \in Seq(Call) /\ outbox[c] # <<>>
    BY <1>0 DEF ReadResponse, FramesOK
  <1>2. f \in Call /\ Tail(outbox[c]) \in Seq(Call)
    BY <1>1
  <1>3. CountsOK' /\ LinkOK' /\ FramesOK'
    BY <1>0, <1>2 DEF ReadResponse, CountsOK, LinkOK, FramesOK
  <1>4. CASE f \in pending[c]
    <2>1. /\ pending' = [pending EXCEPT ![c] = @ \ {f}]
          /\ match' = [match EXCEPT ![c] = <<f, f>>]
          /\ reader' = [reader EXCEPT ![c] = "delivering"]
          /\ reader[c] = "reading"
          /\ UNCHANGED <<dials, open, registered, pc, via, respCh, result>>
      BY <1>4 DEF ReadResponse, ReaderGoes, calls
    <2> HIDE DEF f
    <2>2. EntryOK' /\ PcOK' /\ ViaOK' /\ AnswerOK' /\ ResultOK'
      BY <1>0, <2>1 DEF EntryOK, PcOK, ViaOK, AnswerOK, ResultOK
    <2>3. ReaderOK' /\ PendingOK'
      BY <1>0, <2>1 DEF ReaderOK, PendingOK
    <2>4. MatchOK'
      BY <1>0, <1>2, <2>1 DEF MatchOK
    <2>5. Dialled' /\ Unsent' /\ NoCrossTalk'
      BY <1>0, <2>1 DEF ReaderOK, Dialled, Unsent, NoCrossTalk
    <2>6. Pending'
      BY <1>0, <2>1 DEF PendingOK, Pending
    <2>7. match'[c] = <<f, f>> /\ f \notin pending'[c]
      BY <1>0, <2>1 DEF MatchOK, PendingOK
    <2>8. via[f] = c /\ pc[f] \notin {"new", "adding"} /\ respCh[f] = Nobody
      BY <1>0, <1>4 DEF Pending
    <2>9. InHand(c)'
      BY <1>2, <2>1, <2>7, <2>8 DEF InHand
    <2>10. ASSUME NEW d \in Conn, reader'[d] = "delivering", d # c
           PROVE  InHand(d)'
      <3>1. reader[d] = "delivering" /\ match'[d] = match[d]
            /\ pending'[d] = pending[d]
        BY <1>0, <2>1, <2>10 DEF ReaderOK, MatchOK, PendingOK
      <3> QED BY <1>0, <2>1, <3>1 DEF Placed, InHand
    <2>11. Placed'
      BY <2>9, <2>10 DEF Placed
    <2>12. RegisteredIsRead'
      BY <1>0, <2>1 DEF ReaderOK, RegisteredIsRead
    <2> QED BY <1>3, <2>2, <2>3, <2>4, <2>5, <2>6, <2>11, <2>12, PartsNext
  <1>5. CASE f \notin pending[c]
    <2>1. open' \subseteq open /\ UNCHANGED <<dials, hub, calls>>
      BY <1>5 DEF ReadResponse, hub
    <2> QED BY <1>3, <2>1, OutsideStep
  <1> QED BY <1>4, <1>5

LEMMA DeliverStep ==
  ASSUME HubInv, NEW c \in Conn, Deliver(c)  PROVE HubInv'
  <1> DEFINE r == match[c][1]
  <1>0. /\ CountsOK /\ LinkOK /\ FramesOK /\ EntryOK /\ ReaderOK /\ MatchOK
        /\ PendingOK /\ PcOK /\ ViaOK /\ AnswerOK /\ ResultOK
        /\ Dialled /\ Unsent /\ Pending /\ Placed
        /\ NoCrossTalk /\ RegisteredIsRead
    BY Parts
  <1>1. r \in Call /\ match[c][2] = r /\ InHand(c)
    BY <1>0 DEF Deliver, Placed, InHand
  <1>2. /\ respCh' = [respCh EXCEPT ![r] = r]
        /\ match' = [match EXCEPT ![c] = Nothing]
        /\ reader' = [reader EXCEPT ![c] = "reading"]
        /\ reader[c] = "delivering"
        /\ UNCHANGED <<dials, drops, link, open, inbox, outbox, registered,
                       pending, pc, via, result>>
    BY <1>1 DEF Deliver, network, ReaderGoes
  <1>3. via[r] = c /\ pc[r] \notin {"new", "adding"} /\ r \notin pending[c]
    BY <1>1 DEF InHand
  <1> HIDE DEF r
  <1>4. /\ CountsOK' /\ LinkOK' /\ FramesOK' /\ EntryOK' /\ PendingOK' /\ PcOK'
        /\ ViaOK' /\ ResultOK'
    BY <1>0, <1>2 DEF CountsOK, LinkOK, FramesOK, EntryOK, PendingOK, PcOK,
                      ViaOK, ResultOK
  <1>5. ReaderOK' /\ MatchOK'
    BY <1>0, <1>2 DEF ReaderOK, MatchOK
  <1>6. AnswerOK'
    BY <1>0, <1>1, <1>2 DEF AnswerOK
  <1>7. Dialled'
    BY <1>0, <1>2 DEF ReaderOK, Dialled
  <1>8. Unsent'
    BY <1>0, <1>1, <1>2, <1>3 DEF AnswerOK, Unsent
  <1>9. Pending'
    BY <1>0, <1>1, <1>2, <1>3 DEF AnswerOK, Pending
  <1>10. Placed'
    <2> SUFFICES ASSUME NEW d \in Conn, reader'[d] = "delivering"
                 PROVE  InHand(d)'
      BY DEF Placed
    <2>1. d # c /\ reader[d] = "delivering" /\ match'[d] = match[d]
      BY <1>0, <1>2 DEF ReaderOK, MatchOK
    <2>2. InHand(d) /\ match[d][1] # r
      BY <1>0, <1>3, <2>1 DEF Placed, InHand
    <2>3. respCh'[match[d][1]] = respCh[match[d][1]]
      BY <1>0, <1>2, <2>2 DEF AnswerOK, InHand
    <2> QED BY <1>2, <2>1, <2>2, <2>3 DEF InHand
  <1>11. NoCrossTalk'
    BY <1>0, <1>1, <1>2 DEF AnswerOK, NoCrossTalk
  <1>12. RegisteredIsRead'
    BY <1>0, <1>2 DEF ReaderOK, RegisteredIsRead
  <1> QED BY <1>4, <1>5, <1>6, <1>7, <1>8, <1>9, <1>10, <1>11, <1>12, PartsNext

LEMMA ReadFailsStep ==
  ASSUME HubInv, NEW c \in Conn, ReadFails(c)  PROVE HubInv'
  <1>0. /\ CountsOK /\ LinkOK /\ FramesOK /\ EntryOK /\ ReaderOK /\ MatchOK
        /\ PendingOK /\ PcOK /\ ViaOK /\ AnswerOK /\ ResultOK
        /\ Dialled /\ Unsent /\ Pending /\ Placed
        /\ NoCrossTalk /\ RegisteredIsRead
    BY Parts
  <1>1. UNCHANGED <<dials, open, link, inbox, outbox, registered, match,
                   pending, pc, via, respCh, result>>
    BY DEF ReadFails, ReaderGoes, network, calls
  <1>2. /\ LinkOK' /\ FramesOK' /\ EntryOK' /\ MatchOK' /\ PendingOK'
        /\ PcOK' /\ ViaOK' /\ AnswerOK' /\ ResultOK' /\ Unsent'
        /\ Pending' /\ NoCrossTalk'
    BY <1>0, <1>1
    DEF LinkOK, FramesOK, EntryOK, MatchOK, PendingOK, PcOK, ViaOK,
           AnswerOK, ResultOK, Unsent, Pending, NoCrossTalk
  <1>3. CountsOK'
    BY <1>0, <1>1, HubAssumption
    DEF ReadFails, ReaderGoes, network, calls, CountsOK
  <1>4. ReaderOK'
    BY <1>0, <1>1
    DEF ReadFails, ReaderGoes, network, calls, ReaderOK
  <1>5. Dialled'
    BY <1>0, <1>1
    DEF ReadFails, ReaderGoes, network, calls, Dialled, ReaderOK
  <1>6. Placed'
    BY <1>0, <1>1
    DEF ReadFails, ReaderGoes, network, calls, Placed, ReaderOK, MatchOK,
        PcOK, ViaOK, AnswerOK, PendingOK, InHand
  <1>7. RegisteredIsRead'
    BY <1>0, <1>1
    DEF ReadFails, ReaderGoes, network, calls, RegisteredIsRead, ReaderOK,
        EntryOK, LinkOK
  <1> QED BY <1>2, <1>3, <1>4, <1>5, <1>6, <1>7, PartsNext

LEMMA UnregisterStep ==
  ASSUME HubInv, NEW c \in Conn, Unregister(c)  PROVE HubInv'
  <1>0. /\ CountsOK /\ LinkOK /\ FramesOK /\ EntryOK /\ ReaderOK /\ MatchOK
        /\ PendingOK /\ PcOK /\ ViaOK /\ AnswerOK /\ ResultOK
        /\ Dialled /\ Unsent /\ Pending /\ Placed
        /\ NoCrossTalk /\ RegisteredIsRead
    BY Parts
  <1>1. UNCHANGED <<dials, drops, open, link, inbox, outbox, match, pending,
                   pc, via, respCh, result>>
    BY DEF Unregister, ReaderGoes, network, calls
  <1>2. /\ CountsOK' /\ LinkOK' /\ FramesOK' /\ MatchOK' /\ PendingOK'
        /\ PcOK' /\ ViaOK' /\ AnswerOK' /\ ResultOK' /\ Unsent'
        /\ Pending' /\ NoCrossTalk'
    BY <1>0, <1>1
    DEF CountsOK, LinkOK, FramesOK, MatchOK, PendingOK, PcOK, ViaOK,
           AnswerOK, ResultOK, Unsent, Pending, NoCrossTalk
  <1>3. EntryOK'
    BY <1>0, <1>1, HubAssumption
    DEF Unregister, ReaderGoes, network, calls, EntryOK
  <1>4. ReaderOK'
    BY <1>0, <1>1
    DEF Unregister, ReaderGoes, network, calls, ReaderOK
  <1>5. Dialled'
    BY <1>0, <1>1
    DEF Unregister, ReaderGoes, network, calls, Dialled, ReaderOK
  <1>6. Placed'
    BY <1>0, <1>1
    DEF Unregister, ReaderGoes, network, calls, Placed, ReaderOK, MatchOK,
        PcOK, ViaOK, AnswerOK, PendingOK, InHand
  <1>7. RegisteredIsRead'
    BY <1>0, <1>1, HubAssumption
    DEF Unregister, ReaderGoes, network, calls, RegisteredIsRead, ReaderOK,
        EntryOK, LinkOK, Conn
  <1> QED BY <1>2, <1>3, <1>4, <1>5, <1>6, <1>7, PartsNext

(***************************************************************************)
(* RequestLive                                                             *)
(***************************************************************************)

LEMMA FindConnStep ==
  ASSUME HubInv, NEW r \in Call, FindConn(r)  PROVE HubInv'
  <1>0. /\ CountsOK /\ LinkOK /\ FramesOK /\ EntryOK /\ ReaderOK /\ MatchOK
        /\ PendingOK /\ PcOK /\ ViaOK /\ AnswerOK /\ ResultOK
        /\ Dialled /\ Unsent /\ Pending /\ Placed
        /\ NoCrossTalk /\ RegisteredIsRead
    BY Parts
  <1>1. UNCHANGED <<dials, drops, open, link, inbox, outbox, registered,
                   reader, match, pending, respCh>>
    BY DEF FindConn, Return, CallGoes, network, hub
  <1>2. /\ CountsOK' /\ LinkOK' /\ FramesOK' /\ EntryOK' /\ ReaderOK'
        /\ MatchOK' /\ PendingOK' /\ AnswerOK' /\ Dialled'
        /\ RegisteredIsRead'
    BY <1>0, <1>1
    DEF CountsOK, LinkOK, FramesOK, EntryOK, ReaderOK, MatchOK, PendingOK,
           AnswerOK, Dialled, RegisteredIsRead
  <1>3. PcOK'
    BY <1>0, <1>1
    DEF FindConn, Return, CallGoes, network, hub, PcOK
  <1>4. ViaOK'
    BY <1>0, <1>1
    DEF FindConn, Return, CallGoes, network, hub, ViaOK, EntryOK
  <1>5. ResultOK'
    BY <1>0, <1>1
    DEF FindConn, Return, CallGoes, network, hub, ResultOK
  <1>6. Unsent'
    <2>1. CASE registered = 0
      BY <1>0, <1>1, <2>1 DEF FindConn, Return, CallGoes, PcOK, Unsent
    <2>2. CASE registered # 0
      <3>1. registered \in Conn
        BY <1>0, <2>2, HubAssumption DEF EntryOK, Conn
      <3>2. /\ pc' = [pc EXCEPT ![r] = "adding"]
            /\ via' = [via EXCEPT ![r] = registered]
        BY <2>2 DEF FindConn, CallGoes
      <3> QED BY <1>0, <1>1, <3>1, <3>2 DEF FindConn, PcOK, ViaOK, Unsent
    <2> QED BY <2>1, <2>2
  <1>7. Pending'
    BY <1>0, <1>1
    DEF FindConn, Return, CallGoes, network, hub, Pending, PendingOK, PcOK,
        ViaOK, AnswerOK
  <1>8. Placed'
    <2>1. ASSUME NEW f \in Call, pc[f] \notin {"new", "adding"}
          PROVE  via'[f] = via[f] /\ pc'[f] = pc[f]
      BY <1>0, <2>1 DEF FindConn, Return, CallGoes, PcOK, ViaOK
    <2> QED BY <1>0, <1>1, <2>1 DEF Placed, InHand
  <1>9. NoCrossTalk'
    BY <1>0, <1>1
    DEF FindConn, Return, CallGoes, network, hub, NoCrossTalk, AnswerOK,
        ResultOK
  <1> QED BY <1>2, <1>3, <1>4, <1>5, <1>6, <1>7, <1>8, <1>9, PartsNext

LEMMA AddPendingStep ==
  ASSUME HubInv, NEW r \in Call, AddPending(r)  PROVE HubInv'
  <1>0. /\ CountsOK /\ LinkOK /\ FramesOK /\ EntryOK /\ ReaderOK /\ MatchOK
        /\ PendingOK /\ PcOK /\ ViaOK /\ AnswerOK /\ ResultOK
        /\ Dialled /\ Unsent /\ Pending /\ Placed
        /\ NoCrossTalk /\ RegisteredIsRead
    BY Parts
  <1>1. UNCHANGED <<dials, drops, open, link, inbox, outbox, registered,
                   reader, match, via, respCh, result>>
    BY DEF AddPending, CallGoes, network
  <1>2. via[r] \in Conn /\ respCh[r] = Nobody
    BY <1>0 DEF AddPending, Unsent
  <1>3. /\ CountsOK' /\ LinkOK' /\ FramesOK' /\ EntryOK' /\ ReaderOK'
        /\ MatchOK' /\ ViaOK' /\ AnswerOK' /\ ResultOK' /\ Dialled'
        /\ NoCrossTalk' /\ RegisteredIsRead'
    BY <1>0, <1>1
    DEF CountsOK, LinkOK, FramesOK, EntryOK, ReaderOK, MatchOK, ViaOK,
           AnswerOK, ResultOK, Dialled, NoCrossTalk, RegisteredIsRead
  <1>4. PendingOK'
    BY <1>0, <1>1, <1>2
    DEF AddPending, CallGoes, network, PendingOK
  <1>5. PcOK'
    BY <1>0, <1>1
    DEF AddPending, CallGoes, network, PcOK
  <1>6. Unsent'
    BY <1>0, <1>1
    DEF AddPending, CallGoes, network, Unsent, PcOK, ViaOK, AnswerOK
  <1>7. Pending'
    BY <1>0, <1>1, <1>2
    DEF AddPending, CallGoes, network, Pending, PendingOK, PcOK, ViaOK,
        AnswerOK
  <1>8. Placed'
    BY <1>0, <1>1, <1>2
    DEF AddPending, CallGoes, network, Placed, ReaderOK, MatchOK, PcOK, ViaOK,
        AnswerOK, PendingOK, InHand
  <1> QED BY <1>3, <1>4, <1>5, <1>6, <1>7, <1>8, PartsNext

LEMMA WriteFrameStep ==
  ASSUME HubInv, NEW r \in Call, WriteFrame(r)  PROVE HubInv'
  <1>0. /\ CountsOK /\ LinkOK /\ FramesOK /\ EntryOK /\ ReaderOK /\ MatchOK
        /\ PendingOK /\ PcOK /\ ViaOK /\ AnswerOK /\ ResultOK
        /\ Dialled /\ Unsent /\ Pending /\ Placed
        /\ NoCrossTalk /\ RegisteredIsRead
    BY Parts
  <1>1. UNCHANGED <<dials, drops, open, link, outbox, registered, reader,
                   match, pending, via, respCh>>
    BY DEF WriteFrame, Return, CallGoes, hub
  <1>2. /\ CountsOK' /\ LinkOK' /\ EntryOK' /\ ReaderOK' /\ MatchOK'
        /\ PendingOK' /\ ViaOK' /\ AnswerOK' /\ Dialled'
        /\ RegisteredIsRead'
    BY <1>0, <1>1
    DEF CountsOK, LinkOK, EntryOK, ReaderOK, MatchOK, PendingOK, ViaOK,
           AnswerOK, Dialled, RegisteredIsRead
  <1>3. FramesOK'
    <2>1. CASE inbox' = inbox
      BY <1>0, <1>1, <2>1 DEF FramesOK
    <2>2. CASE /\ inbox' = [inbox EXCEPT ![via[r]] = Append(@, r)]
               /\ via[r] \in open
      <3>1. Append(inbox[via[r]], r) \in Seq(Call)
        BY <1>0, <2>2 DEF FramesOK, LinkOK
      <3> QED BY <1>0, <1>1, <2>2, <3>1 DEF FramesOK
    <2> QED BY <2>1, <2>2 DEF WriteFrame
  <1>4. PcOK'
    BY <1>0, <1>1
    DEF WriteFrame, Return, CallGoes, hub, PcOK
  <1>5. ResultOK'
    BY <1>0, <1>1
    DEF WriteFrame, Return, CallGoes, hub, ResultOK
  <1>6. Unsent'
    BY <1>0, <1>1
    DEF WriteFrame, Return, CallGoes, hub, Unsent, PcOK, ViaOK, AnswerOK
  <1>7. Pending'
    BY <1>0, <1>1, ZenonT(60)
    DEF WriteFrame, Return, CallGoes, hub, Pending, PendingOK, PcOK, ViaOK,
        AnswerOK
  <1>8. Placed'
    <2>1. ASSUME NEW f \in Call, pc[f] \notin {"new", "adding"}
          PROVE  pc'[f] \notin {"new", "adding"}
      BY <1>0, <2>1 DEF WriteFrame, Return, CallGoes, PcOK
    <2> QED BY <1>0, <1>1, <2>1 DEF Placed, InHand
  <1>9. NoCrossTalk'
    BY <1>0, <1>1
    DEF WriteFrame, Return, CallGoes, hub, NoCrossTalk, AnswerOK, ResultOK
  <1> QED BY <1>2, <1>3, <1>4, <1>5, <1>6, <1>7, <1>8, <1>9, PartsNext

LEMMA ReceiveStep ==
  ASSUME HubInv, NEW r \in Call, Receive(r)  PROVE HubInv'
  <1>0. /\ CountsOK /\ LinkOK /\ FramesOK /\ EntryOK /\ ReaderOK /\ MatchOK
        /\ PendingOK /\ PcOK /\ ViaOK /\ AnswerOK /\ ResultOK
        /\ Dialled /\ Unsent /\ Pending /\ Placed
        /\ NoCrossTalk /\ RegisteredIsRead
    BY Parts
  <1>1. UNCHANGED <<dials, drops, open, link, inbox, outbox, registered,
                   reader, match, pending, via, respCh>>
    BY DEF Receive, Return, CallGoes, network, hub
  <1>2. /\ CountsOK' /\ LinkOK' /\ FramesOK' /\ EntryOK' /\ ReaderOK'
        /\ MatchOK' /\ PendingOK' /\ ViaOK' /\ AnswerOK' /\ Dialled'
        /\ RegisteredIsRead'
    BY <1>0, <1>1
    DEF CountsOK, LinkOK, FramesOK, EntryOK, ReaderOK, MatchOK, PendingOK,
           ViaOK, AnswerOK, Dialled, RegisteredIsRead
  <1>3. PcOK'
    BY <1>0, <1>1
    DEF Receive, Return, CallGoes, network, hub, PcOK
  <1>4. ResultOK'
    BY <1>0, <1>1
    DEF Receive, Return, CallGoes, network, hub, ResultOK
  <1>5. Unsent'
    BY <1>0, <1>1
    DEF Receive, Return, CallGoes, network, hub, Unsent, PcOK, ViaOK, AnswerOK
  <1>6. Pending'
    BY <1>0, <1>1
    DEF Receive, Return, CallGoes, network, hub, Pending, PendingOK, PcOK,
        ViaOK, AnswerOK
  <1>7. Placed'
    BY <1>0, <1>1
    DEF Receive, Return, CallGoes, network, hub, Placed, ReaderOK, MatchOK,
        PcOK, ViaOK, AnswerOK, PendingOK, InHand
  <1>8. NoCrossTalk'
    BY <1>0, <1>1
    DEF Receive, Return, CallGoes, network, hub, NoCrossTalk, AnswerOK,
        ResultOK
  <1> QED BY <1>2, <1>3, <1>4, <1>5, <1>6, <1>7, <1>8, PartsNext

LEMMA TimeoutStep ==
  ASSUME HubInv, NEW r \in Call, Timeout(r)  PROVE HubInv'
  <1>0. /\ CountsOK /\ LinkOK /\ FramesOK /\ EntryOK /\ ReaderOK /\ MatchOK
        /\ PendingOK /\ PcOK /\ ViaOK /\ AnswerOK /\ ResultOK
        /\ Dialled /\ Unsent /\ Pending /\ Placed
        /\ NoCrossTalk /\ RegisteredIsRead
    BY Parts
  <1>1. UNCHANGED <<dials, drops, open, link, inbox, outbox, registered,
                   reader, match, pending, via, respCh>>
    BY DEF Timeout, Return, CallGoes, network, hub
  <1>2. /\ CountsOK' /\ LinkOK' /\ FramesOK' /\ EntryOK' /\ ReaderOK'
        /\ MatchOK' /\ PendingOK' /\ ViaOK' /\ AnswerOK' /\ Dialled'
        /\ RegisteredIsRead'
    BY <1>0, <1>1
    DEF CountsOK, LinkOK, FramesOK, EntryOK, ReaderOK, MatchOK, PendingOK,
           ViaOK, AnswerOK, Dialled, RegisteredIsRead
  <1>3. PcOK'
    BY <1>0, <1>1
    DEF Timeout, Return, CallGoes, network, hub, PcOK
  <1>4. ResultOK'
    BY <1>0, <1>1
    DEF Timeout, Return, CallGoes, network, hub, ResultOK
  <1>5. Unsent'
    BY <1>0, <1>1
    DEF Timeout, Return, CallGoes, network, hub, Unsent, PcOK, ViaOK, AnswerOK
  <1>6. Pending'
    BY <1>0, <1>1
    DEF Timeout, Return, CallGoes, network, hub, Pending, PendingOK, PcOK,
        ViaOK, AnswerOK
  <1>7. Placed'
    BY <1>0, <1>1
    DEF Timeout, Return, CallGoes, network, hub, Placed, ReaderOK, MatchOK,
        PcOK, ViaOK, AnswerOK, PendingOK, InHand
  <1>8. NoCrossTalk'
    BY <1>0, <1>1
    DEF Timeout, Return, CallGoes, network, hub, NoCrossTalk, AnswerOK,
        ResultOK
  <1> QED BY <1>2, <1>3, <1>4, <1>5, <1>6, <1>7, <1>8, PartsNext

LEMMA CleanupStep ==
  ASSUME HubInv, NEW r \in Call, Cleanup(r)  PROVE HubInv'
  <1>0. /\ CountsOK /\ LinkOK /\ FramesOK /\ EntryOK /\ ReaderOK /\ MatchOK
        /\ PendingOK /\ PcOK /\ ViaOK /\ AnswerOK /\ ResultOK
        /\ Dialled /\ Unsent /\ Pending /\ Placed
        /\ NoCrossTalk /\ RegisteredIsRead
    BY Parts
  <1>1. UNCHANGED <<dials, drops, open, link, inbox, outbox, registered,
                   reader, match, via, respCh, result>>
    BY DEF Cleanup, CallGoes, network
  <1>2. /\ CountsOK' /\ LinkOK' /\ FramesOK' /\ EntryOK' /\ ReaderOK'
        /\ MatchOK' /\ ViaOK' /\ AnswerOK' /\ ResultOK' /\ Dialled'
        /\ NoCrossTalk' /\ RegisteredIsRead'
    BY <1>0, <1>1
    DEF CountsOK, LinkOK, FramesOK, EntryOK, ReaderOK, MatchOK, ViaOK,
           AnswerOK, ResultOK, Dialled, NoCrossTalk, RegisteredIsRead
  <1>3. PendingOK'
    BY <1>0, <1>1
    DEF Cleanup, CallGoes, network, PendingOK
  <1>4. PcOK'
    BY <1>0, <1>1
    DEF Cleanup, CallGoes, network, PcOK
  <1>5. Unsent'
    BY <1>0, <1>1
    DEF Cleanup, CallGoes, network, Unsent, PcOK, ViaOK, AnswerOK
  <1>6. Pending'
    BY <1>0, <1>1
    DEF Cleanup, CallGoes, network, Pending, PendingOK, PcOK, ViaOK, AnswerOK
  <1>7. Placed'
    BY <1>0, <1>1
    DEF Cleanup, CallGoes, network, Placed, ReaderOK, MatchOK, PcOK, ViaOK,
        AnswerOK, PendingOK, InHand
  <1> QED BY <1>2, <1>3, <1>4, <1>5, <1>6, <1>7, PartsNext

LEMMA HubStep == HubInv /\ [Next]_vars => HubInv'
  <1> SUFFICES ASSUME HubInv, [Next]_vars PROVE HubInv'
    OBVIOUS
  <1>1. CASE UNCHANGED vars
    <2>1. CountsOK /\ LinkOK /\ FramesOK
      BY Parts
    <2>2. CountsOK' /\ LinkOK' /\ FramesOK'
      BY <1>1, <2>1 DEF vars, network, CountsOK, LinkOK, FramesOK
    <2> QED BY <1>1, <2>2, OutsideStep DEF vars, network
  <1>2. ASSUME NEW k \in Collector, CollectorStep(k)  PROVE HubInv'
    BY <1>2, DialStep, ServeStep, BreakStep DEF CollectorStep
  <1>3. ASSUME NEW c \in Conn, ReaderStep(c) \/ Drop(c)  PROVE HubInv'
    BY <1>3, RegisterStep, ReadResponseStep, DeliverStep, ReadFailsStep,
       UnregisterStep, BreakStep
    DEF ReaderStep
  <1>4. ASSUME NEW r \in Call, CallStep(r)  PROVE HubInv'
    BY <1>4, FindConnStep, AddPendingStep, WriteFrameStep, ReceiveStep,
       TimeoutStep, CleanupStep
    DEF CallStep
  <1> QED BY <1>1, <1>2, <1>3, <1>4 DEF Next

(***************************************************************************)
(* Theorems                                                                *)
(***************************************************************************)

\* The invariant of Register and RequestLive: every call is in one place, and
\* every connection that is read and works is the registered one.
THEOREM HubInvariant == Spec => []HubInv
  BY HubInit, HubStep, PTL DEF Spec

\* Every variable of the relay keeps its type.
THEOREM HubTypeCorrect == Spec => []TypeOK
  <1>1. HubInv => TypeOK
    BY DEF HubInv
  <1> QED BY <1>1, HubInvariant, PTL

\* RequestLive only returns the response to its own request.
THEOREM NeverCrossTalks == Spec => []NoCrossTalk
  <1>1. HubInv => NoCrossTalk
    BY DEF HubInv
  <1> QED BY <1>1, HubInvariant, PTL

\* Register's late cleanup of a replaced connection spares its successor.
THEOREM RegisteredStaysRead == Spec => []RegisteredIsRead
  <1>1. HubInv => RegisteredIsRead
    BY DEF HubInv
  <1> QED BY <1>1, HubInvariant, PTL

\* RequestLive leaves nothing behind in a pending map.
THEOREM PendingStaysWaiting == Spec => []PendingIsWaiting
  BY HubImplied, HubInvariant, PTL

\* The read loop's send to a call's channel never blocks.
THEOREM ReaderNeverBlocks == Spec => []ReaderNeverStalls
  BY HubImplied, HubInvariant, PTL
=============================================================================
