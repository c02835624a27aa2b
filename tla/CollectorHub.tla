---------------------------- MODULE CollectorHub ----------------------------
(***************************************************************************)
(* The relay of on-demand requests to a cluster's collector: the hub's     *)
(* CollectorHub, and the collector's live_relay loop that dials it, serves *)
(* requests one after the other and redials after any disconnect.          *)
(*                                                                         *)
(* The hub keeps one such entry per cluster and entries share nothing but  *)
(* the map's lock, so the module is about one cluster.  It may have several*)
(* collectors for a while: a rollout starts the new one before the old one *)
(* has stopped, and both hold the same credential.                         *)
(*                                                                         *)
(* Request ids are fresh UUIDs: the id of a call is the call itself.       *)
(***************************************************************************)
EXTENDS Naturals, Sequences

CONSTANTS
  Call,       \* calls of RequestLive
  Nobody,     \* not a call: "no frame"
  Collector,  \* collector processes of the cluster
  MaxConn,    \* bound on the connections ever dialled
  MaxDrops,   \* bound on the network's failures
  Fault       \* the kinds of failure this instance admits

(***************************************************************************)
(* "drop":    a connection breaks                                          *)
(* "silence": pongs stay out for pongWait, and the hub's read times out    *)
(* "unknown": the collector does not know the tool, and does not answer    *)
(***************************************************************************)
ASSUME HubAssumption == /\ Nobody \notin Call
                        /\ MaxConn \in Nat /\ MaxDrops \in Nat
                        /\ Fault \subseteq {"drop", "silence", "unknown"}

\* Connections are numbered as they are dialled; 0 is no connection.
Conn == 1..MaxConn

VARIABLES
  dials,       \* connections dialled so far
  drops,       \* failures so far
  open,        \* the connections neither side has closed or lost
  link,        \* link[k]: the connection collector k holds
  inbox,       \* inbox[c]: requests on their way to the collector
  outbox,      \* outbox[c]: responses on their way to the hub
  registered,  \* h.conns[clusterID]
  reader,      \* reader[c]: where the goroutine that runs Register is
  match,       \* match[c]: the reader's call and the frame to hand it
  pending,     \* pending[c]: the calls awaiting a response on c
  pc,          \* pc[r]: the next step of call r
  via,         \* via[r]: the connection r found
  respCh,      \* respCh[r]: the frame in r's channel (of capacity 1)
  result       \* result[r]: what r returned

Nothing == <<Nobody, Nobody>>

network == <<open, inbox, outbox>>
hub     == <<registered, reader, match, pending>>
calls   == <<pc, via, respCh, result>>
vars    == <<dials, drops, link, network, hub, calls>>

TypeOK ==
  /\ dials \in 0..MaxConn /\ drops \in 0..MaxDrops
  /\ open \subseteq Conn
  /\ link \in [Collector -> 0..MaxConn]
  /\ inbox \in [Conn -> Seq(Call)] /\ outbox \in [Conn -> Seq(Call)]
  /\ registered \in 0..MaxConn
  /\ reader \in [Conn -> {"none", "upgraded", "reading", "delivering",
                          "exiting", "gone"}]
  /\ match \in [Conn -> (Call \X Call) \cup {Nothing}]
  /\ pending \in [Conn -> SUBSET Call]
  /\ pc \in [Call -> {"new", "adding", "writing", "waiting", "returning",
                      "done"}]
  /\ via \in [Call -> 0..MaxConn]
  /\ respCh \in [Call -> Call \cup {Nobody}]
  /\ result \in [Call -> {"none", "answer", "not connected", "send error",
                          "timeout"}]

Init ==
  /\ dials = 0 /\ drops = 0
  /\ open = {}
  /\ link = [k \in Collector |-> 0]
  /\ inbox = [c \in Conn |-> <<>>] /\ outbox = [c \in Conn |-> <<>>]
  /\ registered = 0
  /\ reader = [c \in Conn |-> "none"]
  /\ match = [c \in Conn |-> Nothing]
  /\ pending = [c \in Conn |-> {}]
  /\ pc = [r \in Call |-> "new"]
  /\ via = [r \in Call |-> 0]
  /\ respCh = [r \in Call |-> Nobody]
  /\ result = [r \in Call |-> "none"]

ReaderGoes(c, step) == reader' = [reader EXCEPT ![c] = step]
CallGoes(r, step) == pc' = [pc EXCEPT ![r] = step]
Return(r, res) == /\ result' = [result EXCEPT ![r] = res]
                  /\ CallGoes(r, "returning")

(***************************************************************************)
(* The collector: run_forever and _serve_requests                          *)
(***************************************************************************)

\* The handshake is done: the hub has upgraded the connection, and has yet to
\* register it.
Dial(k) ==
  /\ link[k] = 0
  /\ dials < MaxConn
  /\ dials' = dials + 1
  /\ link' = [link EXCEPT ![k] = dials']
  /\ open' = open \cup {dials'}
  /\ ReaderGoes(dials', "upgraded")
  /\ UNCHANGED <<drops, inbox, outbox, registered, match, pending, calls>>

\* A result and a tool's error are both a response.
Serve(k) ==
  LET c == link[k] IN
  /\ c \in open
  /\ inbox[c] # <<>>
  /\ inbox' = [inbox EXCEPT ![c] = Tail(@)]
  /\ \/ outbox' = [outbox EXCEPT ![c] = Append(@, Head(inbox[c]))]
     \/ "unknown" \in Fault /\ UNCHANGED outbox
  /\ UNCHANGED <<dials, drops, link, open, hub, calls>>

\* The connection is lost or closed by the hub: redial after the backoff.
Disconnected(k) ==
  /\ link[k] # 0
  /\ link[k] \notin open
  /\ link' = [link EXCEPT ![k] = 0]
  /\ UNCHANGED <<dials, drops, network, hub, calls>>

\* External, the websockets library's keepalive: a hub that does not read does
\* not answer pings either.
KeepaliveFails(k) ==
  LET c == link[k] IN
  /\ c \in open
  /\ reader[c] = "gone"
  /\ open' = open \ {c}
  /\ link' = [link EXCEPT ![k] = 0]
  /\ UNCHANGED <<dials, drops, inbox, outbox, hub, calls>>

(***************************************************************************)
(* Register, run by HandleCollectorConnect's goroutine                     *)
(***************************************************************************)

\* A fresh connection replaces and closes the one before it -- the one that
\* registered before it, which may have been dialled after it.
Register(c) ==
  /\ reader[c] = "upgraded"
  /\ registered' = c
  /\ open' = open \ {registered}
  /\ ReaderGoes(c, "reading")
  /\ UNCHANGED <<dials, drops, link, inbox, outbox, match, pending, calls>>

\* Variant: a response goes to whichever call is waiting.
ReadResponse_AnyPending(c) ==
  /\ reader[c] = "reading"
  /\ outbox[c] # <<>>
  /\ outbox' = [outbox EXCEPT ![c] = Tail(@)]
  /\ \E r \in pending[c]:
       /\ match' = [match EXCEPT ![c] = <<r, Head(outbox[c])>>]
       /\ pending' = [pending EXCEPT ![c] = @ \ {r}]
  /\ ReaderGoes(c, "delivering")
  /\ UNCHANGED <<dials, drops, link, open, inbox, registered, calls>>

\* The frame's id finds the channel, which leaves the pending map; a response
\* nobody waits for any more is dropped.
ReadResponse(c) ==
  LET f == Head(outbox[c]) IN
  /\ reader[c] = "reading"
  /\ outbox[c] # <<>>
  /\ outbox' = [outbox EXCEPT ![c] = Tail(@)]
  /\ IF f \in pending[c]
       THEN /\ pending' = [pending EXCEPT ![c] = @ \ {f}]
            /\ match' = [match EXCEPT ![c] = <<f, f>>]
            /\ ReaderGoes(c, "delivering")
       ELSE UNCHANGED <<pending, match, reader>>
  /\ UNCHANGED <<dials, drops, link, open, inbox, registered, calls>>

\* Variant: the channel has no buffer, so a send waits for the call to receive.
HasRoom_Unbuffered(r) == pc[r] = "waiting"

\* Whether a send to r's channel goes through: its buffer holds one frame.
HasRoom(r) == respCh[r] = Nobody

\* ch <- f, outside the lock: the call may have timed out meanwhile.
Deliver(c) ==
  LET r == match[c][1] IN
  /\ reader[c] = "delivering"
  /\ HasRoom(r)
  /\ respCh' = [respCh EXCEPT ![r] = match[c][2]]
  /\ match' = [match EXCEPT ![c] = Nothing]
  /\ ReaderGoes(c, "reading")
  /\ UNCHANGED <<dials, drops, link, network, registered, pending, pc, via,
                 result>>

\* ReadJSON fails: the connection is closed, or pongWait has passed.
ReadFails(c) ==
  /\ reader[c] = "reading"
  /\ \/ c \notin open /\ UNCHANGED drops
     \/ "silence" \in Fault /\ drops < MaxDrops /\ drops' = drops + 1
  /\ ReaderGoes(c, "exiting")
  /\ UNCHANGED <<dials, link, network, registered, match, pending, calls>>

\* Variant: the cleanup does not ask whose entry it deletes.
Unregister_Any(c) ==
  /\ reader[c] = "exiting"
  /\ registered' = 0
  /\ ReaderGoes(c, "gone")
  /\ UNCHANGED <<dials, drops, link, network, match, pending, calls>>

\* The deferred cleanup.  It does not close the connection.
Unregister(c) ==
  /\ reader[c] = "exiting"
  /\ registered' = IF registered = c THEN 0 ELSE registered
  /\ ReaderGoes(c, "gone")
  /\ UNCHANGED <<dials, drops, link, network, match, pending, calls>>

(***************************************************************************)
(* RequestLive                                                             *)
(***************************************************************************)

FindConn(r) ==
  /\ pc[r] = "new"
  /\ IF registered = 0
       THEN Return(r, "not connected") /\ UNCHANGED via
       ELSE /\ via' = [via EXCEPT ![r] = registered]
            /\ CallGoes(r, "adding")
            /\ UNCHANGED result
  /\ UNCHANGED <<dials, drops, link, network, hub, respCh>>

AddPending(r) ==
  /\ pc[r] = "adding"
  /\ pending' = [pending EXCEPT ![via[r]] = @ \cup {r}]
  /\ CallGoes(r, "writing")
  /\ UNCHANGED <<dials, drops, link, network, registered, reader, match, via,
                 respCh, result>>

\* On a connection that is gone the write fails, or is lost in the buffers.
WriteFrame(r) ==
  /\ pc[r] = "writing"
  /\ \/ /\ via[r] \in open
        /\ inbox' = [inbox EXCEPT ![via[r]] = Append(@, r)]
        /\ CallGoes(r, "waiting")
        /\ UNCHANGED result
     \/ /\ via[r] \notin open
        /\ \/ Return(r, "send error")
           \/ CallGoes(r, "waiting") /\ UNCHANGED result
        /\ UNCHANGED inbox
  /\ UNCHANGED <<dials, drops, link, open, outbox, hub, via, respCh>>

Receive(r) ==
  /\ pc[r] = "waiting"
  /\ respCh[r] # Nobody
  /\ Return(r, "answer")
  /\ UNCHANGED <<dials, drops, link, network, hub, via, respCh>>

\* Variant: no timeout of its own.
Timeout_Never(r) == FALSE

\* Variant: the context's own error is returned.
Timeout_RawError(r) ==
  /\ pc[r] = "waiting"
  /\ Return(r, "context deadline exceeded")
  /\ UNCHANGED <<dials, drops, link, network, hub, via, respCh>>

\* requestTimeout passes, or the client of the call goes away.
Timeout(r) ==
  /\ pc[r] = "waiting"
  /\ Return(r, "timeout")
  /\ UNCHANGED <<dials, drops, link, network, hub, via, respCh>>

\* Variant: only the reader takes a call out of the pending map.
Cleanup_None(r) ==
  /\ pc[r] = "returning"
  /\ CallGoes(r, "done")
  /\ UNCHANGED <<dials, drops, link, network, hub, via, respCh, result>>

\* The deferred cleanup, of a call that was added to a pending map.
Cleanup(r) ==
  /\ pc[r] = "returning"
  /\ pending' = [c \in Conn |-> IF c = via[r] THEN pending[c] \ {r}
                                              ELSE pending[c]]
  /\ CallGoes(r, "done")
  /\ UNCHANGED <<dials, drops, link, network, registered, reader, match, via,
                 respCh, result>>

(***************************************************************************)
(* The network                                                             *)
(***************************************************************************)

Drop(c) ==
  /\ "drop" \in Fault
  /\ drops < MaxDrops
  /\ c \in open
  /\ drops' = drops + 1
  /\ open' = open \ {c}
  /\ UNCHANGED <<dials, link, inbox, outbox, hub, calls>>

CollectorStep(k) == Dial(k) \/ Serve(k) \/ Disconnected(k) \/ KeepaliveFails(k)

ReaderStep(c) == \/ Register(c) \/ ReadResponse(c) \/ Deliver(c)
                 \/ ReadFails(c) \/ Unregister(c)

CallStep(r) == \/ FindConn(r) \/ AddPending(r) \/ WriteFrame(r) \/ Receive(r)
               \/ Timeout(r) \/ Cleanup(r)

Next == \/ \E k \in Collector: CollectorStep(k)
        \/ \E c \in Conn: ReaderStep(c) \/ Drop(c)
        \/ \E r \in Call: CallStep(r)

Spec == Init /\ [][Next]_vars

(***************************************************************************)
(* Fairness: goroutines and the collector's tasks run, a call's timer      *)
(* fires, and a read of a closed connection returns.  Nothing is assumed   *)
(* of the network, nor that a request is served.                           *)
(***************************************************************************)
FairSpec ==
  /\ Spec
  /\ \A k \in Collector: WF_vars(Dial(k) \/ Disconnected(k) \/ KeepaliveFails(k))
  /\ \A c \in Conn: WF_vars(ReaderStep(c))
  /\ \A r \in Call: WF_vars(CallStep(r))

(***************************************************************************)
(* Properties                                                              *)
(***************************************************************************)

\* A call is only ever answered with the response to its own request, however
\* the calls sharing the connection time out and are answered late.
NoCrossTalk ==
  \A r \in Call:
    /\ respCh[r] \in {r, Nobody}
    /\ result[r] = "answer" => respCh[r] = r

\* The cleanup of a replaced connection leaves its successor alone, and leaves
\* nothing behind: a connection that is open and being read is the one calls
\* find, and what calls find is being read.
RegisteredIsRead ==
  /\ \A c \in Conn: c \in open /\ reader[c] \in {"reading", "delivering"}
                      => registered = c
  /\ registered # 0 =>
       reader[registered] \in {"reading", "delivering", "exiting"}

\* No call leaves anything behind in a pending map that outlives it, and none
\* is in the map of a connection it does not wait on.
PendingIsWaiting ==
  \A c \in Conn: \A r \in pending[c]:
    via[r] = c /\ pc[r] \in {"writing", "waiting", "returning"}

\* The reader never stalls on a call that has stopped listening: a response it
\* has taken up can always be put into its call's channel.
ReaderNeverStalls ==
  \A c \in Conn: reader[c] = "delivering" => HasRoom(match[c][1])

\* Every call returns, whatever becomes of its connection.
CallsReturn == \A r \in Call: pc[r] # "new" ~> pc[r] = "done"

\* Once failures cease the cluster's collector is registered and stays so,
\* however late the hub's goroutines of its older connections finish.
CollectorReturns == <>[](registered # 0 /\ registered \in open)
=============================================================================
