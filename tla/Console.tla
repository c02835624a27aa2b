------------------------------- MODULE Console -------------------------------
(***************************************************************************)
(* What the console talks to: questions, renewals and chat messages, each  *)
(* in a goroutine of its own, their traces written after them in others,   *)
(* and a hub that may stop at any moment.  Postgres and the registry stay. *)
(***************************************************************************)
EXTENDS QueryPath, ChatSession

ASSUME ConsoleAssumption == Query \cap Send = {}

vars == <<traceVars, queryVars, chatVars>>

TypeOK == TracesTypeOK /\ QueryTypeOK /\ ChatTypeOK

Init == TracesInit /\ QueryInit /\ ChatInit

\* Whatever was under way is gone, the client's connection with it; goroutines
\* that were writing a trace or an incident are not taken up again.
HubStops ==
  LET cut == {r \in Asker: Writing(r)} IN
  /\ Spend("crash")
  /\ query' = [q \in Query |-> IF Open(q) THEN Closed(q, "gone")[q] ELSE query[q]]
  /\ send' = [s \in Send |-> IF send[s].pc \in {"agent", "save"}
                               THEN [send[s] EXCEPT !.pc = "gone", !.copy = Blank("unused")]
                               ELSE send[s]]
  /\ job' = [r \in Asker |-> IF r \in cut THEN [job[r] EXCEPT !.step = "done"] ELSE job[r]]
  /\ marred' = marred \cup cut
  /\ UNCHANGED <<tables, storeVars, reply, seeds, seen, session, removed, before, beside>>

Next ==
  \/ QueryNext /\ UNCHANGED chatVars
  \/ ChatNext /\ UNCHANGED queryVars
  \/ \E r \in Asker: (JobStep(r) \/ JobFails(r)) /\ UNCHANGED <<queryVars, chatVars>>
  \/ HubStops

Spec == Init /\ [][Next]_vars

\* A handler goes on, every call it makes having a timeout; so does a goroutine.
FairSpec ==
  /\ Spec
  /\ \A q \in Query: WF_vars(QueryStep(q) /\ UNCHANGED chatVars)
  /\ \A s \in Send: WF_vars(SendStep(s) /\ UNCHANGED queryVars)
  /\ \A r \in Asker: WF_vars(JobStep(r) /\ UNCHANGED <<queryVars, chatVars>>)

(***************************************************************************)
(* Properties                                                              *)
(***************************************************************************)

\* Every request comes to its end, and the history view shows what it came to,
\* with the tier and the status its client was given, unless the INSERT failed
\* or the hub stopped in between.
RequestsSettle ==
  /\ \A q \in Query: Open(q) ~> QuerySettled(q)
  /\ \A s \in Send: send[s].pc = "agent" ~> SendSettled(s)
=============================================================================
