---------------------------- MODULE DeployProofs ----------------------------
(***************************************************************************)
(* Theorems about DeployHistory, for any deployments, guardians, kinds of  *)
(* failure and bounds.                                                     *)
(*                                                                         *)
(* HistoryIsRollouts is not inductive: the next row is decided by a frame  *)
(* that waits in the stream and by a revision noted long before, and both  *)
(* must agree with the rows that are there (FramesAgree, RowsAgree).       *)
(***************************************************************************)
EXTENDS DeployHistory, FiniteSetTheorems, SequenceTheorems, WellFoundedInduction, TLAPS

\* The rows of the history, and the one on its way there.
Noted == {history[i]: i \in DOMAIN history} \cup {pushing[i]: i \in DOMAIN pushing}

\* A deployment that exists has had a rollout since it was created.
Bearing == \A d \in Deployment:
  /\ born[d] <= Len(rollouts[d])
  /\ d \in present => born[d] < Len(rollouts[d])

\* The frames of a stream go through the rollouts in order.  One that says
\* something else than "deleted" is of a later rollout than those before it; one
\* of the latest rollout has its revision, or the deployment is gone.
FramesAgree == \A d \in Deployment: \A k \in DOMAIN queue[d]:
  LET f == queue[d][k] IN
  /\ f.rollout <= Len(rollouts[d])
  /\ f.revision # 0 => f.rollout > 0
  /\ f.rollout = Len(rollouts[d]) =>
       f.revision = Revision(d) \/ (f.revision = 0 /\ d \notin present)
  /\ \A j \in 1 .. k - 1:
       /\ queue[d][j].rollout <= f.rollout
       /\ f.revision # 0 => queue[d][j].rollout < f.rollout

\* A row is of a rollout that happened, and no frame of an earlier one is to
\* come.  Before any restart, a frame of the same rollout is the next one and
\* its revision is known, and the revision known of a deployment whose latest
\* rollout is noted is its present one.
RowsAgree == \A w \in Noted:
  LET d == w.dep IN
  /\ w.rollout > 0 /\ w.rollout <= Len(rollouts[d])
  /\ \A k \in DOMAIN queue[d]:
       /\ w.rollout <= queue[d][k].rollout
       /\ ~restarted /\ queue[d][k].revision # 0 /\ queue[d][k].rollout = w.rollout
            => k = 1 /\ queue[d][k].revision = seen[d]
  /\ ~restarted /\ w.rollout = Len(rollouts[d]) /\ d \in present
       => seen[d] = Revision(d)

\* The row on its way comes after those that are there.
NextRowAgrees ==
  \A k \in DOMAIN pushing: \A i \in DOMAIN history:
    history[i].dep = pushing[k].dep =>
      \/ history[i].rollout < pushing[k].rollout
      \/ restarted /\ history[i].rollout = pushing[k].rollout

WatchInv == /\ Bearing /\ FramesAgree /\ RowsAgree /\ NextRowAgrees
            /\ HistoryIsRollouts

\* No row has two proposals.
RowsProposedOnce == \A p, q \in DOMAIN proposals:
  proposals[p].event = proposals[q].event => p = q

(***************************************************************************)
(* Sequences and the greatest row of a set                                 *)
(***************************************************************************)

\* A set of rows that is not empty has a newest one.
LEMMA NewestRow ==
  ASSUME NEW n \in Nat, NEW S \in SUBSET (1 .. n), S # {}
  PROVE  Max(S) \in S
<1> DEFINE Behind == {n - s: s \in S}
<1>1. Behind \subseteq Nat /\ Behind # {}
  <2>1. \A s \in S: n - s \in Nat
    OBVIOUS
  <2> QED
    BY <2>1
<1>2. PICK b \in Behind: \A c \in Behind: <<c, b>> \notin OpToRel(<, Nat)
  <2> HIDE DEF Behind
  <2> QED
    BY <1>1, WFMin, NatLessThanWellFounded
<1>3. PICK x \in S: b = n - x
  OBVIOUS
<1>4. ASSUME NEW y \in S PROVE x >= y
  <2>1. n - y \in Behind /\ n - y \in Nat /\ n - x \in Nat
    BY <1>1
  <2>2. ~(n - y < n - x)
    BY <1>2, <1>3, <2>1 DEF OpToRel
  <2> QED
    BY <2>2
<1> QED
  BY <1>4 DEF Max

\* r is q, or q with f as d's last frame.
Sent(q, r, d, f) ==
  /\ r \in [Deployment -> Seq(Frame)]
  /\ \A e \in Deployment: \A k \in DOMAIN r[e]:
       /\ \/ k \in DOMAIN q[e] /\ r[e][k] = q[e][k]
          \/ e = d /\ k = Len(q[d]) + 1 /\ r[e][k] = f
       /\ \A j \in 1 .. k - 1: j \in DOMAIN q[e] /\ r[e][j] = q[e][j]

\* That is what a change of d does to the stream, open or not.
LEMMA FrameSent ==
  ASSUME NEW q \in [Deployment -> Seq(Frame)], NEW d \in Deployment, NEW f \in Frame
  PROVE  Sent(q, q, d, f) /\ Sent(q, [q EXCEPT ![d] = Append(@, f)], d, f)
<1> DEFINE r == [q EXCEPT ![d] = Append(@, f)]
<1>1. ASSUME NEW e \in Deployment
      PROVE  Len(q[e]) \in Nat /\ DOMAIN q[e] = 1 .. Len(q[e])
  BY LenProperties
<1>2. /\ Append(q[d], f) \in Seq(Frame)
      /\ Len(Append(q[d], f)) = Len(q[d]) + 1
      /\ \A i \in 1 .. Len(q[d]) + 1:
           Append(q[d], f)[i] = IF i <= Len(q[d]) THEN q[d][i] ELSE f
  BY AppendProperties
<1>3. DOMAIN Append(q[d], f) = 1 .. Len(q[d]) + 1
  BY <1>2, LenProperties
<1>4. Sent(q, q, d, f)
  BY <1>1 DEF Sent
<1>5. r \in [Deployment -> Seq(Frame)]
  BY <1>2
<1>6. ASSUME NEW e \in Deployment, NEW k \in DOMAIN r[e]
      PROVE  /\ \/ k \in DOMAIN q[e] /\ r[e][k] = q[e][k]
                \/ e = d /\ k = Len(q[d]) + 1 /\ r[e][k] = f
             /\ \A j \in 1 .. k - 1: j \in DOMAIN q[e] /\ r[e][j] = q[e][j]
  <2>1. CASE e = d
    <3>1. r[e] = Append(q[d], f)
      BY <2>1
    <3>2. k \in 1 .. Len(q[d]) + 1 /\ Len(q[d]) \in Nat
      BY <3>1, <1>1, <1>3, <1>6
    <3> HIDE DEF r
    <3> QED
      BY <3>1, <3>2, <1>1, <1>2, <2>1
  <2>2. CASE e # d
    <3>1. r[e] = q[e]
      BY <2>2
    <3> HIDE DEF r
    <3> QED
      BY <3>1, <1>1, <1>6
  <2> QED
    BY <2>1, <2>2
<1> QED
  BY <1>4, <1>5, <1>6 DEF Sent

(***************************************************************************)
(* The watch and the rows                                                  *)
(***************************************************************************)

\* The lengths and frames that the steps below compare are numbers.
LEMMA Measures ==
  ASSUME TypeOK
  PROVE  /\ \A d \in Deployment:
              /\ Len(rollouts[d]) \in Nat /\ born[d] \in Nat /\ seen[d] \in Nat
              /\ Len(queue[d]) \in Nat /\ DOMAIN queue[d] = 1 .. Len(queue[d])
              /\ \A k \in DOMAIN queue[d]: queue[d][k] \in Frame
         /\ \A w \in Noted: w \in Row
         /\ Len(history) \in Nat /\ DOMAIN history = 1 .. Len(history)
         /\ \A i \in DOMAIN history: history[i] \in Row /\ history[i] \in Noted
         /\ \A k \in DOMAIN pushing: pushing[k] \in Row /\ pushing[k] \in Noted
         /\ pushing # <<>> => pushing = <<pushing[1]>> /\ DOMAIN pushing = {1}
<1>1. ASSUME NEW d \in Deployment
      PROVE  /\ Len(rollouts[d]) \in Nat /\ born[d] \in Nat /\ seen[d] \in Nat
             /\ Len(queue[d]) \in Nat /\ DOMAIN queue[d] = 1 .. Len(queue[d])
             /\ \A k \in DOMAIN queue[d]: queue[d][k] \in Frame
  BY LenProperties, ElementOfSeq DEF TypeOK
<1>2. /\ Len(history) \in Nat /\ DOMAIN history = 1 .. Len(history)
      /\ \A i \in DOMAIN history: history[i] \in Row
  BY LenProperties, ElementOfSeq DEF TypeOK
<1>3. /\ Len(pushing) \in Nat /\ DOMAIN pushing = 1 .. Len(pushing)
      /\ \A k \in DOMAIN pushing: pushing[k] \in Row
  BY LenProperties, ElementOfSeq DEF TypeOK
<1>4. pushing # <<>> => pushing = <<pushing[1]>> /\ DOMAIN pushing = {1}
  <2> SUFFICES ASSUME pushing # <<>> PROVE pushing = <<pushing[1]>> /\ DOMAIN pushing = {1}
    OBVIOUS
  <2>1. pushing \in Seq(Row) /\ Len(pushing) <= 1
    BY DEF TypeOK
  <2>2. Len(pushing) = 1
    BY <1>3, <2>1, EmptySeq
  <2>3. DOMAIN pushing = {1}
    BY <1>3, <2>2
  <2>4. <<pushing[1]>> \in Seq(Row) /\ Len(<<pushing[1]>>) = 1
    BY <1>3, <2>3
  <2>5. pushing = <<pushing[1]>>
    BY <2>1, <2>2, <2>4, SeqEqual
  <2> QED
    BY <2>3, <2>5
<1> QED
  BY <1>1, <1>2, <1>3, <1>4 DEF Noted

\* A rollout of d, and the creation of d that it may come with.
LEMMA RollOutKeeps ==
  ASSUME TypeOK, WatchInv, NEW d \in Deployment, NEW images \in Row,
         RollOut(d, images), present' = present \cup {d},
         born' = IF d \in present THEN born ELSE [born EXCEPT ![d] = Len(rollouts[d])],
         UNCHANGED <<restarted, seen, pushing, history>>
  PROVE  WatchInv'
<1> DEFINE n == Len(rollouts[d])
           f == [rollout |-> n + 1, revision |-> n + 1 - born'[d]]
<1>1. /\ n \in Nat /\ born[d] \in Nat /\ born' \in [Deployment -> Nat]
      /\ born'[d] \in Nat /\ born'[d] <= n
      /\ \A e \in Deployment: e # d => born'[e] = born[e]
  <2>1. n \in Nat /\ born[d] \in Nat /\ born[d] <= n
    BY Measures DEF WatchInv, Bearing
  <2>2. born \in [Deployment -> Nat]
    BY DEF TypeOK
  <2> HIDE DEF n
  <2>3. CASE born' = born
    BY <2>1, <2>2, <2>3
  <2>4. CASE born' = [born EXCEPT ![d] = n]
    <3>1. n <= n
      BY <2>1
    <3> QED
      BY <2>1, <2>2, <2>4, <3>1
  <2> QED
    BY <2>3, <2>4 DEF n
<1>2. /\ Len(rollouts'[d]) = n + 1
      /\ \A e \in Deployment: e # d => rollouts'[e] = rollouts[e]
  <2>0. rollouts \in [Deployment -> Seq(Row)]
    BY DEF TypeOK
  <2>1. rollouts[d] \in Seq(Row) /\ rollouts' = [rollouts EXCEPT ![d] = Append(@, images)]
    BY <2>0 DEF RollOut
  <2>2. Len(Append(rollouts[d], images)) = n + 1
    BY <2>1, AppendProperties
  <2> QED
    BY <2>0, <2>1, <2>2
<1>3. f \in Frame /\ f.rollout = n + 1 /\ f.revision = n + 1 - born'[d] /\ f.revision > 0
  <2>1. PICK b \in Nat: b = born'[d] /\ b <= n
    BY <1>1
  <2>2. n + 1 \in Nat /\ n + 1 - b \in Nat /\ n + 1 - b > 0
    BY <1>1, <2>1
  <2> QED
    BY <2>1, <2>2 DEF Frame
<1>4. Sent(queue, queue', d, f)
  <2>1. Current(d)' = f
    BY <1>1, <1>2 DEF Current, Revision
  <2> HIDE DEF f
  <2>2. queue \in [Deployment -> Seq(Frame)] /\ f \in Frame
    BY <1>3 DEF TypeOK
  <2>3. queue' = queue \/ queue' = [queue EXCEPT ![d] = Append(@, f)]
    BY <2>1 DEF RollOut
  <2> QED
    BY <2>2, <2>3, FrameSent
<1> HIDE DEF f
<1>5. Bearing'
  <2> SUFFICES ASSUME NEW e \in Deployment
               PROVE  /\ born'[e] <= Len(rollouts'[e])
                      /\ e \in present' => born'[e] < Len(rollouts'[e])
    BY DEF Bearing
  <2>1. CASE e = d
    BY <2>1, <1>1, <1>2
  <2>2. CASE e # d
    BY <2>2, <1>1, <1>2 DEF WatchInv, Bearing
  <2> QED
    BY <2>1, <2>2
<1>6. FramesAgree'
  <2> SUFFICES ASSUME NEW e \in Deployment, NEW k \in DOMAIN queue'[e]
               PROVE  LET g == queue'[e][k] IN
                      /\ g.rollout <= Len(rollouts'[e])
                      /\ g.revision # 0 => g.rollout > 0
                      /\ g.rollout = Len(rollouts'[e]) =>
                           g.revision = Revision(e)' \/ (g.revision = 0 /\ e \notin present')
                      /\ \A j \in 1 .. k - 1:
                           /\ queue'[e][j].rollout <= g.rollout
                           /\ g.revision # 0 => queue'[e][j].rollout < g.rollout
    BY DEF FramesAgree
  <2>1. \A j \in 1 .. k - 1: j \in DOMAIN queue[e] /\ queue'[e][j] = queue[e][j]
    BY <1>4 DEF Sent
  <2>2. CASE k \in DOMAIN queue[e] /\ queue'[e][k] = queue[e][k]
    <3>1. CASE e = d
      <4>1. /\ queue[d][k].rollout \in Nat /\ queue[d][k].rollout <= n
            /\ queue[d][k].revision # 0 => queue[d][k].rollout > 0
            /\ \A j \in 1 .. k - 1:
                 /\ queue[d][j].rollout <= queue[d][k].rollout
                 /\ queue[d][k].revision # 0 => queue[d][j].rollout < queue[d][k].rollout
        BY <2>2, <3>1, Measures DEF WatchInv, FramesAgree, Frame
      <4> QED
        BY <2>1, <2>2, <3>1, <4>1, <1>1, <1>2
    <3>2. CASE e # d
      BY <2>1, <2>2, <3>2, <1>1, <1>2 DEF WatchInv, FramesAgree, Revision
    <3> QED
      BY <3>1, <3>2
  <2>3. CASE e = d /\ queue'[e][k] = f
    <3>1. \A j \in 1 .. k - 1: queue'[d][j].rollout \in Nat /\ queue'[d][j].rollout <= n
      BY <2>1, <2>3, Measures DEF WatchInv, FramesAgree, Frame
    <3>2. f.revision = Revision(d)'
      BY <1>1, <1>2, <1>3 DEF Revision
    <3> QED
      BY <2>3, <3>1, <3>2, <1>1, <1>2, <1>3
  <2> QED
    BY <2>2, <2>3, <1>4 DEF Sent
<1>7. RowsAgree' /\ Noted' = Noted
  <2>1. Noted' = Noted
    BY DEF Noted
  <2> SUFFICES ASSUME NEW w \in Noted
               PROVE  /\ w.rollout > 0 /\ w.rollout <= Len(rollouts'[w.dep])
                      /\ \A k \in DOMAIN queue'[w.dep]:
                           /\ w.rollout <= queue'[w.dep][k].rollout
                           /\ /\ ~restarted /\ queue'[w.dep][k].revision # 0
                              /\ queue'[w.dep][k].rollout = w.rollout
                              => k = 1 /\ queue'[w.dep][k].revision = seen[w.dep]
                      /\ /\ ~restarted /\ w.rollout = Len(rollouts'[w.dep])
                         /\ w.dep \in present'
                         => seen[w.dep] = Revision(w.dep)'
    BY <2>1 DEF RowsAgree
  <2>2. w \in Row /\ w.dep \in Deployment /\ w.rollout \in Nat
    BY Measures DEF Row
  <2>3. w.rollout > 0 /\ w.rollout <= Len(rollouts[w.dep])
    BY DEF WatchInv, RowsAgree
  <2>4. ASSUME NEW k \in DOMAIN queue'[w.dep]
        PROVE  /\ w.rollout <= queue'[w.dep][k].rollout
               /\ /\ ~restarted /\ queue'[w.dep][k].revision # 0
                  /\ queue'[w.dep][k].rollout = w.rollout
                  => k = 1 /\ queue'[w.dep][k].revision = seen[w.dep]
    <3>1. CASE k \in DOMAIN queue[w.dep] /\ queue'[w.dep][k] = queue[w.dep][k]
      BY <3>1 DEF WatchInv, RowsAgree
    <3>2. CASE w.dep = d /\ queue'[w.dep][k] = f
      BY <3>2, <2>2, <2>3, <1>1, <1>3
    <3> QED
      BY <2>2, <3>1, <3>2, <1>4 DEF Sent
  <2>5. CASE w.dep = d
    BY <2>2, <2>3, <2>4, <2>5, <1>1, <1>2
  <2>6. CASE w.dep # d
    BY <2>2, <2>3, <2>4, <2>6, <1>1, <1>2 DEF WatchInv, RowsAgree, Revision
  <2> QED
    BY <2>5, <2>6
<1>8. NextRowAgrees'
  BY DEF WatchInv, NextRowAgrees
<1>9. HistoryIsRollouts'
  <2>1. \A i \in DOMAIN history: history[i].rollout <= Len(rollouts'[history[i].dep])
    BY <1>7, Measures DEF RowsAgree
  <2> QED
    BY <2>1 DEF WatchInv, HistoryIsRollouts
<1> QED
  BY <1>5, <1>6, <1>7, <1>8, <1>9 DEF WatchInv

\* d is deleted.
LEMMA DeleteKeeps ==
  ASSUME TypeOK, WatchInv, NEW d \in Deployment, Delete(d)
  PROVE  WatchInv'
<1> DEFINE f == Deleted(d)
<1>1. f \in Frame /\ f.rollout = Len(rollouts[d]) /\ f.revision = 0
  BY Measures DEF Deleted, Frame
<1>2. /\ UNCHANGED <<rollouts, born, restarted, seen, pushing, history>>
      /\ present' = present \ {d}
  BY DEF Delete, ghosts
<1> HIDE DEF f
<1>3. Sent(queue, queue', d, f)
  BY <1>1, FrameSent DEF Delete, TypeOK, f
<1>4. Bearing'
  BY <1>2 DEF WatchInv, Bearing
<1>5. FramesAgree'
  <2> SUFFICES ASSUME NEW e \in Deployment, NEW k \in DOMAIN queue'[e]
               PROVE  LET g == queue'[e][k] IN
                      /\ g.rollout <= Len(rollouts[e])
                      /\ g.revision # 0 => g.rollout > 0
                      /\ g.rollout = Len(rollouts[e]) =>
                           g.revision = Revision(e) \/ (g.revision = 0 /\ e \notin present')
                      /\ \A j \in 1 .. k - 1:
                           /\ queue'[e][j].rollout <= g.rollout
                           /\ g.revision # 0 => queue'[e][j].rollout < g.rollout
    BY <1>2 DEF FramesAgree, Revision
  <2>1. \A j \in 1 .. k - 1: j \in DOMAIN queue[e] /\ queue'[e][j] = queue[e][j]
    BY <1>3 DEF Sent
  <2>2. CASE k \in DOMAIN queue[e] /\ queue'[e][k] = queue[e][k]
    BY <2>1, <2>2, <1>2 DEF WatchInv, FramesAgree
  <2>3. CASE e = d /\ queue'[e][k] = f
    <3>1. \A j \in 1 .. k - 1: queue'[d][j].rollout <= Len(rollouts[d])
      BY <2>1, <2>3 DEF WatchInv, FramesAgree
    <3> QED
      BY <2>3, <3>1, <1>1, <1>2, Measures
  <2> QED
    BY <2>2, <2>3, <1>3 DEF Sent
<1>6. RowsAgree'
  <2> SUFFICES ASSUME NEW w \in Noted
               PROVE  /\ w.rollout > 0 /\ w.rollout <= Len(rollouts[w.dep])
                      /\ \A k \in DOMAIN queue'[w.dep]:
                           /\ w.rollout <= queue'[w.dep][k].rollout
                           /\ /\ ~restarted /\ queue'[w.dep][k].revision # 0
                              /\ queue'[w.dep][k].rollout = w.rollout
                              => k = 1 /\ queue'[w.dep][k].revision = seen[w.dep]
                      /\ /\ ~restarted /\ w.rollout = Len(rollouts[w.dep])
                         /\ w.dep \in present'
                         => seen[w.dep] = Revision(w.dep)
    <3>1. Noted' = Noted
      BY <1>2 DEF Noted
    <3> QED
      BY <3>1, <1>2 DEF RowsAgree, Revision
  <2>1. w.dep \in Deployment
    BY Measures DEF Row
  <2>2. ASSUME NEW k \in DOMAIN queue'[w.dep]
        PROVE  /\ w.rollout <= queue'[w.dep][k].rollout
               /\ /\ ~restarted /\ queue'[w.dep][k].revision # 0
                  /\ queue'[w.dep][k].rollout = w.rollout
                  => k = 1 /\ queue'[w.dep][k].revision = seen[w.dep]
    <3>1. CASE k \in DOMAIN queue[w.dep] /\ queue'[w.dep][k] = queue[w.dep][k]
      BY <3>1 DEF WatchInv, RowsAgree
    <3>2. CASE w.dep = d /\ queue'[w.dep][k] = f
      BY <3>2, <1>1 DEF WatchInv, RowsAgree
    <3> QED
      BY <2>1, <3>1, <3>2, <1>3 DEF Sent
  <2> QED
    BY <2>2, <1>2 DEF WatchInv, RowsAgree
<1> QED
  BY <1>2, <1>4, <1>5, <1>6 DEF WatchInv, NextRowAgrees, HistoryIsRollouts

\* A connection lists what is there.
LEMMA ConnectKeeps ==
  ASSUME TypeOK, WatchInv, Connect
  PROVE  WatchInv'
<1> USE DEF Connect, cluster, ghosts
<1>1. Noted' = Noted
  BY DEF Noted
<1>2. ASSUME NEW d \in Deployment, NEW k \in DOMAIN queue'[d]
      PROVE  /\ d \in present /\ k = 1
             /\ queue'[d][k].rollout = Len(rollouts[d])
             /\ queue'[d][k].revision = Revision(d)
  <2>1. queue'[d] = IF d \in present THEN <<Current(d)>> ELSE <<>>
    OBVIOUS
  <2>2. d \in present /\ k = 1 /\ queue'[d][k] = Current(d)
    BY <2>1, <1>2
  <2> QED
    BY <2>2 DEF Current
<1>3. FramesAgree'
  <2> SUFFICES ASSUME NEW d \in Deployment, NEW k \in DOMAIN queue'[d]
               PROVE  /\ Len(rollouts[d]) \in Nat /\ Len(rollouts[d]) > 0
                      /\ 1 .. k - 1 = {}
    BY <1>2 DEF FramesAgree, Revision
  <2> QED
    BY <1>2, Measures DEF WatchInv, Bearing
<1>4. RowsAgree'
  <2>1. \A w \in Noted: w.dep \in Deployment
    BY Measures DEF Row
  <2> QED
    BY <1>1, <1>2, <2>1 DEF WatchInv, RowsAgree, Revision
<1> QED
  BY <1>3, <1>4 DEF WatchInv, Bearing, NextRowAgrees, HistoryIsRollouts

\* The row on its way is inserted, or lost.
LEMMA PushKeeps ==
  ASSUME TypeOK, WatchInv, PushLands \/ PushFails
  PROVE  WatchInv'
<1> USE DEF cluster, ghosts
<1>1. CASE PushLands
  <2> DEFINE w == pushing[1]
  <2>1. /\ pushing = <<w>> /\ w \in Row /\ DOMAIN pushing = {1}
        /\ history' = Append(history, w) /\ pushing' = <<>>
    BY <1>1, Measures, AppendIsConcat DEF PushLands, TypeOK
  <2> HIDE DEF w
  <2>2. /\ DOMAIN history' = 1 .. Len(history) + 1
        /\ \A i \in 1 .. Len(history): history'[i] = history[i]
        /\ history'[Len(history) + 1] = w
    BY <2>1, AppendProperties, LenProperties DEF TypeOK
  <2>3. Len(history) \in Nat /\ DOMAIN history = 1 .. Len(history)
    BY Measures
  <2>4. Noted' \subseteq Noted /\ w \in Noted
    BY <2>1, <2>2, <2>3 DEF Noted
  <2>5. FramesAgree' /\ RowsAgree' /\ Bearing'
    BY <1>1, <2>4 DEF PushLands, WatchInv, FramesAgree, RowsAgree, Bearing, Revision
  <2>6. NextRowAgrees'
    BY <2>1 DEF NextRowAgrees
  <2>7. HistoryIsRollouts'
    <3>1. \A i \in DOMAIN history': history'[i].rollout <= Len(rollouts[history'[i].dep])
      BY <2>2, <2>3, <2>4 DEF WatchInv, RowsAgree, HistoryIsRollouts
    <3>2. ASSUME NEW i \in DOMAIN history', NEW j \in DOMAIN history', i < j,
                 history'[i].dep = history'[j].dep
          PROVE  \/ history'[i].rollout < history'[j].rollout
                 \/ restarted /\ history'[i].rollout = history'[j].rollout
      <4>1. i \in DOMAIN history /\ history'[i] = history[i]
        BY <2>2, <2>3, <3>2
      <4>2. CASE j \in DOMAIN history /\ history'[j] = history[j]
        BY <3>2, <4>1, <4>2 DEF WatchInv, HistoryIsRollouts
      <4>3. CASE history'[j] = w
        BY <2>1, <3>2, <4>1, <4>3 DEF WatchInv, NextRowAgrees
      <4> QED
        BY <2>2, <2>3, <4>2, <4>3
    <3> QED
      BY <1>1, <3>1, <3>2 DEF PushLands, HistoryIsRollouts
  <2> QED
    BY <2>5, <2>6, <2>7 DEF WatchInv
<1>2. CASE PushFails
  <2>1. Noted' \subseteq Noted
    BY <1>2 DEF PushFails, Noted
  <2>2. FramesAgree' /\ Bearing' /\ RowsAgree'
    BY <1>2, <2>1 DEF PushFails, WatchInv, Bearing, FramesAgree, RowsAgree, Revision
  <2>3. NextRowAgrees' /\ HistoryIsRollouts'
    BY <1>2 DEF PushFails, WatchInv, NextRowAgrees, HistoryIsRollouts
  <2> QED
    BY <2>2, <2>3 DEF WatchInv
<1> QED
  BY <1>1, <1>2

\* The stream ends, with discovery or without it.
LEMMA DropKeeps ==
  ASSUME TypeOK, WatchInv, WatchDrops \/ Restart
  PROVE  WatchInv'
<1> USE DEF cluster, ghosts, NoFrames
<1>1. /\ queue' = [d \in Deployment |-> <<>>] /\ UNCHANGED <<cluster, history>>
      /\ Noted' \subseteq Noted
  BY DEF WatchDrops, Restart, Noted
<1>2. FramesAgree' /\ Bearing'
  BY <1>1 DEF FramesAgree, WatchInv, Bearing
<1>3. RowsAgree'
  <2>1. \A w \in Noted': w.dep \in Deployment /\ queue'[w.dep] = <<>>
    BY <1>1, Measures DEF Row
  <2> QED
    BY <1>1, <2>1 DEF WatchDrops, Restart, WatchInv, RowsAgree, Revision
<1>4. NextRowAgrees' /\ HistoryIsRollouts'
  BY DEF WatchDrops, Restart, WatchInv, NextRowAgrees, HistoryIsRollouts
<1> QED
  BY <1>2, <1>3, <1>4 DEF WatchInv

\* A frame of d is read: its revision is noted, and what it says is pushed if
\* it is a rollout that the revision known is not of.
LEMMA FrameKeeps ==
  ASSUME TypeOK, WatchInv, NEW d \in Deployment, HandleFrame(d)
  PROVE  WatchInv'
<1> DEFINE f == queue[d][1]
           w == [dep |-> d, rollout |-> f.rollout]
<1>1. /\ pushing = <<>> /\ queue[d] # <<>>
      /\ UNCHANGED <<rollouts, born, present, restarted, history>>
      /\ queue' = [queue EXCEPT ![d] = Tail(@)]
      /\ seen' = [seen EXCEPT ![d] = f.revision]
      /\ pushing' = IF f.revision \in {0, seen[d]} THEN <<>> ELSE <<w>>
  BY DEF HandleFrame, cluster, ghosts
<1>2. /\ Len(queue[d]) \in Nat /\ DOMAIN queue[d] = 1 .. Len(queue[d])
      /\ 1 \in DOMAIN queue[d] /\ f \in Frame
      /\ DOMAIN Tail(queue[d]) = 1 .. Len(queue[d]) - 1
      /\ \A k \in 1 .. Len(queue[d]) - 1: Tail(queue[d])[k] = queue[d][k + 1]
  <2>1. queue[d] \in Seq(Frame) /\ queue[d] # <<>>
    BY <1>1 DEF TypeOK
  <2>2. /\ Len(queue[d]) \in Nat \ {0} /\ DOMAIN queue[d] = 1 .. Len(queue[d])
        /\ \A k \in DOMAIN queue[d]: queue[d][k] \in Frame
    BY <2>1, EmptySeq, Measures
  <2>3. /\ Tail(queue[d]) \in Seq(Frame) /\ Len(Tail(queue[d])) = Len(queue[d]) - 1
        /\ \A k \in 1 .. Len(Tail(queue[d])): Tail(queue[d])[k] = queue[d][k + 1]
    BY <2>1, HeadTailProperties
  <2>4. DOMAIN Tail(queue[d]) = 1 .. Len(Tail(queue[d]))
    BY <2>3, LenProperties
  <2> QED
    BY <2>2, <2>3, <2>4
<1>3. /\ f.rollout \in Nat /\ f.revision \in Nat
      /\ w \in Row /\ w.dep = d /\ w.rollout = f.rollout
  BY <1>2 DEF Frame, Row
<1> HIDE DEF f, w
<1>4. /\ f.rollout <= Len(rollouts[d])
      /\ f.revision # 0 => f.rollout > 0
      /\ f.rollout = Len(rollouts[d]) =>
           f.revision = Revision(d) \/ (f.revision = 0 /\ d \notin present)
  BY <1>2 DEF WatchInv, FramesAgree, f
<1>5. ASSUME NEW k \in DOMAIN queue'[d]
      PROVE  /\ k \in Nat /\ k > 0 /\ k + 1 \in DOMAIN queue[d]
             /\ queue'[d][k] = queue[d][k + 1]
             /\ queue[d][k + 1] \in Frame
             /\ f.rollout <= queue[d][k + 1].rollout
             /\ queue[d][k + 1].revision # 0 => f.rollout < queue[d][k + 1].rollout
  <2>1. queue'[d] = Tail(queue[d])
    BY <1>1 DEF TypeOK
  <2>2. k \in 1 .. Len(queue[d]) - 1
    BY <1>2, <1>5, <2>1
  <2>3. k \in Nat /\ k > 0 /\ k + 1 \in DOMAIN queue[d] /\ 1 \in 1 .. (k + 1) - 1
    BY <1>2, <2>2
  <2>4. queue'[d][k] = queue[d][k + 1] /\ queue[d][k + 1] \in Frame
    BY <1>2, <2>1, <2>2, <2>3, Measures
  <2>5. /\ f.rollout <= queue[d][k + 1].rollout
        /\ queue[d][k + 1].revision # 0 => f.rollout < queue[d][k + 1].rollout
    BY <2>3 DEF WatchInv, FramesAgree, f
  <2> QED
    BY <2>3, <2>4, <2>5
<1>6. \A e \in Deployment: e # d => queue'[e] = queue[e] /\ seen'[e] = seen[e]
  BY <1>1 DEF TypeOK
<1>7. seen'[d] = f.revision
  BY <1>1 DEF TypeOK
<1>8. FramesAgree' /\ Bearing'
  <2> SUFFICES ASSUME NEW e \in Deployment, NEW k \in DOMAIN queue'[e]
               PROVE  LET g == queue'[e][k] IN
                      /\ g.rollout <= Len(rollouts[e])
                      /\ g.revision # 0 => g.rollout > 0
                      /\ g.rollout = Len(rollouts[e]) =>
                           g.revision = Revision(e) \/ (g.revision = 0 /\ e \notin present)
                      /\ \A j \in 1 .. k - 1:
                           /\ queue'[e][j].rollout <= g.rollout
                           /\ g.revision # 0 => queue'[e][j].rollout < g.rollout
    BY <1>1 DEF FramesAgree, Revision, WatchInv, Bearing
  <2>1. CASE e # d
    BY <2>1, <1>6 DEF WatchInv, FramesAgree
  <2>2. CASE e = d
    <3>1. k \in DOMAIN queue'[d] /\ queue'[d][k] = queue[d][k + 1]
      BY <2>2, <1>5
    <3>2. ASSUME NEW j \in 1 .. k - 1
          PROVE  j + 1 \in 1 .. (k + 1) - 1 /\ queue'[d][j] = queue[d][j + 1]
      <4>1. k \in Nat /\ k + 1 \in 1 .. Len(queue[d]) /\ Len(queue[d]) \in Nat
        BY <1>2, <1>5, <3>1
      <4>2. j \in 1 .. Len(queue[d]) - 1 /\ j + 1 \in 1 .. (k + 1) - 1
        BY <4>1
      <4>3. queue'[d] = Tail(queue[d])
        BY <1>1 DEF TypeOK
      <4> QED
        BY <1>2, <4>2, <4>3
    <3>3. k + 1 \in DOMAIN queue[d]
      BY <1>5, <3>1
    <3> QED
      BY <2>2, <3>1, <3>2, <3>3 DEF WatchInv, FramesAgree
  <2> QED
    BY <2>1, <2>2
<1>9. Noted' \subseteq Noted \cup {w} /\ (w \in Noted' => f.revision # 0 \/ w \in Noted)
  BY <1>1 DEF Noted
<1>10. RowsAgree'
  <2> SUFFICES ASSUME NEW v \in Noted'
               PROVE  /\ v.rollout > 0 /\ v.rollout <= Len(rollouts[v.dep])
                      /\ \A k \in DOMAIN queue'[v.dep]:
                           /\ v.rollout <= queue'[v.dep][k].rollout
                           /\ /\ ~restarted /\ queue'[v.dep][k].revision # 0
                              /\ queue'[v.dep][k].rollout = v.rollout
                              => k = 1 /\ queue'[v.dep][k].revision = seen'[v.dep]
                      /\ /\ ~restarted /\ v.rollout = Len(rollouts[v.dep])
                         /\ v.dep \in present
                         => seen'[v.dep] = Revision(v.dep)
    BY <1>1 DEF RowsAgree, Revision
  <2>1. CASE v \in Noted /\ v.dep # d
    <3>1. v.dep \in Deployment
      BY <2>1, Measures DEF Row
    <3> QED
      BY <2>1, <3>1, <1>6 DEF WatchInv, RowsAgree
  <2>2. v \in Noted \/ (v = w /\ f.revision # 0)
    BY <1>9
  <2>3. CASE v.dep = d
    <3>1. v.rollout \in Nat /\ v.rollout > 0 /\ v.rollout <= f.rollout
      <4>1. CASE v \in Noted
        <5>1. v \in Row
          BY <4>1, Measures
        <5> QED
          BY <2>3, <4>1, <5>1, <1>2 DEF WatchInv, RowsAgree, f, Row
      <4>2. CASE v = w /\ f.revision # 0
        BY <4>2, <1>3, <1>4
      <4> QED
        BY <2>2, <4>1, <4>2
    <3>2. Len(rollouts[d]) \in Nat
      BY Measures
    <3>3. ASSUME NEW k \in DOMAIN queue'[d]
          PROVE  /\ v.rollout <= queue'[d][k].rollout
                 /\ queue'[d][k].revision # 0 => queue'[d][k].rollout # v.rollout
      <4>1. queue'[d][k] = queue[d][k + 1] /\ queue[d][k + 1].rollout \in Nat
        BY <1>5, <3>3 DEF Frame
      <4> QED
        BY <4>1, <3>1, <1>3, <1>5
    <3>4. v.rollout = Len(rollouts[d]) /\ d \in present => seen'[d] = Revision(d)
      BY <3>1, <3>2, <1>3, <1>4, <1>7
    <3> QED
      BY <2>3, <3>1, <3>2, <3>3, <3>4, <1>3, <1>4
  <2> QED
    BY <2>1, <2>2, <2>3, <1>3
<1>11. NextRowAgrees'
  <2> SUFFICES ASSUME NEW i \in DOMAIN history, history[i].dep = d,
                      f.revision \notin {0, seen[d]}
               PROVE  \/ history[i].rollout < f.rollout
                      \/ restarted /\ history[i].rollout = f.rollout
    <3>1. CASE f.revision \in {0, seen[d]}
      <4>1. DOMAIN pushing' = {}
        BY <3>1, <1>1
      <4> QED
        BY <4>1 DEF NextRowAgrees
    <3>2. CASE f.revision \notin {0, seen[d]}
      <4>1. DOMAIN pushing' = {1} /\ pushing'[1] = w
        BY <3>2, <1>1
      <4>2. history' = history /\ restarted' = restarted
        BY <1>1
      <4> QED
        BY <3>2, <4>1, <4>2, <1>3 DEF NextRowAgrees
    <3> QED
      BY <3>1, <3>2
  <2>1. history[i] \in Noted /\ history[i].rollout \in Nat
    BY Measures DEF Row
  <2>2. /\ history[i].rollout <= f.rollout
        /\ ~restarted /\ f.rollout = history[i].rollout => f.revision = seen[d]
    BY <2>1, <1>2 DEF WatchInv, RowsAgree, f
  <2>3. f.rollout \in Nat
    BY <1>3
  <2>4. restarted \/ f.rollout # history[i].rollout
    BY <2>2
  <2> HIDE DEF f
  <2> QED
    BY <2>1, <2>2, <2>3, <2>4
<1>12. HistoryIsRollouts'
  BY <1>1 DEF WatchInv, HistoryIsRollouts
<1> QED
  BY <1>8, <1>10, <1>11, <1>12 DEF WatchInv

(***************************************************************************)
(* Types                                                                   *)
(***************************************************************************)

\* What the cluster, the guardian and the rollbacks leave of the types.
ClusterType ==
  /\ rollouts \in [Deployment -> Seq(Row)]
  /\ born \in [Deployment -> Nat]
  /\ present \subseteq Deployment
  /\ faults \in 0 .. MaxFaults
  /\ restarted \in BOOLEAN /\ lost \in [Deployment -> Nat]
  /\ watching \in BOOLEAN
  /\ queue \in [Deployment -> Seq(Frame)]
  /\ seen \in [Deployment -> Nat]
  /\ pushing \in Seq(Row) /\ Len(pushing) <= 1

HubType ==
  /\ history \in Seq(Row)
  /\ settled \in 0 .. Len(history)
  /\ batch \in [Guardian -> SUBSET (1 .. Len(history))]
  /\ checking \in [Guardian -> 0 .. Len(history)]

ProposalType ==
  /\ proposals \in Seq(Proposal)
  /\ \A p \in DOMAIN proposals:
       /\ proposals[p].event \in 1 .. Len(history)
       /\ proposals[p].state \in {"patching", "done"}
            => proposals[p].target \in 1 .. Len(history)

\* A rollout of d, and the creation it may come with, keep the types.
LEMMA RollOutTypes ==
  ASSUME TypeOK, WatchInv, NEW d \in Deployment, NEW images \in Row,
         RollOut(d, images), present' = present \cup {d},
         born' = IF d \in present THEN born ELSE [born EXCEPT ![d] = Len(rollouts[d])],
         UNCHANGED <<faults, restarted, lost, watching, seen, pushing>>
  PROVE  ClusterType'
<1>1. Len(rollouts[d]) \in Nat /\ rollouts[d] \in Seq(Row)
  BY Measures DEF TypeOK
<1>2. born' \in [Deployment -> Nat] /\ born'[d] \in Nat /\ born'[d] <= Len(rollouts[d])
  BY <1>1 DEF TypeOK, WatchInv, Bearing
<1>3. /\ Append(rollouts[d], images) \in Seq(Row)
      /\ Len(Append(rollouts[d], images)) = Len(rollouts[d]) + 1
  BY <1>1, AppendProperties
<1>4. /\ rollouts' \in [Deployment -> Seq(Row)]
      /\ Len(rollouts'[d]) = Len(rollouts[d]) + 1
  BY <1>3 DEF TypeOK, RollOut
<1>5. Current(d)' \in Frame
  BY <1>1, <1>2, <1>4 DEF Current, Revision, Frame
<1>6. queue' \in [Deployment -> Seq(Frame)]
  BY <1>5, AppendProperties DEF TypeOK, RollOut
<1> QED
  BY <1>2, <1>4, <1>6 DEF TypeOK, ClusterType

\* Deletions and what discovery does but for a push that lands.
LEMMA WatchTypes ==
  ASSUME TypeOK, WatchInv,
         \/ Connect \/ PushFails \/ WatchDrops \/ Restart
         \/ \E d \in Deployment: Delete(d) \/ HandleFrame(d)
  PROVE  ClusterType'
<1> USE DEF cluster, ghosts, TypeOK, ClusterType
<1>0. MaxFaults \in Nat
  BY DeployAssumption
<1>1. <<>> \in Seq(Row) /\ Len(<<>>) <= 1 /\ <<>> \in Seq(Frame)
  OBVIOUS
<1>2. CASE Connect
  <2>1. ASSUME NEW d \in present PROVE Current(d) \in Frame
    <3>0. Bearing /\ d \in Deployment
      BY DEF WatchInv
    <3>1. Len(rollouts[d]) \in Nat /\ born[d] \in Nat /\ born[d] <= Len(rollouts[d])
      BY <3>0, Measures DEF Bearing
    <3>2. Revision(d) \in Nat
      BY <3>1 DEF Revision
    <3> QED
      BY <3>1, <3>2 DEF Current, Frame
  <2> QED
    BY <1>2, <2>1 DEF Connect
<1>3. CASE PushFails
  <2>1. pushing[1].rollout \in Nat
    BY <1>3, Measures DEF PushFails, Row
  <2> QED
    BY <1>1, <1>3, <2>1 DEF PushFails
<1>4. CASE WatchDrops
  <2>1. faults' \in 0 .. MaxFaults
    BY <1>0, <1>4 DEF WatchDrops, Faulty
  <2>2. queue' \in [Deployment -> Seq(Frame)]
    BY <1>1, <1>4 DEF WatchDrops, NoFrames
  <2> QED
    BY <1>4, <2>1, <2>2 DEF WatchDrops
<1>5. CASE Restart
  <2>1. faults' \in 0 .. MaxFaults
    BY <1>0, <1>5 DEF Restart, Faulty
  <2>2. queue' \in [Deployment -> Seq(Frame)]
    BY <1>1, <1>5 DEF Restart, NoFrames
  <2>3. seen' \in [Deployment -> Nat]
    BY <1>5 DEF Restart
  <2> QED
    BY <1>1, <1>5, <2>1, <2>2, <2>3 DEF Restart
<1>6. ASSUME NEW d \in Deployment, Delete(d) PROVE ClusterType'
  <2>1. Deleted(d) \in Frame
    BY Measures DEF Deleted, Frame
  <2>2. queue' \in [Deployment -> Seq(Frame)]
    BY <1>6, <2>1, AppendProperties DEF Delete
  <2> QED
    BY <1>6, <2>2 DEF Delete
<1>7. ASSUME NEW d \in Deployment, HandleFrame(d) PROVE ClusterType'
  <2>1. queue[d] \in Seq(Frame) /\ queue[d] # <<>>
    BY <1>7 DEF HandleFrame
  <2>2. Head(queue[d]) \in Frame /\ Tail(queue[d]) \in Seq(Frame)
    BY <2>1, HeadTailProperties
  <2> DEFINE w == [dep |-> d, rollout |-> Head(queue[d]).rollout]
  <2>3. Head(queue[d]).revision \in Nat /\ w \in Row
    BY <2>2 DEF Frame, Row
  <2>4. <<w>> \in Seq(Row) /\ Len(<<w>>) <= 1
    BY <2>3
  <2>5. pushing' \in Seq(Row) /\ Len(pushing') <= 1
    BY <1>1, <1>7, <2>4 DEF HandleFrame
  <2>6. queue' \in [Deployment -> Seq(Frame)] /\ seen' \in [Deployment -> Nat]
    BY <1>7, <2>2, <2>3 DEF HandleFrame
  <2> QED
    BY <1>7, <2>5, <2>6 DEF HandleFrame
<1> QED
  BY <1>2, <1>3, <1>4, <1>5, <1>6, <1>7

\* The history grows: the rows that others point at stay.
LEMMA PushTypes ==
  ASSUME TypeOK, PushLands
  PROVE  TypeOK'
<1> USE DEF PushLands, cluster, ghosts, guardian
<1>1. /\ history' \in Seq(Row) /\ Len(history') = Len(history) + Len(pushing)
      /\ Len(history) \in Nat /\ Len(pushing) \in Nat
  BY ConcatProperties, LenProperties DEF TypeOK
<1>2. 1 .. Len(history) \subseteq 1 .. Len(history')
      /\ 0 .. Len(history) \subseteq 0 .. Len(history')
  BY <1>1
<1>3. HubType'
  BY <1>1, <1>2 DEF TypeOK, HubType
<1>4. ProposalType'
  BY <1>2 DEF TypeOK, ProposalType
<1>5. ClusterType'
  BY DEF TypeOK, ClusterType
<1> QED
  BY <1>3, <1>4, <1>5 DEF TypeOK, ClusterType, HubType, ProposalType

\* A proposal is added at the end.
LEMMA ProposalAdded ==
  ASSUME TypeOK, NEW new \in Proposal, proposals' = Append(proposals, new)
  PROVE  /\ proposals' \in Seq(Proposal) /\ Len(proposals) \in Nat
         /\ DOMAIN proposals = 1 .. Len(proposals)
         /\ DOMAIN proposals' = 1 .. Len(proposals) + 1
         /\ \A p \in 1 .. Len(proposals): proposals'[p] = proposals[p]
         /\ proposals'[Len(proposals) + 1] = new
         /\ \A p \in DOMAIN proposals':
              \/ p \in DOMAIN proposals /\ proposals'[p] = proposals[p]
              \/ proposals'[p] = new
<1>1. /\ proposals' \in Seq(Proposal) /\ Len(proposals) \in Nat
      /\ DOMAIN proposals = 1 .. Len(proposals)
      /\ DOMAIN proposals' = 1 .. Len(proposals) + 1
      /\ \A p \in 1 .. Len(proposals): proposals'[p] = proposals[p]
      /\ proposals'[Len(proposals) + 1] = new
  BY AppendProperties, LenProperties DEF TypeOK
<1> QED
  BY <1>1

\* A row that settles, and a guardian's steps.
LEMMA GuardianTypes ==
  ASSUME TypeOK, Settle \/ \E g \in Guardian: Sweeping(g)
  PROVE  HubType' /\ ProposalType'
<1> USE DEF Sweeping
<1>1. Len(history) \in Nat /\ settled \in Nat /\ settled <= Len(history)
  BY Measures DEF TypeOK
<1>2. history' = history
  BY DEF Settle, Sweep, CheckRow, CheckDeploy
<1>3. CASE Settle
  BY <1>1, <1>3 DEF Settle, guardian, TypeOK, HubType, ProposalType
<1>4. ASSUME NEW g \in Guardian, Sweep(g) PROVE HubType' /\ ProposalType'
  <2>1. PICK oldest \in 1 .. settled: batch' = [batch EXCEPT ![g] = oldest .. settled]
    BY <1>4 DEF Sweep
  <2>2. oldest .. settled \subseteq 1 .. Len(history)
    BY <1>1
  <2> HIDE DEF HubType, ProposalType
  <2>3. batch' \in [Guardian -> SUBSET (1 .. Len(history))]
    BY <2>1, <2>2 DEF TypeOK
  <2> QED
    BY <1>4, <2>3 DEF Sweep, TypeOK, HubType, ProposalType
<1>5. ASSUME NEW g \in Guardian, CheckRow(g) PROVE HubType' /\ ProposalType'
  <2>1. batch[g] \in SUBSET (1 .. Len(history)) /\ batch[g] # {}
    BY <1>5 DEF CheckRow, TypeOK
  <2>2. Max(batch[g]) \in batch[g]
    BY <1>1, <2>1, NewestRow
  <2>3. Max(batch[g]) \in 0 .. Len(history) /\ batch[g] \ {Max(batch[g])} \subseteq batch[g]
    BY <2>1, <2>2
  <2>4. /\ batch' = [batch EXCEPT ![g] = @ \ {Max(batch[g])}]
        /\ \/ checking' = [checking EXCEPT ![g] = Max(batch[g])]
           \/ checking' = checking
    BY <1>5 DEF CheckRow
  <2>5. checking' \in [Guardian -> 0 .. Len(history)]
    BY <2>3, <2>4 DEF TypeOK
  <2>6. batch' \in [Guardian -> SUBSET (1 .. Len(history))]
    BY <2>3, <2>4 DEF TypeOK
  <2> QED
    BY <1>5, <2>5, <2>6 DEF CheckRow, TypeOK, HubType, ProposalType
<1>6. ASSUME NEW g \in Guardian, CheckDeploy(g) PROVE HubType' /\ ProposalType'
  <2> DEFINE new == [event |-> checking[g], target |-> 0, state |-> "pending"]
  <2>1. checking[g] \in 1 .. Len(history) /\ new \in Proposal
    BY <1>6 DEF CheckDeploy, TypeOK, Proposal
  <2>2. checking' \in [Guardian -> 0 .. Len(history)]
    BY <1>1, <1>6 DEF CheckDeploy, TypeOK
  <2>3. HubType'
    BY <1>6, <2>2 DEF CheckDeploy, TypeOK, HubType
  <2>4. new.event = checking[g] /\ new.state = "pending"
    OBVIOUS
  <2>5. proposals' = proposals \/ proposals' = Append(proposals, new)
    BY <1>6 DEF CheckDeploy, CreateRemediationProposal
  <2> HIDE DEF new
  <2>6. CASE proposals' = proposals
    BY <1>2, <2>3, <2>6 DEF TypeOK, ProposalType
  <2>7. CASE proposals' = Append(proposals, new)
    <3>1. proposals' \in Seq(Proposal)
      BY <2>1, <2>7, ProposalAdded
    <3>2. \A p \in DOMAIN proposals':
             \/ p \in DOMAIN proposals /\ proposals'[p] = proposals[p]
             \/ proposals'[p] = new
      BY <2>1, <2>7, ProposalAdded
    <3>3. ProposalType'
      BY <1>2, <2>1, <2>4, <3>1, <3>2 DEF TypeOK, ProposalType
    <3> QED
      BY <2>3, <3>3
  <2> QED
    BY <2>5, <2>6, <2>7
<1> QED
  BY <1>3, <1>4, <1>5, <1>6

\* One proposal gets another state and target.
LEMMA ProposalSet ==
  ASSUME TypeOK, NEW p \in DOMAIN proposals, NEW target \in Nat,
         NEW state \in {"approved", "patching", "done", "refused", "imageless"},
         SetProposal(p, state, target)
  PROVE  /\ proposals' \in Seq(Proposal) /\ DOMAIN proposals' = DOMAIN proposals
         /\ \A q \in DOMAIN proposals: proposals'[q].event = proposals[q].event
         /\ \A q \in DOMAIN proposals: q # p => proposals'[q] = proposals[q]
         /\ proposals'[p].state = state /\ proposals'[p].target = target
<1> DEFINE new == [proposals[p] EXCEPT !.state = state, !.target = target]
<1>1. /\ p \in 1 .. Len(proposals) /\ proposals[p] \in Proposal
      /\ DOMAIN proposals = 1 .. Len(proposals)
  BY LenProperties, ElementOfSeq DEF TypeOK
<1>2. /\ new \in Proposal /\ new.event = proposals[p].event
      /\ new.state = state /\ new.target = target
  BY <1>1 DEF Proposal
<1>3. proposals' = [proposals EXCEPT ![p] = new]
  BY <1>1 DEF SetProposal, Proposal
<1> HIDE DEF new
<1>4. /\ proposals' \in Seq(Proposal) /\ Len(proposals') = Len(proposals)
      /\ \A q \in 1 .. Len(proposals): proposals'[q] = IF q = p THEN new ELSE proposals[q]
  BY <1>1, <1>2, <1>3, ExceptSeq DEF TypeOK
<1> QED
  BY <1>1, <1>2, <1>4, LenProperties

\* The rows a rollback finds can be counted.
LEMMA RowsAreFinite ==
  ASSUME TypeOK, NEW p
  PROVE  Cardinality(RowsFor(p)) \in Nat
<1>1. 1 \in Int /\ Len(history) \in Int /\ RowsFor(p) \subseteq 1 .. Len(history)
  BY Measures DEF RowsFor
<1>2. IsFiniteSet(1 .. Len(history))
  BY <1>1, FS_Interval
<1> QED
  BY <1>1, <1>2, FS_Subset, FS_CardinalityType

\* The rows a rollback finds, and the one it restores.
LEMMA RowsFound ==
  ASSUME TypeOK, NEW p \in DOMAIN proposals, Cardinality(RowsFor(p)) >= 2
  PROVE  /\ Max(RowsFor(p) \ {Max(RowsFor(p))}) \in RowsFor(p)
         /\ RowsFor(p) \subseteq 1 .. Len(history)
<1> DEFINE R == RowsFor(p)
           older == R \ {Max(R)}
<1>1. Len(history) \in Nat /\ R \in SUBSET (1 .. Len(history))
  BY Measures DEF RowsFor
<1>2. older # {}
  <2>1. SUFFICES ASSUME older = {} PROVE FALSE
    OBVIOUS
  <2>2. R \subseteq {Max(R)}
    BY <2>1
  <2>3. IsFiniteSet({Max(R)}) /\ Cardinality({Max(R)}) = 1
    BY FS_Singleton
  <2>4. Cardinality(R) <= 1 /\ Cardinality(R) \in Nat
    BY <2>2, <2>3, FS_Subset, FS_CardinalityType
  <2> QED
    BY <2>4
<1>3. older \in SUBSET (1 .. Len(history))
  BY <1>1
<1> HIDE DEF older
<1>4. Max(older) \in older
  BY <1>1, <1>2, <1>3, NewestRow
<1> QED
  BY <1>1, <1>4 DEF older

\* What a step of a rollback makes of its proposal.
LEMMA RollbackSets ==
  ASSUME TypeOK, NEW p \in DOMAIN proposals, Rollback(p)
  PROVE  \E target \in Nat, state \in {"approved", "patching", "done", "refused", "imageless"}:
           /\ SetProposal(p, state, target)
           /\ state = "patching" => target \in RowsFor(p)
           /\ state = "done" => proposals[p].state = "patching" /\ proposals[p].target = target
<1>1. CASE Approve(p) \/ PatchFails(p)
  BY <1>1 DEF Approve, PatchFails
<1>2. CASE ReadHistory(p)
  <2>1. CASE Cardinality(RowsFor(p)) < 2
    BY <1>2, <2>1 DEF ReadHistory
  <2>2. CASE ~(Cardinality(RowsFor(p)) < 2)
    <3>1. CASE Redact
      BY <1>2, <2>2, <3>1 DEF ReadHistory
    <3>2. CASE ~Redact
      <4> DEFINE target == Max(RowsFor(p) \ {Max(RowsFor(p))})
      <4>1. Cardinality(RowsFor(p)) \in Nat
        BY RowsAreFinite
      <4>2. target \in RowsFor(p) /\ RowsFor(p) \subseteq 1 .. Len(history)
        BY <2>2, <4>1, RowsFound
      <4>3. SetProposal(p, "patching", target)
        BY <1>2, <2>2, <3>2 DEF ReadHistory
      <4> HIDE DEF target
      <4>4. target \in Nat
        BY <4>2, Measures
      <4> QED
        BY <4>2, <4>3, <4>4
    <3> QED
      BY <3>1, <3>2
  <2> QED
    BY <2>1, <2>2
<1>3. CASE PatchImages(p)
  <2>1. proposals[p].state = "patching"
    BY <1>3 DEF PatchImages
  <2>2. proposals[p].target \in Nat
    BY <2>1, Measures DEF TypeOK
  <2>3. SetProposal(p, "done", proposals[p].target)
    BY <1>3 DEF PatchImages
  <2> QED
    BY <2>1, <2>2, <2>3
<1> QED
  BY <1>1, <1>2, <1>3 DEF Rollback

\* The steps of a rollback.
LEMMA RollbackTypes ==
  ASSUME TypeOK, NEW p \in DOMAIN proposals, Rollback(p)
  PROVE  HubType' /\ ProposalType'
<1> USE DEF Rollback
<1>1. HubType' /\ history' = history
  BY DEF Approve, ReadHistory, PatchImages, PatchFails, guardian, TypeOK, HubType
<1>2. Len(history) \in Nat /\ proposals[p] \in Proposal
  BY Measures, LenProperties, ElementOfSeq DEF TypeOK
<1>3. PICK target \in Nat, state \in {"approved", "patching", "done", "refused", "imageless"}:
        /\ SetProposal(p, state, target)
        /\ state = "patching" => target \in RowsFor(p)
        /\ state = "done" => proposals[p].state = "patching" /\ proposals[p].target = target
  BY RollbackSets
<1>4. state \in {"patching", "done"} => target \in 1 .. Len(history)
  BY <1>3, Measures DEF RowsFor, TypeOK
<1>5. /\ proposals' \in Seq(Proposal) /\ DOMAIN proposals' = DOMAIN proposals
      /\ \A q \in DOMAIN proposals: proposals'[q].event = proposals[q].event
      /\ \A q \in DOMAIN proposals: q # p => proposals'[q] = proposals[q]
      /\ proposals'[p].state = state /\ proposals'[p].target = target
  BY <1>3, ProposalSet
<1>6. ProposalType'
  BY <1>1, <1>4, <1>5 DEF TypeOK, ProposalType
<1> QED
  BY <1>1, <1>6

(***************************************************************************)
(* The inductive invariant                                                 *)
(***************************************************************************)

\* Nothing is deployed, recorded or proposed at first.
LEMMA DeployInit == Init => TypeOK /\ WatchInv
<1> SUFFICES ASSUME Init PROVE TypeOK /\ WatchInv
  OBVIOUS
<1> USE DEF Init
<1>1. Len(<<>>) = 0 /\ DOMAIN <<>> = {} /\ 0 \in 0 .. MaxFaults
  BY DeployAssumption
<1>2. TypeOK
  <2>1. /\ <<>> \in Seq(Row) /\ <<>> \in Seq(Frame) /\ <<>> \in Seq(Proposal)
        /\ 0 \in Nat /\ Len(<<>>) <= 1
    BY EmptySeq
  <2>2. ClusterType
    BY <1>1, <2>1 DEF ClusterType
  <2>3. HubType
    BY <1>1, <2>1 DEF HubType
  <2>4. ProposalType
    BY <1>1, <2>1 DEF ProposalType
  <2> QED
    BY <2>2, <2>3, <2>4 DEF TypeOK, ClusterType, HubType, ProposalType
<1>3. Noted = {}
  BY <1>1 DEF Noted
<1>4. WatchInv
  BY <1>1, <1>3 DEF WatchInv, Bearing, FramesAgree, RowsAgree, NextRowAgrees,
     HistoryIsRollouts
<1> QED
  BY <1>2, <1>4

\* What the watch and the rows are about stays, and so does their invariant.
LEMMA WatchStays ==
  ASSUME WatchInv, UNCHANGED <<rollouts, born, present, restarted, queue, seen,
                               pushing, history>>
  PROVE  WatchInv'
BY DEF WatchInv, Bearing, FramesAgree, RowsAgree, NextRowAgrees, HistoryIsRollouts,
   Noted, Revision

\* A rollout that a rollback starts: the deployment is there, and the images
\* are those of a row.
LEMMA PatchKeeps ==
  ASSUME TypeOK, WatchInv, NEW p \in DOMAIN proposals, PatchImages(p)
  PROVE  ClusterType' /\ WatchInv'
<1> DEFINE d == history[proposals[p].event].dep
           row == history[proposals[p].target]
           images == rollouts[row.dep][row.rollout]
<1>1. proposals[p].event \in DOMAIN history /\ proposals[p].target \in DOMAIN history
  BY Measures DEF PatchImages, TypeOK
<1>2. d \in Deployment /\ row \in Row /\ row \in Noted
  BY <1>1, Measures DEF Row
<1>3. d \in present
  BY DEF PatchImages
<1>4. images \in Row
  <2>1. row.dep \in Deployment /\ row.rollout \in Nat
    BY <1>2 DEF Row
  <2>2. row.rollout > 0 /\ row.rollout <= Len(rollouts[row.dep])
    BY <1>2 DEF WatchInv, RowsAgree
  <2> HIDE DEF row
  <2>3. rollouts[row.dep] \in Seq(Row) /\ Len(rollouts[row.dep]) \in Nat
    BY <2>1, LenProperties DEF TypeOK
  <2>4. row.rollout \in 1 .. Len(rollouts[row.dep])
    BY <2>1, <2>2, <2>3
  <2> QED
    BY <2>3, <2>4, ElementOfSeq
<1>5. /\ UNCHANGED <<faults, restarted, lost, watching, seen, pushing, history>>
      /\ born' = born /\ present' = present \cup {d}
      /\ UNCHANGED <<rollouts, queue>> \/ RollOut(d, images)
  BY <1>3 DEF PatchImages, ghosts
<1> HIDE DEF d, images
<1>6. CASE UNCHANGED <<rollouts, queue>>
  <2>1. present' = present
    BY <1>3, <1>5
  <2>2. ClusterType'
    BY <1>5, <1>6, <2>1 DEF TypeOK, ClusterType
  <2> QED
    BY <1>5, <1>6, <2>1, <2>2, WatchStays
<1>7. CASE RollOut(d, images)
  BY <1>2, <1>3, <1>4, <1>5, <1>7, RollOutKeeps, RollOutTypes
<1> QED
  BY <1>5, <1>6, <1>7

\* Every step keeps the types, and what ties the stream to the rows.
LEMMA DeployStep == TypeOK /\ WatchInv /\ [Next]_vars => (TypeOK /\ WatchInv)'
<1> SUFFICES ASSUME TypeOK, WatchInv, [Next]_vars PROVE TypeOK' /\ WatchInv'
  OBVIOUS
<1>0. ClusterType' /\ HubType' /\ ProposalType' => TypeOK'
  BY DEF TypeOK, ClusterType, HubType, ProposalType
<1>1. UNCHANGED <<history, settled, guardian, proposals>> => HubType' /\ ProposalType'
  BY DEF TypeOK, HubType, ProposalType, guardian
<1>2. UNCHANGED <<cluster, faults, ghosts, discovery>> => ClusterType'
  BY DEF TypeOK, ClusterType, cluster, ghosts, discovery
<1>3. UNCHANGED <<cluster, ghosts, discovery, history>> => WatchInv'
  BY WatchStays DEF cluster, ghosts, discovery
<1>4. ASSUME NEW d \in Deployment, Deploy(d) PROVE TypeOK' /\ WatchInv'
  <2> DEFINE images == [dep |-> d, rollout |-> Len(rollouts[d]) + 1]
  <2>1. images \in Row
    BY Measures DEF Row
  <2>2. /\ RollOut(d, images) /\ present' = present \cup {d}
        /\ born' = IF d \in present THEN born ELSE [born EXCEPT ![d] = Len(rollouts[d])]
        /\ UNCHANGED <<faults, ghosts, watching, seen, pushing, history, settled, guardian,
                       proposals>>
    BY <1>4 DEF Deploy
  <2> HIDE DEF images
  <2>3. UNCHANGED <<faults, restarted, lost, watching, seen, pushing, history>>
    BY <2>2 DEF ghosts
  <2> QED
    BY <2>1, <2>2, <2>3, <1>0, <1>1, RollOutKeeps, RollOutTypes
<1>5. ASSUME NEW d \in Deployment, Delete(d) PROVE TypeOK' /\ WatchInv'
  <2>1. UNCHANGED <<history, settled, guardian, proposals>>
    BY <1>5 DEF Delete
  <2> QED
    BY <2>1, <1>0, <1>1, <1>5, DeleteKeeps, WatchTypes
<1>6. CASE Discovery
  <2>1. CASE PushLands
    BY <2>1, PushTypes, PushKeeps
  <2>2. CASE Connect \/ PushFails \/ WatchDrops \/ Restart \/ \E d \in Deployment: HandleFrame(d)
    <3>1. UNCHANGED <<history, settled, guardian, proposals>>
      BY <2>2 DEF Connect, PushFails, WatchDrops, Restart, HandleFrame
    <3>2. ClusterType'
      BY <2>2, WatchTypes
    <3>3. WatchInv'
      BY <2>2, ConnectKeeps, PushKeeps, DropKeeps, FrameKeeps
    <3> QED
      BY <3>1, <3>2, <3>3, <1>0, <1>1
  <2> QED
    BY <1>6, <2>1, <2>2 DEF Discovery
<1>7. CASE Settle \/ \E g \in Guardian: Sweeping(g)
  <2>1. UNCHANGED <<cluster, faults, ghosts, discovery, history>>
    BY <1>7 DEF Settle, Sweeping, Sweep, CheckRow, CheckDeploy
  <2> QED
    BY <2>1, <1>0, <1>2, <1>3, <1>7, GuardianTypes
<1>8. ASSUME NEW p \in DOMAIN proposals, Rollback(p) PROVE TypeOK' /\ WatchInv'
  <2>1. CASE PatchImages(p)
    BY <1>0, <1>8, <2>1, PatchKeeps, RollbackTypes
  <2>2. CASE Approve(p) \/ ReadHistory(p) \/ PatchFails(p)
    <3>1. UNCHANGED <<cluster, faults, ghosts, discovery, history>>
      BY <2>2 DEF Approve, ReadHistory, PatchFails
    <3> QED
      BY <3>1, <1>0, <1>2, <1>3, <1>8, RollbackTypes
  <2> QED
    BY <1>8, <2>1, <2>2 DEF Rollback
<1>9. CASE UNCHANGED vars
  <2>1. UNCHANGED <<cluster, faults, ghosts, discovery, history, settled, guardian, proposals>>
    BY <1>9 DEF vars
  <2> QED
    BY <2>1, <1>0, <1>1, <1>2, <1>3
<1> QED
  BY <1>4, <1>5, <1>6, <1>7, <1>8, <1>9 DEF Next

\* The rows on record agree with the deployments, with the frames still to be
\* read and with the revisions noted, whatever drops and restarts.
THEOREM WatchInvariant == Spec => [](TypeOK /\ WatchInv)
<1> QED
  BY DeployInit, DeployStep, PTL DEF Spec

\* Every variable keeps its type; a rollback under way has a row to restore.
THEOREM DeployTypeCorrect == Spec => []TypeOK
<1> QED
  BY WatchInvariant, PTL

\* The deploy rows of k8fy.events are rollouts that happened, in their order,
\* and each once as long as discovery is not restarted.
THEOREM HistoryOfRollouts == Spec => []HistoryIsRollouts
<1>1. WatchInv => HistoryIsRollouts
  BY DEF WatchInv
<1> QED
  BY <1>1, WatchInvariant, PTL

(***************************************************************************)
(* One proposal per rollout                                                *)
(***************************************************************************)

\* The index keeps the proposals of different rows, however many hubs are about
\* to insert one.
LEMMA IndexStep == TypeOK /\ RowsProposedOnce /\ [Next]_vars => RowsProposedOnce'
<1> SUFFICES ASSUME TypeOK, RowsProposedOnce, [Next]_vars PROVE RowsProposedOnce'
  OBVIOUS
<1>1. CASE UNCHANGED proposals
  BY <1>1 DEF RowsProposedOnce
<1>2. ASSUME NEW g \in Guardian, CheckDeploy(g), CreateRemediationProposal(checking[g])
      PROVE  RowsProposedOnce'
  <2> DEFINE new == [event |-> checking[g], target |-> 0, state |-> "pending"]
  <2>1. ~Proposed(checking[g]) /\ proposals' = Append(proposals, new)
    BY <1>2 DEF CreateRemediationProposal
  <2>2. new \in Proposal /\ new.event = checking[g]
    BY DEF TypeOK, Proposal
  <2> HIDE DEF new
  <2>3. /\ Len(proposals) \in Nat
        /\ DOMAIN proposals = 1 .. Len(proposals)
        /\ DOMAIN proposals' = 1 .. Len(proposals) + 1
        /\ \A p \in 1 .. Len(proposals): proposals'[p] = proposals[p]
        /\ proposals'[Len(proposals) + 1] = new
    BY <2>1, <2>2, ProposalAdded
  <2>4. \A p \in 1 .. Len(proposals): proposals[p].event # checking[g]
    BY <2>1, <2>3 DEF Proposed
  <2>5. ASSUME NEW p \in DOMAIN proposals', NEW q \in DOMAIN proposals',
               proposals'[p].event = proposals'[q].event
        PROVE  p = q
    <3>1. CASE p \in 1 .. Len(proposals) /\ q \in 1 .. Len(proposals)
      BY <2>3, <2>5, <3>1 DEF RowsProposedOnce
    <3>2. CASE p = Len(proposals) + 1
      BY <2>2, <2>3, <2>4, <2>5, <3>2
    <3>3. CASE q = Len(proposals) + 1
      BY <2>2, <2>3, <2>4, <2>5, <3>3
    <3> QED
      BY <2>3, <3>1, <3>2, <3>3
  <2> QED
    BY <2>5 DEF RowsProposedOnce
<1>3. ASSUME NEW p \in DOMAIN proposals, Rollback(p) PROVE RowsProposedOnce'
  <2>1. /\ DOMAIN proposals' = DOMAIN proposals
        /\ \A q \in DOMAIN proposals: proposals'[q].event = proposals[q].event
    BY <1>3, RollbackSets, ProposalSet
  <2> QED
    BY <2>1 DEF RowsProposedOnce
<1> QED
  BY <1>1, <1>2, <1>3 DEF Next, Discovery, Sweeping, Settle, Connect, PushLands, PushFails,
     WatchDrops, Restart, HandleFrame, Deploy, Delete, Sweep, CheckRow, CheckDeploy, vars

\* However many hubs sweep and the watch drops, a rollout is proposed for at most
\* once unless discovery was restarted: of the hubs that all found no proposal
\* for a row the unique index lets one insert its own, and before a restart a
\* rollout has one row.
THEOREM RolloutProposedOnce == Spec => []OneProposalPerRollout
<1>1. Init => RowsProposedOnce
  BY DEF Init, RowsProposedOnce
<1>2. TypeOK /\ WatchInv /\ RowsProposedOnce => OneProposalPerRollout
  <2> SUFFICES ASSUME TypeOK, WatchInv, RowsProposedOnce,
                      NEW p \in DOMAIN proposals, NEW q \in DOMAIN proposals,
                      history[proposals[p].event] = history[proposals[q].event]
               PROVE  p = q \/ restarted
    BY DEF OneProposalPerRollout
  <2>1. PICK i, j \in DOMAIN history: i = proposals[p].event /\ j = proposals[q].event
    BY Measures DEF TypeOK
  <2>2. /\ i \in Nat /\ j \in Nat
        /\ history[i] = history[j] /\ history[i].rollout \in Nat
    BY <2>1, Measures DEF Row
  <2>3. CASE i = j
    BY <2>1, <2>3 DEF RowsProposedOnce
  <2>4. CASE i < j \/ j < i
    BY <2>2, <2>4 DEF WatchInv, HistoryIsRollouts
  <2> QED
    BY <2>2, <2>3, <2>4
<1> QED
  BY <1>1, <1>2, IndexStep, WatchInvariant, PTL DEF Spec

(***************************************************************************)
(* What a rollback restores                                                *)
(***************************************************************************)

\* A rollback restores the images of a deployment of the same name.
TargetsAgree == \A p \in DOMAIN proposals:
  proposals[p].state \in {"patching", "done"} =>
    NameOf(history[proposals[p].target].dep) = NameOf(history[proposals[p].event].dep)

LEMMA TargetStep == TypeOK /\ TargetsAgree /\ [Next]_vars => TargetsAgree'
<1> SUFFICES ASSUME TypeOK, TargetsAgree, [Next]_vars PROVE TargetsAgree'
  OBVIOUS
<1>1. CASE UNCHANGED <<history, proposals>>
  BY <1>1 DEF TargetsAgree
<1>2. CASE PushLands
  <2>1. /\ Len(history) \in Nat /\ Len(pushing) \in Nat
        /\ \A i \in 1 .. Len(history): history'[i] = history[i]
    BY <1>2, ConcatProperties, LenProperties DEF PushLands, TypeOK
  <2> QED
    BY <1>2, <2>1 DEF PushLands, TargetsAgree, TypeOK
<1>3. ASSUME NEW g \in Guardian, CheckDeploy(g) PROVE TargetsAgree'
  <2> DEFINE new == [event |-> checking[g], target |-> 0, state |-> "pending"]
  <2>1. CASE proposals' = proposals
    BY <1>3, <2>1 DEF CheckDeploy, TargetsAgree
  <2>2. CASE proposals' = Append(proposals, new)
    <3>1. new \in Proposal /\ new.state = "pending"
      BY <1>3 DEF CheckDeploy, TypeOK, Proposal
    <3> HIDE DEF new
    <3>2. \A p \in DOMAIN proposals':
             \/ p \in DOMAIN proposals /\ proposals'[p] = proposals[p]
             \/ proposals'[p] = new
      BY <2>2, <3>1, ProposalAdded
    <3>3. history' = history
      BY <1>3 DEF CheckDeploy
    <3> QED
      BY <3>1, <3>2, <3>3 DEF TargetsAgree
  <2> QED
    BY <1>3, <2>1, <2>2 DEF CheckDeploy, CreateRemediationProposal
<1>4. ASSUME NEW p \in DOMAIN proposals, Rollback(p) PROVE TargetsAgree'
  <2>1. PICK target \in Nat, state \in {"approved", "patching", "done", "refused", "imageless"}:
          /\ SetProposal(p, state, target)
          /\ state = "patching" => target \in RowsFor(p)
          /\ state = "done" => proposals[p].state = "patching" /\ proposals[p].target = target
    BY <1>4, RollbackSets
  <2>2. state \in {"patching", "done"} =>
          NameOf(history[target].dep) = NameOf(history[proposals[p].event].dep)
    BY <2>1 DEF RowsFor, TargetsAgree
  <2>3. history' = history
    BY <1>4 DEF Rollback, Approve, ReadHistory, PatchImages, PatchFails
  <2>4. /\ DOMAIN proposals' = DOMAIN proposals
        /\ \A q \in DOMAIN proposals: proposals'[q].event = proposals[q].event
        /\ \A q \in DOMAIN proposals: q # p => proposals'[q] = proposals[q]
        /\ proposals'[p].state = state /\ proposals'[p].target = target
    BY <2>1, <1>4, ProposalSet
  <2> QED
    BY <2>2, <2>3, <2>4 DEF TargetsAgree
<1> QED
  BY <1>1, <1>2, <1>3, <1>4 DEF Next, Discovery, Sweeping, Settle, Connect, PushFails,
     WatchDrops, Restart, HandleFrame, Deploy, Delete, Sweep, CheckRow, vars

\* Where no two namespaces have a deployment of one name, a rollback restores
\* images of the deployment it was approved for: get_change_history's search by
\* name is then a search for the deployment.
THEOREM UniqueNamesRestoreOwn ==
  ASSUME \A d, e \in Deployment: NameOf(d) = NameOf(e) => d = e
  PROVE  Spec => []RollbackRestoresOwn
<1>1. Init => TargetsAgree
  BY DEF Init, TargetsAgree
<1>2. TypeOK /\ TargetsAgree => RollbackRestoresOwn
  <2> SUFFICES ASSUME TypeOK, TargetsAgree, NEW p \in DOMAIN proposals,
                      proposals[p].state = "done"
               PROVE  history[proposals[p].target].dep = history[proposals[p].event].dep
    BY DEF RollbackRestoresOwn
  <2>1. proposals[p].target \in DOMAIN history /\ proposals[p].event \in DOMAIN history
    BY Measures DEF TypeOK
  <2>2. /\ history[proposals[p].target].dep \in Deployment
        /\ history[proposals[p].event].dep \in Deployment
    BY <2>1, Measures DEF Row
  <2> QED
    BY <2>2 DEF TargetsAgree
<1> QED
  BY <1>1, <1>2, TargetStep, DeployTypeCorrect, PTL DEF Spec
=============================================================================
