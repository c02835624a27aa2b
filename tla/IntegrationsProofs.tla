------------------------- MODULE IntegrationsProofs -------------------------
(***************************************************************************)
(* Theorems about Integrations, for any integrations, credentials and      *)
(* requests, and for any budgets.                                          *)
(*                                                                         *)
(* EffectiveIsCurrent and SecretsAreOwned speak of a row, its secret and   *)
(* what was given.  Whether they hold on after a step depends on where     *)
(* every request and the migration are, and on what those have written     *)
(* before: that is what the other parts of AdminInv say.                   *)
(***************************************************************************)
EXTENDS Integrations, TLAPS

Editing(r)  == pc[r] \in {"store", "put", "row", "reread"}
Deleting(r) == pc[r] \in {"lookup", "drop", "unsecret"}

\* A row that is not there is empty; a credential is in one place; a secret is
\* deleted after its row.
RowsAgree == \A i \in Integration:
  /\ ~Present(i) => row[i].token = NoToken /\ ~row[i].arn
  /\ row[i].arn => row[i].token = NoToken /\ secret[i] # NoToken
  /\ secret[i] = "scheduled" => row[i].life = "deleted"

\* Without Secrets Manager there are no secrets, and nobody asks for one.
NoneManaged == ~Managed =>
  /\ \A i \in Integration: ~row[i].arn /\ secret[i] = NoToken
  /\ \A r \in Request: ~ask[r].arn /\ pc[r] \notin {"store", "put", "lookup", "unsecret"}

\* Where a request of each kind may be.  A row is created by the only request
\* that knows of it, and its secret is deleted after it.
Placed(r) ==
  /\ pc[r] # "idle" => ask[r].op = "delete" <=> Deleting(r)
  /\ Deleting(r) => ask[r].token = NoToken
  /\ pc[r] \in {"store", "put"} => ask[r].token # NoToken
  /\ pc[r] = "row" => /\ ask[r].arn => ask[r].token # NoToken
                      /\ Managed /\ ask[r].token # NoToken => ask[r].arn
  /\ pc[r] = "unsecret" => row[ask[r].id].life = "deleted"
  /\ pc[r] # "idle" /\ row[ask[r].id].life = "unused" => ask[r].op = "create"
  /\ ask[r].op = "create" /\ pc[r] \in {"store", "put", "row"}
       => row[ask[r].id].life = "unused" /\ Serving(ask[r].id) = {r}

RequestsAgree == \A r \in Request: Placed(r)

\* What the requests have been given is among what their rows may have; what is
\* in effect is, and so is what the secret holds.
GivenAgrees ==
  /\ \A r, q \in Request:
       pc[r] # "idle" /\ pc[q] # "idle" /\ r # q /\ ask[r].id = ask[q].id
         => ask[r].token \in during[q] \cup {NoToken}
  /\ \A r \in Request:
       /\ pc[r] # "idle" => ask[r].token \in given[ask[r].id] \cup {NoToken}
       /\ NoToken \notin during[r]
  /\ \A i \in Integration:
       /\ row[i].life = "unused" => NoToken \in given[i]
       /\ row[i].life # "deleted" => secret[i] \in given[i] \cup {NoToken}

\* An edit that has brought its credential finds it in effect, or one that was
\* given while it ran.
Brought(r) ==
  LET i == ask[r].id IN
  /\ Managed /\ Editing(r) /\ ask[r].op = "create" => row[i].token = NoToken
  /\ Managed /\ pc[r] \in {"row", "reread"} /\ ask[r].token # NoToken
       => secret[i] \in {ask[r].token, "scheduled"} \cup during[r]
  /\ pc[r] = "reread" /\ ask[r].token # NoToken /\ Present(i)
       => IF Managed THEN row[i].arn ELSE row[i].token \in {ask[r].token} \cup during[r]

EditsAgree == \A r \in Request: Brought(r)

\* The script's copies are those of rows that nobody edits.
JobAgrees ==
  /\ job.stored \subseteq job.left /\ \A i, j \in job.stored: i = j
  /\ job.pc # "running" => job.left = {}
  /\ job.pc \in {"due", "running"} => \A r \in Request: Editing(r) => ask[r].op = "create"
  /\ \A i \in job.left:
       /\ \A r \in Serving(i): ~Editing(r)
       /\ row[i].life # "unused" /\ job.copy[i].token # NoToken
       /\ Present(i) => ~row[i].arn /\ row[i].token = job.copy[i].token
  /\ \A i \in job.stored:
       secret[i] # NoToken /\ (Present(i) => secret[i] = job.copy[i].token)

\* Where no call has failed and no delete raced, a delete is alone with a row
\* that it has read, an edit's and the script's rows are there, and somebody
\* is about to name, or to delete, a secret that no row names.
Clean(i) ==
  /\ \A r \in Serving(i): Deleting(r) => Serving(i) = {r} /\ i \notin job.left
  /\ \A r \in Serving(i): pc[r] = "drop" => ask[r].arn = row[i].arn
  /\ \A r \in Serving(i): Editing(r) =>
       Present(i) \/ (ask[r].op = "create" /\ pc[r] # "reread")
  /\ i \in job.left => Present(i)
  /\ secret[i] \in Token =>
       \/ row[i].arn
       \/ i \in job.stored
       \/ \E r \in Serving(i): ask[r].arn /\ pc[r] \in {"row", "unsecret"}

UnmarredAgree == \A i \in Integration \ marred: Clean(i)

AdminInv == /\ IntegrationsTypeOK /\ RowsAgree /\ NoneManaged /\ RequestsAgree
            /\ GivenAgrees /\ EditsAgree /\ JobAgrees /\ UnmarredAgree
            /\ EffectiveIsCurrent

(***************************************************************************)
(* Shapes, and what a request's move changes                               *)
(***************************************************************************)

Step == {"idle", "store", "put", "row", "reread", "lookup", "drop", "unsecret"}

\* The parts of a row, a request and a secret.
LEMMA Shapes ==
  ASSUME IntegrationsTypeOK
  PROVE  /\ \A i \in Integration:
              /\ row[i] \in Row /\ row[i].token \in Given /\ row[i].arn \in BOOLEAN
              /\ row[i].life \in {"unused", "present", "deleted"}
              /\ secret[i] \in Given \cup {"scheduled"} /\ given[i] \subseteq Given
         /\ \A r \in Request:
              /\ ask[r] \in Form /\ ask[r].id \in Integration /\ ask[r].token \in Given
              /\ ask[r].arn \in BOOLEAN /\ during[r] \subseteq Given
              /\ pc[r] \in Step /\ ask[r].op \in {"none", "create", "update", "delete"}
BY DEF IntegrationsTypeOK, Row, Form, Step

\* A form that says nothing, and a row that is gone.
LEMMA Empty ==
  /\ NoForm \in Form /\ NoForm.token = NoToken /\ NoForm.arn = FALSE
  /\ \A life \in {"unused", "present", "deleted"}:
       /\ Gone(life) \in Row /\ Gone(life).life = life
       /\ Gone(life).token = NoToken /\ Gone(life).arn = FALSE
<1>1. (CHOOSE i \in Integration: TRUE) \in Integration
  BY IntegrationsAssumption
<1> QED
  BY <1>1 DEF NoForm, Form, Gone, Row, Given

\* r goes on to another step, perhaps with an ARN.
Moves(r, step, arn) ==
  /\ Goto(r, step)
  /\ ask' = ask \/ ask' = [ask EXCEPT ![r].arn = arn]
  /\ during' = during

LEMMA Moved ==
  ASSUME IntegrationsTypeOK, NEW r \in Request, NEW step \in Step \ {"idle"},
         NEW arn \in BOOLEAN, pc[r] # "idle", Moves(r, step, arn)
  PROVE  /\ pc' \in [Request -> Step] /\ ask' \in [Request -> Form]
         /\ pc'[r] = step /\ \A q \in Request: q # r => pc'[q] = pc[q]
         /\ \A q \in Request: /\ ask'[q].id = ask[q].id /\ ask'[q].op = ask[q].op
                              /\ ask'[q].token = ask[q].token
                              /\ q # r => ask'[q] = ask[q]
         /\ \A i: Serving(i)' = Serving(i)
<1>1. pc' \in [Request -> Step] /\ pc'[r] = step /\ \A q \in Request: q # r => pc'[q] = pc[q]
  BY DEF Moves, Goto, IntegrationsTypeOK, Step
<1>2. ask[r] \in Form
  BY Shapes
<1>3. ask' \in [Request -> Form]
  BY <1>2 DEF Moves, IntegrationsTypeOK, Form
<1>4. \A q \in Request: /\ ask'[q].id = ask[q].id /\ ask'[q].op = ask[q].op
                        /\ ask'[q].token = ask[q].token
                        /\ q # r => ask'[q] = ask[q]
  BY <1>2 DEF Moves, IntegrationsTypeOK, Form
<1>5. \A i: Serving(i)' = Serving(i)
  BY <1>1, <1>4 DEF Serving
<1> QED
  BY <1>1, <1>3, <1>4, <1>5

\* r is done.
LEMMA Finished ==
  ASSUME IntegrationsTypeOK, NEW r \in Request, Finish(r)
  PROVE  /\ pc' \in [Request -> Step] /\ ask' \in [Request -> Form]
         /\ during' \in [Request -> SUBSET Given]
         /\ pc'[r] = "idle" /\ ask'[r].arn = FALSE /\ during'[r] = {}
         /\ \A q \in Request: q # r => /\ pc'[q] = pc[q] /\ ask'[q] = ask[q]
                                       /\ during'[q] = during[q]
         /\ \A i: Serving(i)' = Serving(i) \ {r}
<1>1. /\ pc' \in [Request -> Step] /\ ask' \in [Request -> Form]
      /\ during' \in [Request -> SUBSET Given]
      /\ pc'[r] = "idle" /\ ask'[r].arn = FALSE /\ during'[r] = {}
      /\ \A q \in Request: q # r => /\ pc'[q] = pc[q] /\ ask'[q] = ask[q]
                                    /\ during'[q] = during[q]
  BY Empty DEF Finish, Goto, IntegrationsTypeOK, Step
<1>2. \A i: Serving(i)' = Serving(i) \ {r}
  BY <1>1 DEF Serving
<1> QED
  BY <1>1, <1>2
(***************************************************************************)
(* The steps of a request                                                  *)
(***************************************************************************)

\* A request ends and leaves row and secret as they are, whatever that does to
\* what is given.
LEMMA EndKeeps ==
  ASSUME AdminInv, NEW r \in Request, pc[r] # "idle", Finish(r),
         UNCHANGED <<row, secret, job>>,
         given' \in [Integration -> SUBSET Given], GivenAgrees', EffectiveIsCurrent',
         \/ marred' = marred \cup {ask[r].id}
         \/ /\ marred' = marred
            /\ pc[r] \in {"row", "unsecret"} => secret[ask[r].id] \notin Token
  PROVE  AdminInv'
<1>0. /\ IntegrationsTypeOK /\ RowsAgree /\ NoneManaged /\ RequestsAgree
      /\ GivenAgrees /\ EditsAgree /\ JobAgrees /\ UnmarredAgree /\ EffectiveIsCurrent
  BY DEF AdminInv
<1>1. /\ \A q \in Request: q # r => /\ pc'[q] = pc[q] /\ ask'[q] = ask[q]
                                    /\ during'[q] = during[q]
      /\ pc'[r] = "idle" /\ ask'[r].arn = FALSE /\ during'[r] = {}
      /\ \A j: Serving(j)' = Serving(j) \ {r}
  BY <1>0, Finished
<1>2. IntegrationsTypeOK'
  <2>1. /\ pc' \in [Request -> Step] /\ ask' \in [Request -> Form]
        /\ during' \in [Request -> SUBSET Given]
    BY <1>0, Finished
  <2>2. marred' \subseteq Integration
    BY <1>0, Shapes DEF IntegrationsTypeOK
  <2> QED
    BY <1>0, <2>1, <2>2 DEF IntegrationsTypeOK, Step
<1>3. RowsAgree'
  BY <1>0 DEF RowsAgree, Present
<1>4. NoneManaged'
  BY <1>0, <1>1 DEF NoneManaged, Managed
<1>5. RequestsAgree'
  <2> SUFFICES ASSUME NEW q \in Request PROVE Placed(q)'
    BY DEF RequestsAgree
  <2>1. CASE q = r
    BY <2>1, <1>1 DEF Placed, Deleting
  <2>2. CASE q # r
    BY <2>2, <1>0, <1>1 DEF RequestsAgree, Placed, Deleting, Managed
  <2> QED
    BY <2>1, <2>2
<1>6. EditsAgree'
  BY <1>0, <1>1 DEF EditsAgree, Brought, Editing, Managed, Present
<1>7. JobAgrees'
  <2>1. \A q \in Request: Editing(q)' => Editing(q) /\ ask'[q] = ask[q]
    BY <1>1 DEF Editing
  <2>2. \A j: \A q \in Serving(j)': q \in Serving(j) /\ q \in Request
    BY <1>1 DEF Serving
  <2> QED
    BY <1>0, <2>1, <2>2 DEF JobAgrees, Present
<1>8. UnmarredAgree'
  <2> SUFFICES ASSUME NEW j \in Integration, j \notin marred' PROVE Clean(j)'
    BY DEF UnmarredAgree
  <2>1. \A q \in Serving(j)': /\ q \in Serving(j) /\ q # r
                              /\ pc'[q] = pc[q] /\ ask'[q] = ask[q]
                              /\ Editing(q)' <=> Editing(q)
                              /\ Deleting(q)' <=> Deleting(q)
    BY <1>1 DEF Serving, Editing, Deleting
  <2>2. Clean(j)
    BY <1>0 DEF UnmarredAgree
  <2>3. CASE j = ask[r].id
    <3>1. secret[j] \in Token => row[j].arn \/ j \in job.stored
             \/ \E q \in Serving(j) \ {r}: ask[q].arn /\ pc[q] \in {"row", "unsecret"}
      BY <2>2, <2>3 DEF Clean
    <3> QED
      BY <1>1, <2>1, <2>2, <3>1 DEF Clean, Present
  <2>4. CASE j # ask[r].id
    <3>1. Serving(j)' = Serving(j)
      BY <1>1, <2>4 DEF Serving
    <3> QED
      BY <1>1, <2>1, <2>2, <3>1 DEF Clean, Present
  <2> QED
    BY <2>3, <2>4
<1> QED
  BY <1>2, <1>3, <1>4, <1>5, <1>6, <1>7, <1>8 DEF AdminInv

\* A request ends without having done anything.
LEMMA LeaveKeeps ==
  ASSUME AdminInv, NEW r \in Request, pc[r] # "idle", Finish(r),
         UNCHANGED <<row, secret, job, given>>,
         \/ marred' = marred \cup {ask[r].id}
         \/ /\ marred' = marred
            /\ pc[r] \in {"row", "unsecret"} => secret[ask[r].id] \notin Token
  PROVE  AdminInv'
<1>0. IntegrationsTypeOK /\ GivenAgrees /\ EffectiveIsCurrent
  BY DEF AdminInv
<1>1. /\ \A q \in Request: q # r => /\ pc'[q] = pc[q] /\ ask'[q] = ask[q]
                                    /\ during'[q] = during[q]
      /\ pc'[r] = "idle" /\ during'[r] = {}
  BY <1>0, Finished
<1>2. GivenAgrees'
  BY <1>0, <1>1 DEF GivenAgrees
<1>3. EffectiveIsCurrent' /\ given' \in [Integration -> SUBSET Given]
  BY <1>0 DEF EffectiveIsCurrent, Present, Effective, IntegrationsTypeOK
<1> QED
  BY <1>2, <1>3, EndKeeps

\* A request puts its credential into the secret, and goes on or fails.
LEMMA SecretPutKeeps ==
  ASSUME AdminInv, NEW r \in Request, pc[r] \in {"store", "put"},
         SetSecret(ask[r].id, ask[r].token),
         UNCHANGED <<row, job, given>>,
         \/ Goto(r, "row") /\ ask' = [ask EXCEPT ![r].arn = TRUE] /\ UNCHANGED <<during, marred>>
         \/ Finish(r) /\ marred' = marred \cup {ask[r].id}
  PROVE  AdminInv'
<1> DEFINE i == ask[r].id
           t == ask[r].token
<1>0. /\ IntegrationsTypeOK /\ RowsAgree /\ NoneManaged /\ RequestsAgree
      /\ GivenAgrees /\ EditsAgree /\ JobAgrees /\ UnmarredAgree /\ EffectiveIsCurrent
  BY DEF AdminInv
<1>1. /\ i \in Integration /\ t \in Token /\ r \in Serving(i) /\ Editing(r) /\ Managed
      /\ t \in given[i] /\ t # NoToken /\ t # "scheduled"
  BY <1>0, Shapes, IntegrationsAssumption
     DEF RequestsAgree, Placed, NoneManaged, Given, Editing, Serving, GivenAgrees
<1>2. /\ secret[i] # "scheduled" /\ secret'[i] = t
      /\ \A j \in Integration: j # i => secret'[j] = secret[j]
  BY <1>0, <1>1 DEF SetSecret, IntegrationsTypeOK
<1>3. CASE Goto(r, "row") /\ ask' = [ask EXCEPT ![r].arn = TRUE] /\ UNCHANGED <<during, marred>>
  <2>1. Moves(r, "row", TRUE) /\ "row" \in Step \ {"idle"} /\ pc[r] # "idle"
    BY <1>3 DEF Moves, Step
  <2> HIDE DEF i, t
  <2>2. /\ pc'[r] = "row" /\ \A q \in Request: q # r => pc'[q] = pc[q]
        /\ \A q \in Request: /\ ask'[q].id = ask[q].id /\ ask'[q].op = ask[q].op
                             /\ ask'[q].token = ask[q].token
                             /\ q # r => ask'[q] = ask[q]
        /\ \A j: Serving(j)' = Serving(j)
        /\ pc' \in [Request -> Step] /\ ask' \in [Request -> Form]
    BY <1>0, <2>1, Moved
  <2>3. ask'[r].arn = TRUE /\ during' = during /\ marred' = marred
    BY <1>0, <1>3, Shapes DEF IntegrationsTypeOK, Form
  <2>4. IntegrationsTypeOK'
    BY <1>0, <1>1, <2>2, <2>3 DEF IntegrationsTypeOK, SetSecret, Step, Given, t
  <2>5. RowsAgree' /\ EffectiveIsCurrent'
    BY <1>0, <1>1, <1>2 DEF RowsAgree, EffectiveIsCurrent, Present, Effective
  <2>6. NoneManaged'
    BY <1>1 DEF NoneManaged, Managed
  <2>7. RequestsAgree'
    BY <1>0, <1>1, <2>2, <2>3 DEF RequestsAgree, Placed, Deleting, Managed, t, i, Editing
  <2>8. GivenAgrees'
    BY <1>0, <1>1, <1>2, <2>2, <2>3 DEF GivenAgrees, Editing
  <2>9. EditsAgree'
    <3> SUFFICES ASSUME NEW q \in Request PROVE Brought(q)'
      BY DEF EditsAgree
    <3>1. CASE q = r
      BY <3>1, <1>0, <1>1, <1>2, <2>2, <2>3 DEF EditsAgree, Brought, Editing, Managed, Present, i, t
    <3>2. CASE q # r
      <4>1. pc[q] # "idle" /\ ask[q].id = i => t \in during[q]
        BY <3>2, <1>0, <1>1 DEF GivenAgrees, Editing, i, t
      <4>2. ask[q].id \in Integration
        BY <1>0, Shapes
      <4> QED
        BY <3>2, <4>1, <4>2, <1>0, <1>1, <1>2, <2>2, <2>3 DEF EditsAgree, Brought, Editing, Managed, Present
    <3> QED
      BY <3>1, <3>2
  <2>10. JobAgrees'
    <3>1. \A q \in Request: Editing(q)' => Editing(q) /\ ask'[q].op = ask[q].op
      BY <1>1, <2>2 DEF Editing
    <3>2. i \notin job.left
      BY <1>0, <1>1 DEF JobAgrees
    <3>3. \A j \in job.stored: j # i /\ j \in Integration
      BY <3>2, <1>0 DEF JobAgrees, IntegrationsTypeOK
    <3>4. \A j: \A q \in Serving(j): q \in Request
      BY DEF Serving
    <3> QED
      BY <1>0, <1>2, <2>2, <3>1, <3>3, <3>4 DEF JobAgrees, Present
  <2>11. UnmarredAgree'
    <3> SUFFICES ASSUME NEW j \in Integration, j \notin marred PROVE Clean(j)'
      BY <2>3 DEF UnmarredAgree
    <3>1. Clean(j)
      BY <1>0 DEF UnmarredAgree
    <3>2. \A q \in Serving(j): /\ q # r => pc'[q] = pc[q] /\ ask'[q] = ask[q]
                               /\ Editing(q)' <=> Editing(q)
                               /\ Deleting(q)' <=> Deleting(q)
                               /\ pc'[q] = "reread" <=> pc[q] = "reread"
                               /\ pc'[q] = "drop" => pc[q] = "drop" /\ q # r
      BY <1>1, <2>2 DEF Serving, Editing, Deleting
    <3>3. CASE j = i
      BY <1>1, <2>2, <2>3, <3>1, <3>2, <3>3 DEF Clean, Present
    <3>4. CASE j # i
      <4>1. r \notin Serving(j)
        BY <3>4 DEF Serving, i
      <4> QED
        BY <1>2, <2>2, <3>1, <3>2, <3>4, <4>1 DEF Clean, Present
    <3> QED
      BY <3>3, <3>4
  <2> QED
    BY <2>4, <2>5, <2>6, <2>7, <2>8, <2>9, <2>10, <2>11 DEF AdminInv
<1>4. CASE Finish(r) /\ marred' = marred \cup {i}
  <2> HIDE DEF i, t
  <2>1. /\ pc' \in [Request -> Step] /\ ask' \in [Request -> Form]
        /\ during' \in [Request -> SUBSET Given]
        /\ pc'[r] = "idle" /\ ask'[r].arn = FALSE /\ during'[r] = {}
        /\ \A q \in Request: q # r => /\ pc'[q] = pc[q] /\ ask'[q] = ask[q]
                                      /\ during'[q] = during[q]
        /\ \A j: Serving(j)' = Serving(j) \ {r}
    BY <1>0, <1>4, Finished
  <2>2. IntegrationsTypeOK'
    BY <1>0, <1>1, <1>4, <2>1 DEF IntegrationsTypeOK, SetSecret, Step, Given, t
  <2>3. RowsAgree' /\ EffectiveIsCurrent'
    BY <1>0, <1>1, <1>2 DEF RowsAgree, EffectiveIsCurrent, Present, Effective
  <2>4. NoneManaged'
    BY <1>1 DEF NoneManaged, Managed
  <2>5. RequestsAgree'
    <3> SUFFICES ASSUME NEW q \in Request PROVE Placed(q)'
      BY DEF RequestsAgree
    <3>1. CASE q = r
      BY <3>1, <2>1 DEF Placed, Deleting
    <3>2. CASE q # r
      <4>1. Placed(q)
        BY <1>0 DEF RequestsAgree
      <4>2. Serving(ask[q].id) = {q} => Serving(ask[q].id)' = {q}
        BY <3>2, <2>1
      <4> QED
        BY <3>2, <4>1, <4>2, <2>1 DEF Placed, Deleting, Managed
    <3> QED
      BY <3>1, <3>2
  <2>6. GivenAgrees'
    BY <1>0, <1>1, <1>2, <2>1 DEF GivenAgrees
  <2>7. EditsAgree'
    <3>1. \A q \in Request: q # r /\ pc[q] # "idle" /\ ask[q].id = i => t \in during[q]
      BY <1>0, <1>1 DEF GivenAgrees, Editing, i, t
    <3>2. \A q \in Request: ask[q].id \in Integration
      BY <1>0, Shapes
    <3> QED
      BY <1>0, <1>1, <1>2, <2>1, <3>1, <3>2 DEF EditsAgree, Brought, Editing, Managed, Present
  <2>8. JobAgrees'
    <3>1. \A q \in Request: Editing(q)' => Editing(q) /\ ask'[q] = ask[q]
      BY <2>1 DEF Editing
    <3>2. \A j: \A q \in Serving(j)': q \in Serving(j) /\ q \in Request
      BY <2>1 DEF Serving
    <3>3. \A j \in job.stored: j # i /\ j \in Integration
      BY <1>0, <1>1 DEF JobAgrees, IntegrationsTypeOK
    <3> QED
      BY <1>0, <1>2, <3>1, <3>2, <3>3 DEF JobAgrees, Present
  <2>9. UnmarredAgree'
    <3> SUFFICES ASSUME NEW j \in Integration, j \notin marred, j # i PROVE Clean(j)'
      BY <1>4 DEF UnmarredAgree
    <3>1. Clean(j)
      BY <1>0 DEF UnmarredAgree
    <3>2. Serving(j)' = Serving(j) /\ r \notin Serving(j)
      BY <2>1 DEF Serving, i
    <3>3. \A q \in Serving(j): /\ pc'[q] = pc[q] /\ ask'[q] = ask[q]
                               /\ Editing(q)' <=> Editing(q)
                               /\ Deleting(q)' <=> Deleting(q)
      BY <2>1, <3>2 DEF Serving, Editing, Deleting
    <3> QED
      BY <1>2, <3>1, <3>2, <3>3 DEF Clean, Present
  <2> QED
    BY <2>2, <2>3, <2>4, <2>5, <2>6, <2>7, <2>8, <2>9 DEF AdminInv
<1> QED
  BY <1>3, <1>4

\* What a request's statement makes of its row, if it is there or created.
LEMMA RowWritten ==
  ASSUME IntegrationsTypeOK, RowsAgree, RequestsAgree, NEW r \in Request,
         pc[r] = "row", RowEffect(r)
  PROVE  LET i == ask[r].id IN
         /\ row' \in [Integration -> Row]
         /\ \A j \in Integration: j # i => row'[j] = row[j]
         /\ IF Present(i) \/ ask[r].op = "create"
              THEN /\ row'[i].life = "present"
                   /\ row'[i].token = IF ask[r].arn THEN NoToken
                                      ELSE IF ask[r].token = NoToken THEN row[i].token
                                      ELSE ask[r].token
                   /\ row'[i].arn = IF ~ask[r].arn /\ ask[r].token # NoToken THEN FALSE
                                    ELSE ask[r].arn \/ row[i].arn
              ELSE row'[i] = row[i]
<1> DEFINE i == ask[r].id
           plain == IF ask[r].arn THEN NoToken ELSE ask[r].token
<1>1. /\ i \in Integration /\ row[i] \in Row /\ plain \in Given /\ ask[r].arn \in BOOLEAN
      /\ NoToken \in Given /\ row \in [Integration -> Row]
  BY Shapes DEF Given, IntegrationsTypeOK
<1>2. ask[r].arn => ask[r].token # NoToken
  BY DEF RequestsAgree, Placed
<1>3. CASE ask[r].op = "create"
  <2> DEFINE new == [life |-> "present", token |-> plain, arn |-> ask[r].arn, spaces |-> {}]
  <2>1. row[i].token = NoToken /\ ~row[i].arn
    BY <1>1, <1>3 DEF RequestsAgree, Placed, RowsAgree, Present
  <2>2. row' = [row EXCEPT ![i] = new]
    BY <1>3 DEF RowEffect, CreateIntegration
  <2>3. /\ new \in Row /\ new.life = "present" /\ new.token = plain /\ new.arn = ask[r].arn
    BY <1>1 DEF Row
  <2> HIDE DEF new
  <2>4. row'[i] = new /\ row' \in [Integration -> Row]
        /\ \A j \in Integration: j # i => row'[j] = row[j]
    BY <1>1, <2>2, <2>3
  <2> QED
    BY <1>1, <1>2, <1>3, <2>1, <2>3, <2>4
<1>4. CASE ask[r].op # "create"
  <2> DEFINE new == IF row[i].life = "present"
                      THEN Merged(row[i], plain, ask[r].arn, {}) ELSE row[i]
  <2>1. row' = [row EXCEPT ![i] = new]
    BY <1>1, <1>4 DEF RowEffect, UpdateIntegration
  <2>2. new \in Row
    BY <1>1 DEF Merged, Row
  <2>3. CASE Present(i)
    <3>1. /\ new.life = "present"
          /\ new.token = IF ask[r].arn THEN NoToken
                         ELSE IF plain = NoToken THEN row[i].token ELSE plain
          /\ new.arn = IF plain # NoToken THEN FALSE ELSE ask[r].arn \/ row[i].arn
      BY <1>1, <2>3 DEF Merged, Row, Present
    <3> HIDE DEF new
    <3>2. row'[i] = new /\ row' \in [Integration -> Row]
          /\ \A j \in Integration: j # i => row'[j] = row[j]
      BY <1>1, <2>1, <2>2
    <3> QED
      BY <1>2, <2>3, <3>1, <3>2
  <2>4. CASE ~Present(i)
    <3>1. new = row[i]
      BY <2>4 DEF Present
    <3> HIDE DEF new
    <3> QED
      BY <1>1, <1>4, <2>1, <2>4, <3>1
  <2> QED
    BY <2>3, <2>4
<1> QED
  BY <1>3, <1>4

\* A request writes its row, and goes on or fails.
LEMMA RowWriteKeeps ==
  ASSUME AdminInv, NEW r \in Request, pc[r] = "row", RowEffect(r),
         UNCHANGED <<secret, job, given>>,
         \/ Goto(r, "reread") /\ UNCHANGED <<ask, during, marred>>
         \/ Finish(r) /\ marred' = marred \cup {ask[r].id}
  PROVE  AdminInv'
<1>d. PICK i, t, a: i = ask[r].id /\ t = ask[r].token /\ a = ask[r].arn
  OBVIOUS
<1>0. /\ IntegrationsTypeOK /\ RowsAgree /\ NoneManaged /\ RequestsAgree
      /\ GivenAgrees /\ EditsAgree /\ JobAgrees /\ UnmarredAgree /\ EffectiveIsCurrent
  BY DEF AdminInv
<1>1. /\ i \in Integration /\ t \in Given /\ r \in Serving(i) /\ Editing(r)
      /\ a => t # NoToken /\ Managed
      /\ Managed /\ t # NoToken => a
      /\ t \in given[i] \cup {NoToken}
  BY <1>d, <1>0, Shapes DEF RequestsAgree, Placed, NoneManaged, Editing, Serving, GivenAgrees
<1>2. /\ row' \in [Integration -> Row]
      /\ \A j \in Integration: j # i => row'[j] = row[j]
      /\ IF Present(i) \/ ask[r].op = "create"
           THEN /\ row'[i].life = "present"
                /\ row'[i].token = IF a THEN NoToken
                                   ELSE IF t = NoToken THEN row[i].token ELSE t
                /\ row'[i].arn = IF ~a /\ t # NoToken THEN FALSE ELSE a \/ row[i].arn
           ELSE row'[i] = row[i]
  BY <1>d, <1>0, RowWritten
<1>3. a => secret[i] # NoToken
  BY <1>d, <1>0, <1>1, IntegrationsAssumption, Shapes DEF EditsAgree, Brought, GivenAgrees, Given
<1>4. ask[r].op = "create" => /\ row[i].life = "unused" /\ Serving(i) = {r}
                              /\ row[i].token = NoToken /\ ~row[i].arn
  BY <1>d, <1>0, <1>1 DEF RequestsAgree, Placed, RowsAgree, Present
<1>5. /\ \A q \in Request: q # r => /\ pc'[q] = pc[q] /\ ask'[q] = ask[q]
                                    /\ during'[q] = during[q]
      /\ pc'[r] \in {"reread", "idle"}
      /\ pc'[r] = "reread" => (/\ ask' = ask /\ during' = during /\ marred' = marred
                               /\ \A j: Serving(j)' = Serving(j))
      /\ pc'[r] = "idle" => i \in marred'
      /\ during'[r] \in {during[r], {}} /\ ask'[r].arn \in {ask[r].arn, FALSE}
      /\ \A j: Serving(j)' \in {Serving(j), Serving(j) \ {r}}
      /\ marred \subseteq marred' /\ marred' \subseteq Integration
      /\ pc' \in [Request -> Step] /\ ask' \in [Request -> Form]
      /\ during' \in [Request -> SUBSET Given]
  <2>1. CASE Goto(r, "reread") /\ UNCHANGED <<ask, during, marred>>
    <3>1. Moves(r, "reread", TRUE) /\ "reread" \in Step \ {"idle"}
      BY <2>1 DEF Moves, Step
    <3> QED
      BY <1>0, <2>1, <3>1, Moved DEF IntegrationsTypeOK
  <2>2. CASE Finish(r) /\ marred' = marred \cup {ask[r].id}
    <3>1. /\ pc' \in [Request -> Step] /\ ask' \in [Request -> Form]
          /\ during' \in [Request -> SUBSET Given]
          /\ pc'[r] = "idle" /\ ask'[r].arn = FALSE /\ during'[r] = {}
          /\ \A q \in Request: q # r => /\ pc'[q] = pc[q] /\ ask'[q] = ask[q]
                                        /\ during'[q] = during[q]
          /\ \A j: Serving(j)' = Serving(j) \ {r}
      BY <1>0, <2>2, Finished
    <3>2. marred \subseteq marred' /\ marred' \subseteq Integration /\ i \in marred'
      BY <1>d, <1>0, <1>1, <2>2 DEF IntegrationsTypeOK
    <3> QED
      BY <3>1, <3>2
  <2> QED
    BY <2>1, <2>2
<1>6. IntegrationsTypeOK'
  BY <1>0, <1>2, <1>5 DEF IntegrationsTypeOK, Step
<1>7. RowsAgree'
  <2> SUFFICES ASSUME NEW j \in Integration
               PROVE  /\ row'[j].life # "present" => row'[j].token = NoToken /\ ~row'[j].arn
                      /\ row'[j].arn => row'[j].token = NoToken /\ secret[j] # NoToken
                      /\ secret[j] = "scheduled" => row'[j].life = "deleted"
    BY DEF RowsAgree, Present
  <2>1. CASE j = i
    BY <2>1, <1>0, <1>1, <1>2, <1>3, <1>4 DEF RowsAgree, Present
  <2>2. CASE j # i
    BY <2>2, <1>0, <1>2 DEF RowsAgree, Present
  <2> QED
    BY <2>1, <2>2
<1>8. NoneManaged'
  BY <1>d, <1>0, <1>1, <1>2, <1>5 DEF NoneManaged, Managed
<1>9. RequestsAgree'
  <2> SUFFICES ASSUME NEW q \in Request PROVE Placed(q)'
    BY DEF RequestsAgree
  <2>1. CASE q = r
    <3>1. CASE pc'[r] = "idle"
      BY <2>1, <3>1 DEF Placed, Deleting
    <3>2. CASE pc'[r] = "reread"
      <4>1. ask' = ask /\ Placed(r) /\ ask[r].id = i
        BY <1>d, <3>2, <1>0, <1>5 DEF RequestsAgree
      <4>2. row'[i].life = "unused" => row[i].life = "unused"
        BY <1>2
      <4> QED
        BY <2>1, <3>2, <4>1, <4>2 DEF Placed, Deleting
    <3> QED
      BY <3>1, <3>2, <1>5
  <2>2. CASE q # r
    <3>1. Placed(q) /\ ask[q].id \in Integration
      BY <1>0, Shapes DEF RequestsAgree
    <3>2. CASE ask[q].id = i
      <4>1. pc[q] # "idle" => ask[r].op # "create" /\ Serving(i) # {q}
        BY <2>2, <3>2, <1>1, <1>4 DEF Serving
      <4> QED
        BY <2>2, <3>1, <3>2, <4>1, <1>2, <1>5 DEF Placed, Deleting, Managed, Present
    <3>3. CASE ask[q].id # i
      <4>1. Serving(ask[q].id)' = Serving(ask[q].id)
        BY <1>d, <1>5, <3>3 DEF Serving
      <4> QED
        BY <2>2, <3>1, <3>3, <4>1, <1>2, <1>5 DEF Placed, Deleting, Managed
    <3> QED
      BY <3>2, <3>3
  <2> QED
    BY <2>1, <2>2
<1>10. GivenAgrees'
  <2>1. \A q \in Request: pc'[q] # "idle" =>
          pc[q] # "idle" /\ ask'[q] = ask[q] /\ during'[q] = during[q]
    BY <1>1, <1>5 DEF Editing
  <2>2. \A q \in Request: NoToken \notin during'[q]
    BY <1>0, <1>5 DEF GivenAgrees
  <2>3. \A j \in Integration: /\ row'[j].life = "unused" => row[j].life = "unused"
                              /\ row'[j].life # "deleted" => row[j].life # "deleted"
    BY <1>2, <1>4 DEF Present
  <2> QED
    BY <1>0, <2>1, <2>2, <2>3 DEF GivenAgrees
<1>11. EditsAgree'
  <2> SUFFICES ASSUME NEW q \in Request PROVE Brought(q)'
    BY DEF EditsAgree
  <2>0. Brought(q) /\ Brought(r) /\ ask[q].id \in Integration
    BY <1>0, Shapes DEF EditsAgree
  <2>1. CASE q = r
    <3>1. CASE pc'[r] = "idle"
      BY <2>1, <3>1 DEF Brought, Editing
    <3>2. CASE pc'[r] = "reread"
      <4>1. ask' = ask /\ during' = during
        BY <3>2, <1>5
      <4> QED
        BY <1>d, <2>0, <2>1, <3>2, <4>1, <1>1, <1>2, <1>4 DEF Brought, Editing, Managed, Present
    <3> QED
      BY <3>1, <3>2, <1>5
  <2>2. CASE q # r
    <3>1. CASE ask[q].id = i
      <4>1. pc[q] # "idle" => ask[r].op # "create" /\ t \in during[q] \cup {NoToken}
        BY <1>d, <2>2, <3>1, <1>0, <1>1, <1>4 DEF Serving, GivenAgrees, Editing
      <4>2. pc'[q] = pc[q] /\ ask'[q] = ask[q] /\ during'[q] = during[q] /\ (Editing(q)' <=> Editing(q))
        BY <2>2, <1>5 DEF Editing
      <4>3. CASE pc[q] = "idle"
        BY <4>2, <4>3 DEF Brought, Editing
      <4>4. CASE pc[q] # "idle" /\ ~Present(i)
        <5>1. row'[i] = row[i]
          BY <4>1, <4>4, <1>2
        <5> QED
          BY <2>0, <3>1, <4>2, <5>1 DEF Brought, Managed, Present
      <4>5. CASE pc[q] # "idle" /\ Present(i)
        <5>1. /\ t \in during[q] \cup {NoToken}
              /\ row'[i].token = IF a THEN NoToken
                                 ELSE IF t = NoToken THEN row[i].token ELSE t
              /\ row'[i].arn = IF ~a /\ t # NoToken THEN FALSE ELSE a \/ row[i].arn
          BY <4>1, <4>5, <1>2
        <5>2. /\ Managed => row'[i].token \in {row[i].token, NoToken}
              /\ Managed /\ row[i].arn => row'[i].arn
              /\ ~Managed => row'[i].token \in {row[i].token} \cup during[q]
          BY <5>1, <1>1
        <5> QED
          BY <2>0, <3>1, <4>2, <4>5, <5>2 DEF Brought, Managed, Present
      <4> QED
        BY <4>3, <4>4, <4>5
    <3>2. CASE ask[q].id # i
      BY <2>0, <2>2, <3>2, <1>2, <1>5 DEF Brought, Editing, Managed, Present
    <3> QED
      BY <3>1, <3>2
  <2> QED
    BY <2>1, <2>2
<1>12. JobAgrees'
  <2>1. \A q \in Request: Editing(q)' => Editing(q) /\ ask'[q] = ask[q]
    BY <1>1, <1>5 DEF Editing
  <2>2. \A j: \A q \in Serving(j)': q \in Serving(j) /\ q \in Request
    BY <1>5 DEF Serving
  <2>3. \A j \in job.left: j \in Integration /\ row'[j] = row[j]
    BY <1>0, <1>1, <1>2 DEF JobAgrees, IntegrationsTypeOK
  <2>4. job.stored \subseteq job.left
    BY <1>0 DEF JobAgrees
  <2> QED
    BY <1>0, <2>1, <2>2, <2>3, <2>4 DEF JobAgrees, Present
<1>13. UnmarredAgree'
  <2> SUFFICES ASSUME NEW j \in Integration, j \notin marred' PROVE Clean(j)'
    BY DEF UnmarredAgree
  <2>1. Clean(j)
    BY <1>0, <1>5 DEF UnmarredAgree
  <2>2. CASE j = i
    <3>1. /\ pc'[r] = "reread" /\ ask' = ask /\ Serving(i)' = Serving(i)
          /\ \A q \in Request: q # r => pc'[q] = pc[q]
      BY <2>2, <1>5
    <3>2. ~Deleting(r) /\ ~(\E q \in Serving(i): Deleting(q))
      BY <2>1, <2>2, <1>1 DEF Clean, Editing, Deleting
    <3>3. \A q \in Serving(i): q \in Request /\ ~Deleting(q)'
      BY <3>1, <3>2 DEF Serving, Deleting
    <3>4. Present(i) \/ ask[r].op = "create"
      BY <2>1, <2>2, <1>1 DEF Clean
    <3>5. /\ Present(i)'
          /\ row'[i].arn = (IF ~a /\ t # NoToken THEN FALSE ELSE a \/ row[i].arn)
      BY <3>4, <1>2 DEF Present
    <3>6. secret[i] \in Token => Managed
      BY <1>0, <1>1, IntegrationsAssumption DEF NoneManaged
    <3>7. i \notin job.left /\ i \notin job.stored
      BY <1>0, <1>1 DEF JobAgrees
    <3>8. secret[i] \in Token =>
            row'[i].arn \/ \E q \in Serving(i): ask'[q].arn /\ pc'[q] \in {"row", "unsecret"}
      BY <1>d, <2>1, <2>2, <3>1, <3>5, <3>6, <3>7, <1>1 DEF Clean, Serving
    <3>9. \A q \in Serving(i): pc'[q] = "drop" => ask'[q].arn = row'[i].arn
      BY <3>3 DEF Deleting
    <3>10. Clean(i)'
      BY <3>1, <3>3, <3>5, <3>7, <3>8, <3>9 DEF Clean
    <3> QED
      BY <2>2, <3>10
  <2>3. CASE j # i
    <3>1. Serving(j)' = Serving(j) /\ r \notin Serving(j)
      BY <1>d, <2>3, <1>5 DEF Serving
    <3>2. \A q \in Serving(j): /\ pc'[q] = pc[q] /\ ask'[q] = ask[q]
                               /\ Editing(q)' <=> Editing(q)
                               /\ Deleting(q)' <=> Deleting(q)
      BY <1>5, <3>1 DEF Serving, Editing, Deleting
    <3> QED
      BY <2>1, <2>3, <3>1, <3>2, <1>2 DEF Clean, Present
  <2> QED
    BY <2>2, <2>3
<1>14. EffectiveIsCurrent'
  <2> SUFFICES ASSUME NEW j \in Integration, Present(j)' PROVE Effective(j)' \in given[j]
    BY DEF EffectiveIsCurrent
  <2>1. CASE j = i
    <3>1. CASE row'[i].arn
      <4>1. secret[i] # NoToken /\ row'[i].life # "deleted"
        BY <2>1, <3>1, <1>7 DEF RowsAgree, Present
      <4>2. secret[i] \in given[i]
        BY <4>1, <1>1, <1>10 DEF GivenAgrees
      <4> QED
        BY <2>1, <3>1, <4>2 DEF Effective
    <3>2. CASE ~row'[i].arn
      BY <2>1, <3>2, <1>0, <1>1, <1>2, <1>4 DEF EffectiveIsCurrent, Effective, GivenAgrees, Present
    <3> QED
      BY <3>1, <3>2
  <2>2. CASE j # i
    BY <2>2, <1>0, <1>2 DEF EffectiveIsCurrent, Effective, Present
  <2> QED
    BY <2>1, <2>2
<1> QED
  BY <1>6, <1>7, <1>8, <1>9, <1>10, <1>11, <1>12, <1>13, <1>14 DEF AdminInv

\* A delete drops its row, and goes on to the secret it knows of, ends, or fails.
LEMMA RowDropKeeps ==
  ASSUME AdminInv, NEW r \in Request, pc[r] = "drop", DeleteIntegration(ask[r].id),
         UNCHANGED <<secret, job, given>>,
         \/ ask[r].arn /\ Goto(r, "unsecret") /\ UNCHANGED <<ask, during, marred>>
         \/ Finish(r) /\ (marred' = marred \cup {ask[r].id} \/ (marred' = marred /\ ~ask[r].arn))
  PROVE  AdminInv'
<1>0. /\ IntegrationsTypeOK /\ RowsAgree /\ NoneManaged /\ RequestsAgree
      /\ GivenAgrees /\ EditsAgree /\ JobAgrees /\ UnmarredAgree /\ EffectiveIsCurrent
  BY DEF AdminInv
<1>d. PICK i: i = ask[r].id
  OBVIOUS
<1>1. /\ i \in Integration /\ r \in Serving(i) /\ Deleting(r) /\ ~Editing(r)
      /\ row[i].life # "unused"
  BY <1>0, <1>d, Shapes DEF RequestsAgree, Placed, Editing, Deleting, Serving
<1>2. /\ row' \in [Integration -> Row]
      /\ \A j \in Integration: j # i => row'[j] = row[j]
      /\ row'[i].life = "deleted" /\ row'[i].token = NoToken /\ row'[i].arn = FALSE
  <2>1. Gone("deleted") \in Row /\ row[i] \in Row /\ row \in [Integration -> Row]
    BY <1>0, <1>1, Empty, Shapes DEF IntegrationsTypeOK
  <2>2. CASE Present(i)
    <3>1. row' = [row EXCEPT ![i] = Gone("deleted")]
      BY <2>2, <1>d DEF DeleteIntegration, Present
    <3> QED
      BY <2>1, <3>1, <1>1, Empty
  <2>3. CASE ~Present(i)
    <3>1. row' = row
      BY <2>1, <2>3, <1>d, <1>1 DEF DeleteIntegration, Present
    <3>2. row[i].life = "deleted" /\ row[i].token = NoToken /\ row[i].arn = FALSE
      BY <2>3, <1>0, <1>1, Shapes DEF RowsAgree, Present
    <3> QED
      BY <2>1, <3>1, <3>2
  <2> QED
    BY <2>2, <2>3
<1>3. /\ \A q \in Request: q # r => /\ pc'[q] = pc[q] /\ ask'[q] = ask[q]
                                    /\ during'[q] = during[q]
      /\ pc'[r] \in {"unsecret", "idle"}
      /\ pc'[r] = "unsecret" => (/\ ask[r].arn /\ ask' = ask
                                 /\ during' = during /\ marred' = marred
                                 /\ \A j: Serving(j)' = Serving(j))
      /\ pc'[r] = "idle" => (/\ \A j: Serving(j)' = Serving(j) \ {r}
                             /\ i \in marred' \/ ~ask[r].arn)
      /\ marred \subseteq marred' /\ marred' \subseteq Integration
      /\ during'[r] \in {during[r], {}} /\ ask'[r].arn \in {ask[r].arn, FALSE}
      /\ pc' \in [Request -> Step] /\ ask' \in [Request -> Form]
      /\ during' \in [Request -> SUBSET Given]
  <2>1. CASE ask[r].arn /\ Goto(r, "unsecret") /\ UNCHANGED <<ask, during, marred>>
    <3>1. Moves(r, "unsecret", TRUE) /\ "unsecret" \in Step \ {"idle"}
      BY <2>1 DEF Moves, Step
    <3> QED
      BY <1>0, <2>1, <3>1, Moved, ZenonT(60) DEF IntegrationsTypeOK
  <2>2. CASE Finish(r) /\ (marred' = marred \cup {ask[r].id} \/ (marred' = marred /\ ~ask[r].arn))
    <3>1. /\ pc' \in [Request -> Step] /\ ask' \in [Request -> Form]
          /\ during' \in [Request -> SUBSET Given]
          /\ pc'[r] = "idle" /\ ask'[r].arn = FALSE /\ during'[r] = {}
          /\ \A q \in Request: q # r => /\ pc'[q] = pc[q] /\ ask'[q] = ask[q]
                                        /\ during'[q] = during[q]
          /\ \A j: Serving(j)' = Serving(j) \ {r}
      BY <1>0, <2>2, Finished
    <3>2. /\ i \in marred' \/ ~ask[r].arn
          /\ marred \subseteq marred' /\ marred' \subseteq Integration
      BY <1>0, <1>1, <1>d, <2>2 DEF IntegrationsTypeOK
    <3> QED
      BY <3>1, <3>2
  <2> QED
    BY <2>1, <2>2
<1>4. IntegrationsTypeOK'
  BY <1>0, <1>2, <1>3 DEF IntegrationsTypeOK, Step
<1>5. RowsAgree' /\ EffectiveIsCurrent'
  BY <1>0, <1>2 DEF RowsAgree, EffectiveIsCurrent, Present, Effective
<1>6. NoneManaged'
  BY <1>0, <1>2, <1>3 DEF NoneManaged, Managed
<1>7. RequestsAgree'
  <2> SUFFICES ASSUME NEW q \in Request PROVE Placed(q)'
    BY DEF RequestsAgree
  <2>1. CASE q = r
    <3>1. CASE pc'[r] = "idle"
      BY <2>1, <3>1 DEF Placed, Deleting
    <3>2. CASE pc'[r] = "unsecret"
      <4>1. ask' = ask /\ Placed(r)
        BY <3>2, <1>0, <1>3 DEF RequestsAgree
      <4> QED
        BY <2>1, <3>2, <4>1, <1>1, <1>2, <1>d DEF Placed, Deleting
    <3> QED
      BY <3>1, <3>2, <1>3
  <2>2. CASE q # r
    <3>1. Placed(q) /\ ask[q].id \in Integration
      BY <1>0, Shapes DEF RequestsAgree
    <3>2. CASE ask[q].id = i
      <4>1. Serving(i) # {q}
        BY <2>2, <1>1
      <4> QED
        BY <2>2, <3>1, <3>2, <4>1, <1>2, <1>3 DEF Placed, Deleting, Managed
    <3>3. CASE ask[q].id # i
      <4>1. Serving(ask[q].id)' = Serving(ask[q].id)
        BY <1>3, <1>d, <3>3 DEF Serving
      <4> QED
        BY <2>2, <3>1, <3>3, <4>1, <1>2, <1>3 DEF Placed, Deleting, Managed
    <3> QED
      BY <3>2, <3>3
  <2> QED
    BY <2>1, <2>2
<1>8. GivenAgrees'
  <2>1. \A q \in Request: pc'[q] # "idle" =>
          pc[q] # "idle" /\ ask'[q] = ask[q] /\ during'[q] = during[q]
    <3>1. pc'[r] = "unsecret" => during' = during
      BY <1>3
    <3> QED
      BY <1>3, <3>1
  <2>2. \A q \in Request: NoToken \notin during'[q]
    BY <1>0, <1>3 DEF GivenAgrees
  <2>3. \A j \in Integration: /\ row'[j].life = "unused" => row[j].life = "unused"
                              /\ row'[j].life # "deleted" => row[j].life # "deleted"
    BY <1>2
  <2> QED
    BY <1>0, <2>1, <2>2, <2>3 DEF GivenAgrees
<1>9. EditsAgree'
  <2>1. \A q \in Request: Editing(q)' => /\ q # r /\ Editing(q) /\ pc'[q] = pc[q]
                                         /\ ask'[q] = ask[q] /\ during'[q] = during[q]
    BY <1>3 DEF Editing
  <2>2. \A q \in Request: ask[q].id \in Integration
    BY <1>0, Shapes
  <2> SUFFICES ASSUME NEW q \in Request PROVE Brought(q)'
    BY DEF EditsAgree
  <2>3. CASE Editing(q)'
    <3>1. Brought(q)
      BY <1>0 DEF EditsAgree
    <3>2. CASE ask[q].id = i
      BY <2>1, <2>3, <3>1, <3>2, <1>2 DEF Brought, Managed, Present
    <3>3. CASE ask[q].id # i
      BY <2>1, <2>2, <2>3, <3>1, <3>3, <1>2 DEF Brought, Managed, Present
    <3> QED
      BY <3>2, <3>3
  <2>4. CASE ~Editing(q)'
    BY <2>4 DEF Brought, Editing
  <2> QED
    BY <2>3, <2>4
<1>10. JobAgrees'
  <2>1. \A q \in Request: Editing(q)' => Editing(q) /\ ask'[q] = ask[q]
    BY <1>3 DEF Editing
  <2>2. \A j: \A q \in Serving(j)': q \in Serving(j) /\ q \in Request
    BY <1>3 DEF Serving
  <2>3. \A j \in job.left: j \in Integration
    BY <1>0 DEF IntegrationsTypeOK
  <2>4. \A j \in Integration: /\ Present(j)' => row'[j] = row[j] /\ Present(j)
                              /\ row'[j].life = "unused" => row[j].life = "unused"
    BY <1>2 DEF Present
  <2>5. job.stored \subseteq job.left
    BY <1>0 DEF JobAgrees
  <2> QED
    BY <1>0, <2>1, <2>2, <2>3, <2>4, <2>5 DEF JobAgrees
<1>11. UnmarredAgree'
  <2> SUFFICES ASSUME NEW j \in Integration, j \notin marred' PROVE Clean(j)'
    BY DEF UnmarredAgree
  <2>1. Clean(j)
    BY <1>0, <1>3 DEF UnmarredAgree
  <2>2. CASE j = i
    <3>1. /\ Serving(i) = {r} /\ i \notin job.left /\ i \notin job.stored
          /\ ask[r].arn = row[i].arn
      BY <2>1, <2>2, <1>0, <1>1 DEF Clean, JobAgrees
    <3>2. CASE pc'[r] = "unsecret"
      <4>1. Serving(i)' = {r} /\ ask'[r].arn
        BY <3>1, <3>2, <1>0, <1>3, Shapes
      <4> QED
        BY <2>2, <3>1, <3>2, <4>1 DEF Clean, Editing, Deleting
    <3>3. CASE pc'[r] = "idle"
      <4>1. Serving(i)' = {} /\ ~ask[r].arn
        BY <2>2, <3>1, <3>3, <1>3
      <4>2. secret[i] \notin Token
        BY <2>1, <2>2, <3>1, <4>1 DEF Clean
      <4> QED
        BY <2>2, <3>1, <4>1, <4>2 DEF Clean
    <3> QED
      BY <3>2, <3>3, <1>3
  <2>3. CASE j # i
    <3>1. Serving(j)' = Serving(j) /\ r \notin Serving(j)
      BY <2>3, <1>3, <1>d DEF Serving
    <3>2. \A q \in Serving(j): /\ pc'[q] = pc[q] /\ ask'[q] = ask[q]
                               /\ Editing(q)' <=> Editing(q)
                               /\ Deleting(q)' <=> Deleting(q)
      BY <1>3, <3>1 DEF Serving, Editing, Deleting
    <3> QED
      BY <2>1, <2>3, <3>1, <3>2, <1>2 DEF Clean, Present
  <2> QED
    BY <2>2, <2>3
<1> QED
  BY <1>4, <1>5, <1>6, <1>7, <1>8, <1>9, <1>10, <1>11 DEF AdminInv

\* A delete drops its secret, and ends or fails.
LEMMA SecretDropKeeps ==
  ASSUME AdminInv, NEW r \in Request, pc[r] = "unsecret", DeleteSecret(ask[r].id),
         Finish(r), UNCHANGED <<row, job, given>>,
         marred' \in {marred, marred \cup {ask[r].id}}
  PROVE  AdminInv'
<1>0. /\ IntegrationsTypeOK /\ RowsAgree /\ NoneManaged /\ RequestsAgree
      /\ GivenAgrees /\ EditsAgree /\ JobAgrees /\ UnmarredAgree /\ EffectiveIsCurrent
  BY DEF AdminInv
<1>d. PICK i: i = ask[r].id
  OBVIOUS
<1>1. /\ i \in Integration /\ row[i].life = "deleted" /\ Managed /\ ~row[i].arn
  BY <1>0, <1>d, Shapes DEF RequestsAgree, Placed, NoneManaged, RowsAgree, Present
<1>2. /\ secret'[i] = "scheduled" /\ secret' \in [Integration -> Given \cup {"scheduled"}]
      /\ \A j \in Integration: j # i => secret'[j] = secret[j]
  BY <1>0, <1>1, <1>d DEF DeleteSecret, IntegrationsTypeOK
<1>3. /\ pc' \in [Request -> Step] /\ ask' \in [Request -> Form]
      /\ during' \in [Request -> SUBSET Given]
      /\ pc'[r] = "idle" /\ ask'[r].arn = FALSE /\ during'[r] = {}
      /\ \A q \in Request: q # r => /\ pc'[q] = pc[q] /\ ask'[q] = ask[q]
                                    /\ during'[q] = during[q]
      /\ \A j: Serving(j)' = Serving(j) \ {r}
  BY <1>0, Finished
<1>4. marred \subseteq marred' /\ marred' \subseteq Integration
  BY <1>0, <1>1, <1>d DEF IntegrationsTypeOK
<1>5. IntegrationsTypeOK'
  BY <1>0, <1>2, <1>3, <1>4 DEF IntegrationsTypeOK, Step
<1>6. RowsAgree' /\ EffectiveIsCurrent'
  BY <1>0, <1>1, <1>2, IntegrationsAssumption
     DEF RowsAgree, EffectiveIsCurrent, Present, Effective
<1>7. NoneManaged'
  BY <1>1 DEF NoneManaged, Managed
<1>8. RequestsAgree'
  <2> SUFFICES ASSUME NEW q \in Request PROVE Placed(q)'
    BY DEF RequestsAgree
  <2>1. CASE q = r
    BY <2>1, <1>3 DEF Placed, Deleting
  <2>2. CASE q # r
    <3>1. Placed(q)
      BY <1>0 DEF RequestsAgree
    <3>2. Serving(ask[q].id) = {q} => Serving(ask[q].id)' = {q}
      BY <2>2, <1>3
    <3> QED
      BY <2>2, <3>1, <3>2, <1>3 DEF Placed, Deleting, Managed
  <2> QED
    BY <2>1, <2>2
<1>9. GivenAgrees'
  BY <1>0, <1>1, <1>2, <1>3 DEF GivenAgrees
<1>10. EditsAgree'
  <2> SUFFICES ASSUME NEW q \in Request PROVE Brought(q)'
    BY DEF EditsAgree
  <2>1. CASE q = r
    BY <2>1, <1>3 DEF Brought, Editing
  <2>2. CASE q # r
    <3>1. Brought(q) /\ ask[q].id \in Integration
      BY <1>0, Shapes DEF EditsAgree
    <3>2. secret'[ask[q].id] \in {secret[ask[q].id], "scheduled"}
      BY <3>1, <1>2
    <3> QED
      BY <2>2, <3>1, <3>2, <1>3 DEF Brought, Editing, Managed, Present
  <2> QED
    BY <2>1, <2>2
<1>11. JobAgrees'
  <2>1. \A q \in Request: Editing(q)' => Editing(q) /\ ask'[q] = ask[q]
    BY <1>3 DEF Editing
  <2>2. \A j: \A q \in Serving(j)': q \in Serving(j) /\ q \in Request
    BY <1>3 DEF Serving
  <2>3. \A j \in job.stored: j \in Integration
    BY <1>0 DEF IntegrationsTypeOK
  <2>4. "scheduled" # NoToken /\ ~Present(i)
    BY <1>1, IntegrationsAssumption DEF Present
  <2> QED
    BY <1>0, <1>2, <2>1, <2>2, <2>3, <2>4 DEF JobAgrees, Present
<1>12. UnmarredAgree'
  <2> SUFFICES ASSUME NEW j \in Integration, j \notin marred' PROVE Clean(j)'
    BY DEF UnmarredAgree
  <2>1. Clean(j)
    BY <1>0, <1>4 DEF UnmarredAgree
  <2>2. \A q \in Serving(j)': /\ q \in Serving(j) /\ q # r
                              /\ pc'[q] = pc[q] /\ ask'[q] = ask[q]
                              /\ Editing(q)' <=> Editing(q)
                              /\ Deleting(q)' <=> Deleting(q)
    BY <1>3 DEF Serving, Editing, Deleting
  <2>3. CASE j = i
    <3>1. secret'[j] \notin Token
      BY <2>3, <1>2, IntegrationsAssumption
    <3> QED
      BY <2>1, <2>2, <3>1, <1>3 DEF Clean, Present
  <2>4. CASE j # i
    <3>1. Serving(j)' = Serving(j)
      BY <1>3, <1>d, <2>4 DEF Serving
    <3> QED
      BY <1>2, <2>1, <2>2, <2>4, <3>1 DEF Clean, Present
  <2> QED
    BY <2>3, <2>4
<1> QED
  BY <1>5, <1>6, <1>7, <1>8, <1>9, <1>10, <1>11, <1>12 DEF AdminInv

\* A request goes on without having changed row or secret: an edit finds that
\* its secret is there, or a delete has looked up its row, or failed to.
LEMMA PassKeeps ==
  ASSUME AdminInv, NEW r \in Request, UNCHANGED <<row, secret, job, during, given>>,
         \/ pc[r] = "store" /\ Goto(r, "put") /\ UNCHANGED <<ask, marred>>
         \/ /\ pc[r] = "lookup" /\ Goto(r, "drop")
            /\ \/ /\ ask' = [ask EXCEPT ![r].arn = row[ask[r].id].arn]
                  /\ marred' = marred
               \/ ask' = ask /\ marred' = marred \cup {ask[r].id}
  PROVE  AdminInv'
<1>0. /\ IntegrationsTypeOK /\ RowsAgree /\ NoneManaged /\ RequestsAgree
      /\ GivenAgrees /\ EditsAgree /\ JobAgrees /\ UnmarredAgree /\ EffectiveIsCurrent
  BY DEF AdminInv
<1>d. PICK i, arn: i = ask[r].id /\ arn = row[i].arn
  OBVIOUS
<1>1. /\ i \in Integration /\ arn \in BOOLEAN /\ r \in Serving(i) /\ Managed
      /\ pc[r] \in {"store", "lookup"} /\ pc[r] # "idle"
  BY <1>0, <1>d, Shapes DEF NoneManaged, Serving
<1>2. /\ pc' \in [Request -> Step] /\ ask' \in [Request -> Form]
      /\ pc'[r] = (IF pc[r] = "store" THEN "put" ELSE "drop")
      /\ \A q \in Request: q # r => pc'[q] = pc[q]
      /\ \A q \in Request: /\ ask'[q].id = ask[q].id /\ ask'[q].op = ask[q].op
                           /\ ask'[q].token = ask[q].token
                           /\ q # r => ask'[q] = ask[q]
      /\ \A j: Serving(j)' = Serving(j)
  <2>1. CASE pc[r] = "store"
    <3>1. Moves(r, "put", TRUE) /\ "put" \in Step \ {"idle"}
      BY <2>1 DEF Moves, Step
    <3> QED
      BY <1>0, <1>1, <2>1, <3>1, Moved
  <2>2. CASE pc[r] = "lookup"
    <3>1. Moves(r, "drop", arn) /\ "drop" \in Step \ {"idle"}
      BY <2>2, <1>d DEF Moves, Step
    <3> QED
      BY <1>0, <1>1, <2>2, <3>1, Moved
  <2> QED
    BY <1>1, <2>1, <2>2
<1>3. /\ pc[r] = "store" => ask' = ask
      /\ marred \subseteq marred' /\ marred' \subseteq Integration
      /\ pc[r] = "lookup" => i \in marred' \/ ask'[r].arn = row[i].arn
  BY <1>0, <1>1, <1>d, Shapes DEF IntegrationsTypeOK, Form
<1>4. IntegrationsTypeOK'
  BY <1>0, <1>2, <1>3 DEF IntegrationsTypeOK, Step
<1>5. RowsAgree' /\ EffectiveIsCurrent'
  BY <1>0 DEF RowsAgree, EffectiveIsCurrent, Present, Effective
<1>6. NoneManaged'
  BY <1>1 DEF NoneManaged, Managed
<1>7. \A q \in Request: /\ Editing(q)' <=> Editing(q)
                        /\ Deleting(q)' <=> Deleting(q)
                        /\ pc'[q] = "idle" <=> pc[q] = "idle"
                        /\ pc'[q] \in {"row", "reread", "unsecret"} => pc'[q] = pc[q] /\ q # r
  BY <1>1, <1>2 DEF Editing, Deleting
<1>8. RequestsAgree'
  <2> SUFFICES ASSUME NEW q \in Request PROVE Placed(q)'
    BY DEF RequestsAgree
  <2>1. Placed(q)
    BY <1>0 DEF RequestsAgree
  <2>2. CASE q = r
    BY <2>1, <2>2, <1>1, <1>2, <1>7 DEF Placed, Managed
  <2>3. CASE q # r
    BY <2>1, <2>3, <1>2, <1>7 DEF Placed, Managed
  <2> QED
    BY <2>2, <2>3
<1>9. GivenAgrees'
  BY <1>0, <1>2, <1>7 DEF GivenAgrees
<1>10. EditsAgree'
  BY <1>0, <1>2, <1>7 DEF EditsAgree, Brought, Managed, Present
<1>11. JobAgrees'
  <2>1. \A j: \A q \in Serving(j): q \in Request
    BY DEF Serving
  <2> QED
    BY <1>0, <1>2, <1>7, <2>1 DEF JobAgrees, Present
<1>12. UnmarredAgree'
  <2> SUFFICES ASSUME NEW j \in Integration, j \notin marred' PROVE Clean(j)'
    BY DEF UnmarredAgree
  <2>1. Clean(j)
    BY <1>0, <1>3 DEF UnmarredAgree
  <2>2. \A q \in Serving(j): q \in Request /\ (q = r => j = i)
    BY <1>d DEF Serving
  <2>3. \A q \in Serving(j)': pc'[q] = "drop" => ask'[q].arn = row[j].arn
    <3> SUFFICES ASSUME NEW q \in Serving(j), pc'[q] = "drop"
                 PROVE  ask'[q].arn = row[j].arn
      BY <1>2
    <3>1. CASE q = r
      BY <3>1, <2>2, <1>1, <1>2, <1>3
    <3>2. CASE q # r
      BY <3>2, <2>1, <2>2, <1>2 DEF Clean
    <3> QED
      BY <3>1, <3>2
  <2>4. secret[j] \in Token =>
          \/ row[j].arn
          \/ j \in job.stored
          \/ \E q \in Serving(j): ask'[q].arn /\ pc'[q] \in {"row", "unsecret"}
    BY <2>1, <2>2, <1>1, <1>2 DEF Clean
  <2>5. \A q \in Serving(j): Editing(q) =>
          Present(j) \/ (ask'[q].op = "create" /\ pc'[q] # "reread")
    BY <2>1, <2>2, <1>2, <1>7 DEF Clean
  <2> QED
    BY <1>2, <1>7, <2>1, <2>2, <2>3, <2>4, <2>5 DEF Clean, Present
<1> QED
  BY <1>4, <1>5, <1>6, <1>8, <1>9, <1>10, <1>11, <1>12 DEF AdminInv

\* An edit is acknowledged: it supersedes what was given before it.
LEMMA RereadKeeps ==
  ASSUME AdminInv, NEW r \in Request, Reread(r)
  PROVE  AdminInv'
<1>0. /\ IntegrationsTypeOK /\ RowsAgree /\ NoneManaged /\ RequestsAgree
      /\ GivenAgrees /\ EditsAgree /\ JobAgrees /\ UnmarredAgree /\ EffectiveIsCurrent
  BY DEF AdminInv
<1>d. PICK i, t, d: i = ask[r].id /\ t = ask[r].token /\ d = during[r]
  OBVIOUS
<1>1. /\ i \in Integration /\ t \in Given /\ d \subseteq Given
      /\ pc[r] = "reread" /\ Finish(r) /\ UNCHANGED <<row, secret, job, marred>>
      /\ given' = [given EXCEPT ![i] = IF Present(i) /\ t # NoToken THEN {t} \cup d ELSE @]
  BY <1>0, <1>d, Shapes DEF Reread
<1>2. /\ pc'[r] = "idle" /\ during'[r] = {}
      /\ \A q \in Request: q # r => /\ pc'[q] = pc[q] /\ ask'[q] = ask[q]
                                    /\ during'[q] = during[q]
  BY <1>0, <1>1, Finished
<1>3. /\ given' \in [Integration -> SUBSET Given]
      /\ \A j \in Integration: j # i => given'[j] = given[j]
      /\ given'[i] = IF Present(i) /\ t # NoToken THEN {t} \cup d ELSE given[i]
  BY <1>0, <1>1 DEF IntegrationsTypeOK
<1>4. Present(i) /\ t # NoToken =>
        /\ Managed => row[i].arn /\ secret[i] \in {t} \cup d
        /\ ~Managed => ~row[i].arn /\ secret[i] = NoToken /\ row[i].token \in {t} \cup d
  <2>1. Brought(r)
    BY <1>0 DEF EditsAgree
  <2>2. secret[i] = "scheduled" => ~Present(i)
    BY <1>0, <1>1 DEF RowsAgree, Present
  <2> QED
    BY <1>0, <1>1, <1>d, <2>1, <2>2 DEF Brought, NoneManaged
<1>5. GivenAgrees'
  <2>1. \A q \in Request: q # r /\ pc[q] # "idle" /\ ask[q].id = i => ask[q].token \in d \cup {NoToken}
    BY <1>0, <1>1, <1>d DEF GivenAgrees
  <2>2. \A q \in Request: pc'[q] # "idle" => ask'[q].token \in given'[ask'[q].id] \cup {NoToken}
    <3> SUFFICES ASSUME NEW q \in Request, q # r, pc[q] # "idle"
                 PROVE  ask[q].token \in given'[ask[q].id] \cup {NoToken}
      BY <1>2
    <3>1. ask[q].token \in given[ask[q].id] \cup {NoToken} /\ ask[q].id \in Integration
      BY <1>0, Shapes DEF GivenAgrees
    <3> QED
      BY <2>1, <3>1, <1>3
  <2>3. \A j \in Integration: /\ row[j].life = "unused" => NoToken \in given'[j]
                              /\ row[j].life # "deleted" => secret[j] \in given'[j] \cup {NoToken}
    BY <1>0, <1>3, <1>4 DEF GivenAgrees, Present
  <2>4. \A q \in Request: NoToken \notin during'[q]
    BY <1>0, <1>2 DEF GivenAgrees
  <2>5. \A q, s \in Request:
          pc'[q] # "idle" /\ pc'[s] # "idle" /\ q # s /\ ask'[q].id = ask'[s].id
            => ask'[q].token \in during'[s] \cup {NoToken}
    BY <1>0, <1>2 DEF GivenAgrees
  <2> QED
    BY <1>1, <2>2, <2>3, <2>4, <2>5 DEF GivenAgrees
<1>6. EffectiveIsCurrent'
  BY <1>0, <1>1, <1>3, <1>4 DEF EffectiveIsCurrent, Effective, Present
<1> QED
  BY <1>1, <1>3, <1>5, <1>6, EndKeeps

\* A request arrives.
LEMMA BeginKeeps ==
  ASSUME AdminInv, NEW r \in Request, NEW op \in {"create", "update", "delete"},
         NEW i \in Integration, NEW t \in Given, Begin(r, op, i, t)
  PROVE  AdminInv'
<1>0. /\ IntegrationsTypeOK /\ RowsAgree /\ NoneManaged /\ RequestsAgree
      /\ GivenAgrees /\ EditsAgree /\ JobAgrees /\ UnmarredAgree /\ EffectiveIsCurrent
  BY DEF AdminInv
<1> DEFINE form == [op |-> op, id |-> i, token |-> t, arn |-> FALSE]
<1>1. /\ pc[r] = "idle" /\ MayBegin(op, i, t)
      /\ pc' = [pc EXCEPT ![r] = FirstStep(op, t)] /\ ask' = [ask EXCEPT ![r] = form]
      /\ UNCHANGED <<row, secret, job>>
  BY DEF Begin, Goto
<1>2. /\ pc' \in [Request -> Step] /\ pc'[r] = FirstStep(op, t)
      /\ \A q \in Request: q # r => pc'[q] = pc[q]
  BY <1>0, <1>1 DEF IntegrationsTypeOK, FirstStep, Step
<1>3. /\ ask' \in [Request -> Form]
      /\ ask'[r].op = op /\ ask'[r].id = i /\ ask'[r].token = t /\ ask'[r].arn = FALSE
      /\ \A q \in Request: q # r => ask'[q] = ask[q]
  <2>1. form \in Form /\ form.op = op /\ form.id = i /\ form.token = t /\ form.arn = FALSE
    BY DEF Form
  <2> HIDE DEF form
  <2>2. ask'[r] = form /\ ask' \in [Request -> Form] /\ \A q \in Request: q # r => ask'[q] = ask[q]
    BY <1>0, <1>1, <2>1 DEF IntegrationsTypeOK
  <2> QED
    BY <2>1, <2>2
<1> HIDE DEF form
<1>4. /\ given' \in [Integration -> SUBSET Given]
      /\ \A j \in Integration: given[j] \subseteq given'[j]
      /\ t \in given'[i] \cup {NoToken}
  <2> DEFINE g == IF t = NoToken THEN given[i] ELSE given[i] \cup {t}
  <2>1. g \in SUBSET Given /\ given[i] \subseteq g /\ t \in g \cup {NoToken}
    BY <1>0 DEF IntegrationsTypeOK
  <2>2. given' = [given EXCEPT ![i] = g]
    BY DEF Begin
  <2> HIDE DEF g
  <2> QED
    BY <1>0, <2>1, <2>2 DEF IntegrationsTypeOK
<1>5. /\ during' \in [Request -> SUBSET Given]
      /\ \A q \in Request: /\ q # r => during[q] \subseteq during'[q]
                           /\ q \in Serving(i) /\ q # r => t \in during'[q] \cup {NoToken}
                           /\ NoToken \notin during'[q]
      /\ \A s \in Serving(i): ask[s].token \in during'[r] \cup {NoToken}
  <2> DEFINE others == {ask[s].token: s \in Serving(i)} \ {NoToken}
             d(q) == IF q = r THEN others
                     ELSE IF q \in Serving(i) /\ t # NoToken THEN during[q] \cup {t}
                                                             ELSE during[q]
  <2>1. during' = [q \in Request |-> d(q)]
    BY DEF Begin
  <2>2. /\ others \subseteq Given /\ NoToken \notin others
        /\ \A s \in Serving(i): ask[s].token \in others \cup {NoToken}
    BY <1>0, Shapes DEF Serving
  <2> HIDE DEF others
  <2>3. \A q \in Request: during[q] \subseteq Given /\ NoToken \notin during[q]
    BY <1>0, Shapes DEF GivenAgrees
  <2>4. \A q \in Request: /\ d(q) \in SUBSET Given /\ NoToken \notin d(q)
                          /\ q # r => during[q] \subseteq d(q)
                          /\ q \in Serving(i) /\ q # r => t \in d(q) \cup {NoToken}
                          /\ q = r => d(q) = others
    BY <2>2, <2>3
  <2> HIDE DEF d
  <2> QED
    BY <2>1, <2>2, <2>4
<1>6. /\ marred \subseteq marred' /\ marred' \subseteq Integration
      /\ i \notin marred' => /\ op = "update" => Present(i)
                             /\ op = "delete" => Serving(i) = {} /\ i \notin job.left
                             /\ \A q \in Serving(i): ask[q].op # "delete"
  BY <1>0 DEF Begin, IntegrationsTypeOK
<1>7. /\ Serving(i)' = Serving(i) \cup {r} /\ r \notin Serving(i)
      /\ \A j: j # i => Serving(j)' = Serving(j) /\ r \notin Serving(j)
  BY <1>1, <1>2, <1>3 DEF Serving, FirstStep
<1>8. /\ op = "create" => row[i].life = "unused" /\ Serving(i) = {}
      /\ op # "create" => row[i].life # "unused"
      /\ op = "update" => job.pc \in {"off", "done"}
      /\ op = "delete" => t = NoToken
  BY <1>1 DEF MayBegin, Unused
<1>9. /\ op = "delete" => pc'[r] \in {"lookup", "drop"}
      /\ op # "delete" => pc'[r] \in {"store", "row"}
      /\ pc'[r] \in {"store", "lookup"} => Managed
      /\ pc'[r] = "store" => t # NoToken
      /\ pc'[r] = "row" => ~Managed \/ t = NoToken
      /\ pc'[r] = "drop" => ~Managed
  BY <1>2 DEF FirstStep
<1>10. IntegrationsTypeOK'
  BY <1>0, <1>1, <1>2, <1>3, <1>4, <1>5, <1>6 DEF IntegrationsTypeOK, Step
<1>11. RowsAgree'
  BY <1>0, <1>1 DEF RowsAgree, Present
<1>12. EffectiveIsCurrent'
  BY <1>0, <1>1, <1>4 DEF EffectiveIsCurrent, Effective, Present
<1>13. NoneManaged'
  BY <1>0, <1>1, <1>2, <1>3, <1>9 DEF NoneManaged, Managed
<1>14. RequestsAgree'
  <2> SUFFICES ASSUME NEW q \in Request PROVE Placed(q)'
    BY DEF RequestsAgree
  <2>1. CASE q = r
    BY <2>1, <1>1, <1>3, <1>7, <1>8, <1>9 DEF Placed, Deleting, Managed
  <2>2. CASE q # r
    <3>1. Placed(q)
      BY <1>0 DEF RequestsAgree
    <3>2. ask[q].op = "create" /\ pc[q] \in {"store", "put", "row"} => ask[q].id # i
      BY <3>1, <1>8 DEF Placed
    <3> QED
      BY <2>2, <3>1, <3>2, <1>1, <1>2, <1>3, <1>7 DEF Placed, Deleting, Managed
  <2> QED
    BY <2>1, <2>2
<1>15. GivenAgrees'
  <2>1. ASSUME NEW q \in Request, NEW s \in Request, pc'[q] # "idle", pc'[s] # "idle",
               q # s, ask'[q].id = ask'[s].id
        PROVE  ask'[q].token \in during'[s] \cup {NoToken}
    <3>1. CASE q = r
      BY <2>1, <3>1, <1>2, <1>3, <1>5 DEF Serving
    <3>2. CASE s = r
      BY <2>1, <3>2, <1>2, <1>3, <1>5 DEF Serving
    <3>3. CASE q # r /\ s # r
      <4>1. ask[q].token \in during[s] \cup {NoToken}
        BY <2>1, <3>3, <1>0, <1>2, <1>3 DEF GivenAgrees
      <4> QED
        BY <3>3, <4>1, <1>3, <1>5
    <3> QED
      BY <3>1, <3>2, <3>3
  <2>2. ASSUME NEW q \in Request, pc'[q] # "idle"
        PROVE  ask'[q].token \in given'[ask'[q].id] \cup {NoToken}
    <3>1. CASE q = r
      BY <3>1, <1>3, <1>4
    <3>2. CASE q # r
      <4>1. ask[q].token \in given[ask[q].id] \cup {NoToken} /\ ask[q].id \in Integration
        BY <2>2, <3>2, <1>0, <1>2, Shapes DEF GivenAgrees
      <4> QED
        BY <3>2, <4>1, <1>3, <1>4
    <3> QED
      BY <3>1, <3>2
  <2>3. \A j \in Integration: /\ row[j].life = "unused" => NoToken \in given'[j]
                              /\ row[j].life # "deleted" => secret[j] \in given'[j] \cup {NoToken}
    BY <1>0, <1>4 DEF GivenAgrees
  <2> QED
    BY <1>1, <1>5, <2>1, <2>2, <2>3 DEF GivenAgrees
<1>16. EditsAgree'
  <2> SUFFICES ASSUME NEW q \in Request PROVE Brought(q)'
    BY DEF EditsAgree
  <2>1. CASE q = r
    <3>1. op = "create" => row[i].token = NoToken
      BY <1>0, <1>8 DEF RowsAgree, Present
    <3> QED
      BY <2>1, <3>1, <1>1, <1>3, <1>9 DEF Brought, Managed
  <2>2. CASE q # r
    <3>1. Brought(q) /\ during[q] \subseteq during'[q]
      BY <2>2, <1>0, <1>5 DEF EditsAgree
    <3> QED
      BY <2>2, <3>1, <1>1, <1>2, <1>3 DEF Brought, Editing, Managed, Present
  <2> QED
    BY <2>1, <2>2
<1>17. JobAgrees'
  <2>1. job.pc \in {"due", "running"} => \A q \in Request: Editing(q)' => ask'[q].op = "create"
    <3> SUFFICES ASSUME job.pc \in {"due", "running"}, NEW q \in Request, Editing(q)'
                 PROVE  ask'[q].op = "create"
      OBVIOUS
    <3>1. CASE q = r
      BY <3>1, <1>3, <1>8, <1>9 DEF Editing
    <3>2. CASE q # r
      BY <3>2, <1>0, <1>2, <1>3 DEF JobAgrees, Editing
    <3> QED
      BY <3>1, <3>2
  <2>2. ASSUME NEW j \in job.left, NEW q \in Serving(j)' PROVE ~Editing(q)'
    <3>1. CASE q = r
      <4>1. j = i /\ row[j].life # "unused" /\ job.pc = "running"
        BY <2>2, <3>1, <1>0, <1>7 DEF JobAgrees
      <4> QED
        BY <3>1, <4>1, <1>8, <1>9 DEF Editing
    <3>2. CASE q # r
      <4>1. q \in Serving(j) /\ q \in Request
        BY <2>2, <3>2, <1>7 DEF Serving
      <4> QED
        BY <3>2, <4>1, <1>0, <1>2 DEF JobAgrees, Editing
    <3> QED
      BY <3>1, <3>2
  <2> QED
    BY <1>0, <1>1, <2>1, <2>2 DEF JobAgrees, Present
<1>18. UnmarredAgree'
  <2> SUFFICES ASSUME NEW j \in Integration, j \notin marred' PROVE Clean(j)'
    BY DEF UnmarredAgree
  <2>1. Clean(j)
    BY <1>0, <1>6 DEF UnmarredAgree
  <2>2. \A q \in Serving(j): /\ q \in Request /\ q # r /\ pc'[q] = pc[q] /\ ask'[q] = ask[q]
                             /\ Editing(q)' <=> Editing(q)
                             /\ Deleting(q)' <=> Deleting(q)
    BY <1>1, <1>2, <1>3 DEF Serving, Editing, Deleting
  <2>3. CASE j # i
    BY <2>1, <2>2, <2>3, <1>1, <1>7 DEF Clean, Present
  <2>4. CASE j = i
    <3>1. \A q \in Serving(i): ~Deleting(q)
      BY <2>4, <1>0, <1>6 DEF RequestsAgree, Placed, Serving
    <3>2. \A q \in Serving(i)': Deleting(q)' => Serving(i)' = {q} /\ i \notin job.left
      <4> SUFFICES ASSUME NEW q \in Serving(i)', Deleting(q)'
                   PROVE  Serving(i)' = {q} /\ i \notin job.left
        OBVIOUS
      <4>1. q = r
        BY <2>2, <2>4, <3>1, <1>7
      <4>2. op = "delete"
        BY <4>1, <1>9 DEF Deleting
      <4> QED
        BY <2>4, <4>1, <4>2, <1>6, <1>7
    <3>3. \A q \in Serving(i)': pc'[q] = "drop" => ask'[q].arn = row[i].arn
      <4>1. ~Managed => row[i].arn = FALSE
        BY <1>0, Shapes DEF NoneManaged
      <4>2. \A q \in Serving(i): pc[q] # "drop"
        BY <3>1 DEF Deleting
      <4> QED
        BY <2>2, <2>4, <4>1, <4>2, <1>3, <1>7, <1>9
    <3>4. \A q \in Serving(i)': Editing(q)' =>
            Present(i) \/ (ask'[q].op = "create" /\ pc'[q] # "reread")
      <4> SUFFICES ASSUME NEW q \in Serving(i)', Editing(q)'
                   PROVE  Present(i) \/ (ask'[q].op = "create" /\ pc'[q] # "reread")
        OBVIOUS
      <4>1. CASE q = r
        BY <2>4, <4>1, <1>3, <1>6, <1>9 DEF Editing
      <4>2. CASE q # r
        BY <2>1, <2>2, <2>4, <4>2, <1>7 DEF Clean
      <4> QED
        BY <4>1, <4>2
    <3>5. secret[i] \in Token =>
            \/ row[i].arn
            \/ i \in job.stored
            \/ \E q \in Serving(i)': ask'[q].arn /\ pc'[q] \in {"row", "unsecret"}
      BY <2>1, <2>2, <2>4, <1>7 DEF Clean
    <3>6. i \in job.left => Present(i)
      BY <2>1, <2>4 DEF Clean
    <3>7. Clean(i)'
      BY <1>1, <3>2, <3>3, <3>4, <3>5, <3>6 DEF Clean, Present
    <3> QED
      BY <2>4, <3>7
  <2> QED
    BY <2>3, <2>4
<1> QED
  BY <1>10, <1>11, <1>12, <1>13, <1>14, <1>15, <1>16, <1>17, <1>18 DEF AdminInv

(***************************************************************************)
(* The migration                                                           *)
(***************************************************************************)

\* The hub restarts with Secrets Manager.
LEMMA CutoverKeeps ==
  ASSUME AdminInv, Cutover
  PROVE  AdminInv'
<1>0. /\ IntegrationsTypeOK /\ RowsAgree /\ NoneManaged /\ RequestsAgree
      /\ GivenAgrees /\ EditsAgree /\ JobAgrees /\ UnmarredAgree /\ EffectiveIsCurrent
  BY DEF AdminInv
<1>1. /\ UNCHANGED <<row, secret, pc, ask, during, given, marred>>
      /\ \A r \in Request: pc[r] = "idle"
      /\ job' = [job EXCEPT !.pc = "due"] /\ job.pc = "off"
  BY DEF Cutover, requests, history
<1>2. /\ job'.pc = "due" /\ job'.left = job.left /\ job'.stored = job.stored
      /\ job'.copy = job.copy
      /\ job' \in [pc: {"off", "due", "running", "done"}, stored: SUBSET Integration,
                   left: SUBSET Integration, copy: [Integration -> Row]]
  BY <1>0, <1>1 DEF IntegrationsTypeOK
<1>3. IntegrationsTypeOK'
  BY <1>0, <1>1, <1>2 DEF IntegrationsTypeOK
<1>4. RowsAgree' /\ EffectiveIsCurrent' /\ NoneManaged' /\ GivenAgrees'
  BY <1>0, <1>1, <1>2
     DEF RowsAgree, EffectiveIsCurrent, Effective, Present, NoneManaged, Managed, GivenAgrees
<1>5. RequestsAgree' /\ EditsAgree'
  BY <1>1 DEF RequestsAgree, Placed, Deleting, EditsAgree, Brought, Editing
<1>6. JobAgrees'
  <2>1. job.left = {} /\ job.stored = {}
    BY <1>0, <1>1 DEF JobAgrees
  <2> QED
    BY <1>1, <1>2, <2>1 DEF JobAgrees, Editing
<1>7. UnmarredAgree'
  <2> SUFFICES ASSUME NEW j \in Integration, j \notin marred PROVE Clean(j)'
    BY <1>1 DEF UnmarredAgree
  <2> QED
    BY <1>0, <1>1, <1>2 DEF UnmarredAgree, Clean, Serving, Present, Editing, Deleting
<1> QED
  BY <1>3, <1>4, <1>5, <1>6, <1>7 DEF AdminInv

\* Nobody edits a row that holds its credential once Secrets Manager is on and
\* the migration is not over.
LEMMA PlainRowsAlone ==
  ASSUME AdminInv, NEW i \in Integration, job.pc \in {"due", "running"},
         row[i].token # NoToken, NEW r \in Serving(i)
  PROVE  ~Editing(r)
<1>1. r \in Request /\ ask[r].id = i /\ Managed
  BY DEF Serving, Managed
<1>2. Editing(r) => ask[r].op = "create"
  BY <1>1 DEF AdminInv, JobAgrees
<1>3. Brought(r)
  BY <1>1 DEF AdminInv, EditsAgree
<1> QED
  BY <1>1, <1>2, <1>3 DEF Brought

\* The script lists the rows.
LEMMA ListKeeps ==
  ASSUME AdminInv, MigrateList
  PROVE  AdminInv'
<1>0. /\ IntegrationsTypeOK /\ RowsAgree /\ NoneManaged /\ RequestsAgree
      /\ GivenAgrees /\ EditsAgree /\ JobAgrees /\ UnmarredAgree /\ EffectiveIsCurrent
  BY DEF AdminInv
<1>1. PICK plain: plain = {i \in Integration: row[i].token # NoToken /\ ~row[i].arn}
  OBVIOUS
<1>2. /\ UNCHANGED <<row, secret, pc, ask, during, given>>
      /\ job.pc = "due"
      /\ job' = [job EXCEPT
           !.pc = "running", !.left = plain,
           !.copy = [i \in Integration |-> IF i \in plain THEN row[i] ELSE @[i]]]
      /\ marred' = marred \cup {i \in plain: Serving(i) # {}}
  BY <1>1 DEF MigrateList, requests
<1>3. /\ job'.pc = "running" /\ job'.left = plain /\ job'.stored = {} /\ job.left = {}
      /\ \A i \in plain: job'.copy[i] = row[i]
      /\ job' \in [pc: {"off", "due", "running", "done"}, stored: SUBSET Integration,
                   left: SUBSET Integration, copy: [Integration -> Row]]
  <2>1. job.left = {} /\ job.stored = {}
    BY <1>0, <1>2 DEF JobAgrees
  <2>2. \A i \in Integration: row[i] \in Row /\ job.copy[i] \in Row
    BY <1>0, Shapes DEF IntegrationsTypeOK
  <2> QED
    BY <1>0, <1>1, <1>2, <2>1, <2>2 DEF IntegrationsTypeOK
<1>4. IntegrationsTypeOK'
  BY <1>0, <1>1, <1>2, <1>3 DEF IntegrationsTypeOK
<1>5. RowsAgree' /\ EffectiveIsCurrent' /\ NoneManaged' /\ GivenAgrees'
  BY <1>0, <1>2, <1>3
     DEF RowsAgree, EffectiveIsCurrent, Effective, Present, NoneManaged, Managed, GivenAgrees
<1>6. \A j: Serving(j)' = Serving(j)
  BY <1>2 DEF Serving
<1>7. \A q \in Request: (Editing(q)' <=> Editing(q)) /\ (Deleting(q)' <=> Deleting(q))
  BY <1>2 DEF Editing, Deleting
<1>8. RequestsAgree'
  BY <1>0, <1>2, <1>3, <1>6, <1>7 DEF RequestsAgree, Placed, Managed
<1>9. EditsAgree'
  BY <1>0, <1>2, <1>3, <1>7 DEF EditsAgree, Brought, Managed, Present
<1>10. JobAgrees'
  <2>1. \A i \in plain: \A r \in Serving(i): r \in Request /\ ~Editing(r)
    BY <1>1, <1>2, PlainRowsAlone DEF Serving
  <2>2. \A i \in plain: /\ i \in Integration /\ Present(i) /\ ~row[i].arn
                        /\ row[i].token # NoToken
    BY <1>0, <1>1 DEF RowsAgree
  <2>3. \A r \in Request: Editing(r) => ask[r].op = "create"
    BY <1>0, <1>2 DEF JobAgrees
  <2> QED
    BY <1>2, <1>3, <1>6, <1>7, <2>1, <2>2, <2>3 DEF JobAgrees, Present
<1>11. UnmarredAgree'
  <2> SUFFICES ASSUME NEW j \in Integration, j \notin marred' PROVE Clean(j)'
    BY DEF UnmarredAgree
  <2>1. Clean(j) /\ \A q \in Serving(j): q \in Request
    BY <1>0, <1>2 DEF UnmarredAgree, Serving
  <2>2. j \notin job.stored
    BY <1>0, <1>3 DEF JobAgrees
  <2>3. j \in plain => Serving(j) = {} /\ Present(j)
    BY <1>0, <1>1, <1>2 DEF RowsAgree
  <2> QED
    BY <1>2, <1>3, <1>6, <1>7, <2>1, <2>2, <2>3 DEF Clean, Present
<1> QED
  BY <1>4, <1>5, <1>8, <1>9, <1>10, <1>11 DEF AdminInv

\* The script puts a copy's credential into the secret of its row.
LEMMA StoreKeeps ==
  ASSUME AdminInv, NEW i \in Integration, MigrateStore(i)
  PROVE  AdminInv'
<1>0. /\ IntegrationsTypeOK /\ RowsAgree /\ NoneManaged /\ RequestsAgree
      /\ GivenAgrees /\ EditsAgree /\ JobAgrees /\ UnmarredAgree /\ EffectiveIsCurrent
  BY DEF AdminInv
<1>1. PICK t: t = job.copy[i].token
  OBVIOUS
<1>2. /\ UNCHANGED <<row, pc, ask, during, given, marred>>
      /\ job.pc = "running" /\ i \in job.left /\ job.stored = {}
      /\ secret[i] # "scheduled" /\ secret' = [secret EXCEPT ![i] = t]
      /\ job' = [job EXCEPT !.stored = {i}]
  BY <1>1 DEF MigrateStore, SetSecret, requests, history
<1>3. /\ t \in Given /\ t # NoToken /\ t # "scheduled"
      /\ Present(i) => ~row[i].arn /\ row[i].token = t
      /\ row[i].life # "unused" /\ \A r \in Serving(i): ~Editing(r)
  <2>1. job.copy[i] \in Row
    BY <1>0 DEF IntegrationsTypeOK
  <2>2. t \in Given
    BY <1>1, <2>1 DEF Row
  <2>3. t # NoToken
    BY <1>0, <1>1, <1>2 DEF JobAgrees
  <2> QED
    BY <1>0, <1>1, <1>2, <2>2, <2>3, IntegrationsAssumption DEF JobAgrees, Given
<1>4. /\ secret'[i] = t /\ \A j \in Integration: j # i => secret'[j] = secret[j]
      /\ secret' \in [Integration -> Given \cup {"scheduled"}]
      /\ job'.pc = "running" /\ job'.left = job.left /\ job'.stored = {i}
      /\ job'.copy = job.copy
      /\ job' \in [pc: {"off", "due", "running", "done"}, stored: SUBSET Integration,
                   left: SUBSET Integration, copy: [Integration -> Row]]
  BY <1>0, <1>2, <1>3 DEF IntegrationsTypeOK
<1>5. Present(i) => t \in given[i]
  BY <1>0, <1>3 DEF EffectiveIsCurrent, Effective
<1>6. IntegrationsTypeOK'
  BY <1>0, <1>2, <1>4 DEF IntegrationsTypeOK
<1>7. RowsAgree'
  <2>1. ~row[i].arn
    BY <1>0, <1>3 DEF RowsAgree
  <2> QED
    BY <1>0, <1>2, <1>3, <1>4, <2>1 DEF RowsAgree, Present
<1>8. EffectiveIsCurrent'
  BY <1>0, <1>2, <1>3, <1>4 DEF EffectiveIsCurrent, Effective, Present
<1>9. NoneManaged'
  BY <1>4 DEF NoneManaged, Managed
<1>10. GivenAgrees'
  <2>1. row[i].life # "deleted" => Present(i)
    BY <1>0, <1>3, Shapes DEF Present
  <2>2. \A j \in Integration: row[j].life # "deleted" => secret'[j] \in given[j] \cup {NoToken}
    BY <1>0, <1>4, <1>5, <2>1 DEF GivenAgrees
  <2> QED
    BY <1>0, <1>2, <2>2 DEF GivenAgrees
<1>11. \A j: Serving(j)' = Serving(j)
  BY <1>2 DEF Serving
<1>12. \A q \in Request: (Editing(q)' <=> Editing(q)) /\ (Deleting(q)' <=> Deleting(q))
  BY <1>2 DEF Editing, Deleting
<1>13. RequestsAgree'
  BY <1>0, <1>2, <1>4, <1>11, <1>12 DEF RequestsAgree, Placed, Managed
<1>14. EditsAgree'
  <2> SUFFICES ASSUME NEW q \in Request PROVE Brought(q)'
    BY DEF EditsAgree
  <2>1. Brought(q) /\ ask[q].id \in Integration
    BY <1>0, Shapes DEF EditsAgree
  <2>2. Editing(q) => ask[q].id # i
    BY <1>3 DEF Serving, Editing
  <2> QED
    BY <2>1, <2>2, <1>2, <1>4, <1>12 DEF Brought, Managed, Present, Editing
<1>15. JobAgrees'
  <2>1. \A j: \A q \in Serving(j): q \in Request
    BY DEF Serving
  <2> QED
    BY <1>0, <1>1, <1>2, <1>3, <1>4, <1>11, <1>12, <2>1 DEF JobAgrees, Present
<1>16. UnmarredAgree'
  <2> SUFFICES ASSUME NEW j \in Integration, j \notin marred PROVE Clean(j)'
    BY <1>2 DEF UnmarredAgree
  <2>1. Clean(j) /\ \A q \in Serving(j): q \in Request
    BY <1>0 DEF UnmarredAgree, Serving
  <2> QED
    BY <1>2, <1>4, <1>11, <1>12, <2>1 DEF Clean, Present
<1> QED
  BY <1>6, <1>7, <1>8, <1>9, <1>10, <1>13, <1>14, <1>15, <1>16 DEF AdminInv

\* The script is done with a row: it has named its secret, or a call failed.
LEMMA MigratedKeeps ==
  ASSUME AdminInv, NEW i \in Integration, job.pc = "running", i \in job.left,
         job' = Migrated(i), UNCHANGED <<pc, ask, during, given>>,
         i \in job.stored \/ job.stored = {},
         \/ UNCHANGED <<row, secret>> /\ marred' = marred \cup {i}
         \/ /\ job.stored = {} /\ SetSecret(i, job.copy[i].token)
            /\ UNCHANGED row /\ marred' = marred \cup {i}
         \/ /\ i \in job.stored
            /\ UpdateIntegration(i, NoToken, TRUE, job.copy[i].spaces)
            /\ UNCHANGED secret /\ marred' \in {marred, marred \cup {i}}
  PROVE  AdminInv'
<1>0. /\ IntegrationsTypeOK /\ RowsAgree /\ NoneManaged /\ RequestsAgree
      /\ GivenAgrees /\ EditsAgree /\ JobAgrees /\ UnmarredAgree /\ EffectiveIsCurrent
  BY DEF AdminInv
<1>1. PICK t, spaces: t = job.copy[i].token /\ spaces = job.copy[i].spaces
  OBVIOUS
<1>2. /\ t \in Given /\ t # NoToken /\ t # "scheduled" /\ spaces \subseteq Namespace
      /\ Present(i) => ~row[i].arn /\ row[i].token = t
      /\ row[i].life # "unused" /\ \A r \in Serving(i): ~Editing(r)
      /\ i \in job.stored => secret[i] # NoToken /\ (Present(i) => secret[i] = t)
  <2>1. job.copy[i] \in Row
    BY <1>0 DEF IntegrationsTypeOK
  <2>2. t \in Given /\ spaces \subseteq Namespace
    BY <1>1, <2>1 DEF Row
  <2>3. t # NoToken
    BY <1>0, <1>1 DEF JobAgrees
  <2> QED
    BY <1>0, <1>1, <2>2, <2>3, IntegrationsAssumption DEF JobAgrees, Given
<1>3. Present(i) => t \in given[i]
  BY <1>0, <1>2 DEF EffectiveIsCurrent, Effective
<1>4. /\ job'.pc = "running" /\ job'.left = job.left \ {i} /\ job'.stored = {}
      /\ \A j \in Integration: j # i => job'.copy[j] = job.copy[j]
      /\ job' \in [pc: {"off", "due", "running", "done"}, stored: SUBSET Integration,
                   left: SUBSET Integration, copy: [Integration -> Row]]
  <2>1. /\ Gone("unused") \in Row /\ job.copy \in [Integration -> Row]
        /\ job' = [job EXCEPT !.stored = {}, !.left = @ \ {i}, !.copy[i] = Gone("unused")]
    BY <1>0, Empty DEF IntegrationsTypeOK, Migrated
  <2> DEFINE copy == [job.copy EXCEPT ![i] = Gone("unused")]
  <2>2. copy \in [Integration -> Row] /\ \A j \in Integration: j # i => copy[j] = job.copy[j]
    BY <2>1
  <2>3. job' = [job EXCEPT !.stored = {}, !.left = @ \ {i}, !.copy = copy]
    BY <1>0, <2>1 DEF IntegrationsTypeOK
  <2> HIDE DEF copy
  <2> QED
    BY <1>0, <2>2, <2>3 DEF IntegrationsTypeOK
<1>5. \A j \in job.stored: j = i
  BY <1>0 DEF JobAgrees
\* What became of the row and its secret, and how the failures count.
<1>6. /\ row' \in [Integration -> Row] /\ secret' \in [Integration -> Given \cup {"scheduled"}]
      /\ \A j \in Integration: j # i => row'[j] = row[j] /\ secret'[j] = secret[j]
      /\ row'[i].life = row[i].life
      /\ marred \subseteq marred' /\ marred' \subseteq Integration
      /\ \/ row'[i] = row[i] /\ secret'[i] = secret[i] /\ i \in marred'
         \/ row'[i] = row[i] /\ secret[i] # "scheduled" /\ secret'[i] = t /\ i \in marred'
         \/ /\ ~Present(i) /\ row'[i] = row[i] /\ secret'[i] = secret[i]
         \/ /\ Present(i) /\ i \in job.stored /\ secret'[i] = secret[i]
            /\ row'[i].token = NoToken /\ row'[i].arn = TRUE
  <2>1. row \in [Integration -> Row] /\ secret \in [Integration -> Given \cup {"scheduled"}]
        /\ marred \subseteq Integration
    BY <1>0 DEF IntegrationsTypeOK
  <2>2. CASE UNCHANGED <<row, secret>> /\ marred' = marred \cup {i}
    BY <2>1, <2>2
  <2>3. CASE /\ job.stored = {} /\ SetSecret(i, job.copy[i].token)
             /\ UNCHANGED row /\ marred' = marred \cup {i}
    BY <2>1, <2>3, <1>1, <1>2 DEF SetSecret
  <2>4. CASE /\ i \in job.stored
             /\ UpdateIntegration(i, NoToken, TRUE, job.copy[i].spaces)
             /\ UNCHANGED secret /\ marred' \in {marred, marred \cup {i}}
    <3> DEFINE new == Merged(row[i], NoToken, TRUE, spaces)
    <3>1. row[i] \in Row /\ NoToken \in Given
      BY <2>1 DEF Given
    <3>2. /\ new \in Row /\ new.token = NoToken /\ new.arn = TRUE
          /\ new.life = row[i].life
      BY <3>1, <1>2 DEF Merged, Row
    <3> HIDE DEF new
    <3>3. row' = [row EXCEPT ![i] = IF Present(i) THEN new ELSE row[i]]
      BY <2>1, <2>4, <1>1 DEF UpdateIntegration, Present, new
    <3> QED
      BY <2>1, <2>4, <3>1, <3>2, <3>3
  <2> QED
    BY <2>2, <2>3, <2>4
<1>7. IntegrationsTypeOK'
  BY <1>0, <1>4, <1>6 DEF IntegrationsTypeOK
<1>8. RowsAgree'
  <2> SUFFICES ASSUME NEW j \in Integration
               PROVE  /\ row'[j].life # "present" => row'[j].token = NoToken /\ ~row'[j].arn
                      /\ row'[j].arn => row'[j].token = NoToken /\ secret'[j] # NoToken
                      /\ secret'[j] = "scheduled" => row'[j].life = "deleted"
    BY DEF RowsAgree, Present
  <2>1. CASE j = i
    BY <2>1, <1>0, <1>2, <1>6 DEF RowsAgree, Present
  <2>2. CASE j # i
    BY <2>2, <1>0, <1>6 DEF RowsAgree, Present
  <2> QED
    BY <2>1, <2>2
<1>9. NoneManaged'
  BY <1>4 DEF NoneManaged, Managed
<1>10. EffectiveIsCurrent'
  <2> SUFFICES ASSUME NEW j \in Integration, row'[j].life = "present"
               PROVE  (IF row'[j].arn THEN secret'[j] ELSE row'[j].token) \in given[j]
    BY DEF EffectiveIsCurrent, Present, Effective
  <2>1. CASE j = i
    BY <2>1, <1>2, <1>3, <1>6 DEF Present
  <2>2. CASE j # i
    BY <2>2, <1>0, <1>6 DEF EffectiveIsCurrent, Present, Effective
  <2> QED
    BY <2>1, <2>2
<1>11. GivenAgrees'
  <2>1. row[i].life # "deleted" => Present(i)
    BY <1>0, <1>2, Shapes DEF Present
  <2>2. row[i].life # "deleted" => secret'[i] \in given[i] \cup {NoToken}
    BY <2>1, <1>0, <1>3, <1>6 DEF GivenAgrees
  <2>3. \A j \in Integration: /\ row'[j].life = row[j].life
                              /\ row[j].life # "deleted" => secret'[j] \in given[j] \cup {NoToken}
    BY <2>2, <1>0, <1>6 DEF GivenAgrees
  <2> QED
    BY <1>0, <2>3 DEF GivenAgrees
<1>12. \A j: Serving(j)' = Serving(j)
  BY DEF Serving
<1>13. \A q \in Request: (Editing(q)' <=> Editing(q)) /\ (Deleting(q)' <=> Deleting(q))
  BY DEF Editing, Deleting
<1>14. RequestsAgree'
  <2> SUFFICES ASSUME NEW q \in Request PROVE Placed(q)'
    BY DEF RequestsAgree
  <2>1. Placed(q) /\ ask[q].id \in Integration
    BY <1>0, Shapes DEF RequestsAgree
  <2>2. row'[ask[q].id].life = row[ask[q].id].life
    BY <2>1, <1>6
  <2> QED
    BY <2>1, <2>2, <1>4, <1>12, <1>13 DEF Placed, Managed
<1>15. EditsAgree'
  <2> SUFFICES ASSUME NEW q \in Request PROVE Brought(q)'
    BY DEF EditsAgree
  <2>1. Brought(q) /\ ask[q].id \in Integration
    BY <1>0, Shapes DEF EditsAgree
  <2>2. Editing(q) => ask[q].id # i
    BY <1>2 DEF Serving, Editing
  <2> QED
    BY <2>1, <2>2, <1>4, <1>6, <1>13 DEF Brought, Managed, Present, Editing
<1>16. JobAgrees'
  <2>1. \A j \in job'.left: j # i /\ j \in job.left /\ j \in Integration
    BY <1>0, <1>4 DEF IntegrationsTypeOK
  <2>2. \A j: \A q \in Serving(j): q \in Request
    BY DEF Serving
  <2>3. \A q \in Request: Editing(q) => ask[q].op = "create"
    BY <1>0 DEF JobAgrees
  <2>4. \A j \in job'.left: /\ row'[j] = row[j] /\ job'.copy[j] = job.copy[j]
                            /\ row[j].life # "unused" /\ job.copy[j].token # NoToken
                            /\ Present(j) => ~row[j].arn /\ row[j].token = job.copy[j].token
                            /\ \A q \in Serving(j): ~Editing(q)
    BY <1>0, <1>4, <1>6, <2>1 DEF JobAgrees
  <2> QED
    BY <1>4, <1>12, <1>13, <2>2, <2>3, <2>4 DEF JobAgrees, Present
<1>17. UnmarredAgree'
  <2> SUFFICES ASSUME NEW j \in Integration, j \notin marred' PROVE Clean(j)'
    BY DEF UnmarredAgree
  <2>1. Clean(j) /\ \A q \in Serving(j): q \in Request
    BY <1>0, <1>6 DEF UnmarredAgree, Serving
  <2>2. CASE j # i
    BY <2>1, <2>2, <1>4, <1>5, <1>6, <1>12, <1>13 DEF Clean, Present
  <2>3. CASE j = i
    <3>1. Present(i) /\ row'[i].life = "present" /\ row'[i].arn = TRUE
      BY <2>1, <2>3, <1>6 DEF Clean, Present
    <3>2. \A q \in Serving(i): ~Deleting(q) /\ pc[q] # "drop"
      BY <2>1, <2>3 DEF Clean, Deleting
    <3>3. \A q \in Serving(i): q \in Request /\ ~Deleting(q)' /\ pc'[q] # "drop"
      BY <2>1, <2>3, <3>2, <1>13
    <3>4. Clean(i)'
      BY <3>1, <3>3, <1>4, <1>12 DEF Clean, Present
    <3> QED
      BY <2>3, <3>4
  <2> QED
    BY <2>2, <2>3
<1> QED
  BY <1>7, <1>8, <1>9, <1>10, <1>11, <1>14, <1>15, <1>16, <1>17 DEF AdminInv

\* The script ends, its work done or not.
LEMMA EndsKeeps ==
  ASSUME AdminInv, MigrateEnds
  PROVE  AdminInv'
<1>0. /\ IntegrationsTypeOK /\ RowsAgree /\ NoneManaged /\ RequestsAgree
      /\ GivenAgrees /\ EditsAgree /\ JobAgrees /\ UnmarredAgree /\ EffectiveIsCurrent
  BY DEF AdminInv
<1>1. /\ UNCHANGED <<row, secret, pc, ask, during, given>>
      /\ job.pc = "running" /\ marred' = marred \cup job.stored
      /\ job' = [job EXCEPT !.pc = "done", !.stored = {}, !.left = {},
                            !.copy = [i \in Integration |-> Gone("unused")]]
  BY DEF MigrateEnds, requests
<1>2. /\ job'.pc = "done" /\ job'.left = {} /\ job'.stored = {}
      /\ job' \in [pc: {"off", "due", "running", "done"}, stored: SUBSET Integration,
                   left: SUBSET Integration, copy: [Integration -> Row]]
  BY <1>0, <1>1, Empty DEF IntegrationsTypeOK
<1>3. marred \subseteq marred' /\ marred' \subseteq Integration
  BY <1>0, <1>1 DEF IntegrationsTypeOK
<1>4. IntegrationsTypeOK'
  BY <1>0, <1>1, <1>2, <1>3 DEF IntegrationsTypeOK
<1>5. RowsAgree' /\ EffectiveIsCurrent' /\ NoneManaged' /\ GivenAgrees'
  BY <1>0, <1>1, <1>2
     DEF RowsAgree, EffectiveIsCurrent, Effective, Present, NoneManaged, Managed, GivenAgrees
<1>6. \A j: Serving(j)' = Serving(j)
  BY <1>1 DEF Serving
<1>7. \A q \in Request: (Editing(q)' <=> Editing(q)) /\ (Deleting(q)' <=> Deleting(q))
  BY <1>1 DEF Editing, Deleting
<1>8. RequestsAgree'
  BY <1>0, <1>1, <1>2, <1>6, <1>7 DEF RequestsAgree, Placed, Managed
<1>9. EditsAgree'
  BY <1>0, <1>1, <1>2, <1>7 DEF EditsAgree, Brought, Managed, Present
<1>10. JobAgrees'
  BY <1>2 DEF JobAgrees
<1>11. UnmarredAgree'
  <2> SUFFICES ASSUME NEW j \in Integration, j \notin marred' PROVE Clean(j)'
    BY DEF UnmarredAgree
  <2>1. Clean(j) /\ j \notin job.stored /\ \A q \in Serving(j): q \in Request
    BY <1>0, <1>1 DEF UnmarredAgree, Serving
  <2> QED
    BY <1>1, <1>2, <1>6, <1>7, <2>1 DEF Clean, Present
<1> QED
  BY <1>4, <1>5, <1>8, <1>9, <1>10, <1>11 DEF AdminInv

(***************************************************************************)
(* The invariant, and what it is for                                       *)
(***************************************************************************)

LEMMA AdminStart == IntegrationsInit => AdminInv
<1> SUFFICES ASSUME IntegrationsInit PROVE AdminInv
  OBVIOUS
<1>1. PICK used: used = budget.registered
  OBVIOUS
<1>2. PICK first: first = [Gone("present") EXCEPT !.token = CHOOSE t \in Token: TRUE]
  OBVIOUS
<1>3. (CHOOSE t \in Token: TRUE) \in Token
  BY IntegrationsAssumption
<1>4. /\ first \in Row /\ first.life = "present" /\ first.token \in Token /\ first.arn = FALSE
      /\ Gone("unused") \in Row /\ Gone("unused").life = "unused"
      /\ Gone("unused").token = NoToken /\ Gone("unused").arn = FALSE
  BY <1>2, <1>3 DEF Gone, Row, Given
<1>5. row = [i \in Integration |-> IF i \in used THEN first ELSE Gone("unused")]
  BY <1>1, <1>2 DEF IntegrationsInit
<1>6. /\ row \in [Integration -> Row]
      /\ \A i \in Integration: /\ row[i].life \in {"present", "unused"} /\ row[i].arn = FALSE
                               /\ row[i].life = "unused" => row[i].token = NoToken
  BY <1>4, <1>5
<1>7. /\ secret = [i \in Integration |-> NoToken]
      /\ job = [pc |-> "off", stored |-> {}, left |-> {},
                copy |-> [i \in Integration |-> Gone("unused")]]
      /\ pc = [r \in Request |-> "idle"] /\ ask = [r \in Request |-> NoForm]
      /\ given = [i \in Integration |-> {row[i].token}]
      /\ during = [r \in Request |-> {}] /\ marred = {}
  BY DEF IntegrationsInit
<1>8. /\ job.pc = "off" /\ job.stored = {} /\ job.left = {}
      /\ \A i \in Integration: secret[i] = NoToken /\ given[i] = {row[i].token}
      /\ \A r \in Request: pc[r] = "idle" /\ ask[r] = NoForm /\ during[r] = {}
  BY <1>7
<1>9. IntegrationsTypeOK
  <2>1. \A i \in Integration: {row[i].token} \in SUBSET Given
    BY <1>6 DEF Row
  <2>2. NoForm \in Form /\ NoToken \in Given
    BY Empty DEF Given
  <2> QED
    BY <1>4, <1>6, <1>7, <2>1, <2>2 DEF IntegrationsTypeOK
<1>10. RowsAgree /\ EffectiveIsCurrent
  BY <1>6, <1>8, IntegrationsAssumption DEF RowsAgree, EffectiveIsCurrent, Effective, Present
<1>11. NoneManaged
  BY <1>6, <1>8, Empty DEF NoneManaged, Managed
<1>12. RequestsAgree /\ EditsAgree
  BY <1>8 DEF RequestsAgree, Placed, Deleting, EditsAgree, Brought, Editing
<1>13. GivenAgrees
  BY <1>6, <1>8 DEF GivenAgrees
<1>14. JobAgrees
  BY <1>8 DEF JobAgrees
<1>15. UnmarredAgree
  BY <1>8, IntegrationsAssumption DEF UnmarredAgree, Clean, Serving
<1> QED
  BY <1>9, <1>10, <1>11, <1>12, <1>13, <1>14, <1>15 DEF AdminInv

\* A call of a request fails.
LEMMA FailKeeps ==
  ASSUME AdminInv, NEW r \in Request, RequestFails(r)
  PROVE  AdminInv'
<1>1. /\ pc[r] # "idle" /\ UNCHANGED <<job, given>>
      /\ marred' = marred \cup {ask[r].id}
  BY DEF RequestFails
<1>2. CASE UNCHANGED <<row, secret>>
  <2>1. CASE pc[r] = "lookup"
    BY <1>1, <1>2, <2>1, PassKeeps DEF RequestFails
  <2>2. CASE pc[r] # "lookup"
    BY <1>1, <1>2, <2>2, LeaveKeeps DEF RequestFails
  <2> QED
    BY <2>1, <2>2
<1>3. CASE Effect(r)
  <2>1. Finish(r)
    BY <1>3 DEF RequestFails, Effect
  <2>2. CASE /\ pc[r] \in {"store", "put"}
             /\ SetSecret(ask[r].id, ask[r].token) /\ UNCHANGED row
    BY <1>1, <2>1, <2>2, SecretPutKeeps
  <2>3. CASE pc[r] = "row" /\ RowEffect(r) /\ UNCHANGED secret
    BY <1>1, <2>1, <2>3, RowWriteKeeps
  <2>4. CASE pc[r] = "drop" /\ DeleteIntegration(ask[r].id) /\ UNCHANGED secret
    BY <1>1, <2>1, <2>4, RowDropKeeps
  <2>5. CASE pc[r] = "unsecret" /\ DeleteSecret(ask[r].id) /\ UNCHANGED row
    BY <1>1, <2>1, <2>5, SecretDropKeeps
  <2> QED
    BY <1>3, <2>2, <2>3, <2>4, <2>5 DEF Effect
<1> QED
  BY <1>2, <1>3 DEF RequestFails

\* A request takes its next step.
LEMMA RequestKeeps ==
  ASSUME AdminInv, NEW r \in Request, RequestStep(r)
  PROVE  AdminInv'
<1>0. secret[ask[r].id] \in Given \cup {"scheduled"} /\ IntegrationsTypeOK
  BY Shapes DEF AdminInv
<1>1. CASE StoreSecret(r)
  <2>1. pc[r] = "store" /\ UNCHANGED <<row, job, given, marred>>
    BY <1>1 DEF StoreSecret, history
  <2>2. CASE /\ SetSecret(ask[r].id, ask[r].token) /\ Goto(r, "row")
             /\ ask' = [ask EXCEPT ![r].arn = TRUE] /\ UNCHANGED during
    BY <2>1, <2>2, SecretPutKeeps
  <2>3. CASE Goto(r, "put") /\ UNCHANGED <<secret, ask, during>>
    BY <2>1, <2>3, PassKeeps
  <2>4. CASE Finish(r) /\ UNCHANGED secret
    BY <2>1, <2>4, LeaveKeeps
  <2> QED
    BY <1>1, <2>2, <2>3, <2>4 DEF StoreSecret
<1>2. CASE PutSecret(r)
  <2>1. pc[r] = "put" /\ UNCHANGED <<row, job, given, marred>>
    BY <1>2 DEF PutSecret, history
  <2>2. CASE /\ SetSecret(ask[r].id, ask[r].token) /\ Goto(r, "row")
             /\ ask' = [ask EXCEPT ![r].arn = TRUE] /\ UNCHANGED during
    BY <2>1, <2>2, SecretPutKeeps
  <2>3. CASE Finish(r) /\ UNCHANGED secret
    BY <2>1, <2>3, LeaveKeeps
  <2> QED
    BY <1>2, <2>2, <2>3 DEF PutSecret
<1>3. CASE WriteRow(r)
  BY <1>3, RowWriteKeeps DEF WriteRow, history
<1>4. CASE Reread(r)
  BY <1>4, RereadKeeps
<1>5. CASE LookUp(r)
  BY <1>5, PassKeeps DEF LookUp, history
<1>6. CASE DropRow(r)
  <2>1. pc[r] = "drop" /\ DeleteIntegration(ask[r].id) /\ UNCHANGED <<secret, job, given, marred>>
    BY <1>6 DEF DropRow, history
  <2>2. CASE ask[r].arn
    BY <1>6, <2>1, <2>2, RowDropKeeps DEF DropRow
  <2>3. CASE ~ask[r].arn
    BY <1>6, <2>1, <2>3, RowDropKeeps DEF DropRow
  <2> QED
    BY <2>2, <2>3
<1>7. CASE DropSecret(r)
  BY <1>7, SecretDropKeeps DEF DropSecret, history
<1> QED
  BY <1>1, <1>2, <1>3, <1>4, <1>5, <1>6, <1>7 DEF RequestStep

\* The script takes its next step with a row, or fails with it.
LEMMA MigrationKeeps ==
  ASSUME AdminInv, NEW i \in Integration,
         MigrateStore(i) \/ MigrateRow(i) \/ MigrateFails(i)
  PROVE  AdminInv'
<1>1. CASE MigrateStore(i)
  BY <1>1, StoreKeeps
<1>2. CASE MigrateRow(i)
  <2>1. i \in job.left /\ job.pc = "running"
    BY <1>2 DEF AdminInv, JobAgrees, MigrateRow
  <2> QED
    BY <1>2, <2>1, MigratedKeeps DEF MigrateRow, requests, history
<1>3. CASE MigrateFails(i)
  <2>1. /\ job.pc = "running" /\ i \in job.left /\ job' = Migrated(i)
        /\ UNCHANGED <<pc, ask, during, given>> /\ marred' = marred \cup {i}
        /\ i \in job.stored \/ job.stored = {}
    BY <1>3 DEF MigrateFails, requests
  <2> QED
    BY <1>3, <2>1, MigratedKeeps DEF MigrateFails
<1> QED
  BY <1>1, <1>2, <1>3

LEMMA AdminStep == AdminInv /\ [AdminNext]_adminVars => AdminInv'
<1> SUFFICES ASSUME AdminInv, [AdminNext]_adminVars PROVE AdminInv'
  OBVIOUS
<1>1. ASSUME NEW r \in Request, NEW op \in {"create", "update", "delete"},
             NEW i \in Integration, NEW t \in Given, Begin(r, op, i, t)
      PROVE  AdminInv'
  BY <1>1, BeginKeeps
<1>2. ASSUME NEW r \in Request, RequestStep(r) PROVE AdminInv'
  BY <1>2, RequestKeeps
<1>3. ASSUME NEW r \in Request, RequestFails(r) PROVE AdminInv'
  BY <1>3, FailKeeps
<1>4. CASE Cutover
  BY <1>4, CutoverKeeps
<1>5. CASE MigrateList
  BY <1>5, ListKeeps
<1>6. CASE MigrateEnds
  BY <1>6, EndsKeeps
<1>7. ASSUME NEW i \in Integration, MigrateStore(i) \/ MigrateRow(i) \/ MigrateFails(i)
      PROVE  AdminInv'
  BY <1>7, MigrationKeeps
<1>8. CASE UNCHANGED adminVars
  BY <1>8 DEF adminVars, requests, history, AdminInv, IntegrationsTypeOK, RowsAgree,
     NoneManaged, Managed, RequestsAgree, Placed, Deleting, Serving, GivenAgrees, EditsAgree,
     Brought, Editing, JobAgrees, UnmarredAgree, Clean, Present, EffectiveIsCurrent, Effective
<1> QED
  BY <1>1, <1>2, <1>3, <1>4, <1>5, <1>6, <1>7, <1>8 DEF AdminNext

\* What the invariant says of secrets is what SecretsAreOwned says of them.
LEMMA OwnedByInvariant == AdminInv => SecretsAreOwned
<1> SUFFICES ASSUME AdminInv, NEW i \in Integration
             PROVE  /\ Present(i) /\ row[i].arn => secret[i] \in Token /\ row[i].token = NoToken
                    /\ Settled(i) /\ i \notin marred /\ secret[i] \in Token
                         => Present(i) /\ row[i].arn
  BY DEF SecretsAreOwned
<1>1. /\ secret[i] \in Token \cup {NoToken, "scheduled"}
      /\ RowsAgree /\ JobAgrees /\ UnmarredAgree
  BY Shapes DEF AdminInv, Given
<1>2. Present(i) /\ row[i].arn => secret[i] \in Token /\ row[i].token = NoToken
  BY <1>1 DEF RowsAgree, Present
<1>3. Settled(i) /\ i \notin marred /\ secret[i] \in Token => row[i].arn
  BY <1>1 DEF UnmarredAgree, Clean, Settled, JobAgrees
<1>4. row[i].arn => Present(i)
  BY <1>1 DEF RowsAgree
<1> QED
  BY <1>2, <1>3, <1>4

\* The invariant of the registrations, their secrets and the migration.
THEOREM AdminInvariant == AdminSpec => []AdminInv
<1>1. IntegrationsInit => AdminInv
  BY AdminStart
<1>2. AdminInv /\ [AdminNext]_adminVars => AdminInv'
  BY AdminStep
<1> QED
  BY <1>1, <1>2, PTL DEF AdminSpec

=============================================================================
