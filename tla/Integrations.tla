---------------------------- MODULE Integrations ----------------------------
(***************************************************************************)
(* The clusters an administrator has registered: the integrations table,   *)
(* the admin handlers that create, update and delete its rows, the         *)
(* credential each row holds -- in the row, or in a secret of AWS Secrets  *)
(* Manager that the row names -- and the one-time script that moves the    *)
(* credentials from the former to the latter (ADR 0025).                   *)
(*                                                                         *)
(* A row and its secret live in two systems.  Every statement and every    *)
(* call to AWS is a step of its own: any of them may fail, and other       *)
(* requests about the same row run in between.                             *)
(***************************************************************************)
EXTENDS Naturals

CONSTANTS
  Integration,  \* ids of integrations: uuids, never used twice
  Namespace,    \* namespaces of the clusters
  Token,        \* outbound adapter credentials
  NoToken,      \* the empty string: no credential, or none given
  Request,      \* admin requests that may be served at the same time
  Budgets       \* how much may happen: one of these is drawn at the start

ASSUME IntegrationsAssumption ==
  /\ Integration # {} /\ Token # {} /\ Budgets # {}
  /\ NoToken \notin Token /\ "scheduled" \notin Token \cup {NoToken}

VARIABLES
  row,     \* row[i]: the row of the integrations table
  secret,  \* secret[i]: the value of the secret {prefix}/{i}
  job,     \* the rollout of Secrets Manager and its migration script
  pc,      \* pc[r]: the next step of request r
  ask,     \* ask[r]: what r asks, and whether it has come by an ARN
  budget,  \* what may still happen, by kind
  given,   \* given[i]: the credentials i may legitimately have (history)
  during,  \* during[r]: the credentials given to r's row while r ran (history)
  marred   \* the integrations a failure or a racing delete has hit (history)

Given == Token \cup {NoToken}

\* token_secret_arn is empty or the ARN of {prefix}/{i}: it is TRUE or FALSE.
Row == [life: {"unused", "present", "deleted"}, token: Given, arn: BOOLEAN,
        spaces: SUBSET Namespace]

Gone(life) == [life |-> life, token |-> NoToken, arn |-> FALSE, spaces |-> {}]

Form == [op: {"none", "create", "update", "delete"}, id: Integration,
         token: Given, arn: BOOLEAN]

NoForm == [op |-> "none", id |-> CHOOSE i \in Integration: TRUE,
           token |-> NoToken, arn |-> FALSE]

requests == <<pc, ask, during>>
history  == <<given, marred>>
adminVars == <<row, secret, job, requests, budget, history>>

Present(i) == row[i].life = "present"

IntegrationsTypeOK ==
  /\ row \in [Integration -> Row]
  /\ secret \in [Integration -> Given \cup {"scheduled"}]
  /\ job \in [pc: {"off", "due", "running", "done"}, stored: SUBSET Integration,
              left: SUBSET Integration, copy: [Integration -> Row]]
  /\ pc \in [Request -> {"idle", "store", "put", "row", "reread", "lookup",
                         "drop", "unsecret"}]
  /\ ask \in [Request -> Form]
  /\ given \in [Integration -> SUBSET Given]
  /\ during \in [Request -> SUBSET Given]
  /\ marred \subseteq Integration

\* A deployment from before Secrets Manager, with some integrations in use (on
\* one credential, say: what matters is how it differs from later ones).
IntegrationsInit ==
  /\ budget \in Budgets
  /\ row = [i \in Integration |->
       IF i \in budget.registered
         THEN [Gone("present") EXCEPT !.token = CHOOSE t \in Token: TRUE]
         ELSE Gone("unused")]
  /\ secret = [i \in Integration |-> NoToken]
  /\ job = [pc |-> "off", stored |-> {}, left |-> {},
            copy |-> [i \in Integration |-> Gone("unused")]]
  /\ pc = [r \in Request |-> "idle"]
  /\ ask = [r \in Request |-> NoForm]
  /\ given = [i \in Integration |-> {row[i].token}]
  /\ during = [r \in Request |-> {}]
  /\ marred = {}

\* INTEGRATION_SECRETS_PREFIX is set, and h.secretsManager with it.
Managed == job.pc # "off"

Spend(kind) == budget[kind] > 0 /\ budget' = [budget EXCEPT ![kind] = @ - 1]

\* The requests about i that are being served.
Serving(i) == {r \in Request: pc[r] # "idle" /\ ask[r].id = i}

Goto(r, step) == pc' = [pc EXCEPT ![r] = step]

Finish(r) ==
  /\ Goto(r, "idle")
  /\ ask' = [ask EXCEPT ![r] = NoForm]
  /\ during' = [during EXCEPT ![r] = {}]

(***************************************************************************)
(* What the calls do                                                       *)
(***************************************************************************)

\* Variant: an empty token is written like any other.
Merged_Overwrite(old, token, arn, spaces) ==
  [old EXCEPT !.token = IF arn THEN NoToken ELSE token,
              !.arn = arn, !.spaces = spaces]

\* UpdateIntegration's SET clause: whichever of the token and the ARN is given
\* clears the other, and neither given keeps both.
Merged(old, token, arn, spaces) ==
  [old EXCEPT
     !.token = IF arn THEN NoToken ELSE IF token = NoToken THEN @ ELSE token,
     !.arn = IF token # NoToken THEN FALSE ELSE arn \/ @,
     !.spaces = spaces]

UpdateIntegration(i, token, arn, spaces) ==
  row' = [row EXCEPT ![i] = IF @.life = "present"
                              THEN Merged(@, token, arn, spaces) ELSE @]

CreateIntegration(i, token, arn) ==
  row' = [row EXCEPT ![i] = [life |-> "present", token |-> token, arn |-> arn,
                             spaces |-> {}]]

DeleteIntegration(i) ==
  row' = [row EXCEPT ![i] = IF @.life = "present" THEN Gone("deleted") ELSE @]

\* External, AWS Secrets Manager: a secret can be given a value unless its
\* deletion is scheduled, which DeleteSecret does.
SetSecret(i, t) == secret[i] # "scheduled" /\ secret' = [secret EXCEPT ![i] = t]

DeleteSecret(i) == secret' = [secret EXCEPT ![i] = "scheduled"]

(***************************************************************************)
(* The admin handlers                                                      *)
(***************************************************************************)

Unused == {j \in Integration: row[j].life = "unused" /\ Serving(j) = {}}

\* An integration is created under a fresh id, whichever.  An update or a delete may be
\* of an integration another request has deleted.  ADR 0025 keeps updates away
\* between the cutover to Secrets Manager and the end of the migration.
MayBegin(op, i, t) ==
  \/ op = "create" /\ Unused # {} /\ i = CHOOSE j \in Unused: TRUE
  \/ op = "update" /\ row[i].life # "unused" /\ job.pc \in {"off", "done"}
  \/ op = "delete" /\ row[i].life # "unused" /\ t = NoToken

FirstStep(op, t) ==
  IF op = "delete" THEN IF Managed THEN "lookup" ELSE "drop"
                   ELSE IF Managed /\ t # NoToken THEN "store" ELSE "row"

Begin(r, op, i, t) ==
  /\ pc[r] = "idle"
  /\ MayBegin(op, i, t)
  /\ Spend("admin")
  /\ Goto(r, FirstStep(op, t))
  /\ ask' = [ask EXCEPT ![r] = [op |-> op, id |-> i, token |-> t, arn |-> FALSE]]
  /\ given' = [given EXCEPT ![i] = IF t = NoToken THEN @ ELSE @ \cup {t}]
  /\ during' = [q \in Request |->
       IF q = r THEN {ask[s].token: s \in Serving(i)} \ {NoToken}
                ELSE IF q \in Serving(i) /\ t # NoToken THEN during[q] \cup {t}
                                                       ELSE during[q]]
  /\ marred' = IF \/ op = "update" /\ ~Present(i)
                  \/ op = "delete" /\ (Serving(i) # {} \/ i \in job.left)
                  \/ \E q \in Serving(i): ask[q].op = "delete"
                 THEN marred \cup {i} ELSE marred
  /\ UNCHANGED <<row, secret, job>>

\* Variant: Store returns the ARN of a secret it finds, as it is.
StoreSecret_KeepsOld(r) ==
  LET i == ask[r].id IN
  /\ pc[r] = "store"
  /\ secret' = [secret EXCEPT ![i] = IF @ = NoToken THEN ask[r].token ELSE @]
  /\ Goto(r, "row")
  /\ ask' = [ask EXCEPT ![r].arn = TRUE]
  /\ UNCHANGED <<row, job, during, budget, history>>

\* Manager.Store: CreateSecret, and PutSecretValue of a secret that exists.
StoreSecret(r) ==
  LET i == ask[r].id IN
  /\ pc[r] = "store"
  /\ \/ /\ secret[i] = NoToken
        /\ SetSecret(i, ask[r].token)
        /\ Goto(r, "row")
        /\ ask' = [ask EXCEPT ![r].arn = TRUE]
        /\ UNCHANGED during
     \/ /\ secret[i] \in Token
        /\ Goto(r, "put")
        /\ UNCHANGED <<secret, ask, during>>
     \/ secret[i] = "scheduled" /\ Finish(r) /\ UNCHANGED secret
  /\ UNCHANGED <<row, job, budget, history>>

PutSecret(r) ==
  LET i == ask[r].id IN
  /\ pc[r] = "put"
  /\ \/ /\ SetSecret(i, ask[r].token)
        /\ Goto(r, "row")
        /\ ask' = [ask EXCEPT ![r].arn = TRUE]
        /\ UNCHANGED during
     \/ secret[i] = "scheduled" /\ Finish(r) /\ UNCHANGED secret
  /\ UNCHANGED <<row, job, budget, history>>

\* The credential goes into the row itself unless a secret holds it.
RowEffect(r) ==
  LET i == ask[r].id
      plain == IF ask[r].arn THEN NoToken ELSE ask[r].token
  IN IF ask[r].op = "create" THEN CreateIntegration(i, plain, ask[r].arn)
                             ELSE UpdateIntegration(i, plain, ask[r].arn, {})

WriteRow(r) ==
  /\ pc[r] = "row"
  /\ RowEffect(r)
  /\ Goto(r, "reread")
  /\ UNCHANGED <<secret, job, ask, during, budget, history>>

\* GetIntegration for the answer.  A row that is not there is a 500; otherwise
\* the edit is acknowledged, and what was given before it is superseded.
Reread(r) ==
  LET i == ask[r].id IN
  /\ pc[r] = "reread"
  /\ given' = [given EXCEPT ![i] =
                 IF Present(i) /\ ask[r].token # NoToken
                   THEN {ask[r].token} \cup during[r] ELSE @]
  /\ Finish(r)
  /\ UNCHANGED <<row, secret, job, budget, marred>>

\* Variant: the row is deleted first, and looked up after.
LookUp_Late(r) ==
  /\ pc[r] = "lookup"
  /\ DeleteIntegration(ask[r].id)
  /\ Goto(r, "drop")
  /\ UNCHANGED <<secret, job, ask, during, budget, history>>

\* HandleIntegrationDelete: which secret the row names, if it can be read ...
LookUp(r) ==
  /\ pc[r] = "lookup"
  /\ ask' = [ask EXCEPT ![r].arn = row[ask[r].id].arn]
  /\ Goto(r, "drop")
  /\ UNCHANGED <<row, secret, job, during, budget, history>>

\* Variant: the secret goes before the row does.
DropRow_SecretFirst(r) ==
  /\ pc[r] = "drop"
  /\ IF ask[r].arn
       THEN /\ DeleteSecret(ask[r].id)
            /\ ask' = [ask EXCEPT ![r].arn = FALSE]
            /\ UNCHANGED <<row, pc, during>>
       ELSE DeleteIntegration(ask[r].id) /\ Finish(r) /\ UNCHANGED secret
  /\ UNCHANGED <<job, budget, history>>

\* ... then the row ...
DropRow(r) ==
  /\ pc[r] = "drop"
  /\ DeleteIntegration(ask[r].id)
  /\ IF ask[r].arn THEN Goto(r, "unsecret") /\ UNCHANGED <<ask, during>>
                   ELSE Finish(r)
  /\ UNCHANGED <<secret, job, budget, history>>

\* ... and then the secret.
DropSecret(r) ==
  /\ pc[r] = "unsecret"
  /\ DeleteSecret(ask[r].id)
  /\ Finish(r)
  /\ UNCHANGED <<row, job, budget, history>>

\* What the step r is at does, if it does it and its reply is lost.
Effect(r) ==
  LET i == ask[r].id IN
  \/ /\ pc[r] \in {"store", "put"}
     /\ (pc[r] = "store") => secret[i] = NoToken
     /\ SetSecret(i, ask[r].token)
     /\ UNCHANGED row
  \/ pc[r] = "row" /\ RowEffect(r) /\ UNCHANGED secret
  \/ pc[r] = "drop" /\ DeleteIntegration(i) /\ UNCHANGED secret
  \/ pc[r] = "unsecret" /\ DeleteSecret(i) /\ UNCHANGED row

\* A call fails, with its effect or without, and the answer is a 500.  A
\* delete that cannot read the row goes on without an ARN.
RequestFails(r) ==
  /\ pc[r] # "idle"
  /\ Spend("fault")
  /\ Effect(r) \/ UNCHANGED <<row, secret>>
  /\ IF pc[r] = "lookup" THEN Goto(r, "drop") /\ UNCHANGED <<ask, during>>
                         ELSE Finish(r)
  /\ marred' = marred \cup {ask[r].id}
  /\ UNCHANGED <<job, given>>

(***************************************************************************)
(* The rollout of Secrets Manager: cmd/migrate-integration-tokens          *)
(***************************************************************************)

\* The hub restarts with INTEGRATION_SECRETS_PREFIX, between two requests.
Cutover ==
  /\ job.pc = "off"
  /\ Spend("rollout")
  /\ \A r \in Request: pc[r] = "idle"
  /\ job' = [job EXCEPT !.pc = "due"]
  /\ UNCHANGED <<row, secret, requests, history>>

\* The script lists the rows once, and works on its copies.
MigrateList ==
  LET plain == {i \in Integration: row[i].token # NoToken /\ ~row[i].arn} IN
  /\ job.pc = "due"
  /\ job' = [job EXCEPT
       !.pc = "running", !.left = plain,
       !.copy = [i \in Integration |-> IF i \in plain THEN row[i] ELSE @[i]]]
  /\ marred' = marred \cup {i \in plain: Serving(i) # {}}
  /\ UNCHANGED <<row, secret, requests, budget, given>>

MigrateStore(i) ==
  /\ job.pc = "running" /\ i \in job.left /\ job.stored = {}
  /\ SetSecret(i, job.copy[i].token)
  /\ job' = [job EXCEPT !.stored = {i}]
  /\ UNCHANGED <<row, requests, budget, history>>

Migrated(i) ==
  [job EXCEPT !.stored = {}, !.left = @ \ {i}, !.copy[i] = Gone("unused")]

\* Variant: the copy's token is written back along with the ARN.
MigrateRow_KeepsToken(i) ==
  /\ i \in job.stored
  /\ row' = [row EXCEPT ![i].arn = @ \/ Present(i)]
  /\ job' = Migrated(i)
  /\ UNCHANGED <<secret, requests, budget, history>>

\* The whole row is written back, its namespaces as they were when listed.
MigrateRow(i) ==
  /\ i \in job.stored
  /\ UpdateIntegration(i, NoToken, TRUE, job.copy[i].spaces)
  /\ job' = Migrated(i)
  /\ UNCHANGED <<secret, requests, budget, history>>

\* A call fails, with its effect or without: the script goes on to the next.
MigrateFails(i) ==
  /\ job.pc = "running" /\ i \in job.left
  /\ Spend("fault")
  /\ \/ UNCHANGED <<row, secret>>
     \/ job.stored = {} /\ SetSecret(i, job.copy[i].token) /\ UNCHANGED row
     \/ /\ i \in job.stored
        /\ UpdateIntegration(i, NoToken, TRUE, job.copy[i].spaces)
        /\ UNCHANGED secret
  /\ i \in job.stored \/ job.stored = {}
  /\ job' = Migrated(i)
  /\ marred' = marred \cup {i}
  /\ UNCHANGED <<requests, given>>

\* Every row has had its turn, or the 30s are over.
MigrateEnds ==
  /\ job.pc = "running"
  /\ \/ job.left = {} /\ UNCHANGED budget
     \/ Spend("fault")
  /\ job' = [job EXCEPT !.pc = "done", !.stored = {}, !.left = {},
                        !.copy = [i \in Integration |-> Gone("unused")]]
  /\ marred' = marred \cup job.stored
  /\ UNCHANGED <<row, secret, requests, given>>

(***************************************************************************)
(* Specification                                                           *)
(***************************************************************************)

RequestStep(r) ==
  \/ StoreSecret(r) \/ PutSecret(r) \/ WriteRow(r) \/ Reread(r)
  \/ LookUp(r) \/ DropRow(r) \/ DropSecret(r)

AdminNext ==
  \/ \E r \in Request:
       \/ \E op \in {"create", "update", "delete"}, i \in Integration, t \in Given:
            Begin(r, op, i, t)
       \/ RequestStep(r) \/ RequestFails(r)
  \/ Cutover \/ MigrateList \/ MigrateEnds
  \/ \E i \in Integration: MigrateStore(i) \/ MigrateRow(i) \/ MigrateFails(i)

AdminSpec == IntegrationsInit /\ [][AdminNext]_adminVars

(***************************************************************************)
(* Properties                                                              *)
(***************************************************************************)

\* The credential a row stands for.
Effective(i) == IF row[i].arn THEN secret[i] ELSE row[i].token

\* The credential in effect is one that was given to this integration, by its
\* last acknowledged edit or by one that ran alongside it or since: no edit,
\* delete or migration that races or fails loses it, mixes it up with another
\* row's, or brings an older one back (ADR 0025: never a stale plaintext token
\* alongside a live secret reference).
EffectiveIsCurrent ==
  \A i \in Integration: Present(i) => Effective(i) \in given[i]

\* Nobody is at work on i's credential.
Settled(i) == Serving(i) = {} /\ i \notin job.left

\* A row never names a secret that is not there, and never holds a plaintext
\* token besides; and a secret outlives its row only where a call failed, or
\* where a delete raced another request or the migration (the handler deletes
\* best-effort, the row first).
SecretsAreOwned ==
  \A i \in Integration:
    /\ Present(i) /\ row[i].arn => secret[i] \in Token /\ row[i].token = NoToken
    /\ Settled(i) /\ i \notin marred /\ secret[i] \in Token
         => Present(i) /\ row[i].arn
=============================================================================
