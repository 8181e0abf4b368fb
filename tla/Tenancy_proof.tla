---------------------------- MODULE Tenancy_proof ----------------------------
(***************************************************************************)
(* Proofs about the tenants of main.py, for any organizations, plans and   *)
(* number of requests served at the same time.                             *)
(***************************************************************************)
EXTENDS Tenancy, FiniteSetTheorems, TLAPS

USE DEF rows, threads, billing, history

(* Threads *)

\* What a thread works on is what the rows allow it to work on: the owner, the key, the hook
\* or the message of a request in progress is there, or has been.
Fits(t) ==
  /\ task[t].op \in {"createHook", "createKey"} => task[t].org \in Orgs
  /\ task[t].op = "deleteHook" => task[t].item \in Hooks /\ hookOrg[task[t].item] # None
  /\ task[t].op = "revokeKey" => task[t].item \in KeyRows
  /\ task[t].op \in {"approve", "deleteMessage"} =>
       task[t].item \in Messages /\ msgStatus[task[t].item] # None
  /\ task[t].op = "register" => task[t].item \in Names /\ task[t].content \in Passwords
  /\ task[t].op = "signal" => task[t].content \in Bundles
  /\ step[t] = "auth" => task[t].op \in {"post", "signal"}
  /\ task[t].op \in {"post", "signal"} /\ step[t] \in {"auth", "insert"} =>
       task[t].item \in KeyRows
  /\ task[t].op \in {"post", "signal"} /\ step[t] = "insert" =>
       task[t].org = keyOrg[task[t].item]
  /\ At(t, "post", "hooks") =>
       /\ task[t].item \in Messages /\ msgStatus[task[t].item] # None
       /\ task[t].org \in Orgs /\ msgOrg[task[t].item] = task[t].org
  /\ step[t] = "reread" =>
       task[t].op = "approve" /\ msgStatus[task[t].item] \in {"approved", "deleted"}

Fit == \A t \in Threads : Fits(t)

\* A step of one thread moves no other.
Elsewhere(t) == \A u \in Threads \ {t} : step'[u] = step[u] /\ task'[u] = task[u]

\* A thread is let through to its INSERT by the count of the hooks, or by a key not revoked.
Enters(t) ==
  step'[t] = "insert" =>
    /\ task'[t].op = "createHook" =>
         /\ At(t, "createHook", "count") /\ task'[t] = task[t]
         /\ ~(Cardinality(HooksOf(task[t].org)) >= task[t].limit)
    /\ task'[t].op \in {"post", "signal"} =>
         /\ step[t] = "auth" /\ task[t].item \notin revoked
         /\ task'[t].item = task[t].item /\ task'[t].op = task[t].op

ThreadTypes == step \in [Threads -> Steps] /\ task \in [Threads -> Tasks]

\* Where a thread is after it has gone on to its next statement.
LEMMA Proceeding ==
  ASSUME ThreadTypes, NEW t \in Threads, NEW s \in Steps, NEW w \in Tasks, Proceed(t, s, w)
  PROVE  /\ ThreadTypes' /\ Elsewhere(t) /\ answers' = answers
         /\ step'[t] = s /\ task'[t] = w
BY DEF ThreadTypes, Proceed, Goto, Elsewhere

\* The same, when it works on what it did.
LEMMA Continuing ==
  ASSUME ThreadTypes, NEW t \in Threads, NEW s \in Steps, Continue(t, s)
  PROVE  /\ ThreadTypes' /\ Elsewhere(t) /\ answers' = answers
         /\ step'[t] = s /\ task'[t] = task[t]
<1>1. task[t] \in Tasks BY DEF ThreadTypes
<1>2. Proceed(t, s, task[t]) BY DEF Continue
<1> QED BY <1>1, <1>2, Proceeding

\* Where a thread is after its request.
LEMMA Leaving ==
  ASSUME ThreadTypes, NEW t \in Threads, Leave(t)
  PROVE  /\ ThreadTypes' /\ Elsewhere(t)
         /\ step'[t] = "idle" /\ task'[t] = Nothing
<1>1. Nothing \in Tasks BY DEF Nothing, Tasks
<1> QED BY <1>1 DEF ThreadTypes, Leave, Goto, Elsewhere, Steps

\* A thread without a request fits any rows.
LEMMA IdleFits ==
  ASSUME NEW t \in Threads, step'[t] = "idle", task'[t] = Nothing
  PROVE  Fits(t)' /\ Enters(t)
BY DEF Fits, Enters, Nothing, At, None

\* A request as it arrives.
Fresh(op, org, item, content) ==
  [op |-> op, org |-> org, item |-> item, content |-> content, limit |-> 0]

\* What has been asked for is a task, and it fits the rows.
LEMMA Asked ==
  ASSUME TypeOK, NEW t \in Threads, Ask(t)
  PROVE  ThreadTypes' /\ Elsewhere(t) /\ Fits(t)' /\ Enters(t) /\ answers' = answers
<1>1. ThreadTypes BY DEF TypeOK, ThreadTypes
<1>2. ASSUME NEW op, NEW first \in Steps, NEW org, NEW item, NEW content,
             Fresh(op, org, item, content) \in Tasks,
             RequestWith(t, op, first, org, item, content)
      PROVE  /\ ThreadTypes' /\ Elsewhere(t) /\ answers' = answers
             /\ step'[t] = first /\ task'[t] = Fresh(op, org, item, content)
             /\ UNCHANGED rows
  BY <1>1, <1>2, Proceeding DEF RequestWith, Fresh
<1>3. CASE AskCreateHook(t)
  <2>1. PICK o \in Orgs : Request(t, "createHook", "owner", o, None)
    BY <1>3 DEF AskCreateHook
  <2>2. Fresh("createHook", o, None, None) \in Tasks BY <2>1 DEF Fresh, Tasks
  <2>3. /\ ThreadTypes' /\ Elsewhere(t) /\ answers' = answers /\ step'[t] = "owner"
        /\ task'[t] = Fresh("createHook", o, None, None) /\ UNCHANGED rows
    BY <1>2, <2>1, <2>2 DEF Steps, Request
  <2>4. Fits(t)' /\ Enters(t) BY <2>1, <2>3 DEF Fits, Enters, At, Fresh, None
  <2> QED BY <2>3, <2>4
<1>4. CASE AskDeleteHook(t)
  <2>1. PICK o \in Orgs, h \in Hooks :
          hookOrg[h] # None /\ Request(t, "deleteHook", "find", o, h)
    BY <1>4 DEF AskDeleteHook
  <2>2. Fresh("deleteHook", o, h, None) \in Tasks BY <2>1 DEF Fresh, Tasks
  <2>3. /\ ThreadTypes' /\ Elsewhere(t) /\ answers' = answers /\ step'[t] = "find"
        /\ task'[t] = Fresh("deleteHook", o, h, None) /\ UNCHANGED rows
    BY <1>2, <2>1, <2>2 DEF Steps, Request
  <2>4. Fits(t)' /\ Enters(t) BY <2>1, <2>3 DEF Fits, Enters, At, Fresh, None
  <2> QED BY <2>3, <2>4
<1>5. CASE AskCreateKey(t)
  <2>1. PICK o \in Orgs : Request(t, "createKey", "insert", o, None)
    BY <1>5 DEF AskCreateKey
  <2>2. Fresh("createKey", o, None, None) \in Tasks BY <2>1 DEF Fresh, Tasks
  <2>3. /\ ThreadTypes' /\ Elsewhere(t) /\ answers' = answers /\ step'[t] = "insert"
        /\ task'[t] = Fresh("createKey", o, None, None) /\ UNCHANGED rows
    BY <1>2, <2>1, <2>2 DEF Steps, Request
  <2>4. Fits(t)' /\ Enters(t) BY <2>1, <2>3 DEF Fits, Enters, At, Fresh, None
  <2> QED BY <2>3, <2>4
<1>6. CASE AskRevokeKey(t)
  <2>1. PICK o \in Orgs, k \in KeyRows : Request(t, "revokeKey", "find", o, k)
    BY <1>6 DEF AskRevokeKey
  <2>2. Fresh("revokeKey", o, k, None) \in Tasks BY <2>1 DEF Fresh, Tasks, KeyRows
  <2>3. /\ ThreadTypes' /\ Elsewhere(t) /\ answers' = answers /\ step'[t] = "find"
        /\ task'[t] = Fresh("revokeKey", o, k, None) /\ UNCHANGED rows
    BY <1>2, <2>1, <2>2 DEF Steps, Request
  <2>4. Fits(t)' /\ Enters(t) BY <2>1, <2>3 DEF Fits, Enters, At, Fresh, None, KeyRows
  <2> QED BY <2>3, <2>4
<1>7. CASE AskPost(t)
  <2>1. PICK k \in KeyRows : Request(t, "post", "auth", None, k)
    BY <1>7 DEF AskPost
  <2>2. Fresh("post", None, k, None) \in Tasks BY <2>1 DEF Fresh, Tasks, KeyRows
  <2>3. /\ ThreadTypes' /\ Elsewhere(t) /\ answers' = answers /\ step'[t] = "auth"
        /\ task'[t] = Fresh("post", None, k, None) /\ UNCHANGED rows
    BY <1>2, <2>1, <2>2 DEF Steps, Request
  <2>4. Fits(t)' /\ Enters(t) BY <2>1, <2>3 DEF Fits, Enters, At, Fresh, None, KeyRows
  <2> QED BY <2>3, <2>4
<1>8. CASE AskUserPost(t)
  <2>1. Request(t, "userPost", "insert", NoOrg, None)
    BY <1>8 DEF AskUserPost
  <2>2. Fresh("userPost", NoOrg, None, None) \in Tasks BY <2>1 DEF Fresh, Tasks
  <2>3. /\ ThreadTypes' /\ Elsewhere(t) /\ answers' = answers /\ step'[t] = "insert"
        /\ task'[t] = Fresh("userPost", NoOrg, None, None) /\ UNCHANGED rows
    BY <1>2, <2>1, <2>2 DEF Steps, Request
  <2>4. Fits(t)' /\ Enters(t) BY <2>1, <2>3 DEF Fits, Enters, At, Fresh, None
  <2> QED BY <2>3, <2>4
<1>9. CASE AskAboutMessage(t)
  <2>1. PICK op \in {"approve", "deleteMessage"}, m \in Messages :
          msgStatus[m] # None /\ Request(t, op, "find", None, m)
    BY <1>9 DEF AskAboutMessage
  <2>2. Fresh(op, None, m, None) \in Tasks BY <2>1 DEF Fresh, Tasks
  <2>3. /\ ThreadTypes' /\ Elsewhere(t) /\ answers' = answers /\ step'[t] = "find"
        /\ task'[t] = Fresh(op, None, m, None) /\ UNCHANGED rows
    BY <1>2, <2>1, <2>2 DEF Steps, Request
  <2>4. Fits(t)' /\ Enters(t) BY <2>1, <2>3 DEF Fits, Enters, At, Fresh, None
  <2> QED BY <2>3, <2>4
<1>10. CASE AskSignal(t)
  <2>1. PICK k \in KeyRows, b \in Bundles : RequestWith(t, "signal", "auth", None, k, b)
    BY <1>10 DEF AskSignal
  <2>2. Fresh("signal", None, k, b) \in Tasks BY <2>1 DEF Fresh, Tasks, KeyRows
  <2>3. /\ ThreadTypes' /\ Elsewhere(t) /\ answers' = answers /\ step'[t] = "auth"
        /\ task'[t] = Fresh("signal", None, k, b) /\ UNCHANGED rows
    BY <1>2, <2>1, <2>2 DEF Steps
  <2>4. Fits(t)' /\ Enters(t) BY <2>1, <2>3 DEF Fits, Enters, At, Fresh, None, KeyRows
  <2> QED BY <2>3, <2>4
<1>11. CASE AskRegister(t)
  <2>1. PICK n \in Names, p \in Passwords : RequestWith(t, "register", "find", None, n, p)
    BY <1>11 DEF AskRegister
  <2>2. Fresh("register", None, n, p) \in Tasks BY <2>1 DEF Fresh, Tasks
  <2>3. /\ ThreadTypes' /\ Elsewhere(t) /\ answers' = answers /\ step'[t] = "find"
        /\ task'[t] = Fresh("register", None, n, p) /\ UNCHANGED rows
    BY <1>2, <2>1, <2>2 DEF Steps
  <2>4. Fits(t)' /\ Enters(t) BY <2>1, <2>3 DEF Fits, Enters, At, Fresh, None
  <2> QED BY <2>3, <2>4
<1> QED BY <1>3, <1>4, <1>5, <1>6, <1>7, <1>8, <1>9, <1>10, <1>11 DEF Ask

\* A reply ends a request; only that to an approval is noted.
LEMMA Replying ==
  ASSUME ThreadTypes, NEW t \in Threads, NEW code, Reply(t, code)
  PROVE  /\ ThreadTypes' /\ Elsewhere(t) /\ Fits(t)' /\ Enters(t)
         /\ task[t].op # "approve" => answers' = answers
         /\ task[t].op = "approve" => answers' = answers \cup {<<task[t].item, code>>}
<1>1. /\ Leave(t)
      /\ answers' = IF task[t].op = "approve" THEN answers \cup {<<task[t].item, code>>}
                                              ELSE answers
  BY DEF Reply
<1>2. ThreadTypes' /\ Elsewhere(t) /\ step'[t] = "idle" /\ task'[t] = Nothing BY <1>1, Leaving
<1>3. Fits(t)' /\ Enters(t) BY <1>2, IdleFits
<1> QED BY <1>1, <1>2, <1>3

-----------------------------------------------------------------------------
(* Rows *)

RowTypes ==
  /\ keyOrg \in [Keys -> Orgs \cup {None}] /\ revoked \subseteq KeyRows
  /\ hookOrg \in [Hooks -> Orgs \cup {None}]
  /\ deleted \subseteq {h \in Hooks : hookOrg[h] # None}
  /\ msgOrg \in [Messages -> Orgs \cup {NoOrg, None}]
  /\ msgStatus \in [Messages -> {None, "pending", "approved", "deleted"}]
  /\ users \in [Names -> Passwords \cup {None}]
  /\ signals \in [Orgs -> Bundles \cup {None}]

HistoryTypes ==
  /\ registered \subseteq Names \X Passwords
  /\ outbox \subseteq Messages \X Hooks /\ heard \subseteq Messages \X Hooks
  /\ gone \in [Messages -> SUBSET Hooks] /\ known \in [Messages -> SUBSET Hooks]
  /\ stale \in [Keys -> Nat] /\ workload \in Workloads /\ faults \in 0 .. MaxFaults

BillingTypes ==
  /\ plan \in [Orgs -> Plans] /\ subscribed \in [Orgs -> Plans]
  /\ notices \in Seq(Orgs \X (Plans \cup {None}))

AnswerTypes == answers \subseteq Messages \X {200, 404, 500}

LEMMA Types ==
  /\ TypeOK <=> RowTypes /\ HistoryTypes /\ BillingTypes /\ ThreadTypes /\ AnswerTypes
  /\ TypeOK' <=> RowTypes' /\ HistoryTypes' /\ BillingTypes' /\ ThreadTypes' /\ AnswerTypes'
BY Zenon DEF TypeOK, RowTypes, HistoryTypes, BillingTypes, ThreadTypes, AnswerTypes

\* Rows are given an owner once, and neither a revocation nor a deletion is taken back.
Grows ==
  /\ \A k \in Keys : keyOrg[k] # None => keyOrg'[k] = keyOrg[k]
  /\ \A h \in Hooks : hookOrg[h] # None => hookOrg'[h] = hookOrg[h]
  /\ \A m \in Messages : msgStatus[m] # None =>
       /\ msgStatus'[m] # None /\ msgOrg'[m] = msgOrg[m]
       /\ gone'[m] = gone[m] /\ known'[m] = known[m]
  /\ \A m \in Messages :
       /\ msgStatus[m] = "deleted" => msgStatus'[m] = "deleted"
       /\ msgStatus[m] = "approved" => msgStatus'[m] \in {"approved", "deleted"}
  /\ \A n \in Names : users[n] # None => users'[n] = users[n]
  /\ revoked \subseteq revoked' /\ deleted \subseteq deleted'

\* Rows that do not change do not shrink.
LEMMA RowsStand ==
  ASSUME RowTypes, HistoryTypes, UNCHANGED <<rows, gone, known>>
  PROVE  Grows /\ RowTypes'
<1>1. RowTypes' BY Zenon DEF RowTypes, KeyRows
<1>2. Grows BY Zenon DEF Grows, RowTypes
<1> QED BY <1>1, <1>2

\* A thread that stands goes on fitting the rows as they grow.
LEMMA StaysFit ==
  ASSUME RowTypes, NEW t \in Threads, Fits(t), Grows, step'[t] = step[t], task'[t] = task[t]
  PROVE  Fits(t)'
<1>1. KeyRows \subseteq KeyRows' BY DEF Grows, KeyRows
<1>2. \A k \in KeyRows : keyOrg'[k] = keyOrg[k] BY DEF Grows, KeyRows
<1>3. \A m \in Messages : msgStatus[m] \in {"approved", "deleted"} =>
        msgStatus'[m] \in {"approved", "deleted"}
  BY DEF Grows
<1> QED BY <1>1, <1>2, <1>3 DEF Grows, Fits, At

\* All that a step of one thread keeps.
Kept(t) ==
  /\ RowTypes' /\ HistoryTypes' /\ BillingTypes' /\ ThreadTypes' /\ AnswerTypes'
  /\ Grows /\ Elsewhere(t) /\ Fits(t)' /\ Enters(t)

\* A statement that reads: only the thread moves.
LEMMA Reads ==
  ASSUME TypeOK, NEW t \in Threads, Fits(t),
         \/ ReadPlan(t) \/ CountHooks(t) \/ FindHook(t) \/ FindKey(t) \/ Authenticate(t)
         \/ FindMessage(t) \/ RereadMessage(t) \/ FindUser(t)
  PROVE  Kept(t)
<1>1. /\ RowTypes /\ HistoryTypes /\ BillingTypes /\ ThreadTypes /\ AnswerTypes
      /\ task[t] \in Tasks
  BY Types DEF ThreadTypes
<1>2. UNCHANGED <<rows, outbox, heard, billing, history, workload, faults>>
  BY DEF ReadPlan, CountHooks, FindHook, FindKey, Authenticate, FindMessage, RereadMessage,
    FindUser
<1>3. HistoryTypes' /\ BillingTypes' BY <1>1, <1>2, Zenon DEF HistoryTypes, BillingTypes
<1>4. Grows /\ RowTypes' BY <1>1, <1>2, RowsStand
<1>5. SUFFICES ThreadTypes' /\ AnswerTypes' /\ Elsewhere(t) /\ Fits(t)' /\ Enters(t)
  BY <1>3, <1>4 DEF Kept
<1>6. ASSUME NEW code, Reply(t, code), task[t].op # "approve" \/ code \in {200, 404, 500}
      PROVE  ThreadTypes' /\ AnswerTypes' /\ Elsewhere(t) /\ Fits(t)' /\ Enters(t)
  <2>1. ThreadTypes' /\ Elsewhere(t) /\ Fits(t)' /\ Enters(t) BY <1>1, <1>6, Replying
  <2>2. CASE task[t].op # "approve"
    <3>1. answers' = answers BY <1>1, <1>6, <2>2, Replying
    <3> QED BY <1>1, <2>1, <3>1 DEF AnswerTypes
  <2>3. CASE task[t].op = "approve" /\ code \in {200, 404, 500}
    <3>1. answers' = answers \cup {<<task[t].item, code>>} BY <1>1, <1>6, <2>3, Replying
    <3>2. task[t].item \in Messages BY <2>3 DEF Fits
    <3> QED BY <1>1, <2>1, <2>3, <3>1, <3>2 DEF AnswerTypes
  <2> QED BY <1>6, <2>2, <2>3
<1>7. ASSUME NEW s \in Steps, Continue(t, s)
      PROVE  /\ ThreadTypes' /\ AnswerTypes' /\ Elsewhere(t)
             /\ step'[t] = s /\ task'[t] = task[t]
  <2>1. /\ ThreadTypes' /\ Elsewhere(t) /\ answers' = answers
        /\ step'[t] = s /\ task'[t] = task[t]
    BY <1>1, <1>7, Continuing
  <2> QED BY <1>1, <2>1 DEF AnswerTypes
<1>8. ASSUME NEW s \in Steps, NEW w \in Tasks, Proceed(t, s, w)
      PROVE  /\ ThreadTypes' /\ AnswerTypes' /\ Elsewhere(t)
             /\ step'[t] = s /\ task'[t] = w
  <2>1. /\ ThreadTypes' /\ Elsewhere(t) /\ answers' = answers
        /\ step'[t] = s /\ task'[t] = w
    BY <1>1, <1>8, Proceeding
  <2> QED BY <1>1, <2>1 DEF AnswerTypes
<1>9. CASE ReadPlan(t)
  <2> DEFINE w == [task[t] EXCEPT !.limit = MaxWebhooks[plan[task[t].org]]]
  <2>1. task[t].op = "createHook" /\ task[t].org \in Orgs /\ Proceed(t, "count", w)
    BY <1>9 DEF ReadPlan, At, Fits
  <2>2. plan[task[t].org] \in Plans BY <1>1, <2>1 DEF BillingTypes
  <2>3. w \in Tasks /\ w.op = "createHook" /\ w.org \in Orgs
    BY <1>1, <2>1, <2>2 DEF Tasks
  <2> HIDE DEF w
  <2>4. ThreadTypes' /\ AnswerTypes' /\ Elsewhere(t) /\ step'[t] = "count" /\ task'[t] = w
    BY <1>8, <2>1, <2>3 DEF Steps
  <2> QED BY <2>3, <2>4 DEF Fits, Enters, At
<1>10. CASE CountHooks(t)
  <2>1. /\ At(t, "createHook", "count")
        /\ \/ Reply(t, 402)
           \/ /\ ~(Cardinality(HooksOf(task[t].org)) >= task[t].limit)
              /\ Continue(t, "insert")
    BY <1>10 DEF CountHooks
  <2>2. CASE /\ ~(Cardinality(HooksOf(task[t].org)) >= task[t].limit)
             /\ Continue(t, "insert")
    <3>1. /\ ThreadTypes' /\ AnswerTypes' /\ Elsewhere(t) /\ step'[t] = "insert"
          /\ task'[t] = task[t]
      BY <1>7, <2>2 DEF Steps
    <3> QED BY <2>1, <2>2, <3>1 DEF Fits, Enters, At
  <2>3. task[t].op = "createHook" BY <2>1 DEF At
  <2> QED BY <1>6, <2>1, <2>2, <2>3
<1>11. CASE FindHook(t)
  <2>1. task[t].op = "deleteHook" /\ (Reply(t, 404) \/ Continue(t, "delete"))
    BY <1>11 DEF FindHook, At
  <2>2. CASE Continue(t, "delete")
    <3>1. /\ ThreadTypes' /\ AnswerTypes' /\ Elsewhere(t) /\ step'[t] = "delete"
          /\ task'[t] = task[t]
      BY <1>7, <2>2 DEF Steps
    <3> QED BY <1>2, <2>1, <3>1 DEF Fits, Enters, At
  <2> QED BY <1>6, <2>1, <2>2
<1>12. CASE FindKey(t)
  <2>1. task[t].op = "revokeKey" /\ (Reply(t, 404) \/ Continue(t, "update"))
    BY <1>12 DEF FindKey, At
  <2>2. CASE Continue(t, "update")
    <3>1. /\ ThreadTypes' /\ AnswerTypes' /\ Elsewhere(t) /\ step'[t] = "update"
          /\ task'[t] = task[t]
      BY <1>7, <2>2 DEF Steps
    <3> QED BY <1>2, <2>1, <3>1 DEF Fits, Enters, At, KeyRows
  <2> QED BY <1>6, <2>1, <2>2
<1>13. CASE Authenticate(t)
  <2> DEFINE w == [task[t] EXCEPT !.org = keyOrg[task[t].item]]
  <2>1. /\ step[t] = "auth" /\ task[t].op \in {"post", "signal"} /\ task[t].item \in KeyRows
        /\ (task[t].op = "signal" => task[t].content \in Bundles)
        /\ \/ Reply(t, 401) \/ Reply(t, 429)
           \/ task[t].item \notin revoked /\ Proceed(t, "insert", w)
    BY <1>13 DEF Authenticate, Fits
  <2>2. CASE task[t].item \notin revoked /\ Proceed(t, "insert", w)
    <3>1. keyOrg[task[t].item] \in Orgs BY <1>1, <2>1 DEF RowTypes, KeyRows
    <3>2. /\ w \in Tasks /\ w.op = task[t].op /\ w.item = task[t].item
          /\ w.content = task[t].content /\ w.org = keyOrg[task[t].item]
      BY <1>1, <3>1 DEF Tasks
    <3> HIDE DEF w
    <3>3. ThreadTypes' /\ AnswerTypes' /\ Elsewhere(t) /\ step'[t] = "insert" /\ task'[t] = w
      BY <1>8, <2>2, <3>2 DEF Steps
    <3> QED BY <1>2, <2>1, <2>2, <3>2, <3>3 DEF Fits, Enters, At, KeyRows
  <2> QED BY <1>6, <2>1, <2>2
<1>14. CASE FindMessage(t)
  <2>1. task[t].op \in {"approve", "deleteMessage"} /\ (Reply(t, 404) \/ Continue(t, "update"))
    BY <1>14 DEF FindMessage
  <2>2. CASE Continue(t, "update")
    <3>1. /\ ThreadTypes' /\ AnswerTypes' /\ Elsewhere(t) /\ step'[t] = "update"
          /\ task'[t] = task[t]
      BY <1>7, <2>2 DEF Steps
    <3> QED BY <1>2, <2>1, <3>1 DEF Fits, Enters, At
  <2> QED BY <1>6, <2>1, <2>2
<1>15. CASE RereadMessage(t)
  <2>1. Reply(t, 200) \/ Reply(t, 500) BY <1>15 DEF RereadMessage
  <2> QED BY <1>6, <2>1
<1>16. CASE FindUser(t)
  <2>1. task[t].op = "register" /\ (Reply(t, 400) \/ Continue(t, "insert"))
    BY <1>16 DEF FindUser, At
  <2>2. CASE Continue(t, "insert")
    <3>1. /\ ThreadTypes' /\ AnswerTypes' /\ Elsewhere(t) /\ step'[t] = "insert"
          /\ task'[t] = task[t]
      BY <1>7, <2>2 DEF Steps
    <3> QED BY <1>2, <2>1, <3>1 DEF Fits, Enters, At
  <2> QED BY <1>6, <2>1, <2>2
<1> QED BY <1>9, <1>10, <1>11, <1>12, <1>13, <1>14, <1>15, <1>16

\* A statement that writes, and its commit.
LEMMA Writes ==
  ASSUME TypeOK, NEW t \in Threads, Fits(t),
         \/ InsertHook(t) \/ DeleteHook(t) \/ InsertKey(t) \/ RevokeKey(t)
         \/ InsertMessage(t) \/ SelectHooks(t) \/ InsertUserMessage(t)
         \/ ApproveMessage(t) \/ DeleteMessage(t) \/ UpsertSignal(t) \/ InsertUser(t)
  PROVE  Kept(t)
<1>1. /\ RowTypes /\ HistoryTypes /\ BillingTypes /\ ThreadTypes /\ AnswerTypes
      /\ task[t] \in Tasks
  BY Types DEF ThreadTypes
<1>2. ASSUME NEW code, Reply(t, code), task[t].op # "approve"
      PROVE  ThreadTypes' /\ AnswerTypes' /\ Elsewhere(t) /\ Fits(t)' /\ Enters(t)
  <2>1. ThreadTypes' /\ Elsewhere(t) /\ Fits(t)' /\ Enters(t) /\ answers' = answers
    BY <1>1, <1>2, Replying
  <2> QED BY <1>1, <2>1 DEF AnswerTypes
<1>3. UNCHANGED <<plan, subscribed, notices>> => BillingTypes'
  BY <1>1, Zenon DEF BillingTypes
<1>4. CASE InsertHook(t)
  <2>1. task[t].op = "createHook" /\ Reply(t, 200) /\ task[t].org \in Orgs
    BY <1>4 DEF InsertHook, At, Fits
  <2>2. PICK h \in Hooks : hookOrg[h] = None /\ hookOrg' = [hookOrg EXCEPT ![h] = task[t].org]
    BY <1>4 DEF InsertHook
  <2>3. /\ UNCHANGED <<keyOrg, revoked, deleted, msgOrg, msgStatus, users, signals, outbox,
                       heard, billing, history, workload, faults>>
    BY <1>4 DEF InsertHook
  <2>4. RowTypes' BY <1>1, <2>1, <2>2, <2>3 DEF RowTypes, KeyRows
  <2>5. Grows BY <1>1, <2>2, <2>3 DEF RowTypes, Grows
  <2>6. HistoryTypes' BY <1>1, <2>3, Zenon DEF HistoryTypes
  <2> QED BY <1>2, <1>3, <2>1, <2>3, <2>4, <2>5, <2>6 DEF Kept
<1>5. CASE DeleteHook(t)
  <2>1. /\ task[t].op = "deleteHook" /\ Reply(t, 200)
        /\ task[t].item \in Hooks /\ hookOrg[task[t].item] # None
        /\ deleted' = deleted \cup {task[t].item}
        /\ UNCHANGED <<keyOrg, revoked, hookOrg, msgOrg, msgStatus, users, signals, outbox,
                       heard, billing, history, workload, faults>>
    BY <1>5 DEF DeleteHook, At, Fits
  <2>2. RowTypes' BY <1>1, <2>1 DEF RowTypes, KeyRows
  <2>3. Grows BY <1>1, <2>1 DEF Grows
  <2>4. HistoryTypes' BY <1>1, <2>1, Zenon DEF HistoryTypes
  <2> QED BY <1>2, <1>3, <2>1, <2>2, <2>3, <2>4 DEF Kept
<1>6. CASE InsertKey(t)
  <2>1. task[t].op = "createKey" /\ Reply(t, 200) /\ task[t].org \in Orgs
    BY <1>6 DEF InsertKey, At, Fits
  <2>2. PICK k \in Keys : keyOrg[k] = None /\ keyOrg' = [keyOrg EXCEPT ![k] = task[t].org]
    BY <1>6 DEF InsertKey
  <2>3. UNCHANGED <<revoked, hookOrg, deleted, msgOrg, msgStatus, users, signals, outbox,
                    heard, billing, history, workload, faults>>
    BY <1>6 DEF InsertKey
  <2>4. RowTypes' BY <1>1, <2>1, <2>2, <2>3 DEF RowTypes, KeyRows
  <2>5. Grows BY <1>1, <2>2, <2>3 DEF RowTypes, Grows
  <2>6. HistoryTypes' BY <1>1, <2>3, Zenon DEF HistoryTypes
  <2> QED BY <1>2, <1>3, <2>1, <2>3, <2>4, <2>5, <2>6 DEF Kept
<1>7. CASE RevokeKey(t)
  <2>1. /\ task[t].op = "revokeKey" /\ Reply(t, 200) /\ task[t].item \in KeyRows
        /\ revoked' = revoked \cup {task[t].item}
        /\ UNCHANGED <<keyOrg, hookOrg, deleted, msgOrg, msgStatus, users, signals, outbox,
                       heard, billing, history, workload, faults>>
    BY <1>7 DEF RevokeKey, At, Fits
  <2>2. RowTypes' BY <1>1, <2>1 DEF RowTypes, KeyRows
  <2>3. Grows BY <1>1, <2>1 DEF Grows
  <2>4. HistoryTypes' BY <1>1, <2>1, Zenon DEF HistoryTypes
  <2> QED BY <1>2, <1>3, <2>1, <2>2, <2>3, <2>4 DEF Kept
<1>8. ASSUME NEW m \in Messages, NEW o \in Orgs \cup {NoOrg}, NewMessage(m, o),
             UNCHANGED <<keyOrg, revoked, hookOrg, deleted, users, signals>>
      PROVE  /\ RowTypes' /\ Grows
             /\ gone' \in [Messages -> SUBSET Hooks] /\ known' \in [Messages -> SUBSET Hooks]
             /\ msgStatus'[m] # None /\ msgOrg'[m] = o
  <2>1. RowTypes' BY <1>1, <1>8 DEF RowTypes, NewMessage, KeyRows
  <2>2. Grows BY <1>1, <1>8 DEF RowTypes, HistoryTypes, NewMessage, Grows, None
  <2>3. deleted \in SUBSET Hooks /\ HooksOf(o) \in SUBSET Hooks
    BY <1>1 DEF RowTypes, HooksOf, HookRows
  <2> QED BY <1>1, <1>8, <2>1, <2>2, <2>3 DEF NewMessage, HistoryTypes, RowTypes, None
<1>9. ASSUME task[t].item \in Keys, NoteStale(t)
      PROVE  stale' \in [Keys -> Nat]
  BY <1>1, <1>9 DEF NoteStale, HistoryTypes
<1>10. CASE InsertMessage(t)
  <2>1. /\ step[t] = "insert" /\ task[t].op = "post" /\ task[t].item \in KeyRows
        /\ task[t].org = keyOrg[task[t].item] /\ NoteStale(t)
        /\ UNCHANGED <<keyOrg, revoked, hookOrg, deleted, users, signals, outbox, heard,
                       billing, registered, workload, faults>>
    BY <1>10 DEF InsertMessage, At, Fits
  <2>2. PICK m \in Messages : /\ NewMessage(m, task[t].org)
                              /\ Proceed(t, "hooks", [task[t] EXCEPT !.item = m])
    BY <1>10 DEF InsertMessage
  <2> DEFINE w == [task[t] EXCEPT !.item = m]
  <2>3. task[t].org \in Orgs BY <1>1, <2>1 DEF RowTypes, KeyRows
  <2>4. /\ RowTypes' /\ Grows
        /\ gone' \in [Messages -> SUBSET Hooks] /\ known' \in [Messages -> SUBSET Hooks]
        /\ msgStatus'[m] # None /\ msgOrg'[m] = task[t].org
    BY <1>8, <2>1, <2>2, <2>3
  <2>5. stale' \in [Keys -> Nat] BY <1>9, <2>1 DEF KeyRows
  <2>6. HistoryTypes' BY <1>1, <2>1, <2>4, <2>5, Zenon DEF HistoryTypes
  <2>7. w \in Tasks /\ w.op = "post" /\ w.item = m /\ w.org = task[t].org
    BY <1>1, <2>1 DEF Tasks
  <2> HIDE DEF w
  <2>8. /\ ThreadTypes' /\ Elsewhere(t) /\ answers' = answers
        /\ step'[t] = "hooks" /\ task'[t] = w
    BY <1>1, <2>2, <2>7, Proceeding DEF Steps, w
  <2>9. Fits(t)' /\ Enters(t) BY <2>3, <2>4, <2>7, <2>8 DEF Fits, Enters, At
  <2>10. AnswerTypes' BY <1>1, <2>8 DEF AnswerTypes
  <2> QED BY <1>3, <2>1, <2>4, <2>6, <2>8, <2>9, <2>10 DEF Kept
<1>11. CASE SelectHooks(t)
  <2>1. /\ task[t].op = "post" /\ Reply(t, 200) /\ task[t].item \in Messages
        /\ outbox' = outbox \cup ({task[t].item} \X HooksOf(task[t].org))
        /\ UNCHANGED <<rows, heard, billing, history, workload, faults>>
    BY <1>11 DEF SelectHooks, At, Fits
  <2>2. Grows /\ RowTypes' BY <1>1, <2>1, RowsStand
  <2>3. HooksOf(task[t].org) \in SUBSET Hooks BY DEF HooksOf, HookRows
  <2>4. outbox' \subseteq Messages \X Hooks BY <1>1, <2>1, <2>3 DEF HistoryTypes
  <2>5. HistoryTypes' BY <1>1, <2>1, <2>4, Zenon DEF HistoryTypes
  <2> QED BY <1>2, <1>3, <2>1, <2>2, <2>5 DEF Kept
<1>12. CASE InsertUserMessage(t)
  <2>1. /\ task[t].op = "userPost" /\ Reply(t, 200)
        /\ UNCHANGED <<keyOrg, revoked, hookOrg, deleted, users, signals, outbox, heard,
                       billing, stale, registered, workload, faults>>
    BY <1>12 DEF InsertUserMessage, At
  <2>2. PICK m \in Messages : NewMessage(m, NoOrg)
    BY <1>12 DEF InsertUserMessage
  <2>3. /\ RowTypes' /\ Grows
        /\ gone' \in [Messages -> SUBSET Hooks] /\ known' \in [Messages -> SUBSET Hooks]
    BY <1>8, <2>1, <2>2
  <2>4. HistoryTypes' BY <1>1, <2>1, <2>3, Zenon DEF HistoryTypes
  <2> QED BY <1>2, <1>3, <2>1, <2>3, <2>4 DEF Kept
<1>13. CASE ApproveMessage(t)
  <2>1. /\ task[t].op = "approve" /\ Continue(t, "reread")
        /\ task[t].item \in Messages /\ msgStatus[task[t].item] # None
        /\ msgStatus' = IF task[t].item \in Rows
                        THEN [msgStatus EXCEPT ![task[t].item] = "approved"] ELSE msgStatus
        /\ UNCHANGED <<keyOrg, revoked, hookOrg, deleted, msgOrg, users, signals, outbox,
                       heard, billing, history, workload, faults>>
    BY <1>13 DEF ApproveMessage, At, Fits
  <2>2. RowTypes' BY <1>1, <2>1 DEF RowTypes, KeyRows
  <2>3. Grows BY <1>1, <2>1 DEF RowTypes, Rows, Grows, None
  <2>4. HistoryTypes' BY <1>1, <2>1, Zenon DEF HistoryTypes
  <2>5. /\ ThreadTypes' /\ Elsewhere(t) /\ answers' = answers
        /\ step'[t] = "reread" /\ task'[t] = task[t]
    BY <1>1, <2>1, Continuing DEF Steps
  <2>6. msgStatus'[task[t].item] \in {"approved", "deleted"}
    BY <1>1, <2>1 DEF RowTypes, Rows
  <2>7. Fits(t)' /\ Enters(t) BY <2>1, <2>5, <2>6 DEF Fits, Enters, At, None
  <2>8. AnswerTypes' BY <1>1, <2>5 DEF AnswerTypes
  <2> QED BY <1>3, <2>1, <2>2, <2>3, <2>4, <2>5, <2>7, <2>8 DEF Kept
<1>14. CASE DeleteMessage(t)
  <2>1. /\ task[t].op = "deleteMessage" /\ Reply(t, 200)
        /\ msgStatus' = [msgStatus EXCEPT ![task[t].item] = "deleted"]
        /\ UNCHANGED <<keyOrg, revoked, hookOrg, deleted, msgOrg, users, signals, outbox,
                       heard, billing, history, workload, faults>>
    BY <1>14 DEF DeleteMessage, At
  <2>2. RowTypes' BY <1>1, <2>1 DEF RowTypes, KeyRows
  <2>3. Grows BY <1>1, <2>1 DEF RowTypes, Grows, None
  <2>4. HistoryTypes' BY <1>1, <2>1, Zenon DEF HistoryTypes
  <2> QED BY <1>2, <1>3, <2>1, <2>2, <2>3, <2>4 DEF Kept
<1>15. CASE UpsertSignal(t)
  <2>1. /\ task[t].op = "signal" /\ Reply(t, 200) /\ task[t].item \in KeyRows
        /\ task[t].content \in Bundles /\ NoteStale(t)
        /\ signals' = [signals EXCEPT ![task[t].org] = task[t].content]
        /\ UNCHANGED <<keyOrg, revoked, hookOrg, deleted, msgOrg, msgStatus, users, outbox,
                       heard, billing, gone, known, registered, workload, faults>>
    BY <1>15 DEF UpsertSignal, At, Fits
  <2>2. RowTypes' BY <1>1, <2>1 DEF RowTypes, KeyRows
  <2>3. Grows BY <1>1, <2>1 DEF Grows
  <2>4. stale' \in [Keys -> Nat] BY <1>9, <2>1 DEF KeyRows
  <2>5. HistoryTypes' BY <1>1, <2>1, <2>4, Zenon DEF HistoryTypes
  <2> QED BY <1>2, <1>3, <2>1, <2>2, <2>3, <2>5 DEF Kept
<1>16. CASE InsertUser(t)
  <2>1. /\ task[t].op = "register" /\ task[t].item \in Names /\ task[t].content \in Passwords
        /\ UNCHANGED <<keyOrg, revoked, hookOrg, deleted, msgOrg, msgStatus, signals, outbox,
                       heard, billing, gone, known, stale, workload>>
        /\ \/ Reply(t, 500) /\ UNCHANGED <<users, registered, faults>>
           \/ /\ users[task[t].item] = None
              /\ users' = [users EXCEPT ![task[t].item] = task[t].content]
              /\ registered' = registered \cup {<<task[t].item, task[t].content>>}
              /\ Reply(t, 200) /\ UNCHANGED faults
           \/ /\ users[task[t].item] = None
              /\ users' = [users EXCEPT ![task[t].item] = task[t].content]
              /\ Leave(t) /\ Fault /\ UNCHANGED <<registered, answers>>
    BY <1>16 DEF InsertUser, At, Fits
  <2>2. RowTypes' BY <1>1, <2>1 DEF RowTypes, KeyRows
  <2>3. Grows BY <1>1, <2>1 DEF Grows, RowTypes
  <2>4. registered' \subseteq Names \X Passwords BY <1>1, <2>1 DEF HistoryTypes
  <2>5. faults' \in 0 .. MaxFaults BY <1>1, <2>1, PlansAssumption DEF HistoryTypes, Fault
  <2>6. HistoryTypes' BY <1>1, <2>1, <2>4, <2>5, Zenon DEF HistoryTypes
  <2>7. ASSUME Leave(t), UNCHANGED answers
        PROVE  ThreadTypes' /\ AnswerTypes' /\ Elsewhere(t) /\ Fits(t)' /\ Enters(t)
    BY <1>1, <2>7, Leaving, IdleFits DEF AnswerTypes
  <2>8. ThreadTypes' /\ AnswerTypes' /\ Elsewhere(t) /\ Fits(t)' /\ Enters(t)
    BY <1>2, <2>1, <2>7
  <2> QED BY <1>3, <2>1, <2>2, <2>3, <2>6, <2>8 DEF Kept
<1> QED BY <1>4, <1>5, <1>6, <1>7, <1>10, <1>11, <1>12, <1>13, <1>14, <1>15, <1>16

\* Of a request: what it asks, does or suffers is a step of its thread alone.
LEMMA ThreadStep ==
  ASSUME TypeOK, NEW t \in Threads, Fits(t), Ask(t) \/ Serve(t) \/ RequestFails(t)
  PROVE  Kept(t)
<1>1. RowTypes /\ HistoryTypes /\ BillingTypes /\ ThreadTypes /\ AnswerTypes
  BY Types
<1>2. CASE Ask(t)
  <2>1. UNCHANGED <<rows, outbox, heard, billing, history, workload, faults>>
    BY <1>2 DEF Ask, AskCreateHook, AskDeleteHook, AskCreateKey, AskRevokeKey, AskPost,
      AskUserPost, AskAboutMessage, AskSignal, AskRegister, Request, RequestWith
  <2>2. HistoryTypes' /\ BillingTypes' BY <1>1, <2>1, Zenon DEF HistoryTypes, BillingTypes
  <2>3. Grows /\ RowTypes' BY <1>1, <2>1, RowsStand
  <2>4. ThreadTypes' /\ Elsewhere(t) /\ Fits(t)' /\ Enters(t) /\ answers' = answers
    BY <1>2, Asked
  <2> QED BY <1>1, <2>2, <2>3, <2>4 DEF Kept, AnswerTypes
<1>3. CASE Serve(t)
  BY <1>3, Reads, Writes DEF Serve
<1>4. CASE RequestFails(t)
  <2>1. /\ Leave(t) /\ Fault
        /\ UNCHANGED <<rows, answers, outbox, heard, billing, history, workload>>
    BY <1>4 DEF RequestFails
  <2>2. faults' \in 0 .. MaxFaults BY <1>1, <2>1, PlansAssumption DEF HistoryTypes, Fault
  <2>3. HistoryTypes' /\ BillingTypes' /\ AnswerTypes'
    BY <1>1, <2>1, <2>2, Zenon DEF HistoryTypes, BillingTypes, AnswerTypes
  <2>4. Grows /\ RowTypes' BY <1>1, <2>1, RowsStand
  <2>5. ThreadTypes' /\ Elsewhere(t) /\ Fits(t)' /\ Enters(t) BY <1>1, <2>1, Leaving, IdleFits
  <2> QED BY <2>3, <2>4, <2>5 DEF Kept
<1> QED BY <1>2, <1>3, <1>4

\* Every step keeps the types and lets the rows only grow, and every thread goes on fitting
\* them.
LEMMA TenantStep ==
  ASSUME TypeOK, Fit, [Next]_vars
  PROVE  TypeOK' /\ Fit' /\ Grows
<1>1. RowTypes /\ HistoryTypes /\ BillingTypes /\ ThreadTypes /\ AnswerTypes
  BY Types
<1>2. ASSUME NEW t \in Threads, Ask(t) \/ Serve(t) \/ RequestFails(t)
      PROVE  TypeOK' /\ Fit' /\ Grows
  <2>1. Kept(t) BY <1>2, ThreadStep DEF Fit
  <2>2. ASSUME NEW u \in Threads \ {t}
        PROVE  Fits(u)'
    <3>1. step'[u] = step[u] /\ task'[u] = task[u] BY <2>1 DEF Kept, Elsewhere
    <3> QED BY <1>1, <2>1, <3>1, StaysFit DEF Fit, Kept
  <2>3. TypeOK' BY <2>1, Types DEF Kept
  <2> QED BY <2>1, <2>2, <2>3 DEF Fit, Kept
<1>3. ASSUME UNCHANGED threads, UNCHANGED <<rows, gone, known>>, HistoryTypes', BillingTypes'
      PROVE  TypeOK' /\ Fit' /\ Grows
  <2>1. Grows /\ RowTypes' BY <1>1, <1>3, RowsStand
  <2>2. ThreadTypes' /\ AnswerTypes' BY <1>1, <1>3, Zenon DEF ThreadTypes, AnswerTypes
  <2>3. ASSUME NEW u \in Threads
        PROVE  Fits(u)'
    BY <1>1, <1>3, <2>1, StaysFit DEF Fit
  <2> QED BY <1>3, <2>1, <2>2, <2>3, Types DEF Fit
<1>4. Fault => faults' \in 0 .. MaxFaults BY <1>1, PlansAssumption DEF HistoryTypes, Fault
<1>5. CASE Dispatch
  <2>1. PICK d \in outbox :
          /\ outbox' = outbox \ {d}
          /\ \/ heard' = heard \cup {d} /\ UNCHANGED faults
             \/ UNCHANGED heard /\ Fault
          /\ UNCHANGED <<rows, threads, billing, history, workload>>
    BY <1>5 DEF Dispatch
  <2>2. outbox' \subseteq Messages \X Hooks /\ heard' \subseteq Messages \X Hooks
    BY <1>1, <2>1 DEF HistoryTypes
  <2>3. faults' \in 0 .. MaxFaults BY <1>1, <1>4, <2>1 DEF HistoryTypes
  <2>4. HistoryTypes' /\ BillingTypes'
    BY <1>1, <2>1, <2>2, <2>3, Zenon DEF HistoryTypes, BillingTypes
  <2> QED BY <1>3, <2>1, <2>4
<1>6. CASE SubscriptionChanges
  <2>1. PICK o \in Orgs, p \in Plans \cup {None} :
          /\ notices' = Append(notices, <<o, p>>)
          /\ subscribed' = IF p = None THEN subscribed ELSE [subscribed EXCEPT ![o] = p]
          /\ UNCHANGED <<rows, threads, outbox, heard, plan, history, workload, faults>>
    BY <1>6 DEF SubscriptionChanges
  <2>2. BillingTypes' BY <1>1, <2>1 DEF BillingTypes
  <2>3. HistoryTypes' BY <1>1, <2>1, Zenon DEF HistoryTypes
  <2> QED BY <1>3, <2>1, <2>2, <2>3
<1>7. CASE HandleNotice
  <2>1. /\ notices # <<>>
        /\ plan' = plan \/ SetOrgPlan(Head(notices)[1], Head(notices)[2])
        /\ notices' = notices \/ notices' = Tail(notices)
        /\ UNCHANGED faults \/ Fault
        /\ UNCHANGED <<rows, threads, outbox, heard, subscribed, history, workload>>
    BY <1>7 DEF HandleNotice
  <2>2. plan' \in [Orgs -> Plans]
    <3>1. plan \in [Orgs -> Plans] BY <1>1 DEF BillingTypes
    <3> QED BY <2>1, <3>1 DEF SetOrgPlan
  <2>3. notices' \in Seq(Orgs \X (Plans \cup {None}))
    <3>1. notices \in Seq(Orgs \X (Plans \cup {None})) BY <1>1 DEF BillingTypes
    <3>2. Tail(notices) \in Seq(Orgs \X (Plans \cup {None})) BY <2>1, <3>1
    <3> QED BY <2>1, <3>1, <3>2
  <2>4. BillingTypes' BY <1>1, <2>1, <2>2, <2>3, Zenon DEF BillingTypes
  <2>5. faults' \in 0 .. MaxFaults BY <1>1, <1>4, <2>1 DEF HistoryTypes
  <2>6. HistoryTypes' BY <1>1, <2>1, <2>5, Zenon DEF HistoryTypes
  <2> QED BY <1>3, <2>1, <2>4, <2>6
<1>8. CASE Crash
  <2>1. /\ Fault /\ outbox' = {}
        /\ step' = [t \in Threads |-> "idle"] /\ task' = [t \in Threads |-> Nothing]
        /\ UNCHANGED <<rows, answers, heard, billing, history, workload>>
    BY <1>8 DEF Crash
  <2>2. faults' \in 0 .. MaxFaults /\ outbox' \subseteq Messages \X Hooks BY <1>4, <2>1
  <2>3. HistoryTypes' /\ BillingTypes' /\ AnswerTypes'
    BY <1>1, <2>1, <2>2, Zenon DEF HistoryTypes, BillingTypes, AnswerTypes
  <2>4. Grows /\ RowTypes' BY <1>1, <2>1, RowsStand
  <2>5. ThreadTypes' BY <2>1 DEF ThreadTypes, Steps, Tasks, Nothing
  <2>6. ASSUME NEW u \in Threads
        PROVE  Fits(u)'
    BY <2>1, IdleFits
  <2> QED BY <2>3, <2>4, <2>5, <2>6, Types DEF Fit
<1>9. CASE UNCHANGED vars
  <2>1. HistoryTypes' /\ BillingTypes'
    BY <1>1, <1>9, Zenon DEF vars, HistoryTypes, BillingTypes
  <2> QED BY <1>3, <1>9, <2>1 DEF vars
<1> QED BY <1>2, <1>5, <1>6, <1>7, <1>8, <1>9 DEF Next

\* Before any request.
LEMMA TenantInit ==
  ASSUME Init
  PROVE  TypeOK /\ Fit
<1> USE PlansAssumption
<1>1. RowTypes BY DEF Init, RowTypes
<1>2. HistoryTypes BY DEF Init, HistoryTypes
<1>3. BillingTypes BY DEF Init, BillingTypes
<1>4. ThreadTypes BY DEF Init, ThreadTypes, Steps, Tasks, Nothing
<1>5. AnswerTypes BY DEF Init, AnswerTypes
<1>6. Fit BY DEF Init, Fit, Fits, Nothing, At, None
<1> QED BY <1>1, <1>2, <1>3, <1>4, <1>5, <1>6, Types

\* Which statements write what.
LEMMA Writers ==
  ASSUME Fit, [Next]_vars
  PROVE  /\ UNCHANGED billing \/ SubscriptionChanges \/ HandleNotice
         /\ UNCHANGED <<users, registered>> \/ \E t \in Threads : InsertUser(t)
         /\ UNCHANGED hookOrg \/ \E t \in Threads : InsertHook(t)
         /\ \/ UNCHANGED <<outbox, heard>> \/ Dispatch \/ Crash
            \/ \E t \in Threads : SelectHooks(t)
         /\ \/ UNCHANGED <<gone, known>>
            \/ \E t \in Threads : InsertMessage(t) \/ InsertUserMessage(t)
         /\ UNCHANGED revoked \/ \E t \in Threads : RevokeKey(t)
         /\ UNCHANGED stale \/ \E t \in Threads : InsertMessage(t) \/ UpsertSignal(t)
         /\ UNCHANGED answers \/ \E t \in Threads : FindMessage(t) \/ RereadMessage(t)
         /\ UNCHANGED faults \/ Fault
         /\ \/ UNCHANGED <<step, task>> \/ Crash
            \/ \E t \in Threads : Ask(t) \/ Serve(t) \/ RequestFails(t)
<1>1. ASSUME NEW t \in Threads, Ask(t)
      PROVE  UNCHANGED <<rows, outbox, heard, billing, history, workload, faults, answers>>
  BY <1>1 DEF Ask, AskCreateHook, AskDeleteHook, AskCreateKey, AskRevokeKey, AskPost,
    AskUserPost, AskAboutMessage, AskSignal, AskRegister, Request, RequestWith, Proceed
<1>2. ASSUME NEW t \in Threads, RequestFails(t)
      PROVE  UNCHANGED <<rows, outbox, heard, billing, history, answers>> /\ Fault
  BY <1>2 DEF RequestFails
<1>3. ASSUME NEW t \in Threads, task[t].op # "approve", NEW code, Reply(t, code)
      PROVE  UNCHANGED answers
  BY <1>3 DEF Reply
<1>4. ASSUME NEW t \in Threads,
             \/ ReadPlan(t) \/ CountHooks(t) \/ FindHook(t) \/ FindKey(t) \/ Authenticate(t)
             \/ FindUser(t)
      PROVE  UNCHANGED <<rows, outbox, heard, billing, history, workload, faults, answers>>
  <2>1. UNCHANGED <<rows, outbox, heard, billing, history, workload, faults>>
    BY <1>4 DEF ReadPlan, CountHooks, FindHook, FindKey, Authenticate, FindUser
  <2>2. UNCHANGED answers
    BY <1>3, <1>4 DEF ReadPlan, CountHooks, FindHook, FindKey, Authenticate, FindUser, At, Fit,
      Fits, Continue, Proceed
  <2> QED BY <2>1, <2>2
<1>5. ASSUME NEW t \in Threads, FindMessage(t) \/ RereadMessage(t)
      PROVE  UNCHANGED <<rows, outbox, heard, billing, history, workload, faults>>
  BY <1>5 DEF FindMessage, RereadMessage
<1>6. ASSUME NEW t \in Threads, InsertHook(t)
      PROVE  UNCHANGED <<users, revoked, outbox, heard, billing, history, faults, answers>>
  BY <1>3, <1>6 DEF InsertHook, At
<1>7. ASSUME NEW t \in Threads, DeleteHook(t) \/ InsertKey(t)
      PROVE  UNCHANGED <<hookOrg, users, revoked, outbox, heard, billing, history, faults,
                         answers>>
  BY <1>3, <1>7 DEF DeleteHook, InsertKey, At
<1>8. ASSUME NEW t \in Threads, RevokeKey(t)
      PROVE  UNCHANGED <<hookOrg, users, outbox, heard, billing, history, faults, answers>>
  BY <1>3, <1>8 DEF RevokeKey, At
<1>9. ASSUME NEW t \in Threads, InsertMessage(t)
      PROVE  UNCHANGED <<hookOrg, revoked, users, outbox, heard, billing, registered, faults,
                         answers>>
  BY <1>9 DEF InsertMessage, Proceed
<1>10. ASSUME NEW t \in Threads, InsertUserMessage(t)
       PROVE  UNCHANGED <<hookOrg, revoked, users, outbox, heard, billing, stale, registered,
                          faults, answers>>
  BY <1>3, <1>10 DEF InsertUserMessage, At
<1>11. ASSUME NEW t \in Threads, SelectHooks(t)
       PROVE  UNCHANGED <<rows, billing, history, faults, answers>>
  BY <1>3, <1>11 DEF SelectHooks, At
<1>12. ASSUME NEW t \in Threads, ApproveMessage(t) \/ DeleteMessage(t)
       PROVE  UNCHANGED <<hookOrg, revoked, users, outbox, heard, billing, history, faults,
                          answers>>
  BY <1>3, <1>12 DEF ApproveMessage, DeleteMessage, At, Continue, Proceed
<1>13. ASSUME NEW t \in Threads, UpsertSignal(t)
       PROVE  UNCHANGED <<hookOrg, revoked, users, outbox, heard, billing, gone, known,
                          registered, faults, answers>>
  BY <1>3, <1>13 DEF UpsertSignal, At
<1>14. ASSUME NEW t \in Threads, InsertUser(t)
       PROVE  /\ UNCHANGED <<hookOrg, revoked, outbox, heard, billing, gone, known, stale,
                             answers>>
              /\ UNCHANGED faults \/ Fault
  BY <1>3, <1>14 DEF InsertUser, At
<1>15. CASE \E t \in Threads : Ask(t) \/ Serve(t) \/ RequestFails(t)
  <2>1. PICK t \in Threads : Ask(t) \/ Serve(t) \/ RequestFails(t) BY <1>15
  <2>2. CASE Ask(t) BY <1>1, <1>15, <2>2
  <2>3. CASE RequestFails(t) BY <1>2, <1>15, <2>3
  <2>4. CASE Serve(t)
    BY <1>4, <1>5, <1>6, <1>7, <1>8, <1>9, <1>10, <1>11, <1>12, <1>13, <1>14, <1>15, <2>4
      DEF Serve
  <2> QED BY <2>1, <2>2, <2>3, <2>4
<1>16. CASE Dispatch BY <1>16 DEF Dispatch
<1>17. CASE SubscriptionChanges BY <1>17 DEF SubscriptionChanges
<1>18. CASE HandleNotice BY <1>18 DEF HandleNotice
<1>19. CASE Crash BY <1>19 DEF Crash
<1>20. CASE UNCHANGED vars BY <1>20 DEF vars
<1> QED BY <1>15, <1>16, <1>17, <1>18, <1>19, <1>20 DEF Next

\* The invariant so far.
Tenants == TypeOK /\ Fit

LEMMA TenantsInvariant == Spec => []Tenants
<1>1. Init => Tenants BY TenantInit DEF Tenants
<1>2. Tenants /\ [Next]_vars => Tenants' BY TenantStep DEF Tenants
<1> QED BY <1>1, <1>2, PTL DEF Spec

\* Every variable of the tenants keeps its type; a message that was deleted, or is being
\* worked on, has been posted (the handlers of main.py).
THEOREM TypeCorrect == Spec => []TypeOK
<1>1. Init => TypeOK /\ Fit BY TenantInit
<1>2. TypeOK /\ Fit /\ [Next]_vars => (TypeOK /\ Fit)' BY TenantStep
<1> QED BY <1>1, <1>2, PTL DEF Spec

\* Approving and deleting race without bringing a message back (approve_message and
\* delete_message, whose statements interleave).
THEOREM NoReturn == Spec => DeletedStaysDeleted
<1>1. Init => TypeOK /\ Fit BY TenantInit
<1>2. TypeOK /\ Fit /\ [Next]_vars => (TypeOK /\ Fit)' BY TenantStep
<1>3. TypeOK /\ Fit /\ [Next]_vars =>
        [\A m \in Messages : msgStatus[m] = "deleted" => msgStatus'[m] = "deleted"]_vars
  BY TenantStep DEF Grows
<1> QED BY <1>1, <1>2, <1>3, PTL DEF Spec, DeletedStaysDeleted

-----------------------------------------------------------------------------
(* Accounts and approvals *)

\* However many register a name at the same time, the account keeps the password of the one
\* that was told it has it (register, and the UNIQUE constraint of users).
THEOREM PasswordsKept == Spec => []AccountsKeepTheirPassword
<1> DEFINE I == AccountsKeepTheirPassword
<1>1. Init => I BY DEF Init, AccountsKeepTheirPassword
<1>2. ASSUME Tenants, I, [Next]_vars
      PROVE  I'
  <2>1. RowTypes /\ HistoryTypes /\ Fit BY <1>2, Types DEF Tenants
  <2>2. CASE UNCHANGED <<users, registered>> BY <1>2, <2>2 DEF AccountsKeepTheirPassword
  <2>3. ASSUME NEW t \in Threads, InsertUser(t), ~UNCHANGED <<users, registered>>
        PROVE  I'
    <3>1. /\ task[t].item \in Names /\ task[t].content \in Passwords
          /\ users[task[t].item] = None
          /\ users' = [users EXCEPT ![task[t].item] = task[t].content]
          /\ registered' \subseteq registered \cup {<<task[t].item, task[t].content>>}
      BY <2>1, <2>3 DEF InsertUser, At, Fit, Fits
    <3>2. ASSUME NEW r \in registered
          PROVE  users'[r[1]] = r[2]
      <4>1. r[1] \in Names /\ r[2] \in Passwords BY <2>1 DEF HistoryTypes
      <4>2. users[r[1]] = r[2] BY <1>2 DEF AccountsKeepTheirPassword
      <4>3. r[1] # task[t].item BY <3>1, <4>1, <4>2, PlansAssumption
      <4> QED BY <2>1, <3>1, <4>1, <4>2, <4>3 DEF RowTypes
    <3>3. users'[task[t].item] = task[t].content BY <2>1, <3>1 DEF RowTypes
    <3> QED BY <3>1, <3>2, <3>3 DEF AccountsKeepTheirPassword
  <2> QED BY <2>1, <2>2, <2>3, <1>2, Writers
<1> HIDE DEF I
<1>3. Tenants /\ I /\ [Next]_vars => I' BY <1>2
<1>4. Spec => []I BY <1>1, <1>3, TenantsInvariant, PTL DEF Spec
<1> QED BY <1>4 DEF I

\* An approval answered 200 is in the table unless the message was deleted, and one answered
\* 500 was overtaken by a deletion (approve_message, whose second SELECT follows the commit).
THEOREM AnswersHold == Spec => []ApprovalAnswersHold
<1> DEFINE I == ApprovalAnswersHold
<1>1. Init => I BY DEF Init, ApprovalAnswersHold
<1>2. ASSUME Tenants, I, [Next]_vars
      PROVE  I'
  <2>1. Grows /\ Fit /\ RowTypes /\ AnswerTypes BY <1>2, TenantStep, Types DEF Tenants
  <2>2. SUFFICES ASSUME NEW m \in Messages
                 PROVE  /\ <<m, 200>> \in answers' => msgStatus'[m] \in {"approved", "deleted"}
                        /\ <<m, 500>> \in answers' => msgStatus'[m] = "deleted"
    BY Zenon DEF ApprovalAnswersHold
  <2>3. /\ <<m, 200>> \in answers => msgStatus'[m] \in {"approved", "deleted"}
        /\ <<m, 500>> \in answers => msgStatus'[m] = "deleted"
    BY <1>2, <2>1 DEF ApprovalAnswersHold, Grows
  <2>4. CASE UNCHANGED answers BY <2>3, <2>4
  <2>5. ASSUME NEW t \in Threads, FindMessage(t)
        PROVE  /\ <<m, 200>> \in answers' => <<m, 200>> \in answers
               /\ <<m, 500>> \in answers' => <<m, 500>> \in answers
    <3>1. answers' \subseteq answers \cup {<<task[t].item, 404>>}
      BY <2>5 DEF FindMessage, Reply, Continue, Proceed
    <3> QED BY <3>1
  <2>6. ASSUME NEW t \in Threads, RereadMessage(t)
        PROVE  /\ <<m, 200>> \in answers' => msgStatus'[m] \in {"approved", "deleted"}
               /\ <<m, 500>> \in answers' => msgStatus'[m] = "deleted"
    <3> DEFINE i == task[t].item
    <3>1. /\ i \in Messages /\ msgStatus[i] \in {"approved", "deleted"}
          /\ msgStatus' = msgStatus
          /\ answers' = answers \cup {<<i, IF i \in Rows THEN 200 ELSE 500>>}
      BY <2>1, <2>6 DEF RereadMessage, At, Reply, Fit, Fits
    <3>2. i \notin Rows => msgStatus[i] = "deleted" BY <3>1 DEF Rows, None
    <3> HIDE DEF i
    <3>3. <<m, 200>> \in answers' => <<m, 200>> \in answers \/ m = i BY <3>1
    <3>4. <<m, 500>> \in answers' => <<m, 500>> \in answers \/ (m = i /\ i \notin Rows)
      BY <3>1
    <3> QED BY <2>3, <3>1, <3>2, <3>3, <3>4
  <2>7. UNCHANGED answers \/ \E t \in Threads : FindMessage(t) \/ RereadMessage(t)
    BY <1>2, <2>1, Writers
  <2> QED BY <2>3, <2>4, <2>5, <2>6, <2>7
<1> HIDE DEF I
<1>3. Tenants /\ I /\ [Next]_vars => I' BY <1>2
<1>4. Spec => []I BY <1>1, <1>3, TenantsInvariant, PTL DEF Spec
<1> QED BY <1>4 DEF I

-----------------------------------------------------------------------------
(* Plans *)

\* The events about an organization that name a plan.
About(o) == {i \in 1 .. Len(notices) : notices[i][1] = o /\ notices[i][2] \in Plans}

\* The last of them will bring the plan the organization is subscribed to; without one it
\* has it.
Settling ==
  \A o \in Orgs :
    \/ About(o) = {} /\ plan[o] = subscribed[o]
    \/ \E i \in About(o) : (\A j \in About(o) : j <= i) /\ notices[i][2] = subscribed[o]

LEMMA SettlingStep ==
  ASSUME TypeOK, Fit, Settling, [Next]_vars
  PROVE  Settling'
<1>1. BillingTypes BY Types
<1>2. /\ plan \in [Orgs -> Plans] /\ subscribed \in [Orgs -> Plans] /\ Len(notices) \in Nat
      /\ notices \in Seq(Orgs \X (Plans \cup {None}))
  BY <1>1 DEF BillingTypes
<1>3. CASE UNCHANGED billing BY <1>3 DEF Settling, About
<1>4. CASE SubscriptionChanges
  <2>1. PICK o \in Orgs, p \in Plans \cup {None} :
          /\ notices' = Append(notices, <<o, p>>) /\ plan' = plan
          /\ subscribed' = IF p = None THEN subscribed ELSE [subscribed EXCEPT ![o] = p]
    BY <1>4 DEF SubscriptionChanges
  <2> DEFINE n == Len(notices)
  <2>2. /\ Len(notices') = n + 1 /\ notices'[n + 1] = <<o, p>>
        /\ \A i \in 1 .. n : notices'[i] = notices[i]
    BY <1>2, <2>1
  <2>3. ASSUME NEW q \in Orgs, q # o \/ p = None
        PROVE  About(q)' = About(q) /\ subscribed'[q] = subscribed[q]
    <3>1. n + 1 \notin About(q)' BY <2>2, <2>3, PlansAssumption DEF About
    <3>2. About(q)' = About(q) BY <1>2, <2>2, <3>1 DEF About
    <3>3. subscribed'[q] = subscribed[q] BY <1>2, <2>1, <2>3
    <3> QED BY <3>2, <3>3
  <2>4. ASSUME NEW q \in Orgs, ~(q # o \/ p = None)
        PROVE  n + 1 \in About(q)' /\ subscribed'[q] = p /\ \A j \in About(q)' : j <= n + 1
    <3>1. n + 1 \in About(q)' /\ \A j \in About(q)' : j <= n + 1 BY <1>2, <2>2, <2>4 DEF About
    <3>2. subscribed'[q] = p BY <1>2, <2>1, <2>4
    <3> QED BY <3>1, <3>2
  <2>5. \A q \in Orgs : About(q) \subseteq 1 .. n BY DEF About
  <2> HIDE DEF n
  <2>6. ASSUME NEW q \in Orgs
        PROVE  \/ About(q)' = {} /\ plan'[q] = subscribed'[q]
               \/ \E i \in About(q)' :
                    (\A j \in About(q)' : j <= i) /\ notices'[i][2] = subscribed'[q]
    <3>1. CASE q # o \/ p = None
      <4>1. About(q)' = About(q) /\ subscribed'[q] = subscribed[q] /\ plan'[q] = plan[q]
        BY <2>1, <2>3, <3>1
      <4>2. \A i \in About(q) : notices'[i] = notices[i] BY <2>2, <2>5
      <4> QED BY <4>1, <4>2, Zenon DEF Settling
    <3>2. CASE ~(q # o \/ p = None) BY <2>2, <2>4, <3>2
    <3> QED BY <3>1, <3>2
  <2> QED BY <2>6 DEF Settling
<1>5. CASE HandleNotice
  <2> DEFINE e == Head(notices)
  <2>1. notices # <<>> /\ subscribed' = subscribed BY <1>5 DEF HandleNotice
  <2>2. /\ Len(notices) # 0 /\ e = notices[1] /\ Len(Tail(notices)) = Len(notices) - 1
        /\ \A i \in 1 .. Len(notices) - 1 : Tail(notices)[i] = notices[i + 1]
        /\ e[1] \in Orgs
    BY <1>2, <2>1
  <2>3. CASE UNCHANGED <<plan, notices>> BY <2>1, <2>3 DEF Settling, About
  <2>4. CASE SetOrgPlan(e[1], e[2]) /\ notices' = notices
    <3>1. ASSUME NEW q \in Orgs, plan'[q] # plan[q]
          PROVE  1 \in About(q)
      BY <1>2, <2>2, <2>4, <3>1 DEF SetOrgPlan, About
    <3> QED BY <2>1, <2>4, <3>1 DEF Settling, About
  <2>5. CASE SetOrgPlan(e[1], e[2]) /\ notices' = Tail(notices)
    <3>1. ASSUME NEW q \in Orgs
          PROVE  \/ About(q)' = {} /\ plan'[q] = subscribed[q]
                 \/ \E i \in About(q)' :
                      (\A j \in About(q)' : j <= i) /\ notices'[i][2] = subscribed[q]
      <4>1. \A i : i \in About(q)' <=> i \in Nat \ {0} /\ i + 1 \in About(q)
        BY <1>2, <2>2, <2>5 DEF About
      <4>2. About(q) \subseteq Nat \ {0} BY DEF About
      <4>3. \A i \in About(q)' : notices'[i] = notices[i + 1] BY <1>2, <2>2, <2>5 DEF About
      <4>4. CASE About(q) = {}
        <5>1. 1 \notin About(q) BY <4>4
        <5>2. plan'[q] = plan[q] BY <1>2, <2>2, <2>5, <5>1 DEF SetOrgPlan, About
        <5> QED BY <4>1, <4>4, <5>2 DEF Settling
      <4>5. CASE About(q) # {}
        <5>1. PICK i \in About(q) :
                (\A j \in About(q) : j <= i) /\ notices[i][2] = subscribed[q]
          BY <4>5 DEF Settling
        <5>2. CASE i = 1
          <6>1. About(q)' = {} BY <4>1, <4>2, <5>1, <5>2
          <6>2. e[1] = q /\ e[2] \in Plans /\ e[2] = subscribed[q]
            BY <2>2, <5>1, <5>2 DEF About
          <6>3. plan'[q] = subscribed[q] BY <1>2, <2>5, <6>2 DEF SetOrgPlan
          <6> QED BY <6>1, <6>3
        <5>3. CASE i # 1
          <6>1. i - 1 \in Nat \ {0} /\ (i - 1) + 1 = i BY <4>2, <5>3
          <6>2. i - 1 \in About(q)' BY <4>1, <6>1
          <6>3. \A j \in About(q)' : j <= i - 1
            <7> SUFFICES ASSUME NEW j \in About(q)' PROVE j <= i - 1
              OBVIOUS
            <7>1. j \in Nat \ {0} /\ j + 1 <= i BY <4>1, <5>1
            <7> QED BY <6>1, <7>1
          <6>4. notices'[i - 1][2] = subscribed[q] BY <4>3, <5>1, <6>1, <6>2
          <6> QED BY <6>2, <6>3, <6>4
        <5> QED BY <5>2, <5>3
      <4> QED BY <4>4, <4>5
    <3> QED BY <2>1, <3>1 DEF Settling
  <2> QED BY <1>5, <2>3, <2>4, <2>5 DEF HandleNotice
<1> QED BY <1>3, <1>4, <1>5, Writers

\* With events delivered in order and repeated until answered, an organization without an
\* outstanding event has the plan it is subscribed to (the Stripe and Paystack receivers and
\* set_org_plan), however many updates fail and however many answers are lost.
THEOREM PlansSettle == Spec => []PlanFollowsProvider
<1>1. Init => Settling BY DEF Init, Settling, About
<1>2. Tenants /\ Settling /\ [Next]_vars => Settling' BY SettlingStep DEF Tenants
<1>3. Settling => PlanFollowsProvider BY DEF Settling, PlanFollowsProvider, About
<1> QED BY <1>1, <1>2, <1>3, TenantsInvariant, PTL DEF Spec

-----------------------------------------------------------------------------
(* Deliveries *)

\* What is to be delivered, or has been, is of one organization; a hook that was gone when a
\* message came is deleted, and one that was known is its organization's.
Addressed ==
  /\ \A d \in outbox \cup heard :
       /\ hookOrg[d[2]] \in Orgs /\ msgStatus[d[1]] # None
       /\ msgOrg[d[1]] = hookOrg[d[2]] /\ d[2] \notin gone[d[1]]
  /\ \A m \in Messages : gone[m] \subseteq deleted
  /\ \A m \in Messages : \A h \in known[m] :
       msgStatus[m] # None /\ hookOrg[h] = msgOrg[m] /\ hookOrg[h] # None

LEMMA AddressedStep ==
  ASSUME TypeOK, Fit, Addressed, [Next]_vars
  PROVE  Addressed'
<1>1. Grows /\ RowTypes /\ HistoryTypes BY TenantStep, Types
<1>2. \A d \in Messages \X Hooks : d[1] \in Messages /\ d[2] \in Hooks OBVIOUS
<1>3. ASSUME NEW d \in outbox \cup heard
      PROVE  /\ hookOrg'[d[2]] \in Orgs /\ msgStatus'[d[1]] # None
             /\ msgOrg'[d[1]] = hookOrg'[d[2]] /\ d[2] \notin gone'[d[1]]
  <2>1. d[1] \in Messages /\ d[2] \in Hooks BY <1>1, <1>2 DEF HistoryTypes
  <2>2. hookOrg[d[2]] # None BY PlansAssumption DEF Addressed
  <2> QED BY <1>1, <2>1, <2>2 DEF Addressed, Grows
<1>4. ASSUME NEW d \in (outbox \cup heard)', d \notin outbox \cup heard
      PROVE  /\ hookOrg'[d[2]] \in Orgs /\ msgStatus'[d[1]] # None
             /\ msgOrg'[d[1]] = hookOrg'[d[2]] /\ d[2] \notin gone'[d[1]]
  <2>1. ~Dispatch /\ ~Crash /\ ~UNCHANGED <<outbox, heard>> BY <1>4 DEF Dispatch, Crash
  <2>2. PICK t \in Threads : SelectHooks(t) BY <2>1, Writers
  <2>3. /\ task[t].item \in Messages /\ msgStatus[task[t].item] # None
        /\ task[t].org \in Orgs /\ msgOrg[task[t].item] = task[t].org
    BY <2>2 DEF SelectHooks, Fit, Fits, At
  <2>4. d \in {task[t].item} \X HooksOf(task[t].org) /\ UNCHANGED <<rows, history>>
    BY <1>4, <2>2 DEF SelectHooks
  <2>5. d[1] = task[t].item /\ hookOrg[d[2]] = task[t].org /\ d[2] \notin deleted
    BY <2>4 DEF HooksOf, HookRows
  <2>6. d[2] \notin gone[d[1]] BY <2>3, <2>5 DEF Addressed
  <2> QED BY <2>3, <2>4, <2>5, <2>6
<1>5. ASSUME NEW m \in Messages, NEW o \in Orgs \cup {NoOrg}, NewMessage(m, o),
             UNCHANGED <<hookOrg, deleted>>
      PROVE  /\ \A i \in Messages : gone'[i] \subseteq deleted'
             /\ \A i \in Messages : \A h \in known'[i] :
                  msgStatus'[i] # None /\ hookOrg'[h] = msgOrg'[i] /\ hookOrg'[h] # None
  <2>1. o # None BY PlansAssumption
  <2>2. /\ gone' = [gone EXCEPT ![m] = deleted] /\ known' = [known EXCEPT ![m] = HooksOf(o)]
        /\ msgStatus' = [msgStatus EXCEPT ![m] = "pending"]
        /\ msgOrg' = [msgOrg EXCEPT ![m] = o]
    BY <1>5 DEF NewMessage
  <2>3. \A h \in HooksOf(o) : hookOrg[h] = o BY DEF HooksOf
  <2>4. /\ gone'[m] = deleted /\ known'[m] = HooksOf(o) /\ msgStatus'[m] = "pending"
        /\ msgOrg'[m] = o
    BY <1>1, <2>2 DEF HistoryTypes, RowTypes
  <2>5. ASSUME NEW i \in Messages, i # m
        PROVE  /\ gone'[i] = gone[i] /\ known'[i] = known[i] /\ msgStatus'[i] = msgStatus[i]
               /\ msgOrg'[i] = msgOrg[i]
    BY <1>1, <2>2, <2>5 DEF HistoryTypes, RowTypes
  <2> QED BY <1>5, <2>1, <2>3, <2>4, <2>5 DEF Addressed, None
<1>6. ASSUME UNCHANGED <<gone, known>>
      PROVE  /\ \A i \in Messages : gone'[i] \subseteq deleted'
             /\ \A i \in Messages : \A h \in known'[i] :
                  msgStatus'[i] # None /\ hookOrg'[h] = msgOrg'[i] /\ hookOrg'[h] # None
  <2>1. \A i \in Messages : known[i] \subseteq Hooks BY <1>1 DEF HistoryTypes
  <2> QED BY <1>1, <1>6, <2>1 DEF Addressed, Grows
<1>7. ASSUME NEW t \in Threads, InsertMessage(t) \/ InsertUserMessage(t)
      PROVE  \E m \in Messages, o \in Orgs \cup {NoOrg} :
               NewMessage(m, o) /\ UNCHANGED <<hookOrg, deleted>>
  <2>1. CASE InsertMessage(t)
    <3>1. task[t].org = keyOrg[task[t].item] /\ task[t].item \in KeyRows
      BY <2>1 DEF InsertMessage, Fit, Fits, At
    <3>2. task[t].org \in Orgs BY <1>1, <3>1 DEF RowTypes, KeyRows
    <3> QED BY <2>1, <3>2 DEF InsertMessage
  <2>2. CASE InsertUserMessage(t) BY <2>2 DEF InsertUserMessage
  <2> QED BY <1>7, <2>1, <2>2
<1>8. /\ \A i \in Messages : gone'[i] \subseteq deleted'
      /\ \A i \in Messages : \A h \in known'[i] :
           msgStatus'[i] # None /\ hookOrg'[h] = msgOrg'[i] /\ hookOrg'[h] # None
  BY <1>5, <1>6, <1>7, Writers
<1> QED BY <1>3, <1>4, <1>8 DEF Addressed

LEMMA AddressedAlways == Spec => []Addressed
<1>1. Init => Addressed BY DEF Init, Addressed
<1>2. Tenants /\ Addressed /\ [Next]_vars => Addressed' BY AddressedStep DEF Tenants
<1> QED BY <1>1, <1>2, TenantsInvariant, PTL DEF Spec

\* A message only ever goes to webhooks of the organization that posted it, none of them
\* deleted before it came (create_org_message and dispatch_webhook, whose background tasks
\* outlive requests, revocations and deletions).
THEOREM OwnHooks == Spec => []OnlyOwnHooksHear
<1>1. Addressed => OnlyOwnHooksHear BY DEF Addressed, OnlyOwnHooksHear
<1> QED BY <1>1, AddressedAlways, PTL

\* A post that still has its hooks to read goes on having them, unless it reads them or
\* something fails.
LEMMA StillReading ==
  ASSUME TypeOK, Fit, [Next]_vars, faults' = 0, NEW t \in Threads, At(t, "post", "hooks")
  PROVE  SelectHooks(t) \/ (At(t, "post", "hooks")' /\ task'[t] = task[t])
<1>1. faults \in Nat BY Types DEF HistoryTypes
<1>2. ~Fault /\ ~Crash BY <1>1 DEF Fault, Crash
<1>3. CASE UNCHANGED <<step, task>> BY <1>3 DEF At
<1>4. ASSUME NEW u \in Threads, Ask(u) \/ Serve(u) \/ RequestFails(u)
      PROVE  SelectHooks(t) \/ (At(t, "post", "hooks")' /\ task'[t] = task[t])
  <2>1. CASE u # t
    <3>1. Elsewhere(u) BY <1>4, ThreadStep DEF Kept, Fit
    <3> QED BY <2>1, <3>1 DEF Elsewhere, At
  <2>2. CASE u = t
    <3>1. ~RequestFails(t) BY <1>2 DEF RequestFails
    <3>2. ~Ask(t)
      BY DEF At, Ask, AskCreateHook, AskDeleteHook, AskCreateKey, AskRevokeKey, AskPost,
        AskUserPost, AskAboutMessage, AskSignal, AskRegister, Request, RequestWith
    <3>3. Serve(t) => SelectHooks(t)
      BY DEF At, Serve, ReadPlan, CountHooks, InsertHook, FindHook, DeleteHook, InsertKey,
        FindKey, RevokeKey, Authenticate, InsertMessage, InsertUserMessage, FindMessage,
        ApproveMessage, RereadMessage, DeleteMessage, UpsertSignal, FindUser, InsertUser
    <3> QED BY <1>4, <2>2, <3>1, <3>2, <3>3
  <2> QED BY <2>1, <2>2
<1> QED BY <1>2, <1>3, <1>4, Writers

LEMMA HearingStep ==
  ASSUME TypeOK, Fit, Addressed, EveryHookHears, [Next]_vars
  PROVE  EveryHookHears'
<1>1. Grows /\ RowTypes /\ HistoryTypes BY TenantStep, Types
<1>2. SUFFICES ASSUME faults' = 0, NEW m \in Messages, NEW h \in known'[m], h \notin deleted'
               PROVE  \/ <<m, h>> \in (outbox \cup heard)'
                      \/ \E t \in Threads : At(t, "post", "hooks")' /\ task'[t].item = m
  BY Zenon DEF EveryHookHears, At
<1>3. ~Fault /\ ~Crash /\ faults = 0
  <2>1. faults \in Nat BY <1>1 DEF HistoryTypes
  <2>2. ~Fault /\ ~Crash BY <1>2, <2>1 DEF Fault, Crash
  <2> QED BY <1>2, <2>2, Writers
<1>4. outbox \cup heard \subseteq (outbox \cup heard)'
  <2>1. Dispatch => outbox \cup heard \subseteq (outbox \cup heard)' BY <1>3 DEF Dispatch
  <2>2. \A t \in Threads : SelectHooks(t) => outbox \cup heard \subseteq (outbox \cup heard)'
    BY DEF SelectHooks
  <2> QED BY <1>3, <2>1, <2>2, Writers
<1>5. CASE h \in known[m]
  <2>1. h \notin deleted BY <1>1, <1>2 DEF Grows
  <2>2. CASE <<m, h>> \in outbox \cup heard BY <1>4, <2>2
  <2>3. ASSUME NEW t \in Threads, At(t, "post", "hooks"), task[t].item = m
        PROVE  \/ <<m, h>> \in (outbox \cup heard)'
               \/ \E u \in Threads : At(u, "post", "hooks")' /\ task'[u].item = m
    <3>1. CASE SelectHooks(t)
      <4>1. msgOrg[m] = task[t].org BY <2>3 DEF Fit, Fits
      <4>2. h \in Hooks BY <1>1, <1>5 DEF HistoryTypes
      <4>3. h \in HooksOf(task[t].org)
        BY <1>5, <2>1, <4>1, <4>2 DEF HooksOf, HookRows, Addressed
      <4> QED BY <2>3, <3>1, <4>3 DEF SelectHooks
    <3>2. CASE At(t, "post", "hooks")' /\ task'[t] = task[t] BY <2>3, <3>2
    <3> QED BY <1>2, <2>3, <3>1, <3>2, StillReading
  <2> QED BY <1>3, <1>5, <2>1, <2>2, <2>3 DEF EveryHookHears
<1>6. CASE h \notin known[m]
  <2>1. ~UNCHANGED <<gone, known>> BY <1>2, <1>6
  <2>2. PICK t \in Threads : InsertMessage(t) \/ InsertUserMessage(t) BY <2>1, Writers
  <2>3. CASE InsertMessage(t)
    <3>1. PICK i \in Messages : /\ NewMessage(i, task[t].org)
                                /\ Proceed(t, "hooks", [task[t] EXCEPT !.item = i])
      BY <2>3 DEF InsertMessage
    <3>2. i = m BY <1>1, <1>2, <1>6, <3>1 DEF NewMessage, HistoryTypes
    <3>3. step[t] = "insert" /\ task[t].op = "post" /\ task[t] \in Tasks /\ ThreadTypes
      BY <2>3, Types DEF InsertMessage, At, ThreadTypes
    <3>4. step'[t] = "hooks" /\ task'[t] = [task[t] EXCEPT !.item = i]
      BY <3>1, <3>3 DEF Proceed, Goto, ThreadTypes
    <3>5. task'[t].op = "post" /\ task'[t].item = m BY <3>2, <3>3, <3>4 DEF Tasks
    <3> QED BY <3>4, <3>5 DEF At
  <2>4. CASE InsertUserMessage(t)
    <3>1. PICK i \in Messages : NewMessage(i, NoOrg) BY <2>4 DEF InsertUserMessage
    <3>2. h \in HooksOf(NoOrg) BY <1>1, <1>2, <1>6, <3>1 DEF NewMessage, HistoryTypes
    <3>3. hookOrg[h] = NoOrg /\ h \in Hooks BY <3>2 DEF HooksOf, HookRows
    <3> QED BY <1>1, <3>3, PlansAssumption DEF RowTypes
  <2> QED BY <2>2, <2>3, <2>4
<1> QED BY <1>5, <1>6

\* Unless something fails, every webhook registered before a message and not deleted hears of
\* it (create_org_message, which reads the hooks only after the message is committed).
THEOREM EveryoneHears == Spec => []EveryHookHears
<1>1. Init => EveryHookHears BY DEF Init, EveryHookHears
<1>2. Tenants /\ Addressed /\ EveryHookHears /\ [Next]_vars => EveryHookHears'
  BY HearingStep DEF Tenants
<1> QED BY <1>1, <1>2, TenantsInvariant, AddressedAlways, PTL DEF Spec

-----------------------------------------------------------------------------
(* Counts *)

\* What is counted of a finite set, and what is counted less when one is left out.
LEMMA Counts ==
  ASSUME NEW U, IsFiniteSet(U), NEW S \in SUBSET U
  PROVE  /\ Cardinality(S) \in Nat /\ Cardinality(S) <= Cardinality(U)
         /\ \A T \in SUBSET S : /\ Cardinality(T) \in Nat /\ Cardinality(T) <= Cardinality(S)
                                /\ \A x \in S : x \notin T =>
                                     Cardinality(T) + 1 <= Cardinality(S)
         /\ \A x : Cardinality(S \cup {x}) \in Nat
                   /\ Cardinality(S \cup {x}) <= Cardinality(S) + 1
<1>1. IsFiniteSet(S) /\ Cardinality(S) <= Cardinality(U) BY FS_Subset
<1>2. Cardinality(S) \in Nat BY <1>1, FS_CardinalityType
<1>3. ASSUME NEW T \in SUBSET S
      PROVE  /\ Cardinality(T) \in Nat /\ Cardinality(T) <= Cardinality(S)
             /\ \A x \in S : x \notin T => Cardinality(T) + 1 <= Cardinality(S)
  <2>1. IsFiniteSet(T) /\ Cardinality(T) <= Cardinality(S) BY <1>1, FS_Subset
  <2>2. Cardinality(T) \in Nat BY <2>1, FS_CardinalityType
  <2>3. ASSUME NEW x \in S, x \notin T
        PROVE  Cardinality(T) + 1 <= Cardinality(S)
    <3>1. Cardinality(T \cup {x}) = Cardinality(T) + 1 BY <2>1, <2>3, FS_AddElement
    <3>2. T \cup {x} \in SUBSET S BY <2>3
    <3>3. Cardinality(T \cup {x}) <= Cardinality(S) BY <1>1, <3>2, FS_Subset
    <3> QED BY <3>1, <3>3
  <2> QED BY <2>1, <2>2, <2>3
<1>4. ASSUME NEW x
      PROVE  Cardinality(S \cup {x}) \in Nat /\ Cardinality(S \cup {x}) <= Cardinality(S) + 1
  <2>1. CASE x \in S
    <3>1. S \cup {x} = S BY <2>1
    <3> QED BY <1>2, <3>1
  <2>2. CASE x \notin S
    <3>1. Cardinality(S \cup {x}) = Cardinality(S) + 1 BY <1>1, <2>2, FS_AddElement
    <3> QED BY <1>2, <3>1
  <2> QED BY <2>1, <2>2
<1> QED BY <1>1, <1>2, <1>3, <1>4

\* There are threads to count, and hooks.
LEMMA Servers ==
  /\ Cardinality(Threads) \in Nat /\ Cardinality(Threads) # 0
  /\ Cardinality(Hooks) \in Nat
<1>1. Cardinality(Threads) \in Nat /\ Cardinality(Hooks) \in Nat
  BY FS_CardinalityType, PlansAssumption
<1>2. Cardinality(Threads) # 0 BY FS_EmptySet, PlansAssumption
<1> QED BY <1>1, <1>2

\* A thread comes to its INSERT only by being let through.
LEMMA Entering ==
  ASSUME TypeOK, Fit, [Next]_vars, NEW t \in Threads, step'[t] = "insert"
  PROVE  (step'[t] = step[t] /\ task'[t] = task[t]) \/ Enters(t)
<1>1. CASE UNCHANGED <<step, task>> BY <1>1
<1>2. CASE Crash BY <1>2 DEF Crash
<1>3. ASSUME NEW u \in Threads, Ask(u) \/ Serve(u) \/ RequestFails(u)
      PROVE  (step'[t] = step[t] /\ task'[t] = task[t]) \/ Enters(t)
  <2>1. Elsewhere(u) /\ Enters(u) BY <1>3, ThreadStep DEF Fit, Kept
  <2> QED BY <2>1 DEF Elsewhere
<1> QED BY <1>1, <1>2, <1>3, Writers

\* The requests a key has been let through with.
Through(k) == {t \in Threads : /\ task[t].op \in {"post", "signal"}
                               /\ step[t] = "insert" /\ task[t].item = k}

\* Nothing is stale before a revocation, and after it only what was let through before.
Dated ==
  /\ \A k \in Keys : k \notin revoked => stale[k] = 0
  /\ \A k \in revoked : stale[k] + Cardinality(Through(k)) + 1 <= Cardinality(Threads)

LEMMA DatedStep ==
  ASSUME TypeOK, Fit, Dated, [Next]_vars
  PROVE  Dated'
<1>1. Grows /\ RowTypes /\ HistoryTypes /\ ThreadTypes BY TenantStep, Types
<1>2. /\ revoked \subseteq Keys /\ \A k \in Keys : stale[k] \in Nat
      /\ stale \in [Keys -> Nat]
  BY <1>1 DEF RowTypes, KeyRows, HistoryTypes
<1>3. \A k : Through(k) \in SUBSET Threads /\ Through(k)' \in SUBSET Threads BY DEF Through
<1>4. ASSUME NEW k \in revoked
      PROVE  Through(k)' \subseteq Through(k)
  <2>1. ASSUME NEW t \in Through(k)'
        PROVE  t \in Through(k)
    <3>1. /\ t \in Threads /\ task'[t].op \in {"post", "signal"} /\ step'[t] = "insert"
          /\ task'[t].item = k
      BY <2>1 DEF Through
    <3>2. ~Enters(t) BY <3>1 DEF Enters
    <3>3. step'[t] = step[t] /\ task'[t] = task[t] BY <3>1, <3>2, Entering
    <3> QED BY <3>1, <3>3 DEF Through
  <2> QED BY <2>1
<1>5. ASSUME NEW t \in Threads, InsertMessage(t) \/ UpsertSignal(t)
      PROVE  /\ t \in Through(task[t].item) /\ NoteStale(t) /\ UNCHANGED revoked
             /\ \A k : t \notin Through(k)'
  <2>1. step[t] = "insert" /\ task[t].op \in {"post", "signal"} /\ NoteStale(t)
        /\ UNCHANGED revoked
    BY <1>5 DEF InsertMessage, UpsertSignal, At
  <2>2. step'[t] # "insert"
    BY <1>1, <1>5 DEF InsertMessage, UpsertSignal, Proceed, Reply, Leave, Goto, ThreadTypes
  <2> QED BY <2>1, <2>2 DEF Through
<1>6. ASSUME NEW k \in Keys, k \notin revoked'
      PROVE  stale'[k] = 0
  <2>1. k \notin revoked BY <1>1, <1>6 DEF Grows
  <2>2. stale'[k] = stale[k]
    <3>1. CASE UNCHANGED stale BY <3>1
    <3>2. ASSUME NEW t \in Threads, InsertMessage(t) \/ UpsertSignal(t)
          PROVE  stale'[k] = stale[k]
      <4>1. NoteStale(t) BY <1>5, <3>2
      <4> QED BY <1>2, <2>1, <4>1 DEF NoteStale
    <3> QED BY <3>1, <3>2, Writers
  <2> QED BY <1>6, <2>1, <2>2 DEF Dated
<1>7. ASSUME NEW k \in revoked
      PROVE  stale'[k] + Cardinality(Through(k)') + 1 <= Cardinality(Threads)
  <2>1. /\ Cardinality(Through(k)) \in Nat /\ Cardinality(Through(k)') \in Nat
        /\ Cardinality(Through(k)') <= Cardinality(Through(k))
        /\ \A t \in Through(k) : t \notin Through(k)' =>
             Cardinality(Through(k)') + 1 <= Cardinality(Through(k))
    BY <1>3, <1>4, Counts, PlansAssumption
  <2>2. stale[k] + Cardinality(Through(k)) + 1 <= Cardinality(Threads) /\ stale[k] \in Nat
    BY <1>2 DEF Dated
  <2>3. CASE stale'[k] = stale[k] BY <2>1, <2>2, <2>3, Servers
  <2>4. CASE stale'[k] # stale[k]
    <3>1. PICK t \in Threads : InsertMessage(t) \/ UpsertSignal(t) BY <2>4, Writers
    <3>2. NoteStale(t) /\ t \in Through(task[t].item) /\ t \notin Through(k)' BY <1>5, <3>1
    <3>3. task[t].item = k /\ stale'[k] = stale[k] + 1 BY <1>2, <2>4, <3>2 DEF NoteStale
    <3>4. Cardinality(Through(k)') + 1 <= Cardinality(Through(k)) BY <2>1, <3>2, <3>3
    <3> QED BY <2>1, <2>2, <3>3, <3>4, Servers
  <2> QED BY <2>3, <2>4
<1>8. ASSUME NEW k \in revoked', k \notin revoked
      PROVE  stale'[k] + Cardinality(Through(k)') + 1 <= Cardinality(Threads)
  <2>1. PICK t \in Threads : RevokeKey(t) BY <1>8, Writers
  <2>2. /\ task[t].item \in KeyRows /\ revoked' = revoked \cup {task[t].item}
        /\ stale' = stale /\ Reply(t, 200)
    BY <2>1 DEF RevokeKey, At, Fit, Fits
  <2>3. k \in Keys /\ stale'[k] = 0 BY <1>8, <2>2 DEF KeyRows, Dated
  <2>4. step'[t] = "idle" BY <1>1, <2>2 DEF Reply, Leave, Goto, ThreadTypes
  <2>5. t \notin Through(k)' BY <2>4 DEF Through
  <2>6. Cardinality(Through(k)') \in Nat /\ Cardinality(Through(k)') + 1 <= Cardinality(Threads)
    <3>1. Threads \in SUBSET Threads OBVIOUS
    <3> QED BY <1>3, <2>5, <3>1, Counts, PlansAssumption
  <2> QED BY <2>3, <2>6, Servers
<1>9. \A k \in revoked' : stale'[k] + Cardinality(Through(k)') + 1 <= Cardinality(Threads)
  BY <1>7, <1>8
<1>10. \A k \in Keys : k \notin revoked' => stale'[k] = 0 BY <1>6
<1> QED BY <1>9, <1>10 DEF Dated

\* A revoked key brings in no more than the other threads had let through with it
\* (get_org_by_api_key is asked in a connection of its own, before the INSERT).
THEOREM FewStale == Spec => []StaleRequestsBounded
<1>1. Init => Dated BY DEF Init, Dated
<1>2. Tenants /\ Dated /\ [Next]_vars => Dated' BY DatedStep DEF Tenants
<1>3. Dated => StaleRequestsBounded BY DEF Dated, StaleRequestsBounded, Through
<1> QED BY <1>1, <1>2, <1>3, TenantsInvariant, PTL DEF Spec

\* The requests that have counted the hooks of an organization and found room.
Counted(o) == {t \in Threads : At(t, "createHook", "insert") /\ task[t].org = o}

\* With the hooks these will insert, some plan's limit is passed by less than the threads.
RoomFor ==
  \A o \in Orgs : \E p \in Plans :
    Cardinality(HooksOf(o)) + Cardinality(Counted(o)) + 1
      <= MaxWebhooks[p] + Cardinality(Threads)

LEMMA RoomStep ==
  ASSUME TypeOK, Fit, RoomFor, [Next]_vars
  PROVE  RoomFor'
<1>1. Grows /\ RowTypes /\ ThreadTypes /\ RowTypes' BY TenantStep, Types
<1> SUFFICES ASSUME NEW o \in Orgs
             PROVE  \E p \in Plans :
                      Cardinality(HooksOf(o)') + Cardinality(Counted(o)') + 1
                        <= MaxWebhooks[p] + Cardinality(Threads)
  BY DEF RoomFor
<1>2. /\ HooksOf(o) \in SUBSET Hooks /\ HooksOf(o)' \in SUBSET Hooks
      /\ Counted(o) \in SUBSET Threads /\ Counted(o)' \in SUBSET Threads
  BY DEF HooksOf, HookRows, Counted
<1>3. /\ Cardinality(HooksOf(o)) \in Nat /\ Cardinality(HooksOf(o)') \in Nat
      /\ Cardinality(Counted(o)) \in Nat /\ Cardinality(Counted(o)') \in Nat
      /\ Cardinality(Counted(o)') <= Cardinality(Threads)
      /\ Cardinality(Threads) \in Nat /\ \A p \in Plans : MaxWebhooks[p] \in Nat
  BY <1>2, Counts, Servers, PlansAssumption
<1>4. UNCHANGED hookOrg =>
        /\ HooksOf(o)' \in SUBSET HooksOf(o)
        /\ Cardinality(HooksOf(o)') <= Cardinality(HooksOf(o))
  <2>1. UNCHANGED hookOrg => HooksOf(o)' \in SUBSET HooksOf(o)
    BY <1>1 DEF HooksOf, HookRows, Grows
  <2> QED BY <1>2, <2>1, Counts, PlansAssumption
<1>5. ASSUME NEW t \in Threads, InsertHook(t)
      PROVE  step'[t] = "idle" /\ Elsewhere(t)
  BY <1>1, <1>5 DEF InsertHook, Reply, Leave, Goto, ThreadTypes, Elsewhere
<1>6. PICK p \in Plans : Cardinality(HooksOf(o)) + Cardinality(Counted(o)) + 1
                           <= MaxWebhooks[p] + Cardinality(Threads)
  BY DEF RoomFor
<1>7. CASE Counted(o)' \subseteq Counted(o)
  <2>1. /\ Cardinality(Counted(o)') <= Cardinality(Counted(o))
        /\ \A t \in Counted(o) : t \notin Counted(o)' =>
             Cardinality(Counted(o)') + 1 <= Cardinality(Counted(o))
    BY <1>2, <1>7, Counts, PlansAssumption
  <2>2. CASE Cardinality(HooksOf(o)') <= Cardinality(HooksOf(o))
    BY <1>3, <1>6, <2>1, <2>2
  <2>3. ASSUME NEW t \in Threads, InsertHook(t)
        PROVE  Cardinality(HooksOf(o)') + Cardinality(Counted(o)')
                 <= Cardinality(HooksOf(o)) + Cardinality(Counted(o))
    <3>1. PICK h \in Hooks : hookOrg[h] = None /\ hookOrg' = [hookOrg EXCEPT ![h] = task[t].org]
      BY <2>3 DEF InsertHook
    <3>2. UNCHANGED deleted BY <2>3 DEF InsertHook
    <3>3. CASE task[t].org = o
      <4>1. HooksOf(o)' \in SUBSET (HooksOf(o) \cup {h})
        BY <1>1, <3>1, <3>2 DEF HooksOf, HookRows, RowTypes
      <4>2. HooksOf(o) \cup {h} \in SUBSET Hooks BY <1>2
      <4>3. Cardinality(HooksOf(o)') <= Cardinality(HooksOf(o) \cup {h})
        BY <4>1, <4>2, Counts, PlansAssumption
      <4>4. /\ Cardinality(HooksOf(o) \cup {h}) \in Nat
            /\ Cardinality(HooksOf(o) \cup {h}) <= Cardinality(HooksOf(o)) + 1
        BY <1>2, Counts, PlansAssumption
      <4>5. t \in Counted(o) BY <2>3, <3>3 DEF InsertHook, Counted
      <4>6. t \notin Counted(o)' BY <1>5, <2>3 DEF Counted, At
      <4> QED BY <1>3, <2>1, <4>3, <4>4, <4>5, <4>6
    <3>4. CASE task[t].org # o
      <4>1. HooksOf(o)' \in SUBSET HooksOf(o)
        BY <1>1, <3>1, <3>2, <3>4 DEF HooksOf, HookRows, RowTypes
      <4>2. Cardinality(HooksOf(o)') <= Cardinality(HooksOf(o))
        BY <1>2, <4>1, Counts, PlansAssumption
      <4> QED BY <1>3, <2>1, <4>2
    <3> QED BY <3>3, <3>4
  <2>4. CASE \E t \in Threads : InsertHook(t) BY <1>3, <1>6, <2>3, <2>4
  <2> QED BY <1>4, <2>2, <2>4, Writers
<1>8. ASSUME NEW t \in Counted(o)', t \notin Counted(o)
      PROVE  \E q \in Plans :
               Cardinality(HooksOf(o)') + Cardinality(Counted(o)') + 1
                 <= MaxWebhooks[q] + Cardinality(Threads)
  <2>1. /\ t \in Threads /\ step'[t] = "insert" /\ task'[t].op = "createHook"
        /\ task'[t].org = o
    BY <1>8 DEF Counted, At
  <2>2. ~(step'[t] = step[t] /\ task'[t] = task[t])
    BY <1>8, <2>1 DEF Counted, At
  <2>3. /\ step[t] = "count" /\ task[t].org = o
        /\ ~(Cardinality(HooksOf(o)) >= task[t].limit)
    BY <2>1, <2>2, Entering DEF Enters, At
  <2>4. task[t].limit \in {MaxWebhooks[q] : q \in Plans} \cup {0}
    BY <1>1, <2>1 DEF ThreadTypes, Tasks
  <2>5. PICK q \in Plans : task[t].limit = MaxWebhooks[q] BY <1>3, <2>3, <2>4
  <2>6. Cardinality(HooksOf(o)) + 1 <= MaxWebhooks[q] BY <1>3, <2>3, <2>5
  <2>7. UNCHANGED hookOrg
    <3>1. ASSUME NEW u \in Threads, InsertHook(u)
          PROVE  FALSE
      <4>1. u # t BY <1>5, <2>1, <3>1
      <4> QED BY <1>5, <2>1, <2>3, <3>1, <4>1 DEF Elsewhere
    <3> QED BY <3>1, Writers
  <2> QED BY <1>3, <1>4, <2>6, <2>7
<1> QED BY <1>7, <1>8

\* Requests that count at the same time pass the largest limit by no more than the number of
\* the other threads (create_webhook, which counts and inserts without a lock).
THEOREM FewTooMany == Spec => []OvershootBounded
<1>1. Init => RoomFor
  <2> SUFFICES ASSUME Init, NEW o \in Orgs
               PROVE  Cardinality(HooksOf(o)) + Cardinality(Counted(o)) + 1
                        <= MaxWebhooks[Free] + Cardinality(Threads)
    BY PlansAssumption DEF RoomFor
  <2>1. HooksOf(o) = {} /\ Counted(o) = {} BY DEF Init, HooksOf, HookRows, Counted, At
  <2>2. Cardinality(HooksOf(o)) = 0 /\ Cardinality(Counted(o)) = 0 BY <2>1, FS_EmptySet
  <2>3. MaxWebhooks[Free] \in Nat BY PlansAssumption
  <2> QED BY <2>2, <2>3, Servers
<1>2. Tenants /\ RoomFor /\ [Next]_vars => RoomFor' BY RoomStep DEF Tenants
<1>3. Tenants /\ RoomFor => OvershootBounded
  <2> SUFFICES ASSUME RoomFor, NEW o \in Orgs
               PROVE  \E p \in Plans :
                        Cardinality(HooksOf(o)) + 1 <= MaxWebhooks[p] + Cardinality(Threads)
    BY DEF OvershootBounded
  <2>1. PICK p \in Plans : Cardinality(HooksOf(o)) + Cardinality(Counted(o)) + 1
                             <= MaxWebhooks[p] + Cardinality(Threads)
    BY DEF RoomFor
  <2>2. HooksOf(o) \in SUBSET Hooks /\ Counted(o) \in SUBSET Threads
    BY DEF HooksOf, HookRows, Counted
  <2>3. Cardinality(HooksOf(o)) \in Nat /\ Cardinality(Counted(o)) \in Nat
    BY <2>2, Counts, PlansAssumption
  <2>4. MaxWebhooks[p] \in Nat BY PlansAssumption
  <2> QED BY <2>1, <2>3, <2>4, Servers
<1> QED BY <1>1, <1>2, <1>3, TenantsInvariant, PTL DEF Spec
=============================================================================
