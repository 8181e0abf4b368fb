------------------------------- MODULE Tenancy -------------------------------
(***************************************************************************)
(* The multi-tenant part of main.py.  The handlers are plain functions run *)
(* in a thread pool, each with its own READ COMMITTED connection, so that  *)
(* two requests interleave between any two SQL statements.  A statement    *)
(* followed by its commit is one step: nothing is visible in between.      *)
(*                                                                         *)
(* Organizations are fixed, and each is called by its owner, while names   *)
(* are registered by whoever comes first.  Ids are SERIAL: an id is used   *)
(* once, by the row that was given it.                                     *)
(***************************************************************************)
EXTENDS Naturals, Sequences, FiniteSets

CONSTANTS
  Threads,      \* requests served at the same time
  Orgs, Keys, Hooks, Messages,  \* ids that rows may be given
  Names, Passwords,  \* of accounts to register
  Bundles,      \* what may be posted as evidence of a launch
  NoOrg,        \* the org_id of a message posted by a user
  Plans, Free,  \* PLANS, and "free" among them
  MaxWebhooks,  \* PLANS[p]["max_webhooks"]
  Workloads,    \* sets of operations of which one is called for during a behaviour
  MaxNotices,   \* bound on billing events under way
  MaxFaults     \* bound on lost connections, lost replies and crashes

None == "none"

ASSUME PlansAssumption ==
  /\ IsFiniteSet(Threads) /\ Threads # {} /\ IsFiniteSet(Hooks)
  /\ Free \in Plans /\ NoOrg \notin Orgs
  /\ None \notin Orgs \cup {NoOrg} \cup Plans \cup Passwords
  /\ MaxWebhooks \in [Plans -> Nat]
  /\ Workloads \subseteq SUBSET {"createHook", "deleteHook", "createKey", "revokeKey", "post",
                                 "userPost", "approve", "deleteMessage", "billing", "register",
                                 "signal"}
  /\ MaxNotices \in Nat /\ MaxFaults \in Nat

VARIABLES
  plan,                  \* organizations.plan
  keyOrg, revoked,       \* api_keys: org_id; the keys with active = FALSE
  hookOrg, deleted,      \* webhooks: org_id; the hooks whose row has been deleted
  msgOrg, msgStatus,     \* messages: org_id and status
  users,                 \* users: the password of each name
  signals,               \* solana_signals: the result of each organization's launch
  step, task,            \* of each thread: next statement; what it works on
  outbox, heard,         \* background tasks not yet run; deliveries, of <<message, hook>>
  subscribed, notices,   \* the provider's view of each plan; events not yet acknowledged
  gone, known,           \* history: hooks deleted, hooks registered when a message came
  stale,                 \* history: messages and signals a key brought after its revocation
  registered,            \* history: registrations answered, of <<name, password>>
  answers,               \* history: answers to approvals, of <<message, code>>
  workload,              \* what the tenants are doing in this behaviour
  faults

rows    == <<keyOrg, revoked, hookOrg, deleted, msgOrg, msgStatus, users, signals>>
threads == <<step, task, answers>>
billing == <<plan, subscribed, notices>>
history == <<gone, known, stale, registered>>
vars    == <<rows, threads, outbox, heard, billing, history, workload, faults>>

KeyRows == {k \in Keys : keyOrg[k] # None}
HookRows == {h \in Hooks : hookOrg[h] # None /\ h \notin deleted}
HooksOf(o) == {h \in HookRows : hookOrg[h] = o}
Rows == {m \in Messages : msgStatus[m] \notin {None, "deleted"}}

Fault == faults < MaxFaults /\ faults' = faults + 1

Nothing == [op |-> None, org |-> None, item |-> None, content |-> None, limit |-> 0]

Goto(t, s) == step' = [step EXCEPT ![t] = s]

\* The handler's next statement, with what it has read so far.
Proceed(t, s, work) ==
  Goto(t, s) /\ task' = [task EXCEPT ![t] = work] /\ UNCHANGED answers
Continue(t, s) == Proceed(t, s, task[t])

\* The handler returns, or an exception ends it.
Leave(t) == Goto(t, "idle") /\ task' = [task EXCEPT ![t] = Nothing]
Reply(t, code) ==
  /\ Leave(t)
  /\ answers' = IF task[t].op = "approve" THEN answers \cup {<<task[t].item, code>>}
                                          ELSE answers

\* A request arrives, naming an organization, a key, a hook, a message or an account,
\* whichever its endpoint is about, perhaps with some content; `limit' is filled in later.
RequestWith(t, op, first, org, item, content) ==
  /\ step[t] = "idle" /\ op \in workload
  /\ Proceed(t, first, [op |-> op, org |-> org, item |-> item, content |-> content,
                         limit |-> 0])
  /\ UNCHANGED <<rows, outbox, heard, billing, history, workload, faults>>
Request(t, op, first, org, item) == RequestWith(t, op, first, org, item, None)

At(t, op, s) == step[t] = s /\ task[t].op = op

-----------------------------------------------------------------------------
(* Webhooks *)

AskCreateHook(t) == \E o \in Orgs : Request(t, "createHook", "owner", o, None)

\* Mutant of ReadPlan: one webhook more than the plan says.
ReadPlanGenerously(t) ==
  /\ At(t, "createHook", "owner")
  /\ Proceed(t, "count", [task[t] EXCEPT !.limit = MaxWebhooks[plan[task[t].org]] + 1])
  /\ UNCHANGED <<rows, outbox, heard, billing, history, workload, faults>>

\* _require_org_owner reads the organization; its plan gives the limit.
ReadPlan(t) ==
  /\ At(t, "createHook", "owner")
  /\ Proceed(t, "count", [task[t] EXCEPT !.limit = MaxWebhooks[plan[task[t].org]]])
  /\ UNCHANGED <<rows, outbox, heard, billing, history, workload, faults>>

\* Mutant of CountHooks: one hook more than the plan allows.
CountHooksLoosely(t) ==
  /\ At(t, "createHook", "count")
  /\ IF Cardinality(HooksOf(task[t].org)) > task[t].limit
     THEN Reply(t, 402)
     ELSE Continue(t, "insert")
  /\ UNCHANGED <<rows, outbox, heard, billing, history, workload, faults>>

CountHooks(t) ==
  /\ At(t, "createHook", "count")
  /\ IF Cardinality(HooksOf(task[t].org)) >= task[t].limit
     THEN Reply(t, 402)
     ELSE Continue(t, "insert")
  /\ UNCHANGED <<rows, outbox, heard, billing, history, workload, faults>>

InsertHook(t) ==
  /\ At(t, "createHook", "insert")
  /\ \E h \in Hooks : /\ hookOrg[h] = None
                      /\ hookOrg' = [hookOrg EXCEPT ![h] = task[t].org]
  /\ Reply(t, 200)
  /\ UNCHANGED <<keyOrg, revoked, deleted, msgOrg, msgStatus, users, signals, outbox,
                 heard, billing, history, workload, faults>>

AskDeleteHook(t) ==
  \E o \in Orgs, h \in Hooks : hookOrg[h] # None /\ Request(t, "deleteHook", "find", o, h)

FindHook(t) ==
  /\ At(t, "deleteHook", "find")
  /\ IF task[t].item \in HooksOf(task[t].org) THEN Continue(t, "delete") ELSE Reply(t, 404)
  /\ UNCHANGED <<rows, outbox, heard, billing, history, workload, faults>>

\* A row that has gone meanwhile is no error.
DeleteHook(t) ==
  /\ At(t, "deleteHook", "delete")
  /\ deleted' = deleted \cup {task[t].item}
  /\ Reply(t, 200)
  /\ UNCHANGED <<keyOrg, revoked, hookOrg, msgOrg, msgStatus, users, signals, outbox,
                 heard, billing, history, workload, faults>>

-----------------------------------------------------------------------------
(* API keys *)

AskCreateKey(t) == \E o \in Orgs : Request(t, "createKey", "insert", o, None)

InsertKey(t) ==
  /\ At(t, "createKey", "insert")
  /\ \E k \in Keys : keyOrg[k] = None /\ keyOrg' = [keyOrg EXCEPT ![k] = task[t].org]
  /\ Reply(t, 200)
  /\ UNCHANGED <<revoked, hookOrg, deleted, msgOrg, msgStatus, users, signals, outbox,
                 heard, billing, history, workload, faults>>

AskRevokeKey(t) ==
  \E o \in Orgs, k \in KeyRows : Request(t, "revokeKey", "find", o, k)

FindKey(t) ==
  /\ At(t, "revokeKey", "find")
  /\ IF keyOrg[task[t].item] = task[t].org THEN Continue(t, "update") ELSE Reply(t, 404)
  /\ UNCHANGED <<rows, outbox, heard, billing, history, workload, faults>>

RevokeKey(t) ==
  /\ At(t, "revokeKey", "update")
  /\ revoked' = revoked \cup {task[t].item}
  /\ Reply(t, 200)
  /\ UNCHANGED <<keyOrg, hookOrg, deleted, msgOrg, msgStatus, users, signals, outbox,
                 heard, billing, history, workload, faults>>

-----------------------------------------------------------------------------
(* Messages *)

AskPost(t) == \E k \in KeyRows : Request(t, "post", "auth", None, k)

AskSignal(t) ==
  \E k \in KeyRows, b \in Bundles : RequestWith(t, "signal", "auth", None, k, b)

\* Mutant of Authenticate: the query does not ask for an active key.
AuthenticateAnyKey(t) ==
  /\ step[t] = "auth"
  /\ Proceed(t, "insert", [task[t] EXCEPT !.org = keyOrg[task[t].item]]) \/ Reply(t, 429)
  /\ UNCHANGED <<rows, outbox, heard, billing, history, workload, faults>>

\* get_org_by_api_key, in a connection of its own, then enforce_rate_limit.
Authenticate(t) ==
  /\ step[t] = "auth"
  /\ IF task[t].item \in revoked
     THEN Reply(t, 401)
     ELSE \/ Proceed(t, "insert", [task[t] EXCEPT !.org = keyOrg[task[t].item]])
          \/ Reply(t, 429)
  /\ UNCHANGED <<rows, outbox, heard, billing, history, workload, faults>>

\* The message is committed before the hooks are read.
NewMessage(m, org) ==
  /\ msgStatus[m] = None
  /\ msgStatus' = [msgStatus EXCEPT ![m] = "pending"]
  /\ msgOrg' = [msgOrg EXCEPT ![m] = org]
  /\ gone' = [gone EXCEPT ![m] = deleted]
  /\ known' = [known EXCEPT ![m] = HooksOf(org)]

NoteStale(t) ==
  stale' = IF task[t].item \in revoked
           THEN [stale EXCEPT ![task[t].item] = @ + 1] ELSE stale

InsertMessage(t) ==
  /\ At(t, "post", "insert")
  /\ \E m \in Messages : /\ NewMessage(m, task[t].org)
                         /\ Proceed(t, "hooks", [task[t] EXCEPT !.item = m])
  /\ NoteStale(t)
  /\ UNCHANGED <<keyOrg, revoked, hookOrg, deleted, users, signals, outbox, heard, billing,
                 registered, workload, faults>>

\* Mutant of SelectHooks: the hooks of every tenant.
SelectAllHooks(t) ==
  /\ At(t, "post", "hooks")
  /\ outbox' = outbox \cup ({task[t].item} \X HookRows)
  /\ Reply(t, 200)
  /\ UNCHANGED <<rows, heard, billing, history, workload, faults>>

\* The hooks of the organization as they are now; one background task for each.
SelectHooks(t) ==
  /\ At(t, "post", "hooks")
  /\ outbox' = outbox \cup ({task[t].item} \X HooksOf(task[t].org))
  /\ Reply(t, 200)
  /\ UNCHANGED <<rows, heard, billing, history, workload, faults>>

\* Mutant of Dispatch: a delivery empties the list of what is left to do.
DispatchOne ==
  \E d \in outbox :
    /\ outbox' = {}
    /\ \/ heard' = heard \cup {d} /\ UNCHANGED faults
       \/ UNCHANGED heard /\ Fault
    /\ UNCHANGED <<rows, threads, billing, history, workload>>

\* dispatch_webhook: one POST, whose failure is logged and forgotten.
Dispatch ==
  \E d \in outbox :
    /\ outbox' = outbox \ {d}
    /\ \/ heard' = heard \cup {d} /\ UNCHANGED faults
       \/ UNCHANGED heard /\ Fault
    /\ UNCHANGED <<rows, threads, billing, history, workload>>

\* POST /messages: a message of no organization, and no hooks.
AskUserPost(t) == Request(t, "userPost", "insert", NoOrg, None)

InsertUserMessage(t) ==
  /\ At(t, "userPost", "insert")
  /\ \E m \in Messages : NewMessage(m, NoOrg)
  /\ Reply(t, 200)
  /\ UNCHANGED <<keyOrg, revoked, hookOrg, deleted, users, signals, outbox, heard, billing,
                 stale, registered, workload, faults>>

AskAboutMessage(t) ==
  \E op \in {"approve", "deleteMessage"}, m \in Messages :
    msgStatus[m] # None /\ Request(t, op, "find", None, m)

FindMessage(t) ==
  /\ step[t] = "find" /\ task[t].op \in {"approve", "deleteMessage"}
  /\ IF task[t].item \in Rows THEN Continue(t, "update") ELSE Reply(t, 404)
  /\ UNCHANGED <<rows, outbox, heard, billing, history, workload, faults>>

\* Mutant of ApproveMessage: the update is an upsert.
ApproveBlindly(t) ==
  /\ At(t, "approve", "update")
  /\ msgStatus' = [msgStatus EXCEPT ![task[t].item] = "approved"]
  /\ Continue(t, "reread")
  /\ UNCHANGED <<keyOrg, revoked, hookOrg, deleted, msgOrg, users, signals, outbox,
                 heard, billing, history, workload, faults>>

\* Mutant of ApproveMessage: without the commit the update is rolled back in the end.
ApproveUncommitted(t) ==
  /\ At(t, "approve", "update")
  /\ Continue(t, "reread")
  /\ UNCHANGED <<rows, outbox, heard, billing, history, workload, faults>>

\* UPDATE ... WHERE id: no row, no effect.
ApproveMessage(t) ==
  /\ At(t, "approve", "update")
  /\ msgStatus' = IF task[t].item \in Rows
                  THEN [msgStatus EXCEPT ![task[t].item] = "approved"] ELSE msgStatus
  /\ Continue(t, "reread")
  /\ UNCHANGED <<keyOrg, revoked, hookOrg, deleted, msgOrg, users, signals, outbox,
                 heard, billing, history, workload, faults>>

\* The second SELECT runs after the commit; dict(None) raises if the row is gone.
RereadMessage(t) ==
  /\ At(t, "approve", "reread")
  /\ Reply(t, IF task[t].item \in Rows THEN 200 ELSE 500)
  /\ UNCHANGED <<rows, outbox, heard, billing, history, workload, faults>>

DeleteMessage(t) ==
  /\ At(t, "deleteMessage", "update")
  /\ msgStatus' = [msgStatus EXCEPT ![task[t].item] = "deleted"]
  /\ Reply(t, 200)
  /\ UNCHANGED <<keyOrg, revoked, hookOrg, deleted, msgOrg, users, signals, outbox,
                 heard, billing, history, workload, faults>>

-----------------------------------------------------------------------------
(* Signals and accounts *)

\* create_solana_signal: one row for an organization and a launch; a repeated post replaces
\* its result. One launch stands for all: rows of different launches never meet.
UpsertSignal(t) ==
  /\ At(t, "signal", "insert")
  /\ signals' = [signals EXCEPT ![task[t].org] = task[t].content]
  /\ NoteStale(t)
  /\ Reply(t, 200)
  /\ UNCHANGED <<keyOrg, revoked, hookOrg, deleted, msgOrg, msgStatus, users, outbox, heard,
                 billing, gone, known, registered, workload, faults>>

AskRegister(t) ==
  \E n \in Names, p \in Passwords : RequestWith(t, "register", "find", None, n, p)

FindUser(t) ==
  /\ At(t, "register", "find")
  /\ IF users[task[t].item] # None THEN Reply(t, 400) ELSE Continue(t, "insert")
  /\ UNCHANGED <<rows, outbox, heard, billing, history, workload, faults>>

\* Mutant of InsertUser: the table has no UNIQUE constraint, and the row found is the last.
InsertUserAgain(t) ==
  /\ At(t, "register", "insert")
  /\ users' = [users EXCEPT ![task[t].item] = task[t].content]
  /\ registered' = registered \cup {<<task[t].item, task[t].content>>}
  /\ Reply(t, 200)
  /\ UNCHANGED <<keyOrg, revoked, hookOrg, deleted, msgOrg, msgStatus, signals, outbox,
                 heard, billing, gone, known, stale, workload, faults>>

\* The UNIQUE constraint decides between two that found the name free: the other's INSERT
\* raises and is answered 500. The answer to one that succeeds may be lost.
InsertUser(t) ==
  /\ At(t, "register", "insert")
  /\ IF users[task[t].item] # None
     THEN Reply(t, 500) /\ UNCHANGED <<users, registered, faults>>
     ELSE /\ users' = [users EXCEPT ![task[t].item] = task[t].content]
          /\ \/ /\ registered' = registered \cup {<<task[t].item, task[t].content>>}
                /\ Reply(t, 200) /\ UNCHANGED faults
             \/ Leave(t) /\ Fault /\ UNCHANGED <<registered, answers>>
  /\ UNCHANGED <<keyOrg, revoked, hookOrg, deleted, msgOrg, msgStatus, signals, outbox,
                 heard, billing, gone, known, stale, workload>>

-----------------------------------------------------------------------------
(* Billing *)

\* Stripe or Paystack, external: a subscription changes; the event carries the plan, or no
\* plan the receiver knows.
SubscriptionChanges ==
  \E o \in Orgs, p \in Plans \cup {None} :
    /\ "billing" \in workload /\ Len(notices) < MaxNotices
    /\ notices' = Append(notices, <<o, p>>)
    /\ subscribed' = IF p = None THEN subscribed ELSE [subscribed EXCEPT ![o] = p]
    /\ UNCHANGED <<rows, threads, outbox, heard, plan, history, workload, faults>>

\* set_org_plan: one UPDATE, committed. An event without a usable plan is refused.
SetOrgPlan(o, p) == plan' = IF p \in Plans THEN [plan EXCEPT ![o] = p] ELSE plan

\* Mutant of HandleNotice: the event is acknowledged even when the update failed.
AcknowledgeFirst ==
  /\ notices # <<>>
  /\ notices' = Tail(notices)
  /\ \/ SetOrgPlan(Head(notices)[1], Head(notices)[2]) /\ UNCHANGED faults
     \/ UNCHANGED plan /\ Fault
  /\ UNCHANGED <<rows, threads, outbox, heard, subscribed, history, workload>>

\* The receivers. The provider repeats an event until it has the answer to it.
HandleNotice ==
  /\ notices # <<>>
  /\ \/ /\ SetOrgPlan(Head(notices)[1], Head(notices)[2])
        /\ \/ notices' = Tail(notices) /\ UNCHANGED faults
           \/ notices' = notices /\ Fault
     \/ UNCHANGED <<plan, notices>> /\ Fault
  /\ UNCHANGED <<rows, threads, outbox, heard, subscribed, history, workload>>

-----------------------------------------------------------------------------

\* The connection to Postgres is lost: what was committed stays.
RequestFails(t) ==
  /\ step[t] # "idle"
  /\ Fault
  /\ Leave(t)
  /\ UNCHANGED <<rows, answers, outbox, heard, billing, history, workload>>

\* The process dies with its requests and its background tasks.
Crash ==
  /\ Fault
  /\ step' = [t \in Threads |-> "idle"] /\ task' = [t \in Threads |-> Nothing]
  /\ outbox' = {}
  /\ UNCHANGED <<rows, answers, heard, billing, history, workload>>

Init ==
  /\ plan = [o \in Orgs |-> Free] /\ subscribed = plan /\ notices = <<>>
  /\ keyOrg = [k \in Keys |-> None] /\ revoked = {}
  /\ hookOrg = [h \in Hooks |-> None] /\ deleted = {}
  /\ msgOrg = [m \in Messages |-> None] /\ msgStatus = msgOrg
  /\ users = [n \in Names |-> None] /\ signals = [o \in Orgs |-> None]
  /\ step = [t \in Threads |-> "idle"]
  /\ task = [t \in Threads |-> Nothing]
  /\ outbox = {} /\ heard = {}
  /\ gone = [m \in Messages |-> {}] /\ known = gone
  /\ stale = [k \in Keys |-> 0] /\ answers = {} /\ registered = {}
  /\ workload \in Workloads /\ faults = 0

Ask(t) ==
  \/ AskCreateHook(t) \/ AskDeleteHook(t) \/ AskCreateKey(t) \/ AskRevokeKey(t)
  \/ AskPost(t) \/ AskUserPost(t) \/ AskAboutMessage(t)
  \/ AskSignal(t) \/ AskRegister(t)

Serve(t) ==
  \/ ReadPlan(t) \/ CountHooks(t) \/ InsertHook(t) \/ FindHook(t) \/ DeleteHook(t)
  \/ InsertKey(t) \/ FindKey(t) \/ RevokeKey(t)
  \/ Authenticate(t) \/ InsertMessage(t) \/ SelectHooks(t) \/ InsertUserMessage(t)
  \/ FindMessage(t) \/ ApproveMessage(t) \/ RereadMessage(t) \/ DeleteMessage(t)
  \/ UpsertSignal(t) \/ FindUser(t) \/ InsertUser(t)

Next == \/ \E t \in Threads : Ask(t) \/ Serve(t) \/ RequestFails(t)
        \/ Dispatch \/ SubscriptionChanges \/ HandleNotice \/ Crash

Spec == Init /\ [][Next]_vars

-----------------------------------------------------------------------------
(* Properties *)

Steps == {"idle", "owner", "count", "insert", "find", "delete", "update", "auth", "hooks",
          "reread"}
Tasks == [op : {"createHook", "deleteHook", "createKey", "revokeKey", "post", "userPost",
                "approve", "deleteMessage", "signal", "register", None},
          org : Orgs \cup {NoOrg, None},
          item : Hooks \cup Keys \cup Messages \cup Names \cup {None},
          content : Bundles \cup Passwords \cup {None},
          limit : {MaxWebhooks[p] : p \in Plans} \cup {0}]

\* Every variable has its type; a message deleted or being worked on has been posted.
TypeOK ==
  /\ plan \in [Orgs -> Plans] /\ subscribed \in [Orgs -> Plans]
  /\ notices \in Seq(Orgs \X (Plans \cup {None}))
  /\ keyOrg \in [Keys -> Orgs \cup {None}] /\ revoked \subseteq KeyRows
  /\ hookOrg \in [Hooks -> Orgs \cup {None}]
  /\ deleted \subseteq {h \in Hooks : hookOrg[h] # None}
  /\ msgOrg \in [Messages -> Orgs \cup {NoOrg, None}]
  /\ msgStatus \in [Messages -> {None, "pending", "approved", "deleted"}]
  /\ users \in [Names -> Passwords \cup {None}]
  /\ signals \in [Orgs -> Bundles \cup {None}]
  /\ registered \subseteq Names \X Passwords
  /\ step \in [Threads -> Steps] /\ task \in [Threads -> Tasks]
  /\ answers \subseteq Messages \X {200, 404, 500}
  /\ outbox \subseteq Messages \X Hooks /\ heard \subseteq Messages \X Hooks
  /\ gone \in [Messages -> SUBSET Hooks] /\ known \in [Messages -> SUBSET Hooks]
  /\ stale \in [Keys -> Nat] /\ workload \in Workloads /\ faults \in 0 .. MaxFaults

\* "every tenant is quota-gated by plan" (README.md:16): while plans stay as they are, no
\* organization has more webhooks than its plan allows.
WithinPlan == \A o \in Orgs : Cardinality(HooksOf(o)) <= MaxWebhooks[plan[o]]

\* What create_webhook does guarantee: requests that counted at the same time can pass the
\* largest limit by the number of the other threads, and never by more.
OvershootBounded ==
  \A o \in Orgs : \E p \in Plans :
    Cardinality(HooksOf(o)) + 1 <= MaxWebhooks[p] + Cardinality(Threads)

\* A message is only sent to webhooks of the organization that posted it, and never to one
\* deleted before it was posted, though tasks outlive requests, revocations and deletions.
OnlyOwnHooksHear ==
  \A d \in outbox \cup heard : msgOrg[d[1]] = hookOrg[d[2]] /\ d[2] \notin gone[d[1]]

\* Once a post has been answered, every webhook registered before the message and still
\* there has heard of it or will, unless something failed.
EveryHookHears ==
  faults = 0 =>
    \A m \in Messages : \A h \in known[m] \ deleted :
      \/ <<m, h>> \in outbox \cup heard
      \/ \E t \in Threads : At(t, "post", "hooks") /\ task[t].item = m

\* A revoked key brings in only what the other threads had already let through: what it has
\* posted since, and what it still may, are no more requests than these threads.
StaleRequestsBounded ==
  \A k \in revoked :
    stale[k] + Cardinality({t \in Threads : /\ task[t].op \in {"post", "signal"}
                                            /\ step[t] = "insert" /\ task[t].item = k}) + 1
      <= Cardinality(Threads)

\* Approving and deleting race without bringing a message back.
DeletedStaysDeleted ==
  [][\A m \in Messages : msgStatus[m] = "deleted" => msgStatus'[m] = "deleted"]_vars

\* An approval answered 200 is in the table unless the message has been deleted; the 500
\* of the second SELECT only ever means that it was deleted meanwhile.
ApprovalAnswersHold ==
  \A m \in Messages :
    /\ <<m, 200>> \in answers => msgStatus[m] \in {"approved", "deleted"}
    /\ <<m, 500>> \in answers => msgStatus[m] = "deleted"

\* With events delivered in order, repeated until answered, an organization without an
\* outstanding event has the plan it is subscribed to.
PlanFollowsProvider ==
  \A o \in Orgs : (\A i \in 1 .. Len(notices) : notices[i][1] # o) => plan[o] = subscribed[o]

\* Of those who register a name at the same time at most one is told it has it, and it is
\* that one's password the account goes on having.
AccountsKeepTheirPassword == \A r \in registered : users[r[1]] = r[2]
=============================================================================
