------------------------------ MODULE MCTenancy ------------------------------
EXTENDS Tenancy, TLC

\* Row ids, organizations and threads are interchangeable.
RowSymmetry == Permutations(Threads) \cup Permutations(Orgs) \cup Permutations(Keys)
               \cup Permutations(Hooks) \cup Permutations(Messages)

\* Limits of two plans.
TwoPlans == [p \in {"free", "pro"} |-> IF p = "free" THEN 1 ELSE 2]

\* Webhooks are added while the plan changes, or come and go while messages are delivered
\* to them.
HookWork == {{"createHook", "billing"},
             {"createHook", "deleteHook", "createKey", "post"}}

\* Keys are revoked while they are used; messages are moderated by several people.
MessageWork == {{"createKey", "revokeKey", "post"},
                {"userPost", "approve", "deleteMessage"}}

\* Evidence is posted with a key that is being revoked; a name is registered by several people.
AccountWork == {{"createKey", "revokeKey", "signal"}, {"register"}}

\* One of these in each behaviour.
AllWork == HookWork \cup MessageWork \cup AccountWork
=============================================================================
