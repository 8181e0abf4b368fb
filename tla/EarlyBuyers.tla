----------------------------- MODULE EarlyBuyers -----------------------------
(***************************************************************************)
(* Early-buyer evidence: pump_history.py pages backwards through the       *)
(* history of one bonding curve, newest first, until it believes that it   *)
(* has reached the launch, and decodes a bounded number of transactions of *)
(* the launch window; pump_evidence.py says what that sample shows.        *)
(* Meanwhile the curve goes on trading.                                    *)
(*                                                                         *)
(* A transaction is its position in the history of the curve.              *)
(***************************************************************************)
EXTENDS Integers, FiniteSets, FiniteSetsExt

CONSTANTS
  MaxTx,           \* transactions the curve ever has
  Kinds,           \* kinds of transaction that occur
  Slots,           \* functions 1 .. MaxTx -> Nat that do not decrease: the slots they may have
  Creations,       \* positions the creation of the token may have
  PageBudgets,     \* DISCOVERY_PAGES, NAMED_LAUNCH_PAGES or --max-pages
  PageSize,        \* --page-size
  DecodeBudget,    \* how many transactions of the window are decoded
  WindowSlots,     \* end_slot - slot of a Launch
  Faulty           \* may the provider ignore `before'?

ASSUME EvidenceAssumption ==
  /\ MaxTx \in Nat /\ Kinds \subseteq {"buy", "other", "failed"}
  /\ Slots \subseteq [1 .. MaxTx -> Nat]
  /\ \A f \in Slots : \A x, y \in 1 .. MaxTx : x <= y => f[x] <= f[y]
  /\ Creations \subseteq 1 .. MaxTx
  /\ PageBudgets \subseteq Nat \ {0}
  /\ PageSize \in Nat \ {0} /\ DecodeBudget \in Nat \ {0} /\ WindowSlots \in Nat
  /\ Faulty \in BOOLEAN

VARIABLES
  kind, slot, created, confirmed,  \* the curve: its transactions, the creation among them
  retained,                        \* the oldest transaction the provider still lists
  pc, budget,                      \* control; max_pages
  cursor, pages, early, reached,   \* locals of collect_early_buys
  known,                           \* history: transactions confirmed when paging began
  attempted, missing,              \* transactions decoded, and those that were unavailable
  status, gaps                     \* of the report: evidence_status, missing_data

curve  == <<kind, slot, created, retained>>
paging == <<cursor, pages, early, reached, known>>
sample == <<attempted, missing>>
report == <<status, gaps>>
vars   == <<curve, confirmed, pc, budget, paging, sample, report>>

InWindow(x) == slot[created] <= slot[x] /\ slot[x] <= slot[created] + WindowSlots

-----------------------------------------------------------------------------

\* The curve goes on trading.
Confirm ==
  /\ confirmed < MaxTx
  /\ confirmed' = confirmed + 1
  /\ UNCHANGED <<curve, pc, budget, paging, sample, report>>

(* collect_early_buys *)

Newest(S) == {x \in S : Cardinality({y \in S : x <= y}) <= PageSize}

\* What getSignaturesForAddress answers: the newest before the cursor.
Page(before) == Newest({x \in retained .. confirmed : before = 0 \/ x < before})

Relevant(page) == {x \in page : InWindow(x) /\ kind[x] # "failed"}

\* Mutant of Boundary: a full page that ends in the launch slot counts as past it.
BoundaryInLaunchSlot(page) ==
  \/ Cardinality(page) < PageSize
  \/ \E x \in page : slot[x] <= slot[created]

\* A short or empty page, or one that is past the launch slot.
Boundary(page) ==
  \/ Cardinality(page) < PageSize
  \/ \E x \in page : slot[x] < slot[created]

\* Mutant of NextCursor: the page after the one just read begins one transaction too late.
SkippingCursor(page) == Min(page) - 1

NextCursor(page) == Min(page)

\* One page. A repeated page ends the paging, as does the last page allowed.
ReadPage(page) ==
  /\ pages' = pages + 1
  /\ known' = IF pages = 0 THEN confirmed ELSE known
  /\ early' = early \cup Relevant(page)
  /\ reached' = Boundary(page)
  /\ cursor' = IF reached' THEN cursor ELSE NextCursor(page)
  /\ pc' = IF reached' \/ cursor' = cursor \/ pages' = budget THEN "decoding" ELSE "paging"

ListPage ==
  /\ pc = "paging"
  /\ ReadPage(Page(cursor)) \/ (Faulty /\ ReadPage(Page(0)))
  /\ UNCHANGED <<curve, confirmed, budget, sample, report>>

\* How many of those seen are decoded.
Attempts == IF Cardinality(early) <= DecodeBudget THEN Cardinality(early) ELSE DecodeBudget

\* Mutant of Chosen: the newest first.
ChosenNewest == {A \in kSubset(Attempts, early) :
                   \A x \in A, y \in early \ A : slot[y] <= slot[x]}

\* The oldest first; within a slot the order is that of the signatures' spelling.
Chosen == {A \in kSubset(Attempts, early) : \A x \in A, y \in early \ A : slot[x] <= slot[y]}

\* Any of them may be unavailable.
Decode ==
  /\ pc = "decoding"
  /\ attempted' \in Chosen /\ missing' \in SUBSET attempted'
  /\ pc' = "evidence"
  /\ UNCHANGED <<curve, confirmed, budget, paging, report>>

\* A listing or a fetch raises: the launch is reported as unknown, with exit code 2.
CallFails ==
  /\ pc \in {"paging", "decoding"}
  /\ pc' = "failed" /\ status' = "unknown_incomplete"
  /\ UNCHANGED <<curve, confirmed, budget, paging, sample, gaps>>

-----------------------------------------------------------------------------
(* collect_evidence, finalize *)

Fetched == attempted \ missing
Buys == {x \in Fetched : kind[x] = "buy"}

\* No attestation from outside this path exists.
IndependentBlockVerified == FALSE

CoverageProven ==
  /\ reached /\ missing = {} /\ Cardinality(early) <= Cardinality(Fetched)
  /\ IndependentBlockVerified

\* Mutant of LaunchTimeReachable: that the paging has ended short of the launch is no reason.
ReachableByData == early # {} /\ Fetched # {}

LaunchTimeReachable == early # {} /\ Fetched # {} /\ reached

\* Unknown wins over a count; no buys are a finding only when coverage is proven.
Classification ==
  CASE ~LaunchTimeReachable                              -> "unknown_incomplete"
    [] LaunchTimeReachable /\ Buys # {} /\ CoverageProven  -> "coverage_proven"
    [] LaunchTimeReachable /\ Buys # {} /\ ~CoverageProven -> "buys_observed"
    [] LaunchTimeReachable /\ Buys = {} /\ CoverageProven  -> "no_buys_in_window"
    [] OTHER                                               -> "unknown_incomplete"

\* The accounting of what is missing; that the order within a slot is unconfirmed is
\* always part of it and left out here.
MissingData ==
  {g \in {"unavailable", "launch not reached", "not decoded"} :
     CASE g = "unavailable"        -> missing # {}
       [] g = "launch not reached" -> ~reached
       [] g = "not decoded"        -> Cardinality(attempted) < Cardinality(early)}

Publish ==
  /\ pc = "evidence"
  /\ status' = Classification /\ gaps' = MissingData
  /\ pc' = "done"
  /\ UNCHANGED <<curve, confirmed, budget, paging, sample>>

-----------------------------------------------------------------------------

\* find_launch or a named signature: a creation that has been confirmed and decoded.
Init ==
  /\ kind \in [1 .. MaxTx -> Kinds] /\ slot \in Slots
  /\ created \in Creations /\ kind[created] # "failed"
  /\ confirmed \in created .. MaxTx /\ retained \in 1 .. MaxTx
  /\ pc = "paging" /\ budget \in PageBudgets
  /\ cursor = 0 /\ pages = 0 /\ early = {} /\ reached = FALSE /\ known = 0
  /\ attempted = {} /\ missing = {}
  /\ status = "none" /\ gaps = {}

Next == Confirm \/ ListPage \/ Decode \/ CallFails \/ Publish

Spec == Init /\ [][Next]_vars

-----------------------------------------------------------------------------
(* Properties *)

Statuses == {"buys_observed", "no_buys_in_window", "coverage_proven", "unknown_incomplete"}

\* Every variable has its type; only transactions of the window are ever decoded, and the
\* cursor is one the provider has listed.
TypeOK ==
  /\ kind \in [1 .. MaxTx -> Kinds] /\ slot \in Slots /\ created \in Creations
  /\ confirmed \in created .. MaxTx /\ retained \in 1 .. MaxTx
  /\ pc \in {"paging", "decoding", "evidence", "done", "failed"} /\ budget \in PageBudgets
  /\ cursor \in {0} \cup retained .. confirmed /\ pages \in 0 .. budget
  /\ early \subseteq Relevant(retained .. confirmed) /\ reached \in BOOLEAN
  /\ known \in 0 .. confirmed
  /\ attempted \subseteq early /\ missing \subseteq attempted
  /\ status \in Statuses \cup {"none"}
  /\ gaps \subseteq {"unavailable", "launch not reached", "not decoded"}

\* The buys the chain has in the window.
WindowBuys == {x \in 1 .. confirmed : InWindow(x) /\ kind[x] = "buy"}

\* "an explicit accounting of what is missing" (collect_evidence): a report that names
\* nothing missing has every buy of the window that the provider listed when paging began,
\* though the curve traded on between the pages, and pages were repeated.
NothingMissingUnsaid ==
  (pc = "done" /\ gaps = {}) => WindowBuys \cap (retained .. known) \subseteq Buys

\* "the count is a LOWER BOUND" (pump_evidence.py:8), published with an accounting of what
\* is missing: the two bound the truth from above as well.  When a report gives a count, the
\* provider listed no more buying transactions of the window when paging began than were
\* counted, were unavailable ("{unavailable} in-window transaction(s)") or were seen and not
\* decoded ("only {attempted} of {seen}"); nothing slips between two pages unnumbered.
CountBracketed ==
  (pc = "done" /\ status # "unknown_incomplete") =>
    Cardinality(WindowBuys \cap (retained .. known)) <=
      Cardinality(Buys) + Cardinality(missing)
        + (Cardinality(early) - Cardinality(attempted))

\* The buyers reported are the earliest the provider could show: when the paging has come
\* to its end, no transaction of an earlier slot in the window was left undecoded, whatever
\* the page size, the decode budget and the trading in between.
NoEarlierBuyerSkipped ==
  (pc = "done" /\ reached) =>
    \A x \in Buys, y \in Relevant(retained .. known) : slot[y] < slot[x] => y \in attempted
=============================================================================
