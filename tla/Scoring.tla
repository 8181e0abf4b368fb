------------------------------- MODULE Scoring -------------------------------
(***************************************************************************)
(* Launch scoring (solana_signals.py): from a bundle of evidence that an   *)
(* indexer has posted, score_bundle takes the first buyers of a launch,    *)
(* and trace_paths looks backwards in time from each for transfers that    *)
(* lead from a labelled exchange to it.  The search is breadth first and   *)
(* bounded in hops and in branches; what the bundle does not show is       *)
(* unknown unless the indexer claims to have sent everything.              *)
(*                                                                         *)
(* A transfer carries the rank in which the search prefers it (lamports,   *)
(* slot, signature); amounts, names, signatures, the score and the         *)
(* clusters computed from the qualified buyers are left out.               *)
(***************************************************************************)
EXTENDS Naturals, Sequences, FiniteSets, SequencesExt

CONSTANTS
  Wallets,      \* who may buy
  Buys,         \* buys the bundle may hold: records of wallet, slot and order
  Transfers,    \* transfers it may hold: from, to, slot, rank and verified
  MaxTransfers, \* how many of them at most
  Labels,       \* addresses it may label as an exchange's
  MaxBuyers,    \* 50 in score_bundle
  MaxBranch,    \* 10 in trace_paths
  MaxHops       \* 5

ASSUME BundleAssumption ==
  /\ Buys \subseteq [wallet : Wallets, slot : Nat, order : Nat]
  /\ IsFiniteSet(Buys) /\ IsFiniteSet(Transfers)
  /\ \A b, c \in Buys : b.slot = c.slot /\ b.order = c.order => b = c
  /\ \A e \in Transfers : e.slot \in Nat /\ e.rank \in Nat
  /\ \A e, f \in Transfers : e.rank = f.rank => e = f
  /\ MaxTransfers \in Nat /\ MaxBuyers \in Nat \ {0}
  /\ MaxBranch \in Nat \ {0} /\ MaxHops \in Nat \ {0}

VARIABLES
  buys, edges, labels,  \* the bundle: buys of the launch window, transfers, verified labels
  claimed,              \* and the wallets all of whose funding it claims to hold
  pc,
  first,                \* the first buyers, by their first buy
  buy,                  \* the one being looked into
  queue, paths,         \* locals of trace_paths
  finding,              \* what was found of each wallet
  status

bundle == <<buys, edges, labels, claimed>>
search == <<queue, paths>>
vars   == <<bundle, pc, first, buy, search, finding, status>>

-----------------------------------------------------------------------------
(* score_bundle: the first buyers *)

Earlier(b, c) == b.slot < c.slot \/ (b.slot = c.slot /\ b.order < c.order)

\* Each wallet by its first buy, and of these the first MaxBuyers.
FirstBuys == {b \in buys : \A c \in buys : c.wallet = b.wallet => ~Earlier(c, b)}
FirstBuyers == {b \in FirstBuys : Cardinality({c \in FirstBuys : Earlier(c, b)}) < MaxBuyers}

SelectBuyers ==
  /\ pc = "start"
  /\ first' = FirstBuyers
  /\ pc' = "next"
  /\ UNCHANGED <<bundle, buy, search, finding, status>>

Todo == {b \in first : finding[b.wallet] = "none"}

-----------------------------------------------------------------------------
(* trace_paths *)

\* The chain of addresses from the wallet back, and the transfers along it.
Item(nodes, used) == [nodes |-> nodes, used |-> used]
At(item) == item.nodes[Len(item.nodes)]

\* Transfers must be earlier than the one they fund; the first earlier than the buy.
Cutoff(item) == IF item.used = <<>> THEN buy.slot ELSE item.used[Len(item.used)].slot

StartSearch ==
  /\ pc = "next"
  /\ \E b \in Todo :
        /\ \A c \in Todo : ~Earlier(c, b)
        /\ buy' = b
        /\ queue' = <<Item(<<b.wallet>>, <<>>)>>
  /\ paths' = {}
  /\ pc' = "search"
  /\ UNCHANGED <<bundle, first, finding, status>>

\* Mutant of Candidates: a transfer after the one it should fund.
CandidatesAnyTime(item) ==
  {e \in edges : e.verified /\ e.to = At(item) /\ e.from \notin ToSet(item.nodes)}

Candidates(item) ==
  {e \in edges : e.verified /\ e.to = At(item) /\ e.slot < Cutoff(item)
                 /\ e.from \notin ToSet(item.nodes)}

\* Where a transfer stands among them once they are sorted, and the preferred ones in order.
Place(e, C) == Cardinality({f \in C : f.rank <= e.rank})
Preferred(C) ==
  [i \in 1 .. (IF Cardinality(C) <= MaxBranch THEN Cardinality(C) ELSE MaxBranch) |->
     CHOOSE e \in C : Place(e, C) = i]

Reached(item) == Len(item.nodes) > 1 /\ At(item) \in labels

Extend(item, e) == Item(Append(item.nodes, e.from), Append(item.used, e))

\* Mutant of Step: a labelled address is recorded and searched behind as well.
StepThrough ==
  /\ pc = "search" /\ queue # <<>>
  /\ LET item == Head(queue)
         next == Preferred(Candidates(item))
     IN  /\ paths' = IF Reached(item) THEN paths \cup {item} ELSE paths
         /\ queue' = Tail(queue) \o
              IF Len(item.used) >= MaxHops THEN <<>>
              ELSE [i \in DOMAIN next |-> Extend(item, next[i])]
  /\ UNCHANGED <<bundle, pc, first, buy, finding, status>>

\* Mutant of Step: one hop more than the bound.
StepTooFar ==
  /\ pc = "search" /\ queue # <<>>
  /\ LET item == Head(queue)
         next == Preferred(Candidates(item))
     IN  /\ paths' = IF Reached(item) THEN paths \cup {item} ELSE paths
         /\ queue' = Tail(queue) \o
              IF Reached(item) \/ Len(item.used) > MaxHops THEN <<>>
              ELSE [i \in DOMAIN next |-> Extend(item, next[i])]
  /\ UNCHANGED <<bundle, pc, first, buy, finding, status>>

\* One turn of the loop: the oldest item is a path, is long enough, or is extended.
Step ==
  /\ pc = "search" /\ queue # <<>>
  /\ LET item == Head(queue)
         next == Preferred(Candidates(item))
     IN  /\ paths' = IF Reached(item) THEN paths \cup {item} ELSE paths
         /\ queue' = Tail(queue) \o
              IF Reached(item) \/ Len(item.used) >= MaxHops THEN <<>>
              ELSE [i \in DOMAIN next |-> Extend(item, next[i])]
  /\ UNCHANGED <<bundle, pc, first, buy, finding, status>>

-----------------------------------------------------------------------------
(* score_bundle: what the search shows *)

\* Mutant of Verdict: nothing found counts as not funded, whatever the indexer claims.
VerdictNegative(won, pnlComplete) ==
  IF paths = {} THEN "unfunded"
  ELSE IF won THEN "qualified" ELSE IF pnlComplete THEN "unprofitable" ELSE "unknown"

\* `won': the bundle holds a profit of fifty times or more, realised before the buy;
\* `pnlComplete': it claims to hold all of the wallet's profits.
Verdict(won, pnlComplete) ==
  CASE paths = {}        -> IF buy.wallet \in claimed THEN "unfunded" ELSE "unknown"
    [] paths # {} /\ won -> "qualified"
    [] OTHER             -> IF pnlComplete THEN "unprofitable" ELSE "unknown"

Judge ==
  /\ pc = "search" /\ queue = <<>>
  /\ \E won, pnlComplete \in BOOLEAN :
        finding' = [finding EXCEPT ![buy.wallet] = Verdict(won, pnlComplete)]
  /\ pc' = "next"
  /\ UNCHANGED <<bundle, first, buy, search, status>>

Report ==
  /\ pc = "next" /\ Todo = {}
  /\ \E buyersComplete \in BOOLEAN :
        status' = IF buyersComplete /\ \A b \in first : finding[b.wallet] # "unknown"
                  THEN "complete" ELSE "partial"
  /\ pc' = "done"
  /\ UNCHANGED <<bundle, first, buy, search, finding>>

-----------------------------------------------------------------------------

NoBuy == [wallet |-> "none", slot |-> 0, order |-> 0]

Init ==
  /\ buys \in SUBSET Buys
  /\ edges \in {E \in SUBSET Transfers : Cardinality(E) <= MaxTransfers}
  /\ labels \in SUBSET Labels /\ claimed \in SUBSET Wallets
  /\ pc = "start" /\ first = {} /\ buy = NoBuy
  /\ queue = <<>> /\ paths = {}
  /\ finding = [w \in Wallets |-> "none"] /\ status = "none"

Next == SelectBuyers \/ StartSearch \/ Step \/ Judge \/ Report

Spec == Init /\ [][Next]_vars

-----------------------------------------------------------------------------
(* Properties *)

Nodes(item) == ToSet(item.nodes)
Addresses == Wallets \cup Labels \cup {e.from : e \in Transfers}

\* Every variable has its type; what the search follows never exceeds its bound of hops and
\* never comes back to an address, in the queue or in a path.
TypeOK ==
  /\ buys \subseteq Buys /\ edges \subseteq Transfers /\ labels \subseteq Labels
  /\ claimed \subseteq Wallets
  /\ pc \in {"start", "next", "search", "done"}
  /\ first \subseteq buys /\ buy \in first \cup {NoBuy}
  /\ \A p \in ToSet(queue) \cup paths :
       /\ p.nodes \in Seq(Addresses) /\ p.used \in Seq(edges)
       /\ Len(p.nodes) = Len(p.used) + 1 /\ Len(p.used) <= MaxHops
       /\ Cardinality(Nodes(p)) = Len(p.nodes)
  /\ finding \in [Wallets -> {"none", "unknown", "unfunded", "unprofitable", "qualified"}]
  /\ status \in {"none", "partial", "complete"}

\* Reference: chains of verified transfers that reach the wallet w before slot s, each
\* earlier than the one it funds, from a labelled exchange through unlabelled addresses,
\* none of them twice.
Chains(w, s) ==
  {c \in SeqOf({e \in edges : e.verified}, MaxHops) :
     LET node(i) == IF i = 0 THEN w ELSE c[i].from
     IN  /\ c # <<>>
         /\ \A i \in 1 .. Len(c) : /\ c[i].to = node(i - 1)
                                   /\ c[i].slot < IF i = 1 THEN s ELSE c[i - 1].slot
                                   /\ node(i) \in labels <=> i = Len(c)
         /\ \A i, j \in 0 .. Len(c) : node(i) = node(j) => i = j}

Found == {p.used : p \in paths}

\* Nothing is cut as long as no address has more incoming transfers than the search follows.
Uncut == \A e \in edges : Cardinality({f \in edges : f.to = e.to}) <= MaxBranch

\* "explicit transfer evidence only" (trace_paths): every path reported is a chain of the
\* evidence, whatever was cut.
PathsReal == pc = "search" => Found \subseteq Chains(buy.wallet, buy.slot)

\* When the search ends it has found every chain there is, unless it had to cut.
PathsComplete ==
  pc = "search" /\ queue = <<>> /\ Uncut => Found = Chains(buy.wallet, buy.slot)

\* "Missing evidence is unknown, never a negative finding" (module comment): in a report
\* that calls itself complete, a first buyer not counted as funded has no chain in the
\* evidence and the indexer's word that there is no other evidence, and one that is
\* counted has a chain.
CompleteReportHolds ==
  pc = "done" /\ status = "complete" =>
    \A b \in first :
      IF finding[b.wallet] = "unfunded"
      THEN b.wallet \in claimed /\ (Uncut => Chains(b.wallet, b.slot) = {})
      ELSE Chains(b.wallet, b.slot) # {}
=============================================================================
