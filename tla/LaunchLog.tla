------------------------------ MODULE LaunchLog ------------------------------
(***************************************************************************)
(* What the launch watcher promises to whoever reads its tables            *)
(* (pump_worker.py, module comment and Store.save): a set of recorded      *)
(* launches and a checkpoint, such that the checkpoint only ever moves to  *)
(* a transaction before which nothing is missing.                          *)
(*                                                                         *)
(* A transaction is its position 1..MaxTx in the order of the chain.       *)
(* `base' is the first checkpoint ever written ("monitor from now");       *)
(* what was confirmed up to it is outside the promise.                     *)
(***************************************************************************)
EXTENDS Naturals

CONSTANTS MaxTx, Kinds

VARIABLES kind, tip, base, checkpoint, launches

vars == <<kind, tip, base, checkpoint, launches>>

Init ==
  /\ kind \in [1 .. MaxTx -> Kinds]
  /\ tip \in 0 .. MaxTx
  /\ base = 0 /\ checkpoint = 0 /\ launches = {}

LaunchKinds == {"launch", "hidden"}

\* Every launch after position b and up to position c is in S.
Complete(b, c, S) ==
  \A q \in 1 .. tip : (b < q /\ q <= c /\ kind[q] \in LaunchKinds) => q \in S

\* The chain confirms one more transaction.
Confirm ==
  /\ tip < MaxTx
  /\ tip' = tip + 1
  /\ UNCHANGED <<kind, base, checkpoint, launches>>

First(c) == IF base = 0 THEN c ELSE base

\* One transaction of the database: a launch and the checkpoint behind it.
RecordLaunch(c) ==
  /\ kind[c] \in LaunchKinds
  /\ base' = First(c)
  /\ launches' = launches \cup {c}
  /\ checkpoint' = c
  /\ Complete(First(c), c, launches \cup {c})
  /\ UNCHANGED <<kind, tip>>

\* Progress without a launch. Going back is allowed, skipping is not.
MoveCheckpoint(c) ==
  /\ base' = First(c)
  /\ checkpoint' = c
  /\ Complete(First(c), c, launches)
  /\ UNCHANGED <<kind, tip, launches>>

Next ==
  \/ Confirm
  \/ \E c \in 1 .. tip : RecordLaunch(c) \/ MoveCheckpoint(c)

Spec == Init /\ [][Next]_vars
=============================================================================
