---------------------------- MODULE MCEarlyBuyers ----------------------------
EXTENDS EarlyBuyers

\* One transaction in a slot, two in a slot, and all but the first in one.
SlotFunctions == {[x \in 1 .. MaxTx |-> x], [x \in 1 .. MaxTx |-> x \div 2],
                  [x \in 1 .. MaxTx |-> IF x = 1 THEN 1 ELSE 2]}
=============================================================================
