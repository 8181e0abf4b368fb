--------------------------- MODULE MCStreamCompare ---------------------------
EXTENDS StreamCompare

\* Slots 0, 3, 2, 5: the two in the middle are notified the other way round, and can both be
\* in the window.  Slots 0, 2, 2, 4: they share the only slot of the window.
Crossed == [x \in 1 .. MaxTx |-> IF x % 2 = 1 THEN x - 1 ELSE x + 1]
Paired == [x \in 1 .. MaxTx |-> 2 * (x \div 2)]
SlotFunctions == {Crossed, Paired}

\* A launch, then one with truncated logs and a real one in the window, then a failed one.
Mixed == [x \in 1 .. MaxTx |->
            IF x = 2 THEN "hidden" ELSE IF x = MaxTx THEN "attempt" ELSE "launch"]

\* Launches at both ends, where they open and close the window, and in the middle any that
\* looks like one; or a trade at one end, which only the program stream has.
KindFunctions ==
  {Mixed} \cup
  {f \in [1 .. MaxTx -> {"launch", "foreign", "trade"}] :
     /\ f[1] # "foreign" /\ f[MaxTx] # "foreign"
     /\ \A x \in 2 .. MaxTx - 1 : f[x] # "trade"
     /\ \/ f[1] = "launch" /\ f[MaxTx] = "launch"
        \/ "launch" \in {f[1], f[MaxTx]} /\ f[2] = "foreign" /\ f[3] = "launch"}

\* streams=both and streams=creations.
BothModes == {{"program", "creations"}, {"creations"}}
=============================================================================
