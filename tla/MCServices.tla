----------------------------- MODULE MCServices -----------------------------
(***************************************************************************)
(* A small instance of Services, one scene after the other: two handlers   *)
(* at once, three where two are not enough to meet every overlap.          *)
(***************************************************************************)
EXTENDS Services, TLC

\* Two provinces with a district of one name each, and a ward in the first; GHN
\* has a ward in each district.
MCParent == "A" :> Null @@ "B" :> Null @@ "AC" :> "A" @@ "BC" :> "B" @@ "ACE" :> "AC"
MCName == "A" :> "a" @@ "B" :> "b" @@ "AC" :> "c" @@ "BC" :> "c" @@ "ACE" :> "e"
MCGhnParent == <<Null, Null, 1, 2, 3, 4>>
MCGhnName == <<"a", "b", "c", "c", "e", "e">>

\* One auditor has a profile from the start.
MCSeeds == <<[user |-> "u", wallet |-> "w", lower |-> FALSE], Null, Null>>

\* Ids and times in binary: two payments can get one code, at different times.  They
\* are of one amount, so that an amount tells nothing.
MCPayments == {<<1>>, <<1, 1>>}
MCTimes == {<<1, 0, 0>>, <<1, 0, 1>>}
MCAmount == [p \in MCPayments |-> 7]

\* Nothing found, something found in part, the very picture found, an agency named.
MCWebs == {[full |-> 0, partial |-> 0, pages |-> 0, agency |-> FALSE],
           [full |-> 0, partial |-> 1, pages |-> 1, agency |-> FALSE],
           [full |-> 1, partial |-> 0, pages |-> 0, agency |-> FALSE],
           [full |-> 0, partial |-> 0, pages |-> 0, agency |-> TRUE]}

\* The logs, the orders and the steps are all of one step, one request, one season.
MCStepOf == [l \in Logs |-> 1]
MCBatchOf == <<1, 1>>
MCFarm == <<1, 1>>
MCSeason == <<1, 1>>

\* Two orders in one request, for one and two of a product: half units make an
\* order of one fail, the dearest price makes the two together fail.
MCCart == <<1 :> 1, 1 :> 2>>
MCOffers == <<{[price |-> 4, weight |-> 2], [price |-> 6, weight |-> 3], [price |-> 8, weight |-> 2]}>>

\* The second step is late enough for its least number of days, which the first lacks.
MCDay == <<0, 10>>
MCMinDays == <<Null, 5>>
MCMaxDays == <<Null, Null>>

\* Handlers are interchangeable, and so are two numbers and two logs, which
\* no scene has both: they are swapped in one permutation.
Swapped(S) == CHOOSE f \in Permutations(S) : \A x \in S : f[x] # x
Symmetry == Permutations(Calls) \cup {Swapped(Numbers) @@ Swapped(Logs)}
=============================================================================
