------------------------------ MODULE MCSelection ------------------------------
EXTENDS Selection

\* AF, AS, EU, OC, NA and SA, one probe in each, two where the weight is 30.
MCWeightOf == <<5, 15, 30, 10, 30, 10>>
MCPlainMatch == <<{1}, {2}, {3, 7}, {4}, {5, 8}, {6}>>
MCReadyLists == {Selectable}

\* Nobody shares a network, and nothing is asked for by its name.
MCNetworkOf == [p \in Selectable |-> p]
MCNothing == [p \in Selectable |-> {}]
MCIndexOf == [p \in Selectable |-> <<{}>>]
MCNoWords == <<{}>>
MCNoIPs == <<>>
MCMagic == [l \in Places |-> <<>>]
===============================================================================
