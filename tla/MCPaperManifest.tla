---------------------------- MODULE MCPaperManifest ----------------------------
(***************************************************************************)
(* Instance of PaperManifest for TLC: a cycle of two reports whose cap and *)
(* limits bite, and a second one that offers one of the tickers again.     *)
(***************************************************************************)
EXTENDS PaperManifest, TLC

CONSTANTS A, B, S1, S2

Row(ticker, action, rank, sources) ==
    [ticker |-> ticker, action |-> action, caution |-> FALSE, rank |-> rank,
     sources |-> sources]

MCReports ==
    << << Row(A, "BUY", 1, {S1}), Row(B, "BUY", 2, {S2}) >>,
       << Row(B, "WATCH", 1, {}) >> >>

MCPolicies == {
    [cap |-> 2, maxNew |-> 1, maxPromotions |-> 1],
    [cap |-> 1, maxNew |-> 2, maxPromotions |-> 1]}

Of(h1, h2, notional) ==
    [health |-> [s \in {S1, S2} |-> IF s = S1 THEN h1 ELSE h2], notional |-> notional]

MCTerms == {Of("healthy", "healthy", 1), Of("degraded", "healthy", 1),
            Of("healthy", "absent", 1), Of("absent", "absent", 1)}

Symmetry == Permutations(Manifests)
====
