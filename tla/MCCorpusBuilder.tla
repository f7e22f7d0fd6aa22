--------------------------- MODULE MCCorpusBuilder ---------------------------
\* Instances of CorpusBuilder for TLC.
EXTENDS CorpusBuilder

C(domain, documents, target, model, noise) ==
    [domain |-> domain, documents |-> documents, target |-> target,
     model |-> model, noise |-> noise]
Sc(w, lacks, extra) == [weight |-> w, lacks |-> lacks, extra |-> extra]
Array(scens) == [kind |-> "array", scenarios |-> scens]

MCCommands == {C("legal", 2, 100, TRUE, FALSE), C("legal", 1, 200, FALSE, TRUE),
               C("medical", 1, 100, TRUE, FALSE), C("legal", 0, 100, TRUE, FALSE),
               C("medical", -1, 100, TRUE, FALSE), C("narrative", 1, 100, TRUE, FALSE),
               C("medical", 1, 0, TRUE, TRUE), C("legal", 1, -40, TRUE, FALSE)}
\* Negative weights come in scenarios that only the medical domain accepts.
MCReplies ==
    {[kind |-> k, scenarios |-> << >>] : k \in {"empty", "no_json", "no_records", "array"}}
    \cup {Array(<<Sc(3, {}, {}), Sc(1, {}, {}), Sc(2, {}, {})>>),
          Array(<<Sc(2, {"parties"}, {}), Sc(-1, {}, {})>>),
          Array(<<Sc(1, {}, {"doc_number"}), Sc(5, {}, {}), Sc(1, {}, {}), Sc(2, {}, {})>>)}
MCDrifts == {0, 1}
MCNoiseDeltas == {-5, 1}
MCFirstReplies == {0, 100}
MCMoreReplies == {30, 50}

MCOneCommand == {C("medical", 2, 100, TRUE, FALSE)}
MCOneReply == {Array(<<Sc(1, {}, {})>>)}
MCAlmost == {98, 100}
MCNoDrift == {0}
=============================================================================
