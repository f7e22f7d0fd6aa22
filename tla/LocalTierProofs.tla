-------------------------- MODULE LocalTierProofs --------------------------
(***************************************************************************)
(* About CorpusE2E on the node-local tiers, for every corpus size, chunk   *)
(* count, capacity and bound: what the movement of one counter over a      *)
(* whole pass does say.                                                    *)
(***************************************************************************)
EXTENDS SharedTierProofs

USE DEF MetricsNode, BeforeCachedPass, InCachedPass

-----------------------------------------------------------------------------
(* A counter that did not move.                                            *)

\* Some document of the cached pass was retrieved.
Hit == \E d \in Docs : served[d].got > 0

\* The loops of the shared tier are not entered.
LoopsAreLocal == ~per_doc_hits => pc \notin {"flush", "read_before", "read_after"}

StillToAsk ==
    /\ pc \in BeforeCachedPass => ~Hit
    /\ ~per_doc_hits /\ pc = "send" => \A d \in Docs : d >= doc => served[d].got = 0

\* /metrics is behind the counter, never ahead of it.
Behind == ~per_doc_hits => published["A"] <= hits["A"]

\* The counter has moved since the first read if anything was retrieved.
Moved ==
    ~per_doc_hits /\ ~args.fleet =>
        /\ pc \in {"send", "read_pass_after"} /\ pass_before >= 0 =>
              /\ hits["A"] >= pass_before
              /\ Hit => hits["A"] > pass_before
        /\ pc \in {"summary", "done"} /\ pass_delta = 0 => ~Hit

PassInv == LoopsAreLocal /\ StillToAsk /\ Behind /\ Moved

\* Nothing was asked for yet, and no counter has moved.
LEMMA InitPass == Init => PassInv
<1> SUFFICES ASSUME Init PROVE PassInv
  OBVIOUS
<1>1. pc = "wait" /\ \A d \in Docs : served[d].got = 0
  BY DEF Init, NoServe
<1>2. published["A"] = 0 /\ hits["A"] = 0
  BY DEF Init, Nodes, Stores
<1> QED
  BY <1>1, <1>2 DEF PassInv, LoopsAreLocal, StillToAsk, Behind, Moved, Hit

\* A step of the harness that asks no node for anything.
LEMMA QuietPass ==
    ASSUME TypeOK, PassInv,
           UNCHANGED <<args, served, hits, published>>,
           \/ pc' = pc /\ doc' = doc /\ pass_before' = pass_before /\ pass_delta' = pass_delta
           \/ pc \in BeforeCachedPass /\ pc' \in BeforeCachedPass
           \/ pc' = "failed"
           \/ pc' = "read_before" /\ per_doc_hits
           \/ pc = "summary" /\ pc' \in {"done", "failed"} /\ pass_delta' = pass_delta,
           ~per_doc_hits => pc' \notin {"flush", "read_before", "read_after"}
    PROVE  PassInv'
<1>1. Hit' <=> Hit
  BY DEF Hit
<1>2. LoopsAreLocal' /\ Behind'
  BY DEF PassInv, LoopsAreLocal, Behind, per_doc_hits
<1>3. StillToAsk'
  BY <1>1 DEF PassInv, StillToAsk, per_doc_hits
<1>4. Moved'
  BY <1>1 DEF PassInv, Moved, per_doc_hits
<1> QED
  BY <1>2, <1>3, <1>4 DEF PassInv

\* A request of the cold pass moves the counter before the first read.
LEMMA ColdSendPass ==
    ASSUME TypeOK, PassInv, ColdSend PROVE PassInv'
<1>1. PICK found \in 0..Chunks, got \in 0..Chunks : Serve(ColdNode, doc, found, got)
  BY DEF ColdSend
<1>2. /\ pc = "cold" /\ pc' \in {"cold", "settle", "failed"} /\ UNCHANGED <<args, served>>
  BY DEF ColdSend
<1>3. published' = published /\ (~per_doc_hits => hits'["A"] >= hits["A"])
  <2>1. hits \in [Stores -> Nat] /\ "A" \in Stores
    BY DEF TypeOK, Stores, Nodes
  <2>2. ~per_doc_hits =>
           hits' = hits \/ hits' = [hits EXCEPT !["A"] = @ + got + 0]
    BY <1>1 DEF Serve, StoreOf, ColdNode
  <2> QED BY <1>1, <2>1, <2>2 DEF Serve
<1>4. published["A"] \in Nat /\ hits["A"] \in Nat
  BY DEF TypeOK, Stores, Nodes
<1>5. hits'["A"] \in Int \/ per_doc_hits
  <2>1. hits \in [Stores -> Nat] /\ "A" \in Stores
    BY DEF TypeOK, Stores, Nodes
  <2>2. ~per_doc_hits =>
           hits' = hits \/ hits' = [hits EXCEPT !["A"] = @ + got + 0]
    BY <1>1 DEF Serve, StoreOf, ColdNode
  <2> QED BY <2>1, <2>2
<1>6. LoopsAreLocal' /\ Behind'
  BY <1>2, <1>3, <1>4, <1>5 DEF PassInv, LoopsAreLocal, Behind, per_doc_hits
<1>7. StillToAsk' /\ Moved'
  BY <1>2 DEF PassInv, StillToAsk, Moved, Hit
<1> QED
  BY <1>6, <1>7 DEF PassInv

\* The first read is of the counter as it was some time ago.
LEMMA ReadPassBeforePass ==
    ASSUME TypeOK, AttributionInv, PassInv, ReadPassBefore PROVE PassInv'
<1>1. /\ pc = "read_pass_before" /\ pc' = "send" /\ pass_before' \in _tier_hits
      /\ UNCHANGED <<args, doc, served, hits, published>> /\ ~per_doc_hits
  BY DEF ReadPassBefore, servers, AttributionInv, PassReadsAreLocal
<1>2. ~Hit /\ published["A"] <= hits["A"]
  BY <1>1 DEF PassInv, StillToAsk, Behind
<1>3. pass_before' = -1 \/ pass_before' = published["A"]
  BY <1>1 DEF _tier_hits
<1>4. published["A"] \in Nat /\ hits["A"] \in Nat /\ \A d \in Docs : served[d].got \in Nat
  BY DEF TypeOK, Stores, Nodes
<1>5. \A d \in Docs : served[d].got = 0
  BY <1>2, <1>4 DEF Hit
<1>6. ~Hit'
  BY <1>1, <1>5 DEF Hit
<1> QED
  BY <1>1, <1>2, <1>3, <1>4, <1>5, <1>6 DEF PassInv, LoopsAreLocal, StillToAsk, Behind, Moved,
     per_doc_hits

\* A retrieve moves the counter.
LEMMA CachedSendPass ==
    ASSUME TypeOK, PassInv, CachedSend PROVE PassInv'
<1>1. PICK found \in 0..Chunks, got \in 0..Chunks :
         /\ Serve(CachedNode, doc, found, got)
         /\ served' = [served EXCEPT ![doc] =
                        [found |-> found, got |-> got,
                         from |-> IF found > 0 THEN origin[doc] ELSE {}]]
  BY DEF CachedSend
<1>2. /\ pc = "send" /\ UNCHANGED <<args, pass_before, pass_delta>>
      /\ per_doc_hits => pc' \in {"read_after", "failed"}
      /\ ~per_doc_hits => \/ pc' = "send" /\ doc' = doc + 1
                          \/ pc' \in {"read_pass_after", "failed"}
  BY DEF CachedSend, NextDoc
<1>3. /\ doc \in Docs /\ (\A d \in Docs : d \in Int) /\ pass_before \in Int
      /\ hits \in [Stores -> Nat] /\ "A" \in Stores /\ "B" \in Stores
      /\ published["A"] \in Nat
  BY DEF TypeOK, Docs, Stores, Nodes
<1>4. /\ served'[doc].got = got
      /\ \A d \in Docs \ {doc} : served'[d] = served[d]
  BY <1>1, <1>3 DEF TypeOK
<1>5. published' = published
  BY <1>1 DEF Serve
<1>6. CASE per_doc_hits
  BY <1>2, <1>6 DEF PassInv, LoopsAreLocal, StillToAsk, Behind, Moved, per_doc_hits
<1>7. CASE ~per_doc_hits
  <2>1. (hits' = hits /\ got = 0) \/ hits' = [hits EXCEPT ![CachedNode] = @ + got + 0]
    BY <1>1, <1>7 DEF Serve, StoreOf
  <2>2. hits'["A"] \in Nat /\ hits'["A"] >= hits["A"]
    BY <1>3, <2>1 DEF CachedNode
  <2>3. ~args.fleet => hits'["A"] = hits["A"] + got
    BY <1>3, <2>1 DEF CachedNode
  <2>4. Hit' => Hit \/ got > 0
    BY <1>4 DEF Hit
  <2>5. LoopsAreLocal' /\ Behind'
    BY <1>2, <1>3, <1>5, <1>7, <2>2 DEF PassInv, LoopsAreLocal, Behind, per_doc_hits
  <2>6. StillToAsk'
    <3>1. pc' = "send" => \A d \in Docs : d >= doc' => d >= doc /\ d # doc
      BY <1>2, <1>3, <1>7
    <3> QED
      BY <1>2, <1>4, <1>7, <3>1 DEF PassInv, StillToAsk
  <2>7. Moved'
    <3>1. ~args.fleet /\ pass_before >= 0 =>
             /\ hits["A"] >= pass_before
             /\ Hit => hits["A"] > pass_before
      BY <1>2, <1>7 DEF PassInv, Moved
    <3>2. hits["A"] \in Nat /\ got \in Nat
      BY <1>3
    <3>3. ~args.fleet /\ pass_before >= 0 =>
             /\ hits'["A"] >= pass_before
             /\ Hit' => hits'["A"] > pass_before
      BY <1>3, <2>3, <2>4, <3>1, <3>2
    <3> QED
      BY <1>2, <1>7, <3>3 DEF Moved
  <2> QED
    BY <2>5, <2>6, <2>7 DEF PassInv
<1> QED
  BY <1>6, <1>7

\* The last read comes after everything has been published.
LEMMA ReadPassAfterPass ==
    ASSUME TypeOK, AttributionInv, PassInv, ReadPassAfter PROVE PassInv'
<1>1. /\ pc = "read_pass_after" /\ pc' = "summary"
      /\ UNCHANGED <<args, served, hits, published>> /\ ~per_doc_hits
  BY DEF ReadPassAfter, servers, AttributionInv, PassReadsAreLocal
<1>2. PICK after \in _tier_hits : pass_delta' = Delta(pass_before, after)
  BY DEF ReadPassAfter
<1>3. after = -1 \/ after = hits["A"]
  BY <1>1, <1>2 DEF _tier_hits, ReadPassAfter, StatsLanded
<1>4. pass_before \in Int /\ hits["A"] \in Nat
  BY DEF TypeOK, Stores, Nodes
<1>5. pass_delta' = 0 => pass_before >= 0 /\ hits["A"] = pass_before
  BY <1>2, <1>3, <1>4 DEF Delta
<1>6. ~args.fleet /\ pass_delta' = 0 => ~Hit
  BY <1>1, <1>4, <1>5 DEF PassInv, Moved
<1>7. Hit' <=> Hit
  BY <1>1 DEF Hit
<1> QED
  BY <1>1, <1>6, <1>7 DEF PassInv, LoopsAreLocal, StillToAsk, Behind, Moved, per_doc_hits

\* The servers publish what they have counted, and count nothing by themselves.
LEMMA ServersPass ==
    ASSUME TypeOK, PassInv, ServerStep PROVE PassInv'
<1>1. /\ UNCHANGED <<args, pc, doc, served, pass_before, pass_delta>>
      /\ ~per_doc_hits => hits' = hits
      /\ ~per_doc_hits => published' = published
                          \/ \E n \in Nodes : published' = [published EXCEPT ![n] = hits[n]]
  BY DEF ServerStep, ServerReady, ServerDies, StatsFlush, StoreLands, ValkeyRestarts,
     harness, history
<1>2. hits["A"] \in Nat /\ published \in [Nodes -> Nat] /\ "A" \in Nodes
  BY DEF TypeOK, Stores, Nodes
<1>3. Behind'
  BY <1>1, <1>2 DEF PassInv, Behind, per_doc_hits
<1>4. Hit' <=> Hit
  BY <1>1 DEF Hit
<1> QED
  BY <1>1, <1>3, <1>4 DEF PassInv, LoopsAreLocal, StillToAsk, Moved, per_doc_hits

\* Every step keeps the invariant.
LEMMA NextPass ==
    ASSUME AttributionInv, FlushInv, PassInv, TypeOK', [Next]_vars PROVE PassInv'
<1> TypeOK
  BY DEF AttributionInv
<1>1. CASE ColdSend
  BY <1>1, ColdSendPass
<1>2. CASE ReadPassBefore
  BY <1>2, ReadPassBeforePass
<1>3. CASE CachedSend
  BY <1>3, CachedSendPass
<1>4. CASE ReadPassAfter
  BY <1>4, ReadPassAfterPass
<1>5. CASE ServerStep
  BY <1>5, ServersPass
<1>6. CASE Rerun
  <2>1. /\ pc' = "wait" /\ UNCHANGED <<args, hits, published>>
        /\ \A d \in Docs : served'[d].got = 0
    BY <1>6 DEF Rerun, servers, NoServe
  <2> QED
    BY <2>1 DEF PassInv, LoopsAreLocal, StillToAsk, Behind, Moved, Hit, per_doc_hits
<1>7. CASE ReadBefore \/ ReadAfter \/ FlushL2
  <2>1. per_doc_hits
    BY <1>7 DEF ReadBefore, ReadAfter, FlushL2, PassInv, LoopsAreLocal
  <2>2. args' = args /\ pc' \in {"send", "read_before", "summary", "cold", "failed"}
        /\ served' = served
        /\ (pc' = "cold" => pc = "flush")
    BY <1>7 DEF ReadBefore, ReadAfter, FlushL2, NextDoc
  <2>3. Hit' <=> Hit
    BY <2>2 DEF Hit
  <2> QED
    BY <2>1, <2>2, <2>3 DEF PassInv, LoopsAreLocal, StillToAsk, Behind, Moved, per_doc_hits
<1>8. CASE WaitForServer \/ WaitTimesOut \/ Settle \/ Summary \/ StepRaises \/ UNCHANGED vars
  <2>1. UNCHANGED <<args, served, hits, published>>
    BY <1>8 DEF WaitForServer, WaitTimesOut, Settle, Summary, StepRaises, vars, harness,
       servers, history
  <2>2. AfterWait \in {"flush", "cold"} /\ (~per_doc_hits => AfterWait # "flush")
    BY DEF AfterWait, FlushInv, FlushIsShared
  <2>3. CASE WaitForServer
    BY <2>1, <2>2, <2>3, QuietPass DEF WaitForServer
  <2>4. CASE WaitTimesOut \/ Settle \/ StepRaises
    BY <2>1, <2>4, QuietPass DEF WaitTimesOut, Settle, StepRaises
  <2>5. CASE Summary
    BY <2>1, <2>5, QuietPass DEF Summary
  <2>6. CASE UNCHANGED vars
    BY <2>1, <2>6, QuietPass DEF vars, harness, PassInv, LoopsAreLocal
  <2> QED
    BY <1>8, <2>3, <2>4, <2>5, <2>6
<1> QED
  BY <1>1, <1>2, <1>3, <1>4, <1>5, <1>6, <1>7, <1>8 DEF Next, HarnessStep

\* PassInv holds in every reachable state.
LEMMA Passing == Spec => []PassInv
<1>1. AttributionInv /\ FlushInv /\ PassInv /\ TypeOK' /\ [Next]_vars => PassInv'
  BY NextPass
<1> QED
  BY <1>1, InitPass, TypeCorrect, Attribution, Flushing, PTL DEF Spec

\* On one node, a local tier whose counter did not move over the cached pass served nothing
\* in it: every hit is published before the last read.
THEOREM UnmovedMeansNone == Spec => []ZeroMeansNone
<1>1. TypeOK /\ PassInv => ZeroMeansNone
  <2> SUFFICES ASSUME TypeOK, ~Hit PROVE \A d \in Docs : served[d].got = 0
    BY DEF PassInv, Moved, ZeroMeansNone
  <2>1. \A d \in Docs : served[d].got \in Nat
    BY DEF TypeOK
  <2> QED
    BY <2>1 DEF Hit
<1> QED
  BY <1>1, TypeCorrect, Passing, PTL

-----------------------------------------------------------------------------
(* Fresh nodes.  In the first run a local tier holds, or is about to be     *)
(* given, only documents its own node was asked for; so nothing is hit      *)
(* before the cached pass, and in fleet mode nothing at all.                *)

\* Node n has not been asked for document d.
Unasked(n, d) ==
    \/ pc \in {"wait", "wait_cached"}
    \/ pc = "cold" /\ d >= doc
    \/ /\ n = "B" /\ args.fleet
       /\ \/ pc \in {"cold", "settle", "read_pass_before"}
          \/ pc = "send" /\ d >= doc

Fresh(n, d) == kv[n][d] = 0 /\ <<n, d>> \notin pending

FreshInv ==
    ~per_doc_hits /\ runs = 1 =>
        /\ \A n \in Nodes, d \in Docs : Unasked(n, d) => Fresh(n, d)
        /\ args.fleet => \A d \in Docs : served[d].found = 0

\* Whatever says that the counter moved says that something was retrieved.
HitInv ==
    ~per_doc_hits /\ runs = 1 =>
        /\ \A n \in Nodes : hits[n] > 0 \/ published[n] > 0 => Hit
        /\ pass_before <= 0
        /\ pass_delta > 0 => Hit
        /\ (\E d \in Docs : rows[d].l2 = "yes") \/ report.confirmed # {} => Hit

\* The tiers are empty and the counters zero initially.
LEMMA InitFresh == Init => FreshInv /\ HitInv
<1> SUFFICES ASSUME Init PROVE FreshInv /\ HitInv
  OBVIOUS
<1>1. ~per_doc_hits => \A n \in Nodes, d \in Docs : Fresh(n, d)
  <2> SUFFICES ASSUME ~per_doc_hits, NEW n \in Nodes, NEW d \in Docs PROVE Fresh(n, d)
    OBVIOUS
  <2>1. n \in Stores /\ n # "L2"
    BY DEF Stores, Nodes
  <2> QED BY <2>1 DEF Init, Fresh
<1>2. \A d \in Docs : served[d].found = 0 /\ rows[d].l2 = "-"
  BY DEF Init, NoServe, NoRow
<1>3. pass_before = -1 /\ pass_delta = -1 /\ report.confirmed = {}
  BY DEF Init, NoReport
<1>4. \A n \in Nodes : hits[n] = 0 /\ published[n] = 0
  BY DEF Init, Stores, Nodes
<1> QED
  BY <1>1, <1>2, <1>3, <1>4 DEF FreshInv, HitInv

\* A step that gives a tier nothing and asks no node.
LEMMA QuietFresh ==
    ASSUME TypeOK, FreshInv,
           UNCHANGED <<args, kv, pending, served, runs>>,
           \/ pc' = pc /\ doc' = doc
           \/ pc \in {"wait", "wait_cached"}
           \/ pc = "settle" /\ pc' = "read_pass_before"
           \/ pc = "read_pass_before" /\ pc' = "send"
           \/ pc' \in {"failed", "summary", "done"}
           \/ per_doc_hits
    PROVE  FreshInv'
<1>1. CASE per_doc_hits
  BY <1>1 DEF FreshInv, per_doc_hits
<1>2. CASE ~per_doc_hits
  <2>1. pc \in {"wait", "wait_cached"} \/ \A n \in Nodes, d \in Docs : Unasked(n, d)' => Unasked(n, d)
    BY <1>2 DEF Unasked
  <2>2. pc \in {"wait", "wait_cached"} => \A n \in Nodes, d \in Docs : Unasked(n, d)
    BY DEF Unasked
  <2> QED
    BY <1>2, <2>1, <2>2 DEF FreshInv, Fresh, per_doc_hits
<1> QED
  BY <1>1, <1>2

\* A request adds at most its own document to the stores under way, and finds nothing in a
\* tier that was given nothing of it.
LEMMA ServeLocal ==
    ASSUME TypeOK, ~per_doc_hits, NEW n \in Nodes, NEW d \in Docs,
           NEW found \in 0..Chunks, NEW got \in 0..Chunks, Serve(n, d, found, got)
    PROVE  /\ kv' = kv /\ published' = published /\ pending' \subseteq pending \cup {<<n, d>>}
           /\ found = 0 \/ found = kv[n][d]
           /\ got = 0 \/ got = found
           /\ hits' = hits \/ hits' = [hits EXCEPT ![n] = @ + got + 0]
BY DEF Serve, StoreOf

\* In the first cold pass a request finds nothing.
LEMMA ColdSendFresh ==
    ASSUME TypeOK, TypeOK', FreshInv, HitInv, ColdSend PROVE FreshInv' /\ HitInv'
<1>1. PICK found \in 0..Chunks, got \in 0..Chunks : Serve(ColdNode, doc, found, got)
  BY DEF ColdSend
<1>2. /\ pc = "cold"
      /\ UNCHANGED <<args, served, rows, runs, pass_before, pass_delta, report>>
      /\ \/ pc' = "cold" /\ doc' = doc + 1
         \/ pc' \in {"settle", "failed"}
  BY DEF ColdSend
<1>3. /\ doc \in Docs /\ (\A d \in Docs : d \in Int) /\ ColdNode \in Nodes
      /\ hits \in [Stores -> Nat]
  BY DEF TypeOK, Docs, ColdNode, Nodes
<1> SUFFICES ASSUME ~per_doc_hits, runs = 1 PROVE FreshInv' /\ HitInv'
  BY <1>2 DEF FreshInv, HitInv, per_doc_hits
<1>4. /\ kv' = kv /\ published' = published
      /\ pending' \subseteq pending \cup {<<ColdNode, doc>>}
      /\ found = 0 \/ found = kv[ColdNode][doc]
      /\ got = 0 \/ got = found
      /\ hits' = hits \/ hits' = [hits EXCEPT ![ColdNode] = @ + got + 0]
  BY <1>1, <1>3, ServeLocal
<1>5. Fresh(ColdNode, doc)
  BY <1>2, <1>3 DEF FreshInv, Unasked
<1>6. got = 0
  BY <1>4, <1>5 DEF Fresh
<1>7. hits' = hits
  BY <1>3, <1>4, <1>6
<1>8. ASSUME NEW n \in Nodes, NEW d \in Docs, Unasked(n, d)' PROVE Fresh(n, d)'
  <2>1. Unasked(n, d) /\ (n # ColdNode \/ d # doc)
    BY <1>2, <1>3, <1>8 DEF Unasked, ColdNode
  <2>2. Fresh(n, d)
    BY <2>1 DEF FreshInv
  <2> QED
    BY <1>4, <2>1, <2>2 DEF Fresh
<1>9. Hit' <=> Hit
  BY <1>2 DEF Hit
<1> QED
  BY <1>2, <1>4, <1>7, <1>8, <1>9 DEF FreshInv, HitInv

\* A retrieve is the only thing that moves a counter in the cached pass.
LEMMA CachedSendFresh ==
    ASSUME TypeOK, TypeOK', PassInv, FreshInv, HitInv, CachedSend PROVE FreshInv' /\ HitInv'
<1>1. PICK found \in 0..Chunks, got \in 0..Chunks :
         /\ Serve(CachedNode, doc, found, got)
         /\ served' = [served EXCEPT ![doc] =
                        [found |-> found, got |-> got,
                         from |-> IF found > 0 THEN origin[doc] ELSE {}]]
  BY DEF CachedSend
<1>2. /\ pc = "send" /\ UNCHANGED <<args, runs, pass_before, pass_delta, report>>
  BY DEF CachedSend
<1> SUFFICES ASSUME ~per_doc_hits, runs = 1 PROVE FreshInv' /\ HitInv'
  BY <1>2 DEF FreshInv, HitInv, per_doc_hits
<1>3. /\ \/ pc' = "send" /\ doc' = doc + 1
         \/ pc' \in {"read_pass_after", "failed"}
      /\ \/ rows' = rows
         \/ rows' = [rows EXCEPT ![doc] = [delta |-> -1, l2 |-> Verdict(-1)]]
  BY DEF CachedSend, NextDoc
<1>4. /\ doc \in Docs /\ (\A d \in Docs : d \in Int) /\ CachedNode \in Nodes
      /\ hits \in [Stores -> Nat] /\ rows \in [Docs -> RowTypes]
      /\ served \in [Docs -> [found : 0..Chunks, got : 0..Chunks, from : SUBSET Sources]]
  BY DEF TypeOK, Docs, CachedNode, Nodes
<1>5. /\ kv' = kv /\ published' = published
      /\ pending' \subseteq pending \cup {<<CachedNode, doc>>}
      /\ found = 0 \/ found = kv[CachedNode][doc]
      /\ got = 0 \/ got = found
      /\ hits' = hits \/ hits' = [hits EXCEPT ![CachedNode] = @ + got + 0]
  BY <1>1, <1>4, ServeLocal
<1>6. ASSUME args.fleet PROVE found = 0
  <2>1. CachedNode = "B" /\ Unasked(CachedNode, doc)
    BY <1>2, <1>4, <1>6 DEF CachedNode, Unasked
  <2>2. Fresh(CachedNode, doc)
    BY <1>4, <2>1 DEF FreshInv
  <2> QED BY <1>5, <2>2 DEF Fresh
<1>7. ASSUME NEW n \in Nodes, NEW d \in Docs, Unasked(n, d)' PROVE Fresh(n, d)'
  <2>1. Unasked(n, d) /\ n = "B" /\ args.fleet /\ d # doc
    BY <1>2, <1>3, <1>4, <1>7 DEF Unasked
  <2>2. Fresh(n, d)
    BY <2>1 DEF FreshInv
  <2> QED
    BY <1>5, <2>1, <2>2 DEF Fresh
<1>8. args.fleet => \A d \in Docs : served'[d].found = 0
  BY <1>1, <1>4, <1>6 DEF FreshInv
<1>9. FreshInv'
  BY <1>2, <1>7, <1>8 DEF FreshInv
<1>10. served[doc].got = 0
  BY <1>2, <1>4 DEF PassInv, StillToAsk
<1>11. Hit => Hit'
  BY <1>1, <1>4, <1>10 DEF Hit
<1>12. got > 0 => Hit'
  BY <1>1, <1>4 DEF Hit
<1>13. \A n \in Nodes : hits'[n] > 0 => hits[n] > 0 \/ got > 0
  <2>1. Nodes \subseteq Stores
    BY DEF Stores
  <2> QED BY <1>4, <1>5, <2>1
<1>14. \A d \in Docs : rows'[d].l2 = "yes" => rows[d].l2 = "yes"
  BY <1>3, <1>4 DEF Verdict
<1>15. HitInv'
  BY <1>2, <1>5, <1>11, <1>12, <1>13, <1>14 DEF HitInv
<1> QED
  BY <1>9, <1>15

\* What lands was under way, and evicts what it evicts.
LEMMA StoreFresh ==
    ASSUME TypeOK, FreshInv, NEW n \in Nodes, NEW e \in Docs, StoreLands(n, e)
    PROVE  FreshInv'
<1>1. PICK c \in kv[StoreOf(n)][e]..Chunks, keep \in SUBSET (Docs \ {e}) :
         kv' = [kv EXCEPT ![StoreOf(n)] = [d \in Docs |->
                  CASE d = e -> c [] d \in keep -> @[d] [] OTHER -> 0]]
  BY DEF StoreLands
<1>2. /\ <<n, e>> \in pending /\ pending' = pending \ {<<n, e>>}
      /\ UNCHANGED <<args, pc, doc, served, runs>>
  BY DEF StoreLands, harness
<1> SUFFICES ASSUME ~per_doc_hits, runs = 1 PROVE FreshInv'
  BY <1>2 DEF FreshInv, per_doc_hits
<1>3. \A m \in Nodes, d \in Docs : kv[m][d] = 0 /\ (m # n \/ d # e) => kv'[m][d] = 0
  <2>1. StoreOf(n) = n /\ Nodes \subseteq Stores /\ kv \in [Stores -> [Docs -> 0..Chunks]]
    BY DEF StoreOf, Stores, TypeOK
  <2> QED BY <1>1, <2>1
<1>4. \A m \in Nodes, d \in Docs : Fresh(m, d) => Fresh(m, d)'
  BY <1>2, <1>3 DEF Fresh
<1>5. \A m \in Nodes, d \in Docs : Unasked(m, d)' <=> Unasked(m, d)
  BY <1>2 DEF Unasked
<1> QED
  BY <1>2, <1>4, <1>5 DEF FreshInv

\* What lands was asked for, and what is published was counted.
LEMMA ServersFresh ==
    ASSUME TypeOK, FreshInv, HitInv, ServerStep PROVE FreshInv' /\ HitInv'
<1>1. /\ UNCHANGED <<args, pc, doc, rows, report, served, runs, pass_before, pass_delta>>
      /\ ~per_doc_hits => hits' = hits
      /\ ~per_doc_hits => published' = published
                          \/ \E n \in Nodes : published' = [published EXCEPT ![n] = hits[n]]
  BY DEF ServerStep, ServerReady, ServerDies, StatsFlush, StoreLands, ValkeyRestarts,
     harness, history
<1>2. FreshInv'
  <2>1. CASE \E n \in Nodes, e \in Docs : StoreLands(n, e)
    BY <2>1, StoreFresh
  <2>2. CASE \/ \E n \in Nodes : ServerReady(n) \/ ServerDies(n) \/ StatsFlush(n)
             \/ ValkeyRestarts
    <3>1. pending' \subseteq pending /\ (~per_doc_hits => kv' = kv)
      BY <2>2 DEF ServerReady, ServerDies, StatsFlush, ValkeyRestarts
    <3>2. \A m \in Nodes, d \in Docs : Unasked(m, d)' <=> Unasked(m, d)
      BY <1>1 DEF Unasked
    <3> QED
      BY <1>1, <3>1, <3>2 DEF FreshInv, Fresh, per_doc_hits
  <2> QED
    BY <2>1, <2>2 DEF ServerStep
<1>3. Hit' <=> Hit
  BY <1>1 DEF Hit
<1>4. ~per_doc_hits => \A n \in Nodes : published'[n] > 0 => published[n] > 0 \/ hits[n] > 0
  BY <1>1 DEF TypeOK
<1>5. HitInv'
  BY <1>1, <1>3, <1>4 DEF HitInv, per_doc_hits
<1> QED
  BY <1>2, <1>5

\* The two reads of the pass.
LEMMA ReadPassFresh ==
    ASSUME TypeOK, AttributionInv, PassInv, FreshInv, HitInv, ReadPassBefore \/ ReadPassAfter
    PROVE  FreshInv' /\ HitInv'
<1>1. /\ UNCHANGED <<args, kv, pending, hits, published, served, report, runs>>
      /\ \/ pc = "read_pass_before" /\ pc' = "send" /\ doc' = doc
         \/ pc' = "summary"
      /\ ~per_doc_hits
  BY DEF ReadPassBefore, ReadPassAfter, servers, AttributionInv, PassReadsAreLocal
<1>2. FreshInv'
  BY <1>1, QuietFresh
<1>3. Hit' <=> Hit
  BY <1>1 DEF Hit
<1>4. published["A"] \in Nat /\ pass_before \in Int /\ pass_delta \in Int /\ "A" \in Nodes
  BY DEF TypeOK, Nodes
<1>5. HitInv'
  <2> SUFFICES ASSUME runs = 1 PROVE HitInv'
    BY <1>1 DEF HitInv
  <2>1. CASE ReadPassBefore
    <3>1. /\ pass_before' = -1 \/ pass_before' = published["A"]
          /\ UNCHANGED <<rows, pass_delta>> /\ pc = "read_pass_before"
      BY <1>1, <2>1 DEF ReadPassBefore, _tier_hits
    <3>2. ~Hit
      BY <3>1 DEF PassInv, StillToAsk
    <3>3. pass_before' <= 0
      BY <1>1, <1>4, <3>1, <3>2 DEF HitInv
    <3> QED
      BY <1>1, <1>3, <3>1, <3>3 DEF HitInv
  <2>2. CASE ReadPassAfter
    <3>1. PICK after \in _tier_hits :
            /\ pass_delta' = Delta(pass_before, after)
            /\ rows' = IF PassYes(Delta(pass_before, after))
                       THEN [d \in Docs |-> [delta |-> Delta(pass_before, after), l2 |-> "yes"]]
                       ELSE rows
      BY <2>2 DEF ReadPassAfter
    <3>2. pass_before' = pass_before
      BY <2>2 DEF ReadPassAfter
    <3>3. after = -1 \/ after = published["A"]
      BY <1>1, <3>1 DEF _tier_hits
    <3>4. Delta(pass_before, after) > 0 => published["A"] > 0
      BY <1>1, <1>4, <3>3 DEF Delta, HitInv
    <3>5. pass_delta' > 0 => Hit
      BY <1>1, <1>4, <3>1, <3>4 DEF HitInv
    <3>6. (\E d \in Docs : rows'[d].l2 = "yes") => Hit
      BY <1>1, <1>4, <3>1, <3>4 DEF HitInv, PassYes
    <3> QED
      BY <1>1, <1>3, <3>2, <3>5, <3>6 DEF HitInv
  <2> QED BY <2>1, <2>2
<1> QED
  BY <1>2, <1>5

\* There has been a first run.
Started == runs >= 1

\* The runs are counted from one.
LEMMA AlwaysStarted == Spec => []Started
<1>1. Init => Started
  BY DEF Init, Started
<1>2. TypeOK /\ Started /\ [Next]_vars => Started'
  <2> SUFFICES ASSUME TypeOK, Started, [Next]_vars PROVE Started'
    OBVIOUS
  <2>1. runs \in Nat /\ (runs' = runs \/ runs' = runs + 1)
    BY DEF TypeOK, Next, HarnessStep, ServerStep, WaitForServer, WaitTimesOut, FlushL2,
       ColdSend, Settle, ReadPassBefore, ReadBefore, CachedSend, ReadAfter, ReadPassAfter,
       Summary, StepRaises, ServerReady, ServerDies, StatsFlush, StoreLands, ValkeyRestarts,
       Rerun, vars, history
  <2> QED
    BY <2>1 DEF Started
<1> QED
  BY <1>1, <1>2, TypeCorrect, PTL DEF Spec

\* Every step keeps both invariants.
LEMMA NextFresh ==
    ASSUME AttributionInv, PassInv, FreshInv, HitInv, Started, TypeOK', [Next]_vars
    PROVE  FreshInv' /\ HitInv'
<1> TypeOK
  BY DEF AttributionInv
<1>1. CASE ColdSend
  BY <1>1, ColdSendFresh
<1>2. CASE CachedSend
  BY <1>2, CachedSendFresh
<1>3. CASE ReadPassBefore \/ ReadPassAfter
  BY <1>3, ReadPassFresh
<1>4. CASE ServerStep
  BY <1>4, ServersFresh
<1>5. CASE Rerun
  <2>1. runs' # 1 \/ per_doc_hits'
    <3>1. runs' = runs + 1 /\ runs \in Nat /\ runs >= 1
      BY <1>5 DEF Rerun, TypeOK, Started
    <3> QED BY <3>1
  <2> QED
    BY <2>1 DEF FreshInv, HitInv
<1>6. CASE ReadBefore \/ ReadAfter \/ FlushL2
  <2>1. per_doc_hits /\ args' = args
    BY <1>6 DEF ReadBefore, ReadAfter, FlushL2, PassInv, LoopsAreLocal
  <2> QED
    BY <2>1 DEF FreshInv, HitInv, per_doc_hits
<1>7. CASE WaitForServer \/ WaitTimesOut \/ Settle \/ Summary \/ StepRaises \/ UNCHANGED vars
  <2>1. /\ UNCHANGED <<args, kv, pending, hits, published, served, rows, runs>>
        /\ UNCHANGED <<pass_before, pass_delta>>
    BY <1>7 DEF WaitForServer, WaitTimesOut, Settle, Summary, StepRaises, vars, harness,
       servers, history
  <2>2. FreshInv'
    <3>1. CASE WaitForServer \/ WaitTimesOut
      BY <2>1, <3>1, QuietFresh DEF WaitForServer, WaitTimesOut
    <3>2. CASE Settle
      BY <2>1, <3>2, QuietFresh DEF Settle
    <3>3. CASE Summary \/ StepRaises
      BY <2>1, <3>3, QuietFresh DEF Summary, StepRaises
    <3>4. CASE UNCHANGED vars
      BY <2>1, <3>4, QuietFresh DEF vars, harness
    <3> QED BY <1>7, <3>1, <3>2, <3>3, <3>4
  <2>3. Hit' <=> Hit
    BY <2>1 DEF Hit
  <2>4. report' = report \/ report'.confirmed = {d \in Docs : rows[d].l2 = "yes"}
    BY <1>7 DEF WaitForServer, WaitTimesOut, Settle, Summary, StepRaises, vars, harness,
       l2_rows
  <2>5. HitInv'
    BY <2>1, <2>3, <2>4 DEF HitInv, per_doc_hits
  <2> QED
    BY <2>2, <2>5
<1> QED
  BY <1>1, <1>2, <1>3, <1>4, <1>5, <1>6, <1>7 DEF Next, HarnessStep

\* Both hold in every reachable state.
LEMMA FirstRuns == Spec => [](FreshInv /\ HitInv)
<1>1. AttributionInv /\ PassInv /\ FreshInv /\ HitInv /\ Started /\ TypeOK' /\ [Next]_vars
      => FreshInv' /\ HitInv'
  BY NextFresh
<1> QED
  BY <1>1, InitFresh, TypeCorrect, Attribution, Passing, AlwaysStarted, PTL DEF Spec

\* Fresh nodes, local tier: documents are confirmed only if one of them was retrieved in the
\* cached pass.
THEOREM PassYesIsEarned == Spec => []PassYesNeedsHit
<1>1. HitInv => PassYesNeedsHit
  BY DEF HitInv, PassYesNeedsHit, Hit
<1> QED
  BY <1>1, FirstRuns, PTL

\* Fresh nodes, local tier, fleet mode: the second node finds nothing, and nothing is
\* confirmed.
THEOREM LocalTiersStayLocal == Spec => []LocalTierStaysLocal
<1>1. AttributionInv /\ FreshInv /\ HitInv => LocalTierStaysLocal
  <2> SUFFICES ASSUME AttributionInv, FreshInv, HitInv, ~per_doc_hits, args.fleet, runs = 1
               PROVE  \A d \in Docs : served[d].found = 0 /\ rows[d].l2 # "yes"
    BY DEF LocalTierStaysLocal
  <2>1. \A d \in Docs : served[d].found = 0 /\ served[d].got \in Nat
                        /\ served[d].got <= served[d].found
    BY DEF FreshInv, AttributionInv, GotIsFound, TypeOK
  <2>2. ~Hit
    BY <2>1 DEF Hit
  <2> QED
    BY <2>1, <2>2 DEF HitInv
<1> QED
  BY <1>1, Attribution, FirstRuns, PTL
=============================================================================
