-------------------------- MODULE CorpusE2EProofs --------------------------
(***************************************************************************)
(* Proofs about CorpusE2E, for every corpus size, chunk count, set of      *)
(* command lines and bound: type correctness, and the soundness of the     *)
(* per-document attribution of the valkey tier.                            *)
(***************************************************************************)
EXTENDS CorpusE2E, TLAPS

USE NDocsAssumption, ChunksAssumption, FleetsAssumption, BackendsAssumption,
    BoundsAssumption

\* What a request does to the servers keeps their types.
LEMMA ServeType ==
    ASSUME TypeOK, NEW n \in Nodes, NEW d \in Docs,
           NEW found \in 0..Chunks, NEW got \in 0..Chunks,
           Serve(n, d, found, got)
    PROVE  /\ server' = server /\ kv' = kv /\ published' = published
           /\ pending' \in SUBSET (Nodes \X Docs)
           /\ hits' \in [Stores -> Nat]
<1>1. server' = server /\ kv' = kv /\ published' = published
  BY DEF Serve
<1>2. CASE UNCHANGED <<pending, hits>>
  BY <1>1, <1>2 DEF TypeOK
<1>3. CASE /\ hits' = [hits EXCEPT ![StoreOf(n)] =
                        @ + got + (IF per_doc_hits THEN found ELSE 0)]
           /\ pending' = IF found < Chunks THEN pending \cup {<<n, d>>} ELSE pending
  <2>1. hits' \in [Stores -> Nat]
    <3>1. StoreOf(n) \in Stores /\ hits \in [Stores -> Nat]
      BY DEF TypeOK, StoreOf, Stores
    <3>2. hits[StoreOf(n)] + got + (IF per_doc_hits THEN found ELSE 0) \in Nat
      BY <3>1
    <3> QED
      BY <1>3, <3>1, <3>2
  <2>2. pending' \in SUBSET (Nodes \X Docs)
    BY <1>3 DEF TypeOK
  <2> QED
    BY <1>1, <2>1, <2>2
<1> QED
  BY <1>2, <1>3 DEF Serve

\* A read of the counter is a natural number, or -1.
LEMMA ReadType == TypeOK => _tier_hits \subseteq Int
  BY DEF TypeOK, _tier_hits, Stores, Nodes, MetricsNode

\* The state is in its type initially.
LEMMA InitType == Init => TypeOK
<1> SUFFICES ASSUME Init PROVE TypeOK
  OBVIOUS
<1>1. 1 \in Docs
  BY DEF Docs
<1>2. args \in [backend : Backends, fleet : Fleets, flush_l2 : BOOLEAN]
  BY DEF Init
<1>3. rows \in [Docs -> RowTypes] /\ report \in ReportTypes
  BY DEF Init, NoRow, RowTypes, NoReport, ReportTypes
<1>4. server \in [Nodes -> {"starting", "ready", "dead"}]
  BY DEF Init
<1>5. kv \in [Stores -> [Docs -> 0..Chunks]] /\ origin \in [Docs -> SUBSET Sources]
  BY DEF Init, Sources
<1>6. hits \in [Stores -> Nat] /\ published \in [Nodes -> Nat]
  BY DEF Init
<1>7. /\ cold \in [Docs -> 0..Chunks]
      /\ served \in [Docs -> [found : 0..Chunks, got : 0..Chunks,
                              from : SUBSET Sources]]
  BY DEF Init, Empty, NoServe
<1>8. pc = "wait" /\ doc \in Docs
  BY <1>1 DEF Init
<1>9. before \in Int /\ pass_before \in Int /\ pass_delta \in Int
  BY DEF Init
<1>10. pending \in SUBSET (Nodes \X Docs) /\ unread \in SUBSET Docs
  BY DEF Init
<1>11. clean \in BOOLEAN /\ runs \in Nat /\ restarts \in Nat
  BY DEF Init
<1> QED
  BY <1>1, <1>2, <1>3, <1>4, <1>5, <1>6, <1>7, <1>8, <1>9, <1>10, <1>11
     DEF TypeOK

\* Every step of the harness keeps the state in its type.
LEMMA HarnessType ==
    ASSUME TypeOK, HarnessStep
    PROVE  TypeOK'
<1> USE DEF TypeOK
<1>1. CASE WaitForServer
  BY <1>1 DEF WaitForServer, AfterWait, servers, history
<1>2. CASE WaitTimesOut
  BY <1>2 DEF WaitTimesOut, servers, history
<1>3. CASE FlushL2
  <2>1. kv' \in [Stores -> [Docs -> 0..Chunks]]
    <3>1. Empty \in [Docs -> 0..Chunks] /\ kv' = [kv EXCEPT !["L2"] = Empty]
      BY <1>3 DEF FlushL2, FlushAll, Empty
    <3> QED
      BY <3>1
  <2>2. origin' \in [Docs -> SUBSET Sources] /\ clean' \in BOOLEAN
    BY <1>3 DEF FlushL2
  <2> QED
    BY <1>3, <2>1, <2>2 DEF FlushL2
<1>4. CASE ColdSend
  <2>1. PICK found \in 0..Chunks, got \in 0..Chunks :
           /\ Serve(ColdNode, doc, found, got)
           /\ cold' = [cold EXCEPT ![doc] = found]
    BY <1>4 DEF ColdSend
  <2>2. ColdNode \in Nodes
    BY DEF ColdNode, Nodes
  <2>3. /\ server' = server /\ kv' = kv /\ published' = published
        /\ pending' \in SUBSET (Nodes \X Docs)
        /\ hits' \in [Stores -> Nat]
    BY <2>1, <2>2, ServeType
  <2>4. cold' \in [Docs -> 0..Chunks]
    BY <2>1
  <2>5. doc' \in Docs /\ pc' \in {"cold", "settle", "failed"}
    <3>1. /\ pc = "cold" /\ doc \in Docs
          /\ \/ pc' = "failed" /\ UNCHANGED doc
             \/ IF doc < NDocs THEN doc' = doc + 1 /\ UNCHANGED pc
                               ELSE doc' = 1 /\ pc' = "settle"
      BY <1>4 DEF ColdSend
    <3> HIDE DEF TypeOK
    <3> QED
      BY <3>1 DEF Docs
  <2> QED
    BY <1>4, <2>3, <2>4, <2>5 DEF ColdSend
<1>5. CASE Settle
  BY <1>5 DEF Settle, servers, history
<1>6. CASE ReadPassBefore
  BY <1>6, ReadType DEF ReadPassBefore, servers
<1>7. CASE ReadBefore
  BY <1>7, ReadType DEF ReadBefore, servers
<1>8. CASE CachedSend
  <2>1. PICK found \in 0..Chunks, got \in 0..Chunks :
           /\ Serve(CachedNode, doc, found, got)
           /\ served' = [served EXCEPT ![doc] =
                          [found |-> found, got |-> got,
                           from |-> IF found > 0 THEN origin[doc] ELSE {}]]
    BY <1>8 DEF CachedSend
  <2>2. CachedNode \in Nodes
    BY DEF CachedNode, Nodes
  <2>3. /\ server' = server /\ kv' = kv /\ published' = published
        /\ pending' \in SUBSET (Nodes \X Docs)
        /\ hits' \in [Stores -> Nat]
    BY <2>1, <2>2, ServeType
  <2>4. rows' \in [Docs -> RowTypes]
    <3>1. [delta |-> -1, l2 |-> Verdict(-1)] \in RowTypes
      BY DEF Verdict, RowTypes
    <3>2. \/ rows' = rows
          \/ rows' = [rows EXCEPT ![doc] = [delta |-> -1, l2 |-> Verdict(-1)]]
      BY <1>8 DEF CachedSend
    <3> QED
      BY <3>1, <3>2
  <2>6. doc' \in Docs
    <3>1. doc' = doc \/ (doc < NDocs /\ doc' = doc + 1) \/ doc' = 1
      BY <1>8 DEF CachedSend, NextDoc
    <3> QED
      BY <3>1 DEF Docs
  <2>7. served' \in [Docs -> [found : 0..Chunks, got : 0..Chunks,
                              from : SUBSET Sources]]
    BY <2>1
  <2>5. pc' \in {"read_after", "send", "read_pass_after", "failed"}
    BY <1>8 DEF CachedSend, NextDoc
  <2> QED
    BY <1>8, <2>3, <2>4, <2>5, <2>6, <2>7 DEF CachedSend
<1>9. CASE ReadAfter
  <2>1. PICK after \in _tier_hits :
           LET delta == Delta(before, after) IN
           /\ rows' = [rows EXCEPT ![doc] = [delta |-> delta, l2 |-> Verdict(delta)]]
           /\ unread' = IF after < 0 THEN unread \cup {doc} ELSE unread
    BY <1>9 DEF ReadAfter
  <2>2. after \in Int
    BY <2>1, ReadType
  <2>3. rows' \in [Docs -> RowTypes]
    BY <2>1, <2>2 DEF Delta, Verdict, RowTypes
  <2>4. doc' \in Docs /\ pc' \in {"read_before", "summary"}
    BY <1>9 DEF ReadAfter, NextDoc, Docs
  <2> QED
    BY <1>9, <2>1, <2>3, <2>4 DEF ReadAfter, servers
<1>10. CASE ReadPassAfter
  <2>1. PICK after \in _tier_hits :
           LET delta == Delta(pass_before, after) IN
           /\ pass_delta' = delta
           /\ unread' = IF after < 0 THEN Docs ELSE unread
           /\ rows' = IF PassYes(delta)
                      THEN [d \in Docs |-> [delta |-> delta, l2 |-> "yes"]]
                      ELSE rows
    BY <1>10 DEF ReadPassAfter
  <2>2. after \in Int
    BY <2>1, ReadType
  <2>3. rows' \in [Docs -> RowTypes] /\ pass_delta' \in Int
    BY <2>1, <2>2 DEF Delta, RowTypes
  <2> QED
    BY <1>10, <2>1, <2>3 DEF ReadPassAfter, servers
<1>11. CASE Summary
  BY <1>11 DEF Summary, VerdictLine, PassLine, l2_rows, ReportTypes, servers, history
<1>12. CASE StepRaises
  BY <1>12 DEF StepRaises, servers, history
<1> QED
  BY <1>1, <1>2, <1>3, <1>4, <1>5, <1>6, <1>7, <1>8, <1>9, <1>10, <1>11, <1>12
     DEF HarnessStep

\* So does every step of the servers.
LEMMA ServerType ==
    ASSUME TypeOK, ServerStep
    PROVE  TypeOK'
<1> USE DEF TypeOK
<1>1. ASSUME NEW n \in Nodes, ServerReady(n) PROVE TypeOK'
  BY <1>1 DEF ServerReady, harness, history
<1>2. ASSUME NEW n \in Nodes, ServerDies(n) PROVE TypeOK'
  BY <1>2 DEF ServerDies, harness, history
<1>3. ASSUME NEW n \in Nodes, StatsFlush(n) PROVE TypeOK'
  BY <1>3 DEF StatsFlush, harness, history, Stores
<1>4. ASSUME NEW n \in Nodes, NEW d \in Docs, StoreLands(n, d) PROVE TypeOK'
  <2>1. StoreOf(n) \in Stores
    BY <1>4 DEF StoreOf, Stores, Nodes
  <2>2. PICK c \in kv[StoreOf(n)][d]..Chunks, keep \in SUBSET (Docs \ {d}) :
          /\ kv' = [kv EXCEPT ![StoreOf(n)] = [e \in Docs |->
                      CASE e = d -> c [] e \in keep -> @[e] [] OTHER -> 0]]
          /\ origin' = IF per_doc_hits /\ c > kv[StoreOf(n)][d]
                       THEN [origin EXCEPT ![d] = @ \cup {n}] ELSE origin
    BY <1>4 DEF StoreLands
  <2>3. kv[StoreOf(n)] \in [Docs -> 0..Chunks] /\ c \in 0..Chunks
    BY <2>1, <2>2
  <2>4. kv' \in [Stores -> [Docs -> 0..Chunks]]
    BY <2>1, <2>2, <2>3
  <2>5. origin' \in [Docs -> SUBSET Sources]
    BY <1>4, <2>2 DEF Sources
  <2> QED
    BY <1>4, <2>4, <2>5 DEF StoreLands, harness
<1>5. CASE ValkeyRestarts
  <2>1. Empty \in [Docs -> 0..Chunks] /\ kv' = [kv EXCEPT !["L2"] = Empty]
    BY <1>5 DEF ValkeyRestarts, Empty
  <2>2. kv' \in [Stores -> [Docs -> 0..Chunks]]
    BY <2>1
  <2>3. hits' \in [Stores -> Nat] /\ origin' \in [Docs -> SUBSET Sources]
    BY <1>5 DEF ValkeyRestarts
  <2>4. restarts' \in Nat
    BY <1>5 DEF ValkeyRestarts
  <2> QED
    BY <1>5, <2>2, <2>3, <2>4 DEF ValkeyRestarts, harness
<1> QED
  BY <1>1, <1>2, <1>3, <1>4, <1>5 DEF ServerStep

\* And a new start of the harness.
LEMMA RerunType ==
    ASSUME TypeOK, Rerun
    PROVE  TypeOK'
<1>1. 1 \in Docs
  BY DEF Docs
<1>2. rows' \in [Docs -> RowTypes] /\ report' \in ReportTypes
  BY DEF Rerun, NoRow, RowTypes, NoReport, ReportTypes
<1>3. /\ cold' \in [Docs -> 0..Chunks]
      /\ served' \in [Docs -> [found : 0..Chunks, got : 0..Chunks,
                               from : SUBSET Sources]]
  BY DEF Rerun, Empty, NoServe
<1>4. origin' \in [Docs -> SUBSET Sources]
  BY DEF Rerun, Sources
<1>5. pc' = "wait" /\ doc' \in Docs /\ unread' \in SUBSET Docs
  BY <1>1 DEF Rerun
<1>7. before' \in Int /\ pass_before' \in Int /\ pass_delta' \in Int
  BY DEF Rerun
<1>8. clean' \in BOOLEAN
  BY DEF Rerun
<1>9. runs' \in Nat
  <2>1. runs \in Nat /\ runs' = runs + 1
    BY DEF Rerun, TypeOK
  <2> QED
    BY <2>1
<1>6. UNCHANGED <<args, server, kv, pending, hits, published, restarts>>
  BY DEF Rerun, servers
<1> QED
  BY <1>1, <1>2, <1>3, <1>4, <1>5, <1>6, <1>7, <1>8, <1>9
     DEF TypeOK

\* Every reachable state is in its type.
THEOREM TypeCorrect == Spec => []TypeOK
<1>1. TypeOK /\ [Next]_vars => TypeOK'
  <2> SUFFICES ASSUME TypeOK, [Next]_vars PROVE TypeOK'
    OBVIOUS
  <2>1. CASE HarnessStep
    BY <2>1, HarnessType
  <2>2. CASE ServerStep
    BY <2>2, ServerType
  <2>3. CASE Rerun
    BY <2>3, RerunType
  <2>4. CASE UNCHANGED vars
    BY <2>4 DEF TypeOK, vars, harness, servers, history
  <2> QED
    BY <2>1, <2>2, <2>3, <2>4 DEF Next
<1> QED
  BY <1>1, InitType, PTL DEF Spec

-----------------------------------------------------------------------------
(* The per-document attribution of the valkey tier is sound.               *)
(*                                                                         *)
(* The harness reads keyspace_hits on both sides of one request.  Between  *)
(* the two reads only that request moves the counter up (StoreLands and    *)
(* the other node leave it alone, FLUSHALL comes before every cached       *)
(* request) and a restart of Valkey only moves it down.  The strengthening *)
(* says that of the counter at the two statements where a read is pending, *)
(* and that no row exists yet for a document still to be asked for.        *)

BeforeCachedPass == {"wait", "wait_cached", "flush", "cold", "settle",
                     "read_pass_before"}
InCachedPass == {"read_before", "send", "read_after"}

\* No row is written before its document's second request.
RowsInTurn ==
    /\ pc \in BeforeCachedPass => \A d \in Docs : rows[d].l2 = "-"
    /\ pc \in InCachedPass => \A d \in Docs : d >= doc => rows[d].l2 = "-"

\* A failed retrieve delivers nothing, a good one what the lookup found.
GotIsFound == \A d \in Docs : served[d].got <= served[d].found

\* The counter has not passed the value read before the request, but for what
\* the request itself hit.
CounterWindow ==
    per_doc_hits =>
        /\ pc = "send" => before < 0 \/ hits["L2"] <= before
        /\ pc = "read_after" =>
              before < 0 \/ hits["L2"] <= before + served[doc].found + served[doc].got

\* The pass-level reads belong to the local tiers.
PassReadsAreLocal == per_doc_hits => pc \notin {"read_pass_before", "read_pass_after"}

AttributionInv ==
    TypeOK /\ YesMeansFound /\ RowsInTurn /\ GotIsFound /\ CounterWindow
           /\ PassReadsAreLocal

USE DEF BeforeCachedPass, InCachedPass

\* The invariant holds initially: no row is written and nothing was asked for.
LEMMA InitAttribution == Init => AttributionInv
<1> SUFFICES ASSUME Init PROVE AttributionInv
  OBVIOUS
<1>1. TypeOK
  BY InitType
<1>2. pc = "wait" /\ (\A d \in Docs : rows[d].l2 = "-" /\ served[d] = NoServe)
  BY DEF Init, NoRow
<1> QED
  BY <1>1, <1>2 DEF AttributionInv, YesMeansFound, YesIsTrue, RowsInTurn,
     GotIsFound, CounterWindow, PassReadsAreLocal, NoServe

\* A step that writes no row, asks for no document and does not move the
\* harness to the send or to the second read keeps the invariant.
LEMMA OtherSteps ==
    ASSUME AttributionInv, TypeOK', UNCHANGED <<args, rows, served>>,
           \/ /\ pc' = pc /\ doc' = doc /\ before' = before
              /\ hits'["L2"] <= hits["L2"]
           \/ /\ pc' \in {"wait_cached", "flush", "cold"}
              /\ pc \in BeforeCachedPass
           \/ pc' = "settle" /\ pc = "cold"
           \/ /\ pc' = IF per_doc_hits THEN "read_before" ELSE "read_pass_before"
              /\ pc = "settle"
           \/ pc' \in {"failed", "done"}
    PROVE  AttributionInv'
<1>1. YesMeansFound' /\ GotIsFound'
  BY DEF AttributionInv, YesMeansFound, YesIsTrue, GotIsFound, per_doc_hits
<1>2. RowsInTurn'
  BY DEF AttributionInv, RowsInTurn
<1>3. CounterWindow'
  <2>1. CASE /\ pc' = pc /\ doc' = doc /\ before' = before
             /\ hits'["L2"] <= hits["L2"]
    <3>1. /\ hits["L2"] \in Int /\ hits'["L2"] \in Int /\ before \in Int
          /\ served[doc].found \in Int /\ served[doc].got \in Int
      BY DEF AttributionInv, TypeOK, Stores
    <3> QED
      BY <2>1, <3>1 DEF AttributionInv, CounterWindow, per_doc_hits
  <2>2. CASE pc' \notin {"send", "read_after"}
    BY <2>2 DEF CounterWindow
  <2> QED
    BY <2>1, <2>2
<1>4. PassReadsAreLocal'
  BY DEF AttributionInv, PassReadsAreLocal, per_doc_hits
<1> QED
  BY <1>1, <1>2, <1>3, <1>4 DEF AttributionInv

\* The read before the request opens the window.
LEMMA ReadBeforeStep ==
    ASSUME AttributionInv, TypeOK', ReadBefore
    PROVE  AttributionInv'
<1>1. /\ pc = "read_before" /\ pc' = "send" /\ before' \in _tier_hits
      /\ UNCHANGED <<args, doc, rows, served, hits>>
  BY DEF ReadBefore, servers
<1>2. YesMeansFound' /\ GotIsFound' /\ RowsInTurn' /\ PassReadsAreLocal'
  BY <1>1 DEF AttributionInv, YesMeansFound, YesIsTrue, GotIsFound, RowsInTurn,
     PassReadsAreLocal, per_doc_hits
<1>3. CounterWindow'
  <2>1. per_doc_hits => before' = -1 \/ before' = hits["L2"]
    BY <1>1 DEF _tier_hits
  <2>2. hits["L2"] \in Int
    BY DEF AttributionInv, TypeOK, Stores
  <2> QED
    BY <1>1, <2>1, <2>2 DEF CounterWindow, per_doc_hits
<1> QED
  BY <1>2, <1>3 DEF AttributionInv

\* The request moves the counter by what it hit, and by nothing else.
LEMMA CachedSendStep ==
    ASSUME AttributionInv, TypeOK', CachedSend
    PROVE  AttributionInv'
<1>1. PICK found \in 0..Chunks, got \in 0..Chunks :
         /\ Serve(CachedNode, doc, found, got)
         /\ served' = [served EXCEPT ![doc] =
                        [found |-> found, got |-> got,
                         from |-> IF found > 0 THEN origin[doc] ELSE {}]]
  BY DEF CachedSend
<1>2. /\ pc = "send" /\ UNCHANGED <<args, before>>
      /\ \/ pc' = "failed" /\ UNCHANGED <<doc, rows>>
         \/ per_doc_hits /\ pc' = "read_after" /\ UNCHANGED <<doc, rows>>
         \/ /\ ~per_doc_hits
            /\ rows' = [rows EXCEPT ![doc] = [delta |-> -1, l2 |-> Verdict(-1)]]
            /\ NextDoc("send", "read_pass_after")
  BY DEF CachedSend
<1>3. /\ doc \in Docs /\ served \in [Docs -> [found : 0..Chunks, got : 0..Chunks,
                                             from : SUBSET Sources]]
      /\ rows \in [Docs -> RowTypes]
      /\ hits \in [Stores -> Nat] /\ before \in Int
  BY DEF AttributionInv, TypeOK
<1>4. /\ served'[doc].found = found /\ served'[doc].got = got
      /\ \A d \in Docs \ {doc} : served'[d] = served[d]
  BY <1>1, <1>3
<1>5. got <= found
  BY <1>1 DEF Serve
<1>6. GotIsFound'
  BY <1>4, <1>5 DEF AttributionInv, GotIsFound
<1>7. CASE per_doc_hits
  <2>1. rows[doc].l2 = "-"
    BY <1>2, <1>3 DEF AttributionInv, RowsInTurn, Docs
  <2>2. YesMeansFound'
    BY <1>2, <1>4, <1>7, <2>1
       DEF AttributionInv, YesMeansFound, YesIsTrue, per_doc_hits
  <2>3. RowsInTurn' /\ PassReadsAreLocal'
    BY <1>2, <1>7 DEF AttributionInv, RowsInTurn, PassReadsAreLocal
  <2>4. hits'["L2"] = hits["L2"] + got + found
    <3>1. "L2" \in Stores
      BY DEF Stores
    <3> QED
      BY <1>1, <1>3, <1>7, <3>1 DEF Serve, StoreOf
  <2>5. CounterWindow'
    <3>1. before < 0 \/ hits["L2"] <= before
      BY <1>2, <1>7 DEF AttributionInv, CounterWindow
    <3>2. hits["L2"] \in Int
      BY <1>3 DEF Stores
    <3>3. before' < 0 \/ hits'["L2"] <= before' + served'[doc'].found + served'[doc'].got
      BY <1>2, <1>3, <1>4, <1>7, <2>4, <3>1, <3>2
    <3> QED
      BY <1>2, <1>7, <3>3 DEF CounterWindow
  <2> QED
    BY <1>6, <2>2, <2>3, <2>5 DEF AttributionInv
<1>8. CASE ~per_doc_hits
  <2>1. ~per_doc_hits'
    BY <1>2, <1>8 DEF per_doc_hits
  <2>2. YesMeansFound' /\ CounterWindow' /\ PassReadsAreLocal'
    BY <2>1 DEF YesMeansFound, CounterWindow, PassReadsAreLocal
  <2>3. /\ \A d \in Docs : d # doc => rows'[d] = rows[d]
        /\ \/ pc' \in {"read_pass_after", "failed"}
           \/ pc' = "send" /\ doc' = doc + 1
    BY <1>2, <1>3, <1>8 DEF NextDoc
  <2>4. RowsInTurn'
    <3>1. \A d \in Docs : d >= doc => rows[d].l2 = "-"
      BY <1>2 DEF AttributionInv, RowsInTurn
    <3>2. CASE pc' \in {"read_pass_after", "failed"}
      BY <3>2 DEF RowsInTurn
    <3>3. CASE pc' = "send" /\ doc' = doc + 1
      <4>1. \A d \in Docs : d >= doc + 1 => d >= doc /\ d # doc
        BY <1>3 DEF Docs
      <4>2. \A d \in Docs : d >= doc' => rows'[d].l2 = "-"
        BY <2>3, <3>1, <3>3, <4>1
      <4> QED
        BY <3>3, <4>2 DEF RowsInTurn
    <3> QED
      BY <2>3, <3>2, <3>3
  <2> QED
    BY <1>6, <2>2, <2>4 DEF AttributionInv
<1> QED
  BY <1>7, <1>8

\* The read after it: a counter that moved up was moved by this request.
LEMMA ReadAfterStep ==
    ASSUME AttributionInv, TypeOK', ReadAfter
    PROVE  AttributionInv'
<1>1. PICK after \in _tier_hits :
         rows' = [rows EXCEPT ![doc] = [delta |-> Delta(before, after),
                                        l2 |-> Verdict(Delta(before, after))]]
  BY DEF ReadAfter
<1>2. /\ pc = "read_after" /\ UNCHANGED <<args, served>>
      /\ \/ pc' = "summary"
         \/ pc' = "read_before" /\ doc' = doc + 1
  BY DEF ReadAfter, NextDoc
<1>3. /\ doc \in Docs /\ rows \in [Docs -> RowTypes] /\ before \in Int
      /\ hits["L2"] \in Int
      /\ served[doc].found \in Nat /\ served[doc].got \in Nat
  BY DEF AttributionInv, TypeOK, Stores
<1>4. /\ rows'[doc].l2 = Verdict(Delta(before, after))
      /\ \A d \in Docs : d # doc => rows'[d] = rows[d]
  BY <1>1, <1>3
<1>5. per_doc_hits /\ rows'[doc].l2 = "yes" => served[doc].found > 0
  <2> SUFFICES ASSUME per_doc_hits, rows'[doc].l2 = "yes"
               PROVE  served[doc].found > 0
    OBVIOUS
  <2>1. after = -1 \/ after = hits["L2"]
    BY DEF _tier_hits
  <2>2. before < 0 \/ hits["L2"] <= before + served[doc].found + served[doc].got
    BY <1>2 DEF AttributionInv, CounterWindow
  <2>3. served[doc].got <= served[doc].found
    BY <1>3 DEF AttributionInv, GotIsFound
  <2>4. after \in Int
    BY <1>3, <2>1
  <2>5. Delta(before, after) \in Int
    BY <1>3, <2>4 DEF Delta
  <2>6. Delta(before, after) > 0
    BY <1>4, <2>5 DEF Verdict
  <2>7. before >= 0 /\ after >= 0 /\ after - before > 0
    BY <1>3, <2>4, <2>6 DEF Delta
  <2> QED
    BY <1>3, <2>1, <2>2, <2>3, <2>7
<1>6. YesMeansFound'
  BY <1>2, <1>4, <1>5 DEF AttributionInv, YesMeansFound, YesIsTrue, per_doc_hits
<1>7. RowsInTurn'
  BY <1>2, <1>3, <1>4 DEF AttributionInv, RowsInTurn, Docs
<1>8. GotIsFound' /\ CounterWindow' /\ PassReadsAreLocal'
  BY <1>2 DEF AttributionInv, GotIsFound, CounterWindow, PassReadsAreLocal
<1> QED
  BY <1>6, <1>7, <1>8 DEF AttributionInv

\* The reads of the local tiers, and a new start.
LEMMA PassSteps ==
    ASSUME AttributionInv, TypeOK', ReadPassBefore \/ ReadPassAfter
    PROVE  AttributionInv'
<1>1. /\ UNCHANGED <<args, served>> /\ ~per_doc_hits
      /\ \/ pc = "read_pass_before" /\ pc' = "send" /\ rows' = rows
         \/ pc' = "summary"
  BY DEF ReadPassBefore, ReadPassAfter, AttributionInv, PassReadsAreLocal
<1>2. ~per_doc_hits'
  BY <1>1 DEF per_doc_hits
<1>3. RowsInTurn' /\ GotIsFound'
  BY <1>1 DEF AttributionInv, RowsInTurn, GotIsFound
<1> QED
  BY <1>2, <1>3 DEF AttributionInv, YesMeansFound, CounterWindow, PassReadsAreLocal

\* A new start forgets the rows and keeps the counters.
LEMMA RerunStep ==
    ASSUME AttributionInv, TypeOK', Rerun
    PROVE  AttributionInv'
<1>1. /\ pc' = "wait"
      /\ \A d \in Docs : rows'[d].l2 = "-" /\ served'[d] = NoServe
  BY DEF Rerun, NoRow
<1> QED
  BY <1>1 DEF AttributionInv, YesMeansFound, YesIsTrue, RowsInTurn, GotIsFound,
     CounterWindow, PassReadsAreLocal, NoServe

\* Every step keeps the invariant.
LEMMA NextAttribution ==
    ASSUME AttributionInv, TypeOK', [Next]_vars
    PROVE  AttributionInv'
<1>1. CASE ReadBefore
  BY <1>1, ReadBeforeStep
<1>2. CASE CachedSend
  BY <1>2, CachedSendStep
<1>3. CASE ReadAfter
  BY <1>3, ReadAfterStep
<1>4. CASE ReadPassBefore \/ ReadPassAfter
  BY <1>4, PassSteps
<1>5. CASE Rerun
  BY <1>5, RerunStep
<1>6. CASE \/ WaitForServer \/ WaitTimesOut \/ FlushL2 \/ ColdSend \/ Settle
           \/ Summary \/ StepRaises
  <2>1. UNCHANGED <<args, rows, served>>
    BY <1>6 DEF WaitForServer, WaitTimesOut, FlushL2, ColdSend, Settle, Summary,
       StepRaises, history
  <2>2. CASE WaitForServer \/ WaitTimesOut
    BY <2>1, <2>2, OtherSteps DEF WaitForServer, WaitTimesOut, AfterWait
  <2>3. CASE FlushL2
    BY <2>1, <2>3, OtherSteps DEF FlushL2
  <2>4. CASE ColdSend
    <3>1. pc = "cold" /\ pc' \in {"cold", "settle", "failed"}
      BY <2>4 DEF ColdSend
    <3> QED
      BY <2>1, <3>1, OtherSteps
  <2>5. CASE Settle
    BY <2>1, <2>5, OtherSteps DEF Settle
  <2>6. CASE Summary \/ StepRaises
    <3>1. pc' \in {"failed", "done"}
      BY <2>6 DEF Summary, StepRaises
    <3> QED
      BY <2>1, <3>1, OtherSteps
  <2> QED
    BY <1>6, <2>2, <2>3, <2>4, <2>5, <2>6
<1>7. CASE ServerStep \/ UNCHANGED vars
  <2>1. UNCHANGED <<args, rows, served, pc, doc, before>>
    BY <1>7 DEF ServerStep, ServerReady, ServerDies, StatsFlush, StoreLands,
       ValkeyRestarts, harness, history, vars
  <2>2. hits["L2"] \in Nat /\ hits \in [Stores -> Nat] /\ "L2" \in Stores
    BY DEF AttributionInv, TypeOK, Stores
  <2>3. hits' = hits \/ hits' = [hits EXCEPT !["L2"] = 0]
    BY <1>7 DEF ServerStep, ServerReady, ServerDies, StatsFlush, StoreLands,
       ValkeyRestarts, servers, vars
  <2>4. hits'["L2"] <= hits["L2"]
    BY <2>2, <2>3
  <2> QED
    BY <2>1, <2>4, OtherSteps
<1> QED
  BY <1>1, <1>2, <1>3, <1>4, <1>5, <1>6, <1>7 DEF Next, HarnessStep

\* Per-document attribution is sound: with the valkey tier a row says "yes"
\* only of a document the tier held when it was asked for in the cached pass.
THEOREM AttributionSound == Spec => []YesMeansFound
<1>1. AttributionInv /\ TypeOK' /\ [Next]_vars => AttributionInv'
  BY NextAttribution
<1>2. AttributionInv => YesMeansFound
  BY DEF AttributionInv
<1> QED
  BY <1>1, <1>2, InitAttribution, TypeCorrect, PTL DEF Spec
=============================================================================
