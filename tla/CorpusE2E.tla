----------------------------- MODULE CorpusE2E -----------------------------
(***************************************************************************)
(* The end-to-end corpus harness, benchmarks/bench_corpus_e2e.py, running  *)
(* against the servers it measures: one or two vLLM nodes with LMCache and *)
(* the storage tier under test (a shared Valkey server, or a CPU or disk   *)
(* tier private to each node).                                             *)
(*                                                                         *)
(* The harness sends every document once (cold pass), waits, sends every   *)
(* document again (cached pass) and decides for every document whether the *)
(* tier answered it ("yes", "no" or "?") from the movement of a counter it *)
(* reads over the network.  The servers are not in the repository; they    *)
(* are modelled from what the harness relies on: LMCache looks a request   *)
(* up before the first token and stores what it had to compute after it,   *)
(* asynchronously.                                                         *)
(***************************************************************************)
EXTENDS Integers, FiniteSetsExt

CONSTANTS
    NDocs,        \* documents of the corpus, sent in manifest order
    Chunks,       \* LMCache chunks (tier keys) per document
    Backends,     \* the --backend values of the instance
    Fleets,       \* whether --cached-vllm-url may name the second node
    Capacity,     \* documents a node-local tier holds before it evicts
    MaxEvents     \* bound: starts of the harness plus restarts of Valkey

ASSUME NDocsAssumption == NDocs \in Nat \ {0}
ASSUME ChunksAssumption == Chunks \in Nat \ {0}
ASSUME BackendsAssumption == Backends \subseteq {"valkey", "cpu", "disk"}
ASSUME FleetsAssumption == Fleets \subseteq BOOLEAN
ASSUME BoundsAssumption ==
    /\ Capacity \in Nat \ {0}
    /\ MaxEvents \in Nat

VARIABLES
    \* the harness
    args,         \* the command line: backend, fleet, flush_l2
    pc,           \* the statement main() is at
    doc,          \* the document the running loop is at
    before,       \* keyspace_hits read before the request
    rows,         \* the result row of every document
    pass_before,  \* the local counter read before the cached pass
    pass_delta,   \* its movement over the cached pass
    report,       \* what the summary prints and the JSON record holds
    \* the servers
    server,       \* each node's vLLM: starting, ready or dead
    kv,           \* chunks of each document a store holds (always a prefix)
    pending,      \* computed KV on its way to the store
    hits,         \* each store's cumulative hit counter
    published,    \* each node's counter as /metrics last exported it
    \* history
    cold,         \* chunks the tier answered in this run's cold pass
    served,       \* what the tier answered in this run's cached pass
    origin,       \* the nodes (or "old") whose KV the shared store holds
    unread,       \* documents one of whose counter reads failed
    clean,        \* FLUSHALL ran in this run, with no store in flight
    runs, restarts

harness == <<args, pc, doc, before, rows, pass_before, pass_delta, report>>
servers == <<server, kv, pending, hits, published>>
history == <<cold, served, origin, unread, clean, runs, restarts>>
vars == <<harness, servers, history>>

-----------------------------------------------------------------------------
Docs == 1..NDocs
Nodes == {"A", "B"}
Stores == Nodes \cup {"L2"}
Sources == Nodes \cup {"old"}

\* Beside the definitions there are mutants, operators that nothing uses: each is
\* the definition it stands before with a bug the program does not have.

\* bench_corpus_e2e.py's --vllm-url is node A, --cached-vllm-url node B.  The
\* LMCache counter comes from --lmcache-metrics-url, which run_tier.sh leaves at
\* its default: localhost, where the harness runs, is node A.
MetricsNode == "A"
CachedNodeIsFirst == "A"
CachedNode == IF args.fleet THEN "B" ELSE "A"
ColdNodeIsCached == CachedNode
ColdNode == "A"

per_doc_hits == args.backend = "valkey"
StoreOf(n) == IF per_doc_hits THEN "L2" ELSE n

NoRow == [delta |-> -1, l2 |-> "-"]
NoServe == [found |-> 0, got |-> 0, from |-> {}]
NoReport == [verdict |-> "-", confirmed |-> {}, pass_line |-> "-"]
Empty == [d \in Docs |-> 0]

DeltaUnguarded(b, a) == a - b
Delta(b, a) == IF b >= 0 /\ a >= 0 THEN a - b ELSE -1

VerdictZeroIsYes(delta) == IF delta >= 0 THEN "yes" ELSE "?"
Verdict(delta) == CASE delta > 0 -> "yes" [] delta < 0 -> "?" [] OTHER -> "no"

-----------------------------------------------------------------------------
(* The servers. *)

\* A completion request for document d at node n, up to its first token.  It may
\* never reach the tier: with vLLM's own prefix cache on a document can still be in
\* the GPU, and a stream can end without a token, which _send does not tell from an
\* answer.  Otherwise LMCache looks the document's chunks up in the store (found),
\* retrieves them (got: a failed retrieve delivers nothing and vLLM computes the
\* prefill) and queues what was not there to be stored.  Valkey counts the EXISTS of
\* the lookup and the GET of the retrieve; LMCache counts the tokens retrieved.
Serve(n, d, found, got) ==
    LET s == StoreOf(n) IN
    /\ server[n] = "ready"
    /\ \/ found = 0 /\ got = 0 /\ UNCHANGED <<pending, hits>>
       \/ /\ found = kv[s][d]
          /\ got \in {0, found}
          /\ hits' = [hits EXCEPT ![s] =
                        @ + got + (IF per_doc_hits THEN found ELSE 0)]
          /\ pending' = IF found < Chunks THEN pending \cup {<<n, d>>} ELSE pending
    /\ UNCHANGED <<server, kv, published>>

\* A queued store reaches the tier: the whole document, or only a longer prefix
\* of it (a full Valkey server, configured noeviction, refuses the rest).  A
\* local tier at its capacity evicts other documents to make room.
StoreLands(n, d) ==
    LET s == StoreOf(n)
        Held(keep) == {e \in keep : kv[s][e] > 0}
    IN
    /\ <<n, d>> \in pending
    /\ pending' = pending \ {<<n, d>>}
    /\ \E c \in kv[s][d]..Chunks, keep \in SUBSET (Docs \ {d}) :
          /\ IF per_doc_hits \/ Cardinality(Held(Docs \ {d})) < Capacity
             THEN keep = Docs \ {d}
             ELSE Cardinality(Held(keep)) = Capacity - 1
          /\ kv' = [kv EXCEPT ![s] = [e \in Docs |->
                      CASE e = d -> c [] e \in keep -> @[e] [] OTHER -> 0]]
          /\ origin' = IF per_doc_hits /\ c > kv[s][d]
                       THEN [origin EXCEPT ![d] = @ \cup {n}] ELSE origin
    /\ UNCHANGED <<harness, server, hits, published,
                   cold, served, unread, clean, runs, restarts>>

ServerReady(n) ==
    /\ server[n] = "starting"
    /\ server' = [server EXCEPT ![n] = "ready"]
    /\ UNCHANGED <<harness, kv, pending, hits, published, history>>

\* A vLLM process dies with everything it had not stored yet.
\* Nothing reads a dead node's local tier again.
ServerDies(n) ==
    /\ server[n] = "ready"
    /\ server' = [server EXCEPT ![n] = "dead"]
    /\ pending' = {p \in pending : p[1] # n}
    /\ UNCHANGED <<harness, kv, hits, published, history>>

\* Valkey keeps nothing on disk (save "", appendonly no): a restart loses the
\* keys and the counter.
ValkeyRestarts ==
    /\ per_doc_hits
    /\ runs + restarts < MaxEvents
    /\ restarts' = restarts + 1
    /\ kv' = [kv EXCEPT !["L2"] = Empty]
    /\ hits' = [hits EXCEPT !["L2"] = 0]
    /\ origin' = [d \in Docs |-> {}]
    /\ UNCHANGED <<harness, server, pending, published,
                   cold, served, unread, clean, runs>>

\* LMCache's periodic flush of its counters to /metrics.
StatsFlush(n) ==
    /\ ~per_doc_hits
    /\ server[n] = "ready"
    /\ published[n] # hits[n]
    /\ published' = [published EXCEPT ![n] = hits[n]]
    /\ UNCHANGED <<harness, server, kv, pending, hits, history>>

-----------------------------------------------------------------------------
(* The harness. *)

TierHitsZeroOnError == {0, hits["L2"]}

\* _keyspace_hits, _lmcache_hit_tokens: a read that fails is -1, never an error.
_tier_hits ==
    {-1} \cup IF per_doc_hits THEN {hits["L2"]}
              ELSE IF server[MetricsNode] = "ready" THEN {published[MetricsNode]}
              ELSE {}

AfterWait == IF args.flush_l2 THEN "flush" ELSE "cold"

\* _wait_for_server: polls GET /v1/models until it answers or the deadline passes.
WaitForServer ==
    /\ \/ /\ pc = "wait" /\ server[ColdNode] = "ready"
          /\ pc' = IF args.fleet THEN "wait_cached" ELSE AfterWait
       \/ /\ pc = "wait_cached" /\ server[CachedNode] = "ready"
          /\ pc' = AfterWait
    /\ UNCHANGED <<args, doc, before, rows, pass_before, pass_delta, report,
                   servers, history>>

NoDeadline == FALSE

WaitTimesOut ==
    /\ \/ pc = "wait" /\ server[ColdNode] # "ready"
       \/ pc = "wait_cached" /\ server[CachedNode] # "ready"
    /\ pc' = "failed"
    /\ UNCHANGED <<args, doc, before, rows, pass_before, pass_delta, report,
                   servers, history>>

\* _flush_l2: FLUSHALL drops the keys and leaves keyspace_hits alone.  The call can
\* raise although Valkey ran the command.
FlushesNothing == kv
FlushAll == [kv EXCEPT !["L2"] = Empty]

FlushL2 ==
    /\ pc = "flush"
    /\ pc' \in {"cold", "failed"}
    /\ kv' = FlushAll
    /\ origin' = [d \in Docs |-> {}]
    /\ clean' = (pending = {})
    /\ UNCHANGED <<args, doc, before, rows, pass_before, pass_delta, report,
                   server, pending, hits, published,
                   cold, served, unread, runs, restarts>>

\* One iteration of the cold loop; _send can raise although the request was served.
ColdSend ==
    /\ pc = "cold"
    /\ \E found, got \in 0..Chunks :
          /\ Serve(ColdNode, doc, found, got)
          /\ cold' = [cold EXCEPT ![doc] = found]
    /\ \/ pc' = "failed" /\ UNCHANGED doc
       \/ IF doc < NDocs THEN doc' = doc + 1 /\ UNCHANGED pc
                         ELSE doc' = 1 /\ pc' = "settle"
    /\ UNCHANGED <<args, before, rows, pass_before, pass_delta, report,
                   served, origin, unread, clean, runs, restarts>>

\* time.sleep(args.settle): nothing makes the stores of the cold pass land in it.
Settle ==
    /\ pc = "settle"
    /\ pc' = IF per_doc_hits THEN "read_before" ELSE "read_pass_before"
    /\ UNCHANGED <<args, doc, before, rows, pass_before, pass_delta, report,
                   servers, history>>

ReadPassBefore ==
    /\ pc = "read_pass_before"
    /\ pass_before' \in _tier_hits
    /\ unread' = IF pass_before' < 0 THEN Docs ELSE unread
    /\ pc' = "send"
    /\ UNCHANGED <<args, doc, before, rows, pass_delta, report, servers,
                   cold, served, origin, clean, runs, restarts>>

\* The cached loop of the valkey tier: read, send, read, append the row.
ReadBefore ==
    /\ pc = "read_before"
    /\ before' \in _tier_hits
    /\ unread' = IF before' < 0 THEN unread \cup {doc} ELSE unread
    /\ pc' = "send"
    /\ UNCHANGED <<args, doc, rows, pass_before, pass_delta, report, servers,
                   cold, served, origin, clean, runs, restarts>>

NextDocPastEnd(loop, after) ==
    IF doc <= NDocs THEN doc' = doc + 1 /\ pc' = loop
                    ELSE doc' = 1 /\ pc' = after
NextDoc(loop, after) ==
    IF doc < NDocs THEN doc' = doc + 1 /\ pc' = loop
                   ELSE doc' = 1 /\ pc' = after

\* A local tier's row is appended at once, with no delta and "?"; none is when _send
\* raises, whatever the tier answered.
CachedSend ==
    /\ pc = "send"
    /\ \E found, got \in 0..Chunks :
          /\ Serve(CachedNode, doc, found, got)
          /\ served' = [served EXCEPT ![doc] =
                          [found |-> found, got |-> got,
                           from |-> IF found > 0 THEN origin[doc] ELSE {}]]
    /\ \/ pc' = "failed" /\ UNCHANGED <<doc, rows>>
       \/ per_doc_hits /\ pc' = "read_after" /\ UNCHANGED <<doc, rows>>
       \/ /\ ~per_doc_hits
          /\ rows' = [rows EXCEPT ![doc] = [delta |-> -1, l2 |-> Verdict(-1)]]
          /\ NextDoc("send", "read_pass_after")
    /\ UNCHANGED <<args, before, pass_before, pass_delta, report,
                   cold, origin, unread, clean, runs, restarts>>

ReadAfter ==
    /\ pc = "read_after"
    /\ \E after \in _tier_hits :
          LET delta == Delta(before, after) IN
          /\ rows' = [rows EXCEPT ![doc] = [delta |-> delta, l2 |-> Verdict(delta)]]
          /\ unread' = IF after < 0 THEN unread \cup {doc} ELSE unread
    /\ NextDoc("read_before", "summary")
    /\ UNCHANGED <<args, before, pass_before, pass_delta, report, servers,
                   cold, served, origin, clean, runs, restarts>>

\* time.sleep(max(settle, 15)): longer than LMCache's flush period, so a live
\* node has published every hit by then.
NoSleep == TRUE
StatsLanded ==
    server[MetricsNode] = "ready" => published[MetricsNode] = hits[MetricsNode]

\* One movement of the counter is put on every row.
PassYesOnZero(delta) == delta >= 0
PassYes(delta) == delta > 0

ReadPassAfter ==
    /\ pc = "read_pass_after"
    /\ StatsLanded
    /\ \E after \in _tier_hits :
          LET delta == Delta(pass_before, after) IN
          /\ pass_delta' = delta
          /\ unread' = IF after < 0 THEN Docs ELSE unread
          /\ rows' = IF PassYes(delta)
                     THEN [d \in Docs |-> [delta |-> delta, l2 |-> "yes"]]
                     ELSE rows
    /\ pc' = "summary"
    /\ UNCHANGED <<args, doc, before, pass_before, report, servers,
                   cold, served, origin, clean, runs, restarts>>

\* The summary, the verdict line and the JSON record.
l2_rows == {d \in Docs : rows[d].l2 = "yes"}

EveryIfAny == IF l2_rows # {} THEN "every" ELSE "none"
VerdictLine == CASE l2_rows = Docs -> "every"
                 [] l2_rows = {} -> "none"
                 [] OTHER -> "some"

\* "pass-level hit-counter delta: +n (attributed to all docs)" or "(no reuse
\* recorded by the tier)".
PassLine == CASE per_doc_hits -> "-" [] PassYes(pass_delta) -> "reuse" [] OTHER -> "none"

\* The record may fail to be written, after the summary was printed.
Summary ==
    /\ pc = "summary"
    /\ report' = [verdict |-> VerdictLine, confirmed |-> l2_rows, pass_line |-> PassLine]
    /\ pc' \in {"done", "failed"}
    /\ UNCHANGED <<args, doc, before, rows, pass_before, pass_delta, servers, history>>

\* _send or _flush_l2 raises and the request never got through: main() ends with no
\* row printed after it and no JSON record.
StepRaises ==
    /\ pc \in {"flush", "cold", "send"}
    /\ pc' = "failed"
    /\ UNCHANGED <<args, doc, before, rows, pass_before, pass_delta, report,
                   servers, history>>

\* The harness is started again against servers that were left running.
Rerun ==
    /\ pc \in {"done", "failed"}
    /\ runs + restarts < MaxEvents
    /\ runs' = runs + 1
    /\ pc' = "wait" /\ doc' = 1
    /\ before' = -1 /\ pass_before' = -1 /\ pass_delta' = -1
    /\ rows' = [d \in Docs |-> NoRow]
    /\ report' = NoReport
    /\ cold' = Empty
    /\ served' = [d \in Docs |-> NoServe]
    /\ unread' = {} /\ clean' = FALSE
    /\ origin' = [d \in Docs |-> IF origin[d] = {} THEN {} ELSE {"old"}]
    /\ UNCHANGED <<args, servers, restarts>>

-----------------------------------------------------------------------------
\* The servers have just been started (run_tier.sh serve clears a local tier);
\* the Valkey server is never cleared, so it may hold any earlier document.
Init ==
    /\ \E b \in Backends, f \in Fleets, fl \in BOOLEAN :
          /\ fl => b = "valkey"
          /\ args = [backend |-> b, fleet |-> f, flush_l2 |-> fl]
    /\ pc = "wait" /\ doc = 1
    /\ before = -1 /\ pass_before = -1 /\ pass_delta = -1
    /\ rows = [d \in Docs |-> NoRow]
    /\ report = NoReport
    /\ server = [n \in Nodes |-> IF n \in {ColdNode, CachedNode}
                               THEN "starting" ELSE "dead"]
    /\ \E old \in SUBSET Docs :
          /\ old # {} => args.backend = "valkey"
          /\ kv = [s \in Stores |-> [d \in Docs |->
                     IF s = "L2" /\ d \in old THEN Chunks ELSE 0]]
          /\ origin = [d \in Docs |-> IF d \in old THEN {"old"} ELSE {}]
    /\ pending = {}
    /\ hits = [s \in Stores |-> 0]
    /\ published = [n \in Nodes |-> 0]
    /\ cold = Empty
    /\ served = [d \in Docs |-> NoServe]
    /\ unread = {} /\ clean = FALSE
    /\ runs = 1 /\ restarts = 0

HarnessStep ==
    \/ WaitForServer \/ WaitTimesOut \/ FlushL2 \/ ColdSend \/ Settle
    \/ ReadPassBefore \/ ReadBefore \/ CachedSend \/ ReadAfter
    \/ ReadPassAfter \/ Summary \/ StepRaises

ServerStep ==
    \/ \E n \in Nodes : ServerReady(n) \/ ServerDies(n) \/ StatsFlush(n)
    \/ \E n \in Nodes, d \in Docs : StoreLands(n, d)
    \/ ValkeyRestarts

Next == HarnessStep \/ ServerStep \/ Rerun

\* main() never blocks for good: every request, poll and read it makes has a
\* timeout, so some outcome of its next statement always arrives.  LMCache's
\* flush thread runs for as long as its process does.
Fairness ==
    /\ WF_vars(HarnessStep)
    /\ \A n \in Nodes : WF_vars(StatsFlush(n))

Spec == Init /\ [][Next]_vars /\ Fairness

-----------------------------------------------------------------------------
RowTypes == [delta : Int, l2 : {"-", "yes", "no", "?"}]
ReportTypes == [verdict : {"-", "every", "some", "none"}, confirmed : SUBSET Docs,
                pass_line : {"-", "reuse", "none"}]

\* Every variable stays in its type.
TypeOK ==
    /\ args \in [backend : Backends, fleet : Fleets, flush_l2 : BOOLEAN]
    /\ pc \in {"wait", "wait_cached", "flush", "cold", "settle", "read_before",
               "read_pass_before", "send", "read_after", "read_pass_after",
               "summary", "done", "failed"}
    /\ doc \in Docs
    /\ before \in Int /\ pass_before \in Int /\ pass_delta \in Int
    /\ rows \in [Docs -> RowTypes]
    /\ report \in ReportTypes
    /\ server \in [Nodes -> {"starting", "ready", "dead"}]
    /\ kv \in [Stores -> [Docs -> 0..Chunks]]
    /\ pending \in SUBSET (Nodes \X Docs)
    /\ hits \in [Stores -> Nat]
    /\ published \in [Nodes -> Nat]
    /\ cold \in [Docs -> 0..Chunks]
    /\ served \in [Docs -> [found : 0..Chunks, got : 0..Chunks,
                            from : SUBSET Sources]]
    /\ origin \in [Docs -> SUBSET Sources]
    /\ unread \in SUBSET Docs
    /\ clean \in BOOLEAN
    /\ runs \in Nat /\ restarts \in Nat

\* "L2=yes" on a row: the tier held the document when it was asked for again.
YesIsTrue == \A d \in Docs : rows[d].l2 = "yes" => served[d].found > 0

\* With the per-document before/after delta of the valkey tier every "yes" is
\* attributed to the right document, whatever lands, dies, restarts or cannot
\* be read in between.
YesMeansFound == per_doc_hits => YesIsTrue

\* The delta of a row is exactly the number of lookups and retrieves its own
\* request hit, unless Valkey restarted; so a "no" is a miss and never a hit
\* that was lost or given to the next document.
DeltaIsExact ==
    per_doc_hits /\ restarts = 0 =>
        \A d \in Docs : rows[d].delta >= 0 =>
            rows[d].delta = served[d].found + served[d].got

\* "?" is kept for documents whose counter could not be read on both sides of
\* the request, or moved backwards because Valkey restarted: an unreadable
\* counter is never reported as a miss, and a readable one never as unknown.
QuestionMeansUnread ==
    per_doc_hits =>
        \A d \in Docs :
            /\ rows[d].l2 = "?" => d \in unread \/ restarts > 0
            /\ d \in unread /\ rows[d].l2 # "-" => rows[d].l2 = "?"

\* _lmcache_hit_tokens: "-1 makes the harness report "?" rather than a false "no"".
\* It says "no reuse recorded by the tier" only of a counter it could read.
NoFalseNo == report.pass_line = "none" => unread = {}

\* After --flush-l2 no cold request is answered from Valkey, although FLUSHALL
\* runs long before most of them: provided that no store of an earlier run was
\* still in flight when it ran.
FlushedColdIsCold == clean => \A d \in Docs : cold[d] = 0

\* Fleet mode: a document confirmed on the second node after a clean flush was
\* computed by the first one, and never stored by the second node itself.
FleetReuseCrossesNodes ==
    args.fleet /\ clean =>
        \A d \in Docs : rows[d].l2 = "yes" => served[d].from = {"A"}

\* What the tier's counter gained from document d in the cached pass.
Movement(d) == served[d].got + (IF per_doc_hits THEN served[d].found ELSE 0)

\* The total_delta of the summary: the deltas of the confirmed rows, added up.
total_delta == MapThenSumSet(LAMBDA d : rows[d].delta, report.confirmed)

\* The "total keyspace_hits delta on cached pass" the summary prints is no more
\* than the counter gained in the cached pass.
TotalIsMovement == total_delta <= MapThenSumSet(Movement, Docs)

\* On one node, a local tier whose counter did not move served nothing in the
\* cached pass: every hit of the pass is published before the last read.
ZeroMeansNone ==
    ~per_doc_hits /\ ~args.fleet /\ pc = "done" /\ pass_delta = 0 =>
        \A d \in Docs : served[d].got = 0

\* Fresh nodes, local tier: a pass-level "yes" needs at least one document that
\* the tier really served in the cached pass.
PassYesNeedsHit ==
    ~per_doc_hits /\ runs = 1 /\ report.confirmed # {} =>
        \E d \in Docs : served[d].got > 0

\* Fresh nodes, local tier, fleet mode: the second node finds nothing in a tier
\* it shares with nobody, and the harness confirms nothing.
LocalTierStaysLocal ==
    ~per_doc_hits /\ args.fleet /\ runs = 1 =>
        \A d \in Docs : served[d].found = 0 /\ rows[d].l2 # "yes"

\* What the harness promises of its report: module ReuseReport.
Promise == INSTANCE ReuseReport WITH
    found <- [d \in Docs |-> served[d].found > 0],
    verdict <- [d \in Docs |-> rows[d].l2],
    summary <- report.verdict
ImplementsReuseReport == Promise!Spec

\* Every run of the harness ends, with a record or with an error: whatever a
\* server does, no wait is for ever.
EveryRunEnds == pc = "wait" ~> pc \in {"done", "failed"}
=============================================================================
