------------------------- MODULE SharedTierProofs -------------------------
(***************************************************************************)
(* More about CorpusE2E on the shared tier, for every corpus size, chunk   *)
(* count and bound: the deltas are exact, "?" is kept for what could not   *)
(* be read, a flushed cold pass is cold, a fleet hit crossed nodes, and    *)
(* the harness implements ReuseReport.                                     *)
(***************************************************************************)
EXTENDS CorpusE2EProofs

USE DEF BeforeCachedPass, InCachedPass

\* The invariant under AttributionSound, as a fact to build on.
LEMMA Attribution == Spec => []AttributionInv
<1>1. AttributionInv /\ TypeOK' /\ [Next]_vars => AttributionInv'
  BY NextAttribution
<1> QED
  BY <1>1, InitAttribution, TypeCorrect, PTL DEF Spec

-----------------------------------------------------------------------------
(* The counter, exactly.  CounterWindow bounds it from above, which makes a *)
(* "yes" true; a "no" is true because it is bounded from below as well.     *)

\* A row that is not judged has no delta.
Unjudged == \A d \in Docs : rows[d].l2 = "-" => rows[d].delta = -1

\* No read failed for a document still to be asked for, and the failed read of the
\* current one is in `before'.
ReadsInTurn ==
    /\ pc \in BeforeCachedPass => unread = {}
    /\ pc = "read_before" => \A d \in Docs : d >= doc => d \notin unread
    /\ pc \in {"send", "read_after"} =>
          /\ \A d \in Docs : d > doc => d \notin unread
          /\ doc \in unread <=> before < 0

ExactWindow ==
    restarts = 0 /\ before >= 0 =>
        /\ pc = "send" => hits["L2"] = before
        /\ pc = "read_after" => hits["L2"] = before + served[doc].found + served[doc].got

ReadingInv ==
    /\ Unjudged /\ DeltaIsExact /\ QuestionMeansUnread
    /\ per_doc_hits => ReadsInTurn /\ ExactWindow

\* Nothing was read or judged initially.
LEMMA InitReading == Init => ReadingInv
<1> SUFFICES ASSUME Init PROVE ReadingInv
  OBVIOUS
<1>1. \A d \in Docs : rows[d] = NoRow
  BY DEF Init
<1>2. pc = "wait" /\ unread = {}
  BY DEF Init
<1> QED
  BY <1>1, <1>2 DEF ReadingInv, Unjudged, DeltaIsExact, QuestionMeansUnread, ReadsInTurn,
     ExactWindow, NoRow

\* A step that writes no row, asks for no document and reads no counter, and does not
\* move the counter up while a read is pending.
LEMMA OtherReading ==
    ASSUME TypeOK, TypeOK', ReadingInv, UNCHANGED <<args, rows, served, unread>>,
           restarts' = restarts \/ restarts' > 0,
           \/ /\ pc' = pc /\ doc' = doc /\ before' = before
              /\ hits'["L2"] = hits["L2"] \/ restarts' > 0
           \/ /\ pc' \in {"wait_cached", "flush", "cold"}
              /\ pc \in BeforeCachedPass
           \/ pc' = "settle" /\ pc = "cold"
           \/ /\ pc' \in {"read_before", "read_pass_before"}
              /\ pc = "settle"
           \/ pc' \in {"failed", "done"}
    PROVE  ReadingInv'
<1>1. Unjudged'
  BY DEF ReadingInv, Unjudged
<1>2. restarts \in Nat /\ restarts' \in Nat
  BY DEF TypeOK
<1>3. DeltaIsExact' /\ QuestionMeansUnread'
  BY <1>2 DEF ReadingInv, DeltaIsExact, QuestionMeansUnread, per_doc_hits
<1>4. per_doc_hits' => ReadsInTurn'
  BY DEF ReadingInv, ReadsInTurn, per_doc_hits
<1>5. per_doc_hits' => ExactWindow'
  BY <1>2 DEF ReadingInv, ExactWindow, per_doc_hits
<1> QED
  BY <1>1, <1>3, <1>4, <1>5 DEF ReadingInv

\* The read before the request is the counter, or failed.
LEMMA ReadBeforeReading ==
    ASSUME AttributionInv, TypeOK', ReadingInv, ReadBefore PROVE ReadingInv'
<1>1. /\ pc = "read_before" /\ pc' = "send" /\ before' \in _tier_hits
      /\ unread' = IF before' < 0 THEN unread \cup {doc} ELSE unread
      /\ UNCHANGED <<args, doc, rows, served, hits, restarts>>
  BY DEF ReadBefore, servers
<1>2. doc \in Docs /\ before' \in Int /\ \A d \in Docs : d \in Int
  BY <1>1 DEF AttributionInv, TypeOK, Docs
<1>3. rows[doc].l2 = "-"
  BY <1>1, <1>2 DEF AttributionInv, RowsInTurn
<1>4. Unjudged' /\ DeltaIsExact'
  BY <1>1 DEF ReadingInv, Unjudged, DeltaIsExact, per_doc_hits
<1>5. QuestionMeansUnread'
  BY <1>1, <1>3 DEF ReadingInv, QuestionMeansUnread, per_doc_hits
<1>6. ASSUME per_doc_hits PROVE ReadsInTurn' /\ ExactWindow'
  <2>1. \A d \in Docs : d >= doc => d \notin unread
    BY <1>1, <1>6 DEF ReadingInv, ReadsInTurn
  <2>2. doc \in unread' <=> before' < 0
    BY <1>1, <1>2, <2>1
  <2>3. \A d \in Docs : d > doc => d \notin unread'
    BY <1>1, <1>2, <2>1
  <2>4. before' < 0 \/ before' = hits["L2"]
    BY <1>1, <1>6 DEF _tier_hits
  <2> QED
    BY <1>1, <1>2, <2>2, <2>3, <2>4 DEF ReadsInTurn, ExactWindow
<1> QED
  BY <1>1, <1>4, <1>5, <1>6 DEF ReadingInv, per_doc_hits

\* The request moves the counter by what it hit, exactly.
LEMMA CachedSendReading ==
    ASSUME AttributionInv, TypeOK', ReadingInv, CachedSend PROVE ReadingInv'
<1>1. PICK found \in 0..Chunks, got \in 0..Chunks :
         /\ Serve(CachedNode, doc, found, got)
         /\ served' = [served EXCEPT ![doc] =
                        [found |-> found, got |-> got,
                         from |-> IF found > 0 THEN origin[doc] ELSE {}]]
  BY DEF CachedSend
<1>2. /\ pc = "send" /\ UNCHANGED <<args, before, unread, restarts>>
      /\ per_doc_hits => pc' \in {"read_after", "failed"} /\ UNCHANGED <<doc, rows>>
      /\ \/ rows' = rows
         \/ rows' = [rows EXCEPT ![doc] = [delta |-> -1, l2 |-> Verdict(-1)]]
  BY DEF CachedSend
<1>3. /\ doc \in Docs /\ served \in [Docs -> [found : 0..Chunks, got : 0..Chunks,
                                             from : SUBSET Sources]]
      /\ rows \in [Docs -> RowTypes] /\ hits \in [Stores -> Nat] /\ before \in Int
  BY DEF AttributionInv, TypeOK
<1>4. /\ served'[doc].found = found /\ served'[doc].got = got
      /\ \A d \in Docs \ {doc} : served'[d] = served[d]
  BY <1>1, <1>3
<1>5. CASE per_doc_hits
  <2>1. rows[doc].l2 = "-" /\ rows[doc].delta = -1
    <3>1. doc >= doc
      BY <1>3 DEF Docs
    <3> QED BY <1>2, <1>3, <3>1 DEF AttributionInv, RowsInTurn, ReadingInv, Unjudged
  <2>2. Unjudged' /\ QuestionMeansUnread'
    BY <1>2, <1>5 DEF ReadingInv, Unjudged, QuestionMeansUnread, per_doc_hits
  <2>3. DeltaIsExact'
    BY <1>2, <1>4, <1>5, <2>1 DEF ReadingInv, DeltaIsExact, per_doc_hits
  <2>4. ReadsInTurn'
    BY <1>2, <1>5 DEF ReadingInv, ReadsInTurn
  <2>5. hits'["L2"] = hits["L2"] + got + found
    <3>1. "L2" \in Stores
      BY DEF Stores
    <3> QED
      BY <1>1, <1>3, <1>5, <3>1 DEF Serve, StoreOf
  <2>6. ExactWindow'
    <3>1. restarts = 0 /\ before >= 0 => hits["L2"] = before
      BY <1>2, <1>5 DEF ReadingInv, ExactWindow
    <3>2. restarts = 0 /\ before >= 0 =>
             hits'["L2"] = before + served'[doc].found + served'[doc].got
      BY <1>3, <1>4, <2>5, <3>1
    <3> QED
      BY <1>2, <1>5, <3>2 DEF ExactWindow
  <2> QED
    BY <2>2, <2>3, <2>4, <2>6 DEF ReadingInv
<1>6. CASE ~per_doc_hits
  <2>1. ~per_doc_hits'
    BY <1>2, <1>6 DEF per_doc_hits
  <2>2. /\ rows'[doc] = rows[doc] \/ rows'[doc].l2 = "?"
        /\ \A d \in Docs \ {doc} : rows'[d] = rows[d]
    BY <1>2, <1>3 DEF Verdict
  <2>3. Unjudged'
    BY <2>2 DEF ReadingInv, Unjudged
  <2> QED
    BY <2>1, <2>3 DEF ReadingInv, DeltaIsExact, QuestionMeansUnread
<1> QED
  BY <1>5, <1>6

\* The read after it sees that movement, or failed, or Valkey was restarted.
LEMMA ReadAfterReading ==
    ASSUME AttributionInv, TypeOK', ReadingInv, ReadAfter PROVE ReadingInv'
<1>1. PICK after \in _tier_hits :
         /\ rows' = [rows EXCEPT ![doc] = [delta |-> Delta(before, after),
                                           l2 |-> Verdict(Delta(before, after))]]
         /\ unread' = IF after < 0 THEN unread \cup {doc} ELSE unread
  BY DEF ReadAfter
<1>2. /\ pc = "read_after" /\ UNCHANGED <<args, served, before, restarts>>
      /\ \/ pc' = "summary"
         \/ pc' = "read_before" /\ doc' = doc + 1
  BY DEF ReadAfter, NextDoc
<1>3. /\ doc \in Docs /\ rows \in [Docs -> RowTypes] /\ before \in Int
      /\ hits["L2"] \in Nat /\ restarts \in Nat
      /\ served[doc].found \in Nat /\ served[doc].got \in Nat
  BY DEF AttributionInv, TypeOK, Stores
<1>4. \A d \in Docs : d \in Int
  BY DEF Docs
<1> DEFINE delta == Delta(before, after)
<1>5. /\ rows'[doc].delta = delta /\ rows'[doc].l2 = Verdict(delta)
      /\ \A d \in Docs \ {doc} : rows'[d] = rows[d]
  BY <1>1, <1>3
<1>6. after \in Int
  BY <1>1, ReadType DEF AttributionInv
<1>7. delta \in Int
  BY <1>3, <1>6 DEF Delta
<1>8. Verdict(delta) # "-" /\ (Verdict(delta) = "?" <=> delta < 0)
  BY <1>7 DEF Verdict
<1>9. Unjudged'
  BY <1>5, <1>8 DEF ReadingInv, Unjudged
<1>10. CASE per_doc_hits
  <2>1. after = -1 \/ after = hits["L2"]
    BY <1>1, <1>10 DEF _tier_hits
  <2>2. restarts = 0 /\ before >= 0 => hits["L2"] = before + served[doc].found + served[doc].got
    BY <1>2, <1>10 DEF ReadingInv, ExactWindow
  <2>3. doc \in unread <=> before < 0
    BY <1>2, <1>10 DEF ReadingInv, ReadsInTurn
  <2>4. \A d \in Docs : d > doc => d \notin unread
    BY <1>2, <1>10 DEF ReadingInv, ReadsInTurn
  <2>5. restarts = 0 /\ delta >= 0 => delta = served[doc].found + served[doc].got
    BY <1>3, <1>6, <2>1, <2>2 DEF Delta
  <2>6. DeltaIsExact'
    BY <1>2, <1>5, <2>5 DEF ReadingInv, DeltaIsExact, per_doc_hits
  <2>7. doc \in unread' <=> before < 0 \/ after < 0
    BY <1>1, <1>3, <1>6, <2>3
  <2>8. \A d \in Docs \ {doc} : d \in unread' <=> d \in unread
    BY <1>1
  <2>9. delta < 0 => before < 0 \/ after < 0 \/ restarts > 0
    <3>1. SUFFICES ASSUME delta < 0, before >= 0, after >= 0, restarts = 0 PROVE FALSE
      BY <1>3, <1>6
    <3>2. delta = after - before
      BY <3>1 DEF Delta
    <3> QED
      BY <1>3, <1>6, <2>1, <2>2, <3>1, <3>2
  <2>10. before < 0 \/ after < 0 => delta < 0
    BY <1>3, <1>6 DEF Delta
  <2>11. /\ rows'[doc].l2 = "?" => doc \in unread' \/ restarts > 0
         /\ doc \in unread' => rows'[doc].l2 = "?"
    BY <1>5, <1>8, <2>7, <2>9, <2>10
  <2>12. QuestionMeansUnread'
    BY <1>2, <1>5, <1>10, <2>8, <2>11 DEF ReadingInv, QuestionMeansUnread, per_doc_hits
  <2>13. ReadsInTurn'
    <3>1. pc' = "read_before" => \A d \in Docs : d >= doc' => d > doc /\ d # doc
      BY <1>2, <1>3, <1>4
    <3> QED
      BY <1>2, <2>4, <2>8, <3>1 DEF ReadsInTurn
  <2> QED
    BY <1>2, <1>9, <2>6, <2>12, <2>13 DEF ReadingInv, ExactWindow
<1>11. CASE ~per_doc_hits
  BY <1>2, <1>9, <1>11 DEF ReadingInv, DeltaIsExact, QuestionMeansUnread, per_doc_hits
<1> QED
  BY <1>10, <1>11

\* The local tiers' reads, and a new start.
LEMMA PassReading ==
    ASSUME AttributionInv, TypeOK', ReadingInv, ReadPassBefore \/ ReadPassAfter
    PROVE  ReadingInv'
<1>1. UNCHANGED args /\ ~per_doc_hits
  BY DEF ReadPassBefore, ReadPassAfter, AttributionInv, PassReadsAreLocal
<1>2. rows' = rows \/ \A d \in Docs : rows'[d].l2 = "yes"
  BY DEF ReadPassBefore, ReadPassAfter
<1> QED
  BY <1>1, <1>2 DEF ReadingInv, Unjudged, DeltaIsExact, QuestionMeansUnread, per_doc_hits

\* A new start forgets rows and failed reads.
LEMMA RerunReading ==
    ASSUME AttributionInv, TypeOK', ReadingInv, Rerun PROVE ReadingInv'
<1>1. pc' = "wait" /\ unread' = {} /\ \A d \in Docs : rows'[d] = NoRow
  BY DEF Rerun
<1> QED
  BY <1>1 DEF ReadingInv, Unjudged, DeltaIsExact, QuestionMeansUnread, ReadsInTurn,
     ExactWindow, NoRow

\* Every step keeps the invariant.
LEMMA NextReading ==
    ASSUME AttributionInv, TypeOK', ReadingInv, [Next]_vars PROVE ReadingInv'
<1> TypeOK
  BY DEF AttributionInv
<1>1. CASE ReadBefore
  BY <1>1, ReadBeforeReading
<1>2. CASE CachedSend
  BY <1>2, CachedSendReading
<1>3. CASE ReadAfter
  BY <1>3, ReadAfterReading
<1>4. CASE ReadPassBefore \/ ReadPassAfter
  BY <1>4, PassReading
<1>5. CASE Rerun
  BY <1>5, RerunReading
<1>6. CASE \/ WaitForServer \/ WaitTimesOut \/ FlushL2 \/ ColdSend \/ Settle
           \/ Summary \/ StepRaises
  <2>1. UNCHANGED <<args, rows, served, unread, restarts>>
    BY <1>6 DEF WaitForServer, WaitTimesOut, FlushL2, ColdSend, Settle, Summary,
       StepRaises, history
  <2>2. CASE WaitForServer \/ WaitTimesOut
    BY <2>1, <2>2, OtherReading DEF WaitForServer, WaitTimesOut, AfterWait
  <2>3. CASE FlushL2
    BY <2>1, <2>3, OtherReading DEF FlushL2
  <2>4. CASE ColdSend
    <3>1. pc = "cold" /\ pc' \in {"cold", "settle", "failed"}
      BY <2>4 DEF ColdSend
    <3> QED
      BY <2>1, <3>1, OtherReading
  <2>5. CASE Settle
    BY <2>1, <2>5, OtherReading DEF Settle
  <2>6. CASE Summary \/ StepRaises
    <3>1. pc' \in {"failed", "done"}
      BY <2>6 DEF Summary, StepRaises
    <3> QED
      BY <2>1, <3>1, OtherReading
  <2> QED
    BY <1>6, <2>2, <2>3, <2>4, <2>5, <2>6
<1>7. CASE ServerStep \/ UNCHANGED vars
  <2>1. UNCHANGED <<args, rows, served, unread, pc, doc, before>>
    BY <1>7 DEF ServerStep, ServerReady, ServerDies, StatsFlush, StoreLands,
       ValkeyRestarts, harness, history, vars
  <2>2. \/ hits' = hits /\ restarts' = restarts
        \/ restarts' = restarts + 1
    BY <1>7 DEF ServerStep, ServerReady, ServerDies, StatsFlush, StoreLands,
       ValkeyRestarts, servers, history, vars
  <2>3. restarts \in Nat
    BY DEF TypeOK
  <2> QED
    BY <2>1, <2>2, <2>3, OtherReading
<1> QED
  BY <1>1, <1>2, <1>3, <1>4, <1>5, <1>6, <1>7 DEF Next, HarnessStep

\* ReadingInv holds in every reachable state.
LEMMA Reading == Spec => []ReadingInv
<1>1. AttributionInv /\ TypeOK' /\ ReadingInv /\ [Next]_vars => ReadingInv'
  BY NextReading
<1> QED
  BY <1>1, InitReading, TypeCorrect, Attribution, PTL DEF Spec

\* On the shared tier a delta is the number of lookups and retrieves its own request
\* hit, as long as Valkey was not restarted: a "no" is a miss.
THEOREM DeltasAreExact == Spec => []DeltaIsExact
<1>1. ReadingInv => DeltaIsExact
  BY DEF ReadingInv
<1> QED
  BY <1>1, Reading, PTL

\* On the shared tier "?" is said of the documents whose counter could not be read, and
\* of no others unless Valkey was restarted.
THEOREM QuestionsAreUnread == Spec => []QuestionMeansUnread
<1>1. ReadingInv => QuestionMeansUnread
  BY DEF ReadingInv
<1> QED
  BY <1>1, Reading, PTL

-----------------------------------------------------------------------------
(* FLUSHALL, and what the two nodes store after it.  `clean' says that no   *)
(* store was on its way when it ran; what reaches Valkey later is of this   *)
(* run, and of a document asked for before.                                 *)

\* --flush-l2 is the shared tier's.
FlushIsShared ==
    /\ args.flush_l2 => per_doc_hits
    /\ pc = "flush" => args.flush_l2
    /\ clean => per_doc_hits

\* Valkey holds nothing that nobody stored.
Sourced == \A d \in Docs : kv["L2"][d] > 0 => origin[d] # {}

NotYet ==
    /\ pc \in {"wait", "wait_cached", "flush"} => ~clean /\ \A d \in Docs : cold[d] = 0
    /\ pc \in BeforeCachedPass => \A d \in Docs : served[d].found = 0

\* In the cold pass nothing is held, or under way, of a document not yet sent.
Absent(d) == kv["L2"][d] = 0 /\ \A n \in Nodes : <<n, d>> \notin pending
ColdWindow ==
    clean => /\ \A d \in Docs : cold[d] = 0
             /\ pc = "cold" => \A d \in Docs : d >= doc => Absent(d)

\* The documents the second node has not been asked for.
ToCome(d) ==
    \/ pc \in {"cold", "settle"}
    \/ pc \in {"read_before", "send"} /\ d >= doc
    \/ pc = "read_after" /\ d > doc

\* They were stored by the first node alone.
OfFirst(d) == origin[d] \subseteq {"A"} /\ <<"B", d>> \notin pending
FromFirst ==
    clean /\ args.fleet =>
        \A d \in Docs :
            /\ ToCome(d) => OfFirst(d)
            /\ served[d].found > 0 => served[d].from = {"A"}

FlushInv == FlushIsShared /\ Sourced /\ NotYet /\ ColdWindow /\ FromFirst

\* Whatever Valkey holds initially is old.
LEMMA InitFlush == Init => FlushInv
<1> SUFFICES ASSUME Init PROVE FlushInv
  OBVIOUS
<1>1. FlushIsShared
  BY DEF Init, FlushIsShared, per_doc_hits
<1>2. Sourced
  <2>1. PICK old \in SUBSET Docs :
          /\ kv = [t \in Stores |-> [d \in Docs |->
                     IF t = "L2" /\ d \in old THEN Chunks ELSE 0]]
          /\ origin = [d \in Docs |-> IF d \in old THEN {"old"} ELSE {}]
    BY DEF Init
  <2>2. "L2" \in Stores
    BY DEF Stores
  <2> QED
    BY <2>1, <2>2 DEF Sourced
<1>3. pc = "wait" /\ ~clean /\ \A d \in Docs : cold[d] = 0 /\ served[d].found = 0
  BY DEF Init, Empty, NoServe
<1> QED
  BY <1>1, <1>2, <1>3 DEF FlushInv, NotYet, ColdWindow, FromFirst

\* A step of the harness that sends nothing and drops nothing.
LEMMA QuietFlush ==
    ASSUME TypeOK, TypeOK', FlushInv,
           UNCHANGED <<args, kv, pending, cold, served, origin, clean>>,
           \/ pc' = pc /\ doc' = doc
           \/ pc' = "failed"
           \/ pc = "wait" /\ pc' \in {"wait_cached", "flush", "cold"}
           \/ pc = "wait_cached" /\ pc' \in {"flush", "cold"}
           \/ pc = "settle" /\ pc' \in {"read_before", "read_pass_before"}
           \/ pc = "read_pass_before" /\ pc' = "send"
           \/ pc = "read_before" /\ pc' = "send" /\ doc' = doc
           \/ pc = "read_after" /\ pc' = "read_before" /\ doc' = doc + 1
           \/ pc' \in {"summary", "done"},
           pc' = "flush" => args.flush_l2 \/ pc = "flush",
           pc = "read_pass_before" => ~per_doc_hits
    PROVE  FlushInv'
<1>1. FlushIsShared' /\ Sourced'
  BY DEF FlushInv, FlushIsShared, Sourced, per_doc_hits
<1>2. NotYet' /\ ColdWindow'
  BY DEF FlushInv, NotYet, ColdWindow, Absent
<1>3. FromFirst'
  <2> SUFFICES ASSUME clean, args.fleet
               PROVE  \A d \in Docs : ToCome(d)' => OfFirst(d)'
    BY DEF FlushInv, FromFirst
  <2>1. per_doc_hits /\ pc \notin {"wait", "wait_cached", "flush", "read_pass_before"}
    BY DEF FlushInv, FlushIsShared, NotYet
  <2>2. doc \in Docs /\ \A d \in Docs : d \in Int
    BY DEF TypeOK, Docs
  <2>3. \A d \in Docs : ToCome(d)' => ToCome(d)
    BY <2>1, <2>2 DEF ToCome
  <2> QED
    BY <2>3 DEF FlushInv, FromFirst, OfFirst
<1> QED
  BY <1>1, <1>2, <1>3 DEF FlushInv

\* FLUSHALL.
LEMMA FlushL2Flush ==
    ASSUME TypeOK, TypeOK', FlushInv, FlushL2 PROVE FlushInv'
<1>1. /\ pc = "flush" /\ pc' \in {"cold", "failed"} /\ clean' = (pending = {}) /\ args' = args
      /\ pending' = pending /\ cold' = cold /\ served' = served
      /\ \A d \in Docs : kv'["L2"][d] = 0 /\ origin'[d] = {}
  <2>1. \A d \in Docs : kv'["L2"][d] = 0
    <3>1. kv' = [kv EXCEPT !["L2"] = Empty] /\ "L2" \in Stores
      BY DEF FlushL2, FlushAll, Stores
    <3> QED BY <3>1 DEF TypeOK, Empty
  <2> QED BY <2>1 DEF FlushL2
<1>2. per_doc_hits
  BY <1>1 DEF FlushInv, FlushIsShared
<1>3. \A d \in Docs : cold[d] = 0 /\ served[d].found = 0
  BY <1>1 DEF FlushInv, NotYet
<1>4. FlushIsShared' /\ Sourced' /\ NotYet'
  BY <1>1, <1>2, <1>3 DEF FlushInv, FlushIsShared, Sourced, NotYet, per_doc_hits
<1>5. clean' => \A d \in Docs : Absent(d)' /\ OfFirst(d)'
  BY <1>1 DEF Absent, OfFirst
<1>6. \A d \in Docs : cold'[d] = 0 /\ served'[d].found = 0
  BY <1>1, <1>3
<1>7. ColdWindow'
  BY <1>5, <1>6 DEF ColdWindow
<1>8. FromFirst'
  BY <1>5, <1>6 DEF FromFirst
<1> QED
  BY <1>4, <1>7, <1>8 DEF FlushInv

\* What a request may add to the stores under way, on the shared tier.
LEMMA ServeShared ==
    ASSUME TypeOK, per_doc_hits, NEW n \in Nodes, NEW d \in Docs,
           NEW found \in 0..Chunks, NEW got \in 0..Chunks, Serve(n, d, found, got)
    PROVE  /\ kv' = kv /\ pending' \subseteq pending \cup {<<n, d>>}
           /\ found = 0 \/ found = kv["L2"][d]
BY DEF Serve, StoreOf

\* A request of a clean cold pass finds nothing, and its store is the first node's.
LEMMA ColdSendFlush ==
    ASSUME TypeOK, TypeOK', FlushInv, ColdSend PROVE FlushInv'
<1>1. PICK found \in 0..Chunks, got \in 0..Chunks :
         /\ Serve(ColdNode, doc, found, got)
         /\ cold' = [cold EXCEPT ![doc] = found]
  BY DEF ColdSend
<1>2. /\ pc = "cold" /\ UNCHANGED <<args, served, origin, clean>>
      /\ \/ pc' = "cold" /\ doc' = doc + 1
         \/ pc' \in {"settle", "failed"}
  BY DEF ColdSend
<1>3. doc \in Docs /\ \A d \in Docs : d \in Int
  BY DEF TypeOK, Docs
<1>4. kv' = kv
  BY <1>1 DEF Serve
<1>5. FlushIsShared' /\ Sourced'
  BY <1>2, <1>4 DEF FlushInv, FlushIsShared, Sourced, per_doc_hits
<1>6. NotYet'
  BY <1>2 DEF FlushInv, NotYet
<1>7. ASSUME clean PROVE ColdWindow' /\ FromFirst'
  <2>1. per_doc_hits
    BY <1>7 DEF FlushInv, FlushIsShared
  <2>2. ColdNode \in Nodes
    BY DEF ColdNode, Nodes
  <2>3. pending' \subseteq pending \cup {<<ColdNode, doc>>} /\ (found = 0 \/ found = kv["L2"][doc])
    BY <1>1, <1>3, <2>1, <2>2, ServeShared
  <2>4. \A d \in Docs : d >= doc => Absent(d)
    BY <1>2, <1>7 DEF FlushInv, ColdWindow
  <2>5. found = 0
    BY <1>3, <2>3, <2>4 DEF Absent
  <2>6. \A d \in Docs : cold'[d] = 0
    BY <1>1, <1>7, <2>5 DEF FlushInv, ColdWindow, TypeOK
  <2>7. pc' = "cold" => \A d \in Docs : d >= doc' => Absent(d)'
    <3> SUFFICES ASSUME pc' = "cold", NEW d \in Docs, d >= doc' PROVE Absent(d)'
      OBVIOUS
    <3>1. d >= doc /\ d # doc
      BY <1>2, <1>3
    <3> QED
      BY <1>4, <2>3, <2>4, <3>1 DEF Absent
  <2>8. \A d \in Docs : args.fleet /\ OfFirst(d) => OfFirst(d)'
    BY <1>2, <2>3 DEF OfFirst, ColdNode
  <2>9. FromFirst'
    BY <1>2, <1>7, <2>8 DEF FlushInv, FromFirst, ToCome
  <2> QED
    BY <2>6, <2>7, <2>9 DEF ColdWindow
<1> QED
  BY <1>2, <1>5, <1>6, <1>7 DEF FlushInv, ColdWindow, FromFirst

\* The second node's answer comes from what the first one stored.
LEMMA CachedSendFlush ==
    ASSUME TypeOK, TypeOK', FlushInv, CachedSend PROVE FlushInv'
<1>1. PICK found \in 0..Chunks, got \in 0..Chunks :
         /\ Serve(CachedNode, doc, found, got)
         /\ served' = [served EXCEPT ![doc] =
                        [found |-> found, got |-> got,
                         from |-> IF found > 0 THEN origin[doc] ELSE {}]]
  BY DEF CachedSend
<1>2. /\ pc = "send" /\ UNCHANGED <<args, cold, origin, clean>>
      /\ per_doc_hits => pc' \in {"read_after", "failed"} /\ doc' = doc
      /\ pc' \in {"read_after", "send", "read_pass_after", "failed"}
  BY DEF CachedSend, NextDoc
<1>3. doc \in Docs /\ \A d \in Docs : d \in Int
  BY DEF TypeOK, Docs
<1>4. kv' = kv
  BY <1>1 DEF Serve
<1>5. FlushIsShared' /\ Sourced'
  BY <1>2, <1>4 DEF FlushInv, FlushIsShared, Sourced, per_doc_hits
<1>6. NotYet' /\ ColdWindow'
  BY <1>2 DEF FlushInv, NotYet, ColdWindow
<1>7. ASSUME clean, args.fleet PROVE FromFirst'
  <2>1. per_doc_hits
    BY <1>7 DEF FlushInv, FlushIsShared
  <2>2. CachedNode \in Nodes
    BY DEF CachedNode, Nodes
  <2>3. pending' \subseteq pending \cup {<<CachedNode, doc>>} /\ (found = 0 \/ found = kv["L2"][doc])
    BY <1>1, <1>3, <2>1, <2>2, ServeShared
  <2>4. ToCome(doc)
    BY <1>2, <1>3 DEF ToCome
  <2>5. OfFirst(doc)
    BY <1>3, <1>7, <2>4 DEF FlushInv, FromFirst
  <2>6. found > 0 => origin[doc] = {"A"}
    BY <1>3, <2>3, <2>5 DEF FlushInv, Sourced, OfFirst
  <2>7. \A d \in Docs : served'[d].found > 0 => served'[d].from = {"A"}
    BY <1>1, <1>3, <1>7, <2>6 DEF FlushInv, FromFirst, TypeOK
  <2>8. \A d \in Docs : ToCome(d)' => ToCome(d) /\ d # doc
    BY <1>2, <1>3, <2>1 DEF ToCome
  <2>9. \A d \in Docs : ToCome(d)' => OfFirst(d)'
    BY <1>2, <1>7, <2>3, <2>8 DEF FlushInv, FromFirst, OfFirst
  <2> QED
    BY <2>7, <2>9 DEF FromFirst
<1> QED
  BY <1>2, <1>5, <1>6, <1>7 DEF FlushInv, FromFirst

\* A store that lands was under way.
LEMMA StoreFlush ==
    ASSUME TypeOK, TypeOK', FlushInv, NEW n \in Nodes, NEW e \in Docs, StoreLands(n, e)
    PROVE  FlushInv'
<1>1. PICK c \in kv[StoreOf(n)][e]..Chunks, keep \in SUBSET (Docs \ {e}) :
         /\ per_doc_hits => keep = Docs \ {e}
         /\ kv' = [kv EXCEPT ![StoreOf(n)] = [d \in Docs |->
                     CASE d = e -> c [] d \in keep -> @[d] [] OTHER -> 0]]
         /\ origin' = IF per_doc_hits /\ c > kv[StoreOf(n)][e]
                      THEN [origin EXCEPT ![e] = @ \cup {n}] ELSE origin
  BY DEF StoreLands
<1>2. /\ <<n, e>> \in pending /\ pending' = pending \ {<<n, e>>}
      /\ UNCHANGED <<args, pc, doc, cold, served, clean>>
  BY DEF StoreLands, harness
<1>3. /\ kv \in [Stores -> [Docs -> 0..Chunks]] /\ origin \in [Docs -> SUBSET Sources]
      /\ "L2" \in Stores
  BY DEF TypeOK, Stores
<1>4. FlushIsShared' /\ NotYet'
  BY <1>2 DEF FlushInv, FlushIsShared, NotYet, per_doc_hits
<1>5. CASE ~per_doc_hits
  <2>1. kv'["L2"] = kv["L2"] /\ origin' = origin /\ ~clean
    <3>1. StoreOf(n) # "L2"
      BY <1>5 DEF StoreOf, Nodes
    <3> QED BY <1>1, <1>3, <1>5, <3>1 DEF FlushInv, FlushIsShared
  <2> QED
    BY <1>2, <1>4, <2>1 DEF FlushInv, Sourced, ColdWindow, FromFirst
<1>6. CASE per_doc_hits
  <2>1. /\ kv'["L2"][e] = c /\ \A d \in Docs \ {e} : kv'["L2"][d] = kv["L2"][d]
        /\ c \in Nat /\ kv["L2"][e] \in Nat /\ c >= kv["L2"][e]
    BY <1>1, <1>3, <1>6 DEF StoreOf
  <2>2. /\ \A d \in Docs \ {e} : origin'[d] = origin[d]
        /\ origin'[e] = IF c > kv["L2"][e] THEN origin[e] \cup {n} ELSE origin[e]
    BY <1>1, <1>3, <1>6 DEF StoreOf
  <2>3. Sourced'
    <3>1. c > 0 => origin'[e] # {}
      BY <2>1, <2>2 DEF FlushInv, Sourced
    <3> QED BY <2>1, <2>2, <3>1 DEF FlushInv, Sourced
  <2>4. \A d \in Docs : Absent(d) => Absent(d)'
    <3>1. \A d \in Docs : Absent(d) => d # e
      BY <1>2 DEF Absent
    <3> QED BY <1>2, <2>1, <3>1 DEF Absent
  <2>5. ColdWindow'
    BY <1>2, <2>4 DEF FlushInv, ColdWindow
  <2>6. \A d \in Docs : OfFirst(d) => OfFirst(d)'
    <3>1. OfFirst(e) => n = "A"
      BY <1>2 DEF OfFirst, Nodes
    <3> QED BY <1>2, <2>2, <3>1 DEF OfFirst
  <2>7. FromFirst'
    BY <1>2, <2>6 DEF FlushInv, FromFirst, ToCome
  <2> QED
    BY <1>4, <2>3, <2>5, <2>7 DEF FlushInv
<1> QED
  BY <1>5, <1>6

\* A server starts, dies or publishes its counter, or Valkey restarts.
LEMMA ServersFlush ==
    ASSUME TypeOK, TypeOK', FlushInv,
           \/ \E n \in Nodes : ServerReady(n) \/ ServerDies(n) \/ StatsFlush(n)
           \/ ValkeyRestarts
    PROVE  FlushInv'
<1>1. /\ UNCHANGED <<args, pc, doc, cold, served, clean>> /\ pending' \subseteq pending
      /\ \/ kv' = kv /\ origin' = origin
         \/ kv' = [kv EXCEPT !["L2"] = Empty] /\ origin' = [d \in Docs |-> {}]
  BY DEF ServerReady, ServerDies, StatsFlush, ValkeyRestarts, harness, history
<1>2. \/ \A d \in Docs : kv'["L2"][d] = kv["L2"][d] /\ origin'[d] = origin[d]
      \/ \A d \in Docs : kv'["L2"][d] = 0 /\ origin'[d] = {}
  BY <1>1 DEF TypeOK, Stores, Empty
<1>3. Sourced' /\ FlushIsShared' /\ NotYet'
  BY <1>1, <1>2 DEF FlushInv, Sourced, FlushIsShared, NotYet, per_doc_hits
<1>4. \A d \in Docs : (Absent(d) => Absent(d)') /\ (OfFirst(d) => OfFirst(d)')
  BY <1>1, <1>2 DEF Absent, OfFirst
<1>5. ColdWindow' /\ FromFirst'
  BY <1>1, <1>4 DEF FlushInv, ColdWindow, FromFirst, ToCome
<1> QED
  BY <1>3, <1>5 DEF FlushInv

\* After a new start nothing is clean, and what Valkey holds is old.
LEMMA RerunFlush ==
    ASSUME TypeOK, TypeOK', FlushInv, Rerun PROVE FlushInv'
<1>1. /\ pc' = "wait" /\ clean' = FALSE /\ args' = args /\ kv' = kv
      /\ \A d \in Docs : cold'[d] = 0 /\ served'[d].found = 0
      /\ \A d \in Docs : origin[d] # {} => origin'[d] # {}
  BY DEF Rerun, servers, Empty, NoServe
<1> QED
  BY <1>1 DEF FlushInv, FlushIsShared, Sourced, NotYet, ColdWindow, FromFirst, per_doc_hits

\* Every step keeps the invariant.
LEMMA NextFlush ==
    ASSUME AttributionInv, TypeOK', FlushInv, [Next]_vars PROVE FlushInv'
<1> TypeOK
  BY DEF AttributionInv
<1>1. CASE FlushL2
  BY <1>1, FlushL2Flush
<1>2. CASE ColdSend
  BY <1>2, ColdSendFlush
<1>3. CASE CachedSend
  BY <1>3, CachedSendFlush
<1>4. CASE Rerun
  BY <1>4, RerunFlush
<1>5. CASE \/ WaitForServer \/ WaitTimesOut \/ Settle \/ ReadPassBefore \/ ReadBefore
           \/ ReadAfter \/ ReadPassAfter \/ Summary \/ StepRaises
  <2>1. UNCHANGED <<args, kv, pending, cold, served, origin, clean>>
    BY <1>5 DEF WaitForServer, WaitTimesOut, Settle, ReadPassBefore, ReadBefore,
       ReadAfter, ReadPassAfter, Summary, StepRaises, servers, history
  <2>2. pc = "read_pass_before" => ~per_doc_hits
    BY DEF AttributionInv, PassReadsAreLocal
  <2>3. CASE WaitForServer
    <3>1. AfterWait = "flush" => args.flush_l2
      BY DEF AfterWait
    <3>2. AfterWait \in {"flush", "cold"}
      BY DEF AfterWait
    <3> QED BY <2>1, <2>2, <2>3, <3>1, <3>2, QuietFlush DEF WaitForServer
  <2>4. CASE WaitTimesOut \/ Settle \/ ReadPassBefore \/ ReadBefore
    BY <2>1, <2>2, <2>4, QuietFlush DEF WaitTimesOut, Settle, ReadPassBefore, ReadBefore
  <2>5. CASE ReadAfter
    BY <2>1, <2>2, <2>5, QuietFlush DEF ReadAfter, NextDoc
  <2>6. CASE ReadPassAfter \/ Summary \/ StepRaises
    BY <2>1, <2>2, <2>6, QuietFlush DEF ReadPassAfter, Summary, StepRaises
  <2> QED
    BY <1>5, <2>3, <2>4, <2>5, <2>6
<1>6. CASE ServerStep
  BY <1>6, StoreFlush, ServersFlush DEF ServerStep
<1>7. CASE UNCHANGED vars
  BY <1>7 DEF vars, harness, servers, history, FlushInv, FlushIsShared, Sourced, NotYet,
     ColdWindow, Absent, FromFirst, ToCome, OfFirst, per_doc_hits
<1> QED
  BY <1>1, <1>2, <1>3, <1>4, <1>5, <1>6, <1>7 DEF Next, HarnessStep

\* FlushInv holds in every reachable state.
LEMMA Flushing == Spec => []FlushInv
<1>1. AttributionInv /\ TypeOK' /\ FlushInv /\ [Next]_vars => FlushInv'
  BY NextFlush
<1> QED
  BY <1>1, InitFlush, TypeCorrect, Attribution, PTL DEF Spec

\* After --flush-l2 the tier answers no cold request, provided that no store of an earlier
\* run was still in flight when FLUSHALL ran.
THEOREM ColdPassIsFlushed == Spec => []FlushedColdIsCold
<1>1. FlushInv => FlushedColdIsCold
  BY DEF FlushInv, ColdWindow, FlushedColdIsCold
<1> QED
  BY <1>1, Flushing, PTL

\* A document confirmed on the second node after a clean flush was stored by the first
\* one, and by it alone.
THEOREM FleetHitsCrossNodes == Spec => []FleetReuseCrossesNodes
<1>1. AttributionInv /\ FlushInv => FleetReuseCrossesNodes
  BY DEF AttributionInv, YesMeansFound, YesIsTrue, FlushInv, FlushIsShared, FromFirst,
     FleetReuseCrossesNodes
<1> QED
  BY <1>1, Attribution, Flushing, PTL

-----------------------------------------------------------------------------
(* The harness and its promise.  A request is Ask, the read after it Judge, *)
(* a new start Restart; what the summary finds has been judged, row by row. *)

ReportInv ==
    /\ pc \notin {"done", "failed"} => report = NoReport
    /\ pc = "settle" => doc = 1
    /\ per_doc_hits =>
          /\ pc \in InCachedPass => \A d \in Docs : d < doc => rows[d].l2 # "-"
          /\ pc = "summary" => \A d \in Docs : rows[d].l2 # "-"

\* Nothing is reported initially.
LEMMA InitReport == Init => ReportInv
BY DEF Init, ReportInv

\* Every step keeps the invariant.
LEMMA NextReport ==
    ASSUME AttributionInv, TypeOK', ReportInv, [Next]_vars PROVE ReportInv'
<1>1. doc \in Docs /\ \A d \in Docs : d \in Int /\ d >= 1 /\ d <= NDocs
  BY DEF AttributionInv, TypeOK, Docs
<1>2. CASE \/ WaitForServer \/ WaitTimesOut \/ FlushL2 \/ ReadBefore \/ StepRaises
  BY <1>2 DEF WaitForServer, WaitTimesOut, FlushL2, ReadBefore, StepRaises, AfterWait,
     ReportInv, per_doc_hits
<1>3. CASE ColdSend
  BY <1>3 DEF ColdSend, ReportInv, per_doc_hits
<1>4. CASE Settle
  BY <1>1, <1>4 DEF Settle, ReportInv, per_doc_hits
<1>5. CASE CachedSend
  <2>1. CASE per_doc_hits
    BY <1>5, <2>1 DEF CachedSend, ReportInv, per_doc_hits
  <2>2. CASE ~per_doc_hits
    BY <1>5, <2>2 DEF CachedSend, NextDoc, ReportInv, per_doc_hits
  <2> QED BY <2>1, <2>2
<1>6. CASE ReadAfter
  <2>1. PICK after \in _tier_hits :
           rows' = [rows EXCEPT ![doc] = [delta |-> Delta(before, after),
                                          l2 |-> Verdict(Delta(before, after))]]
    BY <1>6 DEF ReadAfter
  <2>2. rows \in [Docs -> RowTypes] /\ after \in Int /\ before \in Int
    BY ReadType DEF AttributionInv, TypeOK
  <2>3. Verdict(Delta(before, after)) # "-"
    BY <2>2 DEF Verdict, Delta
  <2>4. rows'[doc].l2 # "-" /\ \A d \in Docs \ {doc} : rows'[d] = rows[d]
    BY <1>1, <2>1, <2>2, <2>3
  <2>5. /\ pc = "read_after" /\ UNCHANGED <<args, report>>
        /\ \/ doc < NDocs /\ doc' = doc + 1 /\ pc' = "read_before"
           \/ doc >= NDocs /\ pc' = "summary"
    BY <1>1, <1>6, NDocsAssumption DEF ReadAfter, NextDoc
  <2>6. ASSUME per_doc_hits PROVE \A d \in Docs : d <= doc => rows'[d].l2 # "-"
    BY <1>1, <2>4, <2>5, <2>6 DEF ReportInv
  <2>7. \A d \in Docs : /\ doc >= NDocs => d <= doc
                        /\ d < doc + 1 => d <= doc
    BY <1>1, NDocsAssumption
  <2> QED
    BY <2>5, <2>6, <2>7 DEF ReportInv, per_doc_hits
<1>7. CASE ReadPassBefore \/ ReadPassAfter
  <2>1. ~per_doc_hits
    BY <1>7 DEF ReadPassBefore, ReadPassAfter, AttributionInv, PassReadsAreLocal
  <2> QED
    BY <1>7, <2>1 DEF ReadPassBefore, ReadPassAfter, ReportInv, per_doc_hits
<1>8. CASE Summary \/ Rerun
  BY <1>8 DEF Summary, Rerun, ReportInv
<1>9. CASE ServerStep \/ UNCHANGED vars
  <2>1. UNCHANGED <<args, rows, pc, doc, report>>
    BY <1>9 DEF ServerStep, ServerReady, ServerDies, StatsFlush, StoreLands,
       ValkeyRestarts, harness, vars
  <2> QED
    BY <2>1 DEF ReportInv, per_doc_hits
<1> QED
  BY <1>2, <1>3, <1>4, <1>5, <1>6, <1>7, <1>8, <1>9 DEF Next, HarnessStep

\* ReportInv holds in every reachable state.
LEMMA Reporting == Spec => []ReportInv
<1>1. AttributionInv /\ TypeOK' /\ ReportInv /\ [Next]_vars => ReportInv'
  BY NextReport
<1> QED
  BY <1>1, InitReport, TypeCorrect, Attribution, PTL DEF Spec

\* What the promise sees of a state.
Found == [d \in Docs |-> served[d].found > 0]
Judged == [d \in Docs |-> rows[d].l2]
Seen == <<Found, Judged, report.verdict>>

\* It sees nothing of a step that asks for no document and writes no row.
LEMMA Unseen ==
    ASSUME UNCHANGED <<served, rows, report>> PROVE Seen' = Seen
BY DEF Seen, Found, Judged

\* Within the loop the turn is doc's.
LEMMA TurnIsDoc ==
    ASSUME AttributionInv, ReportInv, per_doc_hits, pc \in InCachedPass
    PROVE  Promise!Turn(doc) /\ report.verdict = "-"
<1>1. doc \in Docs /\ \A d \in Docs : d \in Int
  BY DEF AttributionInv, TypeOK, Docs
<1>2. \A d \in Docs : rows[d].l2 # "-" <=> d < doc
  BY <1>1 DEF AttributionInv, RowsInTurn, ReportInv
<1>3. Promise!Docs = Docs
  BY DEF Promise!Docs, Docs
<1>4. report.verdict = "-"
  BY DEF ReportInv, NoReport
<1> QED
  BY <1>2, <1>3, <1>4 DEF Promise!Turn

\* The second request of a document is Ask.
LEMMA AskStep ==
    ASSUME AttributionInv, ReportInv, per_doc_hits, CachedSend
    PROVE  Promise!Next
<1>1. doc \in Docs /\ served \in [Docs -> [found : 0..Chunks, got : 0..Chunks,
                                          from : SUBSET Sources]]
  BY DEF AttributionInv, TypeOK
<1>2. PICK r : served' = [served EXCEPT ![doc] = r]
  BY DEF CachedSend
<1>3. pc = "send" /\ rows' = rows /\ report' = report
  BY DEF CachedSend
<1>4. Found' = [Found EXCEPT ![doc] = (r.found > 0)]
  BY <1>1, <1>2 DEF Found
<1>5. Judged' = Judged
  BY <1>3 DEF Judged
<1>6. (r.found > 0) \in BOOLEAN
  OBVIOUS
<1>7. Promise!Turn(doc) /\ report.verdict = "-"
  BY <1>3, TurnIsDoc
<1>8. PICK d \in Promise!Docs : d = doc
  BY <1>1 DEF Promise!Docs, Docs
<1>9. Promise!Ask(d)
  BY <1>3, <1>4, <1>5, <1>6, <1>7, <1>8 DEF Promise!Ask, Found, Judged
<1> QED
  BY <1>8, <1>9, Zenon DEF Promise!Next

\* The read after it is Judge, and a "yes" is of a document that was found.
LEMMA JudgeStep ==
    ASSUME AttributionInv, AttributionInv', ReportInv, per_doc_hits, ReadAfter
    PROVE  Promise!Next
<1>1. doc \in Docs /\ rows \in [Docs -> RowTypes] /\ before \in Int
  BY DEF AttributionInv, TypeOK
<1>2. PICK after \in _tier_hits :
         rows' = [rows EXCEPT ![doc] = [delta |-> Delta(before, after),
                                        l2 |-> Verdict(Delta(before, after))]]
  BY DEF ReadAfter
<1>3. pc = "read_after" /\ served' = served /\ report' = report /\ args' = args
  BY DEF ReadAfter
<1> DEFINE v == Verdict(Delta(before, after))
<1>4. after \in Int
  BY <1>2, ReadType DEF AttributionInv
<1>5. v \in {"yes", "no", "?"}
  BY <1>1, <1>4 DEF Verdict, Delta
<1>6. rows'[doc].l2 = v
  BY <1>1, <1>2
<1>7. v = "yes" => Found[doc]
  BY <1>1, <1>3, <1>6 DEF AttributionInv, YesMeansFound, YesIsTrue, per_doc_hits, Found
<1>8. Judged' = [Judged EXCEPT ![doc] = v]
  BY <1>1, <1>2 DEF Judged
<1>9. Found' = Found
  BY <1>3 DEF Found
<1>10. Promise!Turn(doc) /\ report.verdict = "-"
  BY <1>3, TurnIsDoc
<1>11. PICK d \in Promise!Docs : d = doc
  BY <1>1 DEF Promise!Docs, Docs
<1>12. Promise!Judge(d)
  BY <1>3, <1>5, <1>7, <1>8, <1>9, <1>10, <1>11 DEF Promise!Judge, Found, Judged
<1> QED
  BY <1>11, <1>12, Zenon DEF Promise!Next

\* The summary is Summarise: every row has its verdict.
LEMMA SummariseStep ==
    ASSUME ReportInv, per_doc_hits, Summary
    PROVE  Promise!Next
<1>1. Promise!Docs = Docs
  BY DEF Promise!Docs, Docs
<1>2. report.verdict = "-" /\ \A d \in Docs : rows[d].l2 # "-"
  BY DEF Summary, ReportInv, NoReport
<1>3. report'.verdict = VerdictLine /\ served' = served /\ rows' = rows
  BY DEF Summary, history
<1>4. {d \in Docs : Judged[d] = "yes"} = l2_rows
  BY DEF Judged, l2_rows
<1>5. Found' = Found /\ Judged' = Judged
  BY <1>3 DEF Found, Judged
<1>6. Promise!Summarise
  BY <1>1, <1>2, <1>3, <1>4, <1>5 DEF Promise!Summarise, VerdictLine, Found, Judged
<1> QED
  BY <1>6 DEF Promise!Next

\* A new start is Restart.
LEMMA RestartStep ==
    ASSUME Rerun PROVE Promise!Next
<1>1. Promise!Docs = Docs
  BY DEF Promise!Docs, Docs
<1>2. /\ \A d \in Docs : ~(served'[d].found > 0) /\ rows'[d].l2 = "-"
      /\ report'.verdict = "-"
  BY DEF Rerun, NoServe, NoRow, NoReport
<1>3. Judged' = [d \in Docs |-> "-"]
  BY <1>2 DEF Judged
<1>4. Found' = [d \in Docs |-> FALSE]
  <2>1. ASSUME NEW d \in Docs PROVE (served'[d].found > 0) = FALSE
    BY <1>2
  <2> QED BY <2>1, Zenon DEF Found
<1> QED
  BY <1>1, <1>2, <1>3, <1>4 DEF Promise!Next, Promise!Restart, Found, Judged

\* Every step asks, judges, summarises or restarts, or is none of the promise's business.
LEMMA PromiseStep ==
    ASSUME AttributionInv, AttributionInv', ReportInv, per_doc_hits, [Next]_vars
    PROVE  Promise!Next \/ Seen' = Seen
<1>1. CASE CachedSend
  BY <1>1, AskStep
<1>2. CASE ReadAfter
  BY <1>2, JudgeStep
<1>3. CASE Summary
  BY <1>3, SummariseStep
<1>4. CASE Rerun
  BY <1>4, RestartStep
<1>5. CASE ReadPassBefore \/ ReadPassAfter
  BY <1>5 DEF ReadPassBefore, ReadPassAfter, AttributionInv, PassReadsAreLocal
<1>6. CASE \/ WaitForServer \/ WaitTimesOut \/ FlushL2 \/ ColdSend \/ Settle
           \/ ReadBefore \/ StepRaises \/ ServerStep \/ UNCHANGED vars
  <2>1. UNCHANGED <<served, rows, report>>
    BY <1>6 DEF WaitForServer, WaitTimesOut, FlushL2, ColdSend, Settle, ReadBefore,
       StepRaises, ServerStep, ServerReady, ServerDies, StatsFlush, StoreLands,
       ValkeyRestarts, harness, history, vars
  <2> QED
    BY <2>1, Unseen
<1> QED
  BY <1>1, <1>2, <1>3, <1>4, <1>5, <1>6 DEF Next, HarnessStep

\* With --backend valkey the harness keeps its promise: documents are judged in order, each
\* once, "yes" only of one the tier held, and the summary is about all of them.
THEOREM HarnessImplementsReuseReport ==
    ASSUME Backends = {"valkey"} PROVE Spec => ImplementsReuseReport
<1>1. Init => Promise!Init
  <2> SUFFICES ASSUME Init PROVE Promise!Init
    OBVIOUS
  <2>1. /\ \A d \in Docs : ~(served[d].found > 0) /\ rows[d].l2 = "-"
        /\ report.verdict = "-"
    BY DEF Init, NoServe, NoRow, NoReport
  <2>2. Promise!Docs = Docs
    BY DEF Promise!Docs, Docs
  <2>3. Judged = [d \in Docs |-> "-"]
    BY <2>1 DEF Judged
  <2>4. Found = [d \in Docs |-> FALSE]
    <3>1. ASSUME NEW d \in Docs PROVE (served[d].found > 0) = FALSE
      BY <2>1
    <3> QED BY <3>1, Zenon DEF Found
  <2> QED
    BY <2>1, <2>2, <2>3, <2>4, Zenon DEF Promise!Init, Found, Judged
<1>2. AttributionInv /\ AttributionInv' /\ ReportInv /\ [Next]_vars => [Promise!Next]_(Promise!vars)
  <2> SUFFICES ASSUME AttributionInv, AttributionInv', ReportInv, [Next]_vars
               PROVE  Promise!Next \/ Promise!vars' = Promise!vars
    OBVIOUS
  <2>1. per_doc_hits
    BY DEF AttributionInv, TypeOK, per_doc_hits
  <2>2. Promise!Next \/ Seen' = Seen
    BY <2>1, PromiseStep
  <2> QED
    BY <2>2 DEF Promise!vars, Seen, Found, Judged
<1> QED
  BY <1>1, <1>2, Attribution, Reporting, PTL DEF Spec, ImplementsReuseReport, Promise!Spec
=============================================================================
