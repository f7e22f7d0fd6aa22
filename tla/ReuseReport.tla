---------------------------- MODULE ReuseReport ----------------------------
(***************************************************************************)
(* What bench_corpus_e2e.py promises of a cached pass, without saying how  *)
(* it knows: documents are asked for one at a time, in order; each is      *)
(* judged once, after it was asked for and before the next one is; "yes"   *)
(* is said only of a document the tier under test held; and the summary    *)
(* line, "L2 RETRIEVAL CONFIRMED for every document" or one of its two     *)
(* alternatives, is printed once, about the verdicts of all of them.       *)
(***************************************************************************)
EXTENDS Integers

CONSTANT NDocs

VARIABLES
    found,     \* whether the tier held the document when it was asked for
    verdict,   \* "-" until the document is judged
    summary    \* "-" until the report is made

vars == <<found, verdict, summary>>

Docs == 1..NDocs

Init ==
    /\ found = [d \in Docs |-> FALSE]
    /\ verdict = [d \in Docs |-> "-"]
    /\ summary = "-"

\* The document whose turn it is.
Turn(d) == \A e \in Docs : verdict[e] # "-" <=> e < d

\* The tier is asked for the next document.
Ask(d) ==
    /\ Turn(d) /\ summary = "-"
    /\ \E b \in BOOLEAN : found' = [found EXCEPT ![d] = b]
    /\ UNCHANGED <<verdict, summary>>

Judge(d) ==
    /\ Turn(d) /\ summary = "-"
    /\ \E v \in {"yes", "no", "?"} :
          /\ v = "yes" => found[d]
          /\ verdict' = [verdict EXCEPT ![d] = v]
    /\ UNCHANGED <<found, summary>>

Summarise ==
    /\ summary = "-"
    /\ \A d \in Docs : verdict[d] # "-"
    /\ LET yes == {d \in Docs : verdict[d] = "yes"} IN
       summary' = CASE yes = Docs -> "every" [] yes = {} -> "none" [] OTHER -> "some"
    /\ UNCHANGED <<found, verdict>>

\* The harness is started again.
Restart ==
    /\ found' = [d \in Docs |-> FALSE]
    /\ verdict' = [d \in Docs |-> "-"]
    /\ summary' = "-"

Next == (\E d \in Docs : Ask(d) \/ Judge(d)) \/ Summarise \/ Restart

Spec == Init /\ [][Next]_vars
=============================================================================
