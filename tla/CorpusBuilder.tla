---------------------------- MODULE CorpusBuilder ----------------------------
(***************************************************************************)
(* corpus/build_corpus.py: a model is asked for scenarios, the documents   *)
(* are allocated to them, and each document is asked for, continued,       *)
(* trimmed and written; the JSONL file and the metadata come last.  Builds *)
(* follow one another over the same output directories, and any of them    *)
(* may end at any step.                                                    *)
(*                                                                         *)
(* A text is the number of tokens the local tokenizer counts in it, and a  *)
(* file on disk is what is told apart of its content: that number, or the  *)
(* entries, and the build whose text it is, which no file names.  The      *)
(* model server, the tokenizer's round trip and the noise module are not   *)
(* in the repository and are modelled from how the program uses them.      *)
(***************************************************************************)
EXTENDS Integers, Sequences, FiniteSets, Generators, Allocation

CONSTANTS
    Commands,         \* the command lines builds are started with
    Replies,          \* what Stage 1 may be answered
    FirstReplies,     \* tokens of the answer to the first prompt
    MoreReplies,      \* tokens a continuation adds, if it is not empty
    Drifts,           \* tokens a trimmed text is off the target, counted again
    NoiseDeltas,      \* tokens the noise adds or removes
    MaxContinuations, \* continuations of a document; 10 in the code
    MaxBuilds,        \* bound: the builds that are started
    MaxShares         \* bound: the numbers of documents allocations are judged for

Command == [domain : list_domains, documents : Int, target : Int,
            model : BOOLEAN, noise : BOOLEAN]

\* A scenario is told by its weight and by how its keys differ from those the
\* prompt asks for.
Scenario == [weight : Int, lacks : SUBSET STRING, extra : SUBSET STRING]
Reply == [kind : {"empty", "no_json", "no_records", "array"}, scenarios : Seq(Scenario)]

ASSUME CommandsAssumption == Commands \subseteq Command
ASSUME RepliesAssumption == Replies \subseteq Reply
ASSUME TextsAssumption ==
    /\ FirstReplies \subseteq Nat
    /\ MoreReplies \subseteq Nat \ {0}
    /\ Drifts \subseteq Int /\ NoiseDeltas \subseteq Int
ASSUME BoundsAssumption == MaxContinuations \in Nat /\ MaxBuilds \in Nat /\ MaxShares \in Nat

VARIABLES
    pc, cmd, build,      \* the running build, its arguments and number
    how,                 \* how the last build ended
    attempt,             \* _call_with_retry's loop
    scenarios, counts,   \* Stage 1 and its allocation
    s, j, doc_id,        \* build_corpus's loops
    tokens, cont, low,   \* generate_document: the text, the loop, low yields in a row
    before,              \* tokens_before_noise
    items,               \* metadata_docs, and jsonl_items, which has the same entries
    docs, jsonl, meta,   \* what is in each domain's directory
    reply,               \* history: Stage 1's answer
    fails,               \* history: failures of the current request so far
    recent               \* history: tokens of the last two continuations

disk == <<docs, jsonl, meta>>
text == <<tokens, cont, low, before, recent>>
plan == <<scenarios, counts, reply>>
loop == <<s, j, doc_id, items>>
call == <<attempt, fails>>
vars == <<pc, cmd, build, how, call, plan, loop, text, disk>>

-----------------------------------------------------------------------------
\* Beside the definitions there are mutants, operators that nothing uses: each is
\* the definition it stands before with a bug the program does not have.

MaxRetries == 3
LowYield == 50

\* int(token_target * (1 - STOP_TOLERANCE)), which cuts off towards zero.  In doubles
\* 1 - 0.02 is 0.98, as close to 98/100 as a double gets, so a product that should be
\* a whole number is one; the others are never less than 1/50 away from one.
MinTarget(target) ==
    IF target >= 0 THEN (98 * target) \div 100 ELSE -((98 * (-target)) \div 100)

\* The round trip through the tokenizer costs less than the tolerance.
ASSUME DriftsAssumption ==
    \A c \in Commands, d \in Drifts :
        c.target > 0 => c.target + d >= MinTarget(c.target)

\* What is told apart of a document's length once it is written.
Sizes == {"short", "near", "exact", "long"}
Size(n) ==
    CASE n < MinTarget(cmd.target) -> "short"
      [] n \in MinTarget(cmd.target)..(cmd.target - 1) -> "near"
      [] n = cmd.target -> "exact"
      [] n > cmd.target -> "long"

Keys(scenario) == (AsksFor[cmd.domain] \ scenario.lacks) \cup scenario.extra

Weights(scens) == [i \in DOMAIN scens |-> scens[i].weight]

\* The four ways generate_scenarios gives up on an answer: nothing, no JSON, JSON
\* that is no list of objects, keys or weight missing.
Acceptable(r) ==
    /\ r.kind = "array"
    /\ \A i \in DOMAIN r.scenarios :
          REQUIRED_SCENARIO_KEYS[cmd.domain] \subseteq Keys(r.scenarios[i])
    /\ Total(Weights(r.scenarios)) \in Nat \ {0}

Put(files, i, file) == [k \in DOMAIN files \cup {i} |-> IF k = i THEN file ELSE files[k]]

\* open(path, "w") truncates; what is written gets there when the file is closed.
Torn(b) == [build |-> b, whole |-> FALSE, tokens |-> "short"]

NoReply == [kind |-> "empty", scenarios |-> << >>]
NoList == [build |-> 0, whole |-> FALSE, target |-> 0, documents |-> 0, items |-> << >>]

\* generate_document's variables go when it returns, and when the process ends.
NoText == tokens' = 0 /\ cont' = 0 /\ low' = 0 /\ before' = 0 /\ recent' = <<0, 0>>

NoMemory ==
    /\ attempt' = 0 /\ fails' = 0
    /\ scenarios' = << >> /\ counts' = << >> /\ reply' = NoReply
    /\ s' = 1 /\ j' = 0 /\ doc_id' = 0 /\ items' = << >>

Ends(reason) == pc' = "idle" /\ how' = reason /\ NoText
Goes(label) == pc' = label /\ UNCHANGED how
Proceeds(label) == Goes(label) /\ UNCHANGED text

Domain == cmd.domain
Running == pc # "idle"

Init ==
    /\ pc = "idle" /\ build = 0 /\ how = "-"
    /\ cmd \in Commands
    /\ attempt = 0 /\ fails = 0
    /\ scenarios = << >> /\ counts = << >> /\ reply = NoReply
    /\ s = 1 /\ j = 0 /\ doc_id = 0 /\ items = << >>
    /\ tokens = 0 /\ cont = 0 /\ low = 0 /\ before = 0 /\ recent = <<0, 0>>
    /\ docs = [d \in DOMAINS |-> << >>]
    /\ jsonl = [d \in DOMAINS |-> << >>]
    /\ meta = [d \in DOMAINS |-> NoList]

-----------------------------------------------------------------------------
(* main: the command line, the model's name, the tokenizer.                 *)

Start(c) ==
    /\ pc = "idle" /\ build < MaxBuilds
    /\ cmd' = c /\ build' = build + 1
    /\ pc' = IF c.model THEN "tokenizer" ELSE "detect"
    /\ how' = "-" /\ NoMemory /\ NoText
    /\ UNCHANGED disk

\* client.models.list() names a model, or it names none or raises.
DetectModel ==
    /\ pc = "detect"
    /\ Proceeds("tokenizer") \/ Ends("no_model")
    /\ UNCHANGED <<cmd, build, call, plan, loop, disk>>

LoadTokenizer ==
    /\ pc = "tokenizer"
    /\ Proceeds("stage1") \/ Ends("no_tokenizer")
    /\ UNCHANGED <<cmd, build, call, plan, loop, disk>>

BeginStage1 ==
    /\ pc = "stage1"
    /\ IF HasStage1Prompt(Domain) THEN Proceeds("ask_scenarios") ELSE Ends("no_prompt")
    /\ UNCHANGED <<cmd, build, call, plan, loop, disk>>

-----------------------------------------------------------------------------
(* _call_with_retry.  Every request goes through it and begins at attempt 0. *)

Asking == {"ask_scenarios", "ask_first", "ask_more"}

\* Mutant: one attempt too many.
OneMore == attempt = MaxRetries

LastAttempt == attempt = MaxRetries - 1

\* No connection, a timeout or a status of 500 and above.
CallFails ==
    /\ pc \in Asking
    /\ fails' = fails + 1
    /\ IF LastAttempt
       THEN Ends("gave_up") /\ UNCHANGED attempt
       ELSE attempt' = attempt + 1 /\ Proceeds(pc)
    /\ UNCHANGED <<cmd, build, plan, loop, disk>>

\* A status below 500 is not tried again.
CallRefused ==
    /\ pc \in Asking
    /\ Ends("refused")
    /\ UNCHANGED <<cmd, build, call, plan, loop, disk>>

\* Mutant: the attempts of earlier requests count.
AttemptsAddUp == UNCHANGED attempt /\ fails' = 0

Answered == attempt' = 0 /\ fails' = 0

-----------------------------------------------------------------------------
(* generate_scenarios, then allocate_counts.                                 *)

ScenariosReply(r) ==
    /\ pc = "ask_scenarios" /\ Answered
    /\ reply' = r
    /\ IF Acceptable(r)
       THEN /\ scenarios' = r.scenarios
            /\ counts' \in Allocations(cmd.documents, Weights(r.scenarios))
            /\ Proceeds("prepare")
       ELSE Ends("bad_scenarios") /\ UNCHANGED <<scenarios, counts>>
    /\ UNCHANGED <<cmd, build, loop, disk>>

\* makedirs; with --noise, the import of corpus.noise.
PrepareOutput ==
    /\ pc = "prepare"
    /\ Proceeds("documents") \/ (cmd.noise /\ Ends("no_noise"))
    /\ UNCHANGED <<cmd, build, call, plan, loop, disk>>

-----------------------------------------------------------------------------
(* The two for loops of build_corpus, and generate_document.                 *)

\* The scenario has all its documents, or was allocated none.
NextScenario ==
    /\ pc = "documents" /\ s <= Len(scenarios) /\ j >= counts[s]
    /\ s' = s + 1 /\ j' = 0
    /\ UNCHANGED <<pc, cmd, build, how, call, plan, doc_id, items, text, disk>>

BeginDocument ==
    /\ pc = "documents" /\ s <= Len(scenarios) /\ j < counts[s]
    /\ IF Formats(Stage2Fields[Domain], Keys(scenarios[s]), Stage2Arguments)
       THEN Proceeds("ask_first") ELSE Ends("no_field")
    /\ UNCHANGED <<cmd, build, call, plan, loop, disk>>

\* max_tokens is a limit in the server's tokens, not in those counted here.
FirstReply(n) ==
    /\ pc = "ask_first" /\ Answered
    /\ tokens' = n /\ cont' = 0 /\ low' = 0
    /\ recent' = <<LowYield, LowYield>>
    /\ Goes("judge")
    /\ UNCHANGED <<cmd, build, before, plan, loop, disk>>

WantsMore == cont < MaxContinuations /\ tokens < MinTarget(cmd.target)

Continue ==
    /\ pc = "judge" /\ WantsMore
    /\ IF Formats(ContinuationFields[Domain], Keys(scenarios[s]), ContinuationArguments)
       THEN Proceeds("ask_more") ELSE Ends("no_field")
    /\ UNCHANGED <<cmd, build, call, plan, loop, disk>>

LongEnough ==
    /\ pc = "judge" /\ ~WantsMore
    /\ Proceeds("trim")
    /\ UNCHANGED <<cmd, build, call, plan, loop, disk>>

\* Mutant: an empty continuation is asked for again.
AsksAgain ==
    /\ pc = "ask_more" /\ Answered
    /\ recent' = <<recent[2], 0>>
    /\ Goes("judge")
    /\ UNCHANGED <<cmd, build, tokens, cont, low, before, plan, loop, disk>>

\* Nothing, or nothing but a <think> block.
EmptyReply ==
    /\ pc = "ask_more" /\ Answered
    /\ recent' = <<recent[2], 0>>
    /\ Goes("trim")
    /\ UNCHANGED <<cmd, build, tokens, cont, low, before, plan, loop, disk>>

\* Mutant: a good continuation does not clear the count of bad ones.
LowNeverCleared(n) == IF n < LowYield THEN low + 1 ELSE low

NewLow(n) == IF n < LowYield THEN low + 1 ELSE 0

MoreReply(n) ==
    /\ pc = "ask_more" /\ Answered
    /\ tokens' = tokens + n
    /\ low' = NewLow(n)
    /\ cont' = cont + 1
    /\ recent' = <<recent[2], n>>
    /\ Goes(IF low' >= 2 THEN "trim" ELSE "judge")
    /\ UNCHANGED <<cmd, build, before, plan, loop, disk>>

NonNegative(n) == IF n > 0 THEN n ELSE 0

\* len(ids[:target]): a target below zero drops tokens from the end.
Kept(n, target) == IF target >= 0 THEN target ELSE NonNegative(n + target)

\* A text over the target is cut, and counted again: decoding the tokens that are
\* kept and encoding the result need not give as many.
TrimToTokens(n, target) ==
    IF n <= target THEN {n} ELSE {NonNegative(Kept(n, target) + d) : d \in Drifts}

Trim ==
    /\ pc = "trim"
    /\ tokens' \in TrimToTokens(tokens, cmd.target)
    /\ before' = tokens'
    /\ Goes(IF cmd.noise THEN "noise" ELSE "open_document")
    /\ UNCHANGED <<cmd, build, cont, low, recent, call, plan, loop, disk>>

\* Mutant: the noisy text is not trimmed again.
LeftNoisy(n, target) == {n}

Retrimmed(n, target) == TrimToTokens(n, target)

AddNoise ==
    /\ pc = "noise"
    /\ \E d \in NoiseDeltas :
          tokens + d >= 0 /\ tokens' \in Retrimmed(tokens + d, cmd.target)
    /\ Goes("open_document")
    /\ UNCHANGED <<cmd, build, cont, low, before, recent, call, plan, loop, disk>>

-----------------------------------------------------------------------------
(* The files.  Opening one for writing empties it; a build that ends before *)
(* the file is closed leaves it so.                                         *)

\* Mutant: files are numbered within their scenario.
NumberInScenario == j

\* doc_{doc_id:04d}.txt
Number == doc_id

OpenDocument ==
    /\ pc = "open_document"
    /\ docs' = [docs EXCEPT ![Domain] = Put(@, Number, Torn(build))]
    /\ Proceeds("write_document")
    /\ UNCHANGED <<cmd, build, jsonl, meta, call, plan, loop>>

\* Mutant: the entry has the count from before the noise.
EntryBeforeNoise == [tokens |-> Size(before), scenario |-> s]

Entry == [tokens |-> Size(tokens), scenario |-> s]

WriteDocument ==
    /\ pc = "write_document"
    /\ docs' = [docs EXCEPT ![Domain] =
                  Put(@, Number, [build |-> build, whole |-> TRUE, tokens |-> Size(tokens)])]
    /\ items' = Append(items, Entry)
    /\ doc_id' = doc_id + 1 /\ j' = j + 1
    /\ NoText /\ Goes("documents")
    /\ UNCHANGED <<s, cmd, build, jsonl, meta, call, plan>>

\* The last scenario is done: {domain}_docs_{target}.jsonl.
OpenJsonl ==
    /\ pc = "documents" /\ s > Len(scenarios)
    /\ jsonl' = [jsonl EXCEPT ![Domain] =
                   Put(@, cmd.target, [build |-> build, whole |-> FALSE, items |-> << >>])]
    /\ Proceeds("write_jsonl")
    /\ UNCHANGED <<cmd, build, docs, meta, call, plan, loop>>

WriteJsonl ==
    /\ pc = "write_jsonl"
    /\ jsonl' = [jsonl EXCEPT ![Domain] =
                   Put(@, cmd.target, [build |-> build, whole |-> TRUE, items |-> items])]
    /\ Proceeds("open_metadata")
    /\ UNCHANGED <<cmd, build, docs, meta, call, plan, loop>>

OpenMetadata ==
    /\ pc = "open_metadata"
    /\ meta' = [meta EXCEPT ![Domain] = NoList]
    /\ Proceeds("write_metadata")
    /\ UNCHANGED <<cmd, build, docs, jsonl, call, plan, loop>>

WriteMetadata ==
    /\ pc = "write_metadata"
    /\ meta' = [meta EXCEPT ![Domain] =
                  [build |-> build, whole |-> TRUE, target |-> cmd.target,
                   documents |-> cmd.documents, items |-> items]]
    /\ Proceeds("summary")
    /\ UNCHANGED <<cmd, build, docs, jsonl, call, plan, loop>>

\* The summary divides by the number of documents and, with --noise, by the target.
Summary ==
    /\ pc = "summary"
    /\ Ends(CASE items = << >> -> "no_documents"
              [] items # << >> /\ cmd.noise /\ cmd.target = 0 -> "zero_target"
              [] OTHER -> "done")
    /\ UNCHANGED <<cmd, build, disk, call, plan, loop>>

\* Ctrl-C, a signal, or a call of the operating system that fails.
Killed ==
    /\ Running
    /\ Ends("killed") /\ NoMemory
    /\ UNCHANGED <<cmd, build, disk>>

-----------------------------------------------------------------------------
Step ==
    \/ DetectModel \/ LoadTokenizer \/ BeginStage1
    \/ CallFails \/ CallRefused
    \/ \E r \in Replies : ScenariosReply(r)
    \/ PrepareOutput \/ NextScenario \/ BeginDocument
    \/ \E n \in FirstReplies : FirstReply(n)
    \/ Continue \/ LongEnough \/ EmptyReply
    \/ \E n \in MoreReplies : MoreReply(n)
    \/ Trim \/ AddNoise
    \/ OpenDocument \/ WriteDocument \/ OpenJsonl \/ WriteJsonl
    \/ OpenMetadata \/ WriteMetadata \/ Summary

Next == (\E c \in Commands : Start(c)) \/ Step \/ Killed

\* Every request has a timeout, so the program takes its next step.
Fairness == WF_vars(Step)

Spec == Init /\ [][Next]_vars /\ Fairness

-----------------------------------------------------------------------------
Labels == {"idle", "detect", "tokenizer", "stage1", "ask_scenarios", "prepare",
           "documents", "ask_first", "judge", "ask_more", "trim", "noise",
           "open_document", "write_document", "write_jsonl", "open_metadata",
           "write_metadata", "summary"}
Reasons == {"-", "no_model", "no_tokenizer", "no_prompt", "gave_up", "refused",
            "bad_scenarios", "no_noise", "no_field", "no_documents",
            "zero_target", "done", "killed"}

\* A file's content: a document, a list of entries, or the metadata.
Items == [tokens : Sizes, scenario : Nat]
Document == [build : Nat, whole : BOOLEAN, tokens : Sizes]
Entries == [build : Nat, whole : BOOLEAN, items : Seq(Items)]
Metadata == [build : Nat, whole : BOOLEAN, target : Int, documents : Int, items : Seq(Items)]

ProcessOK ==
    /\ pc \in Labels /\ how \in Reasons
    /\ cmd \in Commands /\ build \in 0..MaxBuilds
    /\ attempt \in 0..(MaxRetries - 1) /\ fails \in 0..MaxRetries
PlanOK ==
    /\ scenarios \in Seq(Scenario) /\ reply \in Reply
    /\ DOMAIN counts = DOMAIN scenarios /\ \A i \in DOMAIN counts : counts[i] \in Int
LoopOK == s \in Nat \ {0} /\ j \in Nat /\ doc_id \in Nat /\ items \in Seq(Items)
TextOK ==
    /\ tokens \in Int /\ before \in Int
    /\ cont \in 0..MaxContinuations /\ low \in 0..2 /\ recent \in Nat \X Nat
DiskOK ==
    /\ DOMAIN docs = DOMAINS /\ DOMAIN jsonl = DOMAINS
    /\ \A d \in DOMAINS :
          /\ DOMAIN docs[d] \subseteq Nat /\ \A k \in DOMAIN docs[d] : docs[d][k] \in Document
          /\ DOMAIN jsonl[d] \subseteq Int /\ \A t \in DOMAIN jsonl[d] : jsonl[d][t] \in Entries
    /\ meta \in [DOMAINS -> Metadata]

\* The type invariant.
TypeOK == ProcessOK /\ PlanOK /\ LoopOK /\ TextOK /\ DiskOK

\* Builds overwrite one another's documents from the first one on.
Layered(files) ==
    \A i, k \in DOMAIN files : i <= k => files[i].build >= files[k].build

\* What whole metadata is worth, whatever was killed before and after it was written.
\* Every document it lists was written, whole and with the number of tokens listed,
\* by the build of the metadata, and the JSONL file it names with the same entries;
\* each is still so, or a later build has replaced it, which a killed one does without
\* withdrawing the metadata.  What a later build replaced comes before what it did
\* not, and no other document in the directory is of the metadata's build.
MetadataDescribesDisk ==
    \A d \in DOMAINS :
        /\ Layered(docs[d])
        /\ meta[d].whole =>
              LET m == meta[d] IN
              /\ \A i \in 1..Len(m.items) :
                    /\ i - 1 \in DOMAIN docs[d]
                    /\ \/ docs[d][i - 1] = [build |-> m.build, whole |-> TRUE,
                                            tokens |-> m.items[i].tokens]
                       \/ docs[d][i - 1].build > m.build
              /\ m.target \in DOMAIN jsonl[d]
              /\ \/ jsonl[d][m.target] = [build |-> m.build, whole |-> TRUE, items |-> m.items]
                 \/ jsonl[d][m.target].build > m.build
              /\ \A k \in DOMAIN docs[d] : k >= Len(m.items) => docs[d][k].build # m.build

\* All continuations were used, one was empty, or two in a row brought next to nothing.
GivenUp ==
    \/ cont = MaxContinuations
    \/ recent[2] = 0
    \/ recent[1] < LowYield /\ recent[2] < LowYield

\* A document that is about to be written short by more than the tolerance was given up
\* for one of those reasons, or it was long enough and the noise has removed the rest:
\* nothing extends a text after the noise.  One that is longer than a target it can
\* have is so only by what counting a trimmed text again may add, noise or no noise.
LengthIsExplained ==
    pc = "open_document" =>
        /\ tokens < MinTarget(cmd.target) =>
              \/ GivenUp
              \/ /\ cmd.noise /\ before >= MinTarget(cmd.target)
                 /\ tokens - before \in NoiseDeltas
        /\ cmd.target >= 0 /\ tokens > cmd.target => tokens - cmd.target \in Drifts

\* The allocation is fair, for the number of documents asked for and for any other: the
\* shares add up to it, and each is its exact quota rounded down or up, however the float
\* products come out.  Without negative weights a finished build therefore has the
\* documents asked for, and only who asks for none, or for fewer, gets the summary's
\* division by zero.
AllocationIsProportional ==
    scenarios # << >> =>
        LET weights == Weights(scenarios) IN
        /\ IsFairShare(counts, cmd.documents, weights)
        /\ pc = "prepare" =>
              \A n \in 0..MaxShares : \A shares \in Allocations(n, weights) :
                 IsFairShare(shares, n, weights)
        /\ (\A i \in DOMAIN weights : weights[i] >= 0) =>
              /\ how = "done" => Len(items) = cmd.documents
              /\ how = "no_documents" => cmd.documents <= 0

\* Builds fail for a reason.  A server that fails is given all its attempts on one and
\* the same request; scenarios that follow the prompt are not turned down, unless their
\* weights are worthless; and scenarios once accepted fill every template, unless one
\* has a key of the program's own.
FailureIsEarned ==
    /\ how = "gave_up" => fails = MaxRetries
    /\ how = "bad_scenarios" =>
          \/ reply.kind # "array"
          \/ \E i \in DOMAIN reply.scenarios : reply.scenarios[i].lacks # {}
          \/ Total(Weights(reply.scenarios)) \notin Nat \ {0}
    /\ how = "no_field" =>
          \E i \in DOMAIN scenarios :
             Keys(scenarios[i]) \cap (Stage2Arguments \cup ContinuationArguments) # {}

\* Every build that is started ends, whatever the server answers.
EveryBuildEnds == Running ~> ~Running

\* The directories are what SealedCorpus says of them; the seal is the metadata.
Sealed == INSTANCE SealedCorpus WITH
    Domains <- DOMAINS,
    seal <- [d \in DOMAINS |-> [build |-> meta[d].build, list |-> meta[d].items]]

ImplementsSealedCorpus == Sealed!Spec

\* corpus/README.md:73 says of --target-tokens "Exact token count per document".
ExactTokenCount ==
    pc = "write_document" => tokens = cmd.target
=============================================================================
